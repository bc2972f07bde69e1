# Pulsar Coin: TLA+ models and proofs

Pulsar Coin is a fork of Bitcoin Core 0.16 with Peercoin-style proof of stake,
two proof-of-work algorithms, a DarkGravityWave retarget and synchronized
checkpoints. This directory holds TLA+ models of the parts of `src/src` in
which the order of events decides the outcome, TLC configurations that check
them on small instances, and theorems that TLAPS proves for every instance.
`PROJECT.json` relates each definition to the lines it models, and lists the
runs, the hazards of the code and the theorems.

## The system and its parts

One process runs several threads: the message handler
(`net_processing.cpp`), the RPC workers, the staker and miners, `ThreadImport`
(`init.cpp`) and a scheduler thread for callbacks. They share the block index
and the chain state, guarded by `cs_main`, and call `ActivateBestChain`, which
is serialised by `m_cs_chainstate` and *releases `cs_main` between its steps*.
The chain state is written to two databases, one after the other, by
`FlushStateToDisk`; a kill at any point is followed by a restart that must make
sense of both.

| Part | Source (`src/src/`) | What it owns | Status |
|---|---|---|---|
| Block index and chain selection | `validation.cpp`, `chain.h` | `mapBlockIndex`, `chainActive`, `setBlockIndexCandidates`, `mapBlocksUnlinked`, `g_failed_blocks` | modelled: `ChainState` |
| Coins cache and coins database | `coins.cpp`, `txdb.cpp` | `pcoinsTip`, DIRTY/FRESH, partial batches, `ReplayBlocks` | modelled: `Coins` |
| Connecting and disconnecting transactions | `validation.cpp`, `undo.h` | coins, undo data | effect on coins: `Coins` |
| Synchronized checkpoints | `checkpointsync.cpp`, `.h` | current, pending and invalid checkpoint, relay | modelled: `SyncCheckpoint` |
| Alerts | `alert.cpp` | `mapAlerts`, relay, the handshake | modelled: `Alerts` |
| Memory pool | `txmempool.cpp`, `validation.cpp` | entries, links, counts, `disconnectpool`, `mempool.dat` | without fees: `Mempool` |
| Peer logic | `net_processing.cpp` | orphans; blocks in flight, waiting blocks, stalling | `TxRelay`, `BlockDownload` |
| Difficulty | `pow.cpp` | DarkGravityWave, compact targets | modelled: `Difficulty` |
| Reward schedule | `validation.cpp` | `GetBlockReward`, `GetProofOfWorkReward`, `nPOWBlockHeight` | modelled: `Minting` |
| Mining and staking | `miner.cpp` | the two loops that make blocks | heights and rewards: `Minting` |
| Scheduler and callbacks | `scheduler.cpp`, `validationinterface.cpp` | `SingleThreadedSchedulerClient` | modelled: `Callbacks` |
| RPC and HTTP | `httpserver.cpp` | the work queue and its workers | `Callbacks` |
| Start-up, import, shutdown | `init.cpp` | order of loading, `ThreadImport`, `Shutdown` | `ChainState`, `Callbacks` |
| Script check queue | `checkqueue.h` | master and workers | modelled: `CheckQueue` |
| Proof of stake | `kernel.cpp` | kernel check, stake modifier | its dependence on the transaction index and on the modifier of the parent: `ChainState` |
| Connections | `net.cpp`, `addrman.cpp`, `timedata.cpp` | sockets, addresses, time offset | not modelled |
| Wallet | `wallet/wallet.cpp` | the user's transactions | not modelled, but for the value of a coinstake |
| Script interpreter, cryptography | `script/`, `crypto/` | byte-level computation | not modelled |
| Graphical interface | `qt/` | widgets, translations | not modelled |

Vendored libraries (`leveldb`, `secp256k1`, `univalue`), generated files and
build scripts are outside the project.

## The modules

| Module | Contents |
|---|---|
| `ChainState` | the block index, `ActivateBestChain`, operator commands, flush, kill, restart |
| `ChainStateProofs`, `ChainStateBest` | theorems about `ChainState` |
| `BlockTree`, `UtxoChain` | a tree of blocks; the outputs they create and spend, and the set of coins after each block in closed form |
| `UtxoSet` | the abstract specification: one atomic set of coins |
| `Coins` | the caches over the database, flush, crash and replay |
| `CoinsProofs` | `Coins` implements `UtxoSet`, and the theorems on the way |
| `Mempool` | the memory pool over a chain that is reorganised |
| `TxRelay` | transactions from peers, on top of `Mempool` |
| `BlockDownload`, `BlockDownloadProofs` | headers, requests, answers, time-outs; theorems about them |
| `SyncCheckpoint`, `SyncCheckpointProofs` | several nodes, one of them the checkpoint master; theorems about them |
| `Alerts`, `AlertProofs` | several nodes that sign, relay and cancel alerts; theorems about them |
| `CheckQueue`, `CheckQueueProofs` | the script check queue; theorems about it |
| `SerialQueue` | the abstract specification: jobs one at a time, in order |
| `Callbacks`, `CallbackProofs` | scheduler, callbacks, HTTP workers, `Shutdown`; that they implement `SerialQueue`, and theorems about them |
| `Minting` | rewards, and the threads that make blocks |
| `Difficulty` | the target of the next block |
| `MCChainState`, `MCLedger`, `MCSyncCheckpoint`, `MCNode` | instances for TLC |

A definition `D_x` in front of `D` is `D` with a plausible defect. It takes no
part in the specification; it serves to show, for each property, a defect that
the property catches (`mutants` in `PROJECT.json`).

### ChainState

The tree of blocks is a constant: `Parent`, `Anc` (a block and its ancestors),
`Height`, `Trust` (`nChainTrust`). So are the verdicts on a block:
`BadContextual` (refused by `ContextualCheckBlock`), `BadScripts` (found invalid
by `ConnectBlock`), `CorruptOnDisk` (stored transactions that no longer match
the header: `CorruptionPossible`, unless `ConnectTip` is given the block in
memory, `pblock`), `Kernel` (the block that holds the staked
output). `bnStakeModifier` is the set of the blocks whose field of that name is the
one their chain gives: it is set when proof of stake is checked, so
`LoadExternalBlockFile`, which does not check it, leaves it unset. A kernel hashed
with a modifier that is not set is taken to fail. Everything that decides *when* a verdict is reached and what is then
done about it is in the actions.

| Code | Model |
|---|---|
| bits of `nStatus` | the sets `received`, `scriptsValid`, `failedValid`, `failedChild` |
| `nChainTx # 0` | `linked` |
| `CBlockIndexWorkComparator` | `Worse`; the pointer comparison is `address`, chosen anew at every start |
| `AcceptBlockHeader`, `ProcessNewBlockHeaders` | `ProcessNewBlockHeaders`, and `RejectHeader`, which marks the blocks between a failed block and a header refused because of it |
| `AcceptBlock`, `ReceivedBlockTransactions` | `AcceptBlock`, part of `ProcessNewBlock` and `LoadExternalBlock` |
| `ActivateBestChain` | `ABCEnter`, `ABCLock`, `FindMostWorkChainPrune`, `ABCBreak`, `ABCStep`, `DisconnectTip`, `ConnectTip` and its three failures, `ABCStepEnd`, `ABCReturn`, with `pc` and the function's locals as variables |
| `InvalidateBlock`, `ResetBlockFailureFlags`, `PreciousBlock` | actions of the same names |
| `FlushStateToDisk` | writes nothing, the index, or the index and then the coins; the thresholds are a choice from `FlushModes` |
| kill, clean shutdown, start | `Restart`, also in the middle of a flush, between the two databases |

`cs_main` is held by a thread whose `pc` is inside a step; `MainFree` says that
no one holds it, and only then do other threads act. The message handler, the
RPC thread and `ThreadImport` can all be waiting for `m_cs_chainstate`.
`ImportFile` is the set of blocks that the block files may hold, and each read
may find any of them: the order in files left by a parallel download is
arbitrary.

### SyncCheckpoint

Each node has its block index, stored blocks, current, pending and invalid
checkpoint, the two messages it keeps, and a queue of messages to every peer.
`ReceiveCheckpoint` is the message handler, `SendSyncCheckpoint` the RPC command,
`ActivateAndSend` the end of the master's `ProcessNewBlock`, which may
reorganise and then signs a new checkpoint; `AcceptBlock` ends with
`AcceptPendingSyncCheckpoint`. `Relay` is a step of its own because the code
relays after `cs_hashSyncCheckpoint` has been released. A `Restart` keeps any
ancestor-closed part of the index (the index is written at a flush) while the
checkpoint is written at once, and resets the checkpoint to the genesis block as
`init.cpp:1367` does.

### Coins

A coin is the height at which it was created, or `Spent`. The model is
pointwise: no operation on one outpoint reads another, so an action gives each
outpoint's entry after a whole block. `ConnectTip` and `DisconnectTip` build the
temporary cache of the block and merge it into `pcoinsTip` by `BatchWrite`;
`BeginFlush`, `WritePartialBatch` and `WriteFinalBatch` are
`CCoinsViewDB::BatchWrite`, whose batches may hold any of the entries left, since
the iteration order of the hash map is arbitrary. `Crash` may come at any point.
A start that finds `DB_HEAD_BLOCKS` runs `ReplayBlocks`, which undoes
(`RollBack`) and redoes (`RollForward`) one block per step on a cache, and
writes the result by the same partial batches.

Blocks are valid: on a branch, transaction identifiers are unique and an output
is created before it is spent and spent once (`UtxoBlocks`). `ChainState` treats
the invalid ones. Unspendable outputs, which are never added, are left out.

The abstraction of `Coins` to `UtxoSet` maps the view through the cache to one
set of coins, and the durable block to the database's best block or, during an
interrupted flush, to the block being flushed.

### Mempool and TxRelay

`pool` is a record of the transactions, their links (`mapLinks`) and the cached
counts of ancestors and descendants. `AcceptToMemoryPool`, `removeRecursive`,
`removeForBlock`, `removeForReorg`, `LimitMempoolSize`,
`UpdateTransactionsFromBlock` and `UpdateMempoolForReorg` are operators on that
record, and what `Expire` and `TrimToSize` remove is left open. The actions are the
callers: a transaction from outside, the steps of a reorganisation with the
bounded `disconnectpool`, its failure half-way, `DumpMempool` and `LoadMempool`,
the latter one transaction per step so that a shutdown can interrupt it. The coins under the pool are the closed form
of `UtxoChain`; that the cache provides them is what `CoinsProofs` proves.

`TxRelay` is the `TX` branch of `ProcessMessage`. The loop over `vWorkQueue` takes
one orphan per step, as a misbehaving sender changes what is done with the next.
`BlockConnected` reaches the orphans through the callback queue, so a block may
be connected well before its orphans are erased.

### BlockDownload

`flight` keeps `mapBlocksInFlight`, the lists and counters of the peers and the
counters over all of them apart, as the code does, and `InFlightExact` relates
them. An answer whose parent is missing waits in `mapBlocksWait` (an addition of
this program to Bitcoin); `BlockLoop` is the loop that processes what waited.
`mapBlocksWait` has one place per parent; `displaced` remembers the blocks that
lost theirs to a sibling.
`FindNextBlocksToDownload` with its window, the marking of a staller, both
time-outs, `GiveUp` after 60 seconds, blocks nobody asked for, compact blocks with
and without a second round, headers on invalid blocks and the loss of a
connection at every point are in the actions.

### SyncCheckpoint and Alerts: order of the handshake

`Alerts` has `VERSION` and `VERACK` as messages; `SyncCheckpoint` takes the
handshake in one step. What can fall between the two is the subject of
`missed` in `Alerts` (see below).

### CheckQueue, Callbacks

One action is one critical section of the code's mutex. A condition variable is
the set of the threads that wait on it; `notify_one` wakes any one of them, and
`interrupt_all` makes a wait throw. `Callbacks` has the task queue of
`CScheduler`, the queue of `SingleThreadedSchedulerClient` on top of it, the
threads that add callbacks and wait for them (`SyncWithValidationInterfaceQueue`),
the HTTP work queue, and the stages of `Shutdown` in the order of `init.cpp`.
`Miners` are the threads of `-gen`: `GeneratePulsar(false)` interrupts them and
nobody joins them, so they go on adding callbacks, also after `EmptyQueue`
(`lateCallbacks`), until the coins are gone.
`Populations` says which threads a configuration of the node starts.

### Minting, Difficulty

`Minting` follows the staking and the mining thread between the reads of the tip
(`miner.cpp:603`, then again inside `CreateNewBlock`), while peers add blocks at
any place of the tree. A block of proof of work adds 1 to the trust of its chain
and one of proof of stake `StakeProof` = 3 (in the code, as much as its target is
low), so the tip between two reads may have moved up, sideways or down. Rewards are the code's intervals of heights, at the
code's scale of heights; `nPOWBlockHeight` is set when a block is connected and
read when another is checked. `Difficulty` grows one chain of the three kinds of
blocks. Its words have `Width` bits and its spacings are scaled with the length
of the window, so that a product overflows if and only if it does in the code.

## What TLC checks

With `-workers 2` every run finishes in under four minutes.

| Run | Environment | Distinct states | Result |
|---|---|---|---|
| `network` | `ThreadImport` reads blocks in any order over headers of an earlier run, then two proof-of-stake branches over a common staked block arrive from a peer, one block invalid | 1,137 | `OnlyInvalidFail`, `BestChainActive`, `LinkingExact`, `NoRegress`, `ActivationTerminates` hold |
| `rpc` | two of `invalidateblock`, `preciousblock`, with `submitblock`, one invalid block | 478,724 | `CandidatesComplete` holds |
| `reset` | two of `invalidateblock`, `reconsiderblock` around an import, an invalid block, a corrupt one, one that stakes an output of the other branch | 340,691 | `ActiveChainNotFailed`, `FailedBlocksMarked` hold |
| `crash` | flushes of every kind at every point, two kills or shutdowns, one `invalidateblock`, two address orders | 648,874 | `ActiveChainConnected`, `DiskChainConnected`, `FailedMaskJustified` hold |
| `sync` | a master and a node over a fork above a hardened checkpoint: a command, a kill, a lost connection; and three alerts that cancel each other, across a break | 1,256,170 | checkpoints: `SyncAccepted`, `OneCheckpointChain`, `NoFalseAlarm`; alerts: `CancelledStayAway`, `AlertsAgree` |
| `ledger` | two branches with a transaction at different heights and one created and spent in a block; two crashes; nine transactions in the pool; two peers that send orphans; two peers that send blocks, one of which need not answer | 352,339 | `LedgerTypeOK`; coins: `NoError`, `ImplementsUtxoSet`; pool: `PoolSpendable`, `PoolLinked`, `DisconnectedReturn`, `ReloadComplete`, `UnreadStaySaved`; relay: `OrphansResolved`; download: `InFlightExact`, `AnswersKept`, `DownloadCompletes` |
| `node` | two script threads and two masters; three populations of threads around the scheduler, one with a miner; the minting threads at six heights where rewards change; chains of six blocks | 425,897 | `NodeTypeOK`; checks: `VerdictExact`, `QueueFinished`, `ControlEnds`; callbacks: `NoCallbackMissed`, `CallbacksSerial`, `EveryCallbackRuns`, `ShutdownCompletes`, `RequestsTaken`; minting: `StakerLives`, `OnlyStaleRefused`; difficulty: `RetargetNearExact` |
| `race` | `invalidateblock` during an activation | | `ActiveChainNotFailed` fails |
| `corrupt` | a block corrupted on disk, below the one that arrives | | `ActivationTerminates` fails |
| `sidekernel` | a valid block that stakes an output of its own, not yet connected branch | | `OnlyInvalidFail` fails |
| `pending` | two checkpoints whose relays overtake each other | | `PendingAdopted` fails |
| `maturity` | a coinstake, a transaction that spends it, a tip that moves back | | `PoolMature` fails |

`sync`, `ledger` and `node` each put several components in one state space.
Components of one run that share no variable are not interleaved: `driven`,
chosen at the start, says which of them a behaviour is about, so the number of
states is the sum and not the product. `TxRelay` and `Mempool` do share state and
are composed: in a behaviour of the relay the tip moves and the pool with it.

The wording of the properties, with the line of code each is about, is in the
comments above their definitions.

### Bounds

- *Trees.* Six blocks in two branches (`Pair`) are enough for a reorganisation
  of depth two that meets a failure half way; `Staked` adds a common staked block
  and a longer branch, so that one activation takes several steps; `Twig`, four
  blocks, has the two equal branches on which sequence numbers, `preciousblock`
  and addresses decide. The tree of `ledger` is the smallest on which a
  reorganisation disconnects two blocks and reconnects a transaction of them at
  another height.
- `MaxRpcs` = 2: the interesting sequences are an invalidation and a
  reconsideration of different blocks, or two invalidations.
- `MaxRestarts` = 2 in `crash`: a kill, a start that itself flushes something,
  and another kill. `MaxCrashes` = 2 in `ledger`: a crash in a flush and one in its
  replay.
- `MaxRestarts` = `MaxReconnects` = `MaxBreaks` = 1 in `sync`: a node forgets its
  index, or a connection its queue, once; the theorems cover the rest. Three
  alerts are needed for one that cancels a canceller.
- In the pool, three is the limit on ancestors, descendants and size: a chain of
  three transactions meets every limit. `maxDisconnected` = 2 keeps a parent and
  its child, which must come back in this order, and overflows with the third
  transaction disconnected. Two orphans reach the limit of the orphan pool.
- Download: a window and a queue of two blocks, so that both fill up; one
  reconnection of the peer that need not answer.
- Check queue: three checks for two script threads and two masters, so that
  threads differ in what they get and one control waits for another. With three
  checks every batch is of one check; larger batches are covered by the theorems
  about `CheckQueue`. Callbacks: two services and an HTTP worker, or a service and
  the message handler, or a service, the import thread and a miner, besides the
  main thread. `SyncLimit` = 0 makes every activation wait for the queue, which the
  code does beyond ten; three callbacks or requests.
- Difficulty: 24 bits and digits of two bits keep the ratio of the limits to the
  word and of a digit to a target; a window of two blocks; six blocks cross the
  fork heights and fill a window of two kinds.
- Sequence numbers and queues are bounded by the finite sets above: every message
  and every block changes something once.

### Fairness

- `FairSpec` of `ChainState` is weak fairness of `Activation` as a whole. A thread
  inside `ActivateBestChain`, and `ThreadImport` once its files are read, wait for
  nothing but locks, and `m_cs_chainstate` and `cs_main` are released by steps that
  are themselves in `Activation`. No arrival of a block or command is assumed.
- `Fairness` of `SyncCheckpoint` (only `pending` uses it): messages in a queue are
  read, blocks eventually arrive at every node and a thread between processing
  and relaying a checkpoint goes on; nothing is lost in that run.
- `DownloadFairness`: the message handler serves its peers in turn, so what stays
  to be done for a connected peer is done: a due timer is seen, a request sent, a
  message read. Only the peers in `Responsive` connect again, announce and answer;
  nothing is assumed of the others. These conditions are written as
  `[]<>(nothing to do) \/ []<><<step>>`, which is weak fairness with the enabling
  condition spelled out.
- `NodeFairness`: every script thread, master and thread of `Callbacks` that can take
  a step takes it; an interrupted thread, and the message handler once it is told
  to stop, come to their end. Clients need not send requests and the process
  need not be stopped.

`Alerts`, `Coins`, `Mempool`, `TxRelay`, `Minting` and `Difficulty` have no liveness
property: nothing in them waits.

## Where code and comments disagree

The five runs that end in a violation are findings in `PROJECT.json`.

- `race`: `ActivateBestChain` keeps `pindexMostWork` across the release of
  `cs_main`. An `invalidateblock` in between marks a block on the way to it; the
  next step connects it nevertheless, and `FindMostWorkChain`, which never looks
  at the active chain ("we know all blocks in it are valid already"), does not
  undo it.
- `corrupt`: a stored block that no longer matches its header, and that must be
  read because it is not the block at hand, is neither marked nor dropped from
  the candidates, so the loop chooses the same target again without end.
- `sidekernel`: `AcceptBlock` marks a block as failed when the staked transaction
  is not in the transaction index, also when it is in a stored ancestor that has
  not been connected, although a comment says that this is expected. The same
  happens when the parent of the block was read by `LoadExternalBlockFile` and has
  not been connected: its `bnStakeModifier` is not set, and the kernel is hashed
  with it.
- `pending`: a checkpoint waiting for its block is forgotten when an older
  checkpoint is processed after it.
- `maturity`: `removeForReorg` drops immature spends of coinbases, not those of
  coinstakes, which no block may contain either.

Further differences were met on the way and have no run of their own:

- After `reconsiderblock`, ancestors of the block whose flags are cleared are not
  offered as candidates (`validation.cpp:2855` only clears flags), so a branch
  that ends in such an ancestor can stay inactive although nothing marks it. The
  `rpc` run therefore states `CandidatesComplete` without `reconsiderblock`, and
  `reset` states the properties that do hold with it.
- A block received while its parent is marked failed is not put in
  `mapBlocksUnlinked` (`validation.cpp:2944`); when the mark is cleared later
  nothing links it. `LinkingExact` therefore asks for blocks without a failed
  ancestor only.
- `reconsiderblock` clears the marks of a block's descendants and ancestors. A
  descendant of the same failed ancestor on another branch keeps its
  `BLOCK_FAILED_CHILD` although no ancestor of it is marked any more, which
  `CheckBlockIndex` (line 4483) excludes. `FailedMaskJustified` is checked
  without `reconsiderblock`.
- Candidates that have become worse than the tip stay in
  `setBlockIndexCandidates` where `CheckBlockIndex` (line 4498) excludes it; they
  are harmless, and no property here forbids them.
- `GetBlockReward` has `nHeight >= 45000000 && nHeight < 4700000` (line 1074), an
  empty interval between two intervals of two million blocks. The reward falls to
  its last value at 45000000 and rises again at 47000000. A coinstake valued for
  the height before is then too large: `StakerLives` and `OnlyStaleRefused` fail with
  47000000 among `BaseHeights`, and hold at the other heights.
- `pow.cpp:143` multiplies a target by a timespan in 256 bits. The limit of
  MinotaurX leaves 12 bits, the timespan of a window before `reductionForkBlock`
  can need 14. `RetargetNearExact` excepts this case (`MayWrap`).
- A thread of `threadGroup` that waits for the callback queue to drain when
  `Shutdown` has already ended the scheduler waits for ever
  (`validation.cpp:2660`, `init.cpp:207`). So does one that waits for
  `m_cs_chainstate` while a miner waiting in this way holds it.
  `ShutdownCompletes` and `EveryCallbackRuns` except the two (`CaughtWaiting`).
- `Shutdown` interrupts the miners and does not join them (`init.cpp:190`,
  `miner.cpp:834`). A block that one connects after `EmptyQueue` has callbacks that
  are dropped. `NoCallbackMissed` excepts them (`lateCallbacks`).
- A MinotaurX block dated before `powForkTime`, on a parent dated after it, must
  carry a target under the MinotaurX limit and is checked against the lower
  `powLimit` (`pow.cpp:207`). `RetargetNearExact` is about blocks dated after the
  fork.
- `ContextualCheckBlock` reads `nPOWBlockHeight` of a parent that need not be
  connected (`validation.cpp:3317`); it is 0 then, and the coinbase is checked
  against the reward of another height. `OnlyStaleRefused` shows that no block made
  by the rules is refused for it; that one with too large a coinbase passes is
  not modelled.
- `miner.cpp:603` reads the tip before `CreateNewBlock` reads it again; when it
  has moved in between, the block gets the height of the first tip and is
  refused. `OnlyStaleRefused` says that nothing else is refused.
- `ForEachNode` passes over a peer whose `VERACK` has not come, so an alert (and a
  checkpoint) accepted between its `VERSION` and `VERACK` never reaches it.
  `AlertsAgree` excepts what is in `missed`.
- A transaction delivered twice enters `recentRejects` (`net_processing.cpp:2335`),
  and a peer is blamed for blocks another delivered (`net_processing.cpp:2857`).
  Both are in the models; no property forbids them, as no line promises
  otherwise.

## What is proved

Each theorem holds for every value of the constants that satisfies the
assumptions of its module. TLC evaluates these assumptions in the runs, and each
inductive invariant below was first checked by TLC as an invariant.

### ChainState

For every block tree that satisfies `TreeAssumed`, every verdict on the blocks,
every set of commands, every flush policy and any number of commands and restarts
(`EnvironmentAssumed`):

| Theorem | Statement |
|---|---|
| `TypeCorrect` | `Spec => []TypeOK` |
| `ActiveChainSound` | the active chain is always indexed, received and validated |
| `ScriptsSound` | `BLOCK_VALID_SCRIPTS` is closed under ancestors |
| `DiskSound` | whenever the process is killed, the best block of the coins database heads a chain that the block-index database has in full |
| `IndexSound` | `nChainTx` is set only when all ancestors are received; `g_failed_blocks` holds only blocks marked failed |
| `ActiveChainUnfailed` | after start-up no block of the active chain is marked failed while `cs_main` is free |
| `FailuresJustified` | a failed block descends from one marked `BLOCK_FAILED_VALID` |
| `LinkingSound` | `nChainTx` and `mapBlocksUnlinked` are exact |
| `BestChainWins` | when the calls of `ActivateBestChain` have returned, no chain that has its data and is not known to be invalid is better than the active one |
| `NoCandidateForgotten` | while `cs_main` is free, every linked block without an invalid ancestor that is not worse than the tip is a candidate |
| `ForwardProgress` | no critical section of `ActivateBestChain` ends on a worse tip than it found |
| `VerdictsDeserved` | only a block that violates a rule is marked `BLOCK_FAILED_VALID`, if the staked output is indexed and the modifier of the parent set whenever they are looked up |
| `VerdictsWithoutImport` | the same, without the condition on the modifier, if no block files are imported |

The first eight, but for `TypeCorrect`, assume `InvalidateWaits`: if `invalidateblock` is used, it
comes when no activation is between two of its steps. This is not a convenience:
`race` shows the command in between, after which a failed block is on the active
chain, and the invariant below, which the argument for the assertion in
`AcceptBlockHeader` (`FailedBlocksMarked`) needs, is false. Blocks, headers,
flushes and the other commands are not restricted: they may come between any two
steps. `FailuresJustified` also assumes that `reconsiderblock` is not used:
clearing the mark of a block leaves `BLOCK_FAILED_CHILD` on a sibling branch.
`LinkingSound` assumes that neither command is used: a block received on top of
an invalidated one that still waits for data is not noted in
`mapBlocksUnlinked`.

The three about the best chain assume `Undisturbed`, and each part of it is
needed: TLC finds them violated without it.

- `reconsiderblock` is not used. It clears marks of blocks that it does not offer
  as candidates again.
- `invalidateblock` comes between activations, and the process is not restarted if
  it is used. A process that is killed after the mark was written and before the
  coins were starts on a failed tip. `ReceivedBlockTransactions` does not offer a
  block that is worse than that tip, and it may be better than what the tip then
  falls back to.
- The blocks in the files that `ThreadImport` reads stake outputs of their own chain,
  if any (`OwnStake`). Proof of stake is not checked when they are read, and when the
  output is not indexed `ConnectTip` fails without marking the block: an activation
  by `submitblock` ends there, possibly below the tip it began with.

`VerdictsDeserved` needs none of these. It assumes that `invalidateblock` is not
used and two conditions on the behaviour. `KernelsIndexed`: when a thread can
present a block, the output the block stakes is in the transaction index if the data
of its parent is there. `ModifiersKnown`: the modifier of this parent is then set.
TLC finds both true in `network`, and `KernelsIndexed` false in `sidekernel`. So there are
two situations in which a valid block is marked: that of the `sidekernel` finding,
and a parent that was imported and not connected. `VerdictsWithoutImport` proves
that the second needs an import: in a node that reads no block files every stored
block has its modifier, in memory and, whatever is flushed, on disk.

None of the properties is inductive. A restart builds the active chain from
whatever the databases hold, so the databases need an invariant, and what is
written depends on which entries are dirty. `ChainInv` (`ChainStateProofs`)
adds:

- `IndexInv`: the index is closed under ancestors, and only linked blocks are
  candidates or targets of an activation. A target that is linked has all the
  data on its way, so `ConnectTip` only meets received blocks.
- `FailInv`: a target has no failed ancestor, and a failed block on the active
  chain (a restart can produce one: the tip of the coins database can be older
  than the mark) has only failed descendants and is no candidate. Without the
  last two, `FindMostWorkChain` could stop at the active chain above such a
  block.
- `DiskInv`: what the databases lack of the index is dirty. It makes a flush
  exact and survives a kill between the two writes because the index is written
  first.

The marks need three more (`FateInv`):

- `StartInv`: the genesis block stays a candidate without a mark, so an activation
  always has a place to go back to, and when one returns the active chain is clean.
  During start-up it need not be: the mark can be older than the coins.
- `MaskInv` with `MarksLag` and `Explained`: between a failed block and the
  invalid one it descends from there is no gap in the marks in memory. On disk
  there may be gaps, as an entry marked `BLOCK_FAILED_CHILD` need not be dirty, but
  an entry marked `BLOCK_FAILED_VALID` always is; so a database explains its own
  marks, and loading it closes the gaps.
- `LinkInv`: a received block is linked, noted in `mapBlocksUnlinked`, or waits
  for a failed block that will never be received.

The best chain needs more (`TxIndexed` and `BestInv`, in `ChainStateBest`):

- `BaseInv` and `TxIndexed`: the active chain is linked and without a mark. The
  output that a received block stakes is indexed or lies below it, and what is
  validated is indexed, so it is found when the block is connected: an activation
  fails only on a block that it then marks, or one it cannot read.
- `OfferInv`: a block without an invalid ancestor is a candidate if it is not worse
  than the tip *at the last moment `cs_main` was free*. Blocks arrive only then, and
  `ReceivedBlockTransactions` does not offer one that is worse than the tip; within
  a critical section the tip moves down before it moves up again.
- `SearchInv`: the tip that a critical section began with stays free of marks and
  validated, so the section can always go back to it, and its target is not worse.
- `CallInv`: when no thread is about to call `ActivateBestChain`, no candidate is
  better than the target of the call in progress or, at its end, than the tip. Every
  step that adds a candidate is followed by a call, and a call that waits sees it.

That `CBlockIndexWorkComparator` is a strict total order (`WorseOrder`) and that
trust grows along a chain (`TrustGrows`) are lemmas of their own.

`ChainStateProofs` proves facts about ancestors, one lemma for each kind of step
about `ChainInv` and `FateInv`, the types, and the theorems. Each step lemma has one
case per part of the invariant that the step can disturb.

### Coins

For every tree of valid blocks (`Tree`, `UtxoBlocks`), every set of outpoints
and any number of crashes:

| Theorem | Statement |
|---|---|
| `CoinsTyped` | `Spec => []TypeOK` |
| `FlagsCorrect` | a FRESH entry is one the database does not have, a clean one does not differ from it |
| `NeverThrows` | no `AddCoin`, `SpendCoin` or `BatchWrite` throws or fails an assertion, also during a replay |
| `DatabaseSound` | a database that names a best block holds exactly the coins of it |
| `CoinsRefine` | `Spec => ImplementsUtxoSet`: caches, batches, crashes and replay are one atomic set of coins |

The argument is about one outpoint at a time. `EntryOK(e, below)` says that the
flags of an entry are right for the coin below it, and the lemmas `FetchSound`,
`SpendSound`, `AddSound`, `WriteSound` say what each operation of
`CCoinsViewCache` does to an entry that is. From them follow `ConnectSound`,
`DisconnectSound` and `RollforwardSound`, about a whole block. The invariant
`CoinsInv` has a part for each phase. The important ones are:

- `DiskInv`: while `DB_HEAD_BLOCKS` is present, each coin in the database is that
  of the old head or that of the new one, and nothing is known about which.
- `RollingInv`: during a replay, each coin shown is that of `pindex`, the block
  reached, or already that of the new head. This is why `DisconnectBlock` may find
  outputs missing and inputs present and why replaying needs `AddCoin` with
  overwriting; at the new head the two cases are one.
- `UndoInv`: the undo data of every block that may have to be undone after a
  crash is on disk, because it is flushed before the coins.

### BlockDownload

For every tree of blocks, whichever of them are stored, invalid, announced or sent
without having been asked for, any finite set of peers, responsive or not, any
window and limit on requests (`Tree`, `DownloadConstants`) and any number of
connections and compact blocks:

| Theorem | Statement |
|---|---|
| `DownloadTyped` | `DownloadSpec => []DownloadTypeOK`, in particular no peer ever owes more than `MAX_BLOCKS_IN_TRANSIT_PER_PEER` blocks |
| `InFlightAgrees` | `mapBlocksInFlight`, the lists, the counters, the partial blocks and the stalling marks agree (`InFlightExact`) |
| `NoAnswerLost` | a block a responsive peer owes has its answer on the way, waits for its parent, waited until a sibling was delivered and took its place, or the peer is being dropped (`AnswersKept`) |

`DownloadInv` has a part for each piece of state:

- `FlightOK`, about the value of `flight` alone. `ReceivedOK` and `InFlightOK` show
  that `MarkBlockAsReceived` and `MarkBlockAsInFlight` keep it, with what they do
  to the count of busy peers; `RequestOK` carries it over a whole list of requests.
  That the lists hold no block twice is what makes the counters right.
- `PeerInv`: only indexed blocks other than the genesis block are in flight. The
  genesis block has no parent for `mapBlocksWait` to wait for, so an answer with it
  would be dropped without a trace. `FindNextBlocksToDownload` and `DirectFetch` do
  not ask for it because it is an ancestor of the tip and stored.
- `WaitInv`: a waiting block that is not indexed was not asked for and is processed
  before the handler ends, so `GiveUp` releases indexed blocks only.
- `AnswersInv`: `AnswersKept` with the kind of the answer. A BLOCKTXN on its way is
  of use only while the partial block is still there; when the block arrives
  otherwise, or the request moves to another peer, it no longer counts.

The walk of `FindNextBlocksToDownload`, the list of `DirectFetch` and the list of
requests are recursive functions. What each step keeps holds at the end by a least
counterexample (`LeastNat`, `IterationStays`); that the functions are defined by
their equations is `IterationExists`. `NextFound` and `DirectFetchFits` say that what
is asked for is indexed and within the limit, and that a staller is named only if it
owes a block and nothing can be asked for.

One fact came out of the proof: nothing but the two reasons above keeps the genesis
block from being asked for.

### SyncCheckpoint

For every tree of blocks in which the hardened checkpoint is comparable with
every block (`CheckpointTree`, `CheckpointEnvironment`), any number of nodes,
commands, restarts and reconnections:

| Theorem | Statement |
|---|---|
| `AcceptedSound` | types; the checkpoint of a node is in its index; the message it offers is that of its checkpoint |
| `ChainSound` | the checkpoints of all nodes lie on one chain |
| `AlarmSound` | no node but the master records an invalid checkpoint |

The last two assume that the master is not restarted. A restart resets its
checkpoint to the genesis block (`init.cpp:1367`), after which it may sign
checkpoints on another branch, and both properties are false. `CheckpointInv`
says that everything the master ever sent (`Sent`: on the wire, about to be
relayed, pending or kept as a message at any node) is an ancestor of the
checkpoint it has now; together with the hardened checkpoint this is one chain.

### CheckQueue

For any number of script threads, masters and checks and every batch size:

| Theorem | Statement |
|---|---|
| `VerdictSound` | the verdict a master reads is true exactly if all checks of its block succeed |
| `ControlSound` | when the control is gone nothing is queued or running and `fAllOk` is reset |

`QueueInv` says that the checks of the block are dealt out once (`Dealt`), that
`nTodo` counts those outstanding (`Counted`), and that `fAllOk` is right about
those that have reported (`Judged`). Every critical section ends in the loop body,
so `LoopBodySound` is proved once, for the state in which a thread has reported its
batch, and used by all actions.

### Callbacks

For any number of scheduler threads, HTTP workers, message handlers, import
threads and miners, any bound on the callbacks and any depth of the work queue:

| Theorem | Statement |
|---|---|
| `CallbacksTyped` | `CallbackSpec => []CallbackTypeOK`, in particular `nThreadsServicingQueue` is the number of threads inside `serviceQueue` |
| `EmptyQueueAsserted` | the assertion of `EmptyQueue` never fails |
| `ShutdownMissesNone` | when `EmptyQueue` returns every callback ever added has run; after it only that of the last flush is dropped, and those that miners still add |
| `CallbacksImplementSerial` | `CallbackSpec => CallbacksSerial`: all threads together are one queue that runs its callbacks one at a time, in order |

The callbacks are numbered as they are added. `CallbackInv` says that those
pending are the last ones and that, of those taken, at most the last has not run to
its end (`InOrder`), because `m_are_callbacks_running` stands for exactly one
thread (`OneAtATime`); and which threads have ended at each stage of `Shutdown`
(`Staged`). `RunByScheduler` says that the miners do not run callbacks themselves,
so that when the scheduler's threads are gone only the main thread does; and
`NoCallbackMissed` is carried along, as what miners add between `EmptyQueue` and the
end is told apart only by when it was added. Every action is one of five kinds as far as the queue is concerned
(`Kinds`), and the invariant and the refinement are proved per kind.

### Alerts

For any number of nodes, connections, reconnections, restarts and alerts:

| Theorem | Statement |
|---|---|
| `CancelledNeverReturn` | no node holds an alert that one it has accepted since it started cancels |
| `PeersAgree` | connected nodes that have read everything agree on the alerts in effect, unless one fell between VERSION and VERACK |

`mapAlerts` forgets cancelled alerts, so neither is inductive. The invariant is that
a node is *settled* about every alert it has accepted, relayed or told a peer of:
while the alert has not expired, the node holds it or one that cancels it. It
survives the cancellation of the canceller because operators number their alerts,
cancel only earlier ones and let later ones last no shorter, which is how the model
issues them (`InSequence`). `PeerSettled` carries this across a connection.

### Only model-checked

- Liveness: `ActivationTerminates`, `PendingAdopted`, `DownloadCompletes`,
  `ControlEnds`, `EveryCallbackRuns`, `ShutdownCompletes`,
  `RequestsTaken`. The prover has no fairness.
- `Mempool`, `TxRelay`, `Minting` and `Difficulty`. The pool rests on reachability in
  `mapLinks` and on folds over sets, the targets on a recursion over the window with
  words that wrap. The library's induction theorems cannot be used, as they take an
  operator as a parameter. What is kept along a recursion over heights or positions
  can be shown by a least counterexample, as in `BlockDownload`; the value of a fold
  over a set, or the closure of a relation, has not been.

All proofs were also checked with a corrected axiom about `Len`: the translation to
SMT of the prover's version 1.4.5 lets every value pass for a sequence once `Len` is
mentioned. No step depends on it.

## Not modelled

- *Connections* (`net.cpp`, `addrman.cpp`, `timedata.cpp`): sockets and name
  resolution are input and output; the address manager is a randomised table
  whose guarantees are statistical. That the messages of a connection are read in
  order, and that one message handler serves all peers, is built into the models.
- *Wallet*: it keeps one user's records of what the chain contains and is told of
  by callbacks, whose order `Callbacks` checks; no other component depends on it.
- *Script interpreter, hashing, signatures, the kernel hash*: byte-level
  computation, out of reach of explicit states. A block, script or kernel is good
  or bad.
- *Graphical interface*: widgets, and the files of translated strings in
  `qt/locale`, in which there is no behaviour.
- *Of the modelled parts.* `validation.cpp`: pruning (this program never prunes),
  `-stopatheight` and `ShutdownRequested` inside the loop, disk errors
  (`AbortNode`), `vStakeSeen`, blocks that fail `CheckBlock` and so never reach
  the index, the rewinding of the index for an old witness rule, `VerifyDB`.
  `checkpointsync.cpp`: signatures, `CheckSyncCheckpoint` (a stub that always
  accepts), the commented-out `SetBestChain`. `coins.cpp`: memory accounting,
  cursors, the upgrade of old formats. `txmempool.cpp`: amounts, and with them
  fees, replacement, prioritisation and the order of eviction.
  `net_processing.cpp`: serving data, addresses, bloom and fee filters, pings and
  the eviction of outbound peers, which change no state the properties read.
  `alert.cpp`: the reserved alert of a compromised key, ranges of versions, and
  the unlocked access of the RPC thread to `setKnown`, whose outcome is not
  defined. `miner.cpp`: the choice of transactions. RPC: parsing and formatting.
