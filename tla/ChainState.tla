----------------------------- MODULE ChainState -----------------------------
(***************************************************************************)
(* The block index and the selection of the active chain: class            *)
(* CChainState of src/src/validation.cpp, the threads that call it         *)
(* (message handler, RPC, ThreadImport of init.cpp) and what of it reaches *)
(* the block-index and coins databases.                                    *)
(*                                                                         *)
(* A block is abstracted to its place in the tree (Parent, Anc, Height,    *)
(* Trust) and to how it fares in validation (BadContextual, BadScripts,    *)
(* CorruptOnDisk, Kernel).  The bits of nStatus are sets of blocks.  Since *)
(* this program never prunes, BLOCK_HAVE_DATA, nTx > 0 and                 *)
(* BLOCK_VALID_TRANSACTIONS are written together and never cleared: one    *)
(* set, received, stands for the three.                                    *)
(*                                                                         *)
(* A definition D_x placed before D is D with a plausible defect: it is    *)
(* not part of the specification, and shows which property would notice.   *)
(***************************************************************************)
EXTENDS Integers, FiniteSets

CONSTANTS
  Blocks,            \* every block the node may hear of
  Genesis,           \* chainparams.GenesisBlock()
  NoBlock,           \* nullptr
  Parent,            \* pprev; Parent[Genesis] = NoBlock
  Anc,               \* Anc[b]: b and all its ancestors
  Height,            \* nHeight
  Trust,             \* nChainTrust
  BadContextual,     \* blocks ContextualCheckBlock rejects
  BadScripts,        \* blocks ConnectBlock finds invalid
  CorruptOnDisk,     \* blocks whose stored transactions no longer match the header
  Kernel,            \* the block holding the staked output, NoBlock for proof of work
  InitialHeaders,    \* headers an earlier run left in the block-index database
  ImportFile,        \* blocks in the files read by ThreadImport
  nMinimumChainWork, \* least trust of an unrequested block
  MIN_BLOCKS_TO_KEEP,\* how far ahead of the tip an unrequested block may be
  Rpcs,              \* the operator's commands in use
  RpcAnyTime,        \* whether they may come while a chain is being activated
  FlushModes,        \* what FlushStateToDisk may decide to write
  AddressOrders,     \* the orders of heap addresses a process start may give
  MaxRestarts,       \* bound on process restarts
  MaxRpcs            \* bound on operator commands

TreeAssumption ==
  /\ \A S \in SUBSET Blocks : Cardinality(S) \in Nat       \* there are finitely many
  /\ Genesis \in Blocks
  /\ NoBlock \notin Blocks
  /\ Parent \in [Blocks -> Blocks \cup {NoBlock}]
  /\ Anc \in [Blocks -> SUBSET Blocks]
  /\ Height \in [Blocks -> Nat]
  /\ Trust \in [Blocks -> Nat]
  /\ \A b \in Blocks : (Parent[b] = NoBlock) <=> (b = Genesis)
  /\ Anc[Genesis] = {Genesis}
  /\ \A b \in Blocks \ {Genesis} :
        /\ Anc[b] = {b} \cup Anc[Parent[b]]
        /\ b \notin Anc[Parent[b]]
        /\ Height[b] = Height[Parent[b]] + 1
        /\ \A a \in Anc[Parent[b]] : Trust[a] < Trust[b]
  /\ \A b \in Blocks : \A a \in Anc[b] : Genesis \in Anc[b] /\ Anc[a] \subseteq Anc[b]
  /\ \A b \in Blocks : \A x, y \in Anc[b] : x \in Anc[y] \/ y \in Anc[x]

ASSUME TreeAssumed == TreeAssumption

Modes == {"none", "index", "full"}
Threads == {"import", "msghand", "rpc"}

ASSUME EnvironmentAssumed ==
  /\ BadContextual \subseteq Blocks \ {Genesis}
  /\ BadScripts \subseteq Blocks \ {Genesis}
  /\ CorruptOnDisk \subseteq Blocks \ {Genesis}
  /\ Kernel \in [Blocks -> Blocks \cup {NoBlock}]
  /\ ImportFile \subseteq Blocks \ {Genesis}
  /\ InitialHeaders \subseteq Blocks \ {Genesis}
  /\ \A b \in InitialHeaders : Anc[b] \subseteq InitialHeaders \cup {Genesis}
  /\ nMinimumChainWork \in Nat /\ MIN_BLOCKS_TO_KEEP \in Nat
  /\ Rpcs \subseteq {"invalidateblock", "reconsiderblock", "preciousblock", "submitblock"}
  /\ RpcAnyTime \in BOOLEAN
  /\ "none" \in FlushModes /\ FlushModes \subseteq Modes
  /\ AddressOrders \subseteq [Blocks -> Nat] /\ AddressOrders # {}
  /\ \A o \in AddressOrders : \A a, b \in Blocks : o[a] = o[b] => a = b
  /\ MaxRestarts \in Nat /\ MaxRpcs \in Nat
-----------------------------------------------------------------------------
VARIABLES
  (* The block index: mapBlockIndex and the fields of its entries. *)
  mapBlockIndex, received, scriptsValid, failedValid, failedChild,
  linked,              \* nChainTx # 0
  bnStakeModifier,     \* the blocks whose bnStakeModifier is the one their chain gives
  nSequenceId, address,
  (* CChainState. *)
  chainTip, setBlockIndexCandidates, mapBlocksUnlinked, g_failed_blocks,
  nBlockSequenceId, nBlockReverseSequenceId, nLastPreciousChainwork,
  pindexBestHeader, pindexBestInvalid,
  (* Persistence. *)
  setDirtyBlockIndex,
  disk,                \* the block-index database and the best block of the coins database
  txIndex,             \* blocks whose transactions the transaction index holds
  (* The threads, and the locals of the one inside ActivateBestChain. *)
  fImporting,          \* ThreadImport has not finished
  waiting,             \* threads about to enter ActivateBestChain
  pblock,              \* the block each of them has in memory
  holder,              \* the thread that holds m_cs_chainstate
  pc, pindexMostWork, pindexNewTip, starting_tip, pindexOldTip, blocks_connected,
  (* Bounds. *)
  restarts, rpcs

indexVars == <<mapBlockIndex, received, scriptsValid, failedValid, failedChild,
               linked, bnStakeModifier, nSequenceId, address>>
stateVars == <<chainTip, setBlockIndexCandidates, mapBlocksUnlinked, g_failed_blocks,
               nBlockSequenceId, nBlockReverseSequenceId, nLastPreciousChainwork,
               pindexBestHeader, pindexBestInvalid>>
diskVars  == <<setDirtyBlockIndex, disk, txIndex>>
localVars == <<pindexMostWork, pindexNewTip, starting_tip, pindexOldTip, blocks_connected>>
abcVars   == <<waiting, pblock, holder, pc, localVars>>
boundVars == <<restarts, rpcs>>
vars == <<indexVars, stateVars, diskVars, fImporting, abcVars, boundVars>>
-----------------------------------------------------------------------------
(* Predicates on index entries. *)

Failed == failedValid \cup failedChild                 \* nStatus & BLOCK_FAILED_MASK
Active == Anc[chainTip]                                \* chainActive
HaveTransactions(b) == b \in received /\ b \notin Failed   \* IsValid(BLOCK_VALID_TRANSACTIONS)
MoreTrust(a, b) == IF b = NoBlock THEN TRUE ELSE Trust[a] > Trust[b]

(* CBlockIndexWorkComparator: a sorts before (is worse than) b. *)
WorseBy(seq, addr, a, b) ==
  \/ Trust[a] < Trust[b]
  \/ /\ Trust[a] = Trust[b]
     /\ \/ seq[a] > seq[b]
        \/ seq[a] = seq[b] /\ addr[a] > addr[b]

Worse(a, b) == WorseBy(nSequenceId, address, a, b)

(* cs_main is free: no step of ActivateBestChain is in its critical section. *)
MainFree == pc \in {"idle", "unlocked", "exit"}
Idle(t) == t \notin waiting /\ holder # t
Quiescent == waiting = {} /\ holder = "none"
-----------------------------------------------------------------------------
(* Persistence. *)

(* The block-index database after a batch that writes the entries in dirty. *)
Merge(old, new, dirty) == (old \ dirty) \cup (new \cap dirty)

Written(dirty, index, data, scripts, invalid, child, modifier, best) ==
  [map          |-> Merge(disk.map, index, dirty),
   received     |-> Merge(disk.received, data, dirty),
   scriptsValid |-> Merge(disk.scriptsValid, scripts, dirty),
   failedValid  |-> Merge(disk.failedValid, invalid, dirty),
   failedChild  |-> Merge(disk.failedChild, child, dirty),
   modifier     |-> Merge(disk.modifier, modifier, dirty),
   tip          |-> best]

(* FlushStateToDisk at the end of a step that left dirty entries: nothing,  *)
(* the block index only, or the block index and then the coins.             *)
FlushStateToDisk_coinsOnly(mode, dirty) ==
  /\ setDirtyBlockIndex' = IF mode = "index" THEN {} ELSE dirty
  /\ disk' = CASE mode = "none"  -> disk
              [] mode = "index" -> Written(dirty, mapBlockIndex', received', scriptsValid',
                                           failedValid', failedChild', bnStakeModifier',
                                           disk.tip)
              [] mode = "full"  -> [disk EXCEPT !.tip = chainTip']
FlushStateToDisk(mode, dirty) ==
  /\ setDirtyBlockIndex' = IF mode = "none" THEN dirty ELSE {}
  /\ disk' = IF mode = "none" THEN disk
             ELSE Written(dirty, mapBlockIndex', received', scriptsValid', failedValid',
                          failedChild', bnStakeModifier',
                          IF mode = "full" THEN chainTip' ELSE disk.tip)

(* What FLUSH_STATE_IF_NEEDED may decide: a full flush or none. *)
IfNeeded == FlushModes \ {"index"}
-----------------------------------------------------------------------------
(* Headers. *)

(* The parent descends from a block found invalid after its header was      *)
(* accepted.                                                                *)
PrevOnFailedBranch(b) ==
  Parent[b] \notin scriptsValid /\ Anc[Parent[b]] \cap g_failed_blocks # {}

(* AcceptBlockHeader succeeds: the header is known and not failed, or new   *)
(* and on a good parent.                                                    *)
HeaderOk(b) ==
  \/ b \in mapBlockIndex \ Failed
  \/ /\ b \notin mapBlockIndex
     /\ Parent[b] \in mapBlockIndex \ Failed
     /\ ~ PrevOnFailedBranch(b)

AddToBlockIndex(b) ==
  /\ mapBlockIndex' = mapBlockIndex \cup {b}
  /\ pindexBestHeader' = IF b \notin mapBlockIndex /\ MoreTrust(b, pindexBestHeader)
                           THEN b ELSE pindexBestHeader

(* setDirtyBlockIndex once the header of b has been accepted. *)
DirtyWithHeader(b) ==
  IF b \in mapBlockIndex THEN setDirtyBlockIndex ELSE setDirtyBlockIndex \cup {b}

(* A peer announces the header of b. *)
ProcessNewBlockHeaders(b) ==
  /\ MainFree /\ ~ fImporting /\ Idle("msghand")
  /\ b \notin mapBlockIndex
  /\ HeaderOk(b)
  /\ AddToBlockIndex(b)
  /\ setDirtyBlockIndex' = DirtyWithHeader(b)
  /\ UNCHANGED <<received, scriptsValid, failedValid, failedChild, linked, bnStakeModifier,
                 nSequenceId, address, chainTip, setBlockIndexCandidates, mapBlocksUnlinked,
                 g_failed_blocks, nBlockSequenceId, nBlockReverseSequenceId,
                 nLastPreciousChainwork, pindexBestInvalid, disk, txIndex, fImporting,
                 abcVars, boundVars>>

(* Some thread is about to hand the header of b to AcceptBlockHeader. *)
Presented(b) ==
  \/ ~ fImporting /\ Idle("msghand")
  \/ "submitblock" \in Rpcs /\ Idle("rpc")
  \/ fImporting /\ Idle("import") /\ b \in ImportFile

(* The header of b is refused because its parent descends from a failed     *)
(* block; the blocks in between are marked on the way.                      *)
RejectHeader(b) ==
  /\ MainFree /\ Presented(b)
  /\ b \notin mapBlockIndex
  /\ Parent[b] \in mapBlockIndex \ Failed
  /\ PrevOnFailedBranch(b)
  /\ \E failedit \in g_failed_blocks \cap Anc[Parent[b]] :
       LET walk == Anc[Parent[b]] \ Anc[failedit]
       IN  /\ failedChild' = failedChild \cup walk
           /\ setDirtyBlockIndex' = setDirtyBlockIndex \cup walk
  /\ UNCHANGED <<mapBlockIndex, received, scriptsValid, failedValid, linked, bnStakeModifier,
                 nSequenceId, address, stateVars, disk, txIndex, fImporting, abcVars,
                 boundVars>>
-----------------------------------------------------------------------------
(* Blocks. *)

(* CheckProofOfStake cannot find the staked output in the transaction index. *)
KernelUnknown_belowTip(b) == Kernel[b] # NoBlock /\ Kernel[b] \notin txIndex \ {chainTip}
KernelUnknown(b) == Kernel[b] # NoBlock /\ Kernel[b] \notin txIndex

(* CheckStakeKernelHash hashes with the modifier of the parent; the hash    *)
(* with another one is taken not to meet the target.                        *)
WrongModifier(b) == Kernel[b] # NoBlock /\ Parent[b] \notin bnStakeModifier

(* PulsarContextualBlockChecks computes the modifier of b once b has        *)
(* passed, from what the parent has, be it set or not.                      *)
ComputeStakeModifier(b) ==
  bnStakeModifier' = IF Parent[b] \in bnStakeModifier THEN bnStakeModifier \cup {b}
                     ELSE bnStakeModifier \ {b}

(* The blocks that b completes: b and the descendants that a path of        *)
(* entries of mapBlocksUnlinked joins to it.                                *)
NewlyLinked_noWalk(b) == {b}
NewlyLinked(b) ==
  {b} \cup {d \in mapBlocksUnlinked : b \in Anc[d] /\ Anc[d] \ Anc[b] \subseteq mapBlocksUnlinked}

(* Sequence numbers given in the order of the breadth-first walk. *)
WalkNumberings(S) ==
  {ids \in [S -> nBlockSequenceId .. nBlockSequenceId + Cardinality(S) - 1] :
     \A x, y \in S : x # y => ids[x] # ids[y] /\ (Height[x] < Height[y] => ids[x] < ids[y])}

(* b is noted as waiting for its parent's data. *)
WaitsForParent(b) == Parent[b] \notin Failed

ReceivedBlockTransactions(b) ==
  /\ received' = received \cup {b}
  /\ IF Parent[b] \in linked
       THEN LET new == NewlyLinked(b)
            IN \E ids \in WalkNumberings(new) :
                 /\ linked' = linked \cup new
                 /\ nSequenceId' = [x \in Blocks |-> IF x \in new THEN ids[x] ELSE nSequenceId[x]]
                 /\ nBlockSequenceId' = nBlockSequenceId + Cardinality(new)
                 /\ setBlockIndexCandidates' = setBlockIndexCandidates \cup
                      {x \in new : ~ WorseBy(nSequenceId', address, x, chainTip)}
                 /\ mapBlocksUnlinked' = mapBlocksUnlinked \ new
       ELSE /\ mapBlocksUnlinked' = IF WaitsForParent(b)
                                      THEN mapBlocksUnlinked \cup {b} ELSE mapBlocksUnlinked
            /\ UNCHANGED <<linked, nSequenceId, nBlockSequenceId, setBlockIndexCandidates>>

(* The early returns of AcceptBlock, in their order. *)
PrevNotValid(b, fCheckPoS) == fCheckPoS /\ ~ HaveTransactions(Parent[b])

NotWanted(b, fRequested) ==
  \/ b \in received
  \/ /\ ~ fRequested
     /\ \/ Trust[b] < Trust[chainTip]
        \/ Height[b] > Height[chainTip] + MIN_BLOCKS_TO_KEEP
        \/ Trust[b] < nMinimumChainWork

Rejected(b, fCheckPoS) ==
  b \in BadContextual \/ (fCheckPoS /\ (KernelUnknown(b) \/ WrongModifier(b)))

AcceptBlockOk(b, fRequested, fCheckPoS) ==
  ~ PrevNotValid(b, fCheckPoS) /\ (NotWanted(b, fRequested) \/ ~ Rejected(b, fCheckPoS))

AcceptBlock(b, fRequested, fCheckPoS) ==
  /\ HeaderOk(b)
  /\ AddToBlockIndex(b)
  /\ \/ /\ PrevNotValid(b, fCheckPoS) \/ NotWanted(b, fRequested)
        /\ setDirtyBlockIndex' = DirtyWithHeader(b)
        /\ UNCHANGED <<received, failedValid, linked, bnStakeModifier, nSequenceId,
                       nBlockSequenceId, setBlockIndexCandidates, mapBlocksUnlinked>>
     \/ /\ ~ PrevNotValid(b, fCheckPoS) /\ ~ NotWanted(b, fRequested)
        /\ Rejected(b, fCheckPoS)
        /\ failedValid' = failedValid \cup {b}
        /\ setDirtyBlockIndex' = DirtyWithHeader(b) \cup {b}
        /\ UNCHANGED <<received, linked, bnStakeModifier, nSequenceId, nBlockSequenceId,
                       setBlockIndexCandidates, mapBlocksUnlinked>>
     \/ /\ ~ PrevNotValid(b, fCheckPoS) /\ ~ NotWanted(b, fRequested)
        /\ ~ Rejected(b, fCheckPoS)
        /\ IF fCheckPoS THEN ComputeStakeModifier(b) ELSE UNCHANGED bnStakeModifier
        /\ ReceivedBlockTransactions(b)
        /\ setDirtyBlockIndex' = DirtyWithHeader(b) \cup {b}
        /\ UNCHANGED failedValid
  /\ UNCHANGED <<scriptsValid, failedChild, address, chainTip, g_failed_blocks,
                 nBlockReverseSequenceId, nLastPreciousChainwork, pindexBestInvalid,
                 disk, txIndex>>

(* That a thread has b in memory matters, and is recorded, only if the copy *)
(* on disk is bad.                                                          *)
InMemory(b) == IF b \in CorruptOnDisk THEN b ELSE NoBlock

(* A peer, submitblock or the staker hands over b; when it is accepted the  *)
(* thread goes on to ActivateBestChain, with the block in memory.           *)
ProcessNewBlock(t, b, fRequested) ==
  /\ MainFree /\ Idle(t)
  /\ \/ t = "msghand" /\ ~ fImporting
     \/ t = "rpc" /\ fRequested /\ "submitblock" \in Rpcs
  /\ AcceptBlock(b, fRequested, TRUE)
  /\ waiting' = IF AcceptBlockOk(b, fRequested, TRUE) THEN waiting \cup {t} ELSE waiting
  /\ pblock' = IF AcceptBlockOk(b, fRequested, TRUE) THEN [pblock EXCEPT ![t] = InMemory(b)]
               ELSE pblock
  /\ UNCHANGED <<fImporting, holder, pc, localVars, boundVars>>

(* LoadExternalBlockFile reaches a block whose parent is known (a block     *)
(* whose parent is not is put aside until the parent has been read).        *)
LoadExternalBlock(b) ==
  /\ MainFree /\ fImporting /\ Idle("import")
  /\ b \in ImportFile \ received
  /\ Parent[b] \in mapBlockIndex
  /\ AcceptBlock(b, TRUE, FALSE)
  /\ UNCHANGED <<fImporting, abcVars, boundVars>>

(* ThreadImport has read its files and activates the best chain. *)
ImportActivate ==
  /\ fImporting /\ Idle("import")
  /\ pc # "shutdown"
  /\ waiting' = waiting \cup {"import"}
  /\ UNCHANGED <<indexVars, stateVars, diskVars, fImporting, pblock, holder, pc, localVars,
                 boundVars>>
-----------------------------------------------------------------------------
(* ActivateBestChain.  Between ABCLock and the release of cs_main no other  *)
(* thread touches the index; while pc = "unlocked" all of them may.         *)

ABCEnter(t) ==
  /\ holder = "none" /\ t \in waiting
  /\ pc = "idle"
  /\ holder' = t
  /\ waiting' = waiting \ {t}
  /\ pc' = "unlocked"
  /\ UNCHANGED <<indexVars, stateVars, diskVars, fImporting, pblock, localVars, boundVars>>

ABCLock ==
  /\ pc = "unlocked"
  /\ starting_tip' = chainTip
  /\ blocks_connected' = FALSE
  /\ pc' = "find"
  /\ UNCHANGED <<indexVars, stateVars, diskVars, fImporting, waiting, pblock, holder,
                 pindexMostWork, pindexNewTip, pindexOldTip, boundVars>>

(* The thread leaves ActivateBestChain; ok is its result.  ThreadImport     *)
(* asks for a shutdown when it failed, and ends otherwise.                  *)
ABCLeave(ok) ==
  /\ holder' = "none"
  /\ pblock' = [pblock EXCEPT ![holder] = NoBlock]
  /\ pc' = IF holder = "import" /\ ~ ok THEN "shutdown" ELSE "idle"
  /\ fImporting' = IF holder = "import" THEN FALSE ELSE fImporting
  /\ pindexMostWork' = NoBlock /\ pindexNewTip' = NoBlock
  /\ starting_tip' = NoBlock /\ pindexOldTip' = NoBlock
  /\ blocks_connected' = FALSE

(* The end of the outer loop's body: cs_main is released. *)
ABCUnlock(newTip, mostWork) ==
  /\ pc' = IF newTip = mostWork THEN "exit" ELSE "unlocked"
  /\ pindexNewTip' = newTip
  /\ pindexMostWork' = mostWork
  /\ starting_tip' = NoBlock /\ pindexOldTip' = NoBlock
  /\ blocks_connected' = FALSE
  /\ UNCHANGED <<pblock, holder, fImporting>>

(* FindMostWorkChain. *)
IsBestCandidate_begin(c) ==
  /\ c \in setBlockIndexCandidates
  /\ \A d \in setBlockIndexCandidates \ {c} : Worse(c, d)
IsBestCandidate(c) ==
  /\ c \in setBlockIndexCandidates
  /\ \A d \in setBlockIndexCandidates \ {c} : Worse(d, c)

PathToActive(b) == Anc[b] \ Active
Unusable_onlyMissing(b) == {x \in PathToActive(b) : x \notin received}
Unusable(b) == {x \in PathToActive(b) : x \in Failed \/ x \notin received}

(* An iteration that meets an unusable block and removes the blocks above   *)
(* it from the candidates.                                                  *)
FindMostWorkChainPrune ==
  /\ pc = "find" /\ pindexMostWork = NoBlock
  /\ \E pindexNew \in setBlockIndexCandidates :
       /\ IsBestCandidate(pindexNew)
       /\ \E pindexTest \in Unusable(pindexNew) :
            LET above == Anc[pindexNew] \ Anc[pindexTest]
            IN /\ above \cap Unusable(pindexNew) = {}
               /\ setBlockIndexCandidates' = setBlockIndexCandidates \ (above \cup {pindexTest})
               /\ IF pindexTest \in Failed
                    THEN /\ failedChild' = failedChild \cup above
                         /\ pindexBestInvalid' = IF MoreTrust(pindexNew, pindexBestInvalid)
                                                   THEN pindexNew ELSE pindexBestInvalid
                         /\ UNCHANGED mapBlocksUnlinked
                    ELSE /\ mapBlocksUnlinked' = mapBlocksUnlinked \cup above
                         /\ UNCHANGED <<failedChild, pindexBestInvalid>>
  /\ UNCHANGED <<mapBlockIndex, received, scriptsValid, failedValid, linked, bnStakeModifier,
                 nSequenceId, address, chainTip, g_failed_blocks, nBlockSequenceId,
                 nBlockReverseSequenceId, nLastPreciousChainwork, pindexBestHeader,
                 diskVars, fImporting, abcVars, boundVars>>

(* The most-work chain: the one chosen before cs_main was last released, or *)
(* the best candidate once it is usable, or none.                           *)
FoundMostWork(m) ==
  \/ m # NoBlock /\ m = pindexMostWork
  \/ pindexMostWork = NoBlock /\ setBlockIndexCandidates = {} /\ m = NoBlock
  \/ pindexMostWork = NoBlock /\ IsBestCandidate(m) /\ Unusable(m) = {}

(* Nothing to do. *)
ABCBreak ==
  /\ pc = "find"
  /\ \E m \in {NoBlock, chainTip} :
       /\ FoundMostWork(m)
       /\ IF blocks_connected
            THEN ABCUnlock(pindexNewTip, m)
            ELSE ABCLeave(TRUE)
  /\ UNCHANGED <<indexVars, stateVars, diskVars, waiting, boundVars>>

(* ActivateBestChainStep begins. *)
ABCStep ==
  /\ pc = "find"
  /\ \E m \in Blocks \ {chainTip} :
       FoundMostWork(m) /\ pindexMostWork' = m
  /\ pindexOldTip' = chainTip
  /\ pc' = "step"
  /\ UNCHANGED <<indexVars, stateVars, diskVars, fImporting, waiting, pblock, holder,
                 pindexNewTip, starting_tip, blocks_connected, boundVars>>

(* The tip is not the fork with the chain of pindexMostWork yet. *)
AboveFork == chainTip \notin Anc[pindexMostWork]

DisconnectTip ==
  /\ pc = "step" /\ AboveFork
  /\ chainTip' = Parent[chainTip]
  /\ UNCHANGED <<indexVars, setBlockIndexCandidates, mapBlocksUnlinked, g_failed_blocks,
                 nBlockSequenceId, nBlockReverseSequenceId, nLastPreciousChainwork,
                 pindexBestHeader, pindexBestInvalid, txIndex>>
  /\ \E mode \in IfNeeded : FlushStateToDisk(mode, setDirtyBlockIndex)
  /\ UNCHANGED <<fImporting, abcVars, boundVars>>

(* The step is over: the target is reached, or the tip is already better    *)
(* than when the step began.                                                *)
StepDone ==
  /\ chainTip \in Anc[pindexMostWork]
  /\ chainTip = pindexMostWork \/ Trust[chainTip] > Trust[pindexOldTip]

Connecting == pc = "step" /\ chainTip \in Anc[pindexMostWork] /\ ~ StepDone

(* b is the next block towards pindexMostWork. *)
NextToConnect(b) == Connecting /\ b \in Anc[pindexMostWork] /\ Parent[b] = chainTip

(* After a step, with mostWork the target to keep: go on until the tip is   *)
(* not worse than it was when cs_main was taken.                            *)
AfterStep_once(tip, mostWork) == ABCUnlock(tip, mostWork)
AfterStep(tip, mostWork) ==
  IF Worse(tip, starting_tip)
    THEN /\ pc' = "find"
         /\ pindexMostWork' = mostWork
         /\ pindexNewTip' = tip
         /\ pindexOldTip' = NoBlock
         /\ blocks_connected' = TRUE
         /\ UNCHANGED <<starting_tip, pblock, holder, fImporting>>
    ELSE ABCUnlock(tip, mostWork)

ABCStepEnd ==
  /\ pc = "step" /\ StepDone
  /\ AfterStep(chainTip, pindexMostWork)
  /\ UNCHANGED <<indexVars, stateVars, diskVars, waiting, boundVars>>

(* ConnectTip reads b from disk, unless it is the target and in memory, and *)
(* the stored block does not match its header.                              *)
ReadCorrupt(b) == b \in CorruptOnDisk /\ ~ (b = pindexMostWork /\ b = pblock[holder])

(* ConnectTip succeeds. *)
ConnectTip(b) ==
  /\ NextToConnect(b)
  /\ ~ KernelUnknown(b) /\ ~ WrongModifier(b) /\ ~ ReadCorrupt(b) /\ b \notin BadScripts
  /\ ComputeStakeModifier(b)
  /\ chainTip' = b
  /\ scriptsValid' = IF b \in Failed THEN scriptsValid ELSE scriptsValid \cup {b}
  /\ txIndex' = txIndex \cup {b}
  /\ UNCHANGED <<mapBlockIndex, received, failedValid, failedChild, linked, nSequenceId,
                 address, setBlockIndexCandidates, mapBlocksUnlinked, g_failed_blocks,
                 nBlockSequenceId, nBlockReverseSequenceId, nLastPreciousChainwork,
                 pindexBestHeader, pindexBestInvalid>>
  /\ \E mode \in IfNeeded : FlushStateToDisk(mode, setDirtyBlockIndex \cup {b})
  /\ UNCHANGED <<fImporting, abcVars, boundVars>>

(* ConnectBlock finds the block invalid, by its kernel or its scripts:      *)
(* InvalidBlockFound, then the caller forgets the target.                   *)
ConnectTipInvalid(b) ==
  /\ NextToConnect(b)
  /\ ~ KernelUnknown(b)
  /\ \/ WrongModifier(b) /\ UNCHANGED bnStakeModifier
     \/ ~ WrongModifier(b) /\ ~ ReadCorrupt(b) /\ b \in BadScripts /\ ComputeStakeModifier(b)
  /\ failedValid' = failedValid \cup {b}
  /\ g_failed_blocks' = g_failed_blocks \cup {b}
  /\ setDirtyBlockIndex' = setDirtyBlockIndex \cup {b}
  /\ setBlockIndexCandidates' = setBlockIndexCandidates \ {b}
  /\ pindexBestInvalid' = IF MoreTrust(b, pindexBestInvalid) THEN b ELSE pindexBestInvalid
  /\ AfterStep(chainTip, NoBlock)
  /\ UNCHANGED <<mapBlockIndex, received, scriptsValid, failedChild, linked, nSequenceId,
                 address, chainTip, mapBlocksUnlinked, nBlockSequenceId,
                 nBlockReverseSequenceId, nLastPreciousChainwork, pindexBestHeader,
                 disk, txIndex, waiting, boundVars>>

(* The block read does not match its header: the failure is "possibly       *)
(* corruption", so nothing is marked and only the target is forgotten.  The *)
(* kernel is taken to have been read well.                                  *)
ConnectTipCorrupt(b) ==
  /\ NextToConnect(b)
  /\ ~ KernelUnknown(b) /\ ~ WrongModifier(b) /\ ReadCorrupt(b)
  /\ ComputeStakeModifier(b)
  /\ setDirtyBlockIndex' = setDirtyBlockIndex \cup {b}
  /\ AfterStep(chainTip, NoBlock)
  /\ UNCHANGED <<mapBlockIndex, received, scriptsValid, failedValid, failedChild, linked,
                 nSequenceId, address, stateVars, disk, txIndex, waiting, boundVars>>

(* The proof-of-stake check fails without a verdict on the block: the whole *)
(* of ActivateBestChain fails.                                              *)
ConnectTipError(b) ==
  /\ NextToConnect(b)
  /\ KernelUnknown(b)
  /\ ABCLeave(FALSE)
  /\ UNCHANGED <<indexVars, stateVars, diskVars, waiting, boundVars>>

(* The final FlushStateToDisk(FLUSH_STATE_PERIODIC) and the return. *)
ABCReturn ==
  /\ pc = "exit"
  /\ ABCLeave(TRUE)
  /\ UNCHANGED <<indexVars, stateVars, txIndex>>
  /\ \E mode \in FlushModes : FlushStateToDisk(mode, setDirtyBlockIndex)
  /\ UNCHANGED <<waiting, boundVars>>
-----------------------------------------------------------------------------
(* The operator's commands; each goes on to ActivateBestChain. *)

RpcReady(name) ==
  /\ MainFree /\ Idle("rpc")
  /\ name \in Rpcs /\ rpcs < MaxRpcs
  /\ RpcAnyTime \/ Quiescent

RpcActivates ==
  /\ rpcs' = rpcs + 1
  /\ waiting' = waiting \cup {"rpc"}
  /\ UNCHANGED <<restarts, fImporting, pblock, holder, pc, localVars>>

(* The blocks offered again as candidates once tip is the active tip. *)
Reoffered_oldTip(tip, failed) ==
  {x \in received \cap linked : x \notin failed /\ ~ Worse(x, chainTip)}
Reoffered(tip, failed) ==
  {x \in received \cap linked : x \notin failed /\ ~ Worse(x, tip)}

(* A flush by one of the DisconnectTip calls: nothing is marked yet. *)
MidwayFlush_marked(marked) ==
  /\ "full" \in FlushModes
  /\ \E x \in marked :
       disk' = Written(setDirtyBlockIndex \cup marked, mapBlockIndex, received, scriptsValid,
                       failedValid, failedChild \cup marked, bnStakeModifier, Parent[x])
  /\ setDirtyBlockIndex' = marked
MidwayFlush(marked) ==
  /\ "full" \in FlushModes
  /\ \E x \in marked :
       disk' = Written(setDirtyBlockIndex, mapBlockIndex, received, scriptsValid,
                       failedValid, failedChild, bnStakeModifier, Parent[x])
  /\ setDirtyBlockIndex' = marked

(* InvalidateBlock: disconnect down to below b (a flush may happen on the   *)
(* way, before anything is marked), mark, and offer every other usable      *)
(* chain.                                                                   *)
InvalidateBlock(b) ==
  /\ RpcReady("invalidateblock")
  /\ b \in mapBlockIndex \ {Genesis}
  /\ LET walk   == IF b \in Active THEN Active \ Anc[b] ELSE {}
         marked == walk \cup {b}
     IN /\ chainTip' = IF b \in Active THEN Parent[b] ELSE chainTip
        /\ failedChild' = failedChild \cup walk
        /\ failedValid' = failedValid \cup {b}
        /\ g_failed_blocks' = g_failed_blocks \cup {b}
        /\ setBlockIndexCandidates' = (setBlockIndexCandidates \ marked) \cup
             Reoffered(chainTip', failedValid' \cup failedChild')
        /\ pindexBestInvalid' = IF MoreTrust(b, pindexBestInvalid) THEN b ELSE pindexBestInvalid
        /\ \/ /\ setDirtyBlockIndex' = setDirtyBlockIndex \cup marked
              /\ UNCHANGED disk
           \/ b \in Active /\ MidwayFlush(marked)
  /\ RpcActivates
  /\ UNCHANGED <<mapBlockIndex, received, scriptsValid, linked, bnStakeModifier, nSequenceId,
                 address, mapBlocksUnlinked, nBlockSequenceId, nBlockReverseSequenceId,
                 nLastPreciousChainwork, pindexBestHeader, txIndex>>

(* ResetBlockFailureFlags, for reconsiderblock: the flags of b, of what     *)
(* descends from it and of its ancestors are cleared.                       *)
StillFailed_ancestors(below, above) == g_failed_blocks \ below
StillFailed(below, above) == g_failed_blocks \ (below \cup above)

ResetBlockFailureFlags(b) ==
  /\ RpcReady("reconsiderblock")
  /\ b \in mapBlockIndex
  /\ LET below   == {x \in mapBlockIndex : ~ HaveTransactions(x) /\ b \in Anc[x]}
         cleared == below \cup (Anc[b] \cap Failed)
     IN /\ failedValid' = failedValid \ cleared
        /\ failedChild' = failedChild \ cleared
        /\ g_failed_blocks' = StillFailed(below, Anc[b] \cap Failed)
        /\ setDirtyBlockIndex' = setDirtyBlockIndex \cup cleared
        /\ setBlockIndexCandidates' = setBlockIndexCandidates \cup
             {x \in below \cap received \cap linked : Worse(chainTip, x)}
        /\ pindexBestInvalid' = IF pindexBestInvalid \in below THEN NoBlock ELSE pindexBestInvalid
  /\ RpcActivates
  /\ UNCHANGED <<mapBlockIndex, received, scriptsValid, linked, bnStakeModifier, nSequenceId,
                 address, chainTip, mapBlocksUnlinked, nBlockSequenceId, nBlockReverseSequenceId,
                 nLastPreciousChainwork, pindexBestHeader, disk, txIndex>>

PreciousBlock(b) ==
  /\ RpcReady("preciousblock")
  /\ b \in mapBlockIndex
  /\ Trust[b] >= Trust[chainTip]
  /\ LET id == IF Trust[chainTip] > nLastPreciousChainwork THEN -1 ELSE nBlockReverseSequenceId
     IN /\ nSequenceId' = [nSequenceId EXCEPT ![b] = id]
        /\ nBlockReverseSequenceId' = id - 1
  /\ nLastPreciousChainwork' = Trust[chainTip]
  /\ setBlockIndexCandidates' = IF HaveTransactions(b) /\ b \in linked
                                  THEN setBlockIndexCandidates \cup {b}
                                  ELSE setBlockIndexCandidates \ {b}
  /\ RpcActivates
  /\ UNCHANGED <<mapBlockIndex, received, scriptsValid, failedValid, failedChild, linked,
                 bnStakeModifier, address, chainTip, mapBlocksUnlinked, g_failed_blocks, nBlockSequenceId,
                 pindexBestHeader, pindexBestInvalid, diskVars>>
-----------------------------------------------------------------------------
(* Flushes that are not part of ActivateBestChain (AcceptToMemoryPool,      *)
(* gettxoutsetinfo), and the end and restart of the process.                *)

Flush ==
  /\ MainFree
  /\ UNCHANGED <<indexVars, stateVars, txIndex, fImporting, abcVars, boundVars>>
  /\ \E mode \in FlushModes \ {"none"} : FlushStateToDisk(mode, setDirtyBlockIndex)

(* What the databases hold when the process ends: it is killed, it is       *)
(* killed in a flush after the block index was written, or it shuts down.   *)
DiskAtExit_coinsFirst(how) ==
  CASE how = "killed"   -> disk
    [] how = "torn"     -> [disk EXCEPT !.tip = chainTip]
    [] how = "shutdown" -> Written(setDirtyBlockIndex, mapBlockIndex, received, scriptsValid,
                                   failedValid, failedChild, bnStakeModifier, chainTip)
DiskAtExit(how) ==
  IF how = "killed" THEN disk
  ELSE Written(setDirtyBlockIndex, mapBlockIndex, received, scriptsValid, failedValid,
               failedChild, bnStakeModifier, IF how = "shutdown" THEN chainTip ELSE disk.tip)

CanExit(how) ==
  CASE how = "killed"   -> TRUE
    [] how = "torn"     -> pc # "find" /\ "full" \in FlushModes
    [] how = "shutdown" -> MainFree \/ pc = "shutdown"

(* The block of S of greatest trust, the earliest in the order by height    *)
(* and heap address.                                                        *)
FirstMostTrust(S, addr) ==
  {x \in S : \A y \in S \ {x} :
     \/ Trust[y] < Trust[x]
     \/ Trust[y] = Trust[x] /\ Height[x] < Height[y]
     \/ Trust[y] = Trust[x] /\ Height[x] = Height[y] /\ addr[x] < addr[y]}

(* The best of S by the work comparator, before any sequence number is set. *)
BestLoaded(S, addr) ==
  {x \in S : \A y \in S \ {x} : WorseBy([b \in Blocks |-> 0], addr, y, x)}

(* LoadBlockIndex, LoadChainTip and RewindBlockIndex on the databases d. *)
Load(d) ==
  LET invalid   == d.failedValid \cup d.failedChild
      inherited == {x \in d.map \ invalid : Anc[x] \cap invalid # {}}
      bad       == invalid \cup inherited
  IN /\ mapBlockIndex' = d.map
     /\ received' = d.received
     /\ scriptsValid' = d.scriptsValid
     /\ failedValid' = d.failedValid
     /\ failedChild' = d.failedChild \cup inherited
     /\ bnStakeModifier' = d.modifier
     /\ linked' = {x \in d.received : Anc[x] \subseteq d.received}
     /\ mapBlocksUnlinked' = {x \in d.received \ {Genesis} : Parent[x] \notin linked'}
     /\ setBlockIndexCandidates' = linked' \ bad
     /\ nSequenceId' = [x \in Blocks |-> 0]
     /\ address' \in AddressOrders
     /\ IF bad = {} THEN pindexBestInvalid' = NoBlock
                    ELSE pindexBestInvalid' \in FirstMostTrust(bad, address')
     /\ pindexBestHeader' \in BestLoaded(d.map \ bad, address')
     /\ chainTip' = d.tip

Restart ==
  /\ restarts < MaxRestarts
  /\ \E how \in {"killed", "torn", "shutdown"} :
       CanExit(how) /\ Load(DiskAtExit(how))
  /\ disk' = [map |-> mapBlockIndex', received |-> received', scriptsValid |-> scriptsValid',
              failedValid |-> failedValid', failedChild |-> failedChild',
              modifier |-> bnStakeModifier', tip |-> chainTip']
  /\ setDirtyBlockIndex' = {}
  /\ g_failed_blocks' = {}
  /\ nBlockSequenceId' = 1 /\ nBlockReverseSequenceId' = -1 /\ nLastPreciousChainwork' = 0
  /\ fImporting' = TRUE
  /\ waiting' = {} /\ holder' = "none" /\ pc' = "idle"
  /\ pblock' = [t \in Threads |-> NoBlock]
  /\ pindexMostWork' = NoBlock /\ pindexNewTip' = NoBlock
  /\ starting_tip' = NoBlock /\ pindexOldTip' = NoBlock /\ blocks_connected' = FALSE
  /\ restarts' = restarts + 1
  /\ UNCHANGED <<txIndex, rpcs>>
-----------------------------------------------------------------------------
(* The node has loaded its databases: the genesis block is connected and    *)
(* flushed, and an earlier run may have left headers.                       *)
Init ==
  /\ mapBlockIndex = {Genesis} \cup InitialHeaders
  /\ received = {Genesis} /\ linked = {Genesis}
  /\ scriptsValid = {} /\ failedValid = {} /\ failedChild = {}
  /\ bnStakeModifier = {Genesis}                    \* "genesis block's modifier is 0"
  /\ nSequenceId = [x \in Blocks |-> 0]
  /\ address \in AddressOrders
  /\ chainTip = Genesis
  /\ setBlockIndexCandidates = {Genesis} /\ mapBlocksUnlinked = {} /\ g_failed_blocks = {}
  /\ nBlockSequenceId = 1 /\ nBlockReverseSequenceId = -1 /\ nLastPreciousChainwork = 0
  /\ pindexBestHeader \in BestLoaded(mapBlockIndex, address)
  /\ pindexBestInvalid = NoBlock
  /\ setDirtyBlockIndex = {}
  /\ disk = [map |-> mapBlockIndex, received |-> {Genesis}, scriptsValid |-> {},
             failedValid |-> {}, failedChild |-> {}, modifier |-> {Genesis}, tip |-> Genesis]
  /\ txIndex = {}
  /\ fImporting = TRUE
  /\ waiting = {} /\ holder = "none" /\ pc = "idle"
  /\ pblock = [t \in Threads |-> NoBlock]
  /\ pindexMostWork = NoBlock /\ pindexNewTip = NoBlock
  /\ starting_tip = NoBlock /\ pindexOldTip = NoBlock /\ blocks_connected = FALSE
  /\ restarts = 0 /\ rpcs = 0

Network ==
  \E b \in Blocks \ {Genesis} :
    \/ ProcessNewBlockHeaders(b)
    \/ RejectHeader(b)
    \/ LoadExternalBlock(b)
    \/ \E t \in {"msghand", "rpc"}, fRequested \in BOOLEAN : ProcessNewBlock(t, b, fRequested)

Activation ==
  \/ ImportActivate
  \/ \E t \in Threads : ABCEnter(t)
  \/ ABCLock
  \/ FindMostWorkChainPrune
  \/ ABCBreak
  \/ ABCStep
  \/ DisconnectTip
  \/ ABCStepEnd
  \/ ABCReturn
  \/ \E b \in Blocks : \/ ConnectTip(b)
                       \/ ConnectTipInvalid(b)
                       \/ ConnectTipCorrupt(b)
                       \/ ConnectTipError(b)

Operator ==
  \E b \in Blocks :
    InvalidateBlock(b) \/ ResetBlockFailureFlags(b) \/ PreciousBlock(b)

Next == Network \/ Activation \/ Operator \/ Flush \/ Restart

Spec == Init /\ [][Next]_vars

(* A thread that has called ActivateBestChain keeps running, and so does    *)
(* ThreadImport: nothing in the code waits for input.                       *)
FairSpec == Spec /\ WF_vars(Activation)
-----------------------------------------------------------------------------
(* Properties. *)

DiskType ==
  [map : SUBSET Blocks, received : SUBSET Blocks, scriptsValid : SUBSET Blocks,
   failedValid : SUBSET Blocks, failedChild : SUBSET Blocks, modifier : SUBSET Blocks,
   tip : Blocks]

(* The type of every variable. *)
TypeOK ==
  /\ mapBlockIndex \subseteq Blocks /\ received \subseteq Blocks
  /\ scriptsValid \subseteq Blocks /\ failedValid \subseteq Blocks
  /\ failedChild \subseteq Blocks /\ linked \subseteq Blocks /\ bnStakeModifier \subseteq Blocks
  /\ nSequenceId \in [Blocks -> Int] /\ address \in AddressOrders
  /\ chainTip \in Blocks
  /\ setBlockIndexCandidates \subseteq Blocks /\ mapBlocksUnlinked \subseteq Blocks
  /\ g_failed_blocks \subseteq Blocks
  /\ nBlockSequenceId \in Nat \ {0} /\ nBlockReverseSequenceId \in Int
  /\ nLastPreciousChainwork \in Nat
  /\ pindexBestHeader \in Blocks /\ pindexBestInvalid \in Blocks \cup {NoBlock}
  /\ setDirtyBlockIndex \subseteq Blocks /\ disk \in DiskType /\ txIndex \subseteq Blocks
  /\ fImporting \in BOOLEAN /\ waiting \subseteq Threads /\ holder \in Threads \cup {"none"}
  /\ pblock \in [Threads -> Blocks \cup {NoBlock}]
  /\ pc \in {"idle", "unlocked", "find", "step", "exit", "shutdown"}
  /\ pindexMostWork \in Blocks \cup {NoBlock} /\ pindexNewTip \in Blocks \cup {NoBlock}
  /\ starting_tip \in Blocks \cup {NoBlock} /\ pindexOldTip \in Blocks \cup {NoBlock}
  /\ blocks_connected \in BOOLEAN
  /\ restarts \in Nat /\ rpcs \in Nat

(* nChainTx is set only when the block and all its ancestors have been      *)
(* received (CheckBlockIndex: "nChainTx != 0 is used to signal that all     *)
(* parent blocks have been processed"), whatever the order of arrival.      *)
LinkedHaveData == \A b \in linked : Anc[b] \subseteq received

(* Every block of the active chain is indexed, received and (but for the    *)
(* genesis block) went through ConnectBlock, so that it can be disconnected *)
(* again; also right after a restart, when the tip comes from one database  *)
(* and the index from another.                                              *)
ActiveChainConnected ==
  /\ Active \subseteq mapBlockIndex \cap received
  /\ Active \ {Genesis} \subseteq scriptsValid

(* CheckBlockIndex: "SCRIPTS valid implies all parents are SCRIPTS valid".  *)
ScriptsValidClosed == \A b \in scriptsValid : Anc[b] \ {Genesis} \subseteq scriptsValid

(* FlushStateToDisk writes the block index before the coins: whenever the   *)
(* process is killed, the best block of the coins database is a chain the   *)
(* block-index database knows, with data and validated.                     *)
DiskChainConnected ==
  /\ Anc[disk.tip] \subseteq disk.map \cap disk.received
  /\ Anc[disk.tip] \ {Genesis} \subseteq disk.scriptsValid
  /\ \A b \in disk.map : Anc[b] \subseteq disk.map

(* The assertion in AcceptBlockHeader: a member of g_failed_blocks carries  *)
(* BLOCK_FAILED_VALID, also after flags were reset.                         *)
FailedBlocksMarked == g_failed_blocks \subseteq failedValid

(* CheckBlockIndex: "The failed mask cannot be set for blocks without       *)
(* invalid parents".                                                        *)
FailedMaskJustified == \A b \in Failed : Anc[b] \cap failedValid # {}

(* CheckBlockIndex: a block with all data and no invalid ancestor that      *)
(* sorts at least as good as the tip is in setBlockIndexCandidates, and so  *)
(* is the tip, whenever cs_main is free.                                    *)
CandidatesComplete ==
  MainFree =>
    \A b \in linked :
      (Anc[b] \cap failedValid = {} /\ ~ Worse(b, chainTip)) => b \in setBlockIndexCandidates

(* FindMostWorkChain's premise, "we know all blocks in it are valid         *)
(* already": once start-up is over no block of the active chain is marked   *)
(* failed when cs_main is free.                                             *)
ActiveChainNotFailed == (MainFree /\ ~ fImporting) => Active \cap Failed = {}

(* What ActivateBestChain promises: when the calls have returned, no chain  *)
(* that has all its data and is not known to be invalid is better than the  *)
(* active one.                                                              *)
BestChainActive ==
  (Quiescent /\ pc = "idle" /\ ~ fImporting) =>
    \A b \in linked : Anc[b] \cap Failed = {} => ~ Worse(chainTip, b)

(* Only a block that violates a rule is marked BLOCK_FAILED_VALID, in       *)
(* whatever order blocks and headers arrive.                                *)
OnlyInvalidFail == failedValid \subseteq BadContextual \cup BadScripts

(* Whatever the order of arrival, nChainTx is set exactly when the block    *)
(* and all its ancestors have been received, and mapBlocksUnlinked holds    *)
(* exactly the received blocks that wait for an ancestor's data             *)
(* (CheckBlockIndex's last three assertions).                               *)
LinkingExact ==
  /\ LinkedHaveData
  /\ \A b \in received : Anc[b] \subseteq received => b \in linked
  /\ \A b \in mapBlocksUnlinked : b \in received /\ ~ (Anc[b] \subseteq received)
  /\ \A b \in received \ linked : Anc[b] \cap failedValid = {} => b \in mapBlocksUnlinked

(* "We absolutely may not unlock cs_main until we've made forward           *)
(* progress": a critical section of ActivateBestChain never ends on a tip   *)
(* worse than the one it found, unless that one is marked failed.           *)
NoRegress ==
  [][(/\ pc \in {"find", "step"} /\ pc' \in {"idle", "unlocked", "exit"}
      /\ restarts' = restarts
      /\ Anc[starting_tip] \cap Failed' = {})
     => ~ Worse(chainTip', starting_tip)]_vars

(* A call of ActivateBestChain returns.                                     *)
ActivationTerminates == holder # "none" ~> holder = "none"
=============================================================================
