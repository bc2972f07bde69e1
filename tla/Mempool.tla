------------------------------ MODULE Mempool ------------------------------
(***************************************************************************)
(* The memory pool (CTxMemPool, src/src/txmempool.cpp), acceptance into it *)
(* and its repair after a reorganisation (AcceptToMemoryPool,              *)
(* UpdateMempoolForReorg, DisconnectTip and ConnectTip of validation.cpp). *)
(*                                                                         *)
(* The pool holds transactions, the links between parents and children     *)
(* (mapLinks) and, for each entry, the cached numbers of its ancestors and *)
(* descendants, itself included; mapNextTx follows from the transactions.  *)
(* Of the cached statistics only the counts are kept: sizes, fees and      *)
(* signature operations are updated by the same statements.  Fees are taken *)
(* to suffice, and lock times to be heights.                               *)
(*                                                                         *)
(* The coins are those of the active chain (Coins shows that the coins     *)
(* cache provides them).  Which chain is activated is left open here.      *)
(*                                                                         *)
(* A definition D_x placed before D is D with a plausible defect: it is    *)
(* not part of the specification, and shows which property would notice.   *)
(***************************************************************************)
EXTENDS UtxoChain, Sequences, FiniteSets, SequencesExt

CONSTANTS
  Txs,
  Vin, Vout,             \* the outpoints a transaction spends and creates
  BlockTxs,              \* the transactions of each block, in order
  CoinbaseTxs,           \* those that are coinbases
  CoinstakeTxs,          \* those that are coinstakes
  InvalidTxs,            \* those whose scripts fail
  LockHeight,            \* nLockTime: in no block of this height or below
  nCoinbaseMaturity,
  nCoinbaseMaturity_Reduction,
  reductionForkBlock,    \* the height from which the second maturity applies
  limitAncestorCount,    \* -limitancestorcount
  limitDescendantCount,  \* -limitdescendantcount
  maxMempool,            \* -maxmempool, as a number of transactions
  maxDisconnected        \* MAX_DISCONNECTED_TX_POOL_SIZE, as a number of transactions

Generated == CoinbaseTxs \cup CoinstakeTxs

ASSUME PoolTransactions ==
  /\ Vin \in [Txs -> SUBSET Outpoints] /\ Vout \in [Txs -> SUBSET Outpoints]
  /\ BlockTxs \in [Blocks -> Seq(Txs)] /\ Generated \cup InvalidTxs \subseteq Txs
  /\ \A b \in Blocks :
       /\ Creates[b] = UNION {Vout[t] : t \in ToSet(BlockTxs[b])}
       /\ Spends[b] = UNION {Vin[t] : t \in ToSet(BlockTxs[b])}
  /\ LockHeight \in [Txs -> Nat]
  /\ {nCoinbaseMaturity, nCoinbaseMaturity_Reduction, reductionForkBlock} \subseteq Nat
  /\ nCoinbaseMaturity <= nCoinbaseMaturity_Reduction
  /\ {limitAncestorCount, limitDescendantCount, maxMempool, maxDisconnected} \subseteq Nat

VARIABLES
  pool,             \* [tx, parents, children, anc, desc]
  poolTip,          \* chainActive.Tip()
  target,           \* the block ActivateBestChainStep or InvalidateBlock moves to
  poolPc,           \* "idle"; "forward": no block disconnected; "reorg"
  disconnectpool,   \* queuedTx, oldest insertion first
  mempoolDat,       \* mempool.dat
  loading,          \* what LoadMempool still has to read
  fDumpMempoolLater

poolVars == <<pool, poolTip, target, poolPc, disconnectpool,
              mempoolDat, loading, fDumpMempoolLater>>

NoTxs == [tx |-> {}, parents |-> [t \in Txs |-> {}], children |-> [t \in Txs |-> {}],
          anc |-> [t \in Txs |-> 0], desc |-> [t \in Txs |-> 0]]

PoolInit ==
  /\ pool = NoTxs
  /\ poolTip = Genesis /\ target = Genesis
  /\ poolPc = "idle" /\ disconnectpool = <<>>
  /\ mempoolDat = <<>> /\ loading = <<>> /\ fDumpMempoolLater = FALSE
-----------------------------------------------------------------------------
(* What can be reached from S along links. *)
Reach(links, S) ==
  LET reach[n \in 0..Cardinality(Txs)] ==
        IF n = 0 THEN S ELSE LET near == reach[n - 1]
                             IN near \cup UNION {links[t] : t \in near}
  IN reach[Cardinality(Txs)]

Creators(p, t) == {u \in p.tx : Vout[u] \cap Vin[t] # {}}
Spenders(p, t) == {u \in p.tx : Vin[u] \cap Vout[t] # {}}
Conflicts(p, t) == {u \in p.tx : Vin[u] \cap Vin[t] # {}}

CalculateDescendants(p, S) == Reach(p.children, S)
LinkedAncestors(p, t) == Reach(p.parents, p.parents[t])

(* CalculateMemPoolAncestors for a transaction that is not in the pool. *)
CalculateMemPoolAncestors(p, t) == Reach(p.parents, Creators(p, t))

WithinLimits(p, t) ==
  LET ancestors == CalculateMemPoolAncestors(p, t)
  IN /\ Cardinality(ancestors) + 1 <= limitAncestorCount
     /\ \A a \in ancestors : p.desc[a] + 1 <= limitDescendantCount

addUnchecked(p, t) ==
  LET ancestors == CalculateMemPoolAncestors(p, t)
      parents == Creators(p, t)
  IN [tx |-> p.tx \cup {t},
      parents |-> [p.parents EXCEPT ![t] = parents],
      children |-> [u \in Txs |-> p.children[u] \cup (IF u \in parents THEN {t} ELSE {})],
      anc |-> [p.anc EXCEPT ![t] = Cardinality(ancestors) + 1],
      desc |-> [u \in Txs |-> IF u = t THEN 1
                              ELSE p.desc[u] + (IF u \in ancestors THEN 1 ELSE 0)]]

(* RemoveStaged: UpdateForRemoveFromMempool, then removeUnchecked.  When    *)
(* the children stay they lose an ancestor (updateDescendants).             *)
RemoveStaged(p, stage, updateDescendants) ==
  LET above(u) == {r \in stage : updateDescendants /\ u \in CalculateDescendants(p, {r}) \ {r}}
      below(u) == {r \in stage : u \in LinkedAncestors(p, r)}
      kids == [u \in Txs |-> p.children[u] \ {r \in stage : u \in p.parents[r]}]
      Gone(f, none) == [u \in Txs |-> IF u \in stage THEN none ELSE f[u]]
  IN [tx |-> p.tx \ stage,
      parents |-> Gone([u \in Txs |-> p.parents[u] \ {r \in stage : u \in kids[r]}], {}),
      children |-> Gone(kids, {}),
      anc |-> Gone([u \in Txs |-> p.anc[u] - Cardinality(above(u))], 0),
      desc |-> Gone([u \in Txs |-> p.desc[u] - Cardinality(below(u))], 0)]

RemoveWithDescendants(p, S) == RemoveStaged(p, CalculateDescendants(p, S), FALSE)

removeRecursive_present(p, t) == RemoveWithDescendants(p, p.tx \cap {t})
removeRecursive(p, t) == RemoveWithDescendants(p, IF t \in p.tx THEN {t} ELSE Spenders(p, t))

(* removeForBlock: the transactions of the block leave without their        *)
(* descendants; what conflicts with them leaves with its descendants.       *)
removeForBlock(p, txs) ==
  FoldLeft(LAMBDA q, t : LET r == RemoveStaged(q, q.tx \cap {t}, TRUE)
                         IN RemoveWithDescendants(r, Conflicts(r, t)),
           p, txs)

(* LimitMempoolSize: Expire removes what is too old, TrimToSize what scores *)
(* worst, each with its descendants; age and score are left open.           *)
LimitMempoolSize(p) ==
  {q \in {RemoveWithDescendants(p, S) : S \in SUBSET p.tx} : Cardinality(q.tx) <= maxMempool}
-----------------------------------------------------------------------------
(* AcceptToMemoryPoolWorker. *)

Final(t, tip) == LockHeight[t] < Height[tip] + 1
ChainCoin(o) == UTXO(poolTip)[o]
HaveCoin(p, o) == (\E u \in p.tx : o \in Vout[u]) \/ ChainCoin(o) # Spent
HaveInputs(p, t) == \A o \in Vin[t] : HaveCoin(p, o)

(* IsReductionActive: the maturity required of what is spent on top of tip. *)
Maturity(tip) ==
  IF Height[tip] >= reductionForkBlock THEN nCoinbaseMaturity_Reduction ELSE nCoinbaseMaturity

Depth(o, tip) == Height[tip] + 1 - UTXO(tip)[o]
CreatedBy(kind, o) == \E t \in kind : o \in Vout[t]
Immature(kind, o, tip, maturity) ==
  CreatedBy(kind, o) /\ UTXO(tip)[o] # Spent /\ Depth(o, tip) < maturity

ASSUME PoolBlocksValid ==
  \A b \in Blocks : \A t \in ToSet(BlockTxs[b]) :
    /\ t \notin InvalidTxs /\ LockHeight[t] < Height[b]
    /\ \A o \in Vin[t] : ~ Immature(Generated, o, Parent[b], Maturity(Parent[b]))

Acceptable(p, t) ==
  /\ t \notin Generated /\ Final(t, poolTip)
  /\ t \notin p.tx /\ Conflicts(p, t) = {}
  /\ HaveInputs(p, t)
  /\ \A o \in Vin[t] : ~ Immature(Generated, o, poolTip, Maturity(poolTip))
  /\ WithinLimits(p, t) /\ t \notin InvalidTxs

(* The pools that may result; t may be the one that is trimmed. *)
AcceptToMemoryPool(p, t) ==
  IF Acceptable(p, t) THEN LimitMempoolSize(addUnchecked(p, t)) ELSE {p}
-----------------------------------------------------------------------------
(* UpdateMempoolForReorg. *)

(* UpdateTransactionsFromBlock: a transaction that came back from a block   *)
(* may have children in the pool that addUnchecked did not look for.        *)
UpdateTransactionsFromBlock(p, hashes) ==
  LET included == ToSet(hashes)
      Update(t, q) ==
        LET found == Spenders(q, t) \ included
            children == [q.children EXCEPT ![t] = @ \cup found]
            extra == Reach(children, children[t]) \ included
        IN [q EXCEPT !.children = children,
                     !.parents = [u \in Txs |-> @[u] \cup (IF u \in found THEN {t} ELSE {})],
                     !.desc[t] = @ + Cardinality(extra),
                     !.anc = [u \in Txs |-> @[u] + (IF u \in extra THEN 1 ELSE 0)]]
  IN FoldRight(Update, hashes, p)

(* removeForReorg: of the outputs that are not mature yet, it looks for the *)
(* outputs of coinbases only.                                               *)
removeForReorg(p, tip) ==
  LET OnChain(o) == \A u \in p.tx : o \notin Vout[u]
      Unspendable(o) == UTXO(tip)[o] = Spent \/ Immature(CoinbaseTxs, o, tip, Maturity(tip))
  IN RemoveWithDescendants(p,
       {t \in p.tx : \/ ~ Final(t, tip)
                     \/ /\ \E o \in Vin[t] : CreatedBy(Generated, o)
                        /\ \E o \in Vin[t] : OnChain(o) /\ Unspendable(o)})

Resubmit(t, r, fAddToMempool) ==
  IF fAddToMempool /\ Acceptable(r.pool, t)
    THEN [pool |-> addUnchecked(r.pool, t), vHashUpdate |-> Append(r.vHashUpdate, t)]
    ELSE [r EXCEPT !.pool = removeRecursive(@, t)]

(* The pool, and vHashUpdate, after the transactions of disconnectpool have *)
(* been taken from the newest to the oldest, that is in the order of the    *)
(* blocks.                                                                  *)
Resubmitted_oldest(fAddToMempool) ==
  LET Step(r, t) == Resubmit(t, r, fAddToMempool)
  IN FoldLeft(Step, [pool |-> pool, vHashUpdate |-> <<>>], disconnectpool)
Resubmitted(fAddToMempool) ==
  LET Step(t, r) == Resubmit(t, r, fAddToMempool)
  IN FoldRight(Step, disconnectpool, [pool |-> pool, vHashUpdate |-> <<>>])

UpdateMempoolForReorg_unlinked(fAddToMempool) ==
  LimitMempoolSize(removeForReorg(Resubmitted(fAddToMempool).pool, poolTip))
UpdateMempoolForReorg(fAddToMempool) ==
  LET r == Resubmitted(fAddToMempool)
  IN LimitMempoolSize(
       removeForReorg(UpdateTransactionsFromBlock(r.pool, r.vHashUpdate), poolTip))
-----------------------------------------------------------------------------
(* A transaction arrives from a peer, the wallet or sendrawtransaction. *)
AcceptTx(t) ==
  /\ poolPc = "idle"
  /\ pool' \in AcceptToMemoryPool(pool, t)
  /\ UNCHANGED <<poolTip, target, poolPc, disconnectpool, mempoolDat, loading, fDumpMempoolLater>>

(* ActivateBestChainStep (b is not below the tip) or InvalidateBlock (of    *)
(* the child of b on the active chain) begins.                              *)
MoveTo(b) ==
  /\ poolPc = "idle" /\ b # poolTip
  /\ target' = b
  /\ poolPc' = IF poolTip \in Anc[b] THEN "forward" ELSE "reorg"
  /\ UNCHANGED <<pool, poolTip, disconnectpool, mempoolDat, loading, fDumpMempoolLater>>

(* Over its limit, disconnectpool drops its oldest entries, and the pool    *)
(* what depends on them.                                                    *)
Overflow(q) == SubSeq(q, 1, Len(q) - maxDisconnected)

PoolDisconnectTip ==
  /\ poolPc = "reorg" /\ poolTip \notin Anc[target]
  /\ LET queued == disconnectpool \o Reverse(BlockTxs[poolTip])
     IN /\ pool' = FoldLeft(removeRecursive, pool, Overflow(queued))
        /\ disconnectpool' = SubSeq(queued, Len(Overflow(queued)) + 1, Len(queued))
  /\ poolTip' = Parent[poolTip]
  /\ UNCHANGED <<target, poolPc, mempoolDat, loading, fDumpMempoolLater>>

PoolConnectTip(b) ==
  /\ poolPc # "idle" /\ Parent[b] = poolTip /\ b \in Anc[target]
  /\ pool' = removeForBlock(pool, BlockTxs[b])
  /\ disconnectpool' = SelectSeq(disconnectpool, LAMBDA t : t \notin ToSet(BlockTxs[b]))
  /\ poolTip' = b
  /\ UNCHANGED <<target, poolPc, mempoolDat, loading, fDumpMempoolLater>>

(* The step ends: at the target, in a better position than before, or at a  *)
(* block that turned out to be invalid.                                     *)
StepEnds ==
  /\ poolPc # "idle" /\ poolTip \in Anc[target]
  /\ IF poolPc = "reorg" THEN pool' \in UpdateMempoolForReorg(TRUE) ELSE UNCHANGED pool
  /\ poolPc' = "idle" /\ target' = poolTip /\ disconnectpool' = <<>>
  /\ UNCHANGED <<poolTip, mempoolDat, loading, fDumpMempoolLater>>

(* A block cannot be read from disk. *)
StepFails ==
  /\ poolPc # "idle" /\ poolTip # target
  /\ pool' \in UpdateMempoolForReorg(FALSE)
  /\ poolPc' = "idle" /\ target' = poolTip /\ disconnectpool' = <<>>
  /\ UNCHANGED <<poolTip, mempoolDat, loading, fDumpMempoolLater>>
-----------------------------------------------------------------------------
(* infoAll: the entries by their number of ancestors, then by their score,  *)
(* which is left open.                                                      *)
InfoAll_any(p) == SetToSeqs(p.tx)
InfoAll(p) ==
  {s \in SetToSeqs(p.tx) : \A i, j \in DOMAIN s : i < j => p.anc[s[i]] <= p.anc[s[j]]}

(* Shutdown and a new start: the pool is dumped, unless it had not been     *)
(* loaded to the end yet; or the process dies.                              *)
PoolRestart_early(clean) ==
  /\ poolPc = "idle"
  /\ IF clean THEN mempoolDat' \in InfoAll(pool) ELSE UNCHANGED mempoolDat
  /\ pool' = NoTxs /\ loading' = mempoolDat' /\ fDumpMempoolLater' = FALSE
  /\ UNCHANGED <<poolTip, target, poolPc, disconnectpool>>
PoolRestart(clean) ==
  /\ poolPc = "idle"
  /\ IF clean /\ fDumpMempoolLater THEN mempoolDat' \in InfoAll(pool) ELSE UNCHANGED mempoolDat
  /\ pool' = NoTxs /\ loading' = mempoolDat' /\ fDumpMempoolLater' = FALSE
  /\ UNCHANGED <<poolTip, target, poolPc, disconnectpool>>

(* One round of LoadMempool: the entry has expired, or is accepted again. *)
LoadTx ==
  /\ poolPc = "idle" /\ loading # <<>>
  /\ pool' \in AcceptToMemoryPool(pool, Head(loading)) \cup {pool}
  /\ loading' = Tail(loading)
  /\ UNCHANGED <<poolTip, target, poolPc, disconnectpool, mempoolDat, fDumpMempoolLater>>

LoadDone ==
  /\ poolPc = "idle" /\ loading = <<>> /\ ~ fDumpMempoolLater
  /\ fDumpMempoolLater' = TRUE
  /\ UNCHANGED <<pool, poolTip, target, poolPc, disconnectpool, mempoolDat, loading>>

PoolNext ==
  \/ \E t \in Txs : AcceptTx(t)
  \/ \E b \in Blocks : MoveTo(b) \/ PoolConnectTip(b)
  \/ PoolDisconnectTip
  \/ StepEnds \/ StepFails
  \/ \E clean \in BOOLEAN : PoolRestart(clean)
  \/ LoadTx \/ LoadDone

PoolSpec == PoolInit /\ [][PoolNext]_poolVars
-----------------------------------------------------------------------------
(* Type: between two calls the pool is within its size and no block is      *)
(* being moved.                                                             *)
PoolTypeOK ==
  /\ pool.tx \subseteq Txs \ Generated
  /\ pool.parents \in [Txs -> SUBSET pool.tx] /\ pool.children \in [Txs -> SUBSET pool.tx]
  /\ \A t \in Txs : pool.anc[t] \in Nat /\ pool.desc[t] \in Nat
  /\ {poolTip, target} \subseteq Blocks /\ poolPc \in {"idle", "forward", "reorg"}
  /\ poolPc = "idle" =>
       target = poolTip /\ disconnectpool = <<>> /\ Cardinality(pool.tx) <= maxMempool
  /\ disconnectpool \in Seq(Txs) /\ Len(disconnectpool) <= maxDisconnected
  /\ {mempoolDat, loading} \subseteq Seq(Txs \ Generated) /\ fDumpMempoolLater \in BOOLEAN

(* Whenever the pool can be looked at, its transactions could be mined as   *)
(* far as their inputs go: each input is the output of another entry or an  *)
(* unspent coin of the active chain, no two entries share one, all entries  *)
(* are final, and what spends a coinbase is at least nCoinbaseMaturity deep *)
(* (CTxMemPool::check; UpdateMempoolForReorg, removeForBlock).              *)
PoolSpendable ==
  poolPc = "idle" =>
    \A t \in pool.tx :
      /\ HaveInputs(pool, t) /\ Conflicts(pool, t) = {t} /\ Final(t, poolTip)
      /\ \A o \in Vin[t] : ~ Immature(CoinbaseTxs, o, poolTip, nCoinbaseMaturity)

(* Whenever the pool can be looked at, the links are the actual spends, and *)
(* the cached counts the actual numbers of ancestors and descendants, on    *)
(* which block assembly, eviction and the package limits rely (check).      *)
PoolLinked ==
  poolPc = "idle" =>
    \A t \in pool.tx :
      /\ pool.parents[t] = Creators(pool, t) /\ pool.children[t] = Spenders(pool, t)
      /\ pool.anc[t] = Cardinality({t} \cup LinkedAncestors(pool, t))
      /\ pool.desc[t] = Cardinality(CalculateDescendants(pool, {t}))

(* "we assume that disconnectpool only contains transactions that are NOT   *)
(* confirmed in the current chain nor already in the mempool"               *)
(* (UpdateMempoolForReorg): otherwise a valid transaction and all that      *)
(* depends on it would be thrown out.  And when the step ends every one of  *)
(* them is taken back, parents before children, but for those that the pool *)
(* it ends with could not accept either.                                    *)
DisconnectedReturn ==
  /\ \A t \in ToSet(disconnectpool) :
       t \notin pool.tx /\ \A b \in Anc[poolTip] : t \notin ToSet(BlockTxs[b])
  /\ poolPc = "reorg" /\ poolTip \in Anc[target] =>
       LET back == Resubmitted(TRUE).pool
       IN \A t \in ToSet(disconnectpool) \ back.tx : ~ Acceptable(back, t)

Mature(t) == \A o \in Vin[t] : ~ Immature(Generated, o, poolTip, Maturity(poolTip))

(* What DumpMempool writes can be read back: in the order of infoAll every  *)
(* entry is accepted again, if the tip is the same, unless a reorganisation *)
(* has left a package above the limits or an immature spend in the pool.    *)
ReloadComplete ==
  LET Load(p, t) == IF Acceptable(p, t) THEN addUnchecked(p, t) ELSE p
  IN /\ poolPc = "idle"
     /\ \A t \in pool.tx : /\ pool.anc[t] <= limitAncestorCount
                            /\ pool.desc[t] <= limitDescendantCount
                            /\ Mature(t)
     => \A s \in InfoAll(pool) : FoldLeft(Load, NoTxs, s) = pool

(* A restart while mempool.dat is still being read does not lose what has   *)
(* not been read: fDumpMempoolLater is set only when LoadMempool is done.   *)
UnreadStaySaved == [][\A i \in DOMAIN loading : loading[i] \in ToSet(mempoolDat')]_poolVars

(* The pool holds no immature spend: "removing any other transactions from  *)
(* the mempool that are no longer valid given the new tip/height" (comment  *)
(* of UpdateMempoolForReorg).  It does not hold: removeForReorg looks at    *)
(* coinbases only, and is not called when the tip moves forward past the    *)
(* height at which the required maturity grows.                             *)
PoolMature == poolPc = "idle" => \A t \in pool.tx : Mature(t)
=============================================================================
