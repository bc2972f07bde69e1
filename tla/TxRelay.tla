------------------------------ MODULE TxRelay ------------------------------
(***************************************************************************)
(* Transactions from peers (the TX message of ProcessMessage and the       *)
(* orphan transactions of src/src/net_processing.cpp) on top of the memory *)
(* pool.  A transaction whose inputs are missing is kept as an orphan; one *)
(* that is accepted makes the orphans that spend its outputs be tried, and *)
(* so on.  What is rejected is remembered until the tip changes.           *)
(*                                                                         *)
(* The handler holds cs_main and g_cs_orphans from the first step to the   *)
(* last, so nothing that takes one of them interleaves with it.  Requests  *)
(* for the missing parents, relaying and the peers' scores are left out,   *)
(* and transactions have no witness.                                       *)
(***************************************************************************)
EXTENDS Mempool

CONSTANTS
  Peers, NoPeer,
  RelayTxs,           \* bound: the transactions that arrive
  RelayBlocks,        \* bound: the blocks that become the tip
  nMaxOrphanTx,       \* -maxorphantx
  MaxNotify           \* bound: a chain step begins only with this many callbacks or fewer waiting

ASSUME RelayConstants ==
  /\ RelayTxs \subseteq Txs /\ RelayBlocks \subseteq Blocks
  /\ NoPeer \notin Peers /\ {nMaxOrphanTx, MaxNotify} \subseteq Nat

VARIABLES
  fromPeer,                   \* mapOrphanTransactions: who sent the orphan, or NoPeer
  recentRejects, hashRecentRejectsChainTip,
  notify,                     \* BlockConnected callbacks that wait for the scheduler
  ptx,                        \* the accepted transaction the handler is at, if relayPc = "resolve"
  relayPc,
  vWorkQueue, vEraseQueue, setMisbehaving,
  byPrev                      \* the orphans still to be tried for the current outpoint

handlerVars == <<ptx, relayPc, vWorkQueue, vEraseQueue, setMisbehaving, byPrev>>
relayVars == <<fromPeer, recentRejects, hashRecentRejectsChainTip, notify, handlerVars>>

RelayInit ==
  /\ fromPeer = [t \in Txs |-> NoPeer]
  /\ recentRejects = {} /\ hashRecentRejectsChainTip = Genesis
  /\ notify = <<>> /\ ptx = CHOOSE t \in Txs : TRUE
  /\ relayPc = "idle" /\ vWorkQueue = <<>> /\ vEraseQueue = {} /\ setMisbehaving = {}
  /\ byPrev = {}

Orphans == {t \in Txs : fromPeer[t] # NoPeer}
Unlocked == relayPc = "idle" /\ poolPc = "idle"
Creator(o) == CHOOSE t \in Txs : o \in Vout[t]
-----------------------------------------------------------------------------
(* The results of AcceptToMemoryPool on p: the pool after it, whether the   *)
(* transaction was accepted, fMissingInputs, and whether the state has a    *)
(* DoS score.  Inputs that are missing are not reported as missing when an  *)
(* output of t is found in the coins cache, which may have it or not.       *)
Looked(p, t) == t \notin Generated /\ Final(t, poolTip) /\ t \notin p.tx /\ Conflicts(p, t) = {}
HasCoins(t) == \E o \in Vout[t] : ChainCoin(o) # Spent

Results(p, t) ==
  LET Rejected == [pool |-> p, ok |-> FALSE, missing |-> FALSE,
                   dos |-> t \in Generated \/ (Looked(p, t) /\ HaveInputs(p, t) /\ t \in InvalidTxs)]
  IN IF Acceptable(p, t)
       THEN {[pool |-> q, ok |-> t \in q.tx, missing |-> FALSE, dos |-> FALSE] :
               q \in AcceptToMemoryPool(p, t)}
     ELSE IF Looked(p, t) /\ ~ HaveInputs(p, t)
       THEN {[Rejected EXCEPT !.missing = TRUE]} \cup (IF HasCoins(t) THEN {Rejected} ELSE {})
     ELSE {Rejected}

Rejects == IF hashRecentRejectsChainTip = poolTip THEN recentRejects ELSE {}

AlreadyHave(t) ==
  {t \in Orphans \cup Rejects \cup pool.tx} \cup (IF HasCoins(t) THEN {TRUE} ELSE {})

(* LimitOrphanTxSize: some expire, and the rest is cut at random. *)
LimitOrphanTxSize(from) ==
  {f \in {[t \in Txs |-> IF t \in S THEN NoPeer ELSE from[t]] :
        S \in SUBSET {t \in Txs : from[t] # NoPeer}} :
     Cardinality({t \in Txs : f[t] # NoPeer}) <= nMaxOrphanTx}
-----------------------------------------------------------------------------
(* The TX message. *)

Forget ==
  /\ recentRejects' = Rejects /\ hashRecentRejectsChainTip' = poolTip
Reject(t) ==
  /\ recentRejects' = Rejects \cup {t} /\ hashRecentRejectsChainTip' = poolTip

(* A transaction that is known already ends as a rejected one: state is     *)
(* valid and fMissingInputs is false.                                       *)
ReceiveKnown(t) ==
  /\ Unlocked /\ TRUE \in AlreadyHave(t)
  /\ Reject(t)
  /\ UNCHANGED <<poolVars, fromPeer, notify, handlerVars>>

ReceiveAccepted(t) ==
  /\ Unlocked /\ FALSE \in AlreadyHave(t)
  /\ \E r \in Results(pool, t) : r.ok /\ pool' = r.pool
  /\ ptx' = t /\ relayPc' = "resolve" /\ vWorkQueue' \in SetToSeqs(Vout[t])
  /\ Forget
  /\ UNCHANGED <<poolTip, target, poolPc, disconnectpool, mempoolDat, loading, fDumpMempoolLater>>
  /\ UNCHANGED <<fromPeer, notify, vEraseQueue, setMisbehaving, byPrev>>

ReceiveMissing_unlimited(t, n) ==
  /\ Unlocked /\ FALSE \in AlreadyHave(t)
  /\ \E r \in Results(pool, t) : r.missing
  /\ IF \E o \in Vin[t] : Creator(o) \in Rejects
       THEN Reject(t) /\ UNCHANGED fromPeer
       ELSE Forget /\ fromPeer' = [fromPeer EXCEPT ![t] = n]
  /\ UNCHANGED <<poolVars, notify, handlerVars>>
ReceiveMissing(t, n) ==
  /\ Unlocked /\ FALSE \in AlreadyHave(t)
  /\ \E r \in Results(pool, t) : r.missing
  /\ IF \E o \in Vin[t] : Creator(o) \in Rejects
       THEN Reject(t) /\ UNCHANGED fromPeer
       ELSE Forget /\ fromPeer' \in LimitOrphanTxSize([fromPeer EXCEPT ![t] = n])
  /\ UNCHANGED <<poolVars, notify, handlerVars>>

ReceiveRejected(t) ==
  /\ Unlocked /\ FALSE \in AlreadyHave(t)
  /\ \E r \in Results(pool, t) : ~ r.ok /\ ~ r.missing /\ pool' = r.pool
  /\ Reject(t)
  /\ UNCHANGED <<poolTip, target, poolPc, disconnectpool, mempoolDat, loading, fDumpMempoolLater>>
  /\ UNCHANGED <<fromPeer, notify, handlerVars>>

(* The next outpoint of the work queue, and the orphans that spend it. *)
ResolveOutpoint ==
  /\ relayPc = "resolve" /\ byPrev = {} /\ vWorkQueue # <<>>
  /\ byPrev' = {t \in Orphans : Head(vWorkQueue) \in Vin[t]}
  /\ vWorkQueue' = Tail(vWorkQueue)
  /\ UNCHANGED <<poolVars, fromPeer, recentRejects, hashRecentRejectsChainTip, notify>>
  /\ UNCHANGED <<ptx, relayPc, vEraseQueue, setMisbehaving>>

Requeue_never(t) == <<>>
Requeue(t) == SetToSeq(Vout[t])

(* An orphan is tried, unless its sender has misbehaved in this round. *)
ResolveOrphan(t) ==
  /\ relayPc = "resolve" /\ t \in byPrev
  /\ byPrev' = byPrev \ {t}
  /\ \/ /\ fromPeer[t] \in setMisbehaving
        /\ UNCHANGED <<pool, vWorkQueue, vEraseQueue, setMisbehaving, recentRejects>>
     \/ /\ fromPeer[t] \notin setMisbehaving
        /\ \E r \in Results(pool, t) :
             /\ pool' = r.pool
             /\ vWorkQueue' = IF r.ok THEN vWorkQueue \o Requeue(t) ELSE vWorkQueue
             /\ vEraseQueue' = IF r.missing THEN vEraseQueue ELSE vEraseQueue \cup {t}
             /\ setMisbehaving' = IF r.dos THEN setMisbehaving \cup {fromPeer[t]} ELSE setMisbehaving
             /\ recentRejects' = IF r.ok \/ r.missing THEN recentRejects ELSE recentRejects \cup {t}
  /\ UNCHANGED <<poolTip, target, poolPc, disconnectpool, mempoolDat, loading, fDumpMempoolLater>>
  /\ UNCHANGED <<fromPeer, hashRecentRejectsChainTip, notify, ptx, relayPc>>

ResolveDone ==
  /\ relayPc = "resolve" /\ byPrev = {} /\ vWorkQueue = <<>>
  /\ fromPeer' = [t \in Txs |-> IF t \in vEraseQueue THEN NoPeer ELSE fromPeer[t]]
  /\ relayPc' = "idle" /\ vEraseQueue' = {} /\ setMisbehaving' = {}
  /\ ptx' = CHOOSE t \in Txs : TRUE
  /\ UNCHANGED <<poolVars, recentRejects, hashRecentRejectsChainTip, notify, vWorkQueue, byPrev>>

Resolve == ResolveOutpoint \/ (\E t \in Txs : ResolveOrphan(t)) \/ ResolveDone
-----------------------------------------------------------------------------
(* FinalizeNode: a peer disconnects. *)
EraseOrphansFor(n) ==
  /\ relayPc = "idle" /\ \E t \in Orphans : fromPeer[t] = n
  /\ fromPeer' = [t \in Txs |-> IF fromPeer[t] = n THEN NoPeer ELSE fromPeer[t]]
  /\ UNCHANGED <<poolVars, recentRejects, hashRecentRejectsChainTip, notify, handlerVars>>

(* PeerLogicValidation::BlockConnected, on the scheduler thread: the        *)
(* orphans in the block, and those it precludes.  It takes g_cs_orphans     *)
(* only.                                                                    *)
BlockConnected ==
  /\ relayPc = "idle" /\ notify # <<>>
  /\ LET spent == UNION {Vin[t] : t \in ToSet(BlockTxs[Head(notify)])}
     IN fromPeer' = [t \in Txs |-> IF Vin[t] \cap spent # {} THEN NoPeer ELSE fromPeer[t]]
  /\ notify' = Tail(notify)
  /\ UNCHANGED <<poolVars, recentRejects, hashRecentRejectsChainTip, handlerVars>>

(* The pool changes by itself: a transaction of the wallet or of            *)
(* sendrawtransaction, for which no orphans are tried, or a chain step.     *)
PoolMoves ==
  /\ relayPc = "idle"
  /\ \/ (\E t \in RelayTxs : AcceptTx(t)) /\ UNCHANGED notify
     \/ Len(notify) <= MaxNotify /\ (\E b \in RelayBlocks : MoveTo(b)) /\ UNCHANGED notify
     \/ \E b \in Blocks : PoolConnectTip(b) /\ notify' = Append(notify, b)
     \/ (PoolDisconnectTip \/ StepEnds) /\ UNCHANGED notify
  /\ UNCHANGED <<fromPeer, recentRejects, hashRecentRejectsChainTip, handlerVars>>

Receive(t, n) == ReceiveKnown(t) \/ ReceiveAccepted(t) \/ ReceiveMissing(t, n) \/ ReceiveRejected(t)

RelayNext ==
  \/ \E t \in RelayTxs, n \in Peers : Receive(t, n)
  \/ Resolve
  \/ \E n \in Peers : EraseOrphansFor(n)
  \/ BlockConnected \/ PoolMoves

RelaySpec == PoolInit /\ RelayInit /\ [][RelayNext]_<<poolVars, relayVars>>
-----------------------------------------------------------------------------
(* Type: the orphans stay within their limit. *)
RelayTypeOK ==
  /\ fromPeer \in [Txs -> Peers \cup {NoPeer}] /\ Cardinality(Orphans) <= nMaxOrphanTx
  /\ recentRejects \subseteq Txs /\ hashRecentRejectsChainTip \in Blocks
  /\ notify \in Seq(Blocks) /\ ptx \in Txs /\ relayPc \in {"idle", "resolve"}
  /\ vWorkQueue \in Seq(Outpoints) /\ byPrev \cup vEraseQueue \subseteq Orphans
  /\ setMisbehaving \subseteq Peers
  /\ relayPc = "idle" => vWorkQueue = <<>> /\ byPrev \cup vEraseQueue = {} /\ setMisbehaving = {}

(* "Recursively process any orphan transactions that depended on this one": *)
(* when the handler returns, no orphan that spends an output of what it has *)
(* put in the pool could be accepted, however many of its parents came as   *)
(* orphans themselves, unless its sender misbehaved in this round.          *)
OrphansResolved ==
  [][ResolveDone =>
       \A t \in Orphans \ vEraseQueue :
         /\ fromPeer[t] \notin setMisbehaving
         /\ \E u \in ({ptx} \cup vEraseQueue) \cap pool.tx : Vout[u] \cap Vin[t] # {}
         => ~ Acceptable(pool, t)]_<<poolVars, relayVars>>
=============================================================================
