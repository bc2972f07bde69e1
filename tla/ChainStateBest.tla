--------------------------- MODULE ChainStateBest ---------------------------
(***************************************************************************)
(* ActivateBestChain keeps its promise: when it has returned, no chain     *)
(* that has all its data and is not known to be invalid is better than the *)
(* active one.  Candidates are never forgotten and no critical section     *)
(* ends on a worse tip than it found, for every block tree.                *)
(***************************************************************************)
EXTENDS ChainStateProofs

(* The environment in which this is so.  reconsiderblock leaves candidates  *)
(* out.  When the databases of a process that was killed have the mark of   *)
(* invalidateblock but not the tip it moved to, the process starts on a     *)
(* failed tip, and blocks received before it has moved that are worse than  *)
(* that tip are not offered.  A block read by ThreadImport, which does not  *)
(* check proof of stake, that stakes an output of another branch makes an   *)
(* activation fail half way.                                                *)
OwnStake(b) == Kernel[b] # NoBlock => Kernel[b] \in Anc[Parent[b]] \ {Genesis}

Undisturbed ==
  /\ NoReconsider
  /\ "invalidateblock" \in Rpcs => RpcAnyTime = FALSE /\ MaxRestarts = 0
  /\ \A b \in ImportFile : OwnStake(b)
-----------------------------------------------------------------------------
(* The inductive invariant, on top of ChainInv and FateInv: *)

(* the transactions of every validated block are indexed; *)
TxIndexed == scriptsValid \cup disk.scriptsValid \subseteq txIndex

(* its stake modifier is set, in memory and on disk; *)
ModifiersSet ==
  /\ scriptsValid \cup {Genesis} \subseteq bnStakeModifier
  /\ scriptsValid \subseteq received
  /\ disk.scriptsValid \cup {Genesis} \subseteq disk.modifier
  /\ disk.scriptsValid \subseteq disk.received

(* the active chain is linked and not failed, validated blocks have data,   *)
(* on disk too, and the staked output of a received block is found when the *)
(* block is next to be connected; *)
Stakeable(b) == ~ KernelUnknown(b) \/ OwnStake(b)

BaseInv ==
  /\ scriptsValid \subseteq received \ BadScripts
  /\ disk.scriptsValid \subseteq disk.received
  /\ "invalidateblock" \notin Rpcs => failedValid \cap scriptsValid = {}
  /\ \A b \in linked : Anc[b] \subseteq linked
  /\ mapBlocksUnlinked \cap linked = {}
  /\ \A b \in received \ {Genesis} : Stakeable(b)
  /\ chainTip \in linked /\ Active \cap Failed = {}
  /\ pc # "shutdown" /\ nBlockReverseSequenceId < 0

(* a block that no invalid block lies below, and that is not worse than the *)
(* tip at the last moment cs_main was free, or was made precious, is a      *)
(* candidate; *)
Unmarked(b) == Anc[b] \cap failedValid = {}
UnmarkedUnfailed == \A b \in Blocks : Unmarked(b) => Anc[b] \cap Failed = {}
FreeTip == IF MainFree THEN chainTip ELSE starting_tip

OfferInv ==
  /\ \A b \in linked : Unmarked(b) /\ ~ Worse(b, FreeTip) => b \in setBlockIndexCandidates
  /\ \A b \in linked : Unmarked(b) /\ nSequenceId[b] < 0 => b \in setBlockIndexCandidates

(* in the critical section the tip it began with stays good and the target  *)
(* is not worse; a target that is kept while cs_main is free lies above the *)
(* tip; *)
SearchInv ==
  /\ pc \in {"find", "step"} =>
       /\ starting_tip \in linked /\ Anc[starting_tip] \cap Failed = {}
       /\ Anc[starting_tip] \ {Genesis} \subseteq scriptsValid
       /\ pindexMostWork # NoBlock => ~ Worse(pindexMostWork, starting_tip)
  /\ pc = "find" => chainTip = IF blocks_connected THEN pindexNewTip ELSE starting_tip
  /\ pc = "unlocked" /\ pindexMostWork # NoBlock =>
       chainTip \in Anc[pindexMostWork] /\ chainTip # pindexMostWork

(* when no thread is about to call ActivateBestChain, nothing is better     *)
(* than the target of the one inside or, at its end, than the tip. *)
NoneBetter(b) == \A c \in setBlockIndexCandidates : ~ Worse(b, c)
Aim == IF pc \in {"idle", "exit"} THEN chainTip ELSE pindexMostWork

CallInv ==
  waiting = {} /\ (~ fImporting \/ holder = "import") /\ Aim # NoBlock => NoneBetter(Aim)

BestInv == BaseInv /\ OfferInv /\ SearchInv /\ CallInv
-----------------------------------------------------------------------------
(* CBlockIndexWorkComparator is a strict total order, also when two blocks  *)
(* have equal trust and sequence number, and goes by trust first.           *)
LEMMA WorseOrder ==
  ASSUME NEW seq \in [Blocks -> Int], NEW addr \in AddressOrders,
         NEW a \in Blocks, NEW b \in Blocks, NEW c \in Blocks
  PROVE  /\ WorseBy(seq, addr, a, b) => ~ WorseBy(seq, addr, b, a)
         /\ ~ WorseBy(seq, addr, a, b) /\ ~ WorseBy(seq, addr, b, c) => ~ WorseBy(seq, addr, a, c)
         /\ WorseBy(seq, addr, a, b) \/ WorseBy(seq, addr, b, a) \/ a = b
         /\ Trust[a] < Trust[b] => ~ WorseBy(seq, addr, b, a)
<1>1. Trust \in [Blocks -> Nat]
  BY TreeAssumed, Zenon DEF TreeAssumption
<1>2. addr \in [Blocks -> Nat]
  BY EnvironmentAssumed, Zenon
<1>3. addr[a] = addr[b] => a = b
  BY EnvironmentAssumed, Zenon
<1> QED
  BY <1>1, <1>2, <1>3 DEF WorseBy

(* Trust grows along a chain.                                               *)
LEMMA TrustGrows ==
  \A b \in Blocks : \A a \in Anc[b] : a # b => Trust[a] < Trust[b]
<1> SUFFICES ASSUME NEW b \in Blocks, NEW a \in Anc[b], a # b PROVE Trust[a] < Trust[b]
  BY Zenon
<1>1. b # Genesis
  <2>1. Anc[Genesis] = {Genesis}
    BY TreeAssumed, Zenon DEF TreeAssumption
  <2> QED
    BY <2>1, Zenon
<1> QED
  BY <1>1, AncProper, TreeAssumed, Zenon DEF TreeAssumption

(* What the invariants say about the types and about failed blocks.         *)
LEMMA BestFacts ==
  ASSUME ChainInv, FateInv, BestInv, NoReconsider
  PROVE  /\ BaseInv /\ OfferInv /\ SearchInv /\ CallInv /\ MaskInv
         /\ nSequenceId \in [Blocks -> Int] /\ address \in AddressOrders
         /\ linked \subseteq received /\ received \subseteq Blocks /\ chainTip \in Blocks
         /\ setBlockIndexCandidates \subseteq linked /\ Genesis \in setBlockIndexCandidates
         /\ pc \in {"idle", "unlocked", "find", "step", "exit"}
         /\ FreeTip \in Blocks
<1>1. /\ BaseInv /\ OfferInv /\ SearchInv /\ CallInv /\ MaskInv
      /\ nSequenceId \in [Blocks -> Int] /\ address \in AddressOrders
      /\ received \subseteq Blocks /\ chainTip \in Blocks
      /\ setBlockIndexCandidates \subseteq linked /\ Genesis \in setBlockIndexCandidates
      /\ pc \in {"idle", "unlocked", "find", "step", "exit"}
  BY Zenon DEF BestInv, BaseInv, ChainInv, TypeInv, TypeOK, IndexInv, FateInv, StartInv
<1>2. linked \subseteq received
  BY AncReflexive, Zenon DEF ChainInv, TypeInv, TypeOK, IndexInv, LinkedHaveData
<1>3. FreeTip \in Blocks
  BY <1>1, <1>2, Zenon DEF FreeTip, MainFree, SearchInv
<1> QED
  BY <1>1, <1>2, <1>3, Zenon

(* A block without an invalid one below it has no failed block below it.    *)
LEMMA UnmarkedGood == MaskInv => UnmarkedUnfailed
  BY AncTransitive, Zenon DEF MaskInv, MarkedFrom, Unmarked, UnmarkedUnfailed

(* Candidates are lost only to failures, and the tip is not worse the next  *)
(* time cs_main is free.                                                    *)
LEMMA OfferKeeps ==
  ASSUME OfferInv, linked \subseteq Blocks, FreeTip \in Blocks, FreeTip' \in Blocks,
         nSequenceId \in [Blocks -> Int], address \in AddressOrders,
         UNCHANGED <<nSequenceId, address, linked>>, failedValid \subseteq failedValid',
         \A x \in setBlockIndexCandidates \ setBlockIndexCandidates' : ~ Unmarked(x)',
         ~ Worse(FreeTip', FreeTip)
  PROVE  OfferInv'
<1> SUFFICES ASSUME NEW b \in linked', Unmarked(b)',
                    ~ Worse(b, FreeTip)' \/ nSequenceId'[b] < 0
             PROVE  b \in setBlockIndexCandidates'
  BY Zenon DEF OfferInv
<1>1. b \in linked /\ Unmarked(b) /\ b \in Blocks
  BY Zenon DEF Unmarked
<1>2. CASE nSequenceId'[b] < 0
  BY <1>1, <1>2, Zenon DEF OfferInv
<1>3. CASE ~ Worse(b, FreeTip)'
  <2>1. ~ WorseBy(nSequenceId, address, b, FreeTip')
    BY <1>3, Zenon DEF Worse
  <2>2. ~ WorseBy(nSequenceId, address, b, FreeTip)
    BY <1>1, <2>1, WorseOrder, Zenon DEF Worse
  <2> QED
    BY <1>1, <2>2, Zenon DEF OfferInv, Worse
<1> QED
  BY <1>2, <1>3, Zenon

(* No candidate is added, no caller leaves, and the aim stays or is given   *)
(* up.                                                                      *)
LEMMA CallKeeps ==
  ASSUME CallInv, UNCHANGED <<nSequenceId, address, fImporting, holder>>, waiting \subseteq waiting',
         setBlockIndexCandidates' \subseteq setBlockIndexCandidates,
         Aim' = NoBlock \/ Aim' = Aim
  PROVE  CallInv'
<1> SUFFICES ASSUME waiting' = {}, (~ fImporting \/ holder = "import")', Aim' # NoBlock
             PROVE  NoneBetter(Aim)'
  BY Zenon DEF CallInv
<1>1. Aim' = Aim /\ NoneBetter(Aim)
  BY Zenon DEF CallInv
<1> QED
  BY <1>1, Zenon DEF NoneBetter, Worse
-----------------------------------------------------------------------------
(* A step while cs_main is free that changes neither tip, links nor         *)
(* candidates; it may mark blocks off the active chain, and flush.          *)
LEMMA FreeStep ==
  ASSUME ChainInv, FateInv, BestInv, NoReconsider, MainFree,
         UNCHANGED <<received, scriptsValid, linked, nSequenceId, address, chainTip,
                     setBlockIndexCandidates, mapBlocksUnlinked, nBlockReverseSequenceId,
                     txIndex, fImporting, holder, pc, pindexMostWork>>,
         waiting \subseteq waiting', failedValid \subseteq failedValid', Active \cap Failed' = {},
         "invalidateblock" \notin Rpcs => failedValid' \cap scriptsValid = {},
         disk'.scriptsValid \subseteq disk'.received
  PROVE  BestInv'
<1>1. BaseInv'
  BY Zenon DEF BestInv, BaseInv, Stakeable, KernelUnknown, Active
<1>2. FreeTip' = chainTip /\ FreeTip = chainTip
  BY Zenon DEF FreeTip, MainFree
<1>3. OfferInv'
  BY <1>2, BestFacts, WorseOrder, OfferKeeps, Zenon DEF Worse
<1>4. SearchInv'
  BY BestFacts, Zenon DEF SearchInv, MainFree
<1>5. CallInv'
  BY BestFacts, CallKeeps, Zenon DEF Aim
<1> QED
  BY <1>1, <1>3, <1>4, <1>5, Zenon DEF BestInv

(* A batch that writes validated blocks writes their data.                  *)
LEMMA WrittenScripts ==
  ASSUME disk.scriptsValid \subseteq disk.received, NEW dirty, NEW index, NEW data, NEW scripts,
         scripts \subseteq data, NEW invalid, NEW child, NEW modifier, NEW best,
         NEW d, d = Written(dirty, index, data, scripts, invalid, child, modifier, best)
  PROVE  d.scriptsValid \subseteq d.received
<1>1. /\ d.scriptsValid = Merge(disk.scriptsValid, scripts, dirty)
      /\ d.received = Merge(disk.received, data, dirty)
  BY Zenon DEF Written
<1> QED
  BY <1>1, Zenon DEF Merge

(* So does FlushStateToDisk.                                                *)
LEMMA FlushScripts ==
  ASSUME disk.scriptsValid \subseteq disk.received, NEW mode, NEW dirty, FlushStateToDisk(mode, dirty),
         scriptsValid' \subseteq received'
  PROVE  disk'.scriptsValid \subseteq disk'.received
<1>1. CASE mode = "none"
  BY <1>1, Zenon DEF FlushStateToDisk
<1>2. CASE mode # "none"
  <2>1. disk' = Written(dirty, mapBlockIndex', received', scriptsValid', failedValid', failedChild',
                        bnStakeModifier', IF mode = "full" THEN chainTip' ELSE disk.tip)
    BY <1>2, Zenon DEF FlushStateToDisk
  <2> QED
    BY <2>1, WrittenScripts, Zenon
<1> QED
  BY <1>1, <1>2, Zenon

(* Headers refused on the way to a failed block are not active.             *)
LEMMA BestReject ==
  ASSUME ChainInv, FateInv, BestInv, NoReconsider, NEW b \in Blocks \ {Genesis}, RejectHeader(b)
  PROVE  BestInv'
<1>1. PICK failedit \in g_failed_blocks \cap Anc[Parent[b]] :
         failedChild' = failedChild \cup (Anc[Parent[b]] \ Anc[failedit])
  BY Zenon DEF RejectHeader
<1> DEFINE walk == Anc[Parent[b]] \ Anc[failedit]
<1>2. /\ MainFree
      /\ UNCHANGED <<received, scriptsValid, linked, nSequenceId, address, chainTip, failedValid, disk,
                     setBlockIndexCandidates, mapBlocksUnlinked, nBlockReverseSequenceId,
                     txIndex, fImporting, holder, pc, pindexMostWork, waiting>>
  BY Zenon DEF RejectHeader, stateVars, abcVars, localVars
<1>3. failedit \notin Active /\ Parent[b] \in Blocks /\ chainTip \in Blocks
  BY <1>1, AncParent, Zenon DEF ChainInv, FailInv, TypeInv, TypeOK
<1>4. \A x \in walk : failedit \in Anc[x]
  BY <1>1, <1>3, AncBetween, Zenon
<1>5. walk \cap Active = {}
  BY <1>3, <1>4, AncTransitive, Zenon DEF Active
<1>6. Failed' = Failed \cup walk
  BY <1>1, <1>2, Zenon DEF Failed
<1>7. /\ Active \cap Failed' = {}
      /\ "invalidateblock" \notin Rpcs => failedValid' \cap scriptsValid = {}
      /\ disk'.scriptsValid \subseteq disk'.received
  BY <1>2, <1>5, <1>6, Zenon DEF BestInv, BaseInv
<1> QED
  BY <1>2, <1>7, FreeStep, Zenon

(* What b completes was not linked, and closes the linked blocks again.     *)
LEMMA NewlyLinkedClosed ==
  ASSUME ChainInv, BaseInv, linked \subseteq received, NEW b \in Blocks \ {Genesis}, b \notin received,
         Parent[b] \in linked
  PROVE  /\ NewlyLinked(b) \cap linked = {}
         /\ NewlyLinked(b) \subseteq Blocks
         /\ \A x \in linked \cup NewlyLinked(b) : Anc[x] \subseteq linked \cup NewlyLinked(b)
<1>1. NewlyLinked(b) \cap linked = {} /\ mapBlocksUnlinked \subseteq Blocks
  BY Zenon DEF NewlyLinked, BaseInv, ChainInv, TypeInv, TypeOK
<1>2. Anc[b] \subseteq linked \cup {b} /\ b \in NewlyLinked(b)
  <2>1. Anc[b] = {b} \cup Anc[Parent[b]]
    BY AncParent, Zenon
  <2>2. Anc[Parent[b]] \subseteq linked
    BY Zenon DEF BaseInv
  <2> QED
    BY <2>1, <2>2, Zenon DEF NewlyLinked
<1>3. ASSUME NEW d \in mapBlocksUnlinked, b \in Anc[d], Anc[d] \ Anc[b] \subseteq mapBlocksUnlinked,
             NEW y \in Anc[d] \ Anc[b]
      PROVE  y \in NewlyLinked(b)
  <2>1. b \in Anc[y] /\ Anc[y] \subseteq Anc[d]
    BY <1>1, <1>3, AncBetween, AncTransitive, Zenon
  <2> QED
    BY <1>3, <2>1, Zenon DEF NewlyLinked
<1>4. ASSUME NEW x \in NewlyLinked(b) PROVE Anc[x] \subseteq linked \cup NewlyLinked(b)
  <2>1. CASE x = b
    BY <1>2, <2>1, Zenon
  <2>2. CASE x # b
    <3>1. x \in mapBlocksUnlinked /\ b \in Anc[x] /\ Anc[x] \ Anc[b] \subseteq mapBlocksUnlinked
      BY <1>4, <2>2, Zenon DEF NewlyLinked
    <3> QED
      BY <1>2, <1>3, <3>1, Zenon
  <2> QED
    BY <2>1, <2>2, Zenon
<1>5. NewlyLinked(b) \subseteq Blocks
  BY <1>1, Zenon DEF NewlyLinked
<1> QED
  BY <1>1, <1>4, <1>5, Zenon DEF BaseInv

(* AcceptBlock: a block that completes a chain not worse than the tip is    *)
(* offered, and its thread goes on to ActivateBestChain, or ThreadImport    *)
(* will.                                                                    *)
LEMMA BestAccept ==
  ASSUME ChainInv, FateInv, BestInv, NoReconsider, MainFree,
         NEW b \in Blocks \ {Genesis}, NEW fRequested, NEW fCheckPoS,
         AcceptBlock(b, fRequested, fCheckPoS), fCheckPoS \/ OwnStake(b),
         UNCHANGED <<fImporting, holder, pc, localVars>>, waiting \subseteq waiting',
         AcceptBlockOk(b, fRequested, fCheckPoS) => waiting' # {} \/ (fImporting /\ holder # "import")
  PROVE  BestInv'
<1>1. /\ UNCHANGED <<scriptsValid, failedChild, address, chainTip, nBlockReverseSequenceId, disk,
                     txIndex, pindexMostWork>>
      /\ BaseInv /\ OfferInv /\ SearchInv
  BY Zenon DEF AcceptBlock, localVars, BestInv
<1>2. scriptsValid \subseteq received /\ Active \subseteq received
  BY Zenon DEF BestInv, BaseInv, ChainInv, ActiveChainConnected
<1>3. CASE /\ failedValid' \in {failedValid, failedValid \cup {b}}
           /\ failedValid' = failedValid \/ b \notin received
           /\ UNCHANGED <<received, linked, nSequenceId, setBlockIndexCandidates, mapBlocksUnlinked>>
  <2>1. Active \cap Failed' = {}
    BY <1>1, <1>2, <1>3, Zenon DEF BaseInv, Failed
  <2>2. /\ "invalidateblock" \notin Rpcs => failedValid' \cap scriptsValid = {}
        /\ disk'.scriptsValid \subseteq disk'.received /\ failedValid \subseteq failedValid'
    BY <1>1, <1>2, <1>3, Zenon DEF BaseInv
  <2> QED
    BY <1>1, <1>3, <2>1, <2>2, FreeStep, Zenon
<1>4. CASE /\ AcceptBlockOk(b, fRequested, fCheckPoS) /\ ~ Rejected(b, fCheckPoS) /\ b \notin received
           /\ ReceivedBlockTransactions(b) /\ UNCHANGED failedValid
  <2>1. received' = received \cup {b} /\ Stakeable(b) /\ Failed' = Failed
    BY <1>1, <1>4, Zenon DEF ReceivedBlockTransactions, Rejected, Stakeable, KernelUnknown, Failed
  <2>2. linked \subseteq received /\ nSequenceId \in [Blocks -> Int] /\ chainTip \in linked
    BY BestFacts, Zenon DEF BaseInv
  <2>3. FreeTip' = chainTip /\ FreeTip = chainTip /\ SearchInv'
    BY <1>1, Zenon DEF FreeTip, MainFree, SearchInv
  <2>4. CallInv'
    BY <1>4, Zenon DEF CallInv
  <2>5. /\ scriptsValid \subseteq received' \ BadScripts
        /\ \A x \in received' \ {Genesis} : Stakeable(x)'
        /\ UNCHANGED <<Active, Failed>>
    <3>1. \A x \in received \cup {b} : Stakeable(x)' = Stakeable(x)
      BY <1>1, Zenon DEF Stakeable, KernelUnknown
    <3> QED
      BY <1>1, <2>1, <3>1, Zenon DEF BaseInv, Active
  <2>6. CASE Parent[b] \in linked
    <3> DEFINE new == NewlyLinked(b)
    <3>1. PICK ids \in WalkNumberings(new) :
            /\ linked' = linked \cup new
            /\ nSequenceId' = [x \in Blocks |-> IF x \in new THEN ids[x] ELSE nSequenceId[x]]
            /\ setBlockIndexCandidates' = setBlockIndexCandidates \cup
                 {x \in new : ~ WorseBy(nSequenceId', address, x, chainTip)}
            /\ mapBlocksUnlinked' = mapBlocksUnlinked \ new
      BY <1>4, <2>6, Zenon DEF ReceivedBlockTransactions
    <3>2. /\ new \cap linked = {} /\ new \subseteq Blocks
          /\ \A x \in linked \cup new : Anc[x] \subseteq linked \cup new
      BY <1>1, <1>4, <2>2, <2>6, NewlyLinkedClosed, Zenon
    <3> HIDE DEF new
    <3>3. BaseInv'
      <4>1. mapBlocksUnlinked' \cap linked' = {} /\ chainTip \in linked'
        BY <1>1, <3>1, <3>2, Zenon DEF BaseInv
      <4>2. \A x \in linked' : Anc[x] \subseteq linked'
        BY <3>1, <3>2, Zenon
      <4> QED
        BY <1>1, <1>4, <2>5, <4>1, <4>2, Zenon DEF BaseInv
    <3>4. \A x \in linked : nSequenceId'[x] = nSequenceId[x]
      <4>1. \A x \in linked : x \in Blocks /\ x \notin new
        BY <2>2, <3>2, Zenon DEF ChainInv, TypeInv, TypeOK
      <4> QED
        BY <3>1, <4>1, Zenon
    <3>5. \A x \in new : ~ (nSequenceId'[x] < 0)
      <4>1. nBlockSequenceId \in Nat \ {0} /\ Cardinality(new) \in Nat
        BY <3>2, TreeAssumed, Zenon DEF TreeAssumption, ChainInv, TypeInv, TypeOK
      <4> QED
        BY <3>1, <3>2, <4>1 DEF WalkNumberings
    <3>6. OfferInv'
      <4> SUFFICES ASSUME NEW x \in linked', Unmarked(x)',
                          ~ Worse(x, chainTip)' \/ nSequenceId'[x] < 0
                   PROVE  x \in setBlockIndexCandidates'
        BY <1>1, <2>3, Zenon DEF OfferInv, Worse
      <4>1. CASE x \in new
        BY <1>1, <3>1, <3>5, <4>1, Zenon DEF Worse
      <4>2. CASE x \in linked
        <5>1. nSequenceId'[x] = nSequenceId[x] /\ nSequenceId'[chainTip] = nSequenceId[chainTip]
          BY <2>2, <3>4, <4>2, Zenon
        <5>2. ~ Worse(x, chainTip) \/ nSequenceId[x] < 0
          BY <1>1, <5>1, Zenon DEF Worse, WorseBy
        <5>3. Unmarked(x)
          BY <1>4, Zenon DEF Unmarked
        <5> QED
          BY <1>1, <2>3, <3>1, <4>2, <5>2, <5>3, Zenon DEF OfferInv
      <4> QED
        BY <3>1, <4>1, <4>2, Zenon
    <3> QED
      BY <2>3, <2>4, <3>3, <3>6, Zenon DEF BestInv
  <2>7. CASE Parent[b] \notin linked
    <3>1. /\ UNCHANGED <<linked, nSequenceId, setBlockIndexCandidates>>
          /\ mapBlocksUnlinked' \subseteq mapBlocksUnlinked \cup {b}
      BY <1>4, <2>7, Zenon DEF ReceivedBlockTransactions
    <3>2. BaseInv'
      <4>1. mapBlocksUnlinked' \cap linked' = {}
        BY <1>1, <1>4, <2>2, <3>1, Zenon DEF BaseInv
      <4> QED
        BY <1>1, <1>4, <2>5, <3>1, <4>1, Zenon DEF BaseInv
    <3>3. OfferInv'
      BY <1>1, <1>4, <2>3, <3>1, Zenon DEF OfferInv, Worse, Unmarked
    <3> QED
      BY <2>3, <2>4, <3>2, <3>3, Zenon DEF BestInv
  <2> QED
    BY <2>6, <2>7, Zenon
<1> QED
  BY <1>3, <1>4, Zenon DEF AcceptBlock, AcceptBlockOk, NotWanted

(* preciousblock: the block is the better of its peers, and stays offered   *)
(* when it is the tip; the caller goes on to ActivateBestChain.             *)
LEMMA BestPrecious ==
  ASSUME ChainInv, FateInv, BestInv, NoReconsider, NEW b \in Blocks, PreciousBlock(b)
  PROVE  BestInv'
<1>1. /\ MainFree /\ waiting' = waiting \cup {"rpc"}
      /\ UNCHANGED <<received, scriptsValid, failedValid, failedChild, linked, address, chainTip,
                     mapBlocksUnlinked, disk, txIndex, pc, pindexMostWork>>
  BY Zenon DEF PreciousBlock, RpcReady, RpcActivates, diskVars, localVars
<1>2. BestInv /\ BaseInv /\ OfferInv /\ SearchInv /\ MaskInv /\ linked \subseteq received
  BY BestFacts, Zenon
<1>3. PICK id \in Int : /\ id < 0 /\ nSequenceId' = [nSequenceId EXCEPT ![b] = id]
                        /\ nBlockReverseSequenceId' < 0
  <2>1. nBlockReverseSequenceId \in Int /\ nBlockReverseSequenceId < 0
    BY <1>2, Zenon DEF BaseInv, ChainInv, TypeInv, TypeOK
  <2> DEFINE id == IF Trust[chainTip] > nLastPreciousChainwork THEN -1 ELSE nBlockReverseSequenceId
  <2>2. nSequenceId' = [nSequenceId EXCEPT ![b] = id] /\ nBlockReverseSequenceId' = id - 1
    BY Zenon DEF PreciousBlock
  <2>3. id \in Int /\ id < 0 /\ id - 1 < 0
    BY <2>1
  <2> QED
    BY <2>2, <2>3, Zenon
<1>4. BaseInv'
  BY <1>1, <1>2, <1>3, Zenon DEF BaseInv, Stakeable, KernelUnknown, Active, Failed
<1>5. SearchInv' /\ CallInv' /\ FreeTip' = chainTip /\ FreeTip = chainTip
  BY <1>1, <1>2, Zenon DEF SearchInv, CallInv, MainFree, FreeTip
<1>6. /\ nSequenceId \in [Blocks -> Int] /\ Trust \in [Blocks -> Nat] /\ chainTip \in Blocks
      /\ linked \subseteq Blocks
  BY TreeAssumed, Zenon DEF TreeAssumption, ChainInv, TypeInv, TypeOK
<1>7. OfferInv'
  <2> SUFFICES ASSUME NEW x \in linked', Unmarked(x)', ~ Worse(x, chainTip)' \/ nSequenceId'[x] < 0
               PROVE  x \in setBlockIndexCandidates'
    BY <1>1, <1>5, Zenon DEF OfferInv, Worse
  <2>1. x \in linked /\ Unmarked(x) /\ x \in Blocks
    BY <1>1, <1>6, Zenon DEF Unmarked
  <2>2. CASE x = b
    <3>1. HaveTransactions(b) /\ b \in linked
      BY <1>2, <2>1, <2>2, UnmarkedGood, AncReflexive, Zenon DEF HaveTransactions, UnmarkedUnfailed
    <3> QED
      BY <2>2, <3>1, Zenon DEF PreciousBlock
  <2>3. CASE x # b
    <3>1. nSequenceId'[x] = nSequenceId[x]
      BY <1>3, <1>6, <2>1, <2>3, Zenon
    <3>2. ~ Worse(x, chainTip) \/ nSequenceId[x] < 0
      <4>1. CASE chainTip # b
        <5>1. nSequenceId'[chainTip] = nSequenceId[chainTip]
          BY <1>3, <1>6, <4>1, Zenon
        <5> QED
          BY <1>1, <3>1, <5>1, Zenon DEF Worse, WorseBy
      <4>2. CASE chainTip = b
        <5>1. nSequenceId'[chainTip] = id
          BY <1>3, <1>6, <4>2, Zenon
        <5>2. ~ WorseBy(nSequenceId', address, x, chainTip) \/ nSequenceId[x] < 0
          BY <1>1, <3>1, Zenon DEF Worse
        <5> QED
          BY <1>3, <1>6, <2>1, <3>1, <5>1, <5>2 DEF Worse, WorseBy
      <4> QED
        BY <4>1, <4>2, Zenon
    <3>3. x \in setBlockIndexCandidates
      BY <1>2, <1>5, <2>1, <3>2, Zenon DEF OfferInv
    <3> QED
      BY <2>3, <3>3, Zenon DEF PreciousBlock
  <2> QED
    BY <2>2, <2>3, Zenon
<1> QED
  BY <1>4, <1>5, <1>7, Zenon DEF BestInv

(* invalidateblock: the chains left are offered again, compared with the    *)
(* new tip.                                                                 *)
LEMMA BestInvalidate ==
  ASSUME Undisturbed, ChainInv, ChainInv', FateInv, FateInv', BestInv, NEW b \in Blocks,
         InvalidateBlock(b)
  PROVE  BestInv'
<1> DEFINE walk == IF b \in Active THEN Active \ Anc[b] ELSE {}
<1>1. /\ UNCHANGED <<received, scriptsValid, linked, nSequenceId, address, mapBlocksUnlinked,
                     nBlockReverseSequenceId, txIndex, pc>>
      /\ b # Genesis /\ waiting' = waiting \cup {"rpc"}
      /\ chainTip' = IF b \in Active THEN Parent[b] ELSE chainTip
      /\ failedChild' = failedChild \cup walk /\ failedValid' = failedValid \cup {b}
      /\ setBlockIndexCandidates' = (setBlockIndexCandidates \ (walk \cup {b})) \cup
           Reoffered(chainTip', failedValid' \cup failedChild')
  BY Zenon DEF InvalidateBlock, RpcActivates
<1>2. "invalidateblock" \in Rpcs /\ NoReconsider
  BY Zenon DEF InvalidateBlock, RpcReady, Undisturbed
<1>3. BaseInv /\ OfferInv /\ linked \subseteq received /\ received \subseteq Blocks /\ chainTip \in Blocks
  BY <1>2, BestFacts, Zenon
<1>4. pc = "idle"
  BY <1>2, Zenon DEF InvalidateBlock, RpcReady, Quiescent, MainFree, Undisturbed, ChainInv, TypeInv, PcInv
<1>5. Failed' = Failed \cup walk \cup {b}
  BY <1>1, Zenon DEF Failed
<1>6. Active' \subseteq Active /\ (walk \cup {b}) \cap Active' = {}
  BY <1>1, <1>3, AncParent, AncTransitive, AncReflexive, Zenon DEF Active
<1> HIDE DEF walk
<1>7. chainTip' \in linked
  <2>1. chainTip' \in Active
    BY <1>1, <1>3, AncParent, AncTransitive, AncReflexive, Zenon DEF Active
  <2> QED
    BY <1>3, <2>1, Zenon DEF BaseInv, Active
<1>8. disk'.scriptsValid \subseteq disk'.received
  <2>1. CASE UNCHANGED disk
    BY <1>3, <2>1, Zenon DEF BaseInv
  <2>2. CASE \E x : disk' = Written(setDirtyBlockIndex, mapBlockIndex, received, scriptsValid,
                                    failedValid, failedChild, bnStakeModifier, Parent[x])
    BY <1>3, <2>2, WrittenScripts, Zenon DEF BaseInv
  <2> QED
    BY <2>1, <2>2, Zenon DEF InvalidateBlock, MidwayFlush
<1>9. BaseInv'
  <2>1. Active' \cap Failed' = {}
    BY <1>3, <1>5, <1>6, Zenon DEF BaseInv
  <2>2. \A x \in received \ {Genesis} : Stakeable(x)'
    BY <1>1, <1>3, Zenon DEF BaseInv, Stakeable, KernelUnknown
  <2> QED
    BY <1>1, <1>2, <1>3, <1>7, <1>8, <2>1, <2>2, Zenon DEF BaseInv
<1>10. SearchInv' /\ CallInv' /\ FreeTip' = chainTip'
  BY <1>1, <1>4, Zenon DEF SearchInv, CallInv, FreeTip, MainFree
<1>11. OfferInv'
  <2> SUFFICES ASSUME NEW x \in linked', Unmarked(x)', ~ Worse(x, chainTip)' \/ nSequenceId'[x] < 0
               PROVE  x \in setBlockIndexCandidates'
    BY <1>10, Zenon DEF OfferInv, Worse
  <2>1. x \in linked /\ Unmarked(x) /\ x \in Blocks /\ x \in received
    BY <1>1, <1>3, Zenon DEF Unmarked
  <2>2. x \notin Failed'
    <3>1. (MaskInv => UnmarkedUnfailed)'
      BY UnmarkedGood, PTL
    <3>2. MaskInv'
      BY <1>2, Zenon DEF FateInv
    <3> QED
      BY <2>1, <3>1, <3>2, AncReflexive, Zenon DEF UnmarkedUnfailed
  <2>3. CASE ~ Worse(x, chainTip)'
    BY <1>1, <2>1, <2>2, <2>3, Zenon DEF Reoffered, Worse, Failed
  <2>4. CASE nSequenceId'[x] < 0
    BY <1>1, <1>3, <1>5, <2>1, <2>2, <2>4, Zenon DEF OfferInv
  <2> QED
    BY <2>3, <2>4, Zenon
<1> QED
  BY <1>9, <1>10, <1>11, Zenon DEF BestInv

(* What a process finds in its databases was in memory once.                *)
LEMMA LoadedSubset ==
  ASSUME ChainInv, FateInv, BestInv, NoReconsider, NEW how
  PROVE  /\ DiskAtExit(how).received \subseteq received
         /\ DiskAtExit(how).scriptsValid \subseteq scriptsValid
         /\ DiskAtExit(how).failedValid \subseteq failedValid
         /\ DiskAtExit(how).scriptsValid \subseteq DiskAtExit(how).received
<1> DEFINE d == DiskAtExit(how)
<1>1. /\ disk.received \subseteq received /\ disk.scriptsValid \subseteq scriptsValid
      /\ disk.failedValid \subseteq failedValid /\ disk.scriptsValid \subseteq disk.received
      /\ scriptsValid \subseteq received
  BY Zenon DEF ChainInv, DiskInv, FateInv, MarksLag, BestInv, BaseInv
<1>2. CASE how = "killed"
  BY <1>1, <1>2, Zenon DEF DiskAtExit
<1>3. CASE how # "killed"
  <2>1. d = Written(setDirtyBlockIndex, mapBlockIndex, received, scriptsValid, failedValid,
                    failedChild, bnStakeModifier, IF how = "shutdown" THEN chainTip ELSE disk.tip)
    BY <1>3, Zenon DEF DiskAtExit
  <2> HIDE DEF d
  <2>2. /\ d.received = Merge(disk.received, received, setDirtyBlockIndex)
        /\ d.scriptsValid = Merge(disk.scriptsValid, scriptsValid, setDirtyBlockIndex)
        /\ d.failedValid = Merge(disk.failedValid, failedValid, setDirtyBlockIndex)
    BY <2>1, Zenon DEF Written
  <2>3. d.scriptsValid \subseteq d.received
    BY <1>1, <2>1, WrittenScripts, Zenon
  <2>4. /\ d.received \subseteq received /\ d.scriptsValid \subseteq scriptsValid
        /\ d.failedValid \subseteq failedValid
    BY <1>1, <2>2, Zenon DEF Merge
  <2> QED
    BY <2>3, <2>4, Zenon DEF d
<1> QED
  BY <1>2, <1>3, Zenon

(* A process that starts offers every linked block that is not failed, and  *)
(* its tip is not failed, as no validated block was marked.                 *)
LEMMA BestRestart ==
  ASSUME Undisturbed, ChainInv, ChainInv', FateInv, FateInv', BestInv, Restart
  PROVE  BestInv'
<1>1. PICK how \in {"killed", "torn", "shutdown"} : Load(DiskAtExit(how))
  BY Zenon DEF Restart
<1> DEFINE d == DiskAtExit(how)
<1>2. NoReconsider /\ "invalidateblock" \notin Rpcs
  <2>1. MaxRestarts # 0
    <3>1. restarts \in Nat /\ restarts < MaxRestarts
      BY Zenon DEF Restart, ChainInv, TypeInv, TypeOK
    <3> QED
      BY <3>1
  <2> QED
    BY <2>1, Zenon DEF Undisturbed
<1>3. /\ d.received \subseteq received /\ d.scriptsValid \subseteq scriptsValid
      /\ d.failedValid \subseteq failedValid /\ d.scriptsValid \subseteq d.received
  BY <1>2, LoadedSubset, Zenon
<1>4. BaseInv /\ received \subseteq Blocks
  BY <1>2, BestFacts, Zenon
<1> HIDE DEF d
<1>5. Load(d)
  BY <1>1, Zenon DEF d
<1> DEFINE invalid == d.failedValid \cup d.failedChild
<1> DEFINE inherited == {x \in d.map \ invalid : Anc[x] \cap invalid # {}}
<1>6. /\ received' = d.received /\ scriptsValid' = d.scriptsValid
      /\ failedValid' = d.failedValid /\ failedChild' = d.failedChild \cup inherited
      /\ linked' = {x \in d.received : Anc[x] \subseteq d.received}
      /\ mapBlocksUnlinked' = {x \in d.received \ {Genesis} : Parent[x] \notin linked'}
      /\ setBlockIndexCandidates' = linked' \ (invalid \cup inherited)
  BY <1>5, Zenon DEF Load
<1>7. Failed' = invalid \cup inherited
  BY <1>6, Zenon DEF Failed
<1> HIDE DEF invalid, inherited
<1>8. /\ disk'.scriptsValid = scriptsValid' /\ disk'.received = received'
      /\ fImporting' = TRUE /\ holder' = "none" /\ pc' = "idle" /\ UNCHANGED txIndex
      /\ nBlockReverseSequenceId' = -1
  BY Zenon DEF Restart
<1>9. MaskInv' /\ Genesis \notin Failed' /\ ActiveChainConnected' /\ chainTip' \in Blocks
  BY <1>2, Zenon DEF FateInv, StartInv, ChainInv, TypeInv, TypeOK
<1>10. failedValid' \cap scriptsValid' = {}
  BY <1>2, <1>3, <1>4, <1>6, Zenon DEF BaseInv
<1>11. Active' \cap Failed' = {}
  <2> SUFFICES ASSUME NEW x \in Active', x \in Failed' PROVE FALSE
    BY Zenon
  <2>1. PICK f \in Blocks : f \in Anc[x] /\ f \in failedValid'
    BY <1>9, Zenon DEF MaskInv, MarkedFrom
  <2>2. f \in Active' /\ f # Genesis
    BY <1>9, <2>1, AncTransitive, Zenon DEF Active, Failed
  <2> QED
    BY <1>9, <1>10, <2>1, <2>2, Zenon DEF ActiveChainConnected
<1>12. \A x \in linked' : Anc[x] \subseteq linked'
  BY <1>3, <1>4, <1>6, AncTransitive, Zenon
<1>13. mapBlocksUnlinked' \cap linked' = {}
  <2> SUFFICES ASSUME NEW x \in linked', x \in mapBlocksUnlinked' PROVE FALSE
    BY Zenon
  <2>1. x \in Blocks \ {Genesis} /\ Parent[x] \notin linked'
    BY <1>3, <1>4, <1>6, Zenon
  <2> QED
    BY <1>12, <2>1, AncParent, Zenon
<1>14. chainTip' \in linked'
  BY <1>6, <1>9, AncReflexive, Zenon DEF ActiveChainConnected, Active
<1>15. \A x \in received' \ {Genesis} : Stakeable(x)'
  BY <1>3, <1>4, <1>6, <1>8, Zenon DEF BaseInv, Stakeable, KernelUnknown
<1>16. scriptsValid' \subseteq received' \ BadScripts /\ nBlockReverseSequenceId' < 0
  <2>1. nBlockReverseSequenceId' < 0
    BY <1>8
  <2> QED
    BY <1>3, <1>4, <1>6, <2>1, Zenon DEF BaseInv
<1>17. BaseInv'
  BY <1>3, <1>6, <1>8, <1>10, <1>11, <1>12, <1>13, <1>14, <1>15, <1>16, Zenon DEF BaseInv
<1>18. OfferInv'
  <2>1. (MaskInv => UnmarkedUnfailed)'
    BY UnmarkedGood, PTL
  <2>2. \A x \in linked' : x \in Blocks
    BY <1>3, <1>4, <1>6, Zenon
  <2>3. \A x \in linked' : Unmarked(x)' => x \in setBlockIndexCandidates'
    BY <1>6, <1>7, <1>9, <2>1, <2>2, AncReflexive, Zenon DEF UnmarkedUnfailed
  <2> QED
    BY <2>3, Zenon DEF OfferInv
<1>19. SearchInv' /\ CallInv'
  BY <1>8, Zenon DEF SearchInv, CallInv
<1> QED
  BY <1>17, <1>18, <1>19, Zenon DEF BestInv
-----------------------------------------------------------------------------
(* What FindMostWorkChain returns is not worse than the tip that was found, *)
(* which is itself a candidate, and no candidate is better.                 *)
LEMMA FoundGood ==
  ASSUME ChainInv, FateInv, BestInv, NoReconsider, pc = "find", NEW m \in Blocks, FoundMostWork(m)
  PROVE  /\ ~ Worse(m, starting_tip)
         /\ waiting = {} /\ (~ fImporting \/ holder = "import") => NoneBetter(m)
<1>1. /\ OfferInv /\ SearchInv /\ CallInv
      /\ nSequenceId \in [Blocks -> Int] /\ address \in AddressOrders
      /\ setBlockIndexCandidates \subseteq Blocks /\ NoBlock \notin Blocks
      /\ linked \subseteq Blocks
  BY BestFacts, TreeAssumed, Zenon DEF TreeAssumption
<1>2. CASE m = pindexMostWork
  BY <1>1, <1>2, Zenon DEF SearchInv, CallInv, Aim
<1>3. CASE IsBestCandidate(m)
  <2>1. NoneBetter(m)
    <3>1. ASSUME NEW c \in setBlockIndexCandidates PROVE ~ Worse(m, c)
      <4>1. c = m \/ WorseBy(nSequenceId, address, c, m)
        BY <1>3, <3>1, Zenon DEF IsBestCandidate, Worse
      <4>2. c \in Blocks
        BY <1>1, <3>1, Zenon
      <4>3. WorseBy(nSequenceId, address, c, m) => ~ WorseBy(nSequenceId, address, m, c)
        BY <1>1, <4>2, WorseOrder, Zenon
      <4>4. ~ WorseBy(nSequenceId, address, m, m)
        BY <1>1, WorseOrder, Zenon
      <4> QED
        BY <4>1, <4>3, <4>4, Zenon DEF Worse
    <3> QED
      BY <3>1, Zenon DEF NoneBetter
  <2>2. starting_tip \in linked /\ Unmarked(starting_tip) /\ FreeTip = starting_tip
    BY <1>1, Zenon DEF SearchInv, Unmarked, Failed, FreeTip, MainFree
  <2>3. ~ Worse(starting_tip, starting_tip)
    BY <1>1, <2>2, WorseOrder, Zenon DEF Worse
  <2>4. starting_tip \in setBlockIndexCandidates
    BY <1>1, <2>2, <2>3, Zenon DEF OfferInv
  <2> QED
    BY <2>1, <2>4, Zenon DEF NoneBetter
<1> QED
  BY <1>1, <1>2, <1>3, Zenon DEF FoundMostWork

(* The end of ActivateBestChainStep, with the target kept or given up; only *)
(* blocks that were never validated are marked.                             *)
LEMMA BestAfter ==
  ASSUME ChainInv, FateInv, BestInv, NoReconsider, pc = "step", NEW mostWork,
         AfterStep(chainTip, mostWork),
         mostWork = NoBlock \/ (mostWork = pindexMostWork /\ chainTip \in Anc[pindexMostWork]),
         UNCHANGED <<received, scriptsValid, failedChild, linked, nSequenceId, address, chainTip,
                     mapBlocksUnlinked, nBlockReverseSequenceId, disk, txIndex, waiting>>,
         failedValid \subseteq failedValid',
         (failedValid' \ failedValid) \cap (scriptsValid \cup {Genesis}) = {},
         setBlockIndexCandidates' \subseteq setBlockIndexCandidates,
         setBlockIndexCandidates \ setBlockIndexCandidates' \subseteq failedValid'
  PROVE  BestInv'
<1>1. /\ BaseInv /\ OfferInv /\ SearchInv /\ CallInv /\ linked \subseteq Blocks /\ chainTip \in Blocks
      /\ nSequenceId \in [Blocks -> Int] /\ address \in AddressOrders /\ NoBlock \notin Blocks
      /\ setBlockIndexCandidates \subseteq Blocks
  BY BestFacts, TreeAssumed, Zenon DEF TreeAssumption
<1>2. /\ starting_tip \in linked /\ starting_tip \in Blocks /\ Anc[starting_tip] \cap Failed = {}
      /\ Anc[starting_tip] \ {Genesis} \subseteq scriptsValid
      /\ ~ Worse(pindexMostWork, starting_tip) /\ pindexMostWork # NoBlock
      /\ Aim = pindexMostWork /\ FreeTip = starting_tip
  BY <1>1, Zenon DEF SearchInv, ChainInv, TypeInv, PcInv, Aim, FreeTip, MainFree
<1>3. Failed' = Failed \cup failedValid' /\ Active' = Active
  BY Zenon DEF Failed, Active
<1>4. Active' \cap Failed' = {}
  BY <1>1, <1>3, Zenon DEF BaseInv, ChainInv, ActiveChainConnected, Failed
<1>5. \A x \in setBlockIndexCandidates \ setBlockIndexCandidates' : ~ Unmarked(x)'
  BY <1>1, AncReflexive, Zenon DEF Unmarked
<1>6. Anc[starting_tip] \cap Failed' = {}
  BY <1>2, <1>3, Zenon DEF Failed
<1>7. ASSUME pc' # "shutdown" PROVE BaseInv'
  <2>1. \A x \in received \ {Genesis} : Stakeable(x)'
    BY <1>1, Zenon DEF BaseInv, Stakeable, KernelUnknown
  <2> QED
    BY <1>1, <1>4, <1>7, <2>1, Zenon DEF BaseInv
<1>8. CASE Worse(chainTip, starting_tip)
  <2>1. /\ pc' = "find" /\ pindexMostWork' = mostWork /\ pindexNewTip' = chainTip
        /\ blocks_connected' = TRUE /\ UNCHANGED <<starting_tip, holder, fImporting>>
    BY <1>8, Zenon DEF AfterStep
  <2>2. FreeTip' = starting_tip /\ (Aim' = NoBlock \/ Aim' = Aim)
    BY <1>2, <2>1, Zenon DEF FreeTip, MainFree, Aim
  <2>3. ~ Worse(starting_tip, starting_tip)
    BY <1>1, <1>2, WorseOrder, Zenon DEF Worse
  <2>4. OfferInv'
    BY <1>1, <1>2, <1>5, <2>2, <2>3, OfferKeeps, Zenon
  <2>5. SearchInv'
    BY <1>2, <1>6, <2>1, Zenon DEF SearchInv, Worse
  <2>6. CallInv'
    BY <1>1, <2>1, <2>2, CallKeeps, Zenon
  <2> QED
    BY <1>7, <2>1, <2>4, <2>5, <2>6, Zenon DEF BestInv
<1>9. CASE ~ Worse(chainTip, starting_tip)
  <2>1. /\ pc' = IF chainTip = mostWork THEN "exit" ELSE "unlocked"
        /\ pindexMostWork' = mostWork /\ UNCHANGED <<holder, fImporting>>
    BY <1>9, Zenon DEF AfterStep, ABCUnlock
  <2>2. FreeTip' = chainTip
    BY <2>1, Zenon DEF FreeTip, MainFree
  <2>3. Aim' = NoBlock \/ Aim' = Aim
    <3>1. CASE chainTip = mostWork
      BY <1>1, <1>2, <2>1, <3>1, Zenon DEF Aim
    <3>2. CASE chainTip # mostWork
      BY <1>1, <1>2, <2>1, <3>2, Zenon DEF Aim
    <3> QED
      BY <3>1, <3>2, Zenon
  <2>4. OfferInv'
    BY <1>1, <1>2, <1>5, <1>9, <2>2, OfferKeeps, Zenon
  <2>5. SearchInv'
    BY <1>2, <2>1, Zenon DEF SearchInv
  <2>6. CallInv'
    BY <1>1, <2>1, <2>3, CallKeeps, Zenon
  <2> QED
    BY <1>7, <2>1, <2>4, <2>5, <2>6, Zenon DEF BestInv
<1> QED
  BY <1>8, <1>9, Zenon

(* FindMostWorkChain drops candidates above a failed block only, and none   *)
(* that the critical section began with.                                    *)
LEMMA BestPrune ==
  ASSUME ChainInv, FateInv, BestInv, NoReconsider, FindMostWorkChainPrune
  PROVE  BestInv'
<1>1. PICK pindexNew \in setBlockIndexCandidates : \E pindexTest \in Unusable(pindexNew) :
         /\ setBlockIndexCandidates' =
               setBlockIndexCandidates \ ((Anc[pindexNew] \ Anc[pindexTest]) \cup {pindexTest})
         /\ pindexTest \in Failed =>
               /\ failedChild' = failedChild \cup (Anc[pindexNew] \ Anc[pindexTest])
               /\ UNCHANGED mapBlocksUnlinked
  BY Zenon DEF FindMostWorkChainPrune
<1>2. PICK pindexTest \in Unusable(pindexNew) :
         /\ setBlockIndexCandidates' =
               setBlockIndexCandidates \ ((Anc[pindexNew] \ Anc[pindexTest]) \cup {pindexTest})
         /\ pindexTest \in Failed =>
               /\ failedChild' = failedChild \cup (Anc[pindexNew] \ Anc[pindexTest])
               /\ UNCHANGED mapBlocksUnlinked
  BY <1>1, Zenon
<1> DEFINE above == Anc[pindexNew] \ Anc[pindexTest]
<1>3. /\ UNCHANGED <<received, scriptsValid, failedValid, linked, nSequenceId, address, chainTip,
                     nBlockReverseSequenceId, disk, txIndex, fImporting, waiting, holder, pc,
                     pindexMostWork, starting_tip, blocks_connected, pindexNewTip>>
      /\ pc = "find" /\ pindexMostWork = NoBlock
  BY Zenon DEF FindMostWorkChainPrune, diskVars, abcVars, localVars
<1>4. /\ BaseInv /\ OfferInv /\ SearchInv /\ CallInv /\ MaskInv /\ linked \subseteq Blocks
      /\ nSequenceId \in [Blocks -> Int] /\ address \in AddressOrders /\ chainTip \in Blocks
      /\ pindexNew \in linked /\ pindexNew \in Blocks
  BY <1>1, BestFacts, Zenon
<1>5. pindexTest \in Anc[pindexNew] /\ pindexTest \notin Active /\ pindexTest \in Failed
  <2>1. Anc[pindexNew] \subseteq received
    BY <1>4, Zenon DEF ChainInv, IndexInv, LinkedHaveData
  <2> QED
    BY <1>2, <2>1, Zenon DEF Unusable, PathToActive
<1>6. \A x \in above \cup {pindexTest} : x \in Blocks /\ pindexTest \in Anc[x]
  BY <1>4, <1>5, AncBetween, AncTransitive, AncReflexive, Zenon
<1>7. Failed' = Failed \cup above /\ UNCHANGED <<Active, mapBlocksUnlinked>>
  BY <1>2, <1>3, <1>5, Zenon DEF Failed, Active
<1>8. starting_tip \in linked /\ Anc[starting_tip] \cap Failed = {} /\ starting_tip \in Blocks
  BY <1>3, <1>4, Zenon DEF SearchInv
<1>9. above \cap Active = {} /\ above \cap Anc[starting_tip] = {}
  BY <1>4, <1>5, <1>6, <1>8, AncTransitive, Zenon DEF Active
<1>10. \A x \in above \cup {pindexTest} : ~ Unmarked(x)'
  <2>1. PICK f \in Blocks : f \in Anc[pindexTest] /\ f \in failedValid
    BY <1>4, <1>5, Zenon DEF MaskInv, MarkedFrom
  <2> QED
    BY <1>3, <1>6, <2>1, AncTransitive, Zenon DEF Unmarked
<1>11. setBlockIndexCandidates' = setBlockIndexCandidates \ (above \cup {pindexTest})
  BY <1>2, Zenon
<1> HIDE DEF above
<1>12. BaseInv'
  <2>1. \A x \in received \ {Genesis} : Stakeable(x)'
    BY <1>3, <1>4, Zenon DEF BaseInv, Stakeable, KernelUnknown
  <2> QED
    BY <1>3, <1>4, <1>7, <1>9, <2>1, Zenon DEF BaseInv
<1>13. FreeTip' = starting_tip /\ FreeTip = starting_tip /\ ~ Worse(starting_tip, starting_tip)
  <2>1. ~ WorseBy(nSequenceId, address, starting_tip, starting_tip)
    BY <1>4, <1>8, WorseOrder, Zenon
  <2> QED
    BY <1>3, <2>1, Zenon DEF FreeTip, MainFree, Worse
<1>14. OfferInv'
  BY <1>3, <1>4, <1>8, <1>10, <1>11, <1>13, OfferKeeps, Zenon
<1>15. SearchInv'
  BY <1>3, <1>4, <1>7, <1>8, <1>9, Zenon DEF SearchInv
<1>16. CallInv'
  BY <1>3, Zenon DEF CallInv, Aim
<1> QED
  BY <1>12, <1>14, <1>15, <1>16, Zenon DEF BestInv

(* ActivateBestChain begins.                                                *)
LEMMA BestBegin ==
  ASSUME ChainInv, FateInv, BestInv, NoReconsider, ABCLock \/ \E t \in Threads : ABCEnter(t)
  PROVE  BestInv'
<1>1. /\ BaseInv /\ OfferInv /\ SearchInv /\ CallInv /\ linked \subseteq Blocks
      /\ nSequenceId \in [Blocks -> Int] /\ address \in AddressOrders /\ chainTip \in Blocks
  BY BestFacts, Zenon
<1>2. UNCHANGED <<indexVars, stateVars, diskVars, fImporting, pindexMostWork, pindexNewTip>>
  BY Zenon DEF ABCLock, ABCEnter, localVars
<1>3. BaseInv'
  <2>1. \A x \in received \ {Genesis} : Stakeable(x)'
    BY <1>1, <1>2, Zenon DEF BaseInv, Stakeable, KernelUnknown, diskVars
  <2>2. pc' # "shutdown" /\ UNCHANGED <<Active, Failed>>
    BY <1>2, Zenon DEF ABCLock, ABCEnter, Active, Failed, indexVars, stateVars
  <2> QED
    BY <1>1, <1>2, <2>1, <2>2, Zenon DEF BaseInv, indexVars, stateVars, diskVars
<1>4. FreeTip' = chainTip /\ FreeTip = chainTip /\ ~ Worse(chainTip, chainTip)
  <2>1. ~ WorseBy(nSequenceId, address, chainTip, chainTip)
    BY <1>1, WorseOrder, Zenon
  <2> QED
    BY <1>2, <2>1, Zenon DEF ABCLock, ABCEnter, FreeTip, MainFree, Worse, stateVars
<1>5. OfferInv'
  BY <1>1, <1>2, <1>4, OfferKeeps, Zenon DEF indexVars, stateVars
<1>6. CASE ABCLock
  <2>1. /\ pc = "unlocked" /\ pc' = "find" /\ starting_tip' = chainTip /\ blocks_connected' = FALSE
        /\ UNCHANGED <<waiting, holder>>
    BY <1>6, Zenon DEF ABCLock
  <2>2. pindexMostWork # NoBlock => ~ Worse(pindexMostWork, chainTip)
    <3> SUFFICES ASSUME pindexMostWork # NoBlock
                 PROVE  ~ WorseBy(nSequenceId, address, pindexMostWork, chainTip)
      BY Zenon DEF Worse
    <3>1. /\ chainTip \in Anc[pindexMostWork] /\ chainTip # pindexMostWork
          /\ pindexMostWork \in Blocks
      BY <1>1, <2>1, Zenon DEF SearchInv, ChainInv, TypeInv, TypeOK
    <3>2. Trust[chainTip] < Trust[pindexMostWork]
      BY <3>1, TrustGrows, Zenon
    <3> QED
      BY <1>1, <3>1, <3>2, WorseOrder, Zenon
  <2>3. SearchInv'
    BY <1>1, <1>2, <2>1, <2>2, Zenon
    DEF SearchInv, BaseInv, ChainInv, ActiveChainConnected, Active, Failed, Worse, indexVars, stateVars
  <2>4. CallInv'
    BY <1>1, <1>2, <2>1, CallKeeps, Zenon DEF Aim, indexVars, stateVars
  <2> QED
    BY <1>3, <1>5, <2>3, <2>4, Zenon DEF BestInv
<1>7. ASSUME NEW t \in Threads, ABCEnter(t) PROVE BestInv'
  <2>1. pc' = "unlocked" /\ pindexMostWork' = NoBlock
    BY <1>7, Zenon DEF ABCEnter, ChainInv, TypeInv, PcInv, localVars
  <2> QED
    BY <1>3, <1>5, <2>1, Zenon DEF BestInv, SearchInv, CallInv, Aim
<1> QED
  BY <1>6, <1>7, Zenon

(* ActivateBestChain releases cs_main, or returns, on a tip that is not     *)
(* worse than the one it found and that no candidate betters.               *)
LEMMA BestRelease ==
  ASSUME ChainInv, FateInv, BestInv, NoReconsider,
         UNCHANGED <<indexVars, stateVars, txIndex, waiting>>,
         disk'.scriptsValid \subseteq disk'.received,
         pc' \in {"idle", "exit"}, ~ Worse(chainTip, FreeTip),
         fImporting' => fImporting,
         ~ fImporting' \/ holder' = "import" => ~ fImporting \/ holder = "import",
         waiting = {} /\ (~ fImporting \/ holder = "import") => NoneBetter(chainTip)
  PROVE  BestInv'
<1>1. /\ BaseInv /\ OfferInv /\ linked \subseteq Blocks
      /\ nSequenceId \in [Blocks -> Int] /\ address \in AddressOrders /\ chainTip \in Blocks
      /\ FreeTip \in Blocks
  BY BestFacts, Zenon
<1>2. BaseInv'
  <2>1. \A x \in received \ {Genesis} : Stakeable(x)'
    BY <1>1, Zenon DEF BaseInv, Stakeable, KernelUnknown
  <2>2. UNCHANGED <<Active, Failed>>
    BY Zenon DEF Active, Failed, indexVars, stateVars
  <2> QED
    BY <1>1, <2>1, <2>2, Zenon DEF BaseInv, indexVars, stateVars
<1>3. FreeTip' = chainTip /\ Aim' = chainTip
  BY Zenon DEF FreeTip, Aim, MainFree, stateVars
<1>4. OfferInv'
  BY <1>1, <1>3, OfferKeeps, Zenon DEF indexVars, stateVars
<1>5. SearchInv'
  BY Zenon DEF SearchInv
<1>6. CallInv'
  BY <1>3, Zenon DEF CallInv, NoneBetter, Worse, indexVars, stateVars
<1> QED
  BY <1>2, <1>4, <1>5, <1>6, Zenon DEF BestInv

(* Nothing to do: the tip is the most-work chain.                           *)
LEMMA BestBreak ==
  ASSUME ChainInv, FateInv, BestInv, NoReconsider, ABCBreak
  PROVE  BestInv' /\ ~ Worse(chainTip, starting_tip)
<1>1. PICK m \in {NoBlock, chainTip} :
        FoundMostWork(m) /\ IF blocks_connected THEN ABCUnlock(pindexNewTip, m) ELSE ABCLeave(TRUE)
  BY Zenon DEF ABCBreak
<1>2. /\ pc = "find" /\ UNCHANGED <<indexVars, stateVars, diskVars, waiting>>
      /\ BaseInv /\ SearchInv /\ Genesis \in setBlockIndexCandidates
      /\ setBlockIndexCandidates \subseteq Blocks /\ NoBlock \notin Blocks
  BY BestFacts, TreeAssumed, Zenon DEF ABCBreak, TreeAssumption
<1>3. m \in Blocks /\ m = chainTip
  BY <1>1, <1>2, BestFacts, Zenon DEF FoundMostWork, IsBestCandidate
<1>4. /\ ~ Worse(chainTip, starting_tip) /\ FreeTip = starting_tip
      /\ waiting = {} /\ (~ fImporting \/ holder = "import") => NoneBetter(chainTip)
  BY <1>1, <1>2, <1>3, FoundGood, Zenon DEF FreeTip, MainFree
<1>5. disk'.scriptsValid \subseteq disk'.received /\ UNCHANGED txIndex
  BY <1>2, Zenon DEF BaseInv, diskVars
<1>6. CASE blocks_connected
  <2>1. pc' = "exit" /\ UNCHANGED <<holder, fImporting>>
    BY <1>1, <1>2, <1>3, <1>6, Zenon DEF ABCUnlock, SearchInv
  <2> QED
    BY <1>2, <1>4, <1>5, <2>1, BestRelease, Zenon
<1>7. CASE ~ blocks_connected
  <2>1. /\ pc' = "idle" /\ holder' = "none"
        /\ fImporting' = IF holder = "import" THEN FALSE ELSE fImporting
    BY <1>1, <1>7, Zenon DEF ABCLeave
  <2> QED
    BY <1>2, <1>4, <1>5, <2>1, BestRelease, Zenon
<1> QED
  BY <1>4, <1>6, <1>7, Zenon

(* ActivateBestChain returns.                                               *)
LEMMA BestReturn ==
  ASSUME ChainInv, FateInv, BestInv, NoReconsider, ABCReturn
  PROVE  BestInv'
<1>1. /\ pc = "exit" /\ UNCHANGED <<indexVars, stateVars, txIndex, waiting>>
      /\ pc' = "idle" /\ holder' = "none"
      /\ fImporting' = IF holder = "import" THEN FALSE ELSE fImporting
  BY Zenon DEF ABCReturn, ABCLeave
<1>2. BaseInv /\ CallInv /\ chainTip \in Blocks /\ NoBlock \notin Blocks
  BY BestFacts, TreeAssumed, Zenon DEF TreeAssumption
<1>3. PICK mode \in Modes : FlushStateToDisk(mode, setDirtyBlockIndex)
  BY EnvironmentAssumed, Zenon DEF ABCReturn
<1>4. disk'.scriptsValid \subseteq disk'.received
  BY <1>1, <1>2, <1>3, FlushScripts, Zenon DEF BaseInv, indexVars
<1>5. FreeTip = chainTip /\ ~ Worse(chainTip, chainTip)
  <2>1. ~ WorseBy(nSequenceId, address, chainTip, chainTip)
    BY BestFacts, WorseOrder, Zenon
  <2> QED
    BY <1>1, <2>1, Zenon DEF FreeTip, MainFree, Worse
<1>6. waiting = {} /\ (~ fImporting \/ holder = "import") => NoneBetter(chainTip)
  BY <1>1, <1>2, Zenon DEF CallInv, Aim
<1> QED
  BY <1>1, <1>4, <1>5, <1>6, BestRelease, Zenon

(* ActivateBestChainStep begins, towards a target not worse than the tip.   *)
LEMMA BestTarget ==
  ASSUME ChainInv, FateInv, BestInv, NoReconsider, ABCStep
  PROVE  BestInv'
<1>1. PICK m \in Blocks : FoundMostWork(m) /\ pindexMostWork' = m
  BY Zenon DEF ABCStep
<1>2. /\ pc = "find" /\ pc' = "step"
      /\ UNCHANGED <<indexVars, stateVars, diskVars, fImporting, waiting, holder, starting_tip>>
  BY Zenon DEF ABCStep
<1>3. /\ ~ Worse(m, starting_tip)
      /\ waiting = {} /\ (~ fImporting \/ holder = "import") => NoneBetter(m)
  BY <1>1, <1>2, FoundGood, Zenon
<1>4. BaseInv /\ OfferInv /\ SearchInv
  BY BestFacts, Zenon
<1>5. BaseInv'
  <2>1. \A x \in received \ {Genesis} : Stakeable(x)'
    BY <1>2, <1>4, Zenon DEF BaseInv, Stakeable, KernelUnknown, diskVars
  <2>2. UNCHANGED <<Active, Failed>>
    BY <1>2, Zenon DEF Active, Failed, indexVars, stateVars
  <2> QED
    BY <1>2, <1>4, <2>1, <2>2, Zenon DEF BaseInv, indexVars, stateVars, diskVars
<1>6. OfferInv'
  BY <1>2, <1>4, Zenon DEF OfferInv, FreeTip, MainFree, Unmarked, Worse, indexVars, stateVars
<1>7. SearchInv'
  BY <1>1, <1>2, <1>3, <1>4, Zenon DEF SearchInv, Failed, Worse, indexVars
<1>8. CallInv'
  BY <1>1, <1>2, <1>3, Zenon DEF CallInv, Aim, NoneBetter, Worse, indexVars, stateVars
<1> QED
  BY <1>5, <1>6, <1>7, <1>8, Zenon DEF BestInv

(* A move of the tip within ActivateBestChainStep.                          *)
LEMMA BestMove ==
  ASSUME ChainInv, FateInv, BestInv, NoReconsider, pc = "step",
         UNCHANGED <<received, failedValid, failedChild, linked, nSequenceId, address,
                     setBlockIndexCandidates, mapBlocksUnlinked, nBlockReverseSequenceId,
                     fImporting, abcVars>>,
         chainTip' \in linked, Active' \cap Failed = {},
         scriptsValid \subseteq scriptsValid', scriptsValid' \subseteq received \ BadScripts,
         (scriptsValid' \ scriptsValid) \cap failedValid = {}, txIndex \subseteq txIndex',
         NEW mode, NEW dirty, FlushStateToDisk(mode, dirty)
  PROVE  BestInv'
<1>1. BaseInv /\ OfferInv /\ SearchInv /\ CallInv
  BY BestFacts, Zenon
<1>2. BaseInv'
  <2>1. \A x \in received \ {Genesis} : Stakeable(x)'
    BY <1>1, Zenon DEF BaseInv, Stakeable, KernelUnknown
  <2>2. UNCHANGED <<Failed, pc>>
    BY Zenon DEF Failed, abcVars
  <2>3. disk'.scriptsValid \subseteq disk'.received
    BY <1>1, FlushScripts, Zenon DEF BaseInv
  <2> QED
    BY <1>1, <2>1, <2>2, <2>3, Zenon DEF BaseInv
<1>3. OfferInv'
  BY <1>1, Zenon DEF OfferInv, FreeTip, MainFree, Unmarked, Worse, abcVars, localVars
<1>4. SearchInv'
  BY <1>1, Zenon DEF SearchInv, Failed, Worse, abcVars, localVars
<1>5. CallInv'
  BY <1>1, CallKeeps, Zenon DEF Aim, abcVars, localVars
<1> QED
  BY <1>2, <1>3, <1>4, <1>5, Zenon DEF BestInv

(* The block to connect next is linked, usable and not yet active.          *)
LEMMA NextUsable ==
  ASSUME ChainInv, FateInv, BestInv, NoReconsider, NEW b \in Blocks, NextToConnect(b)
  PROVE  /\ pc = "step" /\ b \in linked /\ b \in received /\ b # Genesis
         /\ Anc[b] \cap Failed = {} /\ Parent[b] = chainTip
<1>1. /\ pc = "step" /\ pindexMostWork \in Blocks /\ b \in Anc[pindexMostWork] /\ Parent[b] = chainTip
  BY Zenon DEF NextToConnect, Connecting, ChainInv, TypeInv, TypeOK, PcInv
<1>2. /\ pindexMostWork \in linked /\ Anc[pindexMostWork] \cap Failed = {} /\ b # Genesis
  BY <1>1, TreeAssumed, Zenon DEF TreeAssumption, ChainInv, IndexInv, FailInv, TypeInv, TypeOK
<1>3. b \in linked /\ b \in received
  BY <1>1, <1>2, BestFacts, Zenon DEF BaseInv
<1> QED
  BY <1>1, <1>2, <1>3, BestFacts, AncTransitive, Zenon DEF BaseInv

(* Its staked output is found: all blocks below it are connected.           *)
LEMMA StakeFound ==
  ASSUME ChainInv, FateInv, BestInv, TxIndexed, NoReconsider, NEW b \in Blocks, NextToConnect(b)
  PROVE  ~ KernelUnknown(b)
<1>1. b \in received \ {Genesis} /\ Anc[Parent[b]] = Active
  BY NextUsable, Zenon DEF Active
<1>2. Anc[Parent[b]] \ {Genesis} \subseteq txIndex
  BY <1>1, Zenon DEF TxIndexed, ChainInv, ActiveChainConnected
<1>3. Stakeable(b)
  BY <1>1, Zenon DEF BestInv, BaseInv
<1> QED
  BY <1>2, <1>3, Zenon DEF Stakeable, OwnStake, KernelUnknown

(* Its kernel is hashed with the right modifier: its parent is connected.   *)
LEMMA ModifierFound ==
  ASSUME ChainInv, ModifiersSet, NEW b \in Blocks, NextToConnect(b)
  PROVE  Parent[b] \in bnStakeModifier /\ ~ WrongModifier(b) /\ b \in received /\ b # Genesis
<1>1. /\ pindexMostWork \in Blocks /\ b \in Anc[pindexMostWork] /\ Parent[b] = chainTip
      /\ chainTip \in Blocks /\ NoBlock \notin Blocks
  BY TreeAssumed, Zenon DEF NextToConnect, Connecting, ChainInv, TypeInv, TypeOK, PcInv, TreeAssumption
<1>2. b # Genesis /\ b \in received
  BY <1>1, TreeAssumed, Zenon DEF TreeAssumption, ChainInv, IndexInv, LinkedHaveData
<1>3. chainTip \in Active
  BY <1>1, AncReflexive, Zenon DEF Active
<1> QED
  BY <1>1, <1>2, <1>3, Zenon DEF ModifiersSet, ChainInv, ActiveChainConnected, WrongModifier

(* A block is disconnected.                                                 *)
LEMMA BestDisconnect ==
  ASSUME ChainInv, ChainInv', FateInv, BestInv, NoReconsider, DisconnectTip
  PROVE  BestInv'
<1>1. /\ pc = "step" /\ chainTip' = Parent[chainTip]
      /\ UNCHANGED <<indexVars, setBlockIndexCandidates, mapBlocksUnlinked, nBlockReverseSequenceId,
                     txIndex, fImporting, abcVars>>
  BY Zenon DEF DisconnectTip
<1>2. chainTip \in Blocks \ {Genesis} /\ BaseInv /\ chainTip \in linked
  <2>1. chainTip \in Blocks /\ chainTip' \in Blocks /\ NoBlock \notin Blocks
    BY TreeAssumed, Zenon DEF TreeAssumption, ChainInv, TypeInv, TypeOK
  <2>2. chainTip # Genesis
    BY <1>1, <2>1, TreeAssumed, Zenon DEF TreeAssumption
  <2> QED
    BY <2>1, <2>2, BestFacts, Zenon DEF BaseInv
<1>3. chainTip' \in Active /\ Active' \subseteq Active
  BY <1>1, <1>2, AncParent, AncTransitive, Zenon DEF Active
<1>4. chainTip' \in linked /\ Active' \cap Failed = {}
  BY <1>2, <1>3, Zenon DEF BaseInv, Active
<1>5. PICK mode \in Modes : FlushStateToDisk(mode, setDirtyBlockIndex)
  BY EnvironmentAssumed, Zenon DEF DisconnectTip, IfNeeded
<1> QED
  BY <1>1, <1>2, <1>4, <1>5, BestMove, Zenon DEF indexVars, BaseInv

(* A block is connected.                                                    *)
LEMMA BestConnect ==
  ASSUME ChainInv, FateInv, BestInv, NoReconsider, NEW b \in Blocks, ConnectTip(b)
  PROVE  BestInv'
<1>1. /\ b \notin BadScripts /\ chainTip' = b /\ txIndex' = txIndex \cup {b}
      /\ scriptsValid' = IF b \in Failed THEN scriptsValid ELSE scriptsValid \cup {b}
      /\ UNCHANGED <<received, failedValid, failedChild, linked, nSequenceId, address,
                     setBlockIndexCandidates, mapBlocksUnlinked, nBlockReverseSequenceId,
                     fImporting, abcVars>>
  BY Zenon DEF ConnectTip
<1>2. /\ pc = "step" /\ b \in linked /\ b \in received /\ Anc[b] \cap Failed = {} /\ b \notin Failed
      /\ BaseInv
  BY NextUsable, BestFacts, AncReflexive, Zenon DEF ConnectTip
<1>3. /\ scriptsValid \subseteq scriptsValid' /\ scriptsValid' \subseteq received \ BadScripts
      /\ (scriptsValid' \ scriptsValid) \cap failedValid = {}
  BY <1>1, <1>2, Zenon DEF BaseInv, Failed
<1>4. PICK mode \in Modes : FlushStateToDisk(mode, setDirtyBlockIndex \cup {b})
  BY EnvironmentAssumed, Zenon DEF ConnectTip, IfNeeded
<1>5. Active' \cap Failed = {} /\ txIndex \subseteq txIndex'
  BY <1>1, <1>2, Zenon DEF Active
<1> QED
  BY <1>1, <1>2, <1>3, <1>4, <1>5, BestMove, Zenon

(* ConnectBlock finds a block invalid, or the stored block is corrupt: the  *)
(* target is given up.                                                      *)
LEMMA BestConnectFails ==
  ASSUME ChainInv, FateInv, ModifiersSet, BestInv, NoReconsider, NEW b \in Blocks,
         ConnectTipInvalid(b) \/ ConnectTipCorrupt(b)
  PROVE  BestInv'
<1>0. NextToConnect(b) /\ ~ WrongModifier(b)
  BY ModifierFound, Zenon DEF ConnectTipInvalid, ConnectTipCorrupt
<1>1. /\ NextToConnect(b) /\ AfterStep(chainTip, NoBlock)
      /\ UNCHANGED <<received, scriptsValid, failedChild, linked, nSequenceId, address, chainTip,
                     mapBlocksUnlinked, nBlockReverseSequenceId, disk, txIndex, waiting>>
      /\ \/ UNCHANGED <<failedValid, setBlockIndexCandidates>>
         \/ /\ b \in BadScripts /\ failedValid' = failedValid \cup {b}
            /\ setBlockIndexCandidates' = setBlockIndexCandidates \ {b}
  BY <1>0, Zenon DEF ConnectTipInvalid, ConnectTipCorrupt, stateVars
<1>2. pc = "step" /\ b # Genesis /\ BaseInv
  BY <1>1, NextUsable, BestFacts, Zenon
<1>3. /\ failedValid \subseteq failedValid' /\ setBlockIndexCandidates' \subseteq setBlockIndexCandidates
      /\ setBlockIndexCandidates \ setBlockIndexCandidates' \subseteq failedValid'
      /\ (failedValid' \ failedValid) \cap (scriptsValid \cup {Genesis}) = {}
  BY <1>1, <1>2, Zenon DEF BaseInv
<1> QED
  BY <1>1, <1>2, <1>3, BestAfter, Zenon
-----------------------------------------------------------------------------
(* Every step keeps the invariant, one case per action.                     *)
LEMMA BestStep ==
  Undisturbed => (ChainInv /\ FateInv /\ TxIndexed /\ ModifiersSet /\ BestInv /\ [Next]_vars => BestInv')
<1> SUFFICES ASSUME Undisturbed, ChainInv, FateInv, TxIndexed, ModifiersSet, BestInv, [Next]_vars PROVE BestInv'
  BY Zenon
<1>0. NoReconsider /\ InvalidateWaits /\ BaseInv
  BY Zenon DEF Undisturbed, InvalidateWaits, BestInv
<1>1. ChainInv' /\ FateInv'
  BY <1>0, ChainStep, FateStep, Zenon
<1>2. CASE UNCHANGED vars
  <2>1. UNCHANGED <<BaseInv, OfferInv>>
    BY <1>2, Zenon DEF vars, indexVars, stateVars, diskVars, abcVars, localVars, BaseInv, Active, Failed,
      Stakeable, KernelUnknown, OfferInv, Unmarked, FreeTip, MainFree, Worse
  <2>2. UNCHANGED <<SearchInv, CallInv>>
    BY <1>2, Zenon DEF vars, indexVars, stateVars, diskVars, abcVars, localVars, SearchInv, Failed,
      Worse, CallInv, Aim, NoneBetter
  <2> QED
    BY <2>1, <2>2, Zenon DEF BestInv
<1>3. /\ Active \cap Failed = {} /\ disk.scriptsValid \subseteq disk.received
      /\ "invalidateblock" \notin Rpcs => failedValid \cap scriptsValid = {}
  BY <1>0, Zenon DEF BaseInv
<1>4. CASE Network
  <2>1. ASSUME NEW b \in Blocks \ {Genesis}, ProcessNewBlockHeaders(b) PROVE BestInv'
    <3>1. /\ MainFree
          /\ UNCHANGED <<received, scriptsValid, failedValid, failedChild, linked, nSequenceId, address,
                         chainTip, setBlockIndexCandidates, mapBlocksUnlinked, nBlockReverseSequenceId,
                         disk, txIndex, fImporting, waiting, holder, pc, pindexMostWork>>
      BY <2>1, Zenon DEF ProcessNewBlockHeaders, abcVars, localVars
    <3>2. Failed' = Failed
      BY <3>1, Zenon DEF Failed
    <3> QED
      BY <1>0, <1>3, <3>1, <3>2, FreeStep, Zenon
  <2>2. ASSUME NEW b \in Blocks \ {Genesis}, LoadExternalBlock(b) PROVE BestInv'
    <3>1. /\ MainFree /\ fImporting /\ holder # "import" /\ AcceptBlock(b, TRUE, FALSE)
          /\ UNCHANGED <<fImporting, waiting, holder, pc, localVars>> /\ b \in ImportFile
      BY <2>2, Zenon DEF LoadExternalBlock, Idle, abcVars
    <3> QED
      BY <1>0, <3>1, BestAccept, Zenon DEF Undisturbed
  <2>3. ASSUME NEW b \in Blocks \ {Genesis}, NEW t, NEW fRequested, ProcessNewBlock(t, b, fRequested)
        PROVE  BestInv'
    <3>1. /\ MainFree /\ AcceptBlock(b, fRequested, TRUE)
          /\ waiting' = IF AcceptBlockOk(b, fRequested, TRUE) THEN waiting \cup {t} ELSE waiting
          /\ UNCHANGED <<fImporting, holder, pc, localVars>>
      BY <2>3, Zenon DEF ProcessNewBlock
    <3>2. waiting \subseteq waiting' /\ (AcceptBlockOk(b, fRequested, TRUE) => waiting' # {})
      BY <3>1, Zenon
    <3> QED
      BY <1>0, <3>1, <3>2, BestAccept, Zenon
  <2> QED
    BY <1>0, <1>4, <2>1, <2>2, <2>3, BestReject, Zenon DEF Network
<1>5. CASE Activation
  <2>1. ASSUME ImportActivate PROVE BestInv'
    <3>1. /\ waiting' # {}
          /\ UNCHANGED <<indexVars, stateVars, diskVars, fImporting, holder, pc, localVars>>
      BY <2>1, Zenon DEF ImportActivate
    <3>2. UNCHANGED <<BaseInv, OfferInv, SearchInv>>
      <4> USE DEF indexVars, stateVars, diskVars, localVars
      <4>1. UNCHANGED <<BaseInv, OfferInv>>
        BY <3>1, Zenon DEF BaseInv, Active, Failed, Stakeable, KernelUnknown, OfferInv, Unmarked, FreeTip,
          MainFree, Worse
      <4>2. UNCHANGED SearchInv
        BY <3>1, Zenon DEF SearchInv, Failed, Worse
      <4> QED
        BY <4>1, <4>2, Zenon
    <3> QED
      BY <3>1, <3>2, Zenon DEF BestInv, CallInv
  <2>2. ASSUME ABCStepEnd PROVE BestInv'
    <3>1. /\ pc = "step" /\ AfterStep(chainTip, pindexMostWork) /\ chainTip \in Anc[pindexMostWork]
          /\ UNCHANGED <<indexVars, stateVars, diskVars, waiting>>
      BY <2>2, Zenon DEF ABCStepEnd, StepDone
    <3> QED
      BY <1>0, <3>1, BestAfter, Zenon DEF indexVars, stateVars, diskVars
  <2>3. ASSUME NEW b \in Blocks, ConnectTipError(b) PROVE FALSE
    BY <1>0, <2>3, StakeFound, Zenon DEF ConnectTipError
  <2> QED
    BY <1>0, <1>1, <1>5, <2>1, <2>2, <2>3, BestBegin, BestPrune, BestBreak, BestTarget, BestDisconnect,
       BestReturn, BestConnect, BestConnectFails, Zenon DEF Activation
<1>6. CASE Operator
  <2>1. ASSUME NEW b \in Blocks, ResetBlockFailureFlags(b) PROVE FALSE
    BY <1>0, <2>1, Zenon DEF ResetBlockFailureFlags, RpcReady, NoReconsider
  <2> QED
    BY <1>0, <1>1, <1>6, <2>1, BestInvalidate, BestPrecious, Zenon DEF Operator
<1>7. CASE Flush
  <2>1. PICK mode \in Modes : FlushStateToDisk(mode, setDirtyBlockIndex)
    BY <1>7, EnvironmentAssumed, Zenon DEF Flush
  <2>2. MainFree /\ UNCHANGED <<indexVars, stateVars, txIndex, fImporting, abcVars>>
    BY <1>7, Zenon DEF Flush
  <2>3. disk'.scriptsValid \subseteq disk'.received /\ Failed' = Failed
    BY <1>0, <2>1, <2>2, FlushScripts, Zenon DEF BaseInv, indexVars, Failed
  <2> QED
    BY <1>0, <1>3, <2>2, <2>3, FreeStep, Zenon DEF indexVars, stateVars, abcVars, localVars
<1>8. CASE Restart
  BY <1>1, <1>8, BestRestart, Zenon
<1> QED
  BY <1>2, <1>4, <1>5, <1>6, <1>7, <1>8, Zenon DEF Next

(* A flush writes no other flags than those in memory.                      *)
LEMMA FlushIndexed ==
  ASSUME TxIndexed, NEW mode, NEW dirty, FlushStateToDisk(mode, dirty),
         scriptsValid' \subseteq txIndex', txIndex \subseteq txIndex'
  PROVE  TxIndexed'
<1>1. CASE mode = "none"
  BY <1>1, Zenon DEF FlushStateToDisk, TxIndexed
<1>2. CASE mode # "none"
  <2>1. disk'.scriptsValid = Merge(disk.scriptsValid, scriptsValid', dirty)
    BY <1>2, Zenon DEF FlushStateToDisk, Written
  <2> QED
    BY <2>1, Zenon DEF TxIndexed, Merge
<1> QED
  BY <1>1, <1>2, Zenon

(* ConnectBlock writes the transaction index before it raises the validity  *)
(* of the block, and nothing takes an entry out.                            *)
LEMMA IndexedStep == TxIndexed /\ [Next]_vars => TxIndexed'
<1> SUFFICES ASSUME TxIndexed, [Next]_vars PROVE TxIndexed'
  BY Zenon
<1> USE DEF indexVars, stateVars, diskVars
<1>1. ASSUME UNCHANGED <<scriptsValid, disk, txIndex>> PROVE TxIndexed'
  BY <1>1, Zenon DEF TxIndexed
<1>2. ASSUME UNCHANGED <<scriptsValid, txIndex>>, NEW mode, NEW dirty, FlushStateToDisk(mode, dirty)
      PROVE  TxIndexed'
  BY <1>2, FlushIndexed, Zenon DEF TxIndexed
<1>3. CASE UNCHANGED vars
  BY <1>1, <1>3, Zenon DEF vars
<1>4. CASE Network
  <2>1. ASSUME NEW b, NEW fRequested, NEW fCheckPoS, AcceptBlock(b, fRequested, fCheckPoS)
        PROVE  TxIndexed'
    BY <1>1, <2>1, Zenon DEF AcceptBlock
  <2>2. ASSUME NEW b, ProcessNewBlockHeaders(b) \/ RejectHeader(b) PROVE TxIndexed'
    BY <1>1, <2>2, Zenon DEF ProcessNewBlockHeaders, RejectHeader
  <2> QED
    BY <1>4, <2>1, <2>2, Zenon DEF Network, LoadExternalBlock, ProcessNewBlock
<1>5. CASE Activation
  <2>1. ASSUME NEW b \in Blocks, ConnectTip(b) PROVE TxIndexed'
    <3>1. /\ scriptsValid' \subseteq scriptsValid \cup {b} /\ txIndex' = txIndex \cup {b}
          /\ \E mode \in IfNeeded : FlushStateToDisk(mode, setDirtyBlockIndex \cup {b})
      BY <2>1, Zenon DEF ConnectTip
    <3> QED
      BY <3>1, FlushIndexed, Zenon DEF TxIndexed
  <2>2. ASSUME DisconnectTip \/ ABCReturn PROVE TxIndexed'
    BY <1>2, <2>2, Zenon DEF DisconnectTip, ABCReturn
  <2>3. ASSUME FindMostWorkChainPrune \/ ABCBreak \/ ABCStep \/ ABCStepEnd PROVE TxIndexed'
    BY <1>1, <2>3, Zenon DEF FindMostWorkChainPrune, ABCBreak, ABCStep, ABCStepEnd
  <2>4. ASSUME ImportActivate \/ ABCLock \/ (\E t \in Threads : ABCEnter(t)) PROVE TxIndexed'
    BY <1>1, <2>4, Zenon DEF ImportActivate, ABCLock, ABCEnter
  <2>5. ASSUME NEW b \in Blocks, ConnectTipInvalid(b) \/ ConnectTipCorrupt(b) \/ ConnectTipError(b)
        PROVE  TxIndexed'
    BY <1>1, <2>5, Zenon DEF ConnectTipInvalid, ConnectTipCorrupt, ConnectTipError
  <2> QED
    BY <1>5, <2>1, <2>2, <2>3, <2>4, <2>5, Zenon DEF Activation
<1>6. CASE Operator
  <2>1. ASSUME NEW b \in Blocks, InvalidateBlock(b) PROVE TxIndexed'
    <3>1. UNCHANGED <<scriptsValid, txIndex>>
      BY <2>1, Zenon DEF InvalidateBlock
    <3>2. CASE \E x : disk' = Written(setDirtyBlockIndex, mapBlockIndex, received, scriptsValid,
                                      failedValid, failedChild, bnStakeModifier, Parent[x])
      <4>1. disk'.scriptsValid = Merge(disk.scriptsValid, scriptsValid, setDirtyBlockIndex)
        BY <3>2 DEF Written
      <4> QED
        BY <3>1, <4>1, Zenon DEF TxIndexed, Merge
    <3> QED
      BY <1>1, <2>1, <3>1, <3>2, Zenon DEF InvalidateBlock, MidwayFlush
  <2>2. ASSUME NEW b \in Blocks, ResetBlockFailureFlags(b) \/ PreciousBlock(b) PROVE TxIndexed'
    BY <1>1, <2>2, Zenon DEF ResetBlockFailureFlags, PreciousBlock
  <2> QED
    BY <1>6, <2>1, <2>2, Zenon DEF Operator
<1>7. CASE Flush
  BY <1>2, <1>7, Zenon DEF Flush
<1>8. CASE Restart
  <2>1. PICK how \in {"killed", "torn", "shutdown"} : Load(DiskAtExit(how))
    BY <1>8, Zenon DEF Restart
  <2>2. scriptsValid' = DiskAtExit(how).scriptsValid /\ disk'.scriptsValid = scriptsValid' /\ txIndex' = txIndex
    BY <1>8, <2>1, Zenon DEF Load, Restart
  <2>3. DiskAtExit(how).scriptsValid \subseteq scriptsValid \cup disk.scriptsValid
    BY Zenon DEF DiskAtExit, Written, Merge
  <2> QED
    BY <2>2, <2>3, Zenon DEF TxIndexed
<1> QED
  BY <1>3, <1>4, <1>5, <1>6, <1>7, <1>8, Zenon DEF Next

(* A batch writes no flag BLOCK_VALID_SCRIPTS without the modifier.         *)
LEMMA WrittenModifiers ==
  ASSUME ModifiersSet, NEW dirty, NEW index, NEW data, NEW scripts, NEW invalid, NEW child,
         NEW modifier, NEW best, scripts \subseteq data, scripts \cup {Genesis} \subseteq modifier,
         NEW d, d = Written(dirty, index, data, scripts, invalid, child, modifier, best)
  PROVE  d.scriptsValid \cup {Genesis} \subseteq d.modifier /\ d.scriptsValid \subseteq d.received
<1>1. /\ d.scriptsValid = Merge(disk.scriptsValid, scripts, dirty)
      /\ d.received = Merge(disk.received, data, dirty)
      /\ d.modifier = Merge(disk.modifier, modifier, dirty)
  BY Zenon DEF Written
<1> QED
  BY <1>1, Zenon DEF Merge, ModifiersSet

(* Nor does a flush.                                                        *)
LEMMA FlushModifiers ==
  ASSUME ModifiersSet, NEW mode, NEW dirty, FlushStateToDisk(mode, dirty),
         scriptsValid' \subseteq received', scriptsValid' \cup {Genesis} \subseteq bnStakeModifier'
  PROVE  ModifiersSet'
<1>1. CASE mode = "none"
  BY <1>1, Zenon DEF FlushStateToDisk, ModifiersSet
<1>2. CASE mode # "none"
  <2>1. disk' = Written(dirty, mapBlockIndex', received', scriptsValid', failedValid', failedChild',
                        bnStakeModifier', IF mode = "full" THEN chainTip' ELSE disk.tip)
    BY <1>2, Zenon DEF FlushStateToDisk
  <2> QED
    BY <2>1, WrittenModifiers, Zenon DEF ModifiersSet
<1> QED
  BY <1>1, <1>2, Zenon

(* The modifier of a block is computed before its validity is raised, from  *)
(* the modifier of a parent that is connected, and neither AcceptBlock nor  *)
(* a restart takes it back.                                                 *)
LEMMA ModifierStep == InvalidateWaits => (ChainInv /\ ModifiersSet /\ [Next]_vars => ModifiersSet')
<1> SUFFICES ASSUME ChainInv, ModifiersSet, [Next]_vars PROVE ModifiersSet'
  BY Zenon
<1> USE DEF indexVars, stateVars, diskVars
<1>1. ASSUME UNCHANGED <<scriptsValid, received, bnStakeModifier, disk>> PROVE ModifiersSet'
  BY <1>1, Zenon DEF ModifiersSet
<1>2. ASSUME UNCHANGED <<scriptsValid, received, bnStakeModifier>>, NEW mode, NEW dirty,
             FlushStateToDisk(mode, dirty)
      PROVE  ModifiersSet'
  BY <1>2, FlushModifiers, Zenon DEF ModifiersSet
<1>3. CASE UNCHANGED vars
  BY <1>1, <1>3, Zenon DEF vars
<1>4. CASE Network
  <2>1. ASSUME NEW b \in Blocks \ {Genesis}, NEW fRequested, NEW fCheckPoS,
               AcceptBlock(b, fRequested, fCheckPoS)
        PROVE  ModifiersSet'
    <3>1. CASE UNCHANGED <<received, bnStakeModifier>>
      BY <1>1, <2>1, <3>1, Zenon DEF AcceptBlock
    <3>2. CASE /\ b \notin received /\ received' = received \cup {b}
               /\ ComputeStakeModifier(b) \/ UNCHANGED bnStakeModifier
      BY <2>1, <3>2, Zenon DEF AcceptBlock, ComputeStakeModifier, ModifiersSet
    <3> QED
      BY <2>1, <3>1, <3>2, Zenon DEF AcceptBlock, NotWanted, ReceivedBlockTransactions
  <2>2. ASSUME NEW b, ProcessNewBlockHeaders(b) \/ RejectHeader(b) PROVE ModifiersSet'
    BY <1>1, <2>2, Zenon DEF ProcessNewBlockHeaders, RejectHeader
  <2> QED
    BY <1>4, <2>1, <2>2, Zenon DEF Network, LoadExternalBlock, ProcessNewBlock
<1>5. CASE Activation
  <2>0. ASSUME NEW b \in Blocks, NextToConnect(b), ComputeStakeModifier(b)
        PROVE  bnStakeModifier' = bnStakeModifier \cup {b}
    BY <2>0, ModifierFound, Zenon DEF ComputeStakeModifier
  <2>1. ASSUME NEW b \in Blocks, ConnectTip(b) PROVE ModifiersSet'
    <3>1. /\ scriptsValid' \subseteq scriptsValid \cup {b} /\ UNCHANGED received /\ NextToConnect(b)
          /\ \E mode \in IfNeeded : FlushStateToDisk(mode, setDirtyBlockIndex \cup {b})
          /\ bnStakeModifier' = bnStakeModifier \cup {b}
      BY <2>0, <2>1, Zenon DEF ConnectTip
    <3>2. scriptsValid' \subseteq received' /\ scriptsValid' \cup {Genesis} \subseteq bnStakeModifier'
      BY <3>1, ModifierFound, Zenon DEF ModifiersSet
    <3> QED
      BY <3>1, <3>2, FlushModifiers, Zenon
  <2>2. ASSUME DisconnectTip \/ ABCReturn PROVE ModifiersSet'
    BY <1>2, <2>2, Zenon DEF DisconnectTip, ABCReturn
  <2>3. ASSUME FindMostWorkChainPrune \/ ABCBreak \/ ABCStep \/ ABCStepEnd PROVE ModifiersSet'
    BY <1>1, <2>3, Zenon DEF FindMostWorkChainPrune, ABCBreak, ABCStep, ABCStepEnd
  <2>4. ASSUME ImportActivate \/ ABCLock \/ (\E t \in Threads : ABCEnter(t)) PROVE ModifiersSet'
    BY <1>1, <2>4, Zenon DEF ImportActivate, ABCLock, ABCEnter
  <2>5. ASSUME NEW b \in Blocks, ConnectTipInvalid(b) \/ ConnectTipCorrupt(b) \/ ConnectTipError(b)
        PROVE  ModifiersSet'
    <3>1. UNCHANGED <<scriptsValid, received, disk>>
      BY <2>5, Zenon DEF ConnectTipInvalid, ConnectTipCorrupt, ConnectTipError
    <3>2. bnStakeModifier \subseteq bnStakeModifier'
      BY <2>0, <2>5, Zenon DEF ConnectTipInvalid, ConnectTipCorrupt, ConnectTipError
    <3> QED
      BY <3>1, <3>2, Zenon DEF ModifiersSet
  <2> QED
    BY <1>5, <2>1, <2>2, <2>3, <2>4, <2>5, Zenon DEF Activation
<1>6. CASE Operator
  <2>1. ASSUME NEW b \in Blocks, InvalidateBlock(b) PROVE ModifiersSet'
    <3>1. UNCHANGED <<scriptsValid, received, bnStakeModifier>>
      BY <2>1, Zenon DEF InvalidateBlock
    <3>2. CASE \E x : disk' = Written(setDirtyBlockIndex, mapBlockIndex, received, scriptsValid,
                                      failedValid, failedChild, bnStakeModifier, Parent[x])
      BY <3>1, <3>2, WrittenModifiers, Zenon DEF ModifiersSet
    <3> QED
      BY <1>1, <2>1, <3>1, <3>2, Zenon DEF InvalidateBlock, MidwayFlush
  <2>2. ASSUME NEW b \in Blocks, ResetBlockFailureFlags(b) \/ PreciousBlock(b) PROVE ModifiersSet'
    BY <1>1, <2>2, Zenon DEF ResetBlockFailureFlags, PreciousBlock
  <2> QED
    BY <1>6, <2>1, <2>2, Zenon DEF Operator
<1>7. CASE Flush
  BY <1>2, <1>7, Zenon DEF Flush
<1>8. CASE Restart
  <2>1. PICK how \in {"killed", "torn", "shutdown"} : Load(DiskAtExit(how))
    BY <1>8, Zenon DEF Restart
  <2> DEFINE d == DiskAtExit(how)
  <2>2. /\ scriptsValid' = d.scriptsValid /\ received' = d.received /\ bnStakeModifier' = d.modifier
        /\ disk'.scriptsValid = scriptsValid' /\ disk'.received = received'
        /\ disk'.modifier = bnStakeModifier'
    BY <1>8, <2>1, Zenon DEF Load, Restart
  <2>3. d.scriptsValid \cup {Genesis} \subseteq d.modifier /\ d.scriptsValid \subseteq d.received
    BY WrittenModifiers, Zenon DEF DiskAtExit, ModifiersSet
  <2> HIDE DEF d
  <2> QED
    BY <2>2, <2>3, Zenon DEF ModifiersSet
<1> QED
  BY <1>3, <1>4, <1>5, <1>6, <1>7, <1>8, Zenon DEF Next

(* Initially the genesis block is the chain, and ThreadImport has yet to    *)
(* run.                                                                     *)
LEMMA BestInit == Init => TxIndexed /\ ModifiersSet /\ BestInv
<1> SUFFICES ASSUME Init PROVE TxIndexed /\ ModifiersSet /\ BestInv
  BY Zenon
<1>1. Anc[Genesis] = {Genesis}
  BY TreeAssumed, Zenon DEF TreeAssumption
<1>2. /\ received = {Genesis} /\ linked = {Genesis} /\ scriptsValid = {} /\ failedValid = {}
      /\ failedChild = {} /\ chainTip = Genesis /\ setBlockIndexCandidates = {Genesis}
      /\ mapBlocksUnlinked = {} /\ disk.scriptsValid = {} /\ pc = "idle" /\ fImporting = TRUE
      /\ holder = "none" /\ nBlockReverseSequenceId = -1
  BY Zenon DEF Init
<1>3. nBlockReverseSequenceId < 0
  BY <1>2
<1>4. BaseInv
  BY <1>1, <1>2, <1>3, Zenon DEF BaseInv, Active, Failed
<1> QED
  BY <1>2, <1>4, Zenon DEF Init, TxIndexed, ModifiersSet, BestInv, OfferInv, SearchInv, CallInv

(* The inductive invariant holds of every behaviour.                        *)
LEMMA BestInvariant == Undisturbed => (Spec => [](ChainInv /\ FateInv /\ TxIndexed /\ ModifiersSet /\ BestInv))
<1> SUFFICES ASSUME Undisturbed PROVE Spec => [](ChainInv /\ FateInv /\ TxIndexed /\ ModifiersSet /\ BestInv)
  BY Zenon
<1>1. ChainInv /\ FateInv /\ TxIndexed /\ ModifiersSet /\ BestInv /\ [Next]_vars => BestInv'
  BY BestStep, Zenon
<1>2. InvalidateWaits
  BY Zenon DEF Undisturbed, InvalidateWaits
<1> QED
  BY <1>1, <1>2, FateInvariant, IndexedStep, ModifierStep, BestInit, PTL DEF Spec

(* CheckBlockIndex: whenever cs_main is free, every linked block without an *)
(* invalid ancestor that is not worse than the tip is a candidate, in       *)
(* whatever order data, verdicts, commands and restarts come.               *)
THEOREM NoCandidateForgotten == Undisturbed => (Spec => []CandidatesComplete)
<1> SUFFICES ASSUME Undisturbed PROVE Spec => []CandidatesComplete
  BY Zenon
<1>1. BestInv => CandidatesComplete
  BY Zenon DEF BestInv, OfferInv, FreeTip, Unmarked, CandidatesComplete
<1> QED
  BY <1>1, BestInvariant, PTL

(* What ActivateBestChain promises: when the calls have returned, the       *)
(* active chain is the best one that has all its data and is not known to   *)
(* be invalid.                                                              *)
THEOREM BestChainWins == Undisturbed => (Spec => []BestChainActive)
<1> SUFFICES ASSUME Undisturbed PROVE Spec => []BestChainActive
  BY Zenon
<1>1. ASSUME ChainInv, FateInv, BestInv PROVE BestChainActive
  <2> SUFFICES ASSUME waiting = {}, pc = "idle", ~ fImporting, NEW b \in linked,
                      Anc[b] \cap Failed = {}
               PROVE  ~ Worse(chainTip, b)
    BY Zenon DEF BestChainActive, Quiescent
  <2>1. /\ OfferInv /\ CallInv /\ b \in Blocks /\ chainTip \in Blocks /\ NoBlock \notin Blocks
        /\ nSequenceId \in [Blocks -> Int] /\ address \in AddressOrders
    BY <1>1, BestFacts, TreeAssumed, Zenon DEF TreeAssumption, Undisturbed
  <2>2. NoneBetter(chainTip)
    BY <2>1, Zenon DEF CallInv, Aim
  <2>3. b \in setBlockIndexCandidates \/ Worse(b, chainTip)
    BY <2>1, Zenon DEF OfferInv, FreeTip, MainFree, Unmarked, Failed
  <2>4. Worse(b, chainTip) => ~ Worse(chainTip, b)
    BY <2>1, WorseOrder, Zenon DEF Worse
  <2> QED
    BY <2>2, <2>3, <2>4, Zenon DEF NoneBetter
<1> QED
  BY <1>1, BestInvariant, PTL

(* "We absolutely may not unlock cs_main until we've made forward           *)
(* progress": no critical section of ActivateBestChain ends on a worse tip  *)
(* than the one it found, also when blocks turn out invalid on the way.     *)
THEOREM ForwardProgress == Undisturbed => (Spec => NoRegress)
<1> SUFFICES ASSUME Undisturbed PROVE Spec => NoRegress
  BY Zenon
<1> DEFINE Regress == /\ pc \in {"find", "step"} /\ pc' \in {"idle", "unlocked", "exit"}
                      /\ restarts' = restarts
                      /\ Anc[starting_tip] \cap Failed' = {}
<1>1. ASSUME ChainInv, FateInv, TxIndexed, ModifiersSet, BestInv, Next, Regress PROVE ~ Worse(chainTip', starting_tip)
  <2>0. NoReconsider
    BY Zenon DEF Undisturbed
  <2>1. ~ MainFree /\ pc' # pc
    BY <1>1, Zenon DEF MainFree
  <2>2. ~ Network /\ ~ Operator /\ ~ Flush
    BY <2>1, Zenon DEF Network, ProcessNewBlockHeaders, RejectHeader, LoadExternalBlock, ProcessNewBlock,
      Operator, InvalidateBlock, ResetBlockFailureFlags, PreciousBlock, RpcReady, Flush
  <2>3. ~ Restart
    <3>1. restarts \in Nat /\ restarts' = restarts
      BY <1>1, Zenon DEF ChainInv, TypeInv, TypeOK
    <3> QED
      BY <3>1 DEF Restart
  <2>4. CASE Activation
    <3>1. ASSUME NEW mostWork, AfterStep(chainTip, mostWork), UNCHANGED chainTip
          PROVE  ~ Worse(chainTip', starting_tip)
      BY <1>1, <3>1, Zenon DEF AfterStep
    <3>2. ASSUME ABCBreak PROVE ~ Worse(chainTip', starting_tip)
      <4>1. chainTip' = chainTip
        BY <3>2, Zenon DEF ABCBreak, stateVars
      <4> QED
        BY <1>1, <2>0, <3>2, <4>1, BestBreak, Zenon
    <3>3. ASSUME ABCStepEnd PROVE ~ Worse(chainTip', starting_tip)
      BY <3>1, <3>3, Zenon DEF ABCStepEnd, stateVars
    <3>4. ASSUME NEW b \in Blocks, ConnectTipInvalid(b) \/ ConnectTipCorrupt(b)
          PROVE  ~ Worse(chainTip', starting_tip)
      BY <3>1, <3>4, Zenon DEF ConnectTipInvalid, ConnectTipCorrupt, stateVars
    <3>5. ASSUME NEW b \in Blocks PROVE ~ ConnectTipError(b)
      BY <1>1, <2>0, StakeFound, Zenon DEF ConnectTipError
    <3>6. /\ ~ ImportActivate /\ ~ ABCLock /\ ~ ABCStep /\ ~ ABCReturn
          /\ \A t \in Threads : ~ ABCEnter(t)
      BY <1>1, <2>1, Zenon DEF ImportActivate, ABCLock, ABCStep, ABCReturn, ABCEnter
    <3>7. /\ ~ FindMostWorkChainPrune /\ ~ DisconnectTip
          /\ \A b \in Blocks : ~ ConnectTip(b)
      BY <2>1, Zenon DEF FindMostWorkChainPrune, DisconnectTip, ConnectTip, abcVars
    <3> QED
      BY <2>4, <3>2, <3>3, <3>4, <3>5, <3>6, <3>7, Zenon DEF Activation
  <2> QED
    BY <1>1, <2>2, <2>3, <2>4, Zenon DEF Next
<1>2. ChainInv /\ FateInv /\ TxIndexed /\ ModifiersSet /\ BestInv /\ [Next]_vars
        => [Regress => ~ Worse(chainTip', starting_tip)]_vars
  BY <1>1, Zenon
<1> QED
  BY <1>2, BestInvariant, PTL DEF Spec, NoRegress
-----------------------------------------------------------------------------
(* Verdicts.  A thread may present a block to ProcessNewBlock; the block     *)
(* gets as far as CheckProofOfStake if the data of its parent is there. *)
MayPresent ==
  MainFree /\ ((~ fImporting /\ Idle("msghand")) \/ ("submitblock" \in Rpcs /\ Idle("rpc")))

(* The output that such a block stakes is in the transaction index. *)
KernelsIndexed ==
  MayPresent =>
    \A b \in Blocks \ {Genesis} : HaveTransactions(Parent[b]) => ~ KernelUnknown(b)

(* The stake modifier of its parent is set. *)
ModifiersKnown ==
  MayPresent =>
    \A b \in Blocks \ {Genesis} : HaveTransactions(Parent[b]) => ~ WrongModifier(b)

OnlyBadMarked == failedValid \cup disk.failedValid \subseteq BadContextual \cup BadScripts

(* A flush writes no other verdicts than those in memory.                   *)
LEMMA FlushVerdicts ==
  ASSUME OnlyBadMarked, NEW mode, NEW dirty, FlushStateToDisk(mode, dirty),
         failedValid' \subseteq BadContextual \cup BadScripts
  PROVE  OnlyBadMarked'
<1>1. CASE mode = "none"
  BY <1>1, Zenon DEF FlushStateToDisk, OnlyBadMarked
<1>2. CASE mode # "none"
  <2>1. disk'.failedValid = Merge(disk.failedValid, failedValid', dirty)
    BY <1>2, Zenon DEF FlushStateToDisk, Written
  <2> QED
    BY <2>1, Zenon DEF OnlyBadMarked, Merge
<1> QED
  BY <1>1, <1>2, Zenon

(* Without invalidateblock, only AcceptBlock and ConnectBlock pass verdicts, *)
(* and restarts find none that were not passed.                             *)
LEMMA VerdictStep ==
  ASSUME "invalidateblock" \notin Rpcs, ChainInv, ModifiersSet, OnlyBadMarked, KernelsIndexed,
         ModifiersKnown, [Next]_vars
  PROVE  OnlyBadMarked'
<1> USE DEF indexVars, stateVars, diskVars
<1>1. ASSUME failedValid' \subseteq failedValid, disk' = disk PROVE OnlyBadMarked'
  BY <1>1, Zenon DEF OnlyBadMarked
<1>2. CASE UNCHANGED vars
  BY <1>1, <1>2, Zenon DEF vars
<1>3. CASE Network
  <2>1. ASSUME NEW b \in Blocks \ {Genesis}, LoadExternalBlock(b) PROVE OnlyBadMarked'
    <3>1. /\ disk' = disk
          /\ \/ failedValid' = failedValid
             \/ failedValid' = failedValid \cup {b} /\ b \in BadContextual
      BY <2>1, Zenon DEF LoadExternalBlock, AcceptBlock, Rejected
    <3> QED
      BY <3>1, Zenon DEF OnlyBadMarked
  <2>2. ASSUME NEW b \in Blocks \ {Genesis}, NEW t, NEW fRequested, ProcessNewBlock(t, b, fRequested)
        PROVE  OnlyBadMarked'
    <3>1. /\ disk' = disk
          /\ \/ failedValid' = failedValid
             \/ /\ failedValid' = failedValid \cup {b} /\ HaveTransactions(Parent[b])
                /\ (b \in BadContextual \/ KernelUnknown(b) \/ WrongModifier(b))
      BY <2>2, Zenon DEF ProcessNewBlock, AcceptBlock, Rejected, PrevNotValid
    <3>2. MayPresent
      BY <2>2, Zenon DEF ProcessNewBlock, MayPresent
    <3> QED
      BY <3>1, <3>2, Zenon DEF OnlyBadMarked, KernelsIndexed, ModifiersKnown
  <2>3. ASSUME NEW b \in Blocks \ {Genesis}, ProcessNewBlockHeaders(b) \/ RejectHeader(b)
        PROVE  OnlyBadMarked'
    BY <1>1, <2>3, Zenon DEF ProcessNewBlockHeaders, RejectHeader
  <2> QED
    BY <1>3, <2>1, <2>2, <2>3, Zenon DEF Network
<1>4. CASE Activation
  <2>1. ASSUME NEW b \in Blocks, ConnectTipInvalid(b) PROVE OnlyBadMarked'
    BY <2>1, ModifierFound, Zenon DEF ConnectTipInvalid, OnlyBadMarked
  <2>2. ASSUME UNCHANGED failedValid, NEW mode, NEW dirty, FlushStateToDisk(mode, dirty)
        PROVE  OnlyBadMarked'
    BY <2>2, FlushVerdicts, Zenon DEF OnlyBadMarked
  <2>3. ASSUME NEW b \in Blocks, ConnectTip(b) PROVE OnlyBadMarked'
    BY <2>2, <2>3, Zenon DEF ConnectTip
  <2>4. ASSUME DisconnectTip \/ ABCReturn PROVE OnlyBadMarked'
    BY <2>2, <2>4, Zenon DEF DisconnectTip, ABCReturn
  <2>5. ASSUME FindMostWorkChainPrune \/ ABCBreak \/ ABCStep \/ ABCStepEnd PROVE OnlyBadMarked'
    BY <1>1, <2>5, Zenon DEF FindMostWorkChainPrune, ABCBreak, ABCStep, ABCStepEnd
  <2>6. ASSUME ImportActivate \/ ABCLock \/ (\E t \in Threads : ABCEnter(t)) PROVE OnlyBadMarked'
    BY <1>1, <2>6, Zenon DEF ImportActivate, ABCLock, ABCEnter
  <2>7. ASSUME NEW b \in Blocks, ConnectTipCorrupt(b) \/ ConnectTipError(b) PROVE OnlyBadMarked'
    BY <1>1, <2>7, Zenon DEF ConnectTipCorrupt, ConnectTipError
  <2> QED
    BY <1>4, <2>1, <2>3, <2>4, <2>5, <2>6, <2>7, Zenon DEF Activation
<1>5. CASE Operator
  <2>1. ASSUME NEW b \in Blocks, ResetBlockFailureFlags(b) \/ PreciousBlock(b) PROVE OnlyBadMarked'
    BY <1>1, <2>1, Zenon DEF ResetBlockFailureFlags, PreciousBlock
  <2> QED
    BY <1>5, <2>1, Zenon DEF Operator, InvalidateBlock, RpcReady
<1>6. CASE Flush
  BY <1>6, FlushVerdicts, Zenon DEF Flush, OnlyBadMarked
<1>7. CASE Restart
  <2>1. PICK how \in {"killed", "torn", "shutdown"} : Load(DiskAtExit(how))
    BY <1>7, Zenon DEF Restart
  <2>2. failedValid' = DiskAtExit(how).failedValid /\ disk'.failedValid = failedValid'
    BY <1>7, <2>1, Zenon DEF Load, Restart
  <2>3. DiskAtExit(how).failedValid \subseteq failedValid \cup disk.failedValid
    BY Zenon DEF DiskAtExit, Written, Merge
  <2> QED
    BY <2>2, <2>3, Zenon DEF OnlyBadMarked
<1> QED
  BY <1>2, <1>3, <1>4, <1>5, <1>6, <1>7, Zenon DEF Next

(* Only a block that violates a rule is ever marked BLOCK_FAILED_VALID, in  *)
(* whatever order blocks arrive, as long as every staked output that        *)
(* CheckProofOfStake looks for is indexed and the modifier it hashes with   *)
(* is set: a staked output on a branch that is not connected, and a parent  *)
(* that was imported and never connected, are the only ways in which a      *)
(* valid block is marked.                                                   *)
THEOREM VerdictsDeserved ==
  "invalidateblock" \notin Rpcs =>
    (Spec /\ []KernelsIndexed /\ []ModifiersKnown => []OnlyInvalidFail)
<1> SUFFICES ASSUME "invalidateblock" \notin Rpcs
             PROVE  Spec /\ []KernelsIndexed /\ []ModifiersKnown => []OnlyInvalidFail
  BY Zenon
<1>1. Init => OnlyBadMarked
  BY DEF Init, OnlyBadMarked
<1>2. ChainInv /\ ModifiersSet /\ OnlyBadMarked /\ KernelsIndexed /\ ModifiersKnown /\ [Next]_vars
        => OnlyBadMarked'
  BY VerdictStep, Zenon
<1>3. OnlyBadMarked => OnlyInvalidFail
  BY Zenon DEF OnlyBadMarked, OnlyInvalidFail
<1>4. InvalidateWaits
  BY Zenon DEF InvalidateWaits
<1> QED
  BY <1>1, <1>2, <1>3, <1>4, FateInvariant, ModifierStep, BestInit, PTL DEF Spec

(* The modifier of every stored block, in memory and on disk, is the one    *)
(* its chain gives. *)
AllModified == received \subseteq bnStakeModifier /\ disk.received \subseteq disk.modifier

(* A flush writes the modifier with the data.                               *)
LEMMA FlushAll ==
  ASSUME AllModified, NEW mode, NEW dirty, FlushStateToDisk(mode, dirty),
         received' \subseteq bnStakeModifier'
  PROVE  AllModified'
<1>1. CASE mode = "none"
  BY <1>1, Zenon DEF FlushStateToDisk, AllModified
<1>2. CASE mode # "none"
  <2>1. /\ disk'.received = Merge(disk.received, received', dirty)
        /\ disk'.modifier = Merge(disk.modifier, bnStakeModifier', dirty)
    BY <1>2, Zenon DEF FlushStateToDisk, Written
  <2> QED
    BY <2>1, Zenon DEF AllModified, Merge
<1> QED
  BY <1>1, <1>2, Zenon

(* ProcessNewBlock stores a block only after it has computed the modifier   *)
(* from that of a stored parent; only LoadExternalBlockFile does not.       *)
LEMMA AllModifiedStep ==
  ASSUME ImportFile = {}, ChainInv, ModifiersSet, AllModified, [Next]_vars PROVE AllModified'
<1> USE DEF indexVars, stateVars, diskVars
<1>1. ASSUME UNCHANGED <<received, disk>>, bnStakeModifier \subseteq bnStakeModifier' PROVE AllModified'
  BY <1>1, Zenon DEF AllModified
<1>2. ASSUME UNCHANGED received, bnStakeModifier \subseteq bnStakeModifier', NEW mode, NEW dirty,
             FlushStateToDisk(mode, dirty)
      PROVE  AllModified'
  BY <1>2, FlushAll, Zenon DEF AllModified
<1>3. CASE UNCHANGED vars
  BY <1>1, <1>3, Zenon DEF vars
<1>4. CASE Network
  <2>1. ASSUME NEW b \in Blocks \ {Genesis}, NEW t, NEW fRequested, ProcessNewBlock(t, b, fRequested)
        PROVE  AllModified'
    <3>1. CASE UNCHANGED <<received, bnStakeModifier>>
      BY <1>1, <2>1, <3>1, Zenon DEF ProcessNewBlock, AcceptBlock
    <3>2. CASE /\ HaveTransactions(Parent[b]) /\ received' = received \cup {b}
               /\ ComputeStakeModifier(b)
      <4>1. Parent[b] \in received
        BY <3>2, Zenon DEF HaveTransactions
      <4> QED
        BY <2>1, <3>2, <4>1, Zenon DEF ProcessNewBlock, AcceptBlock, ComputeStakeModifier, AllModified
    <3> QED
      BY <2>1, <3>1, <3>2, Zenon DEF ProcessNewBlock, AcceptBlock, PrevNotValid, ReceivedBlockTransactions
  <2>2. ASSUME NEW b, ProcessNewBlockHeaders(b) \/ RejectHeader(b) PROVE AllModified'
    BY <1>1, <2>2, Zenon DEF ProcessNewBlockHeaders, RejectHeader
  <2> QED
    BY <1>4, <2>1, <2>2, Zenon DEF Network, LoadExternalBlock
<1>5. CASE Activation
  <2>0. ASSUME NEW b \in Blocks, NextToConnect(b), ComputeStakeModifier(b)
        PROVE  bnStakeModifier \subseteq bnStakeModifier'
    BY <2>0, ModifierFound, Zenon DEF ComputeStakeModifier
  <2>1. ASSUME NEW b \in Blocks, ConnectTip(b) PROVE AllModified'
    <3>1. NextToConnect(b) /\ ComputeStakeModifier(b) /\ UNCHANGED received
      BY <2>1, Zenon DEF ConnectTip
    <3> QED
      BY <1>2, <2>0, <2>1, <3>1, Zenon DEF ConnectTip
  <2>2. ASSUME DisconnectTip \/ ABCReturn PROVE AllModified'
    BY <1>2, <2>2, Zenon DEF DisconnectTip, ABCReturn
  <2>3. ASSUME FindMostWorkChainPrune \/ ABCBreak \/ ABCStep \/ ABCStepEnd PROVE AllModified'
    BY <1>1, <2>3, Zenon DEF FindMostWorkChainPrune, ABCBreak, ABCStep, ABCStepEnd
  <2>4. ASSUME ImportActivate \/ ABCLock \/ (\E t \in Threads : ABCEnter(t)) PROVE AllModified'
    BY <1>1, <2>4, Zenon DEF ImportActivate, ABCLock, ABCEnter
  <2>5. ASSUME NEW b \in Blocks, ConnectTipInvalid(b) \/ ConnectTipCorrupt(b) \/ ConnectTipError(b)
        PROVE  AllModified'
    <3>1. UNCHANGED <<received, disk>>
      BY <2>5, Zenon DEF ConnectTipInvalid, ConnectTipCorrupt, ConnectTipError
    <3>2. bnStakeModifier \subseteq bnStakeModifier'
      BY <2>0, <2>5, Zenon DEF ConnectTipInvalid, ConnectTipCorrupt, ConnectTipError
    <3> QED
      BY <1>1, <3>1, <3>2, Zenon
  <2> QED
    BY <1>5, <2>1, <2>2, <2>3, <2>4, <2>5, Zenon DEF Activation
<1>6. CASE Operator
  <2>1. ASSUME NEW b \in Blocks, InvalidateBlock(b) PROVE AllModified'
    <3>1. UNCHANGED <<received, bnStakeModifier>>
      BY <2>1, Zenon DEF InvalidateBlock
    <3>2. CASE \E x : disk' = Written(setDirtyBlockIndex, mapBlockIndex, received, scriptsValid,
                                      failedValid, failedChild, bnStakeModifier, Parent[x])
      <4>1. /\ disk'.received = Merge(disk.received, received, setDirtyBlockIndex)
            /\ disk'.modifier = Merge(disk.modifier, bnStakeModifier, setDirtyBlockIndex)
        BY <3>2 DEF Written
      <4> QED
        BY <3>1, <4>1, Zenon DEF AllModified, Merge
    <3> QED
      BY <1>1, <2>1, <3>1, <3>2, Zenon DEF InvalidateBlock, MidwayFlush
  <2>2. ASSUME NEW b \in Blocks, ResetBlockFailureFlags(b) \/ PreciousBlock(b) PROVE AllModified'
    BY <1>1, <2>2, Zenon DEF ResetBlockFailureFlags, PreciousBlock
  <2> QED
    BY <1>6, <2>1, <2>2, Zenon DEF Operator
<1>7. CASE Flush
  BY <1>2, <1>7, Zenon DEF Flush
<1>8. CASE Restart
  <2>1. PICK how \in {"killed", "torn", "shutdown"} : Load(DiskAtExit(how))
    BY <1>8, Zenon DEF Restart
  <2>2. /\ received' = DiskAtExit(how).received /\ bnStakeModifier' = DiskAtExit(how).modifier
        /\ disk'.received = received' /\ disk'.modifier = bnStakeModifier'
    BY <1>8, <2>1, Zenon DEF Load, Restart
  <2>3. DiskAtExit(how).received \subseteq DiskAtExit(how).modifier
    BY Zenon DEF DiskAtExit, Written, Merge, AllModified
  <2> QED
    BY <2>2, <2>3, Zenon DEF AllModified
<1> QED
  BY <1>3, <1>4, <1>5, <1>6, <1>7, <1>8, Zenon DEF Next

(* A node that imports no blocks never hashes a kernel with a modifier that *)
(* is not set, across all arrivals, commands, crashes and restarts: there   *)
(* only a staked output that is not indexed gets a valid block marked.      *)
THEOREM VerdictsWithoutImport ==
  "invalidateblock" \notin Rpcs /\ ImportFile = {} =>
    (Spec /\ []KernelsIndexed => []OnlyInvalidFail)
<1> SUFFICES ASSUME "invalidateblock" \notin Rpcs, ImportFile = {}
             PROVE  Spec /\ []KernelsIndexed => []OnlyInvalidFail
  BY Zenon
<1>1. Init => AllModified
  BY DEF Init, AllModified
<1>2. ChainInv /\ ModifiersSet /\ AllModified /\ [Next]_vars => AllModified'
  BY AllModifiedStep, Zenon
<1>3. AllModified => ModifiersKnown
  BY Zenon DEF AllModified, ModifiersKnown, WrongModifier, HaveTransactions
<1>4. InvalidateWaits
  BY Zenon DEF InvalidateWaits
<1>5. Spec => []ModifiersKnown
  BY <1>1, <1>2, <1>3, <1>4, FateInvariant, ModifierStep, BestInit, PTL DEF Spec
<1>6. Spec /\ []KernelsIndexed /\ []ModifiersKnown => []OnlyInvalidFail
  BY VerdictsDeserved, Zenon
<1> QED
  BY <1>5, <1>6, PTL
=============================================================================
