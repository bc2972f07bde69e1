-------------------------- MODULE ChainStateProofs --------------------------
(***************************************************************************)
(* The tree of blocks, the inductive invariants of ChainState, what each   *)
(* of its actions does to them, and the safety theorems, for every block   *)
(* tree and every environment.                                             *)
(***************************************************************************)
EXTENDS ChainState, TLAPS
-----------------------------------------------------------------------------
(* The tree of blocks. *)

(* A block is among its own ancestors (CBlockIndex::GetAncestor of its own  *)
(* height).                                                                 *)
LEMMA AncReflexive == \A b \in Blocks : b \in Anc[b] /\ Genesis \in Anc[b]
  BY TreeAssumed, Zenon DEF TreeAssumption

(* Ancestors of an ancestor are ancestors.                                  *)
LEMMA AncTransitive ==
  \A b \in Blocks : Anc[b] \subseteq Blocks /\ \A a \in Anc[b] : a \in Blocks /\ Anc[a] \subseteq Anc[b]
  BY TreeAssumed, Zenon DEF TreeAssumption

(* A block other than the genesis block adds itself to its parent's         *)
(* ancestors.                                                               *)
LEMMA AncParent ==
  \A b \in Blocks \ {Genesis} :
    /\ Parent[b] \in Blocks
    /\ Anc[b] = {b} \cup Anc[Parent[b]]
    /\ b \notin Anc[Parent[b]]
    /\ Parent[b] \in Anc[b]
<1> TAKE b \in Blocks \ {Genesis}
<1>1. Parent[b] \in Blocks
  BY TreeAssumed, Zenon DEF TreeAssumption
<1> QED
  BY <1>1, AncReflexive, TreeAssumed DEF TreeAssumption

(* What lies between a block and one of its ancestors descends from that    *)
(* ancestor.                                                                *)
LEMMA AncBetween ==
  \A b \in Blocks : \A a \in Anc[b] : \A x \in Anc[b] \ Anc[a] : a \in Anc[x]
  BY TreeAssumed, Zenon DEF TreeAssumption

(* An ancestor of a block, other than itself, is an ancestor of its parent. *)
LEMMA AncProper ==
  \A b \in Blocks \ {Genesis} : \A a \in Anc[b] : a # b => a \in Anc[Parent[b]]
  BY AncParent
-----------------------------------------------------------------------------
(* Types. *)

(* The program counter of ActivateBestChain agrees with its locals. *)
PcInv ==
  /\ pc = "step" => pindexMostWork # NoBlock
  /\ pc \in {"unlocked", "find", "step", "exit"} => holder # "none"
  /\ holder = "none" => pindexMostWork = NoBlock

TypeInv == TypeOK /\ PcInv

-----------------------------------------------------------------------------
(* The active chain and the databases.  The inductive invariant: *)

(* what the index knows is closed under ancestors, and only linked blocks   *)
(* are candidates or targets; *)
IndexInv ==
  /\ received \subseteq mapBlockIndex
  /\ \A b \in mapBlockIndex : Anc[b] \subseteq mapBlockIndex
  /\ LinkedHaveData
  /\ mapBlocksUnlinked \subseteq received
  /\ setBlockIndexCandidates \subseteq linked
  /\ pindexMostWork # NoBlock => pindexMostWork \in linked
  /\ ScriptsValidClosed

(* failures never reach the target of an activation, and a failed block of  *)
(* the active chain (possible only after a restart) has failed descendants; *)
FailInv ==
  /\ FailedBlocksMarked
  /\ g_failed_blocks \cap Active = {}
  /\ \A x \in Failed \cap Active : \A d \in mapBlockIndex : x \in Anc[d] => d \in Failed
  /\ setBlockIndexCandidates \cap Active \cap Failed = {}
  /\ pindexMostWork # NoBlock => Anc[pindexMostWork] \cap Failed = {}

(* the databases lag behind memory by no more than the dirty entries. *)
DiskInv ==
  /\ DiskChainConnected
  /\ disk.received \subseteq disk.map
  /\ \A b \in disk.scriptsValid : Anc[b] \ {Genesis} \subseteq disk.scriptsValid
  /\ disk.map \subseteq mapBlockIndex /\ mapBlockIndex \ disk.map \subseteq setDirtyBlockIndex
  /\ disk.received \subseteq received /\ received \ disk.received \subseteq setDirtyBlockIndex
  /\ disk.scriptsValid \subseteq scriptsValid
  /\ scriptsValid \ disk.scriptsValid \subseteq setDirtyBlockIndex

ChainInv == TypeInv /\ IndexInv /\ FailInv /\ ActiveChainConnected /\ DiskInv

(* invalidateblock does not come while a chain is being activated. *)
InvalidateWaits == "invalidateblock" \in Rpcs => RpcAnyTime = FALSE

(* The parts of the invariant, and the types its proof needs.               *)
LEMMA ChainFacts ==
  ASSUME ChainInv
  PROVE  /\ TypeInv /\ IndexInv /\ FailInv /\ ActiveChainConnected /\ DiskInv
         /\ chainTip \in Blocks /\ pindexMostWork \in Blocks \cup {NoBlock}
         /\ mapBlockIndex \subseteq Blocks /\ setDirtyBlockIndex \subseteq Blocks
         /\ setBlockIndexCandidates \subseteq Blocks /\ disk \in DiskType
  BY Zenon DEF ChainInv, TypeInv, TypeOK

(* A batch of the dirty entries brings a lagging database up to date.       *)
LEMMA MergeExact ==
  ASSUME NEW old, NEW new, NEW dirty, old \subseteq new, new \ old \subseteq dirty
  PROVE  Merge(old, new, dirty) = new
  BY Zenon DEF Merge

(* The databases stay consistent across FlushStateToDisk, because it writes *)
(* the block index before the coins.                                        *)
LEMMA FlushStep ==
  ASSUME TypeInv, DiskInv, NEW dirty \in SUBSET Blocks, NEW mode \in Modes,
         FlushStateToDisk(mode, dirty), chainTip' \in Blocks,
         disk.map \subseteq mapBlockIndex', mapBlockIndex' \ disk.map \subseteq dirty,
         disk.received \subseteq received', received' \ disk.received \subseteq dirty,
         disk.scriptsValid \subseteq scriptsValid', scriptsValid' \ disk.scriptsValid \subseteq dirty,
         received' \subseteq mapBlockIndex',
         \A b \in mapBlockIndex' : Anc[b] \subseteq mapBlockIndex',
         ScriptsValidClosed', ActiveChainConnected'
  PROVE  DiskInv'
<1>1. CASE mode = "none"
  BY <1>1, Zenon DEF FlushStateToDisk, DiskInv, DiskChainConnected
<1>2. CASE mode # "none"
  <2>1. disk' = Written(dirty, mapBlockIndex', received', scriptsValid', failedValid',
                        failedChild', bnStakeModifier',
                        IF mode = "full" THEN chainTip' ELSE disk.tip)
    BY <1>2, Zenon DEF FlushStateToDisk
  <2>2. /\ disk'.map = mapBlockIndex' /\ disk'.received = received'
        /\ disk'.scriptsValid = scriptsValid'
    BY <2>1, MergeExact, Zenon DEF Written
  <2>3. disk'.tip = chainTip' \/ disk'.tip = disk.tip
    BY <2>1, Zenon DEF Written
  <2>4. /\ Anc[disk'.tip] \subseteq mapBlockIndex' \cap received'
        /\ Anc[disk'.tip] \ {Genesis} \subseteq scriptsValid'
    <3>1. CASE disk'.tip = chainTip'
      BY <3>1, Zenon DEF ActiveChainConnected, Active
    <3>2. CASE disk'.tip = disk.tip
      BY <3>2, Zenon DEF DiskInv, DiskChainConnected
    <3> QED
      BY <2>3, <3>1, <3>2, Zenon
  <2> QED
    BY <2>2, <2>4, Zenon DEF DiskInv, DiskChainConnected, ScriptsValidClosed
<1> QED
  BY <1>1, <1>2, Zenon

(* What FindMostWorkChain returns is linked and free of failures.           *)
LEMMA FoundOk ==
  ASSUME ChainInv, NEW m \in Blocks, FoundMostWork(m)
  PROVE  m \in linked /\ Anc[m] \cap Failed = {}
<1> USE TreeAssumed DEF TreeAssumption, ChainInv, TypeInv, TypeOK
<1>1. CASE m = pindexMostWork
  BY <1>1, ZenonT(40) DEF IndexInv, FailInv
<1>2. CASE IsBestCandidate(m) /\ Unusable(m) = {}
  <2>1. m \in linked
    BY <1>2, Zenon DEF IsBestCandidate, IndexInv
  <2>2. ASSUME NEW x \in Anc[m], x \in Failed PROVE FALSE
    <3>1. x \in Active
      BY <1>2, <2>2, Zenon DEF Unusable, PathToActive
    <3>2. m \in Failed
      <4>1. m \in mapBlockIndex
        BY <2>1, AncReflexive, Zenon DEF IndexInv, LinkedHaveData
      <4> QED
        BY <3>1, <2>2, <4>1, Zenon DEF FailInv
    <3>3. m \in Active
      BY <1>2, <3>2, AncReflexive, Zenon DEF Unusable, PathToActive
    <3> QED
      BY <1>2, <3>2, <3>3, Zenon DEF IsBestCandidate, FailInv
  <2> QED
    BY <2>1, <2>2
<1> QED
  BY <1>1, <1>2, Zenon DEF FoundMostWork

(* A step that changes neither the index, the tip nor the databases, and    *)
(* keeps or forgets the target or picks a usable one.                       *)
LEMMA Frame ==
  ASSUME ChainInv, TypeInv',
         UNCHANGED <<mapBlockIndex, received, scriptsValid, failedValid, failedChild, linked,
                     chainTip, setBlockIndexCandidates, mapBlocksUnlinked, g_failed_blocks,
                     setDirtyBlockIndex, disk>>,
         pindexMostWork' # NoBlock =>
           pindexMostWork' \in linked /\ Anc[pindexMostWork'] \cap Failed = {}
  PROVE  ChainInv'
<1>1. IndexInv'
  BY Zenon DEF ChainInv, IndexInv, LinkedHaveData, ScriptsValidClosed
<1>2. FailInv'
  BY Zenon DEF ChainInv, FailInv, FailedBlocksMarked, Active, Failed
<1>3. ActiveChainConnected' /\ DiskInv'
  BY Zenon DEF ChainInv, ActiveChainConnected, Active, DiskInv, DiskChainConnected
<1> QED
  BY <1>1, <1>2, <1>3, Zenon DEF ChainInv

-----------------------------------------------------------------------------
(* AcceptBlock adds an entry on an unfailed parent; it marks only a block   *)
(* that was never received, hence neither active nor on the way to a        *)
(* target.                                                                  *)
LEMMA AcceptBlockStep ==
  ASSUME ChainInv, TypeInv', NEW b \in Blocks \ {Genesis}, NEW fRequested, NEW fCheckPoS,
         AcceptBlock(b, fRequested, fCheckPoS), UNCHANGED localVars
  PROVE  ChainInv'
<1> USE ChainFacts DEF localVars
<1>1. /\ UNCHANGED <<scriptsValid, failedChild, chainTip, g_failed_blocks, disk, pindexMostWork>>
      /\ mapBlockIndex' = mapBlockIndex \cup {b}
  BY Zenon DEF AcceptBlock, AddToBlockIndex
<1>2. Anc[b] \subseteq mapBlockIndex \cup {b}
  <2>1. b \in mapBlockIndex \/ Parent[b] \in mapBlockIndex
    BY Zenon DEF AcceptBlock, HeaderOk
  <2> QED
    BY <2>1, AncParent DEF IndexInv
<1>3. b \notin mapBlockIndex => Parent[b] \in mapBlockIndex \ Failed
  BY Zenon DEF AcceptBlock, HeaderOk
<1>4. /\ setDirtyBlockIndex \subseteq DirtyWithHeader(b)
      /\ b \notin mapBlockIndex => b \in DirtyWithHeader(b)
  BY Zenon DEF DirtyWithHeader
<1>5. \/ /\ setDirtyBlockIndex' = DirtyWithHeader(b)
         /\ UNCHANGED <<received, failedValid, linked, setBlockIndexCandidates, mapBlocksUnlinked>>
      \/ /\ setDirtyBlockIndex' = DirtyWithHeader(b) \cup {b}
         /\ b \notin received /\ failedValid' = failedValid \cup {b}
         /\ UNCHANGED <<received, linked, setBlockIndexCandidates, mapBlocksUnlinked>>
      \/ /\ setDirtyBlockIndex' = DirtyWithHeader(b) \cup {b}
         /\ b \notin received /\ UNCHANGED failedValid
         /\ ReceivedBlockTransactions(b)
  BY Zenon DEF AcceptBlock, NotWanted
<1>6. received \subseteq received' /\ received' \subseteq received \cup {b}
  BY <1>5, Zenon DEF ReceivedBlockTransactions
<1>7. /\ setDirtyBlockIndex \subseteq setDirtyBlockIndex'
      /\ mapBlockIndex' \ mapBlockIndex \subseteq setDirtyBlockIndex'
      /\ received' \ received \subseteq setDirtyBlockIndex'
  BY <1>1, <1>4, <1>5, <1>6, Zenon
<1>8. ActiveChainConnected' /\ DiskInv'
  BY <1>1, <1>6, <1>7, Zenon
  DEF ActiveChainConnected, Active, DiskInv, DiskChainConnected
<1>9. b \notin received => b \notin Active
  BY Zenon DEF ActiveChainConnected
<1>10. failedValid \subseteq failedValid' /\ \A x \in failedValid' \ failedValid : x = b /\ b \notin received
  BY <1>5, Zenon
<1>11. \A x \in Failed' \cap Active' : \A d \in mapBlockIndex' : x \in Anc[d] => d \in Failed'
  <2> SUFFICES ASSUME NEW x \in Failed' \cap Active', NEW d \in mapBlockIndex', x \in Anc[d]
               PROVE  d \in Failed'
    BY Zenon
  <2>1. x \in Failed \cap Active
    BY <1>1, <1>9, <1>10, Zenon DEF Failed, Active
  <2>2. CASE d \in mapBlockIndex
    BY <1>1, <1>10, <2>1, <2>2, Zenon DEF FailInv, Failed
  <2>3. CASE d \notin mapBlockIndex
    <3>1. d = b /\ x # b
      BY <1>1, <2>1, <2>3, Zenon DEF ActiveChainConnected
    <3>2. x \in Anc[Parent[b]]
      BY <3>1, AncProper, Zenon
    <3> QED
      BY <1>3, <2>1, <2>3, <3>1, <3>2, Zenon DEF FailInv
  <2> QED
    BY <2>2, <2>3, Zenon
<1>12. ASSUME pindexMostWork # NoBlock PROVE Anc[pindexMostWork] \cap Failed' = {}
  <2>1. Anc[pindexMostWork] \subseteq received
    BY <1>12, Zenon DEF IndexInv, LinkedHaveData
  <2> QED
    BY <1>1, <1>10, <1>12, <2>1, Zenon DEF FailInv, Failed
<1>13. FailedBlocksMarked' /\ g_failed_blocks' \cap Active' = {}
  BY <1>1, <1>10, Zenon DEF FailInv, FailedBlocksMarked, Active
<1>14. CASE UNCHANGED <<received, linked, setBlockIndexCandidates, mapBlocksUnlinked>>
  <2>1. IndexInv'
    BY <1>1, <1>2, <1>14, Zenon DEF IndexInv, LinkedHaveData, ScriptsValidClosed
  <2>2. (setBlockIndexCandidates \cap Active \cap Failed)' = {}
    BY <1>1, <1>9, <1>10, <1>14 DEF FailInv, Failed, Active
  <2>3. FailInv'
    BY <1>1, <1>11, <1>12, <1>13, <2>2, Zenon DEF FailInv
  <2> QED
    BY <1>8, <2>1, <2>3, Zenon DEF ChainInv
<1>15. CASE b \notin received /\ failedValid' = failedValid /\ ReceivedBlockTransactions(b)
  <2>1. CASE Parent[b] \in linked
    <3>1. /\ linked' = linked \cup NewlyLinked(b)
          /\ setBlockIndexCandidates' \subseteq setBlockIndexCandidates \cup NewlyLinked(b)
          /\ mapBlocksUnlinked' \subseteq mapBlocksUnlinked
          /\ received' = received \cup {b}
      BY <1>15, <2>1, Zenon DEF ReceivedBlockTransactions
    <3>2. ASSUME NEW x \in NewlyLinked(b) PROVE Anc[x] \subseteq received \cup {b}
      <4>1. Anc[b] \subseteq received \cup {b}
        <5>1. Anc[Parent[b]] \subseteq received
          BY <2>1, Zenon DEF IndexInv, LinkedHaveData
        <5> QED
          BY <5>1, AncParent
      <4> QED
        BY <3>2, <4>1, Zenon DEF NewlyLinked, IndexInv
    <3>3. IndexInv'
      BY <1>1, <1>2, <3>1, <3>2, Zenon DEF IndexInv, LinkedHaveData, ScriptsValidClosed
    <3>4. \A x \in NewlyLinked(b) : x \notin Active
      <4>1. \A x \in NewlyLinked(b) : b \in Anc[x]
        BY AncReflexive, Zenon DEF NewlyLinked
      <4> QED
        BY <1>9, <1>15, <4>1, AncTransitive, Zenon DEF Active
    <3>5. (setBlockIndexCandidates \cap Active \cap Failed)' = {}
      BY <1>1, <1>15, <3>1, <3>4, Zenon DEF FailInv, Failed, Active
    <3>6. FailInv'
      BY <1>1, <1>11, <1>12, <1>13, <3>5, Zenon DEF FailInv
    <3> QED
      BY <1>8, <3>3, <3>6, Zenon DEF ChainInv
  <2>2. CASE Parent[b] \notin linked
    <3>1. /\ UNCHANGED <<linked, setBlockIndexCandidates>>
          /\ mapBlocksUnlinked' \subseteq mapBlocksUnlinked \cup {b}
          /\ received' = received \cup {b}
      BY <1>15, <2>2, Zenon DEF ReceivedBlockTransactions
    <3>2. IndexInv'
      BY <1>1, <1>2, <3>1, Zenon DEF IndexInv, LinkedHaveData, ScriptsValidClosed
    <3>3. (setBlockIndexCandidates \cap Active \cap Failed)' = {}
      BY <1>1, <1>15, <3>1, Zenon DEF FailInv, Failed, Active
    <3>4. FailInv'
      BY <1>1, <1>11, <1>12, <1>13, <3>3, Zenon DEF FailInv
    <3> QED
      BY <1>8, <3>2, <3>4, Zenon DEF ChainInv
  <2> QED
    BY <2>1, <2>2, Zenon
<1> QED
  BY <1>5, <1>14, <1>15, Zenon DEF ChainInv

(* A new header on an unfailed parent.                                      *)
LEMMA HeaderStep ==
  ASSUME ChainInv, TypeInv', NEW b \in Blocks \ {Genesis}, ProcessNewBlockHeaders(b)
  PROVE  ChainInv'
<1> USE ChainFacts DEF abcVars, localVars
<1>1. /\ UNCHANGED <<received, scriptsValid, failedValid, failedChild, linked, chainTip,
                     setBlockIndexCandidates, mapBlocksUnlinked, g_failed_blocks, disk,
                     pindexMostWork>>
      /\ mapBlockIndex' = mapBlockIndex \cup {b}
      /\ setDirtyBlockIndex' = setDirtyBlockIndex \cup {b}
      /\ b \notin mapBlockIndex
  BY Zenon DEF ProcessNewBlockHeaders, AddToBlockIndex, DirtyWithHeader
<1>2. Parent[b] \in mapBlockIndex \ Failed
  BY Zenon DEF ProcessNewBlockHeaders, HeaderOk
<1>3. IndexInv'
  <2>1. Anc[b] \subseteq mapBlockIndex'
    BY <1>1, <1>2, AncParent DEF IndexInv
  <2>2. \A x \in mapBlockIndex' : Anc[x] \subseteq mapBlockIndex'
    BY <1>1, <2>1, Zenon DEF IndexInv
  <2>3. LinkedHaveData' /\ ScriptsValidClosed'
    BY <1>1, Zenon DEF IndexInv, LinkedHaveData, ScriptsValidClosed
  <2> QED
    BY <1>1, <2>2, <2>3, Zenon DEF IndexInv
<1>4. ActiveChainConnected' /\ DiskInv'
  BY <1>1, Zenon DEF ActiveChainConnected, Active, DiskInv, DiskChainConnected
<1>5. ASSUME NEW x \in Failed \cap Active, x \in Anc[b] PROVE FALSE
  <2>1. x \in Anc[Parent[b]]
    BY <1>1, <1>5, AncProper, Zenon DEF ActiveChainConnected
  <2> QED
    BY <1>2, <1>5, <2>1, Zenon DEF FailInv
<1>6. FailInv'
  BY <1>1, <1>5, Zenon DEF FailInv, FailedBlocksMarked, Failed, Active
<1> QED
  BY <1>3, <1>4, <1>6, Zenon DEF ChainInv

(* Marking descendants of a member of g_failed_blocks touches neither the   *)
(* active chain nor the way to a target.                                    *)
LEMMA RejectHeaderStep ==
  ASSUME ChainInv, TypeInv', NEW b \in Blocks \ {Genesis}, RejectHeader(b)
  PROVE  ChainInv'
<1> USE ChainFacts DEF stateVars, abcVars, localVars
<1>1. PICK failedit \in g_failed_blocks \cap Anc[Parent[b]] :
        /\ failedChild' = failedChild \cup (Anc[Parent[b]] \ Anc[failedit])
        /\ setDirtyBlockIndex' = setDirtyBlockIndex \cup (Anc[Parent[b]] \ Anc[failedit])
  BY Zenon DEF RejectHeader
<1>2. UNCHANGED <<mapBlockIndex, received, scriptsValid, failedValid, linked, chainTip,
                  setBlockIndexCandidates, mapBlocksUnlinked, g_failed_blocks, disk,
                  pindexMostWork>>
  BY Zenon DEF RejectHeader
<1> DEFINE walk == Anc[Parent[b]] \ Anc[failedit]
<1>3. \A x \in walk : x \in Blocks /\ failedit \in Anc[x]
  BY AncParent, AncBetween, AncTransitive, Zenon
<1>4. walk \cap Active = {}
  BY <1>3, AncTransitive, Zenon DEF Active, FailInv
<1>5. ASSUME pindexMostWork # NoBlock PROVE walk \cap Anc[pindexMostWork] = {}
  <2>1. failedit \in Failed
    BY Zenon DEF FailInv, FailedBlocksMarked, Failed
  <2> QED
    BY <1>3, <1>5, <2>1, AncTransitive, Zenon DEF FailInv
<1> HIDE DEF walk
<1>6. failedChild' = failedChild \cup walk /\ setDirtyBlockIndex \subseteq setDirtyBlockIndex'
  BY <1>1, Zenon DEF walk
<1>7. IndexInv'
  BY <1>2, Zenon DEF IndexInv, LinkedHaveData, ScriptsValidClosed
<1>8. ActiveChainConnected' /\ DiskInv'
  BY <1>2, <1>6, Zenon DEF ActiveChainConnected, Active, DiskInv, DiskChainConnected
<1>9. FailInv'
  BY <1>2, <1>4, <1>5, <1>6, Zenon DEF FailInv, FailedBlocksMarked, Failed, Active
<1> QED
  BY <1>7, <1>8, <1>9, Zenon DEF ChainInv

(* FindMostWorkChain marks or sets aside blocks off the active chain, while *)
(* there is no target.                                                      *)
LEMMA PruneStep ==
  ASSUME ChainInv, TypeInv', FindMostWorkChainPrune
  PROVE  ChainInv'
<1> USE ChainFacts DEF diskVars, abcVars, localVars
<1>a. PICK pindexNew \in setBlockIndexCandidates : \E pindexTest \in Unusable(pindexNew) :
        LET above == Anc[pindexNew] \ Anc[pindexTest]
        IN /\ setBlockIndexCandidates' = setBlockIndexCandidates \ (above \cup {pindexTest})
           /\ \/ failedChild' = failedChild \cup above /\ UNCHANGED mapBlocksUnlinked
              \/ mapBlocksUnlinked' = mapBlocksUnlinked \cup above /\ UNCHANGED failedChild
  BY Zenon DEF FindMostWorkChainPrune
<1>1. PICK pindexTest \in Unusable(pindexNew) :
        /\ setBlockIndexCandidates' \subseteq setBlockIndexCandidates
        /\ failedChild' \in {failedChild, failedChild \cup (Anc[pindexNew] \ Anc[pindexTest])}
        /\ mapBlocksUnlinked' \in {mapBlocksUnlinked,
                                    mapBlocksUnlinked \cup (Anc[pindexNew] \ Anc[pindexTest])}
  BY <1>a, Zenon
<1> DEFINE above == Anc[pindexNew] \ Anc[pindexTest]
<1>2. /\ UNCHANGED <<mapBlockIndex, received, scriptsValid, failedValid, linked, chainTip,
                     g_failed_blocks, setDirtyBlockIndex, disk, pindexMostWork>>
      /\ pindexMostWork = NoBlock
  BY Zenon DEF FindMostWorkChainPrune
<1>3. pindexTest \in Anc[pindexNew] /\ pindexTest \notin Active
  BY Zenon DEF Unusable, PathToActive
<1>4. above \cap Active = {}
  BY <1>3, AncBetween, AncTransitive, Zenon DEF Active
<1>5. above \subseteq received
  BY Zenon DEF IndexInv, LinkedHaveData
<1> HIDE DEF above
<1>6. /\ failedChild \subseteq failedChild' /\ failedChild' \subseteq failedChild \cup above
      /\ mapBlocksUnlinked' \subseteq mapBlocksUnlinked \cup above
  BY <1>1, Zenon DEF above
<1>7. IndexInv'
  BY <1>1, <1>2, <1>5, <1>6, Zenon DEF IndexInv, LinkedHaveData, ScriptsValidClosed
<1>8. ActiveChainConnected' /\ DiskInv'
  BY <1>2, Zenon DEF ActiveChainConnected, Active, DiskInv, DiskChainConnected
<1>9. FailInv'
  BY <1>1, <1>2, <1>4, <1>6, Zenon DEF FailInv, FailedBlocksMarked, Failed, Active
<1> QED
  BY <1>7, <1>8, <1>9, Zenon DEF ChainInv

(* A disconnected tip leaves a shorter active chain.                        *)
LEMMA DisconnectStep ==
  ASSUME ChainInv, TypeInv', DisconnectTip
  PROVE  ChainInv'
<1> USE ChainFacts DEF indexVars, abcVars, localVars
<1>1. UNCHANGED <<mapBlockIndex, received, scriptsValid, failedValid, failedChild, linked,
                  setBlockIndexCandidates, mapBlocksUnlinked, g_failed_blocks, pindexMostWork>>
  BY Zenon DEF DisconnectTip
<1>2. chainTip # Genesis /\ chainTip' = Parent[chainTip]
  BY AncReflexive, Zenon DEF DisconnectTip, AboveFork, PcInv, TypeInv
<1>3. chainTip' \in Blocks /\ Active' \subseteq Active
  BY <1>2, AncParent DEF Active
<1>4. IndexInv'
  BY <1>1, Zenon DEF IndexInv, LinkedHaveData, ScriptsValidClosed
<1>5. ActiveChainConnected'
  BY <1>1, <1>3, Zenon DEF ActiveChainConnected
<1>6. FailInv'
  BY <1>1, <1>3, Zenon DEF FailInv, FailedBlocksMarked, Failed
<1>7. PICK mode \in Modes : FlushStateToDisk(mode, setDirtyBlockIndex)
  BY EnvironmentAssumed, Zenon DEF DisconnectTip, IfNeeded
<1>8. DiskInv'
  BY <1>1, <1>3, <1>4, <1>5, <1>7, FlushStep, Zenon DEF IndexInv, DiskInv
<1> QED
  BY <1>4, <1>5, <1>6, <1>8, Zenon DEF ChainInv

(* The next block towards the target is received and unfailed, so ConnectTip *)
(* raises it to BLOCK_VALID_SCRIPTS on top of a chain that already is.      *)
LEMMA ConnectStep ==
  ASSUME ChainInv, TypeInv', NEW b \in Blocks, ConnectTip(b)
  PROVE  ChainInv'
<1> USE ChainFacts DEF abcVars, localVars
<1>1. /\ UNCHANGED <<mapBlockIndex, received, failedValid, failedChild, linked,
                     setBlockIndexCandidates, mapBlocksUnlinked, g_failed_blocks, pindexMostWork>>
      /\ chainTip' = b
  BY Zenon DEF ConnectTip
<1>2. pindexMostWork \in Blocks /\ b \in Anc[pindexMostWork] /\ Parent[b] = chainTip
  BY Zenon DEF ConnectTip, NextToConnect, Connecting, PcInv, TypeInv
<1>3. b # Genesis
  BY <1>2, TreeAssumed, Zenon DEF TreeAssumption
<1>4. b \in received /\ b \in mapBlockIndex /\ b \notin Failed
  BY <1>2, TreeAssumed, Zenon DEF IndexInv, LinkedHaveData, FailInv, TreeAssumption
<1>5. scriptsValid' = scriptsValid \cup {b}
  BY <1>4, Zenon DEF ConnectTip
<1>6. Active' = {b} \cup Active /\ Anc[b] = {b} \cup Active
  BY <1>1, <1>2, <1>3, AncParent, Zenon DEF Active
<1>7. ActiveChainConnected'
  BY <1>1, <1>4, <1>5, <1>6, Zenon DEF ActiveChainConnected
<1>8. IndexInv'
  BY <1>1, <1>5, <1>6, Zenon DEF IndexInv, LinkedHaveData, ScriptsValidClosed, ActiveChainConnected
<1>9. b \notin g_failed_blocks
  BY <1>4, Zenon DEF FailInv, FailedBlocksMarked, Failed
<1>10. FailInv'
  <2>1. Failed' = Failed /\ Failed' \cap Active' = Failed \cap Active
    BY <1>1, <1>4, <1>6, Zenon DEF Failed
  <2>2. FailedBlocksMarked' /\ g_failed_blocks' \cap Active' = {}
    BY <1>1, <1>6, <1>9 DEF FailInv, FailedBlocksMarked
  <2> QED
    BY <1>1, <2>1, <2>2, Zenon DEF FailInv
<1>11. PICK mode \in Modes : FlushStateToDisk(mode, setDirtyBlockIndex \cup {b})
  BY EnvironmentAssumed, Zenon DEF ConnectTip, IfNeeded
<1>12. DiskInv'
  BY <1>1, <1>5, <1>7, <1>8, <1>11, FlushStep, Zenon DEF IndexInv, DiskInv
<1> QED
  BY <1>7, <1>8, <1>10, <1>12, Zenon DEF ChainInv

(* A block found invalid is the child of the tip, and the target is         *)
(* forgotten.                                                               *)
LEMMA ConnectInvalidStep ==
  ASSUME ChainInv, TypeInv', NEW b \in Blocks, ConnectTipInvalid(b)
  PROVE  ChainInv'
<1> USE ChainFacts
<1>1. /\ UNCHANGED <<mapBlockIndex, received, scriptsValid, failedChild, linked, chainTip,
                     mapBlocksUnlinked, disk>>
      /\ failedValid' = failedValid \cup {b}
      /\ g_failed_blocks' = g_failed_blocks \cup {b}
      /\ setDirtyBlockIndex' = setDirtyBlockIndex \cup {b}
      /\ setBlockIndexCandidates' = setBlockIndexCandidates \ {b}
  BY Zenon DEF ConnectTipInvalid
<1>2. pindexMostWork' = NoBlock
  BY Zenon DEF ConnectTipInvalid, AfterStep, ABCUnlock
<1>3. b \notin Active
  <2>1. pindexMostWork \in Blocks /\ b \in Anc[pindexMostWork] /\ Parent[b] = chainTip
    BY Zenon DEF ConnectTipInvalid, NextToConnect, Connecting, PcInv, TypeInv
  <2> QED
    BY <2>1, TreeAssumed, Zenon DEF TreeAssumption, Active
<1>4. IndexInv'
  BY <1>1, <1>2, Zenon DEF IndexInv, LinkedHaveData, ScriptsValidClosed
<1>5. ActiveChainConnected' /\ DiskInv'
  BY <1>1, Zenon DEF ActiveChainConnected, Active, DiskInv, DiskChainConnected
<1>6. FailInv'
  BY <1>1, <1>2, <1>3, Zenon DEF FailInv, FailedBlocksMarked, Failed, Active
<1> QED
  BY <1>4, <1>5, <1>6, Zenon DEF ChainInv

(* A corrupt stored block only dirties its entry and sets its modifier.     *)
LEMMA ConnectCorruptStep ==
  ASSUME ChainInv, TypeInv', NEW b \in Blocks, ConnectTipCorrupt(b)
  PROVE  ChainInv'
<1> USE ChainFacts DEF stateVars
<1>1. /\ UNCHANGED <<mapBlockIndex, received, scriptsValid, failedValid, failedChild, linked,
                     stateVars, disk>>
      /\ setDirtyBlockIndex' = setDirtyBlockIndex \cup {b}
      /\ pindexMostWork' = NoBlock
  BY Zenon DEF ConnectTipCorrupt, AfterStep, ABCUnlock
<1>2. IndexInv'
  BY <1>1, Zenon DEF IndexInv, LinkedHaveData, ScriptsValidClosed
<1>3. ActiveChainConnected' /\ DiskInv'
  BY <1>1, Zenon DEF ActiveChainConnected, Active, DiskInv, DiskChainConnected
<1>4. FailInv'
  BY <1>1, Zenon DEF FailInv, FailedBlocksMarked, Failed, Active
<1> QED
  BY <1>2, <1>3, <1>4, Zenon DEF ChainInv
-----------------------------------------------------------------------------
(* The operator's commands, flushes and restarts. *)

(* InvalidateBlock marks only what it has disconnected first; with no       *)
(* activation under way there is no target to disturb.                      *)
LEMMA InvalidateStep ==
  ASSUME ChainInv, TypeInv', InvalidateWaits, NEW b \in Blocks, InvalidateBlock(b)
  PROVE  ChainInv'
<1> USE ChainFacts DEF localVars
<1> DEFINE walk == IF b \in Active THEN Active \ Anc[b] ELSE {}
<1> DEFINE marked == walk \cup {b}
<1>1. /\ UNCHANGED <<mapBlockIndex, received, scriptsValid, linked, mapBlocksUnlinked>>
      /\ chainTip' = IF b \in Active THEN Parent[b] ELSE chainTip
      /\ failedChild' = failedChild \cup walk /\ failedValid' = failedValid \cup {b}
      /\ g_failed_blocks' = g_failed_blocks \cup {b}
      /\ setBlockIndexCandidates' = (setBlockIndexCandidates \ marked) \cup
           {x \in received \cap linked : x \notin failedValid' \cup failedChild' /\ ~ Worse(x, chainTip')}
  BY Zenon DEF InvalidateBlock, Reoffered
<1>2. pindexMostWork' = NoBlock
  BY Zenon DEF InvalidateBlock, InvalidateWaits, RpcActivates, RpcReady, Quiescent, PcInv, TypeInv
<1>3. b # Genesis
  BY Zenon DEF InvalidateBlock
<1>4. Active' \subseteq Active
  BY <1>1, <1>3, AncParent, AncTransitive, Zenon DEF Active
<1>5. marked \cap Active' = {}
  BY <1>1, <1>3, AncParent DEF Active
<1>6. \A x \in marked : b \in Active => x \in Blocks \ {Genesis} /\ Parent[x] \in Active
  BY <1>3, AncParent, AncReflexive, AncTransitive, ZenonT(40) DEF Active
<1>7. \/ setDirtyBlockIndex' = setDirtyBlockIndex \cup marked /\ UNCHANGED disk
      \/ /\ b \in Active /\ setDirtyBlockIndex' = marked
         /\ \E x \in marked :
              disk' = Written(setDirtyBlockIndex, mapBlockIndex, received, scriptsValid,
                              failedValid, failedChild, bnStakeModifier, Parent[x])
  BY Zenon DEF InvalidateBlock, MidwayFlush
<1> HIDE DEF walk, marked
<1>8. IndexInv'
  BY <1>1, <1>2, Zenon DEF IndexInv, LinkedHaveData, ScriptsValidClosed
<1>9. ActiveChainConnected'
  BY <1>1, <1>4, Zenon DEF ActiveChainConnected
<1>10. FailInv'
  <2>1. FailedBlocksMarked' /\ g_failed_blocks' \cap Active' = {}
    BY <1>1, <1>4, <1>5, Zenon DEF FailInv, FailedBlocksMarked, marked
  <2>2. Failed' = Failed \cup marked
    BY <1>1, Zenon DEF Failed, marked
  <2>3. \A x \in Failed' \cap Active' : \A d \in mapBlockIndex' : x \in Anc[d] => d \in Failed'
    BY <1>1, <1>4, <1>5, <2>2, Zenon DEF FailInv
  <2>4. (setBlockIndexCandidates \cap Active \cap Failed)' = {}
    BY <1>1, <1>4, <1>5, <2>2, Zenon DEF FailInv, Failed
  <2> QED
    BY <1>2, <2>1, <2>3, <2>4, Zenon DEF FailInv
<1>11. DiskInv'
  <2>1. CASE setDirtyBlockIndex' = setDirtyBlockIndex \cup marked /\ UNCHANGED disk
    BY <1>1, <2>1, Zenon DEF DiskInv, DiskChainConnected
  <2>2. ASSUME b \in Active, NEW x \in marked,
               disk' = Written(setDirtyBlockIndex, mapBlockIndex, received, scriptsValid,
                               failedValid, failedChild, bnStakeModifier, Parent[x])
        PROVE  DiskInv'
    <3>1. /\ disk'.map = mapBlockIndex /\ disk'.received = received
          /\ disk'.scriptsValid = scriptsValid /\ disk'.tip = Parent[x]
      BY <2>2, MergeExact, Zenon DEF Written, DiskInv
    <3>2. Anc[Parent[x]] \subseteq Active
      BY <1>6, <2>2, AncTransitive, Zenon DEF Active
    <3> QED
      BY <1>1, <3>1, <3>2, Zenon
      DEF DiskInv, DiskChainConnected, IndexInv, ScriptsValidClosed, ActiveChainConnected
  <2> QED
    BY <1>7, <2>1, <2>2, Zenon
<1> QED
  BY <1>8, <1>9, <1>10, <1>11, Zenon DEF ChainInv

(* ResetBlockFailureFlags clears a failed block together with every entry   *)
(* below it that had inherited the failure.                                 *)
LEMMA ResetStep ==
  ASSUME ChainInv, TypeInv', NEW b \in Blocks, ResetBlockFailureFlags(b)
  PROVE  ChainInv'
<1> USE ChainFacts DEF localVars
<1> DEFINE below == {x \in mapBlockIndex : ~ HaveTransactions(x) /\ b \in Anc[x]}
<1> DEFINE cleared == below \cup (Anc[b] \cap Failed)
<1>1. /\ UNCHANGED <<mapBlockIndex, received, scriptsValid, linked, chainTip, mapBlocksUnlinked,
                     disk, pindexMostWork>>
      /\ failedValid' = failedValid \ cleared /\ failedChild' = failedChild \ cleared
      /\ g_failed_blocks' = g_failed_blocks \ cleared
      /\ setDirtyBlockIndex' = setDirtyBlockIndex \cup cleared
      /\ setBlockIndexCandidates' = setBlockIndexCandidates \cup
           {x \in below \cap received \cap linked : Worse(chainTip, x)}
  BY Zenon DEF ResetBlockFailureFlags, RpcActivates, StillFailed
<1>2. Failed' = Failed \ cleared
  BY <1>1, Zenon DEF Failed
<1>3. ASSUME NEW x \in Failed' \cap Active', NEW d \in mapBlockIndex', x \in Anc[d]
      PROVE  d \in Failed'
  <2>1. x \in Failed /\ x \in Active /\ x \notin cleared /\ d \in mapBlockIndex /\ x \in mapBlockIndex
    BY <1>1, <1>2, <1>3, Zenon DEF Active, ActiveChainConnected
  <2>2. d \in Failed
    BY <1>3, <2>1, Zenon DEF FailInv
  <2>3. ~ HaveTransactions(x)
    BY <2>1, Zenon DEF HaveTransactions
  <2>4. x \notin Anc[b] /\ b \notin Anc[x]
    BY <2>1, <2>3, Zenon
  <2>5. d \notin Anc[b]
    BY <1>3, <2>4, AncTransitive, Zenon
  <2>6. b \notin Anc[d]
    BY <1>3, <2>1, <2>4, TreeAssumed, Zenon DEF TreeAssumption
  <2>7. d \notin cleared
    BY <2>5, <2>6, Zenon
  <2> QED
    BY <1>2, <2>2, <2>7, Zenon
<1>4. IndexInv'
  BY <1>1, Zenon DEF IndexInv, LinkedHaveData, ScriptsValidClosed
<1>5. ActiveChainConnected' /\ DiskInv'
  BY <1>1, Zenon DEF ActiveChainConnected, Active, DiskInv, DiskChainConnected
<1> HIDE DEF below
<1>6. (setBlockIndexCandidates \cap Active \cap Failed)' = {}
  BY <1>1, <1>2, Zenon DEF FailInv, Active
<1>7. FailedBlocksMarked' /\ g_failed_blocks' \cap Active' = {}
  BY <1>1, Zenon DEF FailInv, FailedBlocksMarked, Active
<1>8. FailInv'
  BY <1>1, <1>2, <1>3, <1>6, <1>7, Zenon DEF FailInv
<1> QED
  BY <1>4, <1>5, <1>8, Zenon DEF ChainInv

(* PreciousBlock offers a block that is linked and unfailed.                *)
LEMMA PreciousStep ==
  ASSUME ChainInv, TypeInv', NEW b \in Blocks, PreciousBlock(b)
  PROVE  ChainInv'
<1> USE ChainFacts DEF localVars, diskVars
<1>1. /\ UNCHANGED <<mapBlockIndex, received, scriptsValid, failedValid, failedChild, linked,
                     chainTip, mapBlocksUnlinked, g_failed_blocks, setDirtyBlockIndex, disk,
                     pindexMostWork>>
      /\ \A x \in setBlockIndexCandidates' \ setBlockIndexCandidates : x \in linked /\ x \notin Failed
  BY Zenon DEF PreciousBlock, RpcActivates, HaveTransactions
<1>2. IndexInv'
  BY <1>1, Zenon DEF IndexInv, LinkedHaveData, ScriptsValidClosed
<1>3. ActiveChainConnected' /\ DiskInv'
  BY <1>1, Zenon DEF ActiveChainConnected, Active, DiskInv, DiskChainConnected
<1>4. FailInv'
  BY <1>1, Zenon DEF FailInv, FailedBlocksMarked, Failed, Active
<1> QED
  BY <1>2, <1>3, <1>4, Zenon DEF ChainInv

(* A flush that is not part of a connection.                                *)
LEMMA PlainFlushStep ==
  ASSUME ChainInv, TypeInv', UNCHANGED <<indexVars, stateVars>>,
         pindexMostWork' \in {NoBlock, pindexMostWork},
         NEW mode \in Modes, FlushStateToDisk(mode, setDirtyBlockIndex)
  PROVE  ChainInv'
<1> USE ChainFacts DEF indexVars, stateVars
<1>1. IndexInv'
  BY Zenon DEF IndexInv, LinkedHaveData, ScriptsValidClosed
<1>2. ActiveChainConnected'
  BY Zenon DEF ActiveChainConnected, Active
<1>3. FailInv'
  BY Zenon DEF FailInv, FailedBlocksMarked, Failed, Active
<1>4. DiskInv'
  BY <1>1, <1>2, FlushStep, Zenon DEF IndexInv, DiskInv
<1> QED
  BY <1>1, <1>2, <1>3, <1>4, Zenon DEF ChainInv

(* However the process ends, the databases it leaves are consistent, and    *)
(* LoadBlockIndex hands every failure down to the descendants.              *)
LEMMA RestartStep ==
  ASSUME ChainInv, TypeInv', Restart
  PROVE  ChainInv'
<1> USE ChainFacts
<1>1. PICK how \in {"killed", "torn", "shutdown"} : Load(DiskAtExit(how))
  BY Zenon DEF Restart
<1> DEFINE d == DiskAtExit(how)
<1>2. /\ d.tip \in Blocks /\ Anc[d.tip] \subseteq d.map \cap d.received
      /\ Anc[d.tip] \ {Genesis} \subseteq d.scriptsValid
      /\ \A b \in d.map : Anc[b] \subseteq d.map
      /\ d.received \subseteq d.map /\ d.map \subseteq Blocks
      /\ \A b \in d.scriptsValid : Anc[b] \ {Genesis} \subseteq d.scriptsValid
  <2>1. CASE how = "killed"
    BY <2>1, Zenon DEF DiskAtExit, DiskInv, DiskChainConnected, DiskType
  <2>2. CASE how # "killed"
    <3>1. d.tip = (IF how = "shutdown" THEN chainTip ELSE disk.tip)
      BY <2>2, Zenon DEF DiskAtExit, Written
    <3>2. d.map = mapBlockIndex /\ d.received = received /\ d.scriptsValid = scriptsValid
      BY <2>2, MergeExact, Zenon DEF DiskAtExit, Written, DiskInv
    <3>3. d.tip \in Blocks /\ Anc[d.tip] \subseteq mapBlockIndex \cap received
          /\ Anc[d.tip] \ {Genesis} \subseteq scriptsValid
      <4>1. CASE how = "shutdown"
        BY <3>1, <4>1, Zenon DEF ActiveChainConnected, Active
      <4>2. CASE how # "shutdown"
        BY <3>1, <4>2, Zenon DEF DiskInv, DiskChainConnected, DiskType
      <4> QED
        BY <4>1, <4>2, Zenon
    <3> HIDE DEF d
    <3> QED
      BY <3>2, <3>3, Zenon DEF IndexInv, ScriptsValidClosed
  <2> QED
    BY <2>1, <2>2, Zenon
<1> HIDE DEF d
<1>3. Load(d)
  BY <1>1, Zenon DEF d
<1> DEFINE invalid == d.failedValid \cup d.failedChild
<1> DEFINE inherited == {x \in d.map \ invalid : Anc[x] \cap invalid # {}}
<1>4. /\ mapBlockIndex' = d.map /\ received' = d.received /\ scriptsValid' = d.scriptsValid
      /\ failedValid' = d.failedValid /\ failedChild' = d.failedChild \cup inherited
      /\ linked' = {x \in d.received : Anc[x] \subseteq d.received}
      /\ mapBlocksUnlinked' \subseteq d.received
      /\ setBlockIndexCandidates' = linked' \ (invalid \cup inherited)
      /\ chainTip' = d.tip
  BY <1>3, Zenon DEF Load
<1>5. /\ disk' = [map |-> mapBlockIndex', received |-> received', scriptsValid |-> scriptsValid',
                  failedValid |-> failedValid', failedChild |-> failedChild',
                  modifier |-> bnStakeModifier', tip |-> chainTip']
      /\ g_failed_blocks' = {} /\ pindexMostWork' = NoBlock
  BY Zenon DEF Restart
<1>6. Failed' = invalid \cup inherited
  BY <1>4, Zenon DEF Failed
<1>7. IndexInv'
  BY <1>2, <1>4, <1>5, Zenon DEF IndexInv, LinkedHaveData, ScriptsValidClosed
<1>8. ActiveChainConnected'
  BY <1>2, <1>4, Zenon DEF ActiveChainConnected, Active
<1>9. DiskInv'
  BY <1>2, <1>4, <1>5, Zenon DEF DiskInv, DiskChainConnected
<1>10. \A x \in Failed' : \A y \in mapBlockIndex' : x \in Anc[y] => y \in Failed'
  <2> SUFFICES ASSUME NEW x \in Failed', NEW y \in mapBlockIndex', x \in Anc[y]
               PROVE  y \in Failed'
    BY Zenon
  <2>1. y \in d.map /\ y \in Blocks
    BY <1>2, <1>4, Zenon
  <2>2. Anc[y] \cap invalid # {}
    BY <1>6, <2>1, AncTransitive, Zenon
  <2> QED
    BY <1>6, <2>1, <2>2, Zenon
<1>11. FailInv'
  BY <1>4, <1>5, <1>6, <1>10, Zenon DEF FailInv, FailedBlocksMarked
<1> QED
  BY <1>7, <1>8, <1>9, <1>11, Zenon DEF ChainInv

-----------------------------------------------------------------------------
(* Failure marks.  Three more invariants, on top of ChainInv: *)

NoReconsider == "reconsiderblock" \notin Rpcs
NoCommands == NoReconsider /\ "invalidateblock" \notin Rpcs

(* once ThreadImport is done, and when an activation returns, the active    *)
(* chain has no failed block; the genesis block is always left to return to *)
Checked == (~ fImporting /\ pc # "shutdown") \/ pc = "exit"

StartInv ==
  /\ Genesis \in setBlockIndexCandidates /\ Genesis \notin Failed
  /\ Checked => Active \cap Failed = {}

(* a failed block descends from one found invalid, with no gap in the marks *)
(* between them; *)
MarkedFrom(f, b) == f \in Anc[b] \cap failedValid /\ Anc[b] \ Anc[f] \subseteq Failed

MaskInv ==
  /\ Failed \subseteq mapBlockIndex
  /\ \A b \in Failed : \E f \in Blocks : MarkedFrom(f, b)

(* a received block is linked, waits for data, or waits for a failed block  *)
(* that will never be received; *)
LinkInv ==
  /\ failedValid \cap received \subseteq linked
  /\ \A b \in received : Anc[b] \subseteq received => b \in linked
  /\ \A b \in mapBlocksUnlinked : b \in received /\ ~ (Anc[b] \subseteq received)
  /\ \A b \in received \ linked : b \in mapBlocksUnlinked \/ Anc[b] \cap (Failed \ received) # {}

(* the marks in a database d may have gaps, but are explained by blocks     *)
(* found invalid that d also holds, and lag behind memory by no more than   *)
(* dirty entries. *)
Explained(d) ==
  /\ Genesis \notin d.failedValid \cup d.failedChild
  /\ NoReconsider => /\ d.failedValid \cup d.failedChild \subseteq d.map
                     /\ \A b \in d.failedChild : Anc[b] \cap d.failedValid # {}
  /\ NoCommands => \A f \in d.failedValid \cap d.received : Anc[f] \subseteq d.received

MarksLag ==
  /\ disk.failedValid \subseteq failedValid
  /\ failedValid \ disk.failedValid \subseteq setDirtyBlockIndex
  /\ disk.failedChild \subseteq failedChild

FateInv ==
  /\ StartInv /\ Explained(disk)
  /\ NoReconsider => MaskInv /\ MarksLag
  /\ NoCommands => LinkInv

(* A step that may mark blocks, but receives none: what it leaves in memory. *)
LEMMA FateMemory ==
  ASSUME ChainInv, FateInv,
         UNCHANGED <<received, linked, mapBlocksUnlinked>>,
         mapBlockIndex \subseteq mapBlockIndex',
         failedValid \subseteq failedValid', failedChild \subseteq failedChild',
         Failed' \ Failed \subseteq mapBlockIndex',
         NoReconsider => \A x \in Failed' \ Failed : \E f \in Blocks : MarkedFrom(f, x)',
         NoCommands => (failedValid' \ failedValid) \cap received \subseteq linked
  PROVE  (NoReconsider => MaskInv') /\ (NoCommands => LinkInv')
<1>1. Failed \subseteq Failed'
  BY Zenon DEF Failed
<1>2. ASSUME NoReconsider PROVE MaskInv'
  <2>1. MaskInv
    BY <1>2, Zenon DEF FateInv
  <2>2. ASSUME NEW b \in Failed' PROVE \E f \in Blocks : MarkedFrom(f, b)'
    <3>1. CASE b \in Failed
      <4>1. PICK f \in Blocks : MarkedFrom(f, b)
        BY <2>1, <3>1, Zenon DEF MaskInv
      <4>2. MarkedFrom(f, b)'
        BY <1>1, <4>1, Zenon DEF MarkedFrom
      <4> QED BY <4>2, Zenon
    <3>2. CASE b \notin Failed
      BY <1>2, <2>2, <3>2, Zenon
    <3> QED BY <3>1, <3>2, Zenon
  <2>3. Failed' \subseteq mapBlockIndex'
    BY <2>1, Zenon DEF MaskInv
  <2> QED
    BY <2>2, <2>3, Zenon DEF MaskInv
<1>3. ASSUME NoCommands PROVE LinkInv'
  BY <1>1, <1>3, Zenon DEF FateInv, LinkInv
<1> QED
  BY <1>2, <1>3, Zenon

(* The same when it writes nothing either.                                  *)
LEMMA FateKeeps ==
  ASSUME ChainInv, FateInv,
         UNCHANGED <<received, linked, mapBlocksUnlinked, disk>>,
         mapBlockIndex \subseteq mapBlockIndex',
         setDirtyBlockIndex \subseteq setDirtyBlockIndex',
         failedValid \subseteq failedValid', failedChild \subseteq failedChild',
         failedValid' \ failedValid \subseteq setDirtyBlockIndex',
         Failed' \ Failed \subseteq mapBlockIndex',
         NoReconsider => \A x \in Failed' \ Failed : \E f \in Blocks : MarkedFrom(f, x)',
         NoCommands => (failedValid' \ failedValid) \cap received \subseteq linked,
         StartInv'
  PROVE  FateInv'
<1>1. (NoReconsider => MaskInv') /\ (NoCommands => LinkInv')
  BY FateMemory, Zenon
<1>2. NoReconsider => MarksLag'
  BY Zenon DEF FateInv, MarksLag
<1> QED
  BY <1>1, <1>2, Zenon DEF FateInv

(* A step that marks nothing, receives nothing and leaves the active chain  *)
(* and the databases alone.                                                 *)
LEMMA FateFrame ==
  ASSUME ChainInv, FateInv,
         UNCHANGED <<received, failedValid, failedChild, linked, mapBlocksUnlinked, disk, chainTip>>,
         mapBlockIndex \subseteq mapBlockIndex',
         setDirtyBlockIndex \subseteq setDirtyBlockIndex',
         Genesis \in setBlockIndexCandidates',
         Checked' => Checked \/ Active \cap Failed = {}
  PROVE  FateInv'
<1>1. UNCHANGED <<Failed, Active>>
  BY Zenon DEF Failed, Active
<1>2. StartInv'
  BY <1>1, Zenon DEF FateInv, StartInv
<1> QED
  BY <1>1, <1>2, FateKeeps, Zenon

(* A block that is received completes the chains that wait for it, and no   *)
(* other: what lies between it and a chain it completes waits as well, for  *)
(* a block that waits for a failed one waits for ever.                      *)
LEMMA LinkReceived ==
  ASSUME ChainInv, ChainInv', MaskInv, LinkInv, NEW b \in Blocks \ {Genesis},
         HeaderOk(b), b \notin received, ReceivedBlockTransactions(b),
         UNCHANGED <<failedValid, failedChild, disk>>
  PROVE  LinkInv'
<1>1. /\ received' = received \cup {b} /\ Failed' = Failed /\ b \notin Failed
      /\ received \subseteq Blocks /\ mapBlocksUnlinked \subseteq received
  BY Zenon DEF ReceivedBlockTransactions, Failed, HeaderOk, MaskInv, ChainInv, TypeInv, TypeOK, IndexInv
<1>2. Parent[b] \in Blocks /\ Anc[b] = {b} \cup Anc[Parent[b]] /\ b \notin Anc[Parent[b]]
  BY AncParent, Zenon
<1>3. \A x \in linked : Anc[x] \subseteq received
  BY Zenon DEF ChainInv, IndexInv, LinkedHaveData
<1>4. ASSUME NEW d \in received, d \notin linked, Anc[d] \subseteq received'
      PROVE  b \in Anc[d] /\ Parent[b] \in linked /\ d \in NewlyLinked(b)
  <2>1. b \in Anc[d]
    BY <1>1, <1>4, Zenon DEF LinkInv
  <2>2. Parent[b] \in received /\ Anc[Parent[b]] \subseteq received
    BY <1>1, <1>2, <1>4, <2>1, AncTransitive, AncReflexive, Zenon
  <2>3. ASSUME NEW x \in Anc[d], x \notin Anc[b] PROVE x \in mapBlocksUnlinked
    <3>1. x \in received /\ x # b /\ b \in Anc[x] /\ Anc[x] \subseteq received'
      BY <1>1, <1>4, <2>1, <2>3, AncBetween, AncTransitive, AncReflexive, Zenon
    <3>2. x \notin linked
      BY <1>3, <3>1, Zenon
    <3>3. Anc[x] \cap (Failed \ received) = {}
      BY <1>1, <3>1, Zenon
    <3> QED
      BY <3>1, <3>2, <3>3, Zenon DEF LinkInv
  <2>4. d \notin Anc[b]
    BY <1>1, <1>2, <1>4, <2>1, <2>2, AncReflexive, TreeAssumed, Zenon DEF TreeAssumption
  <2>5. d \in mapBlocksUnlinked
    BY <1>1, <2>3, <2>4, AncReflexive, Zenon
  <2> QED
    BY <2>1, <2>2, <2>3, <2>5, Zenon DEF LinkInv, NewlyLinked
<1>5. Parent[b] \notin linked => ~ (Anc[b] \subseteq received')
  BY <1>1, <1>2, AncReflexive, Zenon DEF LinkInv
<1>6. \A y \in Failed \ received : y \in Failed' \ received'
  BY <1>1, Zenon
<1>7. CASE Parent[b] \in linked
  <2>1. /\ linked' = linked \cup NewlyLinked(b)
        /\ mapBlocksUnlinked' = mapBlocksUnlinked \ NewlyLinked(b)
    BY <1>7, Zenon DEF ReceivedBlockTransactions
  <2>2. b \in NewlyLinked(b)
    BY Zenon DEF NewlyLinked
  <2>3. \A d \in received' : Anc[d] \subseteq received' => d \in linked'
    BY <1>1, <1>4, <2>1, <2>2, Zenon
  <2>4. \A d \in mapBlocksUnlinked' : d \in received' /\ ~ (Anc[d] \subseteq received')
    BY <1>1, <1>3, <1>4, <2>1, Zenon DEF LinkInv
  <2>5. \A d \in received' \ linked' :
          d \in mapBlocksUnlinked' \/ Anc[d] \cap (Failed' \ received') # {}
    BY <1>1, <1>6, <2>1, <2>2, Zenon DEF LinkInv
  <2>6. failedValid' \cap received' \subseteq linked'
    BY <1>1, <2>1, <2>2, Zenon DEF LinkInv
  <2> QED
    BY <2>3, <2>4, <2>5, <2>6, Zenon DEF LinkInv
<1>8. CASE Parent[b] \notin linked
  <2>1. /\ linked' = linked
        /\ mapBlocksUnlinked' = IF WaitsForParent(b) THEN mapBlocksUnlinked \cup {b}
                                                      ELSE mapBlocksUnlinked
    BY <1>8, Zenon DEF ReceivedBlockTransactions
  <2>2. \A d \in received' : Anc[d] \subseteq received' => d \in linked'
    BY <1>1, <1>4, <1>5, <1>8, <2>1, Zenon
  <2>3. \A d \in mapBlocksUnlinked' : d \in received' /\ ~ (Anc[d] \subseteq received')
    BY <1>1, <1>3, <1>4, <1>5, <1>8, <2>1, Zenon DEF LinkInv
  <2>4. ASSUME Parent[b] \in Failed PROVE Anc[b] \cap (Failed \ received') # {}
    <3>1. CASE Parent[b] \notin received
      BY <1>1, <1>2, <2>4, <3>1, AncReflexive, Zenon
    <3>2. CASE Parent[b] \in received
      <4>1. PICK f \in Blocks : MarkedFrom(f, Parent[b])
        BY <2>4, Zenon DEF MaskInv
      <4>2. CASE f \notin received
        BY <1>1, <1>2, <4>1, <4>2, Zenon DEF MarkedFrom, Failed
      <4>3. CASE f \in received
        <5>1. Anc[f] \subseteq received
          BY <1>3, <4>1, <4>3, Zenon DEF LinkInv, MarkedFrom
        <5>2. PICK y \in Anc[Parent[b]] : y \notin received
          BY <1>8, <3>2, Zenon DEF LinkInv
        <5>3. y \in Failed
          BY <4>1, <5>1, <5>2, Zenon DEF MarkedFrom
        <5> QED
          BY <1>1, <1>2, <5>2, <5>3, Zenon
      <4> QED BY <4>2, <4>3, Zenon
    <3> QED BY <3>1, <3>2, Zenon
  <2>5. \A d \in received' \ linked' :
          d \in mapBlocksUnlinked' \/ Anc[d] \cap (Failed' \ received') # {}
    BY <1>1, <1>6, <2>1, <2>4, Zenon DEF LinkInv, WaitsForParent
  <2>6. failedValid' \cap received' \subseteq linked'
    BY <1>1, <2>1, Zenon DEF LinkInv, Failed
  <2> QED
    BY <2>2, <2>3, <2>5, <2>6, Zenon DEF LinkInv
<1> QED
  BY <1>7, <1>8, Zenon

(* AcceptBlock: the block it may mark has not been received.                *)
LEMMA FateAccept ==
  ASSUME ChainInv, ChainInv', FateInv, NEW b \in Blocks \ {Genesis}, NEW fRequested,
         NEW fCheckPoS, AcceptBlock(b, fRequested, fCheckPoS), UNCHANGED <<pc, fImporting>>
  PROVE  FateInv'
<1>1. /\ UNCHANGED <<failedChild, chainTip, disk>>
      /\ mapBlockIndex' = mapBlockIndex \cup {b}
      /\ HeaderOk(b)
  BY Zenon DEF AcceptBlock, AddToBlockIndex
<1>2. setDirtyBlockIndex \subseteq setDirtyBlockIndex'
  BY Zenon DEF AcceptBlock, DirtyWithHeader
<1>3. \/ UNCHANGED <<received, linked, setBlockIndexCandidates, mapBlocksUnlinked, failedValid>>
      \/ /\ UNCHANGED <<received, linked, setBlockIndexCandidates, mapBlocksUnlinked>>
         /\ b \notin received
         /\ failedValid' = failedValid \cup {b} /\ b \in setDirtyBlockIndex'
      \/ b \notin received /\ failedValid' = failedValid /\ ReceivedBlockTransactions(b)
  BY Zenon DEF AcceptBlock, NotWanted
<1>4. UNCHANGED <<Checked, Active>>
  BY <1>1, Zenon DEF Checked, Active
<1>5. Active \subseteq received /\ b \in Anc[b]
  BY AncReflexive, Zenon DEF ChainInv, ActiveChainConnected
<1>6. CASE UNCHANGED <<received, linked, setBlockIndexCandidates, mapBlocksUnlinked, failedValid>>
  BY <1>1, <1>2, <1>4, <1>6, FateFrame, Zenon DEF FateInv, StartInv
<1>7. CASE /\ UNCHANGED <<received, linked, setBlockIndexCandidates, mapBlocksUnlinked>>
           /\ b \notin received
           /\ failedValid' = failedValid \cup {b} /\ b \in setDirtyBlockIndex'
  <2>1. Failed' = Failed \cup {b}
    BY <1>1, <1>7, Zenon DEF Failed
  <2>2. MarkedFrom(b, b)'
    BY <1>5, <1>7, Zenon DEF MarkedFrom
  <2>3. StartInv'
    BY <1>4, <1>5, <1>7, <2>1, Zenon DEF FateInv, StartInv
  <2>5. \A x \in Failed' \ Failed : \E f \in Blocks : MarkedFrom(f, x)'
    BY <2>1, <2>2, Zenon
  <2> QED
    BY <1>1, <1>2, <1>7, <2>1, <2>3, <2>5, FateKeeps, Zenon
<1>8. CASE b \notin received /\ failedValid' = failedValid /\ ReceivedBlockTransactions(b)
  <2>1. Failed' = Failed /\ setBlockIndexCandidates \subseteq setBlockIndexCandidates'
    BY <1>1, <1>8, Zenon DEF Failed, ReceivedBlockTransactions
  <2>2. StartInv'
    BY <1>1, <1>4, <1>8, <2>1, Zenon DEF FateInv, StartInv
  <2>3. \A f, x : MarkedFrom(f, x)' <=> MarkedFrom(f, x)
    BY <1>8, <2>1, Zenon DEF MarkedFrom
  <2>4. (MaskInv => MaskInv') /\ (MarksLag => MarksLag')
    BY <1>1, <1>2, <1>8, <2>1, <2>3, Zenon DEF MaskInv, MarksLag
  <2>5. MaskInv /\ LinkInv => LinkInv'
    BY <1>1, <1>8, LinkReceived, Zenon
  <2> QED
    BY <1>1, <2>2, <2>4, <2>5, Zenon DEF FateInv, NoCommands
<1> QED
  BY <1>3, <1>6, <1>7, <1>8, Zenon

(* RejectHeader marks the whole way down to the block found invalid, which  *)
(* is not on the active chain.                                              *)
LEMMA FateReject ==
  ASSUME ChainInv, FateInv, NEW b \in Blocks \ {Genesis}, RejectHeader(b)
  PROVE  FateInv'
<1>1. PICK failedit \in g_failed_blocks \cap Anc[Parent[b]] :
         /\ failedChild' = failedChild \cup (Anc[Parent[b]] \ Anc[failedit])
         /\ setDirtyBlockIndex' = setDirtyBlockIndex \cup (Anc[Parent[b]] \ Anc[failedit])
  BY Zenon DEF RejectHeader
<1> DEFINE walk == Anc[Parent[b]] \ Anc[failedit]
<1>2. /\ UNCHANGED <<mapBlockIndex, received, failedValid, linked, mapBlocksUnlinked, disk,
                     chainTip, setBlockIndexCandidates, pc, fImporting>>
      /\ Parent[b] \in mapBlockIndex
  BY Zenon DEF RejectHeader, stateVars, abcVars
<1>3. Failed' = Failed \cup walk
  BY <1>1, <1>2, Zenon DEF Failed
<1>4. failedit \in failedValid /\ failedit \notin Active /\ failedit \in Blocks
  BY <1>1, Zenon DEF ChainInv, FailInv, FailedBlocksMarked, TypeInv, TypeOK
<1>5. Parent[b] \in Blocks /\ walk \subseteq mapBlockIndex
  BY <1>2, AncParent, Zenon DEF ChainInv, IndexInv
<1>6. \A x \in walk : failedit \in Anc[x] /\ Anc[x] \ Anc[failedit] \subseteq walk
  BY <1>1, <1>5, AncBetween, AncTransitive, Zenon
<1>7. \A x \in walk : MarkedFrom(failedit, x)'
  BY <1>2, <1>3, <1>4, <1>6, Zenon DEF MarkedFrom
<1>8. walk \cap Active = {} /\ Genesis \notin walk
  <2>1. chainTip \in Blocks /\ Genesis \in Anc[failedit]
    BY <1>4, AncReflexive, Zenon DEF ChainInv, TypeInv, TypeOK
  <2> QED
    BY <1>4, <1>6, <2>1, AncTransitive, Zenon DEF Active
<1> HIDE DEF walk
<1>9. UNCHANGED <<Checked, Active>>
  BY <1>2, Zenon DEF Checked, Active
<1>10. StartInv'
  BY <1>2, <1>3, <1>8, <1>9, Zenon DEF FateInv, StartInv
<1>11. \A x \in Failed' \ Failed : \E f \in Blocks : MarkedFrom(f, x)'
  BY <1>3, <1>4, <1>7, Zenon
<1> QED
  BY <1>1, <1>2, <1>3, <1>5, <1>10, <1>11, FateKeeps, Zenon

(* FindMostWorkChain marks the candidates above a failed block; the active  *)
(* chain, which it started from, is not among them.                         *)
LEMMA FatePrune ==
  ASSUME ChainInv, FateInv, FindMostWorkChainPrune
  PROVE  FateInv'
<1>0. PICK pindexNew \in setBlockIndexCandidates : \E pindexTest \in Unusable(pindexNew) :
         /\ setBlockIndexCandidates' =
               setBlockIndexCandidates \ ((Anc[pindexNew] \ Anc[pindexTest]) \cup {pindexTest})
         /\ pindexTest \in Failed =>
               /\ failedChild' = failedChild \cup (Anc[pindexNew] \ Anc[pindexTest])
               /\ UNCHANGED mapBlocksUnlinked
  BY Zenon DEF FindMostWorkChainPrune
<1>1. PICK pindexTest \in Unusable(pindexNew) :
         /\ setBlockIndexCandidates' =
               setBlockIndexCandidates \ ((Anc[pindexNew] \ Anc[pindexTest]) \cup {pindexTest})
         /\ pindexTest \in Failed =>
               /\ failedChild' = failedChild \cup (Anc[pindexNew] \ Anc[pindexTest])
               /\ UNCHANGED mapBlocksUnlinked
  BY <1>0, Zenon
<1> DEFINE above == Anc[pindexNew] \ Anc[pindexTest]
<1>2. UNCHANGED <<mapBlockIndex, received, failedValid, linked, disk, setDirtyBlockIndex, chainTip,
                  pc, fImporting>>
  BY Zenon DEF FindMostWorkChainPrune, diskVars, abcVars
<1>3. /\ pindexNew \in Blocks /\ chainTip \in Blocks
      /\ Anc[pindexNew] \subseteq received /\ received \subseteq mapBlockIndex
  BY Zenon DEF ChainInv, TypeInv, TypeOK, IndexInv, LinkedHaveData
<1>4. pindexTest \in Anc[pindexNew] /\ pindexTest \notin Active /\ pindexTest \in Failed
  BY <1>1, <1>3, Zenon DEF Unusable, PathToActive
<1>5. Failed' = Failed \cup above
  BY <1>1, <1>2, <1>4, Zenon DEF Failed
<1>6. \A x \in above : pindexTest \in Anc[x] /\ Anc[x] \ Anc[pindexTest] \subseteq above
  BY <1>3, <1>4, AncBetween, AncTransitive, Zenon
<1>7. (above \cup {pindexTest}) \cap Active = {}
  BY <1>3, <1>4, <1>6, AncTransitive, Zenon DEF Active
<1> HIDE DEF above
<1>8. Genesis \in Active
  BY <1>3, AncReflexive, Zenon DEF Active
<1>9. ASSUME NoReconsider, NEW x \in above PROVE \E f \in Blocks : MarkedFrom(f, x)'
  <2>1. PICK f \in Blocks : MarkedFrom(f, pindexTest)
    BY <1>4, <1>9, Zenon DEF FateInv, MaskInv
  <2>2. x \in Blocks /\ f \in Anc[x]
    BY <1>3, <1>4, <1>6, <2>1, AncTransitive, Zenon DEF MarkedFrom, above
  <2>3. Anc[x] \ Anc[f] \subseteq Failed'
    BY <1>5, <1>6, <2>1, Zenon DEF MarkedFrom
  <2> QED
    BY <1>2, <2>1, <2>2, <2>3, Zenon DEF MarkedFrom
<1>10. UNCHANGED <<Checked, Active>>
  BY <1>2, Zenon DEF Checked, Active
<1>11. Genesis \in setBlockIndexCandidates'
  BY <1>1, <1>7, <1>8, Zenon DEF FateInv, StartInv, above
<1>12. StartInv'
  BY <1>5, <1>7, <1>8, <1>10, <1>11, Zenon DEF FateInv, StartInv
<1>13. above \subseteq mapBlockIndex
  BY <1>3, Zenon DEF above
<1>14. UNCHANGED mapBlocksUnlinked /\ failedChild \subseteq failedChild'
  BY <1>1, <1>4, Zenon
<1> QED
  BY <1>2, <1>5, <1>9, <1>12, <1>13, <1>14, FateKeeps, Zenon

(* A block that ConnectBlock finds invalid is linked, and not yet part of   *)
(* the active chain; that chain is a part of the target's.                  *)
LEMMA FateConnectInvalid ==
  ASSUME ChainInv, FateInv, NEW b \in Blocks, ConnectTipInvalid(b)
  PROVE  FateInv'
<1>1. /\ UNCHANGED <<mapBlockIndex, received, failedChild, linked, mapBlocksUnlinked, disk, chainTip>>
      /\ failedValid' = failedValid \cup {b}
      /\ setDirtyBlockIndex' = setDirtyBlockIndex \cup {b}
      /\ setBlockIndexCandidates' = setBlockIndexCandidates \ {b}
  BY Zenon DEF ConnectTipInvalid
<1>2. /\ pindexMostWork \in Blocks /\ b \in Anc[pindexMostWork] /\ Parent[b] = chainTip
      /\ chainTip \in Anc[pindexMostWork] /\ chainTip \in Blocks
  BY Zenon DEF ConnectTipInvalid, NextToConnect, Connecting, ChainInv, PcInv, TypeInv, TypeOK
<1>3. Anc[pindexMostWork] \cap Failed = {} /\ Anc[pindexMostWork] \subseteq received
  BY <1>2, TreeAssumed, Zenon DEF TreeAssumption, ChainInv, FailInv, IndexInv, LinkedHaveData
<1>4. Active \subseteq Anc[pindexMostWork] /\ b \notin Active /\ Genesis \in Active
  BY <1>2, AncTransitive, AncReflexive, TreeAssumed, Zenon DEF TreeAssumption, Active
<1>5. Failed' = Failed \cup {b} /\ UNCHANGED Active
  BY <1>1, Zenon DEF Failed, Active
<1>6. MarkedFrom(b, b)'
  BY <1>1, AncReflexive, Zenon DEF MarkedFrom
<1>7. Active' \cap Failed' = {}
  BY <1>3, <1>4, <1>5, Zenon
<1>8. StartInv'
  BY <1>1, <1>4, <1>5, <1>7, Zenon DEF FateInv, StartInv
<1>9. NoCommands => b \in linked
  BY <1>2, <1>3, AncTransitive, Zenon DEF FateInv, LinkInv
<1>10. b \in mapBlockIndex
  BY <1>2, <1>3, Zenon DEF ChainInv, IndexInv
<1>11. \A x \in Failed' \ Failed : \E f \in Blocks : MarkedFrom(f, x)'
  BY <1>5, <1>6, Zenon
<1>12. NoCommands => (failedValid' \ failedValid) \cap received \subseteq linked
  BY <1>1, <1>9, Zenon
<1> QED
  BY <1>1, <1>5, <1>8, <1>10, <1>11, <1>12, FateKeeps, Zenon
-----------------------------------------------------------------------------
(* The marks on disk stay explained when the dirty entries, or more, are    *)
(* written: an entry marked BLOCK_FAILED_VALID is dirty.                    *)
LEMMA WrittenExplained ==
  ASSUME ChainInv, FateInv, NEW dirty, setDirtyBlockIndex \subseteq dirty, NEW scripts, NEW best,
         NEW modifier,
         NEW d, d = Written(dirty, mapBlockIndex, received, scripts, failedValid, failedChild,
                            modifier, best)
  PROVE  /\ Explained(d)
         /\ NoReconsider => d.failedValid = failedValid /\ d.failedChild \subseteq failedChild
<1>1. /\ d.map = Merge(disk.map, mapBlockIndex, dirty)
      /\ d.received = Merge(disk.received, received, dirty)
      /\ d.failedValid = Merge(disk.failedValid, failedValid, dirty)
      /\ d.failedChild = Merge(disk.failedChild, failedChild, dirty)
  BY Zenon DEF Written
<1>2. d.map = mapBlockIndex /\ d.received = received
  BY <1>1, MergeExact DEF ChainInv, DiskInv
<1>3. Genesis \notin d.failedValid \cup d.failedChild
  BY <1>1, Zenon DEF FateInv, StartInv, Explained, Merge, Failed
<1>4. ASSUME NoReconsider
      PROVE  /\ d.failedValid = failedValid /\ d.failedChild \subseteq failedChild
             /\ d.failedValid \cup d.failedChild \subseteq d.map
             /\ \A b \in d.failedChild : Anc[b] \cap d.failedValid # {}
  <2>1. MaskInv /\ MarksLag
    BY <1>4, Zenon DEF FateInv
  <2>2. d.failedValid = failedValid
    BY <1>1, <2>1, MergeExact DEF MarksLag
  <2>3. d.failedChild \subseteq failedChild
    BY <1>1, <2>1, Zenon DEF MarksLag, Merge
  <2>4. \A b \in failedChild : Anc[b] \cap failedValid # {} /\ b \in mapBlockIndex
    BY <2>1, Zenon DEF MaskInv, MarkedFrom, Failed
  <2>5. failedValid \subseteq mapBlockIndex
    BY <2>1, Zenon DEF MaskInv, Failed
  <2> QED
    BY <1>2, <2>2, <2>3, <2>4, <2>5, Zenon
<1>5. ASSUME NoCommands PROVE \A f \in d.failedValid \cap d.received : Anc[f] \subseteq d.received
  BY <1>2, <1>4, <1>5, Zenon DEF NoCommands, FateInv, LinkInv, ChainInv, IndexInv, LinkedHaveData
<1> QED
  BY <1>3, <1>4, <1>5, Zenon DEF Explained

(* A flush, with whatever change of the active chain comes before it.       *)
LEMMA FateFlush ==
  ASSUME ChainInv, FateInv,
         UNCHANGED <<mapBlockIndex, received, failedValid, failedChild, linked, mapBlocksUnlinked,
                     setBlockIndexCandidates>>,
         NEW mode \in Modes, NEW dirty, setDirtyBlockIndex \subseteq dirty,
         FlushStateToDisk(mode, dirty),
         Checked' => Active' \cap Failed' = {}
  PROVE  FateInv'
<1>1. Failed' = Failed /\ StartInv'
  BY Zenon DEF Failed, FateInv, StartInv
<1>2. (NoReconsider => MaskInv') /\ (NoCommands => LinkInv')
  BY <1>1, FateMemory, Zenon
<1>3. CASE mode = "none"
  BY <1>1, <1>2, <1>3, Zenon DEF FlushStateToDisk, FateInv, MarksLag
<1>4. CASE mode # "none"
  <2>1. disk' = Written(dirty, mapBlockIndex, received, scriptsValid', failedValid, failedChild,
                        bnStakeModifier', IF mode = "full" THEN chainTip' ELSE disk.tip)
    BY <1>4, Zenon DEF FlushStateToDisk
  <2>2. /\ Explained(disk')
        /\ NoReconsider => disk'.failedValid = failedValid /\ disk'.failedChild \subseteq failedChild
    BY <2>1, WrittenExplained, Zenon
  <2>3. NoReconsider => MarksLag'
    BY <2>2, Zenon DEF MarksLag
  <2> QED
    BY <1>1, <1>2, <2>2, <2>3, Zenon DEF FateInv
<1> QED
  BY <1>3, <1>4, Zenon

(* The active chain loses a block.                                          *)
LEMMA FateDisconnect ==
  ASSUME ChainInv, ChainInv', FateInv, DisconnectTip
  PROVE  FateInv'
<1>1. /\ UNCHANGED <<mapBlockIndex, received, failedValid, failedChild, linked, mapBlocksUnlinked,
                     setBlockIndexCandidates, pc, fImporting>>
      /\ chainTip' = Parent[chainTip]
  BY Zenon DEF DisconnectTip, indexVars, abcVars
<1>2. Active' \subseteq Active
  <2>1. chainTip \in Blocks /\ chainTip' \in Blocks /\ NoBlock \notin Blocks
    BY TreeAssumed, Zenon DEF TreeAssumption, ChainInv, TypeInv, TypeOK
  <2>2. chainTip # Genesis
    BY <1>1, <2>1, TreeAssumed, Zenon DEF TreeAssumption
  <2> QED
    BY <1>1, <2>1, <2>2, AncParent DEF Active
<1>3. Checked' => Active' \cap Failed' = {}
  BY <1>1, <1>2, Zenon DEF FateInv, StartInv, Checked, Failed
<1>4. PICK mode \in Modes : FlushStateToDisk(mode, setDirtyBlockIndex)
  BY EnvironmentAssumed, Zenon DEF DisconnectTip, IfNeeded
<1> QED
  BY <1>1, <1>3, <1>4, FateFlush, Zenon

(* The active chain gains a block of the target's chain, which has no       *)
(* failed block.                                                            *)
LEMMA FateConnect ==
  ASSUME ChainInv, FateInv, NEW b \in Blocks, ConnectTip(b)
  PROVE  FateInv'
<1>1. /\ UNCHANGED <<mapBlockIndex, received, failedValid, failedChild, linked, mapBlocksUnlinked,
                     setBlockIndexCandidates>>
      /\ chainTip' = b
  BY Zenon DEF ConnectTip
<1>2. pindexMostWork \in Blocks /\ b \in Anc[pindexMostWork]
  BY Zenon DEF ConnectTip, NextToConnect, Connecting, ChainInv, PcInv, TypeInv, TypeOK
<1>3. Anc[pindexMostWork] \cap Failed = {}
  BY <1>2, TreeAssumed, Zenon DEF TreeAssumption, ChainInv, FailInv
<1>4. Active' \cap Failed' = {}
  BY <1>1, <1>2, <1>3, AncTransitive, Zenon DEF Active, Failed
<1>5. PICK mode \in Modes : FlushStateToDisk(mode, setDirtyBlockIndex \cup {b})
  BY EnvironmentAssumed, Zenon DEF ConnectTip, IfNeeded
<1> QED
  BY <1>1, <1>4, <1>5, FateFlush, Zenon

(* InvalidateBlock marks a block and, if it was active, all that stood on   *)
(* it, after leaving them; a flush on the way writes the marks of before.   *)
LEMMA FateInvalidate ==
  ASSUME ChainInv, ChainInv', FateInv, NEW b \in Blocks, InvalidateBlock(b)
  PROVE  FateInv'
<1> DEFINE walk == IF b \in Active THEN Active \ Anc[b] ELSE {}
<1>1. /\ UNCHANGED <<mapBlockIndex, received, linked, mapBlocksUnlinked, pc, fImporting>>
      /\ b \in mapBlockIndex /\ b # Genesis
      /\ chainTip' = IF b \in Active THEN Parent[b] ELSE chainTip
      /\ failedChild' = failedChild \cup walk /\ failedValid' = failedValid \cup {b}
      /\ setBlockIndexCandidates \ (walk \cup {b}) \subseteq setBlockIndexCandidates'
  BY Zenon DEF InvalidateBlock, RpcActivates
<1>2. \/ setDirtyBlockIndex' = setDirtyBlockIndex \cup (walk \cup {b}) /\ UNCHANGED disk
      \/ \E x : /\ setDirtyBlockIndex' = walk \cup {b}
               /\ disk' = Written(setDirtyBlockIndex, mapBlockIndex, received, scriptsValid,
                                  failedValid, failedChild, bnStakeModifier, Parent[x])
  BY Zenon DEF InvalidateBlock, MidwayFlush
<1>3. ~ NoCommands
  BY Zenon DEF InvalidateBlock, RpcReady, NoCommands
<1>4. chainTip \in Blocks /\ Active \subseteq mapBlockIndex /\ Genesis \in Active'
  BY AncReflexive, Zenon DEF ChainInv, TypeInv, TypeOK, ActiveChainConnected, Active
<1>5. Active' \subseteq Active /\ (walk \cup {b}) \cap Active' = {}
  BY <1>1, <1>4, AncParent, AncTransitive, AncReflexive, Zenon DEF Active
<1>6. walk \subseteq mapBlockIndex /\ Failed' = Failed \cup walk \cup {b}
  BY <1>1, <1>4, Zenon DEF Failed
<1>7. \A x \in walk \cup {b} : b \in Anc[x] /\ Anc[x] \ Anc[b] \subseteq walk
  BY <1>4, AncBetween, AncTransitive, AncReflexive, Zenon DEF Active
<1> HIDE DEF walk
<1>8. \A x \in Failed' \ Failed : \E f \in Blocks : MarkedFrom(f, x)'
  <2>1. ASSUME NEW x \in walk \cup {b} PROVE MarkedFrom(b, x)'
    BY <1>1, <1>6, <1>7, Zenon DEF MarkedFrom
  <2> QED
    BY <1>6, <2>1, Zenon
<1>9. StartInv'
  BY <1>1, <1>4, <1>5, <1>6, Zenon DEF FateInv, StartInv, Checked
<1>10. CASE setDirtyBlockIndex' = setDirtyBlockIndex \cup (walk \cup {b}) /\ UNCHANGED disk
  BY <1>1, <1>3, <1>6, <1>8, <1>9, <1>10, FateKeeps, Zenon
<1>11. CASE \E x : /\ setDirtyBlockIndex' = walk \cup {b}
                   /\ disk' = Written(setDirtyBlockIndex, mapBlockIndex, received, scriptsValid,
                                      failedValid, failedChild, bnStakeModifier, Parent[x])
  <2>1. PICK x : /\ setDirtyBlockIndex' = walk \cup {b}
                 /\ disk' = Written(setDirtyBlockIndex, mapBlockIndex, received, scriptsValid,
                                    failedValid, failedChild, bnStakeModifier, Parent[x])
    BY <1>11, Zenon
  <2>2. /\ Explained(disk')
        /\ NoReconsider => disk'.failedValid = failedValid /\ disk'.failedChild \subseteq failedChild
    BY <2>1, WrittenExplained, Zenon
  <2>3. NoReconsider => MaskInv'
    BY <1>1, <1>3, <1>6, <1>8, FateMemory, Zenon
  <2>4. NoReconsider => MarksLag'
    BY <1>1, <2>1, <2>2, Zenon DEF MarksLag
  <2> QED
    BY <1>3, <1>9, <2>2, <2>3, <2>4, Zenon DEF FateInv
<1> QED
  BY <1>2, <1>10, <1>11, Zenon

(* reconsiderblock only takes marks away.                                   *)
LEMMA FateReset ==
  ASSUME ChainInv, FateInv, NEW b \in Blocks, ResetBlockFailureFlags(b)
  PROVE  FateInv'
<1>1. /\ UNCHANGED <<chainTip, disk, pc, fImporting>> /\ ~ NoReconsider
      /\ setBlockIndexCandidates \subseteq setBlockIndexCandidates'
      /\ failedValid' \subseteq failedValid /\ failedChild' \subseteq failedChild
  BY Zenon DEF ResetBlockFailureFlags, RpcActivates, RpcReady, NoReconsider
<1> QED
  BY <1>1, Zenon DEF FateInv, StartInv, Checked, Active, Failed, NoCommands

(* preciousblock does not give up the genesis block.                        *)
LEMMA FatePrecious ==
  ASSUME ChainInv, FateInv, NEW b \in Blocks, PreciousBlock(b)
  PROVE  FateInv'
<1>1. /\ UNCHANGED <<mapBlockIndex, received, failedValid, failedChild, linked, mapBlocksUnlinked,
                     setDirtyBlockIndex, disk, chainTip, pc, fImporting>>
      /\ \/ setBlockIndexCandidates \subseteq setBlockIndexCandidates'
         \/ /\ ~ (HaveTransactions(b) /\ b \in linked)
            /\ setBlockIndexCandidates' = setBlockIndexCandidates \ {b}
  BY Zenon DEF PreciousBlock, RpcActivates, diskVars
<1>2. Genesis \in received /\ Genesis \in linked /\ Genesis \notin Failed
  BY AncReflexive, Zenon DEF ChainInv, TypeInv, TypeOK, ActiveChainConnected, Active, IndexInv, FateInv,
     StartInv
<1>3. Genesis \in setBlockIndexCandidates'
  BY <1>1, <1>2, Zenon DEF FateInv, StartInv, HaveTransactions
<1>4. Checked' => Checked
  BY <1>1, Zenon DEF Checked
<1> QED
  BY <1>1, <1>3, <1>4, FateFrame, Zenon

(* LoadBlockIndex marks every descendant of a marked block, and finds out   *)
(* anew which blocks are linked.                                            *)
LEMMA FateRestart ==
  ASSUME ChainInv, ChainInv', FateInv, Restart
  PROVE  FateInv'
<1>1. PICK how \in {"killed", "torn", "shutdown"} : Load(DiskAtExit(how))
  BY Zenon DEF Restart
<1> DEFINE d == DiskAtExit(how)
<1>2. Explained(d)
  <2>1. CASE how = "killed"
    BY <2>1, Zenon DEF DiskAtExit, FateInv
  <2>2. CASE how # "killed"
    BY <2>2, WrittenExplained, Zenon DEF DiskAtExit
  <2> QED BY <2>1, <2>2, Zenon
<1> HIDE DEF d
<1>3. Load(d)
  BY <1>1, Zenon DEF d
<1> DEFINE invalid == d.failedValid \cup d.failedChild
<1> DEFINE inherited == {x \in d.map \ invalid : Anc[x] \cap invalid # {}}
<1>4. /\ mapBlockIndex' = d.map /\ received' = d.received
      /\ failedValid' = d.failedValid /\ failedChild' = d.failedChild \cup inherited
      /\ linked' = {x \in d.received : Anc[x] \subseteq d.received}
      /\ mapBlocksUnlinked' = {x \in d.received \ {Genesis} : Parent[x] \notin linked'}
      /\ setBlockIndexCandidates' = linked' \ (invalid \cup inherited)
  BY <1>3, Zenon DEF Load
<1>5. /\ disk' = [map |-> mapBlockIndex', received |-> received', scriptsValid |-> scriptsValid',
                  failedValid |-> failedValid', failedChild |-> failedChild',
                  modifier |-> bnStakeModifier', tip |-> chainTip']
      /\ ~ Checked'
  BY Zenon DEF Restart, Checked
<1>6. /\ mapBlockIndex' \subseteq Blocks /\ received' \subseteq mapBlockIndex'
      /\ \A b \in mapBlockIndex' : Anc[b] \subseteq mapBlockIndex'
      /\ Genesis \in received'
  BY AncReflexive, Zenon DEF ChainInv, TypeInv, TypeOK, IndexInv, ActiveChainConnected, Active
<1>7. /\ Failed' = invalid \cup inherited
      /\ \A x \in mapBlockIndex' : Anc[x] \cap invalid # {} => x \in Failed'
  BY <1>4, Zenon DEF Failed
<1>8. Genesis \notin Failed' /\ Genesis \in linked'
  BY <1>2, <1>4, <1>6, <1>7, TreeAssumed DEF TreeAssumption, Explained
<1>9. StartInv'
  BY <1>4, <1>5, <1>7, <1>8, Zenon DEF StartInv
<1>10. ASSUME NoReconsider PROVE MaskInv'
  <2>1. Failed' \subseteq mapBlockIndex'
    BY <1>2, <1>4, <1>7, <1>10, Zenon DEF Explained
  <2>2. ASSUME NEW b \in Failed' PROVE \E f \in Blocks : MarkedFrom(f, b)'
    <3>1. b \in Blocks /\ b \in Anc[b]
      BY <1>6, <2>1, AncReflexive, Zenon
    <3>2. PICK y \in Anc[b] : y \in invalid
      BY <1>7, <3>1, Zenon
    <3>3. PICK f \in Anc[b] : f \in d.failedValid
      BY <1>2, <1>10, <3>1, <3>2, AncTransitive, AncReflexive, Zenon DEF Explained
    <3>4. f \in Blocks
      BY <3>1, AncTransitive, Zenon
    <3>5. Anc[b] \ Anc[f] \subseteq Failed'
      BY <1>6, <1>7, <2>1, <3>1, <3>3, AncBetween, Zenon
    <3> QED
      BY <1>4, <3>3, <3>4, <3>5, Zenon DEF MarkedFrom
  <2> QED
    BY <2>1, <2>2, Zenon DEF MaskInv
<1>11. MarksLag'
  BY <1>5, Zenon DEF MarksLag
<1>12. ASSUME NoCommands PROVE LinkInv'
  <2>1. \A f \in failedValid' \cap received' : f \in linked'
    BY <1>2, <1>4, <1>12, Zenon DEF Explained
  <2>2. \A b \in received' \ {Genesis} : b \in Blocks \ {Genesis}
    BY <1>6, Zenon
  <2>3. \A b \in received' \ linked' : b \in mapBlocksUnlinked'
    BY <1>4, <1>8, <2>2, AncParent
  <2>4. \A b \in mapBlocksUnlinked' : b \in received' /\ ~ (Anc[b] \subseteq received')
    BY <1>4, <2>2, AncParent, Zenon
  <2> QED
    BY <1>4, <2>1, <2>3, <2>4, Zenon DEF LinkInv
<1>13. Explained(disk')
  <2>1. NoReconsider => \A b \in failedChild' : Anc[b] \cap failedValid' # {}
    BY <1>10, Zenon DEF MaskInv, MarkedFrom, Failed
  <2>2. NoReconsider => failedValid' \cup failedChild' \subseteq mapBlockIndex'
    BY <1>10, Zenon DEF MaskInv, Failed
  <2>3. NoCommands => \A f \in failedValid' \cap received' : Anc[f] \subseteq received'
    BY <1>2, <1>4, Zenon DEF Explained
  <2>4. Genesis \notin failedValid' \cup failedChild'
    BY <1>8, Zenon DEF Failed
  <2> QED
    BY <1>5, <2>1, <2>2, <2>3, <2>4, Zenon DEF Explained
<1> QED
  BY <1>9, <1>10, <1>11, <1>12, <1>13, Zenon DEF FateInv

-----------------------------------------------------------------------------
(* Types. *)

(* The types, by what the variables belong to. *)
IndexTypes ==
  /\ mapBlockIndex \subseteq Blocks /\ received \subseteq Blocks
  /\ scriptsValid \subseteq Blocks /\ failedValid \subseteq Blocks
  /\ failedChild \subseteq Blocks /\ linked \subseteq Blocks /\ bnStakeModifier \subseteq Blocks
  /\ nSequenceId \in [Blocks -> Int] /\ address \in AddressOrders
StateTypes ==
  /\ chainTip \in Blocks
  /\ setBlockIndexCandidates \subseteq Blocks /\ mapBlocksUnlinked \subseteq Blocks
  /\ g_failed_blocks \subseteq Blocks
  /\ nBlockSequenceId \in Nat \ {0} /\ nBlockReverseSequenceId \in Int
  /\ nLastPreciousChainwork \in Nat
  /\ pindexBestHeader \in Blocks /\ pindexBestInvalid \in Blocks \cup {NoBlock}
DiskTypes == setDirtyBlockIndex \subseteq Blocks /\ disk \in DiskType /\ txIndex \subseteq Blocks
ThreadTypes ==
  /\ fImporting \in BOOLEAN /\ waiting \subseteq Threads /\ holder \in Threads \cup {"none"}
  /\ pblock \in [Threads -> Blocks \cup {NoBlock}]
  /\ pc \in {"idle", "unlocked", "find", "step", "exit", "shutdown"}
  /\ pindexMostWork \in Blocks \cup {NoBlock} /\ pindexNewTip \in Blocks \cup {NoBlock}
  /\ starting_tip \in Blocks \cup {NoBlock} /\ pindexOldTip \in Blocks \cup {NoBlock}
  /\ blocks_connected \in BOOLEAN
  /\ PcInv

(* They make up the type invariant.                                         *)
LEMMA TypeParts ==
  TypeInv <=> IndexTypes /\ StateTypes /\ DiskTypes /\ ThreadTypes /\ restarts \in Nat /\ rpcs \in Nat
  BY Zenon DEF TypeInv, TypeOK, IndexTypes, StateTypes, DiskTypes, ThreadTypes

(* A step keeps the types if it leaves the variables of each part alone or  *)
(* keeps theirs.                                                            *)
LEMMA TypeNext ==
  ASSUME TypeInv,
         UNCHANGED indexVars \/ IndexTypes',
         UNCHANGED stateVars \/ StateTypes',
         UNCHANGED diskVars \/ DiskTypes',
         UNCHANGED <<fImporting, abcVars>> \/ ThreadTypes',
         restarts' \in Nat, rpcs' \in Nat
  PROVE  TypeInv'
<1>1. IndexTypes /\ StateTypes /\ DiskTypes /\ ThreadTypes
  BY TypeParts, Zenon
<1>2. IndexTypes'
  BY <1>1, Zenon DEF IndexTypes, indexVars
<1>3. StateTypes'
  BY <1>1, Zenon DEF StateTypes, stateVars
<1>4. DiskTypes'
  BY <1>1, Zenon DEF DiskTypes, diskVars
<1>5. ThreadTypes'
  BY <1>1, Zenon DEF ThreadTypes, PcInv, abcVars, localVars
<1>6. (TypeInv <=> IndexTypes /\ StateTypes /\ DiskTypes /\ ThreadTypes /\ restarts \in Nat /\ rpcs \in Nat)'
  BY TypeParts, PTL
<1> QED
  BY <1>2, <1>3, <1>4, <1>5, <1>6, Zenon

(* A batch keeps the type of the databases.                                 *)
LEMMA WrittenType ==
  ASSUME disk \in DiskType, NEW dirty \in SUBSET Blocks, NEW index \in SUBSET Blocks,
         NEW data \in SUBSET Blocks, NEW scripts \in SUBSET Blocks,
         NEW invalid \in SUBSET Blocks, NEW child \in SUBSET Blocks,
         NEW modifier \in SUBSET Blocks, NEW best \in Blocks
  PROVE  Written(dirty, index, data, scripts, invalid, child, modifier, best) \in DiskType
  BY Zenon DEF Written, Merge, DiskType

(* PulsarContextualBlockChecks keeps the blocks with a stake modifier typed. *)
LEMMA ModifierType ==
  ASSUME bnStakeModifier \subseteq Blocks, NEW b \in Blocks, ComputeStakeModifier(b)
  PROVE  bnStakeModifier' \subseteq Blocks
  BY Zenon DEF ComputeStakeModifier

(* A thread that takes a block into memory, or drops it, leaves those of    *)
(* the other threads.                                                       *)
LEMMA InMemoryType ==
  ASSUME pblock \in [Threads -> Blocks \cup {NoBlock}], NEW t, NEW v \in Blocks \cup {NoBlock}
  PROVE  [pblock EXCEPT ![t] = v] \in [Threads -> Blocks \cup {NoBlock}]
  OBVIOUS

(* FlushStateToDisk keeps the databases and the dirty set typed. *)
LEMMA FlushType ==
  ASSUME disk \in DiskType, NEW dirty \in SUBSET Blocks, NEW mode \in Modes,
         mapBlockIndex' \subseteq Blocks, received' \subseteq Blocks,
         scriptsValid' \subseteq Blocks, failedValid' \subseteq Blocks,
         failedChild' \subseteq Blocks, bnStakeModifier' \subseteq Blocks, chainTip' \in Blocks,
         FlushStateToDisk(mode, dirty)
  PROVE  setDirtyBlockIndex' \subseteq Blocks /\ disk' \in DiskType
<1>1. disk.tip \in Blocks
  BY Zenon DEF DiskType
<1>2. Written(dirty, mapBlockIndex', received', scriptsValid', failedValid', failedChild',
              bnStakeModifier', IF mode = "full" THEN chainTip' ELSE disk.tip) \in DiskType
  BY <1>1, WrittenType, Zenon
<1> QED
  BY <1>2, Zenon DEF FlushStateToDisk

(* The locals of ActivateBestChain after a step of it.                      *)
LEMMA AfterStepType ==
  ASSUME ThreadTypes, pc = "step", NEW tip \in Blocks, NEW mostWork \in Blocks \cup {NoBlock},
         AfterStep(tip, mostWork), UNCHANGED waiting
  PROVE  ThreadTypes'
<1>1. CASE Worse(tip, starting_tip)
  BY <1>1 DEF AfterStep, ThreadTypes, PcInv
<1>2. CASE ~ Worse(tip, starting_tip)
  <2>1. /\ pc' \in {"exit", "unlocked"} /\ pindexNewTip' = tip /\ pindexMostWork' = mostWork
        /\ starting_tip' = NoBlock /\ pindexOldTip' = NoBlock /\ blocks_connected' = FALSE
        /\ UNCHANGED <<pblock, holder, fImporting, waiting>>
    BY <1>2, Zenon DEF AfterStep, ABCUnlock
  <2> QED
    BY <2>1, Zenon DEF ThreadTypes, PcInv
<1> QED
  BY <1>1, <1>2, Zenon

(* ActivateBestChain is left with its locals reset.                         *)
LEMMA ABCLeaveType ==
  ASSUME ThreadTypes, NEW ok \in BOOLEAN, ABCLeave(ok), UNCHANGED waiting
  PROVE  ThreadTypes'
<1>1. pblock' \in [Threads -> Blocks \cup {NoBlock}]
  BY InMemoryType, Zenon DEF ABCLeave, ThreadTypes
<1> QED
  BY <1>1, Zenon DEF ABCLeave, ThreadTypes, PcInv

(* A command of the operator leaves the threads and the locals of           *)
(* ActivateBestChain in order: it waits to call it.                         *)
LEMMA RpcActivatesType ==
  ASSUME TypeInv, RpcActivates
  PROVE  ThreadTypes' /\ restarts' \in Nat /\ rpcs' \in Nat
<1>1. ThreadTypes /\ restarts \in Nat /\ rpcs \in Nat
  BY TypeParts, Zenon
<1>2. restarts' \in Nat /\ rpcs' \in Nat
  BY <1>1 DEF RpcActivates
<1>3. waiting' \subseteq Threads
  BY <1>1, Zenon DEF RpcActivates, ThreadTypes, Threads
<1>4. UNCHANGED <<fImporting, pblock, holder, pc, localVars>>
  BY Zenon DEF RpcActivates
<1> QED
  BY <1>1, <1>2, <1>3, <1>4, Zenon DEF ThreadTypes, PcInv, localVars

(* AcceptBlock keeps the types of the index.                                *)
LEMMA AcceptBlockType ==
  ASSUME TypeInv, NEW b \in Blocks \ {Genesis}, NEW fRequested \in BOOLEAN, NEW fCheckPoS \in BOOLEAN,
         AcceptBlock(b, fRequested, fCheckPoS)
  PROVE  IndexTypes' /\ StateTypes' /\ DiskTypes'
<1>0. IndexTypes /\ StateTypes /\ DiskTypes
  BY TypeParts, Zenon
<1>1. mapBlockIndex' \subseteq Blocks /\ pindexBestHeader' \in Blocks
  BY <1>0, Zenon DEF AcceptBlock, AddToBlockIndex, IndexTypes, StateTypes
<1>2. setDirtyBlockIndex' \subseteq Blocks /\ failedValid' \subseteq Blocks
  BY <1>0, Zenon DEF AcceptBlock, DirtyWithHeader, IndexTypes, DiskTypes
<1>3. UNCHANGED <<scriptsValid, failedChild, address, chainTip, g_failed_blocks,
                  nBlockReverseSequenceId, nLastPreciousChainwork, pindexBestInvalid, disk, txIndex>>
  BY Zenon DEF AcceptBlock
<1>4. /\ received' \subseteq Blocks /\ linked' \subseteq Blocks /\ nSequenceId' \in [Blocks -> Int]
      /\ nBlockSequenceId' \in Nat \ {0}
      /\ setBlockIndexCandidates' \subseteq Blocks /\ mapBlocksUnlinked' \subseteq Blocks
  <2>1. CASE UNCHANGED <<received, linked, nSequenceId, nBlockSequenceId,
                         setBlockIndexCandidates, mapBlocksUnlinked>>
    BY <1>0, <2>1, Zenon DEF IndexTypes, StateTypes
  <2>2. CASE ReceivedBlockTransactions(b) /\ Parent[b] \in linked
    <3> DEFINE new == NewlyLinked(b)
    <3>1. new \subseteq Blocks
      BY <1>0, Zenon DEF NewlyLinked, StateTypes
    <3>2. Cardinality(new) \in Nat
      BY <3>1, TreeAssumed, Zenon DEF TreeAssumption
    <3>3. PICK ids \in WalkNumberings(new) :
            /\ linked' = linked \cup new
            /\ nSequenceId' = [x \in Blocks |-> IF x \in new THEN ids[x] ELSE nSequenceId[x]]
            /\ nBlockSequenceId' = nBlockSequenceId + Cardinality(new)
            /\ setBlockIndexCandidates' = setBlockIndexCandidates \cup
                 {x \in new : ~ WorseBy(nSequenceId', address, x, chainTip)}
            /\ mapBlocksUnlinked' = mapBlocksUnlinked \ new
      BY <2>2, Zenon DEF ReceivedBlockTransactions
    <3> HIDE DEF new
    <3>4. ids \in [new -> Int]
      BY <1>0, <3>2 DEF WalkNumberings, StateTypes
    <3>5. nSequenceId' \in [Blocks -> Int]
      BY <1>0, <3>3, <3>4, Zenon DEF IndexTypes
    <3>6. nBlockSequenceId' \in Nat \ {0}
      BY <1>0, <3>3, <3>2 DEF StateTypes
    <3>7. received' \subseteq Blocks
      BY <1>0, <2>2, Zenon DEF ReceivedBlockTransactions, IndexTypes
    <3> QED
      BY <1>0, <3>1, <3>3, <3>5, <3>6, <3>7, Zenon DEF IndexTypes, StateTypes
  <2>3. CASE ReceivedBlockTransactions(b) /\ Parent[b] \notin linked
    <3>1. received' \subseteq Blocks /\ mapBlocksUnlinked' \subseteq Blocks
      BY <1>0, <2>3, Zenon DEF ReceivedBlockTransactions, IndexTypes, StateTypes
    <3>2. UNCHANGED <<linked, nSequenceId, nBlockSequenceId, setBlockIndexCandidates>>
      BY <2>3, Zenon DEF ReceivedBlockTransactions
    <3> QED
      BY <1>0, <3>1, <3>2, Zenon DEF IndexTypes, StateTypes
  <2> QED
    BY <2>1, <2>2, <2>3, Zenon DEF AcceptBlock
<1>a. bnStakeModifier' \subseteq Blocks
  BY <1>0, ModifierType, Zenon DEF AcceptBlock, IndexTypes
<1>5. IndexTypes'
  BY <1>0, <1>1, <1>2, <1>3, <1>4, <1>a, Zenon DEF IndexTypes
<1>6. StateTypes'
  BY <1>0, <1>1, <1>3, <1>4, Zenon DEF StateTypes
<1>7. DiskTypes'
  BY <1>0, <1>2, <1>3, Zenon DEF DiskTypes
<1> QED
  BY <1>5, <1>6, <1>7, Zenon

(* Every step keeps the types; one step of the proof for each action.       *)
LEMMA TypeStep == TypeInv /\ [Next]_vars => TypeInv'
<1> SUFFICES ASSUME TypeInv, [Next]_vars PROVE TypeInv'
  BY Zenon
<1>a. "none" \in FlushModes /\ FlushModes \subseteq Modes
  BY EnvironmentAssumed, Zenon
<1>0. IndexTypes /\ StateTypes /\ DiskTypes /\ ThreadTypes /\ restarts \in Nat /\ rpcs \in Nat
  BY TypeParts, Zenon
<1>1. CASE UNCHANGED vars
  BY <1>0, <1>1, TypeNext, Zenon DEF vars, boundVars
<1>2. ASSUME NEW b \in Blocks \ {Genesis}, ProcessNewBlockHeaders(b) PROVE TypeInv'
  <2>1. IndexTypes'
    BY <1>0, <1>2, Zenon DEF ProcessNewBlockHeaders, AddToBlockIndex, IndexTypes
  <2>2. StateTypes'
    BY <1>0, <1>2, Zenon DEF ProcessNewBlockHeaders, AddToBlockIndex, StateTypes
  <2>3. DiskTypes'
    BY <1>0, <1>2, Zenon DEF ProcessNewBlockHeaders, DirtyWithHeader, DiskTypes
  <2>4. UNCHANGED <<fImporting, abcVars, boundVars>>
    BY <1>2, Zenon DEF ProcessNewBlockHeaders
  <2> QED
    BY <1>0, <2>1, <2>2, <2>3, <2>4, TypeNext, Zenon DEF boundVars
<1>3. ASSUME NEW b \in Blocks \ {Genesis}, RejectHeader(b) PROVE TypeInv'
  <2>1. PICK walk : /\ walk \subseteq Anc[Parent[b]]
                    /\ failedChild' = failedChild \cup walk
                    /\ setDirtyBlockIndex' = setDirtyBlockIndex \cup walk
    BY <1>3, Zenon DEF RejectHeader
  <2>2. walk \subseteq Blocks
    BY <2>1, AncParent, AncTransitive, Zenon
  <2>3. IndexTypes'
    BY <1>0, <1>3, <2>1, <2>2, Zenon DEF RejectHeader, IndexTypes
  <2>4. DiskTypes'
    BY <1>0, <1>3, <2>1, <2>2, Zenon DEF RejectHeader, DiskTypes
  <2>5. UNCHANGED <<stateVars, fImporting, abcVars, boundVars>>
    BY <1>3, Zenon DEF RejectHeader
  <2> QED
    BY <1>0, <2>3, <2>4, <2>5, TypeNext, Zenon DEF boundVars
<1>4. ASSUME NEW b \in Blocks \ {Genesis}, LoadExternalBlock(b) PROVE TypeInv'
  <2>1. AcceptBlock(b, TRUE, FALSE) /\ UNCHANGED <<fImporting, abcVars, boundVars>>
    BY <1>4, Zenon DEF LoadExternalBlock
  <2> QED
    BY <1>0, <2>1, AcceptBlockType, TypeNext, Zenon DEF boundVars
<1>5. ASSUME NEW b \in Blocks \ {Genesis}, NEW t \in {"msghand", "rpc"}, NEW fRequested \in BOOLEAN,
             ProcessNewBlock(t, b, fRequested)
      PROVE  TypeInv'
  <2>1. /\ AcceptBlock(b, fRequested, TRUE) /\ waiting' \subseteq waiting \cup {t}
        /\ UNCHANGED <<fImporting, holder, pc, localVars, boundVars>>
    BY <1>5, Zenon DEF ProcessNewBlock
  <2>2. pblock' \in [Threads -> Blocks \cup {NoBlock}]
    BY <1>0, <1>5, InMemoryType, Zenon DEF ProcessNewBlock, InMemory, ThreadTypes
  <2>3. ThreadTypes'
    BY <1>0, <2>1, <2>2, ZenonT(40) DEF ThreadTypes, PcInv, localVars, Threads
  <2> QED
    BY <1>0, <2>1, <2>3, AcceptBlockType, TypeNext, Zenon DEF boundVars
<1>6. ASSUME ThreadTypes', UNCHANGED <<indexVars, stateVars, diskVars, boundVars>> PROVE TypeInv'
  BY <1>0, <1>6, TypeNext, Zenon DEF boundVars
<1>7. ASSUME ImportActivate PROVE TypeInv'
  <2>1. ThreadTypes'
    BY <1>0, <1>7, Zenon DEF ImportActivate, Threads, ThreadTypes, PcInv, localVars
  <2> QED
    BY <1>6, <1>7, <2>1, Zenon DEF ImportActivate
<1>8. ASSUME NEW t \in Threads, ABCEnter(t) PROVE TypeInv'
  <2>1. ThreadTypes'
    BY <1>0, <1>8, Zenon DEF ABCEnter, Threads, ThreadTypes, PcInv, localVars
  <2> QED
    BY <1>6, <1>8, <2>1, Zenon DEF ABCEnter
<1>9. ASSUME ABCLock PROVE TypeInv'
  <2>1. ThreadTypes'
    BY <1>0, <1>9, Zenon DEF ABCLock, ThreadTypes, PcInv, StateTypes
  <2> QED
    BY <1>6, <1>9, <2>1, Zenon DEF ABCLock
<1>10. ASSUME FindMostWorkChainPrune PROVE TypeInv'
  <2>1. PICK pindexNew \in setBlockIndexCandidates, pindexTest \in Blocks :
          LET above == Anc[pindexNew] \ Anc[pindexTest]
          IN /\ setBlockIndexCandidates' \subseteq setBlockIndexCandidates
             /\ failedChild' \subseteq failedChild \cup above
             /\ pindexBestInvalid' \in {pindexNew, pindexBestInvalid}
             /\ mapBlocksUnlinked' \subseteq mapBlocksUnlinked \cup above
    <3>1. PICK pindexNew \in setBlockIndexCandidates :
            \E pindexTest \in Unusable(pindexNew) :
              LET above == Anc[pindexNew] \ Anc[pindexTest]
              IN /\ setBlockIndexCandidates' = setBlockIndexCandidates \ (above \cup {pindexTest})
                 /\ IF pindexTest \in Failed
                      THEN /\ failedChild' = failedChild \cup above
                           /\ pindexBestInvalid' = IF MoreTrust(pindexNew, pindexBestInvalid)
                                                     THEN pindexNew ELSE pindexBestInvalid
                           /\ UNCHANGED mapBlocksUnlinked
                      ELSE /\ mapBlocksUnlinked' = mapBlocksUnlinked \cup above
                           /\ UNCHANGED <<failedChild, pindexBestInvalid>>
      BY <1>10, Zenon DEF FindMostWorkChainPrune
    <3>2. Unusable(pindexNew) \subseteq Blocks
      BY <1>0, AncTransitive, Zenon DEF Unusable, PathToActive, StateTypes
    <3> QED
      BY <3>1, <3>2, Zenon
  <2>2. Anc[pindexNew] \subseteq Blocks
    BY <1>0, AncTransitive, Zenon DEF StateTypes
  <2>3. UNCHANGED <<mapBlockIndex, received, scriptsValid, failedValid, linked, bnStakeModifier,
                    nSequenceId, address, chainTip, g_failed_blocks, nBlockSequenceId,
                    nBlockReverseSequenceId, nLastPreciousChainwork, pindexBestHeader,
                    diskVars, fImporting, abcVars, boundVars>>
    BY <1>10, Zenon DEF FindMostWorkChainPrune
  <2>4. IndexTypes'
    BY <1>0, <2>1, <2>2, <2>3, Zenon DEF IndexTypes
  <2>5. StateTypes'
    BY <1>0, <2>1, <2>2, <2>3, Zenon DEF StateTypes
  <2> QED
    BY <1>0, <2>3, <2>4, <2>5, TypeNext, Zenon DEF boundVars
<1>11. ASSUME ABCBreak PROVE TypeInv'
  <2>1. PICK m \in {NoBlock, chainTip} : IF blocks_connected THEN ABCUnlock(pindexNewTip, m) ELSE ABCLeave(TRUE)
    BY <1>11, Zenon DEF ABCBreak
  <2>2. UNCHANGED <<indexVars, stateVars, diskVars, waiting, boundVars>> /\ pc = "find"
    BY <1>11, Zenon DEF ABCBreak
  <2>3. ASSUME ABCUnlock(pindexNewTip, m) PROVE ThreadTypes'
    BY <1>0, <2>2, <2>3, Zenon DEF ABCUnlock, ThreadTypes, PcInv, StateTypes
  <2>4. ThreadTypes'
    BY <1>0, <2>1, <2>2, <2>3, ABCLeaveType, Zenon
  <2> QED
    BY <1>6, <2>2, <2>4, Zenon
<1>12. ASSUME ABCStep PROVE TypeInv'
  <2>1. /\ pindexMostWork' \in Blocks /\ pindexOldTip' = chainTip /\ pc = "find" /\ pc' = "step"
        /\ UNCHANGED <<indexVars, stateVars, diskVars, fImporting, waiting, pblock, holder,
                       pindexNewTip, starting_tip, blocks_connected, boundVars>>
    BY <1>12, Zenon DEF ABCStep
  <2>2. NoBlock \notin Blocks
    BY TreeAssumed, Zenon DEF TreeAssumption
  <2>3. ThreadTypes'
    BY <1>0, <2>1, <2>2, Zenon DEF ThreadTypes, PcInv, StateTypes
  <2> QED
    BY <1>6, <2>1, <2>3, Zenon
<1>13. ASSUME ABCStepEnd PROVE TypeInv'
  <2>1. /\ pc = "step" /\ AfterStep(chainTip, pindexMostWork)
        /\ UNCHANGED <<indexVars, stateVars, diskVars, waiting, boundVars>>
    BY <1>13, Zenon DEF ABCStepEnd
  <2>2. chainTip \in Blocks /\ pindexMostWork \in Blocks \cup {NoBlock}
    BY <1>0, Zenon DEF StateTypes, ThreadTypes
  <2> QED
    BY <1>0, <1>6, <2>1, <2>2, AfterStepType, Zenon
<1>14. ASSUME NEW b \in Blocks, ConnectTipError(b) PROVE TypeInv'
  <2>1. ABCLeave(FALSE) /\ UNCHANGED <<indexVars, stateVars, diskVars, waiting, boundVars>>
    BY <1>14, Zenon DEF ConnectTipError
  <2> QED
    BY <1>0, <1>6, <2>1, ABCLeaveType, Zenon
<1>15. ASSUME ABCReturn PROVE TypeInv'
  <2>1. /\ ABCLeave(TRUE) /\ UNCHANGED <<indexVars, stateVars, txIndex, waiting, boundVars>>
        /\ \E mode \in FlushModes : FlushStateToDisk(mode, setDirtyBlockIndex)
    BY <1>15, Zenon DEF ABCReturn
  <2>2. DiskTypes'
    BY <1>0, <1>a, <2>1, FlushType, Zenon DEF DiskTypes, IndexTypes, StateTypes, indexVars, stateVars
  <2> QED
    BY <1>0, <2>1, <2>2, ABCLeaveType, TypeNext, Zenon DEF boundVars
<1>16. ASSUME Flush PROVE TypeInv'
  <2>1. /\ UNCHANGED <<indexVars, stateVars, txIndex, fImporting, abcVars, boundVars>>
        /\ \E mode \in FlushModes : FlushStateToDisk(mode, setDirtyBlockIndex)
    BY <1>16, Zenon DEF Flush
  <2>2. DiskTypes'
    BY <1>0, <1>a, <2>1, FlushType, Zenon DEF DiskTypes, IndexTypes, StateTypes, indexVars, stateVars
  <2> QED
    BY <1>0, <2>1, <2>2, TypeNext, Zenon DEF boundVars
<1>17. ASSUME DisconnectTip PROVE TypeInv'
  <2>1. /\ AboveFork /\ chainTip' = Parent[chainTip]
        /\ UNCHANGED <<indexVars, setBlockIndexCandidates, mapBlocksUnlinked, g_failed_blocks,
                       nBlockSequenceId, nBlockReverseSequenceId, nLastPreciousChainwork,
                       pindexBestHeader, pindexBestInvalid, txIndex, fImporting, abcVars, boundVars>>
        /\ pc = "step"
    BY <1>17, Zenon DEF DisconnectTip
  <2>2. PICK mode \in FlushModes : FlushStateToDisk(mode, setDirtyBlockIndex)
    BY <1>17, Zenon DEF DisconnectTip, IfNeeded
  <2>3. chainTip \in Blocks /\ pindexMostWork \in Blocks
    BY <1>0, <2>1, Zenon DEF StateTypes, ThreadTypes, PcInv
  <2>4. Parent[chainTip] \in Blocks
    BY <2>1, <2>3, AncReflexive, AncParent DEF AboveFork
  <2>5. StateTypes'
    BY <1>0, <2>1, <2>4, Zenon DEF StateTypes
  <2>6. DiskTypes'
    BY <1>0, <1>a, <2>1, <2>2, <2>4, FlushType, Zenon DEF DiskTypes, IndexTypes, indexVars
  <2> QED
    BY <1>0, <2>1, <2>5, <2>6, TypeNext, Zenon DEF boundVars
<1>18. ASSUME NEW b \in Blocks, ConnectTip(b) PROVE TypeInv'
  <2>1. /\ chainTip' = b /\ scriptsValid' \subseteq scriptsValid \cup {b} /\ txIndex' = txIndex \cup {b}
        /\ UNCHANGED <<mapBlockIndex, received, failedValid, failedChild, linked, nSequenceId,
                       address, setBlockIndexCandidates, mapBlocksUnlinked, g_failed_blocks,
                       nBlockSequenceId, nBlockReverseSequenceId, nLastPreciousChainwork,
                       pindexBestHeader, pindexBestInvalid, fImporting, abcVars, boundVars>>
    BY <1>18, Zenon DEF ConnectTip
  <2>2. PICK mode \in FlushModes : FlushStateToDisk(mode, setDirtyBlockIndex \cup {b})
    BY <1>18, Zenon DEF ConnectTip, IfNeeded
  <2>a. bnStakeModifier' \subseteq Blocks
    BY <1>0, <1>18, ModifierType, Zenon DEF ConnectTip, IndexTypes
  <2>3. IndexTypes'
    BY <1>0, <2>1, <2>a, Zenon DEF IndexTypes
  <2>4. StateTypes'
    BY <1>0, <2>1, Zenon DEF StateTypes
  <2>5. setDirtyBlockIndex \cup {b} \in SUBSET Blocks /\ disk \in DiskType /\ txIndex' \subseteq Blocks
    BY <1>0, <2>1, Zenon DEF DiskTypes
  <2>6. DiskTypes'
    BY <1>a, <2>1, <2>2, <2>3, <2>5, FlushType, Zenon DEF DiskTypes, IndexTypes
  <2> QED
    BY <1>0, <2>1, <2>3, <2>4, <2>6, TypeNext, Zenon DEF boundVars
<1>19. ASSUME NEW b \in Blocks, ConnectTipInvalid(b) PROVE TypeInv'
  <2>1. pc = "step" /\ AfterStep(chainTip, NoBlock) /\ UNCHANGED <<waiting, boundVars>>
    BY <1>19, Zenon DEF ConnectTipInvalid, NextToConnect, Connecting
  <2>a. bnStakeModifier' \subseteq Blocks
    BY <1>0, <1>19, ModifierType, Zenon DEF ConnectTipInvalid, IndexTypes
  <2>2. IndexTypes'
    BY <1>0, <1>19, <2>a, Zenon DEF ConnectTipInvalid, IndexTypes
  <2>3. StateTypes'
    BY <1>0, <1>19, Zenon DEF ConnectTipInvalid, StateTypes
  <2>4. DiskTypes'
    BY <1>0, <1>19, Zenon DEF ConnectTipInvalid, DiskTypes
  <2>5. ThreadTypes'
    BY <1>0, <2>1, AfterStepType, Zenon DEF StateTypes
  <2> QED
    BY <1>0, <2>1, <2>2, <2>3, <2>4, <2>5, TypeNext, Zenon DEF boundVars
<1>20. ASSUME NEW b \in Blocks, ConnectTipCorrupt(b) PROVE TypeInv'
  <2>1. /\ pc = "step" /\ AfterStep(chainTip, NoBlock)
        /\ UNCHANGED <<stateVars, waiting, boundVars>>
    BY <1>20, Zenon DEF ConnectTipCorrupt, NextToConnect, Connecting
  <2>a. bnStakeModifier' \subseteq Blocks
    BY <1>0, <1>20, ModifierType, Zenon DEF ConnectTipCorrupt, IndexTypes
  <2>b. IndexTypes'
    BY <1>0, <1>20, <2>a, Zenon DEF ConnectTipCorrupt, IndexTypes
  <2>2. DiskTypes'
    BY <1>0, <1>20, Zenon DEF ConnectTipCorrupt, DiskTypes
  <2>3. ThreadTypes'
    BY <1>0, <2>1, AfterStepType, Zenon DEF StateTypes
  <2> QED
    BY <1>0, <2>1, <2>b, <2>2, <2>3, TypeNext, Zenon DEF boundVars
<1>21. ASSUME NEW b \in Blocks, InvalidateBlock(b) PROVE TypeInv'
  <2> DEFINE walk == IF b \in Active THEN Active \ Anc[b] ELSE {}
  <2> DEFINE marked == walk \cup {b}
  <2>1. b # Genesis /\ Parent[b] \in Blocks /\ RpcActivates
    BY <1>21, AncParent, Zenon DEF InvalidateBlock
  <2>2. Active \subseteq Blocks
    BY <1>0, AncTransitive, Zenon DEF Active, StateTypes
  <2>3. walk \subseteq Blocks /\ marked \subseteq Blocks
    BY <2>2, Zenon
  <2>4. \A x \in marked : Parent[x] \in Blocks
    <3>1. \A x \in marked : x \in Blocks \ {Genesis}
      BY <2>1, <2>3, AncReflexive, Zenon
    <3> HIDE DEF marked
    <3> QED
      BY <3>1, AncParent, Zenon
  <2>5. /\ chainTip' \in {Parent[b], chainTip} /\ failedChild' = failedChild \cup walk
        /\ failedValid' = failedValid \cup {b} /\ g_failed_blocks' = g_failed_blocks \cup {b}
        /\ setBlockIndexCandidates' = (setBlockIndexCandidates \ marked) \cup
             Reoffered(chainTip', failedValid' \cup failedChild')
        /\ pindexBestInvalid' \in {b, pindexBestInvalid}
    BY <1>21, Zenon DEF InvalidateBlock
  <2>6. \/ setDirtyBlockIndex' = setDirtyBlockIndex \cup marked /\ UNCHANGED disk
        \/ MidwayFlush(marked)
    BY <1>21, Zenon DEF InvalidateBlock
  <2>7. UNCHANGED <<mapBlockIndex, received, scriptsValid, linked, bnStakeModifier, nSequenceId,
                    address,
                    mapBlocksUnlinked, nBlockSequenceId, nBlockReverseSequenceId,
                    nLastPreciousChainwork, pindexBestHeader, txIndex>>
    BY <1>21, Zenon DEF InvalidateBlock
  <2> HIDE DEF walk, marked
  <2>8. IndexTypes'
    BY <1>0, <2>3, <2>5, <2>7, Zenon DEF IndexTypes
  <2>9. StateTypes'
    BY <1>0, <2>1, <2>5, <2>7, Zenon DEF StateTypes, IndexTypes, Reoffered
  <2>10. DiskTypes'
    <3>1. CASE setDirtyBlockIndex' = setDirtyBlockIndex \cup marked /\ UNCHANGED disk
      BY <1>0, <2>3, <2>7, <3>1, Zenon DEF DiskTypes
    <3>2. CASE MidwayFlush(marked)
      <4>1. PICK x \in marked :
              disk' = Written(setDirtyBlockIndex, mapBlockIndex, received, scriptsValid,
                              failedValid, failedChild, bnStakeModifier, Parent[x])
        BY <3>2, Zenon DEF MidwayFlush
      <4>2. disk' \in DiskType
        BY <1>0, <2>4, <4>1, WrittenType, Zenon DEF DiskTypes, IndexTypes
      <4> QED
        BY <1>0, <2>3, <2>7, <3>2, <4>2, Zenon DEF MidwayFlush, DiskTypes
    <3> QED
      BY <2>6, <3>1, <3>2, Zenon
  <2> QED
    BY <2>1, <2>8, <2>9, <2>10, RpcActivatesType, TypeNext, Zenon
<1>22. ASSUME NEW b \in Blocks, ResetBlockFailureFlags(b) PROVE TypeInv'
  <2>1. /\ failedValid' \subseteq failedValid /\ failedChild' \subseteq failedChild
        /\ setBlockIndexCandidates' \subseteq setBlockIndexCandidates \cup linked
        /\ pindexBestInvalid' \in {NoBlock, pindexBestInvalid} /\ RpcActivates
    BY <1>22, Zenon DEF ResetBlockFailureFlags
  <2>2. /\ g_failed_blocks' \subseteq g_failed_blocks
        /\ setDirtyBlockIndex' \subseteq setDirtyBlockIndex \cup mapBlockIndex \cup Anc[b]
    BY <1>22, Zenon DEF ResetBlockFailureFlags, StillFailed
  <2>3. UNCHANGED <<mapBlockIndex, received, scriptsValid, linked, bnStakeModifier, nSequenceId,
                    address, chainTip, mapBlocksUnlinked, nBlockSequenceId, nBlockReverseSequenceId,
                    nLastPreciousChainwork, pindexBestHeader, disk, txIndex>>
    BY <1>22, Zenon DEF ResetBlockFailureFlags
  <2>4. IndexTypes'
    BY <1>0, <2>1, <2>3, Zenon DEF IndexTypes
  <2>5. StateTypes'
    BY <1>0, <2>1, <2>2, <2>3, Zenon DEF StateTypes, IndexTypes
  <2>6. DiskTypes'
    BY <1>0, <2>2, <2>3, AncTransitive, Zenon DEF DiskTypes, IndexTypes
  <2> QED
    BY <2>1, <2>4, <2>5, <2>6, RpcActivatesType, TypeNext, Zenon
<1>23. ASSUME NEW b \in Blocks, PreciousBlock(b) PROVE TypeInv'
  <2>1. Trust[chainTip] \in Nat
    BY <1>0, TreeAssumed, Zenon DEF TreeAssumption, StateTypes
  <2>2. nSequenceId' \in [Blocks -> Int] /\ nBlockReverseSequenceId' \in Int
    BY <1>0, <1>23 DEF PreciousBlock, IndexTypes, StateTypes
  <2>3. /\ nLastPreciousChainwork' = Trust[chainTip]
        /\ setBlockIndexCandidates' \subseteq setBlockIndexCandidates \cup {b} /\ RpcActivates
    BY <1>23, Zenon DEF PreciousBlock
  <2>4. UNCHANGED <<mapBlockIndex, received, scriptsValid, failedValid, failedChild, linked,
                    bnStakeModifier, address, chainTip, mapBlocksUnlinked, g_failed_blocks, nBlockSequenceId,
                    pindexBestHeader, pindexBestInvalid, diskVars>>
    BY <1>23, Zenon DEF PreciousBlock
  <2>5. IndexTypes'
    BY <1>0, <2>2, <2>4, Zenon DEF IndexTypes
  <2>6. StateTypes'
    BY <1>0, <2>1, <2>2, <2>3, <2>4, Zenon DEF StateTypes
  <2> QED
    BY <2>3, <2>4, <2>5, <2>6, RpcActivatesType, TypeNext, Zenon
<1>24. ASSUME Restart PROVE TypeInv'
  <2>1. PICK how \in {"killed", "torn", "shutdown"} : Load(DiskAtExit(how))
    BY <1>24, Zenon DEF Restart
  <2> DEFINE d == DiskAtExit(how)
  <2>2. d \in DiskType
    <3>1. disk \in DiskType /\ disk.tip \in Blocks
      BY <1>0, Zenon DEF DiskType, DiskTypes
    <3> QED
      BY <1>0, <3>1, WrittenType, Zenon DEF DiskAtExit, DiskTypes, IndexTypes, StateTypes
  <2> HIDE DEF d
  <2>3. Load(d)
    BY <2>1, Zenon DEF d
  <2>4. /\ d.map \subseteq Blocks /\ d.received \subseteq Blocks /\ d.scriptsValid \subseteq Blocks
        /\ d.failedValid \subseteq Blocks /\ d.failedChild \subseteq Blocks /\ d.tip \in Blocks
        /\ d.modifier \subseteq Blocks
    BY <2>2, Zenon DEF DiskType
  <2>5. /\ mapBlockIndex' = d.map /\ received' = d.received /\ scriptsValid' = d.scriptsValid
        /\ failedValid' = d.failedValid /\ failedChild' \subseteq d.failedChild \cup d.map
        /\ linked' \subseteq d.received /\ bnStakeModifier' = d.modifier /\ address' \in AddressOrders
        /\ nSequenceId' = [x \in Blocks |-> 0]
    BY <2>3, Zenon DEF Load
  <2>6. /\ mapBlocksUnlinked' \subseteq d.received /\ setBlockIndexCandidates' \subseteq linked'
        /\ chainTip' = d.tip
    BY <2>3, Zenon DEF Load
  <2>7. pindexBestHeader' \in Blocks /\ pindexBestInvalid' \in Blocks \cup {NoBlock}
    BY <2>3, <2>4, Zenon DEF Load, BestLoaded, FirstMostTrust
  <2>8. /\ g_failed_blocks' = {} /\ setDirtyBlockIndex' = {} /\ waiting' = {}
        /\ nBlockSequenceId' = 1 /\ nBlockReverseSequenceId' = -1 /\ nLastPreciousChainwork' = 0
        /\ restarts' = restarts + 1 /\ UNCHANGED <<txIndex, rpcs>>
        /\ disk' = [map |-> mapBlockIndex', received |-> received', scriptsValid |-> scriptsValid',
                    failedValid |-> failedValid', failedChild |-> failedChild',
                  modifier |-> bnStakeModifier', tip |-> chainTip']
    BY <1>24, Zenon DEF Restart
  <2>9. /\ fImporting' = TRUE /\ holder' = "none" /\ pc' = "idle" /\ pindexMostWork' = NoBlock
        /\ pindexNewTip' = NoBlock /\ starting_tip' = NoBlock /\ pindexOldTip' = NoBlock
        /\ blocks_connected' = FALSE /\ pblock' = [t \in Threads |-> NoBlock]
    BY <1>24, Zenon DEF Restart
  <2>10. IndexTypes'
    BY <2>4, <2>5 DEF IndexTypes
  <2>11. StateTypes'
    BY <2>4, <2>5, <2>6, <2>7, <2>8 DEF StateTypes
  <2>12. DiskTypes'
    BY <1>0, <2>4, <2>6, <2>8, <2>10, Zenon DEF DiskTypes, DiskType, IndexTypes
  <2>13. ThreadTypes'
    BY <2>8, <2>9, Zenon DEF ThreadTypes, PcInv
  <2> QED
    BY <1>0, <2>8, <2>10, <2>11, <2>12, <2>13, TypeNext
<1>25. CASE Network
  BY <1>25, <1>2, <1>3, <1>4, <1>5, Zenon DEF Network
<1>26. CASE Activation
  BY <1>26, <1>7, <1>8, <1>9, <1>10, <1>11, <1>12, <1>13, <1>14, <1>15, <1>17, <1>18, <1>19, <1>20, Zenon
  DEF Activation
<1>27. CASE Operator
  BY <1>27, <1>21, <1>22, <1>23, Zenon DEF Operator
<1> QED
  BY <1>1, <1>16, <1>24, <1>25, <1>26, <1>27, Zenon DEF Next

(* Initially every variable has its type.                                   *)
LEMMA TypeInit == Init => TypeInv
<1> SUFFICES ASSUME Init PROVE TypeInv
  BY Zenon
<1>1. Genesis \in Blocks /\ InitialHeaders \subseteq Blocks
  BY TreeAssumed, EnvironmentAssumed, Zenon DEF TreeAssumption
<1>2. fImporting \in BOOLEAN /\ blocks_connected \in BOOLEAN
  BY Zenon DEF Init
<1>3. disk \in DiskType
  BY <1>1, Zenon DEF Init, DiskType
<1>4. nSequenceId \in [Blocks -> Int] /\ pindexBestHeader \in Blocks
  <2>1. BestLoaded(mapBlockIndex, address) \subseteq mapBlockIndex
    BY Zenon DEF BestLoaded
  <2>2. nSequenceId \in [Blocks -> Int]
    BY DEF Init
  <2> QED
    BY <1>1, <2>1, <2>2, Zenon DEF Init
<1>5. /\ mapBlockIndex \subseteq Blocks /\ received \subseteq Blocks /\ linked \subseteq Blocks
      /\ scriptsValid = {} /\ failedValid = {} /\ failedChild = {} /\ address \in AddressOrders
      /\ chainTip \in Blocks /\ setBlockIndexCandidates \subseteq Blocks
      /\ bnStakeModifier \subseteq Blocks
  BY <1>1, Zenon DEF Init
<1>6. /\ mapBlocksUnlinked = {} /\ g_failed_blocks = {} /\ setDirtyBlockIndex = {} /\ txIndex = {}
      /\ nBlockSequenceId = 1 /\ nBlockReverseSequenceId = -1 /\ nLastPreciousChainwork = 0
      /\ pindexBestInvalid = NoBlock /\ restarts = 0 /\ rpcs = 0
  BY Zenon DEF Init
<1>7. /\ waiting = {} /\ holder = "none" /\ pc = "idle"
      /\ pindexMostWork = NoBlock /\ pindexNewTip = NoBlock
      /\ starting_tip = NoBlock /\ pindexOldTip = NoBlock
      /\ pblock \in [Threads -> Blocks \cup {NoBlock}]
  BY Zenon DEF Init
<1> QED
  BY <1>2, <1>3, <1>4, <1>5, <1>6, <1>7 DEF TypeInv, TypeOK, PcInv

(* Every variable of the block index, the chain state, the databases and    *)
(* the threads keeps its type, for every block tree and environment.        *)
THEOREM TypeCorrect == Spec => []TypeOK
<1>1. TypeInv => TypeOK
  BY Zenon DEF TypeInv
<1> QED
  BY <1>1, TypeInit, TypeStep, PTL DEF Spec
-----------------------------------------------------------------------------
(* The active chain and the databases. *)

(* Initially memory and the databases agree on the genesis block.           *)
LEMMA ChainInit == Init => ChainInv
<1> SUFFICES ASSUME Init PROVE ChainInv
  BY Zenon
<1>1. Genesis \in Blocks /\ Anc[Genesis] = {Genesis}
  BY TreeAssumed, Zenon DEF TreeAssumption
<1>2. \A b \in mapBlockIndex : Anc[b] \subseteq mapBlockIndex
  BY <1>1, EnvironmentAssumed, Zenon DEF Init
<1>3. IndexInv
  BY <1>1, <1>2, Zenon DEF Init, IndexInv, LinkedHaveData, ScriptsValidClosed
<1>4. FailInv
  BY Zenon DEF Init, FailInv, FailedBlocksMarked, Failed
<1>5. ActiveChainConnected /\ DiskInv
  BY <1>1, <1>2, Zenon DEF Init, ActiveChainConnected, Active, DiskInv, DiskChainConnected
<1> QED
  BY <1>3, <1>4, <1>5, TypeInit, Zenon DEF ChainInv

(* Every step keeps the invariant, one case per action.                     *)
LEMMA ChainStep == InvalidateWaits => (ChainInv /\ [Next]_vars => ChainInv')
<1> SUFFICES ASSUME InvalidateWaits, ChainInv, [Next]_vars PROVE ChainInv'
  BY Zenon
<1>0. TypeInv'
  BY TypeStep, Zenon DEF ChainInv
<1> USE DEF indexVars, stateVars, diskVars, localVars, abcVars, boundVars
<1>1. pindexMostWork # NoBlock =>
        pindexMostWork \in linked /\ Anc[pindexMostWork] \cap Failed = {}
  BY Zenon DEF ChainInv, IndexInv, FailInv
<1>2. CASE UNCHANGED vars
  BY <1>0, <1>1, <1>2, Frame, Zenon DEF vars
<1>3. CASE Network
  <2>1. ASSUME NEW b \in Blocks \ {Genesis}, LoadExternalBlock(b) PROVE ChainInv'
    BY <1>0, <2>1, AcceptBlockStep, Zenon DEF LoadExternalBlock
  <2>2. ASSUME NEW b \in Blocks \ {Genesis}, NEW t, NEW fRequested, ProcessNewBlock(t, b, fRequested)
        PROVE  ChainInv'
    BY <1>0, <2>2, AcceptBlockStep, Zenon DEF ProcessNewBlock
  <2> QED
    BY <1>0, <1>3, <2>1, <2>2, HeaderStep, RejectHeaderStep, Zenon DEF Network
<1>4. CASE Activation
  <2>1. ASSUME ImportActivate PROVE ChainInv'
    BY <1>0, <1>1, <2>1, Frame, Zenon DEF ImportActivate
  <2>2. ASSUME NEW t, ABCEnter(t) PROVE ChainInv'
    BY <1>0, <1>1, <2>2, Frame, Zenon DEF ABCEnter
  <2>3. ASSUME ABCLock PROVE ChainInv'
    BY <1>0, <1>1, <2>3, Frame, Zenon DEF ABCLock
  <2>4. ASSUME ABCBreak PROVE ChainInv'
    <3>1. PICK m \in {NoBlock, chainTip} :
            FoundMostWork(m) /\ pindexMostWork' \in {NoBlock, m}
      BY <2>4, Zenon DEF ABCBreak, ABCUnlock, ABCLeave
    <3>2. m # NoBlock => m \in linked /\ Anc[m] \cap Failed = {}
      BY <3>1, FoundOk, Zenon DEF ChainInv, TypeInv, TypeOK
    <3> QED
      BY <1>0, <2>4, <3>1, <3>2, Frame, Zenon DEF ABCBreak
  <2>5. ASSUME ABCStep PROVE ChainInv'
    <3>1. pindexMostWork' \in linked /\ Anc[pindexMostWork'] \cap Failed = {}
      BY <2>5, FoundOk, Zenon DEF ABCStep
    <3> QED
      BY <1>0, <2>5, <3>1, Frame, Zenon DEF ABCStep
  <2>6. ASSUME ABCStepEnd PROVE ChainInv'
    <3>1. pindexMostWork' = pindexMostWork
      BY <2>6, Zenon DEF ABCStepEnd, AfterStep, ABCUnlock
    <3> QED
      BY <1>0, <1>1, <2>6, <3>1, Frame, Zenon DEF ABCStepEnd
  <2>7. ASSUME ABCReturn PROVE ChainInv'
    <3>1. PICK mode \in Modes : FlushStateToDisk(mode, setDirtyBlockIndex)
      BY <2>7, EnvironmentAssumed, Zenon DEF ABCReturn
    <3>2. pindexMostWork' = NoBlock /\ UNCHANGED <<indexVars, stateVars>>
      BY <2>7, Zenon DEF ABCReturn, ABCLeave
    <3> QED
      BY <1>0, <3>1, <3>2, PlainFlushStep, Zenon
  <2>8. ASSUME NEW b \in Blocks, ConnectTipError(b) PROVE ChainInv'
    <3>1. pindexMostWork' = NoBlock
      BY <2>8, Zenon DEF ConnectTipError, ABCLeave
    <3> QED
      BY <1>0, <2>8, <3>1, Frame, Zenon DEF ConnectTipError
  <2> QED
    BY <1>0, <1>4, <2>1, <2>2, <2>3, <2>4, <2>5, <2>6, <2>7, <2>8, PruneStep, DisconnectStep,
       ConnectStep, ConnectInvalidStep, ConnectCorruptStep, Zenon DEF Activation
<1>5. CASE Operator
  BY <1>0, <1>5, InvalidateStep, ResetStep, PreciousStep, Zenon DEF Operator
<1>6. CASE Flush
  <2>1. PICK mode \in Modes : FlushStateToDisk(mode, setDirtyBlockIndex)
    BY <1>6, EnvironmentAssumed, Zenon DEF Flush
  <2>2. pindexMostWork' = pindexMostWork /\ UNCHANGED <<indexVars, stateVars>>
    BY <1>6, Zenon DEF Flush
  <2> QED
    BY <1>0, <2>1, <2>2, PlainFlushStep, Zenon
<1>7. CASE Restart
  BY <1>0, <1>7, RestartStep, Zenon
<1> QED
  BY <1>2, <1>3, <1>4, <1>5, <1>6, <1>7, Zenon DEF Next

(* The inductive invariant holds of every behaviour in which                *)
(* invalidateblock waits for running activations.                           *)
LEMMA ChainInvariant == InvalidateWaits => (Spec => []ChainInv)
<1> SUFFICES ASSUME InvalidateWaits PROVE Spec => []ChainInv
  BY Zenon
<1>1. ChainInv /\ [Next]_vars => ChainInv'
  BY ChainStep, Zenon
<1> QED
  BY <1>1, ChainInit, PTL DEF Spec

(* Every block of the active chain is indexed, received and went through    *)
(* ConnectBlock, also right after a restart that found the two databases at *)
(* different points in time.                                                *)
THEOREM ActiveChainSound == InvalidateWaits => (Spec => []ActiveChainConnected)
<1>1. ChainInv => ActiveChainConnected
  BY Zenon DEF ChainInv
<1> QED
  BY <1>1, ChainInvariant, PTL

(* A block is raised to BLOCK_VALID_SCRIPTS only on a chain of blocks that  *)
(* already are.                                                             *)
THEOREM ScriptsSound == InvalidateWaits => (Spec => []ScriptsValidClosed)
<1>1. ChainInv => ScriptsValidClosed
  BY Zenon DEF ChainInv, IndexInv
<1> QED
  BY <1>1, ChainInvariant, PTL

(* At every moment the process may be killed, the best block of the coins   *)
(* database heads a chain that the block-index database has in full.        *)
THEOREM DiskSound == InvalidateWaits => (Spec => []DiskChainConnected)
<1>1. ChainInv => DiskChainConnected
  BY Zenon DEF ChainInv, DiskInv
<1> QED
  BY <1>1, ChainInvariant, PTL

(* nChainTx is set only once all data is there, and every member of         *)
(* g_failed_blocks carries BLOCK_FAILED_VALID (the assertion of             *)
(* AcceptBlockHeader).                                                      *)
THEOREM IndexSound == InvalidateWaits => (Spec => [](LinkedHaveData /\ FailedBlocksMarked))
<1>1. ChainInv => LinkedHaveData /\ FailedBlocksMarked
  BY Zenon DEF ChainInv, IndexInv, FailInv
<1> QED
  BY <1>1, ChainInvariant, PTL
-----------------------------------------------------------------------------
(* Failure marks and linking. *)

(* Initially nothing is marked.                                             *)
LEMMA FateInit == Init => FateInv
<1> SUFFICES ASSUME Init PROVE FateInv
  BY Zenon
<1>1. /\ failedValid = {} /\ failedChild = {} /\ received = {Genesis} /\ linked = {Genesis}
      /\ mapBlocksUnlinked = {} /\ setBlockIndexCandidates = {Genesis}
      /\ disk.failedValid = {} /\ disk.failedChild = {}
  BY Zenon DEF Init
<1>2. Failed = {}
  BY <1>1, Zenon DEF Failed
<1> QED
  BY <1>1, <1>2, Zenon DEF FateInv, StartInv, Explained, MaskInv, MarksLag, LinkInv

(* Every step keeps the three invariants.                                   *)
LEMMA FateStep == InvalidateWaits => (ChainInv /\ FateInv /\ [Next]_vars => FateInv')
<1> SUFFICES ASSUME InvalidateWaits, ChainInv, FateInv, [Next]_vars PROVE FateInv'
  BY Zenon
<1>0. ChainInv'
  BY ChainStep, Zenon
<1>1. Genesis \in setBlockIndexCandidates /\ (Checked => Active \cap Failed = {})
  BY Zenon DEF FateInv, StartInv
<1>2. ASSUME chainTip \in Anc[pindexMostWork], pindexMostWork # NoBlock
      PROVE  Active \cap Failed = {}
  BY <1>2, AncTransitive, Zenon DEF ChainInv, FailInv, TypeInv, TypeOK, Active
<1>3. pc = "step" => pindexMostWork # NoBlock
  BY Zenon DEF ChainInv, TypeInv, PcInv
<1> USE DEF indexVars, stateVars, diskVars, localVars, abcVars, boundVars
<1>4. CASE UNCHANGED vars
  BY <1>1, <1>4, FateFrame, Zenon DEF vars, Checked
<1>5. CASE Network
  <2>1. ASSUME NEW b \in Blocks \ {Genesis}, ProcessNewBlockHeaders(b) PROVE FateInv'
    BY <1>1, <2>1, FateFrame, Zenon DEF ProcessNewBlockHeaders, AddToBlockIndex, DirtyWithHeader, Checked
  <2>2. ASSUME NEW b \in Blocks \ {Genesis}, LoadExternalBlock(b) PROVE FateInv'
    BY <1>0, <2>2, FateAccept, Zenon DEF LoadExternalBlock
  <2>3. ASSUME NEW b \in Blocks \ {Genesis}, NEW t, NEW fRequested, ProcessNewBlock(t, b, fRequested)
        PROVE  FateInv'
    BY <1>0, <2>3, FateAccept, Zenon DEF ProcessNewBlock
  <2> QED
    BY <1>5, <2>1, <2>2, <2>3, FateReject, Zenon DEF Network
<1>6. CASE Activation
  <2>1. ASSUME ImportActivate PROVE FateInv'
    BY <1>1, <2>1, FateFrame, Zenon DEF ImportActivate, Checked
  <2>2. ASSUME NEW t, ABCEnter(t) PROVE FateInv'
    BY <1>1, <2>2, FateFrame, Zenon DEF ABCEnter, Checked
  <2>3. ASSUME ABCLock PROVE FateInv'
    BY <1>1, <2>3, FateFrame, Zenon DEF ABCLock, Checked
  <2>4. ASSUME ABCBreak PROVE FateInv'
    <3>1. PICK m \in {NoBlock, chainTip} : FoundMostWork(m)
      BY <2>4, Zenon DEF ABCBreak
    <3>2. m \in Blocks /\ m = chainTip
      BY <1>1, <3>1, TreeAssumed, ZenonT(40)
      DEF TreeAssumption, FoundMostWork, IsBestCandidate, ChainInv, TypeInv, TypeOK
    <3>3. Active \cap Failed = {}
      BY <3>1, <3>2, FoundOk, Zenon DEF Active
    <3> QED
      BY <1>1, <2>4, <3>3, FateFrame, Zenon DEF ABCBreak
  <2>5. ASSUME ABCStep PROVE FateInv'
    BY <1>1, <2>5, FateFrame, Zenon DEF ABCStep, Checked
  <2>6. ASSUME ABCStepEnd PROVE FateInv'
    BY <1>1, <1>2, <1>3, <2>6, FateFrame, Zenon DEF ABCStepEnd, StepDone
  <2>7. ASSUME ABCReturn PROVE FateInv'
    <3>1. PICK mode \in Modes : FlushStateToDisk(mode, setDirtyBlockIndex)
      BY <2>7, EnvironmentAssumed, Zenon DEF ABCReturn
    <3>2. Active' \cap Failed' = {}
      BY <1>1, <2>7, Zenon DEF ABCReturn, Checked, Active, Failed
    <3>3. UNCHANGED <<indexVars, stateVars>>
      BY <2>7, Zenon DEF ABCReturn
    <3> QED
      BY <3>1, <3>2, <3>3, FateFlush, Zenon
  <2>8. ASSUME NEW b \in Blocks, ConnectTipCorrupt(b) PROVE FateInv'
    <3>1. pc = "step" /\ chainTip \in Anc[pindexMostWork]
      BY <2>8, Zenon DEF ConnectTipCorrupt, NextToConnect, Connecting
    <3> QED
      BY <1>1, <1>2, <1>3, <2>8, <3>1, FateFrame, Zenon DEF ConnectTipCorrupt
  <2>9. ASSUME NEW b \in Blocks, ConnectTipError(b) PROVE FateInv'
    <3>1. pc = "step" /\ chainTip \in Anc[pindexMostWork]
      BY <2>9, Zenon DEF ConnectTipError, NextToConnect, Connecting
    <3> QED
      BY <1>1, <1>2, <1>3, <2>9, <3>1, FateFrame, Zenon DEF ConnectTipError
  <2> QED
    BY <1>0, <1>6, <2>1, <2>2, <2>3, <2>4, <2>5, <2>6, <2>7, <2>8, <2>9, FatePrune, FateDisconnect,
       FateConnect, FateConnectInvalid, Zenon DEF Activation
<1>7. CASE Operator
  BY <1>0, <1>7, FateInvalidate, FateReset, FatePrecious, Zenon DEF Operator
<1>8. CASE Flush
  <2>1. PICK mode \in Modes : FlushStateToDisk(mode, setDirtyBlockIndex)
    BY <1>8, EnvironmentAssumed, Zenon DEF Flush
  <2>2. UNCHANGED <<indexVars, stateVars, pc, fImporting>>
    BY <1>8, Zenon DEF Flush
  <2>3. Checked' => Active' \cap Failed' = {}
    BY <1>1, <2>2, Zenon DEF Checked, Active, Failed
  <2> QED
    BY <2>1, <2>2, <2>3, FateFlush, Zenon
<1>9. CASE Restart
  BY <1>0, <1>9, FateRestart, Zenon
<1> QED
  BY <1>4, <1>5, <1>6, <1>7, <1>8, <1>9, Zenon DEF Next

(* They hold of every behaviour in which invalidateblock waits for running  *)
(* activations.                                                             *)
LEMMA FateInvariant == InvalidateWaits => (Spec => [](ChainInv /\ FateInv))
<1> SUFFICES ASSUME InvalidateWaits PROVE Spec => [](ChainInv /\ FateInv)
  BY Zenon
<1>1. ChainInv /\ FateInv /\ [Next]_vars => (ChainInv /\ FateInv)'
  BY ChainStep, FateStep, Zenon
<1> QED
  BY <1>1, ChainInit, FateInit, PTL DEF Spec

(* FindMostWorkChain's premise: once start-up is over, no block of the      *)
(* active chain is marked failed when cs_main is free, even if the process  *)
(* was killed between writing a mark and leaving the chain it is on.        *)
THEOREM ActiveChainUnfailed == InvalidateWaits => (Spec => []ActiveChainNotFailed)
<1>1. FateInv => ActiveChainNotFailed
  BY Zenon DEF FateInv, StartInv, Checked, ActiveChainNotFailed, MainFree
<1> QED
  BY <1>1, FateInvariant, PTL

(* CheckBlockIndex: "The failed mask cannot be set for blocks without       *)
(* invalid parents", through marking, flushes and restarts, as long as      *)
(* reconsiderblock is not used.                                             *)
THEOREM FailuresJustified ==
  InvalidateWaits /\ NoReconsider => (Spec => []FailedMaskJustified)
<1> SUFFICES ASSUME InvalidateWaits, NoReconsider PROVE Spec => []FailedMaskJustified
  BY Zenon
<1>1. FateInv => FailedMaskJustified
  BY Zenon DEF FateInv, MaskInv, MarkedFrom, FailedMaskJustified
<1> QED
  BY <1>1, FateInvariant, PTL

(* nChainTx and mapBlocksUnlinked are exact in whatever order blocks and    *)
(* headers arrive and whenever the process restarts, as long as the         *)
(* operator does not mark blocks.                                           *)
THEOREM LinkingSound == NoCommands => (Spec => []LinkingExact)
<1> SUFFICES ASSUME NoCommands PROVE Spec => []LinkingExact
  BY Zenon
<1>1. ASSUME ChainInv, FateInv PROVE LinkingExact
  <2>1. MaskInv /\ LinkInv /\ LinkedHaveData /\ received \subseteq Blocks
    BY <1>1, Zenon DEF FateInv, NoCommands, ChainInv, IndexInv, TypeInv, TypeOK
  <2>2. ASSUME NEW b \in received \ linked, Anc[b] \cap failedValid = {}
        PROVE  b \in mapBlocksUnlinked
    <3>1. \A y \in Failed : Anc[y] \cap failedValid # {}
      BY <2>1, Zenon DEF MaskInv, MarkedFrom
    <3>2. \A y \in Anc[b] : y \notin Failed
      BY <2>1, <2>2, <3>1, AncTransitive, Zenon
    <3> QED
      BY <2>1, <3>2, Zenon DEF LinkInv
  <2> QED
    BY <2>1, <2>2, Zenon DEF LinkInv, LinkingExact
<1>2. InvalidateWaits
  BY Zenon DEF NoCommands, InvalidateWaits
<1> QED
  BY <1>1, <1>2, FateInvariant, PTL
=============================================================================
