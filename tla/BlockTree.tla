----------------------------- MODULE BlockTree -----------------------------
(***************************************************************************)
(* A tree of blocks: the parent of each, its branch down to the genesis    *)
(* block, and its height.                                                  *)
(***************************************************************************)
EXTENDS Integers

CONSTANTS Blocks, Genesis, NoBlock, Parent, Anc, Height

ASSUME Tree ==
  /\ Genesis \in Blocks /\ NoBlock \notin Blocks
  /\ Parent \in [Blocks -> Blocks \cup {NoBlock}] /\ Parent[Genesis] = NoBlock
  /\ Height \in [Blocks -> Nat] /\ Height[Genesis] = 0
  /\ \A b \in Blocks \ {Genesis} : Height[b] = Height[Parent[b]] + 1
  /\ Anc \in [Blocks -> SUBSET Blocks] /\ Anc[Genesis] = {Genesis}
  /\ \A b \in Blocks \ {Genesis} :
       Parent[b] \in Blocks /\ Anc[b] = {b} \cup Anc[Parent[b]] /\ b \notin Anc[Parent[b]]
  /\ \A b \in Blocks : Genesis \in Anc[b] /\ \A a \in Anc[b] : Anc[a] \subseteq Anc[b]

Branch(b) == IF b = NoBlock THEN {} ELSE Anc[b]
=============================================================================
