---------------------------- MODULE MCChainState ----------------------------
(* Block trees and environments for model checking ChainState.             *)
EXTENDS ChainState, Sequences

(* Ancestors and heights of a tree given by its parent function. *)
AncOf(parent) ==
  LET anc[b \in DOMAIN parent] ==
        IF parent[b] = NoBlock THEN {b} ELSE {b} \cup anc[parent[b]]
  IN [b \in DOMAIN parent |-> anc[b]]
HeightOf(parent) == [b \in DOMAIN parent |-> Cardinality(AncOf(parent)[b]) - 1]
NoKernelIn(parent) == [b \in DOMAIN parent |-> NoBlock]

(* The place of each block in an order of heap addresses. *)
Addresses(order) == [b \in {order[i] : i \in DOMAIN order} |->
                       CHOOSE i \in DOMAIN order : order[i] = b]

(* Two branches; b overtakes a at height 3.                                *)
(*    g - a1 - a2                                                          *)
(*      \ b1 - b2 - b3                                                     *)
Pair == [g |-> NoBlock, a1 |-> "g", a2 |-> "a1", b1 |-> "g", b2 |-> "b1", b3 |-> "b2"]
PairBlocks == DOMAIN Pair
PairAnc == AncOf(Pair)
PairHeight == HeightOf(Pair)
PairNoKernel == NoKernelIn(Pair)
PairAddresses == {Addresses(<<"g", "a1", "a2", "b1", "b2", "b3">>)}

(* b3 stakes an output of b1. *)
PairSideKernel == [PairNoKernel EXCEPT !["b3"] = "b1"]

(* b2 stakes an output of the other branch. *)
PairCrossKernel == [PairNoKernel EXCEPT !["b2"] = "a1"]

(* Two branches; the blocks of b stake outputs of the block k below them. *)
Staked == [g |-> NoBlock, k |-> "g", a1 |-> "k", a2 |-> "a1", b1 |-> "k", b2 |-> "b1", b3 |-> "b2",
           b4 |-> "b3"]
StakedBlocks == DOMAIN Staked
StakedAnc == AncOf(Staked)
StakedHeight == HeightOf(Staked)
StakedKernel == [b \in StakedBlocks |-> IF b \in {"b1", "b2", "b3", "b4"} THEN "k" ELSE NoBlock]
StakedAddresses == {Addresses(<<"g", "k", "a1", "a2", "b1", "b2", "b3", "b4">>)}

(* Two blocks of equal trust on the genesis block, one of them extended. *)
Twig == [g |-> NoBlock, a1 |-> "g", b1 |-> "g", b2 |-> "b1"]
TwigBlocks == DOMAIN Twig
TwigAnc == AncOf(Twig)
TwigHeight == HeightOf(Twig)
TwigNoKernel == NoKernelIn(Twig)
TwigAddresses == {Addresses(<<"g", "a1", "b1", "b2">>), Addresses(<<"b2", "b1", "a1", "g">>)}
=============================================================================
