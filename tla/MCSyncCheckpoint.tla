-------------------------- MODULE MCSyncCheckpoint --------------------------
(***************************************************************************)
(* What nodes sign and relay beside blocks and transactions, for model     *)
(* checking: synchronized checkpoints and alerts.  The two share no state, *)
(* so driven says at the start which of them a behaviour is about.         *)
(***************************************************************************)
EXTENDS SyncCheckpoint, Alerts

CONSTANTS M, s1
VARIABLE driven

AncOf(parent) ==
  LET anc[b \in DOMAIN parent] ==
        IF parent[b] = NoBlock THEN {b} ELSE {b} \cup anc[parent[b]]
  IN [b \in DOMAIN parent |-> anc[b]]
HeightOf(parent) == [b \in DOMAIN parent |-> Cardinality(AncOf(parent)[b]) - 1]

(* A hardened checkpoint h below a fork.                                   *)
(*    g - h - a                                                            *)
(*          \ b - c                                                        *)
Fork == [g |-> NoBlock, h |-> "g", a |-> "h", b |-> "h", c |-> "b"]
ForkBlocks == DOMAIN Fork
ForkAnc == AncOf(Fork)
ForkHeight == HeightOf(Fork)

(* Two blocks in a row. *)
Line == [g |-> NoBlock, a |-> "g", b |-> "a"]
LineBlocks == DOMAIN Line
LineAnc == AncOf(Line)
LineHeight == HeightOf(Line)

(* M is the node that opened the connection. *)
MCLinks == {<<M, s1>>}

SignedInit == driven \in {"checkpoints", "alerts"} /\ Init /\ AlertInit

SignedNext ==
  \/ driven = "checkpoints" /\ Next /\ UNCHANGED <<alertVars, driven>>
  \/ driven = "alerts" /\ AlertNext /\ UNCHANGED <<vars, driven>>

SignedSpec == SignedInit /\ [][SignedNext]_<<vars, alertVars, driven>>

(* The checkpoints alone, with fairness. *)
FairCheckpointSpec == driven = "checkpoints" /\ SignedSpec /\ Fairness
=============================================================================
