------------------------------ MODULE UtxoSet ------------------------------
(***************************************************************************)
(* What the coins cache, the coins database and ReplayBlocks together      *)
(* promise: a set of unspent outputs that always belongs to one block, can *)
(* be moved to a neighbouring block, and after a crash belongs to the last *)
(* block made durable.                                                     *)
(***************************************************************************)
EXTENDS UtxoChain

VARIABLES
  up,        \* the node is running
  tip,       \* the block whose coins are shown
  coins,     \* the coins shown
  durable    \* the block whose coins a restart brings back

setVars == <<up, tip, coins, durable>>

SetInit == up = TRUE /\ tip = NoBlock /\ coins = UTXO(NoBlock) /\ durable = NoBlock

Connect(b) == up /\ Parent[b] = tip /\ tip' = b /\ coins' = UTXO(b) /\ UNCHANGED <<up, durable>>

Disconnect ==
  /\ up /\ tip \in Blocks \ {Genesis}
  /\ tip' = Parent[tip] /\ coins' = UTXO(Parent[tip])
  /\ UNCHANGED <<up, durable>>

Persist == up /\ durable' = tip /\ UNCHANGED <<up, tip, coins>>

(* While the node is down, nothing is promised about what it would show. *)
Crash == up /\ ~ up' /\ UNCHANGED durable

Down == ~ up /\ ~ up' /\ UNCHANGED durable

Recover == ~ up /\ up' /\ tip' = durable /\ coins' = UTXO(durable) /\ UNCHANGED durable

SetNext == Persist \/ (\E b \in Blocks : Connect(b)) \/ Disconnect \/ Crash \/ Down \/ Recover

SetSpec == SetInit /\ [][SetNext]_setVars
=============================================================================
