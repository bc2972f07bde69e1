----------------------------- MODULE UtxoChain -----------------------------
(***************************************************************************)
(* A tree of valid blocks and the outputs they create and spend, and what  *)
(* the set of unspent outputs is after each of them.                       *)
(***************************************************************************)
EXTENDS BlockTree

CONSTANTS
  Outpoints,
  Creates, Spends,   \* Creates[b], Spends[b]: the outpoints that b creates and spends
  Coinbase,          \* Coinbase[b]: those that its coinbase creates
  Spent              \* no coin

(* On one branch, transaction identifiers are unique, an output is spent at *)
(* most once, and not before it is created; the genesis block has none.     *)
ASSUME UtxoBlocks ==
  /\ Spent \notin Nat
  /\ Creates \in [Blocks -> SUBSET Outpoints] /\ Spends \in [Blocks -> SUBSET Outpoints]
  /\ Coinbase \in [Blocks -> SUBSET Outpoints] /\ \A b \in Blocks : Coinbase[b] \subseteq Creates[b]
  /\ Creates[Genesis] = {} /\ Spends[Genesis] = {}
  /\ \A b \in Blocks : \A x, y \in Anc[b] :
       x # y => Creates[x] \cap Creates[y] = {} /\ Spends[x] \cap Spends[y] = {}
  /\ \A b \in Blocks : Spends[b] \subseteq UNION {Creates[x] : x \in Anc[b]}

(* The coins after block b: an outpoint created on the branch of b and not  *)
(* spent on it has the height of the block that created it.                 *)
UTXO(b) ==
  [o \in Outpoints |->
     IF (\E x \in Branch(b) : o \in Creates[x]) /\ (\A x \in Branch(b) : o \notin Spends[x])
       THEN Height[CHOOSE x \in Branch(b) : o \in Creates[x]]
       ELSE Spent]
=============================================================================
