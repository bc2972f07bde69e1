------------------------------- MODULE Coins -------------------------------
(***************************************************************************)
(* The unspent outputs: src/src/coins.cpp (CCoinsViewCache), the coins     *)
(* database of src/src/txdb.cpp, and how validation.cpp connects,          *)
(* disconnects and replays blocks on them.                                 *)
(*                                                                         *)
(* A coin is the height of the block that created it, or Spent.  A cache   *)
(* holds an entry for some outpoints and reads the others from its base.   *)
(* pcoinsTip (cache) has the database as base; connecting or disconnecting *)
(* a block works on a second cache whose base is pcoinsTip.                *)
(*                                                                         *)
(* No operation on one outpoint depends on another, and within a block an  *)
(* outpoint is created before it is spent: so the effect of a block is     *)
(* given outpoint by outpoint.  Blocks are valid here (ChainState models   *)
(* the choice of blocks and the invalid ones); outputs that cannot be      *)
(* spent are never added and are left out.                                 *)
(*                                                                         *)
(* A definition D_x placed before D is D with a plausible defect: it is    *)
(* not part of the specification, and shows which property would notice.   *)
(***************************************************************************)
EXTENDS UtxoChain

CONSTANT MaxCrashes    \* bound on crashes

ASSUME CrashBound == MaxCrashes \in Nat
-----------------------------------------------------------------------------
VARIABLES
  mode,        \* "run", "flush" (in pcoinsTip->Flush), "down", "rolling" (in the loops of
               \* ReplayBlocks), "replay" (in the Flush at its end)
  cache,       \* cacheCoins of pcoinsTip, or of ReplayBlocks: an entry per outpoint
  hashBlock,   \* the best block of that cache
  pindex,      \* rolling: pindexOld, then the block rolled forward last
  undo,        \* the undo data: [block -> [outpoint it spends -> coin]]
  left,        \* the entries that BatchWrite has not written yet
  db,          \* the database: [coins, best, heads, undo]
  error,       \* an assertion failed, an exception was thrown or a block was unclean
  crashes

vars == <<mode, cache, hashBlock, pindex, undo, left, db, error, crashes>>

(* An entry, and what went wrong with it: an exception or assertion         *)
(* (thrown), or data that is not what a disconnected block left (unclean).  *)
Absent == [cached |-> FALSE, coin |-> Spent, dirty |-> FALSE, fresh |-> FALSE,
           thrown |-> FALSE, unclean |-> FALSE]
NoCache == [o \in Outpoints |-> Absent]

(* GetCoin: what an entry over a base with the coin below shows. *)
Coin(e, below) == IF e.cached THEN e.coin ELSE below
View(c, base) == [o \in Outpoints |-> Coin(c[o], base[o])]
-----------------------------------------------------------------------------
(* The operations of CCoinsViewCache on an entry e; below is the coin that  *)
(* its base shows.                                                          *)

(* FetchCoin: an unspent coin of the base is copied into the cache. *)
FetchCoin(e, below) ==
  IF e.cached \/ below = Spent THEN e ELSE [e EXCEPT !.cached = TRUE, !.coin = below]

(* AddCoin *)
Fresh(e, overwrite) == ~ overwrite /\ ~ e.dirty

AddCoin(e, coin, overwrite) ==
  [e EXCEPT !.cached = TRUE, !.coin = coin, !.dirty = TRUE,
            !.fresh = @ \/ Fresh(e, overwrite),
            !.thrown = @ \/ (~ overwrite /\ e.coin # Spent)]

(* SpendCoin: a fresh entry is erased, another one stays, as spent. *)
Erasable(e) == e.fresh

SpendCoin(e, below) ==
  LET f == FetchCoin(e, below)
  IN IF ~ f.cached THEN f
     ELSE IF Erasable(f) THEN [Absent EXCEPT !.thrown = e.thrown, !.unclean = e.unclean]
     ELSE [f EXCEPT !.coin = Spent, !.dirty = TRUE]

(* BatchWrite of CCoinsViewCache: a dirty entry e goes to the parent's p. *)
BatchFresh(e, p) == IF p.cached THEN p.fresh ELSE e.fresh

BatchWrite(e, p) ==
  IF ~ e.cached \/ ~ e.dirty THEN p
  ELSE IF e.coin = Spent /\ BatchFresh(e, p) THEN Absent
  ELSE [Absent EXCEPT !.cached = TRUE, !.coin = e.coin, !.dirty = TRUE, !.fresh = BatchFresh(e, p)]

FreshMisapplied(e, p) == e.cached /\ e.dirty /\ e.fresh /\ p.coin # Spent
-----------------------------------------------------------------------------
(* The effect of block b on an entry e for o over a base showing below.     *)

(* ConnectBlock: UpdateCoins and AddCoins. *)
Added(b, o) == IF o \in Creates[b] THEN AddCoin(Absent, Height[b], o \in Coinbase[b]) ELSE Absent

ConnectBlock(b, o, below) ==
  IF o \notin Spends[b] THEN Added(b, o)
  ELSE [SpendCoin(Added(b, o), below) EXCEPT !.thrown = @ \/ Coin(Added(b, o), below) = Spent]

(* The undo data it writes, unless the block has some already. *)
BlockUndo(b, base) == [o \in Spends[b] |-> Coin(Added(b, o), base[o])]
WriteUndoDataForBlock(b, base) ==
  [x \in DOMAIN undo \cup {b} |-> IF x \in DOMAIN undo THEN undo[x] ELSE BlockUndo(b, base)]

(* ApplyTxInUndo *)
ApplyTxInUndo(e, coin, below) ==
  LET have == Coin(e, below) # Spent
  IN AddCoin([FetchCoin(e, below) EXCEPT !.unclean = @ \/ have], coin, have)

(* DisconnectBlock: the last transaction first, so an outpoint that b       *)
(* creates and spends is restored and then removed.                         *)
Restored(e, b, o, coins, below) ==
  IF o \in Spends[b] THEN ApplyTxInUndo(e, coins[o], below) ELSE e

DisconnectBlock(e, b, o, coins, below) ==
  LET r == Restored(e, b, o, coins, below)
  IN IF o \notin Creates[b] THEN r
     ELSE [SpendCoin(r, below) EXCEPT !.unclean = @ \/ Coin(r, below) # Height[b]]

(* RollforwardBlock: spend what is there, and look before adding. *)
Overwrites_never(e, below) == FALSE
Overwrites(e, below) == Coin(e, below) # Spent

RollforwardBlock(e, b, o, below) ==
  LET a == IF o \in Creates[b]
             THEN AddCoin(FetchCoin(e, below), Height[b], Overwrites(e, below)) ELSE e
  IN IF o \in Spends[b] THEN SpendCoin(a, below) ELSE a
-----------------------------------------------------------------------------
Touched(b) == Creates[b] \cup Spends[b]

(* The temporary cache w of block b is flushed into pcoinsTip, which has    *)
(* cached what w read from it, and best becomes its best block.             *)
FlushInto(w, b, best) ==
  LET parent == [o \in Outpoints |-> IF o \in Touched(b) THEN FetchCoin(cache[o], db.coins[o])
                                     ELSE cache[o]]
  IN /\ cache' = [o \in Outpoints |-> BatchWrite(w[o], parent[o])]
     /\ hashBlock' = best
     /\ error' = (error \/ \E o \in Outpoints :
                    w[o].thrown \/ w[o].unclean \/ FreshMisapplied(w[o], parent[o]))

(* ConnectTip *)
ConnectTip(b) ==
  /\ mode = "run" /\ Parent[b] = hashBlock
  /\ LET base == View(cache, db.coins)
     IN /\ FlushInto([o \in Outpoints |-> ConnectBlock(b, o, base[o])], b, b)
        /\ undo' = WriteUndoDataForBlock(b, base)
  /\ UNCHANGED <<mode, pindex, left, db, crashes>>

(* DisconnectTip *)
DisconnectTip ==
  /\ mode = "run" /\ hashBlock \notin {NoBlock, Genesis}
  /\ LET base == View(cache, db.coins)
         b    == hashBlock
     IN FlushInto([o \in Outpoints |-> DisconnectBlock(Absent, b, o, undo[b], base[o])], b, Parent[b])
  /\ UNCHANGED <<mode, pindex, undo, left, db, crashes>>

(* A read through pcoinsTip, by the memory pool or the RPC server. *)
AccessCoin(o) ==
  /\ mode = "run"
  /\ cache' = [cache EXCEPT ![o] = FetchCoin(@, db.coins[o])]
  /\ UNCHANGED <<mode, hashBlock, pindex, undo, left, db, error, crashes>>

(* Uncache: an entry without flags may be dropped. *)
Droppable(e) == e.cached /\ ~ e.dirty /\ ~ e.fresh

Uncache(o) ==
  /\ mode = "run" /\ Droppable(cache[o])
  /\ cache' = [cache EXCEPT ![o] = Absent]
  /\ UNCHANGED <<mode, hashBlock, pindex, undo, left, db, error, crashes>>
-----------------------------------------------------------------------------
(* FlushStateToDisk: undo data first, then pcoinsTip->Flush(). *)
BeginFlush ==
  /\ mode = "run" /\ hashBlock # NoBlock
  /\ mode' = "flush" /\ left' = {o \in Outpoints : cache[o].cached}
  /\ db' = [db EXCEPT !.undo = undo]
  /\ UNCHANGED <<cache, hashBlock, pindex, undo, error, crashes>>

(* The tip the database leaves: while replaying, the one recorded. *)
OldTip == IF db.best = NoBlock /\ db.heads # <<>> THEN db.heads[2] ELSE db.best

(* The coins of the database once the entries S have been written. *)
Stored(S) ==
  [o \in Outpoints |-> IF o \in S /\ cache[o].dirty THEN cache[o].coin ELSE db.coins[o]]

(* CCoinsViewDB::BatchWrite writes a partial batch, which erases            *)
(* DB_BEST_BLOCK and writes DB_HEAD_BLOCKS.                                 *)
PartialHeads == <<hashBlock, OldTip>>

WritePartialBatch(S) ==
  /\ mode \in {"flush", "replay"}
  /\ S # {} /\ S \subseteq left
  /\ left' = left \ S
  /\ db' = [db EXCEPT !.coins = Stored(S), !.best = NoBlock, !.heads = PartialHeads]
  /\ error' = (error \/ (db.best = NoBlock /\ db.heads # <<>> /\ db.heads[1] # hashBlock))
  /\ UNCHANGED <<mode, cache, hashBlock, pindex, undo, crashes>>

(* The last batch; then the cache is cleared. *)
WriteFinalBatch ==
  /\ mode \in {"flush", "replay"}
  /\ db' = [db EXCEPT !.coins = Stored(left), !.best = hashBlock, !.heads = <<>>]
  /\ mode' = "run" /\ cache' = NoCache /\ left' = {}
  /\ UNCHANGED <<hashBlock, pindex, undo, error, crashes>>

Crash ==
  /\ mode # "down" /\ crashes < MaxCrashes
  /\ crashes' = crashes + 1
  /\ mode' = "down" /\ cache' = NoCache /\ hashBlock' = NoBlock /\ left' = {}
  /\ pindex' = NoBlock /\ undo' = db.undo
  /\ UNCHANGED <<db, error>>
-----------------------------------------------------------------------------
(* ReplayBlocks: the database lies between the coins of heads[2] and those  *)
(* of heads[1].  The genesis block has no coins, so a first flush is        *)
(* replayed from there.                                                     *)
ReplayBlocks ==
  /\ mode = "down" /\ db.heads # <<>>
  /\ mode' = "rolling" /\ pindex' = IF db.heads[2] = NoBlock THEN Genesis ELSE db.heads[2]
  /\ UNCHANGED <<cache, hashBlock, undo, left, db, error, crashes>>

(* One block of the loops is done; unclean blocks are expected here. *)
Rolled(w, b) ==
  /\ mode = "rolling" /\ pindex' = b
  /\ cache' = [o \in Outpoints |-> [w[o] EXCEPT !.unclean = FALSE]]
  /\ error' = (error \/ \E o \in Outpoints : w[o].thrown)
  /\ UNCHANGED <<mode, hashBlock, undo, left, db, crashes>>

(* Back along the old branch until the fork, the last block on both. *)
RolledBack_skipped(o) == cache[o]
RolledBack(o) == DisconnectBlock(cache[o], pindex, o, db.undo[pindex], db.coins[o])

RollBack ==
  /\ mode = "rolling" /\ pindex \notin Anc[db.heads[1]]
  /\ Rolled([o \in Outpoints |-> RolledBack(o)], Parent[pindex])

(* Forward to the new tip. *)
RollForward(b) ==
  /\ mode = "rolling" /\ b \in Anc[db.heads[1]] /\ Parent[b] = pindex
  /\ Rolled([o \in Outpoints |-> RollforwardBlock(cache[o], b, o, db.coins[o])], b)

(* There, the cache is flushed. *)
FlushReplayed ==
  /\ mode = "rolling" /\ pindex = db.heads[1]
  /\ mode' = "replay" /\ hashBlock' = pindex /\ pindex' = NoBlock
  /\ left' = {o \in Outpoints : cache[o].cached}
  /\ UNCHANGED <<cache, undo, db, error, crashes>>

(* The start with a consistent database: the cache is created. *)
Start ==
  /\ mode = "down" /\ db.heads = <<>>
  /\ mode' = "run" /\ hashBlock' = db.best
  /\ UNCHANGED <<cache, pindex, undo, left, db, error, crashes>>
-----------------------------------------------------------------------------
Init ==
  /\ mode = "run" /\ cache = NoCache /\ hashBlock = NoBlock /\ left = {}
  /\ pindex = NoBlock /\ undo = <<>>
  /\ db = [coins |-> UTXO(NoBlock), best |-> NoBlock, heads |-> <<>>, undo |-> undo]
  /\ error = FALSE /\ crashes = 0

Next ==
  \/ \E b \in Blocks : ConnectTip(b)
  \/ DisconnectTip
  \/ \E o \in Outpoints : AccessCoin(o) \/ Uncache(o)
  \/ BeginFlush
  \/ \E S \in SUBSET left : WritePartialBatch(S)
  \/ WriteFinalBatch
  \/ Crash
  \/ Start
  \/ ReplayBlocks
  \/ RollBack
  \/ \E b \in Blocks : RollForward(b)
  \/ FlushReplayed

Spec == Init /\ [][Next]_vars
-----------------------------------------------------------------------------
(* Properties. *)

(* The type of every variable. *)
TypeOK ==
  /\ mode \in {"run", "flush", "down", "rolling", "replay"}
  /\ cache \in [Outpoints -> [cached : BOOLEAN, coin : Nat \cup {Spent}, dirty : BOOLEAN,
                             fresh : BOOLEAN, thrown : BOOLEAN, unclean : BOOLEAN]]
  /\ hashBlock \in Blocks \cup {NoBlock} /\ pindex \in Blocks \cup {NoBlock}
  /\ left \subseteq Outpoints
  /\ db.coins \in [Outpoints -> Nat \cup {Spent}]
  /\ db.best \in Blocks \cup {NoBlock}
  /\ db.heads = <<>> \/ db.heads \in Blocks \X (Blocks \cup {NoBlock})
  /\ DOMAIN undo \subseteq Blocks /\ DOMAIN db.undo \subseteq Blocks
  /\ error \in BOOLEAN /\ crashes \in Nat

(* coins.h: a fresh entry is one that "the parent view does not have", and  *)
(* one that is not dirty does not differ from it.                           *)
FlagsSound ==
  mode = "run" =>
    \A o \in Outpoints : cache[o].cached =>
      /\ cache[o].fresh => db.coins[o] = Spent
      /\ cache[o].dirty \/ cache[o].coin = db.coins[o]

(* No exception of AddCoin or BatchWrite ("Adding new coin that replaces    *)
(* non-pruned entry", "FRESH flag misapplied"), no failed assertion, and    *)
(* every disconnected block is clean, also after crashes and replays.       *)
NoError == ~ error

(* The database claims to be the coins of a block only when it is. *)
DatabaseExact == db.best # NoBlock => db.coins = UTXO(db.best) /\ db.heads = <<>>

(* Cache, database and replay implement one atomic set of coins: reads,     *)
(* partial batches, evictions and crashes do not show.                      *)
IsUp == mode \in {"run", "flush"}
Durable == IF db.heads = <<>> THEN db.best ELSE db.heads[1]
Abstract == INSTANCE UtxoSet WITH up <- IsUp, tip <- hashBlock,
              coins <- View(cache, db.coins), durable <- Durable
ImplementsUtxoSet == Abstract!SetSpec
=============================================================================
