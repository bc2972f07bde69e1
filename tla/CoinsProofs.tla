----------------------------- MODULE CoinsProofs -----------------------------
(***************************************************************************)
(* The coins cache, its database and ReplayBlocks implement one atomic set *)
(* of coins: for every tree of blocks, every set of outputs, any number of *)
(* crashes at any point, and partial batches of any entries.               *)
(*                                                                         *)
(* The argument is pointwise.  An entry of a cache is sound over the coin  *)
(* that its base shows (EntryOK); every operation on a cache keeps that    *)
(* and changes what the entry shows as it should.  A block moves the coins *)
(* shown from those of its parent to its own and back (UtxoStep).  While a *)
(* flush or a replay is under way, the coin stored for an outpoint is that *)
(* of the old or that of the new tip; replaying a block that touches the   *)
(* outpoint gives the coin of that block whatever was stored before, and   *)
(* at the new tip the two cases fall together.                             *)
(***************************************************************************)
EXTENDS Coins, TLAPS

Coined == Nat \cup {Spent}
Entries == [cached : BOOLEAN, coin : Coined, dirty : BOOLEAN, fresh : BOOLEAN,
            thrown : BOOLEAN, unclean : BOOLEAN]

(* The entry e is sound over a base that shows below. *)
EntryOK(e, below) ==
  /\ e \in Entries /\ ~ e.thrown /\ ~ e.unclean
  /\ ~ e.cached => e = Absent
  /\ e.cached /\ ~ e.dirty => e.coin = below
  /\ e.fresh => below = Spent
-----------------------------------------------------------------------------
(* The operations of a cache on one entry. *)

(* FetchCoin shows the same coin, and leaves no entry only when there is   *)
(* none to fetch.                                                          *)
LEMMA FetchSound ==
  ASSUME NEW e, NEW below \in Coined, EntryOK(e, below)
  PROVE  /\ EntryOK(FetchCoin(e, below), below)
         /\ Coin(FetchCoin(e, below), below) = Coin(e, below)
         /\ FetchCoin(e, below).cached \/ below = Spent
BY Zenon DEF EntryOK, FetchCoin, Coin, Absent, Entries, Coined

(* SpendCoin leaves no coin. *)
LEMMA SpendSound ==
  ASSUME NEW e, NEW below \in Coined, EntryOK(e, below)
  PROVE  EntryOK(SpendCoin(e, below), below) /\ Coin(SpendCoin(e, below), below) = Spent
<1> DEFINE f == FetchCoin(e, below)
<1>1. EntryOK(f, below) /\ (f.cached \/ below = Spent)
  BY FetchSound, Zenon
<1>2. ~ e.thrown /\ ~ e.unclean
  BY Zenon DEF EntryOK
<1> HIDE DEF f
<1>3. SpendCoin(e, below) = IF ~ f.cached THEN f
        ELSE IF f.fresh THEN [Absent EXCEPT !.thrown = e.thrown, !.unclean = e.unclean]
        ELSE [f EXCEPT !.coin = Spent, !.dirty = TRUE]
  BY Zenon DEF SpendCoin, Erasable, f
<1>4. CASE ~ f.cached
  BY <1>1, <1>3, <1>4, Zenon DEF EntryOK, Coin
<1>5. CASE f.cached /\ f.fresh
  BY <1>1, <1>2, <1>3, <1>5, Zenon DEF EntryOK, Coin, Absent, Entries, Coined
<1>6. CASE f.cached /\ ~ f.fresh
  <2> DEFINE g == [f EXCEPT !.coin = Spent, !.dirty = TRUE]
  <2>1. /\ g \in Entries /\ g.cached /\ g.coin = Spent /\ g.dirty
        /\ g.fresh = f.fresh /\ g.thrown = f.thrown /\ g.unclean = f.unclean
    BY <1>1, <1>6, Zenon DEF EntryOK, Entries, Coined
  <2> HIDE DEF g
  <2>2. EntryOK(g, below) /\ Coin(g, below) = Spent
    BY <1>1, <1>6, <2>1, Zenon DEF EntryOK, Coin
  <2> QED BY <1>3, <1>6, <2>2, Zenon DEF g
<1> QED BY <1>4, <1>5, <1>6, Zenon

(* AddCoin adds a coin, if one that is there may be overwritten. *)
LEMMA AddSound ==
  ASSUME NEW e, NEW below \in Coined, EntryOK(e, below), NEW coin \in Coined,
         NEW overwrite \in BOOLEAN, ~ overwrite => Coin(e, below) = Spent
  PROVE  EntryOK(AddCoin(e, coin, overwrite), below) /\ Coin(AddCoin(e, coin, overwrite), below) = coin
<1> DEFINE a == AddCoin(e, coin, overwrite)
           fresh == e.fresh \/ (~ overwrite /\ ~ e.dirty)
           thrown == e.thrown \/ (~ overwrite /\ e.coin # Spent)
<1>1. e \in Entries /\ ~ e.thrown
  BY Zenon DEF EntryOK
<1>2. ~ thrown
  BY <1>1 DEF EntryOK, Coin, Absent
<1>3. fresh => below = Spent
  BY <1>1, Zenon DEF EntryOK, Coin
<1>4. a = [e EXCEPT !.cached = TRUE, !.coin = coin, !.dirty = TRUE, !.fresh = fresh, !.thrown = thrown]
  BY Zenon DEF AddCoin, Fresh
<1>5. fresh \in BOOLEAN /\ thrown = FALSE
  BY <1>1, <1>2, Zenon DEF Entries
<1> HIDE DEF fresh, thrown
<1>6. a \in Entries /\ a.cached /\ a.coin = coin /\ a.dirty /\ a.fresh = fresh /\ ~ a.thrown
  BY <1>1, <1>4, <1>5, Zenon DEF Entries
<1>7. a.unclean = e.unclean
  BY <1>1, <1>4, Zenon DEF Entries
<1> HIDE DEF a
<1>8. EntryOK(a, below) /\ Coin(a, below) = coin
  BY <1>3, <1>6, <1>7, Zenon DEF EntryOK, Coin
<1> QED BY <1>8, Zenon DEF a

(* BatchWrite into a parent p that has looked the coin up shows in p what  *)
(* the child e showed over it.                                             *)
LEMMA WriteSound ==
  ASSUME NEW e, NEW p, NEW below \in Coined, EntryOK(p, below), EntryOK(e, Coin(p, below)),
         e.cached => p.cached \/ below = Spent
  PROVE  /\ EntryOK(BatchWrite(e, p), below)
         /\ Coin(BatchWrite(e, p), below) = Coin(e, Coin(p, below))
         /\ ~ FreshMisapplied(e, p)
<1>1. ~ FreshMisapplied(e, p)
  BY DEF FreshMisapplied, EntryOK, Coin, Absent
<1>2. CASE ~ e.cached \/ ~ e.dirty
  BY <1>1, <1>2, Zenon DEF BatchWrite, EntryOK, Coin
<1>3. CASE e.cached /\ e.dirty
  <2>1. BatchFresh(e, p) \in BOOLEAN /\ (BatchFresh(e, p) => below = Spent)
    BY <1>3, Zenon DEF BatchFresh, EntryOK, Entries, Coin
  <2>2. CASE e.coin = Spent /\ BatchFresh(e, p)
    BY <1>1, <1>3, <2>1, <2>2, Zenon DEF BatchWrite, EntryOK, Coin, Absent, Entries, Coined
  <2>3. CASE ~ (e.coin = Spent /\ BatchFresh(e, p))
    BY <1>1, <1>3, <2>1, <2>3, Zenon DEF BatchWrite, EntryOK, Coin, Absent, Entries, Coined
  <2> QED BY <2>2, <2>3, Zenon
<1> QED BY <1>2, <1>3, Zenon
-----------------------------------------------------------------------------
(* The coins of a block and of its parent. *)

(* A block extends the branch of its parent by itself. *)
LEMMA BranchStep ==
  ASSUME NEW b \in Blocks
  PROVE  /\ Branch(b) = {b} \cup Branch(Parent[b]) /\ b \notin Branch(Parent[b])
         /\ Parent[b] \in Blocks \cup {NoBlock} /\ Branch(b) \subseteq Blocks
         /\ Branch(b) = Anc[b]
<1>1. CASE b = Genesis
  BY <1>1, Tree, Zenon DEF Tree, Branch
<1>2. CASE b # Genesis
  BY <1>2, Tree, Zenon DEF Tree, Branch
<1> QED BY <1>1, <1>2, Zenon

(* What the coins are before and after a block. *)
LEMMA UtxoStep ==
  ASSUME NEW b \in Blocks, NEW o \in Outpoints
  PROVE  /\ UTXO(b)[o] = IF o \in Spends[b] THEN Spent
                         ELSE IF o \in Creates[b] THEN Height[b] ELSE UTXO(Parent[b])[o]
         /\ o \in Creates[b] => UTXO(Parent[b])[o] = Spent
         /\ o \in Spends[b] \ Creates[b] => UTXO(Parent[b])[o] # Spent
         /\ Height[b] \in Nat
<1> DEFINE p == Parent[b]
           made(x) == o \in Creates[x]
<1>1. /\ Branch(b) = {b} \cup Branch(p) /\ b \notin Branch(p) /\ Branch(b) \subseteq Blocks
      /\ Branch(b) = Anc[b]
  BY BranchStep, Zenon
<1>2. \A x, y \in Branch(b) : x # y => Creates[x] \cap Creates[y] = {} /\ Spends[x] \cap Spends[y] = {}
  BY <1>1, UtxoBlocks DEF UtxoBlocks
<1>3. Height \in [Blocks -> Nat] /\ Spent \notin Nat
  BY Tree, UtxoBlocks, Zenon DEF Tree, UtxoBlocks
<1> HIDE DEF p
<1>4. /\ UTXO(b)[o] = IF (\E x \in Branch(b) : made(x)) /\ (\A x \in Branch(b) : o \notin Spends[x])
                        THEN Height[CHOOSE x \in Branch(b) : made(x)] ELSE Spent
      /\ UTXO(p)[o] = IF (\E x \in Branch(p) : made(x)) /\ (\A x \in Branch(p) : o \notin Spends[x])
                        THEN Height[CHOOSE x \in Branch(p) : made(x)] ELSE Spent
  BY Zenon DEF UTXO
<1>5. CASE o \in Spends[b]
  <2>1. UTXO(b)[o] = Spent
    BY <1>1, <1>4, <1>5, Zenon
  <2>2. \A x \in Branch(p) : o \notin Spends[x]
    BY <1>1, <1>2, <1>5, Zenon
  <2>3. o \in Creates[b] => UTXO(p)[o] = Spent
    BY <1>1, <1>2, <1>4, Zenon
  <2>4. ASSUME o \notin Creates[b] PROVE UTXO(p)[o] # Spent
    <3>1. PICK x \in Anc[b] : made(x)
      BY <1>5, UtxoBlocks DEF UtxoBlocks
    <3>2. x \in Branch(p)
      BY <1>1, <2>4, <3>1, Zenon
    <3> DEFINE y == CHOOSE z \in Branch(p) : made(z)
    <3>3. y \in Branch(p)
      BY <3>1, <3>2, Zenon
    <3>4. y \in Blocks
      BY <1>1, <3>3, Zenon
    <3>5. UTXO(p)[o] = Height[y]
      BY <1>4, <2>2, <3>1, <3>2, Zenon
    <3> QED BY <1>3, <3>4, <3>5, Zenon
  <2> QED BY <1>3, <1>5, <2>1, <2>3, <2>4, Zenon DEF p
<1>6. CASE o \notin Spends[b] /\ o \in Creates[b]
  <2>1. \A x \in Branch(p) : ~ made(x)
    BY <1>1, <1>2, <1>6, Zenon
  <2>2. UTXO(p)[o] = Spent
    BY <1>4, <2>1, Zenon
  <2>3. \A x \in Branch(b) : o \notin Spends[x]
    <3>1. ASSUME NEW x \in Branch(p), o \in Spends[x] PROVE FALSE
      <4>1. x \in Blocks /\ p \in Blocks /\ x \in Anc[p]
        BY <1>1, <3>1, BranchStep, Zenon DEF Branch, p
      <4>2. PICK y \in Anc[x] : made(y)
        BY <3>1, <4>1, UtxoBlocks DEF UtxoBlocks
      <4>3. y \in Branch(p)
        BY <4>1, <4>2, Tree, Zenon DEF Tree, Branch
      <4> QED BY <2>1, <4>2, <4>3, Zenon
    <3> QED BY <1>1, <1>6, <3>1, Zenon
  <2>4. (CHOOSE x \in Branch(b) : made(x)) = b
    BY <1>1, <1>6, <2>1, Zenon
  <2> QED BY <1>1, <1>3, <1>4, <1>6, <2>2, <2>3, <2>4, Zenon DEF p
<1>7. CASE o \notin Spends[b] /\ o \notin Creates[b]
  <2>1. \A x : (x \in Branch(b) /\ made(x)) <=> (x \in Branch(p) /\ made(x))
    BY <1>1, <1>7, Zenon
  <2>2. (CHOOSE x \in Branch(b) : made(x)) = (CHOOSE x \in Branch(p) : made(x))
    BY <2>1, Zenon
  <2>3. (\A x \in Branch(b) : o \notin Spends[x]) <=> (\A x \in Branch(p) : o \notin Spends[x])
    BY <1>1, <1>7, Zenon
  <2> QED BY <1>3, <1>4, <1>7, <2>1, <2>2, <2>3, Zenon DEF p
<1> QED BY <1>5, <1>6, <1>7, Zenon

(* Every outpoint is a coin or spent, and spent under the genesis block. *)
LEMMA UtxoTypes ==
  ASSUME NEW b \in Blocks \cup {NoBlock}
  PROVE  /\ UTXO(b) \in [Outpoints -> Coined]
         /\ UTXO(NoBlock) = [o \in Outpoints |-> Spent]
         /\ UTXO(Genesis) = UTXO(NoBlock)
<1>1. /\ Branch(NoBlock) = {} /\ Branch(Genesis) = {Genesis} /\ Branch(b) \subseteq Blocks
      /\ Genesis \in Blocks /\ NoBlock \notin Blocks /\ Height \in [Blocks -> Nat]
  BY Tree, Zenon DEF Tree, Branch
<1>2. Creates[Genesis] = {}
  BY UtxoBlocks, Zenon DEF UtxoBlocks
<1>3. \A o \in Outpoints : UTXO(b)[o] \in Coined
  <2> SUFFICES ASSUME NEW o \in Outpoints PROVE UTXO(b)[o] \in Coined
    BY Zenon
  <2> DEFINE y == CHOOSE x \in Branch(b) : o \in Creates[x]
  <2>1. ASSUME \E x \in Branch(b) : o \in Creates[x] PROVE Height[y] \in Nat
    <3>1. y \in Branch(b)
      BY <2>1, Zenon
    <3> QED BY <1>1, <3>1, Zenon
  <2> QED BY <2>1, Zenon DEF UTXO, Coined
<1>4. UTXO(b) \in [Outpoints -> Coined]
  BY <1>3, Zenon DEF UTXO
<1>5. UTXO(NoBlock) = [o \in Outpoints |-> Spent]
  BY <1>1, Zenon DEF UTXO
<1>6. UTXO(Genesis) = [o \in Outpoints |-> Spent]
  BY <1>1, <1>2, Zenon DEF UTXO
<1> QED BY <1>4, <1>5, <1>6, Zenon

(* The undo data of a block: the coins it spends. *)
ExactUndo(b) == [o \in Spends[b] |-> IF o \in Creates[b] THEN Height[b] ELSE UTXO(Parent[b])[o]]

(* An empty cache shows what lies below it. *)
LEMMA AbsentSound ==
  ASSUME NEW below
  PROVE  EntryOK(Absent, below) /\ Coin(Absent, below) = below
BY Zenon DEF EntryOK, Absent, Entries, Coined, Coin

(* ConnectBlock over the coins of the parent shows those of the block, and *)
(* saves the coins it spends.                                              *)
LEMMA ConnectSound ==
  ASSUME NEW b \in Blocks, NEW o \in Outpoints
  PROVE  LET below == UTXO(Parent[b])[o]
         IN /\ EntryOK(ConnectBlock(b, o, below), below)
            /\ Coin(ConnectBlock(b, o, below), below) = UTXO(b)[o]
            /\ o \in Spends[b] => Coin(Added(b, o), below) = ExactUndo(b)[o]
            /\ o \notin Touched(b) => ~ ConnectBlock(b, o, below).cached
<1> DEFINE below == UTXO(Parent[b])[o]
           a == Added(b, o)
<1>0. below \in Coined
  BY UtxoTypes, BranchStep
<1>1. /\ UTXO(b)[o] = IF o \in Spends[b] THEN Spent
                      ELSE IF o \in Creates[b] THEN Height[b] ELSE below
      /\ o \in Creates[b] => below = Spent
      /\ o \in Spends[b] \ Creates[b] => below # Spent
      /\ Height[b] \in Coined /\ Height[b] # Spent
  BY UtxoStep, UtxoBlocks DEF UtxoBlocks, Coined
<1> HIDE DEF below
<1>2. EntryOK(a, below) /\ Coin(a, below) = IF o \in Creates[b] THEN Height[b] ELSE below
  <2>1. CASE o \in Creates[b]
    <3> DEFINE w == o \in Coinbase[b]
    <3>1. EntryOK(Absent, below) /\ Coin(Absent, below) = Spent
      BY <1>1, <2>1, AbsentSound, Zenon
    <3>2. w \in BOOLEAN /\ a = AddCoin(Absent, Height[b], w)
      BY <2>1 DEF Added
    <3> HIDE DEF w, a
    <3> QED BY <1>0, <1>1, <2>1, <3>1, <3>2, AddSound
  <2>2. CASE o \notin Creates[b]
    BY <2>2, AbsentSound, Zenon DEF Added
  <2> QED BY <2>1, <2>2, Zenon
<1>3. CASE o \notin Spends[b]
  <2>1. ConnectBlock(b, o, below) = a
    BY <1>3, Zenon DEF ConnectBlock
  <2>2. o \notin Touched(b) => ~ a.cached
    BY Zenon DEF Touched, Added, Absent
  <2> QED BY <1>1, <1>2, <1>3, <2>1, <2>2, Zenon DEF below
<1>4. CASE o \in Spends[b]
  <2> DEFINE s == SpendCoin(a, below)
  <2>1. EntryOK(s, below) /\ Coin(s, below) = Spent
    BY <1>0, <1>2, SpendSound, Zenon
  <2>2. Coin(a, below) # Spent
    BY <1>1, <1>2, <1>4, Zenon
  <2>3. ConnectBlock(b, o, below) = [s EXCEPT !.thrown = @ \/ Coin(a, below) = Spent]
    BY <1>4, Zenon DEF ConnectBlock
  <2> HIDE DEF s
  <2>4. ConnectBlock(b, o, below) = s
    BY <2>1, <2>2, <2>3, Zenon DEF EntryOK, Entries
  <2>5. Coin(a, below) = ExactUndo(b)[o]
    BY <1>2, <1>4, Zenon DEF ExactUndo, below
  <2> QED BY <1>1, <1>4, <2>1, <2>4, <2>5, Zenon DEF below, Touched
<1> QED BY <1>3, <1>4, Zenon

(* The mark of an unclean block goes through AddCoin and SpendCoin. *)
LEMMA AddUnclean ==
  ASSUME NEW e \in Entries, NEW h \in BOOLEAN, NEW coin, NEW overwrite \in BOOLEAN
  PROVE  AddCoin([e EXCEPT !.unclean = h], coin, overwrite)
           = [AddCoin(e, coin, overwrite) EXCEPT !.unclean = h]
BY Zenon DEF AddCoin, Fresh, Entries

(* Spending never touches the mark ApplyTxInUndo leaves. *)
LEMMA SpendUnclean ==
  ASSUME NEW e \in Entries, NEW h \in BOOLEAN, NEW below
  PROVE  LET u == [e EXCEPT !.unclean = h]
         IN /\ SpendCoin(u, below) = [SpendCoin(e, below) EXCEPT !.unclean = h]
            /\ SpendCoin(e, below).unclean = e.unclean
            /\ Coin(u, below) = Coin(e, below)
<1> DEFINE u == [e EXCEPT !.unclean = h]
<1>1. /\ u.cached = e.cached /\ u.coin = e.coin /\ u.dirty = e.dirty /\ u.fresh = e.fresh
      /\ u.thrown = e.thrown /\ u.unclean = h
  BY Zenon DEF Entries
<1>3. Coin(u, below) = Coin(e, below)
  BY <1>1, Zenon DEF Coin
<1>4. /\ SpendCoin(u, below) = [SpendCoin(e, below) EXCEPT !.unclean = h]
      /\ SpendCoin(e, below).unclean = e.unclean
  <2>1. CASE ~ e.cached /\ below = Spent
    BY <1>1, <2>1, Zenon DEF SpendCoin, FetchCoin
  <2>2. CASE ~ e.cached /\ below # Spent
    BY <1>1, <2>2, Zenon DEF SpendCoin, FetchCoin, Erasable, Absent, Entries
  <2>3. CASE e.cached /\ e.fresh
    BY <1>1, <2>3, Zenon DEF SpendCoin, FetchCoin, Erasable, Absent
  <2>4. CASE e.cached /\ ~ e.fresh
    BY <1>1, <2>4, Zenon DEF SpendCoin, FetchCoin, Erasable, Entries
  <2> QED BY <2>1, <2>2, <2>3, <2>4, Zenon
<1> QED BY <1>3, <1>4, Zenon

(* DisconnectBlock restores the coins of the parent, whatever the entry    *)
(* showed; it is clean if that was the coin of the block.                  *)
LEMMA DisconnectSound ==
  ASSUME NEW b \in Blocks, NEW o \in Outpoints, NEW below \in Coined, NEW e, EntryOK(e, below)
  PROVE  LET d == DisconnectBlock(e, b, o, ExactUndo(b), below)
             c == [d EXCEPT !.unclean = FALSE]
         IN /\ EntryOK(c, below) /\ ~ d.thrown
            /\ o \in Touched(b) => Coin(c, below) = UTXO(Parent[b])[o]
            /\ o \notin Touched(b) => c = e /\ d = e
            /\ Coin(e, below) = UTXO(b)[o] => d = c
<1> DEFINE r == Restored(e, b, o, ExactUndo(b), below)
           rc == [r EXCEPT !.unclean = FALSE]
           d == DisconnectBlock(e, b, o, ExactUndo(b), below)
           have == Coin(e, below) # Spent
           coin == ExactUndo(b)[o]
<1>0. /\ UTXO(b)[o] = IF o \in Spends[b] THEN Spent
                      ELSE IF o \in Creates[b] THEN Height[b] ELSE UTXO(Parent[b])[o]
      /\ o \in Creates[b] => UTXO(Parent[b])[o] = Spent
      /\ Height[b] \in Coined
      /\ UTXO(Parent[b])[o] \in Coined
  BY UtxoStep, UtxoTypes, BranchStep DEF Coined
<1>1. o \in Spends[b] => coin \in Coined /\ coin = IF o \in Creates[b] THEN Height[b] ELSE UTXO(Parent[b])[o]
  BY <1>0, Zenon DEF ExactUndo
<1> HIDE DEF coin
<1>2. ASSUME o \in Spends[b]
      PROVE  /\ EntryOK(rc, below) /\ Coin(rc, below) = coin /\ r \in Entries /\ r.unclean = have
  <2> DEFINE f == FetchCoin(e, below)
             g == AddCoin(f, coin, have)
  <2>1. EntryOK(f, below) /\ Coin(f, below) = Coin(e, below)
    BY FetchSound, Zenon
  <2>2. EntryOK(g, below) /\ Coin(g, below) = coin
    <3>1. have \in BOOLEAN /\ coin \in Coined /\ (~ have => Coin(f, below) = Spent)
      BY <1>1, <1>2, <2>1, Zenon
    <3> HIDE DEF have, f
    <3> QED BY <2>1, <3>1, AddSound, ZenonT(40)
  <2>3. r = AddCoin([f EXCEPT !.unclean = @ \/ have], coin, have)
    BY <1>2, Zenon DEF Restored, ApplyTxInUndo, coin
  <2> HIDE DEF f, have
  <2>4. have \in BOOLEAN
    BY Zenon DEF have
  <2>5. r = [g EXCEPT !.unclean = have]
    <3>1. f \in Entries /\ [f EXCEPT !.unclean = @ \/ have] = [f EXCEPT !.unclean = have]
      BY <2>1, <2>4, Zenon DEF EntryOK, Entries
    <3>2. AddCoin([f EXCEPT !.unclean = have], coin, have) = [AddCoin(f, coin, have) EXCEPT !.unclean = have]
      BY <2>4, <3>1, AddUnclean
    <3> QED BY <2>3, <3>1, <3>2, Zenon
  <2> HIDE DEF g, r
  <2>6. rc = g /\ r \in Entries /\ r.unclean = have
    BY <2>2, <2>4, <2>5, Zenon DEF EntryOK, Entries
  <2> QED BY <2>2, <2>6, Zenon
<1>3. CASE o \notin Creates[b]
  <2>1. d = r
    BY <1>3, Zenon DEF DisconnectBlock
  <2>2. CASE o \in Spends[b]
    BY <1>0, <1>1, <1>2, <1>3, <2>1, <2>2, Zenon DEF Touched, EntryOK, Entries
  <2>3. CASE o \notin Spends[b]
    BY <1>3, <2>1, <2>3, Zenon DEF Touched, Restored, EntryOK, Entries
  <2> QED BY <2>2, <2>3, Zenon
<1>4. CASE o \in Creates[b]
  <2>1. /\ EntryOK(rc, below) /\ r \in Entries
        /\ Coin(e, below) = UTXO(b)[o] => ~ r.unclean /\ Coin(rc, below) = Height[b]
    <3>1. CASE o \in Spends[b]
      BY <1>0, <1>1, <1>2, <1>4, <3>1, Zenon
    <3>2. CASE o \notin Spends[b]
      <4>1. r = e /\ rc = e
        BY <3>2, Zenon DEF Restored, EntryOK, Entries
      <4> QED BY <1>0, <1>4, <3>2, <4>1, Zenon DEF EntryOK
    <3> QED BY <3>1, <3>2, Zenon
  <2> DEFINE s == SpendCoin(r, below)
             c == SpendCoin(rc, below)
  <2>2. d = [s EXCEPT !.unclean = @ \/ Coin(r, below) # Height[b]]
    BY <1>4, Zenon DEF DisconnectBlock
  <2> HIDE DEF r
  <2>3. /\ c = [s EXCEPT !.unclean = FALSE] /\ s.unclean = r.unclean
        /\ Coin(rc, below) = Coin(r, below)
    BY <2>1, SpendUnclean, Zenon
  <2>4. EntryOK(c, below) /\ Coin(c, below) = Spent
    BY <2>1, SpendSound, Zenon
  <2> HIDE DEF s, c, d, rc
  <2>5. [d EXCEPT !.unclean = FALSE] = c /\ ~ d.thrown
    BY <2>2, <2>3, <2>4, Zenon DEF EntryOK, Entries
  <2>6. Coin(e, below) = UTXO(b)[o] => d = c
    BY <2>1, <2>2, <2>3, <2>4, Zenon
  <2> QED BY <1>0, <1>4, <2>4, <2>5, <2>6, Zenon DEF Touched, d
<1> QED BY <1>3, <1>4, Zenon

(* RollforwardBlock gives an outpoint the coin of the block if the block   *)
(* touches it, whatever was there, and leaves the others.                  *)
LEMMA RollforwardSound ==
  ASSUME NEW b \in Blocks, NEW o \in Outpoints, NEW below \in Coined, NEW e, EntryOK(e, below)
  PROVE  LET f == RollforwardBlock(e, b, o, below)
         IN /\ EntryOK(f, below)
            /\ o \in Touched(b) => Coin(f, below) = UTXO(b)[o]
            /\ o \notin Touched(b) => f = e
<1> DEFINE w == Coin(e, below) # Spent
           a == IF o \in Creates[b] THEN AddCoin(FetchCoin(e, below), Height[b], w) ELSE e
<1>1. UTXO(b)[o] = IF o \in Spends[b] THEN Spent
                   ELSE IF o \in Creates[b] THEN Height[b] ELSE UTXO(Parent[b])[o]
  BY UtxoStep, Zenon
<1>2. EntryOK(a, below) /\ (o \in Creates[b] => Coin(a, below) = Height[b])
  <2>1. /\ EntryOK(FetchCoin(e, below), below) /\ Coin(FetchCoin(e, below), below) = Coin(e, below)
        /\ Height[b] \in Coined
    BY FetchSound, UtxoStep, ZenonT(40) DEF Coined
  <2>2. w \in BOOLEAN /\ (~ w => Coin(FetchCoin(e, below), below) = Spent)
    BY <2>1, Zenon
  <2> HIDE DEF w
  <2>3. CASE o \in Creates[b]
    BY <2>1, <2>2, <2>3, AddSound, ZenonT(40)
  <2>4. CASE o \notin Creates[b]
    BY <2>4, Zenon
  <2> QED BY <2>3, <2>4, Zenon
<1>3. RollforwardBlock(e, b, o, below) = IF o \in Spends[b] THEN SpendCoin(a, below) ELSE a
  BY Zenon DEF RollforwardBlock, Overwrites
<1>4. o \notin Creates[b] => a = e
  BY Zenon
<1> HIDE DEF a
<1>5. CASE o \in Spends[b]
  BY <1>1, <1>2, <1>3, <1>5, SpendSound, Zenon DEF Touched
<1>6. CASE o \notin Spends[b]
  BY <1>1, <1>2, <1>3, <1>4, <1>6, Zenon DEF Touched
<1> QED BY <1>5, <1>6, Zenon
-----------------------------------------------------------------------------
(* The inductive invariant. *)

Undos == {[b \in S |-> ExactUndo(b)] : S \in SUBSET Blocks}

CoinTypes ==
  /\ mode \in {"run", "flush", "down", "rolling", "replay"}
  /\ cache \in [Outpoints -> Entries]
  /\ hashBlock \in Blocks \cup {NoBlock} /\ pindex \in Blocks \cup {NoBlock}
  /\ undo \in Undos /\ left \subseteq Outpoints
  /\ db \in [coins : [Outpoints -> Coined], best : Blocks \cup {NoBlock},
             heads : {<<>>} \cup (Blocks \X (Blocks \cup {NoBlock})), undo : Undos]
  /\ error = FALSE /\ crashes \in Nat

(* There is undo data for whatever may have to be disconnected, now or     *)
(* after a crash.                                                          *)
UndoInv ==
  /\ Branch(hashBlock) \subseteq DOMAIN undo
  /\ DOMAIN db.undo \subseteq DOMAIN undo
  /\ Branch(db.best) \subseteq DOMAIN db.undo
  /\ mode = "flush" => Branch(hashBlock) \subseteq DOMAIN db.undo
  /\ db.heads # <<>> => Branch(db.heads[1]) \cup Branch(db.heads[2]) \subseteq DOMAIN db.undo

(* The coins stored are those of one tip, or each that of one of two tips. *)
DiskInv ==
  IF db.heads = <<>> THEN db.coins = UTXO(db.best)
  ELSE /\ db.best = NoBlock
       /\ \A o \in Outpoints : db.coins[o] \in {UTXO(db.heads[1])[o], UTXO(db.heads[2])[o]}

(* In the loops of ReplayBlocks, each coin shown is that of pindex or      *)
(* already that of the new tip.                                            *)
RollingInv ==
  /\ db.heads # <<>> /\ pindex \in Blocks
  /\ pindex \notin Anc[db.heads[1]] => Branch(pindex) \subseteq DOMAIN db.undo
  /\ \A o \in Outpoints :
       /\ EntryOK(cache[o], db.coins[o])
       /\ Coin(cache[o], db.coins[o]) \in {UTXO(pindex)[o], UTXO(db.heads[1])[o]}

(* While batches are written, an entry is dirty and left, or stored. *)
WritingInv ==
  /\ hashBlock \in Blocks /\ (db.heads # <<>> => db.heads[1] = hashBlock)
  /\ \A o \in Outpoints :
       /\ Coin(cache[o], db.coins[o]) = UTXO(hashBlock)[o]
       /\ ~ cache[o].cached => cache[o] = Absent
       /\ cache[o].cached /\ (cache[o].dirty => o \notin left) => cache[o].coin = db.coins[o]

RunningInv ==
  /\ db.heads = <<>>
  /\ \A o \in Outpoints :
       EntryOK(cache[o], db.coins[o]) /\ Coin(cache[o], db.coins[o]) = UTXO(hashBlock)[o]

CoinsInv ==
  /\ CoinTypes /\ UndoInv /\ DiskInv
  /\ mode = "run" => RunningInv
  /\ mode = "down" => cache = NoCache
  /\ mode = "rolling" => RollingInv
  /\ mode \in {"flush", "replay"} => WritingInv
  /\ mode = "replay" => db.heads # <<>>

(* Undo data on disk restore exactly the coins their block spent. *)
LEMMA UndoFacts ==
  ASSUME NEW u \in Undos
  PROVE  DOMAIN u \subseteq Blocks /\ \A b \in DOMAIN u : u[b] = ExactUndo(b)
BY Zenon DEF Undos

(* Writing the undo data of one more block keeps those on disk exact. *)
LEMMA UndoExtended ==
  ASSUME NEW u \in Undos, NEW b \in Blocks, NEW v,
         v = [x \in DOMAIN u \cup {b} |-> IF x \in DOMAIN u THEN u[x] ELSE ExactUndo(b)]
  PROVE  v \in Undos /\ DOMAIN v = DOMAIN u \cup {b}
<1>1. PICK S \in SUBSET Blocks : u = [x \in S |-> ExactUndo(x)]
  BY Zenon DEF Undos
<1>2. v = [x \in S \cup {b} |-> ExactUndo(x)]
  BY <1>1, Zenon
<1> QED BY <1>1, <1>2, Zenon DEF Undos

(* The temporary cache of a block, flushed into pcoinsTip. *)
LEMMA FlushSound ==
  ASSUME CoinsInv, mode = "run", NEW b \in Blocks, NEW best, NEW w, FlushInto(w, b, best),
         \A o \in Outpoints : LET shown == Coin(cache[o], db.coins[o])
                              IN /\ EntryOK(w[o], shown) /\ Coin(w[o], shown) = UTXO(best)[o]
                                 /\ o \notin Touched(b) => ~ w[o].cached
  PROVE  /\ error' = FALSE /\ hashBlock' = best /\ cache' \in [Outpoints -> Entries]
         /\ \A o \in Outpoints : /\ EntryOK(cache'[o], db.coins[o])
                                 /\ Coin(cache'[o], db.coins[o]) = UTXO(best)[o]
<1> DEFINE parent == [o \in Outpoints |-> IF o \in Touched(b) THEN FetchCoin(cache[o], db.coins[o])
                                          ELSE cache[o]]
<1>1. ASSUME NEW o \in Outpoints
      PROVE  /\ EntryOK(BatchWrite(w[o], parent[o]), db.coins[o])
             /\ Coin(BatchWrite(w[o], parent[o]), db.coins[o]) = UTXO(best)[o]
             /\ ~ FreshMisapplied(w[o], parent[o]) /\ ~ w[o].thrown /\ ~ w[o].unclean
  <2> DEFINE e == cache[o]
             below == db.coins[o]
             q == parent[o]
  <2>1. EntryOK(e, below) /\ below \in Coined
    BY Zenon DEF CoinsInv, RunningInv, CoinTypes
  <2>2. EntryOK(q, below) /\ Coin(q, below) = Coin(e, below) /\ (o \in Touched(b) => q.cached \/ below = Spent)
    BY <2>1, FetchSound, Zenon
  <2>3. EntryOK(w[o], Coin(q, below)) /\ (w[o].cached => q.cached \/ below = Spent)
    BY <2>2, Zenon
  <2> HIDE DEF q, below
  <2>4. /\ EntryOK(BatchWrite(w[o], q), below) /\ ~ FreshMisapplied(w[o], q)
        /\ Coin(BatchWrite(w[o], q), below) = Coin(w[o], Coin(q, below))
    <3> DEFINE x == w[o]
    <3>1. /\ below \in Coined /\ EntryOK(q, below) /\ EntryOK(x, Coin(q, below))
          /\ x.cached => q.cached \/ below = Spent
      BY <2>1, <2>2, <2>3, Zenon
    <3>2. /\ EntryOK(BatchWrite(x, q), below) /\ ~ FreshMisapplied(x, q)
          /\ Coin(BatchWrite(x, q), below) = Coin(x, Coin(q, below))
      <4> HIDE DEF x, e, parent
      <4> QED BY ONLY <3>1, WriteSound, ZenonT(40)
    <3> QED BY <3>2, Zenon
  <2>5. Coin(w[o], Coin(q, below)) = UTXO(best)[o]
    BY <2>2, Zenon DEF below
  <2> QED BY <2>3, <2>4, <2>5, Zenon DEF q, below, EntryOK
<1>2. /\ cache' = [o \in Outpoints |-> BatchWrite(w[o], parent[o])] /\ hashBlock' = best
      /\ error' = (error \/ \E o \in Outpoints :
                    w[o].thrown \/ w[o].unclean \/ FreshMisapplied(w[o], parent[o]))
  BY Zenon DEF FlushInto
<1> HIDE DEF parent
<1>3. error' = FALSE
  BY <1>1, <1>2, Zenon DEF CoinsInv, CoinTypes
<1> QED BY <1>1, <1>2, <1>3, Zenon DEF EntryOK

(* The invariant after a step that leaves the database alone and the node  *)
(* running.                                                                *)
LEMMA StillRunning ==
  ASSUME CoinsInv, mode = "run", UNCHANGED <<mode, pindex, left, db, crashes>>,
         error' = FALSE, cache' \in [Outpoints -> Entries], hashBlock' \in Blocks \cup {NoBlock},
         undo' \in Undos, DOMAIN undo \subseteq DOMAIN undo', Branch(hashBlock') \subseteq DOMAIN undo',
         \A o \in Outpoints : /\ EntryOK(cache'[o], db.coins[o])
                              /\ Coin(cache'[o], db.coins[o]) = UTXO(hashBlock')[o]
  PROVE  CoinsInv'
<1>1. CoinTypes'
  BY Zenon DEF CoinsInv, CoinTypes
<1>2. UndoInv'
  BY Zenon DEF CoinsInv, UndoInv
<1>3. DiskInv'
  BY Zenon DEF CoinsInv, DiskInv
<1>4. RunningInv'
  BY Zenon DEF CoinsInv, RunningInv
<1> QED BY <1>1, <1>2, <1>3, <1>4, Zenon DEF CoinsInv

(* ConnectTip: the temporary cache holds the coins of the new tip. *)
LEMMA ConnectTipStep ==
  ASSUME CoinsInv, NEW b \in Blocks, ConnectTip(b)
  PROVE  CoinsInv' /\ hashBlock' = b
<1> DEFINE base == View(cache, db.coins)
           w == [o \in Outpoints |-> ConnectBlock(b, o, base[o])]
<1>1. /\ mode = "run" /\ Parent[b] = hashBlock /\ FlushInto(w, b, b)
      /\ undo' = WriteUndoDataForBlock(b, base) /\ UNCHANGED <<mode, pindex, left, db, crashes>>
  BY Zenon DEF ConnectTip
<1>2. \A o \in Outpoints : base[o] = Coin(cache[o], db.coins[o]) /\ base[o] = UTXO(Parent[b])[o]
  BY <1>1, Zenon DEF View, CoinsInv, RunningInv
<1>3. \A o \in Outpoints : LET shown == Coin(cache[o], db.coins[o])
                           IN /\ EntryOK(w[o], shown) /\ Coin(w[o], shown) = UTXO(b)[o]
                              /\ o \notin Touched(b) => ~ w[o].cached
  BY <1>2, ConnectSound, Zenon
<1>4. BlockUndo(b, base) = ExactUndo(b)
  <2>1. Spends[b] \subseteq Outpoints
    BY UtxoBlocks, Zenon DEF UtxoBlocks
  <2>2. \A o \in Spends[b] : Coin(Added(b, o), base[o]) = ExactUndo(b)[o]
    BY <1>2, <2>1, ConnectSound, Zenon
  <2>3. ExactUndo(b) = [o \in Spends[b] |-> ExactUndo(b)[o]]
    BY Zenon DEF ExactUndo
  <2> QED BY <2>2, <2>3, Zenon DEF BlockUndo
<1> HIDE DEF w, base
<1>5. /\ error' = FALSE /\ hashBlock' = b /\ cache' \in [Outpoints -> Entries]
      /\ \A o \in Outpoints : /\ EntryOK(cache'[o], db.coins[o])
                              /\ Coin(cache'[o], db.coins[o]) = UTXO(b)[o]
  BY <1>1, <1>3, FlushSound, Zenon
<1>6. undo' \in Undos /\ DOMAIN undo' = DOMAIN undo \cup {b}
  <2>1. undo' = [x \in DOMAIN undo \cup {b} |-> IF x \in DOMAIN undo THEN undo[x] ELSE ExactUndo(b)]
    BY <1>1, <1>4, Zenon DEF WriteUndoDataForBlock
  <2>2. undo \in Undos
    BY Zenon DEF CoinsInv, CoinTypes
  <2> QED BY <2>1, <2>2, UndoExtended, Zenon
<1>7. Branch(b) \subseteq DOMAIN undo'
  BY <1>1, <1>6, BranchStep DEF CoinsInv, UndoInv
<1> QED BY <1>1, <1>5, <1>6, <1>7, StillRunning, Zenon

(* DisconnectTip: exact undo data give back the coins of the parent. *)
LEMMA DisconnectTipStep ==
  ASSUME CoinsInv, DisconnectTip
  PROVE  CoinsInv' /\ hashBlock' = Parent[hashBlock]
<1> DEFINE b == hashBlock
           base == View(cache, db.coins)
           w == [o \in Outpoints |-> DisconnectBlock(Absent, b, o, undo[b], base[o])]
<1>1. /\ mode = "run" /\ b \in Blocks \ {Genesis} /\ FlushInto(w, b, Parent[b])
      /\ UNCHANGED <<mode, pindex, undo, left, db, crashes>>
  BY Zenon DEF DisconnectTip, CoinsInv, CoinTypes
<1>2. \A o \in Outpoints : base[o] = Coin(cache[o], db.coins[o]) /\ base[o] = UTXO(b)[o]
  BY <1>1, Zenon DEF View, CoinsInv, RunningInv
<1>3. undo[b] = ExactUndo(b)
  <2>1. b \in DOMAIN undo /\ undo \in Undos
    <3>1. b \in Branch(b)
      <4> HIDE DEF base, w
      <4>1. b \in Blocks
        BY <1>1, Zenon
      <4> QED BY <4>1, BranchStep
    <3> QED BY <3>1, Zenon DEF CoinsInv, UndoInv, CoinTypes
  <2> QED BY <2>1, UndoFacts, Zenon
<1>4. ASSUME NEW o \in Outpoints
      PROVE  /\ EntryOK(w[o], base[o]) /\ Coin(w[o], base[o]) = UTXO(Parent[b])[o]
             /\ o \notin Touched(b) => ~ w[o].cached
  <2> DEFINE d == DisconnectBlock(Absent, b, o, ExactUndo(b), base[o])
             c == [d EXCEPT !.unclean = FALSE]
  <2>1. /\ EntryOK(Absent, base[o]) /\ base[o] \in Coined
        /\ Coin(Absent, base[o]) = UTXO(b)[o]
    BY <1>1, <1>2, AbsentSound, UtxoTypes, Zenon
  <2>2. /\ EntryOK(c, base[o]) /\ d = c
        /\ o \in Touched(b) => Coin(c, base[o]) = UTXO(Parent[b])[o]
        /\ o \notin Touched(b) => d = Absent
    <3> DEFINE below == base[o]
    <3>1. b \in Blocks /\ below \in Coined /\ EntryOK(Absent, below)
      BY <1>1, <2>1, Zenon
    <3> HIDE DEF b, below
    <3>2. /\ EntryOK([DisconnectBlock(Absent, b, o, ExactUndo(b), below) EXCEPT !.unclean = FALSE], below)
          /\ o \in Touched(b) => Coin([DisconnectBlock(Absent, b, o, ExactUndo(b), below)
                                         EXCEPT !.unclean = FALSE], below) = UTXO(Parent[b])[o]
          /\ o \notin Touched(b) => DisconnectBlock(Absent, b, o, ExactUndo(b), below) = Absent
          /\ Coin(Absent, below) = UTXO(b)[o] =>
               DisconnectBlock(Absent, b, o, ExactUndo(b), below)
                 = [DisconnectBlock(Absent, b, o, ExactUndo(b), below) EXCEPT !.unclean = FALSE]
      BY <3>1, DisconnectSound
    <3> QED BY <2>1, <3>2, Zenon DEF below
  <2>3. w[o] = d
    BY <1>3, Zenon
  <2>4. o \notin Touched(b) => UTXO(Parent[b])[o] = UTXO(b)[o]
    BY <1>1, UtxoStep, Zenon DEF Touched
  <2>5. o \notin Touched(b) => Coin(d, base[o]) = UTXO(b)[o] /\ ~ d.cached
    BY <2>1, <2>2 DEF Absent
  <2> HIDE DEF d, w
  <2> QED BY <2>2, <2>3, <2>4, <2>5, Zenon
<1> HIDE DEF w, base
<1>5. /\ error' = FALSE /\ hashBlock' = Parent[b] /\ cache' \in [Outpoints -> Entries]
      /\ \A o \in Outpoints : /\ EntryOK(cache'[o], db.coins[o])
                              /\ Coin(cache'[o], db.coins[o]) = UTXO(Parent[b])[o]
  <2>1. \A o \in Outpoints : LET shown == Coin(cache[o], db.coins[o])
                             IN /\ EntryOK(w[o], shown) /\ Coin(w[o], shown) = UTXO(Parent[b])[o]
                                /\ o \notin Touched(b) => ~ w[o].cached
    BY <1>2, <1>4, Zenon
  <2> HIDE DEF b
  <2> QED BY <1>1, <2>1, FlushSound, Zenon
<1>6. Parent[b] \in Blocks \cup {NoBlock} /\ Branch(Parent[b]) \subseteq DOMAIN undo
  BY <1>1, BranchStep DEF CoinsInv, UndoInv
<1> QED BY <1>1, <1>5, <1>6, StillRunning, Zenon DEF CoinsInv, CoinTypes

(* A lookup, or dropping a clean coin, shows the same coins. *)
LEMMA AccessStep ==
  ASSUME CoinsInv, NEW o \in Outpoints, AccessCoin(o) \/ Uncache(o)
  PROVE  CoinsInv' /\ UNCHANGED hashBlock
<1>1. mode = "run" /\ UNCHANGED <<mode, hashBlock, pindex, undo, left, db, error, crashes>>
  BY Zenon DEF AccessCoin, Uncache
<1>2. PICK e : /\ cache' = [cache EXCEPT ![o] = e] /\ EntryOK(e, db.coins[o])
               /\ Coin(e, db.coins[o]) = Coin(cache[o], db.coins[o])
  <2>1. EntryOK(cache[o], db.coins[o]) /\ db.coins[o] \in Coined
    BY <1>1, Zenon DEF CoinsInv, RunningInv, CoinTypes
  <2>2. CASE AccessCoin(o)
    BY <2>1, <2>2, FetchSound, Zenon DEF AccessCoin
  <2>3. CASE Uncache(o)
    <3>1. cache' = [cache EXCEPT ![o] = Absent] /\ cache[o].cached /\ ~ cache[o].dirty
      BY <2>3, Zenon DEF Uncache, Droppable
    <3>2. Coin(cache[o], db.coins[o]) = db.coins[o]
      BY <2>1, <3>1, Zenon DEF EntryOK, Coin
    <3> QED BY <3>1, <3>2, AbsentSound, Zenon
  <2> QED BY <2>2, <2>3, Zenon
<1>3. /\ cache' \in [Outpoints -> Entries]
      /\ \A x \in Outpoints : /\ EntryOK(cache'[x], db.coins[x])
                              /\ Coin(cache'[x], db.coins[x]) = UTXO(hashBlock)[x]
  BY <1>1, <1>2, Zenon DEF CoinsInv, RunningInv, CoinTypes, EntryOK
<1>4. error' = FALSE /\ hashBlock \in Blocks \cup {NoBlock} /\ undo \in Undos /\ Branch(hashBlock) \subseteq DOMAIN undo
  BY <1>1, Zenon DEF CoinsInv, CoinTypes, UndoInv
<1> QED BY <1>1, <1>3, <1>4, StillRunning, Zenon

(* A flush begins: the heads are written, no coin is yet. *)
LEMMA BeginFlushStep ==
  ASSUME CoinsInv, BeginFlush
  PROVE  CoinsInv'
<1>1. /\ mode = "run" /\ hashBlock # NoBlock /\ mode' = "flush"
      /\ left' = {o \in Outpoints : cache[o].cached} /\ db' = [db EXCEPT !.undo = undo]
      /\ UNCHANGED <<cache, hashBlock, pindex, undo, error, crashes>>
  BY Zenon DEF BeginFlush
<1>2. /\ db'.coins = db.coins /\ db'.best = db.best /\ db'.heads = db.heads /\ db'.undo = undo
      /\ db.heads = <<>>
  BY <1>1, Zenon DEF CoinsInv, CoinTypes, RunningInv
<1>3. CoinTypes'
  BY <1>1, Zenon DEF CoinsInv, CoinTypes
<1>4. UndoInv'
  BY <1>1, <1>2, Zenon DEF CoinsInv, UndoInv
<1>5. DiskInv'
  BY <1>2, Zenon DEF CoinsInv, DiskInv
<1>6. WritingInv'
  BY <1>1, <1>2, Zenon DEF CoinsInv, CoinTypes, RunningInv, WritingInv, EntryOK
<1> QED BY <1>1, <1>3, <1>4, <1>5, <1>6, Zenon DEF CoinsInv

(* What a batch leaves of the entries in S, and which coins are stored. *)
LEMMA StoredSound ==
  ASSUME CoinsInv, WritingInv, NEW S \in SUBSET left, NEW o \in Outpoints
  PROVE  /\ Stored(S) \in [Outpoints -> Coined]
         /\ Stored(S)[o] \in {UTXO(hashBlock)[o], db.coins[o]}
         /\ Coin(cache[o], Stored(S)[o]) = UTXO(hashBlock)[o]
         /\ cache[o].cached /\ (cache[o].dirty => o \notin left \ S) => cache[o].coin = Stored(S)[o]
         /\ S = left => Stored(S)[o] = UTXO(hashBlock)[o]
<1>1. Stored(S)[o] = IF o \in S /\ cache[o].dirty THEN cache[o].coin ELSE db.coins[o]
  BY Zenon DEF Stored
<1>2. Stored(S) \in [Outpoints -> Coined]
  BY Zenon DEF Stored, CoinsInv, CoinTypes, Entries
<1>3. /\ Coin(cache[o], db.coins[o]) = UTXO(hashBlock)[o]
      /\ ~ cache[o].cached => ~ cache[o].dirty
      /\ cache[o].cached /\ (cache[o].dirty => o \notin left) => cache[o].coin = db.coins[o]
  <2>1. ~ Absent.dirty
    BY Zenon DEF Absent
  <2> QED BY <2>1, Zenon DEF WritingInv
<1> QED BY <1>1, <1>2, <1>3, Zenon DEF Coin

(* A batch of the flush: the coins it leaves are still dirty in memory. *)
LEMMA WritePartialStep ==
  ASSUME CoinsInv, NEW S \in SUBSET left, WritePartialBatch(S)
  PROVE  /\ CoinsInv' /\ UNCHANGED <<mode, hashBlock>> /\ db'.heads[1] = hashBlock /\ db'.heads # <<>>
         /\ mode = "replay" => db.heads[1] = hashBlock /\ db.heads # <<>>
<1>1. /\ mode \in {"flush", "replay"} /\ left' = left \ S
      /\ db' = [db EXCEPT !.coins = Stored(S), !.best = NoBlock, !.heads = <<hashBlock, OldTip>>]
      /\ error' = (error \/ (db.best = NoBlock /\ db.heads # <<>> /\ db.heads[1] # hashBlock))
      /\ UNCHANGED <<mode, cache, hashBlock, pindex, undo, crashes>>
  BY Zenon DEF WritePartialBatch, PartialHeads
<1>2. WritingInv /\ hashBlock \in Blocks /\ (db.heads # <<>> => db.heads[1] = hashBlock)
  BY <1>1, Zenon DEF CoinsInv, WritingInv
<1>3. /\ OldTip \in Blocks \cup {NoBlock} /\ Branch(OldTip) \subseteq DOMAIN db.undo
      /\ \A o \in Outpoints : db.coins[o] \in {UTXO(hashBlock)[o], UTXO(OldTip)[o]}
  <2>1. CASE db.heads = <<>>
    BY <2>1, Zenon DEF OldTip, CoinsInv, CoinTypes, UndoInv, DiskInv
  <2>2. CASE db.heads # <<>>
    <3>1. db.best = NoBlock /\ db.heads[2] \in Blocks \cup {NoBlock}
      BY <2>2, Zenon DEF CoinsInv, CoinTypes, DiskInv
    <3> QED BY <1>2, <2>2, <3>1, Zenon DEF OldTip, CoinsInv, UndoInv, DiskInv
  <2> QED BY <2>1, <2>2, Zenon
<1>4. \A o \in Outpoints :
         /\ Stored(S)[o] \in {UTXO(hashBlock)[o], db.coins[o]}
         /\ Coin(cache[o], Stored(S)[o]) = UTXO(hashBlock)[o]
         /\ cache[o].cached /\ (cache[o].dirty => o \notin left \ S) => cache[o].coin = Stored(S)[o]
  BY <1>2, StoredSound, Zenon
<1>5. Stored(S) \in [Outpoints -> Coined]
  BY Zenon DEF Stored, CoinsInv, CoinTypes, Entries
<1>6. /\ db'.coins = Stored(S) /\ db'.best = NoBlock /\ db'.undo = db.undo
      /\ db'.heads = <<hashBlock, OldTip>> /\ db'.heads # <<>>
      /\ db'.heads[1] = hashBlock /\ db'.heads[2] = OldTip
      /\ db'.heads \in Blocks \X (Blocks \cup {NoBlock})
  BY <1>1, <1>2, <1>3, Zenon DEF CoinsInv, CoinTypes
<1>7. error' = FALSE
  BY <1>1, <1>2, Zenon DEF CoinsInv, CoinTypes
<1>8. CoinTypes'
  <2>1. db' \in [coins : [Outpoints -> Coined], best : Blocks \cup {NoBlock},
                 heads : {<<>>} \cup (Blocks \X (Blocks \cup {NoBlock})), undo : Undos]
    BY <1>1, <1>5, <1>6, Zenon DEF CoinsInv, CoinTypes
  <2>2. left' \subseteq Outpoints
    BY <1>1, Zenon DEF CoinsInv, CoinTypes
  <2> QED BY <1>1, <1>7, <2>1, <2>2, Zenon DEF CoinsInv, CoinTypes
<1>9. Branch(hashBlock) \subseteq DOMAIN db.undo
  BY <1>1, <1>2, Zenon DEF CoinsInv, UndoInv
<1>10. UndoInv'
  <2>1. Branch(NoBlock) = {}
    BY Zenon DEF Branch
  <2> QED BY <1>1, <1>3, <1>6, <1>9, <2>1, Zenon DEF CoinsInv, UndoInv
<1>11. DiskInv'
  BY <1>3, <1>4, <1>6, Zenon DEF DiskInv
<1>12. WritingInv'
  BY <1>1, <1>2, <1>4, <1>6, Zenon DEF WritingInv
<1> QED BY <1>1, <1>2, <1>6, <1>8, <1>10, <1>11, <1>12, Zenon DEF CoinsInv

(* The last batch: nothing is left, one head is the best block. *)
LEMMA WriteFinalStep ==
  ASSUME CoinsInv, WriteFinalBatch
  PROVE  /\ CoinsInv' /\ mode' = "run" /\ UNCHANGED hashBlock /\ db'.best = hashBlock /\ db'.heads = <<>>
         /\ mode = "replay" => db.heads[1] = hashBlock /\ db.heads # <<>>
<1>1. /\ mode \in {"flush", "replay"}
      /\ db' = [db EXCEPT !.coins = Stored(left), !.best = hashBlock, !.heads = <<>>]
      /\ mode' = "run" /\ cache' = NoCache /\ left' = {}
      /\ UNCHANGED <<hashBlock, pindex, undo, error, crashes>>
  BY Zenon DEF WriteFinalBatch
<1>2. WritingInv /\ hashBlock \in Blocks
  BY <1>1, Zenon DEF CoinsInv, WritingInv
<1>3. \A o \in Outpoints : Stored(left)[o] = UTXO(hashBlock)[o]
  BY <1>2, StoredSound, Zenon
<1>4. Stored(left) = UTXO(hashBlock)
  BY <1>3, Zenon DEF Stored, UTXO
<1>5. UTXO(hashBlock) \in [Outpoints -> Coined]
  BY <1>2, UtxoTypes, Zenon
<1>6. db'.coins = UTXO(hashBlock) /\ db'.best = hashBlock /\ db'.heads = <<>> /\ db'.undo = db.undo
  BY <1>1, <1>4, Zenon DEF CoinsInv, CoinTypes
<1>7. \A o \in Outpoints : /\ EntryOK(cache'[o], db'.coins[o]) /\ cache'[o] \in Entries
                           /\ Coin(cache'[o], db'.coins[o]) = UTXO(hashBlock)[o]
  BY <1>1, <1>6, AbsentSound, Zenon DEF NoCache, EntryOK
<1>8. CoinTypes'
  <2>1. db' \in [coins : [Outpoints -> Coined], best : Blocks \cup {NoBlock},
                 heads : {<<>>} \cup (Blocks \X (Blocks \cup {NoBlock})), undo : Undos]
    BY <1>1, <1>2, <1>4, <1>5, Zenon DEF CoinsInv, CoinTypes
  <2>2. cache' \in [Outpoints -> Entries]
    BY <1>1, <1>7, Zenon DEF NoCache
  <2> QED BY <1>1, <2>1, <2>2, Zenon DEF CoinsInv, CoinTypes
<1>9. UndoInv'
  <2>1. Branch(hashBlock) \subseteq DOMAIN db.undo
    BY <1>1, <1>2, Zenon DEF CoinsInv, UndoInv, WritingInv
  <2> QED BY <1>1, <1>6, <2>1, Zenon DEF CoinsInv, UndoInv
<1>10. DiskInv' /\ RunningInv'
  BY <1>1, <1>6, <1>7, Zenon DEF DiskInv, RunningInv
<1> QED BY <1>1, <1>2, <1>6, <1>8, <1>9, <1>10, Zenon DEF CoinsInv, WritingInv

(* A crash: what is on disk mixes the coins of two blocks, the heads. *)
LEMMA CrashStep ==
  ASSUME CoinsInv, Crash
  PROVE  CoinsInv' /\ mode' = "down" /\ UNCHANGED db
<1>1. /\ mode' = "down" /\ cache' = NoCache /\ hashBlock' = NoBlock /\ left' = {} /\ crashes' = crashes + 1
      /\ pindex' = NoBlock /\ undo' = db.undo /\ UNCHANGED <<db, error>>
  BY Zenon DEF Crash
<1>2. cache' \in [Outpoints -> Entries]
  BY <1>1, AbsentSound, Zenon DEF NoCache, EntryOK
<1>3. CoinTypes'
  BY <1>1, <1>2 DEF CoinsInv, CoinTypes
<1>4. UndoInv' /\ DiskInv'
  BY <1>1, Zenon DEF CoinsInv, UndoInv, DiskInv, Branch
<1> QED BY <1>1, <1>3, <1>4, Zenon DEF CoinsInv

(* A start with no heads: the database is that of the best block. *)
LEMMA StartStep ==
  ASSUME CoinsInv, Start
  PROVE  CoinsInv' /\ mode = "down" /\ mode' = "run" /\ hashBlock' = db.best /\ db.heads = <<>> /\ UNCHANGED db
<1>1. /\ mode = "down" /\ db.heads = <<>> /\ mode' = "run" /\ hashBlock' = db.best
      /\ UNCHANGED <<cache, pindex, undo, left, db, error, crashes>>
  BY Zenon DEF Start
<1>2. \A o \in Outpoints : /\ EntryOK(cache[o], db.coins[o])
                           /\ Coin(cache[o], db.coins[o]) = UTXO(db.best)[o]
  BY <1>1, AbsentSound, Zenon DEF NoCache, CoinsInv, DiskInv
<1>3. CoinTypes'
  BY <1>1, Zenon DEF CoinsInv, CoinTypes
<1>4. UndoInv' /\ DiskInv' /\ RunningInv'
  BY <1>1, <1>2, Zenon DEF CoinsInv, UndoInv, DiskInv, RunningInv
<1> QED BY <1>1, <1>3, <1>4, Zenon DEF CoinsInv

(* ReplayBlocks begins at the old head, over the mixture. *)
LEMMA ReplayStep ==
  ASSUME CoinsInv, ReplayBlocks
  PROVE  CoinsInv' /\ mode = "down" /\ mode' = "rolling" /\ UNCHANGED db
<1>1. /\ mode = "down" /\ db.heads # <<>> /\ mode' = "rolling"
      /\ pindex' = IF db.heads[2] = NoBlock THEN Genesis ELSE db.heads[2]
      /\ UNCHANGED <<cache, hashBlock, undo, left, db, error, crashes>>
  BY Zenon DEF ReplayBlocks
<1>2. db.heads[1] \in Blocks /\ db.heads[2] \in Blocks \cup {NoBlock}
  BY <1>1, Zenon DEF CoinsInv, CoinTypes
<1>3. Genesis \in Anc[db.heads[1]] /\ Genesis \in Blocks
  BY <1>2, Tree, Zenon DEF Tree
<1>4. pindex' \in Blocks /\ UTXO(pindex') = UTXO(db.heads[2])
  BY <1>1, <1>2, <1>3, UtxoTypes, Zenon
<1>5. pindex' \notin Anc[db.heads[1]] => Branch(pindex') \subseteq DOMAIN db.undo
  BY <1>1, <1>3, Zenon DEF CoinsInv, UndoInv
<1>6. \A o \in Outpoints : /\ EntryOK(cache[o], db.coins[o])
                           /\ Coin(cache[o], db.coins[o]) \in {UTXO(pindex')[o], UTXO(db.heads[1])[o]}
  BY <1>1, <1>4, AbsentSound, Zenon DEF NoCache, CoinsInv, DiskInv
<1>7. CoinTypes'
  BY <1>1, <1>4, Zenon DEF CoinsInv, CoinTypes
<1>8. UndoInv' /\ DiskInv'
  BY <1>1, Zenon DEF CoinsInv, UndoInv, DiskInv
<1>9. RollingInv'
  BY <1>1, <1>4, <1>5, <1>6, Zenon DEF RollingInv
<1> QED BY <1>1, <1>7, <1>8, <1>9, Zenon DEF CoinsInv

(* One block of the loops: it may give each coin its value at b or leave   *)
(* one that has its final value.                                           *)
LEMMA RolledStep ==
  ASSUME CoinsInv, mode = "rolling", NEW b \in Blocks, NEW w, Rolled(w, b),
         b \notin Anc[db.heads[1]] => Branch(b) \subseteq DOMAIN db.undo,
         \A o \in Outpoints :
           /\ ~ w[o].thrown /\ EntryOK([w[o] EXCEPT !.unclean = FALSE], db.coins[o])
           /\ Coin([w[o] EXCEPT !.unclean = FALSE], db.coins[o]) \in {UTXO(b)[o], UTXO(db.heads[1])[o]}
  PROVE  CoinsInv' /\ mode' = "rolling" /\ UNCHANGED db
<1>1. /\ pindex' = b /\ cache' = [o \in Outpoints |-> [w[o] EXCEPT !.unclean = FALSE]]
      /\ error' = (error \/ \E o \in Outpoints : w[o].thrown)
      /\ UNCHANGED <<mode, hashBlock, undo, left, db, crashes>>
  BY Zenon DEF Rolled
<1>2. error' = FALSE
  BY <1>1, Zenon DEF CoinsInv, CoinTypes
<1>3. cache' \in [Outpoints -> Entries]
  BY <1>1, Zenon DEF EntryOK
<1>4. CoinTypes'
  BY <1>1, <1>2, <1>3, Zenon DEF CoinsInv, CoinTypes
<1>5. UndoInv' /\ DiskInv'
  BY <1>1, Zenon DEF CoinsInv, UndoInv, DiskInv
<1>6. RollingInv'
  BY <1>1, Zenon DEF CoinsInv, RollingInv
<1> QED BY <1>1, <1>4, <1>5, <1>6, Zenon DEF CoinsInv

(* Undoing a block over coins that may be newer already. *)
LEMMA RollBackStep ==
  ASSUME CoinsInv, RollBack
  PROVE  CoinsInv' /\ mode = "rolling" /\ mode' = "rolling" /\ UNCHANGED db
<1> DEFINE b == pindex
           w == [o \in Outpoints |-> RolledBack(o)]
<1>1. mode = "rolling" /\ b \notin Anc[db.heads[1]] /\ Rolled(w, Parent[b])
  BY Zenon DEF RollBack
<1>2. /\ b \in Blocks /\ db.heads[1] \in Blocks /\ Branch(b) \subseteq DOMAIN db.undo
      /\ \A o \in Outpoints :
           /\ EntryOK(cache[o], db.coins[o]) /\ db.coins[o] \in Coined
           /\ Coin(cache[o], db.coins[o]) \in {UTXO(b)[o], UTXO(db.heads[1])[o]}
  BY <1>1, Zenon DEF CoinsInv, RollingInv, CoinTypes
<1>3. b # Genesis
  BY <1>1, <1>2, Tree, Zenon DEF Tree
<1>4. Parent[b] \in Blocks /\ Branch(Parent[b]) \subseteq DOMAIN db.undo
  <2>1. Parent[b] \in Blocks
    BY <1>2, <1>3, Tree, Zenon DEF Tree
  <2>2. Branch(Parent[b]) \subseteq Branch(b)
    <3> HIDE DEF w
    <3>1. b \in Blocks
      BY <1>2, Zenon
    <3> QED BY <3>1, BranchStep
  <2> QED BY <1>2, <2>1, <2>2, Zenon
<1>5. db.undo[b] = ExactUndo(b)
  BY <1>2, BranchStep, UndoFacts, Zenon DEF CoinsInv, CoinTypes
<1>6. ASSUME NEW o \in Outpoints
      PROVE  /\ ~ w[o].thrown /\ EntryOK([w[o] EXCEPT !.unclean = FALSE], db.coins[o])
             /\ Coin([w[o] EXCEPT !.unclean = FALSE], db.coins[o])
                  \in {UTXO(Parent[b])[o], UTXO(db.heads[1])[o]}
  <2> DEFINE e == cache[o]
             below == db.coins[o]
             d == DisconnectBlock(e, b, o, ExactUndo(b), below)
             c == [d EXCEPT !.unclean = FALSE]
  <2>1. EntryOK(e, below) /\ below \in Coined /\ Coin(e, below) \in {UTXO(b)[o], UTXO(db.heads[1])[o]}
    BY <1>2, Zenon
  <2>2. w[o] = d
    BY <1>5, Zenon DEF RolledBack
  <2>3. o \notin Touched(b) => UTXO(Parent[b])[o] = UTXO(b)[o]
    BY <1>2, UtxoStep, Zenon DEF Touched
  <2> HIDE DEF e, below, b
  <2>4. /\ EntryOK(c, below) /\ ~ d.thrown
        /\ o \in Touched(b) => Coin(c, below) = UTXO(Parent[b])[o]
        /\ o \notin Touched(b) => c = e
    BY <1>2, <2>1, DisconnectSound
  <2> HIDE DEF d, w
  <2>5. Coin(c, below) \in {UTXO(Parent[b])[o], UTXO(db.heads[1])[o]}
    BY <2>1, <2>3, <2>4, Zenon
  <2> QED BY <2>2, <2>4, <2>5, Zenon DEF below
<1> HIDE DEF w, b
<1>7. CoinsInv' /\ mode' = "rolling" /\ UNCHANGED db
  BY <1>1, <1>4, <1>6, RolledStep, Zenon
<1> QED BY <1>1, <1>7, Zenon

(* Redoing a block over coins that may be newer already. *)
LEMMA RollForwardStep ==
  ASSUME CoinsInv, NEW b \in Blocks, RollForward(b)
  PROVE  CoinsInv' /\ mode = "rolling" /\ mode' = "rolling" /\ UNCHANGED db
<1> DEFINE w == [o \in Outpoints |-> RollforwardBlock(cache[o], b, o, db.coins[o])]
<1>1. mode = "rolling" /\ b \in Anc[db.heads[1]] /\ Parent[b] = pindex /\ Rolled(w, b)
  BY Zenon DEF RollForward
<1>2. ASSUME NEW o \in Outpoints
      PROVE  /\ ~ w[o].thrown /\ EntryOK([w[o] EXCEPT !.unclean = FALSE], db.coins[o])
             /\ Coin([w[o] EXCEPT !.unclean = FALSE], db.coins[o]) \in {UTXO(b)[o], UTXO(db.heads[1])[o]}
  <2> DEFINE e == cache[o]
             below == db.coins[o]
             f == RollforwardBlock(e, b, o, below)
  <2>1. /\ EntryOK(e, below) /\ below \in Coined
        /\ Coin(e, below) \in {UTXO(Parent[b])[o], UTXO(db.heads[1])[o]}
    BY <1>1, Zenon DEF CoinsInv, RollingInv, CoinTypes
  <2>2. o \notin Touched(b) => UTXO(Parent[b])[o] = UTXO(b)[o]
    BY UtxoStep, Zenon DEF Touched
  <2>3. w[o] = f
    BY Zenon
  <2> HIDE DEF e, below
  <2>4. /\ EntryOK(f, below) /\ (o \in Touched(b) => Coin(f, below) = UTXO(b)[o])
        /\ o \notin Touched(b) => f = e
    BY <2>1, RollforwardSound, Zenon
  <2> HIDE DEF f, w
  <2>5. [f EXCEPT !.unclean = FALSE] = f
    BY <2>4, Zenon DEF EntryOK, Entries
  <2>6. ~ f.thrown
    BY <2>4, Zenon DEF EntryOK
  <2> QED BY <2>1, <2>2, <2>3, <2>4, <2>5, <2>6, Zenon DEF below
<1> HIDE DEF w
<1>3. CoinsInv' /\ mode' = "rolling" /\ UNCHANGED db
  BY <1>1, <1>2, RolledStep, Zenon
<1> QED BY <1>1, <1>3, Zenon

(* The replay ends at the new head: no coin is of an older block. *)
LEMMA FlushReplayedStep ==
  ASSUME CoinsInv, FlushReplayed
  PROVE  CoinsInv' /\ mode = "rolling" /\ mode' = "replay" /\ UNCHANGED db
<1>1. /\ mode = "rolling" /\ pindex = db.heads[1] /\ mode' = "replay" /\ hashBlock' = pindex
      /\ pindex' = NoBlock /\ left' = {o \in Outpoints : cache[o].cached}
      /\ UNCHANGED <<cache, undo, db, error, crashes>>
  BY Zenon DEF FlushReplayed
<1>2. /\ pindex \in Blocks /\ db.heads # <<>>
      /\ \A o \in Outpoints : /\ EntryOK(cache[o], db.coins[o])
                              /\ Coin(cache[o], db.coins[o]) = UTXO(pindex)[o]
  BY <1>1, Zenon DEF CoinsInv, RollingInv
<1>3. CoinTypes'
  BY <1>1, <1>2, Zenon DEF CoinsInv, CoinTypes
<1>4. UndoInv'
  BY <1>1, <1>2, Zenon DEF CoinsInv, UndoInv
<1>5. DiskInv'
  BY <1>1, Zenon DEF CoinsInv, DiskInv
<1>6. WritingInv'
  BY <1>1, <1>2, Zenon DEF WritingInv, EntryOK
<1> QED BY <1>1, <1>2, <1>3, <1>4, <1>5, <1>6, Zenon DEF CoinsInv
-----------------------------------------------------------------------------
(* The node starts with an empty cache over the genesis coins. *)
LEMMA CoinsInit == Init => CoinsInv
<1> SUFFICES ASSUME Init PROVE CoinsInv
  BY Zenon
<1>1. UTXO(NoBlock) \in [Outpoints -> Coined] /\ Branch(NoBlock) = {}
  BY UtxoTypes, Zenon DEF Branch
<1>2. undo \in Undos /\ DOMAIN undo = {}
  <2>1. undo = [b \in {} |-> ExactUndo(b)]
    BY DEF Init
  <2> QED BY <2>1, Zenon DEF Undos
<1>3. /\ db.coins = UTXO(NoBlock) /\ db.best = NoBlock /\ db.heads = <<>> /\ db.undo = undo
      /\ db \in [coins : [Outpoints -> Coined], best : Blocks \cup {NoBlock},
                 heads : {<<>>} \cup (Blocks \X (Blocks \cup {NoBlock})), undo : Undos]
  BY <1>1, <1>2, Zenon DEF Init
<1>4. \A o \in Outpoints : /\ cache[o] \in Entries /\ EntryOK(cache[o], db.coins[o])
                           /\ Coin(cache[o], db.coins[o]) = UTXO(NoBlock)[o]
  BY <1>3, AbsentSound, Zenon DEF Init, NoCache, EntryOK
<1>5. CoinTypes
  BY <1>2, <1>3, <1>4, Zenon DEF Init, CoinTypes, NoCache
<1>6. UndoInv /\ DiskInv /\ RunningInv
  BY <1>1, <1>2, <1>3, <1>4, Zenon DEF Init, UndoInv, DiskInv, RunningInv
<1> QED BY <1>5, <1>6, Zenon DEF CoinsInv, Init

(* Every step of the coin database preserves the invariant. *)
LEMMA CoinsStep == CoinsInv /\ [Next]_vars => CoinsInv'
<1> SUFFICES ASSUME CoinsInv, [Next]_vars PROVE CoinsInv'
  BY Zenon
<1>1. ASSUME UNCHANGED vars PROVE CoinsInv'
  <2>1. CoinTypes' /\ UndoInv' /\ DiskInv'
    BY <1>1, Zenon DEF vars, CoinsInv, CoinTypes, UndoInv, DiskInv
  <2> QED BY <1>1, <2>1, Zenon DEF vars, CoinsInv, RunningInv, RollingInv, WritingInv
<1> QED BY <1>1, ConnectTipStep, DisconnectTipStep, AccessStep, BeginFlushStep, WritePartialStep,
           WriteFinalStep, CrashStep, StartStep, ReplayStep, RollBackStep, RollForwardStep,
           FlushReplayedStep, Zenon DEF Next

(* The invariant implies the four invariants the runs check. *)
LEMMA CoinsInvImplies == CoinsInv => TypeOK /\ FlagsSound /\ NoError /\ DatabaseExact
<1> SUFFICES ASSUME CoinsInv PROVE TypeOK /\ FlagsSound /\ NoError /\ DatabaseExact
  BY Zenon
<1>1. FlagsSound
  BY Zenon DEF CoinsInv, RunningInv, EntryOK, FlagsSound
<1>2. NoError
  BY Zenon DEF CoinsInv, CoinTypes, NoError
<1>3. DatabaseExact
  BY Zenon DEF CoinsInv, DiskInv, DatabaseExact
<1>4. TypeOK
  BY UndoFacts, Zenon DEF CoinsInv, CoinTypes, Entries, Coined, TypeOK
<1> QED BY <1>1, <1>2, <1>3, <1>4, Zenon

(* The state of the coin database keeps its types. *)
THEOREM CoinsTyped == Spec => []TypeOK
BY CoinsInit, CoinsStep, CoinsInvImplies, PTL DEF Spec

(* A FRESH entry of pcoinsTip is one the database does not have, and one   *)
(* that is not DIRTY does not differ from it, through all blocks, reads,   *)
(* evictions, flushes, crashes and replays.                                *)
THEOREM FlagsCorrect == Spec => []FlagsSound
BY CoinsInit, CoinsStep, CoinsInvImplies, PTL DEF Spec

(* No call of AddCoin or BatchWrite throws, no assertion of the flush      *)
(* fails, every block disconnected while running is clean, and none of     *)
(* this is disturbed by what a crash left in the database.                 *)
THEOREM NeverThrows == Spec => []NoError
BY CoinsInit, CoinsStep, CoinsInvImplies, PTL DEF Spec

(* When the database names a best block, it holds exactly the coins of     *)
(* that block, whatever sequence of partial flushes, crashes and replays   *)
(* came before.                                                            *)
THEOREM DatabaseSound == Spec => []DatabaseExact
BY CoinsInit, CoinsStep, CoinsInvImplies, PTL DEF Spec
-----------------------------------------------------------------------------
(* The refinement. *)

(* Both specifications mean the same coins by a block. *)
LEMMA SameUtxo == \A b : Abstract!UTXO(b) = UTXO(b)
BY Zenon DEF Abstract!UTXO, UTXO, Abstract!Branch, Branch

(* While the node is up, it shows the coins of its tip. *)
LEMMA ShownCoins == CoinsInv /\ IsUp => View(cache, db.coins) = UTXO(hashBlock)
<1> SUFFICES ASSUME CoinsInv, IsUp PROVE View(cache, db.coins) = UTXO(hashBlock)
  BY Zenon
<1>1. \A o \in Outpoints : Coin(cache[o], db.coins[o]) = UTXO(hashBlock)[o]
  BY Zenon DEF IsUp, CoinsInv, RunningInv, WritingInv
<1> QED BY <1>1, Zenon DEF View, UTXO

(* The initial states are initial states of the abstract set. *)
LEMMA RefinedInit == Init => Abstract!SetInit
<1> SUFFICES ASSUME Init PROVE Abstract!SetInit
  BY Zenon
<1>1. IsUp = TRUE /\ hashBlock = NoBlock /\ Durable = NoBlock
  BY Zenon DEF Init, IsUp, Durable
<1>2. View(cache, db.coins) = UTXO(NoBlock)
  BY <1>1, CoinsInit, ShownCoins, Zenon
<1> QED BY <1>1, <1>2, SameUtxo, Zenon DEF Abstract!SetInit

(* Every step is a step of the abstract set, or leaves it alone. *)
LEMMA RefinedStep ==
  CoinsInv /\ CoinsInv' /\ [Next]_vars => [Abstract!SetNext]_(Abstract!setVars)
<1> SUFFICES ASSUME CoinsInv, CoinsInv', [Next]_vars
             PROVE  Abstract!SetNext \/ UNCHANGED <<IsUp, hashBlock, View(cache, db.coins), Durable>>
  BY Zenon DEF Abstract!setVars
<1> DEFINE shown == View(cache, db.coins)
<1>1. IsUp => shown = UTXO(hashBlock)
  BY ShownCoins, Zenon
<1>2. IsUp' => shown' = UTXO(hashBlock')
  <2>1. (CoinsInv /\ IsUp => View(cache, db.coins) = UTXO(hashBlock))'
    BY ShownCoins, PTL
  <2> QED BY <2>1, Zenon DEF UTXO, Branch
<1> HIDE DEF shown
<1>3. SUFFICES Abstract!SetNext \/ UNCHANGED <<IsUp, hashBlock, shown, Durable>>
  BY Zenon DEF shown
<1>4. (mode \in {"run", "flush"}) = IsUp /\ (mode' \in {"run", "flush"}) = IsUp'
  BY Zenon DEF IsUp
<1>5. ASSUME NEW b \in Blocks, ConnectTip(b) PROVE Abstract!Connect(b)
  <2>1. mode = "run" /\ mode' = "run" /\ Parent[b] = hashBlock /\ hashBlock' = b /\ UNCHANGED db
    BY <1>5, ConnectTipStep, Zenon DEF ConnectTip
  <2>2. shown' = Abstract!UTXO(b) /\ UNCHANGED Durable
    BY <1>2, <1>4, <2>1, SameUtxo, Zenon DEF Durable
  <2> QED BY <1>4, <2>1, <2>2, Zenon DEF Abstract!Connect, shown
<1>6. ASSUME DisconnectTip PROVE Abstract!Disconnect
  <2>1. /\ mode = "run" /\ mode' = "run" /\ hashBlock \in Blocks \ {Genesis}
        /\ hashBlock' = Parent[hashBlock] /\ UNCHANGED db
    BY <1>6, DisconnectTipStep, Zenon DEF DisconnectTip, CoinsInv, CoinTypes
  <2>2. shown' = Abstract!UTXO(Parent[hashBlock]) /\ UNCHANGED Durable
    BY <1>2, <1>4, <2>1, SameUtxo, Zenon DEF Durable
  <2> QED BY <1>4, <2>1, <2>2, Zenon DEF Abstract!Disconnect, shown
<1>7. ASSUME IsUp, IsUp', UNCHANGED hashBlock, Durable' \in {Durable, hashBlock}
      PROVE  Abstract!Persist \/ UNCHANGED <<IsUp, hashBlock, shown, Durable>>
  <2>1. shown' = shown /\ IsUp' = IsUp
    BY <1>1, <1>2, <1>4, <1>7, Zenon
  <2> QED BY <1>7, <2>1, Zenon DEF Abstract!Persist, shown
<1>8. ASSUME ~ IsUp', UNCHANGED Durable PROVE Abstract!Crash \/ Abstract!Down
  BY <1>8, Zenon DEF Abstract!Crash, Abstract!Down
<1>9. ASSUME ~ IsUp, IsUp', hashBlock' = Durable, UNCHANGED Durable PROVE Abstract!Recover
  <2>1. shown' = Abstract!UTXO(Durable)
    BY <1>2, <1>9, SameUtxo, Zenon
  <2> QED BY <1>9, <2>1, Zenon DEF Abstract!Recover, shown
<1>10. ASSUME NEW o \in Outpoints, AccessCoin(o) \/ Uncache(o)
       PROVE  IsUp /\ IsUp' /\ UNCHANGED hashBlock /\ Durable' = Durable
  BY <1>10, Zenon DEF AccessCoin, Uncache, IsUp, Durable
<1>11. ASSUME BeginFlush PROVE IsUp /\ IsUp' /\ UNCHANGED hashBlock /\ Durable' = Durable
  <2>1. db'.heads = db.heads /\ db'.best = db.best
    BY <1>11, Zenon DEF BeginFlush, CoinsInv, CoinTypes
  <2> QED BY <1>11, <2>1 DEF BeginFlush, IsUp, Durable
<1>12. ASSUME NEW S \in SUBSET left, WritePartialBatch(S)
       PROVE  \/ IsUp /\ IsUp' /\ UNCHANGED hashBlock /\ Durable' = hashBlock
              \/ ~ IsUp' /\ UNCHANGED Durable
  <2>1. /\ mode \in {"flush", "replay"} /\ UNCHANGED <<mode, hashBlock>>
        /\ db'.heads[1] = hashBlock /\ db'.heads # <<>>
        /\ mode = "replay" => db.heads[1] = hashBlock /\ db.heads # <<>>
    BY <1>12, WritePartialStep, Zenon DEF WritePartialBatch
  <2> QED BY <2>1, Zenon DEF IsUp, Durable
<1>13. ASSUME WriteFinalBatch
       PROVE  \/ IsUp /\ IsUp' /\ UNCHANGED hashBlock /\ Durable' = hashBlock
              \/ ~ IsUp /\ IsUp' /\ hashBlock' = Durable /\ UNCHANGED Durable
  <2>1. /\ mode \in {"flush", "replay"} /\ mode' = "run" /\ UNCHANGED hashBlock
        /\ db'.best = hashBlock /\ db'.heads = <<>>
        /\ mode = "replay" => db.heads[1] = hashBlock /\ db.heads # <<>>
    BY <1>13, WriteFinalStep, Zenon DEF WriteFinalBatch
  <2> QED BY <2>1, Zenon DEF IsUp, Durable
<1>14. ASSUME Crash \/ ReplayBlocks \/ RollBack \/ (\E b \in Blocks : RollForward(b)) \/ FlushReplayed
       PROVE  ~ IsUp' /\ UNCHANGED Durable
  <2>1. mode' \in {"down", "rolling", "replay"} /\ UNCHANGED db
    BY <1>14, CrashStep, ReplayStep, RollBackStep, RollForwardStep, FlushReplayedStep, Zenon
  <2> QED BY <2>1, Zenon DEF IsUp, Durable
<1>15. ASSUME Start PROVE ~ IsUp /\ IsUp' /\ hashBlock' = Durable /\ UNCHANGED Durable
  BY <1>15, StartStep, Zenon DEF IsUp, Durable
<1>16. ASSUME UNCHANGED vars PROVE UNCHANGED <<IsUp, hashBlock, shown, Durable>>
  BY <1>16, Zenon DEF vars, IsUp, shown, View, Durable
<1> QED BY <1>5, <1>6, <1>7, <1>8, <1>9, <1>10, <1>11, <1>12, <1>13, <1>14, <1>15, <1>16, Zenon
        DEF Next, Abstract!SetNext

(* Cache, database and replay implement one atomic set of coins that is    *)
(* always that of one block, moves to a neighbouring block at a time and   *)
(* after a crash is that of the last block made durable.                   *)
THEOREM CoinsRefine == Spec => ImplementsUtxoSet
<1>1. CoinsInv /\ [Next]_vars => CoinsInv'
  BY CoinsStep, Zenon
<1> QED BY <1>1, CoinsInit, RefinedInit, RefinedStep, PTL DEF Spec, ImplementsUtxoSet, Abstract!SetSpec
=============================================================================
