------------------------ MODULE BlockDownloadProofs ------------------------
(***************************************************************************)
(* BlockDownload: the map of blocks in flight, the lists and the counters  *)
(* agree, and no answer is lost, whatever the peers do.                    *)
(***************************************************************************)
EXTENDS BlockDownload, FiniteSetTheorems, SequenceTheorems, WellFoundedInduction, TLAPS

(* The peers that owe a block, and the blocks that are owed. *)
Busy(f) == {n \in Nodes : f.queue[n] # <<>>}
InFlight(f) == {b \in Blocks : f.from[b] # NoNode}

FlightType(f) ==
  f \in [from : [Blocks -> Nodes \cup {NoNode}], queue : [Nodes -> Seq(Blocks)],
         count : [Nodes -> Nat], stalling : SUBSET Nodes, partial : SUBSET Blocks, peers : Int]

(* What MarkBlockAsReceived and MarkBlockAsInFlight keep: InFlightExact,   *)
(* but for the part that is about connections.                             *)
FlightOK(f) ==
  /\ FlightType(f)
  /\ \A b \in Blocks, n \in Nodes : f.from[b] = n <=> b \in Range(f.queue[n])
  /\ \A n \in Nodes : IsInjective(f.queue[n]) /\ f.count[n] = Len(f.queue[n])
  /\ \A n \in f.stalling : f.queue[n] # <<>>
  /\ f.peers = Cardinality(Busy(f))
  /\ f.partial \subseteq InFlight(f)

(* The index is a tree, and what is stored or refused is in it. *)
IndexInv ==
  /\ index \in SUBSET Blocks /\ \A b \in index : Anc[b] \subseteq index
  /\ Genesis \in haveData /\ haveData \subseteq index
  /\ failed \subseteq index \ haveData /\ tip \in haveData

EntriesOf(ind) == [best : ind \cup {NoBlock}, unknown : Blocks \cup {NoBlock}, common : ind \cup {NoBlock}]
Entries == EntriesOf(index)
Answers == [kind : {"block", "txn"}, block : Blocks]

PeerInv ==
  /\ conn \in [Nodes -> {"off", "on", "drop"}]
  /\ known \in [Nodes -> Entries]
  /\ answers \in [Nodes -> Seq(Answers)]
  /\ InFlight(flight) \subseteq index \ {Genesis}
  /\ \A n \in Nodes :
       /\ conn[n] = "off" => flight.queue[n] = <<>>
       /\ Len(flight.queue[n]) <= MAX_BLOCKS_IN_TRANSIT_PER_PEER

(* A waiting block that is not indexed came unasked: it is processed       *)
(* before the handler ends.                                                *)
WaitInv ==
  /\ pfrom \in Nodes \cup {NoNode} /\ expired \subseteq Blocks
  /\ pindexLastAccepted \in index \cup {NoBlock}
  /\ mapBlocksWait \in [Blocks -> Blocks \cup {NoBlock}]
  /\ \A p \in Blocks : mapBlocksWait[p] # NoBlock =>
       /\ p \in index /\ Parent[mapBlocksWait[p]] = p
       /\ mapBlocksWait[p] \notin index =>
            ~ Idle /\ ValidTransactions(p) /\ mapBlocksWait[p] \notin expired

(* AnswersKept, with the kind of answer that is on its way: the missing    *)
(* transactions are of use only as long as the partial block is there.     *)
Coming(n, b) == \E a \in Range(answers[n]) : a.block = b /\ (a.kind = "block" \/ b \in flight.partial)
Replaced(b) == b \in displaced
Served(n, b) == Coming(n, b) \/ b \in Waiting \/ conn[n] = "drop" \/ Replaced(b)
AnswersInv == \A n \in Responsive : \A b \in Range(flight.queue[n]) : Served(n, b)

DownloadInv == FlightOK(flight) /\ IndexInv /\ PeerInv /\ WaitInv /\ AnswersInv
-----------------------------------------------------------------------------
(* A nonempty set of naturals has a least element. *)
LEMMA LeastNat == \A T \in SUBSET Nat : T # {} => \E x \in T : \A y \in T : ~ (y < x)
<1> SUFFICES ASSUME NEW T \in SUBSET Nat, T # {} PROVE \E x \in T : \A y \in T : ~ (y < x)
  BY Zenon
<1> DEFINE R == {ss \in Nat \X Nat : ss[1] < ss[2]}
<1>1. IsWellFoundedOn(R, Nat)
  BY NatLessThanWellFounded, Zenon DEF OpToRel
<1> HIDE DEF R
<1>2. \E x \in T : \A y \in T : ~ (<<y, x>> \in R)
  BY <1>1, WFMin, Zenon
<1>3. \A x, y \in T : y < x => <<y, x>> \in R
  BY Zenon DEF R
<1> QED BY <1>2, <1>3, Zenon

(* What the first of a row of values has, and a step keeps, all have: the  *)
(* loops of FindNextBlocksToDownload, of DirectFetch and over the blocks   *)
(* to ask for.                                                             *)
LEMMA IterationStays ==
  ASSUME NEW lo \in Nat, NEW hi \in Nat, NEW g, NEW S,
         g[lo] \in S[lo],
         \A i \in lo..hi : i # lo /\ g[i - 1] \in S[i - 1] => g[i] \in S[i]
  PROVE  \A i \in lo..hi : g[i] \in S[i]
<1> SUFFICES ASSUME \E i \in lo..hi : g[i] \notin S[i] PROVE FALSE
  BY Zenon
<1> DEFINE T == {i \in lo..hi : g[i] \notin S[i]}
<1>1. T \in SUBSET Nat /\ T # {}
  OBVIOUS
<1>2. PICK x \in T : \A y \in T : ~ (y < x)
  BY <1>1, LeastNat, Zenon
<1>3. x # lo /\ x - 1 \in lo..hi /\ x - 1 < x
  OBVIOUS
<1>4. g[x - 1] \in S[x - 1]
  BY <1>2, <1>3, Zenon
<1> QED BY <1>3, <1>4, Zenon

(* The rules of a loop over lo..hi on states of S, and a run of it from s. *)
Steps(lo, hi, S) == [lo..hi -> [S -> S]]
Runs(lo, hi, S, s, F, g) == g \in [lo..hi -> S] /\ g[lo] = s /\ \A i \in lo..hi : i # lo => g[i] = F[i][g[i - 1]]

(* There is a run of every loop, so a recursive function over lo..hi is what *)
(* its equation says.                                                        *)
LEMMA IterationExists ==
  ASSUME NEW lo \in Nat, NEW hi \in Nat, lo <= hi, NEW S, NEW s \in S, NEW F \in Steps(lo, hi, S)
  PROVE  \E g : Runs(lo, hi, S, s, F, g)
<1> USE DEF Steps
<1> DEFINE Good(m) == \E g \in [lo..m -> S] : \A i \in lo..m : g[i] = IF i = lo THEN s ELSE F[i][g[i - 1]]
           T == {m \in lo..hi : ~ Good(m)}
<1>1. Good(lo)
  <2> DEFINE g0 == [i \in lo..lo |-> s]
  <2>1. g0 \in [lo..lo -> S] /\ \A i \in lo..lo : g0[i] = IF i = lo THEN s ELSE F[i][g0[i - 1]]
    OBVIOUS
  <2> QED BY <2>1, Zenon
<1>2. \A m \in lo..hi : m # hi /\ Good(m) => Good(m + 1)
  <2> SUFFICES ASSUME NEW m \in lo..hi, m # hi, Good(m) PROVE Good(m + 1)
    BY Zenon
  <2>1. PICK g \in [lo..m -> S] : \A i \in lo..m : g[i] = IF i = lo THEN s ELSE F[i][g[i - 1]]
    BY Zenon
  <2> DEFINE h == [i \in lo..(m + 1) |-> IF i = m + 1 THEN F[m + 1][g[m]] ELSE g[i]]
  <2>2. m \in lo..m /\ m + 1 \in lo..hi /\ m + 1 # lo /\ (m + 1) - 1 = m
    OBVIOUS
  <2>3. F[m + 1] \in [S -> S] /\ g[m] \in S
    BY <2>2, Zenon
  <2>4. F[m + 1][g[m]] \in S
    BY <2>3, Zenon
  <2>5. h \in [lo..(m + 1) -> S]
    BY <2>4
  <2>6. \A i \in lo..(m + 1) : h[i] = IF i = lo THEN s ELSE F[i][h[i - 1]]
    <3> SUFFICES ASSUME NEW i \in lo..(m + 1) PROVE h[i] = IF i = lo THEN s ELSE F[i][h[i - 1]]
      BY Zenon
    <3>1. CASE i = m + 1
      <4>1. h[m + 1] = F[m + 1][g[m]] /\ h[m] = g[m]
        BY <2>2
      <4> QED BY <3>1, <4>1, <2>2, Zenon
    <3>2. CASE i # m + 1
      <4>1. i \in lo..m /\ h[i] = g[i]
        BY <3>2
      <4>2. i # lo => h[i - 1] = g[i - 1]
        BY <4>1
      <4> QED BY <4>1, <4>2, <2>1, Zenon
    <3> QED BY <3>1, <3>2, Zenon
  <2> HIDE DEF h
  <2> QED BY <2>5, <2>6, Zenon
<1> HIDE DEF Good
<1>3. T = {}
  <2> SUFFICES ASSUME T # {} PROVE FALSE
    BY Zenon
  <2>1. T \in SUBSET Nat
    OBVIOUS
  <2>2. PICK x \in T : \A y \in T : ~ (y < x)
    BY <2>1, LeastNat, Zenon
  <2>3. x # lo /\ x - 1 \in lo..hi /\ x - 1 < x /\ x - 1 # hi /\ (x - 1) + 1 = x
    BY <1>1
  <2>4. Good(x - 1)
    BY <2>2, <2>3, Zenon
  <2> QED BY <2>3, <2>4, <1>2, Zenon
<1>4. Good(hi)
  BY <1>3
<1>5. PICK g \in [lo..hi -> S] : \A i \in lo..hi : g[i] = IF i = lo THEN s ELSE F[i][g[i - 1]]
  BY <1>4, Zenon DEF Good
<1>6. lo \in lo..hi
  OBVIOUS
<1> QED BY <1>5, <1>6, Zenon DEF Runs
-----------------------------------------------------------------------------
(* vBlocksInFlight.erase: the entry of b goes, the others keep their order. *)
LEMMA EraseOne ==
  ASSUME NEW q \in Seq(Blocks), IsInjective(q), NEW b \in Range(q)
  PROVE  /\ Erase(q, b) \in Seq(Blocks) /\ IsInjective(Erase(q, b))
         /\ Len(Erase(q, b)) = Len(q) - 1 /\ Range(Erase(q, b)) = Range(q) \ {b}
<1>1. \E i \in DOMAIN q : q[i] = b
  BY Zenon DEF Range
<1> DEFINE i == CHOOSE i \in DOMAIN q : q[i] = b
<1>2. i \in DOMAIN q /\ q[i] = b
  BY <1>1, Zenon
<1> HIDE DEF i
<1> DEFINE u == SubSeq(q, 1, i - 1)
           v == SubSeq(q, i + 1, Len(q))
           e == u \o v
<1>3. Erase(q, b) = e
  BY Zenon DEF Erase, i
<1>4. DOMAIN q = 1..Len(q) /\ Len(q) \in Nat /\ i \in 1..Len(q)
  BY <1>2
<1>a. u \in Seq(Blocks) /\ Len(u) = i - 1 /\ \A j \in 1..(i - 1) : u[j] = q[j]
  BY <1>4
<1>b. v \in Seq(Blocks) /\ Len(v) = Len(q) - i /\ \A j \in 1..(Len(q) - i) : v[j] = q[j + i]
  <2>1. \A j \in (i + 1)..Len(q) : q[j] \in Blocks
    BY <1>4
  <2>2. i + 1 \in Int /\ Len(q) \in Int
    BY <1>4
  <2>3. /\ v \in Seq(Blocks) /\ Len(v) = IF i + 1 <= Len(q) THEN Len(q) - (i + 1) + 1 ELSE 0
        /\ \A j \in 1..(Len(q) - (i + 1) + 1) : v[j] = q[(i + 1) + j - 1]
    BY <2>1, <2>2, SubSeqProperties
  <2> HIDE DEF v
  <2>4. \A j \in 1..(Len(q) - i) : (i + 1) + j - 1 = j + i /\ j \in 1..(Len(q) - (i + 1) + 1)
    BY <1>4
  <2>5. Len(v) = Len(q) - i
    <3>1. CASE i + 1 <= Len(q)
      <4>1. Len(v) = Len(q) - (i + 1) + 1
        BY <2>3, <3>1, Zenon
      <4> QED BY <4>1, <1>4
    <3>2. CASE ~ (i + 1 <= Len(q))
      <4>1. Len(v) = 0
        BY <2>3, <3>2, Zenon
      <4>2. \A l \in Nat : \A k \in 1..l : ~ (k + 1 <= l) => l - k = 0
        OBVIOUS
      <4> QED BY <4>1, <4>2, <3>2, <1>4, Zenon
    <3> QED BY <3>1, <3>2, Zenon
  <2> QED BY <2>3, <2>4, <2>5, Zenon
<1> HIDE DEF u, v
<1>5. e \in Seq(Blocks) /\ Len(e) = Len(q) - 1
  <2>1. e \in Seq(Blocks) /\ Len(e) = Len(u) + Len(v)
    BY <1>a, <1>b, ConcatProperties, Zenon
  <2> QED BY <2>1, <1>4, <1>a, <1>b
<1>6. \A j \in 1..Len(e) : e[j] = IF j < i THEN q[j] ELSE q[j + 1]
  <2> SUFFICES ASSUME NEW j \in 1..Len(e) PROVE e[j] = IF j < i THEN q[j] ELSE q[j + 1]
    BY Zenon
  <2>1. CASE j < i
    BY <2>1, <1>4, <1>5, <1>a, <1>b
  <2>2. CASE ~ (j < i)
    <3>1. j - (i - 1) \in 1..(Len(q) - i) /\ (j - (i - 1)) + i = j + 1
      BY <2>2, <1>4, <1>5
    <3>2. e[j] = v[j - (i - 1)]
      BY <2>2, <1>4, <1>5, <1>a, <1>b
    <3> QED BY <2>2, <3>1, <3>2, <1>b, Zenon
  <2> QED BY <2>1, <2>2, Zenon
<1> HIDE DEF e
<1>7. DOMAIN e = 1..Len(e)
  BY <1>5
<1>8. IsInjective(e)
  <2>1. \A j, k \in 1..Len(q) : q[j] = q[k] => j = k
    BY <1>4, Zenon DEF IsInjective
  <2>2. \A j, k \in 1..Len(e) : e[j] = e[k] => j = k
    BY <2>1, <1>4, <1>5, <1>6
  <2> QED BY <2>2, <1>7, Zenon DEF IsInjective
<1>9. Range(e) = Range(q) \ {b}
  <2>1. \A j \in 1..Len(q) : q[j] = b => j = i
    BY <1>2, <1>4, Zenon DEF IsInjective
  <2>2. \A j \in 1..Len(e) : \E k \in 1..Len(q) : e[j] = q[k] /\ k # i
    <3> SUFFICES ASSUME NEW j \in 1..Len(e) PROVE \E k \in 1..Len(q) : e[j] = q[k] /\ k # i
      BY Zenon
    <3>1. CASE j < i
      BY <3>1, <1>4, <1>5, <1>6
    <3>2. CASE ~ (j < i)
      <4>1. j + 1 \in 1..Len(q) /\ e[j] = q[j + 1] /\ j + 1 # i
        BY <3>2, <1>4, <1>5, <1>6
      <4> QED BY <4>1, Zenon
    <3> QED BY <3>1, <3>2, Zenon
  <2>3. \A k \in 1..Len(q) : k # i => \E j \in 1..Len(e) : e[j] = q[k]
    <3> SUFFICES ASSUME NEW k \in 1..Len(q), k # i PROVE \E j \in 1..Len(e) : e[j] = q[k]
      BY Zenon
    <3>1. CASE k < i
      BY <3>1, <1>4, <1>5, <1>6
    <3>2. CASE ~ (k < i)
      <4>1. k - 1 \in 1..Len(e) /\ ~ (k - 1 < i) /\ (k - 1) + 1 = k
        BY <3>2, <1>4, <1>5
      <4> QED BY <4>1, <1>6, Zenon
    <3> QED BY <3>1, <3>2, Zenon
  <2>4. \A x : x \in Range(e) <=> \E j \in 1..Len(e) : e[j] = x
    BY <1>7, Zenon DEF Range
  <2>5. \A x : x \in Range(q) <=> \E k \in 1..Len(q) : q[k] = x
    BY <1>4, Zenon DEF Range
  <2>6. \A x : x \in Range(e) => x \in Range(q) \ {b}
    BY <2>1, <2>2, <2>4, <2>5, Zenon
  <2>7. \A x : x \in Range(q) \ {b} => x \in Range(e)
    BY <1>2, <2>3, <2>4, <2>5, Zenon
  <2> QED BY <2>6, <2>7, Zenon
<1> QED BY <1>3, <1>5, <1>8, <1>9, Zenon

(* A request goes to the end of the list. *)
LEMMA AppendOne ==
  ASSUME NEW q \in Seq(Blocks), IsInjective(q), NEW b \in Blocks, b \notin Range(q)
  PROVE  /\ Append(q, b) \in Seq(Blocks) /\ IsInjective(Append(q, b)) /\ Append(q, b) # <<>>
         /\ Len(Append(q, b)) = Len(q) + 1 /\ Range(Append(q, b)) = Range(q) \cup {b}
<1> DEFINE a == Append(q, b)
<1>1. a \in Seq(Blocks) /\ Len(a) = Len(q) + 1 /\ Len(q) \in Nat
  OBVIOUS
<1>2. (\A j \in 1..Len(q) : a[j] = q[j]) /\ a[Len(q) + 1] = b
  OBVIOUS
<1>3. DOMAIN a = 1..(Len(q) + 1) /\ DOMAIN q = 1..Len(q)
  OBVIOUS
<1> HIDE DEF a
<1>4. \A j \in 1..Len(q) : q[j] # b
  BY <1>3, Zenon DEF Range
<1>5. IsInjective(a)
  <2>1. \A j, k \in 1..Len(q) : q[j] = q[k] => j = k
    BY <1>3, Zenon DEF IsInjective
  <2>2. \A j, k \in 1..(Len(q) + 1) : a[j] = a[k] => j = k
    BY <2>1, <1>1, <1>2, <1>4
  <2> QED BY <2>2, <1>3, Zenon DEF IsInjective
<1>6. Range(a) = Range(q) \cup {b}
  <2>1. \A x : x \in Range(a) <=> \E j \in 1..(Len(q) + 1) : a[j] = x
    BY <1>3, Zenon DEF Range
  <2>2. \A x : x \in Range(q) <=> \E j \in 1..Len(q) : q[j] = x
    BY <1>3, Zenon DEF Range
  <2>3. \A x : (\E j \in 1..(Len(q) + 1) : a[j] = x) <=> (\E j \in 1..Len(q) : q[j] = x) \/ x = b
    BY <1>1, <1>2
  <2> QED BY <2>1, <2>2, <2>3, Zenon
<1>7. a # <<>>
  BY <1>1
<1> QED BY <1>1, <1>5, <1>6, <1>7, Zenon DEF a

(* The queues hold each block once, so one that is empty holds none. *)
LEMMA EmptyQueue ==
  ASSUME NEW q \in Seq(Blocks)
  PROVE  /\ Len(q) \in Nat /\ (Len(q) = 0 <=> q = <<>>) /\ Range(q) \subseteq Blocks
         /\ (q = <<>> <=> Range(q) = {})
<1>1. Len(q) \in Nat /\ (Len(q) = 0 <=> q = <<>>) /\ DOMAIN q = 1..Len(q) /\ \A i \in 1..Len(q) : q[i] \in Blocks
  OBVIOUS
<1>2. Range(q) \subseteq Blocks
  BY <1>1, Zenon DEF Range
<1>3. Range(q) = {} <=> 1..Len(q) = {}
  BY <1>1, Zenon DEF Range
<1>4. \A l \in Nat : 1..l = {} <=> l = 0
  <2>1. \A l \in Nat : l # 0 => 1 \in 1..l
    OBVIOUS
  <2> QED BY <2>1
<1> QED BY <1>1, <1>2, <1>3, <1>4, Zenon

(* A record of the download state stays one. *)
LEMMA RecordUpdate ==
  ASSUME NEW SA, NEW SB, NEW SC, NEW SD, NEW SE, NEW SF,
         NEW h \in [from : SA, queue : SB, count : SC, stalling : SD, partial : SE, peers : SF],
         NEW A \in SA, NEW B \in SB, NEW C \in SC, NEW D \in SD, NEW E \in SE, NEW F \in SF
  PROVE  [h EXCEPT !.from = A, !.queue = B, !.count = C, !.stalling = D, !.partial = E, !.peers = F]
           \in [from : SA, queue : SB, count : SC, stalling : SD, partial : SE, peers : SF]
  BY ZenonT(60)
(* The same, for the types of the download state. *)
LEMMA Updated ==
  ASSUME NEW f, FlightType(f), NEW A \in [Blocks -> Nodes \cup {NoNode}], NEW B \in [Nodes -> Seq(Blocks)],
         NEW C \in [Nodes -> Nat], NEW D \in SUBSET Nodes, NEW E \in SUBSET Blocks, NEW F \in Int
  PROVE  FlightType([f EXCEPT !.from = A, !.queue = B, !.count = C, !.stalling = D, !.partial = E, !.peers = F])
  BY RecordUpdate, Zenon DEF FlightType

(* What MarkBlockAsReceived does: b is in flight no more. *)
Shrinks(f, r, b) ==
  /\ r.from = [f.from EXCEPT ![b] = NoNode] /\ r.partial = f.partial \ {b}
  /\ r.stalling \subseteq f.stalling
  /\ \A n \in Nodes : /\ Range(r.queue[n]) = Range(f.queue[n]) \ {b}
                      /\ Len(r.queue[n]) <= Len(f.queue[n])

(* MarkBlockAsReceived keeps the map, the lists and the counters in step. *)
LEMMA ReceivedOK ==
  ASSUME NEW f, FlightOK(f), NEW b \in Blocks
  PROVE  FlightOK(MarkBlockAsReceived(f, b)) /\ Shrinks(f, MarkBlockAsReceived(f, b), b)
<1> DEFINE m == f.from[b]
           r == MarkBlockAsReceived(f, b)
<1>1. /\ f.from \in [Blocks -> Nodes \cup {NoNode}] /\ f.queue \in [Nodes -> Seq(Blocks)]
      /\ f.count \in [Nodes -> Nat] /\ f.stalling \subseteq Nodes /\ f.partial \subseteq Blocks
      /\ f.peers \in Int /\ NoNode \notin Nodes /\ IsFiniteSet(Nodes)
  BY DownloadConstants, Zenon DEF FlightOK, FlightType
<1>2. CASE m = NoNode
  <2>1. r = f
    BY <1>2, Zenon DEF MarkBlockAsReceived
  <2>2. \A n \in Nodes : b \notin Range(f.queue[n])
    BY <1>1, <1>2, Zenon DEF FlightOK
  <2>3. b \notin f.partial
    BY <1>2, Zenon DEF FlightOK, InFlight
  <2>4. f.from = [f.from EXCEPT ![b] = NoNode]
    BY <1>1, <1>2, Zenon
  <2>5. \A n \in Nodes : Len(f.queue[n]) <= Len(f.queue[n])
    <3>1. \A n \in Nodes : Len(f.queue[n]) \in Nat
      BY <1>1, EmptyQueue, Zenon
    <3> QED BY <3>1
  <2>6. Shrinks(f, f, b)
    BY <2>2, <2>3, <2>4, <2>5, Zenon DEF Shrinks
  <2> QED BY <2>1, <2>6, Zenon
<1>3. CASE m # NoNode
  <2> DEFINE q == f.queue[m]
             e == Erase(q, b)
             g == [f EXCEPT !.from[b] = NoNode, !.queue[m] = Erase(@, b), !.count[m] = @ - 1,
                            !.stalling = @ \ {m}, !.partial = @ \ {b},
                            !.peers = IF f.count[m] = 1 THEN @ - 1 ELSE @]
  <2>1. m \in Nodes /\ q \in Seq(Blocks) /\ IsInjective(q) /\ b \in Range(q) /\ f.count[m] = Len(q)
    <3>1. m \in Nodes /\ m = f.from[b]
      BY <1>1, <1>3, Zenon
    <3> HIDE DEF m
    <3> QED BY <3>1, <1>1, Zenon DEF FlightOK
  <2>2. e \in Seq(Blocks) /\ IsInjective(e) /\ Len(e) = Len(q) - 1 /\ Range(e) = Range(q) \ {b}
    BY <2>1, EraseOne, Zenon
  <2>3. r = g
    BY <1>3, Zenon DEF MarkBlockAsReceived
  <2> HIDE DEF e
  <2>4. /\ g.from = [f.from EXCEPT ![b] = NoNode] /\ g.queue = [f.queue EXCEPT ![m] = e]
        /\ g.count = [f.count EXCEPT ![m] = @ - 1] /\ g.stalling = f.stalling \ {m}
        /\ g.partial = f.partial \ {b}
        /\ g.peers = IF f.count[m] = 1 THEN f.peers - 1 ELSE f.peers
    <3>1. f = [from |-> f.from, queue |-> f.queue, count |-> f.count, stalling |-> f.stalling,
               partial |-> f.partial, peers |-> f.peers]
      BY Zenon DEF FlightOK, FlightType
    <3> QED BY <3>1, Zenon DEF e
  <2>g. g = [f EXCEPT !.from = g.from, !.queue = g.queue, !.count = g.count,
                      !.stalling = g.stalling, !.partial = g.partial, !.peers = g.peers]
    BY Zenon DEF FlightOK, FlightType
  <2> HIDE DEF g
  <2> HIDE DEF m
  <2>5. Len(q) \in Nat \ {0} /\ Len(e) \in Nat /\ f.count[m] - 1 = Len(e)
    BY <2>1, <2>2, EmptyQueue, Zenon
  <2>6. FlightType(g)
    <3>1. g.from \in [Blocks -> Nodes \cup {NoNode}] /\ g.queue \in [Nodes -> Seq(Blocks)]
      BY <1>1, <2>1, <2>2, <2>4
    <3>2. g.count \in [Nodes -> Nat]
      BY <1>1, <2>1, <2>4, <2>5
    <3>3. g.stalling \in SUBSET Nodes /\ g.partial \in SUBSET Blocks /\ g.peers \in Int
      BY <1>1, <2>4
    <3>4. FlightType([f EXCEPT !.from = g.from, !.queue = g.queue, !.count = g.count,
                      !.stalling = g.stalling, !.partial = g.partial, !.peers = g.peers])
      <4>1. FlightType(f)
        BY Zenon DEF FlightOK
      <4> QED BY <3>1, <3>2, <3>3, <4>1, Updated, Zenon
    <3> QED BY <3>4, <2>g, Zenon
  <2>7. \A n \in Nodes : g.queue[n] = IF n = m THEN e ELSE f.queue[n]
    BY <1>1, <2>4, Zenon
  <2>8. \A n \in Nodes : Range(g.queue[n]) = Range(f.queue[n]) \ {b}
    <3>1. \A n \in Nodes : n # m => b \notin Range(f.queue[n])
      BY <1>1, <2>1, Zenon DEF FlightOK, m
    <3> QED BY <2>2, <2>7, <3>1, Zenon
  <2>9. \A c \in Blocks, n \in Nodes : g.from[c] = n <=> c \in Range(g.queue[n])
    <3>1. \A c \in Blocks : g.from[c] = IF c = b THEN NoNode ELSE f.from[c]
      BY <1>1, <2>4, Zenon
    <3>2. \A c \in Blocks, n \in Nodes : f.from[c] = n <=> c \in Range(f.queue[n])
      BY Zenon DEF FlightOK
    <3>3. b \in Blocks /\ \A n \in Nodes : b \notin Range(g.queue[n])
      BY <2>8, Zenon
    <3>4. \A c \in Blocks, n \in Nodes : c # b => (c \in Range(g.queue[n]) <=> c \in Range(f.queue[n]))
      BY <2>8, Zenon
    <3>5. \A n \in Nodes : g.from[b] # n /\ b \notin Range(g.queue[n])
      BY <3>1, <3>3, <1>1, Zenon
    <3>6. \A c \in Blocks, n \in Nodes : c # b => (g.from[c] = n <=> c \in Range(g.queue[n]))
      BY <3>1, <3>2, <3>4, Zenon
    <3> SUFFICES ASSUME NEW c \in Blocks, NEW n \in Nodes PROVE g.from[c] = n <=> c \in Range(g.queue[n])
      BY Zenon
    <3>7. CASE c = b
      BY <3>5, <3>7, Zenon
    <3>8. CASE c # b
      BY <3>6, <3>8, Zenon
    <3> QED BY <3>7, <3>8, Zenon
  <2>10. \A n \in Nodes : IsInjective(g.queue[n]) /\ g.count[n] = Len(g.queue[n])
    <3>1. \A n \in Nodes : g.count[n] = IF n = m THEN f.count[m] - 1 ELSE f.count[n]
      BY <1>1, <2>4, Zenon
    <3>2. \A n \in Nodes : IsInjective(f.queue[n]) /\ f.count[n] = Len(f.queue[n])
      BY Zenon DEF FlightOK
    <3> QED BY <2>2, <2>5, <2>7, <3>1, <3>2, Zenon
  <2>11. \A n \in g.stalling : g.queue[n] # <<>>
    <3>1. \A n \in f.stalling : f.queue[n] # <<>>
      BY Zenon DEF FlightOK
    <3> QED BY <3>1, <2>4, <2>7, <1>1, Zenon
  <2>12. g.peers = Cardinality(Busy(g))
    <3>1. Busy(f) \subseteq Nodes /\ IsFiniteSet(Busy(f)) /\ m \in Busy(f)
      <4>1. Busy(f) \in SUBSET Nodes /\ m \in Busy(f)
        BY <2>1, <2>5, EmptyQueue, Zenon DEF Busy
      <4> QED BY <4>1, <1>1, FS_Subset, Zenon
    <3>2. f.peers = Cardinality(Busy(f)) /\ f.count[m] = Len(q)
      BY <2>1, Zenon DEF FlightOK
    <3>3. CASE Len(q) = 1
      <4>1. e = <<>>
        BY <2>2, <3>3, EmptyQueue
      <4>2. Busy(g) = Busy(f) \ {m}
        BY <4>1, <2>7, Zenon DEF Busy
      <4>3. Cardinality(Busy(f) \ {m}) = Cardinality(Busy(f)) - 1
        BY <3>1, FS_RemoveElement, Zenon
      <4> QED BY <4>2, <4>3, <3>2, <3>3, <2>4, Zenon
    <3>4. CASE Len(q) # 1
      <4>1. Len(e) # 0
        BY <2>2, <2>5, <3>4
      <4>2. e # <<>>
        BY <4>1, <2>2, EmptyQueue, Zenon
      <4>3. Busy(g) = Busy(f)
        BY <4>2, <2>7, <3>1, Zenon DEF Busy
      <4> QED BY <4>3, <3>2, <3>4, <2>4, Zenon
    <3> QED BY <3>3, <3>4, Zenon
  <2>13. g.partial \subseteq InFlight(g)
    <3>1. f.partial \subseteq InFlight(f)
      BY Zenon DEF FlightOK
    <3> QED BY <3>1, <2>4, <1>1, Zenon DEF InFlight
  <2>14. \A n \in Nodes : Len(g.queue[n]) <= Len(f.queue[n])
    <3>1. \A n \in Nodes : Len(f.queue[n]) \in Nat
      BY <1>1, EmptyQueue, Zenon
    <3> QED BY <2>2, <2>5, <2>7, <3>1
  <2>15. FlightOK(g)
    BY <2>6, <2>9, <2>10, <2>11, <2>12, <2>13, Zenon DEF FlightOK
  <2>16. Shrinks(f, g, b)
    BY <2>4, <2>8, <2>14, Zenon DEF Shrinks
  <2> QED BY <2>3, <2>15, <2>16, Zenon
<1> QED BY <1>2, <1>3, Zenon

(* What MarkBlockAsInFlight does: b is in flight from n and nobody else. *)
Grows(f, r, n, b) ==
  /\ r.from = [f.from EXCEPT ![b] = n]
  /\ \A c \in Blocks : c # b => (c \in r.partial <=> c \in f.partial)
  /\ \A k \in Nodes :
       /\ Range(r.queue[k]) = IF k = n THEN Range(f.queue[k]) \cup {b} ELSE Range(f.queue[k]) \ {b}
       /\ Len(r.queue[k]) <= IF k = n /\ f.from[b] # n THEN Len(f.queue[k]) + 1 ELSE Len(f.queue[k])

(* MarkBlockAsInFlight keeps the map, the lists and the counters in step,   *)
(* also when the block is in flight from another peer.                      *)
LEMMA InFlightOK ==
  ASSUME NEW f, FlightOK(f), NEW n \in Nodes, NEW b \in Blocks, NEW part \in BOOLEAN
  PROVE  FlightOK(MarkBlockAsInFlight(f, n, b, part)) /\ Grows(f, MarkBlockAsInFlight(f, n, b, part), n, b)
<1>1. /\ f.from \in [Blocks -> Nodes \cup {NoNode}] /\ f.queue \in [Nodes -> Seq(Blocks)]
      /\ NoNode \notin Nodes /\ IsFiniteSet(Nodes)
  BY DownloadConstants, Zenon DEF FlightOK, FlightType
<1>l. \A k \in Nodes : Len(f.queue[k]) \in Nat
  BY <1>1, EmptyQueue, Zenon
<1>2. CASE f.from[b] = n
  <2>1. MarkBlockAsInFlight(f, n, b, part) = f
    BY <1>2, Zenon DEF MarkBlockAsInFlight
  <2>2. \A k \in Nodes : f.from[b] = k <=> b \in Range(f.queue[k])
    BY Zenon DEF FlightOK
  <2>3. \A k \in Nodes : Range(f.queue[k]) = IF k = n THEN Range(f.queue[k]) \cup {b} ELSE Range(f.queue[k]) \ {b}
    BY <1>2, <2>2, Zenon
  <2>4. f.from = [f.from EXCEPT ![b] = n]
    BY <1>1, <1>2, Zenon
  <2>5. \A k \in Nodes : Len(f.queue[k]) <= IF k = n /\ f.from[b] # n THEN Len(f.queue[k]) + 1 ELSE Len(f.queue[k])
    BY <1>l, <1>2
  <2>6. Grows(f, f, n, b)
    BY <2>3, <2>4, <2>5, Zenon DEF Grows
  <2> QED BY <2>1, <2>6, Zenon
<1>3. CASE f.from[b] # n
  <2> DEFINE r == MarkBlockAsReceived(f, b)
             q == r.queue[n]
             a == Append(q, b)
             g == [r EXCEPT !.from[b] = n, !.queue[n] = Append(@, b), !.count[n] = @ + 1,
                            !.partial = IF part THEN @ \cup {b} ELSE @,
                            !.peers = IF r.count[n] = 0 THEN @ + 1 ELSE @]
  <2>1. MarkBlockAsInFlight(f, n, b, part) = g
    BY <1>3, Zenon DEF MarkBlockAsInFlight
  <2>2. FlightOK(r) /\ Shrinks(f, r, b)
    BY ReceivedOK, Zenon
  <2> HIDE DEF r
  <2>3. /\ r.from \in [Blocks -> Nodes \cup {NoNode}] /\ r.queue \in [Nodes -> Seq(Blocks)]
        /\ r.count \in [Nodes -> Nat] /\ r.stalling \subseteq Nodes /\ r.partial \subseteq Blocks
        /\ r.peers \in Int
    BY <2>2, Zenon DEF FlightOK, FlightType
  <2>4. r.from[b] = NoNode /\ b \notin Range(q) /\ q \in Seq(Blocks) /\ IsInjective(q) /\ r.count[n] = Len(q)
    <3>1. r.from[b] = NoNode
      BY <2>2, <1>1, Zenon DEF Shrinks
    <3>2. \A c \in Blocks, k \in Nodes : r.from[c] = k <=> c \in Range(r.queue[k])
      BY <2>2, Zenon DEF FlightOK
    <3>3. b \notin Range(q)
      BY <3>1, <3>2, <1>1, Zenon
    <3>4. IsInjective(q) /\ r.count[n] = Len(q)
      BY <2>2, Zenon DEF FlightOK
    <3> QED BY <3>1, <3>3, <3>4, <2>3, Zenon
  <2>5. /\ a \in Seq(Blocks) /\ IsInjective(a) /\ a # <<>> /\ Len(a) = Len(q) + 1
        /\ Range(a) = Range(q) \cup {b}
    BY <2>4, AppendOne, Zenon
  <2> HIDE DEF a
  <2>6. /\ g.from = [r.from EXCEPT ![b] = n] /\ g.queue = [r.queue EXCEPT ![n] = a]
        /\ g.count = [r.count EXCEPT ![n] = @ + 1] /\ g.stalling = r.stalling
        /\ g.partial = IF part THEN r.partial \cup {b} ELSE r.partial
        /\ g.peers = IF r.count[n] = 0 THEN r.peers + 1 ELSE r.peers
    <3>1. r = [from |-> r.from, queue |-> r.queue, count |-> r.count, stalling |-> r.stalling,
               partial |-> r.partial, peers |-> r.peers]
      BY <2>2, Zenon DEF FlightOK, FlightType
    <3> QED BY <3>1, Zenon DEF a
  <2>g. g = [r EXCEPT !.from = g.from, !.queue = g.queue, !.count = g.count,
                      !.stalling = g.stalling, !.partial = g.partial, !.peers = g.peers]
    BY <2>2 DEF FlightOK, FlightType
  <2> HIDE DEF g
  <2>7. FlightType(g)
    <3>1. g.from \in [Blocks -> Nodes \cup {NoNode}] /\ g.queue \in [Nodes -> Seq(Blocks)]
      BY <2>3, <2>5, <2>6
    <3>2. g.count \in [Nodes -> Nat]
      BY <2>3, <2>6
    <3>3. g.stalling \in SUBSET Nodes /\ g.partial \in SUBSET Blocks /\ g.peers \in Int
      BY <2>3, <2>6
    <3>4. FlightType([r EXCEPT !.from = g.from, !.queue = g.queue, !.count = g.count,
                      !.stalling = g.stalling, !.partial = g.partial, !.peers = g.peers])
      <4>1. FlightType(r)
        BY <2>2, Zenon DEF FlightOK
      <4> QED BY <3>1, <3>2, <3>3, <4>1, Updated, Zenon
    <3> QED BY <3>4, <2>g, Zenon
  <2>8. \A k \in Nodes : g.queue[k] = IF k = n THEN a ELSE r.queue[k]
    BY <2>3, <2>6, Zenon
  <2>9. \A k \in Nodes : Range(g.queue[k]) = IF k = n THEN Range(r.queue[k]) \cup {b} ELSE Range(r.queue[k])
    BY <2>5, <2>8, Zenon
  <2>10. \A c \in Blocks, k \in Nodes : g.from[c] = k <=> c \in Range(g.queue[k])
    <3>1. \A c \in Blocks : g.from[c] = IF c = b THEN n ELSE r.from[c]
      BY <2>3, <2>6, Zenon
    <3>2. \A c \in Blocks, k \in Nodes : r.from[c] = k <=> c \in Range(r.queue[k])
      BY <2>2, Zenon DEF FlightOK
    <3>3. \A k \in Nodes : b \in Range(g.queue[k]) <=> k = n
      <4>1. \A k \in Nodes : b \notin Range(r.queue[k])
        BY <3>2, <2>4, <1>1, Zenon
      <4> QED BY <4>1, <2>9, Zenon
    <3>4. \A c \in Blocks, k \in Nodes : c # b => (c \in Range(g.queue[k]) <=> c \in Range(r.queue[k]))
      BY <2>9, Zenon
    <3> SUFFICES ASSUME NEW c \in Blocks, NEW k \in Nodes PROVE g.from[c] = k <=> c \in Range(g.queue[k])
      BY Zenon
    <3>7. CASE c = b
      BY <3>1, <3>3, <3>7, Zenon
    <3>8. CASE c # b
      BY <3>1, <3>2, <3>4, <3>8, Zenon
    <3> QED BY <3>7, <3>8, Zenon
  <2>11. \A k \in Nodes : IsInjective(g.queue[k]) /\ g.count[k] = Len(g.queue[k])
    <3>1. \A k \in Nodes : g.count[k] = IF k = n THEN r.count[n] + 1 ELSE r.count[k]
      BY <2>3, <2>6, Zenon
    <3>2. \A k \in Nodes : IsInjective(r.queue[k]) /\ r.count[k] = Len(r.queue[k])
      BY <2>2, Zenon DEF FlightOK
    <3> QED BY <2>4, <2>5, <2>8, <3>1, <3>2, Zenon
  <2>12. \A k \in g.stalling : g.queue[k] # <<>>
    <3>1. \A k \in r.stalling : r.queue[k] # <<>>
      BY <2>2, Zenon DEF FlightOK
    <3> QED BY <3>1, <2>3, <2>5, <2>6, <2>8, Zenon
  <2>13. g.peers = Cardinality(Busy(g))
    <3>1. Busy(r) \subseteq Nodes /\ IsFiniteSet(Busy(r)) /\ r.peers = Cardinality(Busy(r))
      <4>1. Busy(r) \in SUBSET Nodes
        BY Zenon DEF Busy
      <4> QED BY <4>1, <1>1, <2>2, FS_Subset, Zenon DEF FlightOK
    <3>2. Busy(g) = Busy(r) \cup {n}
      BY <2>5, <2>8, Zenon DEF Busy
    <3>3. r.count[n] = 0 <=> n \notin Busy(r)
      BY <2>4, EmptyQueue, Zenon DEF Busy
    <3>4. Cardinality(Busy(r) \cup {n}) = IF n \in Busy(r) THEN Cardinality(Busy(r)) ELSE Cardinality(Busy(r)) + 1
      BY <3>1, FS_AddElement, Zenon
    <3> QED BY <3>1, <3>2, <3>3, <3>4, <2>6, Zenon
  <2>14. g.partial \subseteq InFlight(g)
    <3>1. r.partial \subseteq InFlight(r)
      BY <2>2, Zenon DEF FlightOK
    <3> QED BY <3>1, <2>3, <2>6, <1>1 DEF InFlight
  <2>15. FlightOK(g)
    BY <2>7, <2>10, <2>11, <2>12, <2>13, <2>14, Zenon DEF FlightOK
  <2>16. Grows(f, g, n, b)
    <3>1. g.from = [f.from EXCEPT ![b] = n]
      BY <2>2, <2>6, <1>1, Zenon DEF Shrinks
    <3>2. \A c \in Blocks : c # b => (c \in g.partial <=> c \in f.partial)
      BY <2>2, <2>6, Zenon DEF Shrinks
    <3>3. \A k \in Nodes : /\ Range(r.queue[k]) = Range(f.queue[k]) \ {b}
                           /\ Len(r.queue[k]) <= Len(f.queue[k]) /\ Len(r.queue[k]) \in Nat
      BY <2>2, <2>3, EmptyQueue, Zenon DEF Shrinks
    <3>4. \A k \in Nodes : Range(g.queue[k]) = IF k = n THEN Range(f.queue[k]) \cup {b} ELSE Range(f.queue[k]) \ {b}
      BY <2>9, <3>3, Zenon
    <3>5. \A k \in Nodes : Len(g.queue[k]) <= IF k = n /\ f.from[b] # n THEN Len(f.queue[k]) + 1 ELSE Len(f.queue[k])
      BY <2>5, <2>8, <3>3, <1>l, <1>3
    <3> QED BY <3>1, <3>2, <3>4, <3>5, Zenon DEF Grows
  <2> QED BY <2>1, <2>15, <2>16, Zenon
<1> QED BY <1>2, <1>3, Zenon
-----------------------------------------------------------------------------
Flights == [from : [Blocks -> Nodes \cup {NoNode}], queue : [Nodes -> Seq(Blocks)],
            count : [Nodes -> Nat], stalling : SUBSET Nodes, partial : SUBSET Blocks, peers : Int]

(* What asking n for the blocks T, l of them, does. *)
Asked(f, r, n, T, l) ==
  /\ \A c \in Blocks : r.from[c] = IF c \in T THEN n ELSE f.from[c]
  /\ \A c \in Blocks \ T : c \in r.partial <=> c \in f.partial
  /\ \A k \in Nodes :
       /\ Range(r.queue[k]) = IF k = n THEN Range(f.queue[k]) \cup T ELSE Range(f.queue[k]) \ T
       /\ Len(r.queue[k]) <= IF k = n THEN Len(f.queue[k]) + l ELSE Len(f.queue[k])

(* One more block is asked for. *)
LEMMA AskOneMore ==
  ASSUME NEW f, FlightOK(f), NEW g, FlightOK(g), NEW r, FlightOK(r), NEW n \in Nodes, NEW b \in Blocks,
         NEW T \in SUBSET Blocks, NEW l \in Nat, Asked(f, g, n, T, l), Grows(g, r, n, b)
  PROVE  Asked(f, r, n, T \cup {b}, l + 1)
<1>1. /\ g.from \in [Blocks -> Nodes \cup {NoNode}]
      /\ \A k \in Nodes : f.queue[k] \in Seq(Blocks) /\ g.queue[k] \in Seq(Blocks) /\ r.queue[k] \in Seq(Blocks)
  BY DEF FlightOK, FlightType
<1>2. \A k \in Nodes : Len(f.queue[k]) \in Nat /\ Len(g.queue[k]) \in Nat /\ Len(r.queue[k]) \in Nat
  BY <1>1, EmptyQueue, Zenon
<1>3. \A c \in Blocks : r.from[c] = IF c \in T \cup {b} THEN n ELSE f.from[c]
  BY <1>1, Zenon DEF Asked, Grows
<1>4. \A c \in Blocks \ (T \cup {b}) : c \in r.partial <=> c \in f.partial
  BY Zenon DEF Asked, Grows
<1>5. \A k \in Nodes : Range(r.queue[k]) = IF k = n THEN Range(f.queue[k]) \cup (T \cup {b})
                                           ELSE Range(f.queue[k]) \ (T \cup {b})
  <2>1. \A k \in Nodes : Range(g.queue[k]) = IF k = n THEN Range(f.queue[k]) \cup T ELSE Range(f.queue[k]) \ T
    BY Zenon DEF Asked
  <2>2. \A k \in Nodes : Range(r.queue[k]) = IF k = n THEN Range(g.queue[k]) \cup {b} ELSE Range(g.queue[k]) \ {b}
    BY Zenon DEF Grows
  <2> QED BY <2>1, <2>2, Zenon
<1>6. \A k \in Nodes : Len(r.queue[k]) <= IF k = n THEN Len(f.queue[k]) + (l + 1) ELSE Len(f.queue[k])
  <2>1. \A k \in Nodes : Len(g.queue[k]) <= IF k = n THEN Len(f.queue[k]) + l ELSE Len(f.queue[k])
    BY Zenon DEF Asked
  <2>2. \A k \in Nodes : Len(r.queue[k]) <= IF k = n THEN Len(g.queue[k]) + 1 ELSE Len(g.queue[k])
    <3>1. \A k \in Nodes : Len(r.queue[k]) <= IF k = n /\ g.from[b] # n THEN Len(g.queue[k]) + 1 ELSE Len(g.queue[k])
      BY Zenon DEF Grows
    <3>2. \A x, y \in Nat : x <= y => x <= y + 1
      OBVIOUS
    <3> QED BY <3>1, <3>2, <1>2, Zenon
  <2>3. \A x, y, z \in Nat : (x <= y + 1 /\ y <= z + l => x <= z + (l + 1)) /\ (x <= y /\ y <= z => x <= z)
    OBVIOUS
  <2> QED BY <2>1, <2>2, <2>3, <1>2, Zenon
<1> QED BY <1>3, <1>4, <1>5, <1>6, Zenon DEF Asked

(* Asking n for blocks keeps the map, the lists and the counters in step.  *)
LEMMA RequestOK ==
  ASSUME NEW f, FlightOK(f), NEW n \in Nodes, NEW bs \in Seq(Blocks)
  PROVE  FlightOK(Request(f, n, bs)) /\ Asked(f, Request(f, n, bs), n, Range(bs), Len(bs))
<1> DEFINE l == Len(bs)
           asked[i \in 0..Len(bs)] ==
             IF i = 0 THEN f ELSE MarkBlockAsInFlight(asked[i - 1], n, bs[i], FALSE)
           S == {x \in Flights : FlightOK(x)}
           T(i) == {bs[j] : j \in 1..i}
           F == [i \in 0..l |-> [x \in S |-> IF i = 0 THEN x ELSE MarkBlockAsInFlight(x, n, bs[i], FALSE)]]
           U == [i \in 0..l |-> {x \in S : Asked(f, x, n, T(i), i)}]
<1>1. Request(f, n, bs) = asked[Len(bs)]
  BY Zenon DEF Request
<1>2. l \in Nat /\ \A i \in 1..l : bs[i] \in Blocks
  OBVIOUS
<1>3. f \in S /\ \A x : x \in S <=> FlightOK(x)
  BY Zenon DEF FlightOK, FlightType, Flights
<1> HIDE DEF S
<1>4. F \in [0..l -> [S -> S]]
  <2>1. \A i \in 0..l, x \in S : i # 0 => MarkBlockAsInFlight(x, n, bs[i], FALSE) \in S
    <3> SUFFICES ASSUME NEW i \in 0..l, NEW x \in S, i # 0 PROVE MarkBlockAsInFlight(x, n, bs[i], FALSE) \in S
      BY Zenon
    <3>1. bs[i] \in Blocks
      BY <1>2
    <3> QED BY <3>1, <1>3, InFlightOK, Zenon
  <2> QED BY <2>1, Zenon
<1>5. PICK g \in [0..l -> S] : g[0] = f /\ \A i \in 0..l : i # 0 => g[i] = F[i][g[i - 1]]
  <2> DEFINE m == l
  <2>1. 0 \in Nat /\ m \in Nat /\ 0 <= m /\ f \in S /\ F \in Steps(0, m, S)
    <3>1. \A x \in Nat : 0 \in Nat /\ 0 <= x
      OBVIOUS
    <3> HIDE DEF F
    <3> QED BY <3>1, <1>2, <1>3, <1>4, Zenon DEF Steps
  <2> HIDE DEF F, m
  <2>2. \E g : Runs(0, m, S, f, F, g)
    BY <2>1, IterationExists, Zenon
  <2> QED BY <2>2, Zenon DEF m, Runs
<1>6. g = [i \in 0..l |-> IF i = 0 THEN f ELSE MarkBlockAsInFlight(g[i - 1], n, bs[i], FALSE)]
  <2>1. \A i \in 0..l : i # 0 => i - 1 \in 0..l
    BY <1>2
  <2>2. \A i \in 0..l : i # 0 => F[i][g[i - 1]] = MarkBlockAsInFlight(g[i - 1], n, bs[i], FALSE)
    BY <2>1, Zenon
  <2>3. \A i \in 0..l : g[i] = IF i = 0 THEN f ELSE MarkBlockAsInFlight(g[i - 1], n, bs[i], FALSE)
    BY <1>5, <2>2, Zenon
  <2> QED BY <2>3, Zenon
<1>7. asked = [i \in 0..l |-> IF i = 0 THEN f ELSE MarkBlockAsInFlight(asked[i - 1], n, bs[i], FALSE)]
  <2>1. asked = CHOOSE h : h = [i \in 0..l |-> IF i = 0 THEN f ELSE MarkBlockAsInFlight(h[i - 1], n, bs[i], FALSE)]
    BY Zenon
  <2> HIDE DEF asked
  <2> QED BY <2>1, <1>6, Zenon
<1> HIDE DEF asked
<1>8. asked[0] = f /\ \A i \in 0..l : i # 0 => asked[i] = MarkBlockAsInFlight(asked[i - 1], n, bs[i], FALSE)
  <2>1. 0 \in 0..l
    BY <1>2
  <2> QED BY <2>1, <1>7, Zenon
<1>9. asked[0] \in U[0]
  <2>1. T(0) = {} /\ 0 \in 0..l
    BY <1>2
  <2>2. \A k \in Nodes : Len(f.queue[k]) \in Nat
    <3>1. \A k \in Nodes : f.queue[k] \in Seq(Blocks)
      BY Zenon DEF FlightOK, FlightType
    <3> QED BY <3>1, EmptyQueue, Zenon
  <2>3. \A x \in Nat : x <= x + 0 /\ x <= x
    OBVIOUS
  <2>4. Asked(f, f, n, {}, 0)
    BY <2>2, <2>3, Zenon DEF Asked
  <2>5. f \in U[0] <=> f \in S /\ Asked(f, f, n, T(0), 0)
    BY <2>1, Zenon
  <2> HIDE DEF T, U
  <2> QED BY <2>1, <2>4, <2>5, <1>3, <1>8, Zenon
<1>10. \A i \in 0..l : i # 0 /\ asked[i - 1] \in U[i - 1] => asked[i] \in U[i]
  <2> SUFFICES ASSUME NEW i \in 0..l, i # 0, asked[i - 1] \in U[i - 1] PROVE asked[i] \in U[i]
    BY Zenon
  <2> DEFINE x == asked[i - 1]
             y == asked[i]
             c == bs[i]
             j == i - 1
  <2>1. j \in 0..l /\ j \in Nat /\ c \in Blocks /\ T(i) = T(j) \cup {c} /\ j + 1 = i /\ T(j) \in SUBSET Blocks
    <3>1. 1..i = 1..j \cup {i} /\ j \in 0..l /\ j \in Nat /\ j + 1 = i /\ \A z \in 1..i : z \in 1..l
      BY <1>2
    <3> HIDE DEF j, l
    <3> QED BY <3>1, <1>2, Zenon
  <2>2. x \in S /\ Asked(f, x, n, T(j), j)
    BY <2>1, Zenon
  <2>3. y = MarkBlockAsInFlight(x, n, c, FALSE)
    BY <1>8, Zenon
  <2> HIDE DEF x, y, c, j, T
  <2>4. FlightOK(x) /\ FlightOK(y) /\ Grows(x, y, n, c)
    BY <2>1, <2>2, <2>3, <1>3, InFlightOK, Zenon
  <2>5. Asked(f, y, n, T(j) \cup {c}, j + 1)
    BY <2>1, <2>2, <2>4, AskOneMore, Zenon
  <2>6. y \in S /\ Asked(f, y, n, T(i), i)
    BY <2>1, <2>4, <2>5, <1>3, Zenon
  <2> QED BY <2>6, Zenon DEF y
<1> HIDE DEF U
<1>11. asked[l] \in U[l]
  <2> DEFINE m == l
  <2>1. 0 \in Nat /\ m \in Nat /\ m \in 0..m
    BY <1>2
  <2> HIDE DEF m
  <2>2. asked[0] \in U[0] /\ \A i \in 0..m : i # 0 /\ asked[i - 1] \in U[i - 1] => asked[i] \in U[i]
    BY <1>9, <1>10, Zenon DEF m
  <2>3. \A i \in 0..m : asked[i] \in U[i]
    BY <2>1, <2>2, IterationStays, Zenon
  <2> QED BY <2>1, <2>3, Zenon DEF m
<1>12. T(l) = Range(bs) /\ l \in 0..l
  BY <1>2 DEF Range
<1>13. asked[l] \in S /\ Asked(f, asked[l], n, T(l), l)
  BY <1>11, <1>12, Zenon DEF U
<1> QED BY <1>1, <1>3, <1>12, <1>13, Zenon
-----------------------------------------------------------------------------
(* The heights on the branch of b are those from 0 to that of b. *)
OnBranch(b) ==
  /\ \A a \in Anc[b] : Height[a] <= Height[b]
  /\ \A h \in 0..Height[b] : \E x \in Anc[b] : Height[x] = h

(* A branch has a block at each height from 0 to that of its last block, so *)
(* GetAncestor finds one.                                                   *)
LEMMA BranchHeights == \A b \in Blocks : OnBranch(b)
<1> SUFFICES ASSUME \E b \in Blocks : ~ OnBranch(b) PROVE FALSE
  BY Zenon
<1> DEFINE T == {Height[b] : b \in {x \in Blocks : ~ OnBranch(x)}}
<1>1. T \in SUBSET Nat /\ T # {}
  BY Tree
<1>2. PICK m \in T : \A y \in T : ~ (y < m)
  BY <1>1, LeastNat, Zenon
<1>3. PICK b \in Blocks : ~ OnBranch(b) /\ Height[b] = m
  BY <1>2, Zenon
<1>4. CASE b = Genesis
  <2>1. Anc[b] = {b} /\ Height[b] = 0
    BY <1>4, Tree, Zenon
  <2>2. \A h \in 0..0 : h = 0
    OBVIOUS
  <2>3. 0 <= 0
    OBVIOUS
  <2>4. OnBranch(b)
    BY <2>1, <2>2, <2>3, Zenon DEF OnBranch
  <2> QED BY <2>4, <1>3, Zenon
<1>5. CASE b # Genesis
  <2> DEFINE p == Parent[b]
  <2>1. p \in Blocks /\ Anc[b] = {b} \cup Anc[p] /\ Height[b] = Height[p] + 1
    BY <1>5, Tree, Zenon
  <2>2. Anc[p] \subseteq Blocks /\ Height[p] \in Nat /\ \A x \in Blocks : Height[x] \in Nat
    BY <2>1, Tree, Zenon
  <2> HIDE DEF p
  <2>3. Height[p] < m
    BY <2>1, <2>2, <1>3
  <2>4. OnBranch(p)
    BY <2>1, <2>3, <1>2, Zenon
  <2>5. \A a \in Anc[b] : Height[a] <= Height[b]
    <3>1. \A a \in Anc[p] : Height[a] <= Height[p] /\ Height[a] \in Nat
      BY <2>2, <2>4, Zenon DEF OnBranch
    <3>2. \A x, y \in Nat : (x <= y => x <= y + 1) /\ y + 1 <= y + 1
      OBVIOUS
    <3> QED BY <3>1, <3>2, <2>1, <2>2, Zenon
  <2>6. \A h \in 0..Height[b] : \E x \in Anc[b] : Height[x] = h
    <3>1. \A y \in Nat : \A h \in 0..(y + 1) : h \in 0..y \/ h = y + 1
      OBVIOUS
    <3> QED BY <3>1, <2>1, <2>2, <2>4, Zenon DEF OnBranch
  <2> QED BY <2>5, <2>6, <1>3, Zenon DEF OnBranch
<1> QED BY <1>4, <1>5, Zenon

(* A branch, without the genesis block. *)
Above(b) == Anc[b] \ {Genesis}

(* GetAncestor finds the block at a height of the branch. *)
LEMMA AtHeightOnBranch ==
  ASSUME NEW b \in Blocks, NEW h \in 0..Height[b]
  PROVE  AtHeight(b, h) \in Anc[b] /\ (h # 0 => AtHeight(b, h) \in Above(b))
<1>1. AtHeight(b, h) \in Anc[b] /\ Height[AtHeight(b, h)] = h
  BY BranchHeights, Zenon DEF OnBranch, AtHeight
<1>2. Height[Genesis] = 0
  BY Tree, Zenon
<1> QED BY <1>1, <1>2, Zenon DEF Above

(* LastCommonAncestor is on both branches. *)
LEMMA CommonAncestor ==
  ASSUME NEW a \in Blocks, NEW b \in Blocks
  PROVE  LastCommonAncestor(a, b) \in Anc[a] \cap Anc[b]
<1> DEFINE C == Anc[a] \cap Anc[b]
           T == {Height[a] - Height[x] : x \in C}
<1>1. Genesis \in C /\ C \subseteq Blocks /\ Height[a] \in Nat
  BY Tree, Zenon
<1>2. \A x \in C : Height[x] \in Nat /\ Height[x] <= Height[a]
  <2>1. \A x \in Blocks : Height[x] \in Nat
    BY Tree, Zenon
  <2> QED BY <2>1, <1>1, BranchHeights, Zenon DEF OnBranch
<1> HIDE DEF C
<1>3. T \in SUBSET Nat /\ T # {}
  BY <1>1, <1>2
<1>4. PICK m \in T : \A y \in T : ~ (y < m)
  BY <1>3, LeastNat, Zenon
<1>5. PICK x \in C : Height[a] - Height[x] = m
  BY <1>4, Zenon
<1>6. \A y \in C : ~ (Height[a] - Height[y] < Height[a] - Height[x])
  BY <1>4, <1>5, Zenon
<1>7. \A y \in C : Height[y] <= Height[x]
  BY <1>1, <1>2, <1>6
<1>8. \E z \in C : \A y \in C : Height[y] <= Height[z]
  BY <1>7, Zenon
<1> QED BY <1>8, Zenon DEF LastCommonAncestor, C

(* The blocks of a set on the branch of b, in order, are blocks of the     *)
(* branch.                                                                 *)
LEMMA AscendingOnBranch ==
  ASSUME NEW b \in Blocks, NEW X
  PROVE  Ascending(b, X) \in Seq(Above(b))
<1> DEFINE l == Height[b]
           up[h \in 0..Height[b]] ==
             IF h = 0 THEN <<>>
             ELSE IF AtHeight(b, h) \in X THEN Append(up[h - 1], AtHeight(b, h)) ELSE up[h - 1]
           S == Seq(Above(b))
           F == [h \in 0..l |-> [q \in S |-> IF h # 0 /\ AtHeight(b, h) \in X THEN Append(q, AtHeight(b, h)) ELSE q]]
<1>1. Ascending(b, X) = up[l]
  BY Zenon DEF Ascending
<1>2. up = CHOOSE g : g = [h \in 0..l |-> IF h = 0 THEN <<>>
              ELSE IF AtHeight(b, h) \in X THEN Append(g[h - 1], AtHeight(b, h)) ELSE g[h - 1]]
  BY Zenon
<1> HIDE DEF up
<1>3. l \in Nat /\ \A h \in 0..l : h # 0 => AtHeight(b, h) \in Above(b)
  <2>1. l \in Nat
    BY Tree, Zenon
  <2> QED BY <2>1, AtHeightOnBranch, Zenon
<1> HIDE DEF l
<1>4. \A h \in 0..l, q \in S : (IF h # 0 /\ AtHeight(b, h) \in X THEN Append(q, AtHeight(b, h)) ELSE q) \in S
  BY <1>3, AppendProperties, Zenon
<1>5. <<>> \in S
  OBVIOUS
<1> HIDE DEF S
<1>6. F \in Steps(0, l, S)
  BY <1>4, Zenon DEF Steps
<1>7. PICK g : Runs(0, l, S, <<>>, F, g)
  <2>1. 0 \in Nat /\ 0 <= l
    BY <1>3
  <2> HIDE DEF F
  <2> QED BY <2>1, <1>3, <1>5, <1>6, IterationExists, Zenon
<1>8. \A h \in 0..l : h # 0 => g[h] = IF AtHeight(b, h) \in X THEN Append(g[h - 1], AtHeight(b, h)) ELSE g[h - 1]
  <2>1. \A h \in 0..l : h # 0 => h - 1 \in 0..l
    BY <1>3
  <2> QED BY <2>1, <1>7, Zenon DEF Runs
<1>9. g = [h \in 0..l |-> IF h = 0 THEN <<>>
              ELSE IF AtHeight(b, h) \in X THEN Append(g[h - 1], AtHeight(b, h)) ELSE g[h - 1]]
  BY <1>7, <1>8, Zenon DEF Runs
<1>10. up = [h \in 0..l |-> IF h = 0 THEN <<>>
              ELSE IF AtHeight(b, h) \in X THEN Append(up[h - 1], AtHeight(b, h)) ELSE up[h - 1]]
  BY <1>2, <1>9, Zenon
<1>11. up[0] = <<>> /\ \A h \in 0..l : h # 0 => up[h] = IF AtHeight(b, h) \in X
                                           THEN Append(up[h - 1], AtHeight(b, h)) ELSE up[h - 1]
  <2>1. 0 \in 0..l
    BY <1>3
  <2> QED BY <2>1, <1>10, Zenon
<1> DEFINE U == [h \in 0..l |-> S]
<1>12. \A h \in 0..l : up[h] \in U[h]
  <2>1. 0 \in Nat /\ 0 \in 0..l /\ \A h \in 0..l : h # 0 => h - 1 \in 0..l
    BY <1>3
  <2>2. up[0] \in U[0]
    BY <2>1, <1>5, <1>11, Zenon
  <2>3. \A h \in 0..l : h # 0 /\ up[h - 1] \in U[h - 1] => up[h] \in U[h]
    BY <2>1, <1>4, <1>11, Zenon
  <2> HIDE DEF U
  <2> QED BY <2>1, <2>2, <2>3, <1>3, IterationStays, Zenon
<1>13. l \in 0..l
  BY <1>3
<1> QED BY <1>1, <1>12, <1>13, Zenon DEF S, l

(* A part of a list of blocks, from the first on. *)
LEMMA FirstOf ==
  ASSUME NEW S, NEW q \in Seq(S), NEW m \in Nat
  PROVE  /\ SubSeq(q, 1, Min2(m, Len(q))) \in Seq(S) /\ Len(SubSeq(q, 1, Min2(m, Len(q)))) <= m
         /\ Len(SubSeq(q, 1, Min2(m, Len(q)))) \in Nat
<1> DEFINE k == Min2(m, Len(q))
<1>1. Len(q) \in Nat /\ \A i \in 1..Len(q) : q[i] \in S
  BY ElementOfSeq
<1>2. k \in Nat /\ k <= m /\ k <= Len(q)
  BY <1>1 DEF Min2
<1> HIDE DEF k
<1>3. k \in Int /\ 1 \in Int /\ \A i \in 1..k : q[i] \in S
  BY <1>1, <1>2
<1>4. SubSeq(q, 1, k) \in Seq(S) /\ Len(SubSeq(q, 1, k)) = IF 1 <= k THEN k - 1 + 1 ELSE 0
  BY <1>3, SubSeqProperties
<1>5. (IF 1 <= k THEN k - 1 + 1 ELSE 0) = k
  BY <1>2
<1> QED BY <1>2, <1>4, <1>5, Zenon DEF k

(* What is fetched at once after headers up to b: blocks of its branch,    *)
(* and no more than n has room for.                                        *)
LEMMA DirectFetchFits ==
  ASSUME NEW f, NEW n \in Nodes, NEW b \in Blocks,
         MAX_BLOCKS_IN_TRANSIT_PER_PEER - f.count[n] \in Nat
  PROVE  /\ DirectFetch(f, n, b) \in Seq(Above(b))
         /\ Len(DirectFetch(f, n, b)) <= MAX_BLOCKS_IN_TRANSIT_PER_PEER - f.count[n]
<1> DEFINE room == MAX_BLOCKS_IN_TRANSIT_PER_PEER - f.count[n]
           d == DirectFetch(f, n, b)
<1>1. d = <<>> \/ \E X : d = SubSeq(Ascending(b, X), 1, Min2(room, Len(Ascending(b, X))))
  BY Zenon DEF DirectFetch
<1> HIDE DEF d
<1>2. CASE d = <<>>
  <2>1. <<>> \in Seq(Above(b)) /\ Len(<<>>) = 0
    OBVIOUS
  <2>2. 0 <= room
    OBVIOUS
  <2> QED BY <1>2, <2>1, <2>2, Zenon DEF d
<1>3. CASE \E X : d = SubSeq(Ascending(b, X), 1, Min2(room, Len(Ascending(b, X))))
  <2> HIDE DEF room
  <2>1. PICK X : d = SubSeq(Ascending(b, X), 1, Min2(room, Len(Ascending(b, X))))
    BY <1>3, Zenon
  <2>2. d \in Seq(Above(b)) /\ Len(d) <= room
    BY <2>1, AscendingOnBranch, FirstOf, Zenon DEF room
  <2> QED BY <2>2, Zenon DEF d, room
<1> QED BY <1>1, <1>2, <1>3, Zenon
-----------------------------------------------------------------------------
(* What FindNextBlocksToDownload has found so far on the branch of best: a *)
(* block is left to be found as long as it goes on, and the peer that the  *)
(* window waits for owes a block, and is named only if there is nothing to *)
(* ask for.                                                                *)
Finds(best) == [common : Anc[best], blocks : Seq(Above(best)), staller : Nodes \cup {NoNode},
                waitingfor : Nodes \cup {NoNode}, done : BOOLEAN]
FoundOK(r, count) ==
  /\ Len(r.blocks) <= count /\ (~ r.done => Len(r.blocks) < count)
  /\ r.waitingfor # NoNode => flight.queue[r.waitingfor] # <<>>
  /\ r.staller # NoNode => r.done /\ r.blocks = <<>> /\ flight.queue[r.staller] # <<>>

(* The loop of FindNextBlocksToDownload keeps this. *)
LEMMA VisitedFound ==
  ASSUME FlightOK(flight), Genesis \in haveData, NEW n \in Nodes, NEW count \in Nat, NEW w, NEW best \in Blocks,
         NEW b \in Anc[best], NEW r \in Finds(best), FoundOK(r, count)
  PROVE  Visited(n, count, w, r, b) \in Finds(best) /\ FoundOK(Visited(n, count, w, r, b), count)
<1> DEFINE v == Visited(n, count, w, r, b)
<1>1. /\ r.common \in Anc[best] /\ r.blocks \in Seq(Above(best)) /\ r.staller \in Nodes \cup {NoNode}
      /\ r.waitingfor \in Nodes \cup {NoNode} /\ r.done \in BOOLEAN
  BY Zenon DEF Finds
<1>2. b \in Blocks /\ flight.from[b] \in Nodes \cup {NoNode} /\ NoNode \notin Nodes
  BY Tree, DownloadConstants, Zenon DEF FlightOK, FlightType
<1>3. flight.from[b] # NoNode => flight.queue[flight.from[b]] # <<>>
  <2> SUFFICES ASSUME flight.from[b] # NoNode PROVE flight.queue[flight.from[b]] # <<>>
    BY Zenon
  <2> DEFINE m == flight.from[b]
  <2>1. m \in Nodes /\ b \in Range(flight.queue[m])
    <3>1. m \in Nodes /\ m = flight.from[b]
      BY <1>2, Zenon
    <3> HIDE DEF m
    <3> QED BY <3>1, <1>2, Zenon DEF FlightOK
  <2>2. flight.queue[m] \in Seq(Blocks)
    BY <2>1, Zenon DEF FlightOK, FlightType
  <2> QED BY <2>1, <2>2, EmptyQueue, Zenon
<1>4. Len(r.blocks) \in Nat
  BY <1>1
<1>5. CASE r.done \/ b \in failed
  <2>1. v = [r EXCEPT !.done = TRUE]
    BY <1>5, Zenon DEF Visited
  <2>2. v \in Finds(best)
    BY <2>1, Zenon DEF Finds
  <2>3. v.blocks = r.blocks /\ v.waitingfor = r.waitingfor /\ v.staller = r.staller /\ v.done = TRUE
    BY <2>1, Zenon DEF Finds
  <2> HIDE DEF v
  <2>4. FoundOK(v, count)
    BY <2>3, Zenon DEF FoundOK
  <2> QED BY <2>2, <2>4, Zenon DEF v
<1>6. CASE ~ (r.done \/ b \in failed) /\ v = r
  BY <1>6, Zenon
<1>7. CASE ~ (r.done \/ b \in failed) /\ v = [r EXCEPT !.common = b]
  <2>2. v \in Finds(best)
    BY <1>7, Zenon DEF Finds
  <2>3. v.blocks = r.blocks /\ v.waitingfor = r.waitingfor /\ v.staller = r.staller /\ v.done = r.done
    BY <1>7, Zenon DEF Finds
  <2> HIDE DEF v
  <2>4. FoundOK(v, count)
    BY <2>3, Zenon DEF FoundOK
  <2> QED BY <2>2, <2>4, Zenon DEF v
<1>8. CASE flight.from[b] # NoNode /\ v = [r EXCEPT !.waitingfor = flight.from[b]]
  <2>2. v \in Finds(best)
    BY <1>2, <1>8, Zenon DEF Finds
  <2>3. v.blocks = r.blocks /\ v.waitingfor = flight.from[b] /\ v.staller = r.staller /\ v.done = r.done
    BY <1>8, Zenon DEF Finds
  <2> HIDE DEF v
  <2>4. FoundOK(v, count)
    BY <2>3, <1>3, <1>8, Zenon DEF FoundOK
  <2> QED BY <2>2, <2>4, Zenon DEF v
<1>9. CASE /\ ~ (r.done \/ b \in failed)
           /\ v = [r EXCEPT !.done = TRUE,
                   !.staller = IF r.blocks = <<>> /\ r.waitingfor # n THEN r.waitingfor ELSE @]
  <2> DEFINE s == IF r.blocks = <<>> /\ r.waitingfor # n THEN r.waitingfor ELSE r.staller
  <2>1. s \in Nodes \cup {NoNode} /\ v = [r EXCEPT !.done = TRUE, !.staller = s]
    BY <1>1, <1>9, Zenon
  <2>2. s # NoNode => r.blocks = <<>> /\ flight.queue[s] # <<>>
    BY <1>9, Zenon DEF FoundOK
  <2> HIDE DEF s
  <2>3. v \in Finds(best)
    BY <2>1, Zenon DEF Finds
  <2>4. v.blocks = r.blocks /\ v.waitingfor = r.waitingfor /\ v.staller = s /\ v.done = TRUE
    BY <2>1, Zenon DEF Finds
  <2> HIDE DEF v
  <2>5. FoundOK(v, count)
    BY <2>2, <2>4, Zenon DEF FoundOK
  <2> QED BY <2>3, <2>5, Zenon DEF v
<1>10. CASE /\ ~ (r.done \/ b \in failed) /\ b \notin haveData
            /\ v = [r EXCEPT !.blocks = Append(@, b), !.done = Len(r.blocks) + 1 = count]
  <2> DEFINE q == Append(r.blocks, b)
             d == (Len(r.blocks) + 1 = count)
  <2>1. q \in Seq(Above(best)) /\ d \in BOOLEAN /\ Len(q) = Len(r.blocks) + 1
    <3>1. q \in Seq(Above(best)) /\ Len(q) = Len(r.blocks) + 1
      <4>1. r.blocks \in Seq(Above(best))
        BY <1>1, Zenon
      <4>b. b \in Above(best)
        BY <1>10, Zenon DEF Above
      <4> HIDE DEF Finds, FoundOK
      <4>2. \A x \in Seq(Above(best)), y \in Above(best) : Append(x, y) \in Seq(Above(best)) /\ Len(Append(x, y)) = Len(x) + 1
        BY AppendProperties, Zenon
      <4> QED BY <4>1, <4>b, <4>2, Zenon
    <3>2. d \in BOOLEAN
      BY Zenon
    <3> HIDE DEF q, d
    <3> QED BY <3>1, <3>2, Zenon
  <2>2. v = [r EXCEPT !.blocks = q, !.done = d]
    BY <1>10, Zenon
  <2>3. Len(r.blocks) < count /\ r.staller = NoNode
    BY <1>10, Zenon DEF FoundOK
  <2>4. Len(q) <= count /\ (~ d => Len(q) < count)
    BY <2>1, <2>3, <1>4
  <2> HIDE DEF q, d
  <2>5. v \in Finds(best)
    BY <2>1, <2>2, Zenon DEF Finds
  <2>6. v.blocks = q /\ v.waitingfor = r.waitingfor /\ v.staller = r.staller /\ v.done = d
    BY <2>2, Zenon DEF Finds
  <2> HIDE DEF v
  <2>7. FoundOK(v, count)
    BY <2>3, <2>4, <2>6, Zenon DEF FoundOK
  <2> QED BY <2>5, <2>7, Zenon DEF v
<1> QED
  <2>1. CASE b \in haveData
    BY <2>1, <1>5, <1>6, <1>7, Zenon DEF Visited
  <2>2. CASE b \notin haveData /\ flight.from[b] # NoNode
    BY <2>2, <1>5, <1>6, <1>8, Zenon DEF Visited
  <2>3. CASE b \notin haveData /\ flight.from[b] = NoNode
    BY <2>3, <1>5, <1>9, <1>10, Zenon DEF Visited
  <2> QED BY <2>1, <2>2, <2>3, Zenon

(* The walk along the branch of best, from the block it has in common with *)
(* the active chain.                                                       *)
LEMMA WalkFound ==
  ASSUME FlightOK(flight), Genesis \in haveData, NEW n \in Nodes, NEW count \in Nat \ {0}, NEW best \in Blocks, NEW fork \in Anc[best]
  PROVE  Walk(n, count, fork, best) \in Finds(best) /\ FoundOK(Walk(n, count, fork, best), count)
<1> DEFINE nWindowEnd == Height[fork] + BLOCK_DOWNLOAD_WINDOW
           nMaxHeight == Min2(Height[best], nWindowEnd + 1)
           lo == Height[fork]
           walked[h \in Height[fork]..nMaxHeight] ==
             IF h = Height[fork] THEN Nothing(fork)
             ELSE Visited(n, count, nWindowEnd, walked[h - 1], AtHeight(best, h))
           S == {r \in Finds(best) : FoundOK(r, count)}
           F == [h \in lo..nMaxHeight |-> [r \in S |-> Visited(n, count, nWindowEnd, r, AtHeight(best, h))]]
<1>1. Walk(n, count, fork, best) = walked[nMaxHeight]
  BY Zenon DEF Walk
<1>2. walked = CHOOSE g : g = [h \in lo..nMaxHeight |-> IF h = lo THEN Nothing(fork)
              ELSE Visited(n, count, nWindowEnd, g[h - 1], AtHeight(best, h))]
  BY Zenon
<1> HIDE DEF walked
<1>3. lo \in Nat /\ nMaxHeight \in Nat /\ lo <= nMaxHeight /\ nMaxHeight <= Height[best]
  <2>1. fork \in Blocks /\ lo \in Nat /\ Height[best] \in Nat /\ BLOCK_DOWNLOAD_WINDOW \in Nat
    BY Tree, DownloadConstants, Zenon
  <2>2. lo <= Height[best]
    BY BranchHeights, Zenon DEF OnBranch
  <2> HIDE DEF lo
  <2> QED BY <2>1, <2>2 DEF Min2, lo
<1>4. \A h \in lo..nMaxHeight : AtHeight(best, h) \in Anc[best]
  <2>1. Height[best] \in Nat
    BY Tree, Zenon
  <2>2. \A h \in lo..nMaxHeight : h \in 0..Height[best]
    <3> HIDE DEF lo, nMaxHeight
    <3> QED BY <1>3, <2>1
  <2> QED BY <2>2, AtHeightOnBranch, Zenon
<1> HIDE DEF lo, nMaxHeight, nWindowEnd
<1>5. \A h \in lo..nMaxHeight, r \in S : Visited(n, count, nWindowEnd, r, AtHeight(best, h)) \in S
  <2>1. count \in Nat
    BY Zenon
  <2> QED BY <2>1, <1>4, VisitedFound, Zenon
<1>6. Nothing(fork) \in S
  <2> DEFINE r == Nothing(fork)
  <2>1. <<>> \in Seq(Above(best)) /\ Len(<<>>) = 0
    OBVIOUS
  <2>2. r \in Finds(best)
    BY <2>1, Zenon DEF Nothing, Finds
  <2>3. r.blocks = <<>> /\ r.waitingfor = NoNode /\ r.staller = NoNode
    BY Zenon DEF Nothing
  <2>4. 0 <= count /\ 0 < count
    OBVIOUS
  <2> HIDE DEF r
  <2> QED BY <2>1, <2>2, <2>3, <2>4, Zenon DEF FoundOK, r
<1>7. \A r : r \in S <=> r \in Finds(best) /\ FoundOK(r, count)
  BY Zenon
<1> HIDE DEF S
<1>8. F \in Steps(lo, nMaxHeight, S)
  BY <1>5, Zenon DEF Steps
<1>9. PICK g : Runs(lo, nMaxHeight, S, Nothing(fork), F, g)
  <2> HIDE DEF F
  <2> QED BY <1>3, <1>6, <1>8, IterationExists, Zenon
<1>10. lo \in lo..nMaxHeight /\ nMaxHeight \in lo..nMaxHeight /\ \A h \in lo..nMaxHeight : h # lo => h - 1 \in lo..nMaxHeight
  BY <1>3
<1>11. g = [h \in lo..nMaxHeight |-> IF h = lo THEN Nothing(fork)
              ELSE Visited(n, count, nWindowEnd, g[h - 1], AtHeight(best, h))]
  <2>1. \A h \in lo..nMaxHeight : h # lo => g[h] = Visited(n, count, nWindowEnd, g[h - 1], AtHeight(best, h))
    BY <1>9, <1>10, Zenon DEF Runs
  <2> QED BY <2>1, <1>9, Zenon DEF Runs
<1>12. walked = [h \in lo..nMaxHeight |-> IF h = lo THEN Nothing(fork)
              ELSE Visited(n, count, nWindowEnd, walked[h - 1], AtHeight(best, h))]
  BY <1>2, <1>11, Zenon
<1> DEFINE U == [h \in lo..nMaxHeight |-> S]
<1>13. \A h \in lo..nMaxHeight : walked[h] \in U[h]
  <2>1. walked[lo] \in U[lo]
    BY <1>6, <1>10, <1>12, Zenon
  <2>2. \A h \in lo..nMaxHeight : h # lo /\ walked[h - 1] \in U[h - 1] => walked[h] \in U[h]
    BY <1>5, <1>10, <1>12, Zenon
  <2> HIDE DEF U
  <2> QED BY <2>1, <2>2, <1>3, IterationStays, Zenon
<1> QED BY <1>1, <1>7, <1>10, <1>13, Zenon

(* FindNextBlocksToDownload names blocks of the index, no more than count, *)
(* and a staller only if it names no block.                                *)
LEMMA NextFound ==
  ASSUME FlightOK(flight), IndexInv, NEW n \in Nodes, NEW k \in Entries, NEW count \in Nat \ {0}
  PROVE  LET r == FindNextBlocksToDownload(n, k, count)
         IN /\ r.common \in index \cup {NoBlock} /\ r.blocks \in Seq(index \ {Genesis})
            /\ r.staller \in Nodes \cup {NoNode} /\ FoundOK(r, count)
<1> DEFINE r == FindNextBlocksToDownload(n, k, count)
           Goal(x) == /\ x.common \in index \cup {NoBlock} /\ x.blocks \in Seq(index \ {Genesis})
                      /\ x.staller \in Nodes \cup {NoNode} /\ FoundOK(x, count)
<1> SUFFICES Goal(r)
  BY Zenon
<1>1. k.common \in index \cup {NoBlock} /\ k.best \in index \cup {NoBlock}
  BY Zenon DEF Entries, EntriesOf
<1>2. Goal(Nothing(k.common))
  <2> DEFINE x == Nothing(k.common)
  <2>1. x.common = k.common /\ x.blocks = <<>> /\ x.waitingfor = NoNode /\ x.staller = NoNode
    BY Zenon DEF Nothing
  <2>2. <<>> \in Seq(index \ {Genesis}) /\ Len(<<>>) = 0 /\ 0 <= count /\ 0 < count
    OBVIOUS
  <2> HIDE DEF x
  <2>3. Goal(x)
    BY <2>1, <2>2, <1>1, Zenon DEF FoundOK
  <2> HIDE DEF Goal
  <2> QED BY <2>3, Zenon DEF x
<1>3. CASE k.best = NoBlock \/ Height[k.best] < Height[tip]
  <2>1. r = Nothing(k.common)
    BY <1>3, Zenon DEF FindNextBlocksToDownload
  <2> HIDE DEF Goal
  <2> QED BY <2>1, <1>2, Zenon
<1>4. CASE ~ (k.best = NoBlock \/ Height[k.best] < Height[tip])
  <2> DEFINE last == IF k.common = NoBlock THEN AtHeight(tip, Min2(Height[k.best], Height[tip])) ELSE k.common
             fork == LastCommonAncestor(last, k.best)
             w == Walk(n, count, fork, k.best)
  <2>1. r = w
    BY <1>4, Zenon DEF FindNextBlocksToDownload
  <2>2. k.best \in index /\ k.best \in Blocks /\ tip \in Blocks /\ Anc[k.best] \subseteq index
    BY <1>1, <1>4, Zenon DEF IndexInv
  <2>3. last \in Blocks
    <3>1. CASE k.common = NoBlock
      <4>1. Min2(Height[k.best], Height[tip]) \in 0..Height[tip]
        <5>1. Height[k.best] \in Nat /\ Height[tip] \in Nat
          BY <2>2, Tree, Zenon
        <5> QED BY <5>1 DEF Min2
      <4>2. last \in Anc[tip]
        BY <3>1, <4>1, <2>2, AtHeightOnBranch, Zenon
      <4> QED BY <4>2, <2>2, Tree
    <3>2. CASE k.common # NoBlock
      BY <3>2, <1>1, Zenon DEF IndexInv
    <3> QED BY <3>1, <3>2, Zenon
  <2> HIDE DEF last
  <2>4. fork \in Anc[k.best]
    BY <2>2, <2>3, CommonAncestor, Zenon
  <2> HIDE DEF fork
  <2>5. w \in Finds(k.best) /\ FoundOK(w, count)
    BY <2>2, <2>4, WalkFound, Zenon DEF IndexInv
  <2> HIDE DEF w
  <2>6. w.common \in Anc[k.best] /\ w.blocks \in Seq(Above(k.best)) /\ w.staller \in Nodes \cup {NoNode}
    BY <2>5, Zenon DEF Finds
  <2>7. w.blocks \in Seq(index \ {Genesis})
    <3>1. Above(k.best) \subseteq index \ {Genesis}
      BY <2>2, Zenon DEF Above
    <3> QED BY <2>6, <3>1
  <2>8. Goal(w)
    BY <2>2, <2>5, <2>6, <2>7, Zenon
  <2> HIDE DEF Goal
  <2> QED BY <2>1, <2>8, Zenon
<1> QED BY <1>3, <1>4, Zenon
-----------------------------------------------------------------------------
(* The index, the stored blocks and the refused ones only grow, and a       *)
(* stored block is not refused later.                                       *)
ChainGrows ==
  index \subseteq index' /\ haveData \subseteq haveData' /\ \A b \in haveData : b \in failed' => b \in failed

(* A step that leaves the chain alone. *)
LEMMA ChainSame ==
  ASSUME IndexInv, UNCHANGED chainVars
  PROVE  IndexInv' /\ ChainGrows
  BY Zenon DEF chainVars, IndexInv, ChainGrows

(* ProcessNewBlock, for a block whose parent is indexed, keeps the index a  *)
(* tree.                                                                    *)
LEMMA ProcessedOK ==
  ASSUME IndexInv, NEW b \in Blocks, b \in index \/ Parent[b] \in index, NEW force, ProcessNewBlock(b, force)
  PROVE  IndexInv' /\ ChainGrows /\ (Parent[b] \notin failed => b \in index')
         /\ (Accepted(b, force) => b \in index')
<1>1. /\ index \in SUBSET Blocks /\ (\A c \in index : Anc[c] \subseteq index)
      /\ Genesis \in haveData /\ haveData \subseteq index
      /\ failed \subseteq index \ haveData /\ tip \in haveData
  BY Zenon DEF IndexInv
<1>2. index' = IF Parent[b] \in failed THEN index ELSE index \cup {b}
  BY Zenon DEF ProcessNewBlock
<1>3. index' \in SUBSET Blocks /\ index \subseteq index' /\ (Parent[b] \notin failed => b \in index')
  BY <1>1, <1>2, Zenon
<1>4. \A c \in index' : Anc[c] \subseteq index'
  <2>1. Anc[b] \subseteq index \cup {b}
    <3>1. CASE b \in index
      BY <3>1, <1>1, Zenon
    <3>2. CASE b \notin index
      <4>1. b # Genesis /\ Parent[b] \in index
        BY <3>2, <1>1, Zenon
      <4>2. Anc[b] = {b} \cup Anc[Parent[b]]
        BY <4>1, Tree, Zenon
      <4> QED BY <4>1, <4>2, <1>1, Zenon
    <3> QED BY <3>1, <3>2, Zenon
  <2>2. CASE Parent[b] \in failed
    BY <2>2, <1>1, <1>2, Zenon
  <2>3. CASE Parent[b] \notin failed
    BY <2>1, <2>3, <1>1, <1>2, Zenon
  <2> QED BY <2>2, <2>3, Zenon
<1>5. ~ Refused(b) => Parent[b] \notin failed
  BY Zenon DEF Refused, ValidTransactions
<1>6. Accepted(b, force) => b \in index'
  BY <1>3, <1>5, Zenon DEF Accepted
<1>7. CASE Refused(b) \/ Ignored(b, force)
  <2>1. haveData' = haveData /\ failed' = failed /\ tip' = tip
    BY <1>7, Zenon DEF ProcessNewBlock
  <2> QED BY <2>1, <1>1, <1>3, <1>4, <1>6, Zenon DEF IndexInv, ChainGrows
<1>8. CASE ~ (Refused(b) \/ Ignored(b, force)) /\ b \in BadBlocks
  <2>1. haveData' = haveData /\ failed' = failed \cup {b} /\ tip' = tip
    BY <1>8, Zenon DEF ProcessNewBlock
  <2>2. b \notin haveData /\ b \in index'
    BY <1>3, <1>5, <1>8, Zenon DEF Ignored
  <2> QED BY <2>1, <2>2, <1>1, <1>3, <1>4, <1>6, Zenon DEF IndexInv, ChainGrows
<1>9. CASE ~ (Refused(b) \/ Ignored(b, force)) /\ b \notin BadBlocks
  <2>1. haveData' = haveData \cup {b} /\ failed' = failed /\ tip' \in BestLinked(haveData')
    BY <1>9, Zenon DEF ProcessNewBlock
  <2>2. b \notin failed /\ b \in index'
    BY <1>3, <1>5, <1>9, Zenon DEF Refused
  <2>3. tip' \in haveData'
    BY <2>1, <1>1, Zenon DEF BestLinked
  <2> QED BY <2>1, <2>2, <2>3, <1>1, <1>3, <1>4, <1>6, Zenon DEF IndexInv, ChainGrows
<1> QED BY <1>7, <1>8, <1>9, Zenon

(* What a peer is known to have stays indexed. *)
LEMMA EntriesGrow ==
  ASSUME NEW ind, NEW more, ind \subseteq more
  PROVE  EntriesOf(ind) \subseteq EntriesOf(more)
  BY Zenon DEF EntriesOf

(* ProcessBlockAvailability and UpdateBlockAvailability name indexed blocks. *)
LEMMA AvailabilityOK ==
  ASSUME NEW ind \in SUBSET Blocks, NEW k \in EntriesOf(ind), NEW b \in Blocks
  PROVE  ProcessBlockAvailability(k, ind) \in EntriesOf(ind) /\ UpdateBlockAvailability(k, ind, b) \in EntriesOf(ind)
<1> DEFINE S == ind \cup {NoBlock}
           B == Blocks \cup {NoBlock}
           p == ProcessBlockAvailability(k, ind)
<1>1. k.best \in S /\ k.unknown \in B /\ k.common \in S
  BY Zenon DEF EntriesOf
<1>2. \A e \in EntriesOf(ind) : \A x \in S, y \in B :
        [e EXCEPT !.best = x] \in EntriesOf(ind) /\ [e EXCEPT !.unknown = y] \in EntriesOf(ind)
        /\ [e EXCEPT !.best = x, !.unknown = y] \in EntriesOf(ind)
  BY Zenon DEF EntriesOf
<1>3. \A e \in EntriesOf(ind), c \in ind : Better(e, c) \in S
  BY Zenon DEF EntriesOf, Better
<1>4. p \in EntriesOf(ind)
  BY <1>1, <1>2, <1>3, Zenon DEF ProcessBlockAvailability
<1> HIDE DEF p
<1>5. UpdateBlockAvailability(k, ind, b) = IF b \in ind THEN [p EXCEPT !.best = Better(p, b)] ELSE [p EXCEPT !.unknown = b]
  BY Zenon DEF UpdateBlockAvailability, p
<1>6. UpdateBlockAvailability(k, ind, b) \in EntriesOf(ind)
  BY <1>2, <1>3, <1>4, <1>5, Zenon
<1> QED BY <1>4, <1>6, Zenon DEF p
-----------------------------------------------------------------------------
(* Outside the handler of BLOCK messages the waiting blocks stay as they    *)
(* are.                                                                     *)
LEMMA WaitSame ==
  ASSUME IndexInv, WaitInv, ChainGrows, UNCHANGED blockVars
  PROVE  WaitInv' /\ Waiting' = Waiting /\ displaced' = displaced
<1>1. /\ mapBlocksWait' = mapBlocksWait /\ displaced' = displaced
      /\ pindexLastAccepted' = pindexLastAccepted /\ pfrom' = pfrom /\ expired' = expired
  BY Zenon DEF blockVars
<1>2. Waiting' = Waiting
  BY <1>1, Zenon DEF Waiting
<1>3. \A p : ValidTransactions(p) => ValidTransactions(p)'
  BY Zenon DEF ValidTransactions, ChainGrows
<1>4. Idle' <=> Idle
  BY <1>1, Zenon DEF Idle
<1> QED BY <1>1, <1>2, <1>3, <1>4, Zenon DEF WaitInv, ChainGrows

(* A block that is served stays served when nothing is taken away. *)
LEMMA ServedStays ==
  ASSUME NEW n, NEW b, Served(n, b), Waiting' = Waiting, displaced' = displaced,
         \A a \in Range(answers[n]) :
           a.block = b /\ (a.kind = "block" \/ b \in flight.partial) => a \in Range(answers'[n]),
         b \in flight.partial => b \in flight'.partial, conn[n] = "drop" => conn'[n] = "drop"
  PROVE  Served(n, b)'
  BY Zenon DEF Served, Coming, Replaced

(* Answers are appended. *)
LEMMA AskOK ==
  ASSUME PeerInv, NEW n \in Nodes, NEW bs \in Seq(Blocks), NEW kind \in {"block", "txn"}, Ask(n, bs, kind)
  PROVE  /\ answers' \in [Nodes -> Seq(Answers)]
         /\ \A k \in Nodes : Range(answers[k]) \subseteq Range(answers'[k])
         /\ n \in Responsive => \A b \in Range(bs) : [kind |-> kind, block |-> b] \in Range(answers'[n])
<1> DEFINE a == [i \in DOMAIN bs |-> [kind |-> kind, block |-> bs[i]]]
           q == answers[n]
           c == q \o a
<1>1. answers \in [Nodes -> Seq(Answers)] /\ q \in Seq(Answers)
  BY Zenon DEF PeerInv
<1>2. Len(bs) \in Nat /\ DOMAIN bs = 1..Len(bs) /\ \A i \in 1..Len(bs) : bs[i] \in Blocks
  OBVIOUS
<1>3. \A i \in 1..Len(bs) : [kind |-> kind, block |-> bs[i]] \in Answers
  BY <1>2, Zenon DEF Answers
<1>4. a \in Seq(Answers) /\ Len(a) = Len(bs) /\ \A i \in 1..Len(bs) : a[i] = [kind |-> kind, block |-> bs[i]]
  <2>1. a \in [1..Len(bs) -> Answers] /\ \A i \in 1..Len(bs) : a[i] = [kind |-> kind, block |-> bs[i]]
    BY <1>2, <1>3, Zenon
  <2> HIDE DEF a
  <2>2. \A S, s : \A m \in Nat : s \in [1..m -> S] => s \in Seq(S) /\ Len(s) = m
    OBVIOUS
  <2> QED BY <2>1, <2>2, <1>2, Zenon
<1>5. answers' = [answers EXCEPT ![n] = IF n \in Responsive THEN c ELSE q]
  BY Zenon DEF Ask
<1> HIDE DEF a
<1>6. /\ c \in Seq(Answers) /\ Len(c) = Len(q) + Len(a)
      /\ \A i \in 1..(Len(q) + Len(a)) : c[i] = IF i <= Len(q) THEN q[i] ELSE a[i - Len(q)]
  BY <1>1, <1>4, ConcatProperties, Zenon
<1> HIDE DEF c, q
<1>7. Len(q) \in Nat /\ DOMAIN q = 1..Len(q) /\ DOMAIN c = 1..Len(c)
  BY <1>1, <1>6
<1>8. Range(q) \subseteq Range(c)
  <2>1. \A l, m \in Nat : \A i \in 1..l : i \in 1..(l + m) /\ i <= l
    OBVIOUS
  <2>2. \A i \in 1..Len(q) : i \in 1..Len(c) /\ c[i] = q[i]
    BY <2>1, <1>2, <1>4, <1>6, <1>7, Zenon
  <2> QED BY <2>2, <1>7, Zenon DEF Range
<1>9. \A b \in Range(bs) : [kind |-> kind, block |-> b] \in Range(c)
  <2> SUFFICES ASSUME NEW b \in Range(bs) PROVE [kind |-> kind, block |-> b] \in Range(c)
    BY Zenon
  <2>1. PICK i \in 1..Len(bs) : bs[i] = b
    BY <1>2, Zenon DEF Range
  <2>2. \A l, m \in Nat : \A j \in 1..m : l + j \in 1..(l + m) /\ ~ (l + j <= l) /\ (l + j) - l = j
    OBVIOUS
  <2>3. Len(q) + i \in 1..Len(c) /\ c[Len(q) + i] = a[i]
    BY <2>2, <1>2, <1>4, <1>6, <1>7, Zenon
  <2>4. a[i] = [kind |-> kind, block |-> b]
    BY <2>1, <1>4, Zenon
  <2> QED BY <2>3, <2>4, <1>7, Zenon DEF Range
<1>10. answers' \in [Nodes -> Seq(Answers)]
  BY <1>1, <1>5, <1>6, Zenon
<1>11. \A k \in Nodes : answers'[k] = IF k = n THEN (IF n \in Responsive THEN c ELSE q) ELSE answers[k]
  BY <1>1, <1>5, Zenon
<1>12. \A k \in Nodes : Range(answers[k]) \subseteq Range(answers'[k])
  BY <1>8, <1>11, Zenon DEF q
<1>13. n \in Responsive => \A b \in Range(bs) : [kind |-> kind, block |-> b] \in Range(answers'[n])
  BY <1>9, <1>11, Zenon
<1> QED BY <1>10, <1>12, <1>13, Zenon
-----------------------------------------------------------------------------
(* A partial block is entered for a block in flight. *)
LEMMA PartialOK ==
  ASSUME NEW f, FlightOK(f), NEW b \in InFlight(f)
  PROVE  LET g == [f EXCEPT !.partial = @ \cup {b}]
         IN FlightOK(g) /\ g.from = f.from /\ g.queue = f.queue /\ g.partial = f.partial \cup {b}
<1> DEFINE g == [f EXCEPT !.partial = @ \cup {b}]
<1>1. FlightType(f) /\ b \in Blocks /\ f.partial \subseteq Blocks
  BY Zenon DEF FlightOK, FlightType, InFlight
<1>2. /\ g.from = f.from /\ g.queue = f.queue /\ g.count = f.count /\ g.stalling = f.stalling
      /\ g.peers = f.peers /\ g.partial = f.partial \cup {b}
  BY <1>1, Zenon DEF FlightType
<1>3. FlightType(g)
  <2>1. \A h \in SUBSET Blocks : FlightType([f EXCEPT !.partial = h])
    BY <1>1, Zenon DEF FlightType
  <2>2. f.partial \cup {b} \in SUBSET Blocks
    BY <1>1, Zenon
  <2> QED BY <2>1, <2>2, Zenon
<1> HIDE DEF g
<1>4. Busy(g) = Busy(f) /\ InFlight(g) = InFlight(f)
  BY <1>2, Zenon DEF Busy, InFlight
<1>5. FlightOK(g)
  <2>1. g.partial \subseteq InFlight(g)
    BY <1>2, <1>4, Zenon DEF FlightOK
  <2> QED BY <1>2, <1>3, <1>4, <2>1, Zenon DEF FlightOK
<1> QED BY <1>2, <1>5, Zenon DEF g

(* The stalling timer of a peer that owes a block is started. *)
LEMMA StallOK ==
  ASSUME NEW f, FlightOK(f), NEW m \in Nodes, f.queue[m] # <<>>
  PROVE  LET g == [f EXCEPT !.stalling = @ \cup {m}]
         IN FlightOK(g) /\ g.from = f.from /\ g.queue = f.queue /\ g.partial = f.partial
<1> DEFINE g == [f EXCEPT !.stalling = @ \cup {m}]
<1>1. FlightType(f) /\ f.stalling \subseteq Nodes
  BY Zenon DEF FlightOK, FlightType
<1>2. /\ g.from = f.from /\ g.queue = f.queue /\ g.count = f.count /\ g.stalling = f.stalling \cup {m}
      /\ g.peers = f.peers /\ g.partial = f.partial
  BY <1>1, Zenon DEF FlightType
<1>3. FlightType(g)
  <2>1. \A h \in SUBSET Nodes : FlightType([f EXCEPT !.stalling = h])
    BY <1>1, Zenon DEF FlightType
  <2>2. f.stalling \cup {m} \in SUBSET Nodes
    BY <1>1, Zenon
  <2> QED BY <2>1, <2>2, Zenon
<1> HIDE DEF g
<1>4. Busy(g) = Busy(f) /\ InFlight(g) = InFlight(f)
  BY <1>2, Zenon DEF Busy, InFlight
<1>5. FlightOK(g)
  <2>1. \A k \in g.stalling : g.queue[k] # <<>>
    BY <1>2, Zenon DEF FlightOK
  <2>2. \A b \in Blocks, n \in Nodes : g.from[b] = n <=> b \in Range(g.queue[n])
    BY <1>2 DEF FlightOK
  <2>3. \A n \in Nodes : IsInjective(g.queue[n]) /\ g.count[n] = Len(g.queue[n])
    BY <1>2, Zenon DEF FlightOK
  <2>4. g.peers = Cardinality(Busy(g)) /\ g.partial \subseteq InFlight(g)
    BY <1>2, <1>4, Zenon DEF FlightOK
  <2> QED BY <1>3, <2>1, <2>2, <2>3, <2>4, Zenon DEF FlightOK
<1> QED BY <1>2, <1>5, Zenon DEF g

(* The limits: what is in flight is indexed and not the genesis block, and  *)
(* no list is longer than the limit.                                        *)
Within(g, ind) ==
  /\ InFlight(g) \subseteq ind \ {Genesis}
  /\ \A k \in Nodes : Len(g.queue[k]) <= MAX_BLOCKS_IN_TRANSIT_PER_PEER

(* Receiving a block keeps the limits. *)
LEMMA ShrinksWithin ==
  ASSUME NEW f, FlightOK(f), NEW g, FlightOK(g), NEW b \in Blocks, Shrinks(f, g, b), NEW ind, Within(f, ind)
  PROVE  /\ Within(g, ind) /\ \A k \in Nodes : f.queue[k] = <<>> => g.queue[k] = <<>>
         /\ \A k \in Nodes : \A c \in Range(g.queue[k]) :
              c \in Range(f.queue[k]) /\ c # b /\ (c \in f.partial => c \in g.partial)
<1>1. /\ f.from \in [Blocks -> Nodes \cup {NoNode}]
      /\ \A k \in Nodes : f.queue[k] \in Seq(Blocks) /\ g.queue[k] \in Seq(Blocks)
  BY Zenon DEF FlightOK, FlightType
<1>2. \A k \in Nodes : /\ Len(f.queue[k]) \in Nat /\ Len(g.queue[k]) \in Nat
                       /\ f.queue[k] = <<>> <=> Range(f.queue[k]) = {}
                       /\ g.queue[k] = <<>> <=> Range(g.queue[k]) = {}
  BY <1>1, EmptyQueue, Zenon
<1>3. InFlight(g) \subseteq InFlight(f)
  BY <1>1, Zenon DEF Shrinks, InFlight
<1>4. \A k \in Nodes : Len(g.queue[k]) <= MAX_BLOCKS_IN_TRANSIT_PER_PEER
  <2>1. \A x, y \in Nat, z \in Int : x <= y /\ y <= z => x <= z
    OBVIOUS
  <2>2. MAX_BLOCKS_IN_TRANSIT_PER_PEER \in Int
    BY DownloadConstants
  <2> QED BY <2>1, <2>2, <1>2, Zenon DEF Shrinks, Within
<1>5. \A k \in Nodes : Range(g.queue[k]) = Range(f.queue[k]) \ {b}
  BY Zenon DEF Shrinks
<1>6. \A k \in Nodes : f.queue[k] = <<>> => g.queue[k] = <<>>
  BY <1>2, <1>5, Zenon
<1>7. g.partial = f.partial \ {b}
  BY Zenon DEF Shrinks
<1>8. \A k \in Nodes : \A c \in Range(g.queue[k]) :
              c \in Range(f.queue[k]) /\ c # b /\ (c \in f.partial => c \in g.partial)
  BY <1>5, <1>7, Zenon
<1>9. Within(g, ind)
  BY <1>3, <1>4, Zenon DEF Within
<1> QED BY <1>6, <1>8, <1>9, Zenon

(* What is owed after a block was received. *)
OwesLess(f, g, b, ind) ==
  /\ Within(g, ind) /\ \A k \in Nodes : f.queue[k] = <<>> => g.queue[k] = <<>>
  /\ \A k \in Nodes : \A c \in Range(g.queue[k]) :
       c \in Range(f.queue[k]) /\ c # b /\ (c \in f.partial => c \in g.partial)

(* MarkBlockAsReceived keeps the limits. *)
LEMMA ReceivedWithin ==
  ASSUME NEW f, FlightOK(f), NEW b \in Blocks, NEW ind, Within(f, ind)
  PROVE  OwesLess(f, MarkBlockAsReceived(f, b), b, ind)
<1> DEFINE g == MarkBlockAsReceived(f, b)
<1>1. FlightOK(g) /\ Shrinks(f, g, b)
  BY ReceivedOK, Zenon
<1> HIDE DEF g
<1>2. OwesLess(f, g, b, ind)
  BY <1>1, ShrinksWithin, Zenon DEF OwesLess
<1> QED BY <1>2, Zenon DEF g

(* Asking n for blocks keeps them too, when n has room. *)
LEMMA AskedWithin ==
  ASSUME NEW f, FlightOK(f), NEW g, FlightOK(g), NEW n \in Nodes, NEW T \in SUBSET Blocks, NEW l \in Nat,
         Asked(f, g, n, T, l), NEW ind, Within(f, ind), T \subseteq ind \ {Genesis},
         Len(f.queue[n]) + l <= MAX_BLOCKS_IN_TRANSIT_PER_PEER
  PROVE  /\ Within(g, ind) /\ \A k \in Nodes \ {n} : f.queue[k] = <<>> => g.queue[k] = <<>>
         /\ \A k \in Nodes : \A c \in Range(g.queue[k]) :
              (k = n /\ c \in T) \/ (c \in Range(f.queue[k]) /\ (c \in f.partial => c \in g.partial))
<1>1. \A k \in Nodes : f.queue[k] \in Seq(Blocks) /\ g.queue[k] \in Seq(Blocks)
  BY Zenon DEF FlightOK, FlightType
<1>2. \A k \in Nodes : /\ Len(f.queue[k]) \in Nat /\ Len(g.queue[k]) \in Nat
                       /\ f.queue[k] = <<>> <=> Range(f.queue[k]) = {}
                       /\ g.queue[k] = <<>> <=> Range(g.queue[k]) = {}
                       /\ Range(g.queue[k]) \subseteq Blocks
  BY <1>1, EmptyQueue, Zenon
<1>3. InFlight(g) \subseteq ind \ {Genesis}
  BY Zenon DEF Asked, InFlight, Within
<1>4. \A k \in Nodes : Len(g.queue[k]) <= MAX_BLOCKS_IN_TRANSIT_PER_PEER
  <2>1. \A x, y \in Nat, z \in Int : (x <= y /\ y <= z => x <= z) /\ (x <= y + l /\ y + l <= z => x <= z)
    OBVIOUS
  <2>2. MAX_BLOCKS_IN_TRANSIT_PER_PEER \in Int
    BY DownloadConstants
  <2>3. \A k \in Nodes : /\ k = n => Len(g.queue[k]) <= Len(f.queue[n]) + l
                         /\ k # n => Len(g.queue[k]) <= Len(f.queue[k])
                         /\ Len(f.queue[k]) <= MAX_BLOCKS_IN_TRANSIT_PER_PEER
    BY Zenon DEF Asked, Within
  <2> QED BY <2>1, <2>2, <2>3, <1>2, Zenon
<1>5. \A k \in Nodes : Range(g.queue[k]) = IF k = n THEN Range(f.queue[k]) \cup T ELSE Range(f.queue[k]) \ T
  BY Zenon DEF Asked
<1>6. \A k \in Nodes \ {n} : f.queue[k] = <<>> => g.queue[k] = <<>>
  BY <1>2, <1>5, Zenon
<1>7. \A c \in Blocks \ T : c \in g.partial <=> c \in f.partial
  BY Zenon DEF Asked
<1>8. \A k \in Nodes : \A c \in Range(g.queue[k]) :
              (k = n /\ c \in T) \/ (c \in Range(f.queue[k]) /\ (c \in f.partial => c \in g.partial))
  BY <1>2, <1>5, <1>7, Zenon
<1>9. Within(g, ind)
  BY <1>3, <1>4, Zenon DEF Within
<1> QED BY <1>6, <1>8, <1>9, Zenon
-----------------------------------------------------------------------------
(* The answers that are of use for c are still on their way. *)
AnswersStay(k, c) ==
  \A a \in Range(answers[k]) :
    a.block = c /\ (a.kind = "block" \/ c \in flight.partial) => a \in Range(answers'[k])

(* The states of the connections; and k still owes c, as it did before. *)
Connections == [Nodes -> {"off", "on", "drop"}]
StaysOwed(k, c) ==
  /\ c \in Range(flight.queue[k]) /\ (c \in flight.partial => c \in flight'.partial)
  /\ AnswersStay(k, c) /\ (conn[k] = "drop" => conn'[k] = "drop")

(* A step outside the loop over mapBlocksWait keeps the invariant when it   *)
(* keeps each part, and what is still owed was served before or its answer  *)
(* is on the way.                                                           *)
LEMMA StepKeeps ==
  ASSUME DownloadInv, FlightOK(flight'), Within(flight', index'), IndexInv', ChainGrows, UNCHANGED blockVars,
         conn' \in Connections, known' \in [Nodes -> EntriesOf(index')], answers' \in [Nodes -> Seq(Answers)],
         \A k \in Nodes : conn'[k] = "off" => flight'.queue[k] = <<>>,
         \A k \in Responsive : \A c \in Range(flight'.queue[k]) : StaysOwed(k, c) \/ Coming(k, c)'
  PROVE  DownloadInv'
<1>1. WaitInv' /\ Waiting' = Waiting /\ displaced' = displaced
  BY WaitSame, Zenon DEF DownloadInv
<1>2. AnswersInv'
  <2>1. \A k \in Responsive : \A c \in Range(flight'.queue[k]) : StaysOwed(k, c) => Served(k, c)
    BY Zenon DEF DownloadInv, AnswersInv, StaysOwed
  <2>2. \A k \in Responsive : \A c \in Range(flight'.queue[k]) : StaysOwed(k, c) => Served(k, c)'
    BY <1>1, <2>1, ServedStays, Zenon DEF StaysOwed, AnswersStay
  <2>3. \A k, c : Coming(k, c)' => Served(k, c)'
    BY Zenon DEF Served
  <2> QED BY <2>2, <2>3, Zenon DEF AnswersInv
<1>3. PeerInv'
  BY Zenon DEF PeerInv, Within, Connections, Entries, EntriesOf, InFlight
<1>4. FlightOK(flight)'
  BY Zenon DEF FlightOK, FlightType, Busy, InFlight
<1> QED BY <1>1, <1>2, <1>3, <1>4, Zenon DEF DownloadInv

(* What the invariant says now of the limits, and of the peers. *)
LEMMA LimitsNow ==
  ASSUME DownloadInv
  PROVE  /\ FlightOK(flight) /\ Within(flight, index) /\ IndexInv /\ conn \in Connections
         /\ known \in [Nodes -> EntriesOf(index)] /\ answers \in [Nodes -> Seq(Answers)]
         /\ index \in SUBSET Blocks /\ \A k \in Nodes : conn[k] = "off" => flight.queue[k] = <<>>
  BY Zenon DEF DownloadInv, PeerInv, Within, Connections, Entries, IndexInv

(* A step that leaves the requests alone. *)
LEMMA QuietStep ==
  ASSUME DownloadInv, IndexInv', ChainGrows, UNCHANGED blockVars, UNCHANGED flight,
         conn' \in Connections, known' \in [Nodes -> EntriesOf(index')], answers' \in [Nodes -> Seq(Answers)],
         \A k \in Nodes : /\ conn'[k] = "off" => conn[k] = "off"
                          /\ conn[k] = "drop" => conn'[k] = "drop"
                          /\ Range(answers[k]) \subseteq Range(answers'[k])
  PROVE  DownloadInv'
<1>1. flight' = flight
  BY Zenon
<1>2. FlightOK(flight') /\ Within(flight', index)
  BY <1>1, LimitsNow, Zenon
<1>3. Within(flight', index')
  BY <1>2, Zenon DEF Within, ChainGrows
<1>4. \A k \in Nodes : conn'[k] = "off" => flight'.queue[k] = <<>>
  BY <1>1, LimitsNow, Zenon
<1>5. \A k \in Responsive : \A c \in Range(flight'.queue[k]) : StaysOwed(k, c)
  BY <1>1, DownloadConstants, Zenon DEF StaysOwed, AnswersStay
<1> QED BY <1>2, <1>3, <1>4, <1>5, StepKeeps, Zenon
-----------------------------------------------------------------------------
(* Setting fDisconnect. *)
LEMMA DropOK ==
  ASSUME conn \in Connections, NEW n \in Nodes, Drop(n)
  PROVE  conn' \in Connections /\ \A k \in Nodes : conn'[k] = IF k = n THEN "drop" ELSE conn[k]
  BY Zenon DEF Connections, Drop

(* A peer that was not connected owes nothing. *)
LEMMA InitializeNodeOK ==
  ASSUME DownloadInv, NEW n \in Nodes, InitializeNode(n)
  PROVE  DownloadInv'
<1>1. conn' = [conn EXCEPT ![n] = "on"] /\ conn[n] = "off"
  BY Zenon DEF InitializeNode
<1>2. UNCHANGED <<known, flight, answers, chainVars, blockVars>>
  BY Zenon DEF InitializeNode
<1>3. conn' \in Connections /\ \A k \in Nodes : conn'[k] = IF k = n THEN "on" ELSE conn[k]
  BY <1>1, LimitsNow, Zenon DEF Connections
<1>4. IndexInv' /\ ChainGrows /\ index' = index
  BY <1>2, ChainSame, LimitsNow, Zenon DEF chainVars
<1>5. known' \in [Nodes -> EntriesOf(index')] /\ answers' \in [Nodes -> Seq(Answers)] /\ answers' = answers
  BY <1>2, <1>4, LimitsNow, Zenon
<1>6. \A k \in Nodes : /\ conn'[k] = "off" => conn[k] = "off"
                       /\ conn[k] = "drop" => conn'[k] = "drop"
                       /\ Range(answers[k]) \subseteq Range(answers'[k])
  BY <1>1, <1>3, <1>5, Zenon
<1>7. UNCHANGED blockVars /\ UNCHANGED flight
  BY <1>2, Zenon
<1> QED BY <1>3, <1>4, <1>5, <1>6, <1>7, QuietStep, Zenon

(* A peer that is to be dropped still owes its blocks. *)
LEMMA DropStep ==
  ASSUME DownloadInv, NEW n \in Nodes, Drop(n), UNCHANGED <<known, flight, answers, chainVars, blockVars>>
  PROVE  DownloadInv'
<1>1. UNCHANGED blockVars /\ UNCHANGED flight /\ UNCHANGED chainVars /\ answers' = answers /\ known' = known
  BY Zenon
<1>2. conn' \in Connections /\ \A k \in Nodes : conn'[k] = IF k = n THEN "drop" ELSE conn[k]
  BY DropOK, LimitsNow, Zenon
<1>3. IndexInv' /\ ChainGrows /\ index' = index
  BY <1>1, ChainSame, LimitsNow, Zenon DEF chainVars
<1>4. known' \in [Nodes -> EntriesOf(index')] /\ answers' \in [Nodes -> Seq(Answers)]
  BY <1>1, <1>3, LimitsNow, Zenon
<1>5. \A k \in Nodes : /\ conn'[k] = "off" => conn[k] = "off"
                       /\ conn[k] = "drop" => conn'[k] = "drop"
                       /\ Range(answers[k]) \subseteq Range(answers'[k])
  BY <1>1, <1>2, Zenon
<1> QED BY <1>1, <1>2, <1>3, <1>4, <1>5, QuietStep, Zenon

(* A peer is told to have b, with more blocks indexed. *)
LEMMA KnownOK ==
  ASSUME DownloadInv, NEW n \in Nodes, NEW b \in Blocks, index' \in SUBSET Blocks, index \subseteq index',
         known' = [known EXCEPT ![n] = UpdateBlockAvailability(@, index', b)]
  PROVE  known' \in [Nodes -> EntriesOf(index')]
<1>1. known \in [Nodes -> EntriesOf(index')]
  BY LimitsNow, EntriesGrow, Zenon
<1>2. UpdateBlockAvailability(known[n], index', b) \in EntriesOf(index')
  BY <1>1, AvailabilityOK, Zenon
<1> QED BY <1>1, <1>2, Zenon

(* Announcements. *)
LEMMA AnnounceOK ==
  ASSUME DownloadInv, NEW n \in Nodes, NEW b \in Blocks, Announce(n, b)
  PROVE  DownloadInv'
<1>1. UNCHANGED blockVars /\ UNCHANGED flight /\ UNCHANGED chainVars /\ answers' = answers /\ conn' = conn
  BY Zenon DEF Announce
<1>2. IndexInv' /\ ChainGrows /\ index' = index
  BY <1>1, ChainSame, LimitsNow, Zenon DEF chainVars
<1>3. known' \in [Nodes -> EntriesOf(index')]
  <2>1. index' \in SUBSET Blocks /\ index \subseteq index'
    BY <1>2, LimitsNow, Zenon
  <2>2. known' = [known EXCEPT ![n] = UpdateBlockAvailability(@, index', b)]
    BY <1>2, Zenon DEF Announce
  <2> QED BY <2>1, <2>2, KnownOK, Zenon
<1>4. conn' \in Connections /\ answers' \in [Nodes -> Seq(Answers)]
  BY <1>1, LimitsNow, Zenon
<1>5. \A k \in Nodes : /\ conn'[k] = "off" => conn[k] = "off"
                       /\ conn[k] = "drop" => conn'[k] = "drop"
                       /\ Range(answers[k]) \subseteq Range(answers'[k])
  BY <1>1, Zenon
<1> QED BY <1>1, <1>2, <1>3, <1>4, <1>5, QuietStep, Zenon

(* FinalizeNode takes out of the map what the peer owed, and no more. *)
Released(f, n) ==
  [f EXCEPT !.from = [b \in Blocks |-> IF b \in Range(f.queue[n]) THEN NoNode ELSE @[b]],
            !.queue[n] = <<>>, !.count[n] = 0, !.stalling = @ \ {n},
            !.partial = @ \ Range(f.queue[n]),
            !.peers = IF f.count[n] # 0 THEN @ - 1 ELSE @]

(* It keeps the map, the lists and the counters in step. *)
LEMMA ReleasedOK ==
  ASSUME NEW f, FlightOK(f), NEW n \in Nodes
  PROVE  /\ FlightOK(Released(f, n)) /\ InFlight(Released(f, n)) \subseteq InFlight(f)
         /\ \A k \in Nodes : Released(f, n).queue[k] = IF k = n THEN <<>> ELSE f.queue[k]
         /\ Released(f, n).partial = f.partial \ Range(f.queue[n])
<1> DEFINE g == Released(f, n)
           T == Range(f.queue[n])
<1>1. /\ f.from \in [Blocks -> Nodes \cup {NoNode}] /\ f.queue \in [Nodes -> Seq(Blocks)]
      /\ f.count \in [Nodes -> Nat] /\ f.stalling \subseteq Nodes /\ f.partial \subseteq Blocks
      /\ f.peers \in Int /\ NoNode \notin Nodes /\ IsFiniteSet(Nodes)
  BY DownloadConstants, Zenon DEF FlightOK, FlightType
<1>2. /\ g.from = [b \in Blocks |-> IF b \in T THEN NoNode ELSE f.from[b]] /\ g.queue = [f.queue EXCEPT ![n] = <<>>]
      /\ g.count = [f.count EXCEPT ![n] = 0] /\ g.stalling = f.stalling \ {n} /\ g.partial = f.partial \ T
      /\ g.peers = IF f.count[n] # 0 THEN f.peers - 1 ELSE f.peers
  <2>1. f = [from |-> f.from, queue |-> f.queue, count |-> f.count, stalling |-> f.stalling,
             partial |-> f.partial, peers |-> f.peers]
    BY Zenon DEF FlightOK, FlightType
  <2> HIDE DEF T
  <2>2. g = [f EXCEPT !.from = [b \in Blocks |-> IF b \in T THEN NoNode ELSE @[b]],
                      !.queue[n] = <<>>, !.count[n] = 0, !.stalling = @ \ {n},
                      !.partial = @ \ T, !.peers = IF f.count[n] # 0 THEN @ - 1 ELSE @]
    BY Zenon DEF Released, T
  <2> HIDE DEF g
  <2> QED BY <2>1, <2>2, Zenon
<1>3. g = [f EXCEPT !.from = g.from, !.queue = g.queue, !.count = g.count,
                    !.stalling = g.stalling, !.partial = g.partial, !.peers = g.peers]
  BY Zenon DEF FlightOK, FlightType, Released
<1> HIDE DEF g, T
<1>4. \A k \in Nodes : /\ g.queue[k] = IF k = n THEN <<>> ELSE f.queue[k]
                       /\ g.count[k] = IF k = n THEN 0 ELSE f.count[k]
  BY <1>1, <1>2, Zenon
<1>5. \A b \in Blocks : g.from[b] = IF b \in T THEN NoNode ELSE f.from[b]
  BY <1>2, Zenon
<1>6. /\ \A b \in Blocks, k \in Nodes : f.from[b] = k <=> b \in Range(f.queue[k])
      /\ \A k \in Nodes : IsInjective(f.queue[k]) /\ f.count[k] = Len(f.queue[k])
      /\ (\A k \in f.stalling : f.queue[k] # <<>>) /\ f.peers = Cardinality(Busy(f)) /\ f.partial \subseteq InFlight(f)
  BY Zenon DEF FlightOK
<1>7. <<>> \in Seq(Blocks) /\ Len(<<>>) = 0 /\ IsInjective(<<>>) /\ Range(<<>>) = {}
  <2>1. <<>> \in Seq(Blocks) /\ Len(<<>>) = 0
    OBVIOUS
  <2>2. Range(<<>>) = {}
    BY <2>1, EmptyQueue, Zenon
  <2>3. IsInjective(<<>>)
    BY DEF IsInjective
  <2> QED BY <2>1, <2>2, <2>3, Zenon
<1>8. FlightType(g)
  <2>1. g.from \in [Blocks -> Nodes \cup {NoNode}]
    <3>1. \A b \in Blocks : (IF b \in T THEN NoNode ELSE f.from[b]) \in Nodes \cup {NoNode}
      BY <1>1, Zenon
    <3> QED BY <3>1, <1>2, Zenon
  <2>2. g.queue \in [Nodes -> Seq(Blocks)] /\ g.count \in [Nodes -> Nat]
    <3>1. g.count \in [Nodes -> Nat]
      BY <1>1, <1>2
    <3>2. g.queue \in [Nodes -> Seq(Blocks)]
      BY <1>1, <1>2, <1>7, Zenon
    <3> QED BY <3>1, <3>2, Zenon
  <2>3. g.stalling \in SUBSET Nodes /\ g.partial \in SUBSET Blocks /\ g.peers \in Int
    BY <1>1, <1>2
  <2>4. FlightType(f)
    BY Zenon DEF FlightOK
  <2>5. FlightType([f EXCEPT !.from = g.from, !.queue = g.queue, !.count = g.count,
                    !.stalling = g.stalling, !.partial = g.partial, !.peers = g.peers])
    BY <2>1, <2>2, <2>3, <2>4, Updated, Zenon
  <2> QED BY <2>5, <1>3, Zenon
<1>9. \A b \in Blocks, k \in Nodes : g.from[b] = k <=> b \in Range(g.queue[k])
  <2> SUFFICES ASSUME NEW b \in Blocks, NEW k \in Nodes PROVE g.from[b] = k <=> b \in Range(g.queue[k])
    BY Zenon
  <2>1. CASE k = n
    <3>1. b \notin Range(g.queue[k])
      BY <2>1, <1>4, <1>7, Zenon
    <3>2. f.from[b] = n => b \in T
      BY <1>6, Zenon DEF T
    <3>3. g.from[b] # n
      BY <3>2, <1>1, <1>5, Zenon
    <3> QED BY <2>1, <3>1, <3>3, Zenon
  <2>2. CASE k # n
    <3>1. b \in T <=> f.from[b] = n
      BY <1>6, Zenon DEF T
    <3>2. f.from[b] = k <=> b \in Range(f.queue[k])
      BY <1>6, Zenon
    <3>3. g.queue[k] = f.queue[k]
      BY <2>2, <1>4, Zenon
    <3>4. g.from[b] = IF f.from[b] = n THEN NoNode ELSE f.from[b]
      BY <3>1, <1>5, Zenon
    <3>5. NoNode # k
      BY <1>1, Zenon
    <3> QED BY <2>2, <3>2, <3>3, <3>4, <3>5, Zenon
  <2> QED BY <2>1, <2>2, Zenon
<1>10. \A k \in Nodes : IsInjective(g.queue[k]) /\ g.count[k] = Len(g.queue[k])
  BY <1>4, <1>6, <1>7, Zenon
<1>11. \A k \in g.stalling : g.queue[k] # <<>>
  BY <1>1, <1>2, <1>4, <1>6, Zenon
<1>12. InFlight(g) \subseteq InFlight(f)
  BY <1>5, Zenon DEF InFlight
<1>13. g.partial \subseteq InFlight(g)
  <2>1. f.partial \subseteq InFlight(f)
    BY <1>6, Zenon
  <2> QED BY <2>1, <1>2, <1>5, Zenon DEF InFlight
<1>14. g.peers = Cardinality(Busy(g))
  <2>1. f.queue[n] \in Seq(Blocks) /\ f.count[n] = Len(f.queue[n])
    BY <1>1, <1>6, Zenon
  <2>2. f.count[n] # 0 <=> n \in Busy(f)
    BY <2>1, EmptyQueue, Zenon DEF Busy
  <2>3. Busy(g) = Busy(f) \ {n}
    BY <1>4, Zenon DEF Busy
  <2>4. Busy(f) \in SUBSET Nodes
    BY Zenon DEF Busy
  <2>5. IsFiniteSet(Busy(f))
    BY <2>4, <1>1, FS_Subset, Zenon
  <2>6. CASE n \in Busy(f)
    <3>1. Cardinality(Busy(f) \ {n}) = Cardinality(Busy(f)) - 1
      BY <2>5, <2>6, FS_RemoveElement, Zenon
    <3>2. g.peers = f.peers - 1 /\ f.peers = Cardinality(Busy(f))
      BY <1>2, <1>6, <2>2, <2>6, Zenon
    <3> QED BY <3>1, <3>2, <2>3, Zenon
  <2>7. CASE n \notin Busy(f)
    <3>1. Busy(g) = Busy(f)
      BY <2>3, <2>7, Zenon
    <3>2. g.peers = f.peers /\ f.peers = Cardinality(Busy(f))
      BY <1>2, <1>6, <2>2, <2>7, Zenon
    <3> QED BY <3>1, <3>2, Zenon
  <2> QED BY <2>6, <2>7, Zenon
<1>15. FlightOK(g)
  BY <1>8, <1>9, <1>10, <1>11, <1>13, <1>14, Zenon DEF FlightOK
<1>16. \A k \in Nodes : g.queue[k] = IF k = n THEN <<>> ELSE f.queue[k]
  BY <1>4, Zenon
<1>17. g.partial = f.partial \ T
  BY <1>2, Zenon
<1> QED BY <1>12, <1>15, <1>16, <1>17, Zenon DEF g, T

(* The peer is gone: whoever else owes blocks owes them still. *)
LEMMA FinalizeNodeOK ==
  ASSUME DownloadInv, NEW n \in Nodes, FinalizeNode(n)
  PROVE  DownloadInv'
<1>1. /\ UNCHANGED blockVars /\ UNCHANGED chainVars /\ conn' = [conn EXCEPT ![n] = "off"]
      /\ known' = [known EXCEPT ![n] = NewNode] /\ answers' = [answers EXCEPT ![n] = <<>>]
  BY Zenon DEF FinalizeNode
<1>2. flight' = Released(flight, n)
  BY Zenon DEF FinalizeNode, Released
<1>3. /\ FlightOK(flight') /\ InFlight(flight') \subseteq InFlight(flight)
      /\ \A k \in Nodes : flight'.queue[k] = IF k = n THEN <<>> ELSE flight.queue[k]
      /\ flight'.partial = flight.partial \ Range(flight.queue[n])
  BY <1>2, ReleasedOK, LimitsNow, Zenon
<1>4. IndexInv' /\ ChainGrows /\ index' = index
  BY <1>1, ChainSame, LimitsNow, Zenon DEF chainVars
<1>5. conn' \in Connections /\ \A k \in Nodes : conn'[k] = IF k = n THEN "off" ELSE conn[k]
  BY <1>1, LimitsNow, Zenon DEF Connections
<1>6. known' \in [Nodes -> EntriesOf(index')]
  <2>1. NewNode \in EntriesOf(index)
    BY Zenon DEF NewNode, EntriesOf
  <2>2. known \in [Nodes -> EntriesOf(index)]
    BY LimitsNow, Zenon
  <2> QED BY <2>1, <2>2, <1>1, <1>4, Zenon
<1>7. answers' \in [Nodes -> Seq(Answers)] /\ \A k \in Nodes : k # n => answers'[k] = answers[k]
  <2>1. answers \in [Nodes -> Seq(Answers)]
    BY LimitsNow, Zenon
  <2>2. <<>> \in Seq(Answers)
    OBVIOUS
  <2> QED BY <2>1, <2>2, <1>1, Zenon
<1>8. Len(<<>>) <= MAX_BLOCKS_IN_TRANSIT_PER_PEER /\ Range(<<>>) = {}
  <2>1. Len(<<>>) = 0 /\ <<>> \in Seq(Blocks)
    OBVIOUS
  <2>2. 0 <= MAX_BLOCKS_IN_TRANSIT_PER_PEER
    BY DownloadConstants
  <2> QED BY <2>1, <2>2, EmptyQueue, Zenon
<1>9. Within(flight', index')
  <2>1. Within(flight, index)
    BY LimitsNow, Zenon
  <2>2. \A k \in Nodes : Len(flight'.queue[k]) <= MAX_BLOCKS_IN_TRANSIT_PER_PEER
    BY <2>1, <1>3, <1>8, Zenon DEF Within
  <2>3. InFlight(flight') \subseteq index' \ {Genesis}
    BY <2>1, <1>3, <1>4, Zenon DEF Within
  <2> QED BY <2>2, <2>3, Zenon DEF Within
<1>10. \A k \in Nodes : conn'[k] = "off" => flight'.queue[k] = <<>>
  BY <1>3, <1>5, LimitsNow, Zenon
<1>11. \A k \in Responsive : \A c \in Range(flight'.queue[k]) : StaysOwed(k, c)
  <2> SUFFICES ASSUME NEW k \in Nodes, NEW c \in Range(flight'.queue[k]) PROVE StaysOwed(k, c)
    BY DownloadConstants, Zenon
  <2>1. k # n /\ flight'.queue[k] = flight.queue[k] /\ c \in Range(flight.queue[k])
    BY <1>3, <1>8, Zenon
  <2>2. c \in Blocks /\ c \notin Range(flight.queue[n])
    <3>1. flight.queue[k] \in Seq(Blocks) /\ \A b \in Blocks, m \in Nodes : flight.from[b] = m <=> b \in Range(flight.queue[m])
      BY LimitsNow, Zenon DEF FlightOK, FlightType
    <3>2. c \in Blocks
      BY <3>1, <2>1, EmptyQueue, Zenon
    <3> QED BY <3>1, <3>2, <2>1, Zenon
  <2>3. c \in flight.partial => c \in flight'.partial
    BY <2>2, <1>3, Zenon
  <2>4. answers'[k] = answers[k] /\ conn'[k] = conn[k]
    BY <2>1, <1>5, <1>7, Zenon
  <2> QED BY <2>1, <2>3, <2>4, Zenon DEF StaysOwed, AnswersStay
<1> QED BY <1>1, <1>3, <1>4, <1>5, <1>6, <1>7, <1>9, <1>10, <1>11, StepKeeps, Zenon
-----------------------------------------------------------------------------
(* What counting the blocks of a peer leaves it room for. *)
LEMMA RoomOK ==
  ASSUME DownloadInv, NEW n \in Nodes
  PROVE  /\ MAX_BLOCKS_IN_TRANSIT_PER_PEER - flight.count[n] \in Nat /\ Len(flight.queue[n]) \in Nat
         /\ flight.count[n] = Len(flight.queue[n])
         /\ \A l \in Nat : l <= MAX_BLOCKS_IN_TRANSIT_PER_PEER - flight.count[n] =>
              Len(flight.queue[n]) + l <= MAX_BLOCKS_IN_TRANSIT_PER_PEER
         /\ flight.count[n] < MAX_BLOCKS_IN_TRANSIT_PER_PEER =>
              /\ MAX_BLOCKS_IN_TRANSIT_PER_PEER - flight.count[n] \in Nat \ {0}
              /\ Len(flight.queue[n]) + 1 <= MAX_BLOCKS_IN_TRANSIT_PER_PEER
<1>1. flight.queue[n] \in Seq(Blocks) /\ flight.count[n] = Len(flight.queue[n])
  BY LimitsNow, Zenon DEF FlightOK, FlightType
<1>2. Len(flight.queue[n]) \in Nat
  BY <1>1, EmptyQueue, Zenon
<1>3. Len(flight.queue[n]) <= MAX_BLOCKS_IN_TRANSIT_PER_PEER
  BY LimitsNow, Zenon DEF Within
<1>4. MAX_BLOCKS_IN_TRANSIT_PER_PEER \in Nat
  BY DownloadConstants, Zenon
<1>5. \A x, y \in Nat : x <= y =>
        y - x \in Nat /\ (\A l \in Nat : l <= y - x => x + l <= y) /\ (x < y => y - x \in Nat \ {0} /\ x + 1 <= y)
  OBVIOUS
<1> QED BY <1>1, <1>2, <1>3, <1>4, <1>5, Zenon

(* Blocks, or missing transactions of partial blocks, are asked of a        *)
(* connected peer that has room for them.                                   *)
LEMMA AskStep ==
  ASSUME DownloadInv, FlightOK(flight'), NEW n \in Nodes, conn[n] = "on", conn' = conn, NEW bs \in Seq(Blocks),
         NEW l \in Nat, Asked(flight, flight', n, Range(bs), l), Range(bs) \subseteq index' \ {Genesis},
         NEW kind \in {"block", "txn"}, Ask(n, bs, kind), kind = "block" \/ Range(bs) \subseteq flight'.partial,
         l <= MAX_BLOCKS_IN_TRANSIT_PER_PEER - flight.count[n],
         IndexInv', ChainGrows, UNCHANGED blockVars, known' \in [Nodes -> EntriesOf(index')]
  PROVE  DownloadInv'
<1> DEFINE T == Range(bs)
<1>1. T \in SUBSET Blocks
  BY EmptyQueue, Zenon
<1>2. Len(flight.queue[n]) + l <= MAX_BLOCKS_IN_TRANSIT_PER_PEER
  BY <1>1, RoomOK, Zenon
<1>3. FlightOK(flight) /\ Within(flight, index')
  BY LimitsNow, Zenon DEF Within, ChainGrows
<1>4. /\ answers' \in [Nodes -> Seq(Answers)]
      /\ \A k \in Nodes : Range(answers[k]) \subseteq Range(answers'[k])
      /\ n \in Responsive => \A b \in T : [kind |-> kind, block |-> b] \in Range(answers'[n])
  BY AskOK, Zenon DEF DownloadInv
<1>5. /\ Within(flight', index') /\ \A k \in Nodes \ {n} : flight.queue[k] = <<>> => flight'.queue[k] = <<>>
      /\ \A k \in Nodes : \A c \in Range(flight'.queue[k]) :
           (k = n /\ c \in T) \/ (c \in Range(flight.queue[k]) /\ (c \in flight.partial => c \in flight'.partial))
  BY <1>1, <1>2, <1>3, AskedWithin, Zenon
<1>6. conn' \in Connections /\ \A k \in Nodes : conn'[k] = "off" => flight'.queue[k] = <<>>
  <2>1. conn' \in Connections /\ \A k \in Nodes : conn[k] = "off" => flight.queue[k] = <<>>
    BY LimitsNow, Zenon
  <2> QED BY <2>1, <1>5, Zenon
<1>7. \A k \in Responsive : \A c \in Range(flight'.queue[k]) : StaysOwed(k, c) \/ Coming(k, c)'
  <2> SUFFICES ASSUME NEW k \in Responsive, NEW c \in Range(flight'.queue[k]) PROVE StaysOwed(k, c) \/ Coming(k, c)'
    BY Zenon
  <2>1. k \in Nodes
    BY DownloadConstants, Zenon
  <2>2. CASE k = n /\ c \in T
    <3>1. [kind |-> kind, block |-> c] \in Range(answers'[k])
      BY <2>2, <1>4, Zenon
    <3>2. [kind |-> kind, block |-> c].kind = kind /\ [kind |-> kind, block |-> c].block = c
      BY Zenon
    <3>3. kind = "block" \/ c \in flight'.partial
      BY <2>2, Zenon
    <3>4. Coming(k, c)'
      BY <3>1, <3>2, <3>3, Zenon DEF Coming
    <3> QED BY <3>4, Zenon
  <2>3. CASE c \in Range(flight.queue[k]) /\ (c \in flight.partial => c \in flight'.partial)
    <3>1. AnswersStay(k, c)
      BY <2>1, <1>4, Zenon DEF AnswersStay
    <3>2. StaysOwed(k, c)
      BY <2>3, <3>1, Zenon DEF StaysOwed
    <3> QED BY <3>2, Zenon
  <2> QED BY <2>1, <2>2, <2>3, <1>5, Zenon
<1> QED BY <1>4, <1>5, <1>6, <1>7, StepKeeps, Zenon

(* SendMessages asks for what FindNextBlocksToDownload names, and starts    *)
(* the stalling timer of another peer that owes a block.                    *)
LEMMA GetDataOK ==
  ASSUME DownloadInv, NEW n \in Nodes, GetData(n)
  PROVE  DownloadInv'
<1> DEFINE count == MAX_BLOCKS_IN_TRANSIT_PER_PEER - flight.count[n]
           k == ProcessBlockAvailability(known[n], index)
           r == FindNextBlocksToDownload(n, k, count)
           bs == r.blocks
           f == Request(flight, n, bs)
           g == IF f.count[n] = 0 /\ r.staller # NoNode THEN [f EXCEPT !.stalling = @ \cup {r.staller}] ELSE f
<1>1. /\ conn[n] = "on" /\ conn' = conn /\ UNCHANGED blockVars /\ UNCHANGED chainVars
      /\ flight.count[n] < MAX_BLOCKS_IN_TRANSIT_PER_PEER
  BY Zenon DEF GetData, Handles
<1>2. known' = [known EXCEPT ![n] = [k EXCEPT !.common = r.common]] /\ flight' = g /\ Ask(n, bs, "block")
  <2>1. NextRequest(n) = [known |-> [k EXCEPT !.common = r.common], blocks |-> r.blocks, flight |-> g]
    BY Zenon DEF NextRequest, Room
  <2>2. /\ known' = [known EXCEPT ![n] = NextRequest(n).known] /\ flight' = NextRequest(n).flight
        /\ Ask(n, NextRequest(n).blocks, "block")
    BY Zenon DEF GetData
  <2> HIDE DEF k, r, g
  <2>3. NextRequest(n).known = [k EXCEPT !.common = r.common] /\ NextRequest(n).blocks = r.blocks
        /\ NextRequest(n).flight = g
    BY <2>1
  <2> QED BY <2>2, <2>3, Zenon
<1>3. FlightOK(flight) /\ IndexInv /\ index \in SUBSET Blocks /\ known \in [Nodes -> EntriesOf(index)]
  BY LimitsNow, Zenon
<1>4. k \in EntriesOf(index)
  <2>1. Genesis \in Blocks
    BY Tree, Zenon
  <2> QED BY <1>3, <2>1, AvailabilityOK, Zenon
<1> HIDE DEF k
<1>5. count \in Nat \ {0}
  BY <1>1, RoomOK, Zenon
<1>6. /\ r.common \in index \cup {NoBlock} /\ bs \in Seq(index \ {Genesis})
      /\ r.staller \in Nodes \cup {NoNode} /\ FoundOK(r, count)
  BY <1>3, <1>4, <1>5, NextFound, Zenon DEF Entries
<1> HIDE DEF r, count
<1>7. bs \in Seq(Blocks) /\ Range(bs) \subseteq index \ {Genesis}
  <2>1. bs \in Seq(Blocks) /\ DOMAIN bs = 1..Len(bs) /\ \A i \in 1..Len(bs) : bs[i] \in index \ {Genesis}
    BY <1>3, <1>6
  <2> QED BY <2>1, Zenon DEF Range
<1>8. FlightOK(f) /\ Asked(flight, f, n, Range(bs), Len(bs))
  BY <1>3, <1>7, RequestOK, Zenon
<1> HIDE DEF f
<1>9. FlightOK(g) /\ g.from = f.from /\ g.queue = f.queue /\ g.partial = f.partial
  <2>1. CASE f.count[n] = 0 /\ r.staller # NoNode
    <3>1. r.staller \in Nodes /\ bs = <<>> /\ flight.queue[r.staller] # <<>>
      BY <2>1, <1>6, Zenon DEF FoundOK
    <3>2. flight.queue[r.staller] \in Seq(Blocks) /\ f.queue[r.staller] \in Seq(Blocks)
      BY <1>3, <1>8, <3>1, Zenon DEF FlightOK, FlightType
    <3>3. <<>> \in Seq(Blocks)
      OBVIOUS
    <3>4. Range(bs) = {}
      BY <3>1, <3>3, EmptyQueue, Zenon
    <3>5. Range(f.queue[r.staller]) = Range(flight.queue[r.staller])
      BY <1>8, <3>1, <3>4, Zenon DEF Asked
    <3>6. f.queue[r.staller] # <<>>
      BY <3>1, <3>2, <3>5, EmptyQueue, Zenon
    <3> QED BY <2>1, <3>1, <3>6, <1>8, StallOK, Zenon
  <2>2. CASE ~ (f.count[n] = 0 /\ r.staller # NoNode)
    BY <2>2, <1>8, Zenon
  <2> QED BY <2>1, <2>2, Zenon
<1> HIDE DEF g
<1>10. FlightOK(flight') /\ Asked(flight, flight', n, Range(bs), Len(bs))
  BY <1>2, <1>8, <1>9, Zenon DEF Asked
<1>11. IndexInv' /\ ChainGrows /\ index' = index
  BY <1>1, <1>3, ChainSame, Zenon DEF chainVars
<1>12. known' \in [Nodes -> EntriesOf(index')]
  <2>1. [k EXCEPT !.common = r.common] \in EntriesOf(index)
    BY <1>4, <1>6, Zenon DEF EntriesOf
  <2> QED BY <2>1, <1>2, <1>3, <1>11, Zenon
<1>13. Len(bs) <= MAX_BLOCKS_IN_TRANSIT_PER_PEER - flight.count[n]
  BY <1>6, Zenon DEF FoundOK, count
<1>14. Len(bs) \in Nat
  BY <1>7, EmptyQueue, Zenon
<1> HIDE DEF bs
<1> QED BY <1>1, <1>2, <1>7, <1>10, <1>11, <1>12, <1>13, <1>14, AskStep, Zenon

(* Headers: more is indexed, and what is missing of a recent branch may be *)
(* asked for at once.                                                       *)
LEMMA HeadersOK ==
  ASSUME DownloadInv, NEW n \in Nodes, NEW b \in Blocks, Headers(n, b)
  PROVE  DownloadInv'
<1>1. conn[n] = "on" /\ UNCHANGED blockVars /\ haveData' = haveData /\ failed' = failed /\ tip' = tip
  BY Zenon DEF Headers, Handles
<1>2. CASE Anc[b] \cap failed # {}
  <2>1. Drop(n) /\ known' = known /\ flight' = flight /\ answers' = answers /\ index' = index
    BY <1>2, Zenon DEF Headers
  <2>2. UNCHANGED <<known, flight, answers, chainVars, blockVars>>
    BY <1>1, <2>1, Zenon DEF chainVars
  <2> QED BY <2>1, <2>2, DropStep, Zenon
<1>3. CASE Anc[b] \cap failed = {}
  <2>1. /\ index' = index \cup Anc[b] /\ known' = [known EXCEPT ![n] = UpdateBlockAvailability(@, index', b)]
        /\ conn' = conn
        /\ \/ flight' = flight /\ answers' = answers
           \/ flight' = Request(flight, n, DirectFetch(flight, n, b)) /\ Ask(n, DirectFetch(flight, n, b), "block")
    BY <1>3, Zenon DEF Headers
  <2>2. FlightOK(flight) /\ IndexInv /\ index \in SUBSET Blocks /\ conn \in Connections /\ answers \in [Nodes -> Seq(Answers)]
    BY LimitsNow, Zenon
  <2>3. Anc[b] \in SUBSET Blocks /\ \A c \in Anc[b] : Anc[c] \subseteq Anc[b]
    BY Tree, Zenon
  <2>4. IndexInv' /\ ChainGrows
    BY <1>1, <2>1, <2>2, <2>3, Zenon DEF IndexInv, ChainGrows
  <2>5. known' \in [Nodes -> EntriesOf(index')]
    <3>1. index' \in SUBSET Blocks /\ index \subseteq index'
      BY <2>1, <2>2, <2>3, Zenon
    <3> QED BY <3>1, <2>1, KnownOK, Zenon
  <2>6. CASE flight' = flight /\ answers' = answers
    <3>1. \A k \in Nodes : /\ conn'[k] = "off" => conn[k] = "off"
                           /\ conn[k] = "drop" => conn'[k] = "drop"
                           /\ Range(answers[k]) \subseteq Range(answers'[k])
      BY <2>1, <2>6, Zenon
    <3>2. UNCHANGED flight /\ conn' \in Connections /\ answers' \in [Nodes -> Seq(Answers)]
      BY <2>1, <2>2, <2>6, Zenon
    <3> QED BY <3>1, <3>2, <1>1, <2>4, <2>5, QuietStep, Zenon
  <2>7. CASE flight' = Request(flight, n, DirectFetch(flight, n, b)) /\ Ask(n, DirectFetch(flight, n, b), "block")
    <3> DEFINE bs == DirectFetch(flight, n, b)
    <3>1. bs \in Seq(Above(b)) /\ Len(bs) <= MAX_BLOCKS_IN_TRANSIT_PER_PEER - flight.count[n]
      BY RoomOK, DirectFetchFits, Zenon
    <3> HIDE DEF bs
    <3>2. bs \in Seq(Blocks) /\ Range(bs) \subseteq Above(b)
      <4>1. bs \in Seq(Blocks) /\ DOMAIN bs = 1..Len(bs) /\ \A i \in 1..Len(bs) : bs[i] \in Above(b)
        BY <2>3, <3>1 DEF Above
      <4> QED BY <4>1, Zenon DEF Range
    <3>3. FlightOK(flight') /\ Asked(flight, flight', n, Range(bs), Len(bs))
      BY <2>2, <2>7, <3>2, RequestOK, Zenon DEF bs
    <3>4. Range(bs) \subseteq index' \ {Genesis}
      BY <2>1, <3>2, Zenon DEF Above
    <3>5. Ask(n, bs, "block")
      BY <2>7, Zenon DEF bs
    <3>6. Len(bs) \in Nat
      BY <3>2, EmptyQueue, Zenon
    <3> QED BY <3>1, <3>2, <3>3, <3>4, <3>5, <3>6, <1>1, <2>1, <2>4, <2>5, AskStep, Zenon
  <2> QED BY <2>1, <2>6, <2>7, Zenon
<1> QED BY <1>2, <1>3, Zenon
-----------------------------------------------------------------------------
(* Between the step's start and f nothing is owed that was not, but b, and  *)
(* the step takes away no answer for another block.                         *)
OnlyOwes(f, b) ==
  \A k \in Nodes :
    /\ conn'[k] = "off" => f.queue[k] = <<>>
    /\ conn[k] = "drop" => conn'[k] = "drop"
    /\ \A c \in Range(f.queue[k]) :
         c = b \/ (c \in Range(flight.queue[k]) /\ (c \in flight.partial => c \in f.partial))
    /\ \A c \in Blocks \ {b} : AnswersStay(k, c)

(* A block is received, after f: it leaves the list of whoever owes it. *)
LEMMA ReceiveStep ==
  ASSUME DownloadInv, NEW f, FlightOK(f), Within(f, index'), NEW b \in Blocks, flight' = MarkBlockAsReceived(f, b),
         OnlyOwes(f, b),
         conn' \in Connections, known' \in [Nodes -> EntriesOf(index')], answers' \in [Nodes -> Seq(Answers)],
         IndexInv', ChainGrows, UNCHANGED blockVars
  PROVE  DownloadInv'
<1>1. FlightOK(flight')
  BY ReceivedOK, Zenon
<1>2. /\ Within(flight', index') /\ \A k \in Nodes : f.queue[k] = <<>> => flight'.queue[k] = <<>>
      /\ \A k \in Nodes : \A c \in Range(flight'.queue[k]) :
           c \in Range(f.queue[k]) /\ c # b /\ (c \in f.partial => c \in flight'.partial)
  <2>1. OwesLess(f, flight', b, index')
    BY ReceivedWithin, Zenon
  <2> QED BY <2>1, Zenon DEF OwesLess
<1>3. \A k \in Nodes : conn'[k] = "off" => flight'.queue[k] = <<>>
  BY <1>2, Zenon DEF OnlyOwes
<1>4. \A k \in Responsive : \A c \in Range(flight'.queue[k]) : StaysOwed(k, c)
  <2> SUFFICES ASSUME NEW k \in Nodes, NEW c \in Range(flight'.queue[k]) PROVE StaysOwed(k, c)
    BY DownloadConstants, Zenon
  <2>1. c \in Range(f.queue[k]) /\ c # b /\ (c \in f.partial => c \in flight'.partial)
    BY <1>2, Zenon
  <2>2. c \in Blocks
    <3>1. f.queue[k] \in Seq(Blocks)
      BY Zenon DEF FlightOK, FlightType
    <3> QED BY <2>1, <3>1, EmptyQueue, Zenon
  <2>3. c \in Range(flight.queue[k]) /\ (c \in flight.partial => c \in flight'.partial)
    BY <2>1, Zenon DEF OnlyOwes
  <2>4. AnswersStay(k, c) /\ (conn[k] = "drop" => conn'[k] = "drop")
    BY <2>1, <2>2, Zenon DEF OnlyOwes
  <2> QED BY <2>3, <2>4, Zenon DEF StaysOwed
<1> QED BY <1>1, <1>2, <1>3, <1>4, StepKeeps, Zenon

(* Answers that are left alone stay. *)
LEMMA SameAnswers ==
  ASSUME answers' = answers
  PROVE  \A k \in Nodes : \A c : AnswersStay(k, c)
  BY Zenon DEF AnswersStay

(* A compact block is entered with a partial block. *)
LEMMA PartialFlight ==
  ASSUME NEW f, FlightOK(f), NEW n \in Nodes, NEW b \in Blocks
  PROVE  LET g == [MarkBlockAsInFlight(f, n, b, TRUE) EXCEPT !.partial = @ \cup {b}]
         IN /\ FlightOK(g) /\ b \in g.partial
            /\ Asked(f, g, n, {b}, IF f.from[b] = n THEN 0 ELSE 1)
<1> DEFINE r == MarkBlockAsInFlight(f, n, b, TRUE)
           g == [r EXCEPT !.partial = @ \cup {b}]
           l == IF f.from[b] = n THEN 0 ELSE 1
<1>1. FlightOK(r) /\ Grows(f, r, n, b)
  BY InFlightOK, Zenon
<1> HIDE DEF r
<1>2. f.from \in [Blocks -> Nodes \cup {NoNode}] /\ NoNode \notin Nodes
  BY DownloadConstants, Zenon DEF FlightOK, FlightType
<1>3. \A c \in Blocks : r.from[c] = IF c = b THEN n ELSE f.from[c]
  BY <1>1, <1>2, Zenon DEF Grows
<1>4. b \in InFlight(r)
  BY <1>2, <1>3, Zenon DEF InFlight
<1>5. FlightOK(g) /\ g.from = r.from /\ g.queue = r.queue /\ g.partial = r.partial \cup {b}
  BY <1>1, <1>4, PartialOK, Zenon
<1> HIDE DEF g
<1>6. \A k \in Nodes : Len(f.queue[k]) \in Nat
  <2>1. \A k \in Nodes : f.queue[k] \in Seq(Blocks)
    BY Zenon DEF FlightOK, FlightType
  <2> QED BY <2>1, EmptyQueue, Zenon
<1>7. \A k \in Nodes : Len(g.queue[k]) <= IF k = n THEN Len(f.queue[k]) + l ELSE Len(f.queue[k])
  <2>1. \A k \in Nodes : Len(g.queue[k]) <= IF k = n /\ f.from[b] # n THEN Len(f.queue[k]) + 1 ELSE Len(f.queue[k])
    BY <1>1, <1>5, Zenon DEF Grows
  <2>2. \A x \in Nat : x + 0 = x
    OBVIOUS
  <2> QED BY <2>1, <2>2, <1>6, Zenon
<1>8. \A k \in Nodes : Range(g.queue[k]) = IF k = n THEN Range(f.queue[k]) \cup {b} ELSE Range(f.queue[k]) \ {b}
  BY <1>1, <1>5, Zenon DEF Grows
<1>9. \A c \in Blocks \ {b} : c \in g.partial <=> c \in f.partial
  BY <1>1, <1>5, Zenon DEF Grows
<1>10. \A c \in Blocks : g.from[c] = IF c \in {b} THEN n ELSE f.from[c]
  BY <1>3, <1>5, Zenon
<1>11. Asked(f, g, n, {b}, l)
  BY <1>7, <1>8, <1>9, <1>10, Zenon DEF Asked
<1>12. b \in g.partial
  BY <1>5, Zenon
<1> QED BY <1>5, <1>11, <1>12, Zenon DEF g, r

(* The header of a compact block is known already. *)
LEMMA KnownNow ==
  ASSUME DownloadInv, NEW n \in Nodes, NEW b \in Blocks, index \subseteq index',
         known' = [known EXCEPT ![n] = UpdateBlockAvailability(@, index, b)]
  PROVE  known' \in [Nodes -> EntriesOf(index')]
<1>1. known \in [Nodes -> EntriesOf(index)] /\ index \in SUBSET Blocks
  BY LimitsNow, Zenon
<1>2. UpdateBlockAvailability(known[n], index, b) \in EntriesOf(index)
  BY <1>1, AvailabilityOK, Zenon
<1>3. known' \in [Nodes -> EntriesOf(index)]
  BY <1>1, <1>2, Zenon
<1> QED BY <1>3, EntriesGrow, Zenon

(* A compact block that is fetched, whatever comes of it. *)
LEMMA CmpctFetchOK ==
  ASSUME DownloadInv, NEW n \in Nodes, NEW b \in index \ {Genesis}, conn[n] = "on", UNCHANGED blockVars,
         flight.from[b] = n \/ flight.count[n] < MAX_BLOCKS_IN_TRANSIT_PER_PEER, CmpctFetch(n, b),
         known' = [known EXCEPT ![n] = UpdateBlockAvailability(@, index, b)]
  PROVE  DownloadInv'
<1> DEFINE f == [MarkBlockAsInFlight(flight, n, b, TRUE) EXCEPT !.partial = @ \cup {b}]
           l == IF flight.from[b] = n THEN 0 ELSE 1
<1>1. CmpctInvalid(f, n, b) \/ CmpctCollides(f, n, b) \/ CmpctIncomplete(f, n, b) \/ CmpctComplete(f, b)
  BY Zenon DEF CmpctFetch
<1>2. /\ FlightOK(flight) /\ Within(flight, index) /\ IndexInv /\ conn \in Connections /\ b \in Blocks
      /\ answers \in [Nodes -> Seq(Answers)] /\ \A k \in Nodes : conn[k] = "off" => flight.queue[k] = <<>>
  BY LimitsNow, Zenon
<1>3. FlightOK(f) /\ b \in f.partial /\ Asked(flight, f, n, {b}, l)
  BY <1>2, PartialFlight, Zenon
<1> HIDE DEF f
<1>4. l \in Nat /\ l <= MAX_BLOCKS_IN_TRANSIT_PER_PEER - flight.count[n]
         /\ Len(flight.queue[n]) + l <= MAX_BLOCKS_IN_TRANSIT_PER_PEER
  <2>1. /\ MAX_BLOCKS_IN_TRANSIT_PER_PEER - flight.count[n] \in Nat
        /\ \A i \in Nat : i <= MAX_BLOCKS_IN_TRANSIT_PER_PEER - flight.count[n] =>
             Len(flight.queue[n]) + i <= MAX_BLOCKS_IN_TRANSIT_PER_PEER
        /\ flight.count[n] < MAX_BLOCKS_IN_TRANSIT_PER_PEER =>
             MAX_BLOCKS_IN_TRANSIT_PER_PEER - flight.count[n] \in Nat \ {0}
    BY RoomOK, Zenon
  <2>2. \A x \in Nat : 0 <= x /\ (x # 0 => 1 <= x)
    OBVIOUS
  <2>3. 0 \in Nat /\ 1 \in Nat
    BY Zenon
  <2>4. l \in Nat /\ l <= MAX_BLOCKS_IN_TRANSIT_PER_PEER - flight.count[n]
    BY <2>1, <2>2, <2>3, Zenon
  <2> QED BY <2>1, <2>4, Zenon
<1>5. /\ Within(f, index) /\ \A k \in Nodes \ {n} : flight.queue[k] = <<>> => f.queue[k] = <<>>
      /\ \A k \in Nodes : \A c \in Range(f.queue[k]) :
           (k = n /\ c \in {b}) \/ (c \in Range(flight.queue[k]) /\ (c \in flight.partial => c \in f.partial))
  <2>1. {b} \in SUBSET Blocks /\ {b} \subseteq index \ {Genesis}
    BY <1>2, Zenon
  <2> HIDE DEF l
  <2> QED BY <2>1, <1>2, <1>3, <1>4, AskedWithin, Zenon
<1>6. \A k \in Nodes : /\ \A c \in Range(f.queue[k]) :
                            c = b \/ (c \in Range(flight.queue[k]) /\ (c \in flight.partial => c \in f.partial))
                       /\ conn[k] = "off" => f.queue[k] = <<>>
  BY <1>2, <1>5, Zenon
<1>7. CASE CmpctInvalid(f, n, b)
  <2>1. flight' = MarkBlockAsReceived(f, b) /\ Drop(n) /\ answers' = answers /\ UNCHANGED chainVars
    BY <1>7, Zenon DEF CmpctInvalid
  <2>2. conn' \in Connections /\ \A k \in Nodes : conn'[k] = IF k = n THEN "drop" ELSE conn[k]
    BY <2>1, <1>2, DropOK, Zenon
  <2>3. IndexInv' /\ ChainGrows /\ index' = index
    BY <2>1, <1>2, ChainSame, Zenon DEF chainVars
  <2>4. known' \in [Nodes -> EntriesOf(index')]
    BY <2>3, <1>2, KnownNow, Zenon
  <2>5. \A k \in Nodes : (conn'[k] = "off" => conn[k] = "off") /\ (conn[k] = "drop" => conn'[k] = "drop")
    BY <2>2, Zenon
  <2>6. OnlyOwes(f, b)
    BY <2>1, <2>5, <1>6, SameAnswers, Zenon DEF OnlyOwes
  <2>7. Within(f, index') /\ answers' \in [Nodes -> Seq(Answers)]
    BY <2>1, <2>3, <1>2, <1>5, Zenon
  <2> QED BY <2>1, <2>2, <2>3, <2>4, <2>6, <2>7, <1>2, <1>3, ReceiveStep, Zenon
<1>8. CASE CmpctCollides(f, n, b) \/ CmpctIncomplete(f, n, b)
  <2>1. PICK kind \in {"block", "txn"} : flight' = f /\ Ask(n, <<b>>, kind) /\ conn' = conn /\ UNCHANGED chainVars
    BY <1>8, Zenon DEF CmpctCollides, CmpctIncomplete
  <2>2. IndexInv' /\ ChainGrows /\ index' = index
    BY <2>1, <1>2, ChainSame, Zenon DEF chainVars
  <2>3. known' \in [Nodes -> EntriesOf(index')]
    BY <2>2, <1>2, KnownNow, Zenon
  <2>4. <<b>> \in Seq(Blocks) /\ Range(<<b>>) = {b}
    <3>1. <<b>> \in Seq(Blocks)
      BY <1>2
    <3>2. DOMAIN <<b>> = {1} /\ <<b>>[1] = b
      OBVIOUS
    <3>3. Range(<<b>>) = {b}
      BY <3>2, Zenon DEF Range
    <3> QED BY <3>1, <3>3, Zenon
  <2>5. Range(<<b>>) \subseteq index' \ {Genesis} /\ Range(<<b>>) \subseteq flight'.partial
    BY <2>1, <2>2, <2>4, <1>3, Zenon
  <2>6. FlightOK(flight') /\ Asked(flight, flight', n, Range(<<b>>), l)
    BY <2>1, <2>4, <1>3, Zenon
  <2> DEFINE bs == <<b>>
  <2>7. bs \in Seq(Blocks) /\ Range(bs) \subseteq index' \ {Genesis} /\ Range(bs) \subseteq flight'.partial
    BY <2>4, <2>5, Zenon
  <2>8. Asked(flight, flight', n, Range(bs), l) /\ Ask(n, bs, kind)
    BY <2>1, <2>6, Zenon
  <2> HIDE DEF l, bs
  <2> QED BY <2>1, <2>2, <2>3, <2>6, <2>7, <2>8, <1>4, AskStep, Zenon
<1>9. CASE CmpctComplete(f, b)
  <2>1. flight' = MarkBlockAsReceived(f, b) /\ ProcessNewBlock(b, TRUE) /\ conn' = conn /\ answers' = answers
    BY <1>9, Zenon DEF CmpctComplete
  <2>2. IndexInv' /\ ChainGrows
    BY <2>1, <1>2, ProcessedOK, Zenon
  <2>3. known' \in [Nodes -> EntriesOf(index')]
    BY <2>2, <1>2, KnownNow, Zenon DEF ChainGrows
  <2>4. OnlyOwes(f, b)
    BY <2>1, <1>6, SameAnswers, Zenon DEF OnlyOwes
  <2>5. Within(f, index')
    BY <2>2, <1>5, Zenon DEF Within, ChainGrows
  <2>6. conn' \in Connections /\ answers' \in [Nodes -> Seq(Answers)]
    BY <2>1, <1>2, Zenon
  <2> QED BY <2>1, <2>2, <2>3, <2>4, <2>5, <2>6, <1>2, <1>3, ReceiveStep, Zenon
<1> QED BY <1>1, <1>7, <1>8, <1>9, Zenon

(* What is owed at the start of a step. *)
LEMMA OwesNow ==
  ASSUME DownloadInv, NEW b, conn' = conn, \A k \in Nodes : \A c \in Blocks \ {b} : AnswersStay(k, c)
  PROVE  OnlyOwes(flight, b)
  BY LimitsNow, Zenon DEF OnlyOwes

(* A compact block, of use or not. *)
LEMMA CompactOK ==
  ASSUME DownloadInv, NEW n \in Nodes, NEW b \in Blocks, Compact(n, b)
  PROVE  DownloadInv'
<1>1. CmpctBlock(n, b) \/ CmpctUseless(n, b)
  BY Zenon DEF Compact
<1>2. /\ FlightOK(flight) /\ Within(flight, index) /\ IndexInv /\ conn \in Connections
      /\ answers \in [Nodes -> Seq(Answers)]
  BY LimitsNow, Zenon
<1>3. CASE CmpctBlock(n, b)
  <2>1. /\ conn[n] = "on" /\ b \in index \ {Genesis} /\ UNCHANGED blockVars
        /\ known' = [known EXCEPT ![n] = UpdateBlockAvailability(@, index, b)]
    BY <1>2, <1>3, Zenon DEF CmpctBlock, Handles, IndexInv
  <2>2. \/ /\ flight.from[b] = n \/ flight.count[n] < MAX_BLOCKS_IN_TRANSIT_PER_PEER
           /\ CmpctFetch(n, b)
        \/ CmpctOptimistic(n, b)
    BY <1>3, Zenon DEF CmpctBlock
  <2>3. CASE /\ flight.from[b] = n \/ flight.count[n] < MAX_BLOCKS_IN_TRANSIT_PER_PEER
             /\ CmpctFetch(n, b)
    BY <2>1, <2>3, CmpctFetchOK, Zenon
  <2>4. CASE CmpctOptimistic(n, b)
    <3>1. /\ ProcessNewBlock(b, TRUE) /\ conn' = conn /\ answers' = answers
          /\ flight' = MarkBlockAsReceived(flight, b) \/ flight' = flight
      BY <2>4, Zenon DEF CmpctOptimistic
    <3>2. IndexInv' /\ ChainGrows
      BY <2>1, <3>1, <1>2, ProcessedOK, Zenon
    <3>3. known' \in [Nodes -> EntriesOf(index')]
      BY <2>1, <3>2, KnownNow, Zenon DEF ChainGrows
    <3>4. conn' \in Connections /\ answers' \in [Nodes -> Seq(Answers)]
      BY <3>1, <1>2, Zenon
    <3>5. CASE flight' = MarkBlockAsReceived(flight, b)
      <4>1. OnlyOwes(flight, b)
        BY <3>1, SameAnswers, OwesNow, Zenon
      <4>2. Within(flight, index')
        BY <3>2, <1>2, Zenon DEF Within, ChainGrows
      <4> QED BY <4>1, <4>2, <2>1, <3>2, <3>3, <3>4, <3>5, <1>2, ReceiveStep, Zenon
    <3>6. CASE flight' = flight
      <4>1. \A k \in Nodes : /\ conn'[k] = "off" => conn[k] = "off"
                             /\ conn[k] = "drop" => conn'[k] = "drop"
                             /\ Range(answers[k]) \subseteq Range(answers'[k])
        BY <3>1, Zenon
      <4> QED BY <4>1, <2>1, <3>2, <3>3, <3>4, <3>6, QuietStep, Zenon
    <3> QED BY <3>1, <3>5, <3>6, Zenon
  <2> QED BY <2>2, <2>3, <2>4, Zenon
<1>4. CASE CmpctUseless(n, b)
  <2>1. /\ conn' = conn /\ flight' = flight /\ UNCHANGED chainVars /\ UNCHANGED blockVars
        /\ known' = [known EXCEPT ![n] = UpdateBlockAvailability(@, index, b)] /\ Ask(n, <<b>>, "block")
    BY <1>4, Zenon DEF CmpctUseless
  <2>2. IndexInv' /\ ChainGrows /\ index' = index
    BY <2>1, <1>2, ChainSame, Zenon DEF chainVars
  <2>3. known' \in [Nodes -> EntriesOf(index')]
    BY <2>1, <2>2, KnownNow, Zenon
  <2>4. <<b>> \in Seq(Blocks)
    OBVIOUS
  <2>5. answers' \in [Nodes -> Seq(Answers)] /\ \A k \in Nodes : Range(answers[k]) \subseteq Range(answers'[k])
    BY <2>1, <2>4, AskOK, Zenon DEF DownloadInv
  <2>6. conn' \in Connections /\ \A k \in Nodes : /\ conn'[k] = "off" => conn[k] = "off"
                                                  /\ conn[k] = "drop" => conn'[k] = "drop"
    BY <2>1, <1>2, Zenon
  <2> QED BY <2>1, <2>2, <2>3, <2>5, <2>6, QuietStep, Zenon
<1> QED BY <1>1, <1>3, <1>4, Zenon

(* The answer that comes first is taken off. *)
LEMMA FirstAnswer ==
  ASSUME NEW q \in Seq(Answers), q # <<>>
  PROVE  /\ Tail(q) \in Seq(Answers) /\ Head(q) \in Answers
         /\ \A a \in Range(q) : a # Head(q) => a \in Range(Tail(q))
<1> DEFINE t == Tail(q)
<1>1. /\ t \in Seq(Answers) /\ Len(t) = Len(q) - 1 /\ Head(q) = q[1] /\ Len(q) \in Nat \ {0}
      /\ DOMAIN q = 1..Len(q) /\ DOMAIN t = 1..Len(t) /\ \A i \in 1..(Len(q) - 1) : t[i] = q[i + 1]
  BY HeadTailProperties
<1> HIDE DEF t
<1>2. Head(q) \in Answers
  BY <1>1
<1>3. \A a \in Range(q) : a # Head(q) => a \in Range(t)
  <2> SUFFICES ASSUME NEW a \in Range(q), a # Head(q) PROVE a \in Range(t)
    BY Zenon
  <2>1. PICK i \in 1..Len(q) : q[i] = a
    BY <1>1, Zenon DEF Range
  <2>2. i # 1
    BY <2>1, <1>1, Zenon
  <2>3. \A m \in Nat \ {0} : \A j \in 1..m : j # 1 => j - 1 \in 1..(m - 1) /\ (j - 1) + 1 = j
    OBVIOUS
  <2>4. i - 1 \in DOMAIN t /\ t[i - 1] = a
    BY <2>1, <2>2, <2>3, <1>1, Zenon
  <2> QED BY <2>4, Zenon DEF Range
<1> QED BY <1>1, <1>2, <1>3, Zenon DEF t

(* Taking off the first answer of n, an answer for b, takes no answer for   *)
(* another block, and none of use if it is transactions for a block that    *)
(* has no partial block.                                                    *)
LEMMA AnswerTaken ==
  ASSUME DownloadInv, NEW n \in Nodes, answers[n] # <<>>, answers' = [answers EXCEPT ![n] = Tail(@)]
  PROVE  /\ answers' \in [Nodes -> Seq(Answers)] /\ Head(answers[n]).block \in Blocks
         /\ \A k \in Nodes : \A c : k # n \/ c # Head(answers[n]).block => AnswersStay(k, c)
         /\ \A c : Head(answers[n]).kind = "txn" /\ c \notin flight.partial => AnswersStay(n, c)
<1> DEFINE q == answers[n]
<1>1. answers \in [Nodes -> Seq(Answers)] /\ q \in Seq(Answers)
  BY LimitsNow, Zenon
<1>2. /\ Tail(q) \in Seq(Answers) /\ Head(q) \in Answers
      /\ \A a \in Range(q) : a # Head(q) => a \in Range(Tail(q))
  BY <1>1, FirstAnswer, Zenon
<1>3. answers' \in [Nodes -> Seq(Answers)] /\ \A k \in Nodes : answers'[k] = IF k = n THEN Tail(q) ELSE answers[k]
  BY <1>1, <1>2, Zenon
<1>4. Head(q).block \in Blocks
  BY <1>2, Zenon DEF Answers
<1>5. \A k \in Nodes : \A c : k # n \/ c # Head(q).block => AnswersStay(k, c)
  BY <1>2, <1>3, Zenon DEF AnswersStay
<1>6. \A c : Head(q).kind = "txn" /\ c \notin flight.partial => AnswersStay(n, c)
  <2>1. "txn" # "block"
    BY Zenon
  <2> QED BY <2>1, <1>2, <1>3, Zenon DEF AnswersStay
<1> QED BY <1>3, <1>4, <1>5, <1>6, Zenon

(* The missing transactions come. *)
LEMMA BlockTxnOK ==
  ASSUME DownloadInv, NEW n \in Nodes, BlockTxn(n)
  PROVE  DownloadInv'
<1> DEFINE q == answers[n]
           b == Head(q).block
           rest == [answers EXCEPT ![n] = Tail(@)]
           a == [kind |-> "block", block |-> b]
<1>1. /\ conn[n] = "on" /\ q # <<>> /\ Head(q).kind = "txn" /\ conn' = conn /\ known' = known /\ UNCHANGED blockVars
      /\ \/ /\ flight.from[b] = n /\ b \in flight.partial /\ answers' = rest
            /\ flight' = MarkBlockAsReceived(flight, b) /\ ProcessNewBlock(b, TRUE)
         \/ /\ answers' = [rest EXCEPT ![n] = Append(@, a)] /\ flight' = flight /\ UNCHANGED chainVars
         \/ /\ ~ (flight.from[b] = n /\ b \in flight.partial)
            /\ answers' = rest /\ flight' = flight /\ UNCHANGED chainVars
  BY Zenon DEF BlockTxn, Handles
<1>2. /\ FlightOK(flight) /\ Within(flight, index) /\ IndexInv /\ conn \in Connections
      /\ known \in [Nodes -> EntriesOf(index)] /\ answers \in [Nodes -> Seq(Answers)]
      /\ \A k \in Nodes : conn[k] = "off" => flight.queue[k] = <<>>
  BY LimitsNow, Zenon
<1>3. /\ Tail(q) \in Seq(Answers) /\ Head(q) \in Answers /\ q \in Seq(Answers) /\ b \in Blocks
      /\ \A x \in Range(q) : x # Head(q) => x \in Range(Tail(q))
  <2>1. q \in Seq(Answers)
    BY <1>2, Zenon
  <2>2. /\ Tail(q) \in Seq(Answers) /\ Head(q) \in Answers
        /\ \A x \in Range(q) : x # Head(q) => x \in Range(Tail(q))
    BY <2>1, <1>1, FirstAnswer, Zenon
  <2>3. b \in Blocks
    BY <2>2, Zenon DEF Answers
  <2> QED BY <2>1, <2>2, <2>3, Zenon
<1>4. conn' \in Connections /\ \A k \in Nodes : conn[k] = "drop" => conn'[k] = "drop"
  BY <1>1, <1>2, Zenon
<1>5. CASE /\ flight.from[b] = n /\ b \in flight.partial /\ answers' = rest
           /\ flight' = MarkBlockAsReceived(flight, b) /\ ProcessNewBlock(b, TRUE)
  <2>1. answers' \in [Nodes -> Seq(Answers)] /\ \A k \in Nodes : \A c : k # n \/ c # b => AnswersStay(k, c)
    BY <1>1, <1>5, AnswerTaken, Zenon
  <2>2. \A k \in Nodes : \A c \in Blocks \ {b} : AnswersStay(k, c)
    BY <2>1, Zenon
  <2>3. OnlyOwes(flight, b)
    BY <1>1, <2>2, OwesNow, Zenon
  <2>4. b \in index
    <3>1. n # NoNode
      BY DownloadConstants, Zenon
    <3> QED BY <3>1, <1>2, <1>3, <1>5, Zenon DEF Within, InFlight
  <2>5. IndexInv' /\ ChainGrows
    BY <1>2, <1>3, <1>5, <2>4, ProcessedOK, Zenon
  <2>6. Within(flight, index')
    BY <2>5, <1>2, Zenon DEF Within, ChainGrows
  <2>7. known' \in [Nodes -> EntriesOf(index')]
    BY <2>5, <1>1, <1>2, EntriesGrow, Zenon DEF ChainGrows
  <2> HIDE DEF b
  <2> QED BY <2>1, <2>3, <2>5, <2>6, <2>7, <1>1, <1>2, <1>3, <1>4, <1>5, ReceiveStep, Zenon
<1>6. ASSUME flight' = flight, UNCHANGED chainVars, answers' \in [Nodes -> Seq(Answers)],
             \A k \in Responsive : \A c \in Range(flight.queue[k]) : AnswersStay(k, c) \/ Coming(k, c)'
      PROVE  DownloadInv'
  <2>1. IndexInv' /\ ChainGrows /\ index' = index
    BY <1>2, <1>6, ChainSame, Zenon DEF chainVars
  <2>2. FlightOK(flight') /\ Within(flight', index') /\ known' \in [Nodes -> EntriesOf(index')]
    BY <2>1, <1>1, <1>2, <1>6, Zenon
  <2>3. \A k \in Nodes : conn'[k] = "off" => flight'.queue[k] = <<>>
    BY <1>1, <1>2, <1>6, Zenon
  <2>4. \A k \in Responsive : \A c \in Range(flight'.queue[k]) : StaysOwed(k, c) \/ Coming(k, c)'
    <3> SUFFICES ASSUME NEW k \in Responsive, NEW c \in Range(flight'.queue[k]) PROVE StaysOwed(k, c) \/ Coming(k, c)'
      BY Zenon
    <3>1. c \in Range(flight.queue[k]) /\ (c \in flight.partial => c \in flight'.partial) /\ k \in Nodes
      BY <1>6, DownloadConstants, Zenon
    <3>2. AnswersStay(k, c) \/ Coming(k, c)'
      BY <3>1, <1>6, Zenon
    <3> QED BY <3>1, <3>2, <1>4, Zenon DEF StaysOwed
  <2> QED BY <2>1, <2>2, <2>3, <2>4, <1>1, <1>4, <1>6, StepKeeps, Zenon
<1>7. CASE answers' = [rest EXCEPT ![n] = Append(@, a)] /\ flight' = flight /\ UNCHANGED chainVars
  <2>1. a \in Answers /\ a.kind = "block" /\ a.block = b
    BY <1>3, Zenon DEF Answers
  <2>2. \A k \in Nodes : answers'[k] = IF k = n THEN Append(Tail(q), a) ELSE answers[k]
    BY <1>2, <1>7, Zenon
  <2>3. answers' \in [Nodes -> Seq(Answers)]
    <3>1. Append(Tail(q), a) \in Seq(Answers)
      <4> DEFINE t == Tail(q)
      <4>1. t \in Seq(Answers)
        BY <1>3, Zenon
      <4> HIDE DEF t, a
      <4>2. Append(t, a) \in Seq(Answers)
        BY <4>1, <2>1
      <4> QED BY <4>2, Zenon DEF t
    <3> QED BY <3>1, <1>2, <1>3, <1>7, Zenon
  <2>4. a \in Range(Append(Tail(q), a)) /\ Range(Tail(q)) \subseteq Range(Append(Tail(q), a))
    <3> DEFINE t == Tail(q)
               u == Append(t, a)
    <3>1. t \in Seq(Answers)
      BY <1>3, Zenon
    <3> HIDE DEF t, a
    <3>2. /\ DOMAIN u = 1..(Len(t) + 1) /\ u[Len(t) + 1] = a /\ DOMAIN t = 1..Len(t) /\ Len(t) \in Nat
          /\ \A i \in 1..Len(t) : u[i] = t[i]
      BY <3>1, <2>1, AppendProperties
    <3> HIDE DEF u
    <3>3. \A m \in Nat : m + 1 \in 1..(m + 1) /\ \A i \in 1..m : i \in 1..(m + 1)
      OBVIOUS
    <3>4. a \in Range(u) /\ Range(t) \subseteq Range(u)
      BY <3>2, <3>3, Zenon DEF Range
    <3> QED BY <3>4, Zenon DEF t, u
  <2>5. \A k \in Nodes : \A c : AnswersStay(k, c) \/ Coming(k, c)'
    <3> SUFFICES ASSUME NEW k \in Nodes, NEW c PROVE AnswersStay(k, c) \/ Coming(k, c)'
      BY Zenon
    <3>1. CASE k # n
      BY <3>1, <2>2, Zenon DEF AnswersStay
    <3>2. CASE k = n /\ c = b
      <4>1. a \in Range(answers'[k])
        BY <3>2, <2>2, <2>4, Zenon
      <4>2. Coming(k, c)'
        BY <4>1, <3>2, <2>1, Zenon DEF Coming
      <4> QED BY <4>2, Zenon
    <3>3. CASE k = n /\ c # b
      <4>1. \A x \in Range(answers[k]) : x.block = c => x \in Range(Tail(q))
        BY <3>3, <1>3, Zenon
      <4>2. Range(Tail(q)) \subseteq Range(answers'[k])
        BY <3>3, <2>2, <2>4, Zenon
      <4>3. AnswersStay(k, c)
        BY <4>1, <4>2, Zenon DEF AnswersStay
      <4> QED BY <4>3, Zenon
    <3> QED BY <3>1, <3>2, <3>3, Zenon
  <2>6. \A k \in Responsive : \A c \in Range(flight.queue[k]) : AnswersStay(k, c) \/ Coming(k, c)'
    BY <2>5, DownloadConstants, Zenon
  <2> QED BY <2>3, <2>6, <1>6, <1>7, Zenon
<1>8. CASE /\ ~ (flight.from[b] = n /\ b \in flight.partial)
           /\ answers' = rest /\ flight' = flight /\ UNCHANGED chainVars
  <2>1. /\ answers' \in [Nodes -> Seq(Answers)] /\ \A k \in Nodes : \A c : k # n \/ c # b => AnswersStay(k, c)
        /\ \A c : c \notin flight.partial => AnswersStay(n, c)
    BY <1>1, <1>8, AnswerTaken, Zenon
  <2>2. b \in Range(flight.queue[n]) => b \notin flight.partial
    BY <1>2, <1>3, <1>8, Zenon DEF FlightOK
  <2> HIDE DEF b
  <2>3. \A k \in Nodes : \A c \in Range(flight.queue[k]) : AnswersStay(k, c)
    BY <2>1, <2>2, Zenon
  <2>4. \A k \in Responsive : \A c \in Range(flight.queue[k]) : AnswersStay(k, c) \/ Coming(k, c)'
    BY <2>3, DownloadConstants, Zenon
  <2> QED BY <2>1, <2>4, <1>6, <1>8, Zenon
<1> HIDE DEF q, b, rest, a
<1> QED BY <1>1, <1>5, <1>7, <1>8, Zenon

(* Transactions that do not fit: the peer is dropped, the block is asked    *)
(* for again.                                                               *)
LEMMA BlockTxnInvalidOK ==
  ASSUME DownloadInv, NEW n \in Nodes, NEW b \in Blocks, BlockTxnInvalid(n, b)
  PROVE  DownloadInv'
<1>1. /\ flight' = MarkBlockAsReceived(flight, b) /\ Drop(n) /\ answers' = answers /\ UNCHANGED chainVars
      /\ known' = known /\ UNCHANGED blockVars
  BY Zenon DEF BlockTxnInvalid, CmpctInvalid
<1>2. /\ FlightOK(flight) /\ Within(flight, index) /\ IndexInv /\ conn \in Connections
      /\ known \in [Nodes -> EntriesOf(index)] /\ answers \in [Nodes -> Seq(Answers)]
      /\ \A k \in Nodes : conn[k] = "off" => flight.queue[k] = <<>>
  BY LimitsNow, Zenon
<1>3. conn' \in Connections /\ \A k \in Nodes : conn'[k] = IF k = n THEN "drop" ELSE conn[k]
  BY <1>1, <1>2, DropOK, Zenon
<1>4. IndexInv' /\ ChainGrows /\ index' = index
  BY <1>1, <1>2, ChainSame, Zenon DEF chainVars
<1>5. \A k \in Nodes : (conn'[k] = "off" => conn[k] = "off") /\ (conn[k] = "drop" => conn'[k] = "drop")
  BY <1>3, Zenon
<1>6. OnlyOwes(flight, b)
  BY <1>1, <1>2, <1>5, SameAnswers, Zenon DEF OnlyOwes
<1>7. Within(flight, index') /\ known' \in [Nodes -> EntriesOf(index')] /\ answers' \in [Nodes -> Seq(Answers)]
  BY <1>1, <1>2, <1>4, Zenon
<1> QED BY <1>1, <1>2, <1>3, <1>4, <1>6, <1>7, ReceiveStep, Zenon
-----------------------------------------------------------------------------
(* The parts make the invariant. *)
LEMMA Together ==
  ASSUME FlightOK(flight'), Within(flight', index'), IndexInv', WaitInv', AnswersInv',
         conn' \in Connections, known' \in [Nodes -> EntriesOf(index')], answers' \in [Nodes -> Seq(Answers)],
         \A k \in Nodes : conn'[k] = "off" => flight'.queue[k] = <<>>
  PROVE  DownloadInv'
<1>1. PeerInv'
  BY Zenon DEF PeerInv, Within, Connections, Entries, EntriesOf, InFlight
<1>2. FlightOK(flight)'
  BY Zenon DEF FlightOK, FlightType, Busy, InFlight
<1> QED BY <1>1, <1>2, Zenon DEF DownloadInv

(* The waiting blocks, one by one. *)
LEMMA WaitingOK ==
  ASSUME WaitInv
  PROVE  /\ Waiting \subseteq Blocks
         /\ \A c : c \in Waiting <=> c # NoBlock /\ \E p \in Blocks : mapBlocksWait[p] = c
         /\ \A p \in Blocks : mapBlocksWait[p] # NoBlock => mapBlocksWait[p] \in Blocks
<1>1. \A p \in Blocks : mapBlocksWait[p] \in Blocks \cup {NoBlock}
  BY Zenon DEF WaitInv
<1> QED BY <1>1, Zenon DEF Waiting

(* The parent of an indexed block is indexed. *)
LEMMA ParentIndexed ==
  ASSUME IndexInv, NEW b \in index \ {Genesis}
  PROVE  Parent[b] \in index
<1>1. b \in Blocks \ {Genesis} /\ Anc[b] \subseteq index
  BY Zenon DEF IndexInv
<1>2. Parent[b] \in Blocks /\ Anc[b] = {b} \cup Anc[Parent[b]]
  BY <1>1, Tree, Zenon
<1>3. Parent[b] \in Anc[Parent[b]]
  BY <1>2, Tree
<1> QED BY <1>1, <1>2, <1>3, Zenon

(* A BLOCK message: the block is refused, when nobody was asked for it, or  *)
(* it waits, and whatever it takes the place of was a sibling of it.        *)
LEMMA ReceiveBlockOK ==
  ASSUME DownloadInv, NEW n \in Nodes, NEW b \in Blocks, Idle, ReceiveBlock(n, b),
         answers' \in [Nodes -> Seq(Answers)],
         \A k \in Nodes : \A c : k # n \/ c # b => AnswersStay(k, c)
  PROVE  DownloadInv'
<1>1. conn' = conn /\ known' = known /\ flight' = flight /\ UNCHANGED chainVars
  BY Zenon DEF ReceiveBlock
<1>2. /\ FlightOK(flight) /\ Within(flight, index) /\ IndexInv /\ conn \in Connections
      /\ known \in [Nodes -> EntriesOf(index)] /\ \A k \in Nodes : conn[k] = "off" => flight.queue[k] = <<>>
  BY LimitsNow, Zenon
<1>3. IndexInv' /\ ChainGrows /\ index' = index /\ haveData' = haveData /\ failed' = failed /\ tip' = tip
  BY <1>1, <1>2, ChainSame, Zenon DEF chainVars
<1>4. /\ FlightOK(flight') /\ Within(flight', index') /\ conn' \in Connections
      /\ known' \in [Nodes -> EntriesOf(index')] /\ \A k \in Nodes : conn'[k] = "off" => flight'.queue[k] = <<>>
  BY <1>1, <1>2, <1>3, Zenon
<1>5. NoNode \notin Nodes /\ NoBlock \notin Blocks /\ Responsive \subseteq Nodes
  BY DownloadConstants, Tree, Zenon
<1>6. flight.from[b] # NoNode => b \in index \ {Genesis}
  BY <1>2, Zenon DEF Within, InFlight
<1>7. CASE Parent[b] \notin index \/ (flight.from[b] = NoNode /\ ~ ValidTransactions(Parent[b]))
  <2>1. UNCHANGED blockVars
    BY <1>7, Zenon DEF ReceiveBlock
  <2>2. flight.from[b] = NoNode
    BY <1>2, <1>6, <1>7, ParentIndexed, Zenon
  <2>3. b \notin Range(flight.queue[n])
    BY <2>2, <1>2, <1>5, Zenon DEF FlightOK
  <2>4. \A k \in Nodes : \A c \in Range(flight'.queue[k]) : StaysOwed(k, c)
    <3> SUFFICES ASSUME NEW k \in Nodes, NEW c \in Range(flight'.queue[k]) PROVE StaysOwed(k, c)
      BY Zenon
    <3>1. c \in Range(flight.queue[k]) /\ (c \in flight.partial => c \in flight'.partial)
          /\ (conn[k] = "drop" => conn'[k] = "drop")
      BY <1>1, Zenon
    <3>2. AnswersStay(k, c)
      BY <3>1, <2>3, Zenon
    <3> QED BY <3>1, <3>2, Zenon DEF StaysOwed
  <2>5. \A k \in Responsive : \A c \in Range(flight'.queue[k]) : StaysOwed(k, c) \/ Coming(k, c)'
    BY <2>4, <1>5, Zenon
  <2> QED BY <2>1, <2>5, <1>3, <1>4, StepKeeps, Zenon
<1>8. CASE ~ (Parent[b] \notin index \/ (flight.from[b] = NoNode /\ ~ ValidTransactions(Parent[b])))
  <2> DEFINE p == Parent[b]
             d == mapBlocksWait[p]
  <2>1. /\ mapBlocksWait' = [mapBlocksWait EXCEPT ![p] = b] /\ pfrom' = n
        /\ displaced' = (displaced \cup {d}) \ {b, NoBlock}
        /\ expired' \in SUBSET (Waiting \ {b, d})
        /\ pindexLastAccepted' = IF pindexLastAccepted = NoBlock THEN tip ELSE pindexLastAccepted
    BY <1>8, Zenon DEF ReceiveBlock
  <2>2. p \in index /\ p \in Blocks /\ (b \notin index => ValidTransactions(p))
    BY <1>2, <1>6, <1>8, Zenon DEF IndexInv
  <2>3. WaitInv
    BY Zenon DEF DownloadInv
  <2>4. /\ mapBlocksWait \in [Blocks -> Blocks \cup {NoBlock}]
        /\ \A x \in Blocks : mapBlocksWait[x] # NoBlock =>
             x \in index /\ Parent[mapBlocksWait[x]] = x /\ mapBlocksWait[x] \in index
    BY <2>3, Zenon DEF WaitInv
  <2> HIDE DEF p
  <2>5. /\ mapBlocksWait' \in [Blocks -> Blocks \cup {NoBlock}]
        /\ \A x \in Blocks : mapBlocksWait'[x] = IF x = p THEN b ELSE mapBlocksWait[x]
    BY <2>1, <2>2, <2>4, Zenon
  <2>6. WaitInv'
    <3>1. pfrom' \in Nodes \cup {NoNode} /\ expired' \subseteq Blocks
      BY <2>1, <2>3, WaitingOK, Zenon
    <3>2. pindexLastAccepted' \in index' \cup {NoBlock}
      BY <2>1, <2>3, <1>2, <1>3, Zenon DEF WaitInv, IndexInv
    <3>3. ~ Idle' /\ (ValidTransactions(p) => ValidTransactions(p)')
      BY <2>1, <1>3, <1>5, Zenon DEF Idle, ValidTransactions
    <3>4. \A x \in Blocks : mapBlocksWait'[x] # NoBlock =>
            /\ x \in index' /\ Parent[mapBlocksWait'[x]] = x
            /\ mapBlocksWait'[x] \notin index' => ~ Idle' /\ ValidTransactions(x)' /\ mapBlocksWait'[x] \notin expired'
      <4> SUFFICES ASSUME NEW x \in Blocks, mapBlocksWait'[x] # NoBlock
                   PROVE  /\ x \in index' /\ Parent[mapBlocksWait'[x]] = x
                          /\ mapBlocksWait'[x] \notin index' =>
                               ~ Idle' /\ ValidTransactions(x)' /\ mapBlocksWait'[x] \notin expired'
        BY Zenon
      <4>1. CASE x = p
        <5>1. mapBlocksWait'[x] = b /\ b \notin expired' /\ Parent[b] = p
          BY <4>1, <2>1, <2>5, Zenon DEF p
        <5> QED BY <4>1, <5>1, <3>3, <2>2, <1>3, Zenon
      <4>2. CASE x # p
        <5>1. mapBlocksWait'[x] = mapBlocksWait[x]
          BY <4>2, <2>5, Zenon
        <5>2. x \in index /\ Parent[mapBlocksWait[x]] = x /\ mapBlocksWait[x] \in index
          BY <5>1, <2>4, Zenon
        <5> QED BY <5>1, <5>2, <1>3, Zenon
      <4> QED BY <4>1, <4>2, Zenon
    <3> QED BY <3>1, <3>2, <3>4, <2>5, Zenon DEF WaitInv
  <2>7. b \in Waiting' /\ \A c \in Waiting : c = d \/ c \in Waiting'
    <3>1. \A c : c \in Waiting' <=> c # NoBlock /\ \E x \in Blocks : mapBlocksWait'[x] = c
      BY Zenon DEF Waiting
    <3>2. \A c \in Waiting : c # NoBlock /\ \E x \in Blocks : mapBlocksWait[x] = c
      BY <2>3, WaitingOK, Zenon
    <3>3. b \in Waiting'
      BY <3>1, <2>2, <2>5, <1>5, Zenon
    <3>4. \A c \in Waiting : c = d \/ c \in Waiting'
      BY <3>1, <3>2, <2>5, Zenon
    <3> QED BY <3>3, <3>4, Zenon
  <2> HIDE DEF d
  <2>8. AnswersInv'
    <3> SUFFICES ASSUME NEW k \in Responsive, NEW c \in Range(flight'.queue[k]) PROVE Served(k, c)'
      BY Zenon DEF AnswersInv
    <3>1. Served(k, c) /\ k \in Nodes
      BY <1>1, <1>5, Zenon DEF DownloadInv, AnswersInv
    <3>2. CASE c = b
      BY <3>2, <2>7, Zenon DEF Served
    <3>3. CASE c # b
      <4>1. Coming(k, c) => Coming(k, c)'
        <5>1. AnswersStay(k, c)
          BY <3>1, <3>3
        <5> QED BY <5>1, <1>1, Zenon DEF Coming, AnswersStay
      <4>2. c \in displaced \cup {d} => Replaced(c)'
        <5>1. flight.queue[k] \in Seq(Blocks)
          BY <3>1, <1>2, Zenon DEF FlightOK, FlightType
        <5>2. c \in Blocks
          BY <5>1, <1>1, EmptyQueue, Zenon
        <5> QED BY <5>2, <3>3, <2>1, <1>5, Zenon DEF Replaced
      <4>3. c \in Waiting => c \in Waiting' \/ Replaced(c)'
        BY <4>2, <2>7, Zenon
      <4>4. Replaced(c) => Replaced(c)'
        BY <4>2, Zenon DEF Replaced
      <4> QED BY <3>1, <4>1, <4>3, <4>4, <1>1, Zenon DEF Served
    <3> QED BY <3>2, <3>3, Zenon
  <2> QED BY <2>6, <2>8, <1>3, <1>4, Together, Zenon
<1> QED BY <1>7, <1>8, Zenon

(* An answer that is a block, and a block that nobody was asked for. *)
LEMMA BlockOK ==
  ASSUME DownloadInv, NEW n \in Nodes, BlockAnswer(n) \/ \E b \in Blocks : BlockUnasked(n, b)
  PROVE  DownloadInv'
<1>1. CASE BlockAnswer(n)
  <2> DEFINE b == Head(answers[n]).block
  <2>1. Idle /\ answers[n] # <<>> /\ ReceiveBlock(n, b) /\ answers' = [answers EXCEPT ![n] = Tail(@)]
    BY <1>1, Zenon DEF BlockAnswer, Handles
  <2>2. /\ answers' \in [Nodes -> Seq(Answers)] /\ b \in Blocks
        /\ \A k \in Nodes : \A c : k # n \/ c # b => AnswersStay(k, c)
    BY <2>1, AnswerTaken, Zenon
  <2> HIDE DEF b
  <2> QED BY <2>1, <2>2, ReceiveBlockOK, Zenon
<1>2. CASE \E b \in Blocks : BlockUnasked(n, b)
  <2>1. PICK b \in Blocks : BlockUnasked(n, b)
    BY <1>2, Zenon
  <2>2. Idle /\ ReceiveBlock(n, b) /\ answers' = answers
    BY <2>1, Zenon DEF BlockUnasked, Handles
  <2>3. answers' \in [Nodes -> Seq(Answers)] /\ \A k \in Nodes : \A c : k # n \/ c # b => AnswersStay(k, c)
    BY <2>2, LimitsNow, SameAnswers, Zenon
  <2> QED BY <2>2, <2>3, ReceiveBlockOK, Zenon
<1> QED BY <1>1, <1>2, Zenon

(* A waiting block leaves mapBlocksWait, and is in flight no more: what a   *)
(* peer still owes is served as before.                                     *)
LEMMA LoopStep ==
  ASSUME DownloadInv, ~ Idle, NEW p \in Blocks, NEW d, d = mapBlocksWait[p], d # NoBlock,
         mapBlocksWait' = [mapBlocksWait EXCEPT ![p] = NoBlock], flight' = MarkBlockAsReceived(flight, d),
         IndexInv', ChainGrows, d \in index', pindexLastAccepted' \in index' \cup {NoBlock},
         conn' \in Connections,
         \A k \in Nodes : (conn'[k] = "off" => conn[k] = "off") /\ (conn[k] = "drop" => conn'[k] = "drop"),
         known' = known, answers' = answers, pfrom' = pfrom, expired' = expired, displaced' = displaced
  PROVE  DownloadInv'
<1>1. /\ FlightOK(flight) /\ Within(flight, index) /\ known \in [Nodes -> EntriesOf(index)]
      /\ answers \in [Nodes -> Seq(Answers)] /\ \A k \in Nodes : conn[k] = "off" => flight.queue[k] = <<>>
  BY LimitsNow, Zenon
<1>2. WaitInv /\ d \in Blocks
  BY WaitingOK, Zenon DEF DownloadInv
<1>3. FlightOK(flight')
  BY <1>1, <1>2, ReceivedOK, Zenon
<1>4. index \subseteq index' /\ Within(flight, index')
  BY <1>1, Zenon DEF Within, ChainGrows
<1>5. /\ Within(flight', index') /\ \A k \in Nodes : flight.queue[k] = <<>> => flight'.queue[k] = <<>>
      /\ \A k \in Nodes : \A c \in Range(flight'.queue[k]) :
           c \in Range(flight.queue[k]) /\ c # d /\ (c \in flight.partial => c \in flight'.partial)
  <2>1. OwesLess(flight, flight', d, index')
    BY <1>1, <1>2, <1>4, ReceivedWithin, Zenon
  <2> QED BY <2>1, Zenon DEF OwesLess
<1>6. \A k \in Nodes : conn'[k] = "off" => flight'.queue[k] = <<>>
  BY <1>1, <1>5, Zenon
<1>7. known' \in [Nodes -> EntriesOf(index')] /\ answers' \in [Nodes -> Seq(Answers)]
  BY <1>1, <1>4, EntriesGrow, Zenon
<1>8. /\ mapBlocksWait' \in [Blocks -> Blocks \cup {NoBlock}]
      /\ \A x \in Blocks : mapBlocksWait'[x] = IF x = p THEN NoBlock ELSE mapBlocksWait[x]
  BY <1>2, Zenon DEF WaitInv
<1>9. WaitInv'
  <2>1. pfrom' \in Nodes \cup {NoNode} /\ expired' \subseteq Blocks /\ ~ Idle'
    BY <1>2, Zenon DEF WaitInv, Idle
  <2>2. \A x : ValidTransactions(x) => ValidTransactions(x)'
    BY Zenon DEF ValidTransactions, ChainGrows
  <2>3. \A x \in Blocks : mapBlocksWait'[x] # NoBlock =>
          /\ x \in index' /\ Parent[mapBlocksWait'[x]] = x
          /\ mapBlocksWait'[x] \notin index' => ~ Idle' /\ ValidTransactions(x)' /\ mapBlocksWait'[x] \notin expired'
    <3> SUFFICES ASSUME NEW x \in Blocks, mapBlocksWait'[x] # NoBlock
                 PROVE  /\ x \in index' /\ Parent[mapBlocksWait'[x]] = x
                        /\ mapBlocksWait'[x] \notin index' =>
                             ~ Idle' /\ ValidTransactions(x)' /\ mapBlocksWait'[x] \notin expired'
      BY Zenon
    <3>1. mapBlocksWait'[x] = mapBlocksWait[x]
      BY <1>8, Zenon
    <3>2. x \in index /\ Parent[mapBlocksWait[x]] = x
          /\ (mapBlocksWait[x] \notin index => ValidTransactions(x) /\ mapBlocksWait[x] \notin expired)
      BY <3>1, <1>2, Zenon DEF WaitInv
    <3>3. x \in index' /\ (mapBlocksWait[x] \notin index' => mapBlocksWait[x] \notin index)
      BY <3>2, <1>4, Zenon
    <3>4. Parent[mapBlocksWait'[x]] = x
      BY <3>1, <3>2, Zenon
    <3>5. mapBlocksWait'[x] \notin index' => ValidTransactions(x) /\ mapBlocksWait'[x] \notin expired'
      BY <3>1, <3>2, <3>3
    <3> QED BY <3>3, <3>4, <3>5, <2>1, <2>2, Zenon
  <2> QED BY <2>1, <2>3, <1>8, Zenon DEF WaitInv
<1>10. \A c \in Waiting : c = d \/ c \in Waiting'
  <2>1. \A c : c \in Waiting' <=> c # NoBlock /\ \E x \in Blocks : mapBlocksWait'[x] = c
    BY Zenon DEF Waiting
  <2>2. \A c \in Waiting : c # NoBlock /\ \E x \in Blocks : mapBlocksWait[x] = c
    BY <1>2, WaitingOK, Zenon
  <2> QED BY <2>1, <2>2, <1>8, Zenon
<1>11. AnswersInv'
  <2> SUFFICES ASSUME NEW k \in Responsive, NEW c \in Range(flight'.queue[k]) PROVE Served(k, c)'
    BY Zenon DEF AnswersInv
  <2>1. k \in Nodes
    BY DownloadConstants, Zenon
  <2>2. c \in Range(flight.queue[k]) /\ c # d /\ (c \in flight.partial => c \in flight'.partial)
    BY <2>1, <1>5, Zenon
  <2>3. Served(k, c)
    BY <2>2, Zenon DEF DownloadInv, AnswersInv
  <2>4. Coming(k, c) => Coming(k, c)'
    BY <2>2, Zenon DEF Coming
  <2>5. c \in Waiting => c \in Waiting'
    BY <2>2, <1>10, Zenon
  <2>6. Replaced(c) => Replaced(c)'
    BY Zenon DEF Replaced
  <2>7. conn[k] = "drop" => conn'[k] = "drop"
    BY <2>1, Zenon
  <2> QED BY <2>3, <2>4, <2>5, <2>6, <2>7, Zenon DEF Served
<1> QED BY <1>3, <1>5, <1>6, <1>7, <1>9, <1>11, Together, Zenon

(* The loop over mapBlocksWait. *)
LEMMA BlockLoopOK ==
  ASSUME DownloadInv, BlockLoop
  PROVE  DownloadInv'
<1>1. ~ Idle /\ ((\E p \in Blocks : GiveUp(p) \/ Process(p)) \/ BlockDone)
  BY Zenon DEF BlockLoop, Idle
<1>2. IndexInv /\ WaitInv /\ conn \in Connections
  BY LimitsNow, Zenon DEF DownloadInv
<1>3. ASSUME NEW p \in Blocks, GiveUp(p) PROVE DownloadInv'
  <2> DEFINE d == mapBlocksWait[p]
  <2>1. /\ d # NoBlock /\ (d \in expired \/ p \in failed) /\ mapBlocksWait' = [mapBlocksWait EXCEPT ![p] = NoBlock]
        /\ flight' = MarkBlockAsReceived(flight, d) /\ conn' = conn /\ known' = known /\ answers' = answers
        /\ UNCHANGED chainVars /\ pindexLastAccepted' = pindexLastAccepted /\ pfrom' = pfrom /\ expired' = expired
        /\ displaced' = displaced
    BY <1>3, Zenon DEF GiveUp
  <2>2. IndexInv' /\ ChainGrows /\ index' = index
    BY <2>1, <1>2, ChainSame, Zenon DEF chainVars
  <2>3. d \in index
    <3>1. d \notin index => ValidTransactions(p) /\ d \notin expired
      BY <2>1, <1>2, Zenon DEF WaitInv
    <3> QED BY <3>1, <2>1, Zenon DEF ValidTransactions
  <2>4. pindexLastAccepted' \in index' \cup {NoBlock}
    BY <2>1, <2>2, <1>2, Zenon DEF WaitInv
  <2>5. conn' \in Connections /\ \A k \in Nodes : /\ conn'[k] = "off" => conn[k] = "off"
                                                  /\ conn[k] = "drop" => conn'[k] = "drop"
    BY <2>1, <1>2, Zenon
  <2>6. d \in index'
    BY <2>2, <2>3, Zenon
  <2> QED BY <2>1, <2>2, <2>4, <2>5, <2>6, <1>1, LoopStep, Zenon
<1>4. ASSUME NEW p \in Blocks, Process(p) PROVE DownloadInv'
  <2> DEFINE d == mapBlocksWait[p]
             force == flight.from[d] # NoNode
  <2>1. /\ d # NoBlock /\ mapBlocksWait' = [mapBlocksWait EXCEPT ![p] = NoBlock]
        /\ flight' = MarkBlockAsReceived(flight, d) /\ known' = known /\ answers' = answers
        /\ ProcessNewBlock(d, force) /\ pindexLastAccepted' = (IF Accepted(d, force) THEN d ELSE NoBlock)
        /\ conn' = (IF failed' # failed THEN [conn EXCEPT ![pfrom] = "drop"] ELSE conn)
        /\ pfrom' = pfrom /\ expired' = expired /\ displaced' = displaced
    BY <1>4, Zenon DEF Process
  <2>2. d \in Blocks /\ p \in index /\ Parent[d] = p /\ (d \notin index => ValidTransactions(p))
    BY <2>1, <1>2, WaitingOK, Zenon DEF WaitInv
  <2> HIDE DEF force
  <2>3. IndexInv' /\ ChainGrows /\ (p \notin failed => d \in index') /\ (Accepted(d, force) => d \in index')
    <3>1. d \in index \/ Parent[d] \in index
      BY <2>2, Zenon
    <3> HIDE DEF d
    <3> QED BY <2>1, <2>2, <3>1, <1>2, ProcessedOK, Zenon
  <2>4. d \in index'
    <3>1. d \in index => d \in index'
      BY <2>3, Zenon DEF ChainGrows
    <3> QED BY <3>1, <2>2, <2>3, Zenon DEF ValidTransactions
  <2>5. pindexLastAccepted' \in index' \cup {NoBlock}
    BY <2>1, <2>4, Zenon
  <2>6. pfrom \in Nodes
    BY <1>1, <1>2, Zenon DEF WaitInv, Idle
  <2>7. conn' \in Connections /\ \A k \in Nodes : /\ conn'[k] = "off" => conn[k] = "off"
                                                  /\ conn[k] = "drop" => conn'[k] = "drop"
    <3>1. CASE failed' = failed
      BY <3>1, <2>1, <1>2, Zenon
    <3>2. CASE failed' # failed
      <4>1. Drop(pfrom)
        BY <3>2, <2>1, Zenon DEF Drop
      <4>2. conn' \in Connections /\ \A k \in Nodes : conn'[k] = IF k = pfrom THEN "drop" ELSE conn[k]
        BY <4>1, <2>6, <1>2, DropOK, Zenon
      <4> QED BY <4>2, Zenon
    <3> QED BY <3>1, <3>2, Zenon
  <2> QED BY <2>1, <2>3, <2>4, <2>5, <2>7, <1>1, LoopStep, Zenon
<1>5. CASE BlockDone
  <2>1. /\ \A p \in Blocks : ~ CanProcess(p)
        /\ pfrom' = NoNode /\ expired' = {} /\ mapBlocksWait' = mapBlocksWait /\ displaced' = displaced
        /\ pindexLastAccepted' = pindexLastAccepted /\ conn' = conn /\ known' = known /\ flight' = flight
        /\ answers' = answers /\ UNCHANGED chainVars
    BY <1>5, Zenon DEF BlockDone
  <2>2. IndexInv' /\ ChainGrows /\ index' = index
    BY <2>1, <1>2, ChainSame, Zenon DEF chainVars
  <2>3. \A p \in Blocks : mapBlocksWait[p] # NoBlock =>
          p \in index /\ Parent[mapBlocksWait[p]] = p /\ mapBlocksWait[p] \in index
    BY <2>1, <1>2, Zenon DEF WaitInv, CanProcess
  <2>4. WaitInv'
    BY <2>1, <2>2, <2>3, <1>2, Zenon DEF WaitInv
  <2>5. Waiting' = Waiting
    BY <2>1, Zenon DEF Waiting
  <2>6. AnswersInv'
    <3> SUFFICES ASSUME NEW k \in Responsive, NEW c \in Range(flight'.queue[k]) PROVE Served(k, c)'
      BY Zenon DEF AnswersInv
    <3>1. Served(k, c)
      BY <2>1, Zenon DEF DownloadInv, AnswersInv
    <3> QED BY <3>1, <2>1, <2>2, <2>5, Zenon DEF Served, Coming, Replaced
  <2>7. /\ FlightOK(flight') /\ Within(flight', index') /\ conn' \in Connections
        /\ known' \in [Nodes -> EntriesOf(index')] /\ answers' \in [Nodes -> Seq(Answers)]
        /\ \A k \in Nodes : conn'[k] = "off" => flight'.queue[k] = <<>>
    BY <2>1, <2>2, LimitsNow, Zenon
  <2> QED BY <2>2, <2>4, <2>6, <2>7, Together, Zenon
<1> QED BY <1>1, <1>3, <1>4, <1>5, Zenon

(* The invariant holds at the start: nothing is asked for, nothing waits. *)
LEMMA DownloadInitOK == DownloadInit => DownloadInv
<1> SUFFICES ASSUME DownloadInit PROVE DownloadInv
  BY Zenon
<1>1. /\ flight = [from |-> [b \in Blocks |-> NoNode], queue |-> [n \in Nodes |-> <<>>],
                   count |-> [n \in Nodes |-> 0], stalling |-> {}, partial |-> {}, peers |-> 0]
      /\ conn = [n \in Nodes |-> "off"] /\ known = [n \in Nodes |-> NewNode] /\ answers = [n \in Nodes |-> <<>>]
      /\ index = StoredAtStart /\ haveData = StoredAtStart /\ failed = {} /\ tip \in StoredAtStart
      /\ mapBlocksWait = [b \in Blocks |-> NoBlock] /\ pindexLastAccepted = NoBlock
      /\ pfrom = NoNode /\ expired = {}
  BY Zenon DEF DownloadInit
<1>2. <<>> \in Seq(Blocks) /\ <<>> \in Seq(Answers) /\ Len(<<>>) = 0 /\ IsInjective(<<>>) /\ Range(<<>>) = {}
  <2>1. <<>> \in Seq(Blocks) /\ <<>> \in Seq(Answers) /\ Len(<<>>) = 0
    OBVIOUS
  <2>2. Range(<<>>) = {}
    BY <2>1, EmptyQueue, Zenon
  <2>3. IsInjective(<<>>)
    BY DEF IsInjective
  <2> QED BY <2>1, <2>2, <2>3, Zenon
<1>3. /\ \A b \in Blocks : flight.from[b] = NoNode
      /\ \A n \in Nodes : flight.queue[n] = <<>> /\ flight.count[n] = 0
      /\ flight.stalling = {} /\ flight.partial = {} /\ flight.peers = 0
  BY <1>1, Zenon
<1>4. FlightType(flight)
  <2>1. [b \in Blocks |-> NoNode] \in [Blocks -> Nodes \cup {NoNode}] /\ [n \in Nodes |-> 0] \in [Nodes -> Nat]
    BY Zenon
  <2>2. [n \in Nodes |-> <<>>] \in [Nodes -> Seq(Blocks)]
    BY <1>2, Zenon
  <2>3. {} \in SUBSET Nodes /\ {} \in SUBSET Blocks /\ 0 \in Int
    OBVIOUS
  <2> QED BY <1>1, <2>1, <2>2, <2>3, Zenon DEF FlightType
<1>5. FlightOK(flight)
  <2>1. \A b \in Blocks, n \in Nodes : flight.from[b] = n <=> b \in Range(flight.queue[n])
    BY <1>2, <1>3, DownloadConstants, Zenon
  <2>2. \A n \in Nodes : IsInjective(flight.queue[n]) /\ flight.count[n] = Len(flight.queue[n])
    BY <1>2, <1>3, Zenon
  <2>3. Busy(flight) = {}
    BY <1>3, Zenon DEF Busy
  <2>4. flight.peers = Cardinality(Busy(flight))
    BY <2>3, <1>3, FS_EmptySet, Zenon
  <2>5. (\A n \in flight.stalling : flight.queue[n] # <<>>) /\ flight.partial \subseteq InFlight(flight)
    BY <1>3, Zenon
  <2> QED BY <1>4, <2>1, <2>2, <2>4, <2>5, Zenon DEF FlightOK
<1>6. IndexInv
  BY <1>1, DownloadConstants, Zenon DEF IndexInv
<1>7. PeerInv
  <2>1. conn \in [Nodes -> {"off", "on", "drop"}]
    BY <1>1, Zenon
  <2>2. known \in [Nodes -> Entries]
    <3>1. NewNode \in Entries
      BY Zenon DEF NewNode, Entries, EntriesOf
    <3> QED BY <3>1, <1>1, Zenon
  <2>3. answers \in [Nodes -> Seq(Answers)]
    BY <1>1, <1>2, Zenon
  <2>4. InFlight(flight) \subseteq index \ {Genesis}
    BY <1>3, Zenon DEF InFlight
  <2>5. \A n \in Nodes : flight.queue[n] = <<>> /\ Len(flight.queue[n]) <= MAX_BLOCKS_IN_TRANSIT_PER_PEER
    <3>1. 0 <= MAX_BLOCKS_IN_TRANSIT_PER_PEER
      BY DownloadConstants
    <3> QED BY <3>1, <1>2, <1>3, Zenon
  <2> QED BY <2>1, <2>2, <2>3, <2>4, <2>5, Zenon DEF PeerInv
<1>8. WaitInv
  BY <1>1, Zenon DEF WaitInv
<1>9. AnswersInv
  BY <1>2, <1>3, DownloadConstants, Zenon DEF AnswersInv
<1> QED BY <1>5, <1>6, <1>7, <1>8, <1>9, Zenon DEF DownloadInv

(* Every step keeps the invariant. *)
LEMMA DownloadNextOK == DownloadInv /\ [DownloadNext]_downloadVars => DownloadInv'
<1> SUFFICES ASSUME DownloadInv, [DownloadNext]_downloadVars PROVE DownloadInv'
  BY Zenon
<1>1. CASE UNCHANGED downloadVars
  <2>1. UNCHANGED blockVars /\ UNCHANGED flight /\ conn' = conn /\ known' = known /\ answers' = answers /\ UNCHANGED chainVars
    BY <1>1, Zenon DEF downloadVars
  <2>2. IndexInv' /\ ChainGrows /\ index' = index
    BY <2>1, ChainSame, LimitsNow, Zenon DEF chainVars
  <2>3. conn' \in Connections /\ known' \in [Nodes -> EntriesOf(index')] /\ answers' \in [Nodes -> Seq(Answers)]
    BY <2>1, <2>2, LimitsNow, Zenon
  <2>4. \A k \in Nodes : /\ conn'[k] = "off" => conn[k] = "off"
                         /\ conn[k] = "drop" => conn'[k] = "drop"
                         /\ Range(answers[k]) \subseteq Range(answers'[k])
    BY <2>1, Zenon
  <2> QED BY <2>1, <2>2, <2>3, <2>4, QuietStep, Zenon
<1>2. ASSUME NEW n \in Nodes, Hangup(n) \/ Timeouts(n) PROVE DownloadInv'
  <2>1. Drop(n) /\ UNCHANGED <<known, flight, answers, chainVars, blockVars>>
    BY <1>2, Zenon DEF Hangup, Timeouts, StallTimeout, DownloadTimeout
  <2> QED BY <2>1, DropStep, Zenon
<1>3. Announced \subseteq Blocks /\ Unasked \subseteq Blocks /\ CompactBlocks \subseteq Blocks
  BY DownloadConstants, Zenon
<1>4. ASSUME NEW n \in Nodes, NEW b \in Announced, Announce(n, b) \/ Headers(n, b) PROVE DownloadInv'
  BY <1>3, <1>4, AnnounceOK, HeadersOK, Zenon
<1>5. ASSUME NEW n \in Nodes, BlockAnswer(n) \/ \E b \in Unasked : BlockUnasked(n, b) PROVE DownloadInv'
  BY <1>3, <1>5, BlockOK, Zenon
<1>6. ASSUME NEW n \in Nodes, NEW b \in CompactBlocks, Compact(n, b) PROVE DownloadInv'
  BY <1>3, <1>6, CompactOK, Zenon
<1>7. CASE DownloadNext
  BY <1>2, <1>4, <1>5, <1>6, <1>7, InitializeNodeOK, FinalizeNodeOK, GetDataOK, BlockTxnOK, BlockTxnInvalidOK,
     BlockLoopOK, Zenon DEF DownloadNext
<1> QED BY <1>1, <1>7, Zenon

(* The inductive invariant holds of every behaviour, for any peers and any *)
(* tree of blocks.                                                          *)
THEOREM DownloadInvariant == DownloadSpec => []DownloadInv
<1>1. DownloadInit => DownloadInv
  BY DownloadInitOK, Zenon
<1>2. DownloadInv /\ [DownloadNext]_downloadVars => DownloadInv'
  BY DownloadNextOK, Zenon
<1> QED BY <1>1, <1>2, PTL DEF DownloadSpec

(* The types of the download state, with the limit                          *)
(* MAX_BLOCKS_IN_TRANSIT_PER_PEER on what one peer is asked for.            *)
THEOREM DownloadTyped == DownloadSpec => []DownloadTypeOK
<1>1. DownloadInv => DownloadTypeOK
  <2> SUFFICES ASSUME DownloadInv PROVE DownloadTypeOK
    BY Zenon
  <2>1. \A n \in Nodes : {known[n].best, known[n].common} \subseteq index \cup {NoBlock}
    <3>1. \A n \in Nodes : known[n] \in EntriesOf(index)
      BY LimitsNow, Zenon
    <3> QED BY <3>1, Zenon DEF EntriesOf
  <2>2. conn \in [Nodes -> {"off", "on", "drop"}] /\ \A n \in Nodes : Len(flight.queue[n]) <= MAX_BLOCKS_IN_TRANSIT_PER_PEER
    BY Zenon DEF DownloadInv, PeerInv
  <2>3. haveData \subseteq index /\ failed \subseteq index \ haveData /\ tip \in haveData
    BY Zenon DEF DownloadInv, IndexInv
  <2>4. /\ \A p \in Blocks : mapBlocksWait[p] # NoBlock => Parent[mapBlocksWait[p]] = p
        /\ pindexLastAccepted \in index \cup {NoBlock}
    BY Zenon DEF DownloadInv, WaitInv
  <2> QED BY <2>1, <2>2, <2>3, <2>4, Zenon DEF DownloadTypeOK
<1> QED BY <1>1, DownloadInvariant, PTL

(* The assertions of FinalizeNode hold at any moment: mapBlocksInFlight,    *)
(* the lists and the counters of the peers, the partial blocks and the      *)
(* stalling timers agree.                                                   *)
THEOREM InFlightAgrees == DownloadSpec => []InFlightExact
<1>1. DownloadInv => InFlightExact
  <2> SUFFICES ASSUME DownloadInv PROVE InFlightExact
    BY Zenon
  <2>1. \A b \in Blocks, n \in Nodes : flight.from[b] = n <=> b \in Range(flight.queue[n])
    BY Zenon DEF DownloadInv, FlightOK
  <2>2. \A n \in Nodes : IsInjective(flight.queue[n]) /\ flight.count[n] = Len(flight.queue[n])
    BY Zenon DEF DownloadInv, FlightOK
  <2>3. \A n \in Nodes : flight.queue[n] = <<>> => n \notin flight.stalling
    BY Zenon DEF DownloadInv, FlightOK
  <2>4. \A n \in Nodes : conn[n] = "off" => flight.queue[n] = <<>>
    BY LimitsNow, Zenon
  <2>5. /\ flight.peers = Cardinality({n \in Nodes : flight.queue[n] # <<>>})
        /\ flight.partial \subseteq {b \in Blocks : flight.from[b] # NoNode}
    BY Zenon DEF DownloadInv, FlightOK, Busy, InFlight
  <2> QED BY <2>1, <2>2, <2>3, <2>4, <2>5, Zenon DEF InFlightExact
<1> QED BY <1>1, DownloadInvariant, PTL

(* No answer is lost: what a responsive peer was asked for is on its way,   *)
(* waits for its parent, or had its place taken by a sibling, unless the    *)
(* peer is about to be dropped.                                             *)
THEOREM NoAnswerLost == DownloadSpec => []AnswersKept
<1>1. DownloadInv => AnswersKept
  BY Zenon DEF DownloadInv, AnswersInv, AnswersKept, Served, Coming, Replaced
<1> QED BY <1>1, DownloadInvariant, PTL
=============================================================================
