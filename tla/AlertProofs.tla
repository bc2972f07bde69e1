----------------------------- MODULE AlertProofs ----------------------------
(***************************************************************************)
(* For any network of nodes, a cancelled alert never comes back to a node  *)
(* that heeded the cancellation, and nodes that are connected and have     *)
(* read everything agree on the alerts in effect (Alerts).                 *)
(*                                                                         *)
(* mapAlerts forgets an alert when another one cancels it.  What is kept   *)
(* instead is that the node is settled about the alert: it holds it, or    *)
(* one that cancels it.  A later alert cancels what an earlier one did     *)
(* only if it cancels the earlier one, and it lasts longer.                *)
(***************************************************************************)
EXTENDS Alerts, FiniteSetTheorems, TLAPS

Rev(e) == <<e[2], e[1]>>
InSeq(s, msg) == \E i \in 1..Len(s) : s[i] = msg
On(e, a) == InSeq(wire[e], AlertMessage(a))

(* Operators number their alerts and cancel earlier ones, so alerts expire  *)
(* in the order of their numbers.                                           *)
Sequenced(S) ==
  /\ \A a \in S : a \in AlertRecords /\ a.nCancel < a.nID
  /\ \A a, b \in S : a.nID < b.nID => a.nExpiration <= b.nExpiration
InSequence ==
  /\ IsFiniteSet(issued) /\ Sequenced(issued)
  /\ \A a \in issued : a.nID <= Cardinality(issued) /\ a.nExpiration <= alertClock + Lifetime

(* What n holds tells it whether a is wanted. *)
SettledBy(held, now, a) == now < a.nExpiration => \E b \in held : b = a \/ a.nID <= b.nCancel
Settled(n, a) == SettledBy(mapAlerts[n], alertClock, a)

(* A peer that is sent VERACK, or whose VERACK was read, has read VERSION;  *)
(* VERSION is read before anything else.                                    *)
Handshake ==
  \A e \in Ends :
    /\ link[e] = "full" => link[Rev(e)] # "new"
    /\ InSeq(wire[e], Message("verack")) => link[e] # "new"
    /\ link[Rev(e)] = "new" => IF wire[e] = <<>> THEN e \notin Links
                               ELSE Head(wire[e]) = Message("version")

(* A node is settled about each alert it has accepted and not yet relayed,  *)
(* put on a connection, or knows its peer to have.                          *)
NodeSettled ==
  \A n \in AlertNodes : /\ mapAlerts[n] \subseteq heeded[n]
                        /\ \A a \in heeded[n] : Settled(n, a)
                        /\ \A r \in relays[n] : Settled(n, r[2])
OwnSettled ==
  /\ NodeSettled
  /\ \A e \in Ends : \A a \in issued : On(e, a) \/ a \in setKnown[e] => Settled(e[1], a)

(* An alert known to a peer is on its way there or settled there, and one   *)
(* that a node holds is yet to be offered, was missed, is about to be       *)
(* relayed, is on its way or is settled.                                    *)
PeerSettled ==
  \A e \in Ends :
    /\ \A a \in setKnown[e] : On(e, a) \/ Settled(e[2], a)
    /\ \A a \in mapAlerts[e[1]] :
         \/ link[e] = "new" \/ <<e, a>> \in missed
         \/ \E r \in relays[e[1]] : r[2] = a
         \/ On(e, a) \/ Settled(e[2], a)

AlertInv ==
  /\ AlertTypeOK /\ InSequence /\ Handshake
  /\ OwnSettled /\ PeerSettled /\ CancelledStayAway
-----------------------------------------------------------------------------
(* Facts about sequences, connections and records. *)

(* Taking the first element of a sequence.                                  *)
LEMMA TakeFirst ==
  ASSUME NEW S, NEW s \in Seq(S), s # <<>>
  PROVE  /\ Head(s) \in S /\ Tail(s) \in Seq(S) /\ Len(Tail(s)) = Len(s) - 1
         /\ \A i \in 1..Len(Tail(s)) : Tail(s)[i] = s[i + 1]
  OBVIOUS

(* Putting one sequence behind another.                                     *)
LEMMA Joined ==
  ASSUME NEW S, NEW s \in Seq(S), NEW t \in Seq(S)
  PROVE  /\ s \o t \in Seq(S) /\ Len(s) \in Nat /\ Len(t) \in Nat
         /\ Len(s \o t) = Len(s) + Len(t)
         /\ \A i \in 1..Len(s) + Len(t) :
              (s \o t)[i] = IF i <= Len(s) THEN s[i] ELSE t[i - Len(s)]
  OBVIOUS

(* What a sequence holds once a message is added at its end. *)
LEMMA InAppend ==
  ASSUME NEW T, NEW s \in Seq(T), NEW x \in T, NEW msg
  PROVE  InSeq(Append(s, x), msg) <=> InSeq(s, msg) \/ msg = x
<1>1. Len(Append(s, x)) = Len(s) + 1 /\ Len(s) \in Nat
  OBVIOUS
<1>2. \A i \in 1..Len(s) : Append(s, x)[i] = s[i]
  OBVIOUS
<1>3. Append(s, x)[Len(s) + 1] = x
  OBVIOUS
<1> QED BY <1>1, <1>2, <1>3 DEF InSeq

(* What a sequence holds once its first message is read. *)
LEMMA InTail ==
  ASSUME NEW T, NEW s \in Seq(T), s # <<>>, NEW msg
  PROVE  /\ InSeq(s, msg) <=> msg = Head(s) \/ InSeq(Tail(s), msg)
         /\ Tail(s) \in Seq(T) /\ Head(s) \in T /\ Head(s) = s[1]
<1>1. Len(Tail(s)) = Len(s) - 1 /\ Len(s) \in Nat /\ Len(s) > 0
  OBVIOUS
<1>2. \A i \in 1..(Len(s) - 1) : Tail(s)[i] = s[i + 1]
  OBVIOUS
<1>3. Head(s) = s[1] /\ Head(s) \in T /\ Tail(s) \in Seq(T)
  OBVIOUS
<1>4. ASSUME NEW i \in 1..Len(s), s[i] = msg
      PROVE  msg = Head(s) \/ InSeq(Tail(s), msg)
  <2>1. CASE i = 1
    BY <1>3, <1>4, <2>1, Zenon
  <2>2. CASE i # 1
    <3>1. i - 1 \in 1..(Len(s) - 1) /\ (i - 1) + 1 = i
      BY <1>1, <2>2
    <3>2. Tail(s)[i - 1] = msg
      BY <1>2, <1>4, <3>1, Zenon
    <3> QED BY <1>1, <3>1, <3>2, Zenon DEF InSeq
  <2> QED BY <2>1, <2>2, Zenon
<1>5. ASSUME NEW i \in 1..Len(Tail(s)), Tail(s)[i] = msg
      PROVE  InSeq(s, msg)
  <2>1. i + 1 \in 1..Len(s) /\ s[i + 1] = msg
    BY <1>1, <1>2, <1>5
  <2> QED BY <2>1, Zenon DEF InSeq
<1>6. msg = Head(s) => InSeq(s, msg)
  BY <1>1, <1>3 DEF InSeq
<1> QED BY <1>3, <1>4, <1>5, <1>6, Zenon DEF InSeq

(* What the concatenation of two sequences holds. *)
LEMMA InConcat ==
  ASSUME NEW T, NEW s \in Seq(T), NEW t \in Seq(T), NEW msg
  PROVE  InSeq(s \o t, msg) <=> InSeq(s, msg) \/ InSeq(t, msg)
<1>1. Len(s \o t) = Len(s) + Len(t) /\ Len(s) \in Nat /\ Len(t) \in Nat
  OBVIOUS
<1>2. \A i \in 1..(Len(s) + Len(t)) : (s \o t)[i] = IF i <= Len(s) THEN s[i] ELSE t[i - Len(s)]
  OBVIOUS
<1>3. ASSUME NEW i \in 1..Len(s), s[i] = msg
      PROVE  InSeq(s \o t, msg)
  BY <1>1, <1>2, <1>3 DEF InSeq
<1>4. ASSUME NEW i \in 1..Len(t), t[i] = msg
      PROVE  InSeq(s \o t, msg)
  <2>1. i + Len(s) \in 1..(Len(s) + Len(t)) /\ ~ (i + Len(s) <= Len(s)) /\ (i + Len(s)) - Len(s) = i
    BY <1>1
  <2>2. (s \o t)[i + Len(s)] = msg
    BY <1>2, <1>4, <2>1, Zenon
  <2> QED BY <1>1, <2>1, <2>2, Zenon DEF InSeq
<1>5. ASSUME NEW i \in 1..Len(s \o t), (s \o t)[i] = msg
      PROVE  InSeq(s, msg) \/ InSeq(t, msg)
  <2>1. CASE i <= Len(s)
    BY <1>1, <1>2, <1>5, <2>1 DEF InSeq
  <2>2. CASE ~ (i <= Len(s))
    <3>1. i - Len(s) \in 1..Len(t) /\ t[i - Len(s)] = msg
      BY <1>1, <1>2, <1>5, <2>2
    <3> QED BY <3>1, Zenon DEF InSeq
  <2> QED BY <2>1, <2>2, Zenon
<1> QED BY <1>3, <1>4, <1>5, Zenon DEF InSeq

(* Each connection has two ends, of which one node opened it. *)
LEMMA TwoEnds ==
  ASSUME NEW e \in Ends
  PROVE  /\ e = <<e[1], e[2]>> /\ e[1] \in AlertNodes /\ e[2] \in AlertNodes /\ e[1] # e[2]
         /\ Rev(e) \in Ends /\ Rev(Rev(e)) = e /\ Rev(e) # e
         /\ e \in Links <=> Rev(e) \notin Links
<1>1. \A l \in Links : /\ l = <<l[1], l[2]>> /\ l[1] \in AlertNodes /\ l[2] \in AlertNodes
                       /\ l[1] # l[2] /\ <<l[2], l[1]>> \notin Links
  <2>1. \A l \in Links : l \in AlertNodes \X AlertNodes
    BY AlertConstants, Zenon
  <2>2. \A l \in Links : l[1] # l[2] /\ <<l[2], l[1]>> \notin Links
    BY AlertConstants, Zenon
  <2>3. \A l \in AlertNodes \X AlertNodes :
          l = <<l[1], l[2]>> /\ l[1] \in AlertNodes /\ l[2] \in AlertNodes
    OBVIOUS
  <2> QED BY <2>1, <2>2, <2>3, Zenon
<1>2. CASE e \in Links
  BY <1>1, <1>2, Zenon DEF Ends, Rev
<1>3. CASE e \notin Links
  <2>1. PICK l \in Links : e = <<l[2], l[1]>>
    BY <1>3, Zenon DEF Ends
  <2> QED BY <1>1, <1>3, <2>1, Zenon DEF Ends, Rev
<1> QED BY <1>2, <1>3, Zenon

(* The fields of an alert are numbers. *)
LEMMA AlertFields ==
  ASSUME NEW a \in AlertRecords
  PROVE  a.nID \in Nat /\ a.nCancel \in Nat /\ a.nExpiration \in Nat
BY AlertConstants DEF AlertRecords
-----------------------------------------------------------------------------
(* What processing an alert does to mapAlerts. *)

(* What n holds after x, an alert in effect, has been processed. *)
Left(n, x) == IF Accepts(n, x) THEN Surviving(n, x) \cup {x} ELSE Surviving(n, x)

(* An alert that n was settled about stays so, and n is settled about x:    *)
(* what x cancels is covered by x, or by the alert that x was refused for.  *)
LEMMA LeftSettled ==
  ASSUME NEW S, Sequenced(S), alertClock \in Nat, NEW n, mapAlerts[n] \subseteq S,
         NEW x \in S, IsInEffect(x),
         NEW a \in S, IsInEffect(a), Settled(n, a) \/ a = x
  PROVE  \E b \in Left(n, x) : b = a \/ a.nID <= b.nCancel
<1>0. \A y \in S : /\ y.nID \in Nat /\ y.nCancel \in Nat /\ y.nExpiration \in Nat
                   /\ y.nCancel < y.nID
  BY AlertFields, Zenon DEF Sequenced
<1>1. \A y \in S : x.nID <= y.nCancel /\ a.nID <= x.nCancel => a.nID <= y.nCancel
  BY <1>0
<1>2. ASSUME a.nID <= x.nCancel \/ a = x
      PROVE  \E b \in Left(n, x) : b = a \/ a.nID <= b.nCancel
  <2>1. CASE Accepts(n, x)
    BY <1>2, <2>1, Zenon DEF Left
  <2>2. CASE ~ Accepts(n, x)
    <3>1. PICK b \in Surviving(n, x) : Cancels(b, x)
      BY <2>2, Zenon DEF Accepts, AlreadyCancelled
    <3>2. b \in S /\ x.nID <= b.nCancel
      BY <3>1, Zenon DEF Surviving, Cancels
    <3>3. a.nID <= b.nCancel
      BY <1>1, <1>2, <3>2, Zenon
    <3> QED BY <2>2, <3>1, <3>3, Zenon DEF Left
  <2> QED BY <2>1, <2>2, Zenon
<1>3. CASE Settled(n, a) /\ ~ (a.nID <= x.nCancel)
  <2>1. PICK b \in mapAlerts[n] : b = a \/ a.nID <= b.nCancel
    BY <1>3, Zenon DEF Settled, SettledBy, IsInEffect
  <2>2. b \in S
    BY <2>1, Zenon
  <2>3. b = a \/ a.nID < b.nID
    BY <1>0, <2>1, <2>2
  <2>4. a.nExpiration <= b.nExpiration
    BY <1>0, <2>2, <2>3 DEF Sequenced
  <2>5. IsInEffect(b)
    BY <1>0, <2>2, <2>4 DEF IsInEffect
  <2>6. ~ (b.nID <= x.nCancel)
    BY <1>0, <1>3, <2>2, <2>3
  <2>7. b \in Surviving(n, x)
    BY <2>1, <2>5, <2>6, Zenon DEF Surviving, Cancels
  <2> QED BY <2>1, <2>7, Zenon DEF Left
<1> QED BY <1>2, <1>3, Zenon

(* ProcessAlert leaves every node settled about what it was settled about,  *)
(* and n about x.                                                           *)
LEMMA ProcessSettles ==
  ASSUME NEW S, Sequenced(S), alertClock \in Nat, mapAlerts \in [AlertNodes -> SUBSET S],
         NEW n \in AlertNodes, NEW x \in S, NEW thread,
         ProcessAlert(n, x, thread), UNCHANGED alertClock,
         NEW m \in AlertNodes, NEW a \in S, Settled(m, a) \/ (m = n /\ a = x)
  PROVE  Settled(m, a)'
<1> SUFFICES ASSUME IsInEffect(a)
             PROVE  \E b \in mapAlerts'[m] : b = a \/ a.nID <= b.nCancel
  BY Zenon DEF Settled, SettledBy, IsInEffect
<1>1. CASE m # n \/ ~ IsInEffect(x)
  <2>1. mapAlerts'[m] = mapAlerts[m]
    BY <1>1, Zenon DEF ProcessAlert
  <2> QED BY <1>1, <2>1, Zenon DEF Settled, SettledBy, IsInEffect
<1>2. CASE m = n /\ IsInEffect(x)
  <2>1. mapAlerts'[n] = Left(n, x)
    BY <1>2, Zenon DEF ProcessAlert, Left
  <2>2. \E b \in Left(n, x) : b = a \/ a.nID <= b.nCancel
    BY <1>2, LeftSettled
  <2> QED BY <1>2, <2>1, <2>2, Zenon
<1> QED BY <1>1, <1>2, Zenon

(* Nothing comes into mapAlerts but an accepted alert, which is heeded and  *)
(* relayed.                                                                 *)
LEMMA ProcessAdds ==
  ASSUME NEW S, mapAlerts \in [AlertNodes -> SUBSET S], heeded \in [AlertNodes -> SUBSET S],
         relays \in [AlertNodes -> SUBSET ({"rpc", "handler"} \X S)],
         NEW n \in AlertNodes, NEW x \in S, NEW thread \in {"rpc", "handler"},
         ProcessAlert(n, x, thread)
  PROVE  /\ mapAlerts' \in [AlertNodes -> SUBSET S] /\ heeded' \in [AlertNodes -> SUBSET S]
         /\ relays' \in [AlertNodes -> SUBSET ({"rpc", "handler"} \X S)]
         /\ \A m \in AlertNodes \ {n} :
              mapAlerts'[m] = mapAlerts[m] /\ heeded'[m] = heeded[m] /\ relays'[m] = relays[m]
         /\ Accepts(n, x) => /\ mapAlerts'[n] = Surviving(n, x) \cup {x}
                             /\ heeded'[n] = heeded[n] \cup {x}
                             /\ relays'[n] = relays[n] \cup {<<thread, x>>}
         /\ ~ Accepts(n, x) => /\ mapAlerts'[n] \subseteq mapAlerts[n]
                               /\ heeded'[n] = heeded[n] /\ relays'[n] = relays[n]
<1>1. Surviving(n, x) \subseteq mapAlerts[n]
  BY Zenon DEF Surviving
<1>2. <<thread, x>> \in {"rpc", "handler"} \X S
  BY Zenon
<1>3. Accepts(n, x) => IsInEffect(x)
  BY Zenon DEF Accepts
<1> QED BY <1>1, <1>2, <1>3, Zenon DEF ProcessAlert

(* A node never takes in an alert that one it heeded cancels: that one is   *)
(* held, or one that cancels more.                                          *)
LEMMA ProcessStaysAway ==
  ASSUME NEW S, Sequenced(S), alertClock \in Nat,
         mapAlerts \in [AlertNodes -> SUBSET S], heeded \in [AlertNodes -> SUBSET S],
         NEW n \in AlertNodes, NEW x \in S, NEW thread,
         ProcessAlert(n, x, thread), UNCHANGED alertClock,
         \A m \in AlertNodes : \A c \in heeded[m] : Settled(m, c),
         CancelledStayAway
  PROVE  CancelledStayAway'
<1>0. \A y \in S : y.nID \in Nat /\ y.nCancel \in Nat /\ y.nCancel < y.nID
  BY AlertFields, Zenon DEF Sequenced
<1>1. \A y, z : Cancels(y, z)' <=> Cancels(y, z)
  BY Zenon DEF Cancels, IsInEffect
<1> SUFFICES ASSUME NEW m \in AlertNodes, NEW a \in mapAlerts'[m], NEW c \in heeded'[m], Cancels(c, a)
             PROVE  FALSE
  BY <1>1, Zenon DEF CancelledStayAway
<1>2. a \notin mapAlerts[m] \/ c \notin heeded[m]
  BY Zenon DEF CancelledStayAway
<1>a. /\ \A u \in AlertNodes \ {n} : mapAlerts'[u] = mapAlerts[u] /\ heeded'[u] = heeded[u]
      /\ Accepts(n, x) => /\ mapAlerts'[n] = Surviving(n, x) \cup {x}
                          /\ heeded'[n] = heeded[n] \cup {x}
      /\ ~ Accepts(n, x) => mapAlerts'[n] \subseteq mapAlerts[n] /\ heeded'[n] = heeded[n]
  BY Zenon DEF ProcessAlert, Accepts, Surviving
<1>3. m = n /\ Accepts(n, x)
  BY <1>2, <1>a, Zenon
<1>4. a \in Surviving(n, x) \cup {x} /\ c \in heeded[n] \cup {x} /\ heeded[n] \subseteq S
  BY <1>3, <1>a, Zenon
<1>5. Surviving(n, x) \subseteq mapAlerts[n] /\ \A b \in Surviving(n, x) : IsInEffect(b) /\ ~ Cancels(x, b)
  BY Zenon DEF Surviving
<1>6. CASE a # x
  BY <1>2, <1>3, <1>4, <1>5, <1>6, Zenon
<1>7. CASE a = x
  <2>1. c # x /\ c \in heeded[n] /\ x.nID <= c.nCancel /\ IsInEffect(c)
    BY <1>0, <1>4, <1>7 DEF Cancels
  <2>2. PICK b \in Left(n, x) : b = c \/ c.nID <= b.nCancel
    BY <1>3, <1>4, <2>1, LeftSettled, Zenon DEF Accepts
  <2>3. b \in Surviving(n, x) \cup {x}
    BY <1>3, <2>2, Zenon DEF Left
  <2>4. b \in S /\ c \in S
    BY <1>4, <1>5, <2>1, <2>3, Zenon
  <2>5. x.nID <= b.nCancel
    BY <1>0, <2>1, <2>2, <2>4
  <2>6. b # x
    BY <1>0, <2>5
  <2>7. Cancels(b, x)
    BY <1>5, <2>3, <2>5, <2>6, Zenon DEF Cancels
  <2> QED BY <1>3, <2>3, <2>6, <2>7, Zenon DEF Accepts, AlreadyCancelled
<1> QED BY <1>6, <1>7, Zenon
-----------------------------------------------------------------------------
(* Types, and the numbering of the alerts. *)

Msgs(S) == {Message("version"), Message("verack")} \cup {AlertMessage(a) : a \in S}

(* The three kinds of messages differ, and an alert is read as it was sent. *)
LEMMA MessagesDiffer ==
  /\ Message("version") # Message("verack")
  /\ \A a : AlertMessage(a) # Message("version") /\ AlertMessage(a) # Message("verack")
  /\ \A a, b : AlertMessage(a) = AlertMessage(b) => a = b
<1>1. Message("version").kind = "version" /\ Message("verack").kind = "verack"
  BY Zenon DEF Message
<1>2. \A a : AlertMessage(a).kind = "alert" /\ AlertMessage(a).alert = a
  BY Zenon DEF AlertMessage
<1>3. ASSUME NEW a, NEW b, AlertMessage(a) = AlertMessage(b)
      PROVE  a = b
  BY <1>2, <1>3
<1>4. ASSUME NEW a
      PROVE  AlertMessage(a) # Message("version") /\ AlertMessage(a) # Message("verack")
  BY <1>1, <1>2, Zenon
<1> QED BY <1>1, <1>3, <1>4, Zenon

(* What is on a connection when it is opened. *)
LEMMA FirstMessage ==
  /\ \A msg : ~ InSeq(<<>>, msg)
  /\ \A msg : InSeq(<<Message("version")>>, msg) => msg = Message("version")
  /\ <<Message("version")>> # <<>> /\ Head(<<Message("version")>>) = Message("version")
  /\ \A S : <<Message("version")>> \in Seq(Msgs(S)) /\ <<>> \in Seq(Msgs(S))
<1> DEFINE v == Message("version")
<1>1. \A S : v \in Msgs(S)
  BY Zenon DEF Msgs
<1> HIDE DEF v
<1>2. \A msg : ~ InSeq(<<>>, msg)
  BY DEF InSeq
<1>3. \A msg : InSeq(<<v>>, msg) => msg = v
  BY DEF InSeq
<1>4. <<v>> # <<>> /\ Head(<<v>>) = v
  OBVIOUS
<1>5. ASSUME NEW S PROVE <<v>> \in Seq(Msgs(S)) /\ <<>> \in Seq(Msgs(S))
  BY <1>1
<1> QED BY <1>2, <1>3, <1>4, <1>5, Zenon DEF v

(* What is on a connection was issued. *)
LEMMA OnIssued ==
  ASSUME AlertTypeOK, NEW e \in Ends, NEW a, On(e, a)
  PROVE  a \in issued
<1>1. wire[e] \in Seq(Msgs(issued))
  BY Zenon DEF AlertTypeOK, Msgs
<1>2. AlertMessage(a) \in Msgs(issued)
  BY <1>1 DEF On, InSeq
<1> QED BY <1>2, MessagesDiffer, Zenon DEF Msgs

(* The message that the handler of n reads from m. *)
LEMMA ReadsMessage ==
  ASSUME AlertTypeOK, NEW n \in AlertNodes, NEW m \in AlertNodes, NEW kind, Reads(n, m, kind)
  PROVE  /\ <<n, m>> \in Ends /\ <<m, n>> \in Ends /\ <<m, n>> # <<n, m>>
         /\ Rev(<<n, m>>) = <<m, n>> /\ Rev(<<m, n>>) = <<n, m>>
         /\ wire[<<m, n>>] \in Seq(Msgs(issued)) /\ wire[<<m, n>>] # <<>>
         /\ kind = "version" => Head(wire[<<m, n>>]) = Message("version")
         /\ kind = "verack" => Head(wire[<<m, n>>]) = Message("verack")
         /\ kind = "alert" => /\ Head(wire[<<m, n>>]).alert \in issued
                              /\ Head(wire[<<m, n>>]) = AlertMessage(Head(wire[<<m, n>>]).alert)
<1>1. <<n, m>> \in Ends /\ Rev(<<n, m>>) = <<m, n>> /\ Rev(<<m, n>>) = <<n, m>>
  BY Zenon DEF Reads, Rev
<1>2. <<m, n>> \in Ends /\ <<m, n>> # <<n, m>>
  BY <1>1, TwoEnds, Zenon
<1>3. wire[<<m, n>>] \in Seq(Msgs(issued)) /\ wire[<<m, n>>] # <<>>
  BY <1>2, Zenon DEF AlertTypeOK, Msgs, Reads
<1>4. Head(wire[<<m, n>>]) \in Msgs(issued)
  BY <1>3, TakeFirst, Zenon
<1>5. Head(wire[<<m, n>>]).kind = kind
  BY Zenon DEF Reads
<1> HIDE DEF Msgs
<1>6. \/ Head(wire[<<m, n>>]) = Message("version") \/ Head(wire[<<m, n>>]) = Message("verack")
      \/ \E a \in issued : Head(wire[<<m, n>>]) = AlertMessage(a)
  BY <1>4, Zenon DEF Msgs
<1>7. Message("version").kind = "version" /\ Message("verack").kind = "verack"
  BY Zenon DEF Message
<1>8. \A a : AlertMessage(a).kind = "alert" /\ AlertMessage(a).alert = a
  BY Zenon DEF AlertMessage
<1>9. /\ kind = "version" => Head(wire[<<m, n>>]) = Message("version")
      /\ kind = "verack" => Head(wire[<<m, n>>]) = Message("verack")
      /\ kind = "alert" => /\ Head(wire[<<m, n>>]).alert \in issued
                           /\ Head(wire[<<m, n>>]) = AlertMessage(Head(wire[<<m, n>>]).alert)
  BY <1>5, <1>6, <1>7, <1>8, Zenon
<1> QED BY <1>1, <1>2, <1>3, <1>9, Zenon

(* A sequence of messages stays one when more alerts are issued. *)
LEMMA WireGrows ==
  ASSUME NEW S, NEW T, S \subseteq T, wire \in [Ends -> Seq(Msgs(S))]
  PROVE  wire \in [Ends -> Seq(Msgs(T))]
<1>1. Msgs(S) \subseteq Msgs(T)
  BY Zenon DEF Msgs
<1>2. ASSUME NEW e \in Ends
      PROVE  wire[e] \in Seq(Msgs(T))
  <2>1. wire[e] \in Seq(Msgs(S))
    BY Zenon
  <2>2. \A i \in 1..Len(wire[e]) : wire[e][i] \in Msgs(T)
    BY <1>1, <2>1
  <2> QED BY <2>1, <2>2
<1> QED BY <1>2, Zenon

(* The new alert of sendalert is the last in number and expires last. *)
LEMMA SendTypes ==
  ASSUME AlertTypeOK, InSequence, NEW n \in Issuers, NEW upto \in 0..MaxAlerts, sendalert(n, upto)
  PROVE  /\ AlertTypeOK' /\ InSequence'
         /\ \E x \in issued' : ProcessAlert(n, x, "rpc") /\ issued' = issued \cup {x}
<1> DEFINE k == Cardinality(issued) + 1
           x == [nID |-> k, nCancel |-> upto, nExpiration |-> Expiration(alertClock)]
<1>1. k \in 1..MaxAlerts /\ Cardinality(issued) \in Nat /\ alertClock \in 0..MaxClock
  BY FS_CardinalityType, AlertConstants DEF InSequence, sendalert, AlertTypeOK
<1>2. Expiration(alertClock) = alertClock + Lifetime /\ Lifetime \in Nat \ {0} /\ MaxClock \in Nat
  BY AlertConstants, Zenon DEF Expiration
<1>3. Expiration(alertClock) \in 1..MaxClock + Lifetime
  BY <1>1, <1>2
<1>4. x \in AlertRecords
  BY <1>1, <1>3, Zenon DEF AlertRecords
<1>5. x.nID = k /\ x.nCancel = upto /\ x.nExpiration = alertClock + Lifetime /\ upto < k
  BY <1>2, Zenon DEF sendalert
<1>6. issued' = issued \cup {x} /\ ProcessAlert(n, x, "rpc")
  BY Zenon DEF sendalert
<1> HIDE DEF x
<1>7. \A a \in issued : /\ a.nID \in Nat /\ a.nID < k
                        /\ a.nExpiration \in Nat /\ a.nExpiration <= alertClock + Lifetime
  BY <1>1, AlertFields DEF InSequence, Sequenced
<1>8. x \notin issued
  BY <1>1, <1>5, <1>7
<1> n \in AlertNodes
  BY AlertConstants, Zenon
<1>9. AlertTypeOK'
  <2>1. mapAlerts \in [AlertNodes -> SUBSET issued'] /\ heeded \in [AlertNodes -> SUBSET issued']
    BY <1>6, Zenon DEF AlertTypeOK
  <2>2. relays \in [AlertNodes -> SUBSET ({"rpc", "handler"} \X issued')]
    BY <1>6 DEF AlertTypeOK
  <2>3. x \in issued'
    BY <1>6, Zenon
  <2>4. /\ mapAlerts' \in [AlertNodes -> SUBSET issued'] /\ heeded' \in [AlertNodes -> SUBSET issued']
        /\ relays' \in [AlertNodes -> SUBSET ({"rpc", "handler"} \X issued')]
    BY <1>6, <2>1, <2>2, <2>3, ProcessAdds, Zenon
  <2>5. wire' \in [Ends -> Seq(Msgs(issued'))]
    <3>1. wire \in [Ends -> Seq(Msgs(issued))] /\ wire' = wire
      BY Zenon DEF AlertTypeOK, Msgs, sendalert
    <3> QED BY <1>6, <3>1, WireGrows, Zenon
  <2>6. setKnown' \in [Ends -> SUBSET issued'] /\ missed' \subseteq Ends \X issued'
    BY <1>6, Zenon DEF AlertTypeOK, sendalert
  <2>7. issued' \subseteq AlertRecords
    BY <1>4, <1>6, Zenon DEF AlertTypeOK
  <2> QED BY <2>4, <2>5, <2>6, <2>7, Zenon DEF AlertTypeOK, Msgs, sendalert
<1>10. InSequence'
  <2>1. IsFiniteSet(issued') /\ Cardinality(issued') = k
    BY <1>6, <1>8, FS_AddElement, Zenon DEF InSequence
  <2>2. Sequenced(issued')
    BY <1>1, <1>2, <1>4, <1>5, <1>6, <1>7 DEF InSequence, Sequenced
  <2>3. alertClock' = alertClock
    BY Zenon DEF sendalert
  <2>4. \A a \in issued' : a.nID <= k /\ a.nExpiration <= alertClock + Lifetime
    BY <1>1, <1>2, <1>5, <1>6, <1>7
  <2> QED BY <2>1, <2>2, <2>3, <2>4, Zenon DEF InSequence
<1> QED BY <1>6, <1>9, <1>10, Zenon
-----------------------------------------------------------------------------
(* The steps that process an alert. *)

(* What ProcessAlert(n, x) means for what is settled where. *)
Processed(n, x) ==
  /\ \A u \in AlertNodes : \A a \in issued' : Settled(u, a) \/ (u = n /\ a = x) => Settled(u, a)'
  /\ NodeSettled' /\ CancelledStayAway'
  /\ \A u \in AlertNodes : \A a \in mapAlerts'[u] :
       a \in mapAlerts[u] \/ \E r \in relays'[u] : r[2] = a
  /\ \A u \in AlertNodes : relays[u] \subseteq relays'[u]

(* ProcessAlert, called by sendalert or for ALERT. *)
LEMMA ProcessKeeps ==
  ASSUME AlertInv, Sequenced(issued'), issued \subseteq issued', UNCHANGED alertClock,
         NEW n \in AlertNodes, NEW x \in issued', NEW thread \in {"rpc", "handler"},
         ProcessAlert(n, x, thread)
  PROVE  Processed(n, x)
<1> USE DEF AlertInv
<1>1. /\ alertClock \in Nat
      /\ mapAlerts \in [AlertNodes -> SUBSET issued'] /\ heeded \in [AlertNodes -> SUBSET issued']
      /\ relays \in [AlertNodes -> SUBSET ({"rpc", "handler"} \X issued')]
  BY DEF AlertTypeOK
<1>2. ASSUME NEW u \in AlertNodes, NEW a \in issued', Settled(u, a) \/ (u = n /\ a = x)
      PROVE  Settled(u, a)'
  BY <1>1, <1>2, ProcessSettles, Zenon
<1>3. /\ \A m \in AlertNodes \ {n} :
           mapAlerts'[m] = mapAlerts[m] /\ heeded'[m] = heeded[m] /\ relays'[m] = relays[m]
      /\ Accepts(n, x) => /\ mapAlerts'[n] = Surviving(n, x) \cup {x}
                          /\ heeded'[n] = heeded[n] \cup {x}
                          /\ relays'[n] = relays[n] \cup {<<thread, x>>}
      /\ ~ Accepts(n, x) => /\ mapAlerts'[n] \subseteq mapAlerts[n]
                            /\ heeded'[n] = heeded[n] /\ relays'[n] = relays[n]
  BY <1>1, Zenon DEF ProcessAlert, Accepts, Surviving
<1>4. Surviving(n, x) \subseteq mapAlerts[n]
  BY Zenon DEF Surviving
<1>5. <<thread, x>>[2] = x
  BY Zenon
<1>6. ASSUME NEW u \in AlertNodes
      PROVE  /\ mapAlerts'[u] \subseteq heeded'[u]
             /\ \A a \in heeded'[u] : Settled(u, a)'
             /\ \A r \in relays'[u] : Settled(u, r[2])'
             /\ \A a \in mapAlerts'[u] : a \in mapAlerts[u] \/ \E r \in relays'[u] : r[2] = a
             /\ relays[u] \subseteq relays'[u]
  <2>1. /\ mapAlerts[u] \subseteq heeded[u] /\ heeded[u] \subseteq issued'
        /\ \A a \in heeded[u] : Settled(u, a)
        /\ \A r \in relays[u] : r[2] \in issued' /\ Settled(u, r[2])
    BY <1>1 DEF OwnSettled, NodeSettled
  <2>2. /\ \A a \in heeded'[u] : a \in heeded[u] \/ (u = n /\ a = x)
        /\ \A r \in relays'[u] : r \in relays[u] \/ (u = n /\ r[2] = x)
    <3>1. CASE u = n /\ Accepts(n, x)
      BY <1>3, <1>5, <3>1, Zenon
    <3>2. CASE u = n /\ ~ Accepts(n, x)
      BY <1>3, <3>2, Zenon
    <3>3. CASE u # n
      BY <1>3, <3>3, Zenon
    <3> QED BY <3>1, <3>2, <3>3, Zenon
  <2>4. mapAlerts'[u] \subseteq heeded'[u] /\ relays[u] \subseteq relays'[u]
    BY <1>3, <1>4, <2>1, Zenon
  <2>5. \A a \in mapAlerts'[u] : a \in mapAlerts[u] \/ \E r \in relays'[u] : r[2] = a
    BY <1>3, <1>4, <1>5, Zenon
  <2>6. \A a \in heeded'[u] : Settled(u, a)'
    BY <1>2, <2>1, <2>2, Zenon
  <2>7. \A r \in relays'[u] : Settled(u, r[2])'
    BY <1>2, <2>1, <2>2, Zenon
  <2> QED BY <2>4, <2>5, <2>6, <2>7, Zenon
<1>7. CancelledStayAway'
  <2>1. \A m \in AlertNodes : \A c \in heeded[m] : Settled(m, c)
    BY Zenon DEF OwnSettled, NodeSettled
  <2> QED BY <1>1, <2>1, ProcessStaysAway, Zenon
<1>8. NodeSettled'
  BY <1>6, Zenon DEF NodeSettled
<1> QED BY <1>2, <1>6, <1>7, <1>8, Zenon DEF Processed

(* sendalert keeps the invariant. *)
LEMMA SendKeeps ==
  ASSUME AlertInv, NEW n \in Issuers, NEW upto \in 0..MaxAlerts, sendalert(n, upto)
  PROVE  AlertInv'
<1> USE DEF AlertInv
<1>1. AlertTypeOK' /\ InSequence'
  BY SendTypes, Zenon
<1>2. PICK x \in issued' : ProcessAlert(n, x, "rpc") /\ issued' = issued \cup {x}
  BY SendTypes, Zenon
<1>3. n \in AlertNodes
  BY AlertConstants, Zenon
<1>4. UNCHANGED <<alertClock, link, setKnown, wire, missed>>
  BY Zenon DEF sendalert
<1>5. Processed(n, x)
  BY <1>1, <1>2, <1>3, <1>4, ProcessKeeps, Zenon DEF InSequence
<1>6. Handshake'
  BY <1>4, Zenon DEF Handshake
<1>7. ASSUME NEW e \in Ends, NEW a
      PROVE  On(e, a)' <=> On(e, a)
  BY <1>4, Zenon DEF On
<1>8. ASSUME NEW e \in Ends
      PROVE  e[1] \in AlertNodes /\ e[2] \in AlertNodes
  BY TwoEnds, Zenon
<1>9. OwnSettled'
  <2>1. ASSUME NEW e \in Ends, NEW a \in issued', On(e, a)' \/ a \in setKnown'[e]
        PROVE  Settled(e[1], a)'
    <3>1. a \in issued /\ (On(e, a) \/ a \in setKnown[e])
      BY <1>4, <1>7, <2>1, OnIssued, Zenon DEF AlertTypeOK
    <3>2. Settled(e[1], a)
      BY <3>1, Zenon DEF OwnSettled
    <3> QED BY <1>5, <1>8, <3>2, Zenon DEF Processed, Settled
  <2> QED BY <1>5, <2>1, Zenon DEF OwnSettled, Processed
<1>10. PeerSettled'
  <2>1. ASSUME NEW e \in Ends, NEW a \in setKnown'[e]
        PROVE  On(e, a)' \/ Settled(e[2], a)'
    <3>1. a \in issued' /\ a \in setKnown[e]
      BY <1>2, <1>4, <2>1, Zenon DEF AlertTypeOK
    <3>2. On(e, a) \/ Settled(e[2], a)
      BY <3>1, Zenon DEF PeerSettled
    <3> QED BY <1>5, <1>7, <1>8, <3>1, <3>2, Zenon DEF Processed, Settled
  <2>2. ASSUME NEW e \in Ends, NEW a \in mapAlerts'[e[1]]
        PROVE  \/ link'[e] = "new" \/ <<e, a>> \in missed'
               \/ \E r \in relays'[e[1]] : r[2] = a
               \/ On(e, a)' \/ Settled(e[2], a)'
    <3>0. a \in issued'
      BY <1>1, <1>8, Zenon DEF AlertTypeOK
    <3>1. CASE a \in mapAlerts[e[1]]
      <4>1. \/ link[e] = "new" \/ <<e, a>> \in missed
            \/ \E r \in relays[e[1]] : r[2] = a
            \/ On(e, a) \/ Settled(e[2], a)
        BY <3>1, Zenon DEF PeerSettled
      <4> QED BY <1>4, <1>5, <1>7, <1>8, <3>0, <4>1, Zenon DEF Processed, Settled
    <3>2. CASE a \notin mapAlerts[e[1]]
      BY <1>5, <1>8, <3>2, Zenon DEF Processed
    <3> QED BY <3>1, <3>2, Zenon
  <2> QED BY <2>1, <2>2, Zenon DEF PeerSettled
<1> QED BY <1>1, <1>5, <1>6, <1>9, <1>10, Zenon DEF Processed

(* ALERT keeps the invariant: whether the alert is accepted, refused or     *)
(* already known, the reader is settled about it afterwards.                *)
LEMMA AlertKeeps ==
  ASSUME AlertInv, NEW n \in AlertNodes, NEW m \in AlertNodes, ReceiveAlert(n, m)
  PROVE  AlertInv'
<1> USE DEF AlertInv
<1> DEFINE in == <<m, n>>
           out == <<n, m>>
           x == Head(wire[in]).alert
<1>1. /\ out \in Ends /\ in \in Ends /\ in # out /\ Rev(out) = in /\ Rev(in) = out
      /\ wire[in] \in Seq(Msgs(issued)) /\ wire[in] # <<>>
      /\ x \in issued /\ Head(wire[in]) = AlertMessage(x)
  BY ReadsMessage, Zenon DEF ReceiveAlert
<1>2. /\ x \in setKnown[out] => UNCHANGED <<mapAlerts, heeded, relays, setKnown>>
      /\ x \notin setKnown[out] =>
           /\ ProcessAlert(n, x, "handler")
           /\ setKnown' = [setKnown EXCEPT ![out] = IF Accepts(n, x) THEN @ \cup {x} ELSE @]
      /\ wire' = [wire EXCEPT ![in] = Tail(@)]
      /\ UNCHANGED <<alertClock, issued, link, missed, breaks>>
  BY Zenon DEF ReceiveAlert
<1>2a. in[1] = m /\ in[2] = n /\ out[1] = n /\ out[2] = m
  BY Zenon
<1> HIDE DEF x, in, out
<1>3. Tail(wire[in]) \in Seq(Msgs(issued)) /\ Head(wire[in]) \in Msgs(issued)
  BY <1>1, TakeFirst, Zenon
<1>4. wire \in [Ends -> Seq(Msgs(issued))]
  BY Zenon DEF AlertTypeOK, Msgs
<1>5. \A e \in Ends \ {in} : wire'[e] = wire[e]
  BY <1>2, <1>4, Zenon
<1>6. wire'[in] = Tail(wire[in])
  BY <1>1, <1>2, <1>4, Zenon
<1>7. \A msg : InSeq(wire[in], msg) <=> msg = AlertMessage(x) \/ InSeq(wire'[in], msg)
  <2>1. \A msg : InSeq(wire[in], msg) <=> msg = Head(wire[in]) \/ InSeq(Tail(wire[in]), msg)
    BY <1>1, InTail, Zenon
  <2> QED BY <1>1, <1>6, <2>1, Zenon
<1>8. ASSUME NEW e \in Ends, NEW a
      PROVE  /\ On(e, a)' => On(e, a)
             /\ On(e, a) => On(e, a)' \/ (e = in /\ a = x)
  <2>1. CASE e = in
    BY <1>7, <2>1, MessagesDiffer, Zenon DEF On
  <2>2. CASE e # in
    BY <1>5, <2>2, Zenon DEF On
  <2> QED BY <2>1, <2>2, Zenon
<1>9. Settled(m, x)
  BY <1>1, <1>2a, <1>7, Zenon DEF OwnSettled, On
<1>10. Processed(n, x)
  <2>1. CASE x \in setKnown[out]
    <3>1. Settled(n, x)
      BY <1>1, <1>2a, <2>1, Zenon DEF OwnSettled
    <3>2. NodeSettled' /\ CancelledStayAway'
      BY <1>2, <2>1, Zenon DEF OwnSettled, NodeSettled, CancelledStayAway, Settled, Cancels, IsInEffect
    <3>3. \A u \in AlertNodes : \A a \in issued' :
            Settled(u, a) \/ (u = n /\ a = x) => Settled(u, a)'
      BY <1>2, <2>1, <3>1, Zenon DEF Settled
    <3> QED BY <1>2, <2>1, <3>2, <3>3, Zenon DEF Processed
  <2>2. CASE x \notin setKnown[out]
    BY <1>1, <1>2, <2>2, ProcessKeeps, Zenon DEF InSequence
  <2> QED BY <2>1, <2>2, Zenon
<1>11. ASSUME NEW u \in AlertNodes, NEW a \in issued, Settled(u, a) \/ (u = n /\ a = x)
       PROVE  Settled(u, a)'
  BY <1>2, <1>10, <1>11, Zenon DEF Processed, Settled
<1>12. setKnown' \in [Ends -> SUBSET issued]
  <2>0. setKnown \in [Ends -> SUBSET issued]
    BY Zenon DEF AlertTypeOK
  <2>1. CASE x \in setKnown[out]
    BY <1>2, <2>0, <2>1, Zenon
  <2>2. CASE x \notin setKnown[out]
    BY <1>1, <1>2, <2>0, <2>2, Zenon
  <2> QED BY <2>1, <2>2, Zenon
<1>13. \A e \in Ends : \A a \in setKnown'[e] : a \in setKnown[e] \/ (e = out /\ a = x)
  <2>1. CASE x \in setKnown[out]
    BY <1>2, <2>1, Zenon
  <2>2. CASE x \notin setKnown[out]
    BY <1>1, <1>2, <2>2 DEF AlertTypeOK
  <2> QED BY <2>1, <2>2, Zenon
<1>14. AlertTypeOK'
  <2>1. wire' \in [Ends -> Seq(Msgs(issued))]
    BY <1>1, <1>2, <1>3, <1>4, Zenon
  <2>2. /\ mapAlerts' \in [AlertNodes -> SUBSET issued] /\ heeded' \in [AlertNodes -> SUBSET issued]
        /\ relays' \in [AlertNodes -> SUBSET ({"rpc", "handler"} \X issued)]
    <3>1. CASE x \in setKnown[out]
      BY <1>2, <3>1, Zenon DEF AlertTypeOK
    <3>2. CASE x \notin setKnown[out]
      BY <1>1, <1>2, <3>2, ProcessAdds, Zenon DEF AlertTypeOK
    <3> QED BY <3>1, <3>2, Zenon
  <2> QED BY <1>2, <1>12, <2>1, <2>2, Zenon DEF AlertTypeOK, Msgs
<1>15. InSequence'
  BY <1>2, Zenon DEF InSequence
<1>16. Handshake'
  <2>0. link[out] # "new"
    BY <1>1, MessagesDiffer, Zenon DEF Handshake
  <2>1. ASSUME NEW e \in Ends
        PROVE  /\ link[e] = "full" => link[Rev(e)] # "new"
               /\ InSeq(wire'[e], Message("verack")) => link[e] # "new"
               /\ link[Rev(e)] = "new" => IF wire'[e] = <<>> THEN e \notin Links
                                          ELSE Head(wire'[e]) = Message("version")
    <3>1. CASE e = in
      BY <1>1, <1>7, <2>0, <3>1, Zenon DEF Handshake
    <3>2. CASE e # in
      BY <1>5, <3>2, Zenon DEF Handshake
    <3> QED BY <3>1, <3>2, Zenon
  <2> QED BY <1>2, <2>1, Zenon DEF Handshake
<1>17. OwnSettled'
  <2>1. ASSUME NEW e \in Ends, NEW a \in issued, On(e, a)' \/ a \in setKnown'[e]
        PROVE  Settled(e[1], a)'
    <3>1. e[1] \in AlertNodes
      BY TwoEnds, Zenon
    <3>2. Settled(e[1], a) \/ (e[1] = n /\ a = x)
      BY <1>2a, <1>8, <1>13, <2>1, Zenon DEF OwnSettled
    <3> QED BY <1>11, <3>1, <3>2, Zenon
  <2> QED BY <1>2, <1>10, <2>1, Zenon DEF OwnSettled, Processed
<1>18. PeerSettled'
  <2>0. ASSUME NEW e \in Ends, NEW a \in issued, On(e, a) \/ Settled(e[2], a)
        PROVE  On(e, a)' \/ Settled(e[2], a)'
    <3>1. e[2] \in AlertNodes
      BY TwoEnds, Zenon
    <3>2. On(e, a)' \/ Settled(e[2], a) \/ (e[2] = n /\ a = x)
      BY <1>2a, <1>8, <2>0, Zenon
    <3> QED BY <1>11, <3>1, <3>2, Zenon
  <2>1. ASSUME NEW e \in Ends, NEW a \in setKnown'[e]
        PROVE  On(e, a)' \/ Settled(e[2], a)'
    <3>1. a \in issued
      BY <1>12, Zenon
    <3>2. CASE a \in setKnown[e]
      BY <2>0, <3>1, <3>2, Zenon DEF PeerSettled
    <3>3. CASE e = out /\ a = x
      BY <1>2a, <1>9, <2>0, <3>1, <3>3, Zenon
    <3> QED BY <1>13, <3>2, <3>3, Zenon
  <2>2. ASSUME NEW e \in Ends, NEW a \in mapAlerts'[e[1]]
        PROVE  \/ link[e] = "new" \/ <<e, a>> \in missed
               \/ \E r \in relays'[e[1]] : r[2] = a
               \/ On(e, a)' \/ Settled(e[2], a)'
    <3>0. a \in issued /\ e[1] \in AlertNodes
      BY <1>2, <1>14, TwoEnds, Zenon DEF AlertTypeOK
    <3>1. CASE a \in mapAlerts[e[1]]
      <4>1. \/ link[e] = "new" \/ <<e, a>> \in missed
            \/ \E r \in relays[e[1]] : r[2] = a
            \/ On(e, a) \/ Settled(e[2], a)
        BY <3>1, Zenon DEF PeerSettled
      <4>2. relays[e[1]] \subseteq relays'[e[1]]
        BY <1>10, <3>0, Zenon DEF Processed
      <4> QED BY <2>0, <3>0, <4>1, <4>2, Zenon
    <3>2. CASE a \notin mapAlerts[e[1]]
      BY <1>10, <3>0, <3>2, Zenon DEF Processed
    <3> QED BY <3>1, <3>2, Zenon
  <2> QED BY <1>2, <2>1, <2>2, Zenon DEF PeerSettled
<1> QED BY <1>10, <1>14, <1>15, <1>16, <1>17, <1>18, Zenon DEF Processed
-----------------------------------------------------------------------------
(* The steps that leave mapAlerts alone. *)

(* Settling and cancelling only lapse with time. *)
LEMMA SettledStays ==
  ASSUME AlertTypeOK, UNCHANGED mapAlerts, alertClock' \in Nat, alertClock' >= alertClock,
         NEW u, NEW a \in issued, Settled(u, a)
  PROVE  Settled(u, a)'
<1>1. a.nExpiration \in Nat /\ alertClock \in Nat
  BY AlertFields DEF AlertTypeOK
<1> QED BY <1>1 DEF Settled, SettledBy

(* What concerns the nodes alone is kept when they process nothing. *)
LEMMA NodesStay ==
  ASSUME AlertInv, UNCHANGED <<mapAlerts, heeded, issued>>,
         alertClock' \in Nat, alertClock' >= alertClock,
         relays' \in [AlertNodes -> SUBSET ({"rpc", "handler"} \X issued)],
         \A u \in AlertNodes : relays'[u] \subseteq relays[u]
  PROVE  NodeSettled' /\ CancelledStayAway' /\ InSequence'
<1> USE DEF AlertInv
<1>0. /\ \A a \in issued : a.nExpiration \in Nat /\ a.nID \in Nat /\ a.nCancel \in Nat
      /\ alertClock \in Nat /\ Lifetime \in Nat
  BY AlertFields, AlertConstants DEF AlertTypeOK
<1>1. ASSUME NEW u \in AlertNodes
      PROVE  /\ mapAlerts'[u] \subseteq heeded'[u]
             /\ \A a \in heeded'[u] : Settled(u, a)'
             /\ \A r \in relays'[u] : Settled(u, r[2])'
  <2>1. /\ mapAlerts[u] \subseteq heeded[u] /\ heeded[u] \subseteq issued
        /\ \A a \in heeded[u] : Settled(u, a)
        /\ \A r \in relays'[u] : r[2] \in issued /\ Settled(u, r[2])
    BY DEF OwnSettled, NodeSettled, AlertTypeOK
  <2>2. ASSUME NEW a \in issued, Settled(u, a)
        PROVE  Settled(u, a)'
    BY <2>2, SettledStays, Zenon
  <2> QED BY <2>1, <2>2, Zenon
<1>2. NodeSettled'
  BY <1>1, Zenon DEF NodeSettled
<1>3. CancelledStayAway'
  <2>1. ASSUME NEW u \in AlertNodes, NEW a \in mapAlerts[u], NEW c \in heeded[u]
        PROVE  ~ Cancels(c, a)'
    <3>1. ~ Cancels(c, a) /\ c \in issued
      BY Zenon DEF CancelledStayAway, AlertTypeOK
    <3> QED BY <1>0, <3>1 DEF Cancels, IsInEffect
  <2> QED BY <2>1, Zenon DEF CancelledStayAway
<1>4. InSequence'
  BY <1>0 DEF InSequence
<1> QED BY <1>2, <1>3, <1>4, Zenon

(* Time passes. *)
LEMMA TickKeeps ==
  ASSUME AlertInv, AlertTick
  PROVE  AlertInv'
<1> USE DEF AlertInv
<1>0. alertClock' \in 0..MaxClock /\ alertClock' \in Nat /\ alertClock' >= alertClock
  BY AlertConstants DEF AlertTick, AlertTypeOK
<1>1. UNCHANGED <<issued, mapAlerts, heeded, relays, link, setKnown, wire, missed, breaks>>
  BY Zenon DEF AlertTick
<1>2. AlertTypeOK'
  BY <1>0, <1>1, Zenon DEF AlertTypeOK
<1>3. NodeSettled' /\ CancelledStayAway' /\ InSequence'
  BY <1>0, <1>1, NodesStay, Zenon DEF AlertTypeOK
<1>4. Handshake'
  BY <1>1, Zenon DEF Handshake
<1>5. ASSUME NEW u, NEW a \in issued, Settled(u, a)
      PROVE  Settled(u, a)'
  BY <1>0, <1>1, <1>5, SettledStays, Zenon
<1>6. \A e, a : On(e, a)' <=> On(e, a)
  BY <1>1, Zenon DEF On
<1>7. OwnSettled'
  <2>1. ASSUME NEW e \in Ends, NEW a \in issued, On(e, a) \/ a \in setKnown[e]
        PROVE  Settled(e[1], a)'
    BY <1>5, <2>1, Zenon DEF OwnSettled
  <2> QED BY <1>1, <1>3, <1>6, <2>1, Zenon DEF OwnSettled, On
<1>8. PeerSettled'
  <2>1. ASSUME NEW e \in Ends, NEW a \in setKnown[e]
        PROVE  On(e, a) \/ Settled(e[2], a)'
    BY <1>5, Zenon DEF PeerSettled, AlertTypeOK
  <2>2. ASSUME NEW e \in Ends, NEW a \in mapAlerts[e[1]]
        PROVE  \/ link[e] = "new" \/ <<e, a>> \in missed
               \/ \E r \in relays[e[1]] : r[2] = a
               \/ On(e, a) \/ Settled(e[2], a)'
    <3>1. a \in issued
      BY TwoEnds, Zenon DEF AlertTypeOK
    <3> QED BY <1>5, <3>1, Zenon DEF PeerSettled
  <2> QED BY <1>1, <2>1, <2>2, Zenon DEF PeerSettled, On
<1> QED BY <1>2, <1>3, <1>4, <1>7, <1>8, Zenon

(* RelayAlert: a peer that is passed over missed the alert, will be offered *)
(* it, or is known to have it.                                              *)
LEMMA RelayKeeps ==
  ASSUME AlertInv, NEW n \in AlertNodes, NEW r \in relays[n], RelayAlert(n, r)
  PROVE  AlertInv'
<1> USE DEF AlertInv
<1> DEFINE x == r[2]
           to == RelayTargets(n, x)
<1>1. /\ relays' = [relays EXCEPT ![n] = @ \ {r}]
      /\ setKnown' = [e \in Ends |-> IF e \in to THEN setKnown[e] \cup {x} ELSE setKnown[e]]
      /\ wire' = [e \in Ends |-> IF e \in to THEN Append(wire[e], AlertMessage(x)) ELSE wire[e]]
      /\ missed' = missed \cup {<<e, x>> : e \in {y \in Ends : y[1] = n /\ link[y] = "version"}}
      /\ UNCHANGED <<alertClock, issued, mapAlerts, heeded, link, breaks>>
  BY Zenon DEF RelayAlert
<1>2. x \in issued /\ Settled(n, x) /\ AlertMessage(x) \in Msgs(issued)
  BY DEF AlertTypeOK, OwnSettled, NodeSettled, Msgs
<1>3. \A e \in to : e \in Ends /\ e[1] = n /\ link[e] = "full"
  BY Zenon DEF RelayTargets
<1>4. \A e \in Ends : e[1] = n /\ link[e] = "full" /\ e \notin to => ~ IsInEffect(x) \/ x \in setKnown[e]
  BY Zenon DEF RelayTargets
<1> HIDE DEF x, to
<1>5. wire \in [Ends -> Seq(Msgs(issued))] /\ setKnown \in [Ends -> SUBSET issued]
  BY Zenon DEF AlertTypeOK, Msgs
<1>6. ASSUME NEW e \in Ends
      PROVE  /\ wire'[e] \in Seq(Msgs(issued))
             /\ e \notin to => wire'[e] = wire[e]
             /\ e \in to => \A msg : InSeq(wire'[e], msg) <=> InSeq(wire[e], msg) \/ msg = AlertMessage(x)
  <2>1. wire[e] \in Seq(Msgs(issued))
    BY <1>5, Zenon
  <2>2. CASE e \notin to
    BY <1>1, <2>1, <2>2, Zenon
  <2>3. CASE e \in to
    <3>1. wire'[e] = Append(wire[e], AlertMessage(x))
      BY <1>1, <2>3, Zenon
    <3>2. Append(wire[e], AlertMessage(x)) \in Seq(Msgs(issued))
      BY <1>2, <2>1
    <3>3. \A msg : InSeq(Append(wire[e], AlertMessage(x)), msg)
                    <=> InSeq(wire[e], msg) \/ msg = AlertMessage(x)
      BY <1>2, <2>1, InAppend, Zenon
    <3> QED BY <2>3, <3>1, <3>2, <3>3, Zenon
  <2> QED BY <2>2, <2>3, Zenon
<1>7. ASSUME NEW e \in Ends, NEW a
      PROVE  On(e, a)' <=> On(e, a) \/ (e \in to /\ a = x)
  BY <1>6, MessagesDiffer, Zenon DEF On
<1>8. ASSUME NEW u, NEW a
      PROVE  Settled(u, a)' <=> Settled(u, a)
  BY <1>1, Zenon DEF Settled
<1>9. /\ relays' \in [AlertNodes -> SUBSET ({"rpc", "handler"} \X issued)]
      /\ \A u \in AlertNodes : relays'[u] \subseteq relays[u]
      /\ \A u \in AlertNodes : \A q \in relays[u] : q \in relays'[u] \/ (u = n /\ q = r)
  BY <1>1, Zenon DEF AlertTypeOK
<1>10. AlertTypeOK'
  <2>1. wire' \in [Ends -> Seq(Msgs(issued))]
    BY <1>1, <1>6, Zenon
  <2>2. setKnown' \in [Ends -> SUBSET issued]
    BY <1>1, <1>2, <1>5, Zenon
  <2>3. missed' \subseteq Ends \X issued
    BY <1>1, <1>2 DEF AlertTypeOK
  <2> QED BY <1>1, <1>9, <2>1, <2>2, <2>3, Zenon DEF AlertTypeOK, Msgs
<1>11. NodeSettled' /\ CancelledStayAway' /\ InSequence'
  <2>1. alertClock' \in Nat /\ alertClock' >= alertClock
    BY <1>1 DEF AlertTypeOK
  <2> QED BY <1>1, <1>9, <2>1, NodesStay, Zenon
<1>12. Handshake'
  <2>1. ASSUME NEW e \in Ends
        PROVE  /\ link[e] = "full" => link[Rev(e)] # "new"
               /\ InSeq(wire'[e], Message("verack")) => link[e] # "new"
               /\ link[Rev(e)] = "new" => IF wire'[e] = <<>> THEN e \notin Links
                                          ELSE Head(wire'[e]) = Message("version")
    <3>1. CASE e \in to
      BY <1>3, <3>1, Zenon DEF Handshake
    <3>2. CASE e \notin to
      BY <1>6, <3>2, Zenon DEF Handshake
    <3> QED BY <3>1, <3>2, Zenon
  <2> QED BY <1>1, <2>1, Zenon DEF Handshake
<1>13. OwnSettled'
  <2>1. ASSUME NEW e \in Ends, NEW a \in issued, On(e, a)' \/ a \in setKnown'[e]
        PROVE  Settled(e[1], a)'
    <3>0. setKnown'[e] = IF e \in to THEN setKnown[e] \cup {x} ELSE setKnown[e]
      BY <1>1, Zenon
    <3>1. On(e, a) \/ a \in setKnown[e] \/ (e \in to /\ a = x)
      BY <1>7, <2>1, <3>0
    <3>2. Settled(e[1], a)
      BY <1>2, <1>3, <3>1, Zenon DEF OwnSettled
    <3> QED BY <1>8, <3>2, Zenon
  <2> QED BY <1>1, <1>11, <2>1, Zenon DEF OwnSettled
<1>14. PeerSettled'
  <2>1. ASSUME NEW e \in Ends, NEW a \in setKnown'[e]
        PROVE  On(e, a)' \/ Settled(e[2], a)'
    <3>1. a \in setKnown[e] \/ (e \in to /\ a = x)
      BY <1>1, Zenon
    <3> QED BY <1>7, <1>8, <3>1, Zenon DEF PeerSettled
  <2>2. ASSUME NEW e \in Ends, NEW a \in mapAlerts[e[1]]
        PROVE  \/ link[e] = "new" \/ <<e, a>> \in missed'
               \/ \E q \in relays'[e[1]] : q[2] = a
               \/ On(e, a)' \/ Settled(e[2], a)'
    <3>0. e[1] \in AlertNodes
      BY TwoEnds, Zenon
    <3>1. CASE e[1] = n /\ a = x
      <4>1. CASE link[e] = "version"
        BY <1>1, <3>1, <4>1, Zenon
      <4>2. CASE link[e] = "full" /\ e \notin to
        <5>1. CASE ~ IsInEffect(x)
          BY <1>1, <3>1, <5>1, Zenon DEF Settled, SettledBy, IsInEffect
        <5>2. CASE x \in setKnown[e]
          BY <1>7, <1>8, <3>1, <5>2, Zenon DEF PeerSettled
        <5> QED BY <1>4, <3>1, <4>2, <5>1, <5>2, Zenon
      <4>3. CASE e \in to
        BY <1>7, <3>1, <4>3, Zenon
      <4> QED BY <4>1, <4>2, <4>3, Zenon DEF AlertTypeOK
    <3>2. CASE e[1] # n \/ a # x
      <4>1. \/ link[e] = "new" \/ <<e, a>> \in missed
            \/ \E q \in relays[e[1]] : q[2] = a
            \/ On(e, a) \/ Settled(e[2], a)
        BY Zenon DEF PeerSettled
      <4>2. \A q \in relays[e[1]] : q[2] = a => q \in relays'[e[1]]
        BY <1>9, <3>0, <3>2, Zenon DEF x
      <4> QED BY <1>1, <1>7, <1>8, <4>1, <4>2, Zenon
    <3> QED BY <3>1, <3>2, Zenon
  <2> QED BY <1>1, <2>1, <2>2, Zenon DEF PeerSettled
<1> QED BY <1>10, <1>11, <1>12, <1>13, <1>14, Zenon

(* VERACK: the peer has had our VERSION, and its own came before. *)
LEMMA VerackKeeps ==
  ASSUME AlertInv, NEW n \in AlertNodes, NEW m \in AlertNodes, ReceiveVerack(n, m)
  PROVE  AlertInv'
<1> USE DEF AlertInv
<1> DEFINE in == <<m, n>>
           out == <<n, m>>
<1>1. /\ out \in Ends /\ in \in Ends /\ in # out /\ Rev(out) = in /\ Rev(in) = out
      /\ wire[in] \in Seq(Msgs(issued)) /\ wire[in] # <<>>
      /\ Head(wire[in]) = Message("verack")
  BY ReadsMessage, Zenon DEF ReceiveVerack
<1>2. /\ link' = [link EXCEPT ![out] = "full"]
      /\ wire' = [wire EXCEPT ![in] = Tail(@)]
      /\ UNCHANGED <<alertClock, issued, mapAlerts, heeded, relays, setKnown, missed, breaks>>
  BY Zenon DEF ReceiveVerack
<1> HIDE DEF in, out
<1>3. Tail(wire[in]) \in Seq(Msgs(issued))
  BY <1>1, TakeFirst, Zenon
<1>4. wire \in [Ends -> Seq(Msgs(issued))] /\ link \in [Ends -> {"new", "version", "full"}]
  BY Zenon DEF AlertTypeOK, Msgs
<1>5. /\ \A e \in Ends \ {in} : wire'[e] = wire[e]
      /\ wire'[in] = Tail(wire[in])
      /\ \A e \in Ends \ {out} : link'[e] = link[e]
      /\ link'[out] = "full"
  BY <1>1, <1>2, <1>4, Zenon
<1>6. \A msg : InSeq(wire[in], msg) <=> msg = Message("verack") \/ InSeq(wire'[in], msg)
  <2>1. \A msg : InSeq(wire[in], msg) <=> msg = Head(wire[in]) \/ InSeq(Tail(wire[in]), msg)
    BY <1>1, InTail, Zenon
  <2> QED BY <1>1, <1>5, <2>1, Zenon
<1>7. ASSUME NEW e \in Ends, NEW a
      PROVE  On(e, a)' <=> On(e, a)
  <2>1. CASE e = in
    BY <1>6, <2>1, MessagesDiffer, Zenon DEF On
  <2>2. CASE e # in
    BY <1>5, <2>2, Zenon DEF On
  <2> QED BY <2>1, <2>2, Zenon
<1>8. ASSUME NEW u, NEW a
      PROVE  Settled(u, a)' <=> Settled(u, a)
  BY <1>2, Zenon DEF Settled
<1>9. link[in] # "new" /\ link[out] # "new"
  BY <1>1, <1>6, MessagesDiffer, Zenon DEF Handshake
<1>10. AlertTypeOK'
  <2>1. wire' \in [Ends -> Seq(Msgs(issued))]
    BY <1>1, <1>2, <1>3, <1>4, Zenon
  <2>2. link' \in [Ends -> {"new", "version", "full"}]
    BY <1>1, <1>2, <1>4, Zenon
  <2> QED BY <1>2, <2>1, <2>2, Zenon DEF AlertTypeOK, Msgs
<1>11. NodeSettled' /\ CancelledStayAway' /\ InSequence'
  <2>1. alertClock' \in Nat /\ alertClock' >= alertClock
    BY <1>2 DEF AlertTypeOK
  <2> QED BY <1>2, <2>1, NodesStay, Zenon DEF AlertTypeOK
<1>12. Handshake'
  <2>1. ASSUME NEW e \in Ends
        PROVE  /\ link'[e] = "full" => link'[Rev(e)] # "new"
               /\ InSeq(wire'[e], Message("verack")) => link'[e] # "new"
               /\ link'[Rev(e)] = "new" => IF wire'[e] = <<>> THEN e \notin Links
                                           ELSE Head(wire'[e]) = Message("version")
    <3>0. Rev(e) \in Ends /\ Rev(Rev(e)) = e
      BY TwoEnds, Zenon
    <3>1. CASE e = in
      BY <1>1, <1>5, <1>6, <1>9, <3>1, Zenon DEF Handshake
    <3>2. CASE e = out
      BY <1>1, <1>5, <1>9, <3>2, Zenon DEF Handshake
    <3>3. CASE e # in /\ e # out
      <4>1. Rev(e) # out
        BY <1>1, <3>0, <3>3, Zenon
      <4> QED BY <1>5, <3>0, <3>3, <4>1, Zenon DEF Handshake
    <3> QED BY <3>1, <3>2, <3>3, Zenon
  <2> QED BY <2>1, Zenon DEF Handshake
<1>13. OwnSettled'
  <2>1. ASSUME NEW e \in Ends, NEW a \in issued, On(e, a)' \/ a \in setKnown[e]
        PROVE  Settled(e[1], a)'
    BY <1>7, <1>8, <2>1, Zenon DEF OwnSettled
  <2> QED BY <1>2, <1>11, <2>1, Zenon DEF OwnSettled
<1>14. PeerSettled'
  <2>1. ASSUME NEW e \in Ends, NEW a \in setKnown[e]
        PROVE  On(e, a)' \/ Settled(e[2], a)'
    BY <1>7, <1>8, Zenon DEF PeerSettled
  <2>2. ASSUME NEW e \in Ends, NEW a \in mapAlerts[e[1]]
        PROVE  \/ link'[e] = "new" \/ <<e, a>> \in missed
               \/ \E q \in relays[e[1]] : q[2] = a
               \/ On(e, a)' \/ Settled(e[2], a)'
    <3>1. link[e] = "new" => link'[e] = "new"
      BY <1>5, <1>9, Zenon
    <3> QED BY <1>7, <1>8, <3>1, Zenon DEF PeerSettled
  <2> QED BY <1>2, <2>1, <2>2, Zenon DEF PeerSettled
<1> QED BY <1>10, <1>11, <1>12, <1>13, <1>14, Zenon

(* The answer offers each alert in effect, and to the opener it begins with *)
(* VERSION.                                                                 *)
LEMMA AnswerIs ==
  ASSUME AlertTypeOK, InSequence, NEW n \in AlertNodes, NEW m,
         NEW s \in [1..Cardinality(Offered(n)) -> Offered(n)],
         \A a \in Offered(n) : \E i \in DOMAIN s : s[i] = a,
         NEW w \in Seq(Msgs(issued))
  PROVE  LET v == w \o (IF <<m, n>> \in Links THEN <<Message("version")>> ELSE <<>>)
                    \o <<Message("verack")>> \o [i \in DOMAIN s |-> AlertMessage(s[i])]
         IN  /\ v \in Seq(Msgs(issued)) /\ v # <<>>
             /\ \A a : InSeq(v, AlertMessage(a)) <=> InSeq(w, AlertMessage(a)) \/ a \in Offered(n)
             /\ w # <<>> => Head(v) = Head(w)
             /\ w = <<>> /\ <<m, n>> \in Links => Head(v) = Message("version")
<1> DEFINE k == Cardinality(Offered(n))
           p == IF <<m, n>> \in Links THEN <<Message("version")>> ELSE <<>>
           q == <<Message("verack")>>
           t == [i \in DOMAIN s |-> AlertMessage(s[i])]
           T == Msgs(issued)
<1>1. k \in Nat /\ Offered(n) \subseteq issued
  <2>1. Offered(n) \subseteq issued
    BY Zenon DEF Offered, AlertTypeOK
  <2>2. IsFiniteSet(Offered(n))
    BY <2>1, FS_Subset, Zenon DEF InSequence
  <2> QED BY <2>1, <2>2, FS_CardinalityType, Zenon
<1>2. p \in Seq(T) /\ q \in Seq(T)
  <2>1. Message("version") \in T /\ Message("verack") \in T
    BY Zenon DEF Msgs
  <2> QED BY <2>1
<1>3. t \in [1..k -> T]
  BY <1>1, Zenon DEF Msgs
<1>4. t \in Seq(T) /\ Len(t) = k
  BY <1>1, <1>3
<1>5. \A a : InSeq(t, AlertMessage(a)) <=> a \in Offered(n)
  <2>1. DOMAIN s = 1..k /\ \A i \in 1..k : t[i] = AlertMessage(s[i]) /\ s[i] \in Offered(n)
    BY <1>1, Zenon
  <2> QED BY <1>4, <2>1, MessagesDiffer, Zenon DEF InSeq
<1> HIDE DEF k, t, T
<1>6. \A a : ~ InSeq(p, AlertMessage(a)) /\ ~ InSeq(q, AlertMessage(a))
  <2>1. ASSUME NEW a, NEW i \in 1..Len(p)
        PROVE  p[i] # AlertMessage(a)
    <3>1. <<m, n>> \in Links /\ p[i] = Message("version")
      BY <2>1
    <3> QED BY <3>1, MessagesDiffer, Zenon
  <2>2. ASSUME NEW a, NEW i \in 1..Len(q)
        PROVE  q[i] # AlertMessage(a)
    <3>1. q[i] = Message("verack")
      BY <2>2
    <3> QED BY <3>1, MessagesDiffer, Zenon
  <2> QED BY <2>1, <2>2, Zenon DEF InSeq
<1>7. Len(q) = 1 /\ (<<m, n>> \in Links => Len(p) = 1 /\ p[1] = Message("version"))
  BY Zenon
<1> HIDE DEF p, q
<1>8. w \in Seq(T)
  BY Zenon DEF T
<1>9. w \o p \in Seq(T) /\ (w \o p) \o q \in Seq(T) /\ ((w \o p) \o q) \o t \in Seq(T)
  BY <1>2, <1>4, <1>8
<1> DEFINE v == ((w \o p) \o q) \o t
<1>10. \A a : InSeq(v, AlertMessage(a)) <=> InSeq(w, AlertMessage(a)) \/ a \in Offered(n)
  <2>1. ASSUME NEW a
        PROVE  InSeq(v, AlertMessage(a)) <=> InSeq(w, AlertMessage(a)) \/ a \in Offered(n)
    <3> DEFINE msg == AlertMessage(a)
    <3> HIDE DEF msg
    <3>1. InSeq(w \o p, msg) <=> InSeq(w, msg) \/ InSeq(p, msg)
      BY <1>2, <1>8, InConcat, Zenon
    <3>2. InSeq((w \o p) \o q, msg) <=> InSeq(w \o p, msg) \/ InSeq(q, msg)
      BY <1>2, <1>9, InConcat, Zenon
    <3>3. InSeq(v, msg) <=> InSeq((w \o p) \o q, msg) \/ InSeq(t, msg)
      BY <1>4, <1>9, InConcat, Zenon
    <3>4. ~ InSeq(p, msg) /\ ~ InSeq(q, msg) /\ (InSeq(t, msg) <=> a \in Offered(n))
      BY <1>5, <1>6, Zenon DEF msg
    <3> QED BY <3>1, <3>2, <3>3, <3>4, Zenon DEF msg
  <2> QED BY <2>1, Zenon
<1>11. v # <<>> /\ (w # <<>> => Head(v) = Head(w))
        /\ (w = <<>> /\ <<m, n>> \in Links => Head(v) = Message("version"))
  <2>1. /\ Len(v) = Len(w) + Len(p) + Len(q) + Len(t)
        /\ Len(w) \in Nat /\ Len(p) \in Nat /\ Len(t) \in Nat
    <3>1. Len(w \o p) = Len(w) + Len(p) /\ Len(w) \in Nat /\ Len(p) \in Nat
      BY <1>2, <1>8
    <3>2. Len((w \o p) \o q) = Len(w \o p) + Len(q) /\ Len(q) \in Nat
      BY <1>2, <1>9
    <3>3. Len(v) = Len((w \o p) \o q) + Len(t) /\ Len(t) \in Nat
      BY <1>4, <1>9, Joined, Zenon
    <3> QED BY <3>1, <3>2, <3>3, Zenon
  <2>2. Len(v) > 0
    BY <1>7, <2>1
  <2>3. Head(v) = v[1] /\ v # <<>>
    BY <1>9, <2>2
  <2>4. ASSUME w # <<>> PROVE Head(v) = Head(w)
    <3>1. Len(w) > 0 /\ Head(w) = w[1]
      BY <1>8, <2>4
    <3>2. (w \o p)[1] = w[1] /\ Len(w \o p) > 0
      BY <1>2, <1>8, <3>1
    <3>3. ((w \o p) \o q)[1] = w[1] /\ Len((w \o p) \o q) > 0
      BY <1>2, <1>9, <3>2
    <3> QED BY <1>4, <1>9, <2>3, <3>1, <3>3
  <2>5. ASSUME w = <<>>, <<m, n>> \in Links PROVE Head(v) = Message("version")
    <3>1. w \o p = p /\ Len(p) = 1 /\ p[1] = Message("version")
      BY <1>2, <1>7, <2>5
    <3>2. (p \o q)[1] = Message("version") /\ Len(p \o q) > 0
      <4>1. /\ Len(p \o q) = Len(p) + Len(q)
            /\ \A i \in 1..Len(p) + Len(q) : (p \o q)[i] = IF i <= Len(p) THEN p[i] ELSE q[i - Len(p)]
        BY <1>2, Joined, Zenon
      <4>2. Len(p) = 1 /\ Len(q) = 1 /\ 1 \in 1..Len(p) + Len(q)
        BY <1>7, <2>5
      <4> QED BY <1>7, <2>5, <4>1, <4>2
    <3>3. ((w \o p) \o q)[1] = Message("version") /\ Len((w \o p) \o q) > 0
      BY <3>1, <3>2, Zenon
    <3> QED BY <1>4, <1>9, <2>3, <3>3
  <2> QED BY <2>3, <2>4, <2>5, Zenon
<1> QED BY <1>9, <1>10, <1>11, Zenon DEF p, q, t, T

(* VERSION: the reader offers all it holds, so whatever the peer may lack   *)
(* is on its way.                                                           *)
LEMMA VersionKeeps ==
  ASSUME AlertInv, NEW n \in AlertNodes, NEW m \in AlertNodes, ReceiveVersion(n, m)
  PROVE  AlertInv'
<1> USE DEF AlertInv
<1> DEFINE in == <<m, n>>
           out == <<n, m>>
<1>1. /\ out \in Ends /\ in \in Ends /\ in # out /\ Rev(out) = in /\ Rev(in) = out
      /\ wire[in] \in Seq(Msgs(issued)) /\ wire[in] # <<>>
      /\ Head(wire[in]) = Message("version")
  BY ReadsMessage, Zenon DEF ReceiveVersion
<1>2. /\ setKnown' = [setKnown EXCEPT ![out] = @ \cup Offered(n)]
      /\ link' = [link EXCEPT ![out] = "version"]
      /\ UNCHANGED <<alertClock, issued, mapAlerts, heeded, relays, missed, breaks>>
  BY Zenon DEF ReceiveVersion
<1>3. /\ wire \in [Ends -> Seq(Msgs(issued))] /\ link \in [Ends -> {"new", "version", "full"}]
      /\ setKnown \in [Ends -> SUBSET issued]
  BY Zenon DEF AlertTypeOK, Msgs
<1>4. Tail(wire[in]) \in Seq(Msgs(issued))
  BY <1>1, TakeFirst, Zenon
<1>5. PICK s \in [1..Cardinality(Offered(n)) -> Offered(n)] :
        /\ \A a \in Offered(n) : \E i \in DOMAIN s : s[i] = a
        /\ wire' = [wire EXCEPT ![in] = Tail(@),
                                ![out] = @ \o (IF in \in Links THEN <<Message("version")>> ELSE <<>>)
                                           \o <<Message("verack")>>
                                           \o [i \in DOMAIN s |-> AlertMessage(s[i])]]
  BY Zenon DEF ReceiveVersion
<1> DEFINE v == wire[out] \o (IF in \in Links THEN <<Message("version")>> ELSE <<>>)
                  \o <<Message("verack")>> \o [i \in DOMAIN s |-> AlertMessage(s[i])]
<1>6. wire[out] \in Seq(Msgs(issued))
  BY <1>1, <1>3, Zenon
<1>7. /\ v \in Seq(Msgs(issued)) /\ v # <<>>
      /\ \A a : InSeq(v, AlertMessage(a)) <=> InSeq(wire[out], AlertMessage(a)) \/ a \in Offered(n)
      /\ wire[out] # <<>> => Head(v) = Head(wire[out])
      /\ wire[out] = <<>> /\ in \in Links => Head(v) = Message("version")
  BY <1>5, <1>6, AnswerIs, Zenon
<1>7a. wire' = [wire EXCEPT ![in] = Tail(wire[in]), ![out] = v]
  BY <1>1, <1>3, <1>5, Zenon
<1>7b. in[1] = m /\ in[2] = n /\ out[1] = n /\ out[2] = m
  BY Zenon
<1> HIDE DEF v, in, out
<1>8. /\ \A e \in Ends \ {in, out} : wire'[e] = wire[e]
      /\ wire'[in] = Tail(wire[in]) /\ wire'[out] = v
      /\ \A e \in Ends \ {out} : link'[e] = link[e] /\ setKnown'[e] = setKnown[e]
      /\ link'[out] = "version" /\ setKnown'[out] = setKnown[out] \cup Offered(n)
  BY <1>1, <1>2, <1>3, <1>7a, Zenon
<1>9. \A msg : InSeq(wire[in], msg) <=> msg = Message("version") \/ InSeq(wire'[in], msg)
  <2>1. \A msg : InSeq(wire[in], msg) <=> msg = Head(wire[in]) \/ InSeq(Tail(wire[in]), msg)
    BY <1>1, InTail, Zenon
  <2> QED BY <1>1, <1>8, <2>1, Zenon
<1>10. ASSUME NEW e \in Ends, NEW a
       PROVE  On(e, a)' <=> On(e, a) \/ (e = out /\ a \in Offered(n))
  <2>1. CASE e = in
    BY <1>1, <1>9, <2>1, MessagesDiffer, Zenon DEF On
  <2>2. CASE e = out
    BY <1>7, <1>8, <2>2, Zenon DEF On
  <2>3. CASE e # in /\ e # out
    BY <1>8, <2>3, Zenon DEF On
  <2> QED BY <2>1, <2>2, <2>3, Zenon
<1>11. ASSUME NEW u, NEW a
       PROVE  Settled(u, a)' <=> Settled(u, a)
  BY <1>2, Zenon DEF Settled
<1>12. Offered(n) \subseteq mapAlerts[n] /\ mapAlerts[n] \subseteq issued
  BY Zenon DEF Offered, AlertTypeOK
<1>13. AlertTypeOK'
  <2>1. wire' \in [Ends -> Seq(Msgs(issued))]
    BY <1>3, <1>4, <1>7, <1>7a, Zenon
  <2>2. link' \in [Ends -> {"new", "version", "full"}] /\ setKnown' \in [Ends -> SUBSET issued]
    BY <1>2, <1>3, <1>12, Zenon
  <2> QED BY <1>2, <2>1, <2>2, Zenon DEF AlertTypeOK, Msgs
<1>14. NodeSettled' /\ CancelledStayAway' /\ InSequence'
  <2>1. alertClock' \in Nat /\ alertClock' >= alertClock
    BY <1>2 DEF AlertTypeOK
  <2> QED BY <1>2, <2>1, NodesStay, Zenon DEF AlertTypeOK
<1>15. Handshake'
  <2>1. ASSUME NEW e \in Ends
        PROVE  /\ link'[e] = "full" => link'[Rev(e)] # "new"
               /\ InSeq(wire'[e], Message("verack")) => link'[e] # "new"
               /\ link'[Rev(e)] = "new" => IF wire'[e] = <<>> THEN e \notin Links
                                           ELSE Head(wire'[e]) = Message("version")
    <3>0. Rev(e) \in Ends /\ Rev(Rev(e)) = e
      BY TwoEnds, Zenon
    <3>1. CASE e = in
      BY <1>1, <1>8, <1>9, <3>1, Zenon DEF Handshake
    <3>2. CASE e = out
      <4>1. out \in Links \/ in \in Links
        BY <1>1, TwoEnds, Zenon
      <4>2. link[in] = "new" => Head(v) = Message("version")
        BY <1>1, <1>7, <4>1, Zenon DEF Handshake
      <4> QED BY <1>1, <1>7, <1>8, <3>2, <4>2, Zenon
    <3>3. CASE e # in /\ e # out
      <4>1. Rev(e) # out
        BY <1>1, <3>0, <3>3, Zenon
      <4> QED BY <1>8, <3>0, <3>3, <4>1, Zenon DEF Handshake
    <3> QED BY <3>1, <3>2, <3>3, Zenon
  <2> QED BY <2>1, Zenon DEF Handshake
<1>16. OwnSettled'
  <2>1. ASSUME NEW e \in Ends, NEW a \in issued, On(e, a)' \/ a \in setKnown'[e]
        PROVE  Settled(e[1], a)'
    <3>1. On(e, a) \/ a \in setKnown[e] \/ (e = out /\ a \in mapAlerts[n])
      BY <1>8, <1>10, <1>12, <2>1, Zenon
    <3>2. a \in mapAlerts[n] => Settled(n, a)
      BY Zenon DEF Settled, SettledBy
    <3>3. Settled(e[1], a)
      BY <1>7b, <3>1, <3>2, Zenon DEF OwnSettled
    <3> QED BY <1>11, <3>3, Zenon
  <2> QED BY <1>2, <1>14, <2>1, Zenon DEF OwnSettled
<1>17. PeerSettled'
  <2>1. ASSUME NEW e \in Ends, NEW a \in setKnown'[e]
        PROVE  On(e, a)' \/ Settled(e[2], a)'
    <3>1. a \in setKnown[e] \/ (e = out /\ a \in Offered(n))
      BY <1>8, Zenon
    <3> QED BY <1>10, <1>11, <3>1, Zenon DEF PeerSettled
  <2>2. ASSUME NEW e \in Ends, NEW a \in mapAlerts[e[1]]
        PROVE  \/ link'[e] = "new" \/ <<e, a>> \in missed
               \/ \E q \in relays[e[1]] : q[2] = a
               \/ On(e, a)' \/ Settled(e[2], a)'
    <3>1. CASE e = out
      <4>1. CASE IsInEffect(a)
        <5>1. a \in Offered(n)
          BY <1>7b, <3>1, <4>1, Zenon DEF Offered
        <5> QED BY <1>10, <3>1, <5>1, Zenon
      <4>2. CASE ~ IsInEffect(a)
        BY <1>11, <4>2, Zenon DEF Settled, SettledBy, IsInEffect
      <4> QED BY <4>1, <4>2, Zenon
    <3>2. CASE e # out
      BY <1>8, <1>10, <1>11, <3>2, Zenon DEF PeerSettled
    <3> QED BY <3>1, <3>2, Zenon
  <2> QED BY <1>2, <2>1, <2>2, Zenon DEF PeerSettled
<1> QED BY <1>13, <1>14, <1>15, <1>16, <1>17, Zenon

(* Connections that begin anew: both ends have forgotten what they knew of  *)
(* each other, and no node that kept its alerts loses one it has to offer.  *)
LEMMA OpenedKeeps ==
  ASSUME AlertInv, NEW ls \in SUBSET Links, Opened(ls),
         UNCHANGED <<alertClock, issued>>, breaks' \in 0..MaxBreaks,
         NEW forgot \in SUBSET AlertNodes,
         \A l \in Links : l[1] \in forgot \/ l[2] \in forgot => l \in ls,
         mapAlerts' = [u \in AlertNodes |-> IF u \in forgot THEN {} ELSE mapAlerts[u]],
         heeded' = [u \in AlertNodes |-> IF u \in forgot THEN {} ELSE heeded[u]],
         relays' = [u \in AlertNodes |-> IF u \in forgot THEN {} ELSE relays[u]]
  PROVE  AlertInv'
<1> USE DEF AlertInv
<1> DEFINE es == {e \in Ends : e \in ls \/ <<e[2], e[1]>> \in ls}
<1>1. /\ link' = [e \in Ends |-> IF e \in es THEN "new" ELSE link[e]]
      /\ setKnown' = [e \in Ends |-> IF e \in es THEN {} ELSE setKnown[e]]
      /\ wire' = [e \in Ends |-> IF e \notin es THEN wire[e]
                                 ELSE IF e \in Links THEN <<Message("version")>> ELSE <<>>]
      /\ missed' = {x \in missed : x[1] \notin es}
  BY Zenon DEF Opened
<1>2. ASSUME NEW e \in Ends
      PROVE  /\ e[1] \in AlertNodes /\ e[2] \in AlertNodes /\ Rev(e) \in Ends
             /\ e \in es <=> Rev(e) \in es
             /\ e[1] \in forgot \/ e[2] \in forgot => e \in es
  <2>1. /\ e = <<e[1], e[2]>> /\ e[1] \in AlertNodes /\ e[2] \in AlertNodes
        /\ Rev(e) \in Ends /\ Rev(Rev(e)) = e /\ (e \in Links \/ Rev(e) \in Links)
    BY TwoEnds, Zenon
  <2>2. Rev(e)[1] = e[2] /\ Rev(e)[2] = e[1] /\ Rev(e) = <<e[2], e[1]>>
    BY Zenon DEF Rev
  <2>3. e \in es <=> e \in ls \/ Rev(e) \in ls
    BY <2>2, Zenon
  <2>4. Rev(e) \in es <=> e \in ls \/ Rev(e) \in ls
    BY <2>1, <2>2, Zenon
  <2> QED BY <2>1, <2>2, <2>3, <2>4, Zenon
<1> HIDE DEF es
<1>3. AlertTypeOK'
  <2>1. wire' \in [Ends -> Seq(Msgs(issued))]
    <3>1. wire \in [Ends -> Seq(Msgs(issued))]
      BY Zenon DEF AlertTypeOK, Msgs
    <3> QED BY <1>1, <3>1, FirstMessage, Zenon
  <2>2. /\ link' \in [Ends -> {"new", "version", "full"}] /\ setKnown' \in [Ends -> SUBSET issued]
        /\ missed' \subseteq Ends \X issued
    BY <1>1, Zenon DEF AlertTypeOK
  <2>3. /\ mapAlerts' \in [AlertNodes -> SUBSET issued] /\ heeded' \in [AlertNodes -> SUBSET issued]
        /\ relays' \in [AlertNodes -> SUBSET ({"rpc", "handler"} \X issued)]
    BY Zenon DEF AlertTypeOK
  <2> QED BY <2>1, <2>2, <2>3, Zenon DEF AlertTypeOK, Msgs
<1>4. InSequence'
  BY Zenon DEF InSequence
<1>5. ASSUME NEW u \in AlertNodes \ forgot
      PROVE  /\ mapAlerts'[u] = mapAlerts[u] /\ heeded'[u] = heeded[u] /\ relays'[u] = relays[u]
             /\ \A a : Settled(u, a)' <=> Settled(u, a)
  BY Zenon DEF Settled
<1>6. ASSUME NEW u \in forgot
      PROVE  mapAlerts'[u] = {} /\ heeded'[u] = {} /\ relays'[u] = {}
  BY Zenon
<1>7. NodeSettled' /\ CancelledStayAway'
  <2>1. ASSUME NEW u \in AlertNodes
        PROVE  /\ mapAlerts'[u] \subseteq heeded'[u]
               /\ \A a \in heeded'[u] : Settled(u, a)'
               /\ \A r \in relays'[u] : Settled(u, r[2])'
               /\ \A a \in mapAlerts'[u], c \in heeded'[u] : ~ Cancels(c, a)'
    <3>1. CASE u \in forgot
      BY <1>6, <3>1, Zenon
    <3>2. CASE u \notin forgot
      <4>1. \A a, c : Cancels(c, a)' <=> Cancels(c, a)
        BY Zenon DEF Cancels, IsInEffect
      <4> QED BY <1>5, <3>2, <4>1, Zenon DEF OwnSettled, NodeSettled, CancelledStayAway
    <3> QED BY <3>1, <3>2, Zenon
  <2> QED BY <2>1, Zenon DEF NodeSettled, CancelledStayAway
<1>8. ASSUME NEW e \in Ends, e \notin es
      PROVE  /\ link'[e] = link[e] /\ setKnown'[e] = setKnown[e] /\ wire'[e] = wire[e]
             /\ \A a : <<e, a>> \in missed => <<e, a>> \in missed'
             /\ e[1] \in AlertNodes \ forgot /\ e[2] \in AlertNodes \ forgot
  BY <1>1, <1>2, <1>8, Zenon
<1>9. ASSUME NEW e \in Ends, e \in es
      PROVE  /\ link'[e] = "new" /\ setKnown'[e] = {}
             /\ \A a : ~ InSeq(wire'[e], AlertMessage(a))
             /\ ~ InSeq(wire'[e], Message("verack"))
             /\ IF wire'[e] = <<>> THEN e \notin Links ELSE Head(wire'[e]) = Message("version")
  <2>1. link'[e] = "new" /\ setKnown'[e] = {}
    BY <1>1, <1>9, Zenon
  <2>2. CASE e \in Links
    <3>1. wire'[e] = <<Message("version")>>
      BY <1>1, <1>9, <2>2, Zenon
    <3> QED BY <2>1, <3>1, FirstMessage, MessagesDiffer, Zenon
  <2>3. CASE e \notin Links
    <3>1. wire'[e] = <<>>
      BY <1>1, <1>9, <2>3, Zenon
    <3> QED BY <2>1, <2>3, <3>1, FirstMessage, Zenon
  <2> QED BY <2>2, <2>3, Zenon
<1>10. Handshake'
  <2>1. ASSUME NEW e \in Ends
        PROVE  /\ link'[e] = "full" => link'[Rev(e)] # "new"
               /\ InSeq(wire'[e], Message("verack")) => link'[e] # "new"
               /\ link'[Rev(e)] = "new" => IF wire'[e] = <<>> THEN e \notin Links
                                           ELSE Head(wire'[e]) = Message("version")
    <3>1. CASE e \in es
      BY <1>9, <3>1, Zenon
    <3>2. CASE e \notin es
      BY <1>2, <1>8, <3>2, Zenon DEF Handshake
    <3> QED BY <3>1, <3>2, Zenon
  <2> QED BY <2>1, Zenon DEF Handshake
<1>11. OwnSettled'
  <2>1. ASSUME NEW e \in Ends, NEW a \in issued, InSeq(wire'[e], AlertMessage(a)) \/ a \in setKnown'[e]
        PROVE  Settled(e[1], a)'
    <3>1. e \notin es
      BY <1>9, <2>1, Zenon
    <3>2. Settled(e[1], a)
      BY <1>8, <2>1, <3>1, Zenon DEF OwnSettled, On
    <3> QED BY <1>5, <1>8, <3>1, <3>2, Zenon
  <2> QED BY <1>7, <2>1, Zenon DEF OwnSettled, On
<1>12. PeerSettled'
  <2>1. ASSUME NEW e \in Ends, NEW a \in setKnown'[e]
        PROVE  InSeq(wire'[e], AlertMessage(a)) \/ Settled(e[2], a)'
    <3>1. e \notin es
      BY <1>9, Zenon
    <3>2. On(e, a) \/ Settled(e[2], a)
      BY <1>8, <3>1, Zenon DEF PeerSettled
    <3> QED BY <1>5, <1>8, <3>1, <3>2, Zenon DEF On
  <2>2. ASSUME NEW e \in Ends, NEW a \in mapAlerts'[e[1]]
        PROVE  \/ link'[e] = "new" \/ <<e, a>> \in missed'
               \/ \E q \in relays'[e[1]] : q[2] = a
               \/ InSeq(wire'[e], AlertMessage(a)) \/ Settled(e[2], a)'
    <3>1. CASE e \in es
      BY <1>9, <3>1, Zenon
    <3>2. CASE e \notin es
      <4>1. mapAlerts'[e[1]] = mapAlerts[e[1]] /\ relays'[e[1]] = relays[e[1]]
        BY <1>5, <1>8, <3>2, Zenon
      <4>2. \/ link[e] = "new" \/ <<e, a>> \in missed
            \/ \E q \in relays[e[1]] : q[2] = a
            \/ On(e, a) \/ Settled(e[2], a)
        BY <4>1, Zenon DEF PeerSettled
      <4> QED BY <1>5, <1>8, <3>2, <4>1, <4>2, Zenon DEF On
    <3> QED BY <3>1, <3>2, Zenon
  <2> QED BY <2>1, <2>2, Zenon DEF PeerSettled, On
<1> QED BY <1>3, <1>4, <1>7, <1>10, <1>11, <1>12, Zenon

(* A connection is lost and opened again, or a node is restarted. *)
LEMMA BreakKeeps ==
  ASSUME AlertInv, (\E l \in Links : Reopen(l)) \/ (\E n \in AlertNodes : AlertRestart(n))
  PROVE  AlertInv'
<1>0. /\ mapAlerts \in [AlertNodes -> SUBSET issued] /\ heeded \in [AlertNodes -> SUBSET issued]
      /\ relays \in [AlertNodes -> SUBSET ({"rpc", "handler"} \X issued)]
      /\ breaks \in 0..MaxBreaks /\ MaxBreaks \in Nat
  BY AlertConstants, Zenon DEF AlertInv, AlertTypeOK
<1>1. ASSUME NEW l \in Links, Reopen(l)
      PROVE  AlertInv'
  <2>1. /\ mapAlerts' = [u \in AlertNodes |-> IF u \in {} THEN {} ELSE mapAlerts[u]]
        /\ heeded' = [u \in AlertNodes |-> IF u \in {} THEN {} ELSE heeded[u]]
        /\ relays' = [u \in AlertNodes |-> IF u \in {} THEN {} ELSE relays[u]]
    BY <1>0, <1>1, Zenon DEF Reopen
  <2>2. Opened({l}) /\ UNCHANGED <<alertClock, issued>> /\ breaks' \in 0..MaxBreaks
    <3>1. breaks < MaxBreaks /\ breaks' = breaks + 1
      BY <1>1, Zenon DEF Reopen
    <3>2. breaks' \in 0..MaxBreaks
      BY <1>0, <3>1
    <3> QED BY <1>1, <3>2, Zenon DEF Reopen
  <2>3. {l} \in SUBSET Links /\ {} \in SUBSET AlertNodes
    BY Zenon
  <2> QED BY <2>1, <2>2, <2>3, OpenedKeeps, Zenon
<1>2. ASSUME NEW n \in AlertNodes, AlertRestart(n)
      PROVE  AlertInv'
  <2>1. /\ mapAlerts' = [u \in AlertNodes |-> IF u \in {n} THEN {} ELSE mapAlerts[u]]
        /\ heeded' = [u \in AlertNodes |-> IF u \in {n} THEN {} ELSE heeded[u]]
        /\ relays' = [u \in AlertNodes |-> IF u \in {n} THEN {} ELSE relays[u]]
    BY <1>0, <1>2, Zenon DEF AlertRestart
  <2> DEFINE ls == {l \in Links : n \in {l[1], l[2]}}
  <2>2. Opened(ls) /\ UNCHANGED <<alertClock, issued>> /\ breaks' \in 0..MaxBreaks
    <3>0. breaks < MaxBreaks /\ breaks' = breaks + 1
      BY <1>2, Zenon DEF AlertRestart
    <3>1. breaks' \in 0..MaxBreaks
      BY <1>0, <3>0
    <3>2. Opened(ls) /\ UNCHANGED <<alertClock, issued>>
      BY <1>2, Zenon DEF AlertRestart
    <3> QED BY <3>1, <3>2, Zenon
  <2>3. ls \in SUBSET Links /\ {n} \in SUBSET AlertNodes
    BY Zenon
  <2>4. \A l \in Links : l[1] \in {n} \/ l[2] \in {n} => l \in ls
    BY Zenon
  <2> HIDE DEF ls
  <2> QED BY <2>1, <2>2, <2>3, <2>4, OpenedKeeps, Zenon
<1> QED BY <1>1, <1>2, Zenon
-----------------------------------------------------------------------------
(* The invariant, and what follows from it. *)

(* At the start no alert exists. *)
LEMMA AlertInitInv == AlertInit => AlertInv
<1> SUFFICES ASSUME AlertInit PROVE AlertInv
  BY Zenon
<1> USE DEF AlertInit
<1>1. ASSUME NEW e \in Ends
      PROVE  /\ wire[e] \in Seq(Msgs(issued))
             /\ \A a : ~ InSeq(wire[e], AlertMessage(a))
             /\ ~ InSeq(wire[e], Message("verack"))
             /\ IF wire[e] = <<>> THEN e \notin Links ELSE Head(wire[e]) = Message("version")
  <2>1. CASE e \in Links
    <3>1. wire[e] = <<Message("version")>>
      BY <2>1, Zenon
    <3> QED BY <3>1, FirstMessage, MessagesDiffer, Zenon
  <2>2. CASE e \notin Links
    <3>1. wire[e] = <<>>
      BY <2>2, Zenon
    <3> QED BY <2>2, <3>1, FirstMessage, Zenon
  <2> QED BY <2>1, <2>2, Zenon
<1>2. AlertTypeOK
  <2>1. wire \in [Ends -> Seq(Msgs(issued))]
    BY <1>1, Zenon
  <2>2. alertClock \in 0..MaxClock /\ breaks \in 0..MaxBreaks
    BY AlertConstants
  <2> QED BY <2>1, <2>2, Zenon DEF AlertTypeOK, Msgs
<1>3. InSequence
  BY FS_EmptySet, Zenon DEF InSequence, Sequenced
<1>4. Handshake
  BY <1>1, Zenon DEF Handshake
<1>5. OwnSettled
  BY <1>1, Zenon DEF OwnSettled, NodeSettled, On
<1>6. PeerSettled
  BY TwoEnds, Zenon DEF PeerSettled
<1>7. CancelledStayAway
  BY Zenon DEF CancelledStayAway
<1> QED BY <1>2, <1>3, <1>4, <1>5, <1>6, <1>7, Zenon DEF AlertInv

(* Every step keeps the invariant. *)
LEMMA AlertStepInv == AlertInv /\ [AlertNext]_alertVars => AlertInv'
<1> SUFFICES ASSUME AlertInv, [AlertNext]_alertVars PROVE AlertInv'
  BY Zenon
<1>1. CASE UNCHANGED alertVars
  BY <1>1, Zenon DEF alertVars, AlertInv, AlertTypeOK, InSequence, Handshake, OwnSettled, NodeSettled,
              PeerSettled, CancelledStayAway, Settled, On, Cancels, IsInEffect
<1>2. CASE AlertNext
  BY <1>2, SendKeeps, RelayKeeps, VersionKeeps, VerackKeeps, AlertKeeps, BreakKeeps, TickKeeps, Zenon
     DEF AlertNext
<1> QED BY <1>1, <1>2, Zenon

(* When everything is read, a node that holds an alert in effect has peers  *)
(* that hold it: were the alert cancelled there, the cancelling alert would *)
(* be settled here too.                                                     *)
LEMMA HeldByPeer ==
  ASSUME AlertInv, missed = {},
         \A e \in Ends : wire[e] = <<>> /\ link[e] = "full",
         \A u \in AlertNodes : relays[u] = {},
         NEW e \in Ends, NEW a \in mapAlerts[e[1]], IsInEffect(a)
  PROVE  a \in mapAlerts[e[2]]
<1> USE DEF AlertInv
<1>0. /\ e[1] \in AlertNodes /\ e[2] \in AlertNodes /\ Rev(e) \in Ends
      /\ Rev(e)[1] = e[2] /\ Rev(e)[2] = e[1]
  BY TwoEnds, Zenon DEF Rev
<1>1. ASSUME NEW d \in Ends, NEW x PROVE ~ On(d, x)
  <2>1. wire[d] = <<>>
    BY Zenon
  <2> QED BY <2>1, FirstMessage DEF On
<1>2. \A d \in Ends : \A x \in mapAlerts[d[1]] : Settled(d[2], x)
  <2>1. \A d \in Ends : d[1] \in AlertNodes
    BY TwoEnds, Zenon
  <2> QED BY <1>1, <2>1, Zenon DEF PeerSettled
<1>3. PICK b \in mapAlerts[e[2]] : b = a \/ a.nID <= b.nCancel
  BY <1>2, Zenon DEF Settled, SettledBy, IsInEffect
<1>4. CASE b # a
  <2>1. Settled(e[1], b)
    BY <1>0, <1>2, Zenon
  <2>2. a \in issued /\ b \in issued /\ mapAlerts[e[1]] \subseteq issued
    BY <1>0, Zenon DEF AlertTypeOK
  <2>3. \A x \in issued : /\ x.nID \in Nat /\ x.nCancel \in Nat /\ x.nExpiration \in Nat
                          /\ x.nCancel < x.nID
    BY AlertFields, Zenon DEF InSequence, Sequenced
  <2>4. \A x, y \in issued : x.nID < y.nID => x.nExpiration <= y.nExpiration
    BY Zenon DEF InSequence, Sequenced
  <2>5. \A x \in issued : a.nID <= x.nCancel => IsInEffect(x)
    <3>1. ASSUME NEW x \in issued, a.nID <= x.nCancel
          PROVE  IsInEffect(x)
      <4>0. /\ a.nID \in Nat /\ a.nExpiration \in Nat /\ x.nExpiration \in Nat
            /\ x.nID \in Nat /\ x.nCancel \in Nat /\ x.nCancel < x.nID
        BY <2>2, <2>3, Zenon
      <4>1. a.nID < x.nID
        BY <3>1, <4>0
      <4>2. a.nExpiration <= x.nExpiration
        BY <2>2, <2>4, <4>1, Zenon
      <4>3. alertClock \in Nat
        BY DEF AlertTypeOK
      <4> QED BY <4>0, <4>2, <4>3 DEF IsInEffect
    <3> QED BY <3>1, Zenon
  <2>6. a.nID <= b.nCancel /\ IsInEffect(b)
    BY <1>3, <1>4, <2>2, <2>5, Zenon
  <2>7. PICK c \in mapAlerts[e[1]] : c = b \/ b.nID <= c.nCancel
    BY <2>1, <2>6, Zenon DEF Settled, SettledBy, IsInEffect
  <2>8. c \in issued /\ a.nID <= c.nCancel
    <3>1. /\ c \in issued /\ c.nCancel \in Nat
          /\ a.nID \in Nat /\ b.nID \in Nat /\ b.nCancel \in Nat /\ b.nCancel < b.nID
      BY <2>2, <2>3, <2>7, Zenon
    <3> QED BY <2>6, <2>7, <3>1
  <2>9. Cancels(c, a)
    BY <2>5, <2>8, Zenon DEF Cancels
  <2>10. c \in heeded[e[1]]
    BY <1>0, Zenon DEF OwnSettled, NodeSettled
  <2> QED BY <1>0, <2>9, <2>10, Zenon DEF CancelledStayAway
<1> QED BY <1>3, <1>4, Zenon

(* Agreement, from the invariant. *)
LEMMA AlertInvAgree == AlertInv => AlertsAgree
<1> SUFFICES ASSUME AlertInv, missed = {},
                    \A e \in Ends : wire[e] = <<>> /\ link[e] = "full",
                    \A n \in AlertNodes : relays[n] = {},
                    NEW l \in Links, NEW a \in issued, IsInEffect(a)
             PROVE  a \in mapAlerts[l[1]] <=> a \in mapAlerts[l[2]]
  BY Zenon DEF AlertsAgree
<1>1. l \in Ends /\ Rev(l) \in Ends /\ Rev(l)[1] = l[2] /\ Rev(l)[2] = l[1]
  BY TwoEnds, Zenon DEF Ends, Rev
<1>2. a \in mapAlerts[l[1]] => a \in mapAlerts[l[2]]
  BY <1>1, HeldByPeer, Zenon
<1>3. a \in mapAlerts[Rev(l)[1]] => a \in mapAlerts[Rev(l)[2]]
  BY <1>1, HeldByPeer, Zenon
<1> QED BY <1>1, <1>2, <1>3, Zenon
-----------------------------------------------------------------------------
(* The invariant of any network of nodes, however often connections break   *)
(* and nodes restart.                                                       *)
THEOREM AlertsInvariant == AlertSpec => []AlertInv
BY AlertInitInv, AlertStepInv, PTL DEF AlertSpec

(* CAlert::ProcessAlert never lets a cancelled alert back in while the      *)
(* cancellation is in effect, although it forgets cancelled alerts and may  *)
(* drop the alert that cancelled them.                                      *)
THEOREM CancelledNeverReturn == AlertSpec => []CancelledStayAway
<1>1. AlertInv => CancelledStayAway
  BY Zenon DEF AlertInv
<1> QED BY <1>1, AlertsInvariant, PTL

(* Nodes that are connected agree on the alerts in effect once every        *)
(* message is read, unless ForEachNode passed over a peer between VERSION   *)
(* and VERACK.                                                              *)
THEOREM PeersAgree == AlertSpec => []AlertsAgree
BY AlertsInvariant, AlertInvAgree, PTL
=============================================================================
