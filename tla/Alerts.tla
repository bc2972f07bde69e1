------------------------------- MODULE Alerts -------------------------------
(***************************************************************************)
(* The alerts that operators sign with sendalert and that nodes keep in    *)
(* mapAlerts, relay and show until they expire or a later alert cancels    *)
(* them (alert.cpp, and its callers in net_processing.cpp and rpc/net.cpp).*)
(*                                                                         *)
(* A node offers the alerts it holds to a peer when the VERSION of that    *)
(* peer comes in, and later ones in ForEachNode, which passes over the     *)
(* peers whose VERACK is still on its way; missed records what is lost in  *)
(* between.  The RPC thread and the message handler relay after they have  *)
(* released cs_mapAlerts.  Signatures are valid, alerts apply to all       *)
(* versions, and the operators number them in the order they issue them.   *)
(***************************************************************************)
EXTENDS Integers, Sequences, FiniteSets

CONSTANTS
  AlertNodes,    \* the nodes
  Issuers,       \* the nodes whose operators have the alert key
  Links,         \* the connections: <<n, m>> is opened by n
  Lifetime,      \* units of time from the issue of an alert to nExpiration
  MaxClock,      \* bound on the time
  MaxAlerts,     \* bound on the alerts issued, and on their nID
  MaxBreaks      \* bound on the lost connections and the restarts

ASSUME AlertConstants ==
  /\ Issuers \subseteq AlertNodes /\ Links \subseteq AlertNodes \X AlertNodes
  /\ \A l \in Links : l[1] # l[2] /\ <<l[2], l[1]>> \notin Links
  /\ Lifetime \in Nat \ {0} /\ {MaxClock, MaxAlerts, MaxBreaks} \subseteq Nat

VARIABLES
  alertClock,    \* GetAdjustedTime
  issued,        \* history: the alerts of all sendalert calls
  mapAlerts,     \* the alerts each node holds
  heeded,        \* history: the alerts each node has accepted since it started
  relays,        \* alerts accepted and about to be relayed, with the thread
  link,          \* how far the handshake of n with m is, seen by n
  setKnown,      \* CNode::setKnown of m, at n
  wire,          \* the messages from n to m
  missed,        \* history: <<link, alert>> ForEachNode passed over
  breaks

alertVars == <<alertClock, issued, mapAlerts, heeded, relays, link, setKnown, wire, missed, breaks>>

Ends == Links \cup {<<l[2], l[1]>> : l \in Links}
AlertRecords == [nID : 1..MaxAlerts, nCancel : 0..MaxAlerts, nExpiration : 1..MaxClock + Lifetime]
Message(kind) == [kind |-> kind]
AlertMessage(a) == [kind |-> "alert", alert |-> a]

IsInEffect(a) == alertClock < a.nExpiration

Cancels(c, a) == IsInEffect(c) /\ a.nID <= c.nCancel

(* What mapAlerts of n keeps when a comes: neither cancelled nor expired. *)
Surviving(n, a) == {b \in mapAlerts[n] : ~ Cancels(a, b) /\ IsInEffect(b)}

AlreadyCancelled_never(n, a) == FALSE
AlreadyCancelled(n, a) == \E b \in Surviving(n, a) : Cancels(b, a)

Accepts(n, a) == IsInEffect(a) /\ ~ AlreadyCancelled(n, a)

(* A refused alert has cancelled others all the same, unless it is expired. *)
ProcessAlert(n, a, thread) ==
  /\ mapAlerts' = [mapAlerts EXCEPT ![n] =
       IF ~ IsInEffect(a) THEN @
       ELSE IF Accepts(n, a) THEN Surviving(n, a) \cup {a} ELSE Surviving(n, a)]
  /\ heeded' = [heeded EXCEPT ![n] = IF Accepts(n, a) THEN @ \cup {a} ELSE @]
  /\ relays' = [relays EXCEPT ![n] = IF Accepts(n, a) THEN @ \cup {<<thread, a>>} ELSE @]

Expiration(now) == now + Lifetime

(* sendalert, up to its relay. *)
sendalert(n, upto) ==
  /\ Cardinality(issued) < MaxAlerts
  /\ LET a == [nID |-> Cardinality(issued) + 1, nCancel |-> upto,
               nExpiration |-> Expiration(alertClock)]
     IN /\ upto < a.nID
        /\ issued' = issued \cup {a}
        /\ ProcessAlert(n, a, "rpc")
  /\ UNCHANGED <<alertClock, link, setKnown, wire, missed, breaks>>

(* The peers of n that RelayTo sends a to.  nRelayUntil is nExpiration. *)
RelayTargets(n, a) ==
  {e \in Ends : e[1] = n /\ link[e] = "full" /\ IsInEffect(a) /\ a \notin setKnown[e]}

(* ForEachNode: a is relayed to the peers that are fully connected. *)
RelayAlert(n, r) ==
  /\ r \in relays[n]
  /\ relays' = [relays EXCEPT ![n] = @ \ {r}]
  /\ LET a == r[2]
         to == RelayTargets(n, a)
     IN /\ setKnown' = [e \in Ends |-> IF e \in to THEN setKnown[e] \cup {a} ELSE setKnown[e]]
        /\ wire' = [e \in Ends |-> IF e \in to THEN Append(wire[e], AlertMessage(a)) ELSE wire[e]]
        /\ missed' = missed \cup {<<e, a>> : e \in {x \in Ends : x[1] = n /\ link[x] = "version"}}
  /\ UNCHANGED <<alertClock, issued, mapAlerts, heeded, link, breaks>>
-----------------------------------------------------------------------------
(* The message handler of n is free and reads a message of m. *)
Reads(n, m, kind) ==
  /\ <<n, m>> \in Ends /\ wire[<<m, n>>] # <<>>
  /\ Head(wire[<<m, n>>]).kind = kind
  /\ \A r \in relays[n] : r[1] # "handler"

(* VERSION: an inbound peer is sent our version, then every peer VERACK and *)
(* the alerts held, in the order of their hashes.                           *)
Offered_none(n) == {}
Offered(n) == {a \in mapAlerts[n] : IsInEffect(a)}

ReceiveVersion(n, m) ==
  /\ Reads(n, m, "version")
  /\ \E s \in [1..Cardinality(Offered(n)) -> Offered(n)] :
       /\ \A a \in Offered(n) : \E i \in DOMAIN s : s[i] = a
       /\ wire' = [wire EXCEPT ![<<m, n>>] = Tail(@),
                               ![<<n, m>>] = @ \o (IF <<m, n>> \in Links THEN <<Message("version")>> ELSE <<>>)
                                               \o <<Message("verack")>>
                                               \o [i \in DOMAIN s |-> AlertMessage(s[i])]]
  /\ setKnown' = [setKnown EXCEPT ![<<n, m>>] = @ \cup Offered(n)]
  /\ link' = [link EXCEPT ![<<n, m>>] = "version"]
  /\ UNCHANGED <<alertClock, issued, mapAlerts, heeded, relays, missed, breaks>>

ReceiveVerack(n, m) ==
  /\ Reads(n, m, "verack")
  /\ link' = [link EXCEPT ![<<n, m>>] = "full"]
  /\ wire' = [wire EXCEPT ![<<m, n>>] = Tail(@)]
  /\ UNCHANGED <<alertClock, issued, mapAlerts, heeded, relays, setKnown, missed, breaks>>

(* ALERT, up to the relay. *)
ReceiveAlert(n, m) ==
  /\ Reads(n, m, "alert")
  /\ LET a == Head(wire[<<m, n>>]).alert
     IN IF a \in setKnown[<<n, m>>]
        THEN UNCHANGED <<mapAlerts, heeded, relays, setKnown>>
        ELSE /\ ProcessAlert(n, a, "handler")
             /\ setKnown' = [setKnown EXCEPT ![<<n, m>>] = IF Accepts(n, a) THEN @ \cup {a} ELSE @]
  /\ wire' = [wire EXCEPT ![<<m, n>>] = Tail(@)]
  /\ UNCHANGED <<alertClock, issued, link, missed, breaks>>
-----------------------------------------------------------------------------
(* The handshakes of the connections in ls begin anew. *)
Opened(ls) ==
  LET es == {e \in Ends : e \in ls \/ <<e[2], e[1]>> \in ls}
  IN /\ link' = [e \in Ends |-> IF e \in es THEN "new" ELSE link[e]]
     /\ setKnown' = [e \in Ends |-> IF e \in es THEN {} ELSE setKnown[e]]
     /\ wire' = [e \in Ends |-> IF e \notin es THEN wire[e]
                                ELSE IF e \in Links THEN <<Message("version")>> ELSE <<>>]
     /\ missed' = {x \in missed : x[1] \notin es}

Reopen(l) ==
  /\ breaks < MaxBreaks /\ breaks' = breaks + 1
  /\ Opened({l})
  /\ UNCHANGED <<alertClock, issued, mapAlerts, heeded, relays>>

(* n is stopped and started again: nothing of this is stored. *)
AlertRestart(n) ==
  /\ breaks < MaxBreaks /\ breaks' = breaks + 1
  /\ mapAlerts' = [mapAlerts EXCEPT ![n] = {}]
  /\ heeded' = [heeded EXCEPT ![n] = {}]
  /\ relays' = [relays EXCEPT ![n] = {}]
  /\ Opened({l \in Links : n \in {l[1], l[2]}})
  /\ UNCHANGED <<alertClock, issued>>

AlertTick ==
  /\ alertClock < MaxClock /\ alertClock' = alertClock + 1
  /\ UNCHANGED <<issued, mapAlerts, heeded, relays, link, setKnown, wire, missed, breaks>>
-----------------------------------------------------------------------------
AlertInit ==
  /\ alertClock = 0 /\ issued = {} /\ missed = {} /\ breaks = 0
  /\ mapAlerts = [n \in AlertNodes |-> {}] /\ heeded = [n \in AlertNodes |-> {}]
  /\ relays = [n \in AlertNodes |-> {}]
  /\ link = [e \in Ends |-> "new"] /\ setKnown = [e \in Ends |-> {}]
  /\ wire = [e \in Ends |-> IF e \in Links THEN <<Message("version")>> ELSE <<>>]

AlertNext ==
  \/ \E n \in Issuers, upto \in 0..MaxAlerts : sendalert(n, upto)
  \/ \E n \in AlertNodes : \E r \in relays[n] : RelayAlert(n, r)
  \/ \E n, m \in AlertNodes : ReceiveVersion(n, m) \/ ReceiveVerack(n, m) \/ ReceiveAlert(n, m)
  \/ \E l \in Links : Reopen(l)
  \/ \E n \in AlertNodes : AlertRestart(n)
  \/ AlertTick

AlertSpec == AlertInit /\ [][AlertNext]_alertVars
-----------------------------------------------------------------------------
(* Properties. *)

(* The type of every variable; what a node shows was issued by sendalert    *)
(* and lasts no longer than nExpiration allows.                             *)
AlertTypeOK ==
  /\ alertClock \in 0..MaxClock /\ issued \subseteq AlertRecords /\ breaks \in 0..MaxBreaks
  /\ mapAlerts \in [AlertNodes -> SUBSET issued] /\ heeded \in [AlertNodes -> SUBSET issued]
  /\ relays \in [AlertNodes -> SUBSET ({"rpc", "handler"} \X issued)]
  /\ link \in [Ends -> {"new", "version", "full"}] /\ setKnown \in [Ends -> SUBSET issued]
  /\ wire \in [Ends -> Seq({Message("version"), Message("verack")} \cup {AlertMessage(a) : a \in issued})]
  /\ missed \subseteq Ends \X issued

(* No node holds an alert that an alert it has accepted since it started    *)
(* cancels, although the cancelling alert may have been cancelled itself    *)
(* and left mapAlerts, and the cancelled one come again from another peer   *)
(* or after a reconnection.                                                 *)
CancelledStayAway ==
  \A n \in AlertNodes : \A a \in mapAlerts[n], c \in heeded[n] : ~ Cancels(c, a)

(* Once every message has been read and every relay made, two connected     *)
(* nodes hold the same alerts in effect, whatever was cancelled, lost with  *)
(* a connection or forgotten in a restart -- unless an alert fell between   *)
(* VERSION and VERACK.                                                      *)
AlertsAgree ==
  (/\ missed = {}
   /\ \A e \in Ends : wire[e] = <<>> /\ link[e] = "full"
   /\ \A n \in AlertNodes : relays[n] = {})
  => \A l \in Links, a \in issued :
       IsInEffect(a) => (a \in mapAlerts[l[1]] <=> a \in mapAlerts[l[2]])
=============================================================================
