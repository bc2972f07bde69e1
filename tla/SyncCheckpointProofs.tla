------------------------ MODULE SyncCheckpointProofs ------------------------
(***************************************************************************)
(* The checkpoints of all nodes lie on one chain, for every tree of        *)
(* blocks, any number of nodes, commands, reconnections and restarts of    *)
(* nodes other than the Master, and any delay of the messages.             *)
(*                                                                         *)
(* The Master only ever moves its checkpoint to a descendant, so whatever  *)
(* it once sent is an ancestor of the checkpoint it has now: that holds of *)
(* every message under way, kept, pending or about to be relayed, at every *)
(* node.  The one checkpoint that did not come from the Master is the      *)
(* hardened one, which is comparable with every block.                     *)
(***************************************************************************)
EXTENDS SyncCheckpoint, TLAPS

(* What the Master has sent so far is among these. *)
Sent == Anc[hashSyncCheckpoint[Master]]

(* A node has its checkpoint, and a pending message its checkpoint. *)
Kept ==
  /\ SyncAccepted /\ MessageCurrent
  /\ \A n \in Nodes : checkpointMessagePending[n] \in {NoBlock, hashPendingCheckpoint[n]}

(* Where the checkpoints at the nodes come from. *)
Lineage ==
  \A n \in Nodes :
    /\ hashSyncCheckpoint[n] \in Sent \cup Anc[Hardened]
    /\ checkpointMessage[n] \in Sent \cup {NoBlock}
    /\ relaying[n] \subseteq Sent
    /\ n # Master => /\ hashPendingCheckpoint[n] \in Sent \cup {Hardened, NoBlock}
                     /\ checkpointMessagePending[n] \in Sent \cup {NoBlock}

(* ... and the messages between them. *)
Wire == queue \in [Nodes -> [Nodes -> Seq(Sent)]]

CheckpointInv == TypeOK /\ Kept /\ Lineage /\ Wire /\ NoFalseAlarm

Chains(S, T) == \A x \in S, y \in T : x \in Anc[y] \/ y \in Anc[x]

(* What the Master has sent and what lies below the hardened checkpoint is *)
(* one chain.                                                              *)
LEMMA OneChain ==
  ASSUME NEW s \in Blocks
  PROVE  Chains(Anc[s] \cup Anc[Hardened], Anc[s] \cup Anc[Hardened])
<1>1. Hardened \in Blocks /\ (Hardened \in Anc[s] \/ s \in Anc[Hardened])
  BY CheckpointEnvironment, Zenon DEF CheckpointEnvironment
<1>2. PICK b \in Blocks : Anc[s] \cup Anc[Hardened] \subseteq Anc[b]
  BY <1>1, CheckpointTree DEF CheckpointTree
<1> QED BY <1>2, CheckpointTree, Zenon DEF CheckpointTree, Chains

(* A checkpoint on the chain of the current one is newer, equal or older:  *)
(* it does not conflict.                                                   *)
LEMMA NoConflict ==
  ASSUME TypeOK, NEW n \in Nodes, NEW c \in Blocks,
         c \in Anc[hashSyncCheckpoint[n]] \/ hashSyncCheckpoint[n] \in Anc[c]
  PROVE  ~ Conflicting(n, c)
<1>1. hashSyncCheckpoint[n] \in Blocks
  BY Zenon DEF TypeOK
<1> QED BY <1>1, CheckpointTree DEF CheckpointTree, Conflicting, Newer

(* Messages stay among what was sent when the Master moves on.             *)
LEMMA SeqGrows ==
  ASSUME NEW A, NEW B, A \subseteq B, NEW s \in Seq(A)
  PROVE  s \in Seq(B)
OBVIOUS

(* A longer wire carries what the shorter one carried. *)
LEMMA WireGrows ==
  ASSUME NEW A, NEW B, A \subseteq B, NEW q \in [Nodes -> [Nodes -> Seq(A)]]
  PROVE  q \in [Nodes -> [Nodes -> Seq(B)]]
BY SeqGrows

(* Adopting a newer checkpoint at n keeps what is said of the nodes.       *)
LEMMA AdoptSound ==
  ASSUME CheckpointInv, NEW n \in Nodes, NEW c \in Blocks, NEW msg \in {NoBlock, c},
         NEW index, mapBlockIndex' = [mapBlockIndex EXCEPT ![n] = index],
         mapBlockIndex[n] \subseteq index, index \subseteq Blocks, c \in index,
         ValidateSyncCheckpoint(n, c, index), Adopt(n, c, msg),
         n # Master => /\ c \in Sent \cup {Hardened}
                       /\ msg \in Sent \cup {NoBlock},
         relaying' \in {relaying, [relaying EXCEPT ![n] = @ \cup {msg}]},
         msg = NoBlock => relaying' = relaying
  PROVE  /\ Kept' /\ Lineage' /\ NoFalseAlarm' /\ Sent \subseteq Sent'
         /\ msg \in Sent' \cup {NoBlock}
<1> USE DEF CheckpointInv
<1>1. hashSyncCheckpoint' = [hashSyncCheckpoint EXCEPT ![n] = c]
  BY Zenon DEF Adopt
<1>2. Master \in Nodes /\ Hardened \in Blocks
  BY CheckpointEnvironment, Zenon DEF CheckpointEnvironment
<1>3. Sent \subseteq Sent'
  <2>1. CASE n = Master
    BY <1>1, <2>1, CheckpointTree DEF CheckpointTree, Sent, ValidateSyncCheckpoint, Newer, TypeOK
  <2>2. CASE n # Master
    BY <1>1, <1>2, <2>2, Zenon DEF Sent, TypeOK
  <2> QED BY <2>1, <2>2, Zenon
<1>4. c \in Sent' \cup Anc[Hardened] /\ msg \in Sent' \cup {NoBlock}
  <2>1. CASE n = Master
    BY <1>1, <2>1, CheckpointTree DEF CheckpointTree, Sent, TypeOK
  <2>2. CASE n # Master
    BY <1>2, <1>3, <2>2, CheckpointTree, Zenon DEF CheckpointTree
  <2> QED BY <2>1, <2>2, Zenon
<1>5. Kept'
  BY Zenon DEF Kept, SyncAccepted, MessageCurrent, Adopt, TypeOK
<1>6. Lineage'
  BY <1>1, <1>3, <1>4 DEF Lineage, Adopt, TypeOK
<1>7. NoFalseAlarm'
  BY Zenon DEF NoFalseAlarm, Adopt
<1> QED BY <1>3, <1>4, <1>5, <1>6, <1>7, Zenon

(* A message that does not move the checkpoint raises no alarm at a node   *)
(* other than the Master.                                                  *)
LEMMA MarkSound ==
  ASSUME CheckpointInv, NEW n \in Nodes, NEW c \in Blocks, NEW index, MarkConflict(n, c, index),
         n # Master => c \in Sent \cup {Hardened}
  PROVE  NoFalseAlarm'
<1> USE DEF CheckpointInv
<1>1. CASE n = Master
  BY <1>1, Zenon DEF NoFalseAlarm, MarkConflict, TypeOK
<1>2. CASE n # Master
  <2>1. hashSyncCheckpoint[Master] \in Blocks /\ Hardened \in Blocks
    BY CheckpointEnvironment, Zenon DEF CheckpointEnvironment, TypeOK
  <2>2. c \in Sent \cup Anc[Hardened] /\ hashSyncCheckpoint[n] \in Sent \cup Anc[Hardened]
    BY <1>2, <2>1, CheckpointTree, Zenon DEF CheckpointTree, Lineage
  <2>3. c \in Anc[hashSyncCheckpoint[n]] \/ hashSyncCheckpoint[n] \in Anc[c]
    BY <2>1, <2>2, OneChain, Zenon DEF Chains, Sent
  <2>4. ~ Conflicting(n, c)
    BY <2>3, NoConflict, Zenon
  <2> QED BY <2>4, Zenon DEF NoFalseAlarm, MarkConflict
<1> QED BY <1>1, <1>2, Zenon

(* ProcessSyncCheckpoint keeps what is said of the nodes, for any          *)
(* checkpoint at the Master and for one the Master sent at other nodes.    *)
LEMMA ProcessSound ==
  ASSUME CheckpointInv, NEW n \in Nodes, NEW c \in Blocks, ProcessSyncCheckpoint(n, c),
         n # Master => c \in Sent, UNCHANGED mapBlockIndex
  PROVE  Kept' /\ Lineage' /\ NoFalseAlarm' /\ Sent \subseteq Sent'
<1>1. CASE c \notin mapBlockIndex[n]
  <2>1. UNCHANGED <<hashSyncCheckpoint, hashInvalidCheckpoint, checkpointMessage, relaying>>
    BY <1>1, Zenon DEF ProcessSyncCheckpoint
  <2>2. /\ hashPendingCheckpoint' = [hashPendingCheckpoint EXCEPT ![n] = c]
        /\ checkpointMessagePending' = [checkpointMessagePending EXCEPT ![n] = c]
    BY <1>1, Zenon DEF ProcessSyncCheckpoint
  <2>3. Sent' = Sent
    BY <2>1, Zenon DEF Sent
  <2>4. Lineage'
    BY <2>1, <2>2, <2>3, Zenon DEF CheckpointInv, Lineage, TypeOK
  <2>5. Kept' /\ NoFalseAlarm'
    BY <2>1, <2>2, Zenon DEF CheckpointInv, Kept, SyncAccepted, MessageCurrent, NoFalseAlarm, TypeOK
  <2> QED BY <2>3, <2>4, <2>5, Zenon
<1>2. CASE c \in mapBlockIndex[n] /\ ~ ValidateSyncCheckpoint(n, c, mapBlockIndex[n])
  <2>1. /\ UNCHANGED <<hashSyncCheckpoint, checkpointMessage, hashPendingCheckpoint>>
        /\ UNCHANGED <<checkpointMessagePending, relaying>>
        /\ MarkConflict(n, c, mapBlockIndex[n])
    BY <1>2, Zenon DEF ProcessSyncCheckpoint, Refuse
  <2>2. NoFalseAlarm'
    BY <2>1, MarkSound, Zenon
  <2>3. Sent' = Sent
    BY <2>1, Zenon DEF Sent
  <2> QED BY <2>1, <2>2, <2>3, Zenon DEF CheckpointInv, Kept, SyncAccepted, MessageCurrent, Lineage
<1>3. CASE c \in mapBlockIndex[n] /\ ValidateSyncCheckpoint(n, c, mapBlockIndex[n])
  <2>1. Adopt(n, c, c) /\ relaying' = [relaying EXCEPT ![n] = @ \cup {c}]
    BY <1>3, Zenon DEF ProcessSyncCheckpoint
  <2>2. mapBlockIndex' = [mapBlockIndex EXCEPT ![n] = mapBlockIndex[n]] /\ mapBlockIndex[n] \subseteq Blocks
    BY Zenon DEF CheckpointInv, TypeOK
  <2>3. c # NoBlock
    BY CheckpointTree, Zenon DEF CheckpointTree
  <2> QED BY <1>3, <2>1, <2>2, <2>3, AdoptSound, Zenon
<1> QED BY <1>1, <1>2, <1>3, Zenon

(* Relaying a checkpoint puts it, and nothing else, on the wire.           *)
LEMMA RelaySound ==
  ASSUME NEW S, queue \in [Nodes -> [Nodes -> Seq(S)]], NEW n \in Nodes, NEW c \in S, RelayTo(n, c)
  PROVE  queue' \in [Nodes -> [Nodes -> Seq(S)]]
<1>1. \A m \in Nodes : Append(queue[n][m], c) \in Seq(S)
  OBVIOUS
<1> QED BY <1>1, Zenon DEF RelayTo

(* A look at the pending checkpoint of n, the index of n having grown.     *)
LEMMA PendingSound ==
  ASSUME CheckpointInv, NEW n \in Nodes, NEW index, index \subseteq Blocks,
         mapBlockIndex[n] \subseteq index, mapBlockIndex' = [mapBlockIndex EXCEPT ![n] = index],
         UNCHANGED relaying, AcceptPendingSyncCheckpoint(n, index)
  PROVE  Kept' /\ Lineage' /\ NoFalseAlarm' /\ Wire'
<1> DEFINE c == hashPendingCheckpoint[n]
           msg == checkpointMessagePending[n]
<1>0. NoBlock \notin index
  BY CheckpointTree, Zenon DEF CheckpointTree
<1>1. CASE c \notin index
  <2>1. UNCHANGED <<syncVars, netVars>>
    BY <1>1, Zenon DEF AcceptPendingSyncCheckpoint
  <2>2. Sent' = Sent
    BY <2>1, Zenon DEF Sent, syncVars
  <2>3. Kept'
    BY <2>1, Zenon DEF CheckpointInv, TypeOK, Kept, SyncAccepted, MessageCurrent, syncVars
  <2> QED BY <2>1, <2>2, <2>3, Zenon DEF CheckpointInv, Lineage, NoFalseAlarm, Wire, syncVars, netVars
<1>2. CASE c \in index /\ ~ ValidateSyncCheckpoint(n, c, index)
  <2>1. /\ MarkConflict(n, c, index)
        /\ hashPendingCheckpoint' = [hashPendingCheckpoint EXCEPT ![n] = NoBlock]
        /\ checkpointMessagePending' = [checkpointMessagePending EXCEPT ![n] = NoBlock]
        /\ UNCHANGED <<hashSyncCheckpoint, checkpointMessage, queue>>
    BY <1>2, Zenon DEF AcceptPendingSyncCheckpoint, netVars
  <2>2. NoFalseAlarm'
    <3>1. c \in Blocks /\ (n # Master => c \in Sent \cup {Hardened})
      BY <1>0, <1>2, Zenon DEF CheckpointInv, Lineage
    <3> HIDE DEF c
    <3> QED BY <2>1, <3>1, MarkSound, Zenon
  <2>3. Sent' = Sent
    BY <2>1, Zenon DEF Sent
  <2>4. Lineage'
    BY <2>1, <2>3, Zenon DEF CheckpointInv, Lineage, TypeOK
  <2>5. Kept'
    BY <2>1, Zenon DEF CheckpointInv, Kept, SyncAccepted, MessageCurrent, TypeOK
  <2> QED BY <2>1, <2>2, <2>3, <2>4, <2>5, Zenon DEF CheckpointInv, Wire
<1>3. CASE c \in index /\ ValidateSyncCheckpoint(n, c, index)
  <2>1. Adopt(n, c, msg) /\ (IF msg = NoBlock THEN UNCHANGED netVars ELSE RelayTo(n, msg))
    BY <1>3, Zenon DEF AcceptPendingSyncCheckpoint
  <2>2. /\ c \in Blocks /\ msg \in {NoBlock, c}
        /\ n # Master => c \in Sent \cup {Hardened} /\ msg \in Sent \cup {NoBlock}
    BY <1>0, <1>3, Zenon DEF CheckpointInv, Kept, Lineage
  <2> HIDE DEF c, msg
  <2>3. Kept' /\ Lineage' /\ NoFalseAlarm' /\ Sent \subseteq Sent' /\ msg \in Sent' \cup {NoBlock}
    BY <1>3, <2>1, <2>2, AdoptSound, Zenon
  <2>4. queue \in [Nodes -> [Nodes -> Seq(Sent')]]
    BY <2>3, WireGrows, Zenon DEF CheckpointInv, Wire
  <2>5. Wire'
    BY <2>1, <2>3, <2>4, RelaySound, Zenon DEF Wire, netVars
  <2> QED BY <2>3, <2>5, Zenon
<1> QED BY <1>1, <1>2, <1>3, Zenon
-----------------------------------------------------------------------------
(* Processing a checkpoint, or looking at the pending one, keeps the types *)
(* and the checkpoint of a node among its blocks, wherever the checkpoint  *)
(* came from.                                                              *)
LEMMA ProcessKept ==
  ASSUME TypeOK, Kept, NEW n \in Nodes, NEW c \in Blocks, ProcessSyncCheckpoint(n, c),
         UNCHANGED <<mapBlockIndex, received, restarts, reconnects>>,
         chainTip' \in Blocks, activating' \in BOOLEAN,
         hashCheckpointKnown' = hashCheckpointKnown,
         queue' \in [Nodes -> [Nodes -> Seq(Blocks)]]
  PROVE  TypeOK' /\ Kept'
<1>1. CASE c \notin mapBlockIndex[n]
  <2>1. /\ UNCHANGED <<hashSyncCheckpoint, hashInvalidCheckpoint, checkpointMessage, relaying>>
        /\ hashPendingCheckpoint' = [hashPendingCheckpoint EXCEPT ![n] = c]
        /\ checkpointMessagePending' = [checkpointMessagePending EXCEPT ![n] = c]
    BY <1>1, Zenon DEF ProcessSyncCheckpoint
  <2> QED BY <2>1, Zenon DEF TypeOK, Kept, SyncAccepted, MessageCurrent
<1>2. CASE c \in mapBlockIndex[n] /\ ~ ValidateSyncCheckpoint(n, c, mapBlockIndex[n])
  <2>1. /\ UNCHANGED <<hashSyncCheckpoint, checkpointMessage, hashPendingCheckpoint>>
        /\ UNCHANGED <<checkpointMessagePending, relaying>>
        /\ MarkConflict(n, c, mapBlockIndex[n])
    BY <1>2, Zenon DEF ProcessSyncCheckpoint, Refuse
  <2> QED BY <2>1, Zenon DEF TypeOK, Kept, SyncAccepted, MessageCurrent, MarkConflict
<1>3. CASE c \in mapBlockIndex[n] /\ ValidateSyncCheckpoint(n, c, mapBlockIndex[n])
  <2>1. Adopt(n, c, c) /\ relaying' = [relaying EXCEPT ![n] = @ \cup {c}]
    BY <1>3, Zenon DEF ProcessSyncCheckpoint
  <2>2. TypeOK'
    BY <2>1, Zenon DEF TypeOK, Adopt
  <2>3. Kept'
    BY <1>3, <2>1, Zenon DEF TypeOK, Kept, SyncAccepted, MessageCurrent, Adopt
  <2> QED BY <2>2, <2>3, Zenon
<1> QED BY <1>1, <1>2, <1>3, Zenon

(* Relaying a message keeps the wires typed. *)
LEMMA RelayTypes ==
  ASSUME TypeOK, NEW n \in Nodes, NEW c \in Blocks, RelayTo(n, c)
  PROVE  /\ queue' \in [Nodes -> [Nodes -> Seq(Blocks)]]
         /\ hashCheckpointKnown' \in [Nodes -> [Nodes -> Blocks \cup {NoBlock}]]
<1>1. queue' \in [Nodes -> [Nodes -> Seq(Blocks)]]
  BY RelaySound, Zenon DEF TypeOK
<1>2. hashCheckpointKnown' \in [Nodes -> [Nodes -> Blocks \cup {NoBlock}]]
  BY Zenon DEF TypeOK, RelayTo
<1> QED BY <1>1, <1>2, Zenon

(* The messages of a handshake keep the wires typed. *)
LEMMA HandshakeTypes ==
  ASSUME TypeOK, NEW S, NEW links, NEW msg \in [Nodes -> S \cup {NoBlock}], NoBlock \notin S,
         queue \in [Nodes -> [Nodes -> Seq(S)]], S \subseteq Blocks, Handshake(links, msg)
  PROVE  /\ queue' \in [Nodes -> [Nodes -> Seq(S)]]
         /\ hashCheckpointKnown' \in [Nodes -> [Nodes -> Blocks \cup {NoBlock}]]
<1>1. \A n \in Nodes : msg[n] # NoBlock => <<msg[n]>> \in Seq(S)
  OBVIOUS
<1>2. \A n, m \in Nodes : queue[n][m] \in Seq(S) /\ <<>> \in Seq(S)
  OBVIOUS
<1>3. queue' \in [Nodes -> [Nodes -> Seq(S)]]
  BY <1>1, <1>2, Zenon DEF Handshake
<1>4. hashCheckpointKnown' \in [Nodes -> [Nodes -> Blocks \cup {NoBlock}]]
  BY Zenon DEF Handshake, TypeOK
<1> QED BY <1>3, <1>4, Zenon

(* AcceptBlock, and the pending checkpoint it may adopt, keep the node sound. *)
LEMMA PendingKept ==
  ASSUME TypeOK, Kept, NEW n \in Nodes, NEW b \in Blocks, AcceptBlock(n, b)
  PROVE  TypeOK' /\ Kept'
<1> DEFINE index == mapBlockIndex[n] \cup {b}
           c == hashPendingCheckpoint[n]
           msg == checkpointMessagePending[n]
<1>1. /\ mapBlockIndex' = [mapBlockIndex EXCEPT ![n] = index]
      /\ mapBlockIndex' \in [Nodes -> SUBSET Blocks] /\ received' \in [Nodes -> SUBSET Blocks]
      /\ UNCHANGED <<chainTip, relaying, restarts, reconnects>> /\ activating' \in BOOLEAN
      /\ AcceptPendingSyncCheckpoint(n, index) /\ index \subseteq Blocks
      /\ mapBlockIndex[n] \subseteq index
  BY Zenon DEF AcceptBlock, TypeOK, boundVars
<1> HIDE DEF index
<1>2. CASE c \notin index
  <2>1. UNCHANGED <<syncVars, netVars>>
    BY <1>2 , <1>1, Zenon DEF AcceptPendingSyncCheckpoint
  <2> QED BY <1>1, <2>1, Zenon DEF TypeOK, Kept, SyncAccepted, MessageCurrent, syncVars, netVars
<1>3. CASE c \in index /\ ~ ValidateSyncCheckpoint(n, c, index)
  <2>1. /\ MarkConflict(n, c, index)
        /\ hashPendingCheckpoint' = [hashPendingCheckpoint EXCEPT ![n] = NoBlock]
        /\ checkpointMessagePending' = [checkpointMessagePending EXCEPT ![n] = NoBlock]
        /\ UNCHANGED <<hashSyncCheckpoint, checkpointMessage, netVars>>
    BY <1>1, <1>3, Zenon DEF AcceptPendingSyncCheckpoint
  <2> QED BY <1>1, <1>3, <2>1, Zenon DEF TypeOK, Kept, SyncAccepted, MessageCurrent, MarkConflict, netVars
<1>4. CASE c \in index /\ ValidateSyncCheckpoint(n, c, index)
  <2>1. Adopt(n, c, msg) /\ (IF msg = NoBlock THEN UNCHANGED netVars ELSE RelayTo(n, msg))
    BY <1>1, <1>4, Zenon DEF AcceptPendingSyncCheckpoint
  <2>2. msg \in {NoBlock, c} /\ c \in Blocks
    BY <1>1, <1>4, Zenon DEF Kept
  <2>3. /\ queue' \in [Nodes -> [Nodes -> Seq(Blocks)]]
        /\ hashCheckpointKnown' \in [Nodes -> [Nodes -> Blocks \cup {NoBlock}]]
    <3> HIDE DEF c, msg
    <3> QED BY <2>1, <2>2, RelayTypes, Zenon DEF TypeOK, netVars
  <2>4. TypeOK'
    BY <1>1, <2>1, <2>2, <2>3, Zenon DEF TypeOK, Adopt
  <2>5. Kept'
    BY <1>1, <1>4, <2>1, <2>2, Zenon DEF TypeOK, Kept, SyncAccepted, MessageCurrent, Adopt
  <2> QED BY <2>4, <2>5, Zenon
<1> QED BY <1>2, <1>3, <1>4, Zenon

(* Every step keeps the types and each node's checkpoint among its blocks. *)
LEMMA KeptStep == TypeOK /\ Kept /\ [Next]_vars => TypeOK' /\ Kept'
<1> SUFFICES ASSUME TypeOK, Kept, [Next]_vars PROVE TypeOK' /\ Kept'
  BY Zenon
<1>0. /\ NoBlock \notin Blocks /\ Genesis \in Blocks /\ Master \in Nodes /\ Commands \subseteq Blocks
      /\ Anc \in [Blocks -> SUBSET Blocks]
  BY CheckpointTree, CheckpointEnvironment, Zenon DEF CheckpointTree, CheckpointEnvironment
<1>1. ASSUME NEW n \in Nodes, NEW m \in Nodes, ReceiveCheckpoint(m, n) PROVE TypeOK' /\ Kept'
  <2>1. Head(queue[m][n]) \in Blocks /\ Tail(queue[m][n]) \in Seq(Blocks)
    BY <1>1 DEF ReceiveCheckpoint, TypeOK
  <2>2. queue' \in [Nodes -> [Nodes -> Seq(Blocks)]]
    BY <1>1, <2>1, Zenon DEF ReceiveCheckpoint, TypeOK
  <2>3. /\ UNCHANGED <<mapBlockIndex, received, restarts, reconnects, hashCheckpointKnown>>
        /\ chainTip' \in Blocks /\ activating' \in BOOLEAN
        /\ ProcessSyncCheckpoint(n, Head(queue[m][n]))
    BY <1>1, Zenon DEF ReceiveCheckpoint, TypeOK, chainVars, boundVars
  <2> QED BY <2>1, <2>2, <2>3, ProcessKept, Zenon
<1>2. ASSUME NEW n \in Nodes, NEW b \in Blocks, AcceptBlockHeader(n, b) PROVE TypeOK' /\ Kept'
  BY <1>2, Zenon DEF AcceptBlockHeader, TypeOK, Kept, SyncAccepted, MessageCurrent,
              syncVars, netVars, boundVars
<1>3. ASSUME NEW n \in Nodes, NEW b \in Blocks, AcceptBlock(n, b) PROVE TypeOK' /\ Kept'
  BY <1>3, PendingKept, Zenon
<1>4. ASSUME ActivateAndSend PROVE TypeOK' /\ Kept'
  <2>1. PICK tip \in received[Master] :
          /\ chainTip' = tip
          /\ \E c \in Anc[tip] : ProcessSyncCheckpoint(Master, c)
    BY <1>4, Zenon DEF ActivateAndSend
  <2>2. tip \in Blocks /\ Anc[tip] \subseteq Blocks
    BY <1>0, Zenon DEF TypeOK
  <2>3. PICK c \in Blocks : ProcessSyncCheckpoint(Master, c)
    BY <2>1, <2>2, Zenon
  <2>4. /\ UNCHANGED <<mapBlockIndex, received, restarts, reconnects, hashCheckpointKnown>>
        /\ chainTip' \in Blocks /\ activating' \in BOOLEAN
        /\ queue' \in [Nodes -> [Nodes -> Seq(Blocks)]]
    BY <1>4, <2>1, <2>2, Zenon DEF ActivateAndSend, TypeOK, netVars, boundVars
  <2> QED BY <1>0, <2>3, <2>4, ProcessKept, Zenon
<1>5. ASSUME NEW n \in Nodes, NEW c \in Blocks, Relay(n, c) PROVE TypeOK' /\ Kept'
  <2>1. /\ queue' \in [Nodes -> [Nodes -> Seq(Blocks)]]
        /\ hashCheckpointKnown' \in [Nodes -> [Nodes -> Blocks \cup {NoBlock}]]
    BY <1>5, RelayTypes, Zenon DEF Relay
  <2>2. /\ UNCHANGED <<chainVars, syncVars, boundVars>>
        /\ relaying' = [relaying EXCEPT ![n] = @ \ {c}]
    BY <1>5, Zenon DEF Relay
  <2> QED BY <2>1, <2>2, Zenon
          DEF TypeOK, Kept, SyncAccepted, MessageCurrent, chainVars, syncVars, boundVars
<1>6. ASSUME NEW c \in Commands, SendSyncCheckpoint(c) PROVE TypeOK' /\ Kept'
  <2>1. /\ UNCHANGED <<mapBlockIndex, received, restarts, reconnects, hashCheckpointKnown>>
        /\ chainTip' \in Blocks /\ activating' \in BOOLEAN
        /\ queue' \in [Nodes -> [Nodes -> Seq(Blocks)]]
        /\ ProcessSyncCheckpoint(Master, c)
    BY <1>6, Zenon DEF SendSyncCheckpoint, TypeOK, chainVars, netVars, boundVars
  <2> QED BY <1>0, <2>1, ProcessKept, Zenon
<1>7. ASSUME NEW n \in Nodes, Restart(n) PROVE TypeOK' /\ Kept'
  <2>1. PICK index \in Flushed(n) :
          /\ mapBlockIndex' = [mapBlockIndex EXCEPT ![n] = index]
          /\ received' = [received EXCEPT ![n] = @ \cap index]
          /\ IF n = Master THEN \E tip \in received[n] \cap index : chainTip' = tip
             ELSE UNCHANGED chainTip
    BY <1>7, Zenon DEF Restart
  <2>2. index \subseteq Blocks /\ Genesis \in index
    BY Zenon DEF Flushed, TypeOK
  <2>3. mapBlockIndex' \in [Nodes -> SUBSET Blocks] /\ received' \in [Nodes -> SUBSET Blocks]
    BY <2>1, <2>2, Zenon DEF TypeOK
  <2>4. chainTip' \in Blocks /\ activating' \in BOOLEAN
    <3>1. chainTip' \in Blocks
      BY <2>1, Zenon DEF TypeOK
    <3>2. activating' \in BOOLEAN
      BY <1>7, Zenon DEF Restart
    <3> QED BY <3>1, <3>2, Zenon
  <2>5. /\ hashSyncCheckpoint' = [hashSyncCheckpoint EXCEPT ![n] = Genesis]
        /\ hashPendingCheckpoint' = [hashPendingCheckpoint EXCEPT ![n] = NoBlock]
        /\ hashInvalidCheckpoint' = [hashInvalidCheckpoint EXCEPT ![n] = NoBlock]
        /\ checkpointMessage' = [checkpointMessage EXCEPT ![n] = NoBlock]
        /\ checkpointMessagePending' = [checkpointMessagePending EXCEPT ![n] = NoBlock]
        /\ relaying' = [relaying EXCEPT ![n] = {}]
        /\ restarts' = restarts + 1 /\ UNCHANGED reconnects
    BY <1>7, Zenon DEF Restart, SyncAtStart
  <2>6. checkpointMessage' \in [Nodes -> Blocks \cup {NoBlock}]
    BY <2>5, Zenon DEF TypeOK
  <2>7. PICK links : Handshake(links, checkpointMessage')
    BY <1>7, Zenon DEF Restart
  <2>8. /\ queue' \in [Nodes -> [Nodes -> Seq(Blocks)]]
        /\ hashCheckpointKnown' \in [Nodes -> [Nodes -> Blocks \cup {NoBlock}]]
    BY <1>0, <2>6, <2>7, HandshakeTypes, Zenon DEF TypeOK
  <2>9. TypeOK'
    <3>1. hashSyncCheckpoint' \in [Nodes -> Blocks] /\ relaying' \in [Nodes -> SUBSET Blocks]
      BY <1>0, <2>5, Zenon DEF TypeOK
    <3>2. /\ hashPendingCheckpoint' \in [Nodes -> Blocks \cup {NoBlock}]
          /\ hashInvalidCheckpoint' \in [Nodes -> Blocks \cup {NoBlock}]
          /\ checkpointMessagePending' \in [Nodes -> Blocks \cup {NoBlock}]
      BY <2>5, Zenon DEF TypeOK
    <3>3. restarts' \in Nat /\ reconnects' \in Nat
      BY <2>5 DEF TypeOK
    <3> QED BY <2>3, <2>4, <2>6, <2>8, <3>1, <3>2, <3>3, Zenon DEF TypeOK
  <2>10. Kept'
    BY <1>0, <2>1, <2>2, <2>5, Zenon DEF TypeOK, Kept, SyncAccepted, MessageCurrent
  <2> QED BY <2>9, <2>10, Zenon
<1>8. ASSUME NEW n \in Nodes, NEW m \in Nodes, Reconnect(n, m) PROVE TypeOK' /\ Kept'
  <2>1. /\ UNCHANGED <<chainVars, syncVars, relaying, restarts>> /\ reconnects' \in Nat
        /\ Handshake({<<n, m>>, <<m, n>>}, checkpointMessage)
    BY <1>8 DEF Reconnect, TypeOK
  <2>2. /\ queue' \in [Nodes -> [Nodes -> Seq(Blocks)]]
        /\ hashCheckpointKnown' \in [Nodes -> [Nodes -> Blocks \cup {NoBlock}]]
    BY <1>0, <2>1, HandshakeTypes, Zenon DEF TypeOK
  <2> QED BY <2>1, <2>2, Zenon DEF TypeOK, Kept, SyncAccepted, MessageCurrent, chainVars, syncVars
<1>9. ASSUME UNCHANGED vars PROVE TypeOK' /\ Kept'
  BY <1>9, Zenon DEF vars, chainVars, syncVars, netVars, boundVars,
              TypeOK, Kept, SyncAccepted, MessageCurrent
<1> QED BY <1>1, <1>2, <1>3, <1>4, <1>5, <1>6, <1>7, <1>8, <1>9, Zenon DEF Next, Deliver, Learn, Resume

(* Every step keeps the invariant while the Master does not restart.       *)
LEMMA CheckpointStep ==
  ASSUME Master \notin Restarting
  PROVE  CheckpointInv /\ [Next]_vars => CheckpointInv'
<1> SUFFICES ASSUME CheckpointInv, [Next]_vars PROVE CheckpointInv'
  BY Zenon
<1>0. /\ NoBlock \notin Blocks /\ Genesis \in Blocks /\ Master \in Nodes /\ Commands \subseteq Blocks
      /\ Sent \subseteq Blocks /\ Genesis \in Sent /\ NoBlock \notin Sent
  <2>1. /\ NoBlock \notin Blocks /\ Genesis \in Blocks /\ Anc \in [Blocks -> SUBSET Blocks]
        /\ \A b \in Blocks : Genesis \in Anc[b]
    BY CheckpointTree, Zenon DEF CheckpointTree
  <2>2. Master \in Nodes /\ Commands \subseteq Blocks
    BY CheckpointEnvironment, Zenon DEF CheckpointEnvironment
  <2>3. hashSyncCheckpoint[Master] \in Blocks
    BY <2>2, Zenon DEF CheckpointInv, TypeOK
  <2> QED BY <2>1, <2>2, <2>3, Zenon DEF Sent
<1>k. TypeOK' /\ Kept'
  BY KeptStep, Zenon DEF CheckpointInv
<1> SUFFICES Lineage' /\ Wire' /\ NoFalseAlarm'
  BY <1>k, Zenon DEF CheckpointInv
<1>1. ASSUME NEW n \in Nodes, NEW m \in Nodes, ReceiveCheckpoint(m, n)
      PROVE  Lineage' /\ Wire' /\ NoFalseAlarm'
  <2>1. Head(queue[m][n]) \in Sent /\ Tail(queue[m][n]) \in Seq(Sent)
    BY <1>1 DEF ReceiveCheckpoint, CheckpointInv, Wire
  <2>2. [queue EXCEPT ![m][n] = Tail(queue[m][n])] \in [Nodes -> [Nodes -> Seq(Sent)]]
    BY <2>1, Zenon DEF CheckpointInv, Wire
  <2>3. ProcessSyncCheckpoint(n, Head(queue[m][n])) /\ UNCHANGED mapBlockIndex
    BY <1>1, Zenon DEF ReceiveCheckpoint, chainVars
  <2>4. Lineage' /\ NoFalseAlarm' /\ Sent \subseteq Sent'
    BY <1>0, <2>1, <2>3, ProcessSound, Zenon
  <2>5. Wire'
    BY <1>1, <2>2, <2>4, WireGrows DEF Wire, ReceiveCheckpoint
  <2> QED BY <2>4, <2>5, Zenon
<1>2. ASSUME NEW n \in Nodes, NEW b \in Blocks, AcceptBlockHeader(n, b)
      PROVE  Lineage' /\ Wire' /\ NoFalseAlarm'
  <2>1. UNCHANGED <<syncVars, netVars, relaying>>
    BY <1>2, Zenon DEF AcceptBlockHeader
  <2> QED BY <2>1, Zenon DEF CheckpointInv, Lineage, Wire, NoFalseAlarm, Sent, syncVars, netVars
<1>3. ASSUME NEW n \in Nodes, NEW b \in Blocks, AcceptBlock(n, b)
      PROVE  Lineage' /\ Wire' /\ NoFalseAlarm'
  <2> DEFINE index == mapBlockIndex[n] \cup {b}
  <2>1. /\ mapBlockIndex' = [mapBlockIndex EXCEPT ![n] = index]
        /\ mapBlockIndex[n] \subseteq index /\ index \subseteq Blocks
        /\ UNCHANGED relaying /\ AcceptPendingSyncCheckpoint(n, index)
    BY <1>3, Zenon DEF AcceptBlock, CheckpointInv, TypeOK
  <2> HIDE DEF index
  <2> QED BY <2>1, PendingSound, Zenon
<1>4. ASSUME NEW c \in Blocks, ProcessSyncCheckpoint(Master, c), UNCHANGED <<mapBlockIndex, netVars>>
      PROVE  Lineage' /\ Wire' /\ NoFalseAlarm'
  <2>1. Lineage' /\ NoFalseAlarm' /\ Sent \subseteq Sent'
    BY <1>0, <1>4, ProcessSound, Zenon
  <2>2. Wire'
    BY <1>4, <2>1, WireGrows, Zenon DEF CheckpointInv, Wire, netVars
  <2> QED BY <2>1, <2>2, Zenon
<1>5. ASSUME ActivateAndSend PROVE Lineage' /\ Wire' /\ NoFalseAlarm'
  <2>1. PICK tip \in received[Master] : \E c \in Anc[tip] : ProcessSyncCheckpoint(Master, c)
    BY <1>5, Zenon DEF ActivateAndSend
  <2>2. Anc[tip] \subseteq Blocks
    BY <1>0, CheckpointTree, ZenonT(40) DEF CheckpointTree, CheckpointInv, TypeOK
  <2> QED BY <1>4, <1>5, <2>1, <2>2, Zenon DEF ActivateAndSend
<1>6. ASSUME NEW n \in Nodes, NEW c \in Blocks, Relay(n, c)
      PROVE  Lineage' /\ Wire' /\ NoFalseAlarm'
  <2>1. /\ UNCHANGED syncVars /\ RelayTo(n, c) /\ c \in Sent
        /\ relaying' = [relaying EXCEPT ![n] = @ \ {c}]
    BY <1>6, Zenon DEF Relay, CheckpointInv, Lineage
  <2>2. Sent' = Sent
    BY <2>1, Zenon DEF Sent, syncVars
  <2>3. Wire'
    BY <2>1, <2>2, RelaySound, Zenon DEF CheckpointInv, Wire
  <2> QED BY <2>1, <2>2, <2>3, Zenon DEF CheckpointInv, TypeOK, Lineage, NoFalseAlarm, syncVars
<1>7. ASSUME NEW c \in Commands, SendSyncCheckpoint(c) PROVE Lineage' /\ Wire' /\ NoFalseAlarm'
  <2>1. ProcessSyncCheckpoint(Master, c) /\ UNCHANGED <<mapBlockIndex, netVars>> /\ c \in Blocks
    BY <1>0, <1>7, Zenon DEF SendSyncCheckpoint, chainVars
  <2> QED BY <1>4, <2>1, Zenon
<1>8. ASSUME NEW n \in Nodes, Restart(n) PROVE Lineage' /\ Wire' /\ NoFalseAlarm'
  <2>1. /\ hashSyncCheckpoint' = [hashSyncCheckpoint EXCEPT ![n] = Genesis]
        /\ hashPendingCheckpoint' = [hashPendingCheckpoint EXCEPT ![n] = NoBlock]
        /\ hashInvalidCheckpoint' = [hashInvalidCheckpoint EXCEPT ![n] = NoBlock]
        /\ checkpointMessage' = [checkpointMessage EXCEPT ![n] = NoBlock]
        /\ checkpointMessagePending' = [checkpointMessagePending EXCEPT ![n] = NoBlock]
        /\ relaying' = [relaying EXCEPT ![n] = {}]
        /\ n # Master
    BY <1>8, Zenon DEF Restart, SyncAtStart
  <2>2. PICK links : Handshake(links, checkpointMessage')
    BY <1>8, Zenon DEF Restart
  <2>3. Sent' = Sent
    BY <1>0, <2>1, Zenon DEF Sent, CheckpointInv, TypeOK
  <2>4. Lineage'
    BY <1>0, <2>1, <2>3, Zenon DEF CheckpointInv, TypeOK, Lineage
  <2>5. checkpointMessage' \in [Nodes -> Sent \cup {NoBlock}]
    BY <2>1, Zenon DEF CheckpointInv, TypeOK, Lineage
  <2>6. Wire'
    BY <1>0, <2>2, <2>3, <2>5, HandshakeTypes, Zenon DEF CheckpointInv, Wire
  <2> QED BY <2>1, <2>4, <2>6, Zenon DEF CheckpointInv, TypeOK, NoFalseAlarm
<1>9. ASSUME NEW n \in Nodes, NEW m \in Nodes, Reconnect(n, m)
      PROVE  Lineage' /\ Wire' /\ NoFalseAlarm'
  <2>1. /\ UNCHANGED <<syncVars, relaying>>
        /\ Handshake({<<n, m>>, <<m, n>>}, checkpointMessage)
    BY <1>9, Zenon DEF Reconnect
  <2>2. Sent' = Sent
    BY <2>1, Zenon DEF Sent, syncVars
  <2>3. checkpointMessage \in [Nodes -> Sent \cup {NoBlock}]
    BY Zenon DEF CheckpointInv, TypeOK, Lineage
  <2>4. Wire'
    BY <1>0, <2>1, <2>2, <2>3, HandshakeTypes, Zenon DEF CheckpointInv, Wire
  <2> QED BY <2>1, <2>2, <2>4, Zenon DEF CheckpointInv, Lineage, NoFalseAlarm, syncVars
<1>10. ASSUME UNCHANGED vars PROVE Lineage' /\ Wire' /\ NoFalseAlarm'
  BY <1>10, Zenon DEF vars, syncVars, netVars, CheckpointInv, Lineage, Wire, NoFalseAlarm, Sent
<1> QED BY <1>1, <1>2, <1>3, <1>5, <1>6, <1>7, <1>8, <1>9, <1>10, Zenon DEF Next, Deliver, Learn, Resume

(* Every initial state satisfies the invariant. *)
LEMMA CheckpointInit == Init => CheckpointInv
<1> SUFFICES ASSUME Init PROVE CheckpointInv
  BY Zenon
<1>0. Genesis \in Blocks /\ Hardened \in Blocks /\ Master \in Nodes /\ Genesis \in Anc[Genesis]
  BY CheckpointTree, CheckpointEnvironment, Zenon DEF CheckpointTree, CheckpointEnvironment
<1>1. TypeOK
  <2>1. queue \in [Nodes -> [Nodes -> Seq(Blocks)]]
    BY DEF Init
  <2>2. /\ mapBlockIndex \in [Nodes -> SUBSET Blocks] /\ received \in [Nodes -> SUBSET Blocks]
        /\ relaying \in [Nodes -> SUBSET Blocks]
    BY <1>0, Zenon DEF Init
  <2>3. /\ hashSyncCheckpoint \in [Nodes -> Blocks]
        /\ hashPendingCheckpoint \in [Nodes -> Blocks \cup {NoBlock}]
    BY <1>0, Zenon DEF Init
  <2>4. /\ hashInvalidCheckpoint \in [Nodes -> Blocks \cup {NoBlock}]
        /\ checkpointMessage \in [Nodes -> Blocks \cup {NoBlock}]
        /\ checkpointMessagePending \in [Nodes -> Blocks \cup {NoBlock}]
        /\ hashCheckpointKnown \in [Nodes -> [Nodes -> Blocks \cup {NoBlock}]]
    BY Zenon DEF Init
  <2>5. chainTip \in Blocks /\ activating \in BOOLEAN /\ restarts \in Nat /\ reconnects \in Nat
    BY <1>0, Zenon DEF Init
  <2> QED BY <2>1, <2>2, <2>3, <2>4, <2>5, Zenon DEF TypeOK
<1>2. Kept /\ NoFalseAlarm
  BY Zenon DEF Init, Kept, SyncAccepted, MessageCurrent, NoFalseAlarm
<1>3. Sent = Anc[Genesis]
  BY <1>0, Zenon DEF Init, Sent
<1>4. Wire
  BY DEF Init, Wire
<1>5. Lineage
  BY <1>0, <1>3, Zenon DEF Init, Lineage
<1> QED BY <1>1, <1>2, <1>4, <1>5, Zenon DEF CheckpointInv

(* CheckpointInv has the nodes' checkpoints on one chain.                  *)
LEMMA CheckpointInvChain == CheckpointInv => OneCheckpointChain
<1> SUFFICES ASSUME CheckpointInv PROVE OneCheckpointChain
  BY Zenon
<1>1. hashSyncCheckpoint[Master] \in Blocks
  BY CheckpointEnvironment, Zenon DEF CheckpointEnvironment, CheckpointInv, TypeOK
<1>2. Chains(Sent \cup Anc[Hardened], Sent \cup Anc[Hardened])
  BY <1>1, OneChain, Zenon DEF Sent
<1> QED BY <1>2, Zenon DEF CheckpointInv, Lineage, Chains, OneCheckpointChain
-----------------------------------------------------------------------------
(* The synchronized checkpoint of a node is a block it has accepted, as    *)
(* IsSyncCheckpointTooOld asserts, and the message it hands to a new peer  *)
(* names that checkpoint: through every restart, the Master's included.    *)
THEOREM AcceptedSound == Spec => [](TypeOK /\ SyncAccepted /\ MessageCurrent)
<1>1. Init => TypeOK /\ Kept
  BY CheckpointInit, Zenon DEF CheckpointInv
<1>2. TypeOK /\ Kept => TypeOK /\ SyncAccepted /\ MessageCurrent
  BY Zenon DEF Kept
<1> QED BY <1>1, <1>2, KeptStep, PTL DEF Spec

(* While the Master keeps running, the checkpoints of all nodes lie on one *)
(* chain: ValidateSyncCheckpoint, applied at every node to messages that   *)
(* come late, repeated or out of order, never lets two nodes enforce       *)
(* different branches.                                                     *)
THEOREM ChainSound ==
  ASSUME Master \notin Restarting
  PROVE  Spec => []OneCheckpointChain
<1>1. CheckpointInv /\ [Next]_vars => CheckpointInv'
  BY CheckpointStep, Zenon
<1> QED BY <1>1, CheckpointInit, CheckpointInvChain, PTL DEF Spec

(* ... and no node but the Master records an invalid checkpoint, so none   *)
(* raises the warning that follows one.                                    *)
THEOREM AlarmSound ==
  ASSUME Master \notin Restarting
  PROVE  Spec => []NoFalseAlarm
<1>1. CheckpointInv /\ [Next]_vars => CheckpointInv'
  BY CheckpointStep, Zenon
<1>2. CheckpointInv => NoFalseAlarm
  BY Zenon DEF CheckpointInv
<1> QED BY <1>1, <1>2, CheckpointInit, PTL DEF Spec
=============================================================================
