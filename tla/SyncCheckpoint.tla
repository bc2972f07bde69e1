--------------------------- MODULE SyncCheckpoint ---------------------------
(***************************************************************************)
(* Synchronized checkpoints: src/src/checkpointsync.cpp and its callers.   *)
(* One node, Master, holds the checkpoint key; it signs a block of its     *)
(* active chain and every node relays the message to its peers.            *)
(*                                                                         *)
(* A message is the block it names (the signature is always the Master's). *)
(* A pair of connected nodes has a queue of messages in each direction.    *)
(* The chain state of a node is abstracted to the blocks it has indexed    *)
(* (mapBlockIndex), the blocks it has stored (received) and, at the        *)
(* Master, the tip of its active chain.  AskForPendingSyncCheckpoint asks  *)
(* a peer for a block; since blocks come in any order here, it has no      *)
(* action of its own.  The exchange of VERSION and VERACK that opens a     *)
(* connection is one step here; the module Alerts has its two halves.      *)
(*                                                                         *)
(* A definition D_x placed before D is D with a plausible defect: it is    *)
(* not part of the specification, and shows which property would notice.   *)
(***************************************************************************)
EXTENDS Integers, Sequences

CONSTANTS
  Blocks, Genesis,
  NoBlock,           \* the zero hash, and a null message
  Parent, Anc, Height,
  Nodes, Master,     \* Master is started with -checkpointkey
  checkpointdepth,   \* -checkpointdepth of the Master
  Hardened,          \* Checkpoints::GetLatestHardenedCheckpoint()
  Commands,          \* the blocks the Master's operator may send
  Restarting,        \* the nodes that may be killed
  MaxRestarts,       \* bound on restarts
  MaxReconnects      \* bound on lost connections

ASSUME CheckpointTree ==
  /\ Genesis \in Blocks /\ NoBlock \notin Blocks
  /\ Parent \in [Blocks -> Blocks \cup {NoBlock}]
  /\ Anc \in [Blocks -> SUBSET Blocks]
  /\ Height \in [Blocks -> Nat]
  /\ \A b \in Blocks : b \in Anc[b] /\ Genesis \in Anc[b]
  /\ \A b \in Blocks : \A a \in Anc[b] : Anc[a] \subseteq Anc[b]
  /\ \A b \in Blocks : \A x, y \in Anc[b] : x \in Anc[y] \/ y \in Anc[x]
  /\ \A b \in Blocks : \A a \in Anc[b] : Height[a] <= Height[b]
  /\ \A b \in Blocks : \A a \in Anc[b] : Height[a] = Height[b] => a = b
  /\ \A b \in Blocks \ {Genesis} : Parent[b] \in Anc[b] /\ Anc[b] = {b} \cup Anc[Parent[b]]

(* A hardened checkpoint is below or above every block: forks below it are  *)
(* refused by ContextualCheckBlockHeader.                                   *)
ASSUME CheckpointEnvironment ==
  /\ Master \in Nodes /\ Commands \subseteq Blocks /\ Restarting \subseteq Nodes
  /\ Hardened \in Blocks
  /\ \A b \in Blocks : Hardened \in Anc[b] \/ b \in Anc[Hardened]
  /\ checkpointdepth \in Nat /\ MaxRestarts \in Nat /\ MaxReconnects \in Nat
-----------------------------------------------------------------------------
VARIABLES
  mapBlockIndex, received, chainTip,
  activating,                 \* the Master is in ProcessNewBlock, past AcceptBlock
  hashSyncCheckpoint, hashPendingCheckpoint, hashInvalidCheckpoint,
  checkpointMessage, checkpointMessagePending,
  hashCheckpointKnown,        \* hashCheckpointKnown[n][m]: last checkpoint n sent to m
  queue,                      \* queue[n][m]: messages from n that m has not read
  relaying,                   \* relaying[n]: checkpoints processed by n, not yet relayed
  restarts, reconnects

chainVars == <<mapBlockIndex, received, chainTip, activating>>
syncVars  == <<hashSyncCheckpoint, hashPendingCheckpoint, hashInvalidCheckpoint,
               checkpointMessage, checkpointMessagePending>>
netVars   == <<hashCheckpointKnown, queue>>
boundVars == <<restarts, reconnects>>
vars == <<chainVars, syncVars, netVars, relaying, boundVars>>
-----------------------------------------------------------------------------
(* ValidateSyncCheckpoint: only a descendant of the current checkpoint is   *)
(* allowed; a block that is neither that nor an ancestor conflicts.         *)
Newer_byHeight(n, c) == Height[c] > Height[hashSyncCheckpoint[n]]
Newer(n, c) ==
  Height[c] > Height[hashSyncCheckpoint[n]] /\ hashSyncCheckpoint[n] \in Anc[c]

Conflicting_older(n, c) == ~ Newer(n, c)
Conflicting(n, c) == ~ Newer(n, c) /\ c \notin Anc[hashSyncCheckpoint[n]]

(* The outcome of ValidateSyncCheckpoint for an indexed block c, once the   *)
(* blocks in index are known.                                               *)
ValidateSyncCheckpoint(n, c, index) == hashSyncCheckpoint[n] \in index /\ Newer(n, c)

MarkConflict(n, c, index) ==
  hashInvalidCheckpoint' =
    IF hashSyncCheckpoint[n] \in index /\ Conflicting(n, c)
      THEN [hashInvalidCheckpoint EXCEPT ![n] = c] ELSE hashInvalidCheckpoint

(* RelayTo every peer that n did not send c to last. *)
RelayTo(n, c) ==
  LET to == {m \in Nodes \ {n} : hashCheckpointKnown[n][m] # c}
  IN /\ hashCheckpointKnown' = [hashCheckpointKnown EXCEPT ![n] =
           [m \in Nodes |-> IF m \in to THEN c ELSE hashCheckpointKnown[n][m]]]
     /\ queue' = [queue EXCEPT ![n] =
           [m \in Nodes |-> IF m \in to THEN Append(queue[n][m], c) ELSE queue[n][m]]]

(* WriteSyncCheckpoint(c), and the messages and the pending checkpoint as   *)
(* both of its callers leave them; msg is the message that named c.         *)
Adopt(n, c, msg) ==
  /\ hashSyncCheckpoint' = [hashSyncCheckpoint EXCEPT ![n] = c]
  /\ checkpointMessage' = [checkpointMessage EXCEPT ![n] = msg]
  /\ hashPendingCheckpoint' = [hashPendingCheckpoint EXCEPT ![n] = NoBlock]
  /\ checkpointMessagePending' = [checkpointMessagePending EXCEPT ![n] = NoBlock]
  /\ UNCHANGED hashInvalidCheckpoint

(* A message that fails validation leaves the current one in place. *)
Refuse(n, c) ==
  /\ MarkConflict(n, c, mapBlockIndex[n])
  /\ UNCHANGED <<hashSyncCheckpoint, checkpointMessage>>

(* CSyncCheckpoint::ProcessSyncCheckpoint for the message of c: kept as     *)
(* pending, refused, or adopted.  Only in the last case does it return true *)
(* and its caller go on, without the lock, to relay c.                      *)
ProcessSyncCheckpoint(n, c) ==
  \/ /\ c \notin mapBlockIndex[n]
     /\ hashPendingCheckpoint' = [hashPendingCheckpoint EXCEPT ![n] = c]
     /\ checkpointMessagePending' = [checkpointMessagePending EXCEPT ![n] = c]
     /\ UNCHANGED <<hashSyncCheckpoint, hashInvalidCheckpoint, checkpointMessage, relaying>>
  \/ /\ c \in mapBlockIndex[n]
     /\ ~ ValidateSyncCheckpoint(n, c, mapBlockIndex[n])
     /\ Refuse(n, c)
     /\ UNCHANGED <<hashPendingCheckpoint, checkpointMessagePending, relaying>>
  \/ /\ c \in mapBlockIndex[n]
     /\ ValidateSyncCheckpoint(n, c, mapBlockIndex[n])
     /\ Adopt(n, c, c)
     /\ relaying' = [relaying EXCEPT ![n] = @ \cup {c}]

(* AcceptPendingSyncCheckpoint, called with the blocks of index known. *)
AcceptPendingSyncCheckpoint(n, index) ==
  LET c   == hashPendingCheckpoint[n]
      msg == checkpointMessagePending[n]
  IN \/ /\ c \notin index
        /\ UNCHANGED <<syncVars, netVars>>
     \/ /\ c \in index
        /\ ~ ValidateSyncCheckpoint(n, c, index)
        /\ MarkConflict(n, c, index)
        /\ hashPendingCheckpoint' = [hashPendingCheckpoint EXCEPT ![n] = NoBlock]
        /\ checkpointMessagePending' = [checkpointMessagePending EXCEPT ![n] = NoBlock]
        /\ UNCHANGED <<hashSyncCheckpoint, checkpointMessage, netVars>>
     \/ /\ c \in index
        /\ ValidateSyncCheckpoint(n, c, index)
        /\ Adopt(n, c, msg)
        /\ IF msg = NoBlock THEN UNCHANGED netVars ELSE RelayTo(n, msg)
-----------------------------------------------------------------------------
(* The message thread of n reads the next checkpoint message of its peer m. *)
(* At the Master, other threads (RPC, mining) may be about to relay.        *)
ReceiveCheckpoint(m, n) ==
  /\ queue[m][n] # <<>>
  /\ n = Master \/ relaying[n] = {}
  /\ ProcessSyncCheckpoint(n, Head(queue[m][n]))
  /\ queue' = [queue EXCEPT ![m][n] = Tail(queue[m][n])]
  /\ UNCHANGED <<chainVars, hashCheckpointKnown, boundVars>>

(* The Master's operator sends a checkpoint (sendcheckpoint). *)
SendSyncCheckpoint(c) ==
  /\ ProcessSyncCheckpoint(Master, c)
  /\ UNCHANGED <<chainVars, netVars, boundVars>>

(* The caller of ProcessSyncCheckpoint relays c. *)
Relay(n, c) ==
  /\ c \in relaying[n]
  /\ relaying' = [relaying EXCEPT ![n] = @ \ {c}]
  /\ RelayTo(n, c)
  /\ UNCHANGED <<chainVars, syncVars, boundVars>>

(* n learns the header of b. *)
AcceptBlockHeader(n, b) ==
  /\ b \notin mapBlockIndex[n] /\ Parent[b] \in mapBlockIndex[n]
  /\ mapBlockIndex' = [mapBlockIndex EXCEPT ![n] = @ \cup {b}]
  /\ UNCHANGED <<received, chainTip, activating, syncVars, netVars, relaying, boundVars>>

(* n stores the block b, which ends with a look at the pending checkpoint.  *)
AcceptBlock(n, b) ==
  /\ b \notin received[n] /\ Parent[b] \in received[n]
  /\ mapBlockIndex' = [mapBlockIndex EXCEPT ![n] = @ \cup {b}]
  /\ received' = [received EXCEPT ![n] = @ \cup {b}]
  /\ activating' = (activating \/ n = Master)
  /\ AcceptPendingSyncCheckpoint(n, mapBlockIndex[n] \cup {b})
  /\ UNCHANGED <<chainTip, relaying, boundVars>>

(* The active chain of the Master after ActivateBestChain. *)
BestTip(tip) ==
  /\ tip \in received[Master]
  /\ \A b \in received[Master] : Height[b] <= Height[tip]
  /\ tip = chainTip \/ Height[tip] > Height[chainTip]

(* The block checkpointdepth below the tip, or the genesis block. *)
AutoSelectSyncCheckpoint(tip, c) ==
  /\ c \in Anc[tip]
  /\ Height[c] = IF Height[tip] < checkpointdepth THEN 0 ELSE Height[tip] - checkpointdepth

(* The rest of ProcessNewBlock at the Master: the best chain is activated   *)
(* and a checkpoint on it sent.                                             *)
ActivateAndSend ==
  /\ activating /\ activating' = FALSE
  /\ \E tip \in received[Master] :
       /\ BestTip(tip)
       /\ chainTip' = tip
       /\ \E c \in Anc[tip] :
            AutoSelectSyncCheckpoint(tip, c) /\ ProcessSyncCheckpoint(Master, c)
  /\ UNCHANGED <<mapBlockIndex, received, netVars, boundVars>>
-----------------------------------------------------------------------------
(* The queues and the last messages sent once the links have been set up    *)
(* again: each side starts with the checkpoint message it holds, if any.    *)
Handshake(links, msg) ==
  /\ hashCheckpointKnown' = [n \in Nodes |-> [m \in Nodes |->
       IF <<n, m>> \in links THEN msg[n] ELSE hashCheckpointKnown[n][m]]]
  /\ queue' = [n \in Nodes |-> [m \in Nodes |->
       IF <<n, m>> \notin links THEN queue[n][m]
       ELSE IF msg[n] = NoBlock THEN <<>> ELSE <<msg[n]>>]]

(* The connection of n and m is lost and made again. *)
Reconnect(n, m) ==
  /\ n # m /\ reconnects < MaxReconnects
  /\ reconnects' = reconnects + 1
  /\ Handshake({<<n, m>>, <<m, n>>}, checkpointMessage)
  /\ UNCHANGED <<chainVars, syncVars, relaying, restarts>>

(* The checkpoint a node has once it has started: the stored one is read    *)
(* and then overwritten.                                                    *)
SyncAtStart_stored(n) == hashSyncCheckpoint[n]
SyncAtStart(n) == Genesis

(* The block indexes that may have been on disk at n: FlushStateToDisk      *)
(* writes the index from time to time, a block never before its parent.     *)
Flushed(n) == {S \in SUBSET mapBlockIndex[n] : Genesis \in S /\ \A b \in S : Anc[b] \subseteq S}

(* n is killed and started again. *)
Restart(n) ==
  /\ n \in Restarting /\ restarts < MaxRestarts
  /\ restarts' = restarts + 1
  /\ \E index \in Flushed(n) :
       /\ mapBlockIndex' = [mapBlockIndex EXCEPT ![n] = index]
       /\ received' = [received EXCEPT ![n] = @ \cap index]
       /\ IF n = Master THEN \E tip \in received[n] \cap index : chainTip' = tip
          ELSE UNCHANGED chainTip
  /\ activating' = (activating /\ n # Master)
  /\ hashSyncCheckpoint' = [hashSyncCheckpoint EXCEPT ![n] = SyncAtStart(n)]
  /\ hashPendingCheckpoint' = [hashPendingCheckpoint EXCEPT ![n] = NoBlock]
  /\ hashInvalidCheckpoint' = [hashInvalidCheckpoint EXCEPT ![n] = NoBlock]
  /\ checkpointMessage' = [checkpointMessage EXCEPT ![n] = NoBlock]
  /\ checkpointMessagePending' = [checkpointMessagePending EXCEPT ![n] = NoBlock]
  /\ relaying' = [relaying EXCEPT ![n] = {}]
  /\ Handshake({l \in Nodes \X Nodes : n \in {l[1], l[2]} /\ l[1] # l[2]}, checkpointMessage')
  /\ UNCHANGED reconnects
-----------------------------------------------------------------------------
(* First start of every node: ResetSyncCheckpoint waits for the hardened    *)
(* checkpoint.                                                              *)
Init ==
  /\ mapBlockIndex = [n \in Nodes |-> {Genesis}]
  /\ received = [n \in Nodes |-> {Genesis}]
  /\ chainTip = Genesis /\ activating = FALSE
  /\ hashSyncCheckpoint = [n \in Nodes |-> Genesis]
  /\ hashPendingCheckpoint = [n \in Nodes |-> IF Hardened = Genesis THEN NoBlock ELSE Hardened]
  /\ hashInvalidCheckpoint = [n \in Nodes |-> NoBlock]
  /\ checkpointMessage = [n \in Nodes |-> NoBlock]
  /\ checkpointMessagePending = [n \in Nodes |-> NoBlock]
  /\ hashCheckpointKnown = [n \in Nodes |-> [m \in Nodes |-> NoBlock]]
  /\ queue = [n \in Nodes |-> [m \in Nodes |-> <<>>]]
  /\ relaying = [n \in Nodes |-> {}]
  /\ restarts = 0 /\ reconnects = 0

Deliver == \E n, m \in Nodes : ReceiveCheckpoint(m, n)
Resume == ActivateAndSend \/ \E n \in Nodes, c \in Blocks : Relay(n, c)
Learn == \E n \in Nodes, b \in Blocks \ {Genesis} : AcceptBlockHeader(n, b) \/ AcceptBlock(n, b)

Next ==
  \/ Deliver
  \/ Learn
  \/ Resume
  \/ \E c \in Commands : SendSyncCheckpoint(c)
  \/ \E n \in Nodes : Restart(n)
  \/ \E n, m \in Nodes : Reconnect(n, m)

Spec == Init /\ [][Next]_vars

(* Messages are read, blocks arrive everywhere and ProcessNewBlock goes on. *)
Fairness ==
  /\ WF_vars(Deliver)
  /\ WF_vars(Resume)
  /\ \A n \in Nodes, b \in Blocks \ {Genesis} : WF_vars(AcceptBlock(n, b))
-----------------------------------------------------------------------------
(* Properties. *)

(* The type of every variable. *)
TypeOK ==
  /\ mapBlockIndex \in [Nodes -> SUBSET Blocks] /\ received \in [Nodes -> SUBSET Blocks]
  /\ chainTip \in Blocks /\ activating \in BOOLEAN
  /\ hashSyncCheckpoint \in [Nodes -> Blocks]
  /\ hashPendingCheckpoint \in [Nodes -> Blocks \cup {NoBlock}]
  /\ hashInvalidCheckpoint \in [Nodes -> Blocks \cup {NoBlock}]
  /\ checkpointMessage \in [Nodes -> Blocks \cup {NoBlock}]
  /\ checkpointMessagePending \in [Nodes -> Blocks \cup {NoBlock}]
  /\ hashCheckpointKnown \in [Nodes -> [Nodes -> Blocks \cup {NoBlock}]]
  /\ queue \in [Nodes -> [Nodes -> Seq(Blocks)]]
  /\ relaying \in [Nodes -> SUBSET Blocks]
  /\ restarts \in Nat /\ reconnects \in Nat

(* "sync-checkpoint should always be accepted block" (the assertion of      *)
(* IsSyncCheckpointTooOld), although the checkpoint is written to disk at   *)
(* once and the block index is not.                                         *)
SyncAccepted == \A n \in Nodes : hashSyncCheckpoint[n] \in mapBlockIndex[n]

(* As long as the Master keeps running, the checkpoints of all nodes lie on *)
(* one chain, whatever its reorganisations, its operator's commands, the    *)
(* delays and the repetitions of the relay.                                 *)
OneCheckpointChain ==
  \A n, m \in Nodes :
    \/ hashSyncCheckpoint[n] \in Anc[hashSyncCheckpoint[m]]
    \/ hashSyncCheckpoint[m] \in Anc[hashSyncCheckpoint[n]]

(* ... and no node but the Master raises an alarm for an invalid            *)
(* checkpoint, though it may hear of checkpoints late and out of order.     *)
NoFalseAlarm == \A n \in Nodes \ {Master} : hashInvalidCheckpoint[n] = NoBlock

(* What a node hands to a new peer (checkpointMessage) names the checkpoint *)
(* it enforces, not an earlier one.                                         *)
MessageCurrent ==
  \A n \in Nodes : checkpointMessage[n] \in {NoBlock, hashSyncCheckpoint[n]}

(* A checkpoint waiting for its block (ProcessSyncCheckpoint: "keep the     *)
(* checkpoint as pending") is reached or passed once the blocks have come.  *)
PendingAdopted ==
  \A n \in Nodes \ {Master}, c \in Blocks :
    (hashPendingCheckpoint[n] = c) ~> (c \in Anc[hashSyncCheckpoint[n]])
=============================================================================
