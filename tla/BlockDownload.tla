--------------------------- MODULE BlockDownload ---------------------------
(***************************************************************************)
(* Download of blocks from several peers (src/src/net_processing.cpp):     *)
(* which blocks are asked of whom, what is done with answers that come     *)
(* before the parent of their block, and how a peer that does not answer   *)
(* is found and dropped.                                                   *)
(*                                                                         *)
(* Time is left out: a timer that is running may be found expired at any   *)
(* moment.  Every request names an indexed block, so fValidatedHeaders is  *)
(* always true and nBlocksInFlightValidHeaders is nBlocksInFlight.  All    *)
(* peers are outbound and preferred for download, all branches have        *)
(* nMinimumChainWork, a block has trust 1, and no block fails after it has *)
(* been stored.                                                            *)
(*                                                                         *)
(* A definition D_x placed before D is D with a plausible defect: it is    *)
(* not part of the specification, and shows which property would notice.   *)
(***************************************************************************)
EXTENDS BlockTree, Sequences, FiniteSets, Functions

CONSTANTS
  Nodes, NoNode,
  Responsive,          \* the peers that answer what they are asked
  StoredAtStart,       \* the blocks that are stored at the start
  BadBlocks,           \* the blocks that ContextualCheckBlock refuses
  Announced,           \* bound: the blocks that peers announce
  Unasked,             \* bound: the blocks that come without having been asked for
  CompactBlocks,       \* bound: the blocks that come as compact blocks
  BestBlock,           \* the last block of the chain of the responsive peers
  BLOCK_DOWNLOAD_WINDOW,
  MAX_BLOCKS_IN_TRANSIT_PER_PEER,
  MaxConnects,         \* bound on the connections of the other peers
  MaxCompact           \* bound on the compact blocks that come

ASSUME DownloadConstants ==
  /\ IsFiniteSet(Nodes) /\ Responsive \subseteq Nodes /\ NoNode \notin Nodes
  /\ Genesis \in StoredAtStart /\ StoredAtStart \subseteq Blocks
  /\ \A b \in StoredAtStart : Anc[b] \subseteq StoredAtStart
  /\ BestBlock \in Announced /\ Announced \cup Unasked \cup CompactBlocks \subseteq Blocks \ {Genesis}
  /\ Anc[BestBlock] \cap BadBlocks = {} /\ StoredAtStart \cap BadBlocks = {}
  /\ {BLOCK_DOWNLOAD_WINDOW, MAX_BLOCKS_IN_TRANSIT_PER_PEER} \subseteq Nat \ {0}
  /\ {MaxConnects, MaxCompact} \subseteq Nat

VARIABLES
  conn,              \* "off", "on", or "drop": fDisconnect, not yet finalized
  connects,          \* the connections so far of peers that do not answer
  compacts,          \* the compact blocks so far
  known,             \* CNodeState: pindexBestKnownBlock (best), hashLastUnknownBlock
                     \* (unknown) and pindexLastCommonBlock (common)
  flight,            \* mapBlocksInFlight (from) and, of each CNodeState, vBlocksInFlight
                     \* (queue), nBlocksInFlight (count) and nStallingSince # 0 (stalling);
                     \* the entries with a partialBlock; nPeersWithValidatedDownloads (peers)
  answers,           \* the BLOCK and BLOCKTXN messages on their way from each peer
  index, haveData, failed, tip,
  mapBlocksWait,     \* the block that waits for each block
  displaced,         \* the blocks that waited when a sibling came and took their place
  pindexLastAccepted,
  pfrom,             \* whose BLOCK message is being handled
  expired            \* the waiting blocks that are older than 60 s in this handler

chainVars == <<index, haveData, failed, tip>>
blockVars == <<mapBlocksWait, displaced, pindexLastAccepted, pfrom, expired>>
downloadVars == <<conn, connects, compacts, known, flight, answers, chainVars, blockVars>>

NewNode == [best |-> NoBlock, unknown |-> NoBlock, common |-> NoBlock]

DownloadInit ==
  /\ conn = [n \in Nodes |-> "off"] /\ connects = 0 /\ compacts = 0
  /\ known = [n \in Nodes |-> NewNode]
  /\ flight = [from |-> [b \in Blocks |-> NoNode], queue |-> [n \in Nodes |-> <<>>],
               count |-> [n \in Nodes |-> 0], stalling |-> {}, partial |-> {}, peers |-> 0]
  /\ answers = [n \in Nodes |-> <<>>]
  /\ index = StoredAtStart /\ haveData = StoredAtStart /\ failed = {}
  /\ tip \in {b \in StoredAtStart : \A c \in StoredAtStart : Height[c] <= Height[b]}
  /\ mapBlocksWait = [b \in Blocks |-> NoBlock] /\ displaced = {} /\ pindexLastAccepted = NoBlock
  /\ pfrom = NoNode /\ expired = {}

Idle == pfrom = NoNode
Waiting == {mapBlocksWait[p] : p \in Blocks} \ {NoBlock}
-----------------------------------------------------------------------------
(* MarkBlockAsReceived and MarkBlockAsInFlight, on the download state f.    *)
(* An entry of mapBlocksInFlight points to its place in vBlocksInFlight.    *)
Erase(queue, b) ==
  LET i == CHOOSE j \in DOMAIN queue : queue[j] = b
  IN SubSeq(queue, 1, i - 1) \o SubSeq(queue, i + 1, Len(queue))

MarkBlockAsReceived_peers(f, b) ==
  LET n == f.from[b]
  IN IF n = NoNode THEN f
     ELSE [f EXCEPT !.from[b] = NoNode, !.queue[n] = Erase(@, b), !.count[n] = @ - 1,
                    !.stalling = @ \ {n}, !.partial = @ \ {b},
                    !.peers = IF f.count[n] = 0 THEN @ - 1 ELSE @]
MarkBlockAsReceived(f, b) ==
  LET n == f.from[b]
  IN IF n = NoNode THEN f
     ELSE [f EXCEPT !.from[b] = NoNode, !.queue[n] = Erase(@, b), !.count[n] = @ - 1,
                    !.stalling = @ \ {n}, !.partial = @ \ {b},
                    !.peers = IF f.count[n] = 1 THEN @ - 1 ELSE @]

MarkBlockAsInFlight(f, n, b, part) ==
  IF f.from[b] = n THEN f
  ELSE LET r == MarkBlockAsReceived(f, b)
       IN [r EXCEPT !.from[b] = n, !.queue[n] = Append(@, b), !.count[n] = @ + 1,
                    !.partial = IF part THEN @ \cup {b} ELSE @,
                    !.peers = IF r.count[n] = 0 THEN @ + 1 ELSE @]

(* The blocks of bs, in order, are asked of n. *)
Request(f, n, bs) ==
  LET asked[i \in 0..Len(bs)] ==
        IF i = 0 THEN f ELSE MarkBlockAsInFlight(asked[i - 1], n, bs[i], FALSE)
  IN asked[Len(bs)]
-----------------------------------------------------------------------------
(* What a peer has, on the entry k of known, when ind is indexed. *)

Better(k, b) == IF k.best = NoBlock \/ Height[b] >= Height[k.best] THEN b ELSE k.best
ProcessBlockAvailability(k, ind) ==
  IF k.unknown \in ind THEN [k EXCEPT !.best = Better(k, k.unknown), !.unknown = NoBlock] ELSE k
UpdateBlockAvailability(k, ind, b) ==
  LET p == ProcessBlockAvailability(k, ind)
  IN IF b \in ind THEN [p EXCEPT !.best = Better(p, b)] ELSE [p EXCEPT !.unknown = b]

(* CBlockIndex::GetAncestor, and the blocks of S on the branch of b, above  *)
(* the genesis block and lowest first.                                      *)
AtHeight(b, h) == CHOOSE x \in Anc[b] : Height[x] = h
Ascending(b, S) ==
  LET up[h \in 0..Height[b]] ==
        IF h = 0 THEN <<>>
        ELSE IF AtHeight(b, h) \in S THEN Append(up[h - 1], AtHeight(b, h)) ELSE up[h - 1]
  IN up[Height[b]]
LastCommonAncestor(a, b) ==
  CHOOSE x \in Anc[a] \cap Anc[b] : \A y \in Anc[a] \cap Anc[b] : Height[y] <= Height[x]
Min2(i, j) == IF i < j THEN i ELSE j

(* FindNextBlocksToDownload, for n with the entry k of known: the common    *)
(* block, the blocks to ask for, and the peer the window waits for.         *)
(* Visited is the body of the loop over vToFetch, after r, for the block b. *)
Visited(n, count, nWindowEnd, r, b) ==
  IF r.done \/ b \in failed THEN [r EXCEPT !.done = TRUE]
  ELSE IF b \in haveData
    THEN IF Anc[b] \subseteq haveData THEN [r EXCEPT !.common = b] ELSE r
  ELSE IF flight.from[b] # NoNode
    THEN IF r.waitingfor = NoNode THEN [r EXCEPT !.waitingfor = flight.from[b]] ELSE r
  ELSE IF Height[b] > nWindowEnd
    THEN [r EXCEPT !.done = TRUE,
                   !.staller = IF r.blocks = <<>> /\ r.waitingfor # n THEN r.waitingfor ELSE @]
  ELSE [r EXCEPT !.blocks = Append(@, b), !.done = Len(r.blocks) + 1 = count]

Nothing(common) == [common |-> common, blocks |-> <<>>, staller |-> NoNode,
                    waitingfor |-> NoNode, done |-> FALSE]

Walk(n, count, fork, best) ==
  LET nWindowEnd == Height[fork] + BLOCK_DOWNLOAD_WINDOW
      nMaxHeight == Min2(Height[best], nWindowEnd + 1)
      walked[h \in Height[fork]..nMaxHeight] ==
        IF h = Height[fork] THEN Nothing(fork)
        ELSE Visited(n, count, nWindowEnd, walked[h - 1], AtHeight(best, h))
  IN walked[nMaxHeight]

FindNextBlocksToDownload(n, k, count) ==
  IF k.best = NoBlock THEN Nothing(k.common)
  ELSE IF Height[k.best] < Height[tip] THEN Nothing(k.common)
  ELSE LET last == IF k.common = NoBlock THEN AtHeight(tip, Min2(Height[k.best], Height[tip]))
                   ELSE k.common
       IN Walk(n, count, LastCommonAncestor(last, k.best), k.best)
-----------------------------------------------------------------------------
(* InitializeNode, and FinalizeNode once the socket thread has taken a      *)
(* dropped peer out of its lists.  A name stands for one connection after   *)
(* the other: nothing of the former is left.                                *)
InitializeNode(n) ==
  /\ conn[n] = "off" /\ (n \notin Responsive => connects < MaxConnects)
  /\ conn' = [conn EXCEPT ![n] = "on"]
  /\ connects' = IF n \in Responsive THEN connects ELSE connects + 1
  /\ UNCHANGED <<compacts, known, flight, answers, chainVars, blockVars>>

FinalizeNode_kept(n) ==
  /\ conn[n] = "drop" /\ pfrom # n
  /\ conn' = [conn EXCEPT ![n] = "off"]
  /\ known' = [known EXCEPT ![n] = NewNode] /\ answers' = [answers EXCEPT ![n] = <<>>]
  /\ UNCHANGED <<connects, compacts, flight, chainVars, blockVars>>
FinalizeNode(n) ==
  /\ conn[n] = "drop" /\ pfrom # n
  /\ conn' = [conn EXCEPT ![n] = "off"]
  /\ known' = [known EXCEPT ![n] = NewNode] /\ answers' = [answers EXCEPT ![n] = <<>>]
  /\ flight' = [flight EXCEPT
       !.from = [b \in Blocks |-> IF b \in Range(flight.queue[n]) THEN NoNode ELSE @[b]],
       !.queue[n] = <<>>, !.count[n] = 0, !.stalling = @ \ {n},
       !.partial = @ \ Range(flight.queue[n]),
       !.peers = IF flight.count[n] # 0 THEN @ - 1 ELSE @]
  /\ UNCHANGED <<connects, compacts, chainVars, blockVars>>

Drop(n) == conn' = [conn EXCEPT ![n] = "drop"]

(* A peer that does not answer closes the connection. *)
Hangup(n) ==
  /\ conn[n] = "on" /\ n \notin Responsive
  /\ Drop(n)
  /\ UNCHANGED <<connects, compacts, known, flight, answers, chainVars, blockVars>>
-----------------------------------------------------------------------------
(* SendMessages: the timers, then the requests. *)

Handles(n) == Idle /\ conn[n] = "on"

(* What a getdata or getblocktxn for the blocks bs will be answered with. *)
Ask(n, bs, kind) ==
  answers' = [answers EXCEPT ![n] =
    IF n \in Responsive THEN @ \o [i \in DOMAIN bs |-> [kind |-> kind, block |-> bs[i]]] ELSE @]

Room(n) == MAX_BLOCKS_IN_TRANSIT_PER_PEER - flight.count[n]

(* The blocks to ask n for, with the entry of known that this leaves. *)
NextRequest(n) ==
  LET k == ProcessBlockAvailability(known[n], index)
      r == FindNextBlocksToDownload(n, k, Room(n))
      f == Request(flight, n, r.blocks)
  IN [known |-> [k EXCEPT !.common = r.common], blocks |-> r.blocks,
      flight |-> IF f.count[n] = 0 /\ r.staller # NoNode
                   THEN [f EXCEPT !.stalling = @ \cup {r.staller}] ELSE f]

GetData(n) ==
  /\ Handles(n) /\ flight.count[n] < MAX_BLOCKS_IN_TRANSIT_PER_PEER
  /\ \E r \in {NextRequest(n)} :
       /\ known' = [known EXCEPT ![n] = r.known] /\ flight' = r.flight
       /\ Ask(n, r.blocks, "block")
  /\ UNCHANGED <<conn, connects, compacts, chainVars, blockVars>>

(* A timer runs for many rounds of the message handler: when it expires, a  *)
(* responsive peer has announced its chain, was asked for what can be asked *)
(* of it, and has answered.                                                 *)
Announces(n) == known[n].best # BestBlock
Asks(n) ==
  /\ flight.count[n] < MAX_BLOCKS_IN_TRANSIT_PER_PEER
  /\ \E r \in {NextRequest(n)} : r.flight # flight \/ r.known # known[n]
Answering(n) == answers[n] # <<>>
Late(n) == n \in Responsive => ~ Answering(n) /\ ~ Announces(n) /\ ~ Asks(n)

StallTimeout(n) ==
  /\ Handles(n) /\ n \in flight.stalling /\ Late(n)
  /\ Drop(n)
  /\ UNCHANGED <<connects, compacts, known, flight, answers, chainVars, blockVars>>

(* nDownloadingSince is too long ago. *)
DownloadTimeout(n) ==
  /\ Handles(n) /\ flight.queue[n] # <<>> /\ Late(n)
  /\ Drop(n)
  /\ UNCHANGED <<connects, compacts, known, flight, answers, chainVars, blockVars>>
-----------------------------------------------------------------------------
(* A responsive peer has valid blocks only. *)
MayHave(n, b) == n \in Responsive => Anc[b] \cap BadBlocks = {}

(* Announcements: an INV, or headers that do not connect. *)
Announce(n, b) ==
  /\ Handles(n) /\ MayHave(n, b)
  /\ known' = [known EXCEPT ![n] = UpdateBlockAvailability(@, index, b)]
  /\ UNCHANGED <<conn, connects, compacts, flight, answers, chainVars, blockVars>>

(* The part of ProcessHeadersMessage that asks for blocks at once, when the *)
(* tip is recent.                                                           *)
DirectFetch(f, n, b) ==
  LET missing == {x \in Anc[b] \ Anc[tip] : x \notin haveData /\ f.from[x] = NoNode}
      bs == Ascending(b, missing)
      room == MAX_BLOCKS_IN_TRANSIT_PER_PEER - f.count[n]
      lowest == bs[Len(bs) - MAX_BLOCKS_IN_TRANSIT_PER_PEER]  \* the last that is looked at
      largeReorg == Len(bs) > MAX_BLOCKS_IN_TRANSIT_PER_PEER /\ Parent[lowest] \notin Anc[tip]
  IN IF Height[b] < Height[tip] \/ b \in failed \/ largeReorg
       THEN <<>> ELSE SubSeq(bs, 1, Min2(room, Len(bs)))

(* Headers that connect, up to b.  Headers on a block known to be invalid   *)
(* cost the connection.                                                     *)
Headers(n, b) ==
  /\ Handles(n) /\ MayHave(n, b)
  /\ IF Anc[b] \cap failed # {}
       THEN Drop(n) /\ UNCHANGED <<known, flight, answers, index>>
       ELSE /\ index' = index \cup Anc[b]
            /\ known' = [known EXCEPT ![n] = UpdateBlockAvailability(@, index', b)]
            /\ \/ UNCHANGED <<flight, answers>>
               \/ LET bs == DirectFetch(flight, n, b)
                  IN flight' = Request(flight, n, bs) /\ Ask(n, bs, "block")
            /\ UNCHANGED conn
  /\ UNCHANGED <<connects, compacts, haveData, failed, tip, blockVars>>
-----------------------------------------------------------------------------
(* ProcessNewBlock for a block whose parent is indexed: AcceptBlock and     *)
(* ActivateBestChain (ChainState has the details).  Refused says that       *)
(* AcceptBlock returns false, Ignored that it stores nothing and returns    *)
(* true.                                                                    *)
ValidTransactions(b) == b \in haveData /\ b \notin failed
Refused(b) == b \in failed \/ ~ ValidTransactions(Parent[b])
Ignored(b, force) == b \in haveData \/ (~ force /\ Height[b] < Height[tip])

BestLinked(have) ==
  LET linked == {x \in have : Anc[x] \subseteq have /\ Height[x] > Height[tip]}
  IN IF linked = {} THEN {tip} ELSE {x \in linked : \A y \in linked : Height[y] <= Height[x]}

ProcessNewBlock(b, force) ==
  /\ index' = IF Parent[b] \in failed THEN index ELSE index \cup {b}
  /\ IF Refused(b) \/ Ignored(b, force) THEN UNCHANGED <<haveData, failed, tip>>
     ELSE IF b \in BadBlocks THEN failed' = failed \cup {b} /\ UNCHANGED <<haveData, tip>>
     ELSE haveData' = haveData \cup {b} /\ tip' \in BestLinked(haveData') /\ UNCHANGED failed
Accepted(b, force) == ~ Refused(b) /\ (Ignored(b, force) \/ b \notin BadBlocks)
-----------------------------------------------------------------------------
(* The BLOCK message.  A block that nobody was asked for is refused when    *)
(* its parent is not stored; any other waits for its parent, in the place   *)
(* of another child of that parent if there is one.                         *)
ReceiveBlock(n, b) ==
  /\ IF Parent[b] \notin index \/ (flight.from[b] = NoNode /\ ~ ValidTransactions(Parent[b]))
       THEN UNCHANGED blockVars
       ELSE /\ mapBlocksWait' = [mapBlocksWait EXCEPT ![Parent[b]] = b]
            /\ displaced' = (displaced \cup {mapBlocksWait[Parent[b]]}) \ {b, NoBlock}
            /\ pfrom' = n /\ expired' \in SUBSET (Waiting \ {b, mapBlocksWait[Parent[b]]})
            /\ pindexLastAccepted' = IF pindexLastAccepted = NoBlock THEN tip ELSE pindexLastAccepted
  /\ UNCHANGED <<conn, connects, compacts, known, flight, chainVars>>

BlockAnswer(n) ==
  /\ Handles(n) /\ answers[n] # <<>> /\ Head(answers[n]).kind = "block"
  /\ ReceiveBlock(n, Head(answers[n]).block)
  /\ answers' = [answers EXCEPT ![n] = Tail(@)]

(* A block that comes late, twice, or without having been asked for. *)
BlockUnasked(n, b) ==
  /\ Handles(n) /\ n \notin Responsive
  /\ ReceiveBlock(n, b) /\ UNCHANGED answers

(* The loop over mapBlocksWait: the child of the block accepted last, or    *)
(* else any that can be given up or processed.                              *)
Fast == pindexLastAccepted # NoBlock /\ mapBlocksWait[pindexLastAccepted] # NoBlock

GiveUp_silent(p) ==
  /\ ~ Fast /\ mapBlocksWait[p] # NoBlock /\ (mapBlocksWait[p] \in expired \/ p \in failed)
  /\ mapBlocksWait' = [mapBlocksWait EXCEPT ![p] = NoBlock]
  /\ UNCHANGED <<conn, connects, compacts, known, flight, answers, chainVars, displaced,
                 pindexLastAccepted, pfrom, expired>>
GiveUp(p) ==
  /\ ~ Fast /\ mapBlocksWait[p] # NoBlock /\ (mapBlocksWait[p] \in expired \/ p \in failed)
  /\ mapBlocksWait' = [mapBlocksWait EXCEPT ![p] = NoBlock]
  /\ flight' = MarkBlockAsReceived(flight, mapBlocksWait[p])
  /\ UNCHANGED <<conn, connects, compacts, known, answers, chainVars, displaced,
                 pindexLastAccepted, pfrom, expired>>

(* The peer whose message is being handled is taken for the source of the   *)
(* block, also when the block had been waiting: it loses its connection if  *)
(* the block is invalid.                                                    *)
Process(p) ==
  LET b == mapBlocksWait[p]
      force == flight.from[b] # NoNode
  IN /\ b # NoBlock
     /\ IF Fast THEN p = pindexLastAccepted ELSE b \notin expired /\ ValidTransactions(p)
     /\ mapBlocksWait' = [mapBlocksWait EXCEPT ![p] = NoBlock]
     /\ flight' = MarkBlockAsReceived(flight, b)
     /\ ProcessNewBlock(b, force)
     /\ pindexLastAccepted' = IF Accepted(b, force) THEN b ELSE NoBlock
     /\ conn' = IF failed' # failed THEN [conn EXCEPT ![pfrom] = "drop"] ELSE conn
     /\ UNCHANGED <<connects, compacts, known, answers, displaced, pfrom, expired>>

CanGiveUp(p) == mapBlocksWait[p] # NoBlock /\ (mapBlocksWait[p] \in expired \/ p \in failed)
CanProcess(p) == mapBlocksWait[p] # NoBlock /\ ValidTransactions(p)

BlockDone ==
  /\ ~ Fast /\ \A p \in Blocks : ~ CanGiveUp(p) /\ ~ CanProcess(p)
  /\ pfrom' = NoNode /\ expired' = {}
  /\ UNCHANGED <<conn, connects, compacts, known, flight, answers, chainVars, mapBlocksWait,
                 displaced, pindexLastAccepted>>

BlockLoop == pfrom # NoNode /\ ((\E p \in Blocks : GiveUp(p) \/ Process(p)) \/ BlockDone)
-----------------------------------------------------------------------------
(* Compact blocks.  A partial block is invalid, collides with what the pool *)
(* has (the whole block is asked for instead), lacks transactions, or is    *)
(* complete.  Its header is taken as Headers takes it.                      *)

CmpctInvalid(f, n, b) ==
  /\ n \notin Responsive
  /\ flight' = MarkBlockAsReceived(f, b) /\ Drop(n) /\ UNCHANGED <<answers, chainVars>>
CmpctCollides(f, n, b) ==
  /\ flight' = f /\ Ask(n, <<b>>, "block") /\ UNCHANGED <<conn, chainVars>>
CmpctIncomplete(f, n, b) ==
  /\ flight' = f /\ Ask(n, <<b>>, "txn") /\ UNCHANGED <<conn, chainVars>>
CmpctComplete(f, b) ==
  /\ flight' = MarkBlockAsReceived(f, b) /\ ProcessNewBlock(b, TRUE) /\ UNCHANGED <<conn, answers>>

(* The block is in flight from n, or it is going to be. *)
CmpctFetch(n, b) ==
  /\ flight.from[b] = n => b \notin flight.partial
  /\ LET f == [MarkBlockAsInFlight(flight, n, b, TRUE) EXCEPT !.partial = @ \cup {b}]
     IN CmpctInvalid(f, n, b) \/ CmpctCollides(f, n, b) \/ CmpctIncomplete(f, n, b) \/ CmpctComplete(f, b)

(* The block is in flight from another peer, or n has no room: it is used   *)
(* if it is complete.                                                       *)
CmpctOptimistic(n, b) ==
  /\ ProcessNewBlock(b, TRUE)
  /\ flight' = IF b \in haveData' THEN MarkBlockAsReceived(flight, b) ELSE flight
  /\ UNCHANGED <<conn, answers>>

CmpctBlock(n, b) ==
  /\ Handles(n) /\ MayHave(n, b) /\ b \in index \ failed
  /\ b \notin haveData /\ Height[tip] < Height[b] /\ Height[b] <= Height[tip] + 2
  /\ known' = [known EXCEPT ![n] = UpdateBlockAvailability(@, index, b)]
  /\ IF flight.from[b] = n
        \/ (flight.from[b] = NoNode /\ flight.count[n] < MAX_BLOCKS_IN_TRANSIT_PER_PEER)
       THEN CmpctFetch(n, b) ELSE CmpctOptimistic(n, b)
  /\ UNCHANGED <<connects, blockVars>>

(* A compact block that is no use, for a block that is in flight. *)
CmpctUseless(n, b) ==
  /\ Handles(n) /\ MayHave(n, b)
  /\ b \in index \ (haveData \cup failed) /\ flight.from[b] # NoNode
  /\ Height[b] <= Height[tip] \/ Height[tip] + 2 < Height[b]
  /\ known' = [known EXCEPT ![n] = UpdateBlockAvailability(@, index, b)]
  /\ Ask(n, <<b>>, "block")
  /\ UNCHANGED <<conn, connects, flight, chainVars, blockVars>>

(* The missing transactions: the block is complete then, or collides. *)
BlockTxn(n) ==
  /\ Handles(n) /\ answers[n] # <<>> /\ Head(answers[n]).kind = "txn"
  /\ LET b == Head(answers[n]).block
         rest == [answers EXCEPT ![n] = Tail(@)]
     IN IF flight.from[b] = n /\ b \in flight.partial
          THEN \/ /\ flight' = MarkBlockAsReceived(flight, b) /\ ProcessNewBlock(b, TRUE)
                  /\ answers' = rest
               \/ /\ answers' = [rest EXCEPT ![n] = Append(@, [kind |-> "block", block |-> b])]
                  /\ UNCHANGED <<flight, chainVars>>
          ELSE answers' = rest /\ UNCHANGED <<flight, chainVars>>
  /\ UNCHANGED <<conn, connects, compacts, known, blockVars>>

BlockTxnInvalid(n, b) ==
  /\ Handles(n) /\ flight.from[b] = n /\ b \in flight.partial
  /\ CmpctInvalid(flight, n, b)
  /\ UNCHANGED <<connects, compacts, known, blockVars>>
-----------------------------------------------------------------------------
Timeouts(n) == StallTimeout(n) \/ DownloadTimeout(n)
Compact(n, b) ==
  compacts < MaxCompact /\ compacts' = compacts + 1 /\ (CmpctBlock(n, b) \/ CmpctUseless(n, b))

DownloadNext ==
  \/ \E n \in Nodes :
       \/ InitializeNode(n) \/ FinalizeNode(n) \/ Hangup(n)
       \/ Timeouts(n) \/ GetData(n) \/ BlockAnswer(n) \/ BlockTxn(n)
       \/ \E b \in Announced : Announce(n, b) \/ Headers(n, b)
       \/ \E b \in Unasked : BlockUnasked(n, b)
       \/ \E b \in CompactBlocks : Compact(n, b)
       \/ \E b \in Blocks : BlockTxnInvalid(n, b)
  \/ BlockLoop

(* The threads go on, and ThreadMessageHandler serves the peers in turn, so *)
(* what stays to be done for a connected peer is done: timers that are due  *)
(* are seen, requests sent and messages read.  The responsive peers connect *)
(* again, answer, and have BestBlock.                                       *)
Overdue(n) == flight.queue[n] # <<>> /\ Late(n)

DownloadFairness ==
  /\ WF_downloadVars(BlockLoop)
  /\ \A n \in Nodes :
       /\ WF_downloadVars(FinalizeNode(n))
       /\ []<>(conn[n] # "on" \/ ~ Overdue(n)) \/ []<><<DownloadTimeout(n)>>_downloadVars
  /\ \A n \in Responsive :
       /\ WF_downloadVars(InitializeNode(n))
       /\ []<>(conn[n] # "on" \/ ~ Announces(n)) \/ []<><<Headers(n, BestBlock)>>_downloadVars
       /\ []<>(conn[n] # "on" \/ ~ Asks(n)) \/ []<><<GetData(n)>>_downloadVars
       /\ []<>(conn[n] # "on" \/ ~ Answering(n)) \/ []<><<BlockAnswer(n) \/ BlockTxn(n)>>_downloadVars

DownloadSpec == DownloadInit /\ [][DownloadNext]_downloadVars /\ DownloadFairness
-----------------------------------------------------------------------------
(* Type: with the limit on requests to one peer. *)
DownloadTypeOK ==
  /\ conn \in [Nodes -> {"off", "on", "drop"}]
  /\ \A n \in Nodes : {known[n].best, known[n].common} \subseteq index \cup {NoBlock}
  /\ \A n \in Nodes : Len(flight.queue[n]) <= MAX_BLOCKS_IN_TRANSIT_PER_PEER
  /\ haveData \subseteq index /\ failed \subseteq index \ haveData /\ tip \in haveData
  /\ \A p \in Blocks : mapBlocksWait[p] # NoBlock => Parent[mapBlocksWait[p]] = p
  /\ pindexLastAccepted \in index \cup {NoBlock}

(* The assertions of FinalizeNode, for any moment: the map of blocks in    *)
(* flight, the lists of the peers and the counters agree, however requests *)
(* move between peers, so nothing is left when the last peer is gone; and  *)
(* a peer whose stalling timer runs still owes a block ("Stalling only     *)
(* triggers when the block download window cannot move").                  *)
InFlightExact ==
  /\ \A b \in Blocks, n \in Nodes : flight.from[b] = n <=> b \in Range(flight.queue[n])
  /\ \A n \in Nodes :
       /\ IsInjective(flight.queue[n]) /\ flight.count[n] = Len(flight.queue[n])
       /\ flight.queue[n] = <<>> => n \notin flight.stalling
       /\ conn[n] = "off" => flight.queue[n] = <<>>
  /\ flight.peers = Cardinality({n \in Nodes : flight.queue[n] # <<>>})
  /\ flight.partial \subseteq {b \in Blocks : flight.from[b] # NoNode}

(* A block that was asked for and delivered does not stay in flight for    *)
(* nothing: it waits for its parent, unless a sibling of it was delivered  *)
(* while it did and took its place in mapBlocksWait.                       *)
AnswersKept ==
  \A n \in Responsive : \A b \in Range(flight.queue[n]) :
    \/ \E a \in Range(answers[n]) : a.block = b
    \/ b \in Waiting \cup displaced \/ conn[n] = "drop"

(* Whatever peers take requests without answering, answer late, or send    *)
(* other blocks: once a peer that does answer has connected, its chain is  *)
(* downloaded.                                                             *)
DownloadCompletes == (\E n \in Responsive : conn[n] = "on") ~> (BestBlock \in haveData)
=============================================================================
