------------------------------ MODULE MCLedger ------------------------------
(***************************************************************************)
(* The coins cache, the memory pool, the relay of transactions and the     *)
(* download of blocks, for model checking, on one tree.  They share no     *)
(* state here (Mempool takes the coins of the active chain from UtxoChain, *)
(* which the cache of Coins is shown to provide), so driven says at the    *)
(* start which of them a behaviour is about.                               *)
(***************************************************************************)
EXTENDS Coins, TxRelay, BlockDownload

VARIABLE driven

(* The transaction p -> t, s is in both branches, at different heights; in *)
(* b2 its output t is spent in the block itself.  The coin that the        *)
(* coinstake C stakes is older than the tree.                              *)
(*    g - k - m - a1 - a2                                                  *)
(*              \ b1 - b2                                                  *)
MCParent == [g |-> NoBlock, k |-> "g", m |-> "k", a1 |-> "m", a2 |-> "a1", b1 |-> "m", b2 |-> "b1"]
MCBlocks == DOMAIN MCParent
MCAnc ==
  LET anc[b \in MCBlocks] == IF MCParent[b] = NoBlock THEN {b} ELSE {b} \cup anc[MCParent[b]]
  IN [b \in MCBlocks |-> anc[b]]
MCHeight == [b \in MCBlocks |-> Cardinality(MCAnc[b]) - 1]

MCBlockTxs == [g |-> <<>>, k |-> <<"P">>, m |-> <<"C">>, a1 |-> <<"T">>, a2 |-> <<"U">>,
               b1 |-> <<>>, b2 |-> <<"T", "W">>]
MCVin == [P |-> {}, C |-> {}, T |-> {"p"}, U |-> {"t"}, W |-> {"t"},
          X |-> {"s", "u"}, Y |-> {"s"}, Z |-> {"c"}, V |-> {"x"}]
MCVout == [P |-> {"p"}, C |-> {"c"}, T |-> {"t", "s"}, U |-> {"u"}, W |-> {},
           X |-> {"x"}, Y |-> {}, Z |-> {}, V |-> {}]
MCTxs == DOMAIN MCVin
MCLockHeight == [t \in MCTxs |-> IF t = "X" THEN 3 ELSE 0]

MCOutpoints == UNION {MCVout[t] : t \in MCTxs}
MCCreates == [b \in MCBlocks |-> UNION {MCVout[t] : t \in ToSet(MCBlockTxs[b])}]
MCSpends == [b \in MCBlocks |-> UNION {MCVin[t] : t \in ToSet(MCBlockTxs[b])}]
MCCoinbase == [b \in MCBlocks |-> MCCreates[b] \cap MCVout["P"]]
-----------------------------------------------------------------------------
ledgerVars == <<vars, poolVars, relayVars, downloadVars, driven>>

LedgerInit ==
  /\ driven \in {"coins", "pool", "relay", "download"}
  /\ Init /\ PoolInit /\ RelayInit /\ DownloadInit

LedgerNext ==
  /\ UNCHANGED driven
  /\ \/ driven = "coins" /\ Next /\ UNCHANGED <<poolVars, relayVars, downloadVars>>
     \/ driven = "pool" /\ PoolNext /\ UNCHANGED <<vars, relayVars, downloadVars>>
     \/ driven = "relay" /\ RelayNext /\ UNCHANGED <<vars, downloadVars>>
     \/ driven = "download" /\ DownloadNext /\ UNCHANGED <<vars, poolVars, relayVars>>

(* The fairness of the block download binds the behaviours that drive it.  *)
LedgerSpec ==
  /\ LedgerInit /\ [][LedgerNext]_ledgerVars
  /\ []<>(driven # "download") \/ DownloadFairness
-----------------------------------------------------------------------------
(* The types of the four components: requests, orphans and disconnected     *)
(* transactions stay within their limits, and every entry is of its kind.   *)
LedgerTypeOK == TypeOK /\ PoolTypeOK /\ RelayTypeOK /\ DownloadTypeOK

=============================================================================
