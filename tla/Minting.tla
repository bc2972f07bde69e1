------------------------------ MODULE Minting ------------------------------
(***************************************************************************)
(* The rewards of blocks (src/src/validation.cpp) and the two threads that *)
(* create blocks (src/src/miner.cpp, src/src/wallet/wallet.cpp) while      *)
(* other blocks move the tip.                                              *)
(*                                                                         *)
(* A block is the list of the blocks above a base block, itself the last:  *)
(* for each its kind, "pos" (proof of stake) or the algorithm of its proof *)
(* of work, and who made it.  Amounts are in units of 0.0001 coin.         *)
(* Transactions are small, so that their minimum fee is not more than      *)
(* PERKB_TX_FEE and nCoinbaseCost and nCoinstakeCost are 0.  All blocks of *)
(* proof of stake have the same target.                                    *)
(*                                                                         *)
(* A definition D_x placed before D is D with a plausible defect: it is    *)
(* not part of the specification, and shows which property would notice.   *)
(***************************************************************************)
EXTENDS Integers, Sequences, FiniteSets, SequencesExt

CONSTANTS
  BaseHeights,           \* heights of the base block; in the base the chain is
                         \* proof of work, by curvehash
  FirstReward,           \* 50000000 coins, or any number above 90 coins
  halvingForkBlock, halvingFixForkBlock,
  StakeProof,            \* the proof of a block of proof of stake, by its target
  PeerKinds,             \* bound: the kinds of the blocks that peers send
  MaxBlocks              \* bound on the blocks when a peer sends one

ASSUME MintingConstants ==
  /\ BaseHeights \subseteq Nat /\ FirstReward \in Nat /\ FirstReward > 900000
  /\ halvingForkBlock \in Nat /\ halvingForkBlock <= 2500000
  /\ halvingFixForkBlock \in Nat /\ halvingForkBlock <= halvingFixForkBlock
  /\ StakeProof \in Nat \ {0}
  /\ PeerKinds \subseteq {"pos", "curve", "mino"} /\ MaxBlocks \in Nat

VARIABLES
  base,           \* the height of the base block
  blocks,         \* the block index
  powHeight,      \* nPOWBlockHeight of the blocks: 0 until they are connected
  active,         \* the tip of the active chain
  staker, miner,  \* the threads: pc, the tip they read (pindexPrev) and the block
                  \* they made: its parent, the height in its coinbase, its reward
  refused         \* the blocks that were found invalid

mintVars == <<base, blocks, powHeight, active, staker, miner, refused>>

Height(b) == base + Len(b)
Prev(b) == Front(b)

(* The proof-of-work blocks up to b, if all blocks up to the base are. *)
TruePowHeight(b) == base + Cardinality({i \in DOMAIN b : b[i].kind # "pos"})
-----------------------------------------------------------------------------
(* The schedule of rewards.  Before the halving only the first two cases of *)
(* GetProofOfWorkReward can occur.                                          *)

GetBlockReward_rising(n) ==
  IF n < 2150000 THEN 110000
  ELSE IF n < 3000000 THEN 120000
  ELSE IF n < 45000000 THEN 115000 - 5000 * ((n - 3000000) \div 2000000)
  ELSE IF 47000000 <= n /\ n < 61000000 THEN 5000
  ELSE 1
GetBlockReward(n) ==
  IF n < 2150000 THEN 450000
  ELSE IF n < 3000000 THEN 120000
  ELSE IF n < 45000000 THEN 115000 - 5000 * ((n - 3000000) \div 2000000)
  ELSE IF 47000000 <= n /\ n < 61000000 THEN 5000
  ELSE 1

GetProofOfWorkReward(n) == IF n = 1 THEN FirstReward ELSE 900000
GetProofOfStakeReward == 900000

IsHalvingActive(b) == Height(b) >= halvingForkBlock
IsHalvingActiveFix(b) == Height(b) >= halvingFixForkBlock

(* GetLastBlockIndex for the default algorithm, as a height: the base is    *)
(* such a block.                                                            *)
LastPowHeight(b) == base + SelectLastInSeq(b, LAMBDA x : x.kind = "curve")

(* What a block on top of p may pay: ContextualCheckBlock for the coinbase, *)
(* CheckTxInputs for the coinstake once p is the tip.                       *)
CoinbaseLimit_count(p) ==
  IF IsHalvingActive(p) THEN GetBlockReward(Height(p) + 1)
  ELSE GetProofOfWorkReward(powHeight[p])
CoinbaseLimit(p) ==
  IF IsHalvingActive(p) THEN GetBlockReward(Height(p) + 1)
  ELSE GetProofOfWorkReward(powHeight[p] + 1)
CoinstakeLimit(p) ==
  IF IsHalvingActiveFix(p) /\ GetBlockReward(LastPowHeight(p)) < GetProofOfStakeReward
    THEN GetBlockReward(LastPowHeight(p)) ELSE GetProofOfStakeReward

(* What CreateNewBlock and CreateCoinStake claim, on top of the tip.        *)
CoinbaseValue(p) ==
  IF IsHalvingActive(p) THEN GetBlockReward(Height(p) + 1)
  ELSE GetProofOfWorkReward(powHeight[p] + 1)
CoinstakeValue(p) ==
  IF IsHalvingActive(p) THEN GetBlockReward(Height(p)) ELSE GetProofOfStakeReward
-----------------------------------------------------------------------------
(* ContextualCheckBlock, when a block is stored, and ConnectBlock.          *)
ContextualCheckBlock(p, blk) ==
  /\ blk.height = Height(p) + 1
  /\ blk.kind # "pos" => blk.value <= CoinbaseLimit(p)
(* Every coinstake claims CoinstakeValue.  The blocks of b that can be       *)
(* connected are those below the first one that claims too much.            *)
CoinstakeFits(p) == CoinstakeValue(p) <= CoinstakeLimit(p)
Connectable(b) ==
  LET bad == {i \in DOMAIN b : b[i].kind = "pos" /\ ~ CoinstakeFits(SubSeq(b, 1, i - 1))}
  IN IF bad = {} THEN b ELSE SubSeq(b, 1, Min(bad) - 1)

(* The blocks of b above the fork in turn become the tip; each takes its     *)
(* nPOWBlockHeight from the one before.                                     *)
Counts(x) == IF x.kind = "pos" THEN 0 ELSE 1
Connected(h, b) ==
  LET n[i \in 0..Len(b)] ==
        IF IsPrefix(SubSeq(b, 1, i), active) THEN h[SubSeq(b, 1, i)] ELSE n[i - 1] + Counts(b[i])
  IN [c \in DOMAIN h |-> IF IsPrefix(c, b) THEN n[Len(c)] ELSE h[c]]

(* nChainTrust: a block of proof of stake may outweigh many of proof of      *)
(* work, so the tip may move to a lower height.  A block not seen first has *)
(* to be strictly better.                                                   *)
GetBlockProof(x) == IF x.kind = "pos" THEN StakeProof ELSE 1
ChainTrust(b) == FoldLeft(LAMBDA sum, x : sum + GetBlockProof(x), 0, b)
Better(b) == ChainTrust(b) > ChainTrust(active)

(* ProcessNewBlock for a block blk made by who on p. *)
ProcessNewBlock(p, blk, who) ==
  LET b == Append(p, [kind |-> blk.kind, by |-> who])
      h == [c \in blocks \cup {b} |-> IF c = b THEN 0 ELSE powHeight[c]]
  IN IF b \in blocks THEN UNCHANGED <<blocks, powHeight, active, refused>>
     ELSE IF ~ ContextualCheckBlock(p, blk)
       THEN refused' = refused \cup {[prev |-> p, block |-> blk, by |-> who]}
            /\ UNCHANGED <<blocks, powHeight, active>>
     ELSE /\ blocks' = blocks \cup {b}
          /\ IF ~ Better(b) THEN powHeight' = h /\ UNCHANGED <<active, refused>>
             ELSE /\ powHeight' = Connected(h, Connectable(b))
                  /\ IF Connectable(b) = b THEN active' = b /\ UNCHANGED refused
                     ELSE UNCHANGED active
                          /\ refused' = refused \cup {[prev |-> p, block |-> blk, by |-> who]}

(* A peer that made a block by the same rules, on a tip of its own: its     *)
(* nPOWBlockHeight is exact.                                                *)
PeerBlock(p, kind) ==
  LET pow == IF IsHalvingActive(p) THEN GetBlockReward(Height(p) + 1)
             ELSE GetProofOfWorkReward(TruePowHeight(p) + 1)
  IN /\ Cardinality(blocks) < MaxBlocks
     /\ ProcessNewBlock(p, [kind |-> kind, height |-> Height(p) + 1,
                            value |-> IF kind = "pos" THEN CoinstakeValue(p) ELSE pow], "peer")
     /\ UNCHANGED <<base, staker, miner>>
-----------------------------------------------------------------------------
(* PoSMiner.  The tip is read before CreateNewBlock takes cs_main and reads *)
(* it again; the coinstake is found there or not.  TestBlockValidity looks  *)
(* at the block before IncrementExtraNonce puts the height above the first  *)
(* tip into it; if it fails, the exception ends the thread.                 *)
Resting == [pc |-> "rest", tip |-> <<>>, prev |-> <<>>,
            block |-> [kind |-> "pos", height |-> 0, value |-> 0]]

StakeReadTip ==
  /\ staker.pc = "rest" /\ staker' = [staker EXCEPT !.pc = "read", !.tip = active]
  /\ UNCHANGED <<base, blocks, powHeight, active, miner, refused>>

TestBlockValidity(p, blk) == ContextualCheckBlock(p, blk) /\ CoinstakeFits(p)

StakeCreate ==
  /\ staker.pc = "read" /\ Cardinality(blocks) <= MaxBlocks
  /\ LET blk == [kind |-> "pos", height |-> Height(active) + 1, value |-> CoinstakeValue(active)]
     IN \/ staker' = Resting
        \/ staker' = IF TestBlockValidity(active, blk)
                       THEN [staker EXCEPT !.pc = "found", !.prev = active,
                                           !.block = [blk EXCEPT !.height = Height(staker.tip) + 1]]
                       ELSE [Resting EXCEPT !.pc = "ended"]
  /\ UNCHANGED <<base, blocks, powHeight, active, miner, refused>>

(* ProcessBlockFound: a look at the tip, then ProcessNewBlock. *)
StakeFound ==
  /\ staker.pc = "found"
  /\ staker' = IF staker.prev = active THEN [staker EXCEPT !.pc = "fresh"] ELSE Resting
  /\ UNCHANGED <<base, blocks, powHeight, active, miner, refused>>
StakeSubmit ==
  /\ staker.pc = "fresh" /\ staker' = Resting
  /\ ProcessNewBlock(staker.prev, staker.block, "staker")
  /\ UNCHANGED <<base, miner>>
-----------------------------------------------------------------------------
(* PulsarMiner, for curvehash: the same, without TestBlockValidity, and a   *)
(* search that is given up when the tip is not the one read first.          *)
MineReadTip ==
  /\ miner.pc = "rest" /\ miner' = [miner EXCEPT !.pc = "read", !.tip = active]
  /\ UNCHANGED <<base, blocks, powHeight, active, staker, refused>>
MineCreate ==
  /\ miner.pc = "read" /\ Cardinality(blocks) <= MaxBlocks
  /\ miner' = [miner EXCEPT !.pc = "search", !.prev = active,
                 !.block = [kind |-> "curve", height |-> Height(miner.tip) + 1,
                            value |-> CoinbaseValue(active)]]
  /\ UNCHANGED <<base, blocks, powHeight, active, staker, refused>>
MineSearch ==
  /\ miner.pc = "search"
  /\ \/ miner' = [miner EXCEPT !.pc = "found"]
     \/ miner.tip # active /\ miner' = Resting
  /\ UNCHANGED <<base, blocks, powHeight, active, staker, refused>>
MineFound ==
  /\ miner.pc = "found"
  /\ miner' = IF miner.prev = active THEN [miner EXCEPT !.pc = "fresh"] ELSE Resting
  /\ UNCHANGED <<base, blocks, powHeight, active, staker, refused>>
MineSubmit ==
  /\ miner.pc = "fresh" /\ miner' = Resting
  /\ ProcessNewBlock(miner.prev, miner.block, "miner")
  /\ UNCHANGED <<base, staker>>
-----------------------------------------------------------------------------
(* A node stakes (-staking) or mines (-gen): to each of the threads the     *)
(* blocks of the other are like those of a peer.                            *)
Off == [Resting EXCEPT !.pc = "off"]
MintInit ==
  /\ base \in BaseHeights /\ blocks = {<<>>} /\ powHeight = [b \in blocks |-> base]
  /\ active = <<>> /\ refused = {}
  /\ \/ staker = Resting /\ miner = Off
     \/ staker = Off /\ miner = Resting

MintNext ==
  \/ StakeReadTip \/ StakeCreate \/ StakeFound \/ StakeSubmit
  \/ MineReadTip \/ MineCreate \/ MineSearch \/ MineFound \/ MineSubmit
  \/ \E p \in blocks, k \in PeerKinds : PeerBlock(p, k)

MintSpec == MintInit /\ [][MintNext]_mintVars
-----------------------------------------------------------------------------
(* Type: what is connected is indexed, and the best of it is active. *)
MintTypeOK ==
  /\ DOMAIN powHeight = blocks /\ \A b \in blocks : \A i \in 0..Len(b) : SubSeq(b, 1, i) \in blocks
  /\ active \in blocks /\ \A b \in blocks : ~ Better(b)
  /\ staker.pc \in {"rest", "read", "found", "fresh", "ended", "off"}
  /\ miner.pc \in {"rest", "read", "search", "found", "fresh", "off"}

(* CreateNewBlock throws when TestBlockValidity fails, which ends the stake *)
(* minter for good.  What the wallet claims by the height of the tip is     *)
(* never above what CheckTxInputs allows by the height of the last block of *)
(* proof of work, as rewards fall with the height (below 47,000,000, where  *)
(* GetBlockReward rises once).                                              *)
StakerLives == staker.pc # "ended"

(* Blocks made by the rules are accepted in whatever order they come, on    *)
(* branches that were never connected too.  Only a block made here can be   *)
(* refused, when the tip moved to another height between the two reads: its *)
(* coinbase has the wrong height then.                                      *)
OnlyStaleRefused ==
  \A r \in refused : r.by # "peer" /\ r.block.height # Height(r.prev) + 1
=============================================================================
