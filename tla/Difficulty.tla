----------------------------- MODULE Difficulty -----------------------------
(***************************************************************************)
(* The difficulty: a chain that grows by blocks of three kinds, proof of   *)
(* stake and the two proofs of work, each of which must carry the target   *)
(* DarkGravityWave computes from the last blocks of its kind (pow.cpp).    *)
(*                                                                         *)
(* The words of arith_uint256 have Width bits instead of 256, the limits   *)
(* are as many bits below that as in chainparams.cpp (16 for curvehash and *)
(* stake, 12 for MinotaurX), and a window of few blocks spans as long as   *)
(* the 30 of the code; so a product wraps here if and only if it does      *)
(* there.  Targets are kept as SetCompact reads them from nBits.           *)
(***************************************************************************)
EXTENDS Integers, Sequences, FiniteSets

CONSTANTS
  Width,              \* bits of a word
  DigitBits,          \* bits of a digit of the compact form, 8 in the code
  nDgwPastBlocks,
  Spacing,            \* target spacing: kind -> before reductionForkBlock
  ReducedSpacing,     \* ... and after it
  powForkTime, reductionForkBlock,
  TimeSteps,          \* from the time of a block to that of the next
  MaxLength           \* bound on the chain

DiffKinds == {"pos", "curve", "mino"}

ASSUME DifficultyConstants ==
  /\ Width \in Nat /\ Width > 20 /\ DigitBits \in Nat \ {0} /\ nDgwPastBlocks \in Nat \ {0}
  /\ {Spacing, ReducedSpacing} \subseteq [DiffKinds -> Nat \ {0}]
  /\ TimeSteps \subseteq Int /\ {powForkTime, reductionForkBlock, MaxLength} \subseteq Nat

VARIABLE headers      \* the chain: the genesis block is headers[1]

Word == 2 ^ Width
powTypeLimits == [k \in DiffKinds |-> 2 ^ (Width - (IF k = "mino" THEN 12 ELSE 16)) - 1]

powLimit == powTypeLimits["curve"]

Smaller(a, b) == IF a < b THEN a ELSE b
Larger(a, b) == IF a < b THEN b ELSE a

(* What SetCompact reads from GetCompact: three digits are kept, and two if *)
(* the first would set the sign bit.                                        *)
CompactSize(x) ==
  LET size == CHOOSE s \in 0..Width \div DigitBits : x < 2 ^ (DigitBits * s) /\ (s = 0 \/ x >= 2 ^ (DigitBits * (s - 1)))
  IN IF 2 * x >= 2 ^ (DigitBits * size) THEN size + 1 ELSE size
Compact(x) ==
  LET unit == 2 ^ (DigitBits * Larger(0, CompactSize(x) - 3)) IN (x \div unit) * unit

(* pindexPrev is headers[i]; i = 0 stands for nullptr. *)
IsMinoEnabled(i) == i # 0 /\ headers[i].time > powForkTime
IsReductionActive(i) == i # 0 /\ i - 1 >= reductionForkBlock

OfKind(k) == {i \in DOMAIN headers : headers[i].kind = k}

(* The blocks the average is taken over, the latest first. *)
Window(k) ==
  [n \in 1..nDgwPastBlocks |->
     CHOOSE i \in OfKind(k) : Cardinality({j \in OfKind(k) : j > i}) = n - 1]

(* The running average of their targets, with its truncations. *)
PastTargetAvg(window) ==
  LET avg[n \in 0..nDgwPastBlocks] ==
        IF n = 0 THEN 0
        ELSE ((avg[n - 1] * (n - 1) + headers[window[n]].target) % Word) \div n
  IN avg[nDgwPastBlocks]

(* Which spacing holds is decided by the block before the window. *)
TargetTimespan(k, oldest) ==
  nDgwPastBlocks *
    IF k # "pos" /\ ~ IsMinoEnabled(oldest - 1)
    THEN IF IsReductionActive(oldest - 1) THEN ReducedSpacing["pos"] ELSE Spacing["pos"]
    ELSE IF IsReductionActive(oldest - 1) THEN ReducedSpacing[k] ELSE Spacing[k]

ActualTimespan(window) == headers[window[1]].time - headers[window[nDgwPastBlocks]].time

Clamped_below(span, target) == Larger(span, target \div 3)
Clamped(span, target) == Smaller(Larger(span, target \div 3), target * 3)

Retarget(avg, span, target) == ((avg * span) % Word) \div target

Limited(k, new) == Smaller(new, powTypeLimits[k])

DarkGravityWave(k) ==
  IF Cardinality(OfKind(k)) < nDgwPastBlocks THEN Compact(powTypeLimits[k])
  ELSE LET window == Window(k)
           target == TargetTimespan(k, window[nDgwPastBlocks])
           span == Clamped(ActualTimespan(window), target)
       IN Compact(Limited(k, Retarget(PastTargetAvg(window), span, target)))

(* The range check of CheckProofOfWork: a block dated before the fork is    *)
(* held to the one limit of old, whatever its kind.  No proof of stake goes *)
(* through it, but no kernel meets a target 0.                              *)
InRange(k, time, target) ==
  target > 0 /\ target <= (IF time > powForkTime THEN powTypeLimits[k] ELSE powLimit)

MedianTimePast ==
  LET last == {i \in DOMAIN headers : i > Len(headers) - 11}
      Earlier(t) == Cardinality({i \in last : headers[i].time < t})
      UpTo(t) == Cardinality({i \in last : headers[i].time <= t})
      half == Cardinality(last) \div 2
  IN CHOOSE t \in {headers[i].time : i \in last} : Earlier(t) <= half /\ half < UpTo(t)

(* A block of kind k, made as CreateNewBlock makes it, is accepted.  The    *)
(* steps are smaller than MAX_FUTURE_BLOCK_TIME.                            *)
AddHeader(k, step) ==
  LET time == headers[Len(headers)].time + step
  IN /\ Len(headers) < MaxLength
     /\ time > MedianTimePast
     /\ k = "mino" => IsMinoEnabled(Len(headers))
     /\ InRange(k, time, DarkGravityWave(k))
     /\ headers' = Append(headers, [kind |-> k, time |-> time, target |-> DarkGravityWave(k)])

(* The genesis block is 16 times harder than the limit of its kind. *)
DiffInit == headers = <<[kind |-> "curve", time |-> 0, target |-> Compact(2 ^ (Width - 20) - 1)]>>

DiffNext == \E k \in DiffKinds, step \in TimeSteps : AddHeader(k, step)

DiffSpec == DiffInit /\ [][DiffNext]_headers
-----------------------------------------------------------------------------
(* Properties. *)

(* The type of the chain; no target is easier than its limit. *)
DiffTypeOK ==
  /\ Len(headers) \in 1..MaxLength
  /\ \A i \in DOMAIN headers :
       /\ headers[i].kind \in DiffKinds /\ headers[i].time \in Int
       /\ headers[i].target \in 1..powTypeLimits[headers[i].kind]

(* The one case in which the product of pow.cpp:143 can wrap: MinotaurX, if *)
(* the window does not lie after reductionForkBlock.                        *)
MayWrap(k) ==
  /\ k = "mino" /\ Cardinality(OfKind(k)) >= nDgwPastBlocks
  /\ ~ IsReductionActive(Window(k)[nDgwPastBlocks] - 1)

(* The mean of the past targets times the time taken over the time          *)
(* intended, within a factor of three and the limit, in exact arithmetic.   *)
Exact(k) ==
  LET window == Window(k)
      target == TargetTimespan(k, window[nDgwPastBlocks])
      span == IF 3 * ActualTimespan(window) < target THEN target \div 3
              ELSE IF ActualTimespan(window) > 3 * target THEN 3 * target
              ELSE ActualTimespan(window)
      total[n \in 0..nDgwPastBlocks] ==
        IF n = 0 THEN 0 ELSE total[n - 1] + headers[window[n]].target
      new == (total[nDgwPastBlocks] * span) \div (nDgwPastBlocks * target)
  IN IF new > powTypeLimits[k] THEN powTypeLimits[k] ELSE new

(* Whatever the times and the mixture of the blocks, unless the product may *)
(* have wrapped: after powForkTime the next block of each kind can be       *)
(* made, as the target required of it is one CheckProofOfWork accepts, and  *)
(* this target differs from what exact arithmetic gives only by the         *)
(* truncations, which never make it larger.                                 *)
RetargetNearExact ==
  \A k \in DiffKinds : ~ MayWrap(k) =>
    /\ InRange(k, powForkTime + 1, DarkGravityWave(k))
    /\ Cardinality(OfKind(k)) >= nDgwPastBlocks =>
         /\ DarkGravityWave(k) <= Compact(Exact(k))
         /\ DarkGravityWave(k) >= Compact(Larger(0, Exact(k) - 3 * nDgwPastBlocks))
=============================================================================
