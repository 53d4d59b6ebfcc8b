--------------------------- MODULE CompactTarget ---------------------------
(***************************************************************************)
(* internal/consensus/target.go: the compact encoding of targets, the two  *)
(* ways a hash is compared with one, and the retarget rule.                *)
(*                                                                         *)
(* The daemon sends a target as a 32-bit number: a byte with a size, a     *)
(* sign bit, and 23 bits of mantissa.  The GPU loop gives it to            *)
(* CheckProofOfWork with every hash (run.go:214); the CPU loop decodes it  *)
(* once and its workers compare byte by byte (run.go:355, mining.go:111).  *)
(* DarkGravityWaveV3, the daemon's rule for the next target, is called     *)
(* from nowhere in the miner.                                              *)
(*                                                                         *)
(* A digit stands for a byte.  In the program Base = 256, Width = 32,      *)
(* MaxSize = 255 and PastBlocks = 24.  The mantissa has three digits.      *)
(***************************************************************************)
EXTENDS Integers, Sequences, FiniteSetsExt

CONSTANTS
  Base,       \* bound: digits are 0 .. Base - 1, even
  Width,      \* bound: the digits of a hash
  MaxSize,    \* bound: the largest size a compact target can state
  PastBlocks  \* bound: DGWv3PastBlocks

ASSUME EncodingAssumption == /\ Base \in Nat \ {0} /\ Base % 2 = 0
                             /\ Width \in Nat /\ Width > 3
                             /\ MaxSize \in Nat /\ MaxSize > Width
                             /\ PastBlocks \in Nat \ {0}

\* The weight of the digit k places above the last: a shift by k bytes.
Weight[k \in Nat] == IF k = 0 THEN 1 ELSE Base * Weight[k - 1]

SignBit  == Weight[3] \div 2
Compacts == 0 .. (MaxSize + 1) * Weight[3] - 1
PowLimit == (Weight[Width] - 1) \div 2

Digits == [0 .. Width - 1 -> 0 .. Base - 1]
Magnitude(n) == IF n < 0 THEN -n ELSE n

\* len(n.Bytes()): the digits n has, its sign aside.
Len3(n) == Min({k \in 0 .. MaxSize + 1 : Magnitude(n) < Weight[k]})

CompactToBig(compact) ==
  LET size == compact \div Weight[3]
      word == compact % SignBit
      n    == IF size <= 3 THEN word \div Weight[3 - size]
                           ELSE word * Weight[size - 3]
  IN  IF (compact \div SignBit) % 2 = 1 THEN -n ELSE n

\* A mantissa that reaches the sign bit gives up its last digit.
BigToCompact(n) ==
  LET size  == Len3(n)
      word  == IF size <= 3 THEN Magnitude(n) * Weight[3 - size]
                            ELSE Magnitude(n) \div Weight[size - 3]
      carry == word >= SignBit
      mant  == IF carry THEN word \div Base ELSE word
  IN  IF n = 0 THEN 0
      ELSE (IF carry THEN size + 1 ELSE size) * Weight[3] + mant
             + (IF n < 0 /\ mant # 0 THEN SignBit ELSE 0)

-----------------------------------------------------------------------------
(* Comparing a hash with a target. *)

\* SetBytes takes the digits one by one, that of most weight, the hash's last,
\* first.
HashToBig(hash) ==
  LET big[k \in 0 .. Width] ==
        IF k = 0 THEN 0 ELSE big[k - 1] * Base + hash[Width - k]
  IN  big[Width]

CheckProofOfWork(hash, compact) ==
  LET target == CompactToBig(compact)
  IN  target > 0 /\ target <= PowLimit /\ HashToBig(hash) <= target

\* The slice target[32-len(b):] of more than 32 bytes ends the program.
TargetPanics(compact) == Len3(CompactToBig(compact)) > Width

\* Bytes() drops the sign; the digit of most weight comes first.
TargetFromBits(compact) ==
  [i \in 0 .. Width - 1 |->
     (Magnitude(CompactToBig(compact)) \div Weight[Width - 1 - i]) % Base]

\* Mutant of CheckHashTarget: the hash is read from its first byte.
CheckHashTarget_Unreversed(hash, target) ==
  LET diff == {i \in 0 .. Width - 1 : hash[i] # target[i]}
  IN  diff = {} \/ hash[Min(diff)] < target[Min(diff)]

\* The first digit that differs decides; equal is good enough.
CheckHashTarget(hash, target) ==
  LET diff == {i \in 0 .. Width - 1 : hash[Width - 1 - i] # target[i]}
  IN  diff = {} \/ hash[Width - 1 - Min(diff)] < target[Min(diff)]

-----------------------------------------------------------------------------
(* The retarget rule: recent is a sequence of [time, bits], newest first.  *)

\* A target that is no target counts as the easiest.
PastTarget(block, limit) ==
  LET target == CompactToBig(block.bits)
  IN  IF target <= 0 \/ target > limit THEN limit ELSE target

\* The running average of the first blocks, each division rounded down.
Average(recent, limit) ==
  LET avg[count \in 0 .. PastBlocks] ==
        IF count = 0 THEN 0
        ELSE avg[count - 1] + (PastTarget(recent[count], limit) - avg[count - 1]) \div count
  IN  avg[PastBlocks]

Clamped(span, target) ==
  IF span < target \div 3 THEN target \div 3
  ELSE IF span > target * 3 THEN target * 3 ELSE span

DarkGravityWaveV3(recent, spacing, limit, limitBits) ==
  IF Len(recent) < PastBlocks \/ spacing <= 0 THEN limitBits
  ELSE LET timespan == PastBlocks * spacing
           actual   == Clamped(recent[1].time - recent[PastBlocks].time, timespan)
           next     == (Average(recent, limit) * actual) \div timespan
       IN  BigToCompact(IF next > limit THEN limit ELSE next)

-----------------------------------------------------------------------------
(* Properties. *)

\* target.go:136-140: the comparison without big integers decides as
\* CheckProofOfWork does, for every hash and every target a block may have.
ComparisonsAgree ==
  \A compact \in Compacts :
    LET target == CompactToBig(compact)
    IN  target > 0 /\ target <= PowLimit =>
          /\ ~TargetPanics(compact)
          /\ \A hash \in Digits :
               CheckHashTarget(hash, TargetFromBits(compact))
                 <=> CheckProofOfWork(hash, compact)

\* Encoding a target (BigToCompact, target.go:40-66) rounds it towards zero by
\* less than the weight of the last digit kept, keeps its sign, and encoding the
\* rounded target again changes nothing.
RoundTrip ==
  \A n \in -PowLimit .. PowLimit :
    LET compact == BigToCompact(n)
        back    == CompactToBig(compact)
        size    == compact \div Weight[3]
    IN  /\ compact \in Compacts
        /\ Magnitude(back) <= Magnitude(n)
        /\ Magnitude(n) - Magnitude(back) < Weight[IF size <= 3 THEN 0 ELSE size - 3]
        /\ n # 0 => (back < 0 <=> n < 0)
        /\ BigToCompact(back) = compact

\* The windows RetargetBounded is checked on: easy, hard and worthless targets,
\* and blocks that come at once, in time, late, and before their parents.
Windows ==
  [1 .. PastBlocks -> [time : {0, 5, 40}, bits : {0, BigToCompact(PowLimit),
                       BigToCompact(PowLimit \div 2), BigToCompact(Base + 1)}]]

\* Whatever the blocks before say (DarkGravityWaveV3, target.go:68-105), the
\* next target is a target, none is easier than the limit, and the difficulty
\* moves by at most a factor of three from the targets seen; what rounding
\* takes is less than the weight of the encoding's last digit and one.
RetargetBounded ==
  \A recent \in Windows :
    LET compact == DarkGravityWaveV3(recent, 2, PowLimit, BigToCompact(PowLimit))
        next    == CompactToBig(compact)
        size    == compact \div Weight[3]
        unit    == Weight[IF size <= 3 THEN 0 ELSE size - 3]
        seen    == {PastTarget(recent[i], PowLimit) : i \in 1 .. PastBlocks}
    IN  /\ next > 0 /\ next <= PowLimit
        /\ next <= 3 * Max(seen)
        /\ 3 * (next + unit + 1) >= Min(seen)
=============================================================================
