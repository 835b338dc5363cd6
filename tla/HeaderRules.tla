---------------------------- MODULE HeaderRules ----------------------------
(***************************************************************************)
(* What makes a block header valid after its parent: difficulty, proof of  *)
(* work, time, sizes.  The code holds these rules twice, in the RPC that   *)
(* mines and imports blocks and in the block cache that stores them.       *)
(*                                                                         *)
(* A digest is a number of DigestDigits digits in base Radix (32 bytes in  *)
(* the code).  "sealed" says that the header's hash is the hash of its     *)
(* contents, "mixed" that its mix hash is the mining digest of its nonce.  *)
(***************************************************************************)
EXTENDS Integers, FiniteSetsExt, SequencesExt

CONSTANTS
  MinDifficulty, BaseDifficulty, MaxDifficulty, GenesisDifficulty,
  TargetInterval,            \* seconds a block should take
  MaxExtra, MaxImportExtra,  \* bytes of extra data: cache and miner, import
  Radix, DigestDigits,       \* digests are numbers below Radix^DigestDigits
  DivisorLimit,              \* larger difficulties have target 0
  LegacyLow, LegacyHigh      \* where legacy proof of work wants one digit more

ASSUME RulesAssumption ==
  /\ {MinDifficulty, BaseDifficulty, MaxDifficulty, GenesisDifficulty} \subseteq Nat \ {0}
  /\ MinDifficulty <= BaseDifficulty /\ BaseDifficulty <= MaxDifficulty
  /\ TargetInterval \in Nat /\ MaxImportExtra \in Nat /\ MaxExtra \in Nat /\ MaxImportExtra <= MaxExtra
  /\ Radix \in Nat \ {0, 1} /\ DigestDigits \in Nat \ {0} /\ DivisorLimit \in Nat \ {0}

PowVersion == 2   \* POW_TARGET_HEADER_VERSION
Digits == [k \in 1..DigestDigits |-> k]
MaxTarget == FoldLeft(LAMBDA acc, k : acc * Radix + (Radix - 1), 0, Digits)   \* every digit the largest

Monus(a, b) == IF a > b THEN a - b ELSE 0
Clamp(lo, x, hi) == IF x < lo THEN lo ELSE IF x > hi THEN hi ELSE x

(* Difficulty moves by a tenth when the block came early or late. *)
Stepped(d, elapsed) ==
  IF elapsed <= TargetInterval \div 2 THEN (d * 110) \div 100
  ELSE IF elapsed >= 2 * TargetInterval THEN (d * 90) \div 100
  ELSE d

AdjustMiningDifficulty(difficulty, parentTime, now) ==
  Clamp(MinDifficulty,
        Stepped(IF difficulty = 0 THEN BaseDifficulty ELSE difficulty, Monus(now, parentTime)),
        MaxDifficulty)

(* The target of a difficulty: long division of MaxTarget, digit by digit. *)
DivideDigit(divisor, acc) ==
  LET value == acc.rest * Radix + (Radix - 1)
      digit == Min({value \div divisor, Radix - 1})
  IN  [quotient |-> acc.quotient * Radix + digit, rest |-> value % divisor]

PowTarget(difficulty) ==
  IF difficulty = 0 THEN MaxTarget
  ELSE IF difficulty > DivisorLimit THEN 0
  ELSE FoldLeft(LAMBDA acc, k : DivideDigit(difficulty, acc),
                [quotient |-> 0, rest |-> 0], Digits).quotient

DigestZeros(digest) == Cardinality({k \in 1..DigestDigits : digest < Radix^(DigestDigits - k)})
LegacyZeros(difficulty) ==
  IF difficulty >= LegacyHigh THEN 4 ELSE IF difficulty >= LegacyLow THEN 3 ELSE 2

PowMeetsBlockRule(version, digest, parentDifficulty) ==
  IF version >= PowVersion THEN digest <= PowTarget(parentDifficulty)
  ELSE DigestZeros(digest) >= LegacyZeros(parentDifficulty)

(* The two roots a chain may start from. *)
Header(version, number, hash, parent, time, difficulty, extra, digest) ==
  [version |-> version, number |-> number, hash |-> hash, parent |-> parent, time |-> time,
   difficulty |-> difficulty, extra |-> extra, digest |-> digest, sealed |-> TRUE, mixed |-> TRUE]

ZeroHash == 0
GenesisHash == 1
LegacyMiningRoot == Header(1, 0, ZeroHash, ZeroHash, 0, BaseDifficulty, 0, 0)
GenesisBlock == Header(1, 0, GenesisHash, ZeroHash, 0, GenesisDifficulty, 17, 0)
IsLegacyMiningRoot(h) ==
  h.number = 0 /\ h.hash = ZeroHash /\ h.parent = ZeroHash /\ h.difficulty = BaseDifficulty

(* What the block cache, its journal and header sync demand. *)
Follows(parent, h) == h.parent = parent.hash /\ h.number = parent.number + 1

ValidateHeaderContents(parent, h) ==
  /\ h.sealed
  /\ h.version # 0
  /\ Follows(parent, h)
  /\ h.time >= parent.time
  /\ h.extra <= MaxExtra
  /\ \/ h.difficulty = AdjustMiningDifficulty(parent.difficulty, parent.time, h.time)
     \/ IsLegacyMiningRoot(parent) /\ h.number = 1 /\ h.difficulty = BaseDifficulty
  /\ h.mixed
  /\ PowMeetsBlockRule(h.version, h.digest, parent.difficulty)

ValidateAgainstRoot(h) ==
  ValidateHeaderContents(LegacyMiningRoot, h) \/ ValidateHeaderContents(GenesisBlock, h)

(* What the import RPC demands: BlockHeader::validate and the same work. *)
ValidateImportedHeader(parent, h) ==
  /\ h.sealed
  /\ h.version # 0
  /\ Follows(parent, h)
  /\ h.time > parent.time
  /\ h.extra <= MaxImportExtra
  /\ h.difficulty = AdjustMiningDifficulty(parent.difficulty, parent.time, h.time)
  /\ h.mixed
  /\ PowMeetsBlockRule(h.version, h.digest, parent.difficulty)

(* A share a miner hands in for the work on parent, and the block made of it. *)
ShareOfAnyLabel(parent, digest, label) == digest <= PowTarget(parent.difficulty)
ShareAccepted(parent, digest, label) == digest <= PowTarget(parent.difficulty) /\ label <= MaxExtra
MinedHeader(parent, hash, now, digest, label) ==
  Header(PowVersion, parent.number + 1, hash, parent.hash, now,
         AdjustMiningDifficulty(parent.difficulty, parent.time, now), label, digest)
=============================================================================
