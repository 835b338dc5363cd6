-------------------------------- MODULE U256 --------------------------------
(***************************************************************************)
(* Unsigned and signed words of the account code: Width digits of Bits     *)
(* bits, the first the most significant (32 bytes in the code), computed   *)
(* digit by digit.  IntOf gives the integer a word stands for.             *)
(*                                                                         *)
(* Left out: overflowing_mul, and what is built on it, indexes below zero  *)
(* and panics whatever it is given.                                        *)
(***************************************************************************)
EXTENDS Integers, Sequences, FiniteSetsExt, SequencesExt

CONSTANTS Bits, Width

ASSUME WordAssumption == Bits \in Nat \ {0} /\ Width \in Nat \ {0}

Power(base, n) == LET power[i \in 0..n] == IF i = 0 THEN 1 ELSE power[i - 1] * base IN power[n]

Digit == Power(2, Bits)
Place(n) == Power(Digit, n)   \* what a digit is worth that has n digits after it
Modulus == Place(Width)
Word == [1..Width -> 0..(Digit - 1)]
IntOf(w) == LET value[i \in 0..Width] == IF i = 0 THEN 0 ELSE value[i - 1] * Digit + w[i] IN value[Width]
WordOf(n) == [i \in 1..Width |-> (n \div Place(Width - i)) % Digit]

Zero == [i \in 1..Width |-> 0]
Top == [i \in 1..Width |-> Digit - 1]

\* carry[i] is what comes into digit i.
AddNoCarry(a, b) == [word |-> [i \in 1..Width |-> (a[i] + b[i]) % Digit], overflow |-> a[1] + b[1] >= Digit]

OverflowingAdd(a, b) ==
  LET carry[i \in 0..Width] == IF i = Width THEN 0 ELSE (a[i + 1] + b[i + 1] + carry[i + 1]) \div Digit
  IN  [word |-> [i \in 1..Width |-> (a[i] + b[i] + carry[i]) % Digit], overflow |-> carry[0] # 0]

OverflowingSub(a, b) ==
  LET borrow[i \in 0..Width] ==
        IF i < Width /\ a[i + 1] - b[i + 1] + borrow[i + 1] < 0 THEN -1 ELSE 0
  IN  [word |-> [i \in 1..Width |-> (a[i] - b[i] + borrow[i]) % Digit], overflow |-> borrow[0] # 0]

WrappingAdd(a, b) == OverflowingAdd(a, b).word
WrappingSub(a, b) == OverflowingSub(a, b).word
SaturatingAdd(a, b) == LET sum == OverflowingAdd(a, b) IN IF sum.overflow THEN Top ELSE sum.word
SaturatingSub(a, b) == LET rest == OverflowingSub(a, b) IN IF rest.overflow THEN Zero ELSE rest.word

\* The order the derive gives: the first digit that differs decides.
Less(a, b) == \E i \in 1..Width : a[i] < b[i] /\ \A j \in 1..(i - 1) : a[j] = b[j]

LeadingZeros(w) ==
  LET first == Min({Width + 1} \cup {i \in 1..Width : w[i] # 0})
      high == IF first > Width THEN 0 ELSE Max({k \in 1..Bits : w[first] >= Power(2, k - 1)})
  IN  IF first > Width THEN Width * Bits ELSE (first - 1) * Bits + (Bits - high)

(* The shifts move digits as if the first were the least significant. *)
Shl(w, n) ==
  LET d == n \div Bits  s == n % Bits
      Low(i) == IF s > 0 /\ i - d > 1 THEN w[i - d - 1] \div Power(2, Bits - s) ELSE 0
  IN  IF n >= Bits * Width THEN Zero
      ELSE [i \in 1..Width |-> IF i > d THEN ((w[i - d] * Power(2, s)) % Digit) + Low(i) ELSE 0]

Shr(w, n) ==
  LET d == n \div Bits  s == n % Bits
      High(i) == IF s > 0 /\ i + d < Width THEN (w[i + d + 1] * Power(2, Bits - s)) % Digit ELSE 0
  IN  IF n >= Bits * Width THEN Zero
      ELSE [i \in 1..Width |-> IF i + d <= Width THEN (w[i + d] \div Power(2, s)) + High(i) ELSE 0]

\* Long division, bit by bit from the top.
Bit(w, k) == (w[(k \div Bits) + 1] \div Power(2, Bits - 1 - (k % Bits))) % 2
One == [i \in 1..Width |-> IF i = Width THEN 1 ELSE 0]

DivideBit(w, divisor, acc, k) ==
  LET shifted == Shl(acc.rest, 1)
      rest == IF Bit(w, k) = 1 THEN OverflowingAdd(shifted, One).word ELSE shifted
      fits == ~Less(rest, divisor)
      i == (k \div Bits) + 1
  IN  [rest |-> IF fits THEN OverflowingSub(rest, divisor).word ELSE rest,
       quotient |-> IF fits THEN [acc.quotient EXCEPT ![i] = @ + Power(2, Bits - 1 - (k % Bits))] ELSE acc.quotient]

Div(w, divisor) ==
  IF divisor = Zero \/ w = Zero THEN Zero
  ELSE FoldLeft(LAMBDA acc, k : DivideBit(w, divisor, acc, k), [rest |-> Zero, quotient |-> Zero],
                [k \in 1..(Bits * Width) |-> k - 1]).quotient

(* I256: a signed number of the lower half of a word is not sign-extended. *)
LowModulus == Place(Width \div 2)
FromSignExtended(n) == WordOf(n % Modulus)
FromI64(n) == WordOf(n % LowModulus)
IsNegative(w) == w[1] >= Digit \div 2
IsPositive(w) == ~IsNegative(w) /\ w # Zero
-----------------------------------------------------------------------------
SumsAreExact(left, right) ==
  LET a == IntOf(left)  b == IntOf(right)
  IN  /\ OverflowingAdd(left, right) = [word |-> WordOf((a + b) % Modulus), overflow |-> a + b >= Modulus]
      /\ OverflowingSub(left, right) = [word |-> WordOf((a - b) % Modulus), overflow |-> a < b]
      /\ IntOf(SaturatingAdd(left, right)) = Min({a + b, Modulus - 1})
      /\ IntOf(SaturatingSub(left, right)) = Max({a - b, 0})
      /\ Less(left, right) = (a < b)

QuotientsAreExact(left, right) ==
  LET a == IntOf(left)  b == IntOf(right)  zeros == LeadingZeros(left)
  IN  /\ a > 0 => Power(2, Bits * Width - 1 - zeros) <= a /\ a < Power(2, Bits * Width - zeros)
      /\ b \in 1..(Digit \div 2) => IntOf(Div(left, right)) = a \div b
=============================================================================
