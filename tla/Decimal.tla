------------------------------- MODULE Decimal -------------------------------
(***************************************************************************)
(* Quantity (src/protocol/value.rs): its canonical decimal text, its order *)
(* and is_multiple_of, whose long division over digits the actions below   *)
(* take one loop iteration at a time.                                      *)
(*                                                                         *)
(* A text is split at its decimal point into sequences of digits; texts    *)
(* with any other character (a sign, an exponent, a second point) are      *)
(* refused and left out.                                                   *)
(***************************************************************************)
EXTENDS Integers, SequencesExt

CONSTANTS
  DecimalDigit,   \* the digits texts are built from, among 0 .. 9
  MaxInteger,     \* bound: digits before the point
  MaxFraction,    \* bound: digits after the point
  MaxPrecision,   \* DECIMAL_MAX_PRECISION
  NoAnswer

ASSUME DecimalAssumption ==
  /\ DecimalDigit \subseteq 0 .. 9 /\ 0 \in DecimalDigit
  /\ MaxInteger \in Nat \ {0} /\ MaxFraction \in Nat /\ MaxPrecision \in Nat
  /\ NoAnswer \notin BOOLEAN

Texts ==
  { t \in [ integer: UNION {[1 .. n -> DecimalDigit] : n \in 0 .. MaxInteger},
            point: BOOLEAN,
            fraction: UNION {[1 .. n -> DecimalDigit] : n \in 0 .. MaxFraction} ] :
    ~t.point => t.fraction = <<>> }

Accepts_Zero(t) ==
  /\ Len(t.integer) > 0
  /\ Len(t.integer) > 1 => Head(t.integer) # 0
  /\ t.point => /\ Len(t.fraction) \in 1 .. MaxPrecision
                /\ Last(t.fraction) # 0

Accepts_TrailingZero(t) ==
  /\ Len(t.integer) > 0
  /\ Len(t.integer) > 1 => Head(t.integer) # 0
  /\ t.point => Len(t.fraction) \in 1 .. MaxPrecision
  /\ \E d \in Range(t.integer) \cup Range(t.fraction) : d # 0

\* validate_quantity: no empty part, no redundant zero, not zero.
Accepts(t) ==
  /\ Len(t.integer) > 0
  /\ Len(t.integer) > 1 => Head(t.integer) # 0
  /\ t.point => /\ Len(t.fraction) \in 1 .. MaxPrecision
                /\ Last(t.fraction) # 0
  /\ ~(t.integer = <<0>> /\ \A d \in Range(t.fraction) : d = 0)

Quantities == {t \in Texts : Accepts(t)}

-----------------------------------------------------------------------------
(* The helpers over digits, most significant first.                        *)

TrimZeroes(s) ==
  LET first == SelectInSeq(s, LAMBDA d : d # 0) IN
  IF first = 0 THEN <<>> ELSE SubSeq(s, first, Len(s))

\* compare_decimal: by length, then digit by digit.
CompareDecimal(left, right) ==
  LET l == TrimZeroes(left)
      r == TrimZeroes(right)
      differ == {i \in DOMAIN l \cap DOMAIN r : l[i] # r[i]} IN
  CASE Len(l) # Len(r) -> IF Len(l) < Len(r) THEN "less" ELSE "greater"
    [] Len(l) = Len(r) /\ differ = {} -> "equal"
    [] Len(l) = Len(r) /\ differ # {} -> IF l[Min(differ)] < r[Min(differ)] THEN "less" ELSE "greater"

DecimalDigits_Unscaled(t, scale) == TrimZeroes(t.integer \o t.fraction)

\* decimal_digits: the digits of t * 10^scale.
DecimalDigits(t, scale) ==
  TrimZeroes(t.integer \o t.fraction \o [i \in 1 .. scale - Len(t.fraction) |-> 0])

ScaleOf(t, u) == Max({Len(t.fraction), Len(u.fraction)})

\* Quantity's Ord.
CompareQuantity(t, u) ==
  CompareDecimal(DecimalDigits(t, ScaleOf(t, u)), DecimalDigits(u, ScaleOf(t, u)))

\* The digit with k digits to its right.
FromRight(s, k) == IF k < Len(s) THEN s[Len(s) - k] ELSE 0

SubtractDecimal_NoBorrow(value, subtrahend) ==
  LET difference == [k \in 0 .. Len(value) |-> FromRight(value, k) - FromRight(subtrahend, k)] IN
  TrimZeroes([i \in DOMAIN value |-> difference[Len(value) - i] % 10])

\* What the loop of subtract_decimal computes of each digit, before ten is
\* added to a negative one: from the right, with a borrow.
Differences(value, subtrahend) ==
  LET difference[k \in 0 .. Len(value)] ==
        FromRight(value, k) - FromRight(subtrahend, k)
          - (IF k > 0 THEN IF difference[k - 1] < 0 THEN 1 ELSE 0 ELSE 0)
  IN difference

\* subtract_decimal.
SubtractDecimal(value, subtrahend) ==
  TrimZeroes([i \in DOMAIN value |->
    LET d == Differences(value, subtrahend)[Len(value) - i] IN IF d < 0 THEN d + 10 ELSE d])

-----------------------------------------------------------------------------
(* is_multiple_of.                                                         *)

VARIABLES
  value, increment,   \* the two quantities
  digits,             \* decimal_remainder's value, what is left of it
  divisor,
  remainder,
  answer

vars == <<value, increment, digits, divisor, remainder, answer>>

Init ==
  /\ value \in Quantities
  /\ increment \in Quantities
  /\ digits = DecimalDigits(value, ScaleOf(value, increment))
  /\ divisor = DecimalDigits(increment, ScaleOf(value, increment))
  /\ remainder = <<>>
  /\ answer = NoAnswer

Reduced == CompareDecimal(remainder, divisor) = "less"

\* The for loop takes the next digit when its while loop has ended.
PushDigit ==
  /\ Reduced /\ digits # <<>>
  /\ remainder' = TrimZeroes(Append(remainder, Head(digits)))
  /\ digits' = Tail(digits)
  /\ UNCHANGED <<value, increment, divisor, answer>>

Subtract ==
  /\ ~Reduced
  /\ remainder' = SubtractDecimal(remainder, divisor)
  /\ UNCHANGED <<value, increment, digits, divisor, answer>>

Answer ==
  /\ Reduced /\ digits = <<>> /\ answer = NoAnswer
  /\ answer' = (\A i \in DOMAIN remainder : remainder[i] = 0)
  /\ UNCHANGED <<value, increment, digits, divisor, remainder>>

Next == PushDigit \/ Subtract \/ Answer

Spec == Init /\ [][Next]_vars

\* The function runs.
FairSpec == Spec /\ WF_vars(Next)

-----------------------------------------------------------------------------
(* Properties.  NumberOf is the reference: what the digits mean.           *)

\* The number that the first n digits write.
LeadingNumbers(s) ==
  LET number[n \in 0 .. Len(s)] == IF n = 0 THEN 0 ELSE 10 * number[n - 1] + s[n]
  IN number

NumberOf(s) == LeadingNumbers(s)[Len(s)]

\* t * 10^MaxFraction.
Scaled(t) == NumberOf(t.integer \o t.fraction \o [i \in 1 .. MaxFraction - Len(t.fraction) |-> 0])

\* Every intermediate digit stays a digit: no cast from i8 to u8 wraps.
TypeOK ==
  /\ value \in Texts /\ increment \in Texts
  /\ \A s \in {digits, divisor, remainder} : Range(s) \subseteq 0 .. 9
  /\ answer \in BOOLEAN \cup {NoAnswer}

\* The order of quantities is the order of the numbers they write, and equal
\* numbers have equal texts: Ord agrees with the derived Eq and Hash.
OrderExact ==
  LET order == CompareQuantity(value, increment) IN
  /\ order = "less"    <=> Scaled(value) < Scaled(increment)
  /\ order = "greater" <=> Scaled(value) > Scaled(increment)
  /\ order = "equal"   <=> value = increment

\* The long division's loop invariant: what is left to divide is congruent to
\* the value modulo the divisor, and stays below ten times the divisor.
LongDivision ==
  LET whole == NumberOf(DecimalDigits(value, ScaleOf(value, increment))) IN
  /\ TypeOK
  /\ NumberOf(remainder \o digits) % NumberOf(divisor) = whole % NumberOf(divisor)
  /\ NumberOf(remainder) < 10 * NumberOf(divisor)

\* A quantity aligns with the increment exactly when the numbers divide.
MultipleExact ==
  answer # NoAnswer => (answer <=> Scaled(value) % Scaled(increment) = 0)

\* The repeated subtraction ends for every pair of quantities.
Answers == <>(answer # NoAnswer)
=============================================================================
