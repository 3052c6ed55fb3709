--------------------------- MODULE Decimal_proofs ---------------------------
(***************************************************************************)
(* The arithmetic over digits is that of the numbers they write, for every *)
(* set of digits and every bound on the texts.  NumberOf and subtract's    *)
(* Differences are recursive functions: a set of naturals that holds 0 and *)
(* with each n its successor is Nat (NatSetInduction, from the             *)
(* well-foundedness of <), hence such a function exists (Recursion) and    *)
(* induction over it is one over a set.                                    *)
(***************************************************************************)
EXTENDS Decimal, WellFoundedInduction, SequenceTheorems, TLAPS

\* What the helpers work on, most significant digit first.
DigitSeq == Seq(0 .. 9)

\* What a digit less a digit and a borrow may be.
LEMMA DigitDifference ==
  ASSUME NEW a \in 0 .. 9, NEW b \in 0 .. 9, NEW c \in 0 .. 1
  PROVE  a - b - c \in -10 .. 9 /\ a - b - 0 = a - b /\ a - b \in -10 .. 9
OBVIOUS

\* A number with one more digit is zero when the number and the digit are.
LEMMA ZeroDigit ==
  ASSUME NEW x \in Nat, NEW c \in 0 .. 9, NEW y, y = 10 * x + c
  PROVE  y = 0 <=> x = 0 /\ c = 0
OBVIOUS

\* Addition is associative.
LEMMA AddThree ==
  ASSUME NEW a \in Nat, NEW b \in Nat, NEW n \in Nat, NEW m \in Nat, b + n = m
  PROVE  (a + b) + n = a + m
OBVIOUS

\* Induction over a set of naturals.
LEMMA NatSetInduction ==
  ASSUME NEW X \in SUBSET Nat, 0 \in X, \A n \in X : n + 1 \in X
  PROVE  X = Nat
<1> SUFFICES ASSUME Nat \ X # {} PROVE FALSE  OBVIOUS
<1>. DEFINE R == OpToRel(<, Nat)
<1>1. \A m, n \in Nat : m < n => <<m, n>> \in R  BY DEF OpToRel
<1>2. IsWellFoundedOn(R, Nat)  BY NatLessThanWellFounded
<1>. HIDE DEF R
<1>3. PICK n \in Nat \ X : \A m \in Nat \ X : ~ (<<m, n>> \in R)
  <2>1. Nat \ X \subseteq Nat  OBVIOUS
  <2>. QED  BY <1>2, <2>1, WFMin
<1>4. n - 1 \in Nat \ X /\ n - 1 < n  OBVIOUS
<1>5. <<n - 1, n>> \in R  BY <1>1, <1>4
<1>. QED  BY <1>3, <1>4, <1>5

\* Induction up to a bound.
LEMMA UpTo ==
  ASSUME NEW m \in Nat, NEW X, 0 \in X, \A n \in 0 .. m - 1 : n \in X => n + 1 \in X
  PROVE  \A n \in 0 .. m : n \in X
<1>. DEFINE Y == {n \in Nat : n <= m => n \in X}
<1>1. 0 \in Y /\ \A n \in Y : n + 1 \in Y  OBVIOUS
<1>2. Y \in SUBSET Nat  OBVIOUS
<1>. HIDE DEF Y
<1>3. Y = Nat  BY <1>1, <1>2, NatSetInduction
<1>. QED  BY <1>3 DEF Y

\* f is built from base by the steps G, one for each number up to m.
Follows(f, m, base, G) == f[0] = base /\ \A n \in 1 .. m : f[n] = G[n][f[n - 1]]

\* A function on 0 .. m is defined by its first value and by each from the one
\* before.
LEMMA Recursion ==
  ASSUME NEW m \in Nat, NEW T, NEW base \in T, NEW G \in [1 .. m -> [T -> T]]
  PROVE  \E f \in [0 .. m -> T] : Follows(f, m, base, G)
<1>. DEFINE Good(f, n) == f \in [0 .. n -> T] /\ f[0] = base /\ \A k \in 1 .. n : f[k] = G[k][f[k - 1]]
            X == {n \in Nat : \E f : Good(f, n)}
<1>1. 0 \in X
  <2>1. Good([k \in 0 .. 0 |-> base], 0)  OBVIOUS
  <2>. QED  BY <2>1
<1>2. ASSUME NEW n \in 0 .. m - 1, n \in X
      PROVE  n + 1 \in X
  <2>1. PICK f : Good(f, n)  BY <1>2
  <2>. DEFINE g == [k \in 0 .. n + 1 |-> IF k = n + 1 THEN G[n + 1][f[n]] ELSE f[k]]
  <2>2. G[n + 1][f[n]] \in T  BY <2>1
  <2>3. Good(g, n + 1)  BY <2>1, <2>2
  <2>4. n + 1 \in Nat  OBVIOUS
  <2>. HIDE DEF Good, g
  <2>. QED  BY <2>3, <2>4
<1>. HIDE DEF X
<1>3. \A n \in 0 .. m - 1 : n \in X => n + 1 \in X  BY <1>2
<1>4. \A n \in 0 .. m : n \in X  BY <1>1, <1>3, UpTo
<1>5. m \in X  BY <1>4
<1>6. PICK f : Good(f, m)  BY <1>5 DEF X
<1>. QED  BY <1>6 DEF Follows

-----------------------------------------------------------------------------
(* The number that a sequence of digits writes.                            *)

\* NumberOf's recursive function exists, and is a natural at each prefix.
LEMMA LeadingNumbersAre ==
  ASSUME NEW s \in DigitSeq
  PROVE  /\ LeadingNumbers(s) \in [0 .. Len(s) -> Nat]
         /\ LeadingNumbers(s)[0] = 0
         /\ \A n \in 1 .. Len(s) : LeadingNumbers(s)[n] = 10 * LeadingNumbers(s)[n - 1] + s[n]
<1>. DEFINE G == [n \in 1 .. Len(s) |-> [x \in Nat |-> 10 * x + s[n]]]
            Is(f) == f = [n \in 0 .. Len(s) |-> IF n = 0 THEN 0 ELSE 10 * f[n - 1] + s[n]]
<1>1. Len(s) \in Nat /\ \A n \in 1 .. Len(s) : s[n] \in 0 .. 9
  BY DEF DigitSeq
<1>2. G \in [1 .. Len(s) -> [Nat -> Nat]]
  BY <1>1
<1>3. PICK f \in [0 .. Len(s) -> Nat] : Follows(f, Len(s), 0, G)
  <2>. HIDE DEF G
  <2>1. 0 \in Nat  OBVIOUS
  <2>. QED  BY <1>1, <1>2, <2>1, Recursion
<1>11. \A n \in 1 .. Len(s) : \A x \in Nat : G[n][x] = 10 * x + s[n]
  OBVIOUS
<1>. HIDE DEF G
<1>4. Is(f)
  <2>1. \A n \in 1 .. Len(s) : f[n - 1] \in Nat  BY <1>1, <1>3
  <2>2. \A n \in 1 .. Len(s) : f[n] = 10 * f[n - 1] + s[n]  BY <1>3, <1>11, <2>1 DEF Follows
  <2>. QED  BY <1>1, <1>3, <2>2 DEF Follows
<1>5. LeadingNumbers(s) = CHOOSE g : Is(g)
  BY DEF LeadingNumbers
<1>6. Is(LeadingNumbers(s))
  <2>. HIDE DEF Is
  <2>. QED  BY <1>4, <1>5
<1>. DEFINE L == LeadingNumbers(s)
<1>7. /\ L = [n \in 0 .. Len(s) |-> IF n = 0 THEN 0 ELSE 10 * L[n - 1] + s[n]]
  BY <1>6
<1>. HIDE DEF L
<1>8. L[0] = 0 /\ \A n \in 1 .. Len(s) : L[n] = 10 * L[n - 1] + s[n]
  BY <1>1, <1>7
<1>. DEFINE X == {n \in 0 .. Len(s) : L[n] \in Nat}
<1>9. \A n \in 0 .. Len(s) : n \in X
  <2>1. 0 \in X  BY <1>1, <1>8
  <2>2. \A n \in 0 .. Len(s) - 1 : n \in X => n + 1 \in X
    <3> SUFFICES ASSUME NEW n \in 0 .. Len(s) - 1, n \in X PROVE n + 1 \in X  OBVIOUS
    <3>1. n + 1 \in 1 .. Len(s) /\ (n + 1) - 1 = n  BY <1>1
    <3>2. L[n + 1] = 10 * L[n] + s[n + 1]  BY <1>8, <3>1
    <3>3. L[n] \in Nat /\ s[n + 1] \in 0 .. 9  BY <1>1, <3>1
    <3>4. L[n + 1] \in Nat  BY <3>2, <3>3
    <3>. QED  BY <1>1, <3>4
  <2>. HIDE DEF X
  <2>. QED  BY <1>1, <2>1, <2>2, UpTo
<1>10. L \in [0 .. Len(s) -> Nat]
  BY <1>7, <1>9
<1>. QED  BY <1>8, <1>10 DEF L

\* What NumberOf returns: a natural, 0 for no digits, and of one more digit
\* ten times the number and the digit.
LEMMA NumberIs ==
  ASSUME NEW s \in DigitSeq
  PROVE  /\ Len(s) \in Nat /\ \A i \in 1 .. Len(s) : s[i] \in 0 .. 9
         /\ \A n \in 0 .. Len(s) : LeadingNumbers(s)[n] \in Nat
         /\ LeadingNumbers(s)[0] = 0
         /\ \A n \in 0 .. Len(s) - 1 : LeadingNumbers(s)[n + 1] = 10 * LeadingNumbers(s)[n] + s[n + 1]
         /\ NumberOf(s) = LeadingNumbers(s)[Len(s)] /\ NumberOf(s) \in Nat
<1>. DEFINE L == LeadingNumbers(s)
<1>1. L \in [0 .. Len(s) -> Nat] /\ L[0] = 0
      /\ \A n \in 1 .. Len(s) : L[n] = 10 * L[n - 1] + s[n]
  BY LeadingNumbersAre
<1>. HIDE DEF L
<1>2. Len(s) \in Nat /\ \A i \in 1 .. Len(s) : s[i] \in 0 .. 9
  BY DEF DigitSeq
<1>3. \A n \in 0 .. Len(s) : L[n] \in Nat  BY <1>1
<1>4. \A n \in 0 .. Len(s) - 1 : L[n + 1] = 10 * L[n] + s[n + 1]
  <2> SUFFICES ASSUME NEW n \in 0 .. Len(s) - 1 PROVE L[n + 1] = 10 * L[n] + s[n + 1]  OBVIOUS
  <2>1. n + 1 \in 1 .. Len(s) /\ (n + 1) - 1 = n  BY <1>2
  <2>. QED  BY <1>1, <2>1
<1>5. NumberOf(s) = L[Len(s)]  BY DEF NumberOf, L
<1>6. L[Len(s)] \in Nat  BY <1>2, <1>3
<1>. QED  BY <1>1, <1>2, <1>3, <1>4, <1>5, <1>6 DEF L

\* After its first p digits a has the k digits that b has after its first q.
Continues(a, p, b, q, k) ==
  /\ a \in DigitSeq /\ b \in DigitSeq /\ p \in Nat /\ q \in Nat
  /\ p + k <= Len(a) /\ q + k <= Len(b)
  /\ \A i \in 1 .. k : a[p + i] = b[q + i]

\* What two numbers differ by grows by a factor, whatever the digits are.
Advances(k, m) ==
  \A a, p, b, q : Continues(a, p, b, q, k) =>
    LeadingNumbers(a)[p + k] - LeadingNumbers(b)[q + k]
      = m * (LeadingNumbers(a)[p] - LeadingNumbers(b)[q])

\* One step of Advance.
LEMMA NextDigit ==
  ASSUME NEW k \in Nat, NEW a, NEW p, NEW b, NEW q, Continues(a, p, b, q, k + 1)
  PROVE  LET A == LeadingNumbers(a)
             B == LeadingNumbers(b) IN
         /\ A[p] \in Nat /\ B[q] \in Nat
         /\ A[p + k] \in Nat /\ B[q + k] \in Nat
         /\ Continues(a, p, b, q, k)
         /\ A[p + (k + 1)] - B[q + (k + 1)] = 10 * (A[p + k] - B[q + k])
<1>. DEFINE A == LeadingNumbers(a)
            B == LeadingNumbers(b)
<1>1. /\ a \in DigitSeq /\ b \in DigitSeq /\ p \in Nat /\ q \in Nat
      /\ p + (k + 1) <= Len(a) /\ q + (k + 1) <= Len(b)
      /\ \A i \in 1 .. k + 1 : a[p + i] = b[q + i]
  BY DEF Continues
<1>2. /\ Len(a) \in Nat /\ \A n \in 0 .. Len(a) : A[n] \in Nat
      /\ \A n \in 0 .. Len(a) - 1 : A[n + 1] = 10 * A[n] + a[n + 1]
      /\ \A i \in 1 .. Len(a) : a[i] \in 0 .. 9
  BY <1>1, NumberIs
<1>3. /\ Len(b) \in Nat /\ \A n \in 0 .. Len(b) : B[n] \in Nat
      /\ \A n \in 0 .. Len(b) - 1 : B[n + 1] = 10 * B[n] + b[n + 1]
  BY <1>1, NumberIs
<1>. HIDE DEF A, B
<1>4. A[p] \in Nat /\ B[q] \in Nat /\ A[p + k] \in Nat /\ B[q + k] \in Nat
  BY <1>1, <1>2, <1>3
<1>5. Continues(a, p, b, q, k)
  <2>1. \A i \in 1 .. k : a[p + i] = b[q + i]
    <3> SUFFICES ASSUME NEW i \in 1 .. k PROVE a[p + i] = b[q + i]  OBVIOUS
    <3>1. i \in 1 .. k + 1  OBVIOUS
    <3>. QED  BY <1>1, <3>1
  <2>2. p + k <= Len(a) /\ q + k <= Len(b)
    BY <1>1, <1>2, <1>3
  <2>. QED  BY <1>1, <2>1, <2>2 DEF Continues
<1>6. (p + k) + 1 = p + (k + 1) /\ (q + k) + 1 = q + (k + 1)
  BY <1>1
<1>7. /\ A[(p + k) + 1] = 10 * A[p + k] + a[(p + k) + 1]
      /\ B[(q + k) + 1] = 10 * B[q + k] + b[(q + k) + 1]
  BY <1>1, <1>2, <1>3
<1>8. a[p + (k + 1)] = b[q + (k + 1)] /\ a[p + (k + 1)] \in 0 .. 9
  <2>1. k + 1 \in 1 .. k + 1 /\ p + (k + 1) \in 1 .. Len(a)  BY <1>1, <1>2
  <2>2. a[p + (k + 1)] = b[q + (k + 1)]  BY <1>1, <2>1
  <2>. QED  BY <1>2, <2>1, <2>2
<1>9. A[p + (k + 1)] - B[q + (k + 1)] = 10 * (A[p + k] - B[q + k])
  BY <1>4, <1>6, <1>7, <1>8
<1>. QED  BY <1>4, <1>5, <1>9 DEF A, B

\* Two numbers whose next k digits are alike keep their difference, times a
\* power of ten.
LEMMA Advance ==
  ASSUME NEW k \in Nat
  PROVE  \E m \in Nat \ {0} : Advances(k, m)
<1>. DEFINE X == {n \in Nat : \E m \in Nat \ {0} : Advances(n, m)}
<1>1. 0 \in X
  <2>1. Advances(0, 1)
    <3> SUFFICES ASSUME NEW a, NEW p, NEW b, NEW q, Continues(a, p, b, q, 0)
                 PROVE  LeadingNumbers(a)[p + 0] - LeadingNumbers(b)[q + 0]
                          = 1 * (LeadingNumbers(a)[p] - LeadingNumbers(b)[q])
      BY DEF Advances
    <3>1. p + 0 = p /\ q + 0 = q /\ p \in 0 .. Len(a) /\ q \in 0 .. Len(b)
          /\ a \in DigitSeq /\ b \in DigitSeq
      BY NumberIs DEF Continues
    <3>2. LeadingNumbers(a)[p] \in Nat /\ LeadingNumbers(b)[q] \in Nat
      BY <3>1, NumberIs
    <3>. QED  BY <3>1, <3>2
  <2>. QED  BY <2>1
<1>2. ASSUME NEW n \in X
      PROVE  n + 1 \in X
  <2>1. PICK m \in Nat \ {0} : Advances(n, m)  OBVIOUS
  <2>2. Advances(n + 1, 10 * m)
    <3> SUFFICES ASSUME NEW a, NEW p, NEW b, NEW q, Continues(a, p, b, q, n + 1)
                 PROVE  LeadingNumbers(a)[p + (n + 1)] - LeadingNumbers(b)[q + (n + 1)]
                          = (10 * m) * (LeadingNumbers(a)[p] - LeadingNumbers(b)[q])
      BY DEF Advances
    <3>. DEFINE d == LeadingNumbers(a)[p] - LeadingNumbers(b)[q]
                e == LeadingNumbers(a)[p + n] - LeadingNumbers(b)[q + n]
                f == LeadingNumbers(a)[p + (n + 1)] - LeadingNumbers(b)[q + (n + 1)]
    <3>1. n \in Nat  OBVIOUS
    <3>2. d \in Int /\ f = 10 * e /\ Continues(a, p, b, q, n)
      BY <3>1, NextDigit
    <3>3. e = m * d  BY <2>1, <3>2 DEF Advances
    <3>. HIDE DEF d, e, f
    <3>4. f = (10 * m) * d  BY <3>2, <3>3
    <3>. QED  BY <3>4 DEF d, f
  <2>3. 10 * m \in Nat \ {0} /\ n + 1 \in Nat  OBVIOUS
  <2>. QED  BY <2>2, <2>3
<1>3. X \in SUBSET Nat  OBVIOUS
<1>. HIDE DEF X
<1>4. X = Nat  BY <1>1, <1>2, <1>3, NatSetInduction
<1>. QED  BY <1>4 DEF X

\* Where the numbers are the same they stay the same.
LEMMA SameDigits ==
  ASSUME NEW k \in Nat, NEW a, NEW p, NEW b, NEW q, Continues(a, p, b, q, k),
         LeadingNumbers(a)[p] = LeadingNumbers(b)[q]
  PROVE  LeadingNumbers(a)[p + k] = LeadingNumbers(b)[q + k]
<1>. DEFINE c == LeadingNumbers(a)[p + k]
            d == LeadingNumbers(b)[q + k]
            e == LeadingNumbers(a)[p]
<1>1. PICK m \in Nat \ {0} : Advances(k, m)  BY Advance
<1>2. c - d = m * (e - e)
  BY <1>1 DEF Advances
<1>3. /\ a \in DigitSeq /\ b \in DigitSeq
      /\ p \in 0 .. Len(a) /\ p + k \in 0 .. Len(a) /\ q + k \in 0 .. Len(b)
  BY NumberIs DEF Continues
<1>4. c \in Nat /\ d \in Nat /\ e \in Nat
  BY <1>3, NumberIs
<1>. HIDE DEF c, d, e
<1>5. e - e = 0 /\ m * 0 = 0  BY <1>4
<1>6. c = d  BY <1>2, <1>4, <1>5
<1>. QED  BY <1>6 DEF c, d

\* Only zeros write zero.
LEMMA ZeroPrefix ==
  ASSUME NEW s \in DigitSeq
  PROVE  \A n \in 0 .. Len(s) : LeadingNumbers(s)[n] = 0 <=> \A i \in 1 .. n : s[i] = 0
<1>. DEFINE L == LeadingNumbers(s)
            X == {n \in 0 .. Len(s) : L[n] = 0 <=> \A i \in 1 .. n : s[i] = 0}
<1>1. /\ Len(s) \in Nat /\ \A i \in 1 .. Len(s) : s[i] \in 0 .. 9
      /\ \A n \in 0 .. Len(s) : L[n] \in Nat
      /\ L[0] = 0 /\ \A n \in 0 .. Len(s) - 1 : L[n + 1] = 10 * L[n] + s[n + 1]
  BY NumberIs
<1>. HIDE DEF L
<1>2. 0 \in X  BY <1>1
<1>3. \A n \in 0 .. Len(s) - 1 : n \in X => n + 1 \in X
  <2> SUFFICES ASSUME NEW n \in 0 .. Len(s) - 1, n \in X PROVE n + 1 \in X  OBVIOUS
  <2>1. n + 1 \in 1 .. Len(s) /\ n \in 0 .. Len(s) /\ n \in Nat  BY <1>1
  <2>2. L[n + 1] = 10 * L[n] + s[n + 1] /\ L[n] \in Nat /\ s[n + 1] \in 0 .. 9
    BY <1>1, <2>1
  <2>3. L[n + 1] = 0 <=> L[n] = 0 /\ s[n + 1] = 0
    BY <2>2, ZeroDigit
  <2>4. (\A i \in 1 .. n + 1 : s[i] = 0) <=> (\A i \in 1 .. n : s[i] = 0) /\ s[n + 1] = 0
    BY <2>1
  <2>5. L[n] = 0 <=> \A i \in 1 .. n : s[i] = 0  OBVIOUS
  <2>6. L[n + 1] = 0 <=> \A i \in 1 .. n + 1 : s[i] = 0  BY <2>3, <2>4, <2>5
  <2>. QED  BY <1>1, <2>1, <2>6
<1>. HIDE DEF X
<1>4. \A n \in 0 .. Len(s) : n \in X  BY <1>1, <1>2, <1>3, UpTo
<1>. QED  BY <1>4 DEF X, L

\* Digits put together are digits.
LEMMA ConcatIs ==
  ASSUME NEW s \in DigitSeq, NEW t \in DigitSeq
  PROVE  /\ s \o t \in DigitSeq /\ Len(s \o t) = Len(s) + Len(t)
         /\ \A i \in 1 .. Len(s) : (s \o t)[i] = s[i]
         /\ \A i \in 1 .. Len(t) : (s \o t)[Len(s) + i] = t[i]
         /\ \A n \in 0 .. Len(s) : LeadingNumbers(s \o t)[n] = LeadingNumbers(s)[n]
<1>1. Len(s) \in Nat /\ Len(t) \in Nat  BY NumberIs
<1>2. /\ s \o t \in DigitSeq /\ Len(s \o t) = Len(s) + Len(t)
      /\ \A i \in 1 .. Len(s) : (s \o t)[i] = s[i]
      /\ \A i \in 1 .. Len(t) : (s \o t)[Len(s) + i] = t[i]
  BY <1>1 DEF DigitSeq
<1>. DEFINE u == s \o t
<1>. HIDE DEF u
<1>3. ASSUME NEW n \in 0 .. Len(s)
      PROVE  LeadingNumbers(u)[n] = LeadingNumbers(s)[n]
  <2>1. Continues(u, 0, s, 0, n)
    BY <1>1, <1>2 DEF Continues, u
  <2>2. LeadingNumbers(u)[0] = LeadingNumbers(s)[0]
    BY <1>2, NumberIs DEF u
  <2>3. LeadingNumbers(u)[0 + n] = LeadingNumbers(s)[0 + n] /\ 0 + n = n
    BY <2>1, <2>2, SameDigits
  <2>. QED  BY <2>3
<1>. QED  BY <1>2, <1>3 DEF u

\* What follows two numbers takes their difference by one factor.
LEMMA SameTail ==
  ASSUME NEW a \in DigitSeq, NEW b \in DigitSeq, NEW t \in DigitSeq
  PROVE  \E m \in Nat \ {0} : NumberOf(a \o t) - NumberOf(b \o t) = m * (NumberOf(a) - NumberOf(b))
<1>1. Len(a) \in Nat /\ Len(b) \in Nat /\ Len(t) \in Nat  BY NumberIs
<1>2. PICK m \in Nat \ {0} : Advances(Len(t), m)  BY <1>1, Advance
<1>. DEFINE u == a \o t
            v == b \o t
<1>3. /\ u \in DigitSeq /\ Len(u) = Len(a) + Len(t) /\ LeadingNumbers(u)[Len(a)] = LeadingNumbers(a)[Len(a)]
      /\ \A i \in 1 .. Len(t) : u[Len(a) + i] = t[i]
  BY <1>1, ConcatIs
<1>4. /\ v \in DigitSeq /\ Len(v) = Len(b) + Len(t) /\ LeadingNumbers(v)[Len(b)] = LeadingNumbers(b)[Len(b)]
      /\ \A i \in 1 .. Len(t) : v[Len(b) + i] = t[i]
  BY <1>1, ConcatIs
<1>. HIDE DEF u, v
<1>5. Continues(u, Len(a), v, Len(b), Len(t))
  BY <1>1, <1>3, <1>4 DEF Continues
<1>6. LeadingNumbers(u)[Len(a) + Len(t)] - LeadingNumbers(v)[Len(b) + Len(t)]
        = m * (LeadingNumbers(u)[Len(a)] - LeadingNumbers(v)[Len(b)])
  BY <1>2, <1>5 DEF Advances
<1>7. NumberOf(u) - NumberOf(v) = m * (NumberOf(a) - NumberOf(b))
  BY <1>3, <1>4, <1>6 DEF NumberOf
<1>. QED  BY <1>7 DEF u, v

\* The padding of decimal_digits.
Zeros(n) == [i \in 1 .. n |-> 0]

\* Zeros are digits.
LEMMA ZerosAre ==
  ASSUME NEW n \in Nat
  PROVE  /\ Zeros(n) \in DigitSeq /\ Len(Zeros(n)) = n
         /\ \A k \in 0 .. n : LeadingNumbers(Zeros(n))[k] = 0
<1>1. Zeros(n) \in DigitSeq /\ Len(Zeros(n)) = n /\ \A i \in 1 .. n : Zeros(n)[i] = 0
  BY DEF Zeros, DigitSeq
<1>2. \A k \in 0 .. n : \A i \in 1 .. k : Zeros(n)[i] = 0
  BY <1>1
<1>3. \A k \in 0 .. n : LeadingNumbers(Zeros(n))[k] = 0 <=> \A i \in 1 .. k : Zeros(n)[i] = 0
  BY <1>1, ZeroPrefix
<1>. QED  BY <1>1, <1>2, <1>3

\* Zeros at the end multiply every number by one factor.
LEMMA ZerosMultiply ==
  ASSUME NEW n \in Nat
  PROVE  \E m \in Nat \ {0} : \A s \in DigitSeq : NumberOf(s \o Zeros(n)) = m * NumberOf(s)
<1>1. PICK m \in Nat \ {0} : Advances(n, m)  BY Advance
<1>2. ASSUME NEW s \in DigitSeq
      PROVE  NumberOf(s \o Zeros(n)) = m * NumberOf(s)
  <2>. DEFINE u == s \o Zeros(n)
              z == Zeros(n)
  <2>1. z \in DigitSeq /\ Len(z) = n /\ LeadingNumbers(z)[0] = 0 /\ LeadingNumbers(z)[n] = 0
    BY ZerosAre
  <2>2. Len(s) \in Nat  BY NumberIs
  <2>3. /\ u \in DigitSeq /\ Len(u) = Len(s) + n /\ LeadingNumbers(u)[Len(s)] = LeadingNumbers(s)[Len(s)]
        /\ \A i \in 1 .. n : u[Len(s) + i] = z[i]
    <3>. HIDE DEF z
    <3>1. u = s \o z  BY DEF z
    <3>. QED  BY <2>1, <2>2, <3>1, ConcatIs
  <2>. HIDE DEF u, z
  <2>4. Continues(u, Len(s), z, 0, n)
    BY <2>1, <2>2, <2>3 DEF Continues
  <2>5. LeadingNumbers(u)[Len(s) + n] - LeadingNumbers(z)[0 + n]
          = m * (LeadingNumbers(u)[Len(s)] - LeadingNumbers(z)[0])
    BY <1>1, <2>4 DEF Advances
  <2>6. NumberOf(u) - 0 = m * (NumberOf(s) - 0)
    BY <2>1, <2>3, <2>5 DEF NumberOf
  <2>7. NumberOf(u) = m * NumberOf(s)
    BY <2>3, <2>6, NumberIs
  <2>. QED  BY <2>7 DEF u
<1>. QED  BY <1>2

\* push: the number becomes ten times itself and the digit.
LEMMA AppendDigit ==
  ASSUME NEW s \in DigitSeq, NEW d \in 0 .. 9
  PROVE  Append(s, d) \in DigitSeq /\ NumberOf(Append(s, d)) = 10 * NumberOf(s) + d
<1>. DEFINE u == Append(s, d)
<1>1. Len(s) \in Nat  BY NumberIs
<1>2. /\ u \in DigitSeq /\ Len(u) = Len(s) + 1 /\ u[Len(s) + 1] = d
      /\ \A i \in 1 .. Len(s) : u[i] = s[i]
  BY <1>1 DEF DigitSeq
<1>. HIDE DEF u
<1>3. Continues(u, 0, s, 0, Len(s))
  BY <1>1, <1>2 DEF Continues
<1>4. LeadingNumbers(u)[0] = LeadingNumbers(s)[0]
  BY <1>2, NumberIs
<1>5. LeadingNumbers(u)[0 + Len(s)] = LeadingNumbers(s)[0 + Len(s)]
  BY <1>1, <1>3, <1>4, SameDigits
<1>6. LeadingNumbers(u)[Len(s)] = NumberOf(s)
  BY <1>1, <1>5 DEF NumberOf
<1>7. LeadingNumbers(u)[Len(s) + 1] = 10 * LeadingNumbers(u)[Len(s)] + u[Len(s) + 1]
  <2>1. Len(s) \in 0 .. Len(u) - 1  BY <1>1, <1>2
  <2>. QED  BY <1>2, <2>1, NumberIs
<1>8. NumberOf(u) = 10 * NumberOf(s) + d
  BY <1>2, <1>6, <1>7 DEF NumberOf
<1>. QED  BY <1>2, <1>8 DEF u

-----------------------------------------------------------------------------
(* Leading zeros.                                                          *)

\* A set of naturals that is not empty has a least member.
LEMMA Least ==
  ASSUME NEW I \in SUBSET Nat, I # {}
  PROVE  Min(I) \in I /\ \A n \in I : Min(I) <= n
<1>. DEFINE X == {n \in Nat : \A i \in I : n < i}
<1>1. \E x \in I : \A y \in I : x <= y
  <2> SUFFICES ASSUME \A x \in I : \E y \in I : ~(x <= y) PROVE FALSE  OBVIOUS
  <2>1. 0 \in X  OBVIOUS
  <2>2. ASSUME NEW n \in X
        PROVE  n + 1 \in X
    <3> SUFFICES ASSUME NEW i \in I PROVE n + 1 < i  OBVIOUS
    <3>1. n < i  OBVIOUS
    <3>2. PICK j \in I : ~(i <= j)  OBVIOUS
    <3>3. n < j  OBVIOUS
    <3>. QED  BY <3>1, <3>2, <3>3
  <2>3. X \in SUBSET Nat  OBVIOUS
  <2>. HIDE DEF X
  <2>4. X = Nat  BY <2>1, <2>2, <2>3, NatSetInduction
  <2>5. PICK i \in I : TRUE  OBVIOUS
  <2>6. i \in X  BY <2>4
  <2>. QED  BY <2>6 DEF X
<1>. QED  BY <1>1 DEF Min

\* No leading zero.
Trimmed(s) == s # <<>> => s[1] # 0

\* TrimZeroes drops the first z digits, which are zeros.
Drops(s, z, t) ==
  /\ z \in 0 .. Len(s) /\ \A i \in 1 .. z : s[i] = 0
  /\ t \in DigitSeq /\ Len(t) = Len(s) - z
  /\ \A i \in 1 .. Len(t) : t[i] = s[z + i]

\* trim_leading_zeroes drops zeros from the left, and every one of them.
LEMMA TrimIs ==
  ASSUME NEW s \in DigitSeq
  PROVE  Trimmed(TrimZeroes(s)) /\ \E z \in Nat : Drops(s, z, TrimZeroes(s))
<1>. DEFINE I == {i \in 1 .. Len(s) : s[i] # 0}
            first == IF I # {} THEN Min(I) ELSE 0
<1>1. Len(s) \in Nat /\ \A i \in 1 .. Len(s) : s[i] \in 0 .. 9  BY NumberIs
<1>2. TrimZeroes(s) = IF first = 0 THEN <<>> ELSE SubSeq(s, first, Len(s))
  BY DEF TrimZeroes, SelectInSeq
<1>3. CASE I = {}
  <2>1. TrimZeroes(s) = <<>>  BY <1>2, <1>3
  <2>2. Drops(s, Len(s), <<>>)  BY <1>1, <1>3 DEF Drops, DigitSeq
  <2>. QED  BY <1>1, <2>1, <2>2 DEF Trimmed
<1>4. CASE I # {}
  <2>1. I \in SUBSET Nat  BY <1>1
  <2>. HIDE DEF I
  <2>2. Min(I) \in I /\ \A n \in I : Min(I) <= n  BY <1>4, <2>1, Least
  <2>3. first = Min(I)  BY <1>4
  <2>. DEFINE f == Min(I)
              t == SubSeq(s, f, Len(s))
  <2>4. f \in 1 .. Len(s) /\ s[f] # 0  BY <2>2 DEF I
  <2>5. \A i \in 1 .. f - 1 : s[i] = 0
    <3> SUFFICES ASSUME NEW i \in 1 .. f - 1, s[i] # 0 PROVE FALSE  OBVIOUS
    <3>1. i \in 1 .. Len(s) /\ ~(f <= i)  BY <1>1, <2>4
    <3>. QED  BY <2>2, <3>1 DEF I
  <2>6. TrimZeroes(s) = t  BY <1>2, <2>3, <2>4
  <2>. HIDE DEF f
  <2>7. t \in DigitSeq /\ Len(t) = Len(s) - (f - 1) /\ \A i \in 1 .. Len(t) : t[i] = s[(f - 1) + i]
    BY <1>1, <2>4 DEF DigitSeq
  <2>8. t[1] = s[f]  BY <1>1, <2>4, <2>7
  <2>. HIDE DEF t
  <2>9. Drops(s, f - 1, t)  BY <1>1, <2>4, <2>5, <2>7 DEF Drops
  <2>10. f - 1 \in Nat  BY <2>4
  <2>. QED  BY <2>4, <2>6, <2>8, <2>9, <2>10 DEF Trimmed
<1>. QED  BY <1>3, <1>4

\* They do not count.
LEMMA TrimKeeps ==
  ASSUME NEW s \in DigitSeq
  PROVE  /\ TrimZeroes(s) \in DigitSeq /\ Trimmed(TrimZeroes(s))
         /\ NumberOf(TrimZeroes(s)) = NumberOf(s)
<1>. DEFINE t == TrimZeroes(s)
<1>1. PICK z \in Nat : Drops(s, z, t)  BY TrimIs
<1>. HIDE DEF t
<1>2. /\ z \in 0 .. Len(s) /\ \A i \in 1 .. z : s[i] = 0
      /\ t \in DigitSeq /\ Len(t) = Len(s) - z /\ \A i \in 1 .. Len(t) : t[i] = s[z + i]
  BY <1>1 DEF Drops
<1>3. Len(s) \in Nat /\ Len(t) \in Nat  BY <1>2, NumberIs
<1>4. LeadingNumbers(s)[z] = 0 /\ LeadingNumbers(t)[0] = 0
  BY <1>2, <1>3, ZeroPrefix, NumberIs
<1>5. Continues(s, z, t, 0, Len(t))
  BY <1>2, <1>3 DEF Continues
<1>6. LeadingNumbers(s)[z + Len(t)] = LeadingNumbers(t)[0 + Len(t)]
  BY <1>3, <1>4, <1>5, SameDigits
<1>7. z + Len(t) = Len(s) /\ 0 + Len(t) = Len(t)  BY <1>2, <1>3
<1>8. NumberOf(t) = NumberOf(s)  BY <1>6, <1>7 DEF NumberOf
<1>. QED  BY <1>2, <1>8, TrimIs DEF t

-----------------------------------------------------------------------------
(* The order.                                                              *)

\* A difference in a digit outweighs what stands to its right.
LEMMA DigitsDecide ==
  ASSUME NEW x \in Nat, NEW y \in Nat, NEW c \in 0 .. 9, NEW d \in 0 .. 9, x < y \/ (x = y /\ c < d)
  PROVE  10 * x + c < 10 * y + d
OBVIOUS

\* What is behind stays behind, whatever digits follow.
LEMMA Behind ==
  ASSUME NEW a \in DigitSeq, NEW b \in DigitSeq, NEW p \in Nat, NEW q \in Nat, NEW k \in Nat,
         p + k <= Len(a), q + k <= Len(b), LeadingNumbers(a)[p] < LeadingNumbers(b)[q]
  PROVE  LeadingNumbers(a)[p + k] < LeadingNumbers(b)[q + k]
<1>. DEFINE A == LeadingNumbers(a)
            B == LeadingNumbers(b)
            X == {n \in 0 .. k : A[p + n] < B[q + n]}
<1>1. /\ Len(a) \in Nat /\ \A n \in 0 .. Len(a) : A[n] \in Nat
      /\ \A n \in 0 .. Len(a) - 1 : A[n + 1] = 10 * A[n] + a[n + 1]
      /\ \A i \in 1 .. Len(a) : a[i] \in 0 .. 9
  BY NumberIs
<1>2. /\ Len(b) \in Nat /\ \A n \in 0 .. Len(b) : B[n] \in Nat
      /\ \A n \in 0 .. Len(b) - 1 : B[n + 1] = 10 * B[n] + b[n + 1]
      /\ \A i \in 1 .. Len(b) : b[i] \in 0 .. 9
  BY NumberIs
<1>3. A[p] < B[q]  OBVIOUS
<1>. HIDE DEF A, B
<1>4. 0 \in X  BY <1>3
<1>5. \A n \in 0 .. k - 1 : n \in X => n + 1 \in X
  <2> SUFFICES ASSUME NEW n \in 0 .. k - 1, n \in X PROVE n + 1 \in X  OBVIOUS
  <2>1. /\ p + n \in 0 .. Len(a) - 1 /\ q + n \in 0 .. Len(b) - 1
        /\ (p + n) + 1 = p + (n + 1) /\ (q + n) + 1 = q + (n + 1)
        /\ p + n \in 0 .. Len(a) /\ q + n \in 0 .. Len(b)
        /\ p + (n + 1) \in 1 .. Len(a) /\ q + (n + 1) \in 1 .. Len(b)
    BY <1>1, <1>2
  <2>2. A[p + (n + 1)] = 10 * A[p + n] + a[p + (n + 1)]  BY <1>1, <2>1
  <2>3. B[q + (n + 1)] = 10 * B[q + n] + b[q + (n + 1)]  BY <1>2, <2>1
  <2>4. A[p + n] \in Nat /\ a[p + (n + 1)] \in 0 .. 9  BY <1>1, <2>1
  <2>5. B[q + n] \in Nat /\ b[q + (n + 1)] \in 0 .. 9  BY <1>2, <2>1
  <2>6. A[p + n] < B[q + n]  OBVIOUS
  <2>7. 10 * A[p + n] + a[p + (n + 1)] < 10 * B[q + n] + b[q + (n + 1)]
    BY <2>4, <2>5, <2>6, DigitsDecide
  <2>8. A[p + (n + 1)] < B[q + (n + 1)]  BY <2>2, <2>3, <2>7
  <2>9. n + 1 \in 0 .. k  OBVIOUS
  <2>. QED  BY <2>8, <2>9
<1>. HIDE DEF X
<1>6. \A n \in 0 .. k : n \in X  BY <1>4, <1>5, UpTo
<1>7. k \in X  BY <1>6
<1>. QED  BY <1>7 DEF X, A, B

\* A longer number is greater.
LEMMA ShorterIsLess ==
  ASSUME NEW l \in DigitSeq, NEW r \in DigitSeq, Trimmed(r), Len(l) < Len(r)
  PROVE  NumberOf(l) < NumberOf(r)
<1>. DEFINE q == Len(r) - Len(l)
<1>1. Len(l) \in Nat /\ Len(r) \in Nat /\ q \in 1 .. Len(r) /\ q + Len(l) = Len(r)  BY NumberIs
<1>2. r[1] # 0
  <2>1. r # <<>>  BY <1>1
  <2>. QED  BY <2>1 DEF Trimmed
<1>. HIDE DEF q
<1>3. LeadingNumbers(r)[q] \in Nat /\ LeadingNumbers(r)[q] # 0
  <2>1. q \in 0 .. Len(r) /\ 1 \in 1 .. q  BY <1>1
  <2>. QED  BY <1>2, <2>1, ZeroPrefix, NumberIs
<1>4. LeadingNumbers(l)[0] < LeadingNumbers(r)[q]
  BY <1>3, NumberIs
<1>5. LeadingNumbers(l)[0 + Len(l)] < LeadingNumbers(r)[q + Len(l)]
  BY <1>1, <1>4, Behind
<1>. QED  BY <1>1, <1>5 DEF NumberOf

\* Of two of one length the first differing digit decides.
LEMMA FirstDifference ==
  ASSUME NEW l \in DigitSeq, NEW r \in DigitSeq, NEW f \in 1 .. Len(l), Len(l) = Len(r),
         \A i \in 1 .. f - 1 : l[i] = r[i], l[f] < r[f]
  PROVE  NumberOf(l) < NumberOf(r)
<1>1. Len(l) \in Nat /\ f - 1 \in 0 .. Len(l) - 1 /\ l[f] \in 0 .. 9 /\ r[f] \in 0 .. 9  BY NumberIs
<1>2. Continues(l, 0, r, 0, f - 1)
  BY <1>1 DEF Continues
<1>3. LeadingNumbers(l)[0] = LeadingNumbers(r)[0]  BY NumberIs
<1>4. LeadingNumbers(l)[0 + (f - 1)] = LeadingNumbers(r)[0 + (f - 1)]
  BY <1>1, <1>2, <1>3, SameDigits
<1>5. (f - 1) + 1 = f /\ 0 + (f - 1) = f - 1 /\ f - 1 \in 0 .. Len(l)  BY <1>1
<1>6. /\ LeadingNumbers(l)[f] = 10 * LeadingNumbers(l)[f - 1] + l[f]
      /\ LeadingNumbers(r)[f] = 10 * LeadingNumbers(r)[f - 1] + r[f]
      /\ LeadingNumbers(l)[f - 1] \in Nat
  <2>1. LeadingNumbers(l)[(f - 1) + 1] = 10 * LeadingNumbers(l)[f - 1] + l[(f - 1) + 1]
    BY <1>1, NumberIs
  <2>2. LeadingNumbers(r)[(f - 1) + 1] = 10 * LeadingNumbers(r)[f - 1] + r[(f - 1) + 1]
    BY <1>1, NumberIs
  <2>. QED  BY <1>5, <2>1, <2>2, NumberIs
<1>7. LeadingNumbers(l)[f] < LeadingNumbers(r)[f]
  <2>1. 10 * LeadingNumbers(l)[f - 1] + l[f] < 10 * LeadingNumbers(r)[f - 1] + r[f]
    BY <1>1, <1>4, <1>5, <1>6, DigitsDecide
  <2>. QED  BY <1>6, <2>1
<1>. DEFINE k == Len(l) - f
<1>8. k \in Nat /\ f \in Nat /\ f + k <= Len(l) /\ f + k <= Len(r) /\ f + k = Len(l)  BY <1>1
<1>. HIDE DEF k
<1>9. LeadingNumbers(l)[f + k] < LeadingNumbers(r)[f + k]
  BY <1>7, <1>8, Behind
<1>. QED  BY <1>8, <1>9 DEF NumberOf

\* compare_decimal tells the order of the numbers, and equal numbers have the
\* same digits.
LEMMA CompareIs ==
  ASSUME NEW left \in DigitSeq, NEW right \in DigitSeq
  PROVE  LET order == CompareDecimal(left, right) IN
         /\ order = "less"    <=> NumberOf(left) < NumberOf(right)
         /\ order = "greater" <=> NumberOf(left) > NumberOf(right)
         /\ order = "equal"   <=> NumberOf(left) = NumberOf(right)
         /\ order = "equal"   <=> TrimZeroes(left) = TrimZeroes(right)
<1>. DEFINE order == CompareDecimal(left, right)
            l == TrimZeroes(left)
            r == TrimZeroes(right)
            differ == {i \in DOMAIN l \cap DOMAIN r : l[i] # r[i]}
<1>1. order =
        CASE Len(l) # Len(r) -> IF Len(l) < Len(r) THEN "less" ELSE "greater"
          [] Len(l) = Len(r) /\ differ = {} -> "equal"
          [] Len(l) = Len(r) /\ differ # {} -> IF l[Min(differ)] < r[Min(differ)] THEN "less" ELSE "greater"
  BY DEF CompareDecimal
<1>2. /\ l \in DigitSeq /\ Trimmed(l) /\ NumberOf(l) = NumberOf(left)
      /\ r \in DigitSeq /\ Trimmed(r) /\ NumberOf(r) = NumberOf(right)
  BY TrimKeeps
<1>3. Len(l) \in Nat /\ Len(r) \in Nat /\ NumberOf(l) \in Nat /\ NumberOf(r) \in Nat
      /\ DOMAIN l = 1 .. Len(l) /\ DOMAIN r = 1 .. Len(r)
  BY <1>2, NumberIs DEF DigitSeq
<1>. HIDE DEF l, r, order
<1>4. \/ order = "less" /\ NumberOf(l) < NumberOf(r) /\ l # r
      \/ order = "greater" /\ NumberOf(l) > NumberOf(r) /\ l # r
      \/ order = "equal" /\ l = r
  <2>1. CASE Len(l) # Len(r)
    <3>1. order = IF Len(l) < Len(r) THEN "less" ELSE "greater"  BY <1>1, <2>1
    <3>2. Len(l) < Len(r) \/ Len(r) < Len(l)
      <4>1. Len(l) \in Nat /\ Len(r) \in Nat /\ Len(l) # Len(r)  BY <1>3, <2>1
      <4>. DEFINE n == Len(l)
                  m == Len(r)
      <4>2. n \in Nat /\ m \in Nat /\ n # m  BY <4>1
      <4>. HIDE DEF n, m
      <4>3. n < m \/ m < n  BY <4>2
      <4>. QED  BY <4>3 DEF n, m
    <3>3. Len(l) < Len(r) => NumberOf(l) < NumberOf(r)  BY <1>2, ShorterIsLess
    <3>4. Len(r) < Len(l) => NumberOf(r) < NumberOf(l)  BY <1>2, ShorterIsLess
    <3>. QED  BY <1>3, <2>1, <3>1, <3>2, <3>3, <3>4
  <2>2. CASE Len(l) = Len(r) /\ differ = {}
    <3>1. order = "equal"  BY <1>1, <2>2
    <3>2. \A i \in 1 .. Len(l) : l[i] = r[i]  BY <1>3, <2>2
    <3>3. l = r  BY <1>2, <2>2, <3>2, SeqEqual DEF DigitSeq
    <3>. QED  BY <3>1, <3>3
  <2>3. CASE Len(l) = Len(r) /\ differ # {}
    <3>. DEFINE f == Min(differ)
    <3>1. order = IF l[f] < r[f] THEN "less" ELSE "greater"  BY <1>1, <2>3
    <3>2. differ \in SUBSET Nat  BY <1>3
    <3>3. f \in differ /\ \A n \in differ : f <= n  BY <2>3, <3>2, Least
    <3>. HIDE DEF f
    <3>4. f \in 1 .. Len(l) /\ l[f] # r[f] /\ l[f] \in 0 .. 9 /\ r[f] \in 0 .. 9
      BY <1>2, <1>3, <2>3, <3>3, NumberIs
    <3>5. \A i \in 1 .. f - 1 : l[i] = r[i]
      <4> SUFFICES ASSUME NEW i \in 1 .. f - 1, l[i] # r[i] PROVE FALSE  OBVIOUS
      <4>1. i \in differ /\ ~(f <= i)  BY <1>3, <2>3, <3>4
      <4>. QED  BY <3>3, <4>1
    <3>6. l[f] < r[f] => NumberOf(l) < NumberOf(r)
      BY <1>2, <2>3, <3>4, <3>5, FirstDifference
    <3>7. r[f] < l[f] => NumberOf(r) < NumberOf(l)
      BY <1>2, <2>3, <3>4, <3>5, FirstDifference
    <3>8. l[f] < r[f] \/ r[f] < l[f]  BY <3>4
    <3>9. NumberOf(l) \in Nat /\ NumberOf(r) \in Nat  BY <1>2, NumberIs
    <3>10. CASE l[f] < r[f]  BY <1>3, <3>1, <3>6, <3>9, <3>10
    <3>11. CASE r[f] < l[f]
      <4>1. ~(l[f] < r[f])  BY <3>4, <3>11
      <4>. QED  BY <1>3, <3>1, <3>7, <3>9, <3>11, <4>1
    <3>. QED  BY <3>8, <3>10, <3>11
  <2>. QED  BY <2>1, <2>2, <2>3
<1>5. /\ order = "less"    <=> NumberOf(l) < NumberOf(r)
      /\ order = "greater" <=> NumberOf(l) > NumberOf(r)
      /\ order = "equal"   <=> NumberOf(l) = NumberOf(r)
      /\ order = "equal"   <=> l = r
  BY <1>3, <1>4
<1>. QED  BY <1>2, <1>5 DEF l, r, order

-----------------------------------------------------------------------------
(* The subtraction.                                                        *)

\* The borrow a negative digit leaves to its left.
Borrow(d) == IF d < 0 THEN 1 ELSE 0

\* A digit counted from the right is a digit.
LEMMA FromRightIs ==
  ASSUME NEW s \in DigitSeq, NEW k \in Nat
  PROVE  FromRight(s, k) \in 0 .. 9
<1>1. Len(s) \in Nat /\ \A i \in 1 .. Len(s) : s[i] \in 0 .. 9  BY NumberIs
<1>2. k < Len(s) => Len(s) - k \in 1 .. Len(s)  BY <1>1
<1>. QED  BY <1>1, <1>2 DEF FromRight

\* subtract_decimal's loop exists as a function: each digit's difference less
\* the borrow of the one to its right, between -10 and 9, so that it fits an i8
\* and a digit is left when ten is added to a negative one.
LEMMA DifferencesAre ==
  ASSUME NEW v \in DigitSeq, NEW u \in DigitSeq
  PROVE  LET D == Differences(v, u) IN
         /\ \A k \in 0 .. Len(v) : D[k] \in -10 .. 9
         /\ D[0] = FromRight(v, 0) - FromRight(u, 0)
         /\ \A k \in 1 .. Len(v) : D[k] = FromRight(v, k) - FromRight(u, k) - Borrow(D[k - 1])
<1>. DEFINE G == [k \in 1 .. Len(v) |-> [x \in Int |-> FromRight(v, k) - FromRight(u, k) - Borrow(x)]]
            base == FromRight(v, 0) - FromRight(u, 0)
            Is(f) == f = [k \in 0 .. Len(v) |->
                            FromRight(v, k) - FromRight(u, k)
                              - (IF k > 0 THEN IF f[k - 1] < 0 THEN 1 ELSE 0 ELSE 0)]
            D == Differences(v, u)
<1>1. Len(v) \in Nat  BY NumberIs
<1>2. \A k \in Nat : FromRight(v, k) \in 0 .. 9 /\ FromRight(u, k) \in 0 .. 9
  BY FromRightIs
<1>3. \A x : Borrow(x) \in 0 .. 1  BY DEF Borrow
<1>4. G \in [1 .. Len(v) -> [Int -> Int]]
  <2>1. \A k \in 1 .. Len(v), x \in Int : FromRight(v, k) - FromRight(u, k) - Borrow(x) \in Int
    <3> SUFFICES ASSUME NEW k \in 1 .. Len(v), NEW x \in Int
                 PROVE  FromRight(v, k) - FromRight(u, k) - Borrow(x) \in Int  OBVIOUS
    <3>1. FromRight(v, k) \in 0 .. 9 /\ FromRight(u, k) \in 0 .. 9 /\ Borrow(x) \in 0 .. 1
      BY <1>1, <1>2, <1>3
    <3>2. FromRight(v, k) - FromRight(u, k) - Borrow(x) \in -10 .. 9  BY <3>1, DigitDifference
    <3>. QED  BY <3>2
  <2>. QED  BY <2>1
<1>5. base \in Int
  <2>1. FromRight(v, 0) \in 0 .. 9 /\ FromRight(u, 0) \in 0 .. 9  BY <1>2
  <2>. QED  BY <2>1
<1>6. \A k \in 1 .. Len(v), x \in Int : G[k][x] = FromRight(v, k) - FromRight(u, k) - Borrow(x)
  OBVIOUS
<1>. HIDE DEF G, base
<1>7. PICK f \in [0 .. Len(v) -> Int] : Follows(f, Len(v), base, G)
  BY <1>1, <1>4, <1>5, Recursion
<1>8. Is(f)
  <2>1. \A k \in 1 .. Len(v) : f[k - 1] \in Int  BY <1>1, <1>7
  <2>2. \A k \in 1 .. Len(v) : f[k] = FromRight(v, k) - FromRight(u, k) - Borrow(f[k - 1])
    BY <1>6, <1>7, <2>1 DEF Follows
  <2>3. f[0] = FromRight(v, 0) - FromRight(u, 0) - 0
    BY <1>2, <1>7 DEF Follows, base
  <2>. QED  BY <1>1, <1>7, <2>2, <2>3 DEF Borrow
<1>9. D = CHOOSE g : Is(g)
  BY DEF Differences
<1>. HIDE DEF D
<1>10. Is(D)
  <2>. HIDE DEF Is
  <2>. QED  BY <1>8, <1>9
<1>11. /\ D[0] = FromRight(v, 0) - FromRight(u, 0)
       /\ \A k \in 1 .. Len(v) : D[k] = FromRight(v, k) - FromRight(u, k) - Borrow(D[k - 1])
  <2>1. D[0] = FromRight(v, 0) - FromRight(u, 0) - 0  BY <1>1, <1>10
  <2>2. FromRight(v, 0) \in 0 .. 9 /\ FromRight(u, 0) \in 0 .. 9  BY <1>2
  <2>3. ASSUME NEW k \in 1 .. Len(v)
        PROVE  D[k] = FromRight(v, k) - FromRight(u, k) - Borrow(D[k - 1])
    <3>1. k \in 0 .. Len(v) /\ k > 0  BY <1>1
    <3>. QED  BY <1>10, <3>1 DEF Borrow
  <2>. QED  BY <2>1, <2>2, <2>3
<1>12. ASSUME NEW k \in 0 .. Len(v)
       PROVE  D[k] \in -10 .. 9
  <2>1. FromRight(v, k) \in 0 .. 9 /\ FromRight(u, k) \in 0 .. 9 /\ Borrow(D[k - 1]) \in 0 .. 1
    BY <1>1, <1>2, <1>3
  <2>2. CASE k = 0  BY <1>11, <2>1, <2>2, DigitDifference
  <2>3. CASE k # 0
    <3>1. D[k] = FromRight(v, k) - FromRight(u, k) - Borrow(D[k - 1])  BY <1>1, <1>11, <2>3
    <3>. QED  BY <2>1, <3>1, DigitDifference
  <2>. QED  BY <2>2, <2>3
<1>. QED  BY <1>11, <1>12 DEF D

\* The subtrahend as the loop reads it, with the digits it lacks as zeros.
Padded(u, n) == [i \in 1 .. n |-> FromRight(u, n - i)]

\* Padding does not change the number.
LEMMA PaddedIs ==
  ASSUME NEW u \in DigitSeq, NEW n \in Nat, Len(u) <= n
  PROVE  /\ Padded(u, n) \in DigitSeq /\ Len(Padded(u, n)) = n
         /\ \A i \in 1 .. n : Padded(u, n)[i] = FromRight(u, n - i)
         /\ NumberOf(Padded(u, n)) = NumberOf(u)
<1>. DEFINE w == Padded(u, n)
            z == n - Len(u)
<1>1. Len(u) \in Nat  BY NumberIs
<1>2. \A i \in 1 .. n : FromRight(u, n - i) \in 0 .. 9
  <2> SUFFICES ASSUME NEW i \in 1 .. n PROVE FromRight(u, n - i) \in 0 .. 9  OBVIOUS
  <2>1. n - i \in Nat  OBVIOUS
  <2>. QED  BY <2>1, FromRightIs
<1>3. w \in DigitSeq /\ Len(w) = n /\ \A i \in 1 .. n : w[i] = FromRight(u, n - i)
  BY <1>2 DEF Padded, DigitSeq
<1>. HIDE DEF w
<1>4. z \in Nat /\ z + Len(u) = n  BY <1>1
<1>. HIDE DEF z
<1>5. \A i \in 1 .. z : w[i] = 0
  <2> SUFFICES ASSUME NEW i \in 1 .. z PROVE w[i] = 0  OBVIOUS
  <2>1. i \in 1 .. n /\ ~(n - i < Len(u))  BY <1>1, <1>4
  <2>. QED  BY <1>3, <2>1 DEF FromRight
<1>6. \A i \in 1 .. Len(u) : w[z + i] = u[0 + i]
  <2> SUFFICES ASSUME NEW i \in 1 .. Len(u) PROVE w[z + i] = u[0 + i]  OBVIOUS
  <2>1. z + i \in 1 .. n /\ n - (z + i) < Len(u) /\ Len(u) - (n - (z + i)) = i /\ 0 + i = i
    BY <1>1, <1>4
  <2>2. w[z + i] = FromRight(u, n - (z + i))  BY <1>3, <2>1
  <2>. QED  BY <2>1, <2>2 DEF FromRight
<1>7. LeadingNumbers(w)[z] = LeadingNumbers(u)[0]
  <2>1. z \in 0 .. Len(w)  BY <1>1, <1>3, <1>4
  <2>2. LeadingNumbers(w)[z] = 0  BY <1>3, <1>5, <2>1, ZeroPrefix
  <2>. QED  BY <2>2, NumberIs
<1>8. Continues(w, z, u, 0, Len(u))
  BY <1>1, <1>3, <1>4, <1>6 DEF Continues
<1>9. LeadingNumbers(w)[z + Len(u)] = LeadingNumbers(u)[0 + Len(u)]
  BY <1>1, <1>7, <1>8, SameDigits
<1>10. NumberOf(w) = NumberOf(u)
  BY <1>1, <1>3, <1>4, <1>9 DEF NumberOf
<1>. QED  BY <1>3, <1>10 DEF w

\* subtract_decimal subtracts, when there is no more to subtract than there is.
LEMMA SubtractIs ==
  ASSUME NEW v \in DigitSeq, NEW u \in DigitSeq, Len(u) <= Len(v), NumberOf(u) <= NumberOf(v)
  PROVE  /\ SubtractDecimal(v, u) \in DigitSeq /\ Trimmed(SubtractDecimal(v, u))
         /\ NumberOf(SubtractDecimal(v, u)) = NumberOf(v) - NumberOf(u)
<1>. DEFINE n == Len(v)
            w == Padded(u, n)
            D == Differences(v, u)
            r == [i \in DOMAIN v |-> LET d == D[Len(v) - i] IN IF d < 0 THEN d + 10 ELSE d]
            V == LeadingNumbers(v)
            W == LeadingNumbers(w)
            R == LeadingNumbers(r)
            c == [i \in 0 .. n |-> IF i < n THEN Borrow(D[n - i - 1]) ELSE 0]
<1>1. n \in Nat /\ DOMAIN v = 1 .. n  BY NumberIs DEF DigitSeq
<1>2. /\ \A i \in 1 .. n : v[i] \in 0 .. 9
      /\ \A i \in 0 .. n : V[i] \in Nat
      /\ V[0] = 0 /\ \A i \in 0 .. n - 1 : V[i + 1] = 10 * V[i] + v[i + 1]
      /\ NumberOf(v) = V[n]
  BY NumberIs
<1>3. w \in DigitSeq /\ Len(w) = n /\ (\A i \in 1 .. n : w[i] = FromRight(u, n - i)) /\ NumberOf(w) = NumberOf(u)
  BY <1>1, PaddedIs
<1>4. /\ \A i \in 1 .. n : w[i] \in 0 .. 9
      /\ \A i \in 0 .. n : W[i] \in Nat
      /\ W[0] = 0 /\ \A i \in 0 .. n - 1 : W[i + 1] = 10 * W[i] + w[i + 1]
      /\ NumberOf(u) = W[n]
  <2>. HIDE DEF w
  <2>. QED  BY <1>3, NumberIs
<1>5. /\ \A k \in 0 .. n : D[k] \in -10 .. 9
      /\ D[0] = FromRight(v, 0) - FromRight(u, 0)
      /\ \A k \in 1 .. n : D[k] = FromRight(v, k) - FromRight(u, k) - Borrow(D[k - 1])
  BY DifferencesAre
<1>6. SubtractDecimal(v, u) = TrimZeroes(r)
  BY DEF SubtractDecimal
<1>7. \A i \in 1 .. n : v[i] = FromRight(v, n - i)
  <2> SUFFICES ASSUME NEW i \in 1 .. n PROVE v[i] = FromRight(v, n - i)  OBVIOUS
  <2>1. n - i < n /\ n - (n - i) = i  BY <1>1
  <2>. QED  BY <2>1 DEF FromRight
<1>. HIDE DEF D
<1>8. \A i \in 0 .. n : c[i] \in 0 .. 1
  BY DEF Borrow
<1>9. c[n] = 0 /\ \A i \in 0 .. n - 1 : c[i] = Borrow(D[n - i - 1])
  BY <1>1
<1>. HIDE DEF n, c, w, V, W
\* What a position is left with pays what the next one borrows.
<1>10. ASSUME NEW i \in 0 .. n - 1
       PROVE  /\ i + 1 \in 1 .. n /\ c[i] = Borrow(D[n - (i + 1)])
              /\ D[n - (i + 1)] = v[i + 1] - w[i + 1] - c[i + 1]
              /\ D[n - (i + 1)] \in -10 .. 9
  <2>. DEFINE k == n - (i + 1)
  <2>1. i + 1 \in 1 .. n /\ i \in 0 .. n /\ i < n /\ n - i - 1 = k /\ k \in 0 .. n  BY <1>1
  <2>2. c[i] = Borrow(D[k])  BY <1>9, <2>1
  <2>3. v[i + 1] = FromRight(v, k) /\ w[i + 1] = FromRight(u, k)  BY <1>3, <1>7, <2>1
  <2>4. CASE i + 1 = n
    <3>1. k = 0 /\ c[i + 1] = 0  BY <1>1, <1>9, <2>4
    <3>2. D[k] = v[i + 1] - w[i + 1] - 0
      <4>1. v[i + 1] \in 0 .. 9 /\ w[i + 1] \in 0 .. 9  BY <1>2, <1>4, <2>1
      <4>2. D[0] = FromRight(v, 0) - FromRight(u, 0)  BY <1>5
      <4>3. D[k] = v[i + 1] - w[i + 1]  BY <2>3, <3>1, <4>2
      <4>4. v[i + 1] - w[i + 1] - 0 = v[i + 1] - w[i + 1]  BY <4>1, DigitDifference
      <4>. QED  BY <4>3, <4>4
    <3>. QED  BY <1>5, <2>1, <2>2, <3>1, <3>2
  <2>5. CASE i + 1 # n
    <3>1. k \in 1 .. n /\ i + 1 \in 0 .. n /\ i + 1 < n /\ n - (i + 1) - 1 = k - 1  BY <1>1, <2>5
    <3>2. c[i + 1] = Borrow(D[k - 1])
      <4>1. i + 1 \in 0 .. n - 1  BY <1>1, <3>1
      <4>. QED  BY <1>9, <3>1, <4>1
    <3>3. D[k] = v[i + 1] - w[i + 1] - c[i + 1]  BY <1>5, <2>3, <3>1, <3>2
    <3>. QED  BY <1>5, <2>1, <2>2, <3>3
  <2>. QED  BY <2>4, <2>5
<1>11. c[0] = 0
  <2> SUFFICES ASSUME c[0] # 0 PROVE FALSE  OBVIOUS
  <2>. DEFINE X == {i \in 0 .. n : V[i] - W[i] - c[i] <= -1}
  <2>1. 0 \in X
    <3>1. c[0] = 1  BY <1>1, <1>8
    <3>. QED  BY <1>1, <1>2, <1>4, <3>1
  <2>2. \A i \in 0 .. n - 1 : i \in X => i + 1 \in X
    <3> SUFFICES ASSUME NEW i \in 0 .. n - 1, i \in X PROVE i + 1 \in X  OBVIOUS
    <3>1. i + 1 \in 1 .. n /\ i + 1 \in 0 .. n /\ i \in 0 .. n  BY <1>1
    <3>2. V[i + 1] = 10 * V[i] + v[i + 1] /\ W[i + 1] = 10 * W[i] + w[i + 1]  BY <1>2, <1>4
    <3>3. c[i] = (IF v[i + 1] - w[i + 1] - c[i + 1] < 0 THEN 1 ELSE 0)  BY <1>10 DEF Borrow
    <3>4. v[i + 1] \in 0 .. 9 /\ w[i + 1] \in 0 .. 9 /\ c[i + 1] \in 0 .. 1 /\ V[i] \in Nat /\ W[i] \in Nat
      BY <1>2, <1>4, <1>8, <3>1
    <3>5. V[i] - W[i] - c[i] <= -1  OBVIOUS
    <3>. DEFINE a == V[i]
                b == W[i]
                x == v[i + 1]
                y == w[i + 1]
                e == c[i + 1]
    <3>6. a \in Nat /\ b \in Nat /\ x \in 0 .. 9 /\ y \in 0 .. 9 /\ e \in 0 .. 1
          /\ a - b - (IF x - y - e < 0 THEN 1 ELSE 0) <= -1
      BY <3>3, <3>4, <3>5
    <3>. HIDE DEF a, b, x, y, e
    <3>7. (10 * a + x) - (10 * b + y) - e <= -1
      BY <3>6
    <3>8. V[i + 1] - W[i + 1] - c[i + 1] <= -1
      BY <3>2, <3>7 DEF a, b, x, y, e
    <3>. QED  BY <3>1, <3>8
  <2>. HIDE DEF X
  <2>3. \A i \in 0 .. n : i \in X  BY <1>1, <2>1, <2>2, UpTo
  <2>4. n \in X  BY <1>1, <2>3
  <2>5. V[n] - W[n] - c[n] <= -1  BY <2>4 DEF X
  <2>. QED  BY <1>1, <1>2, <1>4, <1>9, <2>5
<1>12. r \in DigitSeq /\ Len(r) = n
       /\ \A i \in 1 .. n : r[i] = (IF D[n - i] < 0 THEN D[n - i] + 10 ELSE D[n - i])
  <2>1. \A i \in 1 .. n : D[n - i] \in -10 .. 9
    <3> SUFFICES ASSUME NEW i \in 1 .. n PROVE D[n - i] \in -10 .. 9  OBVIOUS
    <3>1. n - i \in 0 .. n  BY <1>1
    <3>. QED  BY <1>5, <3>1
  <2>2. \A d \in -10 .. 9 : (IF d < 0 THEN d + 10 ELSE d) \in 0 .. 9  OBVIOUS
  <2>3. r = [i \in 1 .. n |-> IF D[n - i] < 0 THEN D[n - i] + 10 ELSE D[n - i]]
    BY <1>1 DEF n
  <2>. HIDE DEF r
  <2>4. r \in [1 .. n -> 0 .. 9]  BY <2>1, <2>2, <2>3
  <2>. QED  BY <1>1, <2>3, <2>4 DEF DigitSeq
<1>. HIDE DEF r
<1>13. /\ \A i \in 0 .. n : R[i] \in Nat
       /\ R[0] = 0 /\ \A i \in 0 .. n - 1 : R[i + 1] = 10 * R[i] + r[i + 1]
       /\ NumberOf(r) = R[n]
  BY <1>12, NumberIs
<1>. HIDE DEF R
<1>14. NumberOf(r) = NumberOf(v) - NumberOf(u)
  <2>. DEFINE X == {i \in 0 .. n : R[i] = V[i] - W[i] - c[i]}
  <2>1. 0 \in X  BY <1>1, <1>2, <1>4, <1>11, <1>13
  <2>2. \A i \in 0 .. n - 1 : i \in X => i + 1 \in X
    <3> SUFFICES ASSUME NEW i \in 0 .. n - 1, i \in X PROVE i + 1 \in X  OBVIOUS
    <3>1. i + 1 \in 1 .. n /\ i + 1 \in 0 .. n /\ i \in 0 .. n  BY <1>1
    <3>2. V[i + 1] = 10 * V[i] + v[i + 1] /\ W[i + 1] = 10 * W[i] + w[i + 1]
          /\ R[i + 1] = 10 * R[i] + r[i + 1]  BY <1>2, <1>4, <1>13
    <3>. DEFINE d == D[n - (i + 1)]
    <3>3. /\ c[i] = Borrow(d) /\ d = v[i + 1] - w[i + 1] - c[i + 1] /\ d \in -10 .. 9
          /\ r[i + 1] = (IF d < 0 THEN d + 10 ELSE d)
      BY <1>10, <1>12, <3>1
    <3>4. v[i + 1] \in 0 .. 9 /\ w[i + 1] \in 0 .. 9 /\ c[i + 1] \in 0 .. 1
          /\ V[i] \in Nat /\ W[i] \in Nat /\ R[i] \in Nat
      BY <1>2, <1>4, <1>8, <1>13, <3>1
    <3>5. R[i] = V[i] - W[i] - c[i]  OBVIOUS
    <3>. HIDE DEF d
    <3>6. r[i + 1] = d + 10 * c[i] /\ c[i] \in Int
      BY <3>3 DEF Borrow
    <3>. DEFINE a == V[i]
                b == W[i]
                x == v[i + 1]
                y == w[i + 1]
                e == c[i + 1]
                g == c[i]
    <3>7. a \in Nat /\ b \in Nat /\ x \in 0 .. 9 /\ y \in 0 .. 9 /\ e \in 0 .. 1 /\ g \in Int
      BY <3>4, <3>6
    <3>8. R[i] = a - b - g /\ r[i + 1] = (x - y - e) + 10 * g
          /\ V[i + 1] = 10 * a + x /\ W[i + 1] = 10 * b + y /\ R[i + 1] = 10 * R[i] + r[i + 1]
      BY <3>2, <3>3, <3>5, <3>6
    <3>. HIDE DEF a, b, x, y, g, e
    <3>9. R[i + 1] = (10 * a + x) - (10 * b + y) - e
      <4>1. 10 * (a - b - g) + ((x - y - e) + 10 * g) = (10 * a + x) - (10 * b + y) - e
        BY <3>7
      <4>. QED  BY <3>8, <4>1
    <3>10. R[i + 1] = V[i + 1] - W[i + 1] - c[i + 1]
      BY <3>8, <3>9 DEF e
    <3>. QED  BY <3>1, <3>10
  <2>. HIDE DEF X
  <2>3. \A i \in 0 .. n : i \in X  BY <1>1, <2>1, <2>2, UpTo
  <2>4. n \in X  BY <1>1, <2>3
  <2>5. R[n] = V[n] - W[n] - c[n]  BY <2>4 DEF X
  <2>. QED  BY <1>1, <1>2, <1>4, <1>9, <1>13, <2>5
<1>. QED  BY <1>6, <1>12, <1>14, TrimKeeps

-----------------------------------------------------------------------------
(* Remainders.                                                             *)

\* The remainder is the one number below the divisor that is left.
LEMMA ModIs ==
  ASSUME NEW d \in Nat \ {0}, NEW k \in Nat, NEW r \in 0 .. d - 1, NEW a \in Nat, a = k * d + r
  PROVE  a % d = r
<1>1. a = d * (a \div d) + (a % d) /\ a % d \in 0 .. d - 1 /\ a \div d \in Int
  OBVIOUS
<1>. DEFINE q == a \div d
            e == a % d
<1>2. q \in Int /\ e \in 0 .. d - 1 /\ a = d * q + e  BY <1>1
<1>. HIDE DEF q, e
<1>3. d * (q - k) = r - e
  <2>1. d * (q - k) = d * q - d * k  BY <1>2
  <2>2. d * k = k * d  OBVIOUS
  <2>. QED  BY <1>2, <2>1, <2>2
<1>4. q - k <= 0
  <2> SUFFICES ASSUME q - k >= 1 PROVE FALSE  BY <1>2
  <2>1. d * (q - k) >= d * 1  BY <1>2
  <2>. QED  BY <1>2, <1>3, <2>1
<1>5. q - k >= 0
  <2> SUFFICES ASSUME q - k <= -1 PROVE FALSE  BY <1>2
  <2>1. d * (q - k) <= d * (-1)  BY <1>2
  <2>. QED  BY <1>2, <1>3, <2>1
<1>6. q - k = 0  BY <1>2, <1>4, <1>5
<1>7. d * 0 = 0  OBVIOUS
<1>8. e = r  BY <1>2, <1>3, <1>6, <1>7
<1>. QED  BY <1>8 DEF e

\* A multiple of the divisor does not change what remains.
LEMMA ModShift ==
  ASSUME NEW d \in Nat \ {0}, NEW k \in Nat, NEW x \in Nat, NEW a, a = k * d + x
  PROVE  a % d = x % d
<1>1. x = d * (x \div d) + (x % d) /\ x % d \in 0 .. d - 1 /\ x \div d \in Int
  OBVIOUS
<1>. DEFINE q == x \div d
            e == x % d
<1>2. q \in Int /\ e \in 0 .. d - 1 /\ x = d * q + e  BY <1>1
<1>. HIDE DEF q, e
<1>3. q >= 0
  <2> SUFFICES ASSUME q <= -1 PROVE FALSE  BY <1>2
  <2>1. d * q <= d * (-1)  BY <1>2
  <2>. QED  BY <1>2, <2>1
<1>4. a = (k + q) * d + e /\ k + q \in Nat /\ a \in Nat
  <2>1. (k + q) * d = k * d + d * q /\ k * d \in Nat  BY <1>2
  <2>. QED  BY <1>2, <1>3, <2>1
<1>5. a % d = e  BY <1>2, <1>4, ModIs
<1>. QED  BY <1>5 DEF e

\* A remainder of zero is a multiple.
LEMMA ModZero ==
  ASSUME NEW a \in Nat, NEW d \in Nat \ {0}, a % d = 0
  PROVE  \E k \in Nat : a = k * d
<1>1. a = d * (a \div d) + (a % d) /\ a % d \in 0 .. d - 1 /\ a \div d \in Int
  OBVIOUS
<1>. DEFINE q == a \div d
            e == a % d
<1>2. q \in Int /\ e \in 0 .. d - 1 /\ a = d * q + e  BY <1>1
<1>. HIDE DEF q, e
<1>3. q >= 0
  <2> SUFFICES ASSUME q <= -1 PROVE FALSE  BY <1>2
  <2>1. d * q <= d * (-1)  BY <1>2
  <2>. QED  BY <1>2, <2>1
<1>4. q \in Nat /\ a = q * d + e  BY <1>2, <1>3
<1>5. e = 0  BY DEF e
<1>6. a = q * d  BY <1>4, <1>5
<1>. QED  BY <1>4, <1>6

\* One factor of both does not change what divides.
LEMMA ModScale ==
  ASSUME NEW m \in Nat \ {0}, NEW a \in Nat, NEW d \in Nat \ {0}
  PROVE  (m * a) % (m * d) = 0 <=> a % d = 0
<1>. DEFINE b == m * a
            e == m * d
<1>1. b \in Nat /\ e \in Nat /\ e # 0
  <2>1. b \in Nat /\ e \in Nat  OBVIOUS
  <2>2. m * d >= m * 1  OBVIOUS
  <2>. QED  BY <2>1, <2>2
<1>2. ASSUME a % d = 0 PROVE b % e = 0
  <2>2. PICK k \in Nat : a = k * d  BY <1>2, ModZero
  <2>3. m * (k * d) = k * (m * d)  OBVIOUS
  <2>4. b = k * e + 0  BY <2>2, <2>3
  <2>. HIDE DEF b, e
  <2>5. 0 \in 0 .. e - 1  BY <1>1
  <2>. QED  BY <1>1, <2>4, <2>5, ModIs
<1>3. ASSUME b % e = 0 PROVE a % d = 0
  <2>1. PICK k \in Nat : b = k * e
    <3>. HIDE DEF b, e
    <3>1. b % e = 0  BY <1>3 DEF b, e
    <3>. QED  BY <1>1, <3>1, ModZero
  <2>2. m * a = m * (k * d)
    <3>1. m * (k * d) = k * (m * d)  OBVIOUS
    <3>. QED  BY <2>1, <3>1
  <2>3. a = k * d + 0
    <3>. DEFINE c == k * d
    <3>1. c \in Nat /\ m * a = m * c  BY <2>2
    <3>. HIDE DEF c
    <3>2. m * (a - c) = 0
      <4>1. m * (a - c) = m * a - m * c  BY <3>1
      <4>2. m * c \in Int  BY <3>1
      <4>. QED  BY <3>1, <4>1, <4>2
    <3>3. ~(a - c >= 1)
      <4> SUFFICES ASSUME a - c >= 1 PROVE FALSE  OBVIOUS
      <4>1. m * (a - c) >= m * 1  BY <3>1
      <4>. QED  BY <3>2, <4>1
    <3>4. ~(a - c <= -1)
      <4> SUFFICES ASSUME a - c <= -1 PROVE FALSE  OBVIOUS
      <4>1. m * (a - c) <= m * (-1)  BY <3>1
      <4>. QED  BY <3>2, <4>1
    <3>5. a = c + 0  BY <3>1, <3>3, <3>4
    <3>. QED  BY <3>5 DEF c
  <2>4. 0 \in 0 .. d - 1  OBVIOUS
  <2>. QED  BY <2>3, <2>4, ModIs
<1>. QED  BY <1>2, <1>3

\* A common positive factor keeps the order.
LEMMA ScaleOrder ==
  ASSUME NEW m \in Nat \ {0}, NEW a \in Nat, NEW b \in Nat
  PROVE  (a < b <=> m * a < m * b) /\ (a > b <=> m * a > m * b)
<1>1. ASSUME NEW x \in Nat, NEW y \in Nat, x < y PROVE m * x < m * y
  <2>1. x + 1 <= y  BY <1>1
  <2>2. m * (x + 1) <= m * y  BY <2>1
  <2>3. m * (x + 1) = m * x + m /\ m * x \in Nat /\ m * y \in Nat  OBVIOUS
  <2>. QED  BY <2>2, <2>3
<1>2. m * a \in Nat /\ m * b \in Nat  OBVIOUS
<1>3. a < b => m * a < m * b  BY <1>1
<1>4. b < a => m * b < m * a  BY <1>1
<1>5. a = b => m * a = m * b  OBVIOUS
<1>6. a < b \/ a = b \/ b < a  OBVIOUS
<1>. QED  BY <1>2, <1>3, <1>4, <1>5, <1>6

-----------------------------------------------------------------------------
(* Quantities.                                                             *)

\* The greater of two.
LEMMA MaxOfTwo ==
  ASSUME NEW a \in Nat, NEW b \in Nat
  PROVE  Max({a, b}) \in {a, b} /\ a <= Max({a, b}) /\ b <= Max({a, b})
<1>1. \E x \in {a, b} : \A y \in {a, b} : x >= y  OBVIOUS
<1>2. Max({a, b}) \in {a, b} /\ \A y \in {a, b} : Max({a, b}) >= y  BY <1>1 DEF Max
<1>. QED  BY <1>2

\* The digits of t * 10^scale, before trim_zeroes.
Full(t, scale) == t.integer \o t.fraction \o Zeros(scale - Len(t.fraction))

\* The parts of a text are sequences of digits.
LEMMA TextIs ==
  ASSUME NEW t \in Texts
  PROVE  /\ t.integer \in DigitSeq /\ t.fraction \in DigitSeq /\ t.point \in BOOLEAN
         /\ Len(t.integer) \in Nat /\ Len(t.fraction) \in 0 .. MaxFraction
         /\ ~t.point => t.fraction = <<>>
<1>1. MaxInteger \in Nat /\ MaxFraction \in Nat /\ DecimalDigit \subseteq 0 .. 9
  BY DecimalAssumption
<1>2. /\ t.integer \in UNION {[1 .. n -> DecimalDigit] : n \in 0 .. MaxInteger}
      /\ t.fraction \in UNION {[1 .. n -> DecimalDigit] : n \in 0 .. MaxFraction}
      /\ t.point \in BOOLEAN
      /\ ~t.point => t.fraction = <<>>
  BY DEF Texts
<1>3. PICK n \in 0 .. MaxInteger : t.integer \in [1 .. n -> DecimalDigit]  BY <1>2
<1>4. PICK m \in 0 .. MaxFraction : t.fraction \in [1 .. m -> DecimalDigit]  BY <1>2
<1>5. ASSUME NEW k \in Nat, NEW s \in [1 .. k -> DecimalDigit]
      PROVE  s \in DigitSeq /\ Len(s) = k
  <2>1. s \in [1 .. k -> 0 .. 9]  BY <1>1
  <2>2. s \in Seq(0 .. 9)  BY <2>1
  <2>3. Len(s) = k  BY <2>1
  <2>. QED  BY <2>2, <2>3 DEF DigitSeq
<1>6. t.integer \in DigitSeq /\ Len(t.integer) = n  BY <1>1, <1>3, <1>5
<1>7. t.fraction \in DigitSeq /\ Len(t.fraction) = m  BY <1>1, <1>4, <1>5
<1>. QED  BY <1>1, <1>2, <1>6, <1>7

\* Digit by digit: the integer, the fraction, the padding.
LEMMA FullIs ==
  ASSUME NEW t \in Texts, NEW scale \in Nat, Len(t.fraction) <= scale
  PROVE  /\ Full(t, scale) \in DigitSeq /\ Len(Full(t, scale)) = Len(t.integer) + scale
         /\ \A i \in 1 .. Len(t.integer) : Full(t, scale)[i] = t.integer[i]
         /\ \A i \in 1 .. Len(t.fraction) : Full(t, scale)[Len(t.integer) + i] = t.fraction[i]
         /\ \A i \in Len(t.fraction) + 1 .. scale : Full(t, scale)[Len(t.integer) + i] = 0
<1>. DEFINE a == t.integer
            b == t.fraction
            n == scale - Len(b)
            z == Zeros(n)
            u == a \o b
<1>1. a \in DigitSeq /\ b \in DigitSeq /\ Len(a) \in Nat /\ Len(b) \in Nat
  BY TextIs, NumberIs
<1>2. n \in Nat /\ Len(b) + n = scale  BY <1>1
<1>3. z \in DigitSeq /\ Len(z) = n /\ \A i \in 1 .. n : z[i] = 0
  <2>. HIDE DEF n
  <2>. QED  BY <1>2, ZerosAre DEF Zeros
<1>4. Full(t, scale) = u \o z  BY DEF Full
<1>. HIDE DEF a, b, n, z
<1>5. /\ u \in DigitSeq /\ Len(u) = Len(a) + Len(b)
      /\ \A i \in 1 .. Len(a) : u[i] = a[i]
      /\ \A i \in 1 .. Len(b) : u[Len(a) + i] = b[i]
  BY <1>1, ConcatIs
<1>. HIDE DEF u
<1>. DEFINE f == u \o z
<1>6. /\ f \in DigitSeq /\ Len(f) = Len(u) + n
      /\ \A i \in 1 .. Len(u) : f[i] = u[i]
      /\ \A i \in 1 .. n : f[Len(u) + i] = z[i]
  BY <1>3, <1>5, ConcatIs
<1>. HIDE DEF f
<1>7. Len(f) = Len(a) + scale
  <2>1. Len(f) = (Len(a) + Len(b)) + n  BY <1>5, <1>6
  <2>. QED  BY <1>1, <1>2, <2>1, AddThree
<1>8. \A i \in 1 .. Len(a) : f[i] = a[i]
  <2> SUFFICES ASSUME NEW i \in 1 .. Len(a) PROVE f[i] = a[i]  OBVIOUS
  <2>1. i \in 1 .. Len(u)  BY <1>1, <1>5
  <2>. QED  BY <1>5, <1>6, <2>1
<1>9. \A i \in 1 .. Len(b) : f[Len(a) + i] = b[i]
  <2> SUFFICES ASSUME NEW i \in 1 .. Len(b) PROVE f[Len(a) + i] = b[i]  OBVIOUS
  <2>1. Len(a) + i \in 1 .. Len(u)  BY <1>1, <1>5
  <2>. QED  BY <1>5, <1>6, <2>1
<1>10. \A i \in Len(b) + 1 .. scale : f[Len(a) + i] = 0
  <2> SUFFICES ASSUME NEW i \in Len(b) + 1 .. scale PROVE f[Len(a) + i] = 0  OBVIOUS
  <2>. DEFINE j == i - Len(b)
  <2>1. j \in 1 .. n /\ Len(a) + i = Len(u) + j  BY <1>1, <1>2, <1>5
  <2>. HIDE DEF j
  <2>. QED  BY <1>3, <1>6, <2>1
<1>. QED  BY <1>4, <1>6, <1>7, <1>8, <1>9, <1>10 DEF a, b, f

\* What is left out at one scale are the zeros at the end of another.
LEMMA FullGrows ==
  ASSUME NEW t \in Texts, NEW scale \in Nat, NEW n \in Nat, Len(t.fraction) <= scale
  PROVE  Full(t, scale + n) = Full(t, scale) \o Zeros(n)
<1>. DEFINE u == Full(t, scale)
            v == Full(t, scale + n)
            a == t.integer
            b == t.fraction
            z == Zeros(n)
            w == u \o z
<1>7. Len(a) \in Nat /\ Len(b) \in Nat /\ Len(b) <= scale /\ Len(b) <= scale + n
      /\ scale + n \in Nat
  BY TextIs
<1>1. /\ u \in DigitSeq /\ Len(u) = Len(a) + scale
      /\ \A i \in 1 .. Len(a) : u[i] = a[i]
      /\ \A i \in 1 .. Len(b) : u[Len(a) + i] = b[i]
      /\ \A i \in Len(b) + 1 .. scale : u[Len(a) + i] = 0
  BY FullIs
<1>2. /\ v \in DigitSeq /\ Len(v) = Len(a) + (scale + n)
      /\ \A i \in 1 .. Len(a) : v[i] = a[i]
      /\ \A i \in 1 .. Len(b) : v[Len(a) + i] = b[i]
      /\ \A i \in Len(b) + 1 .. scale + n : v[Len(a) + i] = 0
  BY <1>7, FullIs
<1>3. z \in DigitSeq /\ Len(z) = n /\ \A i \in 1 .. n : z[i] = 0
  BY ZerosAre DEF Zeros
<1>. HIDE DEF u, v, a, b, z
<1>4. /\ w \in DigitSeq /\ Len(w) = Len(u) + n
      /\ \A i \in 1 .. Len(u) : w[i] = u[i]
      /\ \A i \in 1 .. n : w[Len(u) + i] = z[i]
  BY <1>1, <1>3, ConcatIs
<1>. HIDE DEF w
<1>5. ASSUME NEW i \in 1 .. Len(v)
      PROVE  v[i] = w[i]
  <2>1. CASE i \in 1 .. Len(a)
    <3>1. i \in 1 .. Len(u)  BY <1>7, <1>1, <2>1
    <3>. QED  BY <1>1, <1>2, <1>4, <2>1, <3>1
  <2>2. CASE i \in Len(a) + 1 .. Len(a) + Len(b)
    <3>. DEFINE j == i - Len(a)
    <3>1. j \in 1 .. Len(b) /\ i = Len(a) + j /\ i \in 1 .. Len(u)  BY <1>7, <1>1, <2>2
    <3>. HIDE DEF j
    <3>. QED  BY <1>1, <1>2, <1>4, <3>1
  <2>3. CASE i \in Len(a) + Len(b) + 1 .. Len(a) + scale
    <3>. DEFINE j == i - Len(a)
    <3>1. /\ j \in Len(b) + 1 .. scale /\ j \in Len(b) + 1 .. scale + n
          /\ i = Len(a) + j /\ i \in 1 .. Len(u)
      BY <1>7, <1>1, <2>3
    <3>. HIDE DEF j
    <3>. QED  BY <1>1, <1>2, <1>4, <3>1
  <2>4. CASE i \in Len(a) + scale + 1 .. Len(a) + (scale + n)
    <3>. DEFINE j == i - Len(a)
                k == i - Len(u)
    <3>1. /\ j \in Len(b) + 1 .. scale + n /\ i = Len(a) + j
          /\ k \in 1 .. n /\ i = Len(u) + k
      BY <1>7, <1>1, <2>4
    <3>. HIDE DEF j, k
    <3>2. v[i] = 0  BY <1>2, <3>1
    <3>3. w[i] = 0  BY <1>3, <1>4, <3>1
    <3>. QED  BY <3>2, <3>3
  <2>. QED  BY <1>7, <1>2, <2>1, <2>2, <2>3, <2>4
<1>6. Len(v) = Len(w)  BY <1>7, <1>1, <1>2, <1>4
<1>8. v = w  BY <1>2, <1>4, <1>5, <1>6, SeqEqual DEF DigitSeq
<1>. QED  BY <1>8 DEF u, v, w, z

\* decimal_digits writes the number of the untrimmed digits.
LEMMA DigitsAre ==
  ASSUME NEW t \in Texts, NEW scale \in Nat, Len(t.fraction) <= scale
  PROVE  /\ DecimalDigits(t, scale) = TrimZeroes(Full(t, scale))
         /\ DecimalDigits(t, scale) \in DigitSeq /\ Trimmed(DecimalDigits(t, scale))
         /\ NumberOf(DecimalDigits(t, scale)) = NumberOf(Full(t, scale))
<1>1. DecimalDigits(t, scale) = TrimZeroes(Full(t, scale))
  BY DEF DecimalDigits, Full, Zeros
<1>2. Full(t, scale) \in DigitSeq  BY FullIs
<1>. QED  BY <1>1, <1>2, TrimKeeps

\* A quantity is not zero.
LEMMA QuantityIsPositive ==
  ASSUME NEW t \in Quantities, NEW scale \in Nat, Len(t.fraction) <= scale
  PROVE  NumberOf(DecimalDigits(t, scale)) \in Nat \ {0}
<1>. DEFINE f == Full(t, scale)
            a == t.integer
            b == t.fraction
<1>1. t \in Texts /\ Accepts(t)  BY DEF Quantities
<1>2. a \in DigitSeq /\ b \in DigitSeq /\ Len(a) \in Nat /\ Len(b) \in Nat
  BY <1>1, TextIs
<1>3. /\ Len(a) > 0 /\ (Len(a) > 1 => a[1] # 0)
      /\ ~(a = <<0>> /\ \A d \in Range(b) : d = 0)
  BY <1>1, <1>2 DEF Accepts, DigitSeq
<1>4. /\ f \in DigitSeq /\ Len(f) = Len(a) + scale
      /\ \A i \in 1 .. Len(a) : f[i] = a[i]
      /\ \A i \in 1 .. Len(b) : f[Len(a) + i] = b[i]
  BY <1>1, FullIs
<1>5. Len(b) <= scale  OBVIOUS
<1>. HIDE DEF f, a, b
<1>6. \E i \in 1 .. Len(f) : f[i] # 0
  <2>1. CASE a[1] # 0
    <3>1. 1 \in 1 .. Len(a) /\ 1 \in 1 .. Len(f)  BY <1>2, <1>3, <1>4
    <3>. QED  BY <1>4, <2>1, <3>1
  <2>2. CASE a[1] = 0
    <3>1. Len(a) = 1
      <4>1. Len(a) \in Nat /\ Len(a) > 0 /\ ~(Len(a) > 1)  BY <1>2, <1>3, <2>2
      <4>. DEFINE n == Len(a)
      <4>2. n \in Nat /\ n > 0 /\ ~(n > 1)  BY <4>1
      <4>. HIDE DEF n
      <4>3. n = 1  BY <4>2
      <4>. QED  BY <4>3 DEF n
    <3>2. a = <<0>>
      <4>1. a \in Seq(0 .. 9) /\ <<0>> \in Seq(0 .. 9) /\ Len(<<0>>) = 1 /\ <<0>>[1] = 0
        BY <1>2 DEF DigitSeq
      <4>. DEFINE one == <<0>>
      <4>2. \A i \in 1 .. Len(a) : a[i] = one[i]  BY <2>2, <3>1, <4>1
      <4>3. one \in Seq(0 .. 9) /\ Len(a) = Len(one)  BY <3>1, <4>1
      <4>. HIDE DEF one
      <4>4. a = one  BY <4>1, <4>2, <4>3, SeqEqual
      <4>. QED  BY <4>4 DEF one
    <3>3. PICK i \in 1 .. Len(b) : b[i] # 0
      BY <1>2, <1>3, <3>2 DEF Range, DigitSeq
    <3>4. Len(a) + i \in 1 .. Len(f)  BY <1>2, <1>4, <1>5
    <3>. QED  BY <1>4, <3>3, <3>4
  <2>. QED  BY <2>1, <2>2
<1>7. NumberOf(f) # 0
  <2>1. Len(f) \in 0 .. Len(f)  BY <1>4, NumberIs
  <2>. QED  BY <1>4, <1>6, <2>1, ZeroPrefix DEF NumberOf
<1>8. NumberOf(DecimalDigits(t, scale)) = NumberOf(f)
  BY <1>1, DigitsAre DEF f
<1>. QED  BY <1>4, <1>7, <1>8, NumberIs

\* The scale is the longer of the two fractions.
LEMMA ScaleIs ==
  ASSUME NEW t \in Texts, NEW u \in Texts
  PROVE  /\ ScaleOf(t, u) \in Nat /\ MaxFraction \in Nat /\ ScaleOf(t, u) <= MaxFraction
         /\ Len(t.fraction) <= ScaleOf(t, u) /\ Len(u.fraction) <= ScaleOf(t, u)
         /\ Len(t.fraction) \in Nat /\ Len(u.fraction) \in Nat
         /\ ScaleOf(t, u) \in {Len(t.fraction), Len(u.fraction)}
<1>1. Len(t.fraction) \in 0 .. MaxFraction /\ Len(u.fraction) \in 0 .. MaxFraction
  BY TextIs
<1>2. MaxFraction \in Nat  BY DecimalAssumption
<1>3. Len(t.fraction) \in Nat /\ Len(u.fraction) \in Nat  BY <1>1, <1>2
<1>. QED  BY <1>1, <1>2, <1>3, MaxOfTwo DEF ScaleOf

\* Both scales tell the same of two quantities.
LEMMA ScaledIs ==
  ASSUME NEW t \in Texts, NEW u \in Texts
  PROVE  \E m \in Nat \ {0} :
           /\ Scaled(t) = m * NumberOf(DecimalDigits(t, ScaleOf(t, u)))
           /\ Scaled(u) = m * NumberOf(DecimalDigits(u, ScaleOf(t, u)))
<1>. DEFINE s == ScaleOf(t, u)
            n == MaxFraction - s
<1>1. /\ s \in Nat /\ n \in Nat /\ s + n = MaxFraction
      /\ Len(t.fraction) <= s /\ Len(u.fraction) <= s
  BY ScaleIs
<1>. HIDE DEF s, n
<1>2. PICK m \in Nat \ {0} : \A x \in DigitSeq : NumberOf(x \o Zeros(n)) = m * NumberOf(x)
  BY <1>1, ZerosMultiply
<1>3. ASSUME NEW x \in Texts, Len(x.fraction) <= s
      PROVE  Scaled(x) = m * NumberOf(DecimalDigits(x, s))
  <2>1. Scaled(x) = NumberOf(Full(x, s + n))
    BY <1>1 DEF Scaled, Full, Zeros
  <2>2. Full(x, s + n) = Full(x, s) \o Zeros(n)  BY <1>1, <1>3, FullGrows
  <2>3. Full(x, s) \in DigitSeq  BY <1>1, <1>3, FullIs
  <2>4. NumberOf(DecimalDigits(x, s)) = NumberOf(Full(x, s))  BY <1>1, <1>3, DigitsAre
  <2>. QED  BY <1>2, <2>1, <2>2, <2>3, <2>4
<1>4. /\ Scaled(t) = m * NumberOf(DecimalDigits(t, s))
      /\ Scaled(u) = m * NumberOf(DecimalDigits(u, s))
  BY <1>1, <1>3
<1>. QED  BY <1>4 DEF s

-----------------------------------------------------------------------------
(* The long division.                                                      *)

\* The number that is divided.
Whole == NumberOf(DecimalDigits(value, ScaleOf(value, increment)))

\* The divisor stays what it was; the remainder stays trimmed.
Types ==
  /\ value \in Quantities /\ increment \in Quantities
  /\ digits \in DigitSeq /\ remainder \in DigitSeq /\ Trimmed(remainder)
  /\ divisor = DecimalDigits(increment, ScaleOf(value, increment))
  /\ answer \in BOOLEAN \cup {NoAnswer}

\* What is left to divide is the value less a multiple of the divisor.
Divided ==
  \E k \in Nat : Whole = k * NumberOf(divisor) + NumberOf(remainder \o digits)

\* The while loop subtracts at most nine times for a digit.
Bounded == NumberOf(remainder) < 10 * NumberOf(divisor)

\* An answer comes of a remainder below the divisor with no digit left.
Answered ==
  answer # NoAnswer =>
    digits = <<>> /\ NumberOf(remainder) < NumberOf(divisor) /\ (answer <=> NumberOf(remainder) = 0)

\* The inductive invariant.
IInv == Types /\ Divided /\ Bounded /\ Answered

\* What the steps need of the types: the divisor is positive, and the loop's
\* guard compares the numbers.
LEMMA DivisorIs ==
  ASSUME Types
  PROVE  /\ divisor \in DigitSeq /\ Trimmed(divisor) /\ NumberOf(divisor) \in Nat \ {0}
         /\ NumberOf(remainder) \in Nat /\ Len(divisor) \in Nat /\ Len(remainder) \in Nat
         /\ Reduced <=> NumberOf(remainder) < NumberOf(divisor)
         /\ Len(digits) \in Nat /\ value \in Texts /\ increment \in Texts
<1>1. value \in Texts /\ increment \in Texts /\ value \in Quantities /\ increment \in Quantities
  BY DEF Types, Quantities
<1>2. ScaleOf(value, increment) \in Nat /\ Len(increment.fraction) <= ScaleOf(value, increment)
  BY <1>1, ScaleIs
<1>3. divisor \in DigitSeq /\ Trimmed(divisor) /\ NumberOf(divisor) \in Nat \ {0}
  BY <1>1, <1>2, DigitsAre, QuantityIsPositive DEF Types
<1>4. remainder \in DigitSeq /\ digits \in DigitSeq  BY DEF Types
<1>5. NumberOf(remainder) \in Nat /\ Len(divisor) \in Nat /\ Len(remainder) \in Nat /\ Len(digits) \in Nat
  BY <1>3, <1>4, NumberIs
<1>6. Reduced <=> NumberOf(remainder) < NumberOf(divisor)
  BY <1>3, <1>4, CompareIs DEF Reduced
<1>. QED  BY <1>1, <1>3, <1>5, <1>6

\* No digits write 0.
LEMMA EmptyIs == <<>> \in DigitSeq /\ NumberOf(<<>>) = 0 /\ Trimmed(<<>>) /\ TrimZeroes(<<>>) = <<>>
<1>1. <<>> \in DigitSeq /\ Len(<<>>) = 0  BY DEF DigitSeq
<1>2. NumberOf(<<>>) = 0  BY <1>1, NumberIs DEF NumberOf
<1>3. TrimZeroes(<<>>) = <<>>
  <2>1. PICK z \in Nat : Drops(<<>>, z, TrimZeroes(<<>>))  BY <1>1, TrimIs
  <2>2. TrimZeroes(<<>>) \in DigitSeq /\ Len(TrimZeroes(<<>>)) = 0  BY <1>1, <2>1 DEF Drops
  <2>. QED  BY <2>2 DEF DigitSeq
<1>. QED  BY <1>1, <1>2, <1>3 DEF Trimmed

\* Nothing is divided yet.
LEMMA InitIInv == Init => IInv
<1> SUFFICES ASSUME Init PROVE IInv  OBVIOUS
<1>1. value \in Texts /\ increment \in Texts /\ value \in Quantities /\ increment \in Quantities
  BY DEF Init, Quantities
<1>2. ScaleOf(value, increment) \in Nat /\ Len(value.fraction) <= ScaleOf(value, increment)
  BY <1>1, ScaleIs
<1>3. digits \in DigitSeq /\ NumberOf(digits) = Whole
  BY <1>1, <1>2, DigitsAre DEF Init, Whole
<1>4. Types  BY <1>1, <1>3, EmptyIs DEF Init, Types
<1>5. remainder \o digits = digits  BY <1>3 DEF Init, DigitSeq
<1>6. NumberOf(divisor) \in Nat \ {0}  BY <1>4, DivisorIs
<1>7. Divided
  <2>1. NumberOf(digits) \in Nat  BY <1>3, NumberIs
  <2>2. Whole = 0 * NumberOf(divisor) + NumberOf(remainder \o digits)
    BY <1>3, <1>5, <1>6, <2>1
  <2>. QED  BY <2>2 DEF Divided
<1>8. Bounded  BY <1>6, EmptyIs DEF Init, Bounded
<1>. QED  BY <1>4, <1>7, <1>8 DEF IInv, Answered, Init

\* A digit moves from what is left to the remainder: the whole stays.
LEMMA PushIInv ==
  ASSUME IInv, PushDigit
  PROVE  IInv'
<1>. DEFINE h == Head(digits)
            u == Append(remainder, h)
<1>1. /\ Reduced /\ digits # <<>> /\ remainder' = TrimZeroes(u) /\ digits' = Tail(digits)
      /\ value' = value /\ increment' = increment /\ divisor' = divisor /\ answer' = answer
  BY DEF PushDigit
<1>2. /\ digits \in DigitSeq /\ remainder \in DigitSeq /\ Types
  BY DEF IInv, Types
<1>3. h \in 0 .. 9 /\ digits' \in DigitSeq /\ u \o digits' = remainder \o digits
  BY <1>1, <1>2 DEF DigitSeq
<1>. HIDE DEF h
<1>4. u \in DigitSeq /\ NumberOf(u) = 10 * NumberOf(remainder) + h
  BY <1>2, <1>3, AppendDigit
<1>. HIDE DEF u
<1>5. remainder' \in DigitSeq /\ Trimmed(remainder') /\ NumberOf(remainder') = NumberOf(u)
  BY <1>1, <1>4, TrimKeeps
<1>6. Types'
  BY <1>1, <1>3, <1>5 DEF IInv, Types
<1>7. NumberOf(remainder' \o digits') = NumberOf(remainder \o digits)
  <2>. DEFINE r == remainder'
              t == digits'
  <2>1. r \in DigitSeq /\ t \in DigitSeq /\ NumberOf(r) = NumberOf(u) /\ u \o t = remainder \o digits
    BY <1>3, <1>5
  <2>2. NumberOf(r) \in Nat  BY <2>1, NumberIs
  <2>. HIDE DEF r, t
  <2>3. PICK m \in Nat \ {0} : NumberOf(r \o t) - NumberOf(u \o t) = m * (NumberOf(r) - NumberOf(u))
    BY <1>4, <2>1, SameTail
  <2>4. NumberOf(r \o t) \in Nat /\ NumberOf(u \o t) \in Nat
    BY <1>4, <2>1, ConcatIs, NumberIs
  <2>5. NumberOf(r) - NumberOf(u) = 0 /\ m * 0 = 0  BY <2>1, <2>2
  <2>6. NumberOf(r \o t) = NumberOf(u \o t)  BY <2>3, <2>4, <2>5
  <2>. QED  BY <2>1, <2>6 DEF r, t
<1>8. Divided'
  BY <1>1, <1>7 DEF IInv, Divided, Whole
<1>9. Bounded'
  <2>. DEFINE r == NumberOf(remainder)
              d == NumberOf(divisor)
  <2>1. r \in Nat /\ d \in Nat /\ r < d  BY <1>1, <1>2, DivisorIs
  <2>2. NumberOf(remainder') = 10 * r + h /\ NumberOf(divisor') = d  BY <1>1, <1>4, <1>5
  <2>. HIDE DEF r, d
  <2>3. 10 * r + h < 10 * d  BY <1>3, <2>1
  <2>. QED  BY <2>2, <2>3 DEF Bounded
<1>10. Answered'
  BY <1>1 DEF IInv, Answered
<1>. QED  BY <1>6, <1>8, <1>9, <1>10 DEF IInv

\* An iteration of the while loop takes the divisor from the remainder.
LEMMA SubtractTakes ==
  ASSUME Types, Subtract
  PROVE  /\ remainder' \in DigitSeq /\ Trimmed(remainder')
         /\ NumberOf(remainder') = NumberOf(remainder) - NumberOf(divisor)
<1>1. ~Reduced /\ remainder' = SubtractDecimal(remainder, divisor)
  BY DEF Subtract
<1>3. /\ remainder \in DigitSeq /\ divisor \in DigitSeq /\ Trimmed(remainder) /\ Trimmed(divisor)
      /\ NumberOf(divisor) \in Nat /\ NumberOf(remainder) \in Nat
      /\ ~(NumberOf(remainder) < NumberOf(divisor))
      /\ Len(divisor) \in Nat /\ Len(remainder) \in Nat
  BY <1>1, DivisorIs DEF Types
<1>4. NumberOf(divisor) <= NumberOf(remainder)  BY <1>3
<1>5. Len(divisor) <= Len(remainder)
  <2>1. Len(remainder) < Len(divisor) => NumberOf(remainder) < NumberOf(divisor)
    BY <1>3, ShorterIsLess
  <2>. QED  BY <1>3, <2>1
<1>. QED  BY <1>1, <1>3, <1>4, <1>5, SubtractIs

\* One more divisor is taken from the remainder, with the digits to come.
LEMMA SubtractIInv ==
  ASSUME IInv, Subtract
  PROVE  IInv'
<1>1. /\ ~Reduced /\ remainder' = SubtractDecimal(remainder, divisor) /\ digits' = digits
      /\ value' = value /\ increment' = increment /\ divisor' = divisor /\ answer' = answer
  BY DEF Subtract
<1>2. Types  BY DEF IInv
<1>3. /\ digits \in DigitSeq /\ remainder \in DigitSeq /\ Trimmed(remainder)
      /\ divisor \in DigitSeq /\ Trimmed(divisor)
      /\ NumberOf(divisor) \in Nat \ {0} /\ NumberOf(remainder) \in Nat
      /\ ~(NumberOf(remainder) < NumberOf(divisor))
      /\ Len(divisor) \in Nat /\ Len(remainder) \in Nat
  BY <1>1, <1>2, DivisorIs DEF Types
<1>4. NumberOf(divisor) <= NumberOf(remainder)  BY <1>3
<1>6. /\ remainder' \in DigitSeq /\ Trimmed(remainder')
      /\ NumberOf(remainder') = NumberOf(remainder) - NumberOf(divisor)
  BY <1>2, SubtractTakes
<1>7. Types'
  BY <1>1, <1>2, <1>6 DEF Types
<1>8. Divided'
  <2>. DEFINE r == remainder'
              d == NumberOf(divisor)
  <2>9. r \in DigitSeq /\ NumberOf(r) = NumberOf(remainder) - d /\ d \in Nat  BY <1>3, <1>6
  <2>. HIDE DEF r
  <2>1. PICK m \in Nat \ {0} : NumberOf(remainder \o digits) - NumberOf(r \o digits)
                                 = m * (NumberOf(remainder) - NumberOf(r))
    BY <1>3, <2>9, SameTail
  <2>2. NumberOf(remainder \o digits) \in Nat /\ NumberOf(r \o digits) \in Nat
    BY <1>3, <2>9, ConcatIs, NumberIs
  <2>3. NumberOf(remainder) - NumberOf(r) = d  BY <1>3, <2>9
  <2>4. PICK k \in Nat : Whole = k * d + NumberOf(remainder \o digits)
    BY DEF IInv, Divided
  <2>5. Whole = (k + m) * d + NumberOf(r \o digits)
    <3>. DEFINE x == NumberOf(remainder \o digits)
                y == NumberOf(r \o digits)
    <3>1. x - y = m * d /\ x \in Nat /\ y \in Nat /\ Whole = k * d + x  BY <2>1, <2>2, <2>3, <2>4
    <3>. HIDE DEF x, y, d
    <3>2. (k + m) * d = k * d + m * d /\ k * d \in Nat /\ m * d \in Nat  BY <2>9
    <3>3. Whole = (k + m) * d + y  BY <3>1, <3>2
    <3>. QED  BY <3>3 DEF y
  <2>6. k + m \in Nat  OBVIOUS
  <2>7. Whole' = Whole /\ divisor' = divisor /\ digits' = digits  BY <1>1 DEF Whole
  <2>8. Divided' <=> \E n \in Nat : Whole' = n * NumberOf(divisor') + NumberOf(remainder' \o digits')
    BY DEF Divided
  <2>. QED  BY <2>5, <2>6, <2>7, <2>8 DEF r
<1>9. Bounded'
  BY <1>1, <1>3, <1>6 DEF IInv, Bounded
<1>10. Answered'
  BY <1>1, <1>3 DEF IInv, Answered
<1>. QED  BY <1>7, <1>8, <1>9, <1>10 DEF IInv

\* The remainder is zero when all of its digits are.
LEMMA AnswerIInv ==
  ASSUME IInv, Answer
  PROVE  IInv'
<1>1. /\ Reduced /\ digits = <<>> /\ answer' = (\A i \in DOMAIN remainder : remainder[i] = 0)
      /\ value' = value /\ increment' = increment /\ digits' = digits /\ divisor' = divisor
      /\ remainder' = remainder
  BY DEF Answer
<1>2. Types  BY DEF IInv
<1>3. answer' \in BOOLEAN /\ (answer' <=> \A i \in 1 .. Len(remainder) : remainder[i] = 0)
  BY <1>1, <1>2 DEF Types, DigitSeq
<1>4. NumberOf(remainder) = 0 <=> \A i \in 1 .. Len(remainder) : remainder[i] = 0
  <2>1. remainder \in DigitSeq /\ Len(remainder) \in 0 .. Len(remainder)
    BY <1>2, NumberIs DEF Types
  <2>. QED  BY <2>1, ZeroPrefix DEF NumberOf
<1>5. Types'  BY <1>1, <1>2, <1>3 DEF Types
<1>6. Answered'
  BY <1>1, <1>2, <1>3, <1>4, DivisorIs DEF Answered
<1>7. Divided' /\ Bounded'
  BY <1>1 DEF IInv, Divided, Bounded, Whole
<1>. QED  BY <1>5, <1>6, <1>7 DEF IInv

\* Every step keeps the invariant.
LEMMA NextIInv == IInv /\ [Next]_vars => IInv'
<1> SUFFICES ASSUME IInv, [Next]_vars PROVE IInv'  OBVIOUS
<1>1. CASE UNCHANGED vars
  BY <1>1 DEF vars, IInv, Types, Divided, Bounded, Answered, Whole
<1>2. CASE Next
  BY <1>2, PushIInv, SubtractIInv, AnswerIInv DEF Next
<1>. QED  BY <1>1, <1>2

\* The inductive invariant of the division.
THEOREM Inductive == Spec => []IInv
BY InitIInv, NextIInv, PTL DEF Spec

\* The loop invariant of decimal_remainder: what is left to divide is congruent
\* to the value modulo the divisor, and below ten times the divisor.
THEOREM DivisionIsExact == Spec => []LongDivision
<1>1. IInv => LongDivision
  <2> SUFFICES ASSUME IInv PROVE LongDivision  OBVIOUS
  <2>1. Types /\ Bounded  BY DEF IInv
  <2>2. /\ value \in Texts /\ increment \in Texts /\ divisor \in DigitSeq
        /\ NumberOf(divisor) \in Nat \ {0} /\ NumberOf(remainder) \in Nat
        /\ digits \in DigitSeq /\ remainder \in DigitSeq
    BY <2>1, DivisorIs DEF Types
  <2>3. TypeOK
    <3>1. \A s \in {digits, divisor, remainder} : Range(s) \subseteq 0 .. 9
      BY <2>2 DEF Range, DigitSeq
    <3>. QED  BY <2>1, <2>2, <3>1 DEF TypeOK, Types
  <2>. DEFINE d == NumberOf(divisor)
              x == NumberOf(remainder \o digits)
  <2>4. d \in Nat \ {0} /\ x \in Nat
    BY <2>2, ConcatIs, NumberIs
  <2>5. PICK k \in Nat : Whole = k * d + x  BY DEF IInv, Divided
  <2>. HIDE DEF d, x
  <2>6. Whole % d = x % d
    <3>1. (k * d + x) % d = x % d  BY <2>4, ModShift
    <3>. QED  BY <2>5, <3>1
  <2>. QED  BY <2>1, <2>3, <2>6 DEF LongDivision, Whole, Bounded, d, x
<1>. QED  BY <1>1, Inductive, PTL

\* What a step leaves to do: fewer digits, a smaller remainder with the same
\* digits, or an answer.
Nearer ==
  \/ Len(digits') < Len(digits)
  \/ digits' = digits /\ NumberOf(remainder') < NumberOf(remainder) /\ NumberOf(remainder') \in Nat
  \/ digits' = digits /\ remainder' = remainder /\ answer = NoAnswer /\ answer' # NoAnswer

\* Every step of is_multiple_of leaves it less to do, whatever the quantities:
\* the while loop of decimal_remainder cannot run forever.
THEOREM DivisionEnds == Spec => [][Nearer]_vars
<1>1. IInv /\ [Next]_vars => [Nearer]_vars
  <2> SUFFICES ASSUME IInv, Next PROVE Nearer  BY DEF vars
  <2>1. Types  BY DEF IInv
  <2>2. digits \in DigitSeq  BY <2>1 DEF Types
  <2>3. CASE PushDigit
    <3>1. digits # <<>> /\ digits' = Tail(digits)  BY <2>3 DEF PushDigit
    <3>2. Len(digits') < Len(digits)  BY <2>2, <3>1 DEF DigitSeq
    <3>. QED  BY <3>2 DEF Nearer
  <2>4. CASE Subtract
    <3>1. digits' = digits  BY <2>4 DEF Subtract
    <3>2. remainder' \in DigitSeq /\ NumberOf(remainder') = NumberOf(remainder) - NumberOf(divisor)
      BY <2>1, <2>4, SubtractTakes
    <3>3. NumberOf(divisor) \in Nat \ {0} /\ NumberOf(remainder) \in Nat  BY <2>1, DivisorIs
    <3>4. NumberOf(remainder') \in Nat  BY <3>2, NumberIs
    <3>. QED  BY <3>1, <3>2, <3>3, <3>4 DEF Nearer
  <2>5. CASE Answer
    <3>1. answer' \in BOOLEAN  BY <2>5 DEF Answer
    <3>. QED  BY <2>5, <3>1, DecimalAssumption DEF Answer, Nearer
  <2>. QED  BY <2>3, <2>4, <2>5 DEF Next
<1>. QED  BY <1>1, Inductive, PTL DEF Spec

\* is_multiple_of answers whether the numbers divide.
THEOREM MultiplesAreExact == Spec => []MultipleExact
<1>1. IInv => MultipleExact
  <2> SUFFICES ASSUME IInv, answer # NoAnswer
               PROVE  answer <=> Scaled(value) % Scaled(increment) = 0
    BY DEF MultipleExact
  <2>. DEFINE d == NumberOf(divisor)
              r == NumberOf(remainder)
  <2>1. Types /\ digits = <<>> /\ r < d /\ (answer <=> r = 0)  BY DEF IInv, Answered
  <2>2. /\ value \in Texts /\ increment \in Texts /\ d \in Nat \ {0} /\ r \in Nat
        /\ remainder \in DigitSeq /\ d = NumberOf(DecimalDigits(increment, ScaleOf(value, increment)))
    BY <2>1, DivisorIs DEF Types
  <2>3. PICK k \in Nat : Whole = k * d + r
    <3>1. remainder \o digits = remainder  BY <2>1, <2>2 DEF DigitSeq
    <3>. QED  BY <3>1 DEF IInv, Divided
  <2>4. PICK m \in Nat \ {0} : Scaled(value) = m * Whole /\ Scaled(increment) = m * d
    BY <2>2, ScaledIs DEF Whole
  <2>. HIDE DEF d, r
  <2>5. Whole \in Nat
    <3>1. k * d \in Nat  BY <2>2
    <3>. QED  BY <2>2, <2>3, <3>1
  <2>6. Whole % d = r
    <3>1. r \in 0 .. d - 1  BY <2>1, <2>2
    <3>. DEFINE a == Whole
    <3>2. a \in Nat /\ a = k * d + r /\ d \in Nat \ {0}  BY <2>2, <2>3, <2>5
    <3>. HIDE DEF a
    <3>3. a % d = r  BY <3>1, <3>2, ModIs
    <3>. QED  BY <3>3 DEF a
  <2>7. (m * Whole) % (m * d) = 0 <=> Whole % d = 0
    BY <2>2, <2>5, ModScale
  <2>. QED  BY <2>1, <2>4, <2>6, <2>7
<1>. QED  BY <1>1, Inductive, PTL

-----------------------------------------------------------------------------
(* One text per number.                                                    *)

\* Counted from the right, leading zeros make no difference.
LEMMA TrimFromRight ==
  ASSUME NEW s \in DigitSeq, NEW k \in Nat
  PROVE  FromRight(s, k) = FromRight(TrimZeroes(s), k)
<1>. DEFINE t == TrimZeroes(s)
<1>1. PICK z \in Nat : Drops(s, z, t)  BY TrimIs
<1>. HIDE DEF t
<1>2. /\ z \in 0 .. Len(s) /\ \A i \in 1 .. z : s[i] = 0
      /\ t \in DigitSeq /\ Len(t) = Len(s) - z /\ \A i \in 1 .. Len(t) : t[i] = s[z + i]
      /\ Len(s) \in Nat
  BY <1>1, NumberIs DEF Drops
<1>3. CASE k < Len(t)
  <2>1. /\ Len(t) - k \in 1 .. Len(t) /\ k < Len(s) /\ z + (Len(t) - k) = Len(s) - k
    BY <1>2, <1>3
  <2>2. t[Len(t) - k] = s[Len(s) - k]  BY <1>2, <2>1
  <2>. QED  BY <1>3, <2>1, <2>2 DEF FromRight, t
<1>4. CASE ~(k < Len(t)) /\ k < Len(s)
  <2>1. Len(s) - k \in 1 .. z  BY <1>2, <1>4
  <2>2. s[Len(s) - k] = 0  BY <1>2, <2>1
  <2>. QED  BY <1>4, <2>2 DEF FromRight, t
<1>5. CASE ~(k < Len(t)) /\ ~(k < Len(s))
  BY <1>5 DEF FromRight, t
<1>. QED  BY <1>3, <1>4, <1>5

\* What a text is, counted from the right of its digits at some scale.
LEMMA FullFromRight ==
  ASSUME NEW t \in Texts, NEW scale \in Nat, Len(t.fraction) <= scale
  PROVE  /\ \A i \in 1 .. Len(t.fraction) : FromRight(Full(t, scale), scale - i) = t.fraction[i]
         /\ \A i \in Len(t.fraction) + 1 .. scale : FromRight(Full(t, scale), scale - i) = 0
         /\ \A j \in Nat : FromRight(Full(t, scale), scale + j) = FromRight(t.integer, j)
<1>. DEFINE f == Full(t, scale)
            a == t.integer
            b == t.fraction
<1>1. /\ f \in DigitSeq /\ Len(f) = Len(a) + scale
      /\ \A i \in 1 .. Len(a) : f[i] = a[i]
      /\ \A i \in 1 .. Len(b) : f[Len(a) + i] = b[i]
      /\ \A i \in Len(b) + 1 .. scale : f[Len(a) + i] = 0
  BY FullIs
<1>2. Len(a) \in Nat /\ Len(b) \in Nat /\ Len(b) <= scale  BY TextIs
<1>. HIDE DEF f, a, b
<1>3. ASSUME NEW i \in 1 .. scale
      PROVE  FromRight(f, scale - i) = f[Len(a) + i]
  <2>1. scale - i < Len(f) /\ Len(f) - (scale - i) = Len(a) + i  BY <1>1, <1>2
  <2>. QED  BY <2>1 DEF FromRight
<1>4. ASSUME NEW i \in 1 .. Len(b) PROVE FromRight(f, scale - i) = b[i]
  <2>1. i \in 1 .. scale  BY <1>2
  <2>. QED  BY <1>1, <1>3, <2>1
<1>5. ASSUME NEW i \in Len(b) + 1 .. scale PROVE FromRight(f, scale - i) = 0
  <2>1. i \in 1 .. scale  BY <1>2
  <2>. QED  BY <1>1, <1>3, <2>1
<1>6. ASSUME NEW j \in Nat PROVE FromRight(f, scale + j) = FromRight(a, j)
  <2>1. CASE j < Len(a)
    <3>1. scale + j < Len(f) /\ Len(f) - (scale + j) = Len(a) - j /\ Len(a) - j \in 1 .. Len(a)
      BY <1>1, <1>2, <2>1
    <3>2. f[Len(f) - (scale + j)] = a[Len(a) - j]  BY <1>1, <3>1
    <3>. QED  BY <2>1, <3>1, <3>2 DEF FromRight
  <2>2. CASE ~(j < Len(a))
    <3>1. ~(scale + j < Len(f))  BY <1>1, <1>2, <2>2
    <3>. QED  BY <2>2, <3>1 DEF FromRight
  <2>. QED  BY <2>1, <2>2
<1>. QED  BY <1>4, <1>5, <1>6 DEF f, a, b

\* A canonical integer part is not shorter than one with the same digits.
LEMMA CanonicalInteger ==
  ASSUME NEW a \in DigitSeq, NEW b \in DigitSeq, Len(a) > 0, Len(b) > 1 => b[1] # 0,
         \A j \in Nat : FromRight(a, j) = FromRight(b, j)
  PROVE  Len(b) <= Len(a)
<1> SUFFICES ASSUME ~(Len(b) <= Len(a)) PROVE FALSE  OBVIOUS
<1>1. Len(a) \in Nat /\ Len(b) \in Nat  BY NumberIs
<1>. DEFINE n == Len(a)
            m == Len(b)
            j == m - 1
<1>2. n \in Nat /\ m \in Nat /\ n > 0 /\ ~(m <= n)  BY <1>1
<1>3. m > 1 => b[1] # 0  OBVIOUS
<1>4. FromRight(a, j) = (IF j < n THEN a[n - j] ELSE 0) /\ FromRight(b, j) = (IF j < m THEN b[m - j] ELSE 0)
  BY DEF FromRight
<1>. HIDE DEF n, m
<1>5. j \in Nat /\ ~(j < n) /\ j < m /\ m - j = 1 /\ m > 1  BY <1>2
<1>. HIDE DEF j
<1>6. FromRight(a, j) = 0 /\ FromRight(b, j) = b[1]  BY <1>4, <1>5
<1>. QED  BY <1>3, <1>5, <1>6

\* Nor is a canonical fraction.
LEMMA CanonicalFraction ==
  ASSUME NEW t \in Quantities, NEW u \in Quantities, NEW scale \in Nat,
         Len(t.fraction) <= scale, Len(u.fraction) <= scale,
         \A k \in Nat : FromRight(Full(t, scale), k) = FromRight(Full(u, scale), k)
  PROVE  Len(u.fraction) <= Len(t.fraction)
<1>1. t \in Texts /\ u \in Texts /\ Accepts(u)  BY DEF Quantities
<1>. DEFINE n == Len(t.fraction)
            m == Len(u.fraction)
<1>2. n \in Nat /\ m \in Nat /\ n <= scale /\ m <= scale  BY <1>1, TextIs
<1> SUFFICES ASSUME ~(m <= n) PROVE FALSE  OBVIOUS
<1>3. /\ \A i \in 1 .. m : FromRight(Full(u, scale), scale - i) = u.fraction[i]
      /\ \A i \in n + 1 .. scale : FromRight(Full(t, scale), scale - i) = 0
  BY <1>1, FullFromRight
<1>4. m > 0 => u.fraction[m] # 0
  <2>1. u.point => u.fraction[m] # 0  BY <1>1 DEF Accepts, Last
  <2>2. ~u.point => u.fraction = <<>>  BY <1>1, TextIs
  <2>3. u.point \in BOOLEAN  BY <1>1, TextIs
  <2>4. u.fraction = <<>> => m = 0  OBVIOUS
  <2>. QED  BY <1>2, <2>1, <2>2, <2>3, <2>4
<1>. HIDE DEF n, m
<1>5. m \in 1 .. m /\ m \in n + 1 .. scale /\ m > 0 /\ scale - m \in Nat  BY <1>2
<1>6. u.fraction[m] = 0  BY <1>3, <1>5
<1>. QED  BY <1>4, <1>5, <1>6

\* Two accepted texts of one number are one text.
LEMMA SameText ==
  ASSUME NEW t \in Quantities, NEW u \in Quantities, NEW scale \in Nat,
         Len(t.fraction) <= scale, Len(u.fraction) <= scale,
         TrimZeroes(Full(t, scale)) = TrimZeroes(Full(u, scale))
  PROVE  t = u
<1>1. t \in Texts /\ u \in Texts /\ Accepts(t) /\ Accepts(u)  BY DEF Quantities
<1>2. Full(t, scale) \in DigitSeq /\ Full(u, scale) \in DigitSeq  BY <1>1, FullIs
<1>3. \A k \in Nat : FromRight(Full(t, scale), k) = FromRight(Full(u, scale), k)
  BY <1>2, TrimFromRight
<1>4. /\ t.integer \in DigitSeq /\ t.fraction \in DigitSeq /\ Len(t.integer) \in Nat /\ Len(t.fraction) \in Nat
      /\ u.integer \in DigitSeq /\ u.fraction \in DigitSeq /\ Len(u.integer) \in Nat /\ Len(u.fraction) \in Nat
  BY <1>1, TextIs
<1>5. t.fraction = u.fraction
  <2>1. Len(t.fraction) = Len(u.fraction)
    <3>1. Len(u.fraction) <= Len(t.fraction)  BY <1>3, CanonicalFraction
    <3>2. Len(t.fraction) <= Len(u.fraction)  BY <1>3, CanonicalFraction
    <3>. QED  BY <1>4, <3>1, <3>2
  <2>2. \A i \in 1 .. Len(t.fraction) : t.fraction[i] = u.fraction[i]
    <3> SUFFICES ASSUME NEW i \in 1 .. Len(t.fraction) PROVE t.fraction[i] = u.fraction[i]  OBVIOUS
    <3>1. scale - i \in Nat  BY <1>4
    <3>2. FromRight(Full(t, scale), scale - i) = t.fraction[i]  BY <1>1, FullFromRight
    <3>3. FromRight(Full(u, scale), scale - i) = u.fraction[i]  BY <1>1, <2>1, FullFromRight
    <3>. QED  BY <1>3, <3>1, <3>2, <3>3
  <2>. QED  BY <1>4, <2>1, <2>2, SeqEqual DEF DigitSeq
<1>6. t.integer = u.integer
  <2>. DEFINE a == t.integer
              b == u.integer
  <2>1. \A j \in Nat : FromRight(a, j) = FromRight(b, j)
    <3> SUFFICES ASSUME NEW j \in Nat PROVE FromRight(a, j) = FromRight(b, j)  OBVIOUS
    <3>1. FromRight(Full(t, scale), scale + j) = FromRight(a, j)  BY <1>1, FullFromRight
    <3>2. FromRight(Full(u, scale), scale + j) = FromRight(b, j)  BY <1>1, FullFromRight
    <3>3. scale + j \in Nat  OBVIOUS
    <3>. QED  BY <1>3, <3>1, <3>2, <3>3
  <2>2. /\ Len(a) > 0 /\ (Len(a) > 1 => a[1] # 0)
        /\ Len(b) > 0 /\ (Len(b) > 1 => b[1] # 0)
    BY <1>1, <1>4 DEF Accepts, DigitSeq
  <2>3. a \in DigitSeq /\ b \in DigitSeq /\ Len(a) \in Nat /\ Len(b) \in Nat  BY <1>4
  <2>. HIDE DEF a, b
  <2>4. Len(b) <= Len(a)  BY <2>1, <2>2, <2>3, CanonicalInteger
  <2>5. Len(a) <= Len(b)  BY <2>1, <2>2, <2>3, CanonicalInteger
  <2>6. Len(a) = Len(b)  BY <2>3, <2>4, <2>5
  <2>7. \A i \in 1 .. Len(a) : a[i] = b[i]
    <3> SUFFICES ASSUME NEW i \in 1 .. Len(a) PROVE a[i] = b[i]  OBVIOUS
    <3>. DEFINE j == Len(a) - i
    <3>1. j \in Nat /\ j < Len(a) /\ Len(a) - j = i  BY <2>3
    <3>. HIDE DEF j
    <3>2. FromRight(a, j) = a[i] /\ FromRight(b, j) = b[i]  BY <2>6, <3>1 DEF FromRight
    <3>. QED  BY <2>1, <3>1, <3>2
  <2>8. a = b  BY <2>3, <2>6, <2>7, SeqEqual DEF DigitSeq
  <2>. QED  BY <2>8 DEF a, b
<1>7. t.point = u.point
  <2>1. t.point \in BOOLEAN /\ u.point \in BOOLEAN  BY <1>1, TextIs
  <2>2. ~t.point => Len(t.fraction) = 0  BY <1>1, TextIs
  <2>3. ~u.point => Len(u.fraction) = 0  BY <1>1, TextIs
  <2>4. t.point => Len(t.fraction) >= 1  BY <1>1 DEF Accepts
  <2>5. u.point => Len(u.fraction) >= 1  BY <1>1 DEF Accepts
  <2>6. t.point <=> u.point  BY <1>5, <2>2, <2>3, <2>4, <2>5
  <2>. QED  BY <2>1, <2>6
<1>8. /\ t = [integer |-> t.integer, point |-> t.point, fraction |-> t.fraction]
      /\ u = [integer |-> u.integer, point |-> u.point, fraction |-> u.fraction]
  BY <1>1 DEF Texts
<1>. QED  BY <1>5, <1>6, <1>7, <1>8

\* Quantity's Ord is the order of the numbers, and agrees with the derived Eq
\* and Hash: one number has one text.
THEOREM OrderIsExact == Spec => []OrderExact
<1>1. IInv => OrderExact
  <2> SUFFICES ASSUME IInv PROVE OrderExact  OBVIOUS
  <2>. DEFINE s == ScaleOf(value, increment)
              l == DecimalDigits(value, s)
              r == DecimalDigits(increment, s)
              order == CompareQuantity(value, increment)
  <2>1. value \in Quantities /\ increment \in Quantities /\ value \in Texts /\ increment \in Texts
    BY DEF IInv, Types, Quantities
  <2>2. s \in Nat /\ Len(value.fraction) <= s /\ Len(increment.fraction) <= s
    BY <2>1, ScaleIs
  <2>3. order = CompareDecimal(l, r)  BY DEF CompareQuantity
  <2>4. PICK m \in Nat \ {0} : Scaled(value) = m * NumberOf(l) /\ Scaled(increment) = m * NumberOf(r)
    BY <2>1, ScaledIs
  <2>. HIDE DEF s
  <2>5. /\ l \in DigitSeq /\ l = TrimZeroes(Full(value, s)) /\ NumberOf(l) = NumberOf(Full(value, s))
        /\ r \in DigitSeq /\ r = TrimZeroes(Full(increment, s)) /\ NumberOf(r) = NumberOf(Full(increment, s))
        /\ Full(value, s) \in DigitSeq /\ Full(increment, s) \in DigitSeq
    BY <2>1, <2>2, DigitsAre, FullIs
  <2>6. NumberOf(l) \in Nat /\ NumberOf(r) \in Nat  BY <2>5, NumberIs
  <2>. HIDE DEF l, r, order
  <2>7. /\ order = "less"    <=> NumberOf(l) < NumberOf(r)
        /\ order = "greater" <=> NumberOf(l) > NumberOf(r)
        /\ order = "equal"   <=> NumberOf(l) = NumberOf(r)
    BY <2>3, <2>5, CompareIs
  <2>8. /\ NumberOf(l) < NumberOf(r) <=> Scaled(value) < Scaled(increment)
        /\ NumberOf(l) > NumberOf(r) <=> Scaled(value) > Scaled(increment)
    BY <2>4, <2>6, ScaleOrder
  <2>9. NumberOf(l) = NumberOf(r) <=> value = increment
    <3>1. ASSUME NumberOf(l) = NumberOf(r) PROVE value = increment
      <4>1. TrimZeroes(Full(value, s)) = TrimZeroes(Full(increment, s))
        BY <2>5, <3>1, CompareIs
      <4>. QED  BY <2>1, <2>2, <4>1, SameText
    <3>2. value = increment => l = r  BY DEF l, r
    <3>. QED  BY <3>1, <3>2
  <2>. QED  BY <2>7, <2>8, <2>9 DEF OrderExact, order
<1>. QED  BY <1>1, Inductive, PTL
====
