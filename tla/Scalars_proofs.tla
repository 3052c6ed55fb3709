---------------------------- MODULE Scalars_proofs ----------------------------
(***************************************************************************)
(* parse, the published patterns and the constructors agree for texts of   *)
(* any length, any limits and any layout of a UUID.                        *)
(***************************************************************************)
EXTENDS Scalars, FiniteSetTheorems, WellFoundedInduction, SequenceTheorems, TLAPS

\* Induction over a set of naturals.
LEMMA NatSetInduction ==
  ASSUME NEW X \in SUBSET Nat, 0 \in X, \A n \in X : n + 1 \in X
  PROVE  X = Nat
<1> SUFFICES ASSUME Nat \ X # {} PROVE FALSE  OBVIOUS
<1>. DEFINE R == OpToRel(<, Nat)
<1>1. \A m, n \in Nat : m < n => <<m, n>> \in R  BY DEF OpToRel
<1>2. IsWellFoundedOn(R, Nat)  BY NatLessThanWellFounded
<1>. HIDE DEF R
<1>3. PICK n \in Nat \ X : \A m \in Nat \ X : ~ (<<m, n>> \in R)
  <2>1. Nat \ X \subseteq Nat  OBVIOUS
  <2>. QED  BY <1>2, <2>1, WFMin
<1>4. n - 1 \in Nat \ X /\ n - 1 < n  OBVIOUS
<1>5. <<n - 1, n>> \in R  BY <1>1, <1>4
<1>. QED  BY <1>3, <1>4, <1>5

\* Induction up to a bound.
LEMMA UpTo ==
  ASSUME NEW m \in Nat, NEW X, 0 \in X, \A n \in 0 .. m - 1 : n \in X => n + 1 \in X
  PROVE  \A n \in 0 .. m : n \in X
<1>. DEFINE Y == {n \in Nat : n <= m => n \in X}
<1>1. 0 \in Y /\ \A n \in Y : n + 1 \in Y  OBVIOUS
<1>2. Y \in SUBSET Nat  OBVIOUS
<1>. HIDE DEF Y
<1>3. Y = Nat  BY <1>1, <1>2, NatSetInduction
<1>. QED  BY <1>3 DEF Y

\* f is built from base by the steps G, one for each number up to m.
Follows(f, m, base, G) == f[0] = base /\ \A n \in 1 .. m : f[n] = G[n][f[n - 1]]

\* A function on 0 .. m is defined by its first value and by each from the one
\* before.
LEMMA Recursion ==
  ASSUME NEW m \in Nat, NEW T, NEW base \in T, NEW G \in [1 .. m -> [T -> T]]
  PROVE  \E f \in [0 .. m -> T] : Follows(f, m, base, G)
<1>. DEFINE Good(f, n) == f \in [0 .. n -> T] /\ f[0] = base /\ \A k \in 1 .. n : f[k] = G[k][f[k - 1]]
            X == {n \in Nat : \E f : Good(f, n)}
<1>1. 0 \in X
  <2>1. Good([k \in 0 .. 0 |-> base], 0)  OBVIOUS
  <2>. QED  BY <2>1
<1>2. ASSUME NEW n \in 0 .. m - 1, n \in X
      PROVE  n + 1 \in X
  <2>1. PICK f : Good(f, n)  BY <1>2
  <2>. DEFINE g == [k \in 0 .. n + 1 |-> IF k = n + 1 THEN G[n + 1][f[n]] ELSE f[k]]
  <2>2. G[n + 1][f[n]] \in T  BY <2>1
  <2>3. Good(g, n + 1)  BY <2>1, <2>2
  <2>4. n + 1 \in Nat  OBVIOUS
  <2>. HIDE DEF Good, g
  <2>. QED  BY <2>3, <2>4
<1>. HIDE DEF X
<1>3. \A n \in 0 .. m - 1 : n \in X => n + 1 \in X  BY <1>2
<1>4. \A n \in 0 .. m : n \in X  BY <1>1, <1>3, UpTo
<1>5. m \in X  BY <1>4
<1>6. PICK f : Good(f, m)  BY <1>5 DEF X
<1>. QED  BY <1>6 DEF Follows

-----------------------------------------------------------------------------
(* Characters.                                                             *)

\* The hexadecimal digits.
LEMMA HexIs ==
  /\ \A n \in 0 .. 15 : HexDigit(n) \in LowerHex
  /\ \A n \in 0 .. 9 : HexDigit(n) \in Decimals /\ DigitValue[HexDigit(n)] = n
  /\ \A ch \in Decimals : DigitValue[ch] \in 0 .. 9 /\ HexDigit(DigitValue[ch]) = ch /\ ch \in LowerHex
  /\ \A ch \in Decimals : DigitValue[ch] = 0 <=> ch = "0"
<1>1. \A n \in 0 .. 15 : HexDigit(n) \in LowerHex
  <2> SUFFICES ASSUME NEW n \in 0 .. 15 PROVE HexDigit(n) \in LowerHex  OBVIOUS
  <2>1. n + 1 \in 1 .. 16  OBVIOUS
  <2>. QED  BY <2>1 DEF HexDigit, LowerHex
<1>2. \A n \in 0 .. 9 : HexDigit(n) \in Decimals
  <2> SUFFICES ASSUME NEW n \in 0 .. 9 PROVE HexDigit(n) \in Decimals  OBVIOUS
  <2>1. n + 1 \in 1 .. 10  OBVIOUS
  <2>. QED  BY <2>1 DEF HexDigit, Decimals
<1>3. \A m, n \in 0 .. 9 : HexDigit(m) = HexDigit(n) => m = n
  BY DEF HexDigit, HexDigits
<1>4. ASSUME NEW ch \in Decimals
      PROVE  DigitValue[ch] \in 0 .. 9 /\ HexDigit(DigitValue[ch]) = ch
  <2>1. PICK i \in 1 .. 10 : ch = HexDigits[i]  BY <1>4 DEF Decimals
  <2>2. i - 1 \in 0 .. 9 /\ HexDigits[(i - 1) + 1] = ch  BY <2>1
  <2>3. DigitValue[ch] = CHOOSE n \in 0 .. 9 : HexDigits[n + 1] = ch  BY DEF DigitValue
  <2>. HIDE DEF HexDigits
  <2>4. DigitValue[ch] \in 0 .. 9 /\ HexDigits[DigitValue[ch] + 1] = ch  BY <2>2, <2>3
  <2>. QED  BY <2>4 DEF HexDigit
<1>5. \A n \in 0 .. 9 : DigitValue[HexDigit(n)] = n
  BY <1>2, <1>3, <1>4
<1>6. HexDigit(0) = "0"  BY DEF HexDigit, HexDigits
<1>7. \A ch \in Decimals : DigitValue[ch] = 0 <=> ch = "0"
  BY <1>4, <1>5, <1>6
<1>8. \A ch \in Decimals : ch \in LowerHex  BY DEF Decimals, LowerHex
<1>. QED  BY <1>1, <1>2, <1>4, <1>5, <1>7, <1>8

\* What the kinds of characters are.
LEMMA CharactersAre ==
  /\ \A ch : Bytes(ch) \in Nat \ {0}
  /\ \A ch \in LowerHex : Bytes(ch) = 1 /\ IsHex(ch) /\ Lowered(ch) = ch
  /\ \A ch : IsHex(ch) => Lowered(ch) \in LowerHex
  /\ ~IsHex("-") /\ Bytes("sha256:") = 7
<1>1. \A ch : Bytes(ch) \in Nat \ {0}  BY DEF Bytes
<1>2. \A ch \in LowerHex : IsHex(ch) /\ Lowered(ch) = ch  BY DEF IsHex, Lowered
<1>3. \A i \in 1 .. 16 : HexDigits[i] \notin {"e_acute", "nel", "sha256:", "-"}
  BY DEF HexDigits
<1>4. \A ch \in LowerHex : ch \notin {"e_acute", "nel", "sha256:", "-"}
  BY <1>3 DEF LowerHex
<1>5. \A ch \in LowerHex : Bytes(ch) = 1  BY <1>4 DEF Bytes
<1>6. \A i \in 1 .. 6 : UpperHex[i] # "-"  BY DEF UpperHex
<1>7. ~IsHex("-")  BY <1>4, <1>6 DEF IsHex
<1>8. ASSUME NEW ch, IsHex(ch) PROVE Lowered(ch) \in LowerHex
  <2>1. CASE ch \in LowerHex  BY <1>2, <2>1
  <2>2. CASE ch \notin LowerHex
    <3>1. PICK i \in 1 .. 6 : UpperHex[i] = ch  BY <1>8, <2>2 DEF IsHex
    <3>. DEFINE j == CHOOSE k \in 1 .. 6 : UpperHex[k] = ch
    <3>2. j \in 1 .. 6  BY <3>1
    <3>3. Lowered(ch) = HexDigits[10 + j]  BY <2>2 DEF Lowered
    <3>. HIDE DEF j
    <3>4. 10 + j \in 1 .. 16  BY <3>2
    <3>. QED  BY <3>3, <3>4 DEF LowerHex
  <2>. QED  BY <2>1, <2>2
<1>9. Bytes("sha256:") = 7  BY DEF Bytes
<1>. QED  BY <1>1, <1>2, <1>5, <1>7, <1>8, <1>9

-----------------------------------------------------------------------------
(* The recursive functions.                                                *)

\* A sequence, of whatever characters.
IsText(t) == t \in Seq(Range(t))

\* Its characters.
LEMMA TextIs ==
  ASSUME NEW t, IsText(t)
  PROVE  /\ Len(t) \in Nat /\ DOMAIN t = 1 .. Len(t) /\ \A i \in 1 .. Len(t) : t[i] \in Range(t)
         /\ t = <<>> <=> Len(t) = 0
         /\ Range(t) = {t[i] : i \in 1 .. Len(t)}
BY DEF IsText, Range

\* String::len counts the bytes of each character.
LEMMA LeadingBytesAre ==
  ASSUME NEW t, IsText(t)
  PROVE  /\ LeadingBytes(t) \in [0 .. Len(t) -> Nat] /\ LeadingBytes(t)[0] = 0
         /\ \A n \in 1 .. Len(t) :
              LeadingBytes(t)[n] = LeadingBytes(t)[n - 1] + Bytes(t[n])
<1>. DEFINE T == Nat
            m == Len(t)
            base == 0
            Step(x, n) == x + Bytes(t[n])
            G == [n \in 1 .. m |-> [x \in T |-> Step(x, n)]]
            Is(f) == f = [n \in 0 .. m |-> IF n = 0 THEN base ELSE Step(f[n - 1], n)]
            L == LeadingBytes(t)
<1>1. L = CHOOSE g : Is(g)  BY DEF LeadingBytes
<1>2. m \in Nat  BY TextIs
<1>3. base \in T /\ \A n \in 1 .. m : \A x \in T : Step(x, n) \in T
  BY CharactersAre
<1>. HIDE DEF base, Step, T, m
<1>4. G \in [1 .. m -> [T -> T]]  BY <1>3
<1>5. \A n \in 1 .. m : \A x \in T : G[n][x] = Step(x, n)  OBVIOUS
<1>. HIDE DEF G
<1>6. PICK f \in [0 .. m -> T] : Follows(f, m, base, G)  BY <1>2, <1>3, <1>4, Recursion
<1>7. Is(f)
  <2>1. \A n \in 1 .. m : f[n - 1] \in T  BY <1>2
  <2>2. \A n \in 1 .. m : f[n] = Step(f[n - 1], n)  BY <1>5, <1>6, <2>1 DEF Follows
  <2>3. ASSUME NEW n \in 0 .. m PROVE f[n] = IF n = 0 THEN base ELSE Step(f[n - 1], n)
    <3>1. CASE n = 0  BY <1>6, <3>1 DEF Follows
    <3>2. CASE n # 0
      <4>1. n \in 1 .. m  BY <1>2, <3>2
      <4>. QED  BY <2>2, <3>2, <4>1
    <3>. QED  BY <3>1, <3>2
  <2>. QED  BY <2>3
<1>8. Is(L)
  <2>. HIDE DEF Is, L
  <2>. QED  BY <1>1, <1>7
<1>. HIDE DEF L
<1>9. \A n \in 0 .. m : L[n] = IF n = 0 THEN base ELSE Step(L[n - 1], n)  BY <1>8
<1>10. L[0] = base /\ \A n \in 1 .. m : L[n] = Step(L[n - 1], n)
  <2>1. 0 \in 0 .. m /\ \A n \in 1 .. m : n \in 0 .. m /\ n # 0  BY <1>2
  <2>. QED  BY <1>9, <2>1
<1>. DEFINE X == {n \in 0 .. m : L[n] \in T}
<1>11. \A n \in 0 .. m : n \in X
  <2>1. 0 \in X  BY <1>2, <1>3, <1>10
  <2>2. ASSUME NEW n \in 0 .. m - 1, n \in X
        PROVE  n + 1 \in X
    <3>1. n + 1 \in 1 .. m /\ (n + 1) - 1 = n  BY <1>2
    <3>2. L[n + 1] = Step(L[n], n + 1)  BY <1>10, <3>1
    <3>3. L[n + 1] \in T  BY <1>3, <2>2, <3>1, <3>2
    <3>. QED  BY <1>2, <3>1, <3>3
  <2>. HIDE DEF X
  <2>. QED  BY <1>2, <2>1, <2>2, UpTo
<1>12. L \in [0 .. m -> T]  BY <1>8, <1>11
<1>. QED  BY <1>10, <1>12 DEF L, T, base, Step, m

\* The digits of a numeral are read from the left.
LEMMA LeadingNumberIs ==
  ASSUME NEW t, IsText(t), IsNumeral(t)
  PROVE  /\ LeadingNumber(t) \in [0 .. Len(t) -> Nat] /\ LeadingNumber(t)[0] = 0
         /\ \A n \in 1 .. Len(t) :
              LeadingNumber(t)[n] = 10 * LeadingNumber(t)[n - 1] + DigitValue[t[n]]
<1>. DEFINE T == Nat
            m == Len(t)
            base == 0
            Step(x, n) == 10 * x + DigitValue[t[n]]
            G == [n \in 1 .. m |-> [x \in T |-> Step(x, n)]]
            Is(f) == f = [n \in 0 .. m |-> IF n = 0 THEN base ELSE Step(f[n - 1], n)]
            L == LeadingNumber(t)
<1>1. L = CHOOSE g : Is(g)  BY DEF LeadingNumber
<1>2. m \in Nat  BY TextIs
<1>3. base \in T /\ \A n \in 1 .. m : \A x \in T : Step(x, n) \in T
  <2> SUFFICES ASSUME NEW n \in 1 .. m, NEW x \in Nat PROVE 10 * x + DigitValue[t[n]] \in Nat
    OBVIOUS
  <2>1. t[n] \in Decimals  BY TextIs DEF IsNumeral
  <2>2. DigitValue[t[n]] \in 0 .. 9  BY <2>1, HexIs
  <2>. QED  BY <2>2
<1>. HIDE DEF base, Step, T, m
<1>4. G \in [1 .. m -> [T -> T]]  BY <1>3
<1>5. \A n \in 1 .. m : \A x \in T : G[n][x] = Step(x, n)  OBVIOUS
<1>. HIDE DEF G
<1>6. PICK f \in [0 .. m -> T] : Follows(f, m, base, G)  BY <1>2, <1>3, <1>4, Recursion
<1>7. Is(f)
  <2>1. \A n \in 1 .. m : f[n - 1] \in T  BY <1>2
  <2>2. \A n \in 1 .. m : f[n] = Step(f[n - 1], n)  BY <1>5, <1>6, <2>1 DEF Follows
  <2>3. ASSUME NEW n \in 0 .. m PROVE f[n] = IF n = 0 THEN base ELSE Step(f[n - 1], n)
    <3>1. CASE n = 0  BY <1>6, <3>1 DEF Follows
    <3>2. CASE n # 0
      <4>1. n \in 1 .. m  BY <1>2, <3>2
      <4>. QED  BY <2>2, <3>2, <4>1
    <3>. QED  BY <3>1, <3>2
  <2>. QED  BY <2>3
<1>8. Is(L)
  <2>. HIDE DEF Is, L
  <2>. QED  BY <1>1, <1>7
<1>. HIDE DEF L
<1>9. \A n \in 0 .. m : L[n] = IF n = 0 THEN base ELSE Step(L[n - 1], n)  BY <1>8
<1>10. L[0] = base /\ \A n \in 1 .. m : L[n] = Step(L[n - 1], n)
  <2>1. 0 \in 0 .. m /\ \A n \in 1 .. m : n \in 0 .. m /\ n # 0  BY <1>2
  <2>. QED  BY <1>9, <2>1
<1>. DEFINE X == {n \in 0 .. m : L[n] \in T}
<1>11. \A n \in 0 .. m : n \in X
  <2>1. 0 \in X  BY <1>2, <1>3, <1>10
  <2>2. ASSUME NEW n \in 0 .. m - 1, n \in X
        PROVE  n + 1 \in X
    <3>1. n + 1 \in 1 .. m /\ (n + 1) - 1 = n  BY <1>2
    <3>2. L[n + 1] = Step(L[n], n + 1)  BY <1>10, <3>1
    <3>3. L[n + 1] \in T  BY <1>3, <2>2, <3>1, <3>2
    <3>. QED  BY <1>2, <3>1, <3>3
  <2>. HIDE DEF X
  <2>. QED  BY <1>2, <2>1, <2>2, UpTo
<1>12. L \in [0 .. m -> T]  BY <1>8, <1>11
<1>. QED  BY <1>10, <1>12 DEF L, T, base, Step, m

\* The hexadecimal digits of a text, in lower case and in order.
LEMMA LeadingDigitsAre ==
  ASSUME NEW t, IsText(t)
  PROVE  /\ LeadingDigits(t) \in [0 .. Len(t) -> Seq(LowerHex)] /\ LeadingDigits(t)[0] = <<>>
         /\ \A n \in 1 .. Len(t) :
              LeadingDigits(t)[n] = IF IsHex(t[n]) THEN Append(LeadingDigits(t)[n - 1], Lowered(t[n])) ELSE LeadingDigits(t)[n - 1]
<1>. DEFINE T == Seq(LowerHex)
            m == Len(t)
            base == <<>>
            Step(x, n) == IF IsHex(t[n]) THEN Append(x, Lowered(t[n])) ELSE x
            G == [n \in 1 .. m |-> [x \in T |-> Step(x, n)]]
            Is(f) == f = [n \in 0 .. m |-> IF n = 0 THEN base ELSE Step(f[n - 1], n)]
            L == LeadingDigits(t)
<1>1. L = CHOOSE g : Is(g)  BY DEF LeadingDigits
<1>2. m \in Nat  BY TextIs
<1>3. base \in T /\ \A n \in 1 .. m : \A x \in T : Step(x, n) \in T
  <2>1. \A x \in Seq(LowerHex), ch \in LowerHex : Append(x, ch) \in Seq(LowerHex)  OBVIOUS
  <2>. QED  BY <2>1, CharactersAre
<1>. HIDE DEF base, Step, T, m
<1>4. G \in [1 .. m -> [T -> T]]  BY <1>3
<1>5. \A n \in 1 .. m : \A x \in T : G[n][x] = Step(x, n)  OBVIOUS
<1>. HIDE DEF G
<1>6. PICK f \in [0 .. m -> T] : Follows(f, m, base, G)  BY <1>2, <1>3, <1>4, Recursion
<1>7. Is(f)
  <2>1. \A n \in 1 .. m : f[n - 1] \in T  BY <1>2
  <2>2. \A n \in 1 .. m : f[n] = Step(f[n - 1], n)  BY <1>5, <1>6, <2>1 DEF Follows
  <2>3. ASSUME NEW n \in 0 .. m PROVE f[n] = IF n = 0 THEN base ELSE Step(f[n - 1], n)
    <3>1. CASE n = 0  BY <1>6, <3>1 DEF Follows
    <3>2. CASE n # 0
      <4>1. n \in 1 .. m  BY <1>2, <3>2
      <4>. QED  BY <2>2, <3>2, <4>1
    <3>. QED  BY <3>1, <3>2
  <2>. QED  BY <2>3
<1>8. Is(L)
  <2>. HIDE DEF Is, L
  <2>. QED  BY <1>1, <1>7
<1>. HIDE DEF L
<1>9. \A n \in 0 .. m : L[n] = IF n = 0 THEN base ELSE Step(L[n - 1], n)  BY <1>8
<1>10. L[0] = base /\ \A n \in 1 .. m : L[n] = Step(L[n - 1], n)
  <2>1. 0 \in 0 .. m /\ \A n \in 1 .. m : n \in 0 .. m /\ n # 0  BY <1>2
  <2>. QED  BY <1>9, <2>1
<1>. DEFINE X == {n \in 0 .. m : L[n] \in T}
<1>11. \A n \in 0 .. m : n \in X
  <2>1. 0 \in X  BY <1>2, <1>3, <1>10
  <2>2. ASSUME NEW n \in 0 .. m - 1, n \in X
        PROVE  n + 1 \in X
    <3>1. n + 1 \in 1 .. m /\ (n + 1) - 1 = n  BY <1>2
    <3>2. L[n + 1] = Step(L[n], n + 1)  BY <1>10, <3>1
    <3>3. L[n + 1] \in T  BY <1>3, <2>2, <3>1, <3>2
    <3>. QED  BY <1>2, <3>1, <3>3
  <2>. HIDE DEF X
  <2>. QED  BY <1>2, <2>1, <2>2, UpTo
<1>12. L \in [0 .. m -> T]  BY <1>8, <1>11
<1>. QED  BY <1>10, <1>12 DEF L, T, base, Step, m

\* format!("{byte:02x}"): two lower-case digits.
LEMMA HexByteIs ==
  ASSUME NEW b \in 0 .. 255
  PROVE  /\ HexByte(b) \in Seq(LowerHex \cup {"sha256:"}) /\ Len(HexByte(b)) = 2
         /\ HexByte(b)[1] \in LowerHex /\ HexByte(b)[2] \in LowerHex
<1>1. b \div 16 \in 0 .. 15 /\ b % 16 \in 0 .. 15  OBVIOUS
<1>. DEFINE h == HexDigit(b \div 16)
            l == HexDigit(b % 16)
<1>2. h \in LowerHex /\ l \in LowerHex  BY <1>1, HexIs
<1>3. HexByte(b) = <<h, l>>  BY DEF HexByte
<1>. HIDE DEF h, l
<1>. QED  BY <1>2, <1>3

\* ContentDigest::new writes two digits for each byte.
LEMMA LeadingHexIs ==
  ASSUME NEW bytes \in [1 .. HashBytes -> 0 .. 255]
  PROVE  /\ LeadingHex(bytes) \in [0 .. HashBytes -> Seq(LowerHex \cup {"sha256:"})] /\ LeadingHex(bytes)[0] = <<"sha256:">>
         /\ \A n \in 1 .. HashBytes :
              LeadingHex(bytes)[n] = LeadingHex(bytes)[n - 1] \o HexByte(bytes[n])
<1>. DEFINE T == Seq(LowerHex \cup {"sha256:"})
            m == HashBytes
            base == <<"sha256:">>
            Step(x, n) == x \o HexByte(bytes[n])
            G == [n \in 1 .. m |-> [x \in T |-> Step(x, n)]]
            Is(f) == f = [n \in 0 .. m |-> IF n = 0 THEN base ELSE Step(f[n - 1], n)]
            L == LeadingHex(bytes)
<1>1. L = CHOOSE g : Is(g)  BY DEF LeadingHex
<1>2. m \in Nat  BY ScalarsAssumption
<1>3. base \in T /\ \A n \in 1 .. m : \A x \in T : Step(x, n) \in T
  <2>1. <<"sha256:">> \in Seq(LowerHex \cup {"sha256:"})  OBVIOUS
  <2>2. ASSUME NEW n \in 1 .. HashBytes, NEW x \in Seq(LowerHex \cup {"sha256:"})
        PROVE  x \o HexByte(bytes[n]) \in Seq(LowerHex \cup {"sha256:"})
    <3>1. HexByte(bytes[n]) \in Seq(LowerHex \cup {"sha256:"})  BY HexByteIs
    <3>. QED  BY <3>1
  <2>. QED  BY <2>1, <2>2
<1>. HIDE DEF base, Step, T, m
<1>4. G \in [1 .. m -> [T -> T]]  BY <1>3
<1>5. \A n \in 1 .. m : \A x \in T : G[n][x] = Step(x, n)  OBVIOUS
<1>. HIDE DEF G
<1>6. PICK f \in [0 .. m -> T] : Follows(f, m, base, G)  BY <1>2, <1>3, <1>4, Recursion
<1>7. Is(f)
  <2>1. \A n \in 1 .. m : f[n - 1] \in T  BY <1>2
  <2>2. \A n \in 1 .. m : f[n] = Step(f[n - 1], n)  BY <1>5, <1>6, <2>1 DEF Follows
  <2>3. ASSUME NEW n \in 0 .. m PROVE f[n] = IF n = 0 THEN base ELSE Step(f[n - 1], n)
    <3>1. CASE n = 0  BY <1>6, <3>1 DEF Follows
    <3>2. CASE n # 0
      <4>1. n \in 1 .. m  BY <1>2, <3>2
      <4>. QED  BY <2>2, <3>2, <4>1
    <3>. QED  BY <3>1, <3>2
  <2>. QED  BY <2>3
<1>8. Is(L)
  <2>. HIDE DEF Is, L
  <2>. QED  BY <1>1, <1>7
<1>. HIDE DEF L
<1>9. \A n \in 0 .. m : L[n] = IF n = 0 THEN base ELSE Step(L[n - 1], n)  BY <1>8
<1>10. L[0] = base /\ \A n \in 1 .. m : L[n] = Step(L[n - 1], n)
  <2>1. 0 \in 0 .. m /\ \A n \in 1 .. m : n \in 0 .. m /\ n # 0  BY <1>2
  <2>. QED  BY <1>9, <2>1
<1>. DEFINE X == {n \in 0 .. m : L[n] \in T}
<1>11. \A n \in 0 .. m : n \in X
  <2>1. 0 \in X  BY <1>2, <1>3, <1>10
  <2>2. ASSUME NEW n \in 0 .. m - 1, n \in X
        PROVE  n + 1 \in X
    <3>1. n + 1 \in 1 .. m /\ (n + 1) - 1 = n  BY <1>2
    <3>2. L[n + 1] = Step(L[n], n + 1)  BY <1>10, <3>1
    <3>3. L[n + 1] \in T  BY <1>3, <2>2, <3>1, <3>2
    <3>. QED  BY <1>2, <3>1, <3>3
  <2>. HIDE DEF X
  <2>. QED  BY <1>2, <2>1, <2>2, UpTo
<1>12. L \in [0 .. m -> T]  BY <1>8, <1>11
<1>. QED  BY <1>10, <1>12 DEF L, T, base, Step, m

\* What a pointer's tokens are made of.
Symbols(t) == {"begins", "holds"} \X (Range(t) \cup {"/", "~"})

\* A pointer's tokens are read from the left.
LEMMA LeadingTokensAre ==
  ASSUME NEW t, IsText(t)
  PROVE  /\ LeadingTokens(t) \in [0 .. Len(t) -> Seq(Symbols(t))] /\ LeadingTokens(t)[0] = <<>>
         /\ \A n \in 1 .. Len(t) :
              LeadingTokens(t)[n] = IF t[n] = "~" THEN LeadingTokens(t)[n - 1]
                    ELSE IF n > 1 /\ t[n - 1] = "~"
                      THEN Append(LeadingTokens(t)[n - 1], <<"holds", IF t[n] = "1" THEN "/" ELSE "~">>)
                    ELSE Append(LeadingTokens(t)[n - 1], <<IF t[n] = "/" THEN "begins" ELSE "holds", t[n]>>)
<1>. DEFINE T == Seq(Symbols(t))
            m == Len(t)
            base == <<>>
            Step(x, n) == IF t[n] = "~" THEN x
                    ELSE IF n > 1 /\ t[n - 1] = "~"
                      THEN Append(x, <<"holds", IF t[n] = "1" THEN "/" ELSE "~">>)
                    ELSE Append(x, <<IF t[n] = "/" THEN "begins" ELSE "holds", t[n]>>)
            G == [n \in 1 .. m |-> [x \in T |-> Step(x, n)]]
            Is(f) == f = [n \in 0 .. m |-> IF n = 0 THEN base ELSE Step(f[n - 1], n)]
            L == LeadingTokens(t)
<1>1. L = CHOOSE g : Is(g)  BY DEF LeadingTokens
<1>2. m \in Nat  BY TextIs
<1>3. base \in T /\ \A n \in 1 .. m : \A x \in T : Step(x, n) \in T
  <2> SUFFICES ASSUME NEW n \in 1 .. m, NEW x \in Seq(Symbols(t)) PROVE Step(x, n) \in Seq(Symbols(t))
    OBVIOUS
  <2>1. t[n] \in Range(t)  BY TextIs
  <2>2. /\ <<"holds", IF t[n] = "1" THEN "/" ELSE "~">> \in Symbols(t)
        /\ <<IF t[n] = "/" THEN "begins" ELSE "holds", t[n]>> \in Symbols(t)
    BY <2>1 DEF Symbols
  <2>3. \A s \in Symbols(t) : Append(x, s) \in Seq(Symbols(t))  OBVIOUS
  <2>. QED  BY <2>2, <2>3
<1>. HIDE DEF base, Step, T, m
<1>4. G \in [1 .. m -> [T -> T]]  BY <1>3
<1>5. \A n \in 1 .. m : \A x \in T : G[n][x] = Step(x, n)  OBVIOUS
<1>. HIDE DEF G
<1>6. PICK f \in [0 .. m -> T] : Follows(f, m, base, G)  BY <1>2, <1>3, <1>4, Recursion
<1>7. Is(f)
  <2>1. \A n \in 1 .. m : f[n - 1] \in T  BY <1>2
  <2>2. \A n \in 1 .. m : f[n] = Step(f[n - 1], n)  BY <1>5, <1>6, <2>1 DEF Follows
  <2>3. ASSUME NEW n \in 0 .. m PROVE f[n] = IF n = 0 THEN base ELSE Step(f[n - 1], n)
    <3>1. CASE n = 0  BY <1>6, <3>1 DEF Follows
    <3>2. CASE n # 0
      <4>1. n \in 1 .. m  BY <1>2, <3>2
      <4>. QED  BY <2>2, <3>2, <4>1
    <3>. QED  BY <3>1, <3>2
  <2>. QED  BY <2>3
<1>8. Is(L)
  <2>. HIDE DEF Is, L
  <2>. QED  BY <1>1, <1>7
<1>. HIDE DEF L
<1>9. \A n \in 0 .. m : L[n] = IF n = 0 THEN base ELSE Step(L[n - 1], n)  BY <1>8
<1>10. L[0] = base /\ \A n \in 1 .. m : L[n] = Step(L[n - 1], n)
  <2>1. 0 \in 0 .. m /\ \A n \in 1 .. m : n \in 0 .. m /\ n # 0  BY <1>2
  <2>. QED  BY <1>9, <2>1
<1>. DEFINE X == {n \in 0 .. m : L[n] \in T}
<1>11. \A n \in 0 .. m : n \in X
  <2>1. 0 \in X  BY <1>2, <1>3, <1>10
  <2>2. ASSUME NEW n \in 0 .. m - 1, n \in X
        PROVE  n + 1 \in X
    <3>1. n + 1 \in 1 .. m /\ (n + 1) - 1 = n  BY <1>2
    <3>2. L[n + 1] = Step(L[n], n + 1)  BY <1>10, <3>1
    <3>3. L[n + 1] \in T  BY <1>3, <2>2, <3>1, <3>2
    <3>. QED  BY <1>2, <3>1, <3>3
  <2>. HIDE DEF X
  <2>. QED  BY <1>2, <2>1, <2>2, UpTo
<1>12. L \in [0 .. m -> T]  BY <1>8, <1>11
<1>. QED  BY <1>10, <1>12 DEF L, T, base, Step, m

-----------------------------------------------------------------------------
(* parse and the published patterns.                                       *)

\* A text has at least as many bytes as characters, and as many if each has one
\* byte, but for the first.
LEMMA ByteLengthIs ==
  ASSUME NEW t, IsText(t)
  PROVE  /\ ByteLength(t) \in Nat /\ Len(t) <= ByteLength(t)
         /\ (\A i \in 1 .. Len(t) : Bytes(t[i]) = 1) => ByteLength(t) = Len(t)
         /\ Len(t) >= 1 /\ (\A i \in 2 .. Len(t) : Bytes(t[i]) = 1) =>
              ByteLength(t) = Bytes(t[1]) + (Len(t) - 1)
<1>. DEFINE m == Len(t)
            L == LeadingBytes(t)
            B == [i \in 1 .. m |-> Bytes(t[i])]
<1>1. m \in Nat /\ L \in [0 .. m -> Nat] /\ L[0] = 0 /\ \A n \in 1 .. m : L[n] = L[n - 1] + B[n]
  BY TextIs, LeadingBytesAre
<1>2. B \in [1 .. m -> Nat \ {0}]  BY CharactersAre
<1>3. ByteLength(t) = L[m]  BY DEF ByteLength
<1>4. \A i \in 1 .. m : Bytes(t[i]) = B[i]  OBVIOUS
<1>. HIDE DEF m, L, B
<1>5. \A n \in 0 .. m - 1 : n + 1 \in 1 .. m /\ L[n + 1] = L[n] + B[n + 1] /\ L[n] \in Nat /\ B[n + 1] \in Nat \ {0}
  <2> SUFFICES ASSUME NEW n \in 0 .. m - 1
               PROVE  n + 1 \in 1 .. m /\ L[n + 1] = L[n] + B[n + 1] /\ L[n] \in Nat /\ B[n + 1] \in Nat \ {0}
    OBVIOUS
  <2>1. n + 1 \in 1 .. m /\ (n + 1) - 1 = n /\ n \in 0 .. m  BY <1>1
  <2>. QED  BY <1>1, <1>2, <2>1
<1>6. m <= L[m]
  <2>. DEFINE X == {n \in 0 .. m : n <= L[n]}
  <2>1. 0 \in X  BY <1>1
  <2>2. ASSUME NEW n \in 0 .. m - 1, n \in X PROVE n + 1 \in X
    <3>1. n <= L[n]  BY <2>2
    <3>2. n + 1 <= L[n + 1]  BY <1>5, <3>1
    <3>. QED  BY <1>5, <3>2
  <2>. HIDE DEF X
  <2>3. \A n \in 0 .. m : n \in X  BY <1>1, <2>1, <2>2, UpTo
  <2>. QED  BY <1>1, <2>3 DEF X
<1>7. ASSUME \A i \in 1 .. m : B[i] = 1
      PROVE  L[m] = m
  <2>. DEFINE X == {n \in 0 .. m : L[n] = n}
  <2>1. 0 \in X  BY <1>1
  <2>2. ASSUME NEW n \in 0 .. m - 1, n \in X PROVE n + 1 \in X
    <3>1. L[n] = n /\ B[n + 1] = 1  BY <1>5, <1>7, <2>2
    <3>2. L[n + 1] = n + 1  BY <1>5, <3>1
    <3>. QED  BY <1>5, <3>2
  <2>. HIDE DEF X
  <2>3. \A n \in 0 .. m : n \in X  BY <1>1, <2>1, <2>2, UpTo
  <2>. QED  BY <1>1, <2>3 DEF X
<1>8. ASSUME m >= 1, \A i \in 2 .. m : B[i] = 1
      PROVE  L[m] = B[1] + (m - 1)
  <2>. DEFINE X == {n \in 0 .. m : n >= 1 => L[n] = B[1] + (n - 1)}
  <2>1. 0 \in X  BY <1>1
  <2>2. ASSUME NEW n \in 0 .. m - 1, n \in X PROVE n + 1 \in X
    <3>1. CASE n = 0
      <4>1. L[0 + 1] = L[0] + B[0 + 1]  BY <1>5, <3>1
      <4>2. L[n + 1] = B[1] + n  BY <1>1, <1>2, <1>8, <3>1, <4>1
      <4>. QED  BY <1>5, <3>1, <4>2
    <3>2. CASE n # 0
      <4>1. L[n] = B[1] + (n - 1)  BY <2>2, <3>2
      <4>2. n + 1 \in 2 .. m  BY <1>1, <3>2
      <4>3. B[n + 1] = 1  BY <1>8, <4>2
      <4>4. 1 \in 1 .. m /\ B[1] \in Nat  BY <1>1, <1>2, <1>8
      <4>5. L[n + 1] = B[1] + n  BY <1>5, <4>1, <4>3, <4>4
      <4>. QED  BY <1>5, <4>5
    <3>. QED  BY <3>1, <3>2
  <2>. HIDE DEF X
  <2>3. \A n \in 0 .. m : n \in X  BY <1>1, <2>1, <2>2, UpTo
  <2>. QED  BY <1>1, <1>8, <2>3 DEF X
<1>9. L[m] \in Nat  BY <1>1
<1>10. (\A i \in 1 .. m : Bytes(t[i]) = 1) => \A i \in 1 .. m : B[i] = 1  BY <1>4
<1>11. m >= 1 /\ (\A i \in 2 .. m : Bytes(t[i]) = 1) => (\A i \in 2 .. m : B[i] = 1) /\ B[1] = Bytes(t[1])
  BY <1>1, <1>4
<1>. QED  BY <1>3, <1>6, <1>7, <1>8, <1>9, <1>10, <1>11 DEF m

\* What the type and the published pattern both say of a text, with the limits
\* that a JSON Schema cannot state.
Valid(k, t) ==
  /\ SchemaAccepts(k, t)
  /\ k = "Identifier" => ByteLength(t) <= IDENTIFIER_MAX_BYTES
  /\ k = "TimestampNs" => Number(t) <= TimestampMax

\* The first character, and the others.
LEMMA HeadIs ==
  ASSUME NEW t, IsText(t), t # <<>>
  PROVE  /\ Head(t) = t[1] /\ Len(t) >= 1
         /\ \A S : Range(Tail(t)) \subseteq S <=> \A i \in 2 .. Len(t) : t[i] \in S
<1>1. Len(t) \in Nat /\ Len(t) >= 1 /\ Head(t) = t[1]  BY TextIs DEF IsText
<1>2. /\ Tail(t) \in Seq(Range(t)) /\ Len(Tail(t)) = Len(t) - 1
      /\ \A i \in 1 .. Len(Tail(t)) : Tail(t)[i] = t[i + 1]
  BY HeadTailProperties DEF IsText
<1>3. Range(Tail(t)) = {t[i + 1] : i \in 1 .. Len(t) - 1}
  <2>1. DOMAIN Tail(t) = 1 .. Len(t) - 1  BY <1>2
  <2>. QED  BY <1>2, <2>1 DEF Range
<1>4. ASSUME NEW S
      PROVE  Range(Tail(t)) \subseteq S <=> \A i \in 2 .. Len(t) : t[i] \in S
  <2>1. ASSUME Range(Tail(t)) \subseteq S, NEW i \in 2 .. Len(t) PROVE t[i] \in S
    <3>1. i - 1 \in 1 .. Len(t) - 1 /\ (i - 1) + 1 = i  BY <1>1
    <3>. QED  BY <1>3, <2>1, <3>1
  <2>2. ASSUME \A i \in 2 .. Len(t) : t[i] \in S PROVE Range(Tail(t)) \subseteq S
    <3>1. \A i \in 1 .. Len(t) - 1 : i + 1 \in 2 .. Len(t)  BY <1>1
    <3>. QED  BY <1>3, <2>2, <3>1
  <2>. QED  BY <2>1, <2>2
<1>. QED  BY <1>1, <1>4

\* Identifiers: a limit in bytes implies the published one in characters.
LEMMA IdentifierVerdict ==
  ASSUME NEW t, IsText(t)
  PROVE  ParseIdentifier(t) = Accepted <=> Valid("Identifier", t)
<1>1. ByteLength(t) \in Nat /\ Len(t) \in Nat /\ Len(t) <= ByteLength(t) /\ (t = <<>> <=> Len(t) = 0)
  BY TextIs, ByteLengthIs
<1>2. ParseIdentifier(t) = Accepted <=>
        t # <<>> /\ ~(ByteLength(t) > IDENTIFIER_MAX_BYTES) /\ \A ch \in Range(t) : ~IsControl(ch)
  BY DEF ParseIdentifier, Accepted
<1>3. Valid("Identifier", t) <=>
        /\ Len(t) \in 1 .. IDENTIFIER_MAX_BYTES /\ \A ch \in Range(t) : ~IsControl(ch)
        /\ ByteLength(t) <= IDENTIFIER_MAX_BYTES
  BY DEF Valid, SchemaAccepts, SchemaIdentifier
<1>4. ~(ByteLength(t) > IDENTIFIER_MAX_BYTES) <=> ByteLength(t) <= IDENTIFIER_MAX_BYTES
  BY <1>1, ScalarsAssumption
<1>5. t # <<>> /\ ByteLength(t) <= IDENTIFIER_MAX_BYTES => Len(t) \in 1 .. IDENTIFIER_MAX_BYTES
  BY <1>1, ScalarsAssumption
<1>6. Len(t) \in 1 .. IDENTIFIER_MAX_BYTES => t # <<>>  BY <1>1
<1>. QED  BY <1>2, <1>3, <1>4, <1>5, <1>6

\* Idempotency keys: in ASCII, bytes are characters.
LEMMA KeyVerdict ==
  ASSUME NEW t, IsText(t)
  PROVE  ParseKey(t) = Accepted <=> Valid("IdempotencyKey", t)
<1>1. ByteLength(t) \in Nat /\ Len(t) \in Nat /\ (t = <<>> <=> Len(t) = 0)
  BY TextIs, ByteLengthIs
<1>2. ParseKey(t) = Accepted <=>
        t # <<>> /\ ~(ByteLength(t) > KEY_MAX_BYTES) /\ \A ch \in Range(t) : Bytes(ch) = 1
  BY DEF ParseKey, Accepted
<1>3. Valid("IdempotencyKey", t) <=>
        Len(t) \in 1 .. KEY_MAX_BYTES /\ \A ch \in Range(t) : Bytes(ch) = 1
  BY DEF Valid, SchemaAccepts, SchemaKey
<1>4. (\A ch \in Range(t) : Bytes(ch) = 1) => ByteLength(t) = Len(t)
  BY TextIs, ByteLengthIs
<1>5. ByteLength(t) = Len(t) =>
        (t # <<>> /\ ~(ByteLength(t) > KEY_MAX_BYTES) <=> Len(t) \in 1 .. KEY_MAX_BYTES)
  BY <1>1, ScalarsAssumption
<1>. QED  BY <1>2, <1>3, <1>4, <1>5

\* A numeral's number is a natural.
LEMMA NumberIs ==
  ASSUME NEW t, IsText(t), IsNumeral(t)
  PROVE  Number(t) \in Nat /\ Len(t) \in Nat \ {0} /\ \A i \in 1 .. Len(t) : t[i] \in Decimals
<1>1. Len(t) \in Nat \ {0}  BY TextIs DEF IsNumeral
<1>2. LeadingNumber(t) \in [0 .. Len(t) -> Nat]  BY LeadingNumberIs
<1>3. Number(t) \in Nat  BY <1>1, <1>2 DEF Number
<1>. QED  BY <1>1, <1>3, TextIs DEF IsNumeral

\* Timestamps: a numeral without a redundant zero, within u64.
LEMMA TimestampVerdict ==
  ASSUME NEW t, IsText(t)
  PROVE  /\ ParseTimestamp(t) = Accepted <=> Valid("TimestampNs", t)
         /\ SchemaTimestamp(t) => IsNumeral(t)
<1>1. Len(t) \in Nat /\ (t = <<>> <=> Len(t) = 0)  BY TextIs
<1>2. IsNumeral(t) => Number(t) \in Nat /\ t # <<>>  BY NumberIs DEF IsNumeral
<1>3. Valid("TimestampNs", t) <=>
        IsNumeral(t) /\ (Head(t) = "0" => Len(t) = 1) /\ Number(t) <= TimestampMax
  BY DEF Valid, SchemaAccepts, SchemaTimestamp
<1>4. ParseTimestamp(t) = Accepted <=>
        t # <<>> /\ IsNumeral(t) /\ ~(Len(t) > 1 /\ Head(t) = "0") /\ ~(Number(t) > TimestampMax)
  BY DEF ParseTimestamp, Accepted
<1>5. IsNumeral(t) => (~(Number(t) > TimestampMax) <=> Number(t) <= TimestampMax)
  BY <1>2, ScalarsAssumption
<1>6. t # <<>> => (~(Len(t) > 1 /\ Head(t) = "0") <=> (Head(t) = "0" => Len(t) = 1))
  <2> SUFFICES ASSUME t # <<>>
               PROVE  ~(Len(t) > 1 /\ Head(t) = "0") <=> (Head(t) = "0" => Len(t) = 1)
    OBVIOUS
  <2>. DEFINE n == Len(t)
  <2>1. n \in Nat /\ n # 0  BY <1>1
  <2>. HIDE DEF n
  <2>2. ~(n > 1) <=> n = 1  BY <2>1
  <2>. QED  BY <2>2 DEF n
<1>. QED  BY <1>2, <1>3, <1>4, <1>5, <1>6 DEF SchemaTimestamp

\* Digests: 71 bytes are the prefix and 64 digits.
LEMMA DigestVerdict ==
  ASSUME NEW t, IsText(t)
  PROVE  ParseDigest(t) = Accepted <=> Valid("ContentDigest", t)
<1>. DEFINE Hex == Range(Tail(t)) \subseteq LowerHex
<1>1. Len(t) \in Nat /\ ByteLength(t) \in Nat /\ (t = <<>> <=> Len(t) = 0) /\ HashBytes \in Nat
  BY TextIs, ByteLengthIs, ScalarsAssumption
<1>2. ParseDigest(t) = Accepted <=>
        ByteLength(t) = 7 + 2 * HashBytes /\ t # <<>> /\ Head(t) = "sha256:" /\ Hex
  BY DEF ParseDigest, Accepted
<1>3. Valid("ContentDigest", t) <=> Len(t) = 1 + 2 * HashBytes /\ Head(t) = "sha256:" /\ Hex
  BY DEF Valid, SchemaAccepts, SchemaDigest
<1>4. Len(t) = 1 + 2 * HashBytes => t # <<>>  BY <1>1
<1>5. ASSUME t # <<>>, Head(t) = "sha256:", Hex
      PROVE  ByteLength(t) = 7 + (Len(t) - 1)
  <2>1. t[1] = "sha256:" /\ Len(t) >= 1 /\ \A i \in 2 .. Len(t) : t[i] \in LowerHex
    BY <1>5, HeadIs
  <2>2. \A i \in 2 .. Len(t) : Bytes(t[i]) = 1  BY <2>1, CharactersAre
  <2>. QED  BY <2>1, <2>2, ByteLengthIs, CharactersAre
<1>. HIDE DEF Hex
<1>6. t # <<>> /\ Head(t) = "sha256:" /\ Hex =>
        (ByteLength(t) = 7 + 2 * HashBytes <=> Len(t) = 1 + 2 * HashBytes)
  BY <1>1, <1>5
<1>. QED  BY <1>2, <1>3, <1>4, <1>6

-----------------------------------------------------------------------------
(* Timestamps: the text of a number, and the number of a text.             *)

\* What the published pattern of timestamps accepts.
Canonical(t) == IsText(t) /\ SchemaTimestamp(t)

\* One digit.
LEMMA DigitNumber ==
  ASSUME NEW ch \in Decimals
  PROVE  /\ Canonical(<<ch>>) /\ IsNumeral(<<ch>>)
         /\ Number(<<ch>>) = DigitValue[ch]
<1>. DEFINE t == <<ch>>
<1>1. Len(t) = 1 /\ t[1] = ch /\ Head(t) = ch /\ DOMAIN t = 1 .. 1  OBVIOUS
<1>2. Range(t) = {ch} /\ t # <<>>  BY <1>1 DEF Range
<1>3. IsText(t)  BY <1>2 DEF IsText
<1>. HIDE DEF t
<1>4. IsNumeral(t) /\ SchemaTimestamp(t)  BY <1>1, <1>2 DEF IsNumeral, SchemaTimestamp
<1>5. LeadingNumber(t)[0] = 0 /\ \A n \in 1 .. Len(t) : LeadingNumber(t)[n] = 10 * LeadingNumber(t)[n - 1] + DigitValue[t[n]]
  BY <1>3, <1>4, LeadingNumberIs
<1>6. LeadingNumber(t)[1] = 10 * LeadingNumber(t)[1 - 1] + DigitValue[t[1]]  BY <1>1, <1>5
<1>7. DigitValue[ch] \in 0 .. 9  BY HexIs
<1>8. LeadingNumber(t)[1] = DigitValue[ch]  BY <1>1, <1>5, <1>6, <1>7
<1>. QED  BY <1>1, <1>3, <1>4, <1>8 DEF Number, Canonical, t

\* One more digit.
LEMMA AppendNumber ==
  ASSUME NEW s, IsText(s), IsNumeral(s), NEW ch \in Decimals
  PROVE  /\ IsText(Append(s, ch)) /\ IsNumeral(Append(s, ch))
         /\ Number(Append(s, ch)) = 10 * Number(s) + DigitValue[ch]
         /\ Head(Append(s, ch)) = Head(s) /\ Len(Append(s, ch)) = Len(s) + 1
<1>. DEFINE u == Append(s, ch)
            S == LeadingNumber(s)
            U == LeadingNumber(u)
            m == Len(s)
<1>1. m \in Nat \ {0} /\ \A i \in 1 .. m : s[i] \in Decimals  BY NumberIs
<1>2. /\ Len(u) = m + 1 /\ u[m + 1] = ch /\ \A i \in 1 .. m : u[i] = s[i]
      /\ u \in Seq(Range(s) \cup {ch}) /\ Head(u) = u[1] /\ Head(s) = s[1]
  BY <1>1 DEF IsText
<1>3. DOMAIN u = 1 .. Len(u)  BY <1>2
<1>. HIDE DEF u
<1>4. \A i \in 1 .. Len(u) : u[i] \in Decimals
  <2> SUFFICES ASSUME NEW i \in 1 .. Len(u) PROVE u[i] \in Decimals  OBVIOUS
  <2>1. i = m + 1 \/ i \in 1 .. m  BY <1>1, <1>2
  <2>. QED  BY <1>1, <1>2, <2>1
<1>5. IsText(u)
  <2>1. u \in Seq(Range(u))  BY <1>2, <1>3 DEF Range
  <2>. QED  BY <2>1 DEF IsText
<1>6. IsNumeral(u)
  <2>1. u # <<>>
    <3>1. Len(u) # 0  BY <1>1, <1>2
    <3>. QED  BY <3>1
  <2>. QED  BY <1>3, <1>4, <2>1 DEF IsNumeral, Range
<1>7. /\ S[0] = 0 /\ \A n \in 1 .. m : S[n] = 10 * S[n - 1] + DigitValue[s[n]]
      /\ U[0] = 0 /\ \A n \in 1 .. m + 1 : U[n] = 10 * U[n - 1] + DigitValue[u[n]]
  BY <1>2, <1>5, <1>6, LeadingNumberIs
<1>8. Number(u) = U[m + 1] /\ Number(s) = S[m]  BY <1>2 DEF Number
<1>. HIDE DEF S, U, m
<1>9. S[m] = U[m]
  <2>. DEFINE X == {n \in 0 .. m : S[n] = U[n]}
  <2>1. 0 \in X  BY <1>1, <1>7
  <2>2. ASSUME NEW n \in 0 .. m - 1, n \in X PROVE n + 1 \in X
    <3>1. n + 1 \in 1 .. m /\ n + 1 \in 1 .. m + 1 /\ (n + 1) - 1 = n  BY <1>1
    <3>2. /\ S[n + 1] = 10 * S[n] + DigitValue[s[n + 1]]
          /\ U[n + 1] = 10 * U[n] + DigitValue[u[n + 1]]
      BY <1>7, <3>1
    <3>3. u[n + 1] = s[n + 1] /\ S[n] = U[n]  BY <1>2, <2>2, <3>1
    <3>. QED  BY <1>1, <3>1, <3>2, <3>3
  <2>. HIDE DEF X
  <2>3. \A n \in 0 .. m : n \in X  BY <1>1, <2>1, <2>2, UpTo
  <2>. QED  BY <1>1, <2>3 DEF X
<1>10. U[m + 1] = 10 * U[m] + DigitValue[ch]
  <2>1. m + 1 \in 1 .. m + 1 /\ (m + 1) - 1 = m  BY <1>1
  <2>. QED  BY <1>2, <1>7, <2>1
<1>11. Head(u) = Head(s)  BY <1>1, <1>2
<1>. QED  BY <1>2, <1>5, <1>6, <1>8, <1>9, <1>10, <1>11 DEF u, m

\* A numeral that does not begin with a zero is not zero.
LEMMA PositiveNumber ==
  ASSUME NEW t, IsText(t), IsNumeral(t), Head(t) # "0"
  PROVE  Number(t) >= 1
<1>. DEFINE L == LeadingNumber(t)
            m == Len(t)
<1>1. m \in Nat \ {0} /\ \A i \in 1 .. m : t[i] \in Decimals  BY NumberIs
<1>2. L \in [0 .. m -> Nat] /\ L[0] = 0 /\ \A n \in 1 .. m : L[n] = 10 * L[n - 1] + DigitValue[t[n]]
  BY LeadingNumberIs
<1>3. Number(t) = L[m]  BY DEF Number
<1>4. t[1] # "0"  BY HeadIs DEF IsNumeral
<1>. HIDE DEF L, m
<1>. DEFINE X == {n \in 0 .. m : n = 0 \/ L[n] >= 1}
<1>5. 0 \in X  BY <1>1
<1>6. ASSUME NEW n \in 0 .. m - 1, n \in X PROVE n + 1 \in X
  <2>1. n + 1 \in 1 .. m /\ (n + 1) - 1 = n /\ n \in 0 .. m  BY <1>1
  <2>2. L[n + 1] = 10 * L[n] + DigitValue[t[n + 1]] /\ L[n] \in Nat  BY <1>2, <2>1
  <2>3. DigitValue[t[n + 1]] \in 0 .. 9 /\ (DigitValue[t[n + 1]] = 0 <=> t[n + 1] = "0")
    BY <1>1, <2>1, HexIs
  <2>4. n = 0 => t[n + 1] # "0"  BY <1>4
  <2>5. n = 0 \/ L[n] >= 1  BY <1>6
  <2>6. L[n + 1] >= 1  BY <2>2, <2>3, <2>4, <2>5
  <2>. QED  BY <2>1, <2>6
<1>. HIDE DEF X
<1>7. \A n \in 0 .. m : n \in X  BY <1>1, <1>5, <1>6, UpTo
<1>. QED  BY <1>1, <1>3, <1>7 DEF X

\* u64's Display is the function it is defined as.
LEMMA NumeralIs ==
  \A n \in 0 .. TimestampMax :
    Numeral[n] = IF n < 10 THEN <<HexDigit(n)>> ELSE Append(Numeral[n \div 10], HexDigit(n % 10))
<1>. DEFINE M == TimestampMax
            S == Seq(Decimals)
            T == [0 .. M -> S]
            Entry(x, n) == IF n < 10 THEN <<HexDigit(n)>> ELSE Append(x[n \div 10], HexDigit(n % 10))
            Is(f) == f = [n \in 0 .. M |-> Entry(f, n)]
            base == [n \in 0 .. M |-> <<HexDigit(0)>>]
            G == [n \in 1 .. M |-> [x \in T |-> [x EXCEPT ![n] = Entry(x, n)]]]
<1>1. Numeral = CHOOSE f : Is(f)  BY DEF Numeral
<1>2. M \in Nat  BY ScalarsAssumption
<1>3. \A n \in 0 .. M : n >= 10 => n \div 10 \in 0 .. n - 1 /\ n % 10 \in 0 .. 9
  BY <1>2
<1>4. \A n \in 0 .. M : \A x \in T : Entry(x, n) \in S
  <2> SUFFICES ASSUME NEW n \in 0 .. M, NEW x \in T PROVE Entry(x, n) \in S  OBVIOUS
  <2>1. CASE n < 10
    <3>1. n \in 0 .. 9  BY <1>2, <2>1
    <3>2. HexDigit(n) \in Decimals  BY <3>1, HexIs
    <3>. QED  BY <2>1, <3>2
  <2>2. CASE ~(n < 10)
    <3>1. n >= 10  BY <1>2, <2>2
    <3>2. n \div 10 \in 0 .. M /\ n % 10 \in 0 .. 9  BY <1>2, <1>3, <3>1
    <3>3. x[n \div 10] \in S /\ HexDigit(n % 10) \in Decimals  BY <3>2, HexIs
    <3>4. \A s \in S, ch \in Decimals : Append(s, ch) \in S  OBVIOUS
    <3>. QED  BY <2>2, <3>3, <3>4
  <2>. QED  BY <2>1, <2>2
<1>5. base \in T
  <2>1. HexDigit(0) \in Decimals  BY HexIs
  <2>. QED  BY <2>1
<1>6. Entry(base, 0) = base[0]  BY <1>2
<1>7. \A x, y, n : n >= 10 /\ x[n \div 10] = y[n \div 10] => Entry(x, n) = Entry(y, n)  OBVIOUS
<1>8. \A x, y, n : n < 10 => Entry(x, n) = Entry(y, n)  OBVIOUS
<1>. HIDE DEF Entry, base, S
<1>9. G \in [1 .. M -> [T -> T]]  BY <1>2, <1>4
<1>10. \A n \in 1 .. M : \A x \in T : G[n][x] = [x EXCEPT ![n] = Entry(x, n)]  OBVIOUS
<1>. HIDE DEF G, M
<1>11. PICK F \in [0 .. M -> T] : Follows(F, M, base, G)
  <2>. HIDE DEF T
  <2>. QED  BY <1>2, <1>5, <1>9, Recursion
<1>. DEFINE f == [n \in 0 .. M |-> F[n][n]]
<1>12. ASSUME NEW n \in 1 .. M
       PROVE  F[n] = [F[n - 1] EXCEPT ![n] = Entry(F[n - 1], n)]
  <2>1. F[n - 1] \in T  BY <1>2, <1>11
  <2>. QED  BY <1>10, <1>11, <2>1 DEF Follows
<1>13. \A n \in 0 .. M : \A k \in 0 .. n : F[n][k] = f[k]
  <2>. DEFINE X == {n \in 0 .. M : \A k \in 0 .. n : F[n][k] = f[k]}
  <2>1. 0 \in X  BY <1>2
  <2>2. ASSUME NEW n \in 0 .. M - 1, n \in X PROVE n + 1 \in X
    <3>1. n + 1 \in 1 .. M /\ (n + 1) - 1 = n /\ n \in 0 .. M  BY <1>2
    <3>2. F[n + 1] = [F[n] EXCEPT ![n + 1] = Entry(F[n], n + 1)] /\ F[n] \in T  BY <1>11, <1>12, <3>1
    <3>3. ASSUME NEW k \in 0 .. n + 1 PROVE F[n + 1][k] = f[k]
      <4>1. CASE k = n + 1  BY <1>2, <3>1, <4>1
      <4>2. CASE k # n + 1
        <5>1. k \in 0 .. n /\ k \in 0 .. M  BY <1>2, <4>2
        <5>2. F[n + 1][k] = F[n][k]  BY <3>2, <4>2, <5>1
        <5>. QED  BY <2>2, <5>1, <5>2
      <4>. QED  BY <4>1, <4>2
    <3>4. n + 1 \in 0 .. M  BY <1>2
    <3>. HIDE DEF f
    <3>. QED  BY <3>3, <3>4
  <2>. HIDE DEF X
  <2>3. \A n \in 0 .. M : n \in X  BY <1>2, <2>1, <2>2, UpTo
  <2>. HIDE DEF f
  <2>. QED  BY <2>3 DEF X
<1>14. ASSUME NEW n \in 0 .. M PROVE f[n] = Entry(f, n)
  <2>1. CASE n = 0
    <3>1. f[0] = base[0]  BY <1>2, <1>11 DEF Follows
    <3>2. Entry(f, 0) = Entry(base, 0)  BY <1>8
    <3>. QED  BY <1>6, <2>1, <3>1, <3>2
  <2>2. CASE n # 0
    <3>1. n \in 1 .. M /\ n - 1 \in 0 .. M  BY <1>2, <2>2
    <3>2. F[n] = [F[n - 1] EXCEPT ![n] = Entry(F[n - 1], n)] /\ F[n - 1] \in T  BY <1>11, <1>12, <3>1
    <3>3. f[n] = Entry(F[n - 1], n)  BY <3>1, <3>2
    <3>4. CASE n < 10  BY <1>8, <3>3, <3>4
    <3>5. CASE n >= 10
      <4>1. n \div 10 \in 0 .. n - 1  BY <1>3, <3>5
      <4>2. F[n - 1][n \div 10] = f[n \div 10]
        <5>. HIDE DEF f
        <5>. QED  BY <1>13, <3>1, <4>1
      <4>. HIDE DEF f
      <4>. QED  BY <1>7, <3>3, <3>5, <4>2
    <3>. QED  BY <1>2, <3>4, <3>5
  <2>. QED  BY <2>1, <2>2
<1>15. Is(f)
  <2>1. f = [n \in 0 .. M |-> f[n]]  OBVIOUS
  <2>. HIDE DEF f
  <2>. QED  BY <1>14, <2>1
<1>16. Is(Numeral)
  <2>. HIDE DEF Is, f
  <2>. QED  BY <1>1, <1>15
<1>17. \A n \in 0 .. M : Numeral[n] = Entry(Numeral, n)  BY <1>16
<1>. QED  BY <1>17 DEF Entry, M

\* The text of a number is canonical, and is read as that number.
LEMMA NumeralIsCanonical ==
  \A n \in 0 .. TimestampMax : Canonical(Numeral[n]) /\ Number(Numeral[n]) = n
<1>. DEFINE M == TimestampMax
            Good(n) == LET t == Numeral[n] IN
              Canonical(t) /\ IsNumeral(t) /\ Number(t) = n /\ (n >= 1 => Head(t) # "0")
            X == {n \in 0 .. M : \A k \in 0 .. n : Good(k)}
<1>1. M \in Nat  BY ScalarsAssumption
<1>2. ASSUME NEW n \in 0 .. M, n < 10 PROVE Good(n)
  <2>1. n \in 0 .. 9  BY <1>1, <1>2
  <2>. DEFINE ch == HexDigit(n)
  <2>2. ch \in Decimals /\ DigitValue[ch] = n  BY <2>1, HexIs
  <2>3. Numeral[n] = <<ch>>  BY <1>2, NumeralIs
  <2>. HIDE DEF ch
  <2>4. n >= 1 => ch # "0"  BY <2>2, HexIs
  <2>. QED  BY <2>2, <2>3, <2>4, DigitNumber
<1>3. ASSUME NEW n \in 0 .. M, n >= 10, Good(n \div 10) PROVE Good(n)
  <2>. DEFINE q == n \div 10
              d == n % 10
              ch == HexDigit(d)
              s == Numeral[q]
  <2>1. q \in Nat /\ q >= 1 /\ d \in 0 .. 9 /\ n = 10 * q + d  BY <1>1, <1>3
  <2>2. ch \in Decimals /\ DigitValue[ch] = d  BY <2>1, HexIs
  <2>3. Numeral[n] = Append(s, ch)
    <3>1. ~(n < 10)  BY <1>1, <1>3
    <3>. QED  BY <3>1, NumeralIs
  <2>4. IsText(s) /\ IsNumeral(s) /\ Number(s) = q /\ Head(s) # "0"
    BY <1>3, <2>1 DEF Canonical
  <2>. HIDE DEF ch, s, q, d
  <2>5. /\ IsText(Append(s, ch)) /\ IsNumeral(Append(s, ch))
        /\ Number(Append(s, ch)) = 10 * q + d /\ Head(Append(s, ch)) # "0"
    BY <2>2, <2>4, AppendNumber
  <2>. QED  BY <2>1, <2>3, <2>5 DEF Canonical, SchemaTimestamp
<1>4. 0 \in X  BY <1>1, <1>2
<1>5. ASSUME NEW n \in 0 .. M - 1, n \in X PROVE n + 1 \in X
  <2>1. n + 1 \in 0 .. M  BY <1>1
  <2>2. \A k \in 0 .. n : Good(k)  BY <1>5
  <2>. HIDE DEF Good
  <2>3. Good(n + 1)
    <3>1. CASE n + 1 < 10  BY <1>2, <2>1, <3>1
    <3>2. CASE n + 1 >= 10
      <4>1. (n + 1) \div 10 \in 0 .. n  BY <1>1
      <4>. QED  BY <1>3, <2>1, <2>2, <3>2, <4>1
    <3>. QED  BY <1>1, <3>1, <3>2
  <2>4. \A k \in 0 .. n + 1 : k = n + 1 \/ k \in 0 .. n  BY <1>1
  <2>. QED  BY <2>1, <2>2, <2>3, <2>4
<1>. HIDE DEF X
<1>6. \A n \in 0 .. M : n \in X  BY <1>1, <1>4, <1>5, UpTo
<1>. QED  BY <1>1, <1>6 DEF X

\* A numeral of two digits or more is a numeral and one more digit.
LEMMA FrontIs ==
  ASSUME NEW t, IsText(t), IsNumeral(t), Len(t) >= 2
  PROVE  \E s, ch : t = Append(s, ch) /\ IsText(s) /\ IsNumeral(s) /\ ch \in Decimals
<1>. DEFINE m == Len(t) - 1
            s == [i \in 1 .. m |-> t[i]]
            ch == t[m + 1]
<1>1. m \in Nat /\ m >= 1 /\ Len(t) = m + 1 /\ \A i \in 1 .. m + 1 : t[i] \in Decimals
  BY NumberIs
<1>2. t \in Seq(Decimals)
  <2>1. t \in Seq(Range(t)) /\ Range(t) \subseteq Decimals  BY DEF IsText, IsNumeral
  <2>. QED  BY <2>1
<1>3. ch \in Decimals  BY <1>1
<1>4. s \in Seq(Decimals) /\ Len(s) = m /\ \A i \in 1 .. m : s[i] = t[i]  BY <1>1
<1>5. t = Append(s, ch)
  <2>1. Len(Append(s, ch)) = m + 1  BY <1>1, <1>4
  <2>2. Append(s, ch) \in Seq(Decimals)  BY <1>3, <1>4
  <2>3. Append(s, ch)[m + 1] = t[m + 1]  BY <1>1, <1>4
  <2>. HIDE DEF s, ch, m
  <2>4. \A i \in 1 .. m : Append(s, ch)[i] = s[i]  BY <1>1, <1>4
  <2>5. \A i \in 1 .. m + 1 : Append(s, ch)[i] = t[i]
    <3>1. \A i \in 1 .. m + 1 : i = m + 1 \/ i \in 1 .. m  BY <1>1
    <3>. QED  BY <1>4, <2>3, <2>4, <3>1
  <2>. QED  BY <1>1, <1>2, <2>1, <2>2, <2>5, SeqEqual
<1>. HIDE DEF s, ch, m
<1>6. DOMAIN s = 1 .. m /\ Range(s) = {s[i] : i \in 1 .. m}  BY <1>1, <1>4 DEF Range
<1>7. Range(s) \subseteq Decimals  BY <1>4, <1>6
<1>8. IsText(s)  BY <1>4, <1>6 DEF IsText
<1>9. IsNumeral(s)
  <2>1. s # <<>>
    <3>1. Len(s) # 0  BY <1>1, <1>4
    <3>. QED  BY <3>1
  <2>. QED  BY <1>7, <2>1 DEF IsNumeral
<1>. QED  BY <1>3, <1>5, <1>8, <1>9

\* A canonical text is the one that its number is written as.
LEMMA CanonicalIsNumeral ==
  ASSUME NEW t, Canonical(t), Number(t) <= TimestampMax
  PROVE  Number(t) \in 0 .. TimestampMax /\ t = Numeral[Number(t)]
<1>. DEFINE M == TimestampMax
            Good(n) == \A u : Canonical(u) /\ Number(u) = n => u = Numeral[n]
            X == {n \in 0 .. M : \A k \in 0 .. n : Good(k)}
<1>1. M \in Nat  BY ScalarsAssumption
<1>2. ASSUME NEW n \in 0 .. M, \A k \in 0 .. n - 1 : Good(k) PROVE Good(n)
  <2> SUFFICES ASSUME NEW u, Canonical(u), Number(u) = n PROVE u = Numeral[n]  OBVIOUS
  <2>1. /\ IsText(u) /\ IsNumeral(u) /\ Len(u) \in Nat \ {0} /\ (Head(u) = "0" => Len(u) = 1)
        /\ \A i \in 1 .. Len(u) : u[i] \in Decimals
    BY NumberIs, TimestampVerdict DEF Canonical, SchemaTimestamp
  <2>2. CASE Len(u) = 1
    <3>. DEFINE ch == u[1]
    <3>1. ch \in Decimals  BY <2>1, <2>2
    <3>2. u = <<ch>>
      <4>1. u \in Seq(Range(u))  BY <2>1 DEF IsText
      <4>. QED  BY <2>2, <4>1
    <3>. HIDE DEF ch
    <3>3. DigitValue[ch] = n  BY <3>1, <3>2, DigitNumber
    <3>4. HexDigit(n) = ch /\ n < 10  BY <3>1, <3>3, HexIs
    <3>. QED  BY <3>2, <3>4, NumeralIs
  <2>3. CASE Len(u) # 1
    <3>1. Len(u) >= 2
      <4>. DEFINE k == Len(u)
      <4>1. k \in Nat \ {0} /\ k # 1  BY <2>1, <2>3
      <4>. HIDE DEF k
      <4>2. k >= 2  BY <4>1
      <4>. QED  BY <4>2 DEF k
    <3>2. PICK s, ch : u = Append(s, ch) /\ IsText(s) /\ IsNumeral(s) /\ ch \in Decimals
      BY <2>1, <3>1, FrontIs
    <3>3. n = 10 * Number(s) + DigitValue[ch] /\ Head(u) = Head(s)  BY <3>2, AppendNumber
    <3>4. Head(s) # "0"  BY <2>1, <2>3, <3>3
    <3>5. Number(s) \in Nat /\ Number(s) >= 1  BY <3>2, <3>4, NumberIs, PositiveNumber
    <3>6. DigitValue[ch] \in 0 .. 9 /\ HexDigit(DigitValue[ch]) = ch  BY <3>2, HexIs
    <3>7. Canonical(s)  BY <3>2, <3>4 DEF Canonical, SchemaTimestamp
    <3>. DEFINE q == Number(s)
                d == DigitValue[ch]
    <3>8. q \in Nat /\ q >= 1 /\ d \in 0 .. 9 /\ n = 10 * q + d  BY <3>3, <3>5, <3>6
    <3>. HIDE DEF q, d
    <3>9. q = n \div 10 /\ d = n % 10 /\ q \in 0 .. n - 1 /\ ~(n < 10)  BY <3>8
    <3>10. Good(q)  BY <1>2, <3>9
    <3>11. s = Numeral[q]  BY <3>7, <3>10 DEF q
    <3>12. ch = HexDigit(n % 10)  BY <3>6, <3>9 DEF d
    <3>13. Numeral[n] = Append(Numeral[n \div 10], HexDigit(n % 10))  BY <3>9, NumeralIs
    <3>. QED  BY <3>2, <3>9, <3>11, <3>12, <3>13
  <2>. QED  BY <2>2, <2>3
<1>. HIDE DEF Good
<1>3. 0 \in X  BY <1>1, <1>2
<1>4. ASSUME NEW n \in 0 .. M - 1, n \in X PROVE n + 1 \in X
  <2>1. n + 1 \in 0 .. M /\ \A k \in 0 .. (n + 1) - 1 : k \in 0 .. n  BY <1>1
  <2>2. \A k \in 0 .. n : Good(k)  BY <1>4
  <2>3. Good(n + 1)  BY <1>2, <2>1, <2>2
  <2>4. \A k \in 0 .. n + 1 : k = n + 1 \/ k \in 0 .. n  BY <1>1
  <2>. QED  BY <2>1, <2>2, <2>3, <2>4
<1>. HIDE DEF X
<1>5. \A n \in 0 .. M : n \in X  BY <1>1, <1>3, <1>4, UpTo
<1>6. Number(t) \in 0 .. M
  <2>1. Number(t) \in Nat  BY NumberIs, TimestampVerdict DEF Canonical
  <2>. QED  BY <1>1, <2>1
<1>7. Good(Number(t))
  <2>1. Number(t) \in 0 .. Number(t)  BY <1>6
  <2>. QED  BY <1>5, <1>6, <2>1 DEF X
<1>. QED  BY <1>6, <1>7 DEF Good

-----------------------------------------------------------------------------
(* Digests: what ContentDigest::new writes.                                *)

\* Elements of a sequence over a set are those of its range.
LEMMA SeqIsText ==
  ASSUME NEW S, NEW t \in Seq(S)
  PROVE  IsText(t)
<1>1. DOMAIN t = 1 .. Len(t) /\ Len(t) \in Nat  OBVIOUS
<1>2. t \in Seq(Range(t))  BY <1>1 DEF Range
<1>. QED  BY <1>2 DEF IsText

\* What is written of any hash matches the published pattern.
LEMMA DigestIsValid ==
  ASSUME NEW bytes \in [1 .. HashBytes -> 0 .. 255]
  PROVE  IsText(DigestOf(bytes)) /\ Valid("ContentDigest", DigestOf(bytes))
<1>. DEFINE m == HashBytes
            L == LeadingHex(bytes)
            S == LowerHex \cup {"sha256:"}
            B(n) == HexByte(bytes[n])
            Good(s, n) == /\ Len(s) = 1 + 2 * n /\ s[1] = "sha256:"
                          /\ \A i \in 2 .. 1 + 2 * n : s[i] \in LowerHex
            X == {n \in 0 .. m : Good(L[n], n)}
<1>1. m \in Nat /\ L \in [0 .. m -> Seq(S)]  BY LeadingHexIs, ScalarsAssumption
<1>2. \A n \in 1 .. m : L[n] = L[n - 1] \o B(n)  BY LeadingHexIs
<1>3. \A n \in 1 .. m : B(n) \in Seq(S) /\ Len(B(n)) = 2 /\ B(n)[1] \in LowerHex /\ B(n)[2] \in LowerHex
  BY HexByteIs
<1>4. Good(L[0], 0)
  <2>1. L[0] = <<"sha256:">>  BY LeadingHexIs
  <2>. QED  BY <2>1
<1>5. DigestOf(bytes) = L[m]  BY DEF DigestOf
<1>. HIDE DEF m, L, S, B
<1>6. 0 \in X  BY <1>1, <1>4
<1>7. ASSUME NEW n \in 0 .. m - 1, n \in X PROVE n + 1 \in X
  <2>1. n + 1 \in 1 .. m /\ (n + 1) - 1 = n /\ n \in 0 .. m /\ n + 1 \in 0 .. m  BY <1>1
  <2>. DEFINE s == L[n]
              b == B(n + 1)
  <2>2. L[n + 1] = s \o b  BY <1>2, <2>1
  <2>3. s \in Seq(S) /\ b \in Seq(S) /\ Len(b) = 2 /\ b[1] \in LowerHex /\ b[2] \in LowerHex
    BY <1>1, <1>3, <2>1
  <2>. DEFINE k == 1 + 2 * n
  <2>4. k \in Nat /\ k >= 1 /\ 1 + 2 * (n + 1) = k + 2  BY <2>1
  <2>5. Len(s) = k /\ s[1] = "sha256:" /\ \A i \in 2 .. k : s[i] \in LowerHex  BY <1>7
  <2>. HIDE DEF s, b, k
  <2>6. /\ Len(s \o b) = k + 2 /\ \A i \in 1 .. k : (s \o b)[i] = s[i]
        /\ (s \o b)[k + 1] = b[1] /\ (s \o b)[k + 2] = b[2]
    <3>1. /\ Len(s \o b) = Len(s) + Len(b)
          /\ \A i \in 1 .. Len(s) + Len(b) : (s \o b)[i] = IF i <= Len(s) THEN s[i] ELSE b[i - Len(s)]
      BY <2>3, ConcatProperties
    <3>2. Len(s) = k /\ Len(b) = 2  BY <2>3, <2>5
    <3>3. Len(s \o b) = k + 2 /\ \A i \in 1 .. k + 2 : (s \o b)[i] = IF i <= k THEN s[i] ELSE b[i - k]
      BY <3>1, <3>2
    <3>4. (k + 1) - k = 1 /\ (k + 2) - k = 2 /\ ~(k + 1 <= k) /\ ~(k + 2 <= k)  BY <2>4
    <3>5. k + 1 \in 1 .. k + 2 /\ k + 2 \in 1 .. k + 2 /\ \A i \in 1 .. k : i \in 1 .. k + 2 /\ i <= k  BY <2>4
    <3>. QED  BY <3>3, <3>4, <3>5
  <2>7. ASSUME NEW i \in 2 .. k + 2 PROVE (s \o b)[i] \in LowerHex
    <3>1. i \in 2 .. k \/ i = k + 1 \/ i = k + 2  BY <2>4
    <3>2. \A j \in 2 .. k : j \in 1 .. k  OBVIOUS
    <3>. QED  BY <2>3, <2>5, <2>6, <3>1, <3>2
  <2>8. Good(s \o b, n + 1)  BY <2>4, <2>5, <2>6, <2>7
  <2>. HIDE DEF Good
  <2>. QED  BY <2>1, <2>2, <2>8
<1>. HIDE DEF X
<1>8. \A n \in 0 .. m : n \in X  BY <1>1, <1>6, <1>7, UpTo
<1>. DEFINE t == L[m]
<1>9. Good(t, m) /\ t \in Seq(S)  BY <1>1, <1>8 DEF X
<1>10. IsText(t)  BY <1>9, SeqIsText
<1>. HIDE DEF t
<1>11. t # <<>>
  <2>1. Len(t) # 0  BY <1>1, <1>9
  <2>. QED  BY <2>1
<1>12. Head(t) = "sha256:" /\ Range(Tail(t)) \subseteq LowerHex /\ Len(t) = 1 + 2 * m
  BY <1>9, <1>10, <1>11, HeadIs
<1>13. Valid("ContentDigest", t)  BY <1>12 DEF Valid, SchemaAccepts, SchemaDigest, m
<1>. QED  BY <1>5, <1>10, <1>13 DEF t

-----------------------------------------------------------------------------
(* UUIDs: where the hyphens are, whatever their places.                    *)

\* The digits up to a place of the hyphenated text.
DigitsUpTo(i) == i - HyphensUpTo(i)

\* Each place adds a hyphen or a digit.
LEMMA DigitsUpToIs ==
  /\ HyphenatedLength \in Nat /\ DigitsUpTo(0) = 0 /\ DigitsUpTo(HyphenatedLength) = UuidLength
  /\ \A i \in Nat : /\ DigitsUpTo(i) \in Nat
                    /\ i + 1 \in Hyphens => DigitsUpTo(i + 1) = DigitsUpTo(i)
                    /\ i + 1 \notin Hyphens => DigitsUpTo(i + 1) = DigitsUpTo(i) + 1
<1>1. /\ IsFiniteSet(Hyphens) /\ UuidLength \in Nat
      /\ Hyphens \subseteq 1 .. UuidLength + Cardinality(Hyphens)
  BY ScalarsAssumption
<1>2. Cardinality(Hyphens) \in Nat  BY <1>1, FS_CardinalityType
<1>3. HyphenatedLength \in Nat  BY <1>1, <1>2 DEF HyphenatedLength
<1>4. \A i \in Nat : IsFiniteSet(Hyphens \cap 1 .. i) /\ HyphensUpTo(i) \in Nat
  <2>1. \A i : IsFiniteSet(Hyphens \cap 1 .. i)  BY <1>1, FS_Intersection
  <2>. QED  BY <2>1, FS_CardinalityType DEF HyphensUpTo
<1>5. HyphensUpTo(0) = 0
  <2>1. Hyphens \cap 1 .. 0 = {}  OBVIOUS
  <2>. QED  BY <2>1, FS_EmptySet DEF HyphensUpTo
<1>6. HyphensUpTo(HyphenatedLength) = Cardinality(Hyphens)
  <2>1. Hyphens \cap 1 .. HyphenatedLength = Hyphens  BY <1>1 DEF HyphenatedLength
  <2>. QED  BY <2>1 DEF HyphensUpTo
<1>7. ASSUME NEW i \in Nat, i + 1 \in Hyphens PROVE HyphensUpTo(i + 1) = HyphensUpTo(i) + 1
  <2>1. Hyphens \cap 1 .. i + 1 = (Hyphens \cap 1 .. i) \cup {i + 1} /\ i + 1 \notin Hyphens \cap 1 .. i
    BY <1>7
  <2>. QED  BY <1>4, <2>1, FS_AddElement DEF HyphensUpTo
<1>8. ASSUME NEW i \in Nat, i + 1 \notin Hyphens PROVE HyphensUpTo(i + 1) = HyphensUpTo(i)
  <2>1. Hyphens \cap 1 .. i + 1 = Hyphens \cap 1 .. i  BY <1>8
  <2>. QED  BY <2>1 DEF HyphensUpTo
<1>9. \A i \in Nat : /\ i + 1 \in Hyphens => DigitsUpTo(i + 1) = DigitsUpTo(i)
                     /\ i + 1 \notin Hyphens => DigitsUpTo(i + 1) = DigitsUpTo(i) + 1
  <2> SUFFICES ASSUME NEW i \in Nat
               PROVE  /\ i + 1 \in Hyphens => DigitsUpTo(i + 1) = DigitsUpTo(i)
                      /\ i + 1 \notin Hyphens => DigitsUpTo(i + 1) = DigitsUpTo(i) + 1
    OBVIOUS
  <2>1. HyphensUpTo(i) \in Nat  BY <1>4
  <2>2. i + 1 \in Hyphens => DigitsUpTo(i + 1) = DigitsUpTo(i)  BY <1>7, <2>1 DEF DigitsUpTo
  <2>3. i + 1 \notin Hyphens => DigitsUpTo(i + 1) = DigitsUpTo(i) + 1  BY <1>8, <2>1 DEF DigitsUpTo
  <2>. QED  BY <2>2, <2>3
<1>10. DigitsUpTo(0) = 0  BY <1>5 DEF DigitsUpTo
<1>11. DigitsUpTo(HyphenatedLength) = UuidLength
  BY <1>1, <1>2, <1>6 DEF DigitsUpTo, HyphenatedLength
<1>12. \A i \in Nat : DigitsUpTo(i) \in Nat
  <2>. DEFINE X == {i \in Nat : DigitsUpTo(i) \in Nat}
  <2>1. 0 \in X /\ \A i \in X : i + 1 \in X  BY <1>9, <1>10
  <2>2. X \in SUBSET Nat  OBVIOUS
  <2>. HIDE DEF X
  <2>3. X = Nat  BY <2>1, <2>2, NatSetInduction
  <2>. QED  BY <2>3 DEF X
<1>. QED  BY <1>3, <1>9, <1>10, <1>11, <1>12

\* A later place has no fewer digits before it, so each digit has its number.
LEMMA DigitPlace ==
  ASSUME NEW n \in 0 .. HyphenatedLength, NEW i \in 1 .. n, i \notin Hyphens
  PROVE  DigitsUpTo(i) \in 1 .. DigitsUpTo(n) /\ DigitsUpTo(n) <= UuidLength
<1>. DEFINE N == HyphenatedLength
            D(j) == DigitsUpTo(j)
<1>1. /\ N \in Nat /\ D(N) = UuidLength
      /\ \A j \in Nat : D(j) \in Nat /\ (D(j + 1) = D(j) \/ D(j + 1) = D(j) + 1)
  BY DigitsUpToIs
<1>2. D(i) >= 1
  <2>1. i - 1 \in Nat /\ (i - 1) + 1 = i  OBVIOUS
  <2>2. D((i - 1) + 1) = D(i - 1) + 1 /\ D(i - 1) \in Nat  BY <2>1, DigitsUpToIs
  <2>. QED  BY <2>1, <2>2
<1>. HIDE DEF N, D
<1>3. ASSUME NEW j \in Nat, NEW k \in Nat PROVE D(j) <= D(j + k)
  <2>. DEFINE X == {l \in Nat : D(j) <= D(j + l)}
  <2>1. 0 \in X  BY <1>1
  <2>2. ASSUME NEW l \in X PROVE l + 1 \in X
    <3>1. l \in Nat /\ D(j) <= D(j + l) /\ j + l \in Nat /\ j + (l + 1) = (j + l) + 1  OBVIOUS
    <3>2. D((j + l) + 1) = D(j + l) \/ D((j + l) + 1) = D(j + l) + 1  BY <1>1, <3>1
    <3>3. D(j) \in Nat /\ D(j + l) \in Nat  BY <1>1, <3>1
    <3>4. D(j) <= D(j + (l + 1))  BY <3>1, <3>2, <3>3
    <3>. QED  BY <3>1, <3>4
  <2>3. X \in SUBSET Nat  OBVIOUS
  <2>. HIDE DEF X
  <2>4. X = Nat  BY <2>1, <2>2, <2>3, NatSetInduction
  <2>. QED  BY <2>4 DEF X
<1>4. n \in Nat /\ n <= N /\ N \in Nat  BY <1>1 DEF N
<1>5. n - i \in Nat /\ i + (n - i) = n /\ N - n \in Nat /\ n + (N - n) = N /\ i \in Nat  BY <1>4
<1>6. D(i) <= D(n) /\ D(n) <= D(N)  BY <1>3, <1>4, <1>5
<1>7. D(i) \in Nat /\ D(n) \in Nat  BY <1>1, <1>4, <1>5
<1>8. D(i) \in 1 .. D(n) /\ D(n) <= UuidLength  BY <1>1, <1>2, <1>6, <1>7
<1>. QED  BY <1>8 DEF D

\* The text of digits, place by place.
LEMMA HyphenatedIs ==
  ASSUME NEW digits
  PROVE  /\ Hyphenated(digits) = [i \in 1 .. HyphenatedLength |->
              IF i \in Hyphens THEN "-" ELSE digits[DigitsUpTo(i)]]
         /\ \A i \in 1 .. HyphenatedLength : i \notin Hyphens => DigitsUpTo(i) \in 1 .. UuidLength
<1>1. HyphenatedLength \in 0 .. HyphenatedLength /\ DigitsUpTo(HyphenatedLength) = UuidLength
  BY DigitsUpToIs
<1>2. \A i \in 1 .. HyphenatedLength : i \notin Hyphens => DigitsUpTo(i) \in 1 .. UuidLength
  BY <1>1, DigitPlace
<1>. QED  BY <1>2 DEF Hyphenated, DigitsUpTo

\* A text in hyphenated form, in either case.
HasHyphens(t) ==
  /\ Len(t) = HyphenatedLength
  /\ \A i \in 1 .. HyphenatedLength : IF i \in Hyphens THEN t[i] = "-" ELSE IsHex(t[i])

\* Its digits are those between the hyphens, so it is written again in lower
\* case.
LEMMA UuidDigitsAre ==
  ASSUME NEW t, IsText(t), HasHyphens(t)
  PROVE  Hyphenated(UuidDigits(t)) = [i \in 1 .. HyphenatedLength |->
           IF i \in Hyphens THEN "-" ELSE Lowered(t[i])]
<1>. DEFINE N == HyphenatedLength
            L == LeadingDigits(t)
            D(j) == DigitsUpTo(j)
            Good(s, n) == Len(s) = D(n) /\ \A i \in 1 .. n : i \notin Hyphens => s[D(i)] = Lowered(t[i])
            X == {n \in 0 .. N : Good(L[n], n)}
<1>1. N \in Nat /\ D(0) = 0  BY DigitsUpToIs
<1>2. /\ L \in [0 .. N -> Seq(LowerHex)] /\ L[0] = <<>>
      /\ \A n \in 1 .. N : L[n] = IF IsHex(t[n]) THEN Append(L[n - 1], Lowered(t[n])) ELSE L[n - 1]
  BY LeadingDigitsAre DEF HasHyphens
<1>3. \A i \in 1 .. N : IF i \in Hyphens THEN t[i] = "-" ELSE IsHex(t[i])  BY DEF HasHyphens
<1>4. \A i \in 1 .. N : IsHex(t[i]) => Lowered(t[i]) \in LowerHex  BY CharactersAre
<1>5. \A n \in 0 .. N : \A i \in 1 .. n : i \notin Hyphens => D(i) \in 1 .. D(n)
  BY DigitPlace
<1>6. UuidDigits(t) = L[N]  BY DEF UuidDigits, HasHyphens
<1>7. \A i \in Nat : /\ D(i) \in Nat
                     /\ i + 1 \in Hyphens => D(i + 1) = D(i)
                     /\ i + 1 \notin Hyphens => D(i + 1) = D(i) + 1
  BY DigitsUpToIs
<1>. HIDE DEF N, L, D
<1>8. 0 \in X  BY <1>1, <1>2
<1>9. ASSUME NEW n \in 0 .. N - 1, n \in X PROVE n + 1 \in X
  <2>1. n + 1 \in 1 .. N /\ (n + 1) - 1 = n /\ n \in 0 .. N /\ n + 1 \in 0 .. N /\ n \in Nat  BY <1>1
  <2>2. Good(L[n], n)  BY <1>9
  <2>3. \A i \in 1 .. n + 1 : i = n + 1 \/ i \in 1 .. n  BY <2>1
  <2>4. CASE n + 1 \in Hyphens
    <3>1. L[n + 1] = L[n]
      <4>1. ~IsHex(t[n + 1])  BY <1>3, <2>1, <2>4, CharactersAre
      <4>. QED  BY <1>2, <2>1, <4>1
    <3>2. D(n + 1) = D(n)  BY <1>7, <2>1, <2>4
    <3>3. Good(L[n + 1], n + 1)  BY <2>2, <2>3, <2>4, <3>1, <3>2
    <3>. HIDE DEF Good
    <3>. QED  BY <2>1, <3>3
  <2>5. CASE n + 1 \notin Hyphens
    <3>. DEFINE s == L[n]
                ch == Lowered(t[n + 1])
    <3>1. L[n + 1] = Append(s, ch) /\ ch \in LowerHex
      <4>1. IsHex(t[n + 1])  BY <1>3, <2>1, <2>5
      <4>. QED  BY <1>2, <1>4, <2>1, <4>1
    <3>2. D(n + 1) = D(n) + 1 /\ D(n) \in Nat  BY <1>7, <2>1, <2>5
    <3>3. s \in Seq(LowerHex) /\ Len(s) = D(n)  BY <1>2, <2>1, <2>2
    <3>4. \A i \in 1 .. n : i \notin Hyphens => D(i) \in 1 .. D(n) /\ s[D(i)] = Lowered(t[i])
      BY <1>5, <2>1, <2>2
    <3>. HIDE DEF s
    <3>5. /\ Len(Append(s, ch)) = D(n) + 1 /\ Append(s, ch)[D(n) + 1] = ch
          /\ \A k \in 1 .. D(n) : Append(s, ch)[k] = s[k]
      <4>. HIDE DEF ch
      <4>. QED  BY <3>1, <3>2, <3>3
    <3>6. Good(Append(s, ch), n + 1)
      <4>1. ASSUME NEW i \in 1 .. n + 1, i \notin Hyphens
            PROVE  Append(s, ch)[D(i)] = Lowered(t[i])
        <5>1. CASE i = n + 1  BY <3>2, <3>5, <5>1
        <5>2. CASE i \in 1 .. n  BY <3>4, <3>5, <4>1, <5>2
        <5>. QED  BY <2>3, <5>1, <5>2
      <4>. QED  BY <3>2, <3>5, <4>1
    <3>. HIDE DEF Good
    <3>. QED  BY <2>1, <3>1, <3>6
  <2>. QED  BY <2>4, <2>5
<1>. HIDE DEF X
<1>10. \A n \in 0 .. N : n \in X  BY <1>1, <1>8, <1>9, UpTo
<1>11. Good(L[N], N)  BY <1>1, <1>10 DEF X
<1>12. Hyphenated(UuidDigits(t)) = [i \in 1 .. N |-> IF i \in Hyphens THEN "-" ELSE L[N][D(i)]]
  BY <1>6, HyphenatedIs DEF N, D
<1>. QED  BY <1>11, <1>12 DEF N

\* The hyphenated form is the one shape of its length.
LEMMA ShapeIs ==
  ASSUME NEW t, IsText(t), Len(t) = HyphenatedLength
  PROVE  ReadableUuid(t) <=> HasHyphens(t)
<1>. DEFINE N == HyphenatedLength
            simple == [i \in 1 .. UuidLength |-> "digit"]
            hyphenated == Hyphenated(simple)
            braced == <<"{">> \o hyphenated \o <<"}">>
            urn == <<"urn:uuid:">> \o hyphenated
            C == {"-", "digit", "{", "}", "urn:uuid:"}
<1>1. N \in Nat  BY DigitsUpToIs
<1>2. hyphenated = [i \in 1 .. N |-> IF i \in Hyphens THEN "-" ELSE "digit"]
  <2>1. /\ hyphenated = [i \in 1 .. N |-> IF i \in Hyphens THEN "-" ELSE simple[DigitsUpTo(i)]]
        /\ \A i \in 1 .. N : i \notin Hyphens => DigitsUpTo(i) \in 1 .. UuidLength
    BY HyphenatedIs
  <2>2. \A j \in 1 .. UuidLength : simple[j] = "digit"  OBVIOUS
  <2>. HIDE DEF hyphenated, simple, N
  <2>3. \A i \in 1 .. N : i \notin Hyphens => simple[DigitsUpTo(i)] = "digit"  BY <2>1, <2>2
  <2>. QED  BY <2>1, <2>3
<1>3. hyphenated \in Seq(C) /\ Len(hyphenated) = N
  <2>1. "-" \in C /\ "digit" \in C  OBVIOUS
  <2>. HIDE DEF hyphenated, N, C
  <2>2. hyphenated \in [1 .. N -> C]  BY <1>2, <2>1
  <2>. QED  BY <1>1, <2>2
<1>4. Len(simple) = UuidLength /\ UuidLength \in Nat  BY ScalarsAssumption
<1>5. ReadableUuid(t) <=> \E shape \in {simple, hyphenated, braced, urn} : HasShape(t, shape)
  BY DEF ReadableUuid, UuidShapes
<1>6. HasShape(t, hyphenated) <=> HasHyphens(t)
  <2>1. DOMAIN t = 1 .. N  BY TextIs
  <2>2. \A i \in 1 .. N : hyphenated[i] = "digit" <=> i \notin Hyphens  BY <1>2
  <2>3. \A i \in 1 .. N : i \in Hyphens => hyphenated[i] = "-"  BY <1>2
  <2>. HIDE DEF hyphenated
  <2>. QED  BY <1>3, <2>1, <2>2, <2>3 DEF HasShape, HasHyphens
<1>7. Len(braced) = N + 2 /\ Len(urn) = N + 1
  <2>1. <<"{">> \in Seq(C) /\ <<"}">> \in Seq(C) /\ <<"urn:uuid:">> \in Seq(C)  OBVIOUS
  <2>2. Len(<<"{">>) = 1 /\ Len(<<"}">>) = 1 /\ Len(<<"urn:uuid:">>) = 1  OBVIOUS
  <2>3. \A r, s \in Seq(C) : r \o s \in Seq(C) /\ Len(r \o s) = Len(r) + Len(s)
    BY ConcatProperties
  <2>. DEFINE l == <<"{">>
              r == <<"}">>
              u == <<"urn:uuid:">>
  <2>4. /\ l \in Seq(C) /\ Len(l) = 1 /\ r \in Seq(C) /\ Len(r) = 1 /\ u \in Seq(C) /\ Len(u) = 1
        /\ braced = l \o hyphenated \o r /\ urn = u \o hyphenated
    BY <2>1, <2>2
  <2>. HIDE DEF hyphenated, N, C, l, r, u, braced, urn
  <2>5. Len(u \o hyphenated) = 1 + N  BY <1>3, <2>3, <2>4
  <2>6. l \o hyphenated \in Seq(C) /\ Len(l \o hyphenated) = 1 + N  BY <1>3, <2>3, <2>4
  <2>7. Len((l \o hyphenated) \o r) = (1 + N) + 1  BY <2>3, <2>4, <2>6
  <2>. QED  BY <1>1, <2>4, <2>5, <2>7
<1>8. HasShape(t, simple) => HasHyphens(t)
  <2> SUFFICES ASSUME HasShape(t, simple) PROVE HasHyphens(t)  OBVIOUS
  <2>1. N = UuidLength  BY <1>4 DEF HasShape
  <2>2. Hyphens = {}
    <3>1. IsFiniteSet(Hyphens)  BY ScalarsAssumption
    <3>2. Cardinality(Hyphens) \in Nat  BY <3>1, FS_CardinalityType
    <3>3. Cardinality(Hyphens) = 0  BY <1>4, <2>1, <3>2 DEF HyphenatedLength
    <3>. QED  BY <3>1, <3>3, FS_EmptySet
  <2>3. DOMAIN t = 1 .. N  BY TextIs
  <2>4. \A i \in 1 .. N : simple[i] = "digit"  BY <2>1
  <2>5. \A i \in 1 .. N : IsHex(t[i])
    <3>. HIDE DEF simple, N
    <3>. QED  BY <2>3, <2>4 DEF HasShape
  <2>. QED  BY <2>2, <2>5 DEF HasHyphens
<1>. HIDE DEF simple, hyphenated, braced, urn
<1>9. ~HasShape(t, braced) /\ ~HasShape(t, urn)
  <2>1. N # N + 2 /\ N # N + 1  BY <1>1
  <2>. QED  BY <1>7, <2>1 DEF HasShape
<1>. QED  BY <1>5, <1>6, <1>8, <1>9

\* The published pattern of UUIDs is the hyphenated form in lower case.
LEMMA SchemaUuidIs ==
  ASSUME NEW t, IsText(t), SchemaUuid(t)
  PROVE  HasHyphens(t) /\ Hyphenated(UuidDigits(t)) = t
<1>. DEFINE N == HyphenatedLength
<1>1. DOMAIN t = 1 .. N /\ Len(t) = N  BY TextIs DEF SchemaUuid
<1>2. \A i \in 1 .. N : IF i \in Hyphens THEN t[i] = "-" ELSE t[i] \in LowerHex
  BY <1>1 DEF SchemaUuid
<1>3. HasHyphens(t)  BY <1>1, <1>2, CharactersAre DEF HasHyphens
<1>4. \A i \in 1 .. N : i \notin Hyphens => Lowered(t[i]) = t[i]  BY <1>2, CharactersAre
<1>5. t = [i \in 1 .. N |-> t[i]]
  <2>1. t = [i \in DOMAIN t |-> t[i]]
    <3>1. t \in [1 .. Len(t) -> Range(t)]  BY DEF IsText
    <3>. QED  BY <3>1
  <2>. QED  BY <1>1, <2>1
<1>6. [i \in 1 .. N |-> t[i]] = [i \in 1 .. N |-> IF i \in Hyphens THEN "-" ELSE Lowered(t[i])]
  <2>. HIDE DEF N
  <2>. QED  BY <1>2, <1>4
<1>. QED  BY <1>3, <1>5, <1>6, UuidDigitsAre

\* UUIDs: reading the digits and writing them again accepts only that form.
LEMMA UuidVerdict ==
  ASSUME NEW t, IsText(t)
  PROVE  ParseUuid(t) = Accepted <=> Valid("Uuid", t)
<1>. DEFINE N == HyphenatedLength
<1>1. ParseUuid(t) = Accepted <=> ReadableUuid(t) /\ Hyphenated(UuidDigits(t)) = t
  BY DEF ParseUuid, Accepted
<1>2. Valid("Uuid", t) <=> SchemaUuid(t)  BY DEF Valid, SchemaAccepts
<1>3. SchemaUuid(t) => ReadableUuid(t) /\ Hyphenated(UuidDigits(t)) = t
  BY ShapeIs, SchemaUuidIs DEF SchemaUuid
<1>4. ASSUME ReadableUuid(t), Hyphenated(UuidDigits(t)) = t
      PROVE  SchemaUuid(t)
  <2>1. N \in Nat /\ Len(t) \in Nat /\ DOMAIN t = 1 .. Len(t)  BY TextIs, DigitsUpToIs
  <2>2. DOMAIN t = 1 .. N
    <3>1. DOMAIN Hyphenated(UuidDigits(t)) = 1 .. N  BY HyphenatedIs
    <3>. QED  BY <1>4, <3>1
  <2>3. Len(t) = N
    <3>. DEFINE m == Len(t)
    <3>1. 1 .. m = 1 .. N /\ m \in Nat  BY <2>1, <2>2
    <3>. HIDE DEF m, N
    <3>2. m \in 1 .. m \/ m = 0  BY <3>1
    <3>3. N \in 1 .. N \/ N = 0  BY <2>1
    <3>4. m = N  BY <2>1, <3>1, <3>2, <3>3
    <3>. QED  BY <3>4 DEF m
  <2>4. HasHyphens(t)  BY <1>4, <2>3, ShapeIs
  <2>5. t = [i \in 1 .. N |-> IF i \in Hyphens THEN "-" ELSE Lowered(t[i])]
    BY <1>4, <2>4, UuidDigitsAre
  <2>6. ASSUME NEW i \in 1 .. N PROVE IF i \in Hyphens THEN t[i] = "-" ELSE t[i] \in LowerHex
    <3>1. i \in Hyphens => t[i] = "-"  BY <2>4 DEF HasHyphens
    <3>2. i \notin Hyphens => t[i] = Lowered(t[i]) /\ IsHex(t[i])  BY <2>4, <2>5 DEF HasHyphens
    <3>. QED  BY <3>1, <3>2, CharactersAre
  <2>. QED  BY <2>2, <2>3, <2>6 DEF SchemaUuid
<1>. QED  BY <1>1, <1>2, <1>3, <1>4

\* A random UUID is written in that form.
LEMMA UuidIsValid ==
  ASSUME NEW digits \in [1 .. UuidLength -> LowerHex]
  PROVE  IsText(Hyphenated(digits)) /\ Valid("Uuid", Hyphenated(digits))
<1>. DEFINE N == HyphenatedLength
            t == Hyphenated(digits)
<1>1. N \in Nat  BY DigitsUpToIs
<1>2. t = [i \in 1 .. N |-> IF i \in Hyphens THEN "-" ELSE digits[DigitsUpTo(i)]]  BY HyphenatedIs
<1>3. \A i \in 1 .. N : i \notin Hyphens => DigitsUpTo(i) \in 1 .. UuidLength  BY HyphenatedIs
<1>. HIDE DEF t, N
<1>4. \A i \in 1 .. N : IF i \in Hyphens THEN t[i] = "-" ELSE t[i] \in LowerHex  BY <1>2, <1>3
<1>5. t \in Seq(LowerHex \cup {"-"}) /\ Len(t) = N /\ DOMAIN t = 1 .. N
  <2>1. t \in [1 .. N -> LowerHex \cup {"-"}]  BY <1>2, <1>4
  <2>. QED  BY <1>1, <2>1
<1>6. IsText(t)  BY <1>5, SeqIsText
<1>7. SchemaUuid(t)  BY <1>4, <1>5 DEF SchemaUuid, N
<1>. QED  BY <1>6, <1>7 DEF t, Valid, SchemaAccepts

-----------------------------------------------------------------------------
(* Field paths: the tokens of a pointer determine its text.                *)

\* The symbol that the character at n ends.
Symbol(t, n) ==
  IF n > 1 /\ t[n - 1] = "~" THEN <<"holds", IF t[n] = "1" THEN "/" ELSE "~">>
  ELSE <<IF t[n] = "/" THEN "begins" ELSE "holds", t[n]>>

\* Every tilde is followed by its digit.
Escapes(t) == \A i \in 1 .. Len(t) : t[i] = "~" => i < Len(t) /\ t[i + 1] \in {"0", "1"}

\* The places where a symbol ends.
Boundary(t, n) == n \in 0 .. Len(t) /\ (n = 0 \/ t[n] # "~")

\* The symbol before a boundary, and the boundary before it.
LEMMA SymbolIs ==
  ASSUME NEW t, IsText(t), Escapes(t), NEW n \in 1 .. Len(t), Boundary(t, n)
  PROVE  /\ LeadingTokens(t)[n] = Append(LeadingTokens(t)[n - 1], Symbol(t, n))
         /\ n > 1 /\ t[n - 1] = "~" =>
              /\ LeadingTokens(t)[n - 1] = LeadingTokens(t)[n - 2] /\ Boundary(t, n - 2)
              /\ t[n] \in {"0", "1"}
         /\ ~(n > 1 /\ t[n - 1] = "~") => Boundary(t, n - 1)
         /\ Symbol(t, n) \in Symbols(t)
<1>. DEFINE m == Len(t)
            L == LeadingTokens(t)
<1>1. m \in Nat /\ \A i \in 1 .. m : t[i] \in Range(t)  BY TextIs
<1>2. \A k \in 1 .. m : L[k] = IF t[k] = "~" THEN L[k - 1] ELSE Append(L[k - 1], Symbol(t, k))
  BY LeadingTokensAre DEF Symbol
<1>3. n \in 1 .. m /\ t[n] # "~"  BY DEF Boundary
<1>4. \A i \in 1 .. m : t[i] = "~" => i < m /\ t[i + 1] \in {"0", "1"}  BY DEF Escapes
<1>5. \A k : Boundary(t, k) <=> k \in 0 .. m /\ (k = 0 \/ t[k] # "~")  BY DEF Boundary
<1>. HIDE DEF m, L
<1>6. L[n] = Append(L[n - 1], Symbol(t, n))  BY <1>2, <1>3
<1>7. ASSUME n > 1, t[n - 1] = "~"
      PROVE  L[n - 1] = L[n - 2] /\ Boundary(t, n - 2) /\ t[n] \in {"0", "1"}
  <2>1. n - 1 \in 1 .. m /\ (n - 1) + 1 = n /\ (n - 1) - 1 = n - 2 /\ n - 2 \in 0 .. m  BY <1>1, <1>3, <1>7
  <2>2. L[n - 1] = L[n - 2]  BY <1>2, <1>7, <2>1
  <2>3. t[n] \in {"0", "1"}  BY <1>4, <1>7, <2>1
  <2>4. ASSUME n - 2 # 0 PROVE t[n - 2] # "~"
    <3>1. n - 2 \in 1 .. m /\ (n - 2) + 1 = n - 1  BY <2>1, <2>4
    <3>2. t[n - 2] = "~" => t[n - 1] \in {"0", "1"}  BY <1>4, <3>1
    <3>. QED  BY <1>7, <3>2
  <2>. QED  BY <1>5, <2>1, <2>2, <2>3, <2>4
<1>8. ASSUME ~(n > 1 /\ t[n - 1] = "~") PROVE Boundary(t, n - 1)
  <2>1. n - 1 \in 0 .. m /\ (n > 1 \/ n - 1 = 0)  BY <1>1, <1>3
  <2>. QED  BY <1>5, <1>8, <2>1
<1>9. Symbol(t, n) \in Symbols(t)  BY <1>1, <1>3 DEF Symbol, Symbols
<1>. QED  BY <1>6, <1>7, <1>8, <1>9 DEF L

\* No two texts up to a boundary have the same symbols.
LEMMA SymbolsDetermine ==
  ASSUME NEW t, IsText(t), Escapes(t), NEW u, IsText(u), Escapes(u),
         NEW n, Boundary(t, n), NEW m, Boundary(u, m),
         LeadingTokens(t)[n] = LeadingTokens(u)[m]
  PROVE  n = m /\ \A i \in 1 .. n : t[i] = u[i]
<1>. DEFINE T == LeadingTokens(t)
            U == LeadingTokens(u)
            S == Symbols(t) \cup Symbols(u)
            Same(k, l) == k = l /\ \A i \in 1 .. k : t[i] = u[i]
            Good(k) == \A l : Boundary(t, k) /\ Boundary(u, l) /\ T[k] = U[l] => Same(k, l)
            X == {k \in 0 .. Len(t) : \A j \in 0 .. k : Good(j)}
<1>1. Len(t) \in Nat /\ Len(u) \in Nat  BY TextIs
<1>2. /\ \A k \in 0 .. Len(t) : T[k] \in Seq(S)
      /\ \A k \in 0 .. Len(u) : U[k] \in Seq(S)
  <2>1. Seq(Symbols(t)) \subseteq Seq(S) /\ Seq(Symbols(u)) \subseteq Seq(S)  OBVIOUS
  <2>. QED  BY <2>1, LeadingTokensAre
<1>3. T[0] = <<>> /\ U[0] = <<>>  BY LeadingTokensAre
<1>4. \A a \in Seq(S) : \A x \in S : Append(a, x) # <<>>  OBVIOUS
<1>5. ASSUME NEW k \in 1 .. Len(t), Boundary(t, k)
      PROVE  /\ T[k] = Append(T[k - 1], Symbol(t, k)) /\ T[k - 1] \in Seq(S) /\ Symbol(t, k) \in S
             /\ k > 1 /\ t[k - 1] = "~" =>
                  T[k - 1] = T[k - 2] /\ Boundary(t, k - 2) /\ t[k] \in {"0", "1"}
             /\ ~(k > 1 /\ t[k - 1] = "~") => Boundary(t, k - 1)
  <2>1. k - 1 \in 0 .. Len(t)  BY <1>1
  <2>. QED  BY <1>2, <1>5, <2>1, SymbolIs
<1>6. ASSUME NEW k \in 1 .. Len(u), Boundary(u, k)
      PROVE  /\ U[k] = Append(U[k - 1], Symbol(u, k)) /\ U[k - 1] \in Seq(S) /\ Symbol(u, k) \in S
             /\ k > 1 /\ u[k - 1] = "~" =>
                  U[k - 1] = U[k - 2] /\ Boundary(u, k - 2) /\ u[k] \in {"0", "1"}
             /\ ~(k > 1 /\ u[k - 1] = "~") => Boundary(u, k - 1)
  <2>1. k - 1 \in 0 .. Len(u)  BY <1>1
  <2>. QED  BY <1>2, <1>6, <2>1, SymbolIs
<1>. HIDE DEF T, U, S
<1>7. ASSUME NEW k \in 0 .. Len(t), \A j \in 0 .. k - 1 : Good(j) PROVE Good(k)
  <2> SUFFICES ASSUME NEW l, Boundary(t, k), Boundary(u, l), T[k] = U[l] PROVE Same(k, l)
    OBVIOUS
  <2>1. k \in Nat /\ l \in 0 .. Len(u) /\ l \in Nat  BY <1>1 DEF Boundary
  <2>2. CASE k = 0
    <3>1. ASSUME l # 0 PROVE FALSE
      <4>1. l \in 1 .. Len(u)  BY <1>1, <2>1, <3>1
      <4>. QED  BY <1>3, <1>4, <1>6, <2>2, <4>1
    <3>. QED  BY <2>2, <3>1
  <2>3. CASE k # 0
    <3>1. k \in 1 .. Len(t)  BY <1>1, <2>1, <2>3
    <3>2. l \in 1 .. Len(u)
      <4>1. ASSUME l = 0 PROVE FALSE  BY <1>3, <1>4, <1>5, <3>1, <4>1
      <4>. QED  BY <1>1, <2>1, <4>1
    <3>3. T[k - 1] = U[l - 1] /\ Symbol(t, k) = Symbol(u, l)
      <4>1. T[k - 1] \in Seq(S) /\ Symbol(t, k) \in S /\ T[k] = Append(T[k - 1], Symbol(t, k))
        BY <1>5, <3>1
      <4>2. U[l - 1] \in Seq(S) /\ Symbol(u, l) \in S /\ U[l] = Append(U[l - 1], Symbol(u, l))
        BY <1>6, <3>2
      <4>3. Append(T[k - 1], Symbol(t, k)) = Append(U[l - 1], Symbol(u, l))  BY <4>1, <4>2
      <4>. QED  BY <4>1, <4>2, <4>3, AppendInjective
    <3>4. t[k] # "~" /\ u[l] # "~"  BY <2>3, <3>2 DEF Boundary
    <3>. DEFINE ET == k > 1 /\ t[k - 1] = "~"
                EU == l > 1 /\ u[l - 1] = "~"
    <3>5. /\ ET => Symbol(t, k) = <<"holds", IF t[k] = "1" THEN "/" ELSE "~">>
          /\ ~ET => Symbol(t, k) = <<IF t[k] = "/" THEN "begins" ELSE "holds", t[k]>>
          /\ EU => Symbol(u, l) = <<"holds", IF u[l] = "1" THEN "/" ELSE "~">>
          /\ ~EU => Symbol(u, l) = <<IF u[l] = "/" THEN "begins" ELSE "holds", u[l]>>
      BY DEF Symbol
    <3>6. /\ ET => T[k - 1] = T[k - 2] /\ Boundary(t, k - 2) /\ t[k] \in {"0", "1"}
          /\ ~ET => Boundary(t, k - 1)
          /\ EU => U[l - 1] = U[l - 2] /\ Boundary(u, l - 2) /\ u[l] \in {"0", "1"}
          /\ ~EU => Boundary(u, l - 1)
      BY <1>5, <1>6, <3>1, <3>2
    <3>7. ET <=> EU
      <4>. HIDE DEF ET, EU
      <4>1. ASSUME ET, ~EU PROVE FALSE
        <5>1. IF u[l] = "/" THEN "begins" = "holds" ELSE u[l] = (IF t[k] = "1" THEN "/" ELSE "~")
          BY <3>3, <3>5, <4>1
        <5>. QED  BY <3>4, <5>1
      <4>2. ASSUME ~ET, EU PROVE FALSE
        <5>1. IF t[k] = "/" THEN "begins" = "holds" ELSE t[k] = (IF u[l] = "1" THEN "/" ELSE "~")
          BY <3>3, <3>5, <4>2
        <5>. QED  BY <3>4, <5>1
      <4>. QED  BY <4>1, <4>2
    <3>8. CASE ET
      <4>1. k > 1 /\ t[k - 1] = "~" /\ l > 1 /\ u[l - 1] = "~" /\ k - 2 \in 0 .. k - 1
        BY <2>1, <3>7, <3>8
      <4>2. T[k - 2] = U[l - 2] /\ Boundary(t, k - 2) /\ Boundary(u, l - 2)
        BY <3>3, <3>6, <3>7, <3>8
      <4>3. Same(k - 2, l - 2)  BY <1>7, <4>1, <4>2
      <4>4. t[k] = u[l]
        <5>1. t[k] \in {"0", "1"} /\ u[l] \in {"0", "1"}  BY <3>6, <3>7, <3>8
        <5>2. (IF t[k] = "1" THEN "/" ELSE "~") = (IF u[l] = "1" THEN "/" ELSE "~")
          <6>. HIDE DEF ET, EU
          <6>. QED  BY <3>3, <3>5, <3>7, <3>8
        <5>. QED  BY <5>1, <5>2
      <4>5. k = l  BY <2>1, <4>3
      <4>6. \A i \in 1 .. k : i = k \/ i = k - 1 \/ i \in 1 .. k - 2  BY <2>1
      <4>. QED  BY <4>1, <4>3, <4>4, <4>5, <4>6
    <3>9. CASE ~ET
      <4>1. k - 1 \in 0 .. k - 1  BY <2>1, <2>3
      <4>2. Boundary(t, k - 1) /\ Boundary(u, l - 1)  BY <3>6, <3>7, <3>9
      <4>3. Same(k - 1, l - 1)  BY <1>7, <3>3, <4>1, <4>2
      <4>4. t[k] = u[l]
        <5>. HIDE DEF ET, EU
        <5>. QED  BY <3>3, <3>5, <3>7, <3>9
      <4>5. k = l  BY <2>1, <4>3
      <4>6. \A i \in 1 .. k : i = k \/ i \in 1 .. k - 1  BY <2>1
      <4>. QED  BY <4>3, <4>4, <4>5, <4>6
    <3>. QED  BY <3>8, <3>9
  <2>. QED  BY <2>2, <2>3
<1>. HIDE DEF Good
<1>8. 0 \in X
  <2>1. 0 \in 0 .. Len(t) /\ \A j \in 0 .. 0 - 1 : FALSE  BY <1>1
  <2>2. Good(0)  BY <1>7, <2>1
  <2>. QED  BY <2>1, <2>2
<1>9. ASSUME NEW k \in 0 .. Len(t) - 1, k \in X PROVE k + 1 \in X
  <2>1. k + 1 \in 0 .. Len(t) /\ \A j \in 0 .. (k + 1) - 1 : j \in 0 .. k  BY <1>1
  <2>2. \A j \in 0 .. k : Good(j)  BY <1>9
  <2>3. Good(k + 1)  BY <1>7, <2>1, <2>2
  <2>4. \A j \in 0 .. k + 1 : j = k + 1 \/ j \in 0 .. k  BY <1>1
  <2>. QED  BY <2>1, <2>2, <2>3, <2>4
<1>. HIDE DEF X
<1>10. n \in 0 .. Len(t) /\ n \in 0 .. n  BY <1>1 DEF Boundary
<1>11. n \in X  BY <1>1, <1>8, <1>9, <1>10, UpTo
<1>12. Good(n)  BY <1>10, <1>11 DEF X
<1>. QED  BY <1>12 DEF Good, T, U

\* No two paths name one field.
LEMMA PathsDiffer ==
  ASSUME NEW t, IsText(t), SchemaPath(t), NEW u, IsText(u), SchemaPath(u), Tokens(t) = Tokens(u)
  PROVE  t = u
<1>1. /\ Len(t) \in Nat /\ DOMAIN t = 1 .. Len(t)
      /\ Len(u) \in Nat /\ DOMAIN u = 1 .. Len(u)
  BY TextIs
<1>2. Escapes(t) /\ Escapes(u)  BY <1>1 DEF SchemaPath, Escapes
<1>3. Boundary(t, Len(t)) /\ Boundary(u, Len(u))
  <2>1. \A s : IsText(s) /\ Escapes(s) => Boundary(s, Len(s))
    <3> SUFFICES ASSUME NEW s, IsText(s), Escapes(s), Len(s) # 0 PROVE Boundary(s, Len(s))
      BY TextIs DEF Boundary
    <3>. DEFINE m == Len(s)
    <3>1. m \in Nat /\ m # 0  BY TextIs
    <3>2. \A i \in 1 .. m : s[i] = "~" => i < m  BY DEF Escapes
    <3>. HIDE DEF m
    <3>3. m \in 1 .. m /\ ~(m < m)  BY <3>1
    <3>4. s[m] # "~" /\ m \in 0 .. m  BY <3>1, <3>2, <3>3
    <3>. QED  BY <3>4 DEF m, Boundary
  <2>. QED  BY <1>2, <2>1
<1>4. Len(t) = Len(u) /\ \A i \in 1 .. Len(t) : t[i] = u[i]
  BY <1>2, <1>3, SymbolsDetermine DEF Tokens
<1>5. t \in Seq(Range(t) \cup Range(u)) /\ u \in Seq(Range(t) \cup Range(u))
  <2>1. Seq(Range(t)) \subseteq Seq(Range(t) \cup Range(u)) /\ Seq(Range(u)) \subseteq Seq(Range(t) \cup Range(u))
    OBVIOUS
  <2>. QED  BY <2>1 DEF IsText
<1>. QED  BY <1>4, <1>5, SeqEqual

-----------------------------------------------------------------------------
(* The invariant.                                                          *)

Types ==
  /\ kind \in Kinds /\ IsText(text)
  /\ at \in 0 .. Len(text) + 1
  /\ verdict \in Errors \cup {Accepted, Undecided}
  /\ origin \in {"foreign", "constructed", "emitted"}

\* What the scan of a path has passed.
Scanned ==
  at >= 1 =>
    /\ text # <<>> => Head(text) = "/"
    /\ \A i \in 1 .. at - 1 : text[i] = "~" => i < Len(text) /\ text[i + 1] \in {"0", "1"}

\* A verdict is right, and an accepted value is its text's.
Decided ==
  /\ verdict # Undecided => (verdict = Accepted <=> Valid(kind, text))
  /\ verdict = Accepted => value = ValueOf(kind, text)

\* What a constructor or an accepted value has written.
Own == origin # "foreign" => Valid(kind, text)

IInv == Types /\ Scanned /\ Decided /\ Own

\* The names of the verdicts.
LEMMA VerdictsAre ==
  /\ Undecided \notin Errors /\ Accepted \notin Errors /\ Accepted # Undecided
BY DEF Errors, Accepted, Undecided

LEMMA InitIInv == Init => IInv
<1> SUFFICES ASSUME Init PROVE IInv  OBVIOUS
<1>1. at = 0 /\ verdict = Undecided  BY DEF Init
<1>2. ASSUME origin = "foreign", kind \in Kinds, text \in Texts[kind] PROVE IInv
  <2>1. IsText(text)
    <3>1. text \in Seq(STRING)  BY <1>2, ScalarsAssumption
    <3>. QED  BY <3>1, SeqIsText
  <2>2. Len(text) \in Nat  BY <2>1, TextIs
  <2>. QED  BY <1>1, <1>2, <2>1, <2>2, VerdictsAre DEF IInv, Types, Scanned, Decided, Own
<1>3. ASSUME origin = "constructed", kind \in Kinds, IsText(text), Valid(kind, text) PROVE IInv
  <2>1. Len(text) \in Nat  BY <1>3, TextIs
  <2>. QED  BY <1>1, <1>3, <2>1, VerdictsAre DEF IInv, Types, Scanned, Decided, Own
<1>4. ASSUME kind = "TimestampNs", NEW n \in 0 .. TimestampMax, text = Display(kind, n)
      PROVE  kind \in Kinds /\ IsText(text) /\ Valid(kind, text)
  <2>1. text = Numeral[n]  BY <1>4 DEF Display
  <2>2. Canonical(text) /\ Number(text) = n  BY <2>1, NumeralIsCanonical
  <2>3. n <= TimestampMax  BY ScalarsAssumption
  <2>. QED  BY <1>4, <2>2, <2>3 DEF Canonical, Valid, SchemaAccepts, Kinds
<1>5. ASSUME kind = "ContentDigest", NEW bytes \in [1 .. HashBytes -> HashByte], text = DigestOf(bytes)
      PROVE  kind \in Kinds /\ IsText(text) /\ Valid(kind, text)
  <2>1. HashByte \subseteq 0 .. 255  BY ScalarsAssumption
  <2>2. bytes \in [1 .. HashBytes -> 0 .. 255]  BY <2>1
  <2>. QED  BY <1>5, <2>2, DigestIsValid DEF Kinds
<1>6. ASSUME kind = "Uuid", NEW digits \in [1 .. UuidLength -> UuidDigit], text = Hyphenated(digits)
      PROVE  kind \in Kinds /\ IsText(text) /\ Valid(kind, text)
  <2>1. UuidDigit \subseteq LowerHex  BY ScalarsAssumption
  <2>2. digits \in [1 .. UuidLength -> LowerHex]  BY <2>1
  <2>. QED  BY <1>6, <2>2, UuidIsValid DEF Kinds
<1>. QED  BY <1>2, <1>3, <1>4, <1>5, <1>6 DEF Init

\* A path that is accepted has been scanned to its end; one that is refused has
\* something that the pattern refuses.
LEMMA PathVerdict ==
  ASSUME IInv, Scanning
  PROVE  /\ at = 0 /\ text # <<>> /\ Head(text) # "/" => ~Valid(kind, text)
         /\ at \in 1 .. Len(text) /\ text[at] = "~" /\ ~(at < Len(text) /\ text[at + 1] \in {"0", "1"})
              => ~Valid(kind, text)
         /\ at > Len(text) => Valid(kind, text)
<1>1. kind = "FieldPath" /\ IsText(text) /\ at \in 0 .. Len(text) + 1  BY DEF IInv, Types, Scanning
<1>2. Len(text) \in Nat /\ DOMAIN text = 1 .. Len(text)  BY <1>1, TextIs
<1>3. Valid(kind, text) <=> SchemaPath(text)  BY <1>1 DEF Valid, SchemaAccepts
<1>4. SchemaPath(text) <=>
        /\ text # <<>> => Head(text) = "/"
        /\ \A i \in 1 .. Len(text) : text[i] = "~" => i < Len(text) /\ text[i + 1] \in {"0", "1"}
  BY <1>2 DEF SchemaPath
<1>5. at > Len(text) => SchemaPath(text)
  <2> SUFFICES ASSUME at > Len(text) PROVE SchemaPath(text)  OBVIOUS
  <2>1. at >= 1 /\ at - 1 = Len(text)  BY <1>1, <1>2
  <2>. QED  BY <1>4, <2>1 DEF IInv, Scanned
<1>. QED  BY <1>3, <1>4, <1>5

\* Every decision is the one that Valid describes.
LEMMA DecideIInv ==
  ASSUME IInv, verdict = Undecided, NEW v \in Errors \cup {Accepted}, Decide(v),
         v = Accepted <=> Valid(kind, text)
  PROVE  IInv'
<1>1. kind' = kind /\ text' = text /\ at' = at /\ origin' = origin /\ verdict' = v  BY DEF Decide
<1>2. v = Accepted => value' = ValueOf(kind, text)  BY DEF Decide
<1>3. Types'  BY <1>1 DEF IInv, Types
<1>4. Scanned'  BY <1>1 DEF IInv, Scanned
<1>5. Decided'  BY <1>1, <1>2 DEF Decided
<1>6. Own'  BY <1>1 DEF IInv, Own
<1>. QED  BY <1>3, <1>4, <1>5, <1>6 DEF IInv

\* An accepted value is displayed as the text it was read from.
LEMMA DisplayIs ==
  ASSUME IInv, verdict = Accepted
  PROVE  Display(kind, value) = text /\ Valid(kind, text)
<1>1. Valid(kind, text) /\ value = ValueOf(kind, text) /\ IsText(text)
  BY VerdictsAre DEF IInv, Decided, Types
<1>2. CASE kind = "TimestampNs"
  <2>1. Canonical(text) /\ Number(text) <= TimestampMax
    BY <1>1, <1>2 DEF Valid, SchemaAccepts, Canonical
  <2>. QED  BY <1>1, <1>2, <2>1, CanonicalIsNumeral DEF ValueOf, Display
<1>3. CASE kind # "TimestampNs"  BY <1>1, <1>3 DEF ValueOf, Display
<1>. QED  BY <1>2, <1>3

LEMMA StepIInv == IInv /\ [Next]_vars => IInv'
<1> SUFFICES ASSUME IInv, [Next]_vars PROVE IInv'  OBVIOUS
<1>1. IsText(text) /\ Len(text) \in Nat /\ DOMAIN text = 1 .. Len(text) /\ at \in 0 .. Len(text) + 1
  BY TextIs DEF IInv, Types
<1>2. CASE Parse
  <2>1. verdict = Undecided  BY <1>2 DEF Parse
  <2>2. /\ ParseIdentifier(text) \in Errors \cup {Accepted}
        /\ ParseKey(text) \in Errors \cup {Accepted}
        /\ ParseTimestamp(text) \in Errors \cup {Accepted}
        /\ ParseDigest(text) \in Errors \cup {Accepted}
        /\ ParseUuid(text) \in Errors \cup {Accepted}
    BY DEF ParseIdentifier, ParseKey, ParseTimestamp, ParseDigest, ParseUuid, Errors
  <2>3. CASE kind = "Identifier" /\ Decide(ParseIdentifier(text))
    BY <1>1, <2>1, <2>2, <2>3, IdentifierVerdict, DecideIInv
  <2>4. CASE kind = "IdempotencyKey" /\ Decide(ParseKey(text))
    BY <1>1, <2>1, <2>2, <2>4, KeyVerdict, DecideIInv
  <2>5. CASE kind = "TimestampNs" /\ Decide(ParseTimestamp(text))
    BY <1>1, <2>1, <2>2, <2>5, TimestampVerdict, DecideIInv
  <2>6. CASE kind = "ContentDigest" /\ Decide(ParseDigest(text))
    BY <1>1, <2>1, <2>2, <2>6, DigestVerdict, DecideIInv
  <2>7. CASE kind = "Uuid" /\ Decide(ParseUuid(text))
    BY <1>1, <2>1, <2>2, <2>7, UuidVerdict, DecideIInv
  <2>. QED  BY <1>2, <2>3, <2>4, <2>5, <2>6, <2>7 DEF Parse
<1>3. ASSUME Scanning, at' \in 1 .. Len(text) + 1, UNCHANGED <<kind, text, verdict, value, origin>>,
             text # <<>> => Head(text) = "/",
             \A i \in 1 .. at' - 1 : text[i] = "~" => i < Len(text) /\ text[i + 1] \in {"0", "1"}
      PROVE  IInv'
  <2>1. Types'  BY <1>1, <1>3 DEF IInv, Types
  <2>2. Scanned'  BY <1>3 DEF Scanned
  <2>3. Decided'  BY <1>3 DEF IInv, Decided
  <2>4. Own'  BY <1>3 DEF IInv, Own
  <2>. QED  BY <2>1, <2>2, <2>3, <2>4 DEF IInv
<1>4. "FieldPathFormat" \in Errors /\ "FieldPathFormat" # Accepted  BY DEF Errors, Accepted
<1>5. CASE PathStart
  <2>1. Scanning /\ at = 0 /\ verdict = Undecided  BY <1>5 DEF PathStart, Scanning
  <2>2. CASE text # <<>> /\ Head(text) # "/"
    <3>1. Decide("FieldPathFormat")  BY <1>5, <2>2 DEF PathStart
    <3>2. ~Valid(kind, text)  BY <2>1, <2>2, PathVerdict
    <3>. QED  BY <1>4, <2>1, <3>1, <3>2, DecideIInv
  <2>3. CASE ~(text # <<>> /\ Head(text) # "/")
    <3>1. at' = 1 /\ UNCHANGED <<kind, text, verdict, value, origin>>  BY <1>5, <2>3 DEF PathStart
    <3>2. at' \in 1 .. Len(text) + 1 /\ \A i \in 1 .. at' - 1 : FALSE  BY <1>1, <3>1
    <3>. QED  BY <1>3, <2>1, <2>3, <3>1, <3>2
  <2>. QED  BY <2>2, <2>3
<1>6. CASE PathNext
  <2>1. Scanning /\ at \in 1 .. Len(text) /\ verdict = Undecided  BY <1>1, <1>6 DEF PathNext, Scanning
  <2>. DEFINE Bad == text[at] = "~" /\ ~(at < Len(text) /\ text[at + 1] \in {"0", "1"})
  <2>2. CASE Bad
    <3>1. Decide("FieldPathFormat")  BY <1>6, <2>2 DEF PathNext
    <3>2. ~Valid(kind, text)  BY <2>1, <2>2, PathVerdict
    <3>. QED  BY <1>4, <2>1, <3>1, <3>2, DecideIInv
  <2>3. CASE ~Bad
    <3>1. /\ at' = at + (IF text[at] = "~" THEN 2 ELSE 1)
          /\ UNCHANGED <<kind, text, verdict, value, origin>>
      BY <1>6, <2>3 DEF PathNext
    <3>2. /\ text # <<>> => Head(text) = "/"
          /\ \A i \in 1 .. at - 1 : text[i] = "~" => i < Len(text) /\ text[i + 1] \in {"0", "1"}
      BY <2>1 DEF IInv, Scanned
    <3>3. CASE text[at] = "~"
      <4>1. at < Len(text) /\ text[at + 1] \in {"0", "1"} /\ at' = at + 2  BY <2>3, <3>1, <3>3
      <4>2. at' \in 1 .. Len(text) + 1  BY <1>1, <2>1, <4>1
      <4>3. \A i \in 1 .. at' - 1 : i \in 1 .. at - 1 \/ i = at \/ i = at + 1  BY <2>1, <4>1
      <4>4. text[at + 1] # "~"  BY <4>1
      <4>5. \A i \in 1 .. at' - 1 : text[i] = "~" => i < Len(text) /\ text[i + 1] \in {"0", "1"}
        BY <3>2, <4>1, <4>3, <4>4
      <4>. QED  BY <1>3, <2>1, <3>1, <3>2, <4>2, <4>5
    <3>4. CASE text[at] # "~"
      <4>1. at' = at + 1  BY <3>1, <3>4
      <4>2. at' \in 1 .. Len(text) + 1  BY <1>1, <2>1, <4>1
      <4>3. \A i \in 1 .. at' - 1 : i \in 1 .. at - 1 \/ i = at  BY <2>1, <4>1
      <4>4. \A i \in 1 .. at' - 1 : text[i] = "~" => i < Len(text) /\ text[i + 1] \in {"0", "1"}
        BY <3>2, <3>4, <4>3
      <4>. QED  BY <1>3, <2>1, <3>1, <3>2, <4>2, <4>4
    <3>. QED  BY <3>3, <3>4
  <2>. QED  BY <2>2, <2>3
<1>7. CASE PathEnd
  <2>1. Scanning /\ at > Len(text) /\ Decide(Accepted) /\ verdict = Undecided  BY <1>7 DEF PathEnd, Scanning
  <2>2. Valid(kind, text)  BY <2>1, PathVerdict
  <2>. QED  BY <2>1, <2>2, DecideIInv
<1>8. CASE Emit
  <2>1. text' = text /\ Valid(kind, text)  BY <1>8, DisplayIs DEF Emit
  <2>2. at' = 0 /\ verdict' = Undecided /\ origin' = "emitted" /\ kind' = kind  BY <1>8 DEF Emit
  <2>3. Types'  BY <1>1, <2>1, <2>2 DEF IInv, Types
  <2>4. Scanned'  BY <2>2 DEF Scanned
  <2>5. Decided'  BY <2>2, VerdictsAre DEF Decided
  <2>6. Own'  BY <2>1, <2>2 DEF Own
  <2>. QED  BY <2>3, <2>4, <2>5, <2>6 DEF IInv
<1>9. CASE UNCHANGED vars
  BY <1>9 DEF vars, IInv, Types, Scanned, Decided, Own
<1>. QED  BY <1>2, <1>5, <1>6, <1>7, <1>8, <1>9 DEF Next

LEMMA Invariance == Spec => []IInv
BY InitIInv, StepIInv, PTL DEF Spec

-----------------------------------------------------------------------------
(* The properties.                                                         *)

\* Every variable keeps its type, and an accepted time is within u64.
THEOREM TypesHold == Spec => []ScalarsTypeOK
<1>1. ASSUME IInv PROVE ScalarsTypeOK
  <2>1. kind = "TimestampNs" /\ verdict = Accepted => value \in 0 .. TimestampMax
    <3> SUFFICES ASSUME kind = "TimestampNs", verdict = Accepted PROVE value \in 0 .. TimestampMax
      OBVIOUS
    <3>1. Valid(kind, text) /\ value = Number(text) /\ IsText(text)
      BY <1>1, VerdictsAre DEF IInv, Decided, Types, ValueOf
    <3>2. Canonical(text) /\ Number(text) <= TimestampMax
      BY <3>1 DEF Valid, SchemaAccepts, Canonical
    <3>. QED  BY <3>1, <3>2, CanonicalIsNumeral
  <2>. QED  BY <1>1, <2>1 DEF IInv, Types, ScalarsTypeOK
<1>. QED  BY <1>1, Invariance, PTL

\* parse accepts what the published pattern accepts, within the limits that a
\* pattern cannot state.
THEOREM PatternsAgree == Spec => []VerdictMatchesSchema
<1>1. IInv => VerdictMatchesSchema
  BY DEF IInv, Decided, Valid, VerdictMatchesSchema
<1>. QED  BY <1>1, Invariance, PTL

\* No two accepted texts are one identity, one time or one path.
THEOREM MeaningsDiffer == Spec => []OneTextPerMeaning
<1>1. ASSUME IInv, verdict = Accepted, NEW t \in Texts[kind], SchemaAccepts(kind, t),
             MeaningOf(kind, t) = MeaningOf(kind, text)
      PROVE  t = text
  <2>1. kind \in Kinds /\ IsText(text) /\ Valid(kind, text)
    BY <1>1, VerdictsAre DEF IInv, Types, Decided
  <2>2. IsText(t)
    <3>1. t \in Seq(STRING)  BY <2>1, ScalarsAssumption
    <3>. QED  BY <3>1, SeqIsText
  <2>3. SchemaAccepts(kind, text)  BY <2>1 DEF Valid
  <2>4. CASE kind = "Uuid"
    <3>1. SchemaUuid(t) /\ SchemaUuid(text)  BY <1>1, <2>3, <2>4 DEF SchemaAccepts
    <3>2. UuidDigits(t) = UuidDigits(text)  BY <1>1, <2>4 DEF MeaningOf
    <3>. QED  BY <2>1, <2>2, <3>1, <3>2, SchemaUuidIs
  <2>5. CASE kind = "TimestampNs"
    <3>1. Canonical(t) /\ Canonical(text) /\ Number(text) <= TimestampMax
      BY <1>1, <2>1, <2>2, <2>3, <2>5 DEF SchemaAccepts, Canonical, Valid
    <3>2. Number(t) = Number(text)  BY <1>1, <2>5 DEF MeaningOf
    <3>. QED  BY <3>1, <3>2, CanonicalIsNumeral
  <2>6. CASE kind = "FieldPath"
    <3>1. SchemaPath(t) /\ SchemaPath(text)  BY <1>1, <2>3, <2>6 DEF SchemaAccepts
    <3>2. Tokens(t) = Tokens(text)  BY <1>1, <2>6 DEF MeaningOf
    <3>. QED  BY <2>1, <2>2, <3>1, <3>2, PathsDiffer
  <2>7. CASE kind \notin {"Uuid", "TimestampNs", "FieldPath"}  BY <1>1, <2>7 DEF MeaningOf
  <2>. QED  BY <2>4, <2>5, <2>6, <2>7
<1>2. Spec => [](IInv /\ ScalarsTypeOK)  BY Invariance, TypesHold, PTL
<1>3. IInv /\ ScalarsTypeOK => OneTextPerMeaning  BY <1>1 DEF OneTextPerMeaning
<1>. QED  BY <1>2, <1>3, PTL

\* parse refuses nothing that a constructor or an accepted value writes.
THEOREM OwnTextsAccepted == Spec => []OwnTextsParse
<1>1. IInv => OwnTextsParse  BY DEF IInv, Own, Decided, OwnTextsParse
<1>. QED  BY <1>1, Invariance, PTL

\* A value that is read and written again keeps its text.
THEOREM TextsKept == Spec => TextPreserved
<1>1. ASSUME IInv, [Next]_vars, origin' = "emitted" PROVE text' = text
  <2>1. CASE Emit  BY <1>1, <2>1, DisplayIs DEF Emit
  <2>2. CASE Parse  BY <2>2 DEF Parse, Decide
  <2>3. CASE PathStart  BY <2>3 DEF PathStart, Decide
  <2>4. CASE PathNext  BY <2>4 DEF PathNext, Decide
  <2>5. CASE PathEnd  BY <2>5 DEF PathEnd, Decide
  <2>6. CASE UNCHANGED vars  BY <2>6 DEF vars
  <2>. QED  BY <1>1, <2>1, <2>2, <2>3, <2>4, <2>5, <2>6 DEF Next
<1>2. IInv /\ [Next]_vars => [origin' = "emitted" => text' = text]_vars  BY <1>1
<1>. QED  BY <1>2, Invariance, PTL DEF Spec, TextPreserved
==============================================================================
