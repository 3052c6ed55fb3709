------------------------------- MODULE Scalars -------------------------------
(***************************************************************************)
(* The checked text types of the protocol (src/protocol/value.rs and       *)
(* identity.rs, Quantity excepted, see Decimal): a text comes from JSON or *)
(* from a constructor, parse accepts or refuses it, an accepted value is   *)
(* written out again.  Each type also publishes a JSON Schema pattern,     *)
(* which other implementations check instead of this code.                 *)
(*                                                                         *)
(* A text is a sequence of characters; "e_acute" stands for any letter of  *)
(* two bytes, "nul", "del" and "nel" for the controls of one and of two    *)
(* bytes, and a prefix that is compared as a whole is one character.       *)
(***************************************************************************)
EXTENDS Integers, FiniteSets, Sequences, Functions

CONSTANTS
  Texts,                 \* the texts to try, a function of the kind
  IDENTIFIER_MAX_BYTES,  \* 255
  KEY_MAX_BYTES,         \* 128
  TimestampMax,          \* u64::MAX
  HashBytes,             \* 32
  HashByte,              \* the bytes of a hash, among 0 .. 255
  UuidLength,            \* 32 digits
  Hyphens,               \* their places in the text of a UUID, {9, 14, 19, 24}
  UuidDigit              \* the digits of a random UUID, among the hexadecimal ones

VARIABLES kind, text, at, verdict, value, origin

vars == <<kind, text, at, verdict, value, origin>>

Kinds == {"Identifier", "IdempotencyKey", "TimestampNs", "ContentDigest", "Uuid", "FieldPath"}

Accepted == "accepted"
Undecided == "undecided"

Errors ==
  {"EmptyIdentifier", "IdentifierTooLong", "IdentifierControlCharacter", "EmptyTimestamp",
   "TimestampFormat", "TimestampRange", "DigestFormat", "FieldPathFormat", "InvalidUuid",
   "EmptyIdempotencyKey", "IdempotencyKeyTooLong", "NonAsciiIdempotencyKey"}

-----------------------------------------------------------------------------
(* Characters.                                                             *)

Bytes(ch) ==
  CASE ch \in {"e_acute", "nel"} -> 2
    [] ch = "sha256:" -> 7
    [] OTHER -> 1

IsControl(ch) == ch \in {"nul", "del", "nel"}

\* The bytes of the first n characters.
LeadingBytes(t) ==
  LET bytes[n \in 0 .. Len(t)] == IF n = 0 THEN 0 ELSE bytes[n - 1] + Bytes(t[n])
  IN bytes

ByteLength(t) == LeadingBytes(t)[Len(t)]

HexDigits == <<"0", "1", "2", "3", "4", "5", "6", "7", "8", "9", "a", "b", "c", "d", "e", "f">>
Decimals == {HexDigits[i] : i \in 1 .. 10}
LowerHex == {HexDigits[i] : i \in 1 .. 16}
DigitValue == [ch \in Decimals |-> CHOOSE n \in 0 .. 9 : HexDigits[n + 1] = ch]

UpperHex == <<"A", "B", "C", "D", "E", "F">>
IsHex(ch) == ch \in LowerHex \cup {UpperHex[i] : i \in 1 .. 6}
Lowered(ch) ==
  IF ch \in LowerHex THEN ch ELSE HexDigits[10 + CHOOSE i \in 1 .. 6 : UpperHex[i] = ch]

ASSUME ScalarsAssumption ==
  /\ DOMAIN Texts = Kinds /\ \A k \in Kinds : \A t \in Texts[k] : t \in Seq(STRING)
  /\ IDENTIFIER_MAX_BYTES \in Nat /\ KEY_MAX_BYTES \in Nat /\ TimestampMax \in Nat
  /\ HashBytes \in Nat /\ HashByte \subseteq 0 .. 255
  /\ UuidLength \in Nat /\ IsFiniteSet(Hyphens) /\ UuidDigit \subseteq LowerHex
  /\ Hyphens \subseteq 1 .. UuidLength + Cardinality(Hyphens)

-----------------------------------------------------------------------------
(* The checks: the early returns of each parse, in their order.            *)

ParseIdentifier(t) ==
  IF t = <<>> THEN "EmptyIdentifier"
  ELSE IF ByteLength(t) > IDENTIFIER_MAX_BYTES THEN "IdentifierTooLong"
  ELSE IF \E ch \in Range(t) : IsControl(ch) THEN "IdentifierControlCharacter"
  ELSE Accepted

ParseKey_AnyByte(t) ==
  IF t = <<>> THEN "EmptyIdempotencyKey"
  ELSE IF ByteLength(t) > KEY_MAX_BYTES THEN "IdempotencyKeyTooLong"
  ELSE Accepted

ParseKey(t) ==
  IF t = <<>> THEN "EmptyIdempotencyKey"
  ELSE IF ByteLength(t) > KEY_MAX_BYTES THEN "IdempotencyKeyTooLong"
  ELSE IF \E ch \in Range(t) : Bytes(ch) # 1 THEN "NonAsciiIdempotencyKey"
  ELSE Accepted

IsNumeral(t) == t # <<>> /\ Range(t) \subseteq Decimals

\* str::parse::<u64>, before its overflow check: the number of the first n digits.
LeadingNumber(t) ==
  LET number[n \in 0 .. Len(t)] == IF n = 0 THEN 0 ELSE 10 * number[n - 1] + DigitValue[t[n]]
  IN number

Number(t) == LeadingNumber(t)[Len(t)]

ParseTimestamp_LeadingZero(t) ==
  IF t = <<>> THEN "EmptyTimestamp"
  ELSE IF ~IsNumeral(t) THEN "TimestampFormat"
  ELSE IF Number(t) > TimestampMax THEN "TimestampRange"
  ELSE Accepted

ParseTimestamp(t) ==
  IF t = <<>> THEN "EmptyTimestamp"
  ELSE IF ~IsNumeral(t) \/ (Len(t) > 1 /\ Head(t) = "0") THEN "TimestampFormat"
  ELSE IF Number(t) > TimestampMax THEN "TimestampRange"
  ELSE Accepted

ParseDigest(t) ==
  IF /\ ByteLength(t) = 7 + 2 * HashBytes
     /\ t # <<>> /\ Head(t) = "sha256:"
     /\ Range(Tail(t)) \subseteq LowerHex
  THEN Accepted ELSE "DigestFormat"

\* The digits of a UUID in hyphenated form.
HyphenatedLength == UuidLength + Cardinality(Hyphens)
HyphensUpTo(i) == Cardinality(Hyphens \cap 1 .. i)
Hyphenated(digits) ==
  [i \in 1 .. HyphenatedLength |-> IF i \in Hyphens THEN "-" ELSE digits[i - HyphensUpTo(i)]]

\* The digits that a text holds, in its first n characters.
LeadingDigits(t) ==
  LET digits[n \in 0 .. Len(t)] ==
        IF n = 0 THEN <<>>
        ELSE IF IsHex(t[n]) THEN Append(digits[n - 1], Lowered(t[n])) ELSE digits[n - 1]
  IN digits

UuidDigits(t) == LeadingDigits(t)[Len(t)]

\* Uuid::parse_str reads simple, hyphenated, braced and URN forms in any case.
UuidShapes ==
  LET simple == [i \in 1 .. UuidLength |-> "digit"]
      hyphenated == Hyphenated(simple) IN
  {simple, hyphenated, <<"{">> \o hyphenated \o <<"}">>, <<"urn:uuid:">> \o hyphenated}

HasShape(t, shape) ==
  /\ Len(t) = Len(shape)
  /\ \A i \in DOMAIN t : IF shape[i] = "digit" THEN IsHex(t[i]) ELSE t[i] = shape[i]

ReadableUuid(t) == \E shape \in UuidShapes : HasShape(t, shape)

ParseUuid_AnyForm(t) == IF ReadableUuid(t) THEN Accepted ELSE "InvalidUuid"

ParseUuid(t) ==
  IF ReadableUuid(t) /\ Hyphenated(UuidDigits(t)) = t THEN Accepted ELSE "InvalidUuid"

-----------------------------------------------------------------------------
(* What the constructors write.                                            *)

HexDigit(n) == HexDigits[n + 1]

HexByte_Unpadded(b) == IF b < 16 THEN <<HexDigit(b)>> ELSE <<HexDigit(b \div 16), HexDigit(b % 16)>>
HexByte(b) == <<HexDigit(b \div 16), HexDigit(b % 16)>>

\* The text after n of the bytes.
LeadingHex(bytes) ==
  LET hex[n \in 0 .. HashBytes] == IF n = 0 THEN <<"sha256:">> ELSE hex[n - 1] \o HexByte(bytes[n])
  IN hex

DigestOf(bytes) == LeadingHex(bytes)[HashBytes]

\* u64's Display.
Numeral[n \in 0 .. TimestampMax] ==
  IF n < 10 THEN <<HexDigit(n)>> ELSE Append(Numeral[n \div 10], HexDigit(n % 10))

\* TimestampNs is kept as a number, every other type as its text.
ValueOf(k, t) == IF k = "TimestampNs" THEN Number(t) ELSE t
Display(k, v) == IF k = "TimestampNs" THEN Numeral[v] ELSE v

-----------------------------------------------------------------------------
(* The specification.                                                      *)

\* A text from JSON (FromStr and Deserialize call parse), or from a constructor
\* that does not call it: TimestampNs::new, ContentDigest::new, new for UUIDs.
Init ==
  /\ at = 0 /\ verdict = Undecided /\ value = <<>>
  /\ \/ /\ origin = "foreign"
        /\ kind \in Kinds /\ text \in Texts[kind]
     \/ /\ origin = "constructed"
        /\ \/ /\ kind = "TimestampNs"
              /\ \E n \in 0 .. TimestampMax : text = Display(kind, n)
           \/ /\ kind = "ContentDigest"
              /\ \E bytes \in [1 .. HashBytes -> HashByte] : text = DigestOf(bytes)
           \/ /\ kind = "Uuid"
              /\ \E digits \in [1 .. UuidLength -> UuidDigit] : text = Hyphenated(digits)

Decide(v) ==
  /\ verdict' = v
  /\ value' = IF v = Accepted THEN ValueOf(kind, text) ELSE value
  /\ UNCHANGED <<kind, text, at, origin>>

Parse ==
  /\ verdict = Undecided
  /\ \/ kind = "Identifier" /\ Decide(ParseIdentifier(text))
     \/ kind = "IdempotencyKey" /\ Decide(ParseKey(text))
     \/ kind = "TimestampNs" /\ Decide(ParseTimestamp(text))
     \/ kind = "ContentDigest" /\ Decide(ParseDigest(text))
     \/ kind = "Uuid" /\ Decide(ParseUuid(text))

Scanning == kind = "FieldPath" /\ verdict = Undecided

PathStart ==
  /\ Scanning /\ at = 0
  /\ IF text # <<>> /\ Head(text) # "/"
     THEN Decide("FieldPathFormat")
     ELSE at' = 1 /\ UNCHANGED <<kind, text, verdict, value, origin>>

\* The loop over chars, which takes two when the first is a tilde.
PathNext ==
  /\ Scanning /\ at \in DOMAIN text
  /\ IF text[at] = "~" /\ ~(at < Len(text) /\ text[at + 1] \in {"0", "1"})
     THEN Decide("FieldPathFormat")
     ELSE /\ at' = at + (IF text[at] = "~" THEN 2 ELSE 1)
          /\ UNCHANGED <<kind, text, verdict, value, origin>>

PathEnd == Scanning /\ at > Len(text) /\ Decide(Accepted)

\* An accepted value is serialized, and read by the next process.
Emit ==
  /\ verdict = Accepted /\ origin # "emitted"
  /\ origin' = "emitted"
  /\ text' = Display(kind, value)
  /\ at' = 0 /\ verdict' = Undecided /\ value' = <<>>
  /\ UNCHANGED kind

Next == Parse \/ PathStart \/ PathNext \/ PathEnd \/ Emit

Spec == Init /\ [][Next]_vars

-----------------------------------------------------------------------------
(* The published patterns.                                                 *)

SchemaIdentifier(t) ==
  Len(t) \in 1 .. IDENTIFIER_MAX_BYTES /\ \A ch \in Range(t) : ~IsControl(ch)

SchemaKey(t) == Len(t) \in 1 .. KEY_MAX_BYTES /\ \A ch \in Range(t) : Bytes(ch) = 1

SchemaTimestamp(t) == IsNumeral(t) /\ (Head(t) = "0" => Len(t) = 1)

SchemaDigest(t) ==
  Len(t) = 1 + 2 * HashBytes /\ Head(t) = "sha256:" /\ Range(Tail(t)) \subseteq LowerHex

SchemaUuid(t) ==
  /\ Len(t) = HyphenatedLength
  /\ \A i \in DOMAIN t : IF i \in Hyphens THEN t[i] = "-" ELSE t[i] \in LowerHex

SchemaPath(t) ==
  /\ t # <<>> => Head(t) = "/"
  /\ \A i \in DOMAIN t : t[i] = "~" => i < Len(t) /\ t[i + 1] \in {"0", "1"}

SchemaAccepts(k, t) ==
  CASE k = "Identifier" -> SchemaIdentifier(t)
    [] k = "IdempotencyKey" -> SchemaKey(t)
    [] k = "TimestampNs" -> SchemaTimestamp(t)
    [] k = "ContentDigest" -> SchemaDigest(t)
    [] k = "Uuid" -> SchemaUuid(t)
    [] k = "FieldPath" -> SchemaPath(t)

-----------------------------------------------------------------------------
(* Properties.                                                             *)

\* Every variable keeps its type, and each kind of text only meets errors of
\* its own type.
ScalarsTypeOK ==
  /\ kind \in Kinds
  /\ at \in 0 .. Len(text) + 1
  /\ verdict \in Errors \cup {Accepted, Undecided}
  /\ kind = "TimestampNs" /\ verdict = Accepted => value \in 0 .. TimestampMax

\* What a pointer names (RFC 6901): its tokens in one sequence, in which each
\* begins with a mark of its own; "~1" is "/" and "~0" is "~".
LeadingTokens(t) ==
  LET tokens[n \in 0 .. Len(t)] ==
        IF n = 0 THEN <<>>
        ELSE IF t[n] = "~" THEN tokens[n - 1]
        ELSE IF n > 1 /\ t[n - 1] = "~"
          THEN Append(tokens[n - 1], <<"holds", IF t[n] = "1" THEN "/" ELSE "~">>)
        ELSE Append(tokens[n - 1], <<IF t[n] = "/" THEN "begins" ELSE "holds", t[n]>>)
  IN tokens

Tokens(t) == LeadingTokens(t)[Len(t)]

\* What a text means to another implementation: two texts with the same meaning
\* are the same request, digest or field.
MeaningOf(k, t) ==
  CASE k = "Uuid" -> UuidDigits(t)
    [] k = "TimestampNs" -> Number(t)
    [] k = "FieldPath" -> Tokens(t)
    [] OTHER -> t

\* parse and the published pattern agree on every text, but for what a JSON
\* Schema cannot say of these types: a length in bytes, and the range of u64.
VerdictMatchesSchema ==
  verdict # Undecided =>
    (verdict = Accepted <=>
       /\ SchemaAccepts(kind, text)
       /\ kind = "Identifier" => ByteLength(text) <= IDENTIFIER_MAX_BYTES
       /\ kind = "TimestampNs" => Number(text) <= TimestampMax)

\* Identities, times and paths are compared and hashed by their text, so no two
\* accepted texts have one meaning.
OneTextPerMeaning ==
  /\ ScalarsTypeOK
  /\ verdict = Accepted =>
    \A t \in Texts[kind] : SchemaAccepts(kind, t) /\ MeaningOf(kind, t) = MeaningOf(kind, text) =>
      t = text

\* The constructors bypass parse: nothing they write is refused by it, nor by
\* the process that reads what this one has read.
OwnTextsParse == origin # "foreign" => verdict \in {Undecided, Accepted}

\* A value that is read and written again keeps its text, without which the
\* digest of the object that holds it would change.
TextPreserved == [][origin' = "emitted" => text' = text]_vars

\* The published pattern alone decides.
SchemaDecides ==
  verdict # Undecided /\ SchemaAccepts(kind, text) => verdict = Accepted
==============================================================================
