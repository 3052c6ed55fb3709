SPECIFICATION Spec
CONSTANTS
  Texts <- MCTexts
  IDENTIFIER_MAX_BYTES = 4
  KEY_MAX_BYTES = 4
  TimestampMax = 63
  HashBytes = 2
  HashByte <- MCHashByte
  UuidLength = 3
  Hyphens = {3}
  UuidDigit = {"0", "9", "a", "f"}
INVARIANT SchemaDecides
\* A text is parsed at most twice.
CHECK_DEADLOCK FALSE
