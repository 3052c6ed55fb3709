SPECIFICATION FairSpec
CONSTANTS
  DecimalDigit = {0, 1, 5}
  MaxInteger = 2
  MaxFraction = 3
  MaxPrecision = 2
  NoAnswer = noanswer
INVARIANTS OrderExact LongDivision MultipleExact
PROPERTY Answers
\* The computation ends.
CHECK_DEADLOCK FALSE
