SPECIFICATION Spec
CONSTANTS
  Revisions = {"base", "evolved", "dropped", "inconsistent", "drifted"}
  First = "base"
  Tree <- MCTree
  Meaning <- MCMeaning
  Slots = {r1, r2}
  MaxRuns = 3
  MaxEdits = 1
  Faults = TRUE
  Missing = missing
  Torn = torn
SYMMETRY SlotSymmetry
INVARIANTS VerdictExact NeverMixed DeclaredAlike TestExact DigestFlagsTrue
\* Invocations and edits are bounded.
CHECK_DEADLOCK FALSE
