SPECIFICATION Spec
CONSTANTS
  pos = pos
  other = other
  inst = inst
  foreign = foreign
  PositionIds = {pos, other}
  InstrumentIds = {inst, foreign}
  Quantities = {1, 2}
  Times = {1, 2}
  Drafts <- AllDrafts
  Now = {2, 3}
  Ids = {3}
  Digests <- MCDigests
  MaxEdits = 1
  NoReport = noreport
  FixturePosition = pos
  FixtureInstrument = inst
  ZeroDigest = zeros
  Settings <- MCSettings
  MaxSets = 2
INVARIANTS ClearIsReduction RequestNamesChecked ExpiryAgrees PartialOmissionDisclosed
  PolicyProposalFits FixturesSpeakTrue
PROPERTY BuildJudgesContent
\* A review makes at most one report and one request.
CHECK_DEADLOCK FALSE
