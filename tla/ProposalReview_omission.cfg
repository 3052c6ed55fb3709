SPECIFICATION Spec
CONSTANTS
  pos = pos
  other = other
  inst = inst
  foreign = foreign
  PositionIds = {pos}
  InstrumentIds = {inst, foreign}
  Quantities = {1, 2}
  Times = {1, 2}
  Drafts <- RootDrafts
  Now = {2, 3}
  Ids = {3}
  Digests <- MCDigests
  MaxEdits = 0
  NoReport = noreport
  FixturePosition = pos
  FixtureInstrument = inst
  ZeroDigest = zeros
  Settings <- MCSettings
  MaxSets = 0
INVARIANT NeededDataDisclosed
\* A review makes at most one report and one request.
CHECK_DEADLOCK FALSE
