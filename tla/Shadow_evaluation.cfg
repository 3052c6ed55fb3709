SPECIFICATION FairShadowSpec
CONSTANTS
  slow = slow
  slower = slower
  p = p
  x = x
  Baseline = baseline
  Candidate = candidate
  NoDifference = nodifference
  Runs = {baseline, candidate}
  PositionIds = {p, q}
  InstrumentIds = {i}
  Quantities = {x, y}
  Proposals <- MCProposals
  Messages <- MCMessages
  TimeoutMessage <- MCTimeoutMessage
  MaxClock = 1
  MaxMoves = 1
  Faults = {"drop_panic", "cancel", "clock_back"}
  NotReady = notready
  NoOutcome = nooutcome
INVARIANTS OutcomeFaithful ReadyBeatsTimeout NothingDetached MatchIsEquality
PROPERTY EvaluationEnds
\* The evaluation happens once: the system stops.
CHECK_DEADLOCK FALSE
