SPECIFICATION Spec
CONSTANTS
  Callers = {c1, c2}
  Records = {r1, r2, r3}
  Calls <- TraceCalls
  Faults = {"io", "kill", "power"}
  Original = original
  Absent = absent
  NoRecord = norecord
  NoCall = nocall
  NoRedactor = noredactor
  RedactionError = redactionerror
  NoPayload = nopayload
INVARIANTS TypeOK TargetWhole FailedNeverAppears PriorKept TempsAccounted
\* The number of calls is bounded by Records: the system stops when all have ended.
CHECK_DEADLOCK FALSE
