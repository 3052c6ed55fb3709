SPECIFICATION Spec
CONSTANTS
  Callers = {c1}
  Records = {r1, r2}
  Calls <- SomeCalls
  Faults = {"io", "kill", "power"}
  Original = original
  Absent = absent
  NoRecord = norecord
  NoCall = nocall
  NoRedactor = noredactor
  RedactionError = redactionerror
  NoPayload = nopayload
INVARIANT NothingForbiddenOnDisk
PROPERTY ImplementsAppendLog
\* The number of calls is bounded by Records: the system stops when all have ended.
CHECK_DEADLOCK FALSE
