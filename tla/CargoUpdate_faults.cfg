SPECIFICATION FairSpec
CONSTANTS
  full = full
  restricted = restricted
  l1 = l1
  Updaters = {full, restricted}
  Locks = {l1, l2}
  LocksOf <- MCLocksOf
  ExplicitOf <- MCExplicitOf
  Faults = {"fail", "rmdir", "interrupt", "terminate", "kill"}
  Base = base
  Free = free
  NoChild = nochild
  NoCopy = nocopy
INVARIANTS LockHeldThroughout OnlyOrphansEscape DatabaseMatchesLocks
PROPERTY LockReleased
\* Each updater is invoked once: the system stops.
CHECK_DEADLOCK FALSE
