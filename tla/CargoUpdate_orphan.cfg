SPECIFICATION Spec
CONSTANTS
  full = full
  restricted = restricted
  l1 = l1
  Updaters = {full, restricted}
  Locks = {l1, l2}
  LocksOf <- MCLocksOf
  ExplicitOf <- MCExplicitOf
  Faults = {"terminate"}
  Base = base
  Free = free
  NoChild = nochild
  NoCopy = nocopy
INVARIANT OnlyCommittedWork
\* Each updater is invoked once: the system stops.
CHECK_DEADLOCK FALSE
