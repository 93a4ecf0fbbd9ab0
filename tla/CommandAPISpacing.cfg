\* The documented spacing, with one thread only: no interleaving is needed.
CONSTANTS
  Threads = {t1}
  NoThread = NoThread
  Delay = 2
  MaxCalls = 3
  MaxClock = 3
SPECIFICATION Spec
INVARIANTS DocumentedSpacing
