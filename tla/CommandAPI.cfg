\* Two threads, two calls each: the smallest instance in which a thread waits
\* for the mutex with an old `now' while the other one sends twice, and in
\* which BurstBound has a period to talk about (four answers).
CONSTANTS
  Threads = {t1, t2}
  NoThread = NoThread
  Delay = 2
  MaxCalls = 2
  MaxClock = 3
SPECIFICATION FairSpec
INVARIANTS CommandTypeOK SerialExchanges BurstBound
PROPERTIES RetryDiscipline EveryCallEnds ImplementsPacedLink
