CONSTANTS
  Waiters = {t1}
  Signallers = {s1, s2}
  Timed = TRUE
  Kinds = {TRUE, FALSE}
  GoneLimit = 3
SPECIFICATION TimedSpec
INVARIANTS TypeOK SignalFindsWaiters DrainEnds
PROPERTY WaitReturns
