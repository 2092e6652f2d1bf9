CONSTANTS
  Waiters = {t1, t2}
  Signallers = {s1, s2}
  Timed = FALSE
  Kinds = {TRUE, FALSE}
  GoneLimit = 3
SPECIFICATION FairSpec
INVARIANT SignalFindsWaiters
PROPERTIES ImplementsCondVar GrantsAreTaken GateOpens
