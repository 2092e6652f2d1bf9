CONSTANTS
  Waiters = {t1, t2, t3}
  Signallers = {s1}
  Timed = TRUE
  Kinds = {TRUE, FALSE}
  GoneLimit = 1000
SPECIFICATION Spec
INVARIANT DrainEnds
SYMMETRY Symmetry
