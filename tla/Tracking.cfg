SPECIFICATION Spec
CONSTANTS
  Devices = {d1}
  Links = {k1}
  Stores = {s1, s2}
  Subs = {r1, r2}
  Sockets = {w1, w2}
  MaxCounts = {1}
  Ages = {TRUE}
  None = None
SYMMETRY RequestSymmetry
INVARIANTS Retention WatchersMissNothingElse
PROPERTIES RevokedLinksAreSilent
CHECK_DEADLOCK FALSE
