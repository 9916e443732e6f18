CONSTANTS
  t1 = t1
  t2 = t2
  t3 = t3
  t4 = t4
  Threads = {t1, t2, t3, t4}
  Half = 1
  Mode = 0
  Full = FALSE
  MaxAttempt = 0
  MaxDequeuers = 3
  MaxCalls = 6
SYMMETRY Symmetry
SPECIFICATION MCSpec
INVARIANT NegativeMeansEmpty
