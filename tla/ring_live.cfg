CONSTANTS
  t1 = t1
  t2 = t2
  Threads = {t1, t2}
  Half = 1
  Mode = 1
  Full = TRUE
  MaxAttempt = 1
  MaxDequeuers = 2
  MaxCalls = 4
SPECIFICATION MCFairSpec
PROPERTY Termination
