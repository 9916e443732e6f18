CONSTANTS
  t1 = t1
  t2 = t2
  t3 = t3
  Threads = {t1, t2, t3}
  Half = 2
  Mode = 1
  Full = TRUE
  MaxAttempt = 0
  MaxDequeuers = 2
  MaxCalls = 5
  AloneCalls = 2
  ClosedCalls = 5
  RefillCalls = 3
  Width = 7
  Bases = {124}
SYMMETRY Symmetry
SPECIFICATION MCSpec
INVARIANTS
  Ownership
  IInv
  ReachInv
  CallInv
  WordsAgree
PROPERTY FifoSpec
