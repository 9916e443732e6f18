CONSTANTS
  t1 = t1
  t2 = t2
  t3 = t3
  Threads = {t1, t2, t3}
  Half = 1
  Mode = 1
  Full = FALSE
  MaxAttempt = 1
  MaxDequeuers = 2
  MaxCalls = 6
  AloneCalls = 0
  ClosedCalls = 5
  RefillCalls = 0
  Width = 7
  Bases = {28, 60, 124}
SYMMETRY Symmetry
SPECIFICATION MCSpec
INVARIANTS
  TypeOK
  NoOrphan
  NegativeMeansEmpty
  ThresholdFloor
  Drained
  ClosedInv
  WordsAgree
PROPERTIES
  TicketsFresh
  RefillFinds
