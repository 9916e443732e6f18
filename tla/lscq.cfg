CONSTANTS
  t1 = t1
  t2 = t2
  t3 = t3
  Threads = {t1, t2, t3}
  Starts <- SmallStarts
SYMMETRY Symmetry
SPECIFICATION MCSpec
INVARIANTS
  TypeOK
  IInv
  LockFree
  CallInv
  LeftEmpty
  HeadKept
  Protected
  NoLeak
  LengthCovers
PROPERTY QueueFifo
