CONSTANTS
  t1 = t1
  t2 = t2
  t3 = t3
  m1 = m1
  m2 = m2
  Threads = {t1, t2, t3}
  Items = {m1, m2}
  NoItem = NoItem
  MaxCalls = 7
SYMMETRY Symmetry
SPECIFICATION MCSpec
INVARIANTS
  Exclusive
  Initialized
  Settled
  ReadAfterWrite
