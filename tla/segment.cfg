CONSTANTS
  t1 = t1
  t2 = t2
  t3 = t3
  m1 = m1
  m2 = m2
  Threads = {t1, t2, t3}
  Items = {m1, m2}
  NoItem = NoItem
  Nobody = Nobody
  Shapes <- SmallShapes
SPECIFICATION MCSpec
INVARIANTS
  TypeOK
  OnePlace
  Initialized
  FreeGated
  RestExact
  FullIsClosed
  DropsAll
  IInv
PROPERTIES
  StaysEmpty
  FifoSpec
