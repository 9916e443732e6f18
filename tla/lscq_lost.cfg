CONSTANTS
  t1 = t1
  t2 = t2
  t3 = t3
  Threads = {t1, t2, t3}
  Starts <- FreshStart
SYMMETRY Symmetry
SPECIFICATION MCSpec
PROPERTY NothingAdded
