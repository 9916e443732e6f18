CONSTANTS
  Width = 10
  Sizes = {1, 2, 4, 6, 8, 10}
SPECIFICATION Spec
INVARIANT FreshQueueFills
CHECK_DEADLOCK FALSE
