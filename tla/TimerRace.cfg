CONSTANTS
  Timers = {t1, t2, t3, t4}
  NULL = NULL
  Capacity = 1
  MaxArms = 2
SPECIFICATION Spec
INVARIANTS IInv UnlessOverlapped
PROPERTIES SizeKept TickReturns
