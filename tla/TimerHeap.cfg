CONSTANTS
  t1 = t1
  t2 = t2
  t3 = t3
  t4 = t4
  MaxTime = 1
  NULL = NULL
  MaxCap = 4
  Timers <- MCTimers
  Caps <- MCCaps
  Time <- MCTime
SPECIFICATION Spec
SYMMETRY Symmetry
INVARIANTS IInv
PROPERTIES TickDrains RefinesTimerSet
