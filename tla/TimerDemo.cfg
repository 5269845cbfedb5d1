CONSTANTS
  InitTime = 2
  MaxNow = 23
SPECIFICATION DemoFairSpec
INVARIANTS
  InOrder
PROPERTIES
  AllFire
