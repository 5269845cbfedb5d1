CONSTANTS
  MaxQueue = 2
  MaxTimers = 2
  MaxInbox = 1
SPECIFICATION Spec
INVARIANT OnlyRequestTimed
