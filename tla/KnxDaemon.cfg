CONSTANTS
  MaxQueue = 2
  MaxTimers = 2
  MaxInbox = 1
SPECIFICATION FairSpec
INVARIANTS IInv RxqExclusive DiscoveryFirst
PROPERTIES TimerKept TtyStops DaemonStops
