\* The daemon as built and the daemon with both threads on one socket.
SPECIFICATION FairSpec
CONSTANTS
  Builds = {TRUE, FALSE}
  Clients = {c1, c2}
  NoAddr = NoAddr
  MaxInbox = 1
  ShortSent = FALSE
INVARIANTS IInv  OnlyAskersServed AloneNeverWaits
PROPERTIES SmcStops
