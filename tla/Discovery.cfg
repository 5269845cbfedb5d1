CONSTANTS
  Daemons = {d1, d2}
  NoAddr = NoAddr
  Builds = {TRUE, FALSE}
SYMMETRY Symmetry
SPECIFICATION Spec
INVARIANTS IInv NeverAlive 
PROPERTIES StaysForgotten RefinesRendezvous
