CONSTANTS
  Numbers8 <- MCNumbers8
  Numbers16 <- MCNumbers16
  Numbers32 <- MCNumbers32
  Raws <- MCRaws
  MaxFields = 3
SPECIFICATION Spec
INVARIANTS RoundTrip IInv
