CONSTANTS
  MAX_QUEUE_SIZE = 3
  tty = tty
  socket = socket
  timer = timer
  p1 = p1
  p2 = p2
  NULL = NULL
  RETRIEVE = RETRIEVE
  Threads <- MCThreads
  Data <- MCData
SPECIFICATION Spec
SYMMETRY Symmetry
INVARIANTS IInv
PROPERTY RefinesFifo
