\* Frames of every rate and program, with and without RSSI, back to back or
\* apart.
SPECIFICATION TtyFairSpec
CONSTANTS
  Frames <- MCFrames
  MaxFrames = 2
INVARIANTS InStep FramesWhole CrashesAtHeader
PROPERTIES FramesQueued
