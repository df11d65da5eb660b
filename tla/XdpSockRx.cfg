\* Three ring slots, batches of two, five packets.
SPECIFICATION Spec
CONSTANTS
  NumFrames = 4
  NumDescs = 3
  BatchSize = 2
  MaxPackets = 5
INVARIANTS
  TypeOK
  FramesOwnedOnce
  FillNeverOverflows
  RxFullOnlyBeforeRelease
PROPERTIES
  PrintsWhatWasPosted
  EveryPostedPacketPrinted
  KernelIsWoken
\* The program stops when the umem or the socket cannot be created.
CHECK_DEADLOCK FALSE
