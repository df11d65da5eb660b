\* The batch of the code: one packet.
SPECIFICATION Spec
CONSTANTS
  NumFrames = 4
  NumDescs = 2
  BatchSize = 1
INVARIANT SendsPackets
CHECK_DEADLOCK FALSE
