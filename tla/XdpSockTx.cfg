\* A batch of four on rings of five slots.
SPECIFICATION Spec
CONSTANTS
  NumFrames = 6
  NumDescs = 5
  BatchSize = 4
INVARIANTS
  TypeOK
  BatchIsSubmittedOnce
  OnlyPreparedFramesSent
PROPERTY Terminates
\* The program ends.
CHECK_DEADLOCK FALSE
