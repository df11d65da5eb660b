\* if-rtas alone, two events.
SPECIFICATION Spec
CONSTANTS
  Programs = {"ifrtas"}
  BufWords = 14
  QueueSize = 1
  MaxEvents = 2
  MaxLinks = 0
  MaxChanges = 0
  Contents <- MCEventContents
  Junk <- MCJunk
INVARIANT PrintsAttributesOfEvent
CHECK_DEADLOCK FALSE
