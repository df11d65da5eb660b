\* The five monitors; three events and a queue of one.
SPECIFICATION Spec
CONSTANTS
  Programs = {"ifaddrs", "ifevents", "ifflags", "ifrtas", "ifstats"}
  BufWords = 14
  QueueSize = 1
  MaxEvents = 3
  MaxLinks = 0
  MaxChanges = 0
  Contents <- MCEventContents
  Junk <- MCJunk
INVARIANTS
  TypeOK
  AllAttributesPrinted
  OverreadIsOneHeader
PROPERTIES
  HandlesWhatWasSent
  EventsAreHandled
  FailedSocketEnds
\* A monitor ends after an error.
CHECK_DEADLOCK FALSE
