\* get-links; up to three links, two of them coming or going during the dump.
SPECIFICATION Spec
CONSTANTS
  Programs = {"getlinks"}
  BufWords = 22
  QueueSize = 2
  MaxEvents = 0
  MaxLinks = 3
  MaxChanges = 2
  Contents <- MCLinkContents
  Junk <- MCJunk
INVARIANTS
  PhantomsAreStale
  DumpIsComplete
PROPERTIES
  HandlesWhatWasSent
  AnswerEndsGetLinks
\* get-links ends.
CHECK_DEADLOCK FALSE
