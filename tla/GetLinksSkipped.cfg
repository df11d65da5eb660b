\* get-links on a kernel that resumes a dump by position; one link goes.
SPECIFICATION PositionSpec
CONSTANTS
  Programs = {"getlinks"}
  BufWords = 22
  QueueSize = 2
  MaxEvents = 0
  MaxLinks = 3
  MaxChanges = 1
  Contents <- MCLinkContents
  Junk <- MCJunk
INVARIANT ListsEveryLink
CHECK_DEADLOCK FALSE
