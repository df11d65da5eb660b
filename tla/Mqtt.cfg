\* Two publishers and two subscribers.
SPECIFICATION Spec
CONSTANTS
  Pubs = {p1, p2}
  Subs = {s1, s2}
  MaxFaults = 2
  MaxDown = 1
INVARIANTS TypeOK AtMostOnce ZeroMeansWritten PrintsWhatWasWritten
PROPERTIES PubEnds SubStays
CHECK_DEADLOCK FALSE
