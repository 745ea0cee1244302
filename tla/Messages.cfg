\* Two friends, two messages stored, each of which may be sent again, at times in two
\* milliseconds; two of four requests in flight, and one client reading page by page.
SPECIFICATION Spec
CONSTANTS
  hunter1 = hunter1
  hunter2 = hunter2
  c1 = c1
  c2 = c2
  s1 = s1
  s2 = s2
  Hunters = {hunter1, hunter2}
  ClientIds = {c1, c2}
  MaxTime = 2
  MaxRows = 2
  PageLimit = 1
  NoTime = NoTime
  Slots = {s1, s2}
  MaxRequests = 4
SYMMETRY Symmetry
CHECK_DEADLOCK FALSE
INVARIANTS
  SendsOnce
  MarkedIsRead
PROPERTIES
  PagesComplete
  MarkerForward
  SentToActiveKeys
