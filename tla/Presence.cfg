\* Two nodes, two hunters, two sockets, three moves or notices, a channel that keeps one
\* event, and a clock whose one tick makes poses stale and tickets useless.
SPECIFICATION Spec
CONSTANTS
  node1 = node1
  node2 = node2
  hunter1 = hunter1
  hunter2 = hunter2
  t1 = t1
  t2 = t2
  i1 = i1
  i2 = i2
  Nodes = {node1, node2}
  Hunters = {hunter1, hunter2}
  Tickets = {t1, t2}
  Sessions = {i1, i2}
  MaxTime = 1
  TicketLife = 0
  MaxMoves = 3
  Capacity = 1
  StaleAfter = 0
  None = None
SYMMETRY Symmetry
CHECK_DEADLOCK FALSE
INVARIANTS
  TicketAdmitsOnce
  ViewFollowsNode
  NoGhostAtHome
PROPERTIES
  PosesMoveForward
  PosesStayKnown
