\* Two accounts and their guilds, three hunters for two PINs, two of six requests in
\* flight.
SPECIFICATION Spec
CONSTANTS
  u1 = u1
  u2 = u2
  h1 = h1
  h2 = h2
  h3 = h3
  p1 = p1
  p2 = p2
  i1 = i1
  i2 = i2
  s1 = s1
  s2 = s2
  Users = {u1, u2}
  Hunters = {h1, h2, h3}
  Pins = {p1, p2}
  LastPin = p2
  Invites = {i1, i2}
  NoRow = NoRow
  NoUser = NoUser
  Slots = {s1, s2}
  MaxRequests = 6
SYMMETRY Symmetry
CHECK_DEADLOCK FALSE
INVARIANTS
  MastersOwnTheirGuild
  PinsDistinct
  InvitesExplainMoves
