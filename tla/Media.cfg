\* Two images, two of five requests in flight, a token that outlives the shorter ttl.
SPECIFICATION Spec
CONSTANTS
  ann = ann
  bob = bob
  cy = cy
  m1 = m1
  m2 = m2
  t1 = t1
  t2 = t2
  t3 = t3
  g1 = g1
  g2 = g2
  s1 = s1
  s2 = s2
  Hunters = {ann, bob, cy}
  Guilds = {g1, g2}
  HomeGuild <- MCHomeGuild
  Friend <- MCFriend
  Media = {m1, m2}
  NoRow = NoRow
  Null = Null
  Tokens = {t1, t2, t3}
  OnceTtls = {1}
  TokenTtl = 2
  Movers = {ann}
  MaxTime = 4
  Slots = {s1, s2}
  MaxRequests = 5
SYMMETRY Symmetry
CHECK_DEADLOCK FALSE
INVARIANTS
  UploadsAccounted
  ViewedOnce
  NoViewAfterExpiry
  OnlyEntitledSee
  ExportsMarked
