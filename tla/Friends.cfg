\* Two hunters (pairs do not interact), up to three of five requests in flight.
SPECIFICATION Spec
CONSTANTS
  ann = ann
  bob = bob
  s1 = s1
  s2 = s2
  s3 = s3
  Hunters = {ann, bob}
  Slots = {s1, s2, s3}
  MaxRequests = 5
CHECK_DEADLOCK FALSE
INVARIANTS
  LinksSymmetric
  AnswerMatchesLinks
PROPERTIES
  AnswersStand
  EveryRequestAnswered
