\* One habit, daily or weekly, from a Saturday to the Tuesday ten days later: two
\* Mondays; two of seven requests in flight, enough for three completions.
SPECIFICATION Spec
CONSTANTS
  habit1 = habit1
  s1 = s1
  s2 = s2
  Habits = {habit1}
  NoRow = NoRow
  NoDay = NoDay
  FirstDay = 5
  MaxDay = 15
  Slots = {s1, s2}
  MaxRequests = 7
SYMMETRY Symmetry
CHECK_DEADLOCK FALSE
INVARIANTS
  CountsOrdered
  StreakIsRun
  PaidOncePerCycle
