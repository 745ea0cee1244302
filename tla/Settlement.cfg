\* One hunter, one item, a chore and a habit, two keys; at most three of four
\* requests in flight.
SPECIFICATION Spec
CONSTANTS
  alice = alice
  master = master
  sword = sword
  quest = quest
  habit = habit
  s1 = s1
  s2 = s2
  s3 = s3
  k1 = k1
  k2 = k2
  Anyone = Anyone
  NoRow = NoRow
  Hunters = {alice}
  Master = master
  Items = {sword}
  Quests = {quest, habit}
  Habits = {habit}
  Assignee <- MCAssignee
  Keys = {k1, k2}
  Slots = {s1, s2, s3}
  Prices = {2, 3}
  RewardXp <- MCRewardXp
  RewardCoins <- MCRewardCoins
  StartCoins = 4
  MaxI32 = 119
  MaxRequests = 4
  AllowDrops = TRUE
SYMMETRY Symmetry
CHECK_DEADLOCK FALSE
INVARIANTS
  TypeOK
  LockedReadsHold
  InventoryBalanced
  LedgerBalanced
  CompletionIsPaid
  ReplayRecordPresent
PROPERTIES
  LedgerExplainsCoins
  ImplementsShop
