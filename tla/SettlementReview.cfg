\* Two reviews of one quest.
SPECIFICATION Spec
CONSTANTS
  alice = alice
  master = master
  sword = sword
  quest = quest
  habit = habit
  s1 = s1
  s2 = s2
  s3 = s3
  k1 = k1
  k2 = k2
  Anyone = Anyone
  NoRow = NoRow
  Hunters = {alice}
  Master = master
  Items = {sword}
  Quests = {quest, habit}
  Habits = {habit}
  Assignee <- MCAssignee
  Keys = {k1, k2}
  Slots = {s1, s2}
  Prices = {2}
  RewardXp <- MCRewardXp
  RewardCoins <- MCRewardCoins
  StartCoins = 4
  MaxI32 = 119
  MaxRequests = 3
  AllowDrops = FALSE
CHECK_DEADLOCK FALSE
PROPERTIES
  RewardsPendingQuest
