\* Two hunters, one of them the guild master, who may both leave; a quest assigned to
\* the other; two handlers in flight and none dropped; the model may stop once it is quiet.
SPECIFICATION FairSpec
CONSTANTS
  alice = alice
  master = master
  sword = sword
  quest = quest
  habit = habit
  s1 = s1
  s2 = s2
  s3 = s3
  k1 = k1
  k2 = k2
  Anyone = Anyone
  NoRow = NoRow
  Hunters = {alice, master}
  Master = master
  Items = {sword}
  Quests = {quest}
  Habits = {}
  Assignee <- MCAssignedToAlice
  Keys = {k1, k2}
  Slots = {s1, s2}
  Prices = {2}
  RewardXp <- MCRewardXp
  RewardCoins <- MCRewardCoins
  StartCoins = 4
  MaxI32 = 119
  MaxRequests = 4
  AllowDrops = FALSE
CHECK_DEADLOCK FALSE
PROPERTIES
  EveryRequestAnswered
  PurchaseNeedsMember
  EveryUseAnnounced
