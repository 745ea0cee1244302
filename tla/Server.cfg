\* Time: a second is two instants, a first lock one second, which is also the most; a
\* count is forgotten after two instants.  The clock is what bounds the run.
SPECIFICATION Spec
CONSTANTS
  n1 = n1 n2 = n2 g1 = g1 g2 = g2 a1 = a1 s1 = s1 s2 = s2
  Nodes <- MCNodes
  Guilds <- MCGuilds
  Accounts <- MCAccounts
  Slots <- MCSlots
  DeployedVersions <- MCDeployed
  RollBackSteps <- MCSteps
  Second = 2
  LockAfter = 2
  LockSeconds = 1
  MaxLock = 1
  ForgetAfter = 2
  MaxTime = 3
  MaxRequests = 3
  MaxRuns = 3
SYMMETRY Symmetry
INVARIANTS HistoryExplainsSchema ServesWhatItNeeds
PROPERTY LocksAreServed
CHECK_DEADLOCK FALSE
