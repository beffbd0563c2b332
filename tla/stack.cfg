SPECIFICATION KFairSpec
CONSTANTS
  Migrators = {"init", "other"}
  InitContainer = "init"
  Services = {"server", "worker"}
  Checkouts <- MCCheckouts
  MaxRuns = 4
  MaxKills = 1
  MaxUps = 2
  MaxDeletes = 1
CHECK_DEADLOCK FALSE
INVARIANTS AppliedOnce OnEarlierFiles ReadyWhenUp
PROPERTIES WholeUpgrades StackComesUp
