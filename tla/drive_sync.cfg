SPECIFICATION FairSpec
CONSTANTS
  f1 = f1
  f2 = f2
  form = form
  Files = {f1, f2, form}
  Kind <- MCKind
  PageSize = 1
  Limit = 1
  MaxChanges = 2
  MaxFailures = 1
INVARIANTS NothingMissed SyncedIsCurrent
PROPERTIES Converges
