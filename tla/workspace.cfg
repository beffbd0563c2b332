SPECIFICATION FairSpec
CONSTANTS
  ingest = ingest
  worker = worker
  sync = sync
  connect = connect
  delete = delete
  Procs = {ingest, worker, sync, connect, delete}
  Role <- MCRole
  Slugs = {s1, s2}
  Google = {g1}
  Files = {f1}
  MaxTenants = 2
  MaxCredentials = 2
  MaxCommands = 4
INVARIANTS Scoped ReauthorizationHolds
PROPERTY TransactionsEnd
CHECK_DEADLOCK FALSE
