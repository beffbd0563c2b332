SPECIFICATION HFairSpec
CONSTANTS
  pdf = pdf
  c1 = c1
  c2 = c2
  c3 = c3
  Docs = {pdf}
  Contents = {c1, c2}
  Models = {m1, m2}
  Procs = {p1, p2}
  Parse <- MCParse
  Assigned <- Shared
INVARIANTS SettledIsEarned ChunksAreEarned
PROPERTIES EveryIngestEnds
