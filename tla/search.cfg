SPECIFICATION SSpec
CONSTANTS
  pdf = pdf
  doc = doc
  txt = txt
  c1 = c1
  c2 = c2
  Docs = {pdf, txt}
  Contents = {c1, c2}
  Models = {m1, m2}
  Parse <- MCParse
  K = 60
  Candidates = 3
  PoolSize = 2
  Limit = 2
  CaseLimit = 1
  Scores = {0, 1, 2}
  Threshold = 1
CHECK_DEADLOCK FALSE
INVARIANTS ComparableUnlessRejected AgreementWins GateHolds EvaluationMeasuresTheTool FetchedIsOneVersion
