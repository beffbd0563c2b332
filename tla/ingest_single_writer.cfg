SPECIFICATION Spec
CONSTANTS
  pdf = pdf
  csv = csv
  xyz = xyz
  txt = txt
  c1 = c1
  c2 = c2
  c3 = c3
  p1 = p1
  p2 = p2
  Docs = {pdf, csv}
  Contents = {c1, c2, c3}
  Models = {m1, m2}
  Procs = {p1, p2}
  Parse <- MCParse
  Assigned <- Disjoint
INVARIANTS Coherent
PROPERTIES Serializable
