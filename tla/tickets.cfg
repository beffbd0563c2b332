SPECIFICATION RSpec
CONSTANTS
  main = main
  branch = branch
  x = x
  y = y
  Checkouts = {main, branch}
  Slugs = {x, y}
  Branches = {"b1"}
  Prs = {"p1", "p2"}
  Drafts <- MCDrafts
  Starts <- MCStarts
  LastId = 2
  MaxEvents = 4
  MaxRecords = 4
CHECK_DEADLOCK FALSE
INVARIANTS OnePerRef HandProofsKept PassMirrors
PROPERTY CloseKeepsConsistent
SYMMETRY MCSymmetry
