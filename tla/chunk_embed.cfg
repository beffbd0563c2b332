SPECIFICATION FairSpec
CONSTANTS
  p1 = p1
  p2 = p2
  Locations = {p1, p2}
  MaxChars = 4
  Overlap = 2
  Join = 1
  Documents <- MCDocuments
  MaxPieces = 2
  Policies = {"redact", "block"}
  FoundSets <- MCFoundSets
  MaskedSize = 3
  CharsPerToken = 2
  Allowance = 4
  DefaultBatch = 2
  MaxAttempts = 2
  Window = 2
INVARIANTS HardBound CitedWhereItStands NothingLost VectorsAligned OnlyClearedLeaves AdmittedWithinAllowance
PROPERTIES EmbedEnds
