SPECIFICATION FairSpec
CONSTANTS
  w1 = w1
  w2 = w2
  w3 = w3
  Workers = {w1}
  Once = {}
  MaxJobs = 1
  MaxCrashes = 1

PROPERTY NoJobLost
