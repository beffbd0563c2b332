SPECIFICATION PSpec
CONSTANTS
  w1 = w1
  w2 = w2
  f1 = f1
  f2 = f2
  small1 = small1
  small2 = small2
  big = big
  Workers = {w1, w2}
  Once = {}
  MaxJobs = 2
  MaxCrashes = 0
  Files = {f1}
  Contents = {small1, small2}
  Big = {}
INVARIANT DrainedIsCurrent

