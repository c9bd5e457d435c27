SPECIFICATION Spec
CONSTANTS
  w1 = w1
  w2 = w2
  c1 = c1
  c2 = c2
  Workers <- TwoWorkers
  Chapters <- TwoChapters
  None = None
  LastRound = 1
  MaxChanges = 2
SYMMETRY Either
INVARIANT ReadyCanStart
CHECK_DEADLOCK FALSE
