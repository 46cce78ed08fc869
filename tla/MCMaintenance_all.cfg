SPECIFICATION Spec
CONSTANTS
  w1 = w1
  w2 = w2
  c1 = c1
  c2 = c2
  f1 = f1
  f2 = f2
  None = None
  Writer = {w1, w2}
  Cleaner = {c1, c2}
  Initial = {f1}
  Retention = 2
  Asked = {1, 2}
  LogRetention = 3
  OpTime = 1
  MaxTime = 4
  MaxVersion = 4
  MaxLost = 1
  MaxCheckpoints = 2
  Attempts = 2
  Interval = 2
  Batch = 2
  Overlap = FALSE
  Scenes <- MCScenes
CHECK_DEADLOCK FALSE
SYMMETRY Symmetry
INVARIANTS
    HistoryKept
    FixExact
