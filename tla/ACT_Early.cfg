\* Taint arrives before the trigger address is reached.
SPECIFICATION Spec
CONSTANTS
  t1 = t1
  t2 = t2
  Threads = {t1, t2}
  NoThread = NoThread
  b1 = b1
  b2 = b2
  Blocks = {b1, b2}
  TrigBlock = b1
  TrigCounts = {0, 1, 3}
  MaxTrace = 3
  MaxHits = 4
SYMMETRY Symmetry
CHECK_DEADLOCK FALSE
INVARIANT NothingBeforeTrigger
