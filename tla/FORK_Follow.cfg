\* A process with two threads forks; its children have one thread each.
SPECIFICATION Spec
CONSTANTS
  t1 = t1
  t2 = t2
  Threads = {t1, t2}
  NoThread = NoThread
  MaxProcs = 3
  NameSizes = {2, 4}
  LogLimit = 2
  MaxFrames = 2
CHECK_DEADLOCK FALSE
INVARIANTS TypeOK NamesDistinct OwnFrames ChildComplete
PROPERTY ChildOpens
