\* Two threads accept, connect, receive and close on two handles.
SPECIFICATION Spec
CONSTANTS
  t1 = t1
  t2 = t2
  Threads = {t1, t2}
  NoThread = NoThread
  Handles = {0, 1}
  LastAddr = 2
  BufferLists <- MCBufferLists
  Size = 2
  MaxConnects = 2
  MaxReceives = 2
CHECK_DEADLOCK FALSE
INVARIANTS TypeOK NetworkFollowed UseIntroduced
PROPERTY FrameAdded
