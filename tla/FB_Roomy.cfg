\* Two threads and blocks short enough for the checks outside the lock.
SPECIFICATION Spec
CONSTANTS
  t1 = t1
  t2 = t2
  Threads = {t1, t2}
  NoThread = NoThread
  BufferSize = 4
  Fudge = 1
  Word = 16
  KeyframeFreq = 3
  LogLimit = 0
  LogKeyFrames = FALSE
  LogAllSyscalls = FALSE
  LogOneAfter = TRUE
  SEHMode = TRUE
  MaxBlock = 1
  MaxRep = 2
  MaxFrames = 5
  MaxMods = 0
SYMMETRY Symmetry
INVARIANTS NoOverflow RoomForOwed
