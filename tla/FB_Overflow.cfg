\* Two threads whose blocks are too long for FUDGE.
SPECIFICATION Spec
CONSTANTS
  t1 = t1
  t2 = t2
  Threads = {t1, t2}
  NoThread = NoThread
  BufferSize = 4
  Fudge = 1
  Word = 16
  KeyframeFreq = 4
  LogLimit = 0
  LogKeyFrames = FALSE
  LogAllSyscalls = FALSE
  LogOneAfter = FALSE
  SEHMode = FALSE
  MaxBlock = 2
  MaxRep = 2
  MaxFrames = 6
  MaxMods = 0
SYMMETRY Symmetry
INVARIANT NoOverflow
