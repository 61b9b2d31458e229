\* Two threads and a buffer that one block fills: overflow, log limit, key
\* frames, system call frames, failed taint checks.
SPECIFICATION Spec
CONSTANTS
  t1 = t1
  t2 = t2
  Threads = {t1, t2}
  NoThread = NoThread
  BufferSize = 2
  Fudge = 0
  Word = 8
  KeyframeFreq = 2
  LogLimit = 3
  LogKeyFrames = TRUE
  LogAllSyscalls = TRUE
  LogOneAfter = FALSE
  SEHMode = FALSE
  MaxBlock = 2
  MaxRep = 0
  MaxFrames = 5
  MaxMods = 1
SYMMETRY Symmetry
INVARIANTS TypeOK LogLimitBound LogCountExact KeyframeSpacing FlushedInSyscall ExitComplete ExceptionLast
PROPERTY ThreadOrder
