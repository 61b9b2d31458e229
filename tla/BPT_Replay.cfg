\* One thread: six kinds of instructions, a signal or system call, an image.
SPECIFICATION Spec
CONSTANTS
  t1 = t1
  Threads = {t1}
  None = None
  Regs = {"ax", "bx", "cf", "of"}
  Flags = {"cf", "of"}
  Addrs = {"a"}
  Modes <- MCModes
  Insns <- Program
  MaxInsns = 3
  MaxRep = 2
  MaxKernel = 1
  KernelLocs = {"a", "cf"}
  MaxMods = 1
INVARIANTS TypeOK ReplayConsistent WritesRecorded WrittenValues OperandsAreOwn
PROPERTY OneFrameEach
