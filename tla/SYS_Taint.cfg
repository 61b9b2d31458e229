\* Two threads open, close, read, seek and map a tainted file, another one
\* and stdin, or receive from sockets, or do the same with the handles and
\* sections of Windows; arguments and a variable may be tainted.
SPECIFICATION Spec
CONSTANTS
  t1 = t1
  t2 = t2
  Threads = {t1, t2}
  Files = {"stdin", "secret", "plain"}
  TaintFiles = {"secret"}
  Fds = {0, 1}
  Arguments <- MCArguments
  EnvVar <- MCEnvVar
  Size = 2
  LastAddr = 1
  Word = 8
  Setups <- MCSetups
  MaxCalls = 4
SYMMETRY Symmetry
CHECK_DEADLOCK FALSE
INVARIANTS TypeOK FdsFollowKernel NoMissedTaint TaintIdsDistinct IntroRecorded TopIsMine
