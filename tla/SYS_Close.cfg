\* One thread closes the descriptor another one reads.
SPECIFICATION Spec
CONSTANTS
  t1 = t1
  t2 = t2
  Threads = {t1, t2}
  Files = {"stdin", "secret", "plain"}
  TaintFiles = {"secret"}
  Fds = {0, 1}
  Arguments <- MCArguments
  EnvVar <- MCEnvVar
  Size = 2
  LastAddr = 1
  Word = 8
  Setups <- FileSetups
  MaxCalls = 4
SYMMETRY Symmetry
CHECK_DEADLOCK FALSE
INVARIANT FdStillTracked
