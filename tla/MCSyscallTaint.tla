--------------------------- MODULE MCSyscallTaint --------------------------
(* Instances of SyscallTaint for TLC. *)
EXTENDS SyscallTaint, TLC

(* One argument and the variable share the buffer with what is read. *)
MCArguments == <<[addr |-> 0, len |-> 1]>>
MCEnvVar == [addr |-> 1, len |-> 1]

Unix == [skip |-> 0, stdin |-> FALSE, net |-> FALSE, args |-> FALSE,
         env |-> FALSE, windows |-> FALSE, ops |-> {}]

FileOps == {"open", "close", "read", "lseek", "mmap", "dup2"}

(* The arguments, the variable and the first read are skipped. *)
FileSetups ==
  {[Unix EXCEPT !.stdin = TRUE, !.args = TRUE, !.ops = FileOps],
   [Unix EXCEPT !.stdin = TRUE, !.ops = {"open", "read", "sigreturn"}],
   [Unix EXCEPT !.skip = 3, !.args = TRUE, !.env = TRUE,
                !.ops = {"open", "close", "read", "lseek"}]}

(* The 32-bit tool: sockets, from which read receives too. *)
SocketSetups ==
  {[Unix EXCEPT !.net = TRUE, !.ops = {"socket", "accept", "recv", "read", "close"}],
   [Unix EXCEPT !.net = TRUE, !.skip = 1, !.ops = {"accept", "recv", "close"}]}

WindowsSetups ==
  {[Unix EXCEPT !.windows = TRUE, !.env = TRUE,
                !.ops = {"open", "close", "read", "section", "map"}],
   [Unix EXCEPT !.windows = TRUE, !.args = TRUE,
                !.ops = {"open", "readat", "lseek"}]}

(* Calls within callbacks. *)
CallbackSetups ==
  {[Unix EXCEPT !.windows = TRUE, !.ops = {"open", "close", "cbreturn"}]}

MCSetups == FileSetups \union SocketSetups \union WindowsSetups
              \union CallbackSetups

Symmetry == Permutations(Threads)
=============================================================================
