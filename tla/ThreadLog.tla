----------------------------- MODULE ThreadLog -----------------------------
(***************************************************************************)
(* What a trace promises about one thread, whatever buffer, lock and flush *)
(* policy produce it: the frames a thread issues are kept in the order the *)
(* thread issued them, none is skipped or repeated, those that have        *)
(* reached the file are a prefix of those issued, and a frame that has     *)
(* reached the file stays there.  After the file is closed nothing moves.  *)
(* FrameBuffer and BptTracer implement this specification.                 *)
(***************************************************************************)
EXTENDS Integers, Sequences

CONSTANT Threads

VARIABLES log,    \* log[t]: the numbers of the frames t has issued, in order
          saved,  \* saved[t]: how many of them are in the file
          open    \* FALSE once the trace file is finished or abandoned

vars == <<log, saved, open>>

Init ==
  /\ log = [t \in Threads |-> <<>>]
  /\ saved = [t \in Threads |-> 0]
  /\ open = TRUE

(* Frames reach the file in the order they were issued, at any time. *)
Persist ==
  \A t \in Threads : saved[t] <= saved'[t] /\ saved'[t] <= Len(log'[t])

Issue(t) == log' = [log EXCEPT ![t] = Append(@, Len(@) + 1)]

(* One thread issues its next frame, or none does; the file may catch up. *)
Step ==
  /\ open
  /\ (UNCHANGED log \/ \E t \in Threads : Issue(t))
  /\ Persist
  /\ UNCHANGED open

(* Closing the file may write what is left. *)
Close ==
  /\ open
  /\ open' = FALSE
  /\ UNCHANGED log
  /\ Persist

Next == Step \/ Close

Spec == Init /\ [][Next]_vars
=============================================================================
