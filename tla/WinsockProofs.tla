---------------------------- MODULE WinsockProofs ---------------------------
(***************************************************************************)
(* Theorems about Winsock for every number of threads and handles, every   *)
(* memory and every set of buffers, without the bounds of the runs.        *)
(***************************************************************************)
EXTENDS Winsock, FiniteSetTheorems, SequenceTheorems, InductionLemmas, TLAPS

USE WinsockAssumption DEF Addrs

-----------------------------------------------------------------------------
(* The inductive invariant.  Numbers are added to the trace by way of fo,  *)
(* which is empty unless its thread is between the two critical sections;  *)
(* numbers that are used again come from taint_mappings, those that are    *)
(* logged from memory.                                                     *)

Receiving(t) ==
  pc[t] = "after" \/ (pc[t] = "kernel" /\ call[t].op \in {"recv", "WSARecv"})

ThreadTypes ==
  /\ pc \in [Threads -> Places]
  /\ call \in [Threads -> Calls \union {NoCall}]
  /\ ret \in [Threads -> Int]
  /\ recvStack \in [Threads -> Seq([fd : Handles, addr : Addrs])]
  /\ DOMAIN fo = Threads /\ fo = [t \in Threads |-> fo[t]]

OffsetTypes == \A h \in DOMAIN fds : fds[h] \in Int

(* The stack of a thread that is receiving is not empty: AfterRecv may pop *)
(* it.                                                                     *)
StackFilled == \A t \in Threads : Receiving(t) => recvStack[t] # <<>>

(* Where a thread has a call. *)
CallPlaces == {"kernel", "wrapped", "after", "closed"}

InCall == \A t \in Threads : pc[t] \in CallPlaces => call[t] \in Calls

FramesHeld ==
  \A t \in Threads :
    pc[t] \notin {"tactivate", "tremove", "frame"} => fo[t] = {}

Known == introduced \union UNION {fo[t] : t \in Threads}

NumbersKnown ==
  /\ \A a \in Addrs : memory[a] # NOTAINT => memory[a] \in Known
  /\ \A o \in DOMAIN taint_mappings : taint_mappings[o] \in Known
  /\ used \subseteq Known

IndInv ==
  /\ ThreadTypes /\ OffsetTypes /\ InCall
  /\ StackFilled /\ FramesHeld /\ NumbersKnown

-----------------------------------------------------------------------------
(* One thread moves on with a call and a result.                           *)
LEMMA MoveTypes ==
  ASSUME ThreadTypes, NEW t \in Threads, NEW place \in Places,
         NEW c \in Calls \union {NoCall}, NEW r \in Int, NEW s,
         MoveWith(t, place, c, r, s)
  PROVE  /\ pc' \in [Threads -> Places] /\ pc'[t] = place
         /\ call' \in [Threads -> Calls \union {NoCall}]
         /\ ret' \in [Threads -> Int]
         /\ \A u \in Threads \ {t} : pc'[u] = pc[u] /\ call'[u] = call[u]
         /\ place # "app" => call'[t] = c
BY DEF ThreadTypes, MoveWith

(* One thread moves on with the call it has.                               *)
LEMMA PlainMoveTypes ==
  ASSUME ThreadTypes, NEW t \in Threads, NEW place \in Places, Move(t, place)
  PROVE  /\ pc' \in [Threads -> Places] /\ pc'[t] = place
         /\ call' \in [Threads -> Calls \union {NoCall}]
         /\ ret' \in [Threads -> Int]
         /\ \A u \in Threads \ {t} : pc'[u] = pc[u] /\ call'[u] = call[u]
         /\ place # "app" => call'[t] = call[t]
<1>1. call[t] \in Calls \union {NoCall} /\ ret[t] \in Int
  BY DEF ThreadTypes
<1> QED
  BY <1>1, MoveTypes DEF Move

(* A step that leaves the numbers alone. *)
LEMMA SameNumbers ==
  ASSUME NumbersKnown, UNCHANGED <<memory, taint_mappings, trace>>
  PROVE  NumbersKnown'
BY DEF NumbersKnown, Known, trace

(* A thread that is not inside AfterRecv moves, and does not enter it.     *)
LEMMA ElsewhereHeld ==
  ASSUME ThreadTypes, FramesHeld, NEW t \in Threads,
         pc[t] \notin {"tactivate", "tremove", "frame"}, UNCHANGED fo,
         \A u \in Threads \ {t} : pc'[u] = pc[u]
  PROVE  FramesHeld'
BY DEF FramesHeld

(* The kernel returns to a place.                                          *)
LEMMA ReturnsStep ==
  ASSUME IndInv, NEW t \in Threads, NEW place \in Places, NEW r \in Int,
         pc[t] = "kernel", Returns(t, place, r),
         place = "after" => call[t].op \in {"recv", "WSARecv"},
         place # "kernel"
  PROVE  IndInv'
<1>1. call[t] \in Calls \union {NoCall}
  BY DEF IndInv, ThreadTypes
<1>2. MoveWith(t, place, call[t], r, state[t])
      /\ UNCHANGED <<recvStack, fds, memory, taint_mappings, trace>>
  BY DEF Returns, tracker
<1>3. /\ pc' \in [Threads -> Places] /\ pc'[t] = place
      /\ call' \in [Threads -> Calls \union {NoCall}]
      /\ ret' \in [Threads -> Int]
      /\ \A u \in Threads \ {t} : pc'[u] = pc[u] /\ call'[u] = call[u]
      /\ place # "app" => call'[t] = call[t]
  BY <1>1, <1>2, MoveTypes DEF IndInv
<1>4. ThreadTypes'
  BY <1>2, <1>3 DEF IndInv, ThreadTypes, trace
<1>5. StackFilled'
  BY <1>2, <1>3 DEF IndInv, StackFilled, Receiving
<1>6. FramesHeld'
  BY <1>2, <1>3, ElsewhereHeld DEF IndInv, trace
<1>7. OffsetTypes' /\ NumbersKnown'
  BY <1>2, SameNumbers DEF IndInv, OffsetTypes
<1>8. InCall'
  BY <1>3 DEF IndInv, InCall, CallPlaces
<1> QED
  BY <1>4, <1>5, <1>6, <1>7, <1>8 DEF IndInv

(* Steps of the kernel, and calls that fail, keep the invariant.           *)
LEMMA KernelReturns ==
  ASSUME IndInv, NEW t \in Threads,
         \/ KernelSocket(t) \/ KernelAccept(t) \/ KernelConnect(t)
         \/ KernelRecv(t) \/ KernelOverlapped(t) \/ RecvUnwinds(t)
         \/ KernelClose(t) \/ CallFails(t)
  PROVE  IndInv'
<1>1. {"app", "wrapped", "after", "closed"} \subseteq Places
      /\ Handles \subseteq Int /\ 0..Size \subseteq Int /\ 1..Size \subseteq Int
      /\ SOCKET_ERROR \in Int
  BY DEF Places, SOCKET_ERROR
<1>2. CASE KernelSocket(t)
  BY <1>1, <1>2, ReturnsStep DEF KernelSocket, NewSocket, Doing, Free
<1>3. CASE KernelAccept(t)
  BY <1>1, <1>3, ReturnsStep DEF KernelAccept, NewSocket, Doing, Free
<1>4. CASE KernelConnect(t)
  BY <1>1, <1>4, ReturnsStep DEF KernelConnect, Doing
<1>5. CASE KernelRecv(t)
  BY <1>1, <1>5, ReturnsStep DEF KernelRecv, Doing
<1>6. CASE KernelOverlapped(t)
  BY <1>1, <1>6, ReturnsStep DEF KernelOverlapped, Doing
<1>7. CASE RecvUnwinds(t)
  BY <1>1, <1>7, ReturnsStep DEF RecvUnwinds, Doing
<1>8. CASE KernelClose(t)
  BY <1>1, <1>8, ReturnsStep DEF KernelClose, Doing
<1>9. CASE CallFails(t)
  <2>1. pc[t] = "kernel" /\ Returns(t, ReturnPlace[call[t].op], SOCKET_ERROR)
    BY <1>9 DEF CallFails
  <2>2. call[t].op \in Ops
    BY <2>1 DEF IndInv, InCall, CallPlaces, Calls
  <2>3. /\ ReturnPlace[call[t].op] \in {"app", "wrapped", "after", "closed"}
        /\ ReturnPlace[call[t].op] = "after" => call[t].op \in {"recv", "WSARecv"}
    BY <2>2 DEF ReturnPlace, Ops
  <2> QED
    BY <1>1, <2>1, <2>3, ReturnsStep
<1> QED
  BY <1>2, <1>3, <1>4, <1>5, <1>6, <1>7, <1>8, <1>9

(* What a receive pushes is an entry.                                      *)
LEMMA EntryTypes ==
  ASSUME NEW h \in Handles, NEW a \in Addrs
  PROVE  [fd |-> h, addr |-> a] \in [fd : Handles, addr : Addrs]
OBVIOUS

(* The ends of a sequence that is not empty.                               *)
LEMMA FirstAndLast ==
  ASSUME NEW S, NEW s \in Seq(S), s # <<>>
  PROVE  s[1] \in S /\ s[Len(s)] \in S /\ SubSeq(s, 1, Len(s) - 1) \in Seq(S)
<1>1. Len(s) \in Nat /\ Len(s) # 0
  BY EmptySeq, LenProperties
<1>2. 1 \in 1..Len(s) /\ Len(s) \in 1..Len(s)
  BY <1>1
<1>3. s[1] \in S /\ s[Len(s)] \in S
  BY <1>2, ElementOfSeq
<1>4. SubSeq(s, 1, Len(s) - 1) \in Seq(S)
  BY <1>1, SubSeqProperties
<1> QED
  BY <1>3, <1>4

(* What something is appended to is not empty.                             *)
LEMMA AppendFilled ==
  ASSUME NEW S, NEW s \in Seq(S), NEW e \in S
  PROVE  Append(s, e) \in Seq(S) /\ Append(s, e) # <<>>
<1>1. Append(s, e) \in Seq(S) /\ Len(Append(s, e)) = Len(s) + 1
  BY AppendProperties
<1> QED
  BY <1>1, SMTT(30)

(* A call begins.                                                          *)
LEMMA CallStep ==
  ASSUME IndInv, NEW t \in Threads, Call(t)
  PROVE  IndInv'
<1>1. PICK c \in {d \in Calls : Canonical(d)} :
        Before(t, c) /\ MoveWith(t, "kernel", c, 0, taintPreSC(c))
  BY DEF Call
<1>2. pc[t] = "app" /\ UNCHANGED <<fds, memory, taint_mappings, trace>>
  BY DEF Call, tracker
<1>3. /\ pc' \in [Threads -> Places] /\ pc'[t] = "kernel"
      /\ call' \in [Threads -> Calls \union {NoCall}]
      /\ ret' \in [Threads -> Int]
      /\ \A u \in Threads \ {t} : pc'[u] = pc[u] /\ call'[u] = call[u]
      /\ call'[t] = c
  <2>1. "kernel" \in Places /\ "kernel" # "app" /\ 0 \in Int
        /\ c \in Calls \union {NoCall}
    BY <1>1 DEF Places
  <2> QED
    BY <1>1, <2>1, MoveTypes DEF IndInv
<1>4. c.s \in Handles /\ c.bufs \in BufferLists
  BY DEF Calls
<1>5. [fd |-> c.s, addr |-> c.bufs[1].addr] \in [fd : Handles, addr : Addrs]
  <2>1. c.bufs # <<>> /\ c.bufs \in Seq([addr : Addrs, len : 1..(LastAddr + 1)])
    BY <1>4
  <2>2. c.bufs[1] \in [addr : Addrs, len : 1..(LastAddr + 1)]
    BY <2>1, FirstAndLast
  <2>3. c.bufs[1].addr \in Addrs
    BY <2>2
  <2> QED
    BY <1>4, <2>3, EntryTypes
<1>6. /\ recvStack' \in [Threads -> Seq([fd : Handles, addr : Addrs])]
      /\ \A u \in Threads \ {t} : recvStack'[u] = recvStack[u]
      /\ c.op \in {"recv", "WSARecv"} => recvStack'[t] # <<>>
  <2> DEFINE entry == [fd |-> c.s, addr |-> c.bufs[1].addr]
  <2>1. recvStack \in [Threads -> Seq([fd : Handles, addr : Addrs])]
    BY DEF IndInv, ThreadTypes
  <2>2. CASE c.op \in {"recv", "WSARecv"}
    <3>1. recvStack' = [recvStack EXCEPT ![t] = Append(recvStack[t], entry)]
      BY <1>1, <2>2 DEF Before
    <3>2. entry \in [fd : Handles, addr : Addrs]
      BY <1>5
    <3> HIDE DEF entry
    <3>3. /\ Append(recvStack[t], entry) \in Seq([fd : Handles, addr : Addrs])
          /\ Append(recvStack[t], entry) # <<>>
      BY <2>1, <3>2, AppendFilled
    <3> QED
      BY <2>1, <3>1, <3>3
  <2>3. CASE c.op \notin {"recv", "WSARecv"}
    BY <1>1, <2>1, <2>3 DEF Before
  <2> QED
    BY <2>2, <2>3
<1>7. ThreadTypes'
  BY <1>2, <1>3, <1>6 DEF IndInv, ThreadTypes, trace
<1>8. StackFilled'
  <2>1. \A u \in Threads \ {t} : Receiving(u)' = Receiving(u)
    BY <1>3 DEF Receiving
  <2>2. Receiving(t)' => c.op \in {"recv", "WSARecv"}
    BY <1>3 DEF Receiving
  <2> QED
    BY <1>6, <2>1, <2>2 DEF IndInv, StackFilled
<1>9. InCall'
  BY <1>3 DEF IndInv, InCall, CallPlaces
<1>10. FramesHeld'
  BY <1>2, <1>3, ElsewhereHeld DEF IndInv, trace
<1>11. OffsetTypes' /\ NumbersKnown'
  BY <1>2, SameNumbers DEF IndInv, OffsetTypes
<1> QED
  BY <1>7, <1>8, <1>9, <1>10, <1>11 DEF IndInv

(* A routine moves on, to where it is not receiving.                       *)
LEMMA RoutineStep ==
  ASSUME IndInv, NEW t \in Threads, NEW place \in Places \ CallPlaces,
         Move(t, place),
         recvStack' \in [Threads -> Seq([fd : Handles, addr : Addrs])],
         \A u \in Threads \ {t} : recvStack'[u] = recvStack[u]
  PROVE  /\ pc' \in [Threads -> Places] /\ pc'[t] = place
         /\ \A u \in Threads \ {t} : pc'[u] = pc[u]
         /\ StackFilled' /\ InCall'
         /\ (DOMAIN fo' = Threads /\ fo' = [u \in Threads |-> fo'[u]])
              => ThreadTypes'
<1>1. /\ pc' \in [Threads -> Places] /\ pc'[t] = place
      /\ call' \in [Threads -> Calls \union {NoCall}]
      /\ ret' \in [Threads -> Int]
      /\ \A u \in Threads \ {t} : pc'[u] = pc[u] /\ call'[u] = call[u]
  BY PlainMoveTypes DEF IndInv
<1>2. StackFilled'
  BY <1>1 DEF IndInv, StackFilled, Receiving, CallPlaces
<1>3. InCall'
  BY <1>1 DEF IndInv, InCall, CallPlaces
<1> QED
  BY <1>1, <1>2, <1>3 DEF ThreadTypes

(* Routines that leave frames and numbers alone. *)
LEMMA QuietStep ==
  ASSUME IndInv, NEW t \in Threads, NEW place \in Places \ CallPlaces,
         Move(t, place),
         recvStack' \in [Threads -> Seq([fd : Handles, addr : Addrs])],
         \A u \in Threads \ {t} : recvStack'[u] = recvStack[u],
         UNCHANGED <<memory, taint_mappings, trace>>, OffsetTypes',
         \/ pc[t] \notin {"tactivate", "tremove", "frame"}
         \/ place \in {"tactivate", "tremove", "frame"}
  PROVE  IndInv'
<1>1. /\ pc' \in [Threads -> Places] /\ pc'[t] = place
      /\ \A u \in Threads \ {t} : pc'[u] = pc[u]
      /\ StackFilled' /\ InCall'
      /\ (DOMAIN fo' = Threads /\ fo' = [u \in Threads |-> fo'[u]])
           => ThreadTypes'
  BY RoutineStep
<1>2. ThreadTypes'
  BY <1>1 DEF IndInv, ThreadTypes, trace
<1>3. FramesHeld'
  BY <1>1 DEF IndInv, FramesHeld, trace
<1>4. NumbersKnown'
  BY SameNumbers DEF IndInv
<1> QED
  BY <1>1, <1>2, <1>3, <1>4 DEF IndInv

(* A stack without its top.                                                *)
LEMMA PoppedTypes ==
  ASSUME IndInv, NEW t \in Threads, pc[t] = "after"
  PROVE  /\ Popped(t) \in [Threads -> Seq([fd : Handles, addr : Addrs])]
         /\ \A u \in Threads \ {t} : Popped(t)[u] = recvStack[u]
         /\ Top(t) \in [fd : Handles, addr : Addrs]
<1>1. recvStack \in [Threads -> Seq([fd : Handles, addr : Addrs])]
  BY DEF IndInv, ThreadTypes
<1>2. recvStack[t] # <<>>
  BY DEF IndInv, StackFilled, Receiving
<1>3. /\ recvStack[t][Len(recvStack[t])] \in [fd : Handles, addr : Addrs]
      /\ SubSeq(recvStack[t], 1, Len(recvStack[t]) - 1)
           \in Seq([fd : Handles, addr : Addrs])
  BY <1>1, <1>2, FirstAndLast
<1> QED
  BY <1>1, <1>3 DEF Popped, Top

(* Routines that neither introduce nor record keep the invariant.          *)
LEMMA QuietRoutines ==
  ASSUME IndInv, NEW t \in Threads,
         \/ acceptHelper(t) \/ CloseExit(t) \/ AfterRecvNothing(t)
         \/ AlreadyIntroduced(t) \/ TActivate(t)
         \/ PIN_RemoveInstrumentation(t) \/ Instruction(t)
  PROVE  IndInv'
<1>1. /\ recvStack \in [Threads -> Seq([fd : Handles, addr : Addrs])]
      /\ \A h \in DOMAIN fds : fds[h] \in Int
      /\ {"app", "tremove", "frame", "append"} \subseteq
           Places \ CallPlaces
  BY DEF IndInv, ThreadTypes, OffsetTypes, Places, CallPlaces
<1>2. CASE acceptHelper(t)
  <2>1. Move(t, "app") /\ pc[t] = "wrapped"
        /\ UNCHANGED <<recvStack, memory, taint_mappings, trace>>
    BY <1>2 DEF acceptHelper, Locked
  <2>2. OffsetTypes'
    BY <1>1, <1>2 DEF acceptHelper, OffsetTypes
  <2> QED
    BY <1>1, <2>1, <2>2, QuietStep
<1>3. CASE CloseExit(t)
  <2>1. Move(t, "app") /\ pc[t] = "closed"
        /\ UNCHANGED <<recvStack, memory, taint_mappings, trace>>
    BY <1>3 DEF CloseExit, Locked
  <2>2. OffsetTypes'
    BY <1>1, <1>3 DEF CloseExit, OffsetTypes, Without
  <2> QED
    BY <1>1, <2>1, <2>2, QuietStep
<1>4. CASE AfterRecvNothing(t)
  <2>1. /\ Move(t, "app") /\ pc[t] = "after" /\ recvStack' = Popped(t)
        /\ UNCHANGED <<fds, memory, taint_mappings, trace>>
    BY <1>4 DEF AfterRecvNothing, Locked, tracker
  <2>2. OffsetTypes'
    BY <1>1, <2>1 DEF OffsetTypes
  <2> QED
    BY <1>1, <2>1, <2>2, PoppedTypes, QuietStep
<1>5. CASE AlreadyIntroduced(t) \/ PIN_RemoveInstrumentation(t)
  <2>1. /\ Move(t, "frame")
        /\ UNCHANGED <<recvStack, fds, memory, taint_mappings, trace>>
    BY <1>5 DEF AlreadyIntroduced, PIN_RemoveInstrumentation, tracker
  <2>2. OffsetTypes'
    BY <1>1, <2>1 DEF OffsetTypes
  <2> QED
    BY <1>1, <2>1, <2>2, QuietStep
<1>6. CASE TActivate(t)
  <2>1. /\ Move(t, "tremove")
        /\ UNCHANGED <<recvStack, fds, memory, taint_mappings, trace>>
    BY <1>6 DEF TActivate, tracker
  <2>2. OffsetTypes'
    BY <1>1, <2>1 DEF OffsetTypes
  <2> QED
    BY <1>1, <2>1, <2>2, QuietStep
<1>7. CASE Instruction(t)
  <2>1. /\ Move(t, "append") /\ pc[t] = "app"
        /\ UNCHANGED <<recvStack, fds, memory, taint_mappings, trace>>
    BY <1>7 DEF Instruction, tracker
  <2>2. OffsetTypes'
    BY <1>1, <2>1 DEF OffsetTypes
  <2> QED
    BY <1>1, <2>1, <2>2, QuietStep
<1> QED
  BY <1>2, <1>3, <1>4, <1>5, <1>6, <1>7

-----------------------------------------------------------------------------
(* The numbers a receive gives to its bytes are those of its frame. *)
LEMMA IntroducedNumbers ==
  ASSUME NEW a \in Int, NEW n \in Int, NEW off \in Int, introMemTaint(a, n, off)
  PROVE  /\ \A b \in Addrs : memory'[b] \in {memory[b]} \union Tags(n, off)
         /\ \A o \in DOMAIN taint_mappings' :
              \/ o \in DOMAIN taint_mappings /\ taint_mappings'[o] = taint_mappings[o]
              \/ taint_mappings'[o] \in Tags(n, off)
<1>1. \A b \in Addrs : memory'[b] \in {memory[b]} \union Tags(n, off)
  <2> SUFFICES ASSUME NEW b \in Addrs
               PROVE  memory'[b] \in {memory[b]} \union Tags(n, off)
    OBVIOUS
  <2>1. memory'[b] = IF b \in a..(a + n - 1) THEN Tag(off, b - a) ELSE memory[b]
    BY DEF introMemTaint
  <2>2. b \in a..(a + n - 1) => b - a \in 0..(n - 1)
    OBVIOUS
  <2> QED
    BY <2>1, <2>2 DEF Tags
<1>2. ASSUME NEW o \in DOMAIN taint_mappings'
      PROVE  \/ o \in DOMAIN taint_mappings /\ taint_mappings'[o] = taint_mappings[o]
             \/ taint_mappings'[o] \in Tags(n, off)
  <2>1. /\ o \in DOMAIN taint_mappings \union (off..(off + n - 1))
        /\ taint_mappings'[o] = IF o \in DOMAIN taint_mappings
                                THEN taint_mappings[o] ELSE Tag(off, o - off)
    BY DEF introMemTaint
  <2>2. o \in off..(off + n - 1) => o - off \in 0..(n - 1)
    OBVIOUS
  <2> QED
    BY <2>1, <2>2 DEF Tags
<1> QED
  BY <1>1, <1>2

(* Bytes received are tainted: the frame is owed by the thread.            *)
LEMMA AfterRecvStep ==
  ASSUME IndInv, NEW t \in Threads, AfterRecv(t)
  PROVE  IndInv'
<1> DEFINE n == ret[t]
           off == fds[Top(t).fd]
           place == IF g_taint_introduced THEN "frame" ELSE "tactivate"
<1>1. /\ pc[t] = "after" /\ Top(t).fd \in DOMAIN fds /\ Move(t, place)
      /\ recvStack' = Popped(t)
      /\ introMemTaint(Top(t).addr, n, off)
      /\ fds' = [fds EXCEPT ![Top(t).fd] = off + n]
      /\ fo' = [fo EXCEPT ![t] = Tags(n, off)]
      /\ UNCHANGED <<introduced, used>>
  BY DEF AfterRecv, Locked
<1>2. place \in Places \ CallPlaces
      /\ place \in {"tactivate", "tremove", "frame"}
  BY DEF Places, CallPlaces
<1>3. Top(t).addr \in Int /\ n \in Int /\ off \in Int
  <2>1. Top(t) \in [fd : Handles, addr : Addrs]
    BY <1>1, PoppedTypes DEF Receiving
  <2>2. Top(t).addr \in Int
    BY <2>1
  <2>3. n \in Int
    BY DEF IndInv, ThreadTypes
  <2>4. off \in Int
    BY <1>1 DEF IndInv, OffsetTypes
  <2> QED
    BY <2>2, <2>3, <2>4
<1> HIDE DEF place
<1>4. /\ pc' \in [Threads -> Places] /\ pc'[t] = place
      /\ \A u \in Threads \ {t} : pc'[u] = pc[u]
      /\ StackFilled' /\ InCall'
      /\ (DOMAIN fo' = Threads /\ fo' = [u \in Threads |-> fo'[u]])
           => ThreadTypes'
  BY <1>1, <1>2, PoppedTypes, RoutineStep
<1>5. fo[t] = {} /\ DOMAIN fo = Threads /\ fo = [u \in Threads |-> fo[u]]
  BY <1>1 DEF IndInv, FramesHeld, ThreadTypes
<1>6. /\ DOMAIN fo' = Threads /\ fo' = [u \in Threads |-> fo'[u]]
      /\ fo'[t] = Tags(n, off)
      /\ \A u \in Threads \ {t} : fo'[u] = fo[u]
  BY <1>1, <1>5
<1>7. FramesHeld'
  BY <1>2, <1>4, <1>6 DEF IndInv, FramesHeld
<1>8. OffsetTypes'
  BY <1>1, <1>3 DEF IndInv, OffsetTypes
<1>9. Known' = Known \union Tags(n, off)
  BY <1>1, <1>5, <1>6 DEF Known
<1>10. NumbersKnown'
  <2>1. /\ \A b \in Addrs : memory'[b] \in {memory[b]} \union Tags(n, off)
        /\ \A o \in DOMAIN taint_mappings' :
             \/ o \in DOMAIN taint_mappings /\ taint_mappings'[o] = taint_mappings[o]
             \/ taint_mappings'[o] \in Tags(n, off)
    BY <1>1, <1>3, IntroducedNumbers
  <2> QED
    BY <1>1, <1>9, <2>1 DEF IndInv, NumbersKnown
<1> QED
  BY <1>4, <1>6, <1>7, <1>8, <1>10 DEF IndInv

(* The introduction frame is written.                                      *)
LEMMA AddFrameStep ==
  ASSUME IndInv, NEW t \in Threads, AddFrame(t)
  PROVE  IndInv'
<1>1. /\ Move(t, "app")
      /\ introduced' = introduced \union fo[t]
      /\ fo' = [fo EXCEPT ![t] = {}]
      /\ UNCHANGED <<recvStack, fds, memory, taint_mappings, used>>
  BY DEF AddFrame, tracker
<1>2. "app" \in Places \ CallPlaces
  BY DEF Places, CallPlaces
<1>3. /\ pc' \in [Threads -> Places] /\ pc'[t] = "app"
      /\ \A u \in Threads \ {t} : pc'[u] = pc[u]
      /\ StackFilled' /\ InCall'
      /\ (DOMAIN fo' = Threads /\ fo' = [u \in Threads |-> fo'[u]])
           => ThreadTypes'
  BY <1>1, <1>2, RoutineStep DEF IndInv, ThreadTypes
<1>4. /\ DOMAIN fo' = Threads /\ fo' = [u \in Threads |-> fo'[u]]
      /\ fo'[t] = {} /\ \A u \in Threads \ {t} : fo'[u] = fo[u]
  BY <1>1 DEF IndInv, ThreadTypes
<1>5. FramesHeld'
  BY <1>3, <1>4 DEF IndInv, FramesHeld
<1>6. OffsetTypes'
  BY <1>1 DEF IndInv, OffsetTypes
<1>7. Known' = Known
  BY <1>1, <1>4 DEF Known
<1>8. NumbersKnown'
  BY <1>1, <1>7 DEF IndInv, NumbersKnown
<1> QED
  BY <1>3, <1>4, <1>5, <1>6, <1>8 DEF IndInv

(* An instruction that uses taint is written.                              *)
LEMMA AppendBufferStep ==
  ASSUME IndInv, NEW t \in Threads, AppendBuffer(t)
  PROVE  IndInv'
<1>1. /\ Move(t, "app") /\ pc[t] = "append"
      /\ UNCHANGED <<recvStack, fds, memory, taint_mappings, fo, introduced>>
      /\ \E a \in Addrs : used' = used \union ({memory[a]} \ {NOTAINT})
  BY DEF AppendBuffer, Locked, tracker
<1>2. "app" \in Places \ CallPlaces
      /\ recvStack \in [Threads -> Seq([fd : Handles, addr : Addrs])]
  BY DEF IndInv, ThreadTypes, Places, CallPlaces
<1>3. /\ \A u \in Threads \ {t} : pc'[u] = pc[u]
      /\ StackFilled' /\ InCall'
      /\ (DOMAIN fo' = Threads /\ fo' = [u \in Threads |-> fo'[u]])
           => ThreadTypes'
  BY <1>1, <1>2, RoutineStep
<1>4. ThreadTypes'
  BY <1>1, <1>3 DEF IndInv, ThreadTypes
<1>5. FramesHeld'
  BY <1>1, <1>3, ElsewhereHeld DEF IndInv
<1>6. OffsetTypes'
  BY <1>1 DEF IndInv, OffsetTypes
<1>7. NumbersKnown'
  BY <1>1 DEF IndInv, NumbersKnown, Known
<1> QED
  BY <1>3, <1>4, <1>5, <1>6, <1>7 DEF IndInv

-----------------------------------------------------------------------------
(* The invariant holds at the start.                                       *)
LEMMA InitIndInv == Init => IndInv
<1> SUFFICES ASSUME Init PROVE IndInv
  OBVIOUS
<1>1. ThreadTypes
  BY DEF Init, ThreadTypes, Places
<1>2. OffsetTypes /\ StackFilled /\ InCall /\ FramesHeld
  BY DEF Init, OffsetTypes, StackFilled, Receiving, InCall, CallPlaces, FramesHeld
<1>3. NumbersKnown
  BY DEF Init, NumbersKnown
<1> QED
  BY <1>1, <1>2, <1>3 DEF IndInv

(* Every step keeps the invariant.                                         *)
LEMMA NextIndInv == IndInv /\ [Next]_vars => IndInv'
<1> SUFFICES ASSUME IndInv, [Next]_vars PROVE IndInv'
  OBVIOUS
<1>1. CASE UNCHANGED vars
  <2>1. UNCHANGED <<pc, call, ret, recvStack, fds, memory, taint_mappings, fo,
                    introduced, used>>
    BY <1>1 DEF vars, tracker, trace
  <2>2. ThreadTypes'
    BY <2>1 DEF IndInv, ThreadTypes
  <2>3. OffsetTypes' /\ StackFilled' /\ InCall'
    BY <2>1 DEF IndInv, OffsetTypes, StackFilled, InCall, CallPlaces, Receiving
  <2>4. FramesHeld'
    BY <2>1 DEF IndInv, FramesHeld
  <2>5. NumbersKnown'
    BY <2>1 DEF IndInv, NumbersKnown, Known
  <2> QED
    BY <2>2, <2>3, <2>4, <2>5 DEF IndInv
<1>2. CASE Next
  BY <1>2, CallStep, KernelReturns, QuietRoutines, AfterRecvStep, AddFrameStep,
     AppendBufferStep DEF Next
<1> QED
  BY <1>1, <1>2

(* Every taint number a logged instruction uses is introduced by a frame   *)
(* of the trace, or by one that AfterRecv holds, about to add it: between  *)
(* the two critical sections of AfterRecv nothing is lost or overwritten,  *)
(* whatever other threads receive, close or log meanwhile.                 *)
THEOREM UseIntroducedTheorem == Spec => []UseIntroduced
<1>1. IndInv => UseIntroduced
  BY DEF IndInv, NumbersKnown, Known, UseIntroduced
<1> QED
  BY <1>1, InitIndInv, NextIndInv, PTL DEF Spec

(* AfterRecv never finds its stack empty when recv returns to it: the      *)
(* warning it prints in that case is not reached, as long as a call that   *)
(* PIN has instrumented before is also instrumented after.                 *)
THEOREM StackFilledTheorem == Spec => []StackFilled
<1>1. IndInv => StackFilled
  BY DEF IndInv
<1> QED
  BY <1>1, InitIndInv, NextIndInv, PTL DEF Spec

-----------------------------------------------------------------------------
(* Buffers and numbers.                                                    *)

(* Arithmetic, apart from everything else.                                 *)
LEMMA SumAtLeast ==
  ASSUME NEW k \in Nat, NEW l \in Nat, NEW m \in Nat, k >= m
  PROVE  k + l \in Nat /\ k + l >= m
OBVIOUS

(* The space of the first i buffers: it grows by each buffer, and is at    *)
(* least that of the first.                                                *)
LEMMA BufferSpaceFacts ==
  ASSUME NEW bufs \in BufferLists
  PROVE  /\ Len(bufs) \in Nat \ {0} /\ DOMAIN bufs = 1..Len(bufs)
         /\ \A i \in 1..Len(bufs) : bufs[i] \in [addr : Addrs, len : 1..(LastAddr + 1)]
         /\ BufferSpace(bufs) \in [0..Len(bufs) -> Nat]
         /\ BufferSpace(bufs)[0] = 0
         /\ \A i \in 1..Len(bufs) : BufferSpace(bufs)[i] >= bufs[1].len
<1> DEFINE n == Len(bufs)
           Entry == [addr : Addrs, len : 1..(LastAddr + 1)]
           step == [i \in 1..n |-> [k \in Nat |-> k + bufs[i].len]]
<1>1. /\ n \in Nat \ {0} /\ DOMAIN bufs = 1..n
      /\ \A i \in 1..n : bufs[i] \in Entry /\ bufs[i].len \in Nat
  <2>1. bufs # <<>> /\ bufs \in Seq(Entry)
    OBVIOUS
  <2>2. n \in Nat \ {0} /\ DOMAIN bufs = 1..n
    BY <2>1, EmptySeq, LenProperties
  <2>3. ASSUME NEW i \in 1..n PROVE bufs[i] \in Entry
    <3> HIDE DEF Entry
    <3> QED BY <2>1, ElementOfSeq
  <2>4. ASSUME NEW i \in 1..n PROVE bufs[i].len \in Nat
    BY <2>3, SMTT(30)
  <2> QED BY <2>2, <2>3, <2>4
<1>2. step \in [1..n -> [Nat -> Nat]]
  BY <1>1, SMTT(30)
<1> HIDE DEF n, Entry
<1>3. PICK f : Course(f, n, Nat, 0, step)
  <2>1. 0 \in Nat /\ n \in Nat
    BY <1>1
  <2> HIDE DEF step
  <2> QED BY <1>2, <2>1, RecursionUpTo, Zenon
<1>4. /\ f \in [0..n -> Nat] /\ f[0] = 0
      /\ \A i \in 1..n : f[i] = f[i - 1] + bufs[i].len
  <2>1. /\ f \in [0..n -> Nat] /\ f[0] = 0
        /\ \A i \in 1..n : f[i] = step[i][f[i - 1]]
    BY <1>3, Zenon DEF Course
  <2>2. \A i \in 1..n : i - 1 \in 0..n
    BY <1>1
  <2>3. \A i \in 1..n : step[i][f[i - 1]] = f[i - 1] + bufs[i].len
    BY <2>1, <2>2
  <2> QED BY <2>1, <2>3, Zenon
<1> DEFINE Eqn(g) == g = [i \in 0..n |-> IF i = 0 THEN 0 ELSE g[i - 1] + bufs[i].len]
<1>5. Eqn(f)
  <2>1. \A i \in 0..n : i # 0 => i \in 1..n
    BY <1>1
  <2>2. f = [i \in 0..n |-> f[i]]
    BY <1>4
  <2>3. \A i \in 0..n : f[i] = IF i = 0 THEN 0 ELSE f[i - 1] + bufs[i].len
    BY <1>4, <2>1, Zenon
  <2> QED BY <2>2, <2>3, Zenon
<1>6. BufferSpace(bufs) = CHOOSE g : Eqn(g)
  BY Zenon DEF BufferSpace, n
<1> DEFINE g == BufferSpace(bufs)
<1>7. Eqn(g)
  <2> HIDE DEF Eqn
  <2> QED BY <1>5, <1>6, Zenon
<1> HIDE DEF g
<1>8. /\ DOMAIN g = 0..n /\ g[0] = 0 /\ g = [i \in 0..n |-> g[i]]
      /\ \A i \in 1..n : g[i] = g[i - 1] + bufs[i].len
  <2>1. g = [i \in 0..n |-> IF i = 0 THEN 0 ELSE g[i - 1] + bufs[i].len]
    BY <1>7
  <2>2. DOMAIN g = 0..n /\ g = [i \in 0..n |-> g[i]]
    BY <2>1
  <2>3. \A i \in 0..n : g[i] = IF i = 0 THEN 0 ELSE g[i - 1] + bufs[i].len
    BY <2>1
  <2>4. 0 \in 0..n /\ \A i \in 1..n : i \in 0..n /\ i # 0
    BY <1>1
  <2> QED BY <2>2, <2>3, <2>4, Zenon
<1> DEFINE S == {i \in 0..n : g[i] \in Nat /\ (i # 0 => g[i] >= bufs[1].len)}
<1>9. 0 \in S
  BY <1>1, <1>8
<1>10. \A i \in 0..(n - 1) : i \in S => i + 1 \in S
  <2> SUFFICES ASSUME NEW i \in 0..(n - 1), g[i] \in Nat, i # 0 => g[i] >= bufs[1].len
               PROVE  g[i + 1] \in Nat /\ g[i + 1] >= bufs[1].len
    BY <1>1, SMTT(30)
  <2>1. i \in Nat /\ i + 1 \in 1..n /\ (i + 1) - 1 = i /\ 1 \in 1..n
    BY <1>1
  <2>2. g[i + 1] = g[i] + bufs[i + 1].len
    BY <1>8, <2>1
  <2>3. bufs[1].len \in Nat /\ bufs[i + 1].len \in Nat
    BY <1>1, <2>1
  <2>4. CASE i = 0
    <3>1. g[i + 1] = bufs[1].len
      BY <1>8, <2>2, <2>3, <2>4
    <3> QED BY <2>3, <3>1, SMTT(30)
  <2>5. CASE i # 0
    <3>1. g[i] >= bufs[1].len
      BY <2>5, Zenon
    <3>2. g[i] + bufs[i + 1].len \in Nat /\ g[i] + bufs[i + 1].len >= bufs[1].len
      BY <2>3, <3>1, SumAtLeast, Zenon
    <3> QED BY <2>2, <3>2, Zenon
  <2> QED BY <2>4, <2>5
<1>11. \A i \in 0..n : i \in S
  <2> HIDE DEF S
  <2> QED BY <1>1, <1>9, <1>10, InductionUpTo, Zenon
<1>12. g \in [0..n -> Nat]
  BY <1>8, <1>11
<1>13. \A i \in 1..n : g[i] >= bufs[1].len
  BY <1>1, <1>11
<1> QED BY <1>1, <1>8, <1>12, <1>13 DEF g, n, Entry

(* The new bytes among those that begin with off, by position and by       *)
(* offset.                                                                 *)
NewBefore(off, i) == {j \in 0..(i - 1) : off + j \notin DOMAIN taint_mappings}
NewOffs(off, n) == (off..(off + n - 1)) \ DOMAIN taint_mappings

(* A byte that is new gets a number smaller than taintnum will be.         *)
LEMMA NewCount ==
  ASSUME NEW off \in Int, NEW n \in Nat, NEW i \in 0..(n - 1),
         off + i \notin DOMAIN taint_mappings
  PROVE  /\ Cardinality(NewBefore(off, i)) \in Nat
         /\ Cardinality(NewOffs(off, n)) \in Nat
         /\ Cardinality(NewBefore(off, i)) < Cardinality(NewOffs(off, n))
<1> DEFINE A == NewBefore(off, i)
           B == NewOffs(off, n)
           C == B \ {off + i}
           f == [j \in A |-> off + j]
<1>1. A \in SUBSET (0..(i - 1)) /\ B \in SUBSET (off..(off + n - 1))
  BY DEF NewBefore, NewOffs
<1>2. IsFiniteSet(0..(i - 1)) /\ IsFiniteSet(off..(off + n - 1))
  <2>1. i - 1 \in Int /\ off + n - 1 \in Int /\ 0 \in Int
    OBVIOUS
  <2> QED BY <2>1, FS_Interval
<1>3. IsFiniteSet(A) /\ IsFiniteSet(B)
  <2> HIDE DEF A, B
  <2> QED BY <1>1, <1>2, FS_Subset
<1>4. f \in Injection(A, C)
  <2>1. \A j \in A : j \in Int /\ off + j \in C
    BY DEF NewBefore, NewOffs
  <2> HIDE DEF A, C
  <2>2. f \in [A -> C]
    BY <2>1
  <2>3. \A j, k \in A : f[j] = f[k] => j = k
    BY <2>1
  <2> QED BY <2>2, <2>3 DEF Injection, IsInjective
<1>5. off + i \in B
  BY DEF NewOffs
<1> HIDE DEF A, B, f
<1>6. IsFiniteSet(C) /\ Cardinality(C) = Cardinality(B) - 1
  BY <1>3, <1>5, FS_RemoveElement
<1> HIDE DEF C
<1>7. Cardinality(A) <= Cardinality(C)
  BY <1>4, <1>6, FS_Injection
<1>8. Cardinality(A) \in Nat /\ Cardinality(B) \in Nat
  BY <1>3, FS_CardinalityType
<1> QED BY <1>6, <1>7, <1>8 DEF A, B

(* Offsets that are not new count for nothing.                             *)
LEMMA NewOffsCount ==
  ASSUME NEW off \in Int, NEW n \in Int
  PROVE  Cardinality(NewOffs(off, n)) \in Nat
<1>1. NewOffs(off, n) \in SUBSET (off..(off + n - 1))
  BY DEF NewOffs
<1>2. IsFiniteSet(off..(off + n - 1))
  BY FS_Interval
<1>3. IsFiniteSet(NewOffs(off, n))
  BY <1>1, <1>2, FS_Subset
<1> QED BY <1>3, FS_CardinalityType

-----------------------------------------------------------------------------
(* Types: the sockets of the kernel, what a wrapper was called for, and    *)
(* that taint numbers in use are smaller than taintnum.                    *)

HIDE WinsockAssumption

(* What the proofs use of the assumption on the constants.                 *)
LEMMA Constants ==
  /\ NoThread \notin Threads /\ Handles \subseteq Nat
  /\ LastAddr \in Nat /\ Size \in Nat /\ Addrs \subseteq Nat
BY WinsockAssumption

SocketType == [connected : BOOLEAN, off : 0..Size]

KernelTypes ==
  /\ DOMAIN khandles \subseteq Handles
  /\ sockets \in Seq(SocketType)
  /\ \A h \in DOMAIN khandles : khandles[h] \in 1..Len(sockets)
  /\ content \in [Addrs -> [socket : Nat, off : Nat]]

WrappedTypes ==
  \A t \in Threads : pc[t] = "wrapped" /\ call[t].op = "accept" =>
    ret[t] \in Handles \union {SOCKET_ERROR}

RestTypes ==
  /\ lock \in Threads \union {NoThread}
  /\ state \in [Threads -> {"nosyscall", "close"}]
  /\ DOMAIN fds \subseteq Handles \union {SOCKET_ERROR}
  /\ \A h \in DOMAIN fds : fds[h] \in Nat
  /\ {taint_net, g_active, g_taint_introduced, clean} \subseteq BOOLEAN

NumberTypes ==
  /\ taintnum \in Nat \ {0}
  /\ \A o \in DOMAIN taint_mappings : taint_mappings[o] \in 1..(taintnum - 1)
  /\ memory \in [Addrs -> 0..(taintnum - 1)]
  /\ fo \in [Threads -> SUBSET (1..(taintnum - 1))]
  /\ introduced \union used \subseteq 1..(taintnum - 1)

TypeInv ==
  IndInv /\ KernelTypes /\ WrappedTypes /\ RestTypes /\ NumberTypes

(* A socket is connected, or gets bytes.                                   *)
LEMMA SocketChange ==
  ASSUME NEW r \in SocketType, NEW k \in 0..Size
  PROVE  /\ [r EXCEPT !.connected = TRUE] \in SocketType
         /\ [r EXCEPT !.connected = TRUE].connected
         /\ [r EXCEPT !.connected = TRUE].off = r.off
         /\ [r EXCEPT !.off = k] \in SocketType
         /\ [r EXCEPT !.off = k].connected = r.connected
         /\ [r EXCEPT !.off = k].off = k
BY DEF SocketType

(* The offset of a byte, counted from the start of its buffer.             *)
LEMMA PlaceNumber ==
  ASSUME NEW k \in Nat, NEW a \in Nat, NEW b \in Nat, a >= b
  PROVE  k + a - b \in Nat /\ k + a - b >= k
OBVIOUS

(* The socket of a thread's handle.                                        *)
LEMMA SocketTypes ==
  ASSUME KernelTypes, NEW t \in Threads, IsOpen(t)
  PROVE  /\ Socket(t) \in 1..Len(sockets)
         /\ sockets[Socket(t)] \in SocketType
         /\ sockets[Socket(t)].off \in Nat /\ Socket(t) \in Nat
<1>1. Socket(t) \in 1..Len(sockets) /\ sockets \in Seq(SocketType)
  BY DEF KernelTypes, IsOpen, Socket
<1>2. sockets[Socket(t)] \in SocketType
  BY <1>1, ElementOfSeq
<1>3. sockets[Socket(t)].off \in Nat
  BY <1>2, Constants DEF SocketType
<1>4. Len(sockets) \in Nat
  BY <1>1, LenProperties
<1> QED BY <1>1, <1>2, <1>3, <1>4

(* The socket of a thread's handle changes, no other does.                 *)
LEMMA SocketUpdate ==
  ASSUME KernelTypes, NEW t \in Threads, IsOpen(t), NEW e \in SocketType,
         sockets' = [sockets EXCEPT ![Socket(t)] = e]
  PROVE  /\ sockets' \in Seq(SocketType) /\ Len(sockets') = Len(sockets)
         /\ sockets'[Socket(t)] = e
         /\ \A j \in 1..Len(sockets) : j # Socket(t) => sockets'[j] = sockets[j]
<1> DEFINE i == Socket(t)
           u == [sockets EXCEPT ![i] = e]
<1>1. i \in 1..Len(sockets) /\ e \in SocketType /\ sockets \in Seq(SocketType)
  BY SocketTypes DEF KernelTypes
<1> HIDE DEF i
<1>2. /\ u \in Seq(SocketType) /\ Len(u) = Len(sockets)
      /\ \A j \in 1..Len(sockets) : u[j] = IF j = i THEN e ELSE sockets[j]
  BY <1>1, ExceptSeq
<1>3. sockets' = u
  BY DEF i
<1> HIDE DEF u
<1>4. /\ sockets' \in Seq(SocketType) /\ Len(sockets') = Len(sockets)
      /\ sockets'[i] = e
      /\ \A j \in 1..Len(sockets) : j # i => sockets'[j] = sockets[j]
  BY <1>1, <1>2, <1>3
<1> QED BY <1>4 DEF i

(* A socket is connected.                                                  *)
LEMMA ConnectFacts ==
  ASSUME KernelTypes, NEW t \in Threads, IsOpen(t),
         sockets' = [sockets EXCEPT ![Socket(t)].connected = TRUE]
  PROVE  /\ sockets' \in Seq(SocketType) /\ Len(sockets') = Len(sockets)
         /\ sockets'[Socket(t)].connected
         /\ sockets'[Socket(t)].off = sockets[Socket(t)].off
         /\ \A j \in 1..Len(sockets) : j # Socket(t) => sockets'[j] = sockets[j]
<1> DEFINE e == [sockets[Socket(t)] EXCEPT !.connected = TRUE]
<1>1. /\ Socket(t) \in 1..Len(sockets) /\ sockets[Socket(t)] \in SocketType
      /\ sockets \in Seq(SocketType)
  BY SocketTypes DEF KernelTypes
<1>2. e \in SocketType /\ e.connected /\ e.off = sockets[Socket(t)].off
  <2>1. sockets[Socket(t)].off \in 0..Size
    BY <1>1 DEF SocketType
  <2> QED BY <1>1, <2>1, SocketChange
<1>3. sockets' = [sockets EXCEPT ![Socket(t)] = e]
  OBVIOUS
<1> HIDE DEF e
<1>4. /\ sockets' \in Seq(SocketType) /\ Len(sockets') = Len(sockets)
      /\ sockets'[Socket(t)] = e
      /\ \A j \in 1..Len(sockets) : j # Socket(t) => sockets'[j] = sockets[j]
  BY <1>2, <1>3, SocketUpdate
<1> QED BY <1>2, <1>4, Zenon

(* A socket is made for a free handle.                                     *)
LEMMA NewSocketFacts ==
  ASSUME KernelTypes, NEW h \in Free, NEW connected \in BOOLEAN,
         sockets' = Append(sockets, [connected |-> connected, off |-> 0]),
         khandles' = With(khandles, h, Len(sockets) + 1), content' = content
  PROVE  /\ KernelTypes'
         /\ h \in Handles /\ h \notin DOMAIN khandles
         /\ DOMAIN khandles' = DOMAIN khandles \union {h}
         /\ Len(sockets) \in Nat /\ khandles'[h] = Len(sockets) + 1
         /\ Len(sockets') = Len(sockets) + 1
         /\ \A g \in DOMAIN khandles : khandles'[g] = khandles[g]
         /\ sockets'[Len(sockets) + 1] = [connected |-> connected, off |-> 0]
         /\ \A j \in 1..Len(sockets) : sockets'[j] = sockets[j]
<1> DEFINE e == [connected |-> connected, off |-> 0]
<1>1. e \in SocketType /\ sockets \in Seq(SocketType)
  BY Constants DEF SocketType, KernelTypes
<1>2. /\ sockets' \in Seq(SocketType) /\ Len(sockets) \in Nat
      /\ Len(sockets') = Len(sockets) + 1
      /\ sockets'[Len(sockets) + 1] = e
      /\ \A j \in 1..Len(sockets) : sockets'[j] = sockets[j]
  <2> HIDE DEF e
  <2>1. sockets' = Append(sockets, e)
    BY DEF e
  <2> QED BY <1>1, <2>1, AppendProperties, LenProperties
<1>3. /\ h \in Handles /\ h \notin DOMAIN khandles
      /\ DOMAIN khandles' = DOMAIN khandles \union {h}
      /\ khandles'[h] = Len(sockets) + 1
      /\ \A g \in DOMAIN khandles : khandles'[g] = khandles[g]
  BY DEF Free, With
<1>4. KernelTypes'
  <2>1. DOMAIN khandles' \subseteq Handles /\ content' \in [Addrs -> [socket : Nat, off : Nat]]
    BY <1>3 DEF KernelTypes
  <2>2. \A g \in DOMAIN khandles' : khandles'[g] \in 1..Len(sockets')
    <3> SUFFICES ASSUME NEW g \in DOMAIN khandles' PROVE khandles'[g] \in 1..Len(sockets')
      OBVIOUS
    <3>1. CASE g = h
      BY <1>2, <1>3, <3>1
    <3>2. CASE g # h
      <4>1. g \in DOMAIN khandles /\ khandles'[g] \in 1..Len(sockets)
        BY <1>3, <3>2 DEF KernelTypes
      <4> QED BY <1>2, <4>1
    <3> QED BY <3>1, <3>2
  <2> QED BY <1>2, <2>1, <2>2 DEF KernelTypes
<1> QED BY <1>2, <1>3, <1>4

(* The bytes that arrive: those of the first buffer, when they fit there,  *)
(* follow each other.                                                      *)
LEMMA FilledFacts ==
  ASSUME KernelTypes, NEW id \in 1..Len(sockets), NEW bufs \in BufferLists,
         NEW n \in Nat
  PROVE  /\ Filled(id, bufs, n) \in [Addrs -> [socket : Nat, off : Nat]]
         /\ n <= bufs[1].len => \A a \in Addrs :
              Filled(id, bufs, n)[a] =
                IF a \in bufs[1].addr..(bufs[1].addr + n - 1)
                THEN [socket |-> id, off |-> sockets[id].off + (a - bufs[1].addr)]
                ELSE content[a]
<1> DEFINE start == BufferSpace(bufs)
           place(i, a) == start[i - 1] + a - bufs[i].addr
           holds(a) == {i \in DOMAIN bufs :
                          /\ a \in bufs[i].addr..(bufs[i].addr + bufs[i].len - 1)
                          /\ place(i, a) < n}
<1>1. /\ Len(bufs) \in Nat \ {0} /\ DOMAIN bufs = 1..Len(bufs)
      /\ \A i \in 1..Len(bufs) : bufs[i] \in [addr : Addrs, len : 1..(LastAddr + 1)]
      /\ start \in [0..Len(bufs) -> Nat] /\ start[0] = 0
      /\ \A i \in 1..Len(bufs) : start[i] >= bufs[1].len
  BY BufferSpaceFacts, Zenon
<1>2. id \in Nat /\ sockets[id] \in SocketType /\ sockets[id].off \in Nat
  <2>1. sockets \in Seq(SocketType) /\ Len(sockets) \in Nat
    BY LenProperties DEF KernelTypes
  <2>2. sockets[id] \in SocketType
    BY <2>1, ElementOfSeq
  <2> QED BY <2>1, <2>2, Constants DEF SocketType
<1> HIDE DEF start
<1>3. \A a \in Addrs : \A i \in holds(a) :
        /\ i \in 1..Len(bufs) /\ place(i, a) \in Nat
        /\ i # 1 => place(i, a) >= bufs[1].len
  <2> SUFFICES ASSUME NEW a \in Addrs, NEW i \in holds(a)
               PROVE  /\ i \in 1..Len(bufs) /\ place(i, a) \in Nat
                      /\ i # 1 => place(i, a) >= bufs[1].len
    OBVIOUS
  <2>1. /\ i \in 1..Len(bufs) /\ 1 \in 1..Len(bufs)
        /\ i - 1 \in 0..Len(bufs) /\ (i # 1 => i - 1 \in 1..Len(bufs))
    BY <1>1, SMTT(30) DEF holds
  <2>2. /\ bufs[i].addr \in Nat /\ bufs[i].len \in Nat /\ bufs[1].len \in Nat
        /\ start[i - 1] \in Nat /\ (i # 1 => start[i - 1] >= bufs[1].len)
    <3>1. /\ bufs[i] \in [addr : Addrs, len : 1..(LastAddr + 1)]
          /\ bufs[1] \in [addr : Addrs, len : 1..(LastAddr + 1)]
      BY <1>1, <2>1
    <3>2. bufs[i].addr \in Nat /\ bufs[i].len \in Nat /\ bufs[1].len \in Nat
      BY <3>1, Constants
    <3>3. start[i - 1] \in Nat /\ (i # 1 => start[i - 1] >= bufs[1].len)
      BY <1>1, <2>1, Zenon
    <3> QED BY <3>2, <3>3
  <2>3. a \in Nat /\ a >= bufs[i].addr
    BY <2>2, Constants DEF holds
  <2>4. place(i, a) \in Nat /\ place(i, a) >= start[i - 1]
    BY <2>2, <2>3, PlaceNumber
  <2> HIDE DEF place
  <2>5. i # 1 => place(i, a) >= bufs[1].len
    <3>1. ASSUME i # 1 PROVE start[i - 1] >= bufs[1].len
      BY <2>2, <3>1
    <3> QED BY <2>2, <2>4, <3>1
  <2> QED BY <2>1, <2>4, <2>5
<1>4. Filled(id, bufs, n) =
        [a \in Addrs |->
           IF holds(a) = {} THEN content[a]
           ELSE [socket |-> id,
                 off |-> sockets[id].off + place(CHOOSE i \in holds(a) : TRUE, a)]]
  BY Zenon DEF Filled, start
<1> HIDE DEF place, holds
<1>5. \A a \in Addrs : holds(a) # {} => (CHOOSE i \in holds(a) : TRUE) \in holds(a)
  OBVIOUS
<1>6. Filled(id, bufs, n) \in [Addrs -> [socket : Nat, off : Nat]]
  <2>1. ASSUME NEW a \in Addrs, holds(a) # {}
        PROVE  sockets[id].off + place(CHOOSE i \in holds(a) : TRUE, a) \in Nat
    <3>1. place(CHOOSE i \in holds(a) : TRUE, a) \in Nat
      BY <1>3, <1>5, <2>1, Zenon
    <3> QED BY <1>2, <3>1
  <2> QED BY <1>2, <1>4, <2>1 DEF KernelTypes
<1>7. ASSUME n <= bufs[1].len, NEW a \in Addrs
      PROVE  Filled(id, bufs, n)[a] =
                IF a \in bufs[1].addr..(bufs[1].addr + n - 1)
                THEN [socket |-> id, off |-> sockets[id].off + (a - bufs[1].addr)]
                ELSE content[a]
  <2>1. /\ 1 \in 1..Len(bufs) /\ bufs[1].addr \in Nat /\ bufs[1].len \in Nat
        /\ a \in Nat
    BY <1>1, Constants
  <2>2. \A i \in holds(a) : i = 1
    <3> SUFFICES ASSUME NEW i \in holds(a), i # 1 PROVE FALSE
      OBVIOUS
    <3>1. place(i, a) < n
      BY DEF holds
    <3>2. place(i, a) \in Nat /\ place(i, a) >= bufs[1].len
      BY <1>3
    <3> QED BY <1>7, <2>1, <3>1, <3>2
  <2>3. place(1, a) = a - bufs[1].addr
    BY <1>1, <2>1 DEF place
  <2>4. 1 \in holds(a) <=> a \in bufs[1].addr..(bufs[1].addr + n - 1)
    <3>1. 1 \in holds(a) <=>
            /\ a \in bufs[1].addr..(bufs[1].addr + bufs[1].len - 1)
            /\ a - bufs[1].addr < n
      BY <1>1, <2>1, <2>3, Zenon DEF holds
    <3> QED BY <1>7, <2>1, <3>1, SMTT(30)
  <2>5. CASE 1 \in holds(a)
    <3>1. (CHOOSE i \in holds(a) : TRUE) = 1 /\ holds(a) # {}
      BY <1>5, <2>2, <2>5
    <3>2. Filled(id, bufs, n)[a] = [socket |-> id, off |-> sockets[id].off + place(1, a)]
      BY <1>4, <3>1
    <3> QED BY <2>3, <2>4, <2>5, <3>2
  <2>6. CASE 1 \notin holds(a)
    <3>1. holds(a) = {}
      BY <2>2, <2>6
    <3> QED BY <1>4, <2>4, <2>6, <3>1
  <2> QED BY <2>5, <2>6
<1> QED BY <1>6, <1>7

(* Bytes arrive for the socket of a call.                                  *)
LEMMA ArriveFacts ==
  ASSUME KernelTypes, NEW t \in Threads, call[t] \in Calls, NEW n \in Nat,
         Arrives(t, n)
  PROVE  LET id == Socket(t)
             first == call[t].bufs[1]
         IN  /\ KernelTypes' /\ IsOpen(t) /\ UNCHANGED khandles
             /\ sockets[id].connected
             /\ Len(sockets') = Len(sockets)
             /\ sockets'[id].connected
             /\ sockets'[id].off = sockets[id].off + n
             /\ \A j \in 1..Len(sockets) : j # id => sockets'[j] = sockets[j]
             /\ n <= first.len => \A a \in Addrs :
                  content'[a] =
                    IF a \in first.addr..(first.addr + n - 1)
                    THEN [socket |-> id, off |-> sockets[id].off + (a - first.addr)]
                    ELSE content[a]
<1> DEFINE e == [sockets[Socket(t)] EXCEPT !.off = sockets[Socket(t)].off + n]
<1>1. /\ IsOpen(t) /\ sockets[Socket(t)].connected /\ khandles' = khandles
      /\ sockets[Socket(t)].off + n <= Size
      /\ content' = Filled(Socket(t), call[t].bufs, n)
      /\ sockets' = [sockets EXCEPT ![Socket(t)] = e]
  BY DEF Arrives
<1>2. /\ Socket(t) \in 1..Len(sockets) /\ sockets[Socket(t)] \in SocketType
      /\ sockets[Socket(t)].off \in Nat
  BY <1>1, SocketTypes
<1>3. /\ e \in SocketType /\ e.connected = sockets[Socket(t)].connected
      /\ e.off = sockets[Socket(t)].off + n
  <2>1. sockets[Socket(t)].off + n \in 0..Size
    BY <1>1, <1>2, Constants
  <2> QED BY <1>2, <2>1, SocketChange
<1> HIDE DEF e
<1>4. /\ sockets' \in Seq(SocketType) /\ Len(sockets') = Len(sockets)
      /\ sockets'[Socket(t)] = e
      /\ \A j \in 1..Len(sockets) : j # Socket(t) => sockets'[j] = sockets[j]
  BY <1>1, <1>3, SocketUpdate
<1>5. call[t].bufs \in BufferLists
  BY DEF Calls
<1>6. /\ content' \in [Addrs -> [socket : Nat, off : Nat]]
      /\ n <= call[t].bufs[1].len => \A a \in Addrs :
           content'[a] =
             IF a \in call[t].bufs[1].addr..(call[t].bufs[1].addr + n - 1)
             THEN [socket |-> Socket(t),
                   off |-> sockets[Socket(t)].off + (a - call[t].bufs[1].addr)]
             ELSE content[a]
  <2> DEFINE id == Socket(t)
             bufs == call[t].bufs
             F == Filled(id, bufs, n)
  <2>1. id \in 1..Len(sockets) /\ bufs \in BufferLists /\ content' = F
    BY <1>1, <1>2, <1>5
  <2> HIDE DEF id, bufs
  <2>2. /\ F \in [Addrs -> [socket : Nat, off : Nat]]
        /\ n <= bufs[1].len => \A a \in Addrs :
             F[a] = IF a \in bufs[1].addr..(bufs[1].addr + n - 1)
                    THEN [socket |-> id,
                          off |-> sockets[id].off + (a - bufs[1].addr)]
                    ELSE content[a]
    BY <2>1, FilledFacts
  <2> HIDE DEF F
  <2> QED BY <2>1, <2>2, Zenon DEF id, bufs
<1>7. KernelTypes'
  BY <1>1, <1>4, <1>6 DEF KernelTypes
<1> QED BY <1>1, <1>3, <1>4, <1>6, <1>7, Zenon

(* The steps of the kernel keep the types of its state.                    *)
LEMMA KernelTypesStep ==
  ASSUME IndInv, KernelTypes, NEW t \in Threads,
         \/ KernelSocket(t) \/ KernelAccept(t) \/ KernelConnect(t)
         \/ KernelRecv(t) \/ KernelOverlapped(t) \/ KernelClose(t)
  PROVE  KernelTypes'
<1>1. pc[t] = "kernel" /\ call[t] \in Calls
  <2>1. pc[t] = "kernel"
    BY DEF KernelSocket, KernelAccept, KernelConnect, KernelRecv,
           KernelOverlapped, KernelClose, Doing
  <2> QED BY <2>1 DEF IndInv, InCall, CallPlaces
<1>2. CASE KernelSocket(t) \/ KernelAccept(t)
  <2>1. PICK h \in Free, connected \in BOOLEAN :
          /\ sockets' = Append(sockets, [connected |-> connected, off |-> 0])
          /\ khandles' = With(khandles, h, Len(sockets) + 1)
          /\ content' = content
    BY <1>2 DEF KernelSocket, KernelAccept, NewSocket
  <2> QED BY <2>1, NewSocketFacts
<1>3. CASE KernelConnect(t)
  <2>1. /\ IsOpen(t) /\ khandles' = khandles /\ content' = content
        /\ sockets' = [sockets EXCEPT ![Socket(t)].connected = TRUE]
    BY <1>3 DEF KernelConnect
  <2>2. sockets' \in Seq(SocketType) /\ Len(sockets') = Len(sockets)
    BY <2>1, ConnectFacts
  <2> QED BY <2>1, <2>2 DEF KernelTypes
<1>4. CASE KernelRecv(t) \/ KernelOverlapped(t)
  <2>1. PICK n \in Nat : Arrives(t, n)
    BY <1>4, Constants DEF KernelRecv, KernelOverlapped
  <2> QED BY <1>1, <2>1, ArriveFacts
<1>5. CASE KernelClose(t)
  <2>1. /\ khandles' = Without(khandles, call[t].s)
        /\ sockets' = sockets /\ content' = content
    BY <1>5 DEF KernelClose
  <2> QED BY <2>1 DEF KernelTypes, Without
<1> QED BY <1>2, <1>3, <1>4, <1>5

Step(t) ==
  \/ Call(t)
  \/ KernelSocket(t) \/ KernelAccept(t) \/ KernelConnect(t) \/ KernelRecv(t)
  \/ KernelOverlapped(t) \/ RecvUnwinds(t) \/ KernelClose(t) \/ CallFails(t)
  \/ acceptHelper(t) \/ CloseExit(t)
  \/ AfterRecvNothing(t) \/ AfterRecv(t)
  \/ AlreadyIntroduced(t) \/ TActivate(t) \/ PIN_RemoveInstrumentation(t) \/ AddFrame(t)
  \/ Instruction(t) \/ AppendBuffer(t)

Others(t) ==
  \A u \in Threads \ {t} :
    pc'[u] = pc[u] /\ call'[u] = call[u] /\ ret'[u] = ret[u] /\ state'[u] = state[u]

Plans == {"nosyscall", "close"}

(* A thread moves, the others stay where they are.                         *)
LEMMA Moved ==
  ASSUME IndInv, RestTypes, NEW t \in Threads, NEW place, NEW c, NEW r,
         NEW s \in Plans, MoveWith(t, place, c, r, s)
  PROVE  /\ pc'[t] = place /\ Others(t)
         /\ place # "app" => call'[t] = c /\ ret'[t] = r /\ state'[t] = s
         /\ state' \in [Threads -> Plans]
BY DEF IndInv, ThreadTypes, RestTypes, MoveWith, Others, Plans

(* ... with the call it has.                                               *)
LEMMA PlainMoved ==
  ASSUME IndInv, RestTypes, NEW t \in Threads, NEW place, Move(t, place)
  PROVE  /\ pc'[t] = place /\ Others(t)
         /\ place # "app" => call'[t] = call[t] /\ ret'[t] = ret[t] /\ state'[t] = state[t]
         /\ state' \in [Threads -> Plans]
<1>1. state[t] \in Plans
  BY DEF RestTypes, Plans
<1> QED BY <1>1, Moved DEF Move

(* ... back from the kernel with a result.                                 *)
LEMMA ReturnMoved ==
  ASSUME IndInv, RestTypes, NEW t \in Threads, NEW place, NEW r, Returns(t, place, r)
  PROVE  /\ pc'[t] = place /\ Others(t)
         /\ place # "app" => call'[t] = call[t] /\ ret'[t] = r /\ state'[t] = state[t]
         /\ state' \in [Threads -> Plans]
<1>1. state[t] \in Plans
  BY DEF RestTypes, Plans
<1> QED BY <1>1, Moved DEF Returns

(* Every step is a move, and only the kernel enters a wrapper.             *)
LEMMA StepMoves ==
  ASSUME IndInv, RestTypes, NEW t \in Threads, Step(t)
  PROVE  /\ Others(t) /\ state' \in [Threads -> Plans]
         /\ pc'[t] = "wrapped" => KernelAccept(t) \/ KernelConnect(t) \/ CallFails(t)
<1>1. CASE Call(t)
  <2>1. PICK c \in Calls : MoveWith(t, "kernel", c, 0, taintPreSC(c))
    BY <1>1 DEF Call
  <2>2. taintPreSC(c) \in Plans
    BY DEF taintPreSC, Plans
  <2> QED BY <2>1, <2>2, Moved
<1>2. CASE KernelSocket(t)
  <2>1. PICK h : Returns(t, "app", h)
    BY <1>2 DEF KernelSocket, NewSocket
  <2> QED BY <2>1, ReturnMoved
<1>3. CASE KernelAccept(t)
  <2>1. PICK h : Returns(t, "wrapped", h)
    BY <1>3 DEF KernelAccept, NewSocket
  <2> QED BY <1>3, <2>1, ReturnMoved
<1>4. CASE KernelConnect(t)
  <2>1. PICK r : Returns(t, "wrapped", r)
    BY <1>4 DEF KernelConnect
  <2> QED BY <1>4, <2>1, ReturnMoved
<1>5. CASE KernelRecv(t) \/ KernelOverlapped(t)
  <2>1. PICK n : Returns(t, "after", n)
    BY <1>5 DEF KernelRecv, KernelOverlapped
  <2> QED BY <2>1, ReturnMoved
<1>6. CASE RecvUnwinds(t)
  <2>1. Returns(t, "app", SOCKET_ERROR)
    BY <1>6 DEF RecvUnwinds
  <2> QED BY <2>1, ReturnMoved
<1>7. CASE KernelClose(t)
  <2>1. Returns(t, "closed", 0)
    BY <1>7 DEF KernelClose
  <2> QED BY <2>1, ReturnMoved
<1>8. CASE CallFails(t)
  <2>1. Returns(t, ReturnPlace[call[t].op], SOCKET_ERROR)
    BY <1>8 DEF CallFails
  <2> QED BY <1>8, <2>1, ReturnMoved
<1>9. CASE acceptHelper(t) \/ CloseExit(t) \/ AfterRecvNothing(t) \/ AddFrame(t)
           \/ AppendBuffer(t)
  <2>1. Move(t, "app")
    BY <1>9 DEF acceptHelper, CloseExit, AfterRecvNothing, AddFrame, AppendBuffer, Locked
  <2> QED BY <2>1, PlainMoved
<1>10. CASE AfterRecv(t)
  <2>1. Move(t, IF g_taint_introduced THEN "frame" ELSE "tactivate")
    BY <1>10 DEF AfterRecv, Locked
  <2>2. PICK place \in {"frame", "tactivate"} : Move(t, place)
    BY <2>1
  <2> QED BY <2>2, PlainMoved
<1>11. CASE AlreadyIntroduced(t) \/ PIN_RemoveInstrumentation(t)
  <2>1. Move(t, "frame")
    BY <1>11 DEF AlreadyIntroduced, PIN_RemoveInstrumentation
  <2> QED BY <2>1, PlainMoved
<1>12. CASE TActivate(t)
  <2>1. Move(t, "tremove")
    BY <1>12 DEF TActivate
  <2> QED BY <2>1, PlainMoved
<1>13. CASE Instruction(t)
  <2>1. Move(t, "append")
    BY <1>13 DEF Instruction
  <2> QED BY <2>1, PlainMoved
<1> QED
  BY <1>1, <1>2, <1>3, <1>4, <1>5, <1>6, <1>7, <1>8, <1>9, <1>10, <1>11, <1>12,
     <1>13 DEF Step

(* What accept returns is a handle or an error.                            *)
LEMMA WrappedTypesStep ==
  ASSUME TypeInv, NEW t \in Threads, Step(t)
  PROVE  WrappedTypes'
<1> USE DEF TypeInv
<1>1. Others(t) /\ (pc'[t] = "wrapped" => KernelAccept(t) \/ KernelConnect(t) \/ CallFails(t))
  BY StepMoves
<1>2. CASE KernelAccept(t)
  <2>1. PICK h \in Handles : Returns(t, "wrapped", h)
    BY <1>2 DEF KernelAccept, NewSocket, Free
  <2>2. ret'[t] \in Handles
    BY <2>1, ReturnMoved
  <2> QED BY <1>1, <2>2 DEF WrappedTypes, Others
<1>3. CASE KernelConnect(t)
  <2>1. call[t].op # "accept" /\ \E r : Returns(t, "wrapped", r)
    BY <1>3 DEF KernelConnect, Doing
  <2>2. call'[t].op # "accept"
    BY <2>1, ReturnMoved
  <2> QED BY <1>1, <2>2 DEF WrappedTypes, Others
<1>4. CASE CallFails(t)
  <2>1. Returns(t, ReturnPlace[call[t].op], SOCKET_ERROR)
    BY <1>4 DEF CallFails
  <2>2. pc'[t] = "wrapped" => ret'[t] = SOCKET_ERROR
    BY <2>1, ReturnMoved
  <2> QED BY <1>1, <2>2 DEF WrappedTypes, Others
<1>5. CASE pc'[t] # "wrapped"
  BY <1>1, <1>5 DEF WrappedTypes, Others
<1> QED BY <1>1, <1>2, <1>3, <1>4, <1>5

(* A wrapper tracks handles, or an error.                                  *)
LEMMA TrackedTypes ==
  ASSUME TypeInv, NEW t \in Threads, pc[t] = "wrapped"
  PROVE  TrackedBy(t) \subseteq Handles \union {SOCKET_ERROR}
BY DEF TypeInv, IndInv, InCall, CallPlaces, WrappedTypes, TrackedBy, Calls

(* The lock, the plans and the tracker's offsets.                          *)
LEMMA RestTypesStep ==
  ASSUME TypeInv, NEW t \in Threads, Step(t)
  PROVE  RestTypes'
<1> USE DEF TypeInv
<1>1. state' \in [Threads -> Plans]
  BY StepMoves
<1>2. lock' \in Threads \union {NoThread}
      /\ {taint_net, g_active, g_taint_introduced, clean}' \subseteq BOOLEAN
  BY DEF Step, RestTypes, Call, KernelSocket, KernelAccept, NewSocket, KernelConnect,
         KernelRecv, KernelOverlapped, RecvUnwinds, KernelClose, CallFails, Returns,
         acceptHelper, CloseExit, AfterRecvNothing, AfterRecv, AlreadyIntroduced,
         TActivate, PIN_RemoveInstrumentation, AddFrame, Instruction, AppendBuffer,
         Locked, flags, history
<1>3. /\ DOMAIN fds' \subseteq Handles \union {SOCKET_ERROR}
      /\ \A h \in DOMAIN fds' : fds'[h] \in Nat
  <2>1. CASE acceptHelper(t)
    <3>1. TrackedBy(t) \subseteq Handles \union {SOCKET_ERROR}
      BY <2>1, TrackedTypes DEF acceptHelper, Locked
    <3> QED BY <2>1, <3>1 DEF acceptHelper, RestTypes
  <2>2. CASE CloseExit(t)
    BY <2>2 DEF CloseExit, Without, RestTypes
  <2>3. CASE AfterRecv(t)
    <3>1. /\ Top(t).fd \in DOMAIN fds /\ ret[t] > 0
          /\ fds' = [fds EXCEPT ![Top(t).fd] = @ + ret[t]]
      BY <2>3 DEF AfterRecv
    <3>2. ret[t] \in Int
      BY DEF IndInv, ThreadTypes
    <3> QED BY <3>1, <3>2 DEF RestTypes
  <2>4. CASE UNCHANGED fds
    BY <2>4 DEF RestTypes
  <2> QED
    BY <2>1, <2>2, <2>3, <2>4
    DEF Step, Call, KernelSocket, KernelAccept, NewSocket, KernelConnect, KernelRecv,
        KernelOverlapped, RecvUnwinds, KernelClose, CallFails, Returns,
        AfterRecvNothing, AlreadyIntroduced, TActivate, PIN_RemoveInstrumentation,
        AddFrame, Instruction, AppendBuffer, tracker
<1> QED BY <1>1, <1>2, <1>3 DEF RestTypes, Plans

(* The number of a byte, known or new, is smaller than taintnum will be.   *)
LEMMA TagTypes ==
  ASSUME NumberTypes, NEW off \in Int, NEW n \in Nat, NEW i \in 0..(n - 1)
  PROVE  Tag(off, i) \in 1..(taintnum + Cardinality(NewOffs(off, n)) - 1)
<1>1. taintnum \in Nat \ {0}
  BY DEF NumberTypes
<1>2. n \in Int /\ Cardinality(NewOffs(off, n)) \in Nat
  BY NewOffsCount
<1>3. CASE off + i \in DOMAIN taint_mappings
  <2>1. Tag(off, i) \in 1..(taintnum - 1)
    BY <1>3 DEF Tag, NumberTypes
  <2> QED BY <1>1, <1>2, <2>1
<1>4. CASE off + i \notin DOMAIN taint_mappings
  <2>1. Tag(off, i) = taintnum + Cardinality(NewBefore(off, i))
    BY <1>4 DEF Tag, NewBefore
  <2>2. /\ Cardinality(NewBefore(off, i)) \in Nat
        /\ Cardinality(NewBefore(off, i)) < Cardinality(NewOffs(off, n))
    BY <1>4, NewCount
  <2> QED BY <1>1, <1>2, <2>1, <2>2
<1> QED BY <1>3, <1>4

(* The tracker's numbers after n bytes have been tainted.                  *)
LEMMA IntroducedTypes ==
  ASSUME NumberTypes, NEW a \in Nat, NEW n \in Nat, NEW off \in Int,
         introMemTaint(a, n, off)
  PROVE  /\ taintnum' \in Nat \ {0} /\ taintnum' >= taintnum
         /\ \A o \in DOMAIN taint_mappings' : taint_mappings'[o] \in 1..(taintnum' - 1)
         /\ memory' \in [Addrs -> 0..(taintnum' - 1)]
         /\ Tags(n, off) \subseteq 1..(taintnum' - 1)
<1>1. taintnum \in Nat \ {0} /\ Cardinality(NewOffs(off, n)) \in Nat
  BY NewOffsCount DEF NumberTypes
<1>2. taintnum' = taintnum + Cardinality(NewOffs(off, n))
  BY DEF introMemTaint, NewOffs
<1>3. taintnum' \in Nat \ {0} /\ taintnum' >= taintnum
  BY <1>1, <1>2
<1>4. Tags(n, off) \subseteq 1..(taintnum' - 1)
  <2> SUFFICES ASSUME NEW i \in 0..(n - 1) PROVE Tag(off, i) \in 1..(taintnum' - 1)
    BY DEF Tags
  <2>1. Tag(off, i) \in 1..(taintnum + Cardinality(NewOffs(off, n)) - 1)
    BY TagTypes
  <2> QED BY <1>1, <1>2, <2>1
<1>5. /\ \A b \in Addrs : memory'[b] \in {memory[b]} \union Tags(n, off)
      /\ \A o \in DOMAIN taint_mappings' :
           \/ o \in DOMAIN taint_mappings /\ taint_mappings'[o] = taint_mappings[o]
           \/ taint_mappings'[o] \in Tags(n, off)
  <2>1. a \in Int /\ n \in Int
    OBVIOUS
  <2> QED BY <2>1, IntroducedNumbers
<1>6. \A o \in DOMAIN taint_mappings' : taint_mappings'[o] \in 1..(taintnum' - 1)
  <2> SUFFICES ASSUME NEW o \in DOMAIN taint_mappings'
               PROVE  taint_mappings'[o] \in 1..(taintnum' - 1)
    OBVIOUS
  <2>1. CASE taint_mappings'[o] \in Tags(n, off)
    BY <1>4, <2>1
  <2>2. CASE o \in DOMAIN taint_mappings /\ taint_mappings'[o] = taint_mappings[o]
    <3>1. taint_mappings[o] \in 1..(taintnum - 1)
      BY <2>2 DEF NumberTypes
    <3> QED BY <1>1, <1>3, <2>2, <3>1
  <2> QED BY <1>5, <2>1, <2>2
<1>7. memory' \in [Addrs -> 0..(taintnum' - 1)]
  <2>1. memory' = [b \in Addrs |-> memory'[b]]
    BY DEF introMemTaint
  <2>2. ASSUME NEW b \in Addrs PROVE memory'[b] \in 0..(taintnum' - 1)
    <3>1. memory[b] \in 0..(taintnum - 1)
      BY DEF NumberTypes
    <3>2. memory[b] \in 0..(taintnum' - 1)
      BY <1>1, <1>3, <3>1
    <3>3. \A k \in Tags(n, off) : k \in 0..(taintnum' - 1)
      BY <1>4
    <3> QED BY <1>5, <3>2, <3>3
  <2> QED BY <2>1, <2>2
<1> QED BY <1>3, <1>4, <1>6, <1>7

(* Taint numbers in use stay smaller than taintnum.                        *)
LEMMA NumberTypesStep ==
  ASSUME TypeInv, NEW t \in Threads, Step(t)
  PROVE  NumberTypes'
<1> USE DEF TypeInv
<1>1. CASE AfterRecv(t)
  <2>1. /\ pc[t] = "after" /\ ret[t] > 0 /\ Top(t).fd \in DOMAIN fds
        /\ introMemTaint(Top(t).addr, ret[t], fds[Top(t).fd])
        /\ fo' = [fo EXCEPT ![t] = Tags(ret[t], fds[Top(t).fd])]
        /\ UNCHANGED <<introduced, used>>
    BY <1>1 DEF AfterRecv
  <2>2. Top(t).addr \in Nat
    BY <2>1, PoppedTypes, Constants
  <2>3. ret[t] \in Nat
    BY <2>1 DEF IndInv, ThreadTypes
  <2>4. fds[Top(t).fd] \in Int
    BY <2>1 DEF RestTypes
  <2>5. /\ taintnum' \in Nat \ {0} /\ taintnum' >= taintnum
        /\ \A o \in DOMAIN taint_mappings' : taint_mappings'[o] \in 1..(taintnum' - 1)
        /\ memory' \in [Addrs -> 0..(taintnum' - 1)]
        /\ Tags(ret[t], fds[Top(t).fd]) \subseteq 1..(taintnum' - 1)
    BY <2>1, <2>2, <2>3, <2>4, IntroducedTypes
  <2>6. taintnum \in Nat /\ 1..(taintnum - 1) \subseteq 1..(taintnum' - 1)
    BY <2>5 DEF NumberTypes
  <2>7. fo' \in [Threads -> SUBSET (1..(taintnum' - 1))]
    BY <2>1, <2>5, <2>6 DEF NumberTypes
  <2>8. introduced' \union used' \subseteq 1..(taintnum' - 1)
    BY <2>1, <2>6 DEF NumberTypes
  <2> QED BY <2>5, <2>7, <2>8 DEF NumberTypes
<1>2. CASE AddFrame(t)
  <2>1. /\ introduced' = introduced \union fo[t] /\ fo' = [fo EXCEPT ![t] = {}]
        /\ UNCHANGED <<taintnum, taint_mappings, memory, used>>
    BY <1>2 DEF AddFrame, tracker
  <2> QED BY <2>1 DEF NumberTypes
<1>3. CASE AppendBuffer(t)
  <2>1. PICK a \in Addrs : used' = used \union ({memory[a]} \ {NOTAINT})
    BY <1>3 DEF AppendBuffer
  <2>2. memory[a] \in 0..(taintnum - 1) /\ taintnum \in Nat
    BY DEF NumberTypes
  <2>3. {memory[a]} \ {NOTAINT} \subseteq 1..(taintnum - 1)
    BY <2>2 DEF NOTAINT
  <2>4. UNCHANGED <<taintnum, taint_mappings, memory, fo, introduced>>
    BY <1>3 DEF AppendBuffer, tracker
  <2> QED BY <2>1, <2>3, <2>4 DEF NumberTypes
<1>4. CASE UNCHANGED <<taintnum, taint_mappings, memory, fo, introduced, used>>
  BY <1>4 DEF NumberTypes
<1> QED
  BY <1>1, <1>2, <1>3, <1>4
  DEF Step, Call, KernelSocket, KernelAccept, NewSocket, KernelConnect, KernelRecv,
      KernelOverlapped, RecvUnwinds, KernelClose, CallFails, Returns, acceptHelper,
      CloseExit, AfterRecvNothing, AlreadyIntroduced, TActivate,
      PIN_RemoveInstrumentation, Instruction, tracker, trace

(* The types hold in the beginning.                                        *)
LEMMA InitTypeInv == Init => TypeInv
<1> SUFFICES ASSUME Init PROVE TypeInv
  OBVIOUS
<1>1. IndInv
  BY InitIndInv
<1>2. KernelTypes
  BY DEF Init, KernelTypes, NoByte
<1>3. WrappedTypes /\ RestTypes
  BY DEF Init, WrappedTypes, RestTypes
<1>4. NumberTypes
  BY DEF Init, NumberTypes, NOTAINT
<1> QED BY <1>1, <1>2, <1>3, <1>4 DEF TypeInv

(* Every step of the wrappers, the kernel and the program keeps the types. *)
LEMMA NextTypeInv == TypeInv /\ [Next]_vars => TypeInv'
<1> SUFFICES ASSUME TypeInv, [Next]_vars PROVE TypeInv'
  OBVIOUS
<1>1. IndInv'
  BY NextIndInv DEF TypeInv
<1>2. CASE UNCHANGED vars
  BY <1>1, <1>2 DEF TypeInv, KernelTypes, WrappedTypes, RestTypes, NumberTypes,
                    vars, kernel, tracker, flags, trace, history
<1>3. ASSUME NEW t \in Threads, Step(t) PROVE TypeInv'
  <2>1. KernelTypes'
    <3>1. CASE UNCHANGED kernel
      BY <3>1 DEF TypeInv, KernelTypes, kernel
    <3> QED
      BY <1>3, <3>1, KernelTypesStep
      DEF TypeInv, Step, Call, RecvUnwinds, CallFails, acceptHelper, CloseExit,
          AfterRecvNothing, AfterRecv, AlreadyIntroduced, TActivate,
          PIN_RemoveInstrumentation, AddFrame, Instruction, AppendBuffer, Locked
  <2> QED
    BY <1>1, <1>3, <2>1, WrappedTypesStep, RestTypesStep, NumberTypesStep DEF TypeInv
<1> QED BY <1>2, <1>3 DEF Next, Step

(* Every variable keeps its type: handles are those of open sockets, a     *)
(* wrapper gets a handle or an error, offsets are numbers, and no byte has *)
(* a taint number the tracker has not given.                               *)
THEOREM TypeCorrect == Spec => []TypeOK
<1>1. TypeInv => TypeOK
  BY DEF TypeInv, IndInv, ThreadTypes, KernelTypes, RestTypes, NumberTypes, TypeOK,
         SocketType
<1> QED
  BY <1>1, InitTypeInv, NextTypeInv, PTL DEF Spec

-----------------------------------------------------------------------------
(* The network is followed.  In all runs no two handles are one socket, a  *)
(* socket that is not connected has sent nothing, and the top of a         *)
(* thread's stack is the call it is in.                                    *)

HandlesApart ==
  \A g, h \in DOMAIN khandles : khandles[g] = khandles[h] => g = h

UnconnectedFresh ==
  \A i \in 1..Len(sockets) : ~sockets[i].connected => sockets[i].off = 0

TopOfCall ==
  \A t \in Threads : Receiving(t) =>
    Top(t) = [fd |-> call[t].s, addr |-> call[t].bufs[1].addr]

KernelInv == HandlesApart /\ UnconnectedFresh /\ TopOfCall

(* In clean runs at most one thread is in a call.                          *)
Idle == {"app", "append"}

Serial == \A t, u \in Threads : t # u => pc[t] \in Idle \/ pc[u] \in Idle

(* What is known of the handle of a call: at the entry of connect and of   *)
(* close, in the wrappers of accept and connect, after a receive, after a  *)
(* close.                                                                  *)
ConnectFollowed(t) ==
  pc[t] = "kernel" /\ call[t].op = "connect" =>
    IsOpen(t) /\ ~sockets[Socket(t)].connected

CloseFollowed(t) ==
  pc[t] = "kernel" /\ call[t].op = "close" =>
    (state[t] = "close" <=> call[t].s \in DOMAIN fds)

WrappedFollowed(t) ==
  pc[t] = "wrapped" => \A h \in TrackedBy(t) :
    h # SOCKET_ERROR => h \in DOMAIN khandles /\ sockets[khandles[h]].off = 0

Got(t) == pc[t] = "after" /\ ret[t] > 0

ReceivedFollowed(t) ==
  LET a0 == call[t].bufs[1].addr
      off == fds[call[t].s]
  IN  Got(t) =>
        /\ IsOpen(t) /\ sockets[Socket(t)].connected /\ call[t].s \in DOMAIN fds
        /\ off + ret[t] = sockets[Socket(t)].off
        /\ \A a \in Addrs : a \in a0..(a0 + ret[t] - 1) =>
             content[a].off = off + (a - a0)

Gone(t) == pc[t] = "closed" /\ ret[t] = 0

ClosedFollowed(t) ==
  Gone(t) => ~IsOpen(t) /\ (call[t].s \in DOMAIN fds => state[t] = "close")

CallFollowed(t) ==
  /\ ConnectFollowed(t) /\ CloseFollowed(t) /\ WrappedFollowed(t)
  /\ ReceivedFollowed(t) /\ ClosedFollowed(t)

(* The handles and the bytes the tracker has yet to learn of from a call.  *)
Pending(t) ==
  IF pc[t] = "wrapped" THEN TrackedBy(t)
  ELSE IF Got(t) \/ Gone(t) THEN {call[t].s} ELSE {}

Arrived(t) ==
  IF Got(t) THEN call[t].bufs[1].addr..(call[t].bufs[1].addr + ret[t] - 1) ELSE {}

(* Of all others it knows.                                                 *)
FollowedBut(P) ==
  /\ \A h \in DOMAIN khandles \ P : sockets[khandles[h]].connected =>
       h \in DOMAIN fds /\ fds[h] = sockets[khandles[h]].off
  /\ DOMAIN fds \subseteq DOMAIN khandles \union P \union {SOCKET_ERROR}

TaintedBut(A) ==
  \A a \in Addrs \ A : content[a] # NoByte =>
    /\ content[a].off \in DOMAIN taint_mappings
    /\ memory[a] = taint_mappings[content[a].off]

Followed ==
  /\ Serial
  /\ \A t \in Threads : CallFollowed(t)
  /\ FollowedBut(UNION {Pending(t) : t \in Threads})
  /\ TaintedBut(UNION {Arrived(t) : t \in Threads})

NetInv == KernelInv /\ (clean /\ taint_net => Followed)

(* In the beginning there is no connection and nothing is tainted.         *)
LEMMA InitNetInv == Init => NetInv
<1> SUFFICES ASSUME Init PROVE NetInv
  OBVIOUS
<1>1. KernelInv
  BY DEF Init, KernelInv, HandlesApart, UnconnectedFresh, TopOfCall, Receiving
<1>2. Serial
  BY DEF Init, Serial, Idle
<1>3. \A t \in Threads : CallFollowed(t)
  BY DEF Init, CallFollowed, ConnectFollowed, CloseFollowed, WrappedFollowed,
         ReceivedFollowed, ClosedFollowed, Got, Gone
<1>4. FollowedBut(UNION {Pending(t) : t \in Threads})
  BY DEF Init, FollowedBut
<1>5. TaintedBut(UNION {Arrived(t) : t \in Threads})
  BY DEF Init, TaintedBut
<1> QED BY <1>1, <1>2, <1>3, <1>4, <1>5 DEF NetInv, Followed

(* Handles stay apart, and unconnected sockets fresh.                      *)
LEMMA HandlesStep ==
  ASSUME TypeInv, NetInv, NEW t \in Threads, Step(t)
  PROVE  HandlesApart' /\ UnconnectedFresh'
<1> USE DEF NetInv, KernelInv
<1>1. KernelTypes /\ \A g \in DOMAIN khandles : khandles[g] \in 1..Len(sockets)
  BY DEF TypeInv, KernelTypes
<1>2. CASE KernelSocket(t) \/ KernelAccept(t)
  <2>1. PICK h \in Free, connected \in BOOLEAN :
          /\ sockets' = Append(sockets, [connected |-> connected, off |-> 0])
          /\ khandles' = With(khandles, h, Len(sockets) + 1)
          /\ content' = content
    BY <1>2 DEF KernelSocket, KernelAccept, NewSocket
  <2>2. /\ h \notin DOMAIN khandles
        /\ DOMAIN khandles' = DOMAIN khandles \union {h}
        /\ Len(sockets) \in Nat /\ khandles'[h] = Len(sockets) + 1
        /\ Len(sockets') = Len(sockets) + 1
        /\ \A g \in DOMAIN khandles : khandles'[g] = khandles[g]
        /\ sockets'[Len(sockets) + 1] = [connected |-> connected, off |-> 0]
        /\ \A j \in 1..Len(sockets) : sockets'[j] = sockets[j]
    BY <1>1, <2>1, NewSocketFacts
  <2>3. HandlesApart'
    BY <1>1, <2>2 DEF HandlesApart
  <2>4. UnconnectedFresh'
    BY <2>2 DEF UnconnectedFresh
  <2> QED BY <2>3, <2>4
<1>3. CASE KernelConnect(t)
  <2>1. /\ IsOpen(t) /\ khandles' = khandles
        /\ sockets' = [sockets EXCEPT ![Socket(t)].connected = TRUE]
    BY <1>3 DEF KernelConnect
  <2>2. /\ Len(sockets') = Len(sockets) /\ sockets'[Socket(t)].connected
        /\ \A j \in 1..Len(sockets) : j # Socket(t) => sockets'[j] = sockets[j]
    BY <1>1, <2>1, ConnectFacts
  <2> QED BY <2>1, <2>2 DEF HandlesApart, UnconnectedFresh
<1>4. CASE KernelRecv(t) \/ KernelOverlapped(t)
  <2>1. PICK n \in Nat : Arrives(t, n)
    BY <1>4, Constants DEF KernelRecv, KernelOverlapped
  <2>2. call[t] \in Calls
    BY <1>4 DEF TypeInv, IndInv, InCall, CallPlaces, KernelRecv, KernelOverlapped, Doing
  <2>3. /\ khandles' = khandles
        /\ Len(sockets') = Len(sockets) /\ sockets'[Socket(t)].connected
        /\ \A j \in 1..Len(sockets) : j # Socket(t) => sockets'[j] = sockets[j]
    BY <1>1, <2>1, <2>2, ArriveFacts
  <2> QED BY <2>3 DEF HandlesApart, UnconnectedFresh
<1>5. CASE KernelClose(t)
  <2>1. khandles' = Without(khandles, call[t].s) /\ sockets' = sockets
    BY <1>5 DEF KernelClose
  <2> QED BY <2>1 DEF HandlesApart, UnconnectedFresh, Without
<1>6. CASE UNCHANGED <<khandles, sockets>>
  BY <1>6 DEF HandlesApart, UnconnectedFresh
<1> QED
  BY <1>2, <1>3, <1>4, <1>5, <1>6
  DEF Step, Call, RecvUnwinds, CallFails, acceptHelper, CloseExit, AfterRecvNothing,
      AfterRecv, AlreadyIntroduced, TActivate, PIN_RemoveInstrumentation, AddFrame,
      Instruction, AppendBuffer, Locked, kernel

(* The end of what has been appended to.                                   *)
LEMMA TopOfAppend ==
  ASSUME NEW S, NEW s \in Seq(S), NEW e \in S
  PROVE  Append(s, e)[Len(Append(s, e))] = e
<1>1. Len(Append(s, e)) = Len(s) + 1 /\ Append(s, e)[Len(s) + 1] = e
  BY AppendProperties
<1> QED BY <1>1

(* The top of the stack of a thread that receives stays that of its call.  *)
LEMMA TopStep ==
  ASSUME TypeInv, NetInv, NEW t \in Threads, Step(t)
  PROVE  TopOfCall'
<1> USE DEF TypeInv
<1>1. Others(t)
  BY StepMoves
<1>2. recvStack \in [Threads -> Seq([fd : Handles, addr : Addrs])]
  BY DEF IndInv, ThreadTypes
<1>3. \A u \in Threads \ {t} : recvStack'[u] = recvStack[u]
  BY <1>2 DEF Step, Call, Before, KernelSocket, KernelAccept, NewSocket, KernelConnect,
      KernelRecv, KernelOverlapped, RecvUnwinds, KernelClose, CallFails, Returns,
      acceptHelper, CloseExit, AfterRecvNothing, AfterRecv, AlreadyIntroduced,
      TActivate, PIN_RemoveInstrumentation, AddFrame, Instruction, AppendBuffer, Popped
<1>4. Receiving(t)' => Top(t)' = [fd |-> call'[t].s, addr |-> call'[t].bufs[1].addr]
  <2>1. CASE Call(t)
    <3>1. PICK c \in {d \in Calls : Canonical(d)} :
            Before(t, c) /\ MoveWith(t, "kernel", c, 0, taintPreSC(c))
      BY <2>1 DEF Call
    <3>2. pc'[t] = "kernel" /\ call'[t] = c
      <4>1. taintPreSC(c) \in Plans
        BY DEF taintPreSC, Plans
      <4> QED BY <3>1, <4>1, Moved
    <3>3. CASE c.op \in {"recv", "WSARecv"}
      <4> DEFINE e == [fd |-> c.s, addr |-> c.bufs[1].addr]
      <4>1. e \in [fd : Handles, addr : Addrs]
        <5>1. c.s \in Handles /\ c.bufs \in BufferLists
          BY DEF Calls
        <5>2. c.bufs # <<>> /\ c.bufs \in Seq([addr : Addrs, len : 1..(LastAddr + 1)])
          BY <5>1, WinsockAssumption
        <5>3. c.bufs[1] \in [addr : Addrs, len : 1..(LastAddr + 1)]
          BY <5>2, FirstAndLast
        <5> QED BY <5>1, <5>3
      <4>2. recvStack'[t] = Append(recvStack[t], e)
        BY <1>2, <3>1, <3>3 DEF Before
      <4> HIDE DEF e
      <4>3. Top(t)' = e
        BY <1>2, <4>1, <4>2, TopOfAppend DEF Top
      <4> QED BY <3>2, <4>3 DEF e
    <3>4. CASE c.op \notin {"recv", "WSARecv"}
      BY <3>2, <3>4 DEF Receiving
    <3> QED BY <3>3, <3>4
  <2>2. CASE KernelRecv(t) \/ KernelOverlapped(t) \/ CallFails(t)
    <3>1. PICK place, r : Returns(t, place, r) /\ pc[t] = "kernel"
            /\ (place = "after" => call[t].op \in {"recv", "WSARecv"})
      <4>1. CASE KernelRecv(t) \/ KernelOverlapped(t)
        BY <4>1 DEF KernelRecv, KernelOverlapped, Doing
      <4>2. CASE CallFails(t)
        <5>1. pc[t] = "kernel" /\ Returns(t, ReturnPlace[call[t].op], SOCKET_ERROR)
          BY <4>2 DEF CallFails
        <5>2. call[t].op \in Ops
          BY <5>1 DEF IndInv, InCall, CallPlaces, Calls
        <5>3. ReturnPlace[call[t].op] = "after" => call[t].op \in {"recv", "WSARecv"}
          BY <5>2 DEF ReturnPlace, Ops
        <5> QED BY <5>1, <5>3
      <4> QED BY <2>2, <4>1, <4>2
    <3>2. CASE place = "after"
      <4>1. call'[t] = call[t] /\ recvStack' = recvStack /\ Receiving(t)
        <5>1. call'[t] = call[t]
          BY <3>1, <3>2, ReturnMoved
        <5>2. recvStack' = recvStack /\ Receiving(t)
          BY <3>1, <3>2 DEF Returns, Receiving
        <5> QED BY <5>1, <5>2
      <4> QED BY <4>1 DEF NetInv, KernelInv, TopOfCall, Top
    <3>3. CASE place # "after"
      <4>1. pc'[t] = place
        BY <3>1, ReturnMoved
      <4>2. place # "kernel"
        <5>1. CASE KernelRecv(t) \/ KernelOverlapped(t)
          <6>1. pc'[t] = "after"
            <7>1. PICK n : Returns(t, "after", n)
              BY <5>1 DEF KernelRecv, KernelOverlapped
            <7> QED BY <7>1, ReturnMoved
          <6> QED BY <4>1, <6>1
        <5>2. CASE CallFails(t)
          <6>1. pc[t] = "kernel" /\ Returns(t, ReturnPlace[call[t].op], SOCKET_ERROR)
            BY <5>2 DEF CallFails
          <6>2. call[t].op \in Ops
            BY <6>1 DEF IndInv, InCall, CallPlaces, Calls
          <6>3. ReturnPlace[call[t].op] # "kernel"
            BY <6>2 DEF ReturnPlace, Ops
          <6> QED BY <4>1, <6>1, <6>3, ReturnMoved
        <5> QED BY <2>2, <5>1, <5>2
      <4> QED BY <3>3, <4>1, <4>2 DEF Receiving
    <3> QED BY <3>2, <3>3
  <2>3. CASE pc'[t] \notin {"kernel", "after"}
    BY <2>3 DEF Receiving
  <2>4. Call(t) \/ KernelRecv(t) \/ KernelOverlapped(t) \/ CallFails(t)
          \/ pc'[t] \notin {"kernel", "after"}
    <3>1. ASSUME \E place, r : place \notin {"kernel", "after"} /\ Returns(t, place, r)
          PROVE  pc'[t] \notin {"kernel", "after"}
      BY <3>1, ReturnMoved
    <3>2. ASSUME \E place : place \notin {"kernel", "after"} /\ Move(t, place)
          PROVE  pc'[t] \notin {"kernel", "after"}
      BY <3>2, PlainMoved
    <3>3. CASE KernelSocket(t) \/ KernelAccept(t) \/ KernelConnect(t) \/ RecvUnwinds(t)
               \/ KernelClose(t)
      <4>1. \E place, r : place \notin {"kernel", "after"} /\ Returns(t, place, r)
        BY <3>3 DEF KernelSocket, KernelAccept, NewSocket, KernelConnect, RecvUnwinds,
                    KernelClose
      <4> QED BY <3>1, <4>1
    <3>4. CASE acceptHelper(t) \/ CloseExit(t) \/ AfterRecvNothing(t) \/ AfterRecv(t)
               \/ AlreadyIntroduced(t) \/ TActivate(t) \/ PIN_RemoveInstrumentation(t)
               \/ AddFrame(t) \/ Instruction(t) \/ AppendBuffer(t)
      <4>1. \E place : place \notin {"kernel", "after"} /\ Move(t, place)
        BY <3>4 DEF acceptHelper, CloseExit, AfterRecvNothing, AfterRecv,
                    AlreadyIntroduced, TActivate, PIN_RemoveInstrumentation, AddFrame,
                    Instruction, AppendBuffer, Locked
      <4> QED BY <3>2, <4>1
    <3> QED BY <3>3, <3>4 DEF Step
  <2> QED BY <2>1, <2>2, <2>3, <2>4
<1> QED
  BY <1>1, <1>3, <1>4 DEF NetInv, KernelInv, TopOfCall, Others, Receiving, Top

(* What is known of the one thread in a call, and of all that its call     *)
(* does not concern.                                                       *)
Situation(t) ==
  CallFollowed(t) /\ FollowedBut(Pending(t)) /\ TaintedBut(Arrived(t))

(* When only t is in a call, what is known is what the call of t says.     *)
LEMMA FollowedNow ==
  ASSUME Followed, NEW t \in Threads, \A u \in Threads \ {t} : pc[u] \in Idle
  PROVE  Situation(t)
<1>1. \A u \in Threads \ {t} : Pending(u) = {} /\ Arrived(u) = {}
  BY DEF Pending, Arrived, Got, Gone, Idle
<1>2. /\ UNION {Pending(u) : u \in Threads} = Pending(t)
      /\ UNION {Arrived(u) : u \in Threads} = Arrived(t)
  BY <1>1
<1> QED BY <1>2 DEF Followed, Situation

(* A step of t shows its situation; the other threads are in no call.      *)
LEMMA FollowedNext ==
  ASSUME NEW t \in Threads, Others(t), \A u \in Threads \ {t} : pc[u] \in Idle,
         Situation(t)'
  PROVE  Followed'
<1>1. \A u \in Threads \ {t} : pc'[u] \in Idle
  BY DEF Others
<1>2. \A u \in Threads \ {t} : Pending(u)' = {} /\ Arrived(u)' = {} /\ CallFollowed(u)'
  BY <1>1 DEF Pending, Arrived, Got, Gone, Idle, CallFollowed, ConnectFollowed,
              CloseFollowed, WrappedFollowed, ReceivedFollowed, ClosedFollowed
<1>3. /\ (UNION {Pending(u) : u \in Threads})' = Pending(t)'
      /\ (UNION {Arrived(u) : u \in Threads})' = Arrived(t)'
  BY <1>2
<1>4. Serial'
  BY <1>1 DEF Serial
<1> QED BY <1>2, <1>3, <1>4 DEF Followed, Situation

(* A thread moves to where its call says nothing any more, or not yet.     *)
Plain == {"app", "tactivate", "tremove", "frame", "append"}

(* Outside receive, connect and accept tracker and kernel agree on         *)
(* everything.                                                             *)
LEMMA PlainSituation ==
  ASSUME NEW t \in Threads, pc'[t] \in Plain, FollowedBut({})', TaintedBut({})'
  PROVE  Situation(t)'
<1>1. Pending(t)' = {} /\ Arrived(t)' = {}
  BY DEF Pending, Arrived, Got, Gone, Plain
<1>2. CallFollowed(t)'
  BY DEF Plain, Got, Gone, CallFollowed, ConnectFollowed, CloseFollowed,
         WrappedFollowed, ReceivedFollowed, ClosedFollowed
<1> QED BY <1>1, <1>2 DEF Situation

(* A step that changes neither the kernel nor the tracker.                 *)
LEMMA SameFollowed ==
  ASSUME NEW P, NEW A, FollowedBut(P), TaintedBut(A),
         UNCHANGED <<khandles, sockets, content, fds, taint_mappings, memory>>,
         NEW Q, P \subseteq Q, NEW B, A \subseteq B
  PROVE  FollowedBut(Q)' /\ TaintedBut(B)'
BY DEF FollowedBut, TaintedBut

(* A call begins.                                                          *)
LEMMA CallFollow ==
  ASSUME TypeInv, NetInv, NEW t \in Threads, Call(t), Situation(t), clean'
  PROVE  Situation(t)'
<1>1. PICK c \in {d \in Calls : Canonical(d)} :
        MoveWith(t, "kernel", c, 0, taintPreSC(c)) /\ clean' = (/\ clean /\ ~Reconnects(c)
                    /\ \A u \in Threads \ {t} : pc[u] \in {"app", "append"})
  BY Zenon DEF Call
<1>2. /\ pc'[t] = "kernel" /\ call'[t] = c /\ state'[t] = taintPreSC(c)
  <2>1. taintPreSC(c) \in Plans
    BY DEF taintPreSC, Plans
  <2> QED BY <1>1, <2>1, Moved DEF TypeInv
<1>3. pc[t] = "app" /\ UNCHANGED <<khandles, sockets, content, fds, taint_mappings, memory>>
  BY DEF Call, kernel, tracker
<1>4. Pending(t) = {} /\ Arrived(t) = {} /\ Pending(t)' = {} /\ Arrived(t)' = {}
  BY <1>2, <1>3 DEF Pending, Arrived, Got, Gone
<1>5. FollowedBut(Pending(t))' /\ TaintedBut(Arrived(t))'
  <2>1. FollowedBut({})' /\ TaintedBut({})'
    BY <1>3, <1>4, SameFollowed DEF Situation
  <2> QED BY <1>4, <2>1
<1>6. ConnectFollowed(t)'
  <2>1. ~Reconnects(c) /\ Canonical(c)
    BY <1>1
  <2> QED BY <1>2, <1>3, <2>1 DEF ConnectFollowed, Reconnects, Canonical, IsOpen, Socket
<1>7. CloseFollowed(t)'
  BY <1>2, <1>3 DEF CloseFollowed, taintPreSC
<1>8. WrappedFollowed(t)' /\ ReceivedFollowed(t)' /\ ClosedFollowed(t)'
  BY <1>2 DEF WrappedFollowed, ReceivedFollowed, ClosedFollowed, Got, Gone
<1> QED BY <1>5, <1>6, <1>7, <1>8 DEF Situation, CallFollowed

(* The kernel makes a socket.                                              *)
LEMMA NewSocketFollow ==
  ASSUME TypeInv, NetInv, NEW t \in Threads, KernelSocket(t) \/ KernelAccept(t),
         Situation(t)
  PROVE  Situation(t)'
<1>1. PICK h \in Free, connected \in BOOLEAN, place \in {"app", "wrapped"} :
        /\ Returns(t, place, h)
        /\ sockets' = Append(sockets, [connected |-> connected, off |-> 0])
        /\ khandles' = With(khandles, h, Len(sockets) + 1)
        /\ UNCHANGED <<content, clean>>
        /\ connected => place = "wrapped"
        /\ place = "wrapped" => call[t].op = "accept"
  BY DEF KernelSocket, KernelAccept, NewSocket, Doing
<1>2. pc[t] = "kernel" /\ UNCHANGED <<fds, taint_mappings, memory>>
  BY <1>1 DEF KernelSocket, KernelAccept, Doing, Returns, tracker
<1>3. /\ pc'[t] = place
      /\ place = "wrapped" => call'[t] = call[t] /\ ret'[t] = h
  BY <1>1, ReturnMoved DEF TypeInv
<1>4. /\ h \in Handles /\ h \notin DOMAIN khandles
      /\ DOMAIN khandles' = DOMAIN khandles \union {h}
      /\ Len(sockets) \in Nat /\ khandles'[h] = Len(sockets) + 1
      /\ Len(sockets') = Len(sockets) + 1
      /\ \A g \in DOMAIN khandles : khandles'[g] = khandles[g]
      /\ sockets'[Len(sockets) + 1] = [connected |-> connected, off |-> 0]
      /\ \A j \in 1..Len(sockets) : sockets'[j] = sockets[j]
  BY <1>1, NewSocketFacts DEF TypeInv
<1>5. \A g \in DOMAIN khandles : sockets'[khandles'[g]] = sockets[khandles[g]]
  BY <1>4 DEF TypeInv, KernelTypes
<1>6. FollowedBut({}) /\ TaintedBut({})
  <2>1. Pending(t) = {} /\ Arrived(t) = {}
    BY <1>2 DEF Pending, Arrived, Got, Gone
  <2> QED BY <2>1 DEF Situation
<1>7. TaintedBut({})'
  BY <1>1, <1>2, <1>6 DEF TaintedBut
<1>8. CASE place = "app"
  <2>1. FollowedBut({})'
    <3>1. ~connected
      BY <1>1, <1>8
    <3>2. ~sockets'[khandles'[h]].connected
      BY <1>4, <3>1
    <3> QED BY <1>2, <1>4, <1>5, <1>6, <3>2 DEF FollowedBut
  <2> QED BY <1>3, <1>7, <1>8, <2>1, PlainSituation DEF Plain
<1>9. CASE place = "wrapped"
  <2>1. TrackedBy(t)' = {h}
    BY <1>1, <1>3, <1>9 DEF TrackedBy
  <2>2. Pending(t)' = {h} /\ Arrived(t)' = {}
    BY <1>3, <1>9, <2>1 DEF Pending, Arrived, Got
  <2>3. FollowedBut({h})'
    BY <1>2, <1>4, <1>5, <1>6 DEF FollowedBut
  <2>4. WrappedFollowed(t)'
    BY <1>4, <2>1 DEF WrappedFollowed
  <2>5. CallFollowed(t)'
    BY <1>3, <1>9, <2>4 DEF CallFollowed, ConnectFollowed, CloseFollowed,
                            ReceivedFollowed, ClosedFollowed, Got, Gone
  <2> QED BY <1>7, <2>2, <2>3, <2>5 DEF Situation
<1> QED BY <1>8, <1>9

(* The kernel connects a socket.                                           *)
LEMMA ConnectFollow ==
  ASSUME TypeInv, NetInv, NEW t \in Threads, KernelConnect(t), Situation(t)
  PROVE  Situation(t)'
<1>0. PICK h : h = call[t].s
  OBVIOUS
<1>1. PICK r : /\ Returns(t, "wrapped", r)
               /\ call[t].op # "connect" => r = 0
  BY DEF KernelConnect, Doing
<1>2. /\ pc[t] = "kernel" /\ call[t].op \in {"connect", "WSAConnect"}
      /\ IsOpen(t) /\ ~sockets[Socket(t)].connected
      /\ sockets' = [sockets EXCEPT ![Socket(t)].connected = TRUE]
      /\ UNCHANGED <<khandles, content, fds, taint_mappings, memory>>
  BY <1>1 DEF KernelConnect, Doing, Returns, tracker
<1>3. pc'[t] = "wrapped" /\ call'[t] = call[t] /\ ret'[t] = r
  BY <1>1, ReturnMoved DEF TypeInv
<1>4. /\ sockets'[Socket(t)].off = sockets[Socket(t)].off
      /\ \A j \in 1..Len(sockets) : j # Socket(t) => sockets'[j] = sockets[j]
      /\ Socket(t) \in 1..Len(sockets)
  BY <1>2, ConnectFacts, SocketTypes DEF TypeInv
<1>5. h \in DOMAIN khandles /\ Socket(t) = khandles[h]
  BY <1>0, <1>2 DEF IsOpen, Socket
<1>6. \A g \in DOMAIN khandles \ {h} : sockets'[khandles'[g]] = sockets[khandles[g]]
  BY <1>2, <1>4, <1>5 DEF TypeInv, KernelTypes, NetInv, KernelInv, HandlesApart
<1>7. FollowedBut({}) /\ TaintedBut({})
  <2>1. Pending(t) = {} /\ Arrived(t) = {}
    BY <1>2 DEF Pending, Arrived, Got, Gone
  <2> QED BY <2>1 DEF Situation
<1>8. TrackedBy(t)' = {h}
  BY <1>0, <1>1, <1>2, <1>3 DEF TrackedBy, SOCKET_ERROR
<1>9. Pending(t)' = {h} /\ Arrived(t)' = {}
  BY <1>3, <1>8 DEF Pending, Arrived, Got
<1>10. FollowedBut({h})'
  BY <1>2, <1>6, <1>7 DEF FollowedBut
<1>11. TaintedBut({})'
  BY <1>2, <1>7 DEF TaintedBut
<1>12. WrappedFollowed(t)'
  <2>1. sockets[Socket(t)].off = 0
    BY <1>2, <1>4 DEF NetInv, KernelInv, UnconnectedFresh
  <2> QED BY <1>2, <1>4, <1>5, <1>8, <2>1 DEF WrappedFollowed
<1>13. CallFollowed(t)'
  BY <1>3, <1>12 DEF CallFollowed, ConnectFollowed, CloseFollowed, ReceivedFollowed,
                     ClosedFollowed, Got, Gone
<1> QED BY <1>9, <1>10, <1>11, <1>13 DEF Situation

(* Bytes arrive; those that fit the first buffer lie there one after the   *)
(* other.                                                                  *)
LEMMA RecvFollow ==
  ASSUME TypeInv, NetInv, NEW t \in Threads, KernelRecv(t), Situation(t), clean'
  PROVE  Situation(t)'
<1>0. PICK h, first, off :
        h = call[t].s /\ first = call[t].bufs[1] /\ off = sockets[Socket(t)].off
  OBVIOUS
<1>1. PICK n \in 0..Size : /\ Arrives(t, n) /\ Returns(t, "after", n)
                           /\ clean' = (clean /\ n <= call[t].bufs[1].len)
  BY Zenon DEF KernelRecv
<1>2. pc[t] = "kernel" /\ call[t] \in Calls /\ n <= first.len /\ n \in Nat
      /\ UNCHANGED <<fds, taint_mappings, memory>>
  <2>1. pc[t] = "kernel" /\ call[t] \in Calls
    BY DEF KernelRecv, Doing, TypeInv, IndInv, InCall, CallPlaces
  <2>2. n <= first.len
    BY <1>0, <1>1, Zenon
  <2>3. n \in Nat
    BY Constants
  <2> QED BY <1>1, <2>1, <2>2, <2>3 DEF Returns, tracker
<1>3. pc'[t] = "after" /\ call'[t] = call[t] /\ ret'[t] = n
  BY <1>1, ReturnMoved DEF TypeInv
<1>4. /\ IsOpen(t) /\ khandles' = khandles /\ sockets[Socket(t)].connected
      /\ sockets'[Socket(t)].connected
      /\ sockets'[Socket(t)].off = off + n
      /\ \A j \in 1..Len(sockets) : j # Socket(t) => sockets'[j] = sockets[j]
      /\ \A a \in Addrs : content'[a] =
           IF a \in first.addr..(first.addr + n - 1)
           THEN [socket |-> Socket(t), off |-> off + (a - first.addr)]
           ELSE content[a]
  BY <1>0, <1>1, <1>2, ArriveFacts DEF TypeInv
<1>5. h \in DOMAIN khandles /\ Socket(t) = khandles[h] /\ off \in Nat
  BY <1>0, <1>4, SocketTypes DEF IsOpen, Socket, TypeInv
<1>6. \A g \in DOMAIN khandles \ {h} : sockets'[khandles'[g]] = sockets[khandles[g]]
  BY <1>4, <1>5 DEF TypeInv, KernelTypes, NetInv, KernelInv, HandlesApart
<1>7. FollowedBut({}) /\ TaintedBut({})
  <2>1. Pending(t) = {} /\ Arrived(t) = {}
    BY <1>2 DEF Pending, Arrived, Got, Gone
  <2> QED BY <2>1 DEF Situation
<1>8. h \in DOMAIN fds /\ fds[h] = off
  BY <1>0, <1>4, <1>5, <1>7 DEF FollowedBut
<1>9. CASE n = 0
  <2>1. Pending(t)' = {} /\ Arrived(t)' = {}
    BY <1>3, <1>9 DEF Pending, Arrived, Got, Gone
  <2>2. first.addr \in Nat
    <3>1. call[t].bufs \in BufferLists
      BY <1>2 DEF Calls
    <3>2. first \in [addr : Addrs, len : 1..(LastAddr + 1)]
      BY <1>0, <3>1, BufferSpaceFacts
    <3> QED BY <3>2, Constants
  <2>3. \A a \in Addrs : content'[a] = content[a]
    <3>1. \A a \in Addrs : a \notin first.addr..(first.addr + n - 1)
      BY <1>9, <2>2, Constants
    <3> QED BY <1>4, <3>1, Zenon
  <2>4. sockets'[Socket(t)].off = off
    BY <1>4, <1>5, <1>9
  <2>5. FollowedBut({})'
    BY <1>2, <1>4, <1>5, <1>6, <1>7, <1>8, <2>4 DEF FollowedBut
  <2>6. TaintedBut({})'
    BY <1>2, <1>7, <2>3 DEF TaintedBut
  <2>7. CallFollowed(t)'
    BY <1>3, <1>9 DEF CallFollowed, ConnectFollowed, CloseFollowed, WrappedFollowed,
                      ReceivedFollowed, ClosedFollowed, Got, Gone
  <2> QED BY <2>1, <2>5, <2>6, <2>7 DEF Situation
<1>10. CASE n > 0
  <2>1. Got(t)'
    BY <1>3, <1>10 DEF Got
  <2>2. Pending(t)' = {h} /\ Arrived(t)' = first.addr..(first.addr + n - 1)
    BY <1>0, <1>3, <2>1 DEF Pending, Arrived, Gone
  <2>3. FollowedBut({h})'
    BY <1>2, <1>4, <1>6, <1>7 DEF FollowedBut
  <2>4. TaintedBut(first.addr..(first.addr + n - 1))'
    BY <1>2, <1>4, <1>7 DEF TaintedBut
  <2>5. ReceivedFollowed(t)'
    <3>1. /\ call'[t].s = h /\ call'[t].bufs[1] = first
      BY <1>0, <1>3
    <3>2. /\ IsOpen(t)' /\ Socket(t)' = Socket(t)
      BY <1>0, <1>3, <1>4, <1>5 DEF IsOpen, Socket
    <3>3. \A a \in Addrs : a \in first.addr..(first.addr + n - 1) =>
            content'[a].off = off + (a - first.addr)
      <4> SUFFICES ASSUME NEW a \in Addrs, a \in first.addr..(first.addr + n - 1)
                   PROVE  content'[a].off = off + (a - first.addr)
        OBVIOUS
      <4>1. content'[a] = [socket |-> Socket(t), off |-> off + (a - first.addr)]
        BY <1>4, Zenon
      <4> QED BY <4>1
    <3> QED BY <1>2, <1>3, <1>4, <1>8, <3>1, <3>2, <3>3 DEF ReceivedFollowed
  <2>6. CallFollowed(t)'
    BY <1>3, <2>5 DEF CallFollowed, ConnectFollowed, CloseFollowed, WrappedFollowed,
                      ClosedFollowed, Gone
  <2> QED BY <2>2, <2>3, <2>4, <2>6 DEF Situation
<1> QED BY <1>9, <1>10

(* The kernel closes a socket.                                             *)
LEMMA KernelCloseFollow ==
  ASSUME TypeInv, NetInv, NEW t \in Threads, KernelClose(t), Situation(t)
  PROVE  Situation(t)'
<1>0. PICK h : h = call[t].s
  OBVIOUS
<1>1. /\ pc[t] = "kernel" /\ call[t].op = "close" /\ Returns(t, "closed", 0)
      /\ h \in DOMAIN khandles /\ khandles' = Without(khandles, h)
      /\ UNCHANGED <<sockets, content, fds, taint_mappings, memory>>
  BY <1>0 DEF KernelClose, Doing, IsOpen, Returns, tracker
<1>2. /\ pc'[t] = "closed" /\ call'[t] = call[t] /\ ret'[t] = 0 /\ state'[t] = state[t]
  BY <1>1, ReturnMoved DEF TypeInv
<1>3. FollowedBut({}) /\ TaintedBut({})
  <2>1. Pending(t) = {} /\ Arrived(t) = {}
    BY <1>1 DEF Pending, Arrived, Got, Gone
  <2> QED BY <2>1 DEF Situation
<1>4. Pending(t)' = {h} /\ Arrived(t)' = {}
  BY <1>0, <1>2 DEF Pending, Arrived, Got, Gone
<1>5. FollowedBut({h})'
  BY <1>1, <1>3 DEF FollowedBut, Without
<1>6. TaintedBut({})'
  BY <1>1, <1>3 DEF TaintedBut
<1>7. ClosedFollowed(t)'
  BY <1>0, <1>1, <1>2 DEF ClosedFollowed, Gone, IsOpen, Without, Situation, CallFollowed,
                          CloseFollowed
<1>8. CallFollowed(t)'
  BY <1>2, <1>7 DEF CallFollowed, ConnectFollowed, CloseFollowed, WrappedFollowed,
                    ReceivedFollowed, Got
<1> QED BY <1>4, <1>5, <1>6, <1>8 DEF Situation

(* A call fails, or is left by an exception.                               *)
LEMMA FailFollow ==
  ASSUME TypeInv, NetInv, NEW t \in Threads, CallFails(t) \/ RecvUnwinds(t),
         Situation(t)
  PROVE  Situation(t)'
<1>1. PICK place : /\ pc[t] = "kernel" /\ Returns(t, place, SOCKET_ERROR)
                   /\ place \in {"app", ReturnPlace[call[t].op]}
                   /\ UNCHANGED kernel
  BY DEF CallFails, RecvUnwinds, Doing
<1>2. /\ call[t] \in Calls /\ call[t].op \in Ops
      /\ UNCHANGED <<khandles, sockets, content, fds, taint_mappings, memory>>
  BY <1>1 DEF TypeInv, IndInv, InCall, CallPlaces, Calls, kernel, tracker, Returns
<1>3. /\ place \in {"app", "wrapped", "after", "closed"}
      /\ place = "wrapped" => call[t].op \in {"accept", "connect", "WSAConnect"}
  BY <1>1, <1>2 DEF ReturnPlace, Ops
<1>4. /\ pc'[t] = place
      /\ place # "app" => call'[t] = call[t] /\ ret'[t] = SOCKET_ERROR
  BY <1>1, ReturnMoved DEF TypeInv
<1>5. FollowedBut({}) /\ TaintedBut({})
  <2>1. Pending(t) = {} /\ Arrived(t) = {}
    BY <1>1 DEF Pending, Arrived, Got, Gone
  <2> QED BY <2>1 DEF Situation
<1>6. FollowedBut({})' /\ TaintedBut({})'
  BY <1>2, <1>5, SameFollowed
<1>7. CASE place = "app"
  BY <1>4, <1>6, <1>7, PlainSituation DEF Plain
<1>8. CASE place \in {"after", "closed"}
  <2>1. ~Got(t)' /\ ~Gone(t)'
    BY <1>4, <1>8 DEF Got, Gone, SOCKET_ERROR
  <2>2. Pending(t)' = {} /\ Arrived(t)' = {}
    BY <1>4, <1>8, <2>1 DEF Pending, Arrived
  <2>3. CallFollowed(t)'
    BY <1>4, <1>8, <2>1 DEF CallFollowed, ConnectFollowed, CloseFollowed,
                            WrappedFollowed, ReceivedFollowed, ClosedFollowed
  <2> QED BY <1>6, <2>2, <2>3 DEF Situation
<1>9. CASE place = "wrapped"
  <2>1. PICK T : T = TrackedBy(t)'
    OBVIOUS
  <2>2. Pending(t)' = T /\ Arrived(t)' = {}
    BY <1>4, <1>9, <2>1 DEF Pending, Arrived, Got
  <2>3. FollowedBut(T)' /\ TaintedBut({})'
    <3>1. {} \subseteq T /\ {} \subseteq {}
      OBVIOUS
    <3> QED BY <1>2, <1>5, <3>1, SameFollowed
  <2>4. \A h \in T : h = SOCKET_ERROR \/ (h = call[t].s /\ call[t].op = "connect")
    BY <1>3, <1>4, <1>9, <2>1 DEF TrackedBy
  <2>5. ASSUME call[t].op = "connect"
        PROVE  call[t].s \in DOMAIN khandles /\ sockets[khandles[call[t].s]].off = 0
    <3>1. IsOpen(t) /\ ~sockets[Socket(t)].connected
      BY <1>1, <2>5 DEF Situation, CallFollowed, ConnectFollowed
    <3>2. Socket(t) \in 1..Len(sockets)
      BY <3>1, SocketTypes DEF TypeInv
    <3> QED BY <3>1, <3>2 DEF NetInv, KernelInv, UnconnectedFresh, IsOpen, Socket
  <2>6. WrappedFollowed(t)'
    BY <1>2, <2>1, <2>4, <2>5 DEF WrappedFollowed
  <2>7. CallFollowed(t)'
    BY <1>4, <1>9, <2>6 DEF CallFollowed, ConnectFollowed, CloseFollowed,
                            ReceivedFollowed, ClosedFollowed, Got, Gone
  <2> QED BY <2>2, <2>3, <2>7 DEF Situation
<1> QED BY <1>3, <1>7, <1>8, <1>9

(* The wrapper tracks the new connection, from offset 0.                   *)
LEMMA WrapperFollow ==
  ASSUME TypeInv, NetInv, NEW t \in Threads, acceptHelper(t), Situation(t), taint_net
  PROVE  Situation(t)'
<1>1. PICK T : T = TrackedBy(t)
  OBVIOUS
<1>2. /\ pc[t] = "wrapped" /\ Move(t, "app")
      /\ fds' = [h \in DOMAIN fds \union T |-> IF h \in T THEN 0 ELSE fds[h]]
      /\ UNCHANGED <<khandles, sockets, content, taint_mappings, memory>>
  BY <1>1 DEF acceptHelper, Locked, kernel
<1>3. pc'[t] = "app"
  BY <1>2, PlainMoved DEF TypeInv
<1>4. Pending(t) = T /\ Arrived(t) = {}
  BY <1>1, <1>2 DEF Pending, Arrived, Got
<1>5. FollowedBut(T) /\ TaintedBut({})
  BY <1>4 DEF Situation
<1>6. \A h \in T : h # SOCKET_ERROR =>
        h \in DOMAIN khandles /\ sockets[khandles[h]].off = 0
  BY <1>1, <1>2 DEF Situation, CallFollowed, WrappedFollowed
<1>7. \A h \in DOMAIN khandles : h # SOCKET_ERROR
  BY Constants DEF TypeInv, KernelTypes, SOCKET_ERROR
<1>8. FollowedBut({})'
  BY <1>2, <1>5, <1>6, <1>7 DEF FollowedBut
<1>9. TaintedBut({})'
  BY <1>2, <1>5 DEF TaintedBut
<1> QED BY <1>3, <1>8, <1>9, PlainSituation DEF Plain

(* The tracker forgets a handle that was closed.                           *)
LEMMA CloseExitFollow ==
  ASSUME TypeInv, NetInv, NEW t \in Threads, CloseExit(t), Situation(t)
  PROVE  Situation(t)'
<1>0. PICK h : h = call[t].s
  OBVIOUS
<1>1. /\ pc[t] = "closed" /\ Move(t, "app")
      /\ fds' = IF state[t] = "close" /\ ret[t] = 0 THEN Without(fds, h) ELSE fds
      /\ UNCHANGED <<khandles, sockets, content, taint_mappings, memory>>
  BY <1>0 DEF CloseExit, Locked, kernel
<1>2. pc'[t] = "app"
  BY <1>1, PlainMoved DEF TypeInv
<1>3. Arrived(t) = {}
  BY <1>1 DEF Arrived, Got
<1>4. TaintedBut({})'
  BY <1>1, <1>3 DEF Situation, TaintedBut
<1>5. CASE ret[t] = 0
  <2>1. Pending(t) = {h}
    BY <1>0, <1>1, <1>5 DEF Pending, Gone
  <2>2. h \notin DOMAIN khandles /\ (h \in DOMAIN fds => state[t] = "close")
    BY <1>0, <1>1, <1>5 DEF Situation, CallFollowed, ClosedFollowed, Gone, IsOpen
  <2>3. FollowedBut({h})
    BY <2>1 DEF Situation
  <2>4. h \notin DOMAIN fds' /\ DOMAIN fds' \subseteq DOMAIN fds
        /\ \A g \in DOMAIN fds \ {h} : g \in DOMAIN fds' /\ fds'[g] = fds[g]
    BY <1>1, <1>5, <2>2 DEF Without
  <2>5. FollowedBut({})'
    BY <1>1, <2>2, <2>3, <2>4 DEF FollowedBut
  <2> QED BY <1>2, <1>4, <2>5, PlainSituation DEF Plain
<1>6. CASE ret[t] # 0
  <2>1. Pending(t) = {} /\ fds' = fds
    BY <1>1, <1>6 DEF Pending, Got, Gone
  <2>2. FollowedBut({})'
    BY <1>1, <2>1 DEF Situation, FollowedBut
  <2> QED BY <1>2, <1>4, <2>2, PlainSituation DEF Plain
<1> QED BY <1>5, <1>6

(* AfterRecv finds nothing to taint: nothing has been received.            *)
LEMMA NothingFollow ==
  ASSUME TypeInv, NetInv, NEW t \in Threads, AfterRecvNothing(t), Situation(t)
  PROVE  Situation(t)'
<1>1. /\ pc[t] = "after" /\ Move(t, "app")
      /\ ret[t] = SOCKET_ERROR \/ ret[t] = 0 \/ Top(t).fd \notin DOMAIN fds
      /\ UNCHANGED <<khandles, sockets, content, fds, taint_mappings, memory>>
  BY DEF AfterRecvNothing, Locked, kernel, tracker
<1>2. pc'[t] = "app"
  BY <1>1, PlainMoved DEF TypeInv
<1>3. ~Got(t)
  <2> SUFFICES ASSUME Got(t) PROVE FALSE
    OBVIOUS
  <2>1. call[t].s \in DOMAIN fds /\ ret[t] > 0
    BY DEF Situation, CallFollowed, ReceivedFollowed, Got
  <2>2. Top(t).fd = call[t].s
    BY <1>1 DEF NetInv, KernelInv, TopOfCall, Receiving
  <2> QED BY <1>1, <2>1, <2>2 DEF SOCKET_ERROR
<1>4. Pending(t) = {} /\ Arrived(t) = {}
  BY <1>1, <1>3 DEF Pending, Arrived, Gone
<1>5. FollowedBut({})' /\ TaintedBut({})'
  BY <1>1, <1>4, SameFollowed DEF Situation
<1> QED BY <1>2, <1>5, PlainSituation DEF Plain

(* The numbers of n bytes at a, from offset off on.                        *)
LEMMA IntroducedAt ==
  ASSUME NEW a \in Nat, NEW n \in Int, NEW off \in Int, introMemTaint(a, n, off),
         NEW b \in Addrs, b \in a..(a + n - 1)
  PROVE  /\ off + (b - a) \in DOMAIN taint_mappings'
         /\ memory'[b] = taint_mappings'[off + (b - a)]
<1> DEFINE o == off + (b - a)
<1>1. b \in Int /\ b - a \in Int /\ o \in off..(off + n - 1) /\ o - off = b - a
  BY Constants
<1>2. memory'[b] = Tag(off, b - a)
  BY DEF introMemTaint
<1>3. /\ o \in DOMAIN taint_mappings'
      /\ taint_mappings'[o] = IF o \in DOMAIN taint_mappings
                              THEN taint_mappings[o] ELSE Tag(off, o - off)
  BY <1>1 DEF introMemTaint
<1>4. o \in DOMAIN taint_mappings => Tag(off, b - a) = taint_mappings[o]
  BY DEF Tag
<1> QED BY <1>1, <1>2, <1>3, <1>4

(* All other bytes keep theirs.                                            *)
LEMMA IntroducedElsewhere ==
  ASSUME NEW a, NEW n, NEW off, introMemTaint(a, n, off)
  PROVE  /\ \A b \in Addrs : b \notin a..(a + n - 1) => memory'[b] = memory[b]
         /\ \A o \in DOMAIN taint_mappings :
              o \in DOMAIN taint_mappings' /\ taint_mappings'[o] = taint_mappings[o]
BY DEF introMemTaint

(* What has arrived is tainted.                                            *)
LEMMA AfterRecvFollow ==
  ASSUME TypeInv, NetInv, NEW t \in Threads, AfterRecv(t), Situation(t)
  PROVE  Situation(t)'
<1>0. PICK h, a0, n, off :
        h = call[t].s /\ a0 = call[t].bufs[1].addr /\ n = ret[t] /\ off = fds[h]
  OBVIOUS
<1>1. Top(t).fd = h /\ Top(t).addr = a0
  BY <1>0 DEF AfterRecv, NetInv, KernelInv, TopOfCall, Receiving
<1>2. /\ pc[t] = "after" /\ n > 0 /\ h \in DOMAIN fds
      /\ Move(t, IF g_taint_introduced THEN "frame" ELSE "tactivate")
      /\ introMemTaint(a0, n, off)
      /\ fds' = [fds EXCEPT ![h] = off + n]
      /\ UNCHANGED <<khandles, sockets, content>>
  BY <1>0, <1>1 DEF AfterRecv, Locked, kernel
<1>3. pc'[t] \in Plain
  <2>1. PICK place \in {"frame", "tactivate"} : Move(t, place)
    BY <1>2
  <2> QED BY <2>1, PlainMoved DEF TypeInv, Plain
<1>4. Got(t)
  BY <1>0, <1>2 DEF Got
<1>5. Pending(t) = {h} /\ Arrived(t) = a0..(a0 + n - 1)
  BY <1>0, <1>2, <1>4 DEF Pending, Arrived
<1>6. FollowedBut({h}) /\ TaintedBut(a0..(a0 + n - 1))
  BY <1>5 DEF Situation
<1>7. /\ h \in DOMAIN khandles /\ off + n = sockets[khandles[h]].off
      /\ \A a \in Addrs : a \in a0..(a0 + n - 1) => content[a].off = off + (a - a0)
  BY <1>0, <1>4 DEF Situation, CallFollowed, ReceivedFollowed, IsOpen, Socket
<1>8. a0 \in Nat /\ n \in Int /\ off \in Int
  <2>1. a0 \in Nat
    BY <1>1, <1>2, PoppedTypes, Constants DEF TypeInv
  <2>2. n \in Int
    BY <1>0 DEF TypeInv, IndInv, ThreadTypes
  <2>3. off \in Int
    BY <1>0, <1>2 DEF TypeInv, RestTypes
  <2> QED BY <2>1, <2>2, <2>3
<1>9. FollowedBut({})'
  BY <1>2, <1>6, <1>7 DEF FollowedBut
<1>10. TaintedBut({})'
  <2> SUFFICES ASSUME NEW a \in Addrs, content[a] # NoByte
               PROVE  /\ content[a].off \in DOMAIN taint_mappings'
                      /\ memory'[a] = taint_mappings'[content[a].off]
    BY <1>2 DEF TaintedBut
  <2>1. CASE a \in a0..(a0 + n - 1)
    <3>1. /\ off + (a - a0) \in DOMAIN taint_mappings'
          /\ memory'[a] = taint_mappings'[off + (a - a0)]
      BY <1>2, <1>8, <2>1, IntroducedAt
    <3> QED BY <1>7, <2>1, <3>1
  <2>2. CASE a \notin a0..(a0 + n - 1)
    <3>1. /\ content[a].off \in DOMAIN taint_mappings
          /\ memory[a] = taint_mappings[content[a].off]
      BY <1>6, <2>2 DEF TaintedBut
    <3> QED BY <1>2, <2>2, <3>1, IntroducedElsewhere
  <2> QED BY <2>1, <2>2
<1> QED BY <1>3, <1>9, <1>10, PlainSituation

(* The rest of AfterRecv, and the frame, change neither.                   *)
LEMMA FrameFollow ==
  ASSUME TypeInv, NetInv, NEW t \in Threads, Situation(t),
         AlreadyIntroduced(t) \/ TActivate(t) \/ PIN_RemoveInstrumentation(t) \/ AddFrame(t)
  PROVE  Situation(t)'
<1>1. PICK place \in Plain : Move(t, place)
  BY DEF AlreadyIntroduced, TActivate, PIN_RemoveInstrumentation, AddFrame, Plain
<1>2. /\ pc[t] \in Plain
      /\ UNCHANGED <<khandles, sockets, content, fds, taint_mappings, memory>>
  BY DEF AlreadyIntroduced, TActivate, PIN_RemoveInstrumentation, AddFrame, Plain, kernel,
         tracker
<1>3. pc'[t] \in Plain
  BY <1>1, PlainMoved DEF TypeInv
<1>4. Pending(t) = {} /\ Arrived(t) = {}
  BY <1>2 DEF Pending, Arrived, Got, Gone, Plain
<1>5. FollowedBut({})' /\ TaintedBut({})'
  BY <1>2, <1>4, SameFollowed DEF Situation
<1> QED BY <1>3, <1>5, PlainSituation

(* A run that is clean has been clean, and tracks the network or does not. *)
LEMMA CleanBefore ==
  ASSUME NEW t \in Threads, Step(t), clean', taint_net'
  PROVE  clean /\ taint_net
BY Zenon DEF Step, Call, KernelSocket, KernelAccept, NewSocket, KernelConnect, KernelRecv,
      KernelOverlapped, RecvUnwinds, KernelClose, CallFails, Returns, acceptHelper,
      CloseExit, AfterRecvNothing, AfterRecv, AlreadyIntroduced, TActivate,
      PIN_RemoveInstrumentation, AddFrame, Instruction, AppendBuffer, Locked, flags,
      history

(* Instructions of threads that are in no call.                            *)
LEMMA LogFollow ==
  ASSUME TypeInv, Followed, NEW t \in Threads, Instruction(t) \/ AppendBuffer(t)
  PROVE  Followed'
<1>1. PICK place \in Idle : Move(t, place)
  BY DEF Instruction, AppendBuffer, Locked, Idle
<1>2. /\ pc[t] \in Idle
      /\ UNCHANGED <<khandles, sockets, content, fds, taint_mappings, memory>>
  BY DEF Instruction, AppendBuffer, Locked, Idle, kernel, tracker
<1>3. pc'[t] \in Idle /\ Others(t)
  BY <1>1, PlainMoved DEF TypeInv
<1>4. Pending(t) = {} /\ Arrived(t) = {} /\ Pending(t)' = {} /\ Arrived(t)' = {}
  BY <1>2, <1>3 DEF Pending, Arrived, Got, Gone, Idle
<1>5. CallFollowed(t)'
  BY <1>3 DEF Idle, CallFollowed, ConnectFollowed, CloseFollowed, WrappedFollowed,
              ReceivedFollowed, ClosedFollowed, Got, Gone
<1>6. \A u \in Threads \ {t} :
        /\ Pending(u)' = Pending(u) /\ Arrived(u)' = Arrived(u)
        /\ CallFollowed(u)' <=> CallFollowed(u)
  <2> SUFFICES ASSUME NEW u \in Threads \ {t}
               PROVE  /\ Pending(u)' = Pending(u) /\ Arrived(u)' = Arrived(u)
                      /\ CallFollowed(u)' <=> CallFollowed(u)
    OBVIOUS
  <2>1. pc'[u] = pc[u] /\ call'[u] = call[u] /\ ret'[u] = ret[u] /\ state'[u] = state[u]
    BY <1>3 DEF Others
  <2>2. TrackedBy(u)' = TrackedBy(u) /\ (Got(u)' <=> Got(u)) /\ (Gone(u)' <=> Gone(u))
    BY <2>1 DEF TrackedBy, Got, Gone
  <2>3. Pending(u)' = Pending(u) /\ Arrived(u)' = Arrived(u)
    BY <2>1, <2>2 DEF Pending, Arrived
  <2>4. /\ ConnectFollowed(u)' <=> ConnectFollowed(u)
        /\ CloseFollowed(u)' <=> CloseFollowed(u)
        /\ WrappedFollowed(u)' <=> WrappedFollowed(u)
        /\ ReceivedFollowed(u)' <=> ReceivedFollowed(u)
        /\ ClosedFollowed(u)' <=> ClosedFollowed(u)
    BY <1>2, <2>1, <2>2 DEF ConnectFollowed, CloseFollowed, WrappedFollowed,
       ReceivedFollowed, ClosedFollowed, IsOpen, Socket
  <2> QED BY <2>3, <2>4 DEF CallFollowed
<1>7. /\ (UNION {Pending(u) : u \in Threads})' = UNION {Pending(u) : u \in Threads}
      /\ (UNION {Arrived(u) : u \in Threads})' = UNION {Arrived(u) : u \in Threads}
  BY <1>4, <1>6
<1>8. Serial'
  BY <1>2, <1>3 DEF Followed, Serial, Others
<1>9. \A u \in Threads : CallFollowed(u)'
  BY <1>5, <1>6 DEF Followed
<1>10. /\ FollowedBut(UNION {Pending(u) : u \in Threads})'
       /\ TaintedBut(UNION {Arrived(u) : u \in Threads})'
  BY <1>2, <1>7 DEF Followed, FollowedBut, TaintedBut
<1> QED BY <1>8, <1>9, <1>10 DEF Followed

(* Every step follows the network: a call begins when no other is under    *)
(* way, everything else is a step of the one call.                         *)
LEMMA FollowedStep ==
  ASSUME TypeInv, NetInv, NEW t \in Threads, Step(t), clean', taint_net'
  PROVE  Followed'
<1>1. Followed /\ taint_net
  BY CleanBefore DEF NetInv
<1>2. Others(t)
  BY StepMoves DEF TypeInv
<1>3. CASE Instruction(t) \/ AppendBuffer(t)
  BY <1>1, <1>3, LogFollow
<1>4. CASE ~(Instruction(t) \/ AppendBuffer(t))
  <2>1. \A u \in Threads \ {t} : pc[u] \in Idle
    <3>1. CASE Call(t)
      <4>1. \A u \in Threads \ {t} : pc[u] \in {"app", "append"}
        BY <3>1, Zenon DEF Call
      <4> QED BY <4>1 DEF Idle
    <3>2. CASE pc[t] \notin Idle
      BY <1>1, <3>2 DEF Followed, Serial
    <3> QED
      BY <1>4, <3>1, <3>2
      DEF Step, KernelSocket, KernelAccept, KernelConnect, KernelRecv, KernelOverlapped,
          RecvUnwinds, KernelClose, CallFails, acceptHelper, CloseExit,
          AfterRecvNothing, AfterRecv, AlreadyIntroduced, TActivate,
          PIN_RemoveInstrumentation, AddFrame, Locked, Doing, Idle
  <2>2. Situation(t)
    BY <1>1, <2>1, FollowedNow
  <2>3. ~KernelOverlapped(t)
    BY Zenon DEF KernelOverlapped
  <2>4. Situation(t)'
    BY <1>1, <1>4, <2>2, <2>3, CallFollow, NewSocketFollow, ConnectFollow, RecvFollow,
       KernelCloseFollow, FailFollow, WrapperFollow, CloseExitFollow, NothingFollow,
       AfterRecvFollow, FrameFollow DEF Step
  <2> QED BY <1>2, <2>1, <2>4, FollowedNext
<1> QED BY <1>3, <1>4

(* Every step keeps the agreement of tracker and kernel.                   *)
LEMMA NextNetInv == TypeInv /\ NetInv /\ [Next]_vars => NetInv'
<1> SUFFICES ASSUME TypeInv, NetInv, [Next]_vars PROVE NetInv'
  OBVIOUS
<1>1. CASE UNCHANGED vars
  <2>1. UNCHANGED <<pc, call, ret, state, recvStack, khandles, sockets, content, fds,
                    taint_mappings, memory, clean, taint_net>>
    BY <1>1 DEF vars, kernel, tracker, flags, history
  <2>2. KernelInv'
    BY <2>1 DEF NetInv, KernelInv, HandlesApart, UnconnectedFresh, TopOfCall, Receiving, Top
  <2>3. Followed => Followed'
    <3> SUFFICES ASSUME Followed PROVE Followed'
      OBVIOUS
    <3>1. \A u \in Threads : /\ Pending(u)' = Pending(u) /\ Arrived(u)' = Arrived(u)
                             /\ CallFollowed(u)' <=> CallFollowed(u)
      BY <2>1 DEF Pending, Arrived, Got, Gone, TrackedBy, CallFollowed, ConnectFollowed,
         CloseFollowed, WrappedFollowed, ReceivedFollowed, ClosedFollowed, IsOpen, Socket
    <3>2. /\ (UNION {Pending(u) : u \in Threads})' = UNION {Pending(u) : u \in Threads}
          /\ (UNION {Arrived(u) : u \in Threads})' = UNION {Arrived(u) : u \in Threads}
      BY <3>1
    <3>3. /\ FollowedBut(UNION {Pending(u) : u \in Threads})'
          /\ TaintedBut(UNION {Arrived(u) : u \in Threads})'
      BY <2>1, <3>2 DEF Followed, FollowedBut, TaintedBut
    <3> QED BY <2>1, <3>1, <3>3 DEF Followed, Serial
  <2> QED BY <2>1, <2>2, <2>3 DEF NetInv
<1>2. ASSUME NEW t \in Threads, Step(t) PROVE NetInv'
  <2>1. KernelInv'
    BY <1>2, HandlesStep, TopStep DEF KernelInv
  <2>2. ASSUME clean', taint_net' PROVE Followed'
    BY <1>2, <2>2, FollowedStep
  <2> QED BY <2>1, <2>2 DEF NetInv
<1> QED BY <1>1, <1>2 DEF Next, Step

(* As long as no call overlaps another and data comes the way the tool     *)
(* expects, it follows the network: between calls it tracks every          *)
(* connected socket and no other, at the offset of the connection, and     *)
(* each byte the program has received has the taint number of its offset,  *)
(* for any number of threads, handles and calls and buffers of any size.   *)
THEOREM NetworkTheorem == Spec => []NetworkFollowed
<1>1. NetInv => NetworkFollowed
  <2> SUFFICES ASSUME NetInv, Quiet PROVE SocketsFollowed /\ ReceivedTainted
    BY DEF NetworkFollowed
  <2>1. Followed
    BY DEF NetInv, Quiet
  <2>2. \A t \in Threads : Pending(t) = {} /\ Arrived(t) = {}
    BY DEF Quiet, Pending, Arrived, Got, Gone
  <2>3. /\ UNION {Pending(t) : t \in Threads} = {}
        /\ UNION {Arrived(t) : t \in Threads} = {}
    BY <2>2
  <2>4. FollowedBut({}) /\ TaintedBut({})
    BY <2>1, <2>3 DEF Followed
  <2> QED BY <2>4 DEF FollowedBut, TaintedBut, SocketsFollowed, ReceivedTainted
<1> QED
  BY <1>1, InitTypeInv, NextTypeInv, InitNetInv, NextNetInv, PTL DEF Spec

=============================================================================
