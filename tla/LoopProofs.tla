------------------------------ MODULE LoopProofs -----------------------------
(***************************************************************************)
(* Proofs about EventLoop, for any callers, descriptors and bounds, and    *)
(* about Timer, for any events, intervals, retry interval and number of    *)
(* clock settings.                                                         *)
(***************************************************************************)
EXTENDS EventLoop, Timer, SequenceTheorems, WellFoundedInduction, TLAPS

-----------------------------------------------------------------------------
(* EventLoop.  QueueInv is inductive; from it follow the types, and that the *)
(* loop implements the FIFO queue of TaskQueue until a race.                 *)

LEMMA InitQueueInv == Init => QueueInv
<1> SUFFICES ASSUME Init
             PROVE  QueueInv
  OBVIOUS
<1> USE DEF Init, Threads
<1>1. pc \in [Threads -> CallerPC \cup LoopPC]
  BY DEF CallerPC, LoopPC
<1>2. pc[Loop] \in LoopPC /\ \A c \in Callers : pc[c] \in CallerPC
  BY EventLoopAssumption DEF CallerPC, LoopPC
<1>3. arg \in [Threads -> Task \cup {NoTask}]
  OBVIOUS
<1>4. << >> \in Seq(Task)
  OBVIOUS
<1>5. arrivals \in [Fds -> 0..MaxReady] /\ count \in [Callers -> Nat]
  BY EventLoopAssumption
<1>6. \A t \in Threads : pc[t] \notin {"lock", "push"}
  OBVIOUS
<1> QED
  BY <1>1, <1>2, <1>3, <1>4, <1>5, <1>6 DEF QueueInv, TypeOK

(* The steps of the loop thread outside addTask. *)
LEMMA LoopStepQueueInv ==
  ASSUME QueueInv, LoopStep
  PROVE  QueueInv'
<1> USE DEF QueueInv, TypeOK, LoopPC, CallerPC, Goto, Release
<1>0. Loop \in Threads /\ \A c \in Callers : c \in Threads /\ c # Loop
  BY EventLoopAssumption DEF Threads
<1>1. CASE LoopCheck
  BY <1>0, <1>1 DEF LoopCheck
<1>2. CASE SwapLock
  BY <1>0, <1>2 DEF SwapLock, Acquire
<1>3. CASE Swap
  BY <1>0, <1>3 DEF Swap
<1>4. CASE SwapUnlock
  BY <1>0, <1>4 DEF SwapUnlock
<1>5. CASE RunTask
  BY <1>0, <1>5 DEF RunTask
<1>6. CASE TasksDone
  BY <1>0, <1>6 DEF TasksDone
<1>7. CASE EpollReturn
  <2>1. events' \subseteq ready
    BY <1>7 DEF EpollReturn
  <2> QED
    BY <1>0, <1>7, <2>1 DEF EpollReturn
<1>8. CASE EpollTimeout
  BY <1>0, <1>8 DEF EpollTimeout
<1>9. ASSUME NEW f \in AllFds, Dispatch(f)
      PROVE  QueueInv'
  <2> DEFINE task == <<f, 0>>
  <2>1. task \in Task
    <3>1. AllFds \X {0} \subseteq Task
      BY Zenon DEF Task
    <3>2. task \in AllFds \X {0}
      OBVIOUS
    <3> QED
      BY <3>1, <3>2, Zenon
  <2>2. arg' = [arg EXCEPT ![Loop] = task]
    BY <1>9 DEF Dispatch
  <2> HIDE DEF task
  <2>3. /\ arg' \in [Threads -> Task \cup {NoTask}]
        /\ \A t \in Threads : pc'[t] \in {"lock", "push"} => arg'[t] \in Task
    BY <1>0, <1>9, <2>1, <2>2 DEF Dispatch
  <2> QED
    BY <1>0, <1>9, <2>3 DEF Dispatch
<1>10. CASE EndScope
  BY <1>0, <1>10 DEF EndScope
<1> QED
  BY <1>1, <1>2, <1>3, <1>4, <1>5, <1>6, <1>7, <1>8, <1>9, <1>10 DEF LoopStep

(* addTask, in whatever thread. *)
LEMMA AddTaskQueueInv ==
  ASSUME QueueInv, NEW t \in Threads, AddTaskStep(t)
  PROVE  QueueInv'
<1> USE DEF QueueInv, TypeOK, LoopPC, CallerPC, Goto, Release
<1>0. /\ Loop \in Threads
      /\ \A c \in Callers : c \in Threads /\ c # Loop
      /\ t # Loop => t \in Callers
  BY EventLoopAssumption DEF Threads
<1>1. CASE AddTaskLock(t)
  BY <1>0, <1>1 DEF AddTaskLock, Acquire
<1>2. CASE AddTaskPush(t)
  <2>1. pending_tasks' \in Seq(Task)
    <3>1. arg[t] \in Task
      BY <1>2 DEF AddTaskPush
    <3>2. Append(pending_tasks, arg[t]) \in Seq(Task)
      BY <3>1
    <3> QED
      BY <1>2, <3>2 DEF AddTaskPush
  <2> QED
    BY <1>0, <1>2, <2>1 DEF AddTaskPush
<1>3. CASE AddTaskUnlock(t)
  BY <1>0, <1>3 DEF AddTaskUnlock
<1>4. CASE AddTaskReturn(t)
  <2>1. /\ arg' \in [Threads -> Task \cup {NoTask}]
        /\ \A u \in Threads : pc'[u] \in {"lock", "push"} => arg'[u] \in Task
    BY <1>0, <1>4 DEF AddTaskReturn
  <2> QED
    BY <1>0, <1>4, <2>1 DEF AddTaskReturn
<1> QED
  BY <1>1, <1>2, <1>3, <1>4 DEF AddTaskStep

(* The calls of the other threads, and the arrival of data. *)
LEMMA CallQueueInv ==
  ASSUME QueueInv,
         \/ \E c \in Callers : Wakeup(c) \/ CallAddTask(c) \/ CallStop(c)
         \/ \E f \in Fds : FdReady(f)
  PROVE  QueueInv'
<1> USE DEF QueueInv, TypeOK, LoopPC, CallerPC, Goto
<1>0. /\ Loop \in Threads
      /\ \A c \in Callers : c \in Threads /\ c # Loop
      /\ WakeFd \in AllFds /\ Fds \subseteq AllFds
  BY EventLoopAssumption DEF Threads, AllFds
<1>1. ASSUME NEW c \in Callers, Wakeup(c)
      PROVE  QueueInv'
  BY <1>0, <1>1 DEF Wakeup
<1>2. ASSUME NEW c \in Callers, CallAddTask(c)
      PROVE  QueueInv'
  <2> DEFINE task == <<c, count[c] + 1>>
  <2>1. count[c] + 1 \in 1..MaxTasks[c]
    <3>1. count[c] \in Nat /\ MaxTasks[c] \in Nat
      BY EventLoopAssumption
    <3>2. count[c] < MaxTasks[c]
      BY <1>2 DEF CallAddTask
    <3> QED
      BY <3>1, <3>2
  <2>2. count' \in [Callers -> Nat]
    BY <1>2 DEF CallAddTask
  <2>3. task \in {c} \X (1..MaxTasks[c])
    BY <2>1
  <2>4. task \in Task
    BY <2>3 DEF Task
  <2>5. arg' = [arg EXCEPT ![c] = task]
    BY <1>2 DEF CallAddTask
  <2> HIDE DEF task
  <2>6. /\ arg' \in [Threads -> Task \cup {NoTask}]
        /\ \A t \in Threads : pc'[t] \in {"lock", "push"} => arg'[t] \in Task
    BY <1>0, <1>2, <2>4, <2>5 DEF CallAddTask
  <2> QED
    BY <1>0, <1>2, <2>2, <2>6 DEF CallAddTask
<1>3. ASSUME NEW c \in Callers, CallStop(c)
      PROVE  QueueInv'
  BY <1>0, <1>3 DEF CallStop
<1>4. ASSUME NEW f \in Fds, FdReady(f)
      PROVE  QueueInv'
  <2>1. arrivals' \in [Fds -> 0..MaxReady]
    BY <1>4, EventLoopAssumption DEF FdReady
  <2> QED
    BY <1>0, <1>4, <2>1 DEF FdReady
<1> QED
  BY <1>1, <1>2, <1>3, <1>4

LEMMA QueueInvInvariant == Spec => []QueueInv
<1>1. QueueInv /\ UNCHANGED vars => QueueInv'
  BY DEF QueueInv, TypeOK, vars
<1>2. QueueInv /\ [Next]_vars => QueueInv'
  BY <1>1, LoopStepQueueInv, AddTaskQueueInv, CallQueueInv DEF Next
<1> QED
  BY <1>2, InitQueueInv, PTL DEF Spec

(* Every variable keeps its type: in particular no thread pushes a callback *)
(* it has already let go of, and the loop never runs an empty one.          *)
THEOREM Typing == Spec => []TypeOK
<1>1. QueueInv => TypeOK
  BY DEF QueueInv
<1> QED
  BY <1>1, QueueInvInvariant, PTL
-----------------------------------------------------------------------------
(* The queue of callbacks: tmp_tasks \o pending_tasks. *)

LEMMA AppendToSecond ==
  ASSUME NEW S, NEW s \in Seq(S), NEW u \in Seq(S), NEW e \in S
  PROVE  s \o Append(u, e) = Append(s \o u, e)
<1>1. <<e>> \in Seq(S)
  OBVIOUS
<1>2. s \o u \in Seq(S)
  BY ConcatProperties
<1>3. Append(u, e) = u \o <<e>> /\ Append(s \o u, e) = (s \o u) \o <<e>>
  BY <1>2, AppendIsConcat
<1> QED
  BY <1>1, <1>3, ConcatAssociative

LEMMA TailOfFirst ==
  ASSUME NEW S, NEW s \in Seq(S), NEW u \in Seq(S), s # << >>
  PROVE  /\ s \o u # << >>
         /\ Head(s \o u) = Head(s)
         /\ Tail(s \o u) = Tail(s) \o u
<1>1. Len(s) \in Nat \ {0} /\ Len(u) \in Nat
  OBVIOUS
<1>2. /\ s \o u \in Seq(S)
      /\ Len(s \o u) = Len(s) + Len(u)
      /\ \A i \in 1 .. Len(s) + Len(u) :
            (s \o u)[i] = IF i <= Len(s) THEN s[i] ELSE u[i - Len(s)]
  BY ConcatProperties
<1>3. s \o u # << >> /\ Head(s \o u) = Head(s)
  BY <1>1, <1>2
<1>4. /\ Tail(s) \in Seq(S) /\ Len(Tail(s)) = Len(s) - 1
      /\ \A i \in 1 .. Len(Tail(s)) : Tail(s)[i] = s[i+1]
  BY HeadTailProperties
<1>5. /\ Tail(s \o u) \in Seq(S) /\ Len(Tail(s \o u)) = Len(s) + Len(u) - 1
      /\ \A i \in 1 .. Len(Tail(s \o u)) : Tail(s \o u)[i] = (s \o u)[i+1]
  BY <1>2, <1>3, HeadTailProperties
<1>6. /\ Tail(s) \o u \in Seq(S)
      /\ Len(Tail(s) \o u) = Len(s) - 1 + Len(u)
      /\ \A i \in 1 .. Len(s) - 1 + Len(u) :
            (Tail(s) \o u)[i] = IF i <= Len(s) - 1 THEN Tail(s)[i]
                                ELSE u[i - (Len(s) - 1)]
  BY <1>4, ConcatProperties
<1>7. \A i \in 1 .. Len(s) + Len(u) - 1 :
         Tail(s \o u)[i] = (Tail(s) \o u)[i]
  BY <1>1, <1>2, <1>4, <1>5, <1>6
<1>8. Len(Tail(s \o u)) = Len(Tail(s) \o u)
  BY <1>1, <1>5, <1>6
<1> HIDE <1>2, <1>4
<1>9. Tail(s \o u) = Tail(s) \o u
  BY <1>1, <1>5, <1>6, <1>7, <1>8, SeqEqual
<1> QED
  BY <1>3, <1>9

LEMMA QueueUnchanged ==
  ASSUME UNCHANGED <<pending_tasks, tmp_tasks, executed, raced>>
  PROVE  UNCHANGED Queue!vars
BY DEF Queue!vars

(* A step of the loop thread runs the oldest callback or leaves the queue    *)
(* alone; only a step at the mutex or on a broken queue breaks it.           *)
LEMMA LoopStepRefines ==
  ASSUME QueueInv, LoopStep
  PROVE  [Queue!Next]_Queue!vars
<1> USE DEF QueueInv, TypeOK
<1>1. CASE LoopCheck \/ SwapUnlock \/ TasksDone \/ EpollReturn
           \/ EpollTimeout \/ EndScope \/ \E f \in AllFds : Dispatch(f)
  <2>1. UNCHANGED <<pending_tasks, tmp_tasks, executed, raced>>
    BY <1>1 DEF LoopCheck, SwapUnlock, TasksDone, EpollReturn, EpollTimeout,
                EndScope, Dispatch
  <2> QED
    BY <2>1, QueueUnchanged
<1>2. CASE SwapLock
  <2>1. CASE raced' = raced
    <3>1. UNCHANGED <<pending_tasks, tmp_tasks, executed, raced>>
      BY <1>2, <2>1 DEF SwapLock
    <3> QED
      BY <3>1, QueueUnchanged
  <2>2. CASE raced' # raced
    <3>1. raced' = TRUE
      BY <1>2, <2>2 DEF SwapLock, Acquire
    <3> QED
      BY <3>1 DEF Queue!Next, Queue!Break
  <2> QED
    BY <2>1, <2>2
<1>3. CASE Swap
  <2>1. CASE raced
    BY <1>3, <2>1 DEF Swap, Queue!Next, Queue!Break
  <2>2. CASE ~ raced
    <3>1. tmp_tasks = << >> /\ tmp_tasks' = pending_tasks
          /\ pending_tasks' = << >> /\ UNCHANGED <<executed, raced>>
      BY <1>3, <2>2 DEF Swap
    <3>2. (tmp_tasks \o pending_tasks)' = tmp_tasks \o pending_tasks
      BY <3>1, ConcatEmptySeq
    <3> QED
      BY <3>1, <3>2 DEF Queue!vars
  <2> QED
    BY <2>1, <2>2
<1>4. CASE RunTask
  <2>1. /\ tmp_tasks # << >>
        /\ executed' = Append(executed, Head(tmp_tasks))
        /\ tmp_tasks' = Tail(tmp_tasks)
        /\ UNCHANGED <<pending_tasks, raced>>
    BY <1>4 DEF RunTask
  <2>2. Queue!Run
    BY <2>1, TailOfFirst DEF Queue!Run
  <2> QED
    BY <2>2 DEF Queue!Next
<1> QED
  BY <1>1, <1>2, <1>3, <1>4 DEF LoopStep

(* addTask adds its callback at the end of the queue. *)
LEMMA AddTaskRefines ==
  ASSUME QueueInv, NEW t \in Threads, AddTaskStep(t)
  PROVE  [Queue!Next]_Queue!vars
<1> USE DEF QueueInv, TypeOK
<1>1. CASE AddTaskLock(t)
  <2>1. CASE raced' = raced
    <3>1. UNCHANGED <<pending_tasks, tmp_tasks, executed, raced>>
      BY <1>1, <2>1 DEF AddTaskLock
    <3> QED
      BY <3>1, QueueUnchanged
  <2>2. CASE raced' # raced
    <3>1. raced' = TRUE
      BY <1>1, <2>2 DEF AddTaskLock, Acquire
    <3> QED
      BY <3>1 DEF Queue!Next, Queue!Break
  <2> QED
    BY <2>1, <2>2
<1>2. CASE AddTaskPush(t)
  <2>1. CASE raced
    BY <1>2, <2>1 DEF AddTaskPush, Queue!Next, Queue!Break
  <2>2. CASE ~ raced
    <3>1. /\ arg[t] \in Task
          /\ pending_tasks' = Append(pending_tasks, arg[t])
          /\ UNCHANGED <<tmp_tasks, executed, raced>>
      BY <1>2, <2>2 DEF AddTaskPush
    <3>2. Queue!Add(arg[t])
      BY <3>1, AppendToSecond DEF Queue!Add
    <3> QED
      BY <3>1, <3>2 DEF Queue!Next
  <2> QED
    BY <2>1, <2>2
<1>3. CASE AddTaskUnlock(t) \/ AddTaskReturn(t)
  <2>1. UNCHANGED <<pending_tasks, tmp_tasks, executed, raced>>
    BY <1>3 DEF AddTaskUnlock, AddTaskReturn
  <2> QED
    BY <2>1, QueueUnchanged
<1> QED
  BY <1>1, <1>2, <1>3 DEF AddTaskStep

(* EventLoop implements the FIFO queue: whatever the number of threads and   *)
(* descriptors, until two threads are inside m_pending_tasks at once the     *)
(* callbacks run in the order of the pushes, each once, none lost.           *)
THEOREM LoopIsFifoQueue == Spec => IsFifoQueue
<1>1. Init => Queue!Init
  BY DEF Init, Queue!Init
<1>2. QueueInv /\ [Next]_vars => [Queue!Next]_Queue!vars
  <2> SUFFICES ASSUME QueueInv, [Next]_vars
               PROVE  [Queue!Next]_Queue!vars
    OBVIOUS
  <2>1. CASE \/ \E c \in Callers : Wakeup(c) \/ CallAddTask(c) \/ CallStop(c)
             \/ \E f \in Fds : FdReady(f)
             \/ UNCHANGED vars
    <3>1. UNCHANGED <<pending_tasks, tmp_tasks, executed, raced>>
      BY <2>1 DEF Wakeup, CallAddTask, CallStop, FdReady, vars
    <3> QED
      BY <3>1, QueueUnchanged
  <2> QED
    BY <2>1, LoopStepRefines, AddTaskRefines DEF Next
<1> QED
  BY <1>1, <1>2, QueueInvInvariant, PTL DEF Spec, IsFifoQueue, Queue!Spec
-----------------------------------------------------------------------------
(* The mutex. *)

(* A step that neither takes nor frees the mutex leaves it in the hands of   *)
(* the thread that held it: that thread is not the one that steps, or it     *)
(* goes from its access to its unlock.                                       *)
LEMMA HolderKept ==
  ASSUME TypeOK, MutexHasHolder, mutex' = mutex,
         NEW t \in Threads, NEW label,
         pc' = [pc EXCEPT ![t] = label],
         Holding(t) => label \in {"unlock", "swap_unlock"}
  PROVE  MutexHasHolder'
<1> SUFFICES ASSUME mutex
             PROVE  \E u \in Threads : Holding(u)'
  BY DEF MutexHasHolder
<1>1. PICK u \in Threads : Holding(u)
  BY DEF MutexHasHolder
<1>2. Holding(u)'
  BY <1>1 DEF TypeOK, Holding
<1> QED
  BY <1>2

LEMMA AcquiredHolder ==
  ASSUME TypeOK, NEW t \in Threads, NEW label \in {"push", "swap"},
         pc' = [pc EXCEPT ![t] = label]
  PROVE  MutexHasHolder'
BY DEF TypeOK, MutexHasHolder, Holding

(* A taken mutex is always about to be freed by the thread that took it, so  *)
(* the second unlock of ~ScopeMutex can let too many threads in but never    *)
(* shuts one out.                                                            *)
THEOREM MutexIsFreed == Spec => []MutexHasHolder
<1>1. Init => MutexHasHolder
  BY DEF Init, MutexHasHolder
<1>2. TypeOK /\ MutexHasHolder /\ [Next]_vars => MutexHasHolder'
  <2> SUFFICES ASSUME TypeOK, MutexHasHolder, [Next]_vars
               PROVE  MutexHasHolder'
    OBVIOUS
  <2>0. Loop \in Threads /\ \A c \in Callers : c \in Threads
    BY DEF Threads
  <2>1. CASE LoopStep
    <3>1. CASE SwapUnlock \/ EndScope
      BY <3>1 DEF SwapUnlock, EndScope, Release, MutexHasHolder
    <3>2. CASE SwapLock
      BY <2>0, <3>2, AcquiredHolder DEF SwapLock, Goto
    <3>3. CASE LoopCheck \/ Swap \/ TasksDone \/ EpollReturn \/ EpollTimeout
      <4>1. /\ mutex' = mutex
            /\ \E label \in LoopPC :
                  /\ pc' = [pc EXCEPT ![Loop] = label]
                  /\ Holding(Loop) => label = "swap_unlock"
        BY <3>3 DEF LoopCheck, Swap, TasksDone, EpollReturn, EpollTimeout,
                    Goto, Holding, LoopPC
      <4> QED
        BY <2>0, <4>1, HolderKept
    <3>4. CASE \E f \in AllFds : Dispatch(f)
      <4>1. mutex' = mutex /\ ~ Holding(Loop)
            /\ pc' = [pc EXCEPT ![Loop] = "lock"]
        BY <3>4 DEF Dispatch, Goto, Holding
      <4> QED
        BY <2>0, <4>1, HolderKept
    <3>5. CASE RunTask
      BY <3>5 DEF RunTask, MutexHasHolder, Holding
    <3> QED
      BY <2>1, <3>1, <3>2, <3>3, <3>4, <3>5 DEF LoopStep
  <2>2. ASSUME NEW t \in Threads, AddTaskStep(t)
        PROVE  MutexHasHolder'
    <3>1. CASE AddTaskUnlock(t) \/ AddTaskReturn(t)
      BY <3>1 DEF AddTaskUnlock, AddTaskReturn, Release, MutexHasHolder
    <3>2. CASE AddTaskLock(t)
      BY <3>2, AcquiredHolder DEF AddTaskLock, Goto
    <3>3. CASE AddTaskPush(t)
      BY <3>3, HolderKept DEF AddTaskPush, Goto
    <3> QED
      BY <2>2, <3>1, <3>2, <3>3 DEF AddTaskStep
  <2>3. ASSUME NEW c \in Callers, Wakeup(c) \/ CallAddTask(c) \/ CallStop(c)
        PROVE  MutexHasHolder'
    <3>1. /\ mutex' = mutex /\ ~ Holding(c)
          /\ \E label \in CallerPC : pc' = [pc EXCEPT ![c] = label]
      BY <2>3 DEF Wakeup, CallAddTask, CallStop, Goto, Holding, CallerPC
    <3> QED
      BY <2>0, <3>1, HolderKept
  <2>4. CASE (\E f \in Fds : FdReady(f)) \/ UNCHANGED vars
    BY <2>4 DEF FdReady, vars, MutexHasHolder, Holding
  <2> QED
    BY <2>1, <2>2, <2>3, <2>4 DEF Next
<1> QED
  BY <1>1, <1>2, Typing, PTL DEF Spec

-----------------------------------------------------------------------------
(* Timer. *)

(* A set of events has an earliest arrive time. *)
LEMMA EarliestExists ==
  ASSUME NEW P \in SUBSET Events, P # {}, NEW rem \in [Events -> Remain]
  PROVE  /\ Earliest(P, rem) \in {rem[e] : e \in P}
         /\ Earliest(P, rem) \in Remain
         /\ \A e \in P : Earliest(P, rem) <= rem[e]
<1> DEFINE T == {rem[e] + 1 : e \in P}
           Times == {rem[e] : e \in P}
<1>1. T \subseteq Nat /\ T # {} /\ Times \subseteq Remain
  BY TimerAssumption DEF Remain
<1>2. PICK x \in T : \A y \in T : ~ (<<y, x>> \in OpToRel(<, Nat))
  BY <1>1, NatLessThanWellFounded, WFMin, Zenon
<1>3. \A y \in T : ~ (y < x)
  BY <1>1, <1>2 DEF OpToRel
<1>4. PICK p \in P : x = rem[p] + 1
  OBVIOUS
<1>5. \A e \in P : rem[e] \in Remain /\ rem[p] <= rem[e]
  <2> SUFFICES ASSUME NEW e \in P
               PROVE  rem[e] \in Remain /\ rem[p] <= rem[e]
    OBVIOUS
  <2>1. rem[e] \in Remain /\ rem[p] \in Remain
    OBVIOUS
  <2>2. ~ (rem[e] + 1 < rem[p] + 1)
    BY <1>3, <1>4
  <2> QED
    BY <2>1, <2>2, TimerAssumption DEF Remain
<1>6. rem[p] \in Times /\ \A e \in P : rem[p] <= rem[e]
  BY <1>5
<1>7. Earliest(P, rem) \in Times /\ \A e \in P : Earliest(P, rem) <= rem[e]
  BY <1>6 DEF Earliest
<1> QED
  BY <1>1, <1>7

(* Arming the timerfd for a set of events. *)
LEMMA ResetArms ==
  ASSUME NEW P \in SUBSET Events, NEW rem \in [Events -> Remain],
         arm \in Nat, expired \in BOOLEAN, ResetArriveTime(P, rem)
  PROVE  /\ arm' \in Nat /\ expired' \in BOOLEAN
         /\ P # {} => arm' > 0
         /\ P = {} => UNCHANGED fd_vars
         /\ P # {} => arm' <= Earliest(P, rem) \/ arm' <= Retry
<1>1. CASE P = {}
  BY <1>1 DEF ResetArriveTime, fd_vars
<1>2. CASE P # {}
  <2> DEFINE first == Earliest(P, rem)
  <2>1. first \in Int
    BY <1>2, EarliestExists, TimerAssumption DEF Remain
  <2>2. /\ arm' = IF first > 0 THEN first ELSE Retry
        /\ expired' = FALSE
    BY <1>2 DEF ResetArriveTime
  <2> HIDE DEF first
  <2>3. arm' \in Nat /\ arm' > 0 /\ (arm' <= first \/ arm' <= Retry)
    BY <2>1, <2>2, TimerAssumption
  <2> QED
    BY <1>2, <2>2, <2>3 DEF first
<1> QED
  BY <1>1, <1>2

-----------------------------------------------------------------------------
(* Types. *)

LEMMA AddEventTypes ==
  ASSUME TimerTypeOK, NEW e \in Events, NEW i \in 0..Horizon,
         AddEvent(e, [remain EXCEPT ![e] = i])
  PROVE  /\ pending' \subseteq Events /\ remain' \in [Events -> Remain]
         /\ arm' \in Nat /\ expired' \in BOOLEAN
<1> DEFINE rem == [remain EXCEPT ![e] = i]
<1>1. rem \in [Events -> Remain]
  BY TimerAssumption DEF TimerTypeOK, Remain
<1>2. pending' \in SUBSET Events /\ remain' = rem
  BY DEF AddEvent, TimerTypeOK
<1> HIDE DEF rem
<1>3. ResetArriveTime(pending', rem) \/ UNCHANGED fd_vars
  BY DEF AddEvent, rem
<1>4. arm' \in Nat /\ expired' \in BOOLEAN
  BY <1>1, <1>2, <1>3, ResetArms DEF TimerTypeOK, fd_vars
<1> QED
  BY <1>1, <1>2, <1>4

LEMMA LaterType == \A r \in Remain : Later(r) \in Remain
BY TimerAssumption DEF Remain, Later

(* Every variable keeps its type; in particular the timerfd is never given *)
(* a negative time.                                                        *)
THEOREM TimerTyping == TimerSpec => []TimerTypeOK
<1>1. TimerInit => TimerTypeOK
  <2> SUFFICES ASSUME TimerInit
               PROVE  TimerTypeOK
    OBVIOUS
  <2>1. 0 \in Remain /\ 0 \in 0..MaxSteps
    BY TimerAssumption DEF Remain
  <2>2. remain \in [Events -> Remain] /\ interval \in [Events -> Intervals \cup {0}]
    BY <2>1 DEF TimerInit
  <2> QED
    BY <2>1, <2>2 DEF TimerInit, TimerTypeOK
<1>2. TimerTypeOK /\ [TimerNext]_timerVars => TimerTypeOK'
  <2> SUFFICES ASSUME TimerTypeOK, [TimerNext]_timerVars
               PROVE  TimerTypeOK'
    OBVIOUS
  <2>0. Intervals \cup {0} \subseteq 0..Horizon
    BY TimerAssumption
  <2>1. ASSUME NEW e \in Events, NEW i \in Intervals, NEW r \in BOOLEAN,
               Add(e, i, r)
        PROVE  TimerTypeOK'
    <3>1. AddEvent(e, [remain EXCEPT ![e] = i]) /\ i \in 0..Horizon
      BY <2>0, <2>1 DEF Add
    <3>2. /\ interval' \in [Events -> Intervals \cup {0}]
          /\ repeated' \in [Events -> BOOLEAN]
          /\ cancelled' \in [Events -> BOOLEAN]
          /\ UNCHANGED <<at, tmps, tasks, queued, steps>>
      BY <2>1 DEF Add, TimerTypeOK
    <3> QED
      BY <3>1, <3>2, AddEventTypes DEF TimerTypeOK
  <2>2. ASSUME NEW e \in Events, Delete(e)
        PROVE  TimerTypeOK'
    BY <2>2 DEF Delete, TimerTypeOK, event_vars, fd_vars
  <2>3. CASE QueueOnTimer \/ Drain \/ OnTimerDone \/ UNCHANGED timerVars
    BY <2>3 DEF QueueOnTimer, Drain, OnTimerDone, timerVars, TimerTypeOK, event_vars,
                fd_vars
  <2>4. CASE Collect
    <3>1. tmps' \subseteq Events /\ pending' \subseteq Events
      BY <2>4 DEF Collect, TimerTypeOK
    <3>2. tasks' \subseteq Remain \X Events
      BY <2>4 DEF Collect, TimerTypeOK
    <3> QED
      BY <2>4, <3>1, <3>2 DEF Collect, TimerTypeOK, event_vars, fd_vars
  <2>5. ASSUME NEW e \in Events, Readd(e)
        PROVE  TimerTypeOK'
    <3>1. interval[e] \in 0..Horizon
      BY <2>0 DEF TimerTypeOK
    <3>2. /\ pending' \subseteq Events /\ remain' \in [Events -> Remain]
          /\ arm' \in Nat /\ expired' \in BOOLEAN
      BY <2>5, <3>1, AddEventTypes DEF Readd, TimerTypeOK, fd_vars
    <3> QED
      BY <2>5, <3>2 DEF Readd, TimerTypeOK, event_vars
  <2>6. CASE Rearm
    <3>1. arm' \in Nat /\ expired' \in BOOLEAN
      BY <2>6, ResetArms DEF Rearm, TimerTypeOK
    <3> QED
      BY <2>6, <3>1 DEF Rearm, TimerTypeOK, event_vars
  <2>7. ASSUME NEW t \in tasks, RunCallback(t)
        PROVE  TimerTypeOK'
    BY <2>7 DEF RunCallback, TimerTypeOK, event_vars, fd_vars
  <2>8. CASE Tick
    <3>1. remain' \in [Events -> Remain]
      BY <2>8, LaterType DEF Tick, TimerTypeOK
    <3> QED
      BY <2>8, <3>1 DEF Tick, TimerTypeOK, event_vars
  <2>9. CASE SetForward
    <3>1. remain' \in [Events -> Remain]
      BY <2>9, LaterType DEF SetForward, TimerTypeOK
    <3> QED
      BY <2>9, <3>1, TimerAssumption DEF SetForward, TimerTypeOK, event_vars, fd_vars
  <2>10. CASE SetBack
    <3>1. remain' \in [Events -> Remain]
      BY <2>10, TimerAssumption DEF SetBack, TimerTypeOK, Remain
    <3> QED
      BY <2>10, <3>1, TimerAssumption DEF SetBack, TimerTypeOK, event_vars, fd_vars
  <2> QED
    BY <2>1, <2>2, <2>3, <2>4, <2>5, <2>6, <2>7, <2>8, <2>9, <2>10
    DEF TimerNext, OnTimerStep
<1> QED
  BY <1>1, <1>2, PTL DEF TimerSpec
-----------------------------------------------------------------------------
(* The timer does not go dead. *)

(* Adding an event arms the timerfd, or leaves it as it was for the events   *)
(* that were already pending.                                                *)
LEMMA AddEventArms ==
  ASSUME TimerTypeOK, NEW e \in Events, NEW i \in 0..Horizon,
         AddEvent(e, [remain EXCEPT ![e] = i])
  PROVE  \/ arm' > 0
         \/ pending # {} /\ UNCHANGED fd_vars
<1> DEFINE rem == [remain EXCEPT ![e] = i]
<1>1. rem \in [Events -> Remain]
  BY TimerAssumption DEF TimerTypeOK, Remain
<1>2. pending' \in SUBSET Events /\ pending' # {}
  BY DEF AddEvent, TimerTypeOK
<1> HIDE DEF rem
<1>3. \/ ResetArriveTime(pending', rem)
      \/ pending # {} /\ UNCHANGED fd_vars
  BY DEF AddEvent, rem
<1> QED
  BY <1>1, <1>2, <1>3, ResetArms DEF TimerTypeOK

(* While an event is pending the timerfd is armed or has expired, or onTimer *)
(* is on its way to arm it, however calls, time and clock settings fall      *)
(* between its steps.                                                        *)
THEOREM TimerNeverDead == TimerSpec => []TimerArmed
<1>1. TimerInit => TimerArmed
  BY DEF TimerInit, TimerArmed
<1>2. TimerTypeOK /\ TimerArmed /\ [TimerNext]_timerVars => TimerArmed'
  <2> SUFFICES ASSUME TimerTypeOK, TimerArmed, [TimerNext]_timerVars, pending' # {}
               PROVE  arm' > 0 \/ expired' \/ queued' \/ at' \in {"collect", "readd"}
    BY DEF TimerArmed
  <2> USE DEF TimerArmed, fd_vars, event_vars
  <2>1. ASSUME NEW e \in Events, NEW i \in Intervals, NEW r \in BOOLEAN,
               Add(e, i, r)
        PROVE  arm' > 0 \/ expired' \/ queued' \/ at' \in {"collect", "readd"}
    <3>1. /\ AddEvent(e, [remain EXCEPT ![e] = i]) /\ i \in 0..Horizon
          /\ UNCHANGED <<at, queued>>
      BY <2>1, TimerAssumption DEF Add
    <3>2. arm' > 0 \/ (pending # {} /\ UNCHANGED fd_vars)
      BY <3>1, AddEventArms
    <3> QED
      BY <3>1, <3>2
  <2>2. CASE \/ \E e \in Events : Delete(e)
             \/ QueueOnTimer \/ Drain \/ Collect \/ SetForward \/ SetBack
             \/ \E t \in tasks : RunCallback(t)
             \/ OnTimerDone \/ UNCHANGED timerVars
    BY <2>2 DEF Delete, QueueOnTimer, Drain, Collect, SetForward, SetBack,
                RunCallback, OnTimerDone, timerVars
  <2>3. ASSUME NEW e \in Events, Readd(e)
        PROVE  at' \in {"collect", "readd"}
    BY <2>3 DEF Readd
  <2>4. CASE Rearm
    <3>1. ResetArriveTime(pending, remain) /\ pending' = pending
      BY <2>4 DEF Rearm
    <3> QED
      BY <3>1, ResetArms DEF TimerTypeOK
  <2>5. CASE Tick
    <3>1. CASE arm > 0
      <4>1. arm' = arm - 1 /\ arm \in Nat
        BY <2>5, <3>1 DEF Tick, TimerTypeOK
      <4>2. arm' > 0 \/ arm = 1
        BY <3>1, <4>1
      <4>3. arm = 1 => expired'
        BY <2>5 DEF Tick
      <4> QED
        BY <4>2, <4>3
    <3>2. CASE ~ (arm > 0)
      BY <2>5, <3>2 DEF Tick
    <3> QED
      BY <3>1, <3>2
  <2> QED
    BY <2>1, <2>2, <2>3, <2>4, <2>5 DEF TimerNext, OnTimerStep
<1> QED
  BY <1>1, <1>2, TimerTyping, PTL DEF TimerSpec

-----------------------------------------------------------------------------
(* Which events are where. *)

LEMMA RoundInvariant == TimerSpec => []RoundInv
<1>1. TimerInit => RoundInv
  BY DEF TimerInit, RoundInv
<1>2. RoundInv /\ [TimerNext]_timerVars => RoundInv'
  BY DEF RoundInv, TimerNext, OnTimerStep, Add, Delete, QueueOnTimer, Drain, Collect,
         Readd, Rearm, RunCallback, OnTimerDone, Tick, SetForward, SetBack,
         CanCall, timerVars
<1> QED
  BY <1>1, <1>2, PTL DEF TimerSpec

(* A deleted event stays out of the map, whether or not it is repeated and   *)
(* whether or not onTimer is running when it is deleted.                     *)
THEOREM DeletedStaysOut == TimerSpec => []CancelledNotPending
<1>1. TimerInit => CancelledNotPending
  BY DEF TimerInit, CancelledNotPending
<1>2. TimerTypeOK /\ RoundInv /\ CancelledNotPending /\ [TimerNext]_timerVars
        => CancelledNotPending'
  <2> SUFFICES ASSUME TimerTypeOK, RoundInv, CancelledNotPending, [TimerNext]_timerVars
               PROVE  CancelledNotPending'
    OBVIOUS
  <2> USE DEF CancelledNotPending, event_vars
  <2>1. ASSUME NEW e \in Events, NEW i \in Intervals, NEW r \in BOOLEAN,
               Add(e, i, r)
        PROVE  CancelledNotPending'
    <3>1. /\ cancelled' = [cancelled EXCEPT ![e] = FALSE]
          /\ pending' = pending \cup {e} /\ tmps' = tmps /\ tmps = {}
      BY <2>1 DEF Add, AddEvent, RoundInv, CanCall
    <3> QED
      BY <3>1 DEF TimerTypeOK
  <2>2. ASSUME NEW e \in Events, Delete(e)
        PROVE  CancelledNotPending'
    <3>1. /\ cancelled' = [cancelled EXCEPT ![e] = TRUE]
          /\ pending' = pending \ {e} /\ tmps' = tmps /\ tmps = {}
      BY <2>2 DEF Delete, RoundInv, CanCall
    <3> QED
      BY <3>1 DEF TimerTypeOK
  <2>3. CASE Collect
    BY <2>3 DEF Collect
  <2>4. ASSUME NEW e \in Events, Readd(e)
        PROVE  CancelledNotPending'
    <3>1. /\ cancelled' = cancelled /\ tmps' = tmps \ {e} /\ e \in tmps
          /\ pending' = pending \/ pending' = pending \cup {e}
      BY <2>4 DEF Readd, AddEvent
    <3> QED
      BY <3>1
  <2>5. CASE \/ QueueOnTimer \/ Drain \/ Rearm \/ OnTimerDone \/ Tick
             \/ SetForward \/ SetBack \/ UNCHANGED timerVars
             \/ \E t \in tasks : RunCallback(t)
    <3>1. UNCHANGED <<pending, tmps, cancelled>>
      BY <2>5 DEF QueueOnTimer, Drain, Rearm, OnTimerDone, Tick, SetForward,
                  SetBack, RunCallback, timerVars
    <3> QED
      BY <3>1
  <2> QED
    BY <2>1, <2>2, <2>3, <2>4, <2>5 DEF TimerNext, OnTimerStep
<1> QED
  BY <1>1, <1>2, TimerTyping, RoundInvariant, PTL DEF TimerSpec
(* An event that is not repeated is never pending while its callback is      *)
(* about to run: it runs once for each time it is added.                     *)
THEOREM OneShotRunsOnce == TimerSpec => []OneShotTakenOnce
<1>1. TimerInit => OneShotTakenOnce
  BY DEF TimerInit, OneShotTakenOnce, Collected
<1>2. TimerTypeOK /\ OneShotTakenOnce /\ [TimerNext]_timerVars => OneShotTakenOnce'
  <2> SUFFICES ASSUME TimerTypeOK, OneShotTakenOnce, [TimerNext]_timerVars
               PROVE  OneShotTakenOnce'
    OBVIOUS
  <2> USE DEF OneShotTakenOnce, event_vars
  <2>1. ASSUME NEW e \in Events, NEW i \in Intervals, NEW r \in BOOLEAN,
               Add(e, i, r)
        PROVE  OneShotTakenOnce'
    <3>1. /\ e \notin Collected /\ Collected' = Collected
          /\ pending' = pending \cup {e}
          /\ repeated' = [repeated EXCEPT ![e] = r]
      BY <2>1 DEF Add, AddEvent, Collected
    <3> QED
      BY <3>1 DEF TimerTypeOK
  <2>2. ASSUME NEW e \in Events, Delete(e)
        PROVE  OneShotTakenOnce'
    BY <2>2 DEF Delete, Collected
  <2>3. CASE Collect
    <3>1. \A e \in Collected' : e \notin pending'
      BY <2>3 DEF Collect, Collected
    <3> QED
      BY <3>1
  <2>4. ASSUME NEW e \in Events, Readd(e)
        PROVE  OneShotTakenOnce'
    <3>1. /\ Collected' = Collected /\ repeated' = repeated
          /\ \/ pending' = pending
             \/ pending' = pending \cup {e} /\ repeated[e]
      BY <2>4 DEF Readd, AddEvent, Collected
    <3> QED
      BY <3>1
  <2>5. ASSUME NEW t \in tasks, RunCallback(t)
        PROVE  OneShotTakenOnce'
    BY <2>5 DEF RunCallback, Collected
  <2>6. CASE \/ QueueOnTimer \/ Drain \/ Rearm \/ OnTimerDone \/ Tick
             \/ SetForward \/ SetBack \/ UNCHANGED timerVars
    <3>1. UNCHANGED <<pending, tasks, repeated>>
      BY <2>6 DEF QueueOnTimer, Drain, Rearm, OnTimerDone, Tick, SetForward,
                  SetBack, timerVars
    <3> QED
      BY <3>1 DEF Collected
  <2> QED
    BY <2>1, <2>2, <2>3, <2>4, <2>5, <2>6 DEF TimerNext, OnTimerStep
<1> QED
  BY <1>1, <1>2, TimerTyping, PTL DEF TimerSpec

-----------------------------------------------------------------------------
(* How late an event can be. *)

\* LatenessBounded, with the earliest event replaced by all of them.
Waiting == steps = 0 /\ at \in {"idle", "run"} /\ ~ expired /\ ~ queued

ArmedInTime ==
    Waiting => arm <= Retry \/ \A e \in pending : arm <= remain[e]

LEMMA ArmedInTimeBounds ==
  ASSUME TimerTypeOK, ArmedInTime
  PROVE  LatenessBounded
<1> SUFFICES ASSUME pending # {}, Waiting
             PROVE  arm <= Earliest(pending, remain) \/ arm <= Retry
  BY DEF LatenessBounded, Waiting
<1>1. Earliest(pending, remain) \in {remain[e] : e \in pending}
  BY EarliestExists DEF TimerTypeOK
<1> QED
  BY <1>1 DEF ArmedInTime

LEMMA ResetInTime ==
  ASSUME TimerTypeOK, NEW P \in SUBSET Events, NEW rem \in [Events -> Remain],
         ResetArriveTime(P, rem), P # {}
  PROVE  arm' <= Retry \/ \A e \in P : arm' <= rem[e]
<1> DEFINE first == Earliest(P, rem)
<1>1. arm' \in Nat /\ (arm' <= first \/ arm' <= Retry)
  BY ResetArms DEF TimerTypeOK
<1>2. first \in Int /\ \A e \in P : rem[e] \in Int /\ first <= rem[e]
  BY EarliestExists, TimerAssumption DEF Remain
<1> HIDE DEF first
<1> QED
  BY <1>1, <1>2

(* While the wall clock is not set, the timerfd is never armed later than    *)
(* the first event or the retry interval.                                    *)
THEOREM ArmedForFirst == TimerSpec => []LatenessBounded
<1>1. TimerInit => ArmedInTime
  BY DEF TimerInit, ArmedInTime
<1>2. TimerTypeOK /\ TimerArmed /\ ArmedInTime /\ [TimerNext]_timerVars => ArmedInTime'
  <2> SUFFICES ASSUME TimerTypeOK, TimerArmed, ArmedInTime, [TimerNext]_timerVars, Waiting'
               PROVE  arm' <= Retry \/ \A e \in pending' : arm' <= remain'[e]
    BY DEF ArmedInTime
  <2> USE DEF Waiting, ArmedInTime, fd_vars, event_vars
  <2>1. ASSUME NEW e \in Events, NEW i \in Intervals, NEW r \in BOOLEAN,
               Add(e, i, r)
        PROVE  arm' <= Retry \/ \A p \in pending' : arm' <= remain'[p]
    <3> DEFINE rem == [remain EXCEPT ![e] = i]
    <3>1. /\ rem \in [Events -> Remain]
          /\ rem[e] = i /\ \A p \in pending : rem[p] = remain[p]
      BY <2>1, TimerAssumption DEF TimerTypeOK, Remain, Add
    <3>2. /\ pending' = pending \cup {e} /\ remain' = rem
          /\ UNCHANGED <<at, queued, steps>>
      BY <2>1 DEF Add, AddEvent
    <3> HIDE DEF rem
    <3>3. CASE ResetArriveTime(pending', rem)
      BY <3>1, <3>2, <3>3, ResetInTime DEF TimerTypeOK
    <3>4. CASE UNCHANGED fd_vars /\ \E p \in pending : ~ (rem[p] > rem[e])
      <4>1. arm <= Retry \/ \A p \in pending : arm <= remain[p]
        BY <3>2, <3>4
      <4>2. PICK p \in pending : ~ (rem[p] > rem[e])
        BY <3>4
      <4>3. rem[p] \in Int /\ rem[e] \in Int /\ arm \in Int
        BY <3>1, <4>2, TimerAssumption DEF TimerTypeOK, Remain
      <4>4. (\A q \in pending : arm <= remain[q]) => arm <= rem[e]
        BY <3>1, <4>2, <4>3
      <4> QED
        BY <3>1, <3>2, <3>4, <4>1, <4>4
    <3> QED
      BY <2>1, <3>3, <3>4 DEF Add, AddEvent, rem
  <2>2. ASSUME NEW e \in Events, Delete(e)
        PROVE  arm' <= Retry \/ \A p \in pending' : arm' <= remain'[p]
    BY <2>2 DEF Delete
  <2>3. CASE QueueOnTimer \/ Drain \/ Collect \/ \E e \in Events : Readd(e)
    BY <2>3 DEF QueueOnTimer, Drain, Collect, Readd
  <2>4. CASE SetForward \/ SetBack
    BY <2>4 DEF SetForward, SetBack, TimerTypeOK
  <2>5. CASE Rearm
    <3>1. /\ ResetArriveTime(pending, remain)
          /\ pending' = pending /\ remain' = remain
      BY <2>5 DEF Rearm
    <3> QED
      BY <3>1, ResetInTime DEF TimerTypeOK
  <2>6. CASE OnTimerDone \/ UNCHANGED timerVars \/ \E t \in tasks : RunCallback(t)
    BY <2>6 DEF OnTimerDone, timerVars, RunCallback
  <2>7. CASE Tick
    <3>1. /\ pending' = pending /\ UNCHANGED <<at, queued, steps>>
          /\ ~ expired /\ arm # 1
      BY <2>7 DEF Tick
    <3>2. CASE pending = {}
      BY <3>1, <3>2
    <3>3. CASE pending # {}
      <4>1. arm \in Nat /\ arm > 1 /\ arm' = arm - 1
        BY <2>7, <3>1, <3>3 DEF TimerArmed, Tick, TimerTypeOK
      <4>2. arm <= Retry \/ \A e \in pending : arm <= remain[e]
        BY <3>1
      <4>3. \A e \in pending : remain[e] \in Int /\ remain'[e] = Later(remain[e])
        BY <2>7, TimerAssumption DEF Tick, TimerTypeOK, Remain
      <4>4. \A e \in pending : arm <= remain[e] => arm' <= remain'[e]
        BY <4>1, <4>3 DEF Later
      <4>5. arm <= Retry => arm' <= Retry
        BY <4>1, TimerAssumption
      <4> QED
        BY <3>1, <4>2, <4>4, <4>5
    <3> QED
      BY <3>2, <3>3
  <2> QED
    BY <2>1, <2>2, <2>3, <2>4, <2>5, <2>6, <2>7 DEF TimerNext, OnTimerStep
<1> QED
  BY <1>1, <1>2, ArmedInTimeBounds, TimerTyping, TimerNeverDead, PTL DEF TimerSpec
=============================================================================
