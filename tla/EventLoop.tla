------------------------------ MODULE EventLoop ------------------------------
(***************************************************************************)
(* net/eventloop.{h,cc}: one loop thread that runs EventLoop::loop, and    *)
(* other threads (IO-thread users, the acceptor's thread) that hand it     *)
(* callbacks with addTask(cb, true) or end it with stop().                 *)
(*                                                                         *)
(* The mutex is common/mutex.h: a ScopeMutex whose unlock() does not clear *)
(* m_is_lock, so its destructor unlocks a second time.  A pthread mutex of *)
(* the default kind does not know its owner: each unlock frees it, whoever *)
(* holds it.  A critical section is entered by a Lock action and left by   *)
(* the access at its end; a thread that enters while another one is inside *)
(* makes a data race on m_pending_tasks, recorded in `raced': from then on *)
(* an access may lose what it handles.                                     *)
(***************************************************************************)
EXTENDS Integers, Sequences, FiniteSets

CONSTANTS
    Loop,        \* the thread of the loop
    Callers,     \* the other threads that call addTask or stop
    Fds,         \* file descriptors registered for EPOLLIN, read by their callback
    WakeFd,      \* m_wakeup_fd, the eventfd the loop watches
    NoTask,      \* no callback
    MaxTasks,    \* bound: callbacks each caller adds
    MaxReady,    \* bound: times each fd of Fds becomes readable
    MaxEvents    \* g_epoll_max_events

Threads == Callers \cup {Loop}
AllFds  == Fds \cup {WakeFd}

\* A callback: <<c, i>> is the i-th one caller c adds, <<f, 0>> the read
\* callback of descriptor f.
Task == (UNION {{c} \X (1..MaxTasks[c]) : c \in Callers})
            \cup (AllFds \X {0})

ASSUME EventLoopAssumption ==
    /\ Loop \notin Callers
    /\ Callers \cap AllFds = {}
    /\ WakeFd \notin Fds
    /\ NoTask \notin Task
    /\ MaxTasks \in [Callers -> Nat]
    /\ MaxReady \in Nat
    /\ MaxEvents \in Nat \ {0}

VARIABLES
    pc,             \* where each thread is
    arg,            \* the callback each thread is adding
    mutex,          \* m_mutex is taken
    pending_tasks,  \* m_pending_tasks
    tmp_tasks,      \* tmp_tasks of the current iteration
    ready,          \* descriptors epoll reports readable (level-triggered)
    events,         \* result_events not dispatched yet
    stop_flag,      \* m_stop_flag
    executed,       \* callbacks the loop has run, oldest first
    count,          \* callbacks each caller has begun to add
    arrivals,       \* times each fd has become readable
    raced           \* two threads have been inside m_pending_tasks together

vars == <<pc, arg, mutex, pending_tasks, tmp_tasks, ready, events, stop_flag,
          executed, count, arrivals, raced>>

CallerPC == {"idle", "lock", "push", "unlock", "wakeup", "return", "stopping"}
LoopPC   == {"check", "swap_lock", "swap", "swap_unlock", "run", "poll",
             "dispatch", "lock", "push", "unlock", "return", "exited"}

TypeOK ==
    /\ pc \in [Threads -> CallerPC \cup LoopPC]
    /\ pc[Loop] \in LoopPC
    /\ \A c \in Callers : pc[c] \in CallerPC
    /\ arg \in [Threads -> Task \cup {NoTask}]
    /\ mutex \in BOOLEAN
    /\ pending_tasks \in Seq(Task)
    /\ tmp_tasks \in Seq(Task)
    /\ ready \subseteq AllFds
    /\ events \subseteq AllFds
    /\ stop_flag \in BOOLEAN
    /\ executed \in Seq(Task)
    /\ count \in [Callers -> Nat]
    /\ arrivals \in [Fds -> 0..MaxReady]
    /\ raced \in BOOLEAN

Init ==
    /\ pc = [t \in Threads |-> IF t = Loop THEN "check" ELSE "idle"]
    /\ arg = [t \in Threads |-> NoTask]
    /\ mutex = FALSE
    /\ pending_tasks = << >>
    /\ tmp_tasks = << >>
    /\ ready = {}
    /\ events = {}
    /\ stop_flag = FALSE
    /\ executed = << >>
    /\ count = [c \in Callers |-> 0]
    /\ arrivals = [f \in Fds |-> 0]
    /\ raced = FALSE

-----------------------------------------------------------------------------
(* ScopeMutex over m_mutex. *)

Inside(t) == pc[t] \in {"push", "swap"}

\* Thread t takes the mutex and is now inside m_pending_tasks.
Acquire(t) ==
    /\ ~ mutex
    /\ mutex' = TRUE
    /\ raced' = (raced \/ \E u \in Threads \ {t} : Inside(u))

\* Mutant of Release: the unlock is forgotten.
ReleaseForgotten == UNCHANGED mutex

\* Mutex::unlock: the mutex is free, whoever held it.
Release == mutex' = FALSE

Goto(t, label) == pc' = [pc EXCEPT ![t] = label]

-----------------------------------------------------------------------------
(* EventLoop::addTask, run by a caller (is_wake_up) or by the loop thread  *)
(* while it dispatches events (not is_wake_up).                            *)

AddTaskLock(t) ==
    /\ pc[t] = "lock"
    /\ Acquire(t)
    /\ Goto(t, "push")
    /\ UNCHANGED <<arg, pending_tasks, tmp_tasks, ready, events, stop_flag,
                   executed, count, arrivals>>

AddTaskPush(t) ==
    /\ pc[t] = "push"
    /\ \/ pending_tasks' = Append(pending_tasks, arg[t])
       \/ raced /\ UNCHANGED pending_tasks
    /\ Goto(t, "unlock")
    /\ UNCHANGED <<arg, mutex, tmp_tasks, ready, events, stop_flag, executed,
                   count, arrivals, raced>>

\* lock.unlock(), then wakeup() when the caller asks for it.
AddTaskUnlock(t) ==
    /\ pc[t] = "unlock"
    /\ Release
    /\ Goto(t, IF t = Loop THEN "return" ELSE "wakeup")
    /\ UNCHANGED <<arg, pending_tasks, tmp_tasks, ready, events, stop_flag,
                   executed, count, arrivals, raced>>

\* The end of addTask: ~ScopeMutex unlocks once more.
AddTaskReturn(t) ==
    /\ pc[t] = "return"
    /\ Release
    /\ Goto(t, IF t = Loop THEN "dispatch" ELSE "idle")
    /\ arg' = [arg EXCEPT ![t] = NoTask]
    /\ UNCHANGED <<pending_tasks, tmp_tasks, ready, events, stop_flag,
                   executed, count, arrivals, raced>>

\* WakeUpFdEvent::wakeup: a write makes the eventfd readable.
Wakeup(c) ==
    /\ pc[c] \in {"wakeup", "stopping"}
    /\ ready' = ready \cup {WakeFd}
    /\ Goto(c, IF pc[c] = "wakeup" THEN "return" ELSE "idle")
    /\ UNCHANGED <<arg, mutex, pending_tasks, tmp_tasks, events, stop_flag,
                   executed, count, arrivals, raced>>

\* A caller begins addTask(cb, true).
CallAddTask(c) ==
    /\ pc[c] = "idle"
    /\ count[c] < MaxTasks[c]
    /\ count' = [count EXCEPT ![c] = @ + 1]
    /\ arg' = [arg EXCEPT ![c] = <<c, count[c] + 1>>]
    /\ Goto(c, "lock")
    /\ UNCHANGED <<mutex, pending_tasks, tmp_tasks, ready, events, stop_flag,
                   executed, arrivals, raced>>

\* EventLoop::stop sets the flag without the mutex; its wakeup follows.
CallStop(c) ==
    /\ pc[c] = "idle"
    /\ ~ stop_flag
    /\ stop_flag' = TRUE
    /\ Goto(c, "stopping")
    /\ UNCHANGED <<arg, mutex, pending_tasks, tmp_tasks, ready, events,
                   executed, count, arrivals, raced>>

-----------------------------------------------------------------------------
(* EventLoop::loop. *)

\* while (!m_stop_flag)
LoopCheck ==
    /\ pc[Loop] = "check"
    /\ Goto(Loop, IF stop_flag THEN "exited" ELSE "swap_lock")
    /\ UNCHANGED <<arg, mutex, pending_tasks, tmp_tasks, ready, events,
                   stop_flag, executed, count, arrivals, raced>>

SwapLock ==
    /\ pc[Loop] = "swap_lock"
    /\ Acquire(Loop)
    /\ Goto(Loop, "swap")
    /\ UNCHANGED <<arg, pending_tasks, tmp_tasks, ready, events, stop_flag,
                   executed, count, arrivals>>

\* Mutant of Swap: the queue is copied, and keeps what is about to be run.
SwapCopies ==
    /\ pc[Loop] = "swap"
    /\ tmp_tasks' = pending_tasks
    /\ Goto(Loop, "swap_unlock")
    /\ UNCHANGED <<arg, mutex, pending_tasks, ready, events, stop_flag,
                   executed, count, arrivals, raced>>

\* m_pending_tasks.swap(tmp_tasks), tmp_tasks being new and empty.
Swap ==
    /\ pc[Loop] = "swap"
    /\ \/ tmp_tasks' = pending_tasks
       \/ raced /\ tmp_tasks' = << >>
    /\ pending_tasks' = << >>
    /\ Goto(Loop, "swap_unlock")
    /\ UNCHANGED <<arg, mutex, ready, events, stop_flag, executed, count,
                   arrivals, raced>>

SwapUnlock ==
    /\ pc[Loop] = "swap_unlock"
    /\ Release
    /\ Goto(Loop, "run")
    /\ UNCHANGED <<arg, pending_tasks, tmp_tasks, ready, events, stop_flag,
                   executed, count, arrivals, raced>>

\* One turn of while (!tmp_tasks.empty()): the read callback of a descriptor
\* reads it until it has nothing left.
RunTask ==
    /\ pc[Loop] = "run"
    /\ tmp_tasks # << >>
    /\ executed' = Append(executed, Head(tmp_tasks))
    /\ tmp_tasks' = Tail(tmp_tasks)
    /\ ready' = ready \ {Head(tmp_tasks)[1]}
    /\ UNCHANGED <<pc, arg, mutex, pending_tasks, events, stop_flag, count,
                   arrivals, raced>>

TasksDone ==
    /\ pc[Loop] = "run"
    /\ tmp_tasks = << >>
    /\ Goto(Loop, "poll")
    /\ UNCHANGED <<arg, mutex, pending_tasks, tmp_tasks, ready, events,
                   stop_flag, executed, count, arrivals, raced>>

\* epoll_wait returns at most MaxEvents of the readable descriptors.
EpollReturn ==
    /\ pc[Loop] = "poll"
    /\ ready # {}
    /\ events' \in {S \in SUBSET ready :
                      \/ S = ready /\ Cardinality(S) <= MaxEvents
                      \/ Cardinality(S) = MaxEvents}
    /\ Goto(Loop, "dispatch")
    /\ UNCHANGED <<arg, mutex, pending_tasks, tmp_tasks, ready, stop_flag,
                   executed, count, arrivals, raced>>

\* Mutant of EpollTimeout: epoll_wait waits for an event for ever.
EpollNoTimeout == FALSE

\* epoll_wait returns after g_epoll_max_timeout ms with no event.
EpollTimeout ==
    /\ pc[Loop] = "poll"
    /\ ready = {}
    /\ Goto(Loop, "dispatch")
    /\ UNCHANGED <<arg, mutex, pending_tasks, tmp_tasks, ready, events,
                   stop_flag, executed, count, arrivals, raced>>

\* Mutant of Dispatch: the callback of the descriptor is not taken.
DispatchWithoutCallback(f) ==
    /\ pc[Loop] = "dispatch"
    /\ f \in events
    /\ events' = events \ {f}
    /\ Goto(Loop, "lock")
    /\ UNCHANGED <<arg, mutex, pending_tasks, tmp_tasks, ready, stop_flag,
                   executed, count, arrivals, raced>>

\* EPOLLIN of f: addTask(fd_event->handler(IN_EVENT)).
Dispatch(f) ==
    /\ pc[Loop] = "dispatch"
    /\ f \in events
    /\ events' = events \ {f}
    /\ arg' = [arg EXCEPT ![Loop] = <<f, 0>>]
    /\ Goto(Loop, "lock")
    /\ UNCHANGED <<mutex, pending_tasks, tmp_tasks, ready, stop_flag,
                   executed, count, arrivals, raced>>

\* No event is left: the end of the iteration, where ~ScopeMutex unlocks a
\* mutex the loop let go of before the callbacks ran.
EndScope ==
    /\ pc[Loop] = "dispatch"
    /\ events = {}
    /\ Release
    /\ Goto(Loop, "check")
    /\ UNCHANGED <<arg, pending_tasks, tmp_tasks, ready, events, stop_flag,
                   executed, count, arrivals, raced>>

\* The environment: a peer sends on f.
FdReady(f) ==
    /\ f \notin ready
    /\ arrivals[f] < MaxReady
    /\ arrivals' = [arrivals EXCEPT ![f] = @ + 1]
    /\ ready' = ready \cup {f}
    /\ UNCHANGED <<pc, arg, mutex, pending_tasks, tmp_tasks, events,
                   stop_flag, executed, count, raced>>

-----------------------------------------------------------------------------

AddTaskStep(t) ==
    \/ AddTaskLock(t)
    \/ AddTaskPush(t)
    \/ AddTaskUnlock(t)
    \/ AddTaskReturn(t)

LoopStep ==
    \/ LoopCheck
    \/ SwapLock
    \/ Swap
    \/ SwapUnlock
    \/ RunTask
    \/ TasksDone
    \/ EpollReturn
    \/ EpollTimeout
    \/ \E f \in AllFds : Dispatch(f)
    \/ EndScope

Next ==
    \/ LoopStep
    \/ \E t \in Threads : AddTaskStep(t)
    \/ \E c \in Callers : Wakeup(c) \/ CallAddTask(c) \/ CallStop(c)
    \/ \E f \in Fds : FdReady(f)

\* Threads keep running and epoll_wait does return.  A thread that waits for
\* the mutex gets it if it is free again and again: the mutex is held for one
\* access of the queue and a waiter is woken by each unlock.  Nobody has to
\* call addTask or stop, and no peer has to send.
Fairness ==
    /\ WF_vars(LoopStep)
    /\ SF_vars(SwapLock)
    /\ \A t \in Threads : WF_vars(AddTaskStep(t)) /\ SF_vars(AddTaskLock(t))
    /\ \A c \in Callers : WF_vars(Wakeup(c))

Spec     == Init /\ [][Next]_vars
FairSpec == Spec /\ Fairness

-----------------------------------------------------------------------------
(* Properties. *)

\* addTask (eventloop.cc:253-263) and the task loop of loop() (126-139) are a
\* FIFO queue: no callback is lost, run twice or overtaken, as long as no two
\* threads have been inside m_pending_tasks at once.
Queue == INSTANCE TaskQueue WITH
            queue  <- tmp_tasks \o pending_tasks,
            done   <- executed,
            broken <- raced
IsFifoQueue == Queue!Spec

\* The mutex is never left taken by nobody, in spite of the unlocks that free
\* it under its holder (mutex.h:27-47): a waiter cannot be stranded.
Holding(t) == pc[t] \in {"push", "unlock", "swap", "swap_unlock"}

MutexHasHolder == mutex => \E t \in Threads : Holding(t)

\* What makes the queue's behaviour inductive: a thread that is adding holds a
\* callback, and tmp_tasks is empty except while the loop runs its callbacks,
\* so that the swap does not throw any away.
QueueInv ==
    /\ TypeOK
    /\ \A t \in Threads : pc[t] \in {"lock", "push"} => arg[t] \in Task
    /\ pc[Loop] \notin {"swap_unlock", "run"} => tmp_tasks = << >>

\* A callback handed to addTask is run, unless the loop is stopped.  After a
\* wake-up is lost only the timeout of epoll_wait brings this about.
Executed(task) == \E i \in DOMAIN executed : executed[i] = task

TaskRuns ==
    \A c \in Callers : \A i \in 1..MaxTasks[c] :
        count[c] >= i ~> Executed(<<c, i>>) \/ stop_flag \/ raced

\* stop() ends loop(), races or not.
StopEndsLoop == stop_flag ~> pc[Loop] = "exited"

\* While the loop thread sleeps in epoll_wait, a callback whose addTask has
\* asked for a wake-up and has got past it has made the eventfd readable, so
\* that epoll_wait returns at once.
WakeupNotLost ==
    (pc[Loop] = "poll" /\ ~ raced) =>
        \A i \in DOMAIN pending_tasks :
            LET c == pending_tasks[i][1] IN
            (c \in Callers /\ arg[c] # pending_tasks[i]) => WakeFd \in ready

\* m_mutex lets one thread at a time into m_pending_tasks.
MutualExclusion ==
    \A t, u \in Threads : Inside(t) /\ Inside(u) => t = u
=============================================================================
