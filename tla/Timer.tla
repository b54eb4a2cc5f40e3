-------------------------------- MODULE Timer --------------------------------
(***************************************************************************)
(* net/timer.{h,cc} and net/timer_event.{h,cc}: the timer of one event     *)
(* loop.  A timerfd is armed for the earliest event; when it expires the   *)
(* loop queues Timer::onTimer, which takes the events that are due, puts   *)
(* the repeated ones back, arms the timerfd again and runs the callbacks.  *)
(* All of it runs in the thread of the loop; time passes between any two   *)
(* steps.                                                                  *)
(*                                                                         *)
(* Events are ordered by the wall clock (getNowMs), the timerfd counts on  *)
(* CLOCK_MONOTONIC.  Times are kept relative to now: remain[e] is          *)
(* e.m_arrive_time - getNowMs(), and arm is what the timerfd has left, so  *)
(* that time needs no bound.  An event that is one tick late or more has   *)
(* remain[e] = -1.                                                         *)
(***************************************************************************)
EXTENDS Integers, FiniteSets

CONSTANTS
    Events,     \* the TimerEvent objects
    Intervals,  \* bound: the intervals events are created with
    Retry,      \* the interval resetArriveTime takes when an event is due
    Horizon,    \* bound: remain[e] never exceeds it
    MaxSteps    \* bound: times the wall clock is set

ASSUME TimerAssumption ==
    /\ Horizon \in Nat
    /\ Intervals \subseteq 0..Horizon
    /\ Retry \in Nat \ {0}
    /\ MaxSteps \in Nat

VARIABLES
    at,         \* where onTimer is; "idle" outside of it
    pending,    \* m_pending_events
    remain,     \* m_arrive_time of each event, relative to now
    interval,   \* m_interval
    repeated,   \* m_is_repeated
    cancelled,  \* m_is_cancled
    tmps,       \* tmps of onTimer: events taken, not put back yet
    tasks,      \* tasks of onTimer: <<arrive time, event>> not run yet
    arm,        \* time left on the timerfd, 0 when it is disarmed
    expired,    \* the timerfd is readable
    queued,     \* onTimer is in the queue of the loop
    steps       \* times the wall clock has been set

event_vars == <<interval, repeated, cancelled>>
fd_vars    == <<arm, expired>>
timerVars ==
    <<at, pending, remain, event_vars, tmps, tasks, fd_vars, queued, steps>>

Remain == (-1)..Horizon

TimerTypeOK ==
    /\ at \in {"idle", "collect", "readd", "rearm", "run"}
    /\ pending \subseteq Events
    /\ remain \in [Events -> Remain]
    /\ interval \in [Events -> Intervals \cup {0}]
    /\ repeated \in [Events -> BOOLEAN]
    /\ cancelled \in [Events -> BOOLEAN]
    /\ tmps \subseteq Events
    /\ tasks \subseteq Remain \X Events
    /\ arm \in Nat
    /\ expired \in BOOLEAN
    /\ queued \in BOOLEAN
    /\ steps \in 0..MaxSteps

TimerInit ==
    /\ at = "idle"
    /\ pending = {}
    /\ remain = [e \in Events |-> 0]
    /\ interval = [e \in Events |-> 0]
    /\ repeated = [e \in Events |-> FALSE]
    /\ cancelled = [e \in Events |-> FALSE]
    /\ tmps = {}
    /\ tasks = {}
    /\ arm = 0
    /\ expired = FALSE
    /\ queued = FALSE
    /\ steps = 0

-----------------------------------------------------------------------------
(* Timer::resetArriveTime and Timer::addTimerEvent. *)

\* The earliest arrive time of the events in P.
Earliest(P, rem) ==
    CHOOSE t \in {rem[e] : e \in P} : \A e \in P : t <= rem[e]

\* Mutant of ResetArriveTime: the interval is handed to the timerfd without
\* a look at its sign.
ResetWithoutCheck(P, rem) ==
    IF P = {} THEN UNCHANGED fd_vars
              ELSE /\ arm' = Earliest(P, rem)
                   /\ expired' = FALSE

\* Mutant of ResetArriveTime: an event that is already due arms the timerfd
\* for no time at all, which disarms it.
ResetWithoutRetry(P, rem) ==
    IF P = {} THEN UNCHANGED fd_vars
              ELSE /\ arm' = IF Earliest(P, rem) > 0 THEN Earliest(P, rem) ELSE 0
                   /\ expired' = FALSE

\* timerfd_settime for the earliest event of P; it also forgets an expiry
\* that was not read.
ResetArriveTime(P, rem) ==
    IF P = {} THEN UNCHANGED fd_vars
              ELSE /\ arm' = IF Earliest(P, rem) > 0 THEN Earliest(P, rem) ELSE Retry
                   /\ expired' = FALSE

\* Mutant of AddEvent: the comparison with the first event is the wrong way
\* round.
AddEventLater(e, rem) ==
    /\ pending' = pending \cup {e}
    /\ remain' = rem
    /\ IF \A p \in pending : rem[p] < rem[e]
       THEN ResetArriveTime(pending', rem)
       ELSE UNCHANGED fd_vars

\* The timerfd is armed again when no other event is pending or e is earlier
\* than all of them.
AddEvent(e, rem) ==
    /\ pending' = pending \cup {e}
    /\ remain' = rem
    /\ IF \A p \in pending : rem[p] > rem[e]
       THEN ResetArriveTime(pending', rem)
       ELSE UNCHANGED fd_vars

-----------------------------------------------------------------------------
(* Calls: from another callback of the loop, or from a timer's callback.   *)

CanCall == at \in {"idle", "run"}

Collected == {t[2] : t \in tasks}

\* A new TimerEvent(i, r, cb) is created and added.
Add(e, i, r) ==
    /\ CanCall
    /\ e \notin pending \cup Collected
    /\ interval' = [interval EXCEPT ![e] = i]
    /\ repeated' = [repeated EXCEPT ![e] = r]
    /\ cancelled' = [cancelled EXCEPT ![e] = FALSE]
    /\ AddEvent(e, [remain EXCEPT ![e] = i])
    /\ UNCHANGED <<at, tmps, tasks, queued, steps>>

\* Mutant of Delete: the event is marked and stays in the map.
DeleteMarks(e) ==
    /\ CanCall
    /\ e \in pending \cup Collected
    /\ cancelled' = [cancelled EXCEPT ![e] = TRUE]
    /\ UNCHANGED <<at, pending, remain, interval, repeated, tmps, tasks,
                   fd_vars, queued, steps>>

\* deleteTimerEvent leaves the timerfd armed for the event it takes out.
Delete(e) ==
    /\ CanCall
    /\ e \in pending \cup Collected
    /\ cancelled' = [cancelled EXCEPT ![e] = TRUE]
    /\ pending' = pending \ {e}
    /\ UNCHANGED <<at, remain, interval, repeated, tmps, tasks, fd_vars,
                   queued, steps>>

-----------------------------------------------------------------------------
(* Timer::onTimer. *)

\* The loop polls between callbacks and queues onTimer if the fd is readable.
QueueOnTimer ==
    /\ at = "idle"
    /\ expired
    /\ ~ queued
    /\ queued' = TRUE
    /\ UNCHANGED <<at, pending, remain, event_vars, tmps, tasks, fd_vars,
                   steps>>

\* The loop runs onTimer, which empties the timerfd first.
Drain ==
    /\ at = "idle"
    /\ queued
    /\ queued' = FALSE
    /\ expired' = FALSE
    /\ at' = "collect"
    /\ UNCHANGED <<pending, remain, event_vars, tmps, tasks, arm, steps>>

\* now = getNowMs(), the events due are taken, and erased from the map.
Collect ==
    /\ at = "collect"
    /\ LET due  == {e \in pending : remain[e] <= 0}
           live == {e \in due : ~ cancelled[e]}
       IN  /\ tmps' = live
           /\ tasks' = {<<remain[e], e>> : e \in live}
           /\ pending' = pending \ due
    /\ at' = "readd"
    /\ UNCHANGED <<remain, event_vars, fd_vars, queued, steps>>

\* Mutant of Readd: every event is put back, repeated or not.
ReaddAll(e) ==
    /\ at = "readd"
    /\ e \in tmps
    /\ tmps' = tmps \ {e}
    /\ AddEvent(e, [remain EXCEPT ![e] = interval[e]])
    /\ UNCHANGED <<at, event_vars, tasks, queued, steps>>

\* One turn of the loop that puts the repeated events back.
Readd(e) ==
    /\ at = "readd"
    /\ e \in tmps
    /\ tmps' = tmps \ {e}
    /\ IF repeated[e]
       THEN AddEvent(e, [remain EXCEPT ![e] = interval[e]])
       ELSE UNCHANGED <<pending, remain, fd_vars>>
    /\ UNCHANGED <<at, event_vars, tasks, queued, steps>>

\* Mutant of Rearm: onTimer leaves the arming to addTimerEvent.
RearmForgotten ==
    /\ at = "readd"
    /\ tmps = {}
    /\ at' = "run"
    /\ UNCHANGED <<pending, remain, event_vars, tmps, tasks, fd_vars, queued,
                   steps>>

Rearm ==
    /\ at = "readd"
    /\ tmps = {}
    /\ ResetArriveTime(pending, remain)
    /\ at' = "run"
    /\ UNCHANGED <<pending, remain, event_vars, tmps, tasks, queued, steps>>

\* The callbacks run in the order of their arrive times.
RunCallback(t) ==
    /\ at = "run"
    /\ t \in tasks
    /\ \A u \in tasks : t[1] <= u[1]
    /\ tasks' = tasks \ {t}
    /\ UNCHANGED <<at, pending, remain, event_vars, tmps, fd_vars, queued,
                   steps>>

OnTimerDone ==
    /\ at = "run"
    /\ tasks = {}
    /\ at' = "idle"
    /\ UNCHANGED <<pending, remain, event_vars, tmps, tasks, fd_vars, queued,
                   steps>>

-----------------------------------------------------------------------------
(* Time. *)

Later(r) == IF r > -1 THEN r - 1 ELSE -1

\* A millisecond passes on both clocks.
Tick ==
    /\ remain' = [e \in Events |-> Later(remain[e])]
    /\ arm' = IF arm > 0 THEN arm - 1 ELSE 0
    /\ expired' = (expired \/ arm = 1)
    /\ UNCHANGED <<at, pending, event_vars, tmps, tasks, queued, steps>>

\* The wall clock is set forward by one.
SetForward ==
    /\ steps < MaxSteps
    /\ steps' = steps + 1
    /\ remain' = [e \in Events |-> Later(remain[e])]
    /\ UNCHANGED <<at, pending, event_vars, tmps, tasks, fd_vars, queued>>

\* The wall clock is set back by one; bound: not past the horizon, and not
\* when it is no longer known how late an event is.
SetBack ==
    /\ steps < MaxSteps
    /\ \A e \in pending \cup tmps : remain[e] \in 0..(Horizon - 1)
    /\ steps' = steps + 1
    /\ remain' = [e \in Events |-> IF e \in pending \cup tmps THEN remain[e] + 1
                                                              ELSE remain[e]]
    /\ UNCHANGED <<at, pending, event_vars, tmps, tasks, fd_vars, queued>>

-----------------------------------------------------------------------------

OnTimerStep ==
    \/ Drain
    \/ Collect
    \/ \E e \in Events : Readd(e)
    \/ Rearm
    \/ \E t \in tasks : RunCallback(t)
    \/ OnTimerDone

TimerNext ==
    \/ \E e \in Events, i \in Intervals, r \in BOOLEAN : Add(e, i, r)
    \/ \E e \in Events : Delete(e)
    \/ QueueOnTimer
    \/ OnTimerStep
    \/ Tick
    \/ SetForward
    \/ SetBack

\* Time passes, the loop polls, and onTimer goes on.  No call has to be made.
TimerFairness ==
    /\ WF_timerVars(Tick)
    /\ WF_timerVars(QueueOnTimer)
    /\ WF_timerVars(OnTimerStep)

TimerSpec     == TimerInit /\ [][TimerNext]_timerVars
TimerFairSpec == TimerSpec /\ TimerFairness

-----------------------------------------------------------------------------
(* Properties. *)

\* The timer does not go dead: while an event is pending the timerfd is armed
\* or has expired, or onTimer is on its way to arm it (timer.cc:31-159) -
\* also when the wall clock is set between any two steps.
TimerArmed ==
    pending # {} =>
        arm > 0 \/ expired \/ queued \/ at \in {"collect", "readd"}

\* While the wall clock is not set, the timerfd is armed for the first event
\* or earlier, or for the retry interval: an event that becomes due waits for
\* onTimer no longer than that, whatever was added or deleted meanwhile.
LatenessBounded ==
    (pending # {} /\ steps = 0 /\ at \in {"idle", "run"} /\ ~ expired /\ ~ queued)
        => arm <= Earliest(pending, remain) \/ arm <= Retry

\* Events are held by onTimer only while it runs: what the next invariants
\* need to be inductive.
RoundInv ==
    /\ at # "readd" => tmps = {}
    /\ at \notin {"readd", "run"} => tasks = {}

\* A deleted event is not pending, and does not come back when it is repeated
\* and due (timer.cc:57, 73-81, 161-186).
CancelledNotPending ==
    \A e \in Events : cancelled[e] => e \notin pending \cup tmps

\* An event that is not repeated is taken for good: it is not waiting for
\* another run while its callback is (timer.cc:69, 75).
OneShotTakenOnce ==
    \A e \in Events : ~ repeated[e] => ~ (e \in pending /\ e \in Collected)

\* An event that was added is taken to be run, or it is deleted.
EventFires ==
    \A e \in Events : e \in pending ~> e \in Collected \/ cancelled[e]
=============================================================================
