------------------------------ MODULE TaskQueue ------------------------------
(***************************************************************************)
(* What EventLoop::addTask promises its callers, without threads, locks or *)
(* file descriptors: a FIFO queue of callbacks.  A callback that was added *)
(* is run once, in the order the callbacks were added.                     *)
(*                                                                         *)
(* The promise holds until two threads are inside the queue at the same    *)
(* time (m_pending_tasks is a std::queue); from then on nothing is         *)
(* promised: `broken' is stable and the rest of the state is arbitrary.    *)
(***************************************************************************)
EXTENDS Sequences

CONSTANT Task       \* the callbacks a thread can queue

VARIABLES queue,    \* callbacks added and not run yet, oldest first
          done,     \* callbacks run, oldest first
          broken    \* two threads have been inside the queue together

vars == <<queue, done, broken>>

Init ==
    /\ queue = << >>
    /\ done = << >>
    /\ broken = FALSE

Add(t) ==
    /\ queue' = Append(queue, t)
    /\ UNCHANGED <<done, broken>>

Run ==
    /\ queue # << >>
    /\ done' = Append(done, Head(queue))
    /\ queue' = Tail(queue)
    /\ UNCHANGED broken

Break == broken' = TRUE

Next ==
    \/ \E t \in Task : Add(t)
    \/ Run
    \/ Break

Spec == Init /\ [][Next]_vars
=============================================================================
