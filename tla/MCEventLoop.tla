---------------------------- MODULE MCEventLoop -----------------------------
(* Small instances of EventLoop: two calling threads and one descriptor.   *)
EXTENDS EventLoop

CONSTANTS c1, c2

\* Each adds one callback, so that both can meet at the mutex, with each other
\* and with the loop, before and after their second unlock.
MCCallers == {c1, c2}
MCOneTask == [c \in MCCallers |-> 1]
=============================================================================
