------------------------------ MODULE FdEvents -------------------------------
(***************************************************************************)
(* net/fd_event.cc, fd_event_group.cc and the epoll side of                *)
(* net/eventloop.cc, as operators.                                         *)
(*                                                                         *)
(* An FdEvent belongs to a number, not to a socket: FdEventGroup keeps one *)
(* for each number for ever.  A loop has m_listen_fds, what it believes to *)
(* be registered, and the kernel has the interest list of its epoll        *)
(* descriptor, from which closing a socket removes it.                     *)
(***************************************************************************)
EXTENDS Positions, Functions

CONSTANT NoCallback     \* an empty std::function

\* FdEvent: the mask of m_listen_events, and the two callbacks in use (no
\* caller passes an error callback).
NewFdEvent == [mask |-> {}, read |-> NoCallback, write |-> NoCallback]

\* Mutant of Listen: a callback that is there stays.
ListenKept(e, type, callback) ==
    IF type = "IN" THEN [e EXCEPT !.mask = @ \cup {"IN"}, !.read = callback]
    ELSE [e EXCEPT !.mask = @ \cup {"OUT"},
                   !.write = IF @ = NoCallback THEN callback ELSE @]

Listen(e, type, callback) ==
    IF type = "IN" THEN [e EXCEPT !.mask = @ \cup {"IN"}, !.read = callback]
                   ELSE [e EXCEPT !.mask = @ \cup {"OUT"}, !.write = callback]

\* cancle leaves the callback.
Cancle(e, type) == [e EXCEPT !.mask = @ \ {type}]

Handler(e, type) == IF type = "IN" THEN e.read ELSE e.write

\* FdEventGroup::getFdEvent on a group of `size` events, 128 at first: the
\* size after it.  The number is then below it, for a number of a descriptor.
GroupSize(size, fd) ==
    IF fd < size THEN size ELSE (3 * fd) \div 2

-----------------------------------------------------------------------------

\* A loop: m_listen_fds, and what epoll watches, with the mask of each.
NewLoop == [listen_fds |-> {}, epoll |-> [fd \in {} |-> {}]]

Watched(loop) == DOMAIN loop.epoll

With(epoll, fd, mask) ==
    [f \in DOMAIN epoll \cup {fd} |-> IF f = fd THEN mask ELSE epoll[f]]

\* ADD_TO_EPOLL: EPOLL_CTL_MOD for what is in m_listen_fds, EPOLL_CTL_ADD for
\* the rest.  The kernel refuses to modify what it does not watch and to add
\* what it does; the loop only logs that.
AddToEpoll(loop, fd, mask) ==
    [listen_fds |-> loop.listen_fds \cup {fd},
     epoll |-> IF fd \in loop.listen_fds <=> fd \in Watched(loop)
               THEN With(loop.epoll, fd, mask) ELSE loop.epoll]

\* DELETE_TO_EPOLL, of each of fds; of others it does nothing.
DeleteAll(loop, fds) ==
    [listen_fds |-> loop.listen_fds \ fds,
     epoll |-> Restrict(loop.epoll, Watched(loop) \ (fds \cap loop.listen_fds))]

DeleteToEpoll(loop, fd) == DeleteAll(loop, {fd})

\* The kernel, when the descriptor is closed.
CloseInEpoll(loop, fd) == [loop EXCEPT !.epoll = Restrict(@, DOMAIN @ \ {fd})]

-----------------------------------------------------------------------------

\* The orders in which epoll_wait may report what is ready.
Orders(reported) == Injection(1..Cardinality(reported), reported)

\* A loop's walk through what is reported: of each, EPOLLIN and then EPOLLOUT,
\* if they are among the pairs in ready.
Steps(order) ==
    [i \in 1..(2 * Len(order)) |->
        <<order[(i + 1) \div 2], IF i % 2 = 1 THEN "IN" ELSE "OUT">>]

Walk(order, ready) ==
    Picked(Steps(order), {i \in DOMAIN Steps(order) : Steps(order)[i] \in ready})
=============================================================================
