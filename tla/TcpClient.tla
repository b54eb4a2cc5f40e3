------------------------------ MODULE TcpClient ------------------------------
(***************************************************************************)
(* TcpClient (net/tcp/tcp_client.cc) and its connection, as RpcChannel     *)
(* uses them: connect, then in or after its done callback writeMessage, in *)
(* whose done callback readMessage; at any time the channel may be gone,   *)
(* and the client with it.  Clients come and go on the loops of several    *)
(* threads, and the numbers of their descriptors come again.               *)
(*                                                                         *)
(* A loop runs its tasks, then waits in epoll and queues the callbacks of  *)
(* what is ready.                                                          *)
(***************************************************************************)
EXTENDS FdEvents

CONSTANTS
    Client,
    Loop,
    LoopOf(_),  \* the loop of the thread that makes the client
    Large,      \* bound: the clients whose requests a socket may not hold at once
    Fd,         \* bound: the descriptor numbers
    NoFd

ASSUME ClientAssumption ==
    /\ Fd \subseteq Nat /\ IsFiniteSet(Fd) /\ NoFd \notin Fd
    /\ NoCallback \notin [client : Client, run : {"connect", "onWrite", "onRead"}]
    /\ Large \subseteq Client
    /\ \A c \in Client : LoopOf(c) \in Loop

VARIABLES
    stage,      \* how far each client is
    fdOf,       \* its m_fd
    eventOf,    \* the number of its m_fd_event
    sockets,    \* the kernel's sockets, by number
    events,     \* the FdEvents, by number
    loops,      \* the loops, with their epoll
    looping,    \* the loops that run
    tasks,      \* the callbacks a loop has queued
    dones,      \* how often connect's done callback has run
    leftBehind, \* numbers closed on a loop while in its m_listen_fds
    stale       \* numbers whose FdEvent listened to EPOLLIN when they were closed

clientVars == <<stage, fdOf, eventOf, sockets, events, loops, looping, tasks, dones,
                leftBehind, stale>>

\* "noSocket": the client is there, and its m_fd is -1.
Stage == {"none", "noSocket", "made", "connecting", "connected", "failed", "writing",
          "reading", "answered", "closed", "destroyed"}

\* "fresh" before connect; "answer" once the server's answer is there, "eof"
\* once it has closed.
Socket == {"none", "fresh", "connecting", "refused", "up", "answer", "eof"}

Callback == [client : Client, run : {"connect", "onWrite", "onRead"}]

ClientTypeOK ==
    /\ stage \in [Client -> Stage]
    /\ fdOf \in [Client -> Fd \cup {NoFd}]
    /\ eventOf \in [Client -> Fd \cup {NoFd}]
    /\ sockets \in [Fd -> Socket]
    /\ events \in [Fd -> [mask : SUBSET {"IN", "OUT"}, read : Callback \cup {NoCallback},
                          write : Callback \cup {NoCallback}]]
    /\ \A l \in Loop : /\ loops[l].listen_fds \subseteq Fd
                       /\ Watched(loops[l]) \subseteq Fd
    /\ looping \subseteq Loop
    /\ tasks \in [Loop -> Seq(Callback)]
    /\ dones \in [Client -> Nat]
    /\ leftBehind \in [Loop -> SUBSET Fd]
    /\ stale \subseteq Fd

ClientInit ==
    /\ stage = [c \in Client |-> "none"]
    /\ fdOf = [c \in Client |-> NoFd]
    /\ eventOf = [c \in Client |-> NoFd]
    /\ sockets = [fd \in Fd |-> "none"]
    /\ events = [fd \in Fd |-> NewFdEvent]
    /\ loops = [l \in Loop |-> NewLoop]
    /\ looping = {}
    /\ tasks = [l \in Loop |-> << >>]
    /\ dones = [c \in Client |-> 0]
    /\ leftBehind = [l \in Loop |-> {}]
    /\ stale = {}

-----------------------------------------------------------------------------

\* The kernel gives out the lowest number that is free.
Lowest(free) == CHOOSE fd \in free : \A other \in free : fd <= other
Free(socks) == {fd \in Fd : socks[fd] = "none"}

Holds(c) == stage[c] \notin {"none", "noSocket", "destroyed"}
Callbk(c, run) == [client |-> c, run |-> run]

\* Mutant of ListenOn: the loop is told first.
ListenOnLate(c, type, callback) ==
    LET fd == eventOf[c]
    IN  /\ events' = [events EXCEPT ![fd] = Listen(@, type, callback)]
        /\ loops' = [loops EXCEPT ![LoopOf(c)] = AddToEpoll(@, fd, events[fd].mask)]

\* The FdEvent of c listens and its loop is told: FdEvent::listen, addEpollEvent.
\* c runs on the thread of its loop.
ListenOn(c, type, callback) ==
    LET fd == eventOf[c]
        e  == Listen(events[fd], type, callback)
    IN  /\ events' = [events EXCEPT ![fd] = e]
        /\ loops' = [loops EXCEPT ![LoopOf(c)] = AddToEpoll(@, fd, e.mask)]

\* TcpClient::TcpClient
Make(c) ==
    /\ stage[c] = "none"
    /\ Free(sockets) # {}
    /\ LET fd == Lowest(Free(sockets))
       IN  /\ sockets' = [sockets EXCEPT ![fd] = "fresh"]
           /\ fdOf' = [fdOf EXCEPT ![c] = fd]
           /\ eventOf' = [eventOf EXCEPT ![c] = fd]
    /\ stage' = [stage EXCEPT ![c] = "made"]
    /\ UNCHANGED <<events, loops, looping, tasks, dones, leftBehind, stale>>

\* TcpClient::TcpClient when socket() fails: no FdEvent and no connection.
MakeFails(c) ==
    /\ stage[c] = "none"
    /\ stage' = [stage EXCEPT ![c] = "noSocket"]
    /\ UNCHANGED <<fdOf, eventOf, sockets, events, loops, looping, tasks, dones, leftBehind,
                   stale>>

\* Then ::connect fails too, on the number -1, and done runs.
ConnectWithoutSocket(c) ==
    /\ stage[c] = "noSocket" /\ dones[c] = 0
    /\ dones' = [dones EXCEPT ![c] = 1]
    /\ UNCHANGED <<stage, fdOf, eventOf, sockets, events, loops, looping, tasks, leftBehind,
                   stale>>

\* connect when ::connect returns 0: done runs at once.  Nobody starts the loop.
ConnectAtOnce(c) ==
    /\ stage[c] = "made"
    /\ sockets' = [sockets EXCEPT ![fdOf[c]] = "up"]
    /\ stage' = [stage EXCEPT ![c] = "connected"]
    /\ dones' = [dones EXCEPT ![c] = @ + 1]
    /\ UNCHANGED <<fdOf, eventOf, events, loops, looping, tasks, leftBehind, stale>>

\* connect when ::connect fails at once.
ConnectFailsAtOnce(c) ==
    /\ stage[c] = "made"
    /\ stage' = [stage EXCEPT ![c] = "failed"]
    /\ dones' = [dones EXCEPT ![c] = @ + 1]
    /\ UNCHANGED <<fdOf, eventOf, sockets, events, loops, looping, tasks, leftBehind, stale>>

\* connect when it is in progress: EPOLLOUT will tell, on a loop that is
\* started if it does not run.
ConnectInProgress(c) ==
    /\ stage[c] = "made"
    /\ sockets' = [sockets EXCEPT ![fdOf[c]] = "connecting"]
    /\ ListenOn(c, "OUT", Callbk(c, "connect"))
    /\ looping' = looping \cup {LoopOf(c)}
    /\ stage' = [stage EXCEPT ![c] = "connecting"]
    /\ UNCHANGED <<fdOf, eventOf, tasks, dones, leftBehind, stale>>

\* Mutant of ConnectCallback: EPOLLOUT stays registered.
ConnectCallbackStays(c) ==
    /\ IF sockets[fdOf[c]] # "refused"
       THEN /\ stage' = [stage EXCEPT ![c] = "connected"]
            /\ UNCHANGED <<sockets, fdOf, loops>>
       ELSE /\ stage' = [stage EXCEPT ![c] = "failed"]
            /\ loops' = [l \in Loop |-> CloseInEpoll(loops[l], fdOf[c])]
            /\ UNCHANGED <<sockets, fdOf>>
    /\ dones' = [dones EXCEPT ![c] = @ + 1]
    /\ UNCHANGED <<eventOf, events, looping, leftBehind, stale>>

\* The callback of connect: the second ::connect tells how the first one went.
\* After a failure the socket is closed and another one made, which takes the
\* lowest number; m_fd_event stays the one of the old number.  Then the event
\* is deleted, its mask is not, and done runs.
ConnectCallback(c) ==
    LET old  == fdOf[c]
        free == Free([sockets EXCEPT ![old] = "none"])
        own  == LoopOf(c)
    IN  /\ IF sockets[old] # "refused"
           THEN /\ stage' = [stage EXCEPT ![c] = "connected"]
                /\ loops' = [loops EXCEPT ![own] = DeleteToEpoll(@, eventOf[c])]
                /\ UNCHANGED <<sockets, fdOf>>
           ELSE /\ stage' = [stage EXCEPT ![c] = "failed"]
                /\ sockets' = [sockets EXCEPT ![old] = "none", ![Lowest(free)] = "fresh"]
                /\ fdOf' = [fdOf EXCEPT ![c] = Lowest(free)]
                /\ loops' = [l \in Loop |->
                               LET closed == CloseInEpoll(loops[l], old)
                               IN  IF l = own THEN DeleteToEpoll(closed, eventOf[c]) ELSE closed]
        /\ dones' = [dones EXCEPT ![c] = @ + 1]
        /\ UNCHANGED <<eventOf, events, looping, leftBehind, stale>>

\* writeMessage, in connect's done or later.
WriteMessage(c) ==
    /\ stage[c] = "connected"
    /\ ListenOn(c, "OUT", Callbk(c, "onWrite"))
    /\ stage' = [stage EXCEPT ![c] = "writing"]
    /\ UNCHANGED <<fdOf, eventOf, sockets, looping, tasks, dones, leftBehind, stale>>

\* onWrite: all is written and EPOLLOUT is cancelled, or at EAGAIN a rest stays
\* and so does EPOLLOUT.  In both cases the dones run, and the one of the
\* request calls readMessage.
OnWrite(c) ==
    LET fd       == eventOf[c]
        off      == Cancle(events[fd], "OUT")
        heard(e) == Listen(e, "IN", Callbk(c, "onRead"))
        tell(e)  == /\ events' = [events EXCEPT ![fd] = e]
                    /\ loops' = [loops EXCEPT ![LoopOf(c)] = AddToEpoll(@, fd, e.mask)]
    IN  /\ CASE stage[c] = "writing" ->
                  /\ tell(heard(off)) \/ (c \in Large /\ tell(heard(events[fd])))
                  /\ stage' = [stage EXCEPT ![c] = "reading"]
             [] stage[c] \in {"reading", "answered"} ->
                  /\ tell(off) \/ UNCHANGED <<events, loops>>
                  /\ UNCHANGED stage
             [] OTHER -> UNCHANGED <<events, loops, stage>>
        /\ UNCHANGED <<fdOf, eventOf, sockets, looping, dones, leftBehind, stale>>

\* onRead: the answer is decoded, and its callback found and erased; or the
\* stream has ended, and clear takes the number out of epoll.
OnRead(c) ==
    /\ IF sockets[fdOf[c]] = "answer"
       THEN /\ stage' = [stage EXCEPT ![c] = IF @ = "reading" THEN "answered" ELSE @]
            /\ sockets' = [sockets EXCEPT ![fdOf[c]] = "up"]
            /\ UNCHANGED <<events, loops>>
       ELSE IF sockets[fdOf[c]] = "eof" /\ stage[c] # "closed"
       THEN /\ stage' = [stage EXCEPT ![c] = "closed"]
            /\ events' = [events EXCEPT ![eventOf[c]].mask = {}]
            /\ loops' = [loops EXCEPT ![LoopOf(c)] = DeleteToEpoll(@, eventOf[c])]
            /\ UNCHANGED sockets
       ELSE UNCHANGED <<stage, sockets, events, loops>>
    /\ UNCHANGED <<fdOf, eventOf, looping, dones, leftBehind, stale>>

\* ~TcpClient, between two callbacks: the descriptor is closed, and neither
\* m_listen_fds nor the FdEvent is told.
Destroy(c) ==
    /\ Holds(c)
    /\ LET fd == fdOf[c]
       IN  /\ sockets' = [sockets EXCEPT ![fd] = "none"]
           /\ loops' = [l \in Loop |-> CloseInEpoll(loops[l], fd)]
           /\ leftBehind' = [l \in Loop |->
                leftBehind[l] \cup ({fd} \cap loops[l].listen_fds)]
           /\ stale' = stale \cup (IF "IN" \in events[fd].mask THEN {fd} ELSE {})
    /\ stage' = [stage EXCEPT ![c] = "destroyed"]
    /\ UNCHANGED <<fdOf, eventOf, events, looping, tasks, dones>>

\* ~TcpClient of a client without a socket closes nothing.
DestroyEmpty(c) ==
    /\ stage[c] = "noSocket"
    /\ stage' = [stage EXCEPT ![c] = "destroyed"]
    /\ UNCHANGED <<fdOf, eventOf, sockets, events, loops, looping, tasks, dones, leftBehind,
                   stale>>

-----------------------------------------------------------------------------
(* The loop. *)

Ready(fd) ==
    (IF sockets[fd] \in {"refused", "answer", "eof"} THEN {"IN"} ELSE {})
    \cup (IF sockets[fd] \in {"refused", "up", "answer", "eof"} THEN {"OUT"} ELSE {})

Reported(l) ==
    {fd \in Watched(loops[l]) : sockets[fd] = "refused" \/ loops[l].epoll[fd] \cap Ready(fd) # {}}

\* The callbacks to queue: number and event.
ReadyEvents(l) ==
    {e \in Reported(l) \X {"IN", "OUT"} : e[2] \in loops[l].epoll[e[1]] \cap Ready(e[1])}

\* epoll_wait reports all that is ready, in some order, and the callbacks are
\* queued.  What comes with EPOLLERR is deleted from epoll besides.
Dispatch(l) ==
    /\ l \in looping /\ tasks[l] = << >>
    /\ Reported(l) # {}
    /\ \E order \in Orders(Reported(l)) :
         LET ready == Walk(order, ReadyEvents(l))
         IN  tasks' = [tasks EXCEPT ![l] =
                         [i \in DOMAIN ready |-> Handler(events[ready[i][1]], ready[i][2])]]
    /\ loops' = [loops EXCEPT ![l] =
                   DeleteAll(@, {fd \in Reported(l) : sockets[fd] = "refused"})]
    /\ UNCHANGED <<stage, fdOf, eventOf, sockets, events, looping, dones, leftBehind, stale>>

\* The loop runs the oldest task.  One whose client has been destroyed runs on
\* freed memory; here it does nothing.
RunTask(l) ==
    /\ l \in looping /\ tasks[l] # << >>
    /\ tasks' = [tasks EXCEPT ![l] = Tail(@)]
    /\ LET t == Head(tasks[l])
       IN  CASE ~ Holds(t.client) ->
                  UNCHANGED <<stage, fdOf, eventOf, sockets, events, loops, looping, dones,
                              leftBehind, stale>>
             [] Holds(t.client) /\ t.run = "connect" -> ConnectCallback(t.client)
             [] Holds(t.client) /\ t.run = "onWrite" -> OnWrite(t.client)
             [] Holds(t.client) /\ t.run = "onRead"  -> OnRead(t.client)

\* The network and the server.
Peer(fd) ==
    /\ \/ sockets[fd] = "connecting" /\ sockets' = [sockets EXCEPT ![fd] = "up"]
       \/ sockets[fd] = "connecting" /\ sockets' = [sockets EXCEPT ![fd] = "refused"]
       \/ /\ sockets[fd] = "up" /\ \E c \in Client : fdOf[c] = fd /\ stage[c] = "reading"
          /\ sockets' = [sockets EXCEPT ![fd] = "answer"]
       \/ sockets[fd] = "up" /\ sockets' = [sockets EXCEPT ![fd] = "eof"]
    /\ UNCHANGED <<stage, fdOf, eventOf, events, loops, looping, tasks, dones, leftBehind, stale>>

Connect(c) == ConnectAtOnce(c) \/ ConnectFailsAtOnce(c) \/ ConnectInProgress(c)

ClientNext ==
    \/ \E c \in Client : Make(c) \/ Connect(c) \/ WriteMessage(c) \/ Destroy(c)
    \/ \E c \in Client : MakeFails(c) \/ ConnectWithoutSocket(c) \/ DestroyEmpty(c)
    \/ \E l \in Loop : Dispatch(l) \/ RunTask(l)
    \/ \E fd \in Fd : Peer(fd)

ClientSpec == ClientInit /\ [][ClientNext]_clientVars

\* A loop comes to what epoll reports and to its tasks; a connection attempt
\* ends (TCP gives up in the end).
ClientFairSpec ==
    /\ ClientSpec
    /\ \A l \in Loop : WF_clientVars(Dispatch(l) \/ RunTask(l))
    /\ \A fd \in Fd : WF_clientVars(sockets[fd] = "connecting" /\ Peer(fd))

-----------------------------------------------------------------------------
(* What must hold. *)

\* What a client waits for, by its stage.
Waits(c) ==
    IF stage[c] \in {"connecting", "writing"} THEN "OUT"
    ELSE IF stage[c] \in {"reading", "answered"} THEN "IN" ELSE "nothing"

\* m_listen_fds has every number epoll watches.  A client that waits for an
\* event is registered for it with its loop, unless its number was closed on
\* that loop without a word to m_listen_fds: then EPOLL_CTL_MOD is refused, and
\* the client is deaf until its call times out.
ListenersRegistered ==
    /\ \A l \in Loop : Watched(loops[l]) \subseteq loops[l].listen_fds
    /\ \A c \in Client :
         LET l == LoopOf(c)
             fd == eventOf[c]
         IN  \/ Waits(c) = "nothing" \/ fd \in leftBehind[l]
             \/ fd \in Watched(loops[l]) /\ Waits(c) \in loops[l].epoll[fd]
             \/ sockets[fd] = "refused" /\ \E i \in DOMAIN tasks[l] : tasks[l][i].client = c

\* What epoll would call for a number belongs to the client that holds the
\* number, although its FdEvent has been used by others, unless one of them was
\* destroyed while it listened to EPOLLIN: the mask and the callback of onRead,
\* on freed memory, stay in the FdEvent.  And done runs once: its callback is
\* gone from the FdEvent before EPOLLOUT is registered again.
CallbacksOwn ==
    /\ \A l \in Loop : \A fd \in Watched(loops[l]) : \A type \in loops[l].epoll[fd] :
         LET owner == Handler(events[fd], type).client
         IN  \/ Holds(owner) /\ eventOf[owner] = fd
             \/ fd \in stale /\ type = "IN"
    /\ \A c \in Client : dones[c] <= 1

\* A connection attempt ends with the done callback, for a client whose number
\* was not left behind.
ConnectDone ==
    \A c \in Client :
      (stage[c] = "connecting" /\ eventOf[c] \notin leftBehind[LoopOf(c)])
        ~> (stage[c] # "connecting")
=============================================================================
