------------------------------ MODULE TcpServer ------------------------------
(***************************************************************************)
(* TcpServer (net/tcp/tcp_server.cc) from main to the clients' end: the    *)
(* start-up with its IO threads (net/io_thread.cc, io_thread_group.cc),    *)
(* onAccept, which hands a connection to one of them, the connection's     *)
(* callbacks there, and ClearClientTimerFunc, which frees what is closed.  *)
(*                                                                         *)
(* The main thread and each IO thread step on their own.  They share the   *)
(* queues of the loops and, without a lock, m_state of each connection.    *)
(***************************************************************************)
EXTENDS FdEvents

CONSTANTS
    Threads,    \* io_threads of a configuration that is in order
    FirstFd,    \* the number the first client's descriptor gets
    FirstSize,  \* FdEvents made at first: 128
    MaxClients, \* the clients whose descriptors the process may have open
    MaxActive   \* bound: of them, those that send or leave: the first ones

ASSUME ServerAssumption ==
    /\ Threads \in Nat \ {0} /\ MaxClients \in Nat /\ MaxActive \in 0..MaxClients
    /\ FirstFd \in Nat \ {0, 1} /\ FirstSize \in Nat

IO == 1..Threads

VARIABLES
    main,       \* where the main thread is
    size,       \* m_size of the IOThreadGroup
    io,         \* where each IO thread is
    initSem,    \* m_init_semaphore of each
    startSem,   \* m_start_semaphore of each
    index,      \* m_index of the group
    conns,      \* the connections in the order they are accepted
    peer,       \* what each client has done
    group,      \* how many FdEvents there are
    events,     \* the FdEvent of each connection's number
    loops,      \* the IO threads' loops
    pending,    \* their m_pending_tasks
    batch,      \* the tasks a loop has swapped out
    clearing    \* the connection whose clear() an IO thread has yet to end

shared == <<conns, peer, group, events, loops, pending, batch, clearing>>
startUp == <<size, io, initSem, startSem, index>>
vars == <<main, size, io, initSem, startSem, index, conns, peer, group, events, loops,
          pending, batch, clearing>>

None == 0

-----------------------------------------------------------------------------
(* The configuration. *)

Nodes == {"root", "log", "server", "log_level", "log_file_name", "log_file_path",
          "log_max_file_size", "log_sync_interval", "port", "io_threads"}
StubNodes == {"name", "timeout", "ip", "port"}

\* An xml file: whether it can be loaded, its nodes, those of each rpc_server,
\* and the number in io_threads, 0 for a text that is none.
File == [loads      : BOOLEAN,
         nodes      : {Nodes} \cup {Nodes \ {n} : n \in Nodes},
         stubs      : {{}, {StubNodes}} \cup {{StubNodes \ {n}} : n \in StubNodes},
         io_threads : {0, Threads}]

\* Config::Config: a node that is missing ends the program, apart from those
\* of a stub, which are dereferenced.
Config(file) ==
    IF ~ file.loads \/ Nodes \ file.nodes # {} THEN "exited"
    ELSE IF \E stub \in file.stubs : StubNodes \ stub # {} THEN "crashed"
    ELSE "accepting thread"

-----------------------------------------------------------------------------

Stage == {"begin", "accepting thread", "threads", "wait", "start", "loop", "onAccept",
          "exited", "crashed"}

Clients == DOMAIN conns
Fd(c) == FirstFd + c - 1
Callbk(c, run) == [conn |-> c, run |-> run]

Task == [conn : 1..MaxClients, run : {"add", "onRead", "onWrite"}]

TypeOK ==
    /\ main \in Stage
    /\ size \in {0, Threads}
    /\ io \in [IO -> {"none", "created", "made", "looping", "stuck"}]
    /\ initSem \in [IO -> 0..1] /\ startSem \in [IO -> 0..1]
    /\ index \in 0..Threads
    /\ conns \in Seq([thread : IO, state : {"NotConnected", "Connected", "Closed"},
                      held : BOOLEAN, deaf : BOOLEAN, owed : BOOLEAN, late : BOOLEAN])
    /\ Len(conns) <= MaxClients
    /\ peer \in [1..MaxClients -> {"up", "data", "eof", "reset"}]
    /\ group \in Nat
    /\ DOMAIN events = Clients
    /\ pending \in [IO -> Seq(Task)] /\ batch \in [IO -> Seq(Task)]
    /\ clearing \in [IO -> {None} \cup Clients]

Init ==
    /\ main = "begin"
    /\ size = 0
    /\ io = [t \in IO |-> "none"]
    /\ initSem = [t \in IO |-> 0] /\ startSem = [t \in IO |-> 0]
    /\ index = 0
    /\ conns = << >>
    /\ peer = [c \in 1..MaxClients |-> "up"]
    /\ group = FirstSize
    /\ events = << >>
    /\ loops = [t \in IO |-> NewLoop]
    /\ pending = [t \in IO |-> << >>]
    /\ batch = [t \in IO |-> << >>]
    /\ clearing = [t \in IO |-> None]

Alive == main \notin {"exited", "crashed"}

-----------------------------------------------------------------------------
(* The main thread. *)

\* main() reads the configuration, TcpServer::init makes the acceptor: each
\* may end the program (an invalid address, bind, listen).
ReadConfig ==
    /\ main = "begin"
    /\ \E file \in File :
         /\ main' = Config(file)
         /\ size' = IF main' = "accepting thread" THEN file.io_threads ELSE size
    /\ UNCHANGED <<io, initSem, startSem, index, shared>>

MakeAcceptor ==
    /\ main = "accepting thread"
    /\ main' \in {"exited", IF size = 0 THEN "start" ELSE "threads"}
    /\ UNCHANGED <<startUp, shared>>

Created == {t \in IO : io[t] # "none"}

\* IOThread::IOThread of the next thread, then it waits for Main to have a loop.
CreateThread ==
    /\ main = "threads"
    /\ io' = [io EXCEPT ![Cardinality(Created) + 1] = "created"]
    /\ main' = "wait"
    /\ UNCHANGED <<size, initSem, startSem, index, shared>>

\* sem_wait(m_init_semaphore).  After the last thread init registers onAccept
\* and the timer.
ThreadCreated ==
    /\ main = "wait"
    /\ LET t == Cardinality(Created)
       IN  /\ initSem[t] > 0
           /\ initSem' = [initSem EXCEPT ![t] = @ - 1]
           /\ main' = IF t = size THEN "start" ELSE "threads"
    /\ UNCHANGED <<size, io, startSem, index, shared>>


\* TcpServer::start
Start ==
    /\ main = "start"
    /\ startSem' = [t \in IO |-> IF t <= size THEN startSem[t] + 1 ELSE startSem[t]]
    /\ main' = "loop"
    /\ UNCHANGED <<size, io, initSem, index, shared>>

\* Mutant of NextIndex: the index wraps one too early.
NextIndexEarly(i) == IF i >= size - 1 THEN 0 ELSE i

\* IOThreadGroup::getIOThread: the 0-based index of the thread that is taken;
\* m_index is then one more.
NextIndex(i) == IF i = size THEN 0 ELSE i

\* onAccept up to the end of TcpConnection's constructor.  listenRead runs on
\* the main thread, so that the loop gets the event as a task.
OnAccept ==
    /\ main = "loop"
    /\ size > 0 /\ Len(conns) < MaxClients
    /\ LET c == Len(conns) + 1
           t == NextIndex(index) + 1
       IN  /\ index' = t
           /\ conns' = Append(conns, [thread |-> t, state |-> "NotConnected",
                                      held |-> TRUE, deaf |-> FALSE,
                                      owed |-> FALSE, late |-> FALSE])
           /\ group' = GroupSize(group, Fd(c))
           /\ events' = Append(events, Listen(NewFdEvent, "IN", Callbk(c, "onRead")))
           /\ pending' = [pending EXCEPT ![t] = Append(@, Callbk(c, "add"))]
    /\ main' = "onAccept"
    /\ UNCHANGED <<size, io, initSem, startSem, peer, loops, batch, clearing>>

\* The rest of it: setState, and m_client has the connection.
SetState ==
    /\ main = "onAccept"
    /\ conns' = [conns EXCEPT ![Len(conns)].state = "Connected"]
    /\ main' = "loop"
    /\ UNCHANGED <<startUp, peer, group, events, loops, pending, batch, clearing>>

\* The process ends, and what it had is gone.
Crash ==
    /\ main' = "crashed"
    /\ conns' = << >> /\ events' = << >>
    /\ peer' = [c \in 1..MaxClients |-> "up"]
    /\ loops' = [t \in IO |-> NewLoop]
    /\ pending' = [t \in IO |-> << >>] /\ batch' = [t \in IO |-> << >>]
    /\ clearing' = [t \in IO |-> None]
    /\ UNCHANGED <<startUp, group>>

\* accept returns -1 when no number is left, and no number comes back: the
\* server closes no descriptor.  getFdEvent(-1) then reads in front of the
\* vector.  So does getIOThread of a group of no threads behind it.
AcceptFails ==
    /\ main = "loop"
    /\ size = 0 \/ Len(conns) = MaxClients
    /\ Crash

\* m_client is the only owner of a connection.
ClearClientTimerFunc ==
    /\ main = "loop"
    /\ \E c \in Clients : conns[c].held /\ conns[c].state = "Closed"
    /\ conns' = [c \in Clients |-> [conns[c] EXCEPT !.held = @ /\ conns[c].state # "Closed"]]
    /\ UNCHANGED <<main, startUp, peer, group, events, loops, pending, batch, clearing>>

-----------------------------------------------------------------------------
(* An IO thread. *)

\* IOThread::Main: the loop is made and the main thread told.
MakeLoop(t) ==
    /\ io[t] = "created"
    /\ io' = [io EXCEPT ![t] = "made"]
    /\ initSem' = [initSem EXCEPT ![t] = @ + 1]
    /\ UNCHANGED <<main, size, startSem, index, shared>>

\* sem_wait(m_start_semaphore), then loop() takes the tasks that are there.
StartLoop(t) ==
    /\ io[t] = "made"
    /\ startSem[t] > 0
    /\ startSem' = [startSem EXCEPT ![t] = @ - 1]
    /\ io' = [io EXCEPT ![t] = "looping"]
    /\ batch' = [batch EXCEPT ![t] = pending[t]]
    /\ pending' = [pending EXCEPT ![t] = << >>]
    /\ UNCHANGED <<main, size, initSem, index, conns, peer, group, events, loops, clearing>>

\* The FdEvent of c is changed to e, and the loop of its thread told.
Update(c, e) ==
    /\ events' = [events EXCEPT ![c] = e]
    /\ loops' = [loops EXCEPT ![conns[c].thread] = AddToEpoll(@, Fd(c), e.mask)]

Add(c) ==
    /\ Update(c, events[c])
    /\ UNCHANGED <<conns, peer, clearing>>

\* TcpConnection::reply, whatever state the connection is in: listenWrite.
Reply(c) == Update(c, Listen(events[c], "OUT", Callbk(c, "onWrite")))

\* onRead of a request: excute may answer it, or the service keeps its closure.
Request(c) ==
    /\ peer[c] = "data"
    /\ peer' = [peer EXCEPT ![c] = "up"]
    /\ \/ UNCHANGED <<conns, events, loops>>
       \/ Reply(c) /\ UNCHANGED conns
       \/ /\ conns' = [conns EXCEPT ![c].owed = TRUE]
          /\ UNCHANGED <<events, loops>>
    /\ UNCHANGED clearing

\* Mutant of Clear: EPOLLIN stays registered.
ClearKeeps(c) ==
    /\ peer[c] \in {"eof", "reset"}
    /\ UNCHANGED <<events, loops>>
    /\ clearing' = [clearing EXCEPT ![conns[c].thread] = c]
    /\ UNCHANGED <<conns, peer>>

\* onRead of the end of the stream (after a reset, the second read finds it):
\* clear() up to deleteEpollEvent.
Clear(c) ==
    /\ peer[c] \in {"eof", "reset"}
    /\ events' = [events EXCEPT ![c] = Cancle(Cancle(@, "IN"), "OUT")]
    /\ loops' = [loops EXCEPT ![conns[c].thread] = DeleteToEpoll(@, Fd(c))]
    /\ clearing' = [clearing EXCEPT ![conns[c].thread] = c]
    /\ UNCHANGED <<conns, peer>>

\* onRead before setState reads nothing.  If epoll_wait has reported an error
\* and the loop deleted the descriptor, nothing will be reported again.
TooEarly(c) ==
    /\ conns' = [conns EXCEPT ![c].deaf = Fd(c) \notin Watched(loops[conns[c].thread])]
    /\ UNCHANGED <<peer, events, loops, clearing>>

OnRead(c) ==
    \/ conns[c].state # "Connected" /\ TooEarly(c)
    \/ conns[c].state = "Connected" /\ (Request(c) \/ Clear(c))

\* Some of it is written, and EPOLLOUT stays, or all (see TcpConnectionWrite).
\* A connection that has been closed is left alone; one that has been freed as
\* well is used after that, and here keeps its last state.
OnWrite(c) ==
    /\ conns[c].state = "Connected" => peer[c] # "reset"
    /\ \/ UNCHANGED <<events, loops>>
       \/ conns[c].state = "Connected" /\ Update(c, Cancle(events[c], "OUT"))
    /\ UNCHANGED <<conns, peer, clearing>>

RunTask(t) ==
    /\ io[t] = "looping" /\ clearing[t] = None
    /\ batch[t] # << >>
    /\ batch' = [batch EXCEPT ![t] = Tail(@)]
    /\ LET task == Head(batch[t])
       IN  \/ task.run = "add" /\ Add(task.conn)
           \/ task.run = "onRead" /\ OnRead(task.conn)
           \/ task.run = "onWrite" /\ OnWrite(task.conn)
    /\ UNCHANGED <<main, startUp, group, pending>>

\* The task of t that is next is a callback of a connection in which all is in
\* order, whose peer has done what is said.
Comes(t, run, done) ==
    /\ io[t] = "looping" /\ clearing[t] = None
    /\ batch[t] # << >>
    /\ Head(batch[t]).run = run
    /\ conns[Head(batch[t]).conn].state = "Connected"
    /\ peer[Head(batch[t]).conn] = done

\* write() on a connection that has been reset: the first one fails, the next
\* one raises SIGPIPE, which no one handles.
WriteKills(t) == Comes(t, "onWrite", "reset") /\ Crash

\* The same where the process was started with SIGPIPE ignored: onWrite's loop
\* goes round for ever.  So does the one of decode, where the length of a frame
\* is cut right behind another one (see TcpConnectionRead).
NeverReturns(t) ==
    /\ Comes(t, "onWrite", "reset") \/ Comes(t, "onRead", "data")
    /\ io' = [io EXCEPT ![t] = "stuck"]
    /\ UNCHANGED <<main, size, initSem, startSem, index, shared>>

\* A service runs a closure that it has kept, in the thread of the connection,
\* which may be closed by then, or freed.
LateReply(t) ==
    /\ io[t] = "looping" /\ clearing[t] = None
    /\ \E c \in Clients :
         /\ conns[c].thread = t /\ conns[c].owed
         /\ Reply(c)
         /\ conns' = [conns EXCEPT ![c].owed = FALSE,
                                  ![c].late = @ \/ conns[c].state = "Closed"]
    /\ UNCHANGED <<main, startUp, peer, group, pending, batch, clearing>>

\* The end of clear().
Closed(t) ==
    /\ clearing[t] # None
    /\ conns' = [conns EXCEPT ![clearing[t]].state = "Closed"]
    /\ clearing' = [clearing EXCEPT ![t] = None]
    /\ UNCHANGED <<main, startUp, peer, group, events, loops, pending, batch>>

Ready(c) ==
    (IF peer[c] # "up" THEN {"IN"} ELSE {}) \cup {"OUT"}

Reported(t) ==
    {c \in Clients : /\ Fd(c) \in Watched(loops[t])
                     /\ loops[t].epoll[Fd(c)] \cap Ready(c) # {} \/ peer[c] = "reset"}

\* The callbacks to queue: connection and event.
ReadyEvents(t) ==
    {e \in Reported(t) \X {"IN", "OUT"} : e[2] \in loops[t].epoll[Fd(e[1])] \cap Ready(e[1])}

\* epoll_wait ends, with what is ready or after its timeout, and the loop takes
\* its tasks: those that were pending, and the callbacks of what is ready.  (A
\* task that the main thread adds in between is taken the next time.)  What
\* comes with EPOLLERR is deleted from epoll besides.
Poll(t) ==
    /\ io[t] = "looping" /\ clearing[t] = None
    /\ batch[t] = << >>
    /\ \E order \in Orders(Reported(t)) :
         LET ready == Walk(order, ReadyEvents(t))
         IN  batch' = [batch EXCEPT ![t] = pending[t] \o
                         [i \in DOMAIN ready |-> Handler(events[ready[i][1]], ready[i][2])]]
    /\ loops' = [loops EXCEPT ![t] =
                   DeleteAll(@, {Fd(c) : c \in {d \in Reported(t) : peer[d] = "reset"}})]
    /\ pending' = [pending EXCEPT ![t] = << >>]
    /\ UNCHANGED <<main, startUp, conns, peer, group, events, clearing>>

-----------------------------------------------------------------------------

\* A client sends a request, or goes.
Peer(c) ==
    /\ c \in Clients
    /\ \/ peer[c] = "up" /\ peer' = [peer EXCEPT ![c] = "data"]
       \/ peer[c] = "up" /\ peer' = [peer EXCEPT ![c] = "eof"]
       \/ peer[c] \in {"up", "data", "eof"} /\ peer' = [peer EXCEPT ![c] = "reset"]
    /\ UNCHANGED <<main, startUp, conns, group, events, loops, pending, batch, clearing>>

Main ==
    \/ ReadConfig \/ MakeAcceptor \/ CreateThread \/ ThreadCreated \/ Start
    \/ OnAccept \/ SetState \/ AcceptFails \/ ClearClientTimerFunc

IOThread(t) ==
    \/ MakeLoop(t) \/ StartLoop(t) \/ RunTask(t) \/ Closed(t) \/ Poll(t)
    \/ WriteKills(t) \/ NeverReturns(t)

Next ==
    \/ Main
    \/ Alive /\ \E t \in IO : IOThread(t) \/ LateReply(t)
    \/ Alive /\ \E c \in 1..MaxActive : Peer(c)

Spec == Init /\ [][Next]_vars

\* Each thread runs; the timer fires again and again.
FairSpec ==
    /\ Spec
    /\ WF_vars(CreateThread \/ ThreadCreated \/ Start \/ SetState)
    /\ WF_vars(ClearClientTimerFunc)
    /\ \A t \in IO : WF_vars(Alive /\ IOThread(t))

-----------------------------------------------------------------------------
(* What must hold. *)

Of(t) == {c \in Clients : conns[c].thread = t}

\* A connection is handed to a thread that has made its loop, the clients are
\* spread over the threads of the group evenly, and each number of a
\* descriptor has its FdEvent.
HandedOut ==
    /\ \A c \in Clients : io[conns[c].thread] \in {"made", "looping", "stuck"}
    /\ \A c \in Clients : Fd(c) < group
    /\ \A t, u \in 1..size : Cardinality(Of(t)) <= Cardinality(Of(u)) + 1

\* A connection is freed by the main thread while its IO thread runs.  Then the
\* thread is out of its clear(), no onRead of it is queued or can come, and its
\* number is in epoll only where an answer has come after the end, and for
\* EPOLLOUT.  What can still touch it is an onWrite that was queued behind the
\* last onRead, or that such an answer brings.
FreedUnused ==
    \A c \in Clients : ~ conns[c].held =>
      LET t == conns[c].thread
      IN  /\ Fd(c) \in Watched(loops[t]) =>
               conns[c].late /\ loops[t].epoll[Fd(c)] = {"OUT"}
          /\ clearing[t] # c
          /\ \A i \in DOMAIN batch[t] : batch[t][i].conn = c => batch[t][i].run = "onWrite"
          /\ \A i \in DOMAIN pending[t] : pending[t][i].conn # c

\* A client has gone and its connection is kept.  Left out is one whose reset
\* was reported before onAccept had come to setState: the loop has deleted it,
\* onRead has read nothing, and it stays for ever; and so do all of a thread
\* in which a callback does not return.
Lingers(c) ==
    /\ Alive /\ c \in Clients
    /\ peer[c] \in {"eof", "reset"} /\ conns[c].held /\ ~ conns[c].deaf
    /\ io[conns[c].thread] # "stuck"

=============================================================================
