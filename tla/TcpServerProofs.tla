--------------------------- MODULE TcpServerProofs ---------------------------
(***************************************************************************)
(* What TcpServer keeps, for any number of IO threads and of clients.      *)
(***************************************************************************)
EXTENDS TcpServer, FdEventLemmas

-----------------------------------------------------------------------------
(* The invariant. *)

\* A connection, as TypeOK has it, and an FdEvent.
Conn == [thread : IO, state : {"NotConnected", "Connected", "Closed"},
         held : BOOLEAN, deaf : BOOLEAN, owed : BOOLEAN, late : BOOLEAN]

Event == [mask : SUBSET {"IN", "OUT"}, read : Task, write : Task \cup {NoCallback}]

\* The start-up makes the threads 1..k one after the other, and waits for each
\* to have its loop.
StartUpInv ==
    \E k \in 0..Threads :
      /\ Created = 1..k
      /\ main \in {"begin", "accepting thread"} => k = 0
      /\ main = "threads" => k < size
      /\ main = "wait" => k \in 1..size
      /\ main \in {"start", "loop", "onAccept"} => k = size
      /\ \A t \in 1..k : io[t] = "created" => main = "wait" /\ t = k
      /\ \A t \in IO : io[t] \in {"none", "created"} => initSem[t] = 0
      /\ \A t \in IO : main \notin {"loop", "onAccept", "crashed"} => startSem[t] = 0

\* There are connections only once the start-up is over; the last one is the
\* one that onAccept is still making.
ConnsInv ==
    /\ Clients # {} => main \in {"loop", "onAccept"}
    /\ \A c \in Clients : conns[c].thread \in 1..size /\ Fd(c) < group
    /\ \A c \in Clients : ~ conns[c].held => conns[c].state = "Closed"
    /\ main = "onAccept" => Clients # {} /\ conns[Len(conns)].state = "NotConnected"

\* The threads up to m_index have one connection more than the others.
EvenInv ==
    /\ index <= size
    /\ main \notin {"loop", "onAccept", "crashed"} => index = 0
    /\ main # "crashed" =>
         \E q \in Nat : \A t \in 1..size :
           IsFiniteSet(Of(t)) /\ Cardinality(Of(t)) = IF t <= index THEN q + 1 ELSE q

\* A loop watches numbers of its own connections, and epoll what m_listen_fds
\* has; the callbacks of a number are those of its connection.
LoopsInv ==
    /\ DOMAIN loops = IO
    /\ \A t \in IO :
         /\ Watched(loops[t]) = loops[t].listen_fds
         /\ \A fd \in Watched(loops[t]) : \E c \in Of(t) : fd = Fd(c)
    /\ events \in Seq(Event)
    /\ \A c \in Clients :
         /\ events[c].read = Callbk(c, "onRead")
         /\ \/ events[c].write = Callbk(c, "onWrite")
            \/ /\ "OUT" \notin events[c].mask
               /\ \A t \in IO : Fd(c) \in Watched(loops[t]) => "OUT" \notin loops[t].epoll[Fd(c)]

\* The queues of a thread hold tasks of its connections, none twice, and those
\* that another thread has added are registrations.
QueuesInv ==
    \A t \in IO :
      /\ IsInjective(pending[t]) /\ IsInjective(batch[t])
      /\ \A i \in DOMAIN pending[t] : pending[t][i].run = "add" /\ pending[t][i].conn \in Of(t)
      /\ \A i \in DOMAIN batch[t] : batch[t][i].conn \in Of(t)
      /\ clearing[t] # None => clearing[t] \in Of(t)

In(s, c, run) == \E i \in DOMAIN s : s[i] = Callbk(c, run)

Registering(c) ==
    LET t == conns[c].thread
    IN  In(pending[t], c, "add") \/ In(batch[t], c, "add")

Ended(c) == clearing[conns[c].thread] = c \/ conns[c].state = "Closed"

\* The life of a connection in its thread: it is registered by one task, before
\* which nothing else is queued for it.
Early(c) ==
    LET t == conns[c].thread
    IN  /\ In(pending[t], c, "add") => ~ In(batch[t], c, "add")
        /\ Registering(c) =>
             /\ Fd(c) \notin Watched(loops[t]) /\ ~ conns[c].owed
             /\ ~ In(batch[t], c, "onRead") /\ ~ In(batch[t], c, "onWrite")
             /\ ~ Ended(c)

\* Then it is read, until clear() takes it out of epoll, after which there are
\* only an onWrite that was queued before and what a late answer brings: the
\* number is in epoll again, for EPOLLOUT alone, for EPOLLIN is out of its mask.
Over(c) ==
    LET t == conns[c].thread
    IN  /\ ~ In(batch[t], c, "onRead")
        /\ "IN" \notin events[c].mask
        /\ Fd(c) \in Watched(loops[t]) => conns[c].late /\ loops[t].epoll[Fd(c)] = {"OUT"}

LifeInv ==
    \A c \in Clients :
      /\ Early(c)
      /\ Ended(c) => Over(c)
      /\ clearing[conns[c].thread] = c => conns[c].state = "Connected"
      /\ conns[c].late => conns[c].state = "Closed"

ServerInv ==
    /\ TypeOK
    /\ StartUpInv
    /\ ConnsInv
    /\ EvenInv
    /\ LoopsInv
    /\ QueuesInv
    /\ LifeInv

-----------------------------------------------------------------------------
(* Queues of tasks. *)

LEMMA TailTasks ==
    ASSUME NEW S, NEW s \in Seq(S), s # << >>, IsInjective(s)
    PROVE  /\ Tail(s) \in Seq(S) /\ IsInjective(Tail(s))
           /\ Head(s) \in S
           /\ \E j \in DOMAIN s : s[j] = Head(s)
           /\ \A i \in DOMAIN Tail(s) : Tail(s)[i] # Head(s) /\ \E j \in DOMAIN s : Tail(s)[i] = s[j]
  <1>1. Len(s) \in Nat /\ DOMAIN s = 1..Len(s) /\ Len(s) # 0
    BY LenProperties, EmptySeq
  <1>2. /\ Tail(s) \in Seq(S) /\ Head(s) \in S /\ Head(s) = s[1]
        /\ DOMAIN Tail(s) = 1..(Len(s) - 1)
        /\ \A i \in 1..(Len(s) - 1) : Tail(s)[i] = s[i + 1]
    BY <1>1
  <1>3. \A i, j \in DOMAIN s : s[i] = s[j] => i = j
    BY DEF IsInjective
  <1>4. \A i \in DOMAIN Tail(s) : i + 1 \in DOMAIN s /\ i + 1 # 1 /\ Tail(s)[i] = s[i + 1]
    BY <1>1, <1>2
  <1>5. IsInjective(Tail(s))
    BY <1>1, <1>2, <1>3, <1>4 DEF IsInjective
  <1>6. 1 \in DOMAIN s
    BY <1>1
  <1> QED BY <1>2, <1>3, <1>4, <1>5, <1>6

LEMMA ConcatTasks ==
    ASSUME NEW S, NEW s \in Seq(S), NEW u \in Seq(S), IsInjective(s), IsInjective(u),
           \A i \in DOMAIN s, j \in DOMAIN u : s[i] # u[j]
    PROVE  /\ s \o u \in Seq(S) /\ IsInjective(s \o u)
           /\ \A i \in DOMAIN (s \o u) : \/ \E j \in DOMAIN s : (s \o u)[i] = s[j]
                                        \/ \E j \in DOMAIN u : (s \o u)[i] = u[j]
  <1> DEFINE x == s \o u
             a == Len(s)
             b == Len(u)
  <1>1. /\ x \in Seq(S) /\ Len(x) = a + b
        /\ \A i \in 1..(a + b) : x[i] = IF i <= a THEN s[i] ELSE u[i - a]
    BY ConcatProperties
  <1>2. /\ a \in Nat /\ b \in Nat /\ DOMAIN s = 1..a /\ DOMAIN u = 1..b /\ DOMAIN x = 1..(a + b)
    BY <1>1, LenProperties
  <1> HIDE DEF x, a, b
  <1>3. \A i \in DOMAIN x : i <= a => i \in DOMAIN s /\ x[i] = s[i]
    BY <1>1, <1>2
  <1>4. \A i \in DOMAIN x : ~ (i <= a) => i - a \in DOMAIN u /\ x[i] = u[i - a]
    BY <1>1, <1>2
  <1>5. \A i, j \in DOMAIN x : x[i] = x[j] => i = j
    <2> SUFFICES ASSUME NEW i \in DOMAIN x, NEW j \in DOMAIN x, x[i] = x[j] PROVE i = j
      OBVIOUS
    <2>0. i \in Nat /\ j \in Nat
      BY <1>2
    <2>1. CASE i <= a /\ j <= a
      BY <1>3, <2>1 DEF IsInjective
    <2>2. CASE ~ (i <= a) /\ ~ (j <= a)
      <3>1. i - a = j - a
        BY <1>4, <2>2 DEF IsInjective
      <3> QED BY <1>2, <2>0, <3>1
    <2>3. CASE i <= a /\ ~ (j <= a)
      BY <1>3, <1>4, <2>3
    <2>4. CASE ~ (i <= a) /\ j <= a
      BY <1>3, <1>4, <2>4
    <2> QED BY <2>1, <2>2, <2>3, <2>4
  <1>6. \A i \in DOMAIN x : \/ \E j \in DOMAIN s : x[i] = s[j]
                          \/ \E j \in DOMAIN u : x[i] = u[j]
    BY <1>3, <1>4
  <1> QED BY <1>1, <1>5, <1>6 DEF x, IsInjective

LEMMA AppendTasks ==
    ASSUME NEW S, NEW s \in Seq(S), NEW e \in S, IsInjective(s), \A i \in DOMAIN s : s[i] # e
    PROVE  /\ Append(s, e) \in Seq(S) /\ IsInjective(Append(s, e))
           /\ \A i \in DOMAIN Append(s, e) :
                Append(s, e)[i] = e \/ \E j \in DOMAIN s : Append(s, e)[i] = s[j]
  <1>1. Len(s) \in Nat /\ DOMAIN s = 1..Len(s)
    BY LenProperties
  <1>2. /\ Append(s, e) \in Seq(S) /\ DOMAIN Append(s, e) = 1..(Len(s) + 1)
        /\ \A i \in 1..Len(s) : Append(s, e)[i] = s[i]
        /\ Append(s, e)[Len(s) + 1] = e
    BY <1>1, AppendProperties
  <1>3. \A i \in DOMAIN Append(s, e) : i \in DOMAIN s \/ i = Len(s) + 1
    BY <1>1, <1>2
  <1>4. IsInjective(Append(s, e))
    BY <1>1, <1>2, <1>3 DEF IsInjective
  <1> QED BY <1>1, <1>2, <1>3, <1>4

-----------------------------------------------------------------------------
(* The start-up. *)

(* The invariant holds before main has begun. *)
LEMMA InitInv == Init => ServerInv
  <1> SUFFICES ASSUME Init PROVE ServerInv
    OBVIOUS
  <1> USE ServerAssumption DEF ServerAssumption, Init
  <1>1. Clients = {} /\ Len(conns) = 0 /\ conns \in Seq(Conn) /\ DOMAIN events = {}
    BY DEF Clients
  <1>2. TypeOK
    <2>1. None \in {None} \cup Clients /\ \A S : << >> \in Seq(S)
      OBVIOUS
    <2> QED BY <1>1, <2>1 DEF TypeOK, Stage, Conn, IO
  <1>3. StartUpInv
    <2>1. Created = 1..0 /\ 0 \in 0..Threads
      BY DEF Created
    <2> QED BY <2>1 DEF StartUpInv
  <1>4. ConnsInv
    BY <1>1 DEF ConnsInv
  <1>5. EvenInv
    <2>1. \A t \in 1..size : Of(t) = {} /\ IsFiniteSet(Of(t)) /\ Cardinality(Of(t)) = 0
      BY <1>1, FS_EmptySet DEF Of
    <2> QED BY <2>1 DEF EvenInv
  <1>6. LoopsInv
    <2>1. \A t \in IO : loops[t].listen_fds = {} /\ Watched(loops[t]) = {}
      <3>1. NewLoop.listen_fds = {} /\ NewLoop.epoll = [fd \in {} |-> {}]
        BY DEF NewLoop
      <3>2. DOMAIN NewLoop.epoll = {}
        BY <3>1
      <3>3. \A t \in IO : loops[t] = NewLoop
        OBVIOUS
      <3> QED BY <3>1, <3>2, <3>3 DEF Watched
    <2>2. DOMAIN loops = IO /\ \A S : events \in Seq(S)
      OBVIOUS
    <2> QED BY <1>1, <2>1, <2>2, Zenon DEF LoopsInv
  <1>7. QueuesInv
    BY DEF QueuesInv, IsInjective
  <1>8. LifeInv
    BY <1>1 DEF LifeInv
  <1> QED BY <1>2, <1>3, <1>4, <1>5, <1>6, <1>7, <1>8 DEF ServerInv

(* What an action does not touch keeps its part of the invariant. *)
LEMMA QueuesKept ==
    ASSUME UNCHANGED <<conns, events, loops, pending, batch, clearing>>,
           LoopsInv, QueuesInv, LifeInv
    PROVE  LoopsInv' /\ QueuesInv' /\ LifeInv'
  <1>1. LoopsInv'
    BY DEF LoopsInv, Of, Clients, Watched, Fd, Callbk, Task, Event
  <1>2. QueuesInv'
    BY DEF QueuesInv, Of, Clients, IsInjective
  <1>3. LifeInv'
    <2>1. \A c \in Clients : /\ Early(c) => Early(c)'
                             /\ Ended(c)' => Ended(c)
                             /\ Over(c) => Over(c)'
      BY ZenonT(40) DEF Early, Over, Registering, Ended, In, Callbk, Watched, Fd
    <2> QED BY <2>1 DEF LifeInv, Clients
  <1> QED BY <1>1, <1>2, <1>3

(* The first k threads are created. *)
LEMMA CreatedCount ==
    ASSUME NEW k \in Nat, Created = 1..k
    PROVE  Cardinality(Created) = k
  BY FS_Interval

LEMMA StartUpKeeps ==
    ASSUME ServerInv, ReadConfig \/ MakeAcceptor \/ CreateThread \/ ThreadCreated \/ Start
    PROVE  ServerInv'
  <1> USE ServerAssumption DEF ServerAssumption
  <1>0. TypeOK /\ StartUpInv /\ ConnsInv /\ EvenInv /\ LoopsInv /\ QueuesInv /\ LifeInv
    BY DEF ServerInv
  <1>1. UNCHANGED shared /\ index' = index /\ main \notin {"loop", "onAccept", "crashed"}
    BY DEF ReadConfig, MakeAcceptor, CreateThread, ThreadCreated, Start, startUp
  <1>2. Clients = {} /\ Clients' = {} /\ \A t : Of(t) = {} /\ Of(t)' = {}
    BY <1>0, <1>1 DEF ConnsInv, shared, Clients, Of
  <1>3. PICK k \in 0..Threads :
          /\ Created = 1..k
          /\ main \in {"begin", "accepting thread"} => k = 0
          /\ main = "threads" => k < size
          /\ main = "wait" => k \in 1..size
          /\ main \in {"start", "loop", "onAccept"} => k = size
          /\ \A t \in 1..k : io[t] = "created" => main = "wait" /\ t = k
          /\ \A t \in IO : io[t] \in {"none", "created"} => initSem[t] = 0
          /\ \A t \in IO : main \notin {"loop", "onAccept", "crashed"} => startSem[t] = 0
    BY <1>0 DEF StartUpInv
  <1>4. Cardinality(Created) = k /\ k \in Nat
    <2>1. k \in Nat
      OBVIOUS
    <2>2. Created = 1..k
      BY <1>3
    <2> QED BY <2>1, <2>2, CreatedCount
  <1>5. /\ size \in {0, Threads} /\ io \in [IO -> {"none", "created", "made", "looping", "stuck"}]
        /\ initSem \in [IO -> 0..1] /\ startSem \in [IO -> 0..1] /\ main \in Stage
    BY <1>0 DEF TypeOK
  <1>6. /\ main' \in Stage /\ size' \in {0, Threads}
        /\ io' \in [IO -> {"none", "created", "made", "looping", "stuck"}]
        /\ initSem' \in [IO -> 0..1] /\ startSem' \in [IO -> 0..1]
        /\ main' \notin {"onAccept"} /\ StartUpInv'
        /\ main' = "accepting thread" => main = "begin"
        /\ main' # "begin"
        /\ size' # size => main = "begin"
    <2>1. CASE ReadConfig
      <3>1. /\ main = "begin" /\ main' \in {"exited", "crashed", "accepting thread"}
            /\ size' \in {0, Threads} /\ UNCHANGED <<io, initSem, startSem>>
        <4>1. PICK file \in File : /\ main' = Config(file)
                                   /\ size' = IF main' = "accepting thread" THEN file.io_threads ELSE size
          BY <2>1 DEF ReadConfig
        <4>2. file.io_threads \in {0, Threads}
          BY DEF File
        <4> QED BY <1>5, <2>1, <4>1, <4>2 DEF ReadConfig, Config
      <3>2. Created' = 1..0 /\ k = 0
        BY <1>3, <3>1 DEF Created
      <3>3. StartUpInv'
        <4>1. \A t \in 1..0 : FALSE
          OBVIOUS
        <4> QED BY <1>3, <3>1, <3>2, <4>1 DEF StartUpInv
      <3> QED BY <1>5, <3>1, <3>3 DEF Stage
    <2>2. CASE MakeAcceptor
      <3>1. /\ main = "accepting thread" /\ main' \in {"exited", IF size = 0 THEN "start" ELSE "threads"}
            /\ UNCHANGED <<size, io, initSem, startSem>>
        BY <2>2 DEF MakeAcceptor, startUp
      <3>2. Created' = 1..0 /\ k = 0
        BY <1>3, <3>1 DEF Created
      <3>3. StartUpInv'
        <4>1. main' = "threads" => 0 < size
          <5>1. main' = "threads" => size # 0
            BY <3>1
          <5> QED BY <1>5, <5>1
        <4>2. main' = "start" => size = 0
          BY <3>1
        <4> QED BY <1>3, <3>1, <3>2, <4>1, <4>2 DEF StartUpInv
      <3> QED BY <1>5, <3>1, <3>3 DEF Stage
    <2>3. CASE CreateThread
      <3>1. /\ main = "threads" /\ main' = "wait" /\ io' = [io EXCEPT ![k + 1] = "created"]
            /\ UNCHANGED <<size, initSem, startSem>>
        BY <1>4, <2>3 DEF CreateThread
      <3>2. k + 1 \in IO /\ k + 1 \in 1..size /\ k + 1 \in 0..Threads /\ k + 1 \notin Created
        BY <1>3, <1>4, <1>5, <3>1 DEF IO
      <3>3. \A t \in IO : io'[t] = IF t = k + 1 THEN "created" ELSE io[t]
        BY <1>5, <3>1
      <3>4. Created' = 1..(k + 1)
        <4>1. Created' = Created \cup {k + 1}
          BY <3>2, <3>3 DEF Created
        <4>2. 1..(k + 1) = 1..k \cup {k + 1}
          BY <1>4
        <4> QED BY <1>3, <4>1, <4>2
      <3>5. \A t \in 1..(k + 1) : t # k + 1 => t \in 1..k /\ t \in IO
        <4>1. k <= Threads /\ Threads \in Nat
          OBVIOUS
        <4> QED BY <1>4, <4>1 DEF IO
      <3>6. \A t \in 1..(k + 1) : io'[t] = "created" => t = k + 1
        BY <1>3, <3>1, <3>3, <3>5
      <3>7. io[k + 1] = "none"
        BY <3>2 DEF Created
      <3>8. \A t \in IO : io'[t] \in {"none", "created"} => initSem'[t] = 0
        BY <1>3, <3>1, <3>2, <3>3, <3>7
      <3>9. StartUpInv'
        <4>1. \A t \in IO : main' \notin {"loop", "onAccept", "crashed"} => startSem'[t] = 0
          BY <1>3, <3>1
        <4>2. main' = "wait" => k + 1 \in 1..size'
          BY <3>1, <3>2
        <4> HIDE DEF Created
        <4> QED BY <3>1, <3>2, <3>4, <3>6, <3>8, <4>1, <4>2 DEF StartUpInv
      <3> QED BY <1>5, <3>1, <3>9 DEF Stage
    <2>4. CASE ThreadCreated
      <3>1. /\ main = "wait" /\ initSem[k] > 0
            /\ initSem' = [initSem EXCEPT ![k] = @ - 1]
            /\ main' = IF k = size THEN "start" ELSE "threads"
            /\ UNCHANGED <<size, io, startSem>>
        BY <1>4, <2>4 DEF ThreadCreated
      <3>2. k \in 1..size /\ k \in IO /\ initSem[k] \in 0..1
        BY <1>3, <1>5, <3>1 DEF IO
      <3>3. io[k] \notin {"none", "created"}
        BY <1>3, <3>1, <3>2
      <3>4. Created' = 1..k
        BY <1>3, <3>1 DEF Created
      <3>5. \A t \in IO : initSem'[t] = IF t = k THEN initSem[k] - 1 ELSE initSem[t]
        BY <1>5, <3>1
      <3>6. initSem' \in [IO -> 0..1]
        <4>1. initSem[k] - 1 \in 0..1
          BY <3>1, <3>2
        <4> QED BY <1>5, <3>1, <4>1
      <3>7. \A t \in 1..k : io'[t] # "created"
        BY <1>3, <3>1, <3>3
      <3>8. \A t \in IO : io'[t] \in {"none", "created"} => initSem'[t] = 0
        BY <1>3, <3>1, <3>3, <3>5
      <3>9. StartUpInv'
        <4>1. main' = "threads" => k < size
          BY <1>5, <3>1, <3>2
        <4> QED BY <1>3, <3>1, <3>4, <3>7, <3>8, <4>1 DEF StartUpInv
      <3> QED BY <1>5, <3>1, <3>6, <3>9 DEF Stage
    <2>5. CASE Start
      <3>1. /\ main = "start" /\ main' = "loop"
            /\ startSem' = [t \in IO |-> IF t <= size THEN startSem[t] + 1 ELSE startSem[t]]
            /\ UNCHANGED <<size, io, initSem>>
        BY <2>5 DEF Start
      <3>2. \A t \in IO : startSem[t] = 0
        BY <1>3, <3>1
      <3>3. startSem' \in [IO -> 0..1]
        BY <3>1, <3>2
      <3>4. Created' = 1..k
        BY <1>3, <3>1 DEF Created
      <3>5. StartUpInv'
        BY <1>3, <3>1, <3>4 DEF StartUpInv
      <3> QED BY <1>5, <3>1, <3>3, <3>5 DEF Stage
    <2> QED BY <2>1, <2>2, <2>3, <2>4, <2>5
  <1>7. TypeOK'
    BY <1>0, <1>1, <1>2, <1>6 DEF TypeOK, shared, Clients
  <1>8. ConnsInv'
    BY <1>2, <1>6 DEF ConnsInv
  <1>9. EvenInv'
    <2>0. size' \in Nat
      <3>1. size' \in {0, Threads}
        BY <1>6
      <3> QED BY <3>1
    <2>1. index' = 0 /\ index' <= size'
      <3>1. index' = 0
        BY <1>0, <1>1 DEF EvenInv
      <3> QED BY <2>0, <3>1
    <2>2. \A t \in 1..size' : IsFiniteSet(Of(t)') /\ Cardinality(Of(t)') = 0
      BY <1>2, FS_EmptySet
    <2>3. \E q \in Nat : \A t \in 1..size' :
            IsFiniteSet(Of(t)') /\ Cardinality(Of(t)') = IF t <= index' THEN q + 1 ELSE q
      <3>1. \A t \in 1..size' : IsFiniteSet(Of(t)') /\ Cardinality(Of(t)') = IF t <= index' THEN 0 + 1 ELSE 0
        BY <2>0, <2>1, <2>2
      <3> QED BY <3>1
    <2> QED BY <2>1, <2>3 DEF EvenInv
  <1>10. LoopsInv' /\ QueuesInv' /\ LifeInv'
    BY <1>0, <1>1, QueuesKept DEF shared
  <1> QED BY <1>6, <1>7, <1>8, <1>9, <1>10 DEF ServerInv

-----------------------------------------------------------------------------
(* The connections. *)

(* The threads are where they were when only the main thread has moved on. *)
LEMMA StartUpKept ==
    ASSUME StartUpInv, UNCHANGED <<size, io, initSem, startSem>>,
           \/ main' = main
           \/ main \in {"loop", "onAccept"} /\ main' \in {"loop", "onAccept", "crashed"}
    PROVE  StartUpInv'
  <1>1. PICK k \in 0..Threads :
          /\ Created = 1..k
          /\ main \in {"begin", "accepting thread"} => k = 0
          /\ main = "threads" => k < size
          /\ main = "wait" => k \in 1..size
          /\ main \in {"start", "loop", "onAccept"} => k = size
          /\ \A t \in 1..k : io[t] = "created" => main = "wait" /\ t = k
          /\ \A t \in IO : io[t] \in {"none", "created"} => initSem[t] = 0
          /\ \A t \in IO : main \notin {"loop", "onAccept", "crashed"} => startSem[t] = 0
    BY DEF StartUpInv
  <1>2. Created' = 1..k
    BY <1>1 DEF Created
  <1> HIDE DEF Created
  <1> QED BY <1>1, <1>2 DEF StartUpInv

(* Who is served by a thread depends on the connections' threads only. *)
LEMMA OfKept ==
    ASSUME Clients' = Clients, \A c \in Clients : conns'[c].thread = conns[c].thread
    PROVE  \A t : Of(t)' = Of(t)
  BY DEF Of

LEMMA EvenKept ==
    ASSUME EvenInv, UNCHANGED <<size, index>>, \A t : Of(t)' = Of(t),
           \/ main' = main
           \/ main \in {"loop", "onAccept"} /\ main' \in {"loop", "onAccept", "crashed"}
    PROVE  EvenInv'
  BY DEF EvenInv

(* A number is the descriptor of one connection. *)
LEMMA FdInjective ==
    ASSUME NEW c \in Nat, NEW d \in Nat
    PROVE  Fd(c) \in Nat /\ Fd(c) >= c /\ (Fd(c) = Fd(d) => c = d) /\ (c >= 1 => Fd(c) >= 2)
  BY ServerAssumption DEF ServerAssumption, Fd

LEMMA ConnsSeq ==
    ASSUME TypeOK
    PROVE  /\ conns \in Seq(Conn) /\ Clients = 1..Len(conns) /\ Len(conns) \in Nat
           /\ \A c \in Clients : conns[c] \in Conn /\ c \in Nat /\ c >= 1
           /\ Clients \subseteq 1..MaxClients
  <1>1. conns \in Seq(Conn) /\ Len(conns) <= MaxClients
    BY DEF TypeOK, Conn
  <1>2. Clients = 1..Len(conns) /\ Len(conns) \in Nat
    BY <1>1, LenProperties DEF Clients
  <1>3. \A c \in Clients : conns[c] \in Conn
    BY <1>1, <1>2, ElementOfSeq
  <1> QED BY <1>1, <1>2, <1>3, ServerAssumption DEF ServerAssumption

(* The group is made larger when a number needs it. *)
LEMMA GroupGrows ==
    ASSUME NEW n \in Nat, NEW fd \in Nat, fd >= 2
    PROVE  GroupSize(n, fd) \in Nat /\ GroupSize(n, fd) >= n /\ fd < GroupSize(n, fd)
  <1>1. (3 * fd) \div 2 \in Nat /\ fd < (3 * fd) \div 2
    OBVIOUS
  <1> QED BY <1>1 DEF GroupSize

(* An added task is in the queue, and what was is. *)
LEMMA InAppend ==
    ASSUME NEW s \in Seq(Task), NEW e \in Task
    PROVE  /\ \E i \in DOMAIN Append(s, e) : Append(s, e)[i] = e
           /\ \A c, run : In(Append(s, e), c, run) <=> In(s, c, run) \/ e = Callbk(c, run)
  <1>1. /\ Append(s, e) \in Seq(Task) /\ DOMAIN Append(s, e) = 1..(Len(s) + 1)
        /\ \A i \in 1..Len(s) : Append(s, e)[i] = s[i]
        /\ Append(s, e)[Len(s) + 1] = e
        /\ Len(s) \in Nat /\ DOMAIN s = 1..Len(s)
    BY AppendProperties, LenProperties
  <1>2. \A i \in DOMAIN Append(s, e) : i \in DOMAIN s \/ i = Len(s) + 1
    BY <1>1
  <1>3. DOMAIN s \subseteq DOMAIN Append(s, e) /\ Len(s) + 1 \in DOMAIN Append(s, e)
    BY <1>1
  <1> QED BY <1>1, <1>2, <1>3 DEF In

(* What only the main thread changes of a connection leaves its life alone. *)
LEMMA LifeKept ==
    ASSUME LifeInv, UNCHANGED <<events, loops, pending, batch, clearing>>, Clients' = Clients,
           \A c \in Clients :
             /\ conns'[c].thread = conns[c].thread
             /\ conns'[c].owed = conns[c].owed /\ conns'[c].late = conns[c].late
             /\ conns[c].state # "NotConnected" => conns'[c].state = conns[c].state
             /\ conns'[c].state = "Closed" => conns[c].state = "Closed"
    PROVE  LifeInv'
  <1> SUFFICES ASSUME NEW c \in Clients
               PROVE  /\ Early(c)'
                      /\ Ended(c)' => Over(c)'
                      /\ clearing'[conns'[c].thread] = c => conns'[c].state = "Connected"
                      /\ conns'[c].late => conns'[c].state = "Closed"
    BY DEF LifeInv
  <1>1. c \in Clients /\ conns'[c].thread = conns[c].thread
    OBVIOUS
  <1>2. /\ Registering(c)' => Registering(c)
        /\ Ended(c)' => Ended(c)
    BY <1>1, Zenon DEF Registering, Ended, In, Callbk
  <1>3. Early(c) => Early(c)'
    BY <1>1, <1>2, ZenonT(40) DEF Early, In, Callbk, Watched, Fd
  <1>4. Over(c) => Over(c)'
    BY <1>1, ZenonT(40) DEF Over, In, Callbk, Watched, Fd
  <1>5. /\ Early(c)
        /\ Ended(c) => Over(c)
        /\ clearing[conns[c].thread] = c => conns[c].state = "Connected"
        /\ conns[c].late => conns[c].state = "Closed"
    BY <1>1 DEF LifeInv
  <1> QED BY <1>1, <1>2, <1>3, <1>4, <1>5

LEMMA SetStateKeeps ==
    ASSUME ServerInv, SetState
    PROVE  ServerInv'
  <1>0. TypeOK /\ StartUpInv /\ ConnsInv /\ EvenInv /\ LoopsInv /\ QueuesInv /\ LifeInv
    BY DEF ServerInv
  <1> DEFINE n == Len(conns)
  <1>1. /\ main = "onAccept" /\ main' = "loop"
        /\ conns' = [conns EXCEPT ![n].state = "Connected"]
        /\ UNCHANGED <<startUp, peer, group, events, loops, pending, batch, clearing>>
        /\ UNCHANGED <<size, io, initSem, startSem, index>>
    BY DEF SetState, startUp
  <1>2. /\ conns \in Seq(Conn) /\ Clients = 1..n /\ n \in Nat
        /\ \A c \in Clients : conns[c] \in Conn /\ c \in Nat /\ c >= 1
    BY <1>0, ConnsSeq
  <1>3. n \in Clients /\ conns[n].state = "NotConnected"
    BY <1>0, <1>1, <1>2 DEF ConnsInv
  <1>4. /\ Clients' = Clients /\ conns' \in Seq(Conn) /\ Len(conns') = n
        /\ \A c \in Clients : /\ conns'[c].thread = conns[c].thread
                              /\ conns'[c].held = conns[c].held
                              /\ conns'[c].owed = conns[c].owed
                              /\ conns'[c].late = conns[c].late
                              /\ c # n => conns'[c] = conns[c]
        /\ conns'[n].state = "Connected"
    BY <1>1, <1>2, <1>3 DEF Clients, Conn
  <1> HIDE DEF n
  <1>5. \A t : Of(t)' = Of(t)
    BY <1>4, OfKept
  <1>6. TypeOK'
    BY <1>0, <1>1, <1>2, <1>4 DEF TypeOK, Stage, Conn, n
  <1>7. StartUpInv'
    BY <1>0, <1>1, StartUpKept
  <1>8. ConnsInv'
    <2>1. \A c \in Clients : conns'[c].thread \in 1..size' /\ Fd(c) < group'
      BY <1>0, <1>1, <1>4 DEF ConnsInv
    <2>2. \A c \in Clients : ~ conns'[c].held => conns'[c].state = "Closed"
      BY <1>0, <1>3, <1>4 DEF ConnsInv
    <2> QED BY <1>1, <1>4, <2>1, <2>2 DEF ConnsInv, Fd
  <1>9. EvenInv'
    BY <1>0, <1>1, <1>5, EvenKept
  <1>10. LoopsInv'
    BY <1>0, <1>1, <1>4, <1>5 DEF LoopsInv, Watched, Fd, Callbk, Task, Event
  <1>11. QueuesInv'
    BY <1>0, <1>1, <1>5 DEF QueuesInv, IsInjective
  <1>12. LifeInv'
    BY <1>0, <1>1, <1>3, <1>4, LifeKept DEF Conn
  <1> QED BY <1>6, <1>7, <1>8, <1>9, <1>10, <1>11, <1>12 DEF ServerInv

LEMMA ClearClientTimerFuncKeeps ==
    ASSUME ServerInv, ClearClientTimerFunc
    PROVE  ServerInv'
  <1>0. TypeOK /\ StartUpInv /\ ConnsInv /\ EvenInv /\ LoopsInv /\ QueuesInv /\ LifeInv
    BY DEF ServerInv
  <1>1. /\ main = "loop" /\ main' = main
        /\ conns' = [c \in Clients |-> [conns[c] EXCEPT !.held = @ /\ conns[c].state # "Closed"]]
        /\ UNCHANGED <<startUp, peer, group, events, loops, pending, batch, clearing>>
        /\ UNCHANGED <<size, io, initSem, startSem, index>>
    BY DEF ClearClientTimerFunc, startUp
  <1>2. /\ conns \in Seq(Conn) /\ Clients = 1..Len(conns) /\ Len(conns) \in Nat
        /\ \A c \in Clients : conns[c] \in Conn /\ c \in Nat /\ c >= 1
    BY <1>0, ConnsSeq
  <1>3. \A c \in Clients : /\ conns'[c] \in Conn
                           /\ conns'[c].thread = conns[c].thread
                           /\ conns'[c].state = conns[c].state
                           /\ conns'[c].owed = conns[c].owed
                           /\ conns'[c].late = conns[c].late
                           /\ ~ conns'[c].held => ~ conns[c].held \/ conns[c].state = "Closed"
    BY <1>1, <1>2, ZenonT(40) DEF Conn
  <1>4. Clients' = Clients /\ conns' \in Seq(Conn) /\ Len(conns') = Len(conns)
    <2>1. conns' = [c \in 1..Len(conns) |-> conns'[c]] /\ Len(conns) \in Nat
      BY <1>1, <1>2
    <2>2. \A c \in 1..Len(conns) : conns'[c] \in Conn
      BY <1>2, <1>3
    <2> DEFINE m == Len(conns)
    <2> HIDE DEF m
    <2>3. m \in Nat /\ conns' = [c \in 1..m |-> conns'[c]] /\ \A c \in 1..m : conns'[c] \in Conn
      BY <2>1, <2>2 DEF m
    <2>4. conns' \in Seq(Conn) /\ Len(conns') = m /\ DOMAIN conns' = 1..m
      BY <2>3
    <2> QED BY <1>2, <2>4 DEF Clients, m
  <1>5. \A t : Of(t)' = Of(t)
    BY <1>3, <1>4, OfKept
  <1>6. TypeOK'
    BY <1>0, <1>1, <1>4, ZenonT(40) DEF TypeOK, Conn
  <1>7. StartUpInv'
    BY <1>0, <1>1, StartUpKept
  <1>8. ConnsInv'
    BY <1>0, <1>1, <1>3, <1>4, ZenonT(40) DEF ConnsInv, Fd
  <1>9. EvenInv'
    BY <1>0, <1>1, <1>5, EvenKept
  <1>10. LoopsInv'
    BY <1>0, <1>1, <1>4, <1>5, ZenonT(40) DEF LoopsInv, Watched, Fd, Callbk, Task, Event
  <1>11. QueuesInv'
    BY <1>0, <1>1, <1>5 DEF QueuesInv, IsInjective
  <1>12. LifeInv'
    BY <1>0, <1>1, <1>3, <1>4, LifeKept
  <1> QED BY <1>6, <1>7, <1>8, <1>9, <1>10, <1>11, <1>12 DEF ServerInv

(* The process ends. *)
LEMMA CrashKeeps ==
    ASSUME ServerInv, Crash, main \in {"loop", "onAccept"}
    PROVE  ServerInv'
  <1>0. TypeOK /\ StartUpInv /\ ConnsInv /\ EvenInv /\ LoopsInv /\ QueuesInv /\ LifeInv
    BY DEF ServerInv
  <1>1. /\ main' = "crashed" /\ conns' = << >> /\ events' = << >>
        /\ peer' = [c \in 1..MaxClients |-> "up"]
        /\ loops' = [t \in IO |-> NewLoop]
        /\ pending' = [t \in IO |-> << >>] /\ batch' = [t \in IO |-> << >>]
        /\ clearing' = [t \in IO |-> None]
        /\ UNCHANGED <<size, io, initSem, startSem, index, group>>
    BY DEF Crash, startUp
  <1>2. /\ Clients' = {} /\ Len(conns') = 0 /\ conns' \in Seq(Conn) /\ DOMAIN events' = {}
        /\ MaxClients \in Nat
    BY <1>1, ServerAssumption DEF Clients, ServerAssumption
  <1>3. TypeOK'
    <2>1. None \in {None} \cup Clients' /\ \A S : << >> \in Seq(S)
      OBVIOUS
    <2>2. Len(conns') <= MaxClients
      BY <1>2
    <2> QED BY <1>0, <1>1, <1>2, <2>1, <2>2 DEF TypeOK, Stage, Conn
  <1>4. StartUpInv'
    BY <1>0, <1>1, StartUpKept
  <1>5. ConnsInv'
    BY <1>1, <1>2 DEF ConnsInv
  <1>6. EvenInv'
    BY <1>0, <1>1 DEF EvenInv
  <1>7. LoopsInv'
    <2>1. NewLoop.listen_fds = {} /\ NewLoop.epoll = [fd \in {} |-> {}]
      BY DEF NewLoop
    <2>2. DOMAIN NewLoop.epoll = {}
      BY <2>1
    <2>3. \A t \in IO : loops'[t] = NewLoop
      BY <1>1
    <2>4. \A t \in IO : loops'[t].listen_fds = {} /\ Watched(loops'[t]) = {}
      BY <2>1, <2>2, <2>3 DEF Watched
    <2>5. DOMAIN loops' = IO /\ \A S : events' \in Seq(S)
      BY <1>1
    <2> QED BY <1>2, <2>4, <2>5, Zenon DEF LoopsInv
  <1>8. QueuesInv'
    BY <1>1 DEF QueuesInv, IsInjective
  <1>9. LifeInv'
    BY <1>2 DEF LifeInv
  <1> QED BY <1>3, <1>4, <1>5, <1>6, <1>7, <1>8, <1>9 DEF ServerInv

LEMMA OnAcceptKeeps ==
    ASSUME ServerInv, OnAccept
    PROVE  ServerInv'
  <1>0. TypeOK /\ StartUpInv /\ ConnsInv /\ EvenInv /\ LoopsInv /\ QueuesInv /\ LifeInv
    BY DEF ServerInv
  <1>a. PICK c : c = Len(conns) + 1
    OBVIOUS
  <1>b. PICK t : t = NextIndex(index) + 1
    OBVIOUS
  <1> DEFINE task == Callbk(c, "add")
             new == [thread |-> t, state |-> "NotConnected", held |-> TRUE, deaf |-> FALSE,
                     owed |-> FALSE, late |-> FALSE]
             event == Listen(NewFdEvent, "IN", Callbk(c, "onRead"))
  <1>1. /\ main = "loop" /\ main' = "onAccept" /\ size > 0 /\ Len(conns) < MaxClients
        /\ index' = t
        /\ conns' = Append(conns, new)
        /\ group' = GroupSize(group, Fd(c))
        /\ events' = Append(events, event)
        /\ pending' = [pending EXCEPT ![t] = Append(@, task)]
        /\ UNCHANGED <<size, io, initSem, startSem, peer, loops, batch, clearing>>
    BY <1>a, <1>b DEF OnAccept
  <1>2. /\ conns \in Seq(Conn) /\ Clients = 1..Len(conns) /\ Len(conns) \in Nat
        /\ \A d \in Clients : conns[d] \in Conn /\ d \in Nat /\ d >= 1
    BY <1>0, ConnsSeq
  <1>3. /\ c \in 1..MaxClients /\ c \in Nat /\ c >= 1 /\ c \notin Clients
    BY <1>1, <1>2, <1>a, ServerAssumption DEF ServerAssumption
  <1>4. size \in Nat /\ index \in Nat /\ index <= size /\ size <= Threads /\ group \in Nat
    BY <1>0, ServerAssumption DEF TypeOK, EvenInv, ServerAssumption
  <1>5. /\ t \in 1..size /\ t \in IO
        /\ index = size => t = 1
        /\ index # size => t = index + 1
    BY <1>1, <1>4, <1>b, ServerAssumption DEF NextIndex, IO, ServerAssumption
  <1>6. task \in Task /\ task.conn = c /\ task.run = "add" /\ new \in Conn /\ new.thread = t
    BY <1>3, <1>5 DEF Task, Callbk, Conn
  <1>7. /\ event.mask = {"IN"} /\ event.read = Callbk(c, "onRead") /\ event.write = NoCallback
        /\ event \in Event
    BY <1>3 DEF Event, Listen, NewFdEvent, Callbk, Task
  <1> HIDE DEF task, new, event
  <1>8. /\ conns' \in Seq(Conn) /\ Len(conns') = c /\ Clients' = Clients \cup {c}
        /\ \A d \in Clients : conns'[d] = conns[d]
        /\ conns'[c] = new
    <2>1. /\ conns' \in Seq(Conn) /\ Len(conns') = Len(conns) + 1
          /\ \A d \in 1..Len(conns) : conns'[d] = conns[d]
          /\ conns'[Len(conns) + 1] = new
      BY <1>1, <1>2, <1>6, AppendProperties
    <2>2. Clients' = 1..(Len(conns) + 1)
      BY <2>1, LenProperties DEF Clients
    <2>3. 1..(Len(conns) + 1) = 1..Len(conns) \cup {Len(conns) + 1}
      BY <1>2
    <2> QED BY <1>2, <1>a, <2>1, <2>2, <2>3
  <1>9. \A u : u # t => Of(u)' = Of(u)
    BY <1>3, <1>6, <1>8 DEF Of
  <1>10. Of(t)' = Of(t) \cup {c} /\ c \notin Of(t)
    BY <1>3, <1>6, <1>8 DEF Of
  <1>11. /\ pending' \in [IO -> Seq(Task)] /\ pending'[t] = Append(pending[t], task)
         /\ \A u \in IO : u # t => pending'[u] = pending[u]
         /\ pending[t] \in Seq(Task)
    <2>1. pending \in [IO -> Seq(Task)]
      BY <1>0 DEF TypeOK
    <2>2. pending[t] \in Seq(Task)
      BY <1>5, <2>1
    <2>3. Append(pending[t], task) \in Seq(Task)
      BY <1>6, <2>2, AppendProperties
    <2> QED BY <1>1, <1>5, <2>1, <2>2, <2>3
  <1>12. /\ events' \in Seq(Event)
         /\ DOMAIN events' = Clients'
         /\ \A d \in Clients : events'[d] = events[d]
         /\ events'[c] = event
    <2>1. events \in Seq(Event) /\ DOMAIN events = Clients /\ event \in Event
      BY <1>0, <1>7 DEF LoopsInv, TypeOK
    <2>2. DOMAIN events = 1..Len(events) /\ Len(events) \in Nat
      BY <2>1, LenProperties
    <2>3. Len(events) = Len(conns)
      BY <1>2, <2>1, <2>2
    <2>4. /\ events' \in Seq(Event) /\ Len(events') = Len(events) + 1
          /\ \A d \in 1..Len(events) : events'[d] = events[d]
          /\ events'[Len(events) + 1] = event
      BY <1>1, <2>1, AppendProperties
    <2>5. DOMAIN events' = 1..(Len(conns) + 1)
      BY <2>3, <2>4, LenProperties
    <2>6. 1..(Len(conns) + 1) = 1..Len(conns) \cup {Len(conns) + 1}
      BY <1>2
    <2> QED BY <1>2, <1>8, <2>3, <2>4, <2>5, <2>6, <1>a
  <1>13. /\ Fd(c) \in Nat /\ Fd(c) >= 2 /\ \A d \in Clients : Fd(d) \in Nat /\ Fd(d) # Fd(c)
    BY <1>2, <1>3, FdInjective
  <1>14. group' \in Nat /\ group' >= group /\ Fd(c) < group'
    BY <1>1, <1>4, <1>13, GroupGrows
  <1>15. TypeOK'
    <2>1. clearing \in [IO -> {None} \cup Clients']
      BY <1>0, <1>8 DEF TypeOK
    <2>2. index' \in 0..Threads
      BY <1>1, <1>5 DEF IO
    <2>3. Len(conns') <= MaxClients
      BY <1>3, <1>8, ServerAssumption DEF ServerAssumption
    <2> QED BY <1>0, <1>1, <1>8, <1>11, <1>12, <1>14, <2>1, <2>2, <2>3 DEF TypeOK, Stage, Conn
  <1>16. StartUpInv'
    BY <1>0, <1>1, StartUpKept
  <1>17. ConnsInv'
    <2>1. \A d \in Clients : Fd(d) < group'
      <3>1. \A d \in Clients : Fd(d) < group
        BY <1>0 DEF ConnsInv
      <3> QED BY <1>4, <1>13, <1>14, <3>1
    <2>2. \A d \in Clients' : conns'[d].thread \in 1..size' /\ Fd(d) < group'
      BY <1>0, <1>1, <1>5, <1>6, <1>8, <1>14, <2>1 DEF ConnsInv
    <2>3. new.held /\ new.state = "NotConnected"
      BY DEF new
    <2>4. \A d \in Clients' : ~ conns'[d].held => conns'[d].state = "Closed"
      BY <1>0, <1>8, <2>3 DEF ConnsInv
    <2> QED BY <1>1, <1>8, <2>2, <2>3, <2>4 DEF ConnsInv, Fd
  <1>18. EvenInv'
    <2>1. PICK q \in Nat : \A u \in 1..size :
            IsFiniteSet(Of(u)) /\ Cardinality(Of(u)) = IF u <= index THEN q + 1 ELSE q
      BY <1>0, <1>1 DEF EvenInv
    <2>2. IsFiniteSet(Of(t)') /\ Cardinality(Of(t)') = Cardinality(Of(t)) + 1
      <3>1. IsFiniteSet(Of(t))
        BY <1>5, <2>1
      <3> QED BY <1>10, <3>1, FS_AddElement
    <2>3. \A u \in 1..size : /\ IsFiniteSet(Of(u)')
                             /\ u # t => Cardinality(Of(u)') = IF u <= index THEN q + 1 ELSE q
                             /\ u = t => Cardinality(Of(u)') = (IF u <= index THEN q + 1 ELSE q) + 1
      BY <1>5, <1>9, <2>1, <2>2
    <2>4. \E p \in Nat : \A u \in 1..size :
            IsFiniteSet(Of(u)') /\ Cardinality(Of(u)') = IF u <= t THEN p + 1 ELSE p
      <3>1. CASE index = size
        <4>1. \A u \in 1..size : /\ IsFiniteSet(Of(u)')
                                 /\ Cardinality(Of(u)') = IF u <= t THEN (q + 1) + 1 ELSE q + 1
          BY <1>4, <1>5, <2>3, <3>1
        <4> QED BY <4>1
      <3>2. CASE index # size
        <4>1. \A u \in 1..size : /\ IsFiniteSet(Of(u)')
                                 /\ Cardinality(Of(u)') = IF u <= t THEN q + 1 ELSE q
          BY <1>4, <1>5, <2>3, <3>2
        <4> QED BY <4>1
      <3> QED BY <3>1, <3>2
    <2>5. t <= size
      BY <1>4, <1>5
    <2> QED BY <1>1, <2>4, <2>5 DEF EvenInv
  <1>19. \A u \in IO : \A fd \in Watched(loops[u]) : fd # Fd(c)
    BY <1>0, <1>13 DEF LoopsInv, Of
  <1>20. LoopsInv'
    <2>1. \A u \in IO : Of(u) \subseteq Of(u)'
      BY <1>9, <1>10
    <2>2. \A u \in IO : /\ Watched(loops'[u]) = loops'[u].listen_fds
                        /\ \A fd \in Watched(loops'[u]) : \E d \in Of(u)' : fd = Fd(d)
      <3>1. loops' = loops
        BY <1>1
      <3> QED BY <1>0, <2>1, <3>1 DEF LoopsInv
    <2>3. \A d \in Clients' :
            /\ events'[d].read = Callbk(d, "onRead")
            /\ \/ events'[d].write = Callbk(d, "onWrite")
               \/ /\ "OUT" \notin events'[d].mask
                  /\ \A u \in IO : Fd(d) \in Watched(loops'[u]) => "OUT" \notin loops'[u].epoll[Fd(d)]
      <3>1. loops' = loops
        BY <1>1
      <3>2. \A d \in Clients :
              /\ events'[d].read = Callbk(d, "onRead")
              /\ \/ events'[d].write = Callbk(d, "onWrite")
                 \/ /\ "OUT" \notin events'[d].mask
                    /\ \A u \in IO : Fd(d) \in Watched(loops'[u]) => "OUT" \notin loops'[u].epoll[Fd(d)]
        BY <1>0, <1>12, <3>1 DEF LoopsInv
      <3>3. "OUT" \notin event.mask /\ event.read = Callbk(c, "onRead")
        BY <1>7
      <3> QED BY <1>8, <1>12, <1>19, <3>1, <3>2, <3>3
    <2> QED BY <1>0, <1>1, <1>12, <2>2, <2>3 DEF LoopsInv, Watched, Fd, Callbk, Task, Event
  <1>21. \A u \in IO : /\ \A i \in DOMAIN pending[u] : pending[u][i].conn # c
                       /\ \A i \in DOMAIN batch[u] : batch[u][i].conn # c
                       /\ clearing[u] # c
    <2>1. \A u \in IO : c \notin Of(u) /\ c # None
      BY <1>3 DEF Of, None
    <2> QED BY <1>0, <2>1 DEF QueuesInv
  <1>22. QueuesInv'
    <2>1. /\ IsInjective(pending'[t])
          /\ \A i \in DOMAIN pending'[t] : pending'[t][i] = task \/ \E j \in DOMAIN pending[t] : pending'[t][i] = pending[t][j]
      <3>1. \A i \in DOMAIN pending[t] : pending[t][i] # task
        BY <1>5, <1>6, <1>21
      <3>2. IsInjective(pending[t])
        BY <1>0, <1>5 DEF QueuesInv
      <3> QED BY <1>6, <1>11, <3>1, <3>2, AppendTasks
    <2>2. \A u \in IO : Of(u) \subseteq Of(u)'
      BY <1>9, <1>10
    <2>3. \A i \in DOMAIN pending'[t] : pending'[t][i].run = "add" /\ pending'[t][i].conn \in Of(t)'
      BY <1>0, <1>5, <1>6, <1>10, <2>1, <2>2 DEF QueuesInv
    <2>4. \A u \in IO : /\ IsInjective(pending'[u])
                        /\ \A i \in DOMAIN pending'[u] : pending'[u][i].run = "add" /\ pending'[u][i].conn \in Of(u)'
      <3> TAKE u \in IO
      <3>1. CASE u = t
        BY <2>1, <2>3, <3>1
      <3>2. CASE u # t
        BY <1>0, <1>11, <2>2, <3>2 DEF QueuesInv
      <3> QED BY <3>1, <3>2
    <2>5. \A u \in IO : /\ IsInjective(batch'[u])
                        /\ \A i \in DOMAIN batch'[u] : batch'[u][i].conn \in Of(u)'
                        /\ clearing'[u] # None => clearing'[u] \in Of(u)'
      <3>1. batch' = batch /\ clearing' = clearing
        BY <1>1
      <3> QED BY <1>0, <2>2, <3>1 DEF QueuesInv
    <2> QED BY <2>4, <2>5 DEF QueuesInv, IsInjective
  <1>23. LifeInv'
    <2>1. \A d, run : In(pending'[t], d, run) <=> In(pending[t], d, run) \/ task = Callbk(d, run)
      BY <1>6, <1>11, InAppend
    <2>2. \A d \in Clients : task # Callbk(d, "add")
      BY <1>3, <1>6 DEF Callbk
    <2>3. \A d \in Clients : conns[d].thread \in IO
      BY <1>2 DEF Conn
    <2>4. \A d \in Clients : In(pending'[conns'[d].thread], d, "add") <=> In(pending[conns[d].thread], d, "add")
      BY <1>8, <1>11, <2>1, <2>2, <2>3
    <2>5. \A d \in Clients : (Registering(d)' <=> Registering(d)) /\ (Ended(d)' <=> Ended(d))
      <3>1. batch' = batch /\ clearing' = clearing
        BY <1>1
      <3> QED BY <1>8, <2>4, <3>1 DEF Registering, Ended, In, Callbk
    <2>6. ~ Ended(c)'
      <3>1. clearing'[conns'[c].thread] # c /\ conns'[c].state = "NotConnected"
        BY <1>1, <1>5, <1>6, <1>8, <1>21 DEF new
      <3> QED BY <3>1 DEF Ended
    <2>7. \A run : ~ In(batch[t], c, run)
      <3>1. \A run : Callbk(c, run).conn = c
        BY DEF Callbk
      <3> QED BY <1>5, <1>21, <3>1 DEF In
    <2>8. ASSUME NEW d \in Clients'
          PROVE  /\ Early(d)'
                 /\ Ended(d)' => Over(d)'
                 /\ clearing'[conns'[d].thread] = d => conns'[d].state = "Connected"
                 /\ conns'[d].late => conns'[d].state = "Closed"
      <3>0. batch' = batch /\ clearing' = clearing /\ loops' = loops
        BY <1>1
      <3>1. CASE d = c
        <4>1. conns'[c].thread = t /\ ~ conns'[c].owed /\ ~ conns'[c].late
          BY <1>6, <1>8 DEF new
        <4>2. Fd(c) \notin Watched(loops[t]) /\ clearing[t] # c
          BY <1>5, <1>19, <1>21
        <4>3. Early(c)'
          BY <2>6, <2>7, <3>0, <4>1, <4>2 DEF Early, In, Callbk, Watched, Fd
        <4> QED BY <2>6, <3>0, <3>1, <4>1, <4>2, <4>3
      <3>2. CASE d \in Clients
        <4>1. conns'[d] = conns[d] /\ events'[d] = events[d]
          BY <1>8, <1>12, <3>2
        <4>2. /\ Registering(d)' <=> Registering(d)
              /\ Ended(d)' <=> Ended(d)
              /\ In(pending'[conns[d].thread], d, "add") => In(pending[conns[d].thread], d, "add")
          BY <2>4, <2>5, <3>2, <4>1
        <4>3. /\ Early(d)
              /\ Ended(d) => Over(d)
              /\ clearing[conns[d].thread] = d => conns[d].state = "Connected"
              /\ conns[d].late => conns[d].state = "Closed"
          BY <1>0, <3>2 DEF LifeInv
        <4>4. Early(d) => Early(d)'
          BY <3>0, <4>1, <4>2, ZenonT(40) DEF Early, In, Callbk, Watched, Fd
        <4>5. Over(d) => Over(d)'
          BY <3>0, <4>1, ZenonT(40) DEF Over, In, Callbk, Watched, Fd
        <4> QED BY <3>0, <4>1, <4>2, <4>3, <4>4, <4>5
      <3> QED BY <1>8, <3>1, <3>2
    <2> QED BY <2>8 DEF LifeInv
  <1> QED BY <1>15, <1>16, <1>17, <1>18, <1>20, <1>22, <1>23 DEF ServerInv

-----------------------------------------------------------------------------
(* The loops. *)

(* The FdEvent of a connection is changed and its loop told. *)
LEMMA UpdateKeeps ==
    ASSUME TypeOK, LoopsInv, NEW t \in IO, NEW c \in Of(t), NEW e \in Event,
           e.read = Callbk(c, "onRead"),
           e.write = Callbk(c, "onWrite") \/ "OUT" \notin e.mask,
           Update(c, e), Clients' = Clients, \A u : Of(u)' = Of(u)
    PROVE  /\ LoopsInv' /\ DOMAIN events' = Clients' /\ events'[c] = e
           /\ \A d \in Clients : d # c => events'[d] = events[d]
           /\ Watched(loops'[t]) = Watched(loops[t]) \cup {Fd(c)}
           /\ loops'[t].epoll[Fd(c)] = e.mask
           /\ \A f \in Watched(loops[t]) : f # Fd(c) => loops'[t].epoll[f] = loops[t].epoll[f]
           /\ \A u \in IO : u # t => loops'[u] = loops[u]
  <1> DEFINE l == AddToEpoll(loops[t], Fd(c), e.mask)
  <1>1. c \in Clients /\ conns[c].thread = t
    BY DEF Of
  <1>2. DOMAIN loops = IO /\ events \in Seq(Event) /\ DOMAIN events = Clients
    BY DEF LoopsInv, Event, TypeOK
  <1>3. events' = [events EXCEPT ![c] = e] /\ loops' = [loops EXCEPT ![t] = l]
    BY <1>1 DEF Update
  <1>4. Watched(loops[t]) = loops[t].listen_fds
    BY DEF LoopsInv
  <1>5. /\ Watched(l) = l.listen_fds /\ Watched(l) = Watched(loops[t]) \cup {Fd(c)}
        /\ l.epoll[Fd(c)] = e.mask
        /\ \A f \in Watched(loops[t]) : f # Fd(c) => l.epoll[f] = loops[t].epoll[f]
    BY <1>4, LoopAdded
  <1> HIDE DEF l
  <1>6. DOMAIN loops' = IO /\ loops'[t] = l /\ \A u \in IO : u # t => loops'[u] = loops[u]
    BY <1>2, <1>3
  <1>7. /\ events' \in Seq(Event) /\ DOMAIN events' = Clients /\ events'[c] = e
        /\ \A d \in Clients : d # c => events'[d] = events[d]
    BY <1>1, <1>2, <1>3
  <1>8. Clients' = Clients /\ \A u : Of(u)' = Of(u)
    OBVIOUS
  <1>9. \A d \in Clients : d \in Nat
    BY ConnsSeq
  <1>10. \A d \in Clients : d # c => Fd(d) # Fd(c)
    BY <1>1, <1>9, FdInjective
  <1>11. \A u \in IO : u # t => Fd(c) \notin Watched(loops[u])
    <2> SUFFICES ASSUME NEW u \in IO, u # t, Fd(c) \in Watched(loops[u]) PROVE FALSE
      OBVIOUS
    <2>1. PICK d \in Of(u) : Fd(c) = Fd(d)
      BY DEF LoopsInv
    <2>2. d \in Clients /\ d # c
      BY <1>1 DEF Of
    <2> QED BY <1>10, <2>1, <2>2
  <1>12. \A u \in IO :
           /\ Watched(loops'[u]) = loops'[u].listen_fds
           /\ \A fd \in Watched(loops'[u]) : \E d \in Of(u)' : fd = Fd(d)
    <2> TAKE u \in IO
    <2>1. CASE u = t
      <3>1. \A fd \in Watched(loops[t]) : \E d \in Of(t) : fd = Fd(d)
        BY DEF LoopsInv
      <3>2. \A fd \in Watched(l) : \E d \in Of(t) : fd = Fd(d)
        BY <1>5, <3>1
      <3>3. Of(u)' = Of(t)
        BY <1>8, <2>1
      <3> QED BY <1>5, <1>6, <2>1, <3>2, <3>3
    <2>2. CASE u # t
      BY <1>6, <1>8, <2>2 DEF LoopsInv
    <2> QED BY <2>1, <2>2
  <1>13. \A d \in Clients' :
           /\ events'[d].read = Callbk(d, "onRead")
           /\ \/ events'[d].write = Callbk(d, "onWrite")
              \/ /\ "OUT" \notin events'[d].mask
                 /\ \A u \in IO : Fd(d) \in Watched(loops'[u]) => "OUT" \notin loops'[u].epoll[Fd(d)]
    <2>1. CASE e.write = Callbk(c, "onWrite")
      <3> SUFFICES ASSUME NEW d \in Clients, d # c
                   PROVE  /\ events'[d].read = Callbk(d, "onRead")
                          /\ \/ events'[d].write = Callbk(d, "onWrite")
                             \/ /\ "OUT" \notin events'[d].mask
                                /\ \A u \in IO : Fd(d) \in Watched(loops'[u]) => "OUT" \notin loops'[u].epoll[Fd(d)]
        BY <1>7, <1>8, <2>1
      <3> QED BY <1>5, <1>6, <1>7, <1>10 DEF LoopsInv
    <2>2. CASE "OUT" \notin e.mask
      <3>1. \A u \in IO : Fd(c) \in Watched(loops'[u]) => "OUT" \notin loops'[u].epoll[Fd(c)]
        BY <1>5, <1>6, <1>11, <2>2
      <3> SUFFICES ASSUME NEW d \in Clients, d # c
                   PROVE  /\ events'[d].read = Callbk(d, "onRead")
                          /\ \/ events'[d].write = Callbk(d, "onWrite")
                             \/ /\ "OUT" \notin events'[d].mask
                                /\ \A u \in IO : Fd(d) \in Watched(loops'[u]) => "OUT" \notin loops'[u].epoll[Fd(d)]
        BY <1>7, <1>8, <2>2, <3>1
      <3> QED BY <1>5, <1>6, <1>7, <1>10 DEF LoopsInv
    <2> QED BY <2>1, <2>2
  <1>14. LoopsInv'
    BY <1>6, <1>7, <1>12, <1>13 DEF LoopsInv, Event, Watched, Fd, Callbk, Task
  <1> QED BY <1>5, <1>6, <1>7, <1>8, <1>14

(* Numbers are taken out of a loop, and events out of the masks. *)
LEMMA CutKeeps ==
    ASSUME TypeOK, LoopsInv, NEW t \in IO, NEW fds,
           loops' = [loops EXCEPT ![t] = DeleteAll(@, fds)],
           events' \in Seq(Event), DOMAIN events' = Clients, Clients' = Clients,
           \A u : Of(u)' = Of(u),
           \A d \in Clients : /\ events'[d].read = events[d].read
                              /\ events'[d].write = events[d].write
                              /\ events'[d].mask \subseteq events[d].mask
    PROVE  /\ LoopsInv'
           /\ Watched(loops'[t]) = Watched(loops[t]) \ fds
           /\ \A f \in Watched(loops'[t]) : loops'[t].epoll[f] = loops[t].epoll[f]
           /\ \A u \in IO : u # t => loops'[u] = loops[u]
  <1> DEFINE l == DeleteAll(loops[t], fds)
  <1>1. DOMAIN loops = IO
    BY DEF LoopsInv
  <1>2. Watched(loops[t]) = loops[t].listen_fds
    BY DEF LoopsInv
  <1>3. /\ Watched(l) = l.listen_fds /\ Watched(l) = Watched(loops[t]) \ fds
        /\ \A f \in Watched(l) : l.epoll[f] = loops[t].epoll[f]
    BY <1>2, LoopCut
  <1> HIDE DEF l
  <1>4. DOMAIN loops' = IO /\ loops'[t] = l /\ \A u \in IO : u # t => loops'[u] = loops[u]
    BY <1>1 DEF l
  <1>5. \A u \in IO :
          /\ Watched(loops'[u]) = loops'[u].listen_fds
          /\ \A fd \in Watched(loops'[u]) : \E d \in Of(u)' : fd = Fd(d)
    <2> TAKE u \in IO
    <2>1. CASE u = t
      BY <1>3, <1>4, <2>1, ZenonT(40) DEF LoopsInv
    <2>2. CASE u # t
      BY <1>4, <2>2 DEF LoopsInv
    <2> QED BY <2>1, <2>2
  <1>6. \A u \in IO : \A f \in Watched(loops'[u]) :
          f \in Watched(loops[u]) /\ loops'[u].epoll[f] = loops[u].epoll[f]
    BY <1>3, <1>4
  <1>7. \A d \in Clients' :
          /\ events'[d].read = Callbk(d, "onRead")
          /\ \/ events'[d].write = Callbk(d, "onWrite")
             \/ /\ "OUT" \notin events'[d].mask
                /\ \A u \in IO : Fd(d) \in Watched(loops'[u]) => "OUT" \notin loops'[u].epoll[Fd(d)]
    BY <1>6 DEF LoopsInv
  <1>8. LoopsInv'
    BY <1>4, <1>5, <1>7 DEF LoopsInv, Event, Watched, Fd, Callbk, Task
  <1> QED BY <1>3, <1>4, <1>8

-----------------------------------------------------------------------------
(* The steps of an IO thread and of a client. *)

LEMMA MakeLoopKeeps ==
    ASSUME ServerInv, NEW t \in IO, MakeLoop(t)
    PROVE  ServerInv'
  <1>0. TypeOK /\ StartUpInv /\ ConnsInv /\ EvenInv /\ LoopsInv /\ QueuesInv /\ LifeInv
    BY DEF ServerInv
  <1>1. /\ io[t] = "created" /\ io' = [io EXCEPT ![t] = "made"]
        /\ initSem' = [initSem EXCEPT ![t] = @ + 1]
        /\ UNCHANGED <<main, size, startSem, index, shared>>
        /\ UNCHANGED <<conns, peer, group, events, loops, pending, batch, clearing>>
    BY DEF MakeLoop, shared
  <1>2. PICK k \in 0..Threads :
          /\ Created = 1..k
          /\ main \in {"begin", "accepting thread"} => k = 0
          /\ main = "threads" => k < size
          /\ main = "wait" => k \in 1..size
          /\ main \in {"start", "loop", "onAccept"} => k = size
          /\ \A u \in 1..k : io[u] = "created" => main = "wait" /\ u = k
          /\ \A u \in IO : io[u] \in {"none", "created"} => initSem[u] = 0
          /\ \A u \in IO : main \notin {"loop", "onAccept", "crashed"} => startSem[u] = 0
    BY <1>0 DEF StartUpInv
  <1>3. /\ io \in [IO -> {"none", "created", "made", "looping", "stuck"}] /\ initSem \in [IO -> 0..1]
        /\ initSem[t] = 0
    BY <1>0, <1>1, <1>2 DEF TypeOK
  <1>4. /\ io' \in [IO -> {"none", "created", "made", "looping", "stuck"}] /\ initSem' \in [IO -> 0..1]
        /\ io'[t] = "made"
        /\ \A u \in IO : u # t => io'[u] = io[u] /\ initSem'[u] = initSem[u]
    BY <1>1, <1>3
  <1>5. TypeOK'
    BY <1>0, <1>1, <1>4 DEF TypeOK, Clients
  <1>6. Created' = 1..k
    <2>1. Created' = Created
      BY <1>1, <1>4 DEF Created
    <2> QED BY <1>2, <2>1
  <1>7. StartUpInv'
    <2>1. \A u \in IO : io'[u] \in {"none", "created"} => initSem'[u] = 0
      BY <1>2, <1>4
    <2>2. \A u \in 1..k : io'[u] = "created" => main' = "wait" /\ u = k
      <3>1. \A u \in 1..k : u \in IO
        BY <1>2 DEF Created
      <3> QED BY <1>1, <1>2, <1>4, <3>1
    <2> HIDE DEF Created
    <2> QED BY <1>1, <1>2, <1>6, <2>1, <2>2 DEF StartUpInv
  <1>8. ConnsInv'
    BY <1>0, <1>1 DEF ConnsInv, Clients, Fd
  <1>9. EvenInv'
    BY <1>0, <1>1, EvenKept DEF Of, Clients
  <1>10. LoopsInv' /\ QueuesInv' /\ LifeInv'
    BY <1>0, <1>1, QueuesKept
  <1> QED BY <1>5, <1>7, <1>8, <1>9, <1>10 DEF ServerInv

LEMMA PeerKeeps ==
    ASSUME ServerInv, NEW c \in 1..MaxClients, Peer(c)
    PROVE  ServerInv'
  <1>0. TypeOK /\ StartUpInv /\ ConnsInv /\ EvenInv /\ LoopsInv /\ QueuesInv /\ LifeInv
    BY DEF ServerInv
  <1>1. /\ UNCHANGED <<main, size, io, initSem, startSem, index>>
        /\ UNCHANGED <<conns, group, events, loops, pending, batch, clearing>>
    BY DEF Peer, startUp
  <1>2. peer' \in [1..MaxClients -> {"up", "data", "eof", "reset"}]
    BY <1>0 DEF Peer, TypeOK
  <1>3. TypeOK'
    BY <1>0, <1>1, <1>2 DEF TypeOK, Clients
  <1>4. StartUpInv'
    BY <1>0, <1>1, StartUpKept
  <1>5. ConnsInv'
    BY <1>0, <1>1 DEF ConnsInv, Clients, Fd
  <1>6. EvenInv'
    BY <1>0, <1>1, EvenKept DEF Of, Clients
  <1>7. LoopsInv' /\ QueuesInv' /\ LifeInv'
    BY <1>0, <1>1, QueuesKept
  <1> QED BY <1>3, <1>4, <1>5, <1>6, <1>7 DEF ServerInv

LEMMA ClosedKeeps ==
    ASSUME ServerInv, NEW t \in IO, Closed(t)
    PROVE  ServerInv'
  <1>0. TypeOK /\ StartUpInv /\ ConnsInv /\ EvenInv /\ LoopsInv /\ QueuesInv /\ LifeInv
    BY DEF ServerInv
  <1>a. PICK c : c = clearing[t]
    OBVIOUS
  <1>1. /\ c # None
        /\ conns' = [conns EXCEPT ![c].state = "Closed"]
        /\ clearing' = [clearing EXCEPT ![t] = None]
        /\ UNCHANGED <<main, size, io, initSem, startSem, index>>
        /\ UNCHANGED <<peer, group, events, loops, pending, batch>>
    BY <1>a DEF Closed, startUp
  <1>2. /\ conns \in Seq(Conn) /\ Clients = 1..Len(conns) /\ Len(conns) \in Nat
        /\ \A d \in Clients : conns[d] \in Conn /\ d \in Nat /\ d >= 1
    BY <1>0, ConnsSeq
  <1>3. c \in Clients /\ conns[c].thread = t
    BY <1>0, <1>1, <1>a DEF QueuesInv, Of
  <1>4. conns[c].state = "Connected" /\ Ended(c)
    BY <1>0, <1>3, <1>a DEF LifeInv, Ended
  <1>5. /\ Clients' = Clients /\ conns' \in Seq(Conn) /\ Len(conns') = Len(conns)
        /\ \A d \in Clients : /\ conns'[d].thread = conns[d].thread
                              /\ conns'[d].held = conns[d].held
                              /\ conns'[d].owed = conns[d].owed
                              /\ conns'[d].late = conns[d].late
                              /\ d # c => conns'[d] = conns[d]
        /\ conns'[c].state = "Closed"
    <2>1. PICK x : x = [conns[c] EXCEPT !.state = "Closed"]
      OBVIOUS
    <2>2. /\ x \in Conn /\ x.thread = conns[c].thread /\ x.held = conns[c].held
          /\ x.owed = conns[c].owed /\ x.late = conns[c].late /\ x.state = "Closed"
      <3>1. conns[c] \in Conn
        BY <1>2, <1>3
      <3> QED BY <2>1, <3>1 DEF Conn
    <2>3. conns' = [conns EXCEPT ![c] = x]
      BY <1>1, <2>1
    <2>4. /\ conns' \in Seq(Conn) /\ Len(conns') = Len(conns) /\ DOMAIN conns' = DOMAIN conns
          /\ conns'[c] = x /\ \A d \in Clients : d # c => conns'[d] = conns[d]
      BY <1>2, <1>3, <2>2, <2>3
    <2> QED BY <2>2, <2>4 DEF Clients
  <1>6. clearing \in [IO -> {None} \cup Clients]
    BY <1>0 DEF TypeOK
  <1>7. clearing'[t] = None /\ \A u \in IO : u # t => clearing'[u] = clearing[u]
    BY <1>1, <1>6
  <1>8. \A u : Of(u)' = Of(u)
    BY <1>5, OfKept
  <1>9. TypeOK'
    BY <1>0, <1>1, <1>5, <1>6 DEF TypeOK, Conn
  <1>10. StartUpInv'
    BY <1>0, <1>1, StartUpKept
  <1>11. ConnsInv'
    <2>1. main' = "onAccept" => Clients' # {} /\ conns'[Len(conns')].state = "NotConnected"
      <3>1. main = "onAccept" => Len(conns) \in Clients /\ Len(conns) # c
        BY <1>0, <1>2, <1>4 DEF ConnsInv
      <3> QED BY <1>0, <1>1, <1>5, <3>1 DEF ConnsInv
    <2> QED BY <1>0, <1>1, <1>5, <2>1 DEF ConnsInv, Fd
  <1>12. EvenInv'
    BY <1>0, <1>1, <1>8, EvenKept
  <1>13. LoopsInv'
    BY <1>0, <1>1, <1>5, <1>8 DEF LoopsInv, Watched, Fd, Callbk, Task, Event
  <1>14. QueuesInv'
    BY <1>0, <1>1, <1>7, <1>8 DEF QueuesInv, IsInjective
  <1>15. LifeInv'
    <2>1. \A d \in Clients : conns[d].thread \in IO /\ d # None
      BY <1>2 DEF Conn, None
    <2>2. \A d \in Clients : (Registering(d)' <=> Registering(d)) /\ (Ended(d)' => Ended(d))
      <3>1. \A d \in Clients : Registering(d)' <=> Registering(d)
        BY <1>1, <1>5 DEF Registering, In, Callbk
      <3>2. ASSUME NEW d \in Clients, Ended(d)' PROVE Ended(d)
        <4>1. clearing'[conns[d].thread] = d \/ conns'[d].state = "Closed"
          BY <1>5, <3>2 DEF Ended
        <4>2. clearing'[conns[d].thread] = d => clearing[conns[d].thread] = d
          BY <1>7, <2>1
        <4>3. d # c => conns'[d] = conns[d]
          BY <1>5
        <4> QED BY <1>4, <4>1, <4>2, <4>3 DEF Ended
      <3> QED BY <3>1, <3>2
    <2>3. ASSUME NEW d \in Clients, clearing'[conns[d].thread] = d
          PROVE  conns'[d].state = "Connected"
      <3>1. conns[d].thread # t /\ conns[d].thread \in IO
        BY <1>7, <2>1, <2>3
      <3>2. d # c /\ clearing[conns[d].thread] = d
        BY <1>3, <1>7, <2>3, <3>1
      <3> QED BY <1>0, <1>5, <3>2 DEF LifeInv
    <2>4. ASSUME NEW d \in Clients'
          PROVE  /\ Early(d)'
                 /\ Ended(d)' => Over(d)'
                 /\ clearing'[conns'[d].thread] = d => conns'[d].state = "Connected"
                 /\ conns'[d].late => conns'[d].state = "Closed"
      <3>1. d \in Clients /\ conns'[d].thread = conns[d].thread
        BY <1>5
      <3>2. Early(d) => Early(d)'
        BY <1>1, <1>5, <2>2, <3>1, ZenonT(40) DEF Early, In, Callbk, Watched, Fd
      <3>3. Over(d) => Over(d)'
        BY <1>1, <1>5, <3>1, ZenonT(40) DEF Over, In, Callbk, Watched, Fd
      <3>4. Early(d) /\ (Ended(d) => Over(d)) /\ (conns[d].late => conns[d].state = "Closed")
        BY <1>0, <3>1 DEF LifeInv
      <3>5. conns'[d].late => conns'[d].state = "Closed"
        BY <1>5, <3>1, <3>4
      <3> QED BY <2>2, <2>3, <3>1, <3>2, <3>3, <3>4, <3>5
    <2> QED BY <2>4 DEF LifeInv
  <1> QED BY <1>9, <1>10, <1>11, <1>12, <1>13, <1>14, <1>15 DEF ServerInv

LEMMA StartLoopKeeps ==
    ASSUME ServerInv, NEW t \in IO, StartLoop(t)
    PROVE  ServerInv'
  <1>0. TypeOK /\ StartUpInv /\ ConnsInv /\ EvenInv /\ LoopsInv /\ QueuesInv /\ LifeInv
    BY DEF ServerInv
  <1>1. /\ io[t] = "made" /\ startSem[t] > 0
        /\ startSem' = [startSem EXCEPT ![t] = @ - 1]
        /\ io' = [io EXCEPT ![t] = "looping"]
        /\ batch' = [batch EXCEPT ![t] = pending[t]]
        /\ pending' = [pending EXCEPT ![t] = << >>]
        /\ UNCHANGED <<main, size, initSem, index, conns, peer, group, events, loops, clearing>>
    BY DEF StartLoop
  <1>2. /\ io \in [IO -> {"none", "created", "made", "looping", "stuck"}] /\ startSem \in [IO -> 0..1]
        /\ pending \in [IO -> Seq(Task)] /\ batch \in [IO -> Seq(Task)]
    BY <1>0 DEF TypeOK
  <1>3. /\ io' \in [IO -> {"none", "created", "made", "looping", "stuck"}] /\ startSem' \in [IO -> 0..1]
        /\ io'[t] = "looping"
        /\ \A u \in IO : u # t => io'[u] = io[u] /\ startSem'[u] = startSem[u]
    <2>1. startSem[t] - 1 \in 0..1
      BY <1>1, <1>2
    <2> QED BY <1>1, <1>2, <2>1
  <1>4. /\ pending' \in [IO -> Seq(Task)] /\ batch' \in [IO -> Seq(Task)]
        /\ batch'[t] = pending[t] /\ pending'[t] = << >>
        /\ \A u \in IO : u # t => batch'[u] = batch[u] /\ pending'[u] = pending[u]
    <2>1. << >> \in Seq(Task)
      OBVIOUS
    <2> QED BY <1>1, <1>2, <2>1
  <1>5. Clients' = Clients /\ \A u : Of(u)' = Of(u)
    BY <1>1, OfKept DEF Clients
  <1>6. TypeOK'
    BY <1>0, <1>1, <1>3, <1>4, <1>5 DEF TypeOK
  <1>7. StartUpInv'
    <2>1. PICK k \in 0..Threads :
            /\ Created = 1..k
            /\ main \in {"begin", "accepting thread"} => k = 0
            /\ main = "threads" => k < size
            /\ main = "wait" => k \in 1..size
            /\ main \in {"start", "loop", "onAccept"} => k = size
            /\ \A u \in 1..k : io[u] = "created" => main = "wait" /\ u = k
            /\ \A u \in IO : io[u] \in {"none", "created"} => initSem[u] = 0
            /\ \A u \in IO : main \notin {"loop", "onAccept", "crashed"} => startSem[u] = 0
      BY <1>0 DEF StartUpInv
    <2>2. Created' = 1..k
      <3>1. Created' = Created
        BY <1>1, <1>3 DEF Created
      <3> QED BY <2>1, <3>1
    <2>3. \A u \in IO : io'[u] \in {"none", "created"} => initSem'[u] = 0
      BY <1>1, <1>3, <2>1
    <2>4. \A u \in 1..k : io'[u] = "created" => main' = "wait" /\ u = k
      <3>1. \A u \in 1..k : u \in IO
        BY <2>1 DEF Created
      <3> QED BY <1>1, <1>3, <2>1, <3>1
    <2>5. main \in {"loop", "onAccept", "crashed"}
      <3>1. main \notin {"loop", "onAccept", "crashed"} => startSem[t] = 0
        BY <2>1
      <3> QED BY <1>1, <3>1
    <2> HIDE DEF Created
    <2> QED BY <1>1, <2>1, <2>2, <2>3, <2>4, <2>5 DEF StartUpInv
  <1>8. ConnsInv'
    BY <1>0, <1>1 DEF ConnsInv, Clients, Fd
  <1>9. EvenInv'
    BY <1>0, <1>1, <1>5, EvenKept
  <1>10. LoopsInv'
    BY <1>0, <1>1 DEF LoopsInv, Of, Clients, Watched, Fd, Callbk, Task, Event
  <1>11. QueuesInv'
    <2>1. /\ IsInjective(batch'[t]) /\ IsInjective(pending'[t])
          /\ DOMAIN pending'[t] = {}
          /\ \A i \in DOMAIN batch'[t] : batch'[t][i].conn \in Of(t)
      BY <1>0, <1>4 DEF QueuesInv, IsInjective
    <2>2. \A u \in IO :
            /\ IsInjective(pending'[u]) /\ IsInjective(batch'[u])
            /\ \A i \in DOMAIN pending'[u] : pending'[u][i].run = "add" /\ pending'[u][i].conn \in Of(u)
            /\ \A i \in DOMAIN batch'[u] : batch'[u][i].conn \in Of(u)
      <3> TAKE u \in IO
      <3>1. CASE u = t
        BY <2>1, <3>1
      <3>2. CASE u # t
        BY <1>0, <1>4, <3>2 DEF QueuesInv
      <3> QED BY <3>1, <3>2
    <2>3. \A u \in IO : clearing'[u] # None => clearing'[u] \in Of(u)
      BY <1>0, <1>1 DEF QueuesInv
    <2> QED BY <1>5, <2>2, <2>3 DEF QueuesInv, IsInjective
  <1>12. LifeInv'
    <2>1. ASSUME NEW c \in Clients
          PROVE  /\ \A run : In(batch'[conns[c].thread], c, run) =>
                      \/ In(batch[conns[c].thread], c, run)
                      \/ run = "add" /\ In(pending[conns[c].thread], c, run)
                 /\ In(pending'[conns[c].thread], c, "add") => /\ In(pending[conns[c].thread], c, "add")
                                                              /\ conns[c].thread # t
      <3>1. conns[c].thread \in IO
        BY <1>0, ConnsSeq DEF Conn
      <3>2. CASE conns[c].thread = t
        <4>1. \A run : ~ In(pending'[t], c, run)
          BY <1>4 DEF In
        <4>2. \A run : In(batch'[t], c, run) => run = "add" /\ In(pending[t], c, "add")
          BY <1>0, <1>4 DEF QueuesInv, In, Callbk
        <4> QED BY <3>2, <4>1, <4>2
      <3>3. CASE conns[c].thread # t
        BY <1>4, <3>1, <3>3
      <3> QED BY <3>2, <3>3
    <2>2. ASSUME NEW c \in Clients
          PROVE  (Registering(c)' => Registering(c)) /\ (Ended(c)' <=> Ended(c))
      BY <1>1, <2>1 DEF Registering, Ended, In, Callbk
    <2>3. ASSUME NEW c \in Clients
          PROVE  In(pending'[conns[c].thread], c, "add") => ~ In(batch'[conns[c].thread], c, "add")
      <3>1. conns[c].thread \in IO
        BY <1>0, ConnsSeq DEF Conn
      <3>2. Early(c)
        BY <1>0 DEF LifeInv
      <3> QED BY <1>4, <2>1, <3>1, <3>2 DEF Early
    <2>4. ASSUME NEW c \in Clients
          PROVE  \A run \in {"onRead", "onWrite"} :
                   In(batch'[conns[c].thread], c, run) => In(batch[conns[c].thread], c, run)
      BY <2>1
    <2>5. ASSUME NEW c \in Clients
          PROVE  (Early(c) => Early(c)') /\ (Over(c) => Over(c)')
      <3>1. Early(c) => Early(c)'
        BY <1>1, <2>2, <2>3, <2>4, ZenonT(40) DEF Early, In, Callbk, Watched, Fd
      <3>2. Over(c) => Over(c)'
        BY <1>1, <2>4, ZenonT(40) DEF Over, In, Callbk, Watched, Fd
      <3> QED BY <3>1, <3>2
    <2> QED BY <1>0, <1>1, <1>5, <2>2, <2>5 DEF LifeInv
  <1> QED BY <1>6, <1>7, <1>8, <1>9, <1>10, <1>11, <1>12 DEF ServerInv

(* A loop takes its next task. *)
LEMMA TakeTask ==
    ASSUME TypeOK, QueuesInv, NEW t \in IO, batch[t] # << >>,
           batch' = [batch EXCEPT ![t] = Tail(@)], NEW task, task = Head(batch[t])
    PROVE  /\ task \in Task /\ task = Callbk(task.conn, task.run)
           /\ task.conn \in Of(t) /\ In(batch[t], task.conn, task.run)
           /\ batch' \in [IO -> Seq(Task)] /\ IsInjective(batch'[t])
           /\ \A i \in DOMAIN batch'[t] : batch'[t][i].conn \in Of(t)
           /\ \A d, r : In(batch'[t], d, r) => In(batch[t], d, r) /\ Callbk(d, r) # task
           /\ \A u \in IO : u # t => batch'[u] = batch[u]
  <1>1. batch \in [IO -> Seq(Task)]
    BY DEF TypeOK
  <1> DEFINE s == batch[t]
  <1>2. s \in Seq(Task) /\ s # << >> /\ IsInjective(s)
    BY <1>1 DEF QueuesInv
  <1> HIDE DEF s
  <1>3. /\ Tail(s) \in Seq(Task) /\ IsInjective(Tail(s))
        /\ Head(s) \in Task
        /\ \E j \in DOMAIN s : s[j] = Head(s)
        /\ \A i \in DOMAIN Tail(s) : Tail(s)[i] # Head(s) /\ \E j \in DOMAIN s : Tail(s)[i] = s[j]
    BY <1>2, TailTasks
  <1>4. Head(s) = task
    BY DEF s
  <1>5. task \in Task /\ task = Callbk(task.conn, task.run)
    BY <1>3, <1>4 DEF Task, Callbk
  <1>6. In(s, task.conn, task.run)
    BY <1>3, <1>4, <1>5 DEF In
  <1>7. \A j \in DOMAIN s : s[j].conn \in Of(t)
    BY DEF QueuesInv, s
  <1>8. task.conn \in Of(t)
    BY <1>3, <1>4, <1>7
  <1>9. \A i \in DOMAIN Tail(s) : Tail(s)[i].conn \in Of(t)
    BY <1>3, <1>7
  <1>10. \A d, r : In(Tail(s), d, r) => In(s, d, r) /\ Callbk(d, r) # task
    BY <1>3, <1>4 DEF In
  <1>11. /\ batch' \in [IO -> Seq(Task)] /\ batch'[t] = Tail(s)
         /\ \A u \in IO : u # t => batch'[u] = batch[u]
    BY <1>1, <1>3 DEF s
  <1> QED BY <1>3, <1>5, <1>6, <1>8, <1>9, <1>10, <1>11 DEF s

(* What thread t may do in a step: it touches connection c only, which is
   registered by then. *)
Touches(t, c) ==
    /\ \A d, r : In(batch'[t], d, r) => In(batch[t], d, r)
    /\ \A u \in IO : u # t =>
         batch'[u] = batch[u] /\ loops'[u] = loops[u] /\ clearing'[u] = clearing[u]
    /\ pending' = pending /\ Clients' = Clients
    /\ \A d \in Clients : conns'[d].thread = conns[d].thread /\ conns'[d].state = conns[d].state
    /\ \A d \in Clients : d # c =>
         /\ conns'[d] = conns[d] /\ events'[d] = events[d]
         /\ Fd(d) \in Watched(loops'[t]) =>
              Fd(d) \in Watched(loops[t]) /\ loops'[t].epoll[Fd(d)] = loops[t].epoll[Fd(d)]
         /\ clearing'[t] = d => clearing[t] = d
    /\ ~ Registering(c)'
    /\ Ended(c)' => Over(c)'
    /\ clearing'[t] = c => conns[c].state = "Connected"
    /\ conns'[c].late => conns[c].state = "Closed"

LEMMA LifeTaken ==
    ASSUME TypeOK, LifeInv, NEW t \in IO, NEW c \in Of(t), Touches(t, c)
    PROVE  LifeInv'
  <1> USE DEF Touches
  <1>1. c \in Clients /\ conns[c].thread = t /\ conns'[c].thread = t
    BY DEF Of
  <1>2. ASSUME NEW d \in Clients
        PROVE  /\ conns[d].thread \in IO
               /\ \A r : In(batch'[conns[d].thread], d, r) => In(batch[conns[d].thread], d, r)
    <2>1. conns[d].thread \in IO
      BY ConnsSeq DEF Conn
    <2> QED BY <2>1
  <1>3. ASSUME NEW d \in Clients, d # c
        PROVE  (Registering(d)' => Registering(d)) /\ (Ended(d)' => Ended(d))
    <2>1. Registering(d)' => Registering(d)
      <3>1. Registering(d)' => \/ In(pending[conns[d].thread], d, "add")
                               \/ In(batch'[conns[d].thread], d, "add")
        BY DEF Registering, In, Callbk
      <3> QED BY <1>2, <3>1 DEF Registering
    <2>2. Ended(d)' => clearing'[conns[d].thread] = d \/ conns[d].state = "Closed"
      BY DEF Ended
    <2>3. clearing'[conns[d].thread] = d => clearing[conns[d].thread] = d
      BY <1>2, <1>3
    <2> QED BY <2>1, <2>2, <2>3 DEF Ended
  <1>4. ASSUME NEW d \in Clients, d # c,
               Fd(d) \in Watched(loops'[conns[d].thread])
        PROVE  /\ Fd(d) \in Watched(loops[conns[d].thread])
               /\ loops'[conns[d].thread].epoll[Fd(d)] = loops[conns[d].thread].epoll[Fd(d)]
    BY <1>2, <1>4
  <1>5. ASSUME NEW d \in Clients, d # c
        PROVE  (Early(d) => Early(d)') /\ (Over(d) => Over(d)')
    <2>1. conns'[d] = conns[d] /\ events'[d] = events[d]
      BY <1>5
    <2>2. Early(d) => Early(d)'
      <3>1. Early(d) => /\ In(pending[conns[d].thread], d, "add") => ~ In(batch'[conns[d].thread], d, "add")
                        /\ Registering(d)' =>
                             /\ Fd(d) \notin Watched(loops'[conns[d].thread]) /\ ~ conns[d].owed
                             /\ ~ In(batch'[conns[d].thread], d, "onRead")
                             /\ ~ In(batch'[conns[d].thread], d, "onWrite")
                             /\ ~ Ended(d)'
        BY <1>2, <1>3, <1>4, <1>5 DEF Early
      <3> QED BY <2>1, <3>1 DEF Early, In, Callbk, Watched, Fd
    <2>3. Over(d) => Over(d)'
      <3>1. Over(d) => /\ ~ In(batch'[conns[d].thread], d, "onRead")
                       /\ "IN" \notin events[d].mask
                       /\ Fd(d) \in Watched(loops'[conns[d].thread]) =>
                            conns[d].late /\ loops'[conns[d].thread].epoll[Fd(d)] = {"OUT"}
        BY <1>2, <1>4, <1>5 DEF Over
      <3> QED BY <2>1, <3>1 DEF Over, In, Callbk, Watched, Fd
    <2> QED BY <2>2, <2>3
  <1>6. ASSUME NEW d \in Clients
        PROVE  /\ Early(d)'
               /\ Ended(d)' => Over(d)'
               /\ clearing'[conns'[d].thread] = d => conns'[d].state = "Connected"
               /\ conns'[d].late => conns'[d].state = "Closed"
    <2>1. /\ Early(d)
          /\ Ended(d) => Over(d)
          /\ clearing[conns[d].thread] = d => conns[d].state = "Connected"
          /\ conns[d].late => conns[d].state = "Closed"
      BY DEF LifeInv
    <2>2. CASE d = c
      <3>1. In(pending'[conns'[c].thread], c, "add") => ~ In(batch'[conns'[c].thread], c, "add")
        BY <1>1, <1>2, <2>1, <2>2 DEF Early
      <3>2. Early(c)'
        BY <3>1 DEF Early, In, Callbk, Watched, Fd
      <3> QED BY <1>1, <2>2, <3>2
    <2>3. CASE d # c
      <3>1. conns'[d] = conns[d]
        BY <2>3
      <3>2. clearing'[conns[d].thread] = d => clearing[conns[d].thread] = d
        BY <1>2, <2>3
      <3> QED BY <1>3, <1>5, <2>1, <2>3, <3>1, <3>2
    <2> QED BY <2>2, <2>3
  <1> QED BY <1>6 DEF LifeInv

LEMMA RunTaskKeeps ==
    ASSUME ServerInv, NEW t \in IO, RunTask(t)
    PROVE  ServerInv'
  <1>0. TypeOK /\ StartUpInv /\ ConnsInv /\ EvenInv /\ LoopsInv /\ QueuesInv /\ LifeInv
    BY DEF ServerInv
  <1>a. PICK task : task = Head(batch[t])
    OBVIOUS
  <1>b. PICK c : c = task.conn
    OBVIOUS
  <1>c. PICK run : run = task.run
    OBVIOUS
  <1>1. /\ clearing[t] = None /\ batch[t] # << >>
        /\ batch' = [batch EXCEPT ![t] = Tail(@)]
        /\ \/ run = "add" /\ Add(c)
           \/ run = "onRead" /\ OnRead(c)
           \/ run = "onWrite" /\ OnWrite(c)
        /\ UNCHANGED <<main, size, io, initSem, startSem, index, group, pending>>
    BY <1>a, <1>b, <1>c DEF RunTask, startUp
  <1>2. /\ task \in Task /\ task = Callbk(c, run)
        /\ c \in Of(t) /\ In(batch[t], c, run)
        /\ batch' \in [IO -> Seq(Task)] /\ IsInjective(batch'[t])
        /\ \A i \in DOMAIN batch'[t] : batch'[t][i].conn \in Of(t)
        /\ \A d, r : In(batch'[t], d, r) => In(batch[t], d, r) /\ Callbk(d, r) # task
        /\ \A u \in IO : u # t => batch'[u] = batch[u]
    BY <1>0, <1>1, <1>a, <1>b, <1>c, TakeTask
  <1>3. \A d, r : In(batch'[t], d, r) => In(batch[t], d, r) /\ ~ (d = c /\ r = run)
    BY <1>2
  <1>4. /\ conns \in Seq(Conn) /\ Clients = 1..Len(conns) /\ Len(conns) \in Nat
        /\ \A d \in Clients : conns[d] \in Conn /\ d \in Nat /\ d >= 1
    BY <1>0, ConnsSeq
  <1>5. c \in Clients /\ conns[c].thread = t /\ run \in {"add", "onRead", "onWrite"}
    BY <1>1, <1>2 DEF Of
  <1>6. \A d \in Clients : d # c => Fd(d) # Fd(c)
    BY <1>4, <1>5, FdInjective
  <1>7. events \in Seq(Event) /\ DOMAIN events = Clients /\ events[c] \in Event
    <2>1. events \in Seq(Event) /\ DOMAIN events = Clients
      BY <1>0 DEF LoopsInv, Event, TypeOK
    <2> QED BY <1>5, <2>1, ElementOfSeq, LenProperties
  <1>8. /\ events[c].read = Callbk(c, "onRead")
        /\ events[c].write = Callbk(c, "onWrite") \/ "OUT" \notin events[c].mask
    BY <1>0, <1>5 DEF LoopsInv
  <1>9. Callbk(c, "onWrite") \in Task
    BY <1>2 DEF Callbk, Task
  <1>10. clearing \in [IO -> {None} \cup Clients] /\ peer \in [1..MaxClients -> {"up", "data", "eof", "reset"}]
    BY <1>0 DEF TypeOK
  <1> DEFINE Kept == /\ conns' \in Seq(Conn) /\ Len(conns') = Len(conns)
                     /\ \A d \in Clients : /\ conns'[d].thread = conns[d].thread
                                           /\ conns'[d].state = conns[d].state
                                           /\ conns'[d].held = conns[d].held
                                           /\ conns'[d].late = conns[d].late
                                           /\ d # c => conns'[d] = conns[d]
  <1>11. /\ conns' = conns => Kept
         /\ Kept => Clients' = Clients /\ \A u : Of(u)' = Of(u)
    <2>1. conns' = conns => Kept
      BY <1>4
    <2>2. Kept => Clients' = Clients
      <3>1. Kept => Clients' = 1..Len(conns')
        BY LenProperties DEF Clients
      <3> QED BY <1>4, <3>1
    <2>3. Kept => \A u : Of(u)' = Of(u)
      BY <2>2 DEF Of
    <2> QED BY <2>1, <2>2, <2>3
  <1> DEFINE Done == /\ Kept /\ LoopsInv' /\ LifeInv'
                     /\ peer' \in [1..MaxClients -> {"up", "data", "eof", "reset"}]
                     /\ DOMAIN events' = Clients
                     /\ clearing' \in [IO -> {None} \cup Clients]
                     /\ \A u \in IO : clearing'[u] # clearing[u] => u = t /\ clearing'[u] = c
  <1>12. ASSUME Kept
         PROVE  /\ ~ Registering(c)'
                /\ conns'[c].late => conns[c].state = "Closed"
                /\ \A d \in Clients : conns'[d].thread = conns[d].thread /\ conns'[d].state = conns[d].state
                /\ pending' = pending
    <2>1. Registering(c)' => In(pending[t], c, "add") \/ In(batch'[t], c, "add")
      BY <1>1, <1>5, <1>12 DEF Registering, In, Callbk
    <2>2. Early(c) /\ (conns[c].late => conns[c].state = "Closed")
      BY <1>0, <1>5 DEF LifeInv
    <2>3. CASE run = "add"
      BY <1>1, <1>2, <1>3, <1>5, <1>12, <2>1, <2>2, <2>3 DEF Early
    <2>4. CASE run \in {"onRead", "onWrite"}
      <3>1. ~ Registering(c)
        BY <1>2, <1>5, <2>2, <2>4 DEF Early
      <3> QED BY <1>1, <1>3, <1>5, <1>12, <2>1, <2>2, <3>1 DEF Registering
    <2> QED BY <1>5, <2>3, <2>4
  (* The event is updated. *)
  <1>13. ASSUME NEW e \in Event, e.read = Callbk(c, "onRead"),
                e.write = Callbk(c, "onWrite") \/ "OUT" \notin e.mask,
                Update(c, e), conns' = conns, clearing' = clearing, ~ Ended(c)
         PROVE  LoopsInv' /\ DOMAIN events' = Clients /\ LifeInv'
    <2>1. Clients' = Clients /\ Kept /\ \A u : Of(u)' = Of(u)
      BY <1>11, <1>13
    <2>2. /\ LoopsInv' /\ DOMAIN events' = Clients' /\ events'[c] = e
          /\ \A d \in Clients : d # c => events'[d] = events[d]
          /\ Watched(loops'[t]) = Watched(loops[t]) \cup {Fd(c)}
          /\ loops'[t].epoll[Fd(c)] = e.mask
          /\ \A f \in Watched(loops[t]) : f # Fd(c) => loops'[t].epoll[f] = loops[t].epoll[f]
          /\ \A u \in IO : u # t => loops'[u] = loops[u]
      BY <1>0, <1>2, <1>13, <2>1, UpdateKeeps
    <2>3. ~ Ended(c)'
      BY <1>13 DEF Ended
    <2>4. \A d \in Clients : d # c =>
            /\ conns'[d] = conns[d] /\ events'[d] = events[d]
            /\ Fd(d) \in Watched(loops'[t]) =>
                 Fd(d) \in Watched(loops[t]) /\ loops'[t].epoll[Fd(d)] = loops[t].epoll[Fd(d)]
            /\ clearing'[t] = d => clearing[t] = d
      BY <1>6, <1>13, <2>2
    <2>5. clearing'[t] = c => conns[c].state = "Connected"
      BY <1>0, <1>5, <1>13 DEF LifeInv
    <2>6. \A u \in IO : u # t => loops'[u] = loops[u] /\ clearing'[u] = clearing[u]
      BY <1>13, <2>2
    <2>7. Touches(t, c)
      BY <1>2, <1>3, <1>12, <2>1, <2>3, <2>4, <2>5, <2>6 DEF Touches
    <2>8. LifeInv'
      BY <1>0, <1>2, <2>7, LifeTaken
    <2> QED BY <2>1, <2>2, <2>8
  (* Nothing in the loops changes. *)
  <1>14. ASSUME Kept, UNCHANGED <<events, loops, clearing>>
         PROVE  LoopsInv' /\ LifeInv'
    <2>1. Clients' = Clients /\ \A u : Of(u)' = Of(u)
      BY <1>11, <1>14
    <2>2. LoopsInv'
      BY <1>0, <1>14, <2>1 DEF LoopsInv, Watched, Fd, Callbk, Task, Event
    <2>3. Ended(c)' => Over(c)'
      <3>1. Ended(c)' => Ended(c)
        BY <1>5, <1>14 DEF Ended
      <3>2. Ended(c) => Over(c)
        BY <1>0, <1>5 DEF LifeInv
      <3>3. Over(c) => Over(c)'
        <4>1. conns[c].thread = t /\ conns'[c].thread = t /\ conns'[c].late = conns[c].late
          BY <1>5, <1>14
        <4>2. ~ In(batch[t], c, "onRead") => ~ In(batch'[t], c, "onRead")
          BY <1>3
        <4>3. events' = events /\ loops' = loops
          BY <1>14
        <4> QED BY <4>1, <4>2, <4>3 DEF Over, In, Callbk, Watched, Fd
      <3> QED BY <3>1, <3>2, <3>3
    <2>4. clearing'[t] = c => conns[c].state = "Connected"
      BY <1>0, <1>5, <1>14 DEF LifeInv
    <2>5. \A u \in IO : u # t => loops'[u] = loops[u] /\ clearing'[u] = clearing[u]
      BY <1>14
    <2>6. \A d \in Clients : d # c =>
            /\ conns'[d] = conns[d] /\ events'[d] = events[d]
            /\ Fd(d) \in Watched(loops'[t]) =>
                 Fd(d) \in Watched(loops[t]) /\ loops'[t].epoll[Fd(d)] = loops[t].epoll[Fd(d)]
            /\ clearing'[t] = d => clearing[t] = d
      BY <1>14
    <2>7. Touches(t, c)
      BY <1>2, <1>3, <1>12, <1>14, <2>1, <2>3, <2>4, <2>5, <2>6 DEF Touches
    <2>8. LifeInv'
      BY <1>0, <1>2, <2>7, LifeTaken
    <2> QED BY <2>2, <2>8
  <1>15. Done
    <2>1. CASE run = "add" /\ Add(c)
      <3>1. ~ Ended(c)
        BY <1>0, <1>2, <1>5, <2>1 DEF LifeInv, Early, Registering
      <3>2. Update(c, events[c]) /\ conns' = conns /\ peer' = peer /\ clearing' = clearing
        BY <2>1 DEF Add
      <3>3. LoopsInv' /\ DOMAIN events' = Clients /\ LifeInv'
        BY <1>7, <1>8, <1>13, <3>1, <3>2
      <3> QED BY <1>10, <1>11, <3>2, <3>3
    <2>2. CASE run = "onRead" /\ OnRead(c)
      <3>1. ~ Ended(c)
        BY <1>0, <1>2, <1>5, <2>2 DEF LifeInv, Over
      <3>2. CASE TooEarly(c)
        <4>1. /\ conns' = [conns EXCEPT ![c].deaf = Fd(c) \notin Watched(loops[conns[c].thread])]
              /\ UNCHANGED <<peer, events, loops, clearing>>
          BY <3>2 DEF TooEarly
        <4>2. Kept
          <5> DEFINE b == Fd(c) \notin Watched(loops[conns[c].thread])
          <5>1. b \in BOOLEAN /\ conns' = [conns EXCEPT ![c].deaf = b]
            BY <4>1
          <5> HIDE DEF b
          <5> QED BY <1>4, <1>5, <5>1 DEF Conn
        <4>3. LoopsInv' /\ LifeInv'
          BY <1>14, <4>1, <4>2
        <4> QED BY <1>7, <1>10, <4>1, <4>2, <4>3
      <3>3. CASE Request(c)
        <4>1. clearing' = clearing /\ peer' = [peer EXCEPT ![c] = "up"]
          BY <3>3 DEF Request
        <4>2. peer' \in [1..MaxClients -> {"up", "data", "eof", "reset"}]
          BY <1>10, <4>1
        <4>3. CASE UNCHANGED <<conns, events, loops>>
          <5>1. LoopsInv' /\ LifeInv'
            BY <1>11, <1>14, <4>1, <4>3
          <5> QED BY <1>7, <1>10, <1>11, <4>1, <4>2, <4>3, <5>1
        <4>4. CASE Reply(c) /\ UNCHANGED conns
          <5> DEFINE e == Listen(events[c], "OUT", Callbk(c, "onWrite"))
          <5>1. e \in Event /\ e.read = events[c].read /\ e.write = Callbk(c, "onWrite")
            BY <1>7, <1>9 DEF Listen, Event
          <5>2. Update(c, e) /\ conns' = conns
            BY <4>4 DEF Reply
          <5> HIDE DEF e
          <5>3. LoopsInv' /\ DOMAIN events' = Clients /\ LifeInv'
            BY <1>8, <1>13, <3>1, <4>1, <5>1, <5>2
          <5> QED BY <1>10, <1>11, <4>1, <4>2, <5>2, <5>3
        <4>5. CASE conns' = [conns EXCEPT ![c].owed = TRUE] /\ UNCHANGED <<events, loops>>
          <5>1. Kept
            <6>1. PICK x : x = [conns[c] EXCEPT !.owed = TRUE]
              OBVIOUS
            <6>2. /\ x \in Conn /\ x.thread = conns[c].thread /\ x.held = conns[c].held
                  /\ x.state = conns[c].state /\ x.late = conns[c].late
              <7>1. conns[c] \in Conn
                BY <1>4, <1>5
              <7> QED BY <6>1, <7>1 DEF Conn
            <6>3. conns' = [conns EXCEPT ![c] = x]
              BY <4>5, <6>1
            <6> QED BY <1>4, <1>5, <6>2, <6>3
          <5>2. LoopsInv' /\ LifeInv'
            BY <1>14, <4>1, <4>5, <5>1
          <5> QED BY <1>7, <1>10, <4>1, <4>2, <4>5, <5>1, <5>2
        <4> QED BY <3>3, <4>3, <4>4, <4>5 DEF Request
      <3>4. CASE conns[c].state = "Connected" /\ Clear(c)
        <4> DEFINE e == Cancle(Cancle(events[c], "IN"), "OUT")
        <4>1. /\ events' = [events EXCEPT ![c] = e]
              /\ loops' = [loops EXCEPT ![t] = DeleteAll(@, {Fd(c)})]
              /\ clearing' = [clearing EXCEPT ![t] = c]
              /\ conns' = conns /\ peer' = peer
          BY <1>5, <3>4 DEF Clear, DeleteToEpoll
        <4>2. e \in Event /\ e.read = events[c].read /\ e.write = events[c].write /\ e.mask = {}
          BY <1>7 DEF Cancle, Event
        <4> HIDE DEF e
        <4>3. events' \in Seq(Event) /\ DOMAIN events' = Clients /\ events'[c] = e
          BY <1>5, <1>7, <4>1, <4>2
        <4>4. \A d \in Clients : /\ events'[d].read = events[d].read
                                 /\ events'[d].write = events[d].write
                                 /\ events'[d].mask \subseteq events[d].mask
                                 /\ d # c => events'[d] = events[d]
          BY <1>5, <1>7, <4>1, <4>2
        <4>5. Kept /\ Clients' = Clients /\ \A u : Of(u)' = Of(u)
          BY <1>11, <4>1
        <4>6. /\ LoopsInv'
              /\ Watched(loops'[t]) = Watched(loops[t]) \ {Fd(c)}
              /\ \A f \in Watched(loops'[t]) : loops'[t].epoll[f] = loops[t].epoll[f]
              /\ \A u \in IO : u # t => loops'[u] = loops[u]
          BY <1>0, <4>1, <4>3, <4>4, <4>5, CutKeeps
        <4>7. /\ clearing' \in [IO -> {None} \cup Clients] /\ clearing'[t] = c
              /\ \A u \in IO : u # t => clearing'[u] = clearing[u]
          BY <1>5, <1>10, <4>1
        <4>8. Over(c)'
          <5>1. ~ In(batch'[t], c, "onRead")
            BY <1>3, <2>2
          <5>2. "IN" \notin events'[c].mask /\ Fd(c) \notin Watched(loops'[t])
            BY <4>2, <4>3, <4>6
          <5>3. conns'[c].thread = t
            BY <1>5, <4>1
          <5> QED BY <5>1, <5>2, <5>3 DEF Over, In, Callbk, Watched, Fd
        <4>9. \A d \in Clients : d # c =>
                /\ conns'[d] = conns[d] /\ events'[d] = events[d]
                /\ Fd(d) \in Watched(loops'[t]) =>
                     Fd(d) \in Watched(loops[t]) /\ loops'[t].epoll[Fd(d)] = loops[t].epoll[Fd(d)]
                /\ clearing'[t] = d => clearing[t] = d
          BY <4>1, <4>4, <4>6, <4>7
        <4>10. \A u \in IO : u # t => loops'[u] = loops[u] /\ clearing'[u] = clearing[u]
          BY <4>6, <4>7
        <4>11. clearing'[t] = c => conns[c].state = "Connected"
          BY <3>4
        <4>12. Touches(t, c)
          BY <1>2, <1>3, <1>12, <4>5, <4>8, <4>9, <4>10, <4>11 DEF Touches
        <4>13. LifeInv'
          BY <1>0, <1>2, <4>12, LifeTaken
        <4> QED BY <1>10, <4>1, <4>3, <4>5, <4>6, <4>7, <4>13
      <3> QED BY <2>2, <3>2, <3>3, <3>4 DEF OnRead
    <2>3. CASE run = "onWrite" /\ OnWrite(c)
      <3>0. conns' = conns /\ peer' = peer /\ clearing' = clearing
        BY <2>3 DEF OnWrite
      <3>1. CASE UNCHANGED <<events, loops>>
        <4>1. LoopsInv' /\ LifeInv'
          BY <1>11, <1>14, <3>0, <3>1
        <4> QED BY <1>7, <1>10, <1>11, <3>0, <3>1, <4>1
      <3>2. CASE conns[c].state = "Connected" /\ Update(c, Cancle(events[c], "OUT"))
        <4> DEFINE e == Cancle(events[c], "OUT")
        <4>1. Update(c, e)
          BY <3>2
        <4>2. e \in Event /\ e.read = events[c].read /\ "OUT" \notin e.mask
          BY <1>7 DEF Cancle, Event
        <4> HIDE DEF e
        <4>3. ~ Ended(c)
          <5>1. c # None
            BY <1>4, <1>5 DEF None
          <5> QED BY <1>1, <1>5, <3>2, <5>1 DEF Ended
        <4>4. LoopsInv' /\ DOMAIN events' = Clients /\ LifeInv'
          BY <1>8, <1>13, <3>0, <4>1, <4>2, <4>3
        <4> QED BY <1>10, <1>11, <3>0, <4>4
      <3> QED BY <2>3, <3>1, <3>2 DEF OnWrite
    <2> QED BY <1>1, <2>1, <2>2, <2>3
  <1>16. Clients' = Clients /\ \A u : Of(u)' = Of(u)
    BY <1>11, <1>15
  <1>17. TypeOK'
    BY <1>0, <1>1, <1>2, <1>15, <1>16 DEF TypeOK, Conn
  <1>18. StartUpInv'
    BY <1>0, <1>1, StartUpKept
  <1>19. ConnsInv'
    <2>1. main = "onAccept" => Len(conns) \in Clients
      BY <1>0, <1>4 DEF ConnsInv
    <2>2. /\ Len(conns') = Len(conns)
          /\ \A d \in Clients : /\ conns'[d].thread = conns[d].thread
                                /\ conns'[d].state = conns[d].state
                                /\ conns'[d].held = conns[d].held
      BY <1>15
    <2> HIDE DEF Done, Kept
    <2> QED BY <1>0, <1>1, <1>16, <2>1, <2>2 DEF ConnsInv, Fd
  <1>20. EvenInv'
    BY <1>0, <1>1, <1>16, EvenKept
  <1>21. QueuesInv'
    <2>1. \A u \in IO : IsInjective(batch'[u]) /\ \A i \in DOMAIN batch'[u] : batch'[u][i].conn \in Of(u)
      BY <1>0, <1>2 DEF QueuesInv
    <2>2. \A u \in IO : clearing'[u] # None => clearing'[u] \in Of(u)
      BY <1>0, <1>2, <1>15 DEF QueuesInv
    <2>3. pending' = pending
      BY <1>1
    <2> QED BY <1>0, <1>16, <2>1, <2>2, <2>3 DEF QueuesInv, IsInjective
  <1> QED BY <1>15, <1>17, <1>18, <1>19, <1>20, <1>21 DEF ServerInv

(* The callbacks that epoll_wait makes a loop queue: onRead and onWrite of its
   connections that are registered, onRead only of those that have not ended,
   none twice. *)
LEMMA PolledTasks ==
    ASSUME TypeOK, LoopsInv, LifeInv, NEW t \in IO,
           NEW order \in Orders(Reported(t)), NEW ready, ready = Walk(order, ReadyEvents(t)),
           NEW h, h = [i \in DOMAIN ready |-> Handler(events[ready[i][1]], ready[i][2])]
    PROVE  /\ h \in Seq(Task) /\ IsInjective(h)
           /\ \A i \in DOMAIN h : /\ h[i].conn \in Of(t) /\ h[i].run \in {"onRead", "onWrite"}
                                  /\ ~ Registering(h[i].conn)
                                  /\ h[i].run = "onRead" => ~ Ended(h[i].conn)
  <1> DEFINE R == Reported(t)
  <1>1. /\ Clients = 1..Len(conns) /\ Len(conns) \in Nat /\ Clients \subseteq 1..MaxClients
        /\ \A d \in Clients : d \in Nat
    BY ConnsSeq
  <1>2. R \subseteq Clients /\ \A c \in R : Fd(c) \in Watched(loops[t])
    BY DEF Reported
  <1>3. IsFiniteSet(R)
    <2>1. PICK n \in Nat : Clients = 1..n
      BY <1>1
    <2>2. IsFiniteSet(1..n)
      BY FS_Interval
    <2> QED BY <1>2, <2>1, <2>2, FS_Subset
  <1>4. \A c \in R : c \in Of(t) /\ conns[c].thread = t
    <2> TAKE c \in R
    <2>1. PICK d \in Of(t) : Fd(c) = Fd(d)
      BY <1>2 DEF LoopsInv
    <2>2. c \in Clients /\ d \in Clients /\ conns[d].thread = t
      BY <1>2 DEF Of
    <2>3. c = d
      BY <1>1, <2>1, <2>2, FdInjective
    <2> QED BY <2>1, <2>2, <2>3
  <1>5. \A c \in R : ~ Registering(c) /\ ("IN" \in loops[t].epoll[Fd(c)] => ~ Ended(c))
    <2> TAKE c \in R
    <2>1. Early(c) /\ (Ended(c) => Over(c))
      BY <1>2 DEF LifeInv
    <2>2. Fd(c) \in Watched(loops[t]) /\ conns[c].thread = t
      BY <1>2, <1>4
    <2>3. Ended(c) => loops[t].epoll[Fd(c)] = {"OUT"}
      BY <2>1, <2>2 DEF Over
    <2> QED BY <2>1, <2>2, <2>3 DEF Early
  <1>6. ReadyEvents(t) \subseteq R \X {"IN", "OUT"}
    BY DEF ReadyEvents
  <1> HIDE DEF R
  <1>7. /\ ready \in Seq(R \X {"IN", "OUT"})
        /\ \A k \in DOMAIN ready : ready[k] \in ReadyEvents(t)
        /\ IsInjective(ready)
    <2> DEFINE E == ReadyEvents(t)
    <2>1. order \in Orders(R) /\ E \in SUBSET (R \X {"IN", "OUT"})
      BY <1>6 DEF R
    <2> HIDE DEF E
    <2>2. /\ Walk(order, E) \in Seq(R \X {"IN", "OUT"})
          /\ \A k \in DOMAIN Walk(order, E) : Walk(order, E)[k] \in E
          /\ IsInjective(Walk(order, E))
      BY <1>3, <2>1, WalkEvents
    <2> QED BY <2>2 DEF E
  <1>8. \A e \in ReadyEvents(t) :
          /\ e[1] \in R /\ e = <<e[1], e[2]>>
          /\ e[2] = "IN" \/ e[2] = "OUT"
          /\ e[2] = "IN" => Handler(events[e[1]], e[2]) = Callbk(e[1], "onRead")
          /\ e[2] = "OUT" => Handler(events[e[1]], e[2]) = Callbk(e[1], "onWrite")
    <2> SUFFICES ASSUME NEW e \in ReadyEvents(t)
                 PROVE  /\ e[1] \in R /\ e = <<e[1], e[2]>>
                        /\ e[2] = "IN" \/ e[2] = "OUT"
                        /\ e[2] = "IN" => Handler(events[e[1]], e[2]) = Callbk(e[1], "onRead")
                        /\ e[2] = "OUT" => Handler(events[e[1]], e[2]) = Callbk(e[1], "onWrite")
      OBVIOUS
    <2>1. e[1] \in R /\ e[2] \in {"IN", "OUT"} /\ e = <<e[1], e[2]>>
      BY <1>6
    <2>2. e[2] \in loops[t].epoll[Fd(e[1])]
      BY DEF ReadyEvents
    <2>3. /\ events[e[1]].read = Callbk(e[1], "onRead")
          /\ "OUT" \in loops[t].epoll[Fd(e[1])] => events[e[1]].write = Callbk(e[1], "onWrite")
      <3>1. e[1] \in Clients /\ Fd(e[1]) \in Watched(loops[t])
        BY <1>2, <2>1 DEF R
      <3> QED BY <3>1 DEF LoopsInv
    <2> QED BY <2>1, <2>2, <2>3 DEF Handler
  <1>9. \A i \in DOMAIN ready :
          \E c \in R, run \in {"onRead", "onWrite"} :
            /\ h[i] = Callbk(c, run)
            /\ ready[i] = <<c, IF run = "onRead" THEN "IN" ELSE "OUT">>
    <2> TAKE i \in DOMAIN ready
    <2>1. ready[i] \in ReadyEvents(t) /\ h[i] = Handler(events[ready[i][1]], ready[i][2])
      BY <1>7
    <2> DEFINE e == ready[i]
    <2> HIDE DEF e
    <2>2. /\ e[1] \in R /\ e = <<e[1], e[2]>>
          /\ e[2] = "IN" \/ e[2] = "OUT"
          /\ e[2] = "IN" => Handler(events[e[1]], e[2]) = Callbk(e[1], "onRead")
          /\ e[2] = "OUT" => Handler(events[e[1]], e[2]) = Callbk(e[1], "onWrite")
      BY <1>8, <2>1 DEF e
    <2>3. CASE e[2] = "IN"
      <3>1. h[i] = Callbk(e[1], "onRead") /\ ready[i] = <<e[1], "IN">>
        BY <2>1, <2>2, <2>3 DEF e
      <3> QED BY <2>2, <3>1
    <2>4. CASE e[2] = "OUT"
      <3>1. h[i] = Callbk(e[1], "onWrite") /\ ready[i] = <<e[1], "OUT">>
        BY <2>1, <2>2, <2>4 DEF e
      <3> QED BY <2>2, <3>1
    <2> QED BY <2>2, <2>3, <2>4
  <1>10. DOMAIN h = DOMAIN ready /\ DOMAIN ready = 1..Len(ready) /\ Len(ready) \in Nat
    BY <1>7, LenProperties
  <1>11. \A c, run : Callbk(c, run).conn = c /\ Callbk(c, run).run = run
    BY DEF Callbk
  <1>12. \A i \in DOMAIN h : h[i] \in Task
    <2>1. \A c \in R : c \in 1..MaxClients
      BY <1>1, <1>2 DEF R
    <2>2. \A c \in R, run \in {"onRead", "onWrite"} : Callbk(c, run) \in Task
      BY <2>1 DEF Callbk, Task
    <2> QED BY <1>9, <1>10, <2>2
  <1>13. h \in Seq(Task)
    <2> DEFINE m == Len(ready)
    <2>1. m \in Nat /\ h = [i \in 1..m |-> h[i]] /\ \A i \in 1..m : h[i] \in Task
      BY <1>10, <1>12
    <2> HIDE DEF m
    <2> QED BY <2>1
  <1>14. IsInjective(h)
    <2>1. \A i, j \in DOMAIN h : h[i] = h[j] => i = j
      <3> SUFFICES ASSUME NEW i \in DOMAIN h, NEW j \in DOMAIN h, h[i] = h[j] PROVE i = j
        OBVIOUS
      <3>1. PICK c \in R, run \in {"onRead", "onWrite"} :
              /\ h[i] = Callbk(c, run)
              /\ ready[i] = <<c, IF run = "onRead" THEN "IN" ELSE "OUT">>
        BY <1>9, <1>10
      <3>2. PICK d \in R, r \in {"onRead", "onWrite"} :
              /\ h[j] = Callbk(d, r)
              /\ ready[j] = <<d, IF r = "onRead" THEN "IN" ELSE "OUT">>
        BY <1>9, <1>10
      <3>3. c = d /\ run = r
        BY <1>11, <3>1, <3>2
      <3>4. ready[i] = ready[j]
        BY <3>1, <3>2, <3>3
      <3> QED BY <1>7, <1>10, <3>4 DEF IsInjective
    <2> QED BY <2>1 DEF IsInjective
  <1>15. \A i \in DOMAIN h : /\ h[i].conn \in R /\ h[i].run \in {"onRead", "onWrite"}
                             /\ h[i].run = "onRead" => "IN" \in loops[t].epoll[Fd(h[i].conn)]
    <2> TAKE i \in DOMAIN h
    <2>1. PICK c \in R, run \in {"onRead", "onWrite"} :
            /\ h[i] = Callbk(c, run)
            /\ ready[i] = <<c, IF run = "onRead" THEN "IN" ELSE "OUT">>
      BY <1>9, <1>10
    <2>2. h[i].conn = c /\ h[i].run = run
      BY <1>11, <2>1
    <2>3. run = "onRead" => ready[i] = <<c, "IN">> /\ ready[i] \in ReadyEvents(t)
      BY <1>7, <1>10, <2>1
    <2>4. \A e \in ReadyEvents(t) : e[2] \in loops[t].epoll[Fd(e[1])]
      BY DEF ReadyEvents
    <2>5. run = "onRead" => "IN" \in loops[t].epoll[Fd(c)]
      BY <2>3, <2>4
    <2> QED BY <2>1, <2>2, <2>5
  <1> QED BY <1>4, <1>5, <1>13, <1>14, <1>15

LEMMA PollKeeps ==
    ASSUME ServerInv, NEW t \in IO, Poll(t)
    PROVE  ServerInv'
  <1>0. TypeOK /\ StartUpInv /\ ConnsInv /\ EvenInv /\ LoopsInv /\ QueuesInv /\ LifeInv
    BY DEF ServerInv
  <1>1. PICK order \in Orders(Reported(t)) :
          LET ready == Walk(order, ReadyEvents(t))
          IN  batch' = [batch EXCEPT ![t] = pending[t] \o
                         [i \in DOMAIN ready |-> Handler(events[ready[i][1]], ready[i][2])]]
    BY DEF Poll
  <1>a. PICK h : h = [i \in DOMAIN Walk(order, ReadyEvents(t)) |->
                        Handler(events[Walk(order, ReadyEvents(t))[i][1]], Walk(order, ReadyEvents(t))[i][2])]
    OBVIOUS
  <1>b. PICK fds : fds = {Fd(c) : c \in {d \in Reported(t) : peer[d] = "reset"}}
    OBVIOUS
  <1>2. /\ batch' = [batch EXCEPT ![t] = pending[t] \o h]
        /\ loops' = [loops EXCEPT ![t] = DeleteAll(@, fds)]
        /\ pending' = [pending EXCEPT ![t] = << >>]
        /\ UNCHANGED <<main, size, io, initSem, startSem, index, conns, peer, group, events, clearing>>
    BY <1>1, <1>a, <1>b DEF Poll, startUp
  <1>3. /\ h \in Seq(Task) /\ IsInjective(h)
        /\ \A i \in DOMAIN h : /\ h[i].conn \in Of(t) /\ h[i].run \in {"onRead", "onWrite"}
                               /\ ~ Registering(h[i].conn)
                               /\ h[i].run = "onRead" => ~ Ended(h[i].conn)
    <2>1. PICK ready : ready = Walk(order, ReadyEvents(t))
      OBVIOUS
    <2>2. h = [i \in DOMAIN ready |-> Handler(events[ready[i][1]], ready[i][2])]
      BY <1>a, <2>1
    <2> QED BY <1>0, <2>1, <2>2, PolledTasks
  <1>4. /\ pending \in [IO -> Seq(Task)] /\ batch \in [IO -> Seq(Task)]
        /\ pending[t] \in Seq(Task) /\ IsInjective(pending[t])
        /\ \A i \in DOMAIN pending[t] : pending[t][i].run = "add" /\ pending[t][i].conn \in Of(t)
    BY <1>0 DEF TypeOK, QueuesInv
  <1> DEFINE s == pending[t] \o h
  <1>5. /\ s \in Seq(Task) /\ IsInjective(s)
        /\ \A i \in DOMAIN s : \/ \E j \in DOMAIN pending[t] : s[i] = pending[t][j]
                               \/ \E j \in DOMAIN h : s[i] = h[j]
    <2>1. PICK p : p = pending[t]
      OBVIOUS
    <2>2. \A i \in DOMAIN p, j \in DOMAIN h : p[i] # h[j]
      BY <1>3, <1>4, <2>1
    <2>3. p \in Seq(Task) /\ IsInjective(p) /\ h \in Seq(Task) /\ IsInjective(h)
      BY <1>3, <1>4, <2>1
    <2>4. /\ p \o h \in Seq(Task) /\ IsInjective(p \o h)
          /\ \A i \in DOMAIN (p \o h) : \/ \E j \in DOMAIN p : (p \o h)[i] = p[j]
                                        \/ \E j \in DOMAIN h : (p \o h)[i] = h[j]
      BY <2>2, <2>3, ConcatTasks
    <2> QED BY <2>1, <2>4
  <1> HIDE DEF s
  <1>6. /\ pending' \in [IO -> Seq(Task)] /\ batch' \in [IO -> Seq(Task)]
        /\ batch'[t] = s /\ pending'[t] = << >>
        /\ \A u \in IO : u # t => batch'[u] = batch[u] /\ pending'[u] = pending[u]
    <2>1. << >> \in Seq(Task) /\ batch' = [batch EXCEPT ![t] = s]
      BY <1>2 DEF s
    <2> QED BY <1>2, <1>4, <1>5, <2>1
  <1>7. Clients' = Clients /\ \A u : Of(u)' = Of(u)
    BY <1>2, OfKept DEF Clients
  <1>8. TypeOK'
    BY <1>0, <1>2, <1>6, <1>7 DEF TypeOK
  <1>9. StartUpInv'
    BY <1>0, <1>2, StartUpKept
  <1>10. ConnsInv'
    BY <1>0, <1>2 DEF ConnsInv, Clients, Fd
  <1>11. EvenInv'
    BY <1>0, <1>2, <1>7, EvenKept
  <1>12. /\ LoopsInv'
         /\ Watched(loops'[t]) = Watched(loops[t]) \ fds
         /\ \A f \in Watched(loops'[t]) : loops'[t].epoll[f] = loops[t].epoll[f]
         /\ \A u \in IO : u # t => loops'[u] = loops[u]
    <2>1. events' \in Seq(Event) /\ DOMAIN events' = Clients
      BY <1>0, <1>2 DEF LoopsInv, Event, TypeOK
    <2>2. \A d \in Clients : /\ events'[d].read = events[d].read
                             /\ events'[d].write = events[d].write
                             /\ events'[d].mask \subseteq events[d].mask
      BY <1>2
    <2>3. loops' = [loops EXCEPT ![t] = DeleteAll(@, fds)]
      BY <1>2
    <2> QED BY <1>0, <1>7, <2>1, <2>2, <2>3, CutKeeps
  <1>13. \A i \in DOMAIN s : s[i].conn \in Of(t)
    BY <1>3, <1>4, <1>5
  <1>14. QueuesInv'
    <2>1. \A u \in IO :
            /\ IsInjective(pending'[u]) /\ IsInjective(batch'[u])
            /\ \A i \in DOMAIN pending'[u] : pending'[u][i].run = "add" /\ pending'[u][i].conn \in Of(u)
            /\ \A i \in DOMAIN batch'[u] : batch'[u][i].conn \in Of(u)
      <3> TAKE u \in IO
      <3>1. CASE u = t
        <4>1. DOMAIN pending'[t] = {}
          BY <1>6
        <4> QED BY <1>5, <1>6, <1>13, <3>1, <4>1 DEF IsInjective
      <3>2. CASE u # t
        BY <1>0, <1>6, <3>2 DEF QueuesInv
      <3> QED BY <3>1, <3>2
    <2>2. \A u \in IO : clearing'[u] # None => clearing'[u] \in Of(u)
      BY <1>0, <1>2 DEF QueuesInv
    <2> QED BY <1>7, <2>1, <2>2 DEF QueuesInv, IsInjective
  <1>15. LifeInv'
    <2>1. ASSUME NEW c \in Clients
          PROVE  /\ Ended(c)' <=> Ended(c)
                 /\ In(pending'[conns[c].thread], c, "add") => ~ In(batch'[conns[c].thread], c, "add")
                 /\ Registering(c)' => Registering(c)
                 /\ Registering(c) => ~ In(batch'[conns[c].thread], c, "onWrite")
                 /\ Registering(c) \/ Ended(c) => ~ In(batch'[conns[c].thread], c, "onRead")
                 /\ Fd(c) \in Watched(loops'[conns[c].thread]) =>
                      /\ Fd(c) \in Watched(loops[conns[c].thread])
                      /\ loops'[conns[c].thread].epoll[Fd(c)] = loops[conns[c].thread].epoll[Fd(c)]
      <3>1. conns[c].thread \in IO
        BY <1>0, ConnsSeq DEF Conn
      <3>2. Ended(c)' <=> Ended(c)
        BY <1>2 DEF Ended
      <3>3. Early(c) /\ (Ended(c) => Over(c))
        BY <1>0 DEF LifeInv
      <3>4. CASE conns[c].thread = t
        <4>1. \A run : ~ In(pending'[t], c, run)
          BY <1>6 DEF In
        <4>2. In(batch'[t], c, "add") => In(pending[t], c, "add")
          <5> SUFFICES ASSUME In(batch'[t], c, "add") PROVE In(pending[t], c, "add")
            OBVIOUS
          <5>1. PICK i \in DOMAIN s : s[i] = Callbk(c, "add")
            BY <1>6 DEF In
          <5>2. s[i].run = "add"
            BY <5>1 DEF Callbk
          <5>3. \A j \in DOMAIN h : s[i] # h[j]
            BY <1>3, <5>2
          <5> QED BY <1>5, <5>1, <5>3 DEF In
        <4>3. \A run \in {"onRead", "onWrite"} :
                In(batch'[t], c, run) => ~ Registering(c) /\ (run = "onRead" => ~ Ended(c))
          <5> SUFFICES ASSUME NEW run \in {"onRead", "onWrite"}, In(batch'[t], c, run)
                       PROVE  ~ Registering(c) /\ (run = "onRead" => ~ Ended(c))
            OBVIOUS
          <5>1. PICK i \in DOMAIN s : s[i] = Callbk(c, run)
            BY <1>6 DEF In
          <5>2. s[i].run # "add" /\ s[i].conn = c /\ s[i].run = run
            BY <5>1 DEF Callbk
          <5>3. PICK j \in DOMAIN h : s[i] = h[j]
            BY <1>4, <1>5, <5>2
          <5> QED BY <1>3, <5>2, <5>3
        <4>4. Registering(c)' => Registering(c)
          <5>1. Registering(c)' => In(pending'[t], c, "add") \/ In(batch'[t], c, "add")
            BY <1>2, <3>4 DEF Registering, In, Callbk
          <5> QED BY <3>4, <4>1, <4>2, <5>1 DEF Registering
        <4> QED BY <1>12, <3>2, <3>4, <4>1, <4>3, <4>4
      <3>5. CASE conns[c].thread # t
        <4>1. Registering(c)' <=> Registering(c)
          BY <1>2, <1>6, <3>1, <3>5 DEF Registering, In, Callbk
        <4>2. batch'[conns[c].thread] = batch[conns[c].thread] /\ pending'[conns[c].thread] = pending[conns[c].thread]
          BY <1>6, <3>1, <3>5
        <4> QED BY <1>12, <3>1, <3>2, <3>3, <3>5, <4>1, <4>2 DEF Early, Over
      <3> QED BY <3>4, <3>5
    <2>2. ASSUME NEW c \in Clients
          PROVE  (Early(c) => Early(c)') /\ (Over(c) /\ Ended(c) => Over(c)')
      <3>1. conns' = conns /\ events' = events
        BY <1>2
      <3>2. Early(c) => Early(c)'
        BY <2>1, <3>1, ZenonT(40) DEF Early, In, Callbk, Watched, Fd
      <3>3. Over(c) /\ Ended(c) => Over(c)'
        BY <2>1, <3>1, ZenonT(40) DEF Over, In, Callbk, Watched, Fd
      <3> QED BY <3>2, <3>3
    <2> QED BY <1>0, <1>2, <1>7, <2>1, <2>2 DEF LifeInv
  <1> QED BY <1>8, <1>9, <1>10, <1>11, <1>12, <1>14, <1>15 DEF ServerInv

(* A callback does not return. *)
LEMMA NeverReturnsKeeps ==
    ASSUME ServerInv, NEW t \in IO, NeverReturns(t)
    PROVE  ServerInv'
  <1>0. TypeOK /\ StartUpInv /\ ConnsInv /\ EvenInv /\ LoopsInv /\ QueuesInv /\ LifeInv
    BY DEF ServerInv
  <1>1. /\ io[t] = "looping" /\ io' = [io EXCEPT ![t] = "stuck"]
        /\ UNCHANGED <<main, size, initSem, startSem, index>>
        /\ UNCHANGED <<conns, peer, group, events, loops, pending, batch, clearing>>
    BY DEF NeverReturns, Comes, shared
  <1>2. /\ io' \in [IO -> {"none", "created", "made", "looping", "stuck"}]
        /\ \A u \in IO : io'[u] = io[u] \/ (io[u] = "looping" /\ io'[u] = "stuck")
    BY <1>0, <1>1 DEF TypeOK
  <1>3. TypeOK'
    BY <1>0, <1>1, <1>2 DEF TypeOK, Clients
  <1>4. StartUpInv'
    <2>1. PICK k \in 0..Threads :
            /\ Created = 1..k
            /\ main \in {"begin", "accepting thread"} => k = 0
            /\ main = "threads" => k < size
            /\ main = "wait" => k \in 1..size
            /\ main \in {"start", "loop", "onAccept"} => k = size
            /\ \A u \in 1..k : io[u] = "created" => main = "wait" /\ u = k
            /\ \A u \in IO : io[u] \in {"none", "created"} => initSem[u] = 0
            /\ \A u \in IO : main \notin {"loop", "onAccept", "crashed"} => startSem[u] = 0
      BY <1>0 DEF StartUpInv
    <2>2. Created' = 1..k
      <3>1. Created' = Created
        BY <1>2 DEF Created
      <3> QED BY <2>1, <3>1
    <2>3. \A u \in IO : io'[u] \in {"none", "created"} => initSem'[u] = 0
      BY <1>1, <1>2, <2>1
    <2>4. \A u \in 1..k : io'[u] = "created" => main' = "wait" /\ u = k
      <3>1. \A u \in 1..k : u \in IO
        BY <2>1 DEF Created
      <3> QED BY <1>1, <1>2, <2>1, <3>1
    <2> HIDE DEF Created
    <2> QED BY <1>1, <2>1, <2>2, <2>3, <2>4 DEF StartUpInv
  <1>5. ConnsInv'
    BY <1>0, <1>1 DEF ConnsInv, Clients, Fd
  <1>6. EvenInv'
    BY <1>0, <1>1, EvenKept DEF Of, Clients
  <1>7. LoopsInv' /\ QueuesInv' /\ LifeInv'
    BY <1>0, <1>1, QueuesKept
  <1> QED BY <1>3, <1>4, <1>5, <1>6, <1>7 DEF ServerInv

(* A task of a loop has a connection, so that the start-up is over. *)
LEMMA WriteKillsKeeps ==
    ASSUME ServerInv, NEW t \in IO, WriteKills(t)
    PROVE  ServerInv'
  <1>0. TypeOK /\ ConnsInv /\ QueuesInv
    BY DEF ServerInv
  <1>1. batch[t] # << >> /\ Crash
    BY DEF WriteKills, Comes
  <1>2. batch[t] \in Seq(Task)
    BY <1>0 DEF TypeOK
  <1>3. 1 \in DOMAIN batch[t]
    BY <1>1, <1>2, LenProperties, EmptySeq
  <1>4. Clients # {}
    BY <1>0, <1>3 DEF QueuesInv, Of
  <1> QED BY <1>0, <1>1, <1>4, CrashKeeps DEF ConnsInv

(* A late answer registers its number again, for EPOLLOUT alone if the
   connection has ended. *)
LEMMA LateReplyKeeps ==
    ASSUME ServerInv, NEW t \in IO, LateReply(t)
    PROVE  ServerInv'
  <1>0. TypeOK /\ StartUpInv /\ ConnsInv /\ EvenInv /\ LoopsInv /\ QueuesInv /\ LifeInv
    BY DEF ServerInv
  <1>1. PICK c \in Clients :
          /\ conns[c].thread = t /\ conns[c].owed
          /\ Reply(c)
          /\ conns' = [conns EXCEPT ![c].owed = FALSE,
                                   ![c].late = @ \/ conns[c].state = "Closed"]
    BY DEF LateReply
  <1>2. /\ clearing[t] = None
        /\ UNCHANGED <<main, size, io, initSem, startSem, index>>
        /\ UNCHANGED <<peer, group, pending, batch, clearing>>
    BY DEF LateReply, startUp
  <1>3. /\ conns \in Seq(Conn) /\ Clients = 1..Len(conns) /\ Len(conns) \in Nat
        /\ \A d \in Clients : conns[d] \in Conn /\ d \in Nat /\ d >= 1
        /\ Clients \subseteq 1..MaxClients
    BY <1>0, ConnsSeq
  <1>4. /\ Clients' = Clients /\ conns' \in Seq(Conn) /\ Len(conns') = Len(conns)
        /\ \A d \in Clients : /\ conns'[d].thread = conns[d].thread
                              /\ conns'[d].state = conns[d].state
                              /\ conns'[d].held = conns[d].held
                              /\ d # c => conns'[d] = conns[d]
        /\ conns'[c].late <=> conns[c].late \/ conns[c].state = "Closed"
    <2> DEFINE b == conns[c].late \/ conns[c].state = "Closed"
    <2>1. b \in BOOLEAN /\ conns' = [conns EXCEPT ![c].owed = FALSE, ![c].late = b]
      BY <1>1
    <2> HIDE DEF b
    <2>2. PICK x : x = [conns[c] EXCEPT !.owed = FALSE, !.late = b]
      OBVIOUS
    <2>3. /\ x \in Conn /\ x.thread = conns[c].thread /\ x.held = conns[c].held
          /\ x.state = conns[c].state /\ x.late = b
      <3>1. conns[c] \in Conn
        BY <1>1, <1>3
      <3> QED BY <2>1, <2>2, <3>1 DEF Conn
    <2>4. conns' = [conns EXCEPT ![c] = x]
      <3>1. c \in DOMAIN conns
        BY <1>1, <1>3
      <3>2. [conns EXCEPT ![c].owed = FALSE, ![c].late = b]
              = [conns EXCEPT ![c] = [conns[c] EXCEPT !.owed = FALSE, !.late = b]]
        BY <3>1
      <3> QED BY <2>1, <2>2, <3>2
    <2>5. /\ conns' \in Seq(Conn) /\ Len(conns') = Len(conns) /\ DOMAIN conns' = DOMAIN conns
          /\ conns'[c] = x /\ \A d \in Clients : d # c => conns'[d] = conns[d]
      <3>1. c \in 1..Len(conns) /\ DOMAIN conns = 1..Len(conns)
        BY <1>1, <1>3
      <3>2. /\ conns' \in Seq(Conn) /\ Len(conns') = Len(conns)
            /\ conns'[c] = x
            /\ \A d \in 1..Len(conns) : d # c => conns'[d] = conns[d]
        BY <1>3, <2>3, <2>4, <3>1, ExceptSeq
      <3> QED BY <1>3, <2>4, <3>2
    <2>6. /\ Clients' = Clients
          /\ \A d \in Clients : /\ conns'[d].thread = conns[d].thread
                                /\ conns'[d].state = conns[d].state
                                /\ conns'[d].held = conns[d].held
          /\ conns'[c].late = b
      BY <2>3, <2>5 DEF Clients
    <2> QED BY <2>5, <2>6 DEF b
  <1>5. \A u : Of(u)' = Of(u)
    BY <1>4, OfKept
  <1>6. c \in Of(t) /\ \A d \in Clients : d # c => Fd(d) # Fd(c)
    BY <1>1, <1>3, FdInjective DEF Of
  <1>7. /\ Early(c) /\ (Ended(c) => Over(c))
        /\ conns[c].late => conns[c].state = "Closed"
    BY <1>0, <1>1 DEF LifeInv
  <1>8. ~ Registering(c)
    BY <1>1, <1>7 DEF Early
  <1>9. /\ events[c] \in Event /\ events[c].read = Callbk(c, "onRead")
        /\ Callbk(c, "onWrite") \in Task
    <2>1. events \in Seq(Event) /\ DOMAIN events = Clients
      BY <1>0 DEF LoopsInv, Event, TypeOK
    <2>2. events[c] \in Event
      BY <1>1, <2>1, ElementOfSeq, LenProperties
    <2>3. c \in 1..MaxClients
      BY <1>1, <1>3
    <2> QED BY <1>0, <1>1, <2>2, <2>3 DEF LoopsInv, Callbk, Task
  <1> DEFINE e == Listen(events[c], "OUT", Callbk(c, "onWrite"))
  <1>10. /\ e \in Event /\ e.read = Callbk(c, "onRead") /\ e.write = Callbk(c, "onWrite")
         /\ e.mask = events[c].mask \cup {"OUT"} /\ events[c].mask \subseteq {"IN", "OUT"}
         /\ Update(c, e)
    BY <1>1, <1>9 DEF Listen, Event, Reply
  <1> HIDE DEF e
  <1>11. /\ LoopsInv' /\ DOMAIN events' = Clients' /\ events'[c] = e
         /\ \A d \in Clients : d # c => events'[d] = events[d]
         /\ Watched(loops'[t]) = Watched(loops[t]) \cup {Fd(c)}
         /\ loops'[t].epoll[Fd(c)] = e.mask
         /\ \A f \in Watched(loops[t]) : f # Fd(c) => loops'[t].epoll[f] = loops[t].epoll[f]
         /\ \A u \in IO : u # t => loops'[u] = loops[u]
    BY <1>0, <1>4, <1>5, <1>6, <1>10, UpdateKeeps
  <1>12. Ended(c)' => Over(c)'
    <2> SUFFICES ASSUME Ended(c)' PROVE Over(c)'
      OBVIOUS
    <2>1. conns'[c].thread = t /\ conns'[c].state = conns[c].state
      BY <1>1, <1>4
    <2>2. c # None
      BY <1>1, <1>3 DEF None
    <2>3. conns[c].state = "Closed" /\ Ended(c)
      BY <1>1, <1>2, <2>1, <2>2 DEF Ended
    <2>4. conns'[c].late /\ ~ In(batch[t], c, "onRead") /\ "IN" \notin events[c].mask
      BY <1>1, <1>4, <1>7, <2>3 DEF Over
    <2>5. e.mask = {"OUT"}
      BY <1>10, <2>4
    <2>6. batch' = batch
      BY <1>2
    <2> QED BY <1>11, <2>1, <2>4, <2>5, <2>6 DEF Over, In, Callbk, Watched, Fd
  <1>13. LifeInv'
    <2>1. ~ Registering(c)'
      BY <1>1, <1>2, <1>4, <1>8 DEF Registering, In, Callbk
    <2>2. \A d \in Clients : d # c =>
            /\ conns'[d] = conns[d] /\ events'[d] = events[d]
            /\ Fd(d) \in Watched(loops'[t]) =>
                 Fd(d) \in Watched(loops[t]) /\ loops'[t].epoll[Fd(d)] = loops[t].epoll[Fd(d)]
            /\ clearing'[t] = d => clearing[t] = d
      BY <1>2, <1>4, <1>6, <1>11
    <2>3. clearing'[t] = c => conns[c].state = "Connected"
      BY <1>0, <1>1, <1>2 DEF LifeInv
    <2>4. conns'[c].late => conns[c].state = "Closed"
      BY <1>4, <1>7
    <2>5. batch' = batch /\ clearing' = clearing /\ pending' = pending
      BY <1>2
    <2>6. \A u \in IO : u # t =>
            batch'[u] = batch[u] /\ loops'[u] = loops[u] /\ clearing'[u] = clearing[u]
      BY <1>11, <2>5
    <2>7. \A d \in Clients : conns'[d].thread = conns[d].thread /\ conns'[d].state = conns[d].state
      BY <1>4
    <2>8. Touches(t, c)
      BY <1>4, <1>12, <2>1, <2>2, <2>3, <2>4, <2>5, <2>6, <2>7 DEF Touches
    <2> QED BY <1>0, <1>6, <2>8, LifeTaken
  <1>14. TypeOK'
    BY <1>0, <1>2, <1>4, <1>11 DEF TypeOK, Conn
  <1>15. StartUpInv'
    BY <1>0, <1>2, StartUpKept
  <1>16. ConnsInv'
    <2>1. main = "onAccept" => Len(conns) \in Clients
      BY <1>0, <1>3 DEF ConnsInv
    <2> QED BY <1>0, <1>2, <1>4, <2>1 DEF ConnsInv, Fd
  <1>17. EvenInv'
    BY <1>0, <1>2, <1>5, EvenKept
  <1>18. QueuesInv'
    BY <1>0, <1>2, <1>5 DEF QueuesInv, IsInjective
  <1> QED BY <1>11, <1>13, <1>14, <1>15, <1>16, <1>17, <1>18 DEF ServerInv

-----------------------------------------------------------------------------
(* The invariant, and what follows from it. *)

LEMMA ServerInvStep == ServerInv /\ [Next]_vars => ServerInv'
  <1> SUFFICES ASSUME ServerInv, [Next]_vars PROVE ServerInv'
    OBVIOUS
  <1>1. CASE ReadConfig \/ MakeAcceptor \/ CreateThread \/ ThreadCreated \/ Start
    BY <1>1, StartUpKeeps
  <1>2. CASE OnAccept
    BY <1>2, OnAcceptKeeps
  <1>3. CASE SetState
    BY <1>3, SetStateKeeps
  <1>4. CASE AcceptFails
    BY <1>4, CrashKeeps DEF AcceptFails
  <1>5. CASE ClearClientTimerFunc
    BY <1>5, ClearClientTimerFuncKeeps
  <1>6. ASSUME NEW t \in IO, IOThread(t) PROVE ServerInv'
    <2>1. CASE MakeLoop(t)
      BY <2>1, MakeLoopKeeps
    <2>2. CASE StartLoop(t)
      BY <2>2, StartLoopKeeps
    <2>3. CASE RunTask(t)
      BY <2>3, RunTaskKeeps
    <2>4. CASE Closed(t)
      BY <2>4, ClosedKeeps
    <2>5. CASE Poll(t)
      BY <2>5, PollKeeps
    <2>6. CASE WriteKills(t)
      BY <2>6, WriteKillsKeeps
    <2>7. CASE NeverReturns(t)
      BY <2>7, NeverReturnsKeeps
    <2> QED BY <1>6, <2>1, <2>2, <2>3, <2>4, <2>5, <2>6, <2>7 DEF IOThread
  <1>7. ASSUME NEW c \in 1..MaxActive, Peer(c) PROVE ServerInv'
    BY <1>7, PeerKeeps, ServerAssumption
  <1>8. CASE UNCHANGED vars
    <2>0. TypeOK /\ StartUpInv /\ ConnsInv /\ EvenInv /\ LoopsInv /\ QueuesInv /\ LifeInv
      BY DEF ServerInv
    <2>1. /\ UNCHANGED <<main, size, io, initSem, startSem, index>>
          /\ UNCHANGED <<conns, peer, group, events, loops, pending, batch, clearing>>
      BY <1>8 DEF vars
    <2>2. TypeOK'
      BY <2>0, <2>1 DEF TypeOK, Clients
    <2>3. StartUpInv'
      BY <2>0, <2>1, StartUpKept
    <2>4. ConnsInv'
      BY <2>0, <2>1 DEF ConnsInv, Clients, Fd
    <2>5. EvenInv'
      BY <2>0, <2>1, EvenKept DEF Of, Clients
    <2>6. LoopsInv' /\ QueuesInv' /\ LifeInv'
      BY <2>0, <2>1, QueuesKept
    <2> QED BY <2>2, <2>3, <2>4, <2>5, <2>6 DEF ServerInv
  <1>9. ASSUME NEW t \in IO, LateReply(t) PROVE ServerInv'
    BY <1>9, LateReplyKeeps
  <1> QED BY <1>1, <1>2, <1>3, <1>4, <1>5, <1>6, <1>7, <1>8, <1>9 DEF Next, Main

(* The variables keep the types that the code gives them. *)
THEOREM ServerTyped == Spec => []TypeOK
  <1>1. ServerInv => TypeOK
    BY DEF ServerInv
  <1> QED BY <1>1, InitInv, ServerInvStep, PTL DEF Spec

(* onAccept hands a connection to a thread that has made its loop, no thread
   serves two connections more than another, and the group has an FdEvent for
   every number (TcpServer::onAccept, IOThreadGroup::getIOThread). *)
THEOREM HandedOutEvenly == Spec => []HandedOut
  <1>1. ServerInv => HandedOut
    <2> SUFFICES ASSUME ServerInv PROVE HandedOut
      OBVIOUS
    <2>0. TypeOK /\ StartUpInv /\ ConnsInv /\ EvenInv
      BY DEF ServerInv
    <2>1. \A c \in Clients : io[conns[c].thread] \in {"made", "looping", "stuck"}
      <3> SUFFICES ASSUME NEW c \in Clients PROVE io[conns[c].thread] \in {"made", "looping", "stuck"}
        OBVIOUS
      <3>1. main \in {"loop", "onAccept"} /\ conns[c].thread \in 1..size
        BY <2>0 DEF ConnsInv
      <3>2. \E k : Created = 1..k /\ k = size /\ \A t \in 1..k : io[t] = "created" => main = "wait"
        BY <2>0, <3>1 DEF StartUpInv
      <3>3. Created = 1..size /\ \A t \in 1..size : io[t] # "created"
        BY <3>1, <3>2
      <3>4. conns[c].thread \in IO /\ io[conns[c].thread] # "none"
        BY <3>1, <3>3 DEF Created
      <3> QED BY <2>0, <3>1, <3>3, <3>4 DEF TypeOK
    <2>2. \A c \in Clients : Fd(c) < group
      BY <2>0 DEF ConnsInv
    <2>3. \A t, u \in 1..size : Cardinality(Of(t)) <= Cardinality(Of(u)) + 1
      <3>1. CASE main = "crashed"
        <4>1. \A t : Of(t) = {}
          BY <2>0, <3>1 DEF ConnsInv, Of
        <4> QED BY <4>1, FS_EmptySet
      <3>2. CASE main # "crashed"
        <4>1. PICK q \in Nat : \A t \in 1..size : Cardinality(Of(t)) = IF t <= index THEN q + 1 ELSE q
          BY <2>0, <3>2 DEF EvenInv
        <4> QED BY <4>1
      <3> QED BY <3>1, <3>2
    <2> QED BY <2>1, <2>2, <2>3 DEF HandedOut
  <1> QED BY <1>1, InitInv, ServerInvStep, PTL DEF Spec

(* What ClearClientTimerFunc has freed is read no more: its thread is out of
   clear(), no onRead of it is queued, and epoll has its number only after a
   late answer, and for EPOLLOUT.  What can still touch it is an onWrite. *)
THEOREM FreedIsUnused == Spec => []FreedUnused
  <1>1. ServerInv => FreedUnused
    <2> SUFFICES ASSUME ServerInv, NEW c \in Clients, ~ conns[c].held, NEW t, t = conns[c].thread
                 PROVE  /\ Fd(c) \in Watched(loops[t]) =>
                             conns[c].late /\ loops[t].epoll[Fd(c)] = {"OUT"}
                        /\ clearing[t] # c
                        /\ \A i \in DOMAIN batch[t] : batch[t][i].conn = c => batch[t][i].run = "onWrite"
                        /\ \A i \in DOMAIN pending[t] : pending[t][i].conn # c
      BY DEF FreedUnused
    <2>0. TypeOK /\ ConnsInv /\ QueuesInv /\ LifeInv
      BY DEF ServerInv
    <2>1. conns[c].state = "Closed" /\ Ended(c)
      BY <2>0 DEF ConnsInv, Ended
    <2>2. /\ Fd(c) \in Watched(loops[t]) => conns[c].late /\ loops[t].epoll[Fd(c)] = {"OUT"}
          /\ ~ In(batch[t], c, "onRead")
          /\ ~ Registering(c)
          /\ clearing[t] # c
      BY <2>0, <2>1 DEF LifeInv, Early, Over
    <2>3. ~ In(batch[t], c, "add") /\ ~ In(pending[t], c, "add")
      BY <2>2 DEF Registering
    <2>4. t \in IO
      BY <2>0, ConnsSeq DEF Conn
    <2>5. \A i \in DOMAIN batch[t] : batch[t][i] \in Task
      <3>1. batch[t] \in Seq(Task)
        BY <2>0, <2>4 DEF TypeOK
      <3> QED BY <3>1, ElementOfSeq, LenProperties
    <2>6. \A i \in DOMAIN pending[t] : pending[t][i] \in Task
      <3>1. pending[t] \in Seq(Task)
        BY <2>0, <2>4 DEF TypeOK
      <3> QED BY <3>1, ElementOfSeq, LenProperties
    <2>7. \A task \in Task : task = Callbk(task.conn, task.run) /\ task.run \in {"add", "onRead", "onWrite"}
      BY DEF Task, Callbk
    <2>8. \A i \in DOMAIN batch[t] : batch[t][i].conn = c => batch[t][i].run = "onWrite"
      BY <2>2, <2>3, <2>5, <2>7 DEF In
    <2>9. \A i \in DOMAIN pending[t] : pending[t][i].conn # c
      <3>1. \A i \in DOMAIN pending[t] : pending[t][i].run = "add"
        BY <2>0, <2>4 DEF QueuesInv
      <3> QED BY <2>3, <2>6, <2>7, <3>1 DEF In
    <2> QED BY <2>2, <2>8, <2>9
  <1> QED BY <1>1, InitInv, ServerInvStep, PTL DEF Spec
=============================================================================
