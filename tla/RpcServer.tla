------------------------------ MODULE RpcServer ------------------------------
(***************************************************************************)
(* The server's side of a call, on one IO thread: RpcDispatcher::dispatch, *)
(* the service (CALL_RPC_INTERFACE of service/order_server.cc), the        *)
(* RpcInterface of the call, which replies when it is released, and the    *)
(* RpcClosures by which an application keeps it for later                  *)
(* (net/rpc/rpc_interface.cc, rpc_closure.h).                              *)
(*                                                                         *)
(* The handlers of one thread do not interleave: each is an action.  The   *)
(* main thread frees closed connections (TcpServer::ClearClientTimerFunc). *)
(* What an application does in run() and in its closures is left open.     *)
(***************************************************************************)
EXTENDS OrderMessages

CONSTANTS
    Conn,           \* the connections of the thread
    MaxRequests,    \* bound: requests that come in
    MaxClosures,    \* bound: RpcClosures made for one call
    MaxEarly,       \* bound: how often the application calls reply() for one call
    OkText,         \* "OK"
    ErrText,        \* the text of any error
    NoCall          \* a null m_rpc_interface

ASSUME ServerAssumption ==
    /\ MaxRequests \in Nat /\ MaxClosures \in Nat /\ MaxEarly \in Nat
    /\ NoCall \notin 1..MaxRequests

VARIABLES
    conn,       \* the state of each connection, or "freed"
    watched,    \* its descriptor is registered with epoll
    calls,      \* the accepted calls, in the order of their dispatch
    refused,    \* error codes of the requests refused
    runTime,    \* the thread's RunTime
    replies     \* what the connections have been given to send

vars == <<conn, watched, calls, refused, runTime, replies>>

-----------------------------------------------------------------------------
(* Requests. *)

\* Method names as the parts between their dots; m_service_map has the one
\* service that main registers, by its full name.
Names == {<< >>, <<"query_age">>, <<"QueryService", "query_age">>,
          <<"QueryService", "query_name">>, <<"QueryService", "drop">>,
          <<"order", "QueryService", "query_age">>}

m_service_map == {<<"QueryService">>}

Varint(n, v) == [num |-> n, wire |-> "varint", value |-> v]

\* The request a client builds: the first field has its default, and there is
\* one the server does not know.
Request(t) == [fields |-> [n \in DOMAIN t |-> IF n = 1 THEN 0 ELSE 7], unknown |-> <<Varint(9, 1)>>]

\* What arrives for a method name: the message that was built, and its bytes,
\* which may be cut off inside a last field.
Incoming(name) ==
    LET t   == IF Len(name) = 2 THEN RequestType(name[2]) ELSE queryAgeReq
        cut == [num |-> 2, wire |-> "cut", value |-> 0]
    IN  {[msg |-> Request(t), data |-> Serialized(t, Request(t)) \o e] : e \in {<< >>, <<cut>>}}

\* parseServiceFullName: the service is what stands before the first dot.
ServiceName(name) == SubSeq(name, 1, 1)
MethodName(name)  == SubSeq(name, 2, Len(name))

\* What dispatch makes of a request; an unknown method has the code of an
\* unknown service.
Verdict(name, data) ==
    IF Len(name) < 2 THEN "ERROR_PARSE_SERVICE_NAME"
    ELSE IF \/ ServiceName(name) \notin m_service_map
            \/ MethodName(name) \notin {<<m>> : m \in QueryService}
         THEN "ERROR_SERVICE_NOT_FOUND"
    ELSE IF ~ Parses(RequestType(name[2]), data) THEN "ERROR_FAILED_DESERIALIZE"
    ELSE "OK"

-----------------------------------------------------------------------------
(* The response of a call. *)

SetResult(rsp, code, info) == set_res_info(set_ret_code(rsp, code), info)

\* How run(), or the callback of an RpcClosure, ends: it returns, throws a
\* RocketException with a code, or throws something else.
Ends == {"returns", "throws code", "throws"}

\* The catch clauses of CALL_RPC_INTERFACE: of a RocketException only the
\* BusinessException keeps its code.
RunResult(rsp, end) ==
    CASE end = "returns"     -> rsp
      [] end = "throws code" -> SetResult(rsp, 5, ErrText)
      [] end = "throws"      -> SetResult(rsp, -1, ErrText)

\* The catch clauses of RpcClosure::Run, by RpcInterface::setError.
ClosureResult(rsp, end) ==
    CASE end = "returns"     -> rsp
      [] end = "throws code" -> SetResult(rsp, 6, ErrText)
      [] end = "throws"      -> SetResult(rsp, -1, ErrText)

-----------------------------------------------------------------------------
(* Replying. *)

\* Mutant of ReplyOf: the id comes from the RunTime.
ReplyFromRunTime(n, call) ==
    [call        |-> n,
     conn        |-> call.conn,
     msg_id      |-> runTime.msgid,
     method_name |-> call.method,
     pb_data     |-> Serialized(ResponseType(call.method), call.rsp),
     to          |-> conn[call.conn]]

\* The closure that dispatch made for call n: it serialises the response and
\* calls TcpConnection::reply with what it captured.
ReplyOf(n, call) ==
    [call        |-> n,
     conn        |-> call.conn,
     msg_id      |-> n,
     method_name |-> call.method,
     pb_data     |-> Serialized(ResponseType(call.method), call.rsp),
     to          |-> conn[call.conn]]

\* Mutant of ClosureRun: the test of the pointer the right way round.
ClosureRunStraight(own, current) == IF own = NoCall THEN current ELSE own

\* RpcClosure::Run sets the thread's interface when it has none itself.
ClosureRun(own, current) == IF own = NoCall THEN NoCall ELSE current

\* What the application replies itself, by reply(), before a handler ends:
\* nothing, or the response as it is then.  It has done so `early` times before.
Early(early, rsp) == {<< >>} \cup (IF early < MaxEarly THEN {<<rsp>>} ELSE {})

\* The end of a handler that leaves call n as `call`, after the replies `early`
\* of the application.  An interface that no closure holds is released:
\* ~RpcInterface replies by m_done->Run().  listenWrite registers the
\* descriptor again; a connection that was freed is written to all the same.
Finish(n, call, early, iface, msgid) ==
    LET released == call.closures = 0
        sent     == early \o (IF released THEN <<call.rsp>> ELSE << >>)
    IN  /\ calls' = [k \in 1..Len(calls) \cup {n} |->
                       IF k = n THEN [call EXCEPT !.alive = ~ released] ELSE calls[k]]
        /\ replies' = replies \o
             [k \in DOMAIN sent |-> ReplyOf(n, [call EXCEPT !.rsp = sent[k]])]
        /\ watched' = [watched EXCEPT ![call.conn] =
                         @ \/ (sent # << >> /\ conn[call.conn] # "freed")]
        /\ runTime' = [iface |-> IF sent = << >> THEN iface ELSE ClosureRun(NoCall, iface),
                       msgid |-> msgid]

-----------------------------------------------------------------------------

Message == [fields : Seq({0, 7}), unknown : Seq({Varint(9, 1)})]

Call == [conn : Conn, method : QueryService, sent : Message, req : Message,
         rsp : [fields : Seq({-1, 0, 5, 6, OkText, ErrText, EmptyText}), unknown : {<< >>}],
         closures : 0..MaxClosures, deferred : BOOLEAN, early : 0..MaxEarly, alive : BOOLEAN]

TypeOK ==
    /\ conn \in [Conn -> {"Connected", "Closed", "freed"}]
    /\ watched \in [Conn -> BOOLEAN]
    /\ calls \in Seq(Call)
    /\ refused \in Seq({"ERROR_PARSE_SERVICE_NAME", "ERROR_SERVICE_NOT_FOUND",
                        "ERROR_FAILED_DESERIALIZE"})
    /\ Len(calls) + Len(refused) <= MaxRequests
    /\ runTime \in [iface : {NoCall} \cup DOMAIN calls, msgid : 0..Len(calls)]
    /\ \A i \in DOMAIN replies : replies[i].call \in DOMAIN calls

Init ==
    /\ conn = [c \in Conn |-> "Connected"]
    /\ watched = [c \in Conn |-> TRUE]
    /\ calls = << >>
    /\ refused = << >>
    /\ runTime = [iface |-> NoCall, msgid |-> 0]
    /\ replies = << >>

\* Mutant of CanReceive: a connection that is closed is still read.
CanReceiveClosed(c) ==
    /\ conn[c] # "freed"
    /\ Len(calls) + Len(refused) < MaxRequests

CanReceive(c) ==
    /\ conn[c] = "Connected"
    /\ Len(calls) + Len(refused) < MaxRequests

\* dispatch returns early: the error is set in a response that nobody sends.
Refuse(c, name, request) ==
    /\ CanReceive(c)
    /\ Verdict(name, request.data) # "OK"
    /\ refused' = Append(refused, Verdict(name, request.data))
    /\ UNCHANGED <<conn, watched, calls, runTime, replies>>

\* dispatch and all it calls: CallMethod, CALL_RPC_INTERFACE, run(), which may
\* make RpcClosures and call reply() itself before it returns or throws, and
\* the release of what nothing holds.
Dispatch(c, name, request) ==
    /\ CanReceive(c)
    /\ Verdict(name, request.data) = "OK"
    /\ \E end \in Ends, held \in 0..MaxClosures,
          early \in Early(0, SetResult(NewMessage(ResponseType(name[2])), 0, OkText)) :
         LET n    == Len(calls) + 1
             rsp  == SetResult(NewMessage(ResponseType(name[2])), 0, OkText)
             call == [conn |-> c, method |-> name[2], sent |-> request.msg,
                      req |-> Parsed(RequestType(name[2]), request.data),
                      rsp |-> RunResult(rsp, end), closures |-> held,
                      deferred |-> held > 0, early |-> Len(early),
                      alive |-> TRUE]
         IN  Finish(n, call, early, n, n)
    /\ UNCHANGED <<conn, refused>>

\* Mutant of RunClosure: a callback that throws keeps the interface.
RunClosureKept(n) ==
    /\ calls[n].closures > 0
    /\ \E end \in Ends :
         Finish(n, [calls[n] EXCEPT !.rsp = ClosureResult(@, end),
                                    !.closures = IF end = "returns" THEN @ - 1 ELSE @],
                << >>, ClosureRun(n, runTime.iface), runTime.msgid)
    /\ UNCHANGED <<conn, refused>>

\* The application runs an RpcClosure of call n: Run, whose callback may call
\* reply(), and which gives up its share of the interface however it ends.
RunClosure(n) ==
    /\ calls[n].closures > 0
    /\ \E end \in Ends, early \in Early(calls[n].early, calls[n].rsp) :
         Finish(n, [calls[n] EXCEPT !.rsp = ClosureResult(@, end), !.closures = @ - 1,
                                    !.early = @ + Len(early)],
                early, ClosureRun(n, runTime.iface), runTime.msgid)
    /\ UNCHANGED <<conn, refused>>

\* The application drops one without running it, as the channel of a nested
\* call does: the response stays as it is.
DropClosure(n) ==
    /\ calls[n].closures > 0
    /\ Finish(n, [calls[n] EXCEPT !.closures = @ - 1], << >>, runTime.iface, runTime.msgid)
    /\ UNCHANGED <<conn, refused>>

\* TcpConnection::onRead reads the end of the stream: clear.
Clear(c) ==
    /\ conn[c] = "Connected"
    /\ conn' = [conn EXCEPT ![c] = "Closed"]
    /\ watched' = [watched EXCEPT ![c] = FALSE]
    /\ UNCHANGED <<calls, refused, runTime, replies>>

\* ClearClientTimerFunc releases the connection; nothing is unregistered.
Free(c) ==
    /\ conn[c] = "Closed"
    /\ conn' = [conn EXCEPT ![c] = "freed"]
    /\ UNCHANGED <<watched, calls, refused, runTime, replies>>

Application(n) == RunClosure(n) \/ DropClosure(n)

Next ==
    \/ \E c \in Conn, name \in Names : \E request \in Incoming(name) :
         Refuse(c, name, request) \/ Dispatch(c, name, request)
    \/ \E n \in DOMAIN calls : RunClosure(n) \/ DropClosure(n)
    \/ \E c \in Conn : Clear(c) \/ Free(c)

Spec == Init /\ [][Next]_vars

\* The application runs or drops every RpcClosure it has made.
FairSpec == Spec /\ \A n \in 1..MaxRequests : WF_vars(n \in DOMAIN calls /\ Application(n))

-----------------------------------------------------------------------------
(* What must hold. *)

\* A call is answered when its interface is released, then and once only, apart
\* from the times the application calls reply() itself (which the comment at
\* rpc_interface.cc:48 asks it to do).  Each answer goes to the connection the
\* request came from, with its id and method, and the last one says what run()
\* and the closures made of it, whatever the thread has dispatched since.  What
\* run() sees is the message the client built.
AnswerIsOwn ==
    \A n \in DOMAIN calls :
      LET own == {i \in DOMAIN replies : replies[i].call = n}
      IN  /\ calls[n].req = calls[n].sent
          /\ Cardinality(own) = calls[n].early + (IF calls[n].alive THEN 0 ELSE 1)
          /\ \A i \in own :
               /\ replies[i].conn = calls[n].conn
               /\ replies[i].msg_id = n
               /\ replies[i].method_name = calls[n].method
               /\ ~ calls[n].alive /\ (\A j \in own : j <= i) =>
                    Parsed(ResponseType(calls[n].method), replies[i].pb_data) = calls[n].rsp

\* The thread's m_rpc_interface is a raw pointer.  It is null or an interface
\* that still exists: every release goes through an RpcClosure that has no
\* interface, and that one sets it to null.
RunTimeAlive == runTime.iface # NoCall => calls[runTime.iface].alive

\* The lambda of dispatch holds the connection as a raw pointer.  Only a call
\* that the application has put off can reply to a connection that is closed or
\* freed, and only such a reply registers a closed connection again.
LateAnswersDeferred ==
    /\ \A i \in DOMAIN replies : replies[i].to # "Connected" => calls[replies[i].call].deferred
    /\ \A c \in Conn : conn[c] # "Connected" /\ watched[c] =>
         \E i \in DOMAIN replies : replies[i].conn = c /\ replies[i].to = "Closed"

\* Every call that is accepted is answered.  (A request that is refused never is.)
CallsAnswered ==
    \A n \in 1..MaxRequests :
      (n \in DOMAIN calls) ~> (n \in DOMAIN calls /\ \E i \in DOMAIN replies : replies[i].call = n)

=============================================================================
