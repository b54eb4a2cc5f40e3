----------------------------- MODULE RpcChannel ------------------------------
(***************************************************************************)
(* Calls made one after another with one RpcController                     *)
(* (net/rpc/rpc_controller.cc), each through an RpcChannel of its own      *)
(* (net/rpc/rpc_channel.cc, CALLRPRC): connect, write the request, read    *)
(* the response, and the timer that cancels the call.  All of it runs in   *)
(* one thread, as callbacks of its event loop; their order is open.        *)
(*                                                                         *)
(* A call's timer owns its channel, and with it the TcpClient.  If the     *)
(* loop was already running when the call was made, nobody else does.  If  *)
(* not, CallMethod itself runs the loop, and its caller keeps the channel  *)
(* until it returns, which it does not do.                                 *)
(***************************************************************************)
EXTENDS Naturals

CONSTANTS
    HasClosure,     \* the caller gives a closure; without one an answered
                    \* call is never finished (callBack)
    Nested,         \* the loop is already running at the first call
    Careful,        \* the caller resets the controller only when nothing is
                    \* left of the call before, whose timer would otherwise
                    \* cancel the next one
    MaxCalls        \* bound: calls made with the controller

ASSUME ChannelAssumption ==
    /\ HasClosure \in BOOLEAN /\ Nested \in BOOLEAN /\ Careful \in BOOLEAN
    /\ MaxCalls \in Nat \ {0}

VARIABLES
    cur,        \* the call to be made, or made last
    finished,   \* m_is_finished of the controller
    failed,     \* m_is_failed
    error,      \* m_error_code
    phase,      \* per call: what its TcpClient is at
    timer,      \* per call: its TimerEvent, "none", "pending" or "fired"
    runs,       \* per call: how often its closure has run
    answer      \* per call: what the server has answered

controller == <<finished, failed, error>>
vars == <<cur, finished, failed, error, phase, timer, runs, answer>>

Call   == 1..MaxCalls
Errors == {"none", "peer addr", "serialize", "connect", "timeout", "server"}

TypeOK ==
    /\ cur \in Call
    /\ finished \in BOOLEAN /\ failed \in BOOLEAN
    /\ error \in Errors /\ (failed <=> error # "none")
    /\ phase \in [Call -> {"idle", "connecting", "writing", "reading", "over"}]
    /\ timer \in [Call -> {"none", "pending", "fired"}]
    /\ runs \in [Call -> Nat]
    /\ answer \in [Call -> {"none", "good", "bad"}]

Init ==
    /\ cur = 1
    /\ finished = FALSE
    /\ failed = FALSE
    /\ error = "none"
    /\ phase = [c \in Call |-> "idle"]
    /\ timer = [c \in Call |-> "none"]
    /\ runs = [c \in Call |-> 0]
    /\ answer = [c \in Call |-> "none"]

-----------------------------------------------------------------------------

Goto(c, p) == phase' = [phase EXCEPT ![c] = p]

\* Mutant of CallBack: the call is not marked as finished.
CallBackUnfinished(c, fin) ==
    /\ finished' = fin
    /\ IF ~ fin /\ HasClosure THEN runs' = [runs EXCEPT ![c] = @ + 1] ELSE UNCHANGED runs

\* callBack, called with m_is_finished = fin: nothing once the call is finished;
\* else the closure runs, if there is one, and only then is the call finished.
CallBack(c, fin) ==
    IF ~ fin /\ HasClosure
    THEN runs' = [runs EXCEPT ![c] = @ + 1] /\ finished' = TRUE
    ELSE finished' = fin /\ UNCHANGED runs

\* SetError, then callBack.
FailWith(c, e) ==
    /\ error' = e
    /\ failed' = TRUE
    /\ CallBack(c, finished)

\* CallMethod returns before there is a timer: no peer address, or a request
\* that cannot be serialised.
CallRefused ==
    /\ phase[cur] = "idle"
    /\ \E e \in {"peer addr", "serialize"} : FailWith(cur, e)
    /\ Goto(cur, "over")
    /\ UNCHANGED <<cur, timer, answer>>

\* CallMethod adds the timer and begins to connect.
CallMethod ==
    /\ phase[cur] = "idle"
    /\ Goto(cur, "connecting")
    /\ timer' = [timer EXCEPT ![cur] = "pending"]
    /\ UNCHANGED <<cur, controller, runs, answer>>

\* The callback of connect, at once or from the loop: an error ends the call,
\* else the request is handed to the connection, even if the call is finished.
Connected(c) ==
    /\ phase[c] = "connecting"
    /\ Goto(c, "writing")
    /\ UNCHANGED <<cur, controller, timer, runs, answer>>

ConnectFails(c) ==
    /\ phase[c] = "connecting"
    /\ FailWith(c, "connect")
    /\ Goto(c, "over")
    /\ UNCHANGED <<cur, timer, answer>>

\* The callback of writeMessage listens for the response.
Written(c) ==
    /\ phase[c] = "writing"
    /\ Goto(c, "reading")
    /\ UNCHANGED <<cur, controller, timer, runs, answer>>

\* The callback of readMessage, which is erased after it.  An answer that
\* cannot be parsed or has an error code fails the call.
ResponseGood(c) ==
    /\ phase[c] = "reading"
    /\ answer' = [answer EXCEPT ![c] = "good"]
    /\ CallBack(c, finished)
    /\ Goto(c, "over")
    /\ UNCHANGED <<cur, timer, failed, error>>

ResponseBad(c) ==
    /\ phase[c] = "reading"
    /\ answer' = [answer EXCEPT ![c] = "bad"]
    /\ \E e \in {"serialize", "server"} : FailWith(c, e)
    /\ Goto(c, "over")
    /\ UNCHANGED <<cur, timer>>

\* The connection is closed by the peer: TcpConnection::clear tells nobody.
ConnectionLost(c) ==
    /\ phase[c] \in {"writing", "reading"}
    /\ Goto(c, "over")
    /\ UNCHANGED <<cur, controller, timer, runs, answer>>

\* Mutant of Cancel: StartCancel without SetFinished, and no callBack.
CancelUnfinished(c) ==
    failed' = TRUE /\ error' = "timeout" /\ UNCHANGED <<finished, runs>>

\* StartCancel, which marks the call as failed and as finished, SetError and
\* callBack, which therefore finds the call finished.
Cancel(c) == failed' = TRUE /\ error' = "timeout" /\ CallBack(c, TRUE)

\* Mutant of Timeout: whether the call is finished is not asked.
TimeoutUnasked(c) ==
    /\ timer[c] = "pending"
    /\ timer' = [timer EXCEPT ![c] = "fired"]
    /\ Cancel(c)
    /\ Goto(c, IF Nested \/ c > 1 THEN "over" ELSE phase[c])
    /\ UNCHANGED <<cur, answer>>

\* The timer's callback.  With it go the channel and its TcpClient, if nothing
\* else owns them: no further callback of the call comes.
Timeout(c) ==
    /\ timer[c] = "pending"
    /\ timer' = [timer EXCEPT ![c] = "fired"]
    /\ IF finished THEN UNCHANGED <<controller, runs>> ELSE Cancel(c)
    /\ Goto(c, IF Nested \/ c > 1 THEN "over" ELSE phase[c])
    /\ UNCHANGED <<cur, answer>>

\* The caller resets the controller, for another call.
Reset ==
    /\ finished /\ cur < MaxCalls
    /\ Careful => timer[cur] # "pending" /\ phase[cur] = "over"
    /\ cur' = cur + 1
    /\ finished' = FALSE /\ failed' = FALSE /\ error' = "none"
    /\ UNCHANGED <<phase, timer, runs, answer>>

Event(c) ==
    \/ Connected(c) \/ ConnectFails(c) \/ Written(c)
    \/ ResponseGood(c) \/ ResponseBad(c) \/ ConnectionLost(c)
    \/ Timeout(c)

Next == CallRefused \/ CallMethod \/ Reset \/ \E c \in Call : Event(c)

Spec == Init /\ [][Next]_vars

\* The timers fire; nothing is known of the network and the server.
FairSpec == Spec /\ \A c \in Call : WF_vars(Timeout(c))

-----------------------------------------------------------------------------
(* What must hold. *)

\* What the controller says of the last call.
Verdict == IF ~ finished THEN "none" ELSE IF failed THEN "failed" ELSE "succeeded"

\* A call is a call as its caller understands it: one verdict, which no late
\* response and no late timer turns around, and success only with an answer.
Promise == INSTANCE RpcCall WITH verdict <- Verdict, answer <- answer[cur]
IsCall  == Promise!Spec

\* A closure runs at most once, of whatever call and however late its callbacks
\* come, and what it has seen stays until the caller resets the controller.
ClosureIsLast ==
    [][\A c \in Call : runs[c] = 1 =>
         /\ runs'[c] = 1
         /\ c = cur /\ cur' = cur => UNCHANGED <<controller, answer[c]>>]_vars

\* A call that has begun is finished, whatever the network does.
CallFinishes == \A c \in Call : (cur = c /\ phase[c] # "idle") ~> (finished \/ cur > c)

\* order_server/test_client/test_query_age_client.cc:38-49: the closure runs
\* for a failed call as well and can ask the controller for the error.  After a
\* timeout it never runs: StartCancel has finished the call before callBack.
ClosureRuns == \A c \in Call : (phase[c] # "idle") ~> (runs[c] = 1)
=============================================================================
