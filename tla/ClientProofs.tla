---------------------------- MODULE ClientProofs ----------------------------
(***************************************************************************)
(* The client's side.                                                      *)
(*                                                                         *)
(* RpcChannel: with a closure, and a caller that resets the controller     *)
(* only when nothing is left of the call before, a call is what RpcCall    *)
(* promises.                                                               *)
(*                                                                         *)
(* TcpClient: who waits for an event is registered for it, and what epoll  *)
(* calls belongs to the client that holds the number.                      *)
(***************************************************************************)
EXTENDS RpcChannel, TcpClient, FdEventLemmas, WellFoundedInduction

-----------------------------------------------------------------------------
(* RpcChannel. *)

\* Types of the parts the proofs below change.
ChannelTypes ==
    /\ cur \in Call
    /\ finished \in BOOLEAN /\ failed \in BOOLEAN
    /\ phase \in [Call -> {"idle", "connecting", "writing", "reading", "over"}]
    /\ timer \in [Call -> {"none", "pending", "fired"}]
    /\ runs \in [Call -> Nat]
    /\ answer \in [Call -> {"none", "good", "bad"}]

\* Nothing is left of the calls before the last one, and those after it have
\* not begun.
OthersQuiet ==
    /\ \A c \in Call : c < cur => phase[c] = "over" /\ timer[c] # "pending"
    /\ \A c \in Call : c > cur => phase[c] = "idle" /\ timer[c] = "none" /\ answer[c] = "none"

\* What the last call and the controller know of each other.
CurrentInv ==
    /\ phase[cur] = "idle" => timer[cur] = "none"
    /\ phase[cur] # "over" => answer[cur] = "none"
    /\ ~ finished => answer[cur] = "none" /\ ~ failed
    /\ finished /\ phase[cur] # "over" => failed /\ phase[cur] # "idle"

ChannelInv == ChannelTypes /\ OthersQuiet /\ CurrentInv

LEMMA CallBackTypes ==
    ASSUME ChannelTypes, NEW c \in Call, NEW fin \in BOOLEAN, CallBack(c, fin)
    PROVE  finished' \in BOOLEAN /\ runs' \in [Call -> Nat]
  <1>1. finished' \in BOOLEAN
    BY DEF CallBack
  <1>2. runs' = runs \/ runs' = [runs EXCEPT ![c] = runs[c] + 1]
    BY DEF CallBack
  <1>3. runs \in [Call -> Nat]
    BY DEF ChannelTypes
  <1>4. runs' \in [Call -> Nat]
    BY <1>2, <1>3
  <1> QED BY <1>1, <1>4

LEMMA TypesStep ==
    ASSUME ChannelTypes, [Next]_vars
    PROVE  ChannelTypes'
  <1>1. CASE CallRefused
    <2>1. finished' \in BOOLEAN /\ runs' \in [Call -> Nat]
      BY <1>1, CallBackTypes DEF CallRefused, FailWith, ChannelTypes
    <2> QED BY <1>1, <2>1 DEF CallRefused, FailWith, Goto, ChannelTypes
  <1>2. CASE CallMethod
    BY <1>2 DEF CallMethod, Goto, controller, ChannelTypes
  <1>3. CASE Reset
    <2>1. cur' \in Call
      BY <1>3, ChannelAssumption DEF Reset, ChannelTypes, Call
    <2> QED BY <1>3, <2>1 DEF Reset, ChannelTypes
  <1>4. ASSUME NEW c \in Call, Connected(c) \/ Written(c) \/ ConnectionLost(c)
        PROVE  ChannelTypes'
    BY <1>4 DEF Connected, Written, ConnectionLost, Goto, controller, ChannelTypes
  <1>5. ASSUME NEW c \in Call, ConnectFails(c) PROVE ChannelTypes'
    <2>1. finished' \in BOOLEAN /\ runs' \in [Call -> Nat]
      BY <1>5, CallBackTypes DEF ConnectFails, FailWith, ChannelTypes
    <2> QED BY <1>5, <2>1 DEF ConnectFails, FailWith, Goto, ChannelTypes
  <1>6. ASSUME NEW c \in Call, ResponseGood(c) PROVE ChannelTypes'
    <2>1. finished' \in BOOLEAN /\ runs' \in [Call -> Nat]
      BY <1>6, CallBackTypes DEF ResponseGood, ChannelTypes
    <2> QED BY <1>6, <2>1 DEF ResponseGood, Goto, ChannelTypes
  <1>7. ASSUME NEW c \in Call, ResponseBad(c) PROVE ChannelTypes'
    <2>1. finished' \in BOOLEAN /\ runs' \in [Call -> Nat]
      BY <1>7, CallBackTypes DEF ResponseBad, FailWith, ChannelTypes
    <2> QED BY <1>7, <2>1 DEF ResponseBad, FailWith, Goto, ChannelTypes
  <1>8. ASSUME NEW c \in Call, Timeout(c) PROVE ChannelTypes'
    <2>1. finished' \in BOOLEAN /\ runs' \in [Call -> Nat] /\ failed' \in BOOLEAN
      BY <1>8, CallBackTypes DEF Timeout, Cancel, controller, ChannelTypes
    <2>2. phase' \in [Call -> {"idle", "connecting", "writing", "reading", "over"}]
      BY <1>8 DEF Timeout, Goto, ChannelTypes
    <2> QED BY <1>8, <2>1, <2>2 DEF Timeout, ChannelTypes
  <1>9. CASE UNCHANGED vars
    BY <1>9 DEF vars, controller, ChannelTypes
  <1> QED BY <1>1, <1>2, <1>3, <1>4, <1>5, <1>6, <1>7, <1>8, <1>9 DEF Next, Event

(* An event of the last call, or its beginning, leaves the others alone. *)
LEMMA OwnEvent ==
    ASSUME ChannelInv, NEW c \in Call, Event(c)
    PROVE  c = cur
  <1>1. phase[c] # "over" \/ timer[c] = "pending"
    BY DEF Event, Connected, ConnectFails, Written, ResponseGood, ResponseBad,
           ConnectionLost, Timeout
  <1>2. phase[c] # "idle" \/ timer[c] = "pending"
    BY DEF Event, Connected, ConnectFails, Written, ResponseGood, ResponseBad,
           ConnectionLost, Timeout
  <1>3. ~ (c < cur) /\ ~ (c > cur)
    BY <1>1, <1>2 DEF ChannelInv, OthersQuiet
  <1>4. c \in Nat /\ cur \in Nat
    BY ChannelAssumption DEF ChannelInv, ChannelTypes, Call
  <1> QED BY <1>3, <1>4

LEMMA QuietStep ==
    ASSUME ChannelInv, Careful, [Next]_vars
    PROVE  OthersQuiet'
  <1> USE DEF ChannelInv, ChannelTypes
  <1>0. \A c \in Call : ~ (c < c) /\ ~ (c > c)
    BY ChannelAssumption DEF Call
  <1>1. CASE /\ cur' = cur
             /\ \A c \in Call : c # cur => phase'[c] = phase[c] /\ timer'[c] = timer[c]
                                            /\ answer'[c] = answer[c]
    BY <1>0, <1>1 DEF OthersQuiet
  <1>2. CASE Reset
    <2>1. cur' = cur + 1 /\ UNCHANGED <<phase, timer, answer>>
      BY <1>2 DEF Reset
    <2>2. timer[cur] # "pending" /\ phase[cur] = "over"
      BY <1>2 DEF Reset
    <2>3. ASSUME NEW c \in Call
          PROVE  /\ c < cur + 1 => c < cur \/ c = cur
                 /\ c > cur + 1 => c > cur
      BY ChannelAssumption DEF Call
    <2> QED BY <2>1, <2>2, <2>3 DEF OthersQuiet
  <1>3. CASE CallRefused \/ CallMethod
    <2>1. /\ cur' = cur
          /\ \A c \in Call : c # cur => phase'[c] = phase[c] /\ timer'[c] = timer[c]
                                         /\ answer'[c] = answer[c]
      BY <1>3 DEF CallRefused, CallMethod, Goto
    <2> QED BY <1>1, <2>1
  <1>4. ASSUME NEW d \in Call, Event(d) PROVE OthersQuiet'
    <2>1. d = cur
      BY <1>4, OwnEvent
    <2>2. /\ cur' = cur
          /\ \A c \in Call : c # cur => phase'[c] = phase[c] /\ timer'[c] = timer[c]
                                         /\ answer'[c] = answer[c]
      BY <1>4, <2>1 DEF Event, Connected, ConnectFails, Written, ResponseGood,
           ResponseBad, ConnectionLost, Timeout, Goto
    <2> QED BY <1>1, <2>2
  <1>5. CASE UNCHANGED vars
    BY <1>5 DEF vars, OthersQuiet
  <1> QED BY <1>2, <1>3, <1>4, <1>5 DEF Next

LEMMA CurrentStep ==
    ASSUME ChannelInv, HasClosure, Careful, [Next]_vars
    PROVE  CurrentInv'
  <1> USE DEF ChannelInv, ChannelTypes, CurrentInv
  <1>1. CASE CallRefused
    BY <1>1 DEF CallRefused, FailWith, CallBack, Goto
  <1>2. CASE CallMethod
    BY <1>2 DEF CallMethod, Goto, controller
  <1>3. CASE Reset
    <2>1. cur' \in Call /\ cur' > cur
      BY <1>3, ChannelAssumption DEF Reset, Call
    <2>2. phase[cur'] = "idle" /\ timer[cur'] = "none" /\ answer[cur'] = "none"
      BY <2>1 DEF OthersQuiet
    <2> QED BY <1>3, <2>2 DEF Reset
  <1>4. ASSUME NEW c \in Call, Event(c) PROVE CurrentInv'
    <2>0. c = cur
      BY <1>4, OwnEvent
    <2>1. CASE Connected(cur) \/ Written(cur) \/ ConnectionLost(cur)
      BY <2>1 DEF Connected, Written, ConnectionLost, Goto, controller
    <2>2. CASE ConnectFails(cur)
      BY <2>2 DEF ConnectFails, FailWith, CallBack, Goto
    <2>3. CASE ResponseGood(cur)
      BY <2>3 DEF ResponseGood, CallBack, Goto
    <2>4. CASE ResponseBad(cur)
      BY <2>4 DEF ResponseBad, FailWith, CallBack, Goto
    <2>5. CASE Timeout(cur)
      BY <2>5 DEF Timeout, Cancel, CallBack, Goto, controller
    <2> QED BY <1>4, <2>0, <2>1, <2>2, <2>3, <2>4, <2>5 DEF Event
  <1>5. CASE UNCHANGED vars
    BY <1>5 DEF vars, controller
  <1> QED BY <1>1, <1>2, <1>3, <1>4, <1>5 DEF Next

LEMMA CallInvInitially == Init => ChannelInv
  <1>1. 1 \in Call /\ 0 \in Nat /\ \A c \in Call : ~ (c < 1)
    BY ChannelAssumption DEF Call
  <1> QED BY <1>1 DEF Init, ChannelInv, ChannelTypes, OthersQuiet, CurrentInv

(* Each step of a call is a step of the promised one, or none of its. *)
LEMMA StepRefines ==
    ASSUME ChannelInv, HasClosure, Careful, [Next]_vars
    PROVE  [Promise!Next]_(Promise!vars)
  <1> USE DEF ChannelInv, ChannelTypes, CurrentInv, Verdict, Promise!vars
  <1>1. CASE CallRefused
    <2>1. Verdict = "none" /\ Verdict' = "failed" /\ answer' = answer /\ cur' = cur
      BY <1>1 DEF CallRefused, FailWith, CallBack
    <2> QED BY <1>1, <2>1 DEF Promise!Next, Promise!Fail, CallRefused
  <1>2. CASE CallMethod
    BY <1>2 DEF CallMethod, controller
  <1>3. CASE Reset
    <2>1. cur' \in Call /\ cur' > cur
      BY <1>3, ChannelAssumption DEF Reset, Call
    <2>2. answer'[cur'] = "none" /\ Verdict # "none" /\ Verdict' = "none"
      BY <1>3, <2>1 DEF Reset, OthersQuiet
    <2> QED BY <2>2 DEF Promise!Next, Promise!NextCall
  <1>4. ASSUME NEW c \in Call, Event(c) PROVE [Promise!Next]_(Promise!vars)
    <2>0. c = cur
      BY <1>4, OwnEvent
    <2>1. CASE Connected(cur) \/ Written(cur) \/ ConnectionLost(cur)
      BY <2>1 DEF Connected, Written, ConnectionLost, controller
    <2>2. CASE ConnectFails(cur)
      <3>1. CASE finished
        BY <2>2, <3>1 DEF ConnectFails, FailWith, CallBack
      <3>2. CASE ~ finished
        <4>1. Verdict = "none" /\ Verdict' = "failed" /\ answer' = answer /\ cur' = cur
          BY <2>2, <3>2 DEF ConnectFails, FailWith, CallBack
        <4> QED BY <3>2, <4>1 DEF Promise!Next, Promise!Fail
      <3> QED BY <3>1, <3>2
    <2>3. CASE ResponseGood(cur)
      <3>0. answer[cur] = "none" /\ answer'[cur'] = "good" /\ failed' = failed
        BY <2>3 DEF ResponseGood
      <3>1. CASE finished
        <4>1. Verdict = "failed" /\ Verdict' = "failed"
          BY <2>3, <3>1 DEF ResponseGood, CallBack
        <4> QED BY <3>0, <4>1 DEF Promise!Next, Promise!AnswerLate
      <3>2. CASE ~ finished
        <4>1. Verdict = "none" /\ Verdict' = "succeeded"
          BY <2>3, <3>2 DEF ResponseGood, CallBack
        <4> QED BY <3>0, <4>1 DEF Promise!Next, Promise!Answer
      <3> QED BY <3>1, <3>2
    <2>4. CASE ResponseBad(cur)
      <3>0. answer[cur] = "none" /\ answer'[cur'] = "bad" /\ failed' = TRUE
        BY <2>4 DEF ResponseBad, FailWith
      <3>1. CASE finished
        <4>1. Verdict = "failed" /\ Verdict' = "failed"
          BY <2>4, <3>0, <3>1 DEF ResponseBad, FailWith, CallBack
        <4> QED BY <3>0, <4>1 DEF Promise!Next, Promise!AnswerLate
      <3>2. CASE ~ finished
        <4>1. Verdict = "none" /\ Verdict' = "failed"
          BY <2>4, <3>0, <3>2 DEF ResponseBad, FailWith, CallBack
        <4> QED BY <3>0, <4>1 DEF Promise!Next, Promise!Answer
      <3> QED BY <3>1, <3>2
    <2>5. CASE Timeout(cur)
      <3>1. CASE finished
        BY <2>5, <3>1 DEF Timeout, controller
      <3>2. CASE ~ finished
        <4>1. Verdict = "none" /\ Verdict' = "failed" /\ answer' = answer /\ cur' = cur
          BY <2>5, <3>2 DEF Timeout, Cancel, CallBack
        <4> QED BY <3>2, <4>1 DEF Promise!Next, Promise!Fail
      <3> QED BY <3>1, <3>2
    <2> QED BY <1>4, <2>0, <2>1, <2>2, <2>3, <2>4, <2>5 DEF Event
  <1>5. CASE UNCHANGED vars
    BY <1>5 DEF vars, controller
  <1> QED BY <1>1, <1>2, <1>3, <1>4, <1>5 DEF Next

-----------------------------------------------------------------------------

(* With a closure and a careful caller, the calls made through RpcChannels    *)
(* are calls as RpcCall promises them: one verdict each, which no late       *)
(* response and no late timer turns around.                                  *)
THEOREM CallRefines ==
    ASSUME HasClosure, Careful
    PROVE  Spec => IsCall
  <1>1. Init => Promise!Init
    BY CallInvInitially DEF Init, Promise!Init, Verdict, ChannelInv, ChannelTypes
  <1>2. ChannelInv /\ [Next]_vars => ChannelInv'
    BY TypesStep, QuietStep, CurrentStep DEF ChannelInv
  <1>3. ChannelInv /\ [Next]_vars => [Promise!Next]_(Promise!vars)
    BY StepRefines
  <1> QED BY <1>1, <1>2, <1>3, CallInvInitially, PTL DEF Spec, IsCall, Promise!Spec

-----------------------------------------------------------------------------
(* The closure. *)

\* A closure that has run has left its call finished and its client with
\* nothing more to do; that of a later call has not run.
ClosureInv ==
    /\ \A c \in Call : runs[c] \in {0, 1}
    /\ \A c \in Call : c > cur => runs[c] = 0
    /\ runs[cur] = 1 => finished /\ phase[cur] = "over"

\* What a step does to the closures and to what they have seen.
ClosureKept ==
    \A c \in Call : runs[c] = 1 =>
      /\ runs'[c] = 1
      /\ c = cur /\ cur' = cur => UNCHANGED <<controller, answer[c]>>

(* callBack runs the closure of an unfinished call, and of no other. *)
LEMMA CallBackCloses ==
    ASSUME ChannelTypes, ClosureInv, NEW fin \in BOOLEAN, CallBack(cur, fin), fin = finished
    PROVE  /\ \A c \in Call : runs[c] = 1 => runs'[c] = 1
           /\ \A c \in Call : runs'[c] \in {0, 1}
           /\ \A c \in Call : c # cur => runs'[c] = runs[c]
           /\ fin => runs' = runs /\ finished'
           /\ runs'[cur] = 1 => finished' \/ runs[cur] = 1
  <1>1. runs \in [Call -> Nat] /\ cur \in Call /\ runs[cur] \in {0, 1}
    BY DEF ChannelTypes, ClosureInv
  <1>2. CASE ~ fin /\ HasClosure
    <2>1. runs' = [runs EXCEPT ![cur] = runs[cur] + 1] /\ finished' = TRUE
      BY <1>2 DEF CallBack
    <2>2. runs[cur] = 0
      BY <1>1, <1>2 DEF ClosureInv
    <2> QED BY <1>1, <1>2, <2>1, <2>2 DEF ClosureInv
  <1>3. CASE fin \/ ~ HasClosure
    <2>1. runs' = runs /\ finished' = fin
      BY <1>3 DEF CallBack
    <2> QED BY <2>1 DEF ClosureInv
  <1> QED BY <1>2, <1>3

LEMMA ClosureStep ==
    ASSUME ChannelInv, ClosureInv, Careful, [Next]_vars
    PROVE  ClosureInv' /\ ClosureKept
  <1>0. /\ ChannelTypes /\ cur \in Call /\ runs \in [Call -> Nat] /\ finished \in BOOLEAN
        /\ \A c \in Call : ~ (c > c)
    BY ChannelAssumption DEF ChannelInv, ChannelTypes, Call
  <1>1. ASSUME CallBack(cur, finished), phase[cur] # "over", cur' = cur, phase'[cur] = "over"
        PROVE  ClosureInv' /\ ClosureKept
    <2>1. runs[cur] = 0
      BY <1>0, <1>1 DEF ClosureInv
    <2>2. /\ \A c \in Call : runs[c] = 1 => runs'[c] = 1
          /\ \A c \in Call : runs'[c] \in {0, 1}
          /\ \A c \in Call : c # cur => runs'[c] = runs[c]
          /\ runs'[cur] = 1 => finished' \/ runs[cur] = 1
      BY <1>0, <1>1, CallBackCloses
    <2>3. ClosureInv'
      BY <1>0, <1>1, <2>1, <2>2 DEF ClosureInv
    <2>4. ClosureKept
      BY <2>1, <2>2 DEF ClosureKept
    <2> QED BY <2>3, <2>4
  <1>2. CASE CallRefused
    <2>1. /\ CallBack(cur, finished) /\ phase[cur] = "idle" /\ cur' = cur
          /\ phase'[cur] = "over"
      BY <1>0, <1>2 DEF CallRefused, FailWith, Goto, ChannelTypes
    <2> QED BY <1>1, <2>1
  <1>3. CASE CallMethod
    <2>1. phase[cur] # "over" /\ UNCHANGED <<cur, runs, controller, answer>>
      BY <1>3 DEF CallMethod
    <2>2. runs[cur] = 0
      BY <1>0, <2>1 DEF ClosureInv
    <2> QED BY <2>1, <2>2 DEF ClosureInv, ClosureKept, controller
  <1>4. CASE Reset
    <2>1. cur' \in Call /\ cur' > cur /\ runs' = runs
      BY <1>4, <1>0, ChannelAssumption DEF Reset, Call
    <2>2. \A c \in Call : c > cur' => c > cur
      BY <1>0, <2>1, ChannelAssumption DEF Call
    <2>3. runs[cur'] = 0 /\ cur' # cur
      BY <1>0, <2>1 DEF ClosureInv
    <2> QED BY <2>1, <2>2, <2>3 DEF ClosureInv, ClosureKept
  <1>5. ASSUME NEW d \in Call, Event(d) PROVE ClosureInv' /\ ClosureKept
    <2>0. d = cur
      BY <1>5, OwnEvent
    <2>1. CASE Connected(cur) \/ Written(cur) \/ ConnectionLost(cur)
      <3>1. /\ phase[cur] # "over" /\ UNCHANGED <<cur, runs, controller, answer>>
        BY <2>1 DEF Connected, Written, ConnectionLost
      <3>2. runs[cur] = 0
        BY <1>0, <3>1 DEF ClosureInv
      <3> QED BY <3>1, <3>2 DEF ClosureInv, ClosureKept, controller
    <2>2. CASE ConnectFails(cur) \/ ResponseGood(cur) \/ ResponseBad(cur)
      <3>1. /\ CallBack(cur, finished) /\ phase[cur] # "over" /\ cur' = cur
            /\ phase'[cur] = "over"
        BY <1>0, <2>2 DEF ConnectFails, ResponseGood, ResponseBad, FailWith, Goto, ChannelTypes
      <3> QED BY <1>1, <3>1
    <2>3. CASE Timeout(cur)
      <3>1. cur' = cur /\ answer' = answer /\ phase'[cur] \in {"over", phase[cur]}
        BY <1>0, <2>3 DEF Timeout, Goto, ChannelTypes
      <3>2. CASE finished
        <4>1. UNCHANGED <<controller, runs>>
          BY <2>3, <3>2 DEF Timeout
        <4> QED BY <1>0, <3>1, <3>2, <4>1 DEF ClosureInv, ClosureKept, controller
      <3>3. CASE ~ finished
        <4>1. runs' = runs /\ finished'
          BY <2>3, <3>3 DEF Timeout, Cancel, CallBack
        <4>2. runs[cur] # 1
          BY <3>3 DEF ClosureInv
        <4> QED BY <1>0, <3>1, <4>1, <4>2 DEF ClosureInv, ClosureKept
      <3> QED BY <3>2, <3>3
    <2> QED BY <1>5, <2>0, <2>1, <2>2, <2>3 DEF Event
  <1>6. CASE UNCHANGED vars
    BY <1>6 DEF vars, controller, ClosureInv, ClosureKept
  <1> QED BY <1>2, <1>3, <1>4, <1>5, <1>6 DEF Next

(* A closure runs once at most, however late the callbacks and the timer of  *)
(* its call come, and the controller it has looked at says the same until    *)
(* the caller resets it.                                                     *)
THEOREM ClosureRunsOnce ==
    ASSUME HasClosure, Careful
    PROVE  Spec => ClosureIsLast
  <1>1. Init => ChannelInv /\ ClosureInv
    BY CallInvInitially, ChannelAssumption DEF Init, ClosureInv, Call
  <1>2. ChannelInv /\ [Next]_vars => ChannelInv'
    BY TypesStep, QuietStep, CurrentStep DEF ChannelInv
  <1>3. ChannelInv /\ ClosureInv /\ [Next]_vars => ClosureInv' /\ ClosureKept
    BY ClosureStep
  <1>4. ClosureKept =>
          [\A c \in Call : runs[c] = 1 =>
             /\ runs'[c] = 1
             /\ c = cur /\ cur' = cur => UNCHANGED <<controller, answer[c]>>]_vars
    BY DEF ClosureKept
  <1> QED BY <1>1, <1>2, <1>3, <1>4, PTL DEF Spec, ClosureIsLast

-----------------------------------------------------------------------------
(* The clients.  What a loop watches belongs to the client that holds the  *)
(* number; what else may still point at a client is told by its stage.     *)

Run == {"connect", "onWrite", "onRead"}

\* The stages of a client whose socket is connected, and of one whose number
\* a loop may watch.
Open    == {"connected", "writing", "reading", "answered", "closed"}
Waiting == {"connecting", "writing", "reading", "answered"}
Reads   == {"reading", "answered"}

ClientTypes == ClientTypeOK /\ loops \in [Loop -> LoopsOver(Fd)]

\* A client holds one number, and no other client holds it.
NumberInv(d) ==
    Holds(d) => /\ fdOf[d] \in Fd /\ eventOf[d] \in Fd /\ sockets[fdOf[d]] # "none"
                /\ stage[d] # "failed" => eventOf[d] = fdOf[d]

Distinct == \A c, d \in Client : Holds(c) /\ Holds(d) /\ fdOf[c] = fdOf[d] => c = d

SocketInv(d) ==
    /\ stage[d] \in {"made", "failed"} => sockets[fdOf[d]] = "fresh"
    /\ stage[d] = "connecting" => sockets[fdOf[d]] # "fresh"
    /\ stage[d] \in Open => sockets[fdOf[d]] \in {"up", "answer", "eof"}

\* The loop l watches fd for its holder d.
WatchedFor(l, fd, d) ==
    /\ LoopOf(d) = l /\ fdOf[d] = fd /\ stage[d] \in Waiting
    /\ IF stage[d] \in Reads
       THEN /\ "IN" \in loops[l].epoll[fd] /\ events[fd].read = Callbk(d, "onRead")
            /\ "OUT" \in loops[l].epoll[fd] => events[fd].write = Callbk(d, "onWrite")
       ELSE /\ "OUT" \in loops[l].epoll[fd]
            /\ "IN" \in loops[l].epoll[fd] => fd \in stale /\ events[fd].read \in Callback
            /\ events[fd].write =
                 Callbk(d, IF stage[d] = "connecting" THEN "connect" ELSE "onWrite")

WatchInv(l, fd) == fd \in Watched(loops[l]) => \E d \in Client : WatchedFor(l, fd, d)

MaskInv(fd) ==
    "IN" \in events[fd].mask =>
      /\ events[fd].read \in Callback
      /\ fd \in stale \/ \E d \in Client : fdOf[d] = fd /\ stage[d] \in Reads

\* A client that writes or reads has its callbacks in its FdEvent.
OwnInv(d) ==
    /\ stage[d] \in Reads \cup {"writing"} => events[eventOf[d]].write = Callbk(d, "onWrite")
    /\ stage[d] \in Reads => /\ events[eventOf[d]].read = Callbk(d, "onRead")
                            /\ "IN" \in events[eventOf[d]].mask

\* The callbacks of a client are in its FdEvent only, and which tells how far
\* the client is.
CallInv(fd, d) ==
    stage[d] # "destroyed" =>
      \A run \in Run :
        /\ events[fd].read = Callbk(d, run) =>
             run = "onRead" /\ eventOf[d] = fd /\ stage[d] \in Reads \cup {"closed"}
        /\ events[fd].write = Callbk(d, run) =>
             /\ eventOf[d] = fd
             /\ \/ run = "connect" /\ stage[d] \in {"connecting", "connected", "failed"}
                \/ run = "onWrite" /\ stage[d] \in Reads \cup {"writing", "closed"}

\* m_listen_fds has what epoll watches and what was closed behind its back.
LeftInv(l, fd) ==
    /\ fd \in Watched(loops[l]) => fd \in loops[l].listen_fds
    /\ fd \in loops[l].listen_fds => fd \in Watched(loops[l]) \/ fd \in leftBehind[l]

\* The stages in which a task of the client can be queued.
InStage(d, run) ==
    \/ run = "connect" /\ stage[d] = "connecting" /\ sockets[fdOf[d]] # "connecting"
    \/ run = "onWrite" /\ stage[d] \in Reads \cup {"writing", "closed"}
    \/ run = "onRead" /\ stage[d] \in Reads \cup {"closed"}

TaskInv(l) ==
    \A i \in DOMAIN tasks[l] :
      LET t == tasks[l][i]
      IN  stage[t.client] # "destroyed" =>
            /\ LoopOf(t.client) = l /\ InStage(t.client, t.run)
            /\ t.run = "connect" => \A j \in DOMAIN tasks[l] : tasks[l][j] = t => j = i

DoneInv(d) ==
    dones[d] <= IF stage[d] \in {"none", "made", "connecting"} THEN 0 ELSE 1

Queued(l, t) == \E i \in DOMAIN tasks[l] : tasks[l][i] = t

RegInv(d) ==
    LET l == LoopOf(d)
        fd == eventOf[d]
    IN  \/ Waits(d) = "nothing" \/ fd \in leftBehind[l]
        \/ fd \in Watched(loops[l]) /\ Waits(d) \in loops[l].epoll[fd]
        \/ stage[d] = "connecting" /\ sockets[fd] = "refused" /\ Queued(l, Callbk(d, "connect"))

ClientInv ==
    /\ ClientTypes
    /\ Distinct
    /\ \A d \in Client :
         NumberInv(d) /\ SocketInv(d) /\ DoneInv(d) /\ RegInv(d) /\ OwnInv(d)
    /\ \A fd \in Fd : MaskInv(fd) /\ \A d \in Client : CallInv(fd, d)
    /\ \A l \in Loop : TaskInv(l) /\ \A fd \in Fd : WatchInv(l, fd) /\ LeftInv(l, fd)

(* What is known of the number of a client that has one. *)
LEMMA HolderFacts ==
    ASSUME ClientInv, NEW c \in Client, Holds(c)
    PROVE  /\ fdOf[c] \in Fd /\ eventOf[c] \in Fd /\ sockets[fdOf[c]] # "none"
           /\ stage[c] # "failed" => eventOf[c] = fdOf[c]
           /\ LoopOf(c) \in Loop
           /\ \A d \in Client : d # c /\ Holds(d) => fdOf[d] # fdOf[c]
           /\ \A l \in Loop : fdOf[c] \in Watched(loops[l]) => WatchedFor(l, fdOf[c], c)
           /\ "IN" \in events[fdOf[c]].mask =>
                /\ events[fdOf[c]].read \in Callback
                /\ fdOf[c] \in stale \/ stage[c] \in Reads
  <1>1. /\ fdOf[c] \in Fd /\ eventOf[c] \in Fd /\ sockets[fdOf[c]] # "none"
        /\ stage[c] # "failed" => eventOf[c] = fdOf[c]
    BY DEF ClientInv, NumberInv
  <1>2. LoopOf(c) \in Loop
    BY ClientAssumption
  <1>3. \A d \in Client : d # c /\ Holds(d) => fdOf[d] # fdOf[c]
    BY DEF ClientInv, Distinct
  <1>4. \A d \in Client : stage[d] \in Waiting => Holds(d)
    BY DEF Waiting, Holds
  <1>5. \A l \in Loop : fdOf[c] \in Watched(loops[l]) => WatchedFor(l, fdOf[c], c)
    <2> SUFFICES ASSUME NEW l \in Loop, fdOf[c] \in Watched(loops[l])
                 PROVE  WatchedFor(l, fdOf[c], c)
      OBVIOUS
    <2>1. PICK d \in Client : WatchedFor(l, fdOf[c], d)
      BY <1>1 DEF ClientInv, WatchInv
    <2>2. Holds(d) /\ fdOf[d] = fdOf[c]
      BY <1>4, <2>1 DEF WatchedFor
    <2> QED BY <1>3, <2>1, <2>2
  <1>6. "IN" \in events[fdOf[c]].mask =>
          /\ events[fdOf[c]].read \in Callback
          /\ fdOf[c] \in stale \/ stage[c] \in Reads
    <2>1. \A d \in Client : stage[d] \in Reads => Holds(d)
      BY DEF Reads, Holds
    <2>2. MaskInv(fdOf[c])
      BY <1>1 DEF ClientInv
    <2> QED BY <1>3, <2>1, <2>2 DEF MaskInv
  <1> QED BY <1>1, <1>2, <1>3, <1>5, <1>6

(* A number nobody holds is not watched, and what its FdEvent still listens to *)
(* is stale.                                                                   *)
LEMMA FreeFacts ==
    ASSUME ClientInv, NEW fd \in Fd, sockets[fd] = "none"
    PROVE  /\ \A d \in Client : Holds(d) => fdOf[d] # fd
           /\ \A l \in Loop : fd \notin Watched(loops[l])
           /\ "IN" \in events[fd].mask => fd \in stale /\ events[fd].read \in Callback
  <1>1. \A d \in Client : Holds(d) => fdOf[d] # fd
    BY DEF ClientInv, NumberInv
  <1>2. \A l \in Loop : fd \notin Watched(loops[l])
    BY <1>1 DEF ClientInv, WatchInv, WatchedFor, Waiting, Holds
  <1>3. "IN" \in events[fd].mask => fd \in stale /\ events[fd].read \in Callback
    BY <1>1 DEF ClientInv, MaskInv, Reads, Holds
  <1> QED BY <1>1, <1>2, <1>3

(* The kernel finds a number if one is free. *)
LEMMA LowestFree ==
    ASSUME NEW free \in SUBSET Fd, free # {}
    PROVE  Lowest(free) \in free
  <1>1. free \subseteq Nat
    BY ClientAssumption
  <1>2. PICK x \in free : \A y \in free : ~ (<<y, x>> \in OpToRel(<, Nat))
    BY <1>1, NatLessThanWellFounded, WFMin, Zenon
  <1>3. \A y \in free : ~ (y < x)
    BY <1>1, <1>2 DEF OpToRel
  <1>4. \A y \in free : x <= y
    BY <1>1, <1>3
  <1> QED BY <1>4 DEF Lowest

-----------------------------------------------------------------------------
(* A step of one client leaves the others alone. *)

\* The step is one of c and touches only the numbers F, which no other client
\* holds; if a task is taken out of a queue it is c's.
Touches(c, F) ==
    /\ F \subseteq Fd /\ (Holds(c) => fdOf[c] \in F)
    /\ \A d \in Client : d # c /\ Holds(d) => fdOf[d] \notin F
    /\ \A d \in Client : d # c => /\ stage'[d] = stage[d] /\ fdOf'[d] = fdOf[d]
                                  /\ eventOf'[d] = eventOf[d] /\ dones'[d] = dones[d]
    /\ stage[c] = "destroyed" => stage'[c] = "destroyed"
    /\ \A f \in Fd : f \notin F => events'[f] = events[f] /\ sockets'[f] = sockets[f]
    /\ \A f \in Fd, d \in Client, run \in Run :
         d # c => /\ events'[f].read = Callbk(d, run) => events[f].read = Callbk(d, run)
                  /\ events'[f].write = Callbk(d, run) => events[f].write = Callbk(d, run)
    /\ stale \subseteq stale'
    /\ \A l \in Loop :
         /\ leftBehind[l] \subseteq leftBehind'[l]
         /\ \A f \in Fd : f \notin F =>
              /\ f \in Watched(loops'[l]) <=> f \in Watched(loops[l])
              /\ f \in Watched(loops[l]) => loops'[l].epoll[f] = loops[l].epoll[f]
              /\ f \in loops'[l].listen_fds <=> f \in loops[l].listen_fds
         /\ \/ tasks'[l] = tasks[l]
            \/ /\ tasks[l] # << >> /\ Head(tasks[l]).client = c
               /\ tasks'[l] = Tail(tasks[l])

\* What must hold of c and its numbers after the step.
Sound(c, F) ==
    /\ NumberInv(c) /\ (Holds(c) => fdOf[c] \in F) /\ SocketInv(c) /\ DoneInv(c) /\ RegInv(c)
    /\ OwnInv(c)
    /\ \A f \in F :
         "IN" \in events[f].mask =>
           /\ events[f].read \in Callback
           /\ f \in stale \/ (fdOf[c] = f /\ stage[c] \in Reads)
    /\ \A f \in Fd : CallInv(f, c)
    /\ \A l \in Loop, f \in F : LeftInv(l, f) /\ (f \in Watched(loops[l]) => WatchedFor(l, f, c))
    /\ stage[c] # "destroyed" =>
         \A l \in Loop : \A i \in DOMAIN tasks[l] : \A run \in Run :
           tasks[l][i].client = c /\ tasks[l][i].run = run => InStage(c, run)

LEMMA TailShifts ==
    ASSUME NEW S, NEW s \in Seq(S), s # << >>
    PROVE  /\ Tail(s) \in Seq(S) /\ Head(s) \in S /\ Head(s) = s[1] /\ 1 \in DOMAIN s
           /\ \A i \in DOMAIN Tail(s) : i + 1 \in DOMAIN s /\ i + 1 # 1 /\ Tail(s)[i] = s[i + 1]
           /\ \A i \in DOMAIN s : i # 1 => i - 1 \in DOMAIN Tail(s) /\ Tail(s)[i - 1] = s[i]
  <1>1. Len(s) \in Nat /\ DOMAIN s = 1..Len(s) /\ Len(s) # 0
    BY LenProperties, EmptySeq
  <1>2. /\ Tail(s) \in Seq(S) /\ Head(s) \in S /\ Head(s) = s[1]
        /\ DOMAIN Tail(s) = 1..(Len(s) - 1)
        /\ \A i \in 1..(Len(s) - 1) : Tail(s)[i] = s[i + 1]
    BY <1>1
  <1> QED BY <1>1, <1>2

LEMMA Frame ==
    ASSUME ClientInv, NEW c \in Client, NEW F, Touches(c, F), ClientTypes', Sound(c, F)'
    PROVE  ClientInv'
  <1>1. \A d \in Client : d # c => (Holds(d)' <=> Holds(d)) /\ Waits(d)' = Waits(d)
    BY DEF Touches, Holds, Waits
  <1>2. \A d \in Client : d # c /\ Holds(d) =>
          /\ fdOf[d] \in Fd /\ fdOf[d] \notin F /\ fdOf'[d] = fdOf[d] /\ eventOf'[d] = eventOf[d]
          /\ sockets'[fdOf[d]] = sockets[fdOf[d]]
    BY DEF Touches, ClientInv, NumberInv
  <1>3. \A d \in Client : NumberInv(d)'
    <2> SUFFICES ASSUME NEW d \in Client, d # c PROVE NumberInv(d)'
      BY DEF Sound
    <2>1. NumberInv(d)
      BY DEF ClientInv
    <2> QED BY <1>1, <1>2, <2>1 DEF NumberInv, Touches
  <1>4. Distinct'
    <2> SUFFICES ASSUME NEW d \in Client, NEW e \in Client, Holds(d)', Holds(e)',
                        fdOf'[d] = fdOf'[e], d # e
                 PROVE  FALSE
      BY DEF Distinct
    <2>1. CASE d # c /\ e # c
      BY <1>1, <1>2, <2>1 DEF ClientInv, Distinct
    <2>2. CASE d = c
      BY <1>1, <1>2, <2>2 DEF Sound
    <2>3. CASE e = c
      BY <1>1, <1>2, <2>3 DEF Sound
    <2> QED BY <2>1, <2>2, <2>3
  <1>5. \A d \in Client : SocketInv(d)'
    <2> SUFFICES ASSUME NEW d \in Client, d # c PROVE SocketInv(d)'
      BY DEF Sound
    <2>1. SocketInv(d) /\ stage'[d] = stage[d]
      BY DEF ClientInv, Touches
    <2> QED BY <1>2, <2>1 DEF SocketInv, Holds, Open
  <1>6. \A d \in Client : DoneInv(d)'
    <2> SUFFICES ASSUME NEW d \in Client, d # c PROVE DoneInv(d)'
      BY DEF Sound
    <2>1. DoneInv(d) /\ stage'[d] = stage[d] /\ dones'[d] = dones[d]
      BY DEF ClientInv, Touches
    <2> QED BY <2>1 DEF DoneInv
  <1>7. \A l \in Loop, fd \in Fd : LeftInv(l, fd)'
    <2> SUFFICES ASSUME NEW l \in Loop, NEW fd \in Fd, fd \notin F PROVE LeftInv(l, fd)'
      BY DEF Sound
    <2>1. LeftInv(l, fd)
      BY DEF ClientInv
    <2> QED BY <2>1 DEF LeftInv, Touches
  <1>8. \A l \in Loop, fd \in Fd : WatchInv(l, fd)'
    <2> SUFFICES ASSUME NEW l \in Loop, NEW fd \in Fd, fd \in Watched(loops[l])'
                 PROVE  \E d \in Client : WatchedFor(l, fd, d)'
      BY DEF WatchInv
    <2>1. CASE fd \in F
      BY <2>1 DEF Sound
    <2>2. CASE fd \notin F
      <3>1. /\ fd \in Watched(loops[l]) /\ loops'[l].epoll[fd] = loops[l].epoll[fd]
            /\ events'[fd] = events[fd] /\ stale \subseteq stale'
        BY <2>2 DEF Touches
      <3>2. PICK d \in Client : WatchedFor(l, fd, d)
        BY <3>1 DEF ClientInv, WatchInv
      <3>3. Holds(d) /\ fdOf[d] = fd
        BY <3>2 DEF WatchedFor, Waiting, Holds
      <3>4. d # c /\ stage'[d] = stage[d] /\ fdOf'[d] = fdOf[d]
        BY <2>2, <3>3 DEF Touches
      <3>5. WatchedFor(l, fd, d)'
        BY <3>1, <3>2, <3>4 DEF WatchedFor
      <3> QED BY <3>5
    <2> QED BY <2>1, <2>2
  <1>9. \A fd \in Fd : MaskInv(fd)'
    <2> SUFFICES ASSUME NEW fd \in Fd PROVE MaskInv(fd)'
      OBVIOUS
    <2>1. CASE fd \in F
      BY <2>1 DEF Sound, MaskInv
    <2>2. CASE fd \notin F
      <3>1. MaskInv(fd) /\ events'[fd] = events[fd] /\ stale \subseteq stale'
        BY <2>2 DEF ClientInv, Touches
      <3>2. \A d \in Client : fdOf[d] = fd /\ stage[d] \in Reads =>
              fdOf'[d] = fd /\ stage'[d] \in Reads
        BY <2>2 DEF Touches, Reads, Holds
      <3> QED BY <3>1, <3>2 DEF MaskInv
    <2> QED BY <2>1, <2>2
  <1>10. \A fd \in Fd, d \in Client : CallInv(fd, d)'
    <2> SUFFICES ASSUME NEW fd \in Fd, NEW d \in Client, d # c PROVE CallInv(fd, d)'
      BY DEF Sound
    <2>1. CallInv(fd, d) /\ stage'[d] = stage[d] /\ eventOf'[d] = eventOf[d]
      BY DEF ClientInv, Touches
    <2>2. \A run \in Run :
            /\ events'[fd].read = Callbk(d, run) => events[fd].read = Callbk(d, run)
            /\ events'[fd].write = Callbk(d, run) => events[fd].write = Callbk(d, run)
      BY DEF Touches
    <2> QED BY <2>1, <2>2 DEF CallInv
  <1>11. \A l \in Loop : tasks[l] \in Seq(Callback)
    BY DEF ClientInv, ClientTypes, ClientTypeOK
  <1>12. \A l \in Loop : TaskInv(l)'
    <2> SUFFICES ASSUME NEW l \in Loop PROVE TaskInv(l)'
      OBVIOUS
    <2>1. TaskInv(l)
      BY DEF ClientInv
    <2>0. PICK s, s1 : s = tasks[l] /\ s1 = tasks'[l]
      OBVIOUS
    <2>2. PICK k \in {0, 1} :
            \A i \in DOMAIN s1 : i \in Int /\ i + k \in DOMAIN s /\ s1[i] = s[i + k]
      <3>1. CASE s1 = s
        <4>1. \A i \in DOMAIN s1 : i \in Int /\ i + 0 \in DOMAIN s /\ s1[i] = s[i + 0]
          BY <1>11, <2>0, <3>1
        <4> QED BY <4>1
      <3>2. CASE s # << >> /\ s1 = Tail(s)
        <4>1. \A i \in DOMAIN s1 : i \in Int /\ i + 1 \in DOMAIN s /\ s1[i] = s[i + 1]
          BY <1>11, <2>0, <3>2
        <4> QED BY <4>1
      <3> QED BY <2>0, <3>1, <3>2 DEF Touches
    <2>3. \A i \in DOMAIN s : s[i] \in Callback
      BY <1>11, <2>0, ElementOfSeq
    <2>4. ASSUME NEW i \in DOMAIN s1, NEW d, d = s1[i].client, NEW run, run = s1[i].run,
                 stage'[d] # "destroyed"
          PROVE  /\ LoopOf(d) = l /\ InStage(d, run)'
                 /\ run = "connect" => \A j \in DOMAIN s1 : s1[j] = s1[i] => j = i
      <3>1. i \in Int /\ i + k \in DOMAIN s /\ s1[i] = s[i + k] /\ s1[i] \in Callback
        BY <2>2, <2>3
      <3>2. d \in Client /\ run \in Run /\ s[i + k].client = d /\ s[i + k].run = run
        BY <2>4, <3>1 DEF Callback, Run
      <3>3. stage[d] # "destroyed"
        BY <2>4, <3>2 DEF Touches
      <3>4. \A n \in DOMAIN s : stage[s[n].client] # "destroyed" =>
              /\ LoopOf(s[n].client) = l /\ InStage(s[n].client, s[n].run)
              /\ s[n].run = "connect" => \A j \in DOMAIN s : s[j] = s[n] => j = n
        BY <2>0, <2>1 DEF TaskInv
      <3>5. /\ LoopOf(d) = l /\ InStage(d, run)
            /\ run = "connect" => \A j \in DOMAIN s : s[j] = s[i + k] => j = i + k
        <4>1. PICK n \in DOMAIN s : n = i + k
          BY <3>1
        <4>2. s[n].client = d /\ s[n].run = run
          BY <3>2, <4>1
        <4>3. /\ LoopOf(s[n].client) = l /\ InStage(s[n].client, s[n].run)
              /\ s[n].run = "connect" => \A j \in DOMAIN s : s[j] = s[n] => j = n
          BY <3>3, <3>4, <4>2
        <4>4. LoopOf(d) = l
          BY <4>2, <4>3
        <4>5. InStage(d, run)
          BY <4>2, <4>3 DEF InStage
        <4>6. run = "connect" => \A j \in DOMAIN s : s[j] = s[i + k] => j = i + k
          BY <4>1, <4>2, <4>3
        <4> QED BY <4>4, <4>5, <4>6
      <3>6. run = "connect" => \A j \in DOMAIN s1 : s1[j] = s1[i] => j = i
        <4> SUFFICES ASSUME run = "connect", NEW j \in DOMAIN s1, s1[j] = s1[i] PROVE j = i
          OBVIOUS
        <4>1. j \in Int /\ j + k \in DOMAIN s /\ s1[j] = s[j + k]
          BY <2>2
        <4>2. PICK m \in DOMAIN s : m = j + k
          BY <4>1
        <4>3. s[m] = s[i + k]
          BY <3>1, <4>1, <4>2
        <4>4. m = i + k
          BY <3>5, <4>3
        <4> QED BY <2>2, <3>1, <4>1, <4>2, <4>4
      <3>7. CASE d = c
        BY <2>0, <2>4, <3>2, <3>5, <3>6, <3>7 DEF Sound
      <3>8. CASE d # c
        <4>1. stage'[d] = stage[d] /\ fdOf'[d] = fdOf[d]
          BY <3>2, <3>8 DEF Touches
        <4>2. CASE run = "connect"
          <5>1. stage[d] = "connecting" /\ sockets[fdOf[d]] # "connecting"
            BY <3>5, <4>2 DEF InStage
          <5>2. Holds(d)
            BY <5>1 DEF Holds
          <5>3. sockets'[fdOf'[d]] = sockets[fdOf[d]]
            BY <1>2, <3>2, <3>8, <5>2
          <5> QED BY <3>5, <3>6, <4>1, <4>2, <5>1, <5>3 DEF InStage
        <4>3. CASE run # "connect"
          BY <3>5, <4>1, <4>3 DEF InStage
        <4> QED BY <3>5, <3>6, <4>2, <4>3
      <3> QED BY <3>5, <3>6, <3>7, <3>8
    <2> QED BY <2>0, <2>4 DEF TaskInv
  <1>13. \A d \in Client : RegInv(d)'
    <2> SUFFICES ASSUME NEW d \in Client, d # c, Waits(d)' # "nothing" PROVE RegInv(d)'
      BY DEF Sound, RegInv
    <2>1. Waits(d)' = Waits(d) /\ Waits(d) # "nothing" /\ stage'[d] = stage[d]
      BY <1>1 DEF Touches
    <2>2. Holds(d) /\ stage[d] # "failed"
      BY <2>1 DEF Waits, Holds
    <2>3. /\ LoopOf(d) \in Loop /\ eventOf[d] \in Fd /\ eventOf[d] \notin F
          /\ eventOf'[d] = eventOf[d] /\ sockets'[eventOf[d]] = sockets[eventOf[d]]
      BY <1>2, <2>2, ClientAssumption DEF ClientInv, NumberInv
    <2> DEFINE l == LoopOf(d)
               fd == eventOf[d]
    <2>4. RegInv(d)
      BY DEF ClientInv
    <2>5. CASE fd \in leftBehind[l]
      BY <2>3, <2>5 DEF RegInv, Touches
    <2>6. CASE fd \in Watched(loops[l]) /\ Waits(d) \in loops[l].epoll[fd]
      <3>1. fd \in Watched(loops'[l]) /\ loops'[l].epoll[fd] = loops[l].epoll[fd]
        BY <2>3, <2>6 DEF Touches
      <3> QED BY <2>1, <2>3, <2>6, <3>1 DEF RegInv
    <2>7. CASE /\ stage[d] = "connecting" /\ sockets[fd] = "refused"
               /\ Queued(l, Callbk(d, "connect"))
      <3>1. PICK i \in DOMAIN tasks[l] : tasks[l][i] = Callbk(d, "connect")
        BY <2>7 DEF Queued
      <3>2. tasks[l][i].client = d
        BY <3>1 DEF Callbk
      <3>3. \E j \in DOMAIN tasks'[l] : tasks'[l][j] = Callbk(d, "connect")
        <4>1. CASE tasks'[l] = tasks[l]
          BY <3>1, <4>1
        <4>2. CASE /\ tasks[l] # << >> /\ Head(tasks[l]).client = c
                   /\ tasks'[l] = Tail(tasks[l])
          <5>1. tasks[l] \in Seq(Callback)
            BY <1>11, <2>3
          <5>2. /\ Head(tasks[l]) = tasks[l][1]
                /\ \A n \in DOMAIN tasks[l] : n # 1 =>
                     n - 1 \in DOMAIN Tail(tasks[l]) /\ Tail(tasks[l])[n - 1] = tasks[l][n]
            <6>1. PICK s \in Seq(Callback) : s = tasks[l]
              BY <5>1
            <6>2. /\ Tail(s) \in Seq(Callback) /\ Head(s) \in Callback /\ Head(s) = s[1]
                  /\ 1 \in DOMAIN s
                  /\ \A n \in DOMAIN Tail(s) : n + 1 \in DOMAIN s /\ n + 1 # 1 /\ Tail(s)[n] = s[n + 1]
                  /\ \A n \in DOMAIN s : n # 1 => n - 1 \in DOMAIN Tail(s) /\ Tail(s)[n - 1] = s[n]
              BY <4>2, <6>1, TailShifts
            <6> QED BY <6>1, <6>2
          <5>3. i # 1
            BY <3>2, <4>2, <5>2
          <5> QED BY <3>1, <4>2, <5>2, <5>3
        <4> QED BY <2>3, <4>1, <4>2 DEF Touches
      <3> QED BY <2>1, <2>3, <2>7, <3>3 DEF RegInv, Queued
    <2> QED BY <2>1, <2>4, <2>5, <2>6, <2>7 DEF RegInv
  <1>14. \A d \in Client : OwnInv(d)'
    <2> SUFFICES ASSUME NEW d \in Client, d # c, stage'[d] \in Reads \cup {"writing"}
                 PROVE  OwnInv(d)'
      BY DEF Sound, OwnInv
    <2>1. stage'[d] = stage[d] /\ eventOf'[d] = eventOf[d]
      BY DEF Touches
    <2>2. Holds(d) /\ eventOf[d] = fdOf[d] /\ fdOf[d] \in Fd /\ fdOf[d] \notin F
      BY <1>2, <2>1 DEF Reads, Holds, ClientInv, NumberInv
    <2>3. events'[eventOf[d]] = events[eventOf[d]]
      BY <2>2 DEF Touches
    <2>4. OwnInv(d)
      BY DEF ClientInv
    <2> QED BY <2>1, <2>3, <2>4 DEF OwnInv
  <1> QED BY <1>3, <1>4, <1>5, <1>6, <1>7, <1>8, <1>9, <1>10, <1>12, <1>13, <1>14 DEF ClientInv

-----------------------------------------------------------------------------
(* The parts of the clients' steps. *)

FdEvent == [mask : SUBSET {"IN", "OUT"}, read : Callback \cup {NoCallback},
          write : Callback \cup {NoCallback}]

LEMMA ListenedEvent ==
    ASSUME NEW e \in FdEvent, NEW c \in Client, NEW run \in Run
    PROVE  /\ Cancle(e, "OUT") \in FdEvent
           /\ Listen(e, "OUT", Callbk(c, run)) \in FdEvent
           /\ Listen(e, "OUT", Callbk(c, run)).mask = e.mask \cup {"OUT"}
           /\ Listen(e, "OUT", Callbk(c, run)).read = e.read
           /\ Listen(e, "OUT", Callbk(c, run)).write = Callbk(c, run)
           /\ Listen(Cancle(e, "OUT"), "IN", Callbk(c, run)) \in FdEvent
           /\ Listen(Cancle(e, "OUT"), "IN", Callbk(c, run)).mask = {"IN"}
           /\ Listen(Cancle(e, "OUT"), "IN", Callbk(c, run)).read = Callbk(c, run)
           /\ Listen(Cancle(e, "OUT"), "IN", Callbk(c, run)).write = e.write
  <1>1. Callbk(c, run) \in Callback
    BY DEF Callbk, Callback, Run
  <1>2. /\ e.mask \in SUBSET {"IN", "OUT"} /\ e.read \in Callback \cup {NoCallback}
        /\ e.write \in Callback \cup {NoCallback}
        /\ e = [mask |-> e.mask, read |-> e.read, write |-> e.write]
    BY DEF FdEvent
  <1>3. Cancle(e, "OUT") = [mask |-> e.mask \ {"OUT"}, read |-> e.read, write |-> e.write]
    BY <1>2 DEF Cancle
  <1>4. Listen(e, "OUT", Callbk(c, run))
          = [mask |-> e.mask \cup {"OUT"}, read |-> e.read, write |-> Callbk(c, run)]
    BY <1>2 DEF Listen
  <1>5. Listen(Cancle(e, "OUT"), "IN", Callbk(c, run))
          = [mask |-> {"IN"}, read |-> Callbk(c, run), write |-> e.write]
    <2>1. (e.mask \ {"OUT"}) \cup {"IN"} = {"IN"}
      BY <1>2
    <2>2. PICK x : x = [mask |-> e.mask \ {"OUT"}, read |-> e.read, write |-> e.write]
      OBVIOUS
    <2>3. Listen(x, "IN", Callbk(c, run))
            = [mask |-> (e.mask \ {"OUT"}) \cup {"IN"}, read |-> Callbk(c, run), write |-> e.write]
      BY <2>2 DEF Listen
    <2> QED BY <1>3, <2>1, <2>2, <2>3
  <1> QED BY <1>1, <1>2, <1>3, <1>4, <1>5 DEF FdEvent

LEMMA HeardEvent ==
    ASSUME NEW e \in FdEvent, NEW c \in Client, NEW run \in Run
    PROVE  /\ Cancle(e, "OUT") \in FdEvent
           /\ Cancle(e, "OUT").mask = e.mask \ {"OUT"}
           /\ Cancle(e, "OUT").read = e.read /\ Cancle(e, "OUT").write = e.write
           /\ Listen(e, "IN", Callbk(c, run)) \in FdEvent
           /\ Listen(e, "IN", Callbk(c, run)).mask = e.mask \cup {"IN"}
           /\ Listen(e, "IN", Callbk(c, run)).read = Callbk(c, run)
           /\ Listen(e, "IN", Callbk(c, run)).write = e.write
  <1>1. Callbk(c, run) \in Callback
    BY DEF Callbk, Callback, Run
  <1>2. /\ e.mask \in SUBSET {"IN", "OUT"} /\ e.read \in Callback \cup {NoCallback}
        /\ e.write \in Callback \cup {NoCallback}
        /\ e = [mask |-> e.mask, read |-> e.read, write |-> e.write]
    BY DEF FdEvent
  <1>3. Cancle(e, "OUT") = [mask |-> e.mask \ {"OUT"}, read |-> e.read, write |-> e.write]
    BY <1>2 DEF Cancle
  <1>4. Listen(e, "IN", Callbk(c, run))
          = [mask |-> e.mask \cup {"IN"}, read |-> Callbk(c, run), write |-> e.write]
    BY <1>2 DEF Listen
  <1> QED BY <1>1, <1>2, <1>3, <1>4 DEF FdEvent

\* The client c listens on fd with the event e: ListenOn, and what follows the
\* cancelling in onWrite.
ListensWith(c, fd, e) ==
    /\ events' = [events EXCEPT ![fd] = e]
    /\ loops' = [loops EXCEPT ![LoopOf(c)] = AddToEpoll(@, fd, e.mask)]

\* The loop of c forgets fd, which may be closed before.
Forgets(c, fd) ==
    \/ loops' = [loops EXCEPT ![LoopOf(c)] = DeleteToEpoll(@, fd)]
    \/ loops' = [l \in Loop |->
                   LET closed == CloseInEpoll(loops[l], fd)
                   IN  IF l = LoopOf(c) THEN DeleteToEpoll(closed, fd) ELSE closed]

(* The holder of a number listens with the event e: it is registered for it, *)
(* or the number was left behind.                                            *)
LEMMA Listened ==
    ASSUME ClientInv, NEW c \in Client, Holds(c), NEW fd, fd = fdOf[c], NEW e \in FdEvent,
           ListensWith(c, fd, e), leftBehind' = leftBehind
    PROVE  /\ events' \in [Fd -> FdEvent] /\ loops' \in [Loop -> LoopsOver(Fd)]
           /\ events'[fd] = e /\ \A f \in Fd : f # fd => events'[f] = events[f]
           /\ \A l \in Loop, f \in Fd : f # fd =>
                /\ f \in Watched(loops'[l]) <=> f \in Watched(loops[l])
                /\ f \in Watched(loops[l]) => loops'[l].epoll[f] = loops[l].epoll[f]
                /\ f \in loops'[l].listen_fds <=> f \in loops[l].listen_fds
           /\ \A l \in Loop : fd \in Watched(loops'[l]) =>
                l = LoopOf(c) /\ loops'[l].epoll[fd] = e.mask
           /\ \A l \in Loop : LeftInv(l, fd)'
           /\ fd \in leftBehind[LoopOf(c)] \/ fd \in Watched(loops'[LoopOf(c)])
  <1>1. /\ fd \in Fd /\ LoopOf(c) \in Loop
        /\ \A l \in Loop : fd \in Watched(loops[l]) => WatchedFor(l, fd, c)
    BY HolderFacts
  <1>2. /\ events \in [Fd -> FdEvent] /\ loops \in [Loop -> LoopsOver(Fd)]
        /\ \A l \in Loop : LeftInv(l, fd)
    BY <1>1 DEF ClientInv, ClientTypes, ClientTypeOK, FdEvent
  <1>3. PICK own \in Loop : own = LoopOf(c)
    BY <1>1
  <1>4. PICK mask \in EventMask : mask = e.mask
    BY DEF FdEvent, EventMask
  <1>5. PICK loop \in LoopsOver(Fd) : loop = loops[own]
    BY <1>2
  <1>6. PICK l1 :
          /\ l1 \in LoopsOver(Fd) /\ l1 = AddToEpoll(loop, fd, mask)
          /\ l1.listen_fds = loop.listen_fds \cup {fd}
          /\ \A f \in Watched(loop) : f # fd => l1.epoll[f] = loop.epoll[f]
          /\ fd \in loop.listen_fds /\ fd \in Watched(loop) => l1.epoll[fd] = mask
          /\ fd \notin loop.listen_fds /\ fd \notin Watched(loop) => l1.epoll[fd] = mask
          /\ Watched(l1) = IF fd \in loop.listen_fds THEN Watched(loop)
                                                     ELSE Watched(loop) \cup {fd}
    <2>1. fd \in Fd
      BY <1>1
    <2>2. PICK l1 : l1 = AddToEpoll(loop, fd, mask)
      OBVIOUS
    <2> QED BY <2>1, <2>2, AddLoop
  <1>7. loops'[own] = l1 /\ \A l \in Loop : l # own => loops'[l] = loops[l]
    BY <1>2, <1>3, <1>4, <1>5, <1>6 DEF ListensWith
  <1>8. /\ fd \in Watched(loop) => fd \in loop.listen_fds
        /\ fd \in loop.listen_fds => fd \in Watched(loop) \/ fd \in leftBehind[own]
    BY <1>2, <1>5 DEF LeftInv
  <1>9. \A l \in Loop : l # own => fd \notin Watched(loops[l])
    BY <1>1, <1>3 DEF WatchedFor
  <1>10. events' \in [Fd -> FdEvent] /\ loops' \in [Loop -> LoopsOver(Fd)]
    BY <1>1, <1>2, <1>3, <1>4, <1>5, <1>6 DEF ListensWith
  <1>11. events'[fd] = e /\ \A f \in Fd : f # fd => events'[f] = events[f]
    BY <1>1, <1>2 DEF ListensWith
  <1>12. \A f \in Fd : f # fd =>
           /\ f \in Watched(l1) <=> f \in Watched(loop)
           /\ f \in Watched(loop) => l1.epoll[f] = loop.epoll[f]
           /\ f \in l1.listen_fds <=> f \in loop.listen_fds
    BY <1>6
  <1>13. /\ fd \in Watched(l1) => l1.epoll[fd] = mask
         /\ fd \in Watched(l1) \/ fd \in leftBehind[own]
         /\ fd \in l1.listen_fds
    BY <1>6, <1>8
  <1>14. \A l \in Loop, f \in Fd : f # fd =>
           /\ f \in Watched(loops'[l]) <=> f \in Watched(loops[l])
           /\ f \in Watched(loops[l]) => loops'[l].epoll[f] = loops[l].epoll[f]
           /\ f \in loops'[l].listen_fds <=> f \in loops[l].listen_fds
    BY <1>5, <1>7, <1>12
  <1>15. \A l \in Loop : fd \in Watched(loops'[l]) =>
           l = LoopOf(c) /\ loops'[l].epoll[fd] = e.mask
    BY <1>3, <1>4, <1>7, <1>9, <1>13
  <1>16. \A l \in Loop : LeftInv(l, fd)'
    <2> SUFFICES ASSUME NEW l \in Loop PROVE LeftInv(l, fd)'
      OBVIOUS
    <2>1. CASE l = own
      BY <1>7, <1>13, <2>1 DEF LeftInv
    <2>2. CASE l # own
      BY <1>2, <1>7, <2>2 DEF LeftInv
    <2> QED BY <2>1, <2>2
  <1> QED BY <1>3, <1>7, <1>10, <1>11, <1>13, <1>14, <1>15, <1>16

(* A number is taken out of its loop, and perhaps closed. *)
LEMMA Removed ==
    ASSUME ClientInv, NEW c \in Client, Holds(c), NEW fd, fd = fdOf[c],
           Forgets(c, fd), leftBehind' = leftBehind
    PROVE  /\ loops' \in [Loop -> LoopsOver(Fd)]
           /\ \A l \in Loop, f \in Fd : f # fd =>
                /\ f \in Watched(loops'[l]) <=> f \in Watched(loops[l])
                /\ f \in Watched(loops[l]) => loops'[l].epoll[f] = loops[l].epoll[f]
                /\ f \in loops'[l].listen_fds <=> f \in loops[l].listen_fds
           /\ \A l \in Loop : fd \notin Watched(loops'[l]) /\ LeftInv(l, fd)'
  <1>1. /\ fd \in Fd /\ LoopOf(c) \in Loop
        /\ \A l \in Loop : fd \in Watched(loops[l]) => WatchedFor(l, fd, c)
    BY HolderFacts
  <1>2. /\ loops \in [Loop -> LoopsOver(Fd)]
        /\ \A l \in Loop : LeftInv(l, fd)
    BY <1>1 DEF ClientInv, ClientTypes
  <1>3. \A l \in Loop : l # LoopOf(c) => fd \notin Watched(loops[l])
    BY <1>1 DEF WatchedFor
  <1>4. ASSUME NEW loop \in LoopsOver(Fd)
        PROVE  LET cut == DeleteToEpoll(loop, fd)
               IN  /\ cut \in LoopsOver(Fd) /\ cut.listen_fds = loop.listen_fds \ {fd}
                   /\ Watched(cut) = Watched(loop) \ ({fd} \cap loop.listen_fds)
                   /\ \A f \in Watched(cut) : cut.epoll[f] = loop.epoll[f]
    BY DeleteLoop DEF DeleteToEpoll
  <1>5. ASSUME NEW loop \in LoopsOver(Fd)
        PROVE  LET cut == CloseInEpoll(loop, fd)
               IN  /\ cut \in LoopsOver(Fd) /\ cut.listen_fds = loop.listen_fds
                   /\ Watched(cut) = Watched(loop) \ {fd}
                   /\ \A f \in Watched(cut) : cut.epoll[f] = loop.epoll[f]
    BY CloseLoop
  <1>6. ASSUME NEW l \in Loop
        PROVE  /\ loops'[l] \in LoopsOver(Fd)
               /\ Watched(loops'[l]) = Watched(loops[l]) \ {fd}
               /\ \A f \in Watched(loops'[l]) : loops'[l].epoll[f] = loops[l].epoll[f]
               /\ loops'[l].listen_fds =
                    IF l = LoopOf(c) THEN loops[l].listen_fds \ {fd} ELSE loops[l].listen_fds
    <2>1. PICK loop \in LoopsOver(Fd) : loop = loops[l]
      BY <1>2
    <2>2. fd \in Watched(loop) => fd \in loop.listen_fds
      BY <1>2, <2>1 DEF LeftInv
    <2>3. PICK gone \in LoopsOver(Fd) :
            /\ gone = CloseInEpoll(loop, fd) /\ gone.listen_fds = loop.listen_fds
            /\ Watched(gone) = Watched(loop) \ {fd}
            /\ \A f \in Watched(gone) : gone.epoll[f] = loop.epoll[f]
      BY <1>5
    <2>4. PICK cut \in LoopsOver(Fd) :
            /\ cut = DeleteToEpoll(loop, fd) /\ cut.listen_fds = loop.listen_fds \ {fd}
            /\ Watched(cut) = Watched(loop) \ ({fd} \cap loop.listen_fds)
            /\ \A f \in Watched(cut) : cut.epoll[f] = loop.epoll[f]
      BY <1>4
    <2>5. PICK both \in LoopsOver(Fd) :
            /\ both = DeleteToEpoll(gone, fd) /\ both.listen_fds = gone.listen_fds \ {fd}
            /\ Watched(both) = Watched(gone) \ ({fd} \cap gone.listen_fds)
            /\ \A f \in Watched(both) : both.epoll[f] = gone.epoll[f]
      BY <1>4
    <2>6. CASE loops' = [loops EXCEPT ![LoopOf(c)] = DeleteToEpoll(@, fd)]
      <3>1. CASE l = LoopOf(c)
        <4>1. loops'[l] = cut
          BY <1>2, <2>1, <2>4, <2>6, <3>1
        <4> QED BY <2>1, <2>2, <2>4, <3>1, <4>1
      <3>2. CASE l # LoopOf(c)
        <4>1. loops'[l] = loop
          BY <1>2, <2>1, <2>6, <3>2
        <4>2. fd \notin Watched(loop)
          BY <1>3, <2>1, <3>2
        <4> QED BY <2>1, <3>2, <4>1, <4>2
      <3> QED BY <3>1, <3>2
    <2>7. CASE loops' = [k \in Loop |->
                           LET closed == CloseInEpoll(loops[k], fd)
                           IN  IF k = LoopOf(c) THEN DeleteToEpoll(closed, fd) ELSE closed]
      <3>1. loops'[l] = IF l = LoopOf(c) THEN both ELSE gone
        BY <2>1, <2>3, <2>5, <2>7
      <3>2. Watched(both) = Watched(gone) /\ \A f \in Watched(both) : both.epoll[f] = loop.epoll[f]
        BY <2>3, <2>5
      <3>3. CASE l = LoopOf(c)
        BY <2>1, <2>3, <2>5, <3>1, <3>2, <3>3
      <3>4. CASE l # LoopOf(c)
        BY <2>1, <2>3, <3>1, <3>4
      <3> QED BY <3>3, <3>4
    <2> QED BY <2>6, <2>7 DEF Forgets
  <1>7. loops' \in [Loop -> LoopsOver(Fd)]
    <2>1. loops' = [l \in Loop |-> loops'[l]]
      BY <1>2 DEF Forgets
    <2> QED BY <1>6, <2>1
  <1>8. \A l \in Loop : fd \notin Watched(loops'[l]) /\ LeftInv(l, fd)'
    BY <1>2, <1>3, <1>6 DEF LeftInv
  <1> QED BY <1>6, <1>7, <1>8

(* The types, but for those of the loops' fields, which LoopsOver gives. *)
LEMMA Typed ==
    ASSUME stage' \in [Client -> Stage], fdOf' \in [Client -> Fd \cup {NoFd}],
           eventOf' \in [Client -> Fd \cup {NoFd}], sockets' \in [Fd -> Socket],
           events' \in [Fd -> FdEvent], loops' \in [Loop -> LoopsOver(Fd)],
           looping' \subseteq Loop, tasks' \in [Loop -> Seq(Callback)],
           dones' \in [Client -> Nat], leftBehind' \in [Loop -> SUBSET Fd], stale' \subseteq Fd
    PROVE  ClientTypes'
  <1>1. \A l \in Loop : loops'[l].listen_fds \subseteq Fd /\ Watched(loops'[l]) \subseteq Fd
    BY LoopFields
  <1> QED BY <1>1 DEF ClientTypes, ClientTypeOK, FdEvent

LEMMA Types ==
    ASSUME ClientInv
    PROVE  /\ stage \in [Client -> Stage] /\ fdOf \in [Client -> Fd \cup {NoFd}]
           /\ eventOf \in [Client -> Fd \cup {NoFd}] /\ sockets \in [Fd -> Socket]
           /\ events \in [Fd -> FdEvent] /\ loops \in [Loop -> LoopsOver(Fd)]
           /\ looping \subseteq Loop
           /\ tasks \in [Loop -> Seq(Callback)] /\ dones \in [Client -> Nat]
           /\ leftBehind \in [Loop -> SUBSET Fd] /\ stale \subseteq Fd
  BY DEF ClientInv, ClientTypes, ClientTypeOK, FdEvent

LEMMA TasksOf ==
    ASSUME ClientInv, NEW c \in Client, stage[c] # "destroyed", NEW l \in Loop,
           NEW i \in DOMAIN tasks[l], tasks[l][i].client = c
    PROVE  InStage(c, tasks[l][i].run)
  <1>1. TaskInv(l)
    BY DEF ClientInv
  <1> QED BY <1>1 DEF TaskInv

(* Before connect nothing points at a client. *)
LEMMA Quiet ==
    ASSUME ClientInv, NEW c \in Client, stage[c] \in {"none", "noSocket", "made"}
    PROVE  /\ \A l \in Loop : \A i \in DOMAIN tasks[l] : tasks[l][i].client # c
           /\ \A f \in Fd, run \in Run :
                events[f].read # Callbk(c, run) /\ events[f].write # Callbk(c, run)
           /\ stage[c] # "noSocket" => dones[c] = 0
           /\ \A l \in Loop : Holds(c) => fdOf[c] \notin Watched(loops[l])
  <1>1. \A l \in Loop : \A i \in DOMAIN tasks[l] : tasks[l][i].client # c
    BY TasksOf DEF InStage, Reads
  <1>2. \A f \in Fd, run \in Run :
          events[f].read # Callbk(c, run) /\ events[f].write # Callbk(c, run)
    <2> TAKE f \in Fd, run \in Run
    <2>1. CallInv(f, c)
      BY DEF ClientInv
    <2> QED BY <2>1 DEF CallInv, Reads
  <1>3. stage[c] # "noSocket" => dones[c] = 0
    <2>1. DoneInv(c) /\ dones[c] \in Nat
      BY Types DEF ClientInv
    <2> QED BY <2>1 DEF DoneInv
  <1>4. \A l \in Loop : Holds(c) => fdOf[c] \notin Watched(loops[l])
    BY HolderFacts DEF WatchedFor, Waiting
  <1> QED BY <1>1, <1>2, <1>3, <1>4

-----------------------------------------------------------------------------
(* The steps. *)

LEMMA MakeKeeps ==
    ASSUME ClientInv, NEW c \in Client, Make(c)
    PROVE  ClientInv'
  <1>1. PICK fd : fd = Lowest(Free(sockets))
    OBVIOUS
  <1>2. fd \in Fd /\ sockets[fd] = "none"
    <2>1. fd \in Free(sockets)
      BY <1>1, LowestFree DEF Make, Free
    <2> QED BY <2>1 DEF Free
  <1>3. /\ \A d \in Client : Holds(d) => fdOf[d] # fd
        /\ \A l \in Loop : fd \notin Watched(loops[l])
        /\ "IN" \in events[fd].mask => fd \in stale /\ events[fd].read \in Callback
    BY <1>2, FreeFacts
  <1>4. /\ stage' = [stage EXCEPT ![c] = "made"] /\ sockets' = [sockets EXCEPT ![fd] = "fresh"]
        /\ fdOf' = [fdOf EXCEPT ![c] = fd] /\ eventOf' = [eventOf EXCEPT ![c] = fd]
        /\ UNCHANGED <<events, loops, looping, tasks, dones, leftBehind, stale>>
        /\ stage[c] = "none"
    BY <1>1 DEF Make
  <1>5. /\ stage'[c] = "made" /\ sockets'[fd] = "fresh" /\ fdOf'[c] = fd /\ eventOf'[c] = fd
        /\ \A d \in Client : d # c => stage'[d] = stage[d] /\ fdOf'[d] = fdOf[d]
                                      /\ eventOf'[d] = eventOf[d]
        /\ \A f \in Fd : f # fd => sockets'[f] = sockets[f]
    BY <1>2, <1>4, Types
  <1>6. ClientTypes'
    <2>1. /\ stage' \in [Client -> Stage] /\ fdOf' \in [Client -> Fd \cup {NoFd}]
          /\ eventOf' \in [Client -> Fd \cup {NoFd}] /\ sockets' \in [Fd -> Socket]
      BY <1>2, <1>4, Types DEF Stage, Socket
    <2> QED BY <1>4, <2>1, Types, Typed
  <1>7. Touches(c, {fd})
    BY <1>2, <1>3, <1>4, <1>5 DEF Touches, Holds
  <1>8. Sound(c, {fd})'
    <2>1. NumberInv(c)' /\ (Holds(c) => fdOf[c] \in {fd})' /\ SocketInv(c)' /\ RegInv(c)'
      BY <1>2, <1>5 DEF NumberInv, SocketInv, RegInv, Waits, Open
    <2>2. DoneInv(c)'
      BY <1>4, Quiet DEF DoneInv
    <2>3. \A f \in Fd : CallInv(f, c)'
      BY <1>4, Quiet DEF CallInv
    <2>4. \A l \in Loop : LeftInv(l, fd)' /\ fd \notin Watched(loops[l])'
      BY <1>2, <1>3, <1>4 DEF ClientInv, LeftInv
    <2>5. \A l \in Loop : \A i \in DOMAIN tasks'[l] : tasks'[l][i].client # c
      BY <1>4, Quiet
    <2>6. OwnInv(c)'
      BY <1>5 DEF OwnInv, Reads
    <2> QED BY <1>3, <1>4, <2>1, <2>2, <2>3, <2>4, <2>5, <2>6 DEF Sound
  <1> QED BY <1>6, <1>7, <1>8, Frame

(* A client without a socket touches nothing. *)
LEMMA EmptyKeeps ==
    ASSUME ClientInv, NEW c \in Client,
           MakeFails(c) \/ ConnectWithoutSocket(c) \/ DestroyEmpty(c)
    PROVE  ClientInv'
  <1>1. PICK next \in {"noSocket", "destroyed"} :
          /\ stage[c] \in {"none", "noSocket"} /\ stage' = [stage EXCEPT ![c] = next]
          /\ dones' = dones \/ dones' = [dones EXCEPT ![c] = 1]
          /\ UNCHANGED <<fdOf, eventOf, sockets, events, loops, looping, tasks, leftBehind,
                         stale>>
    <2>1. stage \in [Client -> Stage]
      BY Types
    <2>2. CASE MakeFails(c) \/ DestroyEmpty(c)
      BY <2>2 DEF MakeFails, DestroyEmpty
    <2>3. CASE ConnectWithoutSocket(c)
      <3>1. stage' = [stage EXCEPT ![c] = "noSocket"]
        BY <2>1, <2>3 DEF ConnectWithoutSocket
      <3> QED BY <2>3, <3>1 DEF ConnectWithoutSocket
    <2> QED BY <2>2, <2>3
  <1>2. /\ stage'[c] = next /\ \A d \in Client : d # c => stage'[d] = stage[d]
        /\ \A d \in Client : d # c => dones'[d] = dones[d]
        /\ ~ Holds(c) /\ ~ Holds(c)'
    BY <1>1, Types DEF Holds
  <1>3. ClientTypes'
    <2>1. stage' \in [Client -> Stage] /\ dones' \in [Client -> Nat]
      BY <1>1, Types DEF Stage
    <2> QED BY <1>1, <2>1, Types, Typed
  <1>4. stage[c] # "destroyed"
    BY <1>1
  <1>5. Touches(c, {})
    BY <1>1, <1>2, <1>4 DEF Touches
  <1>6. Sound(c, {})'
    <2>1. NumberInv(c)' /\ SocketInv(c)' /\ RegInv(c)' /\ OwnInv(c)'
      BY <1>2 DEF NumberInv, SocketInv, RegInv, OwnInv, Waits, Open, Reads
    <2>2. DoneInv(c)'
      <3>1. dones[c] \in Nat /\ DoneInv(c)
        BY Types DEF ClientInv
      <3>2. dones'[c] \in {dones[c], 1} /\ dones[c] <= 1
        BY <1>1, <3>1, Types DEF DoneInv
      <3> QED BY <1>2, <3>1, <3>2 DEF DoneInv
    <2>3. \A f \in Fd : CallInv(f, c)'
      BY <1>1, Quiet DEF CallInv
    <2>4. \A l \in Loop : \A i \in DOMAIN tasks'[l] : tasks'[l][i].client # c
      BY <1>1, Quiet
    <2> QED BY <1>2, <2>1, <2>2, <2>3, <2>4 DEF Sound
  <1> QED BY <1>3, <1>5, <1>6, Frame

(* connect, when it ends at once. *)
LEMMA EndKeeps ==
    ASSUME ClientInv, NEW c \in Client, ConnectAtOnce(c) \/ ConnectFailsAtOnce(c)
    PROVE  ClientInv'
  <1>1. stage[c] = "made" /\ Holds(c)
    BY DEF ConnectAtOnce, ConnectFailsAtOnce, Holds
  <1>2. PICK fd \in Fd : fd = fdOf[c]
    BY <1>1, HolderFacts
  <1>3. /\ eventOf[c] = fd /\ sockets[fd] = "fresh"
        /\ \A d \in Client : d # c /\ Holds(d) => fdOf[d] # fd
        /\ "IN" \in events[fd].mask => fd \in stale /\ events[fd].read \in Callback
    <2>1. SocketInv(c)
      BY DEF ClientInv
    <2> QED BY <1>1, <1>2, <2>1, HolderFacts DEF SocketInv, Reads
  <1>4. /\ \/ /\ stage' = [stage EXCEPT ![c] = "connected"]
              /\ sockets' = [sockets EXCEPT ![fd] = "up"]
           \/ stage' = [stage EXCEPT ![c] = "failed"] /\ sockets' = sockets
        /\ dones' = [dones EXCEPT ![c] = @ + 1]
        /\ UNCHANGED <<fdOf, eventOf, events, loops, looping, tasks, leftBehind, stale>>
    BY <1>2 DEF ConnectAtOnce, ConnectFailsAtOnce
  <1>5. /\ \/ stage'[c] = "connected" /\ sockets'[fd] = "up"
           \/ stage'[c] = "failed" /\ sockets'[fd] = "fresh"
        /\ dones'[c] = 1
        /\ \A d \in Client : d # c => stage'[d] = stage[d] /\ dones'[d] = dones[d]
        /\ \A f \in Fd : f # fd => sockets'[f] = sockets[f]
    BY <1>1, <1>3, <1>4, Types, Quiet
  <1>6. ClientTypes'
    <2>1. dones' \in [Client -> Nat]
      BY <1>4, Types
    <2>2. stage' \in [Client -> Stage] /\ sockets' \in [Fd -> Socket]
      BY <1>4, Types DEF Stage, Socket
    <2> QED BY <1>4, <2>1, <2>2, Types, Typed
  <1>7. Touches(c, {fd})
    BY <1>1, <1>2, <1>3, <1>4, <1>5 DEF Touches
  <1>8. Sound(c, {fd})'
    <2>1. NumberInv(c)' /\ (Holds(c) => fdOf[c] \in {fd})' /\ SocketInv(c)' /\ RegInv(c)'
      BY <1>2, <1>3, <1>4, <1>5 DEF NumberInv, SocketInv, RegInv, Waits, Open
    <2>2. DoneInv(c)'
      BY <1>5 DEF DoneInv
    <2>3. \A f \in Fd : CallInv(f, c)'
      BY <1>1, <1>4, Quiet DEF CallInv
    <2>4. \A l \in Loop : LeftInv(l, fd)' /\ fd \notin Watched(loops[l])'
      BY <1>1, <1>2, <1>4, Quiet DEF ClientInv, LeftInv
    <2>5. \A l \in Loop : \A i \in DOMAIN tasks'[l] : tasks'[l][i].client # c
      BY <1>1, <1>4, Quiet
    <2>6. OwnInv(c)'
      BY <1>5 DEF OwnInv, Reads
    <2> QED BY <1>3, <1>4, <2>1, <2>2, <2>3, <2>4, <2>5, <2>6 DEF Sound
  <1> QED BY <1>6, <1>7, <1>8, Frame

(* connect when it is in progress, and writeMessage: the client waits for *)
(* EPOLLOUT.                                                              *)
LEMMA WaitKeeps ==
    ASSUME ClientInv, NEW c \in Client, ConnectInProgress(c) \/ WriteMessage(c)
    PROVE  ClientInv'
  <1>1. PICK run \in Run, next \in {"connecting", "writing"} :
          /\ \/ stage[c] = "made" /\ next = "connecting" /\ run = "connect"
             \/ stage[c] = "connected" /\ next = "writing" /\ run = "onWrite"
          /\ stage' = [stage EXCEPT ![c] = next] /\ ListenOn(c, "OUT", Callbk(c, run))
          /\ IF next = "connecting" THEN sockets' = [sockets EXCEPT ![fdOf[c]] = "connecting"]
                                    ELSE sockets' = sockets
          /\ looping' \in {looping, looping \cup {LoopOf(c)}}
          /\ UNCHANGED <<fdOf, eventOf, tasks, dones, leftBehind, stale>>
    BY DEF ConnectInProgress, WriteMessage, Run
  <1>2. Holds(c)
    BY <1>1 DEF Holds
  <1>3. PICK fd \in Fd : fd = fdOf[c]
    BY <1>2, HolderFacts
  <1>4. /\ eventOf[c] = fd /\ LoopOf(c) \in Loop /\ sockets[fd] # "none"
        /\ next = "writing" => sockets[fd] \in {"up", "answer", "eof"}
        /\ \A d \in Client : d # c /\ Holds(d) => fdOf[d] # fd
        /\ "IN" \in events[fd].mask => fd \in stale /\ events[fd].read \in Callback
    <2>1. SocketInv(c)
      BY DEF ClientInv
    <2> QED BY <1>1, <1>2, <1>3, <2>1, HolderFacts DEF SocketInv, Reads, Open
  <1>5. PICK e : e = Listen(events[fd], "OUT", Callbk(c, run))
    OBVIOUS
  <1>6. /\ e \in FdEvent /\ e.mask = events[fd].mask \cup {"OUT"} /\ e.read = events[fd].read
        /\ e.write = Callbk(c, run)
    <2>1. PICK ev \in FdEvent : ev = events[fd]
      BY Types
    <2>2. /\ Listen(ev, "OUT", Callbk(c, run)) \in FdEvent
          /\ Listen(ev, "OUT", Callbk(c, run)).mask = ev.mask \cup {"OUT"}
          /\ Listen(ev, "OUT", Callbk(c, run)).read = ev.read
          /\ Listen(ev, "OUT", Callbk(c, run)).write = Callbk(c, run)
      BY ListenedEvent
    <2> QED BY <1>5, <2>1, <2>2
  <1>7. ListensWith(c, fd, e)
    BY <1>1, <1>4, <1>5 DEF ListenOn, ListensWith
  <1>8. /\ events' \in [Fd -> FdEvent] /\ loops' \in [Loop -> LoopsOver(Fd)]
        /\ events'[fd] = e /\ \A f \in Fd : f # fd => events'[f] = events[f]
        /\ \A l \in Loop, f \in Fd : f # fd =>
             /\ f \in Watched(loops'[l]) <=> f \in Watched(loops[l])
             /\ f \in Watched(loops[l]) => loops'[l].epoll[f] = loops[l].epoll[f]
             /\ f \in loops'[l].listen_fds <=> f \in loops[l].listen_fds
        /\ \A l \in Loop : fd \in Watched(loops'[l]) =>
             l = LoopOf(c) /\ loops'[l].epoll[fd] = e.mask
        /\ \A l \in Loop : LeftInv(l, fd)'
        /\ fd \in leftBehind[LoopOf(c)] \/ fd \in Watched(loops'[LoopOf(c)])
    <2>1. leftBehind' = leftBehind
      BY <1>1
    <2> QED BY <1>2, <1>3, <1>6, <1>7, <2>1, Listened
  <1>9. /\ stage'[c] = next
        /\ \A d \in Client : d # c => stage'[d] = stage[d]
        /\ \A f \in Fd : f # fd => sockets'[f] = sockets[f]
        /\ IF next = "connecting" THEN sockets'[fd] = "connecting" ELSE sockets'[fd] = sockets[fd]
    BY <1>1, <1>3, Types
  <1>10. ClientTypes'
    <2>1. stage' \in [Client -> Stage] /\ sockets' \in [Fd -> Socket] /\ looping' \subseteq Loop
      BY <1>1, <1>4, Types DEF Stage, Socket
    <2> QED BY <1>1, <1>8, <2>1, Types, Typed
  <1>11. \A f \in Fd, d \in Client, r \in Run :
           /\ events'[f].read = Callbk(d, r) => events[f].read = Callbk(d, r)
           /\ events'[f].write = Callbk(d, r) =>
                \/ events[f].write = Callbk(d, r)
                \/ f = fd /\ d = c /\ r = run
    BY <1>6, <1>8 DEF Callbk
  <1>12. Touches(c, {fd})
    <2>1. \A f \in Fd, d \in Client, r \in Run :
            d # c => /\ events'[f].read = Callbk(d, r) => events[f].read = Callbk(d, r)
                     /\ events'[f].write = Callbk(d, r) => events[f].write = Callbk(d, r)
      BY <1>11
    <2> QED BY <1>1, <1>3, <1>4, <1>8, <1>9, <2>1 DEF Touches
  <1>13. Sound(c, {fd})'
    <2>1. NumberInv(c)' /\ (Holds(c) => fdOf[c] \in {fd})' /\ SocketInv(c)'
      BY <1>1, <1>3, <1>4, <1>9 DEF NumberInv, SocketInv, Open
    <2>2. DoneInv(c)'
      <3>1. DoneInv(c) /\ dones'[c] = dones[c] /\ dones[c] \in Nat
        BY <1>1, Types DEF ClientInv
      <3> QED BY <1>1, <1>9, <3>1 DEF DoneInv
    <2>3. RegInv(c)'
      <3>1. Waits(c)' = "OUT"
        BY <1>9 DEF Waits
      <3>2. eventOf'[c] = fd /\ leftBehind' = leftBehind
        BY <1>1, <1>4
      <3>3. CASE fd \in leftBehind[LoopOf(c)]
        BY <3>2, <3>3 DEF RegInv
      <3>4. CASE fd \in Watched(loops'[LoopOf(c)])
        BY <1>4, <1>6, <1>8, <3>1, <3>2, <3>4 DEF RegInv
      <3> QED BY <1>8, <3>3, <3>4
    <2>4. \A f \in Fd : CallInv(f, c)'
      <3> SUFFICES ASSUME NEW f \in Fd PROVE CallInv(f, c)'
        OBVIOUS
      <3>1. CallInv(f, c) /\ eventOf'[c] = fd
        BY <1>1, <1>4 DEF ClientInv
      <3>2. \A r \in Run : events[f].read # Callbk(c, r) /\
                           (next = "connecting" => events[f].write # Callbk(c, r))
        BY <1>1, <3>1 DEF CallInv, Reads
      <3>3. ASSUME NEW r \in Run, events'[f].write = Callbk(c, r)
            PROVE  f = fd /\ r = run
        <4>1. CASE f = fd
          BY <1>6, <1>8, <3>3, <4>1 DEF Callbk
        <4>2. CASE f # fd
          BY <1>1, <1>4, <1>8, <3>1, <3>3, <4>2 DEF CallInv
        <4> QED BY <4>1, <4>2
      <3> QED BY <1>1, <1>9, <1>11, <3>1, <3>2, <3>3 DEF CallInv
    <2>5. \A l \in Loop : \A i \in DOMAIN tasks'[l] : tasks'[l][i].client # c
      BY <1>1, TasksOf DEF InStage, Reads
    <2>6. \A l \in Loop : fd \in Watched(loops'[l]) => WatchedFor(l, fd, c)'
      <3> SUFFICES ASSUME NEW l \in Loop, fd \in Watched(loops'[l]) PROVE WatchedFor(l, fd, c)'
        OBVIOUS
      <3>1. l = LoopOf(c) /\ loops'[l].epoll[fd] = e.mask
        BY <1>8
      <3>2. /\ "OUT" \in e.mask /\ events'[fd].write = Callbk(c, run)
            /\ "IN" \in e.mask => fd \in stale' /\ events'[fd].read \in Callback
        BY <1>1, <1>4, <1>6, <1>8
      <3>3. fdOf'[c] = fd /\ stage'[c] \in Waiting /\ stage'[c] \notin Reads
            /\ run = (IF stage'[c] = "connecting" THEN "connect" ELSE "onWrite")
        BY <1>1, <1>3, <1>9 DEF Waiting, Reads
      <3> QED BY <3>1, <3>2, <3>3 DEF WatchedFor
    <2>7. "IN" \in events'[fd].mask => fd \in stale' /\ events'[fd].read \in Callback
      BY <1>1, <1>4, <1>6, <1>8
    <2>8. OwnInv(c)'
      <3>1. eventOf'[c] = fd /\ events'[fd].write = Callbk(c, run) /\ stage'[c] = next
        BY <1>1, <1>4, <1>6, <1>8, <1>9
      <3>2. next = "writing" => run = "onWrite"
        BY <1>1
      <3> QED BY <3>1, <3>2 DEF OwnInv, Reads
    <2> QED BY <1>8, <2>1, <2>2, <2>3, <2>4, <2>5, <2>6, <2>7, <2>8 DEF Sound
  <1> QED BY <1>10, <1>12, <1>13, Frame

\* The oldest task of a loop, one of the client c, is taken; what stays queued
\* for c fits its stage, and is nothing of connect if the task was.
Took(c, run) ==
    /\ tasks' \in [Loop -> Seq(Callback)]
    /\ \A l \in Loop :
         \/ tasks'[l] = tasks[l]
         \/ /\ tasks[l] # << >> /\ Head(tasks[l]).client = c
            /\ tasks'[l] = Tail(tasks[l])
    /\ stage[c] # "destroyed" =>
         /\ InStage(c, run)
         /\ \A l \in Loop : \A i \in DOMAIN tasks'[l] : \A r \in Run :
              tasks'[l][i].client = c /\ tasks'[l][i].run = r =>
                InStage(c, r) /\ (run = "connect" => r # "connect")

LEMMA TaskTaken ==
    ASSUME ClientInv, NEW l \in Loop, tasks[l] # << >>,
           tasks' = [tasks EXCEPT ![l] = Tail(@)],
           NEW c, c = Head(tasks[l]).client, NEW run, run = Head(tasks[l]).run
    PROVE  c \in Client /\ run \in Run /\ Took(c, run)
  <1>1. PICK s \in Seq(Callback) : s = tasks[l]
    BY Types
  <1>2. /\ Tail(s) \in Seq(Callback) /\ Head(s) \in Callback /\ Head(s) = s[1] /\ 1 \in DOMAIN s
        /\ \A i \in DOMAIN Tail(s) : i + 1 \in DOMAIN s /\ i + 1 # 1 /\ Tail(s)[i] = s[i + 1]
        /\ \A i \in DOMAIN s : i # 1 => i - 1 \in DOMAIN Tail(s) /\ Tail(s)[i - 1] = s[i]
    BY <1>1, TailShifts
  <1>3. c \in Client /\ run \in Run /\ s[1] = [client |-> c, run |-> run]
    BY <1>1, <1>2 DEF Callback, Run
  <1>4. tasks'[l] = Tail(s) /\ \A k \in Loop : k # l => tasks'[k] = tasks[k]
    BY <1>1, Types
  <1>5. tasks' \in [Loop -> Seq(Callback)]
    BY <1>1, <1>2, Types
  <1>6. \A k \in Loop :
          \/ tasks'[k] = tasks[k]
          \/ /\ tasks[k] # << >> /\ Head(tasks[k]).client = c
             /\ tasks'[k] = Tail(tasks[k])
    BY <1>1, <1>4
  <1>7. ASSUME stage[c] # "destroyed"
        PROVE  LoopOf(c) = l /\ InStage(c, run)
    <2>1. TaskInv(l)
      BY DEF ClientInv
    <2>2. PICK t : t = s[1]
      OBVIOUS
    <2>3. LoopOf(t.client) = l /\ InStage(t.client, t.run)
      BY <1>1, <1>2, <1>3, <1>7, <2>1, <2>2 DEF TaskInv
    <2>4. t.client = c /\ t.run = run
      BY <1>3, <2>2
    <2>5. LoopOf(c) = l
      BY <2>3, <2>4
    <2>6. InStage(c, run)
      BY <2>3, <2>4 DEF InStage
    <2> QED BY <2>5, <2>6
  <1>8. ASSUME stage[c] # "destroyed", NEW k \in Loop, NEW i \in DOMAIN tasks'[k], NEW r \in Run,
               tasks'[k][i].client = c, tasks'[k][i].run = r
        PROVE  InStage(c, r) /\ (run = "connect" => r # "connect")
    <2>1. CASE k = l
      <3>1. i + 1 \in DOMAIN s /\ i + 1 # 1 /\ tasks'[k][i] = s[i + 1]
        BY <1>2, <1>4, <1>8, <2>1
      <3>2. PICK n \in DOMAIN s : n = i + 1
        BY <3>1
      <3>3. n \in DOMAIN tasks[l] /\ tasks[l][n].client = c /\ tasks[l][n].run = r
        BY <1>1, <1>8, <3>1, <3>2
      <3>4. InStage(c, tasks[l][n].run)
        BY <1>3, <1>8, <3>3, TasksOf
      <3>5. InStage(c, r)
        BY <3>3, <3>4 DEF InStage
      <3>6. run = "connect" => r # "connect"
        <4> SUFFICES ASSUME run = "connect", r = "connect" PROVE FALSE
          OBVIOUS
        <4>1. s[n] \in Callback /\ s[n].client = c /\ s[n].run = run
          BY <1>1, <3>2, <3>3, ElementOfSeq
        <4>2. s[n] = s[1]
          BY <1>3, <4>1 DEF Callback
        <4>3. \A j \in DOMAIN s :
                LET t == s[j]
                IN  stage[t.client] # "destroyed" /\ t.run = "connect" =>
                      \A q \in DOMAIN s : s[q] = t => q = j
          BY <1>1 DEF ClientInv, TaskInv
        <4>4. \A q \in DOMAIN s : s[q] = s[1] => q = 1
          BY <1>2, <1>3, <1>8, <4>3
        <4> QED BY <3>1, <3>2, <4>2, <4>4
      <3> QED BY <3>5, <3>6
    <2>2. CASE k # l
      <3>1. tasks'[k] = tasks[k]
        BY <1>4, <2>2
      <3>2. PICK t : t = tasks[k][i]
        OBVIOUS
      <3>3. LoopOf(t.client) = k
        BY <1>8, <3>1, <3>2 DEF ClientInv, TaskInv
      <3>4. LoopOf(c) = k
        BY <1>8, <3>1, <3>2, <3>3
      <3> QED BY <1>7, <1>8, <2>2, <3>4
    <2> QED BY <2>1, <2>2
  <1>9. stage[c] # "destroyed" =>
          /\ InStage(c, run)
          /\ \A k \in Loop : \A i \in DOMAIN tasks'[k] : \A r \in Run :
               tasks'[k][i].client = c /\ tasks'[k][i].run = r =>
                 InStage(c, r) /\ (run = "connect" => r # "connect")
    BY <1>7, <1>8
  <1> QED BY <1>3, <1>5, <1>6, <1>9 DEF Took

(* A task that does nothing. *)
LEMMA IdleKeeps ==
    ASSUME ClientInv, NEW c \in Client, NEW run \in Run, Took(c, run),
           stage[c] # "connecting",
           UNCHANGED <<stage, fdOf, eventOf, sockets, events, loops, looping, dones,
                       leftBehind, stale>>
    PROVE  ClientInv'
  <1>1. ClientTypes'
    BY Types, Typed DEF Took
  <1>2. PICK F \in SUBSET Fd : F = IF Holds(c) THEN {fdOf[c]} ELSE {}
    <2>1. CASE Holds(c)
      BY <2>1, HolderFacts
    <2>2. CASE ~ Holds(c)
      BY <2>2
    <2> QED BY <2>1, <2>2
  <1>3. Touches(c, F)
    <2>1. \A d \in Client : d # c /\ Holds(d) => fdOf[d] \notin F
      BY <1>2, HolderFacts
    <2> QED BY <1>2, <2>1 DEF Touches, Took
  <1>4. Sound(c, F)'
    <2>1. NumberInv(c)' /\ SocketInv(c)' /\ DoneInv(c)' /\ (Holds(c) => fdOf[c] \in F)'
      BY <1>2 DEF ClientInv, NumberInv, SocketInv, DoneInv, Holds
    <2>2. RegInv(c)' /\ OwnInv(c)'
      <3>1. RegInv(c) /\ OwnInv(c) /\ Waits(c)' = Waits(c)
        BY DEF ClientInv, Waits
      <3> QED BY <3>1 DEF RegInv, OwnInv
    <2>3. \A f \in F :
            "IN" \in events'[f].mask =>
              /\ events'[f].read \in Callback
              /\ f \in stale' \/ (fdOf'[c] = f /\ stage'[c] \in Reads)
      BY <1>2, HolderFacts
    <2>4. \A f \in Fd : CallInv(f, c)'
      BY DEF ClientInv, CallInv
    <2>5. \A l \in Loop, f \in F : LeftInv(l, f)' /\ (f \in Watched(loops'[l]) => WatchedFor(l, f, c)')
      BY <1>2, HolderFacts DEF ClientInv, LeftInv, WatchedFor
    <2>6. stage'[c] # "destroyed" =>
            \A l \in Loop : \A i \in DOMAIN tasks'[l] : \A r \in Run :
              tasks'[l][i].client = c /\ tasks'[l][i].run = r => InStage(c, r)'
      BY DEF Took, InStage
    <2> QED BY <2>1, <2>2, <2>3, <2>4, <2>5, <2>6 DEF Sound
  <1> QED BY <1>1, <1>3, <1>4, Frame

LEMMA OnWriteKeeps ==
    ASSUME ClientInv, NEW c \in Client, Holds(c), Took(c, "onWrite"), OnWrite(c)
    PROVE  ClientInv'
  <1>1. PICK fd \in Fd : fd = fdOf[c]
    BY HolderFacts
  <1>2. InStage(c, "onWrite") /\ stage[c] \in Reads \cup {"writing", "closed"}
    BY DEF Took, InStage, Holds
  <1>3. /\ eventOf[c] = fd /\ LoopOf(c) \in Loop /\ sockets[fd] \in {"up", "answer", "eof"}
        /\ \A d \in Client : d # c /\ Holds(d) => fdOf[d] # fd
    <2>1. SocketInv(c)
      BY DEF ClientInv
    <2> QED BY <1>1, <1>2, <2>1, HolderFacts DEF SocketInv, Reads, Open
  <1>4. "onWrite" \in Run /\ "onRead" \in Run
    BY DEF Run
  <1>5. CASE UNCHANGED <<events, loops, stage>>
    <2>1. UNCHANGED <<stage, fdOf, eventOf, sockets, events, loops, looping, dones,
                      leftBehind, stale>>
      BY <1>5 DEF OnWrite
    <2>2. stage[c] # "connecting"
      BY <1>2 DEF Reads
    <2> QED BY <1>4, <2>1, <2>2, IdleKeeps
  <1>6. CASE stage[c] # "closed" /\ ~ UNCHANGED <<events, loops, stage>>
    <2>0. UNCHANGED <<fdOf, eventOf, sockets, looping, dones, leftBehind, stale>>
      BY DEF OnWrite
    <2>1. /\ events[fd].write = Callbk(c, "onWrite")
          /\ stage[c] \in Reads => /\ events[fd].read = Callbk(c, "onRead")
                                  /\ "IN" \in events[fd].mask
      <3>1. OwnInv(c)
        BY DEF ClientInv
      <3> QED BY <1>2, <1>3, <1>6, <3>1 DEF OwnInv
    <2>2. PICK e \in FdEvent, next \in Reads :
            /\ ListensWith(c, fd, e) /\ stage' = [stage EXCEPT ![c] = next]
            /\ "IN" \in e.mask /\ e.write = Callbk(c, "onWrite")
            /\ e.read = Callbk(c, "onRead") /\ e.read \in Callback
      <3>1. PICK ev \in FdEvent : ev = events[fd]
        BY Types
      <3>2. PICK run \in Run : run = "onRead"
        BY <1>4
      <3>3. Callbk(c, run) \in Callback
        BY DEF Callbk, Callback, Run
      <3>4. stage \in [Client -> Stage]
        BY Types
      <3>5. CASE stage[c] = "writing"
        <4>1. PICK e \in FdEvent :
                /\ ListensWith(c, fd, e) /\ stage' = [stage EXCEPT ![c] = "reading"]
                /\ "IN" \in e.mask /\ e.write = ev.write /\ e.read = Callbk(c, run)
          <5>1. PICK off, e1, e2 :
                  /\ off = Cancle(ev, "OUT") /\ e1 = Listen(off, "IN", Callbk(c, run))
                  /\ e2 = Listen(ev, "IN", Callbk(c, run))
            OBVIOUS
          <5>2. /\ e1 \in FdEvent /\ "IN" \in e1.mask
                /\ e1.write = ev.write /\ e1.read = Callbk(c, run)
            <6>1. off \in FdEvent /\ off.write = ev.write
              BY <5>1, HeardEvent
            <6> QED BY <5>1, <6>1, HeardEvent
          <5>3. /\ e2 \in FdEvent /\ "IN" \in e2.mask
                /\ e2.write = ev.write /\ e2.read = Callbk(c, run)
            BY <5>1, HeardEvent
          <5>4. ListensWith(c, fd, e1) \/ ListensWith(c, fd, e2)
            BY <1>3, <3>1, <3>2, <3>5, <5>1 DEF OnWrite, ListensWith
          <5>5. stage' = [stage EXCEPT ![c] = "reading"]
            BY <3>5 DEF OnWrite
          <5> QED BY <5>2, <5>3, <5>4, <5>5
        <4>2. "reading" \in Reads
          BY DEF Reads
        <4> QED BY <2>1, <3>1, <3>2, <3>3, <4>1, <4>2
      <3>6. CASE stage[c] \in Reads
        <4>1. PICK e : e = Cancle(ev, "OUT")
          OBVIOUS
        <4>2. /\ e \in FdEvent /\ e.mask = ev.mask \ {"OUT"}
              /\ e.read = ev.read /\ e.write = ev.write
          BY <4>1, HeardEvent
        <4>3. ListensWith(c, fd, e) /\ UNCHANGED stage
          BY <1>3, <1>6, <3>1, <3>6, <4>1 DEF OnWrite, ListensWith, Reads
        <4>4. stage' = [stage EXCEPT ![c] = stage[c]]
          BY <3>4, <4>3
        <4>5. "IN" \in e.mask /\ e.write = Callbk(c, "onWrite") /\ e.read = Callbk(c, "onRead")
          BY <2>1, <3>1, <3>6, <4>2
        <4> QED BY <3>2, <3>3, <3>6, <4>2, <4>3, <4>4, <4>5
      <3> QED BY <1>2, <1>6, <3>5, <3>6
    <2>3. e.mask \in SUBSET {"IN", "OUT"}
      BY DEF FdEvent
    <2>4. /\ events' \in [Fd -> FdEvent] /\ loops' \in [Loop -> LoopsOver(Fd)]
          /\ events'[fd] = e /\ \A f \in Fd : f # fd => events'[f] = events[f]
          /\ \A l \in Loop, f \in Fd : f # fd =>
               /\ f \in Watched(loops'[l]) <=> f \in Watched(loops[l])
               /\ f \in Watched(loops[l]) => loops'[l].epoll[f] = loops[l].epoll[f]
               /\ f \in loops'[l].listen_fds <=> f \in loops[l].listen_fds
          /\ \A l \in Loop : fd \in Watched(loops'[l]) =>
               l = LoopOf(c) /\ loops'[l].epoll[fd] = e.mask
          /\ \A l \in Loop : LeftInv(l, fd)'
          /\ fd \in leftBehind[LoopOf(c)] \/ fd \in Watched(loops'[LoopOf(c)])
      <3>1. leftBehind' = leftBehind
        BY <2>0
      <3> QED BY <1>1, <2>2, <3>1, Listened
    <2>5. /\ stage'[c] = next /\ next \in Reads
          /\ \A d \in Client : d # c => stage'[d] = stage[d]
      BY <2>2, Types
    <2>6. ClientTypes'
      <3>1. stage' \in [Client -> Stage]
        BY <2>2, Types DEF Stage, Reads
      <3> QED BY <2>0, <2>4, <3>1, Types, Typed DEF Took
    <2>7. \A f \in Fd, d \in Client, r \in Run :
            /\ events'[f].read = Callbk(d, r) =>
                 \/ events[f].read = Callbk(d, r)
                 \/ f = fd /\ d = c /\ r = "onRead"
            /\ events'[f].write = Callbk(d, r) => events[f].write = Callbk(d, r)
      BY <2>1, <2>2, <2>4 DEF Callbk
    <2>8. Touches(c, {fd})
      <3>1. \A f \in Fd, d \in Client, r \in Run :
              d # c => /\ events'[f].read = Callbk(d, r) => events[f].read = Callbk(d, r)
                       /\ events'[f].write = Callbk(d, r) => events[f].write = Callbk(d, r)
        BY <2>7
      <3>2. \A l \in Loop :
              \/ tasks'[l] = tasks[l]
              \/ /\ tasks[l] # << >> /\ Head(tasks[l]).client = c
                 /\ tasks'[l] = Tail(tasks[l])
        BY DEF Took
      <3>3. stage[c] # "destroyed"
        BY DEF Holds
      <3> QED BY <1>1, <1>3, <2>0, <2>4, <2>5, <3>1, <3>2, <3>3 DEF Touches
    <2>9. Sound(c, {fd})'
      <3>1. NumberInv(c)' /\ (Holds(c) => fdOf[c] \in {fd})' /\ SocketInv(c)'
        BY <1>1, <1>3, <2>0, <2>5 DEF NumberInv, SocketInv, Open, Reads
      <3>2. DoneInv(c)'
        BY <1>2, <1>6, <2>0, <2>5 DEF ClientInv, DoneInv, Reads
      <3>3. RegInv(c)'
        <4>1. Waits(c)' = "IN"
          BY <2>5 DEF Waits, Reads
        <4>2. eventOf'[c] = fd /\ leftBehind' = leftBehind
          BY <1>3, <2>0
        <4>3. CASE fd \in leftBehind[LoopOf(c)]
          BY <4>2, <4>3 DEF RegInv
        <4>4. CASE fd \in Watched(loops'[LoopOf(c)])
          BY <1>3, <2>2, <2>4, <4>1, <4>2, <4>4 DEF RegInv
        <4> QED BY <2>4, <4>3, <4>4
      <3>4. \A f \in Fd : CallInv(f, c)'
        <4> SUFFICES ASSUME NEW f \in Fd PROVE CallInv(f, c)'
          OBVIOUS
        <4>1. CallInv(f, c) /\ eventOf[c] = fd /\ eventOf'[c] = fd /\ stage[c] # "destroyed"
          BY <1>3, <2>0 DEF ClientInv, Holds
        <4>2. \A r \in Run : events'[f].read = Callbk(c, r) => f = fd /\ r = "onRead"
          BY <2>7, <4>1 DEF CallInv
        <4>3. \A r \in Run : events'[f].write = Callbk(c, r) => f = fd /\ r = "onWrite"
          BY <1>2, <1>6, <2>7, <4>1 DEF CallInv, Reads
        <4> QED BY <2>5, <4>1, <4>2, <4>3 DEF CallInv
      <3>5. \A l \in Loop : \A i \in DOMAIN tasks'[l] : \A r \in Run :
              tasks'[l][i].client = c /\ tasks'[l][i].run = r => InStage(c, r)'
        <4>1. \A r \in Run : InStage(c, r) => InStage(c, r)'
          BY <1>2, <1>6, <2>5 DEF InStage, Reads
        <4> QED BY <4>1 DEF Took, Holds
      <3>6. \A l \in Loop : fd \in Watched(loops'[l]) => WatchedFor(l, fd, c)'
        <4>1. fdOf'[c] = fd /\ stage'[c] \in Waiting /\ stage'[c] \in Reads
          BY <1>1, <2>0, <2>5 DEF Waiting, Reads
        <4> QED BY <2>2, <2>4, <4>1 DEF WatchedFor
      <3>7. "IN" \in events'[fd].mask =>
              events'[fd].read \in Callback /\ fdOf'[c] = fd /\ stage'[c] \in Reads
        BY <1>1, <2>0, <2>2, <2>4, <2>5
      <3>8. OwnInv(c)'
        BY <1>3, <2>0, <2>2, <2>4 DEF OwnInv
      <3> QED BY <2>4, <3>1, <3>2, <3>3, <3>4, <3>5, <3>6, <3>7, <3>8 DEF Sound
    <2> QED BY <2>6, <2>8, <2>9, Frame
  <1>7. stage[c] = "closed" => UNCHANGED <<events, loops, stage>>
    BY DEF OnWrite
  <1> QED BY <1>5, <1>6, <1>7

LEMMA OnReadKeeps ==
    ASSUME ClientInv, NEW c \in Client, Holds(c), Took(c, "onRead"), OnRead(c)
    PROVE  ClientInv'
  <1>1. PICK fd \in Fd : fd = fdOf[c]
    BY HolderFacts
  <1>2. InStage(c, "onRead") /\ stage[c] \in Reads \cup {"closed"}
    BY DEF Took, InStage, Holds
  <1>3. /\ eventOf[c] = fd /\ LoopOf(c) \in Loop /\ sockets[fd] \in {"up", "answer", "eof"}
        /\ \A d \in Client : d # c /\ Holds(d) => fdOf[d] # fd
        /\ \A l \in Loop : fd \in Watched(loops[l]) => WatchedFor(l, fd, c)
        /\ "IN" \in events[fd].mask =>
             events[fd].read \in Callback /\ (fd \in stale \/ stage[c] \in Reads)
    <2>1. SocketInv(c)
      BY DEF ClientInv
    <2> QED BY <1>1, <1>2, <2>1, HolderFacts DEF SocketInv, Reads, Open
  <1>4. "onRead" \in Run
    BY DEF Run
  <1>5. UNCHANGED <<fdOf, eventOf, looping, dones, leftBehind, stale>>
    BY DEF OnRead
  <1>6. \A l \in Loop :
          \/ tasks'[l] = tasks[l]
          \/ /\ tasks[l] # << >> /\ Head(tasks[l]).client = c
             /\ tasks'[l] = Tail(tasks[l])
    BY DEF Took
  <1>7. DoneInv(c) /\ RegInv(c) /\ \A f \in Fd : CallInv(f, c)
    BY DEF ClientInv
  <1>8. CASE sockets[fd] = "answer"
    <2>1. /\ sockets' = [sockets EXCEPT ![fd] = "up"]
          /\ stage' = [stage EXCEPT ![c] = IF @ = "reading" THEN "answered" ELSE @]
          /\ UNCHANGED <<events, loops>>
      BY <1>1, <1>8 DEF OnRead
    <2>2. /\ stage'[c] = IF stage[c] = "reading" THEN "answered" ELSE stage[c]
          /\ sockets'[fd] = "up"
          /\ \A d \in Client : d # c => stage'[d] = stage[d]
          /\ \A f \in Fd : f # fd => sockets'[f] = sockets[f]
      BY <2>1, Types
    <2>3. ClientTypes'
      <3>1. stage' \in [Client -> Stage] /\ sockets' \in [Fd -> Socket]
        BY <2>1, Types DEF Stage, Socket
      <3> QED BY <1>5, <2>1, <3>1, Types, Typed DEF Took
    <2>4. Touches(c, {fd})
      BY <1>1, <1>2, <1>3, <1>5, <1>6, <2>1, <2>2 DEF Touches, Reads
    <2>5. Sound(c, {fd})'
      <3>1. NumberInv(c)' /\ (Holds(c) => fdOf[c] \in {fd})' /\ SocketInv(c)' /\ DoneInv(c)'
        BY <1>1, <1>2, <1>3, <1>5, <1>7, <2>2
           DEF NumberInv, SocketInv, DoneInv, Reads, Open
      <3>2. RegInv(c)'
        <4>1. Waits(c)' = Waits(c) /\ stage[c] # "connecting"
          BY <1>2, <2>2 DEF Waits, Reads
        <4> QED BY <1>5, <1>7, <2>1, <4>1 DEF RegInv
      <3>3. \A f \in Fd : CallInv(f, c)'
        <4>1. /\ stage'[c] \in Reads \cup {"closed"}
              /\ stage[c] = "closed" <=> stage'[c] = "closed"
          BY <1>2, <2>2 DEF Reads
        <4> QED BY <1>2, <1>5, <1>7, <2>1, <4>1 DEF CallInv, Reads
      <3>4. \A l \in Loop : \A i \in DOMAIN tasks'[l] : \A r \in Run :
              tasks'[l][i].client = c /\ tasks'[l][i].run = r => InStage(c, r)'
        <4>1. \A r \in Run : InStage(c, r) => InStage(c, r)'
          BY <1>2, <2>2 DEF InStage, Reads
        <4> QED BY <1>2, <4>1 DEF Took, Reads
      <3>5. \A l \in Loop : LeftInv(l, fd)' /\ (fd \in Watched(loops'[l]) => WatchedFor(l, fd, c)')
        <4>1. /\ stage'[c] \in Waiting <=> stage[c] \in Waiting
              /\ stage'[c] \in Reads <=> stage[c] \in Reads
              /\ stage'[c] # "connecting" /\ stage[c] # "connecting"
          BY <1>2, <2>2 DEF Waiting, Reads
        <4>2. \A l \in Loop : LeftInv(l, fd)'
          BY <1>5, <2>1 DEF ClientInv, LeftInv
        <4>3. \A l \in Loop : WatchedFor(l, fd, c) => WatchedFor(l, fd, c)'
          BY <1>5, <2>1, <4>1 DEF WatchedFor
        <4> QED BY <1>3, <2>1, <4>2, <4>3
      <3>6. "IN" \in events'[fd].mask =>
              /\ events'[fd].read \in Callback
              /\ fd \in stale' \/ (fdOf'[c] = fd /\ stage'[c] \in Reads)
        BY <1>1, <1>3, <1>5, <2>1, <2>2 DEF Reads
      <3>7. OwnInv(c)'
        <4>1. OwnInv(c) /\ (stage'[c] \in Reads <=> stage[c] \in Reads) /\ stage'[c] # "writing"
          BY <1>2, <2>2 DEF ClientInv, Reads
        <4> QED BY <1>5, <2>1, <4>1 DEF OwnInv
      <3> QED BY <3>1, <3>2, <3>3, <3>4, <3>5, <3>6, <3>7 DEF Sound
    <2> QED BY <2>3, <2>4, <2>5, Frame
  <1>9. CASE sockets[fd] = "eof" /\ stage[c] # "closed"
    <2>1. /\ stage' = [stage EXCEPT ![c] = "closed"]
          /\ events' = [events EXCEPT ![fd].mask = {}]
          /\ loops' = [loops EXCEPT ![LoopOf(c)] = DeleteToEpoll(@, fd)]
          /\ UNCHANGED sockets
      BY <1>1, <1>3, <1>9 DEF OnRead
    <2>2. /\ stage'[c] = "closed" /\ \A d \in Client : d # c => stage'[d] = stage[d]
          /\ events' \in [Fd -> FdEvent]
          /\ events'[fd].mask = {} /\ events'[fd].read = events[fd].read
          /\ events'[fd].write = events[fd].write
          /\ \A f \in Fd : f # fd => events'[f] = events[f]
      BY <2>1, Types DEF FdEvent
    <2>3. /\ loops' \in [Loop -> LoopsOver(Fd)]
          /\ \A l \in Loop, f \in Fd : f # fd =>
               /\ f \in Watched(loops'[l]) <=> f \in Watched(loops[l])
               /\ f \in Watched(loops[l]) => loops'[l].epoll[f] = loops[l].epoll[f]
               /\ f \in loops'[l].listen_fds <=> f \in loops[l].listen_fds
          /\ \A l \in Loop : fd \notin Watched(loops'[l]) /\ LeftInv(l, fd)'
      <3>1. Forgets(c, fd) /\ leftBehind' = leftBehind
        BY <1>5, <2>1 DEF Forgets
      <3> QED BY <1>1, <3>1, Removed
    <2>4. ClientTypes'
      <3>1. stage' \in [Client -> Stage]
        BY <2>1, Types DEF Stage
      <3> QED BY <1>5, <2>1, <2>2, <2>3, <3>1, Types, Typed DEF Took
    <2>5. \A f \in Fd : events'[f].read = events[f].read /\ events'[f].write = events[f].write
      BY <2>2
    <2>6. Touches(c, {fd})
      BY <1>1, <1>2, <1>3, <1>5, <1>6, <2>1, <2>2, <2>3, <2>5 DEF Touches, Reads
    <2>7. Sound(c, {fd})'
      <3>1. NumberInv(c)' /\ (Holds(c) => fdOf[c] \in {fd})' /\ SocketInv(c)' /\ DoneInv(c)'
        BY <1>1, <1>2, <1>3, <1>5, <1>7, <2>1, <2>2
           DEF NumberInv, SocketInv, DoneInv, Reads, Open
      <3>2. RegInv(c)'
        BY <2>2 DEF RegInv, Waits
      <3>3. \A f \in Fd : CallInv(f, c)'
        BY <1>2, <1>5, <1>7, <2>2, <2>5 DEF CallInv, Reads
      <3>4. \A l \in Loop : \A i \in DOMAIN tasks'[l] : \A r \in Run :
              tasks'[l][i].client = c /\ tasks'[l][i].run = r => InStage(c, r)'
        <4>1. \A r \in Run : InStage(c, r) => InStage(c, r)'
          BY <1>2, <2>2 DEF InStage, Reads
        <4> QED BY <1>2, <4>1 DEF Took, Reads
      <3>5. OwnInv(c)'
        BY <2>2 DEF OwnInv, Reads
      <3> QED BY <2>2, <2>3, <3>1, <3>2, <3>3, <3>4, <3>5 DEF Sound
    <2> QED BY <2>4, <2>6, <2>7, Frame
  <1>10. CASE sockets[fd] # "answer" /\ ~ (sockets[fd] = "eof" /\ stage[c] # "closed")
    <2>1. UNCHANGED <<stage, fdOf, eventOf, sockets, events, loops, looping, dones,
                      leftBehind, stale>>
      BY <1>1, <1>10 DEF OnRead
    <2>2. stage[c] # "connecting"
      BY <1>2 DEF Reads
    <2> QED BY <1>4, <2>1, <2>2, IdleKeeps
  <1> QED BY <1>8, <1>9, <1>10

LEMMA ConnectCallbackKeeps ==
    ASSUME ClientInv, NEW c \in Client, Holds(c), Took(c, "connect"), ConnectCallback(c)
    PROVE  ClientInv'
  <1>1. PICK old \in Fd : old = fdOf[c]
    BY HolderFacts
  <1>2. stage[c] = "connecting"
    BY DEF Took, InStage, Holds
  <1>3. /\ eventOf[c] = old /\ LoopOf(c) \in Loop
        /\ sockets[old] \notin {"none", "fresh", "connecting"}
        /\ \A d \in Client : d # c /\ Holds(d) => fdOf[d] # old
        /\ "IN" \in events[old].mask => events[old].read \in Callback /\ old \in stale
    <2>1. SocketInv(c) /\ InStage(c, "connect")
      BY DEF ClientInv, Took, Holds
    <2> QED BY <1>1, <1>2, <2>1, HolderFacts DEF SocketInv, InStage, Reads
  <1>4. sockets[old] \in {"refused", "up", "answer", "eof"}
    BY <1>3, Types DEF Socket
  <1>5. /\ dones' = [dones EXCEPT ![c] = @ + 1]
        /\ UNCHANGED <<eventOf, events, looping, leftBehind, stale>>
    BY DEF ConnectCallback
  <1>6. dones'[c] = 1 /\ dones' \in [Client -> Nat] /\ \A d \in Client : d # c => dones'[d] = dones[d]
    <2>1. DoneInv(c) /\ dones[c] \in Nat
      BY Types DEF ClientInv
    <2>2. dones[c] = 0
      BY <1>2, <2>1 DEF DoneInv
    <2> QED BY <1>5, <2>2, Types
  <1>7. /\ tasks' \in [Loop -> Seq(Callback)]
        /\ \A l \in Loop :
             \/ tasks'[l] = tasks[l]
             \/ /\ tasks[l] # << >> /\ Head(tasks[l]).client = c
                /\ tasks'[l] = Tail(tasks[l])
    BY DEF Took
  <1>8. \A l \in Loop : \A i \in DOMAIN tasks'[l] : \A r \in Run :
          ~ (tasks'[l][i].client = c /\ tasks'[l][i].run = r)
    BY <1>2 DEF Took, InStage, Reads
  <1>9. \A f \in Fd : CallInv(f, c)
    BY DEF ClientInv
  <1>10. ASSUME Forgets(c, old)
         PROVE  /\ loops' \in [Loop -> LoopsOver(Fd)]
                /\ \A l \in Loop, f \in Fd : f # old =>
                     /\ f \in Watched(loops'[l]) <=> f \in Watched(loops[l])
                     /\ f \in Watched(loops[l]) => loops'[l].epoll[f] = loops[l].epoll[f]
                     /\ f \in loops'[l].listen_fds <=> f \in loops[l].listen_fds
                /\ \A l \in Loop : old \notin Watched(loops'[l]) /\ LeftInv(l, old)'
    <2>1. leftBehind' = leftBehind
      BY <1>5
    <2> QED BY <1>1, <1>10, <2>1, Removed
  <1>11. CASE sockets[old] # "refused"
    <2>1. /\ stage' = [stage EXCEPT ![c] = "connected"]
          /\ loops' = [loops EXCEPT ![LoopOf(c)] = DeleteToEpoll(@, old)]
          /\ UNCHANGED <<sockets, fdOf>>
      BY <1>1, <1>3, <1>11 DEF ConnectCallback
    <2>2. stage'[c] = "connected" /\ \A d \in Client : d # c => stage'[d] = stage[d]
      BY <2>1, Types
    <2>3. Forgets(c, old)
      BY <2>1 DEF Forgets
    <2>4. ClientTypes'
      <3>1. stage' \in [Client -> Stage]
        BY <2>1, Types DEF Stage
      <3> QED BY <1>5, <1>6, <1>7, <1>10, <2>1, <2>3, <3>1, Types, Typed
    <2>5. Touches(c, {old})
      BY <1>1, <1>2, <1>3, <1>5, <1>6, <1>7, <1>10, <2>1, <2>2, <2>3 DEF Touches
    <2>6. Sound(c, {old})'
      <3>1. NumberInv(c)' /\ (Holds(c) => fdOf[c] \in {old})' /\ SocketInv(c)' /\ DoneInv(c)'
        BY <1>1, <1>3, <1>4, <1>5, <1>6, <1>11, <2>1, <2>2
           DEF NumberInv, SocketInv, DoneInv, Open
      <3>2. RegInv(c)'
        BY <2>2 DEF RegInv, Waits
      <3>3. \A f \in Fd : CallInv(f, c)'
        BY <1>2, <1>5, <1>9, <2>2 DEF CallInv, Reads
      <3>4. OwnInv(c)'
        BY <2>2 DEF OwnInv, Reads
      <3> QED BY <1>3, <1>5, <1>8, <1>10, <2>3, <3>1, <3>2, <3>3, <3>4 DEF Sound
    <2> QED BY <2>4, <2>5, <2>6, Frame
  <1>12. CASE sockets[old] = "refused"
    <2>1. PICK new : new = Lowest(Free([sockets EXCEPT ![old] = "none"]))
      OBVIOUS
    <2>2. new \in Fd /\ (new = old \/ sockets[new] = "none")
      <3>1. PICK free \in SUBSET Fd : free = Free([sockets EXCEPT ![old] = "none"])
        BY DEF Free
      <3>2. old \in free /\ \A f \in free : f = old \/ sockets[f] = "none"
        BY <3>1, Types DEF Free
      <3>3. new \in free
        BY <2>1, <3>1, <3>2, LowestFree
      <3> QED BY <3>2, <3>3
    <2>3. /\ stage' = [stage EXCEPT ![c] = "failed"]
          /\ sockets' = [sockets EXCEPT ![old] = "none", ![new] = "fresh"]
          /\ fdOf' = [fdOf EXCEPT ![c] = new]
          /\ loops' = [l \in Loop |->
                         LET closed == CloseInEpoll(loops[l], old)
                         IN  IF l = LoopOf(c) THEN DeleteToEpoll(closed, old) ELSE closed]
      BY <1>1, <1>3, <1>12, <2>1 DEF ConnectCallback
    <2>4. /\ stage'[c] = "failed" /\ fdOf'[c] = new
          /\ \A d \in Client : d # c => stage'[d] = stage[d] /\ fdOf'[d] = fdOf[d]
          /\ sockets'[new] = "fresh"
          /\ \A f \in Fd : f # old /\ f # new => sockets'[f] = sockets[f]
      BY <2>2, <2>3, Types
    <2>5. Forgets(c, old)
      BY <2>3 DEF Forgets
    <2>6. /\ \A d \in Client : d # c /\ Holds(d) => fdOf[d] # new
          /\ \A l \in Loop : new # old => new \notin Watched(loops[l])
          /\ "IN" \in events[new].mask => new \in stale /\ events[new].read \in Callback
      <3>1. CASE new = old
        BY <1>3, <3>1
      <3>2. CASE sockets[new] = "none"
        BY <2>2, <3>2, FreeFacts
      <3> QED BY <2>2, <3>1, <3>2
    <2>7. ClientTypes'
      <3>1. /\ stage' \in [Client -> Stage] /\ sockets' \in [Fd -> Socket]
            /\ fdOf' \in [Client -> Fd \cup {NoFd}]
        BY <2>2, <2>3, Types DEF Stage, Socket
      <3> QED BY <1>5, <1>6, <1>7, <1>10, <2>5, <3>1, Types, Typed
    <2> PICK F \in SUBSET Fd : F = {old, new}
      BY <2>2
    <2>8. Touches(c, F)
      <3>1. /\ \A d \in Client : d # c /\ Holds(d) => fdOf[d] \notin F
            /\ \A f \in Fd : f \notin F => f # old /\ f # new
        BY <1>3, <2>6
      <3> QED BY <1>1, <1>2, <1>3, <1>5, <1>6, <1>7, <1>10, <2>3, <2>4, <2>5, <3>1 DEF Touches
    <2>9. Sound(c, F)'
      <3>1. NumberInv(c)' /\ (Holds(c) => fdOf[c] \in F)' /\ SocketInv(c)' /\ DoneInv(c)'
        BY <1>3, <1>5, <1>6, <2>2, <2>4 DEF NumberInv, SocketInv, DoneInv, Open
      <3>2. RegInv(c)'
        BY <2>4 DEF RegInv, Waits
      <3>3. \A f \in Fd : CallInv(f, c)'
        BY <1>2, <1>5, <1>9, <2>4 DEF CallInv, Reads
      <3>4. \A l \in Loop, f \in F : LeftInv(l, f)' /\ f \notin Watched(loops'[l])
        <4>1. \A l \in Loop : LeftInv(l, old)' /\ old \notin Watched(loops'[l])
          BY <1>10, <2>5
        <4>2. ASSUME NEW l \in Loop, new # old
              PROVE  LeftInv(l, new)' /\ new \notin Watched(loops'[l])
          <5>1. /\ new \notin Watched(loops'[l])
                /\ new \in loops'[l].listen_fds <=> new \in loops[l].listen_fds
                /\ new \notin Watched(loops[l])
            BY <1>10, <2>2, <2>5, <2>6, <4>2
          <5>2. LeftInv(l, new)
            BY <2>2 DEF ClientInv
          <5> QED BY <1>5, <5>1, <5>2 DEF LeftInv
        <4> QED BY <4>1, <4>2
      <3>5. \A f \in F : "IN" \in events'[f].mask => events'[f].read \in Callback /\ f \in stale'
        BY <1>3, <1>5, <2>6
      <3>6. OwnInv(c)'
        BY <2>4 DEF OwnInv, Reads
      <3> QED BY <1>8, <3>1, <3>2, <3>3, <3>4, <3>5, <3>6 DEF Sound
    <2> QED BY <2>7, <2>8, <2>9, Frame
  <1> QED BY <1>11, <1>12

LEMMA DestroyKeeps ==
    ASSUME ClientInv, NEW c \in Client, Destroy(c)
    PROVE  ClientInv'
  <1>1. Holds(c)
    BY DEF Destroy
  <1>2. PICK fd \in Fd : fd = fdOf[c]
    BY <1>1, HolderFacts
  <1>3. /\ \A d \in Client : d # c /\ Holds(d) => fdOf[d] # fd
        /\ "IN" \in events[fd].mask => events[fd].read \in Callback
    BY <1>1, <1>2, HolderFacts
  <1>4. /\ sockets' = [sockets EXCEPT ![fd] = "none"]
        /\ loops' = [l \in Loop |-> CloseInEpoll(loops[l], fd)]
        /\ leftBehind' = [l \in Loop |-> leftBehind[l] \cup ({fd} \cap loops[l].listen_fds)]
        /\ stale' = stale \cup (IF "IN" \in events[fd].mask THEN {fd} ELSE {})
        /\ stage' = [stage EXCEPT ![c] = "destroyed"]
        /\ UNCHANGED <<fdOf, eventOf, events, looping, tasks, dones>>
    BY <1>2 DEF Destroy
  <1>5. /\ stage'[c] = "destroyed" /\ \A d \in Client : d # c => stage'[d] = stage[d]
        /\ \A f \in Fd : f # fd => sockets'[f] = sockets[f]
    BY <1>4, Types
  <1>6. ASSUME NEW l \in Loop
        PROVE  /\ loops'[l] \in LoopsOver(Fd) /\ loops'[l].listen_fds = loops[l].listen_fds
               /\ Watched(loops'[l]) = Watched(loops[l]) \ {fd}
               /\ \A f \in Watched(loops'[l]) : loops'[l].epoll[f] = loops[l].epoll[f]
    <2>1. PICK loop \in LoopsOver(Fd) : loop = loops[l]
      BY Types
    <2>2. PICK gone : gone = CloseInEpoll(loop, fd)
      OBVIOUS
    <2>3. /\ gone \in LoopsOver(Fd) /\ gone.listen_fds = loop.listen_fds
          /\ Watched(gone) = Watched(loop) \ {fd}
          /\ \A f \in Watched(gone) : gone.epoll[f] = loop.epoll[f]
      BY <2>2, CloseLoop
    <2> QED BY <1>4, <2>1, <2>2, <2>3
  <1>7. loops' \in [Loop -> LoopsOver(Fd)]
    <2>1. loops' = [l \in Loop |-> loops'[l]]
      BY <1>4
    <2> QED BY <1>6, <2>1
  <1>8. ClientTypes'
    <2>1. stage' \in [Client -> Stage] /\ sockets' \in [Fd -> Socket]
      BY <1>4, Types DEF Stage, Socket
    <2>2. leftBehind' \in [Loop -> SUBSET Fd] /\ stale' \subseteq Fd
      BY <1>4, Types
    <2> QED BY <1>4, <1>7, <2>1, <2>2, Types, Typed
  <1>9. Touches(c, {fd})
    <2>1. stale \subseteq stale' /\ \A l \in Loop : leftBehind[l] \subseteq leftBehind'[l]
      BY <1>4
    <2>2. \A l \in Loop, f \in Fd : f # fd =>
            /\ f \in Watched(loops'[l]) <=> f \in Watched(loops[l])
            /\ f \in Watched(loops[l]) => loops'[l].epoll[f] = loops[l].epoll[f]
            /\ f \in loops'[l].listen_fds <=> f \in loops[l].listen_fds
      BY <1>6
    <2> QED BY <1>2, <1>3, <1>4, <1>5, <2>1, <2>2 DEF Touches
  <1>10. Sound(c, {fd})'
    <2>1. NumberInv(c)' /\ (Holds(c) => fdOf[c] \in {fd})' /\ SocketInv(c)' /\ RegInv(c)'
      BY <1>5 DEF NumberInv, SocketInv, RegInv, Waits, Holds, Open
    <2>2. DoneInv(c)'
      <3>1. DoneInv(c) /\ dones[c] \in Nat
        BY Types DEF ClientInv
      <3> QED BY <1>4, <1>5, <3>1 DEF DoneInv
    <2>3. \A f \in Fd : CallInv(f, c)'
      BY <1>5 DEF CallInv
    <2>4. \A l \in Loop : LeftInv(l, fd)' /\ fd \notin Watched(loops'[l])
      <3> TAKE l \in Loop
      <3>1. fd \in loops'[l].listen_fds => fd \in leftBehind'[l]
        BY <1>4, <1>6
      <3> QED BY <1>6, <3>1 DEF LeftInv
    <2>5. "IN" \in events'[fd].mask => events'[fd].read \in Callback /\ fd \in stale'
      BY <1>3, <1>4
    <2>6. OwnInv(c)'
      BY <1>5 DEF OwnInv, Reads
    <2> QED BY <1>5, <2>1, <2>2, <2>3, <2>4, <2>5, <2>6 DEF Sound
  <1> QED BY <1>8, <1>9, <1>10, Frame

LEMMA RunTaskKeeps ==
    ASSUME ClientInv, NEW l \in Loop, RunTask(l)
    PROVE  ClientInv'
  <1>1. PICK c, run : c = Head(tasks[l]).client /\ run = Head(tasks[l]).run
    OBVIOUS
  <1>2. c \in Client /\ run \in Run /\ Took(c, run)
    BY <1>1, TaskTaken DEF RunTask
  <1>3. CASE ~ Holds(c)
    <2>1. UNCHANGED <<stage, fdOf, eventOf, sockets, events, loops, looping, dones,
                      leftBehind, stale>>
      BY <1>1, <1>3 DEF RunTask
    <2>2. stage[c] # "connecting"
      BY <1>3 DEF Holds
    <2> QED BY <1>2, <2>1, <2>2, IdleKeeps
  <1>4. CASE Holds(c) /\ run = "connect"
    <2>1. ConnectCallback(c)
      BY <1>1, <1>4 DEF RunTask
    <2> QED BY <1>2, <1>4, <2>1, ConnectCallbackKeeps
  <1>5. CASE Holds(c) /\ run = "onWrite"
    <2>1. OnWrite(c)
      BY <1>1, <1>5 DEF RunTask
    <2> QED BY <1>2, <1>5, <2>1, OnWriteKeeps
  <1>6. CASE Holds(c) /\ run = "onRead"
    <2>1. OnRead(c)
      BY <1>1, <1>6 DEF RunTask
    <2> QED BY <1>2, <1>6, <2>1, OnReadKeeps
  <1> QED BY <1>2, <1>3, <1>4, <1>5, <1>6 DEF Run

LEMMA PeerKeeps ==
    ASSUME ClientInv, NEW fd \in Fd, Peer(fd)
    PROVE  ClientInv'
  <1>1. UNCHANGED <<stage, fdOf, eventOf, events, loops, looping, tasks, dones, leftBehind, stale>>
    BY DEF Peer
  <1>2. PICK new \in {"up", "refused", "answer", "eof"} :
          /\ sockets' = [sockets EXCEPT ![fd] = new]
          /\ \/ sockets[fd] = "connecting" /\ new \in {"up", "refused"}
             \/ sockets[fd] = "up" /\ new \in {"answer", "eof"}
    BY DEF Peer
  <1>3. sockets'[fd] = new /\ \A f \in Fd : f # fd => sockets'[f] = sockets[f]
    BY <1>2, Types
  <1>4. ClientTypes'
    <2>1. sockets' \in [Fd -> Socket]
      BY <1>2, Types DEF Socket
    <2> QED BY <1>1, <2>1, Types, Typed
  <1>5. \A d \in Client : Holds(d) => fdOf[d] \in Fd
    BY HolderFacts
  <1>6. ASSUME NEW d \in Client
        PROVE  NumberInv(d)' /\ SocketInv(d)' /\ DoneInv(d)' /\ RegInv(d)' /\ OwnInv(d)'
    <2>1. NumberInv(d) /\ SocketInv(d) /\ DoneInv(d) /\ RegInv(d) /\ OwnInv(d)
      BY DEF ClientInv
    <2>2. NumberInv(d)'
      BY <1>1, <1>2, <1>3, <2>1 DEF NumberInv, Holds
    <2>3. SocketInv(d)'
      BY <1>1, <1>2, <1>3, <1>5, <2>1 DEF SocketInv, Holds, Open
    <2>4. DoneInv(d)' /\ OwnInv(d)'
      BY <1>1, <2>1 DEF DoneInv, OwnInv
    <2>5. RegInv(d)'
      <3>1. Waits(d)' = Waits(d)
        BY <1>1 DEF Waits
      <3>2. ASSUME stage[d] = "connecting", sockets[eventOf[d]] = "refused"
            PROVE  sockets'[eventOf[d]] = "refused"
        <4>1. Holds(d) /\ eventOf[d] = fdOf[d]
          BY <2>1, <3>2 DEF NumberInv, Holds
        <4> QED BY <1>2, <1>3, <1>5, <3>2, <4>1
      <3>3. \A l \in Loop : Queued(l, Callbk(d, "connect")) => Queued(l, Callbk(d, "connect"))'
        BY <1>1 DEF Queued
      <3>4. LoopOf(d) \in Loop
        BY ClientAssumption
      <3> QED BY <1>1, <2>1, <3>1, <3>2, <3>3, <3>4 DEF RegInv
    <2> QED BY <2>2, <2>3, <2>4, <2>5
  <1>7. Distinct' /\ \A f \in Fd : MaskInv(f)' /\ \A d \in Client : CallInv(f, d)'
    BY <1>1 DEF ClientInv, Distinct, Holds, MaskInv, CallInv
  <1>8. \A l \in Loop, f \in Fd : WatchInv(l, f)' /\ LeftInv(l, f)'
    BY <1>1 DEF ClientInv, WatchInv, WatchedFor, LeftInv
  <1>9. \A d \in Client, run \in Run : InStage(d, run) => InStage(d, run)'
    <2> TAKE d \in Client, run \in Run
    <2>1. stage[d] = "connecting" /\ sockets[fdOf[d]] # "connecting" =>
            sockets'[fdOf[d]] # "connecting"
      BY <1>2, <1>3, <1>5 DEF Holds
    <2> QED BY <1>1, <2>1 DEF InStage
  <1>10. \A l \in Loop : TaskInv(l)'
    <2> TAKE l \in Loop
    <2>1. PICK s \in Seq(Callback) : s = tasks[l] /\ s = tasks'[l]
      BY <1>1, Types
    <2>2. TaskInv(l)
      BY DEF ClientInv
    <2>3. ASSUME NEW i \in DOMAIN s, NEW d, NEW run, d = s[i].client, run = s[i].run,
                 stage[d] # "destroyed"
          PROVE  /\ LoopOf(d) = l /\ InStage(d, run)'
                 /\ run = "connect" => \A j \in DOMAIN s : s[j] = s[i] => j = i
      <3>1. d \in Client /\ run \in Run
        <4>1. PICK t \in Callback : t = s[i]
          BY <2>3, ElementOfSeq
        <4> QED BY <2>3, <4>1 DEF Callback, Run
      <3>2. /\ LoopOf(d) = l /\ InStage(d, run)
            /\ run = "connect" => \A j \in DOMAIN s : s[j] = s[i] => j = i
        BY <2>1, <2>2, <2>3 DEF TaskInv
      <3> QED BY <1>9, <3>1, <3>2
    <2> QED BY <1>1, <2>1, <2>3 DEF TaskInv
  <1> QED BY <1>4, <1>6, <1>7, <1>8, <1>10 DEF ClientInv

LEMMA ClientInitHolds ==
    ASSUME ClientInit
    PROVE  ClientInv
  <1>1. /\ stage = [c \in Client |-> "none"] /\ fdOf = [c \in Client |-> NoFd]
        /\ eventOf = [c \in Client |-> NoFd] /\ sockets = [fd \in Fd |-> "none"]
        /\ events = [fd \in Fd |-> NewFdEvent] /\ loops = [l \in Loop |-> NewLoop]
        /\ looping = {} /\ tasks = [l \in Loop |-> << >>] /\ dones = [c \in Client |-> 0]
        /\ leftBehind = [l \in Loop |-> {}] /\ stale = {}
    BY DEF ClientInit
  <1>2. NewLoop \in LoopsOver(Fd) /\ Watched(NewLoop) = {} /\ NewLoop.listen_fds = {}
    <2>1. PICK none : none = [fd \in {} |-> {}]
      OBVIOUS
    <2>2. none \in [{} -> SUBSET {"IN", "OUT"}] /\ DOMAIN none = {}
      BY <2>1
    <2>3. NewLoop = [listen_fds |-> {}, epoll |-> none]
      BY <2>1 DEF NewLoop
    <2> QED BY <2>2, <2>3 DEF LoopsOver, Watched
  <1>3. ClientTypes
    <2>1. ClientTypeOK
      BY <1>1, <1>2 DEF ClientTypeOK, Stage, Socket, NewFdEvent
    <2>2. loops \in [Loop -> LoopsOver(Fd)]
      BY <1>1, <1>2
    <2> QED BY <2>1, <2>2 DEF ClientTypes
  <1>4. Distinct /\ \A d \in Client : /\ NumberInv(d) /\ SocketInv(d) /\ DoneInv(d) /\ RegInv(d)
                                      /\ OwnInv(d)
    BY <1>1 DEF Distinct, NumberInv, SocketInv, DoneInv, RegInv, OwnInv, Holds, Open, Waits, Reads
  <1>5. \A fd \in Fd : MaskInv(fd) /\ \A d \in Client : CallInv(fd, d)
    <2> TAKE fd \in Fd
    <2>1. events[fd].mask = {} /\ events[fd].read = NoCallback /\ events[fd].write = NoCallback
      BY <1>1 DEF NewFdEvent
    <2>2. \A d \in Client, run \in Run : NoCallback # Callbk(d, run)
      BY ClientAssumption DEF Callbk, Run
    <2> QED BY <2>1, <2>2 DEF MaskInv, CallInv
  <1>6. \A l \in Loop : TaskInv(l) /\ \A fd \in Fd : WatchInv(l, fd) /\ LeftInv(l, fd)
    BY <1>1, <1>2 DEF TaskInv, WatchInv, LeftInv
  <1> QED BY <1>3, <1>4, <1>5, <1>6 DEF ClientInv


(* What epoll reports of a number calls the client that holds it, or, with   *)
(* EPOLLIN, the callback of onRead that a destroyed client left there.       *)
LEMMA Called ==
    ASSUME ClientInv, NEW l \in Loop, NEW e \in ReadyEvents(l), NEW t,
           t = Handler(events[e[1]], e[2])
    PROVE  /\ e[1] \in Fd /\ t \in Callback
           /\ stage[t.client] # "destroyed" =>
                /\ LoopOf(t.client) = l /\ InStage(t.client, t.run)
                /\ t.run = "connect" => e = <<eventOf[t.client], "OUT">>
  <1>1. PICK fd, type : e = <<fd, type>> /\ fd = e[1] /\ type = e[2]
    BY DEF ReadyEvents
  <1>2. /\ fd \in Watched(loops[l]) /\ type \in {"IN", "OUT"} /\ fd \in Fd
        /\ type \in loops[l].epoll[fd] /\ type \in Ready(fd)
    BY <1>1, Types, LoopFields DEF ReadyEvents, Reported
  <1>3. PICK d \in Client : WatchedFor(l, fd, d)
    BY <1>2 DEF ClientInv, WatchInv
  <1>4. Holds(d) /\ fdOf[d] = fd /\ LoopOf(d) = l /\ stage[d] \in Waiting /\ eventOf[d] = fd
    <2>1. Holds(d) /\ fdOf[d] = fd /\ LoopOf(d) = l /\ stage[d] \in Waiting
      BY <1>3 DEF WatchedFor, Waiting, Holds
    <2> QED BY <2>1, HolderFacts DEF Waiting
  <1>5. CASE type = "IN" /\ stage[d] \in Reads
    <2>1. t = Callbk(d, "onRead")
      BY <1>1, <1>3, <1>5 DEF WatchedFor, Handler
    <2> QED BY <1>1, <1>2, <1>4, <1>5, <2>1 DEF Callbk, Callback, InStage
  <1>6. CASE type = "IN" /\ stage[d] \notin Reads
    <2>1. t = events[fd].read /\ t \in Callback
      BY <1>1, <1>2, <1>3, <1>6 DEF WatchedFor, Handler
    <2>2. stage[t.client] = "destroyed"
      <3> SUFFICES ASSUME stage[t.client] # "destroyed" PROVE FALSE
        OBVIOUS
      <3>1. PICK o \in Client, run \in Run : t = Callbk(o, run) /\ o = t.client
        BY <2>1 DEF Callback, Callbk, Run
      <3>2. CallInv(fd, o) /\ stage[o] # "destroyed"
        BY <1>2, <3>1 DEF ClientInv
      <3>3. eventOf[o] = fd /\ stage[o] \in Reads \cup {"closed"}
        BY <2>1, <3>1, <3>2 DEF CallInv
      <3>4. Holds(o) /\ fdOf[o] = fd
        BY <3>3, HolderFacts DEF Holds, Reads
      <3>5. o = d
        BY <1>4, <3>4, HolderFacts
      <3> QED BY <1>4, <1>6, <3>3, <3>5 DEF Waiting, Reads
    <2> QED BY <1>1, <1>2, <2>1, <2>2
  <1>7. CASE type = "OUT"
    <2>1. stage[d] \in Waiting
      BY <1>4
    <2>2. t = Callbk(d, IF stage[d] = "connecting" THEN "connect" ELSE "onWrite")
      BY <1>1, <1>2, <1>3, <1>7, <2>1 DEF WatchedFor, Handler, Waiting, Reads
    <2>3. sockets[fd] # "connecting"
      BY <1>2, <1>7 DEF Ready
    <2> QED BY <1>1, <1>2, <1>4, <1>7, <2>1, <2>2, <2>3
         DEF Callbk, Callback, InStage, Waiting, Reads
  <1> QED BY <1>2, <1>5, <1>6, <1>7

LEMMA DispatchKeeps ==
    ASSUME ClientInv, NEW l \in Loop, Dispatch(l)
    PROVE  ClientInv'
  <1>1. PICK R : R = Reported(l)
    OBVIOUS
  <1>2. /\ R \subseteq Fd /\ R \subseteq Watched(loops[l]) /\ IsFiniteSet(R)
    <2>1. R \subseteq Watched(loops[l]) /\ Watched(loops[l]) \subseteq Fd
      BY <1>1, Types, LoopFields DEF Reported
    <2> QED BY <2>1, ClientAssumption, FS_Subset
  <1>3. PICK ready \in SUBSET (R \X {"IN", "OUT"}) : ready = ReadyEvents(l)
    BY <1>1 DEF ReadyEvents
  <1>4. PICK order \in Orders(R) :
          LET w == Walk(order, ready)
          IN  tasks' = [tasks EXCEPT ![l] = [i \in DOMAIN w |-> Handler(events[w[i][1]], w[i][2])]]
    BY <1>1, <1>3 DEF Dispatch
  <1>5. PICK w \in Seq(R \X {"IN", "OUT"}) :
          /\ w = Walk(order, ready) /\ \A k \in DOMAIN w : w[k] \in ready
          /\ \A i, j \in DOMAIN w : w[i] = w[j] => i = j
    <2>1. /\ Walk(order, ready) \in Seq(R \X {"IN", "OUT"})
          /\ \A k \in DOMAIN Walk(order, ready) : Walk(order, ready)[k] \in ready
          /\ IsInjective(Walk(order, ready))
      BY <1>2, WalkEvents
    <2> QED BY <2>1 DEF IsInjective
  <1>6. \A e \in ready : \E k \in DOMAIN w : w[k] = e
    BY <1>2, <1>5, WalkMeetsAll
  <1>7. PICK s : s = [i \in DOMAIN w |-> Handler(events[w[i][1]], w[i][2])]
    OBVIOUS
  <1>8. /\ tasks' = [tasks EXCEPT ![l] = s]
        /\ loops' = [loops EXCEPT ![l] = DeleteAll(@, {fd \in R : sockets[fd] = "refused"})]
        /\ UNCHANGED <<stage, fdOf, eventOf, sockets, events, looping, dones, leftBehind, stale>>
        /\ tasks[l] = << >>
    BY <1>1, <1>4, <1>5, <1>7 DEF Dispatch
  <1>9. ASSUME NEW i \in DOMAIN w
        PROVE  /\ s[i] \in Callback
               /\ stage[s[i].client] # "destroyed" =>
                    /\ LoopOf(s[i].client) = l /\ InStage(s[i].client, s[i].run)
                    /\ s[i].run = "connect" => w[i] = <<eventOf[s[i].client], "OUT">>
    <2>1. PICK e \in ReadyEvents(l) : e = w[i]
      BY <1>3, <1>5
    <2>2. PICK t : t = s[i]
      OBVIOUS
    <2>3. t = Handler(events[e[1]], e[2])
      BY <1>7, <2>1, <2>2
    <2>4. /\ e[1] \in Fd /\ t \in Callback
          /\ stage[t.client] # "destroyed" =>
               /\ LoopOf(t.client) = l /\ InStage(t.client, t.run)
               /\ t.run = "connect" => e = <<eventOf[t.client], "OUT">>
      BY <2>3, Called
    <2> QED BY <2>1, <2>2, <2>4
  <1>10. s \in Seq(Callback) /\ DOMAIN s = DOMAIN w
    <2>1. DOMAIN w = 1..Len(w) /\ Len(w) \in Nat
      BY LenProperties
    <2>2. s = [i \in 1..Len(w) |-> s[i]] /\ \A i \in 1..Len(w) : s[i] \in Callback
      BY <1>7, <1>9, <2>1
    <2>3. s \in Seq(Callback)
      BY <2>1, <2>2, IsASeq
    <2> QED BY <1>7, <2>3
  <1>11. tasks'[l] = s /\ \A k \in Loop : k # l => tasks'[k] = tasks[k]
    BY <1>8, Types
  <1>12. PICK refused : refused = {fd \in R : sockets[fd] = "refused"}
    OBVIOUS
  <1>13. PICK loop \in LoopsOver(Fd) : loop = loops[l]
    BY Types
  <1>14. PICK cut : cut = DeleteAll(loop, refused)
    OBVIOUS
  <1>15. /\ cut \in LoopsOver(Fd) /\ cut.listen_fds = loop.listen_fds \ refused
         /\ Watched(cut) = Watched(loop) \ (refused \cap loop.listen_fds)
         /\ \A f \in Watched(cut) : cut.epoll[f] = loop.epoll[f]
    BY <1>14, DeleteLoop
  <1>16. \A f \in Fd : LeftInv(l, f)
    BY DEF ClientInv
  <1>17. Watched(cut) = Watched(loop) \ refused
    BY <1>2, <1>12, <1>13, <1>15, <1>16 DEF LeftInv
  <1>18. loops'[l] = cut /\ \A k \in Loop : k # l => loops'[k] = loops[k]
    BY <1>8, <1>12, <1>13, <1>14, Types
  <1>19. ClientTypes'
    <2>1. tasks' \in [Loop -> Seq(Callback)] /\ loops' \in [Loop -> LoopsOver(Fd)]
      <3>1. tasks' \in [Loop -> Seq(Callback)]
        BY <1>8, <1>10, Types
      <3>2. loops' = [loops EXCEPT ![l] = cut]
        BY <1>8, <1>12, <1>13, <1>14, Types
      <3> QED BY <1>15, <3>1, <3>2, Types
    <2> QED BY <1>8, <2>1, Types, Typed
  <1>20. Distinct' /\ \A f \in Fd : MaskInv(f)' /\ \A d \in Client : CallInv(f, d)'
    BY <1>8 DEF ClientInv, Distinct, Holds, MaskInv, CallInv
  <1>21. \A d \in Client : NumberInv(d)' /\ SocketInv(d)' /\ DoneInv(d)' /\ OwnInv(d)'
    BY <1>8 DEF ClientInv, NumberInv, Holds, SocketInv, DoneInv, OwnInv, Open
  <1>22. \A k \in Loop, f \in Fd : WatchInv(k, f)' /\ LeftInv(k, f)'
    <2> TAKE k \in Loop, f \in Fd
    <2>1. WatchInv(k, f) /\ LeftInv(k, f)
      BY DEF ClientInv
    <2>2. /\ f \in Watched(loops'[k]) => /\ f \in Watched(loops[k])
                                         /\ loops'[k].epoll[f] = loops[k].epoll[f]
          /\ LeftInv(k, f)'
      <3>1. CASE k = l
        <4>1. /\ f \in Watched(loops'[k]) => /\ f \in Watched(loops[k])
                                             /\ loops'[k].epoll[f] = loops[k].epoll[f]
          BY <1>13, <1>15, <1>17, <1>18, <3>1
        <4>2. LeftInv(k, f)'
          BY <1>8, <1>13, <1>15, <1>17, <1>18, <2>1, <3>1 DEF LeftInv
        <4> QED BY <4>1, <4>2
      <3>2. CASE k # l
        BY <1>8, <1>18, <2>1, <3>2 DEF LeftInv
      <3> QED BY <3>1, <3>2
    <2>3. ASSUME NEW d \in Client, f \in Watched(loops'[k]), WatchedFor(k, f, d)
          PROVE  WatchedFor(k, f, d)'
      BY <1>8, <2>2, <2>3 DEF WatchedFor
    <2> QED BY <2>1, <2>2, <2>3 DEF WatchInv
  <1>23. \A d, run : InStage(d, run) => InStage(d, run)'
    BY <1>8 DEF InStage
  <1>24. \A k \in Loop : TaskInv(k)'
    <2> TAKE k \in Loop
    <2>1. CASE k = l
      <3>1. ASSUME NEW i \in DOMAIN s, NEW d, NEW run, d = s[i].client, run = s[i].run,
                   stage[d] # "destroyed"
            PROVE  /\ LoopOf(d) = l /\ InStage(d, run)'
                   /\ run = "connect" => \A j \in DOMAIN s : s[j] = s[i] => j = i
        <4>1. /\ LoopOf(d) = l /\ InStage(d, run)
              /\ run = "connect" => w[i] = <<eventOf[d], "OUT">>
          BY <1>9, <1>10, <3>1
        <4>2. run = "connect" => \A j \in DOMAIN s : s[j] = s[i] => j = i
          <5> SUFFICES ASSUME run = "connect", NEW j \in DOMAIN s, s[j] = s[i] PROVE j = i
            OBVIOUS
          <5>1. w[j] = <<eventOf[d], "OUT">>
            BY <1>9, <1>10, <3>1
          <5> QED BY <1>5, <1>10, <4>1, <5>1
        <4> QED BY <1>23, <4>1, <4>2
      <3> QED BY <1>8, <1>11, <2>1, <3>1 DEF TaskInv
    <2>2. CASE k # l
      <3>1. PICK q : q = tasks[k] /\ q = tasks'[k]
        BY <1>11, <2>2
      <3>2. TaskInv(k)
        BY DEF ClientInv
      <3>3. ASSUME NEW i \in DOMAIN q, NEW d, NEW run, d = q[i].client, run = q[i].run,
                   stage[d] # "destroyed"
            PROVE  /\ LoopOf(d) = k /\ InStage(d, run)'
                   /\ run = "connect" => \A j \in DOMAIN q : q[j] = q[i] => j = i
        <4>1. /\ LoopOf(d) = k /\ InStage(d, run)
              /\ run = "connect" => \A j \in DOMAIN q : q[j] = q[i] => j = i
          BY <3>1, <3>2, <3>3 DEF TaskInv
        <4> QED BY <1>23, <4>1
      <3> QED BY <1>8, <3>1, <3>3 DEF TaskInv
    <2> QED BY <2>1, <2>2
  <1>25. \A d \in Client : RegInv(d)'
    <2>0. \A d \in Client : Waits(d)' = Waits(d)
      BY <1>8 DEF Waits
    <2> SUFFICES ASSUME NEW d \in Client, Waits(d) # "nothing", NEW k, k = LoopOf(d),
                        NEW fd, fd = eventOf[d], fd \notin leftBehind[k]
                 PROVE  \/ fd \in Watched(loops'[k]) /\ Waits(d) \in loops'[k].epoll[fd]
                        \/ stage[d] = "connecting" /\ sockets[fd] = "refused"
                           /\ Queued(k, Callbk(d, "connect"))'
      BY <1>8, <2>0 DEF RegInv
    <2>1. RegInv(d) /\ SocketInv(d) /\ k \in Loop
      BY ClientAssumption DEF ClientInv
    <2>2. Holds(d) /\ stage[d] \in Waiting /\ fd = fdOf[d] /\ fd \in Fd
      <3>1. Holds(d) /\ stage[d] \in Waiting
        BY DEF Waits, Holds, Waiting, Reads
      <3> QED BY <3>1, HolderFacts DEF Waiting
    <2>3. CASE fd \in Watched(loops[k]) /\ Waits(d) \in loops[k].epoll[fd]
      <3>1. CASE fd \in Watched(loops'[k])
        <4>1. loops'[k].epoll[fd] = loops[k].epoll[fd]
          BY <1>13, <1>15, <1>18, <2>1, <3>1
        <4> QED BY <2>3, <3>1, <4>1
      <3>2. CASE fd \notin Watched(loops'[k])
        <4>1. k = l /\ fd \in R /\ sockets[fd] = "refused"
          BY <1>12, <1>13, <1>17, <1>18, <2>1, <2>3, <3>2
        <4>2. stage[d] = "connecting"
          BY <2>1, <2>2, <4>1 DEF SocketInv, Open, Waiting
        <4>3. WatchedFor(l, fd, d)
          BY <2>2, <2>3, <4>1, HolderFacts
        <4>4. <<fd, "OUT">> \in ready
          BY <1>1, <1>3, <2>3, <4>1, <4>2 DEF ReadyEvents, Ready, Waits
        <4>5. PICK i \in DOMAIN w : w[i] = <<fd, "OUT">>
          BY <1>6, <4>4
        <4>6. s[i] = Callbk(d, "connect")
          BY <1>7, <4>2, <4>3, <4>5 DEF Handler, WatchedFor, Reads
        <4>7. Queued(k, Callbk(d, "connect"))'
          BY <1>10, <1>11, <4>1, <4>5, <4>6 DEF Queued
        <4> QED BY <4>1, <4>2, <4>7
      <3> QED BY <3>1, <3>2
    <2>4. CASE /\ stage[d] = "connecting" /\ sockets[fd] = "refused"
               /\ Queued(k, Callbk(d, "connect"))
      <3>1. k # l
        BY <1>8, <2>4 DEF Queued
      <3>2. Queued(k, Callbk(d, "connect"))'
        BY <1>11, <2>1, <2>4, <3>1 DEF Queued
      <3> QED BY <2>4, <3>2
    <2> QED BY <2>1, <2>3, <2>4 DEF RegInv
  <1> QED BY <1>19, <1>20, <1>21, <1>22, <1>24, <1>25 DEF ClientInv

-----------------------------------------------------------------------------

(* Every step keeps the invariant. *)
LEMMA ClientStep ==
    ASSUME ClientInv, [ClientNext]_clientVars
    PROVE  ClientInv'
  <1>1. CASE \E c \in Client : Make(c) \/ Connect(c) \/ WriteMessage(c) \/ Destroy(c)
    <2>1. PICK c \in Client : Make(c) \/ Connect(c) \/ WriteMessage(c) \/ Destroy(c)
      BY <1>1
    <2> QED BY <2>1, MakeKeeps, EndKeeps, WaitKeeps, DestroyKeeps DEF Connect
  <1>5. CASE \E c \in Client : MakeFails(c) \/ ConnectWithoutSocket(c) \/ DestroyEmpty(c)
    BY <1>5, EmptyKeeps
  <1>2. CASE \E l \in Loop : Dispatch(l) \/ RunTask(l)
    BY <1>2, DispatchKeeps, RunTaskKeeps
  <1>3. CASE \E fd \in Fd : Peer(fd)
    BY <1>3, PeerKeeps
  <1>4. CASE UNCHANGED clientVars
    <2>1. UNCHANGED <<stage, fdOf, eventOf, sockets, events, loops, looping, tasks, dones,
                      leftBehind, stale>>
      BY <1>4 DEF clientVars
    <2>2. ClientTypes'
      BY <2>1 DEF ClientInv, ClientTypes, ClientTypeOK
    <2>3. Distinct' /\ \A d \in Client : NumberInv(d)' /\ SocketInv(d)' /\ DoneInv(d)'
      BY <2>1 DEF ClientInv, Distinct, NumberInv, SocketInv, DoneInv, Holds
    <2>4. \A d \in Client : RegInv(d)' /\ OwnInv(d)'
      BY <2>1 DEF ClientInv, RegInv, OwnInv, Waits, Queued
    <2>5. \A fd \in Fd : MaskInv(fd)' /\ \A d \in Client : CallInv(fd, d)'
      BY <2>1 DEF ClientInv, MaskInv, CallInv
    <2>6. \A l \in Loop : TaskInv(l)'
      BY <2>1 DEF ClientInv, TaskInv, InStage
    <2>7. \A l \in Loop, fd \in Fd : WatchInv(l, fd)' /\ LeftInv(l, fd)'
      BY <2>1 DEF ClientInv, WatchInv, WatchedFor, LeftInv
    <2> QED BY <2>2, <2>3, <2>4, <2>5, <2>6, <2>7 DEF ClientInv
  <1> QED BY <1>1, <1>2, <1>3, <1>4, <1>5 DEF ClientNext

\* The clients' variables keep their types.
THEOREM ClientTyping == ClientSpec => []ClientTypeOK
  <1>1. ClientInit => ClientInv
    BY ClientInitHolds
  <1>2. ClientInv /\ [ClientNext]_clientVars => ClientInv'
    BY ClientStep
  <1>3. ClientInv => ClientTypeOK
    BY DEF ClientInv, ClientTypes
  <1> QED BY <1>1, <1>2, <1>3, PTL DEF ClientSpec

\* What epoll watches is in m_listen_fds; and a client that waits for an event
\* is registered for it, or has its connect callback queued, unless its number
\* was closed behind the back of m_listen_fds: for any clients, loops and numbers.
THEOREM WaitersRegistered == ClientSpec => []ListenersRegistered
  <1>1. ClientInit => ClientInv
    BY ClientInitHolds
  <1>2. ClientInv /\ [ClientNext]_clientVars => ClientInv'
    BY ClientStep
  <1>3. ClientInv => ListenersRegistered
    <2> SUFFICES ASSUME ClientInv PROVE ListenersRegistered
      OBVIOUS
    <2>1. \A l \in Loop : Watched(loops[l]) \subseteq loops[l].listen_fds
      <3> TAKE l \in Loop
      <3>1. Watched(loops[l]) \subseteq Fd
        BY Types, LoopFields
      <3> QED BY <3>1 DEF ClientInv, LeftInv
    <2>2. ASSUME NEW c \in Client, NEW l, l = LoopOf(c), NEW fd, fd = eventOf[c]
          PROVE  \/ Waits(c) = "nothing" \/ fd \in leftBehind[l]
                 \/ fd \in Watched(loops[l]) /\ Waits(c) \in loops[l].epoll[fd]
                 \/ sockets[fd] = "refused" /\ \E i \in DOMAIN tasks[l] : tasks[l][i].client = c
      <3>1. RegInv(c)
        BY DEF ClientInv
      <3>2. Queued(l, Callbk(c, "connect")) => \E i \in DOMAIN tasks[l] : tasks[l][i].client = c
        BY DEF Queued, Callbk
      <3> QED BY <2>2, <3>1, <3>2 DEF RegInv
    <2> QED BY <2>1, <2>2 DEF ListenersRegistered
  <1> QED BY <1>1, <1>2, <1>3, PTL DEF ClientSpec

\* What epoll would call for a number belongs to the client that holds it,
\* unless it is the callback of onRead that a destroyed client left in the
\* FdEvent; and the done callback of connect runs at most once.
THEOREM CallbacksOfOwner == ClientSpec => []CallbacksOwn
  <1>1. ClientInit => ClientInv
    BY ClientInitHolds
  <1>2. ClientInv /\ [ClientNext]_clientVars => ClientInv'
    BY ClientStep
  <1>3. ClientInv => CallbacksOwn
    <2> SUFFICES ASSUME ClientInv PROVE CallbacksOwn
      OBVIOUS
    <2>1. ASSUME NEW l \in Loop, NEW fd \in Watched(loops[l]), NEW type \in loops[l].epoll[fd],
                 NEW owner, owner = Handler(events[fd], type).client
          PROVE  \/ Holds(owner) /\ eventOf[owner] = fd
                 \/ fd \in stale /\ type = "IN"
      <3>1. fd \in Fd /\ type \in {"IN", "OUT"}
        BY Types, LoopFields
      <3>2. PICK d \in Client : WatchedFor(l, fd, d)
        BY <3>1 DEF ClientInv, WatchInv
      <3>3. Holds(d) /\ eventOf[d] = fd
        <4>1. Holds(d) /\ fdOf[d] = fd /\ stage[d] \in Waiting
          BY <3>2 DEF WatchedFor, Waiting, Holds
        <4> QED BY <4>1, HolderFacts DEF Waiting
      <3>4. CASE stage[d] \in Reads
        BY <2>1, <3>1, <3>2, <3>3, <3>4 DEF WatchedFor, Handler, Callbk
      <3>5. CASE stage[d] \notin Reads
        BY <2>1, <3>1, <3>2, <3>3, <3>5 DEF WatchedFor, Handler, Callbk
      <3> QED BY <3>4, <3>5
    <2>2. \A c \in Client : dones[c] <= 1
      <3> TAKE c \in Client
      <3>1. DoneInv(c) /\ dones[c] \in Nat
        BY Types DEF ClientInv
      <3> QED BY <3>1 DEF DoneInv
    <2> QED BY <2>1, <2>2 DEF CallbacksOwn
  <1> QED BY <1>1, <1>2, <1>3, PTL DEF ClientSpec
=============================================================================
