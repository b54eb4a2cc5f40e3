------------------------------- MODULE RpcCall -------------------------------
(***************************************************************************)
(* What a caller is promised about the calls it makes, one after another,  *)
(* with one RpcController: each gets a verdict, once, and the verdict      *)
(* stands until the next call.  A call succeeds only with the server's     *)
(* good answer and fails only without one.                                 *)
(***************************************************************************)

VARIABLES
    verdict,    \* "none", "succeeded" or "failed"
    answer      \* "none", "good" or "bad": what the server has answered to it

vars == <<verdict, answer>>

TypeOK ==
    /\ verdict \in {"none", "succeeded", "failed"}
    /\ answer \in {"none", "good", "bad"}

Init == verdict = "none" /\ answer = "none"

\* The answer arrives and decides the call.
Answer ==
    /\ answer = "none" /\ verdict = "none"
    /\ \/ answer' = "good" /\ verdict' = "succeeded"
       \/ answer' = "bad"  /\ verdict' = "failed"

\* No answer, and there will be none in time.
Fail ==
    /\ answer = "none" /\ verdict = "none"
    /\ verdict' = "failed"
    /\ UNCHANGED answer

\* An answer that comes too late changes nothing.
AnswerLate ==
    /\ answer = "none" /\ verdict = "failed"
    /\ answer' \in {"good", "bad"}
    /\ UNCHANGED verdict

\* The controller is reset for the next call.
NextCall ==
    /\ verdict # "none"
    /\ verdict' = "none" /\ answer' = "none"

Next == Answer \/ Fail \/ AnswerLate \/ NextCall

Spec == Init /\ [][Next]_vars
=============================================================================
