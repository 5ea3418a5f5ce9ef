------------------------------ MODULE ModelAnswer ------------------------------
(***************************************************************************)
(* What a call of the model promises to the loop that makes it, whatever   *)
(* the endpoint does: it is answered once, it costs a bounded number of    *)
(* requests, and a caller that was cancelled costs none from then on.      *)
(* ModelCall implements this.                                              *)
(***************************************************************************)
EXTENDS Naturals

CONSTANTS Callers, Answers, NoAnswer, Pending, MaxRequests

VARIABLES
    answer,    \* per caller: NoAnswer, Pending while a call is out, its answer after
    requests,  \* requests sent for the call
    cancelled  \* the caller's context is done

answerVars == <<answer, requests, cancelled>>

AnswerInit ==
    /\ answer = [c \in Callers |-> NoAnswer]
    /\ requests = [c \in Callers |-> 0]
    /\ cancelled = [c \in Callers |-> FALSE]

AskModel(c) ==
    /\ answer[c] # Pending
    /\ answer' = [answer EXCEPT ![c] = Pending]
    /\ requests' = [requests EXCEPT ![c] = 0]
    /\ UNCHANGED cancelled

\* A request reaches the endpoint.
RequestModel(c) ==
    /\ answer[c] = Pending
    /\ ~cancelled[c]
    /\ requests[c] < MaxRequests
    /\ requests' = [requests EXCEPT ![c] = @ + 1]
    /\ UNCHANGED <<answer, cancelled>>

GetAnswer(c) ==
    /\ answer[c] = Pending
    /\ \E a \in Answers : answer' = [answer EXCEPT ![c] = a]
    /\ UNCHANGED <<requests, cancelled>>

GiveUp(c) ==
    /\ ~cancelled[c]
    /\ cancelled' = [cancelled EXCEPT ![c] = TRUE]
    /\ UNCHANGED <<answer, requests>>

AnswerNext ==
    \E c \in Callers : AskModel(c) \/ RequestModel(c) \/ GetAnswer(c) \/ GiveUp(c)

AnswerSpec == AnswerInit /\ [][AnswerNext]_answerVars
=============================================================================
