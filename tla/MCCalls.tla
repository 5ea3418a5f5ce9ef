------------------------------- MODULE MCCalls -------------------------------
(***************************************************************************)
(* The two waits of a run that must end: a call of the model and a command *)
(* of the shell.  They share no state, so a behaviour is of one of them.   *)
(* The model is asked by a run and by one that the user has just dropped:  *)
(* the turn the dropped run had asked for is answered after it was dropped. *)
(***************************************************************************)
EXTENDS ModelCall, Command

CONSTANTS run, dropped

VARIABLE part

DroppedIsCancelled ==
    /\ call[dropped].pc = "flight" /\ call'[dropped] # call[dropped] => cancelled[dropped]
    /\ ~ Once(call'[dropped].stage)

CallsInit == part \in {"model", "shell"} /\ Init /\ CommandInit

Asked(A) == part = "model" /\ A /\ DroppedIsCancelled /\ UNCHANGED <<part, commandVars>>
Ran(A)   == part = "shell" /\ A /\ UNCHANGED <<part, vars>>

CallsNext == Asked(Next) \/ Ran(CommandNext)

\* The fairness of ModelCall and of Command, each in its own behaviours, and the
\* user's: the dropped run is one that is cancelled.
CallsSpec ==
    /\ CallsInit /\ [][CallsNext]_<<part, vars, commandVars>>
    /\ WF_vars(Asked(Cancel(dropped)))
    /\ \A c \in Callers : WF_vars(Asked(CallStep(c)))
    /\ WF_commandVars(Ran(ContextEnds)) /\ WF_commandVars(Ran(OnContextDone))
    /\ WF_commandVars(Ran(DelayExpires)) /\ WF_commandVars(Ran(RunReturns))
    /\ WF_commandVars(Ran(Tell))

\* The state of both has its type.
CallsTypeOK == TypeOK /\ CommandTypeOK
=============================================================================
