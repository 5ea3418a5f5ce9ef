------------------------------- MODULE Interface -------------------------------
(***************************************************************************)
(* The terminal interface: the event loop of internal/tui (Model.Update)   *)
(* and the goroutine LoopRunner.Start runs for each task, over one shared  *)
(* Loop.                                                                   *)
(*                                                                         *)
(* The run hands its messages over one at a time and waits until the event *)
(* loop takes each (Program.Send).  An edit of an approve-each run is held *)
(* until the user answers or the run's context is done; each edit has its  *)
(* own channel for the answer.  Esc interrupts a run, Esc again drops it.  *)
(* Neither stops the goroutine: that is up to the loop, which may take for *)
(* ever.                                                                   *)
(*                                                                         *)
(* Typing, scrolling, the menu, the model picker and all rendering are     *)
(* left out; a transcript item or a delta counts as one shown piece.       *)
(***************************************************************************)
EXTENDS Naturals, FiniteSets, Sequences

CONSTANTS
    LastTask,    \* bound: tasks submitted, 1 .. LastTask
    MaxPieces,   \* bound: pieces a run sends
    MaxEdits,    \* bound: edits a run makes
    MaxQueued    \* bound: submissions on their way to the event loop

ASSUME InterfaceAssumption ==
    \A n \in {LastTask, MaxPieces, MaxEdits, MaxQueued} : n \in Nat \ {0}

Tasks == 1 .. LastTask
NoTask == 0
Edits == Tasks \X (1 .. MaxEdits)
NoCard == <<0, 0>>
Modes == {"auto", "accept-edits", "approve-each"}

VARIABLES
    ui,       \* the Model: see UI
    runs,     \* per task, its goroutine: see Runs
    queued,   \* submitTaskMsg's on their way
    session,  \* LoopRunner.session: the runs recapped in it
    said,     \* ghost: the edits the user has said yes to
    applied   \* ghost: the edits made, of approve-each runs

interfaceVars == <<ui, runs, queued, session, said, applied>>

UI == [running : BOOLEAN, interrupting : BOOLEAN, abandoned : BOOLEAN,
       active : Tasks \cup {NoTask},   \* the run `cancel` belongs to
       confirm : Edits \cup {NoCard},  \* the edit whose y/n prompt is up
       open : Tasks \cup {NoTask},     \* streamIdx: whose streaming block is open
       mode : Modes, quit : BOOLEAN]

Messages == {"delta", "done", "item", "confirm", "report"}
NoMessage == "none"

Runs == [pc : {"none", "launched", "working", "sending", "held", "over"},
         msg : Messages \cup {NoMessage},
         mode : Modes,                   \* as it was at the submission
         cancelled : BOOLEAN,            \* its context is done
         answer : {"none", "yes", "no"}, \* in the channel of the held edit
         edits : 0 .. MaxEdits, pieces : 0 .. MaxPieces,
         given : Seq(Tasks),             \* SessionHistory
         shown : Nat,                    \* ghost: pieces of it on the screen
         dropped : BOOLEAN]              \* ghost: the user has dropped it

NoRun == [pc |-> "none", msg |-> NoMessage, mode |-> "auto", cancelled |-> FALSE,
          answer |-> "none", edits |-> 0, pieces |-> 0, given |-> <<>>,
          shown |-> 0, dropped |-> FALSE]

InterfaceInit ==
    /\ ui = [running |-> FALSE, interrupting |-> FALSE, abandoned |-> FALSE,
             active |-> NoTask, confirm |-> NoCard, open |-> NoTask,
             mode |-> "auto", quit |-> FALSE]
    /\ runs = [t \in Tasks |-> NoRun]
    /\ queued = 0
    /\ session = <<>>
    /\ said = {} /\ applied = {}

\* After Quit the process is gone, the goroutine of a run with it.
Live == ~ui.quit
HeldEdit(t) == <<t, runs[t].edits>>

-----------------------------------------------------------------------------
(* The keyboard *)

\* A pending confirm takes every key but the interrupt keys.
Enter ==
    /\ Live /\ ui.confirm = NoCard
    /\ queued < MaxQueued
    /\ queued' = queued + 1
    /\ UNCHANGED <<ui, runs, session, said, applied>>

\* /mode: the dial of the runs to come.
SlashMode ==
    /\ Live /\ ui.confirm = NoCard
    /\ \E m \in Modes \ {ui.mode} : ui' = [ui EXCEPT !.mode = m]
    /\ UNCHANGED <<runs, queued, session, said, applied>>

\* handleConfirmKey
Answer ==
    /\ Live /\ ui.confirm # NoCard
    /\ \E a \in {"yes", "no"} :
          /\ runs' = [runs EXCEPT ![ui.confirm[1]].answer =
                          IF ui.confirm = HeldEdit(ui.confirm[1]) THEN a ELSE @]
          /\ said' = IF a = "yes" THEN said \cup {ui.confirm} ELSE said
    /\ ui' = [ui EXCEPT !.confirm = NoCard]
    /\ UNCHANGED <<queued, session, applied>>

PromptCleared(rs) == rs                  \* bug: the run is not told
\* interrupt: a prompt that is up is answered with no, the context is cancelled.
Interrupted(rs) ==
    [t \in Tasks |->
        [rs[t] EXCEPT
            !.answer = IF ui.confirm # NoCard /\ ui.confirm = <<t, rs[t].edits>>
                       THEN "no" ELSE @,
            !.cancelled = @ \/ t = ui.active]]

\* Esc or Ctrl-C while a run is active.
Interrupt ==
    /\ Live /\ ui.running /\ ~ui.interrupting
    /\ runs' = Interrupted(runs)
    /\ ui' = [ui EXCEPT !.confirm = NoCard, !.interrupting = TRUE]
    /\ UNCHANGED <<queued, session, said, applied>>

\* Esc while it is stopping: dropRun.
DropRun ==
    /\ Live /\ ui.interrupting
    /\ ui' = [ui EXCEPT !.running = FALSE, !.interrupting = FALSE,
                        !.abandoned = TRUE, !.open = NoTask]
    /\ runs' = [runs EXCEPT ![ui.active].cancelled = TRUE, ![ui.active].dropped = TRUE]
    /\ UNCHANGED <<queued, session, said, applied>>

\* Ctrl-C, or q, with nothing running; Ctrl-C while a run is stopping.
Quit ==
    /\ Live /\ (ui.interrupting \/ ~ui.running)
    /\ ui' = [ui EXCEPT !.quit = TRUE]
    /\ UNCHANGED <<runs, queued, session, said, applied>>

-----------------------------------------------------------------------------
(* submitTask *)

\* One run at a time, and none while a dropped one has not reported.
MayStart == ~ui.running /\ ~ui.abandoned

TakeSubmission ==
    /\ Live /\ queued > 0
    /\ queued' = queued - 1
    /\ IF MayStart /\ \E t \in Tasks : runs[t].pc = "none"
       THEN LET t == CHOOSE u \in Tasks :
                        runs[u].pc = "none" /\ \A v \in 1 .. (u - 1) : runs[v].pc # "none"
            IN  /\ runs' = [runs EXCEPT ![t].pc = "launched", ![t].mode = ui.mode]
                /\ ui' = [ui EXCEPT !.running = TRUE, !.active = t]
       ELSE UNCHANGED <<runs, ui>>  \* refused, or a bare "thanks"
    /\ UNCHANGED <<session, said, applied>>

-----------------------------------------------------------------------------
(* LoopRunner.Start: the goroutine of a run *)

BeginRun(t) ==
    /\ Live /\ runs[t].pc = "launched"
    /\ runs' = [runs EXCEPT ![t].pc = "working", ![t].given = session]
    /\ UNCHANGED <<ui, queued, session, said, applied>>

Sending(t, m) == runs' = [runs EXCEPT ![t].pc = "sending", ![t].msg = m]

\* OnDelta, OnTool, OnNotice, OnRetry.
EmitPiece(t) ==
    /\ Live /\ runs[t].pc = "working" /\ runs[t].pieces < MaxPieces
    /\ \E m \in {"delta", "done", "item"} :
          runs' = [runs EXCEPT ![t].pc = "sending", ![t].msg = m, ![t].pieces = @ + 1]
    /\ UNCHANGED <<ui, queued, session, said, applied>>

\* OnBeforeEdit is confirmGate in approve-each; in the other modes it is not set, and
\* an edit is a piece like any other.  The loop looks at the context between turns
\* only: it may be done by the time the prompt is up.
EditCall(t) ==
    /\ Live /\ runs[t].pc = "working" /\ runs[t].edits < MaxEdits
    /\ runs[t].mode = "approve-each" /\ ~runs[t].cancelled
    /\ runs' = [runs EXCEPT ![t].edits = @ + 1, ![t].pc = "sending", ![t].msg = "confirm",
                            ![t].answer = "none"]
    /\ UNCHANGED <<ui, queued, session, said, applied>>

\* What the select of confirmGate may return.
Decisions(r) ==
    (IF r.answer = "none" THEN {} ELSE {r.answer})
    \cup (IF r.cancelled THEN {"no"} ELSE {})

GateReturns(t) ==
    /\ Live /\ runs[t].pc = "held"
    /\ \E d \in Decisions(runs[t]) :
          applied' = IF d = "yes" THEN applied \cup {HeldEdit(t)} ELSE applied
    /\ runs' = [runs EXCEPT ![t].pc = "working", ![t].answer = "none"]
    /\ UNCHANGED <<ui, queued, session, said>>

\* Run returns: the recap joins the session, which is saved; then the report.
EndRun(t) ==
    /\ Live /\ runs[t].pc = "working"
    /\ session' = Append(session, t)
    /\ Sending(t, "report")
    /\ UNCHANGED <<ui, queued, said, applied>>

-----------------------------------------------------------------------------
(* Update: the event loop takes a message of a run *)

NothingScreened == FALSE                 \* bug: whoever sends is heard
\* A dropped run's message shows nothing; a held edit is refused.
Screened == ui.abandoned

After(t) ==
    LET next == CASE runs[t].msg = "confirm" -> "held"
                  [] runs[t].msg = "report"  -> "over"
                  [] OTHER -> "working"
    IN  [runs EXCEPT ![t].pc = next, ![t].msg = NoMessage]

TakePiece(t) ==
    /\ Live /\ runs[t].pc = "sending" /\ runs[t].msg \in {"delta", "done", "item"}
    /\ IF Screened
       THEN runs' = After(t) /\ UNCHANGED ui
       ELSE /\ runs' = [After(t) EXCEPT ![t].shown = IF runs[t].msg = "done" THEN @ ELSE @ + 1]
            /\ ui' = [ui EXCEPT !.open = CASE runs[t].msg = "done" -> NoTask
                                           [] runs[t].msg = "delta" /\ @ = NoTask -> t
                                           [] OTHER -> @]
    /\ UNCHANGED <<queued, session, said, applied>>

TakeConfirm(t) ==
    /\ Live /\ runs[t].pc = "sending" /\ runs[t].msg = "confirm"
    /\ IF Screened
       THEN runs' = [After(t) EXCEPT ![t].answer = "no"] /\ UNCHANGED ui
       ELSE /\ runs' = [After(t) EXCEPT ![t].shown = @ + 1]
            /\ ui' = [ui EXCEPT !.confirm = HeldEdit(t)]
    /\ UNCHANGED <<queued, session, said, applied>>

\* handleReport; the report of a dropped run prints nothing.
TakeReport(t) ==
    /\ Live /\ runs[t].pc = "sending" /\ runs[t].msg = "report"
    /\ runs' = [After(t) EXCEPT ![t].shown = IF ui.abandoned THEN @ ELSE @ + 1]
    /\ ui' = [ui EXCEPT !.running = FALSE, !.interrupting = FALSE,
                        !.abandoned = FALSE, !.active = NoTask, !.open = NoTask]
    /\ UNCHANGED <<queued, session, said, applied>>

InterfaceNext ==
    \/ Enter \/ SlashMode \/ Answer \/ Interrupt \/ DropRun \/ Quit \/ TakeSubmission
    \/ \E t \in Tasks : \/ BeginRun(t) \/ EmitPiece(t) \/ EditCall(t) \/ GateReturns(t)
                        \/ EndRun(t) \/ TakePiece(t) \/ TakeConfirm(t) \/ TakeReport(t)

InterfaceSpec == InterfaceInit /\ [][InterfaceNext]_interfaceVars

-----------------------------------------------------------------------------
(* Properties *)

\* Every part of the state has its type.
InterfaceTypeOK ==
    /\ ui \in UI /\ runs \in [Tasks -> Runs]
    /\ queued \in 0 .. MaxQueued /\ session \in Seq(Tasks)
    /\ said \subseteq Edits /\ applied \subseteq Edits

\* The Loop and its hooks belong to one run at a time, a dropped one included,
\* and each run knows of all that ended before it.
OneRunAtATime ==
    /\ \A t, u \in Tasks : t # u => {runs[t].pc, runs[u].pc} \cap {"none", "over"} # {}
    /\ \A t \in Tasks : runs[t].pc \in {"working", "sending", "held"} =>
          runs[t].given = [n \in 1 .. (t - 1) |-> n]

\* A held edit can be released: its prompt is up, or it is answered, or its run is
\* cancelled.  And it is made only if the user said yes to it.
HeldIsAnswerable ==
    /\ \A t \in Tasks : runs[t].pc = "held" =>
          runs[t].cancelled \/ runs[t].answer # "none" \/ ui.confirm = HeldEdit(t)
    /\ applied \subseteq said

\* The screen, the conversation and the runs agree about who is at work and what waits.
RunsAreOwned == OneRunAtATime /\ HeldIsAnswerable

\* Once dropped, a run puts nothing on the screen, no prompt either, and leaves no block of text open
\* for another to write into.
DroppedStaysSilent ==
    [][\A t \in Tasks : runs[t].dropped =>
          /\ runs'[t].shown = runs[t].shown /\ ui'.open # t
          /\ ui'.confirm[1] = t => ui'.confirm = ui.confirm]_interfaceVars
=============================================================================
