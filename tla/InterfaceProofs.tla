--------------------------- MODULE InterfaceProofs ----------------------------
(***************************************************************************)
(* The terminal interface and the sessions it keeps. For any number of     *)
(* tasks, messages and edits, one run at a time has the loop, a dropped    *)
(* one included, a held edit can always be released and is made only if    *)
(* the user said yes to it, and a dropped run stays silent. Whatever fails *)
(* in a save or a rename, no saved run is lost.                            *)
(***************************************************************************)
EXTENDS Interface, SessionStore, Integers, TLAPS

-----------------------------------------------------------------------------
(* The interface: the invariant *)

Upto(k) == [n \in 1 .. k |-> n]

\* Where a run is, for the others: a run that reports has joined the session.
Phase(r) ==
    IF r.pc \in {"none", "launched", "over"} THEN r.pc
    ELSE IF r.pc = "sending" /\ r.msg = "report" THEN "reporting" ELSE "busy"

\* The first k runs are in the session.  The next may be under way, but not
\* while the last of them has its report still to hand over.
InTurn(k) ==
    /\ session = Upto(k)
    /\ \A t \in Tasks :
          /\ t < k => Phase(runs[t]) = "over"
          /\ t = k => Phase(runs[t]) \in {"over", "reporting"}
          /\ t > k => Phase(runs[t]) \in {"none", "launched", "busy"}
          /\ t > k + 1 => Phase(runs[t]) = "none"
          /\ t = k /\ Phase(runs[t]) = "reporting" =>
                \A u \in Tasks : u > k => Phase(runs[u]) = "none"

TaughtInTurn ==
    \A t \in Tasks : Phase(runs[t]) \in {"busy", "reporting"} =>
        runs[t].given = Upto(t - 1)

\* The run that is under way is the one the interface holds, or has dropped.
Owned ==
    \A t \in Tasks : Phase(runs[t]) \in {"launched", "busy", "reporting"} =>
        ui.active = t /\ (ui.running \/ ui.abandoned)

\* A yes in the channel of an edit is the user's.
YesIsSaid == \A t \in Tasks : runs[t].answer = "yes" => HeldEdit(t) \in said

\* An edit that is asked about is one of the run's.
AsksAreEdits ==
    \A t \in Tasks : runs[t].pc = "sending" /\ runs[t].msg = "confirm" => runs[t].edits # 0

Turns == (\E k \in 0 .. LastTask : InTurn(k)) /\ TaughtInTurn /\ Owned
Heard == YesIsSaid /\ AsksAreEdits /\ HeldIsAnswerable

InterfaceInv == InterfaceTypeOK /\ Turns /\ Heard

-----------------------------------------------------------------------------
(* Facts about the parts *)

LEMMA LimitsAreNumbers ==
    LastTask \in Nat \ {0} /\ MaxPieces \in Nat \ {0} /\ MaxEdits \in Nat \ {0}
    /\ MaxQueued \in Nat \ {0}
  BY InterfaceAssumption

LEMMA TasksAreNumbers == \A t \in Tasks : t \in Nat /\ t >= 1 /\ t <= LastTask /\ t # NoTask
  BY LimitsAreNumbers DEF Tasks, NoTask

\* No two runs are under way.
LEMMA OneUnderWay ==
    ASSUME Turns, NEW t \in Tasks, NEW u \in Tasks,
           Phase(runs[t]) \in {"launched", "busy", "reporting"}, u # t
    PROVE  Phase(runs[u]) \in {"none", "over"}
  BY TasksAreNumbers DEF Turns, InTurn

LEMMA PhasesOf ==
    ASSUME NEW r \in Runs
    PROVE  /\ r.pc \in {"working", "held"} => Phase(r) = "busy"
           /\ r.pc = "sending" => Phase(r) = IF r.msg = "report" THEN "reporting" ELSE "busy"
           /\ r.pc \in {"none", "launched", "over"} => Phase(r) = r.pc
           /\ Phase(r) = "none" => r.pc = "none"
           /\ Phase(r) = "over" => r.pc = "over"
  BY DEF Phase, Runs

\* When no run's phase changes, nothing changes hands.
LEMMA NothingChangesHands ==
    ASSUME Turns, session' = session,
           \A t \in Tasks : /\ Phase(runs'[t]) = Phase(runs[t])
                            /\ runs'[t].given = runs[t].given,
           ui'.active = ui.active,
           ui.running \/ ui.abandoned => ui'.running \/ ui'.abandoned
    PROVE  Turns'
  <1>1. PICK k \in 0 .. LastTask : InTurn(k)
    BY DEF Turns
  <1>2. InTurn(k)'
    BY <1>1 DEF InTurn
  <1>3. TaughtInTurn'
    BY DEF Turns, TaughtInTurn
  <1>4. Owned'
    BY DEF Turns, Owned
  <1> QED BY <1>2, <1>3, <1>4 DEF Turns

\* A run whose phase stays goes one step on.
LEMMA RunGoesOn ==
    ASSUME InterfaceInv, NEW t \in Tasks, NEW r \in Runs,
           runs' = [runs EXCEPT ![t] = r], session' = session,
           Phase(r) = Phase(runs[t]), r.given = runs[t].given,
           ui'.active = ui.active, ui'.running = ui.running,
           ui'.abandoned = ui.abandoned
    PROVE  /\ runs' \in [Tasks -> Runs] /\ Turns'
           /\ runs'[t] = r /\ \A u \in Tasks : u # t => runs'[u] = runs[u]
  <1>1. runs \in [Tasks -> Runs] /\ Turns
    BY DEF InterfaceInv, InterfaceTypeOK
  <1>2. /\ runs' \in [Tasks -> Runs]
        /\ runs'[t] = r /\ \A u \in Tasks : u # t => runs'[u] = runs[u]
    BY <1>1
  <1>3. \A u \in Tasks : /\ Phase(runs'[u]) = Phase(runs[u])
                         /\ runs'[u].given = runs[u].given
    BY <1>2
  <1> QED BY <1>1, <1>2, <1>3, NothingChangesHands

\* What is heard stays heard when one run moves without being asked anew.
LEMMA StillHeard ==
    ASSUME InterfaceInv, NEW t \in Tasks, NEW r \in Runs,
           runs'[t] = r, \A u \in Tasks : u # t => runs'[u] = runs[u],
           r.answer = "yes" => <<t, r.edits>> \in said,
           r.pc = "held" => r.cancelled \/ r.answer # "none" \/ ui'.confirm = <<t, r.edits>>,
           r.pc = "sending" /\ r.msg = "confirm" => r.edits # 0,
           ui'.confirm = ui.confirm \/ \A u \in Tasks : u # t => runs[u].pc # "held",
           said' = said, applied' \subseteq said
    PROVE  Heard'
  <1>1. ASSUME NEW u \in Tasks
        PROVE  /\ runs'[u].answer = "yes" => <<u, runs'[u].edits>> \in said
               /\ runs'[u].pc = "sending" /\ runs'[u].msg = "confirm" =>
                     runs'[u].edits # 0
               /\ runs'[u].pc = "held" => \/ runs'[u].cancelled
                                          \/ runs'[u].answer # "none"
                                          \/ ui'.confirm = <<u, runs'[u].edits>>
    BY DEF InterfaceInv, Heard, YesIsSaid, AsksAreEdits,
       HeldIsAnswerable, HeldEdit
  <1> QED BY <1>1 DEF Heard, YesIsSaid, AsksAreEdits, HeldIsAnswerable, HeldEdit

-----------------------------------------------------------------------------
(* The keyboard *)

LEMMA StartsQuiet == InterfaceInit => InterfaceInv
  <1> SUFFICES ASSUME InterfaceInit PROVE InterfaceInv
    OBVIOUS
  <1>1. NoRun \in Runs /\ Phase(NoRun) = "none" /\ NoRun.answer = "none" /\ NoRun.pc = "none"
    <2>1. <<>> \in Seq(Tasks) /\ 0 \in 0 .. MaxEdits /\ 0 \in 0 .. MaxPieces
      BY LimitsAreNumbers
    <2> QED BY <2>1 DEF NoRun, Runs, Phase, Modes, NoMessage, Messages
  <1>2. ui \in UI
    BY DEF InterfaceInit, UI, Modes
  <1>3. \A t \in Tasks : runs[t] = NoRun
    BY DEF InterfaceInit
  <1>4. InterfaceTypeOK
    BY <1>1, <1>2, LimitsAreNumbers DEF InterfaceInit, InterfaceTypeOK
  <1>5. InTurn(0)
    <2>1. session = Upto(0)
      BY DEF InterfaceInit, Upto
    <2> QED BY <1>1, <1>3, <2>1, TasksAreNumbers DEF InTurn
  <1>6. Turns
    BY <1>1, <1>3, <1>5, LimitsAreNumbers DEF Turns, TaughtInTurn, Owned
  <1>7. Heard
    BY <1>1, <1>3 DEF InterfaceInit, Heard, YesIsSaid, AsksAreEdits,
       HeldIsAnswerable
  <1> QED BY <1>4, <1>6, <1>7 DEF InterfaceInv

\* Keys that no run hears of.
LEMMA IdleKeys ==
    ASSUME InterfaceInv, Enter \/ SlashMode \/ Quit \/ UNCHANGED interfaceVars
    PROVE  InterfaceInv'
  <1>1. /\ UNCHANGED <<runs, session, said, applied>>
        /\ ui' \in UI /\ queued' \in 0 .. MaxQueued
        /\ ui'.active = ui.active /\ ui'.running = ui.running
        /\ ui'.abandoned = ui.abandoned /\ ui'.confirm = ui.confirm
    <2>1. ui \in UI /\ queued \in 0 .. MaxQueued
      BY DEF InterfaceInv, InterfaceTypeOK
    <2>2. CASE Enter
      BY <2>1, <2>2, LimitsAreNumbers DEF Enter
    <2>3. CASE SlashMode
      BY <2>1, <2>3 DEF SlashMode, UI
    <2>4. CASE Quit
      BY <2>1, <2>4 DEF Quit, UI
    <2>5. CASE UNCHANGED interfaceVars
      BY <2>1, <2>5 DEF interfaceVars
    <2> QED BY <2>2, <2>3, <2>4, <2>5
  <1>2. InterfaceTypeOK'
    BY <1>1 DEF InterfaceInv, InterfaceTypeOK
  <1>3. Turns'
    BY <1>1, NothingChangesHands DEF InterfaceInv
  <1>4. Heard'
    BY <1>1 DEF InterfaceInv, Heard, YesIsSaid, AsksAreEdits,
       HeldIsAnswerable, HeldEdit
  <1> QED BY <1>2, <1>3, <1>4 DEF InterfaceInv

\* What Answer, Interrupt and DropRun leave of every run.
OnlyTold ==
    /\ runs' \in [Tasks -> Runs]
    /\ \A t \in Tasks : /\ runs'[t].pc = runs[t].pc /\ runs'[t].msg = runs[t].msg
                        /\ runs'[t].given = runs[t].given
                        /\ runs'[t].edits = runs[t].edits
                        /\ runs[t].cancelled => runs'[t].cancelled

LEMMA ToldIsNoTurn ==
    ASSUME InterfaceInv, OnlyTold, session' = session,
           ui'.active = ui.active,
           ui.running \/ ui.abandoned => ui'.running \/ ui'.abandoned
    PROVE  Turns'
  <1>1. \A t \in Tasks : Phase(runs'[t]) = Phase(runs[t])
    BY DEF OnlyTold, Phase
  <1> QED BY <1>1, NothingChangesHands DEF InterfaceInv, OnlyTold

\* A key of a pending prompt.
LEMMA AnswerIsHeard ==
    ASSUME InterfaceInv, Answer
    PROVE  InterfaceInv'
  <1>1. /\ ui \in UI /\ runs \in [Tasks -> Runs] /\ said \subseteq Edits
        /\ YesIsSaid /\ HeldIsAnswerable
    BY DEF InterfaceInv, InterfaceTypeOK, Heard
  <1>2. PICK a \in {"yes", "no"} :
          /\ runs' = [runs EXCEPT ![ui.confirm[1]].answer =
                          IF ui.confirm = HeldEdit(ui.confirm[1]) THEN a ELSE @]
          /\ said' = IF a = "yes" THEN said \cup {ui.confirm} ELSE said
    BY DEF Answer
  <1>3. /\ ui.confirm \in Edits /\ UNCHANGED <<queued, session, applied>>
        /\ ui' = [ui EXCEPT !.confirm = NoCard]
    BY <1>1 DEF Answer, UI
  <1> DEFINE t == ui.confirm[1]
  <1>4. t \in Tasks
    BY <1>3 DEF Edits
  <1>5. /\ runs' \in [Tasks -> Runs]
        /\ \A u \in Tasks : u # t => runs'[u] = runs[u]
        /\ runs'[t] = [runs[t] EXCEPT !.answer =
                          IF ui.confirm = HeldEdit(t) THEN a ELSE @]
    <2> DEFINE x == IF ui.confirm = HeldEdit(t) THEN a ELSE runs[t].answer
               r == [runs[t] EXCEPT !.answer = x]
    <2>1. x \in {"none", "yes", "no"}
      BY <1>1, <1>4 DEF Runs
    <2> HIDE DEF x
    <2>2. r \in Runs
      <3>1. runs[t] \in Runs
        BY <1>1, <1>4
      <3> HIDE DEF t
      <3> QED BY <2>1, <3>1 DEF Runs
    <2>3. runs' = [runs EXCEPT ![t] = r]
      BY <1>1, <1>2, <1>4 DEF x
    <2> HIDE DEF r
    <2>4. /\ runs' \in [Tasks -> Runs] /\ runs'[t] = r
          /\ \A u \in Tasks : u # t => runs'[u] = runs[u]
      BY <1>1, <1>4, <2>2, <2>3
    <2> QED BY <2>4 DEF r, x
  <1>6. /\ runs'[t].pc = runs[t].pc /\ runs'[t].msg = runs[t].msg
        /\ runs'[t].given = runs[t].given /\ runs'[t].edits = runs[t].edits
        /\ runs'[t].cancelled = runs[t].cancelled
        /\ runs'[t].answer = IF ui.confirm = HeldEdit(t) THEN a ELSE runs[t].answer
    BY <1>1, <1>4, <1>5 DEF Runs
  <1>7. OnlyTold
    BY <1>4, <1>5, <1>6 DEF OnlyTold
  <1>8. /\ ui' \in UI /\ ui'.active = ui.active /\ ui'.running = ui.running
        /\ ui'.abandoned = ui.abandoned /\ ui'.confirm = NoCard
    BY <1>1, <1>3 DEF UI
  <1>9. InterfaceTypeOK'
    BY <1>2, <1>3, <1>5, <1>8 DEF InterfaceInv, InterfaceTypeOK
  <1>10. Turns'
    BY <1>3, <1>7, <1>8, ToldIsNoTurn
  <1>11. YesIsSaid'
    <2>1. ASSUME NEW u \in Tasks, runs'[u].answer = "yes"
          PROVE  <<u, runs'[u].edits>> \in said'
      <3>1. CASE u = t /\ ui.confirm = HeldEdit(t)
        BY <1>2, <1>6, <2>1, <3>1 DEF HeldEdit
      <3>2. CASE ~ (u = t /\ ui.confirm = HeldEdit(t))
        BY <1>1, <1>2, <1>5, <1>6, <2>1, <3>2 DEF YesIsSaid, HeldEdit
      <3> QED BY <3>1, <3>2
    <2> QED BY <2>1 DEF YesIsSaid, HeldEdit
  <1>12. HeldIsAnswerable'
    <2>1. ASSUME NEW u \in Tasks, runs'[u].pc = "held"
          PROVE  runs'[u].cancelled \/ runs'[u].answer # "none"
      <3>1. CASE u = t
        BY <1>1, <1>4, <1>6, <2>1, <3>1 DEF HeldIsAnswerable
      <3>2. CASE u # t
        <4>1. ui.confirm # HeldEdit(u)
          BY <3>2 DEF HeldEdit
        <4> QED BY <1>1, <1>5, <2>1, <3>2, <4>1 DEF HeldIsAnswerable
      <3> QED BY <3>1, <3>2
    <2>2. applied' \subseteq said'
      BY <1>1, <1>2, <1>3 DEF HeldIsAnswerable
    <2> QED BY <2>1, <2>2 DEF HeldIsAnswerable
  <1>13. AsksAreEdits'
    BY <1>7 DEF OnlyTold, InterfaceInv, Heard, AsksAreEdits
  <1> QED BY <1>9, <1>10, <1>11, <1>12, <1>13 DEF InterfaceInv, Heard

\* An interrupt refuses the edit whose prompt is up.
LEMMA InterruptIsHeard ==
    ASSUME InterfaceInv, Interrupt
    PROVE  InterfaceInv'
  <1>1. /\ ui \in UI /\ runs \in [Tasks -> Runs]
        /\ YesIsSaid /\ HeldIsAnswerable
    BY DEF InterfaceInv, InterfaceTypeOK, Heard
  <1>2. /\ ui' = [ui EXCEPT !.confirm = NoCard, !.interrupting = TRUE]
        /\ UNCHANGED <<queued, session, said, applied>>
        /\ runs' = Interrupted(runs)
    BY DEF Interrupt
  <1>3. \A t \in Tasks :
           /\ runs'[t] \in Runs
           /\ runs'[t].pc = runs[t].pc /\ runs'[t].msg = runs[t].msg
           /\ runs'[t].given = runs[t].given /\ runs'[t].edits = runs[t].edits
           /\ runs[t].cancelled => runs'[t].cancelled
           /\ \/ runs'[t].answer = "no"
              \/ runs'[t].answer = runs[t].answer
                    /\ (ui.confirm = NoCard \/ ui.confirm # <<t, runs[t].edits>>)
    <2> TAKE t \in Tasks
    <2> DEFINE up == ui.confirm # NoCard /\ ui.confirm = <<t, runs[t].edits>>
               x == IF up THEN "no" ELSE runs[t].answer
               y == runs[t].cancelled \/ t = ui.active
               r == [runs[t] EXCEPT !.answer = x, !.cancelled = y]
    <2>1. runs'[t] = r
      BY <1>2 DEF Interrupted
    <2>2. /\ x \in {"none", "yes", "no"} /\ y \in BOOLEAN /\ runs[t] \in Runs
          /\ runs[t].cancelled => y
      BY <1>1 DEF Runs
    <2>3. x = "no" \/ (x = runs[t].answer /\ ~ up)
      OBVIOUS
    <2> HIDE DEF x, y
    <2>4. /\ r \in Runs /\ r.pc = runs[t].pc /\ r.msg = runs[t].msg
          /\ r.given = runs[t].given /\ r.edits = runs[t].edits
          /\ r.cancelled = y /\ r.answer = x
      BY <2>2 DEF Runs
    <2> QED BY <2>1, <2>2, <2>3, <2>4
  <1>4. OnlyTold
    BY <1>2, <1>3 DEF OnlyTold, Interrupted
  <1>5. /\ ui' \in UI /\ ui'.active = ui.active /\ ui'.running = ui.running
        /\ ui'.abandoned = ui.abandoned /\ ui'.confirm = NoCard
    BY <1>1, <1>2 DEF UI
  <1>6. InterfaceTypeOK'
    BY <1>2, <1>4, <1>5 DEF InterfaceInv, InterfaceTypeOK, OnlyTold
  <1>7. Turns'
    BY <1>2, <1>4, <1>5, ToldIsNoTurn
  <1>8. YesIsSaid'
    BY <1>1, <1>2, <1>3 DEF YesIsSaid, HeldEdit
  <1>9. HeldIsAnswerable'
    <2>1. \A t \in Tasks : NoCard # <<t, runs[t].edits>>
      BY TasksAreNumbers DEF NoCard, NoTask
    <2> QED BY <1>1, <1>2, <1>3, <2>1 DEF HeldIsAnswerable, HeldEdit
  <1>10. AsksAreEdits'
    BY <1>4 DEF OnlyTold, InterfaceInv, Heard, AsksAreEdits
  <1> QED BY <1>6, <1>7, <1>8, <1>9, <1>10 DEF InterfaceInv, Heard

LEMMA DropIsHeard ==
    ASSUME InterfaceInv, DropRun
    PROVE  InterfaceInv'
  <1>1. /\ ui \in UI /\ runs \in [Tasks -> Runs]
        /\ YesIsSaid /\ HeldIsAnswerable
    BY DEF InterfaceInv, InterfaceTypeOK, Heard
  <1>2. /\ ui' = [ui EXCEPT !.running = FALSE, !.interrupting = FALSE,
                            !.abandoned = TRUE, !.open = NoTask]
        /\ UNCHANGED <<queued, session, said, applied>>
        /\ runs' = [runs EXCEPT ![ui.active].cancelled = TRUE, ![ui.active].dropped = TRUE]
    BY DEF DropRun
  <1>3. /\ runs' \in [Tasks -> Runs]
        /\ \A t \in Tasks :
           /\ runs'[t].pc = runs[t].pc /\ runs'[t].msg = runs[t].msg
           /\ runs'[t].given = runs[t].given /\ runs'[t].edits = runs[t].edits
           /\ runs[t].cancelled => runs'[t].cancelled
           /\ runs'[t].answer = runs[t].answer
    <2> DEFINE a == ui.active
               r == [runs[a] EXCEPT !.cancelled = TRUE, !.dropped = TRUE]
    <2>1. CASE a \in Tasks
      <3>1. runs' = [runs EXCEPT ![a] = r]
        BY <1>1, <1>2, <2>1
      <3>2. /\ r \in Runs /\ r.pc = runs[a].pc /\ r.msg = runs[a].msg
            /\ r.given = runs[a].given /\ r.edits = runs[a].edits
            /\ r.cancelled /\ r.answer = runs[a].answer
        <4>1. runs[a] \in Runs
          BY <1>1, <2>1
        <4> HIDE DEF a
        <4> QED BY <4>1 DEF Runs
      <3> HIDE DEF r
      <3> QED BY <1>1, <2>1, <3>1, <3>2
    <2>2. CASE a \notin Tasks
      BY <1>1, <1>2, <2>2
    <2> QED BY <2>1, <2>2
  <1>4. /\ ui' \in UI /\ ui'.active = ui.active /\ ui'.abandoned
        /\ ui'.confirm = ui.confirm
    BY <1>1, <1>2 DEF UI
  <1>5. InterfaceTypeOK'
    BY <1>2, <1>3, <1>4 DEF InterfaceInv, InterfaceTypeOK
  <1>6. Turns'
    BY <1>2, <1>3, <1>4, ToldIsNoTurn DEF OnlyTold
  <1>7. Heard'
    BY <1>1, <1>2, <1>3, <1>4 DEF InterfaceInv, Heard, YesIsSaid, AsksAreEdits,
       HeldIsAnswerable, HeldEdit
  <1> QED BY <1>5, <1>6, <1>7 DEF InterfaceInv

-----------------------------------------------------------------------------
(* The runs *)

LEMMA UptoGrows ==
    ASSUME NEW k \in 0 .. LastTask, k + 1 \in Tasks
    PROVE  Append(Upto(k), k + 1) = Upto(k + 1) /\ Upto(k) \in Seq(Tasks)
  <1>1. k \in Nat /\ LastTask \in Nat
    BY LimitsAreNumbers
  <1>2. Upto(k) \in Seq(Tasks) /\ Len(Upto(k)) = k
    BY <1>1 DEF Upto, Tasks
  <1> QED BY <1>1, <1>2 DEF Upto

\* The task a submission gets: none is under way, and it is the one after the last.
First(t) == runs[t].pc = "none" /\ \A v \in 1 .. (t - 1) : runs[v].pc # "none"

LEMMA NextInLine ==
    ASSUME InterfaceInv, MayStart, \E t \in Tasks : runs[t].pc = "none",
           NEW k \in 0 .. LastTask, InTurn(k)
    PROVE  /\ \A t \in Tasks : Phase(runs[t]) \in {"none", "over"}
           /\ k + 1 \in Tasks /\ runs[k + 1].pc = "none"
           /\ (CHOOSE u \in Tasks : First(u)) = k + 1
  <1>1. /\ ui \in UI /\ runs \in [Tasks -> Runs] /\ Turns
    BY DEF InterfaceInv, InterfaceTypeOK
  <1>2. \A t \in Tasks : Phase(runs[t]) \in {"none", "over"}
    <2>1. \A t \in Tasks : Phase(runs[t]) \in {"none", "launched", "busy", "reporting", "over"}
      BY DEF Phase
    <2> QED BY <1>1, <2>1 DEF Turns, Owned, MayStart
  <1>3. \A t \in Tasks : runs[t].pc = "none" <=> t > k
    BY <1>1, <1>2, PhasesOf, TasksAreNumbers, LimitsAreNumbers DEF InTurn
  <1>4. k + 1 \in Tasks /\ First(k + 1)
    BY <1>3, TasksAreNumbers, LimitsAreNumbers DEF Tasks, First
  <1>5. \A u \in Tasks : First(u) => u = k + 1
    BY <1>3, <1>4, TasksAreNumbers DEF First
  <1>6. (CHOOSE u \in Tasks : First(u)) = k + 1
    BY <1>4, <1>5
  <1> QED BY <1>2, <1>3, <1>4, <1>6 DEF First

\* A run is taken when none is under way: it is the one after the last.
LEMMA SubmissionInTurn ==
    ASSUME InterfaceInv, TakeSubmission
    PROVE  InterfaceInv'
  <1>1. /\ ui \in UI /\ runs \in [Tasks -> Runs] /\ queued \in 0 .. MaxQueued
        /\ UNCHANGED <<session, said, applied>> /\ queued' \in 0 .. MaxQueued
        /\ Turns /\ Heard
    BY LimitsAreNumbers DEF InterfaceInv, InterfaceTypeOK, TakeSubmission
  <1>2. CASE UNCHANGED <<runs, ui>>
    <2>1. InterfaceTypeOK'
      BY <1>1, <1>2 DEF InterfaceInv, InterfaceTypeOK
    <2>2. Turns'
      BY <1>1, <1>2, NothingChangesHands
    <2>3. Heard'
      BY <1>1, <1>2 DEF Heard, YesIsSaid, AsksAreEdits, HeldIsAnswerable, HeldEdit
    <2> QED BY <2>1, <2>2, <2>3 DEF InterfaceInv
  <1>3. CASE ~ UNCHANGED <<runs, ui>>
    <2>1. MayStart /\ \E t \in Tasks : runs[t].pc = "none"
      BY <1>3 DEF TakeSubmission
    <2>2. PICK k \in 0 .. LastTask : InTurn(k)
      BY <1>1 DEF Turns
    <2> DEFINE t == CHOOSE u \in Tasks : First(u)
    <2>3. /\ \A u \in Tasks : Phase(runs[u]) \in {"none", "over"}
          /\ t \in Tasks /\ t = k + 1 /\ runs[t].pc = "none"
      BY <2>1, <2>2, NextInLine
    <2>8. /\ runs' = [runs EXCEPT ![t].pc = "launched", ![t].mode = ui.mode]
          /\ ui' = [ui EXCEPT !.running = TRUE, !.active = t]
      BY <1>3, <2>1 DEF TakeSubmission, First
    <2> HIDE DEF t
    <2>9. t \in Tasks /\ Phase(runs[t]) = "none"
      BY <2>3 DEF Phase
    <2> DEFINE r == [runs[t] EXCEPT !.pc = "launched", !.mode = ui.mode]
    <2>10. /\ runs' = [runs EXCEPT ![t] = r] /\ r \in Runs
           /\ Phase(r) = "launched" /\ r.pc = "launched" /\ r.answer = runs[t].answer
           /\ r.edits = runs[t].edits
      BY <1>1, <2>8, <2>9 DEF Runs, UI, Phase
    <2> HIDE DEF r
    <2>11. /\ runs' \in [Tasks -> Runs]
           /\ runs'[t] = r /\ \A u \in Tasks : u # t => runs'[u] = runs[u]
      BY <1>1, <2>9, <2>10
    <2>12. /\ ui' \in UI /\ ui'.running /\ ui'.active = t /\ ui'.confirm = ui.confirm
      BY <1>1, <2>8, <2>9 DEF UI
    <2>13. InterfaceTypeOK'
      BY <1>1, <2>11, <2>12 DEF InterfaceInv, InterfaceTypeOK
    <2>14. InTurn(k)'
      BY <1>1, <2>2, <2>3, <2>9, <2>10, <2>11, TasksAreNumbers DEF InTurn
    <2>15. TaughtInTurn'
      BY <1>1, <2>10, <2>11 DEF Turns, TaughtInTurn
    <2>16. Owned'
      BY <2>3, <2>11, <2>12 DEF Owned
    <2>17. Heard'
      BY <1>1, <2>9, <2>10, <2>11, <2>12 DEF Heard, YesIsSaid, AsksAreEdits, HeldIsAnswerable, HeldEdit
    <2> QED BY <2>13, <2>14, <2>15, <2>16, <2>17 DEF InterfaceInv, Turns
  <1> QED BY <1>2, <1>3

\* What every step of a run's goroutine, and of the event loop with a message
\* of it, starts from.
LEMMA RunAtHand ==
    ASSUME InterfaceInv, NEW t \in Tasks
    PROVE  /\ ui \in UI /\ runs \in [Tasks -> Runs] /\ runs[t] \in Runs
           /\ runs[t].edits \in 0 .. MaxEdits /\ runs[t].pieces \in 0 .. MaxPieces
           /\ runs[t].shown \in Nat /\ runs[t].answer \in {"none", "yes", "no"}
           /\ session \in Seq(Tasks) /\ queued \in 0 .. MaxQueued
           /\ said \subseteq Edits /\ applied \subseteq said
           /\ Turns /\ YesIsSaid /\ HeldIsAnswerable
           /\ runs[t].answer = "yes" => <<t, runs[t].edits>> \in said
           /\ runs[t].pc = "sending" /\ runs[t].msg = "confirm" => runs[t].edits # 0
  BY DEF InterfaceInv, InterfaceTypeOK, Heard, HeldIsAnswerable, YesIsSaid,
         AsksAreEdits, HeldEdit, Runs

\* While one run is at work no other one's edit is held.
LEMMA HeldAlone ==
    ASSUME InterfaceInv, NEW t \in Tasks, runs[t].pc \in {"working", "sending", "held"}
    PROVE  \A u \in Tasks : u # t => runs[u].pc # "held"
  <1>1. /\ runs \in [Tasks -> Runs] /\ Turns
        /\ Phase(runs[t]) \in {"launched", "busy", "reporting"}
    BY PhasesOf DEF InterfaceInv, InterfaceTypeOK
  <1> QED BY <1>1, OneUnderWay, PhasesOf

\* A run that goes on, in its phase.
LEMMA GoingOn ==
    ASSUME InterfaceInv, NEW t \in Tasks, NEW r \in Runs,
           runs[t].pc \in {"working", "sending", "held"},
           runs' = [runs EXCEPT ![t] = r],
           Phase(r) = Phase(runs[t]), r.given = runs[t].given,
           ui' \in UI, ui'.active = ui.active, ui'.running = ui.running,
           ui'.abandoned = ui.abandoned,
           r.answer = "yes" => <<t, r.edits>> \in said,
           r.pc = "held" => r.cancelled \/ r.answer # "none" \/ ui'.confirm = <<t, r.edits>>,
           r.pc = "sending" /\ r.msg = "confirm" => r.edits # 0,
           applied' \subseteq said, UNCHANGED <<queued, session, said>>
    PROVE  InterfaceInv'
  <1>1. /\ runs' \in [Tasks -> Runs] /\ Turns'
        /\ runs'[t] = r /\ \A u \in Tasks : u # t => runs'[u] = runs[u]
    BY RunGoesOn
  <1>2. Heard'
    BY <1>1, HeldAlone, StillHeard
  <1>3. InterfaceTypeOK'
    BY <1>1, RunAtHand DEF InterfaceInv, InterfaceTypeOK
  <1> QED BY <1>1, <1>2, <1>3 DEF InterfaceInv

\* A run at work sends something, or asks for an edit.
LEMMA SendingSteps ==
    ASSUME InterfaceInv, NEW t \in Tasks, EmitPiece(t) \/ EditCall(t)
    PROVE  InterfaceInv'
  <1> DEFINE o == runs[t]
  <1>1. /\ o \in Runs /\ ui \in UI /\ applied \subseteq said
        /\ o.answer = "yes" => <<t, o.edits>> \in said
        /\ o.edits \in 0 .. MaxEdits /\ o.pieces \in 0 .. MaxPieces
    BY RunAtHand
  <1>2. o.pc = "working" /\ UNCHANGED <<ui, queued, session, said, applied>>
    BY DEF EmitPiece, EditCall
  <1>3. CASE EmitPiece(t)
    <2>1. PICK m \in {"delta", "done", "item"} :
            runs' = [runs EXCEPT ![t].pc = "sending", ![t].msg = m, ![t].pieces = @ + 1]
      BY <1>3 DEF EmitPiece
    <2> DEFINE r == [o EXCEPT !.pc = "sending", !.msg = m, !.pieces = @ + 1]
    <2>2. o.pieces + 1 \in 0 .. MaxPieces
      BY <1>1, <1>3, LimitsAreNumbers DEF EmitPiece
    <2>3. m \in Messages /\ m # "report"
      BY DEF Messages
    <2>4. /\ r \in Runs /\ r.pc = "sending" /\ r.msg = m /\ r.answer = o.answer
          /\ r.edits = o.edits /\ r.given = o.given
      BY <1>1, <2>2, <2>3 DEF Runs
    <2>5. runs' = [runs EXCEPT ![t] = r]
      BY <2>1, RunAtHand
    <2> HIDE DEF r
    <2>6. Phase(r) = Phase(o) /\ m # "confirm"
      BY <1>1, <1>2, <2>3, <2>4, PhasesOf
    <2> QED BY <1>1, <1>2, <2>4, <2>5, <2>6, GoingOn
  <1>4. CASE EditCall(t)
    <2> DEFINE r == [o EXCEPT !.edits = @ + 1, !.pc = "sending", !.msg = "confirm",
                              !.answer = "none"]
    <2>1. runs' = [runs EXCEPT ![t] = r]
      BY <1>4, RunAtHand DEF EditCall
    <2>2. o.edits + 1 \in 0 .. MaxEdits /\ "confirm" \in Messages
      BY <1>1, <1>4, LimitsAreNumbers DEF EditCall, Messages
    <2>3. /\ r \in Runs /\ r.pc = "sending" /\ r.msg = "confirm" /\ r.answer = "none"
          /\ r.given = o.given /\ r.edits = o.edits + 1
      BY <1>1, <2>2 DEF Runs
    <2>5. r.edits # 0
      BY <1>1, <2>3
    <2> HIDE DEF r
    <2>4. Phase(r) = Phase(o)
      BY <1>1, <1>2, <2>3, PhasesOf
    <2> QED BY <1>1, <1>2, <2>1, <2>3, <2>4, <2>5, GoingOn
  <1> QED BY <1>3, <1>4

\* The gate lets an edit through on a yes that is in its channel, and only then.
LEMMA GateIsTrue ==
    ASSUME InterfaceInv, NEW t \in Tasks, GateReturns(t)
    PROVE  InterfaceInv'
  <1> DEFINE o == runs[t]
             r == [o EXCEPT !.pc = "working", !.answer = "none"]
  <1>1. /\ o \in Runs /\ ui \in UI /\ applied \subseteq said
        /\ o.answer = "yes" => <<t, o.edits>> \in said
    BY RunAtHand
  <1>2. /\ o.pc = "held" /\ runs' = [runs EXCEPT ![t] = r]
        /\ UNCHANGED <<ui, queued, session, said>>
    BY RunAtHand DEF GateReturns
  <1>3. applied' \subseteq said
    <2>1. PICK d \in Decisions(o) :
            applied' = IF d = "yes" THEN applied \cup {HeldEdit(t)} ELSE applied
      BY DEF GateReturns
    <2>2. d = "yes" => o.answer = "yes"
      BY DEF Decisions
    <2> QED BY <1>1, <2>1, <2>2 DEF HeldEdit
  <1>4. /\ r \in Runs /\ r.pc = "working" /\ r.answer = "none" /\ r.given = o.given
    BY <1>1 DEF Runs
  <1> HIDE DEF r
  <1>5. Phase(r) = Phase(o)
    BY <1>1, <1>2, <1>4, PhasesOf
  <1> QED BY <1>1, <1>2, <1>3, <1>4, <1>5, GoingOn

\* What the event loop makes of a run whose message it takes.
NextPc(r) ==
    IF r.msg = "confirm" THEN "held" ELSE IF r.msg = "report" THEN "over" ELSE "working"

Taken(t, n, a) ==
    [runs[t] EXCEPT !.pc = NextPc(runs[t]), !.msg = NoMessage, !.shown = n, !.answer = a]

LEMMA TakenIsRun ==
    ASSUME InterfaceInv, NEW t \in Tasks, NEW n \in Nat, NEW a \in {"none", "yes", "no"}
    PROVE  /\ Taken(t, n, a) \in Runs
           /\ Taken(t, n, a).pc = NextPc(runs[t]) /\ Taken(t, n, a).answer = a
           /\ Taken(t, n, a).given = runs[t].given
           /\ Taken(t, n, a).edits = runs[t].edits
           /\ Taken(t, n, a).cancelled = runs[t].cancelled
  <1>1. NextPc(runs[t]) \in {"held", "over", "working"} /\ runs[t] \in Runs
    BY RunAtHand DEF NextPc
  <1> QED BY <1>1 DEF Taken, Runs

LEMMA AfterMessage ==
    ASSUME InterfaceInv, NEW t \in Tasks
    PROVE  /\ After(t) = [runs EXCEPT ![t] = Taken(t, runs[t].shown, runs[t].answer)]
           /\ [After(t) EXCEPT ![t].answer = "no"]
                = [runs EXCEPT ![t] = Taken(t, runs[t].shown, "no")]
           /\ [After(t) EXCEPT ![t].shown = @ + 1]
                = [runs EXCEPT ![t] = Taken(t, runs[t].shown + 1, runs[t].answer)]
  <1> DEFINE pc == CASE runs[t].msg = "confirm" -> "held"
                     [] runs[t].msg = "report"  -> "over"
                     [] OTHER -> "working"
             r == [runs[t] EXCEPT !.pc = pc, !.msg = NoMessage]
  <1>1. runs \in [Tasks -> Runs] /\ runs[t] \in Runs
    BY RunAtHand
  <1>2. pc = NextPc(runs[t])
    BY DEF NextPc
  <1>3. After(t) = [runs EXCEPT ![t] = r]
    BY <1>1 DEF After
  <1> HIDE DEF pc
  <1>4. /\ r = Taken(t, runs[t].shown, runs[t].answer)
        /\ [r EXCEPT !.answer = "no"] = Taken(t, runs[t].shown, "no")
        /\ [r EXCEPT !.shown = @ + 1] = Taken(t, runs[t].shown + 1, runs[t].answer)
    BY <1>1, <1>2 DEF Taken, Runs
  <1>5. /\ [After(t) EXCEPT ![t].answer = "no"]
             = [runs EXCEPT ![t] = [r EXCEPT !.answer = "no"]]
        /\ [After(t) EXCEPT ![t].shown = @ + 1]
             = [runs EXCEPT ![t] = [r EXCEPT !.shown = @ + 1]]
    BY <1>1, <1>3
  <1> QED BY <1>3, <1>4, <1>5

\* A piece is counted, or not: the run whose message it was moves on either way.
LEMMA ShownOrNot ==
    ASSUME InterfaceInv, NEW t \in Tasks,
           runs' \in {[After(t) EXCEPT ![t].shown = IF runs[t].msg = "done" THEN @ ELSE @ + 1],
                      [After(t) EXCEPT ![t].shown = @ + 1]}
    PROVE  \E n \in Nat : runs' = [runs EXCEPT ![t] = Taken(t, n, runs[t].answer)]
  <1>1. /\ runs \in [Tasks -> Runs] /\ runs[t].shown \in Nat
        /\ runs[t].answer \in {"none", "yes", "no"}
    BY RunAtHand
  <1>2. CASE runs' = [After(t) EXCEPT ![t].shown = @ + 1]
    <2>1. runs' = [runs EXCEPT ![t] = Taken(t, runs[t].shown + 1, runs[t].answer)]
      BY <1>2, AfterMessage
    <2>2. runs[t].shown + 1 \in Nat
      BY <1>1
    <2> QED BY <2>1, <2>2
  <1>3. CASE runs' = [After(t) EXCEPT ![t].shown = @]
    <2>1. /\ Taken(t, runs[t].shown, runs[t].answer) \in Runs
          /\ After(t) = [runs EXCEPT ![t] = Taken(t, runs[t].shown, runs[t].answer)]
      BY <1>1, AfterMessage, TakenIsRun
    <2>2. After(t) \in [Tasks -> Runs]
      BY <2>1, RunAtHand
    <2>3. [After(t)[t] EXCEPT !.shown = @] = After(t)[t]
      BY <2>2 DEF Runs
    <2>4. runs' = After(t)
      BY <1>3, <2>2, <2>3
    <2> QED BY <1>1, <2>1, <2>4
  <1>4. CASE runs[t].msg = "done"
    BY <1>2, <1>3, <1>4
  <1>5. CASE runs[t].msg # "done"
    BY <1>2, <1>3, <1>5
  <1> QED BY <1>4, <1>5

\* The report counts too, except a dropped run's.
LEMMA ReportShown ==
    ASSUME InterfaceInv, NEW t \in Tasks, TakeReport(t)
    PROVE  \E n \in Nat : /\ runs' = [runs EXCEPT ![t] = Taken(t, n, runs[t].answer)]
                          /\ ui.abandoned => n = runs[t].shown
  <1>1. /\ runs \in [Tasks -> Runs] /\ runs[t].shown \in Nat
        /\ runs[t].answer \in {"none", "yes", "no"}
    BY RunAtHand
  <1>2. CASE ~ ui.abandoned
    <2>1. runs' = [After(t) EXCEPT ![t].shown = @ + 1]
      BY <1>2 DEF TakeReport
    <2>2. runs[t].shown + 1 \in Nat
      BY <1>1
    <2> QED BY <1>2, <2>1, <2>2, AfterMessage
  <1>3. CASE ui.abandoned
    <2>1. runs' = [After(t) EXCEPT ![t].shown = @]
      BY <1>3 DEF TakeReport
    <2>2. /\ Taken(t, runs[t].shown, runs[t].answer) \in Runs
          /\ After(t) = [runs EXCEPT ![t] = Taken(t, runs[t].shown, runs[t].answer)]
      BY <1>1, AfterMessage, TakenIsRun
    <2>3. After(t) \in [Tasks -> Runs]
      BY <1>1, <2>2
    <2>4. [After(t)[t] EXCEPT !.shown = @] = After(t)[t]
      BY <2>3 DEF Runs
    <2>5. runs' = After(t)
      BY <2>1, <2>3, <2>4
    <2> QED BY <1>1, <2>2, <2>5
  <1> QED BY <1>2, <1>3

\* The event loop takes a piece, or an edit that waits for the user: a prompt
\* goes up, unless the run was dropped, which is a no.
LEMMA TakingSteps ==
    ASSUME InterfaceInv, NEW t \in Tasks, TakePiece(t) \/ TakeConfirm(t)
    PROVE  InterfaceInv'
  <1> DEFINE o == runs[t]
  <1>1. /\ o \in Runs /\ runs \in [Tasks -> Runs] /\ ui \in UI /\ applied \subseteq said
        /\ o.answer \in {"none", "yes", "no"} /\ o.shown \in Nat
        /\ o.answer = "yes" => <<t, o.edits>> \in said
        /\ o.edits \in 0 .. MaxEdits
    BY RunAtHand
  <1>2. /\ o.pc = "sending" /\ o.msg # "report"
        /\ UNCHANGED <<queued, session, said, applied>>
    BY DEF TakePiece, TakeConfirm
  <1>3. \A n \in Nat : \A a \in {"none", "yes", "no"} :
            Phase(Taken(t, n, a)) = Phase(o)
    <2> TAKE n \in Nat, a \in {"none", "yes", "no"}
    <2>1. Taken(t, n, a) \in Runs /\ Taken(t, n, a).pc \in {"held", "working"}
      BY <1>2, TakenIsRun DEF NextPc
    <2> QED BY <1>1, <1>2, <2>1, PhasesOf
  <1>4. ASSUME NEW n \in Nat, NEW a \in {"none", "yes", "no"},
               runs' = [runs EXCEPT ![t] = Taken(t, n, a)],
               a = "yes" => o.answer = "yes",
               ui' \in UI, ui'.active = ui.active, ui'.running = ui.running,
               ui'.abandoned = ui.abandoned,
               o.msg = "confirm" => a # "none" \/ ui'.confirm = <<t, o.edits>>
        PROVE  InterfaceInv'
    <2> DEFINE r == Taken(t, n, a)
    <2>1. /\ r \in Runs /\ r.pc = NextPc(o) /\ r.answer = a /\ r.given = o.given
          /\ r.edits = o.edits
      BY TakenIsRun
    <2>2. Phase(r) = Phase(o)
      BY <1>3
    <2>3. r.pc = "held" => o.msg = "confirm"
      BY <2>1 DEF NextPc
    <2> HIDE DEF r
    <2>4. runs' = [runs EXCEPT ![t] = r]
      BY <1>4 DEF r
    <2>5. r.answer = "yes" => <<t, r.edits>> \in said
      BY <1>1, <1>4, <2>1
    <2>6. r.pc = "held" => r.answer # "none" \/ ui'.confirm = <<t, r.edits>>
      BY <1>4, <2>1, <2>3
    <2>7. r.pc # "sending"
      BY <2>1 DEF NextPc
    <2> QED BY <1>1, <1>2, <1>4, <2>1, <2>2, <2>4, <2>5, <2>6, <2>7, GoingOn
  <1>5. CASE TakePiece(t)
    <2>1. o.msg # "confirm"
      BY <1>5 DEF TakePiece
    <2>2. /\ ui' \in UI /\ ui'.active = ui.active /\ ui'.running = ui.running
          /\ ui'.abandoned = ui.abandoned
      <3>1. CASE UNCHANGED ui
        BY <1>1, <3>1
      <3>2. CASE ui' = [ui EXCEPT !.open = CASE runs[t].msg = "done" -> NoTask
                                             [] runs[t].msg = "delta" /\ @ = NoTask -> t
                                             [] OTHER -> @]
        <4> DEFINE x == CASE runs[t].msg = "done" -> NoTask
                          [] runs[t].msg = "delta" /\ ui.open = NoTask -> t
                          [] OTHER -> ui.open
        <4>1. ui.open \in Tasks \cup {NoTask}
          BY <1>1 DEF UI
        <4>2. x \in Tasks \cup {NoTask}
          BY <4>1
        <4>3. ui' = [ui EXCEPT !.open = x]
          BY <3>2
        <4> HIDE DEF x
        <4> QED BY <1>1, <4>2, <4>3 DEF UI
      <3> QED BY <1>5, <3>1, <3>2 DEF TakePiece
    <2>3. \E n \in Nat : runs' = [runs EXCEPT ![t] = Taken(t, n, o.answer)]
      BY <1>1, <1>5, AfterMessage, ShownOrNot DEF TakePiece
    <2> QED BY <1>1, <1>4, <2>1, <2>2, <2>3
  <1>6. CASE TakeConfirm(t)
    <2>1. CASE Screened
      <3>1. runs' = [After(t) EXCEPT ![t].answer = "no"] /\ ui' = ui
        BY <1>6, <2>1 DEF TakeConfirm
      <3> QED BY <1>1, <1>4, <3>1, AfterMessage
    <2>2. CASE ~ Screened
      <3>1. /\ runs' = [After(t) EXCEPT ![t].shown = @ + 1]
            /\ ui' = [ui EXCEPT !.confirm = HeldEdit(t)]
        BY <1>6, <2>2 DEF TakeConfirm
      <3>2. HeldEdit(t) \in Edits \cup {NoCard} /\ o.shown + 1 \in Nat
        <4>1. o.edits # 0
          BY <1>6, RunAtHand DEF TakeConfirm
        <4> QED BY <1>1, <4>1, LimitsAreNumbers DEF HeldEdit, Edits
      <3>3. /\ ui' \in UI /\ ui'.active = ui.active /\ ui'.running = ui.running
            /\ ui'.abandoned = ui.abandoned /\ ui'.confirm = <<t, o.edits>>
        BY <1>1, <3>1, <3>2 DEF UI, HeldEdit
      <3> QED BY <1>1, <1>4, <3>1, <3>2, <3>3, AfterMessage
    <2> QED BY <2>1, <2>2
  <1> QED BY <1>5, <1>6

\* A run that goes over to its next phase.
LEMMA PhaseMoves ==
    ASSUME InterfaceInv, NEW t \in Tasks, NEW r \in Runs,
           runs' = [runs EXCEPT ![t] = r],
           r.pc \notin {"held", "none"},
           r.pc = "sending" => r.msg # "confirm",
           r.answer = runs[t].answer, r.edits = runs[t].edits,
           ui' \in UI, ui'.confirm = ui.confirm,
           session' \in Seq(Tasks), UNCHANGED <<queued, said, applied>>
    PROVE  /\ InterfaceTypeOK' /\ Heard' /\ runs' \in [Tasks -> Runs]
           /\ runs'[t] = r /\ \A u \in Tasks : u # t => runs'[u] = runs[u]
  <1>1. /\ runs' \in [Tasks -> Runs] /\ runs'[t] = r
        /\ \A u \in Tasks : u # t => runs'[u] = runs[u]
    BY RunAtHand
  <1>2. InterfaceTypeOK'
    BY <1>1 DEF InterfaceInv, InterfaceTypeOK
  <1>3. Heard'
    BY <1>1, RunAtHand, StillHeard
  <1> QED BY <1>1, <1>2, <1>3

\* A run begins, with all that came before it.
LEMMA BeginInTurn ==
    ASSUME InterfaceInv, NEW t \in Tasks, BeginRun(t)
    PROVE  InterfaceInv'
  <1> DEFINE o == runs[t]
             r == [o EXCEPT !.pc = "working", !.given = session]
  <1>1. /\ o \in Runs /\ ui \in UI /\ session \in Seq(Tasks) /\ Turns
        /\ runs \in [Tasks -> Runs]
    BY RunAtHand
  <1>2. /\ o.pc = "launched" /\ runs' = [runs EXCEPT ![t] = r]
        /\ UNCHANGED <<ui, queued, session, said, applied>>
    BY <1>1 DEF BeginRun
  <1>3. /\ r \in Runs /\ r.pc = "working" /\ r.given = session
        /\ r.answer = o.answer /\ r.edits = o.edits
    BY <1>1 DEF Runs
  <1> HIDE DEF r
  <1>4. Phase(o) = "launched" /\ Phase(r) = "busy"
    BY <1>1, <1>2, <1>3, PhasesOf
  <1>5. /\ InterfaceTypeOK' /\ Heard'
        /\ runs'[t] = r /\ \A u \in Tasks : u # t => runs'[u] = runs[u]
    BY <1>1, <1>2, <1>3, PhaseMoves
  <1>6. PICK k \in 0 .. LastTask : InTurn(k)
    BY <1>1 DEF Turns
  <1>7. t = k + 1
    BY <1>4, <1>6, TasksAreNumbers, LimitsAreNumbers DEF InTurn
  <1>8. InTurn(k)'
    BY <1>2, <1>4, <1>5, <1>6, <1>7, TasksAreNumbers DEF InTurn
  <1>9. TaughtInTurn'
    <2>1. session = Upto(t - 1)
      <3>1. t - 1 = k
        BY <1>7
      <3> QED BY <1>6, <3>1 DEF InTurn
    <2> QED BY <1>1, <1>3, <1>5, <2>1 DEF Turns, TaughtInTurn
  <1>10. Owned'
    BY <1>1, <1>2, <1>4, <1>5 DEF Turns, Owned
  <1> QED BY <1>5, <1>8, <1>9, <1>10 DEF InterfaceInv, Turns

\* A run ends: it is the next one of the session.
LEMMA EndInTurn ==
    ASSUME InterfaceInv, NEW t \in Tasks, EndRun(t)
    PROVE  InterfaceInv'
  <1> DEFINE o == runs[t]
             r == [o EXCEPT !.pc = "sending", !.msg = "report"]
  <1>1. /\ o \in Runs /\ ui \in UI /\ session \in Seq(Tasks) /\ Turns
        /\ runs \in [Tasks -> Runs]
    BY RunAtHand
  <1>2. /\ o.pc = "working" /\ runs' = [runs EXCEPT ![t] = r]
        /\ session' = Append(session, t)
        /\ UNCHANGED <<ui, queued, said, applied>>
    BY <1>1 DEF EndRun, Sending
  <1>3. /\ r \in Runs /\ r.pc = "sending" /\ r.msg = "report" /\ r.given = o.given
        /\ r.answer = o.answer /\ r.edits = o.edits
    BY <1>1 DEF Runs, Messages
  <1> HIDE DEF r
  <1>4. Phase(o) = "busy" /\ Phase(r) = "reporting"
    BY <1>1, <1>2, <1>3, PhasesOf
  <1>5. /\ InterfaceTypeOK' /\ Heard'
        /\ runs'[t] = r /\ \A u \in Tasks : u # t => runs'[u] = runs[u]
    <2>1. session' \in Seq(Tasks)
      BY <1>1, <1>2
    <2> QED BY <1>1, <1>2, <1>3, <2>1, PhaseMoves
  <1>6. PICK k \in 0 .. LastTask : InTurn(k)
    BY <1>1 DEF Turns
  <1>7. t = k + 1
    BY <1>4, <1>6, TasksAreNumbers, LimitsAreNumbers DEF InTurn
  <1>8. InTurn(k + 1)'
    <2>1. session' = Upto(k + 1)
      BY <1>2, <1>6, <1>7, UptoGrows DEF InTurn
    <2>2. \A u \in Tasks : u < k + 1 => Phase(runs[u]) = "over"
      <3>1. \A u \in Tasks : u < k + 1 => u < k \/ u = k
        BY TasksAreNumbers, LimitsAreNumbers
      <3>2. \A u \in Tasks : u = k => Phase(runs[u]) # "reporting"
        BY <1>4, <1>6, <1>7, TasksAreNumbers, LimitsAreNumbers DEF InTurn
      <3> QED BY <1>6, <3>1, <3>2 DEF InTurn
    <2>3. \A u \in Tasks : u > k + 1 => Phase(runs[u]) = "none"
      BY <1>6 DEF InTurn
    <2>4. \A u \in Tasks : u # t => u < k + 1 \/ u > k + 1
      BY <1>7, TasksAreNumbers, LimitsAreNumbers
    <2>5. ASSUME NEW u \in Tasks
          PROVE  /\ u < k + 1 => Phase(runs'[u]) = "over"
                 /\ u = k + 1 => Phase(runs'[u]) = "reporting"
                 /\ u > k + 1 => Phase(runs'[u]) = "none"
      BY <1>4, <1>5, <1>7, <2>2, <2>3, TasksAreNumbers
    <2>6. \A u \in Tasks : u > (k + 1) + 1 => u > k + 1
      BY TasksAreNumbers, LimitsAreNumbers
    <2> QED BY <2>1, <2>5, <2>6 DEF InTurn
  <1>9. TaughtInTurn'
    BY <1>1, <1>3, <1>4, <1>5 DEF Turns, TaughtInTurn
  <1>10. Owned'
    BY <1>1, <1>2, <1>4, <1>5 DEF Turns, Owned
  <1>11. k + 1 \in 0 .. LastTask
    BY <1>7, TasksAreNumbers, LimitsAreNumbers
  <1> QED BY <1>5, <1>8, <1>9, <1>10, <1>11 DEF InterfaceInv, Turns

\* The report frees the interface: no other run was under way.
LEMMA ReportFrees ==
    ASSUME InterfaceInv, NEW t \in Tasks, TakeReport(t)
    PROVE  InterfaceInv'
  <1> DEFINE o == runs[t]
  <1>1. /\ o \in Runs /\ ui \in UI /\ session \in Seq(Tasks) /\ Turns
        /\ runs \in [Tasks -> Runs] /\ o.shown \in Nat
        /\ o.answer \in {"none", "yes", "no"}
    BY RunAtHand
  <1>2. /\ o.pc = "sending" /\ o.msg = "report"
        /\ ui' = [ui EXCEPT !.running = FALSE, !.interrupting = FALSE,
                            !.abandoned = FALSE, !.active = NoTask, !.open = NoTask]
        /\ UNCHANGED <<queued, session, said, applied>>
    BY DEF TakeReport
  <1>3. ui' \in UI /\ ui'.confirm = ui.confirm
    BY <1>1, <1>2 DEF UI
  <1>4. PICK n \in Nat : runs' = [runs EXCEPT ![t] = Taken(t, n, o.answer)]
    BY ReportShown
  <1> DEFINE r == Taken(t, n, o.answer)
  <1>5. /\ r \in Runs /\ r.pc = "over" /\ r.given = o.given
        /\ r.answer = o.answer /\ r.edits = o.edits
        /\ runs' = [runs EXCEPT ![t] = r]
    BY <1>1, <1>2, <1>4, TakenIsRun DEF NextPc
  <1> HIDE DEF r
  <1>6. Phase(o) = "reporting" /\ Phase(r) = "over"
    BY <1>1, <1>2, <1>5, PhasesOf
  <1>7. /\ InterfaceTypeOK' /\ Heard'
        /\ runs'[t] = r /\ \A u \in Tasks : u # t => runs'[u] = runs[u]
    BY <1>1, <1>2, <1>3, <1>5, PhaseMoves
  <1>8. PICK k \in 0 .. LastTask : InTurn(k)
    BY <1>1 DEF Turns
  <1>9. t = k
    BY <1>6, <1>8, TasksAreNumbers, LimitsAreNumbers DEF InTurn
  <1>10. InTurn(k)'
    BY <1>2, <1>6, <1>7, <1>8, <1>9, TasksAreNumbers, LimitsAreNumbers DEF InTurn
  <1>11. TaughtInTurn'
    BY <1>1, <1>6, <1>7 DEF Turns, TaughtInTurn
  <1>12. Owned'
    BY <1>1, <1>6, <1>7, OneUnderWay DEF Owned
  <1> QED BY <1>7, <1>10, <1>11, <1>12 DEF InterfaceInv, Turns

-----------------------------------------------------------------------------
(* What follows *)

LEMMA InvariantOfInterface == InterfaceSpec => []InterfaceInv
  <1>1. InterfaceInv /\ [InterfaceNext]_interfaceVars => InterfaceInv'
    BY IdleKeys, AnswerIsHeard, InterruptIsHeard, DropIsHeard, SubmissionInTurn,
       BeginInTurn, SendingSteps, GateIsTrue, EndInTurn, TakingSteps, ReportFrees
    DEF InterfaceNext
  <1> QED BY StartsQuiet, <1>1, PTL DEF InterfaceSpec

\* The loop and its hooks belong to one run at a time, a dropped one included,
\* each run is given the recap of all before it, a held edit can be released and
\* is made only if the user said yes (loop_bridge.go, interrupt.go).
THEOREM RunsHaveOneOwner == InterfaceSpec => []RunsAreOwned
  <1>1. InterfaceInv => OneRunAtATime
    <2> SUFFICES ASSUME InterfaceInv PROVE OneRunAtATime
      OBVIOUS
    <2>1. ASSUME NEW t \in Tasks, NEW u \in Tasks, t # u
          PROVE  {runs[t].pc, runs[u].pc} \cap {"none", "over"} # {}
      <3>1. runs[t] \in Runs /\ runs[u] \in Runs /\ Turns
        BY RunAtHand
      <3>2. CASE Phase(runs[t]) \in {"launched", "busy", "reporting"}
        BY <2>1, <3>1, <3>2, OneUnderWay, PhasesOf
      <3>3. CASE Phase(runs[t]) \notin {"launched", "busy", "reporting"}
        BY <3>1, <3>3, PhasesOf DEF Phase
      <3> QED BY <3>2, <3>3
    <2>2. ASSUME NEW t \in Tasks, runs[t].pc \in {"working", "sending", "held"}
          PROVE  runs[t].given = [n \in 1 .. (t - 1) |-> n]
      <3>1. Phase(runs[t]) \in {"busy", "reporting"} /\ Turns
        BY <2>2, RunAtHand, PhasesOf
      <3> QED BY <3>1 DEF Turns, TaughtInTurn, Upto
    <2> QED BY <2>1, <2>2 DEF OneRunAtATime
  <1>2. InterfaceInv => HeldIsAnswerable
    BY DEF InterfaceInv, Heard
  <1> QED BY <1>1, <1>2, InvariantOfInterface, PTL DEF RunsAreOwned

-----------------------------------------------------------------------------
(* A dropped run *)

\* What a dropped run has left to say is screened: it is over, or it is the one
\* the interface has abandoned, and no other can start meanwhile.
Silent ==
    /\ ui.interrupting => ui.running
    /\ ~ (ui.running /\ ui.abandoned)
    /\ ui.running \/ ui.abandoned =>
          ui.active \in Tasks /\ runs[ui.active].pc \notin {"none", "over"}
    /\ \A t \in Tasks : runs[t].dropped =>
          /\ runs[t].pc = "over" \/ (runs[t].pc # "none" /\ ui.abandoned)
          /\ ui.open # t

\* What one step may do to the screen, for the runs that were dropped before it.
SaysNothing ==
    \A t \in Tasks : runs[t].dropped =>
        /\ runs'[t].dropped
        /\ runs'[t].shown = runs[t].shown
        /\ ui'.confirm[1] = t => ui'.confirm = ui.confirm

LEMMA SilentFromTheStart == InterfaceInit => Silent
  BY DEF InterfaceInit, Silent, NoRun

\* A step that starts, drops and ends no run.
LEMMA StaysSilent ==
    ASSUME Silent,
           \A t \in Tasks : /\ runs'[t].pc = "none" <=> runs[t].pc = "none"
                            /\ runs'[t].pc = "over" <=> runs[t].pc = "over"
                            /\ runs'[t].dropped = runs[t].dropped
                            /\ runs[t].dropped => runs'[t].shown = runs[t].shown,
           ui'.active = ui.active, ui'.running = ui.running,
           ui'.abandoned = ui.abandoned,
           ui'.interrupting => ui.running,
           \A t \in Tasks : runs[t].dropped => ui'.open # t,
           \A t \in Tasks : runs[t].dropped =>
               (ui'.confirm[1] = t => ui'.confirm = ui.confirm)
    PROVE  Silent' /\ SaysNothing
  BY DEF Silent, SaysNothing

\* The keys, that start and end nothing.
LEMMA KeysStaySilent ==
    ASSUME InterfaceInv, Silent,
           Enter \/ SlashMode \/ Quit \/ Answer \/ Interrupt \/ UNCHANGED interfaceVars
    PROVE  Silent' /\ SaysNothing
  <1>1. ui \in UI /\ runs \in [Tasks -> Runs]
    BY DEF InterfaceInv, InterfaceTypeOK
  <1>2. CASE Enter \/ SlashMode \/ Quit \/ UNCHANGED interfaceVars
    <2>1. /\ runs' = runs /\ ui'.active = ui.active /\ ui'.running = ui.running
          /\ ui'.abandoned = ui.abandoned /\ ui'.interrupting = ui.interrupting
          /\ ui'.open = ui.open /\ ui'.confirm = ui.confirm
      BY <1>1, <1>2 DEF Enter, SlashMode, Quit, interfaceVars, UI
    <2> QED BY <2>1, StaysSilent DEF Silent
  <1>3. \A t \in Tasks : NoCard[1] # t
    BY TasksAreNumbers DEF NoCard
  <1>4. CASE Answer
    <2>1. /\ ui'.active = ui.active /\ ui'.running = ui.running
          /\ ui'.abandoned = ui.abandoned /\ ui'.interrupting = ui.interrupting
          /\ ui'.open = ui.open /\ ui'.confirm = NoCard
      BY <1>1, <1>4 DEF Answer, UI
    <2>2. PICK a \in {"yes", "no"} :
            runs' = [runs EXCEPT ![ui.confirm[1]].answer =
                          IF ui.confirm = HeldEdit(ui.confirm[1]) THEN a ELSE @]
      BY <1>4 DEF Answer
    <2>3. \A t \in Tasks : /\ runs'[t].pc = runs[t].pc /\ runs'[t].shown = runs[t].shown
                           /\ runs'[t].dropped = runs[t].dropped
      BY <1>1, <2>2 DEF Runs
    <2> QED BY <1>3, <2>1, <2>3, StaysSilent DEF Silent
  <1>5. CASE Interrupt
    <2>1. /\ ui'.active = ui.active /\ ui'.running = ui.running
          /\ ui'.abandoned = ui.abandoned /\ ui.running
          /\ ui'.open = ui.open /\ ui'.confirm = NoCard
      BY <1>1, <1>5 DEF Interrupt, UI
    <2>2. \A t \in Tasks : /\ runs'[t].pc = runs[t].pc /\ runs'[t].shown = runs[t].shown
                           /\ runs'[t].dropped = runs[t].dropped
      BY <1>1, <1>5 DEF Interrupt, Interrupted, Runs
    <2> QED BY <1>3, <2>1, <2>2, StaysSilent DEF Silent
  <1> QED BY <1>2, <1>4, <1>5

\* Esc while the run is stopping: from now on it is screened.
LEMMA DropSilences ==
    ASSUME InterfaceInv, Silent, DropRun
    PROVE  Silent' /\ SaysNothing
  <1>1. ui \in UI /\ runs \in [Tasks -> Runs]
    BY DEF InterfaceInv, InterfaceTypeOK
  <1> DEFINE a == ui.active
  <1>2. ui.running /\ ~ ui.abandoned /\ a \in Tasks /\ runs[a].pc \notin {"none", "over"}
    BY DEF DropRun, Silent
  <1>3. /\ ~ ui'.running /\ ~ ui'.interrupting /\ ui'.abandoned /\ ui'.active = a
        /\ ui'.open = NoTask /\ ui'.confirm = ui.confirm
    BY <1>1 DEF DropRun, UI
  <1>4. \A t \in Tasks : /\ runs'[t].pc = runs[t].pc /\ runs'[t].shown = runs[t].shown
                         /\ runs'[t].dropped = (runs[t].dropped \/ t = a)
    BY <1>1, <1>2 DEF DropRun, Runs
  <1> QED BY <1>2, <1>3, <1>4, TasksAreNumbers DEF Silent, SaysNothing

\* A submission starts a run only when none that was dropped is at work.
LEMMA SubmissionIsHeard ==
    ASSUME InterfaceInv, Silent, TakeSubmission
    PROVE  Silent' /\ SaysNothing
  <1>1. ui \in UI /\ runs \in [Tasks -> Runs]
    BY DEF InterfaceInv, InterfaceTypeOK
  <1>2. CASE UNCHANGED <<runs, ui>>
    BY <1>2, StaysSilent DEF Silent
  <1>3. CASE MayStart /\ \E t \in Tasks : runs[t].pc = "none"
    <2> DEFINE t == CHOOSE u \in Tasks : First(u)
    <2>1. /\ runs' = [runs EXCEPT ![t].pc = "launched", ![t].mode = ui.mode]
          /\ ui' = [ui EXCEPT !.running = TRUE, !.active = t]
      BY <1>3 DEF TakeSubmission, First
    <2> HIDE DEF t
    <2>2. \A u \in Tasks : runs'[u].dropped = runs[u].dropped /\ runs'[u].shown = runs[u].shown
      BY <1>1, <2>1 DEF Runs
    <2>3. \A u \in Tasks : runs'[u].pc = IF u = t THEN "launched" ELSE runs[u].pc
      BY <1>1, <2>1 DEF Runs
    <2>4. /\ ui'.running /\ ui'.active = t /\ ui'.abandoned = ui.abandoned
          /\ ui'.interrupting = ui.interrupting /\ ui'.open = ui.open
          /\ ui'.confirm = ui.confirm /\ ~ ui.abandoned
      BY <1>1, <1>3, <2>1 DEF UI, MayStart
    <2>5. t \in Tasks /\ runs[t].pc = "none"
      <3>1. PICK k \in 0 .. LastTask : InTurn(k)
        BY DEF InterfaceInv, Turns
      <3> QED BY <1>3, <3>1, NextInLine DEF t
    <2> QED BY <2>2, <2>3, <2>4, <2>5 DEF Silent, SaysNothing
  <1> QED BY <1>2, <1>3 DEF TakeSubmission

\* The goroutine of a run only ever gets its next message ready.
LEMMA RunsStaySilent ==
    ASSUME InterfaceInv, Silent, NEW t \in Tasks,
           BeginRun(t) \/ EmitPiece(t) \/ EditCall(t) \/ GateReturns(t) \/ EndRun(t)
    PROVE  Silent' /\ SaysNothing
  <1>1. ui' = ui /\ runs[t].pc \notin {"none", "over"}
    BY DEF BeginRun, EmitPiece, EditCall, GateReturns, EndRun
  <1>2. /\ runs'[t].pc \in {"working", "sending"}
        /\ runs'[t].dropped = runs[t].dropped /\ runs'[t].shown = runs[t].shown
        /\ \A u \in Tasks : u # t => runs'[u] = runs[u]
    <2>1. runs \in [Tasks -> Runs] /\ runs[t] \in Runs
      BY RunAtHand
    <2>2. CASE BeginRun(t)
      BY <2>1, <2>2 DEF BeginRun, Runs
    <2>3. CASE EmitPiece(t)
      BY <2>1, <2>3 DEF EmitPiece, Runs
    <2>4. CASE EditCall(t)
      BY <2>1, <2>4 DEF EditCall, Runs
    <2>5. CASE GateReturns(t)
      BY <2>1, <2>5 DEF GateReturns, Runs
    <2>6. CASE EndRun(t)
      BY <2>1, <2>6 DEF EndRun, Sending, Runs
    <2> QED BY <2>2, <2>3, <2>4, <2>5, <2>6
  <1>3. \A u \in Tasks : /\ runs'[u].pc = "none" <=> runs[u].pc = "none"
                         /\ runs'[u].pc = "over" <=> runs[u].pc = "over"
                         /\ runs'[u].dropped = runs[u].dropped
                         /\ runs'[u].shown = runs[u].shown
    BY <1>1, <1>2
  <1> QED BY <1>1, <1>3, StaysSilent DEF Silent

\* Taking a message moves the run whose message it is, and nothing else of it but
\* what is shown.
LEMMA TakenFields ==
    ASSUME InterfaceInv, NEW t \in Tasks, NEW n \in Nat, NEW a \in {"none", "yes", "no"},
           runs' = [runs EXCEPT ![t] = Taken(t, n, a)]
    PROVE  /\ runs'[t].pc = NextPc(runs[t]) /\ runs'[t].dropped = runs[t].dropped
           /\ runs'[t].shown = n
           /\ \A u \in Tasks : u # t => runs'[u] = runs[u]
  <1>1. runs \in [Tasks -> Runs] /\ runs[t] \in Runs
    BY RunAtHand
  <1>2. Taken(t, n, a).shown = n /\ Taken(t, n, a).dropped = runs[t].dropped
    BY <1>1 DEF Taken, Runs
  <1> QED BY <1>1, <1>2, TakenIsRun

\* A piece or a prompt of a dropped run is screened.
LEMMA TakingStaysSilent ==
    ASSUME InterfaceInv, Silent, NEW t \in Tasks, TakePiece(t) \/ TakeConfirm(t)
    PROVE  Silent' /\ SaysNothing
  <1> DEFINE o == runs[t]
  <1>1. /\ ui \in UI /\ runs \in [Tasks -> Runs] /\ o \in Runs /\ o.shown \in Nat
        /\ o.answer \in {"none", "yes", "no"}
    BY RunAtHand
  <1>2. o.pc = "sending" /\ o.msg # "report"
    BY DEF TakePiece, TakeConfirm
  <1>3. o.dropped => Screened
    BY <1>2 DEF Silent, Screened
  <1>4. CASE Screened
    <2>1. ui' = ui
      BY <1>4 DEF TakePiece, TakeConfirm
    <2>3. PICK a \in {"none", "yes", "no"} : runs' = [runs EXCEPT ![t] = Taken(t, o.shown, a)]
      BY <1>1, <1>4, AfterMessage DEF TakePiece, TakeConfirm
    <2>4. /\ runs'[t].pc \in {"held", "working"} /\ runs'[t].dropped = o.dropped
          /\ runs'[t].shown = o.shown
          /\ \A u \in Tasks : u # t => runs'[u] = runs[u]
      BY <1>1, <1>2, <2>3, TakenFields DEF NextPc
    <2>2. \A u \in Tasks : /\ runs'[u].pc = "none" <=> runs[u].pc = "none"
                           /\ runs'[u].pc = "over" <=> runs[u].pc = "over"
                           /\ runs'[u].dropped = runs[u].dropped
                           /\ runs'[u].shown = runs[u].shown
      BY <1>2, <2>4
    <2> QED BY <2>1, <2>2, StaysSilent DEF Silent
  <1>5. CASE ~ Screened
    <2>1. PICK n \in Nat : runs' = [runs EXCEPT ![t] = Taken(t, n, o.answer)]
      BY <1>5, ShownOrNot DEF TakePiece, TakeConfirm
    <2>4. /\ runs'[t].pc \in {"held", "working"} /\ runs'[t].dropped = o.dropped
          /\ \A u \in Tasks : u # t => runs'[u] = runs[u]
      BY <1>1, <1>2, <2>1, TakenFields DEF NextPc
    <2>2. \A u \in Tasks : /\ runs'[u].pc = "none" <=> runs[u].pc = "none"
                           /\ runs'[u].pc = "over" <=> runs[u].pc = "over"
                           /\ runs'[u].dropped = runs[u].dropped
                           /\ u # t => runs'[u].shown = runs[u].shown
      BY <1>2, <2>4
    <2>3. /\ ui'.active = ui.active /\ ui'.running = ui.running
          /\ ui'.abandoned = ui.abandoned /\ ui'.interrupting = ui.interrupting
          /\ ui'.open \in {NoTask, ui.open, t}
          /\ ui'.confirm = ui.confirm \/ ui'.confirm[1] = t
      BY <1>1, <1>5 DEF TakePiece, TakeConfirm, UI, HeldEdit
    <2> QED BY <1>3, <1>5, <2>2, <2>3, StaysSilent, TasksAreNumbers DEF Silent
  <1> QED BY <1>4, <1>5

\* The report of a dropped run prints nothing, and ends the screening.
LEMMA ReportStaysSilent ==
    ASSUME InterfaceInv, Silent, NEW t \in Tasks, TakeReport(t)
    PROVE  Silent' /\ SaysNothing
  <1> DEFINE o == runs[t]
  <1>1. /\ ui \in UI /\ runs \in [Tasks -> Runs] /\ o \in Runs /\ o.shown \in Nat
        /\ o.answer \in {"none", "yes", "no"} /\ Turns
    BY RunAtHand
  <1>2. o.pc = "sending" /\ o.msg = "report"
    BY DEF TakeReport
  <1>3. /\ ui'.running = FALSE /\ ui'.interrupting = FALSE /\ ui'.abandoned = FALSE
        /\ ui'.open = NoTask /\ ui'.confirm = ui.confirm
    BY <1>1 DEF TakeReport, UI
  <1>4. PICK n \in Nat : /\ runs' = [runs EXCEPT ![t] = Taken(t, n, o.answer)]
                         /\ ui.abandoned => n = o.shown
    BY ReportShown
  <1>5. /\ runs'[t].pc = "over" /\ runs'[t].dropped = o.dropped /\ runs'[t].shown = n
        /\ \A u \in Tasks : u # t => runs'[u] = runs[u]
    BY <1>1, <1>2, <1>4, TakenFields DEF NextPc
  <1>6. \A u \in Tasks : u # t => runs[u].pc \in {"none", "over"}
    BY <1>1, <1>2, OneUnderWay, PhasesOf
  <1>7. \A u \in Tasks : runs[u].dropped => IF u = t THEN ui.abandoned ELSE runs[u].pc = "over"
    BY <1>2, <1>6 DEF Silent
  <1>8. ASSUME NEW u \in Tasks, runs[u].dropped
        PROVE  runs'[u].dropped /\ runs'[u].shown = runs[u].shown
    BY <1>4, <1>5, <1>7, <1>8
  <1>9. ASSUME NEW u \in Tasks, runs'[u].dropped
        PROVE  runs'[u].pc = "over" /\ ui'.open # u
    BY <1>3, <1>5, <1>7, <1>9, TasksAreNumbers
  <1>10. Silent'
    BY <1>3, <1>9 DEF Silent
  <1>11. SaysNothing
    BY <1>3, <1>8 DEF SaysNothing
  <1> QED BY <1>10, <1>11

LEMMA InvariantOfSilence == InterfaceSpec => [](InterfaceInv /\ Silent)
  <1>1. Silent /\ InterfaceInv /\ [InterfaceNext]_interfaceVars => Silent'
    BY KeysStaySilent, DropSilences, SubmissionIsHeard, RunsStaySilent,
       TakingStaysSilent, ReportStaysSilent
    DEF InterfaceNext
  <1> QED BY InvariantOfInterface, SilentFromTheStart, <1>1, PTL DEF InterfaceSpec

\* Once the user has dropped a run nothing of it comes to the screen, no prompt
\* either, and no block of its text is left open (interrupt.go, model.go Update).
THEOREM DroppedRunIsSilent == InterfaceSpec => DroppedStaysSilent
  <1> DEFINE Quiet == \A t \in Tasks : runs[t].dropped =>
                          /\ runs'[t].shown = runs[t].shown /\ ui'.open # t
                          /\ ui'.confirm[1] = t => ui'.confirm = ui.confirm
  <1>1. InterfaceInv /\ Silent /\ [InterfaceNext]_interfaceVars => Quiet
    <2> SUFFICES ASSUME InterfaceInv, Silent, [InterfaceNext]_interfaceVars PROVE Quiet
      OBVIOUS
    <2>1. Silent' /\ SaysNothing
      BY KeysStaySilent, DropSilences, SubmissionIsHeard, RunsStaySilent,
         TakingStaysSilent, ReportStaysSilent
      DEF InterfaceNext
    <2> QED BY <2>1 DEF Silent, SaysNothing
  <1>2. InterfaceInv /\ Silent /\ [InterfaceNext]_interfaceVars => [Quiet]_interfaceVars
    BY <1>1
  <1> QED BY <1>2, InvariantOfSilence, PTL DEF InterfaceSpec, DroppedStaysSilent

-----------------------------------------------------------------------------
(* The session store: the invariant *)

Busy(s) == savers[s].pc # "ready"
\* A rename that has not moved its file into place yet.
Renaming == savers["rename"].pc \in {"marshal", "open", "write", "move"}
HomeName == IF Renaming THEN savers["rename"].old ELSE sess.id

\* A save is one of a process, and a rename knows the name it leaves.
Standing ==
    /\ \A s \in Savers : Busy(s) => Up
    /\ Busy("rename") => savers["rename"].old \in Names

\* Saves that do not overlap: each writes what the session is.
InStep(s) ==
    /\ savers[s].pc \notin {"ready", "marshal"} => savers[s].data = sess
    /\ savers[s].pc \in {"write", "move", "remove"} => savers[s].name = sess.id
    /\ savers[s].pc = "write" => temps[sess.id] # Absent
    /\ savers[s].pc = "move" => temps[sess.id] = sess

\* The new name was free, and the old file is there until the new one is.
RenameInStep ==
    /\ Renaming => files[sess.id] = Absent
    /\ Busy("rename") => savers["rename"].old # sess.id
    /\ savers["rename"].pc = "remove" =>
          /\ files[sess.id] = sess
          /\ Parses(files[savers["rename"].old]) =>
                files[savers["rename"].old].runs <= sess.runs

\* What the files say: each its own id, no file of the session more than the session,
\* and some file all that was saved.
FilesInStep ==
    /\ \A n \in Names : Parses(files[n]) => files[n].id = n
    /\ Up /\ Parses(files[HomeName]) => files[HomeName].runs <= sess.runs
    /\ Up /\ durable > 0 => Parses(files[HomeName])
    /\ durable > 0 => \E n \in Names : Parses(files[n]) /\ files[n].runs >= durable

Orderly ==
    /\ ~ Busy("run") \/ ~ Busy("rename")
    /\ \A s \in Savers : InStep(s)
    /\ RenameInStep /\ FilesInStep
    /\ savers["run"].pc # "remove"

SessionInv == SessionTypeOK /\ Standing /\ (~ raced => Orderly)

SaverStates ==
    [pc : {"ready", "marshal", "open", "write", "move", "remove"},
     data : Contents \cup {Absent}, name : Names \cup {NoName},
     old : Names \cup {NoName}]

LEMMA NoNameIsNoFile ==
    /\ Absent \notin Contents /\ Garbled \notin Contents /\ Garbled # Absent
    /\ MaxRuns \in Nat
    /\ \A f \in Contents : f.id \in Names /\ f.runs \in 0 .. MaxRuns /\ f # Absent /\ f # Garbled
  BY SessionAssumption DEF Absent, Garbled, Contents

\* What every step starts from.
LEMMA SessionAtHand ==
    ASSUME SessionTypeOK
    PROVE  /\ Up => sess \in Contents /\ sess.id \in Names /\ sess.runs \in 0 .. MaxRuns
           /\ files \in [Names -> Contents \cup {Absent, Garbled}]
           /\ temps \in [Names -> Contents \cup {Absent, Garbled}]
           /\ savers \in [Savers -> SaverStates]
           /\ Ready \in SaverStates /\ "run" \in Savers /\ "rename" \in Savers
           /\ durable \in 0 .. MaxRuns /\ raced \in BOOLEAN
           /\ \A s \in Savers : savers[s] \in SaverStates /\ savers[s].data \in Contents \cup {Absent}
                                 /\ savers[s].name \in Names \cup {NoName}
                                 /\ savers[s].old \in Names \cup {NoName}
  BY NoNameIsNoFile DEF SessionTypeOK, SaverStates, Up, Ready, Savers, Contents

\* One saver moves to r.
LEMMA OneSaverMoves ==
    ASSUME SessionTypeOK, NEW s \in Savers, NEW r \in SaverStates, SaverMoves(s, r)
    PROVE  /\ savers' \in [Savers -> SaverStates] /\ savers'[s] = r
           /\ \A u \in Savers : u # s => savers'[u] = savers[u]
  BY SessionAtHand DEF SaverMoves

LEMMA SessionsAreTyped ==
    SessionTypeOK /\ Standing /\ [SessionNext]_sessionVars => SessionTypeOK'
  <1> SUFFICES ASSUME SessionTypeOK, Standing, [SessionNext]_sessionVars PROVE SessionTypeOK'
    OBVIOUS
  <1> USE NoNameIsNoFile, SessionAtHand
  <1>1. CASE PersistRun
    <2>1. /\ sess' \in Contents
      <3>1. sess.runs + 1 \in 0 .. MaxRuns /\ sess \in Contents
        BY <1>1 DEF PersistRun
      <3> QED BY <1>1, <3>1 DEF PersistRun, Contents
    <2>2. [Ready EXCEPT !.pc = "marshal"] \in SaverStates
      BY DEF Ready, SaverStates
    <2>3. savers' \in [Savers -> SaverStates]
      BY <1>1, <2>2, OneSaverMoves DEF PersistRun
    <2> QED BY <1>1, <2>1, <2>3 DEF PersistRun, SessionTypeOK, SaverStates
  <1>2. ASSUME NEW n \in Names, RenameTo(n) PROVE SessionTypeOK'
    <2>1. sess' \in Contents
      BY <1>2 DEF RenameTo, Contents
    <2>2. [Ready EXCEPT !.pc = "marshal", !.old = sess.id] \in SaverStates
      BY <1>2 DEF RenameTo, Ready, SaverStates
    <2>3. savers' \in [Savers -> SaverStates]
      BY <1>2, <2>2, OneSaverMoves DEF RenameTo
    <2> QED BY <1>2, <2>1, <2>3 DEF RenameTo, SessionTypeOK, SaverStates
  <1>3. CASE \E n \in Names : NewProcess(n) \/ Resume(n)
    <2>1. sess' \in Contents
      BY <1>3 DEF NewProcess, Resume, Contents, Parses
    <2> QED BY <1>3, <2>1 DEF NewProcess, Resume, SessionTypeOK
  <1>4. CASE Die
    <2>1. savers' \in [Savers -> SaverStates]
      BY <1>4 DEF Die
    <2> QED BY <1>4, <2>1 DEF Die, SessionTypeOK, SaverStates
  <1>5. CASE RemoveOld
    <2>1. files' \in [Names -> Contents \cup {Absent, Garbled}]
      BY <1>5 DEF RemoveOld
    <2>2. savers' \in [Savers -> SaverStates]
      BY <1>5, OneSaverMoves DEF RemoveOld
    <2> QED BY <1>5, <2>1, <2>2 DEF RemoveOld, SessionTypeOK, SaverStates
  <1>6. ASSUME NEW s \in Savers, Marshal(s) PROVE SessionTypeOK'
    <2>1. [savers[s] EXCEPT !.pc = "open", !.data = sess] \in SaverStates
      BY DEF SaverStates, SessionTypeOK
    <2>2. savers' \in [Savers -> SaverStates]
      BY <1>6, <2>1, OneSaverMoves DEF Marshal
    <2> QED BY <1>6, <2>2 DEF Marshal, SessionTypeOK, SaverStates
  <1>7. ASSUME NEW s \in Savers, OpenTemp(s) PROVE SessionTypeOK'
    <2>1. [savers[s] EXCEPT !.pc = "write", !.name = sess.id] \in SaverStates
      <3>1. sess.id \in Names \cup {NoName}
        BY DEF Absent, Up
      <3> QED BY <3>1 DEF SaverStates
    <2>2. savers' \in [Savers -> SaverStates]
      BY <1>7, <2>1, OneSaverMoves DEF OpenTemp
    <2> QED BY <1>7, <2>2 DEF OpenTemp, SessionTypeOK, SaverStates
  <1>8. ASSUME NEW s \in Savers, WriteTemp(s) PROVE SessionTypeOK'
    <2>1. [savers[s] EXCEPT !.pc = "move"] \in SaverStates
      BY DEF SaverStates
    <2>2. savers' \in [Savers -> SaverStates]
      BY <1>8, <2>1, OneSaverMoves DEF WriteTemp
    <2>3. /\ files' \in [Names -> Contents \cup {Absent, Garbled}]
          /\ temps' \in [Names -> Contents \cup {Absent, Garbled}]
      BY <1>8 DEF WriteTemp
    <2> QED BY <1>8, <2>2, <2>3 DEF WriteTemp, SessionTypeOK, SaverStates
  <1>9. ASSUME NEW s \in Savers, MoveTemp(s) PROVE SessionTypeOK'
    <2>1. AfterMove(s) \in SaverStates
      BY DEF SaverStates, AfterMove
    <2>2. savers' \in [Savers -> SaverStates]
      BY <1>9, <2>1, OneSaverMoves DEF MoveTemp
    <2>3. /\ files' \in [Names -> Contents \cup {Absent, Garbled}]
          /\ temps' \in [Names -> Contents \cup {Absent, Garbled}]
      <3> DEFINE n == savers[s].name
      <3>1. files' = [files EXCEPT ![n] = temps[n]] /\ temps' = [temps EXCEPT ![n] = Absent]
        BY <1>9 DEF MoveTemp
      <3>2. CASE n \in Names
        BY <3>1, <3>2
      <3>3. CASE n \notin Names
        BY <3>1, <3>3
      <3> QED BY <3>2, <3>3
    <2>4. durable' \in 0 .. MaxRuns
      BY <1>9 DEF MoveTemp, Absent
    <2> QED BY <1>9, <2>2, <2>3, <2>4 DEF MoveTemp, SessionTypeOK, SaverStates
  <1>10. ASSUME NEW s \in Savers, SaveFails(s) PROVE SessionTypeOK'
    <2>1. savers' \in [Savers -> SaverStates]
      BY <1>10, OneSaverMoves DEF SaveFails
    <2>2. sess' \in Contents \cup {Absent}
      BY <1>10 DEF SaveFails, SessionTypeOK, Contents, Standing, Busy
    <2> QED BY <1>10, <2>1, <2>2 DEF SaveFails, SessionTypeOK, SaverStates
  <1>11. CASE UNCHANGED sessionVars
    BY <1>11 DEF sessionVars, SessionTypeOK
  <1> QED BY <1>1, <1>2, <1>3, <1>4, <1>5, <1>6, <1>7, <1>8, <1>9, <1>10, <1>11
        DEF SessionNext

LEMMA StandingStays ==
    SessionTypeOK /\ Standing /\ [SessionNext]_sessionVars => Standing'
  <1> SUFFICES ASSUME SessionTypeOK, Standing, [SessionNext]_sessionVars PROVE Standing'
    OBVIOUS
  <1> USE NoNameIsNoFile, SessionAtHand DEF Standing, Busy
  <1>1. CASE PersistRun
    <2> DEFINE r == [Ready EXCEPT !.pc = "marshal"]
    <2>1. r \in SaverStates
      BY DEF Ready, SaverStates
    <2>2. /\ savers'["run"] = r /\ savers'["rename"] = savers["rename"]
      BY <1>1, <2>1, OneSaverMoves DEF PersistRun, Savers
    <2>3. sess' \in Contents
      <3>1. sess.runs + 1 \in 0 .. MaxRuns /\ sess \in Contents
        BY <1>1 DEF PersistRun
      <3> QED BY <1>1, <3>1 DEF PersistRun, Contents
    <2> QED BY <2>2, <2>3 DEF Savers, Up
  <1>2. ASSUME NEW n \in Names, RenameTo(n) PROVE Standing'
    <2> DEFINE r == [Ready EXCEPT !.pc = "marshal", !.old = sess.id]
    <2>1. r \in SaverStates /\ r.old = sess.id /\ sess.id \in Names
      BY <1>2 DEF RenameTo, Ready, SaverStates
    <2>2. savers'["rename"] = r /\ savers'["run"] = savers["run"]
      BY <1>2, <2>1, OneSaverMoves DEF RenameTo, Savers
    <2>3. sess' \in Contents
      BY <1>2 DEF RenameTo, Contents
    <2> QED BY <2>1, <2>2, <2>3 DEF Savers, Up
  <1>3. CASE \E n \in Names : NewProcess(n) \/ Resume(n)
    <2>1. sess' \in Contents /\ savers' = savers
      BY <1>3 DEF NewProcess, Resume, Contents, Parses
    <2> QED BY <2>1 DEF Up
  <1>4. CASE Die
    BY <1>4 DEF Die, Ready, Savers
  <1>5. CASE RemoveOld
    <2>1. savers'["rename"] = Ready /\ savers'["run"] = savers["run"] /\ sess' = sess
      BY <1>5, OneSaverMoves DEF RemoveOld, Savers
    <2> QED BY <2>1 DEF Up, Ready, Savers
  <1>6. ASSUME NEW s \in Savers, Marshal(s) \/ OpenTemp(s) \/ WriteTemp(s) \/ MoveTemp(s)
        PROVE  Standing'
    <2>1. PICK r \in SaverStates : SaverMoves(s, r) /\ (r = Ready \/ r.old = savers[s].old)
      <3>1. CASE Marshal(s)
        <4> DEFINE m == [savers[s] EXCEPT !.pc = "open", !.data = sess]
        <4>1. m \in SaverStates /\ m.old = savers[s].old
          BY DEF SaverStates, SessionTypeOK
        <4>2. SaverMoves(s, m)
          BY <3>1 DEF Marshal
        <4> QED BY <4>1, <4>2
      <3>2. CASE OpenTemp(s)
        <4> DEFINE m == [savers[s] EXCEPT !.pc = "write", !.name = sess.id]
        <4>1. sess.id \in Names \cup {NoName}
          BY DEF Absent, Up
        <4>2. m \in SaverStates /\ m.old = savers[s].old
          BY <4>1 DEF SaverStates
        <4>3. SaverMoves(s, m)
          BY <3>2 DEF OpenTemp
        <4> QED BY <4>2, <4>3
      <3>3. CASE WriteTemp(s)
        <4> DEFINE m == [savers[s] EXCEPT !.pc = "move"]
        <4>1. m \in SaverStates /\ m.old = savers[s].old
          BY DEF SaverStates
        <4>2. SaverMoves(s, m)
          BY <3>3 DEF WriteTemp
        <4> QED BY <4>1, <4>2
      <3>4. CASE MoveTemp(s)
        <4>1. /\ AfterMove(s) \in SaverStates
              /\ AfterMove(s) = Ready \/ AfterMove(s).old = savers[s].old
          BY DEF AfterMove, SaverStates
        <4>2. SaverMoves(s, AfterMove(s))
          BY <3>4 DEF MoveTemp
        <4> QED BY <4>1, <4>2
      <3> QED BY <1>6, <3>1, <3>2, <3>3, <3>4
    <2>2. /\ savers'[s] = r
          /\ \A u \in Savers : u # s => savers'[u] = savers[u]
      BY <2>1, OneSaverMoves
    <2>3. sess' = sess /\ savers[s].pc # "ready"
      BY <1>6 DEF Marshal, OpenTemp, WriteTemp, MoveTemp
    <2> QED BY <2>1, <2>2, <2>3 DEF Up, Ready
  <1>7. ASSUME NEW s \in Savers, SaveFails(s) PROVE Standing'
    <2>1. savers'[s] = Ready /\ \A u \in Savers : u # s => savers'[u] = savers[u]
      BY <1>7, OneSaverMoves DEF SaveFails
    <2>2. Up'
      BY <1>7 DEF SaveFails, Contents, Up
    <2> QED BY <2>1, <2>2 DEF Ready
  <1>8. CASE UNCHANGED sessionVars
    BY <1>8 DEF sessionVars, Up
  <1> QED BY <1>1, <1>2, <1>3, <1>4, <1>5, <1>6, <1>7, <1>8 DEF SessionNext

-----------------------------------------------------------------------------
(* Saves that do not overlap *)

\* What every step of a session whose saves do not overlap starts from.
LEMMA OrderAtHand ==
    ASSUME SessionTypeOK, Standing, Orderly
    PROVE  /\ ~ Up => savers["run"].pc = "ready" /\ savers["rename"].pc = "ready"
           /\ savers["run"].pc = "ready" \/ savers["rename"].pc = "ready"
           /\ savers["run"].pc # "remove"
           /\ \A s \in Savers : InStep(s)
           /\ savers["rename"].pc = "ready" => HomeName = sess.id /\ ~ Renaming
           /\ Renaming => /\ HomeName = savers["rename"].old /\ HomeName # sess.id
                          /\ savers["run"].pc = "ready" /\ Up
           /\ Savers = {"run", "rename"}
  BY SessionAtHand DEF Orderly, Standing, Busy, HomeName, Renaming, RenameInStep, Savers

LEMMA PersistInOrder ==
    ASSUME SessionTypeOK, Standing, Orderly, PersistRun, ~ raced'
    PROVE  Orderly'
  <1> USE NoNameIsNoFile, SessionAtHand, OrderAtHand
  <1> DEFINE r == [Ready EXCEPT !.pc = "marshal"]
  <1>1. r \in SaverStates /\ r.pc = "marshal"
    BY DEF Ready, SaverStates
  <1>2. savers'["run"] = r /\ savers'["rename"] = savers["rename"]
    BY <1>1, OneSaverMoves DEF PersistRun, Savers
  <1>3. sess' \in Contents /\ sess'.id = sess.id /\ sess'.runs = sess.runs + 1
    <2>1. sess.runs + 1 \in 0 .. MaxRuns /\ sess \in Contents
      BY DEF PersistRun
    <2> QED BY <2>1 DEF PersistRun, Contents
  <1>4. savers["rename"].pc = "ready" /\ Up /\ UNCHANGED <<files, temps, durable>>
    BY DEF PersistRun
  <1> HIDE DEF r
  <1>5. (\A s \in Savers : InStep(s))' /\ RenameInStep'
    BY <1>1, <1>2, <1>4 DEF InStep, RenameInStep, Busy, Renaming
  <1>6. FilesInStep'
    <2>1. HomeName' = sess.id /\ HomeName = sess.id
      BY <1>2, <1>3, <1>4 DEF HomeName, Renaming
    <2>2. Parses(files[sess.id]) => files[sess.id].runs <= sess'.runs
      BY <1>3, <1>4, <2>1 DEF Orderly, FilesInStep, Parses
    <2> QED BY <1>3, <1>4, <2>1, <2>2 DEF Orderly, FilesInStep, Parses
  <1> QED BY <1>1, <1>2, <1>4, <1>5, <1>6 DEF Orderly, Busy

LEMMA RenameInOrder ==
    ASSUME SessionTypeOK, Standing, Orderly, NEW n \in Names, RenameTo(n), ~ raced'
    PROVE  Orderly'
  <1> USE NoNameIsNoFile, SessionAtHand, OrderAtHand
  <1> DEFINE r == [Ready EXCEPT !.pc = "marshal", !.old = sess.id]
  <1>1. r \in SaverStates /\ r.pc = "marshal" /\ r.old = sess.id
    BY DEF RenameTo, Ready, SaverStates
  <1>2. savers'["rename"] = r /\ savers'["run"] = savers["run"]
    BY <1>1, OneSaverMoves DEF RenameTo, Savers
  <1>3. sess' \in Contents /\ sess'.id = n /\ sess'.runs = sess.runs
    BY DEF RenameTo, Contents
  <1>4. /\ savers["run"].pc = "ready" /\ savers["rename"].pc = "ready" /\ Up
        /\ files[n] = Absent /\ n # sess.id /\ UNCHANGED <<files, temps, durable>>
    BY DEF RenameTo, MayRename
  <1> HIDE DEF r
  <1>5. (\A s \in Savers : InStep(s))' /\ RenameInStep'
    BY <1>1, <1>2, <1>3, <1>4 DEF InStep, RenameInStep, Busy, Renaming
  <1>6. FilesInStep'
    <2>1. HomeName' = sess.id /\ HomeName = sess.id
      BY <1>1, <1>2, <1>4 DEF HomeName, Renaming
    <2> QED BY <1>3, <1>4, <2>1 DEF Orderly, FilesInStep, Parses
  <1> QED BY <1>1, <1>2, <1>4, <1>5, <1>6 DEF Orderly, Busy

\* A process starts, or ends.
LEMMA ProcessesInOrder ==
    ASSUME SessionTypeOK, Standing, Orderly,
           Die \/ \E n \in Names : NewProcess(n) \/ Resume(n)
    PROVE  Orderly'
  <1> USE NoNameIsNoFile, SessionAtHand, OrderAtHand
  <1>1. \A s \in Savers : savers'[s].pc = "ready"
    <2>1. Ready.pc = "ready"
      BY DEF Ready
    <2> QED BY <2>1 DEF Die, NewProcess, Resume
  <1>2. (\A s \in Savers : InStep(s))' /\ RenameInStep'
    BY <1>1 DEF InStep, RenameInStep, Busy, Renaming
  <1>3. HomeName' = sess'.id /\ UNCHANGED <<files, durable>>
    BY <1>1 DEF HomeName, Renaming, Die, NewProcess, Resume
  <1>4. CASE Die
    <2>1. ~ Up'
      BY <1>4 DEF Die, Up
    <2> QED BY <1>1, <1>2, <1>3, <2>1 DEF Orderly, Busy, FilesInStep
  <1>5. ASSUME NEW n \in Names, NewProcess(n) PROVE Orderly'
    <2>1. sess'.id = n /\ ~ Parses(files[n]) /\ durable = 0
      BY <1>5 DEF NewProcess, Parses
    <2>2. FilesInStep'
      BY <1>3, <2>1 DEF Orderly, FilesInStep, Parses
    <2> QED BY <1>1, <1>2, <2>2 DEF Orderly, Busy
  <1>6. ASSUME NEW n \in Names, Resume(n) PROVE Orderly'
    <2>1. sess' = files[n] /\ sess'.id = n /\ Parses(files[n])
      BY <1>6 DEF Resume, Orderly, FilesInStep
    <2>2. files[n].runs <= files[n].runs
      BY <2>1 DEF Parses
    <2>3. FilesInStep'
      BY <1>3, <2>1, <2>2 DEF Orderly, FilesInStep, Parses
    <2> QED BY <1>1, <1>2, <2>3 DEF Orderly, Busy
  <1> QED BY <1>4, <1>5, <1>6

LEMMA RemoveInOrder ==
    ASSUME SessionTypeOK, Standing, Orderly, RemoveOld
    PROVE  Orderly'
  <1> USE NoNameIsNoFile, SessionAtHand, OrderAtHand
  <1> DEFINE old == savers["rename"].old
  <1>1. /\ savers'["rename"] = Ready /\ savers'["run"] = savers["run"]
        /\ savers["run"].pc = "ready" /\ Ready.pc = "ready"
        /\ UNCHANGED <<sess, temps, durable>>
    BY OneSaverMoves DEF RemoveOld, Ready, Savers
  <1>2. /\ files[sess.id] = sess /\ Up /\ old # sess.id /\ old \in Names
        /\ Parses(files[old]) => files[old].runs <= sess.runs
    BY DEF RemoveOld, Orderly, RenameInStep, Standing, Busy
  <1>3. (\A s \in Savers : InStep(s))' /\ RenameInStep'
    BY <1>1 DEF InStep, RenameInStep, Busy, Renaming
  <1>4. HomeName' = sess.id
    BY <1>1 DEF HomeName, Renaming
  <1>5. /\ \A n \in Names : n # old => files'[n] = files[n]
        /\ files'[old] \in {files[old], Absent}
    BY <1>2 DEF RemoveOld
  <1>6. files'[sess.id] = sess /\ Parses(files'[sess.id])
    BY <1>2, <1>5 DEF Parses
  <1>7. \A n \in Names : Parses(files'[n]) => files'[n] = files[n]
    BY <1>5 DEF Parses
  <1>8. ASSUME durable > 0
        PROVE  \E n \in Names : Parses(files'[n]) /\ files'[n].runs >= durable
    <2>1. PICK n \in Names : Parses(files[n]) /\ files[n].runs >= durable
      BY <1>8 DEF Orderly, FilesInStep
    <2>2. CASE n = old
      <3>1. sess.runs >= durable
        BY <1>2, <2>1, <2>2 DEF Parses
      <3> QED BY <1>2, <1>6, <3>1
    <2>3. CASE n # old
      BY <1>5, <2>1, <2>3
    <2> QED BY <2>2, <2>3
  <1>9. FilesInStep'
    <2>1. \A n \in Names : Parses(files[n]) => files[n].id = n
      BY DEF Orderly, FilesInStep
    <2>2. files'[sess.id].runs <= sess.runs
      BY <1>2, <1>6
    <2> QED BY <1>1, <1>4, <1>6, <1>7, <1>8, <2>1, <2>2 DEF FilesInStep, Parses
  <1> QED BY <1>1, <1>3, <1>9 DEF Orderly, Busy

\* A save goes on: it has the session's data, then its name, then the whole temp file.
LEMMA WritingInOrder ==
    ASSUME SessionTypeOK, Standing, Orderly, NEW s \in Savers,
           Marshal(s) \/ OpenTemp(s) \/ WriteTemp(s)
    PROVE  Orderly'
  <1> USE NoNameIsNoFile, SessionAtHand, OrderAtHand
  <1>1. /\ Up /\ savers[s].pc \in {"marshal", "open", "write"}
        /\ \A u \in Savers : u # s => savers[u].pc = "ready"
        /\ UNCHANGED <<sess, durable, raced>>
    BY DEF Marshal, OpenTemp, WriteTemp
  <1>2. /\ files' = files
        /\ savers'[s].pc \in {"open", "write", "move"} /\ savers'[s].old = savers[s].old
        /\ savers'[s].data = sess
        /\ savers'[s].pc \in {"write", "move"} => savers'[s].name = sess.id
        /\ savers'[s].pc = "write" => temps'[sess.id] # Absent
        /\ savers'[s].pc = "move" => temps'[sess.id] = sess
        /\ \A u \in Savers : u # s => savers'[u] = savers[u]
    <2>1. CASE Marshal(s)
      <3> DEFINE m == [savers[s] EXCEPT !.pc = "open", !.data = sess]
      <3>1. m \in SaverStates /\ m.pc = "open" /\ m.old = savers[s].old /\ m.data = sess
        BY DEF SaverStates, SessionTypeOK
      <3>2. savers'[s] = m /\ \A u \in Savers : u # s => savers'[u] = savers[u]
        BY <2>1, <3>1, OneSaverMoves DEF Marshal
      <3> QED BY <2>1, <3>1, <3>2 DEF Marshal
    <2>2. CASE OpenTemp(s)
      <3> DEFINE m == [savers[s] EXCEPT !.pc = "write", !.name = sess.id]
      <3>1. /\ m \in SaverStates /\ m.pc = "write" /\ m.old = savers[s].old
            /\ m.data = savers[s].data /\ m.name = sess.id
        BY <1>1 DEF SaverStates
      <3>2. savers'[s] = m /\ \A u \in Savers : u # s => savers'[u] = savers[u]
        BY <2>2, <3>1, OneSaverMoves DEF OpenTemp
      <3>3. savers[s].data = sess
        BY <2>2 DEF OpenTemp, InStep
      <3>4. temps'[sess.id] = Garbled
        BY <1>1, <2>2 DEF OpenTemp
      <3> QED BY <2>2, <3>1, <3>2, <3>3, <3>4 DEF OpenTemp
    <2>3. CASE WriteTemp(s)
      <3> DEFINE m == [savers[s] EXCEPT !.pc = "move"]
      <3>1. /\ m \in SaverStates /\ m.pc = "move" /\ m.old = savers[s].old
            /\ m.data = savers[s].data /\ m.name = savers[s].name
        BY DEF SaverStates
      <3>2. savers'[s] = m /\ \A u \in Savers : u # s => savers'[u] = savers[u]
        BY <2>3, <3>1, OneSaverMoves DEF WriteTemp
      <3>3. savers[s].data = sess /\ savers[s].name = sess.id /\ temps[sess.id] # Absent
        BY <2>3 DEF WriteTemp, InStep
      <3>4. temps'[sess.id] = sess /\ files' = files
        BY <1>1, <2>3, <3>3 DEF WriteTemp
      <3> QED BY <3>1, <3>2, <3>3, <3>4
    <2> QED BY <2>1, <2>2, <2>3
  <1>3. (\A u \in Savers : InStep(u))'
    BY <1>1, <1>2 DEF InStep
  <1>4. Renaming' = Renaming /\ HomeName' = HomeName
    BY <1>1, <1>2 DEF Renaming, HomeName
  <1>5. RenameInStep'
    BY <1>1, <1>2, <1>4 DEF Orderly, RenameInStep, Busy
  <1>6. FilesInStep'
    BY <1>1, <1>2, <1>4 DEF Orderly, FilesInStep, Up, Parses
  <1>7. (~ Busy("run") \/ ~ Busy("rename"))' /\ savers'["run"].pc # "remove"
    BY <1>1, <1>2 DEF Busy
  <1> QED BY <1>3, <1>5, <1>6, <1>7 DEF Orderly

\* The new file is whole when it comes into place.
LEMMA MoveInOrder ==
    ASSUME SessionTypeOK, Standing, Orderly, NEW s \in Savers, MoveTemp(s)
    PROVE  Orderly'
  <1> USE NoNameIsNoFile, SessionAtHand, OrderAtHand
  <1>1. /\ Up /\ savers[s].pc = "move" /\ savers[s].data = sess
        /\ savers[s].name = sess.id /\ temps[sess.id] = sess
        /\ \A u \in Savers : u # s => savers[u].pc = "ready"
        /\ UNCHANGED <<sess, raced>>
    BY DEF MoveTemp, InStep
  <1>2. /\ files'[sess.id] = sess /\ Parses(files'[sess.id])
        /\ \A n \in Names : n # sess.id => files'[n] = files[n]
    BY <1>1 DEF MoveTemp, Parses
  <1>3. \A n \in Names : Parses(files'[n]) => files'[n].id = n
    BY <1>1, <1>2 DEF Orderly, FilesInStep
  <1>4. sess.runs <= sess.runs /\ sess.runs >= sess.runs
    BY <1>1
  <1>5. CASE s = "run"
    <2>1. AfterMove(s) = Ready /\ Ready.pc = "ready"
      BY <1>5 DEF AfterMove, Ready
    <2>2. \A u \in Savers : savers'[u].pc = "ready"
      BY <1>1, <2>1, OneSaverMoves DEF MoveTemp
    <2>3. durable' = sess.runs
      BY <1>1, <1>5 DEF MoveTemp
    <2>4. HomeName' = sess.id
      BY <1>1, <2>2 DEF HomeName, Renaming
    <2>5. FilesInStep'
      BY <1>1, <1>2, <1>3, <1>4, <2>3, <2>4 DEF FilesInStep, Up, Parses
    <2> QED BY <2>2, <2>5 DEF Orderly, InStep, RenameInStep, Renaming, Busy
  <1>6. CASE s = "rename"
    <2> DEFINE m == [savers[s] EXCEPT !.pc = "remove"]
               old == savers[s].old
    <2>1. /\ m \in SaverStates /\ m.pc = "remove" /\ m.old = old
          /\ m.data = sess /\ m.name = sess.id /\ AfterMove(s) = m
      BY <1>1, <1>6 DEF AfterMove, SaverStates
    <2>2. savers'["rename"] = m /\ savers'["run"] = savers["run"] /\ savers["run"].pc = "ready"
      BY <1>1, <1>6, <2>1, OneSaverMoves DEF MoveTemp
    <2>3. durable' = durable
      BY <1>6 DEF MoveTemp
    <2>4. /\ HomeName = old /\ files[sess.id] = Absent /\ old # sess.id /\ old \in Names
      BY <1>1, <1>6 DEF HomeName, Renaming, Orderly, RenameInStep, Busy, Standing
    <2>5. HomeName' = sess.id
      BY <1>1, <2>1, <2>2 DEF HomeName, Renaming
    <2>6. Parses(files'[old]) => files'[old].runs <= sess.runs
      BY <1>1, <1>2, <2>4 DEF Orderly, FilesInStep
    <2>7. durable > 0 => \E n \in Names : Parses(files'[n]) /\ files'[n].runs >= durable
      <3>1. \A n \in Names : Parses(files[n]) => files'[n] = files[n]
        BY <1>2, <2>4 DEF Parses
      <3> QED BY <3>1 DEF Orderly, FilesInStep
    <2>8. FilesInStep'
      BY <1>1, <1>2, <1>3, <1>4, <2>3, <2>5, <2>7 DEF FilesInStep, Up, Parses
    <2>9. RenameInStep'
      BY <1>1, <1>2, <2>1, <2>2, <2>4, <2>6 DEF RenameInStep, Renaming, Busy, Parses
    <2>10. (\A u \in Savers : InStep(u))'
      <3> HIDE DEF m
      <3>1. InStep("run")' /\ InStep("rename")'
        BY <1>1, <2>1, <2>2 DEF InStep
      <3> QED BY <3>1
    <2> QED BY <2>1, <2>2, <2>8, <2>9, <2>10 DEF Orderly, Busy
  <1> QED BY <1>5, <1>6

\* A save that fails leaves the files; a rename takes the old name back.
LEMMA FailsInOrder ==
    ASSUME SessionTypeOK, Standing, Orderly, NEW s \in Savers, SaveFails(s)
    PROVE  Orderly'
  <1> USE NoNameIsNoFile, SessionAtHand, OrderAtHand
  <1>1. /\ Up /\ savers[s].pc \in {"open", "write", "move"}
        /\ \A u \in Savers : u # s => savers[u].pc = "ready"
        /\ UNCHANGED <<files, temps, durable, raced>>
    BY DEF SaveFails
  <1>2. \A u \in Savers : savers'[u].pc = "ready"
    <2>1. Ready.pc = "ready"
      BY DEF Ready
    <2> QED BY <1>1, <2>1, OneSaverMoves DEF SaveFails
  <1>3. HomeName' = sess'.id
    BY <1>2 DEF HomeName, Renaming
  <1>4. sess' \in Contents /\ sess'.id = HomeName /\ sess'.runs = sess.runs
    <2>1. CASE s = "run"
      BY <1>1, <2>1 DEF SaveFails
    <2>2. CASE s = "rename"
      <3>1. savers[s].old \in Names /\ HomeName = savers[s].old
        BY <1>1, <2>2 DEF HomeName, Renaming, Standing, Busy
      <3>2. sess' = [sess EXCEPT !.id = savers[s].old]
        BY <2>2 DEF SaveFails
      <3> QED BY <1>1, <3>1, <3>2 DEF Contents
    <2> QED BY <2>1, <2>2
  <1>5. FilesInStep'
    BY <1>1, <1>3, <1>4 DEF Orderly, FilesInStep, Up, Parses
  <1> QED BY <1>2, <1>5 DEF Orderly, InStep, RenameInStep, Renaming, Busy

-----------------------------------------------------------------------------
(* What follows *)

LEMMA InvariantOfSessions == SessionSpec => []SessionInv
  <1>1. SessionInit => SessionInv
    <2> SUFFICES ASSUME SessionInit PROVE SessionInv
      OBVIOUS
    <2>1. SessionTypeOK
      <3>1. Ready \in SaverStates
        BY DEF Ready, SaverStates
      <3>2. savers \in [Savers -> SaverStates]
        BY <3>1 DEF SessionInit
      <3>3. 0 \in 0 .. MaxRuns
        BY NoNameIsNoFile
      <3> QED BY <3>2, <3>3 DEF SessionInit, SessionTypeOK, SaverStates
    <2>2. \A s \in Savers : savers[s].pc = "ready"
      BY DEF SessionInit, Ready
    <2>3. durable = 0 /\ ~ Up /\ \A n \in Names : ~ Parses(files[n])
      BY NoNameIsNoFile DEF SessionInit, Up, Parses
    <2>4. Standing /\ Orderly
      BY <2>2, <2>3 DEF Standing, Orderly, Busy, InStep, RenameInStep, Renaming,
         FilesInStep, Savers
    <2> QED BY <2>1, <2>4 DEF SessionInv
  <1>2. SessionInv /\ [SessionNext]_sessionVars => SessionInv'
    <2> SUFFICES ASSUME SessionInv, [SessionNext]_sessionVars PROVE SessionInv'
      OBVIOUS
    <2>1. SessionTypeOK' /\ Standing'
      BY SessionsAreTyped, StandingStays DEF SessionInv
    <2>2. ASSUME ~ raced' PROVE Orderly'
      <3>1. SessionTypeOK /\ Standing /\ Orderly
        <4>1. ~ raced
          BY <2>2 DEF SessionInv, SessionTypeOK, SessionNext, sessionVars, PersistRun,
             RemoveOld, Die, RenameTo, NewProcess, Resume, Marshal, OpenTemp, WriteTemp,
             MoveTemp, SaveFails
        <4> QED BY <4>1 DEF SessionInv
      <3>2. CASE UNCHANGED sessionVars
        BY <3>1, <3>2 DEF sessionVars, Orderly, InStep, RenameInStep, FilesInStep,
           Renaming, Busy, HomeName, Up, Parses
      <3>3. CASE SessionNext
        BY <2>2, <3>1, <3>3, PersistInOrder, RenameInOrder, ProcessesInOrder, RemoveInOrder,
           WritingInOrder, MoveInOrder, FailsInOrder DEF SessionNext
      <3> QED BY <3>2, <3>3
    <2> QED BY <2>1, <2>2 DEF SessionInv
  <1> QED BY <1>1, <1>2, PTL DEF SessionSpec

\* Whatever step of a save or of a rename fails, or the process dies at, some file
\* can be resumed that holds every run a save had reported done, and at rest the id
\* in use is one that resumes: for any number of sessions, runs and restarts
\* (store.go Save, loop_bridge.go persist and RenameSession).
THEOREM NoSavedRunIsLost == SessionSpec => []NothingSavedIsLost
  <1>1. SessionInv => NothingSavedIsLost
    <2> SUFFICES ASSUME SessionInv, ~ raced PROVE NothingSavedIsLost
      BY DEF NothingSavedIsLost
    <2>1. Orderly /\ "rename" \in Savers
      BY DEF SessionInv, Savers
    <2>2. savers["rename"].pc = "ready" => HomeName = sess.id
      BY DEF HomeName, Renaming
    <2> QED BY <2>1, <2>2 DEF Orderly, FilesInStep, NothingSavedIsLost
  <1> QED BY <1>1, InvariantOfSessions, PTL
=============================================================================
