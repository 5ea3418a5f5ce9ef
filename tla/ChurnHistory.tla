---------------------------- MODULE ChurnHistory ----------------------------
(***************************************************************************)
(* The churn detector against the history it summarises.  The detector     *)
(* keeps five fields; `history` keeps every turn since the last Reset, and *)
(* the streaks are defined on it from scratch.                             *)
(***************************************************************************)
EXTENDS ChurnDetector, Sequences, FiniteSetsExt

CONSTANT MaxChurnTurns   \* bound: turns between two resets
ASSUME MaxChurnTurnsAssumption == MaxChurnTurns \in Nat

VARIABLES churn, history
churnVars == <<churn, history>>

\* The turns the loop can produce: an edit is neither a command nor a read, a
\* command that acts is not read-only, and a skipped verify has no output.
LoopTurns ==
    {t \in Turns : /\ t.edit # NoEdit => ~ t.acted /\ ~ t.readOnly
                   /\ t.acted => ~ t.readOnly
                   /\ t.skipped => t.output = Blank}

ChurnInit == churn = Fresh /\ history = <<>>

ObserveTurn(t) ==
    /\ Len(history) < MaxChurnTurns
    /\ churn' = Observe(churn, t)
    /\ history' = Append(history, t)

\* Reset: the start of a run, or a rescue from the rail.
Reset == Churned(churn) /\ churn' = Fresh /\ history' = <<>>

ChurnNext == Reset \/ \E t \in LoopTurns : ObserveTurn(t)
ChurnSpec == ChurnInit /\ [][ChurnNext]_churnVars

-----------------------------------------------------------------------------
\* Every part of the state has its type.
ChurnTypeOK == churn \in Detectors /\ history \in Seq(LoopTurns)

\* How many of these turns agree with the last of them, none of the others between.
Streak(turns, of) == Cardinality({i \in turns : \A j \in turns : j >= i => of[j] = of[i]})

EditsBefore(i) == {j \in 1 .. (i - 1) : history[j].edit # NoEdit}

\* The edit streak is the number of edits in a row, whatever was read, run or
\* verified between them, that were the same edit (churn.go Observe, Check).
EditStreakExact ==
    churn.editCount = Streak(EditsBefore(Len(history) + 1), [i \in DOMAIN history |-> history[i].edit])

Acting(i) == \E j \in 1 .. i : history[j].acted \/ history[j].edit # NoEdit
NewEdit(i) ==
    /\ history[i].edit # NoEdit
    /\ EditsBefore(i) = {} \/ history[Max(EditsBefore(i))].edit # history[i].edit

\* A turn ends the failure streak when its verify ran and passed, or ran before
\* anything was done, or judged an edit that had not just been tried.
Restarts(i) ==
    /\ ~ history[i].skipped
    /\ \/ history[i].output = Blank
       \/ ~ Acting(i)
       \/ NewEdit(i)

\* A turn counts when its verify ran and failed after something was done, on a
\* turn that was not exploration.
Counts(i) ==
    /\ ~ history[i].skipped /\ ~ history[i].readOnly
    /\ ~ Restarts(i)

LastRestart == Max({0} \cup {i \in DOMAIN history : Restarts(i)})
CountedTurns == {i \in DOMAIN history : i > LastRestart /\ Counts(i)}

\* The failure streak is the number of counted verifies in a row, since the
\* last progress, that failed the same way: reads and skipped verifies neither
\* count nor reset it (churn.go Observe).
FailStreakExact ==
    churn.failCount = Streak(CountedTurns, [i \in DOMAIN history |-> history[i].output])

\* A run that has only looked at its project is never churn, however often the
\* project's own red verify is seen (churn.go, "the project's BASELINE").
ReadersNeverChurn == Churned(churn) => Acting(Len(history))

\* The five fields say of the history what they are meant to say.
ChurnExact == EditStreakExact /\ FailStreakExact /\ ReadersNeverChurn
=============================================================================
