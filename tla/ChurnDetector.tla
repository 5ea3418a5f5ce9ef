---------------------------- MODULE ChurnDetector ----------------------------
(***************************************************************************)
(* The churn detector (internal/agent/churn.go): operators on the state of *)
(* a churnDetector, used by AgentLoop, which owns that state.              *)
(*                                                                         *)
(* A turn is what the loop feeds it: the failing verify output (Blank when *)
(* the verify passed or gave no signal), the edit attempted (NoEdit for    *)
(* any other call), and whether the turn acted, only read, or skipped the  *)
(* verify.  Outputs and edits are compared after normalizeChurn has        *)
(* stripped durations, temporary paths and hashes: two values are equal    *)
(* here when their normal forms are.                                       *)
(***************************************************************************)
EXTENDS Naturals

CONSTANTS
    ChurnRounds,  \* n: how many repeats in a row are churn
    Outputs,      \* normalised failing outputs
    Blank,        \* no failing output
    EditSigs,     \* normalised edit signatures
    NoEdit        \* a turn without an edit

ASSUME ChurnAssumption ==
    /\ ChurnRounds \in Nat \ {0}
    /\ Blank \notin Outputs /\ NoEdit \notin EditSigs

Turns == [output : Outputs \cup {Blank}, edit : EditSigs \cup {NoEdit},
          acted : BOOLEAN, readOnly : BOOLEAN, skipped : BOOLEAN]

Detectors == [lastFail : Outputs \cup {Blank}, failCount : Nat,
              lastEdit : EditSigs \cup {NoEdit}, editCount : Nat,
              everActed : BOOLEAN]

Fresh == [lastFail |-> Blank, failCount |-> 0, lastEdit |-> NoEdit,
          editCount |-> 0, everActed |-> FALSE]

\* A different edit is progress: it restarts the edit streak and, in AfterFail,
\* the failure streak.
DistinctEdit(c, t) == t.edit \notin {NoEdit, c.lastEdit}

ActedBy(c, t) == c.everActed \/ t.acted \/ t.edit # NoEdit

EditStreakOfTurns(c, t) ==             \* bug: a turn without an edit breaks it
    IF t.edit = NoEdit THEN 0
    ELSE IF DistinctEdit(c, t) THEN 1 ELSE c.editCount + 1
EditStreak(c, t) ==
    IF t.edit = NoEdit THEN c.editCount
    ELSE IF DistinctEdit(c, t) THEN 1 ELSE c.editCount + 1


FailStreakDecays(c, t) ==              \* bug: a pass takes one off the streak
    IF t.output = Blank THEN c.failCount - 1
    ELSE IF t.output = c.lastFail THEN c.failCount + 1 ELSE 1

\* The order of these cases is the order of the switch in Observe: a skipped
\* verify is neutral even though its output is blank.
FailStreak(c, t) ==
    CASE t.skipped                    -> c.failCount
      [] ~ t.skipped /\ t.output = Blank -> 0
      [] ~ t.skipped /\ t.output # Blank ->
            IF ~ ActedBy(c, t) THEN 0
            ELSE IF t.readOnly THEN c.failCount
            ELSE IF DistinctEdit(c, t) THEN 0
            ELSE IF t.output = c.lastFail THEN c.failCount + 1 ELSE 1

RememberedFail(c, t) ==
    IF \/ t.skipped
       \/ t.output # Blank /\ ActedBy(c, t) /\ t.readOnly
    THEN c.lastFail ELSE t.output

Observe(c, t) ==
    [lastFail  |-> RememberedFail(c, t),
     failCount |-> FailStreak(c, t),
     lastEdit  |-> IF t.edit = NoEdit THEN c.lastEdit ELSE t.edit,
     editCount |-> EditStreak(c, t),
     everActed |-> ActedBy(c, t)]

RepeatedFailure(c) == c.failCount >= ChurnRounds
RepeatedEdit(c)    == c.editCount >= ChurnRounds

\* Check
Churned(c) == RepeatedFailure(c) \/ RepeatedEdit(c)
=============================================================================
