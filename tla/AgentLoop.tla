------------------------------ MODULE AgentLoop ------------------------------
(***************************************************************************)
(* The agent loop: Loop.Run of internal/agent/loop.go as a state machine.  *)
(*                                                                         *)
(* A run is a sequence of turns.  A turn asks the model for one tool call, *)
(* dispatches it, verifies the tree if the call may have changed it, feeds *)
(* the rails (the counters that notice a run going nowhere) and decides    *)
(* whether to go on.  Every way out goes through finish, which settles the *)
(* reason and the rollback.                                                *)
(*                                                                         *)
(* The model, the tools, the verifier and the user are the environment:    *)
(* the model may answer anything at any turn, a tool may succeed or fail   *)
(* in each way the loop tells apart, a verify may give any verdict, and    *)
(* the user may cancel at any moment.  One Loop serves run after run, so   *)
(* its fields (`loop`) outlive a run and everything else starts afresh.    *)
(*                                                                         *)
(* The environment switches are at their defaults: the seven convergence   *)
(* rails are on, the experiments (churn escalation, no-op refusal, smart   *)
(* churn, delegate on stop, delegate until edit) are off.  A child of a     *)
(* delegation is what it does to the parent: it may change the tree, and   *)
(* it answers or fails.                                                    *)
(***************************************************************************)
EXTENDS Naturals, Sequences, FiniteSets

CONSTANTS
    Moves,        \* the tool calls the model makes: [tool, path, arg]
    Paths,        \* files an edit may name
    SpecPaths,    \* files the verify command names (protectedByVerify)
    Reds,         \* verdicts of a failing verify: [kind, tests]; kind is
                  \* "red", "broken" (the build) or "missing" (exit 126, 127)
    \* configuration
    HasVerifier, HasGate, Watched, ChangeTask,
    ScopeActive,   \* a write scope: edits may be denied, the shell is withheld
                   \* and the run takes a verify baseline
    StopOnScope, StopOnVerify, CanDelegate, DelegateAfterReads, MaxHandoffs,
    \* limits
    MaxSteps, ChurnRounds, EditFailLimit, RepeatNudge, RepeatAbort,
    ExploreNudge, ExploreAbort, ExploreCap, SatWindow,
    SatMin,       \* exploreSaturationMin, in percent
    StallLimit,
    PromiseLimit, MaxEmptyTurns, MaxRescues, MaxShrinks, EditOnlyBudget,
    \* bound: how many runs one Loop serves
    MaxRuns

NoPath == "none"
NoMove == [tool |-> "none", path |-> NoPath, arg |-> "none"]

Tools == {"edit", "read", "inspect", "command", "other", "task", "finish"}

ASSUME AgentLoopAssumption ==
    /\ NoPath \notin Paths /\ SpecPaths \subseteq Paths
    /\ \A m \in Moves : /\ m.tool \in Tools
                        /\ m.path \in Paths \cup {NoPath}
                        /\ m.tool = "edit" => m.path \in Paths
    /\ NoMove \notin Moves
    /\ \A v \in Reds : v.kind \in {"red", "broken", "missing"}
    /\ \A b \in {HasVerifier, HasGate, Watched, ChangeTask, ScopeActive,
                 StopOnScope, CanDelegate} : b \in BOOLEAN
    /\ \A n \in {StopOnVerify, DelegateAfterReads, MaxHandoffs, MaxSteps,
                 SatWindow, SatMin, PromiseLimit, MaxEmptyTurns, MaxRescues,
                 MaxShrinks, EditOnlyBudget, MaxRuns} : n \in Nat
    /\ \A n \in {ChurnRounds, EditFailLimit, RepeatNudge, RepeatAbort,
                 ExploreNudge, ExploreAbort, ExploreCap, StallLimit} :
          n \in Nat \ {0}

VARIABLES
    pc,         \* where Run is
    reason,     \* the reason passed to finish
    cancelled,  \* ctx.Err() # nil
    report,     \* what finish reported, or NoReport
    runs,       \* runs started
    step,       \* step: the turns charged to the budget
    turns,      \* ghost: the turns taken
    call,       \* the call of this turn
    outcome,    \* how the last dispatched call went
    last,       \* lastVerify
    dirty,      \* mutatedSinceVerify
    sameRed,    \* baselineEqual
    baseline,   \* the verify baseline
    edited,     \* edited: an edit call went through
    snapped,    \* snap.Taken
    nudged,     \* the one-shot latches that are set, triedCkpt among them
    rails,      \* the counters of the rails
    repeat,     \* the repetition rail
    explore,    \* the exploration rail
    seen,       \* seenTargets
    churn,      \* the churn detector
    loop,       \* fields of Loop that outlive a run
    tree        \* ghost: what happened to the working tree

C == INSTANCE ChurnDetector WITH
        Outputs <- Reds, Blank <- NoMove, EditSigs <- Moves, NoEdit <- NoMove

control  == <<cancelled, report, runs>>
clock    == <<step, turns>>
action   == <<call, outcome>>
evidence == <<last, dirty, sameRed, baseline, edited, snapped>>
counters == <<nudged, rails, repeat, explore, seen, churn>>
world    == <<loop, tree>>
vars == <<pc, reason, control, clock, action, evidence, counters, world>>

-----------------------------------------------------------------------------
(* Verdicts and the baseline *)

NoVerdict == [kind |-> "none", tests |-> {}]  \* the zero value: never verified
Green     == [kind |-> "green", tests |-> {}]
CannotRun == [kind |-> "error", tests |-> {}] \* the verify command did not run
Verdicts  == Reds \cup {Green, CannotRun}

Passed(v) == v.kind = "green"
BuildBroken(v) == v.kind = "broken"

\* What a verify started now may answer: nothing else once the context is done.
Answers == IF cancelled THEN {CannotRun} ELSE Verdicts

NoBaseline == [state |-> "none", kind |-> "none", excused |-> {},
               unreachable |-> FALSE]

\* takeVerifyBaseline, from the verdict v; whether every file a red implicates
\* is one the scope denies is up to the project.
Baseline(v, unreachable) ==
    IF v.kind \in {"error", "missing"}
    THEN [NoBaseline EXCEPT !.state = "skipped"]
    ELSE [state |-> "taken", kind |-> v.kind, excused |-> v.tests,
          unreachable |-> unreachable /\ v \in Reds]

BaselineAlwaysDue == HasVerifier /\ ScopeActive        \* bug: taken at every edit
\* ensureBaseline: at most once, whatever it answered.
BaselineDue == baseline.state = "none" /\ HasVerifier /\ ScopeActive

BaselinesAfter(due) ==
    IF due THEN {Baseline(v, u) : v \in Answers, u \in BOOLEAN} ELSE {baseline}

\* unchangedSince: a red with no failing test the baseline did not have.
UnchangedSince(b, v) ==
    /\ b.state = "taken" /\ b.kind # "green"
    /\ v \in Reds
    /\ IF v.tests # {} \/ b.excused # {} THEN v.tests \subseteq b.excused
                                         ELSE v.kind = b.kind

RetireNamed(b, v) ==                  \* bug: a green verify names no passing test
    IF b.state = "taken" /\ v.tests # {}
    THEN [b EXCEPT !.excused = @ \cap v.tests] ELSE b
\* retire: what passes now is excused no longer; a red that names no test says
\* nothing about any.
Retire(b, v) ==
    CASE b.state = "taken" /\ Passed(v)       -> [b EXCEPT !.excused = {}]
      [] b.state = "taken" /\ v.tests # {}    -> [b EXCEPT !.excused = @ \cap v.tests]
      [] OTHER                                -> b

OutOfReach(b, v) == b.unreachable /\ UnchangedSince(b, v)

\* A corrective may rely on the baseline alone while nothing has verified.
OutOfReachForCorrective(b, v) ==
    /\ b.unreachable
    /\ v = NoVerdict \/ UnchangedSince(b, v)

-----------------------------------------------------------------------------
(* Calls and their outcomes *)

IsEdit(m) == m.tool = "edit"
IsReadTool(m) == m.tool = "read"                       \* isReadOnlyTool
ReadOnlyTurn(m) == m.tool \in {"read", "inspect"}      \* readOnlyTurn

\* The outcomes the loop tells apart, and those of each tool.  "landed" changed
\* the file, "noop" left it as it was; "anchor" is a SEARCH not in the file;
\* "scope" is a denial by the write policy (of the shell, when it is withheld);
\* "refused" never reached the tool;
\* "partial" is a tool that failed after it had changed something: a rename that
\* could not write its next file, a command whose pipes outlive it (WaitDelay).
Outcomes(m) ==
    CASE m.tool = "edit"    -> {"landed", "noop", "anchor", "failed", "refused"}
                               \cup (IF ScopeActive THEN {"scope"} ELSE {})
      [] m.tool = "read"    -> {"ok", "failed"}
      [] m.tool \in {"inspect", "command"} /\ ScopeActive -> {"scope"}
      [] m.tool = "inspect" /\ ~ ScopeActive -> {"ok", "exit", "failed"}
      [] m.tool = "command" /\ ~ ScopeActive -> {"ok", "exit", "timeout", "failed",
                                                 "partial"}
      [] m.tool = "other"   -> {"ok", "failed", "partial"}
      [] m.tool = "task"    -> {"ok", "failed"}
      [] OTHER              -> {}

Errored(o) == o \notin {"none", "landed", "noop", "ok", "exit"}   \* derr # nil
ActionFailed(o) == Errored(o) \/ o = "exit"                     \* lastActionFailed
MutatedIfOk(m, o) == ~ ReadOnlyTurn(m) /\ ~ Errored(o)  \* bug: killed, so undone
Mutated(m, o) == ~ ReadOnlyTurn(m) /\ (~ Errored(o) \/ o = "timeout")
EditWent(m, o) == IsEdit(m) /\ ~ Errored(o)

\* Whether the call really changed the tree: for some only the project knows.
Changes(m, o) ==
    CASE o \in {"landed", "partial"} -> {TRUE}
      [] m.tool \in {"command", "task", "other"} /\ o \in {"ok", "exit", "timeout"} ->
            BOOLEAN
      [] OTHER -> {FALSE}

\* exploreSignature: the tool and the first target argument it has.
Target(m) == <<m.tool, IF m.path # NoPath THEN m.path ELSE m.arg>>
CoversNewGround(m) == Target(m)[2] # NoPath /\ Target(m) \notin seen

\* protectedByVerify
Protected(m) ==
    IsEdit(m) /\ m.path \in (SpecPaths \cap tree.onDisk) \ loop.created

\* The one re-read the edit-only rail allows (reanchorRead).
Reanchors(m) == m.tool = "read" /\ m.path # NoPath /\ m.path = loop.reanchor

OldGround(m) == loop.editOnly > 0 /\ ~ IsEdit(m) /\ ~ CoversNewGround(m)

-----------------------------------------------------------------------------
(* Control *)

Goto(l) == pc' = l /\ UNCHANGED reason
Stop(r) == pc' = "stop" /\ reason' = r

FreshRails == [promises |-> 0, empties |-> 0, rescues |-> 0, editFails |-> 0,
               handoffs |-> 0, stall |-> 0, seeded |-> FALSE, acted |-> FALSE,
               verified |-> FALSE, lastRed |-> NoVerdict, sameReds |-> 0]
FreshRepeat  == [key |-> NoMove, streak |-> 0, nudged |-> FALSE]
FreshExplore == [streak |-> 0, total |-> 0, nudgedAt |-> 0, nudges |-> 0,
                 sinceEdit |-> 0, window |-> <<>>, saturated |-> FALSE,
                 fresh |-> FALSE]
FreshLoop == [editOnly |-> 0, impossible |-> FALSE, reanchor |-> NoPath,
              created |-> {}, shrinks |-> 0]
NoReport == [reason |-> "none", rolledBack |-> FALSE, tolerated |-> FALSE]

(* tree.onDisk: the files there are; tree.given: those that have been there *)
(* since the run started; tree.stale: changed since the last verify, by a call that  *)
(* did not fail; tree.partial: by one that did; tree.handed: no edit and no *)
(* command of this run changed it; tree.pristine: it was so when the        *)
(* baseline was taken; tree.moved: changed since the stall backstop looked; *)
(* tree.specEdited: one of `given` the verify names, by an edit;            *)
(* tree.cured: the tests a verify of the gate or of finish has seen passing *)
(* since the baseline was taken; tree.glimpsed: those the verify at an      *)
(* explore nudge has;                                                       *)
(* tree.judged: a verify of this run has answered.                          *)
FreshTree(onDisk) ==
    [onDisk |-> onDisk, given |-> onDisk, stale |-> FALSE, partial |-> FALSE,
     handed |-> TRUE, pristine |-> TRUE, moved |-> FALSE, specEdited |-> FALSE,
     cured |-> {}, glimpsed |-> {}, judged |-> FALSE]

Tests == UNION {v.tests : v \in Reds}
PassingIn(v) ==
    IF v = CannotRun \/ baseline.state # "taken" THEN {}
    ELSE IF Passed(v) THEN Tests ELSE IF v.tests # {} THEN Tests \ v.tests ELSE {}
Verified(t, v) ==
    IF v = CannotRun THEN t
    ELSE [t EXCEPT !.stale = FALSE, !.partial = FALSE, !.judged = TRUE]
AfterVerify(t, v)  == [Verified(t, v) EXCEPT !.cured = @ \cup PassingIn(v)]
AfterGlimpse(t, v) == [Verified(t, v) EXCEPT !.glimpsed = @ \cup PassingIn(v)]

\* A child may change the tree; it runs the edit tools and commands itself.
AfterChild ==
    {tree} \cup {[tree EXCEPT !.stale = TRUE, !.moved = TRUE, !.onDisk = d,
                             !.given = @ \cap d] : d \in SUBSET Paths}

CanRescue == Watched /\ rails.rescues < MaxRescues
Rescued(r) == [r EXCEPT !.rescues = @ + 1]

Init ==
    /\ pc = "idle" /\ cancelled = FALSE /\ reason = "none"
    /\ report = NoReport /\ runs = 0
    /\ step = 0 /\ turns = 0 /\ call = NoMove /\ outcome = "none"
    /\ last = NoVerdict /\ dirty = FALSE /\ sameRed = FALSE
    /\ baseline = NoBaseline /\ edited = FALSE
    /\ snapped = FALSE /\ nudged = {} /\ rails = FreshRails
    /\ repeat = FreshRepeat /\ explore = FreshExplore /\ seen = {}
    /\ churn = C!Fresh /\ loop = FreshLoop
    /\ tree = FreshTree({})

\* The locals of Run are new, the budget and the churn detector are reset; the
\* fields in `loop` are left as the previous run left them.
StartRun ==
    /\ pc = "idle" /\ runs < MaxRuns
    /\ pc' = IF HasGate THEN "gate" ELSE "top"
    /\ runs' = runs + 1
    /\ cancelled' = FALSE /\ reason' = "none" /\ report' = NoReport
    /\ step' = 0 /\ turns' = 0 /\ call' = NoMove /\ outcome' = "none"
    /\ last' = NoVerdict /\ dirty' = FALSE /\ sameRed' = FALSE
    /\ baseline' = NoBaseline /\ edited' = FALSE
    /\ snapped' = FALSE /\ nudged' = {} /\ rails' = FreshRails
    /\ repeat' = FreshRepeat /\ explore' = FreshExplore /\ seen' = {}
    /\ churn' = C!Fresh
    /\ \E d \in SUBSET Paths : tree' = FreshTree(d)
    /\ UNCHANGED loop

\* Esc, a signal, a deadline: at any moment of a run.
Cancel ==
    /\ pc # "idle" /\ ~ cancelled
    /\ cancelled' = TRUE
    /\ UNCHANGED <<pc, reason, report, runs, clock, action, evidence, counters,
                   world>>

\* The chat gate: chit-chat is answered without a run; a failing classifier
\* ends the run; a task, or a reply that is itself a call, goes on.
Gate ==
    /\ pc = "gate"
    /\ \/ Goto("top")
       \/ ~ cancelled /\ Stop("answered")
       \/ Stop("error")
    /\ UNCHANGED <<control, clock, action, evidence, counters, world>>

-----------------------------------------------------------------------------
(* The top of a turn *)

\* The ghost count stops one past what TurnsBounded allows.
TurnBound == MaxSteps + 1 + MaxEmptyTurns + MaxRescues + MaxShrinks
Ticked == IF turns <= TurnBound THEN turns + 1 ELSE turns

StepsSpent == MaxSteps > 0 /\ step + 1 > MaxSteps

TopInterrupted ==
    /\ pc = "top" /\ cancelled
    /\ Stop("interrupted")
    /\ UNCHANGED <<control, clock, action, evidence, counters, world>>

\* The step budget; or tokens, wall clock or memory, at any turn.
BudgetTrips ==
    /\ pc = "top" /\ ~ cancelled
    /\ Stop("budget")
    /\ step' = step + 1 /\ turns' = Ticked
    /\ UNCHANGED <<control, action, evidence, counters, world>>

ChurnRail ==
    /\ pc = "top" /\ ~ cancelled /\ ~ StepsSpent /\ C!Churned(churn)
    /\ turns' = Ticked
    /\ \/ /\ CanRescue
          /\ Goto("top")
          /\ rails' = Rescued(rails) /\ churn' = C!Fresh
          /\ UNCHANGED step
       \/ /\ ~ CanRescue
          /\ Stop("churn")
          /\ step' = step + 1
          /\ UNCHANGED <<rails, churn>>
    /\ UNCHANGED <<control, action, evidence, nudged, repeat, explore, seen, world>>

BeginTurn ==
    /\ pc = "top" /\ ~ cancelled /\ ~ StepsSpent /\ ~ C!Churned(churn)
    /\ Goto("act")
    /\ step' = step + 1 /\ turns' = Ticked
    /\ UNCHANGED <<control, action, evidence, counters, world>>

-----------------------------------------------------------------------------
(* The model's turn *)

\* An error while the context is done is an interrupt, whatever it was; a turn
\* that stays malformed keeps the work.
ActFails ==
    /\ pc = "act"
    /\ IF cancelled THEN Stop("interrupted") ELSE Stop("error") \/ Stop("malformed")
    /\ UNCHANGED <<control, clock, action, evidence, counters, world>>

ShrinksUncounted ==                  \* bug: the refund has no bound
    /\ pc = "act" /\ ~ cancelled
    /\ Goto("top")
    /\ step' = step - 1
    /\ UNCHANGED <<control, turns, action, evidence, counters, world>>

\* The prompt overflowed the server's window: shrink it and rebuild the step.
ContextShrinks ==
    /\ pc = "act" /\ ~ cancelled /\ loop.shrinks < MaxShrinks
    /\ Goto("top")
    /\ step' = step - 1
    /\ loop' = [loop EXCEPT !.shrinks = @ + 1]
    /\ UNCHANGED <<control, turns, action, evidence, counters, tree>>

EmptyTurn ==
    /\ pc = "act" /\ ~ cancelled /\ rails.empties < MaxEmptyTurns
    /\ Goto("top")
    /\ step' = step - 1
    /\ rails' = [rails EXCEPT !.empties = @ + 1]
    /\ UNCHANGED <<control, turns, action, evidence, nudged, repeat, explore,
                   seen, churn, world>>

\* A turn in prose, without a call.  It is challenged, in this order: when it
\* promises an action or follows a failed one; once, when the run has used
\* tools; once, when a change task changed nothing.  Then it is the answer.
CanPromise == rails.promises < PromiseLimit
Latch(n) == nudged' = nudged \cup {n}

PromiseNudge ==
    /\ pc = "act" /\ ~ cancelled /\ CanPromise
    /\ Goto("top")
    /\ rails' = [rails EXCEPT !.promises = @ + 1]
    /\ UNCHANGED <<control, clock, action, evidence, nudged, repeat, explore,
                   seen, churn, world>>

ConfirmDue ==
    (rails.acted \/ step > 1) /\ "confirm" \notin nudged /\ ~ (Passed(last) /\ edited)
NoEditDue ==
    /\ step > 1 /\ ChangeTask /\ ~ edited
    /\ nudged \cap {"noedit", "claim"} = {}

ProseTurn ==
    /\ pc = "act" /\ ~ cancelled
    /\ ActionFailed(outcome) => ~ CanPromise
    /\ \/ ConfirmDue /\ Goto("top") /\ Latch("confirm")
       \/ ~ ConfirmDue /\ NoEditDue /\ Goto("top") /\ Latch("noedit")
       \/ ~ ConfirmDue /\ ~ NoEditDue /\ Stop("answered") /\ UNCHANGED nudged
    /\ UNCHANGED <<control, clock, action, evidence, rails, repeat, explore,
                   seen, churn, world>>

Calls(m) ==
    /\ pc = "act" /\ ~ cancelled
    /\ call' = m
    /\ Goto(CASE m.tool = "finish" -> "finish" [] IsEdit(m) -> "apply"
              [] OTHER -> "dispatch")
    /\ UNCHANGED <<control, clock, outcome, evidence, counters, world>>

-----------------------------------------------------------------------------
(* finish: the model declares it is done *)

\* The summary claims what no call of this run backs, or a change task changed
\* nothing: refused, once each.
FinishRefused ==
    /\ pc = "finish"
    /\ Goto("top")
    /\ \/ "claim" \notin nudged /\ Latch("claim")
       \/ NoEditDue /\ Latch("noedit")
    /\ UNCHANGED <<control, clock, action, evidence, rails, repeat, explore,
                   seen, churn, world>>

FinishUnverified ==
    /\ pc = "finish" /\ ~ NoEditDue /\ ~ HasVerifier
    /\ Stop("unverified")
    /\ UNCHANGED <<control, clock, action, evidence, counters, world>>

\* The one verify that is never skipped; `tolerated` is a success on a red the
\* run was handed and may not fix.
FinishVerifies ==
    /\ pc = "finish" /\ ~ NoEditDue /\ HasVerifier
    /\ \E v \in Answers :
          /\ last' = v /\ tree' = AfterVerify(tree, v)
          /\ \/ Passed(v) /\ Stop("success")
             \/ edited /\ OutOfReach(baseline, v) /\ Stop("tolerated")
             \/ /\ ~ Passed(v) /\ ~ (edited /\ OutOfReach(baseline, v))
                /\ Stop("answered")
    /\ UNCHANGED <<control, clock, action, dirty, sameRed, baseline, edited,
                   snapped, counters, loop>>

-----------------------------------------------------------------------------
(* The call is dispatched *)

\* Before the first edit: the checkpoint, which fails outside a repository and
\* under a cancelled context, and the verify baseline.
BeforeEdit ==
    /\ pc = "apply"
    /\ Latch("checkpoint")
    /\ snapped' \in IF "checkpoint" \in nudged \/ cancelled THEN {snapped} ELSE BOOLEAN
    /\ baseline' \in BaselinesAfter(BaselineDue)
    /\ tree' = IF BaselineDue THEN [tree EXCEPT !.pristine = tree.handed] ELSE tree
    /\ IF cancelled THEN Stop("interrupted") ELSE Goto("dispatch")
    /\ UNCHANGED <<control, clock, action, last, dirty, sameRed, edited, rails,
                   repeat, explore, seen, churn, loop>>

\* The guards of the dispatch, in their order, and what the tool itself answers.
PossibleOutcomes(m) ==
    IF Protected(m) THEN {"refused"}
    ELSE IF OldGround(m) /\ ~ Reanchors(m) THEN {"withheld"}
    ELSE Outcomes(m)

EditOnlyUnfloored(m, o) ==                          \* bug: counts below zero
    IF o = "scope" \/ EditWent(m, o) THEN 0 ELSE loop.editOnly - 1
EditOnlyUnreleased(m, o) ==                         \* bug: a denied write is a turn
    IF loop.editOnly = 0 \/ EditWent(m, o) THEN 0 ELSE loop.editOnly - 1
EditOnlyAfter(m, o) ==
    IF o = "scope" \/ loop.editOnly = 0 \/ EditWent(m, o) THEN 0
    ELSE loop.editOnly - 1
CreatedBeforeGuard(m, o) ==          \* bug: a refused path becomes the run's own
    [loop EXCEPT
        !.editOnly = EditOnlyAfter(m, o),
        !.impossible = @ \/ o = "scope",
        !.created = IF IsEdit(m) THEN @ \cup {m.path} ELSE @]
\* The fields of Loop after outcome o of m.
LoopAfter(m, o) ==
    [loop EXCEPT
        !.editOnly = EditOnlyAfter(m, o),
        !.impossible = @ \/ o = "scope",
        !.reanchor = IF IsEdit(m) THEN IF o = "anchor" THEN m.path ELSE NoPath
                     ELSE IF OldGround(m) /\ Reanchors(m) THEN NoPath ELSE @,
        !.created = IF IsEdit(m) /\ o # "refused" /\ m.path \notin tree.onDisk
                    THEN @ \cup {m.path} ELSE @]

RailsAfter(m, o) ==
    [rails EXCEPT
        !.promises = IF ActionFailed(o) THEN @ ELSE 0,
        !.acted = @ \/ (~ IsReadTool(m) /\ ~ Errored(o)),
        !.editFails = IF ~ IsEdit(m) THEN @ ELSE IF Errored(o) THEN @ + 1 ELSE 0]

\* What is not an edit may leave any files behind.
DisksAfter(m, o, changes) ==
    IF o = "landed" THEN {tree.onDisk \cup {m.path}}
    ELSE IF changes THEN SUBSET Paths ELSE {tree.onDisk}

TreeAfter(m, o, changes, disk) ==
    [tree EXCEPT
        !.stale = @ \/ (changes /\ o # "partial"),
        !.partial = @ \/ o = "partial",
        !.handed = @ /\ ~ (changes /\ m.tool \in {"edit", "command"}),
        !.moved = @ \/ changes,
        !.onDisk = disk, !.given = @ \cap disk,
        !.specEdited = @ \/ (o = "landed" /\ m.path \in SpecPaths \cap tree.given)]

\* A write the scope denies ends the run there when the user asked for that.
Dispatch ==
    /\ pc = "dispatch"
    /\ \E o \in PossibleOutcomes(call), c \in BOOLEAN, d \in SUBSET Paths :
          /\ c \in Changes(call, o) /\ d \in DisksAfter(call, o, c)
          /\ outcome' = o
          /\ loop' = LoopAfter(call, o)
          /\ tree' = TreeAfter(call, o, c, d)
          /\ \/ /\ o = "scope" /\ StopOnScope
                /\ Stop("safety")
                /\ UNCHANGED <<rails, edited, dirty>>
             \/ /\ ~ (o = "scope" /\ StopOnScope)
                /\ Goto("verify")
                /\ rails' = RailsAfter(call, o)
                /\ edited' = (edited \/ EditWent(call, o))
                /\ dirty' = (dirty \/ Mutated(call, o))
    /\ UNCHANGED <<control, clock, call, last, sameRed, baseline, snapped,
                   nudged, repeat, explore, seen, churn>>

-----------------------------------------------------------------------------
(* Verify, and the churn detector fed with it *)

ChurnTurn(output, skipped) ==
    [output |-> output, edit |-> IF IsEdit(call) THEN call ELSE NoMove,
     acted |-> call.tool = "command" /\ ~ Errored(outcome),
     readOnly |-> ReadOnlyTurn(call), skipped |-> skipped]

\* Nothing to run, or nothing changed since the last verify.
VerifySkipped ==
    /\ pc = "verify" /\ ~ (HasVerifier /\ dirty)
    /\ Goto("decide")
    /\ churn' = C!Observe(churn, ChurnTurn(NoMove, HasVerifier))
    /\ UNCHANGED <<control, clock, action, evidence, nudged, rails, repeat,
                   explore, seen, world>>

\* Identical reds in a row, for the repeated-verify stop rule.
SameReds(v, same) ==
    IF StopOnVerify = 0 THEN [lastRed |-> NoVerdict, sameReds |-> 0]
    ELSE IF Passed(v) \/ same THEN [lastRed |-> NoVerdict, sameReds |-> 0]
    ELSE [lastRed |-> v,
          sameReds |-> IF v = rails.lastRed THEN rails.sameReds + 1 ELSE 1]

\* What the loop makes of verdict v; a verify that did not run ends the run.
Judge(v) ==
    LET same == UnchangedSince(baseline, v)
        reds == SameReds(v, same)
    IN
    /\ last' = v /\ sameRed' = same
    /\ baseline' = Retire(baseline, v)
    /\ tree' = AfterVerify(tree, v)
    /\ \/ /\ v = CannotRun
          /\ Stop(IF cancelled THEN "interrupted" ELSE "error")
          /\ UNCHANGED <<rails, loop, churn>>
       \/ /\ v # CannotRun
          /\ loop' = IF BuildBroken(v) /\ baseline.kind # "broken" /\ ~ loop.impossible
                     THEN [loop EXCEPT !.editOnly = EditOnlyBudget] ELSE loop
          /\ rails' = [rails EXCEPT !.verified = TRUE, !.lastRed = reds.lastRed,
                                    !.sameReds = reds.sameReds]
          /\ IF StopOnVerify > 0 /\ reds.sameReds >= StopOnVerify
             THEN Stop("safety") /\ UNCHANGED churn
             ELSE /\ Goto("decide")
                  /\ churn' = C!Observe(churn,
                       ChurnTurn(IF Passed(v) \/ same THEN NoMove ELSE v, FALSE))

VerifyRuns ==
    /\ pc = "verify" /\ HasVerifier /\ dirty
    /\ dirty' = FALSE
    /\ \E v \in Answers : Judge(v)
    /\ UNCHANGED <<control, clock, action, edited, snapped, nudged, repeat,
                   explore, seen>>

-----------------------------------------------------------------------------
(* Decide: a green verify over a landed edit ends the run, after one probe  *)
(* for what is left of the task and, if the last call failed, one more turn *)

GreenEdit == Passed(last) /\ edited

Decide ==
    /\ pc = "decide"
    /\ \/ ~ GreenEdit /\ Goto("rails") /\ UNCHANGED nudged
       \/ GreenEdit /\ "green" \notin nudged /\ Goto("top") /\ Latch("green")
       \/ /\ GreenEdit /\ "green" \in nudged
          /\ IF Errored(outcome) /\ "failed" \notin nudged
             THEN Goto("top") /\ Latch("failed")
             ELSE Stop("success") /\ UNCHANGED nudged
    /\ UNCHANGED <<control, clock, action, evidence, rails, repeat, explore,
                   seen, churn, world>>

-----------------------------------------------------------------------------
(* The rails *)

\* Edits that keep failing to apply, whatever was read between them.
EditFailRail ==
    /\ pc = "rails" /\ rails.editFails >= EditFailLimit
    /\ \/ CanRescue /\ Goto("top") /\ rails' = [Rescued(rails) EXCEPT !.editFails = 0]
       \/ ~ CanRescue /\ Stop("churn") /\ UNCHANGED rails
    /\ UNCHANGED <<control, clock, action, evidence, nudged, repeat, explore,
                   seen, churn, world>>

\* One identical call over and over: only a call that is not a read ends the run.
Repeated ==
    IF call = repeat.key THEN [repeat EXCEPT !.streak = @ + 1]
                         ELSE [key |-> call, streak |-> 1, nudged |-> FALSE]

RepeatRail ==
    /\ pc = "rails" /\ rails.editFails < EditFailLimit
    /\ LET aborts == ~ IsReadTool(call) /\ Repeated.streak >= RepeatAbort
           nudges == ~ IsReadTool(call) /\ Repeated.streak >= RepeatNudge
       IN \/ /\ aborts /\ CanRescue
             /\ Goto("explore") /\ rails' = Rescued(rails)
             /\ repeat' = [Repeated EXCEPT !.streak = 0, !.nudged = FALSE]
          \/ aborts /\ ~ CanRescue /\ Stop("churn") /\ repeat' = Repeated /\ UNCHANGED rails
          \/ /\ ~ aborts
             /\ Goto("explore")
             /\ repeat' = [Repeated EXCEPT !.nudged = @ \/ nudges]
             /\ UNCHANGED rails
    /\ UNCHANGED <<control, clock, action, evidence, nudged, explore, seen,
                   churn, world>>

\* The exploration counters after this turn; acting resets all but the window's
\* companions nudges and sinceEdit.
Slide(w, b) ==
    IF SatWindow = 0 THEN w
    ELSE IF Len(w) < SatWindow THEN Append(w, b) ELSE Append(Tail(w), b)

Explored ==
    LET new == CoversNewGround(call)
    IN IF ReadOnlyTurn(call)
       THEN [explore EXCEPT !.sinceEdit = @ + 1, !.total = @ + 1, !.fresh = new,
                            !.streak = IF new THEN 0 ELSE @ + 1,
                            !.window = Slide(@, new)]
       ELSE [FreshExplore EXCEPT
                !.nudges = explore.nudges,
                !.sinceEdit = IF EditWent(call, outcome) THEN 0 ELSE explore.sinceEdit]

HandoffLeft == CanDelegate /\ rails.handoffs < MaxHandoffs

\* After DelegateAfterReads read-only turns without an edit, a child is sent.
Explore ==
    /\ pc = "explore"
    /\ Goto("nudge")
    /\ seen' = IF ReadOnlyTurn(call) /\ CoversNewGround(call)
               THEN seen \cup {Target(call)} ELSE seen
    /\ LET due == /\ DelegateAfterReads > 0 /\ HandoffLeft /\ ~ edited
                  /\ Explored.sinceEdit >= DelegateAfterReads
       IN \/ ~ due /\ explore' = Explored /\ UNCHANGED <<rails, dirty, tree>>
          \/ /\ due
             /\ rails' = [rails EXCEPT !.handoffs = @ + 1]
             /\ tree' \in AfterChild
             /\ \/ /\ explore' = [Explored EXCEPT !.sinceEdit = 0, !.streak = 0,
                                                  !.total = 0, !.nudgedAt = 0]
                   /\ dirty' = TRUE
                \/ tree' = tree /\ explore' = Explored /\ UNCHANGED dirty
    /\ UNCHANGED <<control, clock, action, last, sameRed, baseline, edited,
                   snapped, nudged, repeat, churn, loop>>

ReadsExhausted == explore.total >= ExploreCap \/ explore.streak >= ExploreAbort

\* A full window in which reads found something new, but too rarely.
Saturated ==
    LET new == Cardinality({i \in 1..Len(explore.window) : explore.window[i]})
    IN /\ SatWindow > 0 /\ Len(explore.window) >= SatWindow
       /\ new > 0 /\ new * 100 < SatMin * Len(explore.window)

NudgeDue ==
    /\ explore.total > 0 /\ explore.total % ExploreNudge = 0
    /\ explore.nudgedAt # explore.total

ExploreRail ==
    /\ pc = "nudge" /\ ReadsExhausted
    /\ \/ /\ CanRescue
          /\ Goto("top")
          /\ rails' = Rescued(rails) /\ step' = step - 1
          /\ explore' = [explore EXCEPT !.streak = 0, !.total = 0, !.nudgedAt = 0]
       \/ /\ ~ CanRescue
          /\ Stop("explore_stop")
          /\ UNCHANGED <<rails, step, explore>>
    /\ UNCHANGED <<control, turns, action, evidence, nudged, repeat, seen,
                   churn, world>>

\* The token ceiling of a read-only span.
ExploreTokensSpent ==
    /\ pc = "nudge" /\ ~ ReadsExhausted /\ ReadOnlyTurn(call)
    /\ Stop("explore_stop")
    /\ UNCHANGED <<control, clock, action, evidence, counters, world>>

SaturationRail ==
    /\ pc = "nudge" /\ ~ ReadsExhausted /\ Saturated
    /\ \/ /\ ~ explore.saturated
          /\ Goto("stall")
          /\ explore' = [explore EXCEPT !.saturated = TRUE, !.window = <<>>]
       \/ explore.saturated /\ Stop("explore_stop") /\ UNCHANGED explore
    /\ UNCHANGED <<control, clock, action, evidence, nudged, rails, repeat,
                   seen, churn, world>>

NoNudge ==
    /\ pc = "nudge" /\ ~ ReadsExhausted /\ ~ Saturated /\ ~ NudgeDue
    /\ Goto("stall")
    /\ UNCHANGED <<control, clock, action, evidence, counters, world>>

\* A nudge first runs the verify if the run has not: the model is shown what it
\* is asked to fix.  Nothing is retired from the baseline here.
Nudge ==
    /\ pc = "nudge" /\ ~ ReadsExhausted /\ ~ Saturated /\ NudgeDue
    /\ Goto("demand")
    /\ explore' = [explore EXCEPT !.nudgedAt = explore.total]
    /\ \/ /\ HasVerifier /\ ~ rails.verified
          /\ rails' = [rails EXCEPT !.verified = TRUE]
          /\ dirty' = FALSE
          /\ \E v \in Answers : last' = v /\ tree' = AfterGlimpse(tree, v)
       \/ ~ (HasVerifier /\ ~ rails.verified) /\ UNCHANGED <<rails, dirty, last, tree>>
    /\ UNCHANGED <<control, clock, action, sameRed, baseline, edited, snapped,
                   nudged, repeat, seen, churn, loop>>

\* The first nudge may send a child instead of asking for an edit.
HandoffDue == DelegateAfterReads = 0 /\ HandoffLeft /\ ~ rails.acted

NudgeDelegates ==
    /\ pc = "demand" /\ HandoffDue
    /\ Goto("stall")
    /\ rails' = [rails EXCEPT !.handoffs = @ + 1]
    /\ tree' \in AfterChild
    /\ UNCHANGED <<control, clock, action, evidence, nudged, repeat, explore,
                   seen, churn, loop>>

DemandsBlindly ==                    \* bug: the baseline is not consulted
    /\ pc = "demand"
    /\ Goto("stall")
    /\ explore' = [explore EXCEPT !.nudges = @ + 1]
    /\ loop' = IF explore.nudges + 1 > 1 /\ ~ loop.impossible
               THEN [loop EXCEPT !.editOnly = EditOnlyBudget] ELSE loop
    /\ UNCHANGED <<control, clock, action, evidence, nudged, rails, repeat, seen,
                   churn, tree>>

\* From the second nudge of the run on, reads of old ground are withheld for a
\* few turns; not when the scope refused a write, nor when the red is one the
\* run may not fix, which the baseline is taken to find out.
DemandEdit ==
    /\ pc = "demand"
    /\ Goto("stall")
    /\ rails' = IF HandoffDue THEN [rails EXCEPT !.handoffs = @ + 1] ELSE rails
    /\ explore' = [explore EXCEPT !.nudges = @ + 1]
    /\ LET due == BaselineDue /\ ~ Passed(last)
       IN /\ baseline' \in BaselinesAfter(due)
          /\ tree' = IF due THEN [tree EXCEPT !.pristine = tree.handed] ELSE tree
    /\ loop' = IF /\ ~ OutOfReachForCorrective(baseline', last)
                  /\ explore.nudges + 1 > 1 /\ ~ loop.impossible
               THEN [loop EXCEPT !.editOnly = EditOnlyBudget] ELSE loop
    /\ UNCHANGED <<control, clock, action, last, dirty, sameRed, edited, snapped,
                   nudged, repeat, seen, churn>>

\* The stall backstop: turns that changed nothing over a green verify.
Stalled ==
    /\ rails.seeded /\ rails.acted
    /\ edited \/ ~ ReadOnlyTurn(call) \/ ~ explore.fresh
    /\ Passed(last)
    /\ ~ EditWent(call, outcome) /\ ~ tree.moved

Stall ==
    /\ pc = "stall"
    /\ LET n == IF Stalled THEN rails.stall + 1 ELSE IF rails.seeded THEN 0 ELSE rails.stall
       IN /\ rails' = [rails EXCEPT !.seeded = TRUE, !.stall = n]
          /\ IF n >= StallLimit THEN Stop("answered") ELSE Goto("top")
    /\ tree' = [tree EXCEPT !.moved = FALSE]
    /\ UNCHANGED <<control, clock, action, evidence, nudged, repeat, explore,
                   seen, churn, loop>>

-----------------------------------------------------------------------------
(* Finish *)

ProbedReason ==                      \* bug: probed once, successful ever after
    IF reason = "tolerated" THEN "success"
    ELSE IF "green" \in nudged /\ reason \notin {"interrupted", "error"} THEN "success"
    ELSE reason

\* Whatever stopped the run after the completion probe, a success it had earned
\* by then stays one.
FinalReason ==
    IF reason = "tolerated" THEN "success"
    ELSE IF "green" \in nudged /\ GreenEdit /\ reason \notin {"interrupted", "error"}
    THEN "success"
    ELSE reason

\* shouldRollback
ShouldRollback(r) ==
    \/ r \in {"error", "interrupted", "safety"}
    \/ r # "success" /\ BuildBroken(last)

\* A rollback may fail; what it does to the files is Checkpoint's.
Finish ==
    /\ pc = "stop"
    /\ pc' = "idle"
    /\ \E rolled \in IF snapped /\ ShouldRollback(FinalReason) THEN BOOLEAN ELSE {FALSE} :
          /\ report' = [reason |-> FinalReason, rolledBack |-> rolled,
                        tolerated |-> reason = "tolerated"]
    /\ UNCHANGED <<reason, cancelled, runs, clock, action, evidence, counters, world>>

-----------------------------------------------------------------------------
LoopStep ==
    \/ Gate \/ TopInterrupted \/ BudgetTrips \/ ChurnRail \/ BeginTurn
    \/ ActFails \/ ContextShrinks \/ EmptyTurn \/ PromiseNudge \/ ProseTurn
    \/ \E m \in Moves : Calls(m)
    \/ FinishRefused \/ FinishUnverified \/ FinishVerifies
    \/ BeforeEdit \/ Dispatch \/ VerifySkipped \/ VerifyRuns \/ Decide
    \/ EditFailRail \/ RepeatRail \/ Explore \/ ExploreRail \/ ExploreTokensSpent
    \/ SaturationRail \/ NoNudge \/ Nudge \/ NudgeDelegates \/ DemandEdit
    \/ Stall \/ Finish

Next == StartRun \/ LoopStep \/ Cancel
Spec == Init /\ [][Next]_vars

\* Every call the loop waits for returns, by its own timeout if need be.
FairSpec == Spec /\ WF_vars(LoopStep)

-----------------------------------------------------------------------------
(* What the loop promises *)

Reasons == {"none", "answered", "error", "interrupted", "budget", "churn",
            "malformed", "unverified", "success", "tolerated", "safety",
            "explore_stop"}
AllOutcomes == {"none", "withheld", "landed", "noop", "anchor", "failed",
                "scope", "refused", "ok", "exit", "timeout", "partial"}
AllVerdicts == Verdicts \cup {NoVerdict}
Labels == {"idle", "gate", "top", "act", "finish", "apply", "dispatch", "verify",
           "decide", "rails", "explore", "nudge", "demand", "stall", "stop"}
InTurn == Labels \ {"idle", "gate", "top", "stop"}

Reports == [reason : Reasons \ {"tolerated"}, rolledBack : BOOLEAN,
            tolerated : BOOLEAN]
Baselines == [state : {"none", "skipped", "taken"},
              kind : {"none", "green", "red", "broken"},
              excused : SUBSET Tests, unreachable : BOOLEAN]
Latches == {"confirm", "noedit", "claim", "checkpoint", "green", "failed"}
RailCounters ==
    [promises : Nat, empties : 0..MaxEmptyTurns, rescues : 0..MaxRescues,
     editFails : Nat, handoffs : 0..MaxHandoffs, stall : Nat, seeded : BOOLEAN,
     acted : BOOLEAN, verified : BOOLEAN, lastRed : AllVerdicts, sameReds : Nat]
RepeatRails == [key : Moves \cup {NoMove}, streak : Nat, nudged : BOOLEAN]
ExploreRails ==
    {e \in [streak : Nat, total : Nat, nudgedAt : Nat, nudges : Nat,
            sinceEdit : Nat, window : Seq(BOOLEAN), saturated : BOOLEAN,
            fresh : BOOLEAN] :
        e.streak <= e.total /\ Len(e.window) <= SatWindow}
LoopFields == [editOnly : 0..EditOnlyBudget, impossible : BOOLEAN,
               reanchor : Paths \cup {NoPath}, created : SUBSET Paths,
               shrinks : 0..MaxShrinks]
Trees == [onDisk : SUBSET Paths, given : SUBSET Paths, stale : BOOLEAN,
          partial : BOOLEAN, handed : BOOLEAN, pristine : BOOLEAN,
          moved : BOOLEAN, specEdited : BOOLEAN, cured : SUBSET Tests,
          glimpsed : SUBSET Tests, judged : BOOLEAN]

\* What the values of Run's locals and Loop's fields can be: the counters of
\* the bounded recoveries stay within their limits (loop.go Run).
TypeOK ==
    /\ pc \in Labels /\ reason \in Reasons /\ cancelled \in BOOLEAN
    /\ report \in Reports /\ runs \in Nat
    /\ step \in Nat /\ turns \in Nat
    /\ pc \in InTurn => step > 0
    /\ call \in Moves \cup {NoMove} /\ outcome \in AllOutcomes
    /\ last \in AllVerdicts /\ dirty \in BOOLEAN /\ sameRed \in BOOLEAN
    /\ baseline \in Baselines /\ edited \in BOOLEAN /\ snapped \in BOOLEAN
    /\ nudged \subseteq Latches
    /\ rails \in RailCounters /\ repeat \in RepeatRails
    /\ explore \in ExploreRails
    /\ seen \subseteq {Target(m) : m \in Moves}
    /\ churn \in C!Detectors
    /\ loop \in LoopFields /\ tree \in Trees

\* A success is a verify of this run that passed after the last call that changed
\* the tree, or, with an edit made, one whose every red was there before the run and is
\* out of its reach; never a run without a verifier (loop.go finish, the DECIDE
\* gate and the finish branch).  A call that failed after it changed something
\* is left to PartialWorkVerified.
SuccessIsEarned ==
    report.reason = "success" =>
        /\ HasVerifier /\ tree.judged /\ ~ tree.stale
        /\ \/ Passed(last) /\ (edited \/ call.tool = "finish")
           \/ report.tolerated /\ edited /\ last.tests \subseteq baseline.excused

\* A change that a call made without failing is owed a verify when the model is
\* asked for its next call: the verify gate never forgets a mutation (loop.go
\* mutated, mutatedSinceVerify).
MutationsAreVerified ==
    pc = "act" /\ HasVerifier /\ tree.stale => dirty

\* The baseline is a verdict on the tree the run was handed (loop.go
\* ensureBaseline): no edit and no command had changed it.  What a rename or a
\* child changed before the first edit call is in it.
BaselinePristine == baseline.state = "taken" => tree.pristine

\* A red that is called the baseline's own, by the rails or by a tolerated
\* success, names no test that the verify gate has seen passing since the baseline
\* was taken: a flaky test does not excuse a regression (baseline.go retire).
FlakesNeverExcused ==
    (pc = "decide" /\ sameRed) \/ report.tolerated =>
        last.tests \cap tree.cured = {}

\* The same of a test any verify of the run has seen passing, in the words of
\* baseline.go: "Once a baseline-red test has been seen passing it never re-enters
\* the excused set".
SeenPassingNeverExcused ==
    (pc = "decide" /\ sameRed) \/ report.tolerated =>
        last.tests \cap (tree.cured \cup tree.glimpsed) = {}

\* The edit-only rail does not withhold the read tools of a run to which the
\* write scope has refused a write (loop.go editsImpossible).
ForceEditReleased == loop.impossible => loop.editOnly = 0

\* The loop never demands an edit over a red it knows the run may not fix,
\* unless the run broke the build (loop.go, the explore nudge).
DemandsWithinReach ==
    [][loop'.editOnly > loop.editOnly =>
         BuildBroken(last') \/ ~ OutOfReachForCorrective(baseline', last')]_vars

\* Refunded steps do not let a run go on for ever: every refund spends one of
\* the bounded recoveries (loop.go complete, "1536 identical retries").
TurnsBounded ==
    MaxSteps > 0 => turns <= TurnBound

\* A run with a step budget ends, whatever the model and the tools do.
RunsTerminate == pc # "idle" ~> pc = "idle"

\* A file the verify command names, there since the run started, is not edited
\* (loop.go protectedByVerify).
SpecUntouched == ~ tree.specEdited
=============================================================================
