---------------------------- MODULE VerdictProofs -----------------------------
(***************************************************************************)
(* What AgentLoop's verify may be trusted with, for any model, tools,      *)
(* verifier and limits. The baseline is a verdict on the tree the run was  *)
(* handed, and excuses no test seen passing since. A success rests on a    *)
(* verify of the tree as it is, a change is owed a verify, and what the    *)
(* verify command names is not edited.                                     *)
(***************************************************************************)
EXTENDS AgentLoopProofs

-----------------------------------------------------------------------------
(* The baseline *)

\* The baseline and the tree: it is due only while the tree is as it was handed
\* over, and an edit is not dispatched while it is due.
TakenFirst ==
    /\ baseline.state = "taken" => tree.pristine
    /\ BaselineDue => tree.handed
    /\ pc = "dispatch" /\ IsEdit(call) => ~ BaselineDue

\* The baseline and what has been seen passing: what it still excuses, and a red
\* that is taken for its own, are disjoint from that.  The verify of a nudge
\* judges nothing, and comes only while no other verify has been.
NothingCured == last.tests \cap tree.cured = {}

CuredApart ==
    /\ baseline.state # "taken" => tree.cured = {}
    /\ pc \notin Over => /\ baseline.excused \cap tree.cured = {}
                         /\ ~ rails.verified => tree.cured = {}
                         /\ sameRed => NothingCured

\* A red is tolerated at the very end, by the finish tool.
ToleratedApart ==
    /\ pc = "stop" /\ reason = "tolerated" => NothingCured
    /\ report.tolerated => pc = "idle" /\ NothingCured

BaselineSound == TakenFirst /\ CuredApart /\ ToleratedApart

-----------------------------------------------------------------------------
(* Verdicts *)

\* A verdict that is called the baseline's own names only what it excuses.
LEMMA OwnRedIsExcused ==
    ASSUME NEW b, NEW v, UnchangedSince(b, v)
    PROVE  v \in Reds /\ ~ Passed(v) /\ v # CannotRun /\ v.tests \subseteq b.excused
  <1>1. v \in Reds /\ ~ Passed(v) /\ v # CannotRun
    BY AgentLoopAssumption DEF UnchangedSince, Passed, CannotRun
  <1>2. v.tests \subseteq b.excused
    BY DEF UnchangedSince
  <1> QED BY <1>1, <1>2

LEMMA PassedNamesNone == \A v \in Verdicts : Passed(v) => v.tests = {}
  BY AgentLoopAssumption DEF Passed, Verdicts, Green, CannotRun

\* What a verdict says is passing does not fail in it.
LEMMA PassingApart ==
    ASSUME NEW v \in Verdicts
    PROVE  v.tests \cap PassingIn(v) = {}
  BY PassedNamesNone DEF PassingIn

LEMMA CuredAfter ==
    ASSUME TypeOK, NEW v
    PROVE  /\ AfterVerify(tree, v).cured = tree.cured \cup PassingIn(v)
           /\ AfterGlimpse(tree, v).cured = tree.cured
           /\ \A t \in {AfterVerify(tree, v), AfterGlimpse(tree, v)} :
                 t.pristine = tree.pristine /\ t.handed = tree.handed
  <1>1. tree \in Trees
    BY DEF TypeOK
  <1>2. CASE v = CannotRun
    BY <1>1, <1>2 DEF AfterVerify, AfterGlimpse, Verified, Trees
  <1>3. CASE v # CannotRun
    BY <1>1, <1>3 DEF AfterVerify, AfterGlimpse, Verified, Trees
  <1> QED BY <1>2, <1>3

LEMMA AnswersAreVerdicts == \A v \in Answers : v \in Verdicts
  BY AnswersType

-----------------------------------------------------------------------------
(* The steps that leave all of it alone *)

Untouched ==
    /\ UNCHANGED <<last, sameRed, baseline, report>>
    /\ rails'.verified = rails.verified
    /\ tree'.cured = tree.cured /\ tree'.pristine = tree.pristine
    /\ tree'.handed = tree.handed

LEMMA UntouchedSound ==
    ASSUME BaselineSound, Untouched, pc \notin Over, pc' # "idle",
           pc' = "stop" => reason' # "tolerated",
           pc' = "dispatch" => ~ IsEdit(call')
    PROVE  BaselineSound'
  BY DEF BaselineSound, TakenFirst, CuredApart, ToleratedApart, NothingCured, Untouched,
         BaselineDue, Over

\* The fields of rails and tree that other updates leave.
LEMMA VerifiedKept ==
    ASSUME TypeOK
    PROVE  /\ \A m, o : RailsAfter(m, o).verified = rails.verified
           /\ \A x : [rails EXCEPT !.seeded = TRUE, !.stall = x].verified = rails.verified
           /\ \A x : [rails EXCEPT !.handoffs = x].verified = rails.verified
           /\ Rescued(rails).verified = rails.verified
           /\ [Rescued(rails) EXCEPT !.editFails = 0].verified = rails.verified
  BY DEF TypeOK, RailCounters, RailsAfter, Rescued

LEMMA ChildKeeps ==
    ASSUME TypeOK, NEW t \in AfterChild
    PROVE  t.cured = tree.cured /\ t.pristine = tree.pristine /\ t.handed = tree.handed
  BY DEF TypeOK, Trees, AfterChild

LEMMA TopSound ==
    ASSUME TypeOK, BaselineSound,
           \/ Gate \/ TopInterrupted \/ BudgetTrips \/ ChurnRail \/ BeginTurn
           \/ ActFails \/ ContextShrinks \/ EmptyTurn \/ PromiseNudge \/ ProseTurn
    PROVE  BaselineSound'
  <1>1. pc \notin Over /\ pc' \notin {"idle", "dispatch"}
    BY DEF Gate, TopInterrupted, BudgetTrips, ChurnRail, BeginTurn, ActFails,
           ContextShrinks, EmptyTurn, PromiseNudge, ProseTurn, Goto, Stop, Over
  <1>2. pc' = "stop" => reason' # "tolerated"
    BY DEF Gate, TopInterrupted, BudgetTrips, ChurnRail, BeginTurn, ActFails,
           ContextShrinks, EmptyTurn, PromiseNudge, ProseTurn, Goto, Stop, Over
  <1>3. UNCHANGED <<last, sameRed, baseline, report, tree>>
    BY DEF Gate, TopInterrupted, BudgetTrips, ChurnRail, BeginTurn, ActFails,
           ContextShrinks, EmptyTurn, PromiseNudge, ProseTurn, evidence, control, world
  <1>4. rails'.verified = rails.verified
    <2>1. CASE ChurnRail
      BY <2>1, VerifiedKept DEF ChurnRail
    <2>2. CASE EmptyTurn \/ PromiseNudge
      BY <2>2 DEF EmptyTurn, PromiseNudge, TypeOK, RailCounters
    <2>3. CASE rails' = rails
      BY <2>3
    <2> QED BY <2>1, <2>2, <2>3
            DEF Gate, TopInterrupted, BudgetTrips, BeginTurn, ActFails, ContextShrinks,
                ProseTurn, counters
  <1> QED BY <1>1, <1>2, <1>3, <1>4, UntouchedSound DEF Untouched

LEMMA RailsSound ==
    ASSUME TypeOK, BaselineSound,
           \/ FinishRefused \/ FinishUnverified \/ VerifySkipped \/ Decide
           \/ EditFailRail \/ RepeatRail \/ ExploreRail \/ ExploreTokensSpent
           \/ SaturationRail \/ NoNudge
    PROVE  BaselineSound'
  <1>1. pc \notin Over /\ pc' \notin {"idle", "dispatch"}
    BY DEF FinishRefused, FinishUnverified, VerifySkipped, Decide, EditFailRail,
           RepeatRail, ExploreRail, ExploreTokensSpent, SaturationRail, NoNudge,
           Goto, Stop, Over
  <1>2. pc' = "stop" => reason' # "tolerated"
    BY DEF FinishRefused, FinishUnverified, VerifySkipped, Decide, EditFailRail,
           RepeatRail, ExploreRail, ExploreTokensSpent, SaturationRail, NoNudge,
           Goto, Stop
  <1>3. UNCHANGED <<last, sameRed, baseline, report, tree>>
    BY DEF FinishRefused, FinishUnverified, VerifySkipped, Decide, EditFailRail,
           RepeatRail, ExploreRail, ExploreTokensSpent, SaturationRail, NoNudge,
           evidence, control, world
  <1>4. rails'.verified = rails.verified
    <2>1. CASE EditFailRail
      BY <2>1, VerifiedKept DEF EditFailRail
    <2>2. CASE RepeatRail
      <3>1. rails' \in {rails, Rescued(rails)}
        BY <2>2 DEF RepeatRail
      <3> QED BY <3>1, VerifiedKept
    <2>3. CASE ExploreRail
      BY <2>3, VerifiedKept DEF ExploreRail
    <2>4. CASE rails' = rails
      BY <2>4
    <2> QED BY <2>1, <2>2, <2>3, <2>4
            DEF FinishRefused, FinishUnverified, VerifySkipped, Decide,
                ExploreTokensSpent, SaturationRail, NoNudge, counters
  <1> QED BY <1>1, <1>2, <1>3, <1>4, UntouchedSound DEF Untouched

\* A child changes the tree, and the baseline does not count that.
LEMMA DelegationSound ==
    ASSUME TypeOK, BaselineSound, Explore \/ NudgeDelegates \/ Stall
    PROVE  BaselineSound'
  <1>1. pc \notin Over /\ pc' \notin {"idle", "dispatch"}
    BY DEF Explore, NudgeDelegates, Stall, Goto, Stop, Over
  <1>2. pc' = "stop" => reason' # "tolerated"
    BY DEF Explore, NudgeDelegates, Stall, Goto, Stop
  <1>3. UNCHANGED <<last, sameRed, baseline, report>>
    BY DEF Explore, NudgeDelegates, Stall, evidence, control
  <1>4. rails'.verified = rails.verified
    <2>1. ASSUME NEW n, NEW b PROVE /\ [rails EXCEPT !.handoffs = n].verified = rails.verified
                                     /\ [rails EXCEPT !.seeded = b, !.stall = n].verified = rails.verified
      BY DEF TypeOK, RailCounters
    <2>2. CASE Stall
      BY <2>1, <2>2 DEF Stall
    <2>3. CASE Explore
      BY <2>1, <2>3 DEF Explore
    <2>4. CASE NudgeDelegates
      BY <2>1, <2>4 DEF NudgeDelegates
    <2> QED BY <2>2, <2>3, <2>4
  <1>5. /\ tree'.cured = tree.cured /\ tree'.pristine = tree.pristine
        /\ tree'.handed = tree.handed
    <2>1. CASE Stall
      BY <2>1 DEF Stall, TypeOK, Trees
    <2>2. CASE Explore \/ NudgeDelegates
      BY <2>2, ChildKeeps DEF Explore, NudgeDelegates
    <2> QED BY <2>1, <2>2
  <1> QED BY <1>1, <1>2, <1>3, <1>4, <1>5, UntouchedSound DEF Untouched

-----------------------------------------------------------------------------
(* The steps that matter *)

LEMMA CallSound ==
    ASSUME TypeOK, BaselineSound, NEW m \in Moves, Calls(m)
    PROVE  BaselineSound'
  <1>1. pc \notin Over /\ pc' \notin {"idle", "stop"} /\ (pc' = "dispatch" => ~ IsEdit(call'))
    BY DEF Calls, Goto, Over
  <1>2. Untouched
    BY DEF Calls, evidence, control, counters, world, Untouched
  <1> QED BY <1>1, <1>2, UntouchedSound

\* The baseline is taken before the first edit is dispatched, if it is due.
LEMMA BaselineTaken ==
    ASSUME BaselineSound, pc \notin Over, NEW due, due => BaselineDue,
           baseline' \in BaselinesAfter(due),
           tree' = IF due THEN [tree EXCEPT !.pristine = tree.handed] ELSE tree,
           TypeOK
    PROVE  /\ baseline'.state = "taken" => tree'.pristine
           /\ tree'.handed = tree.handed /\ tree'.cured = tree.cured
           /\ due => baseline'.state # "none"
           /\ ~ due => baseline' = baseline
           /\ baseline'.excused \cap tree'.cured = {}
           /\ baseline'.state # "taken" => tree'.cured = {}
  <1>1. CASE due
    <2>1. PICK v \in Answers, u \in BOOLEAN : baseline' = Baseline(v, u)
      BY <1>1 DEF BaselinesAfter
    <2>2. baseline'.state # "none"
      BY <2>1 DEF Baseline, NoBaseline
    <2>3. tree.handed /\ tree.cured = {}
      BY <1>1 DEF BaselineDue, BaselineSound, TakenFirst, CuredApart
    <2>4. tree'.pristine = tree.handed /\ tree'.handed = tree.handed /\ tree'.cured = tree.cured
      BY <1>1 DEF TypeOK, Trees
    <2> QED BY <1>1, <2>2, <2>3, <2>4
  <1>2. CASE ~ due
    BY <1>2 DEF BaselinesAfter, BaselineSound, TakenFirst, CuredApart
  <1> QED BY <1>1, <1>2

LEMMA BeforeEditSound ==
    ASSUME TypeOK, BaselineSound, BeforeEdit
    PROVE  BaselineSound'
  <1>1. pc \notin Over /\ pc' \in {"stop", "dispatch"}
        /\ (pc' = "stop" => reason' # "tolerated")
    BY DEF BeforeEdit, Goto, Stop, Over
  <1>2. UNCHANGED <<last, sameRed, report, rails>>
    BY DEF BeforeEdit, control
  <1>3. /\ baseline' \in BaselinesAfter(BaselineDue)
        /\ tree' = IF BaselineDue THEN [tree EXCEPT !.pristine = tree.handed] ELSE tree
    BY DEF BeforeEdit
  <1>4. /\ baseline'.state = "taken" => tree'.pristine
        /\ tree'.handed = tree.handed /\ tree'.cured = tree.cured
        /\ BaselineDue => baseline'.state # "none"
        /\ ~ BaselineDue => baseline' = baseline
        /\ baseline'.excused \cap tree'.cured = {}
        /\ baseline'.state # "taken" => tree'.cured = {}
    BY <1>1, <1>3, BaselineTaken
  <1>5. TakenFirst'
    BY <1>4 DEF TakenFirst, BaselineDue
  <1>6. CuredApart' /\ ToleratedApart'
    BY <1>1, <1>2, <1>4 DEF BaselineSound, CuredApart, ToleratedApart, NothingCured, Over
  <1> QED BY <1>5, <1>6 DEF BaselineSound

LEMMA DemandSound ==
    ASSUME TypeOK, BaselineSound, DemandEdit
    PROVE  BaselineSound'
  <1>1. pc \notin Over /\ pc' = "stall"
    BY DEF DemandEdit, Goto, Over
  <1>2. UNCHANGED <<last, sameRed, report>> /\ rails'.verified = rails.verified
    BY VerifiedKept DEF DemandEdit, control
  <1> DEFINE due == BaselineDue /\ ~ Passed(last)
  <1>3. /\ baseline' \in BaselinesAfter(due)
        /\ tree' = IF due THEN [tree EXCEPT !.pristine = tree.handed] ELSE tree
    BY DEF DemandEdit
  <1>4. /\ baseline'.state = "taken" => tree'.pristine
        /\ tree'.handed = tree.handed /\ tree'.cured = tree.cured
        /\ due => baseline'.state # "none"
        /\ ~ due => baseline' = baseline
        /\ baseline'.excused \cap tree'.cured = {}
        /\ baseline'.state # "taken" => tree'.cured = {}
    <2> HIDE DEF due
    <2>1. due => BaselineDue
      BY DEF due
    <2> QED BY <1>1, <1>3, <2>1, BaselineTaken
  <1>5. TakenFirst'
    <2>1. BaselineDue' => BaselineDue
      BY <1>4 DEF BaselineDue
    <2> QED BY <1>1, <1>4, <2>1 DEF BaselineSound, TakenFirst
  <1>6. CuredApart' /\ ToleratedApart'
    BY <1>1, <1>2, <1>4 DEF BaselineSound, CuredApart, ToleratedApart, NothingCured, Over
  <1> QED BY <1>5, <1>6 DEF BaselineSound

\* Under a scope the shell does not run, so only an edit can take the tree from
\* what it was, and by then the baseline is not due.
LEMMA DispatchSound ==
    ASSUME TypeOK, BaselineSound, Dispatch
    PROVE  BaselineSound'
  <1>1. PICK o \in PossibleOutcomes(call), c \in BOOLEAN, d \in SUBSET Paths :
            /\ c \in Changes(call, o)
            /\ tree' = TreeAfter(call, o, c, d)
    BY DEF Dispatch
  <1>2. pc = "dispatch" /\ pc' \in {"stop", "verify"} /\ (pc' = "stop" => reason' # "tolerated")
    BY DEF Dispatch, Goto, Stop
  <1>3. UNCHANGED <<last, sameRed, baseline, report>>
    BY DEF Dispatch, control
  <1>4. rails'.verified = rails.verified
    BY VerifiedKept DEF Dispatch
  <1>5. /\ tree'.cured = tree.cured /\ tree'.pristine = tree.pristine
        /\ tree'.handed = (tree.handed /\ ~ (c /\ call.tool \in {"edit", "command"}))
    BY <1>1 DEF TreeAfter, TypeOK, Trees
  <1>6. BaselineDue' => tree'.handed
    <2> SUFFICES ASSUME BaselineDue' PROVE tree'.handed
      OBVIOUS
    <2>1. BaselineDue /\ tree.handed /\ call.tool # "edit" /\ ScopeActive
      BY <1>2, <1>3 DEF BaselineDue, BaselineSound, TakenFirst, IsEdit
    <2>2. ASSUME call.tool = "command" PROVE ~ c
      <3>1. o \in {"refused", "withheld", "scope"}
        BY <2>1, <2>2 DEF PossibleOutcomes, Outcomes
      <3> QED BY <1>1, <3>1 DEF Changes
    <2> QED BY <1>5, <2>1, <2>2
  <1> QED BY <1>2, <1>3, <1>4, <1>5, <1>6
          DEF BaselineSound, TakenFirst, CuredApart, ToleratedApart, NothingCured,
              BaselineDue, Over

\* The verify gate: what passes is excused no longer, and what is the baseline's
\* own is what it excused before.
LEMMA VerifySound ==
    ASSUME TypeOK, BaselineSound, VerifyRuns
    PROVE  BaselineSound'
  <1>1. PICK v \in Answers : Judge(v)
    BY DEF VerifyRuns
  <1>2. v \in Verdicts /\ tree' = AfterVerify(tree, v) /\ last' = v
        /\ sameRed' = UnchangedSince(baseline, v) /\ baseline' = Retire(baseline, v)
    BY <1>1, AnswersAreVerdicts DEF Judge
  <1>3. /\ tree'.cured = tree.cured \cup PassingIn(v)
        /\ tree'.pristine = tree.pristine /\ tree'.handed = tree.handed
    BY <1>2, CuredAfter
  <1>4. pc = "verify" /\ pc' \in {"stop", "decide"} /\ (pc' = "stop" => reason' # "tolerated")
        /\ UNCHANGED report /\ (pc' = "decide" => rails'.verified)
    <2>1. pc = "verify" /\ UNCHANGED report
      BY DEF VerifyRuns, control
    <2>2. CASE v = CannotRun
      BY <1>1, <2>1, <2>2 DEF Judge, Stop
    <2>3. CASE v # CannotRun
      <3>1. rails'.verified
        BY <1>1, <2>3 DEF Judge, TypeOK, RailCounters
      <3> QED BY <1>1, <2>1, <2>3, <3>1 DEF Judge, Goto, Stop
    <2> QED BY <2>2, <2>3
  <1>5. baseline'.state = baseline.state /\ baseline \in Baselines
    BY <1>2 DEF Retire, TypeOK, Baselines
  <1>6. pc \notin Over /\ baseline.excused \cap tree.cured = {}
    BY <1>4 DEF Over, BaselineSound, CuredApart
  <1>7. CASE baseline.state = "taken"
    <2>1. v.tests \cap PassingIn(v) = {}
      BY <1>2, PassingApart
    <2>2. baseline'.excused \cap tree'.cured = {}
      <3>1. CASE Passed(v)
        <4>1. v.tests = {}
          BY <1>2, <3>1, PassedNamesNone
        <4>2. baseline'.excused = {}
          BY <1>2, <1>5, <1>7, <3>1, <4>1 DEF Retire, Baselines
        <4> QED BY <4>2
      <3>2. CASE ~ Passed(v) /\ v.tests # {}
        <4>1. baseline'.excused = baseline.excused \cap v.tests
          BY <1>2, <1>5, <1>7, <3>2 DEF Retire, Baselines
        <4> QED BY <1>3, <1>6, <2>1, <4>1
      <3>3. CASE ~ Passed(v) /\ v.tests = {}
        <4>1. baseline' = baseline /\ PassingIn(v) = {}
          BY <1>2, <3>3 DEF Retire, PassingIn
        <4> QED BY <1>3, <1>6, <4>1
      <3> QED BY <3>1, <3>2, <3>3
    <2>3. sameRed' => last'.tests \cap tree'.cured = {}
      BY <1>2, <1>3, <1>6, <2>1, OwnRedIsExcused
    <2> QED BY <1>3, <1>4, <1>5, <1>7, <2>2, <2>3
            DEF BaselineSound, TakenFirst, CuredApart, ToleratedApart, NothingCured,
                BaselineDue, Over
  <1>8. CASE baseline.state # "taken"
    <2>1. baseline' = baseline
      BY <1>2, <1>8 DEF Retire
    <2>2. PassingIn(v) = {}
      BY <1>8 DEF PassingIn
    <2>3. tree.cured = {} /\ tree'.cured = {}
      BY <1>3, <1>8, <2>2 DEF BaselineSound, CuredApart
    <2> QED BY <1>3, <1>4, <1>8, <2>1, <2>3
            DEF BaselineSound, TakenFirst, CuredApart, ToleratedApart, NothingCured,
                BaselineDue, Over
  <1> QED BY <1>7, <1>8

\* The verify of a nudge comes before any other, so there is nothing cured yet.
LEMMA NudgeSound ==
    ASSUME TypeOK, BaselineSound, Nudge
    PROVE  BaselineSound'
  <1>1. pc \notin Over /\ pc' = "demand" /\ UNCHANGED <<report, baseline, sameRed>>
    BY DEF Nudge, Goto, Over, control
  <1>2. CASE UNCHANGED <<rails, dirty, last, tree>>
    BY <1>1, <1>2, UntouchedSound DEF Untouched
  <1>3. CASE ~ rails.verified /\ \E v \in Answers : last' = v /\ tree' = AfterGlimpse(tree, v)
    <2>1. /\ tree'.cured = tree.cured /\ tree'.pristine = tree.pristine
          /\ tree'.handed = tree.handed
      BY <1>3, CuredAfter
    <2>2. tree.cured = {}
      BY <1>1, <1>3 DEF BaselineSound, CuredApart
    <2> QED BY <1>1, <2>1, <2>2
            DEF BaselineSound, TakenFirst, CuredApart, ToleratedApart, NothingCured,
                BaselineDue, Over
  <1> QED BY <1>2, <1>3 DEF Nudge

\* The finish tool's verify tolerates only what the baseline still excuses.
LEMMA FinishVerifiesSound ==
    ASSUME TypeOK, BaselineSound, FinishVerifies
    PROVE  BaselineSound'
  <1>1. PICK v \in Answers :
            /\ last' = v /\ tree' = AfterVerify(tree, v)
            /\ \/ Stop("success") \/ Stop("answered")
               \/ OutOfReach(baseline, v) /\ Stop("tolerated")
    BY DEF FinishVerifies
  <1>2. pc \notin Over /\ pc' = "stop" /\ UNCHANGED <<report, baseline>>
        /\ (reason' = "tolerated" => UnchangedSince(baseline, v))
    BY <1>1 DEF FinishVerifies, Stop, OutOfReach, Over, control
  <1>3. /\ tree'.cured = tree.cured \cup PassingIn(v)
        /\ tree'.pristine = tree.pristine /\ tree'.handed = tree.handed
    BY <1>1, CuredAfter
  <1>4. v.tests \cap PassingIn(v) = {}
    BY AnswersAreVerdicts, PassingApart
  <1>5. reason' = "tolerated" => last'.tests \cap tree'.cured = {}
    BY <1>1, <1>2, <1>3, <1>4, OwnRedIsExcused DEF BaselineSound, CuredApart
  <1>6. baseline.state # "taken" => tree'.cured = {}
    BY <1>3 DEF PassingIn, BaselineSound, CuredApart
  <1> QED BY <1>2, <1>3, <1>5, <1>6
          DEF BaselineSound, TakenFirst, CuredApart, ToleratedApart, NothingCured,
              BaselineDue, Over

LEMMA FinishSound ==
    ASSUME BaselineSound, Finish
    PROVE  BaselineSound'
  <1>1. pc = "stop" /\ pc' = "idle" /\ report'.tolerated = (reason = "tolerated")
        /\ UNCHANGED <<reason, last, sameRed, baseline, rails, tree, call>>
    BY DEF Finish, evidence, world, counters, action
  <1> QED BY <1>1
          DEF BaselineSound, TakenFirst, CuredApart, ToleratedApart, NothingCured,
              BaselineDue, Over

LEMMA FreshSound ==
    ASSUME baseline = NoBaseline, NEW d, tree = FreshTree(d), ~ sameRed,
           report = NoReport, reason = "none", pc # "dispatch"
    PROVE  BaselineSound
  BY DEF BaselineSound, TakenFirst, CuredApart, ToleratedApart, NoBaseline, FreshTree,
         NoReport

LEMMA BaselineStep == ASSUME TypeOK, BaselineSound, [Next]_vars PROVE BaselineSound'
  <1>1. CASE StartRun
    <2>1. baseline' = NoBaseline /\ ~ sameRed' /\ report' = NoReport /\ reason' = "none"
          /\ pc' # "dispatch" /\ (\E d \in SUBSET Paths : tree' = FreshTree(d))
      BY <1>1 DEF StartRun
    <2> QED BY <2>1
            DEF BaselineSound, TakenFirst, CuredApart, ToleratedApart, NoBaseline, FreshTree,
                NoReport
  <1>2. CASE Cancel \/ UNCHANGED vars
    <2>1. UNCHANGED <<pc, reason, report, last, sameRed, baseline, rails, tree, call>>
      BY <1>2 DEF Cancel, vars, control, evidence, counters, world, action
    <2> QED BY <2>1
            DEF BaselineSound, TakenFirst, CuredApart, ToleratedApart, NothingCured,
                BaselineDue
  <1> QED BY <1>1, <1>2, TopSound, RailsSound, DelegationSound, CallSound,
             BeforeEditSound, DemandSound, DispatchSound, VerifySound, NudgeSound,
             FinishVerifiesSound, FinishSound DEF Next, LoopStep

LEMMA InvariantOfBaseline == Spec => []BaselineSound
  <1>1. Init => BaselineSound
    BY FreshSound DEF Init
  <1> QED BY <1>1, BaselineStep, TypeCorrect, PTL DEF Spec

-----------------------------------------------------------------------------
(* What follows *)

\* No baseline is a verdict on what an edit or a command of the run has changed
\* (baseline.go, loop.go ensureBaseline).
THEOREM BaselineIsOfTheHandedTree == Spec => []BaselinePristine
  <1>1. BaselineSound => BaselinePristine
    BY DEF BaselineSound, TakenFirst, BaselinePristine
  <1> QED BY <1>1, InvariantOfBaseline, PTL

\* A test the verify gate has seen passing since the baseline was taken excuses no
\* later red and no tolerated success (baseline.go retire).
THEOREM FlakesExcuseNothing == Spec => []FlakesNeverExcused
  <1>1. BaselineSound => FlakesNeverExcused
    BY DEF BaselineSound, CuredApart, ToleratedApart, NothingCured, FlakesNeverExcused, Over
  <1> QED BY <1>1, InvariantOfBaseline, PTL

-----------------------------------------------------------------------------
(* What a run may claim *)

(* A success is earned *)

\* A verdict comes from a verifier, and a green one from a verify that ran.
VerdictsAreJudged ==
    /\ ~ HasVerifier => last = NoVerdict
    /\ Passed(last) => tree.judged

\* From the first edit on a change is owed a verify until the gate has seen it.
EditsAreOwed ==
    HasVerifier /\ edited =>
        /\ pc \notin Over /\ tree.stale => dirty
        /\ dirty => pc = "verify"

\* A run that is stopping over a green verify and an edit has verified the tree
\* it leaves; so has one that stops as a success.
StopsAreHonest ==
    pc = "stop" =>
        /\ edited /\ Passed(last) => ~ tree.stale
        /\ reason = "success" =>
              Passed(last) /\ ~ tree.stale /\ (edited \/ call.tool = "finish")
        /\ reason = "tolerated" =>
              /\ HasVerifier /\ tree.judged /\ ~ tree.stale
              /\ edited /\ last.tests \subseteq baseline.excused

EarnedInv ==
    /\ VerdictsAreJudged /\ EditsAreOwed /\ StopsAreHonest
    /\ edited => rails.acted
    /\ pc = "finish" => call.tool = "finish"
    /\ pc # "idle" => report = NoReport
    /\ SuccessIsEarned

-----------------------------------------------------------------------------
(* A change is owed a verify *)

\* The first nudge of a run may send a child, whose changes nobody owes a verify.
NudgesDelegate == DelegateAfterReads = 0 /\ CanDelegate /\ MaxHandoffs > 0

\* Between the gate and the next call only a child has changed anything, and then
\* no nudge is due in that turn.
ChangesAreOwed ==
    HasVerifier =>
        /\ pc \notin Over /\ tree.stale => dirty
        /\ dirty => pc \notin {"decide", "rails", "explore", "demand"}
        /\ dirty /\ pc = "nudge" => explore.total = 0

-----------------------------------------------------------------------------
(* What the verify command names *)

\* In the first run of a Loop no file it was given counts as its own creation.
GivenApart ==
    /\ runs = 0 => pc = "idle" /\ loop.created = {}
    /\ tree.given \subseteq tree.onDisk
    /\ runs <= 1 => loop.created \cap tree.given = {} /\ ~ tree.specEdited

-----------------------------------------------------------------------------
(* The fields that an update leaves alone *)

LEMMA ActedKept ==
    ASSUME TypeOK
    PROVE  /\ \A x, y : [rails EXCEPT !.seeded = x, !.stall = y].acted = rails.acted
           /\ \A x : [rails EXCEPT !.handoffs = x].acted = rails.acted
           /\ \A x : [rails EXCEPT !.verified = x].acted = rails.acted
           /\ Rescued(rails).acted = rails.acted
           /\ [Rescued(rails) EXCEPT !.editFails = 0].acted = rails.acted
  BY DEF TypeOK, RailCounters, Rescued

LEMMA TreeKept ==
    ASSUME TypeOK
    PROVE  /\ \A x : LET t == [tree EXCEPT !.pristine = x]
                     IN t.stale = tree.stale /\ t.judged = tree.judged
           /\ \A x : LET t == [tree EXCEPT !.moved = x]
                     IN t.stale = tree.stale /\ t.judged = tree.judged
           /\ \A t \in AfterChild : t.judged = tree.judged
  BY DEF TypeOK, Trees, AfterChild

\* A verify that ran settles what was owed; one that did not changes nothing.
LEMMA VerifySettles ==
    ASSUME TypeOK, NEW v, NEW t \in {AfterVerify(tree, v), AfterGlimpse(tree, v)}
    PROVE  /\ v # CannotRun => t.judged /\ ~ t.stale
           /\ v = CannotRun => t.judged = tree.judged /\ t.stale = tree.stale
  <1>1. tree \in Trees
    BY DEF TypeOK
  <1>2. CASE v = CannotRun
    BY <1>1, <1>2 DEF AfterVerify, AfterGlimpse, Verified, Trees
  <1>3. CASE v # CannotRun
    BY <1>1, <1>3 DEF AfterVerify, AfterGlimpse, Verified, Trees
  <1> QED BY <1>2, <1>3

LEMMA PassedRan == \A v : Passed(v) => v # CannotRun /\ v # NoVerdict
  BY DEF Passed, CannotRun, NoVerdict

-----------------------------------------------------------------------------
(* The steps that neither judge nor report *)

\* What they leave alone: from the first edit on, also the tree and what is owed.
Plain ==
    /\ UNCHANGED <<last, edited, report>>
    /\ tree'.judged = tree.judged /\ rails'.acted = rails.acted
    /\ edited => dirty' = dirty /\ tree'.stale = tree.stale

LEMMA PlainEarned ==
    ASSUME EarnedInv, Plain, pc \notin Over, pc' \notin {"idle", "verify"},
           pc = "verify" => ~ (HasVerifier /\ dirty),
           pc' = "stop" => reason' \notin {"success", "tolerated"},
           pc' = "finish" => call'.tool = "finish"
    PROVE  EarnedInv'
  <1>1. HasVerifier /\ edited => ~ dirty /\ ~ tree.stale
    BY DEF EarnedInv, EditsAreOwed
  <1>2. Passed(last) => HasVerifier
    BY PassedRan DEF EarnedInv, VerdictsAreJudged
  <1>3. VerdictsAreJudged' /\ EditsAreOwed' /\ StopsAreHonest'
    BY <1>1, <1>2
    DEF EarnedInv, VerdictsAreJudged, EditsAreOwed, StopsAreHonest, Plain
  <1>4. report' = NoReport /\ SuccessIsEarned'
    BY DEF EarnedInv, Plain, Over, SuccessIsEarned, NoReport
  <1> QED BY <1>3, <1>4 DEF EarnedInv, Plain

LEMMA TopEarned ==
    ASSUME TypeOK, EarnedInv,
           \/ Gate \/ TopInterrupted \/ BudgetTrips \/ ChurnRail \/ BeginTurn
           \/ ActFails \/ ContextShrinks \/ EmptyTurn \/ PromiseNudge \/ ProseTurn
    PROVE  EarnedInv'
  <1>1. pc \notin Over \cup {"verify"} /\ pc' \notin {"idle", "verify", "finish"}
        /\ (pc' = "stop" => reason' \notin {"success", "tolerated"})
    BY DEF Gate, TopInterrupted, BudgetTrips, ChurnRail, BeginTurn, ActFails,
           ContextShrinks, EmptyTurn, PromiseNudge, ProseTurn, Goto, Stop, Over
  <1>2. UNCHANGED <<last, edited, dirty, report, tree>>
    BY DEF Gate, TopInterrupted, BudgetTrips, ChurnRail, BeginTurn, ActFails,
           ContextShrinks, EmptyTurn, PromiseNudge, ProseTurn, evidence, control, world
  <1>3. rails'.acted = rails.acted
    <2>1. CASE ChurnRail
      BY <2>1, ActedKept DEF ChurnRail
    <2>2. CASE EmptyTurn \/ PromiseNudge
      BY <2>2 DEF EmptyTurn, PromiseNudge, TypeOK, RailCounters
    <2>3. CASE rails' = rails
      BY <2>3
    <2> QED BY <2>1, <2>2, <2>3
            DEF Gate, TopInterrupted, BudgetTrips, BeginTurn, ActFails, ContextShrinks,
                ProseTurn, counters
  <1> QED BY <1>1, <1>2, <1>3, PlainEarned DEF Plain

LEMMA RailsEarned ==
    ASSUME TypeOK, EarnedInv,
           \/ FinishRefused \/ FinishUnverified \/ VerifySkipped
           \/ EditFailRail \/ RepeatRail \/ ExploreRail \/ ExploreTokensSpent
           \/ SaturationRail \/ NoNudge \/ BeforeEdit \/ DemandEdit \/ Stall
    PROVE  EarnedInv'
  <1>1. pc \notin Over /\ pc' \notin {"idle", "verify", "finish"}
        /\ (pc = "verify" => ~ (HasVerifier /\ dirty))
    BY DEF FinishRefused, FinishUnverified, VerifySkipped, EditFailRail, RepeatRail,
           ExploreRail, ExploreTokensSpent, SaturationRail, NoNudge, BeforeEdit,
           DemandEdit, Stall, Goto, Stop, Over
  <1>2. pc' = "stop" => reason' \notin {"success", "tolerated"}
    BY DEF FinishRefused, FinishUnverified, VerifySkipped, EditFailRail, RepeatRail,
           ExploreRail, ExploreTokensSpent, SaturationRail, NoNudge, BeforeEdit,
           DemandEdit, Stall, Goto, Stop
  <1>3. UNCHANGED <<last, edited, dirty, report>>
    BY DEF FinishRefused, FinishUnverified, VerifySkipped, EditFailRail, RepeatRail,
           ExploreRail, ExploreTokensSpent, SaturationRail, NoNudge, BeforeEdit,
           DemandEdit, Stall, evidence, control
  <1>4. tree'.judged = tree.judged /\ tree'.stale = tree.stale
    <2>1. CASE BeforeEdit
      BY <2>1, TreeKept DEF BeforeEdit
    <2>2. CASE DemandEdit
      BY <2>2, TreeKept DEF DemandEdit
    <2>3. CASE Stall
      BY <2>3, TreeKept DEF Stall
    <2>4. CASE tree' = tree
      BY <2>4
    <2> QED BY <2>1, <2>2, <2>3, <2>4
            DEF FinishRefused, FinishUnverified, VerifySkipped, EditFailRail, RepeatRail,
                ExploreRail, ExploreTokensSpent, SaturationRail, NoNudge, world
  <1>5. rails'.acted = rails.acted
    <2>1. CASE EditFailRail
      BY <2>1, ActedKept DEF EditFailRail
    <2>2. CASE RepeatRail
      <3>1. rails' \in {rails, Rescued(rails)}
        BY <2>2 DEF RepeatRail
      <3> QED BY <3>1, ActedKept
    <2>3. CASE ExploreRail
      BY <2>3, ActedKept DEF ExploreRail
    <2>4. CASE DemandEdit
      BY <2>4, ActedKept DEF DemandEdit
    <2>5. CASE Stall
      BY <2>5, ActedKept DEF Stall
    <2>6. CASE rails' = rails
      BY <2>6
    <2> QED BY <2>1, <2>2, <2>3, <2>4, <2>5, <2>6
            DEF FinishRefused, FinishUnverified, VerifySkipped, ExploreTokensSpent,
                SaturationRail, NoNudge, BeforeEdit, counters
  <1> QED BY <1>1, <1>2, <1>3, <1>4, <1>5, PlainEarned DEF Plain

LEMMA CallEarned ==
    ASSUME EarnedInv, NEW m \in Moves, Calls(m)
    PROVE  EarnedInv'
  <1>1. pc \notin Over \cup {"verify"} /\ pc' \notin {"idle", "verify", "stop"}
        /\ (pc' = "finish" => call'.tool = "finish")
    BY DEF Calls, Goto, Over, IsEdit
  <1>2. Plain
    BY DEF Calls, evidence, control, counters, world, Plain
  <1> QED BY <1>1, <1>2, PlainEarned

\* A child is sent only while the run has made no edit.
LEMMA DelegationEarned ==
    ASSUME TypeOK, EarnedInv, Explore \/ NudgeDelegates
    PROVE  EarnedInv'
  <1>1. pc \notin Over \cup {"verify"} /\ pc' \notin {"idle", "verify", "stop", "finish"}
    BY DEF Explore, NudgeDelegates, Goto, Over
  <1>2. UNCHANGED <<last, edited, report>>
    BY DEF Explore, NudgeDelegates, evidence, control
  <1>3. rails'.acted = rails.acted
    <2>1. CASE Explore
      BY <2>1, ActedKept DEF Explore
    <2>2. CASE NudgeDelegates
      BY <2>2, ActedKept DEF NudgeDelegates
    <2> QED BY <2>1, <2>2
  <1>4. edited => dirty' = dirty /\ tree'.stale = tree.stale
    <2>1. CASE Explore
      BY <2>1 DEF Explore
    <2>2. CASE NudgeDelegates
      BY <2>2 DEF NudgeDelegates, HandoffDue, EarnedInv
    <2> QED BY <2>1, <2>2
  <1>5. tree'.judged = tree.judged
    BY TreeKept DEF Explore, NudgeDelegates
  <1> QED BY <1>1, <1>2, <1>3, <1>4, <1>5, PlainEarned DEF Plain

-----------------------------------------------------------------------------
(* The steps that judge, change or report *)

\* An outcome that changes the tree, short of a failure half way, is a mutation.
LEMMA ChangeIsMutation ==
    ASSUME NEW m \in Moves \cup {NoMove}, NEW o \in PossibleOutcomes(m),
           TRUE \in Changes(m, o), o # "partial"
    PROVE  Mutated(m, o)
  <1>1. CASE o = "landed"
    BY <1>1, OutcomeType DEF Mutated, IsEdit, ReadOnlyTurn, Errored
  <1>2. CASE m.tool \in {"command", "task", "other"} /\ o \in {"ok", "exit", "timeout"}
    BY <1>2 DEF Mutated, ReadOnlyTurn, Errored
  <1> QED BY <1>1, <1>2 DEF Changes

LEMMA DispatchSettles ==
    ASSUME TypeOK, Dispatch
    PROVE  /\ pc = "dispatch" /\ UNCHANGED <<last, report, call>>
           /\ tree'.judged = tree.judged
           /\ \/ /\ pc' = "stop" /\ reason' = "safety"
                 /\ UNCHANGED <<edited, dirty>>
                 /\ rails'.acted = rails.acted /\ tree'.stale = tree.stale
              \/ /\ pc' = "verify"
                 /\ edited' => edited \/ (rails'.acted /\ dirty')
                 /\ rails.acted => rails'.acted
                 /\ dirty => dirty'
                 /\ tree'.stale => tree.stale \/ dirty'
  <1>1. PICK o \in PossibleOutcomes(call), c \in BOOLEAN, d \in SUBSET Paths :
            /\ c \in Changes(call, o)
            /\ tree' = TreeAfter(call, o, c, d)
            /\ \/ /\ o = "scope" /\ Stop("safety")
                  /\ UNCHANGED <<rails, edited, dirty>>
               \/ /\ Goto("verify")
                  /\ rails' = RailsAfter(call, o)
                  /\ edited' = (edited \/ EditWent(call, o))
                  /\ dirty' = (dirty \/ Mutated(call, o))
    BY DEF Dispatch
  <1>2. pc = "dispatch" /\ UNCHANGED <<last, report, call>>
    BY DEF Dispatch, control
  <1>3. /\ tree'.judged = tree.judged
        /\ tree'.stale = (tree.stale \/ (c /\ o # "partial"))
    BY <1>1 DEF TreeAfter, TypeOK, Trees
  <1>4. c /\ o # "partial" => Mutated(call, o)
    BY <1>1, ChangeIsMutation DEF TypeOK
  <1>5. CASE o = "scope" /\ Stop("safety") /\ UNCHANGED <<rails, edited, dirty>>
    <2>1. ~ c
      BY <1>1, <1>5 DEF Changes
    <2>2. tree.stale \in BOOLEAN
      BY DEF TypeOK, Trees
    <2> QED BY <1>2, <1>3, <1>5, <2>1, <2>2 DEF Stop
  <1>6. CASE /\ Goto("verify")
             /\ rails' = RailsAfter(call, o)
             /\ edited' = (edited \/ EditWent(call, o))
             /\ dirty' = (dirty \/ Mutated(call, o))
    <2>1. rails'.acted = (rails.acted \/ (~ IsReadTool(call) /\ ~ Errored(o)))
      BY <1>6 DEF RailsAfter, TypeOK, RailCounters
    <2>2. EditWent(call, o) => Mutated(call, o) /\ ~ IsReadTool(call) /\ ~ Errored(o)
      BY DEF EditWent, Mutated, ReadOnlyTurn, IsReadTool, IsEdit
    <2>3. tree'.stale => tree.stale \/ dirty'
      BY <1>3, <1>4, <1>6
    <2> QED BY <1>2, <1>3, <1>6, <2>1, <2>2, <2>3 DEF Goto
  <1> QED BY <1>1, <1>5, <1>6

LEMMA DispatchEarned ==
    ASSUME TypeOK, EarnedInv, Dispatch
    PROVE  EarnedInv'
  <1>1. report' = NoReport /\ SuccessIsEarned'
    BY DispatchSettles DEF EarnedInv, SuccessIsEarned, NoReport
  <1>2. CASE pc' = "stop"
    BY <1>1, <1>2, DispatchSettles, PassedRan
    DEF EarnedInv, VerdictsAreJudged, EditsAreOwed, StopsAreHonest, Over
  <1>3. CASE pc' = "verify"
    BY <1>1, <1>3, DispatchSettles
    DEF EarnedInv, VerdictsAreJudged, EditsAreOwed, StopsAreHonest, Over
  <1> QED BY <1>2, <1>3, DispatchSettles

LEMMA VerifyEarned ==
    ASSUME TypeOK, EarnedInv, VerifyRuns
    PROVE  EarnedInv'
  <1>1. PICK v \in Answers : Judge(v)
    BY DEF VerifyRuns
  <1>2. /\ pc = "verify" /\ HasVerifier /\ ~ dirty' /\ UNCHANGED <<edited, report, call>>
        /\ last' = v /\ tree' = AfterVerify(tree, v)
    BY <1>1 DEF VerifyRuns, Judge, control, action
  <1>3. report' = NoReport /\ SuccessIsEarned'
    BY <1>2 DEF EarnedInv, SuccessIsEarned, NoReport
  <1>4. rails'.acted = rails.acted
    <2>1. rails' = rails
          \/ \E r : rails' = [rails EXCEPT !.verified = TRUE, !.lastRed = r.lastRed,
                                            !.sameReds = r.sameReds]
      BY <1>1 DEF Judge
    <2> QED BY <2>1 DEF TypeOK, RailCounters
  <1>5. CASE v = CannotRun
    <2>1. pc' = "stop" /\ reason' \in {"interrupted", "error"}
      BY <1>1, <1>5 DEF Judge, Stop
    <2>2. ~ Passed(last')
      BY <1>2, <1>5, PassedRan
    <2> QED BY <1>2, <1>3, <1>4, <2>1, <2>2
            DEF EarnedInv, VerdictsAreJudged, EditsAreOwed, StopsAreHonest, Over
  <1>6. CASE v # CannotRun
    <2>1. pc' = "decide" \/ (pc' = "stop" /\ reason' = "safety")
      BY <1>1, <1>6 DEF Judge, Stop, Goto
    <2>2. tree'.judged /\ ~ tree'.stale
      BY <1>2, <1>6, VerifySettles
    <2> QED BY <1>2, <1>3, <1>4, <2>1, <2>2
            DEF EarnedInv, VerdictsAreJudged, EditsAreOwed, StopsAreHonest, Over
  <1> QED BY <1>5, <1>6

LEMMA NudgeEarned ==
    ASSUME TypeOK, EarnedInv, Nudge
    PROVE  EarnedInv'
  <1>1. pc = "nudge" /\ pc' = "demand" /\ UNCHANGED <<report, edited, call>>
    BY DEF Nudge, Goto, control, action
  <1>2. CASE UNCHANGED <<rails, dirty, last, tree>>
    BY <1>1, <1>2, PlainEarned DEF Plain, Over
  <1>3. CASE /\ HasVerifier /\ ~ dirty' /\ rails' = [rails EXCEPT !.verified = TRUE]
             /\ \E v \in Answers : last' = v /\ tree' = AfterGlimpse(tree, v)
    <2>1. PICK v \in Answers : last' = v /\ tree' = AfterGlimpse(tree, v)
      BY <1>3
    <2>2. /\ v # CannotRun => tree'.judged /\ ~ tree'.stale
          /\ v = CannotRun => tree'.judged = tree.judged /\ tree'.stale = tree.stale
      BY <2>1, VerifySettles
    <2>3. rails'.acted = rails.acted
      BY <1>3, ActedKept
    <2>4. report' = NoReport /\ SuccessIsEarned'
      BY <1>1 DEF EarnedInv, SuccessIsEarned, NoReport
    <2>5. edited' => ~ tree'.stale
      BY <1>1, <1>3, <2>2 DEF EarnedInv, EditsAreOwed, Over
    <2>6. VerdictsAreJudged'
      BY <1>3, <2>1, <2>2, PassedRan DEF VerdictsAreJudged
    <2> QED BY <1>1, <1>3, <2>3, <2>4, <2>5, <2>6
            DEF EarnedInv, EditsAreOwed, StopsAreHonest
  <1> QED BY <1>2, <1>3 DEF Nudge

LEMMA FinishVerifiesEarned ==
    ASSUME TypeOK, EarnedInv, FinishVerifies
    PROVE  EarnedInv'
  <1>1. PICK v \in Answers :
            /\ last' = v /\ tree' = AfterVerify(tree, v)
            /\ \/ Passed(v) /\ Stop("success")
               \/ edited /\ OutOfReach(baseline, v) /\ Stop("tolerated")
               \/ ~ Passed(v) /\ Stop("answered")
    BY DEF FinishVerifies
  <1>2. /\ pc = "finish" /\ pc' = "stop" /\ HasVerifier /\ call.tool = "finish"
        /\ UNCHANGED <<call, dirty, baseline, edited, report, rails>>
    BY <1>1 DEF FinishVerifies, Stop, control, action, counters, EarnedInv
  <1>3. report' = NoReport /\ SuccessIsEarned'
    BY <1>2 DEF EarnedInv, SuccessIsEarned, NoReport
  <1>4. Passed(v) => tree'.judged /\ ~ tree'.stale
    BY <1>1, VerifySettles, PassedRan
  <1>5. OutOfReach(baseline, v) =>
            tree'.judged /\ ~ tree'.stale /\ v.tests \subseteq baseline.excused
    <2> SUFFICES ASSUME UnchangedSince(baseline, v)
                 PROVE  tree'.judged /\ ~ tree'.stale /\ v.tests \subseteq baseline.excused
      BY DEF OutOfReach
    <2>1. v \in Reds /\ v.tests \subseteq baseline.excused
      BY DEF UnchangedSince
    <2>2. v # CannotRun
      BY <2>1, AgentLoopAssumption DEF CannotRun
    <2> QED BY <1>1, <2>1, <2>2, VerifySettles
  <1>6. VerdictsAreJudged' /\ StopsAreHonest'
    BY <1>1, <1>2, <1>4, <1>5 DEF VerdictsAreJudged, StopsAreHonest, Stop
  <1>7. EditsAreOwed' /\ (edited' => rails'.acted)
    BY <1>2 DEF EarnedInv, EditsAreOwed, Over
  <1> QED BY <1>2, <1>3, <1>6, <1>7 DEF EarnedInv

LEMMA DecideEarned ==
    ASSUME TypeOK, EarnedInv, Decide
    PROVE  EarnedInv'
  <1>1. pc = "decide" /\ UNCHANGED <<last, edited, dirty, report, rails, tree, call>>
    BY DEF Decide, evidence, control, world, action
  <1>2. pc' \in {"rails", "top"} \/ (pc' = "stop" /\ reason' = "success" /\ GreenEdit)
    BY DEF Decide, Goto, Stop
  <1>3. CASE pc' # "stop"
    BY <1>1, <1>2, <1>3, PlainEarned DEF Plain, Over
  <1>4. CASE pc' = "stop"
    <2>1. Passed(last) /\ edited /\ HasVerifier
      BY <1>2, <1>4, PassedRan DEF GreenEdit, EarnedInv, VerdictsAreJudged
    <2>2. ~ dirty /\ ~ tree.stale
      BY <1>1, <2>1 DEF EarnedInv, EditsAreOwed, Over
    <2> QED BY <1>1, <1>2, <1>4, <2>1, <2>2
            DEF EarnedInv, VerdictsAreJudged, EditsAreOwed, StopsAreHonest,
                SuccessIsEarned, NoReport
  <1> QED BY <1>3, <1>4

LEMMA FinishEarned ==
    ASSUME EarnedInv, Finish
    PROVE  EarnedInv'
  <1>1. /\ pc = "stop" /\ pc' = "idle"
        /\ report'.reason = FinalReason /\ report'.tolerated = (reason = "tolerated")
        /\ UNCHANGED <<reason, call, last, dirty, edited, baseline, rails, tree>>
    BY DEF Finish, evidence, world, counters, action
  <1>2. SuccessIsEarned'
    <2> SUFFICES ASSUME FinalReason = "success" PROVE SuccessIsEarned'
      BY <1>1 DEF SuccessIsEarned
    <2>1. reason = "tolerated" \/ reason = "success" \/ GreenEdit
      BY DEF FinalReason
    <2>2. CASE reason = "tolerated"
      BY <1>1, <2>2 DEF EarnedInv, StopsAreHonest, SuccessIsEarned
    <2>3. CASE reason = "success" \/ GreenEdit
      <3>1. Passed(last) /\ ~ tree.stale /\ (edited \/ call.tool = "finish")
        BY <1>1, <2>3 DEF EarnedInv, StopsAreHonest, GreenEdit
      <3>2. HasVerifier /\ tree.judged
        BY <3>1, PassedRan DEF EarnedInv, VerdictsAreJudged
      <3> QED BY <1>1, <3>1, <3>2 DEF SuccessIsEarned
    <2> QED BY <2>1, <2>2, <2>3
  <1> QED BY <1>1, <1>2
          DEF EarnedInv, VerdictsAreJudged, EditsAreOwed, StopsAreHonest, Over

\* Nothing has been edited, judged or reported yet.
LEMMA FreshEarned ==
    ASSUME last = NoVerdict, ~ edited, report = NoReport, pc \notin {"stop", "finish"}
    PROVE  EarnedInv
  BY PassedRan
  DEF EarnedInv, VerdictsAreJudged, EditsAreOwed, StopsAreHonest, SuccessIsEarned, NoReport

LEMMA EarnedStep == ASSUME TypeOK, EarnedInv, [Next]_vars PROVE EarnedInv'
  <1>1. CASE StartRun
    <2>1. last' = NoVerdict /\ ~ edited' /\ report' = NoReport /\ pc' \notin {"stop", "finish"}
      BY <1>1 DEF StartRun
    <2> QED BY <2>1, PassedRan
            DEF EarnedInv, VerdictsAreJudged, EditsAreOwed, StopsAreHonest,
                SuccessIsEarned, NoReport
  <1>2. CASE Cancel \/ UNCHANGED vars
    <2>1. UNCHANGED <<pc, reason, report, call, last, dirty, edited, baseline, rails, tree>>
      BY <1>2 DEF Cancel, vars, control, evidence, counters, world, action
    <2> QED BY <2>1
            DEF EarnedInv, VerdictsAreJudged, EditsAreOwed, StopsAreHonest,
                SuccessIsEarned
  <1> QED BY <1>1, <1>2, TopEarned, RailsEarned, CallEarned, DelegationEarned,
             DispatchEarned, VerifyEarned, NudgeEarned, FinishVerifiesEarned,
             DecideEarned, FinishEarned DEF Next, LoopStep

\* A run that reports success has a verdict on the tree as it is: green over a
\* landed edit or at the finish tool, or the baseline's own red (loop.go finish,
\* the DECIDE gate and the finish branch).
THEOREM SuccessesAreEarned == Spec => []SuccessIsEarned
  <1>1. Init => EarnedInv
    BY FreshEarned DEF Init
  <1>2. EarnedInv => SuccessIsEarned
    BY DEF EarnedInv
  <1> QED BY <1>1, <1>2, EarnedStep, TypeCorrect, PTL DEF Spec

-----------------------------------------------------------------------------
(* Changes *)

\* The steps that leave the tree and what is owed alone.
LEMMA PlainOwed ==
    ASSUME ChangesAreOwed, pc \notin Over, pc' # "idle",
           dirty' = dirty, tree'.stale = tree.stale,
           \/ pc' \notin {"decide", "rails", "explore", "nudge", "demand"}
           \/ HasVerifier => ~ dirty
    PROVE  ChangesAreOwed'
  BY DEF ChangesAreOwed, Over

LEMMA QuietOwed ==
    ASSUME TypeOK, ChangesAreOwed,
           \/ Gate \/ TopInterrupted \/ BudgetTrips \/ ChurnRail \/ BeginTurn
           \/ ActFails \/ ContextShrinks \/ EmptyTurn \/ PromiseNudge \/ ProseTurn
           \/ (\E m \in Moves : Calls(m)) \/ FinishRefused \/ FinishUnverified
           \/ BeforeEdit \/ ExploreRail \/ ExploreTokensSpent \/ SaturationRail
           \/ NoNudge \/ DemandEdit \/ Stall
    PROVE  ChangesAreOwed'
  <1>1. pc \notin Over /\ pc' \notin {"idle", "decide", "rails", "explore", "nudge", "demand"}
    BY DEF Gate, TopInterrupted, BudgetTrips, ChurnRail, BeginTurn, ActFails,
           ContextShrinks, EmptyTurn, PromiseNudge, ProseTurn, Calls, FinishRefused,
           FinishUnverified, BeforeEdit, ExploreRail, ExploreTokensSpent,
           SaturationRail, NoNudge, DemandEdit, Stall, Goto, Stop, Over
  <1>2. dirty' = dirty
    BY DEF Gate, TopInterrupted, BudgetTrips, ChurnRail, BeginTurn, ActFails,
           ContextShrinks, EmptyTurn, PromiseNudge, ProseTurn, Calls, FinishRefused,
           FinishUnverified, BeforeEdit, ExploreRail, ExploreTokensSpent,
           SaturationRail, NoNudge, DemandEdit, Stall, evidence
  <1>3. tree'.stale = tree.stale
    <2>1. CASE BeforeEdit
      BY <2>1, TreeKept DEF BeforeEdit
    <2>2. CASE DemandEdit
      BY <2>2, TreeKept DEF DemandEdit
    <2>3. CASE Stall
      BY <2>3, TreeKept DEF Stall
    <2>4. CASE tree' = tree
      BY <2>4
    <2> QED BY <2>1, <2>2, <2>3, <2>4
            DEF Gate, TopInterrupted, BudgetTrips, ChurnRail, BeginTurn, ActFails,
                ContextShrinks, EmptyTurn, PromiseNudge, ProseTurn, Calls, FinishRefused,
                FinishUnverified, ExploreRail, ExploreTokensSpent, SaturationRail,
                NoNudge, world
  <1> QED BY <1>1, <1>2, <1>3, PlainOwed

\* On the way from the gate to the exploration rail nothing is owed.
LEMMA GateOwed ==
    ASSUME ChangesAreOwed, VerifySkipped \/ Decide \/ EditFailRail \/ RepeatRail
    PROVE  ChangesAreOwed'
  <1>1. pc \notin Over /\ pc' # "idle" /\ UNCHANGED <<dirty, tree>>
    BY DEF VerifySkipped, Decide, EditFailRail, RepeatRail, Goto, Stop, Over,
           evidence, world
  <1>2. HasVerifier => ~ dirty
    BY DEF VerifySkipped, Decide, EditFailRail, RepeatRail, ChangesAreOwed
  <1> QED BY <1>1, <1>2, PlainOwed

LEMMA DispatchOwed ==
    ASSUME TypeOK, ChangesAreOwed, Dispatch
    PROVE  ChangesAreOwed'
  <1>1. pc = "dispatch" /\ pc' \in {"stop", "verify"}
    BY DispatchSettles
  <1>2. pc' = "verify" => (tree'.stale => tree.stale \/ dirty') /\ (dirty => dirty')
    BY DispatchSettles
  <1>3. pc' = "stop" => dirty' = dirty
    BY DispatchSettles
  <1> QED BY <1>1, <1>2, <1>3 DEF ChangesAreOwed, Over

LEMMA VerifyOwed ==
    ASSUME TypeOK, ChangesAreOwed, VerifyRuns
    PROVE  ChangesAreOwed'
  <1>1. PICK v \in Answers : Judge(v)
    BY DEF VerifyRuns
  <1>2. ~ dirty' /\ tree' = AfterVerify(tree, v)
    BY <1>1 DEF VerifyRuns, Judge
  <1>3. CASE v = CannotRun
    BY <1>1, <1>2, <1>3 DEF Judge, Stop, ChangesAreOwed, Over
  <1>4. CASE v # CannotRun
    <2>1. ~ tree'.stale
      BY <1>2, <1>4, VerifySettles
    <2> QED BY <1>2, <2>1 DEF ChangesAreOwed
  <1> QED BY <1>3, <1>4

\* A child that answered leaves its changes to the gate of the next turn, and
\* starts the count of reads anew.
LEMMA ExploreOwed ==
    ASSUME TypeOK, ChangesAreOwed, Explore
    PROVE  ChangesAreOwed'
  <1>1. pc = "explore" /\ pc' = "nudge" /\ (HasVerifier => ~ dirty)
    BY DEF Explore, Goto, ChangesAreOwed
  <1>2. CASE UNCHANGED <<dirty, tree>>
    BY <1>1, <1>2 DEF ChangesAreOwed, Over
  <1>3. CASE /\ dirty' = TRUE
             /\ explore' = [Explored EXCEPT !.sinceEdit = 0, !.streak = 0,
                                            !.total = 0, !.nudgedAt = 0]
    <2>1. explore'.total = 0
      BY <1>3, ExploredType DEF ExploreRails
    <2> QED BY <1>1, <1>3, <2>1 DEF ChangesAreOwed
  <1> QED BY <1>2, <1>3 DEF Explore

\* A nudge is due only after a read of this run's own, when nothing is owed: its
\* verify, even one that did not run, forgets nothing.
LEMMA NudgeOwed ==
    ASSUME TypeOK, ChangesAreOwed, Nudge
    PROVE  ChangesAreOwed'
  <1>1. pc = "nudge" /\ pc' = "demand" /\ explore.total > 0
    BY DEF Nudge, NudgeDue, Goto
  <1>2. explore.total \in Nat
    BY DEF TypeOK, ExploreRails
  <1>3. HasVerifier => ~ dirty /\ ~ tree.stale
    BY <1>1, <1>2 DEF ChangesAreOwed, Over
  <1>4. CASE UNCHANGED <<rails, dirty, last, tree>>
    BY <1>1, <1>3, <1>4 DEF ChangesAreOwed
  <1>5. CASE ~ dirty' /\ \E v \in Answers : last' = v /\ tree' = AfterGlimpse(tree, v)
    <2>1. PICK v \in Answers : tree' = AfterGlimpse(tree, v)
      BY <1>5
    <2>2. tree'.stale => tree.stale
      BY <2>1, VerifySettles
    <2> QED BY <1>1, <1>3, <1>5, <2>2 DEF ChangesAreOwed
  <1> QED BY <1>4, <1>5 DEF Nudge

LEMMA NudgesKeepToThemselves ==
    ASSUME TypeOK, ~ NudgesDelegate
    PROVE  ~ NudgeDelegates
  <1> SUFFICES ASSUME HandoffDue PROVE FALSE
    BY DEF NudgeDelegates
  <1>1. rails.handoffs \in 0..MaxHandoffs /\ MaxHandoffs \in Nat
    BY LimitsAreNumbers DEF TypeOK, RailCounters
  <1> QED BY <1>1 DEF HandoffDue, HandoffLeft, NudgesDelegate

LEMMA EndOwed ==
    ASSUME ChangesAreOwed, FinishVerifies \/ Finish
    PROVE  ChangesAreOwed'
  <1>1. pc' \in Over /\ dirty' = dirty
    BY DEF FinishVerifies, Finish, Stop, Over, evidence
  <1> QED BY <1>1 DEF ChangesAreOwed, Over

LEMMA OwedStep ==
    ASSUME ~ NudgesDelegate, TypeOK, ChangesAreOwed, [Next]_vars
    PROVE  ChangesAreOwed'
  <1>1. CASE StartRun
    <2>1. ~ dirty' /\ ~ tree'.stale
      BY <1>1 DEF StartRun, FreshTree
    <2> QED BY <2>1 DEF ChangesAreOwed
  <1>2. CASE Cancel \/ UNCHANGED vars
    BY <1>2 DEF Cancel, vars, evidence, counters, world, ChangesAreOwed
  <1> QED BY <1>1, <1>2, QuietOwed, GateOwed, DispatchOwed, VerifyOwed, ExploreOwed,
             NudgeOwed, NudgesKeepToThemselves, EndOwed DEF Next, LoopStep

\* Where no nudge sends a child, the model is never asked for its next call while a
\* change that a call made without failing is neither verified nor owed a verify
\* (loop.go mutated, mutatedSinceVerify).
THEOREM NoChangeIsForgotten ==
    ASSUME ~ NudgesDelegate
    PROVE  Spec => []MutationsAreVerified
  <1>1. Init => ChangesAreOwed
    BY DEF Init, FreshTree, ChangesAreOwed
  <1>2. ChangesAreOwed => MutationsAreVerified
    BY DEF ChangesAreOwed, MutationsAreVerified, Over
  <1>3. ChangesAreOwed /\ TypeOK /\ [Next]_vars => ChangesAreOwed'
    BY OwedStep
  <1> QED BY <1>1, <1>2, <1>3, TypeCorrect, PTL DEF Spec

-----------------------------------------------------------------------------
(* What the verify command names *)

\* The steps that leave the files and what counts as created alone.
LEMMA SameFilesApart ==
    ASSUME GivenApart, runs' = runs, pc = "idle" => pc' = "idle",
           loop'.created = loop.created, tree'.specEdited = tree.specEdited,
           tree'.given \subseteq tree.given, tree'.given \subseteq tree'.onDisk
    PROVE  GivenApart'
  BY DEF GivenApart

LEMMA FilesKept ==
    ASSUME TypeOK
    PROVE  /\ \A x : LET t == [tree EXCEPT !.pristine = x]
                     IN /\ t.given = tree.given /\ t.onDisk = tree.onDisk
                        /\ t.specEdited = tree.specEdited
           /\ \A x : LET t == [tree EXCEPT !.moved = x]
                     IN /\ t.given = tree.given /\ t.onDisk = tree.onDisk
                        /\ t.specEdited = tree.specEdited
           /\ \A v : \A t \in {AfterVerify(tree, v), AfterGlimpse(tree, v)} :
                     /\ t.given = tree.given /\ t.onDisk = tree.onDisk
                     /\ t.specEdited = tree.specEdited
           /\ \A t \in AfterChild \ {tree} :
                     /\ t.given \subseteq tree.given /\ t.given \subseteq t.onDisk
                     /\ t.specEdited = tree.specEdited
           /\ \A x : [loop EXCEPT !.editOnly = x].created = loop.created
           /\ \A x : [loop EXCEPT !.shrinks = x].created = loop.created
  <1>1. tree \in Trees /\ loop \in LoopFields
    BY DEF TypeOK
  <1>2. ASSUME NEW v, NEW t \in {AfterVerify(tree, v), AfterGlimpse(tree, v)}
        PROVE  /\ t.given = tree.given /\ t.onDisk = tree.onDisk
               /\ t.specEdited = tree.specEdited
    <2>1. CASE v = CannotRun
      BY <1>1, <1>2, <2>1 DEF AfterVerify, AfterGlimpse, Verified, Trees
    <2>2. CASE v # CannotRun
      BY <1>1, <1>2, <2>2 DEF AfterVerify, AfterGlimpse, Verified, Trees
    <2> QED BY <2>1, <2>2
  <1>3. ASSUME NEW t \in AfterChild \ {tree}
        PROVE  /\ t.given \subseteq tree.given /\ t.given \subseteq t.onDisk
               /\ t.specEdited = tree.specEdited
    <2>1. PICK d \in SUBSET Paths :
              t = [tree EXCEPT !.stale = TRUE, !.moved = TRUE, !.onDisk = d,
                               !.given = @ \cap d]
      BY <1>3 DEF AfterChild
    <2> QED BY <1>1, <2>1 DEF Trees
  <1>4. \A x : /\ [loop EXCEPT !.editOnly = x].created = loop.created
               /\ [loop EXCEPT !.shrinks = x].created = loop.created
    BY <1>1 DEF LoopFields
  <1>5. /\ \A x : LET t == [tree EXCEPT !.pristine = x]
                  IN /\ t.given = tree.given /\ t.onDisk = tree.onDisk
                     /\ t.specEdited = tree.specEdited
        /\ \A x : LET t == [tree EXCEPT !.moved = x]
                  IN /\ t.given = tree.given /\ t.onDisk = tree.onDisk
                     /\ t.specEdited = tree.specEdited
    BY <1>1 DEF Trees
  <1> QED BY <1>2, <1>3, <1>4, <1>5

LEMMA DispatchApart ==
    ASSUME TypeOK, GivenApart, Dispatch
    PROVE  GivenApart'
  <1>1. PICK o \in PossibleOutcomes(call), c \in BOOLEAN, d \in SUBSET Paths :
            /\ d \in DisksAfter(call, o, c)
            /\ loop' = LoopAfter(call, o) /\ tree' = TreeAfter(call, o, c, d)
    BY DEF Dispatch
  <1>2. pc = "dispatch" /\ runs' = runs
    BY DEF Dispatch, control
  <1>3. /\ tree'.given = tree.given \cap d /\ tree'.onDisk = d
        /\ tree'.specEdited =
              (tree.specEdited \/ (o = "landed" /\ call.path \in SpecPaths \cap tree.given))
    BY <1>1 DEF TreeAfter, TypeOK, Trees
  <1>4. loop'.created \subseteq
            loop.created \cup (IF call.path \notin tree.onDisk THEN {call.path} ELSE {})
    BY <1>1 DEF LoopAfter, TypeOK, LoopFields
  <1>5. ASSUME runs <= 1, o = "landed" PROVE call.path \notin SpecPaths \cap tree.given
    <2>1. ~ Protected(call) /\ IsEdit(call)
      BY <1>5, OutcomeType DEF PossibleOutcomes, TypeOK
    <2>2. call.path \notin (SpecPaths \cap tree.onDisk) \ loop.created
      BY <2>1 DEF Protected
    <2> QED BY <1>5, <2>2 DEF GivenApart
  <1> QED BY <1>2, <1>3, <1>4, <1>5 DEF GivenApart

LEMMA ApartStep == ASSUME TypeOK, GivenApart, [Next]_vars PROVE GivenApart'
  <1>1. CASE StartRun
    <2>1. PICK d \in SUBSET Paths : tree' = FreshTree(d)
      BY <1>1 DEF StartRun
    <2>2. loop' = loop /\ runs' = runs + 1 /\ runs \in Nat
      BY <1>1 DEF StartRun, TypeOK
    <2>3. runs' <= 1 => loop'.created = {}
      BY <2>2 DEF GivenApart
    <2>4. runs' # 0
      BY <2>2
    <2> QED BY <2>1, <2>3, <2>4 DEF GivenApart, FreshTree
  <1>2. CASE Dispatch
    BY <1>2, DispatchApart
  <1>3. CASE ~ StartRun /\ ~ Dispatch
    <2>1. runs' = runs /\ (pc = "idle" => pc' = "idle")
      BY <1>3
      DEF Next, LoopStep, Cancel, vars, control, Gate, TopInterrupted, BudgetTrips,
          ChurnRail, BeginTurn, ActFails, ContextShrinks, EmptyTurn, PromiseNudge,
          ProseTurn, Calls, FinishRefused, FinishUnverified, FinishVerifies,
          BeforeEdit, VerifySkipped, VerifyRuns, Decide, EditFailRail, RepeatRail,
          Explore, ExploreRail, ExploreTokensSpent, SaturationRail, NoNudge, Nudge,
          NudgeDelegates, DemandEdit, Stall, Finish
    <2>2. loop'.created = loop.created
      <3>1. CASE VerifyRuns
        <4>1. loop' \in {loop, [loop EXCEPT !.editOnly = EditOnlyBudget]}
          BY <3>1 DEF VerifyRuns, Judge
        <4> QED BY <4>1, FilesKept
      <3>2. CASE DemandEdit
        BY <3>2, FilesKept DEF DemandEdit
      <3>3. CASE ContextShrinks
        BY <3>3 DEF ContextShrinks, TypeOK, LoopFields
      <3>4. CASE loop' = loop
        BY <3>4
      <3> QED BY <1>3, <3>1, <3>2, <3>3, <3>4
          DEF Next, LoopStep, Cancel, vars, world, Gate, TopInterrupted, BudgetTrips,
              ChurnRail, BeginTurn, ActFails, EmptyTurn, PromiseNudge,
              ProseTurn, Calls, FinishRefused, FinishUnverified, FinishVerifies,
              BeforeEdit, VerifySkipped, Decide, EditFailRail, RepeatRail,
              Explore, ExploreRail, ExploreTokensSpent, SaturationRail, NoNudge, Nudge,
              NudgeDelegates, Stall, Finish
    <2>3. \/ tree' \in AfterChild
          \/ /\ tree'.given = tree.given /\ tree'.onDisk = tree.onDisk
             /\ tree'.specEdited = tree.specEdited
      <3>1. CASE VerifyRuns \/ FinishVerifies \/ Nudge
        <4>1. tree' = tree
              \/ \E v : tree' \in {AfterVerify(tree, v), AfterGlimpse(tree, v)}
          BY <3>1 DEF VerifyRuns, Judge, FinishVerifies, Nudge
        <4> QED BY <4>1, FilesKept
      <3>2. CASE BeforeEdit
        BY <3>2, FilesKept DEF BeforeEdit
      <3>3. CASE DemandEdit
        BY <3>3, FilesKept DEF DemandEdit
      <3>4. CASE Stall
        BY <3>4, FilesKept DEF Stall
      <3>5. CASE Explore \/ NudgeDelegates
        BY <3>5 DEF Explore, NudgeDelegates
      <3>6. CASE tree' = tree
        BY <3>6
      <3> QED BY <1>3, <3>1, <3>2, <3>3, <3>4, <3>5, <3>6
          DEF Next, LoopStep, Cancel, vars, world, Gate, TopInterrupted, BudgetTrips,
              ChurnRail, BeginTurn, ActFails, ContextShrinks, EmptyTurn, PromiseNudge,
              ProseTurn, Calls, FinishRefused, FinishUnverified, VerifySkipped, Decide,
              EditFailRail, RepeatRail, ExploreRail, ExploreTokensSpent,
              SaturationRail, NoNudge, Finish
    <2>4. /\ tree'.given \subseteq tree.given /\ tree'.given \subseteq tree'.onDisk
          /\ tree'.specEdited = tree.specEdited
      BY <2>3, FilesKept DEF GivenApart
    <2> QED BY <2>1, <2>2, <2>4, SameFilesApart
  <1> QED BY <1>1, <1>2, <1>3

\* The first run of a Loop edits no file the verify command names and the run was
\* given; a later run may take for its own what an earlier one created
\* (loop.go protectedByVerify).
THEOREM FirstRunSparesTheSpec == Spec => [](runs <= 1 => SpecUntouched)
  <1>1. Init => GivenApart
    BY DEF Init, FreshTree, FreshLoop, GivenApart
  <1>2. GivenApart => (runs <= 1 => SpecUntouched)
    BY DEF GivenApart, SpecUntouched
  <1> QED BY <1>1, <1>2, ApartStep, TypeCorrect, PTL DEF Spec
=============================================================================
