--------------------------- MODULE AgentLoopProofs ---------------------------
(***************************************************************************)
(* Proofs about AgentLoop, for any model, tools, verifier and limits: the  *)
(* types, that the recoveries which refund steps cannot make a run longer  *)
(* than its budget and their own limits allow, and that the edit-only rail *)
(* never withholds the read tools of a run the scope has refused a write.  *)
(***************************************************************************)
EXTENDS AgentLoop, TLAPS

-----------------------------------------------------------------------------
(* Types of the operators *)

LEMMA LimitsAreNumbers ==
    /\ SatWindow \in Nat /\ EditOnlyBudget \in Nat /\ MaxShrinks \in Nat
    /\ MaxEmptyTurns \in Nat /\ MaxRescues \in Nat /\ MaxHandoffs \in Nat
    /\ MaxSteps \in Nat /\ MaxRuns \in Nat
  BY AgentLoopAssumption

LEMMA AnswersType == Answers \subseteq Verdicts
  BY DEF Answers, Verdicts

LEMMA TestsType ==
    /\ \A v \in Reds : v.tests \subseteq Tests
    /\ \A v \in Verdicts : v.tests \subseteq Tests
  BY DEF Tests, Verdicts, Green, CannotRun

LEMMA BaselineType ==
    ASSUME NEW v \in Verdicts, NEW u \in BOOLEAN
    PROVE  Baseline(v, u) \in Baselines
  <1>1. v.kind \in {"green", "red", "broken", "error", "missing"}
    BY AgentLoopAssumption DEF Verdicts, Green, CannotRun
  <1>2. v.tests \in SUBSET Tests
    BY TestsType
  <1>3. NoBaseline \in Baselines
    BY DEF NoBaseline, Baselines
  <1> QED BY <1>1, <1>2, <1>3 DEF Baseline, Baselines, NoBaseline

LEMMA BaselinesAfterType ==
    ASSUME baseline \in Baselines, NEW due \in BOOLEAN
    PROVE  BaselinesAfter(due) \subseteq Baselines
  BY BaselineType, AnswersType DEF BaselinesAfter

LEMMA RetireType ==
    ASSUME NEW b \in Baselines, NEW v \in Verdicts
    PROVE  Retire(b, v) \in Baselines
  BY DEF Retire, Baselines

LEMMA FreshTreeType == ASSUME NEW d \in SUBSET Paths PROVE FreshTree(d) \in Trees
  BY DEF FreshTree, Trees

LEMMA AfterChildType == ASSUME tree \in Trees PROVE AfterChild \subseteq Trees
  <1>1. ASSUME NEW d \in SUBSET Paths
        PROVE  [tree EXCEPT !.stale = TRUE, !.moved = TRUE, !.onDisk = d,
                            !.given = @ \cap d] \in Trees
    BY DEF Trees
  <1> QED BY <1>1 DEF AfterChild

LEMMA AfterVerifyType ==
    ASSUME NEW t \in Trees, NEW v \in Verdicts
    PROVE  AfterVerify(t, v) \in Trees /\ AfterGlimpse(t, v) \in Trees
  <1>1. PassingIn(v) \in SUBSET Tests
    BY DEF PassingIn
  <1>2. Verified(t, v) \in Trees
    BY DEF Verified, Trees
  <1> QED BY <1>1, <1>2 DEF AfterVerify, AfterGlimpse, Trees

LEMMA FreshTypes ==
    /\ FreshRails \in RailCounters /\ FreshRepeat \in RepeatRails
    /\ FreshExplore \in ExploreRails /\ FreshLoop \in LoopFields
    /\ C!Fresh \in C!Detectors /\ NoReport \in Reports
    /\ NoBaseline \in Baselines /\ NoVerdict \in AllVerdicts
  <1>1. FreshRails \in RailCounters
    BY AgentLoopAssumption DEF FreshRails, RailCounters, AllVerdicts
  <1>2. FreshRepeat \in RepeatRails
    BY DEF FreshRepeat, RepeatRails
  <1>3. FreshExplore \in ExploreRails
    <2>1. << >> \in Seq(BOOLEAN) /\ Len(<< >>) = 0
      OBVIOUS
    <2>2. SatWindow \in Nat
      BY AgentLoopAssumption
    <2> QED BY <2>1, <2>2 DEF FreshExplore, ExploreRails
  <1>4. FreshLoop \in LoopFields
    BY AgentLoopAssumption DEF FreshLoop, LoopFields
  <1>5. C!Fresh \in C!Detectors
    BY DEF C!Fresh, C!Detectors
  <1> QED BY <1>1, <1>2, <1>3, <1>4, <1>5
          DEF NoReport, Reports, Reasons, NoBaseline, Baselines, AllVerdicts

LEMMA ObserveType ==
    ASSUME NEW c \in C!Detectors, NEW t \in C!Turns
    PROVE  C!Observe(c, t) \in C!Detectors
  <1>1. C!ActedBy(c, t) \in BOOLEAN
    BY DEF C!ActedBy, C!Detectors, C!Turns
  <1>2. C!EditStreak(c, t) \in Nat
    BY DEF C!EditStreak, C!Detectors
  <1>3. C!FailStreak(c, t) \in Nat
    BY DEF C!FailStreak, C!Detectors, C!Turns
  <1>4. C!RememberedFail(c, t) \in Reds \cup {NoMove}
    BY DEF C!RememberedFail, C!Detectors, C!Turns
  <1> QED BY <1>1, <1>2, <1>3, <1>4 DEF C!Observe, C!Detectors, C!Turns

LEMMA ChurnTurnType ==
    ASSUME TypeOK, NEW v \in Reds \cup {NoMove}, NEW s \in BOOLEAN
    PROVE  ChurnTurn(v, s) \in C!Turns
  BY DEF ChurnTurn, C!Turns, TypeOK, IsEdit, ReadOnlyTurn
-----------------------------------------------------------------------------
(* What a call may do *)

LEMMA CallPath ==
    ASSUME NEW m \in Moves \cup {NoMove}
    PROVE  /\ m.path \in Paths \cup {NoPath}
           /\ IsEdit(m) => m.path \in Paths
  BY AgentLoopAssumption DEF IsEdit, NoMove

LEMMA OutcomeType ==
    ASSUME NEW m \in Moves \cup {NoMove}, NEW o \in PossibleOutcomes(m)
    PROVE  /\ o \in AllOutcomes
           /\ o = "landed" => IsEdit(m)
  <1>1. Outcomes(m) \subseteq AllOutcomes
    BY DEF Outcomes, AllOutcomes
  <1>2. "landed" \in Outcomes(m) => m.tool = "edit"
    BY DEF Outcomes
  <1> QED BY <1>1, <1>2 DEF PossibleOutcomes, AllOutcomes, IsEdit

LEMMA LoopAfterType ==
    ASSUME loop \in LoopFields, NEW m \in Moves \cup {NoMove},
           NEW o \in PossibleOutcomes(m)
    PROVE  LoopAfter(m, o) \in LoopFields
  <1>1. EditOnlyAfter(m, o) \in 0..EditOnlyBudget
    BY AgentLoopAssumption DEF EditOnlyAfter, LoopFields
  <1> QED BY <1>1, CallPath DEF LoopAfter, LoopFields

LEMMA RailsAfterType ==
    ASSUME rails \in RailCounters, NEW m, NEW o
    PROVE  RailsAfter(m, o) \in RailCounters
  <1> DEFINE acted == rails.acted \/ (~ IsReadTool(m) /\ ~ Errored(o))
             promises == IF ActionFailed(o) THEN rails.promises ELSE 0
             editFails == IF ~ IsEdit(m) THEN rails.editFails
                          ELSE IF Errored(o) THEN rails.editFails + 1 ELSE 0
  <1>1. acted \in BOOLEAN
    OBVIOUS
  <1>2. promises \in Nat /\ editFails \in Nat
    BY DEF RailCounters
  <1>3. RailsAfter(m, o) = [rails EXCEPT !.promises = promises, !.acted = acted,
                                         !.editFails = editFails]
    BY DEF RailsAfter
  <1> HIDE DEF acted, promises, editFails
  <1> QED BY <1>1, <1>2, <1>3 DEF RailCounters

LEMMA TreeAfterType ==
    ASSUME tree \in Trees, NEW m \in Moves \cup {NoMove},
           NEW o \in PossibleOutcomes(m), NEW c \in BOOLEAN, NEW d \in SUBSET Paths
    PROVE  TreeAfter(m, o, c, d) \in Trees
  <1> DEFINE stale == tree.stale \/ (c /\ o # "partial")
             partial == tree.partial \/ o = "partial"
             handed == tree.handed /\ ~ (c /\ m.tool \in {"edit", "command"})
             moved == tree.moved \/ c
             given == tree.given \cap d
             specEdited == \/ tree.specEdited
                           \/ o = "landed" /\ m.path \in SpecPaths \cap tree.given
  <1>1. /\ stale \in BOOLEAN /\ partial \in BOOLEAN /\ handed \in BOOLEAN
        /\ moved \in BOOLEAN /\ specEdited \in BOOLEAN
    OBVIOUS
  <1>2. given \in SUBSET Paths
    OBVIOUS
  <1>3. TreeAfter(m, o, c, d) =
            [tree EXCEPT !.stale = stale, !.partial = partial, !.handed = handed,
                         !.moved = moved, !.onDisk = d,
                         !.given = given, !.specEdited = specEdited]
    BY DEF TreeAfter
  <1> HIDE DEF stale, partial, handed, moved, given, specEdited
  <1> QED BY <1>1, <1>2, <1>3 DEF Trees

LEMMA ExploredType ==
    ASSUME TypeOK PROVE Explored \in ExploreRails
  <1>1. /\ explore \in [streak : Nat, total : Nat, nudgedAt : Nat, nudges : Nat,
                        sinceEdit : Nat, window : Seq(BOOLEAN),
                        saturated : BOOLEAN, fresh : BOOLEAN]
        /\ explore.streak <= explore.total /\ Len(explore.window) <= SatWindow
    BY DEF TypeOK, ExploreRails
  <1>2. SatWindow \in Nat
    BY AgentLoopAssumption
  <1>3. CoversNewGround(call) \in BOOLEAN
    BY DEF CoversNewGround
  <1>4. ASSUME NEW b \in BOOLEAN
        PROVE  /\ Slide(explore.window, b) \in Seq(BOOLEAN)
               /\ Len(Slide(explore.window, b)) <= SatWindow
    <2>1. explore.window # << >> =>
             /\ Tail(explore.window) \in Seq(BOOLEAN)
             /\ Len(Tail(explore.window)) = Len(explore.window) - 1
      BY <1>1
    <2>2. CASE SatWindow = 0
      BY <1>1, <2>2 DEF Slide
    <2>3. CASE SatWindow # 0 /\ Len(explore.window) < SatWindow
      BY <1>1, <1>2, <2>3 DEF Slide
    <2>4. CASE SatWindow # 0 /\ ~ (Len(explore.window) < SatWindow)
      BY <1>1, <1>2, <2>1, <2>4 DEF Slide
    <2> QED BY <2>2, <2>3, <2>4
  <1>5. CASE ReadOnlyTurn(call)
    <2> DEFINE new == CoversNewGround(call)
               streak == IF new THEN 0 ELSE explore.streak + 1
               window == Slide(explore.window, new)
    <2>1. streak \in Nat /\ streak <= explore.total + 1
      BY <1>1
    <2>2. window \in Seq(BOOLEAN) /\ Len(window) <= SatWindow
      BY <1>3, <1>4
    <2>3. Explored = [explore EXCEPT !.sinceEdit = explore.sinceEdit + 1,
                                     !.total = explore.total + 1, !.fresh = new,
                                     !.streak = streak, !.window = window]
      BY <1>5 DEF Explored
    <2>4. new \in BOOLEAN
      BY <1>3
    <2> DEFINE S == Seq(BOOLEAN)
               E == [streak : Nat, total : Nat, nudgedAt : Nat, nudges : Nat,
                     sinceEdit : Nat, window : S, saturated : BOOLEAN,
                     fresh : BOOLEAN]
    <2>5. Explored \in E
      <3>1. explore \in E /\ window \in S
        BY <1>1, <2>2
      <3>2. explore.sinceEdit + 1 \in Nat /\ explore.total + 1 \in Nat
        BY <1>1
      <3> HIDE DEF new, streak, window, S
      <3> QED BY <2>1, <2>3, <2>4, <3>1, <3>2
    <2>6. /\ Explored.streak = streak /\ Explored.total = explore.total + 1
          /\ Explored.window = window
      BY <1>1, <2>3
    <2> QED BY <2>1, <2>2, <2>5, <2>6 DEF ExploreRails
  <1>6. CASE ~ ReadOnlyTurn(call)
    BY <1>1, <1>2, <1>6, FreshTypes DEF Explored, ExploreRails, FreshExplore
  <1> QED BY <1>5, <1>6

-----------------------------------------------------------------------------
(* Types: one lemma per part of a turn *)

LEMMA InitTypes == ASSUME Init PROVE TypeOK
  <1>1. tree \in Trees
    BY FreshTreeType DEF Init
  <1>2. pc \in Labels \ InTurn /\ reason \in Reasons /\ outcome \in AllOutcomes
    BY DEF Init, Labels, InTurn, Reasons, AllOutcomes
  <1> QED BY <1>1, <1>2, FreshTypes DEF Init, TypeOK

LEMMA StartRunTypes == ASSUME TypeOK, StartRun PROVE TypeOK'
  <1>1. tree' \in Trees
    BY FreshTreeType DEF StartRun
  <1>2. pc' \in Labels \ InTurn
    BY DEF StartRun, Labels, InTurn
  <1>3. runs' \in Nat
    BY DEF StartRun, TypeOK
  <1> QED BY <1>1, <1>2, <1>3, FreshTypes DEF StartRun, TypeOK, Reasons, AllOutcomes

LEMMA TickedType == ASSUME TypeOK PROVE Ticked \in {turns, turns + 1}
  BY DEF Ticked

LEMMA TopTypes ==
    ASSUME TypeOK,
           Cancel \/ Gate \/ TopInterrupted \/ BudgetTrips \/ ChurnRail \/ BeginTurn
    PROVE  TypeOK'
  <1>1. CASE Cancel
    BY <1>1 DEF Cancel, TypeOK, clock, action, evidence, counters, world
  <1>2. CASE Gate
    BY <1>2 DEF Gate, Goto, Stop, TypeOK, Labels, InTurn, Reasons, control, clock,
                action, evidence, counters, world
  <1>3. CASE TopInterrupted
    BY <1>3 DEF TopInterrupted, Stop, TypeOK, Labels, InTurn, Reasons, control,
                clock, action, evidence, counters, world
  <1>4. CASE BudgetTrips
    BY <1>4, TickedType DEF BudgetTrips, Stop, TypeOK, Labels, InTurn, Reasons, control,
                action, evidence, counters, world
  <1>5. CASE ChurnRail
    <2>1. rails' \in RailCounters
      BY <1>5, AgentLoopAssumption
         DEF ChurnRail, CanRescue, Rescued, RailCounters, TypeOK
    <2> QED BY <1>5, <2>1, FreshTypes, TickedType
            DEF ChurnRail, Goto, Stop, TypeOK, Labels, InTurn, Reasons, control,
                action, evidence, world
  <1>6. CASE BeginTurn
    BY <1>6, TickedType DEF BeginTurn, Goto, TypeOK, Labels, InTurn, control, action,
                evidence, counters, world
  <1> QED BY <1>1, <1>2, <1>3, <1>4, <1>5, <1>6

LEMMA ActTypes ==
    ASSUME TypeOK,
           \/ ActFails \/ ContextShrinks \/ EmptyTurn \/ PromiseNudge \/ ProseTurn
           \/ \E m \in Moves : Calls(m)
    PROVE  TypeOK'
  <1>1. CASE ActFails
    BY <1>1 DEF ActFails, Stop, TypeOK, Labels, InTurn, Reasons, control, clock,
                action, evidence, counters, world
  <1>2. CASE ContextShrinks
    <2>1. loop' \in LoopFields
      BY <1>2, AgentLoopAssumption DEF ContextShrinks, LoopFields, TypeOK
    <2>2. step - 1 \in Nat
      BY <1>2 DEF ContextShrinks, TypeOK, Labels, InTurn
    <2> QED BY <1>2, <2>1, <2>2
            DEF ContextShrinks, Goto, TypeOK, Labels, InTurn, control, action,
                evidence, counters
  <1>3. CASE EmptyTurn
    <2>1. rails' \in RailCounters
      BY <1>3, AgentLoopAssumption DEF EmptyTurn, RailCounters, TypeOK
    <2>2. step - 1 \in Nat
      BY <1>3 DEF EmptyTurn, TypeOK, Labels, InTurn
    <2> QED BY <1>3, <2>1, <2>2
            DEF EmptyTurn, Goto, TypeOK, Labels, InTurn, control, action,
                evidence, world
  <1>4. CASE PromiseNudge
    <2>1. rails' \in RailCounters
      BY <1>4 DEF PromiseNudge, RailCounters, TypeOK
    <2> QED BY <1>4, <2>1
            DEF PromiseNudge, Goto, TypeOK, Labels, InTurn, control, clock,
                action, evidence, world
  <1>5. CASE ProseTurn
    <2>1. nudged' \subseteq Latches
      BY <1>5 DEF ProseTurn, Latch, Latches, TypeOK
    <2> QED BY <1>5, <2>1
            DEF ProseTurn, Goto, Stop, TypeOK, Labels, InTurn, Reasons, control,
                clock, action, evidence, world
  <1>6. ASSUME NEW m \in Moves, Calls(m) PROVE TypeOK'
    <2>1. pc' \in {"finish", "apply", "dispatch"} /\ step > 0
      BY <1>6 DEF Calls, Goto, TypeOK, Labels, InTurn
    <2>2. pc' \in InTurn /\ pc' \in Labels
      BY <2>1 DEF InTurn, Labels
    <2> QED BY <1>6, <2>1, <2>2
            DEF Calls, Goto, TypeOK, control, clock, evidence, counters, world
  <1> QED BY <1>1, <1>2, <1>3, <1>4, <1>5, <1>6

LEMMA FinishToolTypes ==
    ASSUME TypeOK, FinishRefused \/ FinishUnverified \/ FinishVerifies
    PROVE  TypeOK'
  <1>1. CASE FinishRefused
    <2>1. nudged' \subseteq Latches
      BY <1>1 DEF FinishRefused, Latch, Latches, TypeOK
    <2> QED BY <1>1, <2>1
            DEF FinishRefused, Goto, TypeOK, Labels, InTurn, control, clock,
                action, evidence, world
  <1>2. CASE FinishUnverified
    BY <1>2 DEF FinishUnverified, Stop, TypeOK, Labels, InTurn, Reasons, control,
                clock, action, evidence, counters, world
  <1>3. CASE FinishVerifies
    <2>1. last' \in AllVerdicts /\ tree' \in Trees
      BY <1>3, AnswersType, AfterVerifyType DEF FinishVerifies, AllVerdicts, TypeOK
    <2>2. pc' = "stop" /\ reason' \in Reasons
      BY <1>3 DEF FinishVerifies, Stop, Reasons
    <2> QED BY <1>3, <2>1, <2>2
            DEF FinishVerifies, TypeOK, Labels, InTurn, control, clock, action,
                counters
  <1> QED BY <1>1, <1>2, <1>3

LEMMA DispatchTypes ==
    ASSUME TypeOK, BeforeEdit \/ Dispatch \/ VerifySkipped \/ VerifyRuns \/ Decide
    PROVE  TypeOK'
  <1>1. CASE BeforeEdit
    <2>1. baseline' \in Baselines
      <3>1. BaselineDue \in BOOLEAN
        BY DEF BaselineDue
      <3> QED BY <1>1, <3>1, BaselinesAfterType DEF BeforeEdit, TypeOK
    <2>2. tree' \in Trees
      BY <1>1 DEF BeforeEdit, Trees, TypeOK
    <2>3. nudged' \subseteq Latches /\ snapped' \in BOOLEAN
      BY <1>1 DEF BeforeEdit, Latch, Latches, TypeOK
    <2>4. pc' \in Labels /\ (pc' \in InTurn => step > 0) /\ reason' \in Reasons
      BY <1>1 DEF BeforeEdit, Goto, Stop, TypeOK, Labels, InTurn, Reasons
    <2> QED BY <1>1, <2>1, <2>2, <2>3, <2>4
            DEF BeforeEdit, TypeOK, control, clock, action
  <1>2. CASE Dispatch
    <2>1. PICK o \in PossibleOutcomes(call), c \in BOOLEAN, d \in SUBSET Paths :
             /\ outcome' = o /\ loop' = LoopAfter(call, o)
             /\ tree' = TreeAfter(call, o, c, d)
             /\ \/ Stop("safety") /\ UNCHANGED <<rails, edited, dirty>>
                \/ /\ Goto("verify") /\ rails' = RailsAfter(call, o)
                   /\ edited' = (edited \/ EditWent(call, o))
                   /\ dirty' = (dirty \/ Mutated(call, o))
      BY <1>2 DEF Dispatch
    <2>2. loop' \in LoopFields /\ tree' \in Trees /\ outcome' \in AllOutcomes
      BY <2>1, LoopAfterType, TreeAfterType, OutcomeType DEF TypeOK
    <2>3. rails' \in RailCounters
      BY <2>1, RailsAfterType DEF TypeOK
    <2>4. edited' \in BOOLEAN /\ dirty' \in BOOLEAN
      BY <2>1 DEF TypeOK
    <2>5. pc' \in Labels /\ (pc' \in InTurn => step > 0) /\ reason' \in Reasons
      BY <1>2, <2>1 DEF Dispatch, Goto, Stop, TypeOK, Labels, InTurn, Reasons
    <2> QED BY <1>2, <2>2, <2>3, <2>4, <2>5 DEF Dispatch, TypeOK, control, clock
  <1>3. CASE VerifySkipped
    <2>1. churn' \in C!Detectors
      BY <1>3, ChurnTurnType, ObserveType, AgentLoopAssumption
         DEF VerifySkipped, TypeOK
    <2> QED BY <1>3, <2>1
            DEF VerifySkipped, Goto, TypeOK, Labels, InTurn, control, clock,
                action, evidence, world
  <1>4. CASE VerifyRuns
    <2>1. PICK v \in Answers : Judge(v)
      BY <1>4 DEF VerifyRuns
    <2>2. v \in Verdicts /\ last' \in AllVerdicts
      BY <2>1, AnswersType DEF AllVerdicts, Judge
    <2>3. baseline' \in Baselines /\ tree' \in Trees
      BY <2>1, <2>2, RetireType, AfterVerifyType DEF TypeOK, Judge
    <2>4. sameRed' \in BOOLEAN
      BY <2>1 DEF UnchangedSince, Judge
    <2>5. loop' \in LoopFields
      <3>1. [loop EXCEPT !.editOnly = EditOnlyBudget] \in LoopFields
        BY LimitsAreNumbers DEF LoopFields, TypeOK
      <3> QED BY <2>1, <3>1 DEF Judge, TypeOK
    <2>6. rails' \in RailCounters
      <3>1. ASSUME NEW same PROVE /\ SameReds(v, same).lastRed \in AllVerdicts
                                  /\ SameReds(v, same).sameReds \in Nat
        BY <2>2 DEF SameReds, AllVerdicts, RailCounters, TypeOK
      <3> QED BY <2>1, <3>1 DEF RailCounters, TypeOK, Judge
    <2>7. churn' \in C!Detectors
      <3>1. v # CannotRun /\ ~ Passed(v) => v \in Reds
        BY <2>2 DEF Verdicts, Passed, Green
      <3> QED BY <2>1, <3>1, ChurnTurnType, ObserveType DEF TypeOK, Judge
    <2>8. pc' \in Labels /\ (pc' \in InTurn => step > 0) /\ reason' \in Reasons
      BY <1>4, <2>1 DEF VerifyRuns, Judge, Goto, Stop, TypeOK, Labels, InTurn, Reasons
    <2> QED BY <1>4, <2>2, <2>3, <2>4, <2>5, <2>6, <2>7, <2>8
            DEF VerifyRuns, TypeOK, control, clock, action
  <1>5. CASE Decide
    <2>1. nudged' \subseteq Latches
      BY <1>5 DEF Decide, Latch, Latches, TypeOK
    <2>2. pc' \in Labels /\ (pc' \in InTurn => step > 0) /\ reason' \in Reasons
      BY <1>5 DEF Decide, Goto, Stop, TypeOK, Labels, InTurn, Reasons
    <2> QED BY <1>5, <2>1, <2>2
            DEF Decide, TypeOK, control, clock, action, evidence, world
  <1> QED BY <1>1, <1>2, <1>3, <1>4, <1>5

LEMMA RescuedType ==
    ASSUME TypeOK, CanRescue
    PROVE  /\ Rescued(rails) \in RailCounters
           /\ [Rescued(rails) EXCEPT !.editFails = 0] \in RailCounters
  <1>1. rails.rescues + 1 \in 0..MaxRescues
    BY LimitsAreNumbers DEF CanRescue, RailCounters, TypeOK
  <1> QED BY <1>1 DEF Rescued, RailCounters, TypeOK

LEMMA HandedOffType ==
    ASSUME TypeOK, HandoffLeft
    PROVE  [rails EXCEPT !.handoffs = @ + 1] \in RailCounters
  <1>1. rails.handoffs + 1 \in 0..MaxHandoffs
    BY LimitsAreNumbers DEF HandoffLeft, RailCounters, TypeOK
  <1> QED BY <1>1 DEF RailCounters, TypeOK

LEMMA ExploreFieldTypes ==
    ASSUME NEW e \in ExploreRails
    PROVE  /\ [e EXCEPT !.streak = 0, !.total = 0, !.nudgedAt = 0] \in ExploreRails
           /\ [e EXCEPT !.sinceEdit = 0, !.streak = 0, !.total = 0, !.nudgedAt = 0]
                \in ExploreRails
           /\ [e EXCEPT !.saturated = TRUE, !.window = <<>>] \in ExploreRails
           /\ [e EXCEPT !.nudgedAt = e.total] \in ExploreRails
           /\ [e EXCEPT !.nudges = @ + 1] \in ExploreRails
  <1> DEFINE S == Seq(BOOLEAN)
             E == [streak : Nat, total : Nat, nudgedAt : Nat, nudges : Nat,
                   sinceEdit : Nat, window : S, saturated : BOOLEAN,
                   fresh : BOOLEAN]
  <1>1. e \in E /\ e.streak <= e.total /\ Len(e.window) <= SatWindow
    BY DEF ExploreRails
  <1>2. ASSUME NEW x \in E, x.streak <= x.total, Len(x.window) <= SatWindow
        PROVE  x \in ExploreRails
    BY <1>2 DEF ExploreRails
  <1>3. << >> \in S /\ Len(<< >>) <= SatWindow
    BY LimitsAreNumbers
  <1> HIDE DEF S
  <1>4. [e EXCEPT !.streak = 0, !.total = 0, !.nudgedAt = 0] \in ExploreRails
    <2> DEFINE x == [e EXCEPT !.streak = 0, !.total = 0, !.nudgedAt = 0]
    <2>1. x \in E
      BY <1>1
    <2>2. x.streak = 0 /\ x.total = 0 /\ x.window = e.window
      BY <1>1
    <2>3. x \in ExploreRails
      <3> HIDE DEF x
      <3> QED BY <1>1, <1>2, <2>1, <2>2
    <2> QED BY <2>3
  <1>5. [e EXCEPT !.sinceEdit = 0, !.streak = 0, !.total = 0, !.nudgedAt = 0]
          \in ExploreRails
    <2> DEFINE x == [e EXCEPT !.sinceEdit = 0, !.streak = 0, !.total = 0,
                              !.nudgedAt = 0]
    <2>1. x \in E
      BY <1>1
    <2>2. x.streak = 0 /\ x.total = 0 /\ x.window = e.window
      BY <1>1
    <2>3. x \in ExploreRails
      <3> HIDE DEF x
      <3> QED BY <1>1, <1>2, <2>1, <2>2
    <2> QED BY <2>3
  <1>6. [e EXCEPT !.saturated = TRUE, !.window = <<>>] \in ExploreRails
    BY <1>1, <1>2, <1>3
  <1>7. [e EXCEPT !.nudgedAt = e.total] \in ExploreRails
    BY <1>1, <1>2
  <1>8. [e EXCEPT !.nudges = @ + 1] \in ExploreRails
    BY <1>1, <1>2
  <1> QED BY <1>4, <1>5, <1>6, <1>7, <1>8

LEMMA SeenType ==
    ASSUME TypeOK, CoversNewGround(call)
    PROVE  Target(call) \in {Target(m) : m \in Moves}
  <1>1. call # NoMove
    BY DEF CoversNewGround, Target, NoMove, NoPath
  <1> QED BY <1>1 DEF TypeOK

LEMMA RailTypes ==
    ASSUME TypeOK, EditFailRail \/ RepeatRail \/ Explore PROVE TypeOK'
  <1>1. CASE EditFailRail
    <2>1. rails' \in RailCounters
      BY <1>1, RescuedType DEF EditFailRail, TypeOK
    <2> QED BY <1>1, <2>1
            DEF EditFailRail, Goto, Stop, TypeOK, Labels, InTurn, Reasons, control,
                clock, action, evidence, world
  <1>2. CASE RepeatRail
    <2>1. rails' \in RailCounters
      BY <1>2, RescuedType DEF RepeatRail, TypeOK
    <2>2. Repeated \in RepeatRails
      BY DEF Repeated, RepeatRails, TypeOK
    <2>3. repeat' \in RepeatRails
      <3>1. CASE repeat' = [Repeated EXCEPT !.streak = 0, !.nudged = FALSE]
        BY <2>2, <3>1 DEF RepeatRails
      <3>2. CASE repeat' = Repeated
        BY <2>2, <3>2
      <3>3. ASSUME NEW b \in BOOLEAN, repeat' = [Repeated EXCEPT !.nudged = b]
            PROVE  repeat' \in RepeatRails
        BY <2>2, <3>3 DEF RepeatRails
      <3>4. ASSUME NEW b, repeat' = [Repeated EXCEPT !.nudged = @ \/ b]
            PROVE  repeat' \in RepeatRails
        <4>1. (Repeated.nudged \/ b) \in BOOLEAN
          OBVIOUS
        <4> QED BY <3>3, <3>4, <4>1
      <3> QED BY <1>2, <3>1, <3>2, <3>4 DEF RepeatRail
    <2>4. pc' \in Labels /\ (pc' \in InTurn => step > 0) /\ reason' \in Reasons
      BY <1>2 DEF RepeatRail, Goto, Stop, TypeOK, Labels, InTurn, Reasons
    <2> QED BY <1>2, <2>1, <2>3, <2>4
            DEF RepeatRail, TypeOK, control, clock, action, evidence, world
  <1>3. CASE Explore
    <2>1. seen' \subseteq {Target(m) : m \in Moves}
      BY <1>3, SeenType DEF Explore, TypeOK
    <2>2. explore' \in ExploreRails
      BY <1>3, ExploredType, ExploreFieldTypes DEF Explore
    <2>3. rails' \in RailCounters
      BY <1>3, HandedOffType DEF Explore, TypeOK
    <2>4. tree' \in Trees /\ dirty' \in BOOLEAN
      BY <1>3, AfterChildType DEF Explore, TypeOK
    <2>5. pc' \in Labels /\ (pc' \in InTurn => step > 0) /\ reason' \in Reasons
      BY <1>3 DEF Explore, Goto, TypeOK, Labels, InTurn
    <2> QED BY <1>3, <2>1, <2>2, <2>3, <2>4, <2>5
            DEF Explore, TypeOK, control, clock, action
  <1> QED BY <1>1, <1>2, <1>3

LEMMA NudgeTypes ==
    ASSUME TypeOK,
           \/ ExploreRail \/ ExploreTokensSpent \/ SaturationRail \/ NoNudge
           \/ Nudge \/ NudgeDelegates \/ DemandEdit
    PROVE  TypeOK'
  <1>1. CASE ExploreRail
    <2>1. rails' \in RailCounters
      BY <1>1, RescuedType DEF ExploreRail, TypeOK
    <2>2. explore' \in ExploreRails
      BY <1>1, ExploreFieldTypes DEF ExploreRail, TypeOK
    <2>3. step' \in Nat
      BY <1>1 DEF ExploreRail, TypeOK, Labels, InTurn
    <2> QED BY <1>1, <2>1, <2>2, <2>3
            DEF ExploreRail, Goto, Stop, TypeOK, Labels, InTurn, Reasons, control,
                action, evidence, world
  <1>2. CASE ExploreTokensSpent
    BY <1>2 DEF ExploreTokensSpent, Stop, TypeOK, Labels, InTurn, Reasons, control,
                clock, action, evidence, counters, world
  <1>3. CASE SaturationRail
    <2>1. explore' \in ExploreRails
      BY <1>3, ExploreFieldTypes DEF SaturationRail, TypeOK
    <2>2. pc' \in Labels /\ (pc' \in InTurn => step > 0) /\ reason' \in Reasons
      BY <1>3 DEF SaturationRail, Goto, Stop, TypeOK, Labels, InTurn, Reasons
    <2> QED BY <1>3, <2>1, <2>2
            DEF SaturationRail, TypeOK, control, clock, action, evidence, world
  <1>4. CASE NoNudge
    BY <1>4 DEF NoNudge, Goto, TypeOK, Labels, InTurn, control, clock, action,
                evidence, counters, world
  <1>5. CASE Nudge
    <2>1. explore' \in ExploreRails
      BY <1>5, ExploreFieldTypes DEF Nudge, TypeOK
    <2>2. rails' \in RailCounters
      BY <1>5 DEF Nudge, RailCounters, TypeOK
    <2>3. last' \in AllVerdicts /\ tree' \in Trees /\ dirty' \in BOOLEAN
      BY <1>5, AnswersType, AfterVerifyType DEF Nudge, AllVerdicts, TypeOK
    <2> QED BY <1>5, <2>1, <2>2, <2>3
            DEF Nudge, Goto, TypeOK, Labels, InTurn, control, clock, action
  <1>6. CASE NudgeDelegates
    <2>1. rails' \in RailCounters
      BY <1>6, HandedOffType DEF NudgeDelegates, HandoffDue, TypeOK
    <2>2. tree' \in Trees
      BY <1>6, AfterChildType DEF NudgeDelegates, TypeOK
    <2> QED BY <1>6, <2>1, <2>2
            DEF NudgeDelegates, Goto, TypeOK, Labels, InTurn, control, clock,
                action, evidence
  <1>7. CASE DemandEdit
    <2>1. rails' \in RailCounters
      BY <1>7, HandedOffType DEF DemandEdit, HandoffDue, TypeOK
    <2>2. explore' \in ExploreRails
      BY <1>7, ExploreFieldTypes DEF DemandEdit, TypeOK
    <2>3. baseline' \in Baselines /\ tree' \in Trees
      <3>1. (BaselineDue /\ ~ Passed(last)) \in BOOLEAN
        OBVIOUS
      <3>2. baseline' \in BaselinesAfter(BaselineDue /\ ~ Passed(last))
        BY <1>7 DEF DemandEdit
      <3>3. tree' \in {tree, [tree EXCEPT !.pristine = tree.handed]}
        BY <1>7 DEF DemandEdit
      <3> QED BY <3>1, <3>2, <3>3, BaselinesAfterType DEF Trees, TypeOK
    <2>4. loop' \in LoopFields
      <3>1. [loop EXCEPT !.editOnly = EditOnlyBudget] \in LoopFields
        BY LimitsAreNumbers DEF LoopFields, TypeOK
      <3> QED BY <1>7, <3>1 DEF DemandEdit, TypeOK
    <2> QED BY <1>7, <2>1, <2>2, <2>3, <2>4
            DEF DemandEdit, Goto, TypeOK, Labels, InTurn, control, clock, action
  <1> QED BY <1>1, <1>2, <1>3, <1>4, <1>5, <1>6, <1>7

LEMMA EndTypes == ASSUME TypeOK, Stall \/ Finish PROVE TypeOK'
  <1>1. CASE Stall
    <2>1. rails' \in RailCounters
      <3>1. PICK n \in Nat : rails' = [rails EXCEPT !.seeded = TRUE, !.stall = n]
        <4>1. rails.stall \in Nat
          BY DEF RailCounters, TypeOK
        <4>2. (IF Stalled THEN rails.stall + 1
               ELSE IF rails.seeded THEN 0 ELSE rails.stall) \in Nat
          BY <4>1
        <4> QED BY <1>1, <4>2 DEF Stall
      <3> QED BY <3>1 DEF RailCounters, TypeOK
    <2>2. tree' \in Trees
      BY <1>1 DEF Stall, Trees, TypeOK
    <2>3. pc' \in Labels \ InTurn /\ reason' \in Reasons
      BY <1>1 DEF Stall, Goto, Stop, TypeOK, Labels, InTurn, Reasons
    <2> QED BY <1>1, <2>1, <2>2, <2>3
            DEF Stall, TypeOK, control, clock, action, evidence
  <1>2. CASE Finish
    <2>1. FinalReason \in Reasons \ {"tolerated"}
      BY DEF FinalReason, Reasons, TypeOK
    <2>2. report' \in Reports
      <3>1. PICK rolled \in BOOLEAN :
               report' = [reason |-> FinalReason, rolledBack |-> rolled,
                          tolerated |-> reason = "tolerated"]
        BY <1>2 DEF Finish
      <3>2. (reason = "tolerated") \in BOOLEAN
        OBVIOUS
      <3> QED BY <2>1, <3>1, <3>2 DEF Reports
    <2> QED BY <1>2, <2>2
            DEF Finish, TypeOK, Labels, InTurn, clock, action, evidence, counters, world
  <1> QED BY <1>1, <1>2

LEMMA TypeStep == ASSUME TypeOK, [Next]_vars PROVE TypeOK'
  <1>1. CASE UNCHANGED vars
    BY <1>1 DEF vars, TypeOK, control, clock, action, evidence, counters, world
  <1> QED BY <1>1, StartRunTypes, TopTypes, ActTypes, FinishToolTypes,
             DispatchTypes, RailTypes, NudgeTypes, EndTypes DEF Next, LoopStep

\* Whatever the model, the tools and the verifier do, every local of a run and
\* every field of the Loop keeps to its range: no counter of a bounded recovery
\* passes its limit, no step is refunded that was not charged (loop.go Run).
THEOREM TypeCorrect == Spec => []TypeOK
  <1>1. Init => TypeOK
    BY InitTypes
  <1>2. TypeOK /\ [Next]_vars => TypeOK'
    BY TypeStep
  <1> QED BY <1>1, <1>2, PTL DEF Spec

-----------------------------------------------------------------------------
(* Turns.  Three recoveries take a turn back off the budget (a shrunken       *)
(* prompt, an empty answer, a rescue) and one does not charge it (a rescue    *)
(* from churn); each spends one of its own bounded count, so the turns taken  *)
(* stay within the turns charged and the recoveries spent.                    *)

Over == {"stop", "idle"}

TurnsPaid ==
    /\ turns <= step + rails.empties + rails.rescues + loop.shrinks
    /\ MaxSteps > 0 => step <= (IF pc \in Over THEN MaxSteps + 1 ELSE MaxSteps)

LEMMA CountersAreNumbers ==
    ASSUME TypeOK
    PROVE  /\ step \in Nat /\ turns \in Nat
           /\ rails.empties \in 0..MaxEmptyTurns
           /\ rails.rescues \in 0..MaxRescues
           /\ loop.shrinks \in 0..MaxShrinks
  BY DEF TypeOK, RailCounters, LoopFields

\* A step that takes no turn back.
LEMMA NoRefund ==
    ASSUME TypeOK, TypeOK', TurnsPaid, turns' = turns, step' = step,
           rails'.empties = rails.empties, rails'.rescues >= rails.rescues,
           loop'.shrinks = loop.shrinks, pc' \notin Over => pc \notin Over
    PROVE  TurnsPaid'
  <1>1. rails'.rescues \in Nat
    BY LimitsAreNumbers DEF TypeOK, RailCounters
  <1> QED BY <1>1, CountersAreNumbers, LimitsAreNumbers DEF TurnsPaid

\* Judging a verdict and counting an outcome leave these two; a rescue spends
\* one of its own.
LEMMA RecoveriesKept ==
    ASSUME TypeOK
    PROVE  /\ \A m, o : /\ RailsAfter(m, o).empties = rails.empties
                        /\ RailsAfter(m, o).rescues = rails.rescues
           /\ \A x, y, z :
                 LET r == [rails EXCEPT !.verified = x, !.lastRed = y, !.sameReds = z]
                 IN r.empties = rails.empties /\ r.rescues = rails.rescues
           /\ \A x : [rails EXCEPT !.seeded = TRUE, !.stall = x].empties = rails.empties
           /\ \A x : [rails EXCEPT !.seeded = TRUE, !.stall = x].rescues = rails.rescues
           /\ Rescued(rails).empties = rails.empties
           /\ Rescued(rails).rescues = rails.rescues + 1
           /\ [Rescued(rails) EXCEPT !.editFails = 0].empties = rails.empties
           /\ [Rescued(rails) EXCEPT !.editFails = 0].rescues = rails.rescues + 1
  <1>1. rails \in RailCounters
    BY DEF TypeOK
  <1>2. ASSUME NEW m, NEW o
        PROVE  /\ RailsAfter(m, o).empties = rails.empties
               /\ RailsAfter(m, o).rescues = rails.rescues
    BY <1>1 DEF RailsAfter, RailCounters
  <1>3. ASSUME NEW x, NEW y, NEW z
        PROVE  LET r == [rails EXCEPT !.verified = x, !.lastRed = y, !.sameReds = z]
               IN r.empties = rails.empties /\ r.rescues = rails.rescues
    BY <1>1 DEF RailCounters
  <1>4. ASSUME NEW x
        PROVE  LET r == [rails EXCEPT !.seeded = TRUE, !.stall = x]
               IN r.empties = rails.empties /\ r.rescues = rails.rescues
    BY <1>1 DEF RailCounters
  <1>5. /\ Rescued(rails).empties = rails.empties
        /\ Rescued(rails).rescues = rails.rescues + 1
    BY <1>1 DEF Rescued, RailCounters
  <1>6. /\ [Rescued(rails) EXCEPT !.editFails = 0].empties = rails.empties
        /\ [Rescued(rails) EXCEPT !.editFails = 0].rescues = rails.rescues + 1
    BY <1>1 DEF Rescued, RailCounters
  <1> QED BY <1>2, <1>3, <1>4, <1>5, <1>6

LEMMA TurnsPaidAtTop ==
    ASSUME TypeOK, TypeOK', TurnsPaid, BudgetTrips \/ ChurnRail \/ BeginTurn
    PROVE  TurnsPaid'
  <1> USE CountersAreNumbers, LimitsAreNumbers, TickedType
  <1>1. CASE BudgetTrips
    BY <1>1 DEF BudgetTrips, Stop, TurnsPaid, Over, counters, world
  <1>2. CASE ChurnRail
    <2>1. rails' \in {rails, Rescued(rails)}
      BY <1>2 DEF ChurnRail
    <2>2. rails'.empties = rails.empties
      BY <2>1 DEF Rescued, RailCounters, TypeOK
    <2>3. rails' = Rescued(rails) => rails'.rescues = rails.rescues + 1
      BY DEF Rescued, RailCounters, TypeOK
    <2> QED BY <1>2, <2>2, <2>3
            DEF ChurnRail, Goto, Stop, StepsSpent, TurnsPaid, Over, world
  <1>3. CASE BeginTurn
    BY <1>3 DEF BeginTurn, StepsSpent, Goto, TurnsPaid, Over, counters, world
  <1> QED BY <1>1, <1>2, <1>3

LEMMA TurnsPaidByRecovery ==
    ASSUME TypeOK, TypeOK', TurnsPaid, ContextShrinks \/ EmptyTurn \/ ExploreRail
    PROVE  TurnsPaid'
  <1> USE CountersAreNumbers, LimitsAreNumbers
  <1>1. CASE ContextShrinks
    <2>1. loop'.shrinks = loop.shrinks + 1
      BY <1>1 DEF ContextShrinks, LoopFields, TypeOK
    <2> QED BY <1>1, <2>1 DEF ContextShrinks, Goto, TurnsPaid, Over, counters
  <1>2. CASE EmptyTurn
    <2>1. rails'.empties = rails.empties + 1 /\ rails'.rescues = rails.rescues
      BY <1>2 DEF EmptyTurn, RailCounters, TypeOK
    <2> QED BY <1>2, <2>1 DEF EmptyTurn, Goto, TurnsPaid, Over, world
  <1>3. CASE ExploreRail
    <2>1. rails' = Rescued(rails) =>
            rails'.empties = rails.empties /\ rails'.rescues = rails.rescues + 1
      BY DEF Rescued, RailCounters, TypeOK
    <2> QED BY <1>3, <2>1 DEF ExploreRail, Goto, Stop, TurnsPaid, Over, world
  <1> QED BY <1>1, <1>2, <1>3

\* The rest of the loop charges nothing and refunds nothing.
LEMMA TurnsPaidOtherwise ==
    ASSUME TypeOK, TypeOK', TurnsPaid,
           \/ Cancel \/ Gate \/ TopInterrupted \/ ActFails \/ PromiseNudge
           \/ ProseTurn \/ (\E m \in Moves : Calls(m)) \/ FinishRefused
           \/ FinishUnverified \/ FinishVerifies \/ BeforeEdit \/ Dispatch
           \/ VerifySkipped \/ VerifyRuns \/ Decide \/ EditFailRail \/ RepeatRail
           \/ Explore \/ ExploreTokensSpent \/ SaturationRail \/ NoNudge \/ Nudge
           \/ NudgeDelegates \/ DemandEdit \/ Stall \/ Finish
    PROVE  TurnsPaid'
  <1>1. turns' = turns /\ step' = step
    BY DEF Cancel, Gate, TopInterrupted, ActFails, PromiseNudge, ProseTurn, Calls,
           FinishRefused, FinishUnverified, FinishVerifies, BeforeEdit, Dispatch,
           VerifySkipped, VerifyRuns, Decide, EditFailRail, RepeatRail, Explore,
           ExploreTokensSpent, SaturationRail, NoNudge, Nudge, NudgeDelegates,
           DemandEdit, Stall, Finish, clock
  <1>2. pc' \notin Over => pc \notin Over
    BY DEF Over, Cancel, Gate, TopInterrupted, ActFails, PromiseNudge, ProseTurn,
           Calls, FinishRefused, FinishUnverified, FinishVerifies, BeforeEdit,
           Dispatch, VerifySkipped, VerifyRuns, Decide, EditFailRail, RepeatRail,
           Explore, ExploreTokensSpent, SaturationRail, NoNudge, Nudge,
           NudgeDelegates, DemandEdit, Stall, Finish
  <1>3. loop'.shrinks = loop.shrinks
    <2>1. CASE Dispatch
      BY <2>1 DEF Dispatch, LoopAfter, LoopFields, TypeOK
    <2>2. CASE VerifyRuns \/ DemandEdit
      BY <2>2 DEF VerifyRuns, Judge, DemandEdit, LoopFields, TypeOK
    <2>3. CASE ~ (Dispatch \/ VerifyRuns \/ DemandEdit)
      BY <2>3 DEF Cancel, Gate, TopInterrupted, ActFails, PromiseNudge, ProseTurn,
           Calls, FinishRefused, FinishUnverified, FinishVerifies, BeforeEdit,
           VerifySkipped, Decide, EditFailRail, RepeatRail, Explore,
           ExploreTokensSpent, SaturationRail, NoNudge, Nudge, NudgeDelegates,
           Stall, Finish, world
    <2> QED BY <2>1, <2>2, <2>3
  <1>4. rails'.empties = rails.empties /\ rails'.rescues >= rails.rescues
    <2>1. /\ rails \in RailCounters
          /\ rails.empties \in Nat /\ rails.rescues \in Nat
      BY CountersAreNumbers, LimitsAreNumbers DEF TypeOK
    <2>2. CASE Dispatch
      <3>1. PICK o : rails' = rails \/ rails' = RailsAfter(call, o)
        BY <2>2 DEF Dispatch
      <3> QED BY <2>1, <3>1, RecoveriesKept
    <2>3. CASE VerifyRuns
      <3>1. PICK v \in Answers : Judge(v)
        BY <2>3 DEF VerifyRuns
      <3>2. CASE rails' = rails
        BY <2>1, <3>2
      <3>3. CASE rails' # rails
        <4>1. PICK same : rails' = [rails EXCEPT !.verified = TRUE,
                                      !.lastRed = SameReds(v, same).lastRed,
                                      !.sameReds = SameReds(v, same).sameReds]
          BY <3>1, <3>3 DEF Judge
        <4> QED BY <2>1, <4>1, RecoveriesKept
      <3> QED BY <3>2, <3>3
    <2>4. CASE EditFailRail \/ RepeatRail
      <3>1. \/ rails' = rails \/ rails' = Rescued(rails)
            \/ rails' = [Rescued(rails) EXCEPT !.editFails = 0]
        BY <2>4 DEF EditFailRail, RepeatRail
      <3>2. \/ rails'.empties = rails.empties /\ rails'.rescues = rails.rescues
            \/ rails'.empties = rails.empties /\ rails'.rescues = rails.rescues + 1
        BY <3>1, RecoveriesKept, Zenon
      <3> QED BY <2>1, <3>2
    <2>5. CASE Explore \/ NudgeDelegates \/ DemandEdit
      BY <2>1, <2>5 DEF Explore, NudgeDelegates, DemandEdit, RailCounters
    <2>6. CASE PromiseNudge \/ Nudge
      BY <2>1, <2>6 DEF PromiseNudge, Nudge, RailCounters
    <2>7. CASE Stall
      <3>1. PICK n : rails' = [rails EXCEPT !.seeded = TRUE, !.stall = n]
        BY <2>7 DEF Stall
      <3> QED BY <2>1, <3>1, RecoveriesKept
    <2>8. CASE Finish \/ Cancel \/ Gate \/ TopInterrupted \/ ActFails \/ ProseTurn
               \/ (\E m \in Moves : Calls(m)) \/ FinishRefused
               \/ FinishUnverified \/ FinishVerifies \/ BeforeEdit
      <3>1. rails' = rails
        BY <2>8 DEF Finish, Cancel, Gate, TopInterrupted, ActFails, ProseTurn, Calls,
             FinishRefused, FinishUnverified, FinishVerifies, BeforeEdit, counters
      <3> QED BY <2>1, <3>1, RecoveriesKept
    <2>9. CASE VerifySkipped \/ Decide \/ ExploreTokensSpent \/ SaturationRail
               \/ NoNudge
      <3>1. rails' = rails
        BY <2>9 DEF VerifySkipped, Decide, ExploreTokensSpent, SaturationRail,
             NoNudge, counters
      <3> QED BY <2>1, <3>1, RecoveriesKept
    <2> QED BY <2>2, <2>3, <2>4, <2>5, <2>6, <2>7, <2>8, <2>9
  <1> QED BY <1>1, <1>2, <1>3, <1>4, NoRefund

LEMMA TurnsPaidStep == ASSUME TypeOK, TurnsPaid, [Next]_vars PROVE TurnsPaid'
  <1>1. TypeOK'
    BY TypeStep
  <1>2. CASE StartRun
    BY <1>1, <1>2, CountersAreNumbers, LimitsAreNumbers
       DEF StartRun, FreshRails, TurnsPaid, Over
  <1>3. CASE UNCHANGED vars
    BY <1>3 DEF vars, TurnsPaid, clock, counters, world
  <1> QED BY <1>1, <1>2, <1>3, TurnsPaidAtTop, TurnsPaidByRecovery,
             TurnsPaidOtherwise DEF Next, LoopStep

\* A run with a step budget takes at most that many turns, one for the trip of
\* the budget, and one for every recovery its own limits allow: refunds cannot
\* carry it on for ever (loop.go Run, the 1536 identical retries of complete).
THEOREM TurnsAreBounded == Spec => []TurnsBounded
  <1>1. Init => TypeOK /\ TurnsPaid
    <2>1. Init => TypeOK
      BY InitTypes
    <2>2. ASSUME Init PROVE TurnsPaid
      <3>1. /\ turns = 0 /\ step = 0 /\ pc \in Over
            /\ rails.empties = 0 /\ rails.rescues = 0 /\ loop.shrinks = 0
        BY <2>2 DEF Init, Over, FreshRails, FreshLoop
      <3> QED BY <3>1, LimitsAreNumbers DEF TurnsPaid
    <2> QED BY <2>1, <2>2
  <1>2. TypeOK /\ TurnsPaid /\ [Next]_vars => (TypeOK /\ TurnsPaid)'
    BY TypeStep, TurnsPaidStep
  <1>3. TypeOK /\ TurnsPaid => TurnsBounded
    BY CountersAreNumbers, LimitsAreNumbers DEF TurnsPaid, TurnsBounded, TurnBound
  <1> QED BY <1>1, <1>2, <1>3, PTL DEF Spec

-----------------------------------------------------------------------------
(* The edit-only rail *)

\* Three steps touch the rail's fields: the others leave `loop` alone, or, in
\* ContextShrinks, its count of shrunken prompts.
LEMMA RailOnlyThere ==
    ASSUME TypeOK, [Next]_vars, ~ Dispatch, ~ VerifyRuns, ~ DemandEdit
    PROVE  loop'.editOnly = loop.editOnly /\ loop'.impossible = loop.impossible
  <1>1. CASE ContextShrinks
    BY <1>1 DEF ContextShrinks, LoopFields, TypeOK
  <1>2. CASE loop' = loop
    BY <1>2
  <1>3. StartRun \/ TopInterrupted \/ BudgetTrips \/ ChurnRail \/ BeginTurn
        \/ Cancel \/ Gate \/ ActFails \/ EmptyTurn \/ PromiseNudge \/ ProseTurn
        \/ (\E m \in Moves : Calls(m)) => loop' = loop
    BY DEF StartRun, TopInterrupted, BudgetTrips, ChurnRail, BeginTurn, Cancel, Gate,
           ActFails, EmptyTurn, PromiseNudge, ProseTurn, Calls, world
  <1>4. FinishRefused \/ FinishUnverified \/ FinishVerifies \/ BeforeEdit
        \/ VerifySkipped \/ Decide \/ EditFailRail \/ RepeatRail \/ Explore
        \/ ExploreRail \/ ExploreTokensSpent \/ SaturationRail \/ NoNudge \/ Nudge
        \/ NudgeDelegates \/ Stall \/ Finish \/ UNCHANGED vars => loop' = loop
    BY DEF FinishRefused, FinishUnverified, FinishVerifies, BeforeEdit,
           VerifySkipped, Decide, EditFailRail, RepeatRail, Explore, ExploreRail,
           ExploreTokensSpent, SaturationRail, NoNudge, Nudge, NudgeDelegates,
           Stall, Finish, vars, world
  <1> QED BY <1>1, <1>2, <1>3, <1>4 DEF Next, LoopStep

LEMMA DispatchRail ==
    ASSUME TypeOK, Dispatch
    PROVE  /\ loop'.editOnly <= loop.editOnly
           /\ loop'.impossible => loop'.editOnly = 0 \/ loop.impossible
  <1>1. PICK o : loop' = LoopAfter(call, o)
    BY DEF Dispatch
  <1>2. loop \in LoopFields /\ loop.editOnly \in Nat
    BY LimitsAreNumbers DEF TypeOK, LoopFields
  <1>3. /\ loop'.editOnly = EditOnlyAfter(call, o)
        /\ loop'.impossible => loop.impossible \/ o = "scope"
    BY <1>1, <1>2 DEF LoopAfter, LoopFields
  <1>4. EditOnlyAfter(call, o) \in {0, loop.editOnly - 1}
    BY DEF EditOnlyAfter
  <1>5. /\ loop.editOnly = 0 => EditOnlyAfter(call, o) = 0
        /\ o = "scope" => EditOnlyAfter(call, o) = 0
    BY DEF EditOnlyAfter
  <1> QED BY <1>2, <1>3, <1>4, <1>5

\* The two steps that may set the rail, set it or leave it.
LEMMA ArmingSteps ==
    ASSUME TypeOK, VerifyRuns \/ DemandEdit
    PROVE  /\ loop'.impossible = loop.impossible
           /\ \/ loop'.editOnly = loop.editOnly
              \/ /\ ~ loop.impossible
                 /\ \/ BuildBroken(last')
                    \/ ~ OutOfReachForCorrective(baseline', last')
  <1>1. [loop EXCEPT !.editOnly = EditOnlyBudget].impossible = loop.impossible
    BY DEF TypeOK, LoopFields
  <1>2. CASE VerifyRuns
    BY <1>1, <1>2 DEF VerifyRuns, Judge
  <1>3. CASE DemandEdit
    BY <1>1, <1>3 DEF DemandEdit
  <1> QED BY <1>2, <1>3

\* Once the write scope has refused a write, no step withholds the read tools
\* again, in that run or in a later one of the same Loop (loop.go
\* editsImpossible, editOnlyLeft).
THEOREM RailStaysReleased == Spec => []ForceEditReleased
  <1>1. Init => ForceEditReleased
    BY DEF Init, FreshLoop, ForceEditReleased
  <1>2. ASSUME TypeOK, ForceEditReleased, [Next]_vars PROVE ForceEditReleased'
    <2>1. CASE Dispatch
      <3>1. loop.editOnly \in Nat
        BY <1>2, LimitsAreNumbers DEF TypeOK, LoopFields
      <3>2. loop'.editOnly \in Nat
        BY <1>2, TypeStep, LimitsAreNumbers DEF TypeOK, LoopFields
      <3> QED BY <1>2, <2>1, <3>1, <3>2, DispatchRail DEF ForceEditReleased
    <2>2. CASE VerifyRuns \/ DemandEdit
      BY <1>2, <2>2, ArmingSteps DEF ForceEditReleased
    <2>3. CASE ~ (Dispatch \/ VerifyRuns \/ DemandEdit)
      BY <1>2, <2>3, RailOnlyThere DEF ForceEditReleased
    <2> QED BY <2>1, <2>2, <2>3
  <1> QED BY <1>1, <1>2, TypeCorrect, PTL DEF Spec

\* No step starts to withhold the read tools over a red the baseline had and
\* the scope puts out of the run's reach (loop.go, the verify step and the
\* explore nudge; baseline.go outOfReachForCorrective).
THEOREM OnlyReachableDemands == Spec => DemandsWithinReach
  <1>1. ASSUME TypeOK, [Next]_vars, loop'.editOnly > loop.editOnly
        PROVE  BuildBroken(last') \/ ~ OutOfReachForCorrective(baseline', last')
    <2>1. loop.editOnly \in Nat /\ loop'.editOnly \in Nat
      BY <1>1, TypeStep, LimitsAreNumbers DEF TypeOK, LoopFields
    <2>2. CASE Dispatch
      BY <1>1, <2>1, <2>2, DispatchRail
    <2>3. CASE VerifyRuns \/ DemandEdit
      BY <1>1, <2>1, <2>3, ArmingSteps
    <2>4. CASE ~ (Dispatch \/ VerifyRuns \/ DemandEdit)
      BY <1>1, <2>1, <2>4, RailOnlyThere
    <2> QED BY <2>2, <2>3, <2>4
  <1>2. TypeOK /\ [Next]_vars =>
          [loop'.editOnly > loop.editOnly =>
             BuildBroken(last') \/ ~ OutOfReachForCorrective(baseline', last')]_vars
    BY <1>1
  <1> QED BY <1>2, TypeCorrect, PTL DEF DemandsWithinReach, Spec
==============================================================================
