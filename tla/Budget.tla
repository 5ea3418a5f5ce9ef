-------------------------------- MODULE Budget --------------------------------
(***************************************************************************)
(* What a run may spend: steps, tokens and wall clock                      *)
(* (internal/agent/budget.go), the resident set (memguard.go) and what a   *)
(* child is given (stepBudget, subagent.go).                               *)
(*                                                                         *)
(* AgentLoop lets the budget trip at any turn; here the counters decide.   *)
(* A turn costs some tokens and its call lands a change, edits a file to   *)
(* what it was, or does neither.  The steps a run is refunded are          *)
(* AgentLoop's.  Memory is counted in GiB.                                 *)
(***************************************************************************)
EXTENDS Naturals, SequencesExt, FiniteSetsExt

CONSTANTS
    BudgetSettings, \* steps, tokens, computed, wall, memory and the steps of a child
    Costs,          \* tokens a turn may cost
    ChildCosts,     \* tokens a turn of a child may cost
    Readings,       \* what VmRSS may read; 0 when it cannot be read
    FlatReserve,    \* FinalAnswerReserve
    MemCap,         \* memCeilingCapMB
    MemFloor,       \* memCeilingFloorMB
    LeastChild,     \* the fewest steps a child is given
    UnlimitedSteps, \* what the steps of a run without a limit count as for its children
    HardFactor,     \* subagentHardStepFactor
    MaxChildren,    \* maxSubagents
    MaxJournal,     \* bound: turns of one run
    MaxElapsed,     \* bound: ticks of one run
    MaxBudgetRuns   \* bound: runs of one Loop

\* Settings and readings are numbers; the cap, the floor and the shares that a child
\* and the guard are given are not zero, as in the code.
ASSUME BudgetAssumption ==
    /\ BudgetSettings \subseteq
         [steps : Nat, tokens : Nat, computed : BOOLEAN, wall : Nat, child : Nat,
          memory : [setting : {"off", "default", "set"}, host : Nat, cgroup : Nat, megabytes : Nat]]
    /\ Costs \subseteq Nat /\ ChildCosts \subseteq Nat /\ Readings \subseteq Nat
    /\ {FlatReserve, UnlimitedSteps, MaxChildren, MaxJournal, MaxElapsed, MaxBudgetRuns} \subseteq Nat
    /\ {MemCap, MemFloor, LeastChild, HardFactor} \subseteq Nat \ {0}

VARIABLES
    runPhase,      \* where the run is
    settings,   \* the budget of the Loop
    meter,      \* runBudget's counters: steps, tokens, unproductive
    elapsed,    \* time since the budget was reset
    resident,   \* what observeRSS read this turn
    spawned,    \* children of this Loop so far: taskTool.spawns, which Run does not reset
    childMeter, \* stepBudget's counters: steps, and steps when a change landed
    trippedBy,    \* the kind of the budget that ended the run
    runsMade,   \* bound
    journal,    \* ghost: the turns of this run
    childTurns, \* ghost: which turns of the child landed a change
    unmetered   \* ghost: the turns and the tokens of each child of this run

budgetVars == <<runPhase, settings, meter, elapsed, resident, spawned, childMeter,
                trippedBy, runsMade, journal, childTurns, unmetered>>

Effects == {"landed", "noop", "other"}
NoMeter == [steps |-> 0, tokens |-> 0, unproductive |-> 0]
NoChildMeter == [steps |-> 0, mark |-> 0]

-----------------------------------------------------------------------------
(* The ceilings *)

\* Held back for the closing answer: a twentieth, up to a flat allowance.
ReserveOf(tokens) == Min({tokens \div 20, FlatReserve})

\* The computed ceiling bounds what was spent since the last change, one that
\* was asked for bounds everything.
Spent(s, m) == IF s.computed THEN m.unproductive ELSE m.tokens

\* totalRAMBytes: what the process may use.
UsableMemory(m) ==
    IF m.host = 0 \/ m.cgroup = 0 THEN m.host + m.cgroup ELSE Min({m.host, m.cgroup})

\* memCeilingBytes; 0 for none.
MemoryCeiling(m) ==
    CASE m.setting = "off" -> 0
      [] m.setting = "default" ->
            IF UsableMemory(m) = 0 THEN MemCap
            ELSE Max({MemFloor, Min({MemCap, UsableMemory(m) \div 2})})
      [] OTHER -> m.megabytes

\* observeRSS.
TooLarge(s, rss) == rss > 0 /\ MemoryCeiling(s.memory) > 0 /\ rss > MemoryCeiling(s.memory)

\* runBudget.Check, then observeRSS: the first ceiling passed, if any.
Tripped(s, m, rss) ==
    IF s.steps > 0 /\ m.steps > s.steps THEN "steps"
    ELSE IF s.tokens > 0 /\ Spent(s, m) > s.tokens - ReserveOf(s.tokens) THEN "tokens"
    ELSE IF s.wall > 0 /\ elapsed > s.wall THEN "wall"
    ELSE IF TooLarge(s, rss) THEN "memory"
    ELSE "none"

\* subagentBudget: the cap that was set, or half the parent's steps, or of what
\* no limit counts as.
ChildSteps(s) ==
    LET half == (IF s.steps > 0 THEN s.steps ELSE UnlimitedSteps) \div 2
    IN Max({LeastChild, IF s.child > 0 THEN s.child ELSE half})

\* stepBudget.Check.
ChildTripped(s, c) ==
    \/ c.steps >= HardFactor * ChildSteps(s)
    \/ c.steps - c.mark >= ChildSteps(s)

-----------------------------------------------------------------------------
\* NewBudget, and Reset at the start of every run.
ResetBudget ==
    /\ runPhase = "idle" /\ runsMade < MaxBudgetRuns
    /\ runsMade' = runsMade + 1
    /\ IF settings = <<>> THEN settings' \in BudgetSettings ELSE UNCHANGED settings
    /\ runPhase' = "top" /\ trippedBy' = "none"
    /\ meter' = NoMeter /\ elapsed' = 0 /\ journal' = <<>> /\ unmetered' = <<>>
    /\ UNCHANGED <<resident, spawned, childMeter, childTurns>>

\* Time passes while the model, a tool or a child is awaited; it is counted only
\* where a wall clock is set.
TimePasses ==
    /\ runPhase \in {"act", "child"} /\ settings.wall > 0 /\ elapsed < MaxElapsed
    /\ elapsed' = elapsed + 1
    /\ UNCHANGED <<runPhase, settings, meter, resident, spawned, childMeter, trippedBy, runsMade, journal, childTurns, unmetered>>

\* The top of a turn: Observe, Check, observeRSS.
CheckBudget ==
    /\ runPhase = "top" /\ Len(journal) < MaxJournal
    /\ \E rss \in Readings :
         LET m    == [meter EXCEPT !.steps = @ + 1]
             kind == Tripped(settings, m, rss)
         IN /\ meter' = m
            /\ resident' = rss
            /\ trippedBy' = kind
            /\ runPhase' = IF kind = "none" THEN "act" ELSE "closing"
    /\ UNCHANGED <<settings, elapsed, spawned, childMeter, runsMade, journal, childTurns, unmetered>>

\* What renews the allowance (NoteProgress).
AnyEditRenews(effect) == effect # "other"    \* bug: an edit to what was there
Renews(effect) == effect = "landed"

\* The answer is paid for, then its call has its effect.
SpendTurn ==
    /\ runPhase = "act"
    /\ \E cost \in Costs, effect \in Effects :
         /\ meter' = [meter EXCEPT !.tokens = @ + cost,
                                   !.unproductive = IF Renews(effect) THEN 0 ELSE @ + cost]
         /\ journal' = Append(journal, [cost |-> cost, effect |-> effect])
    /\ runPhase' = "top" /\ resident' = 0
    /\ UNCHANGED <<settings, elapsed, spawned, childMeter, trippedBy, runsMade, childTurns, unmetered>>

\* The call is a task: a child begins, on a budget of its own.
SpawnHelper ==
    /\ runPhase = "act" /\ spawned < MaxChildren
    /\ spawned' = spawned + 1
    /\ \E cost \in Costs :
         /\ meter' = [meter EXCEPT !.tokens = @ + cost, !.unproductive = @ + cost]
         /\ journal' = Append(journal, [cost |-> cost, effect |-> "other"])
    /\ runPhase' = "child" /\ childMeter' = NoChildMeter /\ childTurns' = <<>>
    /\ unmetered' = Append(unmetered, [turns |-> 0, tokens |-> 0])
    /\ resident' = 0
    /\ UNCHANGED <<settings, elapsed, trippedBy, runsMade>>

\* One turn of the child: its own Check, the same memory.  Its tokens are counted
\* by its own budget alone, which has no ceiling for them.
ChildTurn ==
    /\ runPhase = "child"
    /\ \E rss \in Readings :
         /\ resident' = rss
         /\ LET c == [childMeter EXCEPT !.steps = @ + 1]
            IN IF ChildTripped(settings, c) \/ TooLarge(settings, rss)
               THEN /\ runPhase' = "top" /\ childMeter' = NoChildMeter /\ childTurns' = <<>>
                    /\ UNCHANGED unmetered
               ELSE \E landed \in BOOLEAN, cost \in ChildCosts :
                      /\ childMeter' = IF landed THEN [c EXCEPT !.mark = c.steps] ELSE c
                      /\ childTurns' = Append(childTurns, landed)
                      /\ unmetered' = [unmetered EXCEPT ![Len(unmetered)] =
                                         [turns |-> @.turns + 1, tokens |-> @.tokens + cost]]
                      /\ UNCHANGED runPhase
    /\ UNCHANGED <<settings, meter, elapsed, spawned, trippedBy, runsMade, journal>>

\* It finishes, fails or is stopped by a rail.
ChildEnds ==
    /\ runPhase = "child" /\ runPhase' = "top"
    /\ childMeter' = NoChildMeter /\ childTurns' = <<>>
    /\ UNCHANGED <<settings, meter, elapsed, resident, spawned, trippedBy, runsMade, journal, unmetered>>

\* The closing answer is paid for and nothing is checked any more.
CloseRun ==
    /\ runPhase = "closing" /\ runPhase' = "idle"
    /\ \E cost \in Costs \cup {0} : meter' = [meter EXCEPT !.tokens = @ + cost, !.unproductive = @ + cost]
    /\ UNCHANGED <<settings, elapsed, resident, spawned, childMeter, trippedBy, runsMade, journal, childTurns, unmetered>>

\* Any other end.
EndBudgetRun ==
    /\ runPhase = "top" /\ journal # <<>> /\ runPhase' = "idle"
    /\ UNCHANGED <<settings, meter, elapsed, resident, spawned, childMeter, trippedBy, runsMade, journal, childTurns, unmetered>>

BudgetInit ==
    /\ runPhase = "idle" /\ settings = <<>> /\ meter = NoMeter /\ elapsed = 0 /\ resident = 0
    /\ spawned = 0 /\ childMeter = NoChildMeter /\ trippedBy = "none" /\ runsMade = 0
    /\ journal = <<>> /\ childTurns = <<>> /\ unmetered = <<>>

BudgetNext ==
    \/ ResetBudget \/ TimePasses \/ CheckBudget \/ SpendTurn \/ SpawnHelper
    \/ ChildTurn \/ ChildEnds \/ CloseRun \/ EndBudgetRun

BudgetSpec == BudgetInit /\ [][BudgetNext]_budgetVars

-----------------------------------------------------------------------------
\* Every part of the state has its type.
BudgetTypeOK ==
    /\ runPhase \in {"idle", "top", "act", "child", "closing"}
    /\ trippedBy \in {"none", "steps", "tokens", "wall", "memory"}
    /\ meter.unproductive <= meter.tokens
    /\ childMeter.mark <= childMeter.steps
    /\ spawned \in 0 .. MaxChildren /\ Len(unmetered) <= spawned

\* The tokens of the first n turns, all of them or those since the last change.
CostOf(turns, n) ==
    LET sum[i \in 0 .. n] == IF i = 0 THEN 0 ELSE sum[i - 1] + turns[i].cost
    IN sum[n]
SinceChange(turns, n) ==
    LET last == Max({0} \cup {i \in 1 .. n : turns[i].effect = "landed"})
    IN CostOf(turns, n) - CostOf(turns, last)
Counted(n) == IF settings.computed THEN SinceChange(journal, n) ELSE CostOf(journal, n)

\* Of the tokens of the run's own turns, a ceiling kloo inferred never stops a run
\* that keeps changing files, and one the user asked for is never passed by more
\* than one turn (budget.go:20-30): a turn begins only when what counts is within
\* the ceiling less the reserve, and a token stop says that it is not.  What an
\* earlier run spent counts in neither, and what a child spends does not although
\* the comment says so: TotalSpendIsBounded of MCBudget.
CeilingsAreMeant ==
    settings # <<>> /\ settings.tokens > 0 =>
        LET limit == settings.tokens - ReserveOf(settings.tokens)
        IN /\ \A i \in 1 .. Len(journal) : Counted(i - 1) <= limit
           /\ trippedBy = "tokens" => Counted(Len(journal)) > limit

\* A child that lands changes goes on, one that does not is stopped in time, and
\* no child outlives its absolute ceiling (subagent.go:262-282): that is all that
\* bounds what is spent beside the run's own turns, each child so many turns.
ChildrenAreBounded ==
    /\ runPhase = "child" =>
        Len(childTurns) - Max({0} \cup {i \in DOMAIN childTurns : childTurns[i]}) < ChildSteps(settings)
    /\ \A i \in DOMAIN unmetered : unmetered[i].turns < HardFactor * ChildSteps(settings)

\* The guard speaks before the OOM killer does, in a container too, and never
\* where nothing can be measured (memguard.go:317-326, 413-414): left to itself,
\* no turn goes on that is known to hold more than half of what there is to use.
MemoryIsGuarded ==
    /\ trippedBy = "memory" => resident > 0 /\ settings.memory.setting # "off"
    /\ runPhase \in {"act", "child"} /\ settings.memory.setting = "default" =>
        LET u == UsableMemory(settings.memory)
        IN resident <= Max({MemFloor, IF u > 0 THEN u \div 2 ELSE MemCap})

\* A budget stops what it was meant to stop, and nothing else.
BudgetsAreMeant == CeilingsAreMeant /\ ChildrenAreBounded /\ MemoryIsGuarded
=============================================================================
