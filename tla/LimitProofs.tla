----------------------------- MODULE LimitProofs ------------------------------
(***************************************************************************)
(* What bounds a run and what is counted of it, for any run. Budget: of    *)
(* the tokens of the run's own turns, a ceiling that was asked for is kept *)
(* and one that was inferred stops no run that keeps changing files, a     *)
(* child takes a bounded number of turns, and the memory guard speaks in   *)
(* time. Calibration: while no two saves overlap the file holds the last   *)
(* ratio saved under every name, but what a save that could not read it    *)
(* dropped, and each is of its own turn. WorkingMemory: a prompt that is   *)
(* assembled fits its window, measured as its cuts are, what it points to  *)
(* is in it, what was cached of it stays unless the measure shrinks, and   *)
(* the record of edits is forgotten last. ChurnHistory: the streaks the    *)
(* detector keeps are those of the whole history.                          *)
(***************************************************************************)
EXTENDS Budget, Calibration, WorkingMemory, ChurnHistory, Induction, FiniteSetTheorems

-----------------------------------------------------------------------------
(* What a run may spend *)

TurnsOfRun == [cost : Nat, effect : Effects]

\* The step of the sum of the first turns' tokens, as a function.
Adds(turns) == [i \in DOMAIN turns |-> [v \in Nat |-> v + turns[i].cost]]

LEMMA CostIsASum ==
    ASSUME NEW turns \in Seq(TurnsOfRun), NEW n \in 0 .. Len(turns)
    PROVE  \E f \in [0 .. n -> Nat] : Runs(f, 0, Adds(turns), n) /\ CostOf(turns, n) = f[n]
  <1> DEFINE sum == CHOOSE f : f = [i \in 0 .. n |-> IF i = 0 THEN 0 ELSE f[i - 1] + turns[i].cost]
  <1>1. CostOf(turns, n) = sum[n]
    BY DEF CostOf
  <1>2. \A i \in 1 .. n : Adds(turns)[i] \in [Nat -> Nat]
    <2> SUFFICES ASSUME NEW i \in 1 .. n PROVE Adds(turns)[i] \in [Nat -> Nat]
      OBVIOUS
    <2>1. i \in DOMAIN turns /\ turns[i] \in TurnsOfRun
      OBVIOUS
    <2>2. turns[i].cost \in Nat
      BY <2>1 DEF TurnsOfRun
    <2> QED BY <2>1, <2>2 DEF Adds
  <1>0. 0 \in Nat /\ n \in Nat /\ 0 \in Int /\ n \in Int
    OBVIOUS
  <1>3. \E f \in [0 .. n -> Nat] : Runs(f, 0, Adds(turns), n)
    BY <1>0, <1>2, RunningValues, Zenon
  <1>a. PICK f \in [0 .. n -> Nat] : Runs(f, 0, Adds(turns), n)
    BY <1>3
  <1>4. f = [i \in 0 .. n |-> IF i = 0 THEN 0 ELSE f[i - 1] + turns[i].cost]
    <2>1. ASSUME NEW i \in 0 .. n
          PROVE  (IF i = 0 THEN 0 ELSE Adds(turns)[i][f[i - 1]])
                   = (IF i = 0 THEN 0 ELSE f[i - 1] + turns[i].cost)
      <3>1. CASE i = 0
        BY <3>1
      <3>2. CASE i # 0
        <4>1. f[i - 1] \in Nat /\ i \in DOMAIN turns
          BY <3>2
        <4> QED BY <3>2, <4>1 DEF Adds
      <3> QED BY <3>1, <3>2
    <2> QED BY <1>a, <2>1 DEF Runs
  <1>5. sum = [i \in 0 .. n |-> IF i = 0 THEN 0 ELSE sum[i - 1] + turns[i].cost]
    BY <1>4
  <1> HIDE DEF sum
  <1>6. ASSUME NEW g, g = [i \in 0 .. n |-> IF i = 0 THEN 0 ELSE g[i - 1] + turns[i].cost]
        PROVE  g = f
    <2> DEFINE S == {i \in 0 .. n : g[i] = f[i]}
    <2>1. 0 \in S
      BY <1>4, <1>6
    <2>2. ASSUME NEW i \in 0 .. (n - 1), i \in S PROVE i + 1 \in S
      <3>1. g[i + 1] = g[i] + turns[i + 1].cost /\ f[i + 1] = f[i] + turns[i + 1].cost
        BY <1>4, <1>6
      <3> QED BY <2>2, <3>1
    <2> HIDE DEF S
    <2>3. 0 .. n \subseteq S
      BY <1>0, <2>1, <2>2, IntervalInduction
    <2>4. \A i \in 0 .. n : g[i] = f[i]
      BY <2>3 DEF S
    <2> QED BY <1>4, <1>6, <2>4
  <1>7. sum = f
    BY <1>5, <1>6
  <1> QED BY <1>1, <1>a, <1>7

\* No turn costs nothing, one more adds its own tokens, and the tokens of the turns
\* there were stay when another comes.
LEMMA CostsAdd ==
    ASSUME NEW turns \in Seq(TurnsOfRun), NEW t \in TurnsOfRun
    PROVE  /\ CostOf(turns, 0) = 0
           /\ \A n \in 0 .. Len(turns) : CostOf(turns, n) \in Nat
                                          /\ CostOf(Append(turns, t), n) = CostOf(turns, n)
           /\ CostOf(Append(turns, t), Len(turns) + 1) = CostOf(turns, Len(turns)) + t.cost
  <1> DEFINE more == Append(turns, t)
             len == Len(turns)
  <1>0. more \in Seq(TurnsOfRun) /\ Len(more) = len + 1 /\ more[len + 1] = t
        /\ \A i \in 1 .. len : more[i] = turns[i]
    OBVIOUS
  <1> HIDE DEF more
  <1>1. CostOf(turns, 0) = 0
    <2>1. PICK f \in [0 .. 0 -> Nat] : Runs(f, 0, Adds(turns), 0) /\ CostOf(turns, 0) = f[0]
      BY CostIsASum
    <2>2. f[0] = 0
      BY <2>1 DEF Runs
    <2> QED BY <2>1, <2>2
  <1>2. \A i \in 1 .. len : Adds(turns)[i] = Adds(more)[i]
    BY <1>0 DEF Adds
  <1>3. ASSUME NEW n \in 0 .. len
        PROVE  CostOf(turns, n) \in Nat /\ CostOf(more, n) = CostOf(turns, n)
    <2>1. PICK f \in [0 .. n -> Nat] : Runs(f, 0, Adds(turns), n) /\ CostOf(turns, n) = f[n]
      BY CostIsASum
    <2>2. n \in 0 .. Len(more)
      BY <1>0
    <2>3. PICK g \in [0 .. n -> Nat] : Runs(g, 0, Adds(more), n) /\ CostOf(more, n) = g[n]
      BY <1>0, <2>2, CostIsASum
    <2>a. n \in Nat /\ n <= n /\ \A i \in 1 .. n : Adds(turns)[i] = Adds(more)[i]
      BY <1>2
    <2>4. \A i \in 0 .. n : f[i] = g[i]
      BY <2>1, <2>3, <2>a, SameRun
    <2> QED BY <2>1, <2>3, <2>4
  <1>4. CostOf(more, len + 1) = CostOf(turns, len) + t.cost
    <2>1. PICK f \in [0 .. len -> Nat] : Runs(f, 0, Adds(turns), len) /\ CostOf(turns, len) = f[len]
      BY CostIsASum
    <2>2. len + 1 \in 0 .. Len(more) /\ len + 1 \in Nat
      BY <1>0
    <2>3. PICK g \in [0 .. (len + 1) -> Nat] : Runs(g, 0, Adds(more), len + 1) /\ CostOf(more, len + 1) = g[len + 1]
      BY <1>0, <2>2, CostIsASum
    <2>4. f[len] = g[len]
      BY <1>2, <2>1, <2>2, <2>3, SameRun
    <2>5. g[len + 1] = Adds(more)[len + 1][g[len]]
      BY <2>2, <2>3 DEF Runs
    <2>6. g[len] \in Nat
      OBVIOUS
    <2>7. Adds(more)[len + 1][g[len]] = g[len] + t.cost
      BY <1>0, <2>6 DEF Adds
    <2> QED BY <2>1, <2>3, <2>4, <2>5, <2>7
  <1> QED BY <1>1, <1>3, <1>4 DEF more

\* The last of the first n turns that landed a change; 0 for none.
Landings(turns, n) == {0} \cup {i \in 1 .. n : turns[i].effect = "landed"}

LEMMA LastLanding ==
    ASSUME NEW turns, NEW n \in Nat
    PROVE  /\ Max(Landings(turns, n)) \in Landings(turns, n) /\ Landings(turns, n) \subseteq 0 .. n
           /\ SinceChange(turns, n) = CostOf(turns, n) - CostOf(turns, Max(Landings(turns, n)))
  <1> DEFINE S == Landings(turns, n)
  <1>1. S \subseteq Int /\ S # {} /\ (\A x \in S : x <= n) /\ S \subseteq 0 .. n
    BY DEF Landings
  <1>2. SinceChange(turns, n) = CostOf(turns, n) - CostOf(turns, Max(S))
    BY DEF SinceChange, Landings
  <1>3. n \in Int
    OBVIOUS
  <1> HIDE DEF S
  <1>4. \E x \in S : \A y \in S : y <= x
    BY <1>1, <1>3, GreatestExists, Zenon
  <1>5. Max(S) \in S
    BY <1>1, <1>4, GreatestIs
  <1>6. Max(S) \in S /\ S \subseteq 0 .. n /\ SinceChange(turns, n) = CostOf(turns, n) - CostOf(turns, Max(S))
    BY <1>1, <1>2, <1>5
  <1> QED BY <1>6 DEF S

\* What a turn does to the tokens since the last change.
LEMMA ChangesAdd ==
    ASSUME NEW turns \in Seq(TurnsOfRun), NEW t \in TurnsOfRun
    PROVE  /\ SinceChange(turns, 0) = 0
           /\ \A n \in 0 .. Len(turns) : SinceChange(turns, n) \in Int
                                          /\ SinceChange(Append(turns, t), n) = SinceChange(turns, n)
           /\ SinceChange(Append(turns, t), Len(turns) + 1)
                = IF t.effect = "landed" THEN 0 ELSE SinceChange(turns, Len(turns)) + t.cost
  <1> DEFINE more == Append(turns, t)
             len == Len(turns)
             last(n) == Max(Landings(turns, n))
  <1>1. /\ more \in Seq(TurnsOfRun) /\ Len(more) = len + 1 /\ more[len + 1] = t /\ len \in Nat
        /\ \A i \in 1 .. len : more[i] = turns[i]
    OBVIOUS
  <1>2. \A n \in 0 .. len : Landings(more, n) = Landings(turns, n)
    BY <1>1 DEF Landings
  <1>3. /\ CostOf(turns, 0) = 0 /\ CostOf(more, len + 1) = CostOf(turns, len) + t.cost
        /\ \A n \in 0 .. len : CostOf(turns, n) \in Nat /\ CostOf(more, n) = CostOf(turns, n)
    BY CostsAdd
  <1>4. t.cost \in Nat
    BY DEF TurnsOfRun
  <1> HIDE DEF more, len
  <1>5. \A n \in 0 .. len : last(n) \in 0 .. n /\ SinceChange(turns, n) = CostOf(turns, n) - CostOf(turns, last(n))
    BY <1>1, LastLanding
  <1>6. \A n \in 0 .. len : SinceChange(more, n) = CostOf(more, n) - CostOf(more, last(n))
    <2>1. \A n \in Nat : SinceChange(more, n) = CostOf(more, n) - CostOf(more, Max(Landings(more, n)))
      BY LastLanding
    <2> QED BY <1>1, <1>2, <2>1
  <1>7. ASSUME NEW n \in 0 .. len
        PROVE  SinceChange(turns, n) \in Int /\ SinceChange(more, n) = SinceChange(turns, n)
    <2>1. last(n) \in 0 .. len /\ SinceChange(turns, n) = CostOf(turns, n) - CostOf(turns, last(n))
          /\ SinceChange(more, n) = CostOf(more, n) - CostOf(more, last(n))
      BY <1>1, <1>5, <1>6
    <2> QED BY <1>3, <2>1
  <1>8. SinceChange(turns, 0) = 0
    <2>1. last(0) = 0 /\ 0 \in 0 .. len
      BY <1>1, <1>5
    <2> QED BY <1>3, <1>5, <2>1
  <1>9. len + 1 \in Nat /\ SinceChange(more, len + 1) = CostOf(more, len + 1) - CostOf(more, Max(Landings(more, len + 1)))
    BY <1>1, LastLanding
  <1>10. CASE t.effect = "landed"
    <2>1. len + 1 \in Landings(more, len + 1) /\ \A x \in Landings(more, len + 1) : x <= len + 1
      BY <1>1, <1>10 DEF Landings
    <2>2. Landings(more, len + 1) \subseteq Int
      BY <1>1 DEF Landings
    <2>3. Max(Landings(more, len + 1)) = len + 1
      BY <2>1, <2>2, GreatestIs
    <2>4. CostOf(more, len + 1) \in Nat
      BY <1>1, <1>3, <1>4
    <2>5. SinceChange(more, len + 1) = 0
      BY <1>9, <2>3, <2>4
    <2> QED BY <1>7, <1>8, <1>10, <2>5 DEF more, len
  <1>11. CASE t.effect # "landed"
    <2>1. Landings(more, len + 1) = Landings(turns, len)
      BY <1>1, <1>11 DEF Landings
    <2>2. last(len) \in 0 .. len /\ len \in 0 .. len
      BY <1>1, <1>5
    <2>3. SinceChange(more, len + 1) = (CostOf(turns, len) + t.cost) - CostOf(turns, last(len))
      BY <1>3, <1>9, <2>1, <2>2
    <2>4. SinceChange(turns, len) = CostOf(turns, len) - CostOf(turns, last(len))
      BY <1>5, <2>2
    <2>5. CostOf(turns, len) \in Nat /\ CostOf(turns, last(len)) \in Nat
      BY <1>3, <2>2
    <2>6. SinceChange(more, len + 1) = SinceChange(turns, len) + t.cost
      BY <1>4, <2>3, <2>4, <2>5
    <2> QED BY <1>7, <1>8, <1>11, <2>6 DEF more, len
  <1> QED BY <1>10, <1>11

\* The ceilings are numbers.
LEMMA CeilingsAreNumbers ==
    ASSUME NEW s \in BudgetSettings
    PROVE  /\ s.tokens \in Nat /\ s.tokens - ReserveOf(s.tokens) \in Int
           /\ ChildSteps(s) \in Nat \ {0} /\ HardFactor * ChildSteps(s) \in Nat \ {0}
           /\ UsableMemory(s.memory) \in Nat /\ MemoryCeiling(s.memory) \in Nat
           /\ s.computed \in BOOLEAN
  <1>1. /\ s.steps \in Nat /\ s.tokens \in Nat /\ s.child \in Nat /\ s.computed \in BOOLEAN
        /\ s.memory.setting \in {"off", "default", "set"} /\ s.memory.host \in Nat
        /\ s.memory.cgroup \in Nat /\ s.memory.megabytes \in Nat
    BY BudgetAssumption
  <1>2. /\ FlatReserve \in Nat /\ UnlimitedSteps \in Nat /\ LeastChild \in Nat \ {0}
        /\ HardFactor \in Nat \ {0} /\ MemCap \in Nat /\ MemFloor \in Nat
    BY BudgetAssumption
  <1>3. ReserveOf(s.tokens) \in Nat
    <2>1. s.tokens \div 20 \in Nat
      BY <1>1
    <2>2. Min({s.tokens \div 20, FlatReserve}) \in Nat
      BY <1>2, <2>1, OfTwoNumbers, Zenon
    <2> QED BY <2>2 DEF ReserveOf
  <1>4. ChildSteps(s) \in Nat \ {0}
    <2> DEFINE half == (IF s.steps > 0 THEN s.steps ELSE UnlimitedSteps) \div 2
               given == IF s.child > 0 THEN s.child ELSE half
    <2>1. half \in Nat
      BY <1>1, <1>2
    <2>2. given \in Nat
      BY <1>1, <2>1
    <2>3. ChildSteps(s) = Max({LeastChild, given})
      BY DEF ChildSteps
    <2> HIDE DEF given
    <2> QED BY <1>2, <2>2, <2>3, OfTwo
  <1>5. HardFactor * ChildSteps(s) \in Nat \ {0}
    <2>1. \A a, b \in Nat \ {0} : a * b \in Nat \ {0}
      OBVIOUS
    <2> QED BY <1>2, <1>4, <2>1
  <1>6. UsableMemory(s.memory) \in Nat
    <2>1. Min({s.memory.host, s.memory.cgroup}) \in Nat
      BY <1>1, OfTwoNumbers, Zenon
    <2> QED BY <1>1, <2>1 DEF UsableMemory
  <1>7. MemoryCeiling(s.memory) \in Nat
    <2>1. UsableMemory(s.memory) \div 2 \in Nat
      BY <1>6
    <2>2. Min({MemCap, UsableMemory(s.memory) \div 2}) \in Nat
      BY <1>2, <2>1, OfTwoNumbers, Zenon
    <2>3. Max({MemFloor, Min({MemCap, UsableMemory(s.memory) \div 2})}) \in Nat
      BY <1>2, <2>2, OfTwoNumbers, Zenon
    <2> QED BY <1>1, <1>2, <2>3 DEF MemoryCeiling
  <1> QED BY <1>1, <1>3, <1>4, <1>5, <1>6, <1>7

\* What passes the memory guard, where nothing was asked of it, is within half of
\* what there is to use.
LEMMA GuardedMemory ==
    ASSUME NEW s \in BudgetSettings, NEW rss \in Nat, ~ TooLarge(s, rss), s.memory.setting = "default"
    PROVE  LET u == UsableMemory(s.memory)
           IN  rss <= Max({MemFloor, IF u > 0 THEN u \div 2 ELSE MemCap})
  <1> DEFINE u == UsableMemory(s.memory)
  <1>1. u \in Nat /\ MemCap \in Nat \ {0} /\ MemFloor \in Nat \ {0}
    BY CeilingsAreNumbers, BudgetAssumption
  <1>2. MemoryCeiling(s.memory) = IF u = 0 THEN MemCap ELSE Max({MemFloor, Min({MemCap, u \div 2})})
    BY DEF MemoryCeiling
  <1> HIDE DEF u
  <1>3. CASE u = 0
    <2>1. rss <= MemCap
      BY <1>1, <1>2, <1>3 DEF TooLarge
    <2> QED BY <1>1, <1>3, <2>1, OfTwo DEF u
  <1>4. CASE u > 0
    <2>1. u \div 2 \in Nat
      BY <1>1
    <2> DEFINE half == u \div 2
               least == Min({MemCap, half})
    <2>2. least \in Nat /\ least <= half
      <3>1. half \in Nat /\ MemCap \in Nat
        BY <1>1, <2>1
      <3> QED BY <3>1, OfTwoNumbers, Zenon
    <2> HIDE DEF half, least
    <2>3. Max({MemFloor, least}) \in Nat \ {0} /\ Max({MemFloor, least}) <= Max({MemFloor, half})
          /\ Max({MemFloor, half}) \in Nat
      BY <1>1, <2>1, <2>2, OfTwo DEF half
    <2>4. MemoryCeiling(s.memory) = Max({MemFloor, least})
      BY <1>1, <1>2, <1>4 DEF half, least
    <2>5. rss <= Max({MemFloor, least})
      BY <2>3, <2>4 DEF TooLarge
    <2>6. rss <= Max({MemFloor, half})
      BY <2>2, <2>3, <2>5
    <2> QED BY <1>1, <1>4, <2>6 DEF half, u
  <1> QED BY <1>1, <1>3, <1>4

\* What counts against the ceiling of the settings, after n turns.
CountedIn(s, turns, n) == IF s.computed THEN SinceChange(turns, n) ELSE CostOf(turns, n)

LEMMA TurnsAreCounted ==
    ASSUME NEW s \in BudgetSettings, NEW turns \in Seq(TurnsOfRun), NEW t \in TurnsOfRun
    PROVE  \A n \in 0 .. Len(turns) : /\ CountedIn(s, turns, n) \in Int
                                      /\ CountedIn(s, Append(turns, t), n) = CountedIn(s, turns, n)
  <1> SUFFICES ASSUME NEW n \in 0 .. Len(turns)
               PROVE  /\ CountedIn(s, turns, n) \in Int
                      /\ CountedIn(s, Append(turns, t), n) = CountedIn(s, turns, n)
    OBVIOUS
  <1>1. CostOf(turns, n) \in Nat /\ CostOf(Append(turns, t), n) = CostOf(turns, n)
    BY CostsAdd
  <1>2. SinceChange(turns, n) \in Int /\ SinceChange(Append(turns, t), n) = SinceChange(turns, n)
    BY ChangesAdd
  <1>3. CostOf(turns, n) \in Int
    BY <1>1
  <1> QED BY <1>1, <1>2, <1>3, Zenon DEF CountedIn

\* The limit a turn must begin within.
LimitOf(s) == s.tokens - ReserveOf(s.tokens)

SpentByChild == [turns : Nat, tokens : Nat]

BudgetShape ==
    /\ runPhase \in {"idle", "top", "act", "child", "closing"}
    /\ trippedBy \in {"none", "steps", "tokens", "wall", "memory"}
    /\ meter \in [steps : Nat, tokens : Nat, unproductive : Nat]
    /\ childMeter \in [steps : Nat, mark : Nat]
    /\ resident \in Nat
    /\ journal \in Seq(TurnsOfRun) /\ childTurns \in Seq(BOOLEAN)
    /\ unmetered \in Seq(SpentByChild)
    /\ settings = <<>> \/ settings \in BudgetSettings
    /\ runPhase # "idle" \/ trippedBy # "none" => settings \in BudgetSettings
    /\ trippedBy # "none" => runPhase \in {"closing", "idle"}

\* The counters are what the turns cost.
LedgerHolds ==
    runPhase # "idle" =>
        /\ meter.tokens = CostOf(journal, Len(journal))
        /\ meter.unproductive = SinceChange(journal, Len(journal))

\* Every turn began within the limit, the one that is under way as well.
TurnsBeganWithin ==
    settings \in BudgetSettings /\ settings.tokens > 0 =>
        /\ \A i \in 1 .. Len(journal) : CountedIn(settings, journal, i - 1) <= LimitOf(settings)
        /\ runPhase = "act" => CountedIn(settings, journal, Len(journal)) <= LimitOf(settings)

TokenStopsAreTrue ==
    trippedBy = "tokens" =>
        settings.tokens > 0 /\ CountedIn(settings, journal, Len(journal)) > LimitOf(settings)

\* The child's counters are its turns and the last that landed a change.
ChildIsMetered ==
    runPhase = "child" =>
        /\ childMeter.steps = Len(childTurns)
        /\ childMeter.mark \in {0} \cup {i \in DOMAIN childTurns : childTurns[i]}
        /\ \A i \in DOMAIN childTurns : childTurns[i] => i <= childMeter.mark
        /\ childMeter.steps < HardFactor * ChildSteps(settings)
        /\ childMeter.steps - childMeter.mark < ChildSteps(settings)

\* No child took more turns than its absolute ceiling; the last one is the child
\* that has the turn.
ChildrenCounted ==
    /\ \A i \in DOMAIN unmetered : unmetered[i].turns < HardFactor * ChildSteps(settings)
    /\ runPhase = "child" => /\ unmetered # <<>>
                            /\ unmetered[Len(unmetered)].turns = childMeter.steps

MemoryIsRead ==
    /\ trippedBy = "memory" => TooLarge(settings, resident)
    /\ runPhase \in {"act", "child"} => ~ TooLarge(settings, resident)

BudgetInv ==
    /\ BudgetShape /\ LedgerHolds /\ TurnsBeganWithin /\ TokenStopsAreTrue
    /\ ChildIsMetered /\ ChildrenCounted /\ MemoryIsRead

LEMMA ChildrenStay ==
    ASSUME ChildrenCounted, UNCHANGED <<settings, unmetered>>,
           runPhase' # "child" \/ UNCHANGED <<runPhase, childMeter>>
    PROVE  ChildrenCounted'
  BY DEF ChildrenCounted

LEMMA BudgetInitInv == BudgetInit => BudgetInv
  <1> SUFFICES ASSUME BudgetInit PROVE BudgetInv
    OBVIOUS
  <1>1. BudgetShape
    BY DEF BudgetInit, BudgetShape, NoMeter, NoChildMeter
  <1>2. LedgerHolds /\ TurnsBeganWithin /\ TokenStopsAreTrue /\ ChildIsMetered /\ ChildrenCounted /\ MemoryIsRead
    BY DEF BudgetInit, ChildrenCounted, LedgerHolds, TurnsBeganWithin, TokenStopsAreTrue, ChildIsMetered, MemoryIsRead
  <1> QED BY <1>1, <1>2 DEF BudgetInv

\* A run begins with nothing spent.
LEMMA ResetKeepsBudget == BudgetInv /\ ResetBudget => BudgetInv'
  <1> SUFFICES ASSUME BudgetInv, ResetBudget PROVE BudgetInv'
    OBVIOUS
  <1> USE DEF BudgetInv, ResetBudget
  <1>1. settings' \in BudgetSettings
    BY DEF BudgetShape
  <1>2. BudgetShape'
    BY <1>1 DEF BudgetShape, NoMeter
  <1>3. LedgerHolds'
    <2>1. <<>> \in Seq(TurnsOfRun) /\ Len(<<>>) = 0
      OBVIOUS
    <2>2. [cost |-> 0, effect |-> "other"] \in TurnsOfRun
      BY DEF TurnsOfRun, Effects
    <2>3. CostOf(<<>>, 0) = 0
      BY <2>1, <2>2, CostsAdd
    <2>4. SinceChange(<<>>, 0) = 0
      BY <2>1, <2>2, ChangesAdd
    <2> QED BY <2>1, <2>3, <2>4 DEF LedgerHolds, NoMeter
  <1>4. TurnsBeganWithin' /\ TokenStopsAreTrue' /\ ChildIsMetered' /\ MemoryIsRead'
    BY DEF TurnsBeganWithin, TokenStopsAreTrue, ChildIsMetered, MemoryIsRead
  <1>5. ChildrenCounted'
    BY DEF ChildrenCounted
  <1> QED BY <1>2, <1>3, <1>4, <1>5

\* The check at the top of a turn lets it begin or ends the run.
LEMMA CheckKeepsBudget == BudgetInv /\ CheckBudget => BudgetInv'
  <1> SUFFICES ASSUME BudgetInv, CheckBudget PROVE BudgetInv'
    OBVIOUS
  <1>1. PICK rss \in Readings :
          LET m == [meter EXCEPT !.steps = @ + 1]
              kind == Tripped(settings, m, rss)
          IN  /\ meter' = m /\ resident' = rss /\ trippedBy' = kind
              /\ runPhase' = IF kind = "none" THEN "act" ELSE "closing"
    BY DEF CheckBudget
  <1>2. rss \in Nat
    BY BudgetAssumption
  <1>3. /\ runPhase = "top" /\ trippedBy = "none" /\ settings \in BudgetSettings
        /\ UNCHANGED <<settings, journal, childMeter, childTurns, elapsed, unmetered>>
    BY DEF CheckBudget, BudgetInv, BudgetShape
  <1>4. meter'.tokens = meter.tokens /\ meter'.unproductive = meter.unproductive
        /\ meter' \in [steps : Nat, tokens : Nat, unproductive : Nat]
    BY <1>1 DEF BudgetInv, BudgetShape
  <1> DEFINE m == [meter EXCEPT !.steps = @ + 1]
  <1>5. trippedBy' = Tripped(settings, m, rss)
    BY <1>1
  <1>6. Spent(settings, m) = CountedIn(settings, journal, Len(journal))
    <2>1. m = meter'
      BY <1>1
    <2>2. meter.tokens = CostOf(journal, Len(journal)) /\ meter.unproductive = SinceChange(journal, Len(journal))
      BY <1>3 DEF BudgetInv, LedgerHolds
    <2> HIDE DEF m
    <2> QED BY <1>4, <2>1, <2>2 DEF Spent, CountedIn
  <1> HIDE DEF m
  <1>7. trippedBy' \in {"none", "steps", "tokens", "wall", "memory"}
    BY <1>5 DEF Tripped
  <1>8. trippedBy' = "tokens" => settings.tokens > 0 /\ Spent(settings, m) > LimitOf(settings)
    BY <1>5 DEF Tripped, LimitOf
  <1>9. trippedBy' = "memory" => TooLarge(settings, rss)
    BY <1>5 DEF Tripped
  <1>10. trippedBy' = "none" => ~ TooLarge(settings, rss)
    BY <1>5 DEF Tripped
  <1>11. trippedBy' = "none" /\ settings.tokens > 0 => ~ (Spent(settings, m) > LimitOf(settings))
    BY <1>5 DEF Tripped, LimitOf
  <1>12. CountedIn(settings, journal, Len(journal)) \in Int /\ LimitOf(settings) \in Int
    <2>1. [cost |-> 0, effect |-> "other"] \in TurnsOfRun
      BY DEF TurnsOfRun, Effects
    <2>2. journal \in Seq(TurnsOfRun) /\ Len(journal) \in 0 .. Len(journal)
      BY DEF BudgetInv, BudgetShape
    <2>3. CountedIn(settings, journal, Len(journal)) \in Int
      BY <1>3, <2>1, <2>2, TurnsAreCounted
    <2> QED BY <1>3, <2>3, CeilingsAreNumbers DEF LimitOf
  <1>13. runPhase' = IF trippedBy' = "none" THEN "act" ELSE "closing"
    BY <1>1
  <1>14. BudgetShape'
    BY <1>1, <1>2, <1>3, <1>4, <1>7, <1>13 DEF BudgetInv, BudgetShape
  <1>15. LedgerHolds'
    BY <1>3, <1>4 DEF BudgetInv, LedgerHolds
  <1>16. TurnsBeganWithin'
    BY <1>3, <1>6, <1>11, <1>12, <1>13 DEF BudgetInv, TurnsBeganWithin
  <1>17. TokenStopsAreTrue'
    BY <1>3, <1>6, <1>8 DEF TokenStopsAreTrue
  <1>18. ChildIsMetered' /\ MemoryIsRead'
    BY <1>1, <1>3, <1>9, <1>10, <1>13 DEF ChildIsMetered, MemoryIsRead
  <1>19. ChildrenCounted'
    BY <1>3, <1>13, ChildrenStay DEF BudgetInv
  <1> QED BY <1>14, <1>15, <1>16, <1>17, <1>18, <1>19 DEF BudgetInv

\* A turn is paid for and noted, whatever its call is.
LEMMA TurnIsNoted ==
    ASSUME BudgetInv, runPhase = "act", NEW cost \in Costs, NEW effect \in Effects,
           meter' = [meter EXCEPT !.tokens = @ + cost,
                                  !.unproductive = IF Renews(effect) THEN 0 ELSE @ + cost],
           journal' = Append(journal, [cost |-> cost, effect |-> effect]),
           UNCHANGED settings
    PROVE  /\ meter' \in [steps : Nat, tokens : Nat, unproductive : Nat]
           /\ journal' \in Seq(TurnsOfRun)
           /\ LedgerHolds' /\ (runPhase' # "act" => TurnsBeganWithin')
  <1> DEFINE t == [cost |-> cost, effect |-> effect]
  <1>1. cost \in Nat /\ t \in TurnsOfRun /\ t.cost = cost /\ t.effect = effect
    BY BudgetAssumption DEF TurnsOfRun
  <1>2. settings \in BudgetSettings /\ journal \in Seq(TurnsOfRun)
        /\ meter \in [steps : Nat, tokens : Nat, unproductive : Nat]
    BY DEF BudgetInv, BudgetShape
  <1>3. /\ meter.tokens = CostOf(journal, Len(journal))
        /\ meter.unproductive = SinceChange(journal, Len(journal))
    BY DEF BudgetInv, LedgerHolds
  <1> HIDE DEF t
  <1>4. /\ meter' \in [steps : Nat, tokens : Nat, unproductive : Nat]
        /\ meter'.tokens = meter.tokens + cost
        /\ meter'.unproductive = IF effect = "landed" THEN 0 ELSE meter.unproductive + cost
    <2>1. PICK u \in Nat : u = IF effect = "landed" THEN 0 ELSE meter.unproductive + cost
      BY <1>1, <1>2
    <2>2. meter' = [meter EXCEPT !.tokens = @ + cost, !.unproductive = u]
      BY <2>1 DEF Renews
    <2>3. meter.tokens + cost \in Nat
      BY <1>1, <1>2
    <2> QED BY <1>2, <2>1, <2>2, <2>3
  <1>5. journal' = Append(journal, t)
    BY DEF t
  <1>6. journal' \in Seq(TurnsOfRun) /\ Len(journal') = Len(journal) + 1
    BY <1>1, <1>2, <1>5
  <1>7. CostOf(journal', Len(journal) + 1) = CostOf(journal, Len(journal)) + t.cost
    BY <1>1, <1>2, <1>5, CostsAdd
  <1>8. SinceChange(journal', Len(journal) + 1)
          = IF t.effect = "landed" THEN 0 ELSE SinceChange(journal, Len(journal)) + t.cost
    BY <1>1, <1>2, <1>5, ChangesAdd
  <1>9. LedgerHolds'
    BY <1>1, <1>3, <1>4, <1>6, <1>7, <1>8 DEF LedgerHolds
  <1>10. ASSUME runPhase' # "act" PROVE TurnsBeganWithin'
    <2> SUFFICES ASSUME settings.tokens > 0, NEW i \in 1 .. Len(journal')
                 PROVE  CountedIn(settings, journal', i - 1) <= LimitOf(settings)
      BY <1>10 DEF TurnsBeganWithin
    <2>1. i - 1 \in 0 .. Len(journal)
      BY <1>2, <1>6
    <2>2. CountedIn(settings, journal', i - 1) = CountedIn(settings, journal, i - 1)
      BY <1>1, <1>2, <1>5, <2>1, TurnsAreCounted
    <2>3. i - 1 < Len(journal) \/ i - 1 = Len(journal)
      BY <1>2, <2>1
    <2>4. CountedIn(settings, journal, i - 1) <= LimitOf(settings)
      BY <1>2, <2>1, <2>3 DEF BudgetInv, TurnsBeganWithin
    <2> QED BY <2>2, <2>4
  <1> QED BY <1>4, <1>6, <1>9, <1>10

LEMMA SpendKeepsBudget == BudgetInv /\ SpendTurn => BudgetInv'
  <1> SUFFICES ASSUME BudgetInv, SpendTurn PROVE BudgetInv'
    OBVIOUS
  <1>1. PICK cost \in Costs, effect \in Effects :
          /\ meter' = [meter EXCEPT !.tokens = @ + cost,
                                    !.unproductive = IF Renews(effect) THEN 0 ELSE @ + cost]
          /\ journal' = Append(journal, [cost |-> cost, effect |-> effect])
    BY DEF SpendTurn
  <1>2. /\ runPhase = "act" /\ runPhase' = "top" /\ resident' = 0
        /\ UNCHANGED <<settings, childMeter, childTurns, trippedBy, unmetered>>
    BY DEF SpendTurn
  <1>3. /\ meter' \in [steps : Nat, tokens : Nat, unproductive : Nat]
        /\ journal' \in Seq(TurnsOfRun) /\ LedgerHolds' /\ TurnsBeganWithin'
    BY <1>1, <1>2, TurnIsNoted
  <1>4. trippedBy = "none"
    BY <1>2 DEF BudgetInv, BudgetShape
  <1>5. BudgetShape'
    BY <1>2, <1>3, <1>4 DEF BudgetInv, BudgetShape
  <1>6. TokenStopsAreTrue' /\ ChildIsMetered' /\ MemoryIsRead'
    BY <1>2, <1>4 DEF TokenStopsAreTrue, ChildIsMetered, MemoryIsRead
  <1>7. ChildrenCounted'
    BY <1>2, ChildrenStay DEF BudgetInv
  <1> QED BY <1>3, <1>5, <1>6, <1>7 DEF BudgetInv

LEMMA SpawnKeepsBudget == BudgetInv /\ SpawnHelper => BudgetInv'
  <1> SUFFICES ASSUME BudgetInv, SpawnHelper PROVE BudgetInv'
    OBVIOUS
  <1>1. PICK cost \in Costs :
          /\ meter' = [meter EXCEPT !.tokens = @ + cost, !.unproductive = @ + cost]
          /\ journal' = Append(journal, [cost |-> cost, effect |-> "other"])
    BY DEF SpawnHelper
  <1>2. /\ runPhase = "act" /\ runPhase' = "child" /\ resident' = 0
        /\ childMeter' = [steps |-> 0, mark |-> 0] /\ childTurns' = <<>>
        /\ unmetered' = Append(unmetered, [turns |-> 0, tokens |-> 0])
        /\ UNCHANGED <<settings, trippedBy>>
    BY DEF SpawnHelper, NoChildMeter
  <1>3. /\ meter' \in [steps : Nat, tokens : Nat, unproductive : Nat]
        /\ journal' \in Seq(TurnsOfRun) /\ LedgerHolds' /\ TurnsBeganWithin'
    <2>1. "other" \in Effects /\ ~ Renews("other")
      BY DEF Effects, Renews
    <2>2. meter' = [meter EXCEPT !.tokens = @ + cost,
                                 !.unproductive = IF Renews("other") THEN 0 ELSE @ + cost]
      BY <1>1, <2>1
    <2> QED BY <1>1, <1>2, <2>1, <2>2, TurnIsNoted
  <1>4. trippedBy = "none" /\ settings \in BudgetSettings
    BY <1>2 DEF BudgetInv, BudgetShape
  <1>8. unmetered \in Seq(SpentByChild) /\ [turns |-> 0, tokens |-> 0] \in SpentByChild
    BY DEF BudgetInv, BudgetShape, SpentByChild
  <1>9. unmetered' \in Seq(SpentByChild)
    BY <1>2, <1>8
  <1>5. BudgetShape'
    BY <1>2, <1>3, <1>4, <1>9 DEF BudgetInv, BudgetShape
  <1>6. TokenStopsAreTrue' /\ MemoryIsRead'
    BY <1>2, <1>4 DEF TokenStopsAreTrue, MemoryIsRead, TooLarge
  <1>7. ChildIsMetered'
    <2>1. ChildSteps(settings) \in Nat \ {0} /\ HardFactor * ChildSteps(settings) \in Nat \ {0}
      BY <1>4, CeilingsAreNumbers
    <2> QED BY <1>2, <2>1 DEF ChildIsMetered
  <1>10. ChildrenCounted'
    <2>1. ChildSteps(settings) \in Nat \ {0} /\ HardFactor * ChildSteps(settings) \in Nat \ {0}
      BY <1>4, CeilingsAreNumbers
    <2>2. /\ Len(unmetered') = Len(unmetered) + 1 /\ DOMAIN unmetered' = 1 .. Len(unmetered) + 1
          /\ DOMAIN unmetered = 1 .. Len(unmetered) /\ Len(unmetered) \in Nat
          /\ \A i \in 1 .. Len(unmetered) : unmetered'[i] = unmetered[i]
          /\ unmetered'[Len(unmetered) + 1] = [turns |-> 0, tokens |-> 0]
      BY <1>2, <1>8
    <2>3. unmetered'[Len(unmetered')].turns = 0 /\ unmetered' # <<>>
      BY <2>2
    <2>4. ASSUME NEW i \in DOMAIN unmetered' PROVE unmetered'[i].turns < HardFactor * ChildSteps(settings)
      <3>1. CASE i = Len(unmetered) + 1
        BY <2>1, <2>2, <3>1
      <3>2. CASE i \in 1 .. Len(unmetered)
        BY <2>2, <3>2 DEF BudgetInv, ChildrenCounted
      <3> QED BY <2>2, <3>1, <3>2
    <2> QED BY <1>2, <2>3, <2>4 DEF ChildrenCounted
  <1> QED BY <1>3, <1>5, <1>6, <1>7, <1>10 DEF BudgetInv

\* A turn of a child counts, and one that lands a change begins its allowance again.
LEMMA ChildKeepsBudget == BudgetInv /\ ChildTurn => BudgetInv'
  <1> SUFFICES ASSUME BudgetInv, ChildTurn PROVE BudgetInv'
    OBVIOUS
  <1> DEFINE c == [childMeter EXCEPT !.steps = @ + 1]
  <1>1. PICK rss \in Readings :
          /\ resident' = rss
          /\ IF ChildTripped(settings, c) \/ TooLarge(settings, rss)
             THEN /\ runPhase' = "top" /\ childMeter' = NoChildMeter /\ childTurns' = <<>>
                  /\ UNCHANGED unmetered
             ELSE \E landed \in BOOLEAN, cost \in ChildCosts :
                    /\ childMeter' = IF landed THEN [c EXCEPT !.mark = c.steps] ELSE c
                    /\ childTurns' = Append(childTurns, landed)
                    /\ unmetered' = [unmetered EXCEPT ![Len(unmetered)] =
                                       [turns |-> @.turns + 1, tokens |-> @.tokens + cost]]
                    /\ UNCHANGED runPhase
    BY DEF ChildTurn
  <1>2. /\ runPhase = "child" /\ UNCHANGED <<settings, meter, trippedBy, journal>>
        /\ rss \in Nat
    BY BudgetAssumption DEF ChildTurn
  <1>3. trippedBy = "none" /\ settings \in BudgetSettings
    BY <1>2 DEF BudgetInv, BudgetShape
  <1>4. runPhase' \in {"top", "child"}
    BY <1>1, <1>2
  <1>5. LedgerHolds' /\ TurnsBeganWithin' /\ TokenStopsAreTrue'
    BY <1>2, <1>3, <1>4 DEF BudgetInv, LedgerHolds, TurnsBeganWithin, TokenStopsAreTrue
  <1>6. MemoryIsRead'
    BY <1>1, <1>2, <1>3 DEF MemoryIsRead
  <1>7. CASE ChildTripped(settings, c) \/ TooLarge(settings, rss)
    <2>1. /\ runPhase' = "top" /\ childMeter' = NoChildMeter /\ childTurns' = <<>>
          /\ UNCHANGED unmetered
      BY <1>1, <1>7
    <2>2. BudgetShape'
      BY <1>1, <1>2, <1>3, <2>1 DEF BudgetInv, BudgetShape, NoChildMeter
    <2>3. ChildIsMetered'
      BY <2>1 DEF ChildIsMetered
    <2>4. ChildrenCounted'
      BY <1>2, <2>1, ChildrenStay DEF BudgetInv
    <2> QED BY <1>5, <1>6, <2>2, <2>3, <2>4 DEF BudgetInv
  <1>8. CASE ~ (ChildTripped(settings, c) \/ TooLarge(settings, rss))
    <2>1. PICK landed \in BOOLEAN, cost \in ChildCosts :
            /\ childMeter' = IF landed THEN [c EXCEPT !.mark = c.steps] ELSE c
            /\ childTurns' = Append(childTurns, landed)
            /\ unmetered' = [unmetered EXCEPT ![Len(unmetered)] =
                               [turns |-> @.turns + 1, tokens |-> @.tokens + cost]]
            /\ UNCHANGED runPhase
      BY <1>1, <1>8
    <2>2. childMeter \in [steps : Nat, mark : Nat] /\ childTurns \in Seq(BOOLEAN)
      BY DEF BudgetInv, BudgetShape
    <2>3. c \in [steps : Nat, mark : Nat] /\ c.steps = childMeter.steps + 1 /\ c.mark = childMeter.mark
      BY <2>2
    <2> HIDE DEF c
    <2>4. /\ childMeter' \in [steps : Nat, mark : Nat] /\ childMeter'.steps = c.steps
          /\ childMeter'.mark = IF landed THEN c.steps ELSE c.mark
      BY <2>1, <2>3
    <2>5. /\ childTurns' \in Seq(BOOLEAN) /\ Len(childTurns') = Len(childTurns) + 1
          /\ childTurns'[Len(childTurns) + 1] = landed
          /\ \A i \in 1 .. Len(childTurns) : childTurns'[i] = childTurns[i]
      BY <2>1, <2>2
    <2>8. /\ unmetered \in Seq(SpentByChild) /\ cost \in Nat /\ unmetered # <<>>
          /\ unmetered[Len(unmetered)].turns = childMeter.steps
      BY <1>2, BudgetAssumption DEF BudgetInv, BudgetShape, ChildrenCounted
    <2> DEFINE last == Len(unmetered)
               grown == [turns |-> unmetered[last].turns + 1, tokens |-> unmetered[last].tokens + cost]
    <2>9. last \in 1 .. Len(unmetered) /\ unmetered[last] \in SpentByChild
      BY <2>8
    <2>10. grown \in SpentByChild /\ grown.turns = c.steps
      BY <2>3, <2>8, <2>9 DEF SpentByChild
    <2>11. unmetered' = [unmetered EXCEPT ![last] = grown]
      BY <2>1
    <2> HIDE DEF grown
    <2>12. /\ unmetered' \in Seq(SpentByChild) /\ Len(unmetered') = Len(unmetered)
           /\ DOMAIN unmetered' = DOMAIN unmetered
           /\ \A i \in DOMAIN unmetered : unmetered'[i] = IF i = last THEN grown ELSE unmetered[i]
      BY <2>8, <2>9, <2>10, <2>11
    <2>13. ChildrenCounted'
      <3>1. c.steps < HardFactor * ChildSteps(settings)
        <4>1. ~ (c.steps >= HardFactor * ChildSteps(settings))
          BY <1>8 DEF ChildTripped
        <4>2. HardFactor * ChildSteps(settings) \in Nat \ {0}
          BY <1>3, CeilingsAreNumbers
        <4> QED BY <2>3, <4>1, <4>2
      <3>2. \A i \in DOMAIN unmetered' : unmetered'[i].turns < HardFactor * ChildSteps(settings)
        BY <2>10, <2>12, <3>1 DEF BudgetInv, ChildrenCounted
      <3>3. unmetered' # <<>> /\ unmetered'[Len(unmetered')].turns = childMeter'.steps
        <4>1. unmetered'[last] = grown /\ Len(unmetered') = last
          BY <2>9, <2>12, <2>8
        <4>2. unmetered' # <<>>
          BY <2>9, <2>12
        <4> QED BY <2>4, <2>10, <4>1, <4>2
      <3> QED BY <1>2, <3>2, <3>3 DEF ChildrenCounted
    <2>6. BudgetShape'
      BY <1>1, <1>2, <1>3, <2>1, <2>4, <2>5, <2>12 DEF BudgetInv, BudgetShape
    <2>7. ChildIsMetered'
      <3>1. /\ childMeter.steps = Len(childTurns)
            /\ childMeter.mark \in {0} \cup {i \in DOMAIN childTurns : childTurns[i]}
            /\ \A i \in DOMAIN childTurns : childTurns[i] => i <= childMeter.mark
        BY <1>2 DEF BudgetInv, ChildIsMetered
      <3>2. /\ ~ (c.steps >= HardFactor * ChildSteps(settings))
            /\ ~ (c.steps - c.mark >= ChildSteps(settings))
        BY <1>8 DEF ChildTripped
      <3>3. ChildSteps(settings) \in Nat \ {0} /\ HardFactor * ChildSteps(settings) \in Nat \ {0}
        BY <1>3, CeilingsAreNumbers
      <3>4. childMeter'.steps = Len(childTurns') /\ DOMAIN childTurns' = 1 .. (Len(childTurns) + 1)
            /\ DOMAIN childTurns = 1 .. Len(childTurns) /\ Len(childTurns) \in Nat
        BY <2>2, <2>3, <2>4, <2>5, <3>1
      <3>5. childMeter'.mark \in {0} \cup {i \in DOMAIN childTurns' : childTurns'[i]}
        BY <2>3, <2>4, <2>5, <3>1, <3>4
      <3>6. \A i \in DOMAIN childTurns' : childTurns'[i] => i <= childMeter'.mark
        <4>1. ASSUME NEW i \in DOMAIN childTurns', childTurns'[i] PROVE i <= childMeter'.mark
          <5>1. CASE landed
            BY <2>3, <2>4, <3>1, <3>4, <5>1
          <5>2. CASE ~ landed
            <6>1. i \in DOMAIN childTurns /\ childTurns[i]
              BY <2>5, <3>4, <4>1, <5>2
            <6> QED BY <2>3, <2>4, <3>1, <5>2, <6>1
          <5> QED BY <5>1, <5>2
        <4> QED BY <4>1
      <3>7. childMeter'.steps < HardFactor * ChildSteps(settings)
        BY <2>3, <2>4, <3>2, <3>3
      <3>8. childMeter'.steps - childMeter'.mark < ChildSteps(settings)
        BY <2>3, <2>4, <3>2, <3>3
      <3> QED BY <1>2, <3>4, <3>5, <3>6, <3>7, <3>8 DEF ChildIsMetered
    <2> QED BY <1>5, <1>6, <2>6, <2>7, <2>13 DEF BudgetInv
  <1> QED BY <1>7, <1>8

\* Time, the end of a child and the end of a run spend nothing that is counted.
LEMMA OthersKeepBudget ==
    ASSUME BudgetInv, TimePasses \/ ChildEnds \/ CloseRun \/ EndBudgetRun \/ UNCHANGED budgetVars
    PROVE  BudgetInv'
  <1>1. CASE TimePasses \/ UNCHANGED budgetVars
    <2>1. UNCHANGED <<runPhase, settings, meter, resident, childMeter, trippedBy, journal, childTurns, unmetered>>
      BY <1>1 DEF TimePasses, budgetVars
    <2>2. BudgetShape' /\ LedgerHolds' /\ TurnsBeganWithin'
      BY <2>1 DEF BudgetInv, BudgetShape, LedgerHolds, TurnsBeganWithin
    <2>3. TokenStopsAreTrue' /\ ChildIsMetered' /\ MemoryIsRead'
      BY <2>1 DEF BudgetInv, TokenStopsAreTrue, ChildIsMetered, MemoryIsRead
    <2>9. ChildrenCounted'
      BY <2>1, ChildrenStay DEF BudgetInv
    <2> QED BY <2>2, <2>3, <2>9 DEF BudgetInv
  <1>2. CASE ChildEnds
    <2>1. /\ runPhase = "child" /\ runPhase' = "top" /\ childMeter' = [steps |-> 0, mark |-> 0]
          /\ childTurns' = <<>> /\ UNCHANGED <<settings, meter, resident, trippedBy, journal, unmetered>>
      BY <1>2 DEF ChildEnds, NoChildMeter
    <2>2. BudgetShape' /\ LedgerHolds' /\ TurnsBeganWithin'
      BY <2>1 DEF BudgetInv, BudgetShape, LedgerHolds, TurnsBeganWithin
    <2>3. TokenStopsAreTrue' /\ ChildIsMetered' /\ MemoryIsRead'
      BY <2>1 DEF BudgetInv, BudgetShape, TokenStopsAreTrue, ChildIsMetered, MemoryIsRead
    <2>9. ChildrenCounted'
      BY <2>1, ChildrenStay DEF BudgetInv
    <2> QED BY <2>2, <2>3, <2>9 DEF BudgetInv
  <1>3. CASE CloseRun
    <2>1. /\ runPhase = "closing" /\ runPhase' = "idle"
          /\ UNCHANGED <<settings, resident, childMeter, trippedBy, journal, childTurns, unmetered>>
      BY <1>3 DEF CloseRun
    <2>2. PICK cost \in Costs \cup {0} :
            meter' = [meter EXCEPT !.tokens = @ + cost, !.unproductive = @ + cost]
      BY <1>3 DEF CloseRun
    <2>3. cost \in Nat /\ meter \in [steps : Nat, tokens : Nat, unproductive : Nat]
      BY BudgetAssumption DEF BudgetInv, BudgetShape
    <2>4. meter' \in [steps : Nat, tokens : Nat, unproductive : Nat]
      <3>1. meter.tokens + cost \in Nat /\ meter.unproductive + cost \in Nat
        BY <2>3
      <3> QED BY <2>2, <2>3, <3>1
    <2>5. BudgetShape' /\ LedgerHolds' /\ TurnsBeganWithin'
      BY <2>1, <2>4 DEF BudgetInv, BudgetShape, LedgerHolds, TurnsBeganWithin
    <2>6. TokenStopsAreTrue' /\ ChildIsMetered' /\ MemoryIsRead'
      BY <2>1 DEF BudgetInv, TokenStopsAreTrue, ChildIsMetered, MemoryIsRead
    <2>9. ChildrenCounted'
      BY <2>1, ChildrenStay DEF BudgetInv
    <2> QED BY <2>5, <2>6, <2>9 DEF BudgetInv
  <1>4. CASE EndBudgetRun
    <2>1. /\ runPhase = "top" /\ runPhase' = "idle"
          /\ UNCHANGED <<settings, meter, resident, childMeter, trippedBy, journal, childTurns, unmetered>>
      BY <1>4 DEF EndBudgetRun
    <2>2. BudgetShape' /\ LedgerHolds' /\ TurnsBeganWithin'
      BY <2>1 DEF BudgetInv, BudgetShape, LedgerHolds, TurnsBeganWithin
    <2>3. TokenStopsAreTrue' /\ ChildIsMetered' /\ MemoryIsRead'
      BY <2>1 DEF BudgetInv, TokenStopsAreTrue, ChildIsMetered, MemoryIsRead
    <2>9. ChildrenCounted'
      BY <2>1, ChildrenStay DEF BudgetInv
    <2> QED BY <2>2, <2>3, <2>9 DEF BudgetInv
  <1> QED BY <1>1, <1>2, <1>3, <1>4

LEMMA BudgetInvMeans == BudgetInv => BudgetsAreMeant
  <1> SUFFICES ASSUME BudgetInv PROVE BudgetsAreMeant
    OBVIOUS
  <1>1. CeilingsAreMeant
    <2> SUFFICES ASSUME settings # <<>>, settings.tokens > 0
                 PROVE  /\ \A i \in 1 .. Len(journal) : Counted(i - 1) <= LimitOf(settings)
                        /\ trippedBy = "tokens" => Counted(Len(journal)) > LimitOf(settings)
      BY DEF CeilingsAreMeant, LimitOf
    <2>1. settings \in BudgetSettings
      BY DEF BudgetInv, BudgetShape
    <2>2. \A n : Counted(n) = CountedIn(settings, journal, n)
      BY DEF Counted, CountedIn
    <2>3. \A i \in 1 .. Len(journal) : CountedIn(settings, journal, i - 1) <= LimitOf(settings)
      BY <2>1 DEF BudgetInv, TurnsBeganWithin
    <2>4. trippedBy = "tokens" => CountedIn(settings, journal, Len(journal)) > LimitOf(settings)
      BY DEF BudgetInv, TokenStopsAreTrue
    <2> QED BY <2>2, <2>3, <2>4
  <1>2. ChildrenAreBounded
    <2> SUFFICES ASSUME runPhase = "child"
                 PROVE  Len(childTurns) - Max({0} \cup {i \in DOMAIN childTurns : childTurns[i]})
                             < ChildSteps(settings)
      BY DEF ChildrenAreBounded, BudgetInv, ChildrenCounted
    <2> DEFINE S == {0} \cup {i \in DOMAIN childTurns : childTurns[i]}
    <2>1. ChildIsMetered
      BY DEF BudgetInv
    <2>2. S \subseteq Int /\ childMeter.mark \in S /\ \A x \in S : x <= childMeter.mark
      <3>1. childTurns \in Seq(BOOLEAN) /\ childMeter.mark \in Nat
        BY DEF BudgetInv, BudgetShape
      <3> QED BY <2>1, <3>1 DEF ChildIsMetered
    <2>3. Len(childTurns) - childMeter.mark < ChildSteps(settings)
      BY <2>1 DEF ChildIsMetered
    <2> HIDE DEF S
    <2>4. Max(S) = childMeter.mark
      BY <2>2, GreatestIs
    <2> QED BY <2>3, <2>4 DEF S
  <1>3. MemoryIsGuarded
    <2>1. trippedBy = "memory" => resident > 0 /\ settings.memory.setting # "off"
      BY DEF BudgetInv, MemoryIsRead, TooLarge, MemoryCeiling
    <2>2. ASSUME runPhase \in {"act", "child"}, settings.memory.setting = "default"
          PROVE  LET u == UsableMemory(settings.memory)
                 IN  resident <= Max({MemFloor, IF u > 0 THEN u \div 2 ELSE MemCap})
      <3>1. settings \in BudgetSettings /\ resident \in Nat /\ ~ TooLarge(settings, resident)
        BY <2>2 DEF BudgetInv, BudgetShape, MemoryIsRead
      <3> QED BY <2>2, <3>1, GuardedMemory
    <2> QED BY <2>1, <2>2 DEF MemoryIsGuarded
  <1> QED BY <1>1, <1>2, <1>3 DEF BudgetsAreMeant

\* Of the tokens of a run's own turns, a ceiling kloo inferred never stops a run
\* that keeps changing files, and one that was asked for is passed by one turn at
\* most; the tokens of its children are in neither, but no child takes more turns
\* than its absolute ceiling, nor as many as its allowance without landing a change;
\* and the memory guard speaks before half of what there is to use is gone
\* (runBudget.Check and NoteProgress, stepBudget.Check, observeRSS).
THEOREM BudgetsStopWhatTheyShould == BudgetSpec => []BudgetsAreMeant
  <1>1. BudgetInv /\ [BudgetNext]_budgetVars => BudgetInv'
    <2> SUFFICES ASSUME BudgetInv, [BudgetNext]_budgetVars PROVE BudgetInv'
      OBVIOUS
    <2>1. CASE ResetBudget BY <2>1, ResetKeepsBudget
    <2>2. CASE CheckBudget BY <2>2, CheckKeepsBudget
    <2>3. CASE SpendTurn BY <2>3, SpendKeepsBudget
    <2>4. CASE SpawnHelper BY <2>4, SpawnKeepsBudget
    <2>5. CASE ChildTurn BY <2>5, ChildKeepsBudget
    <2>6. CASE TimePasses \/ ChildEnds \/ CloseRun \/ EndBudgetRun \/ UNCHANGED budgetVars
      BY <2>6, OthersKeepBudget
    <2> QED BY <2>1, <2>2, <2>3, <2>4, <2>5, <2>6 DEF BudgetNext
  <1> QED BY <1>1, BudgetInitInv, BudgetInvMeans, PTL DEF BudgetSpec

-----------------------------------------------------------------------------
(* The measured ratio *)

KlooStates ==
    [pc : {"off", "idle", "run", "sent"} \cup Saving,
     model : Tokenizers, seed : Ratios, learned : Ratios,
     chars : BOOLEAN, table : Tables,
     handle : {"none", "spare", "store", "gone"}]

\* Between two prompts no characters are kept, those of a prompt are credited to
\* its own turn, and the file is open for no longer than it is written.
TeachesItsOwn(k) ==
    /\ k.pc = "run" => ~ k.chars
    /\ k.pc # "write" => k.handle = "none"
    /\ k.learned \subseteq Tokenizers \X {"own", "turn"}

\* A table holds what was wanted; a save that could not read the file drops the rest.
AsWanted(table, w, u) ==
    \A m \in Tokenizers : table[m] = w[m] \/ (u /\ table[m] = {})

\* How far a save has come that no other has overlapped.
InPlace(k, u) ==
    /\ k.pc \in {"open", "write", "move"} => AsWanted(k.table, [wanted EXCEPT ![k.model] = k.learned], u)
    /\ k.pc = "write" => k.handle = "spare" /\ spare = Truncated
    /\ k.pc = "move" => spare = Holding(k.table)

\* The file is what was wanted, and at most one save is under way.
Undisturbed ==
    /\ store \notin {Truncated, Mixed} /\ AsWanted(Loaded(store), wanted, unread)
    /\ \A p, q \in Kloos : kloo[p].pc \in Saving /\ kloo[q].pc \in Saving => p = q
    /\ \A p \in Kloos : InPlace(kloo[p], unread)

CalibrationInv ==
    /\ CalibrationTypeOK
    /\ \A p \in Kloos : TeachesItsOwn(kloo[p])
    /\ ~ overlap => Undisturbed

LEMMA NotRunningIsAState ==
    /\ NotRunning \in KlooStates /\ TeachesItsOwn(NotRunning)
    /\ NotRunning.pc = "off" /\ NotRunning.handle = "none"
    /\ \A m \in Tokenizers :
         Launched(m) = [pc |-> "idle", model |-> m, seed |-> {}, learned |-> {},
                        chars |-> FALSE, table |-> EmptyTable, handle |-> "none"]
    /\ EmptyTable \in Tables
  <1>1. PICK m \in Tokenizers : m = CHOOSE x \in Tokenizers : TRUE
    BY CalibrationAssumption
  <1>2. EmptyTable \in Tables
    BY DEF EmptyTable, Tables, Ratios
  <1> DEFINE first == Launched(m)
  <1>a. first = [pc |-> "idle", model |-> m, seed |-> {}, learned |-> {},
                 chars |-> FALSE, table |-> EmptyTable, handle |-> "none"]
    BY DEF Launched
  <1>b. NotRunning = [first EXCEPT !.pc = "off"]
    BY <1>1 DEF NotRunning
  <1>3. NotRunning = [pc |-> "off", model |-> m, seed |-> {}, learned |-> {},
                      chars |-> FALSE, table |-> EmptyTable, handle |-> "none"]
    <2> HIDE DEF first
    <2> QED BY <1>a, <1>b
  <1> QED BY <1>1, <1>2, <1>3 DEF KlooStates, TeachesItsOwn, Ratios, Launched

LEMMA CalibrationStarts == CalibrationInit => CalibrationInv
  <1> SUFFICES ASSUME CalibrationInit PROVE CalibrationInv
    OBVIOUS
  <1>1. /\ store = NoFile /\ spare = NoFile /\ begun = 0 /\ wanted = EmptyTable /\ overlap = FALSE /\ unread = FALSE
        /\ kloo = [p \in Kloos |-> NotRunning]
    BY DEF CalibrationInit
  <1>2. CalibrationTypeOK
    <2>1. store \in Files /\ spare \in Files /\ wanted \in Tables
      BY <1>1, NotRunningIsAState DEF Files
    <2>2. kloo \in [Kloos -> KlooStates]
      BY <1>1, NotRunningIsAState
    <2>3. begun \in 0 .. MaxBegun
      BY <1>1, CalibrationAssumption
    <2>4. {overlap, unread} \subseteq BOOLEAN
      BY <1>1
    <2> QED BY <2>1, <2>2, <2>3, <2>4 DEF CalibrationTypeOK, KlooStates
  <1>3. \A p \in Kloos : kloo[p] = NotRunning
    BY <1>1
  <1>4. \A p \in Kloos : InPlace(kloo[p], unread) /\ kloo[p].pc \notin Saving
    BY <1>3, NotRunningIsAState DEF InPlace, Saving
  <1>5. store \notin {Truncated, Mixed} /\ AsWanted(Loaded(store), wanted, unread)
    BY <1>1 DEF NoFile, Truncated, Mixed, Loaded, AsWanted
  <1> QED BY <1>2, <1>3, <1>4, <1>5, NotRunningIsAState DEF CalibrationInv, Undisturbed

\* A step of one process that leaves the files alone keeps the invariant when it
\* does in the process itself.
LEMMA OneProcessSteps ==
    ASSUME CalibrationInv, NEW p \in Kloos, NEW k \in KlooStates, Becomes(p, k),
           TeachesItsOwn(k), UNCHANGED <<store, spare, wanted>>,
           begun' \in 0 .. MaxBegun, {overlap', unread'} \subseteq BOOLEAN, unread => unread',
           ~ overlap' => ~ overlap /\ InPlace(k, unread'),
           ~ overlap' /\ k.pc \in Saving => \A q \in Kloos \ {p} : kloo[q].pc \notin Saving
    PROVE  CalibrationInv'
  <1>1. kloo' \in [Kloos -> KlooStates]
    BY DEF CalibrationInv, CalibrationTypeOK, KlooStates, Becomes
  <1>2. kloo'[p] = k /\ \A q \in Kloos \ {p} : kloo'[q] = kloo[q]
    BY DEF CalibrationInv, CalibrationTypeOK, Becomes
  <1>3. CalibrationTypeOK'
    BY <1>1 DEF CalibrationInv, CalibrationTypeOK, KlooStates
  <1>4. \A q \in Kloos : TeachesItsOwn(kloo'[q])
    BY <1>2 DEF CalibrationInv
  <1>5. ASSUME ~ overlap' PROVE Undisturbed'
    <2>1. Undisturbed /\ ~ overlap
      BY <1>5 DEF CalibrationInv
    <2>2. \A q \in Kloos : InPlace(kloo[q], unread)'
      <3> SUFFICES ASSUME NEW q \in Kloos PROVE InPlace(kloo[q], unread)'
        OBVIOUS
      <3>1. CASE q = p
        BY <1>2, <1>5, <3>1 DEF InPlace, AsWanted
      <3>2. CASE q # p
        <4>1. InPlace(kloo[q], unread) /\ kloo'[q] = kloo[q]
          BY <1>2, <2>1, <3>2 DEF Undisturbed
        <4> QED BY <4>1 DEF InPlace, AsWanted
      <3> QED BY <3>1, <3>2
    <2>3. \A q, r \in Kloos : kloo'[q].pc \in Saving /\ kloo'[r].pc \in Saving => q = r
      BY <1>2, <1>5, <2>1 DEF Undisturbed
    <2>4. (store \notin {Truncated, Mixed} /\ AsWanted(Loaded(store), wanted, unread))'
      BY <2>1 DEF Undisturbed, Loaded, AsWanted
    <2> QED BY <2>2, <2>3, <2>4 DEF Undisturbed
  <1> QED BY <1>3, <1>4, <1>5 DEF CalibrationInv, TeachesItsOwn

\* The same for a process that has no save under way and begins none.
LEMMA OneProcessLearns ==
    ASSUME CalibrationInv, NEW p \in Kloos, NEW k \in KlooStates, Becomes(p, k),
           TeachesItsOwn(k), UNCHANGED <<store, spare, wanted, overlap, unread>>,
           begun' \in 0 .. MaxBegun, k.pc \notin Saving
    PROVE  CalibrationInv'
  <1>1. InPlace(k, unread')
    BY DEF InPlace, Saving
  <1>2. {overlap', unread'} \subseteq BOOLEAN
    BY DEF CalibrationInv, CalibrationTypeOK
  <1> QED BY <1>1, <1>2, OneProcessSteps

LEMMA StatesOfProcesses ==
    ASSUME CalibrationInv, NEW p \in Kloos
    PROVE  /\ kloo[p] \in KlooStates /\ TeachesItsOwn(kloo[p])
           /\ begun \in 0 .. MaxBegun
           /\ store \in Files /\ Loaded(store) \in Tables
  <1>1. store.table \in Tables
    BY NotRunningIsAState DEF CalibrationInv, CalibrationTypeOK, Files, Holding, NoFile, Truncated, Mixed
  <1> QED BY <1>1 DEF CalibrationInv, CalibrationTypeOK, KlooStates, Loaded

LEMMA LearningTeachesItsOwn ==
    ASSUME CalibrationInv, NEW p \in Kloos,
           \/ \E m \in Tokenizers : KlooStarts(p, m) \/ SwitchTokenizer(p, m)
           \/ StartAsking(p) \/ SendPrompt(p) \/ TurnOver(p) \/ OtherCall(p) \/ KlooDies(p)
    PROVE  CalibrationInv'
  <1> DEFINE k == kloo[p]
  <1>1. k \in KlooStates /\ TeachesItsOwn(k) /\ begun \in 0 .. MaxBegun /\ Loaded(store) \in Tables
    BY StatesOfProcesses
  <1>2. ASSUME NEW m \in Tokenizers, KlooStarts(p, m) PROVE CalibrationInv'
    <2> PICK seed \in {Loaded(store)[m], {}} : Becomes(p, [Launched(m) EXCEPT !.seed = seed])
      BY <1>2 DEF KlooStarts
    <2> DEFINE first == Launched(m)
               s == [first EXCEPT !.seed = seed]
    <2>1. first = [pc |-> "idle", model |-> m, seed |-> {}, learned |-> {},
                   chars |-> FALSE, table |-> EmptyTable, handle |-> "none"]
      BY NotRunningIsAState
    <2>2. /\ first \in KlooStates /\ first.pc = "idle" /\ ~ first.chars
          /\ first.handle = "none" /\ first.learned = {}
      BY <2>1, NotRunningIsAState DEF KlooStates, Ratios
    <2>a. seed \in Ratios
      BY <1>1 DEF Tables, Ratios
    <2> HIDE DEF first
    <2>3. s \in KlooStates /\ s.pc \notin Saving /\ TeachesItsOwn(s)
      <3>1. s \in KlooStates
        BY <2>2, <2>a DEF KlooStates
      <3>2. s.pc = "idle" /\ s.handle = "none" /\ s.learned = {}
        BY <2>2 DEF KlooStates
      <3> HIDE DEF s
      <3> QED BY <3>1, <3>2 DEF Saving, TeachesItsOwn
    <2>4. Becomes(p, s) /\ UNCHANGED <<store, spare, wanted, overlap, unread, begun>>
      BY <1>2 DEF KlooStarts, FilesStay, first
    <2> HIDE DEF s
    <2> QED BY <1>1, <2>3, <2>4, OneProcessLearns
  <1>3. ASSUME NEW m \in Tokenizers, SwitchTokenizer(p, m) PROVE CalibrationInv'
    <2> DEFINE s == [k EXCEPT !.model = m]
    <2>1. Becomes(p, s) /\ UNCHANGED <<store, spare, wanted, overlap, unread, begun>> /\ k.pc = "idle"
      BY <1>3 DEF SwitchTokenizer, FilesStay
    <2>2. s \in KlooStates /\ s.pc \notin Saving /\ TeachesItsOwn(s)
      BY <1>1, <2>1 DEF KlooStates, Saving, TeachesItsOwn
    <2> HIDE DEF s
    <2> QED BY <1>1, <2>1, <2>2, OneProcessLearns
  <1>4. ASSUME StartAsking(p) PROVE CalibrationInv'
    <2> DEFINE s == [k EXCEPT !.pc = "run", !.chars = FALSE]
    <2>1. /\ Becomes(p, s) /\ UNCHANGED <<store, spare, wanted, overlap, unread>> /\ k.pc = "idle"
          /\ begun' = begun + 1 /\ begun < MaxBegun
      BY <1>4 DEF StartAsking
    <2>2. s \in KlooStates /\ s.pc \notin Saving /\ TeachesItsOwn(s)
      BY <1>1, <2>1 DEF KlooStates, Saving, TeachesItsOwn
    <2>3. begun' \in 0 .. MaxBegun
      BY <1>1, <2>1, CalibrationAssumption
    <2> HIDE DEF s
    <2> QED BY <2>1, <2>2, <2>3, OneProcessLearns
  <1>5. ASSUME SendPrompt(p) PROVE CalibrationInv'
    <2> DEFINE s == [k EXCEPT !.pc = "sent", !.chars = TRUE]
    <2>1. Becomes(p, s) /\ UNCHANGED <<store, spare, wanted, overlap, unread, begun>> /\ k.pc = "run"
      BY <1>5 DEF SendPrompt, FilesStay
    <2>2. s \in KlooStates /\ s.pc \notin Saving /\ TeachesItsOwn(s)
      BY <1>1, <2>1 DEF KlooStates, Saving, TeachesItsOwn
    <2> HIDE DEF s
    <2> QED BY <1>1, <2>1, <2>2, OneProcessLearns
  <1>6. ASSUME TurnOver(p) PROVE CalibrationInv'
    <2>1. k.pc = "sent" /\ UNCHANGED <<store, spare, wanted, overlap, unread, begun>>
      BY <1>6 DEF TurnOver, FilesStay
    <2>2. PICK l \in {k.learned, k.learned \cup {<<k.model, "own">>}, k.learned \cup {<<k.model, "turn">>}} :
            Becomes(p, [k EXCEPT !.pc = "run", !.chars = FALSE, !.learned = l])
      <3>1. ASSUME NEW kind \in {"own", "turn"}, Becomes(p, [Observed(k, kind) EXCEPT !.pc = "run"])
            PROVE  \E l \in {k.learned, k.learned \cup {<<k.model, "own">>}, k.learned \cup {<<k.model, "turn">>}} :
                      Becomes(p, [k EXCEPT !.pc = "run", !.chars = FALSE, !.learned = l])
        <4> DEFINE l == IF k.chars THEN k.learned \cup {<<k.model, kind>>} ELSE k.learned
        <4>1. Observed(k, kind) = [k EXCEPT !.learned = l, !.chars = FALSE]
          BY DEF Observed, Credited
        <4>2. [Observed(k, kind) EXCEPT !.pc = "run"] = [k EXCEPT !.pc = "run", !.chars = FALSE, !.learned = l]
          BY <1>1, <4>1 DEF KlooStates
        <4> QED BY <3>1, <4>2
      <3>2. CASE Becomes(p, [k EXCEPT !.pc = "run", !.chars = FALSE])
        <4>1. [k EXCEPT !.pc = "run", !.chars = FALSE]
                = [k EXCEPT !.pc = "run", !.chars = FALSE, !.learned = k.learned]
          BY <1>1 DEF KlooStates
        <4> QED BY <3>2, <4>1
      <3> QED BY <1>6, <3>1, <3>2 DEF TurnOver
    <2> DEFINE s == [k EXCEPT !.pc = "run", !.chars = FALSE, !.learned = l]
    <2>3. l \in Ratios /\ l \subseteq Tokenizers \X {"own", "turn"}
      <3>1. k.model \in Tokenizers /\ k.learned \subseteq Tokenizers \X {"own", "turn"}
        BY <1>1 DEF KlooStates, TeachesItsOwn
      <3>2. l \subseteq Tokenizers \X {"own", "turn"}
        BY <2>2, <3>1
      <3> QED BY <3>2 DEF Ratios, Lessons
    <2>4. s \in KlooStates /\ s.pc \notin Saving /\ TeachesItsOwn(s)
      BY <1>1, <2>1, <2>3 DEF KlooStates, Saving, TeachesItsOwn
    <2>5. Becomes(p, s)
      BY <2>2
    <2> HIDE DEF s
    <2> QED BY <1>1, <2>1, <2>4, <2>5, OneProcessLearns
  <1>7. ASSUME OtherCall(p) PROVE CalibrationInv'
    <2> DEFINE s == [k EXCEPT !.learned = k.learned, !.chars = FALSE]
    <2>1. k.pc = "run" /\ ~ k.chars /\ UNCHANGED <<store, spare, wanted, overlap, unread, begun>>
      BY <1>1, <1>7 DEF OtherCall, FilesStay, TeachesItsOwn
    <2>2. Becomes(p, s)
      <3>1. Observed(k, "other") = s
        BY <2>1 DEF Observed, Credited
      <3> QED BY <1>7, <3>1 DEF OtherCall
    <2>3. s \in KlooStates /\ s.pc \notin Saving /\ TeachesItsOwn(s)
      BY <1>1, <2>1 DEF KlooStates, Saving, TeachesItsOwn
    <2> HIDE DEF s
    <2> QED BY <1>1, <2>1, <2>2, <2>3, OneProcessLearns
  <1>8. ASSUME KlooDies(p) PROVE CalibrationInv'
    <2>1. Becomes(p, NotRunning) /\ UNCHANGED <<store, spare, wanted, overlap, unread, begun>>
      BY <1>8 DEF KlooDies, FilesStay
    <2>2. NotRunning.pc \notin Saving
      BY NotRunningIsAState DEF Saving
    <2> QED BY <1>1, <2>1, <2>2, NotRunningIsAState, OneProcessLearns
  <1> QED BY <1>2, <1>3, <1>4, <1>5, <1>6, <1>7, <1>8

\* A save begins, reads the table, opens the temporary file and may fail.
LEMMA StopBeginsASave ==
    ASSUME CalibrationInv, NEW p \in Kloos, StopAsking(p)
    PROVE  CalibrationInv'
  <1> DEFINE k == kloo[p]
             next == IF Reported(k) # {} THEN "load" ELSE "idle"
             s == [k EXCEPT !.pc = next]
  <1>1. k \in KlooStates /\ TeachesItsOwn(k) /\ begun \in 0 .. MaxBegun
    BY StatesOfProcesses
  <1>2. /\ Becomes(p, s) /\ k.pc \in {"run", "sent"} /\ UNCHANGED <<store, spare, begun, wanted, unread>>
        /\ overlap' = (overlap \/ (Reported(k) # {} /\ \E q \in Kloos \ {p} : kloo[q].pc \in Saving))
    BY DEF StopAsking
  <1>3. next \in {"load", "idle"}
    OBVIOUS
  <1>4. s \in KlooStates /\ TeachesItsOwn(s) /\ InPlace(s, unread') /\ s.pc = next
    <2> HIDE DEF next
    <2> QED BY <1>1, <1>2, <1>3 DEF KlooStates, Saving, TeachesItsOwn, InPlace
  <1>5. {overlap', unread'} \subseteq BOOLEAN /\ (~ overlap' => ~ overlap)
    BY <1>2 DEF CalibrationInv, CalibrationTypeOK
  <1>6. ASSUME ~ overlap', s.pc \in Saving PROVE \A q \in Kloos \ {p} : kloo[q].pc \notin Saving
    <2>1. Reported(k) # {}
      BY <1>4, <1>6 DEF Saving
    <2> QED BY <1>2, <1>6, <2>1
  <1> HIDE DEF s
  <1> QED BY <1>1, <1>2, <1>4, <1>5, <1>6, OneProcessSteps

\* What is loaded and what is not: in both cases the table is what was wanted.
LEMMA LoadMerges ==
    ASSUME CalibrationInv, NEW p \in Kloos, LoadTable(p)
    PROVE  CalibrationInv'
  <1> DEFINE k == kloo[p]
  <1>1. k \in KlooStates /\ TeachesItsOwn(k) /\ begun \in 0 .. MaxBegun /\ Loaded(store) \in Tables
    BY StatesOfProcesses
  <1>2. PICK table \in {Merged(k), SavedAlone(k)} :
          /\ Becomes(p, [k EXCEPT !.pc = "open", !.table = table])
          /\ \/ table = Merged(k) /\ unread' = unread
             \/ table = SavedAlone(k) /\ unread' = TRUE
    BY DEF LoadTable
  <1> DEFINE s == [k EXCEPT !.pc = "open", !.table = table]
  <1>3. Becomes(p, s) /\ k.pc = "load" /\ UNCHANGED <<store, spare, begun, wanted, overlap>>
    BY <1>2 DEF LoadTable
  <1>4. table \in Tables
    BY <1>1, <1>2, NotRunningIsAState DEF Merged, SavedAlone, Reported, TokenRatio, Tables, KlooStates
  <1>5. s \in KlooStates /\ TeachesItsOwn(s) /\ s.pc = "open" /\ s.table = table
        /\ s.model = k.model /\ s.learned = k.learned
    BY <1>1, <1>3, <1>4 DEF KlooStates, Saving, TeachesItsOwn
  <1>6. {overlap', unread'} \subseteq BOOLEAN /\ overlap' = overlap /\ (unread => unread')
    <2>1. overlap \in BOOLEAN /\ unread \in BOOLEAN
      BY DEF CalibrationInv, CalibrationTypeOK
    <2>2. (unread' = unread \/ unread' = TRUE) /\ overlap' = overlap
      BY <1>2, <1>3
    <2> QED BY <2>1, <2>2
  <1>7. ASSUME ~ overlap
        PROVE  InPlace(s, unread') /\ \A q \in Kloos \ {p} : kloo[q].pc \notin Saving
    <2>1. AsWanted(Loaded(store), wanted, unread) /\ \A q \in Kloos \ {p} : kloo[q].pc \notin Saving
      BY <1>3, <1>7 DEF CalibrationInv, Undisturbed, Saving
    <2> DEFINE w == [wanted EXCEPT ![k.model] = k.learned]
    <2>2. k.model \in Tokenizers /\ wanted \in Tables
      BY <1>1 DEF KlooStates, CalibrationInv, CalibrationTypeOK
    <2>3. \A m \in Tokenizers : w[m] = IF m = k.model THEN k.learned ELSE wanted[m]
      BY <2>2 DEF Tables
    <2>4. \A m \in Tokenizers : Merged(k)[m] = IF m = k.model THEN k.learned ELSE Loaded(store)[m]
      BY <1>1 DEF Merged, Reported, TokenRatio, Tables
    <2>5. \A m \in Tokenizers : SavedAlone(k)[m] = IF m = k.model THEN k.learned ELSE {}
      BY DEF SavedAlone, Reported, TokenRatio, EmptyTable
    <2>6. \A m \in Tokenizers : table[m] = w[m] \/ (unread' /\ table[m] = {})
      <3> HIDE DEF w, k
      <3>1. CASE table = Merged(k) /\ unread' = unread
        BY <2>1, <2>3, <2>4, <3>1 DEF AsWanted
      <3>2. CASE table = SavedAlone(k) /\ unread' = TRUE
        BY <2>3, <2>5, <3>2
      <3> QED BY <1>2, <3>1, <3>2
    <2>7. AsWanted(table, w, unread')
      BY <1>3, <2>6 DEF AsWanted
    <2> HIDE DEF s
    <2> QED BY <1>3, <1>5, <2>1, <2>7 DEF InPlace
  <1> HIDE DEF s
  <1> QED BY <1>1, <1>3, <1>5, <1>6, <1>7, OneProcessSteps

LEMMA LostIsNoSave ==
    ASSUME CalibrationInv, NEW p \in Kloos, SaveLost(p)
    PROVE  CalibrationInv'
  <1> DEFINE k == kloo[p]
             s == [k EXCEPT !.pc = "idle", !.table = EmptyTable, !.handle = "none"]
  <1>1. k \in KlooStates /\ TeachesItsOwn(k) /\ begun \in 0 .. MaxBegun
    BY StatesOfProcesses
  <1>2. Becomes(p, s) /\ UNCHANGED <<store, spare, begun, wanted, overlap, unread>>
    BY DEF SaveLost, SaveOver, FilesStay
  <1>3. s \in KlooStates /\ TeachesItsOwn(s) /\ s.pc \notin Saving
    BY <1>1, NotRunningIsAState DEF KlooStates, Saving, TeachesItsOwn
  <1> HIDE DEF s
  <1> QED BY <1>1, <1>2, <1>3, OneProcessLearns

\* A step of the one process that saves, whatever it does to the files.
LEMMA OneSaverSteps ==
    ASSUME CalibrationInv, NEW p \in Kloos, kloo[p].pc \in Saving,
           CalibrationTypeOK', overlap' = overlap, unread' = unread, \A q \in Kloos : TeachesItsOwn(kloo'[q]),
           ~ overlap => /\ \A q \in Kloos \ {p} : kloo'[q] = kloo[q]
                        /\ store' \notin {Truncated, Mixed} /\ AsWanted(Loaded(store), wanted, unread)'
                        /\ InPlace(kloo[p], unread)'
    PROVE  CalibrationInv'
  <1>1. ASSUME ~ overlap' PROVE Undisturbed'
    <2>1. \A q \in Kloos \ {p} : kloo'[q] = kloo[q] /\ kloo[q].pc \notin Saving
      BY <1>1 DEF CalibrationInv, Undisturbed
    <2>2. \A q \in Kloos \ {p} : InPlace(kloo[q], unread)'
      BY <2>1 DEF InPlace, Saving, AsWanted
    <2>3. \A q, r \in Kloos : kloo'[q].pc \in Saving /\ kloo'[r].pc \in Saving => q = r
      BY <2>1
    <2> QED BY <1>1, <2>2, <2>3 DEF Undisturbed, Loaded, Truncated, Mixed
  <1> QED BY <1>1 DEF CalibrationInv, TeachesItsOwn

LEMMA OpenTruncates ==
    ASSUME CalibrationInv, NEW p \in Kloos, OpenSpare(p)
    PROVE  CalibrationInv'
  <1> DEFINE k == kloo[p]
             s == [k EXCEPT !.pc = "write", !.handle = "spare"]
  <1>1. k \in KlooStates /\ TeachesItsOwn(k)
    BY StatesOfProcesses
  <1>2. /\ kloo' = [kloo EXCEPT ![p] = s] /\ k.pc = "open" /\ spare' = Truncated
        /\ UNCHANGED <<store, begun, wanted, overlap, unread>>
    BY DEF OpenSpare, Becomes
  <1>3. /\ s \in KlooStates /\ TeachesItsOwn(s) /\ s.pc = "write" /\ s.handle = "spare"
        /\ s.table = k.table /\ s.model = k.model /\ s.learned = k.learned
    BY <1>1, <1>2 DEF KlooStates, Saving, TeachesItsOwn
  <1> HIDE DEF s
  <1>4. kloo' \in [Kloos -> KlooStates] /\ kloo'[p] = s /\ \A q \in Kloos \ {p} : kloo'[q] = kloo[q]
    BY <1>2, <1>3 DEF CalibrationInv, CalibrationTypeOK, KlooStates
  <1>5. CalibrationTypeOK'
    BY <1>2, <1>4 DEF CalibrationInv, CalibrationTypeOK, KlooStates, Files
  <1>6. \A q \in Kloos : TeachesItsOwn(kloo'[q])
    BY <1>3, <1>4 DEF CalibrationInv
  <1>7. ASSUME ~ overlap
        PROVE  store' \notin {Truncated, Mixed} /\ AsWanted(Loaded(store), wanted, unread)' /\ InPlace(kloo[p], unread)'
    <2>1. Undisturbed
      BY <1>7 DEF CalibrationInv
    <2>2. AsWanted(s.table, [wanted EXCEPT ![s.model] = s.learned], unread)
      BY <1>2, <1>3, <2>1 DEF Undisturbed, InPlace
    <2>3. AsWanted(Loaded(store), wanted, unread)'
      BY <1>2, <2>1 DEF Undisturbed, AsWanted, Loaded
    <2>4. InPlace(kloo[p], unread)'
      BY <1>2, <1>3, <1>4, <2>2 DEF InPlace, AsWanted
    <2> QED BY <1>2, <2>1, <2>3, <2>4 DEF Undisturbed
  <1> QED BY <1>2, <1>4, <1>5, <1>6, <1>7, OneSaverSteps DEF Saving

LEMMA OverIsAFile ==
    ASSUME NEW f \in Files, NEW table \in Tables
    PROVE  Over(f, table) \subseteq Files /\ Over(Truncated, table) = {Holding(table)}
  BY DEF Over, Files

LEMMA WriteFills ==
    ASSUME CalibrationInv, NEW p \in Kloos, WriteSpare(p)
    PROVE  CalibrationInv'
  <1> DEFINE k == kloo[p]
             s == [k EXCEPT !.pc = "move", !.handle = "none"]
  <1>1. k \in KlooStates /\ TeachesItsOwn(k) /\ store \in Files /\ spare \in Files
    BY StatesOfProcesses DEF CalibrationInv, CalibrationTypeOK
  <1>2. /\ kloo' = [kloo EXCEPT ![p] = s] /\ k.pc = "write"
        /\ UNCHANGED <<begun, wanted, overlap, unread>>
    BY DEF WriteSpare, Becomes
  <1>3. /\ spare' \in (IF k.handle = "spare" THEN Over(spare, k.table) ELSE {spare})
        /\ store' \in (IF k.handle = "store" THEN Over(store, k.table) ELSE {store})
    BY DEF WriteSpare
  <1>4. /\ s \in KlooStates /\ TeachesItsOwn(s) /\ s.pc = "move" /\ s.handle = "none"
        /\ s.table = k.table /\ s.model = k.model /\ s.learned = k.learned
    BY <1>1, <1>2 DEF KlooStates, Saving, TeachesItsOwn
  <1> HIDE DEF s
  <1>5. kloo' \in [Kloos -> KlooStates] /\ kloo'[p] = s /\ \A q \in Kloos \ {p} : kloo'[q] = kloo[q]
    BY <1>2, <1>4 DEF CalibrationInv, CalibrationTypeOK, KlooStates
  <1>6. k.table \in Tables
    BY <1>1 DEF KlooStates
  <1>7. store' \in Files /\ spare' \in Files
    BY <1>1, <1>3, <1>6, OverIsAFile
  <1>8. CalibrationTypeOK'
    BY <1>2, <1>5, <1>7 DEF CalibrationInv, CalibrationTypeOK, KlooStates
  <1>9. \A q \in Kloos : TeachesItsOwn(kloo'[q])
    BY <1>4, <1>5 DEF CalibrationInv
  <1>10. ASSUME ~ overlap
         PROVE  store' \notin {Truncated, Mixed} /\ AsWanted(Loaded(store), wanted, unread)' /\ InPlace(kloo[p], unread)'
    <2>1. Undisturbed /\ InPlace(k, unread)
      BY <1>10 DEF CalibrationInv, Undisturbed
    <2>2. k.handle = "spare" /\ spare = Truncated
      BY <1>2, <2>1 DEF InPlace
    <2>3. store' = store /\ spare' = Holding(s.table)
      BY <1>1, <1>3, <1>4, <1>6, <2>2, OverIsAFile
    <2>4. AsWanted(s.table, [wanted EXCEPT ![s.model] = s.learned], unread)
      BY <1>2, <1>4, <2>1 DEF InPlace
    <2>5. store \notin {Truncated, Mixed} /\ AsWanted(Loaded(store), wanted, unread)'
      BY <1>2, <2>1, <2>3 DEF Undisturbed, AsWanted, Loaded
    <2>6. InPlace(kloo[p], unread)'
      BY <1>2, <1>4, <1>5, <2>3, <2>4 DEF InPlace, AsWanted
    <2> QED BY <1>2, <2>3, <2>5, <2>6
  <1> QED BY <1>2, <1>5, <1>8, <1>9, <1>10, OneSaverSteps DEF Saving

\* The rename puts the whole table in place.
LEMMA MoveReplaces ==
    ASSUME CalibrationInv, NEW p \in Kloos, MoveSpare(p)
    PROVE  CalibrationInv'
  <1> DEFINE k == kloo[p]
             s == [k EXCEPT !.pc = "idle", !.table = EmptyTable, !.handle = "none"]
  <1>1. /\ \A q \in Kloos : kloo[q] \in KlooStates /\ TeachesItsOwn(kloo[q])
        /\ store \in Files /\ spare \in Files /\ wanted \in Tables
    BY StatesOfProcesses DEF CalibrationInv, CalibrationTypeOK
  <1>2. /\ k.pc = "move" /\ store' = spare /\ spare' = NoFile
        /\ kloo' = [q \in Kloos |-> IF q = p THEN s
                                     ELSE [kloo[q] EXCEPT !.handle = FollowsFile(kloo[q].handle)]]
        /\ wanted' = [wanted EXCEPT ![k.model] = k.learned]
        /\ UNCHANGED <<begun, overlap, unread>>
    BY DEF MoveSpare, SaveOver
  <1>3. s \in KlooStates /\ TeachesItsOwn(s) /\ s.pc = "idle"
    BY <1>1, NotRunningIsAState DEF KlooStates, Saving, TeachesItsOwn
  <1> HIDE DEF s
  <1>4. \A h \in {"none", "spare", "store", "gone"} :
           FollowsFile(h) \in {"none", "spare", "store", "gone"} /\ (h = "none" => FollowsFile(h) = "none")
    BY DEF FollowsFile
  <1>5. ASSUME NEW q \in Kloos \ {p}
        PROVE  /\ kloo'[q] \in KlooStates /\ TeachesItsOwn(kloo'[q])
               /\ kloo[q].handle = "none" => kloo'[q] = kloo[q]
    <2> DEFINE h == FollowsFile(kloo[q].handle)
    <2>1. kloo[q] \in KlooStates /\ TeachesItsOwn(kloo[q]) /\ kloo'[q] = [kloo[q] EXCEPT !.handle = h]
      BY <1>1, <1>2
    <2>2. h \in {"none", "spare", "store", "gone"} /\ (kloo[q].handle = "none" => h = "none")
      BY <1>4, <2>1 DEF KlooStates
    <2> HIDE DEF h
    <2> QED BY <2>1, <2>2 DEF KlooStates, TeachesItsOwn
  <1>6. kloo'[p] = s /\ \A q \in Kloos : kloo'[q] \in KlooStates /\ TeachesItsOwn(kloo'[q])
    <2>1. kloo'[p] = s
      BY <1>2
    <2> QED BY <1>3, <1>5, <2>1
  <1>7. kloo' \in [Kloos -> KlooStates]
    BY <1>2, <1>6
  <1>8. wanted' \in Tables
    BY <1>1, <1>2 DEF Tables, KlooStates
  <1>9. CalibrationTypeOK'
    BY <1>1, <1>2, <1>7, <1>8 DEF CalibrationInv, CalibrationTypeOK, KlooStates, Files
  <1>10. ASSUME ~ overlap
         PROVE  /\ \A q \in Kloos \ {p} : kloo'[q] = kloo[q]
                /\ store' \notin {Truncated, Mixed} /\ AsWanted(Loaded(store), wanted, unread)'
                /\ InPlace(kloo[p], unread)'
    <2>1. Undisturbed /\ InPlace(k, unread)
      BY <1>10 DEF CalibrationInv, Undisturbed
    <2>2. \A q \in Kloos \ {p} : kloo[q].handle = "none"
      BY <1>1, <1>2, <2>1 DEF Undisturbed, Saving, TeachesItsOwn
    <2>3. store' = Holding(k.table) /\ AsWanted(k.table, wanted', unread')
      BY <1>2, <2>1 DEF InPlace
    <2>4. store' \notin {Truncated, Mixed} /\ AsWanted(Loaded(store), wanted, unread)'
      BY <1>2, <2>3 DEF Holding, Truncated, Mixed, Loaded, AsWanted
    <2>5. InPlace(kloo[p], unread)'
      BY <1>3, <1>6 DEF InPlace
    <2> QED BY <1>5, <2>2, <2>4, <2>5
  <1> QED BY <1>2, <1>6, <1>9, <1>10, OneSaverSteps DEF Saving

\* Whatever number of processes share the file and wherever one dies, as long as no
\* two saves overlap it parses and holds the last ratio saved under every name, or,
\* after a save that could not read it, none for some other name; and a prompt's
\* characters are paired with tokens of its own turn only (calibrate.go, store.go,
\* loop.go:2886-3026).
THEOREM RatiosAreKept == CalibrationSpec => []CalibrationKept
  <1>1. CalibrationInv /\ [CalibrationNext]_calibrationVars => CalibrationInv'
    <2>1. CalibrationInv /\ CalibrationNext => CalibrationInv'
      BY LearningTeachesItsOwn, StopBeginsASave, LoadMerges, OpenTruncates, WriteFills, MoveReplaces,
         LostIsNoSave DEF CalibrationNext
    <2>2. CalibrationInv /\ UNCHANGED calibrationVars => CalibrationInv'
      BY DEF calibrationVars, CalibrationInv, CalibrationTypeOK, Undisturbed, InPlace, TeachesItsOwn, Loaded, AsWanted
    <2> QED BY <2>1, <2>2
  <1>2. CalibrationInv => CalibrationKept
    BY DEF CalibrationInv, CalibrationKept, Undisturbed, TeachesItsOwn, AsWanted
  <1> QED BY CalibrationStarts, <1>1, <1>2, PTL DEF CalibrationSpec

-----------------------------------------------------------------------------
(* What a request is made of *)

Kinds == {"edit", "command", "say", "look", "dump", "note", "failure"}
Messages == [kind : Kinds, size : Nat]

Memories == [folded : Nat, entries : Seq(Entries), dropped : Nat, compactions : Nat,
             distilled : Nat, briefs : Nat]

MemoryInv ==
    /\ taskSize \in Nat /\ ratio \in CharsPerToken /\ ratio \in 3 .. 10
    /\ pins \in [verify : Nat, file : Nat]
    /\ recap \in Seq(Messages) /\ convo \in Seq(Messages)
    /\ mem \in Memories
    /\ PromptFits

-----------------------------------------------------------------------------
(* Numbers *)

LEMMA SizesAreNumbers ==
    /\ ContextTokens \in Nat /\ CuratorTokens \in Nat /\ DefaultWorkingSet \in Nat
    /\ WorkingSetTokens \in Nat /\ SystemSize \in Nat /\ DumpSize \in Nat /\ FileSize \in Nat
    /\ Reds \subseteq Nat /\ TaskSizes \subseteq Nat /\ CharsPerToken \subseteq 3 .. 10
  BY WorkingMemoryAssumption

LEMMA PercentsOfNumbers ==
    ASSUME NEW n \in Nat
    PROVE  /\ Percent(80, n) \in Nat /\ Percent(45, n) \in Nat /\ Percent(30, n) \in Nat
           /\ Percent(70, n) \in Nat /\ Percent(70, n) <= n
           /\ Percent(60, n) \in Nat
  BY DEF Percent

LEMMA PercentOfADifference == \A n \in Int : Percent(60, n) \in Int
  BY DEF Percent

\* Every number has an integer square root.
LEMMA RootExists ==
    ASSUME NEW w \in Nat, NEW d \in Nat
    PROVE  \E s \in 0 .. (w + d) : s * s <= w * d /\ (s + 1) * (s + 1) > w * d
  <1> DEFINE S == {s \in 0 .. (w + d) : s * s <= w * d}
  <1>0. w * d \in Nat
    OBVIOUS
  <1>1. 0 \in S
    BY <1>0
  <1>2. S \subseteq Int /\ w + d \in Int /\ \A s \in S : s <= w + d
    OBVIOUS
  <1> HIDE DEF S
  <1>3. S # {}
    BY <1>1
  <1>4. \E s \in S : \A t \in S : t <= s
    BY <1>2, <1>3, GreatestExists, Zenon
  <1>5. PICK s \in S : \A t \in S : t <= s
    BY <1>4
  <1>6. s \in 0 .. (w + d) /\ s * s <= w * d
    BY <1>5 DEF S
  <1>7. (s + 1) * (s + 1) > w * d
    <2>1. CASE s = w + d
      <3>1. (s + 1) * (s + 1) = (w * w) + (w * d) + (w * d) + (d * d) + 2 * w + 2 * d + 1
        BY <2>1
      <3>2. w * w \in Nat /\ d * d \in Nat
        OBVIOUS
      <3> QED BY <1>0, <3>1, <3>2
    <2>2. CASE s # w + d
      <3>1. s + 1 \in 0 .. (w + d) /\ s + 1 \notin S
        BY <1>2, <1>5, <1>6, <2>2
      <3>2. (s + 1) * (s + 1) \in Nat
        BY <1>6
      <3> QED BY <1>0, <3>1, <3>2 DEF S
    <2> QED BY <2>1, <2>2
  <1> QED BY <1>6, <1>7

LEMMA WorkingSetIsANumber ==
    ASSUME NEW w \in Nat
    PROVE  WorkingSetFor(w) \in Nat
  <1>1. \E s \in 0 .. (w + DefaultWorkingSet) :
           s * s <= w * DefaultWorkingSet /\ (s + 1) * (s + 1) > w * DefaultWorkingSet
    BY SizesAreNumbers, RootExists
  <1>2. (CHOOSE s \in 0 .. (w + DefaultWorkingSet) :
            /\ s * s <= w * DefaultWorkingSet
            /\ (s + 1) * (s + 1) > w * DefaultWorkingSet) \in 0 .. (w + DefaultWorkingSet)
    BY <1>1, Zenon
  <1> QED BY <1>2, SizesAreNumbers DEF WorkingSetFor

\* The window, what of it the system prompt takes, and what the history may take
\* before it is folded.
LEMMA WindowIsANumber ==
    /\ Win \in Nat /\ MapBudget \in Nat /\ HotBudget(Win) \in Nat
    /\ Trigger(Win) \in Nat /\ Trigger(Win) <= Win
  <1>1. Win \in Nat
    BY SizesAreNumbers, PercentsOfNumbers DEF Win, Usable
  <1>2. \A w \in Nat : Trigger(w) \in Nat /\ Trigger(w) <= w
    BY PercentsOfNumbers, WorkingSetIsANumber DEF Trigger, CapWorkingSet, Least
  <1>3. CuratorBudget \in Nat
    <2>1. Usable(ContextTokens) \in Nat
      BY <1>1 DEF Win
    <2> QED BY <2>1, SizesAreNumbers DEF CuratorBudget, Least
  <1>4. MapBudget \in Nat
    <2>1. Trigger(Usable(ContextTokens)) \in Nat
      BY <1>1, <1>2 DEF Win
    <2>2. Percent(30, Trigger(Usable(ContextTokens))) \in Nat
      BY <2>1, PercentsOfNumbers
    <2>3. Percent(30, Percent(70, CuratorBudget)) \in Nat
      BY <1>3, PercentsOfNumbers
    <2> QED BY <2>2, <2>3 DEF MapBudget, Least
  <1>5. HotBudget(Win) \in Nat
    <2>1. Percent(70, Usable(Win)) \in Nat /\ WorkingSetFor(Win) \in Nat
      BY <1>1, PercentsOfNumbers, WorkingSetIsANumber DEF Usable
    <2>2. CapWorkingSet(Percent(70, Usable(Win)), Win) \in Nat
      BY <2>1 DEF CapWorkingSet, Least
    <2> QED BY <2>2, PercentsOfNumbers DEF HotBudget
  <1> QED BY <1>1, <1>2, <1>4, <1>5

\* A text has a count at every ratio, at which nothing has none.
LEMMA EstimatesAreNumbers ==
    ASSUME NEW r \in 3 .. 10, NEW n \in Nat
    PROVE  EstimateAt(r, n) \in Nat /\ (n = 0 => EstimateAt(r, n) = 0)
  <1>1. CASE n = 0
    BY <1>1 DEF EstimateAt
  <1>2. CASE n # 0
    <2>1. r \in {3, 4, 5, 6, 7, 8, 9, 10}
      OBVIOUS
    <2>2. (8 * n) \div r \in Nat
      BY <2>1
    <2> QED BY <1>2, <2>2 DEF EstimateAt
  <1> QED BY <1>1, <1>2

\* Where the ratio is below the fixed one a text counts for more than its size, where
\* it is not for no more.
LEMMA EstimateIsBetween ==
    ASSUME NEW r \in 3 .. 10, NEW n \in Nat
    PROVE  r >= 8 => EstimateAt(r, n) <= n
  <1>1. CASE n = 0
    BY <1>1 DEF EstimateAt
  <1>2. CASE n # 0
    <2>1. ASSUME r >= 8 PROVE EstimateAt(r, n) <= n
      <3>1. r \in {8, 9, 10}
        BY <2>1
      <3>2. (8 * n) \div r <= n
        BY <3>1
      <3> QED BY <1>2, <3>2 DEF EstimateAt
    <2> QED BY <2>1
  <1> QED BY <1>1, <1>2

\* At a low ratio a text counts for what its first part is in size and the rest counts for.
LEMMA EstimateGrows ==
    ASSUME NEW r \in 3 .. 7, NEW a \in Nat, NEW x \in Nat, NEW w \in Nat, a + x <= w
    PROVE  a + EstimateAt(r, x) <= EstimateAt(r, w)
  <1>1. r \in {3, 4, 5, 6, 7}
    OBVIOUS
  <1>2. CASE w = 0
    <2>1. a = 0 /\ x = 0
      BY <1>2
    <2> QED BY <1>2, <2>1 DEF EstimateAt
  <1>3. CASE w # 0
    <2>1. EstimateAt(r, w) = (8 * w) \div r
      BY <1>3 DEF EstimateAt
    <2>2. EstimateAt(r, x) = (8 * x) \div r
      <3>1. CASE x = 0
        <4>1. (8 * x) \div r = 0
          BY <1>1, <3>1
        <4> QED BY <3>1, <4>1 DEF EstimateAt
      <3>2. CASE x # 0
        BY <3>2 DEF EstimateAt
      <3> QED BY <3>1, <3>2
    <2>3. a + ((8 * x) \div r) <= (8 * w) \div r
      <3>1. CASE r = 3
        BY <3>1
      <3>2. CASE r = 4
        BY <3>2
      <3>3. CASE r = 5
        BY <3>3
      <3>4. CASE r = 6
        BY <3>4
      <3>5. CASE r = 7
        BY <3>5
      <3> QED BY <1>1, <3>1, <3>2, <3>3, <3>4, <3>5
    <2> QED BY <2>1, <2>2, <2>3
  <1> QED BY <1>2, <1>3

\* What a text cut to the room that is left counts for is below the ceiling.
LEMMA CutTextFits ==
    ASSUME NEW r \in 3 .. 10, NEW a \in Nat, NEW x \in Nat, a + x <= Win
    PROVE  a + EstimateAt(r, x) <= HardCeiling(r)
  <1>1. Win \in Nat
    BY WindowIsANumber
  <1>2. CASE r < 8
    <2>1. r \in 3 .. 7
      BY <1>2
    <2>2. HardCeiling(r) = EstimateAt(r, Win)
      BY <1>2 DEF HardCeiling, Fixed
    <2> QED BY <1>1, <2>1, <2>2, EstimateGrows
  <1>3. CASE ~ (r < 8)
    <2>1. HardCeiling(r) = Win
      BY <1>3 DEF HardCeiling, Fixed
    <2>2. r >= 8
      BY <1>3
    <2>3. EstimateAt(r, x) \in Nat
      BY EstimatesAreNumbers
    <2>4. EstimateAt(r, x) <= x
      BY <2>2, EstimateIsBetween
    <2> QED BY <1>1, <2>1, <2>3, <2>4
  <1> QED BY <1>2, <1>3

LEMMA CeilingIsAbove ==
    ASSUME NEW r \in 3 .. 10, NEW n \in Nat, n <= Win
    PROVE  n <= HardCeiling(r)
  <1>1. EstimateAt(r, 0) = 0
    BY DEF EstimateAt
  <1>2. n + 0 <= Win /\ 0 \in Nat
    OBVIOUS
  <1>3. n + EstimateAt(r, 0) <= HardCeiling(r)
    BY <1>2, CutTextFits
  <1> QED BY <1>1, <1>3

-----------------------------------------------------------------------------
(* Messages and entries *)

\* Messages have a size that is a number, and none have the size 0.
LEMMA SizesAdd ==
    ASSUME NEW msgs \in Seq(Messages)
    PROVE  SizeOf(msgs) \in Nat /\ (Len(msgs) = 0 => SizeOf(msgs) = 0)
  <1> DEFINE n == Len(msgs)
             step == [i \in 1 .. n |-> [v \in Nat |-> v + msgs[i].size]]
             sum == CHOOSE f : f = [i \in 0 .. n |-> IF i = 0 THEN 0 ELSE f[i - 1] + msgs[i].size]
  <1>1. n \in Nat /\ 0 \in Nat /\ 0 \in Int /\ n \in Int /\ \A i \in 1 .. n : msgs[i].size \in Nat
    <2>1. \A m \in Messages : m.size \in Nat
      BY DEF Messages
    <2>2. n \in Nat /\ \A i \in 1 .. n : msgs[i] \in Messages
      OBVIOUS
    <2> QED BY <2>1, <2>2
  <1>2. SizeOf(msgs) = sum[n]
    BY DEF SizeOf
  <1>3. \A i \in 1 .. n : step[i] \in [Nat -> Nat]
    BY <1>1
  <1>4. \A i \in 1 .. n, v \in Nat : step[i][v] = v + msgs[i].size
    OBVIOUS
  <1> HIDE DEF step
  <1>5. \E f \in [0 .. n -> Nat] : Runs(f, 0, step, n)
    BY <1>1, <1>3, RunningValues, Zenon
  <1>6. PICK f \in [0 .. n -> Nat] : Runs(f, 0, step, n)
    BY <1>5
  <1>7. f = [i \in 0 .. n |-> IF i = 0 THEN 0 ELSE f[i - 1] + msgs[i].size]
    <2>1. ASSUME NEW i \in 0 .. n
          PROVE  (IF i = 0 THEN 0 ELSE step[i][f[i - 1]])
                   = (IF i = 0 THEN 0 ELSE f[i - 1] + msgs[i].size)
      <3>1. CASE i = 0
        BY <3>1
      <3>2. CASE i # 0
        <4>1. i \in 1 .. n /\ f[i - 1] \in Nat
          BY <1>1, <3>2
        <4> QED BY <1>4, <3>2, <4>1
      <3> QED BY <3>1, <3>2
    <2> QED BY <1>6, <2>1 DEF Runs
  <1>8. sum = [i \in 0 .. n |-> IF i = 0 THEN 0 ELSE sum[i - 1] + msgs[i].size]
    BY <1>7
  <1> HIDE DEF sum
  <1> DEFINE S == {i \in 0 .. n : sum[i] \in Nat}
  <1>9. sum[0] = 0 /\ 0 \in S
    BY <1>1, <1>8
  <1>10. ASSUME NEW i \in 0 .. (n - 1), i \in S PROVE i + 1 \in S
    <2>1. i + 1 \in 1 .. n /\ sum[i + 1] = sum[i] + msgs[i + 1].size
      BY <1>1, <1>8
    <2> QED BY <1>1, <1>10, <2>1
  <1> HIDE DEF S
  <1>11. 0 .. n \subseteq S
    BY <1>1, <1>9, <1>10, IntervalInduction
  <1>12. sum[n] \in Nat
    BY <1>1, <1>11 DEF S
  <1> QED BY <1>2, <1>9, <1>12

\* What messages count for at the ratio of the moment.
LEMMA TokensAdd ==
    ASSUME ratio \in 3 .. 10, NEW msgs \in Seq(Messages)
    PROVE  TokensIn(msgs) \in Nat /\ (Len(msgs) = 0 => TokensIn(msgs) = 0)
  <1> DEFINE counted == [i \in DOMAIN msgs |-> [msgs[i] EXCEPT !.size = Estimate(@)]]
  <1>1. DOMAIN msgs = 1 .. Len(msgs) /\ Len(msgs) \in Nat
    OBVIOUS
  <1>2. ASSUME NEW i \in DOMAIN msgs PROVE [msgs[i] EXCEPT !.size = Estimate(@)] \in Messages
    <2>1. msgs[i] \in Messages
      BY <1>1
    <2>2. msgs[i].size \in Nat
      BY <2>1 DEF Messages
    <2>3. Estimate(msgs[i].size) \in Nat
      BY <2>2, EstimatesAreNumbers DEF Estimate
    <2> QED BY <2>1, <2>3 DEF Messages
  <1>3. counted \in Seq(Messages) /\ Len(counted) = Len(msgs)
    BY <1>1, <1>2
  <1>4. TokensIn(msgs) = SizeOf(counted)
    BY DEF TokensIn
  <1> HIDE DEF counted
  <1> QED BY <1>3, <1>4, SizesAdd

\* Sequences put together are a sequence.
LEMMA Flattened ==
    ASSUME NEW T, NEW seqs \in Seq(Seq(T))
    PROVE  FlattenSeq(seqs) \in Seq(T)
  <1> DEFINE n == Len(seqs)
             flat == CHOOSE f : f = [i \in 1 .. n |-> IF i = 1 THEN seqs[i] ELSE f[i - 1] \o seqs[i]]
             step == [i \in 1 .. (n - 1) |-> [v \in Seq(T) |-> v \o seqs[i + 1]]]
  <1>1. CASE n = 0
    BY <1>1 DEF FlattenSeq
  <1>2. CASE n # 0
    <2>1. n \in Nat \ {0} /\ n - 1 \in Nat /\ \A i \in 1 .. n : seqs[i] \in Seq(T)
      BY <1>2
    <2>2. FlattenSeq(seqs) = flat[n] /\ seqs[1] \in Seq(T)
      BY <1>2, <2>1 DEF FlattenSeq
    <2>3. \A i \in 1 .. (n - 1) : step[i] \in [Seq(T) -> Seq(T)]
      <3> SUFFICES ASSUME NEW i \in 1 .. (n - 1) PROVE step[i] \in [Seq(T) -> Seq(T)]
        OBVIOUS
      <3>1. seqs[i + 1] \in Seq(T)
        BY <2>1
      <3>2. \A v \in Seq(T) : v \o seqs[i + 1] \in Seq(T)
        BY <3>1
      <3> QED BY <3>2
    <2>4. \A i \in 1 .. (n - 1), v \in Seq(T) : step[i][v] = v \o seqs[i + 1]
      OBVIOUS
    <2> HIDE DEF step
    <2>5. \E g \in [0 .. (n - 1) -> Seq(T)] : Runs(g, seqs[1], step, n - 1)
      BY <2>1, <2>2, <2>3, RunningValues, Zenon
    <2>6. PICK g \in [0 .. (n - 1) -> Seq(T)] : Runs(g, seqs[1], step, n - 1)
      BY <2>5
    <2> DEFINE h == [i \in 1 .. n |-> g[i - 1]]
    <2>7. ASSUME NEW i \in 1 .. n
          PROVE  h[i] = IF i = 1 THEN seqs[i] ELSE h[i - 1] \o seqs[i]
      <3>1. g = [j \in 0 .. (n - 1) |-> IF j = 0 THEN seqs[1] ELSE step[j][g[j - 1]]]
        BY <2>6 DEF Runs
      <3>2. CASE i = 1
        BY <2>1, <3>1, <3>2
      <3>3. CASE i # 1
        <4>0. i - 1 \in 1 .. (n - 1) /\ (i - 1) - 1 \in 0 .. (n - 1) /\ i - 1 \in 0 .. (n - 1)
              /\ (i - 1) + 1 = i /\ i - 1 # 0 /\ i - 1 \in 1 .. n
          BY <2>1, <3>3
        <4>1. i - 1 \in 1 .. (n - 1) /\ g[(i - 1) - 1] \in Seq(T) /\ (i - 1) + 1 = i
          BY <4>0
        <4>2. g[i - 1] = step[i - 1][g[(i - 1) - 1]]
          BY <3>1, <4>0
        <4>3. step[i - 1][g[(i - 1) - 1]] = g[(i - 1) - 1] \o seqs[(i - 1) + 1]
          BY <2>4, <4>1
        <4>4. h[i - 1] = g[(i - 1) - 1] /\ h[i] = g[i - 1]
          BY <4>0
        <4>5. seqs[(i - 1) + 1] = seqs[i]
          BY <4>1
        <4> QED BY <3>3, <4>2, <4>3, <4>4, <4>5
      <3> QED BY <3>2, <3>3
    <2>8. h = [i \in 1 .. n |-> IF i = 1 THEN seqs[i] ELSE h[i - 1] \o seqs[i]]
      BY <2>7
    <2> HIDE DEF h
    <2>9. flat = [i \in 1 .. n |-> IF i = 1 THEN seqs[i] ELSE flat[i - 1] \o seqs[i]]
      BY <2>8
    <2> HIDE DEF flat
    <2> DEFINE S == {i \in 1 .. n : flat[i] \in Seq(T)}
    <2>10. 1 \in S /\ 1 \in Int /\ n \in Int
      BY <2>1, <2>2, <2>9
    <2>11. ASSUME NEW i \in 1 .. (n - 1), i \in S PROVE i + 1 \in S
      <3>0. i + 1 \in 1 .. n /\ i + 1 # 1 /\ (i + 1) - 1 = i
        BY <2>1
      <3>1. seqs[i + 1] \in Seq(T) /\ flat[i + 1] = flat[i] \o seqs[i + 1]
        BY <2>1, <2>9, <3>0
      <3>2. flat[i] \in Seq(T)
        BY <2>11
      <3>3. flat[i] \o seqs[i + 1] \in Seq(T)
        BY <3>1, <3>2
      <3> QED BY <3>0, <3>1, <3>3
    <2> HIDE DEF S
    <2>12. 1 .. n \subseteq S
      BY <2>10, <2>11, IntervalInduction
    <2>13. n \in S
      BY <2>1, <2>12
    <2> QED BY <2>2, <2>13 DEF S
  <1> QED BY <1>1, <1>2

\* What folding takes from messages is a sequence of entries.
LEMMA SummaryIsTyped ==
    ASSUME NEW cold \in Seq(Messages)
    PROVE  Summarized(cold) \in Seq(Entries)
  <1> DEFINE parts == [i \in DOMAIN cold |-> EntryOf(cold[i])]
  <1>1. ASSUME NEW m PROVE EntryOf(m) \in Seq(Entries)
    <2>1. <<>> \in Seq(Entries) /\ \A e \in Entries : <<e>> \in Seq(Entries)
      OBVIOUS
    <2>2. {"stub", "edit", "failure", "other"} \subseteq Entries
      BY DEF Entries
    <2>3. EntryOf(m) \in {<<>>, <<"stub">>, <<"other">>} \/ (m.kind \in {"edit", "failure"} /\ EntryOf(m) = <<m.kind>>)
      BY DEF EntryOf
    <2> QED BY <2>1, <2>2, <2>3
  <1>2. parts \in Seq(Seq(Entries))
    <2>1. DOMAIN cold = 1 .. Len(cold) /\ Len(cold) \in Nat
      OBVIOUS
    <2>2. \A i \in DOMAIN cold : parts[i] \in Seq(Entries)
      BY <1>1
    <2> QED BY <2>1, <2>2
  <1>3. FlattenSeq(parts) \in Seq(Entries)
    BY <1>2, Flattened
  <1> QED BY <1>3 DEF Summarized

\* The edits of a summary, which are counted, and a summary of the record alone.
EditsIn(es) == {i \in DOMAIN es : es[i] = "edit"}
Edits(m) == Cardinality(EditsIn(m.entries))
AllOfRecord(m) == \A i \in DOMAIN m.entries : Durable(m.entries[i])
KeepsEdits(m, new) == AllOfRecord(new) \/ Edits(new) >= Edits(m)

LEMMA EditsAreCounted ==
    ASSUME NEW es \in Seq(Entries)
    PROVE  IsFiniteSet(EditsIn(es)) /\ Cardinality(EditsIn(es)) \in Nat
  <1>1. Len(es) \in Int /\ 1 \in Int /\ DOMAIN es = 1 .. Len(es)
    OBVIOUS
  <1>2. IsFiniteSet(1 .. Len(es)) /\ EditsIn(es) \in SUBSET (1 .. Len(es))
    BY <1>1, FS_Interval DEF EditsIn
  <1>3. IsFiniteSet(EditsIn(es))
    BY <1>2, FS_Subset, Zenon
  <1> QED BY <1>3, FS_CardinalityType

\* One summary has no fewer edits than another whose edits are all found in it.
LEMMA NoFewerEdits ==
    ASSUME NEW es \in Seq(Entries), NEW more \in Seq(Entries),
           NEW f \in [EditsIn(es) -> EditsIn(more)],
           \A i, j \in EditsIn(es) : f[i] = f[j] => i = j
    PROVE  Cardinality(EditsIn(more)) >= Cardinality(EditsIn(es))
  <1>1. f \in Injection(EditsIn(es), EditsIn(more))
    BY DEF Injection, IsInjective
  <1>2. IsFiniteSet(EditsIn(more))
    BY EditsAreCounted
  <1>3. Cardinality(EditsIn(es)) <= Cardinality(EditsIn(more))
    BY <1>1, <1>2, FS_Injection, Zenon
  <1>4. Cardinality(EditsIn(es)) \in Nat /\ Cardinality(EditsIn(more)) \in Nat
    BY EditsAreCounted
  <1> QED BY <1>3, <1>4

\* What is put before or after a summary takes no edit from it.
LEMMA AddingKeepsEdits ==
    ASSUME NEW es \in Seq(Entries), NEW more \in Seq(Entries)
    PROVE  /\ Cardinality(EditsIn(es \o more)) >= Cardinality(EditsIn(es))
           /\ Cardinality(EditsIn(more \o es)) >= Cardinality(EditsIn(es))
  <1>1. /\ DOMAIN es = 1 .. Len(es) /\ DOMAIN more = 1 .. Len(more)
        /\ Len(es) \in Nat /\ Len(more) \in Nat
    OBVIOUS
  <1>2. Cardinality(EditsIn(es \o more)) >= Cardinality(EditsIn(es))
    <2> DEFINE f == [i \in EditsIn(es) |-> i]
    <2>1. es \o more \in Seq(Entries)
      OBVIOUS
    <2>2. \A i \in EditsIn(es) : i \in EditsIn(es \o more)
      BY <1>1 DEF EditsIn
    <2>3. /\ f \in [EditsIn(es) -> EditsIn(es \o more)]
          /\ \A i, j \in EditsIn(es) : f[i] = f[j] => i = j
      BY <2>2
    <2> HIDE DEF f
    <2> QED BY <2>1, <2>3, NoFewerEdits
  <1>3. Cardinality(EditsIn(more \o es)) >= Cardinality(EditsIn(es))
    <2> DEFINE f == [i \in EditsIn(es) |-> i + Len(more)]
    <2>1. more \o es \in Seq(Entries)
      OBVIOUS
    <2>2. \A i \in EditsIn(es) : i + Len(more) \in EditsIn(more \o es)
      BY <1>1 DEF EditsIn
    <2>3. \A i \in EditsIn(es) : i \in Nat
      BY <1>1 DEF EditsIn
    <2>4. f \in [EditsIn(es) -> EditsIn(more \o es)]
      BY <2>2
    <2>5. \A i, j \in EditsIn(es) : f[i] = f[j] => i = j
      BY <1>1, <2>3
    <2> HIDE DEF f
    <2> QED BY <2>1, <2>4, <2>5, NoFewerEdits
  <1> QED BY <1>2, <1>3

LEMMA Joined ==
    ASSUME NEW T, NEW a \in Seq(T), NEW b \in Seq(T)
    PROVE  /\ a \o b \in Seq(T) /\ Len(a \o b) = Len(a) + Len(b)
           /\ \A j \in 1 .. Len(a) : (a \o b)[j] = a[j]
           /\ \A j \in 1 .. Len(b) : (a \o b)[j + Len(a)] = b[j]
  <1>1. a \o b \in Seq(T) /\ Len(a \o b) = Len(a) + Len(b)
    OBVIOUS
  <1>2. \A j \in 1 .. Len(a) : (a \o b)[j] = a[j]
    OBVIOUS
  <1>3. \A j \in 1 .. Len(b) : (a \o b)[j + Len(a)] = b[j]
    OBVIOUS
  <1> QED BY <1>1, <1>2, <1>3

\* An entry that is no edit can go without an edit being lost.
LEMMA RemovedFrom ==
    ASSUME NEW es \in Seq(Entries), NEW i \in 1 .. Len(es)
    PROVE  /\ RemoveAt(es, i) \in Seq(Entries)
           /\ Len(RemoveAt(es, i)) = Len(es) - 1
           /\ \A j \in 1 .. (Len(es) - 1) : RemoveAt(es, i)[j] = es[IF j < i THEN j ELSE j + 1]
  <1> DEFINE a == SubSeq(es, 1, i - 1)
             b == SubSeq(es, i + 1, Len(es))
  <1>1. Len(es) \in Nat
    OBVIOUS
  <1>2. a \in Seq(Entries) /\ Len(a) = i - 1 /\ \A j \in 1 .. (i - 1) : a[j] = es[j]
    BY <1>1
  <1>3. b \in Seq(Entries) /\ Len(b) = Len(es) - i /\ \A j \in 1 .. (Len(es) - i) : b[j] = es[j + i]
    BY <1>1
  <1>4. RemoveAt(es, i) = a \o b
    BY DEF RemoveAt
  <1> HIDE DEF a, b
  <1>5. a \o b \in Seq(Entries) /\ Len(a \o b) = Len(es) - 1
    <2>1. a \o b \in Seq(Entries) /\ Len(a \o b) = Len(a) + Len(b)
      BY <1>2, <1>3, Joined
    <2> QED BY <1>1, <1>2, <1>3, <2>1
  <1>6. ASSUME NEW j \in 1 .. (Len(es) - 1)
        PROVE  (a \o b)[j] = es[IF j < i THEN j ELSE j + 1]
    <2>1. CASE j < i
      BY <1>1, <1>2, <1>3, <2>1
    <2>2. CASE ~ (j < i)
      <3>1. (a \o b)[j] = b[j - Len(a)]
        BY <1>1, <1>2, <1>3, <2>2
      <3>2. j - (i - 1) \in 1 .. (Len(es) - i) /\ (j - (i - 1)) + i = j + 1
        BY <1>1, <2>2
      <3> QED BY <1>2, <1>3, <2>2, <3>1, <3>2
    <2> QED BY <2>1, <2>2
  <1> QED BY <1>4, <1>5, <1>6

LEMMA RemovingKeepsEdits ==
    ASSUME NEW es \in Seq(Entries), NEW i \in 1 .. Len(es), es[i] # "edit"
    PROVE  Cardinality(EditsIn(RemoveAt(es, i))) >= Cardinality(EditsIn(es))
  <1> DEFINE new == RemoveAt(es, i)
             f == [j \in EditsIn(es) |-> IF j < i THEN j ELSE j - 1]
  <1>1. /\ new \in Seq(Entries) /\ Len(new) = Len(es) - 1
        /\ \A j \in 1 .. (Len(es) - 1) : new[j] = es[IF j < i THEN j ELSE j + 1]
    BY RemovedFrom
  <1> HIDE DEF new
  <1>2. DOMAIN new = 1 .. (Len(es) - 1) /\ DOMAIN es = 1 .. Len(es) /\ Len(es) \in Nat
    BY <1>1
  <1>3. \A j \in EditsIn(es) : j \in 1 .. Len(es) /\ j # i /\ es[j] = "edit"
    BY <1>2 DEF EditsIn
  <1>4. ASSUME NEW j \in EditsIn(es) PROVE (IF j < i THEN j ELSE j - 1) \in EditsIn(new)
    <2>1. CASE j < i
      <3>1. j \in 1 .. (Len(es) - 1)
        BY <1>2, <1>3, <2>1
      <3>2. new[j] = es[j]
        BY <1>1, <2>1, <3>1
      <3> QED BY <1>2, <1>3, <2>1, <3>1, <3>2 DEF EditsIn
    <2>2. CASE ~ (j < i)
      <3>1. j - 1 \in 1 .. (Len(es) - 1) /\ ~ (j - 1 < i) /\ (j - 1) + 1 = j
        BY <1>2, <1>3, <2>2
      <3>2. new[j - 1] = es[(j - 1) + 1]
        BY <1>1, <3>1
      <3>3. new[j - 1] = "edit"
        BY <1>3, <3>1, <3>2
      <3> QED BY <1>2, <2>2, <3>1, <3>3 DEF EditsIn
    <2> QED BY <2>1, <2>2
  <1>5. f \in [EditsIn(es) -> EditsIn(new)]
    BY <1>4
  <1>6. \A j, k \in EditsIn(es) : f[j] = f[k] => j = k
    <2> SUFFICES ASSUME NEW j \in EditsIn(es), NEW k \in EditsIn(es),
                        (IF j < i THEN j ELSE j - 1) = (IF k < i THEN k ELSE k - 1)
                 PROVE  j = k
      OBVIOUS
    <2>1. j \in Nat /\ k \in Nat /\ i \in Nat /\ j # i /\ k # i
      BY <1>3
    <2> QED BY <2>1
  <1> HIDE DEF f
  <1>7. Cardinality(EditsIn(new)) >= Cardinality(EditsIn(es))
    BY <1>1, <1>5, <1>6, NoFewerEdits
  <1> QED BY <1>7 DEF new

-----------------------------------------------------------------------------
(* Folding and collapsing *)

\* The first to leave is of the record only when nothing else is left.
LEMMA FirstLeaves ==
    ASSUME NEW es \in Seq(Entries), Len(es) # 0
    PROVE  /\ FirstDroppable(es) \in 1 .. Len(es)
           /\ Durable(es[FirstDroppable(es)]) => \A i \in DOMAIN es : Durable(es[i])
  <1> DEFINE incidental == {i \in DOMAIN es : ~Durable(es[i])}
  <1>1. Len(es) \in Nat /\ DOMAIN es = 1 .. Len(es)
    OBVIOUS
  <1>2. incidental \subseteq Nat /\ incidental \subseteq 1 .. Len(es)
        /\ \A i \in DOMAIN es : i \in incidental \/ Durable(es[i])
    BY <1>1
  <1>3. FirstDroppable(es) = IF incidental = {} THEN 1 ELSE Min(incidental)
    BY DEF FirstDroppable
  <1>4. \A i \in incidental : ~Durable(es[i])
    OBVIOUS
  <1> HIDE DEF incidental
  <1>5. CASE incidental = {}
    BY <1>1, <1>2, <1>3, <1>5
  <1>6. CASE incidental # {}
    <2>1. Min(incidental) \in incidental
      BY <1>2, <1>6, LeastIn
    <2> QED BY <1>2, <1>3, <1>4, <1>6, <2>1
  <1> QED BY <1>5, <1>6

LEMMA NothingToRemove ==
    ASSUME NEW es \in Seq(Entries), Len(es) = 0
    PROVE  RemoveAt(es, FirstDroppable(es)) = <<>>
  <1>1. es = <<>> /\ DOMAIN es = {}
    OBVIOUS
  <1>2. FirstDroppable(es) = 1
    BY <1>1 DEF FirstDroppable
  <1>3. SubSeq(es, 1, 1 - 1) = <<>> /\ SubSeq(es, 1 + 1, Len(es)) = <<>>
    BY <1>1
  <1>4. RemoveAt(es, 1) = <<>> \o <<>>
    BY <1>3 DEF RemoveAt
  <1> QED BY <1>2, <1>4

\* What one step of a collapse does.
LEMMA OneLeaves ==
    ASSUME NEW m \in Memories
    PROVE  /\ Leaving(m) \in Memories
           /\ Leaving(m).folded = m.folded /\ Leaving(m).compactions = m.compactions
           /\ Leaving(m).distilled = m.distilled /\ Leaving(m).briefs = m.briefs
           /\ Leaving(m).dropped \in {m.dropped, m.dropped + 1}
           /\ Len(m.entries) # 0 =>
                 /\ Len(Leaving(m).entries) = Len(m.entries) - 1
                 /\ AllOfRecord(m) => AllOfRecord(Leaving(m))
                 /\ KeepsEdits(m, Leaving(m))
  <1> DEFINE es == m.entries
             i == FirstDroppable(es)
             more == IF Distillable(es[i]) THEN 0 ELSE 1
             new == RemoveAt(es, i)
  <1>1. es \in Seq(Entries) /\ m.dropped \in Nat /\ Len(es) \in Nat
    BY DEF Memories
  <1>2. Leaving(m) = [m EXCEPT !.entries = new, !.dropped = @ + more]
    BY DEF Leaving
  <1>3. more \in {0, 1}
    OBVIOUS
  <1>4. new \in Seq(Entries)
    <2>1. CASE Len(es) = 0
      <3>1. new = <<>>
        BY <1>1, <2>1, NothingToRemove
      <3> QED BY <3>1
    <2>2. CASE Len(es) # 0
      BY <1>1, <2>2, FirstLeaves, RemovedFrom
    <2> QED BY <2>1, <2>2
  <1> HIDE DEF more, new, i
  <1>5. /\ Leaving(m) \in Memories
        /\ Leaving(m).folded = m.folded /\ Leaving(m).compactions = m.compactions
        /\ Leaving(m).distilled = m.distilled /\ Leaving(m).briefs = m.briefs
        /\ Leaving(m).dropped = m.dropped + more /\ Leaving(m).entries = new
    <2>1. m.dropped + more \in Nat
      BY <1>1, <1>3
    <2> QED BY <1>2, <1>4, <2>1 DEF Memories
  <1>6. Leaving(m).dropped \in {m.dropped, m.dropped + 1}
    BY <1>1, <1>3, <1>5
  <1>7. ASSUME Len(es) # 0
        PROVE  /\ Len(new) = Len(es) - 1
               /\ AllOfRecord(m) => AllOfRecord(Leaving(m))
               /\ KeepsEdits(m, Leaving(m))
    <2>1. i \in 1 .. Len(es) /\ (Durable(es[i]) => \A j \in DOMAIN es : Durable(es[j]))
      BY <1>1, <1>7, FirstLeaves DEF i
    <2>2. /\ Len(new) = Len(es) - 1
          /\ \A j \in 1 .. (Len(es) - 1) : new[j] = es[IF j < i THEN j ELSE j + 1]
      BY <1>1, <2>1, RemovedFrom DEF new
    <2>3. AllOfRecord(m) => AllOfRecord(Leaving(m))
      <3> SUFFICES ASSUME AllOfRecord(m), NEW j \in DOMAIN new PROVE Durable(new[j])
        BY <1>5 DEF AllOfRecord
      <3>1. j \in 1 .. (Len(es) - 1)
        BY <1>4, <2>2
      <3>2. (IF j < i THEN j ELSE j + 1) \in DOMAIN es
        BY <1>1, <2>1, <3>1
      <3> QED BY <2>2, <3>1, <3>2 DEF AllOfRecord
    <2>4. CASE Durable(es[i])
      <3>1. AllOfRecord(m)
        BY <2>1, <2>4 DEF AllOfRecord
      <3> QED BY <2>2, <2>3, <3>1 DEF KeepsEdits
    <2>5. CASE ~Durable(es[i])
      <3>1. es[i] # "edit"
        BY <2>5 DEF Durable
      <3>2. Cardinality(EditsIn(new)) >= Cardinality(EditsIn(es))
        BY <1>1, <2>1, <3>1, RemovingKeepsEdits DEF new
      <3> QED BY <1>5, <2>2, <2>3, <3>2 DEF KeepsEdits, Edits
    <2> QED BY <2>4, <2>5
  <1> QED BY <1>5, <1>6, <1>7

\* And what k of them do.
Shed1(m, k, new) ==
    /\ new \in Memories /\ new.folded = m.folded /\ new.compactions = m.compactions
    /\ new.distilled = m.distilled /\ new.briefs = m.briefs
    /\ new.dropped \in m.dropped .. (m.dropped + k)
    /\ Len(new.entries) = Len(m.entries) - k
    /\ KeepsEdits(m, new)

LEMMA SheddingIs ==
    ASSUME NEW m \in Memories, NEW k \in 0 .. Len(m.entries)
    PROVE  Shed1(m, k, Shedding(m, k)) /\ (k = 0 => Shedding(m, k) = m)
  <1> DEFINE n == Len(m.entries)
             step == [i \in 1 .. n |-> [v \in Memories |-> Leaving(v)]]
             less == CHOOSE f : f = [i \in 0 .. n |-> IF i = 0 THEN m ELSE Leaving(f[i - 1])]
  <1>1. n \in Nat /\ 0 \in Int /\ n \in Int /\ m.dropped \in Nat
    BY DEF Memories
  <1>2. Shedding(m, k) = less[k]
    BY DEF Shedding
  <1>3. \A i \in 1 .. n : step[i] \in [Memories -> Memories]
    BY OneLeaves
  <1>4. \A i \in 1 .. n, v \in Memories : step[i][v] = Leaving(v)
    OBVIOUS
  <1> HIDE DEF step, n
  <1>5. PICK f \in [0 .. n -> Memories] : Runs(f, m, step, n)
    BY <1>1, <1>3, RunningValues, Zenon
  <1>6. f = [i \in 0 .. n |-> IF i = 0 THEN m ELSE Leaving(f[i - 1])]
    <2>1. ASSUME NEW i \in 0 .. n
          PROVE  (IF i = 0 THEN m ELSE step[i][f[i - 1]]) = (IF i = 0 THEN m ELSE Leaving(f[i - 1]))
      <3>1. CASE i = 0
        BY <3>1
      <3>2. CASE i # 0
        <4>1. i \in 1 .. n /\ i - 1 \in 0 .. n
          BY <1>1, <3>2
        <4>2. f[i - 1] \in Memories
          BY <1>5, <4>1
        <4> QED BY <1>4, <3>2, <4>1, <4>2
      <3> QED BY <3>1, <3>2
    <2> QED BY <1>5, <2>1 DEF Runs
  <1>7. less = [i \in 0 .. n |-> IF i = 0 THEN m ELSE Leaving(less[i - 1])]
    BY <1>6
  <1> HIDE DEF less
  <1> DEFINE S == {i \in 0 .. n : Shed1(m, i, less[i])}
  <1>8. less[0] = m
    BY <1>1, <1>7
  <1>9. 0 \in S
    <2>1. Shed1(m, 0, m)
      <3>1. Edits(m) \in Nat
        BY EditsAreCounted DEF Edits, Memories
      <3> QED BY <1>1, <3>1 DEF Shed1, KeepsEdits, n
    <2> QED BY <1>1, <1>8, <2>1
  <1>10. ASSUME NEW i \in 0 .. (n - 1), i \in S PROVE i + 1 \in S
    <2>1. i + 1 \in 0 .. n /\ less[i + 1] = Leaving(less[i])
      BY <1>1, <1>7
    <2>2. Shed1(m, i, less[i])
      BY <1>10
    <2>3. Len(less[i].entries) = n - i /\ n - i # 0 /\ n - (i + 1) = (n - i) - 1
      BY <1>1, <2>2 DEF Shed1, n
    <2>4. /\ Leaving(less[i]) \in Memories
          /\ Leaving(less[i]).folded = m.folded /\ Leaving(less[i]).compactions = m.compactions
          /\ Leaving(less[i]).distilled = m.distilled /\ Leaving(less[i]).briefs = m.briefs
          /\ Leaving(less[i]).dropped \in {less[i].dropped, less[i].dropped + 1}
          /\ Len(Leaving(less[i]).entries) = (n - i) - 1
          /\ AllOfRecord(less[i]) => AllOfRecord(Leaving(less[i]))
          /\ KeepsEdits(less[i], Leaving(less[i]))
      BY <2>2, <2>3, OneLeaves DEF Shed1
    <2>5. Leaving(less[i]).dropped \in m.dropped .. (m.dropped + (i + 1))
      <3>1. less[i].dropped \in m.dropped .. (m.dropped + i)
        BY <2>2 DEF Shed1
      <3>2. Leaving(less[i]).dropped \in {less[i].dropped, less[i].dropped + 1}
        BY <2>4
      <3> QED BY <1>1, <3>1, <3>2
    <2>6. KeepsEdits(m, Leaving(less[i]))
      <3>1. Edits(m) \in Nat /\ Edits(less[i]) \in Nat /\ Edits(Leaving(less[i])) \in Nat
        BY <2>2, <2>4, EditsAreCounted DEF Edits, Memories, Shed1
      <3> QED BY <2>2, <2>4, <3>1 DEF Shed1, KeepsEdits
    <2>7. Shed1(m, i + 1, Leaving(less[i]))
      BY <2>3, <2>4, <2>5, <2>6 DEF Shed1, n
    <2> QED BY <2>1, <2>7
  <1> HIDE DEF S
  <1>11. 0 .. n \subseteq S
    BY <1>1, <1>9, <1>10, IntervalInduction, Zenon
  <1>12. Shed1(m, k, less[k])
    BY <1>11 DEF S, n
  <1> QED BY <1>2, <1>8, <1>12

\* What the entries of a memory are, with the prefix and the placeholder.
Units(m) == 1 + Len(m.entries) + (IF m.dropped = 0 THEN 0 ELSE 1)

LEMMA UnitsOf ==
    ASSUME NEW m \in Memories
    PROVE  /\ Len(m.entries) \in Nat /\ m.dropped \in Nat
           /\ m.dropped = 0 => Units(m) = Len(m.entries) + 1
           /\ m.dropped # 0 => Units(m) = Len(m.entries) + 2
           /\ Units(m) \in {Len(m.entries) + 1, Len(m.entries) + 2}
  <1>1. Len(m.entries) \in Nat /\ m.dropped \in Nat
    BY DEF Memories
  <1>2. m.dropped = 0 => Units(m) = Len(m.entries) + 1
    BY <1>1 DEF Units
  <1>3. m.dropped # 0 => Units(m) = Len(m.entries) + 2
    BY <1>1 DEF Units
  <1> QED BY <1>1, <1>2, <1>3

LEMMA TokensOf ==
    ASSUME NEW m \in Memories, NEW r
    PROVE  /\ SummaryEntries(m) \in Seq(Entries)
           /\ Len(m.entries) # 0 => SummaryTokens(r, SummaryEntries(m)) = EstimateAt(r, Units(m))
  <1>1. m.entries \in Seq(Entries) /\ Len(m.entries) \in Nat
    BY DEF Memories
  <1>2. <<"placeholder">> \in Seq(Entries) /\ Len(<<"placeholder">>) = 1
    BY DEF Entries
  <1>3. CASE m.dropped = 0
    <2>1. SummaryEntries(m) = <<>> \o m.entries
      BY <1>3 DEF SummaryEntries
    <2>2. SummaryEntries(m) = m.entries
      BY <1>1, <2>1
    <2>3. Len(m.entries) # 0 => m.entries # <<>>
      BY <1>1
    <2>4. Units(m) = 1 + Len(m.entries)
      BY <1>1, <1>3 DEF Units
    <2> QED BY <1>1, <2>2, <2>3, <2>4 DEF SummaryTokens
  <1>4. CASE m.dropped # 0
    <2>1. SummaryEntries(m) = <<"placeholder">> \o m.entries
      BY <1>4 DEF SummaryEntries
    <2>2. SummaryEntries(m) \in Seq(Entries) /\ Len(SummaryEntries(m)) = 1 + Len(m.entries)
      BY <1>1, <1>2, <2>1, Joined
    <2>3. SummaryEntries(m) # <<>>
      BY <1>1, <2>2
    <2>4. Units(m) = 1 + Len(SummaryEntries(m))
      BY <1>1, <1>4, <2>2 DEF Units
    <2> QED BY <2>2, <2>3, <2>4 DEF SummaryTokens
  <1> QED BY <1>3, <1>4

\* A summary that fits or cannot be made smaller, and so is left alone.
Settled(r, m, budget) ==
    Len(m.entries) <= 1 \/ SummaryTokens(r, SummaryEntries(m)) <= budget

\* How many entries a collapse sheds: the fewest that suffice.
Suffices(r, m, budget, k) ==
    \/ SummaryTokens(r, SummaryEntries(Shedding(m, k))) <= LowWater(budget)
    \/ k = Len(m.entries) - 1
Fewest(r, m, budget) ==
    CHOOSE n \in 0 .. (Len(m.entries) - 1) :
        Suffices(r, m, budget, n) /\ \A j \in 0 .. (n - 1) : ~Suffices(r, m, budget, j)
GoneToBrief(r, m, budget) ==
    Fewest(r, m, budget) - (Shedding(m, Fewest(r, m, budget)).dropped - m.dropped)
Dropping(rest, gone) == [rest EXCEPT !.dropped = @ + gone]
Briefed(rest, gone) ==
    [rest EXCEPT !.entries = <<"brief">> \o @, !.distilled = @ + gone, !.briefs = @ + 1]

LEMMA CollapsedIs ==
    ASSUME NEW r, NEW m, NEW budget,
           ~ (budget <= 0 \/ m.entries = <<>> \/ SummaryTokens(r, SummaryEntries(m)) <= budget)
    PROVE  Collapsed(r, m, budget) =
             LET rest == Shedding(m, Fewest(r, m, budget))
                 gone == GoneToBrief(r, m, budget)
             IN IF gone = 0 THEN {rest}
                ELSE {Dropping(rest, gone)} \cup (IF ~Distill THEN {} ELSE {Briefed(rest, gone)})
  BY DEF Collapsed, Fewest, Suffices, GoneToBrief, Dropping, Briefed

LEMMA FewestSuffices ==
    ASSUME NEW r, NEW m \in Memories, Len(m.entries) # 0, NEW budget
    PROVE  /\ Fewest(r, m, budget) \in 0 .. (Len(m.entries) - 1)
           /\ Suffices(r, m, budget, Fewest(r, m, budget))
  <1> DEFINE S == {n \in 0 .. (Len(m.entries) - 1) : Suffices(r, m, budget, n)}
             x == Min(S)
  <1>1. Len(m.entries) \in Nat \ {0}
    BY DEF Memories
  <1>2. S \subseteq Nat /\ Len(m.entries) - 1 \in S
    BY <1>1 DEF Suffices
  <1>3. x \in S /\ \A y \in S : x <= y
    <2> HIDE DEF S
    <2> QED BY <1>2, LeastIn
  <1>4. x \in 0 .. (Len(m.entries) - 1) /\ Suffices(r, m, budget, x)
    BY <1>3
  <1>5. ASSUME NEW j \in 0 .. (x - 1) PROVE ~Suffices(r, m, budget, j)
    <2>0. \A y \in 0 .. (Len(m.entries) - 1) : Suffices(r, m, budget, y) => x <= y
      BY <1>3
    <2> HIDE DEF x
    <2>1. j \in 0 .. (Len(m.entries) - 1) /\ ~ (x <= j)
      BY <1>1, <1>4
    <2> QED BY <2>0, <2>1
  <1> HIDE DEF x
  <1>6. \E n \in 0 .. (Len(m.entries) - 1) :
           Suffices(r, m, budget, n) /\ \A j \in 0 .. (n - 1) : ~Suffices(r, m, budget, j)
    BY <1>4, <1>5
  <1> QED BY <1>6, Zenon DEF Fewest

\* What is settled stays as it is.
LEMMA SettledStays ==
    ASSUME NEW r, NEW m \in Memories, NEW budget, Settled(r, m, budget)
    PROVE  Collapsed(r, m, budget) = {m}
  <1>0. m.entries \in Seq(Entries) /\ Len(m.entries) \in Nat /\ m.dropped \in Nat
    BY DEF Memories
  <1>1. CASE budget <= 0 \/ m.entries = <<>> \/ SummaryTokens(r, SummaryEntries(m)) <= budget
    BY <1>1 DEF Collapsed
  <1>2. CASE ~ (budget <= 0 \/ m.entries = <<>> \/ SummaryTokens(r, SummaryEntries(m)) <= budget)
    <2>0. Len(m.entries) = 1
      <3>1. m.entries # <<>> /\ Len(m.entries) <= 1
        BY <1>2 DEF Settled
      <3>2. Len(m.entries) # 0
        BY <1>0, <3>1
      <3>3. \A n \in Nat : n <= 1 /\ n # 0 => n = 1
        OBVIOUS
      <3> QED BY <1>0, <3>1, <3>2, <3>3, Zenon
    <2>1. Fewest(r, m, budget) = 0
      <3>1. Len(m.entries) # 0 /\ Len(m.entries) - 1 = 0
        BY <2>0
      <3>2. Fewest(r, m, budget) \in 0 .. (Len(m.entries) - 1)
        BY <3>1, FewestSuffices
      <3>3. Fewest(r, m, budget) \in 0 .. 0
        BY <3>1, <3>2
      <3> QED BY <3>3
    <2>2. Shedding(m, 0) = m
      BY SheddingIs
    <2>3. GoneToBrief(r, m, budget) = 0
      BY <1>0, <2>1, <2>2 DEF GoneToBrief
    <2> QED BY <1>2, <2>1, <2>2, <2>3, CollapsedIs
  <1> QED BY <1>1, <1>2

\* The budget has room for a brief and an entry beside the prefix and the placeholder.
Roomy(r, budget) == EstimateAt(r, 4) <= budget

\* Below the low water there is room for one more.
LEMMA OneMoreFits ==
    ASSUME NEW r \in 3 .. 10, NEW budget \in Nat, Roomy(r, budget), NEW n \in Nat \ {0},
           EstimateAt(r, n) <= LowWater(budget)
    PROVE  EstimateAt(r, n) <= budget /\ EstimateAt(r, n + 1) <= budget
  <1> DEFINE low == (60 * budget) \div 100
             est == EstimateAt(r, n)
  <1>1. low \in Nat /\ 100 * low <= 60 * budget
    OBVIOUS
  <1>2. est <= low /\ est \in Nat
    BY EstimatesAreNumbers DEF LowWater, Percent
  <1>3. 32 \div r <= budget
    <2>1. EstimateAt(r, 4) = 32 \div r
      BY DEF EstimateAt
    <2> QED BY <2>1 DEF Roomy
  <1>4. est >= (8 * n) \div r
    <2>1. CASE 8 * n < r
      <3>1. (8 * n) \div r = 0
        BY <2>1
      <3> QED BY <1>2, <3>1
    <2>2. CASE ~ (8 * n < r)
      <3>1. (8 * n) \div r \in Int
        OBVIOUS
      <3>2. est = (8 * n) \div r
        BY <2>2 DEF EstimateAt
      <3> QED BY <3>1, <3>2
    <2> QED BY <2>1, <2>2
  <1>5. EstimateAt(r, n + 1) = (8 * n + 8) \div r
    BY DEF EstimateAt
  <1> HIDE DEF low, est
  <1>6. est <= budget
    BY <1>1, <1>2
  <1>7. (8 * n + 8) \div r <= budget
    <2>1. CASE r = 3
      BY ONLY <2>1, <1>1, <1>2, <1>3, <1>4, n \in Nat, budget \in Nat
    <2>2. CASE r = 4
      BY ONLY <2>2, <1>1, <1>2, <1>3, <1>4, n \in Nat, budget \in Nat
    <2>3. CASE r = 5
      BY ONLY <2>3, <1>1, <1>2, <1>3, <1>4, n \in Nat, budget \in Nat
    <2>4. CASE r = 6
      BY ONLY <2>4, <1>1, <1>2, <1>3, <1>4, n \in Nat, budget \in Nat
    <2>5. CASE r = 7
      BY ONLY <2>5, <1>1, <1>2, <1>3, <1>4, n \in Nat, budget \in Nat
    <2>6. CASE r = 8
      BY ONLY <2>6, <1>1, <1>2, <1>3, <1>4, n \in Nat, budget \in Nat
    <2>7. CASE r = 9
      BY ONLY <2>7, <1>1, <1>2, <1>3, <1>4, n \in Nat, budget \in Nat
    <2>8. CASE r = 10
      BY ONLY <2>8, <1>1, <1>2, <1>3, <1>4, n \in Nat, budget \in Nat
    <2> QED BY <2>1, <2>2, <2>3, <2>4, <2>5, <2>6, <2>7, <2>8
  <1> QED BY <1>5, <1>6, <1>7 DEF est

\* What counts for little at one ratio counts for no more at a higher one.
LEMMA EstimateFalls ==
    ASSUME NEW r \in 3 .. 10, NEW q \in 3 .. 10, r <= q, NEW n \in Nat \ {0, 1}
    PROVE  EstimateAt(q, n) <= EstimateAt(r, n)
  <1>1. n # 0 /\ (8 * n) \div r \in Nat /\ (8 * n) \div q \in Nat
        /\ EstimateAt(q, n) = (8 * n) \div q /\ EstimateAt(r, n) = (8 * n) \div r
    <2>1. (8 * n) \div r \in Nat /\ (8 * n) \div q \in Nat
      <3>1. \A x \in 3 .. 10 : x \in {3, 4, 5, 6, 7, 8, 9, 10}
        OBVIOUS
      <3>2. \A x \in {3, 4, 5, 6, 7, 8, 9, 10} : (8 * n) \div x \in Nat
        OBVIOUS
      <3> QED BY <3>1, <3>2
    <2>2. n # 0 /\ ~ (8 * n < r) /\ ~ (8 * n < q)
      OBVIOUS
    <2> QED BY <2>1, <2>2 DEF EstimateAt
  <1>2. ASSUME NEW x \in 3 .. 9 PROVE (8 * n) \div (x + 1) <= (8 * n) \div x
    <2>1. x \in {3, 4, 5, 6, 7, 8, 9}
      OBVIOUS
    <2>2. /\ (8 * n) \div 4 <= (8 * n) \div 3 /\ (8 * n) \div 5 <= (8 * n) \div 4
          /\ (8 * n) \div 6 <= (8 * n) \div 5 /\ (8 * n) \div 7 <= (8 * n) \div 6
          /\ (8 * n) \div 8 <= (8 * n) \div 7 /\ (8 * n) \div 9 <= (8 * n) \div 8
          /\ (8 * n) \div 10 <= (8 * n) \div 9
      OBVIOUS
    <2> QED BY <2>1, <2>2
  <1>3. \A x \in 3 .. 10 : (8 * n) \div x \in Nat
    <2>1. \A x \in 3 .. 10 : x \in {3, 4, 5, 6, 7, 8, 9, 10}
      OBVIOUS
    <2> QED BY <2>1
  <1> DEFINE d(x) == (8 * n) \div x
  <1>4. \A x \in 3 .. 10 : d(x) \in Nat
    BY <1>3
  <1>5. \A x \in 3 .. 9 : d(x + 1) <= d(x)
    BY <1>2
  <1>6. EstimateAt(q, n) = d(q) /\ EstimateAt(r, n) = d(r)
    BY <1>1
  <1> HIDE DEF d
  <1>7. d(4) <= d(3) /\ d(5) <= d(4) /\ d(6) <= d(5) /\ d(7) <= d(6) /\ d(8) <= d(7)
        /\ d(9) <= d(8) /\ d(10) <= d(9)
    <2>1. 3 + 1 = 4 /\ 4 + 1 = 5 /\ 5 + 1 = 6 /\ 6 + 1 = 7 /\ 7 + 1 = 8 /\ 8 + 1 = 9 /\ 9 + 1 = 10
      OBVIOUS
    <2> QED BY <1>5, <2>1
  <1>8. d(q) <= d(r)
    <2>1. /\ d(3) \in Nat /\ d(4) \in Nat /\ d(5) \in Nat /\ d(6) \in Nat /\ d(7) \in Nat
          /\ d(8) \in Nat /\ d(9) \in Nat /\ d(10) \in Nat
      BY <1>4
    <2>2. r \in {3, 4, 5, 6, 7, 8, 9, 10} /\ q \in {3, 4, 5, 6, 7, 8, 9, 10}
      OBVIOUS
    <2> QED BY <1>7, <2>1, <2>2
  <1> QED BY <1>6, <1>8

\* A summary that is settled is settled at a higher ratio.
LEMMA SettledAbove ==
    ASSUME NEW r \in 3 .. 10, NEW q \in 3 .. 10, r <= q, NEW m \in Memories,
           NEW budget \in Nat, Settled(r, m, budget)
    PROVE  Settled(q, m, budget)
  <1>1. CASE Len(m.entries) <= 1
    BY <1>1 DEF Settled
  <1>2. CASE ~ (Len(m.entries) <= 1)
    <2>1. /\ Len(m.entries) \in Nat
          /\ Units(m) \in {Len(m.entries) + 1, Len(m.entries) + 2}
      BY UnitsOf
    <2>2. Units(m) \in Nat \ {0, 1} /\ Len(m.entries) # 0
      BY <1>2, <2>1
    <2>3. /\ SummaryTokens(r, SummaryEntries(m)) = EstimateAt(r, Units(m))
          /\ SummaryTokens(q, SummaryEntries(m)) = EstimateAt(q, Units(m))
      BY <2>2, TokensOf
    <2>4. EstimateAt(q, Units(m)) <= EstimateAt(r, Units(m))
      BY <2>2, EstimateFalls
    <2>5. EstimateAt(q, Units(m)) \in Nat /\ EstimateAt(r, Units(m)) \in Nat
      BY <2>2, EstimatesAreNumbers
    <2>6. EstimateAt(r, Units(m)) <= budget
      BY <1>2, <2>3 DEF Settled
    <2> QED BY <2>3, <2>4, <2>5, <2>6 DEF Settled
  <1> QED BY <1>1, <1>2

\* What one collapse leaves, the next one leaves alone, if a brief and an entry fit
\* in the summary beside the placeholder.
LEMMA CollapseSettles ==
    ASSUME NEW r \in 3 .. 10, NEW m \in Memories, NEW budget \in Nat,
           NEW new \in Collapsed(r, m, budget)
    PROVE  /\ new \in Memories /\ new.folded = m.folded /\ new.compactions = m.compactions
           /\ KeepsEdits(m, new)
           /\ Roomy(r, budget) => Settled(r, new, budget)
  <1> DEFINE k == Fewest(r, m, budget)
             rest == Shedding(m, k)
             gone == GoneToBrief(r, m, budget)
  <1>0. Edits(m) \in Nat /\ m.dropped \in Nat /\ Len(m.entries) \in Nat /\ m.entries \in Seq(Entries)
    BY EditsAreCounted DEF Edits, Memories
  <1>1. CASE budget <= 0 \/ m.entries = <<>> \/ SummaryTokens(r, SummaryEntries(m)) <= budget
    <2>1. new = m
      BY <1>1 DEF Collapsed
    <2>2. Roomy(r, budget) => Settled(r, m, budget)
      <3>1. CASE budget <= 0
        <4>1. EstimateAt(r, 4) >= 1 /\ EstimateAt(r, 4) \in Nat
          <5>1. 32 \div r >= 1
            <6>1. r \in {3, 4, 5, 6, 7, 8, 9, 10}
              OBVIOUS
            <6> QED BY <6>1
          <5>2. EstimateAt(r, 4) = 32 \div r
            BY DEF EstimateAt
          <5> QED BY <5>1, <5>2, EstimatesAreNumbers
        <4> QED BY <3>1, <4>1 DEF Roomy
      <3>2. CASE m.entries = <<>>
        BY <3>2 DEF Settled
      <3> QED BY <1>1, <3>1, <3>2 DEF Settled
    <2> QED BY <1>0, <2>1, <2>2 DEF KeepsEdits
  <1>2. CASE ~ (budget <= 0 \/ m.entries = <<>> \/ SummaryTokens(r, SummaryEntries(m)) <= budget)
    <2>1. Len(m.entries) # 0
      BY <1>0, <1>2
    <2>2. k \in 0 .. (Len(m.entries) - 1) /\ Suffices(r, m, budget, k)
      BY <2>1, FewestSuffices
    <2>3. k \in 0 .. Len(m.entries) /\ k \in Nat
      BY <1>0, <2>2
    <2>4. gone = k - (rest.dropped - m.dropped)
      BY DEF GoneToBrief
    <2>5. new = rest \/ new = Dropping(rest, gone) \/ new = Briefed(rest, gone)
      BY <1>2, CollapsedIs
    <2> HIDE DEF k
    <2>6. Shed1(m, k, rest)
      BY <2>3, SheddingIs
    <2>7. \/ SummaryTokens(r, SummaryEntries(rest)) <= LowWater(budget)
          \/ k = Len(m.entries) - 1
      BY <2>2 DEF Suffices
    <2> HIDE DEF rest, gone
    <2>8. /\ rest \in Memories /\ rest.folded = m.folded /\ rest.compactions = m.compactions
          /\ rest.dropped \in Nat /\ rest.dropped \in m.dropped .. (m.dropped + k)
          /\ Len(rest.entries) = Len(m.entries) - k /\ KeepsEdits(m, rest)
      BY <2>6 DEF Shed1, Memories
    <2>9. gone \in Nat
      BY <1>0, <2>3, <2>4, <2>8
    <2>10. Len(rest.entries) \in Nat \ {0} /\ (k = Len(m.entries) - 1 => Len(rest.entries) = 1)
      BY <1>0, <2>2, <2>8
    <2>11. Units(rest) \in Nat \ {0}
      BY <2>8, <2>10 DEF Units
    <2>a. ASSUME Roomy(r, budget)
          PROVE  \/ EstimateAt(r, Units(rest)) <= budget /\ EstimateAt(r, Units(rest) + 1) <= budget
                 \/ Len(rest.entries) = 1
      <3>1. SummaryTokens(r, SummaryEntries(rest)) = EstimateAt(r, Units(rest))
        BY <2>8, <2>10, TokensOf
      <3>2. CASE SummaryTokens(r, SummaryEntries(rest)) <= LowWater(budget)
        BY <2>11, <2>a, <3>1, <3>2, OneMoreFits
      <3> QED BY <2>7, <2>10, <3>2
    <2>12. CASE new = rest
      <3>1. ASSUME Roomy(r, budget) PROVE Settled(r, rest, budget)
        <4>1. SummaryTokens(r, SummaryEntries(rest)) = EstimateAt(r, Units(rest))
          BY <2>8, <2>10, TokensOf
        <4>2. CASE Len(rest.entries) = 1
          BY <4>2 DEF Settled
        <4>3. CASE EstimateAt(r, Units(rest)) <= budget
          BY <4>1, <4>3 DEF Settled
        <4> QED BY <2>a, <3>1, <4>2, <4>3
      <3> QED BY <2>8, <2>12, <3>1
    <2>13. CASE new = Dropping(rest, gone)
      <3>1. /\ new \in Memories /\ new.folded = m.folded /\ new.compactions = m.compactions
            /\ new.entries = rest.entries /\ new.dropped \in Nat
        <4>1. rest.dropped + gone \in Nat
          BY <2>8, <2>9
        <4>2. new = [rest EXCEPT !.dropped = rest.dropped + gone]
          BY <2>13 DEF Dropping
        <4>3. new \in Memories /\ new.folded = rest.folded /\ new.compactions = rest.compactions
              /\ new.entries = rest.entries /\ new.dropped = rest.dropped + gone
          BY <2>8, <4>1, <4>2 DEF Memories
        <4> QED BY <2>8, <4>1, <4>3
      <3>2. KeepsEdits(m, new)
        BY <2>8, <3>1 DEF KeepsEdits, AllOfRecord, Edits
      <3>3. ASSUME Roomy(r, budget) PROVE Settled(r, new, budget)
        <4>1. SummaryTokens(r, SummaryEntries(new)) = EstimateAt(r, Units(new))
          BY <2>10, <3>1, TokensOf
        <4>2. Units(new) \in {Units(rest), Units(rest) + 1}
          <5>1. rest.dropped # 0 => new.dropped # 0
            <6>1. rest.dropped + gone = new.dropped
              BY <2>13 DEF Dropping, Memories
            <6> QED BY <2>8, <2>9, <6>1
          <5>2. /\ Len(rest.entries) \in Nat
                /\ rest.dropped = 0 => Units(rest) = Len(rest.entries) + 1
                /\ rest.dropped # 0 => Units(rest) = Len(rest.entries) + 2
            BY <2>8, UnitsOf
          <5>3. /\ new.dropped = 0 => Units(new) = Len(rest.entries) + 1
                /\ new.dropped # 0 => Units(new) = Len(rest.entries) + 2
            BY <3>1, UnitsOf
          <5>4. Len(rest.entries) + 2 = (Len(rest.entries) + 1) + 1
            BY <5>2
          <5> QED BY <5>1, <5>2, <5>3, <5>4
        <4>3. CASE Len(rest.entries) = 1
          BY <3>1, <4>3 DEF Settled
        <4>4. CASE Len(rest.entries) # 1
          <5>1. EstimateAt(r, Units(new)) <= budget
            BY <2>a, <3>3, <4>2, <4>4
          <5> QED BY <4>1, <5>1 DEF Settled
        <4> QED BY <4>3, <4>4
      <3> QED BY <3>1, <3>2, <3>3
    <2>14. CASE new = Briefed(rest, gone)
      <3>0. <<"brief">> \in Seq(Entries) /\ Len(<<"brief">>) = 1 /\ <<"brief">>[1] = "brief"
            /\ rest.entries \in Seq(Entries)
        BY <2>8 DEF Entries, Memories
      <3>1. /\ <<"brief">> \o rest.entries \in Seq(Entries)
            /\ Len(<<"brief">> \o rest.entries) = 1 + Len(rest.entries)
            /\ \A j \in 1 .. 1 : (<<"brief">> \o rest.entries)[j] = <<"brief">>[j]
            /\ \A j \in 1 .. Len(rest.entries) : (<<"brief">> \o rest.entries)[j + 1] = rest.entries[j]
        BY <3>0, Joined
      <3>2. /\ new \in Memories /\ new.folded = m.folded /\ new.compactions = m.compactions
            /\ new.entries = <<"brief">> \o rest.entries /\ new.dropped = rest.dropped
        <4>1. rest.distilled + gone \in Nat /\ rest.briefs + 1 \in Nat
          BY <2>8, <2>9 DEF Memories
        <4>2. new = [rest EXCEPT !.entries = <<"brief">> \o rest.entries,
                                 !.distilled = rest.distilled + gone, !.briefs = rest.briefs + 1]
          BY <2>14 DEF Briefed
        <4>3. new \in Memories /\ new.folded = rest.folded /\ new.compactions = rest.compactions
              /\ new.entries = <<"brief">> \o rest.entries /\ new.dropped = rest.dropped
          BY <2>8, <3>1, <4>1, <4>2 DEF Memories
        <4> QED BY <2>8, <4>3
      <3>3. KeepsEdits(m, new)
        <4>1. CASE AllOfRecord(rest)
          <5>1. ASSUME NEW j \in DOMAIN new.entries PROVE Durable(new.entries[j])
            <6>1. j \in 1 .. (1 + Len(rest.entries))
              BY <3>1, <3>2
            <6>2. CASE j = 1
              BY <3>0, <3>1, <3>2, <6>2 DEF Durable
            <6>3. CASE j # 1
              <7>1. j - 1 \in 1 .. Len(rest.entries) /\ (j - 1) + 1 = j
                BY <2>10, <6>1, <6>3
              <7>2. new.entries[j] = rest.entries[j - 1] /\ j - 1 \in DOMAIN rest.entries
                BY <3>0, <3>1, <3>2, <7>1
              <7> QED BY <4>1, <7>2 DEF AllOfRecord
            <6> QED BY <6>2, <6>3
          <5> QED BY <5>1 DEF KeepsEdits, AllOfRecord
        <4>2. CASE ~AllOfRecord(rest)
          <5>1. Edits(rest) >= Edits(m)
            BY <2>8, <4>2 DEF KeepsEdits
          <5>2. Cardinality(EditsIn(<<"brief">> \o rest.entries)) >= Cardinality(EditsIn(rest.entries))
            BY <3>0, AddingKeepsEdits
          <5>3. Edits(new) >= Edits(rest)
            BY <3>2, <5>2 DEF Edits
          <5>4. Edits(rest) \in Nat /\ Edits(new) \in Nat
            BY <2>8, <3>2, EditsAreCounted DEF Edits, Memories
          <5> QED BY <1>0, <5>1, <5>3, <5>4 DEF KeepsEdits
        <4> QED BY <4>1, <4>2
      <3>4. ASSUME Roomy(r, budget) PROVE Settled(r, new, budget)
        <4>1. Len(new.entries) = 1 + Len(rest.entries) /\ Len(new.entries) # 0
          BY <2>10, <3>1, <3>2
        <4>2. SummaryTokens(r, SummaryEntries(new)) = EstimateAt(r, Units(new))
          BY <3>2, <4>1, TokensOf
        <4>a. /\ Len(rest.entries) \in Nat
              /\ rest.dropped = 0 => Units(rest) = Len(rest.entries) + 1
              /\ rest.dropped # 0 => Units(rest) = Len(rest.entries) + 2
          BY <2>8, UnitsOf
        <4>b. /\ rest.dropped = 0 => Units(new) = (1 + Len(rest.entries)) + 1
              /\ rest.dropped # 0 => Units(new) = (1 + Len(rest.entries)) + 2
          BY <3>2, <4>1, UnitsOf
        <4>3. Units(new) = Units(rest) + 1
          <5>1. CASE rest.dropped = 0
            BY <4>a, <4>b, <5>1
          <5>2. CASE rest.dropped # 0
            BY <4>a, <4>b, <5>2
          <5> QED BY <5>1, <5>2
        <4>4. CASE Len(rest.entries) = 1
          <5>1. Units(new) \in {3, 4}
            BY <4>4, <4>b
          <5>2. EstimateAt(r, Units(new)) <= budget
            <6>1. EstimateAt(r, 3) = 24 \div r /\ EstimateAt(r, 4) = 32 \div r
              BY DEF EstimateAt
            <6>2. 24 \div r <= 32 \div r /\ 24 \div r \in Int /\ 32 \div r \in Int
              <7>1. r \in {3, 4, 5, 6, 7, 8, 9, 10}
                OBVIOUS
              <7> QED BY <7>1
            <6>3. EstimateAt(r, 4) <= budget
              BY <3>4 DEF Roomy
            <6> QED BY <5>1, <6>1, <6>2, <6>3
          <5> QED BY <4>2, <5>2 DEF Settled
        <4>5. CASE Len(rest.entries) # 1
          BY <2>a, <3>4, <4>2, <4>3, <4>5 DEF Settled
        <4> QED BY <4>4, <4>5
      <3> QED BY <3>2, <3>3, <3>4
    <2> QED BY <2>5, <2>12, <2>13, <2>14
  <1> QED BY <1>1, <1>2


-----------------------------------------------------------------------------
(* What folding does *)

LEMMA TailIsTyped ==
    ASSUME MemoryInv
    PROVE  AllTail \in Seq(Messages) /\ Len(AllTail) \in Nat
  BY DEF MemoryInv, AllTail

\* However little the budget allows, it leaves out no more than there is.
LEMMA LeavesOut ==
    ASSUME NEW tail \in Seq(Messages), NEW budget \in Int
    PROVE  LeftOut(tail, budget) \in 0 .. Len(tail)
  <1> DEFINE S == {n \in 0 .. Len(tail) : SizeOf(SubSeq(tail, n + 1, Len(tail))) <= budget}
  <1>1. Len(tail) \in Nat
    OBVIOUS
  <1>2. CASE budget <= 0
    BY <1>1, <1>2 DEF LeftOut
  <1>3. CASE ~ (budget <= 0)
    <2>1. SubSeq(tail, Len(tail) + 1, Len(tail)) \in Seq(Messages)
          /\ Len(SubSeq(tail, Len(tail) + 1, Len(tail))) = 0
      BY <1>1
    <2>2. SizeOf(SubSeq(tail, Len(tail) + 1, Len(tail))) = 0
      BY <2>1, SizesAdd
    <2>3. Len(tail) \in S
      BY <1>1, <1>3, <2>2
    <2>4. S \subseteq Nat /\ S \subseteq 0 .. Len(tail)
      BY <1>1
    <2>5. LeftOut(tail, budget) = Min(S)
      BY <1>3 DEF LeftOut
    <2> HIDE DEF S
    <2>6. Min(S) \in S
      BY <2>3, <2>4, LeastIn
    <2> QED BY <2>4, <2>5, <2>6
  <1> QED BY <1>2, <1>3

\* Folding changes nothing, or moves the boundary forward and is counted.
FoldsOn(m, new, last) ==
    \/ new = m
    \/ /\ new.folded \in (m.folded + 1) .. last
       /\ new.compactions = m.compactions + 1

LEMMA FoldedIs ==
    ASSUME MemoryInv, NEW budget \in Int
    PROVE  /\ Folded(mem, budget) \in Memories
           /\ FoldsOn(mem, Folded(mem, budget), Len(AllTail))
           /\ Edits(Folded(mem, budget)) >= Edits(mem)
  <1> DEFINE need == LeftOut(AllTail, budget)
             deep == LeftOut(AllTail, LowWater(budget))
             to == IF deep > need THEN deep ELSE need
             cold == SubSeq(AllTail, mem.folded + 1, to)
             es == mem.entries \o Summarized(cold)
             m == [mem EXCEPT !.entries = es, !.folded = to, !.compactions = mem.compactions + 1]
  <1>1. AllTail \in Seq(Messages) /\ Len(AllTail) \in Nat /\ mem \in Memories
    BY TailIsTyped DEF MemoryInv
  <1>2. LowWater(budget) \in Int
    BY PercentOfADifference DEF LowWater
  <1>3. need \in 0 .. Len(AllTail) /\ deep \in 0 .. Len(AllTail)
    BY <1>1, <1>2, LeavesOut
  <1>4. Folded(mem, budget) = IF need <= mem.folded THEN mem ELSE m
    BY DEF Folded
  <1> HIDE DEF need, deep
  <1>5. to \in 0 .. Len(AllTail) /\ to >= need
    BY <1>3
  <1> HIDE DEF to
  <1>6. mem.folded \in Nat /\ mem.entries \in Seq(Entries) /\ mem.compactions \in Nat
    BY <1>1 DEF Memories
  <1>7. Edits(mem) \in Nat
    BY <1>6, EditsAreCounted DEF Edits
  <1>8. CASE need <= mem.folded
    BY <1>1, <1>4, <1>7, <1>8 DEF FoldsOn
  <1>9. CASE ~ (need <= mem.folded)
    <2>1. to \in Nat /\ to \in (mem.folded + 1) .. Len(AllTail)
      BY <1>1, <1>3, <1>5, <1>6, <1>9
    <2>2. cold \in Seq(Messages)
      BY <1>1, <1>5, <1>6
    <2> HIDE DEF cold
    <2>3. Summarized(cold) \in Seq(Entries)
      BY <2>2, SummaryIsTyped
    <2>4. es \in Seq(Entries) /\ Cardinality(EditsIn(es)) >= Cardinality(EditsIn(mem.entries))
      BY <1>6, <2>3, AddingKeepsEdits
    <2> HIDE DEF es
    <2>5. /\ m \in Memories /\ m.entries = es /\ m.folded = to
          /\ m.compactions = mem.compactions + 1
      <3>1. mem.compactions + 1 \in Nat
        BY <1>6
      <3> QED BY <1>1, <2>1, <2>4, <3>1 DEF Memories
    <2> HIDE DEF m
    <2>6. Folded(mem, budget) = m
      BY <1>4, <1>9
    <2> QED BY <2>1, <2>4, <2>5, <2>6 DEF FoldsOn, Edits
  <1> QED BY <1>8, <1>9

-----------------------------------------------------------------------------
(* Shedding *)

\* What a tail from f on takes, and what every request takes.
TailSize(f) == TokensIn(SubSeq(AllTail, f, Len(AllTail)))
Floor == SystemTokens + Estimate(taskSize)

LEMMA PartsAreNumbers ==
    ASSUME MemoryInv, NEW f \in 1 .. (Len(AllTail) + 1)
    PROVE  /\ TailSize(f) \in Nat /\ (f = Len(AllTail) + 1 => TailSize(f) = 0)
           /\ Floor \in Nat /\ Win \in Nat /\ pins.verify \in Nat /\ pins.file \in Nat
           /\ Estimate(pins.verify) \in Nat /\ Estimate(pins.file) \in Nat
  <1>1. AllTail \in Seq(Messages) /\ Len(AllTail) \in Nat
    BY TailIsTyped
  <1>2. /\ SubSeq(AllTail, f, Len(AllTail)) \in Seq(Messages)
        /\ f = Len(AllTail) + 1 => Len(SubSeq(AllTail, f, Len(AllTail))) = 0
    BY <1>1
  <1>3. TailSize(f) \in Nat /\ (f = Len(AllTail) + 1 => TailSize(f) = 0)
    BY <1>2, TokensAdd DEF TailSize, MemoryInv
  <1>4. taskSize \in Nat /\ pins.verify \in Nat /\ pins.file \in Nat
    BY DEF MemoryInv
  <1>5. Floor \in Nat /\ Win \in Nat
    <2>1. /\ Estimate(taskSize) \in Nat /\ Estimate(SystemSize) \in Nat
          /\ Estimate(MapBudget) \in Nat
      BY <1>4, WindowIsANumber, SizesAreNumbers, EstimatesAreNumbers DEF MemoryInv, Estimate
    <2>2. SystemTokens \in Nat
      BY <2>1 DEF SystemTokens
    <2> QED BY <2>1, <2>2, WindowIsANumber DEF Floor
  <1>6. Estimate(pins.verify) \in Nat /\ Estimate(pins.file) \in Nat
    BY <1>4, EstimatesAreNumbers DEF MemoryInv, Estimate
  <1> QED BY <1>3, <1>4, <1>5, <1>6

LEMMA PartsAdd ==
    ASSUME NEW s, NEW f, NEW v, NEW file
    PROVE  Parts(s, f, v, file) = Floor + s + Estimate(v) + Estimate(file) + TailSize(f)
  BY DEF Parts, Floor, TailSize

LEMMA TruncatedFits ==
    ASSUME NEW size \in Nat, NEW avail \in Int
    PROVE  /\ TruncatedTo(size, avail) \in Nat
           /\ avail <= 0 => TruncatedTo(size, avail) = 0
           /\ avail > 0 => TruncatedTo(size, avail) <= avail
  BY DEF TruncatedTo, Least

LEMMA SummarySizes ==
    ASSUME NEW r \in 3 .. 10, NEW es \in Seq(Entries)
    PROVE  /\ SummaryTokens(r, es) \in Nat /\ (es = <<>> => SummaryTokens(r, es) = 0)
           /\ Len(es) = 1 => SummaryTokens(r, es) = EstimateAt(r, 2)
  <1>1. \A n \in Nat : 1 + n \in Nat /\ (n = 1 => 1 + n = 2)
    OBVIOUS
  <1>2. Len(es) \in Nat /\ (es = <<>> => Len(es) = 0)
    OBVIOUS
  <1>3. Len(es) = 1 => es # <<>>
    BY <1>2
  <1>4. SummaryTokens(r, es) = IF es = <<>> THEN 0 ELSE EstimateAt(r, 1 + Len(es))
    BY DEF SummaryTokens
  <1>5. 1 + Len(es) \in Nat /\ (Len(es) = 1 => 1 + Len(es) = 2)
    BY <1>1, <1>2, Zenon
  <1>6. EstimateAt(r, 1 + Len(es)) \in Nat
    BY <1>5, EstimatesAreNumbers
  <1>7. Len(es) = 1 => EstimateAt(r, 1 + Len(es)) = EstimateAt(r, 2)
    BY <1>5
  <1> QED BY <1>3, <1>4, <1>6, <1>7

\* The summary that is kept is below the ceiling beside the floor, if nothing else is.
LEMMA SummaryFits ==
    ASSUME MemoryInv, Floor <= Win,
           NEW m \in Memories, m.folded \in 0 .. Len(AllTail)
    PROVE  /\ SummaryTokens(ratio, SummaryKept(m)) \in Nat
           /\ Floor + SummaryTokens(ratio, SummaryKept(m)) <= HardCeiling(ratio)
  <1> DEFINE entries == SummaryEntries(m)
             from == m.folded + 1
             room(drop) == Parts(SummaryTokens(ratio, drop), from, pins.verify, pins.file) <= Win
             enough == {n \in 0 .. Len(entries) :
                           Len(entries) - n <= 1 \/ room(SubSeq(entries, n + 1, Len(entries)))}
             kept == SubSeq(entries, Min(enough) + 1, Len(entries))
             avail == Win - Parts(0, from, pins.verify, pins.file) - Estimate(1) - CeilSlack
             summary == IF Len(kept) = 1 /\ ~room(kept) /\ TruncatedTo(1, avail) = 0 THEN <<>> ELSE kept
  <1>1. SummaryKept(m) = summary
    BY DEF SummaryKept
  <1>2. from \in 1 .. (Len(AllTail) + 1) /\ Len(AllTail) \in Nat
    BY TailIsTyped
  <1> HIDE DEF from
  <1>3. /\ TailSize(from) \in Nat /\ Floor \in Nat /\ Win \in Nat
        /\ Estimate(pins.verify) \in Nat /\ Estimate(pins.file) \in Nat
        /\ ratio \in 3 .. 10 /\ HardCeiling(ratio) \in Nat /\ Win <= HardCeiling(ratio)
    <2>1. ratio \in 3 .. 10 /\ Win \in Nat
      BY WindowIsANumber DEF MemoryInv
    <2>2. HardCeiling(ratio) \in Nat
      BY <2>1, EstimatesAreNumbers DEF HardCeiling
    <2>3. Win <= HardCeiling(ratio)
      <3>1. Win <= Win
        BY <2>1
      <3> QED BY <2>1, <3>1, CeilingIsAbove
    <2>4. /\ TailSize(from) \in Nat /\ Floor \in Nat
          /\ Estimate(pins.verify) \in Nat /\ Estimate(pins.file) \in Nat
      BY <1>2, PartsAreNumbers
    <2> QED BY <2>1, <2>2, <2>3, <2>4
  <1>4. entries \in Seq(Entries)
    BY TokensOf
  <1>5. Len(entries) \in Nat
    BY <1>4
  <1> HIDE DEF entries
  <1>6. ASSUME NEW es \in Seq(Entries)
        PROVE  /\ SummaryTokens(ratio, es) \in Nat /\ (es = <<>> => SummaryTokens(ratio, es) = 0)
               /\ Len(es) = 1 => SummaryTokens(ratio, es) = EstimateAt(ratio, 2)
    BY <1>3, SummarySizes
  <1>7. Min(enough) \in enough /\ \A x \in enough : Min(enough) <= x
    <2>1. enough \subseteq Nat
      BY <1>5
    <2>2. enough # {}
      <3>1. Len(entries) \in 0 .. Len(entries) /\ Len(entries) - Len(entries) <= 1
        BY <1>5
      <3> QED BY <3>1
    <2> HIDE DEF enough
    <2> QED BY <2>1, <2>2, LeastIn
  <1> DEFINE k == Min(enough)
  <1>8. /\ k \in 0 .. Len(entries)
        /\ Len(entries) - k <= 1 \/ room(kept)
    BY <1>7
  <1>9. kept \in Seq(Entries) /\ Len(kept) = Len(entries) - k
    <2> HIDE DEF k
    <2>1. SubSeq(entries, k + 1, Len(entries)) \in Seq(Entries)
          /\ Len(SubSeq(entries, k + 1, Len(entries))) = Len(entries) - k
      BY <1>4, <1>5, <1>8
    <2> QED BY <2>1 DEF k
  <1> HIDE DEF k
  <1>10. CASE room(kept)
    <2>1. summary = kept
      BY <1>10
    <2>2. SummaryTokens(ratio, kept) \in Nat
      BY <1>6, <1>9
    <2>3. Parts(SummaryTokens(ratio, kept), from, pins.verify, pins.file) <= Win
      BY <1>10
    <2>4. Floor + SummaryTokens(ratio, kept) + Estimate(pins.verify) + Estimate(pins.file)
            + TailSize(from) <= Win
      BY <2>3, PartsAdd
    <2> HIDE DEF kept, summary
    <2>5. Floor + SummaryTokens(ratio, kept) <= HardCeiling(ratio)
      BY <1>3, <2>2, <2>4
    <2> QED BY <1>1, <2>1, <2>2, <2>5
  <1>11. CASE ~room(kept)
    <2>1. Len(kept) \in {0, 1}
      BY <1>5, <1>8, <1>9, <1>11
    <2> HIDE DEF kept
    <2>2. CASE Len(kept) = 0
      <3>1. summary = kept /\ kept = <<>>
        BY <1>9, <2>2
      <3>2. SummaryTokens(ratio, kept) = 0
        BY <1>6, <1>9, <3>1
      <3> HIDE DEF summary
      <3> QED BY <1>1, <1>3, <3>1, <3>2
    <2>3. CASE Len(kept) = 1 /\ TruncatedTo(1, avail) = 0
      <3>1. summary = <<>> /\ SummaryTokens(ratio, <<>>) = 0
        BY <1>11, <2>3 DEF SummaryTokens
      <3> HIDE DEF summary
      <3> QED BY <1>1, <1>3, <3>1
    <2>4. CASE Len(kept) = 1 /\ TruncatedTo(1, avail) # 0
      <3>1. summary = kept
        BY <2>4
      <3>2. SummaryTokens(ratio, kept) = EstimateAt(ratio, 2)
        BY <1>6, <1>9, <2>4
      <3>3. Parts(0, from, pins.verify, pins.file)
              = Floor + 0 + Estimate(pins.verify) + Estimate(pins.file) + TailSize(from)
        BY PartsAdd
      <3>4. Estimate(1) \in Nat \ {0}
        <4>1. EstimateAt(ratio, 1) \in Nat
          BY <1>3, EstimatesAreNumbers
        <4>2. EstimateAt(ratio, 1) = IF 8 < ratio THEN 1 ELSE 8 \div ratio
          BY DEF EstimateAt
        <4>3. ~ (8 < ratio) => 8 \div ratio # 0
          <5>1. ~ (8 < ratio) => ratio \in {3, 4, 5, 6, 7, 8}
            BY <1>3
          <5> QED BY <5>1
        <4> QED BY <4>1, <4>2, <4>3 DEF Estimate
      <3> DEFINE rest == Estimate(pins.verify) + Estimate(pins.file) + TailSize(from)
      <3>5. rest \in Nat /\ avail = Win - (Floor + rest) - Estimate(1) - 1
        BY <1>3, <3>3, <3>4 DEF CeilSlack
      <3> HIDE DEF avail, summary, rest
      <3>6. avail \in Int
        BY <1>3, <3>4, <3>5
      <3>7. avail > 0
        BY <2>4, <3>6, TruncatedFits
      <3>8. Floor + 2 <= Win
        BY <1>3, <3>4, <3>5, <3>7
      <3>9. Floor + EstimateAt(ratio, 2) <= HardCeiling(ratio)
        BY <1>3, <3>8, CutTextFits
      <3>10. EstimateAt(ratio, 2) \in Nat
        BY <1>3, EstimatesAreNumbers
      <3> QED BY <1>1, <3>1, <3>2, <3>9, <3>10
    <2> QED BY <2>1, <2>2, <2>3, <2>4
  <1> QED BY <1>10, <1>11

LEMMA TailIsKept ==
    ASSUME MemoryInv, NEW from \in 1 .. (Len(AllTail) + 1), NEW held \in Nat
    PROVE  /\ TailKept(from, held) \in from .. (Len(AllTail) + 1)
           /\ \/ TailKept(from, held) = Len(AllTail) + 1
              \/ Parts(held, TailKept(from, held), pins.verify, pins.file) <= Win
  <1> DEFINE S == {f \in from .. (Len(AllTail) + 1) :
                      f = Len(AllTail) + 1 \/ Parts(held, f, pins.verify, pins.file) <= Win}
  <1>1. Len(AllTail) \in Nat
    BY TailIsTyped
  <1>2. S \subseteq Nat /\ Len(AllTail) + 1 \in S
    BY <1>1
  <1>3. Min(S) \in S
    <2> HIDE DEF S
    <2> QED BY <1>2, LeastIn
  <1>4. TailKept(from, held) = Min(S)
    BY DEF TailKept
  <1> QED BY <1>3, <1>4

\* Whatever the summary, the file and the verify are, what is left of them is below
\* the ceiling.
LEMMA ShedFits ==
    ASSUME MemoryInv, Floor <= Win,
           NEW m \in Memories, m.folded \in 0 .. Len(AllTail)
    PROVE  Shed(m).size <= HardCeiling(ratio)
  <1> DEFINE from == m.folded + 1
             held == SummaryTokens(ratio, SummaryKept(m))
             start == TailKept(from, held)
             pv == Estimate(pins.verify)
             fileRoom == Win - Parts(held, start, pins.verify, 0) - CeilSlack
             file == IF Parts(held, start, pins.verify, pins.file) <= Win THEN pins.file
                     ELSE TruncatedTo(pins.file, fileRoom)
             verifyRoom == Win - Parts(held, start, 0, file) - CeilSlack
             verify == IF Parts(held, start, pins.verify, file) <= Win THEN pins.verify
                       ELSE VerifyKept(pins.verify, verifyRoom)
             base == Floor + held
  <1>1. Shed(m).size = Parts(held, start, verify, file)
    BY DEF Shed
  <1>2. held \in Nat /\ base <= HardCeiling(ratio)
    BY SummaryFits
  <1>3. from \in 1 .. (Len(AllTail) + 1) /\ Len(AllTail) \in Nat /\ ratio \in 3 .. 10
    BY TailIsTyped DEF MemoryInv
  <1> HIDE DEF from, held
  <1>4. /\ start \in 1 .. (Len(AllTail) + 1)
        /\ start = Len(AllTail) + 1 \/ Parts(held, start, pins.verify, pins.file) <= Win
    BY <1>2, <1>3, TailIsKept
  <1> HIDE DEF start
  <1>5. /\ TailSize(start) \in Nat /\ (start = Len(AllTail) + 1 => TailSize(start) = 0)
        /\ Floor \in Nat /\ Win \in Nat /\ pins.verify \in Nat /\ pins.file \in Nat
        /\ Estimate(pins.verify) \in Nat /\ Estimate(pins.file) \in Nat
    BY <1>4, PartsAreNumbers
  <1>6. Win <= HardCeiling(ratio) /\ HardCeiling(ratio) \in Nat
    <2>1. HardCeiling(ratio) \in Nat
      BY <1>3, <1>5, EstimatesAreNumbers DEF HardCeiling
    <2>2. Win <= Win
      BY <1>5
    <2>3. Win <= HardCeiling(ratio)
      BY <1>3, <1>5, <2>2, CeilingIsAbove
    <2> QED BY <2>1, <2>3
  <1>7. base \in Nat /\ Estimate(0) = 0
    BY <1>2, <1>5 DEF Estimate, EstimateAt
  <1>8. CASE Parts(held, start, pins.verify, pins.file) <= Win
    <2>1. file = pins.file
      BY <1>8
    <2>2. verify = pins.verify
      BY <1>8, <2>1
    <2> HIDE DEF file, verify
    <2>3. Shed(m).size = Parts(held, start, pins.verify, pins.file)
      BY <1>1, <2>1, <2>2
    <2>4. Parts(held, start, pins.verify, pins.file) \in Nat
      BY <1>2, <1>5, PartsAdd
    <2> QED BY <1>5, <1>6, <1>8, <2>3, <2>4
  <1>9. CASE ~ (Parts(held, start, pins.verify, pins.file) <= Win)
    <2>1. TailSize(start) = 0
      BY <1>4, <1>5, <1>9
    <2>2. ASSUME NEW v \in Nat, NEW f \in Nat
          PROVE  /\ Estimate(v) \in Nat /\ Estimate(f) \in Nat
                 /\ Parts(held, start, v, f) = base + Estimate(v) + Estimate(f)
      <3>1. Estimate(v) \in Nat /\ Estimate(f) \in Nat
        BY <1>3, EstimatesAreNumbers DEF Estimate
      <3>2. Parts(held, start, v, f) = Floor + held + Estimate(v) + Estimate(f) + 0
        BY <2>1, PartsAdd
      <3> QED BY <1>2, <1>5, <3>1, <3>2
    <2>b. ASSUME NEW a \in Nat, NEW x \in Nat, a + x <= Win
          PROVE  a + Estimate(x) <= HardCeiling(ratio)
      BY <1>3, <2>b, CutTextFits DEF Estimate
    <2> HIDE DEF base, pv
    <2>3. fileRoom = Win - (base + pv) - 1 /\ fileRoom \in Int /\ pv \in Nat
      <3>1. Parts(held, start, pins.verify, 0) = base + pv + 0
        <4>1. Parts(held, start, pins.verify, 0) = base + Estimate(pins.verify) + Estimate(0)
          BY <1>5, <2>2
        <4> QED BY <1>7, <4>1 DEF pv
      <3>2. pv \in Nat
        BY <1>5 DEF pv
      <3> QED BY <1>5, <1>7, <3>1, <3>2 DEF CeilSlack
    <2>4. /\ file = TruncatedTo(pins.file, fileRoom) /\ file \in Nat
          /\ fileRoom <= 0 => file = 0
          /\ fileRoom > 0 => file <= fileRoom
      BY <1>5, <1>9, <2>3, TruncatedFits
    <2> HIDE DEF file, fileRoom
    <2>5. base + Estimate(file) <= HardCeiling(ratio)
      <3>1. CASE fileRoom <= 0
        BY <1>2, <1>6, <1>7, <2>4, <3>1
      <3>2. CASE ~ (fileRoom <= 0)
        <4>1. base + file <= Win
          BY <1>5, <1>7, <2>3, <2>4, <3>2
        <4> QED BY <1>7, <2>4, <2>b, <4>1
      <3> QED BY <3>1, <3>2
    <2>6. Estimate(file) \in Nat
      BY <1>5, <2>2, <2>4
    <2>7. CASE Parts(held, start, pins.verify, file) <= Win
      <3>1. verify = pins.verify
        BY <2>7
      <3> HIDE DEF verify
      <3>2. Shed(m).size = Parts(held, start, pins.verify, file)
        BY <1>1, <3>1
      <3>3. Parts(held, start, pins.verify, file) \in Nat
        <4>1. Parts(held, start, pins.verify, file) = base + Estimate(pins.verify) + Estimate(file)
          BY <1>5, <2>2, <2>4
        <4> QED BY <1>5, <1>7, <2>6, <4>1
      <3> QED BY <1>5, <1>6, <2>7, <3>2, <3>3
    <2>8. CASE ~ (Parts(held, start, pins.verify, file) <= Win)
      <3>0. verifyRoom = Win - (base + Estimate(file)) - 1 /\ verifyRoom \in Int
        <4>1. Parts(held, start, 0, file) = base + Estimate(0) + Estimate(file)
          BY <2>2, <2>4
        <4> QED BY <1>5, <1>7, <2>6, <4>1 DEF CeilSlack
      <3>1. verify = TruncatedTo(pins.verify, verifyRoom)
        BY <2>8 DEF VerifyKept
      <3> HIDE DEF verify, verifyRoom
      <3>2. /\ verify \in Nat
            /\ verifyRoom <= 0 => verify = 0
            /\ verifyRoom > 0 => verify <= verifyRoom
        BY <1>5, <3>0, <3>1, TruncatedFits
      <3>3. Shed(m).size = base + Estimate(verify) + Estimate(file) /\ Estimate(verify) \in Nat
        BY <1>1, <2>2, <2>4, <3>2
      <3>4. CASE verifyRoom <= 0
        <4>1. Estimate(verify) = 0
          BY <1>7, <3>2, <3>4
        <4> QED BY <1>6, <1>7, <2>5, <2>6, <3>3, <4>1
      <3>5. CASE ~ (verifyRoom <= 0)
        <4>1. (base + Estimate(file)) + verify <= Win /\ base + Estimate(file) \in Nat
          BY <1>5, <1>7, <2>6, <3>0, <3>2, <3>5
        <4>2. (base + Estimate(file)) + Estimate(verify) <= HardCeiling(ratio)
          BY <2>b, <3>2, <4>1
        <4> QED BY <1>6, <1>7, <2>6, <3>3, <4>2
      <3> QED BY <3>4, <3>5
    <2> QED BY <2>7, <2>8
  <1> QED BY <1>8, <1>9

-----------------------------------------------------------------------------
(* The steps of a run *)

LEMMA MemoryStarts == MemoryInit => MemoryInv
  <1> SUFFICES ASSUME MemoryInit PROVE MemoryInv
    OBVIOUS
  <1>1. NewMemory \in Memories
    <2>1. <<>> \in Seq(Entries)
      OBVIOUS
    <2> QED BY <2>1 DEF Memories, NewMemory
  <1>2. <<>> \in Seq(Messages)
    OBVIOUS
  <1>3. ratio \in CharsPerToken /\ ratio \in 3 .. 10
    BY SizesAreNumbers DEF MemoryInit
  <1> QED BY <1>1, <1>2, <1>3 DEF MemoryInit, MemoryInv, PromptFits

LEMMA NewTaskKeepsMemoryInv ==
    ASSUME MemoryInv, NewTask
    PROVE  MemoryInv'
  <1>1. <<>> \in Seq(Messages)
    OBVIOUS
  <1>2. /\ taskSize' \in Nat /\ pins' \in [verify : Nat, file : Nat] /\ phase' = "ready"
        /\ recap' = recap /\ convo' = <<>> /\ mem' = mem /\ ratio' = ratio
    BY SizesAreNumbers DEF NewTask
  <1> QED BY <1>1, <1>2 DEF MemoryInv, PromptFits

LEMMA AssembleVerbatimKeepsMemoryInv ==
    ASSUME MemoryInv, AssembleVerbatim
    PROVE  MemoryInv'
  <1>1. /\ Whole <= Trigger(Win) /\ prompt'.size = Whole /\ prompt'.ratio = ratio
        /\ UNCHANGED <<taskSize, ratio, recap, convo, pins, mem>>
    BY DEF AssembleVerbatim, Verbatim
  <1>2. 1 \in 1 .. (Len(AllTail) + 1) /\ 0 \in Nat
    BY TailIsTyped
  <1>3. Whole \in Nat
    <2>1. TailSize(1) \in Nat /\ Floor \in Nat /\ Estimate(pins.verify) \in Nat
          /\ Estimate(pins.file) \in Nat
      BY <1>2, PartsAreNumbers
    <2>2. Whole = Floor + 0 + Estimate(pins.verify) + Estimate(pins.file) + TailSize(1)
      BY PartsAdd DEF Whole
    <2> QED BY <2>1, <2>2
  <1>4. Whole <= Win
    BY <1>1, <1>3, WindowIsANumber
  <1>5. Whole <= HardCeiling(ratio)
    BY <1>3, <1>4, CeilingIsAbove DEF MemoryInv
  <1>6. PromptFits'
    <2>1. prompt'.size <= HardCeiling(prompt'.ratio)
      BY <1>1, <1>5
    <2> QED BY <2>1 DEF PromptFits
  <1> QED BY <1>1, <1>6 DEF MemoryInv

\* What a folding request leaves in memory, and what it asks with.
FoldingStep(f, m) ==
    /\ f \in Memories /\ FoldsOn(mem, f, Len(AllTail)) /\ Edits(f) >= Edits(mem)
    /\ m \in Collapsed(ratio, f, SummaryBudget(Win))
    /\ m \in Memories /\ m.folded = f.folded /\ m.compactions = f.compactions
    /\ KeepsEdits(f, m)
    /\ Roomy(ratio, SummaryBudget(Win)) => Settled(ratio, m, SummaryBudget(Win))
    /\ mem' = m
    /\ IF m.folded > Len(AllTail)
       THEN phase' = "panicked" /\ UNCHANGED prompt
       ELSE phase' = "asked" /\ prompt' = Asked(Shed(m), m)

LEMMA FoldingIs ==
    ASSUME MemoryInv, AssembleFolding
    PROVE  \E f, m : FoldingStep(f, m)
  <1> DEFINE budget == HotBudget(Win) - Estimate(pins.verify) - Estimate(pins.file)
             cut(m) == [m EXCEPT !.folded = TailFrom(m) - 1]
             f == Folded(mem, budget)
  <1>1. PICK m \in Collapsed(ratio, f, SummaryBudget(Win)) :
           /\ mem' = m
           /\ IF m.folded > Len(AllTail)
              THEN phase' = "panicked" /\ UNCHANGED prompt
              ELSE phase' = "asked" /\ prompt' = Asked(Shed(cut(m)), m)
    BY DEF AssembleFolding
  <1>2. budget \in Int
    <2>1. pins.verify \in Nat /\ pins.file \in Nat /\ ratio \in 3 .. 10
      BY DEF MemoryInv
    <2>2. Estimate(pins.verify) \in Nat /\ Estimate(pins.file) \in Nat
      BY <2>1, EstimatesAreNumbers DEF Estimate
    <2> QED BY <2>2, WindowIsANumber
  <1> HIDE DEF budget
  <1>3. f \in Memories /\ FoldsOn(mem, f, Len(AllTail)) /\ Edits(f) >= Edits(mem)
    BY <1>2, FoldedIs
  <1> HIDE DEF f
  <1>4. SummaryBudget(Win) \in Nat
    <2>1. Trigger(Win) \in Nat
      BY WindowIsANumber
    <2> QED BY <2>1 DEF SummaryBudget, Percent
  <1>5. /\ m \in Memories /\ m.folded = f.folded /\ m.compactions = f.compactions
        /\ KeepsEdits(f, m)
        /\ Roomy(ratio, SummaryBudget(Win)) => Settled(ratio, m, SummaryBudget(Win))
    BY <1>1, <1>3, <1>4, CollapseSettles DEF MemoryInv
  <1>6. cut(m) = m
    <2>1. TailFrom(m) - 1 = m.folded
      BY <1>5 DEF TailFrom, Memories
    <2> QED BY <1>5, <2>1 DEF Memories
  <1>7. FoldingStep(f, m)
    BY <1>1, <1>3, <1>5, <1>6 DEF FoldingStep
  <1> QED BY <1>7

LEMMA AssembleFoldingKeepsMemoryInv ==
    ASSUME MemoryInv, AssembleFolding
    PROVE  MemoryInv'
  <1>1. PICK f, m : FoldingStep(f, m)
    BY FoldingIs
  <1>2. /\ SystemTokens + Estimate(taskSize) <= Win
        /\ UNCHANGED <<taskSize, ratio, recap, convo, pins>>
    BY DEF AssembleFolding
  <1>3. m \in Memories /\ mem' = m
    BY <1>1 DEF FoldingStep
  <1>4. PromptFits'
    <2>1. CASE m.folded > Len(AllTail)
      BY <1>1, <2>1 DEF PromptFits, FoldingStep
    <2>2. CASE ~ (m.folded > Len(AllTail))
      <3>1. m.folded \in 0 .. Len(AllTail)
        BY <1>3, <2>2, TailIsTyped DEF Memories
      <3>2. Floor <= Win
        BY <1>2 DEF Floor
      <3>3. Shed(m).size <= HardCeiling(ratio)
        BY <1>3, <3>1, <3>2, ShedFits
      <3>4. prompt'.size = Shed(m).size /\ prompt'.ratio = ratio
        BY <1>1, <2>2 DEF Asked, FoldingStep
      <3> QED BY <3>3, <3>4 DEF PromptFits
    <2> QED BY <2>1, <2>2
  <1> QED BY <1>2, <1>3, <1>4 DEF MemoryInv

LEMMA TurnKeepsMemoryInv ==
    ASSUME MemoryInv, NEW call \in Messages, NEW result \in Messages, ActsOn(call, result),
           pins' \in [verify : Nat, file : Nat]
    PROVE  MemoryInv'
  <1>1. /\ phase' = "ready" /\ convo' = convo \o <<call, result>>
        /\ UNCHANGED <<recap, taskSize, mem>>
    BY DEF ActsOn
  <1>2. convo' \in Seq(Messages)
    BY <1>1 DEF MemoryInv
  <1>3. ratio' \in CharsPerToken /\ ratio' \in 3 .. 10
    BY SizesAreNumbers DEF ActsOn
  <1> QED BY <1>1, <1>2, <1>3 DEF MemoryInv, PromptFits

LEMMA NextKeepsMemoryInv ==
    ASSUME MemoryInv, [MemoryNext]_memoryVars
    PROVE  MemoryInv'
  <1>0. /\ Message("edit", 2) \in Messages /\ Message("note", 1) \in Messages
        /\ Message("command", 1) \in Messages /\ Message("failure", 1) \in Messages
        /\ Message("say", 1) \in Messages /\ Message("look", 1) \in Messages
        /\ Message("dump", DumpSize) \in Messages
    BY SizesAreNumbers DEF Message, Messages, Kinds
  <1>a. pins \in [verify : Nat, file : Nat]
    BY DEF MemoryInv
  <1>1. CASE NewTask
    BY <1>1, NewTaskKeepsMemoryInv
  <1>2. CASE AssembleVerbatim
    BY <1>2, AssembleVerbatimKeepsMemoryInv
  <1>3. CASE AssembleFolding
    BY <1>3, AssembleFoldingKeepsMemoryInv
  <1>4. CASE WindowTooSmall
    BY <1>4 DEF WindowTooSmall, MemoryInv, PromptFits
  <1>5. CASE EditTurn
    <2>1. pins' \in [verify : Nat, file : Nat]
      BY <1>5, SizesAreNumbers DEF EditTurn
    <2>2. ActsOn(Message("edit", 2), Message("note", 1))
      BY <1>5 DEF EditTurn
    <2> QED BY <1>0, <2>1, <2>2, TurnKeepsMemoryInv
  <1>6. CASE RunCommand
    <2>1. ActsOn(Message("command", 1), Message("failure", 1)) /\ pins' = pins
      BY <1>6 DEF RunCommand
    <2> QED BY <1>0, <1>a, <2>1, TurnKeepsMemoryInv
  <1>7. CASE Prose
    <2>1. ActsOn(Message("say", 1), Message("note", 1)) /\ pins' = pins
      BY <1>7 DEF Prose
    <2> QED BY <1>0, <1>a, <2>1, TurnKeepsMemoryInv
  <1>8. CASE ReadFile
    <2>1. /\ pins' = pins
          /\ \/ ActsOn(Message("look", 1), Message("note", 1))
             \/ ActsOn(Message("look", 1), Message("dump", DumpSize))
      BY <1>8 DEF ReadFile
    <2> QED BY <1>0, <1>a, <2>1, TurnKeepsMemoryInv
  <1>9. CASE FinishTask
    <2>1. /\ phase' = "between" /\ recap' = Append(recap, Message("note", 1))
          /\ UNCHANGED <<taskSize, convo, pins, mem>>
      BY <1>9 DEF FinishTask
    <2>2. recap' \in Seq(Messages)
      BY <1>0, <2>1 DEF MemoryInv
    <2>3. ratio' \in CharsPerToken /\ ratio' \in 3 .. 10
      BY <1>9, SizesAreNumbers DEF FinishTask
    <2> QED BY <2>1, <2>2, <2>3 DEF MemoryInv, PromptFits
  <1>10. CASE UNCHANGED memoryVars
    BY <1>10 DEF memoryVars, MemoryInv, PromptFits
  <1> QED BY <1>1, <1>2, <1>3, <1>4, <1>5, <1>6, <1>7, <1>8, <1>9, <1>10 DEF MemoryNext

\* What Assemble returns fits the window, however large the verify's output, the
\* file, the summary and the history are (memory.go Assemble, its shed steps), while a
\* token is of 4 characters or more; below that it is no larger than a window of texts
\* of 4 characters a token is at the learned ratio.
THEOREM PromptsFit == MemorySpec => []PromptFits
  <1>1. MemoryInit => MemoryInv
    BY MemoryStarts
  <1>2. MemoryInv /\ [MemoryNext]_memoryVars => MemoryInv'
    BY NextKeepsMemoryInv
  <1>3. MemoryInv => PromptFits
    BY DEF MemoryInv
  <1> QED BY <1>1, <1>2, <1>3, PTL DEF MemorySpec
-----------------------------------------------------------------------------
(* What a step does to the memory and to the messages *)

LEMMA OnlyFoldingChangesMemory ==
    ASSUME [MemoryNext]_memoryVars, ~AssembleFolding
    PROVE  mem' = mem
  BY DEF MemoryNext, NewTask, AssembleVerbatim, WindowTooSmall, EditTurn, RunCommand, Prose,
         ReadFile, ActsOn, FinishTask, memoryVars

LEMMA EditsOutlastAStep ==
    ASSUME MemoryInv, [MemoryNext]_memoryVars
    PROVE  EditsOutlast
  <1>1. mem \in Memories /\ Edits(mem) \in Nat
    BY EditsAreCounted DEF MemoryInv, Memories, Edits
  <1>2. EditsOutlast <=> (Edits(mem') < Edits(mem) => \A e \in Range(mem'.entries) : Durable(e))
    BY DEF EditsOutlast, Edits, EditsIn
  <1>3. CASE ~AssembleFolding
    <2>1. mem' = mem
      BY <1>3, OnlyFoldingChangesMemory
    <2> QED BY <1>1, <1>2, <2>1
  <1>4. CASE AssembleFolding
    <2>1. PICK f, m : FoldingStep(f, m)
      BY <1>4, FoldingIs
    <2>2. /\ mem' = m /\ m \in Memories /\ f \in Memories
          /\ Edits(f) >= Edits(mem) /\ (AllOfRecord(m) \/ Edits(m) >= Edits(f))
      BY <2>1 DEF FoldingStep, KeepsEdits
    <2>3. Edits(m) \in Nat /\ Edits(f) \in Nat
      BY <2>2, EditsAreCounted DEF Memories, Edits
    <2>4. CASE AllOfRecord(m)
      BY <1>2, <2>2, <2>4 DEF AllOfRecord, Range
    <2>5. CASE Edits(m) >= Edits(f)
      BY <1>1, <1>2, <2>2, <2>3, <2>5
    <2> QED BY <2>2, <2>4, <2>5
  <1> QED BY <1>3, <1>4

LEMMA TwoMore ==
    ASSUME NEW s \in Seq(Messages), NEW two \in Seq(Messages), Len(two) = 2
    PROVE  /\ s \o two \in Seq(Messages) /\ Len(s \o two) = Len(s) + 2
           /\ \A i \in 1 .. Len(s) : (s \o two)[i] = s[i]
           /\ (s \o two)[Len(s) + 2] = two[2]
  <1>1. Len(s) \in Nat
    OBVIOUS
  <1>2. /\ s \o two \in Seq(Messages) /\ Len(s \o two) = Len(s) + Len(two)
        /\ \A i \in 1 .. Len(s) : (s \o two)[i] = s[i]
        /\ \A i \in 1 .. Len(two) : (s \o two)[i + Len(s)] = two[i]
    BY Joined
  <1>3. 2 \in 1 .. Len(two) /\ 2 + Len(s) = Len(s) + 2
    BY <1>1
  <1> QED BY <1>2, <1>3

\* A turn adds two messages to what is there.
LEMMA TailGrows ==
    ASSUME MemoryInv, NEW call \in Messages, NEW result \in Messages, ActsOn(call, result)
    PROVE  /\ AllTail \in Seq(Messages) /\ Len(AllTail) \in Nat
           /\ AllTail' \in Seq(Messages) /\ Len(AllTail') = Len(AllTail) + 2
           /\ \A i \in 1 .. Len(AllTail) : AllTail'[i] = AllTail[i]
           /\ AllTail'[Len(AllTail) + 2] = result
  <1>1. recap \in Seq(Messages) /\ convo \in Seq(Messages) /\ Len(recap) \in Nat /\ Len(convo) \in Nat
    BY DEF MemoryInv
  <1>2. recap' = recap /\ convo' = convo \o <<call, result>>
    BY DEF ActsOn
  <1>3. <<call, result>> \in Seq(Messages) /\ Len(<<call, result>>) = 2 /\ <<call, result>>[2] = result
    OBVIOUS
  <1>4. /\ convo' \in Seq(Messages) /\ Len(convo') = Len(convo) + 2
        /\ \A i \in 1 .. Len(convo) : convo'[i] = convo[i]
        /\ convo'[Len(convo) + 2] = result
    BY <1>1, <1>2, <1>3, TwoMore
  <1>5. AllTail' = recap \o convo'
    BY <1>2 DEF AllTail
  <1>6. AllTail' \in Seq(Messages) /\ Len(AllTail') = Len(recap) + Len(convo) + 2
    <2>1. recap \o convo' \in Seq(Messages) /\ Len(recap \o convo') = Len(recap) + Len(convo')
      BY <1>1, <1>4, Joined
    <2> QED BY <1>1, <1>4, <1>5, <2>1
  <1>7. AllTail \in Seq(Messages) /\ Len(AllTail) = Len(recap) + Len(convo)
    BY <1>1 DEF AllTail
  <1>8. ASSUME NEW i \in 1 .. Len(AllTail) PROVE AllTail'[i] = AllTail[i]
    <2>1. CASE i <= Len(recap)
      BY <1>1, <1>4, <1>5, <1>7, <2>1 DEF AllTail
    <2>2. CASE ~ (i <= Len(recap))
      <3>1. i - Len(recap) \in 1 .. Len(convo)
        BY <1>1, <1>7, <2>2
      <3>2. AllTail[i] = convo[i - Len(recap)]
        BY <1>1, <1>7, <2>2 DEF AllTail
      <3>3. AllTail'[i] = convo'[i - Len(recap)]
        BY <1>1, <1>4, <1>5, <1>7, <2>2
      <3> QED BY <1>4, <3>1, <3>2, <3>3
    <2> QED BY <2>1, <2>2
  <1>9. AllTail'[Len(AllTail) + 2] = result
    <2>1. AllTail'[Len(AllTail) + 2] = convo'[(Len(AllTail) + 2) - Len(recap)]
      BY <1>1, <1>4, <1>5, <1>7
    <2>2. (Len(AllTail) + 2) - Len(recap) = Len(convo) + 2
      BY <1>1, <1>7
    <2> QED BY <1>4, <2>1, <2>2
  <1> QED BY <1>1, <1>6, <1>7, <1>8, <1>9

\* What is not shed is as memory has it.
LEMMA UnshedIsWhole ==
    ASSUME NEW m, ~Shed(m).shed
    PROVE  Shed(m).summary = SummaryEntries(m) /\ Shed(m).from = m.folded + 1
  BY DEF Shed

LEMMA AskedIs ==
    ASSUME NEW m
    PROVE  /\ Asked(Shed(m), m).task = tasks /\ Asked(Shed(m), m).upto = Len(AllTail)
           /\ Asked(Shed(m), m).folding = TRUE
           /\ Asked(Shed(m), m).from = Shed(m).from
           /\ Asked(Shed(m), m).summary = Shed(m).summary
           /\ Asked(Shed(m), m).shed = Shed(m).shed /\ Asked(Shed(m), m).ratio = ratio
  BY DEF Asked

-----------------------------------------------------------------------------
(* Pointers *)

\* The mark of a dump that is in the conversation, above the boundary of the folded
\* unless a compaction came since.
MarkIsTrue ==
    mark # NoMark =>
      /\ mark.at \in 1 .. Len(AllTail) /\ AllTail[mark.at].kind = "dump"
      /\ mark.compactions \in Nat /\ mark.compactions <= mem.compactions
      /\ mark.compactions = mem.compactions => mark.at > mem.folded

PointerInv ==
    /\ phase \in {"ready", "asked", "between"} /\ tasks \in Nat
    /\ tasks = 0 => phase = "between" /\ recap = <<>> /\ mem.folded = 0
    /\ mark.served \in Nat
    /\ phase # "between" => mem.folded <= Len(AllTail) /\ MarkIsTrue
    /\ phase = "asked" /\ ~prompt.shed => prompt.from \in {1, mem.folded + 1}

LEMMA PointersStart == MemoryInit => PointerInv
  BY DEF MemoryInit, PointerInv, NoMark, NewMemory

\* What does not touch the run's messages, its mark and its memory.
LEMMA QuietStep ==
    ASSUME PointerInv, UNCHANGED <<tasks, recap, convo, mem, mark>>,
           phase' = "between" \/ (phase' = phase /\ prompt' = prompt),
           tasks = 0 => UNCHANGED phase
    PROVE  PointerInv'
  BY DEF PointerInv, MarkIsTrue, AllTail

LEMMA FoldingKeepsPointers ==
    ASSUME MemoryInv, PointerInv, AssembleFolding
    PROVE  PointerInv'
  <1>1. PICK f, m : FoldingStep(f, m)
    BY FoldingIs
  <1>2. /\ phase = "ready" /\ UNCHANGED <<tasks, recap, convo, mark>> /\ AllTail' = AllTail
    BY DEF AssembleFolding, AllTail
  <1>3. /\ mem' = m /\ m.folded = f.folded /\ m.compactions = f.compactions
        /\ FoldsOn(mem, f, Len(AllTail))
        /\ m.folded \in Nat /\ m.compactions \in Nat
    BY <1>1 DEF FoldingStep, Memories
  <1>4. /\ mem.folded \in Nat /\ mem.compactions \in Nat /\ Len(AllTail) \in Nat
    BY TailIsTyped DEF MemoryInv, Memories
  <1>5. \/ m.folded = mem.folded /\ m.compactions = mem.compactions
        \/ m.folded <= Len(AllTail) /\ m.compactions = mem.compactions + 1
    BY <1>3, <1>4 DEF FoldsOn
  <1>6. tasks # 0 /\ tasks \in Nat /\ mark.served \in Nat /\ mem.folded <= Len(AllTail) /\ MarkIsTrue
    BY <1>2 DEF PointerInv
  <1>7. m.folded <= Len(AllTail)
    BY <1>4, <1>5, <1>6
  <1>8. MarkIsTrue'
    <2>1. CASE m.folded = mem.folded /\ m.compactions = mem.compactions
      BY <1>2, <1>3, <1>6, <2>1 DEF MarkIsTrue
    <2>2. CASE m.compactions = mem.compactions + 1
      <3> SUFFICES ASSUME mark # NoMark
                   PROVE  /\ mark.at \in 1 .. Len(AllTail) /\ AllTail[mark.at].kind = "dump"
                          /\ mark.compactions \in Nat /\ mark.compactions <= m.compactions
                          /\ mark.compactions # m.compactions
        BY <1>2, <1>3 DEF MarkIsTrue
      <3>1. /\ mark.at \in 1 .. Len(AllTail) /\ AllTail[mark.at].kind = "dump"
            /\ mark.compactions \in Nat /\ mark.compactions <= mem.compactions
        BY <1>6 DEF MarkIsTrue
      <3> QED BY <1>4, <2>2, <3>1
    <2> QED BY <1>5, <2>1, <2>2
  <1>9. phase' = "asked" /\ prompt' = Asked(Shed(m), m)
    <2>1. ~ (m.folded > Len(AllTail))
      BY <1>3, <1>4, <1>7
    <2> QED BY <1>1, <2>1 DEF FoldingStep
  <1>10. ~prompt'.shed => prompt'.from = m.folded + 1
    BY <1>9, AskedIs, UnshedIsWhole
  <1> QED BY <1>2, <1>3, <1>6, <1>7, <1>8, <1>9, <1>10 DEF PointerInv

LEMMA TurnKeepsPointers ==
    ASSUME MemoryInv, PointerInv, NEW call \in Messages, NEW result \in Messages,
           ActsOn(call, result),
           \/ mark' = mark
           \/ mark # NoMark /\ mark' = [mark EXCEPT !.served = @ + 1]
           \/ /\ result.kind = "dump"
              /\ mark' = [version |-> version, compactions |-> mem.compactions, served |-> 0,
                          at |-> Len(AllTail) + 2]
    PROVE  PointerInv'
  <1>1. /\ AllTail \in Seq(Messages) /\ Len(AllTail) \in Nat
        /\ AllTail' \in Seq(Messages) /\ Len(AllTail') = Len(AllTail) + 2
        /\ \A i \in 1 .. Len(AllTail) : AllTail'[i] = AllTail[i]
        /\ AllTail'[Len(AllTail) + 2] = result
    BY TailGrows
  <1>2. phase = "asked" /\ phase' = "ready" /\ UNCHANGED <<tasks, recap, mem>>
    BY DEF ActsOn
  <1>3. tasks # 0 /\ tasks \in Nat /\ mark.served \in Nat /\ mem.folded <= Len(AllTail) /\ MarkIsTrue
    BY <1>2 DEF PointerInv
  <1>4. mem.folded \in Nat /\ mem.compactions \in Nat
    BY DEF MemoryInv, Memories
  <1>5. CASE mark' = mark
    <2>1. MarkIsTrue'
      BY <1>1, <1>2, <1>3, <1>5 DEF MarkIsTrue
    <2> QED BY <1>1, <1>2, <1>3, <1>4, <1>5, <2>1 DEF PointerInv
  <1>6. CASE mark # NoMark /\ mark' = [mark EXCEPT !.served = @ + 1]
    <2>1. /\ mark.at \in 1 .. Len(AllTail) /\ AllTail[mark.at].kind = "dump"
          /\ mark.compactions \in Nat /\ mark.compactions <= mem.compactions
          /\ mark.compactions = mem.compactions => mark.at > mem.folded
      BY <1>3, <1>6 DEF MarkIsTrue
    <2>2. mark'.at = mark.at /\ mark'.compactions = mark.compactions
      BY <1>6
    <2>3. mark'.served \in Nat
      <3>1. mark.served + 1 \in Nat
        BY <1>3
      <3>2. mark' = [mark EXCEPT !.served = mark.served + 1]
        BY <1>6
      <3>3. mark'.served = mark.served + 1 \/ mark'.served = mark.served
        BY <3>2
      <3> QED BY <1>3, <3>1, <3>3
    <2>4. MarkIsTrue'
      <3>1. mark'.at \in 1 .. Len(AllTail') /\ AllTail'[mark'.at].kind = "dump"
        BY <1>1, <2>1, <2>2
      <3> QED BY <1>2, <2>1, <2>2, <3>1 DEF MarkIsTrue
    <2> QED BY <1>1, <1>2, <1>3, <1>4, <2>3, <2>4 DEF PointerInv
  <1>7. CASE /\ result.kind = "dump"
             /\ mark' = [version |-> version, compactions |-> mem.compactions, served |-> 0,
                         at |-> Len(AllTail) + 2]
    <2>1. mark'.at = Len(AllTail) + 2 /\ mark'.compactions = mem.compactions /\ mark'.served = 0
      BY <1>7
    <2>2. MarkIsTrue'
      <3>1. mark'.at \in 1 .. Len(AllTail') /\ AllTail'[mark'.at].kind = "dump"
        BY <1>1, <1>7, <2>1
      <3>2. mark'.at > mem.folded
        BY <1>1, <1>3, <1>4, <2>1
      <3> QED BY <1>2, <1>4, <2>1, <3>1, <3>2 DEF MarkIsTrue
    <2> QED BY <1>1, <1>2, <1>3, <1>4, <2>1, <2>2 DEF PointerInv
  <1> QED BY <1>5, <1>6, <1>7

LEMMA MessagesAreMessages ==
    /\ Message("edit", 2) \in Messages /\ Message("note", 1) \in Messages
    /\ Message("command", 1) \in Messages /\ Message("failure", 1) \in Messages
    /\ Message("say", 1) \in Messages /\ Message("look", 1) \in Messages
    /\ Message("dump", DumpSize) \in Messages /\ Message("dump", DumpSize).kind = "dump"
  BY SizesAreNumbers DEF Message, Messages, Kinds

\* A read of the file is answered with a pointer, or with a dump that is marked.
ReadsFile(result) ==
    /\ ActsOn(Message("look", 1), result) /\ result \in Messages
    /\ \/ StillThere /\ mark' = [mark EXCEPT !.served = @ + 1]
       \/ /\ result.kind = "dump"
          /\ mark' = [version |-> version, compactions |-> mem.compactions, served |-> 0,
                      at |-> Len(AllTail) + 2]

LEMMA ReadFileReads ==
    ASSUME ReadFile
    PROVE  \E result : ReadsFile(result)
  <1>1. CASE StillThere
    <2>1. ReadsFile(Message("note", 1))
      BY <1>1, MessagesAreMessages DEF ReadFile, ReadsFile
    <2> QED BY <2>1
  <1>2. CASE ~StillThere
    <2>1. ReadsFile(Message("dump", DumpSize))
      BY <1>2, MessagesAreMessages DEF ReadFile, ReadsFile
    <2> QED BY <2>1
  <1> QED BY <1>1, <1>2

LEMMA NextKeepsPointers ==
    ASSUME Submissions <= 1, MemoryInv, PointerInv, [MemoryNext]_memoryVars
    PROVE  PointerInv'
  <1>1. CASE NewTask
    <2>1. /\ tasks < Submissions /\ phase' = "ready" /\ tasks' = tasks + 1 /\ mark' = NoMark
          /\ UNCHANGED <<mem, recap>>
      BY <1>1 DEF NewTask
    <2>2. tasks = 0
      <3>1. Submissions \in Nat /\ tasks \in Nat
        BY WorkingMemoryAssumption DEF PointerInv
      <3> QED BY <2>1, <3>1
    <2>3. mem.folded = 0
      BY <2>2 DEF PointerInv
    <2>4. Len(AllTail') \in Nat
      <3>1. recap \in Seq(Messages) /\ <<>> \in Seq(Messages) /\ recap' = recap /\ convo' = <<>>
        BY <1>1 DEF MemoryInv, NewTask
      <3>2. recap \o <<>> \in Seq(Messages)
        BY <3>1
      <3> QED BY <3>1, <3>2 DEF AllTail
    <2> QED BY <2>1, <2>2, <2>3, <2>4 DEF PointerInv, MarkIsTrue, NoMark
  <1>2. CASE AssembleVerbatim
    <2>1. /\ phase = "ready" /\ phase' = "asked" /\ prompt'.from = 1
          /\ UNCHANGED <<tasks, recap, convo, mem, mark>>
      BY <1>2 DEF AssembleVerbatim
    <2> QED BY <2>1 DEF PointerInv, MarkIsTrue, AllTail
  <1>3. CASE AssembleFolding
    BY <1>3, FoldingKeepsPointers
  <1>4. CASE WindowTooSmall
    <2>1. phase = "ready" /\ phase' = "between" /\ UNCHANGED <<tasks, recap, convo, mem, mark>>
      BY <1>4 DEF WindowTooSmall
    <2>2. tasks # 0
      BY <2>1 DEF PointerInv
    <2> QED BY <2>1, <2>2, QuietStep
  <1>5. CASE EditTurn
    <2>1. ActsOn(Message("edit", 2), Message("note", 1)) /\ mark' = mark
      BY <1>5 DEF EditTurn
    <2> QED BY <2>1, MessagesAreMessages, TurnKeepsPointers
  <1>6. CASE RunCommand
    <2>1. ActsOn(Message("command", 1), Message("failure", 1)) /\ mark' = mark
      BY <1>6 DEF RunCommand
    <2> QED BY <2>1, MessagesAreMessages, TurnKeepsPointers
  <1>7. CASE Prose
    <2>1. ActsOn(Message("say", 1), Message("note", 1)) /\ mark' = mark
      BY <1>7 DEF Prose
    <2> QED BY <2>1, MessagesAreMessages, TurnKeepsPointers
  <1>8. CASE ReadFile
    <2>1. PICK result : ReadsFile(result)
      BY <1>8, ReadFileReads
    <2> QED BY <2>1, MessagesAreMessages, TurnKeepsPointers DEF ReadsFile, StillThere
  <1>9. CASE FinishTask
    <2>1. /\ phase = "asked" /\ phase' = "between" /\ UNCHANGED <<tasks, mem, mark>>
      BY <1>9 DEF FinishTask
    <2> QED BY <2>1 DEF PointerInv
  <1>10. CASE UNCHANGED memoryVars
    <2>1. UNCHANGED <<phase, prompt, tasks, recap, convo, mem, mark>>
      BY <1>10 DEF memoryVars
    <2> QED BY <2>1, QuietStep
  <1> QED BY <1>1, <1>2, <1>3, <1>4, <1>5, <1>6, <1>7, <1>8, <1>9, <1>10 DEF MemoryNext

\* A pointer is only ever given to a read whose mark still holds.
LEMMA OnlyReadsServe ==
    ASSUME PointerInv, [MemoryNext]_memoryVars, mark'.served > mark.served
    PROVE  ReadFile
  <1>1. mark.served \in Nat
    BY DEF PointerInv
  <1>2. CASE NewTask
    <2>1. mark'.served = 0
      BY <1>2 DEF NewTask, NoMark
    <2> QED BY <1>1, <2>1
  <1>3. CASE mark' = mark
    BY <1>1, <1>3
  <1> QED BY <1>2, <1>3 DEF MemoryNext, AssembleVerbatim, AssembleFolding, WindowTooSmall,
                            EditTurn, RunCommand, Prose, FinishTask, memoryVars

LEMMA PointersAreTrueInAStep ==
    ASSUME MemoryInv, PointerInv, [MemoryNext]_memoryVars
    PROVE  PointersAreTrue
  <1> SUFFICES ASSUME mark'.served > mark.served, ~prompt.shed
               PROVE  mark.at >= prompt.from /\ AllTail[mark.at].kind = "dump"
    BY DEF PointersAreTrue
  <1>1. PICK result : ReadsFile(result)
    BY OnlyReadsServe, ReadFileReads
  <1>2. phase = "asked" /\ mark.served \in Nat
    BY <1>1 DEF ReadsFile, ActsOn, PointerInv
  <1>3. StillThere
    <2>1. ~ (mark'.served = 0)
      BY <1>2
    <2> QED BY <1>1, <2>1 DEF ReadsFile
  <1>4. /\ mark.at \in 1 .. Len(AllTail) /\ AllTail[mark.at].kind = "dump"
        /\ mark.at > mem.folded
    BY <1>2, <1>3 DEF PointerInv, MarkIsTrue, StillThere
  <1>5. prompt.from = 1 \/ prompt.from = mem.folded + 1
    BY <1>2 DEF PointerInv
  <1>6. mem.folded \in Nat /\ Len(AllTail) \in Nat
    BY TailIsTyped DEF MemoryInv, Memories
  <1> QED BY <1>4, <1>5, <1>6

-----------------------------------------------------------------------------
(* The layout of a request and its stable part *)

\* What joining two sequences gives.
Joins(T, a, b) ==
    /\ a \o b \in Seq(T) /\ Len(a \o b) = Len(a) + Len(b)
    /\ \A j \in 1 .. Len(a) : (a \o b)[j] = a[j]
    /\ \A j \in 1 .. Len(b) : (a \o b)[j + Len(a)] = b[j]

LEMMA AllJoin ==
    ASSUME NEW T
    PROVE  \A a, b \in Seq(T) : Joins(T, a, b)
  <1> SUFFICES ASSUME NEW a \in Seq(T), NEW b \in Seq(T) PROVE Joins(T, a, b)
    OBVIOUS
  <1> QED BY Joined DEF Joins

FourJoin(T, a, v, f, t) ==
    LET s == ((a \o v) \o f) \o t
    IN  /\ s \in Seq(T) /\ Len(s) = Len(a) + Len(v) + Len(f) + Len(t)
        /\ \A i \in 1 .. Len(a) : s[i] = a[i]
        /\ \A i \in 1 .. Len(v) : s[i + Len(a)] = v[i]
        /\ \A i \in 1 .. Len(f) : s[i + (Len(a) + Len(v))] = f[i]
        /\ \A i \in 1 .. Len(t) : s[i + (Len(a) + Len(v) + Len(f))] = t[i]

LEMMA FourJoined ==
    ASSUME NEW T, NEW a \in Seq(T), NEW v \in Seq(T), NEW f \in Seq(T), NEW t \in Seq(T)
    PROVE  FourJoin(T, a, v, f, t)
  <1> DEFINE b == a \o v
             c == b \o f
             s == c \o t
  <1>0. Len(a) \in Nat /\ Len(v) \in Nat /\ Len(f) \in Nat /\ Len(t) \in Nat
    OBVIOUS
  <1>1. /\ b \in Seq(T) /\ Len(b) = Len(a) + Len(v)
        /\ \A i \in 1 .. Len(a) : b[i] = a[i]
        /\ \A i \in 1 .. Len(v) : b[i + Len(a)] = v[i]
    <2>1. Joins(T, a, v)
      BY AllJoin
    <2> QED BY <2>1 DEF Joins
  <1> HIDE DEF b
  <1>2. /\ c \in Seq(T) /\ Len(c) = Len(b) + Len(f)
        /\ \A i \in 1 .. Len(b) : c[i] = b[i]
        /\ \A i \in 1 .. Len(f) : c[i + Len(b)] = f[i]
    <2>1. Joins(T, b, f)
      BY <1>1, AllJoin
    <2> QED BY <2>1 DEF Joins
  <1> HIDE DEF c
  <1>3. /\ s \in Seq(T) /\ Len(s) = Len(c) + Len(t)
        /\ \A i \in 1 .. Len(c) : s[i] = c[i]
        /\ \A i \in 1 .. Len(t) : s[i + Len(c)] = t[i]
    <2>1. Joins(T, c, t)
      BY <1>2, AllJoin
    <2> QED BY <2>1 DEF Joins
  <1> HIDE DEF s
  <1>4. Len(b) = Len(a) + Len(v) /\ Len(c) = Len(a) + Len(v) + Len(f)
        /\ Len(s) = Len(a) + Len(v) + Len(f) + Len(t)
    BY <1>0, <1>1, <1>2, <1>3
  <1>5. ASSUME NEW i \in 1 .. Len(a) PROVE s[i] = a[i]
    <2>1. i \in 1 .. Len(b) /\ i \in 1 .. Len(c)
      BY <1>0, <1>4
    <2> QED BY <1>1, <1>2, <1>3, <2>1
  <1>6. ASSUME NEW i \in 1 .. Len(v) PROVE s[i + Len(a)] = v[i]
    <2>1. i + Len(a) \in 1 .. Len(b) /\ i + Len(a) \in 1 .. Len(c)
      BY <1>0, <1>4
    <2> QED BY <1>1, <1>2, <1>3, <2>1
  <1>7. ASSUME NEW i \in 1 .. Len(f) PROVE s[i + (Len(a) + Len(v))] = f[i]
    <2>1. i + (Len(a) + Len(v)) \in 1 .. Len(c)
      BY <1>0, <1>4
    <2> QED BY <1>2, <1>3, <1>4, <2>1
  <1>8. \A i \in 1 .. Len(t) : s[i + (Len(a) + Len(v) + Len(f))] = t[i]
    BY <1>3, <1>4
  <1>9. s = ((a \o v) \o f) \o t
    BY DEF s, c, b
  <1> QED BY <1>3, <1>4, <1>5, <1>6, <1>7, <1>8, <1>9, Zenon DEF FourJoin

\* The last part that is no map, when only maps follow the k parts below the la-th.
NoMaps(s) == {i \in 1 .. Len(s) : s[i][1] # "map"}

OnlyMapsAfter(s, la, k) ==
    /\ la >= 1 /\ la + k <= Len(s) /\ s[1][1] # "map"
    /\ \A i \in 1 .. k : s[i + la][1] # "map"
    /\ \A i \in (la + k + 1) .. Len(s) : s[i][1] = "map"

LEMMA LastIs ==
    ASSUME NEW T, NEW s \in Seq(T), NEW la \in Nat, NEW k \in Nat, OnlyMapsAfter(s, la, k)
    PROVE  /\ NoMaps(s) # {} /\ Max(NoMaps(s)) - k \in 0 .. la
           /\ s[la][1] # "map" => Max(NoMaps(s)) - k = la
  <1> DEFINE I == NoMaps(s)
  <1>a. /\ la >= 1 /\ la + k <= Len(s) /\ s[1][1] # "map"
        /\ \A i \in 1 .. k : s[i + la][1] # "map"
        /\ \A i \in (la + k + 1) .. Len(s) : s[i][1] = "map"
    BY DEF OnlyMapsAfter
  <1>1. Len(s) \in Nat /\ I \subseteq Int /\ 1 \in I
    BY <1>a DEF NoMaps
  <1>2. \A i \in I : i \in 1 .. (la + k)
    BY <1>a, <1>1 DEF NoMaps
  <1>3. CASE k # 0
    <2>1. la + k \in I
      <3>1. k \in 1 .. k /\ k + la = la + k /\ la + k \in 1 .. Len(s)
        BY <1>a, <1>1, <1>3
      <3>2. s[k + la][1] # "map"
        BY <1>a, <3>1
      <3> QED BY <3>1, <3>2 DEF NoMaps
    <2>2. \A i \in I : i <= la + k
      BY <1>2
    <2>3. Max(I) = la + k
      <3> HIDE DEF I
      <3> QED BY <1>1, <2>1, <2>2, GreatestIs, Zenon
    <2> QED BY <1>1, <2>3
  <1>4. CASE k = 0
    <2>1. \A i \in I : i <= la /\ i >= 1
      BY <1>2, <1>4
    <2>2. \E x \in I : \A y \in I : y <= x
      <3> HIDE DEF I
      <3>1. la \in Int /\ I # {}
        BY <1>1
      <3> QED BY <1>1, <2>1, <3>1, GreatestExists, Zenon
    <2>3. PICK x \in I : \A y \in I : y <= x
      BY <2>2
    <2>4. Max(I) = x
      <3> HIDE DEF I
      <3> QED BY <1>1, <2>3, GreatestIs, Zenon
    <2>5. s[la][1] # "map" => la \in I
      BY <1>a, <1>1, <1>4 DEF NoMaps
    <2> HIDE DEF I
    <2>6. x \in Int /\ x <= la /\ x >= 1 /\ (s[la][1] # "map" => la <= x)
      BY <1>1, <2>1, <2>3, <2>5
    <2> QED BY <1>1, <1>4, <2>4, <2>6 DEF I
  <1> QED BY <1>3, <1>4

\* A request is what is above its pins, then the pins, then the map where it trails.
Top(p) ==
    <<<<"system", IF MapPosition = "system" THEN p.turn ELSE 0>>, <<"task", p.task>>>>
        \o (IF MapPosition = "pinned" THEN <<<<"map", 0>>>> ELSE <<>>)
        \o (IF p.summary = <<>> THEN <<>> ELSE <<<<"summary", p.summary>>>>)
MessagesOf(p) == [i \in 1 .. (p.upto + 1 - p.from) |-> <<"message", p.from + i - 1>>]
Above(p) == Top(p) \o MessagesOf(p)
VerifyOf(p) == IF p.verify = 0 THEN <<>> ELSE <<<<"verify", p.turn>>>>
FileOf(p) == IF p.file = 0 THEN <<>> ELSE <<<<"file", p.turn>>>>
TrailingMap(p) == IF MapPosition = "tail" THEN <<<<"map", p.turn>>>> ELSE <<>>
PartsOf(p) ==
    {<<"system", 0>>, <<"task", p.task>>, <<"map", 0>>, <<"map", p.turn>>,
     <<"summary", p.summary>>, <<"verify", p.turn>>, <<"file", p.turn>>}
        \cup {<<"message", n>> : n \in Int}

LEMMA LayoutIs ==
    ASSUME NEW p
    PROVE  Layout(p) = ((Above(p) \o VerifyOf(p)) \o FileOf(p)) \o TrailingMap(p)
  <1> DEFINE map == IF MapPosition = "pinned" THEN <<"map", 0>> ELSE <<"map", p.turn>>
             pinned == IF MapPosition = "pinned" THEN <<map>> ELSE <<>>
             tail == IF MapPosition = "tail" THEN <<map>> ELSE <<>>
             two == <<<<"system", IF MapPosition = "system" THEN p.turn ELSE 0>>, <<"task", p.task>>>>
             s == IF p.summary = <<>> THEN <<>> ELSE <<<<"summary", p.summary>>>>
             first == IF MapPosition = "pinned" THEN <<<<"map", 0>>>> ELSE <<>>
  <1>1. Layout(p) = two \o pinned \o s \o MessagesOf(p) \o VerifyOf(p) \o FileOf(p) \o tail
    BY Zenon DEF Layout, MessagesOf, VerifyOf, FileOf
  <1>2. pinned = first /\ tail = TrailingMap(p)
    <2>1. CASE MapPosition = "pinned"
      BY <2>1 DEF TrailingMap
    <2>2. CASE MapPosition # "pinned"
      BY <2>2 DEF TrailingMap
    <2> QED BY <2>1, <2>2
  <1>3. Above(p) = two \o first \o s \o MessagesOf(p)
    BY Zenon DEF Above, Top
  <1> HIDE DEF two, s, pinned, tail, first
  <1> QED BY <1>1, <1>2, <1>3, Zenon

LEMMA HeadIs ==
    ASSUME MapPosition # "system", NEW p
    PROVE  /\ Top(p) \in Seq(PartsOf(p)) /\ Len(Top(p)) \in Nat \ {0}
           /\ Top(p)[1] = <<"system", 0>>
  <1> DEFINE T == PartsOf(p)
             two == <<<<"system", 0>>, <<"task", p.task>>>>
             m == IF MapPosition = "pinned" THEN <<<<"map", 0>>>> ELSE <<>>
             s == IF p.summary = <<>> THEN <<>> ELSE <<<<"summary", p.summary>>>>
  <1>1. Top(p) = (two \o m) \o s
    <2> DEFINE first == <<<<"system", IF MapPosition = "system" THEN p.turn ELSE 0>>, <<"task", p.task>>>>
    <2>1. Top(p) = (first \o m) \o s
      BY Zenon DEF Top
    <2>2. first = two
      OBVIOUS
    <2> HIDE DEF first, two, m, s
    <2> QED BY <2>1, <2>2, Zenon
  <1>2. /\ <<"system", 0>> \in T /\ <<"task", p.task>> \in T /\ <<"map", 0>> \in T
        /\ <<"summary", p.summary>> \in T
    BY DEF PartsOf
  <1> HIDE DEF T
  <1>3. two \in Seq(T) /\ Len(two) = 2 /\ two[1] = <<"system", 0>>
    BY <1>2
  <1>4. m \in Seq(T) /\ s \in Seq(T)
    <2>1. <<>> \in Seq(T) /\ <<<<"map", 0>>>> \in Seq(T) /\ <<<<"summary", p.summary>>>> \in Seq(T)
      BY <1>2
    <2> QED BY <2>1
  <1> HIDE DEF two, m, s
  <1>5. Len(m) \in Nat /\ Len(s) \in Nat
    BY <1>4
  <1> DEFINE tm == two \o m
  <1>a. tm \in Seq(T) /\ Len(tm) = Len(two) + Len(m) /\ tm[1] = two[1]
    <2>1. Joins(T, two, m)
      BY <1>3, <1>4, AllJoin
    <2>2. 1 \in 1 .. Len(two)
      BY <1>3
    <2> QED BY <2>1, <2>2 DEF Joins
  <1> HIDE DEF tm
  <1>6. /\ tm \o s \in Seq(T) /\ Len(tm \o s) = Len(two) + Len(m) + Len(s)
        /\ (tm \o s)[1] = two[1]
    <2>1. Joins(T, tm, s)
      BY <1>4, <1>a, AllJoin
    <2>2. 1 \in 1 .. Len(tm)
      BY <1>3, <1>5, <1>a
    <2> QED BY <1>a, <2>1, <2>2 DEF Joins
  <1>7. Len(two) + Len(m) + Len(s) \in Nat \ {0}
    BY <1>3, <1>5
  <1> QED BY <1>1, <1>3, <1>6, <1>7 DEF T, tm

\* What is above the pins.
LEMMA AboveIs ==
    ASSUME MapPosition # "system", NEW p, p.from \in Nat \ {0}, p.upto \in Nat,
           p.from <= p.upto + 1
    PROVE  /\ Above(p) \in Seq(PartsOf(p))
           /\ Len(Above(p)) = Len(Top(p)) + (p.upto + 1 - p.from)
           /\ \A i \in 1 .. Len(Top(p)) : Above(p)[i] = Top(p)[i]
           /\ \A i \in 1 .. (p.upto + 1 - p.from) :
                 Above(p)[i + Len(Top(p))] = <<"message", p.from + i - 1>>
  <1> DEFINE n == p.upto + 1 - p.from
             T == PartsOf(p)
  <1>1. n \in Nat
    OBVIOUS
  <1>2. \A i \in 1 .. n : <<"message", p.from + i - 1>> \in T
    BY DEF PartsOf
  <1>3. MessagesOf(p) = [i \in 1 .. n |-> <<"message", p.from + i - 1>>]
    BY DEF MessagesOf
  <1> HIDE DEF n, T
  <1>4. /\ MessagesOf(p) \in Seq(T) /\ Len(MessagesOf(p)) = n
        /\ \A i \in 1 .. n : MessagesOf(p)[i] = <<"message", p.from + i - 1>>
    BY <1>1, <1>2, <1>3
  <1>5. Top(p) \in Seq(T)
    BY HeadIs DEF T
  <1>6. /\ Top(p) \o MessagesOf(p) \in Seq(T)
        /\ Len(Top(p) \o MessagesOf(p)) = Len(Top(p)) + Len(MessagesOf(p))
        /\ \A i \in 1 .. Len(Top(p)) : (Top(p) \o MessagesOf(p))[i] = Top(p)[i]
        /\ \A i \in 1 .. Len(MessagesOf(p)) :
              (Top(p) \o MessagesOf(p))[i + Len(Top(p))] = MessagesOf(p)[i]
    <2>1. Joins(T, Top(p), MessagesOf(p))
      BY <1>4, <1>5, AllJoin
    <2> QED BY <2>1 DEF Joins
  <1> QED BY <1>4, <1>6 DEF Above, T, n

\* Where the part that is stable ends: at the last message, or above it while none
\* has been sent.
LEMMA BreakpointIs ==
    ASSUME MapPosition # "system", NEW p, p.from \in Nat \ {0}, p.upto \in Nat,
           p.from <= p.upto + 1
    PROVE  /\ Layout(p) \in Seq(PartsOf(p)) /\ Len(Above(p)) \in Nat
           /\ Len(Above(p)) <= Len(Layout(p))
           /\ \A i \in 1 .. Len(Above(p)) : Layout(p)[i] = Above(p)[i]
           /\ Breakpoint(p) \in 0 .. Len(Above(p))
           /\ p.from <= p.upto => Breakpoint(p) = Len(Above(p))
  <1> DEFINE T == PartsOf(p)
             a == Above(p)
             v == VerifyOf(p)
             f == FileOf(p)
             t == TrailingMap(p)
             s == ((a \o v) \o f) \o t
             la == Len(a)
             k == PinsOf(p)
  <1>1. s = Layout(p)
    BY LayoutIs
  <1>2. a \in Seq(T) /\ la \in Nat /\ la >= 1 /\ a[1] = <<"system", 0>>
    <2>1. Len(Top(p)) \in Nat \ {0} /\ Top(p)[1] = <<"system", 0>>
      BY HeadIs
    <2>2. /\ a \in Seq(T) /\ Len(a) = Len(Top(p)) + (p.upto + 1 - p.from)
          /\ \A i \in 1 .. Len(Top(p)) : a[i] = Top(p)[i]
      BY AboveIs
    <2> HIDE DEF a, T
    <2>3. 1 \in 1 .. Len(Top(p)) /\ Len(Top(p)) + (p.upto + 1 - p.from) >= 1
          /\ Len(Top(p)) + (p.upto + 1 - p.from) \in Nat
      BY <2>1
    <2> QED BY <2>1, <2>2, <2>3
  <1>3. /\ v \in Seq(T) /\ (\A i \in 1 .. Len(v) : v[i][1] = "verify")
        /\ Len(v) = IF p.verify = 0 THEN 0 ELSE 1
    <2>1. <<"verify", p.turn>> \in T
      BY DEF PartsOf
    <2> HIDE DEF T
    <2>2. <<>> \in Seq(T) /\ <<<<"verify", p.turn>>>> \in Seq(T)
      BY <2>1
    <2> QED BY <2>2 DEF VerifyOf
  <1>4. /\ f \in Seq(T) /\ (\A i \in 1 .. Len(f) : f[i][1] = "file")
        /\ Len(f) = IF p.file = 0 THEN 0 ELSE 1
    <2>1. <<"file", p.turn>> \in T
      BY DEF PartsOf
    <2> HIDE DEF T
    <2>2. <<>> \in Seq(T) /\ <<<<"file", p.turn>>>> \in Seq(T)
      BY <2>1
    <2> QED BY <2>2 DEF FileOf
  <1>5. t \in Seq(T) /\ \A i \in 1 .. Len(t) : t[i][1] = "map"
    <2>1. <<"map", p.turn>> \in T
      BY DEF PartsOf
    <2> HIDE DEF T
    <2>2. <<>> \in Seq(T) /\ <<<<"map", p.turn>>>> \in Seq(T)
      BY <2>1
    <2> QED BY <2>2 DEF TrailingMap
  <1>6. k = Len(v) + Len(f) /\ k \in Nat
    BY <1>3, <1>4 DEF PinsOf
  <1>7. p.from <= p.upto => a[la][1] = "message"
    <2> SUFFICES ASSUME p.from <= p.upto PROVE a[la][1] = "message"
      OBVIOUS
    <2> DEFINE n == p.upto + 1 - p.from
    <2>1. Len(Top(p)) \in Nat \ {0}
      BY HeadIs
    <2>2. /\ Len(a) = Len(Top(p)) + (p.upto + 1 - p.from)
          /\ \A i \in 1 .. n : a[i + Len(Top(p))] = <<"message", p.from + i - 1>>
      BY AboveIs
    <2> HIDE DEF a, T
    <2>3. n \in 1 .. n /\ n + Len(Top(p)) = Len(a)
      BY <2>1, <2>2
    <2>4. a[n + Len(Top(p))] = <<"message", p.from + n - 1>>
      BY <2>2, <2>3
    <2> HIDE DEF n
    <2>5. a[la] = <<"message", p.from + n - 1>>
      BY <2>3, <2>4
    <2> QED BY <2>5
  <1> HIDE DEF T, a, v, f, t, k
  <1>8. /\ s \in Seq(T) /\ Len(s) = Len(a) + Len(v) + Len(f) + Len(t)
        /\ \A i \in 1 .. Len(a) : s[i] = a[i]
        /\ \A i \in 1 .. Len(v) : s[i + Len(a)] = v[i]
        /\ \A i \in 1 .. Len(f) : s[i + (Len(a) + Len(v))] = f[i]
        /\ \A i \in 1 .. Len(t) : s[i + (Len(a) + Len(v) + Len(f))] = t[i]
    <2>1. FourJoin(T, a, v, f, t)
      BY <1>2, <1>3, <1>4, <1>5, FourJoined
    <2> QED BY <2>1, Zenon DEF FourJoin
  <1> HIDE DEF s
  <1>9. Len(v) \in Nat /\ Len(f) \in Nat /\ Len(t) \in Nat
    BY <1>3, <1>4, <1>5
  <1>10. la + k <= Len(s) /\ la <= Len(s)
    BY <1>2, <1>6, <1>8, <1>9
  <1>11. s[1][1] # "map"
    BY <1>2, <1>8
  <1>12. ASSUME NEW i \in 1 .. k PROVE s[i + la][1] # "map"
    <2>1. CASE i <= Len(v)
      <3>1. s[i + la] = v[i] /\ v[i][1] = "verify"
        BY <1>3, <1>8, <1>9, <2>1
      <3> QED BY <3>1
    <2>2. CASE ~ (i <= Len(v))
      <3>1. i - Len(v) \in 1 .. Len(f) /\ (i - Len(v)) + (Len(a) + Len(v)) = i + la
        BY <1>2, <1>6, <1>9, <2>2
      <3>2. s[(i - Len(v)) + (Len(a) + Len(v))] = f[i - Len(v)] /\ f[i - Len(v)][1] = "file"
        BY <1>4, <1>8, <3>1
      <3> QED BY <3>1, <3>2
    <2> QED BY <2>1, <2>2
  <1>13. ASSUME NEW i \in (la + k + 1) .. Len(s) PROVE s[i][1] = "map"
    <2> DEFINE j == i - (Len(a) + Len(v) + Len(f))
    <2>1. j \in 1 .. Len(t) /\ j + (Len(a) + Len(v) + Len(f)) = i
      BY <1>2, <1>6, <1>8, <1>9
    <2> HIDE DEF j
    <2>2. s[j + (Len(a) + Len(v) + Len(f))] = t[j] /\ t[j][1] = "map"
      BY <1>5, <1>8, <2>1
    <2> QED BY <2>1, <2>2
  <1>14. p.from <= p.upto => s[la][1] # "map"
    <2>1. s[la] = a[la]
      BY <1>2, <1>8
    <2> QED BY <1>7, <2>1
  <1>15. /\ NoMaps(s) # {} /\ Max(NoMaps(s)) - k \in 0 .. la
         /\ s[la][1] # "map" => Max(NoMaps(s)) - k = la
    <2>1. OnlyMapsAfter(s, la, k)
      BY <1>2, <1>10, <1>11, <1>12, <1>13 DEF OnlyMapsAfter
    <2> QED BY <1>2, <1>6, <1>8, <2>1, LastIs
  <1>16. Breakpoint(p) = Max(NoMaps(s)) - k
    BY <1>1, <1>15 DEF Breakpoint, SelectLastInSeq, NoMaps, k
  <1> QED BY <1>1, <1>2, <1>8, <1>10, <1>14, <1>15, <1>16 DEF T, a

\* One request's stable part is a prefix of the next one's, if they start alike and
\* messages were added.
LEMMA StableParts ==
    ASSUME MapPosition # "system",
           NEW p, p.from \in Nat \ {0}, p.upto \in Nat, p.from <= p.upto + 1,
           NEW q, q.from = p.from, q.upto \in Nat, p.upto < q.upto,
           q.task = p.task, q.summary = p.summary
    PROVE  IsPrefix(StablePart(p), StablePart(q))
  <1>1. q.from \in Nat \ {0} /\ q.from <= q.upto + 1 /\ q.from <= q.upto
    OBVIOUS
  <1> DEFINE s == Layout(p)
             t == Layout(q)
             b == Breakpoint(p)
             c == Breakpoint(q)
             h == Len(Top(p))
             n == p.upto + 1 - p.from
             l == q.upto + 1 - q.from
  <1>2. /\ s \in Seq(PartsOf(p)) /\ Len(Above(p)) \in Nat /\ Len(Above(p)) <= Len(s)
        /\ \A i \in 1 .. Len(Above(p)) : s[i] = Above(p)[i]
        /\ b \in 0 .. Len(Above(p))
    BY BreakpointIs
  <1>3. /\ t \in Seq(PartsOf(q)) /\ Len(Above(q)) \in Nat /\ Len(Above(q)) <= Len(t)
        /\ \A i \in 1 .. Len(Above(q)) : t[i] = Above(q)[i]
        /\ c = Len(Above(q))
    BY <1>1, BreakpointIs
  <1>4. Top(q) = Top(p)
    <2>1. MapPosition # "system" /\ q.task = p.task /\ q.summary = p.summary
      OBVIOUS
    <2> QED BY <2>1 DEF Top
  <1>5. /\ Len(Above(p)) = h + n
        /\ \A i \in 1 .. h : Above(p)[i] = Top(p)[i]
        /\ \A i \in 1 .. n : Above(p)[i + h] = <<"message", p.from + i - 1>>
    BY AboveIs
  <1>6. /\ Len(Above(q)) = h + l
        /\ \A i \in 1 .. h : Above(q)[i] = Top(p)[i]
        /\ \A i \in 1 .. l : Above(q)[i + h] = <<"message", p.from + i - 1>>
    BY <1>1, <1>4, AboveIs
  <1>7. h \in Nat \ {0}
    BY HeadIs
  <1> HIDE DEF h, s, t, b, c
  <1>8. n \in Nat /\ l \in Nat /\ n <= l
    BY <1>1
  <1> HIDE DEF n, l
  <1>9. b \in Nat /\ c \in Nat /\ b <= c /\ b <= Len(s) /\ c <= Len(t)
        /\ Len(s) \in Nat /\ Len(t) \in Nat /\ b <= h + n /\ h + n <= Len(s) /\ h + n <= Len(t)
    BY <1>2, <1>3, <1>5, <1>6, <1>7, <1>8
  <1>10. ASSUME NEW i \in 1 .. b PROVE s[i] = t[i]
    <2>1. s[i] = Above(p)[i] /\ t[i] = Above(q)[i]
      BY <1>2, <1>3, <1>5, <1>6, <1>7, <1>8, <1>9
    <2>2. CASE i <= h
      <3>1. i \in 1 .. h
        BY <1>7, <2>2
      <3> QED BY <1>5, <1>6, <2>1, <3>1
    <2>3. CASE ~ (i <= h)
      <3>1. i - h \in 1 .. n /\ i - h \in 1 .. l /\ (i - h) + h = i
        BY <1>7, <1>8, <1>9, <2>3
      <3>2. Above(p)[(i - h) + h] = <<"message", p.from + (i - h) - 1>>
        BY <1>5, <3>1
      <3>3. Above(q)[(i - h) + h] = <<"message", p.from + (i - h) - 1>>
        BY <1>6, <3>1
      <3> QED BY <2>1, <3>1, <3>2, <3>3
    <2> QED BY <2>2, <2>3
  <1> DEFINE x == SubSeq(s, 1, b)
             y == SubSeq(t, 1, c)
  <1>11. x \in Seq(PartsOf(p)) /\ Len(x) = b /\ \A i \in 1 .. b : x[i] = s[i]
    BY <1>2, <1>9
  <1>12. y \in Seq(PartsOf(q)) /\ Len(y) = c /\ \A i \in 1 .. c : y[i] = t[i]
    BY <1>3, <1>9
  <1> HIDE DEF x, y
  <1>13. SubSeq(x, 1, b) = SubSeq(y, 1, b)
    <2>1. /\ SubSeq(x, 1, b) = [i \in 1 .. b |-> x[i]]
      BY <1>9, <1>11
    <2>2. SubSeq(y, 1, b) = [i \in 1 .. b |-> y[i]]
      BY <1>9, <1>12
    <2>3. \A i \in 1 .. b : x[i] = y[i]
      BY <1>9, <1>10, <1>11, <1>12
    <2> QED BY <2>1, <2>2, <2>3
  <1>14. IsPrefix(x, y)
    BY <1>9, <1>11, <1>12, <1>13 DEF IsPrefix
  <1> QED BY <1>14 DEF x, y, s, t, b, c, StablePart

-----------------------------------------------------------------------------
(* From one request of a run to the next *)

\* The last request of the current run is about messages that are there, and shows
\* the memory as it is now unless something was shed from it.
Following ==
    prompt.task = tasks /\ phase \in {"ready", "asked"} =>
      /\ prompt.from \in Nat \ {0} /\ prompt.upto \in Nat
      /\ prompt.from <= prompt.upto + 1 /\ prompt.upto <= Len(AllTail)
      /\ phase = "ready" => prompt.upto < Len(AllTail)
      /\ ~prompt.shed =>
           IF prompt.folding
           THEN /\ prompt.from = mem.folded + 1 /\ prompt.summary = SummaryEntries(mem)
                /\ Settled(prompt.ratio, mem, SummaryBudget(Win))
           ELSE prompt.from = 1 /\ prompt.summary = <<>>

FollowInv ==
    /\ prompt.ratio \in 3 .. 10 /\ tasks \in Nat /\ prompt.task \in Nat /\ prompt.task <= tasks
    /\ phase \in {"ready", "asked"} => tasks # 0
    /\ Following

\* At every ratio a brief and an entry have room in the summary.
BriefHasRoom == \A r \in CharsPerToken : Roomy(r, SummaryBudget(Win))

LEMMA FollowingStarts == MemoryInit => FollowInv
  BY DEF MemoryInit, FollowInv, Following, NoPrompt, Fixed

LEMMA FoldingFollows ==
    ASSUME BriefHasRoom, MemoryInv, FollowInv, AssembleFolding
    PROVE  FollowInv'
  <1>1. PICK f, m : FoldingStep(f, m)
    BY FoldingIs
  <1>2. /\ phase = "ready" /\ UNCHANGED <<tasks, recap, convo>> /\ AllTail' = AllTail
        /\ SystemTokens + Estimate(taskSize) <= Win
    BY DEF AssembleFolding, AllTail
  <1>3. mem' = m /\ m \in Memories /\ m.folded \in Nat /\ ratio \in 3 .. 10
        /\ Settled(ratio, m, SummaryBudget(Win))
    <2>1. Roomy(ratio, SummaryBudget(Win)) /\ ratio \in 3 .. 10
      BY DEF MemoryInv, BriefHasRoom
    <2> QED BY <1>1, <2>1 DEF FoldingStep, Memories
  <1>4. Len(AllTail) \in Nat
    BY TailIsTyped
  <1>5. tasks \in Nat /\ tasks # 0 /\ prompt.task \in Nat /\ prompt.task <= tasks
        /\ prompt.ratio \in 3 .. 10
    BY <1>2 DEF FollowInv
  <1>6. CASE m.folded > Len(AllTail)
    <2>1. phase' = "panicked" /\ prompt' = prompt
      BY <1>1, <1>6 DEF FoldingStep
    <2> QED BY <1>2, <1>5, <2>1 DEF FollowInv, Following
  <1>7. CASE ~ (m.folded > Len(AllTail))
    <2>1. phase' = "asked" /\ prompt' = Asked(Shed(m), m)
      BY <1>1, <1>7 DEF FoldingStep
    <2>2. /\ prompt'.task = tasks /\ prompt'.upto = Len(AllTail) /\ prompt'.folding = TRUE
          /\ prompt'.from = Shed(m).from /\ prompt'.summary = Shed(m).summary
          /\ prompt'.shed = Shed(m).shed /\ prompt'.ratio = ratio
      BY <2>1, AskedIs
    <2>3. m.folded \in 0 .. Len(AllTail) /\ m.folded + 1 \in 1 .. (Len(AllTail) + 1)
      BY <1>3, <1>4, <1>7
    <2>4. Shed(m).from \in 1 .. (Len(AllTail) + 1)
      <3>1. SummaryTokens(ratio, SummaryKept(m)) \in Nat
        BY <1>2, <1>3, <2>3, SummaryFits DEF Floor
      <3>2. TailKept(m.folded + 1, SummaryTokens(ratio, SummaryKept(m))) \in (m.folded + 1) .. (Len(AllTail) + 1)
        BY <2>3, <3>1, TailIsKept
      <3>3. Shed(m).from = TailKept(m.folded + 1, SummaryTokens(ratio, SummaryKept(m)))
        BY DEF Shed
      <3> QED BY <1>3, <1>4, <3>2, <3>3
    <2>5. ~Shed(m).shed => Shed(m).summary = SummaryEntries(m) /\ Shed(m).from = m.folded + 1
      BY UnshedIsWhole
    <2>6. prompt'.from \in Nat \ {0} /\ prompt'.upto \in Nat /\ prompt'.from <= prompt'.upto + 1
      BY <1>4, <2>2, <2>4
    <2>7. ~prompt'.shed =>
             /\ prompt'.from = mem'.folded + 1 /\ prompt'.summary = SummaryEntries(mem')
             /\ Settled(prompt'.ratio, mem', SummaryBudget(Win))
      BY <1>3, <2>2, <2>5
    <2>8. Following'
      <3>1. prompt'.upto <= Len(AllTail') /\ phase' # "ready"
        BY <1>2, <1>4, <2>1, <2>2
      <3>2. (Settled(prompt.ratio, mem, SummaryBudget(Win)))'
              <=> Settled(prompt'.ratio, mem', SummaryBudget(Win))
        BY DEF Settled
      <3> QED BY <2>2, <2>6, <2>7, <3>1, <3>2 DEF Following
    <2>9. prompt'.task = tasks /\ tasks' = tasks /\ prompt'.ratio \in 3 .. 10
      BY <1>2, <1>3, <2>2
    <2> QED BY <1>5, <2>8, <2>9 DEF FollowInv
  <1> QED BY <1>6, <1>7

LEMMA VerbatimFollows ==
    ASSUME MemoryInv, FollowInv, AssembleVerbatim
    PROVE  FollowInv'
  <1>1. /\ phase = "ready" /\ phase' = "asked" /\ UNCHANGED <<tasks, recap, convo>>
        /\ AllTail' = AllTail
        /\ prompt'.task = tasks /\ prompt'.from = 1 /\ prompt'.upto = Len(AllTail)
        /\ prompt'.folding = FALSE /\ prompt'.summary = <<>> /\ prompt'.ratio = ratio
    BY DEF AssembleVerbatim, AllTail
  <1>2. Len(AllTail) \in Nat /\ tasks \in Nat /\ tasks # 0 /\ ratio \in 3 .. 10
    BY <1>1, TailIsTyped DEF FollowInv, MemoryInv
  <1>3. Following'
    <2>1. prompt'.from \in Nat \ {0} /\ prompt'.upto \in Nat /\ prompt'.from <= prompt'.upto + 1
          /\ prompt'.upto <= Len(AllTail')
      BY <1>1, <1>2
    <2> QED BY <1>1, <2>1 DEF Following
  <1> QED BY <1>1, <1>2, <1>3 DEF FollowInv

LEMMA TurnFollows ==
    ASSUME MemoryInv, FollowInv, NEW call \in Messages, NEW result \in Messages,
           ActsOn(call, result)
    PROVE  FollowInv'
  <1>1. Len(AllTail) \in Nat /\ Len(AllTail') = Len(AllTail) + 2
    BY TailGrows
  <1>2. phase = "asked" /\ phase' = "ready" /\ UNCHANGED <<tasks, mem, prompt>>
    BY DEF ActsOn
  <1>3. Following'
    <2> SUFFICES ASSUME prompt.task = tasks
                 PROVE  /\ prompt.from \in Nat \ {0} /\ prompt.upto \in Nat
                        /\ prompt.from <= prompt.upto + 1
                        /\ prompt.upto <= Len(AllTail') /\ prompt.upto < Len(AllTail')
                        /\ ~prompt.shed =>
                             IF prompt.folding
                             THEN /\ prompt.from = mem.folded + 1
                                  /\ prompt.summary = SummaryEntries(mem)
                                  /\ Settled(prompt.ratio, mem, SummaryBudget(Win))
                             ELSE prompt.from = 1 /\ prompt.summary = <<>>
      BY <1>2 DEF Following, Settled
    <2>1. prompt.upto \in Nat /\ prompt.upto <= Len(AllTail)
      BY <1>2 DEF FollowInv, Following
    <2>2. prompt.upto <= Len(AllTail') /\ prompt.upto < Len(AllTail')
      BY <1>1, <2>1
    <2> QED BY <1>2, <2>2 DEF FollowInv, Following
  <1> QED BY <1>2, <1>3 DEF FollowInv

LEMMA NextFollows ==
    ASSUME BriefHasRoom, MemoryInv, FollowInv, [MemoryNext]_memoryVars
    PROVE  FollowInv'
  <1>1. CASE NewTask
    <2>1. tasks' = tasks + 1 /\ prompt' = prompt
      BY <1>1 DEF NewTask
    <2>2. /\ tasks \in Nat /\ prompt.task \in Nat /\ prompt.task <= tasks
          /\ prompt.ratio \in 3 .. 10
      BY DEF FollowInv
    <2>3. tasks' \in Nat /\ tasks' # 0 /\ prompt'.task \in Nat /\ prompt'.task <= tasks'
          /\ prompt'.task # tasks'
      BY <2>1, <2>2
    <2> QED BY <2>1, <2>2, <2>3 DEF FollowInv, Following
  <1>2. CASE AssembleVerbatim
    BY <1>2, VerbatimFollows
  <1>3. CASE AssembleFolding
    BY <1>3, FoldingFollows
  <1>4. CASE WindowTooSmall
    <2>1. phase' = "between" /\ UNCHANGED <<tasks, prompt>>
      BY <1>4 DEF WindowTooSmall
    <2> QED BY <2>1 DEF FollowInv, Following
  <1>5. CASE EditTurn
    <2>1. ActsOn(Message("edit", 2), Message("note", 1))
      BY <1>5 DEF EditTurn
    <2> QED BY <2>1, MessagesAreMessages, TurnFollows
  <1>6. CASE RunCommand
    <2>1. ActsOn(Message("command", 1), Message("failure", 1))
      BY <1>6 DEF RunCommand
    <2> QED BY <2>1, MessagesAreMessages, TurnFollows
  <1>7. CASE Prose
    <2>1. ActsOn(Message("say", 1), Message("note", 1))
      BY <1>7 DEF Prose
    <2> QED BY <2>1, MessagesAreMessages, TurnFollows
  <1>8. CASE ReadFile
    <2>1. PICK result : ReadsFile(result)
      BY <1>8, ReadFileReads
    <2> QED BY <2>1, MessagesAreMessages, TurnFollows DEF ReadsFile
  <1>9. CASE FinishTask
    <2>1. phase' = "between" /\ UNCHANGED <<tasks, prompt>>
      BY <1>9 DEF FinishTask
    <2> QED BY <2>1 DEF FollowInv, Following
  <1>10. CASE UNCHANGED memoryVars
    <2>1. UNCHANGED <<phase, prompt, tasks, recap, convo, mem>>
      BY <1>10 DEF memoryVars
    <2>2. AllTail' = AllTail
      BY <2>1 DEF AllTail
    <2> QED BY <2>1, <2>2 DEF FollowInv, Following, Settled
  <1> QED BY <1>1, <1>2, <1>3, <1>4, <1>5, <1>6, <1>7, <1>8, <1>9, <1>10 DEF MemoryNext

\* Without a compaction, a folding request finds the memory that the last one left.
LEMMA NothingFolded ==
    ASSUME MemoryInv, AssembleFolding, mem'.compactions = mem.compactions,
           Settled(ratio, mem, SummaryBudget(Win))
    PROVE  mem' = mem /\ (phase' = "asked" => prompt' = Asked(Shed(mem), mem))
  <1>1. PICK f, m : FoldingStep(f, m)
    BY FoldingIs
  <1>2. f = mem
    <2>1. mem' = m /\ m.compactions = f.compactions /\ FoldsOn(mem, f, Len(AllTail))
      BY <1>1 DEF FoldingStep
    <2>2. mem.compactions \in Nat
      BY DEF MemoryInv, Memories
    <2> QED BY <2>1, <2>2 DEF FoldsOn
  <1>3. m = mem /\ mem' = m
    <2>1. mem \in Memories
      BY DEF MemoryInv
    <2>2. Collapsed(ratio, mem, SummaryBudget(Win)) = {mem}
      BY <2>1, SettledStays
    <2> QED BY <1>1, <1>2, <2>2 DEF FoldingStep
  <1> QED BY <1>1, <1>3 DEF FoldingStep

LEMMA PrefixIsStableInAStep ==
    ASSUME MapPosition # "system", MemoryInv, FollowInv, [MemoryNext]_memoryVars
    PROVE  PrefixIsStable
  <1> SUFFICES ASSUME phase = "ready", phase' = "asked", prompt'.task = prompt.task,
                      prompt'.folding = prompt.folding, mem'.compactions = mem.compactions,
                      prompt'.ratio >= prompt.ratio, ~prompt.shed, ~prompt'.shed
               PROVE  IsPrefix(StablePart(prompt), StablePart(prompt'))
    BY DEF PrefixIsStable
  <1>0. Len(AllTail) \in Nat
    BY TailIsTyped
  <1>1. AssembleVerbatim \/ AssembleFolding
    BY DEF MemoryNext, NewTask, WindowTooSmall, EditTurn, RunCommand, Prose, ReadFile, ActsOn,
           FinishTask, memoryVars
  <1>2. prompt'.task = tasks /\ prompt'.upto = Len(AllTail)
    <2>1. CASE AssembleVerbatim
      BY <2>1 DEF AssembleVerbatim
    <2>2. CASE AssembleFolding
      <3>1. PICK f, m : FoldingStep(f, m)
        BY <2>2, FoldingIs
      <3>2. prompt' = Asked(Shed(m), m)
        BY <3>1 DEF FoldingStep
      <3> QED BY <3>2, AskedIs
    <2> QED BY <1>1, <2>1, <2>2
  <1>3. /\ prompt.from \in Nat \ {0} /\ prompt.upto \in Nat
        /\ prompt.from <= prompt.upto + 1 /\ prompt.upto < Len(AllTail)
        /\ IF prompt.folding
           THEN /\ prompt.from = mem.folded + 1 /\ prompt.summary = SummaryEntries(mem)
                /\ Settled(prompt.ratio, mem, SummaryBudget(Win))
           ELSE prompt.from = 1 /\ prompt.summary = <<>>
    BY <1>2 DEF FollowInv, Following
  <1>4. prompt'.from = prompt.from /\ prompt'.summary = prompt.summary
    <2>1. CASE AssembleVerbatim
      <3>1. prompt'.folding = FALSE /\ prompt'.from = 1 /\ prompt'.summary = <<>>
        BY <2>1 DEF AssembleVerbatim
      <3> QED BY <1>3, <3>1
    <2>2. CASE AssembleFolding
      <3>1. PICK f, m : FoldingStep(f, m)
        BY <2>2, FoldingIs
      <3>2. prompt' = Asked(Shed(m), m)
        BY <3>1 DEF FoldingStep
      <3>3. prompt'.folding = TRUE
        BY <3>2, AskedIs
      <3>4. /\ prompt.from = mem.folded + 1 /\ prompt.summary = SummaryEntries(mem)
            /\ Settled(ratio, mem, SummaryBudget(Win))
        <4>1. prompt.from = mem.folded + 1 /\ prompt.summary = SummaryEntries(mem)
              /\ Settled(prompt.ratio, mem, SummaryBudget(Win))
          BY <1>3, <3>3
        <4>2. prompt'.ratio = ratio /\ prompt.ratio \in 3 .. 10 /\ ratio \in 3 .. 10
              /\ mem \in Memories
          BY <3>2, AskedIs DEF FollowInv, MemoryInv
        <4>3. SummaryBudget(Win) \in Nat
          <5>1. Trigger(Win) \in Nat
            BY WindowIsANumber
          <5> QED BY <5>1 DEF SummaryBudget, Percent
        <4>4. prompt.ratio <= ratio
          BY <4>2
        <4>5. Settled(ratio, mem, SummaryBudget(Win))
          BY <4>1, <4>2, <4>3, <4>4, SettledAbove
        <4> QED BY <4>1, <4>5
      <3>5. prompt' = Asked(Shed(mem), mem)
        BY <2>2, <3>4, NothingFolded
      <3>6. /\ prompt'.from = Shed(mem).from /\ prompt'.summary = Shed(mem).summary
            /\ ~Shed(mem).shed
        BY <3>5, AskedIs
      <3>7. Shed(mem).summary = SummaryEntries(mem) /\ Shed(mem).from = mem.folded + 1
        BY <3>6, UnshedIsWhole
      <3> QED BY <3>4, <3>6, <3>7
    <2> QED BY <1>1, <2>1, <2>2
  <1>5. prompt'.upto \in Nat /\ prompt.upto < prompt'.upto
    BY <1>0, <1>2, <1>3
  <1>6. IsPrefix(StablePart(prompt), StablePart(prompt'))
    BY <1>3, <1>4, <1>5, StableParts
  <1> QED BY <1>6

-----------------------------------------------------------------------------
(* What memory promises *)

\* However the messages, the failures and the distiller come: no entry of an edit
\* leaves the summary while an incidental one is left in it (memory.go
\* collapseSummary, firstDroppable).
THEOREM EditsAreForgottenLast == MemorySpec => [][EditsOutlast]_memoryVars
  <1>1. MemoryInit => MemoryInv
    BY MemoryStarts
  <1>2. MemoryInv /\ [MemoryNext]_memoryVars => MemoryInv'
    BY NextKeepsMemoryInv
  <1>3. MemoryInv /\ [MemoryNext]_memoryVars => EditsOutlast
    BY EditsOutlastAStep
  <1> QED BY <1>1, <1>2, <1>3, PTL DEF MemorySpec

\* In a Loop of one run, with a map that is not in the system message and a summary
\* that has room for a brief and an entry at every ratio: pointers are true, what was
\* cached stays while nothing is folded and the ratio does not fall, what was done is
\* forgotten last (memory.go Assemble, readdedupe.go Observe,
\* loop.go markCacheBreakpoint), and the boundary never passes the end of the tail.
THEOREM MemoryIsFaithful ==
    ASSUME Submissions <= 1, MapPosition # "system", BriefHasRoom
    PROVE  MemorySpec => MemoryKeepsFaith /\ []AssembleSucceeds
  <1> DEFINE Inv == MemoryInv /\ PointerInv /\ FollowInv
  <1>1. MemoryInit => Inv
    BY MemoryStarts, PointersStart, FollowingStarts
  <1>2. Inv /\ [MemoryNext]_memoryVars => Inv'
    BY NextKeepsMemoryInv, NextKeepsPointers, NextFollows
  <1>3. Inv /\ [MemoryNext]_memoryVars => PointersAreTrue /\ PrefixIsStable /\ EditsOutlast
    BY PointersAreTrueInAStep, PrefixIsStableInAStep, EditsOutlastAStep
  <1>4. Inv => AssembleSucceeds
    BY DEF PointerInv, AssembleSucceeds
  <1> HIDE DEF Inv
  <1> QED BY <1>1, <1>2, <1>3, <1>4, PTL DEF MemorySpec, MemoryKeepsFaith

\* The prefix alone holds for any number of runs of one Loop.
THEOREM PrefixesAreStable ==
    ASSUME MapPosition # "system", BriefHasRoom
    PROVE  MemorySpec => [][PrefixIsStable]_memoryVars
  <1>1. MemoryInit => MemoryInv /\ FollowInv
    BY MemoryStarts, FollowingStarts
  <1>2. MemoryInv /\ FollowInv /\ [MemoryNext]_memoryVars => (MemoryInv /\ FollowInv)'
    BY NextKeepsMemoryInv, NextFollows
  <1>3. MemoryInv /\ FollowInv /\ [MemoryNext]_memoryVars => PrefixIsStable
    BY PrefixIsStableInAStep
  <1> QED BY <1>1, <1>2, <1>3, PTL DEF MemorySpec

-----------------------------------------------------------------------------
(* The churn detector *)

\* A streak goes on with a turn like the last, and begins again with another.
GoesOn(S, n, of, more) ==
    /\ Streak(S, of) \in Nat /\ Streak(S, more) = Streak(S, of)
    /\ Streak({}, of) = 0
    /\ S # {} => Max(S) \in S
    /\ Streak(S \cup {n + 1}, more)
         = IF S # {} /\ more[n + 1] = of[Max(S)] THEN Streak(S, of) + 1 ELSE 1

LEMMA StreakGrows ==
    ASSUME NEW n \in Nat, NEW S, S \subseteq 1 .. n, NEW of, NEW more, \A i \in 1 .. n : of[i] = more[i]
    PROVE  GoesOn(S, n, of, more)
  <1> USE DEF GoesOn
  <1> DEFINE Run == {i \in S : \A j \in S : j >= i => of[j] = of[i]}
             Longer == {i \in S \cup {n + 1} : \A j \in S \cup {n + 1} : j >= i => more[j] = more[i]}
  <1>0. n + 1 \in Longer
    <2> SUFFICES ASSUME NEW j \in S \cup {n + 1}, j >= n + 1 PROVE more[j] = more[n + 1]
      OBVIOUS
    <2>1. \A k \in S : k \in Int /\ k <= n
      OBVIOUS
    <2>2. j = n + 1
      BY <2>1
    <2> QED BY <2>2
  <1>1. Streak(S, of) = Cardinality(Run) /\ Streak(S \cup {n + 1}, more) = Cardinality(Longer)
    BY DEF Streak
  <1>2. IsFiniteSet(Run) /\ Cardinality(Run) \in Nat /\ n + 1 \notin Run
    <2>0. 1 \in Int /\ n \in Int
      OBVIOUS
    <2>1. IsFiniteSet(1 .. n)
      BY <2>0, FS_Interval, Zenon
    <2>2. Run \subseteq 1 .. n
      OBVIOUS
    <2>3. IsFiniteSet(Run)
      BY <2>1, <2>2, FS_Subset
    <2> QED BY <2>2, <2>3, FS_CardinalityType
  <1>3. Streak(S, more) = Streak(S, of)
    <2>1. {i \in S : \A j \in S : j >= i => more[j] = more[i]} = Run
      OBVIOUS
    <2> QED BY <2>1 DEF Streak
  <1>4. Streak({}, of) = 0
    <2>1. {i \in {} : \A j \in {} : j >= i => of[j] = of[i]} = {}
      OBVIOUS
    <2> QED BY <2>1, FS_EmptySet DEF Streak
  <1>5. ASSUME S # {} PROVE Max(S) \in S /\ \A x \in S : x <= Max(S)
    <2>1. S \subseteq Int /\ n \in Int /\ \A x \in S : x <= n
      OBVIOUS
    <2>2. \E m \in S : \A x \in S : x <= m
      BY <1>5, <2>1, GreatestExists, Zenon
    <2>3. PICK m \in S : \A x \in S : x <= m
      BY <2>2
    <2>4. Max(S) = m
      BY <2>1, <2>3, GreatestIs
    <2> QED BY <2>3, <2>4
  <1>6. CASE S # {} /\ more[n + 1] = of[Max(S)]
    <2> DEFINE m == Max(S)
    <2>1. m \in S /\ m \in 1 .. n /\ (\A x \in S : x <= m) /\ more[n + 1] = of[m]
      BY <1>5, <1>6
    <2> HIDE DEF m
    <2>2. Longer = Run \cup {n + 1}
      <3>1. ASSUME NEW i \in Longer PROVE i \in Run \cup {n + 1}
        BY <3>1
      <3>2. ASSUME NEW i \in Run PROVE i \in Longer
        <4>1. of[m] = of[i] /\ i \in 1 .. n
          BY <2>1
        <4>2. \A j \in S : j >= i => more[j] = more[i]
          BY <3>2
        <4>3. more[n + 1] = more[i]
          BY <2>1, <4>1
        <4> QED BY <4>2, <4>3
      <3>3. n + 1 \in Longer
        BY <1>0
      <3> QED BY <3>1, <3>2, <3>3
    <2> HIDE DEF Run, Longer
    <2>3. Cardinality(Longer) = Cardinality(Run) + 1
      BY <1>2, <2>2, FS_AddElement
    <2> QED BY <1>1, <1>2, <1>3, <1>4, <1>5, <1>6, <2>3
  <1>7. CASE ~ (S # {} /\ more[n + 1] = of[Max(S)])
    <2>1. Longer = {n + 1}
      <3>1. ASSUME NEW i \in Longer PROVE i = n + 1
        <4> SUFFICES ASSUME i \in S PROVE FALSE
          OBVIOUS
        <4> DEFINE m == Max(S)
        <4>1. m \in S /\ m \in 1 .. n /\ m >= i /\ more[n + 1] # of[m]
          BY <1>5, <1>7
        <4> HIDE DEF m
        <4>a. \A j \in S \cup {n + 1} : j >= i => more[j] = more[i]
          BY <3>1
        <4>b. i \in 1 .. n /\ n + 1 >= i
          <5>1. i \in S /\ S \subseteq 1 .. n
            OBVIOUS
          <5> HIDE DEF Longer
          <5>2. i \in 1 .. n
            BY ONLY <5>1
          <5> QED BY <5>2
        <4>2. more[m] = more[i] /\ more[n + 1] = more[i]
          BY <4>1, <4>a, <4>b
        <4> QED BY <4>1, <4>2
      <3>2. n + 1 \in Longer
        BY <1>0
      <3> QED BY <3>1, <3>2
    <2> HIDE DEF Run, Longer
    <2>2. Cardinality(Longer) = 1
      BY <2>1, FS_Singleton
    <2> QED BY <1>1, <1>2, <1>3, <1>4, <1>5, <1>7, <2>2
  <1> QED BY <1>6, <1>7

EditOf == [i \in DOMAIN history |-> history[i].edit]
OutputOf == [i \in DOMAIN history |-> history[i].output]

\* The five fields are what the history says.
ChurnInv ==
    /\ ChurnTypeOK
    /\ churn.everActed <=> Acting(Len(history))
    /\ churn.lastEdit = IF EditsBefore(Len(history) + 1) = {} THEN NoEdit
                        ELSE history[Max(EditsBefore(Len(history) + 1))].edit
    /\ CountedTurns # {} => churn.lastFail = history[Max(CountedTurns)].output
    /\ EditStreakExact /\ FailStreakExact
    /\ (churn.failCount > 0 \/ churn.editCount > 0 => churn.everActed)

LEMMA ChurnStarts == ChurnInit => ChurnInv
  <1> SUFFICES ASSUME churn = Fresh, history = <<>> PROVE ChurnInv
    BY DEF ChurnInit
  <1>1. /\ DOMAIN history = {} /\ Len(history) = 0 /\ Len(history) + 1 = 1
    OBVIOUS
  <1>2. CountedTurns = {} /\ EditsBefore(1) = {}
    BY <1>1 DEF CountedTurns, EditsBefore
  <1>3. \A of : Streak({}, of) = 0
    <2> SUFFICES ASSUME NEW of PROVE Streak({}, of) = 0
      OBVIOUS
    <2>1. {i \in {} : \A j \in {} : j >= i => of[j] = of[i]} = {}
      OBVIOUS
    <2> QED BY <2>1, FS_EmptySet DEF Streak
  <1>4. ChurnTypeOK
    BY ChurnAssumption DEF ChurnTypeOK, Fresh, Detectors
  <1>5. EditStreakExact /\ FailStreakExact
    <2>1. churn.editCount = 0 /\ churn.failCount = 0
      BY DEF Fresh
    <2>2. EditsBefore(Len(history) + 1) = {}
      BY <1>1, <1>2
    <2> QED BY <1>2, <1>3, <2>1, <2>2, Zenon DEF EditStreakExact, FailStreakExact
  <1>6. ~ Acting(0) /\ churn.everActed = FALSE /\ churn.failCount = 0 /\ churn.editCount = 0
        /\ churn.lastEdit = NoEdit
    BY DEF Acting, Fresh
  <1>7. churn.everActed <=> Acting(Len(history))
    BY <1>1, <1>6
  <1>8. EditsBefore(Len(history) + 1) = {}
    BY <1>1, <1>2
  <1> QED BY <1>2, <1>4, <1>5, <1>6, <1>7, <1>8 DEF ChurnInv

\* A turn adds itself and changes nothing that was said of those before it.
LEMMA TurnIsAdded ==
    ASSUME ChurnInv, NEW t \in LoopTurns, history' = Append(history, t), NEW n \in Nat, n = Len(history)
    PROVE  /\ history' \in Seq(LoopTurns) /\ Len(history') = n + 1 /\ history'[n + 1] = t
           /\ DOMAIN history = 1 .. n /\ DOMAIN history' = 1 .. (n + 1)
           /\ \A i \in 1 .. n : history'[i] = history[i]
           /\ EditsBefore(n + 1) \subseteq 1 .. n
           /\ EditsBefore(n + 2)' = EditsBefore(n + 1) \cup (IF t.edit # NoEdit THEN {n + 1} ELSE {})
           /\ \A i \in 1 .. n : Restarts(i)' <=> Restarts(i)
           /\ \A i \in 1 .. n : Counts(i)' <=> Counts(i)
           /\ Acting(n + 1)' <=> ActedBy(churn, t)
           /\ NewEdit(n + 1)' <=> DistinctEdit(churn, t)
  <1>1. /\ history' \in Seq(LoopTurns) /\ Len(history') = n + 1 /\ history'[n + 1] = t
        /\ DOMAIN history = 1 .. n /\ DOMAIN history' = 1 .. (n + 1)
        /\ \A i \in 1 .. n : history'[i] = history[i]
    <2>1. history \in Seq(LoopTurns)
      BY DEF ChurnInv, ChurnTypeOK
    <2> QED BY <2>1
  <1>2. \A i \in 1 .. (n + 1) : EditsBefore(i)' = EditsBefore(i)
    <2> SUFFICES ASSUME NEW i \in 1 .. (n + 1) PROVE EditsBefore(i)' = EditsBefore(i)
      OBVIOUS
    <2>1. \A j \in 1 .. (i - 1) : j \in 1 .. n
      OBVIOUS
    <2> QED BY <1>1, <2>1 DEF EditsBefore
  <1>3. EditsBefore(n + 1) \subseteq 1 .. n
    BY DEF EditsBefore
  <1>4. EditsBefore(n + 2)' = EditsBefore(n + 1) \cup (IF t.edit # NoEdit THEN {n + 1} ELSE {})
    <2>1. 1 .. ((n + 2) - 1) = (1 .. n) \cup {n + 1} /\ 1 .. ((n + 1) - 1) = 1 .. n
      OBVIOUS
    <2> QED BY <1>1, <2>1 DEF EditsBefore
  <1>5. \A i \in 1 .. n : Acting(i)' <=> Acting(i)
    <2> SUFFICES ASSUME NEW i \in 1 .. n PROVE Acting(i)' <=> Acting(i)
      OBVIOUS
    <2>1. \A j \in 1 .. i : j \in 1 .. n
      OBVIOUS
    <2> QED BY <1>1, <2>1 DEF Acting
  <1>6. Acting(n + 1)' <=> ActedBy(churn, t)
    <2>1. Acting(n + 1)' <=> Acting(n) \/ t.acted \/ t.edit # NoEdit
      <3>1. \A j \in 1 .. (n + 1) : j \in 1 .. n \/ j = n + 1
        OBVIOUS
      <3>2. n + 1 \in 1 .. (n + 1) /\ \A j \in 1 .. n : j \in 1 .. (n + 1)
        OBVIOUS
      <3> QED BY <1>1, <3>1, <3>2 DEF Acting
    <2> QED BY <2>1 DEF ActedBy, ChurnInv
  <1>7. \A i \in 1 .. n : NewEdit(i)' <=> NewEdit(i)
    <2> SUFFICES ASSUME NEW i \in 1 .. n PROVE NewEdit(i)' <=> NewEdit(i)
      OBVIOUS
    <2>1. EditsBefore(i)' = EditsBefore(i) /\ history'[i] = history[i]
      BY <1>1, <1>2
    <2>2. EditsBefore(i) # {} => Max(EditsBefore(i)) \in 1 .. n
      <3>1. EditsBefore(i) \subseteq 1 .. n
        BY DEF EditsBefore
      <3>2. GoesOn(EditsBefore(i), n, <<>>, <<>>)
        BY <3>1, StreakGrows
      <3> QED BY <3>1, <3>2 DEF GoesOn
    <2> QED BY <1>1, <2>1, <2>2 DEF NewEdit
  <1>8. NewEdit(n + 1)' <=> DistinctEdit(churn, t)
    <2>1. EditsBefore(n + 1)' = EditsBefore(n + 1) /\ history'[n + 1] = t
      BY <1>1, <1>2
    <2>2. EditsBefore(n + 1) # {} => Max(EditsBefore(n + 1)) \in EditsBefore(n + 1)
      <3>1. GoesOn(EditsBefore(n + 1), n, <<>>, <<>>)
        BY <1>3, StreakGrows
      <3> QED BY <3>1 DEF GoesOn
    <2>3. EditsBefore(n + 1) # {} => history'[Max(EditsBefore(n + 1))] = history[Max(EditsBefore(n + 1))]
      BY <1>1, <1>3, <2>2
    <2>4. churn.lastEdit = IF EditsBefore(n + 1) = {} THEN NoEdit ELSE history[Max(EditsBefore(n + 1))].edit
      BY DEF ChurnInv
    <2> QED BY <2>1, <2>3, <2>4 DEF NewEdit, DistinctEdit
  <1>9. \A i \in 1 .. n : (Restarts(i)' <=> Restarts(i)) /\ (Counts(i)' <=> Counts(i))
    BY <1>1, <1>5, <1>7 DEF Restarts, Counts
  <1> QED BY <1>1, <1>3, <1>4, <1>6, <1>8, <1>9

\* What counts since the last restart.
LEMMA CountedGrow ==
    ASSUME ChurnInv, NEW t \in LoopTurns, history' = Append(history, t), NEW n \in Nat, n = Len(history)
    PROVE  /\ CountedTurns \subseteq 1 .. n
           /\ CountedTurns' = IF Restarts(n + 1)' THEN {}
                              ELSE CountedTurns \cup (IF Counts(n + 1)' THEN {n + 1} ELSE {})
  <1>1. /\ DOMAIN history = 1 .. n /\ DOMAIN history' = 1 .. (n + 1)
        /\ \A i \in 1 .. n : Restarts(i)' <=> Restarts(i)
        /\ \A i \in 1 .. n : Counts(i)' <=> Counts(i)
    BY TurnIsAdded
  <1> DEFINE S == {0} \cup {i \in DOMAIN history : Restarts(i)}
             T == {0} \cup {i \in DOMAIN history' : Restarts(i)'}
  <1>2. LastRestart = Max(S) /\ LastRestart' = Max(T)
    BY DEF LastRestart
  <1>3. S \subseteq 0 .. n /\ 0 \in S /\ T = S \cup (IF Restarts(n + 1)' THEN {n + 1} ELSE {})
    BY <1>1
  <1> HIDE DEF S, T
  <1>4. Max(S) \in S /\ \A x \in S : x <= Max(S)
    <2>1. S \subseteq Int /\ n \in Int /\ S # {} /\ \A x \in S : x <= n
      BY <1>3
    <2>2. \E m \in S : \A x \in S : x <= m
      BY <2>1, GreatestExists, Zenon
    <2>3. PICK m \in S : \A x \in S : x <= m
      BY <2>2
    <2>4. Max(S) = m
      BY <2>1, <2>3, GreatestIs
    <2> QED BY <2>3, <2>4
  <1>5. Max(T) = IF Restarts(n + 1)' THEN n + 1 ELSE Max(S)
    <2>1. CASE Restarts(n + 1)'
      <3>0. T = S \cup {n + 1} /\ \A x \in S : x \in Int /\ x <= n + 1
        BY <1>3, <2>1
      <3>1. T \subseteq Int /\ n + 1 \in T /\ \A x \in T : x <= n + 1
        BY <3>0
      <3> QED BY <2>1, <3>1, GreatestIs
    <2>2. CASE ~ Restarts(n + 1)'
      BY <1>3, <2>2
    <2> QED BY <2>1, <2>2
  <1>6. CountedTurns = {i \in 1 .. n : i > Max(S) /\ Counts(i)}
    BY <1>1, <1>2 DEF CountedTurns
  <1>7. CountedTurns' = {i \in 1 .. (n + 1) : i > Max(T) /\ Counts(i)'}
    BY <1>1, <1>2 DEF CountedTurns
  <1>8. Max(S) \in 0 .. n
    BY <1>3, <1>4
  <1>9. CASE Restarts(n + 1)'
    <2>1. \A i \in 1 .. (n + 1) : ~ (i > n + 1)
      OBVIOUS
    <2> QED BY <1>5, <1>6, <1>7, <1>9, <2>1
  <1>10. CASE ~ Restarts(n + 1)'
    <2>1. n + 1 > Max(S) /\ Max(T) = Max(S) /\ 1 .. (n + 1) = (1 .. n) \cup {n + 1}
      BY <1>5, <1>8, <1>10
    <2> QED BY <1>1, <1>6, <1>7, <1>10, <2>1
  <1> QED BY <1>9, <1>10

LEMMA TurnKeepsTypes ==
    ASSUME ChurnInv, NEW t \in LoopTurns, ObserveTurn(t)
    PROVE  ChurnTypeOK'
  <1>1. churn \in Detectors /\ history \in Seq(LoopTurns) /\ t \in Turns
    BY DEF ChurnInv, ChurnTypeOK, LoopTurns
  <1>2. churn' = Observe(churn, t) /\ history' = Append(history, t)
    BY DEF ObserveTurn
  <1>3. history' \in Seq(LoopTurns)
    BY <1>1, <1>2
  <1>4. /\ t.output \in Outputs \cup {Blank} /\ t.edit \in EditSigs \cup {NoEdit}
        /\ t.acted \in BOOLEAN
    BY <1>1 DEF Turns
  <1>5. /\ churn.lastFail \in Outputs \cup {Blank} /\ churn.failCount \in Nat
        /\ churn.lastEdit \in EditSigs \cup {NoEdit} /\ churn.editCount \in Nat
        /\ churn.everActed \in BOOLEAN
    BY <1>1 DEF Detectors
  <1>6. RememberedFail(churn, t) \in Outputs \cup {Blank}
    BY <1>4, <1>5 DEF RememberedFail
  <1>7. FailStreak(churn, t) \in Nat /\ EditStreak(churn, t) \in Nat
    BY <1>4, <1>5 DEF FailStreak, EditStreak
  <1>8. ActedBy(churn, t) \in BOOLEAN
    BY <1>4, <1>5 DEF ActedBy
  <1>9. Observe(churn, t) \in Detectors
    BY <1>4, <1>5, <1>6, <1>7, <1>8 DEF Observe, Detectors
  <1> QED BY <1>2, <1>3, <1>9 DEF ChurnTypeOK

\* The edit streak.
LEMMA EditStreakKept ==
    ASSUME ChurnInv, NEW t \in LoopTurns, ObserveTurn(t), NEW n \in Nat, n = Len(history)
    PROVE  /\ EditStreakExact'
           /\ churn'.lastEdit = IF EditsBefore(Len(history) + 1)' = {} THEN NoEdit
                                ELSE history'[Max(EditsBefore(Len(history) + 1)')].edit
  <1> DEFINE E == EditsBefore(n + 1)
             EE == EditsBefore(n + 2)'
             of == [i \in DOMAIN history |-> history[i].edit]
             more == [i \in DOMAIN history' |-> history'[i].edit]
  <1>1. n \in Nat /\ history' = Append(history, t) /\ churn' = Observe(churn, t)
    BY DEF ChurnInv, ChurnTypeOK, ObserveTurn
  <1>2. /\ Len(history') = n + 1 /\ history'[n + 1] = t
        /\ DOMAIN history = 1 .. n /\ DOMAIN history' = 1 .. (n + 1)
        /\ \A i \in 1 .. n : history'[i] = history[i]
        /\ E \subseteq 1 .. n
        /\ EE = E \cup (IF t.edit # NoEdit THEN {n + 1} ELSE {})
    BY <1>1, TurnIsAdded
  <1>3. /\ \A i \in 1 .. n : of[i] = more[i] /\ of[i] = history[i].edit
        /\ more[n + 1] = t.edit
    BY <1>1, <1>2
  <1>4. EditsBefore(Len(history) + 1)' = EE
    <2>1. Len(history') + 1 = n + 2
      BY <1>1, <1>2
    <2> QED BY <2>1 DEF EditsBefore
  <1>5. /\ churn.editCount = Streak(E, of)
        /\ churn.lastEdit = IF E = {} THEN NoEdit ELSE history[Max(E)].edit
    BY DEF ChurnInv, EditStreakExact
  <1>6. EditStreakExact' <=> churn'.editCount = Streak(EE, more)
    BY <1>4 DEF EditStreakExact
  <1>7. /\ churn'.editCount = EditStreak(churn, t)
        /\ churn'.lastEdit = IF t.edit = NoEdit THEN churn.lastEdit ELSE t.edit
    BY <1>1 DEF Observe
  <1>8. t.edit # NoEdit => Max(E \cup {n + 1}) = n + 1
    <2>1. /\ E \cup {n + 1} \subseteq Int /\ n + 1 \in E \cup {n + 1}
          /\ \A x \in E \cup {n + 1} : x <= n + 1
      <3>1. \A x \in E : x \in Int /\ x <= n + 1
        BY <1>1, <1>2
      <3> HIDE DEF E
      <3> QED BY <1>1, <3>1
    <2> HIDE DEF E
    <2> QED BY <2>1, GreatestIs
  <1> HIDE DEF E, EE, of, more
  <1>9. /\ Streak(E, of) \in Nat /\ Streak(E, more) = Streak(E, of) /\ Streak({}, of) = 0
        /\ E # {} => Max(E) \in E
        /\ Streak(E \cup {n + 1}, more)
             = IF E # {} /\ more[n + 1] = of[Max(E)] THEN Streak(E, of) + 1 ELSE 1
    <2>1. E \subseteq 1 .. n
      BY <1>3, <1>2
    <2>2. \A i \in 1 .. n : of[i] = more[i]
      BY <1>2, <1>3
    <2>3. GoesOn(E, n, of, more)
      BY <2>1, <2>2, StreakGrows
    <2> QED BY <2>3 DEF GoesOn
  <1>10. E # {} => of[Max(E)] = history[Max(E)].edit /\ history'[Max(E)] = history[Max(E)]
    BY <1>2, <1>3, <1>9
  <1>11. E = {} => Streak(E, of) = 0
    BY <1>9
  <1>12. CASE t.edit = NoEdit
    <2>1. EE = E
      BY <1>2, <1>12
    <2> QED BY <1>4, <1>5, <1>6, <1>7, <1>9, <1>10, <1>12, <2>1 DEF EditStreak
  <1>13. CASE t.edit # NoEdit
    <2>1. EE = E \cup {n + 1} /\ EE # {} /\ Max(EE) = n + 1
      BY <1>2, <1>8, <1>13
    <2>2. churn'.editCount = Streak(EE, more)
      <3>1. CASE E = {}
        BY <1>3, <1>5, <1>7, <1>9, <1>13, <2>1, <3>1 DEF EditStreak, DistinctEdit
      <3>2. CASE E # {}
        BY <1>3, <1>5, <1>7, <1>9, <1>10, <1>13, <2>1, <3>2 DEF EditStreak, DistinctEdit
      <3> QED BY <3>1, <3>2
    <2>3. churn'.lastEdit = history'[Max(EE)].edit
      BY <1>2, <1>7, <1>13, <2>1
    <2> QED BY <1>4, <1>6, <2>1, <2>2, <2>3
  <1> QED BY <1>12, <1>13

\* The failure streak.
LEMMA FailStreakKept ==
    ASSUME ChurnInv, NEW t \in LoopTurns, ObserveTurn(t), NEW n \in Nat, n = Len(history)
    PROVE  /\ FailStreakExact'
           /\ CountedTurns' # {} => churn'.lastFail = history'[Max(CountedTurns')].output
           /\ churn'.failCount > 0 => churn'.everActed
  <1> DEFINE C == CountedTurns
             of == [i \in DOMAIN history |-> history[i].output]
             more == [i \in DOMAIN history' |-> history'[i].output]
  <1>1. n \in Nat /\ history' = Append(history, t) /\ churn' = Observe(churn, t)
    BY DEF ChurnInv, ChurnTypeOK, ObserveTurn
  <1>2. /\ history'[n + 1] = t
        /\ DOMAIN history = 1 .. n /\ DOMAIN history' = 1 .. (n + 1)
        /\ \A i \in 1 .. n : history'[i] = history[i]
        /\ Acting(n + 1)' <=> ActedBy(churn, t)
        /\ NewEdit(n + 1)' <=> DistinctEdit(churn, t)
    BY <1>1, TurnIsAdded
  <1>3. /\ C \subseteq 1 .. n
        /\ CountedTurns' = IF Restarts(n + 1)' THEN {}
                           ELSE C \cup (IF Counts(n + 1)' THEN {n + 1} ELSE {})
    BY <1>1, CountedGrow
  <1>4. /\ \A i \in 1 .. n : of[i] = more[i] /\ of[i] = history[i].output
        /\ more[n + 1] = t.output
    BY <1>1, <1>2
  <1>5. /\ churn.failCount = Streak(C, of)
        /\ C # {} => churn.lastFail = history[Max(C)].output
        /\ churn.failCount > 0 => churn.everActed
    BY DEF ChurnInv, FailStreakExact
  <1>6. FailStreakExact' <=> churn'.failCount = Streak(CountedTurns', more)
    BY DEF FailStreakExact
  <1>7. /\ churn'.failCount = FailStreak(churn, t) /\ churn'.lastFail = RememberedFail(churn, t)
        /\ churn'.everActed = ActedBy(churn, t)
    BY <1>1 DEF Observe
  <1>8. Max(C \cup {n + 1}) = n + 1
    <2>1. /\ C \cup {n + 1} \subseteq Int /\ n + 1 \in C \cup {n + 1}
          /\ \A x \in C \cup {n + 1} : x <= n + 1
      <3>1. \A x \in C : x \in Int /\ x <= n + 1
        BY <1>1, <1>3
      <3> HIDE DEF C
      <3> QED BY <1>1, <3>1
    <2> HIDE DEF C
    <2> QED BY <2>1, GreatestIs
  <1>9. /\ Restarts(n + 1)' <=> /\ ~ t.skipped
                                /\ t.output = Blank \/ ~ ActedBy(churn, t) \/ DistinctEdit(churn, t)
        /\ Counts(n + 1)' <=> ~ t.skipped /\ ~ t.readOnly /\ ~ Restarts(n + 1)'
    BY <1>2 DEF Restarts, Counts
  <1>10. /\ t.skipped => t.output = Blank
         /\ t.readOnly => t.edit = NoEdit
    BY DEF LoopTurns
  <1> HIDE DEF C, of, more
  <1>11. /\ Streak(C, of) \in Nat /\ Streak(C, more) = Streak(C, of) /\ Streak({}, of) = 0
         /\ C # {} => Max(C) \in C
         /\ Streak(C \cup {n + 1}, more)
              = IF C # {} /\ more[n + 1] = of[Max(C)] THEN Streak(C, of) + 1 ELSE 1
    <2>1. C \subseteq 1 .. n
      BY <1>3, <1>2
    <2>2. \A i \in 1 .. n : of[i] = more[i]
      BY <1>3, <1>4
    <2>3. GoesOn(C, n, of, more)
      BY <2>1, <2>2, StreakGrows
    <2> QED BY <2>3 DEF GoesOn
  <1>12. Streak({}, more) = 0
    <2>1. GoesOn({}, n, more, more)
      BY StreakGrows
    <2> QED BY <2>1 DEF GoesOn
  <1>13. C # {} => of[Max(C)] = history[Max(C)].output /\ history'[Max(C)] = history[Max(C)]
    BY <1>2, <1>3, <1>4, <1>11
  <1>14. churn.everActed => ActedBy(churn, t)
    BY DEF ActedBy
  <1>15. CASE Restarts(n + 1)'
    <2>1. CountedTurns' = {} /\ churn'.failCount = 0
      BY <1>3, <1>7, <1>9, <1>10, <1>15 DEF FailStreak, DistinctEdit
    <2> QED BY <1>6, <1>12, <2>1
  <1>16. CASE ~ Restarts(n + 1)' /\ ~ Counts(n + 1)'
    <2>1. CountedTurns' = C
      BY <1>3, <1>16
    <2>2. t.skipped \/ (t.output # Blank /\ ActedBy(churn, t) /\ t.readOnly)
      BY <1>9, <1>16
    <2>3. churn'.failCount = churn.failCount /\ churn'.lastFail = churn.lastFail
      BY <1>7, <2>2 DEF FailStreak, RememberedFail
    <2> QED BY <1>5, <1>6, <1>7, <1>11, <1>13, <1>14, <2>1, <2>3
  <1>17. CASE ~ Restarts(n + 1)' /\ Counts(n + 1)'
    <2>1. CountedTurns' = C \cup {n + 1} /\ Max(CountedTurns') = n + 1
      BY <1>3, <1>8, <1>17
    <2>2. ~ t.skipped /\ t.output # Blank /\ ActedBy(churn, t) /\ ~ t.readOnly /\ ~ DistinctEdit(churn, t)
      BY <1>9, <1>17
    <2>3. /\ churn'.failCount = IF t.output = churn.lastFail THEN churn.failCount + 1 ELSE 1
          /\ churn'.lastFail = t.output
      BY <1>7, <2>2 DEF FailStreak, RememberedFail
    <2>4. churn'.failCount = Streak(CountedTurns', more)
      <3>1. CASE C = {}
        <4>1. churn.failCount = 0
          BY <1>5, <1>11, <3>1
        <4> QED BY <1>11, <2>1, <2>3, <3>1, <4>1
      <3>2. CASE C # {}
        BY <1>4, <1>5, <1>11, <1>13, <2>1, <2>3, <3>2
      <3> QED BY <3>1, <3>2
    <2> QED BY <1>2, <1>6, <1>7, <2>1, <2>2, <2>3, <2>4
  <1> QED BY <1>15, <1>16, <1>17

LEMMA TurnKeepsChurnInv ==
    ASSUME ChurnInv, NEW t \in LoopTurns, ObserveTurn(t), NEW n \in Nat, n = Len(history)
    PROVE  ChurnInv'
  <1>1. n \in Nat /\ history' = Append(history, t) /\ churn' = Observe(churn, t)
    BY DEF ChurnInv, ChurnTypeOK, ObserveTurn
  <1>2. Len(history') = n + 1 /\ (Acting(n + 1)' <=> ActedBy(churn, t))
    BY <1>1, TurnIsAdded
  <1>3. /\ churn'.everActed = ActedBy(churn, t) /\ churn'.editCount = EditStreak(churn, t)
    BY <1>1 DEF Observe
  <1>4. churn'.everActed <=> Acting(Len(history))'
    <2>1. Acting(Len(history))' <=> Acting(n + 1)'
      BY <1>2 DEF Acting
    <2> QED BY <1>2, <1>3, <2>1
  <1>5. churn'.editCount > 0 => churn'.everActed
    BY <1>3 DEF ActedBy, EditStreak, ChurnInv
  <1> QED BY <1>4, <1>5, TurnKeepsTypes, EditStreakKept, FailStreakKept DEF ChurnInv

\* The detector's five fields say of any history what they are meant to say: its
\* edit streak and its failure streak are those the history holds, and a run that
\* has only read never churns (churn.go Observe, Check).
THEOREM StreaksAreExact == ChurnSpec => []ChurnExact
  <1>1. ChurnInit => ChurnInv
    BY ChurnStarts
  <1>2. ChurnInv /\ [ChurnNext]_churnVars => ChurnInv'
    <2> SUFFICES ASSUME ChurnInv, [ChurnNext]_churnVars PROVE ChurnInv'
      OBVIOUS
    <2>1. CASE Reset
      <3>1. ChurnInit'
        BY <2>1 DEF Reset, ChurnInit
      <3> QED BY <3>1, ChurnStarts, PTL
    <2>2. ASSUME NEW t \in LoopTurns, ObserveTurn(t) PROVE ChurnInv'
      <3>1. PICK n \in Nat : n = Len(history)
        BY DEF ChurnInv, ChurnTypeOK
      <3> QED BY <2>2, <3>1, TurnKeepsChurnInv
    <2>3. CASE UNCHANGED churnVars
      <3>1. churn' = churn /\ history' = history
        BY <2>3 DEF churnVars
      <3>2. /\ ChurnTypeOK' <=> ChurnTypeOK
            /\ \A i : EditsBefore(i)' = EditsBefore(i) /\ (Acting(i)' <=> Acting(i))
        BY <3>1 DEF ChurnTypeOK, EditsBefore, Acting
      <3>3. \A i : (Restarts(i)' <=> Restarts(i)) /\ (Counts(i)' <=> Counts(i))
        BY <3>1, <3>2 DEF Restarts, Counts, NewEdit
      <3>4. CountedTurns' = CountedTurns
        BY <3>1, <3>3 DEF CountedTurns, LastRestart
      <3>5. /\ EditsBefore(Len(history) + 1)' = EditsBefore(Len(history) + 1)
            /\ Acting(Len(history))' <=> Acting(Len(history))
        BY <3>1 DEF EditsBefore, Acting
      <3>6. (EditStreakExact' <=> EditStreakExact) /\ (FailStreakExact' <=> FailStreakExact)
        BY <3>1, <3>4, <3>5 DEF EditStreakExact, FailStreakExact
      <3> QED BY <3>1, <3>2, <3>4, <3>5, <3>6 DEF ChurnInv
    <2> QED BY <2>1, <2>2, <2>3 DEF ChurnNext
  <1>3. ChurnInv => ChurnExact
    <2> SUFFICES ASSUME ChurnInv PROVE ChurnExact
      OBVIOUS
    <2>1. /\ churn.failCount \in Nat /\ churn.editCount \in Nat /\ ChurnRounds \in Nat \ {0}
      BY ChurnAssumption DEF ChurnInv, ChurnTypeOK, Detectors
    <2>2. Churned(churn) => churn.everActed
      BY <2>1 DEF ChurnInv, Churned, RepeatedFailure, RepeatedEdit
    <2> QED BY <2>2 DEF ChurnInv, ChurnExact, ReadersNeverChurn
  <1> QED BY <1>1, <1>2, <1>3, PTL DEF ChurnSpec
=============================================================================
