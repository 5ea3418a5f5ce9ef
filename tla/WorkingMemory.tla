----------------------------- MODULE WorkingMemory -----------------------------
(***************************************************************************)
(* What a turn's request is made of: workingMemory.Assemble of             *)
(* agent/memory.go, the distiller (distill.go), the read ledger            *)
(* (readdedupe.go), and buildPrompt and markCacheBreakpoint of loop.go.    *)
(*                                                                         *)
(* A run appends two messages a turn, the model's and the loop's, and each *)
(* request is assembled anew from all of them.  Above a trigger the oldest *)
(* are folded, once, into the entries of a running summary; the summary is *)
(* collapsed when it outgrows its own budget.  What still exceeds the      *)
(* window is shed in a fixed order.  A Loop, and its memory, serves one    *)
(* run after another; what a run leaves behind is a recap message.         *)
(*                                                                         *)
(* A message is its kind and its size.  Sizes are in tokens of 4 characters *)
(* of a small window; budgets are in tokens at the ratio the calibrator has *)
(* learned, which every reply may move.  Fractions are the defaults.       *)
(***************************************************************************)
EXTENDS Integers, Sequences, FiniteSets, SequencesExt

CONSTANTS
    ContextTokens,     \* the declared window
    CuratorTokens,     \* 0: no cap of its own
    DefaultWorkingSet, \* defaultWorkingSetTokens
    WorkingSetTokens,  \* 0: the default, which follows the window
    SystemSize, DumpSize, FileSize,
    TaskSizes,         \* sizes of a task
    Reds,              \* sizes of a failing verify's output
    MapPosition,       \* "pinned", "tail" or "system"
    Distill,           \* the summary is rewritten by the model
    CharsPerToken,     \* ratios a calibrator may learn, in half characters
    Submissions,       \* runs of one Loop: 1, or more in the TUI
    MaxTurns           \* bound: turns of a run

ASSUME WorkingMemoryAssumption ==
    /\ \A n \in {ContextTokens, CuratorTokens, DefaultWorkingSet, WorkingSetTokens, SystemSize,
                 DumpSize, FileSize, Submissions, MaxTurns} : n \in Nat
    /\ Reds \subseteq Nat /\ TaskSizes \subseteq Nat /\ Distill \in BOOLEAN
    /\ MapPosition \in {"pinned", "tail", "system"}
    /\ CharsPerToken \subseteq 3 .. 10    \* Clamp: from 1.5 to 5 characters

-----------------------------------------------------------------------------
(* Budgets *)

Percent(p, n) == (p * n) \div 100
Least(m, n) == IF m < n THEN m ELSE n
Usable(w) == Percent(80, w)

\* workingSetFor: the geometric mean of the window and the default.
WorkingSetFor(w) ==
    IF WorkingSetTokens # 0 THEN WorkingSetTokens
    ELSE CHOOSE s \in 0 .. (w + DefaultWorkingSet) :
            /\ s * s <= w * DefaultWorkingSet
            /\ (s + 1) * (s + 1) > w * DefaultWorkingSet
CapWorkingSet(n, w) == Least(n, WorkingSetFor(w))

Trigger(w) == CapWorkingSet(Percent(70, w), w)
HotBudget(w) == Percent(45, CapWorkingSet(Percent(70, Usable(w)), w))
CuratorBudget ==
    IF CuratorTokens = 0 THEN Usable(ContextTokens)
    ELSE Least(CuratorTokens, Usable(ContextTokens))
MapBudget == Least(Percent(30, Trigger(Usable(ContextTokens))),
                   Percent(30, Percent(70, CuratorBudget)))
SummaryBudget(w) == Percent(25, Trigger(w))
LowWater(n) == Percent(60, n)

Win == Usable(ContextTokens)
CeilSlack == 1
MaxReadPointers == 3

\* EstimateAt: what n tokens of 4 characters, or 8 halves, are at another ratio.
EstimateAt(r, n) == IF n = 0 THEN 0 ELSE IF 8 * n < r THEN 1 ELSE (8 * n) \div r
Fixed == 8                               \* DefaultCharsPerToken

-----------------------------------------------------------------------------
VARIABLES
    phase,    \* "ready" for a turn, "asked", "between" runs, or "panicked"
    tasks,    \* runs begun
    taskSize, \* of the current one
    ratio,    \* the calibrator's
    recap,    \* SessionHistory
    convo,    \* the run's messages after the task
    pins,     \* the sizes of what is pinned, 0 for none: last verify, current file
    version,  \* of the file, as of the last edit
    mem,      \* workingMemory
    mark,     \* the ledger's mark of the file
    prompt    \* the last request

memoryVars == <<phase, tasks, taskSize, ratio, recap, convo, pins, version, mem, mark, prompt>>

Message(kind, size) == [kind |-> kind, size |-> size]
Entries == {"edit", "failure", "stub", "brief", "other", "placeholder"}
NoMark == [version |-> 0, compactions |-> 0, served |-> 0, at |-> 0]
NoPrompt == [task |-> 0, turn |-> 0, folding |-> FALSE, summary |-> <<>>, from |-> 1,
             upto |-> 0, verify |-> 0, file |-> 0, shed |-> FALSE, ratio |-> Fixed, size |-> 0]
NewMemory == [folded |-> 0, entries |-> <<>>, dropped |-> 0, compactions |-> 0,
              distilled |-> 0, briefs |-> 0]

MemoryInit ==
    /\ phase = "between" /\ tasks = 0 /\ taskSize = 0 /\ ratio \in CharsPerToken
    /\ recap = <<>> /\ convo = <<>>
    /\ pins = [verify |-> 0, file |-> 0]
    /\ version = 1
    /\ mem = NewMemory
    /\ mark = NoMark
    /\ prompt = NoPrompt

AllTail == recap \o convo
SizeOf(msgs) ==
    LET sum[i \in 0 .. Len(msgs)] == IF i = 0 THEN 0 ELSE sum[i - 1] + msgs[i].size
    IN  sum[Len(msgs)]

\* l.estimate and tokensOfWith: at the ratio of the moment.
Estimate(n) == EstimateAt(ratio, n)
TokensIn(msgs) == SizeOf([i \in DOMAIN msgs |-> [msgs[i] EXCEPT !.size = Estimate(@)]])

\* What buildPrompt calls nonHistoryTokens: the map, where it is not pinned.
SystemTokens == Estimate(SystemSize) + (IF MapPosition = "pinned" THEN 0 ELSE Estimate(MapBudget))

-----------------------------------------------------------------------------
(* Folding and collapsing *)

\* keepTailWithin: how many of the oldest messages the budget leaves out, by a count
\* of 4 characters a token whatever was learned.
LeftOut(tail, budget) ==
    IF budget <= 0 THEN Len(tail)
    ELSE Min({n \in 0 .. Len(tail) : SizeOf(SubSeq(tail, n + 1, Len(tail))) <= budget})

\* summarizeCold: prose and the asking for a read leave no entry.
EntryOf(m) ==
    CASE m.kind \in {"say", "look"} -> <<>>
      [] m.kind = "dump" -> <<"stub">>
      [] m.kind \in {"edit", "failure"} -> <<m.kind>>
      [] OTHER -> <<"other">>
Summarized(cold) == FlattenSeq([i \in DOMAIN cold |-> EntryOf(cold[i])])

\* durableSummaryEntry, distillableSummaryEntry
Durable(e) == e \in {"edit", "failure", "stub", "brief"}
Distillable(e) == e = "brief" \/ ~Durable(e)

SummaryEntries(m) == (IF m.dropped = 0 THEN <<>> ELSE <<"placeholder">>) \o m.entries
SummaryTokens(r, es) == IF es = <<>> THEN 0 ELSE EstimateAt(r, 1 + Len(es))

\* The next to leave: the oldest of the incidental ones, then of the record.
FirstDroppable(es) ==
    LET incidental == {i \in DOMAIN es : ~Durable(es[i])}
    IN IF incidental = {} THEN 1 ELSE Min(incidental)

\* The memory without it; what may be distilled is not yet dropped.
Leaving(m) ==
    LET i == FirstDroppable(m.entries)
    IN [m EXCEPT !.entries = RemoveAt(@, i),
                 !.dropped = @ + (IF Distillable(m.entries[i]) THEN 0 ELSE 1)]
Shedding(m, k) ==
    LET less[i \in 0 .. Len(m.entries)] == IF i = 0 THEN m ELSE Leaving(less[i - 1])
    IN  less[k]

\* collapseSummary and finishCollapse, which measure the summary anew at the ratio of
\* the turn; the distiller may fail.
Collapsed(r, m, budget) ==
    IF budget <= 0 \/ m.entries = <<>> \/ SummaryTokens(r, SummaryEntries(m)) <= budget THEN {m}
    ELSE LET enough(k) == \/ SummaryTokens(r, SummaryEntries(Shedding(m, k))) <= LowWater(budget)
                          \/ k = Len(m.entries) - 1
             k == CHOOSE n \in 0 .. (Len(m.entries) - 1) :
                     enough(n) /\ \A j \in 0 .. (n - 1) : ~enough(j)
             rest == Shedding(m, k)
             gone == k - (rest.dropped - m.dropped)
         IN  IF gone = 0 THEN {rest}
             ELSE {[rest EXCEPT !.dropped = @ + gone]} \cup
                  (IF ~Distill THEN {}
                   ELSE {[rest EXCEPT !.entries = <<"brief">> \o @,
                                      !.distilled = @ + gone, !.briefs = @ + 1]})

\* The boundary advances past what is required, and never goes back.
Folded(m, tailBudget) ==
    LET need == LeftOut(AllTail, tailBudget)
        deep == LeftOut(AllTail, LowWater(tailBudget))
        to   == IF deep > need THEN deep ELSE need
    IN  IF need <= m.folded THEN m
        ELSE [m EXCEPT !.entries = @ \o Summarized(SubSeq(AllTail, m.folded + 1, to)),
                       !.folded = to, !.compactions = @ + 1]

-----------------------------------------------------------------------------
(* Shedding down to the window *)

\* truncateToTokens: never more than the room there is, by the fixed count.
TruncatedTo(size, avail) == IF avail <= 0 THEN 0 ELSE Least(size, avail)
VerifyWhole(size, avail) == size         \* bug: the verify is never cut
\* The last verify, "the one signal the loop trusts", is cut like the rest.
VerifyKept(size, avail) == TruncatedTo(size, avail)

Parts(summary, from, verify, file) ==
    SystemTokens + Estimate(taskSize) + summary + Estimate(verify) + Estimate(file)
        + TokensIn(SubSeq(AllTail, from, Len(AllTail)))

\* What is left of the summary: it goes from its oldest entry, its last entry is cut.
SummaryKept(m) ==
    LET entries == SummaryEntries(m)
        from == m.folded + 1
        room(drop) == Parts(SummaryTokens(ratio, drop), from, pins.verify, pins.file) <= Win
        enough == {n \in 0 .. Len(entries) :
                      Len(entries) - n <= 1 \/ room(SubSeq(entries, n + 1, Len(entries)))}
        kept == SubSeq(entries, Min(enough) + 1, Len(entries))
        last == TruncatedTo(1, Win - Parts(0, from, pins.verify, pins.file) - Estimate(1)
                                   - CeilSlack)
    IN  IF Len(kept) = 1 /\ ~room(kept) /\ last = 0 THEN <<>> ELSE kept

\* Where the tail starts: it goes from its oldest message.
TailKept(from, held) ==
    Min({f \in from .. (Len(AllTail) + 1) :
            f = Len(AllTail) + 1 \/ Parts(held, f, pins.verify, pins.file) <= Win})

\* The summary, the tail, the current file, the last verify.
Shed(m) ==
    LET from == m.folded + 1
        summary == SummaryKept(m)
        held == SummaryTokens(ratio, summary)
        start == TailKept(from, held)
        file == IF Parts(held, start, pins.verify, pins.file) <= Win THEN pins.file
                ELSE TruncatedTo(pins.file,
                        Win - Parts(held, start, pins.verify, 0) - CeilSlack)
        verify == IF Parts(held, start, pins.verify, file) <= Win THEN pins.verify
                  ELSE VerifyKept(pins.verify, Win - Parts(held, start, 0, file) - CeilSlack)
    IN  [summary |-> summary, from |-> start, verify |-> verify, file |-> file,
         shed |-> summary # SummaryEntries(m) \/ start # from,
         size |-> Parts(held, start, verify, file)]

-----------------------------------------------------------------------------
(* A run *)

NewTask ==
    /\ phase = "between" /\ tasks < Submissions
    /\ phase' = "ready" /\ tasks' = tasks + 1 /\ taskSize' \in TaskSizes
    /\ convo' = <<>> /\ pins' = [verify |-> 0, file |-> 0] /\ mark' = NoMark
    /\ UNCHANGED <<ratio, recap, version, mem, prompt>>

Whole == Parts(0, 1, pins.verify, pins.file)
Verbatim == Whole <= Trigger(Win)

\* Everything is kept as it is while there is room.
AssembleVerbatim ==
    /\ phase = "ready" /\ Verbatim
    /\ phase' = "asked"
    /\ prompt' = [task |-> tasks, turn |-> Len(convo), folding |-> FALSE, summary |-> <<>>,
                  from |-> 1, upto |-> Len(AllTail), verify |-> pins.verify,
                  file |-> pins.file, shed |-> FALSE, ratio |-> ratio, size |-> Whole]
    /\ UNCHANGED <<tasks, taskSize, ratio, recap, convo, pins, version, mem, mark>>

\* The tail is allTail[folded:]: beyond the end, Go panics.
TailFrom(m) == m.folded + 1

Asked(s, m) ==
    [task |-> tasks, turn |-> Len(convo), folding |-> TRUE, summary |-> s.summary,
     from |-> s.from, upto |-> Len(AllTail), verify |-> s.verify, file |-> s.file,
     shed |-> s.shed, ratio |-> ratio, size |-> s.size]

AssembleFolding ==
    /\ phase = "ready" /\ ~Verbatim
    /\ SystemTokens + Estimate(taskSize) <= Win  \* else ErrWindowTooSmall
    /\ \E m \in Collapsed(ratio, Folded(mem, HotBudget(Win) - Estimate(pins.verify)
                                                          - Estimate(pins.file)),
                          SummaryBudget(Win)) :
          /\ mem' = m
          /\ IF m.folded > Len(AllTail)
             THEN phase' = "panicked" /\ UNCHANGED prompt
             ELSE phase' = "asked" /\ prompt' = Asked(Shed([m EXCEPT !.folded = TailFrom(m) - 1]), m)
    /\ UNCHANGED <<tasks, taskSize, ratio, recap, convo, pins, version, mark>>

WindowTooSmall ==
    /\ phase = "ready" /\ ~Verbatim
    /\ SystemTokens + Estimate(taskSize) > Win
    /\ phase' = "between"
    /\ UNCHANGED <<tasks, taskSize, ratio, recap, convo, pins, version, mem, mark, prompt>>

\* A reply reports what the prompt cost.
ActsOn(call, result) ==
    /\ phase = "asked" /\ Len(convo) < 2 * MaxTurns
    /\ phase' = "ready"
    /\ convo' = convo \o <<call, result>> /\ ratio' \in CharsPerToken
    /\ UNCHANGED <<tasks, taskSize, recap, mem, prompt>>

\* An edit, its verify, and the pins of the turns to come.
EditTurn ==
    /\ ActsOn(Message("edit", 2), Message("note", 1))
    /\ version' = version + 1
    /\ \E n \in Reds \cup {1} : pins' = [verify |-> n, file |-> FileSize]
    /\ UNCHANGED mark

RunCommand ==
    /\ ActsOn(Message("command", 1), Message("failure", 1))
    /\ UNCHANGED <<pins, version, mark>>

\* Prose, and the corrective it is answered with.
Prose ==
    /\ ActsOn(Message("say", 1), Message("note", 1))
    /\ UNCHANGED <<pins, version, mark>>

ThoughFolded ==                          \* bug: compactions are not looked at
    mark # NoMark /\ mark.version = version /\ mark.served < MaxReadPointers
\* readLedger.Observe: a pointer, if the dump is still in the prompt.
StillThere ==
    /\ mark # NoMark /\ mark.version = version
    /\ mark.compactions = mem.compactions /\ mark.served < MaxReadPointers

ReadFile ==
    /\ IF StillThere
       THEN /\ ActsOn(Message("look", 1), Message("note", 1))
            /\ mark' = [mark EXCEPT !.served = @ + 1]
       ELSE /\ ActsOn(Message("look", 1), Message("dump", DumpSize))
            /\ mark' = [version |-> version, compactions |-> mem.compactions, served |-> 0,
                        at |-> Len(AllTail) + 2]
    /\ UNCHANGED <<pins, version>>

\* The run ends; its recap is the history of the next.
FinishTask ==
    /\ phase = "asked"
    /\ phase' = "between" /\ ratio' \in CharsPerToken
    /\ recap' = Append(recap, Message("note", 1))
    /\ UNCHANGED <<tasks, taskSize, convo, pins, version, mem, mark, prompt>>

MemoryNext ==
    \/ NewTask \/ AssembleVerbatim \/ AssembleFolding \/ WindowTooSmall
    \/ EditTurn \/ RunCommand \/ Prose \/ ReadFile \/ FinishTask

MemorySpec == MemoryInit /\ [][MemoryNext]_memoryVars

-----------------------------------------------------------------------------
(* The layout of a request *)

\* What changes every turn carries the turn.
Layout(p) ==
    LET map == IF MapPosition = "pinned" THEN <<"map", 0>> ELSE <<"map", p.turn>>
    IN  <<<<"system", IF MapPosition = "system" THEN p.turn ELSE 0>>, <<"task", p.task>>>>
        \o (IF MapPosition = "pinned" THEN <<map>> ELSE <<>>)
        \o (IF p.summary = <<>> THEN <<>> ELSE <<<<"summary", p.summary>>>>)
        \o [i \in 1 .. (p.upto + 1 - p.from) |-> <<"message", p.from + i - 1>>]
        \o (IF p.verify = 0 THEN <<>> ELSE <<<<"verify", p.turn>>>>)
        \o (IF p.file = 0 THEN <<>> ELSE <<<<"file", p.turn>>>>)
        \o (IF MapPosition = "tail" THEN <<map>> ELSE <<>>)

\* markCacheBreakpoint: above the trailing map (a pinned one too, when nothing
\* follows it yet) and the pins.
PinsOf(p) == (IF p.verify = 0 THEN 0 ELSE 1) + (IF p.file = 0 THEN 0 ELSE 1)
Breakpoint(p) == SelectLastInSeq(Layout(p), LAMBDA s : s[1] # "map") - PinsOf(p)
StablePart(p) == SubSeq(Layout(p), 1, Breakpoint(p))

-----------------------------------------------------------------------------
(* Properties *)

\* Every part of the state has its type.
MemoryTypeOK ==
    /\ phase \in {"ready", "asked", "between", "panicked"}
    /\ tasks \in 0 .. Submissions /\ {ratio, prompt.ratio} \subseteq CharsPerToken \cup {Fixed}
    /\ taskSize \in TaskSizes \cup {0}
    /\ \A m \in Range(AllTail) : m.size \in Nat
    /\ pins.verify \in Nat /\ pins.file \in Nat /\ version \in Nat
    /\ \A e \in Range(mem.entries) : e \in Entries
    /\ {mem.folded, mem.dropped, mem.compactions, mem.distilled, mark.served} \subseteq Nat
    /\ prompt.size \in Nat

\* However large the verify's output, the file and the summary are, what Assemble
\* returns fits the window it was given, as its comment promises of the hard ceiling,
\* while the learned ratio is of 4 characters a token or more.  At a lower one a text
\* that was cut by the fixed count is larger than the room it was cut to: the request
\* passes the window, by no more than the window itself is larger at that ratio.
HardCeiling(r) == IF r < Fixed THEN EstimateAt(r, Win) ELSE Win
PromptFits == phase = "asked" => prompt.size <= HardCeiling(prompt.ratio)

\* A pointer that says "already above in this conversation" is true of the request
\* the model has just answered, as long as nothing was shed from it.
PointersAreTrue ==
    mark'.served > mark.served /\ ~prompt.shed =>
        mark.at >= prompt.from /\ AllTail[mark.at].kind = "dump"

\* The part of a request above the cache breakpoint is a prefix of the next
\* request, unless a compaction came between them, or the ratio fell: the summary,
\* larger by the new count, may then be collapsed, which no compaction is counted for.
PrefixIsStable ==
    phase = "ready" /\ phase' = "asked" /\ prompt # NoPrompt /\ prompt'.task = prompt.task
      /\ prompt'.folding = prompt.folding /\ mem'.compactions = mem.compactions
      /\ prompt'.ratio >= prompt.ratio /\ ~prompt.shed /\ ~prompt'.shed
    => IsPrefix(StablePart(prompt), StablePart(prompt'))

\* The record of what was changed outlasts all that is incidental.
EditsOutlast ==
    LET edits(m) == Cardinality({i \in DOMAIN m.entries : m.entries[i] = "edit"}) IN
    edits(mem') < edits(mem) => \A e \in Range(mem'.entries) : Durable(e)

\* From request to request the memory keeps its word: what it points to is there,
\* what was cached stays, and what was done is forgotten last.
MemoryKeepsFaith == [][PointersAreTrue /\ PrefixIsStable /\ EditsOutlast]_memoryVars

\* Run says that per-run state starts clean, as one Loop serves run after run.
AssembleSucceeds == phase # "panicked"
=============================================================================
