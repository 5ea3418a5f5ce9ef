# A verification of kloo

kloo is a coding agent for small local models: a loop asks a model for one tool
call at a time, runs it against the user's working tree, verifies the tree with
the project's own build or test command, and stops when that command passes, when
the model says it is done, or when one of a dozen rails notices that the run goes
nowhere. The model is unreliable by assumption; what kloo promises has to come
from the harness. This project states those promises and checks them.

- `*.tla` without a prefix: the specifications, one module per component.
- `*Proofs.tla`: theorems, checked by TLAPS, that hold for every value of the
  constants. `Induction` has the lemmas on numbers they share.
- `MC*.tla`, `MC*.cfg`: small instances for TLC.
- `PROJECT.json`: components, runs, mutants, the map from definitions to source
  lines, findings, hazards and theorems.

Paths below are relative to `src/internal/`.

## 1. Inventory

| Component | State | Operations | Works with | What is hard, what makes it correct | Module |
|---|---|---|---|---|---|
| Agent loop (`agent/loop.go` Run) | locals of Run: verdict, dirty flag, latches, rail counters; fields of Loop that outlive a run: `createdPaths`, `editOnlyLeft`, `editsImpossible`, `ctxShrinks`, `staleAnchor` | one turn: budget, act, finish tool, checkpoint, guards, dispatch, verify, decide, rails | everything below | a success must rest on evidence that still describes the tree; no mutation unverified; every run ends; nothing of one run leaks into the next | AgentLoop |
| Verifier, baseline (`verify.go`, `baseline.go`) | last verdict; baseline: excused failures, reachability | take, compare, retire | loop, scope | taken before anything changed; a flaky test excuses nothing | AgentLoop |
| Churn detector (`churn.go`) | two streaks, their last values, `everActed` | Observe, Check, Reset | loop | which turns count, restart or are neutral | ChurnDetector, ChurnHistory |
| Checkpoint (`checkpoint.go`) | a Snapshot; git's objects | Checkpoint, Rollback | git, loop, every other writer of the tree | three git commands that are not atomic, other writers, a cancelled context; restores the run's files and nothing else | Checkpoint |
| Sub-agents (`subagent.go`) | handoff counters; a child Loop | runSubagent, autoDelegate | loop, shared registry, client and scope | a child changes the tree unseen; its share of the budget; its finish stops the parent's servers | AgentLoop, Budget, Scope, Background |
| Run budget (`budget.go`, `memguard.go`) | steps, tokens, unproductive tokens, clock, RSS | Check, AddTokens, NoteProgress | loop | refunds; the reserve; a computed ceiling never stops a productive run | Budget, AgentLoop |
| Model calls (loop.go complete, act; `llm/`) | cache-rejected flag, stream accumulator, attempts | Complete, Stream, retries, re-prompts | endpoint | lost, cut and repeated answers; retries that duplicate output or outlive a cancel | ModelAnswer, ModelCall, Stream |
| Dialect parsers (`tools/native_fc.go` and beside) | none | Parse, Repair | model calls, registry | a forgotten closing mark must not let one call swallow the next | Dialects |
| Working memory (`memory.go`, `readdedupe.go`, `distill.go`) | folded entries, drops, pins, read marks | Assemble, collapse, Observe | loop, model | what is forgotten and in which order; a "you have read this" that is no longer in the prompt | WorkingMemory |
| Tool registry, built-ins (`tools/`) | tool set, todo list, background manager | Dispatch, Without | loop, children | a registry two loops share | Scope, Editing |
| Commands, background (`tools/run_command.go`, `background.go`) | processes, output buffers, read offsets | run, Start, Output, Stop, StopAll, reaper | OS, loop | the reaper against readers and StopAll; deadline against exit | Command, Background |
| Write scope, jail (`tools/scope.go`, `workspace.go`) | rules | Allows, Resolve | tools, loop | the order of the rules, hidden tools, what a child inherits | Scope |
| Edit engine (`edit/`, `tools/files.go`, `rename.go`) | none: files | Parse, Apply, rename | tools, other writers | one of several blocks fails; the same edit sent twice | Editing |
| Terminal interface (`tui/`) | running, interrupting, abandoned, confirm, queue | keys, messages, submit | run goroutine | approval, interrupt and late messages of a dropped run in any order | Interface |
| Headless (`cli/headless.go`, `exit.go`) | attempts, wall clock | run, classify, restart | loop | the exit code tells the truth; a restart keeps to the time of both | Headless |
| Sessions (`session/store.go`) | JSON files | Save, Rename, Load | TUI | a crash between two file operations | SessionStore |
| Token estimates (`tokens/`) | ratio in memory, ratio file | Observe, Save | model calls | a ratio of unrelated numbers; two processes and one file | Calibration |
| Configuration (`config/`, `cli/modelinfo.go`, `resume_model.go`) | the resolved settings | Resolve, switches, resume | everything | axes that depend on each other: provider, alias, endpoint, window | Config |
| MCP (`mcp/`) | connected servers | Connect, Register, Call, Close | registry | one server's failure, the cap on exposed tools | Mcp |
| Repository map (`repomap/`) | a cache | build, rank | memory | ranking; no concurrency | none |

The hazards this code is exposed to, each at its line, are in `PROJECT.json`
under `hazards`, with the property that would catch each of them or the reason why none does.

## 2. The modules

### Checkpoint

The tree (`disk`), git's HEAD and index, one Loop's run after run, and everybody
else. A run's first edit call takes the checkpoint (`BeginEdit`), one git command
per action: `CheckpointHead` (`rev-parse`), `CheckpointStash` (`stash create`, whose
tree is the tracked files, or nothing when clean), `CheckpointUntracked`
(`ls-files --others`, each file with its content or the empty mark when it is too
large). Any of them may fail (`CheckpointFails`): the run goes on without a
snapshot. `EditLands`, `EditFails` and `EditRefused` are what an edit call can come
to; `CreatedBy` is `noteCreated`, called before the tool is dispatched. `KeepWork`
and `AbandonWork` are the two sides of `shouldRollback`; a rollback is one
`RestorePath` per named path, whose four arms are the branches of `Rollback`.
`OtherWrites`, `OtherStages`, `OtherCommits` and `Cancel` may come between any two
steps. Git is external: a command is what it answers for a path.

Data: a file is one of a few contents, `Big` standing for what is above the
snapshot cap or unreadable, `Empty` for the content that doubles as the "recorded
without content" mark; `Ignored` and `Quoted` are the paths `ls-files` does not
give by their name.

- `Restored`: a rollback that reports success put back every file the run edited,
  as it was when the checkpoint began.
- `Scoped`: no step of a rollback touches disk, index or HEAD outside the paths the
  run named.
- `PredatingKept`: no step of a rollback deletes a file that predates the run.

Conditions, all in the formulas: somebody else touched that path; the context was
cancelled; git could not list the path; or it was an empty untracked file (which
the code cannot tell from one recorded without content).

### ChurnDetector and ChurnHistory

`ChurnDetector` holds `Observe`, `Check` and `Reset` as operators on the detector's
record; AgentLoop owns the record. `ChurnHistory` runs the detector beside the
whole history of turns and defines the two streaks on it from scratch: `ChurnExact`
says that five fields are enough to know them, and that a run that has only looked
is never churn. Outputs and edits are compared as `normalizeChurn` leaves them: the
model works in normal forms.

### AgentLoop

`Loop.Run` as a state machine. `pc` is where Run is; one turn goes

    top -> act -> (finish | apply) -> dispatch -> verify -> decide -> rails
        -> explore -> nudge -> demand -> stall -> top

and every way out goes to `stop`, from which `Finish` settles the reason
(`FinalReason`: the completion probe may not cost a success already earned) and the rollback (`ShouldRollback`).
The order of the actions is the order of the code: the step is charged before
the budget is checked, a scope denial may stop the run before anything else is
counted, the verify is skipped when `dirty` is off, the churn detector is fed
between verify and decide, and the rails run in sequence, each with its own exits.

The environment may do anything at any turn. The model: any call of `Moves`,
prose, an empty answer, a malformed one, an answer too long for the window. A tool: each outcome
the loop tells apart (`Outcomes`). The verifier: any verdict of `Reds`, green, or a
failure to run. The user: `Cancel` at any moment. A child: any change to the tree
and success or failure (`AfterChild`). `Changes` and `DisksAfter` say what a call may have done to
the tree; those effects are kept in the ghost record `tree`, which no guard reads
except for the presence of files and the stall backstop's look at the tree.

Abstractions: a verdict is a kind and a set of failing tests; a call is a tool, a
path and an argument; tokens, time and memory are one trip of the budget at any
turn (`BudgetTrips`; module Budget has the counters); the wording of nudges, the
observations, lint and repair text are left out. `Passed(last)` stands for
`lastVerify.Passed && lastVerify.Err == nil`. The switches that are off by default are off.

- `SuccessIsEarned`: a reported success is a passing verify of this run made after the last
  change, with an edit or a finish call; or, with an edit, a red all of whose
  failures were there before and are out of the run's reach; never without a
  verifier.
- `MutationsAreVerified`: when the model is asked again after a change, a verify
  is owed.
- `BaselinePristine`, `FlakesNeverExcused`: what a baseline may excuse.
- `ForceEditReleased`, `DemandsWithinReach`: the edit-only rail never locks a run
  that may not write, and is never started over a red the run may not fix.
- `TurnsBounded`, `RunsTerminate`: refunds cannot make a run endless.
- `SpecUntouched`: a file the verify command names is not edited.

### ModelAnswer and ModelCall

`ModelAnswer` is what a call promises the loop: one answer, a bounded number of
requests, none from a caller that was cancelled. `ModelCall` is how the code does
it: `act` asks (`Ask`), each question is `complete`'s series of attempts (`Send`,
`Fail`, `Deliver`, `Retry`), with the wait for a cold model (`Wait`,
`GiveUpWaiting`), the shrink of the window on an overflow (`Shrink`, with its
floor), the request repeated without cache markers (`RejectCache`, whose flag is
shared by the loops of one client), and the re-prompts for a malformed call or no
call (`Take`). The chat gate and the closing answer ask once, without `complete`.
An endpoint may fail in every way `Failures` lists, at every attempt.

- `KeepsPromise`: ModelCall implements ModelAnswer (`Promise`, by refinement: the answer
  and the requests of a call are the fields of its record).
- `NothingTwice`: a retry never shows a text twice, and two loops whose requests
  are refused at once say so once.
- `ShrinkReduces`: a window above the floor gets smaller, whatever the server says
  its limit is.
- `CallsReturn`: every call is answered.

### Stream

One SSE body, line by line: torn lines, events over several data lines, errors in
the stream, an end or a failure anywhere, the watchdog, the caller's cancel. `StreamIsWhole`:
fragments of interleaved tool calls come together as they were sent, what was
shown is what was received, and an answer without error was received to its `[DONE]`.

### Command and Background

`Command` is one foreground command: its shell, a descendant that keeps the pipe,
inside the group or away from it, the deadline, the kill of the group, `WaitDelay`.
`CommandReturns`: it always comes back. `TimeoutLeavesNothing`: what timed out has left
nothing of its group.

`Background` has the processes, the copier and the reaper of each, the readers and a
parent and a child that share the manager. `ProcessesAccounted`: "exited" is said only
when everything kept was read (`ReadOutput` and `ReadStatus` are two steps, as they
are in the code), and no process outlives the run that started it.

### Interface and SessionStore

`Interface` is the event loop, the goroutine of each run, the channel of each held
edit and the shared Loop: submit, queue, approval, interrupt, drop, mode switch, quit,
with a run's messages handed over one at a time. `RunsAreOwned`: one run at a time
has the Loop, and a held edit can be released and is made only on a yes.
`DroppedStaysSilent`: a dropped run puts nothing more on the screen.

`SessionStore` has each file operation of a save and of a rename as a step, by two
savers that share the session, with failures and crashes. `NothingSavedIsLost`.

### WorkingMemory

`Assemble` with everything it calls: fold, compaction, distiller, shedding to the
window, pins of the last verify and the current file, the read ledger and the
cache breakpoint, over the turns of a task; sizes stand for texts. There are two measures, as in the
code: a size is in tokens of 4 characters, the count that cuts the tail and the pins (`LeftOut`, `TruncatedTo`),
and every budget is checked at the `ratio` the calibrator has learned (`Estimate`, `TokensIn`), which each
reply may move within the band of `Clamp`. So the summary, too, is measured anew each turn (`Collapsed`).
`PromptFits`: what is assembled fits the window while a learned token is of 4 characters or more, and at a lower ratio
passes it by no more than the window is larger in those tokens (`HardCeiling`). `MemoryKeepsFaith`: a pointer to an
earlier read is true (`PointersAreTrue`), the cached prefix stays a prefix unless a compaction was
counted or the ratio fell (`PrefixIsStable`), edits are forgotten last (`EditsOutlast`). `Shedding` is what `collapseSummary` drops in
turn, as a recursive function, so that it can be proved about.

### Editing

`edit_file` from the diff's lines to the file (`ParseFlexible`, `StageFile`), `write_file`
and `rename_symbol`, each reading before it writes, with other writers between and writes that
fail half-way. A text is a sequence of pieces. `ResultsAreTrue`: the blocks of a call land together
or not at all, a rename does what it reports; `LandsOnce`: an append sent twice lands once.

### Scope

Globs, `ResolveScope`, `CanWrite`, the registry with hidden tools and stubs, the child's
copy of it, and an account of refused writes for each loop: a child keeps its own, which
ends with it (`ChildReturns`), and the stop rule of a child stops the child. `ScopeHolds`: no sequence of calls,
of the run or of a child, writes where the operator ruled it out, and every refusal is named or counted once in the
account of the loop that met it.

### Headless and Config

`Headless` goes from the setup to the exit code, with the clock, the restart and the
JSON-only check. `HeadlessIsHonest`: 0 exactly for an earned success, whatever the flags,
and two attempts stay within the time of both.

`Config` layers flags, environment, profile and built-in values, sizes the window by
the endpoint's catalog, switches model, provider (among those of the profile loaded last) and profile, and
resumes a session, which may be one that recorded a model and no route (`ModelOnly`).
`TunedForItsModel`: what was looked up belongs to the model that is called.
`ResumeIsHonest`: a session is not moved to another route than it recorded in silence.

### Mcp and Dialects

`Mcp`: dialling, paging, exposing under the shared cap, meta tools, closing. The name a tool is registered
under is the sanitized one (`ToolName`), which two tools may share: the later takes the earlier's place (`Registered`).
`ServersAreServed`: no tool is hidden by the cap or by another server's trouble, only by one of the same
name, and no session leaks.

`Dialects`: the six ways a reply may spell its calls, as marks of which any may be
missing, and the server that folds one call into the one before. `RepliesAreRead`:
what is dispatched was written, and an attempted call is not shown as an answer. Where the invoke
dialects cut a call's body inside the tag of the next call, what is left of that tag is a mark of its
own (`Fragments`), and the property says which argument may end in it: the last of a call, when nothing ends
either. A text of a reply is a sequence of marks and pieces of text; the readers are recursive functions on it, one for a
call's arguments (`ReadArgs`) and one for the calls. `DialectAssumption` says what a reply is: prose has no call, a
native answer has one.

### Budget and Calibration

`Budget` has the counters that AgentLoop's `BudgetTrips` stands for, the reserve, memory
in and out of a container, and the steps of a child. `BudgetsAreMeant` compares what
stopped with a journal of the run's turns, and bounds the turns of each child; what a child spends
is kept in a ghost, `unmetered`, for no ceiling of the code counts it (finding `children_spend`).

`Calibration` has the learned ratio and its file, which several processes write.
`CalibrationKept`: a ratio is of a prompt's characters and the tokens of its own turn (of several
prompts, when a reply was asked for again), and no crash or failed save loses what was saved, except that a save
which cannot read the file (`LoadTable`) starts from an empty table.

### How they compose

AgentLoop instantiates ChurnDetector and feeds it each turn. ModelCall and Command are what
AgentLoop's `act` and `dispatch` wait for: that they return (`CallsReturn`, `CommandReturns`) is
what the fairness of AgentLoop rests on. Budget is what `BudgetTrips` may do. What
a rollback does to the files is Checkpoint's; AgentLoop only decides that there is
one (`snapped`, `ShouldRollback`) and treats it as one step that may fail, which is sound for its properties
because the run is over by then. Headless takes a run as its report, Interface as its messages.
Otherwise the modules share no variable.

`MCAgentLoop`, `MCCheckpoint`, `MCBudget`, `MCCalls` and `MCParts` define the calls, verdicts, replies and contents
of the instances; the first three also the stronger statements that the runs `partial`, `checkpoint_cancelled` and
`children_spend` refute.

## 3. The runs

| Run | Question | Bounds and why they are enough |
|---|---|---|
| `verify` | What may be a success, what may a baseline excuse, when does the edit-only rail start and let go? | Edits and reads of one file, a command, finish; two tests, verdicts {t}, {t,u}, a broken build and "missing"; three turns, two runs of one Loop. A flaky test needs three verdicts: baseline, one in the loop, the finish verify. The first explore nudge comes at the first read, the second, which starts the rail, at the next. |
| `shell` | Does any change escape the verify gate? | Edits, a read-only command, a command, another tool, a child, finish; three turns: change, something in between, and the next question to the model; two for the repeated-verify stop. No scope, so the shell runs. |
| `spin` | Does every run end? | Four steps, with rescues, handoffs, a shrink and the saturation window; no verifier; under fairness. |
| `calls` | Does a model call keep its promise, does a command come back? | A run and one just dropped share a client; one retry, one shrink, one re-prompt, one cold attempt, limits the server states or not: every arm once. One command. Under fairness. |
| `parts` | Is a rollback exact, scoped and harmless? And each remaining component against its own adversary. | A behaviour picks one component and the others stay as they began: the states add up and do not multiply. Checkpoint: two paths, three contents, one path touched by others, one run. One path starts small or is not there, the other is too large to be recorded; between them every arm of Rollback fires, and a rollback interrupted between two paths needs two. Edits write a content no file starts with, so every edit shows; the others act in the steps of the checkpoint, of the edit and of the rollback, since what they do between two edits they may as well do in the next. Churn: three turns, threshold 2. Stream: two interleaved calls, four events; of an event of two data lines, which does not parse, only one is tried. Background: two processes, buffer of one piece. Interface: two tasks, one held edit, one queued; `auto` and `accept-edits`, which hold no edit, count as one mode. Sessions: two names, two savers. Memory: a window a large verify output does not fit, four turns, learned ratios of 3 and 4 characters: at 3 a cut text passes the window and a summary is collapsed with no fold. Editing: three files, one out of scope, eleven diffs. Scope: three manifests by three flag sets, one path named. Headless: both attempts and one tick beyond. Config: three profiles, six command lines, three environments, one switch, a session saved here or one with a model only. MCP: up to three servers, two whose tools come to the same names, cap 2, two lines or three characters to a page. Dialects: one or two calls with every subset of marks missing. Budget: six settings, two runs, four turns, one child. Calibration: two processes, two models, two runs, so that two saves can meet; what runs first is the first process on the first model, for they are alike. |
| `checkpoint_cancelled`, `child`, `spec`, `partial`, `flakes`, `children_spend`, `memory_reuse` | The disagreements of section 6. | The smallest instance of each. |

`BudgetTrips` may end a run at any turn, so a small `MaxSteps` only cuts histories
short: no history within it is lost. Limits such as `ChurnRounds` or `ExploreNudge`
are at the smallest value that separates "first time", "nudge" and "stop"; the
code's defaults (3, 6, 16, 40) are the same machine with longer counts. `MaxRuns` 2 is where one run can
meet the fields another left. The sizes of WorkingMemory and the numbers of Budget
are scaled so that each threshold lies between two values that occur.

Deadlock is not checked: in every instance the system really stops, after the last run,
at the end of a stream, when a session is closed, or at a bound. That nobody waits for ever
is stated as such: `HeldIsAnswerable` in Interface, and the three liveness properties.

**Fairness.** `FairSpec` of AgentLoop adds weak fairness of `LoopStep`: as long as Run can go on it
does. Everything it waits for returns: a model call (`CallsReturn`), a command
(`CommandReturns`), a verify with its own timeout, a child with its own budget. In
ModelCall each caller's own steps are weakly fair: an attempt ends because of the
HTTP timeout or the stream's watchdog, a wait because of its timer. In Command the
timers fire, the kernel delivers the kill and the goroutine of Run goes on; the shell
and its descendants need not do anything. `Cancel` is fair for one caller only, the
dropped run of `calls`, which is by definition one that was cancelled. Nothing is assumed of the
model, the tools or the user; in particular no outcome is fair, and neither is `StartRun`.

**Mutants.** Each property of each passing run has a mutant: the operator marked
`bug:` beside the definition it replaces, a slip a change to that code could
introduce. TLC finds the property violated in every one of them.

## 4. What is proved

All theorems hold for every value of the constants that satisfies the assumption its module
names (`CheckpointAssumption`, `AgentLoopAssumption`, and so on). These only say that
sentinels are not ordinary values, that limits are numbers (those compared with a
count of at least one are not zero), and that an enumerated input has the shape the code gives it: a
call's tool is a tool, an MCP server's entry is a configuration, an alias does not stand for nothing.

| Module | Theorems |
|---|---|
| `WorkspaceProofs` | Checkpoint, Scope, Editing |
| `AgentLoopProofs`, `VerdictProofs` | AgentLoop: types, bounds and rails; baseline and success |
| `CallProofs` | ModelCall and its refinement, Stream, Command, Background, Dialects |
| `InterfaceProofs` | Interface, SessionStore |
| `LaunchProofs` | Headless, Config, Mcp |
| `LimitProofs` | Budget, Calibration, WorkingMemory, ChurnHistory |
| `Induction` | no theorem: the lemmas below |

**Induction.** The library's induction theorems take a predicate, which the provers cannot
instantiate. Stated for a set they can (`NatSetInduction`: a set that holds 0 and n + 1 with n holds
every number), and so can what follows: induction on an interval, least and greatest
elements, and `RunningValues` and `SameRun`, which say what a recursive function on
`0 .. n` is and that two which take the same steps agree, with `DownwardValues` and
`DownwardHolds` for one whose value at n rests on its value at n + 1. This is how a sum over a history,
the pages of a listing, the sizes of a prompt or the blocks of a diff are reasoned about.

### WorkspaceProofs

`TypeCorrect`, `RollbackRestores` (Restored), `RollbackIsScoped`,
`RollbackKeepsPredating`. `Restored` is not inductive: a rolled-back path is right
because the snapshot was, and the snapshot was because of what each git command saw.
The invariant `IInv` therefore follows the snapshot through its life:

1. `BeforeTheFirstEdit`: until the checkpoint is done nothing has been edited, so
   the disk still is what it was when the checkpoint began, except where others wrote;
2. `HalfTaken`: what each command established: after `rev-parse` the recorded HEAD
   agrees with HEAD, after `stash create` the source tree holds every tracked path
   as it was and no other;
3. `SnapshotSound`: of every path nobody else touched, the finished snapshot knows
   what was there, or git could not have told;
4. `RestoredSoFar`: every edited path a rollback has been through is as it was.

The step of each action is a lemma; other writers only ever widen the set of
excused paths (`OtherStepIInv`), and the arms of Rollback are compared with
`SnapshotSound` in `RestoresPath`. The action properties follow from the same invariant.

`ScopeIsSound` (ScopeHolds), from `ScopeIsKept` (WritesStayInside) and
`RefusalsAreReported` (RefusalsAreNamed). What keeps a shell from writing anywhere is decided
once, when the registry is built, and what keeps a file tool inside is asked at each call, so
`ScopeInv` relates the two: the policy is the one resolved from the launch, a registry
with a shell goes with a policy without rules, every touched path is allowed by the
policy, and of each loop, the run's and its child's, the account of what it was refused is exact (`Accounted`:
the paths named and the number beyond them). A run that stops on a refusal ends at once (`StopKept`); what a child
was refused is in the child's account only.

`ResultsOfToolsAreTrue` (ResultsAreTrue, with the types) and `AppendsLandOnce` (LandsOnce), of Editing, hold
as long as nobody else writes during the call, as in the runs. `EditingAssumption` says that texts and diffs are
sequences, that the walk of the workspace lists a file once and that the two names of a rename differ, without which
`rename_symbol` refuses (`rename.go:156`). The operators come first. Whatever the diff, a parser gives
blocks of texts, a prefix of a call's blocks stages as the whole call does up to there (`StageFile` of a
`SubSeq`), a block that stages was applied at the one place where its SEARCH stands or at the end, and a text that ends
with what is appended stays as it is. `EditingInvariant` then follows a call from its reading to its writing:

1. `EditUnderWay`: what an edit is about to write is all of its blocks on the text it found, none refused;
2. `NotYetWritten`: no file has changed before the write;
3. `LandedStands`: every append of the diff that landed last is in the file until something else is written;
4. `RenameUnderWay`: the files changed are those of the report, none of them ahead on the walk, and behind it the
   old name is only where the report owns to leaving some out.

`LandsOnce` needs the third: the second call does nothing because each of its appends is found where the first one left it.

### AgentLoopProofs and VerdictProofs

`TypeCorrect`, `TurnsAreBounded` (TurnsBounded),
`RailStaysReleased` (ForceEditReleased), `OnlyReachableDemands` (DemandsWithinReach).
The bound on turns rests on `TurnsPaid`: every turn was charged a step, except those
that an empty turn, a rescue or a shrink has paid for, and the three are
bounded by counters that nothing in a run decreases (`RecoveriesKept`). The other two
isolate the steps that can arm the rail (`ArmingSteps`).

`BaselineIsOfTheHandedTree` (BaselinePristine) and
`FlakesExcuseNothing` (FlakesNeverExcused). The invariant
`BaselineSound` has three parts. `TakenFirst`: a baseline is due only while the tree is as it
was handed over, and no edit is dispatched while it is due. `CuredApart`: what the baseline
still excuses, and the last red while it passes for the baseline's own, are disjoint from the tests seen
passing; this is where `retire` matters. `ToleratedApart`: so is a red that is tolerated
at the finish, in the report too.

`SuccessesAreEarned` (SuccessIsEarned), `NoChangeIsForgotten`
(MutationsAreVerified) and `FirstRunSparesTheSpec` (SpecUntouched). A success may be decided
turns after the verify it rests on, so `EarnedInv` says what holds in between: from the first
edit on, a stale tree is owed a verify and only the gate is ever reached with one owed
(`EditsAreOwed`). This survives the handoff that finding `child` is about, because a child is sent
only before the first edit. Without an edit it does not, so `NoChangeIsForgotten` assumes that
`NudgesDelegate` is false; its `ChangesAreOwed` also shows why the verify of a nudge, which
clears `dirty` even if it could not run, forgets nothing: after a child the count of reads
is zero and no nudge is due. `FirstRunSparesTheSpec` is about the first run because of finding
`spec`: what an earlier run created stays open to edits.

### CallProofs

`CallsAreTyped`, `NothingIsToldTwice` (NothingTwice), `ShrinksReduce`
(ShrinkReduces) and `CallsKeepTheirPromise` (KeepsPromise), the refinement of `ModelAnswer` by
`ModelCall`. Its bound on requests is not visible in the state of one call: a question may be
put again at every shrink, an attempt again after a rejected cache marker. `Paid` charges each
request to an attempt of a question asked so far, plus one for the marker, which
another caller's rejection may have settled meanwhile. What the abstract module sees of
a step is isolated in `SeenFromOutside`: the caller's summary changes as one of
its actions or not at all.

`StreamsAreWhole` (StreamIsWhole). Half of it is about a history: the arguments of a call are its fragments
in the order they came, however the calls were interleaved. `StreamInv` says at every step what
the accumulator `Holds` of the events applied so far, and `Unended` that a reader still at work has met no event
that ends the stream; the lemmas about `InOrder` show what one more fragment adds to
the call it names and that it leaves the others alone.

`NothingOutlivesItsTimeout` (TimeoutLeavesNothing), because the kill reaches the group
before `Wait` returns, and `BackgroundIsAccounted` (ProcessesAccounted), where
`ReadToTheEnd` says that a process is done only once it has exited or been killed, that a reader
of a process that is done holds all of its output, and that an exit is told only when it is done.

`RepliesAreUnderstood` (RepliesAreRead, both halves), for any replies, in any dialect, with any marks
forgotten. Two descriptions of a text meet in the middle. From the writing: the text put together of the
calls of a reply `Says` them, that is, what follows a mark of a call up to the next call is that call's arguments, and what
follows a mark of an argument is its text and then another mark (`ReplySays`); when only the end of the reply
is missing it is also `Tidy`: a text of an argument is followed by its closing mark or the call's, and
a call that is followed by another is closed. From the reading: a
reader's step at a place looks only at what comes after it (`Onward`), so by induction from the end
(`ReaderReads`) it reads a sequence of values each of which starts at a mark, and such a value is the text that was
written there (`ArgsAreRead`, `CallsAreRead`). The `arg_key` and `xml` readers look for the closing mark and not for the next opening
one, which is why they need `Tidy` and why the property has that condition (`Tolerable`). JSON parses only if it
balances, that is, as a whole (`JsonIsRead`). In the invoke dialects the reader cuts a call inside the
next call's mark, or the wrapper's: what the cut leaves (`LeftBy`) can only stand behind the last argument, if nothing
closes it (`LeftOpen`), so an argument is the text that was written or that text with such a fragment (`Frayed`), which
is what the property says of it. What the server folded into its last argument is what was
written after it (`NativeIsRead`). `ReplyInv` adds to the property where in its handling a reply is.

### InterfaceProofs

`RunsHaveOneOwner` (RunsAreOwned). `InterfaceInv` orders the runs: `Turns`
says that the session holds exactly the first runs, that at most the last of them is still
reporting, that a run under way was given all before it, and that the interface holds it or has dropped it; `Heard` says that a yes was said, that
only an edit waits for one, and that whoever waits can still be answered.

`DroppedRunIsSilent` (DroppedStaysSilent), an action property. That a message is not shown is decided by the
run it carries, so `Silent` adds that while a run which was dropped is not over the interface is in its abandoned state,
in which no other run starts, and that its held edit is not on the screen.

`NoSavedRunIsLost` (NothingSavedIsLost). `SessionInv` takes a save and a rename apart. `Standing` holds whatever
happens: only a running process has savers, and a rename knows the name it leaves. `Orderly` holds until
a save and a rename have raced: each saver's stage agrees with the files it has
already moved (`InStep`, `RenameInStep`), and at every moment, crashes included, some file holds all the
runs that were saved (`FilesInStep`).

### LaunchProofs

`HeadlessRunIsHonest` (HeadlessIsHonest). `HeadlessInv` carries to each stage what time is left and
which report stands, and the exit code follows (`ExitIsTrue`).

`ResumedSessionsAreHonest` (ResumeIsHonest) and `ModelsAreTuned` (TunedForItsModel). `ConfigInv` adds to the
two properties what resuming and switching rely on: resolved settings have all their parts and a model (`Settled`), an
alias stands for a model that is asked for (`ExpandsToAModel`), and the session that is kept has one, with the route it
was saved on or none.

`ServersServe` (ServersAreServed). A listing comes in pages and a cap is shared by servers that
are exposed one after another, so `McpInv` says what holds in between: `ListedSoFar` (the pages read are a beginning
of the listing), `Served` (every tool a server exposed so far was meant to give can be called, by name or
behind its trio), that the tools exposed by name are no more than the part of the cap used up, and
`SeenSoFar` (a listing read in parts has shown what it passed). Two tools may come to one name of the registry, and then
the later takes the place: the property excepts a tool whose name, or whose server's `call_tool`, is `Taken` in the vocabulary, and
the proof needs no more of `ToolName` than that it is a function.

### LimitProofs

`BudgetsStopWhatTheyShould` (BudgetsAreMeant). `LedgerHolds` equates the counters with sums
over the journal of turns, since the last change where the ceiling is an inferred one;
`TurnsBeganWithin`, `TokenStopsAreTrue`, `ChildIsMetered` and `MemoryIsRead` say what was known when each
turn began or a run was stopped. A child is measured by its own allowance and its absolute ceiling, in turns; the tokens
it uses are in no sum, as in the code, and finding `children_spend` is about that.

`RatiosAreKept` (CalibrationKept). `TeachesItsOwn`: between two prompts no characters are kept, and those of a prompt are
credited with tokens of its own turn. `Undisturbed`: while no two saves have overlapped, the file is what was wanted of it, and the save
under way is as far as its own files say. A save that found a file it could not read (`unread`) starts from an empty table, so
from then on a name may have no ratio, but never a wrong one (`AsWanted`).

`PromptsFit` (PromptFits). The window is measured at the learned ratio and a text is cut at the fixed one, so the bound
(`HardCeiling`) is the window while a token is of 4 characters or more, and below that what a window of such text costs at the
learned ratio. What is cut is cut to the room the rest leaves, by the fixed count, and then costs at most `EstimateAt` of it; the
proof goes through the shedding in its order: `SummaryFits` (the summary that stays fits beside the task and the
system prompt even if nothing else does), `TailIsKept` (the tail stops being cut when
everything fits, or is gone), `ShedFits` (then the file and the verify share what is left). The invariant
has to say little of the state, only that sizes are numbers and the memory a sequence of entries with a boundary
(`Remembers`), which folding and collapsing keep; the arithmetic of the working set (a geometric
mean) needs an integer square root (`RootExists`).

`EditsAreForgottenLast`, without a condition: the summary sheds its first entry that may go (`FirstDroppable`), so while
an incidental one is left no edit is shed, at each of the steps of `Shedding`.

`MemoryIsFaithful` (MemoryKeepsFaith, with AssembleSucceeds). A pointer is written turns after the read it points to, and what was
read may have been folded since, so three invariants are carried together:

1. `MemoryInv`: sizes are numbers and the memory is a sequence of entries with a boundary;
2. `PointerInv`: every mark of the read ledger is true (`MarkIsTrue`: the message of that read is
   where the ledger says, and is not folded unless a compaction was counted since, which `Observe` sees), and the boundary is within the tail, so `Assemble` never slices past its end;
3. `FollowInv`: the last request agrees with memory about where its tail began and what its summary was
   (`Following`), and a summary that was collapsed to the budget is left alone by the next collapse (`Settled`). Then the next request starts
   as the last one did, unless a compaction was counted in between or the ratio fell: what was settled at one ratio is
   settled at a higher one (`SettledAbove`), and at a lower one the same summary is larger.

It assumes what the code has, or says where it fails: a Loop of one run (`Submissions <= 1`; with more, finding
`memory_reuse` makes the fold stale and TLC finds a false pointer before the panic), the map of the repository outside the system
message (inside it the text that changes with the turn precedes what is cached), and a summary whose budget holds a
brief and an entry at every ratio (`BriefHasRoom`: 4 of the model's units; in the code about 1120 tokens at the default window of
8000, against a brief of 700 and an entry of 256 at 4 characters a token). With less, a brief is collapsed again without being counted as a compaction (`memory.go`, "Not counted as a
separate compaction"). `PrefixesAreStable` needs only the last two: the prefix is stable for any number of runs.

`StreaksAreExact` (ChurnExact). `ChurnInv` gives each of the detector's five fields as a function of
the whole history; the two streaks need what one more turn does to the longest agreeing end of a history.

### Only model-checked

- `CallsTypeOK` and `PartsTypeOK`, the type invariants of all components of a run together: the theorems
  above each prove the types they need, as part of their invariants.
- `RunsTerminate`, `CallsReturn` and `CommandReturns`: liveness, which is out of the prover's reach.

## 5. What is not modelled

- **Repository map**: a pure pipeline whose ranking is floating point; what it gives a
  request is a size, and WorkingMemory has it.
- **Repair, lint, constraints, observations**: text composed for the next prompt; no state
  the loop decides by depends on it, except the account of refused writes, which is in Scope.
- **Rendering, menus, the transcript's layout, the doctor, flag parsing, detection of the verify
  command**: no property of ours is about them.
- **Resolving a path against symbolic links**: the file system's answer, in one call.
- **The arithmetic of token estimates**: floating point; Calibration has what a ratio is made of.
- **Names of failing tests in an output**: regular expressions; verdicts carry the set.
- **A child's own run**: another instance of AgentLoop. To its parent it is an answer, a changed
  tree, the steps it may take and the tools it has.
- **Switches that are off by default**, and the gauges that only report.

## 6. Where code and documentation disagree

Each of these is a run TLC refutes.

1. `checkpoint_cancelled`: after an interrupt the rollback runs under the cancelled
   context (`agent/loop.go:1126`), so `git cat-file` fails, Rollback takes that for "absent
   from the snapshot tree" (`agent/checkpoint.go:174`) and removes a file git tracks, which was there when the
   checkpoint began, where the comment says "it existed at the checkpoint → restore THAT content".
2. `child`: the handoff at the explore nudge (`agent/loop.go:2467`) does not set
   `mutatedSinceVerify`; the other handoff does, and says why (`loop.go:2292-2302`).
3. `spec`: `createdPaths` is never reset, so what one run created stays open to edits
   in the next (`agent/loop.go:4294`), where the comment says "this run".
4. `partial`: a call that failed after it changed files is not a mutation
   (`agent/loop.go:1926`): a rename that could not write its next file, a command whose
   pipes outlive `WaitDelay`. "The green that authorises success was always produced
   after the last mutation" (`loop.go:1946-1949`) does not hold of it.
5. `flakes`: the verify at the first explore nudge does not retire what it saw passing
   (`agent/loop.go:2431`), so a flaky test of the baseline is excused again, where
   `baseline.go:258` says it "never re-enters the excused set".
6. `children_spend`: a child gets a budget of its own without a token ceiling (`agent/subagent.go:157`, `227`) and
   what it used is only reported (`291`), so the tokens of a run and its children pass an explicit `--max-tokens`
   without a stop, where `budget.go:27` says that it "still bounds total spend" and `subagent.go:263-265` that "the
   parent's own budget keeps counting while the child runs".
7. `memory_reuse`: nothing resets the fold of the working memory (`agent/memory.go:624`), which
   the terminal interface keeps for all its tasks: the second, shorter one is sliced with the first's
   index and the loop panics, where `loop.go:786` says that per-run state starts clean. The same fold can make
   a pointer to an earlier read false in a run that does not panic.

### Conditions

What the properties leave out because the code does, each in the formula or in the action that has it:

- Agent loop: an edit that changes nothing sets `edited` (`loop.go:1698`); a hard stop for scope
  after the completion probe is upgraded to success (`loop.go:1046`); a rename or a
  child before the first edit call is in the baseline; an empty untracked file, an ignored one, and one whose
  creation failed are not told apart by the rollback (`checkpoint.go:117`, `191`).
- Model calls: the watchdog that fires before the headers ends as a cancelled context and is not
  retried (`llm/sse.go:86`); an end in the middle of a data line is a decode error and not
  an incomplete stream; a shrink may raise a window already below the floor
  (`loop.go:4684-4712`).
- Memory: the window is measured at the learned ratio, but pins and the tail are cut at 4 characters a token
  (`memory.go:971`, `1068`), so below 4 a cut text passes the window, against "so the hard ceiling holds strictly"
  (`memory.go:55`) and "never mix a calibrated count with an uncalibrated one" (`loop.go:4967-4969`); the summary is measured
  anew each turn, so when the ratio falls it may be collapsed with nothing folded and the cached prefix changes without a counted
  compaction, against "byte-stable" (`memory.go:241-242`, `621-623`); the pinned map does not count against the history's share (`loop.go:2714-2759`) and is never
  reset (`loop.go:2703`); in the system message it takes the cached prefix with it; a brief larger than the summary's budget
  is collapsed without a compaction being counted.
- Commands: `cmd &` whose child keeps the pipe comes back as a tool error; the buffer of a
  background process keeps its oldest output (`background.go:111`); a child's finish
  stops the servers of its parent too; leaving with Ctrl-C leaves them running.
- Interface: an edit's prompt may have no run any more (`interrupt.go:69-73`); approve-each does not
  hold `rename_symbol`; a rename of the session races its save.
- Editing: a SEARCH directly followed by REPLACE deletes; `strings.Count` does not
  count overlapping places (`edit.go:35-39`); `os.WriteFile` truncates first, so "byte-identical"
  (`multi.go`) needs the write to succeed; a rename that only reports does not ask the scope.
- Scope: what a child was refused, and that it stopped for safety, reach its parent only as the text of a report
  (`subagent.go:246-261`): each loop has its own tracker (`loop.go:1115`, `1611`), so no account of the run
  names those paths and the parent goes on, though `offscope.go:26-35` and `types.go:633` speak of the run; `Without` drops hidden tools' stubs; an allow list that only names files to be created
  counts as no place to write.
- Headless: a first attempt that succeeded just as its time ran out is run again (`headless.go:240`);
  a second attempt without a report keeps the first's; exit codes lack two of the reasons.
- Config: a session that recorded no endpoint is restored without the cross-check and without a notice, one that
  recorded no provider is declined, in silence if the model is the same (`resume_model.go:52-59`, `78`); the notice of lines 78-81
  says that the run is on the resumed route, though the settings are not replaced; the token ceiling is computed before the catalog's window is known
  (`config.go:1470`, `modelinfo.go:165`); `/model` sends an alias as it is, and keeps the previous
  window; a saved id that is also an alias is expanded again.
- MCP: two tools whose names are the same once sanitized, joined and cut share one name of the registry, and the later one
  hides the earlier (`schema.go:64-94`), against `schema.go:61-63`.
- Dialects: in the invoke dialects a call is cut at `invoke name=` (`dsml_invoke.go:36`), inside the next call's tag, and
  an argument that nothing closes runs to the cut (`105-111`), so it ends in the opener of that tag, against
  `dsml_invoke.go:19-20`, `97-99` and `114-115`; in the arg_key dialect a call that is not closed swallows one that is; the XML adapter guesses
  at a missing mark; JSON that does not balance passes for an answer.
- Budget: a change made by a child or a shell
  does not renew the computed ceiling (`loop.go:1725`); the closing answer's prompt is not in the reserve;
  the count of children is not reset between tasks (`loop.go:803`).
- Calibration: the tokens of several prompts of one turn are credited to one prompt's characters
  (`loop.go:2901`, `2968-2993`), against "this many characters cost exactly this many tokens" (`4986-4987`); a file that cannot be
  read counts as an empty table and is replaced (`tokens/store.go:57-60`); an estimate is learned from like a measurement (`loop.go:3010`), the ratio
  survives `/model`; two processes that save at once may lose one table.

## 7. What is left

Every component that keeps state is modelled, and every safety and action property of a run is proved, except
for the two compositions of section 4. What a next step would add:

1. **Command lines**: `cli/root.go` and the doctor, if a property about them appears worth stating.
2. **Several runs of one Loop**: `MemoryIsFaithful` without `Submissions <= 1`, once finding `memory_reuse` is fixed.
3. **A child as an instance of AgentLoop** under the budget its parent gives it; for now it is what it may do.
