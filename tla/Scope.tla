------------------------------- MODULE Scope -------------------------------
(***************************************************************************)
(* What a run may write: the file-scope policy (internal/tools/scope.go,   *)
(* internal/config/scope.go), the check every write tool makes             *)
(* (workspace.go), the tools a run and its children are given              *)
(* (registry.go, builtins.go, disabled_shell.go), each loop's own account  *)
(* of refused writes (internal/agent/offscope.go) and the stop rules of    *)
(* --stop-on.                                                              *)
(*                                                                         *)
(* A path is a sequence of segments, a glob a sequence of segments where   *)
(* "*" stands for one and "**" for any number.  A model names any tool and *)
(* any path, of what it was offered or not.                                *)
(***************************************************************************)
EXTENDS Naturals, SequencesExt, FiniteSetsExt

CONSTANTS
    ScopePaths,     \* the paths a model may name
    Manifests,      \* what .kloo/scope.yaml may hold: a list for each key
    Flags,          \* what --allow, --deny and --read-only may be given
    Unset,          \* a flag that is not given
    MaxNamed,       \* maxOffScopeDenials
    MaxToolCalls    \* bound: calls in one run

ASSUME ScopeAssumption == MaxNamed \in Nat \ {0} /\ MaxToolCalls \in Nat

VARIABLES
    launch,     \* the settings of the run: manifest, flags, patch-only, stop rule
    policy,     \* ScopePolicy: allow, deny, read_only
    tree,       \* the files there are
    mayWrite,   \* AllowsAnyWrite, asked once when the run begins
    registry,   \* the run's tools: those that dispatch, those that are offered
    child,      \* a sub-agent has the turn
    tracker,    \* each loop's offScopeTracker
    halted,     \* the run ended with a safety stop
    asked,      \* calls made
    touched,    \* ghost: paths a tool changed
    refused     \* ghost: paths the scope refused the run, and its last child

scopeVars == <<launch, policy, tree, mayWrite, registry, child, tracker,
               halted, asked, touched, refused>>

Keys  == {"allow", "deny", "read_only"}
Stops == {"none", "off-scope-edit", "read-only-edit"}
Unscoped == [k \in Keys |-> <<>>]
NoLaunch == [stop |-> "none", patch |-> FALSE, manifest |-> Unscoped, flags |-> [k \in Keys |-> Unset]]
NoTools  == [real |-> {}, stub |-> {}, offered |-> {}]

\* A tracker is a local of Run, so a child, a run of its own, has its own.
Loops   == {"run", "child"}
NoneYet == [denials |-> <<>>, distinct |-> 0]

-----------------------------------------------------------------------------
(* The policy *)

\* compileGlob.  A glob that ends in "**" also names the directory itself.
Matches(glob, path) ==
    LET n == Len(glob)
        m == Len(path)
        From[i \in 1 .. n + 1, j \in 1 .. m + 1] ==
            IF i > n THEN j > m
            ELSE IF glob[i] = "**" THEN From[i + 1, j] \/ (j <= m /\ From[i, j + 1])
            ELSE j <= m /\ glob[i] \in {"*", path[j]} /\ From[i + 1, j + 1]
    IN From[1, 1]

MatchesAny(globs, path) == \E g \in ToSet(globs) : Matches(g, path)

\* ResolveScope: a flag that is given replaces the manifest's list, key by key.
ResolveScope(manifest, flags) ==
    [k \in Keys |-> IF flags[k] = Unset THEN manifest[k] ELSE flags[k]]

Active(p) == \E k \in Keys : p[k] # <<>>

\* CanWrite: deny, then read_only, then what allow leaves out.
CanWrite(p, path) ==
    IF MatchesAny(p.deny, path) THEN "deny"
    ELSE IF MatchesAny(p.read_only, path) THEN "read_only"
    ELSE IF p.allow # <<>> /\ ~ MatchesAny(p.allow, path) THEN "outside_allow"
    ELSE "allowed"

\* AllowsAnyWrite: some file that exists is writable; without an allow list
\* nobody looks.
AllowsAnyWrite(p, files) ==
    p.allow = <<>> \/ \E f \in files : CanWrite(p, f) = "allowed"

-----------------------------------------------------------------------------
(* The tools *)

Writers  == {"edit_file", "write_file", "rename_symbol"}
Offered  == {"read_file", "search", "edit_file", "write_file", "finish", "task"}

\* ModelShellDisabled: the shell could write past the policy.
PatchOnlyShell(p, patch) == patch        \* bug: a scope leaves the shell
ShellDisabled(p, patch)  == Active(p) \/ patch

\* DefaultRegistry: rename_symbol dispatches and is not offered, and a stub
\* takes the place of a shell that is withheld.
DefaultRegistry(p, patch) ==
    LET off == ShellDisabled(p, patch)
    IN [real    |-> Offered \cup {"rename_symbol"} \cup (IF off THEN {} ELSE {"run_command"}),
        stub    |-> IF off THEN {"run_command"} ELSE {},
        offered |-> Offered \cup (IF off THEN {} ELSE {"run_command"})]

\* Without: a child gets what was offered, so no hidden tool.
WithoutTools(r, names) ==
    [real |-> (r.offered \cap r.real) \ names, stub |-> (r.offered \cap r.stub) \ names,
     offered |-> r.offered \ names]

-----------------------------------------------------------------------------
LaunchRun ==
    /\ launch = NoLaunch /\ asked = 0 /\ ~ halted
    /\ \E m \in Manifests, f \in Flags, patch \in BOOLEAN, stop \in Stops :
         LET p == ResolveScope(m, f)
         IN /\ launch' = [manifest |-> m, flags |-> f, patch |-> patch, stop |-> stop]
            /\ policy' = p
            /\ registry' = DefaultRegistry(p, patch)
            /\ \E files \in SUBSET ScopePaths :
                 tree' = files /\ mayWrite' = AllowsAnyWrite(p, files)
    /\ asked' = 1
    /\ UNCHANGED <<child, tracker, halted, touched, refused>>

Calling == asked \in 1 .. MaxToolCalls /\ ~ halted /\ asked' = asked + 1

\* Whose turn it is, and the tools it has: a child's are without the task tool.
Actor == IF child THEN "child" ELSE "run"
Tools == IF child THEN WithoutTools(registry, {"task"}) ELSE registry

Wrote(paths) == touched' = touched \cup paths /\ tree' = tree \cup paths

\* offScopeTracker.note: a path once, and no more than MaxNamed by name.
Note(path) ==
    IF path \in refused[Actor] THEN UNCHANGED tracker
    ELSE tracker' = [tracker EXCEPT ![Actor] =
                       [denials  |-> IF Len(@.denials) < MaxNamed THEN Append(@.denials, path)
                                     ELSE @.denials,
                        distinct |-> @.distinct + 1]]

\* What the loop does with a ScopeError: --stop-on ends it, the run for good.
\* A child that is stopped hands the turn back, and subagentReport passes on
\* neither that stop nor a refusal.
StopsOn(class) ==
    \/ launch.stop = "off-scope-edit"
    \/ launch.stop = "read-only-edit" /\ class = "read_only"
StopFor(class) ==
    /\ halted' = (StopsOn(class) /\ ~ child)
    /\ child'  = (child /\ ~ StopsOn(class))

\* edit_file, write_file or one file of rename_symbol.
WriteTool ==
    \E tool \in Writers \cap Tools.real, path \in ScopePaths :
        LET d == CanWrite(policy, path)
        IN /\ Calling
           /\ \/ d = "allowed" /\ Wrote({path})
                 /\ UNCHANGED <<child, tracker, halted, refused>>
              \/ d # "allowed" /\ Note(path) /\ StopFor(d)
                 /\ refused' = [refused EXCEPT ![Actor] = @ \cup {path}]
                 /\ UNCHANGED <<touched, tree>>
           /\ UNCHANGED <<launch, policy, mayWrite, registry>>

\* A shell writes where it likes; its stub is a refusal without a path.
RunShell ==
    /\ Calling
    /\ \/ /\ "run_command" \in Tools.real
          /\ \E paths \in SUBSET ScopePaths : Wrote(paths)
          /\ UNCHANGED <<child, halted>>
       \/ /\ "run_command" \in Tools.stub
          /\ IF Active(policy) THEN StopFor("run_command_disabled_for_scope")
             ELSE UNCHANGED <<child, halted>>
          /\ UNCHANGED <<touched, tree>>
    /\ UNCHANGED <<launch, policy, mayWrite, registry, tracker, refused>>

\* A task call, or a handoff of the loop's own, gives the turn to a child.
RunChild ==
    /\ Calling /\ ~ child /\ "task" \in Tools.offered
    /\ child' = TRUE
    /\ tracker' = [tracker EXCEPT !["child"] = NoneYet]
    /\ refused' = [refused EXCEPT !["child"] = {}]
    /\ UNCHANGED <<launch, policy, tree, mayWrite, registry, halted, touched>>

ChildReturns ==
    /\ child /\ child' = FALSE
    /\ UNCHANGED <<launch, policy, tree, mayWrite, registry, tracker, halted,
                   asked, touched, refused>>

ScopeInit ==
    /\ launch = NoLaunch /\ policy = Unscoped /\ tree = {} /\ mayWrite = TRUE
    /\ registry = NoTools /\ child = FALSE
    /\ tracker = [x \in Loops |-> NoneYet] /\ refused = [x \in Loops |-> {}]
    /\ halted = FALSE /\ asked = 0 /\ touched = {}

ScopeNext == LaunchRun \/ WriteTool \/ RunShell \/ RunChild \/ ChildReturns

ScopeSpec == ScopeInit /\ [][ScopeNext]_scopeVars

-----------------------------------------------------------------------------
\* Every part of the state has its type.
ScopeTypeOK ==
    /\ tree \subseteq ScopePaths /\ touched \subseteq tree
    /\ registry.real \cap registry.stub = {}
    /\ \A x \in Loops : Len(tracker[x].denials) <= MaxNamed /\ tracker[x].distinct \in Nat
    /\ asked \in 0 .. MaxToolCalls + 1

\* Nothing a model can name, offered or hidden, in the run or in a child,
\* changes a file its operator ruled out: a list given on the command line
\* counts alone, and otherwise the manifest's does.
Ruled(key, path) ==
    LET globs == IF launch.flags[key] = Unset THEN launch.manifest[key] ELSE launch.flags[key]
    IN MatchesAny(globs, path)
AllowList == IF launch.flags["allow"] = Unset THEN launch.manifest["allow"] ELSE launch.flags["allow"]

WritesStayInside ==
    \A p \in touched :
        /\ ~ Ruled("deny", p) /\ ~ Ruled("read_only", p)
        /\ AllowList = <<>> \/ Ruled("allow", p)

\* Each loop's account names the paths it was refused, each once and the first
\* ones first, and counts them all; the first of a loop that stops for off-scope
\* edits is its last, whether it ends the run or only the child.  What was
\* refused a child is in its own account alone, and nobody reads that one: the
\* run's report is exact about the run's own writes.
RefusalsAreNamed ==
    \A x \in Loops :
        LET t == tracker[x]
        IN /\ t.distinct = Cardinality(refused[x])
           /\ IsInjective(t.denials) /\ ToSet(t.denials) \subseteq refused[x]
           /\ Len(t.denials) = Min({MaxNamed, t.distinct})
           /\ launch.stop = "off-scope-edit" /\ refused[x] # {} =>
                 /\ Len(t.denials) = 1
                 /\ IF x = "run" THEN halted ELSE ~ child

\* What the operator ruled out stays as it was, and the report says what was tried:
\* no sequence of calls, of the run or of a child, writes past the policy, and no
\* refusal is lost from or counted twice in the account of the loop that met it.
ScopeHolds == WritesStayInside /\ RefusalsAreNamed
=============================================================================
