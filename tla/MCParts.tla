------------------------------- MODULE MCParts -------------------------------
(***************************************************************************)
(* Instances for TLC of the components that share no state: a behaviour    *)
(* picks one of them and runs it, and the others stay as they began.       *)
(***************************************************************************)
EXTENDS Checkpoint, ChurnHistory, Stream, Background, Interface, SessionStore,
        WorkingMemory, Editing, Scope, Headless, Config, Mcp, Dialects, Budget,
        Calibration

VARIABLE part

-----------------------------------------------------------------------------
(* Checkpoint *)

\* The run's edits write "empty" and no file starts with it, so that an edit
\* always shows; "a" starts small or is not there, "b" is too large to be recorded;
\* git tracks what is in HEAD, whose content is "old".
HandedTree ==
    \A p \in Paths :
        IF part # "checkpoint" THEN disk[p] = Missing /\ head[p] = Missing /\ p \notin index
        ELSE /\ disk[p] \in IF p = "b" THEN {"big"} ELSE {"old", Missing}
             /\ head[p] \in {"old", Missing}
             /\ p \in index <=> head[p] # Missing

\* The others act on "a": they write "old", delete, stage or commit, and what they do
\* between two edits they do once the next step of the run has begun; "b" is edited last, for the order of the
\* edits is nothing a rollback knows.
CheckpointBounds ==
    /\ pc' = pc /\ todo' = todo =>
        /\ pc # "running"
        /\ others' \subseteq {"a"} /\ (disk'["a"] = disk["a"] \/ disk'["a"] \in {"old", Missing})
    /\ pc = "running" /\ target = "b" => target' = target /\ pc' \in {"done", "rollback"}

-----------------------------------------------------------------------------
(* Bounds of others *)

\* Of an event of two data lines only their number counts, for it does not parse.
StreamBounds == Len(dataBuf') = 2 => dataBuf'[2].kind = "done"

\* An edit is held in approve-each alone: the other two modes are one here.
InterfaceBounds == ui'.mode # "accept-edits"

\* Where there is no memory guard the reading does not matter, but for a large one.
BudgetBounds == settings' # <<>> /\ settings'.memory.setting = "off" => resident' # 2

\* The processes are alike and so are the models: the first process starts first, for
\* the first model.
CalibrationBounds == begun = 0 => kloo'[2] = kloo[2] /\ kloo'[1].model = "m1"

-----------------------------------------------------------------------------
(* One part at a time *)

PartNames ==
    {"checkpoint", "churn", "stream", "background", "interface", "sessions",
     "memory", "editing", "scope", "headless", "config", "mcp", "dialects",
     "budget", "calibration"}

Turn(p) ==
    /\ part = p /\ part' = p
    /\ p # "checkpoint" => UNCHANGED checkpointVars
    /\ p # "churn"      => UNCHANGED churnVars
    /\ p # "stream"     => UNCHANGED streamVars
    /\ p # "background" => UNCHANGED backgroundVars
    /\ p # "interface"  => UNCHANGED interfaceVars
    /\ p # "sessions"   => UNCHANGED sessionVars
    /\ p # "memory"     => UNCHANGED memoryVars
    /\ p # "editing"    => UNCHANGED editingVars
    /\ p # "scope"      => UNCHANGED scopeVars
    /\ p # "headless"   => UNCHANGED headlessVars
    /\ p # "config"     => UNCHANGED configVars
    /\ p # "mcp"        => UNCHANGED mcpVars
    /\ p # "dialects"   => UNCHANGED dialectVars
    /\ p # "budget"     => UNCHANGED budgetVars
    /\ p # "calibration" => UNCHANGED calibrationVars

PartsInit ==
    /\ part \in PartNames
    /\ CheckpointInit /\ HandedTree
    /\ ChurnInit /\ StreamInit /\ BackgroundInit /\ InterfaceInit /\ SessionInit
    /\ MemoryInit /\ EditingInit /\ ScopeInit /\ HeadlessInit /\ ConfigInit
    /\ McpInit /\ DialectInit /\ BudgetInit /\ CalibrationInit
    /\ part # "memory" => ratio = Fixed
    /\ part # "config" => kept = NotSet

PartsNext ==
    \/ Turn("checkpoint") /\ CheckpointNext /\ CheckpointBounds
    \/ Turn("churn")      /\ ChurnNext
    \/ Turn("stream")     /\ StreamNext /\ StreamBounds
    \/ Turn("background") /\ BackgroundNext
    \/ Turn("interface")  /\ InterfaceNext /\ InterfaceBounds
    \/ Turn("sessions")   /\ SessionNext
    \/ Turn("memory")     /\ MemoryNext
    \/ Turn("editing")    /\ EditingNext
    \/ Turn("scope")      /\ ScopeNext
    \/ Turn("headless")   /\ HeadlessNext
    \/ Turn("config")     /\ ConfigNext
    \/ Turn("mcp")        /\ McpNext
    \/ Turn("dialects")   /\ DialectNext
    \/ Turn("budget")     /\ BudgetNext /\ BudgetBounds
    \/ Turn("calibration") /\ CalibrationNext /\ CalibrationBounds

\* The state of the component at work has its type; the others are as they began.
PartsTypeOK ==
    /\ part = "checkpoint"  => CheckpointTypeOK
    /\ part = "churn"       => ChurnTypeOK
    /\ part = "stream"      => StreamTypeOK
    /\ part = "background"  => BackgroundTypeOK
    /\ part = "interface"   => InterfaceTypeOK
    /\ part = "sessions"    => SessionTypeOK
    /\ part = "memory"      => MemoryTypeOK
    /\ part = "editing"     => EditingTypeOK
    /\ part = "scope"       => ScopeTypeOK
    /\ part = "headless"    => HeadlessTypeOK
    /\ part = "config"      => ConfigTypeOK
    /\ part = "mcp"         => McpTypeOK
    /\ part = "dialects"    => DialectTypeOK
    /\ part = "budget"      => BudgetTypeOK
    /\ part = "calibration" => CalibrationTypeOK

-----------------------------------------------------------------------------
(* Stream *)

Delta(text, think, frag) == [kind |-> "delta", text |-> text, think |-> think, frag |-> frag]
MCDeltas == {Delta(TRUE, FALSE, NoIndex), Delta(FALSE, TRUE, NoIndex),
             Delta(FALSE, FALSE, 0), Delta(FALSE, FALSE, 1)}

-----------------------------------------------------------------------------
(* Editing: one file is out of the write scope *)

MCEditFiles == <<"f", "g", "h">>
MCTexts  == {Gone, <<"x">>, <<"x", NL, "x", NL, "x", NL>>}
Swap     == <<"search", "x", "div", "y", "repl">>
AddY     == <<"search", "div", "y", "repl">>
Fenced(s) == <<"name", "fence">> \o s \o <<"fence">>
MCDiffs  ==
    {Fenced(Swap), AddY, AddY \o Swap, Swap \o Swap,
     AddY \o <<"search", "div", "x", "repl">>,
     <<"search", "x", "repl", "y", "blank">>,
     Fenced(<<"search", "x", "repl">>), <<"x">>, <<"search", "x", "div">>,
     <<"search", "x", "x", "div", "repl">>,
     Fenced(AddY) \o Fenced(<<"search", "y", "div", "repl">>)}

-----------------------------------------------------------------------------
(* Scope *)

MCScopePaths == {<<"src", "a">>, <<"src", "gen", "b">>, <<"c">>}
MCManifests  ==
    {Unscoped,
     [Unscoped EXCEPT !["allow"] = << <<"src", "**">> >>],
     [Unscoped EXCEPT !["deny"] = << <<"src", "*">> >>, !["read_only"] = << <<"**", "b">> >>]}
Given(k, globs) == [j \in Keys |-> IF j = k THEN globs ELSE Unset]
MCScopeFlags == {Given("allow", Unset), Given("allow", << <<"c">> >>), Given("deny", <<>>)}

-----------------------------------------------------------------------------
(* Config: a profile with no provider, one with an alias, one edited since *)

MCBundled == [m \in {"m1", "m2", "fast", "local"} |->
                 CASE m = "m1" -> 4 [] m = "m2" -> 2 [] m = "fast" -> 3 [] m = "local" -> 1]
Route(endpoint, model, aliases) == [endpoint |-> endpoint, model |-> model, aliases |-> aliases]
Profile(routes, provider, model, tuned) ==
    [routes |-> routes, provider |-> provider, model |-> model, tuned |-> tuned]
MCProfiles ==
    {Profile(<<>>, NotSet, NotSet, <<>>),
     Profile([p \in {"a", "c"} |-> IF p = "a" THEN Route("ea", "fast", [m \in {"fast"} |-> "m1"])
                                              ELSE Route(NotSet, "m2", <<>>)], "a", NotSet,
             [m \in {"m1"} |-> 3]),
     Profile([p \in {"a", "b"} |-> IF p = "a" THEN Route("new", NotSet, [m \in {"fast"} |-> "m2"])
                                              ELSE Route("eb", "m2", <<>>)],
             NotSet, "m1", [m \in {"fast"} |-> 5])}
NoDistill == [provider |-> NotSet, endpoint |-> NotSet, model |-> NotSet]
NoFlags == [provider |-> NotSet, model |-> NotSet, endpoint |-> NotSet, window |-> NotSet,
            tokens |-> NotSet, distill |-> NoDistill]
MCFlagSets ==
    {NoFlags, [NoFlags EXCEPT !.model = "fast"], [NoFlags EXCEPT !.provider = "b"],
     [NoFlags EXCEPT !.endpoint = "ex", !.window = 1, !.tokens = -1],
     [NoFlags EXCEPT !.distill = [NoDistill EXCEPT !.provider = "b"], !.tokens = 9],
     [NoFlags EXCEPT !.distill = [NoDistill EXCEPT !.endpoint = "ed"]]}
NoEnv == [provider |-> NotSet, endpoint |-> NotSet, model |-> NotSet, window |-> NotSet]
MCEnvironments ==
    {NoEnv, [NoEnv EXCEPT !.provider = "a", !.model = "fast"], [NoEnv EXCEPT !.window = 6]}

-----------------------------------------------------------------------------
(* Mcp *)

Server(name, disabled, transports, mode, expose) ==
    [name |-> name, disabled |-> disabled, transports |-> transports, mode |-> mode, expose |-> expose]
MCEntries ==
    {<<>>,
     <<Server("a", FALSE, 1, "all", <<>>), Server("b", FALSE, 1, "", <<"u", "gone", "list_tools">>),
       Server("c", FALSE, 1, "", <<>>)>>,
     <<Server("a", TRUE, 1, "all", <<>>), Server("b", FALSE, 2, "all", <<>>),
       Server("c", FALSE, 1, "curated", <<>>)>>,
     <<Server("a", FALSE, 1, "odd", <<"t">>), Server("b", FALSE, 1, "all", <<>>),
       Server("c", FALSE, 1, "curated", <<"t">>)>>,
     <<Server("c", FALSE, 1, "curated", <<"v">>), Server("d", FALSE, 1, "all", <<>>)>>}
MCWidth  == [t |-> 1, u |-> 1, v |-> 1, list_tools |-> 1, wide |-> 4]
MCRemote == [a |-> << <<"t", "u">>, <<"v">> >>, b |-> << <<"list_tools", "u">> >>,
             c |-> << <<"t">>, <<"wide", "u">>, <<"v">> >>, d |-> << <<"v", "t">> >>]
\* The servers c and d, and the tools t and v of each, sanitize to the same name.
MCToolName ==
    [s \in DOMAIN MCRemote |-> [t \in (DOMAIN MCWidth) \cup ToSet(Trio) |->
        <<IF s = "d" THEN "c" ELSE s, IF t = "v" THEN "t" ELSE t>>]]

-----------------------------------------------------------------------------
(* Dialects: one call or two, each mark forgotten or not *)

ArgOf(key, text, closed) == [key |-> key, text |-> text, closed |-> closed]
CallOf(name, args, closed) == [name |-> name, args |-> args, closed |-> closed]
OneCall == {<<CallOf("edit", <<ArgOf("path", "f", p), ArgOf("diff", "d", d)>>, c)>> : p, d, c \in BOOLEAN}
TwoCalls == {<<CallOf("edit", <<ArgOf("path", "f", p), ArgOf("diff", "d", d)>>, c),
               CallOf("finish", <<ArgOf("summary", "s", s)>>, e)>> : p, d, c, s, e \in BOOLEAN}
MCReplies ==
    {NoReply}
    \cup [dialect : {"function"}, server : {"folds", "parses", "breaks"}, calls : OneCall \cup TwoCalls]
    \cup [dialect : TextDialects \cup {"json", "xml"}, server : {"text"}, calls : OneCall \cup TwoCalls]

-----------------------------------------------------------------------------
(* Budget: hosts and containers of several sizes, in the units of the cap *)

Ram(setting, host, cgroup) == [setting |-> setting, host |-> host, cgroup |-> cgroup, megabytes |-> 3]
NoCeiling == [steps |-> 0, tokens |-> 0, computed |-> FALSE, wall |-> 0,
              memory |-> Ram("off", 64, 0), child |-> 0]
MCBudgetSettings ==
    {[NoCeiling EXCEPT !.tokens = 20, !.computed = TRUE],
     [NoCeiling EXCEPT !.tokens = 20, !.steps = 2, !.child = 3],
     [NoCeiling EXCEPT !.steps = 2, !.wall = 1, !.memory = Ram("default", 4, 0)],
     [NoCeiling EXCEPT !.steps = 1, !.memory = Ram("default", 64, 2)],
     [NoCeiling EXCEPT !.steps = 1, !.memory = Ram("default", 0, 0)],
     [NoCeiling EXCEPT !.steps = 1, !.memory = Ram("set", 64, 0)]}
=============================================================================
