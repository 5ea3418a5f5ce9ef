-------------------------------- MODULE Mcp --------------------------------
(***************************************************************************)
(* The MCP client: internal/mcp (manager, client, expose, meta, bridge)    *)
(* and its wiring in cli/mcp_wiring.go and cli/memory_hooks.go.            *)
(*                                                                         *)
(* At launch the enabled servers are dialled one after the other; one that *)
(* fails, or is not done in time, is skipped.  Each server's tools are     *)
(* listed page by page into a snapshot, which the run uses until its end.  *)
(* The survivors' tools then enter the registry, by name or behind three   *)
(* meta tools, under one cap for all servers, and the last one under a     *)
(* name wins.  The name of a tool in the registry joins the server's and   *)
(* the tool's, sanitized and cut at 64 characters with a hash: two tools,  *)
(* of one server or of two, may come to the same.  What a remote call      *)
(* answers changes nothing here.                                           *)
(***************************************************************************)
EXTENDS Naturals, SequencesExt, FiniteSetsExt

CONSTANTS
    McpEntries,   \* what the profile may configure: sequences of servers, in
                  \* the order of their names (ConfigFromEntries sorts them)
    ToolName,     \* [server -> [tool -> name in the registry]], not injective (toolName)
    Remote,       \* the tools the server of each name advertises, in pages
    Width,        \* characters of a tool's line in list_tools
    MaxExposed,   \* maxExposedTools
    MaxLines,     \* metaListMaxTools
    MaxChars      \* metaListMaxChars

\* A configuration names no server twice, and a server answers with a page.
ASSUME McpAssumption ==
    /\ {MaxExposed, MaxLines, MaxChars} \subseteq Nat /\ Width \in [DOMAIN Width -> Nat]
    /\ \A s \in DOMAIN Remote : Remote[s] \in Seq(Seq(DOMAIN Width)) /\ Remote[s] # <<>>
    /\ \A es \in McpEntries :
         /\ es \in Seq([name : DOMAIN Remote, disabled : BOOLEAN, transports : Nat,
                        mode : STRING, expose : Seq(STRING)])
         /\ \A i, j \in DOMAIN es : i # j => es[i].name # es[j].name

Trio == <<"list_tools", "describe_tool", "call_tool">>

VARIABLES
    mcpStage,   \* where the launch or the run is
    entries,    \* the servers still to dial
    dialing,    \* the server being dialled and the tools listed so far
    sessions,   \* the session of each server: none, open, closed
    clients,    \* the connected servers, in order, with their snapshots
    exposed,    \* how many of them Register has passed
    remaining,  \* what is left of the cap
    vocabulary, \* the registry's MCP tools: the name, the server and tool behind it
    listing     \* the model's walk through one list_tools: server, cursor, tools seen

mcpVars == <<mcpStage, entries, dialing, sessions, clients, exposed, remaining, vocabulary, listing>>

Servers == DOMAIN Remote
RemoteTools(s) == FlattenSeq(Remote[s])
NoDial == [at |-> "idle", tools |-> <<>>, page |-> 0]
NoListing == [server |-> "", next |-> 0, seen |-> <<>>]

McpInit ==
    /\ mcpStage = "launch"
    /\ entries = <<>>
    /\ dialing = NoDial
    /\ sessions = [s \in Servers |-> "none"]
    /\ clients = <<>>
    /\ exposed = 0
    /\ remaining = 0
    /\ vocabulary = {}
    /\ listing = NoListing

-----------------------------------------------------------------------------
(* Connect *)

\* wireMCP.  With MCP disabled nothing is dialled.
WireMcp(es) ==
    /\ mcpStage = "launch"
    /\ entries' = es
    /\ remaining' = MaxExposed
    /\ mcpStage' = IF es = <<>> THEN "run" ELSE "connect"
    /\ UNCHANGED <<dialing, sessions, clients, exposed, vocabulary, listing>>

Dialled ==
    /\ mcpStage = "connect"
    /\ entries # <<>>

\* A disabled server, or one without exactly one transport, is not dialled.
SkipServer ==
    /\ Dialled
    /\ dialing = NoDial
    /\ Head(entries).disabled \/ Head(entries).transports # 1
    /\ entries' = Tail(entries)
    /\ UNCHANGED <<mcpStage, dialing, sessions, clients, exposed, remaining, vocabulary, listing>>

DialServer ==
    /\ Dialled
    /\ dialing = NoDial
    /\ ~Head(entries).disabled /\ Head(entries).transports = 1
    /\ dialing' = [NoDial EXCEPT !.at = "listing"]
    /\ sessions' = [sessions EXCEPT ![Head(entries).name] = "open"]
    /\ UNCHANGED <<mcpStage, entries, clients, exposed, remaining, vocabulary, listing>>

\* It does not connect, or not before the deadline.
DialFails ==
    /\ Dialled
    /\ dialing = NoDial
    /\ ~Head(entries).disabled /\ Head(entries).transports = 1
    /\ entries' = Tail(entries)
    /\ UNCHANGED <<mcpStage, dialing, sessions, clients, exposed, remaining, vocabulary, listing>>

\* listAllTools: one page of ListTools; the last one completes the client.
ListPage ==
    /\ Dialled
    /\ dialing.at = "listing"
    /\ LET s    == Head(entries).name
           all  == dialing.tools \o Remote[s][dialing.page + 1]
       IN IF dialing.page + 1 < Len(Remote[s])
          THEN /\ dialing' = [dialing EXCEPT !.tools = all, !.page = @ + 1]
               /\ UNCHANGED <<entries, clients>>
          ELSE /\ dialing' = NoDial
               /\ entries' = Tail(entries)
               /\ clients' = Append(clients, [cfg |-> Head(entries), tools |-> all])
    /\ UNCHANGED <<mcpStage, sessions, exposed, remaining, vocabulary, listing>>


\* A page fails or the deadline passes: the session is closed and the server
\* skipped, whatever it had listed.
ListFails ==
    /\ Dialled
    /\ dialing.at = "listing"
    /\ sessions' = [sessions EXCEPT ![Head(entries).name] = "closed"]
    /\ dialing' = NoDial
    /\ entries' = Tail(entries)
    /\ UNCHANGED <<mcpStage, clients, exposed, remaining, vocabulary, listing>>

-----------------------------------------------------------------------------
(* Register *)

\* resolveMode: the mode of an entry that names none, or one nobody knows.
ResolveMode(cfg) ==
    IF cfg.mode \in {"curated", "lazy", "all"} THEN cfg.mode
    ELSE IF cfg.mode = "" /\ cfg.expose # <<>> THEN "curated" ELSE "lazy"

\* What exposeList is given, and the places in it of what the server advertises.
ToExpose(c) ==
    CASE ResolveMode(c.cfg) = "all"     -> c.tools
      [] ResolveMode(c.cfg) = "curated" -> c.cfg.expose
      [] OTHER                          -> <<>>
Candidates(c) == {i \in DOMAIN ToExpose(c) : ToExpose(c)[i] \in ToSet(c.tools)}
NamesAt(c, places) == {ToExpose(c)[i] : i \in places}
\* The first of them, as many as are left of the cap.
Fitting(c, left) == {i \in Candidates(c) : Cardinality({j \in Candidates(c) : j <= i}) <= left}

Entry(s, t, does) == [as |-> ToolName[s][t], server |-> s, name |-> t, does |-> does]

\* Registry.Register, of the tools at some places of a list, in their order: the
\* last one under a name wins, whoever it is of.
Newest(s, list, places, does) ==
    {Entry(s, list[i], does) :
        i \in {i \in places : \A j \in places : j > i => ToolName[s][list[j]] # ToolName[s][list[i]]}}
Registered(old, new) == {t \in old : \A n \in new : t.as # n.as} \cup new

Direct(c, places) == Newest(c.cfg.name, ToExpose(c), places, "tool")
MetaTrio(c)       == Newest(c.cfg.name, Trio, DOMAIN Trio, "meta")

ExposedCut(old, c, left) ==          \* bug: what exceeds the cap is dropped
    IF ResolveMode(c.cfg) = "lazy" THEN Registered(old, MetaTrio(c))
    ELSE Registered(old, Direct(c, Fitting(c, left)))

\* exposeServer: a lazy server is its trio; any other goes in by name until the
\* cap is used up, and what is left of it goes behind the trio.
Exposed(old, c, left) ==
    LET byName == Registered(old, Direct(c, Fitting(c, left)))
    IN IF ResolveMode(c.cfg) = "lazy" \/ Fitting(c, left) # Candidates(c)
       THEN Registered(byName, MetaTrio(c))
       ELSE byName

ExposeServer ==
    /\ mcpStage = "connect"
    /\ entries = <<>>
    /\ exposed < Len(clients)
    /\ LET c == clients[exposed + 1]
           n == Cardinality(Candidates(c))
       IN /\ vocabulary' = Exposed(vocabulary, c, remaining)
          /\ remaining' = IF n <= remaining THEN remaining - n ELSE 0
    /\ exposed' = exposed + 1
    /\ UNCHANGED <<mcpStage, entries, dialing, sessions, clients, listing>>

McpReady ==
    /\ mcpStage = "connect"
    /\ entries = <<>>
    /\ exposed = Len(clients)
    /\ mcpStage' = "run"
    /\ UNCHANGED <<entries, dialing, sessions, clients, exposed, remaining, vocabulary, listing>>

-----------------------------------------------------------------------------
(* The run *)

Snapshot(s) == LET c == CHOOSE i \in DOMAIN clients : clients[i].cfg.name = s
               IN clients[c].tools

\* list_tools from a cursor on: at least one line, then as many as fit.
Chars(tools) == FoldSeq(LAMBDA t, n : n + Width[t], 0, tools)
PageEnd(tools, start) ==
    Max({i \in start + 1 .. Len(tools) :
            \/ i = start + 1
            \/ i - start <= MaxLines /\ Chars(SubSeq(tools, start + 1, i)) <= MaxChars})

\* ListToolsMeta: the model starts, follows the cursor it was given, or names any.
\* Past the end the answer is that there are no tools.
ListTools(s, cursor) ==
    /\ mcpStage = "run"
    /\ Entry(s, "list_tools", "meta") \in vocabulary
    /\ LET tools   == Snapshot(s)
           page    == IF cursor < Len(tools) THEN PageEnd(tools, cursor) ELSE Len(tools)
           follows == listing.server = s /\ listing.next = cursor /\ cursor > 0
       IN listing' = IF cursor > 0 /\ ~follows THEN NoListing
                     ELSE [server |-> s,
                           next   |-> IF page < Len(tools) THEN page ELSE 0,
                           seen   |-> (IF follows THEN listing.seen ELSE <<>>)
                                          \o SubSeq(tools, cursor + 1, page)]
    /\ UNCHANGED <<mcpStage, entries, dialing, sessions, clients, exposed, remaining, vocabulary>>

\* The tools a call may reach: by its name, or through call_tool when the
\* snapshot has it.  The memory hooks call by server and tool alone.
Callable(s, t) ==
    \/ Entry(s, t, "tool") \in vocabulary
    \/ Entry(s, "call_tool", "meta") \in vocabulary /\ t \in ToSet(Snapshot(s))

\* Another tool goes by the name this one has in the registry.
Taken(s, t) == \E v \in vocabulary : v.as = ToolName[s][t] /\ <<v.server, v.name>> # <<s, t>>

\* Close: every session of a connected server, whatever the others answer.
CloseAll ==
    /\ mcpStage = "run"
    /\ mcpStage' = "closed"
    /\ sessions' = [s \in Servers |->
                      IF \E i \in DOMAIN clients : clients[i].cfg.name = s THEN "closed" ELSE sessions[s]]
    /\ UNCHANGED <<entries, dialing, clients, exposed, remaining, vocabulary, listing>>

McpNext ==
    \/ \E es \in McpEntries : WireMcp(es)
    \/ SkipServer \/ DialServer \/ DialFails \/ ListPage \/ ListFails
    \/ ExposeServer \/ McpReady
    \/ \E s \in Servers : \E cursor \in 0 .. Len(RemoteTools(s)) + 1 : ListTools(s, cursor)
    \/ CloseAll

McpSpec == McpInit /\ [][McpNext]_mcpVars

-----------------------------------------------------------------------------
(* Properties *)

\* Every part of the state has its type.
McpTypeOK ==
    /\ mcpStage \in {"launch", "connect", "run", "closed"}
    /\ sessions \in [Servers -> {"none", "open", "closed"}]
    /\ exposed \in 0 .. Len(clients)
    /\ remaining \in 0 .. MaxExposed
    /\ \A v \in vocabulary : /\ v.server \in Servers /\ v.name \in ToSet(Trio) \cup DOMAIN Width
                             /\ v = Entry(v.server, v.name, v.does) /\ v.does \in {"tool", "meta"}
    /\ listing.next \in Nat

\* Nothing is cut off silently (expose.go:9-11): once the run begins, every tool
\* a connected server was meant to expose can be called, however the cap fell,
\* unless another tool has come to the same name as it, or as its call_tool (two
\* distinct tools are said to map to distinct names, schema.go:61-63); no more
\* than the cap are in the prompt by name, and a model that follows the cursors of
\* list_tools to their end has seen each of the server's tools once.
NothingHidden ==
    /\ mcpStage = "run" =>
         \A i \in DOMAIN clients :
            LET c == clients[i]
                wanted == IF ResolveMode(c.cfg) = "lazy" THEN ToSet(c.tools)
                          ELSE NamesAt(c, Candidates(c))
            IN \A t \in wanted : \/ Callable(c.cfg.name, t)
                                 \/ Taken(c.cfg.name, t) \/ Taken(c.cfg.name, "call_tool")
    /\ Cardinality({t \in vocabulary : t.does = "tool"}) <= MaxExposed
    /\ listing.server # "" /\ listing.next = 0 => listing.seen = RemoteTools(listing.server)

\* One server's trouble costs no other its session and leaves none behind: a
\* session is open exactly while its server is being dialled or is connected.
SessionsAreOwned ==
    \A s \in Servers :
        sessions[s] = "open" <=>
            /\ mcpStage # "closed"
            /\ \/ \E i \in DOMAIN clients : clients[i].cfg.name = s
               \/ dialing # NoDial /\ Head(entries).name = s


\* Every server that answers is there for the run, whole, and gone with it.
ServersAreServed == NothingHidden /\ SessionsAreOwned
=============================================================================
