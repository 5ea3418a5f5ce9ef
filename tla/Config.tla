------------------------------- MODULE Config -------------------------------
(***************************************************************************)
(* What a launch runs on: the layering of flags, environment, profile and  *)
(* built-in values (config.Resolve), the window the endpoint's catalog     *)
(* advertises (cli/modelinfo.go), the switches of a session under way      *)
(* (/model, /provider, /profile) and the route a resumed session is given  *)
(* back (cli/resume_model.go).                                             *)
(*                                                                         *)
(* One setting stands for the many layered alike: the window, tuned per    *)
(* model.  The axes that depend on each other are all here: provider,      *)
(* endpoint, model selector, alias, distiller and token ceiling.           *)
(***************************************************************************)
EXTENDS Integers

CONSTANTS
    Profiles,     \* the contents the profile file may have
    FlagSets,     \* command lines
    Environments, \* environments
    Bundled,      \* [model -> window] of the in-binary table
    NotSet,       \* an absent setting
    Advertised,   \* windows a catalog may report; 0 for none
    Local,        \* DefaultEndpoint
    Placeholder,  \* DefaultModel
    MaxSwitches   \* bound on the switches of a session

\* A command line has these settings.  A name in the table, the built-in model,
\* what an alias stands for (an empty one stands for nothing) and a window in the
\* profile are values; one profile may be empty.
ASSUME ConfigAssumption ==
    /\ MaxSwitches \in Nat
    /\ Placeholder # NotSet /\ NotSet \notin DOMAIN Bundled
    /\ \A f \in FlagSets :
         f = [provider |-> f.provider, model |-> f.model, endpoint |-> f.endpoint,
              window |-> f.window, tokens |-> f.tokens, distill |-> f.distill]
    /\ \A profile \in Profiles :
         /\ \A m \in DOMAIN profile.tuned : profile.tuned[m] # NotSet
         /\ \A p \in DOMAIN profile.routes :
              \A a \in DOMAIN profile.routes[p].aliases : profile.routes[p].aliases[a] # NotSet
    /\ \E profile \in Profiles : profile.routes = << >>

VARIABLES
    started,      \* "off", "resolved" or "running"
    file,         \* the profile on disk
    listed,       \* the profile whose providers the session lists; NotSet before it runs
    given,        \* [flags, env] of this launch
    config,       \* the resolved configuration, until the run is set up from it
    runtime,      \* model, provider, endpoint and window of the next run
    kept,         \* the route stored with the session; NotSet before a run
    resuming,     \* this launch reopens the session
    restored,     \* its configuration was replaced by the session's
    notice,       \* the user was told that it was not
    switches      \* bound

configVars == <<started, file, listed, given, config, runtime, kept, resuming, restored,
                notice, switches>>

None == [ok |-> FALSE, provider |-> NotSet, endpoint |-> NotSet, model |-> NotSet, window |-> 0,
         pinned |-> FALSE, ceiling |-> 0, distill |-> [endpoint |-> NotSet, model |-> NotSet]]

\* The first value that is set.
First(a, b) == IF a # NotSet THEN a ELSE b

Aliases(profile, p) == IF p \in DOMAIN profile.routes THEN profile.routes[p].aliases ELSE << >>
Expand(aliases, m)  == IF m \in DOMAIN aliases THEN aliases[m] ELSE m
Owners(profile, m)  == {p \in DOMAIN profile.routes : m \in DOMAIN profile.routes[p].aliases}

-----------------------------------------------------------------------------
(* Resolve *)

Provider(f, e, profile) == First(f.provider, First(e.provider, profile.provider))

Selector(f, e, profile) ==
    LET p == Provider(f, e, profile)
        own == IF p \in DOMAIN profile.routes THEN profile.routes[p].model ELSE NotSet
    IN First(f.model, First(e.model, First(own, First(profile.model, Placeholder))))

BySelector(m, selector) == selector      \* bug: an alias has no tuning
ByModel(m, selector)    == m

\* What the layers below leave when this one says nothing: the user's entry
\* for the model over the table, the environment over both, flags over all.
Tuned(profile, key) ==
    First(IF key \in DOMAIN profile.tuned THEN profile.tuned[key] ELSE NotSet, Bundled[key])
FromEnv(e, below)   == First(e.window, below)
FromFlags(f, below) == First(f.window, below)

Window(f, e, profile, m, selector) == FromFlags(f, FromEnv(e, Tuned(profile, ByModel(m, selector))))

\* ComputeRunTokenBudget, without its fractions and clamps: forty turns of the window.
Ceiling(tokens, window) == IF tokens = NotSet THEN 40 * window ELSE IF tokens < 0 THEN 0 ELSE tokens

\* resolveDistill: a provider of its own fills in what is not set, an alias is
\* that provider's or the run's.
DistillFor(f, profile, p) ==
    LET own   == f.distill.provider
        route == IF own \in DOMAIN profile.routes THEN profile.routes[own]
                 ELSE [endpoint |-> NotSet, model |-> NotSet, aliases |-> Aliases(profile, p)]
    IN [endpoint |-> First(f.distill.endpoint, route.endpoint),
        model    |-> Expand(route.aliases, First(f.distill.model, route.model))]

\* A provider comes from the profile or the launch fails; so does an alias no
\* provider is selected for, and a distiller endpoint with no model.
Refusals(f, e, profile) ==
    LET p == Provider(f, e, profile)
        d == DistillFor(f, profile, p)
    IN \/ p # NotSet /\ p \notin DOMAIN profile.routes
       \/ /\ p = NotSet /\ e.endpoint = NotSet /\ f.endpoint = NotSet
          /\ Owners(profile, Selector(f, e, profile)) # {}
       \/ f.distill.provider # NotSet /\ f.distill.provider \notin DOMAIN profile.routes
       \/ d.endpoint # NotSet /\ d.model = NotSet

Resolve(f, e, profile) ==
    LET p   == Provider(f, e, profile)
        sel == Selector(f, e, profile)
        m   == Expand(Aliases(profile, p), sel)
        w   == Window(f, e, profile, m, sel)
        own == IF p \in DOMAIN profile.routes THEN profile.routes[p].endpoint ELSE NotSet
    IN IF Refusals(f, e, profile) THEN None
       ELSE [ok |-> TRUE, provider |-> p, model |-> m, window |-> w,
             endpoint |-> First(f.endpoint, First(e.endpoint, First(own, Local))),
             pinned   |-> f.window # NotSet \/ m \in DOMAIN profile.tuned,
             ceiling  |-> Ceiling(f.tokens, w),
             distill  |-> DistillFor(f, profile, p)]

-----------------------------------------------------------------------------
(* restoreSessionRuntime *)

\* The model, and the provider it was saved with when it had one, as if typed.
AsSaved(f) == [f EXCEPT !.model = kept.model, !.provider = First(kept.provider, f.provider)]

Declines(f) == f.model # NotSet \/ f.provider # NotSet

AnyRoute(c)  == c.ok                     \* bug: wherever that route leads
SameRoute(c) == c.ok /\ (kept.endpoint # NotSet => c.endpoint = kept.endpoint)

\* Written before the route was, or after a provider with no endpoint was left.
Unrouted == kept.provider = NotSet /\ kept.endpoint = NotSet

Right(fresh) == kept.model = fresh.model /\ kept.endpoint = fresh.endpoint

\* Every launch resolves afresh; only a resumed one restores.
Launch(f, e, again) ==
    LET fresh == Resolve(f, e, file)
        saved == Resolve(AsSaved(f), e, file)
        asks  == again /\ kept # NotSet /\ ~ Declines(f)
        wants == asks /\ ~ Unrouted /\ ~ Right(fresh)
        back  == wants /\ SameRoute(saved)
        other == asks /\ Unrouted /\ kept.model # fresh.model
    IN /\ started = "off"
       /\ fresh.ok
       /\ again => kept # NotSet
       /\ given' = [flags |-> f, env |-> e]
       /\ started' = "resolved" /\ resuming' = again
       /\ restored' = back /\ notice' = ((wants /\ ~ back) \/ other)
       /\ config' = IF back THEN saved ELSE fresh
       /\ UNCHANGED <<file, listed, runtime, kept, switches>>

Routed(c) == [model |-> c.model, provider |-> c.provider, endpoint |-> c.endpoint, window |-> c.window]

\* applyModelInfo: an unknown model may stop the launch, a larger advertised
\* window replaces one that nobody pinned.  The ceiling is not computed again.
SizeWindow ==
    /\ started = "resolved"
    /\ \/ \E w \in Advertised :
            LET c == IF w > config.window /\ ~ config.pinned THEN [config EXCEPT !.window = w] ELSE config
            IN runtime' = Routed(c) /\ started' = "running" /\ given' = given /\ listed' = file
       \/ runtime' = runtime /\ started' = "off" /\ given' = NotSet /\ listed' = listed
    /\ config' = None /\ resuming' = FALSE /\ restored' = FALSE /\ notice' = FALSE
    /\ UNCHANGED <<file, kept, switches>>

-----------------------------------------------------------------------------
(* The session *)

Switch == started = "running" /\ switches < MaxSwitches /\ switches' = switches + 1

\* /model: the raw id, on the endpoint in force and on no provider; the window
\* stays when the catalog reports none.
SwitchModel ==
    /\ Switch
    /\ \E m \in DOMAIN Bundled, w \in Advertised :
         runtime' = [runtime EXCEPT !.model = m, !.provider = NotSet,
                                    !.window = IF w > 0 THEN w ELSE @]
    /\ UNCHANGED <<started, file, listed, given, config, kept, resuming, restored, notice>>

\* /provider: one of the profile loaded last, with its endpoint, which may be none,
\* and the model in force.
SwitchProvider ==
    /\ Switch
    /\ \E p \in DOMAIN listed.routes :
         runtime' = [runtime EXCEPT !.provider = p, !.endpoint = listed.routes[p].endpoint]
    /\ UNCHANGED <<started, file, listed, given, config, kept, resuming, restored, notice>>

\* /profile: another file, under the launch's flags and environment.
LoadProfile ==
    /\ Switch
    /\ \E other \in Profiles :
         LET c == Resolve(given.flags, given.env, other)
         IN c.ok /\ runtime' = Routed(c) /\ listed' = other
    /\ UNCHANGED <<started, file, given, config, kept, resuming, restored, notice>>

\* A task runs on the runtime, which goes into the session (applyRuntime, persist).
RunTask ==
    /\ started = "running"
    /\ kept' = [model |-> runtime.model, provider |-> runtime.provider, endpoint |-> runtime.endpoint]
    /\ UNCHANGED <<started, file, listed, given, config, runtime, resuming, restored, notice, switches>>

Leave ==
    /\ started = "running" /\ started' = "off"
    /\ runtime' = Routed(None) /\ given' = NotSet /\ listed' = NotSet /\ switches' = 0
    /\ UNCHANGED <<file, config, kept, resuming, restored, notice>>

\* The user edits the profile between two launches.
EditProfile ==
    /\ started = "off"
    /\ file' \in Profiles
    /\ UNCHANGED <<started, listed, given, config, runtime, kept, resuming, restored, notice, switches>>

\* A session may be there that an older kloo wrote: a model and no route.
ModelOnly(m) == [model |-> m, provider |-> NotSet, endpoint |-> NotSet]

ConfigInit ==
    /\ started = "off" /\ file = CHOOSE p \in Profiles : p.routes = << >>
    /\ listed = NotSet /\ given = NotSet /\ config = None /\ runtime = Routed(None)
    /\ kept \in {NotSet} \cup {ModelOnly(m) : m \in DOMAIN Bundled} /\ resuming = FALSE /\ restored = FALSE /\ notice = FALSE /\ switches = 0

ConfigNext ==
    \/ \E f \in FlagSets, e \in Environments, again \in BOOLEAN : Launch(f, e, again)
    \/ SizeWindow \/ SwitchModel \/ SwitchProvider \/ LoadProfile \/ RunTask \/ Leave \/ EditProfile

ConfigSpec == ConfigInit /\ [][ConfigNext]_configVars

-----------------------------------------------------------------------------
\* Every part of the state has its type.
ConfigTypeOK ==
    /\ started \in {"off", "resolved", "running"}
    /\ file \in Profiles /\ (started = "running" => listed \in Profiles)
    /\ given # NotSet => given.flags \in FlagSets /\ given.env \in Environments
    /\ switches \in 0 .. MaxSwitches
    /\ restored => resuming /\ ~ notice

\* A resumed session is never sent to another model, provider or endpoint than it
\* recorded in silence: it runs on its model where it was saved, unless the user
\* asked for another route or is told (resume_model.go: every path that declines to
\* restore says so).  A session that recorded no endpoint is held to what it did
\* record, and runs in silence wherever that leads now.  An id that is also an
\* alias of the provider is expanded again.
ResumeIsHonest ==
    started = "resolved" /\ resuming =>
        \/ /\ kept.endpoint # NotSet => config.endpoint = kept.endpoint
           /\ restored /\ kept.provider # NotSet => config.provider = kept.provider
           /\ ~ restored => config.model = kept.model
           /\ config.model \in {kept.model, Expand(Aliases(file, config.provider), kept.model)}
        \/ notice /\ ~ restored
        \/ Declines(given.flags)

\* Whatever rung names the model, an alias is expanded before anything is
\* looked up by it: the model sent is no alias of the provider it is sent to,
\* unless another alias stands for it (one expansion is all there is), and its
\* window is the user's for that very model, or that model's own.
TunedForItsModel ==
    started = "resolved" =>
        LET own == IF config.model \in DOMAIN file.tuned THEN file.tuned[config.model] ELSE Bundled[config.model]
            aliases == Aliases(file, config.provider)
        IN /\ config.model \in DOMAIN aliases => \E a \in DOMAIN aliases : aliases[a] = config.model
           /\ config.distill.endpoint # NotSet => config.distill.model # NotSet
           /\ given.flags.window = NotSet /\ given.env.window = NotSet => config.window = own
=============================================================================
