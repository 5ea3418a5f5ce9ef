----------------------------- MODULE LaunchProofs -----------------------------
(***************************************************************************)
(* What a launch decides, for any command line, profile, verdicts and      *)
(* servers. Headless: the exit code, the failure code and the memory hook  *)
(* agree, and two attempts fit in the time given to both. Config: a        *)
(* resumed session runs on its model, as far as it recorded its route,     *)
(* unless the user asked for another or is told, and a model's window is   *)
(* its own. Mcp: every tool a connected server was meant to expose can be  *)
(* called, whatever the cap, unless another came to its name, and no       *)
(* session outlives what it is for.                                        *)
(***************************************************************************)
EXTENDS Headless, Config, Mcp, Induction, FiniteSetTheorems

-----------------------------------------------------------------------------
(* A headless run *)

\* The JSON check has been passed, or has put an error in the place of the reason.
Checked(r) ==
    \/ r = NoReport
    \/ r \in Reports /\ (options.json /\ r.cause = "none" => validated)
    \/ \E q \in Reports : q.cause = "none" /\ r = [q EXCEPT !.reason = "error", !.cause = "json"]

\* Where the time and the report are at each stage.
HeadlessInv ==
    /\ HeadlessTypeOK /\ options \in Options
    /\ stage \in {"attempt", "returned", "told", "summary"} => attempts \in {1, 2}
    /\ stage = "told" => attempts = 2
    /\ stage = "setup" => attempts = 0
    /\ attempts = 2 => clock <= RestartBudget
    /\ attempts = 2 /\ stage = "attempt" => deadline = RestartBudget
    /\ stage \in {"setup", "attempt", "returned", "told"} => report \in Reports \cup {NoReport}
    /\ stage = "summary" => Checked(report)
    /\ ExitIsTrue

LEMMA TimesAreNumbers == RestartBudget \in Nat /\ FirstAttempt \in 0 .. MaxTime /\ MaxTime \in Nat
  BY HeadlessAssumption

\* A failure code is empty for a success and for nothing else.
LEMMA OnlySuccessHasNoCode ==
    ASSUME NEW r, r.reason # "success"
    PROVE  ClassifyFailure(r) # "" /\ \A f : BenchmarkExit(r, f) # 0
  <1>1. \A o : o # "" => AfterVerify(r, o) # "" /\ OfRefusal(r, o) # ""
    BY DEF AfterVerify, OfRefusal
  <1>2. OfError(r) # ""
    BY DEF OfError
  <1>3. \A f : BenchmarkExit(r, f) # 0
    BY DEF BenchmarkExit
  <1>4. ClassifyFailure(r) # ""
    BY <1>1, <1>2 DEF ClassifyFailure
  <1> QED BY <1>3, <1>4

LEMMA SuccessHasNoCode ==
    ASSUME NEW r, r.reason = "success"
    PROVE  ClassifyFailure(r) = "" /\ \A f : BenchmarkExit(r, f) = 0
  BY DEF ClassifyFailure, BenchmarkExit

LEMMA HeadlessStarts == HeadlessInit => HeadlessInv
  <1> SUFFICES ASSUME HeadlessInit PROVE HeadlessInv
    OBVIOUS
  <1>1. /\ stage = "setup" /\ clock = 0 /\ deadline = MaxTime /\ attempts = 0
        /\ exit = 99 /\ options = NoOptions /\ report = NoReport
    BY DEF HeadlessInit, Running
  <1>2. clock \in 0 .. MaxTime /\ deadline \in 0 .. MaxTime + RestartBudget
    BY <1>1, TimesAreNumbers
  <1>3. HeadlessTypeOK
    BY <1>1, <1>2 DEF HeadlessTypeOK, Running
  <1>4. options \in Options /\ report \in Reports \cup {NoReport}
    BY <1>1 DEF NoOptions, Options
  <1> QED BY <1>1, <1>3, <1>4 DEF HeadlessInv, ExitIsTrue

LEMMA SetUpIsHonest == HeadlessInv /\ SetUp => HeadlessInv'
  <1> SUFFICES ASSUME HeadlessInv, SetUp PROVE HeadlessInv'
    OBVIOUS
  <1>1. PICK o \in Options :
          /\ options' = o
          /\ \/ /\ stage' = "attempt" /\ attempts' = 1
                /\ deadline' = IF o.restart /\ FirstAttempt > 0 THEN FirstAttempt ELSE MaxTime
                /\ UNCHANGED exit
             \/ /\ stage' = "end" /\ exit' = IF o.benchmark THEN 17 ELSE 1
                /\ UNCHANGED <<attempts, deadline>>
    BY DEF SetUp
  <1>2. /\ stage = "setup" /\ attempts = 0 /\ report \in Reports \cup {NoReport}
        /\ UNCHANGED <<clock, report, expired, validated, code, stored>>
    BY DEF SetUp, HeadlessInv
  <1>3. HeadlessTypeOK
    BY DEF HeadlessInv
  <1>4. CASE stage' = "end"
    <2>1. attempts' = 0 /\ deadline' = deadline /\ exit' \in {1, 17}
      BY <1>1, <1>2, <1>4
    <2>2. HeadlessTypeOK'
      BY <1>2, <1>3, <1>4, <2>1 DEF HeadlessTypeOK, Running
    <2> QED BY <1>1, <1>2, <1>4, <2>1, <2>2 DEF HeadlessInv, ExitIsTrue
  <1>5. CASE stage' # "end"
    <2>1. stage' = "attempt" /\ attempts' = 1 /\ exit' = exit /\ deadline' \in {FirstAttempt, MaxTime}
      BY <1>1, <1>5
    <2>2. deadline' \in 0 .. MaxTime + RestartBudget
      BY <2>1, TimesAreNumbers
    <2>3. HeadlessTypeOK'
      BY <1>2, <1>3, <2>1, <2>2 DEF HeadlessTypeOK
    <2> QED BY <1>1, <1>2, <2>1, <2>3 DEF HeadlessInv, ExitIsTrue
  <1> QED BY <1>4, <1>5

LEMMA TimePassesInTime == HeadlessInv /\ Tick => HeadlessInv'
  <1> SUFFICES ASSUME HeadlessInv, Tick PROVE HeadlessInv'
    OBVIOUS
  <1>1. /\ stage = "attempt" /\ clock < deadline /\ clock < MaxTime /\ clock' = clock + 1
        /\ UNCHANGED <<stage, options, deadline, attempts, report, expired, validated,
                       code, stored, exit>>
    BY DEF Tick
  <1>2. HeadlessTypeOK'
    BY <1>1, TimesAreNumbers DEF HeadlessInv, HeadlessTypeOK
  <1>3. attempts = 2 => clock' <= RestartBudget
    BY <1>1, TimesAreNumbers DEF HeadlessInv, HeadlessTypeOK
  <1> QED BY <1>1, <1>2, <1>3 DEF HeadlessInv, ExitIsTrue

LEMMA ReturnIsHonest == HeadlessInv /\ RunReturns => HeadlessInv'
  <1> SUFFICES ASSUME HeadlessInv, RunReturns PROVE HeadlessInv'
    OBVIOUS
  <1>1. /\ stage = "attempt" /\ attempts \in {1, 2}
        /\ stage' \in {"returned", "told"} /\ (stage' = "told" => attempts = 2)
        /\ report' \in Reports \cup {NoReport}
        /\ UNCHANGED <<options, clock, deadline, attempts, validated, code, stored, exit>>
    BY DEF RunReturns, HeadlessInv
  <1> QED BY <1>1 DEF HeadlessInv, HeadlessTypeOK, ExitIsTrue

\* The second attempt is given what is left of the time of both.
LEMMA RestartInTime == HeadlessInv /\ Restart => HeadlessInv'
  <1> SUFFICES ASSUME HeadlessInv, Restart PROVE HeadlessInv'
    OBVIOUS
  <1>1. /\ stage' = "attempt" /\ attempts' = 2 /\ clock < RestartBudget
        /\ report \in Reports \cup {NoReport}
        /\ UNCHANGED <<options, clock, report, expired, validated, code, stored, exit>>
    BY DEF Restart, HeadlessInv
  <1>2. deadline' = RestartBudget /\ clock <= RestartBudget
    BY <1>1, TimesAreNumbers DEF Restart, TimeLeft, HeadlessInv, HeadlessTypeOK
  <1>3. HeadlessTypeOK'
    BY <1>1, <1>2, TimesAreNumbers DEF HeadlessInv, HeadlessTypeOK
  <1> QED BY <1>1, <1>2, <1>3 DEF HeadlessInv, ExitIsTrue

LEMMA AnswerIsChecked == HeadlessInv /\ CheckAnswer => HeadlessInv'
  <1> SUFFICES ASSUME HeadlessInv, CheckAnswer PROVE HeadlessInv'
    OBVIOUS
  <1>1. /\ stage' = "summary" /\ attempts \in {1, 2} /\ report \in Reports \cup {NoReport}
        /\ UNCHANGED <<options, clock, deadline, attempts, expired, code, stored, exit>>
    BY DEF CheckAnswer, HeadlessInv
  <1>2. Checked(report)'
    <2>1. PICK valid \in BOOLEAN :
            /\ validated' = valid
            /\ report' = IF options.json /\ report # NoReport /\ report.cause = "none" /\ ~ valid
                         THEN [report EXCEPT !.reason = "error", !.cause = "json"] ELSE report
      BY DEF CheckAnswer
    <2>2. CASE options.json /\ report # NoReport /\ report.cause = "none" /\ ~ valid
      <3>1. report \in Reports /\ report' = [report EXCEPT !.reason = "error", !.cause = "json"]
        BY <1>1, <2>1, <2>2
      <3> QED BY <2>2, <3>1 DEF Checked
    <2>3. CASE ~ (options.json /\ report # NoReport /\ report.cause = "none" /\ ~ valid)
      <3>1. report' = report
        BY <2>1, <2>3
      <3> QED BY <1>1, <2>1, <2>3, <3>1 DEF Checked
    <2> QED BY <2>2, <2>3
  <1> QED BY <1>1, <1>2 DEF HeadlessInv, HeadlessTypeOK, ExitIsTrue

\* What is told follows the report.
LEMMA SummaryIsHonest == HeadlessInv /\ Summarise => HeadlessInv'
  <1> SUFFICES ASSUME HeadlessInv, Summarise PROVE HeadlessInv'
    OBVIOUS
  <1> DEFINE failure == IF report = NoReport THEN "internal_error" ELSE ClassifyFailure(report)
  <1>1. /\ stage' = "end" /\ attempts \in {1, 2} /\ Checked(report) /\ options \in Options
        /\ code' = failure /\ stored' = (failure = "" \/ options.onFailure)
        /\ exit' = IF options.benchmark THEN BenchmarkExit(report, failure)
                   ELSE IF report.reason = "success" THEN 0 ELSE 1
        /\ UNCHANGED <<options, clock, deadline, attempts, report, expired, validated>>
    BY DEF Summarise, HeadlessInv
  <1> HIDE DEF failure
  <1>2. exit' \in 0 .. Running
    <2>1. BenchmarkExit(report, failure) \in {0, 10, 11, 12, 13, 14, 15, 16, 18, 19, 20, 21}
      BY DEF BenchmarkExit
    <2>2. exit' \in {0, 1, 10, 11, 12, 13, 14, 15, 16, 18, 19, 20, 21}
      BY <1>1, <2>1
    <2> QED BY <2>2 DEF Running
  <1>3. NoReport.reason = "none"
    BY DEF NoReport
  <1>4. CASE report.reason = "success"
    <2>1. report # NoReport /\ failure = ""
      BY <1>3, <1>4, SuccessHasNoCode DEF failure
    <2>2. exit' = 0
      BY <1>1, <1>4, SuccessHasNoCode
    <2>3. report \in Reports /\ (options.json /\ report.cause = "none" => validated)
      <3>1. \A q \in Reports : [q EXCEPT !.reason = "error", !.cause = "json"].reason = "error"
        BY DEF Reports
      <3> QED BY <1>1, <1>4, <2>1, <3>1 DEF Checked
    <2>4. (report.verify = "passed" \/ report.tolerated) /\ report.cause = "none"
      BY <1>4, <2>3 DEF Reports, Causes
    <2>5. ExitIsTrue'
      BY <1>1, <1>4, <2>1, <2>2, <2>3, <2>4 DEF ExitIsTrue
    <2> QED BY <1>1, <1>2, <2>5 DEF HeadlessInv, HeadlessTypeOK
  <1>5. CASE report.reason # "success"
    <2>1. failure # "" /\ exit' # 0
      <3>1. ClassifyFailure(report) # "" /\ BenchmarkExit(report, failure) # 0
        BY <1>5, OnlySuccessHasNoCode
      <3>2. failure # ""
        <4>1. CASE report = NoReport
          BY <4>1 DEF failure
        <4>2. CASE report # NoReport
          BY <3>1, <4>2 DEF failure
        <4> QED BY <4>1, <4>2
      <3>3. exit' # 0
        <4>1. CASE options.benchmark
          BY <1>1, <3>1, <4>1
        <4>2. CASE ~ options.benchmark
          <5>1. exit' = IF options.benchmark THEN BenchmarkExit(report, failure)
                        ELSE IF report.reason = "success" THEN 0 ELSE 1
            BY <1>1
          <5>2. exit' = 1
            BY <5>1, <1>5, <4>2
          <5> QED BY <5>2
        <4> QED BY <4>1, <4>2
      <3> QED BY <3>2, <3>3
    <2>2. ExitIsTrue'
      BY <1>1, <1>5, <2>1 DEF ExitIsTrue
    <2> QED BY <1>1, <1>2, <2>2 DEF HeadlessInv, HeadlessTypeOK
  <1> QED BY <1>4, <1>5

\* The exit code, the failure code and the memory hook agree about what the run
\* did whatever its flags and its restart, and both attempts fit in the time that
\* was given to them (headless.go, exit.go).
THEOREM HeadlessRunIsHonest == HeadlessSpec => []HeadlessIsHonest
  <1>1. HeadlessInv /\ [HeadlessNext]_headlessVars => HeadlessInv'
    <2>1. HeadlessInv /\ UNCHANGED headlessVars => HeadlessInv'
      <3> SUFFICES ASSUME HeadlessInv, UNCHANGED headlessVars PROVE HeadlessInv'
        OBVIOUS
      <3>1. /\ stage' = stage /\ options' = options /\ clock' = clock /\ deadline' = deadline
            /\ attempts' = attempts /\ report' = report /\ expired' = expired
            /\ validated' = validated /\ code' = code /\ stored' = stored /\ exit' = exit
        BY DEF headlessVars
      <3>2. Checked(report)' <=> Checked(report)
        BY <3>1 DEF Checked
      <3> QED BY <3>1, <3>2 DEF HeadlessInv, HeadlessTypeOK, ExitIsTrue
    <2> QED BY <2>1, SetUpIsHonest, TimePassesInTime, ReturnIsHonest, RestartInTime,
               AnswerIsChecked, SummaryIsHonest DEF HeadlessNext
  <1>2. HeadlessInv => HeadlessIsHonest
    BY DEF HeadlessInv, HeadlessIsHonest, RestartFits
  <1> QED BY HeadlessStarts, <1>1, <1>2, PTL DEF HeadlessSpec

-----------------------------------------------------------------------------
(* What a launch runs on *)

\* A configuration that was resolved has these parts and a model.
Settled(c) ==
    /\ c = [ok |-> c.ok, provider |-> c.provider, model |-> c.model, window |-> c.window,
            endpoint |-> c.endpoint, pinned |-> c.pinned, ceiling |-> c.ceiling, distill |-> c.distill]
    /\ c.model # NotSet

\* What the run, and the session it is kept in, are asked for is a model.
ConfigInv ==
    /\ ConfigTypeOK
    /\ resuming \in BOOLEAN /\ restored \in BOOLEAN /\ notice \in BOOLEAN
    /\ runtime = [model |-> runtime.model, provider |-> runtime.provider,
                  endpoint |-> runtime.endpoint, window |-> runtime.window]
    /\ started = "resolved" => Settled(config)
    /\ started \in {"resolved", "running"} => given.flags \in FlagSets /\ given.env \in Environments
    /\ started = "running" => runtime.model # NotSet
    /\ kept # NotSet => kept.model # NotSet
    /\ ResumeIsHonest /\ TunedForItsModel

\* An alias is expanded, once, to a model that is asked for.
LEMMA ExpandsToAModel ==
    ASSUME NEW profile \in Profiles, NEW p, NEW m, m # NotSet
    PROVE  LET aliases == Aliases(profile, p)
               sent == Expand(aliases, m)
           IN /\ sent # NotSet
              /\ sent \in DOMAIN aliases => \E a \in DOMAIN aliases : aliases[a] = sent
  <1> DEFINE aliases == Aliases(profile, p)
  <1>1. CASE m \in DOMAIN aliases
    <2>1. Expand(aliases, m) = aliases[m]
      BY <1>1 DEF Expand
    <2>2. p \in DOMAIN profile.routes => aliases = profile.routes[p].aliases
      BY DEF Aliases
    <2>3. p \notin DOMAIN profile.routes => aliases = << >>
      BY DEF Aliases
    <2>4. aliases[m] # NotSet
      BY <1>1, <2>2, <2>3, ConfigAssumption
    <2> QED BY <1>1, <2>1, <2>4
  <1>2. CASE m \notin DOMAIN aliases
    BY <1>2 DEF Expand
  <1> QED BY <1>1, <1>2

LEMMA AModelIsSelected ==
    ASSUME NEW f, NEW e, NEW profile
    PROVE  Selector(f, e, profile) # NotSet
  BY ConfigAssumption DEF Selector, First

\* What Resolve returns, when it returns something.
LEMMA ResolvedIsTuned ==
    ASSUME NEW f, NEW e, NEW profile \in Profiles, Resolve(f, e, profile).ok
    PROVE  LET c == Resolve(f, e, profile)
               aliases == Aliases(profile, c.provider)
               own == IF c.model \in DOMAIN profile.tuned THEN profile.tuned[c.model] ELSE Bundled[c.model]
           IN /\ Settled(c) /\ c.provider = Provider(f, e, profile)
              /\ c.model = Expand(aliases, Selector(f, e, profile))
              /\ c.model \in DOMAIN aliases => \E a \in DOMAIN aliases : aliases[a] = c.model
              /\ c.distill.endpoint # NotSet => c.distill.model # NotSet
              /\ f.window = NotSet /\ e.window = NotSet => c.window = own
  <1> DEFINE c == Resolve(f, e, profile)
             p == Provider(f, e, profile)
             m == Expand(Aliases(profile, p), Selector(f, e, profile))
             w == Window(f, e, profile, m, Selector(f, e, profile))
             d == DistillFor(f, profile, p)
  <1>1. ~ Refusals(f, e, profile)
    BY DEF Resolve, None
  <1>2. PICK endpoint, pinned, ceiling :
          c = [ok |-> TRUE, provider |-> p, model |-> m, window |-> w, endpoint |-> endpoint,
               pinned |-> pinned, ceiling |-> ceiling, distill |-> d]
    BY <1>1 DEF Resolve
  <1>3. c.provider = p /\ c.model = m /\ c.window = w /\ c.distill = d
    BY <1>2
  <1>4. m # NotSet /\ (m \in DOMAIN Aliases(profile, p) =>
                         \E a \in DOMAIN Aliases(profile, p) : Aliases(profile, p)[a] = m)
    BY ExpandsToAModel, AModelIsSelected
  <1>5. d.endpoint # NotSet => d.model # NotSet
    BY <1>1 DEF Refusals
  <1>6. ASSUME f.window = NotSet, e.window = NotSet
        PROVE  w = IF m \in DOMAIN profile.tuned THEN profile.tuned[m] ELSE Bundled[m]
    <2>1. w = Tuned(profile, m)
      BY <1>6 DEF Window, FromFlags, FromEnv, ByModel, First
    <2> QED BY <2>1, ConfigAssumption DEF Tuned, First
  <1>7. Settled(c)
    BY <1>2, <1>3, <1>4 DEF Settled
  <1> QED BY <1>3, <1>4, <1>5, <1>6, <1>7

LEMMA ConfigStarts == ConfigInit => ConfigInv
  <1> SUFFICES ASSUME ConfigInit PROVE ConfigInv
    OBVIOUS
  <1>1. file \in Profiles
    BY ConfigAssumption DEF ConfigInit
  <1>2. switches \in 0 .. MaxSwitches
    BY ConfigAssumption DEF ConfigInit
  <1>a. kept # NotSet => kept.model # NotSet
    BY ConfigAssumption DEF ConfigInit, ModelOnly
  <1>3. runtime = [model |-> runtime.model, provider |-> runtime.provider,
                   endpoint |-> runtime.endpoint, window |-> runtime.window]
    BY DEF ConfigInit, Routed
  <1> QED BY <1>1, <1>2, <1>3, <1>a DEF ConfigInit, ConfigInv, ConfigTypeOK, ResumeIsHonest, TunedForItsModel

\* A launch is sent where it was asked, or where its session was, or it is told.
LEMMA LaunchIsHonest ==
    ASSUME ConfigInv, NEW f \in FlagSets, NEW e \in Environments, NEW again \in BOOLEAN,
           Launch(f, e, again)
    PROVE  ConfigInv'
  <1> DEFINE fresh == Resolve(f, e, file)
             saved == Resolve(AsSaved(f), e, file)
             asks  == again /\ kept # NotSet /\ ~ Declines(f)
             wants == asks /\ ~ Unrouted /\ ~ Right(fresh)
             back  == wants /\ SameRoute(saved)
             other == asks /\ Unrouted /\ kept.model # fresh.model
  <1>1. /\ started = "off" /\ fresh.ok /\ (again => kept # NotSet)
        /\ given' = [flags |-> f, env |-> e] /\ started' = "resolved" /\ resuming' = again
        /\ restored' = back /\ notice' = ((wants /\ ~ back) \/ other)
        /\ config' = IF back THEN saved ELSE fresh
        /\ UNCHANGED <<file, listed, runtime, kept, switches>>
    BY DEF Launch
  <1>2. file \in Profiles /\ (kept # NotSet => kept.model # NotSet)
    BY DEF ConfigInv, ConfigTypeOK
  <1>3. given'.flags = f /\ given'.env = e
    BY <1>1
  <1>4. ConfigTypeOK'
    BY <1>1, <1>3 DEF ConfigInv, ConfigTypeOK
  <1>5. CASE back
    <2>1. /\ config' = saved /\ saved.ok /\ kept # NotSet /\ ~ notice' /\ restored'
          /\ kept.endpoint # NotSet => saved.endpoint = kept.endpoint
      BY <1>1, <1>5 DEF SameRoute, Unrouted
    <2>2. /\ AsSaved(f).model = kept.model /\ AsSaved(f).window = f.window
          /\ kept.provider # NotSet => AsSaved(f).provider = kept.provider
      BY ConfigAssumption DEF AsSaved, First
    <2>3. Selector(AsSaved(f), e, file) = kept.model
      BY <1>2, <2>1, <2>2 DEF Selector, First
    <2>4. /\ Settled(saved)
          /\ saved.model = Expand(Aliases(file, saved.provider), kept.model)
          /\ saved.provider = Provider(AsSaved(f), e, file)
      BY <1>2, <2>1, <2>3, ResolvedIsTuned
    <2>a. kept.provider # NotSet => saved.provider = kept.provider
      BY <2>2, <2>4 DEF Provider, First
    <2>5. TunedForItsModel'
      BY <1>1, <1>2, <1>3, <2>1, <2>2, ResolvedIsTuned DEF TunedForItsModel
    <2>6. ResumeIsHonest'
      BY <1>1, <2>1, <2>4, <2>a DEF ResumeIsHonest
    <2> QED BY <1>1, <1>2, <1>3, <1>4, <2>1, <2>4, <2>5, <2>6 DEF ConfigInv
  <1>6. CASE ~ back
    <2>1. config' = fresh /\ Settled(fresh)
      BY <1>1, <1>2, <1>6, ResolvedIsTuned
    <2>2. TunedForItsModel'
      BY <1>1, <1>2, <1>3, <2>1, ResolvedIsTuned DEF TunedForItsModel
    <2>3. ResumeIsHonest'
      <3>1. again => Declines(f) \/ Right(fresh) \/ wants \/ (Unrouted /\ (other \/ kept.model = fresh.model))
        BY <1>1
      <3>2. ~ restored'
        BY <1>1, <1>6
      <3>3. CASE ~ again
        BY <1>1, <3>3 DEF ResumeIsHonest
      <3>4. CASE Declines(f)
        BY <1>3, <3>4 DEF ResumeIsHonest
      <3>5. CASE wants \/ other
        BY <1>1, <1>6, <3>2, <3>5 DEF ResumeIsHonest
      <3>6. CASE Right(fresh)
        BY <1>1, <2>1, <3>2, <3>6 DEF ResumeIsHonest, Right
      <3>7. CASE Unrouted /\ kept.model = fresh.model
        BY <1>1, <2>1, <3>2, <3>7 DEF ResumeIsHonest, Unrouted
      <3> QED BY <3>1, <3>3, <3>4, <3>5, <3>6, <3>7
    <2> QED BY <1>1, <1>2, <1>3, <1>4, <2>1, <2>2, <2>3 DEF ConfigInv
  <1> QED BY <1>5, <1>6

LEMMA RoutedIsShaped ==
    ASSUME NEW c
    PROVE  LET r == Routed(c)
           IN /\ r = [model |-> r.model, provider |-> r.provider, endpoint |-> r.endpoint, window |-> r.window]
              /\ r.model = c.model
  BY DEF Routed

\* The steps of a session keep a model in force.
LEMMA SizingIsHonest == ConfigInv /\ SizeWindow => ConfigInv'
  <1> SUFFICES ASSUME ConfigInv, SizeWindow PROVE ConfigInv'
    OBVIOUS
  <1>1. /\ started = "resolved" /\ resuming' = FALSE /\ restored' = FALSE /\ notice' = FALSE
        /\ UNCHANGED <<file, kept, switches>>
    BY DEF SizeWindow
  <1>2. CASE started' = "running"
    <2>1. PICK c \in {config} \cup {[config EXCEPT !.window = w] : w \in Advertised} :
            runtime' = Routed(c) /\ given' = given /\ listed' = file
      BY <1>2 DEF SizeWindow
    <2>2. c.model = config.model /\ config.model # NotSet
      BY <1>1, <2>1 DEF ConfigInv, Settled
    <2> QED BY <1>1, <1>2, <2>1, <2>2, RoutedIsShaped
        DEF ConfigInv, ConfigTypeOK, ResumeIsHonest, TunedForItsModel
  <1>3. CASE started' # "running"
    <2>1. started' = "off" /\ runtime' = runtime /\ given' = NotSet
      BY <1>3 DEF SizeWindow
    <2> QED BY <1>1, <2>1 DEF ConfigInv, ConfigTypeOK, ResumeIsHonest, TunedForItsModel
  <1> QED BY <1>2, <1>3

LEMMA SwitchIsHonest == ConfigInv /\ (SwitchModel \/ SwitchProvider \/ LoadProfile) => ConfigInv'
  <1> SUFFICES ASSUME ConfigInv, SwitchModel \/ SwitchProvider \/ LoadProfile PROVE ConfigInv'
    OBVIOUS
  <1>1. /\ started = "running" /\ switches' \in 0 .. MaxSwitches
        /\ listed' \in Profiles
        /\ UNCHANGED <<started, file, given, config, kept, resuming, restored, notice>>
    <2>1. /\ Switch /\ UNCHANGED <<started, file, given, config, kept, resuming, restored, notice>>
      BY DEF SwitchModel, SwitchProvider, LoadProfile
    <2>2. MaxSwitches \in Nat /\ switches \in 0 .. MaxSwitches
      BY ConfigAssumption DEF ConfigInv, ConfigTypeOK
    <2>3. listed' \in Profiles
      BY <2>1 DEF SwitchModel, SwitchProvider, LoadProfile, Switch, ConfigInv, ConfigTypeOK
    <2> QED BY <2>1, <2>2, <2>3 DEF Switch
  <1>2. /\ runtime'.model # NotSet
        /\ runtime' = [model |-> runtime'.model, provider |-> runtime'.provider,
                       endpoint |-> runtime'.endpoint, window |-> runtime'.window]
    <2>1. CASE SwitchModel
      <3>1. PICK m \in DOMAIN Bundled, w \in Advertised :
              runtime' = [runtime EXCEPT !.model = m, !.provider = NotSet,
                                         !.window = IF w > 0 THEN w ELSE @]
        BY <2>1 DEF SwitchModel
      <3> QED BY <3>1, ConfigAssumption DEF ConfigInv
    <2>2. CASE SwitchProvider
      <3>1. PICK p \in DOMAIN listed.routes :
              runtime' = [runtime EXCEPT !.provider = p, !.endpoint = listed.routes[p].endpoint]
        BY <2>2 DEF SwitchProvider
      <3> QED BY <1>1, <3>1 DEF ConfigInv
    <2>3. CASE LoadProfile
      <3>1. PICK other \in Profiles :
              LET c == Resolve(given.flags, given.env, other) IN c.ok /\ runtime' = Routed(c)
        BY <2>3 DEF LoadProfile
      <3>2. Resolve(given.flags, given.env, other).model # NotSet
        BY <3>1, ResolvedIsTuned DEF Settled
      <3> QED BY <3>1, <3>2, RoutedIsShaped
    <2> QED BY <2>1, <2>2, <2>3
  <1> QED BY <1>1, <1>2 DEF ConfigInv, ConfigTypeOK, ResumeIsHonest, TunedForItsModel

LEMMA OthersAreHonest == ConfigInv /\ (RunTask \/ Leave \/ EditProfile \/ UNCHANGED configVars) => ConfigInv'
  <1>1. ConfigInv /\ RunTask => ConfigInv'
    BY DEF RunTask, ConfigInv, ConfigTypeOK, ResumeIsHonest, TunedForItsModel
  <1>2. ConfigInv /\ Leave => ConfigInv'
    BY ConfigAssumption, RoutedIsShaped DEF Leave, ConfigInv, ConfigTypeOK, ResumeIsHonest, TunedForItsModel
  <1>3. ConfigInv /\ EditProfile => ConfigInv'
    BY DEF EditProfile, ConfigInv, ConfigTypeOK, ResumeIsHonest, TunedForItsModel
  <1>4. ConfigInv /\ UNCHANGED configVars => ConfigInv'
    BY DEF configVars, ConfigInv, ConfigTypeOK, ResumeIsHonest, TunedForItsModel, Settled
  <1> QED BY <1>1, <1>2, <1>3, <1>4

LEMMA InvariantOfConfig == ConfigSpec => []ConfigInv
  <1>1. ConfigInv /\ [ConfigNext]_configVars => ConfigInv'
    BY LaunchIsHonest, SizingIsHonest, SwitchIsHonest, OthersAreHonest DEF ConfigNext
  <1> QED BY ConfigStarts, <1>1, PTL DEF ConfigSpec

\* A resumed session runs on its model where it was saved, unless the user asked for
\* another route or is told, as far as it recorded where that was: for any profiles,
\* flags and environments and whatever was switched before (resume_model.go,
\* config.go).
THEOREM ResumedSessionsAreHonest == ConfigSpec => []ResumeIsHonest
  <1>1. ConfigInv => ResumeIsHonest
    BY DEF ConfigInv
  <1> QED BY InvariantOfConfig, <1>1, PTL

\* Whatever names the model, its window is its own (config.go: Resolve).
THEOREM ModelsAreTuned == ConfigSpec => []TunedForItsModel
  <1>1. ConfigInv => TunedForItsModel
    BY DEF ConfigInv
  <1> QED BY InvariantOfConfig, <1>1, PTL

-----------------------------------------------------------------------------
(* The servers of a launch *)

Tools == DOMAIN Width
ServerConfigs == [name : Servers, disabled : BOOLEAN, transports : Nat, mode : STRING, expose : Seq(STRING)]
Connected == [cfg : ServerConfigs, tools : Seq(Tools)]

\* The tools listed by each of a server's pages.
Listed(pages) ==
    LET gathered[i \in 1 .. Len(pages)] == IF i = 1 THEN pages[i] ELSE gathered[i - 1] \o pages[i]
    IN  gathered

\* Each page adds its own to those before it, and the last makes them all.
LEMMA PagesAdd ==
    ASSUME NEW T, NEW pages \in Seq(Seq(T)), pages # <<>>
    PROVE  /\ Len(pages) \in Nat \ {0} /\ Listed(pages) \in [1 .. Len(pages) -> Seq(T)]
           /\ Listed(pages)[1] = pages[1]
           /\ \A i \in 2 .. Len(pages) : Listed(pages)[i] = Listed(pages)[i - 1] \o pages[i]
           /\ FlattenSeq(pages) = Listed(pages)[Len(pages)]
  <1> DEFINE n == Len(pages)
             step == [i \in 1 .. (n - 1) |-> [v \in Seq(T) |-> v \o pages[i + 1]]]
             gathered == CHOOSE f : f = [i \in 1 .. n |-> IF i = 1 THEN pages[i] ELSE f[i - 1] \o pages[i]]
  <1>1. n \in Nat \ {0} /\ \A i \in 1 .. n : pages[i] \in Seq(T)
    OBVIOUS
  <1>2. Listed(pages) = gathered
    BY DEF Listed
  <1>3. FlattenSeq(pages) = gathered[n]
    BY <1>1 DEF FlattenSeq
  <1>4. \A i \in 1 .. (n - 1) : step[i] \in [Seq(T) -> Seq(T)]
    <2> SUFFICES ASSUME NEW i \in 1 .. (n - 1) PROVE step[i] \in [Seq(T) -> Seq(T)]
      OBVIOUS
    <2>1. pages[i + 1] \in Seq(T)
      BY <1>1
    <2>2. \A v \in Seq(T) : v \o pages[i + 1] \in Seq(T)
      BY <2>1
    <2> QED BY <2>2
  <1>5. pages[1] \in Seq(T) /\ n - 1 \in Nat
    BY <1>1
  <1> HIDE DEF step
  <1>6. \E g \in [0 .. (n - 1) -> Seq(T)] : Runs(g, pages[1], step, n - 1)
    BY <1>4, <1>5, RunningValues, Zenon
  <1>7. PICK g \in [0 .. (n - 1) -> Seq(T)] : Runs(g, pages[1], step, n - 1)
    BY <1>6
  <1> DEFINE h == [i \in 1 .. n |-> g[i - 1]]
  <1>8. h \in [1 .. n -> Seq(T)]
    <2>1. \A i \in 1 .. n : i - 1 \in 0 .. (n - 1)
      BY <1>1
    <2> QED BY <2>1
  <1>9. \A i \in 1 .. n : h[i] = IF i = 1 THEN pages[i] ELSE h[i - 1] \o pages[i]
    <2> SUFFICES ASSUME NEW i \in 1 .. n
                 PROVE  h[i] = IF i = 1 THEN pages[i] ELSE h[i - 1] \o pages[i]
      OBVIOUS
    <2>0. g = [j \in 0 .. (n - 1) |-> IF j = 0 THEN pages[1] ELSE step[j][g[j - 1]]]
      BY <1>7 DEF Runs
    <2>1. CASE i = 1
      <3>1. 0 \in 0 .. (n - 1)
        BY <1>1
      <3>2. g[0] = pages[1]
        BY <2>0, <3>1
      <3> QED BY <2>1, <3>2
    <2>2. CASE i # 1
      <3>1. PICK j \in 1 .. (n - 1) : i = j + 1
        BY <2>2
      <3>2. j \in 0 .. (n - 1) /\ j # 0 /\ j - 1 \in 0 .. (n - 1) /\ j \in 1 .. n /\ i - 1 = j
        BY <3>1
      <3>3. g[j] = step[j][g[j - 1]]
        BY <2>0, <3>2
      <3>4. g[j - 1] \in Seq(T)
        BY <1>7, <3>2
      <3>5. step[j][g[j - 1]] = g[j - 1] \o pages[j + 1]
        BY <3>1, <3>4 DEF step
      <3>6. h[i] = g[j] /\ h[i - 1] = g[j - 1]
        BY <3>2
      <3> QED BY <2>2, <3>1, <3>3, <3>5, <3>6
    <2> QED BY <2>1, <2>2
  <1>10. h = [i \in 1 .. n |-> IF i = 1 THEN pages[i] ELSE h[i - 1] \o pages[i]]
    <2>1. h = [i \in 1 .. n |-> h[i]]
      BY <1>8
    <2> HIDE DEF h
    <2> QED BY <1>9, <2>1
  <1> HIDE DEF h
  <1>11. gathered = [i \in 1 .. n |-> IF i = 1 THEN pages[i] ELSE gathered[i - 1] \o pages[i]]
    BY <1>10
  <1> HIDE DEF gathered
  <1>12. \A i \in 1 .. n : gathered[i] = h[i]
    <2> DEFINE S == {i \in 1 .. n : gathered[i] = h[i]}
    <2>1. 1 \in S
      BY <1>1, <1>9, <1>11
    <2>2. ASSUME NEW i \in 1 .. (n - 1), i \in S PROVE i + 1 \in S
      <3>1. i + 1 \in 1 .. n /\ (i + 1) - 1 = i /\ i + 1 # 1
        BY <1>1
      <3>2. gathered[i + 1] = gathered[i] \o pages[i + 1]
        BY <1>11, <3>1
      <3>3. h[i + 1] = h[i] \o pages[i + 1]
        BY <1>10, <3>1
      <3> QED BY <2>2, <3>1, <3>2, <3>3
    <2> HIDE DEF S
    <2>3. 1 \in Int /\ n \in Int
      OBVIOUS
    <2>4. 1 .. n \subseteq S
      BY <2>1, <2>2, <2>3, IntervalInduction
    <2> QED BY <2>4 DEF S
  <1>13. gathered = h
    BY <1>10, <1>11, <1>12
  <1>14. \A i \in 2 .. n : i \in 1 .. n /\ i # 1
    OBVIOUS
  <1>15. 1 \in 1 .. n
    BY <1>1
  <1> QED BY <1>1, <1>2, <1>3, <1>8, <1>9, <1>13, <1>14, <1>15

\* What fits is never more than is left, and is everything if that is enough.
LEMMA FittingFits ==
    ASSUME NEW c \in Connected, NEW left \in Nat
    PROVE  LET names == NamesAt(c, Fitting(c, left))
               n == Cardinality(Candidates(c))
           IN  /\ n \in Nat /\ IsFiniteSet(names) /\ Cardinality(names) <= left /\ Cardinality(names) <= n
               /\ Fitting(c, left) \subseteq Candidates(c)
               /\ Cardinality(names) \in Nat
  <1> DEFINE names == NamesAt(c, Fitting(c, left))
             C == Candidates(c)
             F == Fitting(c, left)
             below(i) == {j \in C : j <= i}
  <1>1. ToExpose(c) \in Seq(Tools) \/ ToExpose(c) \in Seq(STRING)
    <2>1. c.tools \in Seq(Tools) /\ c.cfg.expose \in Seq(STRING) /\ <<>> \in Seq(STRING)
      BY DEF Connected, ServerConfigs
    <2> QED BY <2>1 DEF ToExpose
  <1>2. DOMAIN ToExpose(c) = 1 .. Len(ToExpose(c)) /\ Len(ToExpose(c)) \in Nat
    BY <1>1
  <1>3. IsFiniteSet(C) /\ Cardinality(C) \in Nat /\ C \subseteq Nat
    <2>1. IsFiniteSet(1 .. Len(ToExpose(c)))
      BY <1>2, FS_Interval
    <2>2. C \subseteq 1 .. Len(ToExpose(c))
      BY <1>2 DEF Candidates
    <2>3. IsFiniteSet(C)
      BY <2>1, <2>2, FS_Subset
    <2> QED BY <2>2, <2>3, FS_CardinalityType
  <1>4. F \subseteq C
    BY DEF Fitting
  <1>5. IsFiniteSet(F) /\ Cardinality(F) <= Cardinality(C) /\ Cardinality(F) \in Nat
    BY <1>3, <1>4, FS_Subset, FS_CardinalityType
  <1>6. Cardinality(F) <= left
    <2>1. CASE F = {}
      BY <2>1, FS_EmptySet
    <2>2. CASE F # {}
      <3> DEFINE far == Len(ToExpose(c))
      <3>0. F \subseteq Int /\ far \in Int /\ \A x \in F : x <= far
        BY <1>2, <1>4 DEF Candidates
      <3> HIDE DEF far, F
      <3>1. \E m \in F : \A x \in F : x <= m
        BY <2>2, <3>0, GreatestExists, Zenon
      <3>2. PICK m \in F : \A x \in F : x <= m
        BY <3>1
      <3>3. F \subseteq below(m) /\ below(m) \subseteq C
        BY <1>4, <3>2
      <3>4. IsFiniteSet(below(m)) /\ Cardinality(below(m)) \in Nat
        BY <1>3, <3>3, FS_Subset, FS_CardinalityType
      <3>5. Cardinality(F) <= Cardinality(below(m))
        BY <3>3, <3>4, FS_Subset
      <3>6. Cardinality(below(m)) <= left
        BY <3>2 DEF F, Fitting
      <3> QED BY <1>5, <3>4, <3>5, <3>6
    <2> QED BY <2>1, <2>2
  <1>7. IsFiniteSet(names) /\ Cardinality(names) <= Cardinality(F) /\ Cardinality(names) \in Nat
    <2> DEFINE f == [i \in F |-> ToExpose(c)[i]]
    <2>1. f \in Surjection(F, names)
      BY DEF Surjection, NamesAt
    <2> HIDE DEF f, F, names
    <2>2. IsFiniteSet(names) /\ Cardinality(names) <= Cardinality(F)
      BY <1>5, <2>1, FS_Surjection
    <2> QED BY <2>2, FS_CardinalityType
  <1> HIDE DEF F, C, names
  <1>8. /\ Cardinality(C) \in Nat /\ IsFiniteSet(names) /\ Cardinality(names) <= left
        /\ Cardinality(names) <= Cardinality(C)
        /\ F \subseteq C /\ Cardinality(names) \in Nat
    BY <1>3, <1>4, <1>5, <1>6, <1>7
  <1> QED BY <1>8 DEF F, C, names

\* A tool of a server is in a vocabulary under its name, or another one is.
HasName(v, s, n, does) ==
    v.as = ToolName[s][n] /\ (v = Entry(s, n, does) \/ <<v.server, v.name>> # <<s, n>>)
Held(s, n, does, V) == \E v \in V : HasName(v, s, n, does)

\* What a connected server is served by: call_tool, or each of its tools by name.
ServedBy(c, V) ==
    \/ Held(c.cfg.name, "call_tool", "meta", V)
    \/ /\ ResolveMode(c.cfg) # "lazy"
       /\ \A n \in NamesAt(c, Candidates(c)) : Held(c.cfg.name, n, "tool", V)
Served(c) == ServedBy(c, vocabulary)

NameOf(i) == clients[i].cfg.name

\* The servers still to dial, and those that are connected, are all different.
Apart ==
    /\ \A i, j \in DOMAIN entries : i # j => entries[i].name # entries[j].name
    /\ \A i, j \in DOMAIN clients : i # j => NameOf(i) # NameOf(j)
    /\ \A i \in DOMAIN entries : \A j \in DOMAIN clients : entries[i].name # NameOf(j)

\* What has been listed of the server that is being dialled.
ListedSoFar(d) ==
    /\ mcpStage = "connect" /\ entries # <<>>
    /\ d \in [at : {"listing"}, tools : Seq(Tools), page : Nat]
    /\ d.page \in 0 .. (Len(Remote[Head(entries).name]) - 1)
    /\ d.tools = IF d.page = 0 THEN <<>> ELSE Listed(Remote[Head(entries).name])[d.page]

\* What the model has seen of a listing.
SeenSoFar(l) ==
    /\ \E i \in DOMAIN clients : NameOf(i) = l.server
    /\ l.next \in Nat
    /\ IF l.next = 0 THEN l.seen = RemoteTools(l.server)
       ELSE l.next < Len(RemoteTools(l.server)) /\ l.seen = SubSeq(RemoteTools(l.server), 1, l.next)

ByName == {t \in vocabulary : t.does = "tool"}

Stages ==
    /\ mcpStage \in {"launch", "connect", "run", "closed"}
    /\ mcpStage = "launch" => sessions = [s \in Servers |-> "none"] /\ clients = <<>> /\ exposed = 0
                                /\ dialing = NoDial /\ vocabulary = {} /\ listing = NoListing
    /\ mcpStage \in {"run", "closed"} => entries = <<>> /\ exposed = Len(clients)
    /\ exposed > 0 => entries = <<>>
    /\ exposed \in 0 .. Len(clients) /\ remaining \in 0 .. MaxExposed

McpInv ==
    /\ Stages
    /\ entries \in Seq(ServerConfigs) /\ clients \in Seq(Connected)
    /\ DOMAIN sessions = Servers
    /\ Apart
    /\ \A i \in DOMAIN clients : clients[i].tools = RemoteTools(NameOf(i))
    /\ dialing = NoDial \/ ListedSoFar(dialing)
    /\ SessionsAreOwned
    /\ \A i \in 1 .. exposed : Served(clients[i])
    /\ \A t \in vocabulary : \E i \in 1 .. exposed : t.server = NameOf(i)
    /\ IsFiniteSet(ByName) /\ Cardinality(ByName) <= MaxExposed - remaining
    /\ listing = NoListing \/ SeenSoFar(listing)

LEMMA McpStarts == McpInit => McpInv
  <1> SUFFICES ASSUME McpInit PROVE McpInv
    OBVIOUS
  <1>1. /\ mcpStage = "launch" /\ entries = <<>> /\ clients = <<>> /\ dialing = NoDial
        /\ sessions = [s \in Servers |-> "none"] /\ exposed = 0 /\ remaining = 0
        /\ vocabulary = {} /\ listing = NoListing
    BY DEF McpInit
  <1>2. MaxExposed \in Nat
    BY McpAssumption
  <1>3. Stages
    BY <1>1, <1>2 DEF Stages
  <1>4. Apart /\ SessionsAreOwned
    BY <1>1 DEF Apart, SessionsAreOwned
  <1>5. IsFiniteSet(ByName) /\ Cardinality(ByName) <= MaxExposed - remaining
    <2>1. ByName = {}
      BY <1>1 DEF ByName
    <2> QED BY <1>1, <1>2, <2>1, FS_EmptySet
  <1> QED BY <1>1, <1>3, <1>4, <1>5 DEF McpInv

\* What a server that is next to dial is.
LEMMA NextToDial ==
    ASSUME McpInv, entries # <<>>
    PROVE  /\ Head(entries) \in ServerConfigs /\ Tail(entries) \in Seq(ServerConfigs)
           /\ Head(entries).name \in Servers
           /\ \A i, j \in DOMAIN Tail(entries) : i # j => Tail(entries)[i].name # Tail(entries)[j].name
           /\ \A i \in DOMAIN Tail(entries) : Tail(entries)[i].name # Head(entries).name
           /\ \A i \in DOMAIN Tail(entries) : \A j \in DOMAIN clients : Tail(entries)[i].name # NameOf(j)
           /\ \A j \in DOMAIN clients : Head(entries).name # NameOf(j)
           /\ exposed = 0 /\ vocabulary = {} /\ mcpStage \in {"launch", "connect"}
  <1>1. entries \in Seq(ServerConfigs) /\ Apart /\ Stages
    BY DEF McpInv
  <1>2. /\ Len(entries) \in Nat \ {0} /\ DOMAIN entries = 1 .. Len(entries) /\ Head(entries) = entries[1]
        /\ Tail(entries) \in Seq(ServerConfigs) /\ DOMAIN Tail(entries) = 1 .. (Len(entries) - 1)
        /\ \A i \in 1 .. (Len(entries) - 1) : Tail(entries)[i] = entries[i + 1]
    BY <1>1
  <1>3. 1 \in DOMAIN entries /\ entries[1] \in ServerConfigs
    BY <1>1, <1>2
  <1>4. \A i \in DOMAIN Tail(entries) : i + 1 \in DOMAIN entries /\ i + 1 # 1
    BY <1>2
  <1>5. exposed = 0
    BY <1>1 DEF Stages
  <1>6. vocabulary = {}
    BY <1>5 DEF McpInv
  <1>7. mcpStage \in {"launch", "connect"}
    BY <1>1 DEF Stages
  <1>8. \A i, j \in DOMAIN Tail(entries) : i # j => Tail(entries)[i].name # Tail(entries)[j].name
    <2> SUFFICES ASSUME NEW i \in DOMAIN Tail(entries), NEW j \in DOMAIN Tail(entries), i # j
                 PROVE  Tail(entries)[i].name # Tail(entries)[j].name
      OBVIOUS
    <2>1. i + 1 # j + 1 /\ i + 1 \in DOMAIN entries /\ j + 1 \in DOMAIN entries
      BY <1>2, <1>4
    <2> QED BY <1>1, <1>2, <2>1 DEF Apart
  <1>9. \A i \in DOMAIN Tail(entries) : /\ Tail(entries)[i].name # Head(entries).name
                                        /\ \A j \in DOMAIN clients : Tail(entries)[i].name # NameOf(j)
    BY <1>1, <1>2, <1>3, <1>4 DEF Apart
  <1>10. \A j \in DOMAIN clients : Head(entries).name # NameOf(j)
    BY <1>1, <1>2, <1>3 DEF Apart
  <1> QED BY <1>2, <1>3, <1>5, <1>6, <1>7, <1>8, <1>9, <1>10 DEF ServerConfigs

\* A step of the dialling: nothing is in the registry yet.
LEMMA NothingInTheRegistry ==
    ASSUME McpInv, exposed = 0, vocabulary = {}, UNCHANGED <<exposed, vocabulary, remaining>>
    PROVE  /\ \A i \in 1 .. exposed' : Served(clients[i])'
           /\ \A t \in vocabulary' : \E i \in 1 .. exposed' : t.server = NameOf(i)'
           /\ IsFiniteSet(ByName') /\ Cardinality(ByName') <= MaxExposed - remaining'
  <1>1. 1 .. exposed' = {} /\ vocabulary' = {}
    OBVIOUS
  <1>2. ByName' = ByName
    BY DEF ByName
  <1> QED BY <1>1, <1>2 DEF McpInv

LEMMA WireKeepsMcpInv ==
    ASSUME McpInv, NEW es \in McpEntries, WireMcp(es)
    PROVE  McpInv'
  <1>1. /\ mcpStage = "launch" /\ entries' = es /\ remaining' = MaxExposed
        /\ mcpStage' = IF es = <<>> THEN "run" ELSE "connect"
        /\ UNCHANGED <<dialing, sessions, clients, exposed, vocabulary, listing>>
    BY DEF WireMcp
  <1>2. /\ sessions = [s \in Servers |-> "none"] /\ clients = <<>> /\ exposed = 0
        /\ dialing = NoDial /\ vocabulary = {} /\ listing = NoListing
    BY <1>1 DEF McpInv, Stages
  <1>3. /\ es \in Seq(ServerConfigs) /\ MaxExposed \in Nat
        /\ \A i, j \in DOMAIN es : i # j => es[i].name # es[j].name
    BY McpAssumption DEF ServerConfigs, Servers
  <1>4. Stages'
    BY <1>1, <1>2, <1>3 DEF Stages
  <1>5. Apart' /\ SessionsAreOwned'
    BY <1>1, <1>2, <1>3 DEF Apart, SessionsAreOwned
  <1>6. IsFiniteSet(ByName') /\ Cardinality(ByName') <= MaxExposed - remaining'
    <2>1. ByName' = {}
      BY <1>1, <1>2 DEF ByName
    <2> QED BY <1>1, <1>3, <2>1, FS_EmptySet
  <1>7. 1 .. exposed' = {} /\ vocabulary' = {} /\ clients' = <<>>
    BY <1>1, <1>2
  <1> QED BY <1>1, <1>2, <1>3, <1>4, <1>5, <1>6, <1>7 DEF McpInv

\* A server that is not dialled, or does not connect, leaves the queue.
LEMMA SkipKeepsMcpInv ==
    ASSUME McpInv, SkipServer \/ DialFails
    PROVE  McpInv'
  <1>1. /\ mcpStage = "connect" /\ entries # <<>> /\ dialing = NoDial /\ entries' = Tail(entries)
        /\ UNCHANGED <<mcpStage, dialing, sessions, clients, exposed, remaining, vocabulary, listing>>
    BY DEF SkipServer, DialFails, Dialled
  <1>2. Stages'
    BY <1>1, NextToDial DEF McpInv, Stages
  <1>3. Apart' /\ entries' \in Seq(ServerConfigs)
    BY <1>1, NextToDial DEF McpInv, Apart, NameOf
  <1>4. SessionsAreOwned'
    BY <1>1 DEF McpInv, SessionsAreOwned
  <1>5. /\ \A i \in 1 .. exposed' : Served(clients[i])'
        /\ \A t \in vocabulary' : \E i \in 1 .. exposed' : t.server = NameOf(i)'
        /\ IsFiniteSet(ByName') /\ Cardinality(ByName') <= MaxExposed - remaining'
    BY <1>1, NextToDial, NothingInTheRegistry
  <1>6. listing' = NoListing \/ SeenSoFar(listing)'
    BY <1>1 DEF McpInv, SeenSoFar, NameOf
  <1>7. /\ clients' \in Seq(Connected) /\ DOMAIN sessions' = Servers
        /\ \A i \in DOMAIN clients' : clients'[i].tools = RemoteTools(NameOf(i)')
        /\ dialing' = NoDial
    BY <1>1 DEF McpInv, NameOf
  <1> QED BY <1>2, <1>3, <1>4, <1>5, <1>6, <1>7 DEF McpInv

LEMMA DialKeepsMcpInv ==
    ASSUME McpInv, DialServer
    PROVE  McpInv'
  <1>1. /\ mcpStage = "connect" /\ entries # <<>> /\ dialing = NoDial
        /\ dialing' = [NoDial EXCEPT !.at = "listing"]
        /\ sessions' = [sessions EXCEPT ![Head(entries).name] = "open"]
        /\ UNCHANGED <<mcpStage, entries, clients, exposed, remaining, vocabulary, listing>>
    BY DEF DialServer, Dialled
  <1>2. /\ dialing'.at = "listing" /\ dialing'.page = 0 /\ dialing'.tools = <<>> /\ dialing' # NoDial
        /\ dialing' \in [at : {"listing"}, tools : Seq(Tools), page : Nat]
    <2>1. dialing'.at = "listing" /\ dialing'.page = 0 /\ dialing'.tools = <<>> /\ NoDial.at = "idle"
      BY <1>1 DEF NoDial
    <2>2. dialing' \in [at : {"listing"}, tools : Seq(Tools), page : Nat]
      <3>1. <<>> \in Seq(Tools)
        OBVIOUS
      <3> QED BY <1>1, <3>1 DEF NoDial
    <2> QED BY <2>1, <2>2
  <1>3. Len(Remote[Head(entries).name]) \in Nat \ {0}
    BY <1>1, NextToDial, McpAssumption DEF Servers
  <1>4. ListedSoFar(dialing)'
    BY <1>1, <1>2, <1>3 DEF ListedSoFar
  <1>5. Stages' /\ Apart' /\ DOMAIN sessions' = Servers
    BY <1>1 DEF McpInv, Stages, Apart, NameOf
  <1>6. SessionsAreOwned'
    <2>1. Head(entries).name \in Servers
      BY <1>1, NextToDial
    <2> QED BY <1>1, <1>2, <2>1 DEF McpInv, SessionsAreOwned
  <1>7. /\ \A i \in 1 .. exposed' : Served(clients[i])'
        /\ \A t \in vocabulary' : \E i \in 1 .. exposed' : t.server = NameOf(i)'
        /\ IsFiniteSet(ByName') /\ Cardinality(ByName') <= MaxExposed - remaining'
    BY <1>1, NextToDial, NothingInTheRegistry
  <1>8. listing' = NoListing \/ SeenSoFar(listing)'
    BY <1>1 DEF McpInv, SeenSoFar, NameOf
  <1>9. /\ clients' \in Seq(Connected) /\ entries' \in Seq(ServerConfigs)
        /\ \A i \in DOMAIN clients' : clients'[i].tools = RemoteTools(NameOf(i)')
    BY <1>1 DEF McpInv, NameOf
  <1> QED BY <1>4, <1>5, <1>6, <1>7, <1>8, <1>9 DEF McpInv

LEMMA ListFailsKeepsMcpInv ==
    ASSUME McpInv, ListFails
    PROVE  McpInv'
  <1>1. /\ mcpStage = "connect" /\ entries # <<>> /\ entries' = Tail(entries) /\ dialing' = NoDial
        /\ sessions' = [sessions EXCEPT ![Head(entries).name] = "closed"]
        /\ UNCHANGED <<mcpStage, clients, exposed, remaining, vocabulary, listing>>
    BY DEF ListFails, Dialled
  <1>2. Stages'
    BY <1>1, NextToDial DEF McpInv, Stages
  <1>3. Apart' /\ entries' \in Seq(ServerConfigs) /\ DOMAIN sessions' = Servers
    BY <1>1, NextToDial DEF McpInv, Apart, NameOf
  <1>4. SessionsAreOwned'
    <2>1. Head(entries).name \in Servers /\ \A j \in DOMAIN clients : Head(entries).name # NameOf(j)
      BY <1>1, NextToDial
    <2> QED BY <1>1, <2>1 DEF McpInv, SessionsAreOwned, NameOf
  <1>5. /\ \A i \in 1 .. exposed' : Served(clients[i])'
        /\ \A t \in vocabulary' : \E i \in 1 .. exposed' : t.server = NameOf(i)'
        /\ IsFiniteSet(ByName') /\ Cardinality(ByName') <= MaxExposed - remaining'
    BY <1>1, NextToDial, NothingInTheRegistry
  <1>6. listing' = NoListing \/ SeenSoFar(listing)'
    BY <1>1 DEF McpInv, SeenSoFar, NameOf
  <1>7. /\ clients' \in Seq(Connected) /\ DOMAIN sessions' = Servers
        /\ \A i \in DOMAIN clients' : clients'[i].tools = RemoteTools(NameOf(i)')
        /\ dialing' = NoDial
    BY <1>1 DEF McpInv, NameOf
  <1> QED BY <1>2, <1>3, <1>4, <1>5, <1>6, <1>7 DEF McpInv

\* One page more: the tools listed are those of its pages, and of all of them at the end.
LEMMA PageIsListed ==
    ASSUME McpInv, dialing # NoDial, NEW s, s = Head(entries).name
    PROVE  /\ s \in Servers /\ dialing \in [at : {"listing"}, tools : Seq(Tools), page : Nat]
           /\ dialing.page \in 0 .. (Len(Remote[s]) - 1) /\ Len(Remote[s]) \in Nat
           /\ dialing.tools \o Remote[s][dialing.page + 1] \in Seq(Tools)
           /\ dialing.tools \o Remote[s][dialing.page + 1] = Listed(Remote[s])[dialing.page + 1]
           /\ dialing.page + 1 = Len(Remote[s]) =>
                dialing.tools \o Remote[s][dialing.page + 1] = RemoteTools(s)
  <1> DEFINE p == dialing.page
             pages == Remote[s]
  <1>1. ListedSoFar(dialing)
    BY DEF McpInv
  <1>2. /\ dialing \in [at : {"listing"}, tools : Seq(Tools), page : Nat]
        /\ p \in 0 .. (Len(pages) - 1) /\ s \in Servers
        /\ dialing.tools = IF p = 0 THEN <<>> ELSE Listed(pages)[p]
    BY <1>1, NextToDial DEF ListedSoFar
  <1>3. pages \in Seq(Seq(Tools)) /\ pages # <<>>
    BY <1>2, McpAssumption DEF Servers, Tools
  <1> HIDE DEF p, pages
  <1>4. /\ Len(pages) \in Nat \ {0} /\ Listed(pages) \in [1 .. Len(pages) -> Seq(Tools)]
        /\ Listed(pages)[1] = pages[1]
        /\ \A i \in 2 .. Len(pages) : Listed(pages)[i] = Listed(pages)[i - 1] \o pages[i]
        /\ FlattenSeq(pages) = Listed(pages)[Len(pages)]
    BY <1>3, PagesAdd
  <1>5. dialing.tools \o pages[p + 1] = Listed(pages)[p + 1]
    <2>1. CASE p = 0
      <3>1. pages[1] \in Seq(Tools)
        BY <1>3, <1>4
      <3> QED BY <1>2, <1>4, <2>1, <3>1
    <2>2. CASE p # 0
      <3>1. p + 1 \in 2 .. Len(pages) /\ (p + 1) - 1 = p
        BY <1>2, <1>4, <2>2
      <3> QED BY <1>2, <1>4, <2>2, <3>1
    <2> QED BY <2>1, <2>2
  <1>6. Listed(pages)[p + 1] \in Seq(Tools)
    <2>1. p + 1 \in 1 .. Len(pages)
      BY <1>2, <1>4
    <2> QED BY <1>4, <2>1
  <1>7. p + 1 = Len(pages) => dialing.tools \o pages[p + 1] = FlattenSeq(pages)
    BY <1>4, <1>5
  <1> QED BY <1>2, <1>4, <1>5, <1>6, <1>7 DEF p, pages, RemoteTools

LEMMA ListPageKeepsMcpInv ==
    ASSUME McpInv, ListPage
    PROVE  McpInv'
  <1> DEFINE s == Head(entries).name
             all == dialing.tools \o Remote[s][dialing.page + 1]
  <1>1. /\ mcpStage = "connect" /\ entries # <<>> /\ dialing.at = "listing"
        /\ UNCHANGED <<mcpStage, sessions, exposed, remaining, vocabulary, listing>>
    BY DEF ListPage, Dialled
  <1>2. dialing # NoDial
    BY <1>1 DEF NoDial
  <1>3. /\ s \in Servers /\ dialing \in [at : {"listing"}, tools : Seq(Tools), page : Nat]
        /\ dialing.page \in 0 .. (Len(Remote[s]) - 1) /\ Len(Remote[s]) \in Nat
        /\ all \in Seq(Tools) /\ all = Listed(Remote[s])[dialing.page + 1]
        /\ dialing.page + 1 = Len(Remote[s]) => all = RemoteTools(s)
    BY <1>2, PageIsListed
  <1>4. /\ \A i \in 1 .. exposed' : Served(clients[i])'
        /\ \A t \in vocabulary' : \E i \in 1 .. exposed' : t.server = NameOf(i)'
        /\ IsFiniteSet(ByName') /\ Cardinality(ByName') <= MaxExposed - remaining'
    BY <1>1, NextToDial, NothingInTheRegistry
  <1>5. CASE dialing.page + 1 < Len(Remote[s])
    <2>1. /\ dialing' = [dialing EXCEPT !.tools = all, !.page = @ + 1]
          /\ UNCHANGED <<entries, clients>>
      BY <1>5 DEF ListPage
    <2> HIDE DEF all
    <2>2. /\ dialing' \in [at : {"listing"}, tools : Seq(Tools), page : Nat]
          /\ dialing'.tools = all /\ dialing'.page = dialing.page + 1
      <3>1. dialing \in [at : {"listing"}, tools : Seq(Tools), page : Nat] /\ all \in Seq(Tools)
        BY <1>3
      <3>2. dialing.page + 1 \in Nat
        BY <3>1
      <3> QED BY <2>1, <3>1, <3>2
    <2>3. ListedSoFar(dialing)'
      <3>1. dialing'.page \in 0 .. (Len(Remote[s]) - 1) /\ dialing'.page # 0
        BY <1>3, <1>5, <2>2
      <3> QED BY <1>1, <1>3, <2>1, <2>2, <3>1 DEF ListedSoFar
    <2>4. dialing' # NoDial
      BY <2>2 DEF NoDial
    <2>5. Stages' /\ Apart'
      BY <1>1, <2>1 DEF McpInv, Stages, Apart, NameOf
    <2>6. SessionsAreOwned'
      BY <1>1, <1>2, <2>1, <2>4 DEF McpInv, SessionsAreOwned
    <2>7. listing' = NoListing \/ SeenSoFar(listing)'
      BY <1>1, <2>1 DEF McpInv, SeenSoFar, NameOf
    <2>8. /\ clients' \in Seq(Connected) /\ entries' \in Seq(ServerConfigs) /\ DOMAIN sessions' = Servers
          /\ \A i \in DOMAIN clients' : clients'[i].tools = RemoteTools(NameOf(i)')
      BY <1>1, <2>1 DEF McpInv, NameOf
    <2> QED BY <1>4, <2>3, <2>5, <2>6, <2>7, <2>8 DEF McpInv
  <1>6. CASE ~ (dialing.page + 1 < Len(Remote[s]))
    <2> DEFINE c == [cfg |-> Head(entries), tools |-> all]
               n == Len(clients)
    <2>1. dialing' = NoDial /\ entries' = Tail(entries) /\ clients' = Append(clients, c)
      BY <1>6 DEF ListPage
    <2>2. all = RemoteTools(s) /\ all \in Seq(Tools)
      BY <1>3, <1>6
    <2>3. Head(entries) \in ServerConfigs /\ clients \in Seq(Connected)
      BY <1>1, NextToDial DEF McpInv
    <2> HIDE DEF all
    <2>4. c \in Connected /\ c.cfg.name = s /\ c.tools = all
      BY <2>2, <2>3 DEF Connected
    <2> HIDE DEF c, s
    <2>5. /\ clients' \in Seq(Connected) /\ n \in Nat /\ DOMAIN clients = 1 .. n
          /\ Len(clients') = n + 1 /\ DOMAIN clients' = 1 .. (n + 1)
          /\ clients'[n + 1] = c /\ \A i \in 1 .. n : clients'[i] = clients[i]
      BY <2>1, <2>3, <2>4
    <2> HIDE DEF n
    <2>6. \A i \in DOMAIN clients' :
             \/ i \in DOMAIN clients /\ clients'[i] = clients[i]
             \/ i = n + 1 /\ clients'[i].cfg.name = s /\ clients'[i].tools = all
      BY <2>4, <2>5
    <2>7. \A j \in DOMAIN clients : j \in DOMAIN clients' /\ clients'[j] = clients[j] /\ clients[j].cfg.name # s
      BY <1>1, <2>5, NextToDial DEF s, NameOf
    <2>8. Apart'
      <3>1. \A i, j \in DOMAIN entries' : i # j => entries'[i].name # entries'[j].name
        BY <1>1, <2>1, NextToDial
      <3>2. \A i, j \in DOMAIN clients' : i # j => clients'[i].cfg.name # clients'[j].cfg.name
        <4>1. \A i, j \in DOMAIN clients : i # j => clients[i].cfg.name # clients[j].cfg.name
          BY DEF McpInv, Apart, NameOf
        <4> QED BY <2>6, <2>7, <4>1
      <3>3. \A i \in DOMAIN entries' : \A j \in DOMAIN clients' : entries'[i].name # clients'[j].cfg.name
        <4>1. \A i \in DOMAIN entries' : /\ entries'[i].name # s
                                         /\ \A j \in DOMAIN clients : entries'[i].name # clients[j].cfg.name
          BY <1>1, <2>1, NextToDial DEF s, NameOf
        <4> QED BY <2>6, <4>1
      <3> QED BY <3>1, <3>2, <3>3 DEF Apart, NameOf
    <2>9. Stages'
      <3>1. exposed = 0
        BY <1>1, NextToDial
      <3>2. Stages
        BY DEF McpInv
      <3> QED BY <1>1, <2>1, <2>5, <3>1, <3>2 DEF Stages
    <2>10. SessionsAreOwned'
      <3> SUFFICES ASSUME NEW z \in Servers
                   PROVE  sessions[z] = "open" <=> \E i \in DOMAIN clients' : clients'[i].cfg.name = z
        BY <1>1, <2>1 DEF SessionsAreOwned
      <3>1. sessions[z] = "open" <=> (\E i \in DOMAIN clients : clients[i].cfg.name = z) \/ z = s
        BY <1>1, <1>2 DEF McpInv, SessionsAreOwned, s
      <3>2. n + 1 \in DOMAIN clients' /\ clients'[n + 1].cfg.name = s
        BY <2>4, <2>5
      <3> QED BY <2>6, <2>7, <3>1, <3>2
    <2>11. listing' = NoListing \/ SeenSoFar(listing)'
      <3>1. listing = NoListing \/ SeenSoFar(listing)
        BY DEF McpInv
      <3> QED BY <1>1, <2>7, <3>1 DEF SeenSoFar, NameOf
    <2>12. \A i \in DOMAIN clients' : clients'[i].tools = RemoteTools(clients'[i].cfg.name)
      <3>1. \A i \in DOMAIN clients : clients[i].tools = RemoteTools(clients[i].cfg.name)
        BY DEF McpInv, NameOf
      <3> QED BY <2>2, <2>6, <3>1
    <2>13. entries' \in Seq(ServerConfigs) /\ DOMAIN sessions' = Servers
      BY <1>1, <2>1, NextToDial DEF McpInv
    <2> QED BY <1>4, <2>1, <2>5, <2>8, <2>9, <2>10, <2>11, <2>12, <2>13 DEF McpInv, NameOf
  <1> QED BY <1>5, <1>6

\* Of the tools at some places of a list, each is registered, or a later one of its name.
AllHeld(s, list, places, does, new) ==
    /\ \A p \in places : Held(s, list[p], does, new)
    /\ \A v \in new : v.server = s /\ v.does = does /\ \E p \in places : v = Entry(s, list[p], does)

LEMMA NewestHolds ==
    ASSUME NEW s, NEW list, NEW m \in Nat, NEW places, places \subseteq 1 .. m, NEW does
    PROVE  AllHeld(s, list, places, does, Newest(s, list, places, does))
  <1>1. \A v \in Newest(s, list, places, does) : \E p \in places : v = Entry(s, list[p], does)
    BY DEF Newest
  <1>2. ASSUME NEW p \in places PROVE Held(s, list[p], does, Newest(s, list, places, does))
    <2> DEFINE same == {q \in places : ToolName[s][list[q]] = ToolName[s][list[p]]}
    <2>0. \A x \in places : x \in Int /\ x <= m
      OBVIOUS
    <2>1. p \in same /\ same \subseteq Int /\ \A x \in same : x <= m
      BY <1>2, <2>0
    <2> HIDE DEF same
    <2>2. same # {} /\ m \in Int
      BY <2>1
    <2>3. \E q \in same : \A x \in same : x <= q
      BY <2>1, <2>2, GreatestExists, Zenon
    <2>4. PICK q \in same : \A x \in same : x <= q
      BY <2>3
    <2>5. q \in places /\ q \in Int /\ places \subseteq Int /\ ToolName[s][list[q]] = ToolName[s][list[p]]
      BY <2>1 DEF same
    <2>6. \A j \in places : j > q => ToolName[s][list[j]] # ToolName[s][list[q]]
      <3> SUFFICES ASSUME NEW j \in places, j > q, ToolName[s][list[j]] = ToolName[s][list[q]] PROVE FALSE
        OBVIOUS
      <3>1. j \in same
        BY <2>5 DEF same
      <3>2. j <= q /\ j \in Int
        BY <2>1, <2>4, <3>1
      <3> QED BY <2>5, <3>2
    <2>7. Entry(s, list[q], does) \in Newest(s, list, places, does)
      BY <2>5, <2>6 DEF Newest
    <2>8. /\ Entry(s, list[q], does).as = ToolName[s][list[p]]
          /\ Entry(s, list[q], does).server = s /\ Entry(s, list[q], does).name = list[q]
      BY <2>5 DEF Entry
    <2>9. Entry(s, list[q], does) = Entry(s, list[p], does)
            \/ <<Entry(s, list[q], does).server, Entry(s, list[q], does).name>> # <<s, list[p]>>
      <3>1. CASE list[q] = list[p]
        BY <3>1
      <3>2. CASE list[q] # list[p]
        BY <2>8, <3>2
      <3> QED BY <3>1, <3>2
    <2>10. HasName(Entry(s, list[q], does), s, list[p], does)
      BY <2>8, <2>9 DEF HasName
    <2> QED BY <2>7, <2>10 DEF Held
  <1>3. \A v \in Newest(s, list, places, does) : v.server = s /\ v.does = does
    BY <1>1 DEF Entry
  <1> QED BY <1>1, <1>2, <1>3 DEF AllHeld

\* What is registered is held, and what another server registers takes a name over.
LEMMA RegisteredHolds ==
    ASSUME NEW s, NEW n, NEW does, NEW old, NEW new
    PROVE  /\ Held(s, n, does, new) => Held(s, n, does, Registered(old, new))
           /\ Held(s, n, does, old) /\ (\A v \in new : v.server # s) => Held(s, n, does, Registered(old, new))
  <1>1. Held(s, n, does, new) => Held(s, n, does, Registered(old, new))
    BY DEF Held, Registered
  <1>2. ASSUME Held(s, n, does, old), \A v \in new : v.server # s PROVE Held(s, n, does, Registered(old, new))
    <2>1. PICK v \in old : HasName(v, s, n, does)
      BY <1>2 DEF Held
    <2>2. CASE v \in Registered(old, new)
      BY <2>1, <2>2 DEF Held
    <2>3. CASE v \notin Registered(old, new)
      <3>1. PICK w \in new : w.as = v.as
        BY <2>1, <2>3 DEF Registered
      <3>2. w \in Registered(old, new) /\ w.as = ToolName[s][n]
        BY <2>1, <3>1 DEF Registered, HasName
      <3>3. w.server # s
        BY <1>2, <3>1
      <3>4. <<w.server, w.name>> # <<s, n>>
        BY <3>3
      <3> QED BY <3>2, <3>4 DEF Held, HasName
    <2> QED BY <2>2, <2>3
  <1> QED BY <1>1, <1>2

\* The places a server exposes by name are places of its list, and its trio has three.
LEMMA ExposedPlaces ==
    ASSUME NEW c \in Connected, NEW left \in Nat
    PROVE  /\ \E m \in Nat : Candidates(c) \subseteq 1 .. m /\ Fitting(c, left) \subseteq 1 .. m
           /\ DOMAIN Trio = 1 .. 3 /\ Trio[3] = "call_tool" /\ 3 \in DOMAIN Trio
  <1>1. ToExpose(c) \in Seq(Tools) \/ ToExpose(c) \in Seq(STRING)
    <2>1. c.tools \in Seq(Tools) /\ c.cfg.expose \in Seq(STRING) /\ <<>> \in Seq(STRING)
      BY DEF Connected, ServerConfigs
    <2> QED BY <2>1 DEF ToExpose
  <1>2. DOMAIN ToExpose(c) = 1 .. Len(ToExpose(c)) /\ Len(ToExpose(c)) \in Nat
    BY <1>1
  <1>3. Candidates(c) \subseteq 1 .. Len(ToExpose(c)) /\ Fitting(c, left) \subseteq 1 .. Len(ToExpose(c))
    BY <1>2 DEF Candidates, Fitting
  <1> QED BY <1>2, <1>3 DEF Trio

\* What one server exposes leaves every other one served.
LEMMA OthersKeepTheirNames ==
    ASSUME NEW c \in Connected, NEW old, NEW left \in Nat, NEW s, NEW n, NEW does,
           Held(s, n, does, old), s # c.cfg.name
    PROVE  Held(s, n, does, Exposed(old, c, left))
  <1> DEFINE direct == Direct(c, Fitting(c, left))
             trio == MetaTrio(c)
  <1>1. PICK m \in Nat : Fitting(c, left) \subseteq 1 .. m
    BY ExposedPlaces
  <1>2. \A v \in direct : v.server = c.cfg.name
    <2> DEFINE new == Newest(c.cfg.name, ToExpose(c), Fitting(c, left), "tool")
    <2>1. AllHeld(c.cfg.name, ToExpose(c), Fitting(c, left), "tool", new)
      BY <1>1, NewestHolds
    <2> QED BY <2>1 DEF Direct, AllHeld
  <1>3. \A v \in trio : v.server = c.cfg.name
    <2>1. DOMAIN Trio \subseteq 1 .. 3 /\ 3 \in Nat
      BY ExposedPlaces
    <2>2. AllHeld(c.cfg.name, Trio, DOMAIN Trio, "meta", Newest(c.cfg.name, Trio, DOMAIN Trio, "meta"))
      BY <2>1, NewestHolds
    <2> QED BY <2>2 DEF MetaTrio, AllHeld
  <1>4. \/ Exposed(old, c, left) = Registered(Registered(old, direct), trio)
        \/ Exposed(old, c, left) = Registered(old, direct)
    BY DEF Exposed
  <1> HIDE DEF direct, trio
  <1>5. Held(s, n, does, Registered(old, direct))
    BY <1>2, RegisteredHolds
  <1>6. Held(s, n, does, Registered(Registered(old, direct), trio))
    BY <1>3, <1>5, RegisteredHolds
  <1> QED BY <1>4, <1>5, <1>6

\* What a server that is exposed adds.
LEMMA ExposedAdds ==
    ASSUME NEW c \in Connected, NEW old, NEW left \in Nat
    PROVE  /\ \A t \in Exposed(old, c, left) : t \in old \/ t.server = c.cfg.name
           /\ \A t \in Exposed(old, c, left) :
                t \in old \/ t.does # "tool" \/ t \in Direct(c, Fitting(c, left))
           /\ ServedBy(c, Exposed(old, c, left))
           /\ \A t \in Direct(c, Fitting(c, left)) :
                \E n \in NamesAt(c, Fitting(c, left)) : t = Entry(c.cfg.name, n, "tool")
  <1> DEFINE direct == Direct(c, Fitting(c, left))
             trio == MetaTrio(c)
  <1>0. PICK m \in Nat : Candidates(c) \subseteq 1 .. m /\ Fitting(c, left) \subseteq 1 .. m
    BY ExposedPlaces
  <1>1. /\ \A t \in direct : t.server = c.cfg.name
        /\ \A t \in direct : \E n \in NamesAt(c, Fitting(c, left)) : t = Entry(c.cfg.name, n, "tool")
        /\ \A p \in Fitting(c, left) : Held(c.cfg.name, ToExpose(c)[p], "tool", direct)
    <2> DEFINE new == Newest(c.cfg.name, ToExpose(c), Fitting(c, left), "tool")
    <2>1. AllHeld(c.cfg.name, ToExpose(c), Fitting(c, left), "tool", new)
      BY <1>0, NewestHolds
    <2>2. direct = new
      BY DEF Direct
    <2> HIDE DEF new, direct
    <2> QED BY <2>1, <2>2 DEF NamesAt, AllHeld
  <1>2. /\ \A t \in trio : t.server = c.cfg.name /\ t.does # "tool"
        /\ Held(c.cfg.name, "call_tool", "meta", trio)
    <2>1. DOMAIN Trio \subseteq 1 .. 3 /\ 3 \in Nat /\ Trio[3] = "call_tool" /\ 3 \in DOMAIN Trio
      BY ExposedPlaces
    <2>2. /\ \A p \in DOMAIN Trio : Held(c.cfg.name, Trio[p], "meta", trio)
          /\ \A v \in trio : v.server = c.cfg.name /\ v.does = "meta"
      <3> DEFINE new == Newest(c.cfg.name, Trio, DOMAIN Trio, "meta")
      <3>1. AllHeld(c.cfg.name, Trio, DOMAIN Trio, "meta", new)
        BY <2>1, NewestHolds
      <3> QED BY <3>1 DEF MetaTrio, AllHeld
    <2>3. Held(c.cfg.name, Trio[3], "meta", trio)
      BY <2>1, <2>2
    <2> HIDE DEF trio
    <2> QED BY <2>1, <2>2, <2>3
  <1>3. \/ Exposed(old, c, left) = Registered(Registered(old, direct), trio)
        \/ /\ ResolveMode(c.cfg) # "lazy" /\ Fitting(c, left) = Candidates(c)
           /\ Exposed(old, c, left) = Registered(old, direct)
    BY DEF Exposed
  <1> HIDE DEF direct, trio
  <1>4. \A have, new : \A t \in Registered(have, new) : t \in have \/ t \in new
    BY DEF Registered
  <1>5. CASE Exposed(old, c, left) = Registered(Registered(old, direct), trio)
    <2>1. Held(c.cfg.name, "call_tool", "meta", Exposed(old, c, left))
      BY <1>2, <1>5, RegisteredHolds
    <2>2. \A t \in Exposed(old, c, left) : t \in old \/ t \in direct \/ t \in trio
      BY <1>4, <1>5
    <2>3. ServedBy(c, Exposed(old, c, left))
      BY <2>1 DEF ServedBy
    <2> QED BY <1>1, <1>2, <2>2, <2>3 DEF direct
  <1>6. CASE /\ ResolveMode(c.cfg) # "lazy" /\ Fitting(c, left) = Candidates(c)
             /\ Exposed(old, c, left) = Registered(old, direct)
    <2>1. \A n \in NamesAt(c, Candidates(c)) : Held(c.cfg.name, n, "tool", direct)
      BY <1>1, <1>6 DEF NamesAt
    <2>2. \A n \in NamesAt(c, Candidates(c)) : Held(c.cfg.name, n, "tool", Exposed(old, c, left))
      BY <1>6, <2>1, RegisteredHolds
    <2>3. \A t \in Exposed(old, c, left) : t \in old \/ t \in direct
      BY <1>4, <1>6
    <2>4. ServedBy(c, Exposed(old, c, left))
      BY <1>6, <2>2 DEF ServedBy
    <2> QED BY <1>1, <2>3, <2>4 DEF direct
  <1> QED BY <1>3, <1>5, <1>6

LEMMA ExposeKeepsMcpInv ==
    ASSUME McpInv, ExposeServer
    PROVE  McpInv'
  <1> DEFINE e == exposed + 1
             c == clients[exposed + 1]
             n == Cardinality(Candidates(c))
             names == NamesAt(c, Fitting(c, remaining))
             direct == Direct(c, Fitting(c, remaining))
  <1>1. /\ mcpStage = "connect" /\ entries = <<>> /\ exposed < Len(clients) /\ exposed' = exposed + 1
        /\ vocabulary' = Exposed(vocabulary, c, remaining)
        /\ remaining' = IF n <= remaining THEN remaining - n ELSE 0
        /\ UNCHANGED <<mcpStage, entries, dialing, sessions, clients, listing>>
    BY DEF ExposeServer
  <1>2. /\ clients \in Seq(Connected) /\ exposed \in 0 .. Len(clients) /\ remaining \in 0 .. MaxExposed
        /\ MaxExposed \in Nat
    BY McpAssumption DEF McpInv, Stages
  <1>3. /\ DOMAIN clients = 1 .. Len(clients) /\ Len(clients) \in Nat
        /\ e \in DOMAIN clients /\ exposed \in Nat /\ remaining \in Nat
        /\ \A i \in 1 .. exposed : i \in DOMAIN clients /\ i # e
        /\ \A i \in 1 .. (exposed + 1) : i \in 1 .. exposed \/ i = e
        /\ e \in 1 .. (exposed + 1) /\ \A i \in 1 .. exposed : i \in 1 .. (exposed + 1)
    BY <1>1, <1>2
  <1>4. c \in Connected
    BY <1>2, <1>3
  <1>5. /\ n \in Nat /\ IsFiniteSet(names) /\ Cardinality(names) <= remaining /\ Cardinality(names) <= n
        /\ Cardinality(names) \in Nat
    BY <1>3, <1>4, FittingFits
  <1>6. \A i \in 1 .. exposed : clients[i].cfg.name # c.cfg.name
    BY <1>3 DEF McpInv, Apart, NameOf
  <1> HIDE DEF c
  <1>7. \A i \in 1 .. exposed : ServedBy(clients[i], vocabulary')
    <2> SUFFICES ASSUME NEW i \in 1 .. exposed PROVE ServedBy(clients[i], vocabulary')
      OBVIOUS
    <2>1. ServedBy(clients[i], vocabulary)
      BY DEF McpInv, Served
    <2>2. \A k, does : Held(clients[i].cfg.name, k, does, vocabulary)
                        => Held(clients[i].cfg.name, k, does, vocabulary')
      BY <1>1, <1>3, <1>4, <1>6, OthersKeepTheirNames
    <2> QED BY <2>1, <2>2 DEF ServedBy
  <1>8. ServedBy(clients[e], vocabulary')
    BY <1>1, <1>3, <1>4, ExposedAdds DEF c
  <1>9. \A i \in 1 .. exposed' : Served(clients[i])'
    <2>1. \A i \in 1 .. (exposed + 1) : ServedBy(clients[i], vocabulary')
      BY <1>3, <1>7, <1>8
    <2> QED BY <1>1, <2>1 DEF Served
  <1>10. \A t \in vocabulary' : \E i \in 1 .. exposed' : t.server = NameOf(i)'
    <2> SUFFICES ASSUME NEW t \in vocabulary' PROVE \E i \in 1 .. exposed' : t.server = clients[i].cfg.name
      BY <1>1 DEF NameOf
    <2>1. t \in vocabulary \/ t.server = c.cfg.name
      BY <1>1, <1>3, <1>4, ExposedAdds
    <2>2. t \in vocabulary => \E i \in 1 .. exposed : t.server = clients[i].cfg.name
      BY DEF McpInv, NameOf
    <2> QED BY <1>1, <1>3, <2>1, <2>2 DEF c
  <1>11. IsFiniteSet(direct) /\ Cardinality(direct) <= Cardinality(names) /\ Cardinality(direct) \in Nat
    <2> DEFINE all == {Entry(c.cfg.name, t, "tool") : t \in names}
               f == [t \in names |-> Entry(c.cfg.name, t, "tool")]
    <2>1. f \in Surjection(names, all)
      BY DEF Surjection
    <2>2. direct \subseteq all
      BY <1>3, <1>4, ExposedAdds
    <2> HIDE DEF f, names, direct, all
    <2>3. IsFiniteSet(all) /\ Cardinality(all) <= Cardinality(names) /\ Cardinality(all) \in Nat
      BY <1>5, <2>1, FS_Surjection, FS_CardinalityType
    <2>4. IsFiniteSet(direct) /\ Cardinality(direct) <= Cardinality(all) /\ Cardinality(direct) \in Nat
      BY <2>2, <2>3, FS_Subset, FS_CardinalityType
    <2> QED BY <1>5, <2>3, <2>4
  <1>12. IsFiniteSet(ByName') /\ Cardinality(ByName') <= MaxExposed - remaining'
    <2>1. IsFiniteSet(ByName) /\ Cardinality(ByName) <= MaxExposed - remaining
      BY DEF McpInv
    <2>2. ByName' \subseteq ByName \cup direct
      <3>1. \A t \in vocabulary' : t \in vocabulary \/ t.does # "tool" \/ t \in direct
        BY <1>1, <1>3, <1>4, ExposedAdds
      <3> QED BY <3>1 DEF ByName
    <2> HIDE DEF direct, names, n
    <2>3. Cardinality(ByName) \in Nat /\ IsFiniteSet(ByName \cup direct)
          /\ Cardinality(ByName \cup direct) = Cardinality(ByName) + Cardinality(direct)
                                                - Cardinality(ByName \cap direct)
          /\ Cardinality(ByName \cap direct) \in Nat
      BY <1>11, <2>1, FS_Union, FS_CardinalityType, FS_Intersection
    <2>4. IsFiniteSet(ByName') /\ Cardinality(ByName') <= Cardinality(ByName \cup direct)
          /\ Cardinality(ByName') \in Nat
      BY <2>2, <2>3, FS_Subset, FS_CardinalityType
    <2>5. Cardinality(direct) <= remaining - remaining'
      BY <1>1, <1>3, <1>5, <1>11
    <2>6. remaining' \in Nat
      BY <1>1, <1>3, <1>5
    <2> QED BY <1>2, <1>3, <1>11, <2>1, <2>3, <2>4, <2>5, <2>6
  <1>13. Stages'
    <2>1. remaining' \in 0 .. MaxExposed
      BY <1>1, <1>2, <1>5
    <2> HIDE DEF n
    <2>2. exposed' \in 0 .. Len(clients)
      BY <1>1, <1>2
    <2> QED BY <1>1, <2>1, <2>2 DEF Stages
  <1>14. Apart' /\ SessionsAreOwned'
    BY <1>1 DEF McpInv, Apart, SessionsAreOwned, NameOf
  <1>15. /\ clients' \in Seq(Connected) /\ entries' \in Seq(ServerConfigs) /\ DOMAIN sessions' = Servers
         /\ \A i \in DOMAIN clients' : clients'[i].tools = RemoteTools(NameOf(i)')
    BY <1>1 DEF McpInv, NameOf
  <1>16. listing' = NoListing \/ SeenSoFar(listing)'
    BY <1>1 DEF McpInv, SeenSoFar, NameOf
  <1>17. dialing' = NoDial
    BY <1>1 DEF McpInv, ListedSoFar
  <1> QED BY <1>9, <1>10, <1>12, <1>13, <1>14, <1>15, <1>16, <1>17 DEF McpInv

\* A step that changes neither the servers nor the registry.
LEMMA ServersStay ==
    ASSUME McpInv, UNCHANGED <<entries, clients, exposed, remaining, vocabulary>>
    PROVE  /\ \A i \in 1 .. exposed' : Served(clients[i])'
           /\ \A t \in vocabulary' : \E i \in 1 .. exposed' : t.server = NameOf(i)'
           /\ IsFiniteSet(ByName') /\ Cardinality(ByName') <= MaxExposed - remaining'
           /\ clients' \in Seq(Connected) /\ entries' \in Seq(ServerConfigs)
           /\ \A i \in DOMAIN clients' : clients'[i].tools = RemoteTools(NameOf(i)')
           /\ Apart'
  <1>1. ByName' = ByName
    BY DEF ByName
  <1>2. \A i \in 1 .. exposed : Served(clients[i])' <=> Served(clients[i])
    BY DEF Served, ServedBy
  <1>3. Apart'
    BY DEF McpInv, Apart, NameOf
  <1>4. \A i \in 1 .. exposed' : Served(clients[i])'
    BY <1>2 DEF McpInv
  <1>5. \A t \in vocabulary' : \E i \in 1 .. exposed' : t.server = NameOf(i)'
    BY DEF McpInv, NameOf
  <1>6. /\ clients' \in Seq(Connected) /\ entries' \in Seq(ServerConfigs)
        /\ \A i \in DOMAIN clients' : clients'[i].tools = RemoteTools(NameOf(i)')
    BY DEF McpInv, NameOf
  <1>7. IsFiniteSet(ByName') /\ Cardinality(ByName') <= MaxExposed - remaining'
    BY <1>1 DEF McpInv
  <1> QED BY <1>3, <1>4, <1>5, <1>6, <1>7

LEMMA ReadyKeepsMcpInv ==
    ASSUME McpInv, McpReady
    PROVE  McpInv'
  <1>1. /\ mcpStage = "connect" /\ entries = <<>> /\ exposed = Len(clients) /\ mcpStage' = "run"
        /\ UNCHANGED <<entries, dialing, sessions, clients, exposed, remaining, vocabulary, listing>>
    BY DEF McpReady
  <1>2. dialing = NoDial
    BY <1>1 DEF McpInv, ListedSoFar
  <1>3. Stages' /\ SessionsAreOwned' /\ DOMAIN sessions' = Servers
    BY <1>1, <1>2 DEF McpInv, Stages, SessionsAreOwned
  <1>4. listing' = NoListing \/ SeenSoFar(listing)'
    BY <1>1 DEF McpInv, SeenSoFar, NameOf
  <1> QED BY <1>1, <1>2, <1>3, <1>4, ServersStay DEF McpInv

LEMMA CloseKeepsMcpInv ==
    ASSUME McpInv, CloseAll
    PROVE  McpInv'
  <1>1. /\ mcpStage = "run" /\ mcpStage' = "closed"
        /\ sessions' = [s \in Servers |->
                          IF \E i \in DOMAIN clients : clients[i].cfg.name = s THEN "closed" ELSE sessions[s]]
        /\ UNCHANGED <<entries, dialing, clients, exposed, remaining, vocabulary, listing>>
    BY DEF CloseAll
  <1>2. dialing = NoDial
    BY <1>1 DEF McpInv, ListedSoFar
  <1>3. Stages'
    BY <1>1, <1>2 DEF McpInv, Stages
  <1>4. SessionsAreOwned' /\ DOMAIN sessions' = Servers
    BY <1>1, <1>2 DEF McpInv, SessionsAreOwned
  <1>5. listing' = NoListing \/ SeenSoFar(listing)'
    BY <1>1 DEF McpInv, SeenSoFar, NameOf
  <1> QED BY <1>1, <1>2, <1>3, <1>4, <1>5, ServersStay DEF McpInv

\* A server's snapshot is what it advertised.
LEMMA SnapshotIsWhole ==
    ASSUME McpInv, NEW i \in DOMAIN clients
    PROVE  Snapshot(NameOf(i)) = RemoteTools(NameOf(i)) /\ RemoteTools(NameOf(i)) \in Seq(Tools)
  <1>1. \A j \in DOMAIN clients : clients[j].cfg.name = NameOf(i) => j = i
    BY DEF McpInv, Apart, NameOf
  <1>2. clients[i].cfg.name = NameOf(i)
    BY DEF NameOf
  <1>3. (CHOOSE j \in DOMAIN clients : clients[j].cfg.name = NameOf(i)) = i
    BY <1>1, <1>2
  <1>4. clients[i].tools = RemoteTools(NameOf(i)) /\ clients[i] \in Connected
    <2>1. clients \in Seq(Connected)
      BY DEF McpInv
    <2>2. clients[i] \in Connected
      BY <2>1
    <2> QED BY <2>2 DEF McpInv
  <1> QED BY <1>3, <1>4 DEF Snapshot, Connected

\* A page of list_tools has a line, and ends within the list.
LEMMA PageEnds ==
    ASSUME NEW tools \in Seq(Tools), NEW start \in Nat, start < Len(tools)
    PROVE  PageEnd(tools, start) \in (start + 1) .. Len(tools)
  <1> DEFINE S == {i \in start + 1 .. Len(tools) :
                     \/ i = start + 1
                     \/ i - start <= MaxLines /\ Chars(SubSeq(tools, start + 1, i)) <= MaxChars}
             far == Len(tools)
  <1>1. far \in Nat /\ S \subseteq (start + 1) .. far /\ start + 1 \in S
    OBVIOUS
  <1>2. PageEnd(tools, start) = Max(S)
    BY DEF PageEnd
  <1> HIDE DEF S, far
  <1>3. S \subseteq Int /\ S # {} /\ far \in Int /\ \A x \in S : x <= far
    BY <1>1
  <1>4. \E m \in S : \A x \in S : x <= m
    BY <1>3, GreatestExists, Zenon
  <1>5. PICK m \in S : \A x \in S : x <= m
    BY <1>4
  <1>6. Max(S) = m
    BY <1>3, <1>5, GreatestIs
  <1> QED BY <1>1, <1>2, <1>5, <1>6 DEF far

LEMMA ListToolsKeepsMcpInv ==
    ASSUME McpInv, NEW s \in Servers, NEW cursor \in Nat, ListTools(s, cursor)
    PROVE  McpInv'
  <1> DEFINE tools == Snapshot(s)
             page == IF cursor < Len(tools) THEN PageEnd(tools, cursor) ELSE Len(tools)
             follows == listing.server = s /\ listing.next = cursor /\ cursor > 0
             next == [server |-> s,
                      next   |-> IF page < Len(tools) THEN page ELSE 0,
                      seen   |-> (IF follows THEN listing.seen ELSE <<>>) \o SubSeq(tools, cursor + 1, page)]
  <1>1. /\ mcpStage = "run" /\ Entry(s, "list_tools", "meta") \in vocabulary
        /\ listing' = IF cursor > 0 /\ ~ follows THEN NoListing ELSE next
        /\ UNCHANGED <<mcpStage, entries, dialing, sessions, clients, exposed, remaining, vocabulary>>
    BY DEF ListTools
  <1>2. PICK i \in DOMAIN clients : NameOf(i) = s
    <2>1. \E i \in 1 .. exposed : s = NameOf(i)
      <3>1. Entry(s, "list_tools", "meta").server = s
        BY DEF Entry
      <3> QED BY <1>1, <3>1 DEF McpInv
    <2>2. clients \in Seq(Connected) /\ exposed \in 0 .. Len(clients)
      BY DEF McpInv, Stages
    <2>3. \A i \in 1 .. exposed : i \in DOMAIN clients
      BY <2>2
    <2> QED BY <2>1, <2>3
  <1>3. tools = RemoteTools(s) /\ tools \in Seq(Tools)
    BY <1>2, SnapshotIsWhole
  <1> HIDE DEF tools
  <1>4. Len(tools) \in Nat /\ page \in Nat /\ page <= Len(tools) /\ (cursor < Len(tools) => page > cursor)
    <2>1. Len(tools) \in Nat
      BY <1>3
    <2>2. cursor < Len(tools) => PageEnd(tools, cursor) \in (cursor + 1) .. Len(tools)
      BY <1>3, PageEnds
    <2> QED BY <2>1, <2>2
  <1> HIDE DEF page
  <1>5. CASE cursor > 0 /\ ~ follows
    <2>1. listing' = NoListing
      BY <1>1, <1>5
    <2> HIDE DEF next, follows
    <2>2. Stages' /\ SessionsAreOwned' /\ DOMAIN sessions' = Servers
      BY <1>1 DEF McpInv, Stages, SessionsAreOwned
    <2>3. dialing' = NoDial \/ ListedSoFar(dialing)'
      BY <1>1 DEF McpInv, ListedSoFar
    <2> QED BY <1>1, <2>1, <2>2, <2>3, ServersStay DEF McpInv
  <1>6. CASE cursor = 0 \/ follows
    <2>1. listing' = next
      BY <1>1, <1>6
    <2>2. /\ listing'.server = s /\ listing'.next = IF page < Len(tools) THEN page ELSE 0
          /\ listing'.seen = (IF follows THEN listing.seen ELSE <<>>) \o SubSeq(tools, cursor + 1, page)
      BY <2>1
    <2>3. follows => cursor < Len(tools) /\ listing.seen = SubSeq(tools, 1, cursor)
      <3> SUFFICES ASSUME follows PROVE cursor < Len(tools) /\ listing.seen = SubSeq(tools, 1, cursor)
        OBVIOUS
      <3>1. listing # NoListing
        <4>1. NoListing.next = 0 /\ listing.next > 0
          BY DEF NoListing
        <4> HIDE DEF follows
        <4> QED BY <4>1
      <3>2. SeenSoFar(listing)
        BY <3>1 DEF McpInv
      <3> QED BY <1>3, <3>2 DEF SeenSoFar
    <2>4. listing'.seen = SubSeq(tools, 1, page)
      <3>1. CASE follows
        <4>1. cursor \in 1 .. Len(tools) /\ page \in cursor .. Len(tools)
          BY <1>4, <2>3, <3>1
        <4>2. SubSeq(tools, 1, cursor) \o SubSeq(tools, cursor + 1, page) = SubSeq(tools, 1, page)
          BY <1>3, <1>4, <4>1
        <4> QED BY <2>2, <2>3, <3>1, <4>2
      <3>2. CASE ~ follows
        <4>1. cursor = 0
          BY <1>6, <3>2
        <4>2. <<>> \o SubSeq(tools, 1, page) = SubSeq(tools, 1, page)
          BY <1>3, <1>4
        <4> QED BY <2>2, <3>2, <4>1, <4>2
      <3> QED BY <3>1, <3>2
    <2> HIDE DEF next, follows
    <2>5. page = Len(tools) => SubSeq(tools, 1, page) = tools
      BY <1>3
    <2>6. page # 0 \/ Len(tools) = 0
      BY <1>4, <1>6, <2>3 DEF follows
    <2>7. SeenSoFar(listing)'
      <3>1. listing'.next \in Nat
        BY <1>4, <2>2
      <3>2. \E j \in DOMAIN clients' : NameOf(j)' = listing'.server
        BY <1>1, <1>2, <2>2 DEF NameOf
      <3>3. CASE page < Len(tools)
        <4>1. /\ listing'.next # 0 /\ listing'.next < Len(RemoteTools(listing'.server))
              /\ listing'.seen = SubSeq(RemoteTools(listing'.server), 1, listing'.next)
          <5>1. page # 0
            BY <1>4, <2>6, <3>3
          <5>2. listing'.next = page /\ listing'.server = s
            BY <2>2, <3>3
          <5>3. tools = RemoteTools(s)
            BY <1>3
          <5> QED BY <2>4, <3>3, <5>1, <5>2, <5>3
        <4> QED BY <3>1, <3>2, <4>1 DEF SeenSoFar
      <3>4. CASE page = Len(tools)
        BY <1>3, <1>4, <2>2, <2>4, <2>5, <3>1, <3>2, <3>4 DEF SeenSoFar
      <3> QED BY <1>4, <3>3, <3>4
    <2>8. Stages' /\ SessionsAreOwned' /\ DOMAIN sessions' = Servers
      <3>1. mcpStage' # "launch"
        BY <1>1
      <3> QED BY <1>1, <3>1 DEF McpInv, Stages, SessionsAreOwned
    <2>9. dialing' = NoDial \/ ListedSoFar(dialing)'
      BY <1>1 DEF McpInv, ListedSoFar
    <2> QED BY <1>1, <2>7, <2>8, <2>9, ServersStay DEF McpInv
  <1> QED BY <1>5, <1>6

\* For any configuration, any servers, any cap and whichever names coincide: every
\* tool that a connected server was meant to expose can be called, unless another
\* has come to its name or its call_tool's, no more than the cap are in the prompt, the cursors of list_tools lead through each of a server's tools once,
\* and a session is open exactly while its server is dialled or connected (expose.go
\* exposeServer, meta.go listToolsMeta, manager.go Connect, Close).
THEOREM ServersServe == McpSpec => []ServersAreServed
  <1>1. McpInit => McpInv
    BY McpStarts
  <1>2. McpInv /\ [McpNext]_mcpVars => McpInv'
    <2> SUFFICES ASSUME McpInv, [McpNext]_mcpVars PROVE McpInv'
      OBVIOUS
    <2>1. ASSUME NEW es \in McpEntries, WireMcp(es) PROVE McpInv'
      BY <2>1, WireKeepsMcpInv
    <2>2. CASE SkipServer \/ DialFails
      BY <2>2, SkipKeepsMcpInv
    <2>3. CASE DialServer
      BY <2>3, DialKeepsMcpInv
    <2>4. CASE ListPage
      BY <2>4, ListPageKeepsMcpInv
    <2>5. CASE ListFails
      BY <2>5, ListFailsKeepsMcpInv
    <2>6. CASE ExposeServer
      BY <2>6, ExposeKeepsMcpInv
    <2>7. CASE McpReady
      BY <2>7, ReadyKeepsMcpInv
    <2>8. ASSUME NEW s \in Servers, NEW cursor \in 0 .. Len(RemoteTools(s)) + 1, ListTools(s, cursor)
          PROVE  McpInv'
      <3>1. cursor \in Nat
        OBVIOUS
      <3> QED BY <2>8, <3>1, ListToolsKeepsMcpInv
    <2>9. CASE CloseAll
      BY <2>9, CloseKeepsMcpInv
    <2>10. CASE UNCHANGED mcpVars
      <3>1. UNCHANGED <<mcpStage, entries, dialing, sessions, clients, exposed, remaining, vocabulary, listing>>
        BY <2>10 DEF mcpVars
      <3>2. Stages' /\ SessionsAreOwned' /\ DOMAIN sessions' = Servers
        BY <3>1 DEF McpInv, Stages, SessionsAreOwned
      <3>3. dialing' = NoDial \/ ListedSoFar(dialing)'
        BY <3>1 DEF McpInv, ListedSoFar
      <3>4. listing' = NoListing \/ SeenSoFar(listing)'
        BY <3>1 DEF McpInv, SeenSoFar, NameOf
      <3> QED BY <3>1, <3>2, <3>3, <3>4, ServersStay DEF McpInv
    <2> QED BY <2>1, <2>2, <2>3, <2>4, <2>5, <2>6, <2>7, <2>8, <2>9, <2>10 DEF McpNext
  <1>3. McpInv => ServersAreServed
    <2> SUFFICES ASSUME McpInv PROVE NothingHidden
      BY DEF McpInv, ServersAreServed
    <2>1. ASSUME mcpStage = "run", NEW i \in DOMAIN clients
          PROVE  LET c == clients[i]
                     wanted == IF ResolveMode(c.cfg) = "lazy" THEN ToSet(c.tools)
                               ELSE NamesAt(c, Candidates(c))
                 IN  \A t \in wanted : \/ Callable(c.cfg.name, t)
                                      \/ Taken(c.cfg.name, t) \/ Taken(c.cfg.name, "call_tool")
      <3> DEFINE c == clients[i]
      <3>1. Served(c)
        <4>1. exposed = Len(clients) /\ clients \in Seq(Connected)
          BY <2>1 DEF McpInv, Stages
        <4>2. i \in 1 .. exposed
          BY <4>1
        <4> QED BY <4>2 DEF McpInv
      <3>2. Snapshot(c.cfg.name) = c.tools
        BY SnapshotIsWhole DEF McpInv, NameOf
      <3>3. \A t \in NamesAt(c, Candidates(c)) : t \in ToSet(c.tools)
        BY DEF NamesAt, Candidates
      <3> HIDE DEF c
      <3>4. CASE Held(c.cfg.name, "call_tool", "meta", vocabulary)
        <4>1. Entry(c.cfg.name, "call_tool", "meta") \in vocabulary \/ Taken(c.cfg.name, "call_tool")
          BY <3>4 DEF Held, HasName, Taken
        <4> QED BY <3>2, <3>3, <4>1 DEF Callable, c
      <3>5. CASE /\ ResolveMode(c.cfg) # "lazy"
                 /\ \A n \in NamesAt(c, Candidates(c)) : Held(c.cfg.name, n, "tool", vocabulary)
        <4>1. \A n \in NamesAt(c, Candidates(c)) :
                Entry(c.cfg.name, n, "tool") \in vocabulary \/ Taken(c.cfg.name, n)
          BY <3>5 DEF Held, HasName, Taken
        <4> QED BY <3>5, <4>1 DEF Callable, c
      <3> QED BY <3>1, <3>4, <3>5 DEF Served, ServedBy
    <2>2. Cardinality({t \in vocabulary : t.does = "tool"}) <= MaxExposed
      <3>1. /\ IsFiniteSet(ByName) /\ Cardinality(ByName) <= MaxExposed - remaining
            /\ remaining \in 0 .. MaxExposed /\ MaxExposed \in Nat
        BY McpAssumption DEF McpInv, Stages
      <3>2. Cardinality(ByName) \in Nat
        BY <3>1, FS_CardinalityType
      <3>3. Cardinality(ByName) <= MaxExposed
        BY <3>1, <3>2
      <3> QED BY <3>3 DEF ByName
    <2>3. listing.server # "" /\ listing.next = 0 => listing.seen = RemoteTools(listing.server)
      <3>1. NoListing.server = ""
        BY DEF NoListing
      <3>2. listing = NoListing \/ SeenSoFar(listing)
        BY DEF McpInv
      <3> QED BY <3>1, <3>2 DEF SeenSoFar
    <2> QED BY <2>1, <2>2, <2>3 DEF NothingHidden
  <1> QED BY <1>1, <1>2, <1>3, PTL DEF McpSpec
=============================================================================
