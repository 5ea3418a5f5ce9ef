------------------------------ MODULE Headless ------------------------------
(***************************************************************************)
(* One `kloo "task"` (internal/cli/headless.go): the setup, the run, the   *)
(* one restart of a run that did not converge, the JSON-only check, the    *)
(* summary with its failure code, the memory hook and the exit code        *)
(* (exit.go).                                                              *)
(*                                                                         *)
(* What a run does is AgentLoop's; here it takes some time and ends with   *)
(* a report: its reason, what the final verify said and the evidence the   *)
(* classification reads.  Time passes in ticks.  A run under a deadline    *)
(* ends soon after it, and may just have finished when it passes.          *)
(***************************************************************************)
EXTENDS Naturals

CONSTANTS
    RestartBudget,  \* KLOO_RESTART_BUDGET_S, for both attempts
    FirstAttempt,   \* KLOO_RESTART_FIRST_S; 0 when the first is not capped
    MaxTime         \* bound on the clock

\* Times are numbers; the cap of the first attempt, whose value an attempt without a
\* deadline takes from MaxTime, can pass within the bound.
ASSUME HeadlessAssumption ==
    RestartBudget \in Nat /\ MaxTime \in Nat /\ FirstAttempt \in 0 .. MaxTime

VARIABLES
    stage,      \* where defaultRunHeadless is
    options,    \* --benchmark, --json-only, KLOO_RESTART_ON_STALL, store hook
    clock,      \* ticks since the start
    deadline,   \* of the attempt under way; MaxTime when it has none
    attempts,   \* attempts begun
    report,     \* the report to be told
    expired,    \* the deadline of the attempt had passed when it returned
    validated,  \* ghost: the final answer is JSON
    code,       \* summary.FailureCode
    stored,     \* the memory hook was called
    exit        \* the exit code; Running until then

headlessVars == <<stage, options, clock, deadline, attempts, report, expired,
                  validated, code, stored, exit>>

Running == 99
Reasons == {"success", "answered", "unverified", "budget_exceeded", "churn",
            "explore_stop", "malformed_tool_call", "interrupted", "error", "safety_stop"}
Causes  == {"none", "window", "json", "tool", "edit", "verify", "llm", "other"}
NoReport == [reason |-> "none", verify |-> "none", tolerated |-> FALSE, hook |-> "",
             refused |-> "", cause |-> "none", rail |-> ""]

\* The reports a run can end with: a success was verified, or tolerated by the
\* baseline; an error has a cause; churn and a safety stop name their rail.
Reports ==
    {r \in [reason : Reasons, verify : {"none", "passed", "failed"}, tolerated : BOOLEAN,
            hook : {"", "precheck", "postcheck"}, refused : {"", "scope", "patch"},
            cause : Causes \ {"json"}, rail : {"", "edit_failed", "repeated_verify"}] :
        /\ r.reason = "success" => r.hook = "" /\ (r.verify = "passed") = ~ r.tolerated /\ r.verify # "none"
        /\ r.tolerated => r.reason = "success"
        /\ r.reason = "error" <=> r.cause # "none"
        /\ r.cause = "verify" => r.verify = "failed"
        /\ r.hook # "" => r.verify = "failed" /\ r.reason \in {"answered", "churn", "error"}
        /\ r.rail = "edit_failed" => r.reason = "churn"
        /\ r.rail = "repeated_verify" => r.reason = "safety_stop"
        /\ r.refused # "" => r.reason \in {"success", "answered", "unverified", "safety_stop"}
        /\ r.reason = "unverified" => r.verify = "none"}

-----------------------------------------------------------------------------
(* Classification *)

AfterVerify(r, otherwise) == IF r.verify = "failed" THEN "verify_failed" ELSE otherwise

\* What a calm end says of a refused call.
OfRefusal(r, otherwise) ==
    CASE r.refused = "scope" -> "off_scope_edit"
      [] r.refused = "patch" -> "tool_call_invalid"
      [] OTHER -> otherwise

\* classifyErrorFailure.
OfError(r) ==
    CASE r.cause = "window" -> "context_too_small"
      [] r.cause = "json"   -> "json_invalid"
      [] r.cause = "tool"   -> "tool_call_invalid"
      [] r.cause = "edit"   -> "edit_failed"
      [] r.cause = "verify" -> "verify_failed"
      [] r.cause = "llm"    -> "model_error"
      [] OTHER -> "internal_error"

\* classifyFailure.
ClassifyVerified(r) ==                   \* bug: a green verify is a success
    IF r.verify = "passed" THEN "" ELSE AfterVerify(r, "unverified")
ClassifyFailure(r) ==
    CASE r.reason = "success"             -> ""
      [] r.hook # "" /\ r.reason # "success" -> "gate_failed"
      [] r.hook = "" /\ r.reason = "budget_exceeded" -> "budget_exceeded"
      [] r.hook = "" /\ r.reason = "interrupted"  -> "interrupted"
      [] r.hook = "" /\ r.reason = "churn" ->
            IF r.rail = "edit_failed" THEN "edit_failed" ELSE "repetition_halt"
      [] r.hook = "" /\ r.reason = "safety_stop" ->
            IF r.rail = "repeated_verify" THEN "repetition_halt" ELSE "off_scope_edit"
      [] r.hook = "" /\ r.reason = "unverified" -> AfterVerify(r, OfRefusal(r, "unverified"))
      [] r.hook = "" /\ r.reason = "answered"   -> AfterVerify(r, OfRefusal(r, "answered"))
      [] r.hook = "" /\ r.reason = "error"      -> OfError(r)
      [] r.hook = "" /\ r.reason = "explore_stop" -> AfterVerify(r, "exploration_halt")
      [] r.hook = "" /\ r.reason = "malformed_tool_call" -> AfterVerify(r, "malformed_tool_call")
      [] OTHER -> "internal_error"

\* benchmarkExitCode; a code it does not list is internal.
BenchmarkExit(r, failure) ==
    CASE r.reason = "success" -> 0
      [] r.reason # "success" /\ failure \in {"verify_failed", "unverified", "gate_failed"} -> 10
      [] r.reason # "success" /\ failure = "model_error" -> 11
      [] r.reason # "success" /\ failure = "tool_call_invalid" -> 12
      [] r.reason # "success" /\ failure = "context_too_small" -> 13
      [] r.reason # "success" /\ failure \in {"repetition_halt", "edit_failed"} -> 14
      [] r.reason # "success" /\ failure = "json_invalid" -> 15
      [] r.reason # "success" /\ failure = "budget_exceeded" -> 16
      [] r.reason # "success" /\ failure = "interrupted" -> 18
      [] r.reason # "success" /\ failure = "answered" -> 20
      [] r.reason # "success" /\ failure = "off_scope_edit" -> 21
      [] OTHER -> 19

-----------------------------------------------------------------------------
Options == [benchmark : BOOLEAN, json : BOOLEAN, restart : BOOLEAN, onFailure : BOOLEAN]
NoOptions == [benchmark |-> FALSE, json |-> FALSE, restart |-> FALSE, onFailure |-> FALSE]

\* Workspace, scope, adapter and model are resolved before anything runs; any
\* of them may fail.
SetUp ==
    /\ stage = "setup"
    /\ \E o \in Options :
         /\ options' = o
         /\ \/ /\ stage' = "attempt" /\ attempts' = 1
               /\ deadline' = IF o.restart /\ FirstAttempt > 0 THEN FirstAttempt ELSE MaxTime
               /\ UNCHANGED exit
            \/ /\ stage' = "end" /\ exit' = IF o.benchmark THEN 17 ELSE 1
               /\ UNCHANGED <<attempts, deadline>>
    /\ UNCHANGED <<clock, report, expired, validated, code, stored>>

Tick ==
    /\ stage = "attempt" /\ clock < deadline /\ clock < MaxTime
    /\ clock' = clock + 1
    /\ UNCHANGED <<stage, options, deadline, attempts, report, expired, validated, code, stored, exit>>

\* Run returns: with a report, interrupted by its deadline, or, when it never
\* began, with none.  The second attempt's report replaces the first's.
RunReturns ==
    /\ stage = "attempt"
    /\ expired' = (clock >= deadline /\ deadline < MaxTime)
    /\ \/ /\ report' \in Reports /\ stage' = "returned"
       \/ /\ stage' = IF attempts = 2 THEN "told" ELSE "returned"
          /\ UNCHANGED report
    /\ UNCHANGED <<options, clock, deadline, attempts, validated, code, stored, exit>>

\* A stall: a rail gave up, or the cap of the first attempt passed.
Stalled == report # NoReport /\ (report.reason \in {"churn", "explore_stop"} \/ (FirstAttempt > 0 /\ expired))
TimeLeft == RestartBudget - clock

\* Once, and only with time left.
Restart ==
    /\ stage = "returned" /\ attempts = 1 /\ options.restart /\ Stalled
    /\ clock < RestartBudget
    /\ attempts' = 2 /\ stage' = "attempt"
    /\ deadline' = clock + TimeLeft
    /\ UNCHANGED <<options, clock, report, expired, validated, code, stored, exit>>

\* applyJSONOnlyValidation rewrites the reason of a run whose answer is not JSON.
CheckAnswer ==
    /\ \/ stage = "told"
       \/ stage = "returned"
          /\ ~ (attempts = 1 /\ options.restart /\ Stalled /\ clock < RestartBudget)
    /\ stage' = "summary"
    /\ \E valid \in BOOLEAN :
         /\ validated' = valid
         /\ report' = IF options.json /\ report # NoReport /\ report.cause = "none" /\ ~ valid
                      THEN [report EXCEPT !.reason = "error", !.cause = "json"] ELSE report
    /\ UNCHANGED <<options, clock, deadline, attempts, expired, code, stored, exit>>

\* buildRunSummary, memoryStore and what is returned to main.
Summarise ==
    /\ stage = "summary" /\ stage' = "end"
    /\ LET failure == IF report = NoReport THEN "internal_error" ELSE ClassifyFailure(report)
       IN /\ code' = failure
          /\ stored' = (failure = "" \/ options.onFailure)
          /\ exit' = IF options.benchmark THEN BenchmarkExit(report, failure)
                     ELSE IF report.reason = "success" THEN 0 ELSE 1
    /\ UNCHANGED <<options, clock, deadline, attempts, report, expired, validated>>

HeadlessInit ==
    /\ stage = "setup" /\ options = NoOptions
    /\ clock = 0 /\ deadline = MaxTime /\ attempts = 0
    /\ report = NoReport /\ expired = FALSE /\ validated = TRUE
    /\ code = "" /\ stored = FALSE /\ exit = Running

HeadlessNext == SetUp \/ Tick \/ RunReturns \/ Restart \/ CheckAnswer \/ Summarise

HeadlessSpec == HeadlessInit /\ [][HeadlessNext]_headlessVars

-----------------------------------------------------------------------------
\* Every part of the state has its type.
HeadlessTypeOK ==
    /\ stage \in {"setup", "attempt", "returned", "told", "summary", "end"}
    /\ clock \in 0 .. MaxTime /\ deadline \in 0 .. MaxTime + RestartBudget
    /\ attempts \in 0 .. 2
    /\ exit \in 0 .. Running

\* A caller that branches on the exit code is told the truth whatever the
\* flags, the rails and the restart did: 0 exactly when the last report is a
\* success whose verify passed or was tolerated and, with --json-only, whose
\* answer is JSON; then the failure code is empty and the memory hook sees a
\* success, and otherwise a code is given.
ExitIsTrue ==
    stage = "end" /\ attempts > 0 =>
        /\ exit = 0 <=> /\ report.verify = "passed" \/ report.tolerated
                        /\ report.reason = "success"
                        /\ options.json => validated
        /\ exit = 0 <=> code = ""
        /\ exit = 0 => stored
        /\ ~ options.onFailure /\ stored => exit = 0

\* The two attempts together stay within the time given to both, and a restart
\* happens at most once.
RestartFits == attempts = 2 => clock <= RestartBudget

\* A headless run tells the truth and keeps to its time.
HeadlessIsHonest == ExitIsTrue /\ RestartFits
=============================================================================
