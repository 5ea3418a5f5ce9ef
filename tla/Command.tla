-------------------------------- MODULE Command --------------------------------
(***************************************************************************)
(* One foreground command: RunCommandTool.Invoke of tools/run_command.go   *)
(* over os/exec.                                                           *)
(*                                                                         *)
(* The shell runs in a process group of its own.  It may leave a           *)
(* descendant that holds its output pipe, in the group or outside it.      *)
(* Wait returns when the shell has exited and its pipe is closed; when the *)
(* context is done the group is killed; WaitDelay after either the pipe is *)
(* closed by force.  Time is left out: a timer may fire at any moment.     *)
(***************************************************************************)
EXTENDS Naturals

VARIABLES
    shell,      \* "ready", "running", "zero", "nonzero", "killed"
    heir,       \* the descendant on the pipe: "none", "group" or "away"
    context,    \* runCtx: "live", "deadline" or "cancelled"
    signalled,  \* cmd.Cancel has run
    delayed,    \* WaitDelay has closed the pipe
    ran,        \* what cmd.Run returned
    told        \* what Invoke returned

commandVars == <<shell, heir, context, signalled, delayed, ran, told>>

Dead == {"zero", "nonzero", "killed"}
NotYet == "not yet"

CommandInit ==
    /\ shell = "ready" /\ heir = "none" /\ context = "live"
    /\ signalled = FALSE /\ delayed = FALSE
    /\ ran = NotYet /\ told = NotYet

\* The command is empty, or its cwd leaves the workspace, or it does not start.
Refused ==
    /\ shell = "ready" /\ told = NotYet
    /\ told' = "refused"
    /\ UNCHANGED <<shell, heir, context, signalled, delayed, ran>>

StartShell ==
    /\ shell = "ready" /\ told = NotYet
    /\ shell' = "running"
    /\ UNCHANGED <<heir, context, signalled, delayed, ran, told>>

\* The shell starts something that stays behind.
LeaveHeir ==
    /\ shell = "running" /\ heir = "none"
    /\ heir' \in {"group", "away"}
    /\ UNCHANGED <<shell, context, signalled, delayed, ran, told>>

HeirEnds ==
    /\ heir # "none"
    /\ heir' = "none"
    /\ UNCHANGED <<shell, context, signalled, delayed, ran, told>>

ShellExits ==
    /\ shell = "running"
    /\ shell' \in {"zero", "nonzero"}
    /\ UNCHANGED <<heir, context, signalled, delayed, ran, told>>

\* The timeout, or the run's own context.
ContextEnds ==
    /\ context = "live" /\ told = NotYet
    /\ context' \in {"deadline", "cancelled"}
    /\ UNCHANGED <<shell, heir, signalled, delayed, ran, told>>

KillShell ==                             \* bug: its children live on
    /\ shell' = IF shell = "running" THEN "killed" ELSE shell
    /\ UNCHANGED heir
\* killProcGroup: the shell and whatever stayed in its group.
KillGroup ==
    /\ shell' = IF shell = "running" THEN "killed" ELSE shell
    /\ heir' = IF heir = "group" THEN "none" ELSE heir

\* exec watches the context until the shell has been waited for.
OnContextDone ==
    /\ context # "live" /\ shell # "ready" /\ ran = NotYet /\ ~signalled
    /\ KillGroup
    /\ signalled' = TRUE
    /\ UNCHANGED <<context, delayed, ran, told>>

\* WaitDelay runs from the context's end or the shell's exit.
DelayExpires ==
    /\ ran = NotYet /\ ~delayed
    /\ signalled \/ shell \in Dead
    /\ delayed' = TRUE
    /\ UNCHANGED <<shell, heir, context, signalled, ran, told>>

NeverForced == heir = "none"             \* bug: no WaitDelay
PipeClosed == heir = "none" \/ delayed

\* cmd.Run returns: an ExitError, the context's error for a shell that ended well
\* after the signal, ErrWaitDelay when the pipe had to be closed, or nothing.
RunReturns ==
    /\ ran = NotYet
    /\ shell \in Dead
    /\ PipeClosed
    /\ ran' = CASE shell \in {"nonzero", "killed"} -> "exit error"
                [] shell = "zero" /\ signalled -> "context error"
                [] shell = "zero" /\ ~signalled /\ heir # "none" -> "delay error"
                [] OTHER -> "nil"
    /\ UNCHANGED <<shell, heir, context, signalled, delayed, told>>

\* The deadline is looked at first, then the error of Run.
Tell ==
    /\ ran # NotYet /\ told = NotYet
    /\ IF context = "deadline"
       THEN told' = "timed out" /\ KillGroup
       ELSE /\ told' = CASE ran = "nil" -> "code 0"
                         [] ran = "exit error" -> "code"
                         [] OTHER -> "failed"
            /\ UNCHANGED <<shell, heir>>
    /\ UNCHANGED <<context, signalled, delayed, ran>>

CommandNext ==
    \/ Refused \/ StartShell \/ LeaveHeir \/ HeirEnds \/ ShellExits \/ ContextEnds
    \/ OnContextDone \/ DelayExpires \/ RunReturns \/ Tell

\* The timers run, the watcher and Invoke go on.  The command need never end.
CommandFairness ==
    /\ WF_commandVars(ContextEnds) /\ WF_commandVars(OnContextDone)
    /\ WF_commandVars(DelayExpires) /\ WF_commandVars(RunReturns)
    /\ WF_commandVars(Tell)

CommandSpec == CommandInit /\ [][CommandNext]_commandVars /\ CommandFairness

-----------------------------------------------------------------------------
(* Properties *)

\* Every part of the state has its type.
CommandTypeOK ==
    /\ shell \in {"ready", "running"} \cup Dead
    /\ heir \in {"none", "group", "away"}
    /\ context \in {"live", "deadline", "cancelled"}
    /\ signalled \in BOOLEAN /\ delayed \in BOOLEAN
    /\ ran \in {NotYet, "nil", "exit error", "context error", "delay error"}
    /\ told \in {NotYet, "refused", "timed out", "code 0", "code", "failed"}

\* A command that ran out of time has left nothing running in its group, and an
\* exit code is the one of a shell that is gone.
TimeoutLeavesNothing ==
    /\ told = "timed out" => shell \in Dead /\ heir # "group"
    /\ told = "code 0" => shell = "zero"
    /\ told = "code" => shell \in {"nonzero", "killed"}

\* A started command comes back even when it never ends and something it started
\* keeps its pipe: the deadline, the kill of the group and WaitDelay see to it.
CommandReturns == shell = "running" ~> told # NotYet
=============================================================================
