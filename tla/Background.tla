------------------------------ MODULE Background ------------------------------
(***************************************************************************)
(* Background commands: tools/background.go and the registry a run shares  *)
(* with its children (registry.go, agent/subagent.go).                     *)
(*                                                                         *)
(* Runs start detached processes through one BackgroundManager, read what  *)
(* they write and stop them; the finish of every run stops all of them.    *)
(* Per process there are two more goroutines: the one that copies its      *)
(* output into a bounded buffer and the reaper.  A parent waits while its  *)
(* child runs.  A process is alive until it exits or is killed; a kill is  *)
(* a signal to its group, on which it dies.                                *)
(*                                                                         *)
(* Output is counted: a process has written `made` pieces, of which the    *)
(* buffer kept the first `kept`.                                           *)
(***************************************************************************)
EXTENDS Naturals, FiniteSets

CONSTANTS
    Procs,      \* the background commands, 1 .. n
    Cap,        \* maxBackgroundOutput, in pieces
    MaxMade     \* bound: pieces a process writes

ASSUME BackgroundAssumption ==
    Procs \subseteq Nat \ {0} /\ Cap \in Nat /\ MaxMade \in Nat

Holders == {"parent", "child"}

VARIABLES
    actor,   \* the run whose turn it is: the child, while there is one
    over,    \* the runs that have finished
    seq,     \* the manager's seq
    procs,   \* the manager's processes
    reading  \* the process whose Output is under way, or 0

backgroundVars == <<actor, over, seq, procs, reading>>

Proc == [owner : Holders, life : {"none", "alive", "exited", "killed"},
         made : Nat, kept : Nat,       \* the buffer; made > kept is truncated
         readN : Nat, done : BOOLEAN,  \* under the process's mutex
         told : {"nothing", "running", "exited"}]  \* ghost: the last status returned

NoProc == [owner |-> "parent", life |-> "none", made |-> 0, kept |-> 0, readN |-> 0,
           done |-> FALSE, told |-> "nothing"]

BackgroundInit ==
    /\ actor = "parent"
    /\ over = {}
    /\ seq = 0
    /\ procs = [p \in Procs |-> NoProc]
    /\ reading = 0

Started(p) == procs[p].life # "none"
Acts == actor \notin over /\ reading = 0

\* BackgroundManager.Start
StartProcess ==
    /\ Acts
    /\ seq + 1 \in Procs
    /\ seq' = seq + 1
    /\ procs' = [procs EXCEPT ![seq + 1] =
                    [NoProc EXCEPT !.owner = actor, !.life = "alive"]]
    /\ UNCHANGED <<actor, over, reading>>

\* The process writes; boundedBuffer keeps what there is room for.
Write(p) ==
    /\ procs[p].life = "alive" /\ procs[p].made < MaxMade
    /\ procs' = [procs EXCEPT ![p].made = @ + 1,
                              ![p].kept = IF @ < Cap THEN @ + 1 ELSE @]
    /\ UNCHANGED <<actor, over, seq, reading>>

Exit(p) ==
    /\ procs[p].life = "alive"
    /\ procs' = [procs EXCEPT ![p].life = "exited"]
    /\ UNCHANGED <<actor, over, seq, reading>>

NeverHeld(p) == FALSE                    \* bug: status and output are not one step
\* The mutex of a process: Output holds it from its first step to its last.
Held(p) == reading = p

\* The reaper: Wait has returned, so the output is complete.
Reap(p) ==
    /\ procs[p].life \in {"exited", "killed"} /\ ~procs[p].done
    /\ ~Held(p)
    /\ procs' = [procs EXCEPT ![p].done = TRUE]
    /\ UNCHANGED <<actor, over, seq, reading>>

\* BackgroundManager.Output: first what is new in the buffer, then the status.
ReadOutput(p) ==
    /\ Acts /\ Started(p)
    /\ procs' = [procs EXCEPT ![p].readN = procs[p].kept]
    /\ reading' = p
    /\ UNCHANGED <<actor, over, seq>>

ReadStatus(p) ==
    /\ reading = p
    /\ procs' = [procs EXCEPT ![p].told = IF procs[p].done THEN "exited" ELSE "running"]
    /\ reading' = 0
    /\ UNCHANGED <<actor, over, seq>>

Killed(P) == [p \in Procs |-> IF p \in P /\ procs[p].life = "alive"
                              THEN [procs[p] EXCEPT !.life = "killed"] ELSE procs[p]]

\* BackgroundManager.Stop
StopProcess(p) ==
    /\ Acts /\ Started(p)
    /\ procs' = Killed({p})
    /\ UNCHANGED <<actor, over, seq, reading>>

\* BackgroundManager.StopAll: whoever started it, through whatever view of the registry.
Tracked == {p \in Procs : Started(p)}

\* runSubagent: the child gets the parent's registry without some tools.
SpawnChild ==
    /\ Acts /\ actor = "parent" /\ "child" \notin over
    /\ actor' = "child"
    /\ UNCHANGED <<over, seq, procs, reading>>

\* finish: Registry.StopBackground.
FinishRun ==
    /\ Acts
    /\ procs' = Killed(Tracked)
    /\ over' = over \cup {actor}
    /\ actor' = "parent"
    /\ UNCHANGED <<seq, reading>>

BackgroundNext ==
    \/ StartProcess \/ SpawnChild \/ FinishRun
    \/ \E p \in Procs : \/ Write(p) \/ Exit(p) \/ Reap(p)
                        \/ ReadOutput(p) \/ ReadStatus(p) \/ StopProcess(p)

BackgroundSpec == BackgroundInit /\ [][BackgroundNext]_backgroundVars

-----------------------------------------------------------------------------
(* Properties *)

\* Every part of the state has its type.
BackgroundTypeOK ==
    /\ actor \in Holders /\ over \in SUBSET Holders
    /\ seq \in Nat /\ reading \in Procs \cup {0}
    /\ procs \in [Procs -> Proc]

\* A status "exited" is the last word: the model has been given everything the
\* buffer kept, so it never stops polling with output still to come.
ExitedMeansAllRead ==
    \A p \in Procs : procs[p].told = "exited" => procs[p].readN = procs[p].kept

\* No process outlives the run that started it.
NothingSurvives ==
    \A p \in Procs : procs[p].life = "alive" => procs[p].owner \notin over

\* Every process is accounted for, by its run and by what the model was told.
ProcessesAccounted == ExitedMeansAllRead /\ NothingSurvives
=============================================================================
