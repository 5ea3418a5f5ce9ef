----------------------------- MODULE Checkpoint -----------------------------
(***************************************************************************)
(* The working-tree checkpoint of a run and its scoped rollback            *)
(* (internal/agent/checkpoint.go), with the parts of the loop that drive   *)
(* it: the lazy checkpoint before the first edit, the record of the paths  *)
(* a run edited and created, and the rollback of a run that stops short.   *)
(*                                                                         *)
(* The disk is shared.  A user, an editor or a concurrent run may write,   *)
(* delete, stage or commit between any two steps, and the run's context    *)
(* may be cancelled at any moment: every git command is started under that *)
(* context.  A Loop is reused for run after run.                           *)
(*                                                                         *)
(* A file is its content, Missing when there is none.  Git is external:    *)
(* its commands are modelled by what they answer for a path.               *)
(***************************************************************************)
EXTENDS Naturals, FiniteSets

CONSTANTS
    Paths,      \* workspace-relative paths
    FileData,   \* what a file may hold
    Empty,      \* the empty content: also the "recorded without content" mark
    Big,        \* contents above untrackedSnapshotCap, or that cannot be read
    Missing,    \* no such file
    NoStash,    \* no stash: the working tree was clean
    Ignored,    \* paths a .gitignore matches
    Quoted,     \* paths `git ls-files` prints escaped, so not by their name
    Rewrites,   \* contents the run's edit tools write
    MaxOthers,  \* bound: paths other writers touch in one run
    MaxCheckpointRuns \* bound: runs of one Loop

ASSUME CheckpointAssumption ==
    /\ Empty \in FileData /\ Big \subseteq FileData \ {Empty}
    /\ Missing \notin FileData
    /\ NoStash \notin [Paths -> FileData \cup {Missing}]
    /\ Ignored \subseteq Paths /\ Quoted \subseteq Paths
    /\ Rewrites \subseteq FileData
    /\ MaxOthers \in Nat /\ MaxCheckpointRuns \in Nat

VARIABLES
    disk,       \* the working tree
    head,       \* the content of each path in the HEAD commit
    index,      \* the paths git tracks
    pc,         \* where the run is
    target,     \* the path whose edit made the run take its checkpoint
    snapHead,   \* Snapshot.Head: the tree of that commit
    snapStash,  \* Snapshot.StashRef: the stashed tree, or NoStash
    snapUntracked, \* Snapshot.Untracked: what was recorded, Missing if not
    taken,      \* Snapshot.Taken
    tried,      \* triedCkpt: the run takes at most one checkpoint
    edited,     \* editedPaths: the paths this run edited
    created,    \* Loop.createdPaths: never cleared
    todo,       \* the named paths Rollback has not reached
    rolledBack, \* Report.RolledBack
    cancelled,  \* ctx.Err() # nil
    run,        \* runs started
    began,      \* ghost: the disk when the checkpoint began
    others      \* ghost: paths another writer touched since then

snapshot == <<snapHead, snapStash, snapUntracked, taken>>
repo     == <<disk, head, index>>
checkpointVars ==
    <<disk, head, index, pc, target, snapHead, snapStash, snapUntracked, taken,
      tried, edited, created, todo, rolledBack, cancelled, run, began, others>>

NoPath  == "no path"
File    == FileData \cup {Missing}
Tree    == [Paths -> File]

Phases == {"idle", "running", "head", "stash", "untracked", "write",
           "rollback", "done"}
Snapping == {"head", "stash", "untracked"}

\* What the code's values can be (checkpoint.go Snapshot, loop.go Run's locals).
CheckpointTypeOK ==
    /\ disk \in Tree /\ head \in Tree /\ began \in Tree
    /\ index \subseteq Paths
    /\ pc \in Phases
    /\ target \in Paths \cup {NoPath}
    /\ pc \in Snapping \cup {"write"} => target \in Paths
    /\ snapHead \in Tree
    /\ snapStash \in Tree \cup {NoStash}
    /\ snapUntracked \in Tree
    /\ taken \in BOOLEAN /\ tried \in BOOLEAN
    /\ edited \subseteq Paths /\ created \subseteq Paths /\ todo \subseteq Paths
    /\ rolledBack \in BOOLEAN /\ cancelled \in BOOLEAN
    /\ run \in Nat
    /\ others \subseteq Paths

Nothing == [p \in Paths |-> Missing]

(* Any repository: files git tracks, changed or not since HEAD, staged      *)
(* additions and removals, files it does not track.                        *)
CheckpointInit ==
    /\ disk \in Tree
    /\ index \in SUBSET Paths
    /\ head \in Tree
    /\ pc = "idle" /\ target = NoPath
    /\ snapHead = Nothing /\ snapStash = NoStash /\ snapUntracked = Nothing
    /\ taken = FALSE /\ tried = FALSE
    /\ edited = {} /\ created = {} /\ todo = {}
    /\ rolledBack = FALSE /\ cancelled = FALSE /\ run = 0
    /\ began = disk /\ others = {}

-----------------------------------------------------------------------------
(* What git answers *)

\* `git stash create`: a commit of the tracked working tree, and no output at
\* all when neither the index nor the tree differs from HEAD.
StashTree == [p \in Paths |-> IF p \in index THEN disk[p] ELSE Missing]
StashCreate == IF StashTree = head THEN NoStash ELSE StashTree

\* captureUntracked: the files git does not track, each with its content, or
\* with the empty mark when that content is too large or cannot be read.
ListedUntracked(p) == disk[p] # Missing /\ p \notin index \cup Ignored \cup Quoted
UntrackedSmall ==                      \* bug: a large file leaves no trace
    [p \in Paths |-> IF ListedUntracked(p) /\ disk[p] \notin Big THEN disk[p] ELSE Missing]
Untracked ==
    [p \in Paths |->
        IF ~ ListedUntracked(p) THEN Missing
        ELSE IF disk[p] \in Big THEN Empty ELSE disk[p]]

\* The tree Rollback restores from: the stash, or HEAD for a clean checkpoint.
Source == IF snapStash = NoStash THEN snapHead ELSE snapStash

-----------------------------------------------------------------------------
(* The run *)

\* A run starts on a Loop that may have run before.  editedPaths, snap and
\* triedCkpt are locals of Run; createdPaths is a field it does not reset.
StartRun ==
    /\ pc \in {"idle", "done"} /\ run < MaxCheckpointRuns
    /\ pc' = "running" /\ run' = run + 1
    /\ taken' = FALSE /\ tried' = FALSE
    /\ snapHead' = Nothing /\ snapStash' = NoStash /\ snapUntracked' = Nothing
    /\ edited' = {} /\ rolledBack' = FALSE /\ cancelled' = FALSE
    /\ began' = disk /\ others' = {}
    /\ UNCHANGED <<repo, target, created, todo>>

BeginEditUnnamed(p) ==                 \* bug: the call's path is not resolved
    /\ pc = "running"
    /\ pc' = "write" /\ tried' = TRUE
    /\ UNCHANGED <<repo, target, snapshot, edited, created, todo, rolledBack,
                   cancelled, run, began, others>>

\* An edit call: the first one of a run takes the checkpoint before it.
BeginEdit(p) ==
    /\ pc = "running"
    /\ target' = p
    /\ tried' = TRUE
    /\ IF tried THEN pc' = "write" /\ UNCHANGED <<began, others>>
                ELSE pc' = "head" /\ began' = disk /\ others' = {}
    /\ UNCHANGED <<repo, snapshot, edited, created, todo, rolledBack,
                   cancelled, run>>

\* Checkpoint, one git command at a time.  A command that fails (the context
\* is cancelled, the workspace is no repository) leaves the run without one.
CheckpointFails ==
    /\ pc \in Snapping
    /\ pc' = "write"
    /\ snapHead' = Nothing /\ snapStash' = NoStash /\ snapUntracked' = Nothing
    /\ UNCHANGED <<repo, target, taken, tried, edited, created, todo,
                   rolledBack, cancelled, run, began, others>>

CheckpointHead ==
    /\ pc = "head" /\ ~ cancelled
    /\ pc' = "stash" /\ snapHead' = head
    /\ UNCHANGED <<repo, target, snapStash, snapUntracked, taken, tried, edited,
                   created, todo, rolledBack, cancelled, run, began, others>>

CheckpointStash ==
    /\ pc = "stash" /\ ~ cancelled
    /\ pc' = "untracked" /\ snapStash' = StashCreate
    /\ UNCHANGED <<repo, target, snapHead, snapUntracked, taken, tried, edited,
                   created, todo, rolledBack, cancelled, run, began, others>>

CheckpointUntracked ==
    /\ pc = "untracked" /\ ~ cancelled
    /\ pc' = "write" /\ snapUntracked' = Untracked /\ taken' = TRUE
    /\ UNCHANGED <<repo, target, snapHead, snapStash, tried, edited, created,
                   todo, rolledBack, cancelled, run, began, others>>

\* noteCreated: an edit of a path that is not there yet is recorded as this
\* run's own before the tool is dispatched, so whether or not it succeeds.
CreatedBy(p) == IF disk[p] = Missing THEN created \cup {p} ELSE created

EditLands(c) ==
    /\ pc = "write"
    /\ pc' = "running"
    /\ disk' = [disk EXCEPT ![target] = c]
    /\ created' = CreatedBy(target)
    /\ edited' = edited \cup {target}
    /\ UNCHANGED <<head, index, target, snapshot, tried, todo, rolledBack,
                   cancelled, run, began, others>>

\* A guard refuses the call, or the user rejects it: nothing is dispatched.
EditRefused ==
    /\ pc = "write"
    /\ pc' = "running"
    /\ UNCHANGED <<repo, target, snapshot, tried, edited, created, todo,
                   rolledBack, cancelled, run, began, others>>

EditFails ==
    /\ pc = "write"
    /\ pc' = "running"
    /\ created' = CreatedBy(target)
    /\ UNCHANGED <<repo, target, snapshot, tried, edited, todo, rolledBack,
                   cancelled, run, began, others>>

\* runPaths: what a rollback of this run is scoped to.
RunPaths == edited \cup created

\* finish on an outcome that keeps the tree: success, or a run that did not
\* finish over a tree that still builds.
KeepWork ==
    /\ pc = "running"
    /\ pc' = "done"
    /\ UNCHANGED <<repo, target, snapshot, tried, edited, created, todo,
                   rolledBack, cancelled, run, began, others>>

AbandonTree ==                         \* bug: the whole tree goes back
    /\ pc \in {"running", "write"}
    /\ IF taken THEN pc' = "rollback" /\ todo' = Paths
                ELSE pc' = "done" /\ UNCHANGED todo
    /\ UNCHANGED <<repo, target, snapshot, tried, edited, created, rolledBack,
                   cancelled, run, began, others>>

\* finish on an error, an interrupt, a safety stop or a broken build.
AbandonWork ==
    /\ pc \in {"running", "write"}
    /\ IF taken THEN pc' = "rollback" /\ todo' = RunPaths
                ELSE pc' = "done" /\ UNCHANGED todo
    /\ UNCHANGED <<repo, target, snapshot, tried, edited, created, rolledBack,
                   cancelled, run, began, others>>

-----------------------------------------------------------------------------
(* Rollback, one named path at a time *)

\* `git cat-file -e src:p`: a command that cannot run at all answers as a path
\* that is not in the tree does.
InSource(p) == ~ cancelled /\ Source[p] # Missing

RestoreHead(p) ==                      \* bug: the user's uncommitted work is lost
    /\ InSource(p)
    /\ disk' = [disk EXCEPT ![p] = snapHead[p]]
    /\ index' = index \cup {p}

RestoreTracked(p) ==
    /\ InSource(p)
    /\ disk' = [disk EXCEPT ![p] = Source[p]]
    /\ index' = index \cup {p}

RestoreUntracked(p) ==
    /\ ~ InSource(p) /\ snapUntracked[p] \notin {Missing, Empty}
    /\ disk' = [disk EXCEPT ![p] = snapUntracked[p]]
    /\ UNCHANGED index

LeaveUntracked(p) ==
    /\ ~ InSource(p) /\ snapUntracked[p] = Empty
    /\ UNCHANGED <<disk, index>>

RemoveCreated(p) ==
    /\ ~ InSource(p) /\ snapUntracked[p] = Missing
    /\ disk' = [disk EXCEPT ![p] = Missing]
    /\ UNCHANGED index

RestorePath(p) ==
    /\ pc = "rollback" /\ p \in todo
    /\ \/ RestoreTracked(p)
       \/ RestoreUntracked(p)
       \/ LeaveUntracked(p)
       \/ RemoveCreated(p)
    /\ todo' = todo \ {p}
    /\ UNCHANGED <<head, pc, target, snapshot, tried, edited, created,
                   rolledBack, cancelled, run, began, others>>

\* A checkout, a write or a removal that fails ends the rollback there.
RollbackFails ==
    /\ pc = "rollback" /\ todo # {}
    /\ pc' = "done" /\ todo' = {}
    /\ UNCHANGED <<repo, target, snapshot, tried, edited, created, rolledBack,
                   cancelled, run, began, others>>

RollbackEnds ==
    /\ pc = "rollback" /\ todo = {}
    /\ pc' = "done" /\ rolledBack' = TRUE
    /\ UNCHANGED <<repo, target, snapshot, tried, edited, created, todo,
                   cancelled, run, began, others>>

-----------------------------------------------------------------------------
(* Everybody else; what they do between two runs they may as well do at the *)
(* start of the next one, before its checkpoint.                            *)

OtherStep(p) ==
    /\ pc \notin {"idle", "done"}
    /\ Cardinality(others \cup {p}) <= MaxOthers
    /\ others' = others \cup {p}
    /\ UNCHANGED <<pc, target, snapshot, tried, edited, created, todo,
                   rolledBack, cancelled, run, began>>

OtherWrites(p) ==
    /\ OtherStep(p)
    /\ \E c \in File : c # disk[p] /\ disk' = [disk EXCEPT ![p] = c]
    /\ UNCHANGED <<head, index>>

OtherStages(p) ==
    /\ OtherStep(p)
    /\ disk[p] # Missing /\ p \notin index
    /\ index' = index \cup {p}
    /\ UNCHANGED <<disk, head>>

OtherCommits(p) ==
    /\ OtherStep(p)
    /\ p \in index /\ head[p] # disk[p]
    /\ head' = [head EXCEPT ![p] = disk[p]]
    /\ index' = IF disk[p] = Missing THEN index \ {p} ELSE index
    /\ UNCHANGED disk

\* Esc, a signal or a deadline.
Cancel ==
    /\ pc \notin {"idle", "done"} /\ ~ cancelled
    /\ cancelled' = TRUE
    /\ UNCHANGED <<repo, pc, target, snapshot, tried, edited, created, todo,
                   rolledBack, run, began, others>>

CheckpointNext ==
    \/ StartRun
    \/ \E p \in Paths : BeginEdit(p) \/ RestorePath(p)
    \/ CheckpointFails \/ CheckpointHead \/ CheckpointStash \/ CheckpointUntracked
    \/ \E c \in Rewrites : EditLands(c)
    \/ EditFails \/ EditRefused \/ KeepWork \/ AbandonWork
    \/ RollbackFails \/ RollbackEnds
    \/ \E p \in Paths : OtherWrites(p) \/ OtherStages(p) \/ OtherCommits(p)
    \/ Cancel

CheckpointSpec == CheckpointInit /\ [][CheckpointNext]_checkpointVars

-----------------------------------------------------------------------------
(* What the checkpoint promises *)

\* The checkpoint could tell what was there: git tracked the path, there was
\* no file, or it was an untracked one small enough to keep.
Recorded(p) ==
    \/ p \in index
    \/ began[p] = Missing
    \/ p \notin Ignored \cup Quoted /\ began[p] \notin Big \cup {Empty}

\* A rollback that reports success put back every file the run edited, as it
\* was on disk when the checkpoint began (the user's uncommitted changes, not
\* HEAD's content; no file for a path the run created), unless somebody else
\* touched that path in the meantime or the context was cancelled
\* (checkpoint.go Rollback, loop.go finish).
Restored ==
    pc = "done" /\ rolledBack /\ ~ cancelled =>
        \A p \in edited \ others : Recorded(p) => disk[p] = began[p]

RollbackStep == pc = "rollback" /\ todo' # todo

\* A rollback changes no path outside the ones the run named: work that landed
\* elsewhere in the tree since the checkpoint survives it, on disk, in the
\* index and in HEAD (checkpoint.go, the 2026-10-17 incident).
Scoped ==
    [][RollbackStep => /\ \A p \in Paths \ RunPaths :
                             /\ disk'[p] = disk[p]
                             /\ p \in index' <=> p \in index
                       /\ head' = head]_checkpointVars

\* A file that was there when the checkpoint began is never deleted by the
\* rollback, recorded with its content or without it (checkpoint.go
\* captureUntracked, the 2026-10-21 incident); for paths git can list, while
\* the context lives and nobody else touches the path.
PredatingKept ==
    [][\A p \in Paths \ others :
         /\ RollbackStep /\ ~ cancelled
         /\ began[p] # Missing
         /\ p \in index \/ p \notin Ignored \cup Quoted
         => disk'[p] # Missing \/ disk[p] = Missing]_checkpointVars
=============================================================================
