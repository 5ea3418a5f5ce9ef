--------------------------- MODULE WorkspaceProofs ----------------------------
(***************************************************************************)
(* The files of a workspace. Checkpoint, for any paths, contents, writers  *)
(* and runs: a rollback which reports success restored the run's files, it *)
(* reaches no path outside the run's own, and it deletes no file it could  *)
(* have known was there. Scope, for every manifest, flag, glob and         *)
(* sequence of calls of a run and its child: no tool writes what the       *)
(* operator ruled out, and the account each of the two keeps of the writes *)
(* it was refused is exact. Editing, for any diffs, texts, files and       *)
(* writes by others: the blocks of a call land together or not at all, an  *)
(* append sent twice lands once, and a rename does what it reports.        *)
(***************************************************************************)
EXTENDS Checkpoint, Scope, Editing, Induction, FiniteSetTheorems

-----------------------------------------------------------------------------
(* Checkpoint: the invariant *)

\* A run takes its checkpoint before it edits anything.
BeforeTheFirstEdit ==
    /\ ~ tried => ~ taken /\ edited = {} /\ pc \notin Snapping \cup {"write"}
    /\ pc \in Snapping => /\ ~ taken /\ edited = {}
                          /\ \A p \in Paths \ others : disk[p] = began[p]

\* What each command of the checkpoint established, for the paths nobody else
\* has touched since it began.
HalfTaken ==
    /\ pc = "stash" => \A p \in Paths \ others : snapHead[p] = head[p]
    /\ pc = "untracked" =>
        \A p \in Paths \ others :
            Source[p] = IF p \in index THEN began[p] ELSE Missing

\* What the snapshot knows of a path: it was tracked and is in the tree the
\* rollback restores from; there was no file; or git did not track it and the
\* untracked record has it, unless git could not list it.
Known(p) ==
    \/ began[p] # Missing /\ Source[p] = began[p]
    \/ began[p] = Missing /\ Source[p] = Missing /\ snapUntracked[p] = Missing
    \/ /\ began[p] # Missing /\ Source[p] = Missing /\ p \notin index
       /\ \/ p \in Ignored \cup Quoted
          \/ began[p] \in Big /\ snapUntracked[p] = Empty
          \/ began[p] \notin Big /\ snapUntracked[p] = began[p]

SnapshotSound == taken => \A p \in Paths \ others : Known(p)

\* A rollback has put back every path it has been through.
RestoredSoFar ==
    /\ pc = "rollback" => taken /\ ~ rolledBack /\ todo \subseteq RunPaths
    /\ rolledBack => pc = "done" /\ todo = {}
    /\ pc = "rollback" \/ rolledBack =>
        (~ cancelled =>
            \A p \in edited \ (others \cup todo) : Recorded(p) => disk[p] = began[p])

IInv == /\ CheckpointTypeOK
        /\ BeforeTheFirstEdit
        /\ HalfTaken
        /\ SnapshotSound
        /\ RestoredSoFar

-----------------------------------------------------------------------------
(* The trees the model is built from *)

LEMMA StashTreeType == ASSUME CheckpointTypeOK PROVE StashTree \in Tree
  BY DEF CheckpointTypeOK, Tree, File, StashTree

LEMMA UntrackedType == ASSUME CheckpointTypeOK PROVE Untracked \in Tree
  BY CheckpointAssumption DEF CheckpointTypeOK, Tree, File, Untracked

LEMMA NothingType == Nothing \in Tree
  BY DEF Nothing, Tree, File

LEMMA SourceType == ASSUME CheckpointTypeOK PROVE Source \in Tree
  BY DEF CheckpointTypeOK, Source

\* What the stash command saves for a path nobody else touched: its content
\* when git tracks it, whether the tree was clean or not.
LEMMA StashedSource ==
    ASSUME CheckpointTypeOK, pc = "stash", BeforeTheFirstEdit, HalfTaken, CheckpointStash,
           NEW p \in Paths \ others
    PROVE  Source'[p] = IF p \in index THEN began[p] ELSE Missing
  <1>1. /\ disk[p] = began[p] /\ snapHead[p] = head[p]
    BY DEF BeforeTheFirstEdit, HalfTaken, Snapping
  <1>2. StashTree[p] = IF p \in index THEN began[p] ELSE Missing
    BY <1>1 DEF StashTree
  <1>3. StashTree # NoStash
    BY StashTreeType, CheckpointAssumption DEF Tree, File
  <1>4. CASE StashTree = head
    BY <1>1, <1>2, <1>4 DEF CheckpointStash, StashCreate, Source
  <1>5. CASE StashTree # head
    BY <1>2, <1>3, <1>5 DEF CheckpointStash, StashCreate, Source
  <1> QED BY <1>4, <1>5

-----------------------------------------------------------------------------
(* Types *)

LEMMA InitTypes == CheckpointInit => CheckpointTypeOK
  <1> SUFFICES ASSUME CheckpointInit PROVE CheckpointTypeOK
    OBVIOUS
  <1>1. snapHead \in Tree /\ snapUntracked \in Tree
    BY NothingType DEF CheckpointInit
  <1> QED BY <1>1 DEF CheckpointInit, CheckpointTypeOK, Phases, Snapping

LEMMA TypeStep == CheckpointTypeOK /\ [CheckpointNext]_checkpointVars => CheckpointTypeOK'
  <1> SUFFICES ASSUME CheckpointTypeOK, [CheckpointNext]_checkpointVars PROVE CheckpointTypeOK'
    OBVIOUS
  <1>1. CASE StartRun
    <2>1. snapHead' \in Tree /\ snapUntracked' \in Tree
      BY <1>1, NothingType DEF StartRun
    <2>2. run' \in Nat /\ began' \in Tree /\ others' \subseteq Paths
      BY <1>1 DEF StartRun, CheckpointTypeOK
    <2>3. pc' \in Phases /\ pc' \notin Snapping \cup {"write"}
      BY <1>1 DEF StartRun, Phases, Snapping
    <2> QED BY <1>1, <2>1, <2>2, <2>3 DEF StartRun, CheckpointTypeOK, repo
  <1>2. ASSUME NEW p \in Paths, BeginEdit(p) PROVE CheckpointTypeOK'
    BY <1>2 DEF BeginEdit, CheckpointTypeOK, repo, snapshot, Phases, Snapping
  <1>3. CASE CheckpointFails
    BY <1>3, NothingType DEF CheckpointFails, CheckpointTypeOK, repo, Phases, Snapping
  <1>4. CASE CheckpointHead
    BY <1>4 DEF CheckpointHead, CheckpointTypeOK, repo, Phases, Snapping
  <1>5. CASE CheckpointStash
    <2>1. snapStash' \in Tree \cup {NoStash}
      BY <1>5, StashTreeType DEF CheckpointStash, StashCreate
    <2> QED BY <1>5, <2>1 DEF CheckpointStash, CheckpointTypeOK, repo, Phases, Snapping
  <1>6. CASE CheckpointUntracked
    BY <1>6, UntrackedType DEF CheckpointUntracked, CheckpointTypeOK, repo, Phases, Snapping
  <1>7. ASSUME NEW c \in Rewrites, EditLands(c) PROVE CheckpointTypeOK'
    <2>1. target \in Paths /\ c \in File
      BY <1>7, CheckpointAssumption DEF EditLands, CheckpointTypeOK, File
    <2>2. disk' \in Tree
      BY <1>7, <2>1 DEF EditLands, CheckpointTypeOK, Tree
    <2> QED BY <1>7, <2>1, <2>2
            DEF EditLands, CreatedBy, CheckpointTypeOK, snapshot, Phases, Snapping
  <1>8. CASE EditFails
    BY <1>8 DEF EditFails, CreatedBy, CheckpointTypeOK, repo, snapshot, Phases, Snapping
  <1>9. CASE EditRefused
    BY <1>9 DEF EditRefused, CheckpointTypeOK, repo, snapshot, Phases, Snapping
  <1>10. CASE KeepWork
    BY <1>10 DEF KeepWork, CheckpointTypeOK, repo, snapshot, Phases, Snapping
  <1>11. CASE AbandonWork
    BY <1>11 DEF AbandonWork, RunPaths, CheckpointTypeOK, repo, snapshot, Phases, Snapping
  <1>12. ASSUME NEW p \in Paths, RestorePath(p) PROVE CheckpointTypeOK'
    <2>1. Source \in Tree
      BY SourceType
    <2>2. disk' \in Tree /\ index' \subseteq Paths
      BY <1>12, <2>1 DEF RestorePath, RestoreTracked, RestoreUntracked,
                         LeaveUntracked, RemoveCreated, CheckpointTypeOK, Tree, File
    <2> QED BY <1>12, <2>2 DEF RestorePath, CheckpointTypeOK, snapshot, Phases, Snapping
  <1>13. CASE RollbackFails
    BY <1>13 DEF RollbackFails, CheckpointTypeOK, repo, snapshot, Phases, Snapping
  <1>14. CASE RollbackEnds
    BY <1>14 DEF RollbackEnds, CheckpointTypeOK, repo, snapshot, Phases, Snapping
  <1>15. ASSUME NEW p \in Paths, OtherStep(p), disk' \in Tree, head' \in Tree,
                index' \subseteq Paths
         PROVE  CheckpointTypeOK'
    BY <1>15 DEF OtherStep, CheckpointTypeOK, snapshot
  <1>16. ASSUME NEW p \in Paths, OtherWrites(p) PROVE CheckpointTypeOK'
    <2>1. disk' \in Tree
      BY <1>16 DEF OtherWrites, CheckpointTypeOK, Tree
    <2> QED BY <1>15, <1>16, <2>1 DEF OtherWrites, CheckpointTypeOK
  <1>17. ASSUME NEW p \in Paths, OtherStages(p) PROVE CheckpointTypeOK'
    BY <1>15, <1>17 DEF OtherStages, CheckpointTypeOK
  <1>18. ASSUME NEW p \in Paths, OtherCommits(p) PROVE CheckpointTypeOK'
    <2>1. head' \in Tree /\ index' \subseteq Paths
      BY <1>18 DEF OtherCommits, CheckpointTypeOK, Tree
    <2> QED BY <1>15, <1>18, <2>1 DEF OtherCommits, CheckpointTypeOK
  <1>19. CASE Cancel
    BY <1>19 DEF Cancel, CheckpointTypeOK, repo, snapshot, Phases, Snapping
  <1>20. CASE UNCHANGED checkpointVars
    BY <1>20 DEF checkpointVars, CheckpointTypeOK
  <1> QED BY <1>1, <1>2, <1>3, <1>4, <1>5, <1>6, <1>7, <1>8, <1>9, <1>10, <1>11,
             <1>12, <1>13, <1>14, <1>16, <1>17, <1>18, <1>19, <1>20 DEF CheckpointNext

\* Every value the checkpoint and the loop keep stays of its kind; in
\* particular an edit, and so the record of edited paths, always has a path
\* (checkpoint.go Snapshot, loop.go Run).
THEOREM TypeCorrect == CheckpointSpec => []CheckpointTypeOK
  <1> QED BY InitTypes, TypeStep, PTL DEF CheckpointSpec

-----------------------------------------------------------------------------
(* The inductive invariant.  Three groups of steps leave what it says of the *)
(* snapshot alone: another writer's, which only takes a path out of it, a    *)
(* cancellation, and every step that changes no tree.                        *)

LEMMA InitIInv == CheckpointInit => IInv
  <1> SUFFICES ASSUME CheckpointInit PROVE IInv
    OBVIOUS
  <1>1. CheckpointTypeOK
    BY InitTypes
  <1> QED BY <1>1 DEF CheckpointInit, IInv, BeforeTheFirstEdit, HalfTaken, SnapshotSound,
                      RestoredSoFar, Snapping

\* A step that leaves the snapshot, the ghosts and HEAD alone, and keeps git
\* from tracking more than it did, keeps what the snapshot knows.
LEMMA KnownKept ==
    ASSUME NEW p \in Paths, Known(p),
           UNCHANGED <<snapHead, snapStash, snapUntracked, began>>,
           p \in index' => p \in index
    PROVE  Known(p)'
  BY DEF Known, Source

\* Restoring a path: whatever the snapshot knows of it, it is put back as it
\* was when the checkpoint could record it.
LEMMA RestoresPath ==
    ASSUME IInv, ~ cancelled, NEW p \in Paths \ others, RestorePath(p)
    PROVE  /\ Recorded(p)' => disk'[p] = began[p]
           /\ p \in index' => p \in index \/ Source[p] # Missing
           /\ began[p] # Missing /\ (p \in index \/ p \notin Ignored \cup Quoted)
              => disk'[p] # Missing \/ disk[p] = Missing
  <1>1. Known(p)
    BY DEF IInv, SnapshotSound, RestoredSoFar, RestorePath
  <1>2. disk \in Tree /\ began' = began /\ Empty # Missing
    BY CheckpointAssumption DEF IInv, CheckpointTypeOK, RestorePath
  <1>3. CASE RestoreTracked(p)
    BY <1>1, <1>2, <1>3 DEF RestoreTracked, InSource, Known, Tree
  <1>4. CASE RestoreUntracked(p)
    BY <1>1, <1>2, <1>4 DEF RestoreUntracked, InSource, Known, Recorded, Tree
  <1>5. CASE LeaveUntracked(p)
    BY <1>1, <1>2, <1>5 DEF LeaveUntracked, InSource, Known, Recorded, Tree
  <1>6. CASE RemoveCreated(p)
    BY <1>1, <1>2, <1>6 DEF RemoveCreated, InSource, Known, Recorded, Tree
  <1> QED BY <1>3, <1>4, <1>5, <1>6 DEF RestorePath

\* A rollback step changes nothing of any other path.
LEMMA RestoresOnlyPath ==
    ASSUME CheckpointTypeOK, NEW p \in Paths, NEW q \in Paths \ {p}, RestorePath(p)
    PROVE  disk'[q] = disk[q] /\ (q \in index' <=> q \in index)
  BY DEF RestorePath, RestoreTracked, RestoreUntracked, LeaveUntracked,
         RemoveCreated, CheckpointTypeOK, Tree

\* Another writer's step only takes the path it touches out of what is said.
LEMMA OtherStepIInv ==
    ASSUME IInv, CheckpointTypeOK', NEW p \in Paths, OtherStep(p),
           \A q \in Paths \ {p} : /\ disk'[q] = disk[q] /\ head'[q] = head[q]
                                  /\ q \in index' <=> q \in index
    PROVE  IInv'
  <1>1. \A q \in Paths \ others' : q \in Paths \ others /\ q # p
    BY DEF OtherStep
  <1>2. UNCHANGED <<pc, taken, tried, edited, created, todo, rolledBack, cancelled,
                    began, snapHead, snapStash, snapUntracked>>
    BY DEF OtherStep, snapshot
  <1>3. BeforeTheFirstEdit'
    BY <1>1, <1>2 DEF IInv, BeforeTheFirstEdit, Snapping
  <1>4. HalfTaken'
    BY <1>1, <1>2 DEF IInv, HalfTaken, Source
  <1>5. SnapshotSound'
    BY <1>1, <1>2, KnownKept DEF IInv, SnapshotSound
  <1>6. RestoredSoFar'
    <2>1. SUFFICES ASSUME pc = "rollback" \/ rolledBack, ~ cancelled,
                          NEW q \in edited \ (others' \cup todo), Recorded(q)'
                   PROVE  disk'[q] = began[q]
      BY <1>2 DEF IInv, RestoredSoFar, RunPaths
    <2>2. q \in Paths \ others /\ q # p
      BY <1>1, <2>1 DEF IInv, CheckpointTypeOK
    <2>3. Recorded(q)
      BY <1>2, <2>1, <2>2 DEF Recorded
    <2> QED BY <2>1, <2>2, <2>3 DEF IInv, RestoredSoFar
  <1> QED BY <1>3, <1>4, <1>5, <1>6 DEF IInv

\* A step of the run that changes neither the tree, nor what it knows of it.
LEMMA QuietStepIInv ==
    ASSUME IInv, CheckpointTypeOK',
           UNCHANGED <<disk, index, head, began, others, snapHead, snapStash,
                       snapUntracked, taken, tried, edited>>,
           pc \notin Snapping, pc' \notin Snapping,
           pc' = "write" => pc = "write",
           RestoredSoFar'
    PROVE  IInv'
  <1>1. BeforeTheFirstEdit'
    BY DEF IInv, BeforeTheFirstEdit
  <1>2. HalfTaken'
    BY DEF HalfTaken, Snapping
  <1>3. SnapshotSound'
    BY KnownKept DEF IInv, SnapshotSound
  <1> QED BY <1>1, <1>2, <1>3 DEF IInv

LEMMA BeginEditIInv ==
    ASSUME IInv, CheckpointTypeOK', NEW p \in Paths, BeginEdit(p) PROVE IInv'
  <1>1. RestoredSoFar'
    BY DEF IInv, RestoredSoFar, BeginEdit
  <1>2. HalfTaken'
    BY DEF HalfTaken, BeginEdit
  <1>3. CASE tried
    <2>1. BeforeTheFirstEdit'
      BY <1>3 DEF BeginEdit, BeforeTheFirstEdit, Snapping
    <2>2. SnapshotSound'
      BY <1>3, KnownKept DEF IInv, SnapshotSound, BeginEdit, repo, snapshot
    <2> QED BY <1>1, <1>2, <2>1, <2>2 DEF IInv
  <1>4. CASE ~ tried
    <2>1. ~ taken /\ edited = {}
      BY <1>4 DEF IInv, BeforeTheFirstEdit
    <2>2. BeforeTheFirstEdit'
      BY <1>4, <2>1 DEF BeginEdit, BeforeTheFirstEdit, Snapping, repo, snapshot
    <2>3. SnapshotSound'
      BY <2>1 DEF SnapshotSound, BeginEdit, snapshot
    <2> QED BY <1>1, <1>2, <2>2, <2>3 DEF IInv
  <1> QED BY <1>3, <1>4

LEMMA CheckpointFailsIInv ==
    ASSUME IInv, CheckpointTypeOK', CheckpointFails PROVE IInv'
  <1>1. ~ taken' /\ edited' = {} /\ tried' = tried /\ tried
    BY DEF IInv, BeforeTheFirstEdit, CheckpointFails
  <1>2. BeforeTheFirstEdit'
    BY <1>1 DEF BeforeTheFirstEdit, CheckpointFails, Snapping
  <1>3. HalfTaken' /\ SnapshotSound'
    BY <1>1 DEF HalfTaken, SnapshotSound, CheckpointFails
  <1>4. RestoredSoFar'
    BY DEF IInv, RestoredSoFar, CheckpointFails, Snapping
  <1> QED BY <1>2, <1>3, <1>4 DEF IInv

LEMMA CheckpointHeadIInv ==
    ASSUME IInv, CheckpointTypeOK', CheckpointHead PROVE IInv'
  <1>1. BeforeTheFirstEdit'
    BY DEF IInv, BeforeTheFirstEdit, CheckpointHead, Snapping, repo
  <1>2. HalfTaken'
    BY DEF HalfTaken, CheckpointHead, repo
  <1>3. SnapshotSound' /\ RestoredSoFar'
    BY DEF IInv, BeforeTheFirstEdit, SnapshotSound, RestoredSoFar,
           CheckpointHead, Snapping
  <1> QED BY <1>1, <1>2, <1>3 DEF IInv

LEMMA CheckpointStashIInv ==
    ASSUME IInv, CheckpointTypeOK', CheckpointStash PROVE IInv'
  <1>1. BeforeTheFirstEdit'
    BY DEF IInv, BeforeTheFirstEdit, CheckpointStash, Snapping, repo
  <1>2. HalfTaken'
    <2>1. SUFFICES ASSUME NEW p \in Paths \ others
                   PROVE  Source'[p] = IF p \in index THEN began[p] ELSE Missing
      BY DEF HalfTaken, CheckpointStash, repo
    <2> QED BY <2>1, StashedSource DEF CheckpointStash, IInv
  <1>3. SnapshotSound' /\ RestoredSoFar'
    BY DEF IInv, BeforeTheFirstEdit, SnapshotSound, RestoredSoFar,
           CheckpointStash, Snapping
  <1> QED BY <1>1, <1>2, <1>3 DEF IInv

LEMMA CheckpointUntrackedIInv ==
    ASSUME IInv, CheckpointTypeOK', CheckpointUntracked PROVE IInv'
  <1>1. BeforeTheFirstEdit'
    BY DEF IInv, BeforeTheFirstEdit, CheckpointUntracked, Snapping, repo
  <1>2. HalfTaken' /\ RestoredSoFar'
    BY DEF IInv, HalfTaken, RestoredSoFar, CheckpointUntracked
  <1>3. SnapshotSound'
    <2>1. SUFFICES ASSUME NEW p \in Paths \ others PROVE Known(p)'
      BY DEF SnapshotSound, CheckpointUntracked
    <2>2. /\ disk[p] = began[p]
          /\ Source[p] = IF p \in index THEN began[p] ELSE Missing
      BY DEF IInv, BeforeTheFirstEdit, HalfTaken, CheckpointUntracked, Snapping
    <2>3. Source' = Source /\ began' = began /\ index' = index
      BY DEF CheckpointUntracked, Source, repo
    <2>4. snapUntracked'[p] = IF ~ ListedUntracked(p) THEN Missing
                              ELSE IF disk[p] \in Big THEN Empty ELSE disk[p]
      BY DEF CheckpointUntracked, Untracked
    <2> QED BY <2>2, <2>3, <2>4 DEF Known, ListedUntracked
  <1> QED BY <1>1, <1>2, <1>3 DEF IInv

LEMMA EditLandsIInv ==
    ASSUME IInv, CheckpointTypeOK', NEW c \in Rewrites, EditLands(c) PROVE IInv'
  <1>1. BeforeTheFirstEdit'
    BY DEF IInv, BeforeTheFirstEdit, EditLands, Snapping
  <1>2. HalfTaken' /\ RestoredSoFar'
    BY DEF IInv, HalfTaken, RestoredSoFar, EditLands
  <1>3. SnapshotSound'
    BY KnownKept DEF IInv, SnapshotSound, EditLands, snapshot
  <1> QED BY <1>1, <1>2, <1>3 DEF IInv

LEMMA RestorePathIInv ==
    ASSUME IInv, CheckpointTypeOK', NEW p \in Paths, RestorePath(p) PROVE IInv'
  <1>1. BeforeTheFirstEdit'
    BY DEF IInv, BeforeTheFirstEdit, RestoredSoFar, RestorePath, snapshot, Snapping
  <1>2. HalfTaken'
    BY DEF HalfTaken, RestorePath
  <1>3. Source' = Source /\ others' = others /\ taken' = taken /\ began' = began
    BY DEF RestorePath, snapshot, Source
  <1>4. SnapshotSound'
    <2>1. SUFFICES ASSUME taken, NEW q \in Paths \ others PROVE Known(q)'
      BY <1>3 DEF SnapshotSound
    <2>2. Known(q)
      BY <2>1 DEF IInv, SnapshotSound
    <2>3. Source[q] = Missing /\ q \in index' => q \in index
      BY RestoresOnlyPath DEF IInv, RestorePath, RestoreTracked, InSource,
         RestoreUntracked, LeaveUntracked, RemoveCreated
    <2> QED BY <1>3, <2>2, <2>3 DEF Known, RestorePath, snapshot
  <1>5. RestoredSoFar'
    <2>1. SUFFICES ASSUME ~ cancelled, NEW q \in edited \ (others \cup todo'),
                          Recorded(q)'
                   PROVE  disk'[q] = began[q]
      BY <1>3 DEF IInv, RestoredSoFar, RunPaths, RestorePath, snapshot
    <2>2. q \in Paths \ others
      BY DEF IInv, CheckpointTypeOK
    <2>3. CASE q = p
      BY <2>1, <2>2, <2>3, RestoresPath
    <2>4. CASE q # p
      <3>1. disk'[q] = disk[q] /\ (q \in index' <=> q \in index) /\ q \notin todo
        BY <2>2, <2>4, RestoresOnlyPath DEF IInv, RestorePath
      <3>2. Recorded(q)
        BY <1>3, <2>1, <3>1 DEF Recorded
      <3> QED BY <2>1, <3>1, <3>2 DEF IInv, RestoredSoFar, RestorePath
    <2> QED BY <2>3, <2>4
  <1> QED BY <1>1, <1>2, <1>4, <1>5 DEF IInv

LEMMA RollbackEndsIInv ==
    ASSUME IInv, CheckpointTypeOK', RollbackEnds PROVE IInv'
  <1>1. RestoredSoFar'
    <2>1. SUFFICES ASSUME ~ cancelled, NEW q \in edited \ others, Recorded(q)'
                   PROVE  disk'[q] = began[q]
      BY DEF RestoredSoFar, RollbackEnds
    <2>2. Recorded(q) /\ disk' = disk
      BY <2>1 DEF Recorded, RollbackEnds, repo
    <2> QED BY <2>1, <2>2 DEF IInv, RestoredSoFar, RollbackEnds
  <1> QED BY <1>1, QuietStepIInv DEF RollbackEnds, repo, snapshot, Snapping

LEMMA IInvStep == IInv /\ [CheckpointNext]_checkpointVars => IInv'
  <1> SUFFICES ASSUME IInv, [CheckpointNext]_checkpointVars PROVE IInv'
    OBVIOUS
  <1>0. CheckpointTypeOK'
    BY TypeStep DEF IInv
  <1>1. CASE StartRun
    BY <1>0, <1>1 DEF StartRun, IInv, BeforeTheFirstEdit, HalfTaken,
                      SnapshotSound, RestoredSoFar, Snapping
  <1>2. ASSUME NEW p \in Paths, BeginEdit(p) PROVE IInv'
    BY <1>0, <1>2, BeginEditIInv
  <1>3. CASE CheckpointFails
    BY <1>0, <1>3, CheckpointFailsIInv
  <1>4. CASE CheckpointHead
    BY <1>0, <1>4, CheckpointHeadIInv
  <1>5. CASE CheckpointStash
    BY <1>0, <1>5, CheckpointStashIInv
  <1>6. CASE CheckpointUntracked
    BY <1>0, <1>6, CheckpointUntrackedIInv
  <1>7. ASSUME NEW c \in Rewrites, EditLands(c) PROVE IInv'
    BY <1>0, <1>7, EditLandsIInv
  <1>8. CASE EditFails
    <2>1. RestoredSoFar'
      BY <1>8 DEF IInv, RestoredSoFar, EditFails
    <2> QED BY <1>0, <1>8, <2>1, QuietStepIInv DEF EditFails, repo, snapshot, Snapping
  <1>9. CASE EditRefused
    <2>1. RestoredSoFar'
      BY <1>9 DEF IInv, RestoredSoFar, EditRefused
    <2> QED BY <1>0, <1>9, <2>1, QuietStepIInv DEF EditRefused, repo, snapshot, Snapping
  <1>10. CASE KeepWork
    <2>1. RestoredSoFar'
      BY <1>10 DEF IInv, RestoredSoFar, KeepWork
    <2> QED BY <1>0, <1>10, <2>1, QuietStepIInv DEF KeepWork, repo, snapshot, Snapping
  <1>11. CASE AbandonWork
    <2>1. RestoredSoFar'
      BY <1>11 DEF IInv, RestoredSoFar, AbandonWork, RunPaths, snapshot
    <2> QED BY <1>0, <1>11, <2>1, QuietStepIInv DEF AbandonWork, repo, snapshot, Snapping
  <1>12. ASSUME NEW p \in Paths, RestorePath(p) PROVE IInv'
    BY <1>0, <1>12, RestorePathIInv
  <1>13. CASE RollbackFails
    <2>1. RestoredSoFar'
      BY <1>13 DEF IInv, RestoredSoFar, RollbackFails
    <2> QED BY <1>0, <1>13, <2>1, QuietStepIInv DEF RollbackFails, repo, snapshot, Snapping
  <1>14. CASE RollbackEnds
    BY <1>0, <1>14, RollbackEndsIInv
  <1>15. ASSUME NEW p \in Paths, OtherWrites(p) PROVE IInv'
    BY <1>0, <1>15, OtherStepIInv DEF OtherWrites, IInv, CheckpointTypeOK, Tree
  <1>16. ASSUME NEW p \in Paths, OtherStages(p) PROVE IInv'
    BY <1>0, <1>16, OtherStepIInv DEF OtherStages
  <1>17. ASSUME NEW p \in Paths, OtherCommits(p) PROVE IInv'
    BY <1>0, <1>17, OtherStepIInv DEF OtherCommits, IInv, CheckpointTypeOK, Tree
  <1>18. CASE Cancel
    BY <1>0, <1>18, KnownKept
       DEF Cancel, repo, snapshot, IInv, BeforeTheFirstEdit, HalfTaken,
           SnapshotSound, RestoredSoFar, RunPaths, Recorded, Source, Snapping
  <1>19. CASE UNCHANGED checkpointVars
    BY <1>0, <1>19, KnownKept
       DEF checkpointVars, IInv, BeforeTheFirstEdit, HalfTaken, SnapshotSound,
           RestoredSoFar, RunPaths, Recorded, Source, Snapping
  <1> QED BY <1>1, <1>2, <1>3, <1>4, <1>5, <1>6, <1>7, <1>8, <1>9, <1>10, <1>11,
             <1>12, <1>13, <1>14, <1>15, <1>16, <1>17, <1>18, <1>19 DEF CheckpointNext

LEMMA Invariant == CheckpointSpec => []IInv
  BY InitIInv, IInvStep, PTL DEF CheckpointSpec

-----------------------------------------------------------------------------
(* What the checkpoint promises *)

\* Whatever else happens in the repository, a rollback that reports success,
\* under a context that was not cancelled, has put back every file the run
\* edited, as it was when the checkpoint began, unless somebody else touched
\* it or git could not have recorded it (checkpoint.go Checkpoint, Rollback).
THEOREM RollbackRestores == CheckpointSpec => []Restored
  <1>1. IInv => Restored
    BY DEF IInv, RestoredSoFar, Restored
  <1> QED BY <1>1, Invariant, PTL

\* Only these two steps of Next are RollbackSteps.
LEMMA RollbackStepCases ==
    ASSUME [CheckpointNext]_checkpointVars, RollbackStep
    PROVE  RollbackFails \/ \E p \in todo : RestorePath(p)
  <1>1. pc = "rollback" /\ todo' # todo /\ checkpointVars' # checkpointVars
    BY DEF RollbackStep, checkpointVars
  <1>2. \A p \in Paths : ~ OtherStep(p)
    BY <1>1 DEF OtherStep
  <1>3. \A p \in Paths : ~ (OtherWrites(p) \/ OtherStages(p) \/ OtherCommits(p))
    BY <1>2 DEF OtherWrites, OtherStages, OtherCommits
  <1> QED BY <1>1, <1>3 DEF CheckpointNext, StartRun, BeginEdit, CheckpointFails, Snapping,
       CheckpointHead, CheckpointStash, CheckpointUntracked, EditLands, EditFails,
       EditRefused, KeepWork, AbandonWork, RollbackEnds, Cancel, RestorePath

\* No rollback step, whatever the snapshot holds, changes a path outside those
\* the run edited or created, on disk or in the index, or moves HEAD
\* (checkpoint.go Rollback, loop.go runPaths).
THEOREM RollbackIsScoped == CheckpointSpec => Scoped
  <1>1. ASSUME IInv, [CheckpointNext]_checkpointVars, RollbackStep
        PROVE  /\ \A q \in Paths \ RunPaths : /\ disk'[q] = disk[q]
                                              /\ q \in index' <=> q \in index
               /\ head' = head
    <2>1. CASE RollbackFails
      BY <2>1 DEF RollbackFails, repo
    <2>2. ASSUME NEW p \in todo, RestorePath(p)
          PROVE  /\ \A q \in Paths \ RunPaths : /\ disk'[q] = disk[q]
                                                /\ q \in index' <=> q \in index
                 /\ head' = head
      <3>1. p \in Paths /\ p \in RunPaths
        BY <1>1, <2>2 DEF IInv, CheckpointTypeOK, RestoredSoFar, RestorePath
      <3> QED BY <2>2, <3>1, <1>1, RestoresOnlyPath DEF IInv, RestorePath
    <2> QED BY <1>1, <2>1, <2>2, RollbackStepCases
  <1>2. IInv /\ [CheckpointNext]_checkpointVars =>
          [RollbackStep => /\ \A p \in Paths \ RunPaths :
                                /\ disk'[p] = disk[p]
                                /\ p \in index' <=> p \in index
                          /\ head' = head]_checkpointVars
    BY <1>1
  <1> QED BY <1>2, Invariant, PTL DEF Scoped, CheckpointSpec

\* A file that was there when the checkpoint began, on a path git could list
\* and nobody else touched, is never deleted by the rollback of a live
\* context (checkpoint.go captureUntracked, Rollback).
THEOREM RollbackKeepsPredating == CheckpointSpec => PredatingKept
  <1>1. ASSUME IInv, [CheckpointNext]_checkpointVars, NEW q \in Paths \ others,
               RollbackStep, ~ cancelled, began[q] # Missing,
               q \in index \/ q \notin Ignored \cup Quoted
        PROVE  disk'[q] # Missing \/ disk[q] = Missing
    <2>1. CASE RollbackFails
      BY <2>1 DEF RollbackFails, repo
    <2>2. ASSUME NEW p \in todo, RestorePath(p)
          PROVE  disk'[q] # Missing \/ disk[q] = Missing
      <3>1. p \in Paths
        BY <1>1, <2>2 DEF IInv, CheckpointTypeOK
      <3>2. CASE p = q
        BY <1>1, <2>2, <3>2, RestoresPath
      <3>3. CASE p # q
        BY <1>1, <2>2, <3>1, <3>3, RestoresOnlyPath DEF IInv
      <3> QED BY <3>2, <3>3
    <2> QED BY <1>1, <2>1, <2>2, RollbackStepCases
  <1>2. IInv /\ [CheckpointNext]_checkpointVars =>
          [\A p \in Paths \ others :
             /\ RollbackStep /\ ~ cancelled
             /\ began[p] # Missing
             /\ p \in index \/ p \notin Ignored \cup Quoted
             => disk'[p] # Missing \/ disk[p] = Missing]_checkpointVars
    BY <1>1
  <1> QED BY <1>2, Invariant, PTL DEF PredatingKept, CheckpointSpec

-----------------------------------------------------------------------------
(* Scope: the operators *)

\* A policy without a rule lets every path be written: a shell that is left
\* then writes nothing it may not.
LEMMA InactiveAllows ==
    ASSUME NEW p, ~ Active(p), NEW path
    PROVE  CanWrite(p, path) = "allowed"
  <1>1. p.deny = <<>> /\ p.read_only = <<>> /\ p.allow = <<>>
    BY DEF Active, Keys
  <1>2. ToSet(<<>>) = {}
    BY DEF ToSet
  <1> QED
    BY <1>1, <1>2 DEF CanWrite, MatchesAny

\* What CanWrite lets through breaks no rule.
LEMMA AllowedIsInside ==
    ASSUME NEW p, NEW path, CanWrite(p, path) = "allowed"
    PROVE  /\ ~ MatchesAny(p.deny, path) /\ ~ MatchesAny(p.read_only, path)
           /\ p.allow = <<>> \/ MatchesAny(p.allow, path)
  BY DEF CanWrite

LEMMA MinOfTwo ==
    ASSUME NEW a \in Nat, NEW b \in Nat
    PROVE  Min({a, b}) = IF a <= b THEN a ELSE b
  <1> DEFINE m == IF a <= b THEN a ELSE b
  <1>1. m \in {a, b} /\ \A y \in {a, b} : m <= y
    OBVIOUS
  <1>2. \A x \in {a, b} : (\A y \in {a, b} : x <= y) => x = m
    OBVIOUS
  <1> QED
    BY <1>1, <1>2 DEF Min

\* Appending a new element keeps a sequence free of repetitions.
LEMMA AppendNew ==
    ASSUME NEW S, NEW s \in Seq(S), NEW e \in S, IsInjective(s), e \notin ToSet(s)
    PROVE  IsInjective(Append(s, e)) /\ ToSet(Append(s, e)) = ToSet(s) \cup {e}
  <1>1. /\ DOMAIN s = 1 .. Len(s) /\ DOMAIN Append(s, e) = 1 .. Len(s) + 1
        /\ \A i \in 1 .. Len(s) : Append(s, e)[i] = s[i]
        /\ Append(s, e)[Len(s) + 1] = e /\ Len(s) \in Nat
    OBVIOUS
  <1>2. \A i \in 1 .. Len(s) : s[i] # e
    BY <1>1 DEF ToSet
  <1>3. IsInjective(Append(s, e))
    BY <1>1, <1>2 DEF IsInjective
  <1>4. ToSet(Append(s, e)) = ToSet(s) \cup {e}
    <2>1. \A x : x \in ToSet(Append(s, e)) <=> \E i \in 1 .. Len(s) + 1 : x = Append(s, e)[i]
      BY <1>1 DEF ToSet
    <2>2. \A x : x \in ToSet(s) <=> \E i \in 1 .. Len(s) : x = s[i]
      BY <1>1 DEF ToSet
    <2> QED
      BY <1>1, <2>1, <2>2
  <1> QED
    BY <1>3, <1>4

-----------------------------------------------------------------------------
(* The invariant *)

\* From the launch on the policy is the resolved one, and a registry that has a
\* shell goes with a policy without rules.
PolicyHeld ==
    /\ asked = 0 => touched = {} /\ \A x \in Loops : refused[x] = {}
    /\ asked # 0 => policy = ResolveScope(launch.manifest, launch.flags)
    /\ "run_command" \in registry.real => asked # 0 /\ ~ Active(policy)

TouchedAllowed == \A p \in touched : CanWrite(policy, p) = "allowed"

\* One loop's account is that of the paths R it was refused.
Exact(t, R) ==
    /\ t.denials \in Seq(ScopePaths) /\ R \subseteq ScopePaths /\ IsFiniteSet(R)
    /\ t.distinct = Cardinality(R)
    /\ IsInjective(t.denials) /\ ToSet(t.denials) \subseteq R
    /\ Len(t.denials) = Min({MaxNamed, t.distinct})

\* A loop that stops at the first off-scope write has none until it stops.
StopKept ==
    launch.stop = "off-scope-edit" =>
        /\ ~ halted => refused["run"] = {}
        /\ child => refused["child"] = {}
        /\ \A x \in Loops : refused[x] = {} \/ Len(tracker[x].denials) = 1

Accounted ==
    /\ tracker \in [Loops -> [denials : Seq(ScopePaths), distinct : Nat]]
    /\ refused \in [Loops -> SUBSET ScopePaths]
    /\ child \in BOOLEAN
    /\ \A x \in Loops : Exact(tracker[x], refused[x])
    /\ StopKept

ScopeInv ==
    /\ asked \in Nat /\ PolicyHeld /\ TouchedAllowed /\ Accounted

-----------------------------------------------------------------------------
(* The steps *)

LEMMA NothingExact == Exact(NoneYet, {}) /\ NoneYet \in [denials : Seq(ScopePaths), distinct : Nat]
  <1>1. Cardinality({}) = 0 /\ IsFiniteSet({})
    BY FS_EmptySet
  <1>2. 0 = Min({MaxNamed, 0})
    BY MinOfTwo, ScopeAssumption
  <1>3. IsInjective(<<>>) /\ ToSet(<<>>) = {}
    BY DEF IsInjective, ToSet
  <1> QED
    BY <1>1, <1>2, <1>3 DEF Exact, NoneYet

LEMMA InitScopeInv == ScopeInit => ScopeInv
  <1> SUFFICES ASSUME ScopeInit PROVE ScopeInv
    OBVIOUS
  <1>1. PolicyHeld /\ TouchedAllowed /\ asked \in Nat
    BY DEF ScopeInit, PolicyHeld, TouchedAllowed, NoTools
  <1>2. \A x \in Loops : tracker[x] = NoneYet /\ refused[x] = {}
    BY DEF ScopeInit
  <1>3. \A x \in Loops : Exact(tracker[x], refused[x])
    BY <1>2, NothingExact
  <1>4. StopKept
    BY <1>2 DEF ScopeInit, StopKept, Loops
  <1> QED
    BY <1>1, <1>3, <1>4, NothingExact DEF ScopeInit, ScopeInv, Accounted

\* A step that refuses nothing keeps the account.
LEMMA AccountKept ==
    ASSUME Accounted, UNCHANGED <<launch, tracker, refused>>, child' \in BOOLEAN,
           child' => child,
           launch.stop = "off-scope-edit" /\ ~ halted' => refused["run"] = {}
    PROVE  Accounted'
  BY DEF Accounted, StopKept

LEMMA LaunchScopeInv ==
    ASSUME ScopeInv, LaunchRun
    PROVE  ScopeInv'
  <1>1. PICK m \in Manifests, f \in Flags, patch \in BOOLEAN, stop \in Stops :
            /\ launch' = [manifest |-> m, flags |-> f, patch |-> patch, stop |-> stop]
            /\ policy' = ResolveScope(m, f)
            /\ registry' = DefaultRegistry(ResolveScope(m, f), patch)
    BY DEF LaunchRun
  <1>2. touched' = {} /\ asked' = 1 /\ \A x \in Loops : refused[x] = {} /\ refused'[x] = {}
    BY DEF LaunchRun, ScopeInv, PolicyHeld
  <1>3. "run_command" \in registry'.real => ~ Active(policy')
    BY <1>1 DEF DefaultRegistry, ShellDisabled, Offered
  <1>4. PolicyHeld'
    BY <1>1, <1>2, <1>3 DEF PolicyHeld
  <1>5. StopKept'
    BY <1>2 DEF StopKept, Loops
  <1>6. Accounted'
    BY <1>5 DEF LaunchRun, ScopeInv, Accounted
  <1> QED
    BY <1>2, <1>4, <1>6 DEF ScopeInv, TouchedAllowed

\* A refusal of a path: named or counted, once.
LEMMA RefusalExact ==
    ASSUME NEW path \in ScopePaths, NEW t \in [denials : Seq(ScopePaths), distinct : Nat],
           NEW u \in [denials : Seq(ScopePaths), distinct : Nat],
           NEW R, Exact(t, R), path \notin R,
           u.denials = IF Len(t.denials) < MaxNamed THEN Append(t.denials, path) ELSE t.denials,
           u.distinct = t.distinct + 1
    PROVE  Exact(u, R \cup {path}) /\ (R = {} => Len(u.denials) = 1)
  <1>1. /\ t.distinct \in Nat /\ Cardinality(R) = t.distinct /\ MaxNamed \in Nat \ {0}
        /\ R \subseteq ScopePaths /\ IsFiniteSet(R)
    BY ScopeAssumption DEF Exact
  <1>2. u.distinct = Cardinality(R \cup {path}) /\ IsFiniteSet(R \cup {path})
    BY <1>1, FS_AddElement
  <1>3. t.denials \in Seq(ScopePaths) /\ IsInjective(t.denials) /\ path \notin ToSet(t.denials)
    BY DEF Exact
  <1>4. /\ IsInjective(Append(t.denials, path))
        /\ ToSet(Append(t.denials, path)) = ToSet(t.denials) \cup {path}
    BY <1>3, AppendNew
  <1>5. IsInjective(u.denials) /\ ToSet(u.denials) \subseteq R \cup {path}
    BY <1>4 DEF Exact
  <1>6. Len(t.denials) = IF MaxNamed <= t.distinct THEN MaxNamed ELSE t.distinct
    BY <1>1, MinOfTwo DEF Exact
  <1>7. Len(u.denials) = IF MaxNamed <= t.distinct + 1 THEN MaxNamed ELSE t.distinct + 1
    BY <1>3, <1>6, <1>1
  <1>8. Len(u.denials) = Min({MaxNamed, u.distinct})
    BY <1>7, <1>1, MinOfTwo
  <1>9. R = {} => Len(u.denials) = 1
    <2> SUFFICES ASSUME R = {} PROVE Len(u.denials) = 1
      OBVIOUS
    <2>1. t.distinct = 0
      BY <1>1, FS_EmptySet
    <2>2. MaxNamed \in Nat /\ MaxNamed >= 1
      BY <1>1
    <2>3. Len(u.denials) = IF MaxNamed <= 1 THEN MaxNamed ELSE 1
      BY <1>7, <2>1
    <2>4. MaxNamed <= 1 => MaxNamed = 1
      BY ONLY <2>2
    <2> QED
      BY ONLY <2>3, <2>4
  <1> QED
    BY <1>1, <1>2, <1>5, <1>8, <1>9 DEF Exact

LEMMA RefusalAccounted ==
    ASSUME Accounted, NEW path \in ScopePaths, NEW class, Note(path), StopFor(class),
           ~ halted, refused' = [refused EXCEPT ![Actor] = @ \cup {path}], UNCHANGED launch
    PROVE  Accounted'
  <1> DEFINE a == Actor
             t == tracker[a]
             u == [denials  |-> IF Len(t.denials) < MaxNamed THEN Append(t.denials, path)
                                ELSE t.denials,
                   distinct |-> t.distinct + 1]
  <1>1. a \in Loops /\ (a = "run" <=> ~ child) /\ (a = "child" <=> child)
    BY DEF Actor, Loops, Accounted
  <1>2. /\ t \in [denials : Seq(ScopePaths), distinct : Nat] /\ Exact(t, refused[a])
        /\ refused[a] \subseteq ScopePaths
    BY <1>1 DEF Accounted
  <1>3. \A x \in Loops : refused'[x] = IF x = a THEN refused[x] \cup {path} ELSE refused[x]
    BY DEF Accounted
  <1>4. refused' \in [Loops -> SUBSET ScopePaths]
    BY <1>1, <1>2 DEF Accounted
  <1>5. launch.stop = "off-scope-edit" =>
            /\ refused[a] = {}
            /\ a = "run" => halted'
            /\ ~ child'
    BY <1>1 DEF Accounted, StopKept, StopFor, StopsOn
  <1>6. child' \in BOOLEAN
    BY DEF StopFor, Accounted
  <1>7. CASE path \in refused[a]
    <2>1. UNCHANGED <<tracker, refused>>
      <3>1. \A x \in Loops : refused'[x] = refused[x]
        BY <1>3, <1>7
      <3> QED
        BY <3>1, <1>4, <1>7 DEF Note, Accounted
    <2>2. launch.stop # "off-scope-edit"
      BY <1>5, <1>7
    <2> QED
      BY <2>1, <2>2, <1>6 DEF Accounted, StopKept
  <1>8. CASE path \notin refused[a]
    <2>1. tracker' = [tracker EXCEPT ![a] = u]
      BY <1>8 DEF Note
    <2>2. u \in [denials : Seq(ScopePaths), distinct : Nat]
      BY <1>2
    <2>3. Exact(u, refused[a] \cup {path}) /\ (refused[a] = {} => Len(u.denials) = 1)
      <3> HIDE DEF t
      <3>1. /\ u.denials = IF Len(t.denials) < MaxNamed THEN Append(t.denials, path) ELSE t.denials
            /\ u.distinct = t.distinct + 1
        OBVIOUS
      <3> HIDE DEF u
      <3> QED
        BY <3>1, <1>2, <1>8, <2>2, RefusalExact
    <2> HIDE DEF u
    <2>4. \A x \in Loops : tracker'[x] = IF x = a THEN u ELSE tracker[x]
      BY <2>1 DEF Accounted
    <2>5. \A x \in Loops : Exact(tracker'[x], refused'[x])
      BY <2>3, <2>4, <1>3 DEF Accounted
    <2>6. tracker' \in [Loops -> [denials : Seq(ScopePaths), distinct : Nat]]
      BY <2>1, <2>2 DEF Accounted
    <2>7. StopKept'
      <3> SUFFICES ASSUME launch.stop = "off-scope-edit"
                   PROVE  /\ ~ halted' => refused'["run"] = {}
                          /\ ~ child'
                          /\ \A x \in Loops : refused'[x] = {} \/ Len(tracker'[x].denials) = 1
        BY DEF StopKept
      <3>1. ~ halted' => refused'["run"] = {}
        BY <1>3, <1>5, <1>1 DEF Accounted, StopKept, Loops
      <3>2. \A x \in Loops : refused'[x] = {} \/ Len(tracker'[x].denials) = 1
        BY <1>3, <1>5, <2>3, <2>4 DEF Accounted, StopKept
      <3> QED
        BY <3>1, <3>2, <1>5
    <2> QED
      BY <2>5, <2>6, <2>7, <1>4, <1>6 DEF Accounted
  <1> QED
    BY <1>7, <1>8

\* A child's tools are among the run's.
LEMMA ToolsAreTheRuns == Tools.real \subseteq registry.real
  <1>1. WithoutTools(registry, {"task"}).real \subseteq registry.real
    BY DEF WithoutTools
  <1> QED
    BY <1>1 DEF Tools

LEMMA WriteScopeInv ==
    ASSUME ScopeInv, WriteTool
    PROVE  ScopeInv'
  <1>1. PICK tool \in Writers \cap Tools.real, path \in ScopePaths :
            /\ Calling
            /\ \/ CanWrite(policy, path) = "allowed" /\ Wrote({path})
                  /\ UNCHANGED <<child, tracker, halted, refused>>
               \/ /\ Note(path) /\ StopFor(CanWrite(policy, path))
                  /\ refused' = [refused EXCEPT ![Actor] = @ \cup {path}]
                  /\ UNCHANGED <<touched, tree>>
            /\ UNCHANGED <<launch, policy, mayWrite, registry>>
    BY DEF WriteTool
  <1>2. asked' \in Nat /\ asked # 0 /\ asked' # 0 /\ ~ halted
    BY <1>1 DEF Calling, ScopeInv
  <1>3. PolicyHeld'
    BY <1>1, <1>2 DEF ScopeInv, PolicyHeld
  <1>4. TouchedAllowed'
    BY <1>1 DEF ScopeInv, TouchedAllowed, Wrote
  <1>5. Accounted'
    <2>1. CASE UNCHANGED <<child, tracker, halted, refused>>
      BY <2>1, <1>1, AccountKept DEF ScopeInv, Accounted, StopKept
    <2>2. CASE /\ Note(path) /\ StopFor(CanWrite(policy, path))
               /\ refused' = [refused EXCEPT ![Actor] = @ \cup {path}]
      BY <2>2, <1>1, <1>2, RefusalAccounted DEF ScopeInv
    <2> QED
      BY <2>1, <2>2, <1>1
  <1> QED
    BY <1>2, <1>3, <1>4, <1>5 DEF ScopeInv

LEMMA ShellScopeInv ==
    ASSUME ScopeInv, RunShell
    PROVE  ScopeInv'
  <1>1. asked' \in Nat /\ asked # 0 /\ asked' # 0 /\ ~ halted
    BY DEF RunShell, Calling, ScopeInv
  <1>2. PolicyHeld'
    BY <1>1 DEF RunShell, ScopeInv, PolicyHeld
  <1>3. TouchedAllowed'
    <2>1. CASE "run_command" \in Tools.real
      BY <2>1, InactiveAllows, ToolsAreTheRuns DEF RunShell, ScopeInv, PolicyHeld, TouchedAllowed
    <2>2. CASE touched' = touched
      BY <2>2 DEF RunShell, ScopeInv, TouchedAllowed
    <2> QED
      BY <2>1, <2>2 DEF RunShell
  <1>4. launch.stop = "off-scope-edit" => refused["run"] = {}
    BY <1>1 DEF ScopeInv, Accounted, StopKept
  <1>5. child' \in BOOLEAN /\ (child' => child)
    BY DEF RunShell, StopFor, ScopeInv, Accounted
  <1>6. Accounted'
    BY <1>4, <1>5, AccountKept DEF RunShell, ScopeInv
  <1> QED
    BY <1>1, <1>2, <1>3, <1>6 DEF ScopeInv

LEMMA ChildScopeInv ==
    ASSUME ScopeInv, RunChild
    PROVE  ScopeInv'
  <1>1. asked' \in Nat /\ asked # 0 /\ asked' # 0
    BY DEF RunChild, Calling, ScopeInv
  <1>2. \A x \in Loops : /\ tracker'[x] = IF x = "child" THEN NoneYet ELSE tracker[x]
                         /\ refused'[x] = IF x = "child" THEN {} ELSE refused[x]
    BY DEF RunChild, ScopeInv, Accounted
  <1>3. PolicyHeld'
    BY <1>1 DEF RunChild, ScopeInv, PolicyHeld
  <1>4. TouchedAllowed'
    BY DEF RunChild, ScopeInv, TouchedAllowed
  <1>5. \A x \in Loops : Exact(tracker'[x], refused'[x])
    BY <1>2, NothingExact DEF ScopeInv, Accounted
  <1>6. StopKept'
    BY <1>2 DEF RunChild, ScopeInv, Accounted, StopKept, Loops
  <1>7. /\ tracker' \in [Loops -> [denials : Seq(ScopePaths), distinct : Nat]]
        /\ refused' \in [Loops -> SUBSET ScopePaths] /\ child' \in BOOLEAN
    BY NothingExact DEF RunChild, ScopeInv, Accounted
  <1> QED
    BY <1>1, <1>3, <1>4, <1>5, <1>6, <1>7 DEF ScopeInv, Accounted

LEMMA ReturnScopeInv ==
    ASSUME ScopeInv, ChildReturns
    PROVE  ScopeInv'
  <1>1. UNCHANGED <<launch, policy, registry, asked, touched, refused, tracker, halted>> /\ child' = FALSE
    BY DEF ChildReturns
  <1>2. Accounted'
    BY <1>1 DEF ScopeInv, Accounted, StopKept
  <1> QED
    BY <1>1, <1>2 DEF ScopeInv, PolicyHeld, TouchedAllowed

LEMMA StepScopeInv == ScopeInv /\ [ScopeNext]_scopeVars => ScopeInv'
  <1> SUFFICES ASSUME ScopeInv, [ScopeNext]_scopeVars PROVE ScopeInv'
    OBVIOUS
  <1>1. CASE UNCHANGED scopeVars
    BY <1>1 DEF scopeVars, ScopeInv, PolicyHeld, TouchedAllowed, Accounted, StopKept
  <1> QED
    BY <1>1, LaunchScopeInv, WriteScopeInv, ShellScopeInv, ChildScopeInv, ReturnScopeInv DEF ScopeNext

LEMMA InvariantOfScope == ScopeSpec => []ScopeInv
  BY InitScopeInv, StepScopeInv, PTL DEF ScopeSpec

-----------------------------------------------------------------------------
(* What follows *)

\* The invariant's policy is the operator's lists, so what it allows is inside.
LEMMA InvIsInside == ScopeInv => WritesStayInside
  <1> SUFFICES ASSUME ScopeInv, NEW p \in touched
               PROVE  /\ ~ Ruled("deny", p) /\ ~ Ruled("read_only", p)
                      /\ AllowList = <<>> \/ Ruled("allow", p)
    BY DEF WritesStayInside
  <1>1. policy = ResolveScope(launch.manifest, launch.flags)
    BY DEF ScopeInv, PolicyHeld
  <1>2. /\ \A k \in Keys : Ruled(k, p) <=> MatchesAny(policy[k], p)
        /\ AllowList = policy["allow"]
    BY <1>1 DEF ResolveScope, Ruled, AllowList, Keys
  <1>3. /\ ~ MatchesAny(policy.deny, p) /\ ~ MatchesAny(policy.read_only, p)
        /\ policy.allow = <<>> \/ MatchesAny(policy.allow, p)
    BY AllowedIsInside DEF ScopeInv, TouchedAllowed
  <1> QED
    BY <1>2, <1>3 DEF Keys

\* No sequence of calls, offered or hidden, of the run or of its child, writes
\* what the operator ruled out.
THEOREM ScopeIsKept == ScopeSpec => []WritesStayInside
  BY InvariantOfScope, InvIsInside, PTL

\* What the run's report names is what the scope refused the run, each path once,
\* all counted, and the same for a child's report, which nobody passes on.
THEOREM RefusalsAreReported == ScopeSpec => []RefusalsAreNamed
  <1>1. ScopeInv => RefusalsAreNamed
    <2> SUFFICES ASSUME ScopeInv, NEW x \in Loops
                 PROVE  /\ tracker[x].distinct = Cardinality(refused[x])
                        /\ IsInjective(tracker[x].denials) /\ ToSet(tracker[x].denials) \subseteq refused[x]
                        /\ Len(tracker[x].denials) = Min({MaxNamed, tracker[x].distinct})
                        /\ launch.stop = "off-scope-edit" /\ refused[x] # {} =>
                              /\ Len(tracker[x].denials) = 1
                              /\ IF x = "run" THEN halted ELSE ~ child
      BY DEF RefusalsAreNamed
    <2>1. Exact(tracker[x], refused[x])
      BY DEF ScopeInv, Accounted
    <2>2. launch.stop = "off-scope-edit" /\ refused[x] # {} =>
              Len(tracker[x].denials) = 1 /\ IF x = "run" THEN halted ELSE ~ child
      BY DEF ScopeInv, Accounted, StopKept, Loops
    <2> QED
      BY <2>1, <2>2 DEF Exact
  <1> QED
    BY <1>1, InvariantOfScope, PTL

\* Both: the property the run checks.
THEOREM ScopeIsSound == ScopeSpec => []ScopeHolds
  <1>1. WritesStayInside /\ RefusalsAreNamed => ScopeHolds
    BY DEF ScopeHolds
  <1> QED
    BY <1>1, ScopeIsKept, RefusalsAreReported, PTL

-----------------------------------------------------------------------------
(* The editing tools: texts and their lines *)

\* What a text is made of, and the texts; a body ends in a line break.
Pieces  == {OldName, NewName, NL, "no file", "refused"} \cup UNION {ToSet(t) : t \in Texts \cup Diffs}
AnyText == Seq(Pieces)
Ended   == {t \in AnyText : t = <<>> \/ t[Len(t)] = NL}
Blocks  == [search : Ended, replace : Ended]
Parsed  == [ok : BOOLEAN, blocks : Seq(Blocks)]

LEMMA GivenTexts ==
    Texts \cup Diffs \subseteq AnyText
  <1> SUFFICES ASSUME NEW t \in Texts \cup Diffs PROVE t \in AnyText
    OBVIOUS
  <1>1. t \in Seq(ToSet(t))
    BY EditingAssumption
  <1>2. ToSet(t) \subseteq Pieces
    BY DEF Pieces
  <1>3. \A S, R : S \subseteq R => Seq(S) \subseteq Seq(R)
    OBVIOUS
  <1> QED BY <1>1, <1>2, <1>3 DEF AnyText

LEMMA FixedTexts ==
    /\ NL \in Pieces /\ OldName \in Pieces /\ NewName \in Pieces
    /\ Gone \in AnyText /\ Refused \in AnyText /\ <<>> \in AnyText /\ <<OldName>> \in AnyText
    /\ <<NL>> \in AnyText /\ <<>> \in Ended
    /\ Gone # Refused /\ Gone \notin Ended /\ Refused \notin Ended /\ Gone # <<>> /\ Refused # <<>>
  <1>1. /\ NL \in Pieces /\ OldName \in Pieces /\ NewName \in Pieces
        /\ "no file" \in Pieces /\ "refused" \in Pieces
    BY DEF Pieces
  <1>2. NL # "no file" /\ NL # "refused"
    BY DEF NL
  <1>3. <<>> \in AnyText /\ \A p \in Pieces : <<p>> \in AnyText
    BY DEF AnyText
  <1>4. Gone \in AnyText /\ Refused \in AnyText /\ <<OldName>> \in AnyText /\ <<NL>> \in AnyText
    BY <1>1, <1>3 DEF Gone, Refused
  <1>5. Gone # Refused /\ Gone # <<>> /\ Refused # <<>>
    BY DEF Gone, Refused
  <1>6. /\ Len(Gone) = 1 /\ Gone[1] = "no file"
        /\ Len(Refused) = 1 /\ Refused[1] = "refused"
    BY DEF Gone, Refused
  <1>7. Gone \notin Ended /\ Refused \notin Ended
    BY <1>2, <1>5, <1>6 DEF Ended
  <1>8. <<>> \in Ended
    BY <1>3 DEF Ended
  <1> QED BY <1>1, <1>4, <1>3, <1>5, <1>7, <1>8

\* FlattenSeq puts its sequences together, the last one last.
Chain(f, s, n) == f = [i \in 1 .. n |-> IF i = 1 THEN s[i] ELSE f[i - 1] \o s[i]]

LEMMA ChainExists ==
    ASSUME NEW E, NEW n \in Nat, NEW s, \A i \in 1 .. n : s[i] \in Seq(E)
    PROVE  \E f : Chain(f, s, n)
  <1> DEFINE step == [i \in 1 .. n |-> [t \in Seq(E) |-> IF i = 1 THEN s[i] ELSE t \o s[i]]]
  <1>1. \A i \in 1 .. n : step[i] \in [Seq(E) -> Seq(E)]
    OBVIOUS
  <1>2. <<>> \in Seq(E)
    OBVIOUS
  <1>3. \A i \in 1 .. n : \A t \in Seq(E) : step[i][t] = IF i = 1 THEN s[i] ELSE t \o s[i]
    OBVIOUS
  <1> HIDE DEF step
  <1>4. PICK f \in [0 .. n -> Seq(E)] : Runs(f, <<>>, step, n)
    BY <1>1, <1>2, RunningValues, Zenon
  <1> DEFINE g == [i \in 1 .. n |-> f[i]]
  <1>5. ASSUME NEW i \in 1 .. n PROVE g[i] = IF i = 1 THEN s[i] ELSE g[i - 1] \o s[i]
    <2>1. f[i] = step[i][f[i - 1]]
      BY <1>4 DEF Runs
    <2>2. i - 1 \in 0 .. n
      OBVIOUS
    <2>3. f[i - 1] \in Seq(E)
      BY <1>4, <2>2
    <2>4. f[i] = IF i = 1 THEN s[i] ELSE f[i - 1] \o s[i]
      BY <1>3, <2>1, <2>3
    <2>5. i # 1 => g[i - 1] = f[i - 1]
      OBVIOUS
    <2> QED BY <2>4, <2>5
  <1>6. g = [i \in 1 .. n |-> IF i = 1 THEN s[i] ELSE g[i - 1] \o s[i]]
    <2>1. g = [i \in 1 .. n |-> g[i]]
      OBVIOUS
    <2> HIDE DEF g
    <2> QED BY <1>5, <2>1
  <1> QED BY <1>6 DEF Chain

LEMMA ChainIs ==
    ASSUME NEW E, NEW n \in Nat, n >= 1, NEW s, \A i \in 1 .. n : s[i] \in Seq(E),
           NEW h, Chain(h, s, n)
    PROVE  h[n] \in Seq(E) /\ \E t \in Seq(E) : h[n] = t \o s[n]
  <1>1. \A i \in 1 .. n : h[i] = IF i = 1 THEN s[i] ELSE h[i - 1] \o s[i]
    BY DEF Chain
  <1> DEFINE S == {i \in 1 .. n : h[i] \in Seq(E)}
  <1>2. 1 \in S
    BY <1>1
  <1>3. ASSUME NEW i \in 1 .. (n - 1), i \in S PROVE i + 1 \in S
    <2>0. i + 1 \in 1 .. n /\ i + 1 # 1 /\ (i + 1) - 1 = i /\ i \in 1 .. n
      OBVIOUS
    <2>1. h[i + 1] = h[i] \o s[i + 1]
      BY <1>1, <2>0
    <2>2. h[i] \in Seq(E) /\ s[i + 1] \in Seq(E)
      BY <1>3, <2>0
    <2>3. h[i + 1] \in Seq(E)
      BY <2>1, <2>2
    <2> QED BY <2>0, <2>3
  <1> HIDE DEF S
  <1>4. 1 .. n \subseteq S
    <2>1. 1 \in Int /\ n \in Int
      OBVIOUS
    <2> QED BY <1>2, <1>3, <2>1, IntervalInduction, Zenon
  <1>5. \A i \in 1 .. n : h[i] \in Seq(E)
    BY <1>4 DEF S
  <1>6. CASE n = 1
    <2>0. n \in 1 .. n
      OBVIOUS
    <2>1. s[n] \in Seq(E) /\ h[n] = s[n]
      BY <1>1, <1>6, <2>0
    <2>2. s[n] = <<>> \o s[n] /\ <<>> \in Seq(E)
      BY <2>1
    <2> QED BY <2>1, <2>2
  <1>7. CASE n # 1
    <2>0. n \in 1 .. n /\ n - 1 \in 1 .. n
      BY <1>7
    <2>1. h[n] = h[n - 1] \o s[n] /\ h[n - 1] \in Seq(E) /\ h[n] \in Seq(E)
      BY <1>1, <1>5, <1>7, <2>0
    <2> QED BY <1>5, <2>1
  <1> QED BY <1>6, <1>7

LEMMA Flattened ==
    ASSUME NEW E, NEW s \in Seq(Seq(E)), s # <<>>
    PROVE  /\ FlattenSeq(s) \in Seq(E)
           /\ \E t \in Seq(E) : FlattenSeq(s) = t \o s[Len(s)]
  <1>1. Len(s) \in Nat /\ Len(s) >= 1 /\ \A i \in 1 .. Len(s) : s[i] \in Seq(E)
    OBVIOUS
  <1>2. \E f : Chain(f, s, Len(s))
    BY <1>1, ChainExists, Zenon
  <1>3. PICK h : Chain(h, s, Len(s)) /\ FlattenSeq(s) = h[Len(s)]
    <2> DEFINE g == CHOOSE f : Chain(f, s, Len(s))
    <2>1. Chain(g, s, Len(s))
      BY <1>2, Zenon
    <2>2. FlattenSeq(s) = g[Len(s)]
      BY <1>1 DEF FlattenSeq, Chain
    <2> QED BY <2>1, <2>2, Zenon
  <1>4. h[Len(s)] \in Seq(E) /\ \E t \in Seq(E) : h[Len(s)] = t \o s[Len(s)]
    BY <1>1, <1>3, ChainIs
  <1> QED BY <1>3, <1>4

LEMMA BodyEnds ==
    ASSUME NEW lines \in AnyText
    PROVE  Body(lines) \in Ended
  <1> DEFINE s == [i \in DOMAIN lines |-> IF lines[i] = "blank" THEN <<NL>> ELSE <<lines[i], NL>>]
  <1>0. Len(lines) \in Nat /\ DOMAIN lines = 1 .. Len(lines) /\ \A i \in 1 .. Len(lines) : lines[i] \in Pieces
    BY DEF AnyText
  <1>1. ASSUME NEW i \in 1 .. Len(lines)
        PROVE  s[i] \in AnyText /\ s[i] # <<>> /\ s[i][Len(s[i])] = NL
    <2>0. NL \in Pieces /\ lines[i] \in Pieces
      BY <1>0, FixedTexts
    <2>1. CASE lines[i] = "blank"
      <3>1. s[i] = <<NL>>
        BY <1>0, <2>1
      <3> QED BY <3>1, FixedTexts
    <2>2. CASE lines[i] # "blank"
      <3>1. s[i] = <<lines[i], NL>>
        BY <1>0, <2>2
      <3> QED BY <2>0, <3>1 DEF AnyText
    <2> QED BY <2>1, <2>2
  <1>2. Body(lines) = FlattenSeq(s)
    BY DEF Body
  <1>3. s \in Seq(Seq(Pieces)) /\ Len(s) = Len(lines)
    <2>1. s = [i \in 1 .. Len(lines) |-> s[i]]
      BY <1>0
    <2> HIDE DEF s
    <2> QED BY <1>0, <1>1, <2>1 DEF AnyText
  <1> HIDE DEF s
  <1>4. CASE s = <<>>
    <2>1. FlattenSeq(s) = <<>>
      BY <1>4 DEF FlattenSeq
    <2> QED BY <1>2, <2>1, FixedTexts
  <1>5. CASE s # <<>>
    <2>1. PICK t \in Seq(Pieces) : FlattenSeq(s) = t \o s[Len(s)]
      BY <1>3, <1>5, Flattened, Zenon
    <2>2. FlattenSeq(s) \in Seq(Pieces)
      BY <1>3, <1>5, Flattened, Zenon
    <2>3. Len(s) \in 1 .. Len(lines)
      BY <1>3, <1>5
    <2> DEFINE e == s[Len(s)]
    <2>4. e \in Seq(Pieces) /\ e # <<>> /\ e[Len(e)] = NL
      BY <1>1, <2>3 DEF AnyText
    <2>5. FlattenSeq(s) = t \o e
      BY <2>1
    <2> HIDE DEF e
    <2>6. (t \o e)[Len(t \o e)] = NL
      BY <2>4
    <2> QED BY <1>2, <2>2, <2>5, <2>6 DEF Ended, AnyText
  <1> QED BY <1>4, <1>5
LEMMA NextIs ==
    ASSUME NEW lines \in AnyText, NEW i \in Nat, NEW kinds
    PROVE  /\ NextOf(lines, i, kinds) \in 0 .. Len(lines)
           /\ NextOf(lines, i, kinds) # 0 => NextOf(lines, i, kinds) \in i .. Len(lines)
  <1> DEFINE at == {j \in i .. Len(lines) : lines[j] \in kinds}
  <1>1. at \subseteq Nat /\ \A j \in at : j \in i .. Len(lines)
    OBVIOUS
  <1>2. NextOf(lines, i, kinds) = IF at = {} THEN 0 ELSE Min(at)
    BY DEF NextOf
  <1>3. Len(lines) \in Nat
    BY DEF AnyText
  <1> HIDE DEF at
  <1>4. CASE at = {}
    BY <1>2, <1>3, <1>4
  <1>5. CASE at # {}
    <2>1. Min(at) \in i .. Len(lines)
      BY <1>1, <1>5, LeastIn
    <2>2. i .. Len(lines) \subseteq 0 .. Len(lines)
      OBVIOUS
    <2> QED BY <1>2, <1>5, <2>1, <2>2
  <1> QED BY <1>4, <1>5

LEMMA BlockIs ==
    ASSUME NEW lines \in AnyText, NEW s \in Nat, NEW d \in Nat, NEW r \in Nat,
           d <= Len(lines) + 1, r <= Len(lines) + 1
    PROVE  Block(lines, s, d, r) \in Blocks
  <1>1. SubSeq(lines, s + 1, d - 1) \in AnyText /\ SubSeq(lines, d + 1, r - 1) \in AnyText
    BY DEF AnyText
  <1>2. Body(SubSeq(lines, s + 1, d - 1)) \in Ended /\ Body(SubSeq(lines, d + 1, r - 1)) \in Ended
    BY <1>1, BodyEnds
  <1> QED BY <1>2 DEF Block, Blocks

LEMMA UnfencedIs ==
    ASSUME NEW lines \in AnyText
    PROVE  Unfenced(lines) \in AnyText
  <1> DEFINE n == Len(lines)
             Eqn(f) == f = [i \in 0 .. n |-> IF i = 0 THEN <<>> ELSE IF lines[i] = "fence" THEN f[i - 1]
                                                                  ELSE Append(f[i - 1], lines[i])]
             step == [i \in 1 .. n |-> [t \in AnyText |-> IF lines[i] = "fence" THEN t
                                                          ELSE Append(t, lines[i])]]
  <1>1. n \in Nat /\ \A i \in 1 .. n : lines[i] \in Pieces
    BY DEF AnyText
  <1>2. <<>> \in AnyText /\ \A t \in AnyText : \A p \in Pieces : Append(t, p) \in AnyText
    BY DEF AnyText
  <1>3. \A i \in 1 .. n : step[i] \in [AnyText -> AnyText]
    BY <1>1, <1>2
  <1>4. \A i \in 1 .. n : \A t \in AnyText :
            step[i][t] = IF lines[i] = "fence" THEN t ELSE Append(t, lines[i])
    OBVIOUS
  <1> HIDE DEF step, n
  <1>5. PICK f \in [0 .. n -> AnyText] : Runs(f, <<>>, step, n)
    BY <1>1, <1>2, <1>3, RunningValues, Zenon
  <1>6. ASSUME NEW i \in 1 .. n
        PROVE  f[i] = IF lines[i] = "fence" THEN f[i - 1] ELSE Append(f[i - 1], lines[i])
    <2>a. i \in 0 .. n /\ i # 0
      BY <1>1
    <2>0. i \in 0 .. n /\ i # 0 /\ f = [j \in 0 .. n |-> IF j = 0 THEN <<>> ELSE step[j][f[j - 1]]]
      BY <1>5, <2>a, Zenon DEF Runs
    <2>1. f[i] = step[i][f[i - 1]]
      BY <2>0
    <2>2. i - 1 \in 0 .. n
      BY <1>1
    <2>3. f[i - 1] \in AnyText
      BY <1>5, <2>2
    <2> QED BY <1>4, <2>1, <2>3
  <1>7. f[0] = <<>>
    BY <1>1, <1>5 DEF Runs
  <1>8. Eqn(f)
    <2>1. \A i \in 0 .. n : f[i] = IF i = 0 THEN <<>> ELSE IF lines[i] = "fence" THEN f[i - 1]
                                                       ELSE Append(f[i - 1], lines[i])
      <3>1. \A i \in 0 .. n : i = 0 \/ (i \in 1 .. n /\ i # 0)
        BY <1>1
      <3> QED BY <1>6, <1>7, <3>1
    <2> QED BY <1>5, <2>1
  <1>9. PICK h : Eqn(h) /\ Unfenced(lines) = h[n]
    <2> DEFINE g == CHOOSE k : Eqn(k)
    <2>1. Eqn(g)
      BY <1>8, Zenon
    <2>2. Unfenced(lines) = g[n]
      BY DEF Unfenced, n
    <2> QED BY <2>1, <2>2, Zenon
  <1>10. h[0] = <<>>
         /\ \A i \in 1 .. n : h[i] = IF lines[i] = "fence" THEN h[i - 1] ELSE Append(h[i - 1], lines[i])
    <2>1. 0 \in 0 .. n /\ \A i \in 1 .. n : i \in 0 .. n /\ i # 0
      BY <1>1
    <2> QED BY <1>9, <2>1
  <1> DEFINE S == {i \in 0 .. n : h[i] \in AnyText}
  <1>11. 0 \in S
    BY <1>1, <1>2, <1>10
  <1>12. ASSUME NEW i \in 0 .. (n - 1), i \in S PROVE i + 1 \in S
    <2>1. i + 1 \in 1 .. n /\ (i + 1) - 1 = i /\ i + 1 \in 0 .. n
      BY <1>1
    <2>2. h[i] \in AnyText /\ lines[i + 1] \in Pieces
      BY <1>1, <1>12, <2>1
    <2>3. h[i + 1] \in AnyText
      BY <1>2, <1>10, <2>1, <2>2
    <2> QED BY <2>1, <2>3
  <1> HIDE DEF S
  <1>13. 0 .. n \subseteq S
    <2>1. 0 \in Int /\ n \in Int
      BY <1>1
    <2> QED BY <1>11, <1>12, <2>1, IntervalInduction, Zenon
  <1>14. n \in S
    BY <1>1, <1>13
  <1> QED BY <1>9, <1>14 DEF S

\* What a parser does at a line: it is done, it goes on at a later line, or it adds a
\* block to what it finds from a later line on.
At(c, F) ==
    IF c.kind = "done" THEN c.result
    ELSE IF c.kind = "skip" THEN F[c.on] ELSE Followed(c.block, F[c.on])
Does(c, i, m) ==
    \/ c.kind = "done" /\ c.result \in Parsed
    \/ c.kind = "skip" /\ c.on \in (i + 1) .. m
    \/ c.kind = "block" /\ c.on \in (i + 1) .. m /\ c.block \in Blocks

LEMMA FollowedIs ==
    ASSUME NEW b \in Blocks, NEW rest \in Parsed
    PROVE  Followed(b, rest) \in Parsed
  <1>1. rest.ok \in BOOLEAN /\ rest.blocks \in Seq(Blocks)
    BY DEF Parsed
  <1>2. <<b>> \o rest.blocks \in Seq(Blocks)
    BY <1>1
  <1> DEFINE more == IF rest.ok THEN <<b>> \o rest.blocks ELSE rest.blocks
  <1>3. more \in Seq(Blocks)
    BY <1>1, <1>2
  <1>4. Followed(b, rest) = [rest EXCEPT !.blocks = more]
    BY DEF Followed
  <1> HIDE DEF more
  <1> QED BY <1>3, <1>4 DEF Parsed

LEMMA AtIs ==
    ASSUME NEW m \in Nat, NEW i \in 1 .. m, NEW c, Does(c, i, m), NEW F,
           \A j \in (i + 1) .. m : F[j] \in Parsed
    PROVE  At(c, F) \in Parsed
  <1>1. CASE c.kind = "done" /\ c.result \in Parsed
    BY <1>1 DEF At
  <1>2. CASE c.kind = "skip" /\ c.on \in (i + 1) .. m
    BY <1>2 DEF At
  <1>3. CASE c.kind = "block" /\ c.on \in (i + 1) .. m /\ c.block \in Blocks
    <2>1. At(c, F) = Followed(c.block, F[c.on])
      BY <1>3 DEF At
    <2>2. F[c.on] \in Parsed
      BY <1>3
    <2> QED BY <1>3, <2>1, <2>2, FollowedIs
  <1> QED BY <1>1, <1>2, <1>3 DEF Does

\* Such a parser reads every text, and returns blocks or none.
LEMMA ParserIs ==
    ASSUME NEW m \in Nat, NEW c, \A i \in 1 .. m : Does(c[i], i, m)
    PROVE  /\ \E F : F = [i \in 1 .. m |-> At(c[i], F)]
           /\ \A F : F = [i \in 1 .. m |-> At(c[i], F)] => \A i \in 1 .. m : F[i] \in Parsed
  <1> DEFINE step == [i \in 1 .. m |-> [h \in [(i + 1) .. m -> Parsed] |-> At(c[i], h)]]
  <1>1. ASSUME NEW i \in 1 .. m PROVE step[i] \in [[(i + 1) .. m -> Parsed] -> Parsed]
    <2>1. ASSUME NEW h \in [(i + 1) .. m -> Parsed] PROVE At(c[i], h) \in Parsed
      <3>1. Does(c[i], i, m) /\ \A j \in (i + 1) .. m : h[j] \in Parsed
        OBVIOUS
      <3> HIDE DEF step
      <3> QED BY <3>1, AtIs
    <2>2. step[i] = [h \in [(i + 1) .. m -> Parsed] |-> At(c[i], h)]
      OBVIOUS
    <2> HIDE DEF step
    <2> QED BY <2>1, <2>2
  <1>2. \A i \in 1 .. m : \A h \in [(i + 1) .. m -> Parsed] : step[i][h] = At(c[i], h)
    OBVIOUS
  <1> HIDE DEF step
  <1>0. Backward(step, Parsed, m)
    BY <1>1 DEF Backward
  <1>3. PICK F \in [1 .. m -> Parsed] : RunsBack(F, step, m)
    BY <1>0, DownwardValues, Zenon
  <1>4. ASSUME NEW i \in 1 .. m PROVE F[i] = At(c[i], F)
    <2> DEFINE h == Later(F, i, m)
    <2>1. h \in [(i + 1) .. m -> Parsed] /\ \A j \in (i + 1) .. m : h[j] = F[j]
      <3>1. \A j \in (i + 1) .. m : j \in 1 .. m
        OBVIOUS
      <3> QED BY <1>3, <3>1 DEF Later
    <2>2. F[i] = step[i][h]
      BY <1>3 DEF RunsBack
    <2> HIDE DEF h
    <2>3. F[i] = At(c[i], h)
      BY <1>2, <2>1, <2>2
    <2>4. At(c[i], h) = At(c[i], F)
      BY <2>1 DEF At, Does
    <2> QED BY <2>3, <2>4
  <1>5. F = [i \in 1 .. m |-> At(c[i], F)]
    BY <1>3, <1>4
  <1>6. ASSUME NEW G, G = [i \in 1 .. m |-> At(c[i], G)] PROVE \A i \in 1 .. m : G[i] \in Parsed
    <2> DEFINE S == {i \in 1 .. m : G[i] \in Parsed}
    <2>1. ASSUME NEW i \in 1 .. m, \A j \in (i + 1) .. m : j \in S PROVE i \in S
      <3>1. \A j \in (i + 1) .. m : G[j] \in Parsed
        BY <2>1
      <3>2. G[i] = At(c[i], G)
        BY <1>6
      <3>3. G[i] \in Parsed
        BY <3>1, <3>2, AtIs
      <3> QED BY <3>3
    <2> HIDE DEF S
    <2>2. 1 .. m \subseteq S
      BY <2>1, DownwardHolds
    <2> QED BY <2>2 DEF S
  <1> QED BY <1>5, <1>6
NoBlocks == [ok |-> TRUE, blocks |-> <<>>]

LEMMA Results == NoBlocks \in Parsed /\ Malformed \in Parsed
  <1>1. <<>> \in Seq(Blocks)
    OBVIOUS
  <1> QED BY <1>1 DEF NoBlocks, Malformed, Parsed

\* The two parsers, at one line.
StrictAt(F, lines, i) ==
    LET n == Len(lines)
        d == NextOf(lines, i + 2, EditMarkers)
        r == NextOf(lines, d + 1, EditMarkers)
    IN IF i > n THEN [ok |-> TRUE, blocks |-> <<>>]
       ELSE IF ~ (lines[i] = "fence" /\ i < n /\ lines[i + 1] = "search") THEN F[i + 1]
       ELSE IF \/ i = 1
               \/ lines[i - 1] \in EditMarkers \cup {"fence", "blank"}
               \/ d = 0 \/ (d # 0 /\ lines[d] # "div")
               \/ r = 0 \/ (r # 0 /\ lines[r] # "repl")
               \/ r = n \/ (r \in 1 .. n - 1 /\ lines[r + 1] # "fence")
            THEN Malformed
       ELSE Followed(Block(lines, i + 1, d, r), F[r + 2])
BareAt(F, lines, s) ==
    LET n == Len(lines)
        d == NextOf(lines, s + 1, EditMarkers)
        r == NextOf(lines, d + 1, EditMarkers)
        next == NextOf(lines, d + 1, {"search"})
        end == IF next = 0 THEN n + 1 ELSE next
        drop == IF end > d + 1 /\ lines[end - 1] = "blank" THEN 1 ELSE 0
    IN IF s > n THEN [ok |-> TRUE, blocks |-> <<>>]
       ELSE IF lines[s] # "search" THEN F[s + 1]
       ELSE IF d = 0 \/ (d # 0 /\ lines[d] = "search") THEN Malformed
       ELSE IF lines[d] = "repl"
            THEN Followed(Block(lines, s, d, end - drop), F[end])
       ELSE IF r = 0 \/ (r # 0 /\ lines[r] # "repl") THEN Malformed
       ELSE Followed(Block(lines, s, d, r), F[r + 1])

\* The three things a parser may do, as values.
LEMMA DoneDoes ==
    ASSUME NEW m, NEW i, NEW v \in Parsed
    PROVE  \E c : Does(c, i, m) /\ \A F : At(c, F) = v
  <1> DEFINE c == [kind |-> "done", result |-> v]
  <1>1. c.kind = "done" /\ c.result = v
    OBVIOUS
  <1> HIDE DEF c
  <1> QED BY <1>1 DEF Does, At

LEMMA SkipDoes ==
    ASSUME NEW m, NEW i, NEW j \in (i + 1) .. m
    PROVE  \E c : Does(c, i, m) /\ \A F : At(c, F) = F[j]
  <1> DEFINE c == [kind |-> "skip", on |-> j]
  <1>1. c.kind = "skip" /\ c.on = j
    OBVIOUS
  <1> HIDE DEF c
  <1> QED BY <1>1 DEF Does, At

Adds(c, b, j) == \A F : At(c, F) = Followed(b, F[j])

LEMMA BlockDoes ==
    ASSUME NEW m, NEW i, NEW j \in (i + 1) .. m, NEW b \in Blocks
    PROVE  \E c : Does(c, i, m) /\ Adds(c, b, j)
  <1> DEFINE c == [kind |-> "block", on |-> j, block |-> b]
  <1>1. c.kind = "block" /\ c.on = j /\ c.block = b
    OBVIOUS
  <1> HIDE DEF c
  <1> QED BY <1>1 DEF Does, At, Adds

LEMMA StrictDoes ==
    ASSUME NEW lines \in AnyText, NEW i \in 1 .. (Len(lines) + 1)
    PROVE  \E c : Does(c, i, Len(lines) + 1) /\ \A F : At(c, F) = StrictAt(F, lines, i)
  <1> DEFINE n == Len(lines)
             d == NextOf(lines, i + 2, EditMarkers)
             r == NextOf(lines, d + 1, EditMarkers)
             opens == lines[i] = "fence" /\ i < n /\ lines[i + 1] = "search"
             broken == \/ i = 1
                       \/ lines[i - 1] \in EditMarkers \cup {"fence", "blank"}
                       \/ d = 0 \/ (d # 0 /\ lines[d] # "div")
                       \/ r = 0 \/ (r # 0 /\ lines[r] # "repl")
                       \/ r = n \/ (r \in 1 .. n - 1 /\ lines[r + 1] # "fence")
             b == Block(lines, i + 1, d, r)
  <1>1. n \in Nat /\ i \in Nat
    BY DEF AnyText
  <1>2. d \in 0 .. n /\ (d # 0 => d \in (i + 2) .. n)
    <2>1. i + 2 \in Nat
      BY <1>1
    <2> HIDE DEF d
    <2> QED BY <2>1, NextIs DEF d
  <1>3. r \in 0 .. n /\ (r # 0 => r \in (d + 1) .. n)
    <2>1. d + 1 \in Nat
      BY <1>2
    <2> HIDE DEF d
    <2> QED BY <2>1, NextIs
  <1>4. \A F : StrictAt(F, lines, i) =
           IF i > n THEN NoBlocks ELSE IF ~ opens THEN F[i + 1]
           ELSE IF broken THEN Malformed ELSE Followed(b, F[r + 2])
    BY DEF StrictAt, NoBlocks
  <1>5. broken \/ (d # 0 /\ r # 0 /\ r # n)
    OBVIOUS
  <1>6. i <= n => i + 1 \in (i + 1) .. (n + 1)
    BY <1>1
  <1>7. d # 0 /\ r # 0 /\ r # n => r + 2 \in (i + 1) .. (n + 1) /\ b \in Blocks
    <2> SUFFICES ASSUME d # 0, r # 0, r # n PROVE r + 2 \in (i + 1) .. (n + 1) /\ b \in Blocks
      OBVIOUS
    <2> HIDE DEF d, r
    <2>1. i + 1 \in Nat /\ d \in Nat /\ r \in Nat /\ d <= n + 1 /\ r <= n + 1
      BY <1>1, <1>2, <1>3
    <2>2. b \in Blocks
      BY <2>1, BlockIs
    <2>3. r + 2 \in (i + 1) .. (n + 1)
      BY <1>1, <1>2, <1>3
    <2> QED BY <2>2, <2>3
  <1> HIDE DEF d, r, opens, broken, b, n
  <1> SUFFICES \E c : Does(c, i, n + 1) /\ \A F : At(c, F) = StrictAt(F, lines, i)
    BY DEF n
  <1>8. CASE i > n
    <2>1. \A F : StrictAt(F, lines, i) = NoBlocks
      BY <1>4, <1>8
    <2>3. PICK c : Does(c, i, n + 1) /\ \A F : At(c, F) = NoBlocks
      BY Results, DoneDoes, Zenon
    <2> QED BY <2>1, <2>3, Zenon
  <1>9. CASE ~ (i > n) /\ ~ opens
    <2>1. \A F : StrictAt(F, lines, i) = F[i + 1]
      BY <1>4, <1>9
    <2>2. i + 1 \in (i + 1) .. (n + 1)
      BY <1>1, <1>6, <1>9
    <2>3. PICK c : Does(c, i, n + 1) /\ \A F : At(c, F) = F[i + 1]
      BY <2>2, SkipDoes, Zenon
    <2> QED BY <2>1, <2>3, Zenon
  <1>10. CASE ~ (i > n) /\ opens /\ broken
    <2>1. \A F : StrictAt(F, lines, i) = Malformed
      BY <1>4, <1>10
    <2>3. PICK c : Does(c, i, n + 1) /\ \A F : At(c, F) = Malformed
      BY Results, DoneDoes, Zenon
    <2> QED BY <2>1, <2>3, Zenon
  <1>11. CASE ~ (i > n) /\ opens /\ ~ broken
    <2>1. \A F : StrictAt(F, lines, i) = Followed(b, F[r + 2])
      BY <1>4, <1>11
    <2>2. r + 2 \in (i + 1) .. (n + 1) /\ b \in Blocks
      BY <1>5, <1>7, <1>11
    <2>3. PICK c : Does(c, i, n + 1) /\ Adds(c, b, r + 2)
      BY <2>2, BlockDoes, Zenon
    <2> QED BY <2>1, <2>3, Zenon DEF Adds
  <1> QED BY <1>8, <1>9, <1>10, <1>11
LEMMA BareDoes ==
    ASSUME NEW lines \in AnyText, NEW i \in 1 .. (Len(lines) + 1)
    PROVE  \E c : Does(c, i, Len(lines) + 1) /\ \A F : At(c, F) = BareAt(F, lines, i)
  <1> DEFINE n == Len(lines)
             d == NextOf(lines, i + 1, EditMarkers)
             r == NextOf(lines, d + 1, EditMarkers)
             next == NextOf(lines, d + 1, {"search"})
             end == IF next = 0 THEN n + 1 ELSE next
             drop == IF end > d + 1 /\ lines[end - 1] = "blank" THEN 1 ELSE 0
             opens == lines[i] = "search"
             broken == d = 0 \/ (d # 0 /\ lines[d] = "search")
             short == lines[d] = "repl"
             open == r = 0 \/ (r # 0 /\ lines[r] # "repl")
             b == Block(lines, i, d, end - drop)
             e == Block(lines, i, d, r)
  <1>1. n \in Nat /\ i \in Nat
    BY DEF AnyText
  <1>2. d \in 0 .. n /\ (d # 0 => d \in (i + 1) .. n)
    <2>1. i + 1 \in Nat
      BY <1>1
    <2> HIDE DEF d
    <2> QED BY <2>1, NextIs DEF d
  <1>3. /\ r \in 0 .. n /\ (r # 0 => r \in (d + 1) .. n)
        /\ next \in 0 .. n /\ (next # 0 => next \in (d + 1) .. n)
    <2>1. d + 1 \in Nat
      BY <1>2
    <2> HIDE DEF d
    <2> QED BY <2>1, NextIs
  <1>4. \A F : BareAt(F, lines, i) =
           IF i > n THEN NoBlocks ELSE IF ~ opens THEN F[i + 1]
           ELSE IF broken THEN Malformed
           ELSE IF short THEN Followed(b, F[end])
           ELSE IF open THEN Malformed ELSE Followed(e, F[r + 1])
    BY DEF BareAt, NoBlocks
  <1>5. (broken \/ d # 0) /\ (open \/ r # 0)
    OBVIOUS
  <1>6. i <= n => i + 1 \in (i + 1) .. (n + 1)
    BY <1>1
  <1>7. d # 0 => end \in (i + 1) .. (n + 1) /\ b \in Blocks
    <2> SUFFICES ASSUME d # 0 PROVE end \in (i + 1) .. (n + 1) /\ b \in Blocks
      OBVIOUS
    <2> HIDE DEF d, next
    <2>1. end \in (d + 1) .. (n + 1)
      BY <1>1, <1>2, <1>3
    <2> HIDE DEF end
    <2>2. drop \in {0, 1} /\ end - drop \in Nat /\ end - drop <= n + 1
      BY <1>1, <1>2, <2>1
    <2> HIDE DEF drop
    <2>3. i \in Nat /\ d \in Nat /\ d <= n + 1
      BY <1>1, <1>2
    <2>4. b \in Blocks
      BY <2>2, <2>3, BlockIs
    <2>5. end \in (i + 1) .. (n + 1)
      BY <1>1, <1>2, <2>1
    <2> QED BY <2>4, <2>5
  <1>8. d # 0 /\ r # 0 => r + 1 \in (i + 1) .. (n + 1) /\ e \in Blocks
    <2> SUFFICES ASSUME d # 0, r # 0 PROVE r + 1 \in (i + 1) .. (n + 1) /\ e \in Blocks
      OBVIOUS
    <2> HIDE DEF d, r
    <2>1. i \in Nat /\ d \in Nat /\ r \in Nat /\ d <= n + 1 /\ r <= n + 1
      BY <1>1, <1>2, <1>3
    <2>2. e \in Blocks
      BY <2>1, BlockIs
    <2>3. r + 1 \in (i + 1) .. (n + 1)
      BY <1>1, <1>2, <1>3
    <2> QED BY <2>2, <2>3
  <1> HIDE DEF d, r, next, end, drop, opens, broken, short, open, b, e, n
  <1> SUFFICES \E c : Does(c, i, n + 1) /\ \A F : At(c, F) = BareAt(F, lines, i)
    BY DEF n
  <1>9. CASE i > n
    <2>1. \A F : BareAt(F, lines, i) = NoBlocks
      BY <1>4, <1>9
    <2>2. PICK c : Does(c, i, n + 1) /\ \A F : At(c, F) = NoBlocks
      BY Results, DoneDoes, Zenon
    <2> QED BY <2>1, <2>2, Zenon
  <1>10. CASE ~ (i > n) /\ ~ opens
    <2>1. \A F : BareAt(F, lines, i) = F[i + 1]
      BY <1>4, <1>10
    <2>2. i + 1 \in (i + 1) .. (n + 1)
      BY <1>1, <1>6, <1>10
    <2>3. PICK c : Does(c, i, n + 1) /\ \A F : At(c, F) = F[i + 1]
      BY <2>2, SkipDoes, Zenon
    <2> QED BY <2>1, <2>3, Zenon
  <1>11. CASE ~ (i > n) /\ opens /\ (broken \/ (~ short /\ open))
    <2>1. \A F : BareAt(F, lines, i) = Malformed
      BY <1>4, <1>11
    <2>2. PICK c : Does(c, i, n + 1) /\ \A F : At(c, F) = Malformed
      BY Results, DoneDoes, Zenon
    <2> QED BY <2>1, <2>2, Zenon
  <1>12. CASE ~ (i > n) /\ opens /\ ~ broken /\ short
    <2>1. \A F : BareAt(F, lines, i) = Followed(b, F[end])
      BY <1>4, <1>12
    <2>2. end \in (i + 1) .. (n + 1) /\ b \in Blocks
      BY <1>5, <1>7, <1>12
    <2>3. PICK c : Does(c, i, n + 1) /\ Adds(c, b, end)
      BY <2>2, BlockDoes, Zenon
    <2> QED BY <2>1, <2>3, Zenon DEF Adds
  <1>13. CASE ~ (i > n) /\ opens /\ ~ broken /\ ~ short /\ ~ open
    <2>1. \A F : BareAt(F, lines, i) = Followed(e, F[r + 1])
      BY <1>4, <1>13
    <2>2. r + 1 \in (i + 1) .. (n + 1) /\ e \in Blocks
      BY <1>5, <1>8, <1>13
    <2>3. PICK c : Does(c, i, n + 1) /\ Adds(c, e, r + 1)
      BY <2>2, BlockDoes, Zenon
    <2> QED BY <2>1, <2>3, Zenon DEF Adds
  <1> QED BY <1>9, <1>10, <1>11, <1>12, <1>13

LEMMA ParseIs ==
    ASSUME NEW lines \in AnyText
    PROVE  Parse(lines) \in Parsed
  <1> DEFINE m == Len(lines) + 1
             c == [i \in 1 .. m |-> CHOOSE k : Does(k, i, m) /\ \A F : At(k, F) = StrictAt(F, lines, i)]
             Eqn(F) == F = [i \in 1 .. m |-> StrictAt(F, lines, i)]
  <1>1. \A i \in 1 .. m : Does(c[i], i, m) /\ \A F : At(c[i], F) = StrictAt(F, lines, i)
    <2> SUFFICES ASSUME NEW i \in 1 .. m
                 PROVE  Does(c[i], i, m) /\ \A F : At(c[i], F) = StrictAt(F, lines, i)
      OBVIOUS
    <2>1. \E k : Does(k, i, m) /\ \A F : At(k, F) = StrictAt(F, lines, i)
      BY StrictDoes
    <2>2. c[i] = CHOOSE k : Does(k, i, m) /\ \A F : At(k, F) = StrictAt(F, lines, i)
      OBVIOUS
    <2> HIDE DEF c, m
    <2> QED BY <2>1, <2>2, Zenon
  <1>2. m \in Nat /\ 1 \in 1 .. m
    BY DEF AnyText
  <1>3. Parse(lines) = (CHOOSE F : Eqn(F))[1]
    BY DEF Parse, StrictAt
  <1> HIDE DEF c, m
  <1>4. \A F : [i \in 1 .. m |-> At(c[i], F)] = [i \in 1 .. m |-> StrictAt(F, lines, i)]
    BY <1>1
  <1>5. /\ \E F : F = [i \in 1 .. m |-> At(c[i], F)]
        /\ \A F : F = [i \in 1 .. m |-> At(c[i], F)] => \A i \in 1 .. m : F[i] \in Parsed
    BY <1>1, <1>2, ParserIs
  <1>6. \E F : Eqn(F)
    BY <1>4, <1>5
  <1>7. \A F : Eqn(F) => F[1] \in Parsed
    BY <1>2, <1>4, <1>5
  <1> HIDE DEF Eqn
  <1> QED BY <1>3, <1>6, <1>7, Zenon

LEMMA ParseBareIs ==
    ASSUME NEW lines \in AnyText
    PROVE  ParseBare(lines) \in Parsed
  <1> DEFINE m == Len(lines) + 1
             c == [i \in 1 .. m |-> CHOOSE k : Does(k, i, m) /\ \A F : At(k, F) = BareAt(F, lines, i)]
             Eqn(F) == F = [i \in 1 .. m |-> BareAt(F, lines, i)]
  <1>1. \A i \in 1 .. m : Does(c[i], i, m) /\ \A F : At(c[i], F) = BareAt(F, lines, i)
    <2> SUFFICES ASSUME NEW i \in 1 .. m
                 PROVE  Does(c[i], i, m) /\ \A F : At(c[i], F) = BareAt(F, lines, i)
      OBVIOUS
    <2>1. \E k : Does(k, i, m) /\ \A F : At(k, F) = BareAt(F, lines, i)
      BY BareDoes
    <2>2. c[i] = CHOOSE k : Does(k, i, m) /\ \A F : At(k, F) = BareAt(F, lines, i)
      OBVIOUS
    <2> HIDE DEF c, m
    <2> QED BY <2>1, <2>2, Zenon
  <1>2. m \in Nat /\ 1 \in 1 .. m
    BY DEF AnyText
  <1>3. ParseBare(lines) = (CHOOSE F : Eqn(F))[1]
    BY DEF ParseBare, BareAt
  <1> HIDE DEF c, m
  <1>4. \A F : [i \in 1 .. m |-> At(c[i], F)] = [i \in 1 .. m |-> BareAt(F, lines, i)]
    BY <1>1
  <1>5. /\ \E F : F = [i \in 1 .. m |-> At(c[i], F)]
        /\ \A F : F = [i \in 1 .. m |-> At(c[i], F)] => \A i \in 1 .. m : F[i] \in Parsed
    BY <1>1, <1>2, ParserIs
  <1>6. \E F : Eqn(F)
    BY <1>4, <1>5
  <1>7. \A F : Eqn(F) => F[1] \in Parsed
    BY <1>2, <1>4, <1>5
  <1> HIDE DEF Eqn
  <1> QED BY <1>3, <1>6, <1>7, Zenon

\* Whatever the diff, what is parsed are blocks in a sequence.
LEMMA ParseFlexibleIs ==
    ASSUME NEW lines \in AnyText
    PROVE  ParseFlexible(lines) \in Parsed
  <1>1. Parse(lines) \in Parsed /\ ParseBare(lines) \in Parsed
    BY ParseIs, ParseBareIs
  <1>2. ParseBare(Unfenced(lines)) \in Parsed
    BY UnfencedIs, ParseBareIs
  <1> QED BY <1>1, <1>2 DEF ParseFlexible
-----------------------------------------------------------------------------
(* The editing tools: blocks staged in their order *)

LEMMA EndedTexts ==
    Ended \subseteq AnyText /\ \A b \in Blocks : b.search \in AnyText /\ b.replace \in Ended
  BY DEF Ended, Blocks

\* The place of a SEARCH that stands once.
LEMMA FirstPlace ==
    ASSUME NEW text \in AnyText, NEW part \in AnyText, Positions(text, part) # {}
    PROVE  /\ Min(Positions(text, part)) \in Positions(text, part)
           /\ Min(Positions(text, part)) \in Nat
  <1>1. Positions(text, part) \subseteq Nat
    BY DEF Positions, AnyText
  <1> QED BY <1>1, LeastIn

\* What is put together begins and ends with its parts.
LEMMA Joined ==
    ASSUME NEW x \in AnyText, NEW sep \in AnyText, NEW y \in AnyText
    PROVE  /\ IsPrefix(x, (x \o sep) \o y)
           /\ IsSuffix(y, (x \o sep) \o y)
  <1> DEFINE t == x \o sep
             u == t \o y
  <1>1. /\ t \in AnyText /\ Len(t) = Len(x) + Len(sep)
        /\ \A i \in 1 .. Len(x) : t[i] = x[i]
        /\ Len(x) \in Nat /\ Len(sep) \in Nat /\ Len(y) \in Nat
    BY DEF AnyText
  <1> HIDE DEF t
  <1>2. /\ u \in AnyText /\ Len(u) = Len(t) + Len(y)
        /\ \A i \in 1 .. Len(t) : u[i] = t[i]
        /\ \A i \in 1 .. Len(y) : u[Len(t) + i] = y[i]
    <2>0. t \in Seq(Pieces) /\ y \in Seq(Pieces)
      BY <1>1 DEF AnyText
    <2>1. u \in AnyText /\ Len(u) = Len(t) + Len(y)
      BY <2>0 DEF AnyText
    <2>2. \A i \in 1 .. Len(t) : u[i] = t[i]
      BY <2>0
    <2>3. ASSUME NEW i \in 1 .. Len(y) PROVE u[Len(t) + i] = y[i]
      <3>1. Len(t) + i \in 1 .. (Len(t) + Len(y)) /\ ~ (Len(t) + i <= Len(t)) /\ (Len(t) + i) - Len(t) = i
        BY <2>0
      <3> QED BY <2>0, <3>1
    <2> QED BY <2>1, <2>2, <2>3
  <1> HIDE DEF u
  <1>3. IsPrefix(x, u)
    <2>1. SubSeq(x, 1, Len(x)) = [i \in 1 .. Len(x) |-> x[i]]
      BY DEF AnyText
    <2>2. SubSeq(u, 1, Len(x)) = [i \in 1 .. Len(x) |-> u[i]]
      BY <1>1, <1>2 DEF AnyText
    <2>3. \A i \in 1 .. Len(x) : u[i] = x[i]
      BY <1>1, <1>2
    <2>4. SubSeq(x, 1, Len(x)) = SubSeq(u, 1, Len(x))
      BY <2>1, <2>2, <2>3
    <2> QED BY <1>1, <1>2, <2>4 DEF IsPrefix
  <1>4. IsSuffix(y, u)
    <2> DEFINE v == Reverse(u)
               w == Reverse(y)
    <2>1. v \in AnyText /\ Len(v) = Len(u) /\ \A i \in 1 .. Len(u) : v[i] = u[Len(u) - i + 1]
      BY <1>2 DEF Reverse, AnyText
    <2>2. w \in AnyText /\ Len(w) = Len(y) /\ \A i \in 1 .. Len(y) : w[i] = y[Len(y) - i + 1]
      BY DEF Reverse, AnyText
    <2> HIDE DEF v, w
    <2>3. ASSUME NEW i \in 1 .. Len(y) PROVE v[i] = w[i]
      <3>1. Len(y) - i + 1 \in 1 .. Len(y) /\ Len(u) - i + 1 = Len(t) + (Len(y) - i + 1)
        BY <1>1, <1>2
      <3>2. u[Len(t) + (Len(y) - i + 1)] = y[Len(y) - i + 1]
        BY <1>2, <3>1
      <3>3. i \in 1 .. Len(u)
        BY <1>1, <1>2
      <3> QED BY <2>1, <2>2, <3>1, <3>2, <3>3
    <2>4. SubSeq(w, 1, Len(w)) = [i \in 1 .. Len(y) |-> w[i]]
      BY <2>2 DEF AnyText
    <2>5. SubSeq(v, 1, Len(w)) = [i \in 1 .. Len(y) |-> v[i]]
      BY <1>1, <1>2, <2>1, <2>2 DEF AnyText
    <2>6. SubSeq(w, 1, Len(w)) = SubSeq(v, 1, Len(w))
      BY <2>3, <2>4, <2>5
    <2>7. Len(w) <= Len(v)
      BY <1>1, <1>2, <2>1, <2>2
    <2> QED BY <2>6, <2>7 DEF IsSuffix, IsPrefix, v, w
  <1> QED BY <1>3, <1>4 DEF u, t

\* What comes between a text and what is added to it.
Between(text) == IF text = <<>> \/ text[Len(text)] = NL THEN <<>> ELSE <<NL>>

LEMMA AppendToIs ==
    ASSUME NEW text \in AnyText, NEW add \in Ended, AppendTo(text, add) # Refused
    PROVE  ~ Holds(text, add) /\ AppendTo(text, add) = (text \o Between(text)) \o add
  <1>1. text \o <<>> = text
    BY DEF AnyText
  <1> QED BY <1>1 DEF AppendTo, Last, Between

LEMMA StageBlockIs ==
    ASSUME NEW text \in AnyText, NEW b \in Blocks
    PROVE  StageBlock(text, b) \in AnyText
  <1>1. b.search \in AnyText /\ b.replace \in AnyText
    BY EndedTexts
  <1>2. ASSUME MatchesOnce(text, b.search)
        PROVE  Spliced(text, Min(Positions(text, b.search)), b) \in AnyText
    <2> DEFINE i == Min(Positions(text, b.search))
    <2>1. i \in Nat /\ i \in Positions(text, b.search)
      BY <1>1, <1>2, FirstPlace DEF MatchesOnce, Holds
    <2> HIDE DEF i
    <2>2. i \in 1 .. Len(text) + 1 - Len(b.search) /\ Len(b.search) \in Nat /\ Len(text) \in Nat
      BY <1>1, <2>1 DEF Positions, AnyText
    <2>3. SubSeq(text, 1, i - 1) \in AnyText
      BY <2>2 DEF AnyText
    <2>4. SubSeq(text, i + Len(b.search), Len(text)) \in AnyText
      BY <2>2 DEF AnyText
    <2>5. SubSeq(text, 1, i - 1) \o b.replace \o SubSeq(text, i + Len(b.search), Len(text)) \in AnyText
      BY <1>1, <2>3, <2>4 DEF AnyText
    <2> QED BY <2>5 DEF Spliced, i
  <1>3. ApplyBlock(text, b) \in AnyText
    BY <1>2, FixedTexts DEF ApplyBlock
  <1>4. AppendTo(text, b.replace) \in AnyText
    <2>1. text \o b.replace \in AnyText /\ text \o <<NL>> \o b.replace \in AnyText
      BY <1>1, FixedTexts DEF AnyText
    <2> QED BY <2>1, FixedTexts DEF AppendTo
  <1> QED BY <1>1, <1>3, <1>4, FixedTexts DEF StageBlock

\* A block that is not refused has been applied.
LEMMA StageBlockApplies ==
    ASSUME NEW text \in AnyText, NEW b \in Blocks, StageBlock(text, b) # Refused
    PROVE  text # Refused /\ Applies(text, b, StageBlock(text, b))
  <1>0. text # Refused
    BY DEF StageBlock
  <1>1. b.search \in AnyText /\ b.replace \in AnyText
    BY EndedTexts
  <1>2. CASE b.search # <<>>
    <2>1. /\ MatchesOnce(text, b.search)
          /\ StageBlock(text, b) = Spliced(text, Min(Positions(text, b.search)), b)
      BY <1>0, <1>2 DEF StageBlock, ApplyBlock
    <2>2. Min(Positions(text, b.search)) \in Positions(text, b.search)
      BY <1>1, <2>1, FirstPlace DEF MatchesOnce, Holds
    <2> QED BY <1>0, <1>2, <2>1, <2>2 DEF Applies
  <1>3. CASE b.search = <<>> /\ text = Gone
    <2>1. StageBlock(text, b) = b.replace
      BY <1>0, <1>3 DEF StageBlock
    <2> QED BY <1>0, <1>3, <2>1 DEF Applies
  <1>4. CASE b.search = <<>> /\ text # Gone
    <2> DEFINE u == StageBlock(text, b)
               add == b.replace
    <2>1. u = AppendTo(text, add)
      BY <1>0, <1>4 DEF StageBlock
    <2>2. add \in Ended
      BY EndedTexts
    <2> HIDE DEF u, add
    <2>3. AppendTo(text, add) # Refused
      BY <2>1 DEF u
    <2>4. u = (text \o Between(text)) \o add /\ Between(text) \in AnyText
      BY <2>1, <2>2, <2>3, AppendToIs, FixedTexts DEF Between
    <2>5. IsPrefix(text, u) /\ IsSuffix(add, u)
      BY <2>2, <2>4, EndedTexts, FixedTexts, Joined
    <2> QED BY <1>0, <1>4, <2>5 DEF Applies, u, add
  <1> QED BY <1>2, <1>3, <1>4
\* The texts between the blocks.
Stages(f, text, blocks, n) ==
    f = [i \in 0 .. n |-> IF i = 0 THEN text ELSE StageBlock(f[i - 1], blocks[i])]

LEMMA StagesAre ==
    ASSUME NEW text, NEW blocks, NEW n \in Nat, NEW f, Stages(f, text, blocks, n)
    PROVE  /\ f[0] = text
           /\ \A i \in 1 .. n : f[i] = StageBlock(f[i - 1], blocks[i])
  <1>1. 0 \in 0 .. n /\ \A i \in 1 .. n : i \in 0 .. n /\ i # 0
    OBVIOUS
  <1>2. f = [i \in 0 .. n |-> IF i = 0 THEN text ELSE StageBlock(f[i - 1], blocks[i])]
    BY DEF Stages
  <1>3. f[0] = text
    BY <1>1, <1>2
  <1>4. ASSUME NEW i \in 1 .. n PROVE f[i] = StageBlock(f[i - 1], blocks[i])
    BY <1>1, <1>2
  <1> QED BY <1>3, <1>4

LEMMA StagesExist ==
    ASSUME NEW text \in AnyText, NEW n \in Nat, NEW blocks, \A i \in 1 .. n : blocks[i] \in Blocks
    PROVE  \E f \in [0 .. n -> AnyText] : Stages(f, text, blocks, n)
  <1> DEFINE step == [i \in 1 .. n |-> [t \in AnyText |-> StageBlock(t, blocks[i])]]
  <1>1. \A i \in 1 .. n : step[i] \in [AnyText -> AnyText]
    BY StageBlockIs
  <1>2. \A i \in 1 .. n : \A t \in AnyText : step[i][t] = StageBlock(t, blocks[i])
    OBVIOUS
  <1> HIDE DEF step
  <1>3. PICK f \in [0 .. n -> AnyText] : Runs(f, text, step, n)
    BY <1>1, RunningValues, Zenon
  <1>4. ASSUME NEW i \in 0 .. n
        PROVE  f[i] = IF i = 0 THEN text ELSE StageBlock(f[i - 1], blocks[i])
    <2>1. f = [j \in 0 .. n |-> IF j = 0 THEN text ELSE step[j][f[j - 1]]]
      BY <1>3 DEF Runs
    <2>2. CASE i = 0
      BY <2>1, <2>2
    <2>3. CASE i # 0
      <3>1. i \in 1 .. n /\ i - 1 \in 0 .. n
        BY <2>3
      <3>2. f[i - 1] \in AnyText
        BY <1>3, <3>1
      <3>3. f[i] = step[i][f[i - 1]]
        BY <2>1, <2>3
      <3> QED BY <1>2, <2>3, <3>1, <3>2, <3>3
    <2> QED BY <2>2, <2>3
  <1>5. Stages(f, text, blocks, n)
    BY <1>3, <1>4 DEF Stages
  <1> QED BY <1>5

LEMMA StagesAgree ==
    ASSUME NEW text, NEW n \in Nat, NEW m \in Nat, m <= n, NEW blocks, NEW fewer,
           \A i \in 1 .. m : blocks[i] = fewer[i],
           NEW f, Stages(f, text, blocks, n), NEW g, Stages(g, text, fewer, m)
    PROVE  \A i \in 0 .. m : f[i] = g[i]
  <1>1. f[0] = text /\ \A i \in 1 .. n : f[i] = StageBlock(f[i - 1], blocks[i])
    BY StagesAre
  <1>2. g[0] = text /\ \A i \in 1 .. m : g[i] = StageBlock(g[i - 1], fewer[i])
    BY StagesAre
  <1> DEFINE S == {i \in 0 .. m : f[i] = g[i]}
  <1>3. 0 \in S
    BY <1>1, <1>2
  <1>4. ASSUME NEW i \in 0 .. (m - 1), i \in S PROVE i + 1 \in S
    <2>1. i + 1 \in 1 .. m /\ i + 1 \in 1 .. n /\ (i + 1) - 1 = i /\ i + 1 \in 0 .. m
      OBVIOUS
    <2>2. f[i] = g[i]
      BY <1>4
    <2>3. f[i + 1] = g[i + 1]
      BY <1>1, <1>2, <2>1, <2>2
    <2> QED BY <2>1, <2>3
  <1> HIDE DEF S
  <1>5. 0 .. m \subseteq S
    <2>1. 0 \in Int /\ m \in Int
      OBVIOUS
    <2> QED BY <1>3, <1>4, <2>1, IntervalInduction, Zenon
  <1> QED BY <1>5 DEF S

LEMMA StageFileIs ==
    ASSUME NEW text \in AnyText, NEW blocks \in Seq(Blocks)
    PROVE  \E f : Stages(f, text, blocks, Len(blocks)) /\ StageFile(text, blocks) = f[Len(blocks)]
  <1>1. Len(blocks) \in Nat /\ \A i \in 1 .. Len(blocks) : blocks[i] \in Blocks
    OBVIOUS
  <1>2. \E f : Stages(f, text, blocks, Len(blocks))
    BY <1>1, StagesExist
  <1> DEFINE g == CHOOSE f : Stages(f, text, blocks, Len(blocks))
  <1>3. Stages(g, text, blocks, Len(blocks))
    BY <1>2, Zenon
  <1>4. StageFile(text, blocks) = g[Len(blocks)]
    BY DEF StageFile, Stages
  <1> QED BY <1>3, <1>4, Zenon

\* The first blocks alone lead where all of them pass.
LEMMA FirstBlocks ==
    ASSUME NEW text \in AnyText, NEW blocks \in Seq(Blocks)
    PROVE  \E f \in [0 .. Len(blocks) -> AnyText] :
              /\ Stages(f, text, blocks, Len(blocks))
              /\ StageFile(text, blocks) = f[Len(blocks)]
              /\ \A k \in 0 .. Len(blocks) : StageFile(text, SubSeq(blocks, 1, k)) = f[k]
  <1>1. Len(blocks) \in Nat /\ \A i \in 1 .. Len(blocks) : blocks[i] \in Blocks
    OBVIOUS
  <1>2. PICK f \in [0 .. Len(blocks) -> AnyText] : Stages(f, text, blocks, Len(blocks))
    BY <1>1, StagesExist
  <1>3. ASSUME NEW k \in 0 .. Len(blocks) PROVE StageFile(text, SubSeq(blocks, 1, k)) = f[k]
    <2> DEFINE some == SubSeq(blocks, 1, k)
    <2>1. /\ k \in Nat /\ k <= Len(blocks) /\ k \in 0 .. k
          /\ some \in Seq(Blocks) /\ Len(some) = k /\ \A i \in 1 .. k : blocks[i] = some[i]
      BY <1>1
    <2> HIDE DEF some
    <2>2. PICK g : Stages(g, text, some, k) /\ StageFile(text, some) = g[k]
      BY <2>1, StageFileIs
    <2>3. f[k] = g[k]
      BY <1>1, <1>2, <2>1, <2>2, StagesAgree
    <2> QED BY <2>2, <2>3 DEF some
  <1>4. SubSeq(blocks, 1, Len(blocks)) = blocks /\ Len(blocks) \in 0 .. Len(blocks)
    OBVIOUS
  <1>5. StageFile(text, blocks) = f[Len(blocks)]
    BY <1>3, <1>4
  <1> QED BY <1>2, <1>3, <1>5

\* A file that is not refused took every block: the texts between are none refused.
LEMMA NoneRefused ==
    ASSUME NEW text, NEW blocks, NEW n \in Nat, NEW f, Stages(f, text, blocks, n), f[n] # Refused
    PROVE  \A i \in 0 .. n : f[i] # Refused
  <1>1. \A i \in 1 .. n : f[i] = StageBlock(f[i - 1], blocks[i])
    BY StagesAre
  <1> DEFINE S == {i \in 0 .. n : f[n - i] # Refused}
  <1>2. 0 \in S
    OBVIOUS
  <1>3. ASSUME NEW i \in 0 .. (n - 1), i \in S PROVE i + 1 \in S
    <2>1. n - i \in 1 .. n /\ (n - i) - 1 = n - (i + 1) /\ i + 1 \in 0 .. n
      OBVIOUS
    <2>2. f[n - i] # Refused
      BY <1>3
    <2>3. f[n - i] = StageBlock(f[n - (i + 1)], blocks[n - i])
      BY <1>1, <2>1
    <2>4. f[n - (i + 1)] # Refused
      BY <2>2, <2>3 DEF StageBlock
    <2> QED BY <2>1, <2>4
  <1> HIDE DEF S
  <1>4. 0 .. n \subseteq S
    <2>1. 0 \in Int /\ n \in Int
      OBVIOUS
    <2> QED BY <1>2, <1>3, <2>1, IntervalInduction, Zenon
  <1> SUFFICES ASSUME NEW i \in 0 .. n PROVE f[i] # Refused
    OBVIOUS
  <1>5. n - i \in 0 .. n /\ n - (n - i) = i
    OBVIOUS
  <1> QED BY <1>4, <1>5 DEF S

\* A staged file has each block applied to what the blocks before it left.
LEMMA StagedBlocksApply ==
    ASSUME NEW text \in AnyText, NEW blocks \in Seq(Blocks), StageFile(text, blocks) # Refused
    PROVE  /\ StageFile(text, SubSeq(blocks, 1, Len(blocks))) = StageFile(text, blocks)
           /\ \A i \in DOMAIN blocks :
                 Applies(StageFile(text, SubSeq(blocks, 1, i - 1)), blocks[i],
                         StageFile(text, SubSeq(blocks, 1, i)))
  <1>1. PICK f \in [0 .. Len(blocks) -> AnyText] :
            /\ Stages(f, text, blocks, Len(blocks))
            /\ StageFile(text, blocks) = f[Len(blocks)]
            /\ \A k \in 0 .. Len(blocks) : StageFile(text, SubSeq(blocks, 1, k)) = f[k]
    BY FirstBlocks, Zenon
  <1>2. Len(blocks) \in Nat /\ Len(blocks) \in 0 .. Len(blocks) /\ DOMAIN blocks = 1 .. Len(blocks)
        /\ \A i \in 1 .. Len(blocks) : blocks[i] \in Blocks
    OBVIOUS
  <1>3. \A i \in 0 .. Len(blocks) : f[i] # Refused
    BY <1>1, <1>2, NoneRefused
  <1>4. \A i \in 1 .. Len(blocks) : f[i] = StageBlock(f[i - 1], blocks[i])
    BY <1>1, <1>2, StagesAre
  <1>5. ASSUME NEW i \in 1 .. Len(blocks) PROVE Applies(f[i - 1], blocks[i], f[i])
    <2>1. i - 1 \in 0 .. Len(blocks) /\ i \in 0 .. Len(blocks)
      BY <1>2
    <2>2. f[i - 1] \in AnyText /\ blocks[i] \in Blocks /\ f[i] # Refused
      BY <1>1, <1>2, <1>3, <2>1
    <2>3. f[i] = StageBlock(f[i - 1], blocks[i])
      BY <1>4
    <2> QED BY <2>2, <2>3, StageBlockApplies
  <1>6. \A i \in 1 .. Len(blocks) : i - 1 \in 0 .. Len(blocks) /\ i \in 0 .. Len(blocks)
    BY <1>2
  <1> QED BY <1>1, <1>2, <1>5, <1>6
-----------------------------------------------------------------------------
(* The editing tools: an append that was sent twice *)

LEMMA EndHolds ==
    ASSUME NEW x \in AnyText, NEW y \in AnyText, y # <<>>
    PROVE  Holds(x \o y, y)
  <1> DEFINE t == x \o y
             i == Len(x) + 1
  <1>1. x \in Seq(Pieces) /\ y \in Seq(Pieces) /\ t \in Seq(Pieces)
        /\ Len(x) \in Nat /\ Len(y) \in Nat /\ Len(t) = Len(x) + Len(y)
    BY DEF AnyText
  <1>2. ASSUME NEW j \in 1 .. Len(y) PROVE t[i + j - 1] = y[j]
    <2>1. /\ i + j - 1 = Len(x) + j /\ Len(x) + j \in 1 .. (Len(x) + Len(y))
          /\ ~ (Len(x) + j <= Len(x)) /\ (Len(x) + j) - Len(x) = j
      BY <1>1
    <2> QED BY <1>1, <2>1
  <1>3. i \in 1 .. Len(t) + 1 - Len(y) /\ i + Len(y) - 1 = Len(t) /\ i \in Nat
    BY <1>1
  <1> HIDE DEF t, i
  <1>4. SubSeq(t, i, i + Len(y) - 1) = [j \in 1 .. Len(y) |-> t[i + j - 1]]
    BY <1>1, <1>3
  <1>5. y = [j \in 1 .. Len(y) |-> y[j]]
    BY <1>1
  <1>6. SubSeq(t, i, i + Len(y) - 1) = y
    BY <1>2, <1>4, <1>5
  <1>7. i \in Positions(t, y)
    BY <1>3, <1>6 DEF Positions
  <1> QED BY <1>7 DEF Holds, t

LEMMA MoreHolds ==
    ASSUME NEW x \in AnyText, NEW y \in AnyText, NEW part \in AnyText, Holds(x, part)
    PROVE  Holds(x \o y, part)
  <1> DEFINE t == x \o y
             n == Len(part)
  <1>1. PICK i \in 1 .. Len(x) + 1 - n : SubSeq(x, i, i + n - 1) = part
    BY DEF Holds, Positions
  <1>2. x \in Seq(Pieces) /\ y \in Seq(Pieces) /\ t \in Seq(Pieces)
        /\ Len(x) \in Nat /\ Len(y) \in Nat /\ Len(t) = Len(x) + Len(y) /\ n \in Nat
    BY DEF AnyText
  <1>3. i \in Nat /\ i >= 1 /\ i + n - 1 <= Len(x) /\ i \in 1 .. Len(t) + 1 - n /\ i + n - 1 <= Len(t)
    BY <1>1, <1>2
  <1>4. \A j \in 1 .. Len(x) : t[j] = x[j]
    BY <1>2
  <1> HIDE DEF t, n
  <1>5. SubSeq(x, i, i + n - 1) = [j \in 1 .. n |-> x[i + j - 1]]
    BY <1>2, <1>3
  <1>6. SubSeq(t, i, i + n - 1) = [j \in 1 .. n |-> t[i + j - 1]]
    BY <1>2, <1>3
  <1>7. \A j \in 1 .. n : i + j - 1 \in 1 .. Len(x)
    BY <1>2, <1>3
  <1>8. SubSeq(t, i, i + n - 1) = part
    BY <1>1, <1>4, <1>5, <1>6, <1>7
  <1>9. i \in Positions(t, part)
    BY <1>3, <1>8 DEF Positions, n
  <1> QED BY <1>9 DEF Holds, t

\* A text with a block's addition at its end, or somewhere already.
LEMMA OneAppend ==
    ASSUME NEW text \in AnyText, NEW b \in Blocks, b.search = <<>>, StageBlock(text, b) # Refused
    PROVE  /\ StageBlock(text, b) \in Ended
           /\ b.replace # <<>> => Holds(StageBlock(text, b), b.replace)
           /\ text # Gone =>
                 \A part \in AnyText : Holds(text, part) => Holds(StageBlock(text, b), part)
  <1> DEFINE add == b.replace
             u == StageBlock(text, b)
  <1>1. add \in Ended /\ add \in AnyText
    BY EndedTexts
  <1>2. text # Refused
    BY DEF StageBlock
  <1>3. CASE text = Gone
    <2>1. u = add
      BY <1>2, <1>3 DEF StageBlock
    <2>2. add = <<>> \o add
      BY <1>1 DEF AnyText
    <2>3. add # <<>> => Holds(add, add)
      BY <1>1, <2>2, EndHolds, FixedTexts
    <2> QED BY <1>1, <1>3, <2>1, <2>3
  <1>4. CASE text # Gone
    <2>1. u = AppendTo(text, add) /\ u # Refused
      BY <1>2, <1>4 DEF StageBlock
    <2> HIDE DEF add, u
    <2> DEFINE t == text \o Between(text)
    <2>2. u = t \o add
      BY <1>1, <2>1, AppendToIs
    <2>3. Between(text) \in AnyText
      BY FixedTexts DEF Between
    <2>4. t \in AnyText /\ u \in AnyText
      BY <1>1, <2>2, <2>3 DEF AnyText
    <2>5. t \in Ended
      <3>1. CASE text = <<>> \/ text[Len(text)] = NL
        <4>1. t = text
          BY <3>1 DEF Between, AnyText
        <4> QED BY <3>1, <4>1 DEF Ended
      <3>2. CASE ~ (text = <<>> \/ text[Len(text)] = NL)
        <4>1. t = text \o <<NL>>
          BY <3>2 DEF Between
        <4>2. t[Len(t)] = NL
          BY <4>1 DEF AnyText
        <4> QED BY <2>4, <4>2 DEF Ended
      <3> QED BY <3>1, <3>2
    <2> HIDE DEF t
    <2>6. u \in Ended
      <3>1. CASE add = <<>>
        <4>1. u = t
          BY <2>2, <2>4, <3>1 DEF AnyText
        <4> QED BY <2>5, <4>1
      <3>2. CASE add # <<>>
        <4>1. add[Len(add)] = NL /\ t \in Seq(Pieces) /\ add \in Seq(Pieces)
          BY <1>1, <2>4, <3>2 DEF Ended, AnyText
        <4>2. (t \o add)[Len(t \o add)] = NL
          BY <3>2, <4>1
        <4> QED BY <2>2, <2>4, <4>2 DEF Ended
      <3> QED BY <3>1, <3>2
    <2>7. add # <<>> => Holds(u, add)
      BY <1>1, <2>2, <2>4, EndHolds
    <2>8. ASSUME NEW part \in AnyText, Holds(text, part) PROVE Holds(u, part)
      <3>1. Holds(t, part)
        BY <2>3, <2>8, MoreHolds DEF t
      <3> QED BY <1>1, <2>2, <2>4, <3>1, MoreHolds
    <2> QED BY <2>6, <2>7, <2>8 DEF u, add
  <1> QED BY <1>3, <1>4

\* A text in which each of the blocks has been added.
Has(text, blocks) ==
    /\ text \in Ended
    /\ \A i \in 1 .. Len(blocks) : blocks[i].replace # <<>> => Holds(text, blocks[i].replace)
OnlyAppends(blocks) == \A i \in 1 .. Len(blocks) : blocks[i].search = <<>>

LEMMA AppendsLand ==
    ASSUME NEW text \in AnyText, NEW blocks \in Seq(Blocks), blocks # <<>>, OnlyAppends(blocks),
           StageFile(text, blocks) # Refused
    PROVE  Has(StageFile(text, blocks), blocks)
  <1> DEFINE n == Len(blocks)
  <1>1. n \in Nat /\ n >= 1 /\ n \in 0 .. n /\ n \in 1 .. n /\ 1 \in 1 .. n
        /\ \A i \in 1 .. n : blocks[i] \in Blocks /\ blocks[i].replace \in AnyText
    BY EndedTexts
  <1>2. PICK f \in [0 .. n -> AnyText] :
            Stages(f, text, blocks, n) /\ StageFile(text, blocks) = f[n]
    BY FirstBlocks, Zenon
  <1> HIDE DEF n
  <1>3. \A i \in 0 .. n : f[i] # Refused
    BY <1>1, <1>2, NoneRefused
  <1>4. f[0] = text /\ \A i \in 1 .. n : f[i] = StageBlock(f[i - 1], blocks[i])
    <2>1. n \in Nat /\ Stages(f, text, blocks, n)
      BY <1>1, <1>2
    <2>2. 0 \in 0 .. n /\ f = [i \in 0 .. n |-> IF i = 0 THEN text ELSE StageBlock(f[i - 1], blocks[i])]
      BY <2>1 DEF Stages
    <2>3. f[0] = text
      BY <2>2
    <2>4. \A i \in 1 .. n : i \in 0 .. n /\ i # 0
      BY <1>1
    <2>5. ASSUME NEW i \in 1 .. n PROVE f[i] = StageBlock(f[i - 1], blocks[i])
      BY <2>2, <2>4
    <2> QED BY <2>3, <2>5
  <1>5. ASSUME NEW i \in 1 .. n
        PROVE  /\ f[i - 1] \in AnyText /\ blocks[i] \in Blocks /\ blocks[i].search = <<>>
               /\ StageBlock(f[i - 1], blocks[i]) # Refused
    <2>1. i - 1 \in 0 .. n /\ i \in 0 .. n
      BY <1>1
    <2> QED BY <1>1, <1>2, <1>3, <1>4, <2>1 DEF OnlyAppends, n
  <1>6. ASSUME NEW i \in 1 .. n
        PROVE  /\ f[i] \in Ended
               /\ blocks[i].replace # <<>> => Holds(f[i], blocks[i].replace)
               /\ f[i - 1] # Gone =>
                     \A part \in AnyText : Holds(f[i - 1], part) => Holds(f[i], part)
    <2>1. f[i] = StageBlock(f[i - 1], blocks[i])
      BY <1>4
    <2> QED BY <1>5, <2>1, OneAppend
  <1> DEFINE S == {k \in 1 .. n : \A i \in 1 .. k : blocks[i].replace # <<>> => Holds(f[k], blocks[i].replace)}
  <1>7. 1 \in S
    BY <1>1, <1>6
  <1>8. ASSUME NEW k \in 1 .. (n - 1), k \in S PROVE k + 1 \in S
    <2>1. /\ k + 1 \in 1 .. n /\ (k + 1) - 1 = k /\ k \in 1 .. n
          /\ \A i \in 1 .. (k + 1) : i = k + 1 \/ i \in 1 .. k
          /\ \A i \in 1 .. (k + 1) : i \in 1 .. n
      BY <1>1
    <2>2. f[k] # Gone
      BY <1>6, <2>1, FixedTexts
    <2>3. \A part \in AnyText : Holds(f[k], part) => Holds(f[k + 1], part)
      BY <1>6, <2>1, <2>2
    <2>4. \A i \in 1 .. k : blocks[i].replace # <<>> => Holds(f[k], blocks[i].replace)
      BY <1>8
    <2>5. ASSUME NEW i \in 1 .. (k + 1), blocks[i].replace # <<>> PROVE Holds(f[k + 1], blocks[i].replace)
      <3>1. CASE i = k + 1
        BY <1>6, <2>1, <2>5, <3>1
      <3>2. CASE i \in 1 .. k
        BY <1>1, <2>1, <2>3, <2>4, <2>5, <3>2
      <3> QED BY <2>1, <3>1, <3>2
    <2> QED BY <2>1, <2>5
  <1> HIDE DEF S
  <1>9. 1 .. n \subseteq S
    <2>1. 1 \in Int /\ n \in Int
      BY <1>1
    <2> QED BY <1>7, <1>8, <2>1, IntervalInduction, Zenon
  <1>10. \A i \in 1 .. n : blocks[i].replace # <<>> => Holds(f[n], blocks[i].replace)
    BY <1>1, <1>9 DEF S
  <1>11. f[n] \in Ended
    BY <1>1, <1>6
  <1> QED BY <1>2, <1>10, <1>11 DEF Has, n

\* Sent again, the appends are refused or add nothing.
LEMMA AppendsAgain ==
    ASSUME NEW text, NEW blocks \in Seq(Blocks), Has(text, blocks), OnlyAppends(blocks),
           StageFile(text, blocks) # Refused
    PROVE  StageFile(text, blocks) = text
  <1> DEFINE n == Len(blocks)
  <1>0. text \in Ended /\ text \in AnyText /\ text # Gone /\ text # Refused
    BY EndedTexts, FixedTexts DEF Has
  <1>1. n \in Nat /\ n \in 0 .. n /\ \A i \in 1 .. n : blocks[i] \in Blocks /\ blocks[i].replace \in Ended
    BY EndedTexts
  <1>2. PICK f \in [0 .. n -> AnyText] :
            Stages(f, text, blocks, n) /\ StageFile(text, blocks) = f[n]
    BY <1>0, FirstBlocks, Zenon
  <1> HIDE DEF n
  <1>3. \A i \in 0 .. n : f[i] # Refused
    BY <1>1, <1>2, NoneRefused
  <1>4. f[0] = text /\ \A i \in 1 .. n : f[i] = StageBlock(f[i - 1], blocks[i])
    <2>1. n \in Nat /\ Stages(f, text, blocks, n)
      BY <1>1, <1>2
    <2>2. 0 \in 0 .. n /\ f = [i \in 0 .. n |-> IF i = 0 THEN text ELSE StageBlock(f[i - 1], blocks[i])]
      BY <2>1 DEF Stages
    <2>3. f[0] = text
      BY <2>2
    <2>4. \A i \in 1 .. n : i \in 0 .. n /\ i # 0
      BY <1>1
    <2>5. ASSUME NEW i \in 1 .. n PROVE f[i] = StageBlock(f[i - 1], blocks[i])
      BY <2>2, <2>4
    <2> QED BY <2>3, <2>5
  <1> DEFINE S == {k \in 0 .. n : f[k] = text}
  <1>5. 0 \in S
    BY <1>1, <1>4
  <1>6. ASSUME NEW k \in 0 .. (n - 1), k \in S PROVE k + 1 \in S
    <2>1. k + 1 \in 1 .. n /\ (k + 1) - 1 = k /\ k + 1 \in 0 .. n
      BY <1>1
    <2> DEFINE b == blocks[k + 1]
    <2>2. f[k] = text /\ f[k + 1] = StageBlock(text, b) /\ f[k + 1] # Refused
      BY <1>3, <1>4, <1>6, <2>1
    <2>3. b.search = <<>> /\ b.replace \in Ended /\ (b.replace # <<>> => Holds(text, b.replace))
      BY <1>1, <2>1 DEF OnlyAppends, Has, n
    <2> HIDE DEF b
    <2>4. f[k + 1] = AppendTo(text, b.replace)
      BY <1>0, <2>2, <2>3 DEF StageBlock
    <2>5. ~ Holds(text, b.replace) /\ AppendTo(text, b.replace) = (text \o Between(text)) \o b.replace
      BY <1>0, <2>2, <2>3, <2>4, AppendToIs
    <2>6. b.replace = <<>> /\ Between(text) = <<>>
      BY <1>0, <2>3, <2>5 DEF Between, Ended
    <2>7. (text \o <<>>) \o <<>> = text
      BY <1>0 DEF AnyText
    <2> QED BY <2>1, <2>4, <2>5, <2>6, <2>7
  <1> HIDE DEF S
  <1>7. 0 .. n \subseteq S
    <2>1. 0 \in Int /\ n \in Int
      BY <1>1
    <2> QED BY <1>5, <1>6, <2>1, IntervalInduction, Zenon
  <1> QED BY <1>1, <1>2, <1>7 DEF S
-----------------------------------------------------------------------------
(* The editing tools: the walk of a rename *)

OldIn(text) == text # Gone /\ CountOf(text) > 0

LEMMA Counting ==
    ASSUME NEW text \in AnyText
    PROVE  CountOf(text) \in Nat /\ (CountOf(text) > 0 <=> \E i \in DOMAIN text : text[i] = OldName)
  <1> DEFINE S == {i \in DOMAIN text : text[i] = OldName}
  <1>1. DOMAIN text = 1 .. Len(text) /\ Len(text) \in Nat
    BY DEF AnyText
  <1>2. IsFiniteSet(1 .. Len(text))
    <2>1. 1 \in Int /\ Len(text) \in Int
      BY <1>1
    <2> QED BY <2>1, FS_Interval
  <1>3. IsFiniteSet(S)
    <2>1. S \subseteq 1 .. Len(text)
      BY <1>1
    <2> QED BY <1>2, <2>1, FS_Subset
  <1>4. CountOf(text) = Cardinality(S)
    BY DEF CountOf
  <1>5. Cardinality(S) \in Nat /\ (Cardinality(S) = 0 <=> S = {})
    BY <1>3, FS_CardinalityType, FS_EmptySet
  <1>6. S # {} <=> \E i \in DOMAIN text : text[i] = OldName
    OBVIOUS
  <1> HIDE DEF S
  <1> QED BY <1>4, <1>5, <1>6

LEMMA RenamedIs ==
    ASSUME NEW text \in AnyText
    PROVE  /\ Renamed(text) \in AnyText
           /\ ~ (CountOf(Renamed(text)) > 0)
           /\ CountOf(text) > 0 => Renamed(text) # text
  <1> DEFINE u == Renamed(text)
  <1>1. /\ DOMAIN text = 1 .. Len(text) /\ Len(text) \in Nat
        /\ \A i \in 1 .. Len(text) : text[i] \in Pieces
    BY DEF AnyText
  <1>2. u = [i \in 1 .. Len(text) |-> IF text[i] = OldName THEN NewName ELSE text[i]]
    BY <1>1 DEF Renamed
  <1>3. DOMAIN u = 1 .. Len(text) /\ \A i \in 1 .. Len(text) : u[i] \in Pieces /\ u[i] # OldName
    BY <1>1, <1>2, FixedTexts, EditingAssumption
  <1>4. u \in AnyText
    BY <1>1, <1>2, <1>3 DEF AnyText
  <1> HIDE DEF u
  <1>5. ~ (CountOf(u) > 0)
    BY <1>3, <1>4, Counting
  <1>6. CountOf(text) > 0 => u # text
    BY <1>1, <1>3, Counting
  <1> QED BY <1>4, <1>5, <1>6 DEF u

Once(w) == \A i, j \in 1 .. Len(w) : w[i] = w[j] => i = j

LEMMA WalkOn ==
    ASSUME NEW w \in Seq(Walked), w # <<>>, Once(w)
    PROVE  /\ Tail(w) \in Seq(Walked) /\ Once(Tail(w))
           /\ Head(w) \in Walked
           /\ ToSet(Tail(w)) = ToSet(w) \ {Head(w)} /\ Head(w) \in ToSet(w)
  <1> DEFINE n == Len(w)
             t == Tail(w)
  <1>1. /\ n \in Nat /\ n >= 1 /\ DOMAIN w = 1 .. n /\ Head(w) = w[1] /\ w[1] \in Walked
        /\ t \in Seq(Walked) /\ Len(t) = n - 1 /\ DOMAIN t = 1 .. (n - 1)
        /\ \A i \in 1 .. (n - 1) : t[i] = w[i + 1]
    OBVIOUS
  <1> HIDE DEF t
  <1>2. \A i \in 1 .. (n - 1) : i + 1 \in 1 .. n /\ i + 1 # 1
    BY <1>1
  <1>3. Once(t)
    BY <1>1, <1>2 DEF Once
  <1>4. 1 \in 1 .. n
    BY <1>1
  <1>5. \A i \in 1 .. (n - 1) : t[i] \in ToSet(w) \ {w[1]}
    BY <1>1, <1>2, <1>4 DEF Once, ToSet
  <1>6. ASSUME NEW i \in 1 .. n, w[i] # w[1] PROVE w[i] \in ToSet(t)
    <2>1. i # 1
      BY <1>6
    <2>2. i - 1 \in 1 .. (n - 1) /\ (i - 1) + 1 = i
      BY <1>1, <2>1
    <2>3. w[i] = t[i - 1]
      BY <1>1, <2>2
    <2> QED BY <1>1, <2>2, <2>3 DEF ToSet
  <1>7. ToSet(t) = ToSet(w) \ {w[1]}
    BY <1>1, <1>5, <1>6 DEF ToSet
  <1> QED BY <1>1, <1>3, <1>4, <1>7 DEF t, ToSet

Names(h) == {h[i][1] : i \in DOMAIN h}
Lines == Walked \X Nat

LEMMA Nobody ==
    ToSet(<<>>) = {} /\ Names(<<>>) = {}
  <1>1. <<>> \in Seq({}) /\ Len(<<>>) = 0
    OBVIOUS
  <1>2. DOMAIN <<>> = 1 .. 0
    BY <1>1
  <1>3. DOMAIN <<>> = {}
    BY <1>2
  <1> QED BY <1>3 DEF ToSet, Names

LEMMA OneMore ==
    ASSUME NEW h \in Seq(Lines), NEW x \in Lines
    PROVE  /\ Append(h, x) \in Seq(Lines) /\ Len(Append(h, x)) = Len(h) + 1
           /\ Names(Append(h, x)) = Names(h) \cup {x[1]}
  <1> DEFINE g == Append(h, x)
             n == Len(h)
  <1>1. /\ n \in Nat /\ DOMAIN h = 1 .. n /\ g \in Seq(Lines) /\ Len(g) = n + 1
        /\ DOMAIN g = 1 .. (n + 1) /\ g[n + 1] = x /\ \A i \in 1 .. n : g[i] = h[i]
    OBVIOUS
  <1> HIDE DEF g, n
  <1>2. \A i \in 1 .. (n + 1) : i \in 1 .. n \/ i = n + 1
    BY <1>1
  <1>3. \A i \in 1 .. n : i \in 1 .. (n + 1)
    BY <1>1
  <1>4. n + 1 \in 1 .. (n + 1)
    BY <1>1
  <1>5. Names(g) \subseteq Names(h) \cup {x[1]}
    BY <1>1, <1>2 DEF Names
  <1>6. Names(h) \cup {x[1]} \subseteq Names(g)
    BY <1>1, <1>3, <1>4 DEF Names
  <1> QED BY <1>1, <1>5, <1>6 DEF g, n
-----------------------------------------------------------------------------
(* The editing tools: the invariant *)

Calls == {NoCall} \cup {EditOf(d) : d \in Diffs} \cup {WriteOf(t) : t \in Texts \ {Gone}}
                  \cup {RenameOf(sure) : sure \in BOOLEAN}

EditingTypes ==
    /\ contents \in [Walked -> AnyText] /\ before \in [Walked -> AnyText]
    /\ staged \in AnyText /\ call \in Calls
    /\ walk \in Seq(Walked) /\ Once(walk)
    /\ hits \in Seq(Lines) /\ Len(hits) <= MaxHits
    /\ cut \in BOOLEAN /\ foreign \in BOOLEAN
    /\ outcome \in {"", "ok", "error", "torn"}
    /\ landed \in Diffs \cup {NoDiff}
    /\ writes \in 0 .. MaxWrites
    /\ staged # Gone => outcome = "" /\ call.tool \in {"edit", "write"}

\* What an edit under way is about to write: its blocks, all of them, on the text the
\* call found.
EditUnderWay ==
    outcome = "" /\ call.tool = "edit" =>
        LET parsed == ParseFlexible(call.diff)
        IN /\ parsed.ok /\ parsed.blocks # <<>>
           /\ staged = StageFile(before[Target], parsed.blocks) /\ staged # Refused

\* Nothing is written before the write.
NotYetWritten ==
    outcome = "" /\ call.tool \in {"edit", "write"} /\ ~ foreign => contents = before

\* The appends that landed last are in the file.
LandedStands ==
    landed # NoDiff /\ Appends(landed) => Has(contents[Target], ParseFlexible(landed).blocks)

\* A rename under way has written the files of its report and none that it has yet to
\* reach, and behind it the old name is only where the report says it left some out.
Changed == {p \in Walked : contents[p] # before[p]}
RenameUnderWay ==
    outcome = "" /\ call.tool = "rename" /\ ~ foreign =>
        /\ call.confirm => Changed = Names(hits)
        /\ ~ call.confirm => Changed = {}
        /\ Changed \cap ToSet(walk) = {}
        /\ call.confirm => \A p \in Walked \ ToSet(walk) : OldIn(contents[p]) => cut

EditingIsHonest ==
    EditUnderWay /\ NotYetWritten /\ LandedStands /\ RenameUnderWay /\ ResultsAreTrue

EditingInvariant == EditingTypes /\ EditingIsHonest

LEMMA Bounds ==
    MaxHits \in Nat /\ MaxWrites \in Nat /\ 0 \in 0 .. MaxWrites
  <1>1. MaxHits \in Nat /\ MaxWrites \in Nat
    BY EditingAssumption
  <1> QED BY <1>1

LEMMA OneFewer ==
    ASSUME NEW most \in Nat, NEW n \in 0 .. most, n < most
    PROVE  n + 1 \in 0 .. most
  OBVIOUS

LEMMA RoomLeft ==
    ASSUME NEW most \in Nat, NEW n \in Nat, ~ (n >= most)
    PROVE  n + 1 <= most
  OBVIOUS

LEMMA Lengths ==
    ASSUME NEW S, NEW s \in Seq(S)
    PROVE  Len(s) \in Nat /\ Len(s) \in 0 .. Len(s)
  OBVIOUS

LEMMA NoLines ==
    <<>> \in Seq(Lines) /\ Len(<<>>) <= MaxHits /\ <<>> \in Seq(Walked) /\ Once(<<>>)
  <1>1. Len(<<>>) = 0 /\ MaxHits \in Nat
    BY Bounds
  <1>2. Len(<<>>) <= MaxHits
    BY <1>1
  <1> QED BY <1>2 DEF Once

LEMMA WalkedFacts ==
    /\ Target \in Walked /\ EditFiles \in Seq(Walked) /\ Once(EditFiles)
    /\ ToSet(EditFiles) = Walked
  BY EditingAssumption DEF Target, Walked, ToSet, Once

LEMMA CallFacts ==
    /\ NoCall.tool = "none"
    /\ \A d : EditOf(d).tool = "edit" /\ EditOf(d).diff = d
    /\ \A t : WriteOf(t).tool = "write"
    /\ \A sure : RenameOf(sure).tool = "rename" /\ RenameOf(sure).confirm = sure
    /\ \A c \in Calls : /\ c.tool \in {"none", "edit", "write", "rename"}
                        /\ c.tool = "edit" => c.diff \in Diffs
                        /\ c.tool = "rename" => c.confirm \in BOOLEAN
  BY DEF NoCall, EditOf, WriteOf, RenameOf, Calls

\* A parsed diff.
LEMMA DiffFacts ==
    ASSUME NEW d \in Diffs
    PROVE  /\ ParseFlexible(d).ok \in BOOLEAN
           /\ ParseFlexible(d).blocks \in Seq(Blocks)
           /\ Appends(d) => /\ ParseFlexible(d).blocks # <<>>
                            /\ OnlyAppends(ParseFlexible(d).blocks)
  <1>1. ParseFlexible(d) \in Parsed
    BY GivenTexts, ParseFlexibleIs
  <1> DEFINE bs == ParseFlexible(d).blocks
  <1>2. ParseFlexible(d).ok \in BOOLEAN /\ bs \in Seq(Blocks)
    BY <1>1 DEF Parsed
  <1>3. Appends(d) => bs # <<>> /\ \A b \in ToSet(bs) : b.search = <<>>
    BY DEF Appends
  <1> HIDE DEF bs
  <1>4. \A i \in 1 .. Len(bs) : bs[i] \in ToSet(bs)
    BY <1>2 DEF ToSet
  <1>5. Appends(d) => OnlyAppends(bs)
    BY <1>3, <1>4 DEF OnlyAppends
  <1> QED BY <1>2, <1>3, <1>5 DEF bs

LEMMA EditingInitHolds ==
    EditingInit => EditingInvariant
  <1> SUFFICES ASSUME EditingInit PROVE EditingInvariant
    OBVIOUS
  <1> USE DEF EditingInit
  <1>1. EditingTypes
    <2>1. contents \in [Walked -> AnyText] /\ before \in [Walked -> AnyText]
      BY FixedTexts
    <2>2. <<>> \in Seq(Walked) /\ Once(<<>>) /\ <<>> \in Seq(Lines) /\ Len(<<>>) <= MaxHits
      BY NoLines
    <2>3. call \in Calls /\ 0 \in 0 .. MaxWrites
      BY Bounds DEF Calls
    <2> QED BY <2>1, <2>2, <2>3, FixedTexts DEF EditingTypes
  <1>2. call.tool = "none" /\ landed = NoDiff
    BY CallFacts
  <1> QED BY <1>1, <1>2 DEF EditingInvariant, EditingIsHonest, EditUnderWay, NotYetWritten,
             LandedStands, RenameUnderWay, ResultsAreTrue, EditIsWhole, RenameIsHonest

LEMMA EditingStepTypes ==
    EditingInvariant /\ [EditingNext]_editingVars => EditingTypes'
  <1> SUFFICES ASSUME EditingTypes, EditUnderWay, [EditingNext]_editingVars PROVE EditingTypes'
    BY DEF EditingInvariant, EditingIsHonest
  <1> USE DEF EditingTypes
  <1>0. \A c : Begin(c) => writes' \in 0 .. MaxWrites
    <2>1. writes \in 0 .. MaxWrites
      OBVIOUS
    <2>2. \A c : Begin(c) => writes < MaxWrites /\ writes' = writes + 1
      BY DEF Begin
    <2>3. writes < MaxWrites => writes + 1 \in 0 .. MaxWrites
      BY <2>1, Bounds, OneFewer
    <2> QED BY <2>2, <2>3
  <1>1. CASE EditFile
    <2>1. PICK d \in Diffs : Begin(EditOf(d))
             /\ staged' \in {Gone, StageFile(contents[Target], ParseFlexible(d).blocks)}
             /\ outcome' \in {"", "error"} /\ (outcome' = "error" => staged' = Gone)
             /\ UNCHANGED <<contents, walk, hits, cut, landed>>
      BY <1>1 DEF EditFile
    <2>2. StageFile(contents[Target], ParseFlexible(d).blocks) \in AnyText
      <3>1. contents[Target] \in AnyText /\ ParseFlexible(d).blocks \in Seq(Blocks)
        BY DiffFacts, WalkedFacts
      <3>2. PICK f \in [0 .. Len(ParseFlexible(d).blocks) -> AnyText] :
                StageFile(contents[Target], ParseFlexible(d).blocks) = f[Len(ParseFlexible(d).blocks)]
        BY <3>1, FirstBlocks
      <3>3. Len(ParseFlexible(d).blocks) \in 0 .. Len(ParseFlexible(d).blocks)
        BY <3>1, Lengths
      <3> QED BY <3>2, <3>3
    <2> QED BY <1>0, <2>1, <2>2, FixedTexts, CallFacts DEF Begin, Calls
  <1>2. CASE WriteFile
    <2>1. PICK t \in Texts \ {Gone} : Begin(WriteOf(t)) /\ staged' \in {Gone, t}
             /\ outcome' \in {"", "error"} /\ (outcome' = "error" => staged' = Gone)
             /\ UNCHANGED <<contents, walk, hits, cut, landed>>
      BY <1>2 DEF WriteFile
    <2> QED BY <1>0, <2>1, GivenTexts, FixedTexts, CallFacts DEF Begin, Calls
  <1>3. CASE WriteStaged
    <2>1. /\ staged' = Gone /\ outcome' \in {"ok", "error", "torn"}
          /\ UNCHANGED <<call, walk, hits, cut, before, foreign, writes>>
          /\ landed' \in {landed, NoDiff} \/ (call.tool = "edit" /\ landed' = call.diff)
          /\ contents' \in {contents, [contents EXCEPT ![Target] = staged], [contents EXCEPT ![Target] = <<>>]}
      BY <1>3 DEF WriteStaged
    <2>2. contents' \in [Walked -> AnyText]
      BY <2>1, FixedTexts
    <2>3. landed' \in Diffs \cup {NoDiff}
      BY <2>1, CallFacts
    <2> QED BY <2>1, <2>2, <2>3, FixedTexts
  <1>4. CASE RenameSymbol
    <2>1. PICK sure \in BOOLEAN : Begin(RenameOf(sure)) /\ walk' = EditFiles /\ hits' = <<>>
             /\ cut' = FALSE /\ outcome' = "" /\ UNCHANGED <<contents, staged, landed>>
      BY <1>4 DEF RenameSymbol
    <2>2. <<>> \in Seq(Lines) /\ Len(<<>>) <= MaxHits
      BY NoLines
    <2>3. outcome # ""
      BY <2>1 DEF Begin, Idle
    <2> QED BY <1>0, <2>1, <2>2, <2>3, WalkedFacts DEF Begin, Calls
  <1>5. CASE RenameStep
    <2>1. /\ UNCHANGED <<call, staged, before, foreign, writes>> /\ walk # <<>>
          /\ staged = Gone
      BY <1>5, CallFacts DEF RenameStep, Idle
    <2>2. /\ Tail(walk) \in Seq(Walked) /\ Once(Tail(walk)) /\ Head(walk) \in Walked
          /\ <<>> \in Seq(Walked) /\ Once(<<>>)
      <3>1. walk \in Seq(Walked) /\ walk # <<>> /\ Once(walk)
        BY <2>1
      <3> HIDE DEF EditingTypes
      <3> QED BY <3>1, WalkOn, NoLines
    <2>3. CASE SkipUnread
      BY <2>1, <2>2, <2>3 DEF SkipUnread, Skipping
    <2>4. CASE LeaveOut
      BY <2>1, <2>2, <2>4 DEF LeaveOut, Skipping
    <2>5. CASE RenameFile
      <3>1. hits' \in Seq(Lines) /\ Len(hits') <= MaxHits
        <4> DEFINE x == <<Head(walk), CountOf(contents[Head(walk)])>>
        <4>1. x \in Lines
          BY <2>2, Counting DEF Lines
        <4>2. hits' = Append(hits, x) /\ ~ (Len(hits) >= MaxHits)
          BY <2>5 DEF RenameFile, ReportIt, Past
        <4> HIDE DEF x
        <4>3. hits' \in Seq(Lines) /\ Len(hits') = Len(hits) + 1
          BY <4>1, <4>2, OneMore
        <4>4. Len(hits) \in Nat /\ MaxHits \in Nat
          BY Lengths, Bounds
        <4>5. Len(hits) + 1 <= MaxHits
          BY <4>2, <4>4, RoomLeft
        <4> QED BY <4>3, <4>5
      <3>2. contents' \in [Walked -> AnyText] /\ landed' \in {landed, NoDiff}
        <4>1. Renamed(contents[Head(walk)]) \in AnyText
          BY <2>2, RenamedIs
        <4>2. /\ landed' \in {landed, NoDiff}
              /\ contents' \in {contents, [contents EXCEPT ![Head(walk)] = Renamed(contents[Head(walk)])],
                                [contents EXCEPT ![Head(walk)] = <<>>]}
          BY <2>5 DEF RenameFile
        <4> QED BY <4>1, <4>2, FixedTexts
      <3>3. walk' \in {Tail(walk), <<>>} /\ outcome' \in {outcome, "error"} /\ cut' = cut
        BY <2>5 DEF RenameFile, Skipping
      <3>4. walk' \in Seq(Walked) /\ Once(walk)'
        <4>1. PICK w : walk' = w /\ w \in Seq(Walked) /\ Once(w)
          BY <2>2, <3>3, Zenon
        <4> QED BY <4>1 DEF Once
      <3>5. /\ before' \in [Walked -> AnyText] /\ staged' = Gone /\ call' \in Calls
            /\ cut' \in BOOLEAN /\ foreign' \in BOOLEAN
            /\ outcome' \in {"", "ok", "error", "torn"}
            /\ landed' \in Diffs \cup {NoDiff} /\ writes' \in 0 .. MaxWrites
        BY <2>1, <3>2, <3>3
      <3> QED BY <3>1, <3>2, <3>4, <3>5, FixedTexts
    <2> QED BY <1>5, <2>3, <2>4, <2>5 DEF RenameStep
  <1>6. CASE RenameDone
    <2>1. staged = Gone
      BY <1>6, CallFacts DEF RenameDone
    <2>2. /\ contents' = contents /\ call' = call /\ staged' = Gone /\ walk' = walk /\ hits' = hits
          /\ cut' = cut /\ before' = before /\ foreign' = foreign /\ landed' = landed
          /\ writes' = writes /\ outcome' = "ok"
      BY <1>6, <2>1 DEF RenameDone
    <2>3. walk' \in Seq(Walked) /\ Once(walk)'
      BY <2>2 DEF Once
    <2> QED BY <2>2, <2>3, FixedTexts
  <1>7. CASE ForeignWrite
    <2>1. PICK p \in Walked, t \in Texts : contents' = [contents EXCEPT ![p] = t]
      BY <1>7 DEF ForeignWrite
    <2>2. contents' \in [Walked -> AnyText]
      BY <2>1, GivenTexts
    <2>3. writes' \in 0 .. MaxWrites
      <3>1. writes < MaxWrites /\ writes' = writes + 1 /\ writes \in 0 .. MaxWrites
        BY <1>7 DEF ForeignWrite
      <3> QED BY <3>1, Bounds, OneFewer
    <2> QED BY <1>7, <2>2, <2>3 DEF ForeignWrite
  <1>8. CASE UNCHANGED editingVars
    BY <1>8 DEF editingVars, Once
  <1> QED BY <1>1, <1>2, <1>3, <1>4, <1>5, <1>6, <1>7, <1>8 DEF EditingNext
\* What is written is what the call's blocks make of the text it found.
LEMMA StagedIsWhole ==
    ASSUME EditingTypes, EditUnderWay, outcome = "", call.tool = "edit"
    PROVE  LET blocks == ParseFlexible(call.diff).blocks
               Step(i) == StageFile(before[Target], SubSeq(blocks, 1, i))
           IN /\ staged = Step(Len(blocks))
              /\ \A i \in DOMAIN blocks : Applies(Step(i - 1), blocks[i], Step(i))
  <1> DEFINE blocks == ParseFlexible(call.diff).blocks
  <1>1. call.diff \in Diffs /\ before[Target] \in AnyText
    BY CallFacts, WalkedFacts DEF EditingTypes
  <1>2. blocks \in Seq(Blocks)
    BY <1>1, DiffFacts
  <1>3. staged = StageFile(before[Target], blocks) /\ staged # Refused
    BY DEF EditUnderWay
  <1> HIDE DEF blocks
  <1>4. /\ StageFile(before[Target], SubSeq(blocks, 1, Len(blocks))) = StageFile(before[Target], blocks)
        /\ \A i \in DOMAIN blocks :
              Applies(StageFile(before[Target], SubSeq(blocks, 1, i - 1)), blocks[i],
                      StageFile(before[Target], SubSeq(blocks, 1, i)))
    BY <1>1, <1>2, <1>3, StagedBlocksApply
  <1> QED BY <1>3, <1>4 DEF blocks

LEMMA EditStep ==
    EditingInvariant /\ [EditingNext]_editingVars => EditUnderWay' /\ NotYetWritten' /\ EditIsWhole'
  <1> SUFFICES ASSUME EditingInvariant, [EditingNext]_editingVars
               PROVE  EditUnderWay' /\ NotYetWritten' /\ EditIsWhole'
    OBVIOUS
  <1>0. EditingTypes /\ EditUnderWay /\ NotYetWritten /\ EditIsWhole
    BY DEF EditingInvariant, EditingIsHonest, ResultsAreTrue
  <1>a. outcome \in {"", "ok", "error", "torn"} /\ call.tool \in {"none", "edit", "write", "rename"}
    BY <1>0, CallFacts DEF EditingTypes
  <1>1. CASE EditFile
    <2>1. PICK d \in Diffs :
             LET parsed == ParseFlexible(d)
                 text == StageFile(contents[Target], parsed.blocks)
                 fails == Target \notin Writable \/ ~ parsed.ok \/ parsed.blocks = <<>> \/ text = Refused
             IN /\ Begin(EditOf(d))
                /\ outcome' = IF fails THEN "error" ELSE ""
                /\ staged' = IF fails THEN Gone ELSE text
                /\ UNCHANGED <<contents, walk, hits, cut, landed>>
      BY <1>1 DEF EditFile
    <2>2. /\ call' = EditOf(d) /\ call'.diff = d /\ call'.tool = "edit"
          /\ before' = contents /\ contents' = contents
      BY <2>1, CallFacts DEF Begin
    <2>3. EditUnderWay'
      BY <2>1, <2>2 DEF EditUnderWay
    <2>4. NotYetWritten'
      BY <2>2 DEF NotYetWritten
    <2>5. EditIsWhole'
      <3>1. outcome' # "ok"
        BY <2>1
      <3> QED BY <2>2, <3>1 DEF EditIsWhole
    <2> QED BY <2>3, <2>4, <2>5
  <1>2. CASE WriteFile \/ RenameSymbol
    <2>1. call'.tool \in {"write", "rename"} /\ before' = contents /\ contents' = contents
      BY <1>2, CallFacts DEF WriteFile, RenameSymbol, Begin
    <2> QED BY <2>1 DEF EditUnderWay, NotYetWritten, EditIsWhole
  <1>3. CASE WriteStaged
    <2>1. /\ outcome = "" /\ outcome' \in {"ok", "error", "torn"}
          /\ outcome' = "ok" => contents' = [contents EXCEPT ![Target] = staged]
          /\ outcome' = "error" => contents' = contents
          /\ call' = call /\ before' = before /\ foreign' = foreign
      BY <1>3 DEF WriteStaged, Idle
    <2>2. EditUnderWay' /\ NotYetWritten'
      BY <2>1 DEF EditUnderWay, NotYetWritten
    <2>3. EditIsWhole'
      <3> SUFFICES ASSUME call'.tool = "edit", ~ foreign'
                   PROVE  CASE outcome' = "ok" ->
                                 LET blocks == ParseFlexible(call'.diff).blocks
                                     Step(i) == StageFile(before'[Target], SubSeq(blocks, 1, i))
                                 IN /\ contents' = [before' EXCEPT ![Target] = Step(Len(blocks))]
                                    /\ \A i \in DOMAIN blocks : Applies(Step(i - 1), blocks[i], Step(i))
                            [] outcome' = "error" -> contents' = before'
                            [] OTHER -> TRUE
        BY DEF EditIsWhole
      <3>1. contents = before
        BY <1>0, <2>1 DEF NotYetWritten
      <3>2. CASE outcome' = "ok"
        <4>1. LET blocks == ParseFlexible(call.diff).blocks
                  Step(i) == StageFile(before[Target], SubSeq(blocks, 1, i))
              IN /\ staged = Step(Len(blocks))
                 /\ \A i \in DOMAIN blocks : Applies(Step(i - 1), blocks[i], Step(i))
          BY <1>0, <2>1, StagedIsWhole
        <4> QED BY <2>1, <3>1, <3>2, <4>1
      <3>3. CASE outcome' # "ok"
        BY <2>1, <3>1, <3>3
      <3> QED BY <3>2, <3>3
    <2> QED BY <2>2, <2>3
  <1>4. CASE RenameStep \/ RenameDone
    <2>1. call' = call /\ call.tool = "rename"
      BY <1>4 DEF RenameStep, RenameDone
    <2> QED BY <2>1 DEF EditUnderWay, NotYetWritten, EditIsWhole
  <1>5. CASE ForeignWrite
    <2>1. foreign' /\ UNCHANGED <<call, staged, outcome, before>>
      BY <1>5 DEF ForeignWrite
    <2> QED BY <1>0, <2>1 DEF EditUnderWay, NotYetWritten, EditIsWhole
  <1>6. CASE UNCHANGED editingVars
    <2>1. UNCHANGED <<contents, call, staged, outcome, before, foreign>>
      BY <1>6 DEF editingVars
    <2> QED BY <1>0, <2>1 DEF EditUnderWay, NotYetWritten, EditIsWhole, Idle
  <1> QED BY <1>1, <1>2, <1>3, <1>4, <1>5, <1>6 DEF EditingNext

LEMMA LandedStep ==
    EditingInvariant /\ [EditingNext]_editingVars => LandedStands'
  <1> SUFFICES ASSUME EditingInvariant, [EditingNext]_editingVars PROVE LandedStands'
    OBVIOUS
  <1>0. EditingTypes /\ EditUnderWay /\ LandedStands
    BY DEF EditingInvariant, EditingIsHonest
  <1>1. CASE UNCHANGED <<contents, landed>> \/ landed' = NoDiff
    BY <1>0, <1>1 DEF LandedStands
  <1>2. CASE WriteStaged /\ outcome' = "ok" /\ call.tool = "edit"
    <2>1. /\ outcome = "" /\ landed' = call.diff
          /\ contents' = [contents EXCEPT ![Target] = staged]
      BY <1>2 DEF WriteStaged, Idle
    <2>2. contents'[Target] = staged
      BY <1>0, <2>1, WalkedFacts DEF EditingTypes
    <2>3. call.diff \in Diffs /\ before[Target] \in AnyText
      BY <1>0, <1>2, CallFacts, WalkedFacts DEF EditingTypes
    <2> DEFINE blocks == ParseFlexible(call.diff).blocks
    <2>4. staged = StageFile(before[Target], blocks) /\ staged # Refused
      BY <1>0, <1>2, <2>1 DEF EditUnderWay
    <2>5. ASSUME Appends(call.diff) PROVE Has(staged, blocks)
      <3>1. blocks \in Seq(Blocks) /\ blocks # <<>> /\ OnlyAppends(blocks)
        BY <2>3, <2>5, DiffFacts
      <3> HIDE DEF blocks
      <3> QED BY <2>3, <2>4, <3>1, AppendsLand
    <2> QED BY <2>1, <2>2, <2>5 DEF LandedStands
  <1>3. CASE WriteStaged /\ ~ (outcome' = "ok" /\ call.tool = "edit")
    BY <1>1, <1>3 DEF WriteStaged
  <1>4. CASE EditFile \/ WriteFile \/ RenameSymbol \/ RenameDone
    BY <1>1, <1>4 DEF EditFile, WriteFile, RenameSymbol, RenameDone
  <1>5. CASE RenameStep
    BY <1>1, <1>5 DEF RenameStep, SkipUnread, LeaveOut, RenameFile
  <1>6. CASE ForeignWrite
    BY <1>1, <1>6 DEF ForeignWrite
  <1>7. CASE UNCHANGED editingVars
    BY <1>1, <1>7 DEF editingVars
  <1> QED BY <1>2, <1>3, <1>4, <1>5, <1>6, <1>7 DEF EditingNext
\* One file of the walk.
LEMMA RenameFileStep ==
    ASSUME EditingTypes, RenameUnderWay, RenameStep, ~ foreign
    PROVE  RenameUnderWay' /\ RenameIsHonest'
  <1> DEFINE p == Head(walk)
             text == contents[p]
  <1>1. /\ outcome = "" /\ call.tool = "rename" /\ walk # <<>>
        /\ call' = call /\ before' = before /\ foreign' = foreign
        /\ call.confirm \in BOOLEAN
    BY CallFacts DEF RenameStep, Idle, EditingTypes
  <1>2. /\ p \in Walked /\ p \in ToSet(walk) /\ ToSet(Tail(walk)) = ToSet(walk) \ {p}
    <2>1. walk \in Seq(Walked) /\ Once(walk)
      BY DEF EditingTypes
    <2> QED BY <1>1, <2>1, WalkOn
  <1>3. contents \in [Walked -> AnyText] /\ before \in [Walked -> AnyText] /\ text \in AnyText
    BY <1>2 DEF EditingTypes
  <1>4. /\ call.confirm => Changed = Names(hits)
        /\ ~ call.confirm => Changed = {}
        /\ Changed \cap ToSet(walk) = {}
        /\ call.confirm => \A q \in Walked \ ToSet(walk) : OldIn(contents[q]) => cut
    BY <1>1 DEF RenameUnderWay
  <1>5. p \notin Changed /\ before[p] = text
    BY <1>2, <1>4 DEF Changed
  <1> HIDE DEF text, p
  <1>6. CASE SkipUnread
    <2>1. /\ ~ OldIn(text) /\ walk' = Tail(walk)
          /\ contents' = contents /\ hits' = hits /\ cut' = cut /\ outcome' = outcome
      <3>1. text = Gone \/ CountOf(text) = 0
        BY <1>6 DEF SkipUnread, text, p
      <3>2. ~ OldIn(text)
        BY <3>1 DEF OldIn
      <3> QED BY <1>6, <3>2 DEF SkipUnread, Skipping
    <2>2. Changed' = Changed
      BY <1>1, <2>1 DEF Changed
    <2>3. \A q \in Walked \ ToSet(walk') : q = p \/ q \in Walked \ ToSet(walk)
      BY <1>2, <2>1
    <2>4. RenameUnderWay'
      BY <1>1, <1>2, <1>4, <2>1, <2>2, <2>3 DEF RenameUnderWay, text
    <2> QED BY <1>1, <2>1, <2>4 DEF RenameIsHonest, Idle
  <1>7. CASE LeaveOut
    <2>1. /\ walk' = Tail(walk) /\ cut'
          /\ contents' = contents /\ hits' = hits /\ outcome' = outcome
      BY <1>7 DEF LeaveOut, Skipping
    <2>2. Changed' = Changed
      BY <1>1, <2>1 DEF Changed
    <2>3. RenameUnderWay'
      BY <1>1, <1>2, <1>4, <2>1, <2>2 DEF RenameUnderWay
    <2> QED BY <1>1, <2>1, <2>3 DEF RenameIsHonest, Idle
  <1>8. CASE RenameFile
    <2>1. CountOf(text) > 0 /\ cut' = cut /\ hits' = Append(hits, <<p, CountOf(text)>>)
      BY <1>8 DEF RenameFile, ReportIt, text, p
    <2>2. Names(hits') = Names(hits) \cup {p}
      <3>1. hits \in Seq(Lines) /\ <<p, CountOf(text)>> \in Lines
        BY <1>2, <1>3, Counting DEF Lines, EditingTypes
      <3>2. Names(Append(hits, <<p, CountOf(text)>>)) = Names(hits) \cup {<<p, CountOf(text)>>[1]}
        BY <3>1, OneMore
      <3> QED BY <2>1, <3>2
    <2>3. CASE ~ call.confirm /\ walk' = Tail(walk) /\ contents' = contents /\ outcome' = outcome
      <3>1. Changed' = Changed
        BY <1>1, <2>3 DEF Changed
      <3>2. RenameUnderWay'
        BY <1>1, <1>2, <1>4, <2>3, <3>1 DEF RenameUnderWay
      <3> QED BY <1>1, <2>3, <3>2 DEF RenameIsHonest, Idle
    <2>4. CASE /\ call.confirm /\ walk' = Tail(walk) /\ outcome' = outcome
               /\ contents' = [contents EXCEPT ![p] = Renamed(text)]
      <3>1. Renamed(text) # text /\ ~ OldIn(Renamed(text))
        BY <1>3, <2>1, RenamedIs DEF OldIn
      <3>2. contents'[p] = Renamed(text) /\ \A q \in Walked \ {p} : contents'[q] = contents[q]
        BY <1>2, <1>3, <2>4
      <3>3. Changed' = Changed \cup {p}
        BY <1>1, <1>2, <1>5, <3>1, <3>2 DEF Changed
      <3>4. Changed' = Names(hits')
        BY <1>4, <2>2, <2>4, <3>3
      <3>5. Changed' \cap ToSet(walk') = {}
        BY <1>2, <1>4, <2>4, <3>3
      <3>6. \A q \in Walked \ ToSet(walk') : OldIn(contents'[q]) => cut'
        BY <1>2, <1>4, <2>1, <2>4, <3>1, <3>2
      <3>7. RenameUnderWay'
        BY <1>1, <2>4, <3>4, <3>5, <3>6 DEF RenameUnderWay
      <3> QED BY <1>1, <2>4, <3>7 DEF RenameIsHonest, Idle
    <2>5. CASE /\ call.confirm /\ outcome' = "error"
               /\ contents' \in {contents, [contents EXCEPT ![p] = <<>>]}
      <3>1. \A q \in Walked \ {p} : contents'[q] = contents[q]
        BY <1>2, <1>3, <2>5
      <3>2. Changed' \subseteq Changed \cup {p}
        BY <1>1, <3>1 DEF Changed
      <3>3. \A q \in Walked : contents'[q] # before'[q] => q \in Names(hits')
        BY <1>4, <2>2, <2>5, <3>2 DEF Changed
      <3>4. \A q \in Names(hits') : \E i \in DOMAIN hits' : hits'[i][1] = q
        BY DEF Names
      <3>5. RenameIsHonest'
        BY <1>1, <2>5, <3>3, <3>4 DEF RenameIsHonest
      <3> QED BY <2>5, <3>5 DEF RenameUnderWay
    <2> QED BY <1>8, <2>3, <2>4, <2>5 DEF RenameFile, Skipping, text, p
  <1> QED BY <1>6, <1>7, <1>8 DEF RenameStep

LEMMA RenamePartStep ==
    EditingInvariant /\ [EditingNext]_editingVars => RenameUnderWay' /\ RenameIsHonest'
  <1> SUFFICES ASSUME EditingInvariant, [EditingNext]_editingVars
               PROVE  RenameUnderWay' /\ RenameIsHonest'
    OBVIOUS
  <1>0. EditingTypes /\ RenameUnderWay /\ RenameIsHonest
    BY DEF EditingInvariant, EditingIsHonest, ResultsAreTrue
  <1>1. CASE EditFile \/ WriteFile
    <2>1. call'.tool \in {"edit", "write"}
      BY <1>1, CallFacts DEF EditFile, WriteFile, Begin
    <2> QED BY <2>1 DEF RenameUnderWay, RenameIsHonest
  <1>2. CASE WriteStaged
    <2>1. call'.tool \in {"edit", "write"}
      BY <1>2 DEF WriteStaged
    <2> QED BY <2>1 DEF RenameUnderWay, RenameIsHonest
  <1>3. CASE RenameSymbol
    <2>1. /\ contents' = contents /\ before' = contents /\ outcome' = "" /\ hits' = <<>>
          /\ walk' = EditFiles
      BY <1>3 DEF RenameSymbol, Begin
    <2>2. Changed' = {} /\ Names(hits') = {}
      BY <2>1, Nobody DEF Changed
    <2>3. Walked \ ToSet(walk') = {}
      BY <2>1, WalkedFacts
    <2> QED BY <2>1, <2>2, <2>3 DEF RenameUnderWay, RenameIsHonest, Idle
  <1>4. CASE RenameStep
    <2>1. CASE foreign
      <3>1. foreign'
        BY <1>4, <2>1 DEF RenameStep
      <3> QED BY <3>1 DEF RenameUnderWay, RenameIsHonest
    <2>2. CASE ~ foreign
      BY <1>0, <1>4, <2>2, RenameFileStep
    <2> QED BY <2>1, <2>2
  <1>5. CASE RenameDone
    <2>1. /\ outcome = "" /\ outcome' = "ok" /\ walk = <<>> /\ call.tool = "rename"
          /\ contents' = contents /\ before' = before /\ call' = call /\ foreign' = foreign
          /\ hits' = hits /\ cut' = cut
      BY <1>5 DEF RenameDone, Idle
    <2>2. ToSet(walk) = {}
      BY <2>1, Nobody
    <2>3. RenameUnderWay'
      BY <2>1 DEF RenameUnderWay
    <2>4. RenameIsHonest'
      <3> SUFFICES ASSUME ~ foreign
                   PROVE  /\ ~ call.confirm => contents = before
                          /\ call.confirm => /\ Changed = Names(hits)
                                             /\ \A p \in Walked : OldIn(contents[p]) => cut
        BY <2>1 DEF RenameIsHonest, Changed, Names, OldIn
      <3>1. /\ call.confirm => Changed = Names(hits)
            /\ ~ call.confirm => Changed = {}
            /\ call.confirm => \A p \in Walked \ ToSet(walk) : OldIn(contents[p]) => cut
        BY <1>0, <2>1 DEF RenameUnderWay
      <3>2. Changed = {} => contents = before
        <4>1. contents = [p \in Walked |-> contents[p]] /\ before = [p \in Walked |-> before[p]]
          BY <1>0 DEF EditingTypes
        <4>2. Changed = {} => \A p \in Walked : contents[p] = before[p]
          BY DEF Changed
        <4> QED BY <4>1, <4>2
      <3> QED BY <2>2, <3>1, <3>2
    <2> QED BY <2>3, <2>4
  <1>6. CASE ForeignWrite
    <2>1. foreign'
      BY <1>6 DEF ForeignWrite
    <2> QED BY <2>1 DEF RenameUnderWay, RenameIsHonest
  <1>7. CASE UNCHANGED editingVars
    <2>1. UNCHANGED <<contents, call, walk, hits, cut, outcome, before, foreign>>
      BY <1>7 DEF editingVars
    <2>2. Changed' = Changed
      BY <2>1 DEF Changed
    <2>3. RenameUnderWay'
      BY <1>0, <2>1, <2>2 DEF RenameUnderWay
    <2>4. RenameIsHonest'
      <3>1. /\ {p \in Walked : contents'[p] # before'[p]} = {p \in Walked : contents[p] # before[p]}
            /\ {hits'[i][1] : i \in DOMAIN hits'} = {hits[i][1] : i \in DOMAIN hits}
        BY <2>1
      <3> QED BY <1>0, <2>1, <3>1 DEF RenameIsHonest, Idle
    <2> QED BY <2>3, <2>4
  <1> QED BY <1>1, <1>2, <1>3, <1>4, <1>5, <1>6, <1>7 DEF EditingNext

LEMMA EditingInvariantHolds ==
    EditingSpec => []EditingInvariant
  <1>1. EditingInit => EditingInvariant
    BY EditingInitHolds
  <1>2. EditingInvariant /\ [EditingNext]_editingVars => EditingInvariant'
    BY EditingStepTypes, EditStep, LandedStep, RenamePartStep
       DEF EditingInvariant, EditingIsHonest, ResultsAreTrue
  <1> QED BY <1>1, <1>2, PTL DEF EditingSpec

\* Whatever is sent to the editing tools, and whoever else writes, a call that writes
\* does what its result says: the blocks of an edit land together, each where its SEARCH
\* stood once, or nothing lands (multi.go); a rename rewrites the files it reports and
\* no others, and leaves the old name in no file without saying so (rename.go).
THEOREM ResultsOfToolsAreTrue ==
    EditingSpec => [](EditingTypeOK /\ ResultsAreTrue)
  <1>1. EditingInvariant => EditingTypeOK /\ ResultsAreTrue
    BY DEF EditingInvariant, EditingIsHonest, EditingTypes, EditingTypeOK, Idle
  <1> QED BY <1>1, EditingInvariantHolds, PTL

\* An append sent a second time adds nothing (append.go).
THEOREM AppendsLandOnce ==
    EditingSpec => LandsOnce
  <1>1. EditingInvariant /\ [EditingNext]_editingVars
        => [landed # NoDiff /\ Appends(landed) /\ call.tool = "edit" /\ call.diff = landed
              /\ ~ foreign /\ outcome' = "ok" /\ outcome = "" => contents' = contents]_editingVars
    <2> SUFFICES ASSUME EditingInvariant, EditingNext,
                        landed # NoDiff, Appends(landed), call.tool = "edit", call.diff = landed,
                        ~ foreign, outcome' = "ok", outcome = ""
                 PROVE  contents' = contents
      BY DEF editingVars
    <2>0. EditingTypes /\ EditUnderWay /\ NotYetWritten /\ LandedStands
      BY DEF EditingInvariant, EditingIsHonest
    <2>1. WriteStaged
      BY DEF EditingNext, EditFile, WriteFile, RenameSymbol, RenameStep, RenameDone, ForeignWrite,
             Begin, Idle
    <2>2. contents' = [contents EXCEPT ![Target] = staged]
      BY <2>1 DEF WriteStaged
    <2> DEFINE blocks == ParseFlexible(landed).blocks
    <2>3. contents = before /\ staged = StageFile(before[Target], blocks) /\ staged # Refused
      BY <2>0 DEF EditUnderWay, NotYetWritten
    <2>4. landed \in Diffs /\ contents \in [Walked -> AnyText]
      BY <2>0 DEF EditingTypes
    <2>5. blocks \in Seq(Blocks) /\ OnlyAppends(blocks) /\ Has(contents[Target], blocks)
      BY <2>0, <2>4, DiffFacts DEF LandedStands
    <2> HIDE DEF blocks
    <2>6. staged = contents[Target]
      BY <2>3, <2>5, AppendsAgain
    <2> QED BY <2>2, <2>4, <2>6, WalkedFacts
  <1> QED BY <1>1, EditingInvariantHolds, PTL DEF EditingSpec, LandsOnce
=============================================================================
