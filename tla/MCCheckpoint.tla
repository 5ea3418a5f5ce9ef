---------------------------- MODULE MCCheckpoint ----------------------------
(* One instance of Checkpoint for TLC: a run that edits one file, and is    *)
(* interrupted.                                                             *)
EXTENDS Checkpoint

CONSTANTS old, empty, missing, clean, a

OnePath     == {a}
AllContents == {old, empty}
ToEmpty     == {empty}
None        == {}

\* The run's edits write `empty` and the file does not start with it, so that an
\* edit always shows; git tracks what is in HEAD.
MCInit ==
    /\ CheckpointInit
    /\ \A p \in Paths : /\ disk[p] # empty /\ head[p] # empty
                        /\ p \in index <=> head[p] # missing

MCSpec == MCInit /\ [][CheckpointNext]_checkpointVars

-----------------------------------------------------------------------------
\* What checkpoint.go says of Rollback without the condition of PredatingKept:
\* "git knows it -> it existed at the checkpoint -> restore THAT content".  So
\* a tracked file that was there when the checkpoint began, and that nobody but
\* the run has touched since, is never removed by the rollback.
TrackedNeverDeleted ==
    [][\A p \in Paths \ others :
         /\ RollbackStep
         /\ began[p] # Missing /\ p \in index
         => disk[p] = Missing \/ disk'[p] # Missing]_checkpointVars
=============================================================================
