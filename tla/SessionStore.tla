------------------------------ MODULE SessionStore ------------------------------
(***************************************************************************)
(* Saved sessions: session.Store of internal/session, LoopRunner.persist   *)
(* and LoopRunner.RenameSession of internal/tui, and resuming by id.       *)
(*                                                                         *)
(* The goroutine of a run saves the session when the run ends; /rename     *)
(* saves it under a new id and then removes the old file, on the event     *)
(* loop, also while a run is active: the two share the session without a   *)
(* lock.  A save marshals the session, reads its id again for the path,    *)
(* writes path.tmp and renames that to path.  Any step may fail, and the   *)
(* process may die between any two; then a later launch resumes a file.    *)
(***************************************************************************)
EXTENDS Naturals, FiniteSets

CONSTANTS
    Names,      \* session ids
    NoName,
    MaxRuns     \* bound: runs saved

ASSUME SessionAssumption == NoName \notin Names /\ MaxRuns \in Nat

Savers == {"run", "rename"}
Contents == [id : Names, runs : 0 .. MaxRuns]
Absent == [id |-> NoName, runs |-> 0]
Garbled == [id |-> NoName, runs |-> 1]  \* truncated, or cut off in the middle

VARIABLES
    sess,     \* the session in memory; Absent: no process
    files,    \* per name, name.json
    temps,    \* per name, name.json.tmp
    savers,   \* per saver, the Save it is in
    durable,  \* ghost: the runs the last save of a run that succeeded has written
    raced     \* ghost: two saves have been under way at once

sessionVars == <<sess, files, temps, savers, durable, raced>>

Ready == [pc |-> "ready", data |-> Absent, name |-> NoName, old |-> NoName]

SessionInit ==
    /\ sess = Absent
    /\ files = [n \in Names |-> Absent]
    /\ temps = [n \in Names |-> Absent]
    /\ savers = [s \in Savers |-> Ready]
    /\ durable = 0
    /\ raced = FALSE

Up == sess # Absent
Parses(f) == f \in Contents

SaverMoves(s, r) == savers' = [savers EXCEPT ![s] = r]

\* persist, at the end of a run.
PersistRun ==
    /\ Up /\ savers["run"].pc = "ready" /\ sess.runs < MaxRuns
    /\ sess' = [sess EXCEPT !.runs = @ + 1]
    /\ SaverMoves("run", [Ready EXCEPT !.pc = "marshal"])
    /\ raced' = (raced \/ savers["rename"].pc # "ready")
    /\ UNCHANGED <<files, temps, durable>>

TakesOver(n) == n # sess.id              \* bug: a name in use is overwritten
\* Rename refuses a name that is taken.
MayRename(n) == n # sess.id /\ files[n] = Absent

RenameTo(n) ==
    /\ Up /\ savers["rename"].pc = "ready" /\ MayRename(n)
    /\ sess' = [sess EXCEPT !.id = n]
    /\ SaverMoves("rename", [Ready EXCEPT !.pc = "marshal", !.old = sess.id])
    /\ raced' = (raced \/ savers["run"].pc # "ready")
    /\ UNCHANGED <<files, temps, durable>>

Marshal(s) ==
    /\ savers[s].pc = "marshal"
    /\ SaverMoves(s, [savers[s] EXCEPT !.pc = "open", !.data = sess])
    /\ UNCHANGED <<sess, files, temps, durable, raced>>

\* WriteFile creates or truncates, then writes.
OpenTemp(s) ==
    /\ savers[s].pc = "open"
    /\ SaverMoves(s, [savers[s] EXCEPT !.pc = "write", !.name = sess.id])
    /\ temps' = [temps EXCEPT ![sess.id] = Garbled]
    /\ UNCHANGED <<sess, files, durable, raced>>

\* The other saver may have renamed the file by now: it is written all the same.
WriteTemp(s) ==
    /\ savers[s].pc = "write"
    /\ SaverMoves(s, [savers[s] EXCEPT !.pc = "move"])
    /\ IF temps[savers[s].name] # Absent
       THEN temps' = [temps EXCEPT ![savers[s].name] = savers[s].data] /\ UNCHANGED files
       ELSE files' = [files EXCEPT ![savers[s].name] = savers[s].data] /\ UNCHANGED temps
    /\ UNCHANGED <<sess, durable, raced>>

AfterMove(s) ==
    IF s = "rename" THEN [savers[s] EXCEPT !.pc = "remove"] ELSE Ready

MoveTemp(s) ==
    /\ savers[s].pc = "move"
    /\ LET n == savers[s].name IN
       /\ temps[n] # Absent
       /\ files' = [files EXCEPT ![n] = temps[n]]
       /\ temps' = [temps EXCEPT ![n] = Absent]
       /\ durable' = IF s = "run" THEN savers[s].data.runs ELSE durable
    /\ SaverMoves(s, AfterMove(s))
    /\ UNCHANGED <<sess, raced>>

\* A step of Save fails: the run lets it be, the rename takes the old id back.
SaveFails(s) ==
    /\ savers[s].pc \in {"open", "write", "move"}
    /\ SaverMoves(s, Ready)
    /\ sess' = IF s = "rename" THEN [sess EXCEPT !.id = savers[s].old] ELSE sess
    /\ UNCHANGED <<files, temps, durable, raced>>

\* The old file goes last; that this fails is not noticed.
RemoveOld ==
    /\ savers["rename"].pc = "remove"
    /\ files' \in {files, [files EXCEPT ![savers["rename"].old] = Absent]}
    /\ SaverMoves("rename", Ready)
    /\ UNCHANGED <<sess, temps, durable, raced>>

\* The process ends, between two steps or when nothing is under way.
Die ==
    /\ Up
    /\ sess' = Absent
    /\ savers' = [s \in Savers |-> Ready]
    /\ UNCHANGED <<files, temps, durable, raced>>

\* kloo: NewID, from the clock, gives an id no file has.
NewProcess(n) ==
    /\ ~Up /\ files[n] = Absent /\ temps[n] = Absent
    /\ durable = 0
    /\ sess' = [id |-> n, runs |-> 0]
    /\ UNCHANGED <<files, temps, savers, durable, raced>>

\* kloo --resume n; the id in the file is the one that counts from then on.
Resume(n) ==
    /\ ~Up /\ Parses(files[n])
    /\ sess' = files[n]
    /\ UNCHANGED <<files, temps, savers, durable, raced>>

SessionNext ==
    \/ PersistRun \/ RemoveOld \/ Die
    \/ \E n \in Names : RenameTo(n) \/ NewProcess(n) \/ Resume(n)
    \/ \E s \in Savers : \/ Marshal(s) \/ OpenTemp(s) \/ WriteTemp(s)
                         \/ MoveTemp(s) \/ SaveFails(s)

SessionSpec == SessionInit /\ [][SessionNext]_sessionVars

-----------------------------------------------------------------------------
(* Properties *)

\* Every part of the state has its type.
SessionTypeOK ==
    /\ sess \in Contents \cup {Absent}
    /\ files \in [Names -> Contents \cup {Absent, Garbled}]
    /\ temps \in [Names -> Contents \cup {Absent, Garbled}]
    /\ savers \in [Savers -> [pc : {"ready", "marshal", "open", "write", "move", "remove"},
                              data : Contents \cup {Absent},
                              name : Names \cup {NoName}, old : Names \cup {NoName}]]
    /\ durable \in 0 .. MaxRuns /\ raced \in BOOLEAN

\* A crash or a failure at any step of a save or of a rename loses no run that had
\* been saved: some file can be resumed that holds it.  And with no save under way
\* the id the user is told at the exit is one that resumes, once anything was saved.
NothingSavedIsLost ==
    ~raced =>
      /\ durable > 0 => \E n \in Names : Parses(files[n]) /\ files[n].runs >= durable
      /\ Up /\ durable > 0 /\ (\A s \in Savers : savers[s].pc = "ready")
            => Parses(files[sess.id])
=============================================================================
