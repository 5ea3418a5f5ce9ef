---------------------------- MODULE MCAgentLoop ----------------------------
(* Instances of AgentLoop for TLC. *)
EXTENDS AgentLoop

Move(tool, path, arg) == [tool |-> tool, path |-> path, arg |-> arg]

EditA    == Move("edit", "a", "x")
ReadA    == Move("read", "a", "none")
Inspect  == Move("inspect", NoPath, "test")
Command  == Move("command", NoPath, "make")
Other    == Move("other", NoPath, "none")
Task     == Move("task", NoPath, "none")
Done     == Move("finish", NoPath, "none")

\* A run that edits, reads and verifies, under a scope and with a shell.
VerifyMoves == {EditA, ReadA, Command, Done}
ShellMoves  == {EditA, Inspect, Command, Other, Task, Done}

\* A run that hands its edits to a child, and one that never edits.
ReadMoves == {EditA, ReadA}
SpinMoves == {ReadA, Inspect, Command, Done}

Red(tests)    == [kind |-> "red", tests |-> tests]
Broken(tests) == [kind |-> "broken", tests |-> tests]
Missing       == [kind |-> "missing", tests |-> {}]

OneRed     == {Red({"t"})}
VerifyReds == {Red({"t"}), Red({"t", "u"}), Broken({}), Missing}

NoPaths == {}
OnlyA   == {"a"}

-----------------------------------------------------------------------------
\* What loop.go says of its verify gate, without the condition of
\* SuccessIsEarned: "the green that authorises success was always produced after
\* the last mutation", that of a call that failed half-way too.
PartialWorkVerified == report.reason = "success" => ~ tree.partial
=============================================================================
