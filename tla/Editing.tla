------------------------------ MODULE Editing ------------------------------
(***************************************************************************)
(* The edit engine (internal/edit) and the tools that write through it:    *)
(* edit_file and write_file (internal/tools/files.go) and rename_symbol    *)
(* (rename.go).                                                            *)
(*                                                                         *)
(* A text is a sequence of pieces: identifiers, each taken whole, and the  *)
(* line break NL, which the last line of a file may lack.  A diff is a     *)
(* sequence of lines, a marker line being its kind.  Each tool reads and   *)
(* then writes, and somebody else (the user, a command the run started)    *)
(* may write in between; os.WriteFile truncates before it writes, so a     *)
(* write that fails can leave nothing of the file.                         *)
(***************************************************************************)
EXTENDS Naturals, SequencesExt, FiniteSetsExt

CONSTANTS
    EditFiles,  \* the files, in the order of the sorted walk
    Writable,   \* the files the write scope leaves open
    Texts,      \* what the files hold at first, and what others write
    Diffs,      \* the diffs a model sends to edit_file
    OldName, NewName,   \* the two identifiers of a rename
    MaxHits,    \* renameMaxFiles
    MaxWrites   \* bound: calls, and writes by others

\* The walk lists each file once, and a rename of a name to itself is refused.
ASSUME EditingAssumption ==
    /\ EditFiles \in Seq(ToSet(EditFiles)) /\ EditFiles # <<>>
    /\ \A i, j \in DOMAIN EditFiles : EditFiles[i] = EditFiles[j] => i = j
    /\ \A t \in Texts \cup Diffs : t \in Seq(ToSet(t))
    /\ OldName # NewName /\ MaxHits \in Nat /\ MaxWrites \in Nat

VARIABLES
    contents,   \* the content of each file, Gone if there is none
    call,       \* the call under way, or the last one
    staged,     \* the content edit_file or write_file is about to write
    walk,       \* the files a rename has not reached
    hits,       \* the files the rename reports, with their counts
    cut,        \* truncated: a file with the old name was left out
    outcome,    \* "" while a call runs, then "ok", "error" or "torn"
    before,     \* ghost: the files when the call began
    foreign,    \* ghost: somebody else wrote since
    landed,     \* ghost: the diff that landed last, nothing written since
    writes      \* calls made and writes by others

editingVars == <<contents, call, staged, walk, hits, cut, outcome, before, foreign,
                 landed, writes>>

NL     == "\n"
Gone   == <<"no file">>
NoDiff == <<>>
Target == EditFiles[1]      \* the file edit_file and write_file name
Walked == ToSet(EditFiles)

-----------------------------------------------------------------------------
(* Parsing *)

EditMarkers == {"search", "div", "repl"}

\* The next line from i on that is one of `kinds`; 0 when there is none.
NextOf(lines, i, kinds) ==
    LET at == {j \in i .. Len(lines) : lines[j] \in kinds}
    IN IF at = {} THEN 0 ELSE Min(at)

\* The text of some lines: each ends in a line break.
Body(lines) ==
    FlattenSeq([i \in DOMAIN lines |-> IF lines[i] = "blank" THEN <<NL>> ELSE <<lines[i], NL>>])

Malformed == [ok |-> FALSE, blocks |-> <<>>]
Block(lines, s, d, r) ==
    [search |-> Body(SubSeq(lines, s + 1, d - 1)), replace |-> Body(SubSeq(lines, d + 1, r - 1))]
Followed(block, rest) == [rest EXCEPT !.blocks = IF rest.ok THEN <<block>> \o @ ELSE @]

\* Fenced blocks only: a name above the fence, the three markers in their
\* order, the fence closed right after.
Parse(lines) ==
    LET n == Len(lines)
        From[i \in 1 .. n + 1] ==
            LET d == NextOf(lines, i + 2, EditMarkers)
                r == NextOf(lines, d + 1, EditMarkers)
            IN IF i > n THEN [ok |-> TRUE, blocks |-> <<>>]
               ELSE IF ~ (lines[i] = "fence" /\ i < n /\ lines[i + 1] = "search") THEN From[i + 1]
               ELSE IF \/ i = 1
                       \/ lines[i - 1] \in EditMarkers \cup {"fence", "blank"}
                       \/ d = 0 \/ (d # 0 /\ lines[d] # "div")
                       \/ r = 0 \/ (r # 0 /\ lines[r] # "repl")
                       \/ r = n \/ (r \in 1 .. n - 1 /\ lines[r + 1] # "fence")
                    THEN Malformed
               ELSE Followed(Block(lines, i + 1, d, r), From[r + 2])
    IN From[1]

\* Bare markers.  A REPLACE where the divider belongs is taken for it: the
\* replacement then runs to the next SEARCH or to the end.
ParseBare(lines) ==
    LET n == Len(lines)
        From[s \in 1 .. n + 1] ==
            LET d == NextOf(lines, s + 1, EditMarkers)
                r == NextOf(lines, d + 1, EditMarkers)
                next == NextOf(lines, d + 1, {"search"})
                end == IF next = 0 THEN n + 1 ELSE next
                drop == IF end > d + 1 /\ lines[end - 1] = "blank" THEN 1 ELSE 0
            IN IF s > n THEN [ok |-> TRUE, blocks |-> <<>>]
               ELSE IF lines[s] # "search" THEN From[s + 1]
               ELSE IF d = 0 \/ (d # 0 /\ lines[d] = "search") THEN Malformed
               ELSE IF lines[d] = "repl"
                    THEN Followed(Block(lines, s, d, end - drop), From[end])
               ELSE IF r = 0 \/ (r # 0 /\ lines[r] # "repl") THEN Malformed
               ELSE Followed(Block(lines, s, d, r), From[r + 1])
    IN From[1]

\* The lines that are no fence.
Unfenced(lines) ==
    LET kept[i \in 0 .. Len(lines)] ==
            IF i = 0 THEN <<>>
            ELSE IF lines[i] = "fence" THEN kept[i - 1] ELSE Append(kept[i - 1], lines[i])
    IN kept[Len(lines)]

\* A fenced block that is broken is read again as bare, unless that reading
\* would delete.
ParseFlexible(lines) ==
    LET strict == Parse(lines)
        again  == ParseBare(Unfenced(lines))
    IN IF strict.ok
       THEN IF strict.blocks # <<>> THEN strict ELSE ParseBare(lines)
       ELSE IF /\ again.ok /\ again.blocks # <<>>
               /\ \A b \in ToSet(again.blocks) : b.replace # <<>>
            THEN again ELSE strict

-----------------------------------------------------------------------------
(* Applying *)

Positions(text, part) ==
    {i \in 1 .. Len(text) + 1 - Len(part) : SubSeq(text, i, i + Len(part) - 1) = part}
Holds(text, part) == part # <<>> /\ Positions(text, part) # {}

\* strings.Count is 1: what else matches overlaps the first match.
MatchesOnce(text, part) ==
    Holds(text, part) /\ \A i, j \in Positions(text, part) : i < j + Len(part)

Refused == <<"refused">>

Spliced(text, i, b) ==
    SubSeq(text, 1, i - 1) \o b.replace \o SubSeq(text, i + Len(b.search), Len(text))

ApplyBlock(text, b) ==
    IF MatchesOnce(text, b.search) THEN Spliced(text, Min(Positions(text, b.search)), b)
    ELSE Refused

\* An append of what is there already is refused, so that it can be sent twice.
AppendTwice(text, add) ==                \* bug: a repeated append is repeated
    IF text = <<>> \/ Last(text) = NL THEN text \o add ELSE text \o <<NL>> \o add
AppendTo(text, add) ==
    IF Holds(text, add) THEN Refused
    ELSE IF text = <<>> \/ Last(text) = NL THEN text \o add ELSE text \o <<NL>> \o add

StageBlock(text, b) ==
    IF text = Refused THEN Refused
    ELSE IF b.search # <<>> THEN IF text = Gone THEN Refused ELSE ApplyBlock(text, b)
    ELSE IF text = Gone THEN b.replace ELSE AppendTo(text, b.replace)

\* All of a file's blocks, in their order, on the content read once.
StageSkipping(text, blocks) ==           \* bug: a block that fails is skipped
    LET after[i \in 0 .. Len(blocks)] ==
            IF i = 0 THEN text
            ELSE LET u == StageBlock(after[i - 1], blocks[i])
                 IN IF u = Refused THEN after[i - 1] ELSE u
    IN after[Len(blocks)]
StageFile(text, blocks) ==
    LET after[i \in 0 .. Len(blocks)] ==
            IF i = 0 THEN text ELSE StageBlock(after[i - 1], blocks[i])
    IN after[Len(blocks)]

-----------------------------------------------------------------------------
(* The calls *)

Idle     == outcome # ""
NoCall   == [tool |-> "none"]
EditOf(d)      == [tool |-> "edit", diff |-> d]
WriteOf(t)     == [tool |-> "write", text |-> t]
RenameOf(sure) == [tool |-> "rename", confirm |-> sure]

Begin(c) ==
    /\ Idle /\ writes < MaxWrites
    /\ writes' = writes + 1
    /\ call' = c /\ before' = contents /\ foreign' = FALSE

\* EditFile up to the write: the scope, the parser, the staging.
EditFile ==
    \E diff \in Diffs :
        LET parsed == ParseFlexible(diff)
            text   == StageFile(contents[Target], parsed.blocks)
            fails  == Target \notin Writable \/ ~ parsed.ok \/ parsed.blocks = <<>> \/ text = Refused
        IN /\ Begin(EditOf(diff))
           /\ outcome' = IF fails THEN "error" ELSE ""
           /\ staged' = IF fails THEN Gone ELSE text
           /\ UNCHANGED <<contents, walk, hits, cut, landed>>

WriteFile ==
    \E text \in Texts \ {Gone} :
        /\ Begin(WriteOf(text))
        /\ outcome' = IF Target \in Writable THEN "" ELSE "error"
        /\ staged' = IF Target \in Writable THEN text ELSE Gone
        /\ UNCHANGED <<contents, walk, hits, cut, landed>>

\* os.WriteFile: it may not open the file, or lose it.
WriteStaged ==
    /\ ~ Idle /\ call.tool \in {"edit", "write"}
    /\ \/ /\ contents' = [contents EXCEPT ![Target] = staged] /\ outcome' = "ok"
          /\ landed' = IF call.tool = "edit" THEN call.diff ELSE NoDiff
       \/ /\ outcome' = "error" /\ UNCHANGED <<contents, landed>>
       \/ /\ contents' = [contents EXCEPT ![Target] = <<>>] /\ outcome' = "torn"
          /\ landed' = NoDiff
    /\ staged' = Gone
    /\ UNCHANGED <<call, walk, hits, cut, before, foreign, writes>>

-----------------------------------------------------------------------------
(* rename_symbol *)

CountOf(text)   == Cardinality({i \in DOMAIN text : text[i] = OldName})
Renamed(text)   == [i \in DOMAIN text |-> IF text[i] = OldName THEN NewName ELSE text[i]]

RenameSymbol ==
    \E sure \in BOOLEAN :
        /\ Begin(RenameOf(sure))
        /\ walk' = EditFiles /\ hits' = <<>> /\ cut' = FALSE /\ outcome' = ""
        /\ UNCHANGED <<contents, staged, landed>>

Skipping == walk' = Tail(walk)
Past(limit) == Len(hits) >= limit
ReportIt == hits' = Append(hits, <<Head(walk), CountOf(contents[Head(walk)])>>)

\* A file that cannot be read is passed over.
SkipUnread ==
    /\ contents[Head(walk)] = Gone \/ CountOf(contents[Head(walk)]) = 0
    /\ Skipping
    /\ UNCHANGED <<contents, hits, cut, outcome, landed>>

\* Over the cap the file is left alone, and the report says so.
LeaveOut ==
    /\ contents[Head(walk)] # Gone /\ CountOf(contents[Head(walk)]) > 0
    /\ Past(MaxHits)
    /\ Skipping /\ cut' = TRUE
    /\ UNCHANGED <<contents, hits, outcome, landed>>

\* WriteFile asks the scope for each file; the first that fails ends the call.
RenameFile ==
    /\ contents[Head(walk)] # Gone /\ CountOf(contents[Head(walk)]) > 0
    /\ ~ Past(MaxHits)
    /\ ReportIt
    /\ \/ /\ ~ call.confirm
          /\ Skipping
          /\ UNCHANGED <<contents, landed, outcome>>
       \/ /\ call.confirm /\ Head(walk) \in Writable
          /\ contents' = [contents EXCEPT ![Head(walk)] = Renamed(@)] /\ landed' = NoDiff
          /\ Skipping
          /\ UNCHANGED outcome
       \/ /\ call.confirm
          /\ outcome' = "error" /\ walk' = <<>>
          /\ \/ UNCHANGED <<contents, landed>>
             \/ /\ Head(walk) \in Writable
                /\ contents' = [contents EXCEPT ![Head(walk)] = <<>>] /\ landed' = NoDiff
    /\ UNCHANGED cut

RenameStep ==
    /\ ~ Idle /\ call.tool = "rename" /\ walk # <<>>
    /\ SkipUnread \/ LeaveOut \/ RenameFile
    /\ UNCHANGED <<call, staged, before, foreign, writes>>

RenameDone ==
    /\ ~ Idle /\ call.tool = "rename" /\ walk = <<>>
    /\ outcome' = "ok"
    /\ UNCHANGED <<contents, call, staged, walk, hits, cut, before, foreign, landed, writes>>

\* Somebody else writes a file, or deletes it.
ForeignWrite ==
    /\ writes < MaxWrites /\ writes' = writes + 1
    /\ \E p \in Walked : \E t \in Texts \ {contents[p]} : contents' = [contents EXCEPT ![p] = t]
    /\ foreign' = TRUE /\ landed' = NoDiff
    /\ UNCHANGED <<call, staged, walk, hits, cut, outcome, before>>

EditingInit ==
    /\ contents = [p \in Walked |-> <<OldName>>]
    /\ call = NoCall /\ staged = Gone /\ walk = <<>> /\ hits = <<>> /\ cut = FALSE
    /\ outcome = "ok" /\ before = contents /\ foreign = FALSE /\ landed = NoDiff
    /\ writes = 0

EditingNext ==
    \/ EditFile \/ WriteFile \/ WriteStaged
    \/ RenameSymbol \/ RenameStep \/ RenameDone
    \/ ForeignWrite

EditingSpec == EditingInit /\ [][EditingNext]_editingVars

-----------------------------------------------------------------------------
\* Every part of the state has its type.
EditingTypeOK ==
    /\ DOMAIN contents = Walked /\ DOMAIN before = Walked
    /\ outcome \in {"", "ok", "error", "torn"}
    /\ Len(hits) <= MaxHits
    /\ staged # Gone => ~ Idle
    /\ writes \in 0 .. MaxWrites

\* A call's blocks land together or not at all: when nobody else wrote and no
\* write was lost, a refused edit leaves every file as it was, and one that is
\* reported done has applied each block, in order, to a text where its SEARCH
\* stood once, or added it at the end (multi.go "that file gets NO partial
\* write").
Applies(t, b, u) ==
    IF b.search = <<>> THEN u = b.replace \/ (t # Gone /\ IsPrefix(t, u) /\ IsSuffix(b.replace, u))
    ELSE \E i \in Positions(t, b.search) : u = Spliced(t, i, b)

EditIsWhole ==
    Idle /\ call.tool = "edit" /\ ~ foreign =>
        CASE outcome = "ok" ->
               LET blocks == ParseFlexible(call.diff).blocks
                   Step(i) == StageFile(before[Target], SubSeq(blocks, 1, i))
               IN /\ contents = [before EXCEPT ![Target] = Step(Len(blocks))]
                  /\ \A i \in DOMAIN blocks : Applies(Step(i - 1), blocks[i], Step(i))
          [] outcome = "error" -> contents = before
          [] OTHER -> TRUE

\* A model that sends the same append again adds nothing: the second call
\* leaves the file as the first one left it (append.go "the guard that makes
\* append safe to retry").
Appends(diff) ==
    LET parsed == ParseFlexible(diff)
    IN parsed.ok /\ parsed.blocks # <<>> /\ \A b \in ToSet(parsed.blocks) : b.search = <<>>

LandsOnce ==
    [][landed # NoDiff /\ Appends(landed) /\ call.tool = "edit" /\ call.diff = landed
         /\ ~ foreign /\ outcome' = "ok" /\ outcome = "" => contents' = contents]_editingVars

\* A rename does what it reports.  Without confirm no file changes.  With it,
\* a call that ends well has rewritten the files of its report and no others,
\* and unless it says that it left some out, none it could read holds the old
\* name (rename.go "The truncation is always reported, never silent").
RenameIsHonest ==
    Idle /\ call.tool = "rename" /\ ~ foreign =>
        /\ ~ call.confirm => contents = before
        /\ call.confirm /\ outcome = "ok" =>
             /\ {p \in Walked : contents[p] # before[p]} = {hits[i][1] : i \in DOMAIN hits}
             /\ \A p \in Walked : contents[p] # Gone /\ CountOf(contents[p]) > 0 => cut
        /\ outcome = "error" =>
             \A p \in Walked : contents[p] # before[p] => \E i \in DOMAIN hits : hits[i][1] = p

\* A call that writes does what its result says.
ResultsAreTrue == EditIsWhole /\ RenameIsHonest
=============================================================================
