------------------------------ MODULE Calibration ------------------------------
(***************************************************************************)
(* The measured ratio of characters to tokens: tokens.Calibrator, what the *)
(* agent loop feeds it, and tokens.Store, the file of a workspace that     *)
(* outlives the process (internal/tokens, internal/cli/tokencal.go).       *)
(*                                                                         *)
(* A ratio is known by what it was learned from: a set of lessons, each a  *)
(* model whose call was paired with a prompt's characters, and whether the *)
(* tokens were that prompt's own, those of all the prompts of its turn, or *)
(* another call's.  Several kloo processes may serve one workspace; every  *)
(* one saves through a Store of its own, so the store's mutex orders       *)
(* nothing between them, and all write one temporary file.                 *)
(***************************************************************************)
EXTENDS Naturals, FiniteSets

CONSTANTS
    Kloos,      \* processes in the workspace
    Tokenizers, \* model names
    MaxBegun    \* bound: runs, over all processes

ASSUME CalibrationAssumption == MaxBegun \in Nat /\ Tokenizers # {}

Lessons == Tokenizers \X {"own", "turn", "other"}
Ratios == SUBSET Lessons                 \* {}: no ratio
Tables == [Tokenizers -> Ratios]

EmptyTable == [m \in Tokenizers |-> {}]

\* What a file may hold: a table, nothing yet, a mix of two writes; or no file.
Holding(table) == [is |-> "table", table |-> table]
NoFile == [is |-> "none", table |-> EmptyTable]
Truncated == [is |-> "truncated", table |-> EmptyTable]
Mixed == [is |-> "mixed", table |-> EmptyTable]
Files == {Holding(t) : t \in Tables} \cup {NoFile, Truncated, Mixed}

VARIABLES
    store,     \* token-calibration.json
    spare,     \* token-calibration.json.tmp
    kloo,      \* per process, its calibrator, its run and the save it is in
    begun,
    wanted,    \* ghost: the ratio last saved under each name
    overlap,   \* ghost: two saves have been under way at once
    unread     \* ghost: a save found the file and could not read it

calibrationVars == <<store, spare, kloo, begun, wanted, overlap, unread>>

Launched(m) == [pc |-> "idle", model |-> m, seed |-> {}, learned |-> {},
               chars |-> FALSE, table |-> EmptyTable, handle |-> "none"]
NotRunning == [Launched(CHOOSE m \in Tokenizers : TRUE) EXCEPT !.pc = "off"]

CalibrationInit ==
    /\ store = NoFile /\ spare = NoFile
    /\ kloo = [p \in Kloos |-> NotRunning]
    /\ begun = 0
    /\ wanted = EmptyTable
    /\ overlap = FALSE /\ unread = FALSE

Saving == {"load", "open", "write", "move"}
Becomes(p, k) == kloo' = [kloo EXCEPT ![p] = k]
FilesStay == UNCHANGED <<store, spare, begun, wanted, overlap, unread>>

\* A file that is missing or does not parse is a cold start, and so is one that
\* cannot be read.
Loaded(f) == f.table

-----------------------------------------------------------------------------
(* Learning *)

KlooStarts(p, m) ==
    /\ kloo[p].pc = "off"
    /\ \E seed \in {Loaded(store)[m], {}} : Becomes(p, [Launched(m) EXCEPT !.seed = seed])
    /\ FilesStay

\* /model: the runs that follow ask, and save under, another name.
SwitchTokenizer(p, m) ==
    /\ kloo[p].pc = "idle" /\ m # kloo[p].model
    /\ Becomes(p, [kloo[p] EXCEPT !.model = m])
    /\ FilesStay

StartAsking(p) ==
    /\ kloo[p].pc = "idle" /\ begun < MaxBegun
    /\ Becomes(p, [kloo[p] EXCEPT !.pc = "run", !.chars = FALSE])
    /\ begun' = begun + 1
    /\ UNCHANGED <<store, spare, wanted, overlap, unread>>

\* observeUsage: the characters of the last prompt are credited once.
Credited(k, kind) ==
    [k EXCEPT !.learned = IF k.chars THEN @ \cup {<<k.model, kind>>} ELSE @, !.chars = FALSE]
CreditedAgain(k, kind) ==                \* bug: the characters are kept
    [k EXCEPT !.learned = IF k.chars THEN @ \cup {<<k.model, kind>>} ELSE @]
Observed(k, kind) == Credited(k, kind)

\* act has built its prompt and measured it.
SendPrompt(p) ==
    /\ kloo[p].pc = "run"
    /\ Becomes(p, [kloo[p] EXCEPT !.pc = "sent", !.chars = TRUE])
    /\ FilesStay

\* The turn is over.  A reply that could not be read was sent back with a corrective,
\* a longer prompt that is not measured, and its tokens are added to the turn's.  No
\* usage comes with a shrunk context or an empty completion of the first prompt;
\* tokens a server does not report are estimated, and teach like reported ones.
TurnOver(p) ==
    /\ kloo[p].pc = "sent"
    /\ LET k == kloo[p]
       IN \/ \E kind \in {"own", "turn"} : Becomes(p, [Observed(k, kind) EXCEPT !.pc = "run"])
          \/ Becomes(p, [k EXCEPT !.pc = "run", !.chars = FALSE])
    /\ FilesStay

\* The chat gate, the distiller and the closing answer report their tokens too,
\* with no prompt measured.
OtherCall(p) ==
    /\ kloo[p].pc = "run"
    /\ Becomes(p, Observed(kloo[p], "other"))
    /\ FilesStay

\* The run's ratio, none if it measured nothing; and what a save is for.
TokenRatio(k) == k.learned
SeededRatio(k) == IF k.learned = {} THEN k.seed ELSE k.learned  \* bug: a seed is reported
Reported(k) == TokenRatio(k)

\* finish; an interrupt or an error leaves the last prompt unobserved.
StopAsking(p) ==
    /\ kloo[p].pc \in {"run", "sent"}
    /\ Becomes(p, [kloo[p] EXCEPT !.pc = IF Reported(kloo[p]) # {} THEN "load" ELSE "idle"])
    /\ overlap' = (overlap \/ (Reported(kloo[p]) # {}
                               /\ \E q \in Kloos \ {p} : kloo[q].pc \in Saving))
    /\ UNCHANGED <<store, spare, begun, wanted, unread>>

-----------------------------------------------------------------------------
(* Saving *)

SavedAlone(k) == [EmptyTable EXCEPT ![k.model] = Reported(k)]
Merged(k) == [Loaded(store) EXCEPT ![k.model] = Reported(k)]

\* What is there is merged into, and whatever cannot be read is not: any error of
\* the read, not only a file that is missing or does not parse, is an empty table.
LoadTable(p) ==
    /\ kloo[p].pc = "load"
    /\ \/ /\ Becomes(p, [kloo[p] EXCEPT !.pc = "open", !.table = Merged(kloo[p])])
          /\ UNCHANGED unread
       \/ /\ store # NoFile
          /\ Becomes(p, [kloo[p] EXCEPT !.pc = "open", !.table = SavedAlone(kloo[p])])
          /\ unread' = TRUE
    /\ UNCHANGED <<store, spare, begun, wanted, overlap>>

\* WriteFile creates the temporary file or truncates the one another process left.
OpenSpare(p) ==
    /\ kloo[p].pc = "open"
    /\ spare' = Truncated
    /\ Becomes(p, [kloo[p] EXCEPT !.pc = "write", !.handle = "spare"])
    /\ UNCHANGED <<store, begun, wanted, overlap, unread>>

\* Writing over what another process has written may leave a mix of the two.
Over(f, table) == {Holding(table)} \cup IF f = Truncated THEN {} ELSE {Mixed}

\* By now the open file may have become the store, or be gone.
WriteSpare(p) ==
    /\ kloo[p].pc = "write"
    /\ LET k == kloo[p] IN
       /\ spare' \in IF k.handle = "spare" THEN Over(spare, k.table) ELSE {spare}
       /\ store' \in IF k.handle = "store" THEN Over(store, k.table) ELSE {store}
    /\ Becomes(p, [kloo[p] EXCEPT !.pc = "move", !.handle = "none"])
    /\ UNCHANGED <<begun, wanted, overlap, unread>>

\* Handles follow the file they were opened on.
FollowsFile(h) == CASE h = "spare" -> "store" [] h = "store" -> "gone" [] OTHER -> h

SaveOver(k) == [k EXCEPT !.pc = "idle", !.table = EmptyTable, !.handle = "none"]

MoveSpare(p) ==
    /\ kloo[p].pc = "move" /\ spare # NoFile
    /\ store' = spare /\ spare' = NoFile
    /\ kloo' = [q \in Kloos |-> IF q = p THEN SaveOver(kloo[p])
                                ELSE [kloo[q] EXCEPT !.handle = FollowsFile(@)]]
    /\ wanted' = [wanted EXCEPT ![kloo[p].model] = kloo[p].learned]
    /\ UNCHANGED <<begun, overlap, unread>>

\* A save that fails is not noticed.
SaveLost(p) ==
    /\ kloo[p].pc \in {"open", "write", "move"}
    /\ Becomes(p, SaveOver(kloo[p]))
    /\ FilesStay

KlooDies(p) ==
    /\ kloo[p].pc # "off"
    /\ Becomes(p, NotRunning)
    /\ FilesStay

CalibrationNext ==
    \E p \in Kloos :
      \/ \E m \in Tokenizers : KlooStarts(p, m) \/ SwitchTokenizer(p, m)
      \/ StartAsking(p) \/ SendPrompt(p) \/ TurnOver(p) \/ OtherCall(p) \/ StopAsking(p)
      \/ LoadTable(p) \/ OpenSpare(p) \/ WriteSpare(p) \/ MoveSpare(p)
      \/ SaveLost(p) \/ KlooDies(p)

CalibrationSpec == CalibrationInit /\ [][CalibrationNext]_calibrationVars

-----------------------------------------------------------------------------
(* Properties *)

\* Every part of the state has its type.
CalibrationTypeOK ==
    /\ store \in Files /\ spare \in Files
    /\ kloo \in [Kloos -> [pc : {"off", "idle", "run", "sent"} \cup Saving,
                           model : Tokenizers, seed : Ratios, learned : Ratios,
                           chars : BOOLEAN, table : Tables,
                           handle : {"none", "spare", "store", "gone"}]]
    /\ begun \in 0 .. MaxBegun
    /\ wanted \in Tables /\ {overlap, unread} \subseteq BOOLEAN

\* As long as no two saves overlap, a crash or a failure at any step of a save leaves
\* a file that parses and holds, under every name, the last ratio a run measured and
\* saved: one that measured nothing saves nothing, and no process wipes another
\* model's, unless it found a file that it could not read; then other models' ratios
\* may be gone, never wrong.  No ratio pairs a prompt's characters with the tokens of
\* a call outside its turn; those of the turn are of several prompts when a reply had
\* to be asked for again, against "this many characters cost exactly this many tokens"
\* (loop.go:4986-4987).
CalibrationKept ==
    /\ \A p \in Kloos : kloo[p].learned \subseteq Tokenizers \X {"own", "turn"}
    /\ ~ overlap =>
        /\ store \notin {Truncated, Mixed}
        /\ \A m \in Tokenizers : \/ Loaded(store)[m] = wanted[m]
                                 \/ unread /\ Loaded(store)[m] = {}
=============================================================================
