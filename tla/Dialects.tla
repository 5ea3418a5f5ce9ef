------------------------------ MODULE Dialects ------------------------------
(***************************************************************************)
(* How a reply becomes calls: the adapters and the text dialects of        *)
(* internal/tools (native_fc, xml_fallback, json_text, function_xml,       *)
(* dsml_invoke, invoke_name_xml, arg_key_xml, toolcall_shape).             *)
(*                                                                         *)
(* A reply is a sequence of marks.  Every dialect opens a call with its    *)
(* name and an argument with its key and closes both; models forget the    *)
(* closing ones, and the server that parses native calls may leave the     *)
(* markup of the next call in the last argument of the one before.  In     *)
(* JSON a mark is a brace with its key.  No text and no key is a mark.     *)
(* dsml is the invoke dialect inside the wrapper it is documented with.    *)
(***************************************************************************)
EXTENDS Naturals, SequencesExt, FiniteSetsExt

CONSTANTS Replies   \* replies: dialect, what the server made of it, and calls:
                    \* name, closed, and args: key, text, closed

InvokeDialects == {"invoke", "dsml"}
TextDialects == InvokeDialects \cup {"function", "invoke_name", "arg_key"}

\* A server leaves the reply as text, parses each call, folds what follows the
\* first into it, or sends arguments that are no JSON.  Prose has no call.
ASSUME DialectAssumption ==
    \A r \in Replies :
        /\ r.dialect \in TextDialects \cup {"json", "xml", "prose"}
        /\ r.server \in {"text", "parses", "folds", "breaks"}
        /\ r.calls \in Seq(ToSet(r.calls))
        /\ \A c \in ToSet(r.calls) :
              /\ c.closed \in BOOLEAN
              /\ c.args \in Seq(ToSet(c.args))
              /\ \A b \in ToSet(c.args) : b.closed \in BOOLEAN
        /\ r.dialect = "prose" => r.calls = <<>>
        /\ r.server # "text" => r.calls # <<>>
        /\ r.server = "folds" => r.dialect = "function"

VARIABLES
    reply,    \* the reply under way
    adapter,  \* the adapter of the run, and whether it repairs
    place,    \* the call the reply answers: the chat gate or a turn
    verdict,  \* what became of the reply
    got       \* the calls read from it

dialectVars == <<reply, adapter, place, verdict, got>>

NoReply == [dialect |-> "prose", server |-> "text", calls |-> <<>>]

DialectInit ==
    /\ reply = NoReply
    /\ adapter = [kind |-> "native", repair |-> FALSE]
    /\ place = "turn"
    /\ verdict = "waiting"
    /\ got = <<>>

-----------------------------------------------------------------------------
(* The text of a reply *)

Mark(kind, v) == [kind |-> kind, v |-> v]
Marks == {"call", "/call", "arg", "/arg"}

ArgText(a) == <<Mark("arg", a.key), Mark("text", a.text)>> \o IF a.closed THEN <<Mark("/arg", "")>> ELSE <<>>
CallText(c) ==
    <<Mark("call", c.name)>> \o FlattenSeq([i \in DOMAIN c.args |-> ArgText(c.args[i])])
        \o IF c.closed THEN <<Mark("/call", "")>> ELSE <<>>
ReplyText(r) ==
    IF r.calls = <<>> THEN <<Mark("text", "prose")>>
    ELSE FlattenSeq([i \in DOMAIN r.calls |-> CallText(r.calls[i])])

\* The first mark of one of these kinds at or after i, or the end of the text.
FirstOf(text, i, kinds) ==
    Min({j \in i .. Len(text) : text[j].kind \in kinds} \cup {Len(text) + 1})

-----------------------------------------------------------------------------
(* Reading one dialect *)

\* Where the body of the call opened at i ends.
BodyEnd(d, text, i) ==
    CASE d = "function"    -> FirstOf(text, i + 1, {"call", "/call"})
      [] d \in InvokeDialects \cup {"invoke_name"} -> FirstOf(text, i + 1, {"call"})
      [] OTHER ->   \* arg_key and xml look for the closing mark first
           IF FirstOf(text, i + 1, {"/call"}) <= Len(text) THEN FirstOf(text, i + 1, {"/call"})
           ELSE FirstOf(text, i + 1, {"call"})

\* extractInvokeToolCalls cuts a body inside the tag of the next call, whose opener
\* stays in it, and the last body runs to the end of the wrapper.
Left(d, text, e) ==
    IF d \in InvokeDialects /\ e <= Len(text) THEN <<Mark("opener", "")>>
    ELSE IF d = "dsml" THEN <<Mark("/calls", "")>> ELSE <<>>

\* Where the value of the argument opened at i ends, in a body.
ValueEnd(d, body, i) ==
    IF d = "function" \/ d \in InvokeDialects THEN FirstOf(body, i + 1, Marks)
    ELSE FirstOf(body, i + 1, {"/arg"})

\* The arguments of a body from i on: key and value.  An element that is never
\* closed is no argument in the invoke_name dialect; a value that nothing ends takes
\* what is left in the body (boundedInvokeValue).
ReadArgs(d, body, left) ==
    LET Args[i \in 1 .. Len(body) + 1] ==
            LET a == FirstOf(body, i, {"arg"})
                e == ValueEnd(d, body, a)
            IN IF a > Len(body) THEN <<>>
               ELSE IF d = "invoke_name" /\ e > FirstOf(body, a + 1, {"arg", "/call"}) THEN Args[a + 1]
               ELSE <<[key   |-> body[a].v,
                       value |-> SubSeq(body, a + 1, e - 1) \o IF e > Len(body) THEN left ELSE <<>>]>>
                    \o Args[IF e > Len(body) THEN e ELSE IF body[e].kind = "/arg" THEN e + 1 ELSE e]
    IN Args[1]

\* The calls of a text, one after the other.
ReadCalls(d, text) ==
    LET From[i \in 1 .. Len(text) + 1] ==
            LET c == FirstOf(text, i, {"call"})
                e == BodyEnd(d, text, c)
            IN IF c > Len(text) THEN <<>>
               ELSE <<[name |-> text[c].v, args |-> ReadArgs(d, SubSeq(text, c + 1, e - 1), Left(d, text, e))]>>
                    \o From[e]
    IN From[1]

\* extractJSONToolCalls: objects that balance; nothing after one that does not.
ReadJson(r) ==
    LET n == FirstOf([i \in DOMAIN r.calls |->
                        Mark(IF r.calls[i].closed /\ \A j \in DOMAIN r.calls[i].args : r.calls[i].args[j].closed
                             THEN "whole" ELSE "cut", "")], 1, {"cut"})
    IN [i \in 1 .. n - 1 |->
           [name |-> r.calls[i].name,
            args |-> [j \in DOMAIN r.calls[i].args |->
                         [key |-> r.calls[i].args[j].key, value |-> <<Mark("text", r.calls[i].args[j].text)>>]]]]

\* What the server made of the calls: each one, or the first one alone, whose last
\* value holds the rest when nothing closed it.
NativeCall(c, tail) ==
    [name |-> c.name,
     args |-> [j \in DOMAIN c.args |->
                  [key   |-> c.args[j].key,
                   value |-> <<Mark("text", c.args[j].text)>> \o IF j = Len(c.args) THEN tail ELSE <<>>]]]
ReadNative(r) ==
    IF r.server = "folds"
    THEN LET c    == r.calls[1]
             rest == FlattenSeq([i \in 1 .. Len(r.calls) - 1 |-> CallText(r.calls[i + 1])])
         IN <<NativeCall(c, IF c.args = <<>> \/ c.args[Len(c.args)].closed THEN <<>>
                            ELSE <<Mark("/call", "")>> \o rest)>>
    ELSE [i \in DOMAIN r.calls |-> NativeCall(r.calls[i], <<>>)]

\* stripToolCallTail: from the first mark of the <tool_call>/<function=> markup on.
StripTail(r, value) ==
    SubSeq(value, 1, FirstOf(value, 1, CASE r.dialect = "function" -> Marks
                                         [] r.dialect = "arg_key"  -> {"call", "/call"}
                                         [] OTHER                  -> {}) - 1)

SanitizeArgs(r, calls) ==
    [i \in DOMAIN calls |->
        [name |-> calls[i].name,
         args |-> [j \in DOMAIN calls[i].args |->
                      [key |-> calls[i].args[j].key, value |-> StripTail(r, calls[i].args[j].value)]]]]

-----------------------------------------------------------------------------
(* The adapters *)

Unparsed == [error |-> TRUE, calls |-> <<>>]
Parsed(r, calls) == [error |-> FALSE, calls |-> SanitizeArgs(r, calls)]

OnlyReadable(r) ==                    \* bug: an attempt is what can be read
    r.dialect \in TextDialects

\* looksLikeToolCall: the markers of every dialect but JSON.
LooksLikeToolCall(r) == r.dialect \notin {"json", "prose"} /\ r.calls # <<>>

\* NativeFCAdapter.ParseAll: the server's calls, if their arguments are JSON; else
\* JSON, then each dialect of the text; an attempt that none can read is an error.
ParseNative(r) ==
    LET calls == CASE r.server # "text"          -> ReadNative(r)
                   [] r.server = "text" /\ r.dialect = "json" -> ReadJson(r)
                   [] r.server = "text" /\ r.dialect \in TextDialects -> ReadCalls(r.dialect, ReplyText(r))
                   [] OTHER -> <<>>
    IN IF r.server = "breaks" \/ (calls = <<>> /\ LooksLikeToolCall(r)) THEN Unparsed
       ELSE Parsed(r, calls)

\* XMLAdapter.ParseAll: a call or an argument without its end is an error, unless
\* it is the last one and KLOO_TOOL_REPAIR takes the rest of the text for it.
ParseXml(r, repair) ==
    LET text       == ReplyText(r)
        End(i)     == FirstOf(text, i, {"/call"})
        Open(i)    == text[i].kind = "call" /\ End(i) > Len(text)
        OpenArg(i) == text[i].kind = "arg" /\ FirstOf(text, i, {"/arg"}) >= End(i)
        Final(i)   == FirstOf(text, i + 1, {text[i].kind}) >= End(i)
    IN IF r.dialect # "xml" THEN Parsed(r, <<>>)
       ELSE IF \E i \in DOMAIN text : (Open(i) \/ OpenArg(i)) /\ ~(repair /\ Final(i)) THEN Unparsed
       ELSE Parsed(r, ReadCalls("xml", text))

ParseAll(a, r) == IF a.kind = "native" THEN ParseNative(r) ELSE ParseXml(r, a.repair)

-----------------------------------------------------------------------------
(* The run *)

\* SelectAdapter, for a run, and a reply of the model.
Reply(r, a, p) ==
    /\ verdict = "waiting"
    /\ r.server # "text" => a.kind = "native" /\ p = "turn"
    /\ reply' = r
    /\ adapter' = a
    /\ place' = p
    /\ verdict' = "unread"
    /\ got' = <<>>

\* chatGate shows a reply that looks like no call and is no TASK verdict.
ReadAtGate ==
    /\ verdict = "unread" /\ place = "gate"
    /\ verdict' = IF LooksLikeToolCall(reply) \/ (reply.dialect = "json" /\ ReadJson(reply) # <<>>)
                  THEN "run" ELSE "answer"
    /\ UNCHANGED <<reply, adapter, place, got>>

\* act: the calls are dispatched, a malformed reply is corrected, one without a
\* call is an answer.
ReadInTurn ==
    /\ verdict = "unread" /\ place = "turn"
    /\ LET p == ParseAll(adapter, reply)
       IN /\ got' = p.calls
          /\ verdict' = IF p.error THEN "corrective" ELSE IF p.calls = <<>> THEN "answer" ELSE "dispatch"
    /\ UNCHANGED <<reply, adapter, place>>

DialectNext ==
    \/ \E r \in Replies, a \in [kind : {"native", "xml"}, repair : BOOLEAN], p \in {"gate", "turn"} : Reply(r, a, p)
    \/ ReadAtGate
    \/ ReadInTurn

DialectSpec == DialectInit /\ [][DialectNext]_dialectVars

-----------------------------------------------------------------------------
(* Properties *)

\* Every part of the state has its type.
DialectTypeOK ==
    /\ reply \in Replies \cup {NoReply}
    /\ adapter \in [kind : {"native", "xml"}, repair : BOOLEAN]
    /\ place \in {"gate", "turn"}
    /\ verdict \in {"waiting", "unread", "run", "answer", "dispatch", "corrective"}
    /\ \A c \in ToSet(got) : DOMAIN c = {"name", "args"}

\* Only the last call, and only its last argument, lacks its closing mark.
OnlyTheEndIsMissing(r) ==
    \A i \in DOMAIN r.calls :
        /\ r.calls[i].closed \/ i = Len(r.calls)
        /\ \A j \in DOMAIN r.calls[i].args :
              r.calls[i].args[j].closed \/ (i = Len(r.calls) /\ j = Len(r.calls[i].args))

\* The argument that nothing ends: the last one of a call that is not closed either.
LeftOpen(c) == IF c.closed THEN {} ELSE {b \in ToSet(c.args) : ~b.closed /\ b = c.args[Len(c.args)]}

\* One call never swallows the next (function_xml.go, dsml_invoke.go,
\* invoke_name_xml.go): however many marks the model forgot, and whatever the
\* server folded into an argument, each call that is dispatched was written, and
\* so was each of its arguments, to the letter.  In the arg_key and xml dialects
\* that holds when only the end of the reply is missing.  In the invoke dialects an
\* argument that nothing ends may end in the opener of the next call, or in the end
\* of the wrapper, though its value is said never to keep such a fragment
\* (dsml_invoke.go:19-20, 97-99, 114-115).
CallsKeepTheirArgs ==
    (reply.dialect \in {"arg_key", "xml"} => OnlyTheEndIsMissing(reply)) =>
        \A c \in ToSet(got) : \E w \in ToSet(reply.calls) :
            /\ c.name = w.name
            /\ \A a \in ToSet(c.args) : \E b \in ToSet(w.args) :
                  /\ a.key = b.key
                  /\ \/ a.value = <<Mark("text", b.text)>>
                     \/ /\ reply.dialect \in InvokeDialects /\ b \in LeftOpen(w)
                        /\ \E m \in {"opener", "/calls"} : a.value = <<Mark("text", b.text), Mark(m, "")>>

\* An action is no conversation (loop.go:4598-4611, native_fc.go:74-77): the gate
\* and a turn with the native adapter never show the user an attempted call as
\* the answer.  JSON that does not balance is the exception: it leaves no marker.
AttemptIsNoAnswer ==
    verdict = "answer" /\ (place = "gate" \/ adapter.kind = "native") =>
        reply.calls = <<>> \/ (reply.dialect = "json" /\ ReadJson(reply) = <<>>)


\* A reply is taken for what the model wrote: its calls for these very calls.
RepliesAreRead == CallsKeepTheirArgs /\ AttemptIsNoAnswer
=============================================================================
