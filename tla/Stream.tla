-------------------------------- MODULE Stream --------------------------------
(***************************************************************************)
(* One streamed answer: Client.Stream and parseSSE of internal/llm/sse.go. *)
(*                                                                         *)
(* The body is a sequence of lines.  Data lines collect in a buffer until  *)
(* a blank line ends the event; an event is decoded as one JSON value and  *)
(* its delta is absorbed and handed on.  A watchdog cancels the request    *)
(* when no delta comes for a while; the caller may cancel it; the body may *)
(* end or fail anywhere, in the middle of a line too.                      *)
(*                                                                         *)
(* A piece of text or of a tool call's arguments is the number of the      *)
(* event that carried it.  Keep-alive comments and other SSE fields change *)
(* nothing and are left out.                                               *)
(***************************************************************************)
EXTENDS Naturals, Sequences, SequencesExt

CONSTANTS
    Indices,    \* the tool calls a stream may interleave
    NoIndex,
    Deltas,     \* the deltas of the instance: content, reasoning, or a fragment
                \* of the tool call with an index
    MaxEvents   \* bound: events in a stream

ASSUME StreamAssumption ==
    /\ NoIndex \notin Indices /\ MaxEvents \in Nat
    /\ Deltas \subseteq [kind : {"delta"}, text : BOOLEAN, think : BOOLEAN,
                         frag : Indices \cup {NoIndex}]

VARIABLES
    reader,       \* "headers", "top" (of the read loop), "read", "parsed", "returned"
    dataBuf,  \* the data lines of the event being read
    acc,      \* the accumulator
    shown,    \* what onDelta has forwarded: pieces of content
    events,   \* ghost: the events dispatched
    idled,    \* the watchdog fired
    stopped,  \* the caller's context is done
    streamed    \* how Stream returned

streamVars == <<reader, dataBuf, acc, shown, events, idled, stopped, streamed>>

Plain(kind) == [kind |-> kind, text |-> FALSE, think |-> FALSE, frag |-> NoIndex]
\* "finish" stands for the chunks without content: finish_reason, usage.
Payloads == Deltas \cup {Plain(k) : k \in {"finish", "done", "error", "bad"}}
Torn == Plain("torn")  \* a line the body ended in the middle of

Errors == {"silent", "idle", "cut", "reset", "decode", "chunk error", "status",
           "refused", "cancelled"}
NoResult == "none"

NewAccumulator == [text |-> <<>>, think |-> <<>>, calls |-> <<>>, finish |-> FALSE]

\* absorbDelta: a fragment goes to the call of its index, wherever that call is.
AbsorbDelta(a, d, n) ==
    LET pos == SelectInSeq(a.calls, LAMBDA c : c.index = d.frag)
        calls == IF d.frag = NoIndex THEN a.calls
                 ELSE IF pos = 0
                 THEN Append(a.calls, [index |-> d.frag, args |-> <<n>>])
                 ELSE [a.calls EXCEPT ![pos].args = Append(@, n)]
    IN  [a EXCEPT !.text = IF d.text THEN Append(@, n) ELSE @,
                  !.think = IF d.think THEN Append(@, n) ELSE @,
                  !.calls = calls]

\* FinalizeReasoning: thinking stands in for content that is not there.
Content(a) == IF a.text = <<>> THEN a.think ELSE a.text

StreamInit ==
    /\ reader = "headers"
    /\ dataBuf = <<>>
    /\ acc = NewAccumulator
    /\ shown = <<>>
    /\ events = <<>>
    /\ idled = FALSE /\ stopped = FALSE
    /\ streamed = NoResult

ContextDone == idled \/ stopped

-----------------------------------------------------------------------------
(* Client.do: until the headers *)

Respond ==
    /\ reader = "headers" /\ ~ContextDone
    /\ reader' = "top"
    /\ UNCHANGED <<dataBuf, acc, shown, events, idled, stopped, streamed>>

\* No response: a status other than 2xx, a transport error, or the context,
\* whoever cancelled it.
NoResponse ==
    /\ reader = "headers"
    /\ streamed' \in IF ContextDone
                   THEN {IF stopped THEN "cancelled" ELSE "silent"}
                   ELSE {"status", "refused", "reset"}
    /\ reader' = "returned"
    /\ UNCHANGED <<dataBuf, acc, shown, events, idled, stopped>>

-----------------------------------------------------------------------------
(* parseSSE *)

ParsedAs(r) == reader' = "parsed" /\ streamed' = r

\* The top of the read loop looks at the context, then reads one line.
ReadLoop ==
    /\ reader = "top"
    /\ IF ContextDone THEN ParsedAs("cancelled") ELSE reader' = "read" /\ UNCHANGED streamed
    /\ UNCHANGED <<dataBuf, acc, shown, events, idled, stopped>>

\* What dispatching the buffered event comes to: "none" goes on, "done" stops.
Decoded(buf) ==
    IF Len(buf) # 1 \/ Head(buf).kind \in {"torn", "bad"} THEN Plain("bad") ELSE Head(buf)
Dispatch(buf) ==
    IF buf = <<>> THEN NoResult
    ELSE CASE Decoded(buf).kind = "bad"   -> "decode"
           [] Decoded(buf).kind = "error" -> "chunk error"
           [] Decoded(buf).kind = "done"  -> "done"
           [] OTHER -> NoResult

\* flushEvent: its effect on the accumulator and on the screen.
Flush(buf) ==
    LET e == Decoded(buf)
        n == Len(events) + 1
    IN  /\ dataBuf' = <<>>
        /\ IF buf = <<>> THEN UNCHANGED <<acc, shown, events>>
           ELSE /\ events' = Append(events, e)
                /\ acc' = CASE e.kind = "delta" -> AbsorbDelta(acc, e, n)
                            [] e.kind = "finish" -> [acc EXCEPT !.finish = TRUE]
                            [] OTHER -> acc
                /\ shown' = IF e.kind = "delta" /\ e.text THEN Append(shown, n)
                                                          ELSE shown

DataLine ==
    /\ reader = "read" /\ Len(events) < MaxEvents /\ Len(dataBuf) < 2
    /\ \E p \in Payloads : dataBuf' = Append(dataBuf, p)
    /\ reader' = "top"
    /\ UNCHANGED <<acc, shown, events, idled, stopped, streamed>>

BlankLine ==
    /\ reader = "read"
    /\ Flush(dataBuf)
    /\ LET r == Dispatch(dataBuf) IN
       IF r = NoResult THEN reader' = "top" /\ UNCHANGED streamed
                      ELSE ParsedAs(IF r = "done" THEN "ok" ELSE r)
    /\ UNCHANGED <<idled, stopped>>

EndsWell(buf) ==                         \* bug: the end of the body ends the answer
    IF Dispatch(buf) \in {NoResult, "done"} THEN "ok" ELSE Dispatch(buf)
\* At the end of the body the last event is flushed too; without [DONE] the
\* stream is incomplete.
AtEnd(buf) ==
    LET r == Dispatch(buf) IN
    CASE r = NoResult -> "cut"
      [] r = "done"  -> "ok"
      [] OTHER -> r

\* The body ends, between two lines or in the middle of one.
EndOfBody ==
    /\ reader = "read"
    /\ \E buf \in {dataBuf, Append(dataBuf, Torn)} : Flush(buf) /\ ParsedAs(AtEnd(buf))
    /\ UNCHANGED <<idled, stopped>>

\* The connection breaks, or the context does while the read is waiting; between
\* two lines the event read so far is still flushed, and may end the answer.
BodyFails ==
    /\ reader = "read"
    /\ LET broken == IF stopped THEN "cancelled" ELSE "reset"
           r      == Dispatch(dataBuf)
       IN \/ ParsedAs(broken) /\ UNCHANGED <<dataBuf, acc, shown, events>>
          \/ /\ Flush(dataBuf)
             /\ ParsedAs(CASE r = NoResult -> broken [] r = "done" -> "ok" [] OTHER -> r)
    /\ UNCHANGED <<idled, stopped>>

\* Stream returns: whatever the parser said, a watchdog that has fired by now
\* makes it a stall.
StreamReturns ==
    /\ reader = "parsed"
    /\ reader' = "returned"
    /\ streamed' = IF idled THEN "idle" ELSE streamed
    /\ UNCHANGED <<dataBuf, acc, shown, events, idled, stopped>>

-----------------------------------------------------------------------------
(* The watchdog and the caller *)

Watchdog ==
    /\ reader # "returned" /\ ~idled
    /\ idled' = TRUE
    /\ UNCHANGED <<reader, dataBuf, acc, shown, events, stopped, streamed>>

CallerStops ==
    /\ reader # "returned" /\ ~stopped
    /\ stopped' = TRUE
    /\ UNCHANGED <<reader, dataBuf, acc, shown, events, idled, streamed>>

StreamNext ==
    Respond \/ NoResponse \/ ReadLoop \/ DataLine \/ BlankLine \/ EndOfBody \/ BodyFails
    \/ StreamReturns \/ Watchdog \/ CallerStops

StreamSpec == StreamInit /\ [][StreamNext]_streamVars

-----------------------------------------------------------------------------
(* Properties *)

\* Every part of the state has its type.
StreamTypeOK ==
    /\ reader \in {"headers", "top", "read", "parsed", "returned"}
    /\ dataBuf \in Seq(Payloads \cup {Torn})
    /\ events \in Seq(Payloads) /\ shown \in Seq(Nat)
    /\ acc.text \in Seq(Nat) /\ acc.think \in Seq(Nat)
    /\ acc.calls \in Seq([index : Indices, args : Seq(Nat)])
    /\ idled \in BOOLEAN /\ stopped \in BOOLEAN
    /\ streamed \in Errors \cup {NoResult, "ok"}

\* These numbers, each once and in order.
InOrder(s, numbers) ==
    ToSet(s) = numbers /\ \A i, j \in DOMAIN s : i < j => s[i] < s[j]

\* However the fragments of several calls interleave, each call is made of its own,
\* in the order they came, no call comes twice, and what was shown is the content
\* received and nothing of the thinking.
Reassembled ==
    /\ InOrder(acc.text, {n \in DOMAIN events : events[n].text}) /\ shown = acc.text
    /\ shown # <<>> => shown = Content(acc)
    /\ InOrder(acc.think, {n \in DOMAIN events : events[n].think})
    /\ \A i \in DOMAIN acc.calls :
          InOrder(acc.calls[i].args, {n \in DOMAIN events : events[n].frag = acc.calls[i].index})
    /\ {acc.calls[i].index : i \in DOMAIN acc.calls} =
          {events[n].frag : n \in DOMAIN events} \ {NoIndex}
    /\ \A i, j \in DOMAIN acc.calls :
          i < j => acc.calls[i].args[1] < acc.calls[j].args[1]

\* An answer without an error was received to its end: half a tool call is
\* never handed to the loop as a whole one.
NoHalfAnswer ==
    streamed = "ok" => /\ events # <<>> /\ Last(events).kind = "done"
                     /\ \A n \in DOMAIN events : events[n].kind \notin {"bad", "error"}

\* What the loop is given of a stream is what the model sent, whole and in order.
StreamIsWhole == Reassembled /\ NoHalfAnswer
=============================================================================
