------------------------------- MODULE ModelCall -------------------------------
(***************************************************************************)
(* A call of the model: Loop.act, Loop.complete, chatGate and finalAnswer  *)
(* (internal/agent) over llm.Client (internal/llm/client.go).              *)
(*                                                                         *)
(* act asks for one tool call.  Each question it asks goes through         *)
(* complete, which repeats a failed attempt and shrinks the window when    *)
(* the prompt overflows; each attempt is one Client.do, which sends the    *)
(* request again without cache markers when the endpoint rejects them.     *)
(* chatGate and finalAnswer ask once, without complete.                    *)
(*                                                                         *)
(* The endpoint is the environment: an attempt may end in any of           *)
(* Failures, or in any message.  How a stream becomes one of those is      *)
(* module Stream.  A message is what act tells apart; time is left out: a  *)
(* timeout may come at any moment, the patience with a cold start may end  *)
(* at any attempt up to MaxCold.                                           *)
(***************************************************************************)
EXTENDS Naturals, FiniteSets

CONSTANTS
    Callers,       \* loops that share one Client (a run, and one dropped by the user)
    Streaming,     \* OnDelta is set: the answer is shown as it comes
    NoThink,       \* thinking is switched off for the run
    Marked,        \* prompts carry a cache breakpoint
    Retries,       \* LLMRetries
    MaxShrinks,    \* maxContextShrinks
    MaxMalformed,  \* maxMalformedRecoveries
    Windows,       \* the windows a Loop may start with (ContextTokens)
    Limits,        \* limits an overflow may state; 0: one that cannot be read
    Floor,         \* the least window of a shrink (8000)
    \* bounds
    MaxCold,       \* attempts a cold start may add
    MaxAsks        \* calls a caller makes

ASSUME ModelCallAssumption ==
    /\ \A b \in {Streaming, NoThink, Marked} : b \in BOOLEAN
    /\ \A n \in {Retries, MaxShrinks, MaxMalformed, MaxCold, MaxAsks} : n \in Nat
    /\ Windows \subseteq Nat \ {0} /\ Limits \subseteq Nat /\ Floor \in Nat \ {0}

VARIABLES
    call,       \* per caller, its call: see Calls
    cancelled,  \* per caller: its context is done
    window,     \* per caller: ContextTokens
    shrinks,    \* per caller: ctxShrinks
    rejected,   \* Client.cacheRejected
    notices,    \* ghost: notices that caching is off
    asks        \* per caller: calls made

vars == <<call, cancelled, window, shrinks, rejected, notices, asks>>

-----------------------------------------------------------------------------
(* Messages and failures *)

\* What a question is for: act's first, the one without thinking, a corrective;
\* chatGate; finalAnswer.
Stages == {"turn", "nothink", "again", "gate", "closing"}
Once(stage) == stage \in {"gate", "closing"}

\* What act tells apart in a message: a tool call the adapter can parse, one it
\* cannot, prose, and no content at all: with the output used up by thinking or
\* cut by the length limit, or just empty but for a little thinking.
Messages == {"call", "botched", "prose", "runaway", "empty"}

\* runawayThinkingError
Runaway(msg) == msg = "runaway"

Failures ==
    {"idle",      \* ErrStreamIdle: the watchdog, once the headers had come
     "silent",    \* the watchdog before the headers: context canceled
     "cut",       \* ErrStreamIncomplete
     "deadline",  \* Complete's own timeout
     "reset",     \* connection reset, refused, unexpected EOF, an HTTP/2 fault of the peer
     "worker",    \* "... while generating the completion"
     "busy",      \* a status of RetryableStatusCodes
     "cold",      \* one that says the endpoint is powering on
     "overflow",  \* 400: the prompt exceeds the context
     "fatal",     \* any other status, an error chunk, an unreadable body
     "cancelled"} \* the caller's own context
Nothing == "none"

\* A stream alone can stall or be cut, Complete alone has a deadline.
Streams(stage) == Streaming /\ ~Once(stage)
MayFail(stage) ==
    Failures \ ((IF Streams(stage) THEN {"deadline"} ELSE {"idle", "silent", "cut"})
                \cup {"cancelled"})

\* retryableLLMError
Retryable(err) ==
    err \in {"idle", "cut", "deadline", "reset", "worker", "busy", "cold"}

Attempts == Retries + 1

Outcomes ==
    {"call", "prose", "malformed", "nothing", "shrunk", "failed",  \* act
     "task", "action", "reply", "gate failed",                     \* chatGate
     "closing", "salvaged"}                                        \* finalAnswer
NoAnswer == "none"
Pending == "pending"

Calls == [pc : {"idle", "send", "flight", "judge", "wait", "parse"},
          stage : Stages,
          attempt : 1 .. (Attempts + MaxCold),  \* complete's attempt
          botched : 0 .. MaxMalformed,          \* corrective re-prompts sent
          marked : BOOLEAN,                     \* the request in flight carries a marker
          emitted : BOOLEAN,                    \* the attempt has shown text
          shown : Nat,                          \* ghost: attempts of this question that have
          got : Failures \cup Messages \cup {Nothing},  \* how the attempt ended
          sent : Nat,                           \* ghost: requests of this call
          answer : Outcomes \cup {NoAnswer, Pending}]

Idle == [pc |-> "idle", stage |-> "turn", attempt |-> 1, botched |-> 0,
         marked |-> FALSE, emitted |-> FALSE, shown |-> 0,
         got |-> Nothing, sent |-> 0, answer |-> NoAnswer]

Now(c, r) == call' = [call EXCEPT ![c] = r]

\* A question of complete, or the one attempt of a stage that asks once.
Question(k, stage) ==
    [k EXCEPT !.pc = "send", !.stage = stage, !.attempt = 1, !.emitted = FALSE,
              !.shown = 0, !.got = Nothing]

Answered(k, a) == [Idle EXCEPT !.sent = k.sent, !.answer = a]

-----------------------------------------------------------------------------
Init ==
    /\ call = [c \in Callers |-> Idle]
    /\ cancelled = [c \in Callers |-> FALSE]
    /\ window \in [Callers -> Windows]
    /\ shrinks = [c \in Callers |-> 0]
    /\ rejected = FALSE
    /\ notices = 0
    /\ asks = [c \in Callers |-> 0]

\* act, chatGate and finalAnswer begin.
Ask(c) ==
    /\ call[c].pc = "idle"
    /\ asks[c] < MaxAsks
    /\ asks' = [asks EXCEPT ![c] = @ + 1]
    /\ \E stage \in {"turn", "gate", "closing"} :
          Now(c, [Question(call[c], stage) EXCEPT !.botched = 0, !.sent = 0,
                                                  !.answer = Pending])
    /\ UNCHANGED <<cancelled, window, shrinks, rejected, notices>>

-----------------------------------------------------------------------------
(* Client.do: one attempt *)

CarriesMarker(c) == Marked /\ ~Once(call[c].stage) /\ ~rejected

SendWhileLive(c) ==                      \* bug: a cancelled question waits
    /\ call[c].pc = "send" /\ ~cancelled[c]
    /\ Now(c, [call[c] EXCEPT !.emitted = FALSE, !.pc = "flight",
                              !.marked = CarriesMarker(c), !.sent = @ + 1])
    /\ UNCHANGED <<cancelled, window, shrinks, rejected, notices, asks>>
\* post, the first of an attempt; nothing is sent under a done context.
Send(c) ==
    /\ call[c].pc = "send"
    /\ LET k == [call[c] EXCEPT !.emitted = FALSE] IN
       Now(c, IF cancelled[c]
              THEN [k EXCEPT !.pc = "judge", !.got = "cancelled", !.marked = FALSE]
              ELSE [k EXCEPT !.pc = "flight", !.marked = CarriesMarker(c),
                             !.sent = @ + 1])
    /\ UNCHANGED <<cancelled, window, shrinks, rejected, notices, asks>>

Notices(was) == IF was THEN notices ELSE notices + 1

\* The endpoint blames the marker: remember it, say so once, send again without.
RejectCache(c) ==
    /\ call[c].pc = "flight"
    /\ call[c].marked
    /\ notices' = Notices(rejected)
    /\ rejected' = TRUE
    /\ Now(c, IF cancelled[c]
              THEN [call[c] EXCEPT !.pc = "judge", !.got = "cancelled", !.marked = FALSE]
              ELSE [call[c] EXCEPT !.marked = FALSE, !.sent = @ + 1])
    /\ UNCHANGED <<cancelled, window, shrinks, asks>>

\* The answer begins to be shown: content deltas only, never reasoning.
Show(c) ==
    /\ call[c].pc = "flight"
    /\ Streams(call[c].stage) /\ ~call[c].emitted
    /\ Now(c, [call[c] EXCEPT !.emitted = TRUE, !.shown = @ + 1])
    /\ UNCHANGED <<cancelled, window, shrinks, rejected, notices, asks>>

\* The attempt fails; what fails before the first event can have shown nothing.
Fail(c) ==
    /\ call[c].pc = "flight"
    /\ \E err \in MayFail(call[c].stage)
                  \cup (IF cancelled[c] THEN {"cancelled"} ELSE {}) :
          /\ call[c].emitted => err \in {"idle", "cut", "reset", "worker",
                                         "fatal", "cancelled"}
          /\ Now(c, [call[c] EXCEPT !.pc = "judge", !.got = err, !.marked = FALSE])
    /\ UNCHANGED <<cancelled, window, shrinks, rejected, notices, asks>>

\* The attempt ends with a message; prose has been shown, as far as it streams.
Deliver(c) ==
    /\ call[c].pc = "flight"
    /\ \E msg \in Messages :
          /\ msg = "prose" /\ Streams(call[c].stage) => call[c].emitted
          /\ Now(c, [call[c] EXCEPT !.pc = "judge", !.got = msg, !.marked = FALSE])
    /\ UNCHANGED <<cancelled, window, shrinks, rejected, notices, asks>>

-----------------------------------------------------------------------------
(* complete: what one attempt comes to *)

Overflows(c) ==
    /\ ~Once(call[c].stage)
    /\ call[c].got = "overflow"
    /\ shrinks[c] < MaxShrinks

AtLeast(floor, w) == IF w < floor THEN floor ELSE w

ToStatedLimit(w, limit) ==               \* bug: as the server says
    AtLeast(Floor, IF limit > 0 THEN limit ELSE (w * 4) \div 5)
\* A fifth less, or down to the limit the server states, but not below the floor.
ShrunkTo(w, limit) ==
    LET cut == (w * 4) \div 5
    IN  AtLeast(Floor, IF limit > 0 /\ limit < cut THEN limit ELSE cut)

\* The window shrinks and the step is rebuilt by Run.
Shrink(c) ==
    /\ call[c].pc = "judge"
    /\ Overflows(c)
    /\ shrinks' = [shrinks EXCEPT ![c] = @ + 1]
    /\ \E limit \in Limits : window' = [window EXCEPT ![c] = ShrunkTo(@, limit)]
    /\ Now(c, Answered(call[c],
              IF call[c].stage = "nothink" THEN "nothing" ELSE "shrunk"))
    /\ UNCHANGED <<cancelled, rejected, notices, asks>>

AgainThoughShown(c, patient) ==          \* bug: text may be shown twice
    LET k == call[c] IN
    /\ ~Once(k.stage) /\ Retryable(k.got) /\ ~cancelled[c]
    /\ k.attempt < Attempts \/ (k.got = "cold" /\ patient
                                /\ k.attempt < Attempts + MaxCold)
AgainOffByOne(c, patient) ==             \* bug: one attempt too many
    LET k == call[c] IN
    /\ ~Once(k.stage) /\ Retryable(k.got) /\ ~cancelled[c] /\ ~k.emitted
    /\ k.attempt <= Attempts \/ (k.got = "cold" /\ patient
                                 /\ k.attempt <= Attempts + MaxCold)
\* A failure is worth another attempt: the attempts are not used up, or the
\* endpoint says it is starting and the patience with it has not run out.
Again(c, patient) ==
    LET k == call[c] IN
    /\ ~Once(k.stage)
    /\ Retryable(k.got)
    /\ ~cancelled[c]
    /\ ~k.emitted
    /\ \/ k.attempt < Attempts
       \/ /\ Attempts > 1 /\ k.got = "cold" /\ patient
          /\ k.attempt < Attempts + MaxCold

Wait(c) ==
    /\ call[c].pc = "judge"
    /\ ~Overflows(c)
    /\ \E patient \in BOOLEAN : Again(c, patient)
    /\ Now(c, [call[c] EXCEPT !.pc = "wait", !.got = Nothing])
    /\ UNCHANGED <<cancelled, window, shrinks, rejected, notices, asks>>

Retry(c) ==
    /\ call[c].pc = "wait"
    /\ Now(c, [call[c] EXCEPT !.pc = "send", !.attempt = @ + 1])
    /\ UNCHANGED <<cancelled, window, shrinks, rejected, notices, asks>>

\* Where an error leaves each stage: the question without thinking falls back to
\* the answer it was to replace, chatGate lets the loop run, finalAnswer salvages.
FailsAs(stage) ==
    CASE stage = "nothink" -> "nothing"
      [] stage = "gate"    -> "task"
      [] stage = "closing" -> "salvaged"
      [] OTHER             -> "failed"

GiveUpWaiting(c) ==
    /\ call[c].pc = "wait"
    /\ cancelled[c]
    /\ Now(c, Answered(call[c], FailsAs(call[c].stage)))
    /\ UNCHANGED <<cancelled, window, shrinks, rejected, notices, asks>>

\* complete returns an error, as everything it cannot mend.
Return(c) ==
    /\ call[c].pc = "judge"
    /\ ~Overflows(c)
    /\ call[c].got \in Failures
    /\ \E patient \in BOOLEAN : ~Again(c, patient)
    /\ Now(c, Answered(call[c], FailsAs(call[c].stage)))
    /\ UNCHANGED <<cancelled, window, shrinks, rejected, notices, asks>>

-----------------------------------------------------------------------------
(* act, chatGate, finalAnswer: what a message comes to *)

\* A call ends act's turn, at every stage; with none the model is asked again.
AfterFirst(k) ==
    CASE k.got = "call" -> Answered(k, "call")
      [] Runaway(k.got) /\ NoThink  -> Answered(k, "nothing")
      [] Runaway(k.got) /\ ~NoThink -> Question(k, "nothink")
      [] OTHER -> IF MaxMalformed > 0
                  THEN [Question(k, "again") EXCEPT !.botched = 1]
                  ELSE Answered(k, "malformed")

\* Without thinking: prose stands in for the empty answer, anything else that is
\* no call leaves it as it was.
AfterNoThink(k) ==
    CASE k.got = "call" -> Answered(k, "call")
      [] k.got \in {"prose", "empty"} ->
            IF MaxMalformed > 0
            THEN [Question(k, "again") EXCEPT !.botched = 1]
            ELSE Answered(k, "malformed")
      [] OTHER -> Answered(k, "nothing")

NeverGivesUp(k) ==                       \* bug: correctives are not counted
    CASE k.got = "call" -> Answered(k, "call")
      [] k.got = "botched" -> Question(k, "again")
      [] Runaway(k.got) -> Answered(k, "nothing")
      [] OTHER -> Answered(k, "prose")
\* The answer to a corrective.
AfterCorrective(k) ==
    CASE k.got = "call" -> Answered(k, "call")
      [] k.got = "botched" ->
            IF k.botched < MaxMalformed
            THEN [Question(k, "again") EXCEPT !.botched = @ + 1]
            ELSE Answered(k, "malformed")
      [] Runaway(k.got) -> Answered(k, "nothing")
      [] OTHER -> Answered(k, "prose")

\* chatGate: a call written as text is an action, TASK and silence let the loop
\* run, anything else is the reply, a little thinking or a botched call included.
AfterGate(k) ==
    CASE Runaway(k.got) -> {Answered(k, "gate failed")}
      [] k.got = "call" -> {Answered(k, "action")}
      [] k.got = "botched" -> {Answered(k, a) : a \in {"action", "task", "reply"}}
      [] OTHER -> {Answered(k, "task"), Answered(k, "reply")}

\* finalAnswer takes any text, the thinking folded into it included.
AfterClosing(k) ==
    {Answered(k, "closing")} \cup
        (IF k.got = "prose" THEN {} ELSE {Answered(k, "salvaged")})

Take(c) ==
    /\ call[c].pc = "judge"
    /\ call[c].got \in Messages
    /\ LET k == call[c] IN
       CASE k.stage = "turn"    -> Now(c, AfterFirst(k))
         [] k.stage = "nothink" -> Now(c, AfterNoThink(k))
         [] k.stage = "again"   -> Now(c, AfterCorrective(k))
         [] k.stage = "gate"    -> \E r \in AfterGate(k) : Now(c, r)
         [] k.stage = "closing" -> \E r \in AfterClosing(k) : Now(c, r)
    /\ UNCHANGED <<cancelled, window, shrinks, rejected, notices, asks>>

\* The user interrupts, or the wall clock of the run is up.
Cancel(c) ==
    /\ ~cancelled[c]
    /\ cancelled' = [cancelled EXCEPT ![c] = TRUE]
    /\ UNCHANGED <<call, window, shrinks, rejected, notices, asks>>

\* Every step of a call once it is asked.
CallStep(c) ==
    \/ Send(c) \/ RejectCache(c) \/ Fail(c) \/ Deliver(c)
    \/ Shrink(c) \/ Wait(c) \/ Retry(c) \/ GiveUpWaiting(c) \/ Return(c) \/ Take(c)

Next == \E c \in Callers : Ask(c) \/ Show(c) \/ Cancel(c) \/ CallStep(c)

Spec == Init /\ [][Next]_vars

-----------------------------------------------------------------------------
\* A call goes on as long as it can: Complete has its deadline and Stream its
\* watchdog, so that no request stays in flight, and a wait has its timer.
FairSpec == Spec /\ \A c \in Callers : WF_vars(CallStep(c))

-----------------------------------------------------------------------------
(* Properties *)

\* Every part of the state has its type.
TypeOK ==
    /\ call \in [Callers -> Calls]
    /\ cancelled \in [Callers -> BOOLEAN]
    /\ window \in [Callers -> Nat] /\ shrinks \in [Callers -> 0 .. MaxShrinks]
    /\ rejected \in BOOLEAN /\ notices \in Nat
    /\ asks \in [Callers -> 0 .. MaxAsks]

\* However its attempts fail, one question shows the text of one attempt only:
\* complete does not repeat what has begun to be shown.
ShownOnce == \A c \in Callers : call[c].shown <= 1

\* Two callers whose requests are refused for their markers at the same time
\* are told once that caching is off (the CompareAndSwap of Client.do).
NoticeOnce == notices <= 1

\* Nothing is told twice, however requests fail and callers meet.
NothingTwice == ShownOnce /\ NoticeOnce

\* A shrink makes progress: a window above the floor comes out smaller, and never
\* below the floor, whatever limit the server states.
ShrinkReduces ==
    [][\A c \in Callers : shrinks'[c] # shrinks[c] /\ window[c] > Floor =>
          window'[c] < window[c] /\ window'[c] >= Floor]_vars

\* act implements its promise: one answer, a bounded number of requests (each
\* question its attempts, and one request more for the rejected marker), and
\* none once the caller is cancelled.
Promise ==
    INSTANCE ModelAnswer WITH
        Answers <- Outcomes,
        MaxRequests <- (2 + MaxMalformed) * (Attempts + MaxCold) + 1,
        answer <- [c \in Callers |-> call[c].answer],
        requests <- [c \in Callers |-> call[c].sent]
KeepsPromise == Promise!AnswerSpec

\* Every call is answered, under FairSpec.
CallsReturn ==
    \A c \in Callers : call[c].answer = Pending ~> call[c].answer # Pending
=============================================================================
