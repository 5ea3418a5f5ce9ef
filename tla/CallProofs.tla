------------------------------ MODULE CallProofs ------------------------------
(***************************************************************************)
(* A call of the model and the processes a run starts. ModelCall           *)
(* implements ModelAnswer for any number of callers, any limits and        *)
(* whatever the endpoint does: no text is shown twice, callers that share  *)
(* a client are told once that caching is off, and a shrink makes          *)
(* progress. Stream: the answer read from any stream is whole or is        *)
(* refused. Command: one whose timeout is reported has left nothing        *)
(* running in its group, and an exit code is the one of a shell that is    *)
(* gone. Background: none outlives the run that started it, and one        *)
(* reported as exited has been read to its end. Dialects: a call that is   *)
(* dispatched is one the model wrote, with the arguments it wrote, but for *)
(* the fragment of a mark that one dialect leaves behind an argument that  *)
(* nothing ends.                                                           *)
(***************************************************************************)
EXTENDS ModelCall, Stream, Command, Background, Dialects, Induction

-----------------------------------------------------------------------------
(* A call of the model *)

\* The attempts one question may take, and those of n questions.
PerQuestion == Attempts + MaxCold
Share(n) == n * PerQuestion

\* The questions of the call before the one at hand.
Before(k) ==
    IF k.stage = "nothink" THEN 1 ELSE IF k.stage = "again" THEN 1 + k.botched ELSE 0

\* Attempts begun: an attempt that waits to be sent has cost nothing.
Begun(k) == IF k.pc = "send" THEN k.attempt - 1 ELSE k.attempt

\* Every request is an attempt's, except the one more for a rejected marker.
\* It has not been spent while a marker is in flight, and the flag that the
\* callers share never lets it be spent again.
Paid(k, off) ==
    k.sent <= Share(Before(k)) + Begun(k) + (IF off /\ ~ k.marked THEN 1 ELSE 0)

\* A call is pending while it runs, an attempt that will be repeated is not
\* the last and has shown nothing, and only a request in flight has a marker.
CallSound(k) ==
    /\ k.pc # "idle" <=> k.answer = Pending
    /\ k.pc = "wait" => k.attempt < PerQuestion
    /\ k.marked => k.pc = "flight"
    /\ k.shown = IF k.emitted THEN 1 ELSE 0
    /\ k.pc \in {"send", "wait"} => ~ k.emitted

Good(k, off) == CallSound(k) /\ (k.pc # "idle" => Paid(k, off))

CallInv ==
    /\ TypeOK
    /\ \A c \in Callers : Good(call[c], rejected)
    /\ notices = IF rejected THEN 1 ELSE 0

-----------------------------------------------------------------------------
(* The arithmetic of the budget *)

LEMMA AttemptsAreNumbers ==
    PerQuestion \in Nat \ {0} /\ Attempts \in Nat \ {0} /\ Attempts <= PerQuestion
  BY ModelCallAssumption DEF PerQuestion, Attempts

LEMMA ShareGrows ==
    ASSUME NEW n \in Nat
    PROVE  /\ Share(n) \in Nat
           /\ Share(n + 1) = Share(n) + PerQuestion
  <1>1. \A p \in Nat : n * p \in Nat /\ (n + 1) * p = (n * p) + p
    OBVIOUS
  <1> QED BY <1>1, AttemptsAreNumbers DEF Share

LEMMA ShareIsMonotone ==
    ASSUME NEW m \in Nat, NEW n \in Nat, m <= n
    PROVE  Share(m) <= Share(n)
  <1>1. \A p \in Nat : m * p <= n * p
    OBVIOUS
  <1> QED BY <1>1, AttemptsAreNumbers DEF Share

MostRequests == (2 + MaxMalformed) * (Attempts + MaxCold) + 1

\* What has been paid for is within the promised number of requests; while an
\* attempt waits to be sent, or a marker is in flight, there is one left.
LEMMA PaidIsBounded ==
    ASSUME NEW k \in Calls, NEW off \in BOOLEAN, Paid(k, off)
    PROVE  /\ k.sent <= MostRequests
           /\ k.pc = "send" \/ k.marked => k.sent < MostRequests
  <1>1. Before(k) \in Nat /\ Before(k) <= 1 + MaxMalformed
    BY ModelCallAssumption DEF Before, Calls
  <1>2. Share(Before(k)) <= Share(1 + MaxMalformed)
    BY <1>1, ShareIsMonotone, ModelCallAssumption
  <1>3. Share((1 + MaxMalformed) + 1) = Share(1 + MaxMalformed) + PerQuestion
    BY ShareGrows, ModelCallAssumption
  <1>4. MostRequests = Share((1 + MaxMalformed) + 1) + 1
    <2>1. (1 + MaxMalformed) + 1 = 2 + MaxMalformed
      BY ModelCallAssumption
    <2> QED BY <2>1 DEF MostRequests, Share, PerQuestion
  <1>5. /\ Share(Before(k)) \in Nat /\ Share(1 + MaxMalformed) \in Nat
        /\ PerQuestion \in Nat /\ k.sent \in Nat
        /\ k.attempt \in Nat /\ k.attempt <= PerQuestion
    BY <1>1, ShareGrows, AttemptsAreNumbers, ModelCallAssumption
    DEF Calls, PerQuestion
  <1> HIDE DEF Share, MostRequests, PerQuestion
  <1>6. CASE k.pc = "send"
    BY <1>2, <1>3, <1>4, <1>5, <1>6 DEF Paid, Begun
  <1>7. CASE k.pc # "send"
    BY <1>2, <1>3, <1>4, <1>5, <1>7 DEF Paid, Begun
  <1> QED BY <1>6, <1>7

\* The flag the callers share is only ever set, which leaves more to pay with.
LEMMA PaidStays ==
    ASSUME NEW k \in Calls, NEW off \in BOOLEAN, NEW off2 \in BOOLEAN,
           off => off2, Good(k, off)
    PROVE  Good(k, off2)
  <1>1. Share(Before(k)) + Begun(k) \in Int /\ k.sent \in Nat
    <2>1. Before(k) \in Nat /\ Begun(k) \in Int
      BY ModelCallAssumption DEF Before, Begun, Calls
    <2> QED BY <2>1, ShareGrows DEF Calls
  <1> QED BY <1>1 DEF Good, Paid

-----------------------------------------------------------------------------
(* What the constructors of a call make *)

\* The values the constructors put into a call.
LEMMA FieldValues ==
    /\ {"turn", "nothink", "again", "gate", "closing"} \subseteq Stages
    /\ "cancelled" \in Failures
    /\ 1 \in 1 .. (Attempts + MaxCold) /\ 0 \in 0 .. MaxMalformed
    /\ NoAnswer # Pending /\ Pending \notin Outcomes
  BY AttemptsAreNumbers, ModelCallAssumption
  DEF Stages, Failures, PerQuestion, NoAnswer, Pending, Outcomes

\* A question begins with its first attempt, which has cost and shown nothing.
LEMMA Questions ==
    ASSUME NEW k \in Calls, NEW stage \in Stages
    PROVE  /\ Question(k, stage) \in Calls
           /\ Question(k, stage).pc = "send" /\ Question(k, stage).stage = stage
           /\ Question(k, stage).attempt = 1
           /\ Question(k, stage).emitted = FALSE /\ Question(k, stage).shown = 0
           /\ Question(k, stage).sent = k.sent
           /\ Question(k, stage).answer = k.answer
           /\ Question(k, stage).marked = k.marked
           /\ Question(k, stage).botched = k.botched
  BY FieldValues DEF Question, Calls

LEMMA IdleIsGood ==
    /\ Idle \in Calls /\ Idle.pc = "idle" /\ ~ Idle.marked
    /\ Idle.shown = 0 /\ ~ Idle.emitted /\ Idle.answer # Pending
    /\ \A off \in BOOLEAN : Good(Idle, off)
  BY FieldValues DEF Idle, Calls, Good, CallSound

LEMMA Answers ==
    ASSUME NEW k \in Calls, NEW a \in Outcomes
    PROVE  /\ Answered(k, a) \in Calls
           /\ Answered(k, a).answer = a /\ a # Pending
           /\ Answered(k, a).sent = k.sent
           /\ \A off \in BOOLEAN : Good(Answered(k, a), off)
  <1> DEFINE r == [Idle EXCEPT !.sent = k.sent, !.answer = a]
  <1>1. /\ r \in Calls /\ r.answer = a /\ r.sent = k.sent
        /\ r.pc = Idle.pc /\ r.marked = Idle.marked
        /\ r.shown = Idle.shown /\ r.emitted = Idle.emitted
    BY IdleIsGood DEF Calls
  <1>2. a # Pending
    BY FieldValues
  <1> HIDE DEF r
  <1>3. \A off \in BOOLEAN : Good(r, off)
    BY <1>1, <1>2, IdleIsGood DEF Good, CallSound
  <1> QED BY <1>1, <1>2, <1>3 DEF Answered, r

\* A next question is paid for by the last: what was sent is at most the share
\* of one question more.
LEMMA NextQuestionIsPaid ==
    ASSUME NEW k \in Calls, NEW r \in Calls, NEW off \in BOOLEAN,
           Good(k, off), k.pc = "judge",
           CallSound(r), r.pc = "send", r.attempt = 1, r.sent = k.sent,
           ~ r.marked, Before(r) >= Before(k) + 1
    PROVE  Good(r, off)
  <1>1. Before(k) \in Nat /\ Before(r) \in Nat
    BY ModelCallAssumption DEF Before, Calls
  <1>2. Share(Before(k) + 1) = Share(Before(k)) + PerQuestion
    BY <1>1, ShareGrows
  <1>3. Share(Before(k) + 1) <= Share(Before(r))
    BY <1>1, ShareIsMonotone
  <1>4. /\ Share(Before(k)) \in Nat /\ Share(Before(r)) \in Nat
        /\ Share(Before(k) + 1) \in Nat
    BY <1>1, ShareGrows
  <1>5. k.attempt \in Nat /\ k.attempt <= PerQuestion /\ k.sent \in Nat
        /\ PerQuestion \in Nat
    BY AttemptsAreNumbers DEF Calls, PerQuestion
  <1>6. k.sent <= Share(Before(k)) + k.attempt + (IF off THEN 1 ELSE 0)
    BY DEF Good, Paid, Begun, CallSound
  <1> HIDE DEF Share, PerQuestion, Before
  <1>7. r.sent <= Share(Before(r)) + (IF off THEN 1 ELSE 0)
    BY <1>2, <1>3, <1>4, <1>5, <1>6
  <1>8. Begun(r) = 0
    BY DEF Begun
  <1> QED BY <1>4, <1>7, <1>8 DEF Good, Paid

-----------------------------------------------------------------------------
(* The steps *)

\* It is enough to look at the call that moves.
LEMMA OneCallMoves ==
    ASSUME CallInv, NEW c \in Callers, NEW r \in Calls,
           call' = [call EXCEPT ![c] = r], Good(r, rejected'),
           rejected' \in BOOLEAN, rejected => rejected'
    PROVE  /\ call' \in [Callers -> Calls]
           /\ \A d \in Callers : Good(call'[d], rejected')
  <1>1. call' \in [Callers -> Calls]
    BY DEF CallInv, TypeOK
  <1>2. ASSUME NEW d \in Callers PROVE Good(call'[d], rejected')
    <2>1. CASE d = c
      BY <2>1 DEF CallInv, TypeOK
    <2>2. CASE d # c
      <3>1. call'[d] = call[d] /\ call[d] \in Calls /\ Good(call[d], rejected)
        BY <2>2 DEF CallInv, TypeOK
      <3> QED BY <3>1, PaidStays DEF CallInv, TypeOK
    <2> QED BY <2>1, <2>2
  <1> QED BY <1>1, <1>2

\* What a step makes of a call, and how that looks from outside: as nothing, as
\* one request, or as the answer.
Moves(c, r) ==
    /\ r \in Calls
    /\ call' = [call EXCEPT ![c] = r]
    /\ Good(r, rejected')
    /\ \/ r.answer = call[c].answer /\ r.sent = call[c].sent
       \/ /\ call[c].answer = Pending /\ r.answer = Pending
          /\ ~ cancelled[c]
          /\ call[c].sent < MostRequests /\ r.sent = call[c].sent + 1
       \/ /\ call[c].answer = Pending /\ r.answer \in Outcomes
          /\ r.sent = call[c].sent

\* The facts about the call at hand that every step starts from.
LEMMA AtHand ==
    ASSUME CallInv, NEW c \in Callers
    PROVE  /\ call[c] \in Calls /\ Good(call[c], rejected) /\ CallSound(call[c])
           /\ rejected \in BOOLEAN
           /\ call[c].pc # "idle" => Paid(call[c], rejected)
  BY DEF CallInv, TypeOK, Good

LEMMA AnsweredMoves ==
    ASSUME CallInv, NEW c \in Callers, call[c].pc # "idle", NEW a \in Outcomes,
           Now(c, Answered(call[c], a)), rejected' = rejected
    PROVE  Moves(c, Answered(call[c], a))
  BY AtHand, Answers DEF Now, Moves, CallSound

\* A request of Client.do is paid by the attempt that begins with it.
LEMMA SendMoves ==
    ASSUME CallInv, NEW c \in Callers, Send(c)
    PROVE  \E r \in Calls : Moves(c, r)
  <1> DEFINE k == call[c]
             q == [k EXCEPT !.emitted = FALSE]
             r == IF cancelled[c]
                  THEN [q EXCEPT !.pc = "judge", !.got = "cancelled", !.marked = FALSE]
                  ELSE [q EXCEPT !.pc = "flight", !.marked = CarriesMarker(c),
                                 !.sent = @ + 1]
  <1>1. k.pc = "send" /\ call' = [call EXCEPT ![c] = r] /\ rejected' = rejected
    BY DEF Send, Now
  <1>2. k \in Calls /\ CallSound(k) /\ Paid(k, rejected) /\ rejected \in BOOLEAN
    BY <1>1, AtHand
  <1>3. CarriesMarker(c) \in BOOLEAN /\ (CarriesMarker(c) => ~ rejected)
    BY ModelCallAssumption DEF CarriesMarker, Once
  <1>4. /\ r \in Calls /\ r.answer = k.answer /\ r.stage = k.stage
        /\ r.attempt = k.attempt /\ r.botched = k.botched
        /\ r.shown = k.shown /\ r.emitted = FALSE
        /\ r.pc = IF cancelled[c] THEN "judge" ELSE "flight"
        /\ r.marked = IF cancelled[c] THEN FALSE ELSE CarriesMarker(c)
        /\ r.sent = IF cancelled[c] THEN k.sent ELSE k.sent + 1
    <2>1. k.sent + 1 \in Nat
      BY <1>2 DEF Calls
    <2> QED BY <1>2, <1>3, <2>1, FieldValues DEF Calls
  <1> HIDE DEF r
  <1>5. Before(r) = Before(k) /\ Begun(r) = Begun(k) + 1
    BY <1>1, <1>2, <1>4 DEF Before, Begun, Calls
  <1>6. Share(Before(k)) \in Nat /\ k.attempt \in Nat /\ k.sent \in Nat
    BY <1>2, ShareGrows, ModelCallAssumption DEF Before, Calls
  <1>7. k.sent <= Share(Before(k)) + k.attempt - 1 + (IF rejected THEN 1 ELSE 0)
    BY <1>1, <1>2, <1>6 DEF Paid, Begun, CallSound
  <1>8. Paid(r, rejected)
    <2> HIDE DEF k
    <2> QED BY <1>1, <1>3, <1>4, <1>5, <1>6, <1>7 DEF Paid, Begun
  <1>9. CallSound(r) /\ k.answer = Pending
    BY <1>1, <1>2, <1>4 DEF CallSound
  <1>10. k.sent < MostRequests
    BY <1>1, <1>2, PaidIsBounded
  <1> QED BY <1>1, <1>4, <1>8, <1>9, <1>10 DEF Moves, Good

\* The request without the marker is paid by the one more that a marker in
\* flight has not spent.
LEMMA RejectCacheMoves ==
    ASSUME CallInv, NEW c \in Callers, RejectCache(c)
    PROVE  \E r \in Calls : Moves(c, r)
  <1> DEFINE k == call[c]
             r == IF cancelled[c]
                  THEN [k EXCEPT !.pc = "judge", !.got = "cancelled", !.marked = FALSE]
                  ELSE [k EXCEPT !.marked = FALSE, !.sent = @ + 1]
  <1>1. k.pc = "flight" /\ k.marked /\ call' = [call EXCEPT ![c] = r] /\ rejected' = TRUE
    BY DEF RejectCache, Now
  <1>2. k \in Calls /\ CallSound(k) /\ Paid(k, rejected) /\ rejected \in BOOLEAN
    BY <1>1, AtHand
  <1>3. /\ r \in Calls /\ r.answer = k.answer /\ r.stage = k.stage
        /\ r.attempt = k.attempt /\ r.botched = k.botched
        /\ r.shown = k.shown /\ r.emitted = k.emitted /\ ~ r.marked
        /\ r.pc = IF cancelled[c] THEN "judge" ELSE "flight"
        /\ r.sent = IF cancelled[c] THEN k.sent ELSE k.sent + 1
    <2>1. k.sent + 1 \in Nat
      BY <1>2 DEF Calls
    <2> QED BY <1>1, <1>2, <2>1, FieldValues DEF Calls
  <1> HIDE DEF r
  <1>4. Before(r) = Before(k) /\ Begun(r) = Begun(k)
    BY <1>1, <1>3 DEF Before, Begun
  <1>5. Share(Before(k)) \in Nat /\ Begun(k) \in Nat /\ k.sent \in Nat
    BY <1>1, <1>2, ShareGrows, ModelCallAssumption DEF Before, Begun, Calls
  <1>6. k.sent <= Share(Before(k)) + Begun(k)
    BY <1>1, <1>2, <1>5 DEF Paid
  <1>7. Paid(r, TRUE)
    <2> HIDE DEF k
    <2> QED BY <1>3, <1>4, <1>5, <1>6 DEF Paid
  <1>8. CallSound(r) /\ k.answer = Pending
    BY <1>1, <1>2, <1>3 DEF CallSound
  <1>9. k.sent < MostRequests
    BY <1>1, <1>2, PaidIsBounded
  <1> QED BY <1>1, <1>3, <1>7, <1>8, <1>9 DEF Moves, Good

\* The steps that cost nothing: an answer that begins to be shown, an attempt
\* that ends, one that will be repeated.
LEMMA FreeMoves ==
    ASSUME CallInv, NEW c \in Callers, Show(c) \/ Fail(c) \/ Deliver(c) \/ Wait(c)
    PROVE  \E r \in Calls : Moves(c, r)
  <1> DEFINE k == call[c]
  <1>1. k \in Calls /\ CallSound(k) /\ rejected \in BOOLEAN /\ rejected' = rejected
    BY AtHand DEF Show, Fail, Deliver, Wait
  <1>2. k.pc \in {"flight", "judge"} /\ Paid(k, rejected) /\ k.answer = Pending
    BY AtHand DEF Show, Fail, Deliver, Wait, CallSound
  <1>3. ASSUME NEW r \in Calls, call' = [call EXCEPT ![c] = r], CallSound(r),
               r.sent = k.sent, r.answer = k.answer, r.stage = k.stage,
               r.attempt = k.attempt, r.botched = k.botched,
               r.pc # "send", r.marked => k.marked
        PROVE  Moves(c, r)
    <2>1. Before(r) = Before(k) /\ Begun(r) = Begun(k)
      BY <1>2, <1>3 DEF Before, Begun
    <2>2. Share(Before(k)) \in Nat /\ Begun(k) \in Nat /\ k.sent \in Nat
      BY <1>1, <1>2, ShareGrows, ModelCallAssumption DEF Before, Begun, Calls
    <2>3. Paid(r, rejected)
      <3> HIDE DEF k
      <3> QED BY <1>1, <1>2, <1>3, <2>1, <2>2 DEF Paid
    <2> QED BY <1>1, <1>3, <2>3 DEF Moves, Good
  <1>4. CASE Show(c)
    <2> DEFINE r == [k EXCEPT !.emitted = TRUE, !.shown = @ + 1]
    <2>1. r \in Calls
      <3>1. k.shown + 1 \in Nat
        BY <1>1 DEF Calls
      <3> QED BY <1>1, <3>1 DEF Calls
    <2>2. k.pc = "flight" /\ ~ k.emitted /\ call' = [call EXCEPT ![c] = r]
      BY <1>4 DEF Show, Now
    <2>3. CallSound(r)
      BY <1>1, <2>2 DEF CallSound, Calls
    <2> QED BY <1>1, <1>3, <2>1, <2>2, <2>3 DEF Calls
  <1>5. ASSUME NEW g \in Failures \cup Messages, k.pc = "flight",
               Now(c, [k EXCEPT !.pc = "judge", !.got = g, !.marked = FALSE])
        PROVE  \E r \in Calls : Moves(c, r)
    <2> DEFINE r == [k EXCEPT !.pc = "judge", !.got = g, !.marked = FALSE]
    <2>1. r \in Calls /\ call' = [call EXCEPT ![c] = r]
      BY <1>1, <1>5 DEF Calls, Now
    <2>2. CallSound(r)
      BY <1>1, <1>5 DEF CallSound, Calls
    <2> QED BY <1>1, <1>3, <2>1, <2>2 DEF Calls
  <1>6. CASE Fail(c)
    <2>1. PICK err \in MayFail(k.stage) \cup (IF cancelled[c] THEN {"cancelled"} ELSE {}) :
              Now(c, [k EXCEPT !.pc = "judge", !.got = err, !.marked = FALSE])
      BY <1>6 DEF Fail
    <2>2. err \in Failures
      BY DEF MayFail, Failures
    <2> QED BY <1>5, <1>6, <2>1, <2>2 DEF Fail
  <1>7. CASE Deliver(c)
    BY <1>5, <1>7 DEF Deliver
  <1>8. CASE Wait(c)
    <2> DEFINE r == [k EXCEPT !.pc = "wait", !.got = Nothing]
    <2>1. r \in Calls /\ call' = [call EXCEPT ![c] = r]
      BY <1>1, <1>8 DEF Calls, Now, Wait, Nothing
    <2>2. k.pc = "judge" /\ ~ k.emitted /\ k.attempt < PerQuestion
      BY <1>1, <1>8, ModelCallAssumption DEF Wait, Again, PerQuestion, Attempts, Calls
    <2>3. CallSound(r)
      BY <1>1, <2>2 DEF CallSound, Calls
    <2> QED BY <1>1, <1>3, <2>1, <2>3 DEF Calls
  <1> QED BY <1>4, <1>6, <1>7, <1>8

\* The next attempt is not one too many, and has cost nothing yet.
LEMMA RetryMoves ==
    ASSUME CallInv, NEW c \in Callers, Retry(c)
    PROVE  \E r \in Calls : Moves(c, r)
  <1> DEFINE k == call[c]
             r == [k EXCEPT !.pc = "send", !.attempt = @ + 1]
  <1>1. k.pc = "wait" /\ call' = [call EXCEPT ![c] = r] /\ rejected' = rejected
    BY DEF Retry, Now
  <1>2. k \in Calls /\ CallSound(k) /\ Paid(k, rejected) /\ rejected \in BOOLEAN
    BY <1>1, AtHand
  <1>3. /\ r \in Calls /\ r.answer = k.answer /\ r.stage = k.stage /\ r.sent = k.sent
        /\ r.attempt = k.attempt + 1 /\ r.botched = k.botched
        /\ r.shown = k.shown /\ r.emitted = k.emitted
        /\ r.marked = k.marked /\ r.pc = "send"
    <2>1. k.attempt \in 1 .. PerQuestion /\ k.attempt < PerQuestion
      BY <1>1, <1>2 DEF CallSound, Calls, PerQuestion
    <2>2. k.attempt + 1 \in 1 .. (Attempts + MaxCold)
      BY <2>1, AttemptsAreNumbers DEF PerQuestion
    <2> QED BY <1>2, <2>2 DEF Calls
  <1> HIDE DEF r
  <1>4. Before(r) = Before(k) /\ Begun(r) = Begun(k)
    BY <1>1, <1>2, <1>3 DEF Before, Begun, Calls
  <1>5. Paid(r, rejected)
    BY <1>2, <1>3, <1>4 DEF Paid
  <1>6. CallSound(r)
    BY <1>1, <1>2, <1>3 DEF CallSound
  <1> QED BY <1>1, <1>2, <1>3, <1>5, <1>6 DEF Moves, Good

\* What a message comes to: the answer, or one question more.
NextQuestion(k, r) ==
    /\ r \in Calls /\ CallSound(r)
    /\ r.pc = "send" /\ r.attempt = 1 /\ ~ r.marked
    /\ r.sent = k.sent /\ r.answer = k.answer
    /\ Before(r) >= Before(k) + 1

Leads(k, r) ==
    \/ \E a \in Outcomes : r = Answered(k, a)
    \/ NextQuestion(k, r)

LEMMA QuestionFollows ==
    ASSUME NEW k \in Calls, CallSound(k), k.pc = "judge"
    PROVE  /\ k.stage = "turn" => NextQuestion(k, Question(k, "nothink"))
           /\ \A b \in 1 .. MaxMalformed :
                 1 + b >= Before(k) + 1 =>
                    NextQuestion(k, [Question(k, "again") EXCEPT !.botched = b])
  <1>1. k.answer = Pending /\ ~ k.marked
    BY DEF CallSound
  <1>2. k.stage = "turn" => NextQuestion(k, Question(k, "nothink"))
    <2> DEFINE r == Question(k, "nothink")
    <2>1. /\ r \in Calls /\ r.pc = "send" /\ r.stage = "nothink" /\ r.attempt = 1
          /\ r.emitted = FALSE /\ r.shown = 0 /\ r.sent = k.sent
          /\ r.answer = k.answer /\ r.marked = k.marked
      BY Questions, FieldValues
    <2> HIDE DEF r
    <2> QED BY <1>1, <2>1 DEF NextQuestion, CallSound, Before, r
  <1>3. ASSUME NEW b \in 1 .. MaxMalformed, 1 + b >= Before(k) + 1
        PROVE  NextQuestion(k, [Question(k, "again") EXCEPT !.botched = b])
    <2> DEFINE q == Question(k, "again")
               r == [q EXCEPT !.botched = b]
    <2>1. /\ q \in Calls /\ q.pc = "send" /\ q.stage = "again" /\ q.attempt = 1
          /\ q.emitted = FALSE /\ q.shown = 0 /\ q.sent = k.sent
          /\ q.answer = k.answer /\ q.marked = k.marked
      BY Questions, FieldValues
    <2> HIDE DEF q
    <2>2. b \in 0 .. MaxMalformed
      BY ModelCallAssumption
    <2>3. /\ r \in Calls /\ r.pc = "send" /\ r.stage = "again" /\ r.attempt = 1
          /\ r.emitted = FALSE /\ r.shown = 0 /\ r.sent = k.sent
          /\ r.answer = k.answer /\ r.marked = k.marked /\ r.botched = b
      BY <2>1, <2>2 DEF Calls
    <2> HIDE DEF r
    <2> QED BY <1>1, <1>3, <2>3 DEF NextQuestion, CallSound, Before, r, q
  <1> QED BY <1>2, <1>3

\* act's first answer, the one without thinking, and a corrective's.
LEMMA FirstLeads ==
    ASSUME NEW k \in Calls, CallSound(k), k.pc = "judge", k.stage = "turn"
    PROVE  Leads(k, AfterFirst(k))
  <1>1. Before(k) = 0
    BY DEF Before
  <1>2. \/ \E a \in {"call", "nothing", "malformed"} : AfterFirst(k) = Answered(k, a)
        \/ AfterFirst(k) = Question(k, "nothink")
        \/ MaxMalformed > 0 /\ AfterFirst(k) = [Question(k, "again") EXCEPT !.botched = 1]
    BY ModelCallAssumption DEF AfterFirst, Runaway
  <1>3. CASE \E a \in {"call", "nothing", "malformed"} : AfterFirst(k) = Answered(k, a)
    BY <1>3 DEF Leads, Outcomes
  <1>4. CASE /\ MaxMalformed > 0
             /\ AfterFirst(k) = [Question(k, "again") EXCEPT !.botched = 1]
    <2>1. 1 \in 1 .. MaxMalformed /\ 1 + 1 >= Before(k) + 1
      BY <1>1, <1>4, ModelCallAssumption
    <2> QED BY <1>4, <2>1, QuestionFollows DEF Leads
  <1>5. CASE AfterFirst(k) = Question(k, "nothink")
    BY <1>5, QuestionFollows DEF Leads
  <1> QED BY <1>2, <1>3, <1>4, <1>5

LEMMA NoThinkLeads ==
    ASSUME NEW k \in Calls, CallSound(k), k.pc = "judge", k.stage = "nothink"
    PROVE  Leads(k, AfterNoThink(k))
  <1>1. Before(k) = 1
    BY DEF Before
  <1>2. \/ \E a \in {"call", "nothing", "malformed"} : AfterNoThink(k) = Answered(k, a)
        \/ MaxMalformed > 0 /\ AfterNoThink(k) = [Question(k, "again") EXCEPT !.botched = 1]
    BY DEF AfterNoThink
  <1>3. CASE \E a \in {"call", "nothing", "malformed"} : AfterNoThink(k) = Answered(k, a)
    BY <1>3 DEF Leads, Outcomes
  <1>4. CASE /\ MaxMalformed > 0
             /\ AfterNoThink(k) = [Question(k, "again") EXCEPT !.botched = 1]
    <2>1. 1 \in 1 .. MaxMalformed /\ 1 + 1 >= Before(k) + 1
      BY <1>1, <1>4, ModelCallAssumption
    <2> QED BY <1>4, <2>1, QuestionFollows DEF Leads
  <1> QED BY <1>2, <1>3, <1>4

LEMMA CorrectiveLeads ==
    ASSUME NEW k \in Calls, CallSound(k), k.pc = "judge", k.stage = "again"
    PROVE  Leads(k, AfterCorrective(k))
  <1> DEFINE b == k.botched + 1
             r == [Question(k, "again") EXCEPT !.botched = b]
  <1>1. Before(k) = 1 + k.botched /\ k.botched \in Nat
    BY ModelCallAssumption DEF Before, Calls
  <1>2. [Question(k, "again") EXCEPT !.botched = @ + 1] = r
    BY Questions, FieldValues
  <1>3. \/ \E a \in {"call", "nothing", "malformed", "prose"} :
              AfterCorrective(k) = Answered(k, a)
        \/ k.botched < MaxMalformed /\ AfterCorrective(k) = r
    BY <1>2 DEF AfterCorrective, Runaway
  <1>4. k.botched < MaxMalformed => b \in 1 .. MaxMalformed /\ 1 + b >= Before(k) + 1
    BY <1>1, ModelCallAssumption
  <1> QED BY <1>3, <1>4, QuestionFollows DEF Leads, Outcomes

LEMMA OnceLeads ==
    ASSUME NEW k, NEW r \in AfterGate(k) \cup AfterClosing(k)
    PROVE  Leads(k, r)
  <1>1. \E a \in {"gate failed", "action", "task", "reply", "closing", "salvaged"} :
            r = Answered(k, a)
    BY DEF AfterGate, AfterClosing
  <1> QED BY <1>1 DEF Leads, Outcomes

LEMMA TakeMoves ==
    ASSUME CallInv, NEW c \in Callers, Take(c)
    PROVE  \E r \in Calls : Moves(c, r)
  <1> DEFINE k == call[c]
  <1>1. k \in Calls /\ CallSound(k) /\ Good(k, rejected) /\ rejected \in BOOLEAN
    BY AtHand
  <1>2. k.pc = "judge" /\ k.answer = Pending /\ rejected' = rejected
    BY <1>1 DEF Take, CallSound
  <1>3. PICK r : Leads(k, r) /\ Now(c, r)
    <2>1. CASE k.stage = "turn"
      BY <1>1, <1>2, <2>1, FirstLeads DEF Take
    <2>2. CASE k.stage = "nothink"
      BY <1>1, <1>2, <2>2, NoThinkLeads DEF Take
    <2>3. CASE k.stage = "again"
      BY <1>1, <1>2, <2>3, CorrectiveLeads DEF Take
    <2>4. CASE k.stage = "gate"
      BY <2>4, OnceLeads DEF Take
    <2>5. CASE k.stage = "closing"
      BY <2>5, OnceLeads DEF Take
    <2> QED BY <1>1, <2>1, <2>2, <2>3, <2>4, <2>5 DEF Calls, Stages
  <1>4. CASE \E a \in Outcomes : r = Answered(k, a)
    BY <1>2, <1>3, <1>4, AnsweredMoves, Answers, <1>1
  <1>5. CASE NextQuestion(k, r)
    <2>1. Good(r, rejected)
      BY <1>1, <1>2, <1>5, NextQuestionIsPaid DEF NextQuestion
    <2> QED BY <1>2, <1>3, <1>5, <2>1 DEF NextQuestion, Moves, Now
  <1> QED BY <1>3, <1>4, <1>5 DEF Leads

LEMMA EndMoves ==
    ASSUME CallInv, NEW c \in Callers, Shrink(c) \/ GiveUpWaiting(c) \/ Return(c)
    PROVE  \E r \in Calls : Moves(c, r)
  <1>1. call[c].pc # "idle" /\ rejected' = rejected
    BY DEF Shrink, GiveUpWaiting, Return
  <1>2. \E a \in {"nothing", "shrunk", "task", "salvaged", "failed"} :
            Now(c, Answered(call[c], a))
    BY DEF Shrink, GiveUpWaiting, Return, FailsAs
  <1>3. PICK a \in Outcomes : Now(c, Answered(call[c], a))
    BY <1>2 DEF Outcomes
  <1> QED BY <1>1, <1>3, AnsweredMoves DEF Moves

\* Every step of a call that is out.
LEMMA StepMoves ==
    ASSUME CallInv, NEW c \in Callers, CallStep(c) \/ Show(c)
    PROVE  \E r \in Calls : Moves(c, r)
  BY SendMoves, RejectCacheMoves, FreeMoves, RetryMoves, TakeMoves, EndMoves
  DEF CallStep

-----------------------------------------------------------------------------
(* The invariant holds *)

LEMMA CallInvStarts == Init => CallInv
  <1> SUFFICES ASSUME Init PROVE CallInv
    OBVIOUS
  <1>1. \A c \in Callers : call[c] = Idle
    BY DEF Init
  <1>2. TypeOK
    <2>1. call \in [Callers -> Calls]
      BY <1>1, IdleIsGood DEF Init
    <2>2. window \in [Callers -> Nat]
      BY ModelCallAssumption DEF Init
    <2>3. 0 \in 0 .. MaxShrinks /\ 0 \in 0 .. MaxAsks
      BY ModelCallAssumption
    <2> QED BY <2>1, <2>2, <2>3 DEF Init, TypeOK
  <1> QED BY <1>1, <1>2, IdleIsGood DEF Init, CallInv

\* A window stays a number, however it shrinks.
LEMMA ShrunkIsNumber ==
    ASSUME NEW w \in Nat, NEW limit \in Limits
    PROVE  /\ ShrunkTo(w, limit) \in Nat
           /\ w > Floor => ShrunkTo(w, limit) < w /\ ShrunkTo(w, limit) >= Floor
  <1>1. limit \in Nat /\ Floor \in Nat /\ Floor > 0
    BY ModelCallAssumption
  <1>2. PICK cut \in Nat : cut = (w * 4) \div 5 /\ (w > 0 => cut < w)
    OBVIOUS
  <1>3. ShrunkTo(w, limit) = AtLeast(Floor, IF limit > 0 /\ limit < cut THEN limit ELSE cut)
    BY <1>2 DEF ShrunkTo
  <1> QED BY <1>1, <1>2, <1>3 DEF AtLeast

\* The parts of the state beside the calls.
LEMMA RestIsTyped ==
    ASSUME CallInv, NEW c \in Callers, CallStep(c) \/ Show(c)
    PROVE  /\ cancelled' = cancelled /\ asks' = asks
           /\ window' \in [Callers -> Nat] /\ shrinks' \in [Callers -> 0 .. MaxShrinks]
           /\ rejected' \in BOOLEAN /\ (rejected => rejected')
           /\ notices' = IF rejected' THEN 1 ELSE 0
  <1>1. CASE Shrink(c)
    <2>1. shrinks[c] + 1 \in 0 .. MaxShrinks
      BY <1>1, ModelCallAssumption DEF Shrink, Overflows, CallInv, TypeOK
    <2>2. window[c] \in Nat
      BY DEF CallInv, TypeOK
    <2>3. window' \in [Callers -> Nat]
      BY <1>1, <2>2, ShrunkIsNumber DEF Shrink, CallInv, TypeOK
    <2> QED BY <1>1, <2>1, <2>3 DEF Shrink, CallInv, TypeOK
  <1>2. CASE RejectCache(c)
    BY <1>2 DEF RejectCache, Notices, CallInv, TypeOK
  <1>3. CASE \/ Show(c) \/ Send(c) \/ Fail(c) \/ Deliver(c) \/ Wait(c) \/ Retry(c)
             \/ GiveUpWaiting(c) \/ Return(c) \/ Take(c)
    <2>1. UNCHANGED <<cancelled, window, shrinks, rejected, notices, asks>>
      BY <1>3, Zenon DEF Show, Send, Fail, Deliver, Wait, Retry, GiveUpWaiting,
         Return, Take
    <2> QED BY <2>1 DEF CallInv, TypeOK
  <1> QED BY <1>1, <1>2, <1>3 DEF CallStep

\* A call is asked.
LEMMA AskBegins ==
    ASSUME CallInv, NEW c \in Callers, Ask(c)
    PROVE  \E r \in Calls :
              /\ call' = [call EXCEPT ![c] = r] /\ Good(r, rejected')
              /\ call[c].answer # Pending /\ r.answer = Pending /\ r.sent = 0
  <1> DEFINE k == call[c]
  <1>1. k \in Calls /\ CallSound(k) /\ rejected \in BOOLEAN /\ k.pc = "idle"
    BY AtHand DEF Ask
  <1>2. ~ k.marked /\ k.answer # Pending
    BY <1>1 DEF CallSound
  <1>3. PICK stage \in {"turn", "gate", "closing"} :
            Now(c, [Question(k, stage) EXCEPT !.botched = 0, !.sent = 0,
                                              !.answer = Pending])
    BY DEF Ask
  <1> DEFINE q == Question(k, stage)
             r == [q EXCEPT !.botched = 0, !.sent = 0, !.answer = Pending]
  <1>4. /\ q \in Calls /\ q.pc = "send" /\ q.stage = stage /\ q.attempt = 1
        /\ q.emitted = FALSE /\ q.shown = 0 /\ ~ q.marked
    <2>1. stage \in Stages
      BY FieldValues
    <2> QED BY <1>1, <1>2, <2>1, Questions
  <1> HIDE DEF q
  <1>5. /\ r \in Calls /\ r.pc = "send" /\ r.stage = stage /\ r.attempt = 1
        /\ r.emitted = FALSE /\ r.shown = 0 /\ ~ r.marked
        /\ r.sent = 0 /\ r.answer = Pending
    BY <1>4, FieldValues DEF Calls
  <1>6. call' = [call EXCEPT ![c] = r] /\ rejected' = rejected
    BY <1>3 DEF Now, Ask, q
  <1> HIDE DEF r
  <1>7. Before(r) = 0 /\ Begun(r) = 0 /\ Share(0) \in Nat
    BY <1>5, ShareGrows DEF Before, Begun
  <1>8. Good(r, rejected)
    BY <1>5, <1>7, <1>1 DEF Good, CallSound, Paid
  <1> QED BY <1>2, <1>5, <1>6, <1>8

LEMMA CallInvHolds ==
    ASSUME CallInv, [Next]_vars
    PROVE  CallInv'
  <1>1. CASE UNCHANGED vars
    BY <1>1 DEF vars, CallInv, TypeOK, Good, CallSound, Paid, Share, Before, Begun
  <1>2. ASSUME NEW c \in Callers, CallStep(c) \/ Show(c)
        PROVE  CallInv'
    <2>1. PICK r \in Calls : Moves(c, r)
      BY <1>2, StepMoves
    <2>2. /\ call' \in [Callers -> Calls]
          /\ \A d \in Callers : Good(call'[d], rejected')
      BY <1>2, <2>1, OneCallMoves, RestIsTyped DEF Moves
    <2> QED BY <1>2, <2>2, RestIsTyped DEF CallInv, TypeOK
  <1>3. ASSUME NEW c \in Callers, Ask(c)
        PROVE  CallInv'
    <2>1. PICK r \in Calls : call' = [call EXCEPT ![c] = r] /\ Good(r, rejected')
      BY <1>3, AskBegins
    <2>2. rejected' = rejected /\ rejected \in BOOLEAN
      BY <1>3 DEF Ask, CallInv, TypeOK
    <2>3. /\ call' \in [Callers -> Calls]
          /\ \A d \in Callers : Good(call'[d], rejected')
      BY <2>1, <2>2, OneCallMoves
    <2>4. asks' \in [Callers -> 0 .. MaxAsks]
      BY <1>3, ModelCallAssumption DEF Ask, CallInv, TypeOK
    <2> QED BY <1>3, <2>3, <2>4 DEF Ask, CallInv, TypeOK
  <1>4. ASSUME NEW c \in Callers, Cancel(c)
        PROVE  CallInv'
    <2>1. /\ cancelled' \in [Callers -> BOOLEAN]
          /\ UNCHANGED <<call, window, shrinks, rejected, notices, asks>>
      BY <1>4 DEF Cancel, CallInv, TypeOK
    <2> QED BY <2>1 DEF CallInv, TypeOK, Good, CallSound, Paid, Share, Before, Begun
  <1> QED BY <1>1, <1>2, <1>3, <1>4 DEF Next

LEMMA InvariantOfCalls == Spec => []CallInv
  BY CallInvStarts, CallInvHolds, PTL DEF Spec

-----------------------------------------------------------------------------
(* What follows *)

\* Every state of ModelCall is well typed: an attempt is never one too many,
\* a corrective never one too many (loop.go complete, act).
THEOREM CallsAreTyped == Spec => []TypeOK
  <1>1. CallInv => TypeOK
    BY DEF CallInv
  <1> QED BY <1>1, InvariantOfCalls, PTL

\* However attempts fail and callers meet, no question shows the text of two
\* attempts, and that caching is off is told once (loop.go complete, client.go).
THEOREM NothingIsToldTwice == Spec => []NothingTwice
  <1>1. CallInv => NothingTwice
    BY AtHand DEF CallInv, CallSound, NothingTwice, ShownOnce, NoticeOnce
  <1> QED BY <1>1, InvariantOfCalls, PTL

\* A shrink of a window above the floor makes it smaller and keeps it at the
\* floor at least, whatever limit the server states (loop.go shrinkContext).
THEOREM ShrinksReduce == Spec => ShrinkReduces
  <1>1. ASSUME CallInv, [Next]_vars, NEW c \in Callers,
               shrinks'[c] # shrinks[c], window[c] > Floor
        PROVE  window'[c] < window[c] /\ window'[c] >= Floor
    <2>1. PICK d \in Callers : Shrink(d)
      BY <1>1 DEF Next, CallStep, vars, Ask, Show, Cancel, Send, RejectCache, Fail,
         Deliver, Wait, Retry, GiveUpWaiting, Return, Take
    <2>2. d = c
      BY <1>1, <2>1 DEF Shrink, CallInv, TypeOK
    <2>3. window[c] \in Nat
      BY <1>1 DEF CallInv, TypeOK
    <2>4. PICK limit \in Limits : window'[c] = ShrunkTo(window[c], limit)
      BY <1>1, <2>1, <2>2 DEF Shrink, CallInv, TypeOK
    <2> QED BY <1>1, <2>3, <2>4, ShrunkIsNumber
  <1>2. CallInv /\ [Next]_vars =>
          [\A c \in Callers : shrinks'[c] # shrinks[c] /\ window[c] > Floor =>
              window'[c] < window[c] /\ window'[c] >= Floor]_vars
    BY <1>1
  <1> QED BY <1>2, InvariantOfCalls, PTL DEF ShrinkReduces, Spec

-----------------------------------------------------------------------------
(* ModelCall implements ModelAnswer *)

\* What a call that moves looks like to the loop that made it.
LEMMA SeenFromOutside ==
    ASSUME call \in [Callers -> Calls], NEW c \in Callers, NEW r \in Calls,
           call' = [call EXCEPT ![c] = r]
    PROVE  /\ [d \in Callers |-> call'[d].answer]
                = [[d \in Callers |-> call[d].answer] EXCEPT ![c] = r.answer]
           /\ [d \in Callers |-> call'[d].sent]
                = [[d \in Callers |-> call[d].sent] EXCEPT ![c] = r.sent]
  OBVIOUS

LEMMA StepIsPromised ==
    ASSUME CallInv, NEW c \in Callers, CallStep(c) \/ Show(c)
    PROVE  [Promise!AnswerNext]_Promise!answerVars
  <1>1. PICK r \in Calls : Moves(c, r)
    BY StepMoves
  <1>2. call \in [Callers -> Calls] /\ cancelled' = cancelled
    BY RestIsTyped DEF CallInv, TypeOK
  <1>3. /\ [d \in Callers |-> call'[d].answer]
             = [[d \in Callers |-> call[d].answer] EXCEPT ![c] = r.answer]
        /\ [d \in Callers |-> call'[d].sent]
             = [[d \in Callers |-> call[d].sent] EXCEPT ![c] = r.sent]
    BY <1>1, <1>2, SeenFromOutside DEF Moves
  <1>4. CASE r.answer = call[c].answer /\ r.sent = call[c].sent
    BY <1>2, <1>3, <1>4 DEF Promise!answerVars
  <1>5. CASE /\ call[c].answer = Pending /\ r.answer = Pending /\ ~ cancelled[c]
             /\ call[c].sent < MostRequests /\ r.sent = call[c].sent + 1
    <2>1. Promise!RequestModel(c)
      BY <1>2, <1>3, <1>5 DEF Promise!RequestModel, MostRequests
    <2> QED BY <2>1 DEF Promise!AnswerNext
  <1>6. CASE /\ call[c].answer = Pending /\ r.answer \in Outcomes
             /\ r.sent = call[c].sent
    <2>1. Promise!GetAnswer(c)
      BY <1>2, <1>3, <1>6 DEF Promise!GetAnswer
    <2> QED BY <2>1 DEF Promise!AnswerNext
  <1> QED BY <1>1, <1>4, <1>5, <1>6 DEF Moves

LEMMA AskIsPromised ==
    ASSUME CallInv, NEW c \in Callers, Ask(c)
    PROVE  Promise!AskModel(c)
  <1>1. PICK r \in Calls :
              /\ call' = [call EXCEPT ![c] = r]
              /\ call[c].answer # Pending /\ r.answer = Pending /\ r.sent = 0
    BY AskBegins
  <1>2. call \in [Callers -> Calls] /\ cancelled' = cancelled
    BY DEF Ask, CallInv, TypeOK
  <1> QED BY <1>1, <1>2, SeenFromOutside DEF Promise!AskModel

\* A call is answered once, costs no more requests than its questions' attempts
\* and one for the rejected marker, and none once its caller is cancelled
\* (loop.go act and complete over llm/client.go).
THEOREM CallsKeepTheirPromise == Spec => KeepsPromise
  <1>1. Init => Promise!AnswerInit
    BY DEF Init, Promise!AnswerInit, Idle
  <1>2. CallInv /\ [Next]_vars => [Promise!AnswerNext]_Promise!answerVars
    <2> SUFFICES ASSUME CallInv, [Next]_vars
                 PROVE  [Promise!AnswerNext]_Promise!answerVars
      OBVIOUS
    <2>1. CASE UNCHANGED vars
      BY <2>1 DEF vars, Promise!answerVars
    <2>2. ASSUME NEW c \in Callers, Cancel(c)
          PROVE  Promise!AnswerNext
      BY <2>2 DEF Cancel, Promise!GiveUp, Promise!AnswerNext
    <2>3. ASSUME NEW c \in Callers, Ask(c)
          PROVE  Promise!AnswerNext
      BY <2>3, AskIsPromised DEF Promise!AnswerNext
    <2> QED BY <2>1, <2>2, <2>3, StepIsPromised DEF Next
  <1> QED BY <1>1, <1>2, InvariantOfCalls, PTL
       DEF Spec, KeepsPromise, Promise!AnswerSpec

-----------------------------------------------------------------------------
(* One streamed answer *)

CallsOfStream == [index : Indices, args : Seq(Nat)]
Accumulators ==
    [text : Seq(Nat), think : Seq(Nat), calls : Seq(CallsOfStream), finish : BOOLEAN]

\* The numbers of the events whose fragment is of a call.
FragmentsOf(es, x) == {n \in DOMAIN es : es[n].frag = x}

\* The accumulator holds what the events carried.
Holds(a, es) ==
    /\ InOrder(a.text, {n \in DOMAIN es : es[n].text})
    /\ InOrder(a.think, {n \in DOMAIN es : es[n].think})
    /\ \A i \in DOMAIN a.calls : /\ InOrder(a.calls[i].args, FragmentsOf(es, a.calls[i].index))
                                 /\ a.calls[i].args # <<>>
    /\ {a.calls[i].index : i \in DOMAIN a.calls} = {es[n].frag : n \in DOMAIN es} \ {NoIndex}
    /\ \A i, j \in DOMAIN a.calls : i < j => a.calls[i].args[1] < a.calls[j].args[1]

\* A number above all those listed is listed last.
LEMMA OneMore ==
    ASSUME NEW s \in Seq(Nat), NEW m \in Nat, NEW S, S \subseteq 1 .. m, InOrder(s, S)
    PROVE  InOrder(Append(s, m + 1), S \cup {m + 1})
  <1> DEFINE t == Append(s, m + 1)
  <1>1. /\ t \in Seq(Nat) /\ DOMAIN t = 1 .. (Len(s) + 1) /\ t[Len(s) + 1] = m + 1
        /\ \A i \in 1 .. Len(s) : t[i] = s[i]
    OBVIOUS
  <1>2. ToSet(s) = S /\ (\A i, j \in DOMAIN s : i < j => s[i] < s[j]) /\ DOMAIN s = 1 .. Len(s)
    BY DEF InOrder
  <1>3. \A i \in 1 .. Len(s) : s[i] \in S
    BY <1>2 DEF ToSet
  <1> HIDE DEF t
  <1>4. ToSet(t) = S \cup {m + 1}
    <2>1. ToSet(t) \subseteq S \cup {m + 1}
      BY <1>1, <1>3 DEF ToSet
    <2>2. \A x \in S : \E i \in 1 .. Len(s) : x = s[i]
      BY <1>2 DEF ToSet
    <2>3. S \subseteq ToSet(t)
      <3> SUFFICES ASSUME NEW x \in S PROVE x \in ToSet(t)
        OBVIOUS
      <3>1. PICK i \in 1 .. Len(s) : x = s[i]
        BY <2>2
      <3>2. i \in DOMAIN t /\ t[i] = x
        BY <1>1, <3>1
      <3> QED BY <3>2 DEF ToSet
    <2>4. m + 1 \in ToSet(t)
      BY <1>1 DEF ToSet
    <2> QED BY <2>1, <2>3, <2>4
  <1>5. \A i, j \in DOMAIN t : i < j => t[i] < t[j]
    <2> SUFFICES ASSUME NEW i \in DOMAIN t, NEW j \in DOMAIN t, i < j PROVE t[i] < t[j]
      OBVIOUS
    <2>1. CASE j = Len(s) + 1
      <3>1. i \in 1 .. Len(s)
        BY <1>1, <2>1
      <3>2. t[i] \in 1 .. m
        BY <1>1, <1>3, <3>1
      <3> QED BY <1>1, <2>1, <3>2
    <2>2. CASE j # Len(s) + 1
      <3>1. i \in DOMAIN s /\ j \in DOMAIN s
        BY <1>1, <1>2, <2>2
      <3>2. t[i] = s[i] /\ t[j] = s[j]
        BY <1>1, <1>2, <3>1
      <3> QED BY <1>2, <3>1, <3>2
    <2> QED BY <2>1, <2>2
  <1> QED BY <1>4, <1>5 DEF InOrder, t

\* The first call with an index, if there is one.
LEMMA CallOfIndex ==
    ASSUME NEW calls \in Seq(CallsOfStream), NEW x,
           NEW pos, pos = SelectInSeq(calls, LAMBDA c : c.index = x)
    PROVE  /\ pos = 0 => \A i \in DOMAIN calls : calls[i].index # x
           /\ pos # 0 => pos \in DOMAIN calls /\ calls[pos].index = x
  <1> DEFINE S == {i \in 1 .. Len(calls) : calls[i].index = x}
  <1>1. pos = IF S # {} THEN Min(S) ELSE 0
    BY DEF SelectInSeq
  <1>2. S \subseteq Nat
    OBVIOUS
  <1>3. CASE S = {}
    <2>1. pos = 0
      BY <1>1, <1>3
    <2>2. DOMAIN calls = 1 .. Len(calls)
      OBVIOUS
    <2>3. \A i \in 1 .. Len(calls) : calls[i].index # x
      BY <1>3
    <2> QED BY <2>1, <2>2, <2>3
  <1>4. CASE S # {}
    <2>1. pos \in S
      BY <1>1, <1>2, <1>4, LeastIn
    <2> QED BY <2>1
  <1> QED BY <1>3, <1>4

\* The calls after a fragment: it begins a call or joins the one of its index.
JoinedTo(calls, pos, x, n) ==
    IF pos = 0 THEN Append(calls, [index |-> x, args |-> <<n>>])
    ELSE [calls EXCEPT ![pos].args = Append(@, n)]

LEMMA CallsHaveTypes ==
    ASSUME NEW calls \in Seq(CallsOfStream), NEW i \in DOMAIN calls
    PROVE  /\ calls[i] = [index |-> calls[i].index, args |-> calls[i].args]
           /\ calls[i].index \in Indices /\ calls[i].args \in Seq(Nat)
           /\ i \in 1 .. Len(calls) /\ DOMAIN calls = 1 .. Len(calls)
  <1> DEFINE c == calls[i]
  <1>1. c \in CallsOfStream /\ i \in 1 .. Len(calls) /\ DOMAIN calls = 1 .. Len(calls)
    OBVIOUS
  <1> HIDE DEF c
  <1>2. c = [index |-> c.index, args |-> c.args] /\ c.index \in Indices /\ c.args \in Seq(Nat)
    BY <1>1 DEF CallsOfStream
  <1> QED BY <1>1, <1>2 DEF c

FragmentJoined(calls, pos, x, n, after) ==
    /\ after \in Seq(CallsOfStream)
    /\ pos = 0 => /\ DOMAIN after = 1 .. (Len(calls) + 1)
                  /\ after[Len(calls) + 1] = [index |-> x, args |-> <<n>>]
                  /\ \A i \in DOMAIN calls : after[i] = calls[i]
    /\ pos # 0 => /\ DOMAIN after = DOMAIN calls
                  /\ after[pos] = [index |-> x, args |-> Append(calls[pos].args, n)]
                  /\ \A i \in DOMAIN calls \ {pos} : after[i] = calls[i]

LEMMA FragmentJoins ==
    ASSUME NEW calls \in Seq(CallsOfStream), NEW x \in Indices, NEW n \in Nat,
           NEW pos, pos # 0 => pos \in DOMAIN calls /\ calls[pos].index = x
    PROVE  FragmentJoined(calls, pos, x, n, JoinedTo(calls, pos, x, n))
  <1> DEFINE after == JoinedTo(calls, pos, x, n)
  <1> SUFFICES /\ after \in Seq(CallsOfStream)
               /\ pos = 0 => /\ DOMAIN after = 1 .. (Len(calls) + 1)
                             /\ after[Len(calls) + 1] = [index |-> x, args |-> <<n>>]
                             /\ \A i \in DOMAIN calls : after[i] = calls[i]
               /\ pos # 0 => /\ DOMAIN after = DOMAIN calls
                             /\ after[pos] = [index |-> x, args |-> Append(calls[pos].args, n)]
                             /\ \A i \in DOMAIN calls \ {pos} : after[i] = calls[i]
    BY DEF FragmentJoined
  <1>1. CASE pos = 0
    <2> DEFINE new == [index |-> x, args |-> <<n>>]
    <2>1. new \in CallsOfStream
      BY DEF CallsOfStream
    <2>2. after = Append(calls, new)
      BY <1>1 DEF JoinedTo
    <2> HIDE DEF new
    <2>3. /\ after \in Seq(CallsOfStream) /\ DOMAIN after = 1 .. (Len(calls) + 1)
          /\ after[Len(calls) + 1] = new /\ \A i \in DOMAIN calls : after[i] = calls[i]
      BY <2>1, <2>2
    <2> QED BY <1>1, <2>3 DEF new
  <1>2. CASE pos # 0
    <2> DEFINE old == calls[pos]
               new == [old EXCEPT !.args = Append(@, n)]
    <2>1. /\ old = [index |-> x, args |-> old.args] /\ old.args \in Seq(Nat)
          /\ pos \in DOMAIN calls
      BY <1>2, CallsHaveTypes
    <2>2. after = [calls EXCEPT ![pos] = new]
      BY <1>2 DEF JoinedTo
    <2> HIDE DEF old
    <2>a. PICK args \in Seq(Nat) : args = old.args /\ old = [index |-> x, args |-> args]
      BY <2>1
    <2>3. new = [index |-> x, args |-> Append(args, n)] /\ Append(args, n) \in Seq(Nat)
      <3> DEFINE joined == Append(args, n)
      <3>1. joined \in Seq(Nat)
        OBVIOUS
      <3>2. new = [old EXCEPT !.args = joined]
        BY <2>a
      <3> HIDE DEF joined, new
      <3>3. new = [index |-> x, args |-> joined]
        BY <2>a, <3>2
      <3> QED BY <3>1, <3>3 DEF joined
    <2>4. new \in CallsOfStream
      BY <2>3 DEF CallsOfStream
    <2> HIDE DEF new
    <2>5. /\ after \in Seq(CallsOfStream) /\ DOMAIN after = DOMAIN calls
          /\ after[pos] = new /\ \A i \in DOMAIN calls \ {pos} : after[i] = calls[i]
      BY <2>1, <2>2, <2>4
    <2> QED BY <1>2, <2>a, <2>3, <2>5 DEF old
  <1> QED BY <1>1, <1>2

\* What an event carries goes where it belongs.
\* What is listed in order begins with the least, so no two calls have one index.
LEMMA EachCallOnce ==
    ASSUME NEW a \in Accumulators, NEW es \in Seq(Payloads), Holds(a, es),
           NEW i \in DOMAIN a.calls, NEW j \in DOMAIN a.calls, a.calls[i].index = a.calls[j].index
    PROVE  i = j
  <1> DEFINE s == a.calls[i].args
             t == a.calls[j].args
  <1>1. /\ s \in Seq(Nat) /\ s # <<>> /\ t \in Seq(Nat) /\ t # <<>>
        /\ InOrder(s, FragmentsOf(es, a.calls[i].index))
        /\ InOrder(t, FragmentsOf(es, a.calls[i].index))
        /\ i \in Nat /\ j \in Nat
    <2>1. a.calls \in Seq(CallsOfStream)
      BY DEF Accumulators
    <2>2. s \in Seq(Nat) /\ t \in Seq(Nat) /\ i \in Nat /\ j \in Nat
      BY <2>1, CallsHaveTypes
    <2> QED BY <2>2 DEF Holds
  <1>2. ~ (i < j /\ ~ s[1] < t[1]) /\ ~ (j < i /\ ~ t[1] < s[1])
    BY DEF Holds
  <1> HIDE DEF s, t
  <1>3. \A u, v \in Seq(Nat) : u # <<>> /\ v # <<>> /\ ToSet(u) = ToSet(v)
            /\ (\A k, l \in DOMAIN u : k < l => u[k] < u[l]) => ~ v[1] < u[1]
    <2> SUFFICES ASSUME NEW u \in Seq(Nat), NEW v \in Seq(Nat), u # <<>>, v # <<>>, ToSet(u) = ToSet(v),
                        \A k, l \in DOMAIN u : k < l => u[k] < u[l]
                 PROVE  ~ v[1] < u[1]
      OBVIOUS
    <2>1. 1 \in DOMAIN v /\ 1 \in DOMAIN u /\ DOMAIN u = 1 .. Len(u)
      OBVIOUS
    <2>2. v[1] \in ToSet(u)
      BY <2>1 DEF ToSet
    <2>3. PICK k \in DOMAIN u : v[1] = u[k]
      BY <2>2 DEF ToSet
    <2>4. k = 1 \/ 1 < k
      BY <2>1
    <2>5. u[1] \in Nat /\ u[k] \in Nat
      BY <2>1
    <2> QED BY <2>1, <2>3, <2>4, <2>5
  <1>4. ~ t[1] < s[1] /\ ~ s[1] < t[1]
    BY <1>1, <1>3 DEF InOrder
  <1> QED BY <1>1, <1>2, <1>4

LEMMA AbsorbHolds ==
    ASSUME NEW a \in Accumulators, NEW es \in Seq(Payloads), NEW d \in Deltas, Holds(a, es)
    PROVE  /\ AbsorbDelta(a, d, Len(es) + 1) \in Accumulators
           /\ Holds(AbsorbDelta(a, d, Len(es) + 1), Append(es, d))
           /\ AbsorbDelta(a, d, Len(es) + 1).text = IF d.text THEN Append(a.text, Len(es) + 1) ELSE a.text
  <1> DEFINE m == Len(es)
             more == Append(es, d)
             b == AbsorbDelta(a, d, m + 1)
             pos == SelectInSeq(a.calls, LAMBDA c : c.index = d.frag)
  <1>1. /\ m \in Nat /\ more \in Seq(Payloads) /\ DOMAIN more = 1 .. (m + 1) /\ more[m + 1] = d
        /\ DOMAIN es = 1 .. m /\ \A i \in 1 .. m : more[i] = es[i]
    BY DEF Payloads
  <1>2. /\ d.text \in BOOLEAN /\ d.think \in BOOLEAN /\ d.frag \in Indices \cup {NoIndex}
        /\ NoIndex \notin Indices
    BY StreamAssumption
  <1>3. /\ a.text \in Seq(Nat) /\ a.think \in Seq(Nat) /\ a.finish \in BOOLEAN
        /\ a.calls \in Seq(CallsOfStream)
    BY DEF Accumulators
  <1>4. /\ pos = 0 => \A i \in DOMAIN a.calls : a.calls[i].index # d.frag
        /\ pos # 0 => pos \in DOMAIN a.calls /\ a.calls[pos].index = d.frag
    BY <1>3, CallOfIndex
  <1> DEFINE text == IF d.text THEN Append(a.text, m + 1) ELSE a.text
             think == IF d.think THEN Append(a.think, m + 1) ELSE a.think
             calls == IF d.frag = NoIndex THEN a.calls
                      ELSE IF pos = 0 THEN Append(a.calls, [index |-> d.frag, args |-> <<m + 1>>])
                      ELSE [a.calls EXCEPT ![pos].args = Append(@, m + 1)]
  <1>5. b = [a EXCEPT !.text = text, !.think = think, !.calls = calls]
    BY DEF AbsorbDelta
  <1> HIDE DEF pos
  <1>6. text \in Seq(Nat) /\ think \in Seq(Nat)
    BY <1>1, <1>2, <1>3
  <1>a. calls = IF d.frag = NoIndex THEN a.calls ELSE JoinedTo(a.calls, pos, d.frag, m + 1)
    BY DEF JoinedTo
  <1>b. m + 1 \in Nat
    BY <1>1
  <1> HIDE DEF text, think, calls, m
  <1>7. calls \in Seq(CallsOfStream)
    <2>1. CASE d.frag = NoIndex
      BY <1>3, <1>a, <2>1
    <2>2. CASE d.frag # NoIndex
      <3>1. d.frag \in Indices
        BY <1>2, <2>2
      <3>2. JoinedTo(a.calls, pos, d.frag, m + 1) \in Seq(CallsOfStream)
        BY <1>3, <1>4, <1>b, <3>1, FragmentJoins DEF FragmentJoined
      <3> QED BY <1>a, <2>2, <3>2
    <2> QED BY <2>1, <2>2
  <1>8. /\ b \in Accumulators /\ b.text = text /\ b.think = think /\ b.calls = calls
    BY <1>3, <1>5, <1>6, <1>7 DEF Accumulators
  <1> HIDE DEF more, b
  <1>9. InOrder(text, {n \in DOMAIN more : more[n].text})
    <2> DEFINE S == {n \in DOMAIN es : es[n].text}
    <2>1. InOrder(a.text, S) /\ S \subseteq 1 .. m
      BY <1>1 DEF Holds
    <2>2. {n \in DOMAIN more : more[n].text} = IF d.text THEN S \cup {m + 1} ELSE S
      BY <1>1, <1>2
    <2> HIDE DEF S
    <2>3. InOrder(Append(a.text, m + 1), S \cup {m + 1})
      BY <1>1, <1>3, <2>1, OneMore
    <2> QED BY <2>1, <2>2, <2>3 DEF text
  <1>10. InOrder(think, {n \in DOMAIN more : more[n].think})
    <2> DEFINE S == {n \in DOMAIN es : es[n].think}
    <2>1. InOrder(a.think, S) /\ S \subseteq 1 .. m
      BY <1>1 DEF Holds
    <2>2. {n \in DOMAIN more : more[n].think} = IF d.think THEN S \cup {m + 1} ELSE S
      BY <1>1, <1>2
    <2> HIDE DEF S
    <2>3. InOrder(Append(a.think, m + 1), S \cup {m + 1})
      BY <1>1, <1>3, <2>1, OneMore
    <2> QED BY <2>1, <2>2, <2>3 DEF think
  <1>11. CASE d.frag = NoIndex
    <2>1. calls = a.calls
      BY <1>a, <1>11
    <2>2. \A x \in Indices : FragmentsOf(more, x) = FragmentsOf(es, x)
      BY <1>1, <1>2, <1>11 DEF FragmentsOf
    <2>3. {more[n].frag : n \in DOMAIN more} \ {NoIndex} = {es[n].frag : n \in DOMAIN es} \ {NoIndex}
      BY <1>1, <1>11
    <2>4. \A i \in DOMAIN a.calls : a.calls[i].index \in Indices
      BY <1>3, CallsHaveTypes
    <2>5. /\ \A i \in DOMAIN calls : /\ InOrder(calls[i].args, FragmentsOf(more, calls[i].index))
                                      /\ calls[i].args # <<>>
          /\ {calls[i].index : i \in DOMAIN calls} = {more[n].frag : n \in DOMAIN more} \ {NoIndex}
          /\ \A i, j \in DOMAIN calls : i < j => calls[i].args[1] < calls[j].args[1]
      BY <2>1, <2>2, <2>3, <2>4 DEF Holds
    <2>6. Holds(b, more)
      BY <1>8, <1>9, <1>10, <2>5 DEF Holds
    <2> QED BY <1>8, <2>6 DEF b, more, m, text
  <1>12. CASE d.frag # NoIndex
    <2> DEFINE x == d.frag
    <2>1. x \in Indices /\ calls = JoinedTo(a.calls, pos, x, m + 1)
      BY <1>2, <1>a, <1>12
    <2>2. \A i \in DOMAIN a.calls : /\ a.calls[i].index \in Indices
                                    /\ a.calls[i].args \in Seq(Nat) /\ a.calls[i].args # <<>>
                                    /\ InOrder(a.calls[i].args, FragmentsOf(es, a.calls[i].index))
      BY <1>3, CallsHaveTypes DEF Holds
    <2>3. /\ \A y \in Indices \ {x} : FragmentsOf(more, y) = FragmentsOf(es, y)
          /\ FragmentsOf(more, x) = FragmentsOf(es, x) \cup {m + 1}
          /\ FragmentsOf(es, x) \subseteq 1 .. m
      BY <1>1 DEF FragmentsOf
    <2>4. {more[n].frag : n \in DOMAIN more} = {es[n].frag : n \in DOMAIN es} \cup {x}
      BY <1>1
    <2>5. {a.calls[i].index : i \in DOMAIN a.calls} = {es[n].frag : n \in DOMAIN es} \ {NoIndex}
      BY DEF Holds
    <2>6. \A i, j \in DOMAIN a.calls : i < j => a.calls[i].args[1] < a.calls[j].args[1]
      BY DEF Holds
    <2>7. DOMAIN a.calls = 1 .. Len(a.calls) /\ Len(a.calls) \in Nat
      BY <1>3
    <2>a. pos # 0 => pos \in DOMAIN a.calls /\ a.calls[pos].index = x
      BY <1>4
    <2> HIDE DEF x
    <2>b. /\ pos = 0 => /\ DOMAIN calls = 1 .. (Len(a.calls) + 1)
                        /\ calls[Len(a.calls) + 1] = [index |-> x, args |-> <<m + 1>>]
                        /\ \A i \in DOMAIN a.calls : calls[i] = a.calls[i]
          /\ pos # 0 => /\ DOMAIN calls = DOMAIN a.calls
                        /\ calls[pos] = [index |-> x, args |-> Append(a.calls[pos].args, m + 1)]
                        /\ \A i \in DOMAIN a.calls \ {pos} : calls[i] = a.calls[i]
      <3>1. FragmentJoined(a.calls, pos, x, m + 1, calls)
        BY <1>3, <1>b, <2>1, <2>a, FragmentJoins
      <3> QED BY <3>1 DEF FragmentJoined
    <2>8. ASSUME pos = 0 PROVE Holds(b, more)
      <3>1. /\ DOMAIN calls = 1 .. (Len(a.calls) + 1)
            /\ calls[Len(a.calls) + 1] = [index |-> x, args |-> <<m + 1>>]
            /\ \A i \in DOMAIN a.calls : calls[i] = a.calls[i]
        BY <2>8, <2>b
      <3>2. \A i \in DOMAIN a.calls : a.calls[i].index # x
        BY <1>4, <2>8 DEF x
      <3>3. FragmentsOf(es, x) = {}
        BY <1>2, <2>1, <2>5, <3>2 DEF FragmentsOf
      <3>4. InOrder(<<m + 1>>, {m + 1})
        BY <1>b DEF InOrder, ToSet
      <3>5. \A i \in DOMAIN calls : /\ InOrder(calls[i].args, FragmentsOf(more, calls[i].index))
                                    /\ calls[i].args # <<>>
        <4> SUFFICES ASSUME NEW i \in DOMAIN calls
                     PROVE  InOrder(calls[i].args, FragmentsOf(more, calls[i].index)) /\ calls[i].args # <<>>
          OBVIOUS
        <4>1. CASE i \in DOMAIN a.calls
          <5>1. calls[i] = a.calls[i] /\ a.calls[i].index \in Indices \ {x}
            BY <2>2, <3>1, <3>2, <4>1
          <5>2. FragmentsOf(more, a.calls[i].index) = FragmentsOf(es, a.calls[i].index)
            BY <2>3, <5>1
          <5> QED BY <2>2, <4>1, <5>1, <5>2
        <4>2. CASE i = Len(a.calls) + 1
          <5>1. calls[i].index = x /\ calls[i].args = <<m + 1>>
            BY <3>1, <4>2
          <5>2. FragmentsOf(more, x) = {m + 1}
            BY <2>3, <3>3
          <5>3. <<m + 1>> # <<>>
            OBVIOUS
          <5> QED BY <3>4, <5>1, <5>2, <5>3
        <4> QED BY <2>7, <3>1, <4>1, <4>2
      <3>6. {calls[i].index : i \in DOMAIN calls} = {a.calls[i].index : i \in DOMAIN a.calls} \cup {x}
        <4>1. Len(a.calls) + 1 \in DOMAIN calls /\ calls[Len(a.calls) + 1].index = x
          BY <2>7, <3>1
        <4>2. \A i \in DOMAIN calls : i \in DOMAIN a.calls \/ i = Len(a.calls) + 1
          BY <2>7, <3>1
        <4>3. \A i \in DOMAIN a.calls : i \in DOMAIN calls /\ calls[i].index = a.calls[i].index
          BY <2>7, <3>1
        <4> QED BY <4>1, <4>2, <4>3
      <3>7. \A i, j \in DOMAIN calls : i < j => calls[i].args[1] < calls[j].args[1]
        <4> SUFFICES ASSUME NEW i \in DOMAIN calls, NEW j \in DOMAIN calls, i < j
                     PROVE  calls[i].args[1] < calls[j].args[1]
          OBVIOUS
        <4>1. i \in DOMAIN a.calls /\ calls[i] = a.calls[i]
          BY <2>7, <3>1
        <4>2. CASE j \in DOMAIN a.calls
          <5>1. calls[j] = a.calls[j]
            BY <3>1, <4>2
          <5> QED BY <2>6, <4>1, <4>2, <5>1
        <4>3. CASE j = Len(a.calls) + 1
          <5>1. a.calls[i].args[1] \in ToSet(a.calls[i].args)
            BY <2>2, <4>1 DEF ToSet
          <5>2. a.calls[i].args[1] \in FragmentsOf(es, a.calls[i].index)
            BY <2>2, <4>1, <5>1 DEF InOrder
          <5>3. a.calls[i].args[1] \in 1 .. m
            BY <1>1, <5>2 DEF FragmentsOf
          <5>4. calls[j].args[1] = m + 1
            BY <3>1, <4>3
          <5>5. a.calls[i].args[1] < m + 1
            BY <1>1, <5>3
          <5> QED BY <4>1, <5>4, <5>5
        <4>4. j \in DOMAIN a.calls \/ j = Len(a.calls) + 1
          BY <2>7, <3>1
        <4> QED BY <4>2, <4>3, <4>4
      <3>8. {calls[i].index : i \in DOMAIN calls} = {more[n].frag : n \in DOMAIN more} \ {NoIndex}
        BY <1>2, <2>1, <2>4, <2>5, <3>6
      <3> QED BY <1>8, <1>9, <1>10, <3>5, <3>7, <3>8 DEF Holds
    <2>9. ASSUME pos # 0 PROVE Holds(b, more)
      <3>0. pos \in DOMAIN a.calls /\ a.calls[pos].index = x
        BY <1>4, <2>9 DEF x
      <3>1. /\ DOMAIN calls = DOMAIN a.calls
            /\ calls[pos] = [index |-> x, args |-> Append(a.calls[pos].args, m + 1)]
            /\ \A i \in DOMAIN a.calls \ {pos} : calls[i] = a.calls[i]
        BY <2>9, <2>b
      <3>2. \A i \in DOMAIN a.calls \ {pos} : a.calls[i].index # x
        BY <3>0, EachCallOnce
      <3>3. InOrder(Append(a.calls[pos].args, m + 1), FragmentsOf(es, x) \cup {m + 1})
        BY <1>1, <2>2, <2>3, <3>0, OneMore
      <3>4. Append(a.calls[pos].args, m + 1) # <<>>
            /\ Append(a.calls[pos].args, m + 1)[1] = a.calls[pos].args[1]
        BY <1>b, <2>2, <3>0
      <3>5. \A i \in DOMAIN calls : /\ InOrder(calls[i].args, FragmentsOf(more, calls[i].index))
                                    /\ calls[i].args # <<>>
        <4> SUFFICES ASSUME NEW i \in DOMAIN calls
                     PROVE  InOrder(calls[i].args, FragmentsOf(more, calls[i].index)) /\ calls[i].args # <<>>
          OBVIOUS
        <4>1. CASE i # pos
          BY <2>2, <2>3, <3>1, <3>2, <4>1
        <4>2. CASE i = pos
          <5>1. calls[pos].index = x /\ calls[pos].args = Append(a.calls[pos].args, m + 1)
            BY <3>1
          <5> QED BY <2>3, <3>3, <3>4, <4>2, <5>1
        <4> QED BY <4>1, <4>2
      <3>6. \A i \in DOMAIN calls : calls[i].index = a.calls[i].index /\ calls[i].args[1] = a.calls[i].args[1]
        BY <3>0, <3>1, <3>4
      <3>7. {calls[i].index : i \in DOMAIN calls} = {a.calls[i].index : i \in DOMAIN a.calls}
        BY <3>1, <3>6
      <3>8. \A i, j \in DOMAIN calls : i < j => calls[i].args[1] < calls[j].args[1]
        BY <2>6, <3>1, <3>6
      <3>9. x \in {a.calls[i].index : i \in DOMAIN a.calls}
        BY <3>0
      <3>10. {calls[i].index : i \in DOMAIN calls} = {more[n].frag : n \in DOMAIN more} \ {NoIndex}
        BY <1>2, <2>1, <2>4, <2>5, <3>7, <3>9
      <3> QED BY <1>8, <1>9, <1>10, <3>5, <3>8, <3>10 DEF Holds
    <2>10. Holds(b, more)
      BY <2>8, <2>9
    <2> QED BY <1>8, <2>10 DEF b, more, m, text
  <1> QED BY <1>11, <1>12

\* What carries nothing changes nothing.
LEMMA EmptyHolds ==
    ASSUME NEW a \in Accumulators, NEW es \in Seq(Payloads), NEW e \in Payloads, e.kind # "delta", Holds(a, es)
    PROVE  Holds(a, Append(es, e))
  <1> DEFINE more == Append(es, e)
             m == Len(es)
  <1>1. /\ m \in Nat /\ DOMAIN more = 1 .. (m + 1) /\ more[m + 1] = e
        /\ DOMAIN es = 1 .. m /\ \A i \in 1 .. m : more[i] = es[i]
    OBVIOUS
  <1>2. ~ e.text /\ ~ e.think /\ e.frag = NoIndex
    BY StreamAssumption DEF Payloads, Plain
  <1>3. a.calls \in Seq(CallsOfStream) /\ NoIndex \notin Indices
    BY StreamAssumption DEF Accumulators
  <1> HIDE DEF more, m
  <1>4. {n \in DOMAIN more : more[n].text} = {n \in DOMAIN es : es[n].text}
    BY <1>1, <1>2
  <1>5. {n \in DOMAIN more : more[n].think} = {n \in DOMAIN es : es[n].think}
    BY <1>1, <1>2
  <1>6. \A i \in DOMAIN a.calls : FragmentsOf(more, a.calls[i].index) = FragmentsOf(es, a.calls[i].index)
    <2> SUFFICES ASSUME NEW i \in DOMAIN a.calls
                 PROVE  FragmentsOf(more, a.calls[i].index) = FragmentsOf(es, a.calls[i].index)
      OBVIOUS
    <2>1. a.calls[i].index # NoIndex
      BY <1>3, CallsHaveTypes
    <2> QED BY <1>1, <1>2, <2>1 DEF FragmentsOf
  <1>7. {more[n].frag : n \in DOMAIN more} \ {NoIndex} = {es[n].frag : n \in DOMAIN es} \ {NoIndex}
    BY <1>1, <1>2
  <1> QED BY <1>4, <1>5, <1>6, <1>7 DEF Holds, more

Received ==
    /\ dataBuf \in Seq(Payloads \cup {Torn}) /\ events \in Seq(Payloads)
    /\ acc \in Accumulators /\ Holds(acc, events) /\ shown = acc.text

\* No event so far has ended the stream.
Unended == \A n \in DOMAIN events : events[n].kind \notin {"bad", "error", "done"}

StreamInv ==
    /\ Received
    /\ reader \in {"headers", "top", "read"} => streamed = NoResult /\ Unended
    /\ NoHalfAnswer

LEMMA StreamStarts == StreamInit => StreamInv
  <1> SUFFICES ASSUME StreamInit PROVE StreamInv
    OBVIOUS
  <1>1. /\ acc = [text |-> <<>>, think |-> <<>>, calls |-> <<>>, finish |-> FALSE]
        /\ shown = <<>> /\ events = <<>> /\ dataBuf = <<>> /\ streamed = NoResult
    BY DEF StreamInit, NewAccumulator
  <1>2. acc \in Accumulators
    BY <1>1 DEF Accumulators
  <1>3. InOrder(<<>>, {})
    BY DEF InOrder, ToSet
  <1>4. Holds(acc, events)
    BY <1>1, <1>3 DEF Holds
  <1>5. Received /\ Unended
    BY <1>1, <1>2, <1>4 DEF Received, Unended
  <1> QED BY <1>1, <1>5 DEF StreamInv, NoHalfAnswer, NoResult

\* An event is taken in whole, and nothing after one that ends the stream.
LEMMA FlushReceives ==
    ASSUME Received, Unended, NEW buf \in Seq(Payloads \cup {Torn}), Flush(buf)
    PROVE  /\ Received'
           /\ Dispatch(buf) = NoResult => Unended'
           /\ Dispatch(buf) = "done" =>
                 /\ events' # <<>> /\ Last(events').kind = "done"
                 /\ \A n \in DOMAIN events' : events'[n].kind \notin {"bad", "error"}
  <1> DEFINE e == Decoded(buf)
             n == Len(events) + 1
  <1>1. CASE buf = <<>>
    BY <1>1 DEF Flush, Received, Unended, Dispatch, NoResult
  <1>2. CASE buf # <<>>
    <2>1. e \in Payloads
      <3>1. Plain("bad") \in Payloads
        BY DEF Payloads
      <3>2. Head(buf) \in Payloads \cup {Torn}
        BY <1>2
      <3>3. Torn.kind = "torn"
        BY DEF Torn, Plain
      <3> QED BY <3>1, <3>2, <3>3 DEF Decoded
    <2>2. /\ dataBuf' = <<>> /\ events' = Append(events, e)
          /\ acc' = CASE e.kind = "delta" -> AbsorbDelta(acc, e, n)
                      [] e.kind = "finish" -> [acc EXCEPT !.finish = TRUE]
                      [] OTHER -> acc
          /\ shown' = IF e.kind = "delta" /\ e.text THEN Append(shown, n) ELSE shown
      BY <1>2 DEF Flush
    <2>3. events \in Seq(Payloads) /\ acc \in Accumulators /\ Holds(acc, events) /\ shown = acc.text
      BY DEF Received
    <2>4. Dispatch(buf) = CASE e.kind = "bad" -> "decode" [] e.kind = "error" -> "chunk error"
                            [] e.kind = "done" -> "done" [] OTHER -> NoResult
      BY <1>2 DEF Dispatch
    <2> HIDE DEF e
    <2>5. acc' \in Accumulators /\ Holds(acc', events') /\ shown' = acc'.text
      <3>1. CASE e.kind = "delta"
        <4>1. e \in Deltas
          BY <2>1, <3>1 DEF Payloads, Plain
        <4>2. acc' = AbsorbDelta(acc, e, n)
          BY <2>2, <3>1
        <4> QED BY <2>2, <2>3, <3>1, <4>1, <4>2, AbsorbHolds
      <3>2. CASE e.kind # "delta"
        <4>1. Holds(acc, events')
          BY <2>1, <2>2, <2>3, <3>2, EmptyHolds
        <4>2. /\ acc' \in Accumulators /\ acc'.text = acc.text /\ acc'.think = acc.think
              /\ acc'.calls = acc.calls
          BY <2>2, <2>3, <3>2 DEF Accumulators
        <4>3. Holds(acc', events')
          BY <4>1, <4>2 DEF Holds
        <4> QED BY <2>2, <2>3, <3>2, <4>2, <4>3
      <3> QED BY <3>1, <3>2
    <2>6. /\ events' \in Seq(Payloads) /\ DOMAIN events' = 1 .. n /\ Len(events') = n /\ events'[n] = e
          /\ n \in Nat /\ DOMAIN events = 1 .. (n - 1) /\ \A i \in 1 .. (n - 1) : events'[i] = events[i]
      BY <2>1, <2>2, <2>3
    <2>a. dataBuf' = <<>> /\ <<>> \in Seq(Payloads \cup {Torn})
      BY <2>2
    <2>7. Received'
      <3>1. events' \in Seq(Payloads)
        BY <2>6
      <3> HIDE DEF n
      <3> QED BY <2>5, <2>a, <3>1 DEF Received
    <2> HIDE DEF n
    <2>8. ASSUME Dispatch(buf) = NoResult PROVE Unended'
      <3>1. e.kind \notin {"bad", "error", "done"}
        BY <2>4, <2>8 DEF NoResult
      <3> QED BY <2>6, <3>1 DEF Unended
    <2>9. ASSUME Dispatch(buf) = "done"
          PROVE  /\ events' # <<>> /\ Last(events').kind = "done"
                 /\ \A k \in DOMAIN events' : events'[k].kind \notin {"bad", "error"}
      <3>1. e.kind = "done"
        BY <2>4, <2>9 DEF NoResult
      <3>2. events' # <<>> /\ Last(events') = e
        <4>1. n >= 1
          BY DEF n
        <4>2. Len(<<>>) = 0
          OBVIOUS
        <4>3. events' # <<>>
          BY <2>6, <4>1, <4>2
        <4> QED BY <2>6, <4>3 DEF Last
      <3> QED BY <2>6, <3>1, <3>2 DEF Unended
    <2> QED BY <2>7, <2>8, <2>9
  <1> QED BY <1>1, <1>2

\* How the body ends says whether the last event was the end of the answer.
LEMMA EndReceives ==
    ASSUME StreamInv, reader = "read", reader' = "parsed",
           NEW buf \in Seq(Payloads \cup {Torn}), Flush(buf), streamed' = "ok" => Dispatch(buf) = "done"
    PROVE  StreamInv'
  <1>1. Received /\ Unended
    BY DEF StreamInv
  <1>2. Received'
    BY <1>1, FlushReceives
  <1>3. NoHalfAnswer'
    <2> SUFFICES ASSUME streamed' = "ok"
                 PROVE  /\ events' # <<>> /\ Last(events').kind = "done"
                        /\ \A n \in DOMAIN events' : events'[n].kind \notin {"bad", "error"}
      BY DEF NoHalfAnswer
    <2>1. Dispatch(buf) = "done"
      OBVIOUS
    <2> QED BY <1>1, <2>1, FlushReceives
  <1> QED BY <1>2, <1>3 DEF StreamInv

LEMMA BufferGrows ==
    ASSUME Received, NEW p \in Payloads \cup {Torn}
    PROVE  Append(dataBuf, p) \in Seq(Payloads \cup {Torn})
  BY DEF Received

\* A step of the parser.
LEMMA ParserKeepsWhole ==
    ASSUME StreamInv, DataLine \/ BlankLine \/ EndOfBody \/ BodyFails
    PROVE  StreamInv'
  <1>1. Received /\ (reader = "read" => streamed = NoResult /\ Unended)
    BY DEF StreamInv
  <1>2. CASE DataLine
    <2>1. \E p \in Payloads : dataBuf' = Append(dataBuf, p)
      BY <1>2 DEF DataLine
    <2>2. dataBuf' \in Seq(Payloads \cup {Torn})
      BY <1>1, <2>1, BufferGrows
    <2>3. reader = "read" /\ UNCHANGED <<acc, shown, events, streamed>>
      BY <1>2 DEF DataLine
    <2>4. Received' /\ Unended'
      BY <1>1, <2>2, <2>3 DEF Received, Unended
    <2> QED BY <1>1, <2>3, <2>4 DEF StreamInv, NoHalfAnswer, NoResult
  <1>3. CASE BlankLine
    <2>1. reader = "read" /\ Flush(dataBuf) /\ dataBuf \in Seq(Payloads \cup {Torn})
      BY <1>1, <1>3 DEF BlankLine, Received
    <2>2. CASE Dispatch(dataBuf) = NoResult
      <3>1. reader' = "top" /\ UNCHANGED streamed
        BY <1>3, <2>2 DEF BlankLine
      <3>2. Received' /\ Unended'
        BY <1>1, <2>1, <2>2, FlushReceives
      <3> QED BY <1>1, <2>1, <3>1, <3>2 DEF StreamInv, NoHalfAnswer, NoResult
    <2>3. CASE Dispatch(dataBuf) # NoResult
      <3>1. reader' = "parsed" /\ streamed' = IF Dispatch(dataBuf) = "done" THEN "ok" ELSE Dispatch(dataBuf)
        BY <1>3, <2>3 DEF BlankLine, ParsedAs
      <3>2. Dispatch(dataBuf) # "ok"
        BY DEF Dispatch, NoResult
      <3> QED BY <2>1, <3>1, <3>2, EndReceives
    <2> QED BY <2>2, <2>3
  <1>4. CASE EndOfBody
    <2>1. PICK buf \in {dataBuf, Append(dataBuf, Torn)} : Flush(buf) /\ ParsedAs(AtEnd(buf))
      BY <1>4 DEF EndOfBody
    <2>2. reader = "read" /\ buf \in Seq(Payloads \cup {Torn})
      BY <1>1, <1>4, BufferGrows DEF EndOfBody, Received
    <2>3. streamed' = "ok" => Dispatch(buf) = "done"
      BY <2>1 DEF ParsedAs, AtEnd, Dispatch, NoResult
    <2> QED BY <2>1, <2>2, <2>3, EndReceives DEF ParsedAs
  <1>5. CASE BodyFails
    <2> DEFINE broken == IF stopped THEN "cancelled" ELSE "reset"
               r == Dispatch(dataBuf)
    <2>1. /\ reader = "read" /\ dataBuf \in Seq(Payloads \cup {Torn})
          /\ \/ ParsedAs(broken) /\ UNCHANGED <<dataBuf, acc, shown, events>>
             \/ /\ Flush(dataBuf)
                /\ ParsedAs(CASE r = NoResult -> broken [] r = "done" -> "ok" [] OTHER -> r)
      BY <1>1, <1>5 DEF BodyFails, Received
    <2>2. CASE ParsedAs(broken) /\ UNCHANGED <<dataBuf, acc, shown, events>>
      <3>1. reader' = "parsed" /\ streamed' # "ok"
        BY <2>2 DEF ParsedAs
      <3>2. Received'
        BY <1>1, <2>2 DEF Received
      <3> QED BY <3>1, <3>2 DEF StreamInv, NoHalfAnswer
    <2>3. CASE /\ Flush(dataBuf)
               /\ ParsedAs(CASE r = NoResult -> broken [] r = "done" -> "ok" [] OTHER -> r)
      <3>1. streamed' = "ok" => r = "done"
        BY <2>3 DEF ParsedAs, Dispatch, NoResult
      <3> QED BY <2>1, <2>3, <3>1, EndReceives DEF ParsedAs
    <2> QED BY <2>1, <2>2, <2>3
  <1> QED BY <1>2, <1>3, <1>4, <1>5

\* The others leave what was received alone.
LEMMA OthersKeepWhole ==
    ASSUME StreamInv,
           \/ Respond \/ NoResponse \/ ReadLoop \/ StreamReturns \/ Watchdog \/ CallerStops
           \/ UNCHANGED streamVars
    PROVE  StreamInv'
  <1>1. UNCHANGED <<dataBuf, acc, shown, events>>
    BY DEF Respond, NoResponse, ReadLoop, StreamReturns, Watchdog, CallerStops, streamVars, ParsedAs
  <1>2. /\ Received' /\ (Unended => Unended')
    BY <1>1 DEF StreamInv, Received, Unended
  <1>3. streamed' = "ok" => streamed = "ok"
    BY DEF Respond, NoResponse, ReadLoop, StreamReturns, Watchdog, CallerStops, streamVars, ParsedAs
  <1>4. reader' \in {"headers", "top", "read"} =>
          reader \in {"headers", "top", "read"} /\ streamed' = streamed
    BY DEF Respond, NoResponse, ReadLoop, StreamReturns, Watchdog, CallerStops, streamVars, ParsedAs
  <1> QED BY <1>1, <1>2, <1>3, <1>4 DEF StreamInv, NoHalfAnswer

LEMMA StreamInvMeans == StreamInv => StreamIsWhole
  <1> SUFFICES ASSUME StreamInv PROVE Reassembled
    BY DEF StreamInv, StreamIsWhole
  <1>1. Holds(acc, events) /\ shown = acc.text
    BY DEF StreamInv, Received
  <1>2. shown # <<>> => shown = Content(acc)
    BY <1>1 DEF Content
  <1> QED BY <1>1, <1>2 DEF Reassembled, Holds, FragmentsOf

\* However the fragments of a stream interleave and wherever its body ends, the
\* loop is handed each call whole, in the order it came, and an answer that has
\* no error was received to its [DONE] (parseSSE, absorbDelta).
THEOREM StreamsAreWhole == StreamSpec => []StreamIsWhole
  <1>1. StreamInv /\ [StreamNext]_streamVars => StreamInv'
    BY ParserKeepsWhole, OthersKeepWhole DEF StreamNext
  <1> QED BY <1>1, StreamStarts, StreamInvMeans, PTL DEF StreamSpec

-----------------------------------------------------------------------------
(* A foreground command *)

\* What cmd.Run returned says how the shell ended, and the shell stays ended.
RunIsTrue ==
    /\ ran # NotYet => shell \in Dead
    /\ ran = "nil" => shell = "zero"
    /\ ran = "exit error" => shell \in {"nonzero", "killed"}

\* Nothing is told before Run has returned, but a refusal; nothing is left
\* behind before the shell has begun.
ToldLast ==
    /\ told \notin {NotYet, "refused"} => ran # NotYet
    /\ told = "refused" => shell = "ready"
    /\ shell = "ready" => heir = "none" /\ ran = NotYet

CommandInv == CommandTypeOK /\ RunIsTrue /\ ToldLast /\ TimeoutLeavesNothing

LEMMA CommandInvStarts == CommandInit => CommandInv
  BY DEF CommandInit, CommandInv, CommandTypeOK, RunIsTrue, ToldLast,
         TimeoutLeavesNothing, Dead, NotYet

\* The steps before the command is reported, taken by the shell and what it
\* left behind, by the context and by exec.
LEMMA CommandLives ==
    ASSUME CommandInv,
           \/ Refused \/ StartShell \/ LeaveHeir \/ HeirEnds \/ ShellExits
           \/ ContextEnds \/ OnContextDone \/ DelayExpires
    PROVE  CommandInv'
  <1> USE DEF CommandInv, CommandTypeOK, RunIsTrue, ToldLast,
              TimeoutLeavesNothing, Dead, NotYet
  <1>1. CASE Refused      BY <1>1 DEF Refused
  <1>2. CASE StartShell   BY <1>2 DEF StartShell
  <1>3. CASE LeaveHeir    BY <1>3 DEF LeaveHeir
  <1>4. CASE HeirEnds     BY <1>4 DEF HeirEnds
  <1>5. CASE ShellExits   BY <1>5 DEF ShellExits
  <1>6. CASE ContextEnds  BY <1>6 DEF ContextEnds
  <1>7. CASE OnContextDone BY <1>7 DEF OnContextDone, KillGroup
  <1>8. CASE DelayExpires BY <1>8 DEF DelayExpires
  <1> QED BY <1>1, <1>2, <1>3, <1>4, <1>5, <1>6, <1>7, <1>8

\* Run returns once the shell has been waited for.
LEMMA CommandIsWaitedFor ==
    ASSUME CommandInv, RunReturns
    PROVE  CommandInv'
  <1>1. ran' \in {"nil", "exit error", "context error", "delay error"}
    BY DEF RunReturns
  <1>2. RunIsTrue'
    BY <1>1 DEF RunReturns, RunIsTrue, Dead, NotYet
  <1> QED
    BY <1>1, <1>2 DEF RunReturns, CommandInv, CommandTypeOK, ToldLast,
       TimeoutLeavesNothing, Dead, NotYet

\* Invoke signals the group again before it reports a timeout: something may
\* have joined it after the first signal.
LEMMA CommandIsTold ==
    ASSUME CommandInv, Tell
    PROVE  CommandInv'
  <1> USE DEF CommandInv, CommandTypeOK, RunIsTrue, ToldLast,
              TimeoutLeavesNothing, Dead, NotYet
  <1>1. CASE context = "deadline"
    BY <1>1 DEF Tell, KillGroup
  <1>2. CASE context # "deadline"
    <2>1. told' = "code 0" <=> ran = "nil"
      BY <1>2 DEF Tell
    <2>2. told' = "code" <=> ran = "exit error"
      BY <1>2 DEF Tell
    <2>3. told' \in {"code 0", "code", "failed"}
      BY <1>2 DEF Tell
    <2> QED BY <1>2, <2>1, <2>2, <2>3 DEF Tell
  <1> QED BY <1>1, <1>2

LEMMA InvariantOfCommand == CommandSpec => []CommandInv
  <1>1. CommandInv /\ [CommandNext]_commandVars => CommandInv'
    <2>1. CommandInv /\ UNCHANGED commandVars => CommandInv'
      BY DEF commandVars, CommandInv, CommandTypeOK, RunIsTrue, ToldLast,
             TimeoutLeavesNothing
    <2> QED
      BY <2>1, CommandLives, CommandIsWaitedFor, CommandIsTold DEF CommandNext
  <1> QED BY CommandInvStarts, <1>1, PTL DEF CommandSpec

\* A command reported as out of time has left nothing running in its group, and
\* an exit code is the one of a shell that is gone (run_command.go Invoke,
\* procgroup_unix.go).
THEOREM NothingOutlivesItsTimeout == CommandSpec => []TimeoutLeavesNothing
  <1>1. CommandInv => TimeoutLeavesNothing
    BY DEF CommandInv
  <1> QED BY <1>1, InvariantOfCommand, PTL

-----------------------------------------------------------------------------
(* Background processes *)

\* A process that is done has ended, so it writes no more; the reader who holds
\* its mutex has read all of it, if it was done by then; and "exited" is only
\* said of one that was.
ReadToTheEnd ==
    \A p \in Procs :
        /\ procs[p].done => procs[p].life \in {"exited", "killed"}
        /\ reading = p /\ procs[p].done => procs[p].readN = procs[p].kept
        /\ procs[p].told = "exited" => procs[p].done

BackgroundInv ==
    BackgroundTypeOK /\ ReadToTheEnd /\ ExitedMeansAllRead /\ NothingSurvives

LEMMA BackgroundInvStarts == BackgroundInit => BackgroundInv
  BY BackgroundAssumption
  DEF BackgroundInit, BackgroundInv, BackgroundTypeOK, ReadToTheEnd,
      ExitedMeansAllRead, NothingSurvives, NoProc, Proc, Holders

\* A step of one process is harmless if what becomes of that process is.
LEMMA OneProcessMoves ==
    ASSUME BackgroundInv, NEW p \in Procs, NEW q \in Proc,
           procs' = [procs EXCEPT ![p] = q],
           reading' \in {reading, p, 0}, actor' \in Holders, over' = over, seq' \in Nat,
           q.done => q.life \in {"exited", "killed"},
           reading' = p /\ q.done => q.readN = q.kept,
           q.told = "exited" => q.done /\ q.readN = q.kept,
           q.life = "alive" => q.owner \notin over
    PROVE  BackgroundInv'
  <1>1. BackgroundTypeOK'
    BY DEF BackgroundInv, BackgroundTypeOK
  <1>2. ASSUME NEW r \in Procs
        PROVE  \/ r = p /\ procs'[r] = q
               \/ r # p /\ procs'[r] = procs[r] /\ (reading' = r => reading = r)
    BY BackgroundAssumption DEF BackgroundInv, BackgroundTypeOK
  <1>3. ReadToTheEnd' /\ ExitedMeansAllRead' /\ NothingSurvives'
    BY <1>2 DEF BackgroundInv, ReadToTheEnd, ExitedMeansAllRead, NothingSurvives
  <1> QED BY <1>1, <1>3 DEF BackgroundInv

\* What a process does by itself, and what its reaper does.
LEMMA ProcessSteps ==
    ASSUME BackgroundInv, NEW p \in Procs, Write(p) \/ Exit(p) \/ Reap(p)
    PROVE  BackgroundInv'
  <1> DEFINE o == procs[p]
  <1>1. /\ o \in Proc /\ actor \in Holders /\ seq \in Nat
        /\ o.done => o.life \in {"exited", "killed"}
        /\ reading = p /\ o.done => o.readN = o.kept
        /\ o.told = "exited" => o.done /\ o.readN = o.kept
        /\ o.life = "alive" => o.owner \notin over
    BY DEF BackgroundInv, BackgroundTypeOK, ReadToTheEnd, ExitedMeansAllRead,
           NothingSurvives
  <1>2. procs \in [Procs -> Proc] /\ o.made + 1 \in Nat /\ o.kept + 1 \in Nat
    BY <1>1 DEF BackgroundInv, BackgroundTypeOK, Proc
  <1>3. CASE Write(p)
    <2> DEFINE q == [o EXCEPT !.made = @ + 1, !.kept = IF @ < Cap THEN @ + 1 ELSE @]
    <2>1. procs' = [procs EXCEPT ![p] = q]
      BY <1>2, <1>3 DEF Write
    <2>2. /\ q \in Proc /\ q.life = o.life /\ q.done = o.done /\ q.told = o.told
          /\ q.owner = o.owner
      BY <1>1, <1>2 DEF Proc
    <2>3. o.life = "alive" /\ reading' = reading /\ actor' = actor /\ over' = over
          /\ seq' = seq
      BY <1>3 DEF Write
    <2> HIDE DEF q
    <2> QED BY <1>1, <2>1, <2>2, <2>3, OneProcessMoves
  <1>4. CASE Exit(p)
    <2> DEFINE q == [o EXCEPT !.life = "exited"]
    <2>1. procs' = [procs EXCEPT ![p] = q]
      BY <1>2, <1>4 DEF Exit
    <2>2. /\ q \in Proc /\ q.life = "exited" /\ q.done = o.done /\ q.told = o.told
          /\ q.readN = o.readN /\ q.kept = o.kept
      BY <1>1 DEF Proc
    <2>3. reading' = reading /\ actor' = actor /\ over' = over /\ seq' = seq
      BY <1>4 DEF Exit
    <2> HIDE DEF q
    <2> QED BY <1>1, <2>1, <2>2, <2>3, OneProcessMoves
  <1>5. CASE Reap(p)
    <2> DEFINE q == [o EXCEPT !.done = TRUE]
    <2>1. procs' = [procs EXCEPT ![p] = q]
      BY <1>2, <1>5 DEF Reap
    <2>2. /\ q \in Proc /\ q.life = o.life /\ q.done = TRUE /\ q.told = o.told
          /\ q.readN = o.readN /\ q.kept = o.kept /\ q.owner = o.owner
      BY <1>1 DEF Proc
    <2>3. /\ reading # p /\ o.life \in {"exited", "killed"}
          /\ reading' = reading /\ actor' = actor /\ over' = over /\ seq' = seq
      BY <1>5 DEF Reap, Held
    <2> HIDE DEF q
    <2> QED BY <1>1, <2>1, <2>2, <2>3, OneProcessMoves
  <1> QED BY <1>3, <1>4, <1>5

\* Start and the two halves of Output.
LEMMA ReaderSteps ==
    ASSUME BackgroundInv,
           StartProcess \/ \E p \in Procs : ReadOutput(p) \/ ReadStatus(p)
    PROVE  BackgroundInv'
  <1> DEFINE Was(p) ==
        /\ procs[p] \in Proc
        /\ procs[p].done => procs[p].life \in {"exited", "killed"}
        /\ reading = p /\ procs[p].done => procs[p].readN = procs[p].kept
        /\ procs[p].told = "exited" => procs[p].done /\ procs[p].readN = procs[p].kept
        /\ procs[p].life = "alive" => procs[p].owner \notin over
  <1>1. /\ procs \in [Procs -> Proc] /\ actor \in Holders /\ seq \in Nat
        /\ \A p \in Procs : Was(p)
    BY DEF BackgroundInv, BackgroundTypeOK, ReadToTheEnd, ExitedMeansAllRead,
           NothingSurvives
  <1>2. CASE StartProcess
    <2> DEFINE q == [NoProc EXCEPT !.owner = actor, !.life = "alive"]
    <2>1. /\ q \in Proc /\ q.life = "alive" /\ q.owner = actor /\ ~ q.done
          /\ q.told = "nothing"
      BY <1>1 DEF NoProc, Proc
    <2>2. /\ actor \notin over /\ reading' = reading /\ actor' = actor /\ over' = over
          /\ seq + 1 \in Procs /\ seq' = seq + 1 /\ seq + 1 \in Nat
          /\ procs' = [procs EXCEPT ![seq + 1] = q]
      BY <1>1, <1>2 DEF StartProcess, Acts
    <2> HIDE DEF q
    <2> QED BY <1>1, <2>1, <2>2, OneProcessMoves
  <1>3. ASSUME NEW p \in Procs, ReadOutput(p)
        PROVE  BackgroundInv'
    <2> DEFINE q == [procs[p] EXCEPT !.readN = procs[p].kept]
    <2>1. /\ q \in Proc /\ q.life = procs[p].life /\ q.done = procs[p].done
          /\ q.told = procs[p].told /\ q.owner = procs[p].owner
          /\ q.readN = q.kept
      BY <1>1 DEF Proc
    <2>2. /\ procs' = [procs EXCEPT ![p] = q]
          /\ reading' = p /\ actor' = actor /\ over' = over /\ seq' = seq
      BY <1>1, <1>3 DEF ReadOutput
    <2>3. Was(p)
      BY <1>1
    <2> HIDE DEF q
    <2> QED BY <1>1, <2>1, <2>2, <2>3, OneProcessMoves
  <1>4. ASSUME NEW p \in Procs, ReadStatus(p)
        PROVE  BackgroundInv'
    <2> DEFINE q == [procs[p] EXCEPT !.told = IF procs[p].done THEN "exited" ELSE "running"]
    <2>1. /\ q \in Proc /\ q.life = procs[p].life /\ q.done = procs[p].done
          /\ q.owner = procs[p].owner
          /\ q.readN = procs[p].readN /\ q.kept = procs[p].kept
          /\ q.told = IF procs[p].done THEN "exited" ELSE "running"
      BY <1>1 DEF Proc
    <2>2. /\ procs' = [procs EXCEPT ![p] = q]
          /\ reading = p /\ reading' = 0 /\ actor' = actor /\ over' = over /\ seq' = seq
      BY <1>1, <1>4 DEF ReadStatus
    <2>3. Was(p) /\ p # 0
      BY <1>1, BackgroundAssumption
    <2> HIDE DEF q
    <2> QED BY <1>1, <2>1, <2>2, <2>3, OneProcessMoves
  <1> QED BY <1>2, <1>3, <1>4

\* A kill leaves everything of a process but its life as it was.
LEMMA KilledIsHarmless ==
    ASSUME procs \in [Procs -> Proc], NEW P
    PROVE  /\ Killed(P) \in [Procs -> Proc]
           /\ \A p \in Procs :
                 /\ Killed(P)[p].life = IF p \in P /\ procs[p].life = "alive"
                                        THEN "killed" ELSE procs[p].life
                 /\ Killed(P)[p].done = procs[p].done
                 /\ Killed(P)[p].told = procs[p].told
                 /\ Killed(P)[p].readN = procs[p].readN
                 /\ Killed(P)[p].kept = procs[p].kept
                 /\ Killed(P)[p].owner = procs[p].owner
  BY DEF Killed, Proc

\* Stop, and the finish of a run, that stops the processes of every run.
LEMMA StoppingSteps ==
    ASSUME BackgroundInv, FinishRun \/ \E p \in Procs : StopProcess(p)
    PROVE  BackgroundInv'
  <1>1. procs \in [Procs -> Proc]
    BY DEF BackgroundInv, BackgroundTypeOK
  <1>2. PICK P \in SUBSET Procs :
            /\ procs' = Killed(P) /\ reading' = reading /\ seq' = seq
            /\ \/ over' = over /\ actor' = actor
               \/ over' = over \cup {actor} /\ actor' = "parent" /\ P = Tracked
    BY DEF FinishRun, StopProcess, Tracked
  <1>3. BackgroundTypeOK'
    BY <1>1, <1>2, KilledIsHarmless DEF BackgroundInv, BackgroundTypeOK, Holders
  <1>4. ReadToTheEnd' /\ ExitedMeansAllRead'
    BY <1>1, <1>2, KilledIsHarmless DEF BackgroundInv, ReadToTheEnd, ExitedMeansAllRead
  <1>5. NothingSurvives'
    <2>1. CASE over' = over
      BY <1>1, <1>2, <2>1, KilledIsHarmless DEF BackgroundInv, NothingSurvives
    <2>2. CASE P = Tracked
      BY <1>1, <1>2, <2>2, KilledIsHarmless DEF NothingSurvives, Tracked, Started
    <2> QED BY <1>2, <2>1, <2>2
  <1> QED BY <1>3, <1>4, <1>5 DEF BackgroundInv

LEMMA InvariantOfBackground == BackgroundSpec => []BackgroundInv
  <1>1. BackgroundInv /\ [BackgroundNext]_backgroundVars => BackgroundInv'
    <2>1. BackgroundInv /\ UNCHANGED backgroundVars => BackgroundInv'
      BY DEF backgroundVars, BackgroundInv, BackgroundTypeOK, ReadToTheEnd,
             ExitedMeansAllRead, NothingSurvives
    <2>2. BackgroundInv /\ SpawnChild => BackgroundInv'
      BY DEF SpawnChild, BackgroundInv, BackgroundTypeOK, ReadToTheEnd,
             ExitedMeansAllRead, NothingSurvives, Holders
    <2> QED
      BY <2>1, <2>2, ProcessSteps, ReaderSteps, StoppingSteps DEF BackgroundNext
  <1> QED BY BackgroundInvStarts, <1>1, PTL DEF BackgroundSpec

\* No background process outlives the run that started it, and one that the
\* model is told has exited has been read to its end (background.go, finish.go).
THEOREM BackgroundIsAccounted == BackgroundSpec => []ProcessesAccounted
  <1>1. BackgroundInv => ProcessesAccounted
    BY DEF BackgroundInv, ProcessesAccounted
  <1> QED BY <1>1, InvariantOfBackground, PTL

-----------------------------------------------------------------------------
(* How a reply becomes calls *)

(* Texts that are put together *)

\* One text and then another.
Then(T, t, a, b) ==
    /\ t \in Seq(T) /\ Len(t) = Len(a) + Len(b)
    /\ \A i \in 1 .. Len(a) : t[i] = a[i]
    /\ \A i \in 1 .. Len(b) : t[Len(a) + i] = b[i]

\* It is the second appended to the first.
LEMMA Joining ==
    ASSUME NEW T, NEW a \in Seq(T), NEW b \in Seq(T)
    PROVE  Then(T, a \o b, a, b)
  <1>1. a \o b \in Seq(T)
    OBVIOUS
  <1>2. Len(a \o b) = Len(a) + Len(b)
    OBVIOUS
  <1>3. \A i \in 1 .. Len(a) : (a \o b)[i] = a[i]
    OBVIOUS
  <1>4. \A i \in 1 .. Len(b) : (a \o b)[Len(a) + i] = b[i]
    OBVIOUS
  <1> QED BY <1>1, <1>2, <1>3, <1>4 DEF Then

\* What holds of the first text, and of a text and the next one when it held before,
\* holds of all of them put together.
LEMMA FlatteningHolds ==
    ASSUME NEW T, NEW seqs \in Seq(Seq(T)), NEW n \in Nat, n # 0, Len(seqs) = n, NEW G,
           seqs[1] \in G[1], \A i \in 1 .. (n - 1) : \A s \in G[i] : s \o seqs[i + 1] \in G[i + 1]
    PROVE  FlattenSeq(seqs) \in G[n]
  <1> DEFINE flat == CHOOSE f : f = [i \in 1 .. n |-> IF i = 1 THEN seqs[i] ELSE f[i - 1] \o seqs[i]]
             step == [i \in 1 .. (n - 1) |-> [v \in Seq(T) |-> v \o seqs[i + 1]]]
  <1>1. n \in Nat \ {0} /\ n - 1 \in Nat /\ \A i \in 1 .. n : seqs[i] \in Seq(T)
    OBVIOUS
  <1>2. FlattenSeq(seqs) = flat[n] /\ seqs[1] \in Seq(T)
    BY <1>1 DEF FlattenSeq
  <1>3. \A i \in 1 .. (n - 1) : step[i] \in [Seq(T) -> Seq(T)]
    <2> SUFFICES ASSUME NEW i \in 1 .. (n - 1) PROVE step[i] \in [Seq(T) -> Seq(T)]
      OBVIOUS
    <2>1. seqs[i + 1] \in Seq(T)
      BY <1>1
    <2>2. \A v \in Seq(T) : v \o seqs[i + 1] \in Seq(T)
      BY <2>1
    <2> QED BY <2>2
  <1>4. \A i \in 1 .. (n - 1), v \in Seq(T) : step[i][v] = v \o seqs[i + 1]
    OBVIOUS
  <1> HIDE DEF step
  <1>5. \E g \in [0 .. (n - 1) -> Seq(T)] : Runs(g, seqs[1], step, n - 1)
    BY <1>1, <1>2, <1>3, RunningValues, Zenon
  <1>6. PICK g \in [0 .. (n - 1) -> Seq(T)] : Runs(g, seqs[1], step, n - 1)
    BY <1>5
  <1> DEFINE h == [i \in 1 .. n |-> g[i - 1]]
  <1>7. ASSUME NEW i \in 1 .. n
        PROVE  h[i] = IF i = 1 THEN seqs[i] ELSE h[i - 1] \o seqs[i]
    <2>1. g = [j \in 0 .. (n - 1) |-> IF j = 0 THEN seqs[1] ELSE step[j][g[j - 1]]]
      BY <1>6 DEF Runs
    <2>2. CASE i = 1
      BY <1>1, <2>1, <2>2
    <2>3. CASE i # 1
      <3>0. i - 1 \in 1 .. (n - 1) /\ (i - 1) - 1 \in 0 .. (n - 1) /\ i - 1 \in 0 .. (n - 1)
            /\ (i - 1) + 1 = i /\ i - 1 # 0 /\ i - 1 \in 1 .. n
        BY <1>1, <2>3
      <3>1. i - 1 \in 1 .. (n - 1) /\ g[(i - 1) - 1] \in Seq(T) /\ (i - 1) + 1 = i
        BY <3>0
      <3>2. g[i - 1] = step[i - 1][g[(i - 1) - 1]]
        BY <2>1, <3>0
      <3>3. step[i - 1][g[(i - 1) - 1]] = g[(i - 1) - 1] \o seqs[(i - 1) + 1]
        BY <1>4, <3>1
      <3>4. h[i - 1] = g[(i - 1) - 1] /\ h[i] = g[i - 1]
        BY <3>0
      <3>5. seqs[(i - 1) + 1] = seqs[i]
        BY <3>1
      <3> QED BY <2>3, <3>2, <3>3, <3>4, <3>5
    <2> QED BY <2>2, <2>3
  <1>8. h = [i \in 1 .. n |-> IF i = 1 THEN seqs[i] ELSE h[i - 1] \o seqs[i]]
    BY <1>7
  <1> HIDE DEF h
  <1>9. flat = [i \in 1 .. n |-> IF i = 1 THEN seqs[i] ELSE flat[i - 1] \o seqs[i]]
    BY <1>8
  <1> HIDE DEF flat
  <1> DEFINE S == {i \in 1 .. n : flat[i] \in G[i]}
  <1>10. 1 \in S /\ 1 \in Int /\ n \in Int
    BY <1>1, <1>2, <1>9
  <1>11. ASSUME NEW i \in 1 .. (n - 1), i \in S PROVE i + 1 \in S
    <2>0. i + 1 \in 1 .. n /\ i + 1 # 1 /\ (i + 1) - 1 = i
      BY <1>1
    <2>1. flat[i + 1] = flat[i] \o seqs[i + 1]
      BY <1>1, <1>9, <2>0
    <2>2. flat[i] \in G[i]
      BY <1>11
    <2>3. flat[i] \o seqs[i + 1] \in G[i + 1]
      BY <2>2
    <2> QED BY <2>0, <2>1, <2>3
  <1> HIDE DEF S
  <1>12. 1 .. n \subseteq S
    BY <1>10, <1>11, IntervalInduction, Zenon
  <1>13. n \in S
    BY <1>1, <1>12
  <1> QED BY <1>2, <1>13 DEF S

\* Where the first mark of some kinds is.
LEMMA FirstIs ==
    ASSUME NEW text, Len(text) \in Nat, NEW i \in 1 .. (Len(text) + 1), NEW kinds
    PROVE  /\ FirstOf(text, i, kinds) \in i .. (Len(text) + 1)
           /\ FirstOf(text, i, kinds) <= Len(text) => text[FirstOf(text, i, kinds)].kind \in kinds
           /\ \A j \in i .. (FirstOf(text, i, kinds) - 1) : text[j].kind \notin kinds
  <1> DEFINE S == {j \in i .. Len(text) : text[j].kind \in kinds} \cup {Len(text) + 1}
  <1>1. S \subseteq Nat /\ S # {} /\ S \subseteq i .. (Len(text) + 1)
    OBVIOUS
  <1>2. \A j \in S : j <= Len(text) => text[j].kind \in kinds
    OBVIOUS
  <1>3. \A j \in i .. Len(text) : text[j].kind \in kinds => j \in S
    OBVIOUS
  <1>4. FirstOf(text, i, kinds) = Min(S)
    BY DEF FirstOf
  <1> HIDE DEF S
  <1>5. Min(S) \in S /\ \A x \in S : Min(S) <= x
    BY <1>1, LeastIn
  <1> DEFINE m == Min(S)
  <1>6. m \in S /\ \A x \in S : m <= x
    BY <1>5
  <1>7. FirstOf(text, i, kinds) = m
    BY <1>4
  <1> HIDE DEF m
  <1>8. m \in i .. (Len(text) + 1) /\ (m <= Len(text) => text[m].kind \in kinds)
    BY <1>1, <1>2, <1>6
  <1>9. ASSUME NEW j \in i .. (m - 1) PROVE text[j].kind \notin kinds
    <2>1. j \in i .. Len(text) /\ j < m
      BY <1>8
    <2>2. j \notin S
      <3>1. m \in Int /\ j \in Int /\ ~ (m <= j)
        BY <1>8, <2>1
      <3> QED BY <1>6, <3>1
    <2> QED BY <1>3, <2>1, <2>2
  <1> QED BY <1>7, <1>8, <1>9

\* And it is there when it is the first of them.
LEMMA FirstIsAt ==
    ASSUME NEW text, Len(text) \in Nat, NEW i \in 1 .. (Len(text) + 1), NEW kinds,
           NEW p \in i .. (Len(text) + 1), p <= Len(text) => text[p].kind \in kinds,
           \A j \in i .. (p - 1) : text[j].kind \notin kinds
    PROVE  FirstOf(text, i, kinds) = p
  <1> DEFINE f == FirstOf(text, i, kinds)
  <1>1. /\ f \in i .. (Len(text) + 1)
        /\ f <= Len(text) => text[f].kind \in kinds
        /\ \A j \in i .. (f - 1) : text[j].kind \notin kinds
    BY FirstIs
  <1> HIDE DEF f
  <1>2. ~ (f < p)
    <2> SUFFICES ASSUME f < p PROVE FALSE
      OBVIOUS
    <2>1. f \in i .. (p - 1) /\ f <= Len(text)
      BY <1>1
    <2> QED BY <1>1, <2>1
  <1>3. ~ (p < f)
    <2> SUFFICES ASSUME p < f PROVE FALSE
      OBVIOUS
    <2>1. p \in i .. (f - 1) /\ p <= Len(text)
      BY <1>1
    <2> QED BY <1>1, <2>1
  <1> QED BY <1>1, <1>2, <1>3 DEF f

-----------------------------------------------------------------------------
(* What a model writes *)

\* The words of the replies, and the marks they are written with.
Written == UNION {ToSet(r.calls) : r \in Replies}
Word == {"", "prose"} \cup UNION {{c.name} \cup UNION {{b.key, b.text} : b \in ToSet(c.args)} : c \in Written}
Tokens == [kind : Marks \cup {"text"}, v : Word]

\* A mark is a token of the replies.
LEMMA MarksAre == ASSUME NEW k \in Marks \cup {"text"}, NEW w \in Word
                  PROVE  Mark(k, w) \in Tokens /\ Mark(k, w).kind = k /\ Mark(k, w).v = w
  BY DEF Mark, Tokens

\* The words of a call are among those of the replies.
LEMMA WordsAre ==
    ASSUME NEW c \in Written
    PROVE  /\ c.name \in Word /\ "" \in Word /\ "prose" \in Word
           /\ \A b \in ToSet(c.args) : b.key \in Word /\ b.text \in Word
  <1> DEFINE of(d) == {d.name} \cup UNION {{b.key, b.text} : b \in ToSet(d.args)}
  <1>1. \A d \in Written : of(d) \subseteq Word
    BY Zenon DEF Word
  <1>2. of(c) \subseteq Word
    BY <1>1
  <1>3. ASSUME NEW b \in ToSet(c.args) PROVE b.key \in of(c) /\ b.text \in of(c)
    <2>1. b.key \in {b.key, b.text} /\ b.text \in {b.key, b.text}
      OBVIOUS
    <2> QED BY <2>1
  <1>4. "" \in Word /\ "prose" \in Word
    BY DEF Word
  <1> QED BY <1>2, <1>3, <1>4

\* The arguments a sequence has.
LEMMA ElementsAre ==
    ASSUME NEW s, NEW T, s \in Seq(T)
    PROVE  /\ DOMAIN s = 1 .. Len(s) /\ Len(s) \in Nat
           /\ \A i \in DOMAIN s : s[i] \in ToSet(s)
           /\ \A x \in ToSet(s) : x \in T /\ \E i \in DOMAIN s : x = s[i]
  <1>1. DOMAIN s = 1 .. Len(s) /\ Len(s) \in Nat
    OBVIOUS
  <1>2. \A i \in DOMAIN s : s[i] \in T
    OBVIOUS
  <1>3. \A i \in DOMAIN s : s[i] \in ToSet(s)
    BY DEF ToSet
  <1>4. \A x \in ToSet(s) : \E i \in DOMAIN s : x = s[i]
    BY DEF ToSet
  <1> QED BY <1>1, <1>2, <1>3, <1>4

\* What each call has.
LEMMA CallsAre ==
    ASSUME NEW c \in Written
    PROVE  /\ c.closed \in BOOLEAN /\ c.args \in Seq(ToSet(c.args))
           /\ \A b \in ToSet(c.args) : b.closed \in BOOLEAN
  BY DialectAssumption DEF Written

\* Nothing ends the argument at a place but the next call or the end of the text.
Dangles(T, a) == a + 2 > Len(T) \/ T[a + 2].kind = "call"

\* The argument at a place of a text, with its value and what comes after it; only
\* some are left open.
ArgAt(T, a, args, ends) ==
    \E b \in args : /\ T[a].v = b.key
                    /\ a + 1 <= Len(T) /\ T[a + 1] = Mark("text", b.text)
                    /\ a + 2 <= Len(T) => T[a + 2].kind \in Marks
                    /\ Dangles(T, a) => b \in ends

\* The arguments after a place, up to the next call.
ArgsAfter(T, c, args, ends) ==
    \A a \in c + 1 .. Len(T) :
        T[a].kind = "arg" /\ (\A j \in c + 1 .. a : T[j].kind # "call") => ArgAt(T, a, args, ends)

\* A text says these calls.
Says(T, C) ==
    \A c \in 1 .. Len(T) : T[c].kind = "call" =>
        \E w \in C : T[c].v = w.name /\ ArgsAfter(T, c, ToSet(w.args), LeftOpen(w))

\* No argument lacks its end, before the last one or at all.
ArgsEnd(T) ==
    \A a \in 1 .. Len(T) : T[a].kind = "arg" =>
        a + 1 <= Len(T) /\ (a + 2 <= Len(T) => T[a + 2].kind \in {"/arg", "/call"})
AllEnd(T)  == \A a \in 1 .. Len(T) : T[a].kind = "arg" => a + 2 <= Len(T)

\* No call lacks its end, before the last one or at all.
CallsEnd(T)  == \A c \in 2 .. Len(T) : T[c].kind = "call" => T[c - 1].kind = "/call"
Tidy(T)      == CallsEnd(T) /\ ArgsEnd(T)
Complete(T)  == Len(T) # 0 /\ T[Len(T)].kind = "/call" /\ AllEnd(T)

Closed(args, k) == \A i \in 1 .. k : args[i].closed
OpenAt(args, k) == {b \in {args[k]} : ~ b.closed}
NoCallIn(T) == \A p \in 1 .. Len(T) : T[p].kind # "call"

\* One argument.
ArgWritten(t, b) ==
    /\ t \in Seq(Tokens)
    /\ Len(t) = (IF b.closed THEN 3 ELSE 2)
    /\ t[1].kind = "arg" /\ t[1].v = b.key /\ t[2] = Mark("text", b.text) /\ t[2].kind = "text"
    /\ b.closed => t[3].kind = "/arg"

\* ArgText writes one argument.
LEMMA ArgIsWritten ==
    ASSUME NEW c \in Written, NEW b \in ToSet(c.args)
    PROVE  ArgWritten(ArgText(b), b)
  <1>1. b.key \in Word /\ b.text \in Word /\ "" \in Word
    BY WordsAre
  <1> DEFINE m1 == Mark("arg", b.key)
             m2 == Mark("text", b.text)
             m3 == Mark("/arg", "")
  <1>2. "arg" \in Marks \cup {"text"} /\ "text" \in Marks \cup {"text"} /\ "/arg" \in Marks \cup {"text"}
    BY DEF Marks
  <1>3. /\ m1 \in Tokens /\ m1.kind = "arg" /\ m1.v = b.key
        /\ m2 \in Tokens /\ m2.kind = "text" /\ m3 \in Tokens /\ m3.kind = "/arg"
    BY <1>1, <1>2, MarksAre
  <1>4. ArgText(b) = <<m1, m2>> \o IF b.closed THEN <<m3>> ELSE <<>>
    BY DEF ArgText
  <1>5. m2 = Mark("text", b.text)
    OBVIOUS
  <1> HIDE DEF m1, m2, m3
  <1>6. CASE b.closed
    <2>1. ArgText(b) = <<m1, m2>> \o <<m3>>
      BY <1>4, <1>6
    <2> DEFINE x == <<m1, m2>>
               y == <<m3>>
    <2>2. x \in Seq(Tokens) /\ y \in Seq(Tokens) /\ Len(x) = 2 /\ Len(y) = 1 /\ x[1] = m1 /\ x[2] = m2 /\ y[1] = m3
      BY <1>3
    <2>3. ArgText(b) = x \o y
      BY <2>1
    <2> HIDE DEF x, y
    <2> DEFINE t == x \o y
    <2>4. Then(Tokens, t, x, y)
      BY <2>2, Joining
    <2>5. ArgText(b) = t
      BY <2>3
    <2> HIDE DEF t
    <2>6. t \in Seq(Tokens) /\ Len(t) = 3 /\ t[1] = m1 /\ t[2] = m2 /\ t[2 + 1] = m3
      BY <2>2, <2>4 DEF Then
    <2>7. ArgText(b) \in Seq(Tokens) /\ Len(ArgText(b)) = 3
          /\ ArgText(b)[1] = m1 /\ ArgText(b)[2] = m2 /\ ArgText(b)[3] = m3
      BY <2>5, <2>6
    <2> HIDE DEF Tokens
    <2> QED BY <1>3, <1>5, <1>6, <2>7 DEF ArgWritten
  <1>7. CASE ~ b.closed
    <2>1. ArgText(b) = <<m1, m2>> \o <<>>
      BY <1>4, <1>7
    <2>2. <<m1, m2>> \o <<>> = <<m1, m2>>
      OBVIOUS
    <2>3. ArgText(b) = <<m1, m2>>
      BY <2>1, <2>2
    <2> QED BY <1>3, <1>5, <1>7, <2>3 DEF ArgWritten
  <1> QED BY <1>6, <1>7

\* Arguments that are put together.
ArgsWritten(F, args, k) ==
    /\ F \in Seq(Tokens)
    /\ NoCallIn(F) /\ ArgsAfter(F, 0, ToSet(args), OpenAt(args, k))
    /\ Closed(args, k - 1) => ArgsEnd(F)
    /\ Closed(args, k) => AllEnd(F)

\* One argument by itself.
LEMMA OneArg ==
    ASSUME NEW args, NEW b \in ToSet(args), NEW F, ArgWritten(F, b), b = args[1]
    PROVE  ArgsWritten(F, args, 1)
  <1>1. Len(F) \in {2, 3} /\ F \in Seq(Tokens)
    BY DEF ArgWritten
  <1>2. NoCallIn(F)
    <2>1. \A p \in 1 .. Len(F) : p = 1 \/ p = 2 \/ (p = 3 /\ b.closed)
      BY <1>1 DEF ArgWritten
    <2> QED BY <2>1 DEF ArgWritten, NoCallIn
  <1>3. \A a \in 1 .. Len(F) : F[a].kind = "arg" => a = 1
    <2>1. \A p \in 1 .. Len(F) : p = 1 \/ p = 2 \/ (p = 3 /\ b.closed)
      BY <1>1 DEF ArgWritten
    <2> QED BY <2>1 DEF ArgWritten
  <1>4. F[1].v = b.key /\ F[2] = Mark("text", b.text) /\ (Len(F) = 3 => F[3].kind = "/arg")
    BY DEF ArgWritten
  <1>5. ArgAt(F, 1, ToSet(args), OpenAt(args, 1))
    <2>1. 1 + 1 <= Len(F) /\ (1 + 2 <= Len(F) => Len(F) = 3)
      BY <1>1
    <2>2. 1 + 1 = 2 /\ 1 + 2 = 3
      OBVIOUS
    <2>3. Dangles(F, 1) => b \in OpenAt(args, 1)
      <3>1. Dangles(F, 1) => Len(F) = 2
        BY <1>1, <1>4, <2>2 DEF Dangles
      <3>2. Len(F) = 2 => ~ b.closed
        BY DEF ArgWritten
      <3> QED BY <3>1, <3>2 DEF OpenAt
    <2> QED BY <1>4, <2>1, <2>2, <2>3 DEF ArgAt, Marks
  <1>6. ArgsAfter(F, 0, ToSet(args), OpenAt(args, 1))
    BY <1>1, <1>3, <1>5 DEF ArgsAfter
  <1>7. ArgsEnd(F)
    <2>1. 1 + 1 <= Len(F) /\ (1 + 2 <= Len(F) => Len(F) = 3) /\ 1 + 2 = 3
      BY <1>1
    <2>2. 1 + 2 <= Len(F) => F[1 + 2].kind \in {"/arg", "/call"}
      BY <1>4, <2>1
    <2> QED BY <1>3, <2>1, <2>2 DEF ArgsEnd
  <1>8. Closed(args, 1) => AllEnd(F)
    <2>1. Closed(args, 1) => b.closed
      BY DEF Closed
    <2> QED BY <1>3, <2>1 DEF AllEnd, ArgWritten
  <1> QED BY <1>1, <1>2, <1>6, <1>7, <1>8 DEF ArgsWritten

\* An argument stays what it is when a mark follows the text it is in, and it is
\* left open no more when that mark is no call.
LEMMA ArgStays ==
    ASSUME NEW F \in Seq(Tokens), NEW X \in Seq(Tokens), NEW t, Then(Tokens, t, F, X),
           NEW args, NEW e1, NEW e2, NEW a \in 1 .. Len(F), ArgAt(F, a, args, e1),
           Len(X) # 0 => X[1].kind \in Marks,
           (e1 \cap args) \subseteq e2
           \/ (Len(X) # 0 /\ X[1].kind # "call" /\ (a + 2 <= Len(F) => F[a + 2].kind # "call"))
    PROVE  ArgAt(t, a, args, e2)
  <1>1. PICK b \in args : /\ F[a].v = b.key
                          /\ a + 1 <= Len(F) /\ F[a + 1] = Mark("text", b.text)
                          /\ a + 2 <= Len(F) => F[a + 2].kind \in Marks
                          /\ Dangles(F, a) => b \in e1
    BY DEF ArgAt
  <1>2. Len(F) \in Nat /\ Len(X) \in Nat /\ Len(t) = Len(F) + Len(X)
    BY DEF Then
  <1>3. a + 1 \in 1 .. Len(F) /\ a + 1 <= Len(t)
    BY <1>1, <1>2
  <1>4. t[a] = F[a] /\ t[a + 1] = F[a + 1]
    BY <1>3 DEF Then
  <1>5. a + 2 <= Len(F) => t[a + 2] = F[a + 2] /\ a + 2 <= Len(t)
    <2>1. a + 2 <= Len(F) => a + 2 \in 1 .. Len(F)
      BY <1>2
    <2> QED BY <1>2, <2>1 DEF Then
  <1>6. ~ (a + 2 <= Len(F)) /\ Len(X) # 0 => t[a + 2] = X[1] /\ a + 2 <= Len(t)
    <2> SUFFICES ASSUME ~ (a + 2 <= Len(F)), Len(X) # 0 PROVE t[a + 2] = X[1] /\ a + 2 <= Len(t)
      OBVIOUS
    <2>1. a + 2 = Len(F) + 1 /\ 1 \in 1 .. Len(X)
      BY <1>2, <1>3
    <2>2. t[Len(F) + 1] = X[1]
      BY <2>1 DEF Then
    <2> QED BY <1>2, <2>1, <2>2
  <1>7. ~ (a + 2 <= Len(F)) /\ Len(X) = 0 => a + 2 > Len(t)
    BY <1>2
  <1>8. a + 2 <= Len(t) => t[a + 2].kind \in Marks
    <2>1. a + 2 <= Len(t) => ~ (a + 2 > Len(t))
      BY <1>2
    <2> QED BY <1>1, <1>5, <1>6, <1>7, <2>1
  <1>9. Dangles(t, a) => b \in e2
    <2>0. (a + 2 > Len(F) <=> ~ (a + 2 <= Len(F))) /\ (a + 2 > Len(t) <=> ~ (a + 2 <= Len(t)))
      BY <1>2
    <2>1. Dangles(t, a) => Dangles(F, a)
      BY <1>5, <2>0 DEF Dangles
    <2>2. CASE (e1 \cap args) \subseteq e2
      BY <1>1, <2>1, <2>2
    <2>3. CASE Len(X) # 0 /\ X[1].kind # "call" /\ (a + 2 <= Len(F) => F[a + 2].kind # "call")
      <3>1. ~ Dangles(t, a)
        BY <1>5, <1>6, <2>0, <2>3 DEF Dangles
      <3> QED BY <3>1
    <2> QED BY <2>2, <2>3
  <1> QED BY <1>1, <1>3, <1>4, <1>8, <1>9 DEF ArgAt

\* Places counted from the start of a text and from the start of its second part.
LEMMA Shifted ==
    ASSUME NEW n \in Nat, NEW m \in Nat, NEW a \in 1 .. m, a + 1 <= m
    PROVE  /\ a + 1 \in 1 .. m /\ (n + a) + 1 = n + (a + 1) /\ (n + a) + 1 <= n + m
           /\ (n + a) + 2 = n + (a + 2) /\ (n + (a + 2) <= n + m => a + 2 \in 1 .. m)
  OBVIOUS

\* And where it is put after another text.
LEMMA ArgMoves ==
    ASSUME NEW F \in Seq(Tokens), NEW X \in Seq(Tokens), NEW t, Then(Tokens, t, F, X),
           NEW args, NEW ends, NEW a \in 1 .. Len(X), ArgAt(X, a, args, ends)
    PROVE  ArgAt(t, Len(F) + a, args, ends)
  <1>1. PICK b \in args : /\ X[a].v = b.key
                          /\ a + 1 <= Len(X) /\ X[a + 1] = Mark("text", b.text)
                          /\ a + 2 <= Len(X) => X[a + 2].kind \in Marks
                          /\ Dangles(X, a) => b \in ends
    BY DEF ArgAt
  <1>2. Len(F) \in Nat /\ Len(X) \in Nat /\ Len(t) = Len(F) + Len(X)
    BY DEF Then
  <1>3. /\ a + 1 \in 1 .. Len(X) /\ (Len(F) + a) + 1 = Len(F) + (a + 1) /\ (Len(F) + a) + 1 <= Len(t)
        /\ (Len(F) + a) + 2 = Len(F) + (a + 2) /\ (Len(F) + (a + 2) <= Len(t) => a + 2 \in 1 .. Len(X))
    BY <1>1, <1>2, Shifted
  <1>4. t[Len(F) + a] = X[a] /\ t[Len(F) + (a + 1)] = X[a + 1]
    BY <1>3 DEF Then
  <1>5. Len(F) + (a + 2) <= Len(t) => t[Len(F) + (a + 2)] = X[a + 2] /\ a + 2 <= Len(X)
    BY <1>3 DEF Then
  <1>6. (Len(F) + a) + 2 <= Len(t) => t[(Len(F) + a) + 2].kind \in Marks
    BY <1>1, <1>3, <1>5
  <1>7. t[(Len(F) + a) + 1] = X[a + 1]
    BY <1>3, <1>4
  <1>8. Dangles(t, Len(F) + a) => b \in ends
    <2>1. (Len(F) + a) + 2 > Len(t) <=> a + 2 > Len(X)
      BY <1>2
    <2>2. a + 2 > Len(X) <=> ~ (a + 2 <= Len(X))
      BY <1>2
    <2>3. a + 2 <= Len(X) => t[(Len(F) + a) + 2] = X[a + 2]
      BY <1>2, <1>3, <1>5
    <2>4. Dangles(t, Len(F) + a) => Dangles(X, a)
      BY <2>1, <2>2, <2>3 DEF Dangles
    <2> QED BY <1>1, <2>4
  <1> QED BY <1>1, <1>3, <1>4, <1>6, <1>7, <1>8 DEF ArgAt

\* The places of a text that is put together of two.
LEMMA PlacesAre ==
    ASSUME NEW F \in Seq(Tokens), NEW X \in Seq(Tokens), NEW t, Then(Tokens, t, F, X)
    PROVE  /\ Len(F) \in Nat /\ Len(X) \in Nat /\ Len(t) = Len(F) + Len(X)
           /\ \A p \in 1 .. Len(F) : t[p] = F[p]
           /\ \A p \in 1 .. Len(t) : p \in 1 .. Len(F)
                                     \/ (p - Len(F) \in 1 .. Len(X) /\ t[p] = X[p - Len(F)])
  <1>1. Len(F) \in Nat /\ Len(X) \in Nat /\ Len(t) = Len(F) + Len(X)
    BY DEF Then
  <1>2. \A p \in 1 .. Len(F) : t[p] = F[p]
    BY DEF Then
  <1>3. ASSUME NEW p \in 1 .. Len(t), p \notin 1 .. Len(F)
        PROVE  p - Len(F) \in 1 .. Len(X) /\ t[p] = X[p - Len(F)]
    <2>1. p - Len(F) \in 1 .. Len(X) /\ Len(F) + (p - Len(F)) = p
      BY <1>1, <1>3
    <2>2. t[Len(F) + (p - Len(F))] = X[p - Len(F)]
      BY <2>1 DEF Then
    <2> QED BY <2>1, <2>2
  <1> QED BY <1>1, <1>2, <1>3

\* The ends of the arguments of a text that is put together.
LEMMA EndsOfArgs ==
    ASSUME NEW F \in Seq(Tokens), NEW X \in Seq(Tokens), NEW t, Then(Tokens, t, F, X),
           ArgsEnd(F), ArgsEnd(X), AllEnd(F) \/ Len(X) = 0 \/ X[1].kind \in {"/arg", "/call"}
    PROVE  ArgsEnd(t)
  <1>1. /\ Len(F) \in Nat /\ Len(X) \in Nat /\ Len(t) = Len(F) + Len(X)
        /\ \A p \in 1 .. Len(F) : t[p] = F[p]
        /\ \A p \in 1 .. Len(t) : p \in 1 .. Len(F)
                                  \/ (p - Len(F) \in 1 .. Len(X) /\ t[p] = X[p - Len(F)])
    BY PlacesAre
  <1> SUFFICES ASSUME NEW a \in 1 .. Len(t), t[a].kind = "arg"
               PROVE  a + 1 <= Len(t) /\ (a + 2 <= Len(t) => t[a + 2].kind \in {"/arg", "/call"})
    BY DEF ArgsEnd
  <1>2. CASE a \in 1 .. Len(F)
    <2>1. F[a].kind = "arg" /\ a + 1 <= Len(F)
      BY <1>1, <1>2 DEF ArgsEnd
    <2>0. a + 1 <= Len(t)
      BY <1>1, <2>1
    <2>2. CASE a + 2 <= Len(F)
      <3>1. a + 2 \in 1 .. Len(F)
        BY <1>1, <1>2, <2>2
      <3>2. t[a + 2] = F[a + 2]
        BY <1>1, <3>1
      <3> QED BY <1>2, <2>0, <2>1, <2>2, <3>2 DEF ArgsEnd
    <2>3. CASE ~ (a + 2 <= Len(F))
      <3>1. ~ AllEnd(F)
        BY <1>2, <2>1, <2>3 DEF AllEnd
      <3>2. a + 2 = Len(F) + 1
        BY <1>1, <1>2, <2>1, <2>3
      <3>3. ASSUME a + 2 <= Len(t) PROVE t[a + 2].kind \in {"/arg", "/call"}
        <4>1. (a + 2) \in 1 .. Len(t) /\ (a + 2) \notin 1 .. Len(F) /\ (a + 2) - Len(F) = 1 /\ Len(X) # 0
          BY <1>1, <3>2, <3>3
        <4>2. t[a + 2] = X[1]
          BY <1>1, <4>1
        <4> QED BY <3>1, <4>1, <4>2
      <3> QED BY <2>0, <3>3
    <2> QED BY <2>2, <2>3
  <1>3. CASE a \notin 1 .. Len(F)
    <2> DEFINE p == a - Len(F)
    <2>1. p \in 1 .. Len(X) /\ X[p].kind = "arg"
      BY <1>1, <1>3
    <2>2. p + 1 <= Len(X) /\ (p + 2 <= Len(X) => X[p + 2].kind \in {"/arg", "/call"})
      BY <2>1 DEF ArgsEnd
    <2>3. a + 1 <= Len(t)
      BY <1>1, <1>3, <2>2
    <2>4. ASSUME a + 2 <= Len(t) PROVE t[a + 2].kind \in {"/arg", "/call"}
      <3>1. (a + 2) \in 1 .. Len(t) /\ (a + 2) \notin 1 .. Len(F) /\ (a + 2) - Len(F) = p + 2 /\ p + 2 <= Len(X)
        BY <1>1, <1>3, <2>4
      <3>2. t[a + 2] = X[p + 2]
        BY <1>1, <3>1
      <3> QED BY <2>2, <3>1, <3>2
    <2> QED BY <2>3, <2>4
  <1> QED BY <1>2, <1>3

\* All of them have their ends when those of the two texts have.
LEMMA EndsOfAll ==
    ASSUME NEW F \in Seq(Tokens), NEW X \in Seq(Tokens), NEW t, Then(Tokens, t, F, X), AllEnd(F), AllEnd(X)
    PROVE  AllEnd(t)
  <1>1. /\ Len(F) \in Nat /\ Len(X) \in Nat /\ Len(t) = Len(F) + Len(X)
        /\ \A p \in 1 .. Len(F) : t[p] = F[p]
        /\ \A p \in 1 .. Len(t) : p \in 1 .. Len(F)
                                  \/ (p - Len(F) \in 1 .. Len(X) /\ t[p] = X[p - Len(F)])
    BY PlacesAre
  <1> SUFFICES ASSUME NEW a \in 1 .. Len(t), t[a].kind = "arg" PROVE a + 2 <= Len(t)
    BY DEF AllEnd
  <1>2. CASE a \in 1 .. Len(F)
    <2>1. a + 2 <= Len(F)
      BY <1>1, <1>2 DEF AllEnd
    <2> QED BY <1>1, <2>1
  <1>3. CASE a \notin 1 .. Len(F)
    <2> DEFINE p == a - Len(F)
    <2>1. p \in 1 .. Len(X) /\ X[p].kind = "arg" /\ a = Len(F) + p
      BY <1>1, <1>3
    <2> HIDE DEF p
    <2>2. p + 2 <= Len(X)
      BY <2>1 DEF AllEnd
    <2> QED BY <1>1, <2>1, <2>2
  <1> QED BY <1>2, <1>3

\* An argument more.
LEMMA OneMoreArg ==
    ASSUME NEW c \in Written, NEW k \in Nat, k # 0, k + 1 \in DOMAIN c.args,
           NEW F, ArgsWritten(F, c.args, k)
    PROVE  ArgsWritten(F \o ArgText(c.args[k + 1]), c.args, k + 1)
  <1> DEFINE args == c.args
             b == args[k + 1]
             X == ArgText(b)
             t == F \o X
  <1>1. args \in Seq(ToSet(args)) /\ b \in ToSet(args)
    BY CallsAre DEF ToSet
  <1>2. ArgWritten(X, b)
    BY <1>1, ArgIsWritten
  <1>3. b = args[k + 1] /\ F \in Seq(Tokens) /\ X \in Seq(Tokens)
    BY <1>2 DEF ArgWritten, ArgsWritten
  <1>4. Then(Tokens, t, F, X)
    BY <1>3, Joining
  <1> HIDE DEF args, b, X, t
  <1> SUFFICES ArgsWritten(t, args, k + 1)
    BY DEF args, b, X, t
  <1>5. ArgsWritten(F, args, k)
    BY DEF args
  <1>6. /\ Len(F) \in Nat /\ Len(X) \in Nat /\ Len(t) = Len(F) + Len(X)
        /\ \A p \in 1 .. Len(F) : t[p] = F[p]
        /\ \A p \in 1 .. Len(t) : p \in 1 .. Len(F)
                                  \/ (p - Len(F) \in 1 .. Len(X) /\ t[p] = X[p - Len(F)])
    BY <1>3, <1>4, PlacesAre
  <1>7. ArgsWritten(X, <<b>>, 1)
    <2>1. <<b>>[1] = b /\ b \in ToSet(<<b>>)
      BY DEF ToSet
    <2> QED BY <1>2, <2>1, OneArg
  <1>8. NoCallIn(F) /\ NoCallIn(X) /\ ArgsAfter(F, 0, ToSet(args), OpenAt(args, k))
        /\ ArgsAfter(X, 0, ToSet(<<b>>), OpenAt(<<b>>, 1))
    BY <1>5, <1>7 DEF ArgsWritten
  <1>9. NoCallIn(t)
    BY <1>6, <1>8 DEF NoCallIn
  <1>10. Len(X) # 0 /\ X[1].kind \in Marks /\ X[1].kind # "call"
    BY <1>2 DEF ArgWritten, Marks
  <1>11. ASSUME NEW a \in 1 .. Len(t), t[a].kind = "arg" PROVE ArgAt(t, a, ToSet(args), OpenAt(args, k + 1))
    <2>1. CASE a \in 1 .. Len(F)
      <3>1. F[a].kind = "arg" /\ \A j \in 1 .. a : F[j].kind # "call"
        BY <1>6, <1>8, <1>11, <2>1 DEF NoCallIn
      <3>2. ArgAt(F, a, ToSet(args), OpenAt(args, k))
        <4>1. a \in 0 + 1 .. Len(F) /\ \A j \in 0 + 1 .. a : F[j].kind # "call"
          BY <2>1, <3>1
        <4> QED BY <1>8, <3>1, <4>1 DEF ArgsAfter
      <3>3. a + 2 <= Len(F) => F[a + 2].kind # "call"
        <4>1. a + 2 <= Len(F) => a + 2 \in 1 .. Len(F)
          BY <1>6, <2>1
        <4> QED BY <1>8, <4>1 DEF NoCallIn
      <3> QED BY <1>3, <1>4, <1>10, <2>1, <3>2, <3>3, ArgStays
    <2>2. CASE a \notin 1 .. Len(F)
      <3> DEFINE p == a - Len(F)
      <3>1. p \in 1 .. Len(X) /\ X[p].kind = "arg" /\ a = Len(F) + p
        BY <1>6, <1>11, <2>2
      <3> HIDE DEF p
      <3>2. p \in 0 + 1 .. Len(X) /\ \A j \in 0 + 1 .. p : X[j].kind # "call"
        BY <1>6, <1>8, <3>1 DEF NoCallIn
      <3>3. ArgAt(X, p, ToSet(<<b>>), OpenAt(<<b>>, 1))
        BY <1>8, <3>1, <3>2 DEF ArgsAfter
      <3>4. ToSet(<<b>>) \subseteq ToSet(args)
        BY <1>1 DEF ToSet
      <3>7. OpenAt(<<b>>, 1) = OpenAt(args, k + 1)
        <4>1. <<b>>[1] = b
          OBVIOUS
        <4> QED BY <1>3, <4>1 DEF OpenAt
      <3>5. ArgAt(X, p, ToSet(args), OpenAt(args, k + 1))
        BY <3>3, <3>4, <3>7 DEF ArgAt
      <3>6. ArgAt(t, Len(F) + p, ToSet(args), OpenAt(args, k + 1))
        BY <1>3, <1>4, <3>1, <3>5, ArgMoves
      <3> QED BY <3>1, <3>6
    <2> QED BY <2>1, <2>2
  <1>12. ArgsAfter(t, 0, ToSet(args), OpenAt(args, k + 1))
    BY <1>11 DEF ArgsAfter
  <1>13. ASSUME Closed(args, (k + 1) - 1) PROVE ArgsEnd(t)
    <2>1. Closed(args, k) /\ Closed(args, k - 1)
      BY <1>13 DEF Closed
    <2>2. ArgsEnd(F) /\ AllEnd(F)
      BY <1>5, <2>1 DEF ArgsWritten
    <2>3. ArgsEnd(X)
      BY <1>7 DEF ArgsWritten, Closed
    <2> QED BY <1>3, <1>4, <2>2, <2>3, EndsOfArgs
  <1>14. ASSUME Closed(args, k + 1) PROVE AllEnd(t)
    <2>1. Closed(args, k) /\ b.closed
      BY <1>3, <1>14 DEF Closed
    <2>2. AllEnd(F)
      BY <1>5, <2>1 DEF ArgsWritten
    <2>3. AllEnd(X)
      BY <1>7, <2>1 DEF ArgsWritten, Closed
    <2> QED BY <1>3, <1>4, <2>2, <2>3, EndsOfAll
  <1>15. t \in Seq(Tokens)
    BY <1>4 DEF Then
  <1> QED BY <1>9, <1>12, <1>13, <1>14, <1>15 DEF ArgsWritten

\* All the arguments of a call.
LEMMA ArgsAreWritten ==
    ASSUME NEW c \in Written
    PROVE  ArgsWritten(FlattenSeq([i \in DOMAIN c.args |-> ArgText(c.args[i])]), c.args, Len(c.args))
  <1> DEFINE seqs == [i \in DOMAIN c.args |-> ArgText(c.args[i])]
             n == Len(c.args)
             G == [k \in 1 .. n |-> {F \in Seq(Tokens) : ArgsWritten(F, c.args, k)}]
  <1>1. c.args \in Seq(ToSet(c.args)) /\ DOMAIN c.args = 1 .. n /\ n \in Nat
        /\ \A i \in DOMAIN c.args : c.args[i] \in ToSet(c.args)
    <2>1. c.args \in Seq(ToSet(c.args))
      BY CallsAre
    <2> QED BY <2>1, ElementsAre
  <1>2. \A i \in 1 .. n : ArgWritten(ArgText(c.args[i]), c.args[i])
    BY <1>1, ArgIsWritten
  <1>3. seqs \in Seq(Seq(Tokens)) /\ Len(seqs) = n
    <2>1. \A i \in 1 .. n : seqs[i] \in Seq(Tokens)
      BY <1>1, <1>2 DEF ArgWritten
    <2>2. seqs = [i \in 1 .. n |-> seqs[i]]
      BY <1>1
    <2> DEFINE T == Seq(Tokens)
    <2>3. n \in Nat /\ \A i \in 1 .. n : seqs[i] \in T
      BY <1>1, <2>1
    <2> HIDE DEF seqs, T, n
    <2> SUFFICES seqs \in Seq(T) /\ Len(seqs) = n
      BY DEF T
    <2>4. seqs \in [1 .. n -> T]
      BY <2>2, <2>3
    <2> QED BY <2>3, <2>4
  <1>4. CASE n = 0
    <2>1. FlattenSeq(seqs) = <<>>
      <3>1. FlattenSeq(seqs) = seqs
        BY <1>3, <1>4 DEF FlattenSeq
      <3> HIDE DEF seqs
      <3> QED BY <1>3, <1>4, <3>1
    <2>2. ArgsWritten(<<>>, c.args, n)
      <3>1. <<>> \in Seq(Tokens) /\ Len(<<>>) = 0
        OBVIOUS
      <3> QED BY <3>1 DEF ArgsWritten, NoCallIn, ArgsAfter, ArgsEnd, AllEnd
    <2> QED BY <2>1, <2>2
  <1>5. CASE n # 0
    <2>1. seqs[1] \in G[1]
      <3>1. 1 \in 1 .. n /\ seqs[1] = ArgText(c.args[1])
        BY <1>1, <1>5
      <3>2. ArgsWritten(seqs[1], c.args, 1)
        BY <1>1, <1>2, <3>1, OneArg
      <3>3. seqs[1] \in Seq(Tokens)
        BY <3>2 DEF ArgsWritten
      <3> HIDE DEF seqs
      <3> QED BY <3>1, <3>2, <3>3
    <2>2. ASSUME NEW i \in 1 .. (n - 1), NEW s \in G[i] PROVE s \o seqs[i + 1] \in G[i + 1]
      <3>1. i \in Nat /\ i # 0 /\ i \in 1 .. n /\ i + 1 \in 1 .. n
        BY <1>1
      <3>2. ArgsWritten(s, c.args, i)
        BY <2>2, <3>1
      <3>3. ArgsWritten(s \o ArgText(c.args[i + 1]), c.args, i + 1)
        BY <1>1, <3>1, <3>2, OneMoreArg
      <3>4. seqs[i + 1] = ArgText(c.args[i + 1])
        BY <1>1, <3>1
      <3>5. ArgsWritten(s \o seqs[i + 1], c.args, i + 1) /\ s \o seqs[i + 1] \in Seq(Tokens)
        BY <3>3, <3>4 DEF ArgsWritten
      <3> HIDE DEF seqs
      <3> QED BY <3>1, <3>5
    <2> HIDE DEF seqs, G
    <2>3. FlattenSeq(seqs) \in G[n]
      <3>1. n # 0 /\ n \in Nat /\ Len(seqs) = n /\ seqs \in Seq(Seq(Tokens))
        BY <1>1, <1>3, <1>5
      <3> HIDE DEF n, Tokens
      <3> QED BY <2>1, <2>2, <3>1, FlatteningHolds
    <2> QED BY <1>1, <1>5, <2>3 DEF G, seqs
  <1> QED BY <1>4, <1>5

\* One call.
CallWritten(X, c) ==
    /\ X \in Seq(Tokens) /\ Len(X) # 0
    /\ X[1].kind = "call" /\ X[1].v = c.name
    /\ \A p \in 2 .. Len(X) : X[p].kind # "call"
    /\ ArgsAfter(X, 1, ToSet(c.args), LeftOpen(c))
    /\ Closed(c.args, Len(c.args) - 1) => ArgsEnd(X)
    /\ c.closed /\ Closed(c.args, Len(c.args)) => Complete(X)

\* CallText writes one call.
LEMMA CallIsWritten ==
    ASSUME NEW c \in Written
    PROVE  CallWritten(CallText(c), c)
  <1> DEFINE args == c.args
             n == Len(args)
             F == FlattenSeq([i \in DOMAIN c.args |-> ArgText(c.args[i])])
             m == Mark("call", c.name)
             e == Mark("/call", "")
             H == <<m>>
             E == IF c.closed THEN <<e>> ELSE <<>>
             P == H \o F
             X == P \o E
  <1>1. ArgsWritten(F, args, n)
    BY ArgsAreWritten
  <1>2. CallText(c) = X
    BY DEF CallText
  <1>3. m \in Tokens /\ m.kind = "call" /\ m.v = c.name /\ e \in Tokens /\ e.kind = "/call"
    <2>1. "call" \in Marks \cup {"text"} /\ "/call" \in Marks \cup {"text"} /\ c.name \in Word /\ "" \in Word
      BY WordsAre DEF Marks
    <2> QED BY <2>1, MarksAre
  <1> HIDE DEF m, e
  <1>4. H \in Seq(Tokens) /\ Len(H) = 1 /\ H[1] = m
    BY <1>3
  <1>5. E \in Seq(Tokens) /\ Len(E) = (IF c.closed THEN 1 ELSE 0) /\ (c.closed => E[1] = e)
    BY <1>3
  <1>6. F \in Seq(Tokens)
    BY <1>1 DEF ArgsWritten
  <1> HIDE DEF H, E, F
  <1>7. Then(Tokens, P, H, F)
    BY <1>4, <1>6, Joining
  <1>8. P \in Seq(Tokens)
    BY <1>7 DEF Then
  <1> HIDE DEF P
  <1>9. Then(Tokens, X, P, E)
    BY <1>5, <1>8, Joining
  <1> HIDE DEF X
  <1>10. /\ Len(H) \in Nat /\ Len(F) \in Nat /\ Len(P) = Len(H) + Len(F)
         /\ \A p \in 1 .. Len(H) : P[p] = H[p]
         /\ \A p \in 1 .. Len(P) : p \in 1 .. Len(H)
                                   \/ (p - Len(H) \in 1 .. Len(F) /\ P[p] = F[p - Len(H)])
    <2>1. H \in Seq(Tokens)
      BY <1>4
    <2> QED BY <1>6, <1>7, <2>1, PlacesAre
  <1>11. /\ Len(P) \in Nat /\ Len(E) \in Nat /\ Len(X) = Len(P) + Len(E)
         /\ \A p \in 1 .. Len(P) : X[p] = P[p]
         /\ \A p \in 1 .. Len(X) : p \in 1 .. Len(P)
                                   \/ (p - Len(P) \in 1 .. Len(E) /\ X[p] = E[p - Len(P)])
    BY <1>5, <1>8, <1>9, PlacesAre
  <1>12. X \in Seq(Tokens) /\ Len(X) # 0 /\ X[1] = m
    <2>1. X \in Seq(Tokens)
      BY <1>9 DEF Then
    <2>2. Len(P) >= 1 /\ 1 \in 1 .. Len(P) /\ 1 \in 1 .. Len(H)
      BY <1>4, <1>10
    <2>3. X[1] = P[1] /\ P[1] = H[1]
      BY <1>10, <1>11, <2>2
    <2>4. Len(X) # 0
      BY <1>11, <2>2
    <2> QED BY <1>4, <2>1, <2>3, <2>4
  <1>13. \A p \in 2 .. Len(X) : p \in 2 .. Len(P) \/ X[p] = e
    <2> SUFFICES ASSUME NEW p \in 2 .. Len(X), p \notin 2 .. Len(P) PROVE X[p] = e
      OBVIOUS
    <2>1. p \in 1 .. Len(X) /\ p \notin 1 .. Len(P)
      BY <1>11
    <2>2. p - Len(P) \in 1 .. Len(E) /\ X[p] = E[p - Len(P)]
      BY <1>11, <2>1
    <2>3. c.closed /\ p - Len(P) = 1
      BY <1>5, <2>2
    <2> QED BY <1>5, <2>2, <2>3
  <1>14. \A p \in 2 .. Len(P) : p - 1 \in 1 .. Len(F) /\ X[p] = P[p] /\ P[p] = F[p - 1]
    <2> SUFFICES ASSUME NEW p \in 2 .. Len(P) PROVE p - 1 \in 1 .. Len(F) /\ X[p] = P[p] /\ P[p] = F[p - 1]
      OBVIOUS
    <2>1. p \in 1 .. Len(P) /\ p \notin 1 .. Len(H) /\ p - Len(H) = p - 1
      BY <1>4, <1>10
    <2> QED BY <1>10, <1>11, <2>1
  <1>15. \A p \in 2 .. Len(X) : X[p].kind # "call"
    <2>1. \A p \in 1 .. Len(F) : F[p].kind # "call"
      BY <1>1 DEF ArgsWritten, NoCallIn
    <2> QED BY <1>3, <1>13, <1>14, <2>1
  <1>16. ASSUME NEW a \in 2 .. Len(X), X[a].kind = "arg" PROVE ArgAt(X, a, ToSet(args), LeftOpen(c))
    <2>1. a \in 2 .. Len(P) /\ a \in 1 .. Len(P)
      BY <1>3, <1>13, <1>16
    <2> DEFINE p == a - 1
    <2>2. p \in 1 .. Len(F) /\ F[p].kind = "arg" /\ a = Len(H) + p
      BY <1>4, <1>14, <1>16, <2>1
    <2> HIDE DEF p
    <2>3. p \in 0 + 1 .. Len(F) /\ \A j \in 0 + 1 .. p : F[j].kind # "call"
      BY <1>1, <1>10, <2>2 DEF ArgsWritten, NoCallIn
    <2>4. ArgAt(F, p, ToSet(args), OpenAt(args, n))
      BY <1>1, <2>2, <2>3 DEF ArgsWritten, ArgsAfter
    <2>5. ArgAt(P, Len(H) + p, ToSet(args), OpenAt(args, n))
      BY <1>4, <1>6, <1>7, <2>2, <2>4, ArgMoves
    <2>6. ArgAt(P, a, ToSet(args), OpenAt(args, n))
      BY <2>2, <2>5
    <2>7. Len(E) # 0 => E[1].kind \in Marks
      BY <1>3, <1>5 DEF Marks
    <2>8. (OpenAt(args, n) \cap ToSet(args)) \subseteq LeftOpen(c)
          \/ (Len(E) # 0 /\ E[1].kind # "call" /\ (a + 2 <= Len(P) => P[a + 2].kind # "call"))
      <3>1. CASE c.closed
        <4>1. Len(E) # 0 /\ E[1].kind # "call"
          BY <1>3, <1>5, <3>1
        <4>2. a + 2 <= Len(P) => P[a + 2].kind # "call"
          <5>1. a + 2 <= Len(P) => a + 2 \in 2 .. Len(P) /\ a + 2 \in 2 .. Len(X)
            BY <1>11, <2>1
          <5> QED BY <1>14, <1>15, <5>1
        <4> QED BY <4>1, <4>2
      <3>2. CASE ~ c.closed
        BY <3>2 DEF LeftOpen, OpenAt
      <3> QED BY <3>1, <3>2
    <2> QED BY <1>5, <1>8, <1>9, <2>1, <2>6, <2>7, <2>8, ArgStays
  <1>17. ArgsAfter(X, 1, ToSet(args), LeftOpen(c))
    BY <1>16 DEF ArgsAfter
  <1>18. ArgsEnd(H) /\ AllEnd(H) /\ ArgsEnd(E) /\ AllEnd(E)
    BY <1>3, <1>4, <1>5 DEF ArgsEnd, AllEnd
  <1>19. ASSUME Closed(args, n - 1) PROVE ArgsEnd(X)
    <2>1. ArgsEnd(F)
      BY <1>1, <1>19 DEF ArgsWritten
    <2>2. ArgsEnd(P)
      BY <1>4, <1>6, <1>7, <1>18, <2>1, EndsOfArgs
    <2>3. Len(E) = 0 \/ E[1].kind \in {"/arg", "/call"}
      BY <1>3, <1>5
    <2> QED BY <1>5, <1>8, <1>9, <1>18, <2>2, <2>3, EndsOfArgs
  <1>20. ASSUME c.closed, Closed(args, n) PROVE Complete(X)
    <2>1. AllEnd(F)
      BY <1>1, <1>20 DEF ArgsWritten
    <2>2. AllEnd(P)
      BY <1>4, <1>6, <1>7, <1>18, <2>1, EndsOfAll
    <2>3. AllEnd(X)
      BY <1>5, <1>8, <1>9, <1>18, <2>2, EndsOfAll
    <2>4. Len(X) \in 1 .. Len(X) /\ Len(X) \notin 1 .. Len(P) /\ Len(X) - Len(P) = 1
      BY <1>5, <1>11, <1>20
    <2>5. X[Len(X)] = e
      BY <1>5, <1>11, <1>20, <2>4
    <2> QED BY <1>3, <1>12, <2>3, <2>5 DEF Complete
  <1>21. CallWritten(X, c)
    BY <1>3, <1>12, <1>15, <1>17, <1>19, <1>20 DEF CallWritten
  <1> QED BY <1>2, <1>21 DEF X

\* The calls of a reply up to the k-th.
CallsWritten(T, r, k) ==
    /\ T \in Seq(Tokens) /\ Len(T) # 0
    /\ Says(T, ToSet(r.calls))
    /\ OnlyTheEndIsMissing(r) => Tidy(T)
    /\ OnlyTheEndIsMissing(r) /\ k < Len(r.calls) => Complete(T)

\* The calls of a reply are a sequence of written ones.
LEMMA RepliesHaveCalls ==
    ASSUME NEW r \in Replies
    PROVE  /\ r.calls \in Seq(ToSet(r.calls)) /\ DOMAIN r.calls = 1 .. Len(r.calls) /\ Len(r.calls) \in Nat
           /\ \A i \in DOMAIN r.calls : r.calls[i] \in ToSet(r.calls) /\ r.calls[i] \in Written
  <1>1. r.calls \in Seq(ToSet(r.calls))
    BY DialectAssumption
  <1>2. /\ DOMAIN r.calls = 1 .. Len(r.calls) /\ Len(r.calls) \in Nat
        /\ \A i \in DOMAIN r.calls : r.calls[i] \in ToSet(r.calls)
    BY <1>1, ElementsAre
  <1> QED BY <1>1, <1>2 DEF Written

\* The ends that are there when only the end of the reply is missing.
LEMMA WhatIsClosed ==
    ASSUME NEW r \in Replies, NEW k \in DOMAIN r.calls, OnlyTheEndIsMissing(r)
    PROVE  /\ Closed(r.calls[k].args, Len(r.calls[k].args) - 1)
           /\ k < Len(r.calls) => r.calls[k].closed /\ Closed(r.calls[k].args, Len(r.calls[k].args))
  <1> DEFINE c == r.calls[k]
             n == Len(c.args)
  <1>1. c \in Written /\ Len(r.calls) \in Nat /\ DOMAIN r.calls = 1 .. Len(r.calls)
    BY RepliesHaveCalls
  <1>2. c.args \in Seq(ToSet(c.args))
    BY <1>1, CallsAre
  <1>3. DOMAIN c.args = 1 .. n /\ n \in Nat
    BY <1>2, ElementsAre
  <1>4. /\ c.closed \/ k = Len(r.calls)
        /\ \A j \in DOMAIN c.args : c.args[j].closed \/ (k = Len(r.calls) /\ j = n)
    BY DEF OnlyTheEndIsMissing
  <1> HIDE DEF n, c
  <1>5. Closed(c.args, n - 1)
    <2>1. \A j \in 1 .. n - 1 : j \in 1 .. n /\ j # n
      BY <1>3
    <2> QED BY <1>3, <1>4, <2>1 DEF Closed
  <1>6. k < Len(r.calls) => c.closed /\ Closed(c.args, n)
    <2>1. k < Len(r.calls) => k # Len(r.calls)
      BY <1>1
    <2> QED BY <1>3, <1>4, <2>1 DEF Closed
  <1> QED BY <1>5, <1>6 DEF c, n

\* The first call by itself.
LEMMA FirstCall ==
    ASSUME NEW r \in Replies, 1 \in DOMAIN r.calls
    PROVE  CallsWritten(CallText(r.calls[1]), r, 1)
  <1> DEFINE c == r.calls[1]
             X == CallText(c)
  <1>1. c \in Written /\ c \in ToSet(r.calls)
    BY RepliesHaveCalls
  <1>2. CallWritten(X, c)
    BY <1>1, CallIsWritten
  <1> HIDE DEF X
  <1>3. \A p \in 1 .. Len(X) : X[p].kind = "call" => p = 1
    BY <1>2 DEF CallWritten
  <1>4. Says(X, ToSet(r.calls))
    BY <1>1, <1>2, <1>3 DEF Says, CallWritten
  <1>5. OnlyTheEndIsMissing(r) => Tidy(X)
    <2>1. CallsEnd(X)
      BY <1>2 DEF CallsEnd, CallWritten
    <2>2. OnlyTheEndIsMissing(r) => Closed(c.args, Len(c.args) - 1)
      BY WhatIsClosed
    <2> QED BY <1>2, <2>1, <2>2 DEF Tidy, CallWritten
  <1>6. OnlyTheEndIsMissing(r) /\ 1 < Len(r.calls) => Complete(X)
    <2>1. OnlyTheEndIsMissing(r) /\ 1 < Len(r.calls) => c.closed /\ Closed(c.args, Len(c.args))
      BY WhatIsClosed
    <2> QED BY <1>2, <2>1 DEF CallWritten
  <1>7. CallsWritten(X, r, 1)
    BY <1>2, <1>4, <1>5, <1>6 DEF CallsWritten, CallWritten
  <1> QED BY <1>7 DEF X

\* A call more.
LEMMA OneMoreCall ==
    ASSUME NEW r \in Replies, NEW k \in DOMAIN r.calls, k + 1 \in DOMAIN r.calls,
           NEW T, CallsWritten(T, r, k)
    PROVE  CallsWritten(T \o CallText(r.calls[k + 1]), r, k + 1)
  <1> DEFINE c == r.calls[k + 1]
             X == CallText(c)
             t == T \o X
  <1>1. c \in Written /\ c \in ToSet(r.calls) /\ k \in Nat /\ Len(r.calls) \in Nat /\ k + 1 <= Len(r.calls)
    BY RepliesHaveCalls
  <1>2. CallWritten(X, c)
    BY <1>1, CallIsWritten
  <1>3. T \in Seq(Tokens) /\ X \in Seq(Tokens) /\ Len(X) # 0
    BY <1>2 DEF CallWritten, CallsWritten
  <1>4. Then(Tokens, t, T, X)
    BY <1>3, Joining
  <1>5. OnlyTheEndIsMissing(r) => /\ Closed(c.args, Len(c.args) - 1)
                                  /\ k + 1 < Len(r.calls) => c.closed /\ Closed(c.args, Len(c.args))
    BY WhatIsClosed
  <1> HIDE DEF c, X, t
  <1> SUFFICES CallsWritten(t, r, k + 1)
    BY DEF c, X, t
  <1>6. /\ Len(T) \in Nat /\ Len(X) \in Nat /\ Len(t) = Len(T) + Len(X)
        /\ \A p \in 1 .. Len(T) : t[p] = T[p]
        /\ \A p \in 1 .. Len(t) : p \in 1 .. Len(T)
                                  \/ (p - Len(T) \in 1 .. Len(X) /\ t[p] = X[p - Len(T)])
    BY <1>3, <1>4, PlacesAre
  <1>7. X[1].kind = "call" /\ X[1].v = c.name /\ \A p \in 1 .. Len(X) : X[p].kind = "call" => p = 1
    BY <1>2 DEF CallWritten
  <1>8. Len(T) + 1 \in 1 .. Len(t) /\ t[Len(T) + 1] = X[1]
    <2>1. Len(T) + 1 \in 1 .. Len(t) /\ Len(T) + 1 \notin 1 .. Len(T) /\ (Len(T) + 1) - Len(T) = 1
      BY <1>3, <1>6
    <2> QED BY <1>6, <2>1
  <1>9. ASSUME NEW p \in 1 .. Len(T), t[p].kind = "call"
        PROVE  \E w \in ToSet(r.calls) : t[p].v = w.name /\ ArgsAfter(t, p, ToSet(w.args), LeftOpen(w))
    <2>1. t[p] = T[p] /\ T[p].kind = "call"
      BY <1>6, <1>9
    <2>2. PICK w \in ToSet(r.calls) : T[p].v = w.name /\ ArgsAfter(T, p, ToSet(w.args), LeftOpen(w))
      BY <2>1 DEF CallsWritten, Says
    <2>3. ASSUME NEW a \in p + 1 .. Len(t), t[a].kind = "arg", \A j \in p + 1 .. a : t[j].kind # "call"
          PROVE  ArgAt(t, a, ToSet(w.args), LeftOpen(w))
      <3>1. ~ (Len(T) < a)
        <4>1. Len(T) < a => Len(T) + 1 \in p + 1 .. a
          BY <1>6
        <4> QED BY <1>7, <1>8, <2>3, <4>1
      <3>2. a \in p + 1 .. Len(T) /\ a \in 1 .. Len(T) /\ \A j \in p + 1 .. a : j \in 1 .. Len(T)
        BY <1>6, <3>1
      <3>3. T[a].kind = "arg" /\ \A j \in p + 1 .. a : T[j].kind # "call"
        BY <1>6, <2>3, <3>2
      <3>4. ArgAt(T, a, ToSet(w.args), LeftOpen(w))
        BY <2>2, <3>2, <3>3 DEF ArgsAfter
      <3>5. X[1].kind \in Marks
        BY <1>7 DEF Marks
      <3> QED BY <1>3, <1>4, <3>2, <3>4, <3>5, ArgStays
    <2> QED BY <2>1, <2>2, <2>3 DEF ArgsAfter
  <1>10. ASSUME NEW p \in 1 .. Len(t), p \notin 1 .. Len(T), t[p].kind = "call"
         PROVE  p = Len(T) + 1
    <2>1. p - Len(T) \in 1 .. Len(X) /\ X[p - Len(T)].kind = "call"
      BY <1>6, <1>10
    <2>2. p - Len(T) = 1
      BY <1>7, <2>1
    <2> QED BY <1>6, <2>2
  <1>11. ArgsAfter(t, Len(T) + 1, ToSet(c.args), LeftOpen(c))
    <2> SUFFICES ASSUME NEW a \in (Len(T) + 1) + 1 .. Len(t), t[a].kind = "arg"
                 PROVE  ArgAt(t, a, ToSet(c.args), LeftOpen(c))
      BY DEF ArgsAfter
    <2> DEFINE q == a - Len(T)
    <2>1. a \in 1 .. Len(t) /\ a \notin 1 .. Len(T) /\ q \in 1 + 1 .. Len(X) /\ a = Len(T) + q /\ q \in 1 .. Len(X)
      BY <1>6
    <2>2. X[q].kind = "arg"
      BY <1>6, <2>1
    <2>3. \A j \in 1 + 1 .. q : X[j].kind # "call"
      <3>1. \A j \in 1 + 1 .. q : j \in 1 .. Len(X) /\ j # 1
        BY <1>6, <2>1
      <3> QED BY <1>7, <3>1
    <2> HIDE DEF q
    <2>4. ArgAt(X, q, ToSet(c.args), LeftOpen(c))
      BY <1>2, <2>1, <2>2, <2>3 DEF CallWritten, ArgsAfter
    <2>5. ArgAt(t, Len(T) + q, ToSet(c.args), LeftOpen(c))
      BY <1>3, <1>4, <2>1, <2>4, ArgMoves
    <2> QED BY <2>1, <2>5
  <1>12. Says(t, ToSet(r.calls))
    BY <1>1, <1>7, <1>8, <1>9, <1>10, <1>11 DEF Says
  <1>13. ASSUME OnlyTheEndIsMissing(r) PROVE Tidy(t)
    <2>1. Tidy(T) /\ Complete(T)
      <3>1. k < Len(r.calls)
        BY <1>1
      <3> QED BY <1>13, <3>1 DEF CallsWritten
    <2>2. ArgsEnd(t)
      <3>1. ArgsEnd(X)
        BY <1>2, <1>5, <1>13 DEF CallWritten
      <3> QED BY <1>3, <1>4, <2>1, <3>1, EndsOfArgs DEF Tidy, Complete
    <2>3. ASSUME NEW p \in 2 .. Len(t), t[p].kind = "call" PROVE t[p - 1].kind = "/call"
      <3>1. CASE p \in 1 .. Len(T)
        <4>1. p \in 2 .. Len(T) /\ p - 1 \in 1 .. Len(T)
          BY <1>6, <3>1
        <4>2. T[p].kind = "call" /\ t[p - 1] = T[p - 1]
          BY <1>6, <2>3, <3>1, <4>1
        <4> QED BY <2>1, <4>1, <4>2 DEF Tidy, CallsEnd
      <3>2. CASE p \notin 1 .. Len(T)
        <4>1. p = Len(T) + 1
          <5>1. p \in 1 .. Len(t)
            BY <1>6
          <5> QED BY <1>10, <2>3, <3>2, <5>1
        <4>2. p - 1 = Len(T) /\ Len(T) \in 1 .. Len(T)
          BY <1>6, <2>1, <4>1 DEF Complete
        <4>3. t[p - 1] = T[Len(T)]
          BY <1>6, <4>2
        <4> QED BY <2>1, <4>3 DEF Complete
      <3> QED BY <3>1, <3>2
    <2> QED BY <2>2, <2>3 DEF Tidy, CallsEnd
  <1>14. ASSUME OnlyTheEndIsMissing(r), k + 1 < Len(r.calls) PROVE Complete(t)
    <2>1. Complete(T)
      <3>1. k < Len(r.calls)
        BY <1>1
      <3> QED BY <1>14, <3>1 DEF CallsWritten
    <2>2. Complete(X)
      BY <1>2, <1>5, <1>14 DEF CallWritten
    <2>3. AllEnd(t)
      BY <1>3, <1>4, <2>1, <2>2, EndsOfAll DEF Complete
    <2>4. Len(t) \in 1 .. Len(t) /\ Len(t) \notin 1 .. Len(T) /\ Len(t) - Len(T) = Len(X) /\ Len(t) # 0
      BY <1>3, <1>6
    <2>5. t[Len(t)] = X[Len(X)]
      BY <1>6, <2>4
    <2> QED BY <2>2, <2>3, <2>4, <2>5 DEF Complete
  <1>15. t \in Seq(Tokens) /\ Len(t) # 0
    BY <1>3, <1>4, <1>6 DEF Then
  <1> QED BY <1>12, <1>13, <1>14, <1>15 DEF CallsWritten

\* The text of a reply says its calls.
LEMMA ReplySays ==
    ASSUME NEW r \in Replies
    PROVE  /\ ReplyText(r) \in Seq(Tokens) /\ Len(ReplyText(r)) # 0
           /\ Says(ReplyText(r), ToSet(r.calls))
           /\ OnlyTheEndIsMissing(r) => Tidy(ReplyText(r))
  <1> DEFINE seqs == [i \in DOMAIN r.calls |-> CallText(r.calls[i])]
             n == Len(r.calls)
             G == [k \in 1 .. n |-> {T \in Seq(Tokens) : CallsWritten(T, r, k)}]
  <1>1. r.calls \in Seq(ToSet(r.calls)) /\ DOMAIN r.calls = 1 .. n /\ n \in Nat
        /\ \A i \in DOMAIN r.calls : r.calls[i] \in Written
    BY RepliesHaveCalls
  <1>2. CASE r.calls = <<>>
    <2> DEFINE T == <<Mark("text", "prose")>>
    <2>1. ReplyText(r) = T
      BY <1>2 DEF ReplyText
    <2>2. Mark("text", "prose") \in Tokens /\ Mark("text", "prose").kind = "text"
      <3>1. "prose" \in Word /\ "text" \in Marks \cup {"text"}
        BY DEF Word
      <3> QED BY <3>1, MarksAre
    <2>3. T \in Seq(Tokens) /\ Len(T) = 1 /\ T[1].kind = "text"
      BY <2>2
    <2> HIDE DEF T
    <2>4. \A p \in 1 .. Len(T) : T[p].kind = "text"
      BY <2>3
    <2>5. Says(T, ToSet(r.calls)) /\ Tidy(T)
      BY <2>3, <2>4 DEF Says, Tidy, CallsEnd, ArgsEnd
    <2> QED BY <2>1, <2>3, <2>5
  <1>3. CASE r.calls # <<>>
    <2>0. n # 0
      BY <1>1, <1>3
    <2>1. \A i \in 1 .. n : seqs[i] = CallText(r.calls[i]) /\ seqs[i] \in Seq(Tokens)
      BY <1>1, CallIsWritten DEF CallWritten
    <2>2. seqs \in Seq(Seq(Tokens)) /\ Len(seqs) = n
      <3>1. seqs = [i \in 1 .. n |-> seqs[i]]
        BY <1>1
      <3> DEFINE T == Seq(Tokens)
      <3>2. n \in Nat /\ \A i \in 1 .. n : seqs[i] \in T
        BY <1>1, <2>1
      <3> HIDE DEF seqs, T, n
      <3> SUFFICES seqs \in Seq(T) /\ Len(seqs) = n
        BY DEF T
      <3>3. seqs \in [1 .. n -> T]
        BY <3>1, <3>2
      <3> QED BY <3>2, <3>3
    <2>3. ReplyText(r) = FlattenSeq(seqs)
      BY <1>3 DEF ReplyText
    <2> HIDE DEF seqs
    <2>4. seqs[1] \in G[1]
      <3>1. 1 \in 1 .. n
        BY <1>1, <2>0
      <3>2. CallsWritten(seqs[1], r, 1)
        BY <1>1, <2>1, <3>1, FirstCall
      <3> QED BY <2>1, <3>1, <3>2
    <2>5. ASSUME NEW i \in 1 .. (n - 1), NEW s \in G[i] PROVE s \o seqs[i + 1] \in G[i + 1]
      <3>1. i \in 1 .. n /\ i + 1 \in 1 .. n
        BY <1>1
      <3>2. CallsWritten(s, r, i)
        BY <2>5, <3>1
      <3>3. CallsWritten(s \o CallText(r.calls[i + 1]), r, i + 1)
        BY <1>1, <3>1, <3>2, OneMoreCall
      <3>4. CallsWritten(s \o seqs[i + 1], r, i + 1) /\ s \o seqs[i + 1] \in Seq(Tokens)
        BY <2>1, <3>1, <3>3 DEF CallsWritten
      <3> QED BY <3>1, <3>4
    <2> HIDE DEF G
    <2>6. FlattenSeq(seqs) \in G[n]
      <3>1. n # 0 /\ n \in Nat /\ Len(seqs) = n /\ seqs \in Seq(Seq(Tokens))
        BY <1>1, <2>0, <2>2
      <3> HIDE DEF n, Tokens
      <3> QED BY <2>4, <2>5, <3>1, FlatteningHolds
    <2>7. CallsWritten(FlattenSeq(seqs), r, n)
      BY <1>1, <2>0, <2>6 DEF G
    <2> QED BY <2>3, <2>7 DEF CallsWritten
  <1> QED BY <1>2, <1>3

-----------------------------------------------------------------------------
(* What is read of a text *)

\* What a reader does at a place: it is done, it goes on at a later place, or it adds
\* what it read to what it reads from a later place on.
Onward(c, F) ==
    IF c.kind = "done" THEN <<>>
    ELSE IF c.kind = "skip" THEN F[c.on] ELSE <<c.read>> \o F[c.on]
Takes(c, i, n, R) ==
    \/ c.kind = "done"
    \/ c.kind = "skip" /\ c.on \in (i + 1) .. n
    \/ c.kind = "read" /\ c.on \in (i + 1) .. n /\ c.read \in R

\* What it reads is of the kind it reads when what it reads from later places on is.
LEMMA OnwardReads ==
    ASSUME NEW n \in Nat, NEW R, NEW i \in 1 .. n, NEW c, Takes(c, i, n, R), NEW F,
           \A j \in (i + 1) .. n : F[j] \in Seq(R)
    PROVE  Onward(c, F) \in Seq(R)
  <1>1. CASE c.kind = "done"
    BY <1>1 DEF Onward
  <1>2. CASE c.kind = "skip" /\ c.on \in (i + 1) .. n
    BY <1>2 DEF Onward
  <1>3. CASE c.kind = "read" /\ c.on \in (i + 1) .. n /\ c.read \in R
    <2>1. Onward(c, F) = <<c.read>> \o F[c.on]
      BY <1>3 DEF Onward
    <2>2. F[c.on] \in Seq(R) /\ <<c.read>> \in Seq(R)
      BY <1>3
    <2>3. <<c.read>> \o F[c.on] \in Seq(R)
      BY <2>2
    <2> QED BY <2>1, <2>3
  <1> QED BY <1>1, <1>2, <1>3 DEF Takes

\* Such a reader comes to an end, and what it read is all of the kind it reads.
LEMMA ReaderReads ==
    ASSUME NEW n \in Nat, NEW R, NEW c, \A i \in 1 .. n : Takes(c[i], i, n, R)
    PROVE  /\ \E F : F = [i \in 1 .. n |-> Onward(c[i], F)]
           /\ \A F : F = [i \in 1 .. n |-> Onward(c[i], F)] => \A i \in 1 .. n : F[i] \in Seq(R)
  <1> DEFINE V == Seq(R)
             step == [i \in 1 .. n |-> [h \in [(i + 1) .. n -> V] |-> Onward(c[i], h)]]
  <1>1. ASSUME NEW i \in 1 .. n PROVE step[i] \in [[(i + 1) .. n -> V] -> V]
    <2>1. ASSUME NEW h \in [(i + 1) .. n -> V] PROVE Onward(c[i], h) \in V
      <3>1. Takes(c[i], i, n, R) /\ \A j \in (i + 1) .. n : h[j] \in V
        OBVIOUS
      <3> HIDE DEF step
      <3> QED BY <3>1, OnwardReads
    <2>2. step[i] = [h \in [(i + 1) .. n -> V] |-> Onward(c[i], h)]
      OBVIOUS
    <2> HIDE DEF step, V
    <2> QED BY <2>1, <2>2
  <1>2. \A i \in 1 .. n : \A h \in [(i + 1) .. n -> V] : step[i][h] = Onward(c[i], h)
    OBVIOUS
  <1> HIDE DEF step, V
  <1>0. Backward(step, V, n)
    BY <1>1 DEF Backward
  <1>3. PICK F \in [1 .. n -> V] : RunsBack(F, step, n)
    BY <1>0, DownwardValues, Zenon
  <1>4. ASSUME NEW i \in 1 .. n PROVE F[i] = Onward(c[i], F)
    <2> DEFINE h == Later(F, i, n)
    <2>1. h \in [(i + 1) .. n -> V] /\ \A j \in (i + 1) .. n : h[j] = F[j]
      <3>1. \A j \in (i + 1) .. n : j \in 1 .. n
        OBVIOUS
      <3> QED BY <1>3, <3>1 DEF Later
    <2>2. F[i] = step[i][h]
      BY <1>3 DEF RunsBack
    <2> HIDE DEF h
    <2>3. F[i] = Onward(c[i], h)
      BY <1>2, <2>1, <2>2
    <2>4. Onward(c[i], h) = Onward(c[i], F)
      BY <2>1 DEF Onward, Takes
    <2> QED BY <2>3, <2>4
  <1>5. F = [i \in 1 .. n |-> Onward(c[i], F)]
    BY <1>3, <1>4
  <1>6. ASSUME NEW H, H = [i \in 1 .. n |-> Onward(c[i], H)] PROVE \A i \in 1 .. n : H[i] \in Seq(R)
    <2> DEFINE S == {i \in 1 .. n : H[i] \in Seq(R)}
    <2>1. ASSUME NEW i \in 1 .. n, \A j \in (i + 1) .. n : j \in S PROVE i \in S
      <3>1. \A j \in (i + 1) .. n : H[j] \in Seq(R)
        BY <2>1
      <3>2. H[i] = Onward(c[i], H)
        BY <1>6
      <3>3. H[i] \in Seq(R)
        BY <3>1, <3>2, OnwardReads
      <3> QED BY <3>3
    <2> HIDE DEF S
    <2>2. 1 .. n \subseteq S
      BY <2>1, DownwardHolds
    <2> QED BY <2>2 DEF S
  <1> QED BY <1>5, <1>6

\* The dialects whose calls are marked in the text.
MarkupDialects == {"function", "invoke", "dsml", "invoke_name", "arg_key", "xml"}

\* Where a body ends, and that no other call is in it.
LEMMA BodyEndsBefore ==
    ASSUME NEW d \in MarkupDialects, NEW T \in Seq(Tokens), NEW c \in 1 .. Len(T), T[c].kind = "call"
    PROVE  /\ BodyEnd(d, T, c) \in (c + 1) .. (Len(T) + 1)
           /\ BodyEnd(d, T, c) <= Len(T) => T[BodyEnd(d, T, c)].kind \in {"call", "/call"}
           /\ d \notin {"arg_key", "xml"} \/ CallsEnd(T) =>
                \A j \in c + 1 .. BodyEnd(d, T, c) - 1 : T[j].kind # "call"
           /\ d \in {"arg_key", "xml"} => \A j \in c + 1 .. BodyEnd(d, T, c) - 1 : T[j].kind # "/call"
           /\ d \in InvokeDialects /\ BodyEnd(d, T, c) <= Len(T) => T[BodyEnd(d, T, c)].kind = "call"
  <1>0. Len(T) \in Nat /\ c + 1 \in 1 .. (Len(T) + 1)
    OBVIOUS
  <1> DEFINE e == BodyEnd(d, T, c)
  <1>1. ASSUME NEW kinds
        PROVE  LET f == FirstOf(T, c + 1, kinds)
               IN /\ f \in (c + 1) .. (Len(T) + 1)
                  /\ f <= Len(T) => T[f].kind \in kinds
                  /\ \A j \in (c + 1) .. (f - 1) : T[j].kind \notin kinds
    BY <1>0, FirstIs
  <1>2. CASE d = "function"
    <2>1. e = FirstOf(T, c + 1, {"call", "/call"})
      BY <1>2 DEF BodyEnd, InvokeDialects
    <2> HIDE DEF e
    <2>2. /\ e \in (c + 1) .. (Len(T) + 1)
          /\ e <= Len(T) => T[e].kind \in {"call", "/call"}
          /\ \A j \in (c + 1) .. (e - 1) : T[j].kind \notin {"call", "/call"}
      BY <1>1, <2>1
    <2> QED BY <1>2, <2>2 DEF e, InvokeDialects
  <1>3. CASE d \in {"invoke", "dsml", "invoke_name"}
    <2>1. e = FirstOf(T, c + 1, {"call"})
      BY <1>3 DEF BodyEnd, InvokeDialects
    <2> HIDE DEF e
    <2>2. /\ e \in (c + 1) .. (Len(T) + 1)
          /\ e <= Len(T) => T[e].kind \in {"call"}
          /\ \A j \in (c + 1) .. (e - 1) : T[j].kind \notin {"call"}
      BY <1>1, <2>1
    <2> QED BY <1>3, <2>2 DEF e
  <1>4. CASE d \notin {"function", "invoke", "dsml", "invoke_name"}
    <2> DEFINE s == FirstOf(T, c + 1, {"/call"})
               n == FirstOf(T, c + 1, {"call"})
    <2>1. e = IF s <= Len(T) THEN s ELSE n
      BY <1>4 DEF BodyEnd, InvokeDialects
    <2>2. /\ s \in (c + 1) .. (Len(T) + 1)
          /\ s <= Len(T) => T[s].kind \in {"/call"}
          /\ \A j \in (c + 1) .. (s - 1) : T[j].kind \notin {"/call"}
      BY <1>1
    <2>3. /\ n \in (c + 1) .. (Len(T) + 1)
          /\ n <= Len(T) => T[n].kind \in {"call"}
          /\ \A j \in (c + 1) .. (n - 1) : T[j].kind \notin {"call"}
      BY <1>1
    <2> HIDE DEF e, s, n
    <2>4. e \in (c + 1) .. (Len(T) + 1) /\ (e <= Len(T) => T[e].kind \in {"call", "/call"})
      BY <2>1, <2>2, <2>3
    <2>5. \A j \in c + 1 .. e - 1 : T[j].kind # "/call"
      <3>1. CASE s <= Len(T)
        BY <2>1, <2>2, <3>1
      <3>2. CASE ~ (s <= Len(T))
        <4>1. \A j \in c + 1 .. e - 1 : j \in (c + 1) .. (s - 1)
          BY <2>2, <2>4, <3>2
        <4> QED BY <2>2, <4>1
      <3> QED BY <3>1, <3>2
    <2>6. ASSUME CallsEnd(T), NEW j \in c + 1 .. e - 1 PROVE T[j].kind # "call"
      <3> SUFFICES ASSUME T[j].kind = "call" PROVE FALSE
        OBVIOUS
      <3>1. j \in 2 .. Len(T) /\ j - 1 \in c .. (e - 1)
        BY <1>0, <2>4, <2>6
      <3>2. T[j - 1].kind = "/call"
        BY <2>6, <3>1 DEF CallsEnd
      <3>3. j - 1 # c
        BY <3>2
      <3>4. j - 1 \in c + 1 .. e - 1
        BY <2>4, <3>1, <3>3
      <3> QED BY <2>5, <3>2, <3>4
    <2> QED BY <1>4, <2>4, <2>5, <2>6 DEF e, MarkupDialects, InvokeDialects
  <1> QED BY <1>2, <1>3, <1>4

\* The body of a call with these arguments; what is open in an invoke dialect.
OpenIn(d, args, ends) == IF d \in InvokeDialects THEN ends ELSE args
BodyOf(d, B, args, ends) ==
    /\ B \in Seq(Tokens)
    /\ \A p \in 1 .. Len(B) : B[p].kind # "call"
    /\ \A a \in 1 .. Len(B) : B[a].kind = "arg" =>
          /\ ArgAt(B, a, args, OpenIn(d, args, ends))
          /\ d \in {"arg_key", "xml"} /\ a + 2 <= Len(B) => B[a + 2].kind = "/arg"

\* A value is the text that was written, unless the argument is passed over.
LEMMA ValueEnds ==
    ASSUME NEW d \in MarkupDialects, NEW B, NEW args, NEW ends, BodyOf(d, B, args, ends),
           NEW a \in 1 .. Len(B), B[a].kind = "arg"
    PROVE  /\ a + 1 <= Len(B) /\ ValueEnd(d, B, a) \in (a + 2) .. (Len(B) + 1)
           /\ ValueEnd(d, B, a) = a + 2
              \/ (d = "invoke_name" /\ ValueEnd(d, B, a) > FirstOf(B, a + 1, {"arg", "/call"}))
  <1>1. Len(B) \in Nat /\ a \in Nat
    BY DEF BodyOf
  <1>2. PICK b \in args : /\ a + 1 <= Len(B) /\ B[a + 1] = Mark("text", b.text)
                          /\ a + 2 <= Len(B) => B[a + 2].kind \in Marks
    BY DEF BodyOf, ArgAt
  <1>3. B[a + 1].kind = "text" /\ a + 1 \in 1 .. (Len(B) + 1) /\ a + 1 \in 1 .. Len(B)
    BY <1>1, <1>2 DEF Mark
  <1>4. a + 2 <= Len(B) => /\ a + 2 \in 1 .. Len(B)
                           /\ B[a + 2].kind \in {"/call", "arg", "/arg"}
                           /\ d \in {"arg_key", "xml"} => B[a + 2].kind = "/arg"
    <2>1. a + 2 <= Len(B) => a + 2 \in 1 .. Len(B)
      BY <1>1
    <2> QED BY <1>2, <2>1 DEF BodyOf, Marks
  <1>5. ASSUME NEW kinds, "text" \notin kinds
        PROVE  LET f == FirstOf(B, a + 1, kinds)
               IN /\ f \in (a + 2) .. (Len(B) + 1)
                  /\ a + 2 <= Len(B) /\ B[a + 2].kind \in kinds => f = a + 2
                  /\ Len(B) < a + 2 => f = a + 2
    <2> DEFINE f == FirstOf(B, a + 1, kinds)
    <2>1. /\ f \in (a + 1) .. (Len(B) + 1)
          /\ f <= Len(B) => B[f].kind \in kinds
          /\ \A j \in (a + 1) .. (f - 1) : B[j].kind \notin kinds
      BY <1>1, <1>3, FirstIs
    <2> HIDE DEF f
    <2>2. f # a + 1
      BY <1>2, <1>3, <1>5, <2>1
    <2>3. f \in (a + 2) .. (Len(B) + 1)
      BY <1>1, <2>1, <2>2
    <2>4. ASSUME a + 2 <= Len(B), B[a + 2].kind \in kinds PROVE f = a + 2
      <3>1. ~ (a + 2 \in (a + 1) .. (f - 1))
        BY <2>1, <2>4
      <3> QED BY <1>1, <2>3, <3>1
    <2>5. Len(B) < a + 2 => f = a + 2
      BY <1>1, <2>3
    <2> QED BY <2>3, <2>4, <2>5 DEF f
  <1> DEFINE e == ValueEnd(d, B, a)
  <1>6. CASE d \in {"function", "invoke", "dsml"}
    <2>1. e = FirstOf(B, a + 1, Marks) /\ "text" \notin Marks
      BY <1>6 DEF ValueEnd, Marks, InvokeDialects
    <2> HIDE DEF e
    <2>2. /\ e \in (a + 2) .. (Len(B) + 1)
          /\ a + 2 <= Len(B) /\ B[a + 2].kind \in Marks => e = a + 2
          /\ Len(B) < a + 2 => e = a + 2
      BY <1>5, <2>1
    <2>3. e = a + 2
      BY <1>1, <1>2, <2>2
    <2> QED BY <1>2, <2>2, <2>3 DEF e
  <1>7. CASE d \in {"arg_key", "xml", "invoke_name"}
    <2>1. e = FirstOf(B, a + 1, {"/arg"})
      BY <1>7 DEF ValueEnd, InvokeDialects
    <2> HIDE DEF e
    <2>2. /\ e \in (a + 2) .. (Len(B) + 1)
          /\ a + 2 <= Len(B) /\ B[a + 2].kind \in {"/arg"} => e = a + 2
          /\ Len(B) < a + 2 => e = a + 2
      BY <1>5, <2>1
    <2>3. CASE d \in {"arg_key", "xml"}
      <3>1. e = a + 2
        BY <1>1, <1>4, <2>2, <2>3
      <3> QED BY <1>2, <2>2, <3>1 DEF e
    <2>4. CASE d = "invoke_name" /\ e # a + 2
      <3> DEFINE g == FirstOf(B, a + 1, {"arg", "/call"})
      <3>1. a + 2 <= Len(B) /\ B[a + 2].kind \in {"arg", "/call"}
        BY <1>1, <1>4, <2>2, <2>4
      <3>2. g = a + 2
        BY <1>5, <3>1
      <3> HIDE DEF g
      <3>3. e > g
        BY <1>1, <2>2, <2>4, <3>2
      <3> QED BY <1>2, <2>2, <2>4, <3>3 DEF e, g
    <2> QED BY <1>2, <1>7, <2>2, <2>3, <2>4 DEF e
  <1> QED BY <1>6, <1>7 DEF MarkupDialects

\* What the arguments are read as: what is left open may keep one mark.
Fragments == {Mark(m, "") : m \in {"opener", "/calls"}}
Whole(args) == {[key |-> b.key, value |-> <<Mark("text", b.text)>>] : b \in args}
Frayed(ends) == {[key |-> b.key, value |-> <<Mark("text", b.text), m>>] : b \in ends, m \in Fragments}
ArgsRead(d, args, ends) == Whole(args) \cup IF d \in InvokeDialects THEN Frayed(ends) ELSE {}
LeftBy(d, left) == left = <<>> \/ (d \in InvokeDialects /\ \E m \in Fragments : left = <<m>>)

\* The reader of arguments, at a place.
ArgsOnward(d, body, left, Args, i) ==
    LET a == FirstOf(body, i, {"arg"})
        e == ValueEnd(d, body, a)
    IN IF a > Len(body) THEN <<>>
       ELSE IF d = "invoke_name" /\ e > FirstOf(body, a + 1, {"arg", "/call"}) THEN Args[a + 1]
       ELSE <<[key |-> body[a].v,
               value |-> SubSeq(body, a + 1, e - 1) \o IF e > Len(body) THEN left ELSE <<>>]>>
            \o Args[IF e > Len(body) THEN e ELSE IF body[e].kind = "/arg" THEN e + 1 ELSE e]

\* A part of length one.
LEMMA OneOfText ==
    ASSUME NEW T, NEW s \in Seq(T), NEW j \in 1 .. Len(s)
    PROVE  SubSeq(s, j, j) = <<s[j]>>
  <1>1. SubSeq(s, j, j) = [i \in 1 .. 1 |-> s[j + i - 1]]
    OBVIOUS
  <1>2. j + 1 - 1 = j
    OBVIOUS
  <1>3. [i \in 1 .. 1 |-> s[j + i - 1]] = <<s[j]>>
    BY <1>2
  <1> QED BY <1>1, <1>3

\* The three things a reader may do, as values.
LEMMA DoneReading ==
    ASSUME NEW i, NEW n, NEW R
    PROVE  \E c : Takes(c, i, n, R) /\ \A F : Onward(c, F) = <<>>
  <1> DEFINE c == [kind |-> "done"]
  <1>1. c.kind = "done"
    OBVIOUS
  <1> HIDE DEF c
  <1> QED BY <1>1 DEF Takes, Onward

GoesTo(c, j) == \A F : Onward(c, F) = F[j]

\* It may go on.
LEMMA SkipsOn ==
    ASSUME NEW i, NEW n, NEW R, NEW j \in (i + 1) .. n
    PROVE  \E c : Takes(c, i, n, R) /\ GoesTo(c, j)
  <1> DEFINE c == [kind |-> "skip", on |-> j]
  <1>1. c.kind = "skip" /\ c.on = j
    OBVIOUS
  <1> HIDE DEF c
  <1> QED BY <1>1 DEF Takes, Onward, GoesTo

ReadsFirst(c, x, j) == \A F : Onward(c, F) = <<x>> \o F[j]

\* It may add what it read.
LEMMA ReadsOn ==
    ASSUME NEW i, NEW n, NEW R, NEW j \in (i + 1) .. n, NEW x \in R
    PROVE  \E c : Takes(c, i, n, R) /\ ReadsFirst(c, x, j)
  <1> DEFINE c == [kind |-> "read", on |-> j, read |-> x]
  <1>1. c.kind = "read" /\ c.on = j /\ c.read = x
    OBVIOUS
  <1> HIDE DEF c
  <1> QED BY <1>1 DEF Takes, Onward, ReadsFirst

\* The reader of arguments does one of the three at every place.
LEMMA ArgsReader ==
    ASSUME NEW d \in MarkupDialects, NEW B, NEW args, NEW ends, BodyOf(d, B, args, ends),
           NEW left, LeftBy(d, left), NEW i \in 1 .. (Len(B) + 1)
    PROVE  \E c : /\ Takes(c, i, Len(B) + 1, ArgsRead(d, args, ends))
                  /\ \A F : Onward(c, F) = ArgsOnward(d, B, left, F, i)
  <1> DEFINE n == Len(B) + 1
             a == FirstOf(B, i, {"arg"})
             e == ValueEnd(d, B, a)
             passesOver == d = "invoke_name" /\ e > FirstOf(B, a + 1, {"arg", "/call"})
             x == [key |-> B[a].v, value |-> SubSeq(B, a + 1, e - 1) \o IF e > Len(B) THEN left ELSE <<>>]
             j == IF e > Len(B) THEN e ELSE IF B[e].kind = "/arg" THEN e + 1 ELSE e
  <1>1. B \in Seq(Tokens) /\ Len(B) \in Nat
    BY DEF BodyOf
  <1>2. /\ a \in i .. n
        /\ a <= Len(B) => B[a].kind = "arg"
    BY <1>1, FirstIs
  <1>3. \A F : ArgsOnward(d, B, left, F, i) = IF a > Len(B) THEN <<>>
                                        ELSE IF passesOver THEN F[a + 1]
                                        ELSE <<x>> \o F[j]
    BY DEF ArgsOnward
  <1>4. a <= Len(B) => /\ a + 1 <= Len(B) /\ e \in (a + 2) .. n
                       /\ e = a + 2 \/ passesOver
    <2> SUFFICES ASSUME a <= Len(B) PROVE a + 1 <= Len(B) /\ e \in (a + 2) .. n /\ (e = a + 2 \/ passesOver)
      OBVIOUS
    <2>1. a \in 1 .. Len(B) /\ B[a].kind = "arg"
      BY <1>1, <1>2
    <2> HIDE DEF a
    <2> QED BY <2>1, ValueEnds
  <1>5. CASE a > Len(B)
    <2>1. \A F : ArgsOnward(d, B, left, F, i) = <<>>
      BY <1>3, <1>5
    <2> QED BY <2>1, DoneReading, Zenon
  <1>6. CASE ~ (a > Len(B)) /\ passesOver
    <2>1. \A F : ArgsOnward(d, B, left, F, i) = F[a + 1]
      BY <1>3, <1>6
    <2>2. a + 1 \in (i + 1) .. n
      BY <1>1, <1>2, <1>4, <1>6
    <2> HIDE DEF a, n
    <2>3. PICK c : Takes(c, i, n, ArgsRead(d, args, ends)) /\ GoesTo(c, a + 1)
      BY <2>2, SkipsOn
    <2>4. \A F : Onward(c, F) = ArgsOnward(d, B, left, F, i)
      BY <2>1, <2>3, Zenon DEF GoesTo
    <2> QED BY <2>3, <2>4, Zenon DEF n
  <1>7. CASE ~ (a > Len(B)) /\ ~ passesOver
    <2>1. \A F : ArgsOnward(d, B, left, F, i) = <<x>> \o F[j]
      BY <1>3, <1>7
    <2>2. a \in 1 .. Len(B) /\ B[a].kind = "arg" /\ a + 1 <= Len(B) /\ e = a + 2 /\ e \in (a + 2) .. n
      BY <1>1, <1>2, <1>4, <1>7
    <2>3. j \in (i + 1) .. n
      <3>1. j \in {e, e + 1} /\ (e > Len(B) => j = e)
        OBVIOUS
      <3> HIDE DEF j, a, e
      <3>2. a \in i .. n
        BY <1>2 DEF a
      <3> QED BY <1>1, <2>2, <3>1, <3>2
    <2>4. x \in ArgsRead(d, args, ends)
      <3>1. PICK b \in args : /\ B[a].v = b.key /\ B[a + 1] = Mark("text", b.text)
                              /\ Dangles(B, a) => b \in OpenIn(d, args, ends)
        BY <2>2 DEF BodyOf, ArgAt
      <3>2. SubSeq(B, a + 1, e - 1) = <<Mark("text", b.text)>>
        <4> HIDE DEF a, e
        <4>1. e - 1 = a + 1 /\ a + 1 \in 1 .. Len(B)
          BY <1>1, <2>2
        <4>2. SubSeq(B, a + 1, a + 1) = <<B[a + 1]>>
          BY <1>1, <4>1, OneOfText
        <4> QED BY <3>1, <4>1, <4>2
      <3> DEFINE more == IF e > Len(B) THEN left ELSE <<>>
      <3>3. x = [key |-> b.key, value |-> <<Mark("text", b.text)>> \o more]
        BY <3>1, <3>2
      <3>4. more = <<>> \/ (d \in InvokeDialects /\ b \in ends /\ \E m \in Fragments : more = <<m>>)
        <4>1. e > Len(B) => Dangles(B, a)
          <5> HIDE DEF a, e
          <5> QED BY <2>2 DEF Dangles
        <4>2. e > Len(B) /\ d \in InvokeDialects => b \in ends
          BY <3>1, <4>1 DEF OpenIn
        <4> QED BY <4>2 DEF LeftBy
      <3> HIDE DEF x, more
      <3>5. CASE more = <<>>
        <4>1. <<Mark("text", b.text)>> \o <<>> = <<Mark("text", b.text)>>
          OBVIOUS
        <4>2. x = [key |-> b.key, value |-> <<Mark("text", b.text)>>]
          BY <3>3, <3>5, <4>1
        <4> QED BY <4>2 DEF ArgsRead, Whole
      <3>6. CASE d \in InvokeDialects /\ b \in ends /\ \E m \in Fragments : more = <<m>>
        <4>1. PICK m \in Fragments : more = <<m>>
          BY <3>6
        <4>2. <<Mark("text", b.text)>> \o <<m>> = <<Mark("text", b.text), m>>
          <5> DEFINE t == Mark("text", b.text)
          <5> HIDE DEF t
          <5>1. <<t>> \o <<m>> = <<t, m>>
            <6> DEFINE one == <<t>>
                       two == <<m>>
                       both == one \o two
                       pair == <<t, m>>
            <6>1. one \in Seq({t, m}) /\ two \in Seq({t, m}) /\ pair \in Seq({t, m})
                  /\ Len(one) = 1 /\ Len(two) = 1 /\ Len(pair) = 2 /\ one[1] = t /\ two[1] = m /\ pair[1] = t /\ pair[2] = m
              BY ONLY TRUE
            <6> HIDE DEF one, two, pair
            <6>2. Then({t, m}, both, one, two)
              BY <6>1, Joining
            <6> HIDE DEF both
            <6>3. both \in Seq({t, m}) /\ Len(both) = 2 /\ both[1] = t /\ both[1 + 1] = m
              BY <6>1, <6>2 DEF Then
            <6>4. both = pair
              BY ONLY <6>1, <6>3
            <6> QED BY <6>4 DEF both, one, two, pair
          <5> QED BY <5>1 DEF t
        <4>3. x = [key |-> b.key, value |-> <<Mark("text", b.text), m>>]
          BY <3>3, <4>1, <4>2
        <4>4. x \in Frayed(ends)
          BY <3>6, <4>3 DEF Frayed
        <4> QED BY <3>6, <4>4 DEF ArgsRead
      <3> QED BY <3>4, <3>5, <3>6
    <2> HIDE DEF j, x, n
    <2>5. PICK c : Takes(c, i, n, ArgsRead(d, args, ends)) /\ ReadsFirst(c, x, j)
      BY <2>3, <2>4, ReadsOn
    <2>6. \A F : Onward(c, F) = ArgsOnward(d, B, left, F, i)
      BY <2>1, <2>5, Zenon DEF ReadsFirst
    <2> QED BY <2>5, <2>6, Zenon DEF n
  <1> QED BY <1>5, <1>6, <1>7

\* The arguments of a body are read as they were written.
LEMMA ArgsAreRead ==
    ASSUME NEW d \in MarkupDialects, NEW B, NEW args, NEW ends, BodyOf(d, B, args, ends),
           NEW left, LeftBy(d, left)
    PROVE  ReadArgs(d, B, left) \in Seq(ArgsRead(d, args, ends))
  <1> DEFINE n == Len(B) + 1
             R == ArgsRead(d, args, ends)
             c == [i \in 1 .. n |-> CHOOSE k : Takes(k, i, n, R) /\ \A F : Onward(k, F) = ArgsOnward(d, B, left, F, i)]
             Eqn(F) == F = [i \in 1 .. n |-> ArgsOnward(d, B, left, F, i)]
  <1>1. \A i \in 1 .. n : Takes(c[i], i, n, R) /\ \A F : Onward(c[i], F) = ArgsOnward(d, B, left, F, i)
    <2> SUFFICES ASSUME NEW i \in 1 .. n
                 PROVE  Takes(c[i], i, n, R) /\ \A F : Onward(c[i], F) = ArgsOnward(d, B, left, F, i)
      OBVIOUS
    <2>1. \E k : Takes(k, i, n, R) /\ \A F : Onward(k, F) = ArgsOnward(d, B, left, F, i)
      BY ArgsReader
    <2>2. c[i] = CHOOSE k : Takes(k, i, n, R) /\ \A F : Onward(k, F) = ArgsOnward(d, B, left, F, i)
      OBVIOUS
    <2> HIDE DEF c, n, R
    <2> QED BY <2>1, <2>2, Zenon
  <1>2. n \in Nat /\ 1 \in 1 .. n
    BY DEF BodyOf
  <1>3. ReadArgs(d, B, left) = (CHOOSE F : Eqn(F))[1]
    BY DEF ReadArgs, ArgsOnward
  <1> HIDE DEF c, n, R
  <1>4. \A F : [i \in 1 .. n |-> Onward(c[i], F)] = [i \in 1 .. n |-> ArgsOnward(d, B, left, F, i)]
    BY <1>1
  <1>5. /\ \E F : F = [i \in 1 .. n |-> Onward(c[i], F)]
        /\ \A F : F = [i \in 1 .. n |-> Onward(c[i], F)] => \A i \in 1 .. n : F[i] \in Seq(R)
    BY <1>1, <1>2, ReaderReads
  <1>6. \E F : Eqn(F)
    BY <1>4, <1>5
  <1>7. \A F : Eqn(F) => F[1] \in Seq(R)
    BY <1>2, <1>4, <1>5
  <1> HIDE DEF Eqn
  <1>8. ReadArgs(d, B, left) \in Seq(R)
    BY <1>3, <1>6, <1>7, Zenon
  <1> QED BY <1>8 DEF R

\* What the calls are read as, and the reader of calls, at a place.
CallAt(d, T, c) == [name |-> T[c].v, args |-> ReadArgs(d, SubSeq(T, c + 1, BodyEnd(d, T, c) - 1), Left(d, T, BodyEnd(d, T, c)))]
CallsRead(d, T) == {CallAt(d, T, c) : c \in {p \in 1 .. Len(T) : T[p].kind = "call"}}

CallsOnward(d, text, From, i) ==
    LET c == FirstOf(text, i, {"call"})
        e == BodyEnd(d, text, c)
    IN IF c > Len(text) THEN <<>>
       ELSE <<[name |-> text[c].v, args |-> ReadArgs(d, SubSeq(text, c + 1, e - 1), Left(d, text, e))]>> \o From[e]

\* The reader of calls does one of the three at every place.
LEMMA CallsReader ==
    ASSUME NEW d \in MarkupDialects, NEW T \in Seq(Tokens), NEW i \in 1 .. (Len(T) + 1)
    PROVE  \E c : /\ Takes(c, i, Len(T) + 1, CallsRead(d, T))
                  /\ \A F : Onward(c, F) = CallsOnward(d, T, F, i)
  <1> DEFINE n == Len(T) + 1
             p == FirstOf(T, i, {"call"})
             e == BodyEnd(d, T, p)
             x == [name |-> T[p].v, args |-> ReadArgs(d, SubSeq(T, p + 1, e - 1), Left(d, T, e))]
  <1>1. Len(T) \in Nat
    OBVIOUS
  <1>2. /\ p \in i .. n
        /\ p <= Len(T) => T[p].kind = "call"
    BY <1>1, FirstIs
  <1>3. \A F : CallsOnward(d, T, F, i) = IF p > Len(T) THEN <<>> ELSE <<x>> \o F[e]
    BY DEF CallsOnward
  <1>4. CASE p > Len(T)
    <2>1. \A F : CallsOnward(d, T, F, i) = <<>>
      BY <1>3, <1>4
    <2> QED BY <2>1, DoneReading, Zenon
  <1>5. CASE ~ (p > Len(T))
    <2>1. \A F : CallsOnward(d, T, F, i) = <<x>> \o F[e]
      BY <1>3, <1>5
    <2>2. p \in 1 .. Len(T) /\ T[p].kind = "call"
      BY <1>1, <1>2, <1>5
    <2>3. x = CallAt(d, T, p)
      BY DEF CallAt
    <2>4. x \in CallsRead(d, T)
      BY <2>2, <2>3 DEF CallsRead
    <2>5. e \in (p + 1) .. n
      <3> HIDE DEF p
      <3> QED BY <2>2, BodyEndsBefore
    <2>6. e \in (i + 1) .. n
      <3> HIDE DEF p, e
      <3>1. p \in i .. n
        BY <1>2 DEF p
      <3> QED BY <1>1, <2>5, <3>1
    <2> HIDE DEF e, x, n
    <2>7. PICK c : Takes(c, i, n, CallsRead(d, T)) /\ ReadsFirst(c, x, e)
      BY <2>4, <2>6, ReadsOn
    <2>8. \A F : Onward(c, F) = CallsOnward(d, T, F, i)
      BY <2>1, <2>7, Zenon DEF ReadsFirst
    <2> QED BY <2>7, <2>8, Zenon DEF n
  <1> QED BY <1>4, <1>5

\* What is read of a text are calls that are found in it.
LEMMA CallsAreRead ==
    ASSUME NEW d \in MarkupDialects, NEW T \in Seq(Tokens)
    PROVE  ReadCalls(d, T) \in Seq(CallsRead(d, T))
  <1> DEFINE n == Len(T) + 1
             R == CallsRead(d, T)
             c == [i \in 1 .. n |-> CHOOSE k : Takes(k, i, n, R) /\ \A F : Onward(k, F) = CallsOnward(d, T, F, i)]
             Eqn(F) == F = [i \in 1 .. n |-> CallsOnward(d, T, F, i)]
  <1>1. \A i \in 1 .. n : Takes(c[i], i, n, R) /\ \A F : Onward(c[i], F) = CallsOnward(d, T, F, i)
    <2> SUFFICES ASSUME NEW i \in 1 .. n
                 PROVE  Takes(c[i], i, n, R) /\ \A F : Onward(c[i], F) = CallsOnward(d, T, F, i)
      OBVIOUS
    <2>1. \E k : Takes(k, i, n, R) /\ \A F : Onward(k, F) = CallsOnward(d, T, F, i)
      BY CallsReader
    <2>2. c[i] = CHOOSE k : Takes(k, i, n, R) /\ \A F : Onward(k, F) = CallsOnward(d, T, F, i)
      OBVIOUS
    <2> HIDE DEF c, n, R
    <2> QED BY <2>1, <2>2, Zenon
  <1>2. n \in Nat /\ 1 \in 1 .. n
    OBVIOUS
  <1>3. ReadCalls(d, T) = (CHOOSE F : Eqn(F))[1]
    BY DEF ReadCalls, CallsOnward
  <1> HIDE DEF c, n, R
  <1>4. \A F : [i \in 1 .. n |-> Onward(c[i], F)] = [i \in 1 .. n |-> CallsOnward(d, T, F, i)]
    BY <1>1
  <1>5. /\ \E F : F = [i \in 1 .. n |-> Onward(c[i], F)]
        /\ \A F : F = [i \in 1 .. n |-> Onward(c[i], F)] => \A i \in 1 .. n : F[i] \in Seq(R)
    BY <1>1, <1>2, ReaderReads
  <1>6. \E F : Eqn(F)
    BY <1>4, <1>5
  <1>7. \A F : Eqn(F) => F[1] \in Seq(R)
    BY <1>2, <1>4, <1>5
  <1> HIDE DEF Eqn
  <1>8. ReadCalls(d, T) \in Seq(R)
    BY <1>3, <1>6, <1>7, Zenon
  <1> QED BY <1>8 DEF R

\* A call that is read is one that was written, with arguments that were.
WrittenIn(d, x, C) == \E w \in C : x.name = w.name /\ x.args \in Seq(ArgsRead(d, ToSet(w.args), LeftOpen(w)))

\* The body of a call has its arguments and no other call.
LEMMA BodyIsOf ==
    ASSUME NEW d \in MarkupDialects, NEW T \in Seq(Tokens), d \in {"arg_key", "xml"} => Tidy(T),
           NEW c \in 1 .. Len(T), T[c].kind = "call", NEW args, NEW ends, ArgsAfter(T, c, args, ends)
    PROVE  BodyOf(d, SubSeq(T, c + 1, BodyEnd(d, T, c) - 1), args, ends)
  <1> DEFINE e == BodyEnd(d, T, c)
             B == SubSeq(T, c + 1, e - 1)
             n == e - 1 - c
  <1>1. /\ e \in (c + 1) .. (Len(T) + 1)
        /\ e <= Len(T) => T[e].kind \in {"call", "/call"}
        /\ \A j \in c + 1 .. e - 1 : T[j].kind # "call"
        /\ d \in {"arg_key", "xml"} => \A j \in c + 1 .. e - 1 : T[j].kind # "/call"
        /\ d \in InvokeDialects /\ e <= Len(T) => T[e].kind = "call"
    BY BodyEndsBefore DEF Tidy
  <1> HIDE DEF e
  <1>2. Len(T) \in Nat /\ c \in Nat /\ n \in Nat /\ c + n = e - 1 /\ e - 1 <= Len(T)
    <2> DEFINE m == Len(T)
    <2>1. m \in Nat /\ c \in 1 .. m /\ e \in (c + 1) .. (m + 1)
      BY <1>1
    <2> HIDE DEF m
    <2>2. m \in Nat /\ c \in Nat /\ n \in Nat /\ c + n = e - 1 /\ e - 1 <= m
      BY ONLY <2>1
    <2> QED BY <2>2 DEF m
  <1>3. B \in Seq(Tokens) /\ Len(B) = n /\ \A i \in 1 .. n : B[i] = T[c + i]
    <2>1. \A i \in 1 .. n : c + i \in 1 .. Len(T) /\ (c + 1) + i - 1 = c + i
      BY <1>2
    <2>2. B = [i \in 1 .. n |-> T[c + i]]
      <3>1. B = [i \in 1 .. ((e - 1) - (c + 1) + 1) |-> T[(c + 1) + i - 1]]
        <4> DEFINE lo == c + 1
                   hi == e - 1
        <4>1. lo \in Int /\ hi \in Int
          BY <1>2
        <4> HIDE DEF lo, hi
        <4>2. SubSeq(T, lo, hi) = [i \in 1 .. (hi - lo + 1) |-> T[lo + i - 1]]
          BY ONLY T \in Seq(Tokens), <4>1
        <4> QED BY <4>2 DEF lo, hi
      <3>2. (e - 1) - (c + 1) + 1 = n
        BY <1>2
      <3> HIDE DEF n, B
      <3> QED BY <2>1, <3>1, <3>2
    <2>3. \A i \in 1 .. n : T[c + i] \in Tokens
      BY <2>1
    <2> HIDE DEF B, n
    <2>4. B \in [1 .. n -> Tokens]
      BY <2>2, <2>3
    <2>5. n \in Nat
      BY <1>2 DEF n
    <2>6. B \in Seq(Tokens) /\ Len(B) = n
      BY ONLY <2>4, <2>5
    <2>7. \A i \in 1 .. n : B[i] = T[c + i]
      BY ONLY <2>2
    <2> QED BY <2>6, <2>7
  <1> HIDE DEF B, n
  <1>4. \A i \in 1 .. n : c + i \in c + 1 .. e - 1 /\ c + i \in 1 .. Len(T)
    BY <1>1, <1>2
  <1>5. \A p \in 1 .. Len(B) : B[p].kind # "call"
    BY <1>1, <1>3, <1>4
  <1>6. ASSUME NEW p \in 1 .. Len(B), B[p].kind = "arg"
        PROVE  ArgAt(B, p, args, OpenIn(d, args, ends)) /\ (d \in {"arg_key", "xml"} /\ p + 2 <= Len(B) => B[p + 2].kind = "/arg")
    <2> DEFINE a == c + p
    <2>1. p \in 1 .. n /\ T[a].kind = "arg" /\ B[p] = T[a] /\ a \in c + 1 .. e - 1 /\ a \in 1 .. Len(T)
      BY <1>3, <1>4, <1>6
    <2>2. (c + p) + 1 = c + (p + 1) /\ (c + p) + 2 = c + (p + 2)
      BY <1>2, <2>1
    <2>3. \A j \in c + 1 .. a : j \in c + 1 .. e - 1
      BY <1>1, <2>1
    <2>4. a \in c + 1 .. Len(T)
      BY <1>1, <2>1
    <2> HIDE DEF a
    <2>5. ArgAt(T, a, args, ends)
      BY <1>1, <2>1, <2>3, <2>4 DEF ArgsAfter
    <2>6. PICK b \in args : /\ T[a].v = b.key
                            /\ a + 1 <= Len(T) /\ T[a + 1] = Mark("text", b.text)
                            /\ a + 2 <= Len(T) => T[a + 2].kind \in Marks
                            /\ Dangles(T, a) => b \in ends
      BY <2>5 DEF ArgAt
    <2>7. T[a + 1].kind = "text"
      BY <2>6 DEF Mark
    <2>8. a + 1 # e
      BY <1>1, <2>6, <2>7
    <2>9. p + 1 \in 1 .. n /\ a + 1 = c + (p + 1)
      BY <1>1, <1>2, <2>1, <2>2, <2>8 DEF a
    <2>10. B[p + 1] = T[a + 1] /\ p + 1 <= Len(B)
      BY <1>3, <2>9
    <2>11. ASSUME p + 2 <= Len(B)
           PROVE  B[p + 2].kind \in Marks /\ (d \in {"arg_key", "xml"} => B[p + 2].kind = "/arg")
      <3>1. p + 2 \in 1 .. n /\ a + 2 = c + (p + 2)
        <4>1. p \in 1 .. n /\ n \in Nat /\ p + 2 <= n
          BY <1>2, <1>3, <2>1, <2>11
        <4>2. p + 2 \in 1 .. n
          BY ONLY <4>1
        <4> QED BY <2>2, <4>2 DEF a
      <3>2. B[p + 2] = T[a + 2] /\ a + 2 \in 1 .. Len(T) /\ a + 2 \in c + 1 .. e - 1 /\ a + 2 <= Len(T)
        <4>1. B[p + 2] = T[a + 2]
          BY <1>3, <3>1
        <4>2. a + 2 \in 1 .. Len(T) /\ a + 2 \in c + 1 .. e - 1
          BY <1>4, <3>1
        <4>3. a + 2 <= Len(T)
          BY <1>2, <4>2
        <4> QED BY <4>1, <4>2, <4>3
      <3>3. B[p + 2].kind \in Marks
        BY <2>6, <3>2
      <3>4. d \in {"arg_key", "xml"} => T[a + 2].kind \in {"/arg", "/call"} /\ T[a + 2].kind # "/call"
        BY <1>1, <2>1, <3>2 DEF Tidy, ArgsEnd
      <3> QED BY <3>2, <3>3, <3>4
    <2>13. Dangles(B, p) => b \in OpenIn(d, args, ends)
      <3> SUFFICES ASSUME Dangles(B, p), d \in InvokeDialects PROVE b \in ends
        BY DEF OpenIn
      <3>1. ~ (p + 2 <= Len(B))
        <4>1. p + 2 <= Len(B) => p + 2 \in 1 .. Len(B) /\ ~ (p + 2 > Len(B))
          BY <1>2, <1>3, <2>1
        <4> QED BY <1>5, <4>1 DEF Dangles
      <3>2. a + 2 = e
        <4>1. p + 2 = n + 1
          BY <1>2, <1>3, <2>9, <3>1
        <4>2. a + 2 = c + (n + 1)
          BY <2>2, <4>1 DEF a
        <4> QED BY <1>1, <1>2, <4>2
      <3>3. Dangles(T, a)
        <4>1. a + 2 > Len(T) \/ e <= Len(T)
          BY <1>1, <1>2, <3>2
        <4> QED BY <1>1, <3>2, <4>1 DEF Dangles
      <3> QED BY <2>6, <3>3
    <2>12. ArgAt(B, p, args, OpenIn(d, args, ends))
      BY <2>1, <2>6, <2>10, <2>11, <2>13 DEF ArgAt
    <2> QED BY <2>11, <2>12
  <1>7. BodyOf(d, B, args, ends)
    BY <1>3, <1>5, <1>6 DEF BodyOf
  <1> QED BY <1>7 DEF B, e

\* A call found in a text that says some calls is one of those.
LEMMA ReadAsWritten ==
    ASSUME NEW d \in MarkupDialects, NEW T \in Seq(Tokens), NEW C, Says(T, C),
           d \in {"arg_key", "xml"} => Tidy(T), NEW x \in CallsRead(d, T)
    PROVE  WrittenIn(d, x, C)
  <1>1. PICK c \in 1 .. Len(T) : T[c].kind = "call" /\ x = CallAt(d, T, c)
    BY DEF CallsRead
  <1>2. PICK w \in C : T[c].v = w.name /\ ArgsAfter(T, c, ToSet(w.args), LeftOpen(w))
    BY <1>1 DEF Says
  <1> DEFINE B == SubSeq(T, c + 1, BodyEnd(d, T, c) - 1)
             left == Left(d, T, BodyEnd(d, T, c))
  <1>3. BodyOf(d, B, ToSet(w.args), LeftOpen(w))
    BY <1>1, <1>2, BodyIsOf
  <1>4. x.name = T[c].v /\ x.args = ReadArgs(d, B, left)
    BY <1>1 DEF CallAt
  <1>6. LeftBy(d, left)
    <2>1. Mark("opener", "") \in Fragments /\ Mark("/calls", "") \in Fragments
      BY DEF Fragments
    <2> QED BY <2>1 DEF LeftBy, Left, InvokeDialects
  <1> HIDE DEF B, left
  <1>5. ReadArgs(d, B, left) \in Seq(ArgsRead(d, ToSet(w.args), LeftOpen(w)))
    BY <1>3, <1>6, ArgsAreRead
  <1> QED BY <1>2, <1>4, <1>5 DEF WrittenIn

-----------------------------------------------------------------------------
(* What the adapters make of it *)

\* The kinds of marks that end a value.
Ends(r) == CASE r.dialect = "function" -> Marks
             [] r.dialect = "arg_key"  -> {"call", "/call"}
             [] OTHER                  -> {}

\* A value that begins with a text, and with markup after it if the server left some.
LEMMA StripsToText ==
    ASSUME NEW r, NEW T, NEW value \in Seq(T), Len(value) # 0, value[1].kind = "text",
           Len(value) = 1 \/ (r.dialect = "function" /\ value[2].kind \in Marks)
    PROVE  StripTail(r, value) = <<value[1]>>
  <1> DEFINE K == Ends(r)
  <1>1. K \subseteq Marks /\ (r.dialect = "function" => K = Marks)
    BY DEF Marks, Ends
  <1>2. StripTail(r, value) = SubSeq(value, 1, FirstOf(value, 1, K) - 1)
    BY DEF StripTail, Ends
  <1> HIDE DEF K
  <1>3. value[1].kind \notin K
    BY <1>1 DEF Marks
  <1>4. Len(value) \in Nat /\ 1 \in 1 .. (Len(value) + 1) /\ 2 \in 1 .. (Len(value) + 1) /\ 1 \in 1 .. Len(value)
    OBVIOUS
  <1>5. 2 <= Len(value) => value[2].kind \in K
    BY <1>1, <1>4
  <1>6. \A j \in 1 .. (2 - 1) : value[j].kind \notin K
    BY <1>3
  <1>7. FirstOf(value, 1, K) = 2
    BY <1>4, <1>5, <1>6, FirstIsAt
  <1>8. SubSeq(value, 1, 1) = <<value[1]>>
    BY <1>4, OneOfText
  <1>9. FirstOf(value, 1, K) - 1 = 1
    BY <1>7
  <1>10. StripTail(r, value) = SubSeq(value, 1, 1)
    BY <1>2, <1>9
  <1> QED BY <1>8, <1>10

\* The invoke dialects strip nothing.
LEMMA NothingIsStripped ==
    ASSUME NEW r, r.dialect \in InvokeDialects, NEW T, NEW value \in Seq(T)
    PROVE  StripTail(r, value) = value
  <1> DEFINE n == Len(value)
  <1>1. Ends(r) = {}
    BY DEF Ends, InvokeDialects
  <1>2. StripTail(r, value) = SubSeq(value, 1, FirstOf(value, 1, {}) - 1)
    BY <1>1 DEF StripTail, Ends
  <1>3. n \in Nat /\ 1 \in 1 .. (n + 1) /\ n + 1 \in 1 .. (n + 1) /\ ~ (n + 1 <= n) /\ (n + 1) - 1 = n
    OBVIOUS
  <1>4. FirstOf(value, 1, {}) = n + 1
    <2> DEFINE K == {}
    <2>1. \A k \in 1 .. ((n + 1) - 1) : value[k].kind \notin K
      OBVIOUS
    <2>2. n + 1 <= n => value[n + 1].kind \in K
      BY <1>3
    <2> HIDE DEF K
    <2>3. FirstOf(value, 1, K) = n + 1
      BY <1>3, <2>1, <2>2, FirstIsAt
    <2> QED BY <2>3 DEF K
  <1>5. SubSeq(value, 1, n) = value
    OBVIOUS
  <1> QED BY <1>2, <1>3, <1>4, <1>5

\* A value an argument of a call may have.
Reads(r, w, b, key, value) ==
    /\ key = b.key
    /\ \/ value = <<Mark("text", b.text)>>
       \/ /\ r.dialect \in InvokeDialects /\ b \in LeftOpen(w)
          /\ \E m \in {"opener", "/calls"} : value = <<Mark("text", b.text), Mark(m, "")>>

\* A call whose arguments are those of a written one once they are stripped.
Honest(r, x) ==
    \E w \in ToSet(r.calls) :
        /\ x.name = w.name
        /\ \A j \in DOMAIN x.args : \E b \in ToSet(w.args) :
              Reads(r, w, b, x.args[j].key, StripTail(r, x.args[j].value))

\* The call a reply says.
AsWritten(r, x) ==
    \E w \in ToSet(r.calls) :
        /\ x.name = w.name
        /\ \A a \in ToSet(x.args) : \E b \in ToSet(w.args) : Reads(r, w, b, a.key, a.value)

\* sanitizeArgs leaves calls as they were written.
LEMMA SanitizedAreWritten ==
    ASSUME NEW r, NEW calls, \A i \in DOMAIN calls : Honest(r, calls[i])
    PROVE  \A x \in ToSet(SanitizeArgs(r, calls)) : AsWritten(r, x)
  <1> DEFINE clean(i) == [name |-> calls[i].name,
                          args |-> [j \in DOMAIN calls[i].args |->
                                       [key   |-> calls[i].args[j].key,
                                        value |-> StripTail(r, calls[i].args[j].value)]]]
  <1>1. SanitizeArgs(r, calls) = [i \in DOMAIN calls |-> clean(i)]
    BY DEF SanitizeArgs
  <1>2. ASSUME NEW i \in DOMAIN calls PROVE AsWritten(r, clean(i))
    <2>1. PICK w \in ToSet(r.calls) :
              /\ calls[i].name = w.name
              /\ \A j \in DOMAIN calls[i].args : \E b \in ToSet(w.args) :
                    Reads(r, w, b, calls[i].args[j].key, StripTail(r, calls[i].args[j].value))
      BY DEF Honest
    <2> DEFINE x == clean(i)
    <2>2. x.name = calls[i].name /\ DOMAIN x.args = DOMAIN calls[i].args
          /\ \A j \in DOMAIN calls[i].args : /\ x.args[j].key = calls[i].args[j].key
                                            /\ x.args[j].value = StripTail(r, calls[i].args[j].value)
      OBVIOUS
    <2> HIDE DEF x
    <2>3. ASSUME NEW a \in ToSet(x.args)
          PROVE  \E b \in ToSet(w.args) : Reads(r, w, b, a.key, a.value)
      <3>1. PICK j \in DOMAIN x.args : a = x.args[j]
        BY DEF ToSet
      <3> QED BY <2>1, <2>2, <3>1
    <2>4. AsWritten(r, x)
      BY <2>1, <2>2, <2>3 DEF AsWritten
    <2> QED BY <2>4 DEF x
  <1> HIDE DEF clean
  <1>3. ASSUME NEW x \in ToSet(SanitizeArgs(r, calls)) PROVE AsWritten(r, x)
    <2>1. PICK i \in DOMAIN calls : x = clean(i)
      BY <1>1 DEF ToSet
    <2> QED BY <1>2, <2>1
  <1> QED BY <1>3

\* It drops none.
LEMMA SanitizedAreAsMany ==
    ASSUME NEW r, NEW R, NEW calls \in Seq(R), SanitizeArgs(r, calls) = <<>>
    PROVE  calls = <<>>
  <1>1. DOMAIN SanitizeArgs(r, calls) = DOMAIN calls
    BY DEF SanitizeArgs
  <1>2. DOMAIN calls = {}
    BY <1>1
  <1>3. Len(calls) = 0
    BY <1>2
  <1> QED BY <1>3

\* The text of an argument that was written, by itself.
LEMMA TextStays ==
    ASSUME NEW r, NEW b
    PROVE  StripTail(r, <<Mark("text", b.text)>>) = <<Mark("text", b.text)>>
  <1> DEFINE m == Mark("text", b.text)
             v == <<m>>
  <1>1. m.kind = "text"
    BY DEF Mark
  <1> HIDE DEF m
  <1>2. v \in Seq({m}) /\ Len(v) = 1 /\ Len(v) # 0 /\ v[1] = m
    OBVIOUS
  <1>3. StripTail(r, v) = <<v[1]>>
    <2> HIDE DEF v
    <2> QED BY <1>1, <1>2, StripsToText
  <1> QED BY <1>2, <1>3 DEF m

\* Nor is an argument of the invoke dialects stripped of the fragment it keeps.
LEMMA FragmentStays ==
    ASSUME NEW r, r.dialect \in InvokeDialects, NEW b, NEW m
    PROVE  StripTail(r, <<Mark("text", b.text), m>>) = <<Mark("text", b.text), m>>
  <1> DEFINE t == Mark("text", b.text)
             v == <<t, m>>
  <1> HIDE DEF t
  <1>1. v \in Seq({t, m})
    OBVIOUS
  <1> HIDE DEF v
  <1>2. StripTail(r, v) = v
    BY <1>1, NothingIsStripped
  <1> QED BY <1>2 DEF v, t

\* A call that is read as it was written needs no stripping.
LEMMA WrittenIsHonest ==
    ASSUME NEW r, NEW x, WrittenIn(r.dialect, x, ToSet(r.calls))
    PROVE  Honest(r, x)
  <1>1. PICK w \in ToSet(r.calls) :
            x.name = w.name /\ x.args \in Seq(ArgsRead(r.dialect, ToSet(w.args), LeftOpen(w)))
    BY DEF WrittenIn
  <1>2. ASSUME NEW j \in DOMAIN x.args
        PROVE  \E b \in ToSet(w.args) : Reads(r, w, b, x.args[j].key, StripTail(r, x.args[j].value))
    <2>1. x.args[j] \in ArgsRead(r.dialect, ToSet(w.args), LeftOpen(w))
      BY <1>1
    <2>2. CASE x.args[j] \in Whole(ToSet(w.args))
      <3>1. PICK b \in ToSet(w.args) : x.args[j] = [key |-> b.key, value |-> <<Mark("text", b.text)>>]
        BY <2>2 DEF Whole
      <3>2. x.args[j].key = b.key /\ x.args[j].value = <<Mark("text", b.text)>>
        BY <3>1
      <3> QED BY <3>2, TextStays DEF Reads
    <2>3. CASE r.dialect \in InvokeDialects /\ x.args[j] \in Frayed(LeftOpen(w))
      <3>1. PICK b \in LeftOpen(w), m \in Fragments :
                x.args[j] = [key |-> b.key, value |-> <<Mark("text", b.text), m>>]
        BY <2>3 DEF Frayed
      <3>2. x.args[j].key = b.key /\ x.args[j].value = <<Mark("text", b.text), m>>
        BY <3>1
      <3>3. StripTail(r, x.args[j].value) = <<Mark("text", b.text), m>>
        BY <2>3, <3>2, FragmentStays
      <3>4. b \in ToSet(w.args)
        BY DEF LeftOpen
      <3>5. PICK k \in {"opener", "/calls"} : m = Mark(k, "")
        BY DEF Fragments
      <3>6. Reads(r, w, b, x.args[j].key, StripTail(r, x.args[j].value))
        BY <2>3, <3>2, <3>3, <3>5 DEF Reads
      <3> QED BY <3>4, <3>6
    <2> QED BY <2>1, <2>2, <2>3 DEF ArgsRead
  <1> QED BY <1>1, <1>2 DEF Honest

\* What the dialects of the text read.
LEMMA TextIsRead ==
    ASSUME NEW r \in Replies, r.dialect \in MarkupDialects
    PROVE  /\ ReadCalls(r.dialect, ReplyText(r)) \in Seq(CallsRead(r.dialect, ReplyText(r)))
           /\ (r.dialect \in {"arg_key", "xml"} => OnlyTheEndIsMissing(r)) =>
                \A i \in DOMAIN ReadCalls(r.dialect, ReplyText(r)) :
                    Honest(r, ReadCalls(r.dialect, ReplyText(r))[i])
  <1> DEFINE d == r.dialect
             T == ReplyText(r)
             calls == ReadCalls(d, T)
  <1>1. T \in Seq(Tokens) /\ Says(T, ToSet(r.calls)) /\ (OnlyTheEndIsMissing(r) => Tidy(T))
    BY ReplySays
  <1> HIDE DEF T
  <1>2. calls \in Seq(CallsRead(d, T))
    BY <1>1, CallsAreRead
  <1> HIDE DEF calls
  <1>3. ASSUME d \in {"arg_key", "xml"} => OnlyTheEndIsMissing(r), NEW i \in DOMAIN calls
        PROVE  Honest(r, calls[i])
    <2>1. calls[i] \in CallsRead(d, T)
      BY <1>2
    <2>2. WrittenIn(d, calls[i], ToSet(r.calls))
      BY <1>1, <1>3, <2>1, ReadAsWritten
    <2> QED BY <2>2, WrittenIsHonest
  <1> QED BY <1>2, <1>3 DEF T, calls

\* What JSON is read as.
LEMMA JsonIsRead ==
    ASSUME NEW r \in Replies
    PROVE  /\ \E R : ReadJson(r) \in Seq(R)
           /\ \A i \in DOMAIN ReadJson(r) : Honest(r, ReadJson(r)[i])
  <1> DEFINE whole == [i \in DOMAIN r.calls |->
                        Mark(IF r.calls[i].closed /\ \A j \in DOMAIN r.calls[i].args : r.calls[i].args[j].closed
                             THEN "whole" ELSE "cut", "")]
             n == FirstOf(whole, 1, {"cut"})
             of(c) == [name |-> c.name,
                       args |-> [j \in DOMAIN c.args |->
                                    [key |-> c.args[j].key, value |-> <<Mark("text", c.args[j].text)>>]]]
  <1>1. r.calls \in Seq(ToSet(r.calls)) /\ DOMAIN r.calls = 1 .. Len(r.calls) /\ Len(r.calls) \in Nat
        /\ \A i \in DOMAIN r.calls : r.calls[i] \in ToSet(r.calls) /\ r.calls[i] \in Written
    BY RepliesHaveCalls
  <1>2. Len(whole) = Len(r.calls) /\ 1 \in 1 .. (Len(whole) + 1) /\ Len(whole) \in Nat
    BY <1>1
  <1> HIDE DEF whole
  <1>3. n \in 1 .. (Len(r.calls) + 1)
    BY <1>2, FirstIs
  <1>4. ReadJson(r) = [i \in 1 .. n - 1 |-> of(r.calls[i])]
    BY DEF ReadJson, whole
  <1>5. \A i \in 1 .. n - 1 : i \in DOMAIN r.calls
    BY <1>1, <1>3
  <1> HIDE DEF n
  <1>6. ASSUME NEW c \in ToSet(r.calls), c \in Written PROVE Honest(r, of(c))
    <2> DEFINE x == of(c)
    <2>1. x.name = c.name /\ DOMAIN x.args = DOMAIN c.args
          /\ \A j \in DOMAIN c.args : /\ x.args[j].key = c.args[j].key
                                      /\ x.args[j].value = <<Mark("text", c.args[j].text)>>
      OBVIOUS
    <2> HIDE DEF x
    <2>2. ASSUME NEW j \in DOMAIN x.args
          PROVE  \E b \in ToSet(c.args) : Reads(r, c, b, x.args[j].key, StripTail(r, x.args[j].value))
      <3>1. c.args[j] \in ToSet(c.args)
        BY <2>1 DEF ToSet
      <3>2. StripTail(r, <<Mark("text", c.args[j].text)>>) = <<Mark("text", c.args[j].text)>>
        BY TextStays
      <3>3. Reads(r, c, c.args[j], x.args[j].key, StripTail(r, x.args[j].value))
        BY <2>1, <3>2 DEF Reads
      <3> QED BY <3>1, <3>3
    <2>3. Honest(r, x)
      BY <2>1, <2>2 DEF Honest
    <2> QED BY <2>3 DEF x
  <1> HIDE DEF of
  <1>7. \A i \in DOMAIN ReadJson(r) : Honest(r, ReadJson(r)[i])
    BY <1>1, <1>4, <1>5, <1>6
  <1>8. \E R : ReadJson(r) \in Seq(R)
    <2> DEFINE j == ReadJson(r)
               R == {j[i] : i \in 1 .. n - 1}
    <2>1. j = [i \in 1 .. n - 1 |-> j[i]]
      BY <1>4
    <2>2. n - 1 \in Nat /\ \A i \in 1 .. n - 1 : j[i] \in R
      BY <1>3
    <2> HIDE DEF j, R
    <2>3. j \in [1 .. n - 1 -> R]
      BY <2>1, <2>2
    <2>4. j \in Seq(R)
      BY <2>2, <2>3
    <2> QED BY <2>4 DEF j
  <1> QED BY <1>7, <1>8

\* What the server left after the last argument begins with a mark.
LEMMA RestIsText ==
    ASSUME NEW r \in Replies, r.calls # <<>>
    PROVE  FlattenSeq([i \in 1 .. Len(r.calls) - 1 |-> CallText(r.calls[i + 1])]) \in Seq(Tokens)
  <1> DEFINE n == Len(r.calls) - 1
             seqs == [i \in 1 .. n |-> CallText(r.calls[i + 1])]
             S == Seq(Tokens)
             G == [i \in 1 .. n |-> S]
  <1>1. r.calls \in Seq(ToSet(r.calls)) /\ DOMAIN r.calls = 1 .. Len(r.calls) /\ Len(r.calls) \in Nat
        /\ \A i \in DOMAIN r.calls : r.calls[i] \in Written
    BY RepliesHaveCalls
  <1>2. Len(r.calls) # 0
    BY <1>1
  <1>3. n \in Nat /\ \A i \in 1 .. n : i + 1 \in DOMAIN r.calls
    BY <1>1, <1>2
  <1>4. \A i \in 1 .. n : seqs[i] \in S
    BY <1>1, <1>3, CallIsWritten DEF CallWritten
  <1>5. seqs = [i \in 1 .. n |-> seqs[i]]
    OBVIOUS
  <1> HIDE DEF seqs, n
  <1>6. seqs \in Seq(S) /\ Len(seqs) = n
    <2> HIDE DEF S
    <2>1. seqs \in [1 .. n -> S]
      BY <1>4, <1>5
    <2> QED BY <1>3, <2>1
  <1>7. CASE n = 0
    <2>1. FlattenSeq(seqs) = seqs
      BY <1>6, <1>7 DEF FlattenSeq
    <2>2. seqs = <<>>
      <3> HIDE DEF S
      <3> QED BY <1>6, <1>7
    <2>3. <<>> \in Seq(Tokens)
      OBVIOUS
    <2> QED BY <2>1, <2>2, <2>3 DEF seqs, n
  <1>8. CASE n # 0
    <2>1. 1 \in 1 .. n /\ n \in 1 .. n
      BY <1>3, <1>8
    <2>2. seqs[1] \in G[1]
      BY <1>4, <2>1
    <2>3. ASSUME NEW i \in 1 .. (n - 1), NEW s \in G[i] PROVE s \o seqs[i + 1] \in G[i + 1]
      <3>1. i \in 1 .. n /\ i + 1 \in 1 .. n
        BY <1>3
      <3>2. s \in Seq(Tokens) /\ seqs[i + 1] \in Seq(Tokens)
        BY <1>4, <2>3, <3>1
      <3>3. s \o seqs[i + 1] \in Seq(Tokens)
        <4> HIDE DEF Tokens
        <4> QED BY <3>2
      <3> QED BY <3>1, <3>3
    <2>4. G[n] = S
      BY <2>1
    <2>5. seqs \in Seq(Seq(Tokens))
      BY <1>6
    <2> HIDE DEF G
    <2>6. FlattenSeq(seqs) \in G[n]
      <3> HIDE DEF Tokens
      <3> QED BY <1>3, <1>6, <1>8, <2>2, <2>3, <2>5, FlatteningHolds
    <2> QED BY <2>4, <2>6 DEF seqs, n
  <1> QED BY <1>7, <1>8

\* What follows a value that the server took: nothing, or the markup of the rest.
TailIs(r, tail) ==
    tail \in Seq(Tokens) /\ (Len(tail) = 0 \/ (r.dialect = "function" /\ tail[1].kind \in Marks))

\* A call of the server, stripped of what it left in the last value.
LEMMA NativeCallIs ==
    ASSUME NEW r \in Replies, NEW c \in Written, c \in ToSet(r.calls), NEW tail, TailIs(r, tail)
    PROVE  Honest(r, NativeCall(c, tail))
  <1> DEFINE value(j) == <<Mark("text", c.args[j].text)>> \o IF j = Len(c.args) THEN tail ELSE <<>>
             x == NativeCall(c, tail)
  <1>3. c.args \in Seq(ToSet(c.args))
    BY CallsAre
  <1>4. \A j \in DOMAIN c.args : c.args[j] \in ToSet(c.args)
    BY DEF ToSet
  <1>7. tail \in Seq(Tokens) /\ (Len(tail) = 0 \/ (r.dialect = "function" /\ tail[1].kind \in Marks))
    BY DEF TailIs
  <1>8. ASSUME NEW j \in DOMAIN c.args PROVE StripTail(r, value(j)) = <<Mark("text", c.args[j].text)>>
    <2> DEFINE m == Mark("text", c.args[j].text)
               h == <<m>>
               s == IF j = Len(c.args) THEN tail ELSE <<>>
               v == h \o s
    <2>1. m \in Tokens /\ m.kind = "text"
      <3>1. "text" \in Marks \cup {"text"} /\ c.args[j].text \in Word
        BY <1>4, WordsAre
      <3> QED BY <3>1, MarksAre
    <2> HIDE DEF m
    <2>2. h \in Seq(Tokens) /\ Len(h) = 1 /\ h[1] = m
      BY <2>1
    <2>3. s \in Seq(Tokens) /\ (Len(s) = 0 \/ (r.dialect = "function" /\ s[1].kind \in Marks))
      <3>1. <<>> \in Seq(Tokens) /\ Len(<<>>) = 0
        OBVIOUS
      <3>2. s = tail \/ s = <<>>
        OBVIOUS
      <3> HIDE DEF s
      <3> QED BY <1>7, <3>1, <3>2
    <2> HIDE DEF h, s
    <2>4. Then(Tokens, v, h, s)
      BY <2>2, <2>3, Joining
    <2>5. value(j) = v
      BY DEF m, h, s
    <2> HIDE DEF v, value
    <2>6. v \in Seq(Tokens) /\ Len(v) = 1 + Len(s) /\ Len(s) \in Nat /\ v[1] = m
      <3>1. 1 \in 1 .. Len(h)
        BY <2>2
      <3>2. Len(s) \in Nat
        BY <2>3
      <3> QED BY <2>2, <2>4, <3>1, <3>2 DEF Then
    <2>7. Len(s) # 0 => r.dialect = "function" /\ v[2].kind \in Marks
      <3> SUFFICES ASSUME Len(s) # 0 PROVE r.dialect = "function" /\ v[2].kind \in Marks
        OBVIOUS
      <3>1. 1 \in 1 .. Len(s) /\ Len(h) + 1 = 2
        BY <2>2, <2>6
      <3>2. v[Len(h) + 1] = s[1]
        BY <2>4, <3>1 DEF Then
      <3> QED BY <2>3, <3>1, <3>2
    <2>8. Len(v) # 0 /\ (Len(v) = 1 \/ (r.dialect = "function" /\ v[2].kind \in Marks))
      BY <2>6, <2>7
    <2>9. StripTail(r, v) = <<v[1]>>
      BY <2>1, <2>6, <2>8, StripsToText
    <2> QED BY <2>5, <2>6, <2>9 DEF m
  <1>9. /\ x.name = c.name /\ DOMAIN x.args = DOMAIN c.args
        /\ \A j \in DOMAIN c.args : x.args[j].key = c.args[j].key /\ x.args[j].value = value(j)
    BY DEF NativeCall
  <1> HIDE DEF x, value
  <1>10. ASSUME NEW j \in DOMAIN x.args
         PROVE  \E b \in ToSet(c.args) : Reads(r, c, b, x.args[j].key, StripTail(r, x.args[j].value))
    <2>1. Reads(r, c, c.args[j], x.args[j].key, StripTail(r, x.args[j].value))
      BY <1>8, <1>9 DEF Reads
    <2> QED BY <1>4, <1>9, <2>1
  <1>11. Honest(r, x)
    BY <1>9, <1>10 DEF Honest
  <1> QED BY <1>11 DEF x

\* The calls of the server.
LEMMA NativeIsRead ==
    ASSUME NEW r \in Replies, r.server # "text"
    PROVE  /\ \E R : ReadNative(r) \in Seq(R)
           /\ ReadNative(r) # <<>>
           /\ \A i \in DOMAIN ReadNative(r) : Honest(r, ReadNative(r)[i])
  <1> DEFINE x == ReadNative(r)
             c == r.calls[1]
             rest == FlattenSeq([i \in 1 .. Len(r.calls) - 1 |-> CallText(r.calls[i + 1])])
             more == IF c.args = <<>> \/ c.args[Len(c.args)].closed THEN <<>> ELSE <<Mark("/call", "")>> \o rest
  <1>1. r.calls # <<>> /\ (r.server = "folds" => r.dialect = "function")
    BY DialectAssumption
  <1>2. r.calls \in Seq(ToSet(r.calls)) /\ DOMAIN r.calls = 1 .. Len(r.calls) /\ Len(r.calls) \in Nat
        /\ \A i \in DOMAIN r.calls : r.calls[i] \in ToSet(r.calls) /\ r.calls[i] \in Written
    BY RepliesHaveCalls
  <1>3. <<>> \in Seq(Tokens) /\ Len(<<>>) = 0
    OBVIOUS
  <1>4. CASE r.server = "folds"
    <2>1. c \in Written /\ c \in ToSet(r.calls)
      <3>1. 1 \in DOMAIN r.calls
        BY <1>1, <1>2
      <3> QED BY <1>2, <3>1
    <2>2. x = <<NativeCall(c, more)>>
      BY <1>4 DEF ReadNative
    <2>3. rest \in Seq(Tokens)
      BY <1>1, RestIsText
    <2> HIDE DEF rest, c
    <2>4. Mark("/call", "") \in Tokens /\ Mark("/call", "").kind \in Marks
      <3>1. "/call" \in Marks \cup {"text"} /\ "" \in Word /\ "/call" \in Marks
        BY DEF Word, Marks
      <3> QED BY <3>1, MarksAre
    <2>5. more \in Seq(Tokens) /\ (Len(more) = 0 \/ more[1].kind \in Marks)
      <3> DEFINE e == Mark("/call", "")
                 h == <<e>>
                 t == h \o rest
      <3>2. e \in Tokens /\ e.kind \in Marks
        BY <2>4
      <3>3. more = <<>> \/ more = t
        OBVIOUS
      <3> HIDE DEF e
      <3>1. h \in Seq(Tokens) /\ Len(h) = 1 /\ h[1] = e
        BY <3>2
      <3> HIDE DEF h, more
      <3>4. Then(Tokens, t, h, rest)
        BY <2>3, <3>1, Joining
      <3> HIDE DEF t
      <3>5. t \in Seq(Tokens) /\ t[1] = e
        <4>1. 1 \in 1 .. Len(h)
          BY <3>1
        <4> QED BY <3>1, <3>4, <4>1 DEF Then
      <3> QED BY <1>3, <3>2, <3>3, <3>5
    <2> HIDE DEF more, x
    <2>6. TailIs(r, more)
      BY <1>1, <1>4, <2>5 DEF TailIs
    <2> DEFINE y == NativeCall(c, more)
    <2>7. Honest(r, y)
      BY <2>1, <2>6, NativeCallIs
    <2>8. x = <<y>>
      BY <2>2
    <2> HIDE DEF y
    <2>9. x \in Seq({y}) /\ x # <<>> /\ \A i \in DOMAIN x : x[i] = y
      BY <2>8
    <2> QED BY <2>7, <2>9 DEF x
  <1>5. CASE r.server # "folds"
    <2>1. x = [i \in DOMAIN r.calls |-> NativeCall(r.calls[i], <<>>)]
      BY <1>5 DEF ReadNative
    <2> HIDE DEF x
    <2>2. TailIs(r, <<>>)
      BY <1>3 DEF TailIs
    <2>3. ASSUME NEW i \in DOMAIN x PROVE Honest(r, x[i])
      <3>1. i \in DOMAIN r.calls /\ x[i] = NativeCall(r.calls[i], <<>>)
        BY <2>1
      <3>2. Honest(r, NativeCall(r.calls[i], <<>>))
        BY <1>2, <2>2, <3>1, NativeCallIs
      <3> QED BY <3>1, <3>2
    <2> DEFINE n == Len(r.calls)
               R == {x[i] : i \in 1 .. n}
    <2>4. x = [i \in 1 .. n |-> x[i]] /\ n \in Nat /\ n # 0
      BY <1>1, <1>2, <2>1
    <2>5. \A i \in 1 .. n : x[i] \in R
      OBVIOUS
    <2> HIDE DEF R, n
    <2>6. x \in [1 .. n -> R]
      BY <2>4, <2>5
    <2>7. x \in Seq(R) /\ DOMAIN x = 1 .. n
      BY <2>4, <2>6
    <2>8. x # <<>>
      BY <2>4, <2>7
    <2> QED BY <2>3, <2>7, <2>8 DEF x
  <1> QED BY <1>4, <1>5

\* What either adapter makes of a reply.
Tolerable(r) == r.dialect \in {"arg_key", "xml"} => OnlyTheEndIsMissing(r)

\* The native adapter: the calls it returns were written, and what it takes for an answer
\* has no call.
LEMMA NativeAdapter ==
    ASSUME NEW r \in Replies
    PROVE  /\ Tolerable(r) => \A x \in ToSet(ParseNative(r).calls) : AsWritten(r, x)
           /\ ParseNative(r).calls = <<>> /\ ~ ParseNative(r).error =>
                 r.calls = <<>> \/ (r.dialect = "json" /\ ReadJson(r) = <<>>)
  <1> DEFINE d == r.dialect
             calls == CASE r.server # "text"          -> ReadNative(r)
                        [] r.server = "text" /\ d = "json" -> ReadJson(r)
                        [] r.server = "text" /\ d \in TextDialects -> ReadCalls(d, ReplyText(r))
                        [] OTHER -> <<>>
             p == ParseNative(r)
  <1>1. p = IF r.server = "breaks" \/ (calls = <<>> /\ LooksLikeToolCall(r)) THEN Unparsed ELSE Parsed(r, calls)
    BY DEF ParseNative
  <1>2. d \in TextDialects \cup {"json", "xml", "prose"} /\ (d = "prose" => r.calls = <<>>)
    BY DialectAssumption
  <1>10. TextDialects \subseteq MarkupDialects /\ "json" \notin TextDialects
         /\ \A t \in TextDialects : t \notin {"json", "xml", "prose"}
    BY DEF TextDialects, InvokeDialects, MarkupDialects
  <1> DEFINE cases == \/ r.server # "text" /\ calls = ReadNative(r)
                      \/ r.server = "text" /\ d = "json" /\ calls = ReadJson(r)
                      \/ r.server = "text" /\ d \in TextDialects /\ calls = ReadCalls(d, ReplyText(r))
                      \/ r.server = "text" /\ d \in {"xml", "prose"} /\ calls = <<>>
  <1>3. cases
    <2>1. CASE r.server # "text"
      BY <2>1
    <2>2. CASE r.server = "text" /\ d = "json"
      BY <2>2, <1>10
    <2>3. CASE r.server = "text" /\ d \in TextDialects
      BY <2>3, <1>10
    <2>4. CASE r.server = "text" /\ d \in {"xml", "prose"}
      BY <2>4, <1>10
    <2> HIDE DEF cases
    <2> QED BY <1>2, <2>1, <2>2, <2>3, <2>4
  <1> HIDE DEF calls, p
  <1>4. \E R : calls \in Seq(R)
    <2>1. CASE r.server # "text" /\ calls = ReadNative(r)
      BY <2>1, NativeIsRead
    <2>2. CASE d = "json" /\ calls = ReadJson(r)
      BY <2>2, JsonIsRead
    <2>3. CASE d \in TextDialects /\ calls = ReadCalls(d, ReplyText(r))
      BY <1>10, <2>3, TextIsRead
    <2>4. CASE calls = <<>>
      <3>1. <<>> \in Seq({})
        OBVIOUS
      <3> QED BY <2>4, <3>1
    <2> QED BY <1>3, <2>1, <2>2, <2>3, <2>4
  <1>5. ASSUME Tolerable(r) PROVE \A i \in DOMAIN calls : Honest(r, calls[i])
    <2>1. CASE r.server # "text" /\ calls = ReadNative(r)
      BY <2>1, NativeIsRead
    <2>2. CASE d = "json" /\ calls = ReadJson(r)
      BY <2>2, JsonIsRead
    <2>3. CASE d \in TextDialects /\ calls = ReadCalls(d, ReplyText(r))
      BY <1>5, <1>10, <2>3, TextIsRead DEF Tolerable
    <2>4. CASE calls = <<>>
      <3>1. DOMAIN calls = {}
        BY <2>4
      <3> QED BY <3>1
    <2> QED BY <1>3, <2>1, <2>2, <2>3, <2>4
  <1>6. p = Unparsed \/ p = Parsed(r, calls)
    BY <1>1
  <1>7. /\ Unparsed.error = TRUE /\ Unparsed.calls = <<>>
        /\ Parsed(r, calls).error = FALSE /\ Parsed(r, calls).calls = SanitizeArgs(r, calls)
    BY DEF Unparsed, Parsed
  <1>8. ASSUME Tolerable(r) PROVE \A x \in ToSet(p.calls) : AsWritten(r, x)
    <2>1. ToSet(<<>>) = {}
      BY DEF ToSet
    <2>2. \A x \in ToSet(SanitizeArgs(r, calls)) : AsWritten(r, x)
      BY <1>5, <1>8, SanitizedAreWritten
    <2> QED BY <1>6, <1>7, <2>1, <2>2
  <1>9. ASSUME p.calls = <<>>, ~ p.error
        PROVE  r.calls = <<>> \/ (d = "json" /\ ReadJson(r) = <<>>)
    <2>1. p = Parsed(r, calls) /\ ~ (calls = <<>> /\ LooksLikeToolCall(r))
      BY <1>1, <1>7, <1>9
    <2>2. SanitizeArgs(r, calls) = <<>>
      BY <1>7, <1>9, <2>1
    <2>3. calls = <<>>
      BY <1>4, <2>2, SanitizedAreAsMany
    <2>4. d \in {"json", "prose"} \/ r.calls = <<>>
      BY <2>1, <2>3 DEF LooksLikeToolCall
    <2>5. r.server # "text" => calls # ReadNative(r)
      BY <2>3, NativeIsRead
    <2>6. d = "json" => r.calls = <<>> \/ ReadJson(r) = <<>>
      BY <1>3, <1>10, <2>3, <2>5
    <2> QED BY <1>2, <2>4, <2>6
  <1> QED BY <1>8, <1>9 DEF p

\* The XML adapter: the calls it returns were written.
LEMMA XmlAdapter ==
    ASSUME NEW r \in Replies, NEW repair, Tolerable(r)
    PROVE  \A x \in ToSet(ParseXml(r, repair).calls) : AsWritten(r, x)
  <1> DEFINE p == ParseXml(r, repair)
             calls == ReadCalls("xml", ReplyText(r))
  <1>1. p = Unparsed \/ (r.dialect # "xml" /\ p = Parsed(r, <<>>)) \/ (r.dialect = "xml" /\ p = Parsed(r, calls))
    BY DEF ParseXml
  <1> HIDE DEF p
  <1>2. ToSet(<<>>) = {} /\ SanitizeArgs(r, <<>>) = <<>>
    <2>1. DOMAIN <<>> = {}
      OBVIOUS
    <2> QED BY <2>1 DEF ToSet, SanitizeArgs
  <1>3. CASE r.dialect = "xml" /\ p = Parsed(r, calls)
    <2>1. \A i \in DOMAIN calls : Honest(r, calls[i])
      <3> HIDE DEF calls
      <3>1. r.dialect \in MarkupDialects
        BY <1>3 DEF MarkupDialects
      <3> QED BY <1>3, <3>1, TextIsRead DEF Tolerable, calls
    <2>2. p.calls = SanitizeArgs(r, calls)
      BY <1>3 DEF Parsed
    <2> HIDE DEF calls
    <2> QED BY <2>1, <2>2, SanitizedAreWritten DEF p
  <1>4. CASE p = Unparsed \/ p = Parsed(r, <<>>)
    <2>1. p.calls = <<>>
      BY <1>2, <1>4 DEF Parsed, Unparsed
    <2> QED BY <1>2, <2>1 DEF p
  <1> QED BY <1>1, <1>3, <1>4

-----------------------------------------------------------------------------
(* The run *)

\* The inductive invariant: a reply that was shown, dispatched or corrected is one of
\* the replies, and it is so understood; before that nothing was read of it.
ReplyInv ==
    /\ verdict # "waiting" => reply \in Replies
    /\ verdict \in {"waiting", "unread"} => got = <<>>
    /\ CallsKeepTheirArgs
    /\ AttemptIsNoAnswer

\* With nothing read there is nothing to keep.
LEMMA NothingRead == ASSUME got = <<>> PROVE CallsKeepTheirArgs
  <1>1. ToSet(<<>>) = {}
    BY DEF ToSet
  <1> QED BY <1>1 DEF CallsKeepTheirArgs

\* Nor after a step that reads nothing.
LEMMA NothingReadYet == ASSUME got' = <<>> PROVE CallsKeepTheirArgs'
  <1>1. ToSet(<<>>) = {}
    BY DEF ToSet
  <1> QED BY <1>1 DEF CallsKeepTheirArgs

\* The invariant holds before the first reply.
LEMMA RepliesBegin == DialectInit => ReplyInv
  <1> SUFFICES ASSUME DialectInit PROVE ReplyInv
    OBVIOUS
  <1>1. verdict = "waiting" /\ got = <<>>
    BY DEF DialectInit
  <1> QED BY <1>1, NothingRead DEF ReplyInv, AttemptIsNoAnswer

\* Every step keeps it.
LEMMA RepliesGoOn == ReplyInv /\ [DialectNext]_dialectVars => ReplyInv'
  <1> SUFFICES ASSUME ReplyInv, [DialectNext]_dialectVars PROVE ReplyInv'
    OBVIOUS
  <1>1. ASSUME NEW r \in Replies, NEW a \in [kind : {"native", "xml"}, repair : BOOLEAN],
               NEW p \in {"gate", "turn"}, Reply(r, a, p)
        PROVE  ReplyInv'
    <2>1. reply' = r /\ verdict' = "unread" /\ got' = <<>>
      BY <1>1 DEF Reply
    <2> QED BY <2>1, NothingReadYet DEF ReplyInv, AttemptIsNoAnswer
  <1>2. CASE ReadAtGate
    <2>1. /\ verdict = "unread" /\ UNCHANGED <<reply, adapter, place, got>>
          /\ verdict' = IF LooksLikeToolCall(reply) \/ (reply.dialect = "json" /\ ReadJson(reply) # <<>>)
                        THEN "run" ELSE "answer"
      BY <1>2 DEF ReadAtGate
    <2>2. reply \in Replies /\ got' = <<>> /\ verdict' \in {"run", "answer"}
      BY <2>1 DEF ReplyInv
    <2>3. verdict' = "answer" => reply.calls = <<>> \/ (reply.dialect = "json" /\ ReadJson(reply) = <<>>)
      <3> SUFFICES ASSUME verdict' = "answer", reply.calls # <<>>
                   PROVE  reply.dialect = "json" /\ ReadJson(reply) = <<>>
        OBVIOUS
      <3>1. ~ LooksLikeToolCall(reply) /\ ~ (reply.dialect = "json" /\ ReadJson(reply) # <<>>)
        BY <2>1
      <3>2. reply.dialect \in {"json", "prose"}
        BY <3>1 DEF LooksLikeToolCall
      <3>3. reply.dialect # "prose"
        BY <2>2, DialectAssumption
      <3> QED BY <3>1, <3>2, <3>3
    <2>4. AttemptIsNoAnswer'
      BY <2>1, <2>3 DEF AttemptIsNoAnswer
    <2> QED BY <2>1, <2>2, <2>4, NothingReadYet DEF ReplyInv
  <1>3. CASE ReadInTurn
    <2> DEFINE p == ParseAll(adapter, reply)
    <2>1. /\ verdict = "unread" /\ place = "turn" /\ UNCHANGED <<reply, adapter, place>> /\ got' = p.calls
          /\ verdict' = IF p.error THEN "corrective" ELSE IF p.calls = <<>> THEN "answer" ELSE "dispatch"
      BY <1>3 DEF ReadInTurn
    <2>2. reply \in Replies /\ verdict' \notin {"waiting", "unread"}
      BY <2>1 DEF ReplyInv
    <2>3. Tolerable(reply) => \A x \in ToSet(p.calls) : AsWritten(reply, x)
      BY <2>2, NativeAdapter, XmlAdapter DEF ParseAll
    <2>4. CallsKeepTheirArgs'
      BY <2>1, <2>3 DEF CallsKeepTheirArgs, Tolerable, AsWritten, Reads
    <2>5. ASSUME verdict' = "answer", adapter.kind = "native"
          PROVE  reply.calls = <<>> \/ (reply.dialect = "json" /\ ReadJson(reply) = <<>>)
      <3>1. ~ p.error /\ p.calls = <<>> /\ p = ParseNative(reply)
        BY <2>1, <2>5 DEF ParseAll
      <3> HIDE DEF p
      <3> QED BY <2>2, <3>1, NativeAdapter
    <2>6. AttemptIsNoAnswer'
      BY <2>1, <2>5 DEF AttemptIsNoAnswer
    <2> QED BY <2>1, <2>2, <2>4, <2>6 DEF ReplyInv
  <1>4. CASE UNCHANGED dialectVars
    BY <1>4 DEF ReplyInv, CallsKeepTheirArgs, AttemptIsNoAnswer, dialectVars
  <1> QED BY <1>1, <1>2, <1>3, <1>4 DEF DialectNext

\* Whatever the replies, in whatever dialect and with whichever marks forgotten (in
\* the arg_key and xml dialects as long as only the end of the reply is missing), a
\* call that is dispatched is one the model wrote, with the arguments it wrote, but
\* for what an argument of the invoke dialects that nothing ends may keep; and no
\* attempt at a call is shown as an answer.
THEOREM RepliesAreUnderstood == DialectSpec => []RepliesAreRead
  <1>1. ReplyInv => RepliesAreRead
    BY DEF ReplyInv, RepliesAreRead
  <1> QED BY <1>1, RepliesBegin, RepliesGoOn, PTL DEF DialectSpec
=============================================================================
