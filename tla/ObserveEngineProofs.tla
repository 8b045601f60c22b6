------------------------- MODULE ObserveEngineProofs -------------------------
(***************************************************************************)
(* For any number of attempts, any refusals and any facts to look for: the *)
(* client is patient, and the engine keeps the promise of rgd observe.     *)
(***************************************************************************)
EXTENDS ObserveEngine, FiniteSetTheorems, TLAPS

Answers ==
  [status : {0, 200, 403, 429, 502}, text : BOOLEAN, body : {"good", "bad"},
   after : Nat \cup {NoHeader}, remaining : {"some", "absent", "0"}, reset : Nat \cup {NoHeader}]

Calls ==
  [at : {"idle", "sent", "answered", "asleep", "returned"}, attempt : 0 .. MaxAttempts - 1,
   backoff : Nat \ {0}, wait : Nat, answer : Answers,
   err : {"none", "lost", "limited", "refused", "undecodable"}]

ClientTypeOK ==
  /\ call \in Calls /\ window \in Nat /\ troubles \in Nat
  /\ call.at = "asleep" => ~ LastAttempt

Suffered(n) == troubles >= n \/ troubles >= MaxAttempts
Delay       == RetryAfterDelay(call.answer, call.backoff)

\* Attempts that are over were a trouble each, and one is going on if GitHub still
\* refuses when the client is ready to ask again.
TroubleInv ==
  /\ call.at = "sent" =>
       Suffered(IF window > 0 THEN call.attempt + 1 ELSE call.attempt)
  /\ call.at = "answered" /\ call.answer.status = 0 =>
       Suffered(IF window > 0 THEN call.attempt + 2 ELSE call.attempt + 1)
  /\ call.at = "answered" /\ RateLimited(call.answer) =>
       Suffered(IF window > Delay THEN call.attempt + 2 ELSE call.attempt + 1)
  /\ call.at = "asleep" =>
       Suffered(IF window > call.wait THEN call.attempt + 2 ELSE call.attempt + 1)
  /\ PatienceIsEnough

ClientInv == ClientTypeOK /\ TroubleInv
-----------------------------------------------------------------------------
LEMMA InitClient == ClientInit => ClientInv
  <1> SUFFICES ASSUME ClientInit PROVE ClientInv
    OBVIOUS
  <1>1. Idle \in Calls
    BY ClientAssumption DEF Idle, Calls, NoAnswer, Plain, Headed, Answers
  <1>2. ClientTypeOK
    BY <1>1 DEF ClientInit, ClientTypeOK, Idle
  <1>3. TroubleInv
    BY DEF ClientInit, TroubleInv, Idle, PatienceIsEnough
  <1>4. QED  BY <1>2, <1>3 DEF ClientInv

LEMMA PlainFacts ==
  ASSUME NEW status \in {0, 200, 403, 429, 502}
  PROVE  /\ Plain(status) \in Answers /\ Plain(status).status = status
         /\ Plain(status).text = FALSE
         /\ Plain(status).after = NoHeader /\ Plain(status).reset = NoHeader
  BY DEF Plain, Headed, Answers, NoHeader

LEMMA DelayFacts ==
  ASSUME NEW a \in Answers, NEW b \in Nat \ {0}
  PROVE  RetryAfterDelay(a, b) \in Nat \ {0}
  BY DEF RetryAfterDelay, Answers, NoHeader

\* One trouble more.
LEMMA TroubleFacts ==
  ASSUME ClientTypeOK, Trouble
  PROVE  /\ troubles' \in Nat
         /\ \A n \in Nat : Suffered(n) => Suffered(n + 1)' /\ Suffered(n)'
  BY ClientAssumption DEF ClientTypeOK, Trouble, Suffered

LEMMA RequestKept ==
  ASSUME ClientInv, Request
  PROVE  ClientInv'
  <1>1. call' = [Idle EXCEPT !.at = "sent"] /\ Idle \in Calls
    BY ClientAssumption DEF Request, Idle, Calls, NoAnswer, Plain, Headed, Answers
  <1>2. call'.at = "sent" /\ call'.attempt = 0 /\ call' \in Calls
    BY <1>1 DEF Idle, Calls
  <1>3. QED  BY <1>2, ClientAssumption
             DEF ClientInv, Request, ClientTypeOK, TroubleInv, PatienceIsEnough, Suffered

LEMMA AnnouncementFacts ==
  ASSUME window \in Nat \ {0}, NEW a \in Announcements
  PROVE  /\ a \in Answers /\ a.status # 0
         /\ \A b : RetryAfterDelay(a, b) = window
  <1>1. CASE a = Headed(429, window, "some", NoHeader)
    <2>1. a \in Answers /\ a.status = 429 /\ a.after = window
      BY <1>1 DEF Headed, Answers
    <2>2. QED  BY <2>1 DEF RetryAfterDelay
  <1>2. CASE a = Headed(429, NoHeader, "absent", window)
    <2>1. /\ a \in Answers /\ a.status = 429
          /\ a.after = -1 /\ a.remaining = "absent" /\ a.reset = window
      BY <1>2 DEF Headed, Answers, NoHeader
    <2>2. QED  BY <2>1 DEF RetryAfterDelay
  <1>3. CASE a = Headed(403, window, "0", window)
    <2>1. a \in Answers /\ a.status = 403 /\ a.after = window
      BY <1>3 DEF Headed, Answers
    <2>2. QED  BY <2>1 DEF RetryAfterDelay
  <1>4. CASE a = Secondary("0", window)
    <2>1. /\ a \in Answers /\ a.status = 403
          /\ a.after = -1 /\ a.remaining = "0" /\ a.reset = window
      BY <1>4 DEF Secondary, Answers, NoHeader
    <2>2. QED  BY <2>1 DEF RetryAfterDelay
  <1>5. QED  BY <1>1, <1>2, <1>3, <1>4 DEF Announcements

LEMMA UnannouncedFacts ==
  ASSUME NEW a \in Unannounced
  PROVE  a \in Answers /\ a.status # 0
  <1>1. CASE a = Secondary("some", NoHeader)
    BY <1>1 DEF Secondary, Answers, NoHeader
  <1>2. CASE a = Plain(429)
    BY <1>2, PlainFacts
  <1>3. QED  BY <1>1, <1>2 DEF Unannounced

\* What every answer does to the call.
LEMMA AnsweredFacts ==
  ASSUME ClientTypeOK, NEW a \in Answers, Answered(a)
  PROVE  /\ call' \in Calls /\ call'.at = "answered" /\ call'.attempt = call.attempt
         /\ call'.answer = a /\ call'.backoff = call.backoff
         /\ call.attempt \in Nat /\ call.backoff \in Nat \ {0}
  <1>1. call' \in Calls
    BY DEF Answered, ClientTypeOK, Calls
  <1>2. /\ call'.at = "answered" /\ call'.attempt = call.attempt
        /\ call'.answer = a /\ call'.backoff = call.backoff
    BY DEF Answered, ClientTypeOK, Calls
  <1>3. call.attempt \in Nat /\ call.backoff \in Nat \ {0}
    BY ClientAssumption DEF ClientTypeOK, Calls
  <1>4. QED  BY <1>1, <1>2, <1>3

LEMMA RefuseKept ==
  ASSUME ClientInv, Refuse
  PROVE  ClientInv'
  <1> USE DEF ClientInv, Refuse
  <1>0. window \in Nat \ {0} /\ window' = window /\ Suffered(call.attempt + 1)
    BY DEF ClientTypeOK, TroubleInv
  <1>1. ASSUME NEW a \in Announcements, Answered(a), UNCHANGED troubles
        PROVE  ClientInv'
    <2>1. a \in Answers /\ a.status # 0 /\ \A b : RetryAfterDelay(a, b) = window
      BY <1>0, AnnouncementFacts
    <2>2. /\ call' \in Calls /\ call'.at = "answered" /\ call'.attempt = call.attempt
          /\ call'.answer = a
      BY <1>1, <2>1, AnsweredFacts
    <2>3. Delay' = window
      BY <2>1, <2>2 DEF Delay
    <2>4. TroubleInv'
      BY <1>0, <1>1, <2>1, <2>2, <2>3 DEF TroubleInv, PatienceIsEnough, Suffered, ClientTypeOK
    <2>5. QED  BY <1>0, <1>1, <2>2, <2>4 DEF ClientTypeOK
  <1>2. ASSUME NEW a \in Unannounced, Answered(a), Trouble
        PROVE  ClientInv'
    <2>1. a \in Answers /\ a.status # 0
      BY UnannouncedFacts
    <2>2. /\ call' \in Calls /\ call'.at = "answered" /\ call'.attempt = call.attempt
          /\ call'.answer = a /\ call.attempt \in Nat
      BY <1>2, <2>1, AnsweredFacts
    <2>3. troubles' \in Nat /\ Suffered(call.attempt + 2)' /\ Suffered(call.attempt + 1)'
      <3>1. call.attempt + 1 \in Nat /\ (call.attempt + 1) + 1 = call.attempt + 2
        BY <2>2
      <3>2. QED  BY <1>0, <1>2, <2>2, <3>1, TroubleFacts DEF Suffered
    <2>4. TroubleInv'
      BY <1>0, <2>1, <2>2, <2>3 DEF TroubleInv, PatienceIsEnough, Suffered
    <2>5. QED  BY <1>0, <2>2, <2>3, <2>4 DEF ClientTypeOK
  <1>3. QED  BY <1>1, <1>2

LEMMA ServeKept ==
  ASSUME ClientInv, Serve
  PROVE  ClientInv'
  <1>1. PICK a \in Served : Answered(a)
    BY DEF Serve
  <1>2. a \in Answers /\ a.status # 0 /\ ~ RateLimited(a)
    <2>1. a \in Answers
      <3>1. [Plain(200) EXCEPT !.body = "bad"] \in Answers
        BY DEF Plain, Headed, Answers, NoHeader
      <3>2. QED  BY <3>1, PlainFacts DEF Served
    <2>2. /\ a.status \in {200, 403, 502} /\ a.after = NoHeader /\ ~ a.text
      BY DEF Served, Plain, Headed
    <2>3. QED  BY <2>1, <2>2 DEF RateLimited, IsRateLimit403
  <1>3. call' \in Calls /\ call'.at = "answered" /\ call'.answer = a
    BY <1>1, <1>2, AnsweredFacts DEF ClientInv
  <1>4. QED  BY <1>2, <1>3 DEF Serve, ClientInv, ClientTypeOK, TroubleInv, PatienceIsEnough,
                               RateLimited, IsRateLimit403

LEMMA LoseKept ==
  ASSUME ClientInv, Lose
  PROVE  ClientInv'
  <1>1. NoAnswer \in Answers /\ NoAnswer.status = 0 /\ ~ RateLimited(NoAnswer)
    BY PlainFacts DEF NoAnswer, RateLimited, IsRateLimit403
  <1>2. /\ call' \in Calls /\ call'.at = "answered" /\ call'.attempt = call.attempt
        /\ call'.answer = NoAnswer /\ call.attempt \in Nat
    BY <1>1, AnsweredFacts DEF Lose, ClientInv
  <1>3. /\ troubles' \in Nat /\ window' = window /\ window \in Nat
        /\ Suffered(IF window > 0 THEN call.attempt + 2 ELSE call.attempt + 1)'
    <2>1. Suffered(IF window > 0 THEN call.attempt + 1 ELSE call.attempt)
      BY DEF Lose, ClientInv, TroubleInv
    <2>2. QED  BY <1>2, <2>1, TroubleFacts DEF Lose, ClientInv, ClientTypeOK, Suffered
  <1>4. QED  BY <1>1, <1>2, <1>3 DEF ClientInv, ClientTypeOK, TroubleInv, PatienceIsEnough,
                               Suffered, RateLimited, IsRateLimit403

\* The client goes to sleep; it answers its caller.
LEMMA SleepFacts ==
  ASSUME ClientTypeOK, ~ LastAttempt, NEW d \in Nat \ {0}, Sleep(d)
  PROVE  /\ call' \in Calls /\ call'.at = "asleep" /\ call'.wait = d
         /\ call'.attempt = call.attempt /\ call.attempt \in Nat
  <1>1. NoAnswer \in Answers
    BY PlainFacts DEF NoAnswer
  <1>2. call' \in Calls
    <2>1. call \in Calls /\ 2 * call.backoff \in Nat \ {0}
      BY DEF ClientTypeOK, Calls
    <2>2. [call EXCEPT !.at = "asleep", !.wait = d, !.answer = NoAnswer] \in Calls
      BY <1>1, <2>1 DEF Calls
    <2>3. QED  BY <2>1, <2>2 DEF Sleep, Calls
  <1>3. call'.at = "asleep" /\ call'.wait = d /\ call'.attempt = call.attempt
    BY DEF Sleep, ClientTypeOK, Calls
  <1>4. call.attempt \in Nat
    BY ClientAssumption DEF ClientTypeOK, Calls
  <1>5. QED  BY <1>2, <1>3, <1>4

LEMMA ReturnKept ==
  ASSUME ClientTypeOK, UNCHANGED <<window, troubles>>,
         NEW err \in {"none", "lost", "limited", "refused", "undecodable"}, Return(err),
         err \in {"lost", "limited"} => troubles >= MaxAttempts
  PROVE  ClientInv'
  <1>1. Idle \in Calls
    BY ClientAssumption, PlainFacts DEF Idle, Calls, NoAnswer
  <1>2. call' \in Calls /\ call'.at = "returned" /\ call'.err = err
    BY <1>1 DEF Return, Calls
  <1>3. QED  BY <1>2 DEF ClientInv, ClientTypeOK, TroubleInv, PatienceIsEnough

LEMMA HandleKept ==
  ASSUME ClientInv, Handle
  PROVE  ClientInv'
  <1> DEFINE a == call.answer
  <1>1. /\ a \in Answers /\ call.backoff \in Nat \ {0} /\ call.attempt \in 0 .. MaxAttempts - 1
        /\ window \in Nat /\ troubles \in Nat /\ UNCHANGED <<window, troubles>>
    BY DEF ClientInv, ClientTypeOK, Calls, Handle
  <1>2. CASE a.status = 0
    <2>1. Suffered(IF window > 0 THEN call.attempt + 2 ELSE call.attempt + 1)
      BY <1>2 DEF Handle, ClientInv, TroubleInv
    <2>2. ASSUME ~ LastAttempt, Sleep(call.backoff)  PROVE ClientInv'
      <3>1. /\ call' \in Calls /\ call'.at = "asleep" /\ call'.wait = call.backoff
            /\ call'.attempt = call.attempt
        BY <1>1, <2>2, SleepFacts DEF ClientInv
      <3>2. Suffered(IF window > call.wait THEN call.attempt + 2 ELSE call.attempt + 1)'
        BY <1>1, <2>1, <3>1 DEF Suffered
      <3>3. ~ LastAttempt'
        BY <2>2, <3>1 DEF LastAttempt
      <3>4. QED  BY <1>1, <3>1, <3>2, <3>3 DEF ClientInv, ClientTypeOK, TroubleInv, PatienceIsEnough
    <2>3. ASSUME LastAttempt, Return("lost")  PROVE ClientInv'
      <3>1. troubles >= MaxAttempts
        BY <1>1, <2>1, <2>3, ClientAssumption DEF LastAttempt, Suffered
      <3>2. QED  BY <1>1, <2>3, <3>1, ReturnKept DEF ClientInv
    <2>4. ~ RateLimited(a)
      BY <1>2 DEF RateLimited, IsRateLimit403
    <2>5. QED  BY <1>2, <2>2, <2>3, <2>4 DEF Handle
  <1>3. CASE a.status # 0 /\ RateLimited(a)
    <2>1. /\ Delay = RetryAfterDelay(a, call.backoff) /\ Delay \in Nat \ {0}
          /\ Suffered(IF window > Delay THEN call.attempt + 2 ELSE call.attempt + 1)
      BY <1>1, <1>3, DelayFacts DEF Handle, ClientInv, TroubleInv, Delay
    <2>2. ASSUME ~ LastAttempt, Sleep(Delay)  PROVE ClientInv'
      <3>1. /\ call' \in Calls /\ call'.at = "asleep" /\ call'.wait = Delay
            /\ call'.attempt = call.attempt
        BY <2>1, <2>2, SleepFacts DEF ClientInv
      <3>2. Suffered(IF window > call.wait THEN call.attempt + 2 ELSE call.attempt + 1)'
        BY <1>1, <2>1, <3>1 DEF Suffered
      <3>3. ~ LastAttempt'
        BY <2>2, <3>1 DEF LastAttempt
      <3>4. QED  BY <1>1, <3>1, <3>2, <3>3 DEF ClientInv, ClientTypeOK, TroubleInv, PatienceIsEnough
    <2>3. ASSUME LastAttempt, Return("limited")  PROVE ClientInv'
      <3>1. troubles >= MaxAttempts
        BY <1>1, <2>1, <2>3, ClientAssumption DEF LastAttempt, Suffered
      <3>2. QED  BY <1>1, <2>3, <3>1, ReturnKept DEF ClientInv
    <2>4. a.status # 200
      BY <1>3 DEF RateLimited, IsRateLimit403
    <2>5. QED  BY <1>3, <2>1, <2>2, <2>3, <2>4 DEF Handle
  <1>4. CASE a.status # 0 /\ ~ RateLimited(a)
    <2>1. \/ Return("refused") \/ Return(IF a.body = "good" THEN "none" ELSE "undecodable")
      BY <1>4 DEF Handle
    <2>2. QED  BY <1>1, <2>1, ReturnKept DEF ClientInv
  <1>5. QED  BY <1>2, <1>3, <1>4

LEMMA WakeKept ==
  ASSUME ClientInv, Wake
  PROVE  ClientInv'
  <1>1. /\ call.attempt \in 0 .. MaxAttempts - 1 /\ ~ LastAttempt
        /\ Suffered(IF window > call.wait THEN call.attempt + 2 ELSE call.attempt + 1)
    BY DEF Wake, ClientInv, ClientTypeOK, TroubleInv, Calls
  <1>2. call' \in Calls
    <2>1. call.attempt + 1 \in 0 .. MaxAttempts - 1
      BY <1>1, ClientAssumption DEF LastAttempt
    <2>2. QED  BY <2>1 DEF Wake, ClientInv, ClientTypeOK, Calls
  <1>3. call'.at = "sent" /\ call'.attempt = call.attempt + 1 /\ call.wait = 0
    BY DEF Wake, ClientInv, ClientTypeOK, Calls
  <1>4. Suffered(IF window > 0 THEN call.attempt + 1 ELSE call.attempt)'
    BY <1>1, <1>3 DEF Wake, Suffered, ClientInv, ClientTypeOK
  <1>5. QED  BY <1>2, <1>3, <1>4 DEF Wake, ClientInv, ClientTypeOK, TroubleInv, PatienceIsEnough

\* When a unit of time passes the client's delay is not shortened by more than the
\* refusal is.
LEMMA DelayShrinks ==
  ASSUME NEW a \in Answers, NEW b \in Nat \ {0}, NEW w \in Nat,
         NEW later, later = [a EXCEPT !.reset = Less(@)],
         Less(w) > RetryAfterDelay(later, b)
  PROVE  w > RetryAfterDelay(a, b)
  <1>1. /\ later.status = a.status /\ later.after = a.after
        /\ later.remaining = a.remaining /\ later.reset = Less(a.reset)
    BY DEF Answers
  <1>2. a.after \in Int /\ a.reset \in Int
    BY DEF Answers, NoHeader
  <1>3. QED  BY <1>1, <1>2 DEF RetryAfterDelay, Less

LEMMA TickKept ==
  ASSUME ClientInv, Tick
  PROVE  ClientInv'
  <1> DEFINE a == call.answer
             later == [a EXCEPT !.reset = Less(@)]
  <1>1. /\ call \in Calls /\ a \in Answers /\ call.backoff \in Nat \ {0}
        /\ call.attempt \in Nat /\ call.wait \in Nat /\ window \in Nat /\ troubles \in Nat
    BY ClientAssumption DEF ClientInv, ClientTypeOK, Calls
  <1>2. /\ Less(call.wait) \in Nat /\ Less(window) \in Nat
        /\ window' = Less(window) /\ troubles' = troubles
    BY <1>1 DEF Less, Tick
  <1>3. later \in Answers /\ later.status = a.status /\ (RateLimited(later) <=> RateLimited(a))
    <2>1. Less(a.reset) \in Nat \cup {NoHeader}
      BY <1>1 DEF Answers, Less, NoHeader
    <2>2. later \in Answers
      BY <1>1, <2>1 DEF Answers
    <2>3. later.status = a.status /\ later.after = a.after /\ later.text = a.text
      BY <1>1 DEF Answers
    <2>4. QED  BY <2>2, <2>3 DEF RateLimited, IsRateLimit403
  <1>4. /\ call'.at = call.at /\ call'.attempt = call.attempt /\ call'.backoff = call.backoff
        /\ call'.wait = Less(call.wait) /\ call'.answer = later /\ call'.err = call.err
    BY <1>1 DEF Tick, Calls
  <1>5. call' \in Calls
    <2>1. call' = [[call EXCEPT !.wait = Less(@)] EXCEPT !.answer = later]
      BY <1>1 DEF Tick, Calls
    <2>2. [call EXCEPT !.wait = Less(@)] \in Calls
      BY <1>1, <1>2 DEF Calls
    <2>3. QED  BY <1>3, <2>1, <2>2 DEF Calls
  <1>6. ClientTypeOK'
    BY <1>2, <1>4, <1>5 DEF ClientInv, ClientTypeOK, LastAttempt
  <1>7. (call.at = "sent" =>
            Suffered(IF window > 0 THEN call.attempt + 1 ELSE call.attempt))'
    BY <1>1, <1>2, <1>4 DEF ClientInv, TroubleInv, Suffered, Less
  <1>8. (call.at = "answered" /\ call.answer.status = 0 =>
            Suffered(IF window > 0 THEN call.attempt + 2 ELSE call.attempt + 1))'
    BY <1>1, <1>2, <1>3, <1>4 DEF ClientInv, TroubleInv, Suffered, Less
  <1>9. (call.at = "answered" /\ RateLimited(call.answer) =>
            Suffered(IF window > Delay THEN call.attempt + 2 ELSE call.attempt + 1))'
    <2>1. Delay = RetryAfterDelay(a, call.backoff) /\ Delay' = RetryAfterDelay(later, call.backoff)
      BY <1>4 DEF Delay
    <2>2. window' > Delay' => window > Delay
      BY <1>1, <1>2, <2>1, DelayShrinks
    <2>3. QED  BY <1>1, <1>2, <1>3, <1>4, <2>2 DEF ClientInv, TroubleInv, Suffered
  <1>10. (call.at = "asleep" =>
            Suffered(IF window > call.wait THEN call.attempt + 2 ELSE call.attempt + 1))'
    BY <1>1, <1>2, <1>4 DEF ClientInv, TroubleInv, Suffered, Less
  <1>11. PatienceIsEnough'
    BY <1>2, <1>4 DEF ClientInv, TroubleInv, PatienceIsEnough
  <1>12. QED  BY <1>6, <1>7, <1>8, <1>9, <1>10, <1>11 DEF ClientInv, TroubleInv

LEMMA StartRefusingKept ==
  ASSUME ClientInv, StartRefusing
  PROVE  ClientInv'
  <1>1. /\ call.attempt \in Nat /\ call.wait \in Nat /\ window = 0
        /\ call.at = "answered" => Delay \in Nat
    BY ClientAssumption, DelayFacts
    DEF ClientInv, ClientTypeOK, Calls, Delay, StartRefusing
  <1>2. window' \in Nat /\ call' = call /\ Delay' = Delay
    BY ClientAssumption DEF StartRefusing, Delay
  <1>3. troubles' \in Nat /\ \A n \in Nat : Suffered(n) => Suffered(n + 1)' /\ Suffered(n)'
    BY TroubleFacts DEF StartRefusing, ClientInv
  <1>4. ClientTypeOK'
    BY <1>2, <1>3 DEF ClientInv, ClientTypeOK, LastAttempt
  <1>5. Suffered(call.attempt) => Suffered(call.attempt + 1)' /\ Suffered(call.attempt)'
    BY <1>1, <1>2, <1>3 DEF Suffered
  <1>6. Suffered(call.attempt + 1) => Suffered(call.attempt + 2)' /\ Suffered(call.attempt + 1)'
    <2>1. call.attempt + 1 \in Nat /\ call.attempt + 1 + 1 = call.attempt + 2
      BY <1>1
    <2>2. QED  BY <1>2, <1>3, <2>1 DEF Suffered
  <1>7. PatienceIsEnough'
    BY <1>2, ClientAssumption DEF ClientInv, ClientTypeOK, TroubleInv, PatienceIsEnough, StartRefusing, Trouble
  <1>8. QED  BY <1>1, <1>2, <1>4, <1>5, <1>6, <1>7 DEF ClientInv, TroubleInv

\* The provider has heard what the client said.
LEMMA HeardKept ==
  ASSUME ClientInv, call' = Idle, UNCHANGED <<window, troubles>>
  PROVE  ClientInv'
  <1>1. Idle \in Calls /\ Idle.at = "idle"
    BY ClientAssumption, PlainFacts DEF Idle, Calls, NoAnswer
  <1>2. QED  BY <1>1 DEF ClientInv, ClientTypeOK, TroubleInv, PatienceIsEnough

LEMMA ClientNext ==
  ASSUME ClientInv, [Next]_vars
  PROVE  ClientInv'
  <1>1. CASE UNCHANGED clientVars
    BY <1>1 DEF clientVars, ClientInv, ClientTypeOK, TroubleInv, PatienceIsEnough, LastAttempt,
                Delay, Suffered
  <1>2. CASE Request
    BY <1>2, RequestKept
  <1>3. CASE ClientStep
    BY <1>3, HandleKept, WakeKept DEF ClientStep
  <1>4. CASE Environment
    BY <1>4, RefuseKept, ServeKept, LoseKept DEF Environment
  <1>5. CASE Tick
    BY <1>5, TickKept
  <1>6. CASE StartRefusing
    BY <1>6, StartRefusingKept
  <1>7. CASE call' = Idle /\ UNCHANGED <<window, troubles>>
    BY <1>7, HeardKept
  <1>8. QED
    BY <1>1, <1>2, <1>3, <1>4, <1>5, <1>6, <1>7
    DEF Next, vars, Run, Step, Unknown, GiveUp, GitCommand, GitHubAsks, GitHubHears, Collected,
        Merge, Client, Time, GitHubFails

\* githubapi.go, GetJSON and PostGraphQL: a request is given up as lost or rate
\* limited only after as many troubles as there are attempts, for any number of
\* attempts and any length of GitHub's refusals.
THEOREM SpecPatience == Spec => []PatienceIsEnough
  <1>1. Init => ClientInv
    BY InitClient DEF Init
  <1>2. ClientInv /\ [Next]_vars => ClientInv'
    BY ClientNext
  <1>3. ClientInv => PatienceIsEnough
    BY DEF ClientInv, TroubleInv
  <1>4. QED  BY <1>1, <1>2, <1>3, PTL DEF Spec
-----------------------------------------------------------------------------
OwnDiags ==
  [severity : {"error", "warning"}, provider : {"git", "github", "github.facet"},
   code : {"", "gave_up"}]

\* A result tells by its marks whether something was missed.
ResultOK(r, p) ==
  /\ r.id = p /\ r.err \in BOOLEAN /\ r.nil \in BOOLEAN /\ r.degraded \in BOOLEAN
  /\ r.facts \subseteq FactsOf[p] /\ r.diags \in Seq(OwnDiags)
  /\ r.err => r.nil
  /\ (r.err \/ r.degraded) <=> r.facts # FactsOf[p]

WorkOK(w, p) ==
  /\ w \in [done : 0 .. Len(Facts[p]), missed : SUBSET FactsOf[p]]
  /\ IsFiniteSet(w.missed)

\* A request in progress is of the github provider, which has a facet left.
RequestInv ==
  call.at # "idle" =>
    /\ stage = "collecting" /\ "github" \in command.built
    /\ \E i \in Indices : /\ command.ids[i] = "github" /\ slot[i] = Empty
                          /\ work[i].done < Len(Facts["github"])

EngineInv ==
  /\ command.ids \in Seq(Providers) /\ IsInjective(command.ids)
  /\ DOMAIN slot = Indices /\ DOMAIN work = Indices
  /\ \A i \in Indices : slot[i] = Empty \/ ResultOK(slot[i], command.ids[i])
  /\ \A i \in Indices : WorkOK(work[i], command.ids[i])
  /\ RequestInv

Inv == ClientInv /\ EngineInv
-----------------------------------------------------------------------------
LEMMA ProviderFacts ==
  ASSUME NEW p \in Providers
  PROVE  /\ p \in {"git", "github"} /\ FactsOf[p] = Range(Facts[p]) /\ FactsOf[p] # {}
         /\ Facts[p] \in Seq(FactsOf[p])
         /\ \A n \in 1 .. Len(Facts[p]) : Facts[p][n] \in FactsOf[p]
  <1>1. Facts[p] \in Seq(Range(Facts[p])) \ {<<>>} /\ FactsOf[p] = Range(Facts[p])
    BY FactsAssumption DEF Providers, FactsOf
  <1>2. 1 \in DOMAIN Facts[p]
    BY <1>1
  <1>3. \A n \in 1 .. Len(Facts[p]) : Facts[p][n] \in Range(Facts[p])
    BY <1>1
  <1>4. QED  BY <1>1, <1>2, <1>3, FactsAssumption DEF Providers, Range

LEMMA FailedOK ==
  ASSUME NEW p \in Providers
  PROVE  ResultOK(Failed(p), p)
  BY ProviderFacts DEF ResultOK, Failed, Result

LEMMA GaveUpOK ==
  ASSUME NEW p \in Providers, NEW nil \in BOOLEAN
  PROVE  ResultOK(GaveUp(p, nil), p)
  <1>1. <<Diag("error", p, "gave_up")>> \in Seq(OwnDiags)
    <2>1. Diag("error", p, "gave_up") \in OwnDiags
      BY ProviderFacts DEF Diag, OwnDiags
    <2>2. QED  BY <2>1
  <1>2. QED  BY <1>1, ProviderFacts DEF ResultOK, GaveUp, Result

LEMMA FragmentOK ==
  ASSUME NEW p \in Providers, NEW missed \in SUBSET FactsOf[p], IsFiniteSet(missed)
  PROVE  ResultOK(Fragment(p, missed), p)
  <1> DEFINE D == [i \in 1 .. Cardinality(missed) |->
                     IF p = "git" THEN Diag("warning", p, "") ELSE Diag("error", "github.facet", "")]
  <1>1. D \in Seq(OwnDiags)
    <2>1. Cardinality(missed) \in Nat
      BY FS_CardinalityType
    <2>2. Diag("warning", "git", "") \in OwnDiags /\ Diag("error", "github.facet", "") \in OwnDiags
      BY DEF Diag, OwnDiags
    <2>3. \A i \in 1 .. Cardinality(missed) : D[i] \in OwnDiags
      BY <2>2
    <2>4. D \in [1 .. Cardinality(missed) -> OwnDiags]
      BY <2>3
    <2> HIDE DEF D
    <2>5. QED  BY <2>1, <2>4
  <1>2. (FactsOf[p] \ missed # FactsOf[p]) <=> missed # {}
    OBVIOUS
  <1>3. QED  BY <1>1, <1>2 DEF ResultOK, Fragment, Result

\* A result is not the slot nobody has written.
LEMMA ResultNotEmpty ==
  ASSUME NEW p \in Providers, NEW r, ResultOK(r, p)
  PROVE  r # Empty
  BY ProviderFacts DEF ResultOK, Empty

LEMMA InitEngine == Init => EngineInv
  BY DEF Init, ClientInit, Idle, EngineInv, RequestInv, Indices, IsInjective

\* A started provider writes its slot, or writes nothing and leaves its turn as it was.
Finishes(i, r) ==
  /\ Turn(i) /\ ResultOK(r, command.ids[i]) /\ Fill(i, r)
  /\ UNCHANGED <<clientVars, stage, command, work, doc>>
  /\ call.at # "idle" /\ "github" \in command.built => command.ids[i] # "github"

LEMMA StepFinishes ==
  ASSUME EngineInv, NEW i \in Indices, Step(i)
  PROVE  \/ \E r : Finishes(i, r)
         \/ /\ GitCommand(i) \/ GitHubAsks(i) \/ GitHubHears(i)
            /\ UNCHANGED <<stage, command, slot, doc>>
  <1>1. command.ids[i] \in Providers /\ WorkOK(work[i], command.ids[i])
    BY DEF EngineInv, Indices
  <1>2. CASE Unknown(i)
    <2>1. Finishes(i, Failed(command.ids[i]))
      BY <1>1, <1>2, FailedOK DEF Unknown, Finishes
    <2>2. QED  BY <2>1
  <1>3. CASE GiveUp(i)
    <2>1. CASE Runs(i, "git") /\ Fill(i, Failed("git"))
      <3>1. Finishes(i, Failed("git"))
        BY <1>1, <1>3, <2>1, FailedOK DEF GiveUp, Runs, Finishes
      <3>2. QED  BY <3>1
    <2>2. CASE Runs(i, "git") /\ Fill(i, GaveUp("git", TRUE))
      <3>1. Finishes(i, GaveUp("git", TRUE))
        BY <1>1, <1>3, <2>2, GaveUpOK DEF GiveUp, Runs, Finishes
      <3>2. QED  BY <3>1
    <2>3. CASE Runs(i, "github") /\ call.at = "idle"
                 /\ \E nil \in BOOLEAN : Fill(i, GaveUp("github", nil))
      <3>1. PICK nil \in BOOLEAN : Fill(i, GaveUp("github", nil))
        BY <2>3
      <3>2. Finishes(i, GaveUp("github", nil))
        BY <1>1, <1>3, <2>3, <3>1, GaveUpOK DEF GiveUp, Runs, Finishes
      <3>3. QED  BY <3>2
    <2>4. QED  BY <1>3, <2>1, <2>2, <2>3 DEF GiveUp
  <1>4. CASE Collected(i)
    <2>1. PICK p \in Providers : Runs(i, p) /\ work[i].done = Len(Facts[p])
                                  /\ Fill(i, Fragment(p, work[i].missed))
      BY <1>4 DEF Collected
    <2>2. command.ids[i] = p /\ ResultOK(Fragment(p, work[i].missed), p) /\ Turn(i)
      BY <1>1, <2>1, FragmentOK DEF Runs, WorkOK
    <2>3. call.at # "idle" /\ "github" \in command.built => p # "github"
      <3>1. SUFFICES ASSUME call.at # "idle", p = "github"  PROVE FALSE
        OBVIOUS
      <3>2. PICK j \in Indices : /\ command.ids[j] = "github"
                                 /\ work[j].done < Len(Facts["github"])
        BY <3>1 DEF EngineInv, RequestInv
      <3>3. j = i
        BY <2>2, <3>1, <3>2 DEF EngineInv, IsInjective, Indices
      <3>4. Len(Facts["github"]) \in Nat
        BY <3>1, ProviderFacts
      <3>5. QED  BY <2>1, <3>1, <3>2, <3>3, <3>4
    <2>4. Finishes(i, Fragment(p, work[i].missed))
      BY <1>4, <2>1, <2>2, <2>3 DEF Collected, Finishes
    <2>5. QED  BY <2>4
  <1>5. QED
    BY <1>2, <1>3, <1>4 DEF Step, GitCommand, GitHubAsks, GitHubHears

LEMMA FinishesKept ==
  ASSUME EngineInv, NEW i \in Indices, NEW r, Finishes(i, r)
  PROVE  EngineInv'
  <1>1. /\ command' = command /\ work' = work /\ Indices' = Indices /\ call' = call /\ stage' = stage
        /\ DOMAIN slot' = DOMAIN slot /\ slot'[i] = r
        /\ \A j \in Indices \ {i} : slot'[j] = slot[j]
    BY DEF Finishes, Fill, clientVars, Indices, EngineInv
  <1>2. \A j \in Indices : slot'[j] = Empty \/ ResultOK(slot'[j], command.ids[j])
    BY <1>1 DEF EngineInv, Finishes
  <1>3. RequestInv'
    <2>1. SUFFICES ASSUME call.at # "idle"  PROVE RequestInv'
      BY <1>1 DEF RequestInv
    <2>2. PICK j \in Indices : /\ command.ids[j] = "github" /\ slot[j] = Empty
                               /\ work[j].done < Len(Facts["github"])
      BY <2>1 DEF EngineInv, RequestInv
    <2>3. j # i
      BY <2>1, <2>2 DEF Finishes, EngineInv, RequestInv
    <2>4. QED  BY <1>1, <2>1, <2>2, <2>3 DEF EngineInv, RequestInv
  <1>4. QED  BY <1>1, <1>2, <1>3 DEF EngineInv

\* One fact more, found or missed.
LEMMA AdvanceKept ==
  ASSUME EngineInv, NEW i \in Indices, NEW p \in Providers, command.ids[i] = p,
         work[i].done < Len(Facts[p]),
         NEW missed \in SUBSET {Facts[p][work[i].done + 1]}, Advance(i, missed)
  PROVE  /\ DOMAIN work' = Indices /\ \A j \in Indices \ {i} : work'[j] = work[j]
         /\ \A j \in Indices : WorkOK(work'[j], command.ids[j])
  <1> DEFINE x == Facts[p][work[i].done + 1]
  <1>1. DOMAIN work' = Indices /\ \A j \in Indices \ {i} : work'[j] = work[j]
    BY DEF EngineInv, Advance
  <1>2. /\ work[i] \in [done : 0 .. Len(Facts[p]), missed : SUBSET FactsOf[p]]
        /\ IsFiniteSet(work[i].missed)
    BY DEF EngineInv, WorkOK
  <1>3. Len(Facts[p]) \in Nat /\ work[i].done + 1 \in 1 .. Len(Facts[p]) /\ x \in FactsOf[p]
    BY <1>2, ProviderFacts
  <1>4. work'[i] = [done |-> work[i].done + 1, missed |-> work[i].missed \cup missed]
    BY <1>2 DEF EngineInv, Advance
  <1>5. IsFiniteSet(work[i].missed \cup missed) /\ work[i].missed \cup missed \subseteq FactsOf[p]
    <2>1. CASE missed = {}
      BY <1>2, <2>1
    <2>2. CASE missed = {x}
      BY <1>2, <1>3, <2>2, FS_AddElement
    <2>3. QED  BY <2>1, <2>2
  <1>6. WorkOK(work'[i], p)
    <2>1. work[i].done + 1 \in 0 .. Len(Facts[p])
      BY <1>3
    <2>2. work'[i] \in [done : 0 .. Len(Facts[p]), missed : SUBSET FactsOf[p]]
      BY <1>4, <1>5, <2>1
    <2>3. IsFiniteSet(work'[i].missed)
      BY <1>4, <1>5
    <2>4. QED  BY <2>2, <2>3 DEF WorkOK
  <1>7. QED  BY <1>1, <1>6 DEF EngineInv

LEMMA GitCommandKept ==
  ASSUME EngineInv, NEW i \in Indices, GitCommand(i)
  PROVE  EngineInv'
  <1>1. "git" \in Providers /\ command.ids[i] = "git" /\ work[i].done < Len(Facts["git"])
    BY DEF GitCommand, Runs, EngineInv, Indices
  <1>2. PICK missed \in SUBSET {Facts["git"][work[i].done + 1]} : Advance(i, missed)
    BY DEF GitCommand
  <1>3. /\ DOMAIN work' = Indices /\ \A j \in Indices \ {i} : work'[j] = work[j]
        /\ \A j \in Indices : WorkOK(work'[j], command.ids[j])
    BY <1>1, <1>2, AdvanceKept
  <1>4. UNCHANGED <<call, stage, command, slot>> /\ Indices' = Indices
    BY DEF GitCommand, clientVars, Indices
  <1>5. RequestInv'
    BY <1>1, <1>3, <1>4 DEF EngineInv, RequestInv
  <1>6. QED  BY <1>3, <1>4, <1>5 DEF EngineInv

LEMMA GitHubAsksKept ==
  ASSUME EngineInv, NEW i \in Indices, GitHubAsks(i)
  PROVE  EngineInv'
  <1>1. UNCHANGED <<stage, command, work, slot>> /\ Indices' = Indices
    BY DEF GitHubAsks, Indices
  <1>2. /\ stage = "collecting" /\ "github" \in command.built
        /\ command.ids[i] = "github" /\ slot[i] = Empty /\ work[i].done < Len(Facts["github"])
    BY DEF GitHubAsks, Runs, Turn
  <1>3. QED  BY <1>1, <1>2 DEF EngineInv, RequestInv

LEMMA GitHubHearsKept ==
  ASSUME EngineInv, NEW i \in Indices, GitHubHears(i)
  PROVE  EngineInv'
  <1>1. "github" \in Providers /\ command.ids[i] = "github" /\ call.at # "idle"
    BY DEF GitHubHears, Runs, EngineInv, Indices
  <1>2. work[i].done < Len(Facts["github"])
    <2>1. PICK j \in Indices : command.ids[j] = "github" /\ work[j].done < Len(Facts["github"])
      BY <1>1 DEF EngineInv, RequestInv
    <2>2. j = i
      BY <1>1, <2>1 DEF EngineInv, IsInjective, Indices
    <2>3. QED  BY <2>1, <2>2
  <1>3. PICK missed \in SUBSET {Facts["github"][work[i].done + 1]} : Advance(i, missed)
    BY DEF GitHubHears
  <1>4. /\ DOMAIN work' = Indices /\ \A j \in Indices \ {i} : work'[j] = work[j]
        /\ \A j \in Indices : WorkOK(work'[j], command.ids[j])
    BY <1>1, <1>2, <1>3, AdvanceKept
  <1>5. UNCHANGED <<stage, command, slot>> /\ Indices' = Indices /\ call'.at = "idle"
    BY DEF GitHubHears, Indices, Idle
  <1>6. QED  BY <1>4, <1>5 DEF EngineInv, RequestInv

LEMMA RunKept ==
  ASSUME EngineInv, Run
  PROVE  EngineInv'
  <1>1. /\ command'.ids \in Seq(Providers) /\ IsInjective(command'.ids)
        /\ work' = [i \in DOMAIN command'.ids |-> [done |-> 0, missed |-> {}]]
        /\ slot' = [i \in DOMAIN command'.ids |-> Empty] /\ call' = call
    BY CommandsAssumption DEF Run, Providers, clientVars
  <1>2. \A i \in DOMAIN command'.ids : WorkOK(work'[i], command'.ids[i])
    <2>1. SUFFICES ASSUME NEW i \in DOMAIN command'.ids
                   PROVE  WorkOK([done |-> 0, missed |-> {}], command'.ids[i])
      BY <1>1
    <2>2. command'.ids[i] \in Providers
      BY <1>1
    <2>3. Len(Facts[command'.ids[i]]) \in Nat
      BY <2>2, ProviderFacts
    <2>4. QED  BY <2>3, FS_EmptySet DEF WorkOK
  <1>3. call.at = "idle"
    BY DEF EngineInv, RequestInv, Run
  <1>4. QED  BY <1>1, <1>2, <1>3 DEF EngineInv, RequestInv, Indices

\* Neither time nor the client takes a request back.
LEMMA CallGoesOn ==
  ASSUME ClientInv, ClientStep \/ Environment \/ Tick \/ StartRefusing
  PROVE  call'.at # "idle" => call.at # "idle"
  <1>1. call \in Calls
    BY DEF ClientInv, ClientTypeOK
  <1>2. CASE Tick
    BY <1>1, <1>2 DEF Tick, Calls
  <1>3. CASE ~ Tick
    BY <1>3 DEF ClientStep, Environment, Handle, Wake, Refuse, Serve, Lose, StartRefusing
  <1>4. QED  BY <1>2, <1>3

LEMMA CallKept ==
  ASSUME Inv, ClientStep \/ Environment \/ Tick \/ StartRefusing,
         UNCHANGED <<stage, command, work, slot, doc>>
  PROVE  EngineInv'
  BY CallGoesOn DEF Inv, EngineInv, RequestInv, Indices

LEMMA EngineNext ==
  ASSUME Inv, [Next]_vars
  PROVE  EngineInv'
  <1> USE DEF Inv
  <1>1. CASE Run
    BY <1>1, RunKept
  <1>2. ASSUME NEW i \in Indices, Step(i)  PROVE EngineInv'
    BY <1>2, StepFinishes, FinishesKept, GitCommandKept, GitHubAsksKept, GitHubHearsKept
  <1>3. CASE Merge
    BY <1>3 DEF Merge, AllIn, EngineInv, RequestInv, Indices, clientVars
  <1>4. CASE Client \/ Time \/ GitHubFails
    BY <1>4, CallKept DEF Client, Time, GitHubFails
  <1>5. CASE UNCHANGED vars
    BY <1>5 DEF vars, clientVars, EngineInv, RequestInv, Indices
  <1>6. QED  BY <1>1, <1>2, <1>3, <1>4, <1>5 DEF Next

THEOREM SpecInv == Spec => []Inv
  <1>1. Init => Inv
    BY InitClient, InitEngine DEF Init, Inv
  <1>2. Inv /\ [Next]_vars => Inv'
    BY ClientNext, EngineNext DEF Inv
  <1>3. QED  BY <1>1, <1>2, PTL DEF Spec
-----------------------------------------------------------------------------
LEMMA RangeFacts ==
  ASSUME NEW S, NEW s \in Seq(S), NEW x
  PROVE  Range(s) \subseteq S /\ Range(<<x>> \o s) = {x} \cup Range(s)
  <1>1. Range(s) \subseteq S
    BY DEF Range
  <1> DEFINE t == <<x>> \o s
  <1>2. /\ Len(s) \in Nat /\ DOMAIN s = 1 .. Len(s) /\ DOMAIN t = 1 .. Len(s) + 1
        /\ t[1] = x /\ \A n \in 1 .. Len(s) : t[n + 1] = s[n]
    OBVIOUS
  <1> HIDE DEF t
  <1>3. Range(t) \subseteq {x} \cup Range(s)
    <2>1. SUFFICES ASSUME NEW n \in DOMAIN t, n # 1  PROVE t[n] \in Range(s)
      BY <1>2 DEF Range
    <2>2. n - 1 \in 1 .. Len(s) /\ (n - 1) + 1 = n
      BY <1>2, <2>1
    <2>3. QED  BY <1>2, <2>2 DEF Range
  <1>4. x \in Range(t)
    BY <1>2 DEF Range
  <1>5. Range(s) \subseteq Range(t)
    <2>1. SUFFICES ASSUME NEW n \in 1 .. Len(s)  PROVE s[n] \in Range(t)
      BY <1>2 DEF Range
    <2>2. n + 1 \in DOMAIN t /\ t[n + 1] = s[n]
      BY <1>2
    <2>3. QED  BY <2>2 DEF Range
  <1>6. Range(t) = {x} \cup Range(s)
    BY <1>3, <1>4, <1>5
  <1>7. QED  BY <1>1, <1>6 DEF t

\* What the engine appends for a result marks the provider if it missed something.
MarkCodes == {"provider_failed", "provider_degraded"}

LEMMA MarkOf ==
  ASSUME NEW p \in Providers, NEW r, ResultOK(r, p)
  PROVE  /\ \A d \in Range(DiagsOf(r)) : d.code \in MarkCodes =>
              d.provider = p /\ r.facts # FactsOf[p]
         /\ r.facts # FactsOf[p] =>
              \E d \in Range(DiagsOf(r)) : d.code \in MarkCodes /\ d.provider = p
  <1> USE DEF MarkCodes
  <1>1. /\ r.id = p /\ r.err \in BOOLEAN /\ r.degraded \in BOOLEAN /\ r.diags \in Seq(OwnDiags)
        /\ (r.err \/ r.degraded) <=> r.facts # FactsOf[p]
    BY DEF ResultOK
  <1>2. \A d \in Range(r.diags) : d.code \notin MarkCodes
    <2>1. Range(r.diags) \subseteq OwnDiags
      BY <1>1, RangeFacts
    <2>2. \A d \in OwnDiags : d.code \notin MarkCodes
      BY DEF OwnDiags
    <2>3. QED  BY <2>1, <2>2
  <1>3. CASE r.err
    <2> DEFINE m == Diag("error", p, "provider_failed")
    <2>1. DiagsOf(r) = <<m>>
      BY <1>1, <1>3 DEF DiagsOf
    <2>2. Range(<<m>>) = {m}
      BY DEF Range
    <2>3. QED  BY <1>1, <1>3, <2>1, <2>2 DEF Diag
  <1>4. CASE ~ r.err /\ r.degraded
    <2> DEFINE m == Diag("warning", p, "provider_degraded")
    <2>1. DiagsOf(r) = <<m>> \o r.diags
      BY <1>1, <1>4 DEF DiagsOf
    <2>2. m.code \in MarkCodes /\ m.provider = p
      BY DEF Diag
    <2> HIDE DEF m
    <2>3. Range(<<m>> \o r.diags) = {m} \cup Range(r.diags)
      <3>1. r.diags \in Seq(OwnDiags)
        BY <1>1
      <3>2. QED  BY <3>1, RangeFacts
    <2>4. QED  BY <1>1, <1>2, <1>4, <2>1, <2>2, <2>3
  <1>5. CASE ~ r.err /\ ~ r.degraded
    BY <1>1, <1>2, <1>5 DEF DiagsOf
  <1>6. QED  BY <1>1, <1>3, <1>4, <1>5

\* The way through the diagnostics ends at the providers that missed something.
LEMMA Suppressed ==
  ASSUME EngineInv, AllIn, NEW diags, diags = [i \in Indices |-> DiagsOf(slot[i])],
         NEW degraded, degraded = \E i \in Indices : slot[i].err \/ slot[i].degraded
  PROVE  DegradedSet(diags, degraded) =
           {command.ids[i] : i \in {j \in Indices : slot[j].facts # FactsOf[command.ids[j]]}}
  <1>1. \A i \in Indices : command.ids[i] \in Providers /\ ResultOK(slot[i], command.ids[i])
    BY DEF EngineInv, AllIn, Indices
  <1>2. MarkedBy(diags) =
          {command.ids[i] : i \in {j \in Indices : slot[j].facts # FactsOf[command.ids[j]]}}
    <2>1. Diags(diags) = UNION {Range(DiagsOf(slot[i])) : i \in Indices}
      BY DEF Diags
    <2>2. ASSUME NEW p \in MarkedBy(diags)
          PROVE  \E i \in Indices : command.ids[i] = p /\ slot[i].facts # FactsOf[p]
      <3>1. PICK d \in Diags(diags) : d.code \in MarkCodes /\ d.provider = p
        BY DEF MarkedBy, MarkCodes
      <3>2. PICK i \in Indices : d \in Range(DiagsOf(slot[i]))
        BY <2>1
      <3>3. QED  BY <1>1, <3>1, <3>2, MarkOf
    <2>3. ASSUME NEW i \in Indices, slot[i].facts # FactsOf[command.ids[i]]
          PROVE  command.ids[i] \in MarkedBy(diags)
      <3>1. PICK d \in Range(DiagsOf(slot[i])) : d.code \in MarkCodes /\ d.provider = command.ids[i]
        BY <1>1, <2>3, MarkOf
      <3>2. d \in Diags(diags)
        BY <2>1
      <3>3. QED  BY <3>1, <3>2 DEF MarkedBy, MarkCodes
    <2>4. QED  BY <2>2, <2>3
  <1>3. degraded => MarkedBy(diags) # {}
    <2>1. SUFFICES ASSUME NEW i \in Indices, slot[i].err \/ slot[i].degraded
                   PROVE  MarkedBy(diags) # {}
      OBVIOUS
    <2>2. slot[i].facts # FactsOf[command.ids[i]]
      BY <1>1, <2>1 DEF ResultOK
    <2>3. QED  BY <1>2, <2>2
  <1>4. QED  BY <1>2, <1>3 DEF DegradedSet
-----------------------------------------------------------------------------
\* Every provider has one slot, so that the promise reads the right one.
LEMMA ChosenSlot ==
  ASSUME EngineInv, NEW S \in SUBSET Indices, NEW i \in S
  PROVE  (CHOOSE j \in S : command.ids[j] = command.ids[i]) = i
  BY DEF EngineInv, IsInjective, Indices

LEMMA GatheredFacts ==
  ASSUME EngineInv
  PROVE  /\ DOMAIN Gathered = {command.ids[i] : i \in In}
         /\ \A i \in In : Gathered[command.ids[i]] = Found(i)
  BY ChosenSlot DEF Gathered, In

LEMMA RunAsks ==
  ASSUME Inv, Run
  PROVE  Promise!Ask
  <1>1. EngineInv'
    BY RunKept DEF Inv
  <1>2. Asked' \in SUBSET Providers
    BY <1>1 DEF Asked, EngineInv, Indices
  <1>3. In' = {}
    BY DEF Run, In, Indices
  <1>4. Gathered' = <<>>
    BY <1>3 DEF Gathered
  <1>5. Shown' = Promise!Nothing
    BY DEF Run, Shown, Promise!Nothing
  <1>6. QED  BY <1>2, <1>4, <1>5 DEF Promise!Ask

LEMMA FinishGathers ==
  ASSUME Inv, NEW i \in Indices, NEW r, Finishes(i, r)
  PROVE  command.ids[i] \in Asked /\ Promise!Gather(command.ids[i])
  <1> DEFINE p == command.ids[i]
  <1>0. EngineInv /\ EngineInv'
    BY FinishesKept DEF Inv
  <1>1. /\ command' = command /\ Indices' = Indices /\ stage' = stage /\ doc' = doc
        /\ slot[i] = Empty /\ slot'[i] = r /\ \A j \in Indices \ {i} : slot'[j] = slot[j]
    BY <1>0 DEF Finishes, Turn, Fill, EngineInv, Indices
  <1>2. p \in Providers /\ ResultOK(r, p) /\ r # Empty
    BY <1>0, ResultNotEmpty DEF Finishes, EngineInv, Indices
  <1>3. i \notin In /\ In' = In \cup {i}
    BY <1>1, <1>2 DEF In
  <1>4. p \in Asked /\ Asked' = Asked
    BY <1>1 DEF Asked
  <1>5. Shown' = Shown
    BY <1>1 DEF Shown
  <1>6. p \notin DOMAIN Gathered
    BY <1>0, <1>3, GatheredFacts DEF EngineInv, IsInjective, In, Indices
  <1>7. DOMAIN Gathered' = DOMAIN Gathered \cup {p}
    <2>1. DOMAIN Gathered = {command.ids[j] : j \in In}
      BY <1>0, GatheredFacts
    <2>2. DOMAIN Gathered' = {command'.ids[j] : j \in In'}
      BY <1>0 DEF Gathered
    <2>3. QED  BY <1>1, <1>3, <2>1, <2>2
  <1> DEFINE F(x) == [nil |-> x.nil, facts |-> x.facts]
  <1>8. /\ Gathered'[p] = F(r)
        /\ \A q \in DOMAIN Gathered : Gathered'[q] = Gathered[q]
    <2> DEFINE Now == In \cup {i}
               Slot(q) == CHOOSE j \in Now : command.ids[j] = q
    <2>1. Gathered' = [q \in {command.ids[j] : j \in Now} |-> F(slot'[Slot(q)])]
      BY <1>1, <1>3 DEF Gathered, Found
    <2>2. ASSUME NEW j \in Now  PROVE Slot(command.ids[j]) = j
      BY <1>0, ChosenSlot DEF In
    <2>3. ASSUME NEW j \in Now  PROVE Gathered'[command.ids[j]] = F(slot'[j])
      BY <2>1, <2>2
    <2>4. ASSUME NEW q \in DOMAIN Gathered  PROVE Gathered'[q] = Gathered[q]
      <3>0. PICK j \in In : command.ids[j] = q
        BY <1>0, GatheredFacts
      <3>1. Gathered[q] = F(slot[j])
        BY <1>0, <3>0, GatheredFacts DEF Found
      <3>2. slot'[j] = slot[j]
        BY <1>1, <1>3 DEF In
      <3>3. QED  BY <2>3, <3>0, <3>1, <3>2
    <2>5. QED  BY <1>1, <2>3, <2>4
  <1>9. F(r) \in Promise!Finding(p)
    BY <1>2 DEF ResultOK, Promise!Finding
  <1>10. Gathered' = [q \in DOMAIN Gathered \cup {p} |-> IF q = p THEN F(r) ELSE Gathered[q]]
    <2>1. Gathered' = [q \in DOMAIN Gathered' |-> Gathered'[q]]
      BY DEF Gathered
    <2>2. \A q \in DOMAIN Gathered \cup {p} :
            Gathered'[q] = IF q = p THEN F(r) ELSE Gathered[q]
      BY <1>6, <1>8
    <2>3. QED  BY <1>7, <2>1, <2>2
  <1>11. QED  BY <1>4, <1>5, <1>6, <1>9, <1>10 DEF Promise!Gather

LEMMA MergePublishes ==
  ASSUME Inv, Merge
  PROVE  Promise!Publish
  <1> DEFINE has == {i \in Indices : ~ slot[i].err /\ ~ slot[i].nil}
             sources == {slot[i].id : i \in has}
  <1>0. EngineInv /\ AllIn /\ In = Indices
    BY DEF Inv, Merge, AllIn, In
  <1>1. \A i \in Indices : command.ids[i] \in Providers /\ ResultOK(slot[i], command.ids[i])
    BY <1>0 DEF EngineInv, AllIn, Indices
  <1>2. DOMAIN Gathered = Asked /\ \A i \in Indices : Gathered[command.ids[i]] = Found(i)
    BY <1>0, GatheredFacts DEF Asked
  <1> DEFINE G(i) == Gathered[command.ids[i]]
  <1>a. \A i \in Indices : G(i).nil = slot[i].nil /\ G(i).facts = slot[i].facts
    <2>1. SUFFICES ASSUME NEW i \in Indices
                   PROVE  G(i).nil = slot[i].nil /\ G(i).facts = slot[i].facts
      OBVIOUS
    <2>2. G(i) = Found(i)
      BY <1>2
    <2> HIDE DEF G
    <2>3. QED  BY <2>2 DEF Found
  <1>b. Asked = {command.ids[i] : i \in Indices}
    BY DEF Asked
  <1>3. Asked' = Asked /\ Gathered' = Gathered
    BY DEF Merge, Asked, Gathered, In, Found, Indices
  <1>4. has = {i \in Indices : ~ slot[i].nil}
    BY <1>1 DEF ResultOK
  <1>5. sources = {q \in Asked : ~ Gathered[q].nil}
    <2>1. sources = {command.ids[i] : i \in {j \in Indices : ~ slot[j].nil}}
      BY <1>1, <1>4 DEF ResultOK
    <2>2. sources \subseteq {q \in Asked : ~ Gathered[q].nil}
      <3>1. SUFFICES ASSUME NEW q \in sources
                     PROVE  q \in Asked /\ ~ Gathered[q].nil
        OBVIOUS
      <3>2. PICK i \in Indices : q = command.ids[i] /\ ~ slot[i].nil
        BY <2>1
      <3>3. ~ G(i).nil
        BY <1>a, <3>2
      <3>4. QED  BY <1>b, <3>2, <3>3
    <2>3. {q \in Asked : ~ Gathered[q].nil} \subseteq sources
      <3>1. SUFFICES ASSUME NEW i \in Indices, ~ G(i).nil
                     PROVE  command.ids[i] \in sources
        BY <1>b
      <3>2. ~ slot[i].nil
        BY <1>a, <3>1
      <3>3. QED  BY <2>1, <3>2
    <2>4. QED  BY <2>2, <2>3
  <1>6. doc'.signals = [q \in {q \in Asked : ~ Gathered[q].nil} |-> Gathered[q].facts]
    <2>1. doc'.signals = [q \in sources |-> slot[CHOOSE i \in has : slot[i].id = q].facts]
      BY DEF Merge
    <2>2. ASSUME NEW q \in sources
          PROVE  slot[CHOOSE i \in has : slot[i].id = q].facts = Gathered[q].facts
      <3>1. PICK i \in has : slot[i].id = q /\ command.ids[i] = q
        BY <1>1 DEF ResultOK
      <3>2. (CHOOSE j \in has : slot[j].id = q) = i
        <4>1. \A j \in has : slot[j].id = q => j = i
          BY <1>0, <1>1, <3>1 DEF ResultOK, EngineInv, IsInjective, Indices
        <4>2. QED  BY <3>1, <4>1
      <3>3. QED  BY <1>a, <3>1, <3>2
    <2> DEFINE factsOf(q) == slot[CHOOSE i \in has : slot[i].id = q].facts
    <2>3. doc'.signals = [q \in sources |-> factsOf(q)]
      BY <2>1
    <2>4. \A q \in sources : factsOf(q) = Gathered[q].facts
      BY <2>2
    <2> HIDE DEF factsOf, sources
    <2>5. QED  BY <1>5, <2>3, <2>4
  <1>7. DegradedSet(doc'.diags, doc'.degraded) = {q \in Asked : Gathered[q].facts # FactsOf[q]}
    <2>1. /\ doc'.diags = [i \in Indices |-> DiagsOf(slot[i])]
          /\ doc'.degraded = \E i \in Indices : slot[i].err \/ slot[i].degraded
      BY DEF Merge
    <2>2. DegradedSet(doc'.diags, doc'.degraded) =
            {command.ids[i] : i \in {j \in Indices : slot[j].facts # FactsOf[command.ids[j]]}}
      BY <1>0, <2>1, Suppressed
    <2>3. QED  BY <1>a, <1>b, <2>2
  <1>8. Shown' = [known |-> TRUE, signals |-> doc'.signals,
                  suppressed |-> DegradedSet(doc'.diags, doc'.degraded)]
    BY DEF Merge, Shown
  <1>9. QED  BY <1>2, <1>3, <1>6, <1>7, <1>8 DEF Promise!Publish

\* internal/observe, Engine.Collect, provider.go and the degraded sources of
\* rgdcli.go: whatever runs concurrently and whatever fails, rgd observe collects
\* each provider once, publishes when all are in, and suppresses exactly those that
\* missed something.
THEOREM EngineImplementsPromise == Spec => ImplementsPromise
  <1>1. Init => Promise!Init
    <2> SUFFICES ASSUME Init PROVE Promise!Init
      OBVIOUS
    <2>1. Indices = {} /\ In = {}
      BY DEF Init, Indices, In
    <2>2. QED  BY <2>1 DEF Init, Promise!Init, Asked, Gathered, Shown, Promise!Nothing
  <1>2. Inv /\ [Next]_vars => [Promise!Next]_(Promise!vars)
    <2> SUFFICES ASSUME Inv, [Next]_vars
                 PROVE  Promise!Next \/ UNCHANGED Promise!vars
      OBVIOUS
    <2>1. CASE Run
      BY <2>1, RunAsks DEF Promise!Next
    <2>2. CASE Merge
      BY <2>2, MergePublishes DEF Promise!Next
    <2>3. CASE UNCHANGED <<stage, command, slot, doc>>
      BY <2>3 DEF Promise!vars, Asked, Gathered, Shown, In, Found, Indices
    <2>4. ASSUME NEW i \in Indices, Step(i)
          PROVE  Promise!Next \/ UNCHANGED Promise!vars
      <3>1. CASE \E r : Finishes(i, r)
        BY <3>1, FinishGathers DEF Promise!Next
      <3>2. CASE ~ \E r : Finishes(i, r)
        BY <2>3, <2>4, <3>2, StepFinishes DEF Inv
      <3>3. QED  BY <3>1, <3>2
    <2>5. QED
      BY <2>1, <2>2, <2>3, <2>4 DEF Next, vars, Client, Time, GitHubFails
  <1>3. QED
    BY <1>1, <1>2, SpecInv, PTL DEF Spec, ImplementsPromise, Promise!Spec
=============================================================================
