------------------------------ MODULE ApiClient ------------------------------
(***************************************************************************)
(* One GitHub request at a time (internal/githubapi, GetJSON and           *)
(* PostGraphQL): four attempts with doubling waits, longer ones when       *)
(* GitHub says for how long it refuses to serve.  GitHub refuses whenever  *)
(* it likes; requests and answers get lost.  Time is counted in units of   *)
(* the first wait.                                                         *)
(***************************************************************************)
EXTENDS Integers

CONSTANTS
  MaxAttempts,  \* maxAttempts
  Windows,      \* for how long GitHub may refuse
  Enough        \* troubles are counted up to this number

ASSUME ClientAssumption ==
  /\ MaxAttempts \in Nat \ {0} /\ Windows \subseteq Nat \ {0}
  /\ Enough \in Nat /\ Enough >= MaxAttempts

VARIABLES
  call,      \* the locals of the request in progress
  window,    \* for how long GitHub still refuses
  troubles   \* what has gone wrong during this request

clientVars == <<call, window, troubles>>

NoHeader == -1
\* What the client reads of an answer: the status, whether the body speaks of a
\* rate limit and whether it decodes without errors; Retry-After, in time units;
\* X-RateLimit-Remaining; the time until X-RateLimit-Reset.
Headed(status, after, remaining, reset) ==
  [status |-> status, text |-> FALSE, body |-> "good",
   after |-> after, remaining |-> remaining, reset |-> reset]
Secondary(remaining, reset) ==
  [status |-> 403, text |-> TRUE, body |-> "good",
   after |-> NoHeader, remaining |-> remaining, reset |-> reset]
Plain(status) == Headed(status, NoHeader, "some", NoHeader)
NoAnswer == Plain(0)

Idle == [at |-> "idle", attempt |-> 0, backoff |-> 1, wait |-> 0, answer |-> NoAnswer,
         err |-> "none"]

IsRateLimit403(a) == a.status = 403 /\ (a.after # NoHeader \/ a.text)
RateLimited(a)    == a.status = 429 \/ IsRateLimit403(a)

RetryAfterDelay_ResetUnread(a, fallback) == IF a.after > 0 THEN a.after ELSE fallback
RetryAfterDelay(a, fallback) ==
  CASE a.after > 0 -> a.after
    [] /\ a.after <= 0 /\ a.reset > 0
       /\ a.remaining = "0" \/ (a.remaining = "absent" /\ a.status = 429) -> a.reset
    [] OTHER -> fallback

LastAttempt == call.attempt = MaxAttempts - 1
-----------------------------------------------------------------------------
ClientInit == call = Idle /\ window = 0 /\ troubles = 0

Trouble == troubles' = IF troubles < Enough THEN troubles + 1 ELSE troubles

\* GetJSON or PostGraphQL is called.
Request ==
  /\ call.at = "idle"
  /\ call' = [Idle EXCEPT !.at = "sent"]
  /\ troubles' = IF window > 0 THEN 1 ELSE 0
  /\ UNCHANGED window

\* GitHub refuses, and says in one of its ways for how long.
Announcements ==
  { Headed(429, window, "some", NoHeader), Headed(429, NoHeader, "absent", window),
    Headed(403, window, "0", window), Secondary("0", window) }
\* The secondary limit without a hint.
Unannounced == { Secondary("some", NoHeader), Plain(429) }
Served      == { Plain(200), [Plain(200) EXCEPT !.body = "bad"], Plain(403), Plain(502) }

Answered(a) == call' = [call EXCEPT !.at = "answered", !.answer = a]

Refuse ==
  /\ call.at = "sent" /\ window > 0
  /\ \/ (\E a \in Announcements : Answered(a)) /\ UNCHANGED troubles
     \/ (\E a \in Unannounced : Answered(a)) /\ Trouble
  /\ UNCHANGED window

Serve ==
  /\ call.at = "sent" /\ window = 0
  /\ \E a \in Served : Answered(a)
  /\ UNCHANGED <<window, troubles>>

\* No connection, no answer within the 30 s of the HTTP client, or half a body.
Lose ==
  /\ call.at = "sent"
  /\ Answered(NoAnswer)
  /\ Trouble
  /\ UNCHANGED window

StartRefusing ==
  /\ window = 0
  /\ window' \in Windows
  /\ Trouble
  /\ UNCHANGED call

Return(err) == call' = [Idle EXCEPT !.at = "returned", !.err = err]
Sleep(d)    == call' = [call EXCEPT !.at = "asleep", !.wait = d, !.backoff = 2 * @,
                                    !.answer = NoAnswer]

\* Whether the client goes on is decided by the attempt and the answer alone; a
\* 5xx is not tried again, and the last refusal is reported like any other status.
Handle ==
  /\ call.at = "answered"
  /\ LET a == call.answer
     IN  \/ a.status = 0 /\ ~ LastAttempt /\ Sleep(call.backoff)
         \/ a.status = 0 /\ LastAttempt /\ Return("lost")
         \/ RateLimited(a) /\ ~ LastAttempt /\ Sleep(RetryAfterDelay(a, call.backoff))
         \/ RateLimited(a) /\ LastAttempt /\ Return("limited")
         \/ ~ RateLimited(a) /\ a.status >= 400 /\ Return("refused")
         \/ a.status = 200 /\ Return(IF a.body = "good" THEN "none" ELSE "undecodable")
  /\ UNCHANGED <<window, troubles>>

\* A retry that calls GetJSON again, and so begins to count anew.
Wake_Afresh ==
  /\ call.at = "asleep" /\ call.wait = 0
  /\ call' = [Idle EXCEPT !.at = "sent"]
  /\ UNCHANGED <<window, troubles>>
Wake ==
  /\ call.at = "asleep" /\ call.wait = 0
  /\ call' = [call EXCEPT !.at = "sent", !.attempt = @ + 1]
  /\ UNCHANGED <<window, troubles>>

Less(t) == IF t > 0 THEN t - 1 ELSE t
\* Retry-After counts from the answer, X-RateLimit-Reset is a point in time.
Tick ==
  /\ window > 0 \/ call.wait > 0
  /\ window' = Less(window)
  /\ call' = [call EXCEPT !.wait = Less(@), !.answer.reset = Less(@)]
  /\ UNCHANGED troubles

Environment == Refuse \/ Serve \/ Lose
ClientStep  == Handle \/ Wake
-----------------------------------------------------------------------------
\* docs/cli.md: "The GitHub client retries 429 responses with limited exponential
\* backoff".  A request is given up as lost or rate limited only after as many
\* troubles as there are attempts, where a refusal GitHub announced is one trouble
\* however long it lasts: the next attempt comes when it is over.
PatienceIsEnough ==
  call.at = "returned" /\ call.err \in {"lost", "limited"} => troubles >= MaxAttempts
=============================================================================
