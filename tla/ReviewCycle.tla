----------------------------- MODULE ReviewCycle -----------------------------
(***************************************************************************)
(* A pull request under review by bots: commits are pushed, bots post and  *)
(* edit comments, reviews arrive for the head or late for an older commit, *)
(* people ask for another review, and time passes.  Whatever the world     *)
(* has come to, an observation classifies every configured bot and         *)
(* aggregates what the required ones say.                                  *)
(***************************************************************************)
EXTENDS BotStatus

CONSTANTS
  Bots,           \* configured bot_reviewers
  Required,       \* those with required: true
  Enriched,       \* those with enrich: [coderabbit]
  CommentBodies,  \* what a bot may write in an issue comment
  ReviewBodies,   \* what it may write as the summary of a review
  MaxComments,    \* bound on the comments of one bot
  MaxTime         \* bound on the clock

ASSUME BotsAssumption == Required \cup Enriched \subseteq Bots
ASSUME BodiesAssumption == CommentBodies \cup ReviewBodies \subseteq Body

VARIABLES
  head,      \* headRefOid
  now,       \* the time of the observation, in units of a cooldown's seconds
  comments,  \* each bot's issue comments, in the order of the page
  review,    \* each bot's newest entry of latestReviews
  trigger    \* when a review_triggers pattern last matched somebody's comment

vars == <<head, now, comments, review, trigger>>

EntryShown(b) ==
  EntryOf(b \in Required, b \in Enriched, comments[b], review[b], trigger[b], head, now)
Diag  == Diagnostics([b \in Bots |-> EntryShown(b)], head, FALSE)
Ready == BotReviewReady(Diag)

Init ==
  /\ head \in Commits
  /\ now = 1
  /\ comments = [b \in Bots |-> <<>>]
  /\ review = [b \in Bots |-> NoReview]
  /\ trigger = [b \in Bots |-> 0]

\* Any other commit: a new one, or an old one by a forced push.
Push ==
  /\ head' \in Commits \ {head}
  /\ UNCHANGED <<now, comments, review, trigger>>

Tick ==
  /\ now < MaxTime
  /\ now' = now + 1
  /\ UNCHANGED <<head, comments, review, trigger>>

BotComments(b, body) ==
  /\ Len(comments[b]) < MaxComments
  /\ comments' = [comments EXCEPT ![b] = Append(@, [body |-> body, at |-> now])]
  /\ UNCHANGED <<head, now, review, trigger>>

\* In place: GitHub advances updatedAt and keeps the position.
BotEdits(b, body) ==
  /\ \E i \in DOMAIN comments[b] :
       comments' = [comments EXCEPT ![b][i] = [body |-> body, at |-> now]]
  /\ UNCHANGED <<head, now, review, trigger>>

\* Of the head or, if the bot was slow, of any older commit; GitHub may have
\* lost the commit.
BotReviews(b, body) ==
  /\ \E sha \in Commits \cup {NoCommit} :
       review' = [review EXCEPT ![b] = [body |-> body, at |-> now, sha |-> sha]]
  /\ UNCHANGED <<head, now, comments, trigger>>

AskReview(b) ==
  /\ trigger' = [trigger EXCEPT ![b] = now]
  /\ UNCHANGED <<head, now, comments, review>>

Next ==
  \/ Push
  \/ Tick
  \/ \E b \in Bots :
       \/ \E body \in CommentBodies : BotComments(b, body) \/ BotEdits(b, body)
       \/ \E body \in ReviewBodies : BotReviews(b, body)
       \/ AskReview(b)

Spec == Init /\ [][Next]_vars
-----------------------------------------------------------------------------
Texts(b)   == {comments[b][i] : i \in DOMAIN comments[b]}
Markup(b)  == {c \in Texts(b) : Tier(b \in Enriched, c.body) > 0}
Rulings(b) == {c \in Texts(b) : Decisive(c.body)}
NewestOf(cs) == {c \in cs : \A d \in cs : d.at <= c.at}

\* Evidence that b is done with the current head: a review of it, a comment that
\* names it as finished, or a review whose commit is lost next to a comment that
\* names it.
ReviewedHead(b) ==
  \/ review[b].sha = head
  \/ /\ b \in Enriched
     /\ \E c \in Texts(b) :
          /\ c.body.about = head
          /\ Finished(c.body) \/ (review[b] # NoReview /\ review[b].sha = NoCommit)

\* A request for review that b has not answered: a reply without status markers
\* answers nothing while a comment with markers exists, even if it is the latest
\* word of the bot.
Unanswered(b) ==
  /\ trigger[b] > review[b].at
  /\ \A c \in (IF Markup(b) = {} THEN Texts(b) ELSE Markup(b)) : trigger[b] > c.at

\* The reviews count as done only with evidence on the pull request that names
\* the current head, for each required bot.
ReadyMeansReviewed == (\E b \in Required : ~ ReviewedHead(b)) => ~ Ready

\* A request for review nobody answered keeps the pull request from being ready.
UnansweredTriggerBlocks == (\E b \in Required : Unanswered(b)) => ~ Ready

\* enrichment_coderabbit.go: "a stale rate limit loses to a newer clean bill,
\* and a stale clean loses to a newer rate limit", wherever the comments stand
\* and however often they were edited; a notice whose cooldown is over leaves
\* the bot pending, whatever review there is.
NewestRulingWins ==
  \A b \in Enriched :
    LET newest == NewestOf(Rulings(b))
        e      == EntryShown(b)
    IN  \A c \in newest :
          newest = {c} /\ ~ e.awaiting =>
            /\ c.body.says = {"clean"} /\ c.body.wait = 0 => e.status = "completed_clean"
            /\ c.body.says = {"rate_limit", "notice"}
                 => e.status = IF c.at + c.body.wait > now THEN "rate_limited" ELSE "pending"

\* Waiting alone ends cooldowns and nothing else, and the end of a cooldown is
\* not a review: only a text that already reported the result lets it show.
TimeEndsOnlyCooldowns ==
  [][now' # now =>
       \A b \in Bots :
         \/ EntryShown(b)' = EntryShown(b)
         \/ /\ EntryShown(b).status = "rate_limited"
            /\ EntryShown(b)'.status \in ReviewedTier => \E c \in Texts(b) : Finished(c.body)]_vars

\* What the workflow's control rules rely on: a bot with an unanswered request
\* is never shown as done, and a clean marker never stands under completed.
EntryShape ==
  \A b \in Bots :
    LET e == EntryShown(b)
    IN  /\ e \in Entry
        /\ e.awaiting => e.status \notin ReviewedTier
        /\ e.status = "completed" => ~ e.clean
        /\ e.status = "completed_clean" => e.clean

\* docs/cli.md: non_thread_findings_present is true when any required bot has
\* actionable findings.  Here the findings of a review of the head, newer than
\* every comment of the bot.
FreshFindingsReported ==
  \A b \in Required \cap Enriched :
    /\ "actionable" \in EntryShown(b).findings
    /\ review[b].sha = head
    /\ \A c \in Texts(b) : c.at < review[b].at
    => Diag.nonThread
=============================================================================
