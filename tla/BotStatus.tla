------------------------------ MODULE BotStatus ------------------------------
(***************************************************************************)
(* How one bot reviewer's comments, latest review and unanswered triggers  *)
(* on a pull request become its entry of bot_reviewer_status               *)
(* (internal/observe/github/prquery): the status comment is selected, its  *)
(* markers and those of the review body are read, and a classifier orders  *)
(* what they say.  A text is the set of the markers its patterns find.     *)
(***************************************************************************)
EXTENDS BotDiagnostics, Sequences, FiniteSetsExt

Markers == {"rate_limit", "notice", "review_paused", "reviews_paused", "review_failed", "clean",
            "completed", "processing", "walkthrough", "potential_issue", "acknowledged"}
CountKinds == FindingKinds \ {"conversation"}

\* wait: seconds of cooldown; about: the reviewed head it names; findings: the
\* positive counts of its summary.
Body == [says : SUBSET Markers, wait : Nat, about : Commits \cup {NoCommit},
         findings : SUBSET CountKinds]

\* An issue comment at its last update, and the latest review; time 0 is none.
Silence   == [says |-> {}, wait |-> 0, about |-> NoCommit, findings |-> {}]
NoComment == [body |-> Silence, at |-> 0]
NoReview  == [body |-> Silence, at |-> 0, sha |-> NoCommit]

\* parseCoderabbitReviewStatusMarkers: clean, then completed, then processing.
Clean(body)      == "clean" \in body.says
Finished(body)   == body.says \cap {"clean", "completed"} # {}
Processing(body) == "processing" \in body.says /\ ~ Finished(body)

DecisiveMarkers == {"rate_limit", "review_paused", "reviews_paused", "review_failed", "clean",
                    "completed", "processing"}
Decisive(body) == body.wait > 0 \/ body.says \cap DecisiveMarkers # {}

CoderabbitTier(body) ==
  IF Decisive(body) THEN 6
  ELSE IF "walkthrough" \in body.says \/ body.about # NoCommit THEN 1 ELSE 0

GenericWeight == [rate_limit |-> 4, review_paused |-> 3, review_failed |-> 2]
GenericTier(body) == Max({0} \cup {GenericWeight[m] : m \in body.says \cap DOMAIN GenericWeight})

Tier(enriched, body) == IF enriched THEN CoderabbitTier(body) ELSE GenericTier(body)

\* Of these comments the newest by updatedAt, the later one on a tie.
Newest(comments, among) ==
  comments[CHOOSE i \in among :
             \A j \in among : \/ comments[i].at > comments[j].at
                              \/ comments[i].at = comments[j].at /\ i >= j]

StatusComment_LastPosted(enriched, comments) ==
  LET tiered == {i \in DOMAIN comments : Tier(enriched, comments[i].body) > 0}
  IN  IF comments = <<>> THEN NoComment
      ELSE comments[CHOOSE i \in (IF tiered = {} THEN DOMAIN comments ELSE tiered) :
             \A j \in (IF tiered = {} THEN DOMAIN comments ELSE tiered) : i >= j]
\* selectStatusCommentForLogin: highest tier, then newest; without a tier, the
\* latest comment.
StatusComment(enriched, comments) ==
  LET tier(i) == Tier(enriched, comments[i].body)
      top     == {i \in DOMAIN comments : \A j \in DOMAIN comments : tier(i) >= tier(j)}
  IN  IF comments = <<>> THEN NoComment ELSE Newest(comments, top)

\* isCoderabbitOperationalConversationComment.
FindingSummary(body) == body.findings # {} \/ "potential_issue" \in body.says
Operational(body) ==
  \/ "acknowledged" \in body.says
  \/ Decisive(body)
  \/ "walkthrough" \in body.says /\ ~ FindingSummary(body)

\* IsCoderabbitFindingConversationComment of a body with visible text.
FindingComment(body) ==
  /\ ~ Operational(body)
  /\ \/ IF "walkthrough" \in body.says THEN "potential_issue" \in body.says
                                       ELSE FindingSummary(body)
     \/ CoderabbitTier(body) = 0

\* isCoderabbitRateLimitOnlyReviewNotice.
NoticeOnly(body) ==
  /\ body.findings = {}
  /\ body.says \cap {"clean", "completed", "potential_issue"} = {}
  /\ ("notice" \in body.says \/ body.wait > 0)

\* The cooldown counts from the update of the comment that states it.
Remaining(comment, now) ==
  IF comment.body.wait > now - comment.at THEN comment.body.wait - (now - comment.at) ELSE 0

ReviewCommit_AnyNamed(enriched, comment, review, head) ==
  IF enriched /\ comment.body.about # NoCommit THEN comment.body.about ELSE review.sha
\* applyReviewCommitSHAFromEnrichedComment.
ReviewCommit(enriched, comment, review, head) ==
  LET named == comment.body.about
  IN  IF enriched /\ named # NoCommit
           /\ ((named = head /\ Finished(comment.body)) \/ review.sha = NoCommit)
        THEN named ELSE review.sha

Awaiting_AnyComment(comments, comment, review, trigger) ==
  /\ trigger > review.at
  /\ \A i \in DOMAIN comments : trigger > comments[i].at
\* computeReviewTriggerAwaitingAck: strictly newer than the status comment and
\* the review, whatever else the bot has said since.
Awaiting(comments, comment, review, trigger) ==
  trigger > comment.at /\ trigger > review.at

\* The status of the first rung that applies.
FirstOf(ladder) ==
  ladder[CHOOSE i \in DOMAIN ladder : ladder[i][1] /\ \A j \in 1 .. i - 1 : ~ ladder[j][1]][2]

ClassifyCoderabbit_ReviewFirst(comments, comment, review, awaiting, now) ==
  FirstOf(<< <<Processing(comment.body), "pending">>,
             <<"review_paused" \in comment.body.says, "review_paused">>,
             <<Remaining(comment, now) > 0, "rate_limited">>,
             <<Clean(comment.body), "completed_clean">>,
             <<Finished(comment.body) \/ review.at > 0, "completed">>,
             <<awaiting, "pending">>,
             <<"review_failed" \in comment.body.says, "review_failed">>,
             <<comments # <<>>, "pending">>,
             <<TRUE, "not_triggered">> >>)
\* classifyCoderabbitStatusWithBasis.
ClassifyCoderabbit(comments, comment, review, awaiting, now) ==
  FirstOf(<< <<Processing(comment.body), "pending">>,
             <<awaiting, "pending">>,
             <<"review_paused" \in comment.body.says, "review_paused">>,
             <<Remaining(comment, now) > 0, "rate_limited">>,
             <<Clean(comment.body), "completed_clean">>,
             <<Finished(comment.body), "completed">>,
             <<"review_failed" \in comment.body.says, "review_failed">>,
             <<\/ comment.body.wait > 0 \/ "notice" \in comment.body.says
               \/ NoticeOnly(review.body), "pending">>,
             <<review.at > 0, "completed">>,
             <<comments # <<>>, "pending">>,
             <<TRUE, "not_triggered">> >>)

\* classifyBotStatusGeneric.
ClassifyGeneric(comments, comment, review, awaiting) ==
  FirstOf(<< <<"rate_limit" \in comment.body.says, "rate_limited">>,
             <<"review_paused" \in comment.body.says, "review_paused">>,
             <<"review_failed" \in comment.body.says, "review_failed">>,
             <<awaiting, "pending">>,
             <<review.at > 0, "completed">>,
             <<comments # <<>>, "pending">>,
             <<TRUE, "not_triggered">> >>)

\* buildBotReviewerStatus for one bot: trigger is the time of the newest
\* matching comment of anybody else.
EntryOf(required, enriched, comments, review, trigger, head, now) ==
  LET comment  == StatusComment(enriched, comments)
      awaiting == Awaiting(comments, comment, review, trigger)
      talk     == \E i \in DOMAIN comments : FindingComment(comments[i].body)
  IN  [ required |-> required,
        status   |-> IF enriched THEN ClassifyCoderabbit(comments, comment, review, awaiting, now)
                                 ELSE ClassifyGeneric(comments, comment, review, awaiting),
        sha      |-> ReviewCommit(enriched, comment, review, head),
        awaiting |-> awaiting,
        clean    |-> enriched /\ Clean(comment.body),
        findings |-> IF enriched
                       THEN review.body.findings \cup (IF talk THEN {"conversation"} ELSE {})
                       ELSE {} ]
=============================================================================
