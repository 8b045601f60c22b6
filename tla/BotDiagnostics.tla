--------------------------- MODULE BotDiagnostics ---------------------------
(***************************************************************************)
(* What the status entries of the configured bot reviewers say together    *)
(* (internal/observe/github/prquery/diagnostics.go), and what the built-in *)
(* merge-readiness guard demands of it.                                    *)
(***************************************************************************)
EXTENDS Integers, FiniteSets

CONSTANTS
  Commits,    \* commit SHAs
  NoCommit    \* an empty SHA

ASSUME CommitsAssumption == NoCommit \notin Commits

ReviewedTier == {"completed", "completed_clean"}
BlockedTier  == {"rate_limited", "review_paused"}
FailedTier   == {"review_failed"}
Statuses     == ReviewedTier \cup BlockedTier \cup FailedTier \cup {"pending", "not_triggered"}

\* The non-thread findings whose counts are positive.
FindingKinds == {"actionable", "outside_diff", "duplicate", "conversation"}

\* One element of bot_reviewer_status.
Entry == [required : BOOLEAN, status : Statuses, sha : Commits \cup {NoCommit},
          awaiting : BOOLEAN, clean : BOOLEAN, findings : SUBSET FindingKinds]

\* Duplicate counts alone are informational, and a clean summary hides counts.
NonThreadFindings(e) ==
  /\ e.status # "completed_clean"
  /\ ~ e.clean
  /\ e.findings \notin {{}, {"duplicate"}}

BlockReason(reasons) ==
  IF reasons = {} THEN ""
  ELSE IF Cardinality(reasons) > 1 THEN "mixed"
  ELSE CHOOSE r \in reasons : TRUE

Stale_UnknownHeadOnly(e, head) == head # NoCommit /\ e.sha = NoCommit
Stale(e, head) == head # NoCommit /\ e.sha # head

Diagnostics_AnyReviewed(entries, head, incomplete) ==
  LET required == {b \in DOMAIN entries : entries[b].required}
      blocked  == {b \in required : entries[b].status \in BlockedTier}
      failed   == {b \in required : entries[b].status \in FailedTier}
      reviewed == {b \in required : entries[b].status \in ReviewedTier}
      terminal == failed # {} \/ reviewed # {} \/ required = {}
  IN [ completed |-> terminal /\ failed = {} /\ blocked = {},
       terminal  |-> terminal,
       pending   |-> ~ terminal /\ blocked = {},
       blocked   |-> blocked # {},
       reason    |-> BlockReason({entries[b].status : b \in blocked}),
       failed    |-> failed # {},
       stale     |-> \E b \in reviewed : Stale(entries[b], head),
       awaiting  |-> \E b \in required : entries[b].awaiting,
       duplicate |-> \E b \in required : "duplicate" \in entries[b].findings,
       nonThread |-> \/ \E b \in required : NonThreadFindings(entries[b])
                     \/ incomplete /\ required # {} ]

\* ComputeBotReviewDiagnostics: only required bots count, and without one there
\* is nothing to wait for.  Partial comments count as findings.
Diagnostics(entries, head, incomplete) ==
  LET required  == {b \in DOMAIN entries : entries[b].required}
      blocked   == {b \in required : entries[b].status \in BlockedTier}
      failed    == {b \in required : entries[b].status \in FailedTier}
      reviewed  == {b \in required : entries[b].status \in ReviewedTier}
      completed == failed = {} /\ blocked = {} /\ reviewed = required
      terminal  == failed # {} \/ completed
  IN [ completed |-> completed,
       terminal  |-> terminal,
       pending   |-> ~ terminal /\ blocked = {},
       blocked   |-> blocked # {},
       reason    |-> BlockReason({entries[b].status : b \in blocked}),
       failed    |-> failed # {},
       stale     |-> \E b \in reviewed : Stale(entries[b], head),
       awaiting  |-> \E b \in required : entries[b].awaiting,
       duplicate |-> \E b \in required : "duplicate" \in entries[b].findings,
       nonThread |-> \/ \E b \in required : NonThreadFindings(entries[b])
                     \/ incomplete /\ required # {} ]

\* checkBotReviewDiagnostics of the merge-readiness guard.
BotReviewReady(d) ==
  /\ ~ d.pending
  /\ ~ d.blocked
  /\ ~ d.nonThread
  /\ ~ d.awaiting
  /\ d.terminal
  /\ ~ d.failed
  /\ ~ d.stale
=============================================================================
