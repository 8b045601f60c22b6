------------------------------ MODULE Workflow ------------------------------
(***************************************************************************)
(* The shipped control rules over everything that may be observed.  The    *)
(* actions are the world's, and what requests to it come to; what the      *)
(* program makes of each observation is ContextBuild.                      *)
(***************************************************************************)
EXTENDS ShippedRules

CONSTANTS
  Bots,       \* configured bot_reviewers
  Required,   \* the ones configured as required
  Entries,    \* the status entries a bot may show
  GitStates,  \* detached_head and working_tree_clean, together
  CIStatuses, \* values of github.ci.ci_status, "missing" if not observed
  Merges,     \* values of merge_state_status
  GateStatuses

\* An entry that counts as reviewed owes no answer (EntryShape of ReviewCycle).
ASSUME EntriesAssumption ==
  \A e \in Entries : e \in Entry /\ (e.awaiting => e.status \notin ReviewedTier)

VARIABLES
  head,       \* the head commit of the branch's pull request
  git,        \* detached_head and working_tree_clean
  pr,         \* pr_exists_for_branch: "yes", "no", or "missing"
  merge,      \* merge_state_status
  ci,         \* ci_status
  reviews,    \* the github.reviews facet
  gate        \* gates.pr-readiness.status

vars == <<head, git, pr, merge, ci, reviews, gate>>

Observation ==
  [head |-> head, git |-> git, pr |-> pr, merge |-> merge, ci |-> ci,
   reviews |-> reviews, gate |-> gate]

Unobserved == [known |-> FALSE]
\* A facet with nothing to report.
Quiet(entries) ==
  [known |-> TRUE, unresolved |-> FALSE, changes |-> FALSE, incomplete |-> FALSE,
   truncated |-> FALSE, comments_incomplete |-> FALSE, entries |-> entries]
\* The entry of a bot nothing was heard of.
NoEntry(b) == [required |-> b \in Required, status |-> "not_triggered", sha |-> NoCommit,
               awaiting |-> FALSE, clean |-> FALSE, findings |-> {}]
Aspects == {"unresolved", "changes", "incomplete", "truncated", "comments_incomplete"}
-----------------------------------------------------------------------------
Init ==
  /\ head \in Commits
  /\ git \in GitStates
  /\ pr = "no"
  /\ merge = "missing"
  /\ ci \in CIStatuses
  /\ reviews = Unobserved
  /\ gate \in GateStatuses

Work ==
  /\ git' \in GitStates
  /\ gate' \in GateStatuses
  /\ UNCHANGED <<head, pr, merge, ci, reviews>>

\* The bots' entries name the commits they did: some become stale, or fresh again.
Push(c) ==
  /\ c # head
  /\ head' = c
  /\ UNCHANGED <<git, pr, merge, ci, reviews, gate>>

\* A pull request is found, or found again: its reviews are observed anew.
PrFound ==
  /\ pr' = "yes"
  /\ reviews' = Quiet([b \in Bots |-> NoEntry(b)])
  /\ merge' \in Merges
  /\ UNCHANGED <<head, git, ci, gate>>

\* No pull request for the branch, or its lookup failed.
PrNotFound ==
  /\ pr' \in {"no", "missing"}
  /\ reviews' = Unobserved
  /\ merge' = "missing"
  /\ UNCHANGED <<head, git, ci, gate>>

\* The review query fails; the pull request itself is known from the lookup.
ReviewsFail ==
  /\ pr = "yes"
  /\ reviews' = Unobserved
  /\ merge' \in Merges
  /\ UNCHANGED <<head, git, pr, ci, gate>>

\* The review query finds no pull request any more: emptyReviewsInner.
PrVanishes ==
  /\ pr = "yes"
  /\ reviews' = Quiet(<<>>)
  /\ UNCHANGED <<head, git, pr, merge, ci, gate>>

Checks ==
  /\ ci' \in CIStatuses
  /\ merge' \in IF pr = "yes" THEN Merges ELSE {"missing"}
  /\ UNCHANGED <<head, git, pr, reviews, gate>>

Review(aspect) ==
  /\ reviews.known
  /\ reviews' = [reviews EXCEPT ![aspect] = ~ @]
  /\ UNCHANGED <<head, git, pr, merge, ci, gate>>

BotShows(b, e) ==
  /\ reviews.known
  /\ b \in DOMAIN reviews.entries
  /\ e.required = (b \in Required)
  /\ reviews' = [reviews EXCEPT !.entries[b] = e]
  /\ UNCHANGED <<head, git, pr, merge, ci, gate>>

Next ==
  \/ Work
  \/ \E c \in Commits : Push(c)
  \/ PrFound
  \/ PrNotFound
  \/ ReviewsFail
  \/ PrVanishes
  \/ Checks
  \/ \E aspect \in Aspects : Review(aspect)
  \/ \E b \in Bots, e \in Entries : BotShows(b, e)

Spec == Init /\ [][Next]_vars
-----------------------------------------------------------------------------
\* On a branch with a pull request, the coarse state table and the explicit
\* guard agree: merge_ready is resolved exactly when merge-readiness passes,
\* though the rules never read bot_review_trigger_awaiting_ack.
StateMatchesGuard ==
  pr = "yes" /\ ~ git.detached =>
    LET c == ContextBuild(Observation) IN c.state.target = "merge_ready" <=> c.guard

\* The three shipped tables leave no gap and no tie: on a branch, or with a
\* pull request, there is exactly one state, one route and one procedure.
EveryPositionIsMapped ==
  pr = "yes" \/ ~ git.detached =>
    LET c == ContextBuild(Observation)
    IN  /\ c.state.kind = "resolved"
        /\ c.route.kind = "resolved"
        /\ Cardinality(c.hints) = 1

\* Issue #129: while a required bot's review is blocked, failed, stale or
\* pending, and only then, the agent is sent to recover the bot, never to
\* disposition review feedback or to merge.
BotTroubleFirst ==
  pr = "yes" /\ reviews.known =>
    LET d == DiagOf(Observation)
    IN  (d.blocked \/ d.failed \/ d.stale \/ d.pending)
          <=> ContextBuild(Observation).route.target \in WaitBotRoutes

\* Open review work reaches the agent as such once no bot is in trouble.
OpenWorkIsAddressed ==
  (/\ pr = "yes" /\ reviews.known
   /\ BotsDoNotWait(Observation, DiagOf(Observation))
   /\ reviews.unresolved \/ reviews.changes)
    => ContextBuild(Observation).route.target = "user-address-review"
=============================================================================
