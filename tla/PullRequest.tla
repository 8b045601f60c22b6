----------------------------- MODULE PullRequest -----------------------------
(***************************************************************************)
(* A pull request from the world to the agent's next step: ReviewCycle     *)
(* changes what bots have said, and ShippedRules decide on what that looks *)
(* like, next to any result of the checks and any review thread.  The      *)
(* working copy is clean and on the branch, and every request is answered. *)
(***************************************************************************)
EXTENDS ReviewCycle, ShippedRules

CONSTANT CIStatuses \* values of github.ci.ci_status

\* The github.reviews facet that an observation would yield now.
Observed(threads) ==
  [known |-> TRUE, unresolved |-> threads, changes |-> FALSE,
   incomplete |-> FALSE, truncated |-> FALSE, comments_incomplete |-> FALSE,
   entries |-> [b \in Bots |-> EntryShown(b)]]

Observation(status, threads) ==
  [head |-> head, git |-> [detached |-> FALSE, clean |-> TRUE], pr |-> "yes",
   merge |-> "clean", ci |-> status, reviews |-> Observed(threads), gate |-> "missing"]

\* What the agent is told while the checks have that status and a review thread
\* is, or is not, unresolved.
Agent(status, threads) == ContextBuild(Observation(status, threads))
-----------------------------------------------------------------------------
\* The agent is sent to merge, or told it may, only when every required bot is
\* done with the current head and has answered the last request, no thread is
\* open and the checks are green, however the bots' words came about.
MergeMeansReviewed ==
  \A status \in CIStatuses, threads \in BOOLEAN :
    LET agent == Agent(status, threads)
    IN  agent.state.target = "merge_ready" \/ agent.guard =>
          /\ \A b \in Required : ReviewedHead(b) /\ ~ Unanswered(b)
          /\ ~ threads
          /\ status = "success"

\* While a required bot owes an answer, the agent waits for a bot: it neither
\* dispositions review work that the answer may change nor waits for checks.
UnansweredMeansWait ==
  (\E b \in Required : Unanswered(b)) =>
    \A status \in CIStatuses, threads \in BOOLEAN :
      Agent(status, threads).route.target \in WaitBotRoutes
=============================================================================
