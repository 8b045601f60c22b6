---------------------------- MODULE ShippedRules ----------------------------
(***************************************************************************)
(* The shipped control rules (.reinguard/control, .reinguard/procedure)    *)
(* under rgd context build: what was observed resolves to a state, the     *)
(* state to a route, both to a procedure, and the merge-readiness guard    *)
(* answers beside them.  An observation o is a record:                     *)
(*   head     the head commit of the branch's pull request                 *)
(*   git      detached_head and working_tree_clean                         *)
(*   pr       pr_exists_for_branch: "yes", "no", or "missing"              *)
(*   merge    merge_state_status                                           *)
(*   ci       ci_status, "missing" if not observed                         *)
(*   reviews  the github.reviews facet                                     *)
(*   gate     gates.pr-readiness.status                                    *)
(***************************************************************************)
EXTENDS BotDiagnostics, Sequences

StateIds == {"unresolved_threads", "non_thread_findings_pending", "changes_requested",
             "waiting_bot_rate_limited", "waiting_bot_paused", "waiting_bot_failed",
             "waiting_bot_stale", "waiting_bot_run", "merge_ready", "waiting_ci",
             "pr_open", "ready_for_pr", "working_no_pr"}
RouteIds == {"user-implement", "user-monitor-pr", "user-wait-ci", "user-address-review",
             "user-wait-bot-failed", "user-wait-bot-stale", "user-wait-bot-run",
             "user-wait-bot-quota", "user-wait-bot-paused", "user-merge"}
WaitBotRoutes == {"user-wait-bot-failed", "user-wait-bot-stale", "user-wait-bot-run",
                  "user-wait-bot-quota", "user-wait-bot-paused"}

DiagOf(o) == Diagnostics(o.reviews.entries, o.head, o.reviews.comments_incomplete)

PrExists(o)      == o.pr = "yes"
NoThreads(o)     == o.reviews.known /\ ~ o.reviews.unresolved
NoneRequested(o) == o.reviews.known /\ ~ o.reviews.changes
ThreadsRead(o)   == o.reviews.known /\ ~ o.reviews.incomplete
DecisionsRead(o) == o.reviews.known /\ ~ o.reviews.truncated

BotsDoNotWait_StaleUnread(o, d) ==
  o.reviews.known => ~ d.blocked /\ ~ d.failed /\ ~ d.pending
BotsDoNotWait_PendingUnread(o, d) ==
  o.reviews.known => ~ d.blocked /\ ~ d.failed /\ ~ d.stale
\* The four anchors of workflow.yaml hold as well when the facet is missing.
BotsDoNotWait(o, d) ==
  o.reviews.known => ~ d.blocked /\ ~ d.failed /\ ~ d.stale /\ ~ d.pending

RequiredBotIs(o, status) ==
  /\ o.reviews.known
  /\ \E b \in DOMAIN o.reviews.entries : /\ o.reviews.entries[b].required
                                       /\ o.reviews.entries[b].status = status

\* ne is false on a missing path.
ChecksOrMergeWait(o) == o.ci \notin {"missing", "success"} \/ o.merge \notin {"missing", "clean"}
ReviewSettled(o)     == PrExists(o) /\ NoThreads(o) /\ ThreadsRead(o) /\ NoneRequested(o)

\* Rule id, priority, state_id and when of control/states/workflow.yaml, under
\* the diagnostics d.
StateTable(o, d) ==
  << <<"unresolved_threads", 8, "unresolved_threads",
       PrExists(o) /\ o.reviews.known /\ o.reviews.unresolved /\ BotsDoNotWait(o, d)>>,
     <<"non_thread_findings_pending", 9, "non_thread_findings_pending",
       ReviewSettled(o) /\ d.nonThread /\ BotsDoNotWait(o, d)>>,
     <<"changes_requested", 10, "changes_requested",
       PrExists(o) /\ o.reviews.known /\ o.reviews.changes /\ BotsDoNotWait(o, d)>>,
     <<"rate_limited", 11, "waiting_bot_rate_limited", RequiredBotIs(o, "rate_limited")>>,
     <<"review_paused", 12, "waiting_bot_paused", RequiredBotIs(o, "review_paused")>>,
     <<"review_failed", 13, "waiting_bot_failed", o.reviews.known /\ d.failed>>,
     <<"bot_stale", 14, "waiting_bot_stale", PrExists(o) /\ o.reviews.known /\ d.stale>>,
     <<"bot_run", 15, "waiting_bot_run", PrExists(o) /\ o.reviews.known /\ d.pending>>,
     <<"merge_ready", 25, "merge_ready",
       /\ ReviewSettled(o) /\ DecisionsRead(o)
       /\ o.git.clean /\ o.ci = "success" /\ o.merge = "clean"
       /\ ~ d.pending /\ ~ d.blocked /\ d.terminal
       /\ ~ d.failed /\ ~ d.stale /\ ~ d.nonThread>>,
     <<"waiting_ci", 35, "waiting_ci",
       /\ ReviewSettled(o) /\ DecisionsRead(o)
       /\ ~ d.pending /\ ~ d.blocked /\ ~ d.failed /\ ~ d.stale /\ ~ d.nonThread
       /\ o.git.clean /\ ChecksOrMergeWait(o)>>,
     <<"pr_open", 40, "pr_open", PrExists(o)>>,
     <<"ready_for_pr", 55, "ready_for_pr", ~ o.git.detached /\ ~ PrExists(o) /\ o.gate = "pass">>,
     <<"working_no_pr", 60, "working_no_pr", ~ o.git.detached /\ ~ PrExists(o)>> >>

ReviewWork_Threads == {"unresolved_threads", "non_thread_findings_pending"}
\* The states of route_address_review.
ReviewWork == {"unresolved_threads", "non_thread_findings_pending", "changes_requested"}

\* Route id, priority and the state_ids of control/routes/workflow.yaml.
RouteTable ==
  << <<"user-implement", 19, {"ready_for_pr"}>>,
     <<"user-implement", 20, {"working_no_pr"}>>,
     <<"user-monitor-pr", 21, {"pr_open"}>>,
     <<"user-wait-ci", 22, {"waiting_ci"}>>,
     <<"user-address-review", 23, ReviewWork>>,
     <<"user-wait-bot-failed", 24, {"waiting_bot_failed"}>>,
     <<"user-wait-bot-stale", 25, {"waiting_bot_stale"}>>,
     <<"user-wait-bot-run", 26, {"waiting_bot_run"}>>,
     <<"user-wait-bot-quota", 27, {"waiting_bot_rate_limited"}>>,
     <<"user-wait-bot-paused", 28, {"waiting_bot_paused"}>>,
     <<"user-merge", 29, {"merge_ready"}>> >>

\* applies_to of the .reinguard/procedure files that map states.
Procedures ==
  { [id |-> "implement", states |-> {"working_no_pr"}, routes |-> {"user-implement"}],
    [id |-> "pr-create", states |-> {"ready_for_pr"}, routes |-> {}],
    [id |-> "pr-merge", states |-> {"merge_ready"}, routes |-> {"user-merge"}],
    [id |-> "review-address",
     states |-> {"pr_open", "waiting_ci", "unresolved_threads",
                 "non_thread_findings_pending", "changes_requested"},
     routes |-> {"user-monitor-pr", "user-wait-ci", "user-address-review"}],
    [id |-> "wait-bot-review",
     states |-> {"waiting_bot_rate_limited", "waiting_bot_paused", "waiting_bot_failed",
                 "waiting_bot_stale", "waiting_bot_run"},
     routes |-> WaitBotRoutes] }

R == INSTANCE Resolve WITH Targets <- StateIds \cup RouteIds \cup {"merge-readiness"},
                           Providers <- {"git", "github"}, Clauses <- Nat, Epsilon <- 0

Verdict(holds) == IF holds THEN "match" ELSE "no_match"

\* The shipped rules declare no depends_on; a rule's clause is its place.
RulesOf(type, table) ==
  [i \in DOMAIN table |-> [type |-> type, id |-> i, priority |-> table[i][2],
                           target |-> IF type = "state" THEN table[i][3] ELSE table[i][1],
                           depends |-> {}, when |-> i]]

StateResult(o) ==
  LET d     == DiagOf(o)
      table == StateTable(o, d)
  IN  R!Resolve(RulesOf("state", table),
                [i \in DOMAIN table |-> Verdict(table[i][4])], {}, "state")

\* Route rules read the state just resolved; without one, state_id is empty.
RouteResult(state) ==
  R!Resolve(RulesOf("route", RouteTable),
            [i \in DOMAIN RouteTable |-> Verdict(state.target \in RouteTable[i][3])],
            {}, "route")

\* evalMergeReadiness: every check fails closed on a missing signal.
MergeReadiness_NoStale(o) ==
  /\ o.git.clean
  /\ NoThreads(o)
  /\ BotReviewReady([DiagOf(o) EXCEPT !.stale = FALSE])
  /\ NoneRequested(o) /\ ThreadsRead(o) /\ DecisionsRead(o)
  /\ o.merge = "clean"
  /\ o.ci = "success"
MergeReadiness(o) ==
  /\ o.git.clean
  /\ NoThreads(o)
  /\ BotReviewReady(DiagOf(o))
  /\ NoneRequested(o) /\ ThreadsRead(o) /\ DecisionsRead(o)
  /\ o.merge = "clean"
  /\ o.ci = "success"

\* EvalWithRules: the declared guard rule must resolve before the built-in runs.
GuardOK(o) ==
  /\ R!ResolveGuard(<<[type |-> "guard", id |-> 1, priority |-> 10,
                       target |-> "merge-readiness", depends |-> {}, when |-> 1]>>,
                    <<Verdict(~ o.git.detached)>>, {}, "merge-readiness").kind = "resolved"
  /\ MergeReadiness(o)

Hints_RoutesRequired(state, route) ==
  {p \in Procedures : state.target \in p.states /\ route.target \in p.routes}
\* HintEntry: the procedure of the state, unless its routes exclude the route.
Hints(state, route) ==
  {p \in Procedures : /\ state.target \in p.states
                      /\ p.routes # {} => route.kind = "resolved" /\ route.target \in p.routes}

\* RunContextBuild, without the knowledge entries.
ContextBuild(o) ==
  LET state == StateResult(o)
      route == RouteResult(state)
  IN  [state |-> state, route |-> route, guard |-> GuardOK(o),
       hints |-> IF state.kind = "resolved" THEN Hints(state, route) ELSE {}]
=============================================================================
