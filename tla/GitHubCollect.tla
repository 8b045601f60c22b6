---------------------------- MODULE GitHubCollect ----------------------------
(***************************************************************************)
(* One collection of the GitHub provider: a chain of requests, each of     *)
(* which sees GitHub as it is when it is answered, while authors push,     *)
(* reviewers open and resolve threads and checks run.  Every request may   *)
(* also fail, and the ones about the pull request may find nothing.        *)
(***************************************************************************)
EXTENDS Integers, Sequences, FiniteSets

CONSTANTS
  Commits, NoCommit,
  Worlds,       \* what GitHub and the working tree may be at the start
  Requests,     \* scope, view and facet asked for; whether bots are configured
  Conclusions,  \* what a check run may say
  PageSize,     \* review threads on a page
  MaxPages,     \* maxReviewThreadPages
  MaxBackPages, \* maxCommentBackPages
  RunPage,      \* check runs in an answer
  MaxThreads, MaxRuns, MaxMoves \* bounds of the model

ASSUME CollectConstants ==
  /\ NoCommit \notin Commits
  /\ {PageSize, MaxPages, RunPage} \subseteq Nat \ {0}
  /\ {MaxBackPages, MaxThreads, MaxRuns, MaxMoves} \subseteq Nat
  /\ Conclusions \subseteq STRING
  /\ \A r \in Requests : r.bots \in BOOLEAN

RankOf == [unknown |-> 0, success |-> 1, pending |-> 2, failure |-> 3]

ASSUME WorldsAssumption ==
  \A w \in Worlds :
    /\ w.github \in [open : BOOLEAN, head : Commits, threads : Seq(BOOLEAN), older : Nat]
    /\ w.checks \in [Commits -> [legacy : DOMAIN RankOf, runs : Seq(STRING)]]
    /\ w.local \in [attached : BOOLEAN, head : Commits]
    /\ Len(w.github.threads) <= MaxThreads
    /\ \A c \in Commits : Len(w.checks[c].runs) <= MaxRuns

VARIABLES
  github,  \* the branch's pull request, its threads (resolved or not) and comment pages
  checks,  \* legacy status and check runs of every commit
  local,   \* the working tree: on the branch or detached, and its HEAD
  moves,   \* changes of the world so far
  request, \* what was asked for
  pc,      \* the request about to be sent
  loc,     \* what the requests so far have yielded
  signals, \* the fragment's signals
  diags,   \* the fragment's diagnostics
  seen     \* history: the heads, resolved threads and green checks since the start

world == <<github, checks, local, moves, seen>>
vars  == <<github, checks, local, moves, request, pc, loc, signals, diags, seen>>

Facets == {"issues", "pull-requests", "reviews", "ci"}
Wants(f)      == request.facet \in {"all", f}
ExplicitScope == request.scope # "none"
\* Every append to the diagnostics sets degraded.
Degraded      == diags # {}

(***************************************************************************)
(* CI rollup.                                                              *)
(***************************************************************************)
WorstOf(S) == CHOOSE s \in S : \A t \in S : RankOf[t] <= RankOf[s]

\* queued stands for every run that has not completed, unlisted for a
\* conclusion the code does not know.
RankCheckRun(run) ==
  CASE run \in {"failure", "cancelled"} -> "failure"
    [] run \in {"success", "skipped"}   -> "success"
    [] OTHER                            -> "pending"
Truncated_Never(runs) == FALSE
Truncated(runs) == Len(runs) > RunPage
FirstRuns(runs) == SubSeq(runs, 1, IF Len(runs) > RunPage THEN RunPage ELSE Len(runs))
Rollup(legacy, runs) == WorstOf({legacy} \cup {RankCheckRun(runs[i]) : i \in DOMAIN runs})

(***************************************************************************)
(* Signals.                                                                *)
(***************************************************************************)
NoPull    == [known |-> FALSE, exists |-> FALSE, head |-> NoCommit]
NoReviews == [known |-> FALSE, statuses |-> FALSE, unresolved |-> 0, total |-> 0,
              incomplete |-> FALSE, comments_incomplete |-> FALSE, head |-> NoCommit]
\* emptyReviewsInner: nothing unresolved, no bot listed, every diagnostic clean.
EmptyReviews == [NoReviews EXCEPT !.known = TRUE]
NoCI      == [known |-> FALSE, status |-> "unknown", head |-> NoCommit]
UnknownCI == [NoCI EXCEPT !.known = TRUE]

NoLoc == [warned |-> FALSE, branch |-> FALSE, found |-> FALSE, looked |-> FALSE,
          head |-> NoCommit, page |-> 0, read |-> 0, unresolved |-> 0, incomplete |-> FALSE,
          first |-> NoCommit, older |-> 0, back |-> 0, sha |-> NoCommit, legacy |-> "unknown"]

Green(c, i) == i \in DOMAIN checks[c].runs /\ RankCheckRun(checks[c].runs[i]) = "success"
SeenAtStart ==
  [heads    |-> {github.head},
   threads  |-> Len(github.threads),
   resolved |-> {i \in DOMAIN github.threads : github.threads[i]},
   runs     |-> [c \in Commits |-> Len(checks[c].runs)],
   passing  |-> {c \in Commits : checks[c].legacy \in {"unknown", "success"}},
   green    |-> {p \in Commits \X (1..MaxRuns) : Green(p[1], p[2])}]

Init ==
  /\ \E w \in Worlds : github = w.github /\ checks = w.checks /\ local = w.local
  /\ moves = 0
  /\ request \in Requests
  /\ pc = "identify"
  /\ loc = NoLoc
  /\ signals = [repository |-> FALSE, issues |-> FALSE,
                pull |-> NoPull, reviews |-> NoReviews, ci |-> NoCI]
  /\ diags = {}
  /\ seen = SeenAtStart

(***************************************************************************)
(* The world.                                                              *)
(***************************************************************************)
Moves ==
  /\ pc # "done" /\ moves < MaxMoves
  /\ moves' = moves + 1
  /\ UNCHANGED <<request, pc, loc, signals, diags>>

Push(c) ==
  /\ Moves
  /\ github' = [github EXCEPT !.head = c]
  /\ seen' = [seen EXCEPT !.heads = @ \cup {c}]
  /\ UNCHANGED <<checks, local>>

OpenOrClose ==
  /\ Moves
  /\ github' = [github EXCEPT !.open = ~ @]
  /\ UNCHANGED <<checks, local, seen>>

OpenThread ==
  /\ Moves
  /\ Len(github.threads) < MaxThreads
  /\ github' = [github EXCEPT !.threads = Append(@, FALSE)]
  /\ UNCHANGED <<checks, local, seen>>

\* A reviewer resolves a thread, or takes it back.
ToggleThread(i) ==
  /\ Moves
  /\ github' = [github EXCEPT !.threads[i] = ~ @]
  /\ seen' = [seen EXCEPT !.resolved = @ \cup {i}]
  /\ UNCHANGED <<checks, local>>

\* A check of c completes, is run again, or joins.
Check(c, i, run) ==
  /\ Moves
  /\ i <= Len(checks[c].runs) + 1
  /\ checks' = [checks EXCEPT ![c].runs = IF i \in DOMAIN @ THEN [@ EXCEPT ![i] = run]
                                                            ELSE Append(@, run)]
  /\ seen' = [seen EXCEPT !.green = IF RankCheckRun(run) = "success" THEN @ \cup {<<c, i>>} ELSE @]
  /\ UNCHANGED <<github, local>>

\* The combined commit status of c changes.
CommitStatus(c, status) ==
  /\ Moves
  /\ checks' = [checks EXCEPT ![c].legacy = status]
  /\ seen' = [seen EXCEPT !.passing = IF status \in {"unknown", "success"} THEN @ \cup {c} ELSE @]
  /\ UNCHANGED <<github, local>>

\* git checkout --detach, and back on the branch.
DetachOrAttach ==
  /\ Moves
  /\ local' = [local EXCEPT !.attached = ~ @]
  /\ UNCHANGED <<github, checks, seen>>

(***************************************************************************)
(* The collection.                                                         *)
(***************************************************************************)
Error(provider)    == [provider |-> provider, severity |-> "error"]
Warnings(provider) == [provider |-> provider, severity |-> "warning"]
Report(ds) == diags' = diags \cup ds
Goto(stage) == pc' = stage
Keep == UNCHANGED <<world, request>>

\* Neither repository nor token: nothing else is tried.
IdentifyFails ==
  /\ pc = "identify" /\ Goto("done")
  /\ Report({Error("github")})
  /\ \E resolved \in BOOLEAN : signals' = [signals EXCEPT !.repository = resolved]
  /\ UNCHANGED loc /\ Keep

NeedsLookup ==
  Wants("pull-requests") \/ Wants("reviews") \/ (Wants("ci") /\ ExplicitScope)
AfterIssues == IF NeedsLookup THEN "search" ELSE "ci"

Identify ==
  /\ pc = "identify"
  /\ signals' = [signals EXCEPT !.repository = TRUE]
  /\ Goto(IF Wants("issues") THEN "issues" ELSE AfterIssues)
  /\ UNCHANGED <<loc, diags>> /\ Keep

Issues ==
  /\ pc = "issues" /\ Goto(AfterIssues)
  /\ \/ signals' = [signals EXCEPT !.issues = TRUE] /\ UNCHANGED diags
     \/ Report({Error("github.issues")}) /\ UNCHANGED signals
  /\ UNCHANGED loc /\ Keep

\* A request of the lookup fails, or the pull request asked for is not open:
\* neither warnings nor pull request signals are kept.
LookupFails ==
  /\ pc \in {"search", "select", "detail"} /\ Goto("ci")
  /\ pc = "select" => request.scope = "pr" \/ loc.branch
  /\ Report({Error("github.pull-requests")})
  /\ loc' = NoLoc
  /\ UNCHANGED signals /\ Keep

\* The branch is read from git, then open pull requests are counted.
Search ==
  /\ pc = "search" /\ Goto("select")
  /\ loc' = [loc EXCEPT !.warned = ~ local.attached,
                        !.branch = local.attached \/ request.scope = "branch"]
  /\ UNCHANGED <<signals, diags>> /\ Keep

WantsReviews ==
  Wants("reviews") \/ (request.view = "full" /\ Wants("pull-requests"))
AfterLookup(found) == IF found /\ WantsReviews THEN "threads" ELSE "ci"

\* The lookup's answer: the pull request and its head as REST has it.
LookupDone(found, head) ==
  /\ Goto(AfterLookup(found))
  /\ loc' = [loc EXCEPT !.found = found, !.head = head, !.looked = TRUE]
  /\ Report(IF loc.warned THEN {Warnings("github.pull-requests")} ELSE {})
  /\ signals' = [signals EXCEPT !.pull = IF Wants("pull-requests")
                   THEN [known |-> TRUE, exists |-> found, head |-> head] ELSE @]

\* With --pr the pull request must be open; for a branch the open one is listed.
Select ==
  /\ pc = "select"
  /\ \/ request.scope = "pr" /\ github.open /\ LookupDone(TRUE, github.head)
     \/ /\ request.scope # "pr" /\ loc.branch /\ github.open
        /\ Goto("detail") /\ UNCHANGED <<loc, signals, diags>>
     \/ /\ request.scope # "pr" /\ ~ (loc.branch /\ github.open)
        /\ LookupDone(FALSE, NoCommit)
  /\ Keep

Detail == pc = "detail" /\ LookupDone(TRUE, github.head) /\ Keep

PrQueryFails_Silent ==
  /\ pc \in {"threads", "comments"} /\ Goto("ci")
  /\ UNCHANGED <<diags, loc, signals>> /\ Keep
PrQueryFails ==
  /\ pc \in {"threads", "comments"} /\ Goto("ci")
  /\ Report({Error("github.pr-query")})
  /\ UNCHANGED <<loc, signals>> /\ Keep

\* The answer holds no pull request, on whichever page: what was read is dropped.
PrMissing ==
  /\ pc = "threads" /\ Goto("ci")
  /\ signals' = [signals EXCEPT !.reviews = IF Wants("reviews") THEN EmptyReviews ELSE @]
  /\ UNCHANGED <<loc, diags>> /\ Keep

LastPage_Unbounded(page) == FALSE
LastPage(page) == page = MaxPages - 1

HasNextPage_Never(last) == FALSE
HasNextPage(last) == last < Len(github.threads)

\* A page of threads; the first also brings the head, decisions and comments.
Threads ==
  /\ pc = "threads"
  /\ LET last == IF loc.read + PageSize < Len(github.threads)
                 THEN loc.read + PageSize ELSE Len(github.threads)
         open == {i \in (loc.read + 1)..last : ~ github.threads[i]}
         more == HasNextPage(last)
         first == loc.page = 0
         goOn == more /\ ~ LastPage(loc.page)
     IN /\ loc' = [loc EXCEPT !.read = last, !.unresolved = @ + Cardinality(open),
                              !.first = IF first THEN github.head ELSE @,
                              !.older = IF first THEN github.older ELSE @,
                              !.page = IF goOn THEN @ + 1 ELSE @,
                              !.incomplete = more /\ ~ goOn]
        /\ Goto(IF goOn THEN "threads" ELSE "comments")
  /\ UNCHANGED <<signals, diags>> /\ Keep

Overriding_Rest == loc.head
\* The head that the checks are asked of: the one GraphQL gave, in the full view.
Overriding == IF request.view = "full" THEN loc.first ELSE loc.head

\* Older comments are read for configured bots only, and are incomplete if any is left.
ReviewsDone ==
  /\ Goto("ci")
  /\ signals' =
       [signals EXCEPT
          !.reviews = IF Wants("reviews")
            THEN [known |-> TRUE, statuses |-> request.bots, total |-> loc.read,
                  unresolved |-> loc.unresolved, incomplete |-> loc.incomplete, head |-> loc.first,
                  comments_incomplete |-> /\ loc.older > 0
                                          /\ request.bots \/ request.view = "full"]
            ELSE @,
          !.pull.head = IF request.view = "full" /\ Wants("pull-requests") THEN loc.first ELSE @]
  /\ loc' = [loc EXCEPT !.head = Overriding]

MoreComments == request.bots /\ loc.older > 0 /\ loc.back < MaxBackPages
\* An older page of comments.
OlderComments ==
  /\ pc = "comments" /\ MoreComments
  /\ loc' = [loc EXCEPT !.older = @ - 1, !.back = @ + 1]
  /\ UNCHANGED <<pc, signals, diags>> /\ Keep
\* No comments left to read, budget spent, or the pull request is not found.
CommentsDone ==
  /\ pc = "comments"
  /\ ReviewsDone
  /\ UNCHANGED diags /\ Keep

HeadUnresolved_Ignored == FALSE
HeadUnresolved == ExplicitScope /\ loc.head = NoCommit

\* The commit the checks are asked of: the pull request's head, else git's HEAD.
CI ==
  /\ pc = "ci"
  /\ \/ ~ Wants("ci") /\ Goto("done") /\ UNCHANGED <<loc, signals, diags>>
     \/ /\ Wants("ci") /\ HeadUnresolved
        /\ Goto("done") /\ Report({Error("github.ci")})
        /\ signals' = [signals EXCEPT !.ci = UnknownCI]
        /\ UNCHANGED loc
     \/ /\ Wants("ci") /\ ~ HeadUnresolved
        /\ Goto("status")
        /\ loc' = [loc EXCEPT !.sha = IF loc.head = NoCommit THEN local.head ELSE loc.head]
        /\ UNCHANGED <<signals, diags>>
  /\ Keep
GitHeadFails ==
  /\ pc = "ci" /\ Wants("ci") /\ ~ HeadUnresolved /\ loc.head = NoCommit
  /\ Goto("done") /\ Report({Warnings("github.ci")})
  /\ signals' = [signals EXCEPT !.ci = UnknownCI]
  /\ UNCHANGED loc /\ Keep

Status ==
  /\ pc = "status"
  /\ \/ /\ Goto("runs") /\ loc' = [loc EXCEPT !.legacy = checks[loc.sha].legacy]
        /\ UNCHANGED diags
     \/ Goto("done") /\ Report({Error("github.ci")}) /\ UNCHANGED loc
  /\ UNCHANGED signals /\ Keep

\* Check runs join the rollup; without them the legacy status stands.
Runs ==
  /\ pc = "runs" /\ Goto("done")
  /\ LET runs == checks[loc.sha].runs
         ci(status) == [known |-> TRUE, status |-> status, head |-> loc.sha]
     IN \/ /\ signals' = [signals EXCEPT !.ci = ci(Rollup(loc.legacy, FirstRuns(runs)))]
           /\ Report(IF Truncated(runs) THEN {Warnings("github.ci")} ELSE {})
        \/ /\ signals' = [signals EXCEPT !.ci = ci(loc.legacy)]
           /\ Report({Warnings("github.ci")})
  /\ UNCHANGED loc /\ Keep

World ==
  \/ \E c \in Commits : Push(c)
  \/ OpenOrClose \/ OpenThread \/ DetachOrAttach
  \/ \E i \in DOMAIN github.threads : ToggleThread(i)
  \/ \E c \in Commits, i \in 1..MaxRuns, run \in Conclusions : Check(c, i, run)
  \/ \E c \in Commits, status \in DOMAIN RankOf : CommitStatus(c, status)
Collect ==
  \/ IdentifyFails \/ Identify \/ Issues
  \/ LookupFails \/ Search \/ Select \/ Detail
  \/ PrQueryFails \/ PrMissing \/ Threads \/ OlderComments \/ CommentsDone
  \/ CI \/ GitHeadFails \/ Status \/ Runs

Next == World \/ Collect
Spec == Init /\ [][Next]_vars

(***************************************************************************)
(* Properties.                                                             *)
(***************************************************************************)
Reviews == signals.reviews
\* The reviews facet was read from the pull request (bots are listed in it).
ReviewsRead == Reviews.known /\ Reviews.statuses

\* The shape of the collection and of its fragment: the page walk stays within
\* its budget, and every diagnostic names a part of the provider.
TypeOK ==
  /\ github.head \in Commits /\ github.threads \in Seq(BOOLEAN)
  /\ local.head \in Commits
  /\ moves \in 0..MaxMoves
  /\ pc \in {"identify", "issues", "search", "select", "detail", "threads", "comments",
            "ci", "status", "runs", "done"}
  /\ loc.page \in 0..(MaxPages - 1) /\ loc.back \in 0..MaxBackPages
  /\ {loc.head, loc.first, loc.sha} \subseteq Commits \cup {NoCommit}
  /\ signals.pull \in [known : BOOLEAN, exists : BOOLEAN, head : Commits \cup {NoCommit}]
  /\ Reviews.unresolved \in 0..Reviews.total /\ Reviews.total \in 0..MaxThreads
  /\ signals.ci \in [known : BOOLEAN, status : DOMAIN RankOf, head : Commits \cup {NoCommit}]
  /\ diags \subseteq [provider : {"github", "github.issues", "github.pull-requests",
                                 "github.pr-query", "github.ci"},
                      severity : {"error", "warning"}]

\* One head: in a full observation of everything - what rgd context build
\* decides on - the pull request's head, the commit that bot reviews were
\* compared with and the commit whose checks were read are the same, although
\* the head was read twice and may have moved in between.
OneHead ==
  pc = "done" /\ request.view = "full" /\ request.facet = "all" /\ ReviewsRead
    /\ signals.ci.known =>
      signals.pull.head = Reviews.head /\ signals.ci.head = Reviews.head

\* With --branch or --pr the checks are never those of the local HEAD: they
\* are a head of the pull request during the collection, or unknown.
ScopedCINeverLocal ==
  ExplicitScope /\ signals.ci.known => signals.ci.head \in seen.heads \cup {NoCommit}

\* Reviews that report no unresolved thread, all pages read, leave out no
\* thread there was when the collection began: each was seen resolved, however
\* many pages the walk took and whatever was opened meanwhile.
NoThreadMissed ==
  ReviewsRead /\ Reviews.unresolved = 0 /\ ~ Reviews.incomplete =>
    1..seen.threads \subseteq seen.resolved

\* Success without a complaint from the ci facet: every check run there was
\* when the collection began was green at some point, and so was the combined
\* status, even if a check failed between the two requests.
SuccessWasGreen ==
  /\ signals.ci.known /\ signals.ci.status = "success"
  /\ {Error("github.ci"), Warnings("github.ci")} \cap diags = {}
  => LET c == signals.ci.head IN
     c \in seen.passing /\ \A i \in 1..seen.runs[c] : <<c, i>> \in seen.green

\* One failing facet does not take the others with it, and none is missing in
\* silence: what was asked for is in the signals, or an error says why, or
\* there is no pull request to review.
NoSilentGap ==
  pc = "done" /\ signals.repository /\ Error("github") \notin diags =>
    /\ Wants("issues") => signals.issues \/ Error("github.issues") \in diags
    /\ Wants("pull-requests") => signals.pull.known \/ Error("github.pull-requests") \in diags
    /\ Wants("reviews") => \/ Reviews.known
                           \/ {Error("github.pull-requests"), Error("github.pr-query")} \cap diags # {}
                           \/ loc.looked /\ ~ loc.found
    /\ Wants("ci") => signals.ci.known \/ Error("github.ci") \in diags
==============================================================================
