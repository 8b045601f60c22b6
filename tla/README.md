# A TLA+ model of reinguard

`reinguard` (`rgd`) tells a coding agent where its work stands. It observes git and
GitHub, resolves the observed signals through the repository's control rules to a *state*
and a *route*, evaluates a merge guard, and keeps local *gate artifacts*: proofs that a
step (local verification, a local AI review, PR readiness) was done for one branch head.
This directory holds TLA+ modules of the parts in which something can go wrong that a unit
test would hardly reach, TLC configurations that check them on small instances, and TLAPS
proofs of nearly all their properties for every size.

`PROJECT.json` lists components, hazards, runs, mutants, theorems, and the source lines
each definition models.

## 1. The system

| Part | State it keeps | Operations | Talks to |
|---|---|---|---|
| Gate artifacts, `internal/gate` | one JSON file per gate under `.reinguard/local/gates` | `Record`, `Show`, `Status`, `LoadSignals` | git (branch, HEAD), the role configuration, other `rgd` processes through the files |
| Gate roles, `internal/config/runtime_gates.go` | `workflow.runtime_gate_roles` in `reinguard.yaml` | load, validate, merge with defaults | the gate contract |
| Rules and configuration, `internal/config` | rule files under `control/` | `Load`, `Rules`, `ConfigWarnings` | resolve, guard, procedure catalog |
| Matching, `internal/match`, `internal/evaluator` | none | `Eval`, `ValidateWhen` | resolve, knowledge |
| Resolution, `internal/resolve` | none | `Resolve`, `ResolveTrace`, `ResolveGuard` | match, the degraded set |
| Shipped rules, `.reinguard/control`, `.reinguard/procedure` | static tables | | resolve |
| Merge guard, `internal/guard` | none | `EvalWithRules`, `merge-readiness` | resolve, signals |
| Bot reviewer status, `internal/observe/github/prquery` | none of its own; comments, reviews and threads live on GitHub | select status comment, enrich, classify, aggregate | GitHub GraphQL |
| GitHub facets, `internal/observe/provider_github.go`, `pullrequests`, `ci`, `issues` | none | a sequence of REST and GraphQL reads | the API client, git |
| Engine and observation document, `internal/observe`, `internal/observation` | none | providers collected concurrently, joined; degraded sources | all providers |
| API client, `internal/githubapi` | none | requests with retries | GitHub |
| Knowledge, labels, backfill, schema export | files, GitHub labels and bodies | filter, index, sync, patch | GitHub through `gh` |
| CLI, `internal/rgdcli` | none | `context build`, `state eval`, `gate record`, ... | everything above |
| Scripts, `.reinguard/scripts`, `.github/scripts` | their own files | local review, resume, policy checks | `rgd`, GitHub |

`rgd context build` is the pipeline the parts form: load the configuration, collect the
observation, add the gate signals, resolve the state, flatten it into the signals, resolve
the route, evaluate the merge guard, and name the procedure the state maps to.

Each command is a short sequential process. What is concurrent is the world around it:
other `rgd` processes on the same gate directory, git commands in the same working copy,
edits of the configuration, and GitHub, where commits, comments and reviews change between
any two requests. That is where the hard behaviour is:

* gate artifacts: reads of branch, HEAD, roles and files at different moments; a crash
  between temporary file and rename; artifacts that outlive the commit or the roles they
  were recorded under;
* rules: ties, suppression of matches whose providers are degraded, clauses that cannot be
  evaluated, and three tables (states, routes, procedures) plus a guard, all edited apart,
  that have to agree;
* bot reviews: comments edited in place, reviews of older commits, cooldowns that end by
  the clock, requests nobody answered, and several bots that disagree;
* GitHub collection: pages and requests that see different heads, facets that fail one by
  one, and cut-offs;
* the engine and the API client: providers that run at the same time and fail in the
  middle, requests that are lost or refused, and waits that have to be long enough and
  to end;
* labels and backfill: decisions taken from one list and written one by one, while others
  write.

`PROJECT.json` lists the hazards at their source lines with the properties that would
catch them, and says for each uncovered one why.

## 2. Modules

| Module | Models | Kind |
|---|---|---|
| `GateContract` | artifact data, the proof contract, freshness | operators |
| `GateArtifacts` | recorders and readers as processes, crashes, the repository, the configuration | state machine |
| `GateSubjects` | `GateArtifacts` with a history of checked-out heads | state machine |
| `GateLedger` | what the store promises: atomic, backed proofs | abstract specification |
| `GateStore` | refinement mapping from `GateArtifacts` to `GateLedger` | refinement |
| `GateInductive` | the inductive invariants behind the proofs | invariants |
| `GateStoreProofs` | theorems about the gate store and its refinement | proofs |
| `Resolve` | selection among rules | operators |
| `ControlRules` | a rule set under edits, degradation and changing signals, and what knowledge is handed out beside it | state machine |
| `ControlRulesProofs` | theorems about selection, knowledge and how verdicts combine | proofs |
| `ClauseVerdicts` | what a clause says, and how verdicts combine | operators |
| `Match` | evaluation and validation of when-clauses | operators |
| `KnowledgeFilter` | which knowledge entries signals and a query select | operators |
| `WhenClauses` | clauses that are wrapped and joined, signals that come and go | state machine |
| `BotStatus` | one bot's comments, review and triggers to its status entry | operators |
| `BotDiagnostics` | the aggregate over bots, the guard's demand on it | operators |
| `ReviewCycle` | a pull request under review | state machine |
| `ShippedRules` | the shipped rules, and the context build of one observation | operators |
| `ShippedRulesProofs` | what the shipped rules decide, lemma by lemma | proofs |
| `Workflow` | the shipped rules over everything that may be observed | state machine |
| `WorkflowProofs` | theorems about `Workflow` | proofs |
| `PullRequest` | a pull request under review and the agent's next step | composition |
| `PullRequestProofs` | theorems about status entries, `ReviewCycle` and `PullRequest` | proofs |
| `GitHubCollect` | one collection of the GitHub provider against a changing pull request | state machine |
| `GitHubCollectProofs` | theorems | proofs |
| `ApiClient` | one request to GitHub: attempts, waits, refusals, losses | state machine |
| `ObserveEngine` | `rgd observe`: providers in sequence or at once, the join, the document; extends `ApiClient` | composition |
| `ObservePromise` | what an observation promises | abstract specification |
| `ObserveEngineProofs` | theorems about the client and the engine, the refinement among them | proofs |
| `RepoLabels` | `ensure-labels` and `labels sync` | state machine, part of `PrBackfill` |
| `PrBackfill` | the backfill of open pull requests beside the label commands, and people | composition |
| `PrBackfillProofs` | theorems about both | proofs |
| `MC*` | constants for TLC | |

`ShippedRules` composes `Resolve` (as an instance) with `BotDiagnostics`; `ReviewCycle`
composes `BotStatus` with `BotDiagnostics`. `Workflow` and `PullRequest` both extend
`ShippedRules` and hand its `ContextBuild` an observation. That of `Workflow` is anything:
the entries it lets a bot show are those that `ReviewCycle` shows possible (`EntryShape`).
That of `PullRequest`, which extends `ReviewCycle` too, is what a query of the pull request
would yield now, so its properties go from comments on GitHub to the route the agent is
given.

### Gate store

A process is a program counter `pc[p]` and locals `loc[p]`; one step is one read, one git
command or one file system call, so everything another process, git or an editor does may
fall in between.

| Code | Actions |
|---|---|
| `rgd gate record`, inputs | `BeginRecord`, then per `--input-gate`: `StatusRead`, `StatusBranch`, `StatusHead`, `Show` |
| `gate.Record` | `RecordBranch`, `RecordHead` (roles, build, contract), `CreateTemp`, `WriteTemp`, `Rename` |
| `gate.LoadSignals`, `gate.Status` | `BeginSignals`, the same `Status*` actions, `SignalsDone` |
| errors | `StatusGitFails`, `RecordGitFails`, `WriteFails` (the deferred removal runs) |
| the process dies | `Crash` (the temporary file stays) |
| git and editors | `Commit`, `Checkout`, `Reset`, `Detach`, `Reconfigure` |

`seen` and `proved` are history variables: configurations that were in force and passing
proofs that were stored. Abstractions: names, checks, commits are atoms; `recorded_at` and
all wording are left out; loading the roles and reading the file are one step, as are
reading the file and the parse, since the file is replaced by rename only; the gates of
`--input-gate` and of the directory are taken in any order; `gate status` of one gate is
`LoadSignals` of a directory with one gate; two running recorders never draw the same
temporary name; an `--inputs-file` is a set of inputs nobody compares with the store, as in
the code.

### Rules

`Resolve` follows `resolveCore`: filter by type, evaluate in order up to the first error,
keep the unsuppressed matches, select. Rules are handled by their *places* in the loaded
sequence: what the code passes on as a shorter slice is a set of places, whose order is the
order of the slice. Selection reads no more of the order than that, so the code's sort is
kept where it shows, in the list of route candidates (`InOrder`); tied candidates, which the
code lists in the order of the rules, are a set. A trace is asked for or not, hence an
operator of its own (`RuleTrace`). A `when` clause is its verdict
(match, no match, error); identifiers and priorities are integers, and priorities within
`Epsilon` tie. `ControlRules` edits the loaded rule sequence at any position, changes
verdicts, degrades and recovers providers. Rule ids are distinct in the
instance (the loader does not require it).

### When-clauses

`Match` has the two walks over a clause: `WalkWhen` (at load) and `EvalValue` (at every
command). Both are recursive, so the module is TLC's alone. A clause is decoded YAML;
strings are paths, numerals, the word `nan` and other words, which is what comparisons tell
apart. `WhenClauses` starts from single clauses, malformed ones among them, negates, joins
and quantifies them, and lets signals appear and disappear. Left out: substrings other than
the empty one, rounding of large integers to floating point, evaluators other than
`constant`. The absent clause, which the validator accepts and the evaluator refuses, is
left out of `LoadedNeverFails`: the rule schema requires a clause.

How the verdicts of sub-clauses combine is not recursive and stands apart in
`ClauseVerdicts`, which `Resolve` uses as well, so that it can be proved about.

`KnowledgeFilter` selects knowledge entries by their clauses, and keeps an entry whose
clause cannot be evaluated. As in `Resolve` a clause is its verdict; an entry without a
clause has none. `KnowledgeNotHidden` is checked in `ControlRules`, where verdicts change:
of any manifest with distinct ids, which `BuildManifest` sees to, exactly what the signals
or the query select is handed out, once. That a rearranged clause hides nothing more is
`OrderOnlyHidesErrors` of `WhenClauses`. A query hits an entry or does not; the substring
search behind it is left out.

### Reviews

A text is the set of markers the regular expressions find in it, its cooldown, the commit
it names and the counts of its summary (`Body`). `StatusComment`, `ClassifyCoderabbit`,
`ClassifyGeneric`, `ReviewCommit` and `Awaiting` are the code's decisions in the code's
order. `ReviewCycle` lets bots post and edit comments and reviews, people push and ask for
reviews, and the clock run. Left out: the window of comment pages, abbreviated commit ids,
clock skew between GitHub and the observer, and all but the newest trigger of a bot.

### Workflow

`StateTable`, `RouteTable` and `Procedures` of `ShippedRules` are the shipped files, rule by
rule, and `ContextBuild` is the pipeline over them: diagnostics, state, route, guard,
procedure. The variables of `Workflow` are the signals those rules read; the actions change them as the world does,
including lookups that fail (`PrNotFound`, `ReviewsFail`) and a pull request that vanishes
between two queries (`PrVanishes`), with the missing paths the code leaves then. The git
provider is taken to answer.

### Pull request

`PullRequest` adds the result of the checks and the threads to the steps of `ReviewCycle`,
and its `Agent` is `ContextBuild` on the observation these yield. Here the entries of two required bots
are not enumerated but come about, so the properties relate what was said on GitHub (which
head was reviewed, which request is unanswered) to the state, guard and route. The working
copy is clean and every request to GitHub succeeds; failures are in `Workflow` and
`GitHubCollect`.

### GitHub collection

`pc` names the next request, `loc` is what the requests so far have yielded, `signals` and
`diags` are the fragment. `degraded` is not a variable: the code sets it at every append to
the diagnostics.

| Code | Actions |
|---|---|
| `GitHubProvider.Collect`: repository, token | `Identify`, `IdentifyFails` |
| `githubCollectIssues` | `Issues` |
| `pullrequests.Collect` | `Search`, `Select`, `Detail`, `LookupFails` |
| `paginatePRContext`, one page | `Threads`, `PrMissing`, `PrQueryFails` |
| `mergeCommentNodesForBots`, and the facet it completes | `OlderComments`, `CommentsDone` |
| `githubCollectCIFacet`, `ci.Collect` | `CI`, `GitHeadFails`, `Status`, `Runs` |
| people, bots, CI | `Push`, `OpenOrClose`, `OpenThread`, `ToggleThread`, `Check`, `CommitStatus`, `DetachOrAttach` |

A request is one step: it sees GitHub at one moment, fails (whatever the retries of the
client did), or, for the pull request queries, finds nothing. `seen` is a history of heads,
resolved threads and green checks since the start. Left out: what the inbox and the
conversation list of each entry, titles and labels, the repository a fork's checks are
asked from, and blank page cursors (the code treats them as the end of the budget).

### API client and observation engine

`ApiClient` is one call of `GetJSON` or `PostGraphQL`, whose loops are the same. GitHub
refuses for a time (`window`), when it likes; it announces that in one of its ways
(Retry-After, X-RateLimit-Reset, on 429 or 403) or does not, and every request may be lost.

| Code | Actions |
|---|---|
| the request leaves | `Request`, `Wake` |
| what comes back | `Serve`, `Refuse`, `Lose` |
| `handleGetJSONResponse`, `handlePostGraphQLResponse` and the two branches before them | `Handle` |
| time and GitHub | `Tick`, `StartRefusing` |

Time is counted in units of the first wait (300 ms). A reset is compared with the local
clock, which is taken to agree with GitHub's; epoch seconds are exact. The context is never
cancelled, since `rgd` passes the background context.

`ObserveEngine` has one record of progress (`work`) per started provider and one entry of
`slot` per configured one.

| Code | Actions |
|---|---|
| `RunObserve`, `Build` | `Run` |
| `Collect`, an id that was not built | `Unknown` |
| `GitProvider.Collect`, `GitHubProvider.Collect`, early returns | `GiveUp` |
| `gitCollectFragment`, one command | `GitCommand` |
| one facet of the GitHub provider | `GitHubAsks`, then the client, then `GitHubHears` |
| the goroutine writes its slot | `Collected` |
| behind `wg.Wait` | `Merge` |

A facet is one request here; `GitHubCollect` has the sequence of requests and what they
see, with the client reduced to an answer or a failure. Left out: that a facet which fails
may keep the ones behind it from being asked (in `GitHubCollect`), and warnings of a facet
that succeeds. Two probes of the git provider (upstream, default branch of origin) read any
failure of git as *there is none*; such a miss is not marked, by design, and is not counted
as one here.

### Labels and backfill

What a command writes is a function of its list alone, so it is worked out in the step of
the list (`LabelTasks`, `PullTasks`) and then written task by task.

| Code | Actions |
|---|---|
| `listLabelRows`, the comparisons of `EnsureRepoLabels` and `SyncRepoLabels` | `ListLabels` |
| `createLabel`, `editLabel` | `CreateLabel`, `EditLabel` |
| `Run`, the listing and `ensureSections`, `syncTypeLabelFromTitle` | `ListPulls` |
| `patchPRBody`, `putIssueLabels` | `PatchBody`, `PutLabels` |
| people | `EditPull`, `Repaint`, `DeleteLabel` |

Every `gh` command may fail without effect, fail (or `rgd` die) after it, or succeed; all
but the last end the run. `since` is a history variable: what somebody has changed after a
run listed it without that run, or one that had the same knowledge, being the cause. A body
is a version of its text and whether all sections are there; colors and descriptions are
*as configured* or not. GitHub creates the labels a PUT names that are not there.
Left out: pages of the pull request list, label names that differ in case only, two entries
of one name in `labels.yaml`. That `gh api` with fields sends a GET here is taken from the
code, which passes no method; nothing in the repository runs it against GitHub. No command
of `rgd` calls the backfill, although `.github/CONTRIBUTING.md:199` names one.

## 3. Runs

| Run | Shows | Instance |
|---|---|---|
| `gate_core` | contract and backing of stored and reported passes, roles met, no torn file, commits invalidate, and that the store implements `GateLedger` | 3 gates, 1 branch, 2 commits, 2 role configurations, 2 processes, 3 invocations |
| `gate_inputs_toctou` | *violation*: `--input-gate` may copy a failing artifact | 2 processes |
| `gate_subject_torn` | *violation*: a subject that never was a branch head | 1 checkout in between |
| `control_rules` | order independence, degradation, traces; no knowledge entry is hidden by an error or a query | up to 3 of 6 rules in every order, 2 clauses, 2 providers, manifests of up to 3 entries |
| `when_clauses` | what loads evaluates but for ill-typed operands; sibling order and lost signals make nothing match; `all` and `any` are dual | single clauses of the operators, nesting to 3, 2 signals |
| `workflow` | the tables leave no gap and no tie, agree with the guard, and put bot recovery first | 1 required and 1 optional bot, every signal |
| `review_cycle` | ready means reviewed, requests, cooldowns, newest ruling, shape of entries | 1 CodeRabbit, 2 heads, 2 comments, 8 texts, clock to 3 |
| `pull_request` | merging needs every required bot to be done with the head; an owed answer is waited for | 1 CodeRabbit and 1 plain bot, both required, 2 heads, 1 comment each, clock to 2 |
| `review_cycle_findings` | *violation*: an older clean comment hides newer findings | 1 CodeRabbit |
| `github_collect` | one head, no local checks under a scope, no missed thread, no false green, no silent gap | 8 worlds, 15 requests, 2 changes in between, pages of one thread and one run, 2 thread pages |
| `observe` | the document is what each provider found; four troubles, not fewer, make a request fail; every command ends | git and github with 2 facts each, serial and at once, one disabled, none; 4 attempts, refusals of 8 units, any number of them |
| `labels` | runs that end well have repaired what they saw; only later changes are overwritten; what conforms is left alone | 2 people, 2 pull requests, 3 labels of which gh lists 2, 2 edits, any number of runs |

Why these bounds are enough to be interesting. Three invocations by two processes are an
upstream record, a `pr-readiness` record that reads it, and a third that re-records or
reads while the second is between two of its steps; two commits and two branches make a
subject stale in both ways; the run has one branch and the commits, `gate_subject_torn` two
branches, and the proofs hold for any number. Three rules make a tie of two with a third that suppression may
promote. Two comments give a selection between an edited older and a newer one; a clock of
three passes the longest cooldown in use. Two required bots with one comment each are
enough for one to be done while the other is blocked, has failed, is stale or owes an
answer; checks and threads have every value in every state of the pull request, which is
why they are quantified in its properties and are no variables. An entry of a bot in
`workflow` that is not yet reviewed shows findings exactly if it has no clean marker. A
refusal of eight units outlasts three doubling waits (1 + 2 + 4), so that a client that did
not listen would fail. Two edits are one that outdates the list of one run and one that
outdates another's, or a label deleted under two runs. Clauses nested three deep put a
quantifier around a combiner around an operator, in every order. Two changes during a collection are a push
between the two reads of the head, a thread opened while another is resolved, and a status
and a run that change between their two requests; a walk of two pages meets none, one or
more pages than its budget. Each property also has a mutant of the code in
`PROJECT.json` that breaks it on the same instance.

**Fairness.** `ObserveEngine` assumes weak fairness of each provider's steps, of the merge,
of the client together with what its request comes to, and of time. The code justifies all
four: goroutines are scheduled, every branch of the providers goes on to its next
command or request, the HTTP client gives up after 30 s (`provider_github.go:196`), and waits
are timers. It assumes none of `Run`, since nobody has to run a command, and none that
GitHub ever stops to refuse: `EveryCommandEnds` holds because attempts are counted. The git
commands have no timeout of their own; that git returns is taken on trust. No other
module assumes fairness: elsewhere a process may stop for good at any step, as a command
may.

### The three disagreements

* `docs/cli.md:547` promises that `--input-gate` copies a *fresh passing* artifact.
  `resolveInputGates` judges one read of the file and copies another.
* `internal/gate/artifact.go:53` calls a subject *the branch head*. Branch and HEAD come
  from two git commands, and a checkout in between yields one branch with the other's commit.
* `docs/cli.md:412` says that findings of a required bot are reported. A clean status
  hides them, even when they belong to a later review of the head.

The first two do not break the backing of passes (`PassIsBacked` holds in the same model):
the contract re-checks status and subject of every input at the record.

Two more were met in reading and need no model: ADR-0004 says that validation warns about
shared priorities, but the function that finds them is called by tests only; and
`.github/CONTRIBUTING.md:199` names a command `backfill-pr-policy` that does not exist.

## 4. Proofs

For every set of gates, branches, commits, processes, temporary names, role configurations
and command lines, and every bound:

| Theorem | States |
|---|---|
| `TypeCorrect` | `Spec => []TypeOK` |
| `FilesNeverTorn` | `Spec => NeverTorn` |
| `CommitsInvalidate` | `Spec => CommitInvalidates` |
| `StoredArtifactsMetContract` | `NoInputsFile`: `Spec => []StoredMetContract` |
| `StoredPassesAreBacked` | `NoInputsFile`: `Spec => []PassIsBacked` |
| `ReportedPassesAreBacked` | `NoInputsFile`: `Spec => []ReportedPassIsBacked` |
| `FreshPassesMeetRoles` | `NoInputsFile`: `Spec => []FreshPassMeetsRoles` |
| `StoreImplementsLedger` | `NoInputsFile`: `Spec => ImplementsLedger` |

`NoInputsFile` says that no command line uses `--inputs-file`, whose content the code takes
on trust. The other assumptions are those the modules state about their constants: names
of temporary files are no gate names, roles and command lines are well formed.

For every set of commits, worlds, requests, page size, page budget and number of changes:

| Theorem | States |
|---|---|
| `SpecOneHead` | `Spec => []OneHead` |
| `SpecScopedCI` | `Spec => []ScopedCINeverLocal` |
| `SpecNoThreadMissed` | `Spec => []NoThreadMissed` |
| `SpecTypeOK` | `Spec => []TypeOK` |
| `SpecSuccessWasGreen` | `Spec => []SuccessWasGreen` |
| `SpecNoSilentGap` | `Spec => []NoSilentGap` |

For every number of attempts, length of refusals, set of facts and commands of `rgd observe`:

| Theorem | States |
|---|---|
| `SpecPatience` | `Spec => []PatienceIsEnough` |
| `EngineImplementsPromise` | `Spec => ImplementsPromise` |

For every rule set and bound on it, every verdict and every set of degraded providers:

| Theorem | States |
|---|---|
| `SpecOrderFree` | `Spec => []OrderFree` |
| `SpecTraceExplains` | `Spec => []TraceExplains` |
| `SpecDegradeNeverPromotes` | `Spec => DegradeNeverPromotes` |
| `SpecKnowledgeNotHidden` | `Spec => []KnowledgeNotHidden`, for every set of manifests |

And for every list of verdicts, of any length (`ControlRulesProofs`):

| Theorem | States |
|---|---|
| `CombinedOrderFree` | lists of the same verdicts say the same under `And` and under `Or`, or one of them fails |
| `CombinedNotPromoted` | if no verdict goes from no match to match, neither do `And` and `Or` of them |
| `AllIsNotAnyNegated` | `And` is the negation of `Or` of the negations |

For every set of bots, required or enriched or not, commits, texts and length of cooldowns:

| Theorem | States |
|---|---|
| `SpecReadyMeansReviewed` | `Spec => []ReadyMeansReviewed` |
| `SpecUnansweredTriggerBlocks` | `Spec => []UnansweredTriggerBlocks` |
| `SpecEntryShape` | `Spec => []EntryShape` |
| `SpecNewestRulingWins` | `Spec => []NewestRulingWins` |
| `SpecTimeEndsOnlyCooldowns` | `Spec => TimeEndsOnlyCooldowns` |

For every set of bots, entries they may show, and values of the other signals:

| Theorem | States |
|---|---|
| `SpecStateMatchesGuard` | `Spec => []StateMatchesGuard` |
| `SpecEveryPositionIsMapped` | `Spec => []EveryPositionIsMapped` |
| `SpecBotTroubleFirst` | `Spec => []BotTroubleFirst` |
| `SpecOpenWorkIsAddressed` | `Spec => []OpenWorkIsAddressed` |

For every set of bots, commits, texts, cooldowns, and every result of the checks:

| Theorem | States |
|---|---|
| `SpecMergeMeansReviewed` | `Spec => []MergeMeansReviewed` |
| `SpecUnansweredMeansWait` | `Spec => []UnansweredMeansWait` |

For every set of agents, labels and pull requests, and any number of runs and edits:

| Theorem | States |
|---|---|
| `SpecLabelsConform` | `Spec => []LabelsConform` |
| `SpecPullsConform` | `Spec => []PullsConform` |
| `SpecPeoplesWorkKept` | `Spec => PeoplesWorkKept` |
| `SpecConformingLeftAlone` | `Spec => ConformingLeftAlone` |

**What the proofs assume.** Besides `NoInputsFile`, only what the modules state about their
constants, which TLC evaluates for every instance: counts are numbers and there is at least
one attempt (`ClientAssumption`, `BackfillAssumption`, `EpsilonAssumption`), given rules,
texts, roles, commands and worlds have the form the code reads them in and knowledge ids are
distinct (`RulesAssumption`, `ManifestsAssumption`,
`BodiesAssumption`, `RolesAssumption`, `CallsAssumption`, `CommandsAssumption`,
`CollectConstants`, `WorldsAssumption`), names are apart where the code's are
(`NamesAssumption`, `DetachedAssumption`, `CommitsAssumption`), each provider has something
to look for (`FactsAssumption`), `sync` goes through the declared labels in another order
only (`LabelsAssumption`), a bot that owes an answer is not shown as done
(`EntriesAssumption` of `Workflow`, the theorem `SpecEntryShape` of `ReviewCycle`), and required and enriched bots are among the configured ones (`BotsAssumption`).

**GitHub collection.** `OneHead` and `ScopedCINeverLocal` follow from `HeadInv`: a head that
a request brought is one the pull request has had (`HeadsInv`), checks come after reviews,
and from the reviews on one head is carried to the checks (`CarriedInv`). `NoThreadMissed`
follows from `ThreadInv`: as long as no open thread was met, all threads read so far have
been seen resolved, threads are only added, and the walk ends behind those there were at the
start or says that it did not. `GreenInv` has the same shape for checks: what is green now is
in the history (`HistoryInv`), a combined status that was kept from its request was green
then (`LegacyInv`), and the rollup is no better than its worst part. `GapInv` says of every
program counter which facets are already in the fragment, marked as missing, or not wanted.

**API client.** `TroubleInv` counts: attempts that are over were a trouble each, and a
refusal that was announced ends before the client wakes, so that a refusal met then is a new
trouble. No bound on time or on refusals is needed.

**Engine.** Each provider has one record of progress, a slot that is filled once, and the
client serves at most one of them (`EngineInv`, `RequestInv`); what a record has found and
missed is what its commands came to. Under `Inv` the steps of the providers stutter, the last
step of each is *collect* of `ObservePromise`, and `Merge` is its *publish*. Safety only: that
every command ends is liveness.

**Selection.** There is a best priority because the active rules are finitely many: the
library's induction over naturals takes an operator and cannot be used, but that the naturals
are well founded speaks of sets, which gives the least element of a set of numbers, here of
how many rules are below each (`BestExists`). `Decides` then says what is selected in terms of
one best rule and those tied with it. `TraceExplains` is the remark that the trace shows the
same priorities and the same suppression; `OrderFree`, that a rearrangement is a bijection of
places (`OrderIsInjective`) which carries the active rules, their best priority and those at it
along; `DegradeNeverPromotes`, that more degraded providers leave fewer active rules
(`FewerActive`), and the best of more is no worse (`FewerGainNothing`).

**Knowledge.** What a filter keeps is a list of the elements at some places (`Chosen`). The
rank of a place among them is injective because it grows (`RankGrows`), hence onto, the
places being finite (`RankIsBijective`), so nothing is lost or doubled (`ChosenFacts`). The
union keeps the first entry of each id, which exists (`UnionFacts`), and as ids are distinct
in a manifest that entry is the one selected (`UnionIsSelection`).

**Verdicts.** `FirstOtherFacts` says where a walk ends; the three theorems follow from which
verdicts are in the list. They are the step at one combiner, for lists of any length, of
what `OrderOnlyHidesErrors`, `LossNeverMatches` and `AllIsNotAnyNot` check for whole clauses.

**Reviews.** `TypeInv` adds to the types that no comment, review or request is from the
future; that is what makes *newest* mean something when the clock stands still. The status
comment is the newest one of the highest tier (`StatusCommentChosen`, with a greatest element
got as above), the classification is a ladder whose first rung that applies decides
(`FirstRung`), and every property is read off the rungs above a status: a status that counts
as reviewed is reached only past all the rungs for trouble and with evidence that names the
head. For `TimeEndsOnlyCooldowns` only the two rungs that look at the clock can change.

**Shipped rules.** The lemmas of `ShippedRulesProofs` are about any observation, reachable or
not. The priorities of both tables rise (`StateRising`, `RouteRising`), so the first rule whose
clause holds decides, alone (`FirstWins`), and the state it names has one route
(`RouteDecided`) and, with it, one procedure (`OneHint`). What is left is which of thirteen
clauses is the first one that holds (`ClauseFacts`): on a branch, or with a pull request, one
of the last three does (`Mapped`); the clauses for bots are 4 to 8, and the three before them
demand that no bot is in trouble (`TroubleFirst`). That is all that three of the four
properties need. `StateMatchesGuard` needs an invariant as well: the guard reads whether a bot
owes an answer and the rules do not, and they agree because an entry that counts as reviewed
owes none (`FacetInv`).

**Pull request.** `DoneOwesNothing` is that same fact, here derived from `TypeInv` through the
classification instead of assumed. So `merge_ready` and the guard both mean `Ready`
(`GuardAgrees`), which means evidence for the head and no unanswered request from every required bot
(`ReadyMeansReviewedState`, `UnansweredTriggerBlocksState`). An unanswered request is shown as owed
(`UnansweredAwaits`), which keeps the reviews from being complete, so that some bot is in
trouble (`AwaitedTrouble`) and the route waits for a bot (`TroubleFirst`).

**Labels and backfill.** `BackfillInv` is an invariant of each run by itself: it writes only
what it has still to write (`StageInv`); a label or pull request not known to have changed
since its list is as the run wants it, or still due (`LabelInv`, `PullInv`); and what is due
would be computed from it today (`CurrentInv`). `since` is what makes these hold while other
runs write: a write with the same knowledge changes nothing that another run relies on.

**Gate store.** The argument has three layers (`GateInductive`).

1. `ControlOf`: which locals are filled in at which step. Types are not inductive without
   it, since a step uses locals an earlier one wrote.
2. `TempInv`: a temporary file has one owner and at the rename holds what its owner built.
   Then a rename publishes a whole artifact (`FilesNeverTorn`), and it is the one that was
   validated. `CommitInv`: no subject, stored or being built, names a commit before it
   exists, so a new commit matches none (`CommitsInvalidate`).
3. `BackingInv`: every artifact that a gate holds, a process has read or built, or a report
   lists *carries its proof*: some configuration in force accepted it, its passing inputs
   were stored, and if it passes it is backed. `seen` and `proved` only grow, so what was
   true at the read is true at the rename, whatever happened in between. That is why the
   gap between `Status` and `Show` is harmless for passes.

The refinement maps a gate's latest proof to the artifact its file holds. Only `Rename` and
`Reconfigure` are steps of the ledger; every other step stutters.

`GateInductive!ProofInv` is what the proofs carry; no run checks it any more, since it is
proved.

**Only model-checked.** `EveryCommandEnds`, since it is liveness, and the properties of
`WhenClauses`, whose clauses are recursive: what `EvalValue` computes for every clause would
need induction over clauses. The three violations are TLC's counterexamples.

## 5. Not modelled, and the plan

Every other property of a run is a theorem. What could be proved next is the verdict of a
single operator, for which `Compare` and the operators would have to leave `Match` as the
combiners did.

What could still be modelled: the review facet that a pull request leaves which vanishes
between two pages of its threads, which reads as clean and undegraded (`GitHubCollect`
takes the step, no property is about it); gate signals that are read after the observation
(`GateArtifacts` beside `Workflow`); the knowledge index and its freshness check; that
a clause may name a path that is not in scope (`$` outside of `any`, `all` and `count`, or
`git.` inside), which the validator lets pass and nothing promises to refuse.

Left out for good: output formatting, JSON Schema validation, path lookup, schema export,
flag parsing, and the token and repository lookup through `gh`, which are input and output
or data. The repository's shell and JavaScript scripts are outside the Go program.
