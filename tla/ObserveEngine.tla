---------------------------- MODULE ObserveEngine ----------------------------
(***************************************************************************)
(* rgd observe (internal/observe, Engine.Collect): the enabled providers   *)
(* run one after the other or each in a goroutine, every one writes its    *)
(* slot of the results, and when all are in, the slots are merged in the   *)
(* order of the configuration.  The git provider runs commands; the github *)
(* provider asks GitHub through the client, one request at a time.         *)
(***************************************************************************)
EXTENDS ApiClient, Sequences, FiniteSets, Functions

CONSTANTS
  Commands,  \* what is run: the ids to collect, those built, and --serial
  Facts      \* what each provider looks for, in order

\* The registry knows two providers, and both look for something.
ASSUME FactsAssumption ==
  /\ DOMAIN Facts = {"git", "github"}
  /\ \A p \in DOMAIN Facts : Facts[p] \in Seq(Range(Facts[p])) \ {<<>>}
\* The configuration is refused when it names a provider twice.
ASSUME CommandsAssumption ==
  /\ Commands \subseteq [ids : Seq(DOMAIN Facts), built : SUBSET DOMAIN Facts, serial : BOOLEAN]
  /\ \A c \in Commands : IsInjective(c.ids)

VARIABLES
  stage,     \* of the command: "idle", "collecting", "published"
  command,
  work,      \* how far each started provider is, and the facts it has missed
  slot,      \* results
  doc        \* the published signals, and diagnostics result by result

vars == <<clientVars, stage, command, work, slot, doc>>

Providers == DOMAIN Facts
FactsOf   == [p \in Providers |-> Range(Facts[p])]

Indices == DOMAIN command.ids
Empty   == [id |-> "none"]
NoDoc   == [signals |-> <<>>, diags |-> <<>>, degraded |-> FALSE]

Diag(severity, provider, code) == [severity |-> severity, provider |-> provider, code |-> code]

\* A provider's Fragment, or its error.
Result(p, err, nil, facts, degraded, diags) ==
  [id |-> p, err |-> err, nil |-> nil, facts |-> facts, degraded |-> degraded, diags |-> diags]
\* A fact that was missed is not among the signals, has a diagnostic, and makes
\* the fragment degraded.
Fragment(p, missed) ==
  Result(p, FALSE, FALSE, FactsOf[p] \ missed, missed # {},
         [i \in 1 .. Cardinality(missed) |->
            IF p = "git" THEN Diag("warning", p, "") ELSE Diag("error", "github.facet", "")])
Failed(p) == Result(p, TRUE, TRUE, {}, FALSE, <<>>)
-----------------------------------------------------------------------------
Init ==
  /\ ClientInit
  /\ stage = "idle" /\ command = [ids |-> <<>>, built |-> {}, serial |-> FALSE]
  /\ work = <<>> /\ slot = <<>> /\ doc = NoDoc

Run ==
  /\ stage # "collecting"
  /\ stage' = "collecting"
  /\ command' \in Commands
  /\ work' = [i \in DOMAIN command'.ids |-> [done |-> 0, missed |-> {}]]
  /\ slot' = [i \in DOMAIN command'.ids |-> Empty]
  /\ doc' = NoDoc
  /\ UNCHANGED clientVars

\* The loop of a serial run reaches a provider when those before it are in.
Turn(i) ==
  /\ stage = "collecting"
  /\ i \in Indices /\ slot[i] = Empty
  /\ command.serial => \A j \in Indices : j < i => slot[j] # Empty
Runs(i, p) == Turn(i) /\ command.ids[i] = p /\ p \in command.built

\* A goroutine that sees the loop's variable instead of its own copy.
Fill_LastIndex(i, r) == slot' = [slot EXCEPT ![Len(slot)] = r]
Fill(i, r) == slot' = [slot EXCEPT ![i] = r]

\* rgd observe git while git is disabled: Build skips it, Collect does not know it.
Unknown(i) ==
  /\ Turn(i) /\ command.ids[i] \notin command.built
  /\ Fill(i, Failed(command.ids[i]))
  /\ UNCHANGED <<clientVars, stage, command, work, doc>>

GaveUp(p, nil) == Result(p, FALSE, nil, {}, TRUE, <<Diag("error", p, "gave_up")>>)

\* The provider gives up before its first fact: no working directory, or no git;
\* no repository, or no token when the signals were already begun.
GiveUp(i) ==
  /\ work[i].done = 0
  /\ \/ Runs(i, "git") /\ (Fill(i, Failed("git")) \/ Fill(i, GaveUp("git", TRUE)))
     \/ /\ Runs(i, "github") /\ call.at = "idle"
        /\ \E nil \in BOOLEAN : Fill(i, GaveUp("github", nil))
  /\ UNCHANGED <<clientVars, stage, command, work, doc>>

Advance(i, missed) ==
  work' = [work EXCEPT ![i].done = @ + 1, ![i].missed = @ \cup missed]

\* One git command, which may fail; that of a probe (the upstream, the default
\* branch of origin) reads as "there is none" then, and misses nothing.
GitCommand(i) ==
  /\ Runs(i, "git") /\ work[i].done < Len(Facts["git"])
  /\ \E missed \in SUBSET {Facts["git"][work[i].done + 1]} : Advance(i, missed)
  /\ UNCHANGED <<clientVars, stage, command, slot, doc>>

\* One facet: the request is made, and in the end it returns.
GitHubAsks(i) ==
  /\ Runs(i, "github") /\ work[i].done < Len(Facts["github"])
  /\ Request
  /\ UNCHANGED <<stage, command, work, slot, doc>>

GitHubHears(i) ==
  /\ Runs(i, "github") /\ call.at = "returned"
  /\ Advance(i, IF call.err = "none" THEN {}
                ELSE {Facts["github"][work[i].done + 1]})
  /\ call' = Idle
  /\ UNCHANGED <<window, troubles, stage, command, slot, doc>>

Collected(i) ==
  \E p \in Providers :
    /\ Runs(i, p) /\ work[i].done = Len(Facts[p])
    /\ Fill(i, Fragment(p, work[i].missed))
    /\ UNCHANGED <<clientVars, stage, command, work, doc>>

\* What Collect appends for one result.
DiagsOf(r) ==
  CASE r.err -> <<Diag("error", r.id, "provider_failed")>>
    [] ~ r.err /\ r.degraded -> <<Diag("warning", r.id, "provider_degraded")>> \o r.diags
    [] OTHER -> r.diags

AllIn == \A i \in Indices : slot[i] # Empty

Merge ==
  /\ stage = "collecting" /\ AllIn
  /\ LET has == {i \in Indices : ~ slot[i].err /\ ~ slot[i].nil}
     IN  doc' = [signals  |-> [p \in {slot[i].id : i \in has} |->
                                 slot[CHOOSE i \in has : slot[i].id = p].facts],
                 diags    |-> [i \in Indices |-> DiagsOf(slot[i])],
                 degraded |-> \E i \in Indices : slot[i].err \/ slot[i].degraded]
  /\ stage' = "published"
  /\ UNCHANGED <<clientVars, command, work, slot>>

\* degradedSources: the providers the engine marked; if there is none and the
\* observation is degraded all the same, those with an error.
Diags(diags) == UNION {Range(diags[i]) : i \in DOMAIN diags}
MarkedBy(diags) ==
  {d.provider : d \in {x \in Diags(diags) : x.code \in {"provider_failed", "provider_degraded"}}}
DegradedSet(diags, degraded) ==
  IF MarkedBy(diags) # {} \/ ~ degraded THEN MarkedBy(diags)
  ELSE {d.provider : d \in {x \in Diags(diags) : x.severity = "error"}}

Step(i) == Unknown(i) \/ GiveUp(i) \/ GitCommand(i) \/ GitHubAsks(i) \/ GitHubHears(i)
             \/ Collected(i)
Client      == (ClientStep \/ Environment) /\ UNCHANGED <<stage, command, work, slot, doc>>
Time        == Tick /\ UNCHANGED <<stage, command, work, slot, doc>>
GitHubFails == StartRefusing /\ UNCHANGED <<stage, command, work, slot, doc>>

Next ==
  \/ Run
  \/ \E i \in Indices : Step(i)
  \/ Merge
  \/ Client
  \/ Time
  \/ GitHubFails

\* Goroutines are scheduled, timers fire, and a request ends in an answer or in
\* the timeout of the HTTP client.  GitHub may refuse again whenever it likes, and
\* nobody has to run another command.
Fairness ==
  /\ \A i \in 1 .. Cardinality(Providers) : WF_vars(i \in Indices /\ Step(i))
  /\ WF_vars(Merge) /\ WF_vars(Client) /\ WF_vars(Time)

Spec == Init /\ [][Next]_vars /\ Fairness
-----------------------------------------------------------------------------
Asked    == {command.ids[i] : i \in Indices}
In       == {i \in Indices : slot[i] # Empty}
Found(i) == [nil |-> slot[i].nil, facts |-> slot[i].facts]
Gathered == [p \in {command.ids[i] : i \in In} |-> Found(CHOOSE i \in In : command.ids[i] = p)]
Shown    == IF stage # "published" THEN [known |-> FALSE]
            ELSE [known |-> TRUE, signals |-> doc.signals,
                  suppressed |-> DegradedSet(doc.diags, doc.degraded)]

Promise == INSTANCE ObservePromise WITH
  asked <- Asked, gathered <- Gathered, shown <- Shown

\* Goroutines, slots, the order of the merge and the way from diagnostics to
\* degraded sources come to what ObservePromise says: every provider is collected
\* once, the document waits for all of them, shows the facts each of them found
\* under its own id, and suppresses exactly the providers that missed something.
ImplementsPromise == Promise!Spec

\* Every command ends, however often GitHub refuses, and however long: four
\* attempts for each request, and every wait is over some day.
EveryCommandEnds == (stage = "collecting") ~> (stage = "published")
=============================================================================
