----------------------------- MODULE PrBackfill -----------------------------
(***************************************************************************)
(* The backfill of open pull requests (internal/prbackfill): they are      *)
(* listed once, then one after the other gets the missing sections of its  *)
(* body and the type label its title asks for.  A body and a set of labels *)
(* are replaced as a whole by what was computed from the list, while       *)
(* people edit pull requests and labels, other backfills run, and so do    *)
(* the label commands, on the same repository.                             *)
(***************************************************************************)
EXTENDS RepoLabels

CONSTANTS
  Pulls,       \* the open pull requests in the order of the list
  TypeLabels,  \* labels.TypeLabels: each is also a type a title may have
  Titles,      \* the types a title may have; Untyped is none
  FirstPulls,  \* what the pull requests may be like at the start
  FirstLooks,  \* what the labels may look like at the start
  Commands,    \* the commands of each agent
  MaxEdits     \* what people do is counted up to this number

VARIABLES
  pr,    \* of each pull request its title, labels and body
  edits  \* what people have done

vars == <<look, run, pr, edits>>

Untyped == "untyped"

Bodies       == [text : Nat, whole : BOOLEAN]
PullRequests == [title : Titles, labels : SUBSET Labels, body : Bodies]
Appearances  == {"none", "configured", "recolored", "redescribed"}

ASSUME BackfillAssumption ==
  /\ Pulls \in Seq(Range(Pulls)) /\ TypeLabels \subseteq Labels
  /\ FirstPulls \subseteq [Range(Pulls) -> PullRequests]
  /\ FirstLooks \subseteq [Labels -> Appearances]
  /\ Commands \in [Agents -> SUBSET (LabelCommands \cup {"backfill"})]

\* The sections the policy asks for are all there, or not.
EnsureSections(body) == [body EXCEPT !.whole = TRUE]

Desired_TypeOnly(labels, want) == {want}
Desired(labels, want) == (labels \ TypeLabels) \cup {want}

NeedsLabels_WhenMissing(p) == p.title \in TypeLabels /\ p.title \notin p.labels
NeedsLabels_Untitled(p) == p.labels # Desired(p.labels, p.title)
NeedsLabels(p) == p.title \in TypeLabels /\ p.labels # Desired(p.labels, p.title)
-----------------------------------------------------------------------------
Init ==
  /\ look \in FirstLooks
  /\ pr \in FirstPulls
  /\ run = [a \in Agents |-> Idle]
  /\ edits = 0

NeedsSections(p) == EnsureSections(p.body) # p.body

\* The two places of a pull request in the walk: first the body, then the labels.
PullAt(k) == Pulls[(k + 1) \div 2]
BodyPlaces  == {2 * i - 1 : i \in {j \in DOMAIN Pulls : NeedsSections(pr[Pulls[j]])}}
LabelPlaces == {2 * i : i \in {j \in DOMAIN Pulls : NeedsLabels(pr[Pulls[j]])}}

\* A title without a type asks for no labels.
PullTasks ==
  [k \in BodyPlaces \cup LabelPlaces |->
     LET p == PullAt(k)
     IN  IF k \in BodyPlaces THEN Task("body", p, EnsureSections(pr[p].body))
         ELSE Task("labels", p, Desired(pr[p].labels, pr[p].title))]

ListPulls(a) ==
  /\ run[a].at = "listing" /\ run[a].cmd = "backfill"
  /\ \/ Fails(a)
     \/ run' = [run EXCEPT ![a] = Proceed(a, PullTasks)]
  /\ UNCHANGED <<look, pr, edits>>

PatchBody(a, i) ==
  /\ Writes(a, i, "body")
  /\ LET t == run[a].todo[i]
     IN  Gh(a, i, pr' = [pr EXCEPT ![t.thing].body = t.as], UNCHANGED pr)
  /\ UNCHANGED <<look, edits>>

\* GitHub replaces the labels, and creates those that are not there.
PutLabels(a, i) ==
  /\ Writes(a, i, "labels")
  /\ LET t == run[a].todo[i]
     IN  Gh(a, i,
            /\ pr' = [pr EXCEPT ![t.thing].labels = t.as]
            /\ look' = [x \in Labels |-> IF x \in t.as /\ look[x] = "none" THEN "recolored"
                                         ELSE look[x]],
            UNCHANGED <<pr, look>>)
  /\ UNCHANGED edits

BackfillStep(a) ==
  ListPulls(a) \/ \E i \in DOMAIN run[a].todo : PatchBody(a, i) \/ PutLabels(a, i)

\* Somebody edits a pull request,
EditPull(p) ==
  /\ \/ \E t \in Titles \ {pr[p].title} : pr' = [pr EXCEPT ![p].title = t]
     \/ \E w \in BOOLEAN : pr' = [pr EXCEPT ![p].body = [text |-> @.text + 1, whole |-> w]]
     \/ \E x \in Existing \ pr[p].labels : pr' = [pr EXCEPT ![p].labels = @ \cup {x}]
     \/ \E x \in pr[p].labels : pr' = [pr EXCEPT ![p].labels = @ \ {x}]
  /\ People({p})
  /\ UNCHANGED look

\* changes how a label looks,
Repaint(x) ==
  /\ look[x] # "none"
  /\ look' \in {[look EXCEPT ![x] = l] : l \in {"recolored", "redescribed"}}
  /\ People({x})
  /\ UNCHANGED pr

\* or deletes one, which takes it off every pull request.
DeleteLabel(x) ==
  /\ look[x] # "none"
  /\ look' = [look EXCEPT ![x] = "none"]
  /\ pr' = [p \in DOMAIN pr |-> [pr[p] EXCEPT !.labels = @ \ {x}]]
  /\ People({x} \cup {p \in DOMAIN pr : x \in pr[p].labels})

Edit ==
  /\ edits < MaxEdits /\ edits' = edits + 1
  /\ \/ \E p \in DOMAIN pr : EditPull(p)
     \/ \E x \in Labels : Repaint(x) \/ DeleteLabel(x)

Next ==
  \/ Edit
  \/ \E a \in Agents :
       \/ (Start(a, Commands) \/ LabelStep(a)) /\ UNCHANGED <<pr, edits>>
       \/ BackfillStep(a)

Spec == Init /\ [][Next]_vars
-----------------------------------------------------------------------------
\* The policy: every section, and the one type label the title names, if it names one.
Conforms(p) == p.body.whole /\ (p.title \in TypeLabels => p.labels \cap TypeLabels = {p.title})

\* .github/CONTRIBUTING.md: the backfill is there "to add missing template sections
\* and type labels on already-open PRs".  When it ends well, every pull request
\* nobody has touched meanwhile conforms, whatever other backfills had seen, done or
\* left half done.
PullsConform ==
  \A a \in Agents : run[a].cmd = "backfill" /\ run[a].at = "done" =>
    \A p \in Range(Pulls) \ run[a].since : Conforms(pr[p])

Moves(a) == run'[a].at # run[a].at \/ run'[a].todo # run[a].todo
\* A backfill writes to p what it computed before p was changed.
Outdated(p) == \E a \in Agents : Moves(a) /\ p \in run[a].since
Commanded   == edits' = edits

\* What people have written survives: no command takes a label without a type off a
\* pull request, puts one back, or undoes an edit of the body, unless it happened
\* after that run had listed the pull requests.  (That it may happen then is the
\* price of replacing all labels and the whole body.)
PeoplesWorkKept ==
  [][Commanded => \A p \in Range(Pulls) :
       \/ /\ pr'[p].labels \ TypeLabels = pr[p].labels \ TypeLabels
          /\ pr'[p].body.text = pr[p].body.text
       \/ Outdated(p)]_vars

\* "It replaces all type labels with the inferred one" and otherwise leaves the pull
\* request alone: one that conforms, or whose title says nothing, is not changed by
\* any number of backfills, those in the middle of repairing it included.
ConformingLeftAlone ==
  [][Commanded => \A p \in Range(Pulls) :
       Conforms(pr[p]) /\ pr'[p] # pr[p] => Outdated(p)]_vars
=============================================================================
