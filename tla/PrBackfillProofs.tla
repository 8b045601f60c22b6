-------------------------- MODULE PrBackfillProofs --------------------------
(***************************************************************************)
(* Label commands and backfills of any number of people, on any number of  *)
(* labels and pull requests: what ends well has repaired what it saw, and  *)
(* only what changed after its list is overwritten.                        *)
(***************************************************************************)
EXTENDS PrBackfill, TLAPS

PullSet == Range(Pulls)
Things  == Labels \cup PullSet
Stages  == {"idle", "listing", "writing", "done"}

\* What is still to be written is a task of one of the two kinds of commands.
Tasks == [op : {"create", "edit"}, thing : Labels, as : {"configured"}] \cup
         [op : {"body"}, thing : PullSet, as : Bodies] \cup
         [op : {"labels"}, thing : PullSet, as : SUBSET Labels]
TaskLists == UNION {[S -> Tasks] : S \in SUBSET Nat}

Runs == [cmd : LabelCommands \cup {"backfill", "none"}, at : Stages,
         todo : TaskLists, since : SUBSET Things]

TypeOK ==
  /\ look \in [Labels -> Appearances]
  /\ pr \in [PullSet -> PullRequests]
  /\ run \in [Agents -> Runs]
  /\ edits \in Nat

Listed(r) == r.at \in {"writing", "done"}
Due(r, thing, ops) == \E i \in DOMAIN r.todo : r.todo[i].thing = thing /\ r.todo[i].op \in ops

\* A run has tasks while it writes.
StageInv(r) == r.at # "writing" => DOMAIN r.todo = {}

\* A label that a listed run does not know to have changed is as the run wants
\* it, or still to be written.
LabelWork(r, x) ==
  /\ r.cmd \in {"ensure", "sync"} => look[x] # "none" \/ Due(r, x, {"create"})
  /\ r.cmd = "sync" => look[x] = "configured" \/ Due(r, x, {"create", "edit"})
LabelInv(r) == Listed(r) => \A x \in Configured \ r.since : LabelWork(r, x)

TypeLabelFits(p) == p.title \in TypeLabels => p.labels \cap TypeLabels = {p.title}

\* So is such a pull request, for a backfill.
PullWork(r, p) ==
  /\ pr[p].body.whole \/ Due(r, p, {"body"})
  /\ TypeLabelFits(pr[p]) \/ Due(r, p, {"labels"})
PullInv(r) ==
  Listed(r) /\ r.cmd = "backfill" => \A p \in PullSet \ r.since : PullWork(r, p)

\* And what is still to be written to it would be computed from it today.
Current(t, p) ==
  /\ t.op = "body" => t.as = EnsureSections(p.body)
  /\ t.op = "labels" => p.title \in TypeLabels /\ t.as = Desired(p.labels, p.title)
CurrentInv(r) ==
  \A i \in DOMAIN r.todo :
    r.todo[i].thing \notin r.since => Current(r.todo[i], pr[r.todo[i].thing])

RunInv(r)   == StageInv(r) /\ LabelInv(r) /\ PullInv(r) /\ CurrentInv(r)
BackfillInv == TypeOK /\ \A a \in Agents : RunInv(run[a])
-----------------------------------------------------------------------------
\* Task lists are what their name says, and so is what is left of one.
LEMMA TaskListFacts ==
  /\ <<>> \in TaskLists /\ DOMAIN <<>> = {}
  /\ \A S \in SUBSET Nat : [S -> Tasks] \subseteq TaskLists
  /\ \A t \in TaskLists : /\ DOMAIN t \subseteq Nat
                         /\ \A i \in DOMAIN t : t[i] \in Tasks
                         /\ \A S : Restrict(t, DOMAIN t \ S) \in TaskLists
  <1>1. <<>> \in [{} -> Tasks] /\ DOMAIN <<>> = {}
    OBVIOUS
  <1>2. ASSUME NEW t \in TaskLists
        PROVE  /\ DOMAIN t \subseteq Nat
               /\ \A i \in DOMAIN t : t[i] \in Tasks
               /\ \A S : Restrict(t, DOMAIN t \ S) \in TaskLists
    <2>1. PICK T \in SUBSET Nat : t \in [T -> Tasks]
      BY DEF TaskLists
    <2>2. ASSUME NEW S
          PROVE  Restrict(t, DOMAIN t \ S) \in TaskLists
      <3>1. Restrict(t, DOMAIN t \ S) \in [T \ S -> Tasks]
        BY <2>1 DEF Restrict
      <3>2. QED  BY <3>1 DEF TaskLists
    <2>3. QED  BY <2>1, <2>2
  <1>3. \A S \in SUBSET Nat : [S -> Tasks] \subseteq TaskLists
    BY DEF TaskLists
  <1>4. {} \in SUBSET Nat
    OBVIOUS
  <1>5. QED  BY <1>1, <1>2, <1>3, <1>4

\* A run that has listed nothing promises nothing.
LEMMA Unlisted ==
  ASSUME NEW r \in Runs, r.at \in {"idle", "listing"}, DOMAIN r.todo = {}
  PROVE  RunInv(r)
  BY DEF RunInv, StageInv, LabelInv, PullInv, CurrentInv, Listed

LEMMA IdleFacts == Idle \in Runs /\ Idle.at = "idle" /\ DOMAIN Idle.todo = {}
  BY TaskListFacts DEF Idle, Runs, Stages

LEMMA InitBackfill == Init => BackfillInv
  <1> SUFFICES ASSUME Init PROVE BackfillInv
    OBVIOUS
  <1>1. TypeOK
    BY IdleFacts, BackfillAssumption DEF Init, TypeOK, PullSet
  <1>2. \A a \in Agents : RunInv(run[a])
    BY IdleFacts, Unlisted DEF Init
  <1>3. QED  BY <1>1, <1>2 DEF BackfillInv
-----------------------------------------------------------------------------
(***************************************************************************)
(* Those who do not move.  What they rely on outlives a step that keeps    *)
(* labels and pull requests alike.                                         *)
(***************************************************************************)
LooksAlike(x) ==
  /\ look[x] # "none" => look'[x] # "none"
  /\ look[x] = "configured" => look'[x] = "configured"
PullAlike(p, q) ==
  /\ q.title = p.title
  /\ q.body.text = p.body.text /\ (p.body.whole => q.body.whole)
  /\ q.labels \ TypeLabels = p.labels \ TypeLabels
  /\ TypeLabelFits(p) => TypeLabelFits(q)

\* The run s is r, perhaps with more news.
Bystander(r, s) ==
  /\ s \in Runs
  /\ s.cmd = r.cmd /\ s.at = r.at /\ s.todo = r.todo /\ r.since \subseteq s.since
  /\ Listed(r) => /\ \A x \in Configured \ s.since : LooksAlike(x)
                  /\ \A p \in PullSet \ s.since : PullAlike(pr[p], pr'[p])

\* What would be computed from a pull request is computed from one alike.
LEMMA CurrentKept ==
  ASSUME NEW t \in Tasks, NEW p \in PullRequests, NEW q \in PullRequests,
         Current(t, p), PullAlike(p, q)
  PROVE  Current(t, q)
  <1>1. EnsureSections(p.body) = EnsureSections(q.body)
    BY DEF PullAlike, EnsureSections, PullRequests, Bodies
  <1>2. Desired(p.labels, p.title) = Desired(q.labels, q.title)
    BY DEF PullAlike, Desired
  <1>3. QED  BY <1>1, <1>2 DEF Current, PullAlike

LEMMA BystanderKept ==
  ASSUME TypeOK, TypeOK', NEW a \in Agents, RunInv(run[a]), Bystander(run[a], run'[a])
  PROVE  RunInv(run[a])'
  <1> DEFINE r == run[a]
             s == run'[a]
  <1>1. r \in Runs /\ s \in Runs
    BY DEF TypeOK
  <1>2. StageInv(s)
    BY DEF RunInv, StageInv, Bystander
  <1>d. /\ s.cmd = r.cmd /\ r.since \subseteq s.since
        /\ Listed(s) <=> Listed(r)
        /\ \A thing, ops : Due(s, thing, ops) <=> Due(r, thing, ops)
    BY DEF Bystander, Listed, Due
  <1>3. LabelInv(run[a])'
    <2>1. SUFFICES ASSUME Listed(s), NEW x \in Configured \ s.since
                   PROVE  LabelWork(run[a], x)'
      BY DEF LabelInv, Listed
    <2>2. LabelWork(r, x) /\ LooksAlike(x)
      BY <1>d, <2>1 DEF RunInv, LabelInv, Bystander
    <2>3. /\ s.cmd \in {"ensure", "sync"} => look'[x] # "none" \/ Due(s, x, {"create"})
          /\ s.cmd = "sync" => look'[x] = "configured" \/ Due(s, x, {"create", "edit"})
      BY <1>d, <2>2 DEF LabelWork, LooksAlike
    <2>4. QED  BY <2>3 DEF LabelWork, Due
  <1>4. PullInv(run[a])'
    <2>1. SUFFICES ASSUME Listed(s), s.cmd = "backfill", NEW p \in PullSet \ s.since
                   PROVE  PullWork(run[a], p)'
      BY DEF PullInv, Listed
    <2>2. PullWork(r, p) /\ PullAlike(pr[p], pr'[p])
      BY <1>d, <2>1 DEF RunInv, PullInv, Bystander
    <2>3. /\ pr'[p].body.whole \/ Due(s, p, {"body"})
          /\ TypeLabelFits(pr'[p]) \/ Due(s, p, {"labels"})
      BY <1>d, <2>2 DEF PullWork, PullAlike
    <2>4. QED  BY <2>3 DEF PullWork, Due, TypeLabelFits
  <1>5. CurrentInv(run[a])'
    <2>1. SUFFICES ASSUME NEW i \in DOMAIN s.todo, s.todo[i].thing \notin s.since
                   PROVE  Current(s.todo[i], pr'[s.todo[i].thing])
      BY DEF CurrentInv
    <2> DEFINE t == r.todo[i]
    <2>2. i \in DOMAIN r.todo /\ s.todo[i] = t /\ Current(t, pr[t.thing])
      BY <2>1 DEF RunInv, CurrentInv, Bystander
    <2>3. t \in Tasks
      BY <1>1, <2>2, TaskListFacts DEF Runs
    <2>4. Listed(r)
      BY <1>1, <2>2 DEF RunInv, StageInv, Listed
    <2>5. CASE t.op \in {"body", "labels"}
      <3>1. t.thing \in PullSet
        BY <2>3, <2>5 DEF Tasks
      <3>2. PullAlike(pr[t.thing], pr'[t.thing])
        BY <2>1, <2>2, <2>4, <3>1 DEF Bystander
      <3>3. pr[t.thing] \in PullRequests /\ pr'[t.thing] \in PullRequests
        BY <3>1 DEF TypeOK
      <3>4. QED  BY <2>2, <2>3, <3>2, <3>3, CurrentKept
    <2>6. CASE t.op \notin {"body", "labels"}
      BY <2>2, <2>6 DEF Current
    <2>7. QED  BY <2>5, <2>6
  <1>6. QED  BY <1>2, <1>3, <1>4, <1>5 DEF RunInv
-----------------------------------------------------------------------------
(***************************************************************************)
(* Starting and listing.                                                   *)
(***************************************************************************)
LEMMA OnlyTheRun ==
  ASSUME BackfillInv, UNCHANGED <<look, pr, edits>>, NEW a \in Agents,
         NEW s \in Runs, RunInv(s), run' = [run EXCEPT ![a] = s]
  PROVE  BackfillInv'
  <1>1. TypeOK'
    BY DEF BackfillInv, TypeOK
  <1>2. \A b \in Agents : run'[b] = IF b = a THEN s ELSE run[b]
    BY DEF BackfillInv, TypeOK
  <1>3. \A b \in Agents : RunInv(run'[b])
    BY <1>2 DEF BackfillInv
  <1>4. \A b \in Agents : RunInv(run[b])'
    BY <1>3 DEF RunInv, StageInv, LabelInv, LabelWork, PullInv, PullWork, CurrentInv, Listed, Due
  <1>5. QED  BY <1>1, <1>4 DEF BackfillInv

\* A run that ends unlisted, as one that fails does.
LEMMA FailsKept ==
  ASSUME BackfillInv, UNCHANGED <<look, pr, edits>>, NEW a \in Agents, Fails(a)
  PROVE  BackfillInv'
  BY IdleFacts, Unlisted, OnlyTheRun DEF Fails

LEMMA StartKept ==
  ASSUME BackfillInv, NEW a \in Agents, Start(a, Commands), UNCHANGED <<pr, edits>>
  PROVE  BackfillInv'
  <1>1. PICK c \in Commands[a] : run' = [run EXCEPT ![a] = [Idle EXCEPT !.cmd = c, !.at = "listing"]]
    BY DEF Start
  <1> DEFINE s == [Idle EXCEPT !.cmd = c, !.at = "listing"]
  <1>2. c \in LabelCommands \cup {"backfill"}
    BY BackfillAssumption
  <1>3. s \in Runs /\ s.at = "listing" /\ DOMAIN s.todo = {}
    BY <1>2, IdleFacts DEF Idle, Runs, Stages
  <1>4. RunInv(s)
    BY <1>3, Unlisted
  <1>5. QED  BY <1>1, <1>3, <1>4, OnlyTheRun DEF Start

\* What a run that has listed goes on with.
LEMMA ProceedFacts ==
  ASSUME TypeOK, NEW a \in Agents, NEW todo \in TaskLists
  PROVE  LET s == Proceed(a, todo)
         IN  /\ s \in Runs /\ StageInv(s)
             /\ s.cmd = run[a].cmd /\ s.since = run[a].since /\ s.todo = todo
             /\ Listed(s)
  BY DEF TypeOK, Runs, Proceed, Stages, StageInv, Listed

\* The tasks of ensure and sync cover what the list shows to be missing or to differ.
LEMMA LabelTasksKept ==
  ASSUME TypeOK, NEW a \in Agents, run[a].cmd \in LabelCommands,
         NEW listed, listed \subseteq Existing
  PROVE  LET s == Proceed(a, LabelTasks(run[a].cmd, listed))
         IN  s \in Runs /\ RunInv(s)
  <1> DEFINE cmd == run[a].cmd
             order == IF cmd = "ensure" THEN Declared ELSE Sorted
             todo == LabelTasks(cmd, listed)
             s == Proceed(a, todo)
  <1>1. /\ Range(order) = Configured /\ DOMAIN order \subseteq Nat
        /\ \A i \in DOMAIN order : order[i] \in Labels
    BY LabelsAssumption DEF Configured
  <1>2. /\ DOMAIN todo = {j \in DOMAIN order : Needs(cmd, order[j], listed) # "nothing"}
        /\ \A i \in DOMAIN todo : todo[i] = Task(Needs(cmd, order[i], listed), order[i], "configured")
    BY DEF LabelTasks
  <1>a. todo = [i \in DOMAIN todo |-> todo[i]]
    BY DEF LabelTasks
  <1>b. \A x : Needs(cmd, x, listed) \in {"create", "edit", "nothing"}
    BY DEF Needs
  <1> HIDE DEF order, todo
  <1>3. \A i \in DOMAIN todo : todo[i] \in Tasks /\ todo[i].op \in {"create", "edit"}
    <2>1. SUFFICES ASSUME NEW i \in DOMAIN todo
                   PROVE  todo[i] \in Tasks /\ todo[i].op \in {"create", "edit"}
      OBVIOUS
    <2>2. Needs(cmd, order[i], listed) \in {"create", "edit"} /\ order[i] \in Labels
      BY <1>1, <1>2, <1>b
    <2>3. QED  BY <1>2, <2>2 DEF Task, Tasks
  <1>4. todo \in [DOMAIN todo -> Tasks] /\ DOMAIN todo \subseteq Nat
    BY <1>1, <1>2, <1>3, <1>a
  <1>5. todo \in TaskLists
    BY <1>4, TaskListFacts
  <1>6. s \in Runs /\ StageInv(s) /\ s.cmd = cmd /\ s.todo = todo
    BY <1>5, ProceedFacts
  <1>7. LabelInv(s)
    <2>1. SUFFICES ASSUME NEW x \in Configured PROVE LabelWork(s, x)
      BY DEF LabelInv
    <2>2. PICK i \in DOMAIN order : order[i] = x
      BY <1>1 DEF Range
    <2>3. CASE Needs(cmd, x, listed) = "nothing"
      BY <1>6, <2>3 DEF Needs, LabelWork, Existing, Differs
    <2>4. CASE Needs(cmd, x, listed) # "nothing"
      <3>1. /\ i \in DOMAIN todo /\ todo[i].thing = x
            /\ todo[i].op = Needs(cmd, x, listed)
        BY <1>2, <2>2, <2>4 DEF Task
      <3>2. /\ Needs(cmd, x, listed) = "create" \/ Needs(cmd, x, listed) = "edit"
            /\ Needs(cmd, x, listed) = "edit" => look[x] # "none" /\ cmd = "sync"
        BY <1>b, <2>4 DEF Needs, Existing
      <3>3. \A ops : Needs(cmd, x, listed) \in ops => Due(s, x, ops)
        BY <1>6, <3>1 DEF Due
      <3>4. QED  BY <1>6, <3>2, <3>3 DEF LabelWork
    <2>5. QED  BY <2>3, <2>4
  <1>8. PullInv(s) /\ CurrentInv(s)
    BY <1>3, <1>6 DEF PullInv, CurrentInv, Current, LabelCommands
  <1>9. QED  BY <1>6, <1>7, <1>8 DEF RunInv, todo

LEMMA ListLabelsKept ==
  ASSUME BackfillInv, NEW a \in Agents, ListLabels(a), UNCHANGED <<pr, edits>>
  PROVE  BackfillInv'
  <1>1. CASE Fails(a)
    BY <1>1, FailsKept DEF ListLabels
  <1>2. ASSUME NEW listed \in SUBSET Existing,
               run' = [run EXCEPT ![a] = Proceed(a, LabelTasks(run[a].cmd, listed))]
        PROVE  BackfillInv'
    BY <1>2, LabelTasksKept, OnlyTheRun DEF ListLabels, BackfillInv
  <1>3. QED  BY <1>1, <1>2 DEF ListLabels, kSubset

\* The places of a pull request in the walk are its own.
LEMMA PlacesFacts ==
  /\ \A k \in BodyPlaces : /\ k \in Nat /\ PullAt(k) \in PullSet
                          /\ NeedsSections(pr[PullAt(k)])
  /\ \A k \in LabelPlaces : /\ k \in Nat /\ PullAt(k) \in PullSet /\ k \notin BodyPlaces
                           /\ NeedsLabels(pr[PullAt(k)])
  /\ \A p \in PullSet :
       /\ NeedsSections(pr[p]) => \E k \in BodyPlaces : PullAt(k) = p
       /\ NeedsLabels(pr[p]) => \E k \in LabelPlaces : PullAt(k) = p
  <1>1. DOMAIN Pulls \subseteq Nat \ {0}
    BY BackfillAssumption
  <1>2. ASSUME NEW i \in Nat \ {0}
        PROVE  /\ 2 * i - 1 \in Nat /\ (2 * i - 1 + 1) \div 2 = i
               /\ 2 * i \in Nat /\ (2 * i + 1) \div 2 = i
    OBVIOUS
  <1>3. \A i \in DOMAIN Pulls : Pulls[i] \in PullSet
    BY DEF PullSet, Range
  <1>4. ASSUME NEW k \in BodyPlaces
        PROVE  k \in Nat /\ PullAt(k) \in PullSet /\ NeedsSections(pr[PullAt(k)])
    <2>1. PICK i \in DOMAIN Pulls : k = 2 * i - 1 /\ NeedsSections(pr[Pulls[i]])
      BY DEF BodyPlaces
    <2>2. k \in Nat /\ (k + 1) \div 2 = i
      BY <1>1, <1>2, <2>1
    <2>3. QED  BY <1>3, <2>1, <2>2 DEF PullAt
  <1>5. ASSUME NEW k \in LabelPlaces
        PROVE  /\ k \in Nat /\ PullAt(k) \in PullSet /\ k \notin BodyPlaces
               /\ NeedsLabels(pr[PullAt(k)])
    <2>1. PICK i \in DOMAIN Pulls : k = 2 * i /\ NeedsLabels(pr[Pulls[i]])
      BY DEF LabelPlaces
    <2>2. k \in Nat /\ (k + 1) \div 2 = i
      BY <1>1, <1>2, <2>1
    <2>3. \A j \in DOMAIN Pulls : k # 2 * j - 1
      BY <1>1, <2>1
    <2>4. QED  BY <1>3, <2>1, <2>2, <2>3 DEF PullAt, BodyPlaces
  <1>6. ASSUME NEW p \in PullSet
        PROVE  /\ NeedsSections(pr[p]) => \E k \in BodyPlaces : PullAt(k) = p
               /\ NeedsLabels(pr[p]) => \E k \in LabelPlaces : PullAt(k) = p
    <2>1. PICK i \in DOMAIN Pulls : Pulls[i] = p
      BY DEF PullSet, Range
    <2>2. PullAt(2 * i - 1) = p /\ PullAt(2 * i) = p
      BY <1>1, <1>2, <2>1 DEF PullAt
    <2>3. NeedsSections(pr[p]) => 2 * i - 1 \in BodyPlaces
      BY <2>1 DEF BodyPlaces
    <2>4. NeedsLabels(pr[p]) => 2 * i \in LabelPlaces
      BY <2>1 DEF LabelPlaces
    <2>5. QED  BY <2>2, <2>3, <2>4
  <1>7. QED  BY <1>4, <1>5, <1>6

\* The tasks of a backfill cover every pull request of the list.
LEMMA PullTasksKept ==
  ASSUME TypeOK, NEW a \in Agents, run[a].cmd = "backfill"
  PROVE  LET s == Proceed(a, PullTasks) IN s \in Runs /\ RunInv(s)
  <1> DEFINE todo == PullTasks
             s == Proceed(a, todo)
  <1>1. /\ DOMAIN todo = BodyPlaces \cup LabelPlaces
        /\ todo = [k \in DOMAIN todo |-> todo[k]]
        /\ \A k \in BodyPlaces :
             todo[k] = Task("body", PullAt(k), EnsureSections(pr[PullAt(k)].body))
        /\ \A k \in LabelPlaces : k \notin BodyPlaces =>
             todo[k] = Task("labels", PullAt(k),
                            Desired(pr[PullAt(k)].labels, pr[PullAt(k)].title))
    BY DEF PullTasks
  <1> HIDE DEF todo
  <1>2. ASSUME NEW k \in BodyPlaces
        PROVE  /\ todo[k] \in Tasks /\ todo[k].op = "body" /\ todo[k].thing = PullAt(k)
               /\ Current(todo[k], pr[todo[k].thing])
    <2>1. PullAt(k) \in PullSet
      BY PlacesFacts
    <2>2. EnsureSections(pr[PullAt(k)].body) \in Bodies
      BY <2>1 DEF TypeOK, PullRequests, Bodies, EnsureSections
    <2>3. QED  BY <1>1, <2>1, <2>2 DEF Task, Tasks, Current
  <1>3. ASSUME NEW k \in LabelPlaces
        PROVE  /\ todo[k] \in Tasks /\ todo[k].op = "labels" /\ todo[k].thing = PullAt(k)
               /\ Current(todo[k], pr[todo[k].thing])
    <2>1. PullAt(k) \in PullSet /\ k \notin BodyPlaces /\ pr[PullAt(k)].title \in TypeLabels
      BY PlacesFacts DEF NeedsLabels
    <2>2. Desired(pr[PullAt(k)].labels, pr[PullAt(k)].title) \in SUBSET Labels
      BY <2>1, BackfillAssumption DEF TypeOK, PullRequests, Desired
    <2>3. QED  BY <1>1, <2>1, <2>2 DEF Task, Tasks, Current
  <1>4. todo \in TaskLists
    <2>1. todo \in [DOMAIN todo -> Tasks]
      BY <1>1, <1>2, <1>3
    <2>2. DOMAIN todo \subseteq Nat
      BY <1>1, PlacesFacts
    <2>3. QED  BY <2>1, <2>2, TaskListFacts
  <1>5. /\ s \in Runs /\ StageInv(s) /\ s.cmd = "backfill" /\ s.todo = todo
    BY <1>4, ProceedFacts
  <1>6. CurrentInv(s)
    BY <1>1, <1>2, <1>3, <1>5 DEF CurrentInv
  <1>7. PullInv(s)
    <2>1. SUFFICES ASSUME NEW p \in PullSet PROVE PullWork(s, p)
      BY DEF PullInv
    <2>2. pr[p] \in PullRequests
      BY DEF TypeOK
    <2>3. NeedsSections(pr[p]) => Due(s, p, {"body"})
      BY <1>1, <1>2, <1>5, PlacesFacts DEF Due
    <2>4. ~ NeedsSections(pr[p]) => pr[p].body.whole
      BY <2>2 DEF NeedsSections, EnsureSections, PullRequests, Bodies
    <2>5. NeedsLabels(pr[p]) => Due(s, p, {"labels"})
      BY <1>1, <1>3, <1>5, PlacesFacts DEF Due
    <2>6. ~ NeedsLabels(pr[p]) => TypeLabelFits(pr[p])
      BY <2>2 DEF NeedsLabels, TypeLabelFits, Desired, PullRequests
    <2>7. QED  BY <2>3, <2>4, <2>5, <2>6 DEF PullWork
  <1>8. LabelInv(s)
    BY <1>5 DEF LabelInv, LabelWork
  <1>9. QED  BY <1>5, <1>6, <1>7, <1>8 DEF RunInv, todo

LEMMA ListPullsKept ==
  ASSUME BackfillInv, NEW a \in Agents, ListPulls(a)
  PROVE  BackfillInv'
  <1>1. CASE Fails(a)
    BY <1>1, FailsKept DEF ListPulls
  <1>2. CASE run' = [run EXCEPT ![a] = Proceed(a, PullTasks)]
    BY <1>2, PullTasksKept, OnlyTheRun DEF ListPulls, BackfillInv
  <1>3. QED  BY <1>1, <1>2 DEF ListPulls
-----------------------------------------------------------------------------
(***************************************************************************)
(* Writing.                                                                *)
(***************************************************************************)
\* News makes a bystander of whoever has listed, and leaves the others as they are.
LEMMA NoticedFacts ==
  ASSUME NEW r \in Runs, NEW things \in SUBSET Things
  PROVE  LET s == Noticed(r, things)
         IN  /\ s \in Runs /\ s.cmd = r.cmd /\ s.at = r.at /\ s.todo = r.todo
             /\ r.since \subseteq s.since /\ (Listed(r) => things \subseteq s.since)
  BY DEF Noticed, Runs, Listed

\* What the write of a task t comes to: what was right before stays so, and what
\* the task was for is done, unless the run does not know of a change.
Writing(a, t) ==
  /\ look' \in [Labels -> Appearances] /\ pr' \in [PullSet -> PullRequests] /\ edits' = edits
  /\ \A x \in Configured : LooksAlike(x)
  /\ \A p \in PullSet :
       p # t.thing \/ t.thing \notin run[a].since => PullAlike(pr[p], pr'[p])
  /\ t.op \in {"create", "edit"} => look'[t.thing] = "configured"
  /\ t.op = "body" /\ t.thing \notin run[a].since => pr'[t.thing].body.whole
  /\ t.op = "labels" /\ t.thing \notin run[a].since => TypeLabelFits(pr'[t.thing])

\* Everybody but the one who writes is a bystander.
LEMMA GoesFacts ==
  ASSUME BackfillInv, NEW a \in Agents, NEW t \in Tasks, NEW s \in Runs,
         Writing(a, t), Goes(a, s, t.thing)
  PROVE  /\ TypeOK' /\ run'[a] = s
         /\ \A b \in Agents \ {a} : RunInv(run[b])'
  <1>1. t.thing \in Things
    BY DEF Tasks, Things
  <1>2. /\ run'[a] = s
        /\ \A b \in Agents \ {a} :
             run'[b] = IF t.thing \in run[a].since THEN Noticed(run[b], {t.thing}) ELSE run[b]
    BY DEF Goes
  <1>3. \A b \in Agents : run[b] \in Runs /\ RunInv(run[b])
    BY DEF BackfillInv, TypeOK
  <1>4. \A b \in Agents : run'[b] \in Runs
    BY <1>1, <1>2, <1>3, NoticedFacts
  <1>5. TypeOK'
    BY <1>4 DEF Goes, Writing, TypeOK, BackfillInv
  <1>6. ASSUME NEW b \in Agents \ {a}
        PROVE  Bystander(run[b], run'[b])
    <2>1. CASE t.thing \in run[a].since
      BY <1>1, <1>2, <1>3, <2>1, NoticedFacts DEF Bystander, Writing
    <2>2. CASE t.thing \notin run[a].since
      BY <1>2, <1>3, <2>2 DEF Bystander, Writing
    <2>3. QED  BY <2>1, <2>2
  <1>7. QED  BY <1>2, <1>3, <1>5, <1>6, BystanderKept DEF BackfillInv

\* The one who writes has one task less, and what that was for is done.
LEMMA WriterKept ==
  ASSUME BackfillInv, TypeOK', NEW a \in Agents, NEW i \in DOMAIN run[a].todo,
         Writing(a, run[a].todo[i]),
         run'[a] = Proceed(a, Restrict(run[a].todo, DOMAIN run[a].todo \ {i}))
  PROVE  RunInv(run[a])'
  <1> DEFINE r == run[a]
             t == r.todo[i]
             rest == Restrict(r.todo, DOMAIN r.todo \ {i})
             s == run'[a]
  <1>1. r \in Runs /\ RunInv(r) /\ r.todo \in TaskLists /\ t \in Tasks
    BY TaskListFacts DEF BackfillInv, TypeOK, Runs
  <1>2. rest \in TaskLists
    BY <1>1, TaskListFacts
  <1>3. /\ s \in Runs /\ StageInv(s) /\ s.cmd = r.cmd /\ s.since = r.since /\ s.todo = rest
    BY <1>2, ProceedFacts DEF BackfillInv
  <1>4. /\ DOMAIN rest = DOMAIN r.todo \ {i}
        /\ \A j \in DOMAIN rest : rest[j] = r.todo[j]
    BY DEF Restrict
  <1>5. Listed(r)
    BY <1>1 DEF RunInv, StageInv, Listed
  <1>6. ASSUME NEW thing, NEW ops, Due(r, thing, ops)
        PROVE  Due(s, thing, ops) \/ (t.thing = thing /\ t.op \in ops)
    BY <1>3, <1>4, <1>6 DEF Due
  <1>7. LabelInv(run[a])'
    <2>1. SUFFICES ASSUME NEW x \in Configured \ s.since PROVE LabelWork(run[a], x)'
      BY DEF LabelInv
    <2>2. LabelWork(r, x) /\ LooksAlike(x)
      BY <1>1, <1>3, <1>5, <2>1 DEF RunInv, LabelInv, Writing
    <2>3. \A ops \in {{"create"}, {"create", "edit"}} :
            Due(r, x, ops) => Due(s, x, ops) \/ look'[x] = "configured"
      BY <1>6 DEF Writing
    <2>4. /\ s.cmd \in {"ensure", "sync"} => look'[x] # "none" \/ Due(s, x, {"create"})
          /\ s.cmd = "sync" => look'[x] = "configured" \/ Due(s, x, {"create", "edit"})
      BY <1>3, <2>2, <2>3 DEF LabelWork, LooksAlike
    <2>5. QED  BY <2>4 DEF LabelWork, Due
  <1>8. PullInv(run[a])'
    <2>1. SUFFICES ASSUME s.cmd = "backfill", NEW p \in PullSet \ s.since
                   PROVE  PullWork(run[a], p)'
      BY DEF PullInv
    <2>2. PullWork(r, p) /\ PullAlike(pr[p], pr'[p])
      BY <1>1, <1>3, <1>5, <2>1 DEF RunInv, PullInv, Writing
    <2>3. /\ Due(r, p, {"body"}) => Due(s, p, {"body"}) \/ pr'[p].body.whole
          /\ Due(r, p, {"labels"}) => Due(s, p, {"labels"}) \/ TypeLabelFits(pr'[p])
      BY <1>3, <1>6, <2>1 DEF Writing
    <2>4. /\ pr'[p].body.whole \/ Due(s, p, {"body"})
          /\ TypeLabelFits(pr'[p]) \/ Due(s, p, {"labels"})
      BY <2>2, <2>3 DEF PullWork, PullAlike
    <2>5. QED  BY <2>4 DEF PullWork, Due, TypeLabelFits
  <1>9. CurrentInv(run[a])'
    <2>1. SUFFICES ASSUME NEW j \in DOMAIN rest, rest[j].thing \notin r.since
                   PROVE  Current(rest[j], pr'[rest[j].thing])
      BY <1>3 DEF CurrentInv
    <2> DEFINE u == r.todo[j]
    <2>2. j \in DOMAIN r.todo /\ rest[j] = u /\ u \in Tasks /\ Current(u, pr[u.thing])
      BY <1>1, <1>4, <2>1, TaskListFacts DEF RunInv, CurrentInv
    <2>3. CASE u.op \in {"body", "labels"}
      <3>1. u.thing \in PullSet
        BY <2>2, <2>3 DEF Tasks
      <3>2. PullAlike(pr[u.thing], pr'[u.thing])
        BY <2>1, <2>2, <3>1 DEF Writing
      <3>3. pr[u.thing] \in PullRequests /\ pr'[u.thing] \in PullRequests
        BY <3>1 DEF BackfillInv, TypeOK
      <3>4. QED  BY <2>2, <3>2, <3>3, CurrentKept
    <2>4. CASE u.op \notin {"body", "labels"}
      BY <2>2, <2>4 DEF Current
    <2>5. QED  BY <2>3, <2>4
  <1>10. QED  BY <1>3, <1>7, <1>8, <1>9 DEF RunInv, StageInv

\* A gh command that changes something, whichever way it ends.
LEMMA GhKept ==
  ASSUME BackfillInv, NEW a \in Agents, NEW i \in DOMAIN run[a].todo, NEW s,
         \/ s = Proceed(a, Restrict(run[a].todo, DOMAIN run[a].todo \ {i}))
         \/ s = Idle,
         Writing(a, run[a].todo[i]), Goes(a, s, run[a].todo[i].thing)
  PROVE  BackfillInv'
  <1> DEFINE t == run[a].todo[i]
             rest == Restrict(run[a].todo, DOMAIN run[a].todo \ {i})
  <1>1. TypeOK /\ run[a].todo \in TaskLists /\ t \in Tasks /\ rest \in TaskLists
    BY TaskListFacts DEF BackfillInv, TypeOK, Runs
  <1>2. Proceed(a, rest) \in Runs /\ Idle \in Runs
    BY <1>1, ProceedFacts, IdleFacts
  <1>3. TypeOK' /\ run'[a] = s /\ \A b \in Agents \ {a} : RunInv(run[b])'
    BY <1>1, <1>2, GoesFacts
  <1>4. CASE s = Proceed(a, rest)
    BY <1>3, <1>4, WriterKept DEF BackfillInv
  <1>5. CASE s = Idle
    <2>1. RunInv(run[a])'
      BY <1>3, <1>5, IdleFacts DEF RunInv, StageInv, LabelInv, PullInv, CurrentInv, Listed
    <2>2. QED  BY <1>3, <2>1 DEF BackfillInv
  <1>6. QED  BY <1>4, <1>5

\* What a place of the walk holds, and that a run that holds it is right about it.
LEMMA WritesFacts ==
  ASSUME BackfillInv, NEW a \in Agents, NEW i \in DOMAIN run[a].todo
  PROVE  LET t == run[a].todo[i]
         IN  /\ t \in Tasks
             /\ t.thing \notin run[a].since => Current(t, pr[t.thing])
             /\ t.op \in {"create", "edit"} => t.thing \in Labels /\ t.as = "configured"
             /\ t.op = "body" => t.thing \in PullSet /\ t.as \in Bodies
             /\ t.op = "labels" => t.thing \in PullSet /\ t.as \in SUBSET Labels
  <1>1. run[a].todo[i] \in Tasks
    BY TaskListFacts DEF BackfillInv, TypeOK, Runs
  <1>2. run[a].todo[i].thing \notin run[a].since
          => Current(run[a].todo[i], pr[run[a].todo[i].thing])
    BY DEF BackfillInv, RunInv, CurrentInv
  <1>3. QED  BY <1>1, <1>2 DEF Tasks

LEMMA SamePull == \A p : PullAlike(p, p)
  BY DEF PullAlike

LEMMA LabelWriteKept ==
  ASSUME BackfillInv, NEW a \in Agents, NEW i \in DOMAIN run[a].todo,
         CreateLabel(a, i) \/ EditLabel(a, i), UNCHANGED <<pr, edits>>
  PROVE  BackfillInv'
  <1> DEFINE t == run[a].todo[i]
  <1>1. t.op \in {"create", "edit"} /\ t.thing \in Labels /\ t.as = "configured"
    BY WritesFacts DEF CreateLabel, EditLabel, Writes
  <1>2. CASE UNCHANGED look /\ Fails(a)
    BY <1>2, FailsKept
  <1>3. CASE look' = [look EXCEPT ![t.thing] = t.as]
    <2>1. Writing(a, t)
      <3>1. look \in [Labels -> Appearances] /\ look' \in [Labels -> Appearances]
        BY <1>1, <1>3 DEF BackfillInv, TypeOK, Appearances
      <3>2. look'[t.thing] = "configured"
        BY <1>1, <1>3, <3>1
      <3>3. \A x \in Labels : look'[x] = look[x] \/ look'[x] = "configured"
        BY <1>1, <1>3, <3>1
      <3>4. Configured \subseteq Labels
        BY LabelsAssumption DEF Configured, Range
      <3>5. \A x \in Configured : LooksAlike(x)
        BY <3>3, <3>4 DEF LooksAlike
      <3>6. pr \in [PullSet -> PullRequests]
        BY DEF BackfillInv, TypeOK
      <3>7. QED  BY <1>1, <3>1, <3>2, <3>5, <3>6, SamePull DEF Writing
    <2>2. CASE \/ Goes(a, Proceed(a, Restrict(run[a].todo, DOMAIN run[a].todo \ {i})), t.thing)
               \/ Goes(a, Idle, t.thing)
      BY <2>1, <2>2, GhKept
    <2>3. CASE UNCHANGED look /\ Fails(a)
      BY <2>3, FailsKept
    <2>4. QED  BY <2>2, <2>3 DEF CreateLabel, EditLabel, Gh
  <1>4. QED  BY <1>2, <1>3 DEF CreateLabel, EditLabel, Gh

LEMMA PatchBodyKept ==
  ASSUME BackfillInv, NEW a \in Agents, NEW i \in DOMAIN run[a].todo, PatchBody(a, i)
  PROVE  BackfillInv'
  <1> DEFINE t == run[a].todo[i]
  <1>1. t.op = "body" /\ t.thing \in PullSet /\ t.as \in Bodies
    BY WritesFacts DEF PatchBody, Writes
  <1>2. CASE UNCHANGED pr /\ Fails(a)
    BY <1>2, FailsKept DEF PatchBody
  <1>3. ASSUME pr' = [pr EXCEPT ![t.thing].body = t.as],
               \/ Goes(a, Proceed(a, Restrict(run[a].todo, DOMAIN run[a].todo \ {i})), t.thing)
               \/ Goes(a, Idle, t.thing)
        PROVE  BackfillInv'
    <2>1. pr \in [PullSet -> PullRequests] /\ pr' \in [PullSet -> PullRequests]
      BY <1>1, <1>3 DEF BackfillInv, TypeOK, PullRequests
    <2>2. \A p \in PullSet \ {t.thing} : pr'[p] = pr[p]
      BY <1>3, <2>1
    <2>3. pr'[t.thing] = [pr[t.thing] EXCEPT !.body = t.as]
      BY <1>1, <1>3, <2>1
    <2>4. t.thing \notin run[a].since => t.as = [pr[t.thing].body EXCEPT !.whole = TRUE]
      BY <1>1, WritesFacts DEF Current, EnsureSections
    <2>5. t.thing \notin run[a].since => /\ PullAlike(pr[t.thing], pr'[t.thing])
                                        /\ pr'[t.thing].body.whole
      <3>1. pr[t.thing] \in PullRequests /\ pr[t.thing].body \in Bodies
        BY <1>1, <2>1 DEF PullRequests
      <3> DEFINE p == pr[t.thing]
                 q == pr'[t.thing]
      <3>2. /\ q.title = p.title /\ q.labels = p.labels
            /\ q.body = t.as
        BY <2>3, <3>1 DEF PullRequests
      <3>3. t.thing \notin run[a].since => t.as.text = p.body.text /\ t.as.whole
        BY <2>4, <3>1 DEF Bodies
      <3> HIDE DEF p, q
      <3>4. QED  BY <3>2, <3>3 DEF PullAlike, TypeLabelFits, p, q
    <2>6. Writing(a, t)
      BY <1>1, <2>1, <2>2, <2>5, SamePull
         DEF Writing, LooksAlike, PatchBody, BackfillInv, TypeOK
    <2>7. QED  BY <1>3, <2>6, GhKept
  <1>4. QED  BY <1>2, <1>3 DEF PatchBody, Gh

LEMMA PutLabelsKept ==
  ASSUME BackfillInv, NEW a \in Agents, NEW i \in DOMAIN run[a].todo, PutLabels(a, i)
  PROVE  BackfillInv'
  <1> DEFINE t == run[a].todo[i]
  <1>1. t.op = "labels" /\ t.thing \in PullSet /\ t.as \in SUBSET Labels
    BY WritesFacts DEF PutLabels, Writes
  <1>2. CASE UNCHANGED <<pr, look>> /\ Fails(a)
    BY <1>2, FailsKept DEF PutLabels
  <1>3. ASSUME pr' = [pr EXCEPT ![t.thing].labels = t.as],
               look' = [x \in Labels |-> IF x \in t.as /\ look[x] = "none" THEN "recolored"
                                         ELSE look[x]],
               \/ Goes(a, Proceed(a, Restrict(run[a].todo, DOMAIN run[a].todo \ {i})), t.thing)
               \/ Goes(a, Idle, t.thing)
        PROVE  BackfillInv'
    <2>1. pr \in [PullSet -> PullRequests] /\ pr' \in [PullSet -> PullRequests]
      BY <1>1, <1>3 DEF BackfillInv, TypeOK, PullRequests
    <2>2. \A p \in PullSet \ {t.thing} : pr'[p] = pr[p]
      BY <1>3, <2>1
    <2>3. pr'[t.thing] = [pr[t.thing] EXCEPT !.labels = t.as]
      BY <1>1, <1>3, <2>1
    <2>4. t.thing \notin run[a].since =>
            /\ pr[t.thing].title \in TypeLabels
            /\ t.as = (pr[t.thing].labels \ TypeLabels) \cup {pr[t.thing].title}
      BY <1>1, WritesFacts DEF Current, Desired
    <2>5. t.thing \notin run[a].since => /\ PullAlike(pr[t.thing], pr'[t.thing])
                                        /\ TypeLabelFits(pr'[t.thing])
      <3>1. pr[t.thing] \in PullRequests
        BY <1>1, <2>1
      <3> DEFINE p == pr[t.thing]
                 q == pr'[t.thing]
      <3>2. q.title = p.title /\ q.labels = t.as /\ q.body = p.body
        BY <2>3, <3>1 DEF PullRequests
      <3>3. t.thing \notin run[a].since =>
              q.labels \ TypeLabels = p.labels \ TypeLabels /\ q.labels \cap TypeLabels = {q.title}
        <4> HIDE DEF p, q
        <4>1. QED  BY <2>4, <3>2 DEF p
      <3> HIDE DEF p, q
      <3>4. QED  BY <3>2, <3>3 DEF PullAlike, TypeLabelFits, p, q
    <2>6. /\ look' \in [Labels -> Appearances]
          /\ \A x \in Configured : LooksAlike(x)
      <3>1. look \in [Labels -> Appearances]
        BY DEF BackfillInv, TypeOK
      <3> DEFINE new(x) == IF x \in t.as /\ look[x] = "none" THEN "recolored" ELSE look[x]
      <3>2. look' = [x \in Labels |-> new(x)]
        BY <1>3
      <3>3. \A x \in Labels : new(x) \in Appearances /\ (look[x] # "none" => new(x) = look[x])
        BY <3>1 DEF Appearances
      <3>4. Configured \subseteq Labels
        BY LabelsAssumption DEF Configured, Range
      <3> HIDE DEF new
      <3>5. look' \in [Labels -> Appearances]
        BY <3>2, <3>3
      <3>6. \A x \in Configured : LooksAlike(x)
        BY <3>2, <3>3, <3>4 DEF LooksAlike
      <3>7. QED  BY <3>5, <3>6
    <2>7. Writing(a, t)
      BY <1>1, <2>1, <2>2, <2>5, <2>6, SamePull DEF Writing, PutLabels
    <2>8. QED  BY <1>3, <2>7, GhKept
  <1>4. QED  BY <1>2, <1>3 DEF PutLabels, Gh
-----------------------------------------------------------------------------
(***************************************************************************)
(* People.                                                                 *)
(***************************************************************************)
LEMMA PeopleKept ==
  ASSUME BackfillInv, NEW things \in SUBSET Things, People(things),
         look' \in [Labels -> Appearances], pr' \in [PullSet -> PullRequests], edits' \in Nat,
         \A x \in Configured \ things : look'[x] = look[x],
         \A p \in PullSet \ things : pr'[p] = pr[p]
  PROVE  BackfillInv'
  <1>1. \A a \in Agents : run[a] \in Runs /\ run'[a] = Noticed(run[a], things)
    BY DEF People, BackfillInv, TypeOK
  <1>2. TypeOK'
    BY <1>1, NoticedFacts DEF TypeOK, People
  <1>3. ASSUME NEW a \in Agents
        PROVE  Bystander(run[a], run'[a])
    BY <1>1, NoticedFacts, SamePull DEF Bystander, LooksAlike
  <1>4. QED  BY <1>2, <1>3, BystanderKept DEF BackfillInv

LEMMA EditPullKept ==
  ASSUME BackfillInv, NEW p \in DOMAIN pr, EditPull(p), edits' \in Nat
  PROVE  BackfillInv'
  <1>1. pr \in [PullSet -> PullRequests] /\ p \in PullSet /\ pr[p] \in PullRequests
        /\ look \in [Labels -> Appearances]
    BY DEF BackfillInv, TypeOK
  <1>2. \E q \in PullRequests : pr' = [pr EXCEPT ![p] = q]
    <2>1. CASE \E t \in Titles \ {pr[p].title} : pr' = [pr EXCEPT ![p].title = t]
      <3>1. PICK t \in Titles : pr' = [pr EXCEPT ![p].title = t]
        BY <2>1
      <3>2. [pr[p] EXCEPT !.title = t] \in PullRequests
        BY <1>1 DEF PullRequests
      <3>3. QED  BY <1>1, <3>1, <3>2
    <2>2. CASE \E w \in BOOLEAN : pr' = [pr EXCEPT ![p].body = [text |-> @.text + 1, whole |-> w]]
      <3>1. PICK w \in BOOLEAN : pr' = [pr EXCEPT ![p].body = [text |-> @.text + 1, whole |-> w]]
        BY <2>2
      <3>2. [pr[p] EXCEPT !.body = [text |-> pr[p].body.text + 1, whole |-> w]] \in PullRequests
        BY <1>1 DEF PullRequests, Bodies
      <3>3. QED  BY <1>1, <3>1, <3>2
    <2>3. CASE \E x \in Existing \ pr[p].labels : pr' = [pr EXCEPT ![p].labels = @ \cup {x}]
      <3>1. PICK x \in Labels : pr' = [pr EXCEPT ![p].labels = @ \cup {x}]
        BY <2>3 DEF Existing
      <3>2. [pr[p] EXCEPT !.labels = @ \cup {x}] \in PullRequests
        BY <1>1 DEF PullRequests
      <3>3. QED  BY <1>1, <3>1, <3>2
    <2>4. CASE \E x \in pr[p].labels : pr' = [pr EXCEPT ![p].labels = @ \ {x}]
      <3>1. PICK x : pr' = [pr EXCEPT ![p].labels = @ \ {x}]
        BY <2>4
      <3>2. [pr[p] EXCEPT !.labels = @ \ {x}] \in PullRequests
        BY <1>1 DEF PullRequests
      <3>3. QED  BY <1>1, <3>1, <3>2
    <2>5. QED  BY <2>1, <2>2, <2>3, <2>4 DEF EditPull
  <1>3. /\ pr' \in [PullSet -> PullRequests]
        /\ \A q \in PullSet \ {p} : pr'[q] = pr[q]
    BY <1>1, <1>2
  <1>4. People({p}) /\ UNCHANGED look /\ {p} \in SUBSET Things
    BY <1>1 DEF EditPull, Things
  <1>5. QED  BY <1>1, <1>3, <1>4, PeopleKept

LEMMA RepaintKept ==
  ASSUME BackfillInv, NEW x \in Labels, Repaint(x), edits' \in Nat
  PROVE  BackfillInv'
  <1>1. look \in [Labels -> Appearances] /\ pr \in [PullSet -> PullRequests]
    BY DEF BackfillInv, TypeOK
  <1>2. PICK l \in {"recolored", "redescribed"} : look' = [look EXCEPT ![x] = l]
    BY DEF Repaint
  <1>3. look' \in [Labels -> Appearances] /\ \A y \in Labels \ {x} : look'[y] = look[y]
    BY <1>1, <1>2 DEF Appearances
  <1>4. Configured \subseteq Labels /\ {x} \in SUBSET Things
    BY LabelsAssumption DEF Configured, Range, Things
  <1>5. QED  BY <1>1, <1>3, <1>4, PeopleKept DEF Repaint

LEMMA DeleteLabelKept ==
  ASSUME BackfillInv, NEW x \in Labels, DeleteLabel(x), edits' \in Nat
  PROVE  BackfillInv'
  <1> DEFINE things == {x} \cup {p \in DOMAIN pr : x \in pr[p].labels}
  <1>1. look \in [Labels -> Appearances] /\ pr \in [PullSet -> PullRequests]
    BY DEF BackfillInv, TypeOK
  <1>2. look' \in [Labels -> Appearances] /\ \A y \in Labels \ {x} : look'[y] = look[y]
    BY <1>1 DEF DeleteLabel, Appearances
  <1>3. ASSUME NEW p \in PullSet
        PROVE  /\ pr'[p] \in PullRequests
               /\ p \notin things => pr'[p] = pr[p]
    <2>1. pr[p] \in PullRequests /\ pr'[p] = [pr[p] EXCEPT !.labels = pr[p].labels \ {x}]
      BY <1>1 DEF DeleteLabel
    <2>2. x \notin pr[p].labels => pr[p].labels \ {x} = pr[p].labels
      OBVIOUS
    <2>3. QED  BY <1>1, <2>1, <2>2 DEF PullRequests
  <1>4. pr' \in [PullSet -> PullRequests]
    BY <1>1, <1>3 DEF DeleteLabel
  <1>5. Configured \subseteq Labels /\ things \in SUBSET Things
    BY <1>1, LabelsAssumption DEF Configured, Range, Things
  <1>6. People(things)
    BY DEF DeleteLabel
  <1>7. QED  BY <1>2, <1>3, <1>4, <1>5, <1>6, PeopleKept

LEMMA NextBackfill ==
  ASSUME BackfillInv, [Next]_vars
  PROVE  BackfillInv'
  <1>1. CASE UNCHANGED vars
    <2>1. look' = look /\ pr' = pr /\ run' = run /\ edits' = edits
      BY <1>1 DEF vars
    <2>2. TypeOK'
      BY <2>1 DEF BackfillInv, TypeOK
    <2>3. ASSUME NEW a \in Agents PROVE RunInv(run[a])'
      <3>1. RunInv(run[a])
        BY DEF BackfillInv
      <3>2. \A x : LabelWork(run[a], x)' <=> LabelWork(run[a], x)
        BY <2>1 DEF LabelWork, Due
      <3>3. \A p : PullWork(run[a], p)' <=> PullWork(run[a], p)
        BY <2>1 DEF PullWork, Due
      <3>4. StageInv(run[a])' /\ LabelInv(run[a])' /\ PullInv(run[a])'
        BY <2>1, <3>1, <3>2, <3>3 DEF RunInv, StageInv, LabelInv, PullInv, Listed
      <3>5. CurrentInv(run[a])'
        BY <2>1, <3>1 DEF RunInv, CurrentInv
      <3>6. QED  BY <3>4, <3>5 DEF RunInv
    <2>4. QED  BY <2>2, <2>3 DEF BackfillInv
  <1>2. CASE Edit
    <2>1. edits' \in Nat
      BY <1>2 DEF Edit, BackfillInv, TypeOK
    <2>2. QED  BY <1>2, <2>1, EditPullKept, RepaintKept, DeleteLabelKept DEF Edit
  <1>3. ASSUME NEW a \in Agents, Start(a, Commands) \/ LabelStep(a), UNCHANGED <<pr, edits>>
        PROVE  BackfillInv'
    BY <1>3, StartKept, ListLabelsKept, LabelWriteKept DEF LabelStep
  <1>4. ASSUME NEW a \in Agents, BackfillStep(a)
        PROVE  BackfillInv'
    BY <1>4, ListPullsKept, PatchBodyKept, PutLabelsKept DEF BackfillStep
  <1>5. QED  BY <1>1, <1>2, <1>3, <1>4 DEF Next

LEMMA SpecBackfill == Spec => []BackfillInv
  <1>1. Init => BackfillInv
    BY InitBackfill
  <1>2. BackfillInv /\ [Next]_vars => BackfillInv'
    BY NextBackfill
  <1>3. QED  BY <1>1, <1>2, PTL DEF Spec
-----------------------------------------------------------------------------
\* rgd ensure-labels and rgd labels sync: a run that ends well has left every
\* configured label that nobody has touched since its list as it promises, however
\* many others were writing, failing or dying at the same time.
THEOREM SpecLabelsConform == Spec => []LabelsConform
  <1>1. BackfillInv => LabelsConform
    <2> SUFFICES ASSUME BackfillInv, NEW a \in Agents, run[a].at = "done",
                        NEW x \in Configured \ run[a].since
                 PROVE  /\ run[a].cmd \in {"ensure", "sync"} => look[x] # "none"
                        /\ run[a].cmd = "sync" => look[x] = "configured"
      BY DEF LabelsConform
    <2>1. DOMAIN run[a].todo = {} /\ LabelWork(run[a], x)
      BY DEF BackfillInv, RunInv, StageInv, LabelInv, Listed
    <2>2. QED  BY <2>1 DEF LabelWork, Due
  <1>2. QED  BY <1>1, SpecBackfill, PTL

\* prbackfill.Run: so it is with the pull requests of a backfill that ends well.
THEOREM SpecPullsConform == Spec => []PullsConform
  <1>1. BackfillInv => PullsConform
    <2> SUFFICES ASSUME BackfillInv, NEW a \in Agents, run[a].cmd = "backfill",
                        run[a].at = "done", NEW p \in PullSet \ run[a].since
                 PROVE  Conforms(pr[p])
      BY DEF PullsConform, PullSet
    <2>1. DOMAIN run[a].todo = {} /\ PullWork(run[a], p)
      BY DEF BackfillInv, RunInv, StageInv, PullInv, Listed
    <2>2. QED  BY <2>1 DEF PullWork, Due, Conforms, TypeLabelFits
  <1>2. QED  BY <1>1, SpecBackfill, PTL
-----------------------------------------------------------------------------
\* Only one who writes moves on.
LEMMA WriterMoves ==
  ASSUME BackfillInv, NEW a \in Agents, NEW i \in DOMAIN run[a].todo, run[a].at = "writing",
         NEW s,
         \/ s = Proceed(a, Restrict(run[a].todo, DOMAIN run[a].todo \ {i}))
         \/ s = Idle,
         Goes(a, s, run[a].todo[i].thing)
  PROVE  Moves(a)
  <1> DEFINE rest == Restrict(run[a].todo, DOMAIN run[a].todo \ {i})
  <1>1. run'[a] = s
    BY DEF Goes
  <1>2. CASE s = Idle
    BY <1>1, <1>2, IdleFacts DEF Moves
  <1>3. CASE s = Proceed(a, rest)
    <2>1. rest \in TaskLists
      BY TaskListFacts DEF BackfillInv, TypeOK, Runs
    <2>2. s.todo = rest
      BY <1>3, <2>1, ProceedFacts DEF BackfillInv
    <2>3. i \notin DOMAIN rest
      BY DEF Restrict
    <2>4. QED  BY <1>1, <2>2, <2>3 DEF Moves
  <1>4. QED  BY <1>2, <1>3

\* A command that changes a pull request it is up to date with completes its body
\* or gives it the one type label of its title.
LEMMA CommandedChange ==
  ASSUME BackfillInv, Next, Commanded, NEW p \in PullSet, pr'[p] # pr[p], ~ Outdated(p)
  PROVE  \/ pr'[p] = [pr[p] EXCEPT !.body = EnsureSections(pr[p].body)]
         \/ /\ pr[p].title \in TypeLabels
            /\ pr'[p] = [pr[p] EXCEPT !.labels = Desired(pr[p].labels, pr[p].title)]
  <1>1. pr \in [PullSet -> PullRequests]
    BY DEF BackfillInv, TypeOK
  <1>2. CASE Edit
    BY <1>2 DEF Edit, Commanded, BackfillInv, TypeOK
  <1>3. ASSUME NEW a \in Agents, NEW i \in DOMAIN run[a].todo, PatchBody(a, i)
        PROVE  pr'[p] = [pr[p] EXCEPT !.body = EnsureSections(pr[p].body)]
    <2> DEFINE t == run[a].todo[i]
    <2>1. t.op = "body" /\ t.thing \in PullSet /\ run[a].at = "writing"
      BY <1>3, WritesFacts DEF PatchBody, Writes
    <2>2. /\ pr' = [pr EXCEPT ![t.thing].body = t.as]
          /\ \/ Goes(a, Proceed(a, Restrict(run[a].todo, DOMAIN run[a].todo \ {i})), t.thing)
             \/ Goes(a, Idle, t.thing)
      BY <1>3 DEF PatchBody, Gh
    <2>3. t.thing = p
      BY <1>1, <2>1, <2>2
    <2>4. p \notin run[a].since
      BY <2>1, <2>2, WriterMoves DEF Outdated
    <2>5. t.as = EnsureSections(pr[p].body)
      BY <2>1, <2>3, <2>4, WritesFacts DEF Current
    <2>6. QED  BY <1>1, <2>2, <2>3, <2>5
  <1>4. ASSUME NEW a \in Agents, NEW i \in DOMAIN run[a].todo, PutLabels(a, i)
        PROVE  /\ pr[p].title \in TypeLabels
               /\ pr'[p] = [pr[p] EXCEPT !.labels = Desired(pr[p].labels, pr[p].title)]
    <2> DEFINE t == run[a].todo[i]
    <2>1. t.op = "labels" /\ t.thing \in PullSet /\ run[a].at = "writing"
      BY <1>4, WritesFacts DEF PutLabels, Writes
    <2>2. /\ pr' = [pr EXCEPT ![t.thing].labels = t.as]
          /\ \/ Goes(a, Proceed(a, Restrict(run[a].todo, DOMAIN run[a].todo \ {i})), t.thing)
             \/ Goes(a, Idle, t.thing)
      BY <1>4 DEF PutLabels, Gh
    <2>3. t.thing = p
      BY <1>1, <2>1, <2>2
    <2>4. p \notin run[a].since
      BY <2>1, <2>2, WriterMoves DEF Outdated
    <2>5. /\ pr[p].title \in TypeLabels
          /\ t.as = Desired(pr[p].labels, pr[p].title)
      BY <2>1, <2>3, <2>4, WritesFacts DEF Current
    <2>6. QED  BY <1>1, <2>2, <2>3, <2>5
  <1>5. QED  BY <1>2, <1>3, <1>4 DEF Next, BackfillStep, ListPulls

\* patchPRBody, putIssueLabels: a body and a set of labels are replaced as a whole,
\* and yet what people wrote is only lost if they wrote it after the list.
THEOREM SpecPeoplesWorkKept == Spec => PeoplesWorkKept
  <1>1. ASSUME BackfillInv, Next, Commanded, NEW p \in PullSet
        PROVE  \/ /\ pr'[p].labels \ TypeLabels = pr[p].labels \ TypeLabels
                  /\ pr'[p].body.text = pr[p].body.text
               \/ Outdated(p)
    <2>1. pr[p] \in PullRequests /\ pr[p].body \in Bodies
      BY <1>1 DEF BackfillInv, TypeOK, PullRequests
    <2>2. CASE pr'[p] = pr[p]
      BY <2>2
    <2>3. CASE pr'[p] = [pr[p] EXCEPT !.body = EnsureSections(pr[p].body)]
      BY <2>1, <2>3 DEF EnsureSections, PullRequests, Bodies
    <2>4. CASE /\ pr[p].title \in TypeLabels
               /\ pr'[p] = [pr[p] EXCEPT !.labels = Desired(pr[p].labels, pr[p].title)]
      BY <2>1, <2>4 DEF Desired, PullRequests
    <2>5. QED  BY <1>1, <2>2, <2>3, <2>4, CommandedChange
  <1>2. BackfillInv /\ [Next]_vars =>
          [Commanded => \A p \in Range(Pulls) :
             \/ /\ pr'[p].labels \ TypeLabels = pr[p].labels \ TypeLabels
                /\ pr'[p].body.text = pr[p].body.text
             \/ Outdated(p)]_vars
    BY <1>1 DEF PullSet
  <1>3. QED  BY <1>2, SpecBackfill, PTL DEF Spec, PeoplesWorkKept

\* ensureSections, syncTypeLabelFromTitle: no backfill changes a pull request that
\* conforms, unless it did not when it was listed.
THEOREM SpecConformingLeftAlone == Spec => ConformingLeftAlone
  <1>1. ASSUME BackfillInv, Next, Commanded, NEW p \in PullSet, Conforms(pr[p]), ~ Outdated(p)
        PROVE  pr'[p] = pr[p]
    <2>1. pr[p] \in PullRequests /\ pr[p].body \in Bodies /\ pr[p].body.whole
      BY <1>1 DEF BackfillInv, TypeOK, PullRequests, Conforms
    <2>2. EnsureSections(pr[p].body) = pr[p].body
      BY <2>1 DEF EnsureSections, Bodies
    <2>3. [pr[p] EXCEPT !.body = EnsureSections(pr[p].body)] = pr[p]
      BY <2>1, <2>2 DEF PullRequests
    <2>4. pr[p].title \in TypeLabels => Desired(pr[p].labels, pr[p].title) = pr[p].labels
      BY <1>1 DEF Desired, Conforms
    <2>5. pr[p].title \in TypeLabels =>
            [pr[p] EXCEPT !.labels = Desired(pr[p].labels, pr[p].title)] = pr[p]
      BY <2>1, <2>4 DEF PullRequests
    <2>6. QED  BY <1>1, <2>3, <2>5, CommandedChange
  <1>2. BackfillInv /\ [Next]_vars =>
          [Commanded => \A p \in Range(Pulls) :
             Conforms(pr[p]) /\ pr'[p] # pr[p] => Outdated(p)]_vars
    BY <1>1 DEF PullSet
  <1>3. QED  BY <1>2, SpecBackfill, PTL DEF Spec, ConformingLeftAlone
=============================================================================
