----------------------------- MODULE RepoLabels -----------------------------
(***************************************************************************)
(* rgd ensure-labels and rgd labels sync (internal/labels): the labels of  *)
(* the repository are listed once, and those of labels.yaml that are not   *)
(* as they should be in that list are created or edited, one gh command    *)
(* after the other, until one fails.  Several people may do so at once,    *)
(* and others change labels meanwhile.                                     *)
(***************************************************************************)
EXTENDS Integers, Sequences, FiniteSets, SequencesExt

CONSTANTS
  Agents,    \* who runs a command, one at a time each
  Labels,    \* the labels the repository may have
  Declared,  \* the labels of labels.yaml in its order: that of ensure
  Sorted,    \* and by name: that of sync
  ListLimit  \* how many labels gh lists

VARIABLES
  look,      \* how each label of the repository looks, or "none"
  run        \* the command of each agent

Configured    == Range(Declared)
LabelCommands == {"ensure", "sync", "dry-run"}

\* The labels of labels.yaml are labels, and sync walks those that ensure walks.
ASSUME LabelsAssumption ==
  /\ Declared \in Seq(Labels) /\ Sorted \in Seq(Labels)
  /\ Range(Sorted) = Range(Declared)

\* What a command still has to write depends on its list alone, so it is worked
\* out when the list is there: todo has a task at each place of the walk where
\* there is something to write.
\* since is not kept by the code: it is what has changed since then, by people or
\* by a command that was not aware of what they did.
Idle == [cmd |-> "none", at |-> "idle", todo |-> <<>>, since |-> {}]

Proceed(a, todo) ==
  [run[a] EXCEPT !.at = IF DOMAIN todo = {} THEN "done" ELSE "writing", !.todo = todo]

Noticed(r, things) ==
  IF r.at \in {"writing", "done"} THEN [r EXCEPT !.since = @ \cup things] ELSE r

\* What an agent writes from an outdated list is news to the others.
Goes(a, r, thing) ==
  run' = [b \in Agents |-> CASE b = a                              -> r
                             [] b # a /\ thing \in run[a].since    -> Noticed(run[b], {thing})
                             [] b # a /\ thing \notin run[a].since -> run[b]]
Fails(a) == run' = [run EXCEPT ![a] = Idle]

\* A gh command that changes something: it works, it works and gh or rgd does not
\* live to tell, or it does not work.  The first failure ends the run.
Gh(a, i, Effect, nothing) ==
  LET todo == run[a].todo
      rest == Restrict(todo, DOMAIN todo \ {i})
  IN  \/ Effect /\ (Goes(a, Proceed(a, rest), todo[i].thing) \/ Goes(a, Idle, todo[i].thing))
      \/ nothing /\ Fails(a)
-----------------------------------------------------------------------------
Start(a, commands) ==
  /\ run[a].at \in {"idle", "done"}
  /\ \E c \in commands[a] : run' = [run EXCEPT ![a] = [Idle EXCEPT !.cmd = c, !.at = "listing"]]
  /\ UNCHANGED look

Existing == {x \in Labels : look[x] # "none"}

\* sync compares color and description.
Differs_ColorOnly(l) == l = "recolored"
Differs(l) == l # "configured"

Task(op, thing, as) == [op |-> op, thing |-> thing, as |-> as]

\* ensure and sync create what the list does not show, sync edits what differs.
Needs(cmd, x, listed) ==
  CASE cmd \in {"ensure", "sync"} /\ x \notin listed    -> "create"
    [] cmd = "sync" /\ x \in listed /\ Differs(look[x]) -> "edit"
    [] OTHER                                            -> "nothing"

LabelTasks(cmd, listed) ==
  LET order == IF cmd = "ensure" THEN Declared ELSE Sorted
  IN  [i \in {j \in DOMAIN order : Needs(cmd, order[j], listed) # "nothing"} |->
         Task(Needs(cmd, order[i], listed), order[i], "configured")]

\* gh label list shows at most as many labels as its default limit.
ListLabels(a) ==
  /\ run[a].at = "listing" /\ run[a].cmd \in LabelCommands
  /\ \/ Fails(a)
     \/ \E listed \in kSubset(Min({ListLimit, Cardinality(Existing)}), Existing) :
          run' = [run EXCEPT ![a] = Proceed(a, LabelTasks(run[a].cmd, listed))]
  /\ UNCHANGED look

Writes(a, i, op) ==
  /\ run[a].at = "writing"
  /\ i \in DOMAIN run[a].todo /\ \A j \in DOMAIN run[a].todo : i <= j
  /\ run[a].todo[i].op = op

\* gh refuses to create a label that exists,
CreateLabel(a, i) ==
  /\ Writes(a, i, "create")
  /\ LET x == run[a].todo[i].thing
     IN  Gh(a, i, look[x] = "none" /\ look' = [look EXCEPT ![x] = run[a].todo[i].as],
            UNCHANGED look)

\* and to edit one that does not.
EditLabel(a, i) ==
  /\ Writes(a, i, "edit")
  /\ LET x == run[a].todo[i].thing
     IN  Gh(a, i, look[x] # "none" /\ look' = [look EXCEPT ![x] = run[a].todo[i].as],
            UNCHANGED look)

LabelStep(a) ==
  ListLabels(a) \/ \E i \in DOMAIN run[a].todo : CreateLabel(a, i) \/ EditLabel(a, i)

\* What people do is news to everybody.
People(things) == run' = [a \in Agents |-> Noticed(run[a], things)]
-----------------------------------------------------------------------------
\* docs/cli.md: "Create missing labels", "Align existing GitHub label
\* color/description with labels.yaml".  When ensure or sync ends well, every
\* configured label nobody has touched meanwhile exists, and after sync looks as
\* configured, whatever else was running and however earlier runs had failed.
LabelsConform ==
  \A a \in Agents : run[a].at = "done" =>
    \A x \in Configured \ run[a].since :
      /\ run[a].cmd \in {"ensure", "sync"} => look[x] # "none"
      /\ run[a].cmd = "sync" => look[x] = "configured"
=============================================================================
