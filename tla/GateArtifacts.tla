---------------------------- MODULE GateArtifacts ---------------------------
(***************************************************************************)
(* Runtime gate artifacts on disk: "rgd gate record" and the readers       *)
(* (gate status, LoadSignals) as processes that take the reads and file    *)
(* system calls of the code one at a time, next to a repository whose HEAD *)
(* moves and a role configuration that is edited.  A process may crash     *)
(* between any two of its steps and a file system call may fail.           *)
(***************************************************************************)
EXTENDS GateContract, Naturals

CONSTANTS
  Procs,        \* rgd processes
  TempNames,    \* names os.CreateTemp draws: ".gate-artifact-*.json"
  NoTemp,       \* no temporary file
  RoleConfigs,  \* role configurations the repository goes through
  Calls,        \* the "gate record" command lines that are run
  NoCall,       \* no command line
  MaxCalls      \* bound: rgd invocations in one behaviour

RecordCall == [gate_id : GateIds, status : {"pass", "fail"},
               procedure : Procedures, checks : SUBSET Check,
               input_gates : SUBSET GateIds, inputs_file : SUBSET Input]

ASSUME NamesAssumption ==
  /\ TempNames \cap GateIds = {}
  /\ NoTemp \notin TempNames
  /\ NoCall \notin Calls
ASSUME CallsAssumption  == Calls \subseteq RecordCall
ASSUME RolesAssumption  == RoleConfigs \subseteq RuntimeGateRoles
ASSUME BoundsAssumption == MaxCalls \in Nat

VARIABLES
  head,    \* what HEAD names: branch (or Detached) and commit
  tip,     \* commit of each branch
  used,    \* commits made so far
  roles,   \* workflow.runtime_gate_roles in reinguard.yaml
  dir,     \* .reinguard/local/gates: name -> content
  pc,      \* next step of each process
  loc,     \* local variables of each process
  calls,   \* invocations so far
  seen,    \* history: role configurations that were in force
  proved   \* history: passing proofs that were stored

repo == <<head, tip, used>>
disk == <<dir, proved>>
conf == <<roles, seen>>
vars == <<repo, disk, conf, pc, loc, calls>>

Names == GateIds \cup TempNames

ValidGateID_AnyName(name) == TRUE

\* ValidateGateID rejects the leading dot of a temporary name.
ValidGateID(name) == name \in GateIds

Proof == [gate_id : GateIds, subject : Subject]

StatusResult == [gate_id : GateIds,
                 status : {"missing", "invalid", "stale", "fail", "pass"},
                 read : Content]

Idle == [op |-> "none", call |-> NoCall, todo |-> {}, read |-> Absent,
         branch |-> Detached, inputs |-> {}, art |-> Absent, tmp |-> NoTemp,
         report |-> {}]

Init ==
  /\ \E b \in Branches, c \in Commits :
       /\ head = [branch |-> b, head_sha |-> c]
       /\ tip = [x \in Branches |-> c]
       /\ used = {c}
  /\ roles \in RoleConfigs
  /\ seen = {roles}
  \* an artifact of an older layout may be left from before an upgrade
  /\ dir \in {[n \in Names |-> Absent],
              [n \in Names |-> IF n \in GateIds THEN Unreadable ELSE Absent]}
  /\ proved = {}
  /\ pc = [p \in Procs |-> "idle"]
  /\ loc = [p \in Procs |-> Idle]
  /\ calls = 0
-----------------------------------------------------------------------------
(* The repository and its configuration, outside rgd.                      *)

Commit(c) ==
  /\ c \in Commits \ used
  /\ used' = used \cup {c}
  /\ head' = [head EXCEPT !.head_sha = c]
  /\ tip' = IF head.branch = Detached THEN tip ELSE [tip EXCEPT ![head.branch] = c]
  /\ UNCHANGED <<disk, conf, pc, loc, calls>>

Checkout(b) ==
  /\ head' = [branch |-> b, head_sha |-> tip[b]]
  /\ UNCHANGED <<tip, used, disk, conf, pc, loc, calls>>

\* git reset: the branch goes back to a commit that exists.
Reset(c) ==
  /\ head.branch # Detached
  /\ c \in used
  /\ head' = [head EXCEPT !.head_sha = c]
  /\ tip' = [tip EXCEPT ![head.branch] = c]
  /\ UNCHANGED <<used, disk, conf, pc, loc, calls>>

Detach ==
  /\ head' = [head EXCEPT !.branch = Detached]
  /\ UNCHANGED <<tip, used, disk, conf, pc, loc, calls>>

Reconfigure(r) ==
  /\ roles' = r
  /\ seen' = seen \cup {r}
  /\ UNCHANGED <<repo, disk, pc, loc, calls>>
-----------------------------------------------------------------------------
(* One invocation.  Go(p, s, l): p's next step is s and its locals are l.  *)

Go(p, s, l) ==
  /\ pc' = [pc EXCEPT ![p] = s]
  /\ loc' = [loc EXCEPT ![p] = l]

Fail(p) == Go(p, "idle", Idle)

BeginRecord(p, c) ==
  /\ pc[p] = "idle"
  /\ calls < MaxCalls
  /\ c.checks # {}
  /\ calls' = calls + 1
  /\ Go(p, "status", [Idle EXCEPT !.op = "record", !.call = c,
                        !.todo = c.input_gates, !.inputs = c.inputs_file])
  /\ UNCHANGED <<repo, disk, conf>>

\* LoadSignals: the directory is listed once, temporary names are skipped.
BeginSignals(p) ==
  /\ pc[p] = "idle"
  /\ calls < MaxCalls
  /\ calls' = calls + 1
  /\ Go(p, "status", [Idle EXCEPT !.op = "signals",
          !.todo = {n \in Names : ValidGateID(n) /\ dir[n] # Absent}])
  /\ UNCHANGED <<repo, disk, conf>>

\* A status result ends one round of the caller's loop: LoadSignals reports
\* it, resolveInputGates goes on to Show a pass and gives up on the rest.
Conclude(p, g, status, read) ==
  IF loc[p].op = "signals"
    THEN Go(p, "status",
            [loc[p] EXCEPT !.todo = @ \ {g}, !.read = Absent, !.branch = Detached,
               !.report = @ \cup {[gate_id |-> g, status |-> status, read |-> read]}])
  ELSE IF status = "pass"
    THEN Go(p, "show", [loc[p] EXCEPT !.todo = @ \ {g}, !.branch = Detached])
    ELSE Fail(p)

\* gate.Status, first part: load the roles and read the artifact.
StatusRead(p, g) ==
  /\ pc[p] = "status" /\ g \in loc[p].todo
  /\ IF ReadableAs(dir[g], g, roles)
       THEN Go(p, "status_branch", [loc[p] EXCEPT !.read = dir[g]])
       ELSE Conclude(p, g, IF dir[g] = Absent THEN "missing" ELSE "invalid", Absent)
  /\ UNCHANGED <<repo, disk, conf, calls>>

\* deriveStatus reads the branch and HEAD with two git commands.
StatusBranch(p) ==
  /\ pc[p] = "status_branch"
  /\ Go(p, "status_head", [loc[p] EXCEPT !.branch = head.branch])
  /\ UNCHANGED <<repo, disk, conf, calls>>

StatusHead(p) ==
  /\ pc[p] = "status_head"
  /\ LET a == loc[p].read.art IN
       Conclude(p, a.gate_id, DerivedStatus(a, loc[p].branch, head.head_sha), loc[p].read)
  /\ UNCHANGED <<repo, disk, conf, calls>>

\* A git command that fails makes the artifact stale.
StatusGitFails(p) ==
  /\ pc[p] \in {"status_branch", "status_head"}
  /\ Conclude(p, loc[p].read.art.gate_id, "stale", loc[p].read)
  /\ UNCHANGED <<repo, disk, conf, calls>>

\* resolveInputGates copies what gate.Show reads now, not what Status judged.
Show(p) ==
  /\ pc[p] = "show"
  /\ LET g == loc[p].read.art.gate_id IN
       IF ReadableAs(dir[g], g, roles)
         THEN Go(p, "status", [loc[p] EXCEPT !.read = Absent,
                                 !.inputs = @ \cup {InputOf(dir[g].art)}])
         ELSE Fail(p)
  /\ UNCHANGED <<repo, disk, conf, calls>>

SignalsDone(p) ==
  /\ pc[p] = "status" /\ loc[p].op = "signals" /\ loc[p].todo = {}
  /\ Go(p, "idle", loc[p])
  /\ UNCHANGED <<repo, disk, conf, calls>>
-----------------------------------------------------------------------------
(* gate.Record, after the inputs are resolved.                             *)

RecordBranch(p) ==
  /\ pc[p] = "status" /\ loc[p].op = "record" /\ loc[p].todo = {}
  /\ IF head.branch = Detached
       THEN Fail(p)
       ELSE Go(p, "record_head", [loc[p] EXCEPT !.branch = head.branch])
  /\ UNCHANGED <<repo, disk, conf, calls>>

RecordGitFails(p) ==
  /\ \/ pc[p] = "status" /\ loc[p].op = "record" /\ loc[p].todo = {}
     \/ pc[p] = "record_head"
  /\ Fail(p)
  /\ UNCHANGED <<repo, disk, conf, calls>>

Build(p, sha) ==
  LET c == loc[p].call IN
    [gate_id |-> c.gate_id, status |-> c.status,
     subject |-> [branch |-> loc[p].branch, head_sha |-> sha],
     procedure |-> c.procedure, inputs |-> loc[p].inputs, checks |-> c.checks]

RecordHead_Unchecked(p) ==
  /\ pc[p] = "record_head"
  /\ Go(p, "create", [loc[p] EXCEPT !.art = Whole(Build(p, head.head_sha)),
                                    !.branch = Detached])
  /\ UNCHANGED <<repo, disk, conf, calls>>

\* HEAD is read apart from the branch; then the roles are loaded and the
\* artifact is built and checked against its contract.
RecordHead(p) ==
  /\ pc[p] = "record_head"
  /\ LET a == Build(p, head.head_sha) IN
       IF GateContract(a, roles)
         THEN Go(p, "create", [loc[p] EXCEPT !.art = Whole(a), !.branch = Detached])
         ELSE Fail(p)
  /\ UNCHANGED <<repo, disk, conf, calls>>

CreateTemp_InPlace(p, t) ==
  /\ pc[p] = "create"
  /\ t \in TempNames /\ dir[t] = Absent
  /\ dir' = [dir EXCEPT ![loc[p].art.art.gate_id] = Unreadable]
  /\ Go(p, "write", [loc[p] EXCEPT !.tmp = t])
  /\ UNCHANGED <<repo, conf, proved, calls>>

\* writeArtifactFile: a fresh temporary file, its content, then the rename.
CreateTemp(p, t) ==
  /\ pc[p] = "create"
  /\ t \in TempNames /\ dir[t] = Absent
  /\ dir' = [dir EXCEPT ![t] = Unreadable]
  /\ Go(p, "write", [loc[p] EXCEPT !.tmp = t])
  /\ UNCHANGED <<repo, conf, proved, calls>>

WriteTemp(p) ==
  /\ pc[p] = "write"
  /\ dir' = [dir EXCEPT ![loc[p].tmp] = loc[p].art]
  /\ Go(p, "rename", loc[p])
  /\ UNCHANGED <<repo, conf, proved, calls>>

Rename(p) ==
  /\ pc[p] = "rename"
  /\ LET t == loc[p].tmp  a == loc[p].art.art IN
       /\ dir' = [dir EXCEPT ![a.gate_id] = dir[t], ![t] = Absent]
       /\ proved' = IF a.status = "pass"
                      THEN proved \cup {[gate_id |-> a.gate_id, subject |-> a.subject]}
                      ELSE proved
  /\ Go(p, "idle", Idle)
  /\ UNCHANGED <<repo, conf, calls>>

\* An error of any of these calls returns through the deferred os.Remove.
WriteFails(p) ==
  /\ pc[p] \in {"create", "write", "rename"}
  /\ dir' = IF loc[p].tmp = NoTemp THEN dir ELSE [dir EXCEPT ![loc[p].tmp] = Absent]
  /\ Fail(p)
  /\ UNCHANGED <<repo, conf, proved, calls>>

\* A crash runs no deferred call: the temporary file stays.
Crash(p) ==
  /\ pc[p] # "idle"
  /\ Fail(p)
  /\ UNCHANGED <<repo, disk, conf, calls>>

ProcNext(p) ==
  \/ \E c \in Calls : BeginRecord(p, c)
  \/ BeginSignals(p)
  \/ \E g \in GateIds : StatusRead(p, g)
  \/ StatusBranch(p)
  \/ StatusHead(p)
  \/ StatusGitFails(p)
  \/ Show(p)
  \/ SignalsDone(p)
  \/ RecordBranch(p)
  \/ RecordGitFails(p)
  \/ RecordHead(p)
  \/ \E t \in TempNames : CreateTemp(p, t)
  \/ WriteTemp(p)
  \/ Rename(p)
  \/ WriteFails(p)
  \/ Crash(p)

Next ==
  \/ \E c \in Commits : Commit(c) \/ Reset(c)
  \/ \E b \in Branches : Checkout(b)
  \/ Detach
  \/ \E r \in RoleConfigs : Reconfigure(r)
  \/ \E p \in Procs : ProcNext(p)

Spec == Init /\ [][Next]_vars
-----------------------------------------------------------------------------
(* Properties.                                                             *)

LocType ==
  [op : {"none", "record", "signals"}, call : Calls \cup {NoCall},
   todo : SUBSET GateIds, read : Content, branch : Branches \cup {Detached},
   inputs : SUBSET Input, art : Content, tmp : TempNames \cup {NoTemp},
   report : SUBSET StatusResult]

\* Every variable holds a value of its kind.
TypeOK ==
  /\ head \in [branch : Branches \cup {Detached}, head_sha : Commits]
  /\ tip \in [Branches -> Commits]
  /\ used \in SUBSET Commits
  /\ roles \in RoleConfigs
  /\ dir \in [Names -> Content]
  /\ pc \in [Procs -> {"idle", "status", "status_branch", "status_head", "show",
                       "record_head", "create", "write", "rename"}]
  /\ loc \in [Procs -> LocType]
  /\ calls \in 0..MaxCalls
  /\ seen \in SUBSET RoleConfigs
  /\ proved \in SUBSET Proof

\* Whatever is stored under a gate's name is an artifact of that gate which
\* met the contract of a configuration that was in force; the processes that
\* validate and the renames that publish are different steps.
StoredMetContract ==
  \A g \in GateIds :
    dir[g].kind = "artifact" =>
      /\ dir[g].art.gate_id = g
      /\ \E r \in seen : GateContract(dir[g].art, r)

\* writeArtifactFile replaces atomically: once a gate holds a whole artifact,
\* no crash, failed call or concurrent recorder leaves it absent or torn.
NeverTorn ==
  [][\A g \in GateIds : dir[g].kind = "artifact" => (dir[g].kind = "artifact")']_vars

\* What a passing artifact of gate g on subject s owes the rest of the store:
\* under some configuration that was in force, g is not the pr_readiness gate
\* or every gate it required had a passing artifact stored on s.
Backed(g, s) ==
  \E r \in seen :
    g = r.spec["pr_readiness"].gate_id =>
      \A q \in RequiredGates(r) : [gate_id |-> q, subject |-> s] \in proved

\* A stored pr-readiness pass stands on upstream passes that really were
\* stored for the same branch and commit, however the recorders, the readers,
\* the commits and the reconfigurations interleave between Status, Show and
\* the rename (inputs from --input-gate only: an --inputs-file is not compared
\* with the store).
PassIsBacked ==
  \A g \in GateIds :
    dir[g].kind = "artifact" /\ dir[g].art.status = "pass" =>
      Backed(g, dir[g].art.subject)

\* The same of every pass that LoadSignals hands to the rules, although it
\* reads the artifacts, the branch and HEAD one after the other.
ReportedPassIsBacked ==
  \A p \in Procs : \A x \in loc[p].report :
    x.status = "pass" =>
      /\ x.read.art.status = "pass"
      /\ [gate_id |-> x.gate_id, subject |-> x.read.art.subject] \in proved
      /\ Backed(x.gate_id, x.read.art.subject)

StatusNow(g) ==
  IF ReadableAs(dir[g], g, roles)
    THEN DerivedStatus(dir[g].art, head.branch, head.head_sha)
    ELSE "none"

\* A fresh pass of the pr_readiness gate meets the demands of the roles in
\* force now, not only of the roles it was recorded under: every gate they
\* require has passed on the branch head that is checked out.
FreshPassMeetsRoles ==
  LET g == roles.spec["pr_readiness"].gate_id
  IN  StatusNow(g) = "pass" =>
        \A q \in RequiredGates(roles) : [gate_id |-> q, subject |-> head] \in proved

\* A new commit leaves no gate passing: no recorder, whatever it read before,
\* can have stored a proof of a commit that did not exist yet.
CommitInvalidates ==
  [][used' # used => \A g \in GateIds : (StatusNow(g))' # "pass"]_vars

\* docs/cli.md:547: --input-gate copies "one **fresh passing** stored gate
\* artifact into `inputs[]`" - no stored artifact holds a failing input.
InputGatesPass ==
  \A g \in GateIds : dir[g].kind = "artifact" =>
    \A i \in dir[g].art.inputs : i.status = "pass"
=============================================================================
