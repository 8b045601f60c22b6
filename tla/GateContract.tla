---------------------------- MODULE GateContract ----------------------------
(***************************************************************************)
(* The data of a runtime gate artifact and the proof contract it must      *)
(* satisfy under a role configuration (internal/gate/artifact.go,          *)
(* internal/config/runtime_gates.go).  Names, checks and commits are       *)
(* atoms: the contract only compares them.                                 *)
(***************************************************************************)

CONSTANTS
  GateIds,     \* well-formed gate ids (ValidateGateID accepts them)
  Branches,    \* branch names
  Commits,     \* commit ids HEAD may resolve to
  Detached,    \* what CurrentBranch reports for a detached HEAD
  Procedures,  \* producer.procedure values
  CheckIds     \* checks[].id values

ASSUME DetachedAssumption == Detached \notin Branches

RoleNames == {"local_verification", "pre_pr_ai_review", "pr_readiness"}

\* The roles pr_readiness may require of a pass.
UpstreamRoles == {"local_verification", "pre_pr_ai_review"}

\* An empty producers set stands for "no restriction".
RoleSpec == [gate_id : GateIds, producers : SUBSET Procedures,
             pass_checks : SUBSET CheckIds, required : BOOLEAN]

\* A configuration that config.LoadRoot accepts: three roles on three gates.
RuntimeGateRoles ==
  {r \in [spec : [RoleNames -> RoleSpec], pass_requires : SUBSET UpstreamRoles] :
     \A m, n \in RoleNames : r.spec[m].gate_id = r.spec[n].gate_id => m = n}

Subject  == [branch : Branches, head_sha : Commits]
Check    == [id : CheckIds, status : {"pass", "fail", "skipped"}]
Input    == [gate_id : GateIds, status : {"pass", "fail"}, subject : Subject]
Artifact == [gate_id : GateIds, status : {"pass", "fail"}, subject : Subject,
             procedure : Procedures, inputs : SUBSET Input,
             checks : SUBSET Check]

\* What a path holds: nothing, bytes no reader accepts, or one whole artifact.
Absent     == [kind |-> "absent"]
Unreadable == [kind |-> "unreadable"]
Whole(a)   == [kind |-> "artifact", art |-> a]
Content    == {Absent, Unreadable} \cup [kind : {"artifact"}, art : Artifact]

-----------------------------------------------------------------------------
\* Only the AI-review role can be declared optional.
RequiredForPRReadiness(r, name) ==
  name = "pre_pr_ai_review" => r.spec[name].required

RequiredGates(r) ==
  {r.spec[n].gate_id : n \in {m \in r.pass_requires : RequiredForPRReadiness(r, m)}}

ConfiguredGateRole(name, role, art) ==
  /\ role.producers = {} \/ art.procedure \in role.producers
  /\ name # "pr_readiness" => art.inputs = {}
  /\ \A c \in role.pass_checks :
       /\ \E k \in art.checks : k.id = c
       /\ art.status = "pass" => [id |-> c, status |-> "pass"] \in art.checks

ConfiguredPRReadinessGate_AnySubject(art, r) ==
  art.status = "pass" =>
    \A g \in RequiredGates(r) : \E i \in art.inputs : i.gate_id = g /\ i.status = "pass"

\* Failing inputs are kept but prove nothing; a passing input on another
\* subject rejects the artifact; every required gate needs a passing input.
ConfiguredPRReadinessGate(art, r) ==
  art.status = "pass" =>
    /\ \A i \in art.inputs : i.status = "pass" => i.subject = art.subject
    /\ \A g \in RequiredGates(r) :
         \E i \in art.inputs : i.gate_id = g /\ i.status = "pass"

GateContract(art, r) ==
  /\ art.checks # {}
  /\ \A n \in RoleNames :
       r.spec[n].gate_id = art.gate_id =>
         /\ ConfiguredGateRole(n, r.spec[n], art)
         /\ n = "pr_readiness" => ConfiguredPRReadinessGate(art, r)

ReadableAs_NoContract(content, g, r) ==
  content.kind = "artifact" /\ content.art.gate_id = g

\* readArtifactFile accepts: parsed, schema-valid, declares the gate it is
\* stored under, and still meets the contract of the roles in force.
ReadableAs(content, g, r) ==
  /\ content.kind = "artifact"
  /\ content.art.gate_id = g
  /\ GateContract(content.art, r)

DerivedStatus_BranchOnly(art, branch, sha) ==
  IF branch # Detached /\ art.subject.branch = branch THEN art.status ELSE "stale"

DerivedStatus_FreshIsPass(art, branch, sha) ==
  IF branch # Detached /\ art.subject.branch = branch /\ art.subject.head_sha = sha
    THEN "pass"
    ELSE "stale"

\* The freshness rule: the artifact counts only for the branch head it names.
DerivedStatus(art, branch, sha) ==
  IF branch # Detached /\ art.subject.branch = branch /\ art.subject.head_sha = sha
    THEN art.status
    ELSE "stale"

InputOf(art) ==
  [gate_id |-> art.gate_id, status |-> art.status, subject |-> art.subject]
=============================================================================
