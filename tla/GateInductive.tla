---------------------------- MODULE GateInductive ---------------------------
(***************************************************************************)
(* The inductive invariants behind the safety properties of GateArtifacts. *)
(***************************************************************************)
EXTENDS GateStore

\* Where a process stands determines which of its locals are filled in.
ControlOf(s, l) ==
  /\ s \in {"status_branch", "status_head", "show"} => l.read.kind = "artifact"
  /\ l.op = "record" => l.call \in Calls
  /\ s = "record_head" => l.op = "record" /\ l.branch \in Branches
  /\ s \in {"create", "write", "rename"} => l.art.kind = "artifact"
  /\ s \in {"write", "rename"} <=> l.tmp \in TempNames

ControlInv == \A p \in Procs : ControlOf(pc[p], loc[p])

\* A temporary file has one owner, and at the rename it holds what the owner
\* built.
TempInv ==
  /\ \A p \in Procs :
       /\ pc[p] \in {"write", "rename"} => dir[loc[p].tmp] # Absent
       /\ pc[p] = "rename" => dir[loc[p].tmp] = loc[p].art
  /\ \A p, q \in Procs :
       loc[p].tmp = loc[q].tmp /\ loc[p].tmp \in TempNames => p = q

Passed(g, s) == [gate_id |-> g, subject |-> s] \in proved

\* An artifact carries its proof: its contract was checked under roles that
\* were in force, the passing inputs it lists were stored, and if it passes it
\* is backed.
CarriesProof(a) ==
  /\ \E r \in seen : GateContract(a, r)
  /\ \A i \in a.inputs : i.status = "pass" => Passed(i.gate_id, i.subject)
  /\ a.status = "pass" => Backed(a.gate_id, a.subject)

\* Every artifact a gate, a process or a report holds carries its proof, and a
\* passing one that was read from the store is among the proofs ever stored.
LocBacked(l) ==
  /\ l.art.kind = "artifact" => CarriesProof(l.art.art)
  /\ l.read.kind = "artifact" =>
       /\ CarriesProof(l.read.art)
       /\ l.read.art.status = "pass" => Passed(l.read.art.gate_id, l.read.art.subject)
  /\ \A i \in l.inputs : i.status = "pass" => Passed(i.gate_id, i.subject)
  /\ \A x \in l.report : x.status = "pass" =>
       /\ x.read.art.status = "pass"
       /\ Passed(x.gate_id, x.read.art.subject)
       /\ Backed(x.gate_id, x.read.art.subject)

StoreBacked ==
  \A g \in GateIds : dir[g].kind = "artifact" =>
    /\ dir[g].art.gate_id = g
    /\ CarriesProof(dir[g].art)
    /\ dir[g].art.status = "pass" => Passed(g, dir[g].art.subject)

BackingInv ==
  /\ roles \in seen
  /\ StoreBacked
  /\ \A p \in Procs : LocBacked(loc[p])

\* No subject, stored or being built, names a commit that does not exist yet.
LocCommit(l) ==
  l.art.kind = "artifact" => l.art.art.subject.head_sha \in used

CommitInv ==
  /\ head.head_sha \in used
  /\ \A b \in Branches : tip[b] \in used
  /\ \A g \in GateIds : dir[g].kind = "artifact" => dir[g].art.subject.head_sha \in used
  /\ \A p \in Procs : LocCommit(loc[p])

IInv == TypeOK /\ ControlInv /\ TempInv /\ CommitInv

ProofInv == IInv /\ BackingInv
=============================================================================
