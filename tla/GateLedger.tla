----------------------------- MODULE GateLedger -----------------------------
(***************************************************************************)
(* What the gate store promises, without processes or files: each gate     *)
(* holds its latest proof, a proof is recorded in one step, and            *)
(* pr-readiness passes on a subject only when every required gate has      *)
(* passed on that subject before.                                          *)
(***************************************************************************)
EXTENDS GateContract

CONSTANT RoleConfigs

VARIABLES
  latest,    \* the proof each gate holds, or NoProof
  passed,    \* the gates that ever passed, by subject
  inForce    \* role configurations that were in force

ledger == <<latest, passed, inForce>>

NoProof == [status |-> "none"]

LedgerInit ==
  /\ latest = [g \in GateIds |-> NoProof]
  /\ passed = {}
  /\ \E r \in RoleConfigs : inForce = {r}

PutInForce(r) ==
  /\ inForce' = inForce \cup {r}
  /\ UNCHANGED <<latest, passed>>

\* The demand a pass of gate g on subject s meets.
DemandMet(g, s) ==
  \E r \in inForce :
    g = r.spec["pr_readiness"].gate_id =>
      \A q \in RequiredGates(r) : [gate_id |-> q, subject |-> s] \in passed

Fails(g, s) ==
  /\ latest' = [latest EXCEPT ![g] = [status |-> "fail", subject |-> s]]
  /\ UNCHANGED <<passed, inForce>>

Passes(g, s) ==
  /\ DemandMet(g, s)
  /\ latest' = [latest EXCEPT ![g] = [status |-> "pass", subject |-> s]]
  /\ passed' = passed \cup {[gate_id |-> g, subject |-> s]}
  /\ UNCHANGED inForce

LedgerNext ==
  \/ \E r \in RoleConfigs : PutInForce(r)
  \/ \E g \in GateIds, s \in Subject : Fails(g, s) \/ Passes(g, s)

LedgerSpec == LedgerInit /\ [][LedgerNext]_ledger
=============================================================================
