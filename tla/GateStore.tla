----------------------------- MODULE GateStore ------------------------------
(***************************************************************************)
(* The artifact files implement the ledger: a gate's latest proof is what  *)
(* its path holds, and only the rename is a step of the ledger.            *)
(***************************************************************************)
EXTENDS GateArtifacts

ProofIn(content) ==
  IF content.kind = "artifact"
    THEN [status |-> content.art.status, subject |-> content.art.subject]
    ELSE [status |-> "none"]

Ledger == INSTANCE GateLedger WITH
            latest  <- [g \in GateIds |-> ProofIn(dir[g])],
            passed  <- proved,
            inForce <- seen

\* The processes, their crashes and their file system steps are, seen through
\* the store, atomic records of proofs that met their demand.
ImplementsLedger == Ledger!LedgerSpec
=============================================================================
