-------------------------- MODULE MCGateArtifacts ---------------------------
EXTENDS GateInductive, TLC

LV == "local-verification"
CR == "local-coderabbit"
PR == "pr-readiness"
MCGateIds == {LV, CR, PR}

Role(g, prods, checks, req) ==
  [gate_id |-> g, producers |-> prods, pass_checks |-> checks, required |-> req]

\* The repository's roles, with the AI review required or optional.
Defaults(aiRequired) ==
  [spec |-> [n \in RoleNames |->
      CASE n = "local_verification" -> Role(LV, {"implement", "change-inspect"}, {}, TRUE)
        [] n = "pre_pr_ai_review"   -> Role(CR, {"change-inspect"}, {"cli"}, aiRequired)
        [] n = "pr_readiness"       -> Role(PR, {"change-inspect"}, {"closure"}, TRUE)],
   pass_requires |-> UpstreamRoles]
Strict  == Defaults(TRUE)
Relaxed == Defaults(FALSE)
MCRelaxedOnly == {Relaxed}
MCBothRoles == {Strict, Relaxed}

MCProcedures == {"implement", "change-inspect"}
MCCheckIds == {"cli", "closure"}

Cmd(g, status, proc, checks, gates, file) ==
  [gate_id |-> g, status |-> status, procedure |-> proc, checks |-> checks,
   input_gates |-> gates, inputs_file |-> file]
Ok(id) == {[id |-> id, status |-> "pass"]}

LVPass == Cmd(LV, "pass", "implement", Ok("cli"), {}, {})
LVFail == Cmd(LV, "fail", "implement", {[id |-> "cli", status |-> "fail"]}, {}, {})
PRPass == Cmd(PR, "pass", "change-inspect", Ok("closure"), {LV}, {})

MCCoreCalls == {LVPass, LVFail, PRPass}
MCToctouCalls == {LVPass, LVFail, Cmd(PR, "fail", "change-inspect", {[id |-> "closure", status |-> "fail"]}, {LV}, {})}

Sym == Permutations(Procs) \cup Permutations(TempNames)
         \cup Permutations(Branches) \cup Permutations(Commits)
=============================================================================
