---------------------------- MODULE MCPrBackfill ----------------------------
EXTENDS PrBackfill

MCPulls    == <<"pr1", "pr2">>
MCDeclared == <<"fix", "feat">>
MCSorted   == <<"feat", "fix">>

PR(title, labels, whole) == [title |-> title, labels |-> labels, body |-> [text |-> 0, whole |-> whole]]
MCFirstPulls == { [p \in Range(Pulls) |->
                     IF p = "pr1" THEN PR("fix", {"feat", "bug"}, FALSE)
                     ELSE PR(Untyped, {"feat", "fix"}, TRUE)] }

MCCommands == [a \in Agents |-> IF a = "ann" THEN {"backfill", "ensure", "sync", "dry-run"}
                                ELSE {"backfill"}]

Looks(fix, feat, bug) == [x \in Labels |-> CASE x = "fix" -> fix [] x = "feat" -> feat [] OTHER -> bug]
MCFirstLooks == { Looks("none", "recolored", "configured"), Looks("configured", "redescribed", "configured") }
=============================================================================
