----------------------------- MODULE MCHandlers -----------------------------
(* Handlers on small instances: the values the configurations give its constants. *)
EXTENDS Handlers

MCPriorities == {0, 2}     \* critical and normal
MCMaxAttempts == {2}
MCSeverity == [j \in Jobs |-> IF j = 1 THEN "critical" ELSE "warning"]
=============================================================================
