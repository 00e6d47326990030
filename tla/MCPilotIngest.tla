---------------------------- MODULE MCPilotIngest ----------------------------
(* PilotIngest on small instances: the values the configurations give its constants. *)
EXTENDS PilotIngest

CONSTANTS admin, ops

\* A global super admin and a member of platform operations.
MCPrincipal ==
  (admin :> [plane |-> "business", role |-> "global_super_admin", scope |-> Unscoped])
    @@ (ops :> [plane |-> "business", role |-> "platform_ops", scope |-> Unscoped])
=============================================================================
