--------------------------- MODULE MCReplication ---------------------------
(* Replication on small instances: the configurations give its constants values. *)
EXTENDS Replication
=============================================================================
