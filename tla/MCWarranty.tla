----------------------------- MODULE MCWarranty -----------------------------
(* Warranty on small instances: evidence below, near, at and past the thresholds. *)
EXTENDS Warranty

Evidence(denied, crossings) == [total |-> 1000, denied |-> denied, crossings |-> crossings]

MCNothing  == [total |-> 0, denied |-> 0, crossings |-> 0]
MCEvidence == {MCNothing, Evidence(16, 9), Evidence(21, 0), Evidence(20, 10)}
MCNoReason == <<"none", 0>>
MCReasons  == EvidenceReasons
=============================================================================
