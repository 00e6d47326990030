---------------------------- MODULE MCCommercial ----------------------------
(* Two policies, an audit result for every band, one offer with a low limit *)
EXTENDS Commercial

CONSTANTS cyber, breach
MCPolicies == {cyber, breach}
MCAnnualPremium == [p \in MCPolicies |-> IF p = cyber THEN 24000 ELSE 12000]

Quiet == [integrity |-> TRUE, failovers |-> 0, slow |-> 6, avgMs |-> 10, critical |-> 0,
          high |-> 0, lockouts |-> 0, breaches |-> 0, duplicates |-> 0, failedPercent |-> 0]
Strained == [Quiet EXCEPT !.critical = 4, !.failedPercent = 16, !.breaches = 1]
Troubled == [Strained EXCEPT !.integrity = FALSE, !.breaches = 3, !.avgMs = 501]
Failing == [Troubled EXCEPT !.failovers = 2, !.slow = 51, !.high = 6, !.lockouts = 6,
                            !.duplicates = 5, !.failedPercent = 26]
MCMeasurements == {Quiet, Strained, Troubled, Failing}

MCOffers == {[Tier["PAY_AS_YOU_GO"] EXCEPT !.included = 1], Tier["ENTERPRISE"]}
=============================================================================
