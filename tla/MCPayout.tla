------------------------------ MODULE MCPayout ------------------------------
(* Payout on small instances: the values the configurations give its constants. *)
EXTENDS Payout, TLC

CONSTANTS m, c      \* an agent paid by mobile money and one paid by card

MCMomo == {m} \cap Agents
MCOpening == [a \in Agents |-> IF a = c THEN 10 ELSE 40]      \* below and above the threshold; 40 pays out 34
MCCredit == [a \in Agents |-> IF a = c THEN 30 ELSE 0]
MCThreshold == [a \in Agents |-> 20]
MCSymmetry == Permutations(Sweeps)
=============================================================================
