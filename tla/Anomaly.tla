------------------------------ MODULE Anomaly ------------------------------
(***************************************************************************)
(* The scoring and lockout rules of src/analytics/anomaly.ts.  A score is  *)
(* the base of the event times a multiplier of 1 to 3 for its size plus a  *)
(* bonus for events of the same kind in the last 24 hours; multipliers are *)
(* kept in halves, and drained fractions and amounts as the steps the code *)
(* compares them with.                                                     *)
(***************************************************************************)
EXTENDS Naturals, Sequences

BaseScore ==
    [rapid_balance_drain |-> 35, threshold_spike |-> 20, off_hours_payout |-> 15,
     high_frequency_payout |-> 25, cross_tenant_probe |-> 70,
     invalid_hmac_sequence |-> 55, shadow_scan_trigger |-> 80,
     failed_auth_burst |-> 50, policy_reload_flood |-> 30,
     large_single_transfer |-> 40]

EventTypes == DOMAIN BaseScore

\* From which observed value on the multiplier is 3/2, 2 and 3: a percentage
\* drained, payouts or failures in the window, thousands, reloads a minute.
Steps ==
    [rapid_balance_drain |-> <<50, 70, 90>>, high_frequency_payout |-> <<5, 10, 20>>,
     large_single_transfer |-> <<10, 20, 40>>, failed_auth_burst |-> <<5, 10, 20>>,
     invalid_hmac_sequence |-> <<3, 3, 5>>, policy_reload_flood |-> <<5, 15, 30>>]

HalfMultiplier(event, observed) ==
    IF event \notin DOMAIN Steps THEN 2
    ELSE LET at == Steps[event]
         IN CASE observed >= at[3] -> 6
              [] observed >= at[2] /\ observed < at[3] -> 4
              [] observed >= at[1] /\ observed < at[2] -> 3
              [] OTHER -> 2

RecencyBonus(recent) ==
    CASE recent >= 10 -> 15
      [] recent >= 5 /\ recent < 10 -> 10
      [] recent >= 2 /\ recent < 5 -> 5
      [] OTHER -> 0

\* Math.round rounds a half up.
Score(event, observed, recent) ==
    LET raw == (BaseScore[event] * HalfMultiplier(event, observed) + 1) \div 2
                  + RecencyBonus(recent)
    IN IF raw > 100 THEN 100 ELSE raw

RiskLevel(score) ==
    CASE score >= 70 -> "critical"
      [] score >= 45 /\ score < 70 -> "high"
      [] score >= 20 /\ score < 45 -> "medium"
      [] OTHER -> "low"

\* The kind of lockout each level asks for.
LockoutOf ==
    [low |-> "none", medium |-> "soft", high |-> "hard", critical |-> "shadow"]

\* applyUserLockout: a shadow lockout marks the row and takes the lock off; the
\* others lock it.  until is the kind of lock that runs, "none" or "past".
UserLockout(row, kind) ==
    CASE kind = "shadow" -> [row EXCEPT !.shadow = TRUE, !.locked = FALSE]
      [] kind \in {"soft", "hard"} -> [row EXCEPT !.locked = TRUE, !.until = kind]
      [] kind = "none" -> row

\* What processAnomaly does to the row of a user before its alerts go out, and
\* the anomaly_logs row it writes.
Anomalous(row, event, observed, recent) ==
    LET score == Score(event, observed, recent)
        kind  == LockoutOf[RiskLevel(score)]
    IN [row |-> UserLockout(row, kind),
        log |-> [score |-> score, lockout |-> kind, alerted |-> FALSE]]
=============================================================================
