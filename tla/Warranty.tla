------------------------------ MODULE Warranty ------------------------------
(***************************************************************************)
(* AI insurance warranties (src/src/routes/insurance.ts), the scheduler    *)
(* that re-evaluates them (src/src/lib/recompute-scheduler.ts), the        *)
(* accounts they are bound to (routes/provisioning.ts), and the trust      *)
(* badge all of them keep up to date, which is TrustBadge's.               *)
(*                                                                         *)
(* Every handler does its work in one transaction without an await, so     *)
(* each is one action; recomputeAllWarranties is a transaction for each    *)
(* warranty, with nothing in between.                                      *)
(***************************************************************************)
EXTENDS TrustBadge

CONSTANTS
  WarrantyIds,
  EvidenceValues,    \* what role_access_metrics can add up to in the two windows
  MaxEvidence        \* bound: how often what they add up to changes

ASSUME WarrantyAssumption ==
  /\ EvidenceValues \subseteq [total : Nat, denied : Nat, crossings : Nat]
  /\ MaxEvidence \in Nat

VARIABLES
  accounts,                  \* the tenants that have an account
  ai_insurance_warranties,   \* the table: a function from ids to rows
  evidence,                  \* of each tenant: requests and denials of 7 days, boundary crossings of 30
  changes                    \* bound used up

vars == <<badgeVars, accounts, ai_insurance_warranties, evidence, changes>>

PolicyStates == {"ACTIVE", "VOID_BY_ANOMALY_RATIO", "VOID_BY_COMPLIANCE_DRIFT"}
WarrantyRow  == [tenant : Tenants, policy_state : PolicyStates]

TypeOK ==
  /\ accounts \subseteq Tenants
  /\ DOMAIN ai_insurance_warranties \subseteq WarrantyIds
  /\ ai_insurance_warranties \in [DOMAIN ai_insurance_warranties -> WarrantyRow]
  /\ \A w \in DOMAIN ai_insurance_warranties : ai_insurance_warranties[w].tenant \in accounts
  /\ evidence \in [Tenants -> EvidenceValues]
  /\ changes \in Nat
  /\ BadgeTypeOK

-----------------------------------------------------------------------------
(* evaluatePolicyState and computeBadgeState: integers for the ratios       *)
(* denied / total against 2 %, and against 75 % of it.                      *)

AnomalyVoids(e) == e.total > 0 /\ 100 * e.denied > 2 * e.total
DriftVoids(e)   == e.crossings >= 10

EvaluatePolicyState(e) ==
  IF AnomalyVoids(e) THEN "VOID_BY_ANOMALY_RATIO"
  ELSE IF DriftVoids(e) THEN "VOID_BY_COMPLIANCE_DRIFT" ELSE "ACTIVE"

\* The ratio as reasons show it: percent with one decimal, in tenths.
Shown(e) == IF e.total = 0 THEN 0 ELSE (2000 * e.denied + e.total) \div (2 * e.total)

Approaching(e) == /\ e.total > 0
                  /\ 10000 * e.denied >= 150 * e.total
                  /\ 100 * e.denied < 2 * e.total

Green == [state |-> "green", reason |-> NoReason]

\* The badge of a policy state that was evaluated from e.
ComputeBadgeState(policy_state, e) ==
  IF policy_state = "VOID_BY_ANOMALY_RATIO"
    THEN [state |-> "red", reason |-> <<"anomaly ratio exceeds threshold", Shown(e)>>]
  ELSE IF policy_state = "VOID_BY_COMPLIANCE_DRIFT"
    THEN [state |-> "red", reason |-> <<"boundary crossings", e.crossings>>]
  ELSE IF Approaching(e)
    THEN [state |-> "amber", reason |-> <<"anomaly ratio approaching", Shown(e)>>]
  ELSE Green

\* Every reason ComputeBadgeState can give.
EvidenceReasons ==
  {NoReason} \cup {ComputeBadgeState(p, e).reason : p \in PolicyStates, e \in EvidenceValues}

ASSUME ReasonsAssumption == EvidenceReasons \subseteq Reasons

-----------------------------------------------------------------------------
(* Accounts and policies. *)

Bound(w)  == w \in DOMAIN ai_insurance_warranties
Active    == {w \in DOMAIN ai_insurance_warranties : ai_insurance_warranties[w].policy_state = "ACTIVE"}
TenantOf(w) == ai_insurance_warranties[w].tenant

\* Requests and the scheduler run while the process is up, with the secret it was started with.
SameProcess ==
  /\ process = "up"
  /\ UNCHANGED <<secret_state, env, used, process, boots>>

\* createAccount: refused when the tenant has an account; seeds a green badge.
CreateAccount(t) ==
  /\ t \notin accounts
  /\ accounts' = accounts \cup {t}
  /\ SyncBadges([u \in {t} |-> Green])
  /\ UNCHANGED <<ai_insurance_warranties, evidence, changes>> /\ SameProcess

\* bindPolicy: ACTIVE, and the badge of an ACTIVE policy, without looking at the evidence.
BindPolicy(w, t) ==
  /\ t \in accounts /\ ~Bound(w)
  /\ ai_insurance_warranties' =
       [x \in DOMAIN ai_insurance_warranties \cup {w} |->
          IF x = w THEN [tenant |-> t, policy_state |-> "ACTIVE"] ELSE ai_insurance_warranties[x]]
  /\ SyncBadges([u \in {t} |-> Green])
  /\ UNCHANGED <<accounts, evidence, changes>> /\ SameProcess

\* Fault: the policies are voided, the badge is left to a later request.
ApplyWithoutBadge(S) ==
  /\ ai_insurance_warranties' =
       [w \in DOMAIN ai_insurance_warranties |->
          IF w \in S THEN [ai_insurance_warranties[w] EXCEPT
                             !.policy_state = EvaluatePolicyState(evidence[TenantOf(w)])]
                     ELSE ai_insurance_warranties[w]]
  /\ UNCHANGED <<trust_badge_registry, trust_badge_history, now, accounts, evidence, changes>>
  /\ SameProcess

\* applyStateTransition and syncBadge for every policy in S.
Apply(S) ==
  /\ ai_insurance_warranties' =
       [w \in DOMAIN ai_insurance_warranties |->
          IF w \in S THEN [ai_insurance_warranties[w] EXCEPT
                             !.policy_state = EvaluatePolicyState(evidence[TenantOf(w)])]
                     ELSE ai_insurance_warranties[w]]
  /\ SyncBadges([t \in {TenantOf(w) : w \in S} |->
                   ComputeBadgeState(EvaluatePolicyState(evidence[t]), evidence[t])])
  /\ UNCHANGED <<accounts, evidence, changes>> /\ SameProcess

\* recomputePolicy, of a policy in any state.
RecomputePolicy(w) == Apply({w})

\* recomputeAllWarranties: the ACTIVE ones; what throws is rolled back and counted,
\* and the others go on.  Policies of one tenant see the same evidence.
RecomputeAllWarranties(failed) == Apply(Active \ failed)

\* Requests are logged and grow old.
EvidenceChanges(t) ==
  /\ changes < MaxEvidence
  /\ changes' = changes + 1
  /\ \E e \in EvidenceValues \ {evidence[t]} : evidence' = [evidence EXCEPT ![t] = e]
  /\ UNCHANGED <<badgeVars, accounts, ai_insurance_warranties>>

\* Starting, with the rotation of the secret on the way, and stopping (TrustBadge).
Starts ==
  /\ BootEstablished \/ BootUnchanged \/ BootResigns \/ BootRecords
  /\ UNCHANGED <<accounts, ai_insurance_warranties, evidence, changes>>

Stops == Restart /\ UNCHANGED <<accounts, ai_insurance_warranties, evidence, changes>>

Init ==
  /\ BadgeInit
  /\ accounts = {}
  /\ ai_insurance_warranties = <<>>
  /\ evidence \in [Tenants -> {e \in EvidenceValues : e.total = 0 /\ e.crossings = 0}]
  /\ changes = 0

Next ==
  \/ \E t \in Tenants : CreateAccount(t)
  \/ \E t \in Tenants, w \in WarrantyIds : BindPolicy(w, t)
  \/ \E w \in DOMAIN ai_insurance_warranties : RecomputePolicy(w)
  \/ \E failed \in SUBSET Active : RecomputeAllWarranties(failed)
  \/ \E t \in Tenants : EvidenceChanges(t)
  \/ Starts
  \/ Stops

Spec == Init /\ [][Next]_vars

-----------------------------------------------------------------------------
(* Safety. *)

Of(t) == {w \in DOMAIN ai_insurance_warranties : TenantOf(w) = t}

\* Every account has a badge; a red one stands on a voided policy of its tenant and
\* any other on an ACTIVE one, or on there being none, whichever of several policies
\* was evaluated last (the badge sync of bindPolicy, recomputePolicy and the scan).
BadgeFollowsPolicies ==
  \A t \in accounts :
    /\ HasBadge(t)
    /\ trust_badge_registry[t].badge_state = "red" => Of(t) \ Active # {}
    /\ trust_badge_registry[t].badge_state # "red" => (Of(t) = {} \/ Of(t) \cap Active # {})

(* Liveness: the process is started again, the scheduler's timer goes on firing, and
   what a scan fails at it does not fail at for ever. *)

FairSpec == Spec /\ WF_vars(RecomputeAllWarranties({})) /\ WF_vars(Starts)

Breached(t) == EvaluatePolicyState(evidence[t]) # "ACTIVE"

\* A tenant whose evidence stays past a threshold ends up with no ACTIVE policy and a
\* red badge, even though a new policy is bound ACTIVE and turns the badge green.
EveryBreachIsNoticed ==
  \A t \in Tenants :
    []<>(~Breached(t) \/ Of(t) = {} \/ (/\ Of(t) \cap Active = {}
                                        /\ trust_badge_registry[t].badge_state = "red"))
=============================================================================
