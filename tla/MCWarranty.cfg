\* Two tenants and two policies: breaches, recoveries, new policies, scans that fail in
\* part, restarts with new secrets and crashes in the middle of a rotation.
SPECIFICATION FairSpec
CONSTANTS
  Tenants = {t1, t2}
  WarrantyIds = {w1, w2}
  EvidenceValues <- MCEvidence
  MaxEvidence = 2
  Reasons <- MCReasons
  NoReason <- MCNoReason
  Secrets = {k1, k2, k3}
  None = none
  Reuse = FALSE
  MaxBoots = 2
INVARIANTS  BadgeFollowsPolicies
PROPERTIES PinsOutliveRotation EveryBreachIsNoticed
