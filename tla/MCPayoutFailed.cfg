\* A declined mobile-money payout.
SPECIFICATION Spec
CONSTANTS
  m = m
  c = c
  Agents = {m}
  Momo <- MCMomo
  Opening <- MCOpening
  Threshold <- MCThreshold
  HardCap = 60
  Sweeps = {s1}
  CreditAmount <- MCCredit
  MaxCredits = 0
  MaxDay = 1
  MaxCrashes = 0
  MaxWebhooks = 0
SYMMETRY MCSymmetry
INVARIANTS FailedMoneyReturned
CHECK_DEADLOCK FALSE
