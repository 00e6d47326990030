\* Two concurrent sweeps over a mobile-money and a card agent, with a credit, lockouts
\* and a crash at any await.
SPECIFICATION Spec
CONSTANTS
  m = m
  c = c
  Agents = {m, c}
  Momo <- MCMomo
  Opening <- MCOpening
  Threshold <- MCThreshold
  HardCap = 60
  Sweeps = {s1, s2}
  CreditAmount <- MCCredit
  MaxCredits = 1
  MaxDay = 2
  MaxCrashes = 1
  MaxWebhooks = 1
SYMMETRY MCSymmetry
INVARIANTS NeverOverdrawn OneTransferPerKey 
 
CHECK_DEADLOCK FALSE
