\* One currency and two requests over four ticks: expiries, an operator's rate, a failed
\* INSERT and a restart.
SPECIFICATION FxSpec
SYMMETRY MCSymmetry
CONSTANTS
  KES = KES
  a = a
  b = b
  Local <- MCLocal
  Requests <- MCRequests
  Refreshed <- MCRefreshed
  NoRate = NoRate
  Providers = 2
  TTL = 1
  Expiries = {2}
  MaxTime = 4
  MaxRates = 3
  MaxFailures = 1
  MaxRestarts = 1
INVARIANTS NewestIsUsed ManualRateHolds
