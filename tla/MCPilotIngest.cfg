\* Three decisions, one of them too large, through a queue of two in batches of two,
\* with two overlapping flushes of the timer, one failure and one key rotation.
SPECIFICATION PilotSpec
CONSTANTS
  MaxDecisions = 3
  TooLarge = {3}
  MaxQueueSize = 2
  BatchSize = 2
  MaxFlights = 2
  MaxFailures = 1
  MaxRotations = 1
  Tiers = {"LITE", "GROWTH"}
  admin = admin
  ops = ops
  Users = {admin, ops}
  Principal <- MCPrincipal
  Nobody = Nobody
  Unscoped = Unscoped
  Tenants = {"t1"}
  MaxMetrics = 2
INVARIANTS RecordedIsKept  CountsFollowDenials
 
CHECK_DEADLOCK FALSE
