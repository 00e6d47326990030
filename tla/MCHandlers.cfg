\* Two jobs competing for one slot: receipts, incidents on two channels and a type nobody
\* handles; a rejection, a teardown or crash, with a request and a backup that may be in
\* flight at any time.
SPECIFICATION HandlersSpec
CONSTANTS
  MaxJobs = 2
  Concurrency = 1
  Types = {"wht_receipt_generate", "notification_dispatch", "unknown"}
  Handled = {"wht_receipt_generate", "notification_dispatch"}
  Keys = {k1}
  NoKey = NoKey
  Undefined = Undefined
  Priorities <- MCPriorities
  MaxAttemptsArgs <- MCMaxAttempts
  MaxFailures = 1
  MaxRestarts = 1
  Severity <- MCSeverity
  MinSeverity = "high"
INVARIANTS OneLiveJobPerKey  RepeatsNeedDeath
PROPERTIES NoPriorityInversion ImplementsJobLife EveryJobSettles ShutdownEnds
