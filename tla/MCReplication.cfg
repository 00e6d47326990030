\* Three runs that may all overlap, one copy kept, a fault and a crash over two days.
SPECIFICATION BackupSpec
CONSTANTS
  Destinations = {"s3", "filesystem"}
  RetentionCount = 1
  RetentionDays = 1
  MaxRuns = 3
  MaxDay = 2
  MaxFaults = 1
  MaxCrashes = 1
INVARIANTS NewestAreKept 
