CONSTANTS
    r1 = r1  r2 = r2
    p1 = p1  p2 = p2  weak = weak
    Requests <- MCRequests
    Passwords <- MCPasswords
    Weak <- MCWeak
    MaxFailedAttempts = 5
    MaxFailures = 10
    MaxTokens = 2
    MaxLogs = 2
    MaxChanges = 1
SPECIFICATION Spec
SYMMETRY Symmetry
INVARIANTS OneLiveTokenPerLogin SessionsFollowPassword BurstEndsLocked
PROPERTY LockOutlivesNewRequests
CHECK_DEADLOCK FALSE
