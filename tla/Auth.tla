------------------------------- MODULE Auth -------------------------------
(***************************************************************************)
(* One account of src/routes/auth.ts and the requests that work on it at   *)
(* the same time.  A handler runs alone until it awaits: argon2, the delay *)
(* against guessing and the alerts of anomaly.ts are the awaits, and a     *)
(* request keeps over them what it had read.  Access tokens are JWTs with  *)
(* no state: whoever has once logged in may call logout and                *)
(* change-password.                                                        *)
(***************************************************************************)
EXTENDS Anomaly, FiniteSets

CONSTANTS
    Requests,            \* requests that can be under way at once
    Passwords,           \* passwords people try
    Weak,                \* those validatePasswordStrength refuses
    MaxFailedAttempts,   \* MAX_FAILED_ATTEMPTS, 5
    MaxFailures,         \* bound: failed_attempts
    MaxTokens,           \* bound: refresh_tokens rows
    MaxLogs,             \* bound: anomaly_logs rows
    MaxChanges           \* bound: password changes

ASSUME AuthAssumption ==
    /\ Weak \subseteq Passwords
    /\ MaxFailedAttempts \in Nat \ {0}
    /\ {MaxFailures, MaxTokens, MaxLogs, MaxChanges} \subseteq Nat

VARIABLES
    account,   \* the users row, NoAccount before it is registered
    created,   \* passwords of the registrations answered 201
    tokens,    \* refresh_tokens, in the order they were issued
    logs,      \* anomaly_logs of the account
    changes,   \* role_audit_log rows "password_change": verified and new password
    reqs,      \* requests under way
    crashed,   \* the process has died once
    uncounted  \* change-password took failed_attempts to the limit

vars == <<account, created, tokens, logs, changes, reqs, crashed, uncounted>>

NoAccount == [pw |-> "none"]
Until == {"none", "soft", "hard", "past"}
Account == [pw : Passwords \ Weak, failed : 0 .. MaxFailures, locked : BOOLEAN,
            until : Until, shadow : BOOLEAN]
Token == [login : 1 .. MaxTokens, pw : Passwords, raced : BOOLEAN,
          revoked : BOOLEAN, expired : BOOLEAN]
Log == [score : 0 .. 100, lockout : {"none", "soft", "hard", "shadow"}, alerted : BOOLEAN]
Idle == [pc |-> "idle"]
Request ==
    {Idle}
    \cup [pc : {"register"}, new : Passwords \ Weak]
    \cup [pc : {"login"}, guess : Passwords, seen : Passwords]
    \cup [pc : {"alert"}, count : 1 .. MaxFailures, log : 1 .. MaxLogs]
    \cup [pc : {"change"}, guess : Passwords, seen : Passwords, new : Passwords \ Weak]

Live(t) == ~tokens[t].revoked

\* Fault: the end of the lock is compared as if it had passed.
LockRunsFor24Hours == account.locked /\ account.until = "hard"

LockRuns == account.locked /\ account.until \in {"soft", "hard"}

Init ==
    /\ account = NoAccount
    /\ created = <<>> /\ tokens = <<>> /\ logs = <<>> /\ changes = <<>>
    /\ reqs = [r \in Requests |-> Idle]
    /\ crashed = FALSE /\ uncounted = FALSE

\* validatePasswordStrength
Acceptable(p) == p \notin Weak

Await(r, what) == reqs' = [reqs EXCEPT ![r] = what]
Answer(r) == Await(r, Idle)
LoggedIn == tokens # <<>>

\* register up to the hash: the strength and the existing user are checked.
RegisterStart(r, p) ==
    /\ reqs[r] = Idle
    /\ Acceptable(p)
    /\ account = NoAccount
    /\ Await(r, [pc |-> "register", new |-> p])
    /\ UNCHANGED <<account, created, tokens, logs, changes, crashed, uncounted>>

Fresh(p) == [pw |-> p, failed |-> 0, locked |-> FALSE, until |-> "none", shadow |-> FALSE]

\* The INSERT with its UNIQUE name: a second one throws and is answered 500.
Insert(p) ==
    IF account = NoAccount
    THEN account' = Fresh(p) /\ created' = Append(created, p)
    ELSE UNCHANGED <<account, created>>

RegisterInsert(r) ==
    /\ reqs[r].pc = "register"
    /\ Insert(reqs[r].new)
    /\ Answer(r)
    /\ UNCHANGED <<tokens, logs, changes, crashed, uncounted>>

\* resetFailedAttempts
Reset(row) == [row EXCEPT !.failed = 0, !.locked = FALSE, !.until = "none"]

\* login up to the verification.  A lock that runs is answered 423, one that
\* has run out is lifted; the delay and argon2 work on the hash read here.
LoginStart(r, guess) ==
    /\ reqs[r] = Idle
    /\ account # NoAccount
    /\ ~LockRuns
    /\ account' = IF account.locked THEN Reset(account) ELSE account
    /\ uncounted' = (uncounted /\ ~account.locked)
    /\ Await(r, [pc |-> "login", guess |-> guess, seen |-> account.pw])
    /\ UNCHANGED <<created, tokens, logs, changes, crashed>>

BurstLimit == 5   \* detectFailedAuthBurst

\* A mismatch: incrementFailedAttempts and, from the fifth on, processAnomaly
\* as far as its alerts.
LoginFails(r) ==
    LET counted == [account EXCEPT !.failed = @ + 1]
        count   == counted.failed
        found   == Anomalous(counted, "failed_auth_burst", count, Len(logs))
    IN /\ reqs[r].pc = "login"
       /\ reqs[r].guess # reqs[r].seen
       /\ account.failed < MaxFailures
       /\ IF count < BurstLimit
          THEN /\ account' = counted
               /\ Answer(r)
               /\ UNCHANGED logs
          ELSE /\ Len(logs) < MaxLogs
               /\ account' = found.row
               /\ logs' = Append(logs, found.log)
               /\ Await(r, [pc |-> "alert", count |-> count, log |-> Len(logs) + 1])
       /\ UNCHANGED <<created, tokens, changes, crashed, uncounted>>

\* Fault: the lock is left to the shadow lockout.
LockedByAlert(row, count) == row

\* lockUser, by the number of failures counted before the alerts went out.
Locked(row, count) ==
    IF count < MaxFailedAttempts THEN row
    ELSE [row EXCEPT !.locked = TRUE,
                     !.until = IF count >= 2 * MaxFailedAttempts THEN "hard" ELSE "soft"]

Marked(log) == [logs EXCEPT ![log].alerted = TRUE]

\* dispatchAlerts returns, whatever became of each channel.
AlertsSent(r) ==
    /\ reqs[r].pc = "alert"
    /\ logs' = Marked(reqs[r].log)
    /\ account' = Locked(account, reqs[r].count)
    /\ Answer(r)
    /\ UNCHANGED <<created, tokens, changes, crashed, uncounted>>

Issue(list, login, pw, raced) ==
    Append(list, [login |-> login, pw |-> pw, raced |-> raced,
                  revoked |-> FALSE, expired |-> FALSE])

\* A match with the hash that was read: the row is reset, a pair issued.  The
\* pair is raced when the password changed while it was being verified.
LoginSucceeds(r) ==
    LET seen == reqs[r].seen
    IN /\ reqs[r].pc = "login"
       /\ reqs[r].guess = seen
       /\ Len(tokens) < MaxTokens
       /\ account' = Reset(account)
       /\ uncounted' = FALSE
       /\ tokens' = Issue(tokens, Len(tokens) + 1, seen, seen # account.pw)
       /\ Answer(r)
       /\ UNCHANGED <<created, logs, changes, crashed>>

Revoked(list, which) ==
    [i \in DOMAIN list |-> IF i \in which THEN [list[i] EXCEPT !.revoked = TRUE] ELSE list[i]]

\* Fault: the token that is presented stays valid.
RotatedKeepingOld(t) == Issue(tokens, tokens[t].login, tokens[t].pw, tokens[t].raced)

\* refresh of a token that neither expired nor was revoked.
Rotated(t) == Issue(Revoked(tokens, {t}), tokens[t].login, tokens[t].pw, tokens[t].raced)

\* refresh runs without an await: it answers 401 for a revoked token, revokes
\* one that has expired, answers 423 while a lock runs, and otherwise rotates.
Refresh(t) ==
    /\ Live(t)
    /\ \/ /\ tokens[t].expired
          /\ tokens' = Revoked(tokens, {t})
       \/ /\ ~tokens[t].expired
          /\ ~LockRuns
          /\ Len(tokens) < MaxTokens
          /\ tokens' = Rotated(t)
    /\ UNCHANGED <<account, created, logs, changes, reqs, crashed, uncounted>>

Logout ==
    /\ LoggedIn
    /\ tokens' = Revoked(tokens, DOMAIN tokens)
    /\ UNCHANGED <<account, created, logs, changes, reqs, crashed, uncounted>>

\* changePassword up to its verifications; no lock is looked at.
ChangeStart(r, guess, new) ==
    /\ reqs[r] = Idle
    /\ LoggedIn
    /\ Acceptable(new)
    /\ Await(r, [pc |-> "change", guess |-> guess, seen |-> account.pw, new |-> new])
    /\ UNCHANGED <<account, created, tokens, logs, changes, crashed, uncounted>>

\* The current password is wrong: counted, but nothing is locked.
ChangeFails(r) ==
    /\ reqs[r].pc = "change"
    /\ reqs[r].guess # reqs[r].seen
    /\ account.failed < MaxFailures
    /\ account' = [account EXCEPT !.failed = @ + 1]
    /\ uncounted' = (uncounted \/ account'.failed >= MaxFailedAttempts)
    /\ Answer(r)
    /\ UNCHANGED <<created, tokens, logs, changes, crashed>>

\* The new password is the one verified: 422.
ChangeSame(r) ==
    /\ reqs[r].pc = "change"
    /\ reqs[r].guess = reqs[r].seen
    /\ reqs[r].new = reqs[r].seen
    /\ Answer(r)
    /\ UNCHANGED <<account, created, tokens, logs, changes, crashed, uncounted>>

\* Fault: the sessions are left alone.
SessionsAfterChangeKept == tokens

\* revokeAllUserRefreshTokens
SessionsAfterChange == Revoked(tokens, DOMAIN tokens)

\* One transaction: hash, audit row, revocation.  locked stays as it is.
ChangeCommits(r) ==
    /\ reqs[r].pc = "change"
    /\ reqs[r].guess = reqs[r].seen
    /\ reqs[r].new # reqs[r].seen
    /\ Len(changes) < MaxChanges
    /\ account' = [account EXCEPT !.pw = reqs[r].new, !.failed = 0]
    /\ changes' = Append(changes, [from |-> reqs[r].seen, to |-> reqs[r].new])
    /\ tokens' = SessionsAfterChange
    /\ uncounted' = FALSE
    /\ Answer(r)
    /\ UNCHANGED <<created, logs, crashed>>

\* Time: a lock runs out, a refresh token expires.
LockExpires ==
    /\ account # NoAccount
    /\ LockRuns
    /\ account' = [account EXCEPT !.until = "past"]
    /\ UNCHANGED <<created, tokens, logs, changes, reqs, crashed, uncounted>>

TokenExpires(t) ==
    /\ ~tokens[t].expired
    /\ tokens' = [tokens EXCEPT ![t].expired = TRUE]
    /\ UNCHANGED <<account, created, logs, changes, reqs, crashed, uncounted>>

\* The process dies: what was under way is gone, the rows stay.
Crash ==
    /\ ~crashed
    /\ crashed' = TRUE
    /\ reqs' = [r \in Requests |-> Idle]
    /\ UNCHANGED <<account, created, tokens, logs, changes, uncounted>>

Next ==
    \/ \E r \in Requests :
          \/ \E p \in Passwords : RegisterStart(r, p) \/ LoginStart(r, p)
          \/ \E p, q \in Passwords : ChangeStart(r, p, q)
          \/ RegisterInsert(r) \/ LoginFails(r) \/ AlertsSent(r) \/ LoginSucceeds(r)
          \/ ChangeFails(r) \/ ChangeSame(r) \/ ChangeCommits(r)
    \/ \E t \in DOMAIN tokens : Refresh(t) \/ TokenExpires(t)
    \/ Logout \/ LockExpires \/ Crash

Spec == Init /\ [][Next]_vars

-----------------------------------------------------------------------------
TypeOK ==
    /\ account \in Account \cup {NoAccount}
    /\ created \in Seq(Passwords)
    /\ tokens \in Seq(Token)
    /\ logs \in Seq(Log)
    /\ changes \in Seq([from : Passwords, to : Passwords])
    /\ reqs \in [Requests -> Request]
    /\ crashed \in BOOLEAN /\ uncounted \in BOOLEAN

\* Whatever registrations ran at once, one was told 201, and its password is the
\* one in force until somebody changes it: the existing-user check is made
\* before the hash, so only the UNIQUE name decides.
RegisteredOnce ==
    /\ Len(created) <= 1
    /\ account # NoAccount /\ changes = <<>> => created = <<account.pw>>

\* Of all the refresh tokens that go back to one login, at most one can be used:
\* rotation, logout, expiry and password changes may come in any order.
OneLiveTokenPerLogin ==
    \A s, t \in DOMAIN tokens :
       tokens[s].login = tokens[t].login /\ Live(s) /\ Live(t) => s = t

\* A password change ends every session the old password had opened: a token
\* that still works attests the password in force.  The exception is a login
\* that was being verified while the password changed, which then issues its
\* token after the revocation (auth.ts:470 reads the hash, auth.ts:551 stores).
SessionsFollowPassword ==
    \A t \in DOMAIN tokens : Live(t) /\ ~tokens[t].raced => tokens[t].pw = account.pw

\* Once failed_attempts has reached the limit the account is locked.  What can
\* stand between is a login still waiting for its alerts (the shadow lockout it
\* has applied took an earlier lock off), a crash in that wait, or failures
\* counted by change-password, which never locks.
BurstEndsLocked ==
    account # NoAccount /\ account.failed >= MaxFailedAttempts /\ ~account.locked
       => \/ \E r \in Requests : reqs[r].pc = "alert"
          \/ crashed
          \/ uncounted

\* A lock that runs is lifted before its end only by a login that had passed the
\* lock check before it was set: by its success, or, against its purpose, by the
\* shadow lockout of its failure (anomaly.ts:270).
LockOutlivesNewRequests ==
    [][account # NoAccount /\ account.locked /\ account.until \in {"soft", "hard"}
          /\ ~account'.locked
          => \E q \in Requests : reqs[q].pc = "login" /\ reqs'[q] # reqs[q]]_vars
=============================================================================
