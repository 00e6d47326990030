----------------------------- MODULE AuthProofs -----------------------------
(***************************************************************************)
(* What TLAPS proves of the people who sign in: of Auth for every number   *)
(* of concurrent requests, passwords, failures, tokens, logs and password  *)
(* changes, and of Users, below it, for every set of accounts and every    *)
(* length of the audit trail.  The two share no variable.                  *)
(***************************************************************************)
EXTENDS Auth, Users, TLAPS

-----------------------------------------------------------------------------
(* Types. *)

LEMMA NoAccountType == NoAccount \notin Account
<1>1. DOMAIN NoAccount = {"pw"}
  BY DEF NoAccount
<1>2. \A row \in Account : "failed" \in DOMAIN row
  BY DEF Account
<1> QED BY <1>1, <1>2

LEMMA RequestFields ==
  ASSUME NEW req \in Request
  PROVE  /\ req.pc = "register" => req.new \in Passwords \ Weak
         /\ req.pc = "login" => req.guess \in Passwords /\ req.seen \in Passwords
         /\ req.pc = "alert" => req.count \in 1 .. MaxFailures /\ req.log \in 1 .. MaxLogs
         /\ req.pc = "change" =>
              req.guess \in Passwords /\ req.seen \in Passwords /\ req.new \in Passwords \ Weak
BY DEF Request, Idle

\* A burst of failed logins scores between 0 and 100 and asks for one of the lockouts.
LEMMA BurstScore ==
  ASSUME NEW observed \in Nat, NEW recent \in Nat
  PROVE  Score("failed_auth_burst", observed, recent) \in 0 .. 100
<1> DEFINE half == HalfMultiplier("failed_auth_burst", observed)
<1>1. half \in {2, 3, 4, 6}
  BY DEF HalfMultiplier, Steps
<1>2. RecencyBonus(recent) \in {0, 5, 10, 15}
  BY DEF RecencyBonus
<1>3. BaseScore["failed_auth_burst"] = 50
  BY DEF BaseScore
<1> HIDE DEF half
<1>4. (50 * half + 1) \div 2 \in {50, 75, 100, 150}
  BY <1>1
<1>5. Score("failed_auth_burst", observed, recent) =
        LET raw == (50 * half + 1) \div 2 + RecencyBonus(recent)
        IN IF raw > 100 THEN 100 ELSE raw
  BY <1>3 DEF Score, half
<1> QED BY <1>2, <1>4, <1>5

LEMMA LevelKind ==
  ASSUME NEW score
  PROVE  LockoutOf[RiskLevel(score)] \in {"none", "soft", "hard", "shadow"}
<1>1. RiskLevel(score) \in {"critical", "high", "medium", "low"}
  BY DEF RiskLevel
<1> QED BY <1>1 DEF LockoutOf

LEMMA UserLockoutType ==
  ASSUME NEW row \in Account, NEW kind \in {"none", "soft", "hard", "shadow"}
  PROVE  /\ UserLockout(row, kind) \in Account
         /\ UserLockout(row, kind).failed = row.failed
         /\ UserLockout(row, kind).pw = row.pw
<1>1. CASE kind = "shadow"
  BY <1>1 DEF UserLockout, Account
<1>2. CASE kind \in {"soft", "hard"}
  BY <1>2 DEF UserLockout, Account, Until
<1>3. CASE kind = "none"
  BY <1>3 DEF UserLockout, Account
<1> QED BY <1>1, <1>2, <1>3

LEMMA AnomalousType ==
  ASSUME NEW row \in Account, NEW observed \in Nat, NEW recent \in Nat
  PROVE  /\ Anomalous(row, "failed_auth_burst", observed, recent).row \in Account
         /\ Anomalous(row, "failed_auth_burst", observed, recent).row.failed = row.failed
         /\ Anomalous(row, "failed_auth_burst", observed, recent).row.pw = row.pw
         /\ Anomalous(row, "failed_auth_burst", observed, recent).log \in Log
<1> DEFINE score == Score("failed_auth_burst", observed, recent)
           kind  == LockoutOf[RiskLevel(score)]
           entry == [score |-> score, lockout |-> kind, alerted |-> FALSE]
<1>1. score \in 0 .. 100 /\ kind \in {"none", "soft", "hard", "shadow"}
  BY BurstScore, LevelKind
<1>2. /\ UserLockout(row, kind) \in Account
      /\ UserLockout(row, kind).failed = row.failed
      /\ UserLockout(row, kind).pw = row.pw
  BY <1>1, UserLockoutType
<1>3. Anomalous(row, "failed_auth_burst", observed, recent) =
        [row |-> UserLockout(row, kind), log |-> entry]
  BY DEF Anomalous
<1> HIDE DEF score, kind
<1>4. entry \in Log
  BY <1>1 DEF Log
<1> HIDE DEF entry
<1> DEFINE found == Anomalous(row, "failed_auth_burst", observed, recent)
<1>5. found.row = UserLockout(row, kind)
  BY <1>3
<1>6. found.log = entry
  BY <1>3
<1> HIDE DEF found
<1>7. found.row \in Account /\ found.row.failed = row.failed /\ found.row.pw = row.pw /\ found.log \in Log
  BY <1>2, <1>4, <1>5, <1>6
<1> QED BY <1>7 DEF found

\* The rows the handlers write.
LEMMA AccountRows ==
  ASSUME NEW row \in Account
  PROVE  /\ Reset(row) \in Account
         /\ \A count \in Nat : /\ Locked(row, count) \in Account
                               /\ Locked(row, count).pw = row.pw
         /\ row.failed < MaxFailures => [row EXCEPT !.failed = @ + 1] \in Account
         /\ [row EXCEPT !.until = "past"] \in Account
         /\ \A p \in Passwords \ Weak : [row EXCEPT !.pw = p, !.failed = 0] \in Account
<1>1. 0 \in 0 .. MaxFailures
  BY AuthAssumption
<1>2. Reset(row) \in Account
  BY <1>1 DEF Reset, Account, Until
<1>3. ASSUME NEW count \in Nat PROVE Locked(row, count) \in Account /\ Locked(row, count).pw = row.pw
  BY DEF Locked, Account, Until
<1>4. row.failed < MaxFailures => [row EXCEPT !.failed = @ + 1] \in Account
  BY AuthAssumption DEF Account
<1>5. [row EXCEPT !.until = "past"] \in Account
  BY DEF Account, Until
<1>6. \A p \in Passwords \ Weak : [row EXCEPT !.pw = p, !.failed = 0] \in Account
  BY <1>1 DEF Account
<1> QED BY <1>2, <1>3, <1>4, <1>5, <1>6

\* What a sequence of tokens becomes.
LEMMA TokenLists ==
  ASSUME NEW list \in Seq(Token)
  PROVE  /\ \A which : Revoked(list, which) \in Seq(Token) /\ Len(Revoked(list, which)) = Len(list)
         /\ \A login \in 1 .. MaxTokens, pw \in Passwords, raced \in BOOLEAN :
              Issue(list, login, pw, raced) \in Seq(Token)
<1>1. ASSUME NEW which
      PROVE  Revoked(list, which) \in Seq(Token) /\ Len(Revoked(list, which)) = Len(list)
  <2>1. \A i \in DOMAIN list : list[i] \in Token
    OBVIOUS
  <2>2. \A token \in Token : [token EXCEPT !.revoked = TRUE] \in Token
    BY DEF Token
  <2>3. Revoked(list, which) \in [1 .. Len(list) -> Token]
    BY <2>1, <2>2 DEF Revoked
  <2> QED BY <2>3
<1>2. ASSUME NEW login \in 1 .. MaxTokens, NEW pw \in Passwords, NEW raced \in BOOLEAN
      PROVE  Issue(list, login, pw, raced) \in Seq(Token)
  <2>1. [login |-> login, pw |-> pw, raced |-> raced, revoked |-> FALSE, expired |-> FALSE] \in Token
    BY DEF Token
  <2> QED BY <2>1 DEF Issue
<1> QED BY <1>1, <1>2

\* Only an account that exists is asked for: whatever follows its registration has it there.
Exists ==
  account = NoAccount =>
    /\ created = <<>> /\ tokens = <<>> /\ changes = <<>>
    /\ \A r \in Requests : reqs[r].pc \in {"idle", "register"}

Typed == TypeOK /\ Exists

LEMMA TypedInit == Init => Typed
<1> SUFFICES ASSUME Init PROVE Typed
  OBVIOUS
<1>1. reqs \in [Requests -> Request] /\ \A r \in Requests : reqs[r].pc = "idle"
  BY DEF Init, Request, Idle
<1>2. /\ <<>> \in Seq(Passwords) /\ <<>> \in Seq(Token) /\ <<>> \in Seq(Log)
      /\ <<>> \in Seq([from : Passwords, to : Passwords])
  OBVIOUS
<1> QED BY <1>1, <1>2 DEF Init, Typed, TypeOK, Exists

\* A request that waits, or is answered.
LEMMA AwaitType ==
  ASSUME TypeOK, NEW r \in Requests, NEW what \in Request, Await(r, what)
  PROVE  /\ reqs' \in [Requests -> Request]
         /\ reqs'[r] = what
         /\ \A q \in Requests \ {r} : reqs'[q] = reqs[q]
BY DEF Await, TypeOK

LEMMA AnswerType ==
  ASSUME TypeOK, NEW r \in Requests, Answer(r)
  PROVE  /\ reqs' \in [Requests -> Request]
         /\ reqs'[r] = Idle
         /\ \A q \in Requests \ {r} : reqs'[q] = reqs[q]
<1>1. Idle \in Request
  BY DEF Request
<1> QED BY <1>1, AwaitType DEF Answer

LEMMA TypedStep ==
  ASSUME Typed, [Next]_vars
  PROVE  Typed'
<1> USE DEF Typed
<1>0. /\ account # NoAccount => account \in Account
      /\ \A r \in Requests : reqs[r] \in Request
  BY DEF TypeOK
<1>1. ASSUME NEW r \in Requests, reqs[r].pc \notin {"idle", "register"}
      PROVE  account # NoAccount /\ account \in Account
  BY <1>0, <1>1 DEF Exists
<1>2. ASSUME NEW r \in Requests, NEW p \in Passwords, RegisterStart(r, p) PROVE Typed'
  <2>1. [pc |-> "register", new |-> p] \in Request
    BY <1>2 DEF RegisterStart, Acceptable, Request
  <2> QED BY <1>2, <2>1, AwaitType DEF RegisterStart, TypeOK, Exists
<1>3. ASSUME NEW r \in Requests, RegisterInsert(r) PROVE Typed'
  <2>1. reqs[r].new \in Passwords \ Weak
    BY <1>0, <1>3, RequestFields DEF RegisterInsert
  <2>2. Fresh(reqs[r].new) \in Account
    BY <2>1, AuthAssumption DEF Fresh, Account, Until
  <2>3. \/ account' = account /\ created' = created
        \/ account' \in Account /\ created' \in Seq(Passwords)
    <3>1. Append(created, reqs[r].new) \in Seq(Passwords)
      BY <2>1 DEF TypeOK
    <3> QED BY <1>3, <2>2, <3>1 DEF RegisterInsert, Insert
  <2>4. reqs' \in [Requests -> Request] /\ reqs'[r] = Idle /\ \A q \in Requests \ {r} : reqs'[q] = reqs[q]
    BY <1>3, AnswerType DEF RegisterInsert
  <2> QED BY <1>3, <2>3, <2>4, NoAccountType DEF RegisterInsert, TypeOK, Exists, Idle
<1>4. ASSUME NEW r \in Requests, NEW p \in Passwords, LoginStart(r, p) PROVE Typed'
  <2>1. account \in Account /\ account' \in Account
    BY <1>0, <1>4, AccountRows DEF LoginStart
  <2>2. [pc |-> "login", guess |-> p, seen |-> account.pw] \in Request
    BY <2>1 DEF Account, Request
  <2>3. reqs' \in [Requests -> Request]
    BY <1>4, <2>2, AwaitType DEF LoginStart
  <2> QED BY <1>4, <2>1, <2>3, NoAccountType DEF LoginStart, TypeOK, Exists
<1>5. ASSUME NEW r \in Requests, LoginFails(r) PROVE Typed'
  <2> DEFINE counted == [account EXCEPT !.failed = @ + 1]
             count   == counted.failed
             found   == Anomalous(counted, "failed_auth_burst", count, Len(logs))
  <2>1. account \in Account /\ account.failed \in 0 .. MaxFailures /\ account.failed < MaxFailures
    BY <1>1, <1>5 DEF LoginFails, Account
  <2>2. counted \in Account /\ count = account.failed + 1 /\ count \in 1 .. MaxFailures
    <3>1. counted \in Account
      BY <2>1, AccountRows
    <3>2. count = account.failed + 1
      BY <2>1 DEF Account
    <3> QED BY <2>1, <3>1, <3>2, AuthAssumption
  <2>3. Len(logs) \in Nat /\ logs \in Seq(Log)
    BY DEF TypeOK
  <2>4. found.row \in Account /\ found.log \in Log
    BY <2>2, <2>3, AnomalousType
  <2>5. CASE count < BurstLimit
    <3>1. account' = counted /\ Answer(r) /\ UNCHANGED <<logs, created, tokens, changes, crashed, uncounted>>
      BY <1>5, <2>5 DEF LoginFails
    <3>2. reqs' \in [Requests -> Request]
      BY <3>1, AnswerType
    <3> QED BY <2>2, <3>1, <3>2, NoAccountType DEF TypeOK, Exists
  <2>6. CASE ~(count < BurstLimit)
    <3>1. /\ Len(logs) < MaxLogs /\ account' = found.row /\ logs' = Append(logs, found.log)
          /\ Await(r, [pc |-> "alert", count |-> count, log |-> Len(logs) + 1])
          /\ UNCHANGED <<created, tokens, changes, crashed, uncounted>>
      BY <1>5, <2>6 DEF LoginFails
    <3>2. Len(logs) + 1 \in 1 .. MaxLogs
      BY <2>3, <3>1, AuthAssumption
    <3>3. [pc |-> "alert", count |-> count, log |-> Len(logs) + 1] \in Request
      BY <2>2, <3>2 DEF Request
    <3>4. reqs' \in [Requests -> Request]
      BY <3>1, <3>3, AwaitType
    <3> HIDE DEF found
    <3>5. logs' \in Seq(Log)
      BY <2>3, <2>4, <3>1
    <3> QED BY <2>4, <3>1, <3>4, <3>5, NoAccountType DEF TypeOK, Exists
  <2> QED BY <2>5, <2>6
<1>6. ASSUME NEW r \in Requests, AlertsSent(r) PROVE Typed'
  <2>1. account \in Account /\ reqs[r].count \in Nat
    BY <1>0, <1>1, <1>6, RequestFields DEF AlertsSent
  <2>2. account' \in Account
    BY <1>6, <2>1, AccountRows DEF AlertsSent
  <2>3. logs' \in Seq(Log)
    <3>2. \A log \in Log : [log EXCEPT !.alerted = TRUE] \in Log
      BY DEF Log
    <3>3. logs \in [1 .. Len(logs) -> Log] /\ Len(logs) \in Nat
      BY DEF TypeOK
    <3>4. Marked(reqs[r].log) \in [1 .. Len(logs) -> Log]
      BY <3>2, <3>3 DEF Marked
    <3>5. Marked(reqs[r].log) \in Seq(Log)
      BY <3>3, <3>4
    <3> QED BY <1>6, <3>5 DEF AlertsSent
  <2>4. reqs' \in [Requests -> Request]
    BY <1>6, AnswerType DEF AlertsSent
  <2> QED BY <1>6, <2>2, <2>3, <2>4, NoAccountType DEF AlertsSent, TypeOK, Exists
<1>7. ASSUME NEW r \in Requests, LoginSucceeds(r) PROVE Typed'
  <2>1. account \in Account /\ reqs[r].seen \in Passwords
    BY <1>0, <1>1, <1>7, RequestFields DEF LoginSucceeds
  <2>2. account' \in Account
    BY <1>7, <2>1, AccountRows DEF LoginSucceeds
  <2>3. Len(tokens) + 1 \in 1 .. MaxTokens /\ tokens \in Seq(Token)
    BY <1>7, AuthAssumption DEF LoginSucceeds, TypeOK
  <2>4. tokens' \in Seq(Token)
    BY <1>7, <2>1, <2>3, TokenLists DEF LoginSucceeds
  <2>5. reqs' \in [Requests -> Request]
    BY <1>7, AnswerType DEF LoginSucceeds
  <2> QED BY <1>7, <2>2, <2>4, <2>5, NoAccountType DEF LoginSucceeds, TypeOK, Exists
<1>8. ASSUME NEW r \in Requests, NEW p \in Passwords, NEW q \in Passwords, ChangeStart(r, p, q)
      PROVE  Typed'
  <2>1. account \in Account /\ account # NoAccount
    BY <1>0, <1>8 DEF ChangeStart, LoggedIn, Exists
  <2>2. [pc |-> "change", guess |-> p, seen |-> account.pw, new |-> q] \in Request
    BY <1>8, <2>1 DEF ChangeStart, Acceptable, Account, Request
  <2>3. reqs' \in [Requests -> Request]
    BY <1>8, <2>2, AwaitType DEF ChangeStart
  <2> QED BY <1>8, <2>1, <2>3 DEF ChangeStart, TypeOK, Exists
<1>9. ASSUME NEW r \in Requests, ChangeFails(r) PROVE Typed'
  <2>1. account \in Account
    BY <1>1, <1>9 DEF ChangeFails
  <2>2. account' \in Account /\ uncounted' \in BOOLEAN
    BY <1>9, <2>1, AccountRows DEF ChangeFails, TypeOK
  <2>3. reqs' \in [Requests -> Request]
    BY <1>9, AnswerType DEF ChangeFails
  <2> QED BY <1>9, <2>2, <2>3, NoAccountType DEF ChangeFails, TypeOK, Exists
<1>10. ASSUME NEW r \in Requests, ChangeSame(r) PROVE Typed'
  <2>1. account # NoAccount
    BY <1>1, <1>10 DEF ChangeSame
  <2> QED BY <1>10, <2>1, AnswerType DEF ChangeSame, TypeOK, Exists
<1>11. ASSUME NEW r \in Requests, ChangeCommits(r) PROVE Typed'
  <2>1. account \in Account /\ reqs[r].seen \in Passwords /\ reqs[r].new \in Passwords \ Weak
    BY <1>0, <1>1, <1>11, RequestFields DEF ChangeCommits
  <2>2. account' \in Account
    BY <1>11, <2>1, AccountRows DEF ChangeCommits
  <2>3. tokens' \in Seq(Token)
    BY <1>11, TokenLists DEF ChangeCommits, SessionsAfterChange, TypeOK
  <2>4. changes' \in Seq([from : Passwords, to : Passwords])
    BY <1>11, <2>1 DEF ChangeCommits, TypeOK
  <2>5. reqs' \in [Requests -> Request]
    BY <1>11, AnswerType DEF ChangeCommits
  <2> QED BY <1>11, <2>2, <2>3, <2>4, <2>5, NoAccountType DEF ChangeCommits, TypeOK, Exists
<1>12. ASSUME NEW t \in DOMAIN tokens, Refresh(t) \/ TokenExpires(t) PROVE Typed'
  <2>1. tokens \in Seq(Token) /\ tokens[t] \in Token /\ tokens # <<>>
    BY <1>12 DEF TypeOK
  <2>2. tokens[t].login \in 1 .. MaxTokens /\ tokens[t].pw \in Passwords /\ tokens[t].raced \in BOOLEAN
    BY <2>1 DEF Token
  <2>3. Revoked(tokens, {t}) \in Seq(Token) /\ Rotated(t) \in Seq(Token)
    BY <2>1, <2>2, TokenLists DEF Rotated
  <2>4. [tokens EXCEPT ![t].expired = TRUE] \in Seq(Token)
    <3>1. [tokens[t] EXCEPT !.expired = TRUE] \in Token
      BY <2>1 DEF Token
    <3> QED BY <2>1, <3>1
  <2>5. tokens' \in Seq(Token)
    BY <1>12, <2>3, <2>4 DEF Refresh, TokenExpires
  <2> QED BY <1>12, <2>1, <2>5 DEF Refresh, TokenExpires, TypeOK, Exists
<1>13. CASE Logout
  <2>1. tokens' \in Seq(Token) /\ account # NoAccount
    BY <1>13, TokenLists DEF Logout, LoggedIn, TypeOK, Exists
  <2> QED BY <1>13, <2>1 DEF Logout, TypeOK, Exists
<1>14. CASE LockExpires
  <2>1. account' \in Account
    BY <1>0, <1>14, AccountRows DEF LockExpires
  <2> QED BY <1>14, <2>1, NoAccountType DEF LockExpires, TypeOK, Exists
<1>15. CASE Crash
  BY <1>15 DEF Crash, TypeOK, Exists, Request, Idle
<1>16. CASE UNCHANGED vars
  BY <1>16 DEF vars, TypeOK, Exists
<1> QED BY <1>2, <1>3, <1>4, <1>5, <1>6, <1>7, <1>8, <1>9, <1>10, <1>11, <1>12, <1>13, <1>14,
           <1>15, <1>16 DEF Next

\* The account, the tokens, the logs and the requests under way keep their types.
THEOREM AuthTypeCorrect == Spec => []Typed
BY TypedInit, TypedStep, PTL DEF Spec

-----------------------------------------------------------------------------
(* Registration and passwords. *)

\* Only a registration's INSERT and the commit of change-password write a password.
LEMMA PasswordSteps ==
  ASSUME Typed, [Next]_vars
  PROVE  \/ /\ UNCHANGED <<created, changes>>
            /\ account = NoAccount => account' = NoAccount
            /\ account # NoAccount => account' # NoAccount /\ account'.pw = account.pw
         \/ \E p \in Passwords : /\ account = NoAccount /\ account' = Fresh(p)
                                 /\ created' = Append(created, p)
                                 /\ UNCHANGED <<changes, tokens>>
         \/ /\ account # NoAccount /\ account' # NoAccount
            /\ changes' # <<>> /\ tokens' = Revoked(tokens, DOMAIN tokens)
            /\ UNCHANGED created
<1> USE DEF Typed
<1> DEFINE Kept == /\ UNCHANGED <<created, changes>>
                   /\ account = NoAccount => account' = NoAccount
                   /\ account # NoAccount => account' # NoAccount /\ account'.pw = account.pw
<1>0. /\ account # NoAccount => account \in Account
      /\ account' # NoAccount => account' \in Account
      /\ \A r \in Requests : reqs[r] \in Request
  BY TypedStep DEF TypeOK
<1>1. ASSUME NEW r \in Requests, reqs[r].pc \notin {"idle", "register"}
      PROVE  account # NoAccount /\ account \in Account
  BY <1>0, <1>1 DEF Exists
<1>2. ASSUME NEW r \in Requests, RegisterInsert(r) PROVE Kept \/ \E p \in Passwords :
        account = NoAccount /\ account' = Fresh(p) /\ created' = Append(created, p)
          /\ UNCHANGED <<changes, tokens>>
  BY <1>0, <1>2, RequestFields DEF RegisterInsert, Insert
<1>3. ASSUME NEW r \in Requests, NEW p \in Passwords, LoginStart(r, p) PROVE Kept
  <2>1. account \in Account /\ account # NoAccount
    BY <1>0, <1>3 DEF LoginStart
  <2>2. Reset(account) \in Account /\ Reset(account).pw = account.pw
    BY <2>1, AccountRows DEF Reset, Account
  <2> QED BY <1>3, <2>1, <2>2, NoAccountType DEF LoginStart
<1>4. ASSUME NEW r \in Requests, LoginFails(r) PROVE Kept
  <2> DEFINE counted == [account EXCEPT !.failed = @ + 1]
             found   == Anomalous(counted, "failed_auth_burst", counted.failed, Len(logs))
  <2>1. account \in Account /\ account # NoAccount /\ account.failed < MaxFailures
    BY <1>1, <1>4 DEF LoginFails
  <2>2. counted \in Account /\ counted.pw = account.pw /\ counted.failed \in Nat
    <3>1. counted \in Account
      BY <2>1, AccountRows
    <3> QED BY <2>1, <3>1 DEF Account
  <2>3. found.row \in Account /\ found.row.pw = account.pw
    <3>1. Len(logs) \in Nat
      BY DEF TypeOK
    <3> HIDE DEF counted
    <3> QED BY <2>2, <3>1, AnomalousType
  <2>4. account' = counted \/ account' = found.row
    BY <1>4 DEF LoginFails
  <2> HIDE DEF counted, found
  <2> QED BY <1>4, <2>1, <2>2, <2>3, <2>4, NoAccountType DEF LoginFails
<1>5. ASSUME NEW r \in Requests, AlertsSent(r) PROVE Kept
  <2>1. account \in Account /\ account # NoAccount /\ reqs[r].count \in Nat
    BY <1>0, <1>1, <1>5, RequestFields DEF AlertsSent
  <2> QED BY <1>5, <2>1, AccountRows, NoAccountType DEF AlertsSent
<1>6. ASSUME NEW r \in Requests, LoginSucceeds(r) PROVE Kept
  <2>1. account \in Account /\ account # NoAccount
    BY <1>1, <1>6 DEF LoginSucceeds
  <2>2. Reset(account) \in Account /\ Reset(account).pw = account.pw
    BY <2>1, AccountRows DEF Reset, Account
  <2> QED BY <1>6, <2>1, <2>2, NoAccountType DEF LoginSucceeds
<1>7. ASSUME NEW r \in Requests, ChangeFails(r) PROVE Kept
  <2>1. account \in Account /\ account # NoAccount
    BY <1>1, <1>7 DEF ChangeFails
  <2>2. account' \in Account /\ account'.pw = account.pw
    BY <1>7, <2>1, AccountRows DEF ChangeFails, Account
  <2> QED BY <1>7, <2>1, <2>2, NoAccountType DEF ChangeFails
<1>8. ASSUME NEW r \in Requests, ChangeCommits(r)
      PROVE  /\ account # NoAccount /\ account' # NoAccount
             /\ changes' # <<>> /\ tokens' = Revoked(tokens, DOMAIN tokens)
             /\ UNCHANGED created
  <2>1. account \in Account /\ account # NoAccount /\ reqs[r].new \in Passwords \ Weak
    BY <1>0, <1>1, <1>8, RequestFields DEF ChangeCommits
  <2>2. account' # NoAccount
    BY <1>8, <2>1, AccountRows, NoAccountType DEF ChangeCommits
  <2>3. changes' # <<>>
    BY <1>8 DEF ChangeCommits, TypeOK
  <2> QED BY <1>8, <2>1, <2>2, <2>3 DEF ChangeCommits, SessionsAfterChange
<1>9. CASE LockExpires
  BY <1>0, <1>9, AccountRows, NoAccountType DEF LockExpires, Account
<1>10. CASE \/ \E r \in Requests : \/ ChangeSame(r)
                                   \/ \E p \in Passwords : RegisterStart(r, p)
                                   \/ \E p, q \in Passwords : ChangeStart(r, p, q)
            \/ \E t \in DOMAIN tokens : Refresh(t) \/ TokenExpires(t)
            \/ Logout \/ Crash \/ UNCHANGED vars
  BY <1>10 DEF ChangeSame, RegisterStart, ChangeStart, Refresh, TokenExpires, Logout, Crash, vars
<1> QED BY <1>2, <1>3, <1>4, <1>5, <1>6, <1>7, <1>8, <1>9, <1>10 DEF Next

\* However many registrations hash at once, one account comes out of them, with the password
\* of the request that was told so.
THEOREM OneRegistration == Spec => []RegisteredOnce
<1> DEFINE Once == account # NoAccount =>
                     Len(created) = 1 /\ (changes = <<>> => created = <<account.pw>>)
<1>1. Init => Once
  BY DEF Init
<1>2. Typed /\ Once /\ [Next]_vars => Once'
  <2> SUFFICES ASSUME Typed, Once, [Next]_vars, account' # NoAccount
               PROVE  Len(created') = 1 /\ (changes' = <<>> => created' = <<account'.pw>>)
    OBVIOUS
  <2>1. CASE \E p \in Passwords : /\ account = NoAccount /\ account' = Fresh(p)
                                  /\ created' = Append(created, p)
    <3>1. PICK p \in Passwords : account' = Fresh(p) /\ created' = Append(created, p)
      BY <2>1
    <3>2. created = <<>>
      BY <2>1 DEF Typed, Exists
    <3>3. created' = <<p>> /\ account'.pw = p
      BY <3>1, <3>2 DEF Fresh
    <3> QED BY <3>3
  <2>2. CASE UNCHANGED created /\ account # NoAccount /\ (changes' # <<>> \/ (UNCHANGED changes /\ account'.pw = account.pw))
    BY <2>2
  <2> QED BY <2>1, <2>2, PasswordSteps
<1>3. Typed /\ Once => RegisteredOnce
  <2> SUFFICES ASSUME Typed, Once PROVE RegisteredOnce
    OBVIOUS
  <2>1. CASE account = NoAccount
    <3>1. created = <<>>
      BY <2>1 DEF Typed, Exists
    <3>2. Len(created) <= 1
      BY <3>1
    <3> QED BY <2>1, <3>2 DEF RegisteredOnce
  <2>2. CASE account # NoAccount
    <3>1. Len(created) <= 1
      <4>1. Len(created) = 1
        BY <2>2
      <4> HIDE DEF Once
      <4> QED BY <4>1
    <3>2. changes = <<>> => created = <<account.pw>>
      BY <2>2
    <3> QED BY <2>2, <3>1, <3>2 DEF RegisteredOnce
  <2> QED BY <2>1, <2>2
<1> QED BY <1>1, <1>2, <1>3, AuthTypeCorrect, PTL DEF Spec

-----------------------------------------------------------------------------
(* Sessions. *)

\* Every login is numbered by the place of its first token.
LoginsKnown == \A t \in DOMAIN tokens : tokens[t].login <= Len(tokens)

Sessions == LoginsKnown /\ OneLiveTokenPerLogin /\ SessionsFollowPassword

\* A list of the same tokens of which fewer, perhaps, are alive.
Shrunk(list) ==
  /\ list \in Seq(Token) /\ Len(list) = Len(tokens)
  /\ \A i \in 1 .. Len(tokens) :
       /\ list[i].login = tokens[i].login /\ list[i].pw = tokens[i].pw
       /\ list[i].raced = tokens[i].raced
       /\ ~list[i].revoked => Live(i)

LEMMA RevokedShrinks ==
  ASSUME tokens \in Seq(Token), NEW which
  PROVE  /\ Shrunk(Revoked(tokens, which))
         /\ \A i \in 1 .. Len(tokens) : i \in which => Revoked(tokens, which)[i].revoked
<1>1. \A i \in 1 .. Len(tokens) : i \in DOMAIN tokens /\ tokens[i] \in Token
  OBVIOUS
<1>2. \A token \in Token :
        LET ended == [token EXCEPT !.revoked = TRUE]
        IN ended.login = token.login /\ ended.pw = token.pw /\ ended.raced = token.raced /\ ended.revoked
  BY DEF Token
<1>3. \A i \in 1 .. Len(tokens) :
        Revoked(tokens, which)[i] =
          IF i \in which THEN [tokens[i] EXCEPT !.revoked = TRUE] ELSE tokens[i]
  BY <1>1 DEF Revoked
<1>4. Revoked(tokens, which) \in Seq(Token) /\ Len(Revoked(tokens, which)) = Len(tokens)
  BY TokenLists
<1> HIDE DEF Revoked
<1> QED BY <1>1, <1>2, <1>3, <1>4 DEF Shrunk, Live

LEMMA ExpiredShrinks ==
  ASSUME tokens \in Seq(Token), NEW t \in DOMAIN tokens
  PROVE  Shrunk([tokens EXCEPT ![t].expired = TRUE])
<1>1. tokens \in [1 .. Len(tokens) -> Token] /\ Len(tokens) \in Nat
  OBVIOUS
<1>2. \A token \in Token : [token EXCEPT !.expired = TRUE] \in Token
  BY DEF Token
<1>3. [tokens EXCEPT ![t].expired = TRUE] \in Seq(Token)
      /\ Len([tokens EXCEPT ![t].expired = TRUE]) = Len(tokens)
  BY <1>1, <1>2
<1>4. ASSUME NEW i \in 1 .. Len(tokens)
      PROVE  LET token == [tokens EXCEPT ![t].expired = TRUE][i]
             IN /\ token.login = tokens[i].login /\ token.pw = tokens[i].pw
                /\ token.raced = tokens[i].raced /\ token.revoked = tokens[i].revoked
  BY <1>1 DEF Token
<1> QED BY <1>3, <1>4 DEF Shrunk, Live

\* What a step may do to the tokens: nothing, revoke some or let one expire, rotate a live
\* one, or issue the first of a login.
LEMMA TokenSteps ==
  ASSUME Typed, [Next]_vars
  PROVE  \/ UNCHANGED tokens
         \/ \E which : tokens' = Revoked(tokens, which)
         \/ \E t \in DOMAIN tokens : tokens' = [tokens EXCEPT ![t].expired = TRUE]
         \/ \E t \in DOMAIN tokens : Live(t) /\ tokens' = Rotated(t)
         \/ \E seen \in Passwords :
              tokens' = Issue(tokens, Len(tokens) + 1, seen, seen # account.pw)
<1>1. ASSUME NEW r \in Requests, LoginSucceeds(r) PROVE reqs[r].seen \in Passwords
  BY <1>1, RequestFields DEF Typed, TypeOK, LoginSucceeds
<1>2. ASSUME NEW r \in Requests, LoginSucceeds(r)
      PROVE  \E seen \in Passwords :
               tokens' = Issue(tokens, Len(tokens) + 1, seen, seen # account.pw)
  BY <1>1, <1>2 DEF LoginSucceeds
<1>3. ASSUME NEW t \in DOMAIN tokens, Refresh(t)
      PROVE  \/ \E which : tokens' = Revoked(tokens, which)
             \/ Live(t) /\ tokens' = Rotated(t)
  BY <1>3 DEF Refresh
<1>4. ASSUME NEW t \in DOMAIN tokens, TokenExpires(t)
      PROVE  tokens' = [tokens EXCEPT ![t].expired = TRUE]
  BY <1>4 DEF TokenExpires
<1>5. ASSUME Logout \/ \E r \in Requests : ChangeCommits(r)
      PROVE  \E which : tokens' = Revoked(tokens, which)
  BY <1>5 DEF Logout, ChangeCommits, SessionsAfterChange
<1>6. CASE \/ \E r \in Requests : \/ RegisterInsert(r) \/ LoginFails(r) \/ AlertsSent(r)
                                  \/ ChangeFails(r) \/ ChangeSame(r)
                                  \/ \E p \in Passwords : RegisterStart(r, p) \/ LoginStart(r, p)
                                  \/ \E p, q \in Passwords : ChangeStart(r, p, q)
           \/ LockExpires \/ Crash \/ UNCHANGED vars
  BY <1>6 DEF RegisterInsert, LoginFails, AlertsSent, ChangeFails, ChangeSame, RegisterStart,
              LoginStart, ChangeStart, LockExpires, Crash, vars
<1> QED BY <1>2, <1>3, <1>4, <1>5, <1>6 DEF Next

LEMMA SessionsStep ==
  ASSUME Typed, Sessions, [Next]_vars
  PROVE  Sessions'
<1>0. tokens \in Seq(Token) /\ tokens' \in Seq(Token) /\ Len(tokens) \in Nat
  BY TypedStep DEF Typed, TypeOK
<1>1. \A token \in Token : token.login \in Nat /\ token.revoked \in BOOLEAN
  BY DEF Token
\* Unless all tokens are revoked, the password of those there are stays in force.
<1>2. tokens # <<>> => \/ account'.pw = account.pw
                       \/ tokens' = Revoked(tokens, DOMAIN tokens)
  BY PasswordSteps DEF Typed, Exists
<1>3. ASSUME Shrunk(tokens') PROVE Sessions'
  <2>1. LoginsKnown' /\ OneLiveTokenPerLogin'
    BY <1>0, <1>3 DEF Sessions, LoginsKnown, OneLiveTokenPerLogin, Live, Shrunk
  <2>2. SessionsFollowPassword'
    <3> SUFFICES ASSUME NEW t \in 1 .. Len(tokens), Live(t)', ~tokens'[t].raced
                 PROVE  tokens'[t].pw = account'.pw
      BY <1>0, <1>3 DEF SessionsFollowPassword, Shrunk
    <3>1. tokens # <<>> /\ tokens' # Revoked(tokens, DOMAIN tokens)
      BY <1>0, RevokedShrinks DEF Live
    <3> QED BY <1>0, <1>2, <1>3, <3>1 DEF Sessions, SessionsFollowPassword, Live, Shrunk
  <2> QED BY <2>1, <2>2 DEF Sessions
\* A new token behind those: the only live one of its login, attesting what it should.
<1>4. ASSUME NEW list, Shrunk(list), NEW new \in Token, tokens' = Append(list, new),
             \A i \in 1 .. Len(tokens) : list[i].login = new.login => list[i].revoked,
             new.login <= Len(tokens) + 1,
             account'.pw = account.pw, new.raced \/ new.pw = account.pw
      PROVE  Sessions'
  <2>1. /\ Len(tokens') = Len(tokens) + 1
        /\ \A i \in 1 .. Len(tokens) : tokens'[i] = list[i]
        /\ tokens'[Len(tokens) + 1] = new
    BY <1>0, <1>4 DEF Shrunk
  <2>2. \A i \in DOMAIN tokens' : i \in 1 .. Len(tokens) \/ i = Len(tokens) + 1
    BY <1>0, <2>1
  <2>3. LoginsKnown'
    BY <1>0, <1>1, <1>4, <2>1, <2>2 DEF Sessions, LoginsKnown, Shrunk
  <2>4. OneLiveTokenPerLogin'
    BY <1>0, <1>4, <2>1, <2>2 DEF Sessions, OneLiveTokenPerLogin, Live, Shrunk
  <2>5. SessionsFollowPassword'
    BY <1>0, <1>4, <2>1, <2>2 DEF Sessions, SessionsFollowPassword, Live, Shrunk
  <2> QED BY <2>3, <2>4, <2>5 DEF Sessions
<1>5. CASE UNCHANGED tokens
  BY <1>0, <1>3, <1>5 DEF Shrunk, Live
<1>6. CASE \E which : tokens' = Revoked(tokens, which)
  BY <1>0, <1>3, <1>6, RevokedShrinks
<1>7. CASE \E t \in DOMAIN tokens : tokens' = [tokens EXCEPT ![t].expired = TRUE]
  BY <1>0, <1>3, <1>7, ExpiredShrinks
<1>8. ASSUME NEW t \in DOMAIN tokens, Live(t), tokens' = Rotated(t) PROVE Sessions'
  <2> DEFINE list == Revoked(tokens, {t})
             new  == [login |-> tokens[t].login, pw |-> tokens[t].pw, raced |-> tokens[t].raced,
                      revoked |-> FALSE, expired |-> FALSE]
  <2>1. tokens[t] \in Token /\ t \in 1 .. Len(tokens) /\ tokens # <<>>
    BY <1>0
  <2>2. new \in Token
    BY <2>1 DEF Token
  <2>3. Shrunk(list) /\ list[t].revoked
    BY <1>0, <2>1, RevokedShrinks
  <2>4. tokens' = Append(list, new)
    BY <1>8 DEF Rotated, Issue
  <2>5. new.login = tokens[t].login /\ new.pw = tokens[t].pw /\ new.raced = tokens[t].raced
    OBVIOUS
  <2> HIDE DEF list, new
  <2>6. \A i \in 1 .. Len(tokens) : list[i].login = new.login => list[i].revoked
    BY <1>0, <1>8, <2>1, <2>3, <2>5 DEF Sessions, OneLiveTokenPerLogin, Live, Shrunk
  <2>7. new.login <= Len(tokens) + 1
    BY <1>0, <1>1, <2>1, <2>5 DEF Sessions, LoginsKnown
  <2>8. account'.pw = account.pw
    <3>1. Len(tokens') = Len(tokens) + 1
      BY <1>0, <2>3, <2>4 DEF Shrunk
    <3>2. tokens' # Revoked(tokens, DOMAIN tokens)
      BY <1>0, <3>1, RevokedShrinks DEF Shrunk
    <3> QED BY <1>2, <2>1, <3>2
  <2>9. new.raced \/ new.pw = account.pw
    BY <1>8, <2>1, <2>5 DEF Sessions, SessionsFollowPassword
  <2> QED BY <1>4, <2>2, <2>3, <2>4, <2>6, <2>7, <2>8, <2>9
<1>9. ASSUME NEW seen \in Passwords,
             tokens' = Issue(tokens, Len(tokens) + 1, seen, seen # account.pw)
      PROVE  Sessions'
  <2> DEFINE new == [login |-> Len(tokens) + 1, pw |-> seen, raced |-> seen # account.pw,
                     revoked |-> FALSE, expired |-> FALSE]
  <2>1. tokens' = Append(tokens, new) /\ Len(tokens') = Len(tokens) + 1
    BY <1>0, <1>9 DEF Issue
  <2>2. new \in Token
    <3>1. tokens'[Len(tokens) + 1] = new
      BY <1>0, <2>1
    <3> HIDE DEF new
    <3> QED BY <1>0, <2>1, <3>1
  <2>3. Shrunk(tokens)
    BY <1>0 DEF Shrunk, Live
  <2>4. new.login = Len(tokens) + 1 /\ (new.raced \/ new.pw = account.pw)
    OBVIOUS
  <2> HIDE DEF new
  <2>5. \A i \in 1 .. Len(tokens) : tokens[i].login # new.login
    BY <1>0, <1>1, <2>4 DEF Sessions, LoginsKnown
  <2>6. account'.pw = account.pw
    <3>1. tokens' # tokens /\ tokens' # Revoked(tokens, DOMAIN tokens) /\ tokens' # <<>>
      BY <1>0, <2>1, RevokedShrinks DEF Shrunk
    <3>2. account' # NoAccount
      BY <3>1, TypedStep DEF Typed, Exists
    <3> QED BY <3>1, <3>2, PasswordSteps
  <2> QED BY <1>4, <2>1, <2>2, <2>3, <2>4, <2>5, <2>6
<1> QED BY <1>5, <1>6, <1>7, <1>8, <1>9, TokenSteps

LEMMA SessionsAlways == Spec => []Sessions
<1>1. Init => Sessions
  BY DEF Init, Sessions, LoginsKnown, OneLiveTokenPerLogin, SessionsFollowPassword
<1> QED BY <1>1, SessionsStep, AuthTypeCorrect, PTL DEF Spec

\* Of the tokens that go back to one login at most one works.
THEOREM OneTokenPerLogin == Spec => []OneLiveTokenPerLogin
<1>1. Sessions => OneLiveTokenPerLogin
  BY DEF Sessions
<1> QED BY <1>1, SessionsAlways, PTL

\* A token that works attests the password in force, unless the password changed while its
\* login was verified.
THEOREM TokensFollowPassword == Spec => []SessionsFollowPassword
<1>1. Sessions => SessionsFollowPassword
  BY DEF Sessions
<1> QED BY <1>1, SessionsAlways, PTL

-----------------------------------------------------------------------------
(* Locks. *)

\* A lockout is asked for only from the failures on that start a burst, and with the limit
\* the source sets (both are 5) all of these lock.
Limits == MaxFailedAttempts = BurstLimit

AlertsCount == \A r \in Requests : reqs[r].pc = "alert" => reqs[r].count >= BurstLimit

Alerting == \E r \in Requests : reqs[r].pc = "alert"

LEMMA BurstStep ==
  ASSUME Typed, AlertsCount, BurstEndsLocked, Limits, [Next]_vars
  PROVE  AlertsCount' /\ BurstEndsLocked'
<1> USE DEF Limits, BurstLimit
<1>0. /\ account # NoAccount => account \in Account
      /\ \A r \in Requests : reqs[r] \in Request
      /\ TypeOK
  BY DEF Typed, TypeOK
<1>1. ASSUME NEW r \in Requests, reqs[r].pc \notin {"idle", "register"}
      PROVE  account # NoAccount /\ account \in Account
  BY <1>0, <1>1 DEF Typed, Exists
<1>2. ASSUME NEW r \in Requests, reqs[r].pc # "alert",
             \E what : what.pc # "alert" /\ reqs' = [reqs EXCEPT ![r] = what]
      PROVE  AlertsCount' /\ (Alerting => Alerting')
  BY <1>0, <1>2 DEF AlertsCount, Alerting, TypeOK
\* Whatever leaves the row at fewer failures, or locked, or gives a reason why not.
<1>3. ASSUME \/ account' = NoAccount \/ account'.failed < MaxFailedAttempts \/ account'.locked
             \/ Alerting' \/ crashed' \/ uncounted'
      PROVE  BurstEndsLocked'
  <2>1. account' # NoAccount => account'.failed \in Nat
    BY TypedStep, AuthAssumption DEF Typed, TypeOK, Account
  <2> QED BY <1>3, <2>1 DEF BurstEndsLocked, Alerting
<1>4. ASSUME UNCHANGED <<account, uncounted>>, crashed => crashed', Alerting => Alerting'
      PROVE  BurstEndsLocked'
  BY <1>4 DEF BurstEndsLocked, Alerting
<1>5. ASSUME NEW r \in Requests, RegisterInsert(r) PROVE AlertsCount' /\ BurstEndsLocked'
  <2>1. AlertsCount' /\ (Alerting => Alerting')
    BY <1>2, <1>5 DEF RegisterInsert, Answer, Await, Idle
  <2>2. account' = account \/ account'.failed < MaxFailedAttempts
    BY <1>5, AuthAssumption DEF RegisterInsert, Insert, Fresh
  <2> QED BY <1>3, <1>4, <1>5, <2>1, <2>2 DEF RegisterInsert
<1>6. ASSUME NEW r \in Requests, NEW p \in Passwords, LoginStart(r, p)
      PROVE  AlertsCount' /\ BurstEndsLocked'
  <2>1. AlertsCount' /\ (Alerting => Alerting')
    <3>1. reqs[r].pc = "idle"
      BY <1>6 DEF LoginStart, Idle
    <3>2. reqs' = [reqs EXCEPT ![r] = [pc |-> "login", guess |-> p, seen |-> account.pw]]
      BY <1>6 DEF LoginStart, Await
    <3> QED BY <1>2, <3>1, <3>2
  <2>2. CASE account.locked
    <3>1. account'.failed = 0
      BY <1>0, <1>6, <2>2 DEF LoginStart, Reset, Account
    <3> QED BY <1>3, <2>1, <3>1, AuthAssumption
  <2>3. CASE ~account.locked
    <3>1. UNCHANGED <<account, crashed>> /\ (uncounted => uncounted')
      BY <1>6, <2>3 DEF LoginStart
    <3> QED BY <2>1, <3>1 DEF BurstEndsLocked, Alerting
  <2> QED BY <2>2, <2>3
<1>7. ASSUME NEW r \in Requests, LoginFails(r) PROVE AlertsCount' /\ BurstEndsLocked'
  <2> DEFINE counted == [account EXCEPT !.failed = @ + 1]
             count   == counted.failed
  <2>1. account \in Account /\ account.failed \in Nat /\ count = account.failed + 1
    BY <1>1, <1>7, AuthAssumption DEF LoginFails, Account
  <2>2. CASE count < BurstLimit
    <3>1. account' = counted /\ Answer(r)
      BY <1>7, <2>2 DEF LoginFails
    <3>2. AlertsCount'
      BY <1>2, <1>7, <3>1 DEF LoginFails, Answer, Await, Idle
    <3>3. account'.failed < MaxFailedAttempts
      BY <2>2, <3>1
    <3> QED BY <1>3, <3>2, <3>3
  <2>3. CASE ~(count < BurstLimit)
    <3>1. Await(r, [pc |-> "alert", count |-> count, log |-> Len(logs) + 1])
      BY <1>7, <2>3 DEF LoginFails
    <3>2. count >= BurstLimit
      BY <2>1, <2>3
    <3> HIDE DEF count
    <3>3. AlertsCount' /\ Alerting'
      BY <1>0, <3>1, <3>2 DEF Await, AlertsCount, Alerting, TypeOK
    <3> QED BY <1>3, <3>3
  <2> QED BY <2>2, <2>3
<1>8. ASSUME NEW r \in Requests, AlertsSent(r) PROVE AlertsCount' /\ BurstEndsLocked'
  <2>1. account \in Account /\ reqs[r].count >= BurstLimit
    BY <1>1, <1>8 DEF AlertsSent, AlertsCount
  <2>2. reqs[r].count \in Nat
    BY <1>0, <1>8, RequestFields DEF AlertsSent
  <2>3. account'.locked
    BY <1>8, <2>1, <2>2 DEF AlertsSent, Locked, Account
  <2>4. AlertsCount'
    BY <1>0, <1>8 DEF AlertsSent, Answer, Await, Idle, AlertsCount, TypeOK
  <2> QED BY <1>3, <2>3, <2>4
<1>9. ASSUME NEW r \in Requests, LoginSucceeds(r) PROVE AlertsCount' /\ BurstEndsLocked'
  <2>1. AlertsCount'
    BY <1>2, <1>9 DEF LoginSucceeds, Answer, Await, Idle
  <2>2. account'.failed = 0
    BY <1>1, <1>9 DEF LoginSucceeds, Reset, Account
  <2> QED BY <1>3, <2>1, <2>2, AuthAssumption
<1>10. ASSUME NEW r \in Requests, ChangeFails(r) PROVE AlertsCount' /\ BurstEndsLocked'
  <2>1. AlertsCount'
    BY <1>2, <1>10 DEF ChangeFails, Answer, Await, Idle
  <2>2. account'.failed \in Nat
    BY <1>1, <1>10, AuthAssumption DEF ChangeFails, Account
  <2>3. account'.failed < MaxFailedAttempts \/ uncounted'
    <3> DEFINE limit == account'.failed >= MaxFailedAttempts
    <3>1. uncounted' = (uncounted \/ limit)
      BY <1>10 DEF ChangeFails
    <3>2. ~limit => account'.failed < MaxFailedAttempts
      BY <2>2, AuthAssumption
    <3> HIDE DEF limit
    <3>3. limit => uncounted'
      BY <3>1, Zenon
    <3> QED BY <3>2, <3>3
  <2> QED BY <1>3, <2>1, <2>3
<1>11. ASSUME NEW r \in Requests, ChangeCommits(r) PROVE AlertsCount' /\ BurstEndsLocked'
  <2>1. AlertsCount'
    BY <1>2, <1>11 DEF ChangeCommits, Answer, Await, Idle
  <2>2. account'.failed = 0
    BY <1>1, <1>11 DEF ChangeCommits, Account
  <2> QED BY <1>3, <2>1, <2>2, AuthAssumption
<1>12. ASSUME NEW r \in Requests,
              \/ ChangeSame(r)
              \/ \E p \in Passwords : RegisterStart(r, p)
              \/ \E p, q \in Passwords : ChangeStart(r, p, q)
       PROVE  AlertsCount' /\ BurstEndsLocked'
  <2>1. AlertsCount' /\ (Alerting => Alerting')
    BY <1>2, <1>12 DEF ChangeSame, RegisterStart, ChangeStart, Answer, Await, Idle
  <2> QED BY <1>4, <1>12, <2>1 DEF ChangeSame, RegisterStart, ChangeStart
<1>13. CASE \/ \E t \in DOMAIN tokens : Refresh(t) \/ TokenExpires(t)
            \/ Logout \/ UNCHANGED vars
  <2>1. UNCHANGED <<account, uncounted, crashed, reqs>>
    BY <1>13 DEF Refresh, TokenExpires, Logout, vars
  <2> QED BY <1>4, <2>1 DEF AlertsCount, Alerting
<1>14. CASE LockExpires
  <2>1. account'.locked /\ UNCHANGED reqs
    BY <1>0, <1>14 DEF LockExpires, LockRuns, Account
  <2> QED BY <1>3, <2>1 DEF AlertsCount
<1>15. CASE Crash
  BY <1>3, <1>15 DEF Crash, AlertsCount, Idle
<1> QED BY <1>5, <1>6, <1>7, <1>8, <1>9, <1>10, <1>11, <1>12, <1>13, <1>14, <1>15 DEF Next

\* An account that has failed as often as the source allows ends locked, but for the
\* exceptions the property names.
THEOREM BurstsLock == ASSUME Limits PROVE Spec => []BurstEndsLocked
<1>1. Init => AlertsCount /\ BurstEndsLocked
  BY DEF Init, AlertsCount, BurstEndsLocked, Idle
<1>2. Typed /\ AlertsCount /\ BurstEndsLocked /\ [Next]_vars => AlertsCount' /\ BurstEndsLocked'
  BY BurstStep
<1> QED BY <1>1, <1>2, AuthTypeCorrect, PTL DEF Spec

\* A running lock ends early only at the hands of a login that was let in before it.
THEOREM LocksOutlive == Spec => LockOutlivesNewRequests
<1>1. Typed /\ [Next]_vars =>
        (account # NoAccount /\ account.locked /\ account.until \in {"soft", "hard"} /\ ~account'.locked
           => \E q \in Requests : reqs[q].pc = "login" /\ reqs'[q] # reqs[q])
  <2> SUFFICES ASSUME Typed, [Next]_vars, account # NoAccount, account.locked,
                      account.until \in {"soft", "hard"}, ~account'.locked
               PROVE  \E q \in Requests : reqs[q].pc = "login" /\ reqs'[q] # reqs[q]
    OBVIOUS
  <2>0. account \in Account /\ reqs \in [Requests -> Request] /\ LockRuns
    BY DEF Typed, TypeOK, LockRuns
  <2>1. ASSUME NEW r \in Requests, LoginFails(r) \/ LoginSucceeds(r)
        PROVE  reqs[r].pc = "login" /\ reqs'[r] # reqs[r]
    BY <2>0, <2>1 DEF LoginFails, LoginSucceeds, Answer, Await, Idle
  <2>2. ASSUME NEW r \in Requests, AlertsSent(r) PROVE FALSE
    BY <2>0, <2>2 DEF AlertsSent, Locked, Account
  <2>3. ASSUME NEW r \in Requests, ChangeFails(r) \/ ChangeCommits(r) PROVE FALSE
    BY <2>0, <2>3 DEF ChangeFails, ChangeCommits, Account
  <2>4. ~LockExpires
    BY <2>0 DEF LockExpires, Account
  <2>5. ASSUME NEW r \in Requests, NEW p \in Passwords, LoginStart(r, p) PROVE FALSE
    BY <2>0, <2>5 DEF LoginStart
  <2>6. account' # account
    OBVIOUS
  <2>7. ASSUME NEW r \in Requests,
               \/ RegisterInsert(r) \/ ChangeSame(r)
               \/ \E p \in Passwords : RegisterStart(r, p)
               \/ \E p, q \in Passwords : ChangeStart(r, p, q)
        PROVE  FALSE
    BY <2>6, <2>7 DEF RegisterInsert, Insert, ChangeSame, RegisterStart, ChangeStart
  <2>8. CASE \/ \E t \in DOMAIN tokens : Refresh(t) \/ TokenExpires(t)
             \/ Logout \/ Crash \/ UNCHANGED vars
    BY <2>6, <2>8 DEF Refresh, TokenExpires, Logout, Crash, vars
  <2> QED BY <2>1, <2>2, <2>3, <2>4, <2>5, <2>7, <2>8 DEF Next
<1> QED BY <1>1, AuthTypeCorrect, PTL DEF Spec, LockOutlivesNewRequests

-----------------------------------------------------------------------------
(* Users: the self-test. *)

\* The permission self-test reports a failure for every Executive and every Partner: it asks
\* them for the permissions of an Auditor (runPermissionTests).
THEOREM SelfTestPassesAuditorsOnly == \A r \in Roles : RoleTestsPass(r) <=> r = "Auditor"
BY DEF Roles, RoleTestsPass, Permissions, Test

-----------------------------------------------------------------------------
(* Users: types and the trail. *)

LEMMA ProfileRows ==
  ASSUME NEW tier \in Tiers, NEW country \in CountriesUsed \cup {Nothing},
         NEW currency \in CurrenciesUsed \cup {Nothing}, NEW agent \in Nat, NEW hasKey \in BOOLEAN
  PROVE  /\ [tier |-> tier, country |-> country, currency |-> currency, agent |-> agent,
             hasKey |-> hasKey] \in Profile
         /\ \A row \in Profile :
              /\ [row EXCEPT !.tier = tier] \in Profile
              /\ [row EXCEPT !.tier = tier, !.country = country, !.currency = currency] \in Profile
              /\ [row EXCEPT !.agent = agent, !.country = country, !.currency = currency] \in Profile
              /\ [row EXCEPT !.hasKey = TRUE] \in Profile
BY DEF Profile

LEMMA NoProfileType == NoProfile \notin Profile
<1>1. NoProfile.tier = "none" /\ "none" \notin Tiers
  BY DEF NoProfile, Nothing, Tiers
<1> QED BY <1>1 DEF Profile

LEMMA ProfileFields ==
  ASSUME UsersTypeOK, NEW u \in Accounts
  PROVE  /\ HasProfile(u) => profiles[u] \in Profile
         /\ profiles[u] \in Profile => HasProfile(u)
         /\ AgentOf(u) \in Nat
BY NoProfileType DEF UsersTypeOK, HasProfile, AgentOf, NoAgent, Profile

\* A row is added to the trail behind those there are.
LEMMA LoggedRow ==
  ASSUME UsersTypeOK, NEW action \in Actions, NEW target \in Accounts, NEW actor \in Accounts,
         NEW old \in AuditValues, NEW new \in AuditValues, Logged(action, target, actor, old, new)
  PROVE  /\ audit' \in Seq(AuditRow) /\ Len(audit') = Len(audit) + 1 /\ Len(audit) \in Nat
         /\ \A i \in 1 .. Len(audit) : audit'[i] = audit[i]
         /\ audit'[Len(audit) + 1] =
              [action |-> action, target |-> target, actor |-> actor, old |-> old, new |-> new]
<1> DEFINE row == [action |-> action, target |-> target, actor |-> actor, old |-> old, new |-> new]
<1>1. row \in AuditRow
  BY DEF AuditRow
<1>2. audit' = Append(audit, row) /\ audit \in Seq(AuditRow)
  BY DEF Logged, UsersTypeOK
<1> HIDE DEF row
<1>3. /\ audit' \in Seq(AuditRow) /\ Len(audit') = Len(audit) + 1 /\ Len(audit) \in Nat
      /\ \A i \in 1 .. Len(audit) : audit'[i] = audit[i]
      /\ audit'[Len(audit) + 1] = row
  BY <1>1, <1>2
<1> QED BY <1>3 DEF row

\* A row of the trail and what went with it.
Recorded(row) ==
  /\ row \in AuditRow
  /\ Logged(row.action, row.target, row.actor, row.old, row.new)
  /\ UNCHANGED claims
  /\ IF row.action = "role_change"
     THEN /\ May(row.actor, "Executive")
          /\ row.old = role[row.target] /\ row.new \in Roles
          /\ role' = [role EXCEPT ![row.target] = row.new]
     ELSE UNCHANGED role
  /\ row.action = "kyc_elevation" => May(row.actor, "Executive")

Unrecorded == UNCHANGED <<role, profiles, agents, audit>>

\* Every handler that changes anything leaves a row; only tokens come and go without.
LEMMA Trail ==
  ASSUME UsersTypeOK, [UsersNext]_usersVars
  PROVE  \/ /\ Unrecorded /\ claims' \in [Accounts -> SUBSET Roles]
            /\ \A u \in Accounts : claims'[u] \subseteq claims[u] \cup {role[u]}
         \/ \E row \in AuditRow : Recorded(row)
<1> USE DEF Actions, AuditValues
<1>1. ASSUME NEW u \in Accounts, TokenIssued(u) \/ \E r \in Roles : ClaimExpires(u, r)
      PROVE  /\ Unrecorded /\ claims' \in [Accounts -> SUBSET Roles]
             /\ \A v \in Accounts : claims'[v] \subseteq claims[v] \cup {role[v]}
  BY <1>1 DEF TokenIssued, ClaimExpires, Unrecorded, UsersTypeOK
<1>2. CASE UNCHANGED usersVars
  BY <1>2 DEF usersVars, Unrecorded, UsersTypeOK
<1>3. ASSUME NEW u \in Accounts, NEW actor \in Accounts,
             NEW country \in CountriesUsed \cup {Nothing},
             NEW currency \in CurrenciesUsed \cup {Nothing}, NEW tier \in Tiers \cup {Nothing},
             UpsertProfile(actor, u, country, currency, tier)
      PROVE  \E row \in AuditRow : Recorded(row)
  <2> DEFINE row == [action |-> "profile_update", target |-> u, actor |-> actor,
                     old |-> Nothing, new |-> Nothing]
  <2>1. row \in AuditRow
    BY DEF AuditRow
  <2>2. Recorded(row)
    BY <1>3, <2>1 DEF UpsertProfile, Recorded
  <2> QED BY <2>1, <2>2
<1>4. ASSUME NEW u \in Accounts, NEW actor \in Accounts, NEW r \in Roles, AssignRole(actor, u, r)
      PROVE  \E row \in AuditRow : Recorded(row)
  <2> DEFINE row == [action |-> "role_change", target |-> u, actor |-> actor,
                     old |-> role[u], new |-> r]
  <2>1. row \in AuditRow
    BY DEF AuditRow, UsersTypeOK
  <2>2. Recorded(row)
    BY <1>4, <2>1 DEF AssignRole, OldRole, Recorded
  <2> QED BY <2>1, <2>2
<1>5. ASSUME NEW u \in Accounts, NEW actor \in Accounts, NEW tier \in Tiers, ElevateKyc(actor, u, tier)
      PROVE  \E row \in AuditRow : Recorded(row)
  <2> DEFINE old == IF HasProfile(u) THEN profiles[u].tier ELSE "basic"
             row == [action |-> "kyc_elevation", target |-> u, actor |-> actor,
                     old |-> old, new |-> tier]
  <2>1. old \in Tiers
    BY ProfileFields DEF Profile, Tiers
  <2>2. row \in AuditRow
    BY <2>1 DEF AuditRow
  <2>3. Recorded(row)
    BY <1>5, <2>2 DEF ElevateKyc, Recorded
  <2> QED BY <2>2, <2>3
<1>6. ASSUME NEW u \in Accounts, NEW actor \in Accounts, NEW country \in CountriesUsed,
             NEW method \in {"momo", "card"}, NEW currency \in CurrenciesUsed,
             RegisterFreelancer(actor, u, country, method, currency)
      PROVE  \E row \in AuditRow : Recorded(row)
  <2> DEFINE row == [action |-> "freelancer_registered", target |-> u, actor |-> actor,
                     old |-> Nothing, new |-> country]
  <2>1. row \in AuditRow
    BY DEF AuditRow
  <2>2. Recorded(row)
    BY <1>6, <2>1 DEF RegisterFreelancer, Recorded
  <2> QED BY <2>1, <2>2
<1>7. ASSUME NEW u \in Accounts, NEW actor \in Accounts, GenerateApiKey(actor, u)
      PROVE  \E row \in AuditRow : Recorded(row)
  <2> DEFINE row == [action |-> "api_key_generated", target |-> u, actor |-> actor,
                     old |-> Nothing, new |-> Nothing]
  <2>1. row \in AuditRow
    BY DEF AuditRow
  <2>2. Recorded(row)
    BY <1>7, <2>1 DEF GenerateApiKey, Recorded
  <2> QED BY <2>1, <2>2
<1> QED BY <1>1, <1>2, <1>3, <1>4, <1>5, <1>6, <1>7 DEF UsersNext

LEMMA RecordedTrail ==
  ASSUME UsersTypeOK, NEW row \in AuditRow, Recorded(row)
  PROVE  /\ audit' \in Seq(AuditRow) /\ Len(audit') = Len(audit) + 1 /\ Len(audit) \in Nat
         /\ \A i \in 1 .. Len(audit) : audit'[i] = audit[i]
         /\ audit'[Len(audit) + 1] = row
<1>1. /\ row.action \in Actions /\ row.target \in Accounts /\ row.actor \in Accounts
      /\ row.old \in AuditValues /\ row.new \in AuditValues
      /\ row = [action |-> row.action, target |-> row.target, actor |-> row.actor,
                old |-> row.old, new |-> row.new]
  BY DEF AuditRow
<1> QED BY <1>1, LoggedRow DEF Recorded

-----------------------------------------------------------------------------
(* Agents. *)

\* The three things a step may do to the agents and to the profiles that point to them.
AgentsKept == agents' = agents /\ \A u \in Accounts : AgentOf(u)' = AgentOf(u)

Elevated(row) ==
  /\ row.action = "kyc_elevation" /\ row.new \in Tiers
  /\ \A u \in Accounts : AgentOf(u)' = AgentOf(u)
  /\ agents' \in Seq(Agent) /\ Len(agents') = Len(agents)
  /\ \A i \in 1 .. Len(agents) :
       agents'[i] = IF i = AgentOf(row.target) THEN [agents[i] EXCEPT !.tier = row.new] ELSE agents[i]

Registered(row) ==
  /\ row.action = "freelancer_registered"
  /\ AgentOf(row.target) = NoAgent
  /\ AgentOf(row.target)' = Len(agents) + 1
  /\ \A u \in Accounts \ {row.target} : AgentOf(u)' = AgentOf(u)
  /\ \E agent \in Agent : /\ agent.tier = "basic" /\ agents' = Append(agents, agent)
                          /\ Supports(agent.country, agent.method)

LEMMA AgentSteps ==
  ASSUME UsersTypeOK, [UsersNext]_usersVars
  PROVE  /\ profiles' \in [Accounts -> Profile \cup {NoProfile}]
         /\ \/ AgentsKept
            \/ \E row \in AuditRow : Recorded(row) /\ (Elevated(row) \/ Registered(row))
<1> USE DEF Actions, AuditValues
<1>0. /\ profiles \in [Accounts -> Profile \cup {NoProfile}]
      /\ \A u \in Accounts : HasProfile(u) => profiles[u] \in Profile
      /\ "basic" \in Tiers /\ NoAgent \in Nat
  BY ProfileFields DEF UsersTypeOK, Tiers, NoAgent
\* A handler that writes one profile: what the others point to stays.
<1>1. ASSUME NEW u \in Accounts, NEW new \in Profile, profiles' = [profiles EXCEPT ![u] = new]
      PROVE  /\ profiles' \in [Accounts -> Profile \cup {NoProfile}]
             /\ AgentOf(u)' = new.agent
             /\ \A v \in Accounts \ {u} : AgentOf(v)' = AgentOf(v)
  <2>1. profiles' \in [Accounts -> Profile \cup {NoProfile}] /\ profiles'[u] = new
    BY <1>0, <1>1
  <2>2. new # NoProfile
    BY NoProfileType
  <2> QED BY <1>1, <2>1, <2>2 DEF AgentOf, HasProfile, UsersTypeOK
<1>2. CASE UNCHANGED profiles /\ UNCHANGED agents
  BY <1>0, <1>2 DEF AgentsKept, AgentOf, HasProfile
<1>3. ASSUME NEW u \in Accounts, NEW actor \in Accounts,
             NEW country \in CountriesUsed \cup {Nothing},
             NEW currency \in CurrenciesUsed \cup {Nothing}, NEW tier \in Tiers \cup {Nothing},
             UpsertProfile(actor, u, country, currency, tier)
      PROVE  profiles' \in [Accounts -> Profile \cup {NoProfile}] /\ AgentsKept
  <2> DEFINE new == IF HasProfile(u)
                    THEN [profiles[u] EXCEPT !.tier = Or(tier, @), !.country = Or(country, @),
                                             !.currency = Or(currency, @)]
                    ELSE [tier |-> Or(tier, "basic"), country |-> country, currency |-> currency,
                          agent |-> NoAgent, hasKey |-> FALSE]
  <2>1. profiles' = [profiles EXCEPT ![u] = new]
    BY <1>3 DEF UpsertProfile, Or
  <2>2. new \in Profile /\ new.agent = AgentOf(u)
    BY <1>0 DEF Profile, Or, AgentOf
  <2> HIDE DEF new
  <2>3. agents' = agents
    BY <1>3 DEF UpsertProfile
  <2> QED BY <1>1, <2>1, <2>2, <2>3 DEF AgentsKept
<1>4. ASSUME NEW u \in Accounts, NEW actor \in Accounts, GenerateApiKey(actor, u)
      PROVE  profiles' \in [Accounts -> Profile \cup {NoProfile}] /\ AgentsKept
  <2> DEFINE new == IF HasProfile(u) THEN [profiles[u] EXCEPT !.hasKey = TRUE]
                    ELSE [tier |-> "basic", country |-> Nothing, currency |-> Nothing,
                          agent |-> NoAgent, hasKey |-> TRUE]
  <2>1. profiles' = [profiles EXCEPT ![u] = new]
    BY <1>4 DEF GenerateApiKey
  <2>2. new \in Profile /\ new.agent = AgentOf(u)
    BY <1>0 DEF Profile, AgentOf
  <2> HIDE DEF new
  <2>3. agents' = agents
    BY <1>4 DEF GenerateApiKey
  <2> QED BY <1>1, <2>1, <2>2, <2>3 DEF AgentsKept
<1>5. ASSUME NEW u \in Accounts, NEW actor \in Accounts, NEW tier \in Tiers, ElevateKyc(actor, u, tier)
      PROVE  /\ profiles' \in [Accounts -> Profile \cup {NoProfile}]
             /\ \E row \in AuditRow : Recorded(row) /\ Elevated(row)
  <2> DEFINE old == IF HasProfile(u) THEN profiles[u].tier ELSE "basic"
             row == [action |-> "kyc_elevation", target |-> u, actor |-> actor,
                     old |-> old, new |-> tier]
  <2>1. old \in Tiers
    BY <1>0 DEF Profile
  <2>2. row \in AuditRow
    BY <2>1 DEF AuditRow
  <2>3. Recorded(row)
    BY <1>5, <2>2 DEF ElevateKyc, Recorded
  <2>4. /\ profiles' \in [Accounts -> Profile \cup {NoProfile}]
        /\ \A v \in Accounts : AgentOf(v)' = AgentOf(v)
    <3>1. CASE HasProfile(u)
      <4> DEFINE new == [profiles[u] EXCEPT !.tier = tier]
      <4>1. new \in Profile /\ new.agent = AgentOf(u)
        BY <1>0, <3>1 DEF Profile, AgentOf
      <4>2. profiles' = [profiles EXCEPT ![u] = new]
        BY <1>5, <3>1 DEF ElevateKyc
      <4> HIDE DEF new
      <4> QED BY <1>1, <4>1, <4>2
    <3>2. CASE ~HasProfile(u)
      BY <1>0, <1>5, <3>2 DEF ElevateKyc, AgentOf, HasProfile
    <3> QED BY <3>1, <3>2
  <2>5. /\ agents' \in Seq(Agent) /\ Len(agents') = Len(agents)
        /\ \A i \in 1 .. Len(agents) :
             agents'[i] = IF i = AgentOf(u) THEN [agents[i] EXCEPT !.tier = tier] ELSE agents[i]
    <3>1. agents \in Seq(Agent) /\ DOMAIN agents = 1 .. Len(agents) /\ Len(agents) \in Nat
      BY DEF UsersTypeOK
    <3>2. agents' = [i \in DOMAIN agents |->
                      IF i = AgentOf(u) THEN [agents[i] EXCEPT !.tier = tier] ELSE agents[i]]
      BY <1>5 DEF ElevateKyc
    <3>3. \A i \in 1 .. Len(agents) : agents[i] \in Agent
      BY <3>1
    <3>4. \A agent \in Agent : [agent EXCEPT !.tier = tier] \in Agent
      BY DEF Agent
    <3>5. agents' \in [1 .. Len(agents) -> Agent]
      BY <3>1, <3>2, <3>3, <3>4
    <3>6. agents' \in Seq(Agent) /\ Len(agents') = Len(agents)
      BY <3>1, <3>5
    <3> QED BY <3>1, <3>2, <3>6
  <2>6. Elevated(row)
    BY <2>4, <2>5 DEF Elevated
  <2> QED BY <2>2, <2>3, <2>4, <2>6
<1>6. ASSUME NEW u \in Accounts, NEW actor \in Accounts, NEW country \in CountriesUsed,
             NEW method \in {"momo", "card"}, NEW currency \in CurrenciesUsed,
             RegisterFreelancer(actor, u, country, method, currency)
      PROVE  /\ profiles' \in [Accounts -> Profile \cup {NoProfile}]
             /\ \E row \in AuditRow : Recorded(row) /\ Registered(row)
  <2> DEFINE row == [action |-> "freelancer_registered", target |-> u, actor |-> actor,
                     old |-> Nothing, new |-> country]
             agent == [tier |-> AgentTier(u), country |-> country, method |-> method]
             new == IF HasProfile(u)
                    THEN [profiles[u] EXCEPT !.agent = Len(agents) + 1, !.country = country,
                                             !.currency = currency]
                    ELSE [tier |-> "basic", country |-> country, currency |-> currency,
                          agent |-> Len(agents) + 1, hasKey |-> FALSE]
  <2>1. row \in AuditRow
    BY DEF AuditRow
  <2>2. Recorded(row)
    BY <1>6, <2>1 DEF RegisterFreelancer, Recorded
  <2>3. agent \in Agent /\ agent.tier = "basic" /\ Supports(agent.country, agent.method)
    BY <1>0, <1>6 DEF Agent, AgentTier, RegisterFreelancer, MethodFits
  <2>4. Len(agents) + 1 \in Nat
    BY DEF UsersTypeOK
  <2>5. new \in Profile /\ new.agent = Len(agents) + 1
    BY <1>0, <2>4 DEF Profile
  <2>6. profiles' = [profiles EXCEPT ![u] = new] /\ agents' = Append(agents, agent)
        /\ AgentOf(u) = NoAgent
    BY <1>6 DEF RegisterFreelancer, NotFreelancer
  <2> HIDE DEF new, agent
  <2>7. /\ profiles' \in [Accounts -> Profile \cup {NoProfile}]
        /\ AgentOf(u)' = Len(agents) + 1
        /\ \A v \in Accounts \ {u} : AgentOf(v)' = AgentOf(v)
    BY <1>1, <2>5, <2>6
  <2>8. Registered(row)
    BY <2>3, <2>6, <2>7 DEF Registered
  <2> QED BY <2>1, <2>2, <2>7, <2>8
<1>7. ASSUME NEW u \in Accounts,
             \/ TokenIssued(u) \/ \E r \in Roles : ClaimExpires(u, r)
             \/ \E actor \in Accounts, r \in Roles : AssignRole(actor, u, r)
      PROVE  UNCHANGED profiles /\ UNCHANGED agents
  BY <1>7 DEF TokenIssued, ClaimExpires, AssignRole
<1> QED BY <1>2, <1>3, <1>4, <1>5, <1>6, <1>7 DEF UsersNext, usersVars

-----------------------------------------------------------------------------
\* The variables keep their types.
THEOREM UsersTypeCorrect == UsersSpec => []UsersTypeOK
<1>1. UsersInit => UsersTypeOK
  BY UsersAssumption DEF UsersInit, UsersTypeOK
<1>2. UsersTypeOK /\ [UsersNext]_usersVars => UsersTypeOK'
  <2> SUFFICES ASSUME UsersTypeOK, [UsersNext]_usersVars PROVE UsersTypeOK'
    OBVIOUS
  <2>1. /\ role' \in [Accounts -> Roles]
        /\ claims' \in [Accounts -> SUBSET Roles]
        /\ audit' \in Seq(AuditRow)
    <3>1. CASE \E row \in AuditRow : Recorded(row)
      BY <3>1, RecordedTrail DEF Recorded, UsersTypeOK
    <3>2. CASE Unrecorded /\ claims' \in [Accounts -> SUBSET Roles]
      BY <3>2 DEF Unrecorded, UsersTypeOK
    <3> QED BY <3>1, <3>2, Trail
  <2>2. profiles' \in [Accounts -> Profile \cup {NoProfile}]
    BY AgentSteps
  <2>3. agents' \in Seq(Agent) /\ \A i \in DOMAIN agents' : Supports(agents'[i].country, agents'[i].method)
    <3>0. /\ agents \in Seq(Agent) /\ Len(agents) \in Nat
          /\ \A i \in 1 .. Len(agents) : agents[i] \in Agent /\ Supports(agents[i].country, agents[i].method)
      BY DEF UsersTypeOK
    <3>1. CASE AgentsKept
      BY <3>0, <3>1 DEF AgentsKept
    <3>2. ASSUME NEW row \in AuditRow, Elevated(row)
          PROVE  agents' \in Seq(Agent) /\ \A i \in DOMAIN agents' : Supports(agents'[i].country, agents'[i].method)
      <4>1. agents' \in Seq(Agent) /\ DOMAIN agents' = 1 .. Len(agents)
        BY <3>0, <3>2 DEF Elevated
      <4>2. \A i \in 1 .. Len(agents) :
              agents'[i].country = agents[i].country /\ agents'[i].method = agents[i].method
        BY <3>0, <3>2 DEF Elevated, Agent
      <4> QED BY <3>0, <4>1, <4>2
    <3>3. ASSUME NEW row \in AuditRow, Registered(row)
          PROVE  agents' \in Seq(Agent) /\ \A i \in DOMAIN agents' : Supports(agents'[i].country, agents'[i].method)
      <4>1. PICK agent \in Agent : agents' = Append(agents, agent) /\ Supports(agent.country, agent.method)
        BY <3>3 DEF Registered
      <4>2. /\ agents' \in Seq(Agent) /\ DOMAIN agents' = 1 .. Len(agents) + 1
            /\ agents'[Len(agents) + 1] = agent
            /\ \A i \in 1 .. Len(agents) : agents'[i] = agents[i]
        BY <3>0, <4>1
      <4>3. \A i \in 1 .. Len(agents) + 1 : i \in 1 .. Len(agents) \/ i = Len(agents) + 1
        BY <3>0
      <4> QED BY <3>0, <4>1, <4>2, <4>3
    <3> QED BY <3>1, <3>2, <3>3, AgentSteps
  <2> QED BY <2>1, <2>2, <2>3 DEF UsersTypeOK
<1> QED BY <1>1, <1>2, PTL DEF UsersSpec

\* What the trail says of the past is not changed by what is written later.
LEMMA TrailGrows ==
  ASSUME UsersTypeOK, [UsersNext]_usersVars
  PROVE  /\ Len(audit) \in Nat /\ Len(audit') \in Nat /\ Len(audit) <= Len(audit')
         /\ DOMAIN audit = 1 .. Len(audit) /\ DOMAIN audit' = 1 .. Len(audit')
         /\ \A i \in 1 .. Len(audit) : audit'[i] = audit[i]
<1>0. audit \in Seq(AuditRow) /\ Len(audit) \in Nat /\ DOMAIN audit = 1 .. Len(audit)
  BY DEF UsersTypeOK
<1>1. CASE Unrecorded
  BY <1>0, <1>1 DEF Unrecorded
<1>2. CASE \E row \in AuditRow : Recorded(row)
  <2>1. audit' \in Seq(AuditRow) /\ Len(audit') = Len(audit) + 1
        /\ \A i \in 1 .. Len(audit) : audit'[i] = audit[i]
    BY <1>2, RecordedTrail
  <2> QED BY <1>0, <2>1
<1> QED BY <1>1, <1>2, Trail

-----------------------------------------------------------------------------
(* Who acts. *)

\* Every role a user has or shows in a token was given to him at registration or by a row of
\* the trail.
Grants ==
  \A u \in Accounts : \A r \in claims[u] \cup {role[u]} :
    \/ r = RoleAtStart[u]
    \/ \E j \in 1 .. Len(audit) : RoleChange(j, u) /\ audit[j].new = r

ActsInv == UsersTypeOK /\ Grants /\ OnlyExecutivesAct

LEMMA GrantsStep == ASSUME ActsInv, [UsersNext]_usersVars PROVE Grants'
<1> USE DEF ActsInv
<1>0. Grants /\ UsersTypeOK
  OBVIOUS
<1>1. CASE Unrecorded /\ \A u \in Accounts : claims'[u] \subseteq claims[u] \cup {role[u]}
  BY <1>0, <1>1 DEF Unrecorded, Grants, RoleChange
<1>2. ASSUME NEW row \in AuditRow, Recorded(row) PROVE Grants'
  <2>1. /\ Len(audit') = Len(audit) + 1 /\ Len(audit) \in Nat
        /\ \A i \in 1 .. Len(audit) : audit'[i] = audit[i]
        /\ audit'[Len(audit) + 1] = row
    BY <1>0, <1>2, RecordedTrail
  <2>2. SUFFICES ASSUME NEW u \in Accounts, NEW r \in claims'[u] \cup {role'[u]}
                 PROVE  \/ r = RoleAtStart[u]
                        \/ \E j \in 1 .. Len(audit') : RoleChange(j, u)' /\ audit'[j].new = r
    BY DEF Grants
  <2>3. CASE r \in claims[u] \cup {role[u]}
    <3>1. CASE r = RoleAtStart[u]
      BY <3>1
    <3>2. ASSUME NEW j \in 1 .. Len(audit), RoleChange(j, u), audit[j].new = r
          PROVE  \E k \in 1 .. Len(audit') : RoleChange(k, u)' /\ audit'[k].new = r
      <4>1. j \in 1 .. Len(audit') /\ audit'[j] = audit[j]
        BY <2>1
      <4> QED BY <3>2, <4>1 DEF RoleChange
    <3> QED BY <1>0, <2>3, <3>1, <3>2 DEF Grants
  <2>4. CASE r \notin claims[u] \cup {role[u]}
    <3>1. row.action = "role_change" /\ row.target = u /\ r = row.new
      BY <1>0, <1>2, <2>2, <2>4 DEF Recorded, UsersTypeOK, AuditRow
    <3>2. Len(audit) + 1 \in 1 .. Len(audit')
      BY <2>1
    <3> QED BY <2>1, <3>1, <3>2 DEF RoleChange
  <2> QED BY <2>3, <2>4
<1> QED BY <1>0, <1>1, <1>2, Trail

LEMMA ActsStep == ASSUME ActsInv, [UsersNext]_usersVars PROVE OnlyExecutivesAct'
<1> USE DEF ActsInv
<1>0. Grants /\ UsersTypeOK /\ OnlyExecutivesAct
  OBVIOUS
<1>a. Len(audit) \in Nat /\ DOMAIN audit = 1 .. Len(audit) /\ DOMAIN audit' = 1 .. Len(audit')
  BY <1>0, TrailGrows
<1>1. CASE Unrecorded
  BY <1>0, <1>1 DEF Unrecorded, OnlyExecutivesAct
<1>2. ASSUME NEW row \in AuditRow, Recorded(row) PROVE OnlyExecutivesAct'
  <2>1. /\ Len(audit') = Len(audit) + 1
        /\ \A i \in 1 .. Len(audit) : audit'[i] = audit[i]
        /\ audit'[Len(audit) + 1] = row
    BY <1>0, <1>2, RecordedTrail
  <2>2. SUFFICES ASSUME NEW i \in 1 .. Len(audit'),
                        audit'[i].action \in {"role_change", "kyc_elevation"}
                 PROVE  \/ RoleAtStart[audit'[i].actor] = "Executive"
                        \/ \E j \in 1 .. i - 1 : /\ audit'[j].action = "role_change"
                                                 /\ audit'[j].target = audit'[i].actor
                                                 /\ audit'[j].new = "Executive"
    BY <1>a DEF OnlyExecutivesAct
  <2>3. \A j \in 1 .. i - 1 : j \in 1 .. Len(audit) /\ audit'[j] = audit[j]
    BY <1>a, <2>1
  <2>4. CASE i \in 1 .. Len(audit)
    <3>1. audit'[i] = audit[i]
      BY <2>1, <2>4
    <3>2. \/ RoleAtStart[audit[i].actor] = "Executive"
          \/ \E j \in 1 .. i - 1 : /\ audit[j].action = "role_change"
                                   /\ audit[j].target = audit[i].actor
                                   /\ audit[j].new = "Executive"
      BY <1>0, <1>a, <2>2, <2>4, <3>1 DEF OnlyExecutivesAct
    <3> QED BY <2>3, <3>1, <3>2
  <2>5. CASE i = Len(audit) + 1
    <3>1. audit'[i] = row /\ row.actor \in Accounts /\ "Executive" \in claims[row.actor]
      BY <1>2, <2>1, <2>2, <2>5 DEF Recorded, May, AuditRow
    <3>2. \/ "Executive" = RoleAtStart[row.actor]
          \/ \E j \in 1 .. Len(audit) : RoleChange(j, row.actor) /\ audit[j].new = "Executive"
      BY <1>0, <3>1 DEF Grants
    <3>3. i - 1 = Len(audit)
      BY <1>a, <2>5
    <3> QED BY <2>3, <3>1, <3>2, <3>3 DEF RoleChange
  <2>6. i \in 1 .. Len(audit) \/ i = Len(audit) + 1
    BY <1>a, <2>1
  <2> QED BY <2>4, <2>5, <2>6
<1> QED BY <1>0, <1>1, <1>2, Trail

\* Whoever changed a role or a tier was Executive once before, however long his token lived
\* on: requireRole reads the token (users.ts 862-875).
THEOREM OnlyExecutives == UsersSpec => []OnlyExecutivesAct
<1>1. UsersInit => ActsInv
  <2>1. ASSUME UsersInit PROVE UsersTypeOK
    BY <2>1, UsersAssumption DEF UsersInit, UsersTypeOK
  <2>2. ASSUME UsersInit PROVE Grants /\ OnlyExecutivesAct
    BY <2>2 DEF UsersInit, Grants, OnlyExecutivesAct
  <2> QED BY <2>1, <2>2 DEF ActsInv
<1>2. UsersTypeOK' /\ ActsInv /\ [UsersNext]_usersVars => ActsInv'
  BY GrantsStep, ActsStep DEF ActsInv
<1>3. ActsInv => OnlyExecutivesAct
  BY DEF ActsInv
<1> QED BY <1>1, <1>2, <1>3, UsersTypeCorrect, PTL DEF UsersSpec

-----------------------------------------------------------------------------
(* What the trail explains. *)

\* The role a user had before a row is told by the rows before it.
LEMMA HadRoleKept ==
  ASSUME UsersTypeOK, [UsersNext]_usersVars, NEW u \in Accounts, NEW r, NEW i \in 1 .. Len(audit) + 1,
         HadRole(u, i, r)
  PROVE  HadRole(u, i, r)'
<1>1. \A j \in 1 .. i - 1 : j \in 1 .. Len(audit) /\ audit'[j] = audit[j]
  BY TrailGrows
<1>2. \A j \in 1 .. i - 1 : RoleChange(j, u)' <=> RoleChange(j, u)
  BY <1>1 DEF RoleChange
<1>3. CASE (\A j \in 1 .. i - 1 : ~RoleChange(j, u)) /\ r = RoleAtStart[u]
  BY <1>2, <1>3 DEF HadRole
<1>4. ASSUME NEW j \in 1 .. i - 1, RoleChange(j, u), r = audit[j].new,
             \A k \in j + 1 .. i - 1 : ~RoleChange(k, u)
      PROVE  HadRole(u, i, r)'
  <2>1. \A k \in j + 1 .. i - 1 : k \in 1 .. i - 1
    BY <1>1
  <2>2. r = audit'[j].new
    BY <1>1, <1>4
  <2> QED BY <1>2, <1>4, <2>1, <2>2 DEF HadRole
<1> QED BY <1>3, <1>4 DEF HadRole

LEMMA ExplainsStep ==
  ASSUME UsersTypeOK, AuditExplainsRoles, [UsersNext]_usersVars PROVE AuditExplainsRoles'
<1>a. /\ Len(audit) \in Nat /\ DOMAIN audit = 1 .. Len(audit) /\ DOMAIN audit' = 1 .. Len(audit')
      /\ \A i \in 1 .. Len(audit) : audit'[i] = audit[i]
  BY TrailGrows
<1> SUFFICES ASSUME NEW u \in Accounts
             PROVE  /\ \A i \in 1 .. Len(audit') : RoleChange(i, u)' => HadRole(u, i, audit[i].old)'
                    /\ HadRole(u, Len(audit) + 1, role[u])'
  BY <1>a DEF AuditExplainsRoles
<1>b. /\ \A i \in 1 .. Len(audit) : RoleChange(i, u) => HadRole(u, i, audit[i].old)
      /\ HadRole(u, Len(audit) + 1, role[u])
  BY <1>a DEF AuditExplainsRoles
<1>c. \A i \in 1 .. Len(audit) : RoleChange(i, u)' => HadRole(u, i, audit[i].old)'
  <2> SUFFICES ASSUME NEW i \in 1 .. Len(audit), RoleChange(i, u)' PROVE HadRole(u, i, audit[i].old)'
    OBVIOUS
  <2>1. audit'[i] = audit[i] /\ i \in 1 .. Len(audit) + 1
    BY <1>a
  <2>2. HadRole(u, i, audit[i].old)
    BY <1>b, <2>1 DEF RoleChange
  <2>3. \A r : HadRole(u, i, r) => HadRole(u, i, r)'
    BY <2>1, HadRoleKept
  <2> QED BY <2>1, <2>2, <2>3 DEF HadRole
<1>d. \A r : HadRole(u, Len(audit) + 1, r) =>
        \/ (\A j \in 1 .. Len(audit) : ~RoleChange(j, u)') /\ r = RoleAtStart[u]
        \/ \E j \in 1 .. Len(audit) : /\ RoleChange(j, u)' /\ r = audit'[j].new
                                      /\ \A k \in j + 1 .. Len(audit) : ~RoleChange(k, u)'
  <2>1. Len(audit) + 1 - 1 = Len(audit) /\ \A j \in 1 .. Len(audit) : \A k \in j + 1 .. Len(audit) : k \in 1 .. Len(audit)
    BY <1>a
  <2>2. \A j \in 1 .. Len(audit) : RoleChange(j, u)' <=> RoleChange(j, u)
    BY <1>a DEF RoleChange
  <2> QED BY <1>a, <2>1, <2>2 DEF HadRole
<1>1. CASE Unrecorded
  <2>1. audit' = audit /\ role' = role
    BY <1>1 DEF Unrecorded
  <2> QED BY <1>b, <2>1 DEF HadRole, RoleChange
<1>2. ASSUME NEW row \in AuditRow, Recorded(row)
      PROVE  /\ \A i \in 1 .. Len(audit') : RoleChange(i, u)' => HadRole(u, i, audit[i].old)'
             /\ HadRole(u, Len(audit) + 1, role[u])'
  <2>0. PICK n \in Nat : n = Len(audit)
    BY <1>a
  <2>1. /\ Len(audit') = n + 1 /\ audit'[n + 1] = row
        /\ Len(audit') + 1 - 1 = n + 1 /\ n + 1 \in 1 .. Len(audit')
        /\ \A i \in 1 .. Len(audit') : i \in 1 .. n \/ i = n + 1
    BY <1>2, <2>0, RecordedTrail
  <2>a. /\ HadRole(u, n + 1, role[u])
        /\ \A r : HadRole(u, n + 1, r) => HadRole(u, n + 1, r)'
    BY <1>a, <1>b, <2>0, HadRoleKept
  <2>2. CASE row.action = "role_change" /\ row.target = u
    <3>1. audit'[n + 1].old = role[u] /\ role'[u] = audit'[n + 1].new
      BY <1>2, <2>1, <2>2 DEF Recorded, UsersTypeOK
    <3>2. RoleChange(n + 1, u)'
      BY <2>1, <2>2 DEF RoleChange
    <3>3. HadRole(u, n + 1, role[u]) => HadRole(u, n + 1, audit[n + 1].old)'
      <4>1. PICK r : r = role[u]
        OBVIOUS
      <4>2. HadRole(u, n + 1, r) => HadRole(u, n + 1, r)'
        BY <2>a
      <4> QED BY <3>1, <4>1, <4>2 DEF HadRole
    <3>4. \A i \in 1 .. Len(audit') : RoleChange(i, u)' => HadRole(u, i, audit[i].old)'
      BY <1>c, <2>0, <2>1, <2>a, <3>3
    <3>5. HadRole(u, Len(audit) + 1, role[u])'
      <4>1. \A k \in n + 1 + 1 .. n + 1 : FALSE
        OBVIOUS
      <4>2. \E j \in 1 .. Len(audit') : /\ RoleChange(j, u)' /\ role'[u] = audit'[j].new
                                        /\ \A k \in j + 1 .. n + 1 : ~RoleChange(k, u)'
        BY <2>1, <3>1, <3>2, <4>1
      <4> QED BY <2>1, <4>2 DEF HadRole
    <3> QED BY <3>4, <3>5
  <2>3. CASE ~(row.action = "role_change" /\ row.target = u)
    <3>1. role'[u] = role[u]
      BY <1>2, <2>3 DEF Recorded, UsersTypeOK, AuditRow
    <3>2. ~RoleChange(n + 1, u)'
      BY <2>1, <2>3 DEF RoleChange
    <3>3. /\ \A j \in 1 .. n + 1 : j \in 1 .. n \/ j = n + 1
          /\ \A j \in 1 .. n : j \in 1 .. n + 1
          /\ \A j \in 1 .. n : \A k \in j + 1 .. n + 1 : k \in j + 1 .. n \/ k = n + 1
      OBVIOUS
    <3>4. ASSUME NEW j \in 1 .. n, RoleChange(j, u)', role[u] = audit'[j].new,
                 \A k \in j + 1 .. n : ~RoleChange(k, u)'
          PROVE  HadRole(u, Len(audit) + 1, role[u])'
      <4>1. j \in 1 .. n + 1 /\ role'[u] = audit'[j].new
            /\ \A k \in j + 1 .. n + 1 : ~RoleChange(k, u)'
        BY <3>1, <3>2, <3>3, <3>4
      <4> QED BY <2>1, <3>4, <4>1 DEF HadRole
    <3>5. HadRole(u, Len(audit) + 1, role[u])'
      <4>1. CASE (\A j \in 1 .. n : ~RoleChange(j, u)') /\ role[u] = RoleAtStart[u]
        <5>1. (\A j \in 1 .. n + 1 : ~RoleChange(j, u)') /\ role'[u] = RoleAtStart[u]
          BY <3>1, <3>2, <3>3, <4>1
        <5> QED BY <2>1, <5>1 DEF HadRole
      <4> QED BY <1>b, <1>d, <2>0, <3>4, <4>1
    <3> QED BY <1>c, <2>0, <2>1, <3>2, <3>5
  <2> QED BY <2>2, <2>3
<1> QED BY <1>1, <1>2, Trail

\* The role changes of every user form an unbroken chain in role_audit_log, however many
\* handlers of whichever Executives took turns (assignRole reads the old role before its
\* transaction, and nothing comes between).
THEOREM RolesExplained == UsersSpec => []AuditExplainsRoles
<1>1. UsersInit => AuditExplainsRoles
  BY DEF UsersInit, AuditExplainsRoles, HadRole
<1>2. UsersTypeOK /\ AuditExplainsRoles /\ [UsersNext]_usersVars => AuditExplainsRoles'
  BY ExplainsStep
<1> QED BY <1>1, <1>2, UsersTypeCorrect, PTL DEF UsersSpec

-----------------------------------------------------------------------------
(* Agents and what they are paid for. *)

\* The profiles point to the agents one to one.
Owned ==
  /\ \A u \in Accounts : AgentOf(u) \in 0 .. Len(agents)
  /\ \A u, v \in Accounts : AgentOf(u) = AgentOf(v) /\ AgentOf(u) # NoAgent => u = v
  /\ \A i \in 1 .. Len(agents) : \E u \in Accounts : AgentOf(u) = i

\* What the trail holds of a freelancer since he registered: nothing as long as his agent is
\* basic, and otherwise the elevation to the tier it has.
Explained(u, tier) ==
  \E i \in 1 .. Len(audit) :
    /\ audit[i].target = u /\ audit[i].action = "freelancer_registered"
    /\ \/ tier = "basic"
       \/ \E j \in 1 .. Len(audit) : /\ i < j /\ audit[j].target = u
                                     /\ audit[j].action = "kyc_elevation" /\ audit[j].new = tier

TiersExplained ==
  \A u \in Accounts : AgentOf(u) # NoAgent => Explained(u, agents[AgentOf(u)].tier)

LEMMA OwnedStep == ASSUME UsersTypeOK, Owned, [UsersNext]_usersVars PROVE Owned'
<1>0. Len(agents) \in Nat /\ \A u \in Accounts : AgentOf(u) \in Nat /\ AgentOf(u) \in 0 .. Len(agents)
  BY DEF UsersTypeOK, Owned
<1>1. CASE /\ Len(agents') = Len(agents)
           /\ \A u \in Accounts : AgentOf(u)' = AgentOf(u)
  BY <1>1 DEF Owned
<1>2. ASSUME NEW row \in AuditRow, Registered(row) PROVE Owned'
  <2>1. /\ row.target \in Accounts /\ AgentOf(row.target) = NoAgent
        /\ AgentOf(row.target)' = Len(agents) + 1
        /\ \A u \in Accounts \ {row.target} : AgentOf(u)' = AgentOf(u)
        /\ Len(agents') = Len(agents) + 1
    BY <1>2 DEF Registered, AuditRow, UsersTypeOK
  <2>2. \A u \in Accounts : AgentOf(u)' \in 0 .. Len(agents')
    BY <1>0, <2>1
  <2>3. ASSUME NEW u \in Accounts, NEW v \in Accounts, AgentOf(u)' = AgentOf(v)', AgentOf(u)' # NoAgent
        PROVE  u = v
    BY <1>0, <2>1, <2>3 DEF Owned
  <2>4. ASSUME NEW i \in 1 .. Len(agents') PROVE \E u \in Accounts : AgentOf(u)' = i
    <3>1. CASE i = Len(agents) + 1
      BY <2>1, <3>1
    <3>2. CASE i \in 1 .. Len(agents)
      BY <1>0, <2>1, <3>2 DEF Owned, NoAgent
    <3> QED BY <1>0, <2>1, <3>1, <3>2
  <2> QED BY <2>2, <2>3, <2>4 DEF Owned, NoAgent
<1>3. CASE AgentsKept
  BY <1>1, <1>3 DEF AgentsKept
<1>4. ASSUME NEW row \in AuditRow, Elevated(row) PROVE Owned'
  BY <1>1, <1>4 DEF Elevated
<1> QED BY <1>2, <1>3, <1>4, AgentSteps

\* What was explained stays explained.
LEMMA ExplainedKept ==
  ASSUME UsersTypeOK, [UsersNext]_usersVars, NEW u \in Accounts, NEW tier, Explained(u, tier)
  PROVE  Explained(u, tier)'
<1>1. \A i \in 1 .. Len(audit) : i \in 1 .. Len(audit') /\ audit'[i] = audit[i]
  BY TrailGrows
<1>2. PICK i \in 1 .. Len(audit) :
        /\ audit[i].target = u /\ audit[i].action = "freelancer_registered"
        /\ \/ tier = "basic"
           \/ \E j \in 1 .. Len(audit) : /\ i < j /\ audit[j].target = u
                                         /\ audit[j].action = "kyc_elevation" /\ audit[j].new = tier
  BY DEF Explained
<1>3. CASE tier = "basic"
  BY <1>1, <1>2, <1>3 DEF Explained
<1>4. ASSUME NEW j \in 1 .. Len(audit), i < j, audit[j].target = u,
             audit[j].action = "kyc_elevation", audit[j].new = tier
      PROVE  Explained(u, tier)'
  BY <1>1, <1>2, <1>4 DEF Explained
<1> QED BY <1>2, <1>3, <1>4

LEMMA TiersStep == ASSUME UsersTypeOK, Owned, TiersExplained, [UsersNext]_usersVars PROVE TiersExplained'
<1>0. /\ Len(agents) \in Nat /\ agents \in Seq(Agent)
      /\ \A u \in Accounts : AgentOf(u) \in Nat /\ AgentOf(u) \in 0 .. Len(agents)
  BY DEF UsersTypeOK, Owned
\* Where neither the agent nor its tier changes, the explanation is kept.
<1>1. ASSUME NEW u \in Accounts, AgentOf(u)' = AgentOf(u), AgentOf(u) # NoAgent,
             agents'[AgentOf(u)].tier = agents[AgentOf(u)].tier
      PROVE  Explained(u, agents[AgentOf(u)].tier)'
  <2>1. PICK tier : tier = agents[AgentOf(u)].tier
    OBVIOUS
  <2>2. Explained(u, tier)
    BY <1>1, <2>1 DEF TiersExplained
  <2>3. Explained(u, tier)'
    BY <2>2, ExplainedKept
  <2>4. tier = agents[AgentOf(u)].tier'
    BY <1>1, <2>1
  <2> QED BY <2>3, <2>4 DEF Explained
<1>2. CASE AgentsKept
  BY <1>1, <1>2 DEF AgentsKept, TiersExplained
<1>3. ASSUME NEW row \in AuditRow, Recorded(row), Elevated(row) PROVE TiersExplained'
  <2>1. /\ \A u \in Accounts : AgentOf(u)' = AgentOf(u)
        /\ \A i \in 1 .. Len(agents) :
             agents'[i] = IF i = AgentOf(row.target) THEN [agents[i] EXCEPT !.tier = row.new] ELSE agents[i]
    BY <1>3 DEF Elevated
  <2>2. row.target \in Accounts
    BY DEF AuditRow
  <2>3. ASSUME NEW u \in Accounts \ {row.target}, AgentOf(u) # NoAgent
        PROVE  Explained(u, agents[AgentOf(u)].tier)'
    <3>1. AgentOf(u) \in 1 .. Len(agents) /\ AgentOf(u) # AgentOf(row.target)
      BY <1>0, <2>2, <2>3 DEF Owned, NoAgent
    <3> QED BY <1>1, <2>1, <2>3, <3>1
  <2>4. ASSUME AgentOf(row.target) # NoAgent
        PROVE  Explained(row.target, agents[AgentOf(row.target)].tier)'
    <3>1. AgentOf(row.target) \in 1 .. Len(agents)
      BY <1>0, <2>2, <2>4 DEF NoAgent
    <3>2. agents'[AgentOf(row.target)].tier = row.new
      <4>1. agents[AgentOf(row.target)] \in Agent
        BY <1>0, <3>1
      <4>2. agents'[AgentOf(row.target)] = [agents[AgentOf(row.target)] EXCEPT !.tier = row.new]
        BY <2>1, <3>1
      <4> QED BY <4>1, <4>2 DEF Agent
    <3>3. PICK i \in 1 .. Len(audit) :
            audit[i].target = row.target /\ audit[i].action = "freelancer_registered"
      BY <2>2, <2>4 DEF TiersExplained, Explained
    <3>4. /\ Len(audit) \in Nat /\ Len(audit') = Len(audit) + 1 /\ audit'[i] = audit[i]
          /\ audit'[Len(audit) + 1] = row
      BY <1>3, RecordedTrail
    <3>5. i \in 1 .. Len(audit') /\ Len(audit) + 1 \in 1 .. Len(audit') /\ i < Len(audit) + 1
      BY <3>4
    <3>6. agents[AgentOf(row.target)].tier' = row.new
      BY <2>1, <2>2, <3>2
    <3>7. row.action = "kyc_elevation"
      BY <1>3 DEF Elevated
    <3> QED BY <3>3, <3>4, <3>5, <3>6, <3>7 DEF Explained
  <2> QED BY <2>1, <2>3, <2>4 DEF TiersExplained
<1>4. ASSUME NEW row \in AuditRow, Recorded(row), Registered(row) PROVE TiersExplained'
  <2>1. /\ row.target \in Accounts /\ row.action = "freelancer_registered"
        /\ AgentOf(row.target)' = Len(agents) + 1
        /\ \A u \in Accounts \ {row.target} : AgentOf(u)' = AgentOf(u)
        /\ \A i \in 1 .. Len(agents) : agents'[i] = agents[i]
        /\ agents'[Len(agents) + 1].tier = "basic"
    BY <1>0, <1>4 DEF Registered, AuditRow
  <2>2. ASSUME NEW u \in Accounts \ {row.target}, AgentOf(u)' # NoAgent
        PROVE  Explained(u, agents[AgentOf(u)].tier)'
    <3>1. AgentOf(u) \in 1 .. Len(agents) /\ AgentOf(u) # NoAgent
      BY <1>0, <2>1, <2>2 DEF NoAgent
    <3> QED BY <1>1, <2>1, <3>1
  <2>3. Explained(row.target, agents[AgentOf(row.target)].tier)'
    <3>1. /\ Len(audit) \in Nat /\ Len(audit') = Len(audit) + 1
          /\ audit'[Len(audit) + 1] = row
      BY <1>4, RecordedTrail
    <3>2. Len(audit) + 1 \in 1 .. Len(audit')
      BY <3>1
    <3>3. agents[AgentOf(row.target)].tier' = "basic"
      BY <2>1
    <3> QED BY <2>1, <3>1, <3>2, <3>3 DEF Explained
  <2> QED BY <2>2, <2>3 DEF TiersExplained, NoAgent
<1> QED BY <1>2, <1>3, <1>4, AgentSteps

AgentsInv == Owned /\ TiersExplained

LEMMA AgentsInvariant == UsersSpec => []AgentsInv
<1>1. UsersInit => AgentsInv
  <2> SUFFICES ASSUME UsersInit PROVE AgentsInv
    OBVIOUS
  <2>1. \A u \in Accounts : AgentOf(u) = NoAgent
    BY DEF UsersInit, AgentOf, HasProfile
  <2>2. Len(agents) = 0
    BY DEF UsersInit
  <2> QED BY <2>1, <2>2 DEF AgentsInv, Owned, TiersExplained, NoAgent
<1>2. UsersTypeOK /\ AgentsInv /\ [UsersNext]_usersVars => AgentsInv'
  BY OwnedStep, TiersStep DEF AgentsInv
<1> QED BY <1>1, <1>2, UsersTypeCorrect, PTL DEF UsersSpec

\* Every agent the sweep may pay belongs to exactly one profile, and no user leaves an agent
\* behind: registerFreelancer refuses whoever has one (users.ts 718-725).
THEOREM AgentsOwned == UsersSpec => []EveryAgentOwned
<1>1. UsersTypeOK /\ Owned => EveryAgentOwned
  BY DEF UsersTypeOK, Owned, EveryAgentOwned, NoAgent
<1>2. AgentsInv => Owned
  BY DEF AgentsInv
<1> QED BY <1>1, <1>2, AgentsInvariant, UsersTypeCorrect, PTL

\* In a country whose minimum tier is above basic a freelancer is only ever swept after an
\* elevation that was audited after he registered: no profile update, in whatever order,
\* reaches the tier of the agent.
THEOREM ElevationBeforePay == UsersSpec => []PayableNeedsElevation
<1>1. UsersTypeOK /\ TiersExplained => PayableNeedsElevation
  <2> SUFFICES ASSUME UsersTypeOK, TiersExplained, NEW u \in Accounts, AgentOf(u) # NoAgent,
                      MeetsKyc(agents[AgentOf(u)].tier, agents[AgentOf(u)].country),
                      ~MeetsKyc("basic", agents[AgentOf(u)].country)
               PROVE  \E i, j \in DOMAIN audit :
                        /\ i < j /\ audit[i].target = u /\ audit[j].target = u
                        /\ audit[i].action = "freelancer_registered"
                        /\ audit[j].action = "kyc_elevation" /\ audit[j].new = agents[AgentOf(u)].tier
    BY DEF PayableNeedsElevation
  <2>1. agents[AgentOf(u)].tier # "basic"
    OBVIOUS
  <2>2. Explained(u, agents[AgentOf(u)].tier) /\ DOMAIN audit = 1 .. Len(audit)
    BY DEF TiersExplained, UsersTypeOK
  <2> QED BY <2>1, <2>2 DEF Explained
<1>2. AgentsInv => TiersExplained
  BY DEF AgentsInv
<1> QED BY <1>1, <1>2, AgentsInvariant, UsersTypeCorrect, PTL
=============================================================================
