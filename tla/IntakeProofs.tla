---------------------------- MODULE IntakeProofs ----------------------------
(***************************************************************************)
(* What the two ways into the system keep of what they are sent, for any   *)
(* number of events, decisions, flights and failures: the webhook receiver *)
(* (module Receiver) and the ingest endpoint behind the pilot SDK (module  *)
(* PilotIngest).  The two share no variable.                               *)
(***************************************************************************)
EXTENDS PilotIngest, Receiver, FiniteSetTheorems, SequenceTheorems, TLAPS

-----------------------------------------------------------------------------
(* The receiver. *)

\* An id that is held as seen was marked when it was verified; one that is held no more
\* was verified longer than a lifetime ago, because only a sweep lets go of an id.
VerifiedOK(id) ==
  /\ verified[id] # Never => verified[id] \in 0..now
  /\ id \in DOMAIN seen => verified[id] # Never /\ seen[id] = verified[id]
  /\ verified[id] # Never /\ id \notin DOMAIN seen => verified[id] + Ttl < now
  /\ answer[id] = "duplicate" => verified[id] # Never

ReceiverInv ==
  /\ now \in Nat
  /\ verified \in [Ids -> Nat \cup {Never}]
  /\ DOMAIN answer = Ids
  /\ DOMAIN seen \subseteq Ids
  /\ \A id \in Ids : VerifiedOK(id)

LEMMA ReceiverInvInit == Init => ReceiverInv
  BY ReceiverAssumption DEF Init, ReceiverInv, VerifiedOK

\* Whatever ends the process forgets everything the invariant is about.
LEMMA DieKeeps ==
  ASSUME ReceiverInv, Die
  PROVE  ReceiverInv' /\ \A id \in Ids : verified'[id] = Never
  BY ReceiverAssumption DEF ReceiverInv, VerifiedOK, Die, Forget

LEMMA AcceptKeeps ==
  ASSUME ReceiverInv, NEW i \in Ids, NEW event, Accept(i, event)
  PROVE  /\ ReceiverInv'
         /\ \A id \in Ids : id # i => verified'[id] = verified[id]
         /\ verified'[i] = now
<1>1. /\ now \in Nat /\ now' = now
      /\ i \notin DOMAIN seen
      /\ answer' = [answer EXCEPT ![i] = "accepted"]
      /\ verified' = [verified EXCEPT ![i] = now]
      /\ seen' = [k \in DOMAIN seen \cup {i} |-> IF k = i THEN now ELSE seen[k]]
  BY DEF ReceiverInv, Accept, Mark
<1>2. /\ verified' \in [Ids -> Nat \cup {Never}]
      /\ DOMAIN answer' = Ids
      /\ DOMAIN seen' \subseteq Ids
  BY <1>1 DEF ReceiverInv
<1>3. ASSUME NEW id \in Ids PROVE VerifiedOK(id)'
  <2>1. CASE id = i
    BY <1>1, <2>1, ReceiverAssumption DEF ReceiverInv, VerifiedOK
  <2>2. CASE id # i
    BY <1>1, <2>2 DEF ReceiverInv, VerifiedOK
  <2> QED BY <2>1, <2>2
<1>4. verified'[i] = now /\ \A id \in Ids : id # i => verified'[id] = verified[id]
  BY <1>1 DEF ReceiverInv
<1> QED BY <1>1, <1>2, <1>3, <1>4 DEF ReceiverInv

\* A sweep lets go of an id only when it was marked more than a lifetime ago.
LEMMA PruneKeeps ==
  ASSUME ReceiverInv, Prune
  PROVE  ReceiverInv'
<1>1. /\ seen' = [id \in {i \in DOMAIN seen : ~Outdated(i)} |-> seen[id]]
      /\ UNCHANGED <<now, answer, verified>>
  BY DEF Prune
<1>2. ASSUME NEW id \in Ids PROVE VerifiedOK(id)'
  <2>1. CASE id \in DOMAIN seen /\ Outdated(id)
    BY <1>1, <2>1, ReceiverAssumption DEF ReceiverInv, VerifiedOK, Outdated
  <2>2. CASE ~(id \in DOMAIN seen /\ Outdated(id))
    BY <1>1, <2>2 DEF ReceiverInv, VerifiedOK
  <2> QED BY <2>1, <2>2
<1> QED BY <1>1, <1>2 DEF ReceiverInv

LEMMA DuplicateKeeps ==
  ASSUME ReceiverInv, NEW i \in Ids, Duplicate(i) \/ Refuse(i)
  PROVE  ReceiverInv' /\ verified' = verified
<1>1. /\ UNCHANGED <<now, verified, seen>>
      /\ \/ answer' = [answer EXCEPT ![i] = "refused"]
         \/ answer' = [answer EXCEPT ![i] = "duplicate"] /\ i \in DOMAIN seen
  BY DEF Duplicate, Refuse, Marks, Flaws
<1>2. ASSUME NEW id \in Ids PROVE VerifiedOK(id)'
  BY <1>1 DEF ReceiverInv, VerifiedOK
<1> QED BY <1>1, <1>2 DEF ReceiverInv

\* Every other step leaves the ids alone, and time only grows.
LEMMA OtherReceiverSteps ==
  ASSUME ReceiverInv, UNCHANGED <<seen, answer, verified>>, now' = now \/ now' = now + 1
  PROVE  ReceiverInv'
<1>1. ASSUME NEW id \in Ids PROVE VerifiedOK(id)'
  BY ReceiverAssumption DEF ReceiverInv, VerifiedOK
<1> QED BY <1>1 DEF ReceiverInv

LEMMA ReceiverStep ==
  ASSUME ReceiverInv, [Next]_vars
  PROVE  /\ ReceiverInv'
         /\ \A id \in Ids :
              verified[id] # Never /\ verified'[id] \notin {Never, verified[id]}
                => verified'[id] - verified[id] > Ttl
<1>1. CASE \E id \in Ids : Refuse(id) \/ Duplicate(id)
  BY <1>1, DuplicateKeeps
<1>2. CASE \E id \in Ids, event \in Payloads : Accept(id, event)
  <2>1. PICK i \in Ids, event \in Payloads : Accept(i, event)
    BY <1>2
  <2>2. i \notin DOMAIN seen /\ now \in Nat
    BY <2>1 DEF Accept, ReceiverInv
  <2>3. verified[i] # Never => verified[i] \in Nat /\ verified[i] + Ttl < now
    BY <2>2 DEF ReceiverInv, VerifiedOK
  <2> QED BY <2>1, <2>2, <2>3, AcceptKeeps, ReceiverAssumption
<1>3. CASE (\E id \in Ids, event \in Payloads : AcceptAndDie(id, event)) \/ Crash
  BY <1>3, DieKeeps DEF AcceptAndDie, Crash
<1>4. CASE Prune
  BY <1>4, PruneKeeps DEF Prune
<1>5. CASE \/ \E id \in Ids : CallbackSettles(id)
           \/ TimePasses
           \/ \E f \in DOMAIN files : PolicyChange(f)
           \/ PolicyStep
           \/ Boot
           \/ UNCHANGED vars
  <2>1. UNCHANGED <<seen, answer, verified>> /\ (now' = now \/ now' = now + 1)
    BY <1>5 DEF CallbackSettles, TimePasses, PolicyChange, PolicyStep, Boot, vars, receiverVars
  <2> QED BY <2>1, OtherReceiverSteps
<1> QED BY <1>1, <1>2, <1>3, <1>4, <1>5 DEF Next

THEOREM ReceiverInvariant == Spec => []ReceiverInv
<1>1. ReceiverInv /\ [Next]_vars => ReceiverInv'
  BY ReceiverStep
<1> QED BY <1>1, ReceiverInvInit, PTL DEF Spec

\* No id is answered as a duplicate that this process did not hand to verify: refused
\* requests mark nothing, and a sweep forgets the mark before the verification.
THEOREM DuplicatesVerified == Spec => []DuplicatesWereVerified
<1>1. ReceiverInv => DuplicatesWereVerified
  BY DEF ReceiverInv, VerifiedOK, DuplicatesWereVerified
<1> QED BY <1>1, ReceiverInvariant, PTL

\* Two verifications of one id by one process are more than a lifetime apart, however the
\* sweeps fall.
THEOREM VerificationsApart == Spec => VerifiedApart
<1>1. ReceiverInv /\ [Next]_vars =>
        [\A id \in Ids : (verified[id] # Never /\ verified'[id] \notin {Never, verified[id]})
                           => verified'[id] - verified[id] > Ttl]_vars
  BY ReceiverStep
<1> QED BY <1>1, ReceiverInvariant, PTL DEF Spec, VerifiedApart

\* The policies in force are those on disk once a watcher has noticed anything and no
\* reload is due.
THEOREM PoliciesFollowFiles == Spec => []StoreFollowsFiles
<1>1. Init => StoreFollowsFiles
  BY DEF Init, StoreFollowsFiles
<1>2. StoreFollowsFiles /\ [Next]_vars => StoreFollowsFiles'
  <2> SUFFICES ASSUME StoreFollowsFiles, [Next]_vars PROVE StoreFollowsFiles'
    OBVIOUS
  <2>1. CASE UNCHANGED policyVars
    BY <2>1 DEF policyVars, StoreFollowsFiles
  <2>2. CASE \E f \in DOMAIN files : PolicyChange(f)
    BY <2>2 DEF PolicyChange, FileChanges, Noticed, StoreFollowsFiles
  <2>3. CASE PolicyStep
    BY <2>3 DEF PolicyStep, Reload, Watch, StopWatch, StoreFollowsFiles
  <2>4. CASE Die \/ Boot
    BY <2>4 DEF Die, Boot, Create, StoreFollowsFiles
  <2> QED
    BY <2>1, <2>2, <2>3, <2>4 DEF Next, vars, Refuse, Duplicate, Accept, AcceptAndDie,
       CallbackSettles, Prune, TimePasses, Crash
<1> QED BY <1>1, <1>2, PTL DEF Spec
-----------------------------------------------------------------------------
(* The access metrics of the two planes. *)

MetricRows ==
  [user : Users \cup {Nobody}, granted : BOOLEAN, crossing : BOOLEAN, violation : BOOLEAN,
   elevation : BOOLEAN, recent : BOOLEAN, count : Nat]

Verdicts == [granted : BOOLEAN, crossing : BOOLEAN, violation : BOOLEAN, elevation : BOOLEAN]

LEMMA VerdictType ==
  ASSUME NEW p, NEW r, NEW tenant, NEW method
  PROVE  Verdict(p, r, tenant, method) \in Verdicts
<1>1. \A c, v, e \in BOOLEAN : Denial(c, v, e) \in Verdicts
  BY DEF Denial, Verdicts
<1>2. Grant \in Verdicts
  BY DEF Grant, Verdicts
<1>3. Elevates(p, r) \in BOOLEAN
  BY DEF Elevates
<1> QED BY <1>1, <1>2, <1>3 DEF Verdict

LEMMA DeniedFinite ==
  ASSUME metrics \in Seq(MetricRows), NEW S, S \subseteq DOMAIN metrics
  PROVE  IsFiniteSet(S) /\ Cardinality(S) \in Nat
<1>1. DOMAIN metrics = 1..Len(metrics) /\ Len(metrics) \in Nat
  OBVIOUS
<1>2. IsFiniteSet(1..Len(metrics))
  BY <1>1, FS_Interval
<1> QED BY <1>1, <1>2, FS_Subset, FS_CardinalityType

CountsOK(i) ==
  LET u == metrics[i].user
      upTo == {k \in DeniedRows(u) : k <= i}
  IN  u # Nobody /\ ~metrics[i].granted =>
        /\ metrics[i].count \in 1..Cardinality(upTo)
        /\ (\A k \in upTo : metrics[k].recent) => metrics[i].count = Cardinality(upTo)

PlaneInv == metrics \in Seq(MetricRows) /\ \A i \in DOMAIN metrics : CountsOK(i)

\* The row a judgement adds counts the user's recent denials before it, and itself.
LEMMA JudgedKeeps ==
  ASSUME PlaneInv, NEW u \in Users \cup {Nobody}, NEW v \in Verdicts, Judged(u, v)
  PROVE  PlaneInv'
<1> DEFINE n == Len(metrics)
           row == Metric(u, v)
           recent == {k \in DeniedRows(u) : metrics[k].recent}
<1>1. n \in Nat /\ DOMAIN metrics = 1..n /\ metrics' = Append(metrics, row)
  BY DEF PlaneInv, Judged
<1>2. DeniedRows(u) \subseteq DOMAIN metrics /\ recent \subseteq DeniedRows(u)
  BY DEF DeniedRows
<1>3. /\ IsFiniteSet(DeniedRows(u)) /\ Cardinality(DeniedRows(u)) \in Nat
      /\ IsFiniteSet(recent) /\ Cardinality(recent) \in Nat
      /\ Cardinality(recent) <= Cardinality(DeniedRows(u))
  BY <1>2, DeniedFinite, FS_Subset DEF PlaneInv
<1>4. row \in MetricRows
  BY <1>3 DEF Metric, MetricRows, Verdicts, DenialCount
<1>5. /\ metrics' \in Seq(MetricRows) /\ DOMAIN metrics' = 1..(n + 1)
      /\ metrics'[n + 1] = row /\ \A k \in 1..n : metrics'[k] = metrics[k]
  BY <1>1, <1>4 DEF PlaneInv
<1>6. ASSUME NEW i \in 1..n PROVE CountsOK(i)'
  <2>1. metrics'[i] = metrics[i] /\ i \in DOMAIN metrics
    BY <1>1, <1>5
  <2> DEFINE w == metrics[i].user
  <2>2. {k \in DeniedRows(w)' : k <= i} = {k \in DeniedRows(w) : k <= i}
    BY <1>1, <1>5 DEF DeniedRows
  <2>3. \A k \in {k \in DeniedRows(w) : k <= i} : metrics'[k] = metrics[k]
    BY <1>1, <1>5 DEF DeniedRows
  <2>4. CountsOK(i)
    BY <2>1 DEF PlaneInv
  <2> QED BY <2>1, <2>2, <2>3, <2>4 DEF CountsOK
<1>7. ASSUME NEW i, i = n + 1 PROVE CountsOK(i)'
  <2>0. row.user = u /\ row.granted = v.granted
    BY DEF Metric
  <2>a. CASE u = Nobody \/ v.granted
    BY <1>5, <1>7, <2>0, <2>a DEF CountsOK
  <2> SUFFICES ASSUME u # Nobody, ~v.granted
               PROVE  CountsOK(i)'
    BY <2>a
  <2>1. row.user = u /\ ~row.granted /\ row.recent /\ row.count = Cardinality(recent) + 1
    BY DEF Metric, DenialCount
  <2>2. {k \in DeniedRows(u)' : k <= n + 1} = DeniedRows(u) \cup {n + 1}
    BY <1>1, <1>5, <2>1 DEF DeniedRows
  <2>3. n + 1 \notin DeniedRows(u)
    BY <1>1 DEF DeniedRows
  <2>4. Cardinality(DeniedRows(u) \cup {n + 1}) = Cardinality(DeniedRows(u)) + 1
    BY <1>3, <2>3, FS_AddElement
  <2>5. row.count \in 1..Cardinality(DeniedRows(u) \cup {n + 1})
    BY <1>3, <2>1, <2>4
  <2>6. ASSUME \A k \in DeniedRows(u) \cup {n + 1} : metrics'[k].recent
        PROVE  row.count = Cardinality(DeniedRows(u) \cup {n + 1})
    <3>1. recent = DeniedRows(u)
      BY <1>1, <1>2, <1>5, <2>6
    <3> QED BY <2>1, <2>4, <3>1
  <2> HIDE DEF row
  <2>7. metrics'[n + 1].user = u /\ metrics'[n + 1].count = row.count
    BY <1>5, <2>1
  <2> QED BY <1>7, <2>2, <2>5, <2>6, <2>7 DEF CountsOK
<1>8. \A i \in DOMAIN metrics' : i \in 1..n \/ i = n + 1
  BY <1>1, <1>5
<1> QED BY <1>5, <1>6, <1>7, <1>8 DEF PlaneInv

LEMMA AgedRow ==
  ASSUME NEW r \in MetricRows
  PROVE  LET aged == [r EXCEPT !.recent = FALSE]
         IN  /\ aged \in MetricRows
             /\ aged.user = r.user /\ aged.granted = r.granted /\ aged.count = r.count
             /\ ~aged.recent
  BY DEF MetricRows

\* The hour that passes takes a row out of the count of later rows only.
LEMMA HourKeeps ==
  ASSUME PlaneInv, HourPasses
  PROVE  PlaneInv'
<1>1. PICK j \in DOMAIN metrics : metrics' = [metrics EXCEPT ![j].recent = FALSE]
  BY DEF HourPasses
<1> DEFINE aged == [metrics[j] EXCEPT !.recent = FALSE]
<1>a. metrics[j] \in MetricRows
  BY DEF PlaneInv
<1>b. /\ aged \in MetricRows
      /\ aged.user = metrics[j].user /\ aged.granted = metrics[j].granted
      /\ aged.count = metrics[j].count /\ ~aged.recent
  BY <1>a, AgedRow
<1>c. metrics' = [metrics EXCEPT ![j] = aged]
  BY <1>1
<1> HIDE DEF aged
<1>2. metrics' \in Seq(MetricRows) /\ DOMAIN metrics' = DOMAIN metrics
  BY <1>b, <1>c DEF PlaneInv
<1>3. \A k \in DOMAIN metrics :
        /\ metrics'[k].user = metrics[k].user /\ metrics'[k].granted = metrics[k].granted
        /\ metrics'[k].count = metrics[k].count
        /\ metrics'[k].recent => metrics[k].recent
  BY <1>b, <1>c DEF PlaneInv
<1>4. \A w : DeniedRows(w)' = DeniedRows(w)
  BY <1>2, <1>3 DEF DeniedRows
<1>5. ASSUME NEW i \in DOMAIN metrics PROVE CountsOK(i)'
  <2>1. CountsOK(i)
    BY DEF PlaneInv
  <2>2. \A k \in DeniedRows(metrics[i].user) : k \in DOMAIN metrics
    BY DEF DeniedRows
  <2> QED BY <1>3, <1>4, <2>1, <2>2 DEF CountsOK
<1> QED BY <1>2, <1>5 DEF PlaneInv

LEMMA PlaneStep ==
  ASSUME PlaneInv, [PilotNext]_pilotVars
  PROVE  PlaneInv'
<1>1. CASE UNCHANGED planeVars
  BY <1>1 DEF PlaneInv, CountsOK, DeniedRows, planeVars
<1>2. CASE \E u \in Users : \E v \in Verdicts : Judged(u, v)
  BY <1>2, JudgedKeeps
<1>3. CASE HourPasses
  BY <1>3, HourKeeps
<1>4. CASE UnauthenticatedRequest
  <2>1. Denial(FALSE, FALSE, FALSE) \in Verdicts
    BY DEF Denial, Verdicts
  <2> QED BY <1>4, <2>1, JudgedKeeps DEF UnauthenticatedRequest
<1>5. ASSUME NEW u \in Users, NEW t, AccountRefused(u) \/ RotateApiKey(u) \/ ChangeTier(u, t)
      PROVE  \E v \in Verdicts : Judged(u, v)
  <2>1. \A method : Guarded(u, method) \in Verdicts
    BY VerdictType DEF Guarded
  <2> QED BY <1>5, <2>1 DEF AccountRefused, RotateApiKey, ChangeTier, Admitted
<1> QED
  BY <1>1, <1>2, <1>3, <1>4, <1>5
  DEF PilotNext, pilotVars, account, OtherRequest, Record, FlushCalled, FlushContinues, TimerFlush,
      Resolves, Rejects, Fails, Arrives, Throttled, ArrivesLate

\* The count of every denial is that user's, and complete while the user's denials are
\* all within the hour.
THEOREM CountsFollow == PilotSpec => []CountsFollowDenials
<1>1. PilotInit => PlaneInv
  BY DEF PilotInit, PlaneInv
<1>2. PlaneInv /\ [PilotNext]_pilotVars => PlaneInv'
  BY PlaneStep
<1>3. PlaneInv => CountsFollowDenials
  BY DEF PlaneInv, CountsOK, CountsFollowDenials
<1> QED BY <1>1, <1>2, <1>3, PTL DEF PilotSpec
-----------------------------------------------------------------------------
(* Sequences in which nothing comes twice. *)

LEMMA Parted ==
  ASSUME NEW D, NEW q \in Seq(D), NEW n \in 0..Len(q)
  PROVE  LET a == SubSeq(q, 1, n)
             b == SubSeq(q, n + 1, Len(q))
         IN  /\ a \in Seq(D) /\ b \in Seq(D)
             /\ In(q) = In(a) \cup In(b)
             /\ IsInjective(q) => IsInjective(a) /\ IsInjective(b) /\ In(a) \cap In(b) = {}
<1> DEFINE a == SubSeq(q, 1, n)
           b == SubSeq(q, n + 1, Len(q))
<1>1. Len(q) \in Nat /\ n \in Nat /\ n <= Len(q) /\ DOMAIN q = 1..Len(q)
  OBVIOUS
<1>2. /\ a \in Seq(D) /\ DOMAIN a = 1..n
      /\ \A i \in 1..n : a[i] = q[i]
  <2>1. \A i \in 1..n : q[i] \in D
    BY <1>1
  <2>2. a \in Seq(D) /\ Len(a) = n /\ \A i \in 1..n : a[i] = q[i]
    BY <1>1, <2>1, SubSeqProperties
  <2> QED BY <2>2
<1>3. /\ b \in Seq(D) /\ DOMAIN b = 1..(Len(q) - n)
      /\ \A i \in 1..(Len(q) - n) : b[i] = q[n + i]
  <2>1. \A i \in (n + 1)..Len(q) : q[i] \in D
    BY <1>1
  <2>2. /\ b \in Seq(D)
        /\ Len(b) = IF n + 1 <= Len(q) THEN Len(q) - (n + 1) + 1 ELSE 0
        /\ \A i \in 1..(Len(q) - (n + 1) + 1) : b[i] = q[n + 1 + i - 1]
    BY <1>1, <2>1, SubSeqProperties
  <2> QED BY <1>1, <2>2
<1> HIDE DEF a, b
<1>4. In(q) = In(a) \cup In(b)
  <2>1. ASSUME NEW i \in DOMAIN q PROVE q[i] \in In(a) \cup In(b)
    <3>1. CASE i <= n
      BY <1>1, <1>2, <3>1 DEF In
    <3>2. CASE ~(i <= n)
      <4>1. i - n \in DOMAIN b /\ b[i - n] = q[i]
        BY <1>1, <1>3, <3>2
      <4> QED BY <4>1 DEF In
    <3> QED BY <3>1, <3>2
  <2>2. \A i \in DOMAIN a : a[i] \in In(q)
    BY <1>1, <1>2 DEF In
  <2>3. ASSUME NEW i \in DOMAIN b PROVE b[i] \in In(q)
    <3>1. n + i \in DOMAIN q /\ b[i] = q[n + i]
      BY <1>1, <1>3
    <3> QED BY <3>1 DEF In
  <2> QED BY <2>1, <2>2, <2>3 DEF In
<1>5. ASSUME IsInjective(q)
      PROVE  IsInjective(a) /\ IsInjective(b) /\ In(a) \cap In(b) = {}
  <2>1. IsInjective(a)
    BY <1>1, <1>2, <1>5 DEF IsInjective
  <2>2. ASSUME NEW i \in DOMAIN b, NEW j \in DOMAIN b, b[i] = b[j]
        PROVE  i = j
    <3>1. n + i \in DOMAIN q /\ n + j \in DOMAIN q /\ q[n + i] = q[n + j]
      BY <1>1, <1>3, <2>2
    <3>2. n + i = n + j
      BY <1>5, <3>1 DEF IsInjective
    <3> QED BY <1>1, <1>3, <3>2
  <2>3. ASSUME NEW i \in DOMAIN a, NEW j \in DOMAIN b, a[i] = b[j]
        PROVE  FALSE
    <3>1. i \in DOMAIN q /\ n + j \in DOMAIN q /\ q[i] = q[n + j] /\ i # n + j
      BY <1>1, <1>2, <1>3, <2>3
    <3> QED BY <1>5, <3>1 DEF IsInjective
  <2> QED BY <2>1, <2>2, <2>3 DEF IsInjective, In
<1> QED BY <1>2, <1>3, <1>4, <1>5 DEF a, b

LEMMA Joined ==
  ASSUME NEW D, NEW s \in Seq(D), NEW t \in Seq(D)
  PROVE  /\ s \o t \in Seq(D)
         /\ In(s \o t) = In(s) \cup In(t)
         /\ IsInjective(s) /\ IsInjective(t) /\ In(s) \cap In(t) = {} => IsInjective(s \o t)
<1> DEFINE j == s \o t
<1>1. /\ Len(s) \in Nat /\ Len(t) \in Nat /\ DOMAIN s = 1..Len(s) /\ DOMAIN t = 1..Len(t)
      /\ j \in Seq(D) /\ Len(j) = Len(s) + Len(t) /\ DOMAIN j = 1..(Len(s) + Len(t))
      /\ \A i \in 1..(Len(s) + Len(t)) : j[i] = IF i <= Len(s) THEN s[i] ELSE t[i - Len(s)]
  BY ConcatProperties
<1> HIDE DEF j
<1>2. \A i \in DOMAIN j : (i \in DOMAIN s /\ j[i] = s[i])
                            \/ (i > Len(s) /\ i - Len(s) \in DOMAIN t /\ j[i] = t[i - Len(s)])
  BY <1>1
<1>3. \A i \in DOMAIN s : i \in DOMAIN j /\ j[i] = s[i]
  BY <1>1
<1>4. \A i \in DOMAIN t : i + Len(s) \in DOMAIN j /\ j[i + Len(s)] = t[i]
  BY <1>1
<1>5. In(j) = In(s) \cup In(t)
  BY <1>2, <1>3, <1>4 DEF In
<1>6. ASSUME IsInjective(s), IsInjective(t), In(s) \cap In(t) = {},
             NEW i \in DOMAIN j, NEW k \in DOMAIN j, j[i] = j[k]
      PROVE  i = k
  <2>1. CASE i \in DOMAIN s /\ j[i] = s[i] /\ k \in DOMAIN s /\ j[k] = s[k]
    BY <1>6, <2>1 DEF IsInjective
  <2>2. CASE /\ i - Len(s) \in DOMAIN t /\ j[i] = t[i - Len(s)]
             /\ k - Len(s) \in DOMAIN t /\ j[k] = t[k - Len(s)]
    <3>1. i - Len(s) = k - Len(s)
      BY <1>6, <2>2 DEF IsInjective
    <3> QED BY <1>1, <3>1
  <2> QED BY <1>2, <1>6, <2>1, <2>2 DEF In
<1> QED BY <1>1, <1>5, <1>6 DEF j, IsInjective

LEMMA Appended ==
  ASSUME NEW D, NEW q \in Seq(D), NEW e \in D
  PROVE  /\ Append(q, e) \in Seq(D)
         /\ In(Append(q, e)) = In(q) \cup {e}
         /\ IsInjective(q) /\ e \notin In(q) => IsInjective(Append(q, e))
<1> DEFINE r == Append(q, e)
<1>1. /\ r \in Seq(D) /\ DOMAIN r = 1..(Len(q) + 1) /\ DOMAIN q = 1..Len(q) /\ Len(q) \in Nat
      /\ r[Len(q) + 1] = e /\ \A i \in 1..Len(q) : r[i] = q[i]
  OBVIOUS
<1> HIDE DEF r
<1>2. In(r) = In(q) \cup {e}
  <2>1. \A i \in DOMAIN r : i \in DOMAIN q \/ i = Len(q) + 1
    BY <1>1
  <2> QED BY <1>1, <2>1 DEF In
<1>3. IsInjective(q) /\ e \notin In(q) => IsInjective(r)
  BY <1>1 DEF IsInjective, In
<1> QED BY <1>1, <1>2, <1>3 DEF r

\* Dropping the oldest parts the queue in two.
LEMMA KeptParts ==
  ASSUME NEW D, NEW q \in Seq(D)
  PROVE  /\ Kept(q) \in Seq(D)
         /\ In(q) = In(Kept(q)) \cup DroppedOf(q)
         /\ IsInjective(q) => IsInjective(Kept(q))
<1>1. CASE Len(q) > MaxQueueSize
  <2>1. Len(q) - MaxQueueSize \in 0..Len(q)
    BY <1>1, PilotAssumption
  <2> QED BY <1>1, <2>1, Parted DEF Kept, DroppedOf
<1>2. CASE ~(Len(q) > MaxQueueSize)
  BY <1>2 DEF Kept, DroppedOf
<1> QED BY <1>1, <1>2

\* A sequence without repetitions holds an element once or not at all.
LEMMA OccursOnce ==
  ASSUME NEW D, NEW q \in Seq(D), IsInjective(q), NEW d
  PROVE  Cardinality({i \in DOMAIN q : q[i] = d}) = IF d \in In(q) THEN 1 ELSE 0
<1>1. CASE d \in In(q)
  <2>1. PICK i \in DOMAIN q : q[i] = d
    BY <1>1 DEF In
  <2>2. {k \in DOMAIN q : q[k] = d} = {i}
    BY <2>1 DEF IsInjective
  <2> QED BY <1>1, <2>2, FS_Singleton
<1>2. CASE d \notin In(q)
  <2>1. {k \in DOMAIN q : q[k] = d} = {}
    BY <1>2 DEF In
  <2> QED BY <1>2, <2>1, FS_EmptySet
<1> QED BY <1>1, <1>2
-----------------------------------------------------------------------------
(* The SDK and the endpoint.  The SDK holds every decision at most once, in its queue or *)
(* in one flight, whichever flushes failed; only the network may hold it again, once for *)
(* every failure after which a request was still under way.                              *)

Batch(s) == flights[s].batch
Unstored(d) == d \in In(queue) \/ \E s \in Slots : flights[s].stage # "accepted" /\ d \in In(Batch(s))
LateWith(d) == {m \in late : d \in In(m[2])}
Waits(d) == IF Unstored(d) THEN 1 ELSE 0

FlightRows == [batch : Seq(Decisions), stage : {"free", "sent", "accepted", "refused"}]

SdkTypeOK ==
  /\ recorded \in 0..MaxDecisions
  /\ queue \in Seq(Decisions)
  /\ flights \in [Slots -> FlightRows]
  /\ late \subseteq Nat \X Seq(Decisions) /\ IsFiniteSet(late)
  /\ failures \in Nat
  /\ rows \in [Decisions -> Nat]

HeldOnce ==
  /\ IsInjective(queue)
  /\ \A s \in Slots :
       /\ IsInjective(Batch(s)) /\ In(Batch(s)) \cap In(queue) = {}
       /\ flights[s].stage = "free" => Batch(s) = <<>>
       /\ \A other \in Slots : other # s => In(Batch(s)) \cap In(Batch(other)) = {}
  /\ \A m \in late : IsInjective(m[2])

OnlyRecorded ==
  /\ In(queue) \subseteq 1..recorded
  /\ \A s \in Slots : In(Batch(s)) \subseteq 1..recorded
  /\ \A m \in late : In(m[2]) \subseteq 1..recorded
  /\ \A d \in Decisions : d > recorded => rows[d] = 0

CountOK(d) == rows[d] + Cardinality(LateWith(d)) + Waits(d) <= failures + 1

KeptOK(d) ==
  /\ \A s \in Slots : flights[s].stage = "accepted" /\ d \in In(Batch(s)) => rows[d] > 0
  /\ d <= recorded => \/ d \in In(queue) \/ \E s \in Slots : d \in In(Batch(s))
                      \/ d \in dropped \/ rows[d] > 0

SdkInv ==
  /\ SdkTypeOK /\ HeldOnce /\ OnlyRecorded
  /\ \A d \in Decisions : CountOK(d) /\ KeptOK(d)

LEMMA InEmpty == In(<<>>) = {} /\ IsInjective(<<>>)
  BY DEF In, IsInjective

LEMMA LateFinite ==
  ASSUME IsFiniteSet(late), NEW d
  PROVE  IsFiniteSet(LateWith(d)) /\ Cardinality(LateWith(d)) \in Nat
<1>1. LateWith(d) \subseteq late
  BY DEF LateWith
<1> QED BY <1>1, FS_Subset, FS_CardinalityType

LEMMA SdkInvInit == PilotInit => SdkInv
<1> SUFFICES ASSUME PilotInit PROVE SdkInv
  OBVIOUS
<1> USE InEmpty DEF PilotInit
<1>1. \A s \in Slots : flights[s] = Free /\ Batch(s) = <<>>
  BY DEF Batch, Free
<1>2. SdkTypeOK
  BY FS_EmptySet, PilotAssumption DEF SdkTypeOK, Free, FlightRows
<1>3. HeldOnce
  BY <1>1 DEF HeldOnce
<1>4. OnlyRecorded
  BY <1>1 DEF OnlyRecorded
<1>5. ASSUME NEW d \in Decisions PROVE CountOK(d) /\ KeptOK(d)
  <2>1. LateWith(d) = {} /\ ~Unstored(d) /\ rows[d] = 0
    BY <1>1 DEF LateWith, Unstored
  <2>2. CountOK(d)
    BY <2>1, FS_EmptySet DEF CountOK, Waits
  <2>3. KeptOK(d)
    BY <1>1 DEF KeptOK, Free, Decisions
  <2> QED BY <2>2, <2>3
<1> QED BY <1>2, <1>3, <1>4, <1>5 DEF SdkInv

\* What the decisions see of a step in which only places change: nothing is stored, and
\* nothing that was stored or held is let go of.
LEMMA PlacesMove ==
  ASSUME SdkInv, SdkTypeOK', HeldOnce', OnlyRecorded',
         UNCHANGED <<rows, late>>, failures' \in {failures, failures + 1},
         dropped \subseteq dropped', recorded' \in {recorded, recorded + 1},
         recorded' # recorded => recorded' \in In(queue)' \cup dropped',
         \A s \in Slots : /\ flights'[s].stage = "accepted" => flights[s].stage = "accepted"
                          /\ flights'[s].stage = "accepted" => In(Batch(s))' = In(Batch(s)),
         \A d \in Decisions :
           /\ Unstored(d)' => Unstored(d) \/ failures' = failures + 1 \/ d > recorded
           /\ d \in In(queue) \/ (\E s \in Slots : d \in In(Batch(s)))
                => \/ d \in In(queue)' \/ (\E s \in Slots : d \in In(Batch(s))')
                   \/ d \in dropped' \/ rows[d] > 0
  PROVE  SdkInv'
<1>1. ASSUME NEW d \in Decisions PROVE CountOK(d)'
  <2>1. LateWith(d)' = LateWith(d) /\ Cardinality(LateWith(d)) \in Nat
    BY LateFinite DEF SdkInv, SdkTypeOK, LateWith
  <2>2. rows[d] \in Nat /\ failures \in Nat /\ CountOK(d) /\ rows'[d] = rows[d]
    BY DEF SdkInv, SdkTypeOK
  <2>3. CASE Unstored(d)' => Unstored(d) \/ failures' = failures + 1
    BY <2>1, <2>2, <2>3 DEF CountOK, Waits
  <2>4. CASE d > recorded
    <3>1. d \notin 1..recorded
      BY <2>4 DEF SdkInv, SdkTypeOK
    <3>2. LateWith(d) = {} /\ rows[d] = 0
      BY <2>4, <3>1 DEF SdkInv, OnlyRecorded, LateWith
    <3> QED BY <2>1, <2>2, <3>2, FS_EmptySet DEF CountOK, Waits
  <2> QED BY <2>3, <2>4
<1>2. ASSUME NEW d \in Decisions PROVE KeptOK(d)'
  <2>1. rows'[d] = rows[d] /\ rows[d] \in Nat /\ recorded \in Nat /\ d \in Nat /\ KeptOK(d)
    BY DEF SdkInv, SdkTypeOK, Decisions
  <2>2. \A s \in Slots : flights'[s].stage = "accepted" /\ d \in In(Batch(s))' => rows'[d] > 0
    BY <2>1 DEF KeptOK
  <2>3. CASE d <= recorded
    BY <2>1, <2>2, <2>3 DEF KeptOK
  <2>4. CASE ~(d <= recorded)
    <3>1. d <= recorded' => d = recorded' /\ recorded' # recorded
      BY <2>1, <2>4
    <3> QED BY <2>2, <3>1 DEF KeptOK
  <2> QED BY <2>3, <2>4
<1> QED BY <1>1, <1>2 DEF SdkInv

LEMMA RecordKeeps ==
  ASSUME SdkInv, Record
  PROVE  SdkInv'
<1> DEFINE q == Append(queue, recorded + 1)
<1>1. /\ recorded \in Nat /\ recorded + 1 \in Decisions /\ recorded' = recorded + 1
      /\ queue' = Kept(q) /\ dropped' = dropped \cup DroppedOf(q)
      /\ UNCHANGED <<flights, late, failures, rows>>
  BY PilotAssumption DEF SdkInv, SdkTypeOK, Record, Requeue, Decisions
<1>2. recorded + 1 \notin In(queue) /\ \A s \in Slots : recorded + 1 \notin In(Batch(s))
  BY <1>1 DEF SdkInv, OnlyRecorded
<1>3. q \in Seq(Decisions) /\ In(q) = In(queue) \cup {recorded + 1} /\ IsInjective(q)
  BY <1>1, <1>2, Appended DEF SdkInv, SdkTypeOK, HeldOnce
<1> HIDE DEF q
<1>4. /\ queue' \in Seq(Decisions) /\ IsInjective(queue')
      /\ In(queue) \cup {recorded + 1} = In(queue)' \cup DroppedOf(q)
  BY <1>1, <1>3, KeptParts
<1>5. \A s \in Slots : Batch(s)' = Batch(s)
  BY <1>1 DEF Batch
<1>6. SdkTypeOK'
  BY <1>1, <1>4 DEF SdkInv, SdkTypeOK, Decisions
<1>7. HeldOnce'
  BY <1>1, <1>2, <1>4, <1>5 DEF SdkInv, HeldOnce
<1>a. 1..recorded \subseteq 1..recorded' /\ recorded + 1 \in 1..recorded'
  BY <1>1
<1>b. \A d \in Decisions : d > recorded' => d > recorded
  BY <1>1 DEF Decisions
<1>8. OnlyRecorded'
  BY <1>1, <1>4, <1>5, <1>a, <1>b DEF SdkInv, OnlyRecorded
<1>9. \A d \in Decisions : Unstored(d)' => Unstored(d) \/ d > recorded
  BY <1>1, <1>4, <1>5 DEF Unstored
<1> QED BY <1>1, <1>4, <1>5, <1>6, <1>7, <1>8, <1>9, PlacesMove

LEMMA SentKeeps ==
  ASSUME SdkInv, NEW s \in Slots, Sent(s), UNCHANGED <<recorded, late, dropped, failures, rows>>
  PROVE  SdkInv'
<1> DEFINE n == IF Len(queue) < BatchSize THEN Len(queue) ELSE BatchSize
           a == SubSeq(queue, 1, n)
           b == SubSeq(queue, n + 1, Len(queue))
<1>1. n \in 0..Len(queue)
  BY PilotAssumption DEF SdkInv, SdkTypeOK
<1>2. /\ a \in Seq(Decisions) /\ b \in Seq(Decisions) /\ In(queue) = In(a) \cup In(b)
      /\ IsInjective(a) /\ IsInjective(b) /\ In(a) \cap In(b) = {}
  BY <1>1, Parted DEF SdkInv, SdkTypeOK, HeldOnce
<1>3. /\ flights' = [flights EXCEPT ![s] = [batch |-> a, stage |-> "sent"]] /\ queue' = b
      /\ flights[s].stage = "free" /\ Batch(s) = <<>>
  BY DEF Sent, SdkInv, HeldOnce
<1> HIDE DEF a, b, n
<1>4. /\ Batch(s)' = a /\ flights'[s].stage = "sent"
      /\ \A t \in Slots \ {s} : flights'[t] = flights[t] /\ Batch(t)' = Batch(t)
  BY <1>3 DEF SdkInv, SdkTypeOK, Batch
<1>5. SdkTypeOK'
  BY <1>2, <1>3 DEF SdkInv, SdkTypeOK, FlightRows
<1>6. HeldOnce'
  BY <1>2, <1>3, <1>4 DEF SdkInv, HeldOnce
<1>7. OnlyRecorded'
  BY <1>2, <1>3, <1>4 DEF SdkInv, OnlyRecorded
<1>8. \A d : Unstored(d)' => Unstored(d)
  BY <1>2, <1>3, <1>4 DEF Unstored
<1>9. \A d : d \in In(queue) \/ (\E t \in Slots : d \in In(Batch(t)))
               => d \in In(queue)' \/ (\E t \in Slots : d \in In(Batch(t))')
  BY <1>2, <1>3, <1>4, InEmpty
<1> QED BY <1>4, <1>5, <1>6, <1>7, <1>8, <1>9, PlacesMove

\* An answered flight ends; its decisions are stored.
LEMMA ResolvesKeeps ==
  ASSUME SdkInv, NEW s \in Slots, Resolves(s)
  PROVE  SdkInv'
<1>1. /\ flights' = [flights EXCEPT ![s] = Free] /\ flights[s].stage = "accepted"
      /\ UNCHANGED <<recorded, queue, late, dropped, failures, rows>>
  BY DEF Resolves
<1>2. /\ Batch(s)' = <<>> /\ flights'[s].stage = "free"
      /\ \A t \in Slots \ {s} : flights'[t] = flights[t] /\ Batch(t)' = Batch(t)
  BY <1>1 DEF SdkInv, SdkTypeOK, Batch, Free
<1>3. SdkTypeOK'
  BY <1>1 DEF SdkInv, SdkTypeOK, FlightRows, Free
<1>4. HeldOnce'
  BY <1>1, <1>2, InEmpty DEF SdkInv, HeldOnce
<1>5. OnlyRecorded'
  BY <1>1, <1>2, InEmpty DEF SdkInv, OnlyRecorded
<1>6. \A d : Unstored(d)' => Unstored(d)
  BY <1>1, <1>2, InEmpty DEF Unstored
<1>7. \A d \in Decisions : d \in In(Batch(s)) => rows[d] > 0
  BY <1>1 DEF SdkInv, KeptOK
<1> QED BY <1>1, <1>2, <1>3, <1>4, <1>5, <1>6, <1>7, PlacesMove

\* A batch that failed comes first again; what the queue has no room for is dropped.
LEMMA PutBackPlaces ==
  ASSUME SdkInv, NEW s \in Slots, Requeue(PutBack(Batch(s))), flights' = [flights EXCEPT ![s] = Free],
         UNCHANGED <<recorded, rows>>, failures' \in {failures, failures + 1},
         late' = late \/ late' = late \cup {<<failures, Batch(s)>>}
  PROVE  /\ SdkTypeOK' /\ HeldOnce' /\ OnlyRecorded'
         /\ dropped \subseteq dropped'
         /\ In(Batch(s)) \cup In(queue) \subseteq In(queue)' \cup dropped'
         /\ In(queue)' \subseteq In(Batch(s)) \cup In(queue)
         /\ flights'[s].stage = "free" /\ In(Batch(s)') = {}
         /\ \A t \in Slots \ {s} : flights'[t] = flights[t] /\ Batch(t)' = Batch(t)
<1> DEFINE q == Batch(s) \o queue
<1>1. Batch(s) \in Seq(Decisions) /\ queue \in Seq(Decisions) /\ failures \in Nat
  BY DEF SdkInv, SdkTypeOK, FlightRows, Batch
<1>2. q \in Seq(Decisions) /\ In(q) = In(Batch(s)) \cup In(queue) /\ IsInjective(q)
  BY <1>1, Joined DEF SdkInv, HeldOnce
<1>3. queue' = Kept(q) /\ dropped' = dropped \cup DroppedOf(q)
  BY DEF Requeue, PutBack
<1> HIDE DEF q
<1>4. queue' \in Seq(Decisions) /\ IsInjective(queue') /\ In(q) = In(queue)' \cup DroppedOf(q)
  BY <1>2, <1>3, KeptParts
<1>5. /\ Batch(s)' = <<>> /\ flights'[s].stage = "free"
      /\ \A t \in Slots \ {s} : flights'[t] = flights[t] /\ Batch(t)' = Batch(t)
  BY DEF SdkInv, SdkTypeOK, Batch, Free
<1>6. \A m \in late' : m \in late \/ m = <<failures, Batch(s)>>
  OBVIOUS
<1>7. SdkTypeOK'
  <2>1. late' \subseteq Nat \X Seq(Decisions) /\ IsFiniteSet(late')
    <3> DEFINE m == <<failures, Batch(s)>>
    <3>1. m \in Nat \X Seq(Decisions) /\ (late' = late \/ late' = late \cup {m})
      BY <1>1
    <3>2. late \subseteq Nat \X Seq(Decisions) /\ IsFiniteSet(late)
      BY DEF SdkInv, SdkTypeOK
    <3> HIDE DEF m
    <3>3. IsFiniteSet(late \cup {m})
      BY <3>2, FS_AddElement
    <3> QED BY <3>1, <3>2, <3>3
  <2>2. flights' \in [Slots -> FlightRows]
    BY DEF SdkInv, SdkTypeOK, FlightRows, Free
  <2> QED BY <1>1, <1>4, <2>1, <2>2 DEF SdkInv, SdkTypeOK
<1>8. HeldOnce'
  <2>1. \A m \in late' : IsInjective(m[2])
    BY <1>6 DEF SdkInv, HeldOnce
  <2>2. \A t \in Slots : In(Batch(t))' = IF t = s THEN {} ELSE In(Batch(t))
    BY <1>5, InEmpty
  <2>3. \A t \in Slots : In(Batch(t))' \cap In(queue)' = {}
    BY <1>2, <1>4, <2>2 DEF SdkInv, HeldOnce
  <2>4. \A t, other \in Slots : other # t => In(Batch(t))' \cap In(Batch(other))' = {}
    BY <2>2 DEF SdkInv, HeldOnce
  <2>5. \A t \in Slots : IsInjective(Batch(t)') /\ (flights'[t].stage = "free" => Batch(t)' = <<>>)
    BY <1>5, InEmpty DEF SdkInv, HeldOnce
  <2> QED BY <1>4, <2>1, <2>3, <2>4, <2>5 DEF HeldOnce
<1>9. OnlyRecorded'
  BY <1>2, <1>4, <1>5, <1>6, InEmpty DEF SdkInv, OnlyRecorded
<1> QED BY <1>2, <1>3, <1>4, <1>5, <1>7, <1>8, <1>9, InEmpty

LEMMA RejectsKeeps ==
  ASSUME SdkInv, NEW s \in Slots, Rejects(s)
  PROVE  SdkInv'
<1>1. /\ flights[s].stage = "refused" /\ Requeue(PutBack(Batch(s)))
      /\ flights' = [flights EXCEPT ![s] = Free]
      /\ UNCHANGED <<recorded, late, failures, rows>>
  BY DEF Rejects, Batch
<1>2. \A d : Unstored(d)' => Unstored(d)
  BY <1>1, PutBackPlaces DEF Unstored
<1> QED BY <1>1, <1>2, PutBackPlaces, PlacesMove

\* After a failure the network may hold the batch once more, but only if it was unstored.
LEMMA FailsKeeps ==
  ASSUME SdkInv, NEW s \in Slots, Fails(s)
  PROVE  SdkInv'
<1>1. /\ Requeue(PutBack(Batch(s))) /\ flights' = [flights EXCEPT ![s] = Free]
      /\ failures' = failures + 1 /\ UNCHANGED <<recorded, rows>>
      /\ \/ late' = late
         \/ flights[s].stage = "sent" /\ late' = late \cup {<<failures, Batch(s)>>}
  BY DEF Fails, Batch
<1>2. CASE late' = late
  BY <1>1, <1>2, PutBackPlaces, PlacesMove
<1>3. CASE flights[s].stage = "sent" /\ late' = late \cup {<<failures, Batch(s)>>}
  <2>1. SdkTypeOK' /\ HeldOnce' /\ OnlyRecorded'
    BY <1>1, PutBackPlaces
  <2>2. ASSUME NEW d \in Decisions PROVE CountOK(d)'
    <3>1. rows[d] \in Nat /\ rows'[d] = rows[d] /\ failures \in Nat /\ CountOK(d)
      BY <1>1 DEF SdkInv, SdkTypeOK
    <3>2. IsFiniteSet(LateWith(d)) /\ Cardinality(LateWith(d)) \in Nat
      BY LateFinite DEF SdkInv, SdkTypeOK
    <3>3. Unstored(d)' => Unstored(d)
      BY <1>1, <1>3, PutBackPlaces DEF Unstored
    <3>4. CASE d \in In(Batch(s))
      <4>1. LateWith(d)' = LateWith(d) \cup {<<failures, Batch(s)>>}
        BY <1>3, <3>4 DEF LateWith
      <4>2. Cardinality(LateWith(d)') <= Cardinality(LateWith(d)) + 1 /\ Cardinality(LateWith(d)') \in Nat
        <5> DEFINE m == <<failures, Batch(s)>>
        <5> HIDE DEF m
        <5>1. Cardinality(LateWith(d) \cup {m}) = IF m \in LateWith(d) THEN Cardinality(LateWith(d))
                                                                     ELSE Cardinality(LateWith(d)) + 1
          BY <3>2, FS_AddElement
        <5>2. LateWith(d)' = LateWith(d) \cup {m}
          BY <4>1 DEF m
        <5> QED BY <3>2, <5>1, <5>2
      <4> QED BY <1>1, <3>1, <3>2, <3>3, <4>2 DEF CountOK, Waits
    <3>5. CASE d \notin In(Batch(s))
      <4>1. LateWith(d)' = LateWith(d)
        BY <1>3, <3>5 DEF LateWith
      <4> QED BY <1>1, <3>1, <3>2, <3>3, <4>1 DEF CountOK, Waits
    <3> QED BY <3>4, <3>5
  <2>3. ASSUME NEW d \in Decisions PROVE KeptOK(d)'
    BY <1>1, PutBackPlaces DEF SdkInv, KeptOK
  <2> QED BY <2>1, <2>2, <2>3 DEF SdkInv
<1> QED BY <1>1, <1>2, <1>3

\* A step that only changes what became of one flight.
LEMMA StageChanges ==
  ASSUME SdkInv, NEW s \in Slots, NEW stage \in {"accepted", "refused"},
         flights[s].stage = "sent", flights' = [flights EXCEPT ![s].stage = stage]
  PROVE  /\ flights' \in [Slots -> FlightRows]
         /\ \A t \in Slots : Batch(t)' = Batch(t)
         /\ \A t \in Slots \ {s} : flights'[t].stage = flights[t].stage
         /\ flights'[s].stage = stage
<1> DEFINE changed == [flights[s] EXCEPT !.stage = stage]
<1>1. flights[s] \in FlightRows
  BY DEF SdkInv, SdkTypeOK
<1>2. changed \in FlightRows /\ changed.batch = flights[s].batch /\ changed.stage = stage
  BY <1>1 DEF FlightRows
<1>3. flights' = [flights EXCEPT ![s] = changed]
  OBVIOUS
<1> HIDE DEF changed
<1> QED BY <1>2, <1>3 DEF SdkInv, SdkTypeOK, Batch

LEMMA RefusedKeeps ==
  ASSUME SdkInv, NEW s \in Slots, flights[s].stage = "sent",
         flights' = [flights EXCEPT ![s].stage = "refused"],
         UNCHANGED <<recorded, queue, late, dropped, rows>>, failures' \in {failures, failures + 1}
  PROVE  SdkInv'
<1>1. /\ flights' \in [Slots -> FlightRows]
      /\ \A t \in Slots : Batch(t)' = Batch(t)
      /\ \A t \in Slots \ {s} : flights'[t].stage = flights[t].stage
      /\ flights'[s].stage = "refused"
  BY StageChanges
<1>2. SdkTypeOK'
  BY <1>1 DEF SdkInv, SdkTypeOK
<1>3. HeldOnce'
  BY <1>1 DEF SdkInv, HeldOnce
<1>4. OnlyRecorded'
  BY <1>1 DEF SdkInv, OnlyRecorded
<1>5. \A d : Unstored(d)' => Unstored(d)
  BY <1>1 DEF Unstored
<1> QED BY <1>1, <1>2, <1>3, <1>4, <1>5, PlacesMove

\* The transaction stores each decision of a batch once.
LEMMA InsertedOnce ==
  ASSUME rows \in [Decisions -> Nat], NEW q \in Seq(Decisions), IsInjective(q)
  PROVE  /\ Inserted(q) \in [Decisions -> Nat]
         /\ \A d \in Decisions : Inserted(q)[d] = rows[d] + (IF d \in In(q) THEN 1 ELSE 0)
<1>1. \A d \in Decisions : Inserted(q)[d] = rows[d] + (IF d \in In(q) THEN 1 ELSE 0)
  BY OccursOnce DEF Inserted
<1>2. Inserted(q) = [d \in Decisions |-> Inserted(q)[d]]
  BY DEF Inserted
<1> QED BY <1>1, <1>2

LEMMA AcceptedKeeps ==
  ASSUME SdkInv, NEW s \in Slots, flights[s].stage = "sent",
         flights' = [flights EXCEPT ![s].stage = "accepted"], rows' = Inserted(Batch(s)),
         UNCHANGED <<recorded, queue, late, dropped, failures>>
  PROVE  SdkInv'
<1>1. /\ flights' \in [Slots -> FlightRows]
      /\ \A t \in Slots : Batch(t)' = Batch(t)
      /\ \A t \in Slots \ {s} : flights'[t].stage = flights[t].stage
      /\ flights'[s].stage = "accepted"
  BY StageChanges
<1>2. /\ rows' \in [Decisions -> Nat]
      /\ \A d \in Decisions : rows'[d] = rows[d] + (IF d \in In(Batch(s)) THEN 1 ELSE 0)
  BY InsertedOnce DEF SdkInv, SdkTypeOK, HeldOnce, Batch, FlightRows
<1>3. SdkTypeOK'
  BY <1>1, <1>2 DEF SdkInv, SdkTypeOK
<1>4. HeldOnce'
  BY <1>1 DEF SdkInv, HeldOnce
<1>5. OnlyRecorded'
  <2>1. \A d \in Decisions : d > recorded => d \notin In(Batch(s))
    BY DEF SdkInv, OnlyRecorded, SdkTypeOK
  <2> QED BY <1>1, <1>2, <2>1 DEF SdkInv, OnlyRecorded, SdkTypeOK
<1>6. ASSUME NEW d \in Decisions PROVE CountOK(d)'
  <2>1. LateWith(d)' = LateWith(d) /\ Cardinality(LateWith(d)) \in Nat
    BY LateFinite DEF SdkInv, SdkTypeOK, LateWith
  <2>2. rows[d] \in Nat /\ failures \in Nat /\ CountOK(d)
    BY DEF SdkInv, SdkTypeOK
  <2>3. CASE d \in In(Batch(s))
    <3>1. Unstored(d)
      BY <2>3 DEF Unstored
    <3>2. ~Unstored(d)'
      BY <1>1, <2>3 DEF Unstored, SdkInv, HeldOnce
    <3> QED BY <1>2, <2>1, <2>2, <2>3, <3>1, <3>2 DEF CountOK, Waits
  <2>4. CASE d \notin In(Batch(s))
    <3>1. Unstored(d)' => Unstored(d)
      BY <1>1, <2>4 DEF Unstored
    <3> QED BY <1>2, <2>1, <2>2, <2>4, <3>1 DEF CountOK, Waits
  <2> QED BY <2>3, <2>4
<1>7. ASSUME NEW d \in Decisions PROVE KeptOK(d)'
  <2>1. rows[d] \in Nat /\ KeptOK(d)
    BY DEF SdkInv, SdkTypeOK
  <2> QED BY <1>1, <1>2, <2>1 DEF KeptOK
<1> QED BY <1>3, <1>4, <1>5, <1>6, <1>7 DEF SdkInv

\* A request that arrives late stores a batch the network held.
LEMMA ArrivesLateKeeps ==
  ASSUME SdkInv, NEW m \in late, ArrivesLate(m)
  PROVE  SdkInv'
<1>1. /\ late' = late \ {m}
      /\ rows' = Inserted(m[2]) \/ rows' = rows
      /\ UNCHANGED <<recorded, queue, flights, dropped, failures>>
  BY DEF ArrivesLate
<1>2. /\ m[2] \in Seq(Decisions) /\ IsInjective(m[2]) /\ In(m[2]) \subseteq 1..recorded
      /\ rows \in [Decisions -> Nat]
  BY DEF SdkInv, SdkTypeOK, HeldOnce, OnlyRecorded
<1>3. /\ rows' \in [Decisions -> Nat]
      /\ \A d \in Decisions : /\ rows[d] \in Nat /\ rows'[d] \in Nat /\ rows'[d] >= rows[d]
                             /\ rows'[d] <= rows[d] + (IF d \in In(m[2]) THEN 1 ELSE 0)
  BY <1>1, <1>2, InsertedOnce
<1>4. \A s \in Slots : Batch(s)' = Batch(s)
  BY <1>1 DEF Batch
<1>5. SdkTypeOK'
  BY <1>1, <1>3, FS_RemoveElement DEF SdkInv, SdkTypeOK
<1>6. HeldOnce'
  BY <1>1, <1>4 DEF SdkInv, HeldOnce
<1>7. OnlyRecorded'
  <2>1. \A d \in Decisions : d > recorded => d \notin In(m[2])
    BY <1>2 DEF SdkInv, SdkTypeOK
  <2>2. \A d \in Decisions : d > recorded => rows'[d] = 0
    BY <1>3, <2>1 DEF SdkInv, OnlyRecorded
  <2> QED BY <1>1, <1>4, <2>2 DEF SdkInv, OnlyRecorded
<1>8. ASSUME NEW d \in Decisions PROVE CountOK(d)'
  <2>1. Unstored(d)' <=> Unstored(d)
    BY <1>1, <1>4 DEF Unstored
  <2>2. failures \in Nat /\ CountOK(d) /\ IsFiniteSet(LateWith(d)) /\ Cardinality(LateWith(d)) \in Nat
    BY LateFinite DEF SdkInv, SdkTypeOK
  <2>3. LateWith(d)' = LateWith(d) \ {m} /\ (m \in LateWith(d) <=> d \in In(m[2]))
    BY <1>1 DEF LateWith
  <2>4. Cardinality(LateWith(d)') = IF d \in In(m[2]) THEN Cardinality(LateWith(d)) - 1
                                                       ELSE Cardinality(LateWith(d))
    BY <2>2, <2>3, FS_RemoveElement
  <2> QED BY <1>1, <1>3, <2>1, <2>2, <2>4 DEF CountOK, Waits
<1>9. ASSUME NEW d \in Decisions PROVE KeptOK(d)'
  <2>1. KeptOK(d)
    BY DEF SdkInv
  <2> QED BY <1>1, <1>3, <1>4, <2>1 DEF KeptOK
<1> QED BY <1>5, <1>6, <1>7, <1>8, <1>9 DEF SdkInv

LEMMA SdkUntouched ==
  ASSUME SdkInv, UNCHANGED <<recorded, queue, flights, late, dropped, failures, rows>>
  PROVE  SdkInv'
<1>1. \A s : Batch(s)' = Batch(s)
  BY DEF Batch
<1>2. \A d : (Unstored(d)' <=> Unstored(d)) /\ LateWith(d)' = LateWith(d)
  BY <1>1 DEF Unstored, LateWith
<1>3. SdkTypeOK' /\ HeldOnce' /\ OnlyRecorded'
  BY <1>1 DEF SdkInv, SdkTypeOK, HeldOnce, OnlyRecorded
<1>4. \A d \in Decisions : CountOK(d)' /\ KeptOK(d)'
  BY <1>1, <1>2 DEF SdkInv, CountOK, Waits, KeptOK
<1> QED BY <1>3, <1>4 DEF SdkInv

LEMMA SdkStep ==
  ASSUME SdkInv, [PilotNext]_pilotVars
  PROVE  SdkInv'
<1>1. CASE Record
  BY <1>1, RecordKeeps
<1>2. CASE \/ \E s \in Slots : TimerFlush(s)
           \/ Sent(0) /\ (FlushCalled \/ FlushContinues)
  <2>1. 0 \in Slots
    BY PilotAssumption DEF Slots
  <2> QED BY <1>2, <2>1, SentKeeps DEF TimerFlush, FlushCalled, FlushContinues
<1>3. CASE \E s \in Slots : Resolves(s) \/ Rejects(s) \/ Fails(s)
  BY <1>3, ResolvesKeeps, RejectsKeeps, FailsKeeps
<1>4. CASE \E s \in Slots : Arrives(s) \/ Throttled(s)
  BY <1>4, AcceptedKeeps, RefusedKeeps DEF Arrives, Throttled, Batch
<1>5. CASE \E m \in late : ArrivesLate(m)
  BY <1>5, ArrivesLateKeeps
<1>6. CASE UNCHANGED <<recorded, queue, flights, late, dropped, failures, rows>>
  BY <1>6, SdkUntouched
<1> QED
  BY <1>1, <1>2, <1>3, <1>4, <1>5, <1>6
  DEF PilotNext, pilotVars, sdk, FlushCalled, FlushContinues, AccountRefused, RotateApiKey, ChangeTier,
      OtherRequest

THEOREM SdkInvariant == PilotSpec => []SdkInv
<1>1. SdkInv /\ [PilotNext]_pilotVars => SdkInv'
  BY SdkStep
<1> QED BY <1>1, SdkInvInit, PTL DEF PilotSpec

\* No decision is lost without a trace, whichever flushes overlap and fail.
THEOREM NothingLost == PilotSpec => []RecordedIsKept
<1>1. SdkInv => RecordedIsKept
  <2> SUFFICES ASSUME SdkInv, NEW d \in 1..recorded
               PROVE  d \in In(queue) \cup InFlight \cup dropped \/ rows[d] > 0
    BY DEF RecordedIsKept
  <2>1. d \in Decisions /\ d <= recorded
    BY PilotAssumption DEF SdkInv, SdkTypeOK, Decisions
  <2> QED BY <2>1 DEF SdkInv, KeptOK, InFlight, Batch
<1> QED BY <1>1, SdkInvariant, PTL

\* A decision is never stored more often than there were failures, and one.
THEOREM StoredOncePerFailure == PilotSpec => []DuplicatesNeedFailures
<1>1. SdkInv => DuplicatesNeedFailures
  <2> SUFFICES ASSUME SdkInv, NEW d \in Decisions PROVE rows[d] <= failures + 1
    BY DEF DuplicatesNeedFailures
  <2>1. Cardinality(LateWith(d)) \in Nat /\ rows[d] \in Nat /\ failures \in Nat
    BY LateFinite DEF SdkInv, SdkTypeOK
  <2> QED BY <2>1 DEF SdkInv, CountOK, Waits
<1> QED BY <1>1, SdkInvariant, PTL
=============================================================================
