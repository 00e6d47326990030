-------------------------- MODULE OperationsProofs --------------------------
(***************************************************************************)
(* What the running of the programs rests on, for every database, number   *)
(* of runs, crashes and clients: starts and migrations (module Boot),      *)
(* backups (module Replication) and the rate limit (module RateLimiter).   *)
(* The three share no variable.                                            *)
(***************************************************************************)
EXTENDS Boot, Replication, RateLimiter, FiniteSums, TLAPS

-----------------------------------------------------------------------------
(* Starts and migrations. *)

Recorded == UNION {Effect(r.did) : r \in rows}
Outside == V1.creates \cup SlowQueries.creates \cup QueueJobs.creates

\* Once the numbers are reconciled a row's version is its migration's; until then the
\* retired script's numbers may stand, and a migration above 30 has its older ones below it.
RowOK(r) ==
  /\ r.version \in 1..35 /\ r.did \in AllVersions
  /\ r.version = r.did \/ (r.version \in Legacy /\ r.did = r.version - 14)
  /\ r.version \in Legacy /\ r.version = r.did => r.version - 14 \in Versions

Reconciled == \A r \in rows : r.version = r.did

TablesOf(v) == {p[1] : p \in MigrationOf(v).creates}

BootInv ==
  /\ \A r \in rows : DOMAIN r = {"version", "did"} /\ r = MigrationRow(r.version, r.did) /\ RowOK(r)
  /\ phase \in {"migrate", "assemble", "serving"} => Reconciled
  /\ phase \in {"assemble", "serving"} => AllVersions \subseteq Versions
  /\ schema \ found \subseteq Recorded \cup Outside
  /\ \A r \in rows : \A t \in TablesOf(r.did) : Exists(schema, t)

LEMMA AfterGrows ==
  ASSUME NEW s, NEW m
  PROVE  /\ s \subseteq After(s, m) /\ After(s, m) \subseteq s \cup m.creates \cup m.adds
         /\ \A p \in m.creates : Exists(After(s, m), p[1])
<1>1. ASSUME NEW p \in m.creates PROVE Exists(After(s, m), p[1])
  BY DEF After, Exists
<1> QED BY <1>1 DEF After

\* Tables stay.
LEMMA ExistsGrows ==
  ASSUME NEW s, NEW t, NEW table, s \subseteq t, Exists(s, table)
  PROVE  Exists(t, table)
  BY DEF Exists

LEMMA UpgradedHas ==
  ASSUME NEW vs \in SUBSET AllVersions, NEW v \in vs, NEW t \in TablesOf(v)
  PROVE  Exists(Upgraded(vs), t)
  BY DEF Upgraded, TablesOf, Exists, Effect


\* A database whose rows number migrations as they are, or 17 to 21 as the retired script
\* did, and whose schema holds what those migrations make.
Consistent(s, rs) ==
  /\ \A r \in rs :
       \E v \in 1..35, d \in AllVersions :
         /\ r = MigrationRow(v, d)
         /\ (v = d /\ v < 31) \/ (v \in 31..35 /\ d = v - 14)
  /\ \A r \in rs : \A t \in TablesOf(r.did) : Exists(s, t)

LEMMA DatabasesConsistent ==
  ASSUME NEW db \in Databases
  PROVE  Consistent(db.schema, db.rows)
<1>1. ASSUME NEW n \in 0..30 PROVE Consistent(OfRelease(n).schema, OfRelease(n).rows)
  <2>1. /\ OfRelease(n).schema = Upgraded(1..n)
        /\ OfRelease(n).rows = {MigrationRow(v, v) : v \in 1..n}
    BY DEF OfRelease, Database
  <2>2. 1..n \subseteq AllVersions
    BY DEF AllVersions
  <2>3. ASSUME NEW v \in 1..n
        PROVE  /\ v \in AllVersions \cap 1..35 /\ v < 31 /\ MigrationRow(v, v).did = v
               /\ \A t \in TablesOf(v) : Exists(Upgraded(1..n), t)
    BY <2>2, UpgradedHas DEF AllVersions, MigrationRow
  <2>4. ASSUME NEW r \in OfRelease(n).rows
        PROVE  /\ \E v \in 1..35, d \in AllVersions :
                    /\ r = MigrationRow(v, d)
                    /\ (v = d /\ v < 31) \/ (v \in 31..35 /\ d = v - 14)
               /\ \A t \in TablesOf(r.did) : Exists(OfRelease(n).schema, t)
    <3>1. PICK v \in 1..n : r = MigrationRow(v, v)
      BY <2>1
    <3> QED BY <2>1, <2>3, <3>1
  <2> QED BY <2>4 DEF Consistent
<1>2. ASSUME NEW n \in 0..30
      PROVE  Consistent(WithQueue(OfRelease(n)).schema, WithQueue(OfRelease(n)).rows)
  <2>1. /\ OfRelease(n).schema \subseteq WithQueue(OfRelease(n)).schema
        /\ WithQueue(OfRelease(n)).rows = OfRelease(n).rows
    BY DEF WithQueue, OfRelease, Database
  <2> QED BY <1>1, <2>1, ExistsGrows DEF Consistent
<1>3. ASSUME NEW n \in 1..5 PROVE Consistent(OfRetired(n).schema, OfRetired(n).rows)
  <2>1. /\ OfRetired(n).schema = Upgraded(1..(16 + n))
        /\ OfRetired(n).rows = {MigrationRow(v, v) : v \in 1..16}
                                 \cup {MigrationRow(v + 14, v) : v \in 17..(16 + n)}
    BY DEF OfRetired, Database
  <2>2. 1..(16 + n) \subseteq AllVersions
    BY DEF AllVersions
  <2>3. ASSUME NEW v \in 1..16
        PROVE  /\ v \in AllVersions \cap 1..35 /\ v < 31 /\ MigrationRow(v, v).did = v
               /\ \A t \in TablesOf(v) : Exists(Upgraded(1..(16 + n)), t)
    BY <2>2, UpgradedHas DEF AllVersions, MigrationRow
  <2>4. ASSUME NEW v \in 17..(16 + n)
        PROVE  /\ v + 14 \in 1..35 /\ v + 14 \in 31..35 /\ v = v + 14 - 14 /\ MigrationRow(v + 14, v).did = v
               /\ v \in AllVersions
               /\ \A t \in TablesOf(v) : Exists(Upgraded(1..(16 + n)), t)
    BY <2>2, UpgradedHas DEF AllVersions, MigrationRow
  <2>5. ASSUME NEW r \in OfRetired(n).rows
        PROVE  /\ \E v \in 1..35, d \in AllVersions :
                    /\ r = MigrationRow(v, d)
                    /\ (v = d /\ v < 31) \/ (v \in 31..35 /\ d = v - 14)
               /\ \A t \in TablesOf(r.did) : Exists(OfRetired(n).schema, t)
    <3>1. CASE \E v \in 1..16 : r = MigrationRow(v, v)
      BY <2>1, <2>3, <3>1
    <3>2. CASE \E v \in 17..(16 + n) : r = MigrationRow(v + 14, v)
      BY <2>1, <2>4, <3>2
    <3> QED BY <2>1, <3>1, <3>2
  <2> QED BY <2>5 DEF Consistent
<1>4. Consistent(Database(EvidenceTables, {}).schema, Database(EvidenceTables, {}).rows)
  BY DEF Consistent, Database
<1> QED BY <1>1, <1>2, <1>3, <1>4, BootAssumption DEF Databases

LEMMA BootInvInit == BootInit => BootInv
<1> SUFFICES ASSUME BootInit PROVE BootInv
  OBVIOUS
<1>1. phase = "down" /\ found = schema /\ Consistent(schema, rows)
  BY DatabasesConsistent DEF BootInit
<1>2. ASSUME NEW r \in rows
      PROVE  DOMAIN r = {"version", "did"} /\ r = MigrationRow(r.version, r.did) /\ RowOK(r)
  <2>1. PICK v \in 1..35, d \in AllVersions :
          /\ r = MigrationRow(v, d)
          /\ (v = d /\ v < 31) \/ (v \in 31..35 /\ d = v - 14)
    BY <1>1 DEF Consistent
  <2>2. r.version = v /\ r.did = d
    BY <2>1 DEF MigrationRow
  <2> QED BY <2>1, <2>2 DEF RowOK, Legacy, AllVersions, MigrationRow
<1> QED BY <1>1, <1>2 DEF BootInv, Consistent

LEMMA RecordedGrows ==
  ASSUME NEW s, s \subseteq schema \cup Recorded' \cup Outside, Recorded \subseteq Recorded',
         schema' = s, found' = found, schema \ found \subseteq Recorded \cup Outside
  PROVE  schema' \ found' \subseteq Recorded' \cup Outside
  OBVIOUS

LEMMA ReconcileKeeps ==
  ASSUME BootInv, Reconcile
  PROVE  BootInv'
<1>1. CASE Ambiguous
  <2>1. UNCHANGED <<schema, rows, found>> /\ phase' = "down"
    BY <1>1 DEF Reconcile, End
  <2> QED BY <2>1 DEF BootInv, RowOK, Versions, Recorded
<1>2. CASE ~Ambiguous
  <2>1. /\ rows' = {Renumbered(r) : r \in rows} /\ schema' = schema \cup V1.creates
        /\ phase' = "migrate" /\ found' = found
    BY <1>2 DEF Reconcile
  <2>2. ASSUME NEW r \in rows
        PROVE  /\ Renumbered(r) = MigrationRow(r.did, r.did)
               /\ r.did \in 1..30
    <3>1. r = MigrationRow(r.version, r.did) /\ RowOK(r)
      BY DEF BootInv
    <3>2. CASE r.version \in Legacy
      <4>1. r.version \in Versions
        BY DEF Versions
      <4>2. r.version - 14 \notin Versions
        BY <1>2, <3>2, <4>1 DEF Ambiguous
      <4>3. r.did = r.version - 14
        BY <3>1, <3>2, <4>2 DEF RowOK
      <4>4. Renumbered(r) = [r EXCEPT !.version = r.did]
        BY <3>2, <4>3 DEF Renumbered
      <4>5. Renumbered(r) = MigrationRow(r.did, r.did)
        BY <3>1, <4>4 DEF MigrationRow
      <4> QED BY <3>2, <4>3, <4>5 DEF Legacy
    <3>3. CASE r.version \notin Legacy
      BY <3>1, <3>3 DEF Renumbered, RowOK, Legacy
    <3> QED BY <3>2, <3>3
  <2>3. \A q \in rows' : \E r \in rows : q = MigrationRow(r.did, r.did) /\ r.did \in 1..30
    BY <2>1, <2>2
  <2>4. ASSUME NEW q \in rows'
        PROVE  /\ DOMAIN q = {"version", "did"} /\ q = MigrationRow(q.version, q.did)
               /\ RowOK(q)' /\ q.version = q.did
               /\ \A t \in TablesOf(q.did) : Exists(schema', t)
    <3>1. PICK r \in rows : q = MigrationRow(r.did, r.did) /\ r.did \in 1..30
      BY <2>3
    <3>2. q.version = r.did /\ q.did = r.did /\ DOMAIN q = {"version", "did"}
      BY <3>1 DEF MigrationRow
    <3>3. RowOK(q)'
      BY <3>1, <3>2 DEF RowOK, Legacy, AllVersions
    <3>4. \A t \in TablesOf(r.did) : Exists(schema', t)
      BY <2>1, ExistsGrows DEF BootInv
    <3> QED BY <3>1, <3>2, <3>3, <3>4
  <2>5. Recorded' = Recorded
    <3>1. \A r \in rows : Renumbered(r).did = r.did
      BY <2>2 DEF MigrationRow
    <3> QED BY <2>1, <3>1 DEF Recorded
  <2>6. schema' \ found' \subseteq Recorded' \cup Outside
    BY <2>1, <2>5 DEF BootInv, Outside
  <2> QED BY <2>1, <2>4, <2>6 DEF BootInv, Reconciled
<1> QED BY <1>1, <1>2

\* A migration comes with its row, and after every older one.
LEMMA MigrateKeeps ==
  ASSUME BootInv, Migrate
  PROVE  BootInv'
<1> DEFINE v == NextPending
<1>1. phase = "migrate" /\ Pending # {} /\ found' = found /\ Apply(v)
  BY DEF Migrate
<1>2. Pending \subseteq AllVersions /\ AllVersions \subseteq Nat
  BY DEF Pending, AllVersions
<1>3. v \in Pending /\ \A w \in Pending : v <= w
  <2>1. \E w \in Pending : \A x \in Pending : w <= x
    BY <1>1, <1>2, LeastNumber
  <2> QED BY <2>1 DEF NextPending
<1> HIDE DEF v
<1>4. CASE Fails(schema, MigrationOf(v))
  <2>1. UNCHANGED <<schema, rows, found>> /\ phase' = "down"
    BY <1>1, <1>4 DEF Apply, End
  <2> QED BY <2>1 DEF BootInv, RowOK, Versions, Recorded
<1>5. CASE ~Fails(schema, MigrationOf(v))
  <2>1. /\ schema' = After(schema, MigrationOf(v)) /\ rows' = rows \cup {MigrationRow(v, v)}
        /\ phase' = "migrate"
    BY <1>1, <1>5 DEF Apply
  <2>2. MigrationRow(v, v).version = v /\ MigrationRow(v, v).did = v
        /\ DOMAIN MigrationRow(v, v) = {"version", "did"}
    BY DEF MigrationRow
  <2>3. schema \subseteq schema' /\ schema' \subseteq schema \cup Effect(v)
        /\ \A t \in TablesOf(v) : Exists(schema', t)
    BY <2>1, AfterGrows DEF Effect, TablesOf
  <2>4. Versions' = Versions \cup {v}
    BY <2>1, <2>2 DEF Versions
  <2>5. Recorded' = Recorded \cup Effect(v)
    BY <2>1, <2>2 DEF Recorded
  <2>6. v \in AllVersions /\ v \in 1..35 /\ v \notin Versions
    BY <1>3 DEF Pending, AllVersions
  <2>7. v \in Legacy => v - 14 \in Versions
    <3> SUFFICES ASSUME v \in Legacy, v - 14 \notin Versions PROVE FALSE
      OBVIOUS
    <3>1. v - 14 \in Pending
      BY <2>6 DEF Pending, AllVersions, Legacy
    <3> QED BY <1>3, <2>6, <3>1 DEF AllVersions
  <2>8. ASSUME NEW r \in rows'
        PROVE  /\ DOMAIN r = {"version", "did"} /\ r = MigrationRow(r.version, r.did) /\ RowOK(r)'
               /\ r.version = r.did
               /\ \A t \in TablesOf(r.did) : Exists(schema', t)
    <3>1. CASE r \in rows
      BY <1>1, <2>3, <2>4, <3>1, ExistsGrows DEF BootInv, RowOK, Reconciled
    <3>2. CASE r = MigrationRow(v, v)
      BY <2>2, <2>3, <2>4, <2>6, <2>7, <3>2 DEF RowOK
    <3> QED BY <2>1, <3>1, <3>2
  <2>9. schema' \ found' \subseteq Recorded' \cup Outside
    BY <1>1, <2>3, <2>5 DEF BootInv
  <2> QED BY <2>1, <2>8, <2>9 DEF BootInv, Reconciled
<1> QED BY <1>4, <1>5

\* What a program adds outside the migrations leaves the rows alone.
LEMMA OutsideKeeps ==
  ASSUME BootInv, schema \subseteq schema', schema' \subseteq schema \cup Outside,
         rows' = rows, found' = found,
         phase' \in {"migrate", "assemble", "serving"} => Reconciled,
         phase' \in {"assemble", "serving"} => AllVersions \subseteq Versions
  PROVE  BootInv'
<1>1. Versions' = Versions /\ Recorded' = Recorded
  BY DEF Versions, Recorded
<1>2. \A r \in rows : \A t \in TablesOf(r.did) : Exists(schema', t)
  BY ExistsGrows DEF BootInv
<1> QED BY <1>1, <1>2 DEF BootInv, RowOK, Reconciled

\* The script's versions are all recorded when it runs, so that it does nothing.
LEMMA ScriptAddsNothing ==
  ASSUME BootInv, RunScript
  PROVE  UNCHANGED <<schema, rows, found>> /\ phase' = "down"
<1>1. AllVersions \subseteq Versions
  BY DEF RunScript, BootInv
<1>2. DOMAIN CommercialMigrations = 23..30
  BY DEF CommercialMigrations
<1>3. DOMAIN CommercialMigrations \ Versions = {}
  BY <1>1, <1>2 DEF AllVersions
<1> QED BY <1>3 DEF RunScript, End

LEMMA BootStep ==
  ASSUME BootInv, [BootNext]_bootVars
  PROVE  BootInv'
<1>1. CASE Reconcile
  BY <1>1, ReconcileKeeps
<1>2. CASE Migrate
  BY <1>2, MigrateKeeps
<1>3. CASE RunScript
  BY <1>3, ScriptAddsNothing, OutsideKeeps
<1>4. CASE Migrated
  <2>1. AllVersions \subseteq Versions
    BY <1>4 DEF Migrated, Pending
  <2> QED BY <1>4, <2>1, OutsideKeeps DEF Migrated, BootInv
<1>5. CASE AssembleApp
  <2>1. schema \subseteq schema' /\ schema' \subseteq schema \cup Outside
    <3>1. SlowQueries.adds = {} /\ QueueJobs.adds = {}
      BY DEF SlowQueries, QueueJobs, Table, Migration
    <3> QED BY <1>5, <3>1, AfterGrows DEF AssembleApp, Outside
  <2>2. phase = "assemble" /\ rows' = rows /\ found' = found /\ phase' \in {"serving", "down"}
    BY <1>5 DEF AssembleApp, End
  <2> QED BY <2>1, <2>2, OutsideKeeps DEF BootInv
<1>6. CASE (\E p \in {"app", "server", "script"} : Start(p)) \/ AssembleServer \/ Stop \/ Killed
           \/ UNCHANGED bootVars
  BY <1>6, OutsideKeeps DEF Start, AssembleServer, Stop, Killed, End, bootVars, BootInv
<1> QED BY <1>1, <1>2, <1>3, <1>4, <1>5, <1>6 DEF BootNext

THEOREM BootInvariant == BootSpec => []BootInv
<1>1. BootInv /\ [BootNext]_bootVars => BootInv'
  BY BootStep
<1> QED BY <1>1, BootInvInit, PTL DEF BootSpec

\* No migration leaves a part of itself behind, whichever releases made the database and
\* however often a start is killed.
THEOREM WholeMigrations == BootSpec => []NothingHalfApplied
<1>1. BootInv => NothingHalfApplied
  <2> SUFFICES ASSUME BootInv, NEW p \in schema \ found
               PROVE  p \in (UNION {Effect(r.did) : r \in rows}) \cup V1.creates
                               \cup SlowQueries.creates \cup QueueJobs.creates
    BY DEF NothingHalfApplied
  <2>1. p \in Recorded \cup Outside
    BY DEF BootInv
  <2> QED BY <2>1 DEF Recorded, Outside
<1> QED BY <1>1, BootInvariant, PTL

\* The tables of the mounted routers, and the migrations that create them.
LEMMA TableCreated ==
  ASSUME NEW t, NEW cols, NEW c \in cols
  PROVE  /\ \E p \in Table(t, cols).creates : p[1] = t
         /\ \A m : /\ \E p \in Both(Table(t, cols), m).creates : p[1] = t
                   /\ \E p \in Both(m, Table(t, cols)).creates : p[1] = t
<1>1. <<t, c>> \in Columns(t, cols)
  BY DEF Columns
<1> QED BY <1>1 DEF Table, Both, Migration

LEMMA RouterTablesCreated ==
  ASSUME NEW t \in RouterTables
  PROVE  \E v \in AllVersions : t \in TablesOf(v)
<1> DEFINE Creates(v, table) == \E p \in MigrationOf(v).creates : p[1] = table
<1> USE TableCreated DEF MigrationOf, Migrations
<1>1. Creates(4, "users")
  BY DEF V4
<1>2. Creates(5, "refresh_tokens")
  BY DEF V5
<1>3. Creates(6, "anomaly_logs")
  BY DEF V6
<1>4. Creates(18, "role_access_metrics")
  BY DEF V18
<1>5. Creates(22, "accounts")
  BY DEF V22
<1>6. Creates(23, "trust_badge_registry") /\ Creates(23, "trust_badge_history")
  BY DEF V23
<1>7. Creates(24, "ai_insurance_warranties")
  BY DEF V24
<1>8. Creates(25, "commercial_audit_log")
  BY DEF V25
<1>9. Creates(26, "pilot_decisions")
  BY DEF V26
<1>10. Creates(27, "secret_state")
  BY DEF V27
<1>11. Creates(28, "user_profiles") /\ Creates(28, "role_audit_log")
  BY DEF V28
<1>12. \A table : \A v \in AllVersions : Creates(v, table) => table \in TablesOf(v)
  BY DEF TablesOf
<1>13. \A n \in {4, 5, 6, 18, 22, 23, 24, 25, 26, 27, 28} : n \in AllVersions
  BY DEF AllVersions
<1> HIDE DEF Creates
<1> QED
  BY <1>1, <1>2, <1>3, <1>4, <1>5, <1>6, <1>7, <1>8, <1>9, <1>10, <1>11, <1>12, <1>13
  DEF RouterTables

\* Nothing is served before every migration is recorded and the routers' tables are there.
THEOREM ServedComplete == BootSpec => []ServingIsComplete
<1>1. BootInv => ServingIsComplete
  <2> SUFFICES ASSUME BootInv, phase = "serving"
               PROVE  AllVersions \subseteq Versions /\ \A t \in RouterTables : Exists(schema, t)
    BY DEF ServingIsComplete
  <2>1. AllVersions \subseteq Versions
    BY DEF BootInv
  <2>2. ASSUME NEW t \in RouterTables PROVE Exists(schema, t)
    <3>1. PICK v \in AllVersions : t \in TablesOf(v)
      BY RouterTablesCreated
    <3>2. PICK r \in rows : r.version = v
      BY <2>1 DEF Versions
    <3>3. r.did = v
      BY <3>2 DEF BootInv, Reconciled
    <3> QED BY <3>1, <3>3 DEF BootInv
  <2> QED BY <2>1, <2>2
<1> QED BY <1>1, BootInvariant, PTL

-----------------------------------------------------------------------------
(* The reconciliation of the version numbers takes the migrations 31 and 32 for rows of the  *)
(* retired script: beside 17 and 18 they make every later start throw.                       *)

UnderWay == phase \in {"migrate", "assemble", "serving"}

LEMMA FullyUpgradedStays ==
  ASSUME {17, 31} \subseteq Versions, ~UnderWay, [BootNext]_bootVars
  PROVE  {17, 31} \subseteq Versions' /\ ~UnderWay'
<1>1. Ambiguous
  BY DEF Ambiguous, Legacy
<1>2. rows' = rows /\ ~UnderWay'
  BY <1>1 DEF BootNext, bootVars, UnderWay, Start, Reconcile, Migrate, Migrated, AssembleServer,
     AssembleApp, RunScript, Stop, Killed, End
<1> QED BY <1>2 DEF Versions

\* Once a program has served a database and ended, or a start was killed after the last
\* migration, no start gets as far as the migrations again (reconcilePhase12Renumber).
THEOREM ServedOnlyOnce ==
  BootSpec => []({17, 31} \subseteq Versions /\ ~UnderWay => []~UnderWay)
<1>1. ({17, 31} \subseteq Versions /\ ~UnderWay) /\ [BootNext]_bootVars
        => ({17, 31} \subseteq Versions /\ ~UnderWay)'
  BY FullyUpgradedStays
<1> QED BY <1>1, PTL DEF BootSpec

\* Serving implies that both versions are there: the first run to its end is the last.
THEOREM NeverServedAgain ==
  BootSpec => [](phase = "serving" => []((phase = "down") => [](phase # "serving")))
<1>1. BootInv /\ phase = "serving" => {17, 31} \subseteq Versions
  BY DEF BootInv, AllVersions
<1>2. {17, 31} \subseteq Versions /\ BootInv /\ [BootNext]_bootVars => ({17, 31} \subseteq Versions)'
  <2> SUFFICES ASSUME {17, 31} \subseteq Versions, BootInv, [BootNext]_bootVars
               PROVE  Versions \subseteq Versions'
    OBVIOUS
  <2>1. Ambiguous
    BY DEF Ambiguous, Legacy
  <2>2. rows \subseteq rows'
    BY <2>1, ScriptAddsNothing DEF BootNext, bootVars, Start, Reconcile, Migrate, Apply, Migrated, AssembleServer,
     AssembleApp, Stop, Killed
  <2> QED BY <2>2 DEF Versions
<1>3. phase = "down" => ~UnderWay
  BY DEF UnderWay
<1>4. ~UnderWay => phase # "serving"
  BY DEF UnderWay
<1> QED BY <1>1, <1>2, <1>3, <1>4, BootInvariant, ServedOnlyOnce, PTL DEF BootSpec

-----------------------------------------------------------------------------
(* Backups. *)

RunRows ==
  [stage : {"none", "staging", "shipping", "ended"}, sound : BOOLEAN,
   upload : [Destinations -> {"pending", "done", "failed"}]]

Later(id) == {other \in appeared : other > id}

\* Enough later files have appeared for retention to take this one.
Superfluous(id) == Cardinality(Later(id)) >= RetentionCount

PruneOK(S) == S = {0} \/ (S # {} /\ S \subseteq Runs /\ \A f \in S : Superfluous(f))

PrunesOK == \A id \in DOMAIN prunes : PruneOK(prunes[id])

BackupTypeInv ==
  /\ run \in [Runs -> RunRows]
  /\ DOMAIN files \subseteq appeared /\ appeared \subseteq Runs
  /\ arrived \subseteq Runs \X Destinations

\* A complete copy and a finished upload are the same thing, and its file has appeared.
UploadsOK ==
  \A id \in Runs, d \in Destinations :
    /\ run[id].upload[d] = "done" <=> <<id, d>> \in arrived
    /\ d = "filesystem" /\ (run[id].stage = "shipping" \/ run[id].upload[d] = "done")
         => id \in appeared

\* A file that has gone failed to be written, or went because enough later ones appeared.
MissingOK ==
  \A id \in appeared \ DOMAIN files : Superfluous(id) \/ run[id].upload["filesystem"] = "failed"

BackupInv ==
  BackupTypeInv /\ UploadsOK /\ MissingOK /\ PrunesOK /\ SuccessMeansCopied

LEMMA BackupInvInit == BackupInit => BackupInv
  BY DEF BackupInit, BackupInv, BackupTypeInv, UploadsOK, MissingOK, PrunesOK, SuccessMeansCopied,
         Unstarted, RunRows, NoFile

LEMMA RunsFinite == IsFiniteSet(Runs) /\ Runs \subseteq Nat /\ 0 \notin Runs
<1>1. MaxRuns \in Nat
  BY ReplicationAssumption
<1> QED BY <1>1, FS_Interval DEF Runs

\* What was superfluous stays so while files appear.
LEMMA SuperfluousStays ==
  ASSUME appeared \subseteq appeared', appeared' \subseteq Runs, NEW id, Superfluous(id)
  PROVE  Superfluous(id)'
<1>1. Later(id) \subseteq Later(id)' /\ Later(id)' \subseteq Runs
  BY DEF Later
<1>2. IsFiniteSet(Later(id)') /\ Cardinality(Later(id)) <= Cardinality(Later(id)')
      /\ Cardinality(Later(id)) \in Nat /\ Cardinality(Later(id)') \in Nat
  BY <1>1, RunsFinite, FS_Subset, FS_CardinalityType
<1> QED BY <1>2, ReplicationAssumption DEF Superfluous

LEMMA PruneStays ==
  ASSUME appeared \subseteq appeared', appeared' \subseteq Runs, NEW S, PruneOK(S)
  PROVE  PruneOK(S)'
  BY SuperfluousStays DEF PruneOK, Runs

\* The files beyond the count are superfluous: those after them in the directory have appeared.
LEMMA BeyondCountOK ==
  ASSUME BackupTypeInv
  PROVE  BeyondCount \subseteq Runs /\ \A f \in BeyondCount : Superfluous(f)
<1>1. ASSUME NEW f \in BeyondCount PROVE Superfluous(f)
  <2> DEFINE after == {other \in DOMAIN files : other > f}
  <2>1. after \subseteq Later(f) /\ Later(f) \subseteq Runs /\ Cardinality(after) >= RetentionCount
    BY DEF BackupTypeInv, Later, BeyondCount
  <2>2. Cardinality(after) <= Cardinality(Later(f))
        /\ Cardinality(after) \in Nat /\ Cardinality(Later(f)) \in Nat
    BY <2>1, RunsFinite, FS_Subset, FS_CardinalityType
  <2> QED BY <2>1, <2>2, ReplicationAssumption DEF Superfluous
<1> QED BY <1>1 DEF BackupTypeInv, BeyondCount

LEMMA FirstOf ==
  ASSUME NEW S, S \subseteq Runs, S # {}
  PROVE  Min(S) \in S
<1>1. \E x \in S : \A y \in S : x <= y
  BY RunsFinite, LeastNumber
<1> QED BY <1>1 DEF Min

\* Retention takes one file off its list, and the file is superfluous.
LEMMA UnlinkKeeps ==
  ASSUME BackupInv, NEW id \in Runs, Unlink(id)
  PROVE  BackupInv'
<1> DEFINE S == prunes[id]
           f == Min(S)
<1>1. /\ id \in DOMAIN prunes /\ S # {} /\ S \subseteq Runs /\ \A g \in S : Superfluous(g)
      /\ files' = Drop(files, {f})
      /\ prunes' = IF Cardinality(S) = 1 THEN Drop(prunes, {id}) ELSE Put(prunes, id, S \ {f})
      /\ UNCHANGED <<run, manifests, appeared, arrived>>
  BY DEF Unlink, BackupInv, PrunesOK, PruneOK
<1>2. f \in S
  BY <1>1, FirstOf
<1>3. Cardinality(S) # 1 => S \ {f} # {}
  <2>1. IsFiniteSet(S)
    BY <1>1, RunsFinite, FS_Subset
  <2>2. S = {f} => Cardinality(S) = 1
    BY FS_Singleton
  <2> QED BY <1>2, <2>2
<1> HIDE DEF f, S
<1>4. DOMAIN files' = DOMAIN files \ {f}
  BY <1>1 DEF Drop
<1>5. BackupTypeInv'
  BY <1>1, <1>4 DEF BackupInv, BackupTypeInv
<1>6. \A g : Superfluous(g)' <=> Superfluous(g)
  BY <1>1 DEF Superfluous, Later
<1>7. MissingOK'
  BY <1>1, <1>2, <1>4, <1>6 DEF BackupInv, MissingOK
<1>8. UploadsOK' /\ SuccessMeansCopied'
  BY <1>1 DEF BackupInv, UploadsOK, SuccessMeansCopied
<1>9. ASSUME NEW i \in DOMAIN prunes', NEW L, L = prunes'[i]
      PROVE  PruneOK(L)'
  <2>1. CASE i \in DOMAIN prunes /\ L = prunes[i]
    BY <1>1, <1>6, <2>1 DEF BackupInv, PrunesOK, PruneOK, Runs
  <2>2. CASE L = S \ {f} /\ Cardinality(S) # 1
    BY <1>1, <1>3, <1>6, <2>2 DEF PruneOK, Runs
  <2> QED BY <1>1, <1>9, <2>1, <2>2 DEF Drop, Put
<1>10. PrunesOK'
  BY <1>9 DEF PrunesOK, PruneOK
<1> QED BY <1>5, <1>7, <1>8, <1>10 DEF BackupInv

LEMMA ListKeeps ==
  ASSUME BackupInv, NEW id \in Runs, List(id)
  PROVE  BackupInv'
<1>1. /\ prunes' = IF BeyondCount = {} THEN Drop(prunes, {id}) ELSE Put(prunes, id, BeyondCount)
      /\ UNCHANGED <<run, files, manifests, appeared, arrived>>
  BY DEF List
<1>2. BeyondCount \subseteq Runs /\ \A f \in BeyondCount : Superfluous(f)
  BY BeyondCountOK DEF BackupInv
<1>3. \A g : Superfluous(g)' <=> Superfluous(g)
  BY <1>1 DEF Superfluous, Later
<1>4. ASSUME NEW i \in DOMAIN prunes', NEW L, L = prunes'[i]
      PROVE  PruneOK(L)'
  <2>1. CASE i \in DOMAIN prunes /\ L = prunes[i]
    BY <1>3, <2>1 DEF BackupInv, PrunesOK, PruneOK, Runs
  <2>2. CASE L = BeyondCount /\ BeyondCount # {}
    BY <1>2, <1>3, <2>2 DEF PruneOK, Runs
  <2> QED BY <1>1, <1>4, <2>1, <2>2 DEF Drop, Put
<1>a. PrunesOK'
  BY <1>4 DEF PrunesOK, PruneOK
<1>5. BackupTypeInv' /\ UploadsOK' /\ MissingOK' /\ SuccessMeansCopied'
  BY <1>1, <1>3 DEF BackupInv, BackupTypeInv, UploadsOK, MissingOK, SuccessMeansCopied
<1> QED BY <1>a, <1>5 DEF BackupInv

LEMMA StageOfRow ==
  ASSUME NEW r \in RunRows, NEW stage \in {"staging", "shipping", "ended"}, NEW sound \in BOOLEAN
  PROVE  LET a == [r EXCEPT !.stage = stage]
             b == [r EXCEPT !.stage = stage, !.sound = sound]
         IN  /\ a \in RunRows /\ a.stage = stage /\ a.upload = r.upload
             /\ b \in RunRows /\ b.stage = stage /\ b.upload = r.upload
  BY DEF RunRows

LEMMA UploadOfRow ==
  ASSUME NEW r \in RunRows, NEW d \in Destinations, NEW end \in {"done", "failed"}
  PROVE  LET a == [r EXCEPT !.upload[d] = end]
         IN  a \in RunRows /\ a.stage = r.stage /\ a.upload = [r.upload EXCEPT ![d] = end]
  BY DEF RunRows

\* A run goes to another stage, and a file may appear: what is missing is what was missing.
LEMMA StageKeeps ==
  ASSUME BackupInv, NEW id \in Runs, NEW row \in RunRows,
         run' = [run EXCEPT ![id] = row], row.upload = run[id].upload,
         row.stage = "shipping" => "filesystem" \notin Destinations \/ id \in appeared',
         appeared \subseteq appeared', appeared' \subseteq Runs,
         DOMAIN files' \subseteq appeared', DOMAIN files \subseteq DOMAIN files',
         appeared' \ DOMAIN files' \subseteq appeared \ DOMAIN files,
         arrived' = arrived, SuccessMeansCopied', PrunesOK'
  PROVE  BackupInv'
<1>1. /\ run' \in [Runs -> RunRows] /\ \A i \in Runs : run'[i].upload = run[i].upload
      /\ \A i \in Runs : run'[i].stage = "shipping" => run[i].stage = "shipping" \/ i = id
  BY DEF BackupInv, BackupTypeInv
<1>2. BackupTypeInv'
  BY <1>1 DEF BackupInv, BackupTypeInv
<1>3. UploadsOK'
  <2> SUFFICES ASSUME NEW i \in Runs, NEW d \in Destinations
               PROVE  /\ run'[i].upload[d] = "done" <=> <<i, d>> \in arrived'
                      /\ d = "filesystem" /\ (run'[i].stage = "shipping" \/ run'[i].upload[d] = "done")
                           => i \in appeared'
    BY DEF UploadsOK
  <2>1. CASE i = id /\ run'[i].stage = "shipping"
    BY <1>1, <2>1 DEF BackupInv, UploadsOK, BackupTypeInv
  <2>2. CASE ~(i = id /\ run'[i].stage = "shipping")
    BY <1>1, <2>2 DEF BackupInv, UploadsOK
  <2> QED BY <2>1, <2>2
<1>4. MissingOK'
  BY <1>1, SuperfluousStays DEF BackupInv, MissingOK, BackupTypeInv
<1> QED BY <1>2, <1>3, <1>4 DEF BackupInv

LEMMA PrunesStay ==
  ASSUME BackupInv, appeared \subseteq appeared', appeared' \subseteq Runs,
         DOMAIN prunes' \subseteq DOMAIN prunes,
         \A i \in DOMAIN prunes' : prunes'[i] = prunes[i]
  PROVE  PrunesOK'
<1>1. ASSUME NEW i \in DOMAIN prunes', NEW L, L = prunes'[i] PROVE PruneOK(L)'
  BY <1>1, PruneStays DEF BackupInv, PrunesOK
<1> QED BY <1>1 DEF PrunesOK, PruneOK

LEMMA SuccessStays ==
  ASSUME BackupInv, arrived \subseteq arrived', manifests' \subseteq manifests
  PROVE  SuccessMeansCopied'
  BY DEF BackupInv, SuccessMeansCopied

LEMMA StagingKeeps ==
  ASSUME BackupInv, NEW id \in Runs, StagingFails(id) \/ Staged(id)
  PROVE  BackupInv'
<1>1. run[id] \in RunRows
  BY DEF BackupInv, BackupTypeInv
<1>2. CASE StagingFails(id)
  <2> DEFINE row == [run[id] EXCEPT !.stage = "ended"]
  <2>1. /\ run' = [run EXCEPT ![id] = row]
        /\ manifests' = Manifest(id, "failed", FALSE)
        /\ UNCHANGED <<files, prunes, appeared, arrived>>
    BY <1>2 DEF StagingFails
  <2>2. row \in RunRows /\ row.stage = "ended" /\ row.upload = run[id].upload
    BY <1>1, StageOfRow
  <2> HIDE DEF row
  <2>3. SuccessMeansCopied'
    BY <2>1 DEF BackupInv, SuccessMeansCopied, Manifest
  <2>4. PrunesOK'
    BY <2>1, PrunesStay DEF BackupInv, BackupTypeInv
  <2> QED BY <2>1, <2>2, <2>3, <2>4, StageKeeps DEF BackupInv, BackupTypeInv
<1>3. CASE Staged(id)
  <2>1. PICK row \in RunRows :
          run' = [run EXCEPT ![id] = row] /\ row.upload = run[id].upload
    <3> DEFINE a == [run[id] EXCEPT !.stage = "shipping"]
               b == [run[id] EXCEPT !.stage = "shipping", !.sound = FALSE]
    <3>1. run' = [run EXCEPT ![id] = a] \/ run' = [run EXCEPT ![id] = b]
      BY <1>1, <1>3 DEF Staged
    <3>2. a \in RunRows /\ b \in RunRows /\ a.upload = run[id].upload /\ b.upload = run[id].upload
      BY <1>1, StageOfRow
    <3> HIDE DEF a, b
    <3> QED BY <3>1, <3>2
  <2>2. /\ IF "filesystem" \in Destinations
             THEN files' = Put(files, id, "partial") /\ appeared' = appeared \cup {id}
             ELSE UNCHANGED <<files, appeared>>
        /\ UNCHANGED <<prunes, manifests, arrived>>
    BY <1>3 DEF Staged
  <2>3. /\ appeared \subseteq appeared' /\ appeared' \subseteq Runs
        /\ DOMAIN files' \subseteq appeared' /\ DOMAIN files \subseteq DOMAIN files'
        /\ appeared' \ DOMAIN files' \subseteq appeared \ DOMAIN files
        /\ "filesystem" \notin Destinations \/ id \in appeared'
    BY <2>2 DEF Put, BackupInv, BackupTypeInv
  <2>4. PrunesOK' /\ SuccessMeansCopied'
    BY <2>2, <2>3, PrunesStay, SuccessStays
  <2> QED BY <2>1, <2>2, <2>3, <2>4, StageKeeps
<1> QED BY <1>2, <1>3

LEMMA StartRunKeeps ==
  ASSUME BackupInv, StartRun
  PROVE  BackupInv'
<1>1. PICK id \in Runs : run' = [run EXCEPT ![id].stage = "staging"]
  BY DEF StartRun
<1>2. UNCHANGED <<files, prunes, manifests, appeared, arrived>>
  BY DEF StartRun
<1> DEFINE row == [run[id] EXCEPT !.stage = "staging"]
<1>3. run[id] \in RunRows /\ run' = [run EXCEPT ![id] = row]
  BY <1>1 DEF BackupInv, BackupTypeInv
<1>4. row \in RunRows /\ row.stage = "staging" /\ row.upload = run[id].upload
  BY <1>3, StageOfRow
<1> HIDE DEF row
<1>5. PrunesOK' /\ SuccessMeansCopied'
  BY <1>2, PrunesStay, SuccessStays DEF BackupInv, BackupTypeInv
<1> QED BY <1>2, <1>3, <1>4, <1>5, StageKeeps DEF BackupInv, BackupTypeInv

\* A manifest says success when every upload is done, and done uploads have arrived.
LEMMA FinishKeeps ==
  ASSUME BackupInv, NEW id \in Runs, Finish(id)
  PROVE  BackupInv'
<1> DEFINE row == [run[id] EXCEPT !.stage = "ended"]
<1>1. /\ run[id] \in RunRows /\ run' = [run EXCEPT ![id] = row]
      /\ Shipped(id) /\ manifests' = Manifest(id, Status(id), run[id].sound)
      /\ prunes' = IF "filesystem" \in Destinations /\ RetentionCount > 0
                     THEN Put(prunes, id, {0}) ELSE prunes
      /\ UNCHANGED <<files, appeared, arrived>>
  BY DEF Finish, BackupInv, BackupTypeInv
<1>2. row \in RunRows /\ row.stage = "ended" /\ row.upload = run[id].upload
  BY <1>1, StageOfRow
<1> HIDE DEF row
<1>3. Status(id) = "success" => \A d \in Destinations : <<id, d>> \in arrived
  <2>1. \A d \in Destinations : run[id].upload[d] \in {"pending", "done", "failed"}
                                  /\ run[id].upload[d] \in Results(id)
    BY <1>1 DEF RunRows, Results
  <2>2. Status(id) = "success" => \A d \in Destinations : run[id].upload[d] = "done"
    BY <1>1, <2>1 DEF Shipped, Status
  <2> QED BY <2>2 DEF BackupInv, UploadsOK
<1>4. SuccessMeansCopied'
  BY <1>1, <1>3 DEF BackupInv, SuccessMeansCopied, Manifest
<1>5. ASSUME NEW i \in DOMAIN prunes', NEW L, L = prunes'[i] PROVE PruneOK(L)'
  <2>1. L = {0} \/ (i \in DOMAIN prunes /\ L = prunes[i])
    BY <1>1, <1>5 DEF Put
  <2>2. L = {0} \/ PruneOK(L)
    BY <2>1 DEF BackupInv, PrunesOK
  <2> QED BY <1>1, <2>2, PruneStays DEF PruneOK, BackupInv, BackupTypeInv
<1>6. PrunesOK'
  BY <1>5 DEF PrunesOK, PruneOK
<1> QED BY <1>1, <1>2, <1>4, <1>6, StageKeeps DEF BackupInv, BackupTypeInv

\* An upload ends.
LEMMA UploadKeeps ==
  ASSUME BackupInv, NEW id \in Runs, NEW d \in Destinations, NEW end \in {"done", "failed"},
         Uploading(id, d), run' = [run EXCEPT ![id].upload[d] = end],
         DOMAIN files' = DOMAIN files \/ (end = "failed" /\ d = "filesystem" /\ DOMAIN files' = DOMAIN files \ {id}),
         arrived' = IF end = "done" THEN arrived \cup {<<id, d>>} ELSE arrived,
         UNCHANGED <<prunes, manifests, appeared>>
  PROVE  BackupInv'
<1> DEFINE row == [run[id] EXCEPT !.upload[d] = end]
<1>1. run[id] \in RunRows /\ run' = [run EXCEPT ![id] = row]
  BY DEF BackupInv, BackupTypeInv
<1>2. row \in RunRows /\ row.stage = run[id].stage /\ row.upload = [run[id].upload EXCEPT ![d] = end]
  BY <1>1, UploadOfRow
<1> HIDE DEF row
<1>3. /\ run' \in [Runs -> RunRows] /\ run'[id] = row
      /\ \A i \in Runs \ {id} : run'[i] = run[i]
  BY <1>1, <1>2 DEF BackupInv, BackupTypeInv
<1>4. run[id].upload \in [Destinations -> {"pending", "done", "failed"}]
      /\ run[id].upload[d] = "pending" /\ run[id].stage = "shipping"
  BY <1>1 DEF RunRows, Uploading
<1>5. row.upload[d] = end /\ \A e \in Destinations \ {d} : row.upload[e] = run[id].upload[e]
  BY <1>2, <1>4
<1>6. BackupTypeInv'
  BY <1>3 DEF BackupInv, BackupTypeInv
<1>7. UploadsOK'
  <2> SUFFICES ASSUME NEW i \in Runs, NEW e \in Destinations
               PROVE  /\ run'[i].upload[e] = "done" <=> <<i, e>> \in arrived'
                      /\ e = "filesystem" /\ (run'[i].stage = "shipping" \/ run'[i].upload[e] = "done")
                           => i \in appeared'
    BY DEF UploadsOK
  <2>1. CASE i = id /\ e = d
    BY <1>2, <1>3, <1>4, <1>5, <2>1 DEF BackupInv, UploadsOK
  <2>2. CASE i = id /\ e # d
    BY <1>2, <1>3, <1>4, <1>5, <2>2 DEF BackupInv, UploadsOK
  <2>3. CASE i # id
    BY <1>3, <2>3 DEF BackupInv, UploadsOK
  <2> QED BY <2>1, <2>2, <2>3
<1>8. MissingOK'
  <2> SUFFICES ASSUME NEW i \in appeared', i \notin DOMAIN files'
               PROVE  Superfluous(i)' \/ run'[i].upload["filesystem"] = "failed"
    BY DEF MissingOK
  <2>1. Superfluous(i)' <=> Superfluous(i)
    BY DEF Superfluous, Later
  <2>2. i \in Runs
    BY DEF BackupInv, BackupTypeInv
  <2>3. CASE i \notin DOMAIN files
    <3>1. Superfluous(i) \/ run[i].upload["filesystem"] = "failed"
      BY <2>3 DEF BackupInv, MissingOK
    <3>2. CASE i = id /\ run[id].upload["filesystem"] = "failed"
      <4>1. "filesystem" # d /\ run'[id].upload = [run[id].upload EXCEPT ![d] = end]
        BY <1>2, <1>3, <1>4, <3>2
      <4> QED BY <1>4, <3>2, <4>1
    <3> QED BY <1>3, <2>1, <2>2, <3>1, <3>2
  <2>4. CASE i \in DOMAIN files
    BY <1>3, <1>5, <2>4
  <2> QED BY <2>3, <2>4
<1>9. PrunesOK' /\ SuccessMeansCopied'
  BY PrunesStay, SuccessStays DEF BackupInv, BackupTypeInv
<1> QED BY <1>6, <1>7, <1>8, <1>9 DEF BackupInv

LEMMA EndOfUploadKeeps ==
  ASSUME BackupInv, NEW id \in Runs,
         CopyDone(id) \/ UploadDone(id) \/ \E d \in Destinations : UploadFails(id, d)
  PROVE  BackupInv'
<1>1. CASE CopyDone(id)
  <2>1. /\ Uploading(id, "filesystem") /\ "filesystem" \in Destinations
        /\ run' = [run EXCEPT ![id].upload["filesystem"] = "done"]
        /\ DOMAIN files' = DOMAIN files
        /\ arrived' = arrived \cup {<<id, "filesystem">>}
        /\ UNCHANGED <<prunes, manifests, appeared>>
    BY <1>1 DEF CopyDone, Uploading
  <2> QED BY <2>1, UploadKeeps
<1>2. CASE UploadDone(id)
  <2>1. /\ Uploading(id, "s3") /\ "s3" \in Destinations
        /\ run' = [run EXCEPT ![id].upload["s3"] = "done"]
        /\ DOMAIN files' = DOMAIN files
        /\ arrived' = arrived \cup {<<id, "s3">>}
        /\ UNCHANGED <<prunes, manifests, appeared>>
    BY <1>2 DEF UploadDone, Uploading
  <2> QED BY <2>1, UploadKeeps
<1>3. CASE \E d \in Destinations : UploadFails(id, d)
  <2>1. PICK d \in Destinations : UploadFails(id, d)
    BY <1>3
  <2>2. /\ Uploading(id, d) /\ run' = [run EXCEPT ![id].upload[d] = "failed"]
        /\ DOMAIN files' = DOMAIN files \/ (d = "filesystem" /\ DOMAIN files' = DOMAIN files \ {id})
        /\ arrived' = arrived /\ UNCHANGED <<prunes, manifests, appeared>>
    BY <2>1 DEF UploadFails, Drop
  <2> QED BY <2>2, UploadKeeps
<1> QED BY <1>1, <1>2, <1>3

\* A crash ends every run under way, and what it had done or failed to do stays as it was.
LEMMA CrashKeeps ==
  ASSUME BackupInv, Crash
  PROVE  BackupInv'
<1>1. /\ run' = [id \in Runs |-> IF id \in Started THEN [run[id] EXCEPT !.stage = "ended"] ELSE run[id]]
      /\ DOMAIN prunes' = {} /\ manifests' = {} /\ UNCHANGED <<files, appeared, arrived>>
  BY DEF Crash
<1>2. ASSUME NEW i \in Runs
      PROVE  /\ run'[i] \in RunRows /\ run'[i].upload = run[i].upload
             /\ run'[i].stage = "shipping" => run[i].stage = "shipping"
  <2> DEFINE row == [run[i] EXCEPT !.stage = "ended"]
  <2>1. run[i] \in RunRows /\ (run'[i] = row \/ run'[i] = run[i])
    BY <1>1 DEF BackupInv, BackupTypeInv
  <2>2. row \in RunRows /\ row.stage = "ended" /\ row.upload = run[i].upload
    BY <2>1, StageOfRow
  <2> HIDE DEF row
  <2> QED BY <2>1, <2>2
<1>3. run' \in [Runs -> RunRows]
  BY <1>1, <1>2
<1>4. BackupTypeInv' /\ UploadsOK'
  BY <1>1, <1>2, <1>3 DEF BackupInv, BackupTypeInv, UploadsOK
<1>5. MissingOK'
  BY <1>1, <1>2, SuperfluousStays DEF BackupInv, MissingOK, BackupTypeInv
<1>6. PrunesOK' /\ SuccessMeansCopied'
  BY <1>1 DEF PrunesOK, SuccessMeansCopied
<1> QED BY <1>4, <1>5, <1>6 DEF BackupInv

LEMMA BackupStep == BackupInv /\ [BackupNext]_backupVars => BackupInv'
<1> SUFFICES ASSUME BackupInv, [BackupNext]_backupVars PROVE BackupInv'
  OBVIOUS
<1>1. CASE StartRun
  BY <1>1, StartRunKeeps
<1>2. ASSUME NEW id \in Runs, Step(id) PROVE BackupInv'
  BY <1>2, StagingKeeps, EndOfUploadKeeps, FinishKeeps, ListKeeps, UnlinkKeeps DEF Step
<1>3. CASE Crash
  BY <1>3, CrashKeeps
<1>4. CASE UNCHANGED <<run, files, prunes, manifests, appeared, arrived>>
  <2>1. \A g : Superfluous(g)' <=> Superfluous(g)
    BY <1>4 DEF Superfluous, Later
  <2>2. BackupTypeInv' /\ UploadsOK' /\ MissingOK' /\ SuccessMeansCopied'
    BY <1>4, <2>1 DEF BackupInv, BackupTypeInv, UploadsOK, MissingOK, SuccessMeansCopied
  <2>3. PrunesOK'
    BY <1>4, PrunesStay DEF BackupInv, BackupTypeInv
  <2> QED BY <2>2, <2>3 DEF BackupInv
<1>5. TriggerFailover \/ VerifyReplica \/ ClearFailover \/ NextDay \/ UNCHANGED backupVars
      => UNCHANGED <<run, files, prunes, manifests, appeared, arrived>>
  BY DEF TriggerFailover, VerifyReplica, ClearFailover, NextDay, backupVars
<1> QED BY <1>1, <1>2, <1>3, <1>4, <1>5 DEF BackupNext

\* What the backups keep: a copy is complete exactly when its upload is done, and a file that
\* is no longer in the directory was never finished or had RetentionCount later ones.
THEOREM BackupInvariant == BackupSpec => []BackupInv
  BY BackupInvInit, BackupStep, PTL DEF BackupSpec

\* Retention never takes one of the last RetentionCount copies, for any number of runs whose
\* uploads, prunings and crashes overlap in any order (runBackup and pruneFilesystem).
THEOREM NewestKept == BackupSpec => []NewestAreKept
<1>1. BackupInv => NewestAreKept
  <2> SUFFICES ASSUME BackupInv, NEW id \in Runs, <<id, "filesystem">> \in arrived,
                      Cardinality({later \in appeared : later > id}) < RetentionCount
               PROVE  id \in DOMAIN files
    BY DEF NewestAreKept
  <2>1. "filesystem" \in Destinations
    BY DEF BackupInv, BackupTypeInv
  <2>2. run[id].upload["filesystem"] = "done" /\ id \in appeared
    BY <2>1 DEF BackupInv, UploadsOK
  <2>3. Later(id) \subseteq Runs
    BY DEF Later, BackupInv, BackupTypeInv
  <2>4. Cardinality(Later(id)) \in Nat
    BY <2>3, RunsFinite, FS_Subset, FS_CardinalityType
  <2>5. ~Superfluous(id)
    BY <2>4, ReplicationAssumption DEF Superfluous, Later
  <2> QED BY <2>2, <2>5 DEF BackupInv, MissingOK
<1> QED BY <1>1, BackupInvariant, PTL

\* A manifest that says success is about a run of which every destination has got its complete
\* copy, whatever was pruned, lost or retried around it (runBackup).
THEOREM CopiedWhenSuccess == BackupSpec => []SuccessMeansCopied
<1>1. BackupInv => SuccessMeansCopied
  BY DEF BackupInv
<1> QED BY <1>1, BackupInvariant, PTL

-----------------------------------------------------------------------------
(* The rate limit.  A bucket's tokens are what the client may still get:   *)
(* what it was granted and what its bucket holds never exceed together     *)
(* what the buckets it was given held at first and what time has added.    *)

\* Multiplication is monotone.
LEMMA TimesMonotone ==
  ASSUME NEW a \in Nat, NEW b \in Nat, NEW d \in Nat, a <= b
  PROVE  a * d <= b * d
<1>1. PICK e \in Nat : b = a + e
  <2>1. b - a \in Nat /\ b = a + (b - a)
    OBVIOUS
  <2> QED BY <2>1
<1>2. b * d = a * d + e * d
  BY <1>1, Z3
<1>3. e * d \in Nat /\ a * d \in Nat
  BY Z3
<1> QED BY <1>2, <1>3

\* A product over a stretch of time is the sum of the products over its parts.
LEMMA TimesSplits ==
  ASSUME NEW m \in Int, NEW r \in Int, NEW s \in Int, NEW t \in Int
  PROVE  m * (t - s) = m * (r - s) + m * (t - r)
  BY Z3

\* What the first buckets of a client could hold, and what a stretch of time adds.
Held(MaxCapacity, c) == Token * MaxCapacity * (1 + created[c])
Since(c) == IF store[c].lastRefill > since THEN store[c].lastRefill ELSE since

\* A client that was granted a request since the watch began has had its bucket refilled
\* since: what it held before the watch is no longer in it.
AccountOK(MaxCapacity, MaxRate, c) ==
  IF c \in DOMAIN store
  THEN /\ store[c].capacity <= Token * MaxCapacity
       /\ store[c].rate <= MaxRate
       /\ store[c].lastRefill < since => granted[c] = 0
       /\ Token * granted[c] + store[c].tokens
            <= Held(MaxCapacity, c) + MaxRate * (Since(c) - since)
  ELSE Token * granted[c] <= Held(MaxCapacity, c) + MaxRate * (now - since)

RateInv(MaxCapacity, MaxRate) ==
  /\ TypeOK
  /\ \A c \in Clients : AccountOK(MaxCapacity, MaxRate, c)

-----------------------------------------------------------------------------
(* Facts about a bucket. *)

LEMMA RefilledIs ==
  ASSUME NEW b \in Bucket
  PROVE  Refilled(b) =
           [capacity |-> b.capacity, rate |-> b.rate,
            tokens |-> Smaller(b.capacity, b.tokens + (now - b.lastRefill) * b.rate),
            lastRefill |-> now]
<1> DEFINE x == Smaller(b.capacity, b.tokens + (now - b.lastRefill) * b.rate)
<1>1. Refilled(b) = [b EXCEPT !.tokens = x, !.lastRefill = now]
  BY DEF Refilled
<1> HIDE DEF x
<1> QED BY <1>1 DEF Bucket, x

\* A bucket that is created or refilled is a bucket, full or not, of this moment.
LEMMA FoundOK ==
  ASSUME TypeOK, NEW MaxCapacity \in Nat, NEW MaxRate \in Nat, WithinTier(MaxCapacity, MaxRate),
         NEW c \in Clients, NEW tier \in Tiers,
         c \in DOMAIN store =>
           store[c].capacity <= Token * MaxCapacity /\ store[c].rate <= MaxRate
  PROVE  /\ Found(c, tier) \in Bucket
         /\ Found(c, tier).tokens <= Found(c, tier).capacity
         /\ Found(c, tier).lastRefill = now
         /\ Found(c, tier).capacity <= Token * MaxCapacity
         /\ Found(c, tier).rate <= MaxRate
<1>1. now \in Nat
  BY DEF TypeOK
<1>2. CASE c \in DOMAIN store
  <2> DEFINE b == store[c]
  <2>1. /\ b \in Bucket /\ b.tokens <= b.capacity /\ b.lastRefill <= now
        /\ b.capacity <= Token * MaxCapacity /\ b.rate <= MaxRate
    BY <1>2 DEF TypeOK
  <2>2. b = [capacity |-> b.capacity, rate |-> b.rate, tokens |-> b.tokens, lastRefill |-> b.lastRefill]
        /\ b.capacity \in Nat /\ b.rate \in Nat /\ b.tokens \in Nat /\ b.lastRefill \in Nat
    BY <2>1 DEF Bucket
  <2>3. (now - b.lastRefill) * b.rate \in Nat
    <3>1. now - b.lastRefill \in Nat
      BY <1>1, <2>1, <2>2
    <3> HIDE DEF b
    <3> QED BY <3>1, <2>2, Z3
  <2>4. Found(c, tier) = Refilled(b)
    BY <1>2 DEF Found
  <2> DEFINE x == b.tokens + (now - b.lastRefill) * b.rate
  <2>5. x \in Nat
    BY <2>2, <2>3
  <2>6. Refilled(b) = [capacity |-> b.capacity, rate |-> b.rate,
                       tokens |-> Smaller(b.capacity, x), lastRefill |-> now]
    BY <2>1, RefilledIs
  <2> HIDE DEF b, x
  <2> QED BY <1>1, <2>1, <2>2, <2>4, <2>5, <2>6 DEF Bucket, Smaller
<1>3. CASE c \notin DOMAIN store
  <2>1. /\ BurstCapacity[tier] \in Nat /\ RequestsPerMinute[tier] \in Nat
        /\ BurstCapacity[tier] <= MaxCapacity /\ RequestsPerMinute[tier] <= MaxRate
    BY DEF WithinTier
  <2>2. Found(c, tier) = Full(tier)
    BY <1>3 DEF Found
  <2> QED BY <1>1, <2>1, <2>2 DEF Full, Bucket, Token
<1> QED BY <1>2, <1>3

LEMMA ConsumedOK ==
  ASSUME NEW b \in Bucket, b.tokens <= b.capacity
  PROVE  /\ Consumed(b) \in Bucket
         /\ Consumed(b).capacity = b.capacity /\ Consumed(b).rate = b.rate
         /\ Consumed(b).lastRefill = b.lastRefill
         /\ Consumed(b).tokens = IF b.tokens >= Token THEN b.tokens - Token ELSE b.tokens
  BY DEF Consumed, Bucket, Token

-----------------------------------------------------------------------------
(* A request. *)

\* What the client was granted and what its bucket holds once it is found, and refilled or
\* created.
LEMMA FoundAccount ==
  ASSUME NEW MaxCapacity \in Nat, NEW MaxRate \in Nat, WithinTier(MaxCapacity, MaxRate),
         RateInv(MaxCapacity, MaxRate), NEW c \in Clients, NEW tier \in Tiers
  PROVE  Token * granted[c] + Found(c, tier).tokens
           <= Token * MaxCapacity * (1 + IF c \in DOMAIN store THEN created[c] ELSE created[c] + 1)
              + MaxRate * (now - since)
<1> DEFINE K == Token * MaxCapacity
           h == K * (1 + created[c])
           H == K * (1 + IF c \in DOMAIN store THEN created[c] ELSE created[c] + 1)
           T == MaxRate * (now - since)
           p == Token * granted[c]
           f == Found(c, tier).tokens
<1> SUFFICES p + f <= H + T
  OBVIOUS
<1>1. /\ now \in Nat /\ since \in Nat /\ since <= now /\ granted[c] \in Nat /\ created[c] \in Nat
      /\ K \in Nat /\ AccountOK(MaxCapacity, MaxRate, c) /\ TypeOK
  BY DEF RateInv, TypeOK, Token
<1>2. c \in DOMAIN store => store[c].capacity <= K /\ store[c].rate <= MaxRate
  BY <1>1 DEF AccountOK
<1>3. Found(c, tier) \in Bucket /\ Found(c, tier).tokens <= K
  <2>1. /\ Found(c, tier) \in Bucket /\ Found(c, tier).tokens <= Found(c, tier).capacity
        /\ Found(c, tier).capacity <= K
    BY <1>1, <1>2, FoundOK
  <2> QED BY <2>1, <1>1 DEF Bucket
<1>4. T \in Nat
  <2>1. now - since \in Nat
    BY <1>1
  <2> QED BY <2>1, Z3
<1>5. /\ h >= K /\ h \in Nat /\ H = IF c \in DOMAIN store THEN h ELSE h + K
      /\ p \in Nat /\ f \in Nat /\ f <= K
  <2>1. PICK n \in Nat : n = created[c]
    BY <1>1
  <2>2. K * (1 + n) = K + K * n /\ K * n \in Nat /\ K * (1 + (n + 1)) = K * (1 + n) + K
    <3> HIDE DEF K
    <3> QED BY <1>1, Z3
  <2>3. p \in Nat /\ f \in Nat
    BY <1>1, <1>3 DEF Bucket, Token
  <2> HIDE DEF K, p, f
  <2> QED BY <2>1, <2>2, <2>3, <1>1, <1>3 DEF f
<1>6. CASE c \notin DOMAIN store
  <2>1. p <= h + T
    BY <1>1, <1>6 DEF AccountOK, Held
  <2> HIDE DEF K, h, H, T, p, f
  <2> QED BY <2>1, <1>1, <1>4, <1>5, <1>6
<1>7. CASE c \in DOMAIN store
  <2> DEFINE b == store[c]
  <2>1. /\ b \in Bucket /\ b.capacity \in Nat /\ b.rate \in Nat /\ b.tokens \in Nat
        /\ b.lastRefill \in Nat /\ b.lastRefill <= now /\ b.rate <= MaxRate
    BY <1>1, <1>2, <1>7 DEF TypeOK, Bucket
  <2>2. CASE b.lastRefill < since
    <3>1. p = 0
      BY <1>1, <1>7, <2>2 DEF AccountOK, Token
    <3> HIDE DEF K, h, H, T, p, f
    <3> QED BY <3>1, <1>1, <1>4, <1>5, <1>7
  <2>3. CASE ~(b.lastRefill < since)
    <3> DEFINE before == MaxRate * (b.lastRefill - since)
               after  == MaxRate * (now - b.lastRefill)
               added  == (now - b.lastRefill) * b.rate
    <3>1. p + b.tokens <= h + before
      <4>1. Since(c) = b.lastRefill
        BY <2>1, <2>3, <1>1 DEF Since
      <4> QED BY <4>1, <1>1, <1>7 DEF AccountOK, Held
    <3>2. added <= after /\ added \in Nat /\ after \in Nat
      <4>1. PICK d \in Nat : d = now - b.lastRefill
        BY <1>1, <2>1
      <4>2. PICK r \in Nat : r = b.rate
        BY <2>1
      <4>3. r * d <= MaxRate * d /\ r * d \in Nat /\ MaxRate * d \in Nat /\ d * r = r * d
        <5>1. r * d <= MaxRate * d
          BY <2>1, <4>2, TimesMonotone
        <5> QED BY <5>1, Z3
      <4> QED BY <4>1, <4>2, <4>3
    <3>3. T = before + after
      BY <1>1, <2>1, TimesSplits
    <3>4. before \in Nat
      <4>1. PICK e \in Nat : e = b.lastRefill - since
        BY <1>1, <2>1, <2>3
      <4>2. MaxRate * e \in Nat
        BY Z3
      <4> QED BY <4>1, <4>2
    <3>5. f <= b.tokens + added
      <4> DEFINE x == b.tokens + added
      <4>1. x \in Nat
        BY <2>1, <3>2
      <4>2. f = Smaller(b.capacity, x)
        BY <1>7, <2>1, RefilledIs DEF Found
      <4> HIDE DEF x, b, f
      <4>3. Smaller(b.capacity, x) <= x
        BY <4>1, <2>1 DEF Smaller
      <4> QED BY <4>2, <4>3 DEF x
    <3>6. b.tokens \in Nat
      BY <2>1
    <3> HIDE DEF K, h, H, T, p, f, before, after, added, b
    <3> QED BY <3>1, <3>2, <3>3, <3>4, <3>5, <3>6, <1>4, <1>5, <1>7
  <2> QED BY <2>2, <2>3
<1> QED BY <1>6, <1>7

LEMMA RequestStep ==
  ASSUME NEW MaxCapacity \in Nat, NEW MaxRate \in Nat, WithinTier(MaxCapacity, MaxRate),
         RateInv(MaxCapacity, MaxRate), NEW c \in Clients, NEW tier \in Tiers, Request(c, tier)
  PROVE  RateInv(MaxCapacity, MaxRate)'
<1> DEFINE bucket == Found(c, tier)
           left  == Consumed(bucket)
<1>1. /\ TypeOK /\ now \in Nat /\ since \in Nat /\ since <= now
      /\ DOMAIN store \subseteq Clients /\ c \in Clients
      /\ granted \in [Clients -> Nat] /\ created \in [Clients -> Nat]
      /\ \A d \in Clients : AccountOK(MaxCapacity, MaxRate, d)
  BY DEF RateInv, TypeOK
<1>2. c \in DOMAIN store =>
        store[c].capacity <= Token * MaxCapacity /\ store[c].rate <= MaxRate
  BY <1>1 DEF AccountOK
<1>3. /\ bucket \in Bucket /\ bucket.tokens <= bucket.capacity /\ bucket.lastRefill = now
      /\ bucket.capacity <= Token * MaxCapacity /\ bucket.rate <= MaxRate
  BY <1>1, <1>2, FoundOK
<1>4. /\ left \in Bucket /\ left.capacity = bucket.capacity /\ left.rate = bucket.rate
      /\ left.lastRefill = now
      /\ left.tokens = IF bucket.tokens >= Token THEN bucket.tokens - Token ELSE bucket.tokens
  <2> HIDE DEF bucket
  <2> QED BY <1>3, ConsumedOK DEF left
<1>5. /\ store' = [d \in (DOMAIN store \ Evicted(c)) \cup {c} |-> IF d = c THEN left ELSE store[d]]
      /\ granted' = IF bucket.tokens >= Token THEN [granted EXCEPT ![c] = @ + 1] ELSE granted
      /\ created' = IF c \in DOMAIN store THEN created ELSE [created EXCEPT ![c] = @ + 1]
      /\ now' = now /\ since' = since
  BY DEF Request
<1>6. /\ DOMAIN store' = (DOMAIN store \ Evicted(c)) \cup {c} /\ c \in DOMAIN store'
      /\ store'[c] = left
      /\ \A d \in DOMAIN store' : d # c => d \in DOMAIN store /\ store'[d] = store[d]
  <2> HIDE DEF left, bucket
  <2> QED BY <1>5
<1>7. /\ left.tokens <= left.capacity
      /\ left.tokens \in Nat /\ bucket.tokens \in Nat
  <2> HIDE DEF left, bucket
  <2> QED BY <1>3, <1>4 DEF Bucket, Token
<1>8. TypeOK'
  <2> HIDE DEF left, bucket
  <2>1. /\ DOMAIN store' \subseteq Clients /\ now' \in Nat /\ since' \in 0 .. now'
    BY <1>1, <1>5, <1>6
  <2>2. \A d \in DOMAIN store' : store'[d] \in Bucket
    BY <1>1, <1>4, <1>6 DEF TypeOK
  <2>3. \A d \in DOMAIN store' :
          store'[d].tokens <= store'[d].capacity /\ store'[d].lastRefill <= now'
    BY <1>1, <1>4, <1>5, <1>6, <1>7 DEF TypeOK
  <2>4. granted' \in [Clients -> Nat] /\ created' \in [Clients -> Nat]
    BY <1>1, <1>5
  <2>5. store' \in [DOMAIN store' -> Bucket]
    <3>1. store' = [d \in DOMAIN store' |-> store'[d]]
      BY <1>5, <1>6
    <3> QED BY <2>2, <3>1
  <2> QED BY <2>1, <2>3, <2>4, <2>5 DEF TypeOK
<1>9. ASSUME NEW d \in Clients PROVE AccountOK(MaxCapacity, MaxRate, d)'
  <2>1. CASE d = c
    <3> DEFINE K == Token * MaxCapacity
               g == Token * granted[c]
               H == K * (1 + IF c \in DOMAIN store THEN created[c] ELSE created[c] + 1)
               T == MaxRate * (now - since)
    <3>1. g + bucket.tokens <= H + T
      BY <1>1, FoundAccount
    <3>2. Held(MaxCapacity, c)' = H
      BY <1>1, <1>5 DEF Held
    <3>3. Token * granted'[c] = IF bucket.tokens >= Token THEN g + Token ELSE g
      <4>1. granted[c] \in Nat
            /\ granted'[c] = IF bucket.tokens >= Token THEN granted[c] + 1 ELSE granted[c]
        <5> HIDE DEF bucket
        <5> QED BY <1>1, <1>5
      <4> HIDE DEF bucket
      <4> QED BY <4>1 DEF Token
    <3>4. Since(c)' = now
      BY <1>1, <1>4, <1>5, <1>6 DEF Since
    <3>5. Token * granted'[c] + left.tokens <= H + T
      <4>1. g \in Nat /\ H \in Int /\ T \in Int
        <5>1. granted[c] \in Nat /\ created[c] \in Nat /\ K \in Nat
          BY <1>1 DEF Token
        <5> QED BY <5>1, <1>1 DEF Token
      <4> HIDE DEF g, H, T, left, bucket
      <4> QED BY <3>1, <3>3, <4>1, <1>4, <1>7 DEF Token
    <3>6. ~(left.lastRefill < since)
      <4> HIDE DEF left, bucket
      <4> QED BY <1>1, <1>4
    <3>7. Token * granted'[c] + left.tokens <= Held(MaxCapacity, c)' + MaxRate * (Since(c)' - since)
      <4> HIDE DEF left, bucket
      <4> QED BY <3>2, <3>4, <3>5
    <3> HIDE DEF left, bucket, H, T, g
    <3> QED BY <2>1, <3>6, <3>7, <1>1, <1>3, <1>4, <1>5, <1>6 DEF AccountOK
  <2>2. CASE d # c
    <3>1. granted'[d] = granted[d] /\ created'[d] = created[d]
      BY <1>1, <1>5, <2>2
    <3>2. CASE d \in DOMAIN store'
      <4>1. d \in DOMAIN store /\ store'[d] = store[d]
        BY <1>6, <2>2, <3>2
      <4> QED BY <4>1, <3>1, <3>2, <1>1, <1>5 DEF AccountOK, Held, Since
    <3>3. CASE d \notin DOMAIN store' /\ d \notin DOMAIN store
      BY <3>1, <3>3, <1>1, <1>5 DEF AccountOK, Held
    <3>4. CASE d \notin DOMAIN store' /\ d \in DOMAIN store
      <4> DEFINE g == Token * granted[d]
                 h == Held(MaxCapacity, d)
                 t == MaxRate * (Since(d) - since)
                 T == MaxRate * (now - since)
      <4>1. store[d] \in Bucket /\ store[d].tokens \in Nat /\ store[d].lastRefill \in Nat
            /\ store[d].lastRefill <= now /\ g + store[d].tokens <= h + t
        BY <3>4, <1>1 DEF AccountOK, TypeOK, Bucket
      <4>2. Since(d) \in Nat /\ since <= Since(d) /\ Since(d) <= now
        BY <1>1, <4>1 DEF Since
      <4>3. t <= T /\ t \in Int /\ T \in Int
        <5>1. PICK e \in Nat : e = now - Since(d)
          BY <4>2, <1>1
        <5>2. T = t + MaxRate * e
          BY <4>2, <5>1, <1>1, TimesSplits
        <5>3. MaxRate * e \in Nat
          BY Z3
        <5>4. t \in Int
          BY <4>2, <1>1
        <5> HIDE DEF t, T
        <5> QED BY <5>2, <5>3, <5>4
      <4>4. g \in Nat /\ h \in Int
        BY <1>1 DEF Held, Token
      <4>5. g <= h + T
        <5> HIDE DEF g, h, t, T
        <5> QED BY <4>1, <4>3, <4>4
      <4> QED BY <4>5, <3>1, <3>4, <1>1, <1>5 DEF AccountOK, Held
    <3> QED BY <3>2, <3>3, <3>4
  <2> QED BY <2>1, <2>2
<1> QED BY <1>8, <1>9 DEF RateInv

-----------------------------------------------------------------------------
(* Time and the watch. *)

LEMMA TimeStep ==
  ASSUME NEW MaxCapacity \in Nat, NEW MaxRate \in Nat, RateInv(MaxCapacity, MaxRate),
         MaxTime \in Nat, TimePasses
  PROVE  RateInv(MaxCapacity, MaxRate)'
<1>1. /\ TypeOK /\ now \in Nat /\ since \in Nat /\ since <= now
      /\ \A d \in Clients : AccountOK(MaxCapacity, MaxRate, d)
      /\ granted \in [Clients -> Nat] /\ created \in [Clients -> Nat]
  BY DEF RateInv, TypeOK
<1>2. /\ now' \in Nat /\ now < now'
      /\ UNCHANGED <<store, recency, granted, created, since>>
  BY <1>1 DEF TimePasses
<1>3. TypeOK'
  BY <1>1, <1>2 DEF TypeOK, Bucket
<1>4. ASSUME NEW d \in Clients PROVE AccountOK(MaxCapacity, MaxRate, d)'
  <2>1. CASE d \in DOMAIN store
    BY <1>1, <1>2, <2>1 DEF AccountOK, Held, Since
  <2>2. CASE d \notin DOMAIN store
    <3> DEFINE g == Token * granted[d]
               h == Held(MaxCapacity, d)
               T == MaxRate * (now - since)
               U == MaxRate * (now' - since)
    <3>1. g <= h + T
      BY <1>1, <2>2 DEF AccountOK
    <3>2. PICK e \in Nat : e = now' - now
      <4>1. \A a, b \in Nat : a < b => \E e \in Nat : e = b - a
        OBVIOUS
      <4> QED BY <4>1, <1>1, <1>2, Zenon
    <3>3. U = T + MaxRate * e
      BY <3>2, <1>1, <1>2, TimesSplits
    <3>4. MaxRate * e \in Nat
      BY Z3
    <3>5. g \in Nat /\ h \in Int /\ T \in Int
      BY <1>1 DEF Held, Token
    <3>6. g <= h + U
      <4> HIDE DEF g, h, T, U
      <4> QED BY <3>1, <3>3, <3>4, <3>5
    <3> QED BY <3>6, <1>2, <2>2 DEF AccountOK, Held
  <2> QED BY <2>1, <2>2
<1> QED BY <1>3, <1>4 DEF RateInv

LEMMA WatchStep ==
  ASSUME NEW MaxCapacity \in Nat, NEW MaxRate \in Nat, RateInv(MaxCapacity, MaxRate), WatchBegins
  PROVE  RateInv(MaxCapacity, MaxRate)'
<1>1. /\ TypeOK /\ now \in Nat
      /\ \A d \in Clients : AccountOK(MaxCapacity, MaxRate, d)
  BY DEF RateInv, TypeOK
<1>2. /\ since' = now /\ now' = now /\ store' = store
      /\ granted' = [c \in Clients |-> 0] /\ created' = [c \in Clients |-> 0]
  BY DEF WatchBegins
<1>3. TypeOK'
  BY <1>1, <1>2 DEF TypeOK
<1>4. ASSUME NEW d \in Clients PROVE AccountOK(MaxCapacity, MaxRate, d)'
  <2> DEFINE K == Token * MaxCapacity
  <2>1. K \in Nat /\ granted'[d] = 0 /\ created'[d] = 0
    BY <1>2 DEF Token
  <2>2. Held(MaxCapacity, d)' = K
    <3>1. Held(MaxCapacity, d)' = K * (1 + 0)
      BY <2>1 DEF Held
    <3> HIDE DEF K
    <3> QED BY <2>1, <3>1
  <2>3. Token * granted'[d] = 0 /\ MaxRate * (now' - since') = 0
    BY <1>1, <1>2, <2>1 DEF Token
  <2>4. CASE d \in DOMAIN store
    <3>1. store[d].lastRefill \in Nat /\ store[d].lastRefill <= now
          /\ store[d].tokens \in Nat /\ store[d].capacity \in Nat
          /\ store[d].tokens <= store[d].capacity
          /\ store[d].capacity <= K /\ store[d].rate <= MaxRate
      BY <1>1, <2>4 DEF AccountOK, TypeOK, Bucket
    <3>2. Since(d)' = now
      BY <1>1, <1>2, <3>1 DEF Since
    <3>3. Token * granted'[d] + store[d].tokens <= Held(MaxCapacity, d)' + MaxRate * (Since(d)' - since')
      <4>1. MaxRate * (Since(d)' - since') = 0
        BY <1>2, <2>3, <3>2
      <4> HIDE DEF K
      <4> QED BY <2>1, <2>2, <2>3, <3>1, <4>1
    <3> QED BY <1>2, <2>1, <2>4, <3>1, <3>3 DEF AccountOK
  <2>5. CASE d \notin DOMAIN store
    <3> HIDE DEF K
    <3> QED BY <1>2, <2>1, <2>2, <2>3, <2>5 DEF AccountOK
  <2> QED BY <2>4, <2>5
<1> QED BY <1>3, <1>4 DEF RateInv

-----------------------------------------------------------------------------
LEMMA RateInitially ==
  ASSUME NEW MaxCapacity \in Nat, NEW MaxRate \in Nat, Init
  PROVE  RateInv(MaxCapacity, MaxRate)
<1>1. TypeOK
  BY DEF Init, TypeOK
<1>2. Token * MaxCapacity * (1 + 0) \in Nat /\ MaxRate * (0 - 0) = 0
  BY DEF Token
<1> QED BY <1>1, <1>2 DEF Init, RateInv, AccountOK, Held, Token

LEMMA RateStep ==
  ASSUME NEW MaxCapacity \in Nat, NEW MaxRate \in Nat, WithinTier(MaxCapacity, MaxRate),
         MaxTime \in Nat, RateInv(MaxCapacity, MaxRate), [Next]_vars
  PROVE  RateInv(MaxCapacity, MaxRate)'
<1>1. ASSUME NEW c \in Clients, NEW header \in Tiers \cup {Unknown}, Arrives(c, header)
      PROVE  RateInv(MaxCapacity, MaxRate)'
  <2>1. ASSUME NEW tier \in Resolved(header), Request(c, tier)
        PROVE  RateInv(MaxCapacity, MaxRate)'
    <3>1. tier \in Tiers
      BY DEF Resolved, Tiers
    <3> QED BY <2>1, <3>1, RequestStep
  <2>2. CASE Unlimited
    BY <2>2 DEF Unlimited, vars, RateInv, TypeOK, AccountOK, Held, Since
  <2> QED BY <1>1, <2>1, <2>2 DEF Arrives
<1>2. CASE TimePasses
  BY <1>2, TimeStep
<1>3. CASE WatchBegins
  BY <1>3, WatchStep
<1>4. CASE UNCHANGED vars
  BY <1>4 DEF vars, RateInv, TypeOK, AccountOK, Held, Since
<1> QED BY <1>1, <1>2, <1>3, <1>4 DEF Next

\* What the invariant says of every client, whether or not it has a bucket.
LEMMA RateInvBounds ==
  ASSUME NEW MaxCapacity \in Nat, NEW MaxRate \in Nat, RateInv(MaxCapacity, MaxRate)
  PROVE  RateBound(MaxCapacity, MaxRate)
<1> SUFFICES ASSUME NEW c \in Clients
             PROVE  Token * granted[c] <= Held(MaxCapacity, c) + MaxRate * (now - since)
  BY DEF RateBound, Held
<1>1. /\ TypeOK /\ now \in Nat /\ since \in Nat /\ since <= now /\ granted[c] \in Nat
      /\ created[c] \in Nat /\ AccountOK(MaxCapacity, MaxRate, c)
  BY DEF RateInv, TypeOK
<1>2. CASE c \notin DOMAIN store
  BY <1>1, <1>2 DEF AccountOK
<1>3. CASE c \in DOMAIN store
  <2> DEFINE g == Token * granted[c]
             h == Held(MaxCapacity, c)
             t == MaxRate * (Since(c) - since)
             T == MaxRate * (now - since)
  <2>1. store[c].tokens \in Nat /\ store[c].lastRefill \in Nat
        /\ store[c].lastRefill <= now /\ g + store[c].tokens <= h + t
    BY <1>1, <1>3 DEF AccountOK, TypeOK, Bucket
  <2>2. Since(c) \in Nat /\ since <= Since(c) /\ Since(c) <= now
    BY <1>1, <2>1 DEF Since
  <2>3. PICK e \in Nat : e = now - Since(c)
    BY <2>2, <1>1
  <2>4. T = t + MaxRate * e
    BY <2>2, <2>3, <1>1, TimesSplits
  <2>5. MaxRate * e \in Nat
    BY Z3
  <2>6. g \in Nat /\ h \in Int /\ t \in Int
    BY <1>1, <2>2 DEF Held, Token
  <2> HIDE DEF g, h, t, T
  <2>7. g <= h + T
    BY <2>1, <2>4, <2>5, <2>6
  <2> QED BY <2>7 DEF g, h, T
<1> QED BY <1>2, <1>3

\* Whatever tiers its requests name and however often its bucket is evicted, a client gets
\* in any stretch of time no more than the bursts of the buckets it was given and what the
\* fastest rate allows for that time (src/src/middleware/rateLimiter.ts:130-258).
THEOREM RateHolds ==
  ASSUME NEW MaxCapacity \in Nat, NEW MaxRate \in Nat, WithinTier(MaxCapacity, MaxRate),
         MaxTime \in Nat
  PROVE  Spec => []RateBound(MaxCapacity, MaxRate)
<1>1. Init => RateInv(MaxCapacity, MaxRate)
  BY RateInitially
<1>2. RateInv(MaxCapacity, MaxRate) /\ [Next]_vars => RateInv(MaxCapacity, MaxRate)'
  BY RateStep
<1>3. RateInv(MaxCapacity, MaxRate) => RateBound(MaxCapacity, MaxRate)
  BY RateInvBounds
<1> QED BY <1>1, <1>2, <1>3, PTL DEF Spec

\* The seconds the answer 429 names suffice: after them the bucket holds a token again,
\* if its tier lets anything through at all (retryAfterSeconds, rateLimiter.ts:194-197).
THEOREM RetryAfterSuffices ==
  ASSUME NEW b \in Bucket, b.tokens < Token, b.capacity >= Token, b.rate > 0, b.lastRefill = now,
         NEW t \in Nat, t >= 1000 * RetryAfter(b), now \in Nat
  PROVE  Smaller(b.capacity, b.tokens + t * b.rate) >= Token
<1> DEFINE x == Token - b.tokens
           d == b.rate * 1000
           q == RetryAfter(b)
<1>1. b.tokens \in Nat /\ b.rate \in Nat /\ b.capacity \in Nat /\ x \in Nat /\ d \in Nat /\ d > 0 /\ x > 0
  BY DEF Bucket, Token
<1>2. q = (x + d - 1) \div d
  <2>1. ~(b.tokens >= Token)
    BY <1>1 DEF Token
  <2> QED BY <2>1 DEF RetryAfter
<1>3. q \in Nat /\ q * d >= x
  <2> HIDE DEF x, d, q
  <2> QED BY <1>1, <1>2, Z3
<1>4. t * b.rate >= x
  <2>1. (1000 * q) * b.rate <= t * b.rate
    <3>1. 1000 * q \in Nat
      BY <1>3
    <3> QED BY <3>1, <1>1, TimesMonotone
  <2>2. (1000 * q) * b.rate = q * d
    <3> HIDE DEF q
    <3> QED BY <1>1, <1>3, Z3
  <2>3. t * b.rate \in Nat /\ q * d \in Nat
    <3>1. PICK r \in Nat : r = b.rate
      BY <1>1
    <3>2. t * r \in Nat
      BY Z3
    <3>3. q * d \in Nat
      <4> HIDE DEF q, d
      <4> QED BY <1>1, <1>3, Z3
    <3> QED BY <3>1, <3>2, <3>3
  <2> DEFINE y == t * b.rate
             z == q * d
             w == (1000 * q) * b.rate
  <2> HIDE DEF y, z, w
  <2>4. z >= x /\ w <= y /\ w = z /\ y \in Nat /\ z \in Nat
    BY <1>3, <2>1, <2>2, <2>3 DEF y, z, w
  <2>5. y >= x
    BY <2>4, <1>1
  <2> QED BY <2>5 DEF y
<1> QED BY <1>1, <1>4 DEF Smaller, Token
=============================================================================
