-------------------------------- MODULE Boot --------------------------------
(***************************************************************************)
(* Starting a program on a database: openDatabase (db/migrate.ts)          *)
(* reconciles old version numbers and runs the pending migrations, each in *)
(* a transaction with its row of schema_migrations; then the program       *)
(* assembles what it needs (app.ts, server.ts, the phase12_13 script) and  *)
(* serves, or throws and ends.  A crash may come between any two commits.  *)
(***************************************************************************)
EXTENDS Schema, FiniteSets

CONSTANTS
  Releases,     \* numbers of migrations older releases had: the databases they left are upgraded
  MaxKills    \* bound: how often a starting program is killed

ASSUME BootAssumption ==
  /\ Releases \subseteq 0 .. 30
  /\ MaxKills \in Nat

VARIABLES
  schema,     \* tables and columns
  rows,       \* schema_migrations: version, and the migration its description names
  program,    \* "app" (app.ts), "server" (server.ts), "script" (phase12_13.ts) or "none"
  phase,      \* "down", "reconcile", "migrate", "assemble" or "serving"
  outcome,    \* how the last start ended: "none", "threw", "crashed", "stopped"
  kills,
  found       \* the schema the first start found

bootVars == <<schema, rows, program, phase, outcome, kills, found>>

AllVersions == 1 .. 32
Legacy      == 31 .. 35     \* versions the retired script gave to the migrations 17 to 21
MigrationOf(n) == Migrations[n]

Versions == {r.version : r \in rows}
MigrationRow(v, did) == [version |-> v, did |-> did]

BootTypeOK ==
  /\ found \subseteq schema
  /\ rows \subseteq [version : 1 .. 35, did : AllVersions]
  /\ program \in {"app", "server", "script", "none"}
  /\ phase \in {"down", "reconcile", "migrate", "assemble", "serving"}
  /\ program = "none" <=> phase = "down"
  /\ outcome \in {"none", "threw", "crashed", "stopped"}
  /\ kills \in 0 .. MaxKills

-----------------------------------------------------------------------------
(* The databases a start may find. *)

Effect(v) == MigrationOf(v).creates \cup MigrationOf(v).adds
Upgraded(vs) == UNION {Effect(v) : v \in vs}

\* Left by a release with n migrations, with or without app.ts's own tables; left by
\* the retired script, which numbered the first n of 17 to 21 from 31; or left by the
\* evidence database of the first phases.
Database(s, rs) == [schema |-> s, rows |-> rs]
OfRelease(n)    == Database(Upgraded(1 .. n), {MigrationRow(v, v) : v \in 1 .. n})
WithQueue(db)   == [db EXCEPT !.schema = @ \cup QueueJobs.creates \cup SlowQueries.creates]
OfRetired(n)    == Database(Upgraded(1 .. 16 + n),
                            {MigrationRow(v, v) : v \in 1 .. 16}
                              \cup {MigrationRow(v + 14, v) : v \in 17 .. 16 + n})
Databases == {OfRelease(n) : n \in Releases} \cup {WithQueue(OfRelease(n)) : n \in Releases \ {0}}
               \cup {OfRetired(n) : n \in 1 .. 5} \cup {Database(EvidenceTables, {})}

-----------------------------------------------------------------------------
End(how) == phase' = "down" /\ program' = "none" /\ outcome' = how

\* The new Database(...) and the pragmas of openDatabase.
Start(p) ==
  /\ phase = "down"
  /\ program' = p
  /\ phase' = "reconcile"
  /\ UNCHANGED <<schema, rows, outcome, kills, found>>

\* A legacy row and its canonical target both exist.
Ambiguous == \E v \in Legacy \cap Versions : v - 14 \in Versions

Renumbered(r) == IF r.version \in Legacy THEN [r EXCEPT !.version = @ - 14] ELSE r

\* reconcilePhase12Renumber, one transaction, then the bootstrap of the tracking table
\* at the beginning of runMigrations.
Reconcile ==
  /\ phase = "reconcile"
  /\ IF Ambiguous
     THEN End("threw") /\ UNCHANGED <<schema, rows>>
     ELSE /\ rows' = {Renumbered(r) : r \in rows}
          /\ schema' = schema \cup V1.creates
          /\ phase' = "migrate"
          /\ UNCHANGED <<program, outcome>>
  /\ UNCHANGED <<kills, found>>

Pending == AllVersions \ Versions
NextPending == CHOOSE v \in Pending : \A w \in Pending : v <= w

\* Fault: no transaction, the tables created before the failure stay.
ApplyInPieces(v) ==
  /\ schema' = After(schema, MigrationOf(v))
  /\ IF Fails(schema, MigrationOf(v))
     THEN End("threw") /\ UNCHANGED rows
     ELSE rows' = rows \cup {MigrationRow(v, v)} /\ UNCHANGED <<program, phase, outcome>>

\* One migration and its row in one transaction, rolled back when a statement fails;
\* the exception ends the program.
Apply(v) ==
  IF Fails(schema, MigrationOf(v))
  THEN End("threw") /\ UNCHANGED <<schema, rows>>
  ELSE /\ schema' = After(schema, MigrationOf(v))
       /\ rows' = rows \cup {MigrationRow(v, v)}
       /\ UNCHANGED <<program, phase, outcome>>

Migrate ==
  /\ phase = "migrate"
  /\ Pending # {}
  /\ Apply(NextPending)
  /\ UNCHANGED <<kills, found>>

Migrated ==
  /\ phase = "migrate"
  /\ Pending = {}
  /\ phase' = "assemble"
  /\ UNCHANGED <<schema, rows, program, outcome, kills, found>>

\* What detectAndApplyRotation reads before server.ts serves.
RotationNeeds == Columns("secret_state", {"secret_name", "fingerprint"})
                   \cup Columns("trust_badge_registry", {"badge_state", "state_signature"})

\* server.ts: rotation, then the routers.
AssembleServer ==
  /\ phase = "assemble"
  /\ program = "server"
  /\ IF RotationNeeds \subseteq schema
     THEN phase' = "serving" /\ UNCHANGED <<program, outcome>>
     ELSE End("threw")
  /\ UNCHANGED <<schema, rows, kills, found>>

\* app.ts: the performance monitor's table, then the queue's; neither in a transaction.
AssembleApp ==
  /\ phase = "assemble"
  /\ program = "app"
  /\ schema' = After(After(schema, SlowQueries), QueueJobs)
  /\ IF Fails(After(schema, SlowQueries), QueueJobs)
     THEN End("threw")
     ELSE phase' = "serving" /\ UNCHANGED <<program, outcome>>
  /\ UNCHANGED <<rows, kills, found>>

\* phase12_13.ts: its migrations whose version is not recorded yet, then it closes.
RunScript ==
  /\ phase = "assemble"
  /\ program = "script"
  /\ LET todo == DOMAIN CommercialMigrations \ Versions
     IN /\ schema' = schema \cup UNION {CommercialMigrations[v].creates \cup CommercialMigrations[v].adds : v \in todo}
        /\ rows' = rows \cup {MigrationRow(v, v) : v \in todo}
  /\ End("stopped")
  /\ UNCHANGED <<kills, found>>

Stop ==
  /\ phase = "serving"
  /\ End("stopped")
  /\ UNCHANGED <<schema, rows, kills, found>>

\* Killed between two commits.
Killed ==
  /\ phase \notin {"down", "serving"}
  /\ kills < MaxKills
  /\ kills' = kills + 1
  /\ End("crashed")
  /\ UNCHANGED <<schema, rows, found>>

BootInit ==
  /\ \E db \in Databases : schema = db.schema /\ rows = db.rows
  /\ found = schema
  /\ program = "none" /\ phase = "down" /\ outcome = "none"
  /\ kills = 0

BootNext ==
  \/ \E p \in {"app", "server", "script"} : Start(p)
  \/ Reconcile
  \/ Migrate
  \/ Migrated
  \/ AssembleServer
  \/ AssembleApp
  \/ RunScript
  \/ Stop
  \/ Killed

BootSpec == BootInit /\ [][BootNext]_bootVars

-----------------------------------------------------------------------------
(* Safety. *)

\* No migration leaves a part of itself behind: what the schema has beyond what was
\* found comes from recorded migrations and from the tables programs create outside them.
NothingHalfApplied ==
  schema \ found \subseteq (UNION {Effect(r.did) : r \in rows}) \cup V1.creates
                             \cup SlowQueries.creates \cup QueueJobs.creates

\* Nothing is served before every migration is recorded and every table the mounted
\* routers use is there (migrate.ts:15 "so the schema is always current on deployment").
RouterTables == {"users", "refresh_tokens", "user_profiles", "role_audit_log", "accounts", "pilot_decisions",
                 "ai_insurance_warranties", "trust_badge_registry", "trust_badge_history",
                 "commercial_audit_log", "role_access_metrics", "anomaly_logs", "secret_state"}
ServingIsComplete ==
  phase = "serving" => /\ AllVersions \subseteq Versions
                       /\ \A t \in RouterTables : Exists(schema, t)

-----------------------------------------------------------------------------
(* Liveness. *)

\* The runtime restarts what crashed, and a started program goes on.
BootFairness ==
  /\ WF_bootVars(Start("server"))
  /\ WF_bootVars(Reconcile) /\ WF_bootVars(Migrate) /\ WF_bootVars(Migrated)
  /\ WF_bootVars(AssembleServer) /\ WF_bootVars(AssembleApp) /\ WF_bootVars(RunScript)

BootFairSpec == BootSpec /\ BootFairness

\* An upgrade that is interrupted is taken up where it stopped: a database without a
\* conflicting table ends with the migrations up to 31, whatever program is started
\* (not 32: after a crash between 31 and 32 the reconciliation refuses every later start).
Compatible == <<"agents", "agent_id">> \notin schema /\ <<"job_queue", "priority">> \notin schema
UpgradeCompletes ==
  Compatible ~> (\A v \in 1 .. 31 : MigrationRow(v, v) \in rows)

-----------------------------------------------------------------------------
(* What the source says and the code does not do. *)

\* migrate.ts:103: "Safe to call on a fresh DB (no-op), a fully-reconciled DB (no-op)".  A
\* complete upgrade records 17 and 31, which its guard takes for the retired script's rows,
\* so that no start after the first gets past it.
FullyReconciled == \A r \in rows : r.version = r.did
ReconcileIsSafe ==
  [][(phase = "reconcile" /\ FullyReconciled /\ kills' = kills) => phase' = "migrate"]_bootVars
=============================================================================
