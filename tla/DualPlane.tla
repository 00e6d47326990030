------------------------------ MODULE DualPlane ------------------------------
(***************************************************************************)
(* The two control planes of src/src/middleware/dualPlaneAuth.ts: what a   *)
(* guard asks, how a request is judged, and the access metric every        *)
(* judgement leaves behind.                                                *)
(*                                                                         *)
(* A guard finds the principal through req.caasUserId, which only          *)
(* requireAccessToken sets.  The routers of server.ts mount that           *)
(* middleware before their guards.  app.ts mounts /regulatory and          *)
(* /admin/access-metrics without it: whoever asks there is nobody.         *)
(***************************************************************************)
EXTENDS Naturals, Sequences, FiniteSets

CONSTANTS
  Users,        \* the users who send requests
  Principal,    \* their rows: [Users -> [plane, role, scope]]
  Nobody,       \* the principal of a request without an access token
  Unscoped,     \* plane_tenant_scope is NULL, or the request names no tenant
  Tenants,
  MaxMetrics    \* bound: rows of role_access_metrics

BusinessRoles == {"global_super_admin", "platform_auditor", "platform_finance",
                  "platform_ops", "platform_support"}
ClientRoles == {"client_super_admin", "client_executive", "client_auditor",
                "client_finance", "client_partner"}

\* The capabilities of the matrix that decide something.
CanWriteAllTenants == {"global_super_admin"}
CanManagePlatform == {"global_super_admin", "platform_ops"}
CanTriggerBackup == {"global_super_admin", "platform_ops"}
CanManageUsers == {"global_super_admin", "client_super_admin"}

Principals == [plane : {"business"}, role : BusinessRoles, scope : {Unscoped}]
         \cup [plane : {"client"}, role : ClientRoles, scope : Tenants \cup {Unscoped}]

ASSUME DualPlaneAssumption ==
  /\ Principal \in [Users -> Principals]
  /\ Nobody \notin Users
  /\ Unscoped \notin Tenants

VARIABLES
  metrics,   \* role_access_metrics, oldest first
  signals    \* users with a boundary_crossing_burst in anomaly_logs

planeVars == <<metrics, signals>>

-----------------------------------------------------------------------------
(* Requirements of the guards. *)

RequireBusinessPlane(roles) == [plane |-> "business", roles |-> roles]

RequireGlobalSuperAdmin == RequireBusinessPlane({"global_super_admin"})

Mutating == {"POST", "PUT", "PATCH", "DELETE"}

-----------------------------------------------------------------------------
(* evaluateBoundary and the write protection of requireDualPlane. *)

CrossesPlane(p, r) == p.plane # r.plane

LacksRole(p, r) == r.roles # {} /\ p.role \notin r.roles

\* Some role that would do can do what this one cannot.
Elevates(p, r) ==
  \E can \in {CanWriteAllTenants, CanManagePlatform, CanTriggerBackup, CanManageUsers} :
    r.roles \cap can # {} /\ p.role \notin can

\* A client without a scope (every user that registers) is isolated from nobody.
LeavesTenant(p, tenant) ==
  /\ p.plane = "client"
  /\ {tenant, p.scope} \subseteq Tenants
  /\ tenant # p.scope

ReadOnly(p, method) ==
  p.plane = "business" /\ p.role \notin CanWriteAllTenants /\ method \in Mutating

Denial(crossing, violation, elevation) ==
  [granted |-> FALSE, crossing |-> crossing, violation |-> violation, elevation |-> elevation]

Grant == [granted |-> TRUE, crossing |-> FALSE, violation |-> FALSE, elevation |-> FALSE]

Verdict(p, r, tenant, method) ==
  IF CrossesPlane(p, r) THEN Denial(TRUE, FALSE, FALSE)
  ELSE IF LacksRole(p, r) THEN Denial(FALSE, FALSE, Elevates(p, r))
  ELSE IF LeavesTenant(p, tenant) THEN Denial(FALSE, TRUE, FALSE)
  ELSE IF ReadOnly(p, method) THEN Denial(FALSE, FALSE, TRUE)
  ELSE Grant

-----------------------------------------------------------------------------
(* writeAccessMetric *)

DeniedRows(u) == {i \in DOMAIN metrics : metrics[i].user = u /\ ~metrics[i].granted}

\* Fault: the denials of everybody.
DenialCountOfAll(u) ==
  Cardinality({i \in DOMAIN metrics : ~metrics[i].granted /\ metrics[i].recent}) + 1

\* The denials of the hour before, and this one.
DenialCount(u) == Cardinality({i \in DeniedRows(u) : metrics[i].recent}) + 1

Metric(u, v) ==
  [user |-> u, granted |-> v.granted, crossing |-> v.crossing, violation |-> v.violation,
   elevation |-> v.elevation, recent |-> TRUE,
   count |-> IF u = Nobody \/ v.granted THEN 0 ELSE DenialCount(u)]

\* The columns the security signal names, and those migration 6 gives the table.
SignalColumns == {"id", "tenant_id", "entity_id", "entity_type", "event_type", "risk_level",
                  "score", "metadata_json", "lockout_applied", "lockout_until", "created_at"}
AnomalyLogColumns == {"id", "tenant_id", "entity_id", "entity_type", "event_type", "risk_level",
                      "score", "context_json", "observed_value", "lockout_applied",
                      "lockout_until", "alert_dispatched", "created_at"}

\* A statement that names another column throws; the catch keeps the metric.
Signalled(u, v) ==
  IF /\ u # Nobody /\ ~v.granted /\ DenialCount(u) >= 5
     /\ SignalColumns \subseteq AnomalyLogColumns
  THEN {u} ELSE {}

Judged(u, v) ==
  /\ Len(metrics) < MaxMetrics
  /\ metrics' = Append(metrics, Metric(u, v))
  /\ signals' = signals \cup Signalled(u, v)

\* The oldest row of the last hour leaves it.
HourPasses ==
  \E i \in DOMAIN metrics :
    /\ metrics[i].recent
    /\ \A j \in 1..(i - 1) : ~metrics[j].recent
    /\ metrics' = [metrics EXCEPT ![i].recent = FALSE]
    /\ UNCHANGED signals

\* GET /admin/access-metrics and every route of /regulatory in app.ts.
UnauthenticatedRequest == Judged(Nobody, Denial(FALSE, FALSE, FALSE))

-----------------------------------------------------------------------------
\* The count on a denial counts this user's denials, whoever else was refused in
\* between, and leaves none out that is still within the hour.
CountsFollowDenials ==
  \A i \in DOMAIN metrics :
    LET u == metrics[i].user
        upTo == {k \in DeniedRows(u) : k <= i}
    IN  u # Nobody /\ ~metrics[i].granted =>
          /\ metrics[i].count \in 1..Cardinality(upTo)
          /\ (\A k \in upTo : metrics[k].recent) => metrics[i].count = Cardinality(upTo)
=============================================================================
