------------------------------- MODULE Users -------------------------------
(***************************************************************************)
(* Roles, profiles, freelance agents and their audit trail: the handlers   *)
(* of src/routes/users.ts in one tenant.  None of them awaits, so each is  *)
(* one step; what is stale is the caller's role, which requireRole takes   *)
(* from an access token issued up to 15 minutes ago.                       *)
(***************************************************************************)
EXTENDS Countries, Sequences

CONSTANTS
    Accounts,        \* users of the tenant
    RoleAtStart,     \* the role each was registered with
    CountriesUsed,   \* bound: the countries requests name
    CurrenciesUsed,  \* bound: the currencies requests name
    MaxAudit         \* bound: role_audit_log rows

Roles == {"Executive", "Auditor", "Partner"}

ASSUME UsersAssumption ==
    /\ RoleAtStart \in [Accounts -> Roles]
    /\ MaxAudit \in Nat

VARIABLES
    role,      \* users.role
    claims,    \* the roles in the unexpired access tokens of each user
    profiles,  \* user_profiles, NoProfile where there is no row
    agents,    \* agents rows, in the order they were created
    audit      \* role_audit_log

usersVars == <<role, claims, profiles, agents, audit>>

Nothing == "none"   \* an absent field, NULL
NoProfile == [tier |-> Nothing]
NoAgent == 0
Profile == [tier : Tiers, country : CountriesUsed \cup {Nothing},
            currency : CurrenciesUsed \cup {Nothing}, agent : Nat, hasKey : BOOLEAN]
Agent == [tier : Tiers, country : CountriesUsed, method : {"momo", "card"}]
Actions == {"role_change", "kyc_elevation", "profile_update", "freelancer_registered",
            "api_key_generated"}
AuditValues == Roles \cup Tiers \cup CountriesUsed \cup {Nothing}
AuditRow == [action : Actions, target : Accounts, actor : Accounts,
             old : AuditValues, new : AuditValues]

UsersInit ==
    /\ role = RoleAtStart
    /\ claims = [u \in Accounts |-> {}]
    /\ profiles = [u \in Accounts |-> NoProfile]
    /\ agents = <<>>
    /\ audit = <<>>

HasProfile(u) == profiles[u] # NoProfile
AgentOf(u) == IF HasProfile(u) THEN profiles[u].agent ELSE NoAgent

\* auditLog.  The state of what the row is about is the handler's to give.
Logged(action, target, actor, old, new) ==
    /\ Len(audit) < MaxAudit
    /\ audit' = Append(audit, [action |-> action, target |-> target, actor |-> actor,
                               old |-> old, new |-> new])

\* login or refresh: a token that carries the role of the row; it expires.
TokenIssued(u) ==
    /\ claims' = [claims EXCEPT ![u] = @ \cup {role[u]}]
    /\ UNCHANGED <<role, profiles, agents, audit>>

ClaimExpires(u, r) ==
    /\ r \in claims[u]
    /\ claims' = [claims EXCEPT ![u] = @ \ {r}]
    /\ UNCHANGED <<role, profiles, agents, audit>>

\* requireAccessToken
SignedIn(actor) == claims[actor] # {}

\* Fault: any token will do.
MayAlways(actor, r) == SignedIn(actor)

\* requireRole
May(actor, r) == r \in claims[actor]

Or(given, present) == IF given = Nothing THEN present ELSE given

\* upsertProfile.  The currency is compared with the country of the request
\* only; a profile that exists keeps what the request leaves out.
UpsertProfile(actor, u, country, currency, tier) ==
    /\ SignedIn(actor)
    /\ country # Nothing =>
          /\ country \in SupportedCountries
          /\ currency = Nothing \/ currency \in CountryRequirements[country].currencies
    /\ profiles' = [profiles EXCEPT ![u] =
          IF HasProfile(u)
          THEN [profiles[u] EXCEPT !.tier = Or(tier, @), !.country = Or(country, @),
                                   !.currency = Or(currency, @)]
          ELSE [tier |-> Or(tier, "basic"), country |-> country, currency |-> currency,
                agent |-> NoAgent, hasKey |-> FALSE]]
    /\ Logged("profile_update", u, actor, Nothing, Nothing)
    /\ UNCHANGED <<role, claims, agents>>

\* Fault: the row is read again after the update.
OldRoleReread(u, new) == new

\* The role assignRole read before its transaction.
OldRole(u, new) == role[u]

\* assignRole: the same role again is answered without a write.
AssignRole(actor, u, new) ==
    /\ May(actor, "Executive")
    /\ role[u] # new
    /\ role' = [role EXCEPT ![u] = new]
    /\ Logged("role_change", u, actor, OldRole(u, new), new)
    /\ UNCHANGED <<claims, profiles, agents>>

\* elevateKyc: profile and agent, as far as there are any, in one transaction;
\* without either only the audit row is written.
ElevateKyc(actor, u, tier) ==
    /\ May(actor, "Executive")
    /\ profiles' = IF HasProfile(u) THEN [profiles EXCEPT ![u].tier = tier] ELSE profiles
    /\ agents' = [i \in DOMAIN agents |->
          IF i = AgentOf(u) THEN [agents[i] EXCEPT !.tier = tier] ELSE agents[i]]
    /\ Logged("kyc_elevation", u, actor, IF HasProfile(u) THEN profiles[u].tier ELSE "basic", tier)
    /\ UNCHANGED <<role, claims>>

\* Fault: the tier of the profile goes into the agent.
AgentTierOfProfile(u) == IF HasProfile(u) THEN profiles[u].tier ELSE "basic"

AgentTier(u) == "basic"

MethodFits(country, method) == Supports(country, method)

NotFreelancer(u) == AgentOf(u) = NoAgent

\* registerFreelancer: an agent of tier basic, the profile that points to it
\* (an existing one keeps its tier) and the audit row, in one transaction.
RegisterFreelancer(actor, u, country, method, currency) ==
    /\ SignedIn(actor)
    /\ MethodFits(country, method)
    /\ NotFreelancer(u)
    /\ agents' = Append(agents, [tier |-> AgentTier(u), country |-> country, method |-> method])
    /\ profiles' = [profiles EXCEPT ![u] =
          IF HasProfile(u)
          THEN [@ EXCEPT !.agent = Len(agents) + 1, !.country = country, !.currency = currency]
          ELSE [tier |-> "basic", country |-> country, currency |-> currency,
                agent |-> Len(agents) + 1, hasKey |-> FALSE]]
    /\ Logged("freelancer_registered", u, actor, Nothing, country)
    /\ UNCHANGED <<role, claims>>

\* ROLE_PERMISSIONS, as far as the tests below ask for them.
Permissions ==
    [Executive |-> {"read:all", "write:all", "delete:all", "manage:users", "view:reports",
                    "trigger:sweep", "manage:agents"},
     Auditor   |-> {"read:all", "view:reports"},
     Partner   |-> {"read:own"}]

Test(expected, actual) == expected = actual

\* runPermissionTests: whether it reports no failure for a role, and for a profile with a
\* supported country and a tier.
RoleTestsPass(r) ==
    LET has == Permissions[r]
    IN /\ Test(r = "Executive", "manage:users" \in has)
       /\ Test(r = "Auditor", "write:all" \notin has)
       /\ Test(r = "Partner", "read:own" \in has /\ "read:all" \notin has)
       /\ Test(r = "Executive", "trigger:sweep" \in has)
       /\ Test(r = "Auditor", "view:reports" \in has)
       /\ r = "Partner" => Test(FALSE, "delete:all" \in has) /\ Test(FALSE, "manage:users" \in has)
       /\ r = "Auditor" => Test(FALSE, "manage:agents" \in has) /\ Test(FALSE, "trigger:sweep" \in has)

PermissionTestsPass(u) ==
    /\ RoleTestsPass(role[u])
    /\ HasProfile(u) /\ profiles[u].country \in SupportedCountries =>
          /\ MeetsKyc(profiles[u].tier, profiles[u].country)
          /\ CountryRequirements[profiles[u].country].methods # {}

\* generateApiKey: a profile is made if there is none.
GenerateApiKey(actor, u) ==
    /\ SignedIn(actor)
    /\ profiles' = [profiles EXCEPT ![u] =
          IF HasProfile(u) THEN [@ EXCEPT !.hasKey = TRUE]
          ELSE [tier |-> "basic", country |-> Nothing, currency |-> Nothing,
                agent |-> NoAgent, hasKey |-> TRUE]]
    /\ Logged("api_key_generated", u, actor, Nothing, Nothing)
    /\ UNCHANGED <<role, claims, agents>>

UsersNext ==
    \E u \in Accounts :
       \/ TokenIssued(u)
       \/ \E r \in Roles : ClaimExpires(u, r)
       \/ \E actor \in Accounts :
             \/ \E country \in CountriesUsed \cup {Nothing},
                   currency \in CurrenciesUsed \cup {Nothing}, tier \in Tiers \cup {Nothing} :
                   UpsertProfile(actor, u, country, currency, tier)
             \/ \E r \in Roles : AssignRole(actor, u, r)
             \/ \E tier \in Tiers : ElevateKyc(actor, u, tier)
             \/ \E country \in CountriesUsed, method \in {"momo", "card"},
                   currency \in CurrenciesUsed :
                   RegisterFreelancer(actor, u, country, method, currency)
             \/ GenerateApiKey(actor, u)

UsersSpec == UsersInit /\ [][UsersNext]_usersVars

-----------------------------------------------------------------------------
UsersTypeOK ==
    /\ role \in [Accounts -> Roles]
    /\ claims \in [Accounts -> SUBSET Roles]
    /\ profiles \in [Accounts -> Profile \cup {NoProfile}]
    /\ agents \in Seq(Agent)
    /\ \A i \in DOMAIN agents : Supports(agents[i].country, agents[i].method)
    /\ audit \in Seq(AuditRow)

RoleChange(i, u) == audit[i].action = "role_change" /\ audit[i].target = u

\* According to the trail, r was the role of u just before row i.
HadRole(u, i, r) ==
    \/ (\A j \in 1 .. i - 1 : ~RoleChange(j, u)) /\ r = RoleAtStart[u]
    \/ \E j \in 1 .. i - 1 : /\ RoleChange(j, u) /\ r = audit[j].new
                            /\ \A k \in j + 1 .. i - 1 : ~RoleChange(k, u)

\* The role changes of a user form a chain from the role he was registered with
\* to the one he has.
AuditExplainsRoles ==
    \A u \in Accounts :
       /\ \A i \in DOMAIN audit : RoleChange(i, u) => HadRole(u, i, audit[i].old)
       /\ HadRole(u, Len(audit) + 1, role[u])

\* Whoever changed a role or a tier was Executive once before, by registration
\* or by a role change of the trail.  He need not be so any more: the token he
\* shows may be older than his demotion.
OnlyExecutivesAct ==
    \A i \in DOMAIN audit : audit[i].action \in {"role_change", "kyc_elevation"} =>
       \/ RoleAtStart[audit[i].actor] = "Executive"
       \/ \E j \in 1 .. i - 1 : /\ audit[j].action = "role_change"
                                /\ audit[j].target = audit[i].actor
                                /\ audit[j].new = "Executive"

\* Payout sweeps an agent only if his tier meets his country's minimum
\* (payout.ts:532).  No sequence of profile updates gets a freelancer there: in
\* a country that asks for more than basic it takes an elevation that was
\* audited after he registered.
PayableNeedsElevation ==
    \A u \in Accounts : AgentOf(u) # NoAgent =>
       LET agent == agents[AgentOf(u)]
       IN MeetsKyc(agent.tier, agent.country) /\ ~MeetsKyc("basic", agent.country)
             => \E i, j \in DOMAIN audit :
                   /\ i < j /\ audit[i].target = u /\ audit[j].target = u
                   /\ audit[i].action = "freelancer_registered"
                   /\ audit[j].action = "kyc_elevation" /\ audit[j].new = agent.tier

\* Every agent the sweep may pay belongs to one profile, and a user keeps the
\* agent he has: the balance of an agent left behind would be paid by nobody.
EveryAgentOwned ==
    \A i \in DOMAIN agents : \E u \in Accounts :
       AgentOf(u) = i /\ \A v \in Accounts : AgentOf(v) = i => v = u
=============================================================================
