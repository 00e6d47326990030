---------------------------- MODULE Underwriting ----------------------------
(***************************************************************************)
(* The underwriting half of src/services/commercialEngine.ts for one       *)
(* tenant: policies, the audit that scores them, the golden thread of      *)
(* snapshots and the premium reduction tokens.  The engine never awaits,   *)
(* so its operations do not interleave, but most of their statements are   *)
(* commits of their own: a crash leaves the first few of them done.        *)
(* Amounts are in cents.                                                   *)
(***************************************************************************)
EXTENDS Integers, Sequences, FiniteSets, FiniteSetsExt

CONSTANTS
    Policies,        \* policies the tenant may register
    AnnualPremium,   \* base_annual_premium_usd of each
    Measurements,    \* what the tables may show when an audit is made
    MaxSnapshots,    \* bound: underwriting_audit_snapshots rows
    MaxCrashes       \* bound: crashes in the middle of an operation

Measurement ==
    [integrity : BOOLEAN, failovers : Nat, slow : Nat, avgMs : Nat, critical : Nat, high : Nat,
     lockouts : Nat, breaches : Nat, duplicates : Nat, failedPercent : 0 .. 100]

ASSUME UnderwritingAssumption ==
    /\ AnnualPremium \in [Policies -> Nat]
    /\ \A p \in Policies : AnnualPremium[p] % 12 = 0
    /\ Measurements \subseteq Measurement
    /\ {MaxSnapshots, MaxCrashes} \subseteq Nat

VARIABLES
    registry,    \* insurance_underwriting_registry
    snapshots,   \* underwriting_audit_snapshots, in the order they were written
    tokens,      \* premium_reduction_tokens, in the order they were issued
    crashes      \* operations a crash cut short

uvars == <<registry, snapshots, tokens, crashes>>

Bands == {"GREEN", "AMBER", "ORANGE", "RED"}
Nothing == 0   \* no discount, no token, no invoice; as a thread, the seed
Unregistered == [band |-> "none"]
Discounts == {Nothing, 10, 15, 20}

Entry == [band : Bands, score : 0 .. 100, discount : Discounts, thread : Nat, clean : Nat]
Snapshot == [policy : Policies, prev : Nat, band : Bands, score : 0 .. 100,
             discount : Discounts, token : Nat]
TokenRow == [policy : Policies, snapshot : Nat, pct : Discounts, value : Nat,
             status : {"issued", "applied", "revoked"}, expired : BOOLEAN, invoice : Nat]

Registered == {p \in Policies : registry[p] # Unregistered}

UInit ==
    /\ registry = [p \in Policies |-> Unregistered]
    /\ snapshots = <<>> /\ tokens = <<>> /\ crashes = 0

-----------------------------------------------------------------------------
\* The scoring model.  No component exceeds 100, so the code's caps never bind.
Smaller(a, b) == IF a < b THEN a ELSE b

\* What the highest limit that is exceeded is worth; the limits fall.
Worth(value, limits) ==
    LET over == {i \in DOMAIN limits : value > limits[i][1]}
    IN IF over = {} THEN 0 ELSE limits[Min(over)][2]

Operational(x) ==
    (IF x.integrity THEN 0 ELSE 40) + Smaller(15 * x.failovers, 30)
      + Worth(x.slow, <<<<50, 20>>, <<20, 10>>, <<5, 5>>>>)
      + Worth(x.avgMs, <<<<500, 10>>, <<200, 5>>>>)

Security(x) ==
    Smaller(12 * x.critical, 48) + Smaller(4 * x.high, 24) + Smaller(3 * x.lockouts, 18)

Compliance(x) == Smaller(20 * x.breaches, 60) + Smaller(8 * x.duplicates, 40)

Financial(x) ==
    Worth(x.failedPercent, <<<<25, 100>>, <<15, 75>>, <<8, 50>>, <<3, 25>>, <<1, 10>>>>)

Composite(x) ==
    (3 * Operational(x) + 3 * Security(x) + 2 * Compliance(x) + 2 * Financial(x) + 5) \div 10

Band(score) ==
    IF score <= 25 THEN "GREEN"
    ELSE IF score <= 50 THEN "AMBER" ELSE IF score <= 75 THEN "ORANGE" ELSE "RED"

DiscountOf == [GREEN |-> 20, AMBER |-> 15, ORANGE |-> 10, RED |-> Nothing]

MonthlyPremium(p) == AnnualPremium[p] \div 12

-----------------------------------------------------------------------------
\* registerPolicy.  The policy number is unique.
Register(p) ==
    /\ registry[p] = Unregistered
    /\ registry' = [registry EXCEPT ![p] =
          [band |-> "AMBER", score |-> 50, discount |-> Nothing, thread |-> Nothing, clean |-> 0]]
    /\ UNCHANGED <<snapshots, tokens, crashes>>

Usable(t) == tokens[t].status = "issued" /\ ~tokens[t].expired

\* Fault: the registry is brought up to date before anything else.
CommitsRegistryFirst(discount) ==
    IF discount = Nothing THEN <<"registry", "snapshot">>
    ELSE <<"registry", "snapshot", "token", "link", "revoke">>

\* The commits of computeUnderwritingRiskScore, in order.
Commits(discount) ==
    IF discount = Nothing THEN <<"snapshot", "registry">>
    ELSE <<"snapshot", "token", "link", "revoke", "registry">>

\* Fault: older tokens are left as they are.
SupersededNever(list) == list

\* Older tokens of the tenant that were not applied are revoked.
Superseded(list) ==
    [t \in DOMAIN list |-> IF t < Len(list) /\ list[t].status = "issued"
                           THEN [list[t] EXCEPT !.status = "revoked"] ELSE list[t]]

\* The registry's hash is what the new snapshot is chained to.
Predecessor(p) == registry[p].thread

\* One audit of a policy, done as far as the commits in done.
Audited(p, x, done) ==
    LET score    == Composite(x)
        discount == DiscountOf[Band(score)]
        id       == Len(snapshots) + 1
        token    == Len(tokens) + 1
        row      == [policy |-> p, prev |-> Predecessor(p), band |-> Band(score),
                     score |-> score, discount |-> discount,
                     token |-> IF "link" \in done THEN token ELSE Nothing]
        issued   == Append(tokens, [policy |-> p, snapshot |-> id, pct |-> discount,
                                    value |-> (MonthlyPremium(p) * discount + 50) \div 100,
                                    status |-> "issued", expired |-> FALSE, invoice |-> Nothing])
    IN /\ snapshots' = IF "snapshot" \in done THEN Append(snapshots, row) ELSE snapshots
       /\ tokens' = IF "revoke" \in done THEN Superseded(issued)
                    ELSE IF "token" \in done THEN issued ELSE tokens
       /\ registry' = IF "registry" \notin done THEN registry
                      ELSE [registry EXCEPT ![p] =
                              [band |-> Band(score), score |-> score, discount |-> discount,
                               thread |-> id,
                               clean |-> IF Band(score) = "RED" THEN 0 ELSE @.clean + 1]]

CommitsOf(x) == Commits(DiscountOf[Band(Composite(x))])

Audit(p, x) ==
    /\ p \in Registered
    /\ Len(snapshots) < MaxSnapshots
    /\ Audited(p, x, {CommitsOf(x)[i] : i \in DOMAIN CommitsOf(x)})
    /\ UNCHANGED crashes

\* The process dies after the first n commits of an audit.
AuditCutShort(p, x, n) ==
    /\ p \in Registered
    /\ Len(snapshots) < MaxSnapshots
    /\ crashes < MaxCrashes
    /\ n < Len(CommitsOf(x))
    /\ Audited(p, x, {CommitsOf(x)[i] : i \in 1 .. n})
    /\ crashes' = crashes + 1

\* 60 days pass.
TokenExpires(t) ==
    /\ Usable(t)
    /\ tokens' = [tokens EXCEPT ![t].expired = TRUE]
    /\ UNCHANGED <<registry, snapshots, crashes>>

UNext ==
    \/ \E p \in Policies :
          \/ Register(p)
          \/ \E x \in Measurements : Audit(p, x) \/ \E n \in 1 .. 4 : AuditCutShort(p, x, n)
    \/ \E t \in DOMAIN tokens : TokenExpires(t)

-----------------------------------------------------------------------------
UTypeOK ==
    /\ registry \in [Policies -> Entry \cup {Unregistered}]
    /\ snapshots \in Seq(Snapshot)
    /\ tokens \in Seq(TokenRow)
    /\ crashes \in 0 .. MaxCrashes

\* getInsuranceCertificate for the policy it finds: what the registry says, the
\* tokens one can use, and whether the newest snapshot is the end of the thread.
Certificate(p) ==
    LET audits == {s \in DOMAIN snapshots : snapshots[s].policy = p}
        paid   == AnnualPremium[p] * (100 - registry[p].discount)
    IN [thread  |-> audits = {} \/ Max(audits) = registry[p].thread,
        band    |-> registry[p].band,
        savings |-> AnnualPremium[p] - (paid + 50) \div 100,
        tokens  |-> {t \in DOMAIN tokens : Usable(t)}]

OnThread(p) ==
    LET from[i \in 0 .. Len(snapshots)] ==
          IF i = Nothing THEN {} ELSE {i} \cup from[snapshots[i].prev]
    IN from[registry[p].thread]

\* The golden thread of a policy: from the hash in the registry one gets back to
\* the seed over every audit of that policy, but for one snapshot a crash; and
\* the registry says what the snapshot at its end says.  A certificate finds the
\* thread whole unless a crash has cut an audit short.
GoldenThread ==
    /\ \A p \in Registered : registry[p].thread <= Len(snapshots)
    /\ \A p \in Registered :
          LET e == registry[p]
          IN /\ \A s \in OnThread(p) : snapshots[s].policy = p
             /\ e.thread # Nothing =>
                  /\ e.band = snapshots[e.thread].band
                  /\ e.discount = snapshots[e.thread].discount
             /\ crashes = 0 =>
                  /\ Certificate(p).thread
                  /\ \A t \in Certificate(p).tokens : tokens[t].snapshot \in DOMAIN snapshots
    /\ Len(snapshots) - Cardinality(UNION {OnThread(p) : p \in Registered}) <= crashes

\* At most one token can be used at a time: a new one revokes what is left of
\* the old ones.  A crash between the two commits lets one more stand.
OneUsableToken == Cardinality({t \in DOMAIN tokens : Usable(t)}) <= 1 + crashes
=============================================================================
