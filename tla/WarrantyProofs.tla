--------------------------- MODULE WarrantyProofs ---------------------------
(***************************************************************************)
(* What TLAPS proves of the badge and of the warranties behind it.  Every  *)
(* handler of Warranty is a step of TrustBadge's specification, so that    *)
(* what is proved first of TrustBadge alone holds with policies, accounts  *)
(* and scans around it, and badge and policies agree, for any number of    *)
(* tenants, policies and evidence.                                         *)
(***************************************************************************)
EXTENDS Warranty, TLAPS

-----------------------------------------------------------------------------
(* The badge by itself. *)

Computed == [state : BadgeStates, reason : Reasons]

\* The tenants whose rows syncBadge writes.
ChangedBy(computed) == {t \in DOMAIN computed : SyncChanges(t, computed[t])}

\* What a sync leaves in the two tables, tenant by tenant.
LEMMA SyncedTables ==
  ASSUME NEW computed, SyncBadges(computed)
  PROVE  /\ DOMAIN trust_badge_registry' = DOMAIN trust_badge_registry \cup ChangedBy(computed)
         /\ \A t \in DOMAIN trust_badge_registry' :
              trust_badge_registry'[t] = IF t \in ChangedBy(computed) THEN SyncedRow(t, computed[t])
                                                                      ELSE trust_badge_registry[t]
         /\ \A t \in Tenants :
              trust_badge_history'[t] = IF t \in ChangedBy(computed)
                                        THEN Append(trust_badge_history[t], HistoryEntry(t, computed[t]))
                                        ELSE trust_badge_history[t]
         /\ trust_badge_history' = [t \in Tenants |-> trust_badge_history'[t]]
         /\ trust_badge_registry' = [t \in DOMAIN trust_badge_registry' |-> trust_badge_registry'[t]]
  BY DEF SyncBadges, ChangedBy

LEMMA SyncedRowType ==
  ASSUME BadgeTypeOK, NEW t \in Tenants, NEW c \in Computed
  PROVE  /\ SyncedRow(t, c) \in RegistryRow
         /\ HistoryEntry(t, c) \in HistoryRow
<1>1. SignBadgeState(t, c.state, now + 1) \in Signature
  BY DEF SignBadgeState, Signature, Computed, BadgeTypeOK
<1>2. SyncedRow(t, c) \in RegistryRow
  BY <1>1 DEF SyncedRow, RegistryRow, Computed, BadgeTypeOK
<1>3. HistoryEntry(t, c) \in HistoryRow
  BY DEF HistoryEntry, HistoryRow, HasBadge, Computed, BadgeTypeOK, RegistryRow
<1> QED BY <1>2, <1>3

LEMMA SyncType ==
  ASSUME BadgeTypeOK,
         NEW computed, DOMAIN computed \subseteq Tenants,
         \A t \in DOMAIN computed : computed[t] \in Computed,
         SyncBadges(computed), UNCHANGED <<secret_state, env, used, process, boots>>
  PROVE  BadgeTypeOK'
<1> DEFINE C == ChangedBy(computed)
<1>0. C \subseteq Tenants /\ \A t \in C : computed[t] \in Computed
  BY DEF ChangedBy
<1>1. DOMAIN trust_badge_registry' \subseteq Tenants
  BY <1>0, SyncedTables DEF BadgeTypeOK
<1>2. ASSUME NEW t \in DOMAIN trust_badge_registry' PROVE trust_badge_registry'[t] \in RegistryRow
  <2>1. CASE t \in C
    <3>1. trust_badge_registry'[t] = SyncedRow(t, computed[t])
      BY <2>1, SyncedTables
    <3>2. t \in Tenants /\ computed[t] \in Computed
      BY <2>1, <1>0
    <3> QED BY <3>1, <3>2, SyncedRowType
  <2>2. CASE t \notin C
    <3>1. t \in DOMAIN trust_badge_registry /\ trust_badge_registry'[t] = trust_badge_registry[t]
      BY <2>2, SyncedTables
    <3> QED BY <3>1 DEF BadgeTypeOK
  <2> QED BY <2>1, <2>2
<1>3. trust_badge_registry' \in [DOMAIN trust_badge_registry' -> RegistryRow]
  BY <1>2, SyncedTables
<1>4. ASSUME NEW t \in Tenants PROVE trust_badge_history'[t] \in Seq(HistoryRow)
  <2>0. trust_badge_history[t] \in Seq(HistoryRow)
    BY DEF BadgeTypeOK
  <2>1. CASE t \in C
    <3>1. HistoryEntry(t, computed[t]) \in HistoryRow
      BY <2>1, <1>0, SyncedRowType
    <3>2. trust_badge_history'[t] = Append(trust_badge_history[t], HistoryEntry(t, computed[t]))
      BY <2>1, SyncedTables
    <3> QED BY <2>0, <3>1, <3>2
  <2>2. CASE t \notin C
    BY <2>0, <2>2, SyncedTables
  <2> QED BY <2>1, <2>2
<1>5. trust_badge_history' \in [Tenants -> Seq(HistoryRow)]
  BY <1>4, SyncedTables
<1>6. now' \in Nat
  BY DEF BadgeTypeOK, SyncBadges
<1> QED BY <1>1, <1>3, <1>5, <1>6 DEF BadgeTypeOK

\* A sync, with the type of what was computed.
LEMMA SyncIsSync ==
  ASSUME Sync
  PROVE  \E computed : /\ DOMAIN computed \subseteq Tenants
                       /\ \A t \in DOMAIN computed : computed[t] \in Computed
                       /\ SyncBadges(computed)
                       /\ UNCHANGED <<secret_state, env, used, process, boots>>
<1>1. PICK T \in SUBSET Tenants : \E computed \in [T -> Computed] : SyncBadges(computed)
  BY DEF Sync, Computed
<1>2. PICK computed \in [T -> Computed] : SyncBadges(computed)
  BY <1>1
<1>3. UNCHANGED <<secret_state, env, used, process, boots>>
  BY DEF Sync
<1> QED BY <1>2, <1>3

-----------------------------------------------------------------------------
\* Every variable keeps its type.
THEOREM BadgeTypeCorrect == BadgeSpec => []BadgeTypeOK
<1>1. BadgeInit => BadgeTypeOK
  BY BadgeAssumption DEF BadgeInit, BadgeTypeOK
<1>2. BadgeTypeOK /\ [BadgeNext]_badgeVars => BadgeTypeOK'
  <2> SUFFICES ASSUME BadgeTypeOK, [BadgeNext]_badgeVars PROVE BadgeTypeOK'
    OBVIOUS
  <2>1. CASE BootEstablished
    BY <2>1 DEF BootEstablished, BadgeTypeOK
  <2>2. CASE BootUnchanged
    BY <2>2 DEF BootUnchanged, BadgeTypeOK
  <2>3. CASE BootResigns
    <3>1. ASSUME NEW t \in DOMAIN trust_badge_registry
          PROVE  trust_badge_registry'[t] \in RegistryRow
      <4>1. trust_badge_registry[t] \in RegistryRow /\ t \in Tenants
        BY DEF BadgeTypeOK
      <4>2. SignBadgeState(t, trust_badge_registry[t].badge_state,
                              trust_badge_registry[t].state_changed_at) \in Signature
        BY <4>1 DEF SignBadgeState, Signature, RegistryRow, BadgeTypeOK
      <4> QED BY <2>3, <4>1, <4>2 DEF BootResigns, RegistryRow
    <3> QED BY <2>3, <3>1 DEF BootResigns, BadgeTypeOK
  <2>4. CASE BootRecords
    BY <2>4 DEF BootRecords, BadgeTypeOK
  <2>5. CASE Restart
    BY <2>5 DEF Restart, BadgeTypeOK
  <2>6. CASE Sync
    BY <2>6, SyncIsSync, SyncType
  <2>7. CASE UNCHANGED badgeVars
    BY <2>7 DEF badgeVars, BadgeTypeOK
  <2> QED BY <2>1, <2>2, <2>3, <2>4, <2>5, <2>6, <2>7 DEF BadgeNext
<1> QED BY <1>1, <1>2, PTL DEF BadgeSpec

-----------------------------------------------------------------------------
\* What a stored signature was computed over is the row it is stored in.
THEOREM SignaturesAttest == BadgeSpec => []SignatureAttestsRow
<1>1. BadgeInit => SignatureAttestsRow
  BY DEF BadgeInit, SignatureAttestsRow
<1>2. BadgeTypeOK /\ SignatureAttestsRow /\ [BadgeNext]_badgeVars => SignatureAttestsRow'
  <2> SUFFICES ASSUME BadgeTypeOK, SignatureAttestsRow, [BadgeNext]_badgeVars
               PROVE  SignatureAttestsRow'
    OBVIOUS
  <2>1. CASE BootResigns
    <3>1. ASSUME NEW t \in DOMAIN trust_badge_registry
          PROVE  LET row == trust_badge_registry'[t]
                 IN  /\ row.state_signature.tenant = t
                     /\ row.state_signature.badge_state = row.badge_state
                     /\ row.state_signature.state_changed_at = row.state_changed_at
      <4>1. trust_badge_registry[t] \in RegistryRow
        BY DEF BadgeTypeOK
      <4> QED BY <2>1, <4>1 DEF BootResigns, SignBadgeState, RegistryRow
    <3>2. DOMAIN trust_badge_registry' = DOMAIN trust_badge_registry
      BY <2>1 DEF BootResigns
    <3> QED BY <3>1, <3>2 DEF SignatureAttestsRow
  <2>2. CASE Sync
    <3>1. PICK computed : SyncBadges(computed)
      BY <2>2, SyncIsSync
    <3>2. ASSUME NEW t \in DOMAIN trust_badge_registry'
          PROVE  LET row == trust_badge_registry'[t]
                 IN  /\ row.state_signature.tenant = t
                     /\ row.state_signature.badge_state = row.badge_state
                     /\ row.state_signature.state_changed_at = row.state_changed_at
      <4>1. CASE t \in ChangedBy(computed)
        <5>1. trust_badge_registry'[t] = SyncedRow(t, computed[t])
          BY <3>1, <4>1, SyncedTables
        <5> QED BY <5>1 DEF SyncedRow, SignBadgeState
      <4>2. CASE t \notin ChangedBy(computed)
        <5>1. t \in DOMAIN trust_badge_registry /\ trust_badge_registry'[t] = trust_badge_registry[t]
          BY <3>1, <4>2, SyncedTables
        <5> QED BY <5>1 DEF SignatureAttestsRow
      <4> QED BY <4>1, <4>2
    <3> QED BY <3>2 DEF SignatureAttestsRow
  <2>3. CASE BootEstablished \/ BootUnchanged \/ BootRecords \/ Restart \/ UNCHANGED badgeVars
    BY <2>3 DEF BootEstablished, BootUnchanged, BootRecords, Restart, badgeVars, SignatureAttestsRow
  <2> QED BY <2>1, <2>2, <2>3 DEF BadgeNext
<1> QED BY <1>1, <1>2, BadgeTypeCorrect, PTL DEF BadgeSpec

-----------------------------------------------------------------------------
SignedBy(secret) ==
  \A t \in DOMAIN trust_badge_registry : trust_badge_registry[t].state_signature.secret = secret

\* The strengthening of StoredMatchesCurrent: the rows are signed by the secret on
\* record, or the next boot will see that the secret changed.
SecretOnRecord ==
  /\ secret_state \in used \cup {None}
  /\ secret_state = None => DOMAIN trust_badge_registry = {}
  /\ process = "up" => secret_state = env.current
  /\ process = "resigned" => SignedBy(env.current)
  /\ env.current = secret_state => SignedBy(secret_state)

\* With no secret ever used again, every badge is signed by the current secret
\* whenever requests are served, whatever was interrupted before.
THEOREM StoredIsCurrent ==
  ASSUME Reuse = FALSE
  PROVE  BadgeSpec => []StoredMatchesCurrent
<1>1. BadgeInit => SecretOnRecord
  BY BadgeAssumption DEF BadgeInit, SecretOnRecord, SignedBy
<1>2. BadgeTypeOK /\ SecretOnRecord /\ [BadgeNext]_badgeVars => SecretOnRecord'
  <2> SUFFICES ASSUME BadgeTypeOK, SecretOnRecord, [BadgeNext]_badgeVars
               PROVE  SecretOnRecord'
    OBVIOUS
  <2> USE BadgeAssumption
  <2>1. CASE BootEstablished
    <3>1. DOMAIN trust_badge_registry' = {}
      BY <2>1 DEF BootEstablished, SecretOnRecord
    <3> QED BY <2>1, <3>1 DEF BootEstablished, SecretOnRecord, SignedBy, BadgeTypeOK
  <2>2. CASE BootUnchanged
    BY <2>2 DEF BootUnchanged, SecretOnRecord, SignedBy
  <2>3. CASE BootResigns
    <3>1. ASSUME NEW t \in DOMAIN trust_badge_registry
          PROVE  trust_badge_registry'[t].state_signature.secret = env.current
      <4>1. trust_badge_registry[t] \in RegistryRow
        BY DEF BadgeTypeOK
      <4> QED BY <2>3, <4>1 DEF BootResigns, SignBadgeState, RegistryRow
    <3>2. SignedBy(env.current)'
      BY <2>3, <3>1 DEF BootResigns, SignedBy
    <3> QED BY <2>3, <3>2 DEF BootResigns, SecretOnRecord
  <2>4. CASE BootRecords
    <3>1. SignedBy(env.current)'
      BY <2>4 DEF BootRecords, SecretOnRecord, SignedBy
    <3> QED BY <2>4, <3>1 DEF BootRecords, SecretOnRecord, BadgeTypeOK
  <2>5. CASE Restart
    <3>1. CASE UNCHANGED <<env, used>>
      BY <2>5, <3>1 DEF Restart, SecretOnRecord, SignedBy
    <3>2. CASE ~UNCHANGED <<env, used>>
      <4>1. PICK s \in Secrets \ {env.current}, p \in {env.current, None} :
              /\ s \notin used
              /\ env' = [current |-> s, previous |-> p]
              /\ used' = used \cup {s}
        BY <2>5, <3>2 DEF Restart
      <4>2. env'.current # secret_state
        BY <4>1 DEF SecretOnRecord
      <4> QED BY <2>5, <4>1, <4>2 DEF Restart, SecretOnRecord, SignedBy
    <3> QED BY <3>1, <3>2
  <2>6. CASE Sync
    <3>1. PICK computed : SyncBadges(computed)
      BY <2>6, SyncIsSync
    <3>2. process = "up" /\ UNCHANGED <<secret_state, env, used, process, boots>>
      BY <2>6 DEF Sync
    <3>3. ASSUME NEW t \in DOMAIN trust_badge_registry'
          PROVE  trust_badge_registry'[t].state_signature.secret = env.current
      <4>1. CASE t \in ChangedBy(computed)
        <5>1. trust_badge_registry'[t] = SyncedRow(t, computed[t])
          BY <3>1, <4>1, SyncedTables
        <5> QED BY <5>1 DEF SyncedRow, SignBadgeState
      <4>2. CASE t \notin ChangedBy(computed)
        <5>1. t \in DOMAIN trust_badge_registry /\ trust_badge_registry'[t] = trust_badge_registry[t]
          BY <3>1, <4>2, SyncedTables
        <5> QED BY <5>1, <3>2 DEF SecretOnRecord, SignedBy
      <4> QED BY <4>1, <4>2
    <3>4. SignedBy(env.current)'
      BY <3>2, <3>3 DEF SignedBy
    <3>5. secret_state # None
      BY <3>2 DEF SecretOnRecord, BadgeTypeOK
    <3> QED BY <3>2, <3>4, <3>5 DEF SecretOnRecord
  <2>7. CASE UNCHANGED badgeVars
    BY <2>7 DEF badgeVars, SecretOnRecord, SignedBy
  <2> QED BY <2>1, <2>2, <2>3, <2>4, <2>5, <2>6, <2>7 DEF BadgeNext
<1>3. SecretOnRecord => StoredMatchesCurrent
  BY DEF SecretOnRecord, SignedBy, StoredMatchesCurrent
<1> QED BY <1>1, <1>2, <1>3, BadgeTypeCorrect, PTL DEF BadgeSpec
-----------------------------------------------------------------------------
\* HistoryExplainsBadge for one tenant.
Chain(t) ==
  LET h == trust_badge_history[t]
  IN  /\ HasBadge(t) <=> h # <<>>
      /\ h # <<>> => /\ h[1].from_state = "null"
                     /\ h[Len(h)].to_state = trust_badge_registry[t].badge_state
                     /\ h[Len(h)].reason = trust_badge_registry[t].state_reason
      /\ \A i \in 2 .. Len(h) : h[i].from_state = h[i - 1].to_state

LEMMA ChainGrows ==
  ASSUME BadgeTypeOK, NEW t \in Tenants, Chain(t), NEW c,
         HasBadge(t)', trust_badge_registry'[t] = SyncedRow(t, c),
         trust_badge_history'[t] = Append(trust_badge_history[t], HistoryEntry(t, c))
  PROVE  Chain(t)'
<1> DEFINE h == trust_badge_history[t]
           e == HistoryEntry(t, c)
           g == trust_badge_history'[t]
<1>1. h \in Seq(HistoryRow) /\ Len(h) \in Nat
  BY DEF BadgeTypeOK
<1>2. g = Append(h, e)
  OBVIOUS
<1>3. /\ e.to_state = c.state /\ e.reason = c.reason
      /\ e.from_state = IF HasBadge(t) THEN trust_badge_registry[t].badge_state ELSE "null"
  BY DEF HistoryEntry
<1>4. /\ trust_badge_registry'[t].badge_state = c.state
      /\ trust_badge_registry'[t].state_reason = c.reason
  BY DEF SyncedRow
<1> HIDE DEF h, e, g
<1>5. /\ Len(g) = Len(h) + 1 /\ g # <<>> /\ g[Len(h) + 1] = e
      /\ \A i \in 1 .. Len(h) : g[i] = h[i]
  BY <1>1, <1>2
<1>6. /\ HasBadge(t) <=> h # <<>>
      /\ h # <<>> => /\ h[1].from_state = "null"
                     /\ h[Len(h)].to_state = trust_badge_registry[t].badge_state
      /\ \A i \in 2 .. Len(h) : h[i].from_state = h[i - 1].to_state
  BY DEF Chain, h
<1>7. h # <<>> <=> Len(h) > 0
  BY <1>1
<1>8. g[1].from_state = "null"
  BY <1>1, <1>3, <1>5, <1>6, <1>7
<1>9. ASSUME NEW i \in 2 .. Len(g) PROVE g[i].from_state = g[i - 1].to_state
  <2>1. CASE i \in 2 .. Len(h)
    BY <2>1, <1>1, <1>5, <1>6
  <2>2. CASE i = Len(h) + 1
    <3>1. Len(h) > 0 /\ i - 1 = Len(h) /\ g[i - 1] = h[Len(h)] /\ g[i] = e
      BY <2>2, <1>1, <1>5
    <3> QED BY <3>1, <1>3, <1>6, <1>7
  <2> QED BY <2>1, <2>2, <1>1, <1>5
<1> QED BY <1>3, <1>4, <1>5, <1>8, <1>9 DEF Chain, g

\* The history of every tenant is a chain that ends in its badge.
THEOREM HistoryExplains == BadgeSpec => []HistoryExplainsBadge
<1>1. BadgeInit => HistoryExplainsBadge
  BY DEF BadgeInit, HistoryExplainsBadge, HasBadge
<1>2. BadgeTypeOK /\ HistoryExplainsBadge /\ [BadgeNext]_badgeVars => HistoryExplainsBadge'
  <2> SUFFICES ASSUME BadgeTypeOK, HistoryExplainsBadge, [BadgeNext]_badgeVars,
                      NEW t \in Tenants
               PROVE  Chain(t)'
    BY DEF HistoryExplainsBadge, Chain
  <2>0. Chain(t)
    BY DEF HistoryExplainsBadge, Chain
  <2>1. CASE BootResigns
    <3>1. /\ HasBadge(t)' <=> HasBadge(t)
          /\ trust_badge_history' = trust_badge_history
      BY <2>1 DEF BootResigns, HasBadge
    <3>2. HasBadge(t) => /\ trust_badge_registry'[t].badge_state = trust_badge_registry[t].badge_state
                         /\ trust_badge_registry'[t].state_reason = trust_badge_registry[t].state_reason
      <4> SUFFICES ASSUME HasBadge(t)
                   PROVE  /\ trust_badge_registry'[t].badge_state = trust_badge_registry[t].badge_state
                          /\ trust_badge_registry'[t].state_reason = trust_badge_registry[t].state_reason
        OBVIOUS
      <4>1. trust_badge_registry[t] \in RegistryRow
        BY DEF HasBadge, BadgeTypeOK
      <4> QED BY <2>1, <4>1 DEF BootResigns, HasBadge, RegistryRow
    <3> QED BY <2>0, <3>1, <3>2 DEF Chain
  <2>2. CASE Sync
    <3>1. PICK computed : SyncBadges(computed)
      BY <2>2, SyncIsSync
    <3>2. CASE t \in ChangedBy(computed)
      <4>1. /\ HasBadge(t)'
            /\ trust_badge_registry'[t] = SyncedRow(t, computed[t])
            /\ trust_badge_history'[t] = Append(trust_badge_history[t], HistoryEntry(t, computed[t]))
        BY <3>1, <3>2, SyncedTables DEF HasBadge
      <4> QED BY <2>0, <4>1, ChainGrows
    <3>3. CASE t \notin ChangedBy(computed)
      <4>1. /\ HasBadge(t)' <=> HasBadge(t)
            /\ HasBadge(t) => trust_badge_registry'[t] = trust_badge_registry[t]
            /\ trust_badge_history'[t] = trust_badge_history[t]
        BY <3>1, <3>3, SyncedTables DEF HasBadge
      <4> QED BY <2>0, <4>1 DEF Chain
    <3> QED BY <3>2, <3>3
  <2>3. CASE BootEstablished \/ BootUnchanged \/ BootRecords \/ Restart \/ UNCHANGED badgeVars
    BY <2>0, <2>3 DEF BootEstablished, BootUnchanged, BootRecords, Restart, badgeVars, Chain, HasBadge
  <2> QED BY <2>1, <2>2, <2>3 DEF BadgeNext
<1> QED BY <1>1, <1>2, BadgeTypeCorrect, PTL DEF BadgeSpec
-----------------------------------------------------------------------------
\* What PinsOutliveRotation says of one step.
PinsHold ==
  \A t \in DOMAIN trust_badge_registry :
    \A pin \in {trust_badge_registry[t].state_signature} :
      (/\ trust_badge_history'[t] = trust_badge_history[t]
       /\ pin.secret \in {env'.current, env'.previous}) => Served(pin, t)'

\* No boot, rotation, crash or sync of other badges takes a pin away.
THEOREM PinsOutlive == BadgeSpec => PinsOutliveRotation
<1>1. BadgeTypeOK /\ SignatureAttestsRow /\ [BadgeNext]_badgeVars => [PinsHold]_badgeVars
  <2> SUFFICES ASSUME BadgeTypeOK, SignatureAttestsRow, BadgeNext,
                      NEW t \in DOMAIN trust_badge_registry,
                      NEW pin \in {trust_badge_registry[t].state_signature},
                      trust_badge_history'[t] = trust_badge_history[t],
                      pin.secret \in {env'.current, env'.previous}
               PROVE  Served(pin, t)'
    BY DEF PinsHold
  <2>0. t \in Tenants /\ trust_badge_registry[t] \in RegistryRow
    BY DEF BadgeTypeOK
  <2>1. CASE BootResigns
    <3>1. pin = [secret |-> pin.secret, tenant |-> t,
                 badge_state |-> trust_badge_registry[t].badge_state,
                 state_changed_at |-> trust_badge_registry[t].state_changed_at]
      <4>1. pin \in Signature
        BY <2>0 DEF RegistryRow
      <4>2. /\ pin.tenant = t
            /\ pin.badge_state = trust_badge_registry[t].badge_state
            /\ pin.state_changed_at = trust_badge_registry[t].state_changed_at
        BY DEF SignatureAttestsRow
      <4> QED BY <4>1, <4>2 DEF Signature
    <3>2. /\ t \in DOMAIN trust_badge_registry'
          /\ trust_badge_registry'[t].badge_state = trust_badge_registry[t].badge_state
          /\ trust_badge_registry'[t].state_changed_at = trust_badge_registry[t].state_changed_at
      BY <2>1, <2>0 DEF BootResigns, RegistryRow
    <3>3. pin.secret # None
      BY <2>0, BadgeAssumption DEF RegistryRow, Signature
    <3>4. Verifies(pin, t, pin.secret)'
      BY <3>1, <3>2, <3>3 DEF Verifies
    <3>5. env' = env
      BY <2>1 DEF BootResigns
    <3>6. CASE pin.secret = env'.current
      BY <3>2, <3>4, <3>6 DEF Served, HasBadge
    <3>7. CASE pin.secret = env'.previous
      BY <3>2, <3>4, <3>7 DEF Served, HasBadge
    <3> QED BY <3>6, <3>7
  <2>2. CASE Sync
    <3>1. PICK computed : SyncBadges(computed)
      BY <2>2, SyncIsSync
    <3>2. t \notin ChangedBy(computed)
      <4> SUFFICES ASSUME t \in ChangedBy(computed) PROVE FALSE
        OBVIOUS
      <4>1. trust_badge_history'[t] = Append(trust_badge_history[t], HistoryEntry(t, computed[t]))
        BY <3>1, <2>0, SyncedTables
      <4>2. trust_badge_history[t] \in Seq(HistoryRow)
        BY <2>0 DEF BadgeTypeOK
      <4>3. Len(trust_badge_history'[t]) = Len(trust_badge_history[t]) + 1
        BY <4>1, <4>2
      <4> QED BY <4>2, <4>3
    <3>3. t \in DOMAIN trust_badge_registry' /\ trust_badge_registry'[t] = trust_badge_registry[t]
      BY <3>1, <3>2, SyncedTables
    <3> QED BY <3>3 DEF Served, HasBadge
  <2>3. CASE BootEstablished \/ BootUnchanged \/ BootRecords \/ Restart
    BY <2>3 DEF BootEstablished, BootUnchanged, BootRecords, Restart, Served, HasBadge
  <2> QED BY <2>1, <2>2, <2>3 DEF BadgeNext
<1> QED BY <1>1, BadgeTypeCorrect, SignaturesAttest, PTL DEF BadgeSpec, PinsOutliveRotation, PinsHold

\* TypeOK without the badges.
TablesOK ==
  /\ accounts \subseteq Tenants
  /\ DOMAIN ai_insurance_warranties \subseteq WarrantyIds
  /\ ai_insurance_warranties \in [DOMAIN ai_insurance_warranties -> WarrantyRow]
  /\ \A w \in DOMAIN ai_insurance_warranties : ai_insurance_warranties[w].tenant \in accounts
  /\ evidence \in [Tenants -> EvidenceValues]
  /\ changes \in Nat

-----------------------------------------------------------------------------
(* What the handlers compute. *)

LEMMA Evaluated ==
  ASSUME NEW e
  PROVE  EvaluatePolicyState(e) \in PolicyStates
  BY DEF EvaluatePolicyState, PolicyStates

LEMMA GreenComputed == Green \in Computed
  BY BadgeAssumption DEF Green, Computed, BadgeStates

\* A badge computed from evidence is one syncBadge is given, and is red exactly for a
\* policy that is not ACTIVE.
LEMMA BadgeComputed ==
  ASSUME NEW p \in PolicyStates, NEW e \in EvidenceValues
  PROVE  /\ ComputeBadgeState(p, e) \in Computed
         /\ ComputeBadgeState(p, e).state = "red" <=> p # "ACTIVE"
<1> DEFINE b == ComputeBadgeState(p, e)
<1>1. b.reason \in Reasons
  <2>1. b.reason \in EvidenceReasons
    BY DEF EvidenceReasons
  <2> HIDE DEF b
  <2> QED BY <2>1, ReasonsAssumption
<1>2. /\ b = [state |-> b.state, reason |-> b.reason]
      /\ b.state \in BadgeStates
      /\ b.state = "red" <=> p # "ACTIVE"
  BY DEF ComputeBadgeState, Green, BadgeStates, PolicyStates
<1> HIDE DEF b
<1>3. b \in Computed
  BY <1>1, <1>2 DEF Computed
<1> QED BY <1>2, <1>3 DEF b

\* What a scan or a recompute of the policies in S computes for their tenants.
Scanned(S) ==
  [t \in {TenantOf(w) : w \in S} |-> ComputeBadgeState(EvaluatePolicyState(evidence[t]), evidence[t])]

LEMMA ScannedComputed ==
  ASSUME TablesOK, NEW S \in SUBSET DOMAIN ai_insurance_warranties
  PROVE  /\ DOMAIN Scanned(S) \in SUBSET Tenants
         /\ Scanned(S) \in [DOMAIN Scanned(S) -> Computed]
         /\ \A t \in DOMAIN Scanned(S) :
              Scanned(S)[t].state = "red" <=> EvaluatePolicyState(evidence[t]) # "ACTIVE"
<1>1. \A w \in S : TenantOf(w) \in Tenants
  BY DEF TablesOK, TenantOf
<1>2. \A t \in Tenants : evidence[t] \in EvidenceValues
  BY DEF TablesOK
<1>3. DOMAIN Scanned(S) = {TenantOf(w) : w \in S}
  BY DEF Scanned
<1>4. \A t \in DOMAIN Scanned(S) :
        /\ t \in Tenants
        /\ Scanned(S)[t] = ComputeBadgeState(EvaluatePolicyState(evidence[t]), evidence[t])
  BY <1>1, <1>3 DEF Scanned
<1>5. \A t \in DOMAIN Scanned(S) :
        /\ Scanned(S)[t] \in Computed
        /\ Scanned(S)[t].state = "red" <=> EvaluatePolicyState(evidence[t]) # "ACTIVE"
  BY <1>2, <1>4, Evaluated, BadgeComputed
<1>6. Scanned(S) \in [DOMAIN Scanned(S) -> Computed]
  <2>1. Scanned(S) = [t \in DOMAIN Scanned(S) |-> Scanned(S)[t]]
    BY DEF Scanned
  <2> QED BY <1>5, <2>1
<1> QED BY <1>4, <1>5, <1>6

-----------------------------------------------------------------------------
(* Every step is a step of the badge. *)

LEMMA OneBadge ==
  ASSUME NEW t \in Tenants, process = "up", SyncBadges([u \in {t} |-> Green]),
         UNCHANGED <<secret_state, env, used, process, boots>>
  PROVE  Sync
<1>1. [u \in {t} |-> Green] \in [{t} -> Computed]
  BY GreenComputed
<1> QED BY <1>1 DEF Sync, Computed

LEMMA ApplySyncs ==
  ASSUME TablesOK, NEW S \in SUBSET DOMAIN ai_insurance_warranties, Apply(S)
  PROVE  Sync
<1>1. SyncBadges(Scanned(S)) /\ process = "up" /\ UNCHANGED <<secret_state, env, used, process, boots>>
  BY DEF Apply, SameProcess, Scanned
<1>2. DOMAIN Scanned(S) \in SUBSET Tenants /\ Scanned(S) \in [DOMAIN Scanned(S) -> Computed]
  BY ScannedComputed
<1> QED BY <1>1, <1>2 DEF Sync, Computed

LEMMA BadgeStep ==
  ASSUME TablesOK, [Next]_vars
  PROVE  [BadgeNext]_badgeVars
<1>1. ASSUME NEW t \in Tenants, CreateAccount(t) PROVE Sync
  BY <1>1, OneBadge DEF CreateAccount, SameProcess
<1>2. ASSUME NEW t \in Tenants, NEW w \in WarrantyIds, BindPolicy(w, t) PROVE Sync
  BY <1>2, OneBadge DEF BindPolicy, SameProcess
<1>3. ASSUME NEW w \in DOMAIN ai_insurance_warranties, RecomputePolicy(w) PROVE Sync
  BY <1>3, ApplySyncs DEF RecomputePolicy
<1>4. ASSUME NEW failed \in SUBSET Active, RecomputeAllWarranties(failed) PROVE Sync
  <2>1. Active \ failed \in SUBSET DOMAIN ai_insurance_warranties
    BY DEF Active
  <2> QED BY <1>4, <2>1, ApplySyncs DEF RecomputeAllWarranties
<1>5. ASSUME NEW t \in Tenants, EvidenceChanges(t) PROVE UNCHANGED badgeVars
  BY <1>5 DEF EvidenceChanges
<1>6. CASE UNCHANGED vars
  BY <1>6 DEF vars, badgeVars
<1> QED BY <1>1, <1>2, <1>3, <1>4, <1>5, <1>6 DEF Next, Starts, Stops, BadgeNext

-----------------------------------------------------------------------------
LEMMA AppliedTables ==
  ASSUME TablesOK, NEW S \in SUBSET DOMAIN ai_insurance_warranties, Apply(S)
  PROVE  /\ DOMAIN ai_insurance_warranties' = DOMAIN ai_insurance_warranties
         /\ \A w \in DOMAIN ai_insurance_warranties :
              /\ ai_insurance_warranties'[w].tenant = ai_insurance_warranties[w].tenant
              /\ ai_insurance_warranties'[w].policy_state =
                   IF w \in S THEN EvaluatePolicyState(evidence[ai_insurance_warranties[w].tenant])
                   ELSE ai_insurance_warranties[w].policy_state
         /\ TablesOK'
<1> DEFINE W == ai_insurance_warranties
           Row(w) == IF w \in S THEN [W[w] EXCEPT !.policy_state =
                                        EvaluatePolicyState(evidence[TenantOf(w)])]
                     ELSE W[w]
<1>1. ai_insurance_warranties' = [w \in DOMAIN W |-> Row(w)]
  BY DEF Apply
<1>2. \A w \in DOMAIN W : W[w] \in WarrantyRow
  BY DEF TablesOK
<1>3. ASSUME NEW w \in DOMAIN W
      PROVE  /\ Row(w) \in WarrantyRow /\ Row(w).tenant = W[w].tenant
             /\ Row(w).policy_state = IF w \in S THEN EvaluatePolicyState(evidence[W[w].tenant])
                                      ELSE W[w].policy_state
  BY <1>2, <1>3, Evaluated DEF WarrantyRow, TenantOf
<1>4. UNCHANGED <<accounts, evidence, changes>>
  BY DEF Apply
<1> HIDE DEF Row
<1>5. TablesOK'
  BY <1>1, <1>3, <1>4 DEF TablesOK
<1> QED BY <1>1, <1>3, <1>5

LEMMA TablesStep ==
  ASSUME TablesOK, [Next]_vars
  PROVE  TablesOK'
<1>1. ASSUME NEW t \in Tenants, CreateAccount(t) PROVE TablesOK'
  BY <1>1 DEF TablesOK, CreateAccount
<1>2. ASSUME NEW t \in Tenants, NEW w \in WarrantyIds, BindPolicy(w, t) PROVE TablesOK'
  <2>1. [tenant |-> t, policy_state |-> "ACTIVE"] \in WarrantyRow
    BY DEF WarrantyRow, PolicyStates
  <2> QED BY <1>2, <2>1 DEF TablesOK, BindPolicy
<1>3. ASSUME NEW w \in DOMAIN ai_insurance_warranties, RecomputePolicy(w) PROVE TablesOK'
  BY <1>3, AppliedTables DEF RecomputePolicy
<1>4. ASSUME NEW failed \in SUBSET Active, RecomputeAllWarranties(failed) PROVE TablesOK'
  <2>1. Active \ failed \in SUBSET DOMAIN ai_insurance_warranties
    BY DEF Active
  <2> QED BY <1>4, <2>1, AppliedTables DEF RecomputeAllWarranties
<1>5. ASSUME NEW t \in Tenants, EvidenceChanges(t) PROVE TablesOK'
  BY <1>5, WarrantyAssumption DEF TablesOK, EvidenceChanges
<1>6. CASE Starts \/ Stops \/ UNCHANGED vars
  BY <1>6 DEF TablesOK, Starts, Stops, vars
<1> QED BY <1>1, <1>2, <1>3, <1>4, <1>5, <1>6 DEF Next

LEMMA TablesHold == Spec => []TablesOK
<1>1. Init => TablesOK
  BY DEF Init, TablesOK
<1>2. TablesOK /\ [Next]_vars => TablesOK'
  BY TablesStep
<1> QED BY <1>1, <1>2, PTL DEF Spec

\* Whatever accounts, policies and scans do, the badges behave as TrustBadge says: each
\* handler syncs badges computed for some tenants, starts, stops, or leaves them alone.
THEOREM WarrantyImplementsBadge == Spec => BadgeSpec
<1>1. Init => BadgeInit
  BY DEF Init
<1>2. TablesOK /\ [Next]_vars => [BadgeNext]_badgeVars
  BY BadgeStep
<1> QED BY <1>1, <1>2, TablesHold, PTL DEF Spec, BadgeSpec

\* Every reachable state of accounts, policies, evidence and badges is well typed.
THEOREM WarrantyTypeCorrect == Spec => []TypeOK
<1>1. TablesOK /\ BadgeTypeOK => TypeOK
  BY DEF TablesOK, TypeOK
<1> QED BY <1>1, TablesHold, WarrantyImplementsBadge, BadgeTypeCorrect, PTL

\* With policies around it too, a stored signature is of the current secret while requests
\* are served, if no secret is taken into use twice.
THEOREM WarrantyStoredIsCurrent ==
  ASSUME Reuse = FALSE
  PROVE  Spec => []StoredMatchesCurrent
  BY StoredIsCurrent, WarrantyImplementsBadge, PTL

\* A signature taken from the registry is served across scans, recomputes and new policies
\* as long as they leave the badge as it is.
THEOREM WarrantyPinsOutlive == Spec => PinsOutliveRotation
  BY PinsOutlive, WarrantyImplementsBadge, PTL

-----------------------------------------------------------------------------
(* Badges and policies. *)

\* A sync leaves the computed state to those it was computed for, changed or not, and the
\* others alone.
LEMMA SyncedState ==
  ASSUME NEW computed, SyncBadges(computed), NEW t
  PROVE  /\ t \in DOMAIN computed => HasBadge(t)' /\ trust_badge_registry'[t].badge_state = computed[t].state
         /\ t \notin DOMAIN computed /\ HasBadge(t) =>
              HasBadge(t)' /\ trust_badge_registry'[t].badge_state = trust_badge_registry[t].badge_state
<1>1. /\ DOMAIN trust_badge_registry' = DOMAIN trust_badge_registry \cup ChangedBy(computed)
      /\ \A u \in DOMAIN trust_badge_registry' :
           trust_badge_registry'[u] = IF u \in ChangedBy(computed) THEN SyncedRow(u, computed[u])
                                                                   ELSE trust_badge_registry[u]
  BY SyncedTables
<1>2. SyncedRow(t, computed[t]).badge_state = computed[t].state
  BY DEF SyncedRow
<1>3. t \in DOMAIN computed /\ t \notin ChangedBy(computed) =>
        HasBadge(t) /\ trust_badge_registry[t].badge_state = computed[t].state
  BY DEF ChangedBy, SyncChanges
<1> QED BY <1>1, <1>2, <1>3 DEF HasBadge, ChangedBy

\* What BadgeFollowsPolicies says of one tenant.
Agrees(t) ==
  /\ HasBadge(t)
  /\ trust_badge_registry[t].badge_state = "red" => Of(t) \ Active # {}
  /\ trust_badge_registry[t].badge_state # "red" => (Of(t) = {} \/ Of(t) \cap Active # {})

LEMMA ApplyAgrees ==
  ASSUME TablesOK, BadgeFollowsPolicies, NEW S \in SUBSET DOMAIN ai_insurance_warranties, Apply(S),
         NEW t \in accounts
  PROVE  Agrees(t)'
<1> DEFINE W == ai_insurance_warranties
           verdict == EvaluatePolicyState(evidence[t])
<1>1. SyncBadges(Scanned(S))
  BY DEF Apply, Scanned
<1>2. /\ DOMAIN W' = DOMAIN W
      /\ \A w \in DOMAIN W :
           /\ W'[w].tenant = W[w].tenant
           /\ W'[w].policy_state = IF w \in S THEN EvaluatePolicyState(evidence[W[w].tenant])
                                   ELSE W[w].policy_state
  BY AppliedTables
<1>3. Of(t)' = Of(t) /\ Of(t) = {w \in DOMAIN W : W[w].tenant = t}
  BY <1>2 DEF Of, TenantOf
<1>4. \A w \in Of(t) : w \in Active' <=> IF w \in S THEN verdict = "ACTIVE" ELSE w \in Active
  BY <1>2, <1>3 DEF Active
<1>5. CASE t \in DOMAIN Scanned(S)
  <2>1. PICK w \in S : TenantOf(w) = t
    BY <1>5 DEF Scanned
  <2>2. w \in Of(t)
    BY <2>1, <1>3 DEF TenantOf
  <2>3. w \in Active' <=> verdict = "ACTIVE"
    BY <2>1, <2>2, <1>4
  <2>4. HasBadge(t)' /\ (trust_badge_registry'[t].badge_state = "red" <=> verdict # "ACTIVE")
    <3>1. Scanned(S)[t].state = "red" <=> verdict # "ACTIVE"
      BY <1>5, ScannedComputed
    <3>2. HasBadge(t)' /\ trust_badge_registry'[t].badge_state = Scanned(S)[t].state
      BY <1>1, <1>5, SyncedState
    <3> QED BY <3>1, <3>2
  <2> HIDE DEF verdict
  <2> QED BY <1>3, <2>2, <2>3, <2>4 DEF Agrees
<1>6. CASE t \notin DOMAIN Scanned(S)
  <2>1. Agrees(t)
    BY DEF BadgeFollowsPolicies, Agrees
  <2>2. \A w \in Of(t) : w \notin S
    BY <1>3, <1>6 DEF Scanned, TenantOf
  <2>3. \A w \in Of(t) : w \in Active' <=> w \in Active
    BY <2>2, <1>4
  <2>4. HasBadge(t)' /\ trust_badge_registry'[t].badge_state = trust_badge_registry[t].badge_state
    BY <1>1, <1>6, <2>1, SyncedState DEF Agrees
  <2> QED BY <1>3, <2>1, <2>3, <2>4 DEF Agrees
<1> QED BY <1>5, <1>6

\* The policies and accounts stand still, and so do the states of the badges.
LEMMA StillAgrees ==
  ASSUME BadgeFollowsPolicies, UNCHANGED <<accounts, ai_insurance_warranties>>,
         DOMAIN trust_badge_registry' = DOMAIN trust_badge_registry,
         \A t \in DOMAIN trust_badge_registry :
           trust_badge_registry'[t].badge_state = trust_badge_registry[t].badge_state
  PROVE  BadgeFollowsPolicies'
  BY DEF BadgeFollowsPolicies, HasBadge, Of, TenantOf, Active

LEMMA AgreementStep ==
  ASSUME TablesOK, BadgeTypeOK, BadgeFollowsPolicies, [Next]_vars
  PROVE  BadgeFollowsPolicies'
<1>1. ASSUME NEW u \in Tenants, CreateAccount(u) PROVE BadgeFollowsPolicies'
  <2>1. SyncBadges([x \in {u} |-> Green]) /\ u \notin accounts /\ accounts' = accounts \cup {u}
        /\ ai_insurance_warranties' = ai_insurance_warranties
    BY <1>1 DEF CreateAccount
  <2>2. Of(u) = {} /\ \A t : Of(t)' = Of(t) /\ Active' = Active
    BY <2>1 DEF TablesOK, Of, TenantOf, Active
  <2>3. ASSUME NEW t \in accounts' PROVE Agrees(t)'
    <3>1. CASE t = u
      <4>1. HasBadge(t)' /\ trust_badge_registry'[t].badge_state = "green"
        BY <2>1, <3>1, SyncedState DEF Green
      <4> QED BY <3>1, <4>1, <2>2 DEF Agrees
    <3>2. CASE t # u
      <4>1. Agrees(t)
        BY <2>1, <2>3, <3>2 DEF BadgeFollowsPolicies, Agrees
      <4>2. HasBadge(t)' /\ trust_badge_registry'[t].badge_state = trust_badge_registry[t].badge_state
        BY <2>1, <3>2, <4>1, SyncedState DEF Agrees
      <4> QED BY <4>1, <4>2, <2>2 DEF Agrees
    <3> QED BY <3>1, <3>2
  <2> QED BY <2>3 DEF BadgeFollowsPolicies, Agrees
<1>2. ASSUME NEW u \in Tenants, NEW x \in WarrantyIds, BindPolicy(x, u) PROVE BadgeFollowsPolicies'
  <2>1. /\ SyncBadges([y \in {u} |-> Green]) /\ u \in accounts /\ accounts' = accounts
        /\ x \notin DOMAIN ai_insurance_warranties
        /\ ai_insurance_warranties' =
             [w \in DOMAIN ai_insurance_warranties \cup {x} |->
                IF w = x THEN [tenant |-> u, policy_state |-> "ACTIVE"] ELSE ai_insurance_warranties[w]]
    BY <1>2 DEF BindPolicy, Bound
  <2>2. /\ x \in Of(u)' /\ Active' = Active \cup {x}
        /\ \A t : t # u => Of(t)' = Of(t)
    BY <2>1 DEF Of, TenantOf, Active
  <2>3. ASSUME NEW t \in accounts' PROVE Agrees(t)'
    <3>1. CASE t = u
      <4>1. HasBadge(t)' /\ trust_badge_registry'[t].badge_state = "green"
        BY <2>1, <3>1, SyncedState DEF Green
      <4> QED BY <3>1, <4>1, <2>2 DEF Agrees
    <3>2. CASE t # u
      <4>1. Agrees(t)
        BY <2>1, <2>3, <3>2 DEF BadgeFollowsPolicies, Agrees
      <4>2. HasBadge(t)' /\ trust_badge_registry'[t].badge_state = trust_badge_registry[t].badge_state
        BY <2>1, <3>2, <4>1, SyncedState DEF Agrees
      <4>3. Of(t)' = Of(t) /\ x \notin Of(t)
        BY <2>1, <2>2, <3>2 DEF Of
      <4> QED BY <4>1, <4>2, <4>3, <2>2 DEF Agrees
    <3> QED BY <3>1, <3>2
  <2> QED BY <2>3 DEF BadgeFollowsPolicies, Agrees
<1>3. ASSUME NEW S \in SUBSET DOMAIN ai_insurance_warranties, Apply(S) PROVE BadgeFollowsPolicies'
  <2>1. accounts' = accounts
    BY <1>3 DEF Apply
  <2> QED BY <1>3, <2>1, ApplyAgrees DEF BadgeFollowsPolicies, Agrees
<1>4. ASSUME NEW w \in DOMAIN ai_insurance_warranties, RecomputePolicy(w) PROVE BadgeFollowsPolicies'
  BY <1>3, <1>4 DEF RecomputePolicy
<1>5. ASSUME NEW failed \in SUBSET Active, RecomputeAllWarranties(failed)
      PROVE  BadgeFollowsPolicies'
  <2>1. Active \ failed \in SUBSET DOMAIN ai_insurance_warranties
    BY DEF Active
  <2> QED BY <1>3, <1>5, <2>1 DEF RecomputeAllWarranties
<1>6. ASSUME NEW t \in Tenants, EvidenceChanges(t) PROVE BadgeFollowsPolicies'
  BY <1>6, StillAgrees DEF EvidenceChanges, badgeVars
<1>7. CASE Starts
  <2>1. CASE BootResigns
    BY <1>7, <2>1, StillAgrees DEF Starts, BootResigns, BadgeTypeOK, RegistryRow
  <2>2. CASE BootEstablished \/ BootUnchanged \/ BootRecords
    BY <1>7, <2>2, StillAgrees DEF Starts, BootEstablished, BootUnchanged, BootRecords
  <2> QED BY <1>7, <2>1, <2>2 DEF Starts
<1>8. CASE Stops
  BY <1>8, StillAgrees DEF Stops, Restart
<1>9. CASE UNCHANGED vars
  BY <1>9, StillAgrees DEF vars, badgeVars
<1> QED BY <1>1, <1>2, <1>4, <1>5, <1>6, <1>7, <1>8, <1>9 DEF Next

\* Badge and policies agree for any number of tenants and policies, whatever order scans,
\* recomputes, new policies and restarts come in and whatever the evidence becomes.
THEOREM BadgeAgrees == Spec => []BadgeFollowsPolicies
<1>1. Init => BadgeFollowsPolicies
  BY DEF Init, BadgeFollowsPolicies
<1>2. TypeOK /\ BadgeFollowsPolicies /\ [Next]_vars => BadgeFollowsPolicies'
  BY AgreementStep DEF TypeOK, TablesOK
<1> QED BY <1>1, <1>2, WarrantyTypeCorrect, PTL DEF Spec
=============================================================================
