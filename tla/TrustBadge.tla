----------------------------- MODULE TrustBadge -----------------------------
(***************************************************************************)
(* The trust badge: one signed row per tenant and its history              *)
(* (src/src/lib/badge-sync.ts), the secret that signs it and the signatures *)
(* a public badge request is served for (badge-secrets.ts, routes/badge.ts), *)
(* and the rotation of that secret at boot (badge-rotation.ts).            *)
(*                                                                         *)
(* An HMAC is modelled as the record of what it was computed over and with: *)
(* two are equal exactly when those are.  The secret's fingerprint stands  *)
(* for the secret.  The tables survive a crash; the environment is read    *)
(* once per process.                                                       *)
(***************************************************************************)
EXTENDS Integers, Sequences, FiniteSets

CONSTANTS
  Tenants,
  Reasons, NoReason,   \* state_reason texts, and NULL
  Secrets, None,       \* BADGE_HMAC_SECRET values, and an unset one
  Reuse,               \* whether an operator ever configures a secret that was in use before
  MaxBoots             \* bound: process starts

ASSUME BadgeAssumption ==
  /\ NoReason \in Reasons
  /\ Secrets # {} /\ None \notin Secrets
  /\ Reuse \in BOOLEAN
  /\ MaxBoots \in Nat

VARIABLES
  trust_badge_registry,   \* the table: a function from the tenants that have a badge to their rows
  trust_badge_history,    \* the table: what was appended for each tenant, oldest first
  secret_state,           \* the fingerprint on record
  env,                    \* the secrets configured for the process
  used,                   \* the secrets ever configured (history)
  process,                \* "down", "resigned" (between the two commits of a rotation), "up"
  now,                    \* the time of the last badge write
  boots                   \* bound used up

tables    == <<trust_badge_registry, trust_badge_history>>
badgeVars == <<trust_badge_registry, trust_badge_history, secret_state, env, used, process, now, boots>>

BadgeStates == {"green", "amber", "red"}
Signature   == [secret : Secrets, tenant : Tenants, badge_state : BadgeStates, state_changed_at : Nat]
RegistryRow == [badge_state : BadgeStates, state_reason : Reasons,
                state_changed_at : Nat, state_signature : Signature]
HistoryRow  == [from_state : BadgeStates \cup {"null"}, to_state : BadgeStates, reason : Reasons]

BadgeTypeOK ==
  /\ DOMAIN trust_badge_registry \subseteq Tenants
  /\ trust_badge_registry \in [DOMAIN trust_badge_registry -> RegistryRow]
  /\ trust_badge_history \in [Tenants -> Seq(HistoryRow)]
  /\ secret_state \in Secrets \cup {None}
  /\ env \in [current : Secrets, previous : Secrets \cup {None}]
  /\ used \subseteq Secrets /\ env.current \in used
  /\ process \in {"down", "resigned", "up"}
  /\ now \in Nat /\ boots \in Nat

-----------------------------------------------------------------------------
(* badge-sync.ts and badge-secrets.ts *)

SignBadgeState(t, state, at) ==
  [secret |-> env.current, tenant |-> t, badge_state |-> state, state_changed_at |-> at]

HasBadge(t) == t \in DOMAIN trust_badge_registry

\* The no-op path of syncBadge is not taken.
SyncChanges(t, computed) ==
  \/ ~HasBadge(t)
  \/ trust_badge_registry[t].badge_state # computed.state
  \/ trust_badge_registry[t].state_reason # computed.reason

SyncedRow(t, computed) ==
  [badge_state      |-> computed.state,
   state_reason     |-> computed.reason,
   state_changed_at |-> now + 1,
   state_signature  |-> SignBadgeState(t, computed.state, now + 1)]

HistoryEntry(t, computed) ==
  [from_state |-> IF HasBadge(t) THEN trust_badge_registry[t].badge_state ELSE "null",
   to_state |-> computed.state, reason |-> computed.reason]

\* syncBadge for every tenant in the domain of computed.
SyncBadges(computed) ==
  LET changed == {t \in DOMAIN computed : SyncChanges(t, computed[t])}
  IN  /\ trust_badge_registry' =
           [t \in DOMAIN trust_badge_registry \cup changed |->
              IF t \in changed THEN SyncedRow(t, computed[t]) ELSE trust_badge_registry[t]]
      /\ trust_badge_history' =
           [t \in Tenants |-> IF t \in changed
                              THEN Append(trust_badge_history[t], HistoryEntry(t, computed[t]))
                              ELSE trust_badge_history[t]]
      /\ now' = IF changed = {} THEN now ELSE now + 1

\* getBadgeState answers with the row, for a signature that was presented.
Verifies(sig, t, secret) ==
  /\ secret # None
  /\ sig = [secret |-> secret, tenant |-> t,
            badge_state |-> trust_badge_registry[t].badge_state,
            state_changed_at |-> trust_badge_registry[t].state_changed_at]

Served(sig, t) ==
  /\ HasBadge(t)
  /\ \/ sig = trust_badge_registry[t].state_signature
     \/ Verifies(sig, t, env.current)
     \/ Verifies(sig, t, env.previous)

-----------------------------------------------------------------------------
(* badge-rotation.ts: detectAndApplyRotation, before any request is served. *)

BootEstablished ==
  /\ process = "down" /\ secret_state = None
  /\ secret_state' = env.current
  /\ process' = "up"
  /\ UNCHANGED <<trust_badge_registry, trust_badge_history, env, used, now, boots>>

BootUnchanged ==
  /\ process = "down" /\ secret_state = env.current
  /\ process' = "up"
  /\ UNCHANGED <<trust_badge_registry, trust_badge_history, secret_state, env, used, now, boots>>

\* Faults: the fingerprint is recorded before the badges are signed; signing
\* again counts as a change of the badge.
BootResignsLater ==
  /\ process = "down" /\ secret_state \notin {None, env.current}
  /\ secret_state' = env.current
  /\ process' = "resigned"
  /\ UNCHANGED <<trust_badge_registry, trust_badge_history, env, used, now, boots>>

BootResignsAnew ==
  /\ process = "down" /\ secret_state \notin {None, env.current}
  /\ trust_badge_registry' =
       [t \in DOMAIN trust_badge_registry |->
          [trust_badge_registry[t] EXCEPT
             !.state_changed_at = now + 1,
             !.state_signature = SignBadgeState(t, trust_badge_registry[t].badge_state, now + 1)]]
  /\ process' = "resigned"
  /\ now' = now + 1
  /\ UNCHANGED <<trust_badge_history, secret_state, env, used, boots>>

\* resignAllBadges, one transaction; a throw inside it goes through
\* detectAndApplyRotation and createApp and ends the process.
BootResigns ==
  /\ process = "down" /\ secret_state \notin {None, env.current}
  /\ trust_badge_registry' =
       [t \in DOMAIN trust_badge_registry |->
          [trust_badge_registry[t] EXCEPT !.state_signature =
             SignBadgeState(t, trust_badge_registry[t].badge_state,
                               trust_badge_registry[t].state_changed_at)]]
  /\ process' = "resigned"
  /\ UNCHANGED <<trust_badge_history, secret_state, env, used, now, boots>>

BootRecords ==
  /\ process = "resigned"
  /\ secret_state' = env.current
  /\ process' = "up"
  /\ UNCHANGED <<trust_badge_registry, trust_badge_history, env, used, now, boots>>

\* Stopped or killed, and configured anew before the next start: the operator
\* keeps the old secret for verification or does not.
Restart ==
  /\ process # "down" /\ boots < MaxBoots
  /\ process' = "down"
  /\ boots' = boots + 1
  /\ \/ UNCHANGED <<env, used>>
     \/ \E s \in Secrets \ {env.current}, p \in {env.current, None} :
          /\ Reuse \/ s \notin used
          /\ env' = [current |-> s, previous |-> p]
          /\ used' = used \cup {s}
  /\ UNCHANGED <<trust_badge_registry, trust_badge_history, secret_state, now>>

\* A request or a scan that ends in badges computed for some tenants; which ones, and
\* from what, is the policies' (module Warranty implements this action).
Sync ==
  /\ process = "up"
  /\ \E T \in SUBSET Tenants :
       \E computed \in [T -> [state : BadgeStates, reason : Reasons]] : SyncBadges(computed)
  /\ UNCHANGED <<secret_state, env, used, process, boots>>

BadgeInit ==
  /\ trust_badge_registry = <<>>
  /\ trust_badge_history = [t \in Tenants |-> <<>>]
  /\ secret_state = None
  /\ env \in [current : Secrets, previous : {None}]
  /\ used = {env.current}
  /\ process = "down"
  /\ now = 0 /\ boots = 0

BadgeNext ==
  \/ BootEstablished
  \/ BootUnchanged
  \/ BootResigns
  \/ BootRecords
  \/ Restart
  \/ Sync

BadgeSpec == BadgeInit /\ [][BadgeNext]_badgeVars

-----------------------------------------------------------------------------
(* Safety. *)

\* The history of a tenant is a chain: it starts from nothing, every entry starts
\* where the one before it ended, and the last one is the row in the registry
\* (syncBadge writes both tables; no route writes either).
HistoryExplainsBadge ==
  \A t \in Tenants :
    LET h == trust_badge_history[t]
    IN  /\ HasBadge(t) <=> h # <<>>
        /\ h # <<>> => /\ h[1].from_state = "null"
                       /\ h[Len(h)].to_state = trust_badge_registry[t].badge_state
                       /\ h[Len(h)].reason = trust_badge_registry[t].state_reason
        /\ \A i \in 2 .. Len(h) : h[i].from_state = h[i - 1].to_state

\* A stored signature attests the very row it is stored in, through any number of
\* syncs, rotations and crashes: who presents it learns the state it was minted for.
SignatureAttestsRow ==
  \A t \in DOMAIN trust_badge_registry :
    LET row == trust_badge_registry[t]
    IN  /\ row.state_signature.tenant = t
        /\ row.state_signature.badge_state = row.badge_state
        /\ row.state_signature.state_changed_at = row.state_changed_at

\* badge.ts:149-150: the stored signature "always matches the current secret after
\* boot-time resigning", whenever requests are served.
StoredMatchesCurrent ==
  process = "up" =>
    \A t \in DOMAIN trust_badge_registry :
      trust_badge_registry[t].state_signature.secret = env.current

\* A signature an embedder took from the registry is served for as long as the
\* badge does not change and its secret is the current or the previous one, across
\* boots, rotations and crashes in the middle of one.
PinsOutliveRotation ==
  [][\A t \in DOMAIN trust_badge_registry :
       \A pin \in {trust_badge_registry[t].state_signature} :
         (/\ trust_badge_history'[t] = trust_badge_history[t]
          /\ pin.secret \in {env'.current, env'.previous}) => Served(pin, t)']_badgeVars
=============================================================================
