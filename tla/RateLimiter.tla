---------------------------- MODULE RateLimiter ----------------------------
(***************************************************************************)
(* The tenant rate limit of src/src/middleware/rateLimiter.ts as app.ts    *)
(* mounts it: token buckets that refill continuously, in a store that      *)
(* evicts the least recently used one when it is full.                     *)
(*                                                                         *)
(* The code counts tokens in fractions and refills rate / 60 000 of one    *)
(* each millisecond; the model counts in 60 000ths of a token (Token), so  *)
(* that every amount is a whole number.  The middleware never awaits: a    *)
(* request is one action.                                                  *)
(***************************************************************************)
EXTENDS Integers, Sequences, SequencesExt

CONSTANTS
  Clients,             \* bucket keys: tenants, or addresses where no tenant is named
  RequestsPerMinute,   \* of each tier, overrides included
  BurstCapacity,
  AllowUnknownTier,    \* RATE_LIMIT_ALLOW_UNKNOWN_TIER
  MaxBuckets,
  MaxTime              \* bound: milliseconds

VARIABLES
  store,     \* the Map's values: a function from the clients that have a bucket
  recency,   \* the Map's order, least recently used first
  now,       \* Date.now()
  granted,   \* requests of each client let through since the watch began (history)
  created,   \* buckets created for each client since then (history)
  since      \* when the watch began (history)

vars == <<store, recency, now, granted, created, since>>

Token == 60000
Tiers == {"PAY_AS_YOU_GO", "GROWTH", "ENTERPRISE"}
Unknown == "unknown"    \* no tier header, or not one of the tiers

Bucket == [capacity : Nat, rate : Nat, tokens : Nat, lastRefill : Nat]

\* Every amount is a whole number and no bucket is of the future or over its capacity.
TypeOK ==
  /\ DOMAIN store \subseteq Clients
  /\ store \in [DOMAIN store -> Bucket]
  /\ \A c \in DOMAIN store : store[c].tokens <= store[c].capacity /\ store[c].lastRefill <= now
  /\ now \in Nat /\ since \in 0 .. now
  /\ granted \in [Clients -> Nat] /\ created \in [Clients -> Nat]

Smaller(a, b) == IF a < b THEN a ELSE b

-----------------------------------------------------------------------------
(* A request. *)

\* resolveTier
Resolved(header) ==
  IF header \in Tiers THEN {header} ELSE IF AllowUnknownTier THEN {"PAY_AS_YOU_GO"} ELSE {}

Full(tier) ==
  [capacity |-> BurstCapacity[tier] * Token, rate |-> RequestsPerMinute[tier],
   tokens |-> BurstCapacity[tier] * Token, lastRefill |-> now]

\* refill()
Refilled(b) ==
  [b EXCEPT !.tokens = Smaller(b.capacity, b.tokens + (now - b.lastRefill) * b.rate),
            !.lastRefill = now]

\* The bucket getOrCreate returns, refilled: whatever tier the request names, a bucket
\* that exists keeps the one it was created with.
Found(c, tier) == IF c \in DOMAIN store THEN Refilled(store[c]) ELSE Full(tier)

\* The client set() evicts to make room for c: the oldest, if the store is full.
Evicted(c) ==
  IF c \notin DOMAIN store /\ Len(recency) >= MaxBuckets /\ recency # <<>>
  THEN {Head(recency)} ELSE {}

Consumed(b) == IF b.tokens >= Token THEN [b EXCEPT !.tokens = @ - Token] ELSE b

Touched(c) ==
  Append(SelectSeq(recency, LAMBDA d : d # c /\ d \notin Evicted(c)), c)

\* evaluateRateLimit and the middleware: 429 when the bucket has no token left.
Request(c, tier) ==
  LET bucket == Found(c, tier)
  IN  /\ store' = [d \in (DOMAIN store \ Evicted(c)) \cup {c} |->
                     IF d = c THEN Consumed(bucket) ELSE store[d]]
      /\ recency' = Touched(c)
      /\ granted' = IF bucket.tokens >= Token THEN [granted EXCEPT ![c] = @ + 1] ELSE granted
      /\ created' = IF c \in DOMAIN store THEN created ELSE [created EXCEPT ![c] = @ + 1]
      /\ UNCHANGED <<now, since>>

\* Answered with 400 before any bucket is looked at, or on a path that is let through.
Unlimited == UNCHANGED vars

Arrives(c, header) ==
  \/ \E tier \in Resolved(header) : Request(c, tier)
  \/ Unlimited

\* The clock does not run backwards.
TimePasses ==
  /\ now < MaxTime
  /\ \E t \in now + 1 .. MaxTime : now' = t
  /\ UNCHANGED <<store, recency, granted, created, since>>

\* An observer begins to count anew, at any time.
WatchBegins ==
  /\ since' = now
  /\ granted' = [c \in Clients |-> 0]
  /\ created' = [c \in Clients |-> 0]
  /\ UNCHANGED <<store, recency, now>>

Init ==
  /\ store = <<>> /\ recency = <<>>
  /\ now = 0 /\ since = 0
  /\ granted = [c \in Clients |-> 0]
  /\ created = [c \in Clients |-> 0]

Next ==
  \/ \E c \in Clients, header \in Tiers \cup {Unknown} : Arrives(c, header)
  \/ TimePasses
  \/ WatchBegins

Spec == Init /\ [][Next]_vars

\* retryAfterSeconds: the fewest seconds after which the bucket holds a token again.
RetryAfter(b) ==
  IF b.tokens >= Token THEN 0 ELSE (Token - b.tokens + b.rate * 1000 - 1) \div (b.rate * 1000)

-----------------------------------------------------------------------------
(* Safety.  No tier lets more through than MaxCapacity at once or MaxRate a minute. *)

WithinTier(MaxCapacity, MaxRate) ==
  \A tier \in Tiers : BurstCapacity[tier] \in 0 .. MaxCapacity /\ RequestsPerMinute[tier] \in 0 .. MaxRate

\* In any stretch of time a client gets no more than the burst of one bucket, another for
\* each bucket it lost to an eviction, and what its rate allows for the time that passed.
RateBound(MaxCapacity, MaxRate) ==
  \A c \in Clients :
    Token * granted[c] <= Token * MaxCapacity * (1 + created[c]) + MaxRate * (now - since)
=============================================================================
