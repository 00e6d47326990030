------------------------------ MODULE FxRates ------------------------------
(***************************************************************************)
(* Exchange rates (src/src/services/fx.ts): a rate comes from memory, else *)
(* from the table fx_rate_cache, else from a chain of three providers, and *)
(* each conversion is logged with the rate it used.                        *)
(*                                                                         *)
(* Requests overlap whenever one waits for a provider.  Nothing keeps two  *)
(* of them from asking for the same currency, and an operator may set a    *)
(* rate while they wait.  Amounts, spreads and rounding are left out, and  *)
(* so are conversions into dollars: the rate_id they log is in no table,   *)
(* and the statement throws.                                               *)
(***************************************************************************)
EXTENDS Integers, FiniteSets, Sequences

CONSTANTS
  Local,        \* the currencies that need a rate; "USD" needs none
  Requests,     \* requests that can be under way at once
  Refreshed,    \* the currencies of an fx_rate_refresh job, in order
  NoRate,
  Providers,    \* how many providers the chain has
  TTL,          \* RATE_TTL_MINUTES, in ticks
  Expiries,     \* how far ahead an operator's rate may expire
  MaxTime,      \* bound: ticks
  MaxRates,     \* bound: rates ever made
  MaxFailures,  \* bound: INSERTs that fail
  MaxRestarts    \* bound: crashes

ASSUME FxAssumption ==
  /\ "USD" \notin Local
  /\ Refreshed \in Seq(Local) \ {<<>>}
  /\ {Providers, TTL, MaxTime, MaxRates, MaxFailures, MaxRestarts} \subseteq Nat
  /\ Expiries \subseteq Nat \ {0}

VARIABLES
  now,
  memory,    \* memoryCache: currency -> rate or NoRate
  rates,     \* fx_rate_cache
  log,       \* fx_conversion_log: the rate of each row and when it was written
  request,   \* what each request under way does
  made,      \* rates made so far: the next gets the number made + 1
  failures,
  restarts

fxVars == <<now, memory, rates, log, request, made, failures, restarts>>

\* since is a history field: how many rates there were when the fetch began.
Rate == [no : Nat, target : Local, manual : BOOLEAN, fetched : Nat, expires : Nat, since : Nat]

\* A request converts, or quotes a list of currencies one after the other.
Idle == [todo |-> <<>>, converts |-> FALSE, asked |-> 0, since |-> 0]

FxTypeOK ==
  /\ now \in 0..MaxTime /\ made \in 0..MaxRates
  /\ memory \in [Local -> Rate \cup {NoRate}]
  /\ rates \subseteq Rate
  /\ \A row \in log : row.rate \in Rate /\ row.at \in 0..now
  /\ \A r \in Requests : request[r].asked \in 0..Providers /\ Len(request[r].todo) <= Len(Refreshed) + 1

-----------------------------------------------------------------------------
(* The three places a rate comes from. *)

Cached(c) == memory[c] # NoRate /\ now <= memory[c].expires

ValidRows(c) == {rate \in rates : rate.target = c /\ rate.expires > now}

\* Fault: the row that stays valid longest instead of the newest.
LongestValid(c) == {rate \in ValidRows(c) : \A other \in ValidRows(c) : other.expires <= rate.expires}

Newest(c) == {rate \in ValidRows(c) : \A other \in ValidRows(c) : other.fetched <= rate.fetched}

\* Fault: what memory has lost is fetched again at once.
KnownInMemory(c) == IF Cached(c) THEN {memory[c]} ELSE {}

\* The rates getRate may return without asking a provider: rows of one millisecond are in no order.
Known(c) == IF Cached(c) THEN {memory[c]} ELSE Newest(c)

-----------------------------------------------------------------------------
(* What a request does once it has its rate, and how it goes on. *)

Largest(numbers) == CHOOSE n \in numbers \cup {0} : \A m \in numbers : m <= n

\* History fields: the newest rate that was valid, and the last rate an operator had set.
Row(rate) ==
  [rate |-> rate, at |-> now,
   newest |-> Largest({other.fetched : other \in ValidRows(rate.target)}),
   manual |-> Largest({other.no : other \in {o \in ValidRows(rate.target) : o.manual}})]

\* INSERT into fx_conversion_log: its rate_id references fx_rate_cache.
Logged(rate, table) == IF rate \in table THEN log \cup {Row(rate)} ELSE log

\* A quote leaves no trace; a refresh goes on to its next currency.
Resolved(r, q, rate, table) ==
  /\ log' = IF q.converts THEN Logged(rate, table) ELSE log
  /\ request' = [request EXCEPT ![r] = IF Len(q.todo) > 1
                                         THEN [q EXCEPT !.todo = Tail(@), !.asked = 0] ELSE Idle]

\* getRate answers from memory or from the table, which it then remembers, or asks a provider.
GetRate(r, q) ==
  /\ \/ \E rate \in Known(Head(q.todo)) :
          /\ memory' = [memory EXCEPT ![rate.target] = rate]
          /\ Resolved(r, q, rate, rates)
     \/ /\ Known(Head(q.todo)) = {}
        /\ request' = [request EXCEPT ![r] = [q EXCEPT !.asked = 1, !.since = made]]
        /\ UNCHANGED <<memory, log>>
  /\ UNCHANGED <<now, rates, made, failures, restarts>>

Quote(r) == request[r] = Idle /\ \E c \in Local : GetRate(r, [Idle EXCEPT !.todo = <<c>>])
Refresh(r) == request[r] = Idle /\ GetRate(r, [Idle EXCEPT !.todo = Refreshed])
RefreshNext(r) == request[r].todo # <<>> /\ request[r].asked = 0 /\ GetRate(r, request[r])

ConvertUsd(r) ==
  request[r] = Idle /\ \E c \in Local : GetRate(r, [Idle EXCEPT !.todo = <<c>>, !.converts = TRUE])

\* The chain goes on to the next provider, and throws after the last.
After(r) == IF request[r].asked < Providers THEN [request[r] EXCEPT !.asked = @ + 1] ELSE Idle

\* Not configured, an error status, or an answer without the currency.
ProviderFails(r) ==
  /\ request[r].asked > 0
  /\ request' = [request EXCEPT ![r] = After(r)]
  /\ UNCHANGED <<now, memory, rates, log, made, failures, restarts>>

Fetched(r) ==
  [no |-> made + 1, target |-> Head(request[r].todo), manual |-> FALSE,
   fetched |-> now, expires |-> now + TTL, since |-> request[r].since]

\* The rate is remembered before it is stored.
ProviderAnswers(r) ==
  /\ request[r].asked > 0 /\ made < MaxRates
  /\ made' = made + 1
  /\ memory' = [memory EXCEPT ![Head(request[r].todo)] = Fetched(r)]
  /\ \/ /\ rates' = rates \cup {Fetched(r)}
        /\ Resolved(r, request[r], Fetched(r), rates')
        /\ UNCHANGED failures
     \/ /\ failures < MaxFailures /\ failures' = failures + 1
        /\ request' = [request EXCEPT ![r] = After(r)]
        /\ UNCHANGED <<rates, log>>
  /\ UNCHANGED <<now, restarts>>

SetManualRate ==
  /\ made < MaxRates /\ made' = made + 1
  /\ \E c \in Local, ahead \in Expiries :
       LET rate == [no |-> made + 1, target |-> c, manual |-> TRUE,
                    fetched |-> now, expires |-> now + ahead, since |-> made]
       IN  memory' = [memory EXCEPT ![c] = rate] /\ rates' = rates \cup {rate}
  /\ UNCHANGED <<now, log, request, failures, restarts>>

\* The foreign key of the log: one row in use and the whole DELETE fails.
Deletable(old) == \A row \in log : row.rate \notin old

PurgeExpiredRates ==
  /\ LET old == {rate \in rates : rate.expires < now}
     IN  old # {} /\ Deletable(old) /\ rates' = rates \ old
  /\ UNCHANGED <<now, memory, log, request, made, failures, restarts>>

-----------------------------------------------------------------------------
Crash ==
  /\ restarts < MaxRestarts /\ restarts' = restarts + 1
  /\ memory' = [c \in Local |-> NoRate]
  /\ request' = [r \in Requests |-> Idle]
  /\ UNCHANGED <<now, rates, log, made, failures>>

Tick ==
  /\ now < MaxTime /\ now' = now + 1
  /\ UNCHANGED <<memory, rates, log, request, made, failures, restarts>>

FxInit ==
  /\ now = 0 /\ made = 0 /\ failures = 0 /\ restarts = 0
  /\ memory = [c \in Local |-> NoRate]
  /\ rates = {} /\ log = {}
  /\ request = [r \in Requests |-> Idle]

Serve(r) == RefreshNext(r) \/ ProviderFails(r) \/ ProviderAnswers(r)

FxNext ==
  \/ \E r \in Requests : Quote(r) \/ Refresh(r) \/ ConvertUsd(r) \/ Serve(r)
  \/ SetManualRate \/ PurgeExpiredRates \/ Crash \/ Tick

FxSpec == FxInit /\ [][FxNext]_fxVars

-----------------------------------------------------------------------------
(* Properties. *)

\* A conversion never used an older rate than the newest valid one: not after a restart,
\* when only the table knows, nor when memory forgets a short rate and an older one lasts.
NewestIsUsed == \A row \in log : row.newest <= row.rate.fetched

\* An operator's rate holds until it expires, across restarts: a provider's rate made later
\* was used only if its fetch was under way when the operator's was set.
ManualRateHolds ==
  \A row \in log : row.manual > 0 /\ row.rate.no > row.manual /\ ~row.rate.manual
                     => row.rate.since < row.manual
=============================================================================
