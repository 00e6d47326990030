-------------------------- MODULE CommercialProofs --------------------------
(***************************************************************************)
(* What holds of the money side for every value of the constants: which    *)
(* rate a conversion uses (module FxRates), and what underwriting and      *)
(* billing keep (modules Underwriting and Commercial).  FxRates shares no  *)
(* variable with the other two.                                            *)
(***************************************************************************)
EXTENDS Commercial, FxRates, FiniteSums, SequenceTheorems, TLAPS

-----------------------------------------------------------------------------
(* Exchange rates. *)

RequestRow == [todo : Seq(Local), converts : BOOLEAN, asked : Nat, since : Nat]

\* A rate that is in use somewhere.
Made(x) == x \in Rate /\ x.fetched <= now /\ x.no <= made /\ x.since <= made

\* No operator's rate that was there when the fetch with this since began is still valid.
Overtaken(c, since) ==
  \A m \in rates : m.manual /\ m.target = c /\ m.no <= since => m.expires <= now

FxTypeInv ==
  /\ now \in Nat /\ made \in Nat
  /\ \A x \in rates : Made(x)
  /\ memory \in [Local -> Rate \cup {NoRate}]
  /\ \A c \in Local : memory[c] # NoRate => Made(memory[c]) /\ memory[c].target = c
  /\ request \in [Requests -> RequestRow]
  /\ \A r \in Requests : request[r].asked > 0 => request[r].todo # <<>> /\ request[r].since <= made

\* Memory never knows less than the table does.
MemoryIsNewest ==
  \A c \in Local : Cached(c) => \A o \in ValidRows(c) : o.fetched <= memory[c].fetched

\* A provider's rate, in use or on its way, has overtaken the operators' rates before it.
FetchesWereDue ==
  /\ \A x \in rates : ~x.manual => Overtaken(x.target, x.since)
  /\ \A c \in Local : memory[c] # NoRate /\ ~memory[c].manual => Overtaken(c, memory[c].since)
  /\ \A r \in Requests :
       request[r].asked > 0 => Overtaken(Head(request[r].todo), request[r].since)

FxInv == FxTypeInv /\ MemoryIsNewest /\ FetchesWereDue /\ NewestIsUsed /\ ManualRateHolds

LEMMA LargestIs ==
  ASSUME NEW N, N \subseteq Nat, NEW b \in Nat, \A n \in N : n <= b
  PROVE  Largest(N) \in N \cup {0} /\ \A m \in N : m <= Largest(N)
<1> DEFINE Above == {n \in Nat : \A m \in N : m <= n}
<1>1. PICK n \in Above : \A m \in Above : n <= m
  <2>1. b \in Above
    OBVIOUS
  <2>2. Above \subseteq Nat
    OBVIOUS
  <2> HIDE DEF Above
  <2> QED BY <2>1, <2>2, LeastNumber
<1>2. n \in N \cup {0}
  <2> SUFFICES ASSUME n \notin N, n # 0 PROVE FALSE
    OBVIOUS
  <2>1. n - 1 \in Nat /\ \A m \in N : m <= n - 1
    BY <1>1
  <2> QED BY <1>1, <2>1
<1>3. n \in N \cup {0} /\ \A m \in N : m <= n
  BY <1>1, <1>2
<1> HIDE DEF Above
<1> QED BY <1>3 DEF Largest

\* A rate that conversions may use now.
GoodRate(x) ==
  /\ x \in Rate
  /\ \A o \in ValidRows(x.target) : o.fetched <= x.fetched
  /\ ~x.manual => Overtaken(x.target, x.since)

LEMMA KnownIsGood ==
  ASSUME FxInv, NEW c \in Local, NEW x \in Known(c)
  PROVE  GoodRate(x) /\ Made(x) /\ x.target = c
<1>1. CASE Cached(c)
  <2>1. x = memory[c] /\ memory[c] # NoRate
    BY <1>1 DEF Known, Cached
  <2> QED BY <1>1, <2>1 DEF FxInv, FxTypeInv, MemoryIsNewest, FetchesWereDue, GoodRate, Made
<1>2. CASE ~Cached(c)
  BY <1>2 DEF Known, Newest, ValidRows, FxInv, FxTypeInv, FetchesWereDue, GoodRate, Made
<1> QED BY <1>1, <1>2

\* Nothing is known of a currency only if no row of it is valid.
LEMMA UnknownIsNowhere ==
  ASSUME FxInv, NEW c \in Local, Known(c) = {}
  PROVE  ValidRows(c) = {}
<1> SUFFICES ASSUME ValidRows(c) # {} PROVE FALSE
  OBVIOUS
<1>1. ~Cached(c) /\ Newest(c) = {}
  BY DEF Known
<1> DEFINE N == {o.fetched : o \in ValidRows(c)}
<1>2. N \subseteq Nat /\ now \in Nat /\ \A n \in N : n <= now
  BY DEF ValidRows, FxInv, FxTypeInv, Made, Rate
<1>3. Largest(N) \in N \cup {0} /\ \A m \in N : m <= Largest(N)
  <2> HIDE DEF N
  <2> QED BY <1>2, LargestIs
<1>4. PICK x \in ValidRows(c) : x.fetched = Largest(N)
  <2> DEFINE top == Largest(N)
  <2>1. PICK y \in ValidRows(c) : TRUE
    OBVIOUS
  <2>2. top \in N \cup {0} /\ y.fetched \in N /\ y.fetched <= top
    <3> HIDE DEF top
    <3>1. y.fetched \in N
      OBVIOUS
    <3> HIDE DEF N
    <3> QED BY <1>3, <3>1 DEF top
  <2> HIDE DEF top
  <2>3. top \in N \/ y.fetched = top
    BY <1>2, <2>2
  <2>4. \E x \in ValidRows(c) : x.fetched = top
    BY <2>3
  <2> QED BY <2>4 DEF top
<1>5. x \in Newest(c)
  BY <1>3, <1>4 DEF Newest
<1> QED BY <1>1, <1>5

\* Nor is any operator's rate of it.
LEMMA UnknownIsOvertaken ==
  ASSUME FxInv, NEW c \in Local, Known(c) = {}
  PROVE  Overtaken(c, made)
<1>1. ValidRows(c) = {}
  BY UnknownIsNowhere
<1>2. \A m \in rates : m.expires \in Nat /\ now \in Nat
  BY DEF FxInv, FxTypeInv, Made, Rate
<1> QED BY <1>1, <1>2 DEF ValidRows, Overtaken

\* The row of a good rate says nothing against it.
LEMMA RowIsGood ==
  ASSUME FxInv, NEW x, GoodRate(x)
  PROVE  LET row == Row(x)
         IN  /\ row.newest <= row.rate.fetched
             /\ row.manual > 0 /\ row.rate.no > row.manual /\ ~row.rate.manual
                  => row.rate.since < row.manual
<1> DEFINE V == ValidRows(x.target)
           F == {o.fetched : o \in V}
           M == {o.no : o \in {o \in V : o.manual}}
<1>1. /\ F \subseteq Nat /\ M \subseteq Nat /\ now \in Nat /\ made \in Nat
      /\ (\A n \in F : n <= now) /\ (\A n \in M : n <= made)
  BY DEF ValidRows, FxInv, FxTypeInv, Made, Rate
<1>2. Largest(F) \in F \cup {0}
  <2> HIDE DEF F, M
  <2> QED BY <1>1, LargestIs
<1>3. Largest(M) \in M \cup {0}
  <2> HIDE DEF F, M
  <2> QED BY <1>1, LargestIs
<1>4. x.fetched \in Nat /\ x.no \in Nat /\ x.since \in Nat
  BY DEF GoodRate, Rate
<1>5. Largest(F) <= x.fetched
  BY <1>2, <1>4 DEF GoodRate
<1>6. Largest(M) > 0 /\ ~x.manual => x.since < Largest(M)
  <2> SUFFICES ASSUME Largest(M) > 0, ~x.manual, ~(x.since < Largest(M)) PROVE FALSE
    OBVIOUS
  <2> DEFINE top == Largest(M)
  <2>a. top \in M
    <3> HIDE DEF M
    <3> QED BY <1>3
  <2> HIDE DEF top
  <2>b. \E m \in V : m.manual /\ m.no = top
    BY <2>a
  <2>1. PICK m \in V : m.manual /\ m.no = Largest(M)
    BY <2>b DEF top
  <2>2. m \in rates /\ m.target = x.target /\ m.expires > now /\ m.expires \in Nat /\ m.no \in Nat
    BY DEF ValidRows, FxInv, FxTypeInv, Made, Rate
  <2>3. m.no <= x.since
    BY <1>4, <2>1, <2>2
  <2>4. m.expires <= now
    BY <2>1, <2>2, <2>3 DEF GoodRate, Overtaken
  <2> QED BY <1>1, <2>2, <2>4
<1>7. Row(x).rate = x /\ Row(x).newest = Largest(F) /\ Row(x).manual = Largest(M)
  BY DEF Row
<1> HIDE DEF F, M
<1> QED BY <1>5, <1>6, <1>7

LEMMA LogStaysGood ==
  ASSUME FxInv, NEW x, GoodRate(x), log' = log \/ log' = log \cup {Row(x)}
  PROVE  NewestIsUsed' /\ ManualRateHolds'
<1> DEFINE Good(row) ==
      /\ row.newest <= row.rate.fetched
      /\ row.manual > 0 /\ row.rate.no > row.manual /\ ~row.rate.manual
           => row.rate.since < row.manual
<1>1. Good(Row(x))
  BY RowIsGood
<1>2. \A row \in log : Good(row)
  BY DEF FxInv, NewestIsUsed, ManualRateHolds
<1>3. \A row \in log' : Good(row)
  <2> HIDE DEF Good
  <2> QED BY <1>1, <1>2
<1> QED BY <1>3 DEF NewestIsUsed, ManualRateHolds

-----------------------------------------------------------------------------
(* Exchange rates: the steps. *)

LEMMA IdleIsRow == Idle \in RequestRow /\ Idle.asked = 0
  BY DEF Idle, RequestRow

LEMMA HeadIsLocal ==
  ASSUME NEW q \in RequestRow, q.todo # <<>>
  PROVE  Head(q.todo) \in Local
  BY DEF RequestRow

LEMMA ResolvedRequests ==
  ASSUME FxInv, NEW r \in Requests, NEW q \in RequestRow, q.todo # <<>>, NEW x, NEW table,
         Resolved(r, q, x, table)
  PROVE  /\ request' \in [Requests -> RequestRow] /\ request'[r].asked = 0
         /\ \A other \in Requests : other # r => request'[other] = request[other]
         /\ log' = log \/ log' = log \cup {Row(x)}
<1> DEFINE next == IF Len(q.todo) > 1 THEN [q EXCEPT !.todo = Tail(@), !.asked = 0] ELSE Idle
<1>1. Tail(q.todo) \in Seq(Local)
  BY DEF RequestRow
<1>2. [q EXCEPT !.todo = Tail(@), !.asked = 0] \in RequestRow
      /\ [q EXCEPT !.todo = Tail(@), !.asked = 0].asked = 0
  BY <1>1 DEF RequestRow
<1>3. next \in RequestRow /\ next.asked = 0
  BY <1>2, IdleIsRow
<1>4. request' = [request EXCEPT ![r] = next]
  BY DEF Resolved
<1> HIDE DEF next
<1>5. log' = log \/ log' = log \cup {Row(x)}
  BY DEF Resolved, Logged
<1> QED BY <1>3, <1>4, <1>5 DEF FxInv, FxTypeInv

\* The same of the state after a step.
OvertakenThen(c, since) ==
  \A m \in rates' : m.manual /\ m.target = c /\ m.no <= since => m.expires <= now'

\* What was overtaken stays so while rates are made, purged and expire.
LEMMA OvertakenStays ==
  ASSUME FxTypeInv, NEW c, NEW since \in Nat, since <= made, Overtaken(c, since),
         now' \in Nat, now <= now', \A m \in rates' : m \in rates \/ m.no = made + 1
  PROVE  OvertakenThen(c, since)
<1>1. ASSUME NEW m \in rates', m.manual, m.target = c, m.no <= since PROVE m.expires <= now'
  <2>1. made \in Nat /\ now \in Nat
    BY DEF FxTypeInv
  <2>2. m \in rates
    BY <1>1, <2>1
  <2>3. m.expires \in Nat /\ m.expires <= now
    BY <1>1, <2>2 DEF FxTypeInv, Made, Rate, Overtaken
  <2> QED BY <2>1, <2>3
<1> QED BY <1>1 DEF OvertakenThen

\* A step that makes no rate newer than the next one, and starts no fetch.
LEMMA FetchesStayDue ==
  ASSUME FxInv, now' \in Nat, now <= now', \A m \in rates' : m \in rates \/ m.no = made + 1,
         \A x \in rates' : x \in rates \/ x.manual \/ OvertakenThen(x.target, x.since),
         \A c \in Local : \/ memory'[c] = memory[c] \/ memory'[c] = NoRate \/ memory'[c].manual
                          \/ OvertakenThen(c, memory'[c].since),
         \A r \in Requests : request'[r].asked > 0 =>
            \/ /\ request[r].asked > 0 /\ Head(request'[r].todo) = Head(request[r].todo)
               /\ request'[r].since = request[r].since
            \/ OvertakenThen(Head(request'[r].todo), request'[r].since)
  PROVE  FetchesWereDue'
<1>1. ASSUME NEW x \in rates', ~x.manual PROVE OvertakenThen(x.target, x.since)
  <2>1. CASE x \in rates
    <3>1. x.since \in Nat /\ x.since <= made /\ Overtaken(x.target, x.since)
      BY <1>1, <2>1 DEF FxInv, FxTypeInv, FetchesWereDue, Made, Rate
    <3> QED BY <3>1, OvertakenStays DEF FxInv
  <2> QED BY <1>1, <2>1
<1>2. ASSUME NEW c \in Local, memory'[c] # NoRate, ~memory'[c].manual
      PROVE  OvertakenThen(c, memory'[c].since)
  <2>1. CASE memory'[c] = memory[c]
    <3>1. memory[c].since \in Nat /\ memory[c].since <= made /\ Overtaken(c, memory[c].since)
      BY <1>2, <2>1 DEF FxInv, FxTypeInv, FetchesWereDue, Made, Rate
    <3> QED BY <2>1, <3>1, OvertakenStays DEF FxInv
  <2> QED BY <1>2, <2>1
<1>3. ASSUME NEW r \in Requests, request'[r].asked > 0
      PROVE  OvertakenThen(Head(request'[r].todo), request'[r].since)
  <2>1. CASE /\ request[r].asked > 0 /\ Head(request'[r].todo) = Head(request[r].todo)
             /\ request'[r].since = request[r].since
    <3>1. request[r].since \in Nat /\ request[r].since <= made
          /\ Overtaken(Head(request[r].todo), request[r].since)
      BY <2>1 DEF FxInv, FxTypeInv, FetchesWereDue, RequestRow
    <3> QED BY <2>1, <3>1, OvertakenStays DEF FxInv
  <2> QED BY <1>3, <2>1
<1> QED BY <1>1, <1>2, <1>3 DEF FetchesWereDue, Overtaken, OvertakenThen

\* What a request asked stays asked of the same currency.
LEMMA RequestsStayTyped ==
  ASSUME FxInv, made' \in Nat, made <= made', NEW r \in Requests, NEW q \in RequestRow,
         q.asked > 0 => q.todo # <<>> /\ q.since <= made',
         request' = [request EXCEPT ![r] = q]
  PROVE  /\ request' \in [Requests -> RequestRow] /\ request'[r] = q
         /\ \A s \in Requests : request'[s].asked > 0 => request'[s].todo # <<>> /\ request'[s].since <= made'
<1>1. request \in [Requests -> RequestRow] /\ made \in Nat
      /\ \A s \in Requests : request[s].asked > 0 => request[s].todo # <<>> /\ request[s].since <= made
  BY DEF FxInv, FxTypeInv
<1>2. request' \in [Requests -> RequestRow] /\ request'[r] = q
      /\ \A s \in Requests : s # r => request'[s] = request[s]
  BY <1>1
<1>3. \A s \in Requests : request[s].since \in Nat
  BY <1>1 DEF RequestRow
<1> QED BY <1>1, <1>2, <1>3

LEMMA GetRateKeeps ==
  ASSUME FxInv, NEW r \in Requests, NEW q \in RequestRow, q.todo # <<>>, GetRate(r, q)
  PROVE  FxInv'
<1> DEFINE c == Head(q.todo)
<1>0. c \in Local /\ UNCHANGED <<now, rates, made>>
  BY HeadIsLocal DEF GetRate
<1>1. ASSUME NEW x \in Known(c), memory' = [memory EXCEPT ![x.target] = x], Resolved(r, q, x, rates)
      PROVE  FxInv'
  <2>1. GoodRate(x) /\ Made(x) /\ x.target = c
    BY <1>0, <1>1, KnownIsGood
  <2>2. NewestIsUsed' /\ ManualRateHolds'
    BY <1>1, <2>1, ResolvedRequests, LogStaysGood
  <2>3. /\ request' \in [Requests -> RequestRow] /\ request'[r].asked = 0
        /\ \A s \in Requests : s # r => request'[s] = request[s]
    BY <1>1, ResolvedRequests
  <2> HIDE DEF c
  <2>4. \A d \in Local : memory'[d] = IF d = c THEN x ELSE memory[d]
    BY <1>0, <1>1, <2>1 DEF FxInv, FxTypeInv
  <2>5. FxTypeInv'
    BY <1>0, <1>1, <2>1, <2>3, <2>4 DEF FxInv, FxTypeInv, Made
  <2>6. MemoryIsNewest'
    <3> SUFFICES ASSUME NEW d \in Local, Cached(d)', NEW o \in ValidRows(d)'
                 PROVE  o.fetched <= memory'[d].fetched
      BY DEF MemoryIsNewest
    <3>1. o \in ValidRows(d)
      BY <1>0 DEF ValidRows
    <3>2. CASE d = c
      BY <2>1, <2>4, <3>1, <3>2 DEF GoodRate
    <3>3. CASE d # c
      BY <1>0, <2>4, <3>1, <3>3 DEF FxInv, MemoryIsNewest, Cached
    <3> QED BY <3>2, <3>3
  <2>7. \A d, since : Overtaken(d, since)' <=> Overtaken(d, since)
    BY <1>0 DEF Overtaken
  <2>8. FetchesWereDue'
    <3>1. \A y \in rates' : ~y.manual => Overtaken(y.target, y.since)
      BY <1>0 DEF FxInv, FetchesWereDue
    <3>2. \A d \in Local : memory'[d] # NoRate /\ ~memory'[d].manual => Overtaken(d, memory'[d].since)
      BY <2>1, <2>4 DEF FxInv, FetchesWereDue, GoodRate
    <3>3. \A s \in Requests : request'[s].asked > 0 =>
             Overtaken(Head(request'[s].todo), request'[s].since)
      BY <2>3 DEF FxInv, FetchesWereDue
    <3> QED BY <1>0, <3>1, <3>2, <3>3 DEF FetchesWereDue, Overtaken
  <2> QED BY <2>2, <2>5, <2>6, <2>8 DEF FxInv
<1>2. ASSUME Known(c) = {}, UNCHANGED <<memory, log>>,
             request' = [request EXCEPT ![r] = [q EXCEPT !.asked = 1, !.since = made]]
      PROVE  FxInv'
  <2> DEFINE n == [q EXCEPT !.asked = 1, !.since = made]
  <2>1. made \in Nat
    BY DEF FxInv, FxTypeInv
  <2>2. n \in RequestRow /\ n.asked = 1 /\ n.since = made /\ n.todo = q.todo
    BY <2>1 DEF RequestRow
  <2>3. request' = [request EXCEPT ![r] = n]
    BY <1>2
  <2>4. Overtaken(c, made)
    BY <1>0, <1>2, UnknownIsOvertaken
  <2> HIDE DEF n
  <2>a. made' \in Nat /\ made <= made' /\ n.since <= made'
    BY <1>0, <2>1, <2>2
  <2>5. /\ request' \in [Requests -> RequestRow] /\ request'[r] = n
        /\ \A s \in Requests : request'[s].asked > 0 => request'[s].todo # <<>> /\ request'[s].since <= made'
    BY <2>a, <2>2, <2>3, RequestsStayTyped
  <2>6. FxTypeInv'
    BY <1>0, <1>2, <2>5 DEF FxInv, FxTypeInv, Made
  <2>7. MemoryIsNewest' /\ NewestIsUsed' /\ ManualRateHolds'
    BY <1>0, <1>2 DEF FxInv, MemoryIsNewest, NewestIsUsed, ManualRateHolds, Cached, ValidRows
  <2>8. FetchesWereDue'
    <3>1. \A s \in Requests : s # r => request'[s] = request[s]
      BY <2>3 DEF FxInv, FxTypeInv
    <3>2. \A s \in Requests : request'[s].asked > 0 =>
             Overtaken(Head(request'[s].todo), request'[s].since)
      BY <2>2, <2>4, <2>5, <3>1 DEF FxInv, FetchesWereDue
    <3> QED BY <1>0, <1>2, <3>2 DEF FxInv, FetchesWereDue, Overtaken
  <2> QED BY <2>6, <2>7, <2>8 DEF FxInv
<1> QED BY <1>1, <1>2 DEF GetRate
\* What Made says of the state after a step.
MadeThen(x) == x \in Rate /\ x.fetched <= now' /\ x.no <= made' /\ x.since <= made'

\* A rate of this moment goes to memory, and perhaps to the table.
LEMMA NewRateIsNewest ==
  ASSUME FxInv, NEW c \in Local, NEW x \in Rate, x.target = c, x.fetched = now,
         x.no = made + 1, x.since <= made, made' = made + 1, now' = now,
         memory' = [memory EXCEPT ![c] = x], rates' = rates \/ rates' = rates \cup {x}
  PROVE  /\ MemoryIsNewest'
         /\ \A y \in rates' : MadeThen(y)
         /\ memory' \in [Local -> Rate \cup {NoRate}]
         /\ \A d \in Local : memory'[d] # NoRate => MadeThen(memory'[d]) /\ memory'[d].target = d
         /\ \A d \in Local : memory'[d] = IF d = c THEN x ELSE memory[d]
<1>1. \A d \in Local : memory'[d] = IF d = c THEN x ELSE memory[d]
  BY DEF FxInv, FxTypeInv
<1>2. now \in Nat /\ made \in Nat
  BY DEF FxInv, FxTypeInv
<1>3. \A y : Made(y) => MadeThen(y)
  BY <1>2 DEF Made, MadeThen, Rate
<1>4. MadeThen(x)
  BY <1>2 DEF MadeThen, Rate
<1>5. \A y \in rates' : MadeThen(y)
  BY <1>3, <1>4 DEF FxInv, FxTypeInv
<1>6. MemoryIsNewest'
  <2> SUFFICES ASSUME NEW d \in Local, Cached(d)', NEW o \in ValidRows(d)'
               PROVE  o.fetched <= memory'[d].fetched
    BY DEF MemoryIsNewest
  <2>1. CASE d = c
    <3>1. o \in rates' /\ MadeThen(o)
      BY <1>5 DEF ValidRows
    <3> QED BY <1>1, <2>1, <3>1 DEF MadeThen
  <2>2. CASE d # c
    <3>1. o \in ValidRows(d) /\ Cached(d)
      BY <1>1, <2>2 DEF ValidRows, Cached
    <3> QED BY <1>1, <2>2, <3>1 DEF FxInv, MemoryIsNewest
  <2> QED BY <2>1, <2>2
<1>7. memory' \in [Local -> Rate \cup {NoRate}]
  BY DEF FxInv, FxTypeInv
<1>8. \A d \in Local : memory[d] # NoRate => MadeThen(memory[d]) /\ memory[d].target = d
  BY <1>3 DEF FxInv, FxTypeInv
<1>9. \A d \in Local : memory'[d] # NoRate => MadeThen(memory'[d]) /\ memory'[d].target = d
  BY <1>1, <1>4, <1>8
<1> QED BY <1>1, <1>5, <1>6, <1>7, <1>9

LEMMA AfterIsRow ==
  ASSUME FxInv, NEW r \in Requests, request[r].asked > 0
  PROVE  /\ After(r) \in RequestRow
         /\ After(r).asked > 0 => After(r).todo = request[r].todo /\ After(r).since = request[r].since
<1>1. request[r] \in RequestRow
  BY DEF FxInv, FxTypeInv
<1>2. CASE request[r].asked < Providers
  BY <1>1, <1>2 DEF After, RequestRow
<1>3. CASE ~(request[r].asked < Providers)
  BY <1>3, IdleIsRow DEF After
<1> QED BY <1>2, <1>3

LEMMA ProviderFailsKeeps ==
  ASSUME FxInv, NEW r \in Requests, ProviderFails(r)
  PROVE  FxInv'
<1>1. request[r].asked > 0 /\ request' = [request EXCEPT ![r] = After(r)]
      /\ UNCHANGED <<now, memory, rates, log, made>>
  BY DEF ProviderFails
<1>2. now \in Nat /\ made \in Nat /\ request \in [Requests -> RequestRow]
  BY DEF FxInv, FxTypeInv
<1>3. /\ After(r) \in RequestRow
      /\ After(r).asked > 0 => After(r).todo = request[r].todo /\ After(r).since = request[r].since
  BY <1>1, AfterIsRow
<1>4. PICK q \in RequestRow : q = After(r)
  BY <1>3
<1>a. (q.asked > 0 => q.todo # <<>> /\ q.since <= made') /\ made' \in Nat /\ made <= made'
  BY <1>1, <1>2, <1>3, <1>4 DEF FxInv, FxTypeInv
<1>b. request' = [request EXCEPT ![r] = q]
  BY <1>1, <1>4
<1>5. /\ request' \in [Requests -> RequestRow] /\ request'[r] = After(r)
      /\ \A s \in Requests : request'[s].asked > 0 => request'[s].todo # <<>> /\ request'[s].since <= made'
  BY <1>4, <1>a, <1>b, RequestsStayTyped
<1>6. FxTypeInv'
  BY <1>1, <1>5 DEF FxInv, FxTypeInv, Made
<1>7. MemoryIsNewest' /\ NewestIsUsed' /\ ManualRateHolds'
  BY <1>1 DEF FxInv, MemoryIsNewest, NewestIsUsed, ManualRateHolds, Cached, ValidRows
<1>8. \A s \in Requests : request'[s].asked > 0 =>
         /\ request[s].asked > 0 /\ Head(request'[s].todo) = Head(request[s].todo)
         /\ request'[s].since = request[s].since
  BY <1>1, <1>2, <1>3
<1>9. FetchesWereDue'
  <2>1. now' \in Nat /\ now <= now' /\ rates' = rates /\ memory' = memory
    BY <1>1, <1>2
  <2> QED BY <2>1, <1>8, FetchesStayDue
<1> QED BY <1>6, <1>7, <1>9 DEF FxInv

\* What a provider's answer does to a request: resolved, or its chain goes on.
LEMMA ProviderAnswersKeeps ==
  ASSUME FxAssumption, FxInv, NEW r \in Requests, ProviderAnswers(r)
  PROVE  FxInv'
<1> DEFINE x == Fetched(r)
           c == Head(request[r].todo)
<1>1. /\ request[r].asked > 0 /\ made' = made + 1 /\ now' = now
      /\ memory' = [memory EXCEPT ![c] = x]
      /\ \/ rates' = rates \cup {x} /\ Resolved(r, request[r], x, rates')
         \/ request' = [request EXCEPT ![r] = After(r)] /\ rates' = rates /\ log' = log
  BY DEF ProviderAnswers
<1>2. /\ now \in Nat /\ made \in Nat /\ request \in [Requests -> RequestRow]
      /\ request[r] \in RequestRow /\ request[r].todo # <<>> /\ request[r].since <= made
      /\ Overtaken(c, request[r].since)
  BY <1>1 DEF FxInv, FxTypeInv, FetchesWereDue
<1>3. c \in Local
  BY <1>2, HeadIsLocal
<1>4. /\ x \in Rate /\ x.target = c /\ x.fetched = now /\ x.no = made + 1
      /\ x.since = request[r].since /\ x.since \in Nat /\ ~x.manual
  BY <1>2, <1>3 DEF Fetched, Rate, RequestRow, FxAssumption
<1> HIDE DEF x, c
<1>5. /\ MemoryIsNewest'
      /\ \A y \in rates' : MadeThen(y)
      /\ memory' \in [Local -> Rate \cup {NoRate}]
      /\ \A d \in Local : memory'[d] # NoRate => MadeThen(memory'[d]) /\ memory'[d].target = d
      /\ \A d \in Local : memory'[d] = IF d = c THEN x ELSE memory[d]
  <2>1. rates' = rates \/ rates' = rates \cup {x}
    BY <1>1
  <2>2. x.since <= made
    BY <1>2, <1>4
  <2> QED BY <1>1, <1>3, <1>4, <2>1, <2>2, NewRateIsNewest
<1>6. GoodRate(x)
  <2>1. \A o \in ValidRows(x.target) : o.fetched <= x.fetched
    BY <1>4 DEF ValidRows, FxInv, FxTypeInv, Made
  <2> QED BY <1>2, <1>4, <2>1 DEF GoodRate
<1>7. /\ request' \in [Requests -> RequestRow]
      /\ \A s \in Requests : s # r => request'[s] = request[s]
      /\ request'[r].asked > 0 =>
           request'[r].todo = request[r].todo /\ request'[r].since = request[r].since
      /\ log' = log \/ log' = log \cup {Row(x)}
  <2>1. CASE Resolved(r, request[r], x, rates')
    <3>1. PICK table : table = rates'
      OBVIOUS
    <3>2. Resolved(r, request[r], x, table)
      BY <2>1, <3>1
    <3>3. /\ request' \in [Requests -> RequestRow] /\ request'[r].asked = 0
          /\ \A s \in Requests : s # r => request'[s] = request[s]
          /\ log' = log \/ log' = log \cup {Row(x)}
      BY <1>2, <3>2, ResolvedRequests
    <3> QED BY <3>3
  <2>2. CASE request' = [request EXCEPT ![r] = After(r)] /\ log' = log
    BY <1>1, <1>2, <2>2, AfterIsRow
  <2> QED BY <1>1, <2>1, <2>2
<1>8. NewestIsUsed' /\ ManualRateHolds'
  BY <1>6, <1>7, LogStaysGood
<1>9. FxTypeInv'
  <2>1. made' \in Nat /\ now' \in Nat /\ made <= made'
    BY <1>1, <1>2
  <2>2. \A s \in Requests : request[s].asked > 0 =>
           request[s].todo # <<>> /\ request[s].since <= made /\ request[s].since \in Nat
    BY DEF FxInv, FxTypeInv, RequestRow
  <2>3. \A s \in Requests : request'[s].asked > 0 => request'[s].todo # <<>> /\ request'[s].since <= made'
    BY <1>1, <1>2, <1>7, <2>1, <2>2
  <2> QED BY <1>5, <1>7, <2>1, <2>3 DEF FxTypeInv, Made, MadeThen
<1>10. FetchesWereDue'
  <2>1. now' \in Nat /\ now <= now'
    BY <1>1, <1>2
  <2>2. \A m \in rates' : m \in rates \/ m.no = made + 1
    BY <1>1, <1>4
  <2>3. OvertakenThen(c, x.since)
    BY <1>2, <1>4, <2>1, <2>2, OvertakenStays DEF FxInv
  <2>4. \A y \in rates' : y \in rates \/ y.manual \/ OvertakenThen(y.target, y.since)
    BY <1>1, <1>4, <2>3
  <2>5. \A d \in Local : \/ memory'[d] = memory[d] \/ memory'[d] = NoRate \/ memory'[d].manual
                         \/ OvertakenThen(d, memory'[d].since)
    BY <1>5, <2>3
  <2>6. \A s \in Requests : request'[s].asked > 0 =>
           /\ request[s].asked > 0 /\ Head(request'[s].todo) = Head(request[s].todo)
           /\ request'[s].since = request[s].since
    BY <1>1, <1>7
  <2> QED BY <2>1, <2>2, <2>4, <2>5, <2>6, FetchesStayDue
<1> QED BY <1>5, <1>8, <1>9, <1>10 DEF FxInv

LEMMA SetManualRateKeeps ==
  ASSUME FxAssumption, FxInv, SetManualRate
  PROVE  FxInv'
<1>1. PICK c \in Local, ahead \in Expiries :
        /\ memory' = [memory EXCEPT ![c] = [no |-> made + 1, target |-> c, manual |-> TRUE,
                                fetched |-> now, expires |-> now + ahead, since |-> made]]
        /\ rates' = rates \cup {[no |-> made + 1, target |-> c, manual |-> TRUE,
                                fetched |-> now, expires |-> now + ahead, since |-> made]}
  BY DEF SetManualRate
<1> DEFINE x == [no |-> made + 1, target |-> c, manual |-> TRUE,
                 fetched |-> now, expires |-> now + ahead, since |-> made]
<1>2. made' = made + 1 /\ UNCHANGED <<now, log, request>>
  BY DEF SetManualRate
<1>3. now \in Nat /\ made \in Nat
  BY DEF FxInv, FxTypeInv
<1>4. x \in Rate /\ x.target = c /\ x.fetched = now /\ x.no = made + 1 /\ x.since = made /\ x.manual
  <2>1. now + ahead \in Nat /\ made + 1 \in Nat
    BY <1>3 DEF FxAssumption
  <2> QED BY <1>3, <2>1 DEF Rate
<1>5. memory' = [memory EXCEPT ![c] = x] /\ rates' = rates \cup {x}
  BY <1>1
<1> HIDE DEF x
<1>6. /\ MemoryIsNewest'
      /\ \A y \in rates' : MadeThen(y)
      /\ memory' \in [Local -> Rate \cup {NoRate}]
      /\ \A d \in Local : memory'[d] # NoRate => MadeThen(memory'[d]) /\ memory'[d].target = d
      /\ \A d \in Local : memory'[d] = IF d = c THEN x ELSE memory[d]
  <2>1. x.since <= made /\ (rates' = rates \/ rates' = rates \cup {x}) /\ made' = made + 1 /\ now' = now
    BY <1>2, <1>3, <1>4, <1>5
  <2> QED BY <1>4, <1>5, <2>1, NewRateIsNewest
<1>7. FxTypeInv'
  <2>1. \A s \in Requests : request[s].since \in Nat
    BY DEF FxInv, FxTypeInv, RequestRow
  <2>2. \A s \in Requests : request[s].asked > 0 => request[s].todo # <<>> /\ request[s].since <= made'
    BY <1>2, <1>3, <2>1 DEF FxInv, FxTypeInv
  <2>3. made' \in Nat /\ now' \in Nat /\ request' \in [Requests -> RequestRow]
    BY <1>2, <1>3 DEF FxInv, FxTypeInv
  <2> QED BY <1>2, <1>6, <2>2, <2>3 DEF FxTypeInv, Made, MadeThen
<1>8. NewestIsUsed' /\ ManualRateHolds'
  BY <1>2 DEF FxInv, NewestIsUsed, ManualRateHolds
<1>9. FetchesWereDue'
  <2>1. now' \in Nat /\ now <= now'
    BY <1>2, <1>3
  <2>2. \A m \in rates' : m \in rates \/ m.no = made + 1
    BY <1>4, <1>5
  <2>3. \A y \in rates' : y \in rates \/ y.manual \/ OvertakenThen(y.target, y.since)
    BY <1>4, <1>5
  <2>4. \A d \in Local : \/ memory'[d] = memory[d] \/ memory'[d] = NoRate \/ memory'[d].manual
                         \/ OvertakenThen(d, memory'[d].since)
    BY <1>4, <1>6
  <2> QED BY <1>2, <2>1, <2>2, <2>3, <2>4, FetchesStayDue
<1> QED BY <1>6, <1>7, <1>8, <1>9 DEF FxInv

\* Rates leave the table, memory and requests are lost, time passes: nothing is made.
LEMMA NothingMadeKeeps ==
  ASSUME FxInv, made' = made, log' = log, now' = now \/ now' = now + 1, rates' \subseteq rates,
         memory' = memory \/ memory' = [c \in Local |-> NoRate],
         request' = request \/ request' = [r \in Requests |-> Idle]
  PROVE  FxInv'
<1>1. now \in Nat /\ made \in Nat /\ now' \in Nat /\ now <= now'
  BY DEF FxInv, FxTypeInv
<1>2. \A c \in Local : memory'[c] = memory[c] \/ memory'[c] = NoRate
  OBVIOUS
<1>3. \A r \in Requests : request'[r] = request[r] \/ request'[r] = Idle
  OBVIOUS
<1>4. FxTypeInv'
  <2>1. \A y : Made(y) => MadeThen(y)
    BY <1>1 DEF Made, MadeThen, Rate
  <2>2. \A y \in rates' : MadeThen(y)
    BY <2>1 DEF FxInv, FxTypeInv
  <2>3. memory' \in [Local -> Rate \cup {NoRate}]
    BY DEF FxInv, FxTypeInv
  <2>4. \A c \in Local : memory[c] # NoRate => MadeThen(memory[c]) /\ memory[c].target = c
    BY <2>1 DEF FxInv, FxTypeInv
  <2>5. \A c \in Local : memory'[c] # NoRate => MadeThen(memory'[c]) /\ memory'[c].target = c
    BY <1>2, <2>4
  <2>6. request' \in [Requests -> RequestRow]
    BY IdleIsRow DEF FxInv, FxTypeInv
  <2>7. \A r \in Requests : request'[r].asked > 0 => request'[r].todo # <<>> /\ request'[r].since <= made'
    BY <1>1, <1>3, IdleIsRow DEF FxInv, FxTypeInv
  <2> QED BY <1>1, <2>2, <2>3, <2>5, <2>6, <2>7 DEF FxTypeInv, Made, MadeThen
<1>5. MemoryIsNewest'
  <2> SUFFICES ASSUME NEW d \in Local, Cached(d)', NEW o \in ValidRows(d)'
               PROVE  o.fetched <= memory'[d].fetched
    BY DEF MemoryIsNewest
  <2>1. o \in rates /\ o.target = d /\ o.expires > now' /\ o.expires \in Nat
    BY DEF ValidRows, FxInv, FxTypeInv, Made, Rate
  <2>2. memory'[d] = memory[d] /\ memory[d] # NoRate /\ now' <= memory[d].expires
    BY <1>2 DEF Cached
  <2>3. memory[d].expires \in Nat
    BY <2>2 DEF FxInv, FxTypeInv, Made, Rate
  <2>4. o \in ValidRows(d) /\ Cached(d)
    BY <1>1, <2>1, <2>2, <2>3 DEF ValidRows, Cached
  <2> QED BY <2>2, <2>4 DEF FxInv, MemoryIsNewest
<1>6. NewestIsUsed' /\ ManualRateHolds'
  BY DEF FxInv, NewestIsUsed, ManualRateHolds
<1>7. FetchesWereDue'
  <2>1. \A m \in rates' : m \in rates
    OBVIOUS
  <2>2. \A r \in Requests : request'[r].asked > 0 =>
           /\ request[r].asked > 0 /\ Head(request'[r].todo) = Head(request[r].todo)
           /\ request'[r].since = request[r].since
    BY <1>3, IdleIsRow
  <2> QED BY <1>1, <1>2, <2>1, <2>2, FetchesStayDue
<1> QED BY <1>4, <1>5, <1>6, <1>7 DEF FxInv

LEMMA NewRequests ==
  ASSUME NEW todo \in Seq(Local), todo # <<>>
  PROVE  /\ [Idle EXCEPT !.todo = todo] \in RequestRow /\ [Idle EXCEPT !.todo = todo].todo # <<>>
         /\ [Idle EXCEPT !.todo = todo, !.converts = TRUE] \in RequestRow
         /\ [Idle EXCEPT !.todo = todo, !.converts = TRUE].todo # <<>>
<1>1. ASSUME NEW q \in RequestRow
      PROVE  /\ [q EXCEPT !.todo = todo] \in RequestRow /\ [q EXCEPT !.todo = todo].todo # <<>>
             /\ [q EXCEPT !.todo = todo, !.converts = TRUE] \in RequestRow
             /\ [q EXCEPT !.todo = todo, !.converts = TRUE].todo # <<>>
  BY DEF RequestRow
<1> QED BY <1>1, IdleIsRow

\* The inductive invariant of the exchange rates.
THEOREM FxInvariant == FxSpec => []FxInv
<1>1. FxInit => FxInv
  <2> SUFFICES ASSUME FxInit PROVE FxInv
    OBVIOUS
  <2>1. FxTypeInv
    BY IdleIsRow DEF FxInit, FxTypeInv
  <2> QED BY <2>1, IdleIsRow
          DEF FxInit, FxInv, MemoryIsNewest, FetchesWereDue, NewestIsUsed, ManualRateHolds, Cached
<1>2. FxInv /\ [FxNext]_fxVars => FxInv'
  <2> SUFFICES ASSUME FxInv, [FxNext]_fxVars PROVE FxInv'
    OBVIOUS
  <2> USE FxAssumption
  <2>0. request \in [Requests -> RequestRow]
    BY DEF FxInv, FxTypeInv
  <2>1. ASSUME NEW r \in Requests, Quote(r) PROVE FxInv'
    <3>1. PICK c \in Local : GetRate(r, [Idle EXCEPT !.todo = <<c>>])
      BY <2>1 DEF Quote
    <3>2. <<c>> \in Seq(Local) /\ <<c>> # <<>>
      OBVIOUS
    <3> QED BY <3>1, <3>2, NewRequests, GetRateKeeps
  <2>2. ASSUME NEW r \in Requests, Refresh(r) PROVE FxInv'
    <3>1. GetRate(r, [Idle EXCEPT !.todo = Refreshed])
      BY <2>2 DEF Refresh
    <3>2. Refreshed \in Seq(Local) /\ Refreshed # <<>>
      BY DEF FxAssumption
    <3> QED BY <3>1, <3>2, NewRequests, GetRateKeeps
  <2>3. ASSUME NEW r \in Requests, ConvertUsd(r) PROVE FxInv'
    <3>1. PICK c \in Local : GetRate(r, [Idle EXCEPT !.todo = <<c>>, !.converts = TRUE])
      BY <2>3 DEF ConvertUsd
    <3>2. <<c>> \in Seq(Local) /\ <<c>> # <<>>
      OBVIOUS
    <3> QED BY <3>1, <3>2, NewRequests, GetRateKeeps
  <2>4. ASSUME NEW r \in Requests, RefreshNext(r) PROVE FxInv'
    <3>1. GetRate(r, request[r]) /\ request[r].todo # <<>> /\ request[r] \in RequestRow
      BY <2>0, <2>4 DEF RefreshNext
    <3> QED BY <3>1, GetRateKeeps
  <2>5. ASSUME NEW r \in Requests, ProviderFails(r) PROVE FxInv'
    BY <2>5, ProviderFailsKeeps
  <2>6. ASSUME NEW r \in Requests, ProviderAnswers(r) PROVE FxInv'
    BY <2>6, ProviderAnswersKeeps
  <2>7. CASE SetManualRate
    BY <2>7, SetManualRateKeeps
  <2>8. CASE PurgeExpiredRates
    <3>1. rates' \subseteq rates /\ UNCHANGED <<now, memory, log, request, made>>
      BY <2>8 DEF PurgeExpiredRates
    <3> QED BY <3>1, NothingMadeKeeps
  <2>9. CASE Crash
    <3>1. /\ memory' = [c \in Local |-> NoRate] /\ request' = [r \in Requests |-> Idle]
          /\ UNCHANGED <<now, rates, log, made>>
      BY <2>9 DEF Crash
    <3> QED BY <3>1, NothingMadeKeeps
  <2>10. CASE Tick
    <3>1. now' = now + 1 /\ UNCHANGED <<memory, rates, log, request, made>>
      BY <2>10 DEF Tick
    <3> QED BY <3>1, NothingMadeKeeps
  <2>11. CASE UNCHANGED fxVars
    <3>1. UNCHANGED <<now, memory, rates, log, request, made>>
      BY <2>11 DEF fxVars
    <3> QED BY <3>1, NothingMadeKeeps
  <2> QED BY <2>1, <2>2, <2>3, <2>4, <2>5, <2>6, <2>7, <2>8, <2>9, <2>10, <2>11 DEF FxNext, Serve
<1> QED BY <1>1, <1>2, PTL DEF FxSpec

\* A conversion never used an older rate than the newest valid one, however requests,
\* operators, purges and restarts interleave (getRate, setManualRate, purgeExpiredRates).
THEOREM NewestRateUsed == FxSpec => []NewestIsUsed
<1>1. FxInv => NewestIsUsed
  BY DEF FxInv
<1> QED BY <1>1, FxInvariant, PTL

\* An operator's rate holds until it expires: a provider's rate made later was used only if
\* its fetch was under way when the operator's was set.
THEOREM ManualHolds == FxSpec => []ManualRateHolds
<1>1. FxInv => ManualRateHolds
  BY DEF FxInv
<1> QED BY <1>1, FxInvariant, PTL
-----------------------------------------------------------------------------
(* Underwriting: scores. *)

\* A table of limits is worth no more than its dearest row.
LEMMA WorthBounded ==
  ASSUME NEW n \in Nat, NEW value, NEW limits, DOMAIN limits = 1..n, NEW top \in Nat,
         \A i \in 1..n : limits[i][2] \in 0..top
  PROVE  Worth(value, limits) \in 0..top
<1> DEFINE over == {i \in DOMAIN limits : value > limits[i][1]}
<1>1. CASE over = {}
  BY <1>1 DEF Worth
<1>2. CASE over # {}
  <2>1. PICK i \in over : \A j \in over : i <= j
    <3>1. over \subseteq Nat
      OBVIOUS
    <3> HIDE DEF over
    <3> QED BY <1>2, <3>1, LeastNumber
  <2>2. Min(over) \in over
    <3> HIDE DEF over
    <3> QED BY <2>1 DEF Min
  <2>3. Worth(value, limits) = limits[Min(over)][2]
    BY <1>2 DEF Worth
  <2>4. Min(over) \in 1..n
    BY <2>2
  <2> HIDE DEF over
  <2> QED BY <2>3, <2>4
<1> QED BY <1>1, <1>2

LEMMA ThreeLimits ==
  ASSUME NEW value, NEW a, NEW b, NEW c, NEW x \in Nat, NEW y \in Nat, NEW z \in Nat, NEW top \in Nat,
         x <= top, y <= top, z <= top
  PROVE  Worth(value, <<<<a, x>>, <<b, y>>, <<c, z>>>>) \in 0..top
<1> DEFINE limits == <<<<a, x>>, <<b, y>>, <<c, z>>>>
<1>1. DOMAIN limits = 1..3 /\ \A i \in 1..3 : limits[i][2] \in 0..top
  OBVIOUS
<1> HIDE DEF limits
<1>2. Worth(value, limits) \in 0..top
  BY <1>1, WorthBounded
<1> QED BY <1>2 DEF limits

LEMMA TwoLimits ==
  ASSUME NEW value, NEW a, NEW b, NEW x \in Nat, NEW y \in Nat, NEW top \in Nat, x <= top, y <= top
  PROVE  Worth(value, <<<<a, x>>, <<b, y>>>>) \in 0..top
<1> DEFINE limits == <<<<a, x>>, <<b, y>>>>
<1>1. DOMAIN limits = 1..2 /\ \A i \in 1..2 : limits[i][2] \in 0..top
  OBVIOUS
<1> HIDE DEF limits
<1>2. Worth(value, limits) \in 0..top
  BY <1>1, WorthBounded
<1> QED BY <1>2 DEF limits

\* No component of the score exceeds 100, nor does the score, whatever the tables show: the
\* caps of computeUnderwritingRiskScore never bind.
THEOREM ScoreInRange ==
  ASSUME NEW x \in Measurement
  PROVE  Composite(x) \in 0..100
<1>1. /\ x.integrity \in BOOLEAN
      /\ {x.failovers, x.critical, x.high, x.lockouts, x.breaches, x.duplicates} \subseteq Nat
  BY DEF Measurement
<1>2. Operational(x) \in 0..100
  <2>1. Worth(x.slow, <<<<50, 20>>, <<20, 10>>, <<5, 5>>>>) \in 0..20
    BY ThreeLimits
  <2>2. Worth(x.avgMs, <<<<500, 10>>, <<200, 5>>>>) \in 0..10
    BY TwoLimits
  <2>3. Smaller(15 * x.failovers, 30) \in 0..30
    BY <1>1 DEF Smaller
  <2> QED BY <1>1, <2>1, <2>2, <2>3 DEF Operational
<1>3. Security(x) \in 0..100
  <2>1. /\ Smaller(12 * x.critical, 48) \in 0..48 /\ Smaller(4 * x.high, 24) \in 0..24
        /\ Smaller(3 * x.lockouts, 18) \in 0..18
    BY <1>1 DEF Smaller
  <2> QED BY <2>1 DEF Security
<1>4. Compliance(x) \in 0..100
  <2>1. Smaller(20 * x.breaches, 60) \in 0..60 /\ Smaller(8 * x.duplicates, 40) \in 0..40
    BY <1>1 DEF Smaller
  <2> QED BY <2>1 DEF Compliance
<1>5. Financial(x) \in 0..100
  <2> DEFINE limits == <<<<25, 100>>, <<15, 75>>, <<8, 50>>, <<3, 25>>, <<1, 10>>>>
  <2>1. DOMAIN limits = 1..5 /\ \A i \in 1..5 : limits[i][2] \in 0..100
    OBVIOUS
  <2> HIDE DEF limits
  <2>2. Worth(x.failedPercent, limits) \in 0..100
    BY <2>1, WorthBounded
  <2> QED BY <2>2 DEF limits, Financial
<1>6. ASSUME NEW a \in 0..100, NEW b \in 0..100, NEW c \in 0..100, NEW d \in 0..100
      PROVE  (3 * a + 3 * b + 2 * c + 2 * d + 5) \div 10 \in 0..100
  <2>1. 3 * a + 3 * b + 2 * c + 2 * d + 5 \in 0..1005
    OBVIOUS
  <2>2. \A n \in 0..1005 : n \div 10 \in 0..100
    OBVIOUS
  <2> QED BY <2>1, <2>2
<1> QED BY <1>2, <1>3, <1>4, <1>5, <1>6 DEF Composite

-----------------------------------------------------------------------------
(* Underwriting: a thread of snapshots, each with the one before it. *)

Chained(list) == \A i \in 1..Len(list) : list[i].prev \in 0..(i - 1)

ThreadsUpto(f, list, n) == f = [i \in 0..n |-> IF i = 0 THEN {} ELSE {i} \cup f[list[i].prev]]

\* f gives every snapshot of the list its thread.
Threads(f, list) ==
  f = [i \in 0..Len(list) |-> IF i = 0 THEN {} ELSE {i} \cup f[list[i].prev]]

Thread(list, i) == (CHOOSE f : Threads(f, list))[i]

LEMMA ThreadsExist ==
  ASSUME NEW list, Len(list) \in Nat, Chained(list)
  PROVE  \E f : Threads(f, list)
<1> DEFINE Fails == {n \in 0..Len(list) : ~\E f : ThreadsUpto(f, list, n)}
<1>1. Fails = {}
  <2> SUFFICES ASSUME Fails # {} PROVE FALSE
    OBVIOUS
  <2>1. PICK n \in Fails : \A m \in Fails : n <= m
    <3>1. Fails \subseteq Nat
      OBVIOUS
    <3> HIDE DEF Fails
    <3> QED BY <3>1, LeastNumber
  <2>2. n \in 0..Len(list) /\ ~\E f : ThreadsUpto(f, list, n)
    BY <2>1
  <2>3. n # 0
    <3>1. ThreadsUpto([i \in 0..0 |-> {}], list, 0)
      BY DEF ThreadsUpto
    <3> QED BY <2>2, <3>1
  <2>4. n - 1 \in 0..Len(list) /\ n - 1 \notin Fails
    BY <2>1, <2>2, <2>3
  <2>5. PICK f : ThreadsUpto(f, list, n - 1)
    BY <2>4
  <2> HIDE DEF Fails
  <2> DEFINE h == [i \in 0..n |-> IF i = 0 THEN {} ELSE {i} \cup f[list[i].prev]]
  <2>6. \A i \in 0..(n - 1) : h[i] = f[i]
    <3>1. \A i \in 0..(n - 1) : f[i] = IF i = 0 THEN {} ELSE {i} \cup f[list[i].prev]
      BY <2>5 DEF ThreadsUpto
    <3>2. \A i \in 0..n : h[i] = IF i = 0 THEN {} ELSE {i} \cup f[list[i].prev]
      OBVIOUS
    <3> HIDE DEF h
    <3>3. ASSUME NEW i \in 0..(n - 1) PROVE h[i] = f[i]
      <4>1. i \in 0..n
        BY <2>2
      <4>2. h[i] = IF i = 0 THEN {} ELSE {i} \cup f[list[i].prev]
        BY <3>2, <4>1
      <4>3. f[i] = IF i = 0 THEN {} ELSE {i} \cup f[list[i].prev]
        BY <3>1
      <4> QED BY <4>2, <4>3
    <3> QED BY <3>3
  <2>7. \A i \in 0..n : i # 0 => list[i].prev \in 0..(n - 1)
    BY <2>2 DEF Chained
  <2>8. \A i \in 0..n : i # 0 => f[list[i].prev] = h[list[i].prev]
    <3> HIDE DEF h
    <3> QED BY <2>6, <2>7
  <2>9. h = [i \in 0..n |-> IF i = 0 THEN {} ELSE {i} \cup h[list[i].prev]]
    BY <2>8
  <2> HIDE DEF h
  <2> QED BY <2>2, <2>9 DEF ThreadsUpto
<1>2. Len(list) \notin Fails
  BY <1>1
<1>3. \E f : ThreadsUpto(f, list, Len(list))
  BY <1>2
<1> QED BY <1>3 DEF ThreadsUpto, Threads

LEMMA ThreadIs ==
  ASSUME NEW list, Len(list) \in Nat, Chained(list)
  PROVE  /\ Thread(list, 0) = {}
         /\ \A i \in 1..Len(list) : Thread(list, i) = {i} \cup Thread(list, list[i].prev)
<1>1. PICK f : Threads(f, list) /\ \A i : Thread(list, i) = f[i]
  BY ThreadsExist DEF Thread
<1>2. f[0] = {} /\ \A i \in 1..Len(list) : f[i] = {i} \cup f[list[i].prev]
  BY <1>1 DEF Threads
<1> QED BY <1>1, <1>2

\* A thread does not depend on what is written after it.
LEMMA ThreadKept ==
  ASSUME NEW list, Len(list) \in Nat, Chained(list), NEW more, Len(more) \in Nat, Chained(more),
         Len(list) <= Len(more), \A i \in 1..Len(list) : more[i].prev = list[i].prev
  PROVE  \A i \in 0..Len(list) : Thread(more, i) = Thread(list, i)
<1> DEFINE Fails == {i \in 0..Len(list) : Thread(more, i) # Thread(list, i)}
<1> SUFFICES ASSUME Fails # {} PROVE FALSE
  OBVIOUS
<1>1. PICK n \in Fails : \A m \in Fails : n <= m
  <2>1. Fails \subseteq Nat
    OBVIOUS
  <2> HIDE DEF Fails
  <2> QED BY <2>1, LeastNumber
<1>2. n \in 0..Len(list) /\ Thread(more, n) # Thread(list, n)
  BY <1>1
<1>3. Thread(list, 0) = {} /\ Thread(more, 0) = {}
  BY ThreadIs
<1>a. n # 0
  BY <1>2, <1>3
<1>4. n \in 1..Len(list) /\ n \in 1..Len(more)
  BY <1>2, <1>a
<1>5. list[n].prev \in 0..(n - 1) /\ more[n].prev = list[n].prev
  BY <1>4 DEF Chained
<1>6. list[n].prev \notin Fails
  BY <1>1, <1>4, <1>5
<1>7. Thread(more, list[n].prev) = Thread(list, list[n].prev)
  BY <1>4, <1>5, <1>6
<1>8. /\ Thread(list, n) = {n} \cup Thread(list, list[n].prev)
      /\ Thread(more, n) = {n} \cup Thread(more, list[n].prev)
  BY <1>4, <1>5, ThreadIs
<1> QED BY <1>2, <1>7, <1>8

LEMMA ThreadWithin ==
  ASSUME NEW list, Len(list) \in Nat, Chained(list)
  PROVE  \A i \in 0..Len(list) : Thread(list, i) \subseteq 1..i
<1> DEFINE Fails == {i \in 0..Len(list) : ~(Thread(list, i) \subseteq 1..i)}
<1> SUFFICES ASSUME Fails # {} PROVE FALSE
  OBVIOUS
<1>1. PICK n \in Fails : \A m \in Fails : n <= m
  <2>1. Fails \subseteq Nat
    OBVIOUS
  <2> HIDE DEF Fails
  <2> QED BY <2>1, LeastNumber
<1>2. n \in 0..Len(list) /\ ~(Thread(list, n) \subseteq 1..n)
  BY <1>1
<1>3. n \in 1..Len(list)
  BY <1>2, ThreadIs
<1>4. list[n].prev \in 0..(n - 1)
  BY <1>3 DEF Chained
<1>5. list[n].prev \notin Fails
  BY <1>1, <1>3, <1>4
<1>6. Thread(list, list[n].prev) \subseteq 1..list[n].prev
  BY <1>3, <1>4, <1>5
<1>7. Thread(list, n) = {n} \cup Thread(list, list[n].prev)
  BY <1>3, ThreadIs
<1> QED BY <1>2, <1>3, <1>4, <1>6, <1>7
-----------------------------------------------------------------------------
(* Underwriting: what an audit writes. *)

Audits(p) == {s \in DOMAIN snapshots : snapshots[s].policy = p}
Issued == {t \in DOMAIN tokens : tokens[t].status = "issued"}

\* The snapshots that are on the thread of some policy.
Woven == UNION {Thread(snapshots, registry[p].thread) : p \in Registered}

\* The registry is at the end of its policy's thread, which only a crash leaves short.
ThreadEnds(p) ==
  /\ registry[p].thread \in 0..Len(snapshots)
  /\ registry[p].thread # Nothing =>
       /\ registry[p].band = snapshots[registry[p].thread].band
       /\ registry[p].discount = snapshots[registry[p].thread].discount
  /\ \A s \in Thread(snapshots, registry[p].thread) : snapshots[s].policy = p
  /\ crashes = 0 => \A s \in Audits(p) : s <= registry[p].thread

ThreadsHold ==
  /\ Chained(snapshots)
  /\ \A p \in Policies : p \notin Registered => Audits(p) = {}
  /\ \A t \in DOMAIN tokens : tokens[t].snapshot \in DOMAIN snapshots
  /\ \A p \in Registered : ThreadEnds(p)
  /\ Len(snapshots) - Cardinality(Woven) <= crashes

UnderwritingInv == UTypeOK /\ ThreadsHold /\ Cardinality(Issued) <= 1 + crashes

LEMMA SnapshotsAre ==
  ASSUME UTypeOK
  PROVE  /\ Len(snapshots) \in Nat /\ DOMAIN snapshots = 1..Len(snapshots)
         /\ Len(tokens) \in Nat /\ DOMAIN tokens = 1..Len(tokens) /\ crashes \in Nat
         /\ \A s \in DOMAIN snapshots : snapshots[s] \in Snapshot
         /\ \A t \in DOMAIN tokens : tokens[t] \in TokenRow
<1>1. snapshots \in Seq(Snapshot) /\ tokens \in Seq(TokenRow) /\ crashes \in Nat
  BY UnderwritingAssumption DEF UTypeOK
<1> QED BY <1>1, LenProperties, ElementOfSeq

LEMMA RegisteredAre ==
  ASSUME UTypeOK
  PROVE  \A p \in Registered : p \in Policies /\ registry[p] \in Entry /\ registry[p].thread \in Nat
  BY DEF UTypeOK, Registered, Entry

LEMMA EntriesAreRegistered == ASSUME NEW e \in Entry PROVE e # Unregistered
<1>1. e.band \in Bands /\ Unregistered.band = "none"
  BY DEF Entry, Unregistered
<1> QED BY <1>1 DEF Bands

LEMMA BandsHaveDiscounts ==
  ASSUME NEW score \in Int
  PROVE  Band(score) \in Bands /\ DiscountOf[Band(score)] \in Discounts
<1>1. \A b \in Bands : DiscountOf[b] \in Discounts
  BY DEF Bands, Discounts, DiscountOf, Nothing
<1>2. Band(score) \in Bands
  BY DEF Band, Bands
<1> QED BY <1>1, <1>2

LEMMA SupersededIs ==
  ASSUME NEW list \in Seq(TokenRow)
  PROVE  /\ Superseded(list) \in Seq(TokenRow) /\ DOMAIN Superseded(list) = DOMAIN list
         /\ \A t \in DOMAIN list :
              /\ Superseded(list)[t].snapshot = list[t].snapshot
              /\ Superseded(list)[t].status = "issued" => t = Len(list)
<1>1. Len(list) \in Nat /\ DOMAIN list = 1..Len(list) /\ \A t \in DOMAIN list : list[t] \in TokenRow
  BY LenProperties, ElementOfSeq
<1>2. ASSUME NEW r \in TokenRow
      PROVE  /\ [r EXCEPT !.status = "revoked"] \in TokenRow
             /\ [r EXCEPT !.status = "revoked"].status = "revoked"
             /\ [r EXCEPT !.status = "revoked"].snapshot = r.snapshot
  BY DEF TokenRow
<1> DEFINE after(t) == IF t < Len(list) /\ list[t].status = "issued"
                       THEN [list[t] EXCEPT !.status = "revoked"] ELSE list[t]
<1>3. ASSUME NEW t \in 1..Len(list)
      PROVE  /\ after(t) \in TokenRow /\ after(t).snapshot = list[t].snapshot
             /\ after(t).status = "issued" => t = Len(list)
  BY <1>1, <1>2
<1>4. Superseded(list) = [t \in 1..Len(list) |-> after(t)]
  BY <1>1 DEF Superseded
<1> HIDE DEF after
<1>5. Superseded(list) \in [1..Len(list) -> TokenRow]
  BY <1>3, <1>4
<1>6. Superseded(list) \in Seq(TokenRow)
  BY <1>1, <1>5, SeqDef
<1> QED BY <1>1, <1>3, <1>4, <1>6

\* The rows of one audit, and which of them are written.
Writes(p, row, entry, token, done) ==
  /\ row.policy = p /\ row.prev = registry[p].thread
  /\ entry.band = row.band /\ entry.discount = row.discount /\ entry.thread = Len(snapshots) + 1
  /\ token.snapshot = Len(snapshots) + 1
  /\ snapshots' = IF "snapshot" \in done THEN Append(snapshots, row) ELSE snapshots
  /\ registry' = IF "registry" \notin done THEN registry ELSE [registry EXCEPT ![p] = entry]
  /\ tokens' = IF "revoke" \in done THEN Superseded(Append(tokens, token))
               ELSE IF "token" \in done THEN Append(tokens, token) ELSE tokens

LEMMA AuditWrites ==
  ASSUME UTypeOK, NEW p \in Registered, NEW x \in Measurements, NEW done, Audited(p, x, done)
  PROVE  \E row \in Snapshot, entry \in Entry, token \in TokenRow : Writes(p, row, entry, token, done)
<1>1. /\ Len(snapshots) \in Nat /\ Len(tokens) \in Nat /\ p \in Policies
      /\ registry[p] \in Entry /\ registry[p].thread \in Nat /\ registry[p].clean \in Nat
  BY SnapshotsAre, RegisteredAre DEF Entry
<1>2. Composite(x) \in 0..100
  BY ScoreInRange, UnderwritingAssumption
<1> DEFINE score == Composite(x)
           discount == DiscountOf[Band(score)]
           row == [policy |-> p, prev |-> Predecessor(p), band |-> Band(score),
                   score |-> score, discount |-> discount,
                   token |-> IF "link" \in done THEN Len(tokens) + 1 ELSE Nothing]
           value == (MonthlyPremium(p) * discount + 50) \div 100
           token == [policy |-> p, snapshot |-> Len(snapshots) + 1, pct |-> discount,
                     value |-> value,
                     status |-> "issued", expired |-> FALSE, invoice |-> Nothing]
           entry == [band |-> Band(score), score |-> score, discount |-> discount,
                     thread |-> Len(snapshots) + 1,
                     clean |-> IF Band(score) = "RED" THEN 0 ELSE registry[p].clean + 1]
<1>3. Band(score) \in Bands /\ discount \in Discounts
  BY <1>2, BandsHaveDiscounts
<1>4. value \in Nat
  <2>1. AnnualPremium[p] \in Nat /\ MonthlyPremium(p) \in Nat
    BY <1>1, UnderwritingAssumption DEF MonthlyPremium
  <2>2. MonthlyPremium(p) * discount \in Nat
    BY <1>3, <2>1 DEF Discounts, Nothing
  <2>3. \A n \in Nat : (n + 50) \div 100 \in Nat
    OBVIOUS
  <2> QED BY <2>2, <2>3
<1> HIDE DEF value
<1>5. row \in Snapshot
  BY <1>1, <1>2, <1>3 DEF Snapshot, Predecessor, Nothing
<1>6. token \in TokenRow
  BY <1>1, <1>3, <1>4 DEF TokenRow, Nothing
<1>7. entry \in Entry
  BY <1>1, <1>2, <1>3 DEF Entry
<1>8. Writes(p, row, entry, token, done)
  <2>1. registry' = IF "registry" \notin done THEN registry ELSE [registry EXCEPT ![p] = entry]
    BY <1>1 DEF Audited, UTypeOK
  <2>2. /\ snapshots' = IF "snapshot" \in done THEN Append(snapshots, row) ELSE snapshots
        /\ tokens' = IF "revoke" \in done THEN Superseded(Append(tokens, token))
                     ELSE IF "token" \in done THEN Append(tokens, token) ELSE tokens
    BY DEF Audited, value
  <2> QED BY <2>1, <2>2 DEF Writes, Predecessor
<1> HIDE DEF row, token, entry
<1> QED BY <1>5, <1>6, <1>7, <1>8

\* The commits that are done: of a whole audit all of them, of one cut short never the registry.
LEMMA DoneWhole ==
  ASSUME NEW discount, NEW done, done = {Commits(discount)[i] : i \in DOMAIN Commits(discount)}
  PROVE  "snapshot" \in done /\ "registry" \in done /\ ("token" \in done => "revoke" \in done)
<1>1. CASE discount = Nothing
  <2> DEFINE all == <<"snapshot", "registry">>
  <2>1. DOMAIN all = 1..2 /\ all[1] = "snapshot" /\ all[2] = "registry" /\ 1 \in 1..2 /\ 2 \in 1..2
    OBVIOUS
  <2>2. Commits(discount) = all
    BY <1>1 DEF Commits
  <2> HIDE DEF all
  <2>3. "token" \notin done
    <3>1. \A i \in 1..2 : i = 1 \/ i = 2
      OBVIOUS
    <3> QED BY <2>1, <2>2, <3>1
  <2> QED BY <2>1, <2>2, <2>3
<1>2. CASE discount # Nothing
  <2> DEFINE all == <<"snapshot", "token", "link", "revoke", "registry">>
  <2>1. DOMAIN all = 1..5 /\ all[1] = "snapshot" /\ all[4] = "revoke" /\ all[5] = "registry"
        /\ 1 \in 1..5 /\ 4 \in 1..5 /\ 5 \in 1..5
    OBVIOUS
  <2>2. Commits(discount) = all
    BY <1>2 DEF Commits
  <2> HIDE DEF all
  <2> QED BY <2>1, <2>2
<1> QED BY <1>1, <1>2

LEMMA DoneInPart ==
  ASSUME NEW discount, NEW n \in 1..4, n < Len(Commits(discount)),
         NEW done, done = {Commits(discount)[i] : i \in 1..n}
  PROVE  "snapshot" \in done /\ "registry" \notin done
<1>1. CASE discount = Nothing
  <2> DEFINE all == <<"snapshot", "registry">>
  <2>1. Len(all) = 2 /\ all[1] = "snapshot" /\ 1 \in 1..n
    OBVIOUS
  <2>2. Commits(discount) = all
    BY <1>1 DEF Commits
  <2> HIDE DEF all
  <2>3. n < 2
    BY <2>1, <2>2
  <2>4. n = 1
    BY <2>3
  <2>5. \A i \in 1..n : i = 1
    BY <2>4
  <2> QED BY <2>1, <2>2, <2>5
<1>2. CASE discount # Nothing
  <2> DEFINE all == <<"snapshot", "token", "link", "revoke", "registry">>
  <2>1. /\ all[1] = "snapshot" /\ all[2] = "token" /\ all[3] = "link" /\ all[4] = "revoke"
        /\ 1 \in 1..n
    OBVIOUS
  <2>2. Commits(discount) = all
    BY <1>2 DEF Commits
  <2> HIDE DEF all
  <2>3. \A i \in 1..n : i = 1 \/ i = 2 \/ i = 3 \/ i = 4
    OBVIOUS
  <2> QED BY <2>1, <2>2, <2>3
<1> QED BY <1>1, <1>2
-----------------------------------------------------------------------------
(* Underwriting: the steps. *)

\* What Writes leaves to revoke: nothing after a whole audit, one token more after a crash.
LEMMA AuditedTokens ==
  ASSUME UnderwritingInv, NEW token \in TokenRow, token.snapshot = Len(snapshots) + 1, NEW done,
         tokens' = IF "revoke" \in done THEN Superseded(Append(tokens, token))
                   ELSE IF "token" \in done THEN Append(tokens, token) ELSE tokens,
         \/ ("token" \in done => "revoke" \in done) /\ crashes' = crashes
         \/ crashes' = crashes + 1
  PROVE  /\ tokens' \in Seq(TokenRow)
         /\ \A t \in DOMAIN tokens' : tokens'[t].snapshot \in 1..(Len(snapshots) + 1)
         /\ Cardinality(Issued') <= 1 + crashes'
<1>1. /\ Len(tokens) \in Nat /\ DOMAIN tokens = 1..Len(tokens) /\ tokens \in Seq(TokenRow)
      /\ Len(snapshots) \in Nat /\ crashes \in Nat
      /\ \A t \in DOMAIN tokens : tokens[t].snapshot \in 1..Len(snapshots)
      /\ Cardinality(Issued) <= 1 + crashes
  BY SnapshotsAre DEF UnderwritingInv, UTypeOK, ThreadsHold
<1> DEFINE more == Append(tokens, token)
<1>2. /\ more \in Seq(TokenRow) /\ Len(more) = Len(tokens) + 1 /\ DOMAIN more = 1..(Len(tokens) + 1)
      /\ more[Len(tokens) + 1] = token /\ \A t \in 1..Len(tokens) : more[t] = tokens[t]
  BY <1>1
<1>3. \A t \in DOMAIN more : more[t].snapshot \in 1..(Len(snapshots) + 1)
  <2> HIDE DEF more
  <2> QED BY <1>1, <1>2
<1>4. IsFiniteSet(Issued) /\ Cardinality(Issued) \in Nat
  <2>1. Issued \subseteq 1..Len(tokens) /\ IsFiniteSet(1..Len(tokens))
    BY <1>1, FS_Interval DEF Issued
  <2> QED BY <2>1, FS_Subset, FS_CardinalityType
<1>5. CASE "revoke" \in done
  <2>1. tokens' = Superseded(more)
    BY <1>5
  <2> HIDE DEF more
  <2>2. /\ tokens' \in Seq(TokenRow) /\ DOMAIN tokens' = DOMAIN more
        /\ \A t \in DOMAIN more : /\ tokens'[t].snapshot = more[t].snapshot
                                  /\ tokens'[t].status = "issued" => t = Len(more)
    BY <1>2, <2>1, SupersededIs
  <2>3. Issued' \subseteq {Len(more)}
    BY <2>2 DEF Issued
  <2>4. Cardinality(Issued') <= 1
    <3>1. IsFiniteSet({Len(more)}) /\ Cardinality({Len(more)}) = 1
      BY FS_Singleton
    <3> QED BY <2>3, <3>1, FS_Subset
  <2>5. crashes' \in Nat
    BY <1>1
  <2>6. Cardinality(Issued') \in Nat
    BY <2>3, FS_Singleton, FS_Subset, FS_CardinalityType
  <2> QED BY <1>3, <2>2, <2>4, <2>5, <2>6
<1>6. CASE "revoke" \notin done /\ "token" \in done
  <2>1. tokens' = more /\ crashes' = crashes + 1
    BY <1>6
  <2> HIDE DEF more
  <2>2. Issued' \subseteq Issued \cup {Len(tokens) + 1}
    BY <1>1, <1>2, <2>1 DEF Issued
  <2>3. /\ IsFiniteSet(Issued \cup {Len(tokens) + 1})
        /\ Cardinality(Issued \cup {Len(tokens) + 1}) <= Cardinality(Issued) + 1
    <3>1. PICK t : t = Len(tokens) + 1
      OBVIOUS
    <3>2. /\ IsFiniteSet(Issued \cup {t})
          /\ \/ Cardinality(Issued \cup {t}) = Cardinality(Issued)
             \/ Cardinality(Issued \cup {t}) = Cardinality(Issued) + 1
      BY <1>4, FS_AddElement
    <3> QED BY <1>4, <3>1, <3>2
  <2>4. Cardinality(Issued') <= Cardinality(Issued) + 1
    <3>1. /\ Cardinality(Issued') <= Cardinality(Issued \cup {Len(tokens) + 1})
          /\ Cardinality(Issued') \in Nat /\ Cardinality(Issued \cup {Len(tokens) + 1}) \in Nat
      BY <2>2, <2>3, FS_Subset, FS_CardinalityType
    <3> QED BY <1>4, <2>3, <3>1
  <2>5. Cardinality(Issued') \in Nat
    BY <2>2, <2>3, FS_Subset, FS_CardinalityType
  <2>6. Cardinality(Issued') <= 1 + crashes'
    BY <1>1, <1>4, <2>1, <2>4, <2>5
  <2>7. \A t \in DOMAIN tokens' : tokens'[t].snapshot \in 1..(Len(snapshots) + 1)
    BY <1>3, <2>1
  <2>8. tokens' \in Seq(TokenRow)
    BY <1>2, <2>1
  <2> QED BY <2>6, <2>7, <2>8
<1>7. CASE "revoke" \notin done /\ "token" \notin done
  <2>1. tokens' = tokens /\ Issued' = Issued
    BY <1>7 DEF Issued
  <2>2. tokens \in Seq(TokenRow) /\ \A t \in DOMAIN tokens : tokens[t].snapshot \in 1..(Len(snapshots) + 1)
    BY <1>1
  <2>3. crashes' = crashes \/ crashes' = crashes + 1
    OBVIOUS
  <2>4. \A c : c = crashes \/ c = crashes + 1 => Cardinality(Issued) <= 1 + c
    BY <1>1, <1>4
  <2>5. Cardinality(Issued') <= 1 + crashes'
    BY <2>1, <2>3, <2>4
  <2>6. \A t \in DOMAIN tokens' : tokens'[t].snapshot \in 1..(Len(snapshots) + 1)
    BY <2>1, <2>2
  <2> QED BY <2>1, <2>2, <2>5, <2>6
<1> QED BY <1>5, <1>6, <1>7

LEMMA AuditKeeps ==
  ASSUME UnderwritingInv, NEW p \in Registered, NEW row \in Snapshot, NEW entry \in Entry,
         NEW token \in TokenRow, NEW done, Writes(p, row, entry, token, done), "snapshot" \in done,
         \/ /\ "registry" \in done /\ ("token" \in done => "revoke" \in done) /\ crashes' = crashes
         \/ "registry" \notin done /\ crashes < MaxCrashes /\ crashes' = crashes + 1
  PROVE  UnderwritingInv'
<1> DEFINE n == Len(snapshots)
<1>1. /\ n \in Nat /\ DOMAIN snapshots = 1..n /\ snapshots \in Seq(Snapshot) /\ crashes \in Nat
      /\ p \in Policies /\ registry \in [Policies -> Entry \cup {Unregistered}]
      /\ crashes \in 0..MaxCrashes /\ Chained(snapshots)
  BY SnapshotsAre, RegisteredAre DEF UnderwritingInv, UTypeOK, ThreadsHold
<1>2. /\ row.policy = p /\ row.prev = registry[p].thread
      /\ entry.band = row.band /\ entry.discount = row.discount /\ entry.thread = n + 1
      /\ snapshots' = Append(snapshots, row)
      /\ registry' = IF "registry" \notin done THEN registry ELSE [registry EXCEPT ![p] = entry]
  BY DEF Writes
<1>3. /\ Len(snapshots') = n + 1 /\ DOMAIN snapshots' = 1..(n + 1)
      /\ snapshots'[n + 1] = row /\ \A s \in 1..n : snapshots'[s] = snapshots[s]
      /\ snapshots' \in Seq(Snapshot)
  BY <1>1, <1>2
<1> HIDE DEF n
<1>4. /\ tokens' \in Seq(TokenRow)
      /\ \A t \in DOMAIN tokens' : tokens'[t].snapshot \in 1..(n + 1)
      /\ Cardinality(Issued') <= 1 + crashes'
  BY AuditedTokens DEF Writes, n
<1>5. Registered' = Registered /\ registry' \in [Policies -> Entry \cup {Unregistered}]
      /\ \A q \in Registered : registry'[q] = IF q = p /\ "registry" \in done THEN entry ELSE registry[q]
  BY <1>1, <1>2, RegisteredAre, EntriesAreRegistered DEF Registered
<1>6. \A q \in Registered : ThreadEnds(q) /\ registry[q].thread \in 0..n
  BY DEF UnderwritingInv, ThreadsHold, ThreadEnds, n
<1>7. Chained(snapshots')
  <2> SUFFICES ASSUME NEW i \in 1..(n + 1) PROVE snapshots'[i].prev \in 0..(i - 1)
    BY <1>3 DEF Chained
  <2>1. CASE i \in 1..n
    BY <1>1, <1>3, <2>1 DEF Chained, n
  <2>2. CASE i = n + 1
    BY <1>1, <1>2, <1>3, <1>6, <2>2
  <2> QED BY <1>1, <2>1, <2>2
<1>8. \A i \in 0..n : Thread(snapshots', i) = Thread(snapshots, i)
  <2>1. Len(snapshots') \in Nat /\ Len(snapshots) = n /\ Len(snapshots) <= Len(snapshots')
        /\ \A i \in 1..Len(snapshots) : snapshots'[i].prev = snapshots[i].prev
    BY <1>1, <1>3 DEF n
  <2> QED BY <1>1, <1>7, <2>1, ThreadKept
<1>9. Thread(snapshots', n + 1) = {n + 1} \cup Thread(snapshots, registry[p].thread)
  <2>1. Len(snapshots') \in Nat /\ n + 1 \in 1..Len(snapshots') /\ snapshots'[n + 1].prev = registry[p].thread
    BY <1>1, <1>2, <1>3
  <2>2. Thread(snapshots', n + 1) = {n + 1} \cup Thread(snapshots', registry[p].thread)
    BY <1>7, <2>1, ThreadIs
  <2> QED BY <1>6, <1>8, <2>2
<1>10. \A i \in 0..n : Thread(snapshots, i) \subseteq 1..n
  <2>1. \A i \in 0..n : Thread(snapshots, i) \subseteq 1..i
    BY <1>1, ThreadWithin DEF n
  <2> QED BY <1>1, <2>1
<1>11. ASSUME NEW q \in Policies PROVE Audits(q)' = Audits(q) \cup (IF q = p THEN {n + 1} ELSE {})
  <2>1. \A s \in 1..n : snapshots'[s].policy = snapshots[s].policy
    BY <1>3
  <2>2. snapshots'[n + 1].policy = p
    BY <1>2, <1>3
  <2>3. \A s \in 1..(n + 1) : s \in 1..n \/ s = n + 1
    BY <1>1
  <2>4. \A s \in 1..n : s \in 1..(n + 1)
    BY <1>1
  <2>5. n + 1 \in 1..(n + 1)
    BY <1>1
  <2> QED BY <1>1, <1>3, <2>1, <2>2, <2>3, <2>4, <2>5 DEF Audits
<1>12. \A s \in Audits(p) : s \in 1..n
  BY <1>1 DEF Audits
<1>13. ASSUME NEW q \in Registered PROVE ThreadEnds(q)'
  <2>0. q \in Policies
    BY DEF Registered
  <2>1. CASE q = p /\ "registry" \in done
    <3>1. registry'[q] = entry /\ crashes' = crashes
      BY <1>5, <2>1
    <3>2. registry'[q].thread \in 0..Len(snapshots')
      BY <1>1, <1>2, <1>3, <3>1
    <3>3. /\ registry'[q].band = snapshots'[registry'[q].thread].band
          /\ registry'[q].discount = snapshots'[registry'[q].thread].discount
      BY <1>2, <1>3, <3>1
    <3>4. \A s \in Thread(snapshots', n + 1) : snapshots'[s].policy = q
      <4>1. \A s \in Thread(snapshots, registry[p].thread) : snapshots[s].policy = q /\ s \in 1..n
        BY <1>6, <1>10, <2>1 DEF ThreadEnds
      <4>2. \A s \in Thread(snapshots, registry[p].thread) : snapshots'[s].policy = q
        BY <1>3, <4>1
      <4>3. snapshots'[n + 1].policy = q
        BY <1>2, <1>3, <2>1
      <4> QED BY <1>9, <4>2, <4>3
    <3>5. \A s \in Audits(q)' : s <= registry'[q].thread
      BY <1>1, <1>2, <1>11, <1>12, <2>0, <2>1, <3>1
    <3> QED BY <1>2, <3>1, <3>2, <3>3, <3>4, <3>5 DEF ThreadEnds
  <2>2. CASE ~(q = p /\ "registry" \in done)
    <3>1. registry'[q] = registry[q] /\ registry[q].thread \in 0..n
      BY <1>5, <1>6, <2>2
    <3>2. registry'[q].thread \in 0..Len(snapshots')
      BY <1>1, <1>3, <3>1
    <3>3. registry'[q].thread # Nothing =>
            /\ registry'[q].band = snapshots'[registry'[q].thread].band
            /\ registry'[q].discount = snapshots'[registry'[q].thread].discount
      BY <1>1, <1>3, <1>6, <3>1 DEF ThreadEnds, Nothing
    <3>4. \A s \in Thread(snapshots', registry'[q].thread) : snapshots'[s].policy = q
      BY <1>3, <1>6, <1>8, <1>10, <3>1 DEF ThreadEnds
    <3>5. crashes' = 0 => q # p /\ crashes = 0
      BY <1>1, <2>2
    <3>6. crashes' = 0 => \A s \in Audits(q)' : s <= registry'[q].thread
      BY <1>6, <1>11, <2>0, <3>1, <3>5 DEF ThreadEnds
    <3> QED BY <3>2, <3>3, <3>4, <3>6 DEF ThreadEnds
  <2> QED BY <2>1, <2>2
<1>14. Woven \subseteq 1..n
  BY <1>6, <1>10 DEF Woven
<1>15. IsFiniteSet(Woven) /\ Cardinality(Woven) \in Nat
  <2>1. IsFiniteSet(1..n)
    BY <1>1, FS_Interval
  <2> QED BY <1>14, <2>1, FS_Subset, FS_CardinalityType
<1>16. Woven' = Woven \cup (IF "registry" \in done THEN {n + 1} ELSE {})
  <2> DEFINE of(q) == Thread(snapshots', registry'[q].thread)
             was(q) == Thread(snapshots, registry[q].thread)
  <2>1. \A q \in Registered : of(q) = IF q = p /\ "registry" \in done THEN {n + 1} \cup was(q) ELSE was(q)
    BY <1>2, <1>5, <1>6, <1>8, <1>9
  <2>2. Woven' = UNION {of(q) : q \in Registered}
    BY <1>5 DEF Woven
  <2>3. Woven = UNION {was(q) : q \in Registered}
    BY DEF Woven
  <2> HIDE DEF of, was
  <2> QED BY <2>1, <2>2, <2>3
<1>17. Len(snapshots') - Cardinality(Woven') <= crashes'
  <2>1. n - Cardinality(Woven) <= crashes
    BY DEF UnderwritingInv, ThreadsHold, n
  <2>2. CASE "registry" \in done
    <3>1. n + 1 \notin Woven
      BY <1>1, <1>14
    <3>2. Cardinality(Woven') = Cardinality(Woven) + 1
      BY <1>15, <1>16, <2>2, <3>1, FS_AddElement
    <3> QED BY <1>1, <1>3, <1>15, <2>1, <2>2, <3>2
  <2>3. CASE "registry" \notin done
    BY <1>1, <1>3, <1>15, <1>16, <2>1, <2>3
  <2> QED BY <2>2, <2>3
<1>18. ASSUME NEW q \in Policies, q \notin Registered' PROVE Audits(q)' = {}
  BY <1>5, <1>11, <1>18 DEF UnderwritingInv, ThreadsHold
<1>19. crashes' \in 0..MaxCrashes
  BY <1>1, UnderwritingAssumption
<1>20. UTypeOK'
  BY <1>3, <1>4, <1>5, <1>19 DEF UTypeOK
<1>21. ThreadsHold'
  BY <1>3, <1>4, <1>5, <1>7, <1>13, <1>17, <1>18 DEF ThreadsHold
<1> QED BY <1>4, <1>20, <1>21 DEF UnderwritingInv
\* Tokens are spent, expire or stay; nothing else of underwriting changes but the crashes.
LEMMA TokensChange ==
  ASSUME UnderwritingInv, registry' = registry, snapshots' = snapshots,
         crashes' = crashes \/ (crashes < MaxCrashes /\ crashes' = crashes + 1),
         tokens' \in Seq(TokenRow), DOMAIN tokens' = DOMAIN tokens,
         \A t \in DOMAIN tokens : /\ tokens'[t].snapshot = tokens[t].snapshot
                                  /\ tokens'[t].status = "issued" => tokens[t].status = "issued"
  PROVE  UnderwritingInv'
<1>1. /\ crashes \in 0..MaxCrashes /\ crashes \in Nat /\ crashes' \in 0..MaxCrashes /\ crashes <= crashes'
      /\ (crashes' = 0 => crashes = 0) /\ crashes' \in Nat
      /\ Len(snapshots) \in Nat /\ Len(tokens) \in Nat /\ DOMAIN tokens = 1..Len(tokens)
  BY SnapshotsAre, UnderwritingAssumption DEF UnderwritingInv, UTypeOK
<1>2. IsFiniteSet(Issued) /\ Issued' \subseteq Issued /\ Cardinality(Issued) \in Nat
      /\ Cardinality(Issued') \in Nat /\ Cardinality(Issued') <= Cardinality(Issued)
  <2>1. Issued \subseteq 1..Len(tokens) /\ Issued' \subseteq Issued
    BY <1>1 DEF Issued
  <2>2. IsFiniteSet(1..Len(tokens))
    BY <1>1, FS_Interval
  <2> QED BY <2>1, <2>2, FS_Subset, FS_CardinalityType
<1>3. Cardinality(Issued') <= 1 + crashes'
  BY <1>1, <1>2 DEF UnderwritingInv
<1>4. UTypeOK'
  BY <1>1 DEF UnderwritingInv, UTypeOK
<1>5. ThreadsHold'
  <2>1. \A p \in Registered : ThreadEnds(p)'
    <3> SUFFICES ASSUME NEW p \in Registered PROVE ThreadEnds(p)'
      OBVIOUS
    <3>1. ThreadEnds(p)
      BY DEF UnderwritingInv, ThreadsHold
    <3> QED BY <1>1, <3>1 DEF ThreadEnds, Audits
  <2>2. Woven' = Woven /\ Registered' = Registered
    BY DEF Woven, Registered
  <2>3. \A p \in Policies : Audits(p)' = Audits(p)
    BY DEF Audits
  <2>4. Cardinality(Woven) \in Nat
    <3>1. Chained(snapshots) /\ \A p \in Registered : registry[p].thread \in 0..Len(snapshots)
      BY DEF UnderwritingInv, ThreadsHold, ThreadEnds
    <3>2. \A i \in 0..Len(snapshots) : Thread(snapshots, i) \subseteq 1..i
      BY <1>1, <3>1, ThreadWithin
    <3>3. Woven \subseteq 1..Len(snapshots)
      BY <1>1, <3>1, <3>2 DEF Woven
    <3>4. PICK n \in Nat : n = Len(snapshots)
      BY <1>1
    <3>5. IsFiniteSet(1..n)
      BY FS_Interval
    <3> QED BY <3>3, <3>4, <3>5, FS_Subset, FS_CardinalityType
  <2>5. Len(snapshots) - Cardinality(Woven) <= crashes'
    BY <1>1, <2>4 DEF UnderwritingInv, ThreadsHold
  <2>6. Chained(snapshots') /\ \A t \in DOMAIN tokens' : tokens'[t].snapshot \in DOMAIN snapshots'
    BY DEF UnderwritingInv, ThreadsHold
  <2>7. \A p \in Policies : p \notin Registered' => Audits(p)' = {}
    BY <2>2, <2>3 DEF UnderwritingInv, ThreadsHold
  <2>8. Len(snapshots') - Cardinality(Woven') <= crashes'
    BY <2>2, <2>5
  <2> QED BY <2>1, <2>2, <2>6, <2>7, <2>8 DEF ThreadsHold
<1> QED BY <1>3, <1>4, <1>5 DEF UnderwritingInv

\* A token's row with another status, expiry or invoice.
LEMMA TokensUpdated ==
  ASSUME UnderwritingInv, NEW t \in DOMAIN tokens, NEW row \in TokenRow,
         row.snapshot = tokens[t].snapshot, row.status = "issued" => tokens[t].status = "issued",
         tokens' = [tokens EXCEPT ![t] = row]
  PROVE  /\ tokens' \in Seq(TokenRow) /\ DOMAIN tokens' = DOMAIN tokens
         /\ \A u \in DOMAIN tokens : /\ tokens'[u].snapshot = tokens[u].snapshot
                                     /\ tokens'[u].status = "issued" => tokens[u].status = "issued"
<1>1. tokens \in Seq(TokenRow) /\ DOMAIN tokens = 1..Len(tokens) /\ Len(tokens) \in Nat
  BY SnapshotsAre DEF UnderwritingInv, UTypeOK
<1>2. /\ tokens' \in Seq(TokenRow) /\ DOMAIN tokens' = DOMAIN tokens
      /\ \A u \in DOMAIN tokens : tokens'[u] = IF u = t THEN row ELSE tokens[u]
  BY <1>1
<1> QED BY <1>2

LEMMA RegisterKeeps ==
  ASSUME UnderwritingInv, NEW p \in Policies, Register(p)
  PROVE  UnderwritingInv'
<1> DEFINE e == [band |-> "AMBER", score |-> 50, discount |-> Nothing, thread |-> Nothing, clean |-> 0]
<1>1. e \in Entry /\ e.thread = Nothing
  BY DEF Entry, Bands, Discounts, Nothing
<1>2. p \notin Registered /\ registry' = [registry EXCEPT ![p] = e]
      /\ UNCHANGED <<snapshots, tokens, crashes>>
  BY DEF Register, Registered
<1> HIDE DEF e
<1>3. /\ Registered' = Registered \cup {p} /\ registry' \in [Policies -> Entry \cup {Unregistered}]
      /\ registry'[p] = e /\ \A q \in Registered : registry'[q] = registry[q]
  BY <1>1, <1>2, EntriesAreRegistered DEF UnderwritingInv, UTypeOK, Registered
<1>4. /\ Len(snapshots) \in Nat /\ Chained(snapshots) /\ Audits(p) = {}
      /\ \A q \in Registered : ThreadEnds(q)
  BY <1>2, SnapshotsAre DEF UnderwritingInv, ThreadsHold
<1>5. Thread(snapshots, 0) = {}
  BY <1>4, ThreadIs
<1>6. ASSUME NEW q \in Registered' PROVE ThreadEnds(q)'
  <2>1. CASE q = p
    BY <1>1, <1>2, <1>3, <1>4, <1>5, <2>1 DEF ThreadEnds, Audits, Nothing
  <2>2. CASE q # p
    BY <1>2, <1>3, <1>4, <2>2 DEF ThreadEnds, Audits
  <2> QED BY <2>1, <2>2
<1>7. Woven' = Woven
  BY <1>1, <1>2, <1>3, <1>5 DEF Woven, Nothing
<1>8. Issued' = Issued /\ \A q \in Policies : Audits(q)' = Audits(q)
  BY <1>2 DEF Issued, Audits
<1>9. UTypeOK'
  BY <1>2, <1>3 DEF UnderwritingInv, UTypeOK
<1>10. \A q \in Policies : q \notin Registered' => Audits(q)' = {}
  BY <1>3, <1>8 DEF UnderwritingInv, ThreadsHold
<1>11. ThreadsHold'
  BY <1>2, <1>6, <1>7, <1>10 DEF UnderwritingInv, ThreadsHold
<1> QED BY <1>2, <1>8, <1>9, <1>11 DEF UnderwritingInv

LEMMA UnderwritingKept ==
  ASSUME UnderwritingInv, UNext \/ UNCHANGED uvars
  PROVE  UnderwritingInv'
<1>1. ASSUME NEW p \in Policies, Register(p) PROVE UnderwritingInv'
  BY <1>1, RegisterKeeps
<1>2. ASSUME NEW p \in Policies, NEW x \in Measurements, Audit(p, x) PROVE UnderwritingInv'
  <2> DEFINE done == {CommitsOf(x)[i] : i \in DOMAIN CommitsOf(x)}
  <2>1. p \in Registered /\ Audited(p, x, done) /\ crashes' = crashes
    BY <1>2 DEF Audit
  <2>2. "snapshot" \in done /\ "registry" \in done /\ ("token" \in done => "revoke" \in done)
    <3>1. PICK discount : CommitsOf(x) = Commits(discount)
      BY DEF CommitsOf
    <3> QED BY <3>1, DoneWhole
  <2> HIDE DEF done
  <2>3. PICK row \in Snapshot, entry \in Entry, token \in TokenRow : Writes(p, row, entry, token, done)
    BY <2>1, AuditWrites DEF UnderwritingInv
  <2> QED BY <2>1, <2>2, <2>3, AuditKeeps
<1>3. ASSUME NEW p \in Policies, NEW x \in Measurements, NEW n \in 1..4, AuditCutShort(p, x, n)
      PROVE  UnderwritingInv'
  <2> DEFINE done == {CommitsOf(x)[i] : i \in 1..n}
  <2>1. /\ p \in Registered /\ Audited(p, x, done) /\ crashes < MaxCrashes /\ crashes' = crashes + 1
        /\ n < Len(CommitsOf(x))
    BY <1>3 DEF AuditCutShort
  <2>2. "snapshot" \in done /\ "registry" \notin done
    <3>1. PICK discount : CommitsOf(x) = Commits(discount)
      BY DEF CommitsOf
    <3>2. n < Len(Commits(discount)) /\ done = {Commits(discount)[i] : i \in 1..n}
      BY <2>1, <3>1
    <3> HIDE DEF done
    <3> QED BY <3>2, DoneInPart
  <2> HIDE DEF done
  <2>3. PICK row \in Snapshot, entry \in Entry, token \in TokenRow : Writes(p, row, entry, token, done)
    BY <2>1, AuditWrites DEF UnderwritingInv
  <2> QED BY <2>1, <2>2, <2>3, AuditKeeps
<1>4. ASSUME NEW t \in DOMAIN tokens, TokenExpires(t) PROVE UnderwritingInv'
  <2> DEFINE row == [tokens[t] EXCEPT !.expired = TRUE]
  <2>1. tokens[t] \in TokenRow
    BY SnapshotsAre DEF UnderwritingInv
  <2>2. row \in TokenRow /\ row.snapshot = tokens[t].snapshot /\ row.status = tokens[t].status
    BY <2>1 DEF TokenRow
  <2>3. tokens' = [tokens EXCEPT ![t] = row] /\ UNCHANGED <<registry, snapshots, crashes>>
    BY <1>4 DEF TokenExpires
  <2> HIDE DEF row
  <2>4. /\ tokens' \in Seq(TokenRow) /\ DOMAIN tokens' = DOMAIN tokens
        /\ \A u \in DOMAIN tokens : /\ tokens'[u].snapshot = tokens[u].snapshot
                                    /\ tokens'[u].status = "issued" => tokens[u].status = "issued"
    BY <2>2, <2>3, TokensUpdated
  <2> QED BY <2>3, <2>4, TokensChange
<1>5. CASE UNCHANGED uvars
  <2>1. UNCHANGED <<registry, snapshots, tokens, crashes>> /\ tokens \in Seq(TokenRow)
    BY <1>5 DEF uvars, UnderwritingInv, UTypeOK
  <2> QED BY <2>1, TokensChange
<1> QED BY <1>1, <1>2, <1>3, <1>4, <1>5 DEF UNext
LEMMA UnderwritingStarts == ASSUME UInit PROVE UnderwritingInv
<1>1. /\ snapshots = <<>> /\ tokens = <<>> /\ crashes = 0 /\ Registered = {}
      /\ registry \in [Policies -> Entry \cup {Unregistered}]
  BY DEF UInit, Registered
<1>2. snapshots \in Seq(Snapshot) /\ tokens \in Seq(TokenRow) /\ Len(snapshots) = 0
      /\ DOMAIN snapshots = {} /\ DOMAIN tokens = {}
  BY <1>1
<1>3. Woven = {} /\ Issued = {} /\ \A p \in Policies : Audits(p) = {}
  BY <1>1, <1>2 DEF Woven, Issued, Audits
<1>4. Cardinality({}) = 0
  BY FS_EmptySet
<1>5. UTypeOK
  BY <1>1, <1>2, UnderwritingAssumption DEF UTypeOK
<1>6. ThreadsHold
  BY <1>1, <1>2, <1>3, <1>4 DEF ThreadsHold, Chained
<1> QED BY <1>1, <1>3, <1>4, <1>5, <1>6 DEF UnderwritingInv

LEMMA OneTokenFollows == ASSUME UnderwritingInv PROVE OneUsableToken
<1>1. {t \in DOMAIN tokens : Usable(t)} \subseteq Issued /\ Issued \subseteq 1..Len(tokens)
      /\ Len(tokens) \in Nat /\ crashes \in Nat
  BY SnapshotsAre DEF UnderwritingInv, Usable, Issued
<1>2. IsFiniteSet(Issued)
  <2>1. PICK n \in Nat : n = Len(tokens)
    BY <1>1
  <2>2. IsFiniteSet(1..n)
    BY FS_Interval
  <2> QED BY <1>1, <2>1, <2>2, FS_Subset
<1>3. /\ Cardinality({t \in DOMAIN tokens : Usable(t)}) <= Cardinality(Issued)
      /\ Cardinality({t \in DOMAIN tokens : Usable(t)}) \in Nat /\ Cardinality(Issued) \in Nat
  BY <1>1, <1>2, FS_Subset, FS_CardinalityType
<1>4. Cardinality(Issued) <= 1 + crashes
  BY DEF UnderwritingInv
<1> QED BY <1>1, <1>3, <1>4 DEF OneUsableToken

LEMMA OnThreadIs ==
  ASSUME NEW p
  PROVE  OnThread(p) = Thread(snapshots, registry[p].thread)
BY DEF OnThread, Thread, Threads, Nothing
LEMMA GoldenThreadFollows == ASSUME UnderwritingInv PROVE GoldenThread
<1>1. /\ Len(snapshots) \in Nat /\ DOMAIN snapshots = 1..Len(snapshots) /\ Chained(snapshots)
      /\ \A p \in Registered : ThreadEnds(p)
  BY SnapshotsAre DEF UnderwritingInv, ThreadsHold
<1>2. \A p \in Registered : registry[p].thread \in 0..Len(snapshots)
  BY <1>1 DEF ThreadEnds
<1>3. \A p \in Registered : \A s \in OnThread(p) : snapshots[s].policy = p
  BY <1>1, OnThreadIs DEF ThreadEnds
<1>4. ASSUME NEW p \in Registered, crashes = 0 PROVE Certificate(p).thread
  <2>1. Certificate(p).thread = (Audits(p) = {} \/ Max(Audits(p)) = registry[p].thread)
    BY DEF Certificate, Audits
  <2>2. CASE Audits(p) # {}
    <3> DEFINE end == registry[p].thread
    <3>1. end \in 0..Len(snapshots) /\ \A s \in Audits(p) : s <= end
      BY <1>1, <1>4 DEF ThreadEnds
    <3>2. PICK s \in Audits(p) : s \in 1..Len(snapshots)
      BY <1>1, <2>2 DEF Audits
    <3>3. end \in 1..Len(snapshots)
      BY <1>1, <3>1, <3>2
    <3>4. end \in Thread(snapshots, end)
      BY <1>1, <3>3, ThreadIs
    <3>5. end \in Audits(p)
      BY <1>1, <3>3, <3>4 DEF ThreadEnds, Audits
    <3>6. Audits(p) \subseteq 1..Len(snapshots)
      BY <1>1 DEF Audits
    <3> HIDE DEF end
    <3>7. \A x \in Audits(p) : (\A y \in Audits(p) : x >= y) => x = end
      BY <1>1, <3>1, <3>5, <3>6
    <3>8. \A y \in Audits(p) : end >= y
      BY <1>1, <3>1, <3>6
    <3>9. Max(Audits(p)) = end
      BY <3>5, <3>7, <3>8 DEF Max
    <3> QED BY <2>1, <3>9 DEF end
  <2> QED BY <2>1, <2>2
<1>5. ASSUME NEW p \in Registered PROVE \A t \in Certificate(p).tokens : tokens[t].snapshot \in DOMAIN snapshots
  <2>1. Certificate(p).tokens = {t \in DOMAIN tokens : Usable(t)}
    BY DEF Certificate
  <2> QED BY <2>1 DEF UnderwritingInv, ThreadsHold
<1>6. UNION {OnThread(p) : p \in Registered} = Woven
  BY OnThreadIs DEF Woven
<1>7. Len(snapshots) - Cardinality(UNION {OnThread(p) : p \in Registered}) <= crashes
  BY <1>6 DEF UnderwritingInv, ThreadsHold
<1>8. \A p \in Registered : registry[p].thread <= Len(snapshots)
  BY <1>1, <1>2
<1>9. \A p \in Registered : registry[p].thread # Nothing =>
         /\ registry[p].band = snapshots[registry[p].thread].band
         /\ registry[p].discount = snapshots[registry[p].thread].discount
  BY <1>1 DEF ThreadEnds
<1> QED BY <1>3, <1>4, <1>5, <1>7, <1>8, <1>9 DEF GoldenThread

-----------------------------------------------------------------------------
(* Billing: what the lines of an invoice come to. *)

Debits(lines) == {j \in DOMAIN lines : ~lines[j].credit}
Credits(lines) == {j \in DOMAIN lines : lines[j].credit}
Charged(lines) == Sum([j \in Debits(lines) |-> lines[j].amount], Debits(lines))
Given(lines) == Sum([j \in Credits(lines) |-> Magnitude(lines[j].amount)], Credits(lines))

Due(lines) == Charged(lines) - Given(lines)

LEMMA MagnitudeIs == \A n \in Int : Magnitude(n) \in Int /\ Magnitude(-n) = Magnitude(n) /\ (n >= 0 => Magnitude(n) = n)
  BY DEF Magnitude

LEMMA DueIsInt ==
  ASSUME NEW lines \in Seq(Line)
  PROVE  /\ IsFiniteSet(Debits(lines)) /\ IsFiniteSet(Credits(lines))
         /\ Charged(lines) \in Int /\ Given(lines) \in Int
<1>1. PICK n \in Nat : n = Len(lines) /\ DOMAIN lines = 1..n
  BY LenProperties
<1>2. IsFiniteSet(1..n)
  BY FS_Interval
<1>3. IsFiniteSet(Debits(lines)) /\ IsFiniteSet(Credits(lines))
  <2>1. Debits(lines) \subseteq 1..n /\ Credits(lines) \subseteq 1..n
    BY <1>1 DEF Debits, Credits
  <2> QED BY <1>2, <2>1, FS_Subset
<1>4. \A j \in DOMAIN lines : lines[j].amount \in Int /\ Magnitude(lines[j].amount) \in Int
  <2>1. \A j \in DOMAIN lines : lines[j] \in Line
    BY <1>1, ElementOfSeq
  <2> QED BY <2>1, MagnitudeIs DEF Line
<1>5. Charged(lines) \in Int
  <2> DEFINE g == [j \in Debits(lines) |-> lines[j].amount]
  <2>1. \A j \in Debits(lines) : g[j] \in Int
    BY <1>4 DEF Debits
  <2> HIDE DEF g
  <2>2. Sum(g, Debits(lines)) \in Int
    BY <1>3, <2>1, SumIsInt
  <2> QED BY <2>2 DEF g, Charged
<1>6. Given(lines) \in Int
  <2> DEFINE g == [j \in Credits(lines) |-> Magnitude(lines[j].amount)]
  <2>1. \A j \in Credits(lines) : g[j] \in Int
    BY <1>4 DEF Credits
  <2> HIDE DEF g
  <2>2. Sum(g, Credits(lines)) \in Int
    BY <1>3, <2>1, SumIsInt
  <2> QED BY <2>2 DEF g, Given
<1> QED BY <1>3, <1>5, <1>6

LEMMA DueEmpty == Due(<<>>) = 0
<1>1. Debits(<<>>) = {} /\ Credits(<<>>) = {}
  BY DEF Debits, Credits
<1>2. Charged(<<>>) = 0 /\ Given(<<>>) = 0
  BY <1>1, SumEmpty DEF Charged, Given
<1> QED BY <1>2 DEF Due

\* One element more, and the terms of the others are what they were.
OneMore(S, x, T, g, h) ==
  /\ IsFiniteSet(S) /\ x \notin S /\ T = S \cup {x}
  /\ \A y \in T : h[y] \in Int
  /\ \A y \in S : g[y] = h[y]

LEMMA SumOneMore ==
  ASSUME NEW S, NEW x, NEW T, NEW g, NEW h, OneMore(S, x, T, g, h)
  PROVE  Sum(h, T) = Sum(g, S) + h[x]
<1>1. Sum(h, S \cup {x}) = h[x] + Sum(h, S)
  BY SumAdd DEF OneMore
<1>2. Sum(h, S) = Sum(g, S)
  BY SumSame DEF OneMore
<1>3. Sum(h, S) \in Int /\ h[x] \in Int
  BY SumIsInt DEF OneMore
<1> QED BY <1>1, <1>2, <1>3 DEF OneMore

LEMMA DueAppend ==
  ASSUME NEW lines \in Seq(Line), NEW line \in Line
  PROVE  Due(Append(lines, line))
           = Due(lines) + (IF line.credit THEN -Magnitude(line.amount) ELSE line.amount)
<1>1. PICK n \in Nat : n = Len(lines) /\ DOMAIN lines = 1..n
  BY LenProperties
<1>a. Append(lines, line) \in Seq(Line)
  OBVIOUS
<1>2. PICK more \in Seq(Line) : more = Append(lines, line)
  BY <1>a
<1>3. /\ DOMAIN more = 1..(n + 1) /\ more[n + 1] = line /\ \A j \in 1..n : more[j] = lines[j]
  BY <1>1, <1>2
<1>4. \A j \in DOMAIN more : more[j].amount \in Int /\ Magnitude(more[j].amount) \in Int
  <2>1. \A j \in DOMAIN more : more[j] \in Line
    BY LenProperties, ElementOfSeq
  <2> QED BY <2>1, MagnitudeIs DEF Line
<1>5. /\ IsFiniteSet(Debits(lines)) /\ IsFiniteSet(Credits(lines))
      /\ Charged(lines) \in Int /\ Given(lines) \in Int
  BY DueIsInt
<1>6. n + 1 \notin Debits(lines) /\ n + 1 \notin Credits(lines)
  BY <1>1 DEF Debits, Credits
<1>7. \A j \in Debits(lines) : more[j] = lines[j]
  BY <1>1, <1>3 DEF Debits
<1>8. \A j \in Credits(lines) : more[j] = lines[j]
  BY <1>1, <1>3 DEF Credits
<1> DEFINE g == [j \in Debits(lines) |-> lines[j].amount]
           h == [j \in Debits(more) |-> more[j].amount]
           c == [j \in Credits(lines) |-> Magnitude(lines[j].amount)]
           d == [j \in Credits(more) |-> Magnitude(more[j].amount)]
<1>9. CASE line.credit
  <2>1. Debits(more) = Debits(lines) /\ Credits(more) = Credits(lines) \cup {n + 1}
    BY <1>1, <1>3, <1>9 DEF Debits, Credits
  <2>2. \A j \in Debits(lines) : g[j] = h[j]
    BY <1>7, <2>1
  <2>3. Charged(more) = Charged(lines)
    <3>1. Charged(more) = Sum(h, Debits(lines)) /\ Charged(lines) = Sum(g, Debits(lines))
      BY <2>1 DEF Charged
    <3> HIDE DEF g, h
    <3> QED BY <1>5, <2>2, <3>1, SumSame
  <2>4. (\A j \in Credits(lines) : c[j] = d[j]) /\ d[n + 1] = Magnitude(line.amount)
    BY <1>3, <1>8, <2>1
  <2>5. \A j \in Credits(lines) \cup {n + 1} : d[j] \in Int
    BY <1>4, <2>1 DEF Credits
  <2>6. Given(more) = Given(lines) + Magnitude(line.amount)
    <3>1. Given(more) = Sum(d, Credits(lines) \cup {n + 1}) /\ Given(lines) = Sum(c, Credits(lines))
      BY <2>1 DEF Given
    <3> HIDE DEF c, d
    <3>2. PICK m, S, T : m = n + 1 /\ S = Credits(lines) /\ T = S \cup {m}
      OBVIOUS
    <3>3. OneMore(S, m, T, c, d)
      BY <1>5, <1>6, <2>4, <2>5, <3>2 DEF OneMore
    <3>4. Sum(d, T) = Sum(c, S) + d[m]
      BY <3>3, SumOneMore
    <3> QED BY <2>4, <3>1, <3>2, <3>4
  <2>7. Magnitude(line.amount) \in Int
    BY MagnitudeIs DEF Line
  <2> QED BY <1>2, <1>5, <1>9, <2>3, <2>6, <2>7 DEF Due
<1>10. CASE ~line.credit
  <2>1. Credits(more) = Credits(lines) /\ Debits(more) = Debits(lines) \cup {n + 1}
    BY <1>1, <1>3, <1>10 DEF Debits, Credits
  <2>2. \A j \in Credits(lines) : c[j] = d[j]
    BY <1>8, <2>1
  <2>3. Given(more) = Given(lines)
    <3>1. Given(more) = Sum(d, Credits(lines)) /\ Given(lines) = Sum(c, Credits(lines))
      BY <2>1 DEF Given
    <3> HIDE DEF c, d
    <3> QED BY <1>5, <2>2, <3>1, SumSame
  <2>4. (\A j \in Debits(lines) : g[j] = h[j]) /\ h[n + 1] = line.amount
    BY <1>3, <1>7, <2>1
  <2>5. \A j \in Debits(lines) \cup {n + 1} : h[j] \in Int
    BY <1>4, <2>1 DEF Debits
  <2>6. Charged(more) = Charged(lines) + line.amount
    <3>1. Charged(more) = Sum(h, Debits(lines) \cup {n + 1}) /\ Charged(lines) = Sum(g, Debits(lines))
      BY <2>1 DEF Charged
    <3> HIDE DEF g, h
    <3>2. PICK m, S, T : m = n + 1 /\ S = Debits(lines) /\ T = S \cup {m}
      OBVIOUS
    <3>3. OneMore(S, m, T, g, h)
      BY <1>5, <1>6, <2>4, <2>5, <3>2 DEF OneMore
    <3>4. Sum(h, T) = Sum(g, S) + h[m]
      BY <3>3, SumOneMore
    <3> QED BY <2>4, <3>1, <3>2, <3>4
  <2>7. line.amount \in Int
    BY DEF Line
  <2> QED BY <1>2, <1>5, <1>10, <2>3, <2>6, <2>7 DEF Due
<1> QED BY <1>9, <1>10
-----------------------------------------------------------------------------
(* Billing: an invoice. *)

Signed(line) == IF line.credit THEN -Magnitude(line.amount) ELSE line.amount

LEMMA WithLineAdds ==
  ASSUME NEW lines \in Seq(Line), NEW line \in Line, NEW quantity, quantity > 0 \/ line.amount = 0
  PROVE  /\ WithLine(lines, quantity, line) \in Seq(Line)
         /\ Due(WithLine(lines, quantity, line)) = Due(lines) + Signed(line)
<1>1. Append(lines, line) \in Seq(Line) /\ Due(Append(lines, line)) = Due(lines) + Signed(line)
  BY DueAppend DEF Signed
<1>2. line.amount = 0 => Signed(line) = 0
  BY MagnitudeIs DEF Signed
<1>3. Due(lines) \in Int
  BY DueIsInt DEF Due
<1> QED BY <1>1, <1>2, <1>3 DEF WithLine

LEMMA ItemIs ==
  ASSUME NEW type \in LineTypes, NEW amount \in Int, NEW token \in Nat, NEW credit \in BOOLEAN
  PROVE  /\ Item(type, amount, credit, token) \in Line /\ Item(type, amount, credit, token).amount = amount
         /\ credit => Signed(Item(type, amount, credit, token)) = -Magnitude(amount)
         /\ ~credit => Signed(Item(type, amount, credit, token)) = amount
  BY DEF Item, Line, Signed

Amounts(c) ==
  /\ c.fee \in Nat /\ c.overage \in Nat /\ c.premium \in Nat /\ c.discount \in Nat /\ c.tax \in Nat
  /\ c.token \in Nat /\ Overage \in Nat /\ (Overage > 0 \/ c.overage = 0)

LEMMA LinesComeTo ==
  ASSUME NEW c, Amounts(c)
  PROVE  /\ Lines(c) \in Seq(Line)
         /\ Due(Lines(c)) = c.fee + c.overage + c.premium - c.discount + c.tax
<1> DEFINE i1 == Item("base_fee", c.fee, FALSE, Nothing)
           i2 == Item("overage_runs", c.overage, FALSE, Nothing)
           i3 == Item("insurance_premium", c.premium, FALSE, Nothing)
           i4 == Item("premium_discount", -c.discount, TRUE, c.token)
           i5 == Item("tax", c.tax, FALSE, Nothing)
           l1 == WithLine(<<>>, 1, i1)
           l2 == WithLine(l1, Overage, i2)
           l3 == WithLine(l2, c.premium, i3)
           l4 == WithLine(l3, c.discount, i4)
           l5 == WithLine(l4, c.tax, i5)
<1>1. /\ c.fee \in Int /\ c.overage \in Int /\ c.premium \in Int /\ -c.discount \in Int /\ c.tax \in Int
      /\ c.token \in Nat /\ Nothing \in Nat
      /\ {"base_fee", "overage_runs", "insurance_premium", "premium_discount", "tax"} \subseteq LineTypes
  BY DEF Amounts, Nothing, LineTypes
<1>2. i1 \in Line /\ i2 \in Line /\ i3 \in Line /\ i4 \in Line /\ i5 \in Line
  BY <1>1, ItemIs
<1>3. i1.amount = c.fee /\ i2.amount = c.overage /\ i3.amount = c.premium /\ i4.amount = -c.discount
      /\ i5.amount = c.tax
  BY DEF Item
<1>4. Signed(i1) = c.fee /\ Signed(i2) = c.overage /\ Signed(i3) = c.premium /\ Signed(i5) = c.tax
  BY DEF Item, Signed
<1>5. Signed(i4) = -c.discount
  <2>1. Signed(i4) = -Magnitude(-c.discount)
    BY DEF Item, Signed
  <2>2. Magnitude(-c.discount) = c.discount
    BY MagnitudeIs DEF Amounts
  <2> QED BY <2>1, <2>2
<1>6. Lines(c) = l5
  BY DEF Lines
<1>7. /\ Overage > 0 \/ c.overage = 0
      /\ c.premium > 0 \/ c.premium = 0
      /\ c.discount > 0 \/ -c.discount = 0
      /\ c.tax > 0 \/ c.tax = 0
      /\ 1 > 0
  BY DEF Amounts
<1> HIDE DEF i1, i2, i3, i4, i5
<1>8. <<>> \in Seq(Line)
  OBVIOUS
<1>9. l1 \in Seq(Line) /\ Due(l1) = 0 + c.fee
  BY <1>2, <1>3, <1>4, <1>7, <1>8, DueEmpty, WithLineAdds
<1> HIDE DEF l1
<1>10. l2 \in Seq(Line) /\ Due(l2) = 0 + c.fee + c.overage
  BY <1>2, <1>3, <1>4, <1>7, <1>9, WithLineAdds
<1> HIDE DEF l2
<1>11. l3 \in Seq(Line) /\ Due(l3) = 0 + c.fee + c.overage + c.premium
  BY <1>2, <1>3, <1>4, <1>7, <1>10, WithLineAdds
<1> HIDE DEF l3
<1>12. l4 \in Seq(Line) /\ Due(l4) = 0 + c.fee + c.overage + c.premium + (-c.discount)
  BY <1>2, <1>3, <1>5, <1>7, <1>11, WithLineAdds
<1> HIDE DEF l4
<1>13. l5 \in Seq(Line) /\ Due(l5) = 0 + c.fee + c.overage + c.premium + (-c.discount) + c.tax
  BY <1>2, <1>3, <1>4, <1>7, <1>12, WithLineAdds
<1> HIDE DEF l5
<1>14. c.discount \in Int
  BY DEF Amounts
<1> QED BY <1>1, <1>6, <1>13, <1>14

SubRow == [fee : Nat, included : Nat, rate : Nat, count : Nat]

LEMMA CommitmentIs ==
  ASSUME UnderwritingInv, sub \in SubRow, NEW premium \in Premiums, NEW token \in BestTokens
  PROVE  LET c == Commitment(premium, token)
         IN  /\ Amounts(c) /\ c.runs \in Nat /\ c.overage = Overage * sub.rate
             /\ c.total = c.fee + c.overage + c.premium - c.discount + c.tax
             /\ c.token = token /\ (token = Nothing \/ token \in DOMAIN tokens)
<1>1. sub.fee \in Nat /\ sub.included \in Nat /\ sub.rate \in Nat /\ sub.count \in Nat
  BY DEF SubRow
<1>2. Overage \in Nat
  BY <1>1 DEF Overage
<1>3. \A a \in Nat, b \in Nat : a * b \in Nat /\ (a > 0 \/ a * b = 0)
  OBVIOUS
<1>4. PICK o \in Nat : o = Overage * sub.rate /\ (Overage > 0 \/ o = 0)
  BY <1>1, <1>2, <1>3
<1>5. premium \in Nat
  <2>1. \A p \in Registered : MonthlyPremium(p) \in Nat
    <3>1. \A p \in Registered : AnnualPremium[p] \in Nat
      BY UnderwritingAssumption DEF Registered
    <3>2. \A n \in Nat : n \div 12 \in Nat
      OBVIOUS
    <3> QED BY <3>1, <3>2 DEF MonthlyPremium
  <2> QED BY <2>1 DEF Premiums
<1>6. token = Nothing \/ token \in DOMAIN tokens
  BY DEF BestTokens
<1>7. token \in Nat
  BY <1>6, SnapshotsAre DEF UnderwritingInv, Nothing
<1>8. PICK d \in Nat : d = (IF token = Nothing THEN 0 ELSE Smaller(tokens[token].value, premium)) /\ d <= premium
  <2>1. token # Nothing => tokens[token].value \in Nat
    BY <1>6, SnapshotsAre DEF UnderwritingInv, TokenRow
  <2> QED BY <1>5, <2>1 DEF Smaller
<1>9. \A s \in Nat : Tax(s) \in Nat
  BY DEF Tax
<1>10. PICK s \in Nat : s = sub.fee + o + premium - d
  BY <1>1, <1>5, <1>8
<1>11. PICK t \in Nat : t = Tax(s)
  BY <1>9
<1>12. Commitment(premium, token)
         = [runs |-> sub.count, fee |-> sub.fee, overage |-> o, premium |-> premium,
            discount |-> d, tax |-> t, total |-> s + t, token |-> token]
  BY <1>4, <1>8, <1>10, <1>11 DEF Commitment
<1>13. Commitment(premium, token).total = sub.fee + o + premium - d + t
  BY <1>10, <1>12
<1> QED BY <1>1, <1>2, <1>4, <1>5, <1>6, <1>7, <1>12, <1>13 DEF Amounts
-----------------------------------------------------------------------------
(* Billing: the invariant. *)

Billed(list, rate) == Sum([i \in DOMAIN list |-> list[i].overage \div rate], DOMAIN list)

BillingTyped ==
  /\ sub \in SubRow \cup {Unsubscribed} /\ charges \in Nat /\ ledgers \in Seq(Ledger)
  /\ ~Subscribed => ledgers = <<>> /\ charges = 0

LedgersAdd == \A i \in DOMAIN ledgers : ledgers[i].total = Due(ledgers[i].lines) /\ ledgers[i].signed = ledgers[i].total

RunsCharged ==
  Subscribed /\ sub.rate > 0 => Billed(ledgers, sub.rate) + Overage - charges \in 0..crashes

BillingInv == UnderwritingInv /\ BillingTyped /\ LedgersAdd /\ RunsCharged

LEMMA SubIs ==
  ASSUME BillingTyped, Subscribed
  PROVE  sub \in SubRow /\ Overage \in Nat /\ sub.rate \in Nat /\ sub.count \in Nat /\ sub.included \in Nat
  BY DEF BillingTyped, Subscribed, SubRow, Overage

LEMMA RowsAreSubscribed == ASSUME NEW s \in SubRow PROVE s # Unsubscribed
<1>1. s.fee \in Nat /\ Unsubscribed.fee = -1
  BY DEF SubRow, Unsubscribed
<1> QED BY <1>1

LEMMA DivisionIs ==
  ASSUME NEW a \in Nat, NEW r \in Nat, r > 0
  PROVE  a \div r \in Int /\ (a * r) \div r = a
<1>1. a * r \in Nat
  OBVIOUS
<1>2. (a * r) \div r = a
  OBVIOUS
<1> QED BY <1>2

LEMMA LedgerRows ==
  ASSUME NEW list \in Seq(Ledger)
  PROVE  \A i \in DOMAIN list : list[i] \in Ledger /\ list[i].overage \in Nat
<1>1. \A i \in DOMAIN list : list[i] \in Ledger
  BY LenProperties, ElementOfSeq
<1>2. \A x \in Ledger : x.overage \in Nat
  BY DEF Ledger
<1> QED BY <1>1, <1>2

LEMMA BilledIsInt ==
  ASSUME NEW list \in Seq(Ledger), NEW rate \in Nat, rate > 0
  PROVE  Billed(list, rate) \in Int /\ IsFiniteSet(DOMAIN list)
<1>1. PICK n \in Nat : n = Len(list) /\ DOMAIN list = 1..n
  BY LenProperties
<1>2. IsFiniteSet(1..n)
  BY FS_Interval
<1> DEFINE g == [i \in DOMAIN list |-> list[i].overage \div rate]
<1>3. \A i \in DOMAIN list : g[i] \in Int
  <2>1. \A i \in DOMAIN list : list[i].overage \in Nat
    BY LedgerRows
  <2> QED BY <2>1, DivisionIs
<1> HIDE DEF g
<1>4. Sum(g, DOMAIN list) \in Int
  BY <1>1, <1>2, <1>3, SumIsInt
<1> QED BY <1>1, <1>2, <1>4 DEF g, Billed

LEMMA BilledAppend ==
  ASSUME NEW list \in Seq(Ledger), NEW row \in Ledger, NEW rate \in Nat, rate > 0
  PROVE  Billed(Append(list, row), rate) = Billed(list, rate) + row.overage \div rate
<1>1. PICK n \in Nat : n = Len(list) /\ DOMAIN list = 1..n
  BY LenProperties
<1>2. PICK more : more = Append(list, row)
  OBVIOUS
<1>3. DOMAIN more = 1..(n + 1) /\ more[n + 1] = row /\ \A i \in 1..n : more[i] = list[i]
  BY <1>1, <1>2
<1>4. \A i \in 1..(n + 1) : more[i].overage \in Nat
  <2>1. \A i \in 1..n : list[i].overage \in Nat
    BY <1>1, LedgerRows
  <2>2. row.overage \in Nat
    BY DEF Ledger
  <2>3. \A i \in 1..(n + 1) : i \in 1..n \/ i = n + 1
    OBVIOUS
  <2> QED BY <1>3, <2>1, <2>2, <2>3
<1> DEFINE g == [i \in DOMAIN list |-> list[i].overage \div rate]
           h == [i \in DOMAIN more |-> more[i].overage \div rate]
<1>5. PICK S, T, m : S = 1..n /\ T = 1..(n + 1) /\ m = n + 1
  OBVIOUS
<1>6. IsFiniteSet(S) /\ m \notin S /\ T = S \cup {m}
  <2>1. IsFiniteSet(1..n)
    BY FS_Interval
  <2> QED BY <1>5, <2>1
<1>7. (\A i \in T : h[i] \in Int) /\ (\A i \in S : g[i] = h[i]) /\ h[m] = row.overage \div rate
  <2>1. \A i \in T : h[i] = more[i].overage \div rate /\ more[i].overage \in Nat
    BY <1>3, <1>4, <1>5
  <2>2. \A i \in S : g[i] = list[i].overage \div rate /\ more[i] = list[i] /\ i \in T
    BY <1>1, <1>3, <1>5, <1>6
  <2>3. m \in T /\ more[m] = row
    BY <1>3, <1>5, <1>6
  <2> HIDE DEF g, h
  <2>4. \A i \in T : h[i] \in Int
    BY <2>1, DivisionIs
  <2> QED BY <2>1, <2>2, <2>3, <2>4
<1>8. Billed(more, rate) = Sum(h, T) /\ Billed(list, rate) = Sum(g, S)
  BY <1>1, <1>3, <1>5 DEF Billed
<1> HIDE DEF g, h
<1>9. OneMore(S, m, T, g, h)
  BY <1>6, <1>7 DEF OneMore
<1>10. Sum(h, T) = Sum(g, S) + h[m]
  BY <1>9, SumOneMore
<1> QED BY <1>2, <1>7, <1>8, <1>10

\* A token applied to an invoice changes no overage.
LEMMA BilledSame ==
  ASSUME NEW list \in Seq(Ledger), NEW more, DOMAIN more = DOMAIN list,
         \A i \in DOMAIN list : more[i].overage = list[i].overage, NEW rate \in Nat, rate > 0
  PROVE  Billed(more, rate) = Billed(list, rate)
<1> DEFINE g == [i \in DOMAIN list |-> list[i].overage \div rate]
           h == [i \in DOMAIN list |-> more[i].overage \div rate]
<1>1. IsFiniteSet(DOMAIN list) /\ \A i \in DOMAIN list : h[i] = g[i]
  BY BilledIsInt
<1>2. Billed(more, rate) = Sum(h, DOMAIN list) /\ Billed(list, rate) = Sum(g, DOMAIN list)
  BY DEF Billed
<1> HIDE DEF g, h
<1> QED BY <1>1, <1>2, SumSame

LEMMA NothingBilled == ASSUME NEW rate PROVE Billed(<<>>, rate) = 0
<1>1. DOMAIN <<>> = {}
  OBVIOUS
<1> QED BY <1>1, SumEmpty DEF Billed

LEMMA TotalsFollow == ASSUME BillingInv PROVE TotalsAddUp
<1> SUFFICES ASSUME NEW i \in DOMAIN ledgers
             PROVE  /\ ledgers[i].total =
                         MapThenSumSet(LAMBDA j : ledgers[i].lines[j].amount, Summary(i).debits)
                           - MapThenSumSet(LAMBDA j : Magnitude(ledgers[i].lines[j].amount), Summary(i).credits)
                    /\ Summary(i).signatureValid
  BY DEF TotalsAddUp
<1> DEFINE lines == ledgers[i].lines
<1>1. ledgers[i].total = Charged(lines) - Given(lines) /\ ledgers[i].signed = ledgers[i].total
  BY DEF BillingInv, LedgersAdd, Due
<1>2. /\ Summary(i).debits = Debits(lines) /\ Summary(i).credits = Credits(lines)
      /\ Summary(i).signatureValid = (ledgers[i].signed = ledgers[i].total)
  BY DEF Summary, Debits, Credits
<1>3. PICK S : S = Summary(i).debits
  OBVIOUS
<1>4. MapThenSumSet(LAMBDA j : ledgers[i].lines[j].amount, S) = Sum([j \in S |-> ledgers[i].lines[j].amount], S)
  BY DEF MapThenSumSet, MapThenFoldSet, Sum, Sums, First
<1>5. PICK T : T = Summary(i).credits
  OBVIOUS
<1>6. MapThenSumSet(LAMBDA j : Magnitude(ledgers[i].lines[j].amount), T)
        = Sum([j \in T |-> Magnitude(ledgers[i].lines[j].amount)], T)
  BY DEF MapThenSumSet, MapThenFoldSet, Sum, Sums, First
<1>7. Charged(lines) = Sum([j \in S |-> ledgers[i].lines[j].amount], S)
  BY <1>2, <1>3 DEF Charged
<1>8. Given(lines) = Sum([j \in T |-> Magnitude(ledgers[i].lines[j].amount)], T)
  BY <1>2, <1>5 DEF Given
<1> QED BY <1>1, <1>2, <1>3, <1>4, <1>5, <1>6, <1>7, <1>8

LEMMA OverageFollows == ASSUME BillingInv PROVE OverageBilledOnce
<1> SUFFICES ASSUME Subscribed, sub.rate > 0
             PROVE  MapThenSumSet(LAMBDA i : ledgers[i].overage \div sub.rate, DOMAIN ledgers)
                      + Overage - charges \in 0..crashes
  BY DEF OverageBilledOnce
<1>1. PICK S : S = DOMAIN ledgers
  OBVIOUS
<1>2. MapThenSumSet(LAMBDA i : ledgers[i].overage \div sub.rate, S)
        = Sum([i \in S |-> ledgers[i].overage \div sub.rate], S)
  BY DEF MapThenSumSet, MapThenFoldSet, Sum, Sums, First
<1>3. Billed(ledgers, sub.rate) = Sum([i \in S |-> ledgers[i].overage \div sub.rate], S)
  BY <1>1 DEF Billed
<1> QED BY <1>1, <1>2, <1>3 DEF BillingInv, RunsCharged
-----------------------------------------------------------------------------
(* Billing: the steps. *)

\* The engine's crashes are the only thing of underwriting that billing reads.
LEMMA CrashesGrow ==
  ASSUME UnderwritingInv, UNext \/ UNCHANGED uvars
  PROVE  crashes \in Nat /\ (crashes' = crashes \/ crashes' = crashes + 1)
<1>1. crashes \in Nat
  BY SnapshotsAre DEF UnderwritingInv
<1>2. crashes' = crashes \/ crashes' = crashes + 1
  BY DEF UNext, uvars, Register, Audit, AuditCutShort, TokenExpires
<1> QED BY <1>1, <1>2

\* A token is spent on an invoice, or none.
LEMMA SpentKeeps ==
  ASSUME UnderwritingInv, NEW t, t = Nothing \/ t \in DOMAIN tokens, NEW invoice \in Nat,
         tokens' = Spent(t, invoice), UNCHANGED <<registry, snapshots, crashes>>
  PROVE  UnderwritingInv'
<1>1. CASE t = Nothing
  <2>1. tokens' = tokens
    BY <1>1 DEF Spent
  <2> QED BY <2>1, UnderwritingKept DEF uvars
<1>2. CASE t # Nothing
  <2> DEFINE row == [tokens[t] EXCEPT !.status = "applied", !.invoice = invoice]
  <2>1. t \in DOMAIN tokens /\ tokens[t] \in TokenRow /\ tokens \in Seq(TokenRow)
    BY <1>2, SnapshotsAre DEF UnderwritingInv, UTypeOK
  <2>2. row \in TokenRow /\ row.snapshot = tokens[t].snapshot /\ row.status = "applied"
    BY <2>1 DEF TokenRow
  <2>3. tokens' = [tokens EXCEPT ![t] = row]
    BY <1>2, <2>1 DEF Spent
  <2> HIDE DEF row
  <2>4. /\ tokens' \in Seq(TokenRow) /\ DOMAIN tokens' = DOMAIN tokens
        /\ \A u \in DOMAIN tokens : /\ tokens'[u].snapshot = tokens[u].snapshot
                                    /\ tokens'[u].status = "issued" => tokens[u].status = "issued"
    BY <2>1, <2>2, <2>3, TokensUpdated
  <2> QED BY <2>4, TokensChange
<1> QED BY <1>1, <1>2

\* Underwriting goes on, or a run, or nothing: no invoice changes, and what is charged keeps up.
LEMMA NothingInvoiced ==
  ASSUME BillingInv, ledgers' = ledgers, UnderwritingInv', crashes' \in Nat,
         \/ sub' = sub /\ charges' = charges /\ crashes <= crashes'
         \/ /\ Subscribed /\ sub' \in SubRow /\ sub'.rate = sub.rate /\ charges' \in Nat
            /\ \/ Overage' - charges' = Overage - charges /\ crashes' = crashes
               \/ Overage' - charges' = Overage - charges + 1 /\ crashes' = crashes + 1
  PROVE  BillingInv'
<1>1. BillingTyped'
  BY RowsAreSubscribed DEF BillingInv, BillingTyped, Subscribed
<1>2. LedgersAdd'
  BY DEF BillingInv, LedgersAdd
<1>3. RunsCharged'
  <2> SUFFICES ASSUME Subscribed', sub'.rate > 0
               PROVE  Billed(ledgers, sub'.rate) + Overage' - charges' \in 0..crashes'
    BY DEF RunsCharged
  <2>1. crashes \in Nat /\ charges \in Nat /\ ledgers \in Seq(Ledger)
    BY SnapshotsAre DEF BillingInv, UnderwritingInv, BillingTyped
  <2>2. Subscribed /\ sub'.rate = sub.rate
    BY DEF Subscribed
  <2>3. sub \in SubRow /\ Overage \in Nat /\ sub.rate \in Nat
    BY <2>2, SubIs DEF BillingInv
  <2>4. PICK b \in Int : b = Billed(ledgers, sub.rate)
    BY <2>1, <2>2, <2>3, BilledIsInt
  <2>5. b + Overage - charges \in 0..crashes
    BY <2>2, <2>4 DEF BillingInv, RunsCharged
  <2>6. CASE sub' = sub /\ charges' = charges /\ crashes <= crashes'
    <3>1. Overage' = Overage
      BY <2>6 DEF Overage
    <3> QED BY <2>1, <2>2, <2>3, <2>4, <2>5, <2>6, <3>1
  <2>7. CASE sub' \in SubRow /\ charges' \in Nat
    <3>1. Overage' \in Nat
      BY <2>7 DEF SubRow, Overage
    <3> DEFINE due == b + Overage - charges
    <3>a. b + Overage' - charges' = due + ((Overage' - charges') - (Overage - charges)) /\ due \in Int
      BY <2>1, <2>3, <2>7, <3>1
    <3>b. (Overage' - charges') \in Int /\ (Overage - charges) \in Int
      BY <2>1, <2>3, <2>7, <3>1
    <3> HIDE DEF due
    <3>c. due \in 0..crashes
      BY <2>5 DEF due
    <3>2. CASE Overage' - charges' = Overage - charges /\ crashes' = crashes
      <4>1. b + Overage' - charges' = due
        BY <3>a, <3>b, <3>2
      <4> QED BY <2>2, <2>4, <3>2, <3>c, <4>1
    <3>3. CASE Overage' - charges' = Overage - charges + 1 /\ crashes' = crashes + 1
      <4>1. b + Overage' - charges' = due + 1
        BY <3>a, <3>b, <3>3
      <4> QED BY <2>1, <2>2, <2>4, <3>a, <3>3, <3>c, <4>1
    <3>4. CASE sub' = sub /\ charges' = charges /\ crashes <= crashes'
      BY <2>6, <3>4
    <3> QED BY <3>2, <3>3, <3>4
  <2> QED BY <2>6, <2>7
<1> QED BY <1>1, <1>2, <1>3 DEF BillingInv

LEMMA RunCounts ==
  ASSUME BillingInv, Subscribed, sub' = [sub EXCEPT !.count = @ + 1]
  PROVE  /\ sub' \in SubRow /\ sub'.rate = sub.rate /\ Overage \in Nat
         /\ Overage' = Overage + (IF OverLimit(sub.count + 1) THEN 1 ELSE 0)
<1>1. sub \in SubRow /\ sub.count \in Nat /\ sub.included \in Nat /\ Overage \in Nat
  BY SubIs DEF BillingInv
<1>2. /\ sub' \in SubRow /\ sub'.rate = sub.rate /\ sub'.included = sub.included
      /\ sub'.count = sub.count + 1
  BY <1>1 DEF SubRow
<1> QED BY <1>1, <1>2 DEF Overage, OverLimit

LEMMA InvoiceKeeps ==
  ASSUME BillingInv, NEW premium \in Premiums, NEW token \in BestTokens, GenerateInvoice(premium, token)
  PROVE  BillingInv'
<1> DEFINE c == Commitment(premium, token)
           row == [runs |-> c.runs, fee |-> c.fee, overage |-> c.overage, premium |-> c.premium,
                   discount |-> c.discount, tax |-> c.tax, total |-> c.total, signed |-> c.total,
                   token |-> c.token, lines |-> Lines(c)]
<1>1. /\ Subscribed /\ ledgers' = Append(ledgers, row) /\ tokens' = Spent(token, Len(ledgers) + 1)
      /\ sub' = [sub EXCEPT !.count = 0] /\ charges' = charges
      /\ UNCHANGED <<registry, snapshots, crashes>>
  BY DEF GenerateInvoice, CounterAfterInvoice
<1>2. /\ sub \in SubRow /\ Overage \in Nat /\ sub.rate \in Nat
      /\ ledgers \in Seq(Ledger) /\ Len(ledgers) \in Nat /\ charges \in Nat /\ crashes \in Nat
      /\ DOMAIN ledgers = 1..Len(ledgers)
  BY <1>1, SubIs, SnapshotsAre, LenProperties DEF BillingInv, UnderwritingInv, BillingTyped
<1>3. /\ Amounts(c) /\ c.runs \in Nat /\ c.overage = Overage * sub.rate
      /\ c.total = c.fee + c.overage + c.premium - c.discount + c.tax
      /\ c.token = token /\ (token = Nothing \/ token \in DOMAIN tokens)
  BY <1>2, CommitmentIs DEF BillingInv
<1> HIDE DEF c
<1>4. Lines(c) \in Seq(Line) /\ Due(Lines(c)) = c.total
  BY <1>3, LinesComeTo
<1>5. /\ row \in Ledger /\ row.total = Due(row.lines) /\ row.signed = row.total
      /\ row.overage = Overage * sub.rate
  BY <1>3, <1>4 DEF Ledger, Amounts
<1> HIDE DEF row
<1>6. UnderwritingInv'
  <2>1. PICK n \in Nat : n = Len(ledgers) + 1
    BY <1>2
  <2>2. tokens' = Spent(token, n)
    BY <1>1, <2>1
  <2> QED BY <1>1, <1>3, <2>2, SpentKeeps DEF BillingInv
<1>7. sub' \in SubRow /\ sub'.rate = sub.rate /\ sub'.count = 0
  BY <1>1, <1>2 DEF SubRow
<1>8. ledgers' \in Seq(Ledger) /\ DOMAIN ledgers' = 1..(Len(ledgers) + 1)
      /\ ledgers'[Len(ledgers) + 1] = row /\ \A i \in 1..Len(ledgers) : ledgers'[i] = ledgers[i]
  BY <1>1, <1>2, <1>5
<1>9. BillingTyped'
  BY <1>1, <1>2, <1>7, <1>8, RowsAreSubscribed DEF BillingTyped, Subscribed
<1>10. LedgersAdd'
  <2> SUFFICES ASSUME NEW i \in 1..(Len(ledgers) + 1)
               PROVE  ledgers'[i].total = Due(ledgers'[i].lines) /\ ledgers'[i].signed = ledgers'[i].total
    BY <1>8 DEF LedgersAdd
  <2>1. CASE i \in 1..Len(ledgers)
    BY <1>2, <1>8, <2>1 DEF BillingInv, LedgersAdd
  <2>2. CASE i = Len(ledgers) + 1
    BY <1>5, <1>8, <2>2
  <2> QED BY <1>2, <2>1, <2>2
<1>11. RunsCharged'
  <2> SUFFICES ASSUME sub'.rate > 0 PROVE Billed(ledgers', sub'.rate) + Overage' - charges' \in 0..crashes'
    BY DEF RunsCharged
  <2>1. sub.rate > 0
    BY <1>7
  <2>2. Overage' = 0
    BY <1>7 DEF Overage, SubRow
  <2>3. Billed(ledgers', sub.rate) = Billed(ledgers, sub.rate) + row.overage \div sub.rate
    BY <1>1, <1>2, <1>5, <2>1, BilledAppend
  <2>4. row.overage \div sub.rate = Overage
    BY <1>2, <1>5, <2>1, DivisionIs
  <2>5. Billed(ledgers, sub.rate) \in Int
    BY <1>2, <2>1, BilledIsInt
  <2>6. Billed(ledgers, sub.rate) + Overage - charges \in 0..crashes
    BY <1>1, <2>1 DEF BillingInv, RunsCharged
  <2> QED BY <1>1, <1>2, <1>7, <2>2, <2>3, <2>4, <2>5, <2>6
<1> QED BY <1>6, <1>9, <1>10, <1>11 DEF BillingInv

WithCredit(x, d, total, t, lines) ==
  [x EXCEPT !.discount = d, !.total = total, !.token = t, !.signed = total, !.lines = lines]

Credit(x, d, total, t, lines) ==
  x \in Ledger /\ d \in Nat /\ total \in Int /\ t \in Nat /\ lines \in Seq(Line)

LEMMA LedgerChanged ==
  ASSUME NEW x, NEW d, NEW total, NEW t, NEW lines, Credit(x, d, total, t, lines)
  PROVE  /\ WithCredit(x, d, total, t, lines) \in Ledger
         /\ WithCredit(x, d, total, t, lines).total = total
         /\ WithCredit(x, d, total, t, lines).signed = total
         /\ WithCredit(x, d, total, t, lines).lines = lines
         /\ WithCredit(x, d, total, t, lines).overage = x.overage
<1> DEFINE LineSeq == Seq(Line)
<1>1. x \in Ledger /\ d \in Nat /\ total \in Int /\ t \in Nat /\ lines \in LineSeq
  BY DEF Credit
<1>2. Ledger = [runs : Nat, fee : Nat, overage : Nat, premium : Nat, discount : Nat,
          tax : Nat, total : Int, signed : Int, token : Nat, lines : LineSeq]
  BY DEF Ledger
<1> HIDE DEF LineSeq
<1> QED BY <1>1, <1>2 DEF WithCredit

LEMMA ApplyKeeps ==
  ASSUME BillingInv, NEW i \in DOMAIN ledgers, NEW t \in DOMAIN tokens, ApplyToken(i, t)
  PROVE  BillingInv'
<1>1. /\ ledgers \in Seq(Ledger) /\ ledgers[i] \in Ledger /\ Len(ledgers) \in Nat
      /\ DOMAIN ledgers = 1..Len(ledgers) /\ i \in Nat /\ tokens[t] \in TokenRow
      /\ ledgers[i].total = Due(ledgers[i].lines)
  <2>1. ledgers \in Seq(Ledger) /\ ledgers[i].total = Due(ledgers[i].lines)
    BY DEF BillingInv, BillingTyped, LedgersAdd
  <2>2. Len(ledgers) \in Nat /\ DOMAIN ledgers = 1..Len(ledgers)
    BY <2>1, LenProperties
  <2>3. ledgers[i] \in Ledger
    BY <2>1, <2>2, ElementOfSeq
  <2>4. tokens[t] \in TokenRow
    BY SnapshotsAre DEF BillingInv, UnderwritingInv
  <2> QED BY <2>1, <2>2, <2>3, <2>4
<1>2. /\ ledgers[i].lines \in Seq(Line) /\ ledgers[i].premium \in Nat /\ ledgers[i].total \in Int
      /\ tokens[t].value \in Nat /\ t \in Nat
  BY <1>1, SnapshotsAre DEF Ledger, TokenRow, BillingInv, UnderwritingInv
<1>3. PICK d \in Nat : d = Smaller(tokens[t].value, ledgers[i].premium)
  BY <1>2 DEF Smaller
<1> DEFINE line == Item("premium_discount", d, TRUE, t)
           row == [ledgers[i] EXCEPT !.discount = d, !.total = ledgers[i].total - d, !.token = t,
                                     !.signed = ledgers[i].total - d,
                                     !.lines = Append(ledgers[i].lines, line)]
<1>4. line \in Line /\ line.credit /\ line.amount = d
  BY <1>2, <1>3 DEF Item, Line, LineTypes
<1>5. ledgers' = [ledgers EXCEPT ![i] = row] /\ tokens' = Spent(t, i)
      /\ UNCHANGED <<registry, snapshots, crashes, sub, charges>>
  <2>1. ledgers' = [ledgers EXCEPT ![i] =
          [ledgers[i] EXCEPT !.discount = d, !.total = ledgers[i].total - d, !.token = t,
                             !.signed = ledgers[i].total - d,
                             !.lines = Append(ledgers[i].lines, line)]]
    BY <1>1, <1>3 DEF ApplyToken, Resigned
  <2> QED BY <2>1 DEF ApplyToken
<1> HIDE DEF line
<1>6. Append(ledgers[i].lines, line) \in Seq(Line)
      /\ Due(Append(ledgers[i].lines, line)) = ledgers[i].total - d
  <2>1. Due(Append(ledgers[i].lines, line)) = Due(ledgers[i].lines) + (-Magnitude(d))
    BY <1>2, <1>4, DueAppend
  <2>2. Magnitude(d) = d
    BY <1>3, MagnitudeIs
  <2>3. Append(ledgers[i].lines, line) \in Seq(Line)
    BY <1>2, <1>4
  <2> QED BY <1>1, <1>2, <1>3, <2>1, <2>2, <2>3
<1>7. /\ row \in Ledger /\ row.total = Due(row.lines) /\ row.signed = row.total
      /\ row.overage = ledgers[i].overage
  <2>1. t \in Nat /\ ledgers[i].total - d \in Int
    BY <1>2, <1>3
  <2> DEFINE lines == Append(ledgers[i].lines, line)
             total == ledgers[i].total - d
  <2>2. /\ ledgers[i] \in Ledger /\ total \in Int /\ lines \in Seq(Line)
        /\ row = [ledgers[i] EXCEPT !.discount = d, !.total = total, !.token = t, !.signed = total,
                                    !.lines = lines]
    BY <1>1, <1>6, <2>1
  <2>3. Due(lines) = total
    BY <1>6
  <2> HIDE DEF row, lines, total
  <2>4. Credit(ledgers[i], d, total, t, lines)
    BY <1>3, <2>1, <2>2 DEF Credit
  <2>5. row = WithCredit(ledgers[i], d, total, t, lines)
    BY <2>2 DEF WithCredit
  <2>6. /\ row \in Ledger /\ row.total = total /\ row.signed = total /\ row.lines = lines
        /\ row.overage = ledgers[i].overage
    BY <2>4, <2>5, LedgerChanged
  <2> QED BY <2>3, <2>6
<1> HIDE DEF row
<1>8. /\ ledgers' \in Seq(Ledger) /\ DOMAIN ledgers' = DOMAIN ledgers
      /\ \A j \in DOMAIN ledgers : ledgers'[j] = IF j = i THEN row ELSE ledgers[j]
  BY <1>1, <1>5, <1>7
<1>9. UnderwritingInv'
  BY <1>1, <1>5, SpentKeeps DEF BillingInv
<1>10. Subscribed
  <2>1. ledgers # <<>>
    BY <1>1
  <2> QED BY <2>1 DEF BillingInv, BillingTyped
<1>11. BillingTyped'
  BY <1>5, <1>8, <1>10 DEF BillingInv, BillingTyped, Subscribed
<1>12. LedgersAdd'
  BY <1>7, <1>8 DEF BillingInv, LedgersAdd
<1>13. RunsCharged'
  <2> SUFFICES ASSUME sub.rate > 0 PROVE Billed(ledgers', sub.rate) + Overage' - charges \in 0..crashes
    BY <1>5 DEF RunsCharged
  <2>1. sub.rate \in Nat
    BY <1>10, SubIs DEF BillingInv
  <2>2. Overage' = Overage
    BY <1>5 DEF Overage
  <2>3. \A j \in DOMAIN ledgers : ledgers'[j].overage = ledgers[j].overage
    BY <1>7, <1>8
  <2>4. Billed(ledgers', sub.rate) = Billed(ledgers, sub.rate)
    BY <1>1, <1>8, <2>1, <2>3, BilledSame
  <2>5. Billed(ledgers, sub.rate) + Overage - charges \in 0..crashes
    BY <1>10 DEF BillingInv, RunsCharged
  <2> QED BY <2>2, <2>4, <2>5
<1> QED BY <1>9, <1>11, <1>12, <1>13 DEF BillingInv

\* The inductive invariant of underwriting and billing.
THEOREM BillingInvariant == Spec => []BillingInv
<1>1. Init => BillingInv
  <2> SUFFICES ASSUME Init PROVE BillingInv
    OBVIOUS
  <2>1. UnderwritingInv
    BY UnderwritingStarts DEF Init
  <2>2. BillingTyped /\ LedgersAdd /\ RunsCharged
    BY DEF Init, BillingTyped, LedgersAdd, RunsCharged, Subscribed
  <2> QED BY <2>1, <2>2 DEF BillingInv
<1>2. BillingInv /\ [Next]_vars => BillingInv'
  <2> SUFFICES ASSUME BillingInv, [Next]_vars PROVE BillingInv'
    OBVIOUS
  <2>0. UnderwritingInv /\ crashes \in Nat /\ charges \in Nat
    BY SnapshotsAre DEF BillingInv, UnderwritingInv, BillingTyped
  <2>1. CASE (UNext \/ UNCHANGED uvars) /\ UNCHANGED bvars
    <3>1. UnderwritingInv' /\ (crashes' = crashes \/ crashes' = crashes + 1)
      BY <2>0, <2>1, UnderwritingKept, CrashesGrow
    <3>2. sub' = sub /\ charges' = charges /\ ledgers' = ledgers /\ crashes <= crashes' /\ crashes' \in Nat
      BY <2>0, <2>1, <3>1 DEF bvars
    <3> QED BY <3>1, <3>2, NothingInvoiced
  <2>2. ASSUME NEW offer \in Offers, CreateSubscription(offer) PROVE BillingInv'
    <3>1. /\ ~Subscribed /\ UNCHANGED <<uvars, runs, charges, ledgers>>
          /\ sub' = [fee |-> offer.fee, included |-> offer.included, rate |-> offer.rate, count |-> 0]
      BY <2>2 DEF CreateSubscription
    <3>2. offer \in Terms
      BY CommercialAssumption
    <3>3. sub' \in SubRow /\ sub'.count = 0
      BY <3>1, <3>2 DEF Terms, SubRow
    <3>4. ledgers = <<>> /\ charges = 0
      BY <3>1 DEF BillingInv, BillingTyped
    <3>5. UnderwritingInv' /\ crashes' = crashes
      BY <2>0, <3>1, UnderwritingKept DEF uvars
    <3>6. BillingTyped'
      BY <3>1, <3>3, RowsAreSubscribed DEF BillingInv, BillingTyped, Subscribed
    <3>7. LedgersAdd'
      BY <3>1 DEF BillingInv, LedgersAdd
    <3>8. RunsCharged'
      <4>1. Billed(<<>>, sub'.rate) = 0
        BY NothingBilled
      <4>2. Overage' = 0
        BY <3>3 DEF Overage, SubRow
      <4> QED BY <2>0, <3>1, <3>4, <3>5, <4>1, <4>2 DEF RunsCharged
    <3> QED BY <3>5, <3>6, <3>7, <3>8 DEF BillingInv
  <2>3. CASE RecordValidationRun
    <3>1. /\ Subscribed /\ sub' = [sub EXCEPT !.count = @ + 1] /\ UNCHANGED <<uvars, ledgers>>
          /\ charges' = charges + (IF OverLimit(sub.count + 1) THEN 1 ELSE 0)
      BY <2>3 DEF RecordValidationRun
    <3>2. /\ sub' \in SubRow /\ sub'.rate = sub.rate /\ Overage \in Nat
          /\ Overage' = Overage + (IF OverLimit(sub.count + 1) THEN 1 ELSE 0)
      BY <3>1, RunCounts
    <3>3. charges' \in Nat /\ Overage' - charges' = Overage - charges
      BY <2>0, <3>1, <3>2
    <3>4. UnderwritingInv' /\ crashes' = crashes /\ ledgers' = ledgers
      BY <2>0, <3>1, UnderwritingKept DEF uvars
    <3> QED BY <2>0, <3>1, <3>2, <3>3, <3>4, NothingInvoiced
  <2>4. CASE RunCutShort
    <3>1. /\ Subscribed /\ sub' = [sub EXCEPT !.count = @ + 1] /\ OverLimit(sub.count + 1)
          /\ crashes < MaxCrashes /\ crashes' = crashes + 1
          /\ UNCHANGED <<registry, snapshots, tokens, charges, ledgers>>
      BY <2>4 DEF RunCutShort
    <3>2. /\ sub' \in SubRow /\ sub'.rate = sub.rate /\ Overage \in Nat
          /\ Overage' = Overage + (IF OverLimit(sub.count + 1) THEN 1 ELSE 0)
      BY <3>1, RunCounts
    <3>3. charges' \in Nat /\ Overage' - charges' = Overage - charges + 1
      BY <2>0, <3>1, <3>2
    <3>4. tokens \in Seq(TokenRow)
      BY <2>0 DEF UnderwritingInv, UTypeOK
    <3>5. UnderwritingInv' /\ crashes' \in Nat
      BY <2>0, <3>1, <3>4, TokensChange
    <3> QED BY <3>1, <3>2, <3>3, <3>5, NothingInvoiced
  <2>5. ASSUME NEW premium \in Premiums, NEW token \in BestTokens, GenerateInvoice(premium, token)
        PROVE  BillingInv'
    BY <2>5, InvoiceKeeps
  <2>6. ASSUME NEW i \in DOMAIN ledgers, NEW t \in DOMAIN tokens, ApplyToken(i, t) PROVE BillingInv'
    BY <2>6, ApplyKeeps
  <2>7. CASE UNCHANGED vars
    BY <2>1, <2>7 DEF vars
  <2> QED BY <2>1, <2>2, <2>3, <2>4, <2>5, <2>6, <2>7 DEF Next
<1> QED BY <1>1, <1>2, PTL DEF Spec

\* From the hash in the registry one gets back to the seed over every audit of the policy, but
\* for one snapshot a crash (computeUnderwritingRiskScore).
THEOREM GoldenThreadHolds == Spec => []GoldenThread
<1>1. BillingInv => GoldenThread
  BY GoldenThreadFollows DEF BillingInv
<1> QED BY <1>1, BillingInvariant, PTL

\* One token at a time can be used, and one more for every crash between issue and revocation.
THEOREM OneTokenAtATime == Spec => []OneUsableToken
<1>1. BillingInv => OneUsableToken
  BY OneTokenFollows DEF BillingInv
<1> QED BY <1>1, BillingInvariant, PTL

\* The signed total of an invoice is what its items charge less what its credits give,
\* whatever tokens are applied to it in whatever order (generateInvoice,
\* applyPremiumReductionToken).
THEOREM InvoicesAddUp == Spec => []TotalsAddUp
<1>1. BillingInv => TotalsAddUp
  BY TotalsFollow
<1> QED BY <1>1, BillingInvariant, PTL

\* Every run over the limit is charged once; a crash between the counter and the row of
\* overage_charge_log costs one row at most (recordValidationRun, generateInvoice).
THEOREM RunsBilledOnce == Spec => []OverageBilledOnce
<1>1. BillingInv => OverageBilledOnce
  BY OverageFollows
<1> QED BY <1>1, BillingInvariant, PTL
=============================================================================
