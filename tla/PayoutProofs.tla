---------------------------- MODULE PayoutProofs ----------------------------
(***************************************************************************)
(* What holds of Payout for every set of agents and sweeps, every amount   *)
(* and every bound: its types, that no agent is overdrawn, that the        *)
(* provider gets one transfer for a key, that every transfer has its row,  *)
(* that only a crash leaves a row pending, and, as long as nothing calls   *)
(* settlePayout, that a successful payout stays successful and no dollar   *)
(* is both in a balance and in a payout.                                   *)
(***************************************************************************)
EXTENDS Payout, FiniteSums, TLAPS

USE DEF RowStatuses

AgentRow == [balance_usd : Int]
Record   == [agent : Agents, balance_usd : Int]

\* TypeOK's part about one sweep.
SweepOK(st) ==
  /\ st \in SweepState
  /\ st.pc = "next" => st.todo # {}
  /\ st.pc \in {"prepare", "sent", "poll"} <=> st.cur # NoKey

LEMMA SweepsOK ==
  TypeOK <=> /\ agents \in [Agents -> AgentRow]
             /\ DOMAIN payout_logs \subseteq Key
             /\ payout_logs \in [DOMAIN payout_logs -> LogRow]
             /\ sweep \in [Sweeps -> SweepState]
             /\ \A s \in Sweeps : SweepOK(sweep[s])
             /\ DOMAIN provider \subseteq Key
             /\ provider \in [DOMAIN provider -> ProviderRow]
             /\ day \in Nat
             /\ earned \in [Agents -> Nat]
             /\ credits \in Nat /\ crashes \in Nat /\ webhooks \in Nat
  BY DEF TypeOK, SweepOK, Paying, AgentRow

\* A sweep that is changed in one place, to something of the right shape.
LEMMA SweepChanged ==
  ASSUME TypeOK, NEW s \in Sweeps, NEW st, SweepOK(st), sweep' = [sweep EXCEPT ![s] = st]
  PROVE  sweep' \in [Sweeps -> SweepState] /\ \A r \in Sweeps : SweepOK(sweep'[r])
  BY SweepsOK DEF SweepOK

LEMMA IdleOK == SweepOK(Idle)
  BY DEF SweepOK, Idle, SweepState

LEMMA ContinueOK ==
  ASSUME TypeOK, NEW s \in Sweeps, NEW rec, Continue(s, rec)
  PROVE  sweep' \in [Sweeps -> SweepState] /\ \A r \in Sweeps : SweepOK(sweep'[r])
<1> DEFINE rest == sweep[s].todo \ {rec}
           st == IF rest = {} THEN Idle
                 ELSE [pc |-> "next", todo |-> rest, day |-> sweep[s].day, cur |-> NoKey]
<1>1. sweep[s] \in SweepState
  BY DEF TypeOK
<1>2. CASE rest = {}
  BY <1>2, IdleOK, SweepChanged DEF Continue
<1>3. CASE rest # {}
  <2>1. SweepOK([pc |-> "next", todo |-> rest, day |-> sweep[s].day, cur |-> NoKey])
    BY <1>1, <1>3 DEF SweepOK, SweepState
  <2> QED BY <1>3, <2>1, SweepChanged DEF Continue
<1> QED BY <1>2, <1>3

LEMMA AgentDoneOK ==
  ASSUME TypeOK, NEW s \in Sweeps, AgentDone(s)
  PROVE  sweep' \in [Sweeps -> SweepState] /\ \A r \in Sweeps : SweepOK(sweep'[r])
<1>1. sweep[s] \in SweepState
  BY DEF TypeOK
<1>2. CASE sweep[s].todo = {}
  BY <1>2, IdleOK, SweepChanged DEF AgentDone
<1>3. CASE sweep[s].todo # {}
  <2>1. SweepOK([sweep[s] EXCEPT !.pc = "next", !.cur = NoKey])
    BY <1>1, <1>3 DEF SweepOK, SweepState
  <2> QED BY <1>3, <2>1, SweepChanged DEF AgentDone
<1> QED BY <1>2, <1>3

LEMMA LogStatusOK ==
  ASSUME TypeOK, NEW k, NEW status \in RowStatuses, LogStatus(k, status)
  PROVE  /\ DOMAIN payout_logs' = DOMAIN payout_logs
         /\ payout_logs' \in [DOMAIN payout_logs' -> LogRow]
         /\ \A j \in DOMAIN payout_logs : j # k => payout_logs'[j] = payout_logs[j]
         /\ k \in DOMAIN payout_logs => payout_logs'[k].status = status
<1>1. payout_logs \in [DOMAIN payout_logs -> LogRow]
  BY DEF TypeOK
<1> QED BY <1>1 DEF LogStatus, LogRow

LEMMA RestoreOK ==
  ASSUME TypeOK, NEW a \in Agents, NEW amount \in Nat, Restore(a, amount)
  PROVE  /\ agents' \in [Agents -> AgentRow]
         /\ \A b \in Agents : agents'[b].balance_usd >= agents[b].balance_usd
<1>1. agents \in [Agents -> AgentRow]
  BY SweepsOK
<1> QED BY <1>1 DEF Restore, AgentRow

LEMMA PutLogOK ==
  ASSUME TypeOK, NEW k \in Key, NEW row \in LogRow, payout_logs' = Put(payout_logs, k, row)
  PROVE  /\ DOMAIN payout_logs' = DOMAIN payout_logs \cup {k}
         /\ DOMAIN payout_logs' \subseteq Key
         /\ payout_logs' \in [DOMAIN payout_logs' -> LogRow]
         /\ payout_logs'[k] = row
         /\ \A j \in DOMAIN payout_logs : j # k => payout_logs'[j] = payout_logs[j]
  BY DEF Put, TypeOK

LEMMA PutProviderOK ==
  ASSUME TypeOK, NEW k \in Key, NEW row \in ProviderRow, provider' = Put(provider, k, row)
  PROVE  /\ DOMAIN provider' = DOMAIN provider \cup {k}
         /\ DOMAIN provider' \subseteq Key
         /\ provider' \in [DOMAIN provider' -> ProviderRow]
         /\ provider'[k] = row
         /\ \A j \in DOMAIN provider : j # k => provider'[j] = provider[j]
  BY DEF Put, TypeOK

\* What a sweep is paying is a key.
LEMMA CurIsKey ==
  ASSUME TypeOK, NEW s \in Sweeps, Paying(s)
  PROVE  /\ sweep[s].cur \in Key
         /\ sweep[s].cur.agent \in Agents /\ sweep[s].cur.amount \in Nat
<1>1. sweep[s].cur \in Key
  BY DEF TypeOK, SweepState
<1> QED BY <1>1 DEF Key

\* The record a sweep works on, and its key.
LEMMA KeyOfOK ==
  ASSUME TypeOK, NEW s \in Sweeps, NEW rec \in sweep[s].todo, Disbursable(rec.balance_usd) \in 1 .. HardCap
  PROVE  /\ rec \in Record
         /\ KeyOf(s, rec) \in Key /\ KeyOf(s, rec) # NoKey
         /\ KeyOf(s, rec).agent = rec.agent
         /\ KeyOf(s, rec).amount = Disbursable(rec.balance_usd)
<1>1. sweep[s] \in SweepState
  BY DEF TypeOK
<1>2. HardCap \in Nat
  BY PayoutAssumption
<1>3. rec \in Record /\ sweep[s].day \in Nat
  BY <1>1 DEF SweepState, Record
<1>4. Disbursable(rec.balance_usd) \in Nat /\ Disbursable(rec.balance_usd) # 0
  BY <1>2
<1> HIDE DEF Disbursable
<1> QED BY <1>3, <1>4 DEF KeyOf, Key, NoKey, Record

-----------------------------------------------------------------------------
(* Types. *)

\* Reserve puts one sweep to work on the key of rec.
LEMMA ReserveSweepOK ==
  ASSUME TypeOK, NEW s \in Sweeps, NEW rec \in sweep[s].todo, Disbursable(rec.balance_usd) \in 1 .. HardCap,
         sweep' = [sweep EXCEPT ![s].pc = "prepare", ![s].todo = @ \ {rec}, ![s].cur = KeyOf(s, rec)]
  PROVE  sweep' \in [Sweeps -> SweepState] /\ \A r \in Sweeps : SweepOK(sweep'[r])
<1>1. sweep[s] \in SweepState
  BY DEF TypeOK
<1>2. KeyOf(s, rec) \in Key /\ KeyOf(s, rec) # NoKey
  BY KeyOfOK
<1> DEFINE st == [sweep[s] EXCEPT !.pc = "prepare", !.todo = @ \ {rec}, !.cur = KeyOf(s, rec)]
<1>3. SweepOK(st)
  BY <1>1, <1>2 DEF SweepOK, SweepState
<1>4. sweep' = [sweep EXCEPT ![s] = st]
  BY <1>1 DEF SweepState
<1> HIDE DEF st
<1> QED BY <1>3, <1>4, SweepChanged

\* A sweep that only moves on in its dispatch.
LEMMA PcSweepOK ==
  ASSUME TypeOK, NEW s \in Sweeps, Paying(s), NEW pc \in {"prepare", "sent", "poll"},
         sweep' = [sweep EXCEPT ![s].pc = pc]
  PROVE  sweep' \in [Sweeps -> SweepState] /\ \A r \in Sweeps : SweepOK(sweep'[r])
<1>1. sweep[s] \in SweepState /\ SweepOK(sweep[s])
  BY SweepsOK
<1> DEFINE st == [sweep[s] EXCEPT !.pc = pc]
<1>2. SweepOK(st)
  BY <1>1 DEF SweepOK, SweepState, Paying
<1>3. sweep' = [sweep EXCEPT ![s] = st]
  OBVIOUS
<1> HIDE DEF st
<1> QED BY <1>2, <1>3, SweepChanged

LEMMA EligibleOK == TypeOK => Eligible \subseteq Record
  BY DEF TypeOK, Eligible, Record

LEMMA ProcessType ==
  ASSUME TypeOK, NEW s \in Sweeps, ProcessAgent(s)
  PROVE  TypeOK'
<1>1. PICK rec \in sweep[s].todo :
        \/ Skip(s, rec)
        \/ /\ Disbursable(rec.balance_usd) \in 1 .. HardCap
           /\ Duplicate(s, rec) \/ RollBack(s, rec) \/ Reserve(s, rec) \/ ReserveUnreachable(s, rec)
  BY DEF ProcessAgent
<1>2. UNCHANGED <<day, earned, credits, crashes, webhooks>>
  BY DEF ProcessAgent
<1>3. CASE Skip(s, rec) \/ Duplicate(s, rec) \/ RollBack(s, rec)
  <2>1. Continue(s, rec) /\ UNCHANGED <<agents, payout_logs, provider>>
    BY <1>3 DEF Skip, Duplicate, RollBack
  <2> QED BY <1>2, <2>1, SweepsOK, ContinueOK DEF TypeOK, SweepOK, Paying
<1>4. CASE Disbursable(rec.balance_usd) \in 1 .. HardCap /\ Reserve(s, rec)
  <2>1. KeyOf(s, rec) \in Key /\ rec \in Record /\ Disbursable(rec.balance_usd) \in Int
    BY <1>4, KeyOfOK
  <2>2. NewLog \in LogRow
    BY DEF NewLog, LogRow
  <2>3. DOMAIN payout_logs' \subseteq Key /\ payout_logs' \in [DOMAIN payout_logs' -> LogRow]
    BY <1>4, <2>1, <2>2, PutLogOK DEF Reserve
  <2>4. agents' \in [Agents -> AgentRow]
    BY <1>4, <2>1, SweepsOK DEF Reserve, Debit, AgentRow, Record
  <2>5. sweep' \in [Sweeps -> SweepState] /\ \A r \in Sweeps : SweepOK(sweep'[r])
    BY <1>4, ReserveSweepOK DEF Reserve
  <2>6. provider' = provider
    BY <1>4 DEF Reserve
  <2> QED BY <1>2, <2>3, <2>4, <2>5, <2>6 DEF TypeOK, SweepOK, Paying, AgentRow
<1>5. CASE Disbursable(rec.balance_usd) \in 1 .. HardCap /\ ReserveUnreachable(s, rec)
  <2>1. KeyOf(s, rec) \in Key
    BY <1>5, KeyOfOK
  <2>2. [NewLog EXCEPT !.status = "failed"] \in LogRow
    BY DEF NewLog, LogRow
  <2>3. DOMAIN payout_logs' \subseteq Key /\ payout_logs' \in [DOMAIN payout_logs' -> LogRow]
    BY <1>5, <2>1, <2>2, PutLogOK DEF ReserveUnreachable
  <2>4. Continue(s, rec) /\ UNCHANGED <<agents, provider>>
    BY <1>5 DEF ReserveUnreachable
  <2> QED BY <1>2, <2>3, <2>4, SweepsOK, ContinueOK DEF TypeOK, SweepOK, Paying
<1> QED BY <1>1, <1>3, <1>4, <1>5

LEMMA DispatchType ==
  ASSUME TypeOK, NEW s \in Sweeps,
         DispatchFails(s) \/ SendTransfer(s) \/ TransferAccepted(s) \/ PollReturns(s)
  PROVE  TypeOK'
<1>0. Paying(s)
  BY DEF DispatchFails, SendTransfer, TransferAccepted, PollReturns, Paying
<1>1. CASE DispatchFails(s)
  <2>1. /\ Restore(sweep[s].cur.agent, sweep[s].cur.amount)
        /\ LogStatus(sweep[s].cur, "failed")
        /\ AgentDone(s)
        /\ UNCHANGED <<provider, day, earned, credits, crashes, webhooks>>
    BY <1>1 DEF DispatchFails
  <2>2. agents' \in [Agents -> AgentRow]
    BY <1>0, <2>1, CurIsKey, RestoreOK
  <2>3. DOMAIN payout_logs' \subseteq Key /\ payout_logs' \in [DOMAIN payout_logs' -> LogRow]
    BY <2>1, LogStatusOK DEF TypeOK
  <2>4. sweep' \in [Sweeps -> SweepState] /\ \A r \in Sweeps : SweepOK(sweep'[r])
    BY <2>1, AgentDoneOK
  <2> QED BY <2>1, <2>2, <2>3, <2>4 DEF TypeOK, SweepOK, Paying, AgentRow
<1>2. CASE SendTransfer(s)
  <2>1. /\ sweep' = [sweep EXCEPT ![s].pc = "sent"]
        /\ UNCHANGED <<agents, payout_logs, day, earned, credits, crashes, webhooks>>
    BY <1>2 DEF SendTransfer
  <2>2. DOMAIN provider' \subseteq Key /\ provider' \in [DOMAIN provider' -> ProviderRow]
    <3> DEFINE k == sweep[s].cur
               row == IF k \in DOMAIN provider THEN [provider[k] EXCEPT !.requests = @ + 1]
                                              ELSE [requests |-> 1, state |-> "accepted"]
    <3>1. k \in Key
      BY <1>0, CurIsKey
    <3>2. row \in ProviderRow
      BY DEF TypeOK, ProviderRow
    <3>3. provider' = Put(provider, k, row) \/ provider' = provider
      BY <1>2 DEF SendTransfer
    <3> HIDE DEF k, row
    <3>4. DOMAIN provider \subseteq Key /\ provider \in [DOMAIN provider -> ProviderRow]
      BY DEF TypeOK
    <3> QED BY <3>1, <3>2, <3>3, <3>4, PutProviderOK
  <2>3. sweep' \in [Sweeps -> SweepState] /\ \A r \in Sweeps : SweepOK(sweep'[r])
    BY <1>0, <2>1, PcSweepOK
  <2> QED BY <2>1, <2>2, <2>3 DEF TypeOK, SweepOK, Paying, AgentRow
<1>3. CASE TransferAccepted(s)
  <2>1. UNCHANGED <<agents, provider, day, earned, credits, crashes, webhooks>>
    BY <1>3 DEF TransferAccepted
  <2>2. \/ sweep' = [sweep EXCEPT ![s].pc = "poll"] /\ UNCHANGED payout_logs
        \/ LogStatus(sweep[s].cur, "processing") /\ AgentDone(s)
    BY <1>3 DEF TransferAccepted
  <2>3. DOMAIN payout_logs' \subseteq Key /\ payout_logs' \in [DOMAIN payout_logs' -> LogRow]
    BY <2>2, LogStatusOK DEF TypeOK
  <2>4. sweep' \in [Sweeps -> SweepState] /\ \A r \in Sweeps : SweepOK(sweep'[r])
    BY <1>0, <2>2, PcSweepOK, AgentDoneOK
  <2> QED BY <2>1, <2>3, <2>4 DEF TypeOK, SweepOK, Paying, AgentRow
<1>4. CASE PollReturns(s)
  <2>1. /\ \E status \in RowStatuses : LogStatus(sweep[s].cur, status)
        /\ AgentDone(s)
        /\ UNCHANGED <<agents, provider, day, earned, credits, crashes, webhooks>>
    BY <1>4 DEF PollReturns
  <2>2. DOMAIN payout_logs' \subseteq Key /\ payout_logs' \in [DOMAIN payout_logs' -> LogRow]
    BY <2>1, LogStatusOK DEF TypeOK
  <2>3. sweep' \in [Sweeps -> SweepState] /\ \A r \in Sweeps : SweepOK(sweep'[r])
    BY <2>1, AgentDoneOK
  <2> QED BY <2>1, <2>2, <2>3 DEF TypeOK, SweepOK, Paying, AgentRow
<1> QED BY <1>1, <1>2, <1>3, <1>4

LEMMA SettleType ==
  ASSUME TypeOK, NEW k \in DOMAIN provider, SettlePayout(k)
  PROVE  TypeOK'
<1>1. k \in Key /\ k.agent \in Agents /\ k.amount \in Nat
  BY DEF TypeOK, Key
<1>2. /\ \E status \in RowStatuses : LogStatus(k, status)
      /\ UNCHANGED agents \/ Restore(k.agent, k.amount)
      /\ UNCHANGED <<sweep, provider, day, earned, credits, crashes>>
      /\ webhooks' = webhooks + 1
  BY DEF SettlePayout
<1>3. DOMAIN payout_logs' \subseteq Key /\ payout_logs' \in [DOMAIN payout_logs' -> LogRow]
  BY <1>2, LogStatusOK DEF TypeOK
<1>4. agents' \in [Agents -> AgentRow]
  BY <1>1, <1>2, RestoreOK, SweepsOK
<1> QED BY <1>2, <1>3, <1>4 DEF TypeOK, SweepOK, Paying, AgentRow

LEMMA CrashType ==
  ASSUME TypeOK, Crash
  PROVE  TypeOK'
<1>1. /\ crashes' = crashes + 1
      /\ sweep' = [s \in Sweeps |-> Idle]
      /\ UNCHANGED <<provider, day, earned, credits, webhooks>>
  BY DEF Crash
<1>2. agents' \in [Agents -> AgentRow]
  <2>1. CASE UNCHANGED agents
    BY <2>1, SweepsOK
  <2>2. CASE \E s \in Sweeps : Paying(s) /\ Restore(sweep[s].cur.agent, sweep[s].cur.amount)
    BY <2>2, CurIsKey, RestoreOK
  <2> QED BY <2>1, <2>2 DEF Crash, Paying
<1>3. DOMAIN payout_logs' \subseteq Key /\ payout_logs' \in [DOMAIN payout_logs' -> LogRow]
  <2>1. UNCHANGED payout_logs \/ \E k \in DOMAIN provider : LogStatus(k, "failed")
    BY DEF Crash
  <2> QED BY <2>1, LogStatusOK DEF TypeOK
<1>4. sweep' \in [Sweeps -> SweepState] /\ \A r \in Sweeps : SweepOK(sweep'[r])
  BY <1>1, IdleOK DEF SweepOK
<1> QED BY <1>1, <1>2, <1>3, <1>4 DEF TypeOK, SweepOK, Paying, AgentRow

\* Every variable keeps its type.
THEOREM TypeCorrect == Spec => []TypeOK
<1>1. Init => TypeOK
  <2> SUFFICES ASSUME Init PROVE TypeOK
    OBVIOUS
  <2>1. sweep \in [Sweeps -> SweepState] /\ \A s \in Sweeps : SweepOK(sweep[s])
    BY IdleOK DEF Init, SweepOK
  <2>2. agents \in [Agents -> AgentRow] /\ earned \in [Agents -> Nat]
    BY PayoutAssumption DEF Init, AgentRow
  <2>3. DOMAIN payout_logs = {} /\ DOMAIN provider = {}
    BY DEF Init
  <2>4. /\ payout_logs \in [DOMAIN payout_logs -> LogRow]
        /\ provider \in [DOMAIN provider -> ProviderRow]
    BY DEF Init
  <2> QED BY <2>1, <2>2, <2>3, <2>4, SweepsOK DEF Init
<1>2. TypeOK /\ [Next]_vars => TypeOK'
  <2> SUFFICES ASSUME TypeOK, [Next]_vars PROVE TypeOK'
    OBVIOUS
  <2>1. ASSUME NEW s \in Sweeps, StartSweep(s) PROVE TypeOK'
    <3>1. SweepOK([pc |-> "next", todo |-> Eligible, day |-> day, cur |-> NoKey])
      BY <2>1, EligibleOK DEF StartSweep, SweepOK, SweepState, Record, TypeOK
    <3>2. sweep' \in [Sweeps -> SweepState] /\ \A r \in Sweeps : SweepOK(sweep'[r])
      BY <2>1, <3>1, SweepChanged DEF StartSweep
    <3> QED BY <2>1, <3>2 DEF StartSweep, TypeOK, SweepOK, Paying
  <2>2. ASSUME NEW s \in Sweeps, ProcessAgent(s) PROVE TypeOK'
    BY <2>2, ProcessType
  <2>3. ASSUME NEW s \in Sweeps, DispatchFails(s) \/ SendTransfer(s) \/ TransferAccepted(s) \/ PollReturns(s)
        PROVE  TypeOK'
    BY <2>3, DispatchType
  <2>4. ASSUME NEW k \in DOMAIN provider, ProviderDecides(k) PROVE TypeOK'
    BY <2>4 DEF ProviderDecides, TypeOK, ProviderRow, Paying
  <2>5. ASSUME NEW k \in DOMAIN provider, SettlePayout(k) PROVE TypeOK'
    BY <2>5, SettleType
  <2>6. ASSUME NEW a \in Agents, Credit(a) PROVE TypeOK'
    <3>1. CreditAmount[a] \in Nat
      BY PayoutAssumption
    <3>2. agents \in [Agents -> AgentRow] /\ earned \in [Agents -> Nat] /\ credits \in Nat
      BY SweepsOK
    <3>3. agents' \in [Agents -> AgentRow]
      BY <2>6, <3>1, <3>2 DEF Credit, AgentRow
    <3>4. earned' \in [Agents -> Nat] /\ credits' \in Nat
      BY <2>6, <3>1, <3>2 DEF Credit
    <3> QED BY <2>6, <3>3, <3>4 DEF Credit, TypeOK, Paying, AgentRow
  <2>8. CASE NewDay
    BY <2>8 DEF NewDay, TypeOK, Paying
  <2>9. CASE Crash
    BY <2>9, CrashType
  <2>10. CASE UNCHANGED vars
    BY <2>10 DEF vars, TypeOK, Paying
  <2> QED BY <2>1, <2>2, <2>3, <2>4, <2>5, <2>6, <2>8, <2>9, <2>10 DEF Next
<1> QED BY <1>1, <1>2, PTL DEF Spec

-----------------------------------------------------------------------------
(* Balances. *)

\* What a sweep does for one agent takes from a balance only what is in it.
LEMMA ProcessBalances ==
  ASSUME TypeOK, NeverOverdrawn, NEW s \in Sweeps, ProcessAgent(s)
  PROVE  NeverOverdrawn'
<1>1. PICK rec \in sweep[s].todo :
        \/ UNCHANGED agents
        \/ Disbursable(rec.balance_usd) \in 1 .. HardCap /\ Reserve(s, rec)
  BY DEF ProcessAgent, Skip, Duplicate, RollBack, ReserveUnreachable
<1>2. CASE UNCHANGED agents
  BY <1>2 DEF NeverOverdrawn
<1>3. CASE Disbursable(rec.balance_usd) \in 1 .. HardCap /\ Reserve(s, rec)
  <2> DEFINE amount == Disbursable(rec.balance_usd)
  <2>1. rec.agent \in Agents /\ amount \in Int
    BY <1>3, KeyOfOK DEF Record
  <2>2. agents[rec.agent].balance_usd >= amount
    BY <1>3 DEF Reserve, CanDebit
  <2>3. agents' = [agents EXCEPT ![rec.agent].balance_usd = @ - amount]
    BY <1>3 DEF Reserve, Debit
  <2>4. agents \in [Agents -> AgentRow]
    BY SweepsOK
  <2> HIDE DEF amount
  <2> QED BY <2>1, <2>2, <2>3, <2>4 DEF NeverOverdrawn, AgentRow
<1> QED BY <1>1, <1>2, <1>3

\* However sweeps, credits, refunds and crashes interleave, no agent is overdrawn.
THEOREM NoOverdraft == Spec => []NeverOverdrawn
<1>1. Init => NeverOverdrawn
  BY PayoutAssumption DEF Init, NeverOverdrawn
<1>2. TypeOK /\ NeverOverdrawn /\ [Next]_vars => NeverOverdrawn'
  <2> SUFFICES ASSUME TypeOK, NeverOverdrawn, [Next]_vars PROVE NeverOverdrawn'
    OBVIOUS
  <2>0. agents \in [Agents -> AgentRow]
    BY SweepsOK
  <2>1. ASSUME NEW a \in Agents, NEW amount \in Nat, Restore(a, amount) PROVE NeverOverdrawn'
    <3>1. \A b \in Agents : agents'[b].balance_usd >= agents[b].balance_usd
      BY <2>1, RestoreOK
    <3>2. agents' \in [Agents -> AgentRow]
      BY <2>1, RestoreOK
    <3> QED BY <2>0, <3>1, <3>2 DEF NeverOverdrawn, AgentRow
  <2>2. ASSUME UNCHANGED agents PROVE NeverOverdrawn'
    BY <2>2 DEF NeverOverdrawn
  <2>3. ASSUME NEW s \in Sweeps, ProcessAgent(s) PROVE NeverOverdrawn'
    BY <2>3, ProcessBalances
  <2>4. ASSUME NEW s \in Sweeps, DispatchFails(s) PROVE NeverOverdrawn'
    <3>1. Paying(s) /\ Restore(sweep[s].cur.agent, sweep[s].cur.amount)
      BY <2>4 DEF DispatchFails, Paying
    <3> QED BY <3>1, <2>1, CurIsKey
  <2>5. ASSUME NEW k \in DOMAIN provider, SettlePayout(k) PROVE NeverOverdrawn'
    <3>1. k.agent \in Agents /\ k.amount \in Nat
      BY DEF TypeOK, Key
    <3>2. UNCHANGED agents \/ Restore(k.agent, k.amount)
      BY <2>5 DEF SettlePayout
    <3> QED BY <3>1, <3>2, <2>1, <2>2
  <2>6. ASSUME NEW a \in Agents, Credit(a) PROVE NeverOverdrawn'
    <3>1. CreditAmount[a] \in Nat
      BY PayoutAssumption
    <3>2. agents' = [agents EXCEPT ![a].balance_usd = @ + CreditAmount[a]]
      BY <2>6 DEF Credit
    <3> QED BY <2>0, <3>1, <3>2 DEF NeverOverdrawn, AgentRow
  <2>8. CASE Crash
    <3>1. \/ UNCHANGED agents
          \/ \E s \in Sweeps : Paying(s) /\ Restore(sweep[s].cur.agent, sweep[s].cur.amount)
      BY <2>8 DEF Crash, Paying
    <3> QED BY <3>1, <2>1, <2>2, CurIsKey
  <2>9. ASSUME NEW s \in Sweeps,
               StartSweep(s) \/ SendTransfer(s) \/ TransferAccepted(s) \/ PollReturns(s)
        PROVE  NeverOverdrawn'
    BY <2>9, <2>2 DEF StartSweep, SendTransfer, TransferAccepted, PollReturns
  <2>10. ASSUME NEW k \in DOMAIN provider, ProviderDecides(k) PROVE NeverOverdrawn'
    BY <2>10, <2>2 DEF ProviderDecides
  <2>11. CASE NewDay \/ UNCHANGED vars
    BY <2>11, <2>2 DEF NewDay, vars
  <2> QED BY <2>3, <2>4, <2>5, <2>6, <2>8, <2>9, <2>10, <2>11 DEF Next
<1> QED BY <1>1, <1>2, TypeCorrect, PTL DEF Spec

-----------------------------------------------------------------------------
(* Keys: what relates the sweeps, payout_logs and the provider. *)

\* The strengthening of OneTransferPerKey and TransfersAreLogged.
KeysInv ==
  /\ DOMAIN provider \subseteq DOMAIN payout_logs
  /\ \A k \in DOMAIN provider : provider[k].requests <= 1
  /\ \A s \in Sweeps : Paying(s) => /\ sweep[s].cur \in DOMAIN payout_logs
                                    /\ sweep[s].pc = "prepare" => sweep[s].cur \notin DOMAIN provider
                                    /\ sweep[s].pc = "poll" => sweep[s].cur \in DOMAIN provider
  /\ \A s, t \in Sweeps : (Paying(s) /\ Paying(t) /\ sweep[s].cur = sweep[t].cur) => s = t

\* When a sweep goes on to its next agent, or returns, it pays nobody, and the
\* others do not notice.
LEMMA OthersStay ==
  ASSUME TypeOK, NEW s \in Sweeps, AgentDone(s) \/ \E rec : Continue(s, rec)
  PROVE  ~Paying(s)' /\ \A r \in Sweeps : r # s => sweep'[r] = sweep[r]
<1>1. sweep \in [Sweeps -> SweepState]
  BY DEF TypeOK
<1>2. PICK st : sweep' = [sweep EXCEPT ![s] = st] /\ st.pc \in {"idle", "next"}
  <2>1. CASE AgentDone(s)
    <3>1. CASE sweep[s].todo = {}
      <4>1. sweep' = [sweep EXCEPT ![s] = Idle]
        BY <2>1, <3>1 DEF AgentDone
      <4>2. Idle.pc = "idle"
        BY DEF Idle
      <4> QED BY <4>1, <4>2
    <3>2. CASE sweep[s].todo # {}
      <4> DEFINE st == [sweep[s] EXCEPT !.pc = "next", !.cur = NoKey]
      <4>1. sweep' = [sweep EXCEPT ![s] = st]
        BY <2>1, <3>2 DEF AgentDone
      <4>2. st.pc = "next"
        BY <1>1 DEF SweepState
      <4> HIDE DEF st
      <4> QED BY <4>1, <4>2
    <3> QED BY <3>1, <3>2
  <2>2. ASSUME NEW rec, Continue(s, rec)
        PROVE  \E st : sweep' = [sweep EXCEPT ![s] = st] /\ st.pc \in {"idle", "next"}
    <3> DEFINE rest == sweep[s].todo \ {rec}
               st   == [pc |-> "next", todo |-> rest, day |-> sweep[s].day, cur |-> NoKey]
    <3>1. CASE rest = {}
      <4>1. sweep' = [sweep EXCEPT ![s] = Idle]
        BY <2>2, <3>1 DEF Continue
      <4>2. Idle.pc = "idle"
        BY DEF Idle
      <4> QED BY <4>1, <4>2
    <3>2. CASE rest # {}
      <4>1. sweep' = [sweep EXCEPT ![s] = st]
        BY <2>2, <3>2 DEF Continue
      <4>2. st.pc = "next"
        OBVIOUS
      <4> HIDE DEF st
      <4> QED BY <4>1, <4>2
    <3> QED BY <3>1, <3>2
  <2> QED BY <2>1, <2>2
<1> QED BY <1>1, <1>2 DEF Paying

\* A step after which nobody pays who did not, no row or transfer is gone and no
\* transfer is new, keeps KeysInv.
LEMMA KeysKept ==
  ASSUME TypeOK, KeysInv,
         \A r \in Sweeps : Paying(r)' => /\ Paying(r)
                                         /\ sweep'[r].cur = sweep[r].cur
                                         /\ sweep'[r].pc = "prepare" => sweep[r].pc = "prepare"
                                         /\ sweep'[r].pc = "poll" =>
                                              sweep[r].pc = "poll" \/ sweep[r].cur \in DOMAIN provider,
         DOMAIN payout_logs \subseteq DOMAIN payout_logs',
         DOMAIN provider' = DOMAIN provider,
         \A k \in DOMAIN provider : provider'[k].requests = provider[k].requests
  PROVE  KeysInv'
  BY DEF KeysInv

LEMMA LogStatusDomain ==
  ASSUME NEW k, NEW status, LogStatus(k, status)
  PROVE  DOMAIN payout_logs' = DOMAIN payout_logs
  BY DEF LogStatus

LEMMA ReserveKeys ==
  ASSUME TypeOK, KeysInv, NEW s \in Sweeps, NEW rec \in sweep[s].todo, ~Paying(s),
         Disbursable(rec.balance_usd) \in 1 .. HardCap, Reserve(s, rec)
  PROVE  KeysInv'
<1> DEFINE k == KeyOf(s, rec)
<1>1. k \in Key /\ k \notin DOMAIN payout_logs
  BY KeyOfOK DEF Reserve, KeyUsed
<1>2. DOMAIN payout_logs' = DOMAIN payout_logs \cup {k} /\ provider' = provider
  BY DEF Reserve, Put
<1>3. sweep' = [sweep EXCEPT ![s].pc = "prepare", ![s].todo = @ \ {rec}, ![s].cur = k]
  BY DEF Reserve
<1> HIDE DEF k
<1>4. sweep \in [Sweeps -> SweepState]
  BY DEF TypeOK
<1>5. sweep'[s].cur = k /\ sweep'[s].pc = "prepare"
  BY <1>3, <1>4 DEF SweepState
<1>6. \A r \in Sweeps : r # s => sweep'[r] = sweep[r]
  BY <1>3, <1>4
<1>7. \A r \in Sweeps : r # s /\ Paying(r) => sweep[r].cur # k
  BY <1>1 DEF KeysInv
<1>8. \A r \in Sweeps : r # s => (Paying(r)' <=> Paying(r))
  BY <1>6 DEF Paying
<1>9. \A r \in Sweeps : Paying(r)' => /\ sweep'[r].cur \in DOMAIN payout_logs'
                                      /\ sweep'[r].pc = "prepare" => sweep'[r].cur \notin DOMAIN provider'
                                      /\ sweep'[r].pc = "poll" => sweep'[r].cur \in DOMAIN provider'
  BY <1>1, <1>2, <1>5, <1>6, <1>8 DEF KeysInv
<1>10. \A r, t \in Sweeps : (Paying(r)' /\ Paying(t)' /\ sweep'[r].cur = sweep'[t].cur) => r = t
  BY <1>5, <1>6, <1>7, <1>8 DEF KeysInv
<1> QED BY <1>2, <1>9, <1>10 DEF KeysInv

LEMMA SendKeys ==
  ASSUME TypeOK, KeysInv, NEW s \in Sweeps, SendTransfer(s)
  PROVE  KeysInv'
<1> DEFINE k == sweep[s].cur
<1>1. Paying(s) /\ sweep[s].pc = "prepare" /\ k \in DOMAIN payout_logs /\ k \notin DOMAIN provider
  BY DEF SendTransfer, KeysInv, Paying
<1>2. sweep' = [sweep EXCEPT ![s].pc = "sent"] /\ payout_logs' = payout_logs
  BY DEF SendTransfer
<1>3. \/ provider' = Put(provider, k, [requests |-> 1, state |-> "accepted"])
      \/ provider' = provider
  BY <1>1 DEF SendTransfer
<1>4. sweep \in [Sweeps -> SweepState]
  BY DEF TypeOK
<1> HIDE DEF k
<1>5. /\ DOMAIN provider' \subseteq DOMAIN provider \cup {k} /\ DOMAIN provider \subseteq DOMAIN provider'
      /\ \A j \in DOMAIN provider' : provider'[j].requests <= 1
  BY <1>3 DEF Put, KeysInv
<1>6. /\ \A r \in Sweeps : /\ Paying(r)' => Paying(r)
                           /\ sweep'[r].cur = sweep[r].cur
                           /\ r # s => sweep'[r] = sweep[r]
      /\ sweep'[s].pc = "sent"
  BY <1>1, <1>2, <1>4 DEF SweepState, Paying
<1>7. \A r \in Sweeps : (r # s /\ Paying(r)) => sweep[r].cur # k
  BY <1>1 DEF KeysInv, k
<1> QED BY <1>1, <1>2, <1>5, <1>6, <1>7 DEF KeysInv

LEMMA KeysInductive == TypeOK /\ KeysInv /\ [Next]_vars => KeysInv'
<1> SUFFICES ASSUME TypeOK, KeysInv, [Next]_vars PROVE KeysInv'
  OBVIOUS
<1>1. ASSUME NEW s \in Sweeps, StartSweep(s) PROVE KeysInv'
  <2>1. ~Paying(s)' /\ \A r \in Sweeps : r # s => sweep'[r] = sweep[r]
    BY <1>1 DEF StartSweep, TypeOK, Paying
  <2>2. \A r \in Sweeps : Paying(r)' => Paying(r) /\ sweep'[r] = sweep[r]
    BY <2>1 DEF Paying
  <2> QED BY <1>1, <2>2, KeysKept DEF StartSweep
<1>2. ASSUME NEW s \in Sweeps, ProcessAgent(s) PROVE KeysInv'
  <2>1. ~Paying(s)
    BY <1>2 DEF ProcessAgent, Paying
  <2>2. PICK rec \in sweep[s].todo :
          \/ /\ Continue(s, rec) /\ UNCHANGED provider
             /\ payout_logs' = payout_logs \/ \E k, row : payout_logs' = Put(payout_logs, k, row)
          \/ Disbursable(rec.balance_usd) \in 1 .. HardCap /\ Reserve(s, rec)
    BY <1>2 DEF ProcessAgent, Skip, Duplicate, RollBack, ReserveUnreachable
  <2>3. CASE /\ Continue(s, rec) /\ UNCHANGED provider
             /\ payout_logs' = payout_logs \/ \E k, row : payout_logs' = Put(payout_logs, k, row)
    <3>1. \A r \in Sweeps : Paying(r)' => Paying(r) /\ sweep'[r] = sweep[r]
      BY <2>3, OthersStay DEF Paying
    <3>2. DOMAIN payout_logs \subseteq DOMAIN payout_logs'
      BY <2>3 DEF Put
    <3> QED BY <2>3, <3>1, <3>2, KeysKept
  <2>4. CASE Disbursable(rec.balance_usd) \in 1 .. HardCap /\ Reserve(s, rec)
    BY <2>1, <2>4, ReserveKeys
  <2> QED BY <2>2, <2>3, <2>4
<1>3. ASSUME NEW s \in Sweeps, AgentDone(s), UNCHANGED provider,
             \E k, status : LogStatus(k, status)
      PROVE  KeysInv'
  <2>1. \A r \in Sweeps : Paying(r)' => Paying(r) /\ sweep'[r] = sweep[r]
    BY <1>3, OthersStay DEF Paying
  <2>2. DOMAIN payout_logs' = DOMAIN payout_logs
    BY <1>3, LogStatusDomain
  <2> QED BY <1>3, <2>1, <2>2, KeysKept
<1>4. ASSUME NEW s \in Sweeps, DispatchFails(s) \/ PollReturns(s) PROVE KeysInv'
  BY <1>3, <1>4 DEF DispatchFails, PollReturns
<1>5. ASSUME NEW s \in Sweeps, SendTransfer(s) PROVE KeysInv'
  BY <1>5, SendKeys
<1>6. ASSUME NEW s \in Sweeps, TransferAccepted(s) PROVE KeysInv'
  <2>1. CASE sweep' = [sweep EXCEPT ![s].pc = "poll"] /\ UNCHANGED payout_logs
    <3>1. sweep \in [Sweeps -> SweepState] /\ Paying(s)
      BY <1>6 DEF TypeOK, TransferAccepted, Paying
    <3>2. \A r \in Sweeps : Paying(r)' => /\ Paying(r)
                                          /\ sweep'[r].cur = sweep[r].cur
                                          /\ sweep'[r].pc = "prepare" => sweep[r].pc = "prepare"
                                          /\ sweep'[r].pc = "poll" => sweep[r].cur \in DOMAIN provider
      BY <1>6, <2>1, <3>1 DEF SweepState, Paying, KeysInv, TransferAccepted
    <3> QED BY <1>6, <2>1, <3>2, KeysKept DEF TransferAccepted
  <2>2. CASE LogStatus(sweep[s].cur, "processing") /\ AgentDone(s)
    BY <1>3, <1>6, <2>2 DEF TransferAccepted
  <2> QED BY <1>6, <2>1, <2>2 DEF TransferAccepted
<1>7. ASSUME NEW k \in DOMAIN provider, ProviderDecides(k) PROVE KeysInv'
  <2>1. /\ DOMAIN provider' = DOMAIN provider
        /\ \A j \in DOMAIN provider : provider'[j].requests = provider[j].requests
    BY <1>7 DEF ProviderDecides, TypeOK, ProviderRow
  <2> QED BY <1>7, <2>1, KeysKept DEF ProviderDecides, Paying
<1>8. ASSUME NEW k \in DOMAIN provider, SettlePayout(k) PROVE KeysInv'
  <2>1. DOMAIN payout_logs' = DOMAIN payout_logs
    BY <1>8, LogStatusDomain DEF SettlePayout
  <2> QED BY <1>8, <2>1, KeysKept DEF SettlePayout, Paying
<1>9. CASE Crash
  <2>1. DOMAIN payout_logs' = DOMAIN payout_logs
    BY <1>9, LogStatusDomain DEF Crash
  <2>2. \A r \in Sweeps : ~Paying(r)'
    BY <1>9 DEF Crash, Paying, Idle
  <2> QED BY <1>9, <2>1, <2>2, KeysKept DEF Crash
<1>10. CASE (\E a \in Agents : Credit(a)) \/ NewDay \/ UNCHANGED vars
  <2>1. UNCHANGED <<payout_logs, sweep, provider>>
    BY <1>10 DEF Credit, NewDay, vars
  <2> QED BY <2>1, KeysKept DEF Paying
<1> QED BY <1>1, <1>2, <1>4, <1>5, <1>6, <1>7, <1>8, <1>9, <1>10 DEF Next

LEMMA KeysAlways == Spec => []KeysInv
<1>1. Init => KeysInv
  BY DEF Init, KeysInv, Paying, Idle
<1> QED BY <1>1, KeysInductive, TypeCorrect, PTL DEF Spec

\* The provider gets at most one transfer for a key.
THEOREM OneTransfer == Spec => []OneTransferPerKey
<1>1. KeysInv => OneTransferPerKey
  BY DEF KeysInv, OneTransferPerKey
<1> QED BY <1>1, KeysAlways, PTL

\* Every transfer the provider knows has its row, and one sweep at most is paying it.
THEOREM TransfersLogged == Spec => []TransfersAreLogged
<1>1. KeysInv => TransfersAreLogged
  BY DEF KeysInv, TransfersAreLogged
<1> QED BY <1>1, KeysAlways, PTL

-----------------------------------------------------------------------------
(* Statuses: who leaves a row pending, and what a finished row becomes. *)

\* A sweep that is done with its key has given the row another status, and the
\* other rows and sweeps are as they were.
LEMMA SettledOrphans ==
  ASSUME TypeOK, OrphansOnlyFromCrash, NEW s \in Sweeps, AgentDone(s),
         NEW status \in RowStatuses \ {"pending"}, LogStatus(sweep[s].cur, status),
         UNCHANGED crashes
  PROVE  OrphansOnlyFromCrash'
<1> SUFFICES ASSUME crashes' = 0, NEW k \in DOMAIN payout_logs', payout_logs'[k].status = "pending"
             PROVE  Owned(k)'
  BY DEF OrphansOnlyFromCrash
<1>1. /\ k \in DOMAIN payout_logs /\ k # sweep[s].cur
      /\ payout_logs'[k] = payout_logs[k]
  BY LogStatusOK
<1>2. PICK r \in Sweeps : Paying(r) /\ sweep[r].cur = k
  BY <1>1 DEF OrphansOnlyFromCrash, Owned
<1>3. sweep'[r] = sweep[r]
  BY <1>1, <1>2, OthersStay
<1> QED BY <1>2, <1>3 DEF Owned, Paying

\* A step that leaves the rows alone, and whoever pays paying the same key.
LEMMA OrphansKept ==
  ASSUME OrphansOnlyFromCrash, UNCHANGED <<payout_logs, crashes>>,
         \A r \in Sweeps : Paying(r) => Paying(r)' /\ sweep'[r].cur = sweep[r].cur
  PROVE  OrphansOnlyFromCrash'
  BY DEF OrphansOnlyFromCrash, Owned

LEMMA ProcessOrphans ==
  ASSUME TypeOK, OrphansOnlyFromCrash, NEW s \in Sweeps, ProcessAgent(s)
  PROVE  OrphansOnlyFromCrash'
<1>1. ~Paying(s) /\ UNCHANGED crashes
  BY DEF ProcessAgent, Paying
<1>2. PICK rec \in sweep[s].todo :
        \/ Continue(s, rec) /\ UNCHANGED payout_logs
        \/ /\ Disbursable(rec.balance_usd) \in 1 .. HardCap
           /\ Reserve(s, rec) \/ ReserveUnreachable(s, rec)
  BY DEF ProcessAgent, Skip, Duplicate, RollBack
<1>3. CASE Continue(s, rec) /\ UNCHANGED payout_logs
  <2>1. \A r \in Sweeps : Paying(r) => Paying(r)' /\ sweep'[r].cur = sweep[r].cur
    BY <1>1, <1>3, OthersStay DEF Paying
  <2> QED BY <1>1, <1>3, <2>1, OrphansKept
<1>4. CASE Disbursable(rec.balance_usd) \in 1 .. HardCap /\ Reserve(s, rec)
  <2> SUFFICES ASSUME crashes' = 0, NEW k \in DOMAIN payout_logs', payout_logs'[k].status = "pending"
               PROVE  Owned(k)'
    BY DEF OrphansOnlyFromCrash
  <2>1. sweep \in [Sweeps -> SweepState]
    BY DEF TypeOK
  <2> DEFINE new == KeyOf(s, rec)
  <2>2. /\ sweep' = [sweep EXCEPT ![s].pc = "prepare", ![s].todo = @ \ {rec}, ![s].cur = new]
        /\ payout_logs' = Put(payout_logs, new, NewLog)
    BY <1>4 DEF Reserve
  <2> HIDE DEF new
  <2>3. CASE k = new
    BY <2>1, <2>2, <2>3 DEF Owned, Paying, SweepState
  <2>4. CASE k # new
    <3>1. k \in DOMAIN payout_logs /\ payout_logs'[k] = payout_logs[k]
      BY <2>2, <2>4 DEF Put
    <3>2. PICK r \in Sweeps : Paying(r) /\ sweep[r].cur = k
      BY <1>1, <3>1 DEF OrphansOnlyFromCrash, Owned
    <3>3. sweep'[r] = sweep[r]
      BY <1>1, <2>1, <2>2, <3>2
    <3> QED BY <3>2, <3>3 DEF Owned, Paying
  <2> QED BY <2>3, <2>4
<1>5. CASE Disbursable(rec.balance_usd) \in 1 .. HardCap /\ ReserveUnreachable(s, rec)
  <2> SUFFICES ASSUME crashes' = 0, NEW k \in DOMAIN payout_logs', payout_logs'[k].status = "pending"
               PROVE  Owned(k)'
    BY DEF OrphansOnlyFromCrash
  <2>1. k \in DOMAIN payout_logs /\ payout_logs'[k] = payout_logs[k]
    BY <1>5 DEF ReserveUnreachable, Put, NewLog
  <2>2. PICK r \in Sweeps : Paying(r) /\ sweep[r].cur = k
    BY <1>1, <2>1 DEF OrphansOnlyFromCrash, Owned
  <2>3. sweep'[r] = sweep[r]
    BY <1>1, <1>5, <2>2, OthersStay DEF ReserveUnreachable
  <2> QED BY <2>2, <2>3 DEF Owned, Paying
<1> QED BY <1>2, <1>3, <1>4, <1>5

\* Without a crash every pending row has a sweep at work on it.
THEOREM OrphansFromCrash == Spec => []OrphansOnlyFromCrash
<1>1. Init => OrphansOnlyFromCrash
  BY DEF Init, OrphansOnlyFromCrash
<1>2. TypeOK /\ OrphansOnlyFromCrash /\ [Next]_vars => OrphansOnlyFromCrash'
  <2> SUFFICES ASSUME TypeOK, OrphansOnlyFromCrash, [Next]_vars PROVE OrphansOnlyFromCrash'
    OBVIOUS
  <2>0. sweep \in [Sweeps -> SweepState]
    BY DEF TypeOK
  <2>1. ASSUME NEW s \in Sweeps, StartSweep(s) PROVE OrphansOnlyFromCrash'
    <3>1. \A r \in Sweeps : Paying(r) => Paying(r)' /\ sweep'[r].cur = sweep[r].cur
      BY <2>0, <2>1 DEF StartSweep, Paying
    <3> QED BY <2>1, <3>1, OrphansKept DEF StartSweep
  <2>2. ASSUME NEW s \in Sweeps, ProcessAgent(s) PROVE OrphansOnlyFromCrash'
    BY <2>2, ProcessOrphans
  <2>3. ASSUME NEW s \in Sweeps, DispatchFails(s) \/ PollReturns(s) PROVE OrphansOnlyFromCrash'
    <3>1. /\ AgentDone(s) /\ UNCHANGED crashes
          /\ \E status \in RowStatuses \ {"pending"} : LogStatus(sweep[s].cur, status)
      BY <2>3 DEF DispatchFails, PollReturns
    <3> QED BY <3>1, SettledOrphans
  <2>4. ASSUME NEW s \in Sweeps, SendTransfer(s) PROVE OrphansOnlyFromCrash'
    <3>1. \A r \in Sweeps : Paying(r) => Paying(r)' /\ sweep'[r].cur = sweep[r].cur
      BY <2>0, <2>4 DEF SendTransfer, Paying, SweepState
    <3> QED BY <2>4, <3>1, OrphansKept DEF SendTransfer
  <2>5. ASSUME NEW s \in Sweeps, TransferAccepted(s) PROVE OrphansOnlyFromCrash'
    <3>1. CASE sweep' = [sweep EXCEPT ![s].pc = "poll"] /\ UNCHANGED payout_logs
      <4>1. \A r \in Sweeps : Paying(r) => Paying(r)' /\ sweep'[r].cur = sweep[r].cur
        BY <2>0, <3>1 DEF Paying, SweepState
      <4> QED BY <2>5, <3>1, <4>1, OrphansKept DEF TransferAccepted
    <3>2. CASE LogStatus(sweep[s].cur, "processing") /\ AgentDone(s)
      BY <2>5, <3>2, SettledOrphans DEF TransferAccepted
    <3> QED BY <2>5, <3>1, <3>2 DEF TransferAccepted
  <2>6. ASSUME NEW k \in DOMAIN provider, SettlePayout(k) PROVE OrphansOnlyFromCrash'
    <3>1. /\ UNCHANGED <<sweep, crashes>>
          /\ \E status \in RowStatuses \ {"pending"} : LogStatus(k, status)
      BY <2>6 DEF SettlePayout
    <3>2. /\ DOMAIN payout_logs' = DOMAIN payout_logs
          /\ \A j \in DOMAIN payout_logs :
               payout_logs'[j].status = "pending" => payout_logs'[j] = payout_logs[j]
      BY <3>1, LogStatusOK
    <3> QED BY <3>1, <3>2 DEF OrphansOnlyFromCrash, Owned, Paying
  <2>7. CASE Crash
    BY <2>7 DEF Crash, OrphansOnlyFromCrash, TypeOK
  <2>8. CASE \/ \E k \in DOMAIN provider : ProviderDecides(k)
             \/ \E a \in Agents : Credit(a)
             \/ NewDay \/ UNCHANGED vars
    <3>1. UNCHANGED <<payout_logs, sweep, crashes>>
      BY <2>8 DEF ProviderDecides, Credit, NewDay, vars
    <3> QED BY <3>1, OrphansKept DEF Paying
  <2> QED BY <2>1, <2>2, <2>3, <2>4, <2>5, <2>6, <2>7, <2>8 DEF Next
<1> QED BY <1>1, <1>2, TypeCorrect, PTL DEF Spec

\* As long as nothing calls settlePayout, a row that is being paid is pending.
PaidIsPending == \A s \in Sweeps : Paying(s) => payout_logs[sweep[s].cur].status = "pending"

\* What SuccessIsFinal says of one step.
SuccessKept ==
  \A k \in DOMAIN payout_logs :
    /\ k \in DOMAIN payout_logs'
    /\ payout_logs[k].status = "success" => payout_logs'[k].status = "success"

\* A sweep that is done with its key touches no other row and no other sweep.
LEMMA SettledPending ==
  ASSUME TypeOK, KeysInv, PaidIsPending, NEW s \in Sweeps, Paying(s), AgentDone(s),
         NEW status \in RowStatuses, LogStatus(sweep[s].cur, status)
  PROVE  PaidIsPending' /\ SuccessKept
<1>1. /\ DOMAIN payout_logs' = DOMAIN payout_logs
      /\ \A j \in DOMAIN payout_logs : j # sweep[s].cur => payout_logs'[j] = payout_logs[j]
  BY LogStatusOK
<1>2. payout_logs[sweep[s].cur].status = "pending"
  BY DEF PaidIsPending
<1>3. ASSUME NEW r \in Sweeps, Paying(r)'
      PROVE  payout_logs'[sweep'[r].cur].status = "pending"
  <2>1. r # s /\ sweep'[r] = sweep[r] /\ Paying(r)
    BY <1>3, OthersStay DEF Paying
  <2>2. sweep[r].cur # sweep[s].cur /\ sweep[r].cur \in DOMAIN payout_logs
    BY <2>1 DEF KeysInv
  <2> QED BY <1>1, <2>1, <2>2 DEF PaidIsPending
<1> QED BY <1>1, <1>2, <1>3 DEF PaidIsPending, SuccessKept

\* A step that leaves the rows alone and lets nobody pay who did not.
LEMMA PendingKept ==
  ASSUME PaidIsPending, UNCHANGED payout_logs,
         \A r \in Sweeps : Paying(r)' => Paying(r) /\ sweep'[r].cur = sweep[r].cur
  PROVE  PaidIsPending' /\ SuccessKept
  BY DEF PaidIsPending, SuccessKept

LEMMA ProcessPending ==
  ASSUME TypeOK, KeysInv, PaidIsPending, NEW s \in Sweeps, ProcessAgent(s)
  PROVE  PaidIsPending' /\ SuccessKept
<1>1. ~Paying(s)
  BY DEF ProcessAgent, Paying
<1>2. PICK rec \in sweep[s].todo :
        \/ Continue(s, rec) /\ UNCHANGED payout_logs
        \/ /\ Disbursable(rec.balance_usd) \in 1 .. HardCap
           /\ Reserve(s, rec) \/ ReserveUnreachable(s, rec)
  BY DEF ProcessAgent, Skip, Duplicate, RollBack
<1>3. CASE Continue(s, rec) /\ UNCHANGED payout_logs
  <2>1. \A r \in Sweeps : Paying(r)' => Paying(r) /\ sweep'[r].cur = sweep[r].cur
    BY <1>3, OthersStay DEF Paying
  <2> QED BY <1>3, <2>1, PendingKept
<1>4. CASE Reserve(s, rec) \/ ReserveUnreachable(s, rec)
  <2> DEFINE new == KeyOf(s, rec)
  <2>1. /\ new \notin DOMAIN payout_logs
        /\ \E row : payout_logs' = Put(payout_logs, new, row)
    BY <1>4 DEF Reserve, ReserveUnreachable, KeyUsed
  <2>2. \/ /\ sweep' = [sweep EXCEPT ![s].pc = "prepare", ![s].todo = @ \ {rec}, ![s].cur = new]
           /\ payout_logs' = Put(payout_logs, new, NewLog)
        \/ Continue(s, rec)
    BY <1>4 DEF Reserve, ReserveUnreachable
  <2>3. sweep \in [Sweeps -> SweepState]
    BY DEF TypeOK
  <2> HIDE DEF new
  <2>4. \A k \in DOMAIN payout_logs : k \in DOMAIN payout_logs' /\ payout_logs'[k] = payout_logs[k]
    BY <2>1 DEF Put
  <2>5. \A r \in Sweeps : r # s => sweep'[r] = sweep[r]
    BY <2>2, <2>3, OthersStay
  <2>6. Paying(s)' => sweep'[s].cur = new /\ payout_logs' = Put(payout_logs, new, NewLog)
    BY <2>2, <2>3, OthersStay DEF SweepState
  <2>7. Put(payout_logs, new, NewLog)[new].status = "pending"
    BY DEF Put, NewLog
  <2>8. ASSUME NEW r \in Sweeps, Paying(r)'
        PROVE  payout_logs'[sweep'[r].cur].status = "pending"
    <3>1. CASE r = s
      BY <2>6, <2>7, <2>8, <3>1
    <3>2. CASE r # s
      <4>1. Paying(r) /\ sweep'[r] = sweep[r]
        BY <2>5, <2>8, <3>2 DEF Paying
      <4>2. sweep[r].cur \in DOMAIN payout_logs
        BY <4>1 DEF KeysInv
      <4> QED BY <2>4, <4>1, <4>2 DEF PaidIsPending
    <3> QED BY <3>1, <3>2
  <2> QED BY <2>4, <2>8 DEF PaidIsPending, SuccessKept
<1> QED BY <1>2, <1>3, <1>4

\* A row says success only if the provider has paid.
SuccessIsPaid ==
  \A k \in DOMAIN payout_logs :
    payout_logs[k].status = "success" => k \in DOMAIN provider /\ provider[k].state = "paid"

\* What holds of rows and sweeps until settlePayout is called.
Unsettled == webhooks = 0 => PaidIsPending /\ SuccessIsPaid

\* A step that lets nobody pay who did not and gives no row success.
LEMMA PaidKept ==
  ASSUME SuccessIsPaid,
         \A k \in DOMAIN payout_logs' : payout_logs'[k].status = "success" =>
            k \in DOMAIN payout_logs /\ payout_logs[k].status = "success",
         \A k \in DOMAIN provider : k \in DOMAIN provider' /\
            (provider[k].state = "paid" => provider'[k].state = "paid")
  PROVE  SuccessIsPaid'
  BY DEF SuccessIsPaid

\* A sweep that is done with its key gives it success only when the provider has paid.
LEMMA DonePaid ==
  ASSUME TypeOK, KeysInv, SuccessIsPaid, NEW s \in Sweeps, Paying(s), UNCHANGED provider,
         NEW status \in RowStatuses, LogStatus(sweep[s].cur, status),
         status = "success" => sweep[s].pc = "poll" /\ provider[sweep[s].cur].state = "paid"
  PROVE  SuccessIsPaid'
<1>1. /\ DOMAIN payout_logs' = DOMAIN payout_logs
      /\ \A j \in DOMAIN payout_logs : j # sweep[s].cur => payout_logs'[j] = payout_logs[j]
      /\ sweep[s].cur \in DOMAIN payout_logs => payout_logs'[sweep[s].cur].status = status
  BY LogStatusOK
<1>2. sweep[s].pc = "poll" => sweep[s].cur \in DOMAIN provider
  BY DEF KeysInv
<1> QED BY <1>1, <1>2 DEF SuccessIsPaid

LEMMA UnsettledStep ==
  ASSUME TypeOK, KeysInv, PaidIsPending, SuccessIsPaid, [Next]_vars, webhooks' = 0
  PROVE  PaidIsPending' /\ SuccessIsPaid' /\ SuccessKept
<1>0. sweep \in [Sweeps -> SweepState] /\ webhooks \in Nat
  BY DEF TypeOK
<1>1. ASSUME UNCHANGED <<payout_logs, provider>>,
             \A r \in Sweeps : Paying(r)' => Paying(r) /\ sweep'[r].cur = sweep[r].cur
      PROVE  PaidIsPending' /\ SuccessIsPaid' /\ SuccessKept
  BY <1>1, PendingKept DEF SuccessIsPaid
<1>2. ASSUME NEW s \in Sweeps, StartSweep(s) PROVE PaidIsPending' /\ SuccessIsPaid' /\ SuccessKept
  <2>1. \A r \in Sweeps : Paying(r)' => Paying(r) /\ sweep'[r].cur = sweep[r].cur
    BY <1>0, <1>2 DEF StartSweep, Paying
  <2> QED BY <1>1, <1>2, <2>1 DEF StartSweep
<1>3. ASSUME NEW s \in Sweeps, ProcessAgent(s) PROVE PaidIsPending' /\ SuccessIsPaid' /\ SuccessKept
  <2>1. UNCHANGED provider /\ \A k \in DOMAIN payout_logs' : payout_logs'[k].status = "success" =>
            k \in DOMAIN payout_logs /\ payout_logs[k].status = "success"
    BY <1>3 DEF ProcessAgent, Skip, Duplicate, RollBack, Reserve, ReserveUnreachable, Put, NewLog
  <2>2. SuccessIsPaid'
    BY <2>1, PaidKept
  <2> QED BY <1>3, <2>2, ProcessPending
<1>4. ASSUME NEW s \in Sweeps, DispatchFails(s) \/ PollReturns(s)
      PROVE  PaidIsPending' /\ SuccessIsPaid' /\ SuccessKept
  <2>1. PICK status \in RowStatuses :
          /\ LogStatus(sweep[s].cur, status)
          /\ status = "success" => sweep[s].pc = "poll" /\ provider[sweep[s].cur].state = "paid"
    BY <1>4 DEF DispatchFails, PollReturns
  <2>2. Paying(s) /\ AgentDone(s) /\ UNCHANGED provider
    BY <1>4 DEF DispatchFails, PollReturns, Paying
  <2> QED BY <2>1, <2>2, SettledPending, DonePaid
<1>5. ASSUME NEW s \in Sweeps, SendTransfer(s) PROVE PaidIsPending' /\ SuccessIsPaid' /\ SuccessKept
  <2>1. \A r \in Sweeps : Paying(r)' => Paying(r) /\ sweep'[r].cur = sweep[r].cur
    BY <1>0, <1>5 DEF SendTransfer, Paying, SweepState
  <2>2. sweep[s].cur \notin DOMAIN provider
    BY <1>5 DEF SendTransfer, KeysInv, Paying
  <2>3. UNCHANGED payout_logs
        /\ \A k \in DOMAIN provider : k \in DOMAIN provider' /\ provider'[k] = provider[k]
    BY <1>5, <2>2 DEF SendTransfer, Put
  <2> QED BY <2>1, <2>3, PendingKept DEF SuccessIsPaid
<1>6. ASSUME NEW s \in Sweeps, TransferAccepted(s) PROVE PaidIsPending' /\ SuccessIsPaid' /\ SuccessKept
  <2>0. Paying(s) /\ UNCHANGED provider
    BY <1>6 DEF TransferAccepted, Paying
  <2>1. CASE sweep' = [sweep EXCEPT ![s].pc = "poll"] /\ UNCHANGED payout_logs
    <3>1. \A r \in Sweeps : Paying(r)' => Paying(r) /\ sweep'[r].cur = sweep[r].cur
      BY <1>0, <2>0, <2>1 DEF Paying, SweepState
    <3> QED BY <1>1, <2>0, <2>1, <3>1
  <2>2. CASE LogStatus(sweep[s].cur, "processing") /\ AgentDone(s)
    BY <2>0, <2>2, SettledPending, DonePaid
  <2> QED BY <1>6, <2>1, <2>2 DEF TransferAccepted
<1>7. CASE Crash
  <2>1. \A r \in Sweeps : ~Paying(r)'
    BY <1>7 DEF Crash, Paying, Idle
  <2>2. CASE UNCHANGED payout_logs
    BY <1>1, <1>7, <2>1, <2>2 DEF Crash
  <2>3. ASSUME NEW k \in DOMAIN provider, provider[k].state = "declined", LogStatus(k, "failed")
        PROVE  PaidIsPending' /\ SuccessIsPaid' /\ SuccessKept
    <3>1. /\ DOMAIN payout_logs' = DOMAIN payout_logs
          /\ \A j \in DOMAIN payout_logs : j # k => payout_logs'[j] = payout_logs[j]
          /\ k \in DOMAIN payout_logs => payout_logs'[k].status = "failed"
      BY <2>3, LogStatusOK
    <3>2. k \in DOMAIN payout_logs => payout_logs[k].status # "success"
      BY <2>3 DEF SuccessIsPaid
    <3>3. UNCHANGED provider
      BY <1>7 DEF Crash
    <3> QED BY <2>1, <3>1, <3>2, <3>3 DEF PaidIsPending, SuccessIsPaid, SuccessKept
  <2> QED BY <1>7, <2>2, <2>3 DEF Crash
<1>8. ASSUME NEW k \in DOMAIN provider, ProviderDecides(k) PROVE PaidIsPending' /\ SuccessIsPaid' /\ SuccessKept
  <2>1. UNCHANGED <<payout_logs, sweep>>
    BY <1>8 DEF ProviderDecides
  <2>2. /\ DOMAIN provider' = DOMAIN provider
        /\ \A j \in DOMAIN provider : provider[j].state = "paid" => provider'[j] = provider[j]
    BY <1>8 DEF ProviderDecides, TypeOK, ProviderRow
  <2>3. SuccessIsPaid'
    BY <2>1, <2>2 DEF SuccessIsPaid
  <2> QED BY <2>1, <2>3, PendingKept DEF Paying
<1>9. ASSUME NEW k \in DOMAIN provider PROVE ~SettlePayout(k)
  BY <1>0 DEF SettlePayout
<1>10. CASE (\E a \in Agents : Credit(a)) \/ NewDay \/ UNCHANGED vars
  <2>1. UNCHANGED <<payout_logs, sweep, provider>>
    BY <1>10 DEF Credit, NewDay, vars
  <2> QED BY <1>1, <2>1 DEF Paying
<1> QED BY <1>2, <1>3, <1>4, <1>5, <1>6, <1>7, <1>8, <1>9, <1>10 DEF Next

\* The count of notifications never goes back, and rows are never deleted.
LEMMA WebhooksAndRowsStay ==
  ASSUME TypeOK, [Next]_vars
  PROVE  (webhooks' = 0 => webhooks = 0) /\ DOMAIN payout_logs \subseteq DOMAIN payout_logs'
<1>1. webhooks \in Nat
  BY DEF TypeOK
<1>2. webhooks' = 0 => webhooks = 0
  <2>1. ASSUME NEW s \in Sweeps,
               \/ StartSweep(s) \/ ProcessAgent(s) \/ DispatchFails(s)
               \/ SendTransfer(s) \/ TransferAccepted(s) \/ PollReturns(s)
        PROVE  UNCHANGED webhooks
    BY <2>1 DEF StartSweep, ProcessAgent, DispatchFails, SendTransfer, TransferAccepted, PollReturns
  <2>2. ASSUME NEW k, ProviderDecides(k) PROVE UNCHANGED webhooks
    BY <2>2 DEF ProviderDecides
  <2>3. ASSUME NEW k, SettlePayout(k) PROVE webhooks' # 0
    BY <1>1, <2>3 DEF SettlePayout
  <2>4. CASE (\E a \in Agents : Credit(a)) \/ NewDay \/ Crash \/ UNCHANGED vars
    BY <2>4 DEF Credit, NewDay, Crash, vars
  <2> QED BY <2>1, <2>2, <2>3, <2>4 DEF Next
<1>3. DOMAIN payout_logs \subseteq DOMAIN payout_logs'
  BY ZenonT(60) DEF Next, StartSweep, ProcessAgent, Skip, Duplicate, RollBack, Reserve, ReserveUnreachable,
         DispatchFails, SendTransfer, TransferAccepted, PollReturns, ProviderDecides,
         SettlePayout, Credit, NewDay, Crash, vars, LogStatus, Put
<1> QED BY <1>2, <1>3

LEMMA UnsettledAlways == Spec => []Unsettled
<1>1. Init => Unsettled
  BY DEF Init, Unsettled, PaidIsPending, SuccessIsPaid, Paying, Idle
<1>2. TypeOK /\ KeysInv /\ Unsettled /\ [Next]_vars => Unsettled'
  BY UnsettledStep, WebhooksAndRowsStay DEF Unsettled
<1> QED BY <1>1, <1>2, TypeCorrect, KeysAlways, PTL DEF Spec

\* No row is deleted, and one that reached success keeps it through every sweep and crash as
\* long as nothing calls settlePayout, which nothing in the code does.
THEOREM SuccessFinal == Spec => SuccessIsFinal
<1>1. TypeOK /\ KeysInv /\ Unsettled /\ [Next]_vars =>
        \A k \in DOMAIN payout_logs :
          /\ k \in DOMAIN payout_logs'
          /\ webhooks' = 0 /\ payout_logs[k].status = "success" => payout_logs'[k].status = "success"
  BY UnsettledStep, WebhooksAndRowsStay DEF Unsettled, SuccessKept
<1> QED BY <1>1, TypeCorrect, KeysAlways, UnsettledAlways, PTL DEF Spec, SuccessIsFinal

-----------------------------------------------------------------------------
(* Sums: what an agent has and what is paid out to it. *)

Amounts == [k \in Key |-> k.amount]

\* The rows that count against what an agent ever had.
Counted(a) ==
  {k \in DOMAIN payout_logs : k.agent = a /\
     \/ payout_logs[k].status \in {"processing", "success"}
     \/ payout_logs[k].status = "pending" /\ Owned(k)}

AccountOK(a) == agents[a].balance_usd + Sum(Amounts, Counted(a)) <= earned[a]

RowsFinite == IsFiniteSet(DOMAIN payout_logs)

\* The strengthening of NothingCountedTwice.
AccountsInv == RowsFinite /\ (webhooks = 0 => \A a \in Agents : AccountOK(a))

LEMMA CountedFinite ==
  ASSUME TypeOK, RowsFinite, NEW a
  PROVE  /\ IsFiniteSet(Counted(a)) /\ Counted(a) \subseteq Key
         /\ \A k \in Counted(a) : Amounts[k] = k.amount /\ Amounts[k] \in Nat
         /\ Sum(Amounts, Counted(a)) \in Int
<1>1. IsFiniteSet(Counted(a)) /\ Counted(a) \subseteq Key
  BY FS_Subset DEF RowsFinite, Counted, TypeOK
<1>2. \A k \in Counted(a) : Amounts[k] = k.amount /\ Amounts[k] \in Nat
  BY <1>1 DEF Amounts, Key
<1> QED BY <1>1, <1>2, SumIsInt

LEMMA TotalIsSum ==
  ASSUME TypeOK, RowsFinite, NEW a
  PROVE  Total(a, LAMBDA k : \/ payout_logs[k].status \in {"processing", "success"}
                             \/ payout_logs[k].status = "pending" /\ Owned(k))
           = Sum(Amounts, Counted(a))
<1> DEFINE S == Counted(a)
           g == [k \in S |-> k.amount]
<1>1. MapThenSumSet(LAMBDA k : k.amount, S) = Sum(g, S)
  <2> HIDE DEF S
  <2> QED BY DEF MapThenSumSet, MapThenFoldSet, Sum, Sums, First
<1>2. IsFiniteSet(S) /\ \A k \in S : Amounts[k] = g[k]
  BY CountedFinite
<1>3. Sum(g, S) = Sum(Amounts, S)
  <2> HIDE DEF S, g
  <2> QED BY <1>2, SumSame
<1> QED BY <1>1, <1>3 DEF Total, Counted

\* No row is counted that was not, and the balance is as it was.
LEMMA CountedLess ==
  ASSUME TypeOK, TypeOK', RowsFinite, NEW a \in Agents, AccountOK(a),
         Counted(a)' \subseteq Counted(a),
         agents'[a] = agents[a], earned'[a] = earned[a]
  PROVE  AccountOK(a)'
<1>1. /\ IsFiniteSet(Counted(a)) /\ \A k \in Counted(a) : Amounts[k] \in Nat
      /\ Sum(Amounts, Counted(a)) \in Int
  BY CountedFinite
<1>2. Sum(Amounts, Counted(a)') <= Sum(Amounts, Counted(a))
  BY <1>1, SumGrows
<1>3. IsFiniteSet(Counted(a)') /\ \A k \in Counted(a)' : Amounts[k] \in Int
  BY <1>1, FS_Subset
<1>4. Sum(Amounts, Counted(a)') \in Int
  BY <1>3, SumIsInt
<1>5. agents[a].balance_usd \in Int /\ earned[a] \in Int
  BY DEF TypeOK
<1>6. AccountOK(a)' <=> agents'[a].balance_usd + Sum(Amounts, Counted(a)') <= earned'[a]
  BY DEF AccountOK
<1> QED BY <1>1, <1>2, <1>4, <1>5, <1>6 DEF AccountOK

\* A counted row goes back into the balance and is not counted any more.
LEMMA CountedRestored ==
  ASSUME TypeOK, TypeOK', RowsFinite, NEW a \in Agents, AccountOK(a), NEW k \in Counted(a),
         Counted(a)' \subseteq Counted(a) \ {k}, Restore(a, k.amount), earned'[a] = earned[a]
  PROVE  AccountOK(a)'
<1>1. /\ IsFiniteSet(Counted(a)) /\ \A j \in Counted(a) : Amounts[j] = j.amount /\ Amounts[j] \in Nat
      /\ Sum(Amounts, Counted(a)) \in Int
  BY CountedFinite
<1>2. Amounts[k] + Sum(Amounts, Counted(a)') <= Sum(Amounts, Counted(a))
  BY <1>1, SumDrops
<1>3. IsFiniteSet(Counted(a)') /\ \A j \in Counted(a)' : Amounts[j] \in Int
  BY <1>1, FS_Subset
<1>4. Sum(Amounts, Counted(a)') \in Int
  BY <1>3, SumIsInt
<1>5. agents[a].balance_usd \in Int /\ earned[a] \in Int
      /\ agents'[a].balance_usd = agents[a].balance_usd + k.amount
  BY DEF TypeOK, Restore
<1>6. AccountOK(a)' <=> agents'[a].balance_usd + Sum(Amounts, Counted(a)') <= earned'[a]
  BY DEF AccountOK
<1>7. Amounts[k] = k.amount /\ Amounts[k] \in Nat
  BY <1>1
<1> QED BY <1>1, <1>2, <1>4, <1>5, <1>6, <1>7 DEF AccountOK

\* What is debited becomes one more counted row.
LEMMA CountedDebited ==
  ASSUME TypeOK, TypeOK', RowsFinite, NEW a \in Agents, AccountOK(a),
         NEW k \in Key, k \notin Counted(a), Counted(a)' = Counted(a) \cup {k},
         Debit(a, k.amount), earned'[a] = earned[a]
  PROVE  AccountOK(a)'
<1>1. /\ IsFiniteSet(Counted(a)) /\ \A j \in Counted(a) : Amounts[j] \in Nat
      /\ Sum(Amounts, Counted(a)) \in Int
  BY CountedFinite
<1>2. Amounts[k] = k.amount /\ Amounts[k] \in Nat
  BY DEF Amounts, Key
<1>3. Sum(Amounts, Counted(a) \cup {k}) = Amounts[k] + Sum(Amounts, Counted(a))
  BY <1>1, <1>2, SumAdd
<1>5. agents[a].balance_usd \in Int /\ earned[a] \in Int
      /\ agents'[a].balance_usd = agents[a].balance_usd - k.amount
  BY DEF TypeOK, Debit
<1>6. AccountOK(a)' <=> agents'[a].balance_usd + Sum(Amounts, Counted(a)') <= earned'[a]
  BY DEF AccountOK
<1> QED BY <1>1, <1>2, <1>3, <1>5, <1>6 DEF AccountOK

\* A step that leaves the rows alone and lets nobody pay who did not.
LEMMA CountedKept ==
  ASSUME UNCHANGED payout_logs, NEW a,
         \A r \in Sweeps : Paying(r)' => Paying(r) /\ sweep'[r].cur = sweep[r].cur
  PROVE  Counted(a)' \subseteq Counted(a)
<1>1. \A k : Owned(k)' => Owned(k)
  BY DEF Owned
<1> QED BY <1>1 DEF Counted

\* What a sweep pays is counted, until the sweep fails it.
LEMMA CurCounted ==
  ASSUME KeysInv, PaidIsPending, NEW s \in Sweeps, Paying(s)
  PROVE  sweep[s].cur \in Counted(sweep[s].cur.agent)
  BY DEF KeysInv, PaidIsPending, Counted, Owned

LEMMA CountedDone ==
  ASSUME TypeOK, KeysInv, PaidIsPending, NEW s \in Sweeps, Paying(s), AgentDone(s),
         NEW status \in RowStatuses, LogStatus(sweep[s].cur, status), NEW a
  PROVE  /\ Counted(a)' \subseteq Counted(a)
         /\ status = "failed" => sweep[s].cur \notin Counted(a)'
<1>1. /\ DOMAIN payout_logs' = DOMAIN payout_logs
      /\ \A j \in DOMAIN payout_logs : j # sweep[s].cur => payout_logs'[j] = payout_logs[j]
      /\ sweep[s].cur \in DOMAIN payout_logs => payout_logs'[sweep[s].cur].status = status
  BY LogStatusOK
<1>2. \A k : Owned(k)' => Owned(k)
  BY OthersStay DEF Owned, Paying
<1>3. ASSUME NEW k \in Counted(a)' PROVE k \in Counted(a)
  <2>1. CASE k = sweep[s].cur
    BY <1>1, <2>1, CurCounted DEF Counted
  <2>2. CASE k # sweep[s].cur
    BY <1>1, <1>2, <2>2 DEF Counted
  <2> QED BY <2>1, <2>2
<1>4. status = "failed" => sweep[s].cur \notin Counted(a)'
  BY <1>1 DEF Counted
<1> QED BY <1>3, <1>4

\* Step 9 makes a row, or makes and fails it.
LEMMA ProcessAccounts ==
  ASSUME TypeOK, TypeOK', KeysInv, RowsFinite, NEW s \in Sweeps, ProcessAgent(s),
         NEW a \in Agents, AccountOK(a)
  PROVE  AccountOK(a)'
<1>1. ~Paying(s) /\ UNCHANGED earned
  BY DEF ProcessAgent, Paying
<1>2. PICK rec \in sweep[s].todo :
        \/ Continue(s, rec) /\ UNCHANGED <<agents, payout_logs>>
        \/ /\ Disbursable(rec.balance_usd) \in 1 .. HardCap
           /\ Reserve(s, rec) \/ ReserveUnreachable(s, rec)
  BY DEF ProcessAgent, Skip, Duplicate, RollBack
<1>3. CASE Continue(s, rec) /\ UNCHANGED <<agents, payout_logs>>
  <2>1. \A r \in Sweeps : Paying(r)' => Paying(r) /\ sweep'[r].cur = sweep[r].cur
    BY <1>3, OthersStay DEF Paying
  <2> QED BY <1>1, <1>3, <2>1, CountedKept, CountedLess
<1> DEFINE new == KeyOf(s, rec)
           amount == Disbursable(rec.balance_usd)
<1>4. CASE amount \in 1 .. HardCap /\ ReserveUnreachable(s, rec)
  <2>1. /\ Continue(s, rec) /\ UNCHANGED agents
        /\ payout_logs' = Put(payout_logs, new, [NewLog EXCEPT !.status = "failed"])
        /\ new \notin DOMAIN payout_logs
    BY <1>4 DEF ReserveUnreachable, KeyUsed
  <2>2. \A k : Owned(k)' => Owned(k)
    BY <2>1, OthersStay DEF Owned, Paying
  <2> HIDE DEF new
  <2>3. \A k \in DOMAIN payout_logs' : payout_logs'[k].status = "failed"
          \/ (k \in DOMAIN payout_logs /\ payout_logs'[k] = payout_logs[k])
    BY <2>1 DEF Put, NewLog
  <2>4. Counted(a)' \subseteq Counted(a)
    BY <2>2, <2>3 DEF Counted
  <2> QED BY <1>1, <2>1, <2>4, CountedLess
<1>5. CASE amount \in 1 .. HardCap /\ Reserve(s, rec)
  <2>0. PICK fresh : fresh = new
    OBVIOUS
  <2>1. /\ fresh \in Key /\ fresh.agent = rec.agent /\ fresh.amount = amount /\ rec.agent \in Agents
        /\ fresh \notin DOMAIN payout_logs
    BY <1>5, <2>0, KeyOfOK DEF Reserve, KeyUsed, Record
  <2>2. /\ payout_logs' = Put(payout_logs, fresh, NewLog)
        /\ Debit(rec.agent, amount)
        /\ sweep' = [sweep EXCEPT ![s].pc = "prepare", ![s].todo = @ \ {rec}, ![s].cur = fresh]
    BY <1>5, <2>0 DEF Reserve
  <2>3. sweep \in [Sweeps -> SweepState]
    BY DEF TypeOK
  <2> HIDE DEF new, amount
  <2>4. /\ \A r \in Sweeps : r # s => sweep'[r] = sweep[r]
        /\ sweep'[s].cur = fresh /\ sweep'[s].pc = "prepare"
    BY <2>2, <2>3 DEF SweepState
  <2>5. Owned(fresh)' /\ \A k : k # fresh => (Owned(k)' <=> Owned(k))
    <3>1. Paying(s)' /\ \A r \in Sweeps : r # s => (Paying(r)' <=> Paying(r))
      BY <2>4 DEF Paying
    <3>2. Owned(fresh)'
      BY <2>4, <3>1 DEF Owned
    <3>3. ASSUME NEW k, k # fresh PROVE Owned(k)' <=> Owned(k)
      BY <1>1, <2>4, <3>1, <3>3 DEF Owned
    <3> QED BY <3>2, <3>3
  <2>6. /\ DOMAIN payout_logs' = DOMAIN payout_logs \cup {fresh}
        /\ payout_logs'[fresh].status = "pending"
        /\ \A k \in DOMAIN payout_logs : payout_logs'[k] = payout_logs[k]
    BY <2>1, <2>2 DEF Put, NewLog
  <2>7. fresh \notin Counted(a)
    BY <2>1 DEF Counted
  <2>8. CASE a = rec.agent
    <3>1. Counted(a)' = Counted(a) \cup {fresh}
      <4>1. fresh \in Counted(a)'
        BY <2>1, <2>5, <2>6, <2>8 DEF Counted
      <4>2. ASSUME NEW k, k # fresh PROVE k \in Counted(a)' <=> k \in Counted(a)
        BY <2>5, <2>6, <4>2 DEF Counted
      <4> QED BY <4>1, <4>2
    <3> QED BY <1>1, <2>1, <2>2, <2>7, <2>8, <3>1, CountedDebited
  <2>9. CASE a # rec.agent
    <3>1. Counted(a)' \subseteq Counted(a)
      BY <2>1, <2>5, <2>6, <2>9 DEF Counted
    <3>2. agents'[a] = agents[a]
      BY <2>2, <2>9 DEF Debit, TypeOK
    <3> QED BY <1>1, <3>1, <3>2, CountedLess
  <2> QED BY <2>8, <2>9
<1> QED BY <1>2, <1>3, <1>4, <1>5

\* What a sweep restores goes back to the agent whose counted row it was.
LEMMA RestoredAccounts ==
  ASSUME TypeOK, TypeOK', KeysInv, PaidIsPending, RowsFinite, NEW s \in Sweeps, Paying(s),
         Restore(sweep[s].cur.agent, sweep[s].cur.amount), UNCHANGED earned,
         NEW a \in Agents, AccountOK(a), Counted(a)' \subseteq Counted(a),
         sweep[s].cur \notin Counted(a)'
  PROVE  AccountOK(a)'
<1> DEFINE k == sweep[s].cur
<1>1. k \in Counted(k.agent)
  BY CurCounted
<1> HIDE DEF k
<1>2. Restore(k.agent, k.amount) /\ k \notin Counted(a)'
  BY DEF k
<1>3. CASE a = k.agent
  BY <1>1, <1>2, <1>3, CountedRestored
<1>4. CASE a # k.agent
  <2>1. agents'[a] = agents[a]
    BY <1>2, <1>4 DEF Restore, TypeOK
  <2> QED BY <2>1, CountedLess
<1> QED BY <1>3, <1>4

LEMMA AccountsStep ==
  ASSUME TypeOK, TypeOK', KeysInv, PaidIsPending, RowsFinite, [Next]_vars, webhooks' = 0,
         NEW a \in Agents, AccountOK(a)
  PROVE  AccountOK(a)'
<1>0. sweep \in [Sweeps -> SweepState] /\ webhooks \in Nat
  BY DEF TypeOK
<1>1. ASSUME UNCHANGED <<agents, payout_logs, earned>>,
             \A r \in Sweeps : Paying(r)' => Paying(r) /\ sweep'[r].cur = sweep[r].cur
      PROVE  AccountOK(a)'
  BY <1>1, CountedKept, CountedLess
<1>2. ASSUME NEW s \in Sweeps, StartSweep(s) PROVE AccountOK(a)'
  <2>1. \A r \in Sweeps : Paying(r)' => Paying(r) /\ sweep'[r].cur = sweep[r].cur
    BY <1>0, <1>2 DEF StartSweep, Paying
  <2> QED BY <1>1, <1>2, <2>1 DEF StartSweep
<1>3. ASSUME NEW s \in Sweeps, ProcessAgent(s) PROVE AccountOK(a)'
  BY <1>3, ProcessAccounts
<1>4. ASSUME NEW s \in Sweeps, DispatchFails(s) PROVE AccountOK(a)'
  <2>1. /\ Paying(s) /\ AgentDone(s) /\ LogStatus(sweep[s].cur, "failed")
        /\ Restore(sweep[s].cur.agent, sweep[s].cur.amount) /\ UNCHANGED earned
    BY <1>4 DEF DispatchFails, Paying
  <2>2. Counted(a)' \subseteq Counted(a) /\ sweep[s].cur \notin Counted(a)'
    BY <2>1, CountedDone
  <2> QED BY <2>1, <2>2, RestoredAccounts
<1>5. ASSUME NEW s \in Sweeps, Paying(s), AgentDone(s), UNCHANGED <<agents, earned>>,
             NEW status \in RowStatuses, LogStatus(sweep[s].cur, status)
      PROVE  AccountOK(a)'
  <2>1. Counted(a)' \subseteq Counted(a)
    BY <1>5, CountedDone
  <2> QED BY <1>5, <2>1, CountedLess
<1>6. ASSUME NEW s \in Sweeps, SendTransfer(s) PROVE AccountOK(a)'
  <2>1. \A r \in Sweeps : Paying(r)' => Paying(r) /\ sweep'[r].cur = sweep[r].cur
    BY <1>0, <1>6 DEF SendTransfer, Paying, SweepState
  <2> QED BY <1>1, <1>6, <2>1 DEF SendTransfer
<1>7. ASSUME NEW s \in Sweeps, TransferAccepted(s) PROVE AccountOK(a)'
  <2>0. Paying(s) /\ UNCHANGED <<agents, earned>>
    BY <1>7 DEF TransferAccepted, Paying
  <2>1. CASE sweep' = [sweep EXCEPT ![s].pc = "poll"] /\ UNCHANGED payout_logs
    <3>1. \A r \in Sweeps : Paying(r)' => Paying(r) /\ sweep'[r].cur = sweep[r].cur
      BY <1>0, <2>0, <2>1 DEF Paying, SweepState
    <3> QED BY <1>1, <2>0, <2>1, <3>1
  <2>2. CASE LogStatus(sweep[s].cur, "processing") /\ AgentDone(s)
    BY <1>5, <2>0, <2>2
  <2> QED BY <1>7, <2>1, <2>2 DEF TransferAccepted
<1>8. ASSUME NEW s \in Sweeps, PollReturns(s) PROVE AccountOK(a)'
  <2>1. PICK status \in RowStatuses : LogStatus(sweep[s].cur, status)
    BY <1>8 DEF PollReturns
  <2>2. Paying(s) /\ AgentDone(s) /\ UNCHANGED <<agents, earned>>
    BY <1>8 DEF PollReturns, Paying
  <2> QED BY <1>5, <2>1, <2>2
<1>9. CASE Crash
  <2>1. (\A r \in Sweeps : ~Paying(r)') /\ UNCHANGED earned
    BY <1>9 DEF Crash, Paying, Idle
  <2>2. CASE UNCHANGED <<agents, payout_logs>>
    BY <1>1, <2>1, <2>2
  <2>3. ASSUME NEW s \in Sweeps, Paying(s), UNCHANGED payout_logs,
               Restore(sweep[s].cur.agent, sweep[s].cur.amount)
        PROVE  AccountOK(a)'
    <3>1. Counted(a)' \subseteq Counted(a)
      BY <2>1, <2>3, CountedKept
    <3>2. sweep[s].cur \notin Counted(a)'
      BY <2>1, <2>3 DEF Counted, Owned, PaidIsPending
    <3> QED BY <2>1, <2>3, <3>1, <3>2, RestoredAccounts
  <2>4. ASSUME NEW k, LogStatus(k, "failed"), UNCHANGED agents
        PROVE  AccountOK(a)'
    <3>1. /\ DOMAIN payout_logs' = DOMAIN payout_logs
          /\ \A j \in DOMAIN payout_logs : j # k => payout_logs'[j] = payout_logs[j]
          /\ k \in DOMAIN payout_logs => payout_logs'[k].status = "failed"
      BY <2>4, LogStatusOK
    <3>2. \A j : ~Owned(j)'
      BY <2>1 DEF Owned
    <3>3. Counted(a)' \subseteq Counted(a)
      BY <3>1, <3>2 DEF Counted
    <3> QED BY <2>1, <2>4, <3>3, CountedLess
  <2> QED BY <1>9, <2>2, <2>3, <2>4 DEF Crash, Paying
<1>10. ASSUME NEW b \in Agents, Credit(b) PROVE AccountOK(a)'
  <2>1. UNCHANGED <<payout_logs, sweep>> /\ CreditAmount[b] \in Nat
    BY <1>10, PayoutAssumption DEF Credit
  <2>2. Counted(a)' = Counted(a)
    BY <2>1 DEF Counted, Owned, Paying
  <2>3. /\ agents[a].balance_usd \in Int /\ earned[a] \in Int
        /\ \/ agents'[a].balance_usd = agents[a].balance_usd /\ earned'[a] = earned[a]
           \/ /\ agents'[a].balance_usd = agents[a].balance_usd + CreditAmount[b]
              /\ earned'[a] = earned[a] + CreditAmount[b]
    BY <1>10 DEF Credit, TypeOK
  <2>4. Sum(Amounts, Counted(a)) \in Int
    BY CountedFinite
  <2>5. AccountOK(a)' <=> agents'[a].balance_usd + Sum(Amounts, Counted(a)) <= earned'[a]
    BY <2>2 DEF AccountOK
  <2> QED BY <2>1, <2>3, <2>4, <2>5 DEF AccountOK
<1>11. CASE (\E k \in DOMAIN provider : ProviderDecides(k)) \/ NewDay \/ UNCHANGED vars
  <2>1. UNCHANGED <<agents, payout_logs, sweep, earned>>
    BY <1>11 DEF ProviderDecides, NewDay, vars
  <2> QED BY <1>1, <2>1 DEF Paying
<1>12. ASSUME NEW k \in DOMAIN provider PROVE ~SettlePayout(k)
  BY <1>0 DEF SettlePayout
<1> QED BY <1>2, <1>3, <1>4, <1>6, <1>7, <1>8, <1>9, <1>10, <1>11, <1>12 DEF Next

\* A step writes one new row at most.
LEMMA RowsStayFinite ==
  ASSUME RowsFinite, [Next]_vars
  PROVE  RowsFinite'
<1>1. \E k : DOMAIN payout_logs' \subseteq DOMAIN payout_logs \cup {k}
  BY DEF Next, StartSweep, ProcessAgent, Skip, Duplicate, RollBack, Reserve, ReserveUnreachable,
         DispatchFails, SendTransfer, TransferAccepted, PollReturns, ProviderDecides,
         SettlePayout, Credit, NewDay, Crash, vars, LogStatus, Put
<1> QED BY <1>1, FS_AddElement, FS_Subset DEF RowsFinite

LEMMA AccountsAlways == Spec => []AccountsInv
<1>1. Init => AccountsInv
  <2> SUFFICES ASSUME Init PROVE AccountsInv
    OBVIOUS
  <2>1. DOMAIN payout_logs = {}
    BY DEF Init
  <2>2. RowsFinite
    BY <2>1, FS_EmptySet DEF RowsFinite
  <2>3. ASSUME NEW a \in Agents PROVE AccountOK(a)
    <3>1. Counted(a) = {}
      BY <2>1 DEF Counted
    <3>2. agents[a].balance_usd = Opening[a] /\ earned[a] = Opening[a] /\ Opening[a] \in Nat
      BY PayoutAssumption DEF Init
    <3> QED BY <3>1, <3>2, SumEmpty DEF AccountOK
  <2> QED BY <2>2, <2>3 DEF AccountsInv
<1>2. TypeOK /\ TypeOK' /\ KeysInv /\ Unsettled /\ AccountsInv /\ [Next]_vars => AccountsInv'
  <2> SUFFICES ASSUME TypeOK, TypeOK', KeysInv, Unsettled, AccountsInv, [Next]_vars
               PROVE  AccountsInv'
    OBVIOUS
  <2>1. RowsFinite'
    BY RowsStayFinite DEF AccountsInv
  <2>2. ASSUME webhooks' = 0, NEW a \in Agents PROVE AccountOK(a)'
    <3>1. PaidIsPending /\ AccountOK(a) /\ RowsFinite
      BY <2>2, WebhooksAndRowsStay DEF AccountsInv, Unsettled
    <3> QED BY <2>2, <3>1, AccountsStep
  <2> QED BY <2>1, <2>2 DEF AccountsInv
<1> QED BY <1>1, <1>2, TypeCorrect, KeysAlways, UnsettledAlways, PTL DEF Spec

\* A dollar is never both in the balance and in a payout that is under way or done, for any
\* sweeps, balances, credits, refunds and crashes, as long as nothing calls settlePayout.
THEOREM CountedOnce == Spec => []NothingCountedTwice
<1>1. TypeOK /\ AccountsInv => NothingCountedTwice
  BY TotalIsSum DEF AccountsInv, AccountOK, NothingCountedTwice
<1> QED BY <1>1, TypeCorrect, AccountsAlways, PTL
=============================================================================
