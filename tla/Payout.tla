------------------------------- MODULE Payout -------------------------------
(***************************************************************************)
(* The payout sweep (src/src/services/payout.ts): runPayoutSweep pays out  *)
(* 85 % of the balance of every eligible agent through a payment provider. *)
(*                                                                         *)
(* Several sweeps of one tenant can run at once: POST /payouts/sweep and   *)
(* the queue's payout_sweep job.  Each reads its agents once and then      *)
(* works through them with awaits in between, so it acts on what it read   *)
(* before.  Code between two awaits is one action.  The database (agents,  *)
(* payout_logs) survives a crash, the sweeps do not.                       *)
(*                                                                         *)
(* Amounts are whole cents.  A lockout and the country, KYC, FX and        *)
(* method-limit gates can turn any agent down (Skip); which one does is    *)
(* left open.                                                              *)
(***************************************************************************)
EXTENDS Integers, FiniteSets, FiniteSetsExt

CONSTANTS
  Agents, Momo,       \* the agents with a payout method, and those paid by mobile money (the others by card)
  Opening,            \* balance_usd of an agent at the start
  Threshold,          \* payout_threshold_usd
  HardCap,            \* SWEEP_HARD_CAP_USD
  Sweeps,             \* sweeps that may run at the same time
  CreditAmount,       \* what each agent earns at a time, 0 if nothing
  MaxCredits,         \* bound: how often agents earn
  MaxDay,             \* bound: UTC calendar days
  MaxCrashes,         \* bound: how often the process dies
  MaxWebhooks         \* bound: settlement notifications; nothing in the code calls settlePayout, so 0 is the code as it is wired

ASSUME PayoutAssumption ==
  /\ Momo \subseteq Agents
  /\ Opening \in [Agents -> Nat]
  /\ Threshold \in [Agents -> Nat]
  /\ CreditAmount \in [Agents -> Nat]
  /\ {HardCap, MaxCredits, MaxDay, MaxCrashes, MaxWebhooks} \subseteq Nat

VARIABLES
  agents,        \* the table: balance_usd of each agent
  payout_logs,   \* the table: a function from the idempotency keys in use to their rows
  sweep,         \* the state of each sweep
  provider,      \* what the payment provider knows, by the key it was given
  day,           \* the UTC calendar day
  earned,        \* all an agent ever had: opening balance and credits (history)
  credits, crashes, webhooks   \* bounds used up

vars == <<agents, payout_logs, sweep, provider, day, earned, credits, crashes, webhooks>>

\* deriveIdempotencyKey: agent, amount and day (method and country are the agent's).
Key == [agent : Agents, amount : Nat, day : Nat]

RowStatuses == {"pending", "processing", "success", "failed"}
LogRow      == [status : RowStatuses, signed : RowStatuses]   \* the status, and the status the signature covers
ProviderRow == [requests : Nat, state : {"accepted", "paid", "declined"}]

\* A sweep is between agents ("next"), or awaits an answer while it pays cur:
\* "prepare" the access token or the card recipient, "sent" the transfer, "poll" its status.
NoKey == [agent |-> "none", amount |-> 0, day |-> 0]
Idle  == [pc |-> "idle", todo |-> {}, day |-> 0, cur |-> NoKey]

SweepState == [pc : {"idle", "next", "prepare", "sent", "poll"},
               todo : SUBSET [agent : Agents, balance_usd : Int],
               day : Nat,
               cur : Key \cup {NoKey}]

Paying(s) == sweep[s].pc \in {"prepare", "sent", "poll"}

TypeOK ==
  /\ agents \in [Agents -> [balance_usd : Int]]
  /\ DOMAIN payout_logs \subseteq Key
  /\ payout_logs \in [DOMAIN payout_logs -> LogRow]
  /\ sweep \in [Sweeps -> SweepState]
  /\ \A s \in Sweeps : /\ sweep[s].pc = "next" => sweep[s].todo # {}
                       /\ Paying(s) <=> sweep[s].cur # NoKey
  /\ DOMAIN provider \subseteq Key
  /\ provider \in [DOMAIN provider -> ProviderRow]
  /\ day \in Nat
  /\ earned \in [Agents -> Nat]
  /\ credits \in Nat /\ crashes \in Nat /\ webhooks \in Nat

\* f with x mapped to y, x in the domain of f or not.
Put(f, x, y) == [z \in DOMAIN f \cup {x} |-> IF z = x THEN y ELSE f[z]]

-----------------------------------------------------------------------------
(* A sweep. *)

\* findEligibleAgents: the rows are read once, at the start; a locked agent is left
\* out there, which is Skip's.
Eligible ==
  {[agent |-> a, balance_usd |-> agents[a].balance_usd] :
     a \in {b \in Agents : agents[b].balance_usd >= Threshold[b]}}

StartSweep(s) ==
  /\ sweep[s].pc = "idle"
  /\ Eligible # {}
  /\ sweep' = [sweep EXCEPT ![s] = [pc |-> "next", todo |-> Eligible, day |-> day, cur |-> NoKey]]
  /\ UNCHANGED <<agents, payout_logs, provider, day, earned, credits, crashes, webhooks>>

\* 85 % of the balance, rounded to the cent.
Disbursable(balance) == (85 * balance + 50) \div 100

KeyOf(s, rec) == [agent |-> rec.agent, amount |-> Disbursable(rec.balance_usd), day |-> sweep[s].day]

\* The loop goes on to its next agent, or the sweep returns.
Continue(s, rec) ==
  LET rest == sweep[s].todo \ {rec}
  IN  sweep' = [sweep EXCEPT ![s] = IF rest = {} THEN Idle
                                    ELSE [pc |-> "next", todo |-> rest, day |-> sweep[s].day, cur |-> NoKey]]

\* Locked, or turned down by steps 1-5 and 7: nothing is written.
Skip(s, rec) ==
  /\ Continue(s, rec)
  /\ UNCHANGED <<agents, payout_logs, provider>>

\* Fault: failed payouts may be tried again.
KeyUsedUnlessFailed(k)  == k \in DOMAIN payout_logs /\ payout_logs[k].status # "failed"

\* Step 8, and the UNIQUE index behind it: a row of any status uses the key.
KeyUsed(k) == k \in DOMAIN payout_logs

Duplicate(s, rec) ==
  /\ KeyUsed(KeyOf(s, rec))
  /\ Continue(s, rec)
  /\ UNCHANGED <<agents, payout_logs, provider>>

\* Fault: the balance read at the start is relied on.
CanDebitUnguarded(a, amount) == amount >= 0

CanDebit(a, amount) == agents[a].balance_usd >= amount

Debit(a, amount) == agents' = [agents EXCEPT ![a].balance_usd = @ - amount]

\* Step 9: the guarded debit changes no row and the transaction rolls back.
RollBack(s, rec) ==
  /\ ~KeyUsed(KeyOf(s, rec))
  /\ ~CanDebit(rec.agent, Disbursable(rec.balance_usd))
  /\ Continue(s, rec)
  /\ UNCHANGED <<agents, payout_logs, provider>>

NewLog == [status |-> "pending", signed |-> "pending"]

\* Step 9 commits and step 10 makes its first call to the provider.
Reserve(s, rec) ==
  /\ ~KeyUsed(KeyOf(s, rec))
  /\ CanDebit(rec.agent, Disbursable(rec.balance_usd))
  /\ payout_logs' = Put(payout_logs, KeyOf(s, rec), NewLog)
  /\ Debit(rec.agent, Disbursable(rec.balance_usd))
  /\ sweep' = [sweep EXCEPT ![s].pc = "prepare", ![s].todo = @ \ {rec}, ![s].cur = KeyOf(s, rec)]
  /\ UNCHANGED provider

\* No momo_number or card_token, as may be for any agent: step 10 throws before it awaits
\* anything, and the catch block restores the balance and fails the row.
ReserveUnreachable(s, rec) ==
  /\ ~KeyUsed(KeyOf(s, rec))
  /\ CanDebit(rec.agent, Disbursable(rec.balance_usd))
  /\ payout_logs' = Put(payout_logs, KeyOf(s, rec), [NewLog EXCEPT !.status = "failed"])
  /\ Continue(s, rec)
  /\ UNCHANGED <<agents, provider>>

\* One agent, from the end of the FX conversion to the next await.
ProcessAgent(s) ==
  /\ sweep[s].pc = "next"
  /\ \E rec \in sweep[s].todo :
       \/ Skip(s, rec)
       \/ /\ Disbursable(rec.balance_usd) \in 1 .. HardCap
          /\ \/ Duplicate(s, rec)
             \/ RollBack(s, rec)
             \/ Reserve(s, rec)
             \/ ReserveUnreachable(s, rec)
  /\ UNCHANGED <<day, earned, credits, crashes, webhooks>>

\* The loop goes on after the agent in cur.
AgentDone(s) ==
  sweep' = [sweep EXCEPT ![s] = IF sweep[s].todo = {} THEN Idle
                                ELSE [sweep[s] EXCEPT !.pc = "next", !.cur = NoKey]]

\* updateLogStatus: whatever the row's status is; the signature is not renewed.
LogStatus(k, status) ==
  payout_logs' = IF k \in DOMAIN payout_logs
                 THEN [payout_logs EXCEPT ![k].status = status] ELSE payout_logs

Restore(a, amount) == agents' = [agents EXCEPT ![a].balance_usd = @ + amount]

\* The catch block of step 10.
DispatchFails(s) ==
  /\ sweep[s].pc \in {"prepare", "sent", "poll"}
  /\ Restore(sweep[s].cur.agent, sweep[s].cur.amount)
  /\ LogStatus(sweep[s].cur, "failed")
  /\ AgentDone(s)
  /\ UNCHANGED <<provider, day, earned, credits, crashes, webhooks>>

\* Token or recipient obtained: the transfer is sent.  It reaches the provider
\* or it is lost; the provider tells transfers apart by the key it is given.
SendTransfer(s) ==
  /\ sweep[s].pc = "prepare"
  /\ LET k == sweep[s].cur
     IN  \/ provider' = Put(provider, k,
              IF k \in DOMAIN provider THEN [provider[k] EXCEPT !.requests = @ + 1]
                                       ELSE [requests |-> 1, state |-> "accepted"])
         \/ UNCHANGED provider
  /\ sweep' = [sweep EXCEPT ![s].pc = "sent"]
  /\ UNCHANGED <<agents, payout_logs, day, earned, credits, crashes, webhooks>>

\* The provider's answer to the transfer arrives: mobile money goes on to poll,
\* a card payout stays 'processing' until a notification.
TransferAccepted(s) ==
  /\ sweep[s].pc = "sent"
  /\ sweep[s].cur \in DOMAIN provider
  /\ \/ /\ sweep[s].cur.agent \in Momo
        /\ sweep' = [sweep EXCEPT ![s].pc = "poll"]
        /\ UNCHANGED payout_logs
     \/ /\ sweep[s].cur.agent \notin Momo
        /\ LogStatus(sweep[s].cur, "processing")
        /\ AgentDone(s)
  /\ UNCHANGED <<agents, provider, day, earned, credits, crashes, webhooks>>

\* Faults: the status is written inside the try block, which can still throw; whatever
\* is not paid yet is refunded.
PollReturnsInsideTry(s) ==
  /\ sweep[s].pc = "poll"
  /\ \/ provider[sweep[s].cur].state = "paid"     /\ LogStatus(sweep[s].cur, "success")
     \/ provider[sweep[s].cur].state = "declined" /\ LogStatus(sweep[s].cur, "failed")
  /\ UNCHANGED <<agents, sweep, provider, day, earned, credits, crashes, webhooks>>

PollReturnsRefunding(s) ==
  /\ sweep[s].pc = "poll"
  /\ \/ provider[sweep[s].cur].state = "paid" /\ LogStatus(sweep[s].cur, "success") /\ UNCHANGED agents
     \/ /\ provider[sweep[s].cur].state # "paid"
        /\ LogStatus(sweep[s].cur, "processing")
        /\ Restore(sweep[s].cur.agent, sweep[s].cur.amount)
  /\ AgentDone(s)
  /\ UNCHANGED <<provider, day, earned, credits, crashes, webhooks>>

\* pollMoMoTransferStatus returns; still PENDING after the last poll is 'processing'.
PollReturns(s) ==
  /\ sweep[s].pc = "poll"
  /\ \/ provider[sweep[s].cur].state = "paid"     /\ LogStatus(sweep[s].cur, "success")
     \/ provider[sweep[s].cur].state = "declined" /\ LogStatus(sweep[s].cur, "failed")
     \/ provider[sweep[s].cur].state = "accepted" /\ LogStatus(sweep[s].cur, "processing")
  /\ AgentDone(s)
  /\ UNCHANGED <<agents, provider, day, earned, credits, crashes, webhooks>>

-----------------------------------------------------------------------------
(* The provider. *)

ProviderDecides(k) ==
  /\ provider[k].state = "accepted"
  /\ \E verdict \in {"paid", "declined"} : provider' = [provider EXCEPT ![k].state = verdict]
  /\ UNCHANGED <<agents, payout_logs, sweep, day, earned, credits, crashes, webhooks>>

\* settlePayout, called with the provider's verdict, possibly more than once.
SettlePayout(k) ==
  /\ webhooks < MaxWebhooks
  /\ webhooks' = webhooks + 1
  /\ \/ /\ provider[k].state = "paid"
        /\ LogStatus(k, "success")
        /\ UNCHANGED agents
     \/ /\ provider[k].state = "declined"
        /\ LogStatus(k, "failed")
        /\ Restore(k.agent, k.amount)
  /\ UNCHANGED <<sweep, provider, day, earned, credits, crashes>>

-----------------------------------------------------------------------------
(* The rest of the world. *)

\* Earnings are credited by code outside src/.
Credit(a) ==
  /\ credits < MaxCredits /\ CreditAmount[a] > 0
  /\ credits' = credits + 1
  /\ agents' = [agents EXCEPT ![a].balance_usd = @ + CreditAmount[a]]
  /\ earned' = [earned EXCEPT ![a] = @ + CreditAmount[a]]
  /\ UNCHANGED <<payout_logs, sweep, provider, day, crashes, webhooks>>

NewDay ==
  /\ day < MaxDay
  /\ day' = day + 1
  /\ UNCHANGED <<agents, payout_logs, sweep, provider, earned, credits, crashes, webhooks>>

Crash ==
  /\ crashes < MaxCrashes
  /\ crashes' = crashes + 1
  /\ sweep' = [s \in Sweeps |-> Idle]
  /\ \/ UNCHANGED <<agents, payout_logs>>
     \* between the two commits of the catch block: restored, but still 'pending'
     \/ \E s \in Sweeps : /\ sweep[s].pc \in {"prepare", "sent", "poll"}
                          /\ Restore(sweep[s].cur.agent, sweep[s].cur.amount)
                          /\ UNCHANGED payout_logs
     \* between the two commits of settlePayout: 'failed', but not restored
     \/ \E k \in DOMAIN provider : /\ webhooks < MaxWebhooks
                                   /\ provider[k].state = "declined"
                                   /\ LogStatus(k, "failed")
                                   /\ UNCHANGED agents
  /\ UNCHANGED <<provider, day, earned, credits, webhooks>>

Init ==
  /\ agents = [a \in Agents |-> [balance_usd |-> Opening[a]]]
  /\ payout_logs = <<>>
  /\ sweep = [s \in Sweeps |-> Idle]
  /\ provider = <<>>
  /\ day = 1
  /\ earned = Opening
  /\ credits = 0 /\ crashes = 0 /\ webhooks = 0

Next ==
  \/ \E s \in Sweeps : StartSweep(s)
  \/ \E s \in Sweeps : ProcessAgent(s)
  \/ \E s \in Sweeps : DispatchFails(s)
  \/ \E s \in Sweeps : SendTransfer(s)
  \/ \E s \in Sweeps : TransferAccepted(s)
  \/ \E s \in Sweeps : PollReturns(s)
  \/ \E k \in DOMAIN provider : ProviderDecides(k)
  \/ \E k \in DOMAIN provider : SettlePayout(k)
  \/ \E a \in Agents : Credit(a)
  \/ NewDay
  \/ Crash

Spec == Init /\ [][Next]_vars

-----------------------------------------------------------------------------
(* Safety. *)

Owned(k)  == \E s \in Sweeps : Paying(s) /\ sweep[s].cur = k

\* What the rows of one agent that satisfy P add up to.
Total(a, P(_)) == MapThenSumSet(LAMBDA k : k.amount, {k \in DOMAIN payout_logs : k.agent = a /\ P(k)})

\* However sweeps with stale balances, credits and refunds interleave, no agent
\* is overdrawn (the guarded UPDATE of debitAgentBalance).
NeverOverdrawn == \A a \in Agents : agents[a].balance_usd >= 0

\* The provider never gets two transfers for one idempotency key, whatever sweeps
\* run at once, fail, crash and are started again (findExistingLog, UNIQUE).
OneTransferPerKey == \A k \in DOMAIN provider : provider[k].requests <= 1

\* The provider knows no transfer without a row in payout_logs, and no sweep pays
\* one that another sweep is paying (step 9 before step 10).
TransfersAreLogged ==
  /\ DOMAIN provider \subseteq DOMAIN payout_logs
  /\ \A s, t \in Sweeps : (Paying(s) /\ Paying(t) /\ sweep[s].cur = sweep[t].cur) => s = t

\* A dollar is never both in the balance and in a payout that is under way or
\* done, except for what a crash left 'pending' (step 9 and the catch block), and as
\* long as nobody calls settlePayout.
NothingCountedTwice ==
  webhooks = 0 => \A a \in Agents :
    agents[a].balance_usd
      + Total(a, LAMBDA k : \/ payout_logs[k].status \in {"processing", "success"}
                            \/ payout_logs[k].status = "pending" /\ Owned(k))
    <= earned[a]

\* A row stays 'pending' without a sweep working on it only after a crash: every
\* other way out of step 10 settles it (catch block and updateLogStatus).
OrphansOnlyFromCrash ==
  crashes = 0 => \A k \in DOMAIN payout_logs : payout_logs[k].status = "pending" => Owned(k)

\* A row is never deleted or re-keyed, and one that reached 'success' keeps it, as long
\* as nobody calls settlePayout while a sweep still polls.
SuccessIsFinal ==
  [][\A k \in DOMAIN payout_logs :
       /\ k \in DOMAIN payout_logs'
       /\ webhooks' = 0 /\ payout_logs[k].status = "success" => payout_logs'[k].status = "success"]_vars

-----------------------------------------------------------------------------
(* What the source says of payouts and the code does not do. *)

Committed(k) == payout_logs[k].status \in {"pending", "processing", "success"}

\* payout.ts:788: "On terminal failure the debited USD is returned to the agent's balance."
FailedMoneyReturned ==
  \A a \in Agents : agents[a].balance_usd + Total(a, Committed) >= earned[a]
=============================================================================
