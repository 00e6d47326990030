----------------------------- MODULE Commercial -----------------------------
(***************************************************************************)
(* The billing half of src/services/commercialEngine.ts over Underwriting: *)
(* the subscription with its run counter, overage charges, invoices with   *)
(* their line items, and the tokens that lower them.  The period of a      *)
(* subscription never moves on in the code, so it is left out; so is the   *)
(* amount in local currency.                                               *)
(***************************************************************************)
EXTENDS Underwriting

CONSTANTS
    Offers,       \* tiers and custom terms the tenant may subscribe to
    MaxRuns,      \* bound: validation runs in all
    MaxInvoices   \* bound: commercial_billing_ledgers rows

\* No number of included runs means no limit.
Terms == [fee : Nat, included : Nat, rate : Nat]

ASSUME CommercialAssumption == Offers \subseteq Terms /\ {MaxRuns, MaxInvoices} \subseteq Nat

VARIABLES
    sub,       \* tenant_commercial_subscriptions
    runs,      \* validation runs in all
    charges,   \* overage_charge_log rows
    ledgers    \* commercial_billing_ledgers with their invoice_line_items

bvars == <<sub, runs, charges, ledgers>>
vars == <<uvars, bvars>>

\* TIER_CONFIG.
Tier ==
    [PAY_AS_YOU_GO |-> [fee |-> 0, included |-> 100, rate |-> 5],
     GROWTH        |-> [fee |-> 29900, included |-> 5000, rate |-> 3],
     ENTERPRISE    |-> [fee |-> 149900, included |-> 0, rate |-> 0],
     CUSTOM        |-> [fee |-> 0, included |-> 0, rate |-> 0]]

Unsubscribed == [fee |-> -1]
LineTypes == {"base_fee", "overage_runs", "insurance_premium", "premium_discount", "tax"}
Line == [type : LineTypes, amount : Int, credit : BOOLEAN, token : Nat]
Ledger == [runs : Nat, fee : Nat, overage : Nat, premium : Nat, discount : Nat, tax : Nat,
           total : Int, signed : Int, token : Nat, lines : Seq(Line)]

Init ==
    /\ UInit
    /\ sub = Unsubscribed
    /\ runs = 0 /\ charges = 0
    /\ ledgers = <<>>

Subscribed == sub # Unsubscribed

\* createSubscription: the terms of the tier, with what was negotiated over them.
CreateSubscription(offer) ==
    /\ ~Subscribed
    /\ sub' = [fee |-> offer.fee, included |-> offer.included, rate |-> offer.rate, count |-> 0]
    /\ UNCHANGED <<uvars, runs, charges, ledgers>>

OverLimit(count) == sub.included > 0 /\ count > sub.included

\* recordValidationRun: the counter and the charge are two commits.
RecordValidationRun ==
    /\ Subscribed
    /\ runs < MaxRuns
    /\ runs' = runs + 1
    /\ sub' = [sub EXCEPT !.count = @ + 1]
    /\ charges' = charges + (IF OverLimit(sub.count + 1) THEN 1 ELSE 0)
    /\ UNCHANGED <<uvars, ledgers>>

RunCutShort ==
    /\ Subscribed
    /\ runs < MaxRuns
    /\ crashes < MaxCrashes
    /\ OverLimit(sub.count + 1)
    /\ runs' = runs + 1
    /\ crashes' = crashes + 1
    /\ sub' = [sub EXCEPT !.count = @ + 1]
    /\ UNCHANGED <<registry, snapshots, tokens, charges, ledgers>>

Overage == IF sub.included > 0 /\ sub.count > sub.included THEN sub.count - sub.included ELSE 0

\* 7.5 %, rounded to the cent.
Tax(subtotal) == (75 * subtotal + 500) \div 1000

\* What evaluateMonthlyCommitment finds for a policy, Nothing without one, and
\* for the token it takes.
Commitment(premium, token) ==
    LET discount == IF token = Nothing THEN 0 ELSE Smaller(tokens[token].value, premium)
        overage  == Overage * sub.rate
        subtotal == sub.fee + overage + premium - discount
    IN [runs |-> sub.count, fee |-> sub.fee, overage |-> overage, premium |-> premium,
        discount |-> discount, tax |-> Tax(subtotal), total |-> subtotal + Tax(subtotal),
        token |-> token]

\* The usable token with the highest discount.
BestTokens ==
    LET usable == {t \in DOMAIN tokens : Usable(t)}
    IN IF usable = {} THEN {Nothing}
       ELSE {t \in usable : \A u \in usable : tokens[u].pct <= tokens[t].pct}

Premiums == IF Registered = {} THEN {0} ELSE {MonthlyPremium(p) : p \in Registered}

Item(type, amount, credit, token) ==
    [type |-> type, amount |-> amount, credit |-> credit, token |-> token]

\* The line items of a new invoice, those of which there is any.
WithLine(lines, quantity, line) == IF quantity > 0 THEN Append(lines, line) ELSE lines

Lines(c) ==
    LET base     == WithLine(<<>>, 1, Item("base_fee", c.fee, FALSE, Nothing))
        overage  == WithLine(base, Overage, Item("overage_runs", c.overage, FALSE, Nothing))
        premium  == WithLine(overage, c.premium, Item("insurance_premium", c.premium, FALSE, Nothing))
        discount == WithLine(premium, c.discount, Item("premium_discount", -c.discount, TRUE, c.token))
    IN WithLine(discount, c.tax, Item("tax", c.tax, FALSE, Nothing))

\* The token is applied to an invoice.
Spent(t, invoice) ==
    IF t = Nothing THEN tokens
    ELSE [tokens EXCEPT ![t].status = "applied", ![t].invoice = invoice]

\* Fault: the counter goes on.
CounterAfterInvoiceKept == sub.count

CounterAfterInvoice == 0

\* generateInvoice: ledger, line items, token and counter in one transaction.
GenerateInvoice(premium, token) ==
    /\ Subscribed
    /\ Len(ledgers) < MaxInvoices
    /\ LET c == Commitment(premium, token)
       IN ledgers' = Append(ledgers,
            [runs |-> c.runs, fee |-> c.fee, overage |-> c.overage, premium |-> c.premium,
             discount |-> c.discount, tax |-> c.tax, total |-> c.total, signed |-> c.total,
             token |-> c.token, lines |-> Lines(c)])
    /\ tokens' = Spent(token, Len(ledgers) + 1)
    /\ sub' = [sub EXCEPT !.count = CounterAfterInvoice]
    /\ UNCHANGED <<registry, snapshots, crashes, runs, charges>>

\* Fault: the new total is not signed.
ResignedLater(ledger, total) == ledger.signed

Resigned(ledger, total) == total

\* applyPremiumReductionToken, on an invoice that is issued (no code pays or
\* voids one).  The tax stays, and the discount of the ledger is overwritten;
\* the credit's line total is written with a positive sign.
ApplyToken(i, t) ==
    LET ledger   == ledgers[i]
        discount == Smaller(tokens[t].value, ledger.premium)
        total    == ledger.total - discount
        credit   == Item("premium_discount", discount, TRUE, t)
    IN /\ Usable(t)
       /\ ledgers' = [ledgers EXCEPT ![i] =
             [ledger EXCEPT !.discount = discount, !.total = total, !.token = t,
                            !.signed = Resigned(ledger, total),
                            !.lines = Append(ledger.lines, credit)]]
       /\ tokens' = Spent(t, i)
       /\ UNCHANGED <<registry, snapshots, crashes, sub, runs, charges>>

Next ==
    \/ UNext /\ UNCHANGED bvars
    \/ \E offer \in Offers : CreateSubscription(offer)
    \/ RecordValidationRun
    \/ RunCutShort
    \/ \E premium \in Premiums, token \in BestTokens : GenerateInvoice(premium, token)
    \/ \E i \in DOMAIN ledgers, t \in DOMAIN tokens : ApplyToken(i, t)

Spec == Init /\ [][Next]_vars

\* getInvoiceSummary of one invoice; its preview is Commitment.
Summary(i) ==
    [signatureValid |-> ledgers[i].signed = ledgers[i].total,
     token |-> IF ledgers[i].token = Nothing THEN Nothing ELSE tokens[ledgers[i].token].pct,
     credits |-> {j \in DOMAIN ledgers[i].lines : ledgers[i].lines[j].credit},
     debits |-> {j \in DOMAIN ledgers[i].lines : ~ledgers[i].lines[j].credit}]

-----------------------------------------------------------------------------
TypeOK ==
    /\ UTypeOK
    /\ sub \in [fee : Nat, included : Nat, rate : Nat, count : Nat] \cup {Unsubscribed}
    /\ runs \in 0 .. MaxRuns /\ charges \in Nat
    /\ ledgers \in Seq(Ledger)

Magnitude(n) == IF n < 0 THEN -n ELSE n

\* The total of an invoice is what its items charge less what its credits give,
\* and it is the total that was signed, whatever tokens came in whatever order.
TotalsAddUp ==
    \A i \in DOMAIN ledgers :
       LET ledger == ledgers[i]
           summary == Summary(i)
       IN /\ ledger.total =
               MapThenSumSet(LAMBDA j : ledger.lines[j].amount, summary.debits)
                 - MapThenSumSet(LAMBDA j : Magnitude(ledger.lines[j].amount), summary.credits)
          /\ summary.signatureValid

\* Every run over the limit is charged once, however runs, invoices and crashes
\* follow each other: the overage that was invoiced and the overage counted for
\* the next invoice are together the rows of overage_charge_log, a crash between
\* the counter and the row having cost one row at most.
OverageBilledOnce ==
    Subscribed /\ sub.rate > 0 =>
       LET billed == MapThenSumSet(LAMBDA i : ledgers[i].overage \div sub.rate, DOMAIN ledgers)
       IN billed + Overage - charges \in 0 .. crashes
=============================================================================
