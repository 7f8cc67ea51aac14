--------------------------- MODULE PaymentPlatform ---------------------------
(***************************************************************************)
(* The payment service as one system: lifecycle requests, confirmation     *)
(* deliveries, recovery runs and expiry runs interleave on the same        *)
(* database while the clock advances.                                      *)
(***************************************************************************)
EXTENDS PaymentLifecycle, Confirmations, FiniteSetsExt

CONSTANT MaxTime  \* the bound of the clock

ASSUME MaxTimeAssumption == MaxTime \in Nat

vars == <<storeVars, lifecycleVars, confirmationVars>>

Init == StoreInit /\ LifecycleInit /\ ConfirmationsInit

\* Time passes between any two steps.
Tick ==
    /\ now < MaxTime
    /\ now' = now + 1
    /\ UNCHANGED <<payments, ledger, events, receipts, lifecycleVars,
                   confirmationVars>>

Next ==
    \/ LifecycleNext /\ UNCHANGED confirmationVars
    \/ ConfirmationsNext /\ UNCHANGED lifecycleVars
    \/ Tick

Spec == Init /\ [][Next]_vars

\* Nothing in the service runs recovery or expiry unattended. Progress is
\* promised on the operator's word that time passes, that recovery and expiry
\* are run again and again, and that a run which is tried again and again does
\* not fail every time. Clients and senders owe nothing.
Alone(action) == action /\ UNCHANGED lifecycleVars

Proceed(w) == \E c \in ConfirmationIds : Complete(w, c) \/ CompleteAgain(w, c)

Fairness ==
    /\ WF_vars(Tick)
    /\ \A w \in Recoverers :
         WF_vars(Alone(Recover(w))) /\ SF_vars(Alone(Proceed(w)))
    /\ \A s \in Sweepers :
         WF_vars(Alone(ScheduleExpiry(s))) /\ SF_vars(Alone(Expire(s)))

FairSpec == Spec /\ Fairness

----------------------------------------------------------------------------
(* Type invariant.                                                         *)

IsTable(table, keys, rows) ==
    /\ DOMAIN table \subseteq keys
    /\ table \in [DOMAIN table -> rows]

\* Every column, entry, event and in-flight request has the type its
\* declaration in persistence/models.py gives it.
TypeOK ==
    /\ IsTable(payments, PaymentIds, Payment)
    /\ ledger \in [PaymentIds -> Seq(LedgerEntry)]
    /\ events \in [PaymentIds -> Seq(Event)]
    /\ IsTable(receipts, ConfirmationIds, Receipt)
    /\ now \in Nat
    /\ IsTable(idempotency, Keys, IdempotencyRecord)
    /\ requests \in [Requests -> Request \cup {None}]
    /\ answers \in [Requests -> Answer \cup {None}]
    /\ IsTable(confirmations, ConfirmationIds, Confirmation)
    /\ completing \in [Workers -> SUBSET DOMAIN receipts]
    /\ sweeps \in [Sweepers -> Nat \cup {None}]

----------------------------------------------------------------------------
(* The payment rows, the outbox and the sessions' copies.                  *)

Balances(row, authorized, captured, refunded) ==
    /\ row.authorized_amount = authorized
    /\ row.captured_amount = captured
    /\ row.refunded_amount = refunded

Delayed(row) == row.payment_flow = "ASYNCHRONOUS_CONFIRMATION"

\* The balances that each status stands for: the check constraints of the
\* payments table, and that money is held, taken and returned in full steps.
MoneyFitsStatus(row) ==
    /\ row.status \in {"DECLINED", "AWAITING_PAYMENT", "EXPIRED"} =>
         Balances(row, 0, 0, 0)
    /\ row.status = "AUTHORIZED" => Balances(row, row.amount, 0, 0)
    /\ row.status = "CANCELLED" =>
         Balances(row, IF Delayed(row) THEN 0 ELSE row.amount, 0, 0)
    /\ row.status = "CAPTURED" => Balances(row, row.amount, row.amount, 0)
    /\ row.status = "PARTIALLY_REFUNDED" =>
         /\ Balances(row, row.amount, row.amount, row.refunded_amount)
         /\ 0 < row.refunded_amount /\ row.refunded_amount < row.amount
    /\ row.status = "REFUNDED" => Balances(row, row.amount, row.amount, row.amount)
    /\ row.status \in {"AWAITING_PAYMENT", "EXPIRED"} => Delayed(row)
    /\ row.status \in {"DECLINED", "AUTHORIZED"} => ~Delayed(row)
    /\ Delayed(row) <=> row.expires_at # None

\* No interleaving of requests, confirmations and expiry runs leaves a payment
\* with balances that its status does not stand for.
BalancesFitStatus == \A p \in DOMAIN payments : MoneyFitsStatus(payments[p])

\* Every version of a payment was published once, in order, with the row it
\* had, and the last one is the current row; no payment, no event and no entry.
RowsArePublished ==
    \A p \in PaymentIds :
        IF p \in DOMAIN payments
        THEN /\ payments[p].version = Len(events[p])
             /\ events[p][Len(events[p])].payment = payments[p]
             /\ \A v \in DOMAIN events[p] : events[p][v].payment.version = v
        ELSE events[p] = <<>> /\ ledger[p] = <<>>

\* A copy that a session still holds is what was published under its version.
CopiesArePublished ==
    \A r \in Requests :
        requests[r] # None /\ requests[r].copy # None =>
            LET p == requests[r].command.payment_id
                copy == requests[r].copy
            IN  /\ p \in DOMAIN payments
                /\ copy.version \in DOMAIN events[p]
                /\ events[p][copy.version].payment = copy

\* The outbox is the exact history of the payments table, however stale the
\* copies are that sessions decide on: _commit_payment_outcome and
\* create_outbox_event write both in one transaction, checked by the version.
OutboxMirrorsVersions == RowsArePublished /\ CopiesArePublished

----------------------------------------------------------------------------
(* The ledger.                                                             *)

AmountsIn(entries) == [i \in DOMAIN entries |-> entries[i].amount]

\* The amounts of the entries of some operations, added up.
Total(entries, operations) ==
    SumFunctionOnSet(AmountsIn(entries),
                     {i \in DOMAIN entries : entries[i].operation \in operations})

\* The balances of a payment are the sums of its ledger entries, which
\* reconciliation relies on: no interleaving of stale sessions, retries and
\* confirmations loses, repeats or invents a movement of money.
LedgerExplainsBalances ==
    \A p \in DOMAIN payments :
        LET row == payments[p]
            total(operations) == Total(ledger[p], operations)
        IN  /\ Balances(row, total({"AUTHORIZATION", "CONFIRMATION_CAPTURE"}),
                        total({"CAPTURE", "CONFIRMATION_CAPTURE"}),
                        total({"REFUND"}))
            /\ total({"CANCEL"}) = IF row.status = "CANCELLED"
                                   THEN row.authorized_amount ELSE 0

----------------------------------------------------------------------------
(* Idempotency.                                                            *)

\* Expiry, and the capture of a delayed payment, are not asked for by a client.
ClientMade(event) ==
    /\ event.type # "payment.expired"
    /\ ~ /\ event.type = "payment.captured"
         /\ event.payment.payment_flow = "ASYNCHRONOUS_CONFIRMATION"

RecordedAs(key, p, v) ==
    /\ idempotency[key].payment_id = p
    /\ idempotency[key].response_snapshot = events[p][v].payment

\* A committed key stands for one published change that its operation made,
\* and every change a client made has one key: a retry, a duplicate or a
\* concurrent use of the same key never has a second effect.
OneEffectPerKey ==
    /\ \A k \in DOMAIN idempotency :
         LET p == idempotency[k].payment_id
         IN  \E v \in DOMAIN events[p] :
                ClientMade(events[p][v]) /\ RecordedAs(k, p, v)
    /\ \A p \in PaymentIds : \A v \in DOMAIN events[p] :
         ClientMade(events[p][v]) =>
            \E k \in DOMAIN idempotency :
               /\ RecordedAs(k, p, v)
               /\ \A j \in DOMAIN idempotency : RecordedAs(j, p, v) => j = k

\* An answer with a payment, first or replayed, is the snapshot recorded for
\* that very command: reuse of a key for another command never gets one.
AnswersAreRecorded ==
    \A r \in Requests : answers[r] # None =>
        LET a == answers[r]
        IN  /\ a.key \in DOMAIN idempotency
            /\ idempotency[a.key] = [request_fingerprint |-> a.command,
                                     payment_id |-> a.payment_id,
                                     response_snapshot |-> a.payment]

----------------------------------------------------------------------------
(* Confirmations against the deadline.                                     *)

\* Receipts were stamped, runs scheduled and payments expired in the past; a
\* receipt names a delayed payment or none; evidence and receipt agree.
EvidenceAgrees ==
    /\ \A c \in DOMAIN receipts :
         /\ receipts[c].received_at <= now
         /\ receipts[c].command.payment_reference \in KnownReferences \cup {None}
         /\ receipts[c].completed <=> c \in DOMAIN confirmations
    /\ \A c \in DOMAIN confirmations :
         /\ c \in DOMAIN receipts
         /\ confirmations[c].command = receipts[c].command
         /\ confirmations[c].received_at = receipts[c].received_at
    /\ \A s \in Sweepers : sweeps[s] # None => sweeps[s] <= now
    /\ \A p \in DOMAIN payments :
         payments[p].status = "EXPIRED" => payments[p].expires_at <= now

\* The receipt asked for what the payment was opened for, before the deadline.
Honourable(c, p) ==
    /\ receipts[c].command.payment_reference = p
    /\ Matches(receipts[c].command, payments[p])
    /\ OnTime(receipts[c], payments[p])

\* However long its completion is delayed, and whatever expiry, recovery or
\* other confirmations do meanwhile, a matching receipt stamped before the
\* deadline never finds its payment expired and is never judged late.
OnTimeReceiptIsHonoured ==
    \A c \in DOMAIN receipts, p \in DOMAIN payments :
        Honourable(c, p) =>
            IF receipts[c].completed
            THEN confirmations[c].disposition \in {"applied", "already_resolved"}
            ELSE payments[p].status # "EXPIRED"

Applied(c, p) ==
    /\ c \in DOMAIN confirmations
    /\ confirmations[c].disposition = "applied"
    /\ confirmations[c].payment_id = p

\* A delayed payment holds money exactly when one confirmation was applied to
\* it; that one was on time and asked for the right money.
AppliedExactlyOnce ==
    \A p \in KnownReferences :
        /\ payments[p].captured_amount > 0 <=> \E c \in ConfirmationIds : Applied(c, p)
        /\ \A c \in ConfirmationIds : Applied(c, p) =>
             /\ Honourable(c, p)
             /\ \A d \in ConfirmationIds : Applied(d, p) => d = c

\* While a matching receipt is pending, the awaiting payment it names can only
\* be captured: no cancellation, late confirmation or expiry run resolves it.
ProtectedPaymentStays ==
    [][\A p \in DOMAIN payments :
         payments[p].status = "AWAITING_PAYMENT" /\ has_protecting_receipt(p) =>
            payments'[p].status \in {"AWAITING_PAYMENT", "CAPTURED"}]_vars

\* Ledger entries, events, idempotency records and confirmations are written
\* once; a receipt only ever turns from pending to completed.
RecordsArePermanent ==
    [][/\ \A p \in PaymentIds :
            /\ ledger[p] = SubSeq(ledger'[p], 1, Len(ledger[p]))
            /\ events[p] = SubSeq(events'[p], 1, Len(events[p]))
       /\ \A k \in DOMAIN idempotency :
            k \in DOMAIN idempotency' /\ idempotency'[k] = idempotency[k]
       /\ \A c \in DOMAIN confirmations :
            c \in DOMAIN confirmations' /\ confirmations'[c] = confirmations[c]
       /\ \A c \in DOMAIN receipts :
            /\ c \in DOMAIN receipts'
            /\ receipts'[c] \in {receipts[c], [receipts[c] EXCEPT !.completed = TRUE]}
      ]_vars

\* scenario-catalog.md: "received_at < expires_at" is on time, case 4 (on time,
\* mismatched) gets a mismatch disposition, and the order in which processing
\* finishes does not change the outcome. _classify looks at EXPIRED first.
OnTimeReceiptNeverLate ==
    \A c \in DOMAIN confirmations, p \in DOMAIN payments :
        /\ confirmations[c].payment_id = p
        /\ OnTime(receipts[c], payments[p])
        => confirmations[c].disposition # "late"

----------------------------------------------------------------------------
(* Progress, under FairSpec.                                               *)

\* An accepted confirmation is not lost: whatever fails between acceptance and
\* completion, recovery brings every receipt to a disposition.
AcceptedReceiptsComplete ==
    \A c \in ConfirmationIds :
        c \in DOMAIN receipts ~> c \in DOMAIN confirmations

AwaitingPastDeadline(p) ==
    /\ p \in DOMAIN payments
    /\ payments[p].status = "AWAITING_PAYMENT"
    /\ payments[p].expires_at <= now

\* A delayed payment does not stay open for ever: neither mismatched, late,
\* pending or failing confirmations keep expiry from it, nor more due payments
\* than one run takes, nor runs that roll back with all of their payments.
AwaitingPaymentsResolve ==
    \A p \in PaymentIds : AwaitingPastDeadline(p) ~> ~AwaitingPastDeadline(p)

----------------------------------------------------------------------------
(* The contract.                                                           *)

View(row) ==
    [status |-> row.status, amount |-> row.amount,
     authorized_amount |-> row.authorized_amount,
     captured_amount |-> row.captured_amount,
     refunded_amount |-> row.refunded_amount]

Contract == INSTANCE PaymentContract WITH
    account <- [p \in PaymentIds |->
                  IF p \in DOMAIN payments THEN View(payments[p]) ELSE None],
    book <- ledger,
    outbox <- [p \in PaymentIds |->
                 [v \in DOMAIN events[p] |-> View(events[p][v].payment)]]

\* The whole service, with its stale copies, retries and pending receipts,
\* moves every payment only as the contract allows, with a ledger entry for
\* every movement of money and one event for every change.
ImplementsContract == Contract!Spec
=============================================================================
