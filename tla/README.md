# Payment Platform Quality Lab: verification

TLA+ models of the payment service in `src/payment_quality_lab`, TLC configurations that
model-check them on small instances, and theorems that TLAPS proves for every instance.
Paths below are relative to `src/payment_quality_lab` unless they start with `docs/`.

## The system

One FastAPI process (or several) on one SQLite database. Every HTTP request gets a session of
its own (`main.py: provide_session`); synchronous handlers run in a thread pool.

| Part | State it keeps | Operations | Hard because |
|---|---|---|---|
| Domain rules, `domain/payment.py` | none (pure) | authorize, capture, capture_confirmation, expire, cancel, refund | balances must fit the status on every path |
| Lifecycle service, `services/payments.py` | `payments`, `ledger_entries`, `idempotency_records` | authorize, capture, cancel, refund, each under an idempotency key | look-up and claim are two steps; sessions hold stale rows; answers get lost |
| Confirmation service, `services/confirmations.py`, `coordination.py` | `confirmation_receipts`, `payment_confirmations` | accept, complete, recover, expire | two transactions per confirmation; a deadline; expiry, recovery, cancellation and other confirmations race |
| Webhook producer, `services/webhooks.py` | `webhook_events`, `webhook_delivery_attempts` | create an event, claim, send, finalize | leases expire while their owner works; acknowledgements get lost; attempts are limited |
| Webhook consumer, same file | `processed_webhooks`, `merchant_payment_projections` | consume | duplicates, any order, concurrent consumptions that read before they write |
| Reconciliation, `services/reconciliation.py` | settlement batches | create a batch, report | the report reads five tables in turn while payments move |
| Confirmation report, `services/confirmation_reporting.py` | `confirmation_reports` | a section written once per batch | its cutoff and the receipts pending then |
| Checkout client, `web/checkout/checkout.js`, `checkout-view.js`, `money.js` | session storage, UI state | submit, retry, resolve, reset, restore, refresh | a key kept or lost after a failure; reloads while requests run on; overlapping fetches; amounts shown and read back |
| API, schemas, migrations, performance harness | none of the above | validation, error mapping, start-up | - |

The lifecycle and confirmation services meet in the `payments` and `confirmation_receipts`
tables: a pending receipt that matches its payment and is on time *protects* the payment from
cancellation and expiry. Both services write the outbox (`create_outbox_event`) in the
transaction that changes the payment; the producer delivers it later; the consumer keeps the
merchant's own view. Reconciliation reads everything. The checkout page is one client of the
lifecycle service: it makes authorizations under a key it keeps in session storage, and reads payments.

What makes each part correct:

- a payment's balances fit its status and are the sums of its ledger entries;
- a key has one effect and one answer, however often and however concurrently it is used;
- the outbox is the exact history of the payment;
- a matching confirmation received before the deadline is honoured, whatever runs meanwhile; money is
  applied once; accepted receipts and awaiting payments are resolved eventually;
- a report that reads a moving database never calls consistent what is not, and expects what was
  captured and not refunded at its cutoff;
- an event is believed delivered only if the merchant stored it, the attempts explain its state,
  and the merchant's view does not go back in time; no event is stuck once somebody asks for it;
- a customer's tab takes one order at a time and at most one payment is made for it; through lost requests,
  thrown fetches, timeouts and reloads the key to ask for it again is kept until that payment has been
  displayed, unless the page drops the key itself, on an error status or on a success without a body.

## What a step is

SQLite admits one writer, and SQLAlchemy's SQLite driver runs SELECTs outside any transaction until the first
write. So a handler that looks something up and then writes is two steps, with other sessions'
commits between them; everything from the first write (or `BEGIN IMMEDIATE`) to the commit
is one step. A rolled-back transaction changes no table. A timeout after the commit is the same
step without the answer. `session.get` returns a row the session has already loaded: the HTTP
routes start with an empty session, but the services take a session from any caller, and
`tests/integration/test_payment_reliability.py:178` passes a stale one, so a capture or a refund
may arrive with a copy.

`receive_webhook` is an `async def` without an await between its look-up and its commit: inside one process it
runs on the event loop, one delivery at a time. Dispatches run in the thread pool and consume on their own
threads. So what can overlap are dispatches with each other and with one delivery from outside, and the webhook
runs have exactly these.

Left out everywhere: formats, digests (two fingerprints are equal when the commands are),
merchant references, timestamps nothing compares, and input the API's schemas reject.

## Modules

| Module | Models | Correspondence |
|---|---|---|
| `PaymentDomain` | `domain/payment.py` | `CanX(s)` is the condition under which rule `x` does not raise, `x(s)` its result; the balance checks of the constructor (`ValidState`) are part of it, through `Constructs` |
| `PaymentStore` | `persistence/models.py`, `create_outbox_event`, `coordination.py` | one variable per table; `Publish` writes rows and their events; `has_protecting_receipt` |
| `PaymentLifecycle` | `services/payments.py` | `Arrive` is the request up to its look-up; `Authorize`, `Capture`, `Cancel`, `Refund` claim, apply and commit; `ReplayConcurrent`, `Refuse`, `Interrupt` are the other ways a request ends |
| `Confirmations` | `services/confirmations.py` | `AcceptNew`, `AcceptAgain`; `Complete` (with the guards of the domain rule it applies), `CompleteAgain`, `Give_up` for both deliveries and recovery; `Recover`; `ScheduleExpiry` (its clock is read), `Expire`, `AbandonExpiry` |
| `PaymentPlatform` | both services and the clock | composition, invariants, action properties, fairness, refinement |
| `PaymentContract` | what a payment is allowed to do (abstract) | `Opens`, `Settles`, `Resolves`, `Refunds`, each with its book entry and its announcement |
| `WebhookConsumer` | `consume_webhook` | `LookUp` (inbox), `Load` (projection), `Store` (both rows), `Collide` (IntegrityError), `Raise` (a `WebhookVersionConflictError`, or any failure) |
| `WebhookDelivery` | `dispatch_webhook` | `Claim`, `LoadEvent`, `Send`, the receiver's outcome, `Finalize` on the loaded copy, `Crash`; deliveries from outside; the clock |
| `Reconciliation` | `services/reconciliation.py`, `services/confirmation_reporting.py`, on top of `PaymentPlatform` | `Serve` is a step of the service with the times it writes; `create_settlement_batch`; one action per SELECT of a report (`Ask`, `ReadLedger`, `ReadEvent`, `ReadInbox`, `ReadProjection`); `Generate` is the section under the writer reservation; `Leave` is a report delivered or failed |
| `CheckoutMoney` | `web/checkout/money.js`, `displayAmountFromMinorUnits` | `MinorUnits` and `IsMinorUnits` are `parseMinorUnits` and when it is not null |
| `CheckoutClient` | `web/checkout/checkout.js`, `checkout-view.js`, on top of `PaymentLifecycle` | `Submit` and `Retry` are `submitPayment` up to its await; `PaymentResolved`, `ResultUncertain`, `ErrorStatus` are its branches after it; `resetCheckout`; `Reload` is the script from its start through `restorePayment` to its await or end, `Restored`/`NotRestored` the rest; `StartRefresh`, `Refreshed`, `NotRefreshed` the refresh handler; `ServeRead` is the service answering a GET; `Service` its requests |
| `CheckoutContract` | what a checkout promises its customer (abstract) | `Place`, `Pay`, `Tell`, `GiveUp`, `Lapse` |
| `PaymentPlatform_proofs`, then `PaymentSteps_proofs`, `PaymentEvidence_proofs`, `PaymentLedger_proofs` | - | theorems about `PaymentPlatform`, each module on top of the one before |
| `Reconciliation_proofs` | - | theorems about `Reconciliation`, on top of all of those |
| `WebhookDelivery_proofs` | - | theorems about `WebhookDelivery` |
| `CheckoutClient_proofs`, then `CheckoutResult_proofs` | - | theorems about `CheckoutMoney` and `CheckoutClient` |
| `MCPaymentPlatform`, `MCWebhookDelivery`, `MCReconciliation`, `MCCheckoutClient` | - | instances for TLC: symmetry, histories, forms; `OrderedSpec` is `FairSpec` with identities in one order and bounds on what is sent; `EndlessSpec` is a clock without an end |

`ImplementsContract` is a refinement: the status, amounts and balances of a row are the
contract's account, the ledger is its book, and the payloads of the events are its announcements.
Stale copies, idempotency, receipts, workers and the clock disappear in the abstraction.
The checkout has one too. The orders of `CheckoutContract` are named by the tab's keys: the active one, and those
that the service recorded or that a request may still pay. The payment of an order is the one recorded under its key, and
its fate follows from the page: *awaited* while the key is active, *told* once the payment has been displayed, *given up*
when the page dropped the key. An order of no fate would be one lost without a word, which the contract does not know. Two
history variables tell the last two apart: `seen`, the payments the page has displayed, and `abandoned`, the keys it
dropped on an error status or on a success without a body. Requests, retries, answers and reloads disappear.

The webhook modules follow the events of one payment: events of others touch other rows. An
event is named by its version, which is unique in the outbox (this is what
`OutboxMirrorsVersions` says of the payment side).

`Reconciliation` needs the times that the other modules leave out: `created_at` and `entered_at` hold
the `created_at` of every event and entry. A confirmation's capture is stamped with its receipt's
time and an expiry with the time its run was called with, so a row may be stamped before the cutoff and
committed after it. Its merchant consumes one event at a time.

In `CheckoutClient` a submission is a request of `PaymentLifecycle` under a key of the tab. A reload
forgets which answer the page awaits and leaves the request running, so two attempts under one key may be in
progress; other clients, with keys of their own, cancel, capture and refund the payments meanwhile. A text in
the amount field is a number and the digits after its point. What the customer typed and the page refuses
never becomes a submission. The payment page of a declined or synchronous payment has no refresh.

A name such as `Claims_WithoutInsert` is a plausible defect of the definition after it; no
specification uses it, and the property it is meant to break is listed in `PROJECT.json`.

## Runs

| Run | Instance | Shows |
|---|---|---|
| `lifecycle_races` | 1 payment, 2 requests at once, 4 keys, amounts 1-2, all tokens | `LedgerExplainsBalances`, `OneEffectPerKey`, `AnswersAreRecorded`, `ImplementsContract` |
| `delayed_races` | 1 delayed payment, 2 confirmations (right, wrong amount, unknown), one delivery, one recovery, one expiry run, a client with 2 keys, deadline at 1 | `TypeOK`, `BalancesFitStatus`, `OutboxMirrorsVersions`, `EvidenceAgrees`, `OnTimeReceiptIsHonoured`, `AppliedExactlyOnce`, `ProtectedPaymentStays`, `RecordsArePermanent`, `ImplementsContract` |
| `progress` | 3 delayed payments, expiry runs that take 2, recovery runs that take 1 receipt, a right and a wrong confirmation, fairness | `AcceptedReceiptsComplete`, `AwaitingPaymentsResolve` |
| `late_verdict` | 1 delayed payment, 2 confirmations in 2 currencies, one worker of each kind | violates `OnTimeReceiptNeverLate` |
| `serial_webhooks` | 1 dispatch, 2 versions, 2 attempts, lease of 1, an endless clock, fairness | `ProjectionIsNewestProcessed`, `GapsAreVisible`, `EventsSettle` |
| `lease_races` | 2 dispatches and 1 direct delivery, 2 events, 2 attempts, leases that expire | `TypeOK`, `AttemptsExplainStatus`, `DeliveredIsProcessed`, `AcceptedIsStored` |
| `lease_verdict` | 2 dispatches | violates `ActiveAttemptIsOwned` |
| `projection_verdict` | 1 dispatch and 1 direct delivery, 3 versions | violates `ProjectionNeverRegresses` |
| `report_races` | 1 delayed payment, 1 confirmation, 2 keys, deadline 2 after its authorization, clock and cutoffs 0-1, a batch of up to 2 rows, 1 event processed, reports again and again | `MatchedIsConsistent`, `ExpectedAmountIsHistorical`, `RowsAreNeverExcluded`, `MatchedReportBalances`, `LedgerIsNeverBehind`, `SectionAgrees`, `SectionsArePermanent` |
| `false_warning` | 1 payment of the synchronous flow, 3 keys, an empty batch | violates `NoFalseLedgerWarning` |
| `checkout` | 2 submissions (one delayed), each in progress up to twice, 2 forms in 2 currencies, 1 other client with 1 key, fairness | `TypeOK`, `UncertainPaymentsStayRetryable`, `RetriesAskTheSame`, `ReloadShowsTheSame`, `ResultIsOnePayment`, `DisplayIsStable`, `SubmissionsResolve`, `ImplementsContract` |
| `lost_sight` | as `checkout` | violates `PaymentsAreShownOrRetryable` |

### Bounds

- *One payment.* Rows of different payments interact only through a shared key and through the
  expiry batch; the key is shared among operations of one payment just as well, and the theorems
  hold for any number of payments. The batches are what `progress` is about:
  three payments are due, an expiry run takes the two oldest, and a run that fails rolls both back; two receipts are
  pending, and a recovery run takes one. There clients only authorize, in one currency, and the confirmations are a right
  one and a wrong one of the first payment; every race of one payment is in `delayed_races`.
- *Order.* A liveness check may not use symmetry. `OrderedSpec` uses payments and keys from the lowest on instead: nothing
  else depends on which is used, so a behaviour in another order is one of these under other names.
- *Keys* end a lifecycle run: a key is used up by a commit. Four keys reach every status, two
  partial refunds that compete, and one failed operation. Two keys suffice for delayed payments:
  authorization, and a cancellation or a refund.
- *Two confirmations* are what a conflict needs: one on time and one late or wrong, or two that
  both match. One worker of each kind is enough to have a delivery, a recovery and an expiry run
  in progress at once; deliveries do not keep state that a second one could read.
- *Clock* (`MaxTime`): before, and exactly at, the deadline; later instants behave as the
  deadline does. For webhooks, 1: a lease taken at 0 expires and is
  claimed again, and a retry becomes due. `serial_webhooks` needs a clock without an end: only differences between instants
  matter, so at `MaxTime` every instant that is kept moves one back instead (`LaterStill`), and what is long past stays at
  0. A dispatch that has yet to compare its own instant with a lease holds the clock until it has, where its instant would
  otherwise leave the range.
- *One dispatch* in `serial_webhooks`: two could take each other's leases for ever, and the fairness below does not exclude it.
- *Attempts*: 2 of the 3 the code allows, with one delay; the limit is reached.
- *The tab*: two keys are an order and the one after it; two requests are an attempt and its retry;
  the amount 105 is written 1.05 in one currency (its zero matters) and 105 in the other. The other client's
  one key cancels a delayed payment or captures a synchronous one, so that reads may see two versions.
- *Versions*: two, in any order, are a gap, a stale event and a newer projection; the theorems have histories of any
  length. `projection_verdict` needs the third.
- *Reports.* One at a time: a report writes nothing another reads but the section. `Generate` is one step, since
  the section is looked up, computed and saved under the writer reservation, so concurrent reports generate it one after
  the other, as `report_races` does. Two rows are a duplicate. `MaxRead` bounds the events the merchant processes; one of
  three leaves every kind of lag. The window of 2 lets a confirmation be on time and after the cutoff; late confirmations and
  expiry are left to the theorems, and so are rows in another currency.

Deadlock is checked in every run: a client can always send another request.

### Fairness

Nothing in the repository runs recovery or expiry unattended
(`docs/quality/enhancements/e2-asynchronous-payment-confirmation/closing-report.md:141`:
"recovery is explicit rather than unattended"). `FairSpec` therefore states what the operator
owes: time passes (weak fairness of `Tick`), recovery and expiry runs are started whenever they can be
(weak fairness of `Recover`, `ScheduleExpiry`), and a run that is tried again and again does not fail every
time (strong fairness of completing a receipt and of `Expire`: `Give_up` and `AbandonExpiry`
disable both again and again). HTTP deliveries, clients and senders get no fairness: an accepted receipt
completes even if its delivery stops for ever.

Nothing dispatches webhooks unattended either (`POST /webhooks/events/{event_id}/deliver` is the only caller).
`WebhookDelivery`'s `Fairness` promises that time passes (weak fairness of `Tick`), that a dispatch in progress goes on or stops, that each
event is asked for again and again (strong fairness of `Ask`, per event), and that its dispatches are not stopped at the
same point every time: one that is claimed again and again is loaded, one that is sent again and again gets a result (any answer, or
none), one with a result is finalized (strong fairness, per event, of `LoadEvent`, of `NotSent \/ Acknowledged`, of
`Finalize`). The last is needed because a crash, and an exception of the receiver's own, record no attempt: a dispatch
that always stops there would be claimed again without end, and the limit of attempts would never be reached. Receivers and
the network owe no success, so an event may also end exhausted.

In `CheckoutClient` the customer keeps pressing retry, and an attempt that is tried again and again
reaches the service (strong fairness of `Retry /\ posting' # None`), is performed (strong fairness of `Perform`) and
answered (strong fairness of `PaymentResolved`); a fetch settles (weak fairness of `ResultUncertain`). Reloads,
refreshes, other clients and new orders get no fairness: reloads may go on for ever.

## Disagreements with the documentation

1. `late_verdict`: `_classify` looks at EXPIRED before it looks at the receipt time
   (`services/confirmations.py:266`). A receipt stamped in time but with the wrong amount or
   currency is judged `late` if expiry runs before its completion. The scenario catalog makes the
   receipt time decide, whatever the order of processing. Money is not affected; the evidence is.
2. `lease_verdict`: `_finalize_delivery` checks the lease on the row loaded before the call
   (`services/webhooks.py:656`). A dispatch that outlived its lease takes the event away from the
   dispatch that owns it; the owner then fails on the unique attempt number. `docs/webhook-delivery.md:83`
   gives the attempt one owner. `AttemptsExplainStatus` shows what survives: numbering, limit and state stay right.
3. `projection_verdict`: `consume_webhook` decides on a projection read before its transaction
   (`services/webhooks.py:526`), and the row has no version check. Two consumptions can leave a lower version as the
   current one, against `docs/webhook-delivery.md:103`. `DeliveredIsProcessed` (`lease_races`) shows what survives,
   `serial_webhooks` that one consumption at a time keeps all the promises. The same race can leave a projection of neither version,
   because the UPDATE writes only the columns that differ from the row that was loaded (`apply_projection`); a repeat may then find its own version with other content and
   raise `WebhookVersionConflictError` (`services/webhooks.py:558`), in `Raise`. `AcceptedIsStored` (`lease_races`) does not suffer from it.
4. `false_warning`: a report selects the payment rows first and each ledger later, outside a transaction
   (`services/reconciliation.py:344` and `:359`). An operation that commits in between (the run's is a capture; a refund does the same) is in the ledger totals and not in the row, and the
   report announces a ledger mismatch, although `docs/reconciliation.md:44-46` promises that later refunds raise none.
   `LedgerIsNeverBehind` shows the direction of the error (the ledger may be ahead, never behind), and
   `MatchedIsConsistent` that the report's projection check notices it: such an item is never reported as matched throughout.
5. `lost_sight`: `submitPayment` drops its key on every status but success and `504 payment_timeout`
   (`web/checkout/checkout.js:437`), and on a success whose body it cannot read, which it replaces by `{}` (`:428`). If the payment
   was committed (an exception after the commit, a gateway's own error, a 504 without its body, a retry refused because the
   writer is busy with the first attempt), the page shows a failure, or a result without a payment, and no retry is
   left. REG-04 (`docs/quality/enhancements/ux1-checkout-experience/scenario-catalog.md:345`) asks for uncertainty and a safe
   retry. `UncertainPaymentsStayRetryable` shows what survives: every other failure keeps the key until the payment has been
   displayed, and the contract's `GiveUp` is exactly these two cases.

## Proofs

Every safety property that a passing run checks (invariant or action property) is also a theorem, and so are both refinements. What the
theorems assume of the constants are the named `ASSUME`s of the modules: positive amounts, a positive window, a NULL
that is no identity and no number, limits of at least one, known tokens, natural bounds. Two theorems about webhooks have a hypothesis of their own,
one consumption at a time, stated with them below.

### The payment service

`PaymentPlatform_proofs`:

| Theorem | States |
|---|---|
| `TypeCorrect` | `Spec => []TypeOK` |
| `BalancesAlwaysFit` | `Spec => []BalancesFitStatus` |
| `OutboxAlwaysMirrors` | `Spec => []OutboxMirrorsVersions` |

None of the three is inductive alone. Types need the others because an entry's amount is
positive only when the balances fit the status (a CANCEL entry repeats the authorized amount);
balances need the outbox because a request writes the successor of the copy *it holds*, and the
copy is harmless only because its version check makes it the current row; that follows from
`CopiesArePublished` (a copy is what was published under its version) and `RowsArePublished` (the
current row is what was published last), lemma `LoadedIsCurrent`; and the outbox needs the types. The
inductive invariant `Core == TablesOK /\ SessionsOK /\ DeliveriesOK` groups their conjuncts by
the part of the state they speak of; `CoreMeaning` shows it equal to the three together, and
the runs check all three.

The argument: every domain rule keeps rows well formed (`CaptureRow` ... `MoveRow`); publishing
the next version of a row keeps rows, events and ledger in step (`PublishRows`, `MoveStep`,
`OpenStep`, `ExpireStep`); every action is one of these, or leaves the tables alone (one lemma per
action); sessions keep their copies published as long as events only grow (`CopiesKept`).

`PaymentSteps_proofs`:

| Theorem | States |
|---|---|
| `ServiceImplementsContract` | `Spec => ImplementsContract` |
| `RecordsStay` | `Spec => RecordsArePermanent` |
| `AnswersAreTheRecords` | `Spec => []AnswersAreRecorded` |
| `KeysHaveOneEffect` | `Spec => []OneEffectPerKey` |

`StepKinds` reduces the actions to five kinds of database steps: a quiet one, the commit of a request
(`ClientChange`), an acceptance, a completion, an expiry run. `Changes` says what each kind does to one payment:
nothing (`SameAt`), an opening (`OpenedAt`), or one move with its entries and its event (`MovedAt`). The refinement
follows payment by payment: `OpenedMeans` and `MovedMeans` match these with `Opens`, `Settles`, `Resolves` and
`Refunds` of the contract, with `Core` supplying the balances that the status stands for. Expiring several payments
at once is why the contract's step is a conjunction over payments.
`OneEffectPerKey` is inductive with `Core` alone, because a version is a position in the outbox: a commit appends the one
event its record names, no earlier record can name a position that was not there, and the events that no client made
(`SystemStep`) leave the records alone.

`PaymentEvidence_proofs`:

| Theorem | States |
|---|---|
| `ProtectionHolds` | `Spec => ProtectedPaymentStays` |
| `EvidenceAlwaysAgrees` | `Spec => []EvidenceAgrees` |
| `InTimeIsInTime` | `Spec => []OnTimeReceiptIsHonoured` |
| `PaidByOneConfirmation` | `Spec => []AppliedExactlyOnce` |

`Fates` sharpens `Changes` for a payment that exists: an awaiting one is captured by a confirmation that is applied to it
(`AppliedBy`), or is cancelled or expires *when nothing protects it* and, for an expiry, past its deadline. The inductive
invariant `Evidence` is `Core`, the three properties and `NamedByReceipts` (a confirmation is of the payment its
receipt names), without which a confirmation could be of a payment that is only opened later. `OnTimeReceiptIsHonoured`
rests on the comparisons at the deadline: a receipt on time is stamped before it, an expiry run or a late receipt at or after it,
both with clocks that are not ahead (`EvidenceAgrees`), and protection covers what lies between.

`PaymentLedger_proofs`:

| Theorem | States |
|---|---|
| `LedgerAlwaysExplains` | `Spec => []LedgerExplainsBalances` |

`Total` is `SumFunctionOnSet`, a recursive function of the community modules. What is needed of it (`SumsExist`, `SumGrows`,
`SumTaken`: the sum exists, is a number, and grows by what is added) would be inductions over finite sets; they are
proved by contradiction from a subset of least size that is an exception (`Least`, `Minimal`). With them,
every move keeps what the entries explain (`MoveExplained`).

### Reports

`Reconciliation_proofs`:

| Theorem | States |
|---|---|
| `SavedSectionsStay` | `ReconciliationSpec => SectionsArePermanent` |
| `LedgerStaysAhead` | `ReconciliationSpec => []LedgerIsNeverBehind` |
| `MatchedMeansMatched` | `ReconciliationSpec => []MatchedIsConsistent` |
| `ExpectedIsOfTheCutoff` | `ReconciliationSpec => []ExpectedAmountIsHistorical` |
| `RowsAreAllShown` | `ReconciliationSpec => []RowsAreNeverExcluded` |
| `MatchedReportsBalance` | `ReconciliationSpec => []MatchedReportBalances` |
| `SectionsAgree` | `ReconciliationSpec => []SectionAgrees` |

`ServiceUndisturbed` carries over everything that is proved of the service. The rest is a chain of invariants:

- `Times`: every event and entry has its time, and *no event or entry of a payment is younger than its last event*, although a
  capture is stamped with its receipt's time and an expiry with its run's. That needs the evidence: a receipt names a
  payment that was there when it was accepted (`ReceivedAfterOpening`), and what a late stamp changes was awaiting, so nothing
  has happened to it since its opening (`AwaitingIsNew`).
- `History`: at every time, the totals of the entries up to that time are the balances of the version of the payment that the
  time selects among the events (`AgreesAt`). A change appends to both sides, at the end and with one time.
- `Reports`: what a report in progress has read is *of some version since it listed the row* (`Listed`, `ReadSince`, `IsItem`).
  Other actors' steps keep this because payments, events, totals and batches only grow (`Later`, `TimePasses`, `ReportStays`); the report's own step
  keeps it because of `History`. If no event was read that is newer than the row, the ledger read before was exactly the row's:
  this is why a projection that matches implies a ledger that matches.
- `Verdicts`: a delayed payment is paid by its events exactly from the time on at which the confirmation applied to it was received
  (`Confirmed`). So the payments a section counts as confirmed on time and the confirmations it counts as applied are in
  one-to-one correspondence (`SectionCounts`), at every cutoff, however late the section is generated.

The sums of a report over payments and rows use two lemmas in the same style as the ledger's, `CountedByKey` (rows counted by
the payment they name are all the rows) and `SumWithoutZeros` (payments without a row, expected to settle nothing, do not count).

### Webhooks

`WebhookDelivery_proofs` proves, for every history, any number of dispatches and deliveries in progress, any
limit of attempts, delays and lease:

| Theorem | States |
|---|---|
| `TypeCorrect` | `Spec => []TypeOK` |
| `AttemptsAlwaysExplain` | `Spec => []AttemptsExplainStatus` |
| `DeliveredAlwaysProcessed` | `Spec => []DeliveredIsProcessed` |
| `AcceptedAlwaysStored` | `Spec => []AcceptedIsStored` |
| `ViewIsAlwaysNewest` | `Spec => []ProjectionIsNewestProcessed`, if there is one consumption at a time |
| `GapsAreAlwaysVisible` | `Spec => []GapsAreVisible`, if there is one consumption at a time |

`Types` adds to `TypeOK` what each slot needs in order to go on: its event is published, a dispatch past its load has a
copy, a projection that was loaded still exists. A dispatch records its attempt on a copy that may be old, because
only the copy's lease is checked. `Attempted` is inductive because of `CopyIsPast`: the count of a leased copy is one
the event has passed, with failures only. So a late dispatch either meets its number taken
(`uq_delivery_event_attempt`) or writes the attempt that comes next after failures, and never reopens what was settled. `Delivered` is
inductive because of `WorkStands`: a dispatch waits for a consumption of its own event, and an accepted one has been
stored. With one consumption at a time, what it has read is still so when it writes (`ReadsHold`), which makes
`Serial` inductive; the run `projection_verdict` shows that two consumptions break it.

### The checkout

`CheckoutClient_proofs` proves, for every set of keys, requests, payments and clients:

| Theorem | States |
|---|---|
| `DisplayRoundTrips` | what `displayAmountFromMinorUnits` shows is accepted by the form and read back as the same minor units |
| `StorageFollowsPage` | `Spec => []ReloadShowsTheSame` |
| `RetriesNeverConflict` | `Spec => []RetriesAskTheSame` |
| `NothingIsLostSightOf` | `Spec => []UncertainPaymentsStayRetryable` |

The inductive invariant `IInv` adds to the first two properties what they rest on: a key was handed out
before anything used it (`KeysAreMinted`), so a new submission's key is nobody's; the answer the page awaits is
about the active key (`PostingIsActive`); at most one read is in flight and it is of the payment the page is about
(`ReadsAreCurrent`), so that a late answer cannot show another one; and a stored submission is one the form accepted
(`SubmissionIsValid`), so that `DisplayRoundTrips` applies to what a reload rebuilds. The service enters through two
facts only, `Arrived` and `Ended` (lemmas `ArriveStep`, `RequestStep`): a request changes its own slot, and at most records its
own key, for the first time, with its own command. `UncertainPaymentsStayRetryable` is then inductive
together with `IInv`. No step takes a key out of the active and the dropped ones but the three that show what it paid
for or could not be used while it is active (`KeyNotDropped`); then there is one lemma for a submission, whose key is new
(`SubmitShows`), one for a result (`ResolvedShows`), one for the service, which records a key only for a request that has it
(`ServiceShows`), and one for the rest (`OtherShows`).

`CheckoutResult_proofs` adds what depends on the rows that the service writes:

| Theorem | States |
|---|---|
| `TabTypeCorrect` | `Spec => []TypeOK` |
| `ResultIsAlwaysOnePayment` | `Spec => []ResultIsOnePayment` |
| `DisplayStays` | `Spec => DisplayIsStable` |
| `CheckoutKeepsContract` | `Spec => ImplementsContract` |

`ServiceOK` is the little of `PaymentPlatform`'s invariant that a page can see: the versions of a payment belong together, and
a key of the tab has the payment that its submission asked for; `Shown` says that the row on display, and every row
in flight, is a published version of the payment the page is about, and that the controls say what the row says. A row is
mapped back to a form by the token that asks for it (`TokenOf`), which a form the page accepts always has
(`Orderable`). A refresh cannot go back because it reads no version older than the one on display. For the contract, `OrdersInv == ResultInv /\
OneCommandPerKey /\ SeenExist` adds that all attempts and the record of a key ask for one command (`CommandIsKnown` gives an
order its command whichever of them is left), and that what was displayed exists. `StepKinds` reduces the actions to those that leave
keys, records and fates alone, a submission (`SubmitOrders`), a result (`ResolvedOrders`), an error status (`ErrorOrders`) and
the end of a request (`EndedOrders`); each changes at most one order (`OneBecomes`) or takes one away that nothing can pay any
more (`OrderLapses`). That no order is ever of no fate is `NothingIsLostSightOf`.

### Checked by TLC only

The liveness properties (`AcceptedReceiptsComplete`, `AwaitingPaymentsResolve`, `EventsSettle`, `SubmissionsResolve`): their
proofs need ENABLED, which the installed provers do not support. The five properties of the runs that expect a violation are not theorems, since the code refutes them.

## Not modelled

Of the checkout: the merchant reference (it is carried like the token), languages, focus, several tabs (each has its own
session storage), and session storage written by something else. Signatures and payload parsing are pure functions of bytes. Migrations run offline before start-up. The
performance harness observes from outside. Wording, styles and page layout hold no state.
Event collisions (one identity with two contents, `WebhookEventCollisionError`) need a producer that signs two contents
for one identity; this one does not.

## Plan

Done, in this order: the payment core and its contract, its proofs, webhooks, reconciliation, the
checkout with its contract and proofs, webhook liveness, the proofs about webhooks; then the contract, records,
idempotency, evidence and ledger of the payment service, the rest of the checkout, and reconciliation.

Left:

1. Refinements below the contracts: an abstract specification of webhook delivery (what the merchant is promised under racing
   dispatches) that `WebhookDelivery` implements, and its proof.
2. The financial verifier of the performance harness (`performance/verifier.py`): which defects of the service its
   checks tell apart.
