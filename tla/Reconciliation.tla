--------------------------- MODULE Reconciliation ---------------------------
(***************************************************************************)
(* Settlement batches and reconciliation reports (services/reconciliation  *)
(* and services/confirmation_reporting), composed with the running payment *)
(* service.                                                                *)
(*                                                                         *)
(* A report reads its tables one SELECT after another, outside any         *)
(* transaction: payments, settlement rows, and then, payment by payment,   *)
(* ledger, latest event, inbox and projection. Payments move meanwhile.    *)
(* Its confirmation section is computed and saved under the writer         *)
(* reservation, once per batch.                                            *)
(***************************************************************************)
EXTENDS PaymentPlatform

CONSTANTS
    Batches,    \* identities of settlement batches
    Reporters,  \* reports that may be in progress at once
    MaxRows,    \* the bound on the rows of a batch
    MaxRead     \* the bound on the events of a payment the merchant processes

ASSUME BoundsAssumption == MaxRows \in Nat /\ MaxRead \in Nat

VARIABLES
    created_at,   \* created_at of every event, by payment and version
    entered_at,   \* created_at of every ledger entry, by payment
    inbox,        \* the versions of each payment the merchant processed
    projection,   \* the version the merchant shows, 0 for none
    batches,      \* settlement_batches with their settlement_records, or None
    sections,     \* confirmation_reports: the section of each batch, or None
    reports       \* the report in progress in each slot, or None

stampVars == <<created_at, entered_at>>

reportVars == <<inbox, projection, batches, sections, reports>>

allVars == <<vars, stampVars, reportVars>>

SettlementRows ==
    UNION {[1..n -> [payment_id: PaymentIds, amount: Amounts,
                     currency: Currencies]] : n \in 0..MaxRows}

----------------------------------------------------------------------------
(* The service, with the times it writes into its rows.                    *)

\* An event, and the entry of the same transaction, carry the clock of the
\* authorization's arrival, the receipt's time, the time an expiry run was
\* called with, or else the time of the change.
Stamp(p) ==
    IF p \notin DOMAIN payments
    THEN requests[CHOOSE r \in Requests : requests[r] # requests'[r]].at
    ELSE IF confirmations # confirmations'
    THEN receipts[CHOOSE c \in DOMAIN confirmations' :
                     c \notin DOMAIN confirmations].received_at
    ELSE IF sweeps # sweeps'
    THEN sweeps[CHOOSE s \in Sweepers : sweeps[s] # sweeps'[s]]
    ELSE now

Stamped(stamps, p, rows, rows_next) ==
    IF Len(rows_next) > Len(rows) THEN Append(stamps, Stamp(p)) ELSE stamps

Serve ==
    /\ Next
    /\ created_at' = [p \in PaymentIds |->
                        Stamped(created_at[p], p, events[p], events'[p])]
    /\ entered_at' = [p \in PaymentIds |->
                        Stamped(entered_at[p], p, ledger[p], ledger'[p])]
    /\ UNCHANGED reportVars

\* The merchant consumes one event at a time, in any order, and shows the
\* newest version it has processed. (WebhookConsumer races consumptions.)
Consume(p, version) ==
    /\ version \in DOMAIN events[p] \ inbox[p]
    /\ Cardinality(inbox[p]) < MaxRead
    /\ inbox' = [inbox EXCEPT ![p] = @ \cup {version}]
    /\ projection' = [projection EXCEPT ![p] = IF version > @ THEN version ELSE @]
    /\ UNCHANGED <<vars, stampVars, batches, sections, reports>>

----------------------------------------------------------------------------
(* Settlement batches.                                                     *)

Through(p, cutoff) == p \in DOMAIN payments /\ created_at[p][1] <= cutoff

Importable_AnyDate(rows, cutoff) ==
    \A i \in DOMAIN rows : rows[i].payment_id \in DOMAIN payments

\* A row of an unknown payment, or of one created after the cutoff, raises.
Importable(rows, cutoff) == \A i \in DOMAIN rows : Through(rows[i].payment_id, cutoff)

create_settlement_batch(b, cutoff, rows) ==
    /\ batches[b] = None
    /\ Importable(rows, cutoff)
    /\ batches' = [batches EXCEPT ![b] = [cutoff |-> cutoff, rows |-> rows]]
    /\ UNCHANGED <<vars, stampVars, inbox, projection, sections, reports>>

\* The rows of a payment, by their line numbers.
RowsOf(batch, p) ==
    Restrict(batch.rows,
             {line \in DOMAIN batch.rows : batch.rows[line].payment_id = p})

\* Where a payment has several rows, the first one stands for it.
Canonical(rows) == rows[Min(DOMAIN rows)]

----------------------------------------------------------------------------
(* Rules.                                                                  *)

\* The entries of some operations that were made at some times, added up.
TotalAt(entries, stamps, operations, times) ==
    SumFunctionOnSet(AmountsIn(entries),
                     {i \in DOMAIN entries : /\ entries[i].operation \in operations
                                             /\ stamps[i] \in times})

calculate_ledger_totals_CapturedOnce(p, times) ==
    LET total(operations) == TotalAt(ledger[p], entered_at[p], operations, times)
    IN  [authorized |-> total({"AUTHORIZATION"}),
         captured |-> total({"CAPTURE", "CONFIRMATION_CAPTURE"}),
         refunded |-> total({"REFUND"})]

calculate_ledger_totals(p, times) ==
    LET total(operations) == TotalAt(ledger[p], entered_at[p], operations, times)
    IN  [authorized |-> total({"AUTHORIZATION", "CONFIRMATION_CAPTURE"}),
         captured |-> total({"CAPTURE", "CONFIRMATION_CAPTURE"}),
         refunded |-> total({"REFUND"})]

expected_amount_Current(p, cutoff) ==
    LET totals == calculate_ledger_totals(p, Nat)
    IN  totals.captured - totals.refunded

\* What the ledger says, through the cutoff, is to be settled.
expected_amount(p, cutoff) ==
    LET totals == calculate_ledger_totals(p, 0..cutoff)
    IN  IF totals.captured > totals.refunded
        THEN totals.captured - totals.refunded ELSE 0

classify_settlement_AmountUnchecked(expected, currency, rows) ==
    IF Cardinality(DOMAIN rows) > 1 THEN "duplicated"
    ELSE IF DOMAIN rows = {} THEN IF expected = 0 THEN "matched" ELSE "missing"
    ELSE IF Canonical(rows).currency = currency THEN "matched"
    ELSE "amount_mismatched"

classify_settlement(expected, currency, rows) ==
    IF Cardinality(DOMAIN rows) > 1 THEN "duplicated"
    ELSE IF DOMAIN rows = {} THEN IF expected = 0 THEN "matched" ELSE "missing"
    ELSE IF Canonical(rows).amount = expected /\ Canonical(rows).currency = currency
         THEN "matched"
    ELSE "amount_mismatched"

ledger_status(row, totals) ==
    IF Balances(row, totals.authorized, totals.captured, totals.refunded)
    THEN "matched" ELSE "mismatched"

projection_status_RowOnly(row, shown, latest, latest_processed) ==
    IF shown = None THEN "missing"
    ELSE IF shown # row THEN "mismatched"
    ELSE "matched"

\* Version and content are compared with the row the report listed.
projection_status(row, shown, latest, latest_processed) ==
    IF shown = None THEN "missing"
    ELSE IF shown.version < latest THEN "stale"
    ELSE IF ~latest_processed THEN "missing"
    ELSE IF shown # row THEN "mismatched"
    ELSE "matched"

Shown(p) == IF projection[p] = 0 THEN None ELSE events[p][projection[p]].payment

----------------------------------------------------------------------------
(* The report, one SELECT at a time.                                       *)

NoItems == [p \in {} |-> None]

\* The rows as they are now, and the settlement rows, which never change.
Ask(g, b) ==
    /\ reports[g] = None
    /\ batches[b] # None
    /\ reports' = [reports EXCEPT ![g] =
         [batch |-> b, items |-> NoItems, reading |-> None, section |-> None,
          listed |-> [p \in {p \in PaymentIds : Through(p, batches[b].cutoff)} |->
                        payments[p]]]]
    /\ UNCHANGED <<vars, stampVars, inbox, projection, batches, sections>>

Reading(g) == reports[g] # None /\ reports[g].reading # None

Read(g, reading) ==
    /\ reports' = [reports EXCEPT ![g].reading = reading]
    /\ UNCHANGED <<vars, stampVars, inbox, projection, batches, sections>>

Unread(g) == DOMAIN reports[g].listed \ DOMAIN reports[g].items

ReadLedger(g, p) ==
    /\ reports[g] # None
    /\ reports[g].reading = None
    /\ p \in Unread(g)
    /\ Read(g, [payment_id |-> p, totals |-> calculate_ledger_totals(p, Nat),
                expected |-> expected_amount(p, batches[reports[g].batch].cutoff),
                latest |-> None, processed |-> None])

ReadEvent(g) ==
    /\ Reading(g)
    /\ LET reading == reports[g].reading
       IN  /\ reading.latest = None
           /\ Read(g, [reading EXCEPT !.latest = Len(events[reading.payment_id])])

ReadInbox(g) ==
    /\ Reading(g)
    /\ LET reading == reports[g].reading
       IN  /\ reading.latest # None
           /\ reading.processed = None
           /\ Read(g, [reading EXCEPT
                        !.processed = reading.latest \in inbox[reading.payment_id]])

\* The last SELECT about a payment completes its item.
ReadProjection(g) ==
    /\ Reading(g)
    /\ LET report == reports[g]
           reading == report.reading
           p == reading.payment_id
           row == report.listed[p]
           rows == RowsOf(batches[report.batch], p)
           item == [expected |-> reading.expected, totals |-> reading.totals,
                    settlement |-> classify_settlement(reading.expected,
                                                       row.currency, rows),
                    rows |-> rows,
                    ledger |-> ledger_status(row, reading.totals),
                    projection |-> projection_status(row, Shown(p), reading.latest,
                                                     reading.processed)]
       IN  /\ reading.processed # None
           /\ reports' = [reports EXCEPT ![g].reading = None,
                                         ![g].items = Put(@, Row(p, item))]
    /\ UNCHANGED <<vars, stampVars, inbox, projection, batches, sections>>

----------------------------------------------------------------------------
(* The confirmation section.                                               *)

Outcomes == {"pending", "confirmed_on_time", "cancelled_unconfirmed",
             "expired_without_on_time_confirmation"}

outcome_LatestStatus(p, cutoff) ==
    CASE payments[p].status \in {"CAPTURED", "PARTIALLY_REFUNDED", "REFUNDED"} ->
           "confirmed_on_time"
      [] payments[p].status = "CANCELLED" -> "cancelled_unconfirmed"
      [] payments[p].status = "EXPIRED" -> "expired_without_on_time_confirmation"
      [] OTHER -> "pending"

\* What the payment's events through the cutoff say of it.
outcome(p, cutoff) ==
    LET statuses == {events[p][v].payment.status :
                       v \in {v \in DOMAIN events[p] : created_at[p][v] <= cutoff}}
    IN  IF statuses \cap {"CAPTURED", "PARTIALLY_REFUNDED", "REFUNDED"} # {}
        THEN "confirmed_on_time"
        ELSE IF "CANCELLED" \in statuses THEN "cancelled_unconfirmed"
        ELSE IF "EXPIRED" \in statuses THEN "expired_without_on_time_confirmation"
        ELSE "pending"

\* The observed anomalies only break the dispositions down by currency.
confirmation_section(cutoff) ==
    LET delayed == {p \in KnownReferences : Through(p, cutoff)}
        decided == {c \in DOMAIN confirmations :
                      confirmations[c].received_at <= cutoff}
    IN  [payment_outcomes |->
           [o \in Outcomes |-> Cardinality({p \in delayed : outcome(p, cutoff) = o})],
         dispositions |->
           [d \in Dispositions |->
              Cardinality({c \in decided : confirmations[c].disposition = d})],
         pending_receipt_count |->
           Cardinality({c \in Pending : receipts[c].received_at <= cutoff})]

Saved_Regenerated(b) == confirmation_section(batches[b].cutoff)

\* The first generation is saved, and found by every later one.
Saved(b) ==
    IF sections[b] # None THEN sections[b]
    ELSE confirmation_section(batches[b].cutoff)

\* BEGIN IMMEDIATE: the section is read, or computed and saved, in one step.
Generate(g) ==
    /\ reports[g] # None
    /\ reports[g].section = None
    /\ reports[g].reading = None
    /\ Unread(g) = {}
    /\ LET b == reports[g].batch
       IN  /\ sections' = [sections EXCEPT ![b] = Saved(b)]
           /\ reports' = [reports EXCEPT ![g].section = Saved(b)]
    /\ UNCHANGED <<vars, stampVars, inbox, projection, batches>>

\* The report is delivered, or a step of it failed: nothing else is kept.
Leave(g) ==
    /\ reports[g] # None
    /\ reports' = [reports EXCEPT ![g] = None]
    /\ UNCHANGED <<vars, stampVars, inbox, projection, batches, sections>>

----------------------------------------------------------------------------
ReconciliationInit ==
    /\ Init
    /\ created_at = [p \in PaymentIds |-> <<>>]
    /\ entered_at = [p \in PaymentIds |-> <<>>]
    /\ inbox = [p \in PaymentIds |-> {}]
    /\ projection = [p \in PaymentIds |-> 0]
    /\ batches = [b \in Batches |-> None]
    /\ sections = [b \in Batches |-> None]
    /\ reports = [g \in Reporters |-> None]

ReconciliationNext ==
    \/ Serve
    \/ \E p \in PaymentIds : \E version \in DOMAIN events[p] : Consume(p, version)
    \/ \E b \in Batches, cutoff \in 0..MaxTime, rows \in SettlementRows :
         create_settlement_batch(b, cutoff, rows)
    \/ \E g \in Reporters :
         \/ \E b \in Batches : Ask(g, b)
         \/ \E p \in PaymentIds : ReadLedger(g, p)
         \/ ReadEvent(g)
         \/ ReadInbox(g)
         \/ ReadProjection(g)
         \/ Generate(g)
         \/ Leave(g)

ReconciliationSpec == ReconciliationInit /\ [][ReconciliationNext]_allVars

----------------------------------------------------------------------------
(* What a report is worth, although it reads a moving database.            *)

Items(g) == IF reports[g] = None THEN {} ELSE DOMAIN reports[g].items

\* A projection reported as matched was matched by the whole chain: the row,
\* the ledger and the latest event the report read belong to one version, in
\* spite of what committed between the SELECTs.
MatchedIsConsistent ==
    \A g \in Reporters : \A p \in Items(g) :
        reports[g].items[p].projection = "matched" =>
            reports[g].items[p].ledger = "matched"

\* A ledger read after its payment's row can be ahead of it and never behind:
\* no report shows money in a balance that the ledger does not account for.
LedgerIsNeverBehind ==
    \A g \in Reporters : \A p \in Items(g) :
        LET row == reports[g].listed[p]
            totals == reports[g].items[p].totals
        IN  /\ row.authorized_amount <= totals.authorized
            /\ row.captured_amount <= totals.captured
            /\ row.refunded_amount <= totals.refunded

\* The version of the payment that the cutoff selects among the first n.
VersionThrough(stamps, n, cutoff) == Max({v \in 1..n : stamps[v] <= cutoff})

NetAt(history, v) ==
    history[v].payment.captured_amount - history[v].payment.refunded_amount

\* What a report expects to be settled is the net amount of one published
\* version of the payment, the one the cutoff selects in the history up to
\* some version since the report listed the payment: later movements, delayed
\* confirmations and refunds in full neither leak in nor get lost.
ExpectedAmountIsHistorical ==
    \A g \in Reporters : \A p \in Items(g) :
        LET report == reports[g]
            cutoff == batches[report.batch].cutoff
        IN  \E n \in report.listed[p].version..Len(events[p]) :
               report.items[p].expected =
                 NetAt(events[p], VersionThrough(created_at[p], n, cutoff))

Finished(g) == reports[g] # None /\ reports[g].section # None

RowsShown(g) ==
    LET items == reports[g].items
    IN  SumFunction([p \in DOMAIN items |-> Cardinality(DOMAIN items[p].rows)])

\* Every row of a batch is shown by every report of it: no source row is
\* silently excluded by the payments the report lists.
RowsAreNeverExcluded ==
    \A g \in Reporters :
        Finished(g) => RowsShown(g) = Len(batches[reports[g].batch].rows)

ExpectedIn(g, currency) ==
    LET report == reports[g]
    IN  SumFunctionOnSet([p \in DOMAIN report.items |-> report.items[p].expected],
                         {p \in DOMAIN report.items :
                            report.listed[p].currency = currency})

\* A payment's canonical row is counted, in the currency it names.
ObservedIn(g, currency) ==
    LET items == reports[g].items
        paid == {p \in DOMAIN items :
                   /\ DOMAIN items[p].rows # {}
                   /\ Canonical(items[p].rows).currency = currency}
    IN  SumFunction([p \in paid |-> Canonical(items[p].rows).amount])

\* A report whose payments all match balances in every currency.
MatchedReportBalances ==
    \A g \in Reporters :
        /\ Finished(g)
        /\ \A p \in DOMAIN reports[g].items :
             reports[g].items[p].settlement = "matched"
        => \A currency \in Currencies :
             ExpectedIn(g, currency) = ObservedIn(g, currency)

\* The section counts a delayed payment as confirmed on time exactly when it
\* counts a confirmation as applied, whatever was accepted, completed,
\* refunded or expired between the cutoff and the generation.
SectionAgrees ==
    \A b \in Batches : sections[b] # None =>
        sections[b].dispositions["applied"] =
            sections[b].payment_outcomes["confirmed_on_time"]

\* A saved section never changes, however often reports of its batch are asked
\* for and whatever the payments and confirmations it counted do meanwhile.
SectionsArePermanent ==
    [][\A b \in Batches : sections[b] # None => sections'[b] = sections[b]]_allVars

\* docs/reconciliation.md: comparing the current aggregate with the complete
\* ledger "prevents a refund after the settlement cutoff from creating a false
\* ledger integrity warning". The two are read by different SELECTs.
NoFalseLedgerWarning ==
    \A g \in Reporters : \A p \in Items(g) : reports[g].items[p].ledger = "matched"
=============================================================================
