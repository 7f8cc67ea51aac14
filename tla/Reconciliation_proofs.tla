------------------------ MODULE Reconciliation_proofs ------------------------
(***************************************************************************)
(* What a report is worth although it reads a moving database, for every   *)
(* value of the constants.                                                 *)
(***************************************************************************)
EXTENDS Reconciliation, PaymentLedger_proofs

----------------------------------------------------------------------------
(* The service under the reports.                                          *)

\* Merchants, batches and reports leave the payment service alone.
LEMMA ServiceStep ==
    ASSUME [ReconciliationNext]_allVars
    PROVE  [Next]_vars
BY DEF ReconciliationNext, Serve, Consume, create_settlement_batch, Ask, ReadLedger,
       ReadEvent, ReadInbox, Read, ReadProjection, Generate, Leave, allVars

\* Reports do not disturb the service: it keeps whatever it promises alone.
LEMMA ServiceUndisturbed == ReconciliationSpec => Spec
<1>1. ReconciliationInit => Init
  BY DEF ReconciliationInit
<1>2. [ReconciliationNext]_allVars => [Next]_vars
  BY ServiceStep
<1> QED
  BY <1>1, <1>2, PTL DEF ReconciliationSpec, Spec

----------------------------------------------------------------------------
(* The times in the rows.                                                  *)

\* Every event and every entry has its time.
TimesKnown ==
    /\ created_at \in [PaymentIds -> Seq(Nat)]
    /\ entered_at \in [PaymentIds -> Seq(Nat)]
    /\ \A p \in PaymentIds : /\ Len(created_at[p]) = Len(events[p])
                             /\ Len(entered_at[p]) = Len(ledger[p])

\* No event and no entry of a payment is younger than its last event, although
\* receipts and expiry runs are stamped before they take effect.
LastIsYoungest(p) ==
    LET last == Len(created_at[p])
    IN  /\ \A v \in 1..last : /\ created_at[p][v] <= now
                              /\ created_at[p][v] <= created_at[p][last]
        /\ \A i \in DOMAIN entered_at[p] : entered_at[p][i] <= created_at[p][last]

\* Nothing has happened to an awaiting payment but its opening.
AwaitingIsNew(p) ==
    payments[p].status = "AWAITING_PAYMENT" =>
        payments[p].version = 1 /\ created_at[p][1] <= payments[p].expires_at

\* A receipt is accepted after the payment it names was opened.
ReceivedAfterOpening(c) ==
    LET p == receipts[c].command.payment_reference
    IN  p # None => created_at[p][1] <= receipts[c].received_at

Times ==
    /\ TimesKnown
    /\ \A p \in PaymentIds : LastIsYoungest(p)
    /\ \A p \in DOMAIN payments : AwaitingIsNew(p)
    /\ \A c \in DOMAIN receipts : ReceivedAfterOpening(c)
    /\ \A r \in Requests : requests[r] # None => requests[r].at <= now

\* A payment that a step changes gets an event, and one entry or none, with
\* this time.
StampedWith(p, time) ==
    /\ created_at'[p] = Append(created_at[p], time)
    /\ entered_at'[p] = IF Len(ledger'[p]) > Len(ledger[p])
                        THEN Append(entered_at[p], time) ELSE entered_at[p]

\* The requests of a step that changed: the one that committed.
LEMMA CommittedRequest ==
    ASSUME Core, NEW r \in Requests, NEW p, NEW row, Claims(r), Commit(r, p, row)
    PROVE  r = CHOOSE q \in Requests : requests[q] # requests'[q]
<1>1. requests' = [requests EXCEPT ![r] = None] /\ requests[r] # None
  BY DEF Commit, Done, Claims
<1>2. \A q \in Requests : requests[q] # requests'[q] <=> q = r
  BY <1>1 DEF Core, SessionsOK
<1> QED
  BY <1>2

\* A completion leaves every payment as it is but the awaiting one it names.
LEMMA CompletionTouches ==
    ASSUME Core, NEW w \in Workers, NEW c \in ConfirmationIds, Complete(w, c),
           NEW q \in PaymentIds
    PROVE  \/ SameAt(q)
           \/ /\ q = receipts[c].command.payment_reference
              /\ q \in DOMAIN payments /\ payments[q].status = "AWAITING_PAYMENT"
<1> DEFINE receipt == receipts[c]
           p == receipt.command.payment_reference
           disposition == classify(receipt)
<1>1. ApplyDisposition(receipt, disposition)
  BY DEF Complete
<1>2. CASE disposition = "applied"
  <2>1. p \in DOMAIN payments /\ payments[p].status = "AWAITING_PAYMENT"
    BY <1>2, Classified
  <2>2. p \in PaymentIds /\ ledger \in [PaymentIds -> Seq(LedgerEntry)]
    BY <2>1 DEF Core, TablesOK, IsTable
  <2>3. PICK row, entries : Publish(Row(p, row), "payment.captured") /\ Enter(p, entries)
    BY <1>1, <1>2 DEF ApplyDisposition
  <2>4. q # p => SameAt(q)
    BY <2>2, <2>3, PublishedOne
  <2> QED
    BY <2>1, <2>4
<1>3. CASE /\ disposition = "late"
           /\ payments[p].status = "AWAITING_PAYMENT"
           /\ ~has_protecting_receipt(p)
  <2>1. p \in DOMAIN payments
    BY <1>3, Classified
  <2>2. PICK row : Publish(Row(p, row), "payment.expired") /\ UNCHANGED ledger
    BY <1>1, <1>3 DEF ApplyDisposition
  <2> DEFINE rows == Row(p, row)
  <2>3. DOMAIN rows = {p}
    BY DEF Row
  <2> HIDE DEF rows
  <2>4. q # p => SameAt(q)
    BY <2>2, <2>3, Published DEF SameAt, rows
  <2> QED
    BY <1>3, <2>1, <2>4
<1>4. CASE /\ disposition # "applied"
           /\ ~ /\ disposition = "late"
                /\ payments[p].status = "AWAITING_PAYMENT"
                /\ ~has_protecting_receipt(p)
  BY <1>1, <1>4 DEF ApplyDisposition, SameAt
<1> QED
  BY <1>2, <1>3, <1>4

\* An expiry run leaves every payment as it is but those that are due.
LEMMA ExpiryTouches ==
    ASSUME Core, NEW s \in Sweepers, Expire(s), NEW q \in PaymentIds
    PROVE  \/ SameAt(q)
           \/ /\ q \in DOMAIN payments /\ payments[q].status = "AWAITING_PAYMENT"
              /\ payments[q].expires_at <= sweeps[s]
<1>1. PICK due \in First(Due(sweeps[s]),
                         [p \in Due(sweeps[s]) |-> payments[p].expires_at],
                         ExpiryLimit) :
        /\ \A p \in due : CanExpire(payments[p])
        /\ Publish([p \in due |-> Bumped(expire(payments[p]))], "payment.expired")
  BY DEF Expire
<1> DEFINE rows == [p \in due |-> Bumped(expire(payments[p]))]
<1>2. due \subseteq Due(sweeps[s])
  BY FirstOf
<1>3. /\ Publish(rows, "payment.expired") /\ UNCHANGED ledger
      /\ DOMAIN rows = due
  BY <1>1 DEF Expire
<1> HIDE DEF rows
<1>4. CASE q \in due
  BY <1>2, <1>4 DEF Due
<1>5. CASE q \notin due
  BY <1>3, <1>5, Published DEF SameAt
<1> QED
  BY <1>4, <1>5

\* What Stamp finds is the authorization, receipt or run that made the change.
LEMMA StampIs ==
    ASSUME Core, [Next]_vars, NEW p \in PaymentIds, ~SameAt(p)
    PROVE  \/ /\ p \notin DOMAIN payments
              /\ \E r \in Requests :
                   /\ requests[r] # None /\ Stamp(p) = requests[r].at
                   /\ Delayed(payments'[p]) =>
                        payments'[p].expires_at = Stamp(p) + Window
           \/ p \in DOMAIN payments /\ Stamp(p) = now
           \/ /\ p \in DOMAIN payments /\ payments[p].status = "AWAITING_PAYMENT"
              /\ \E c \in DOMAIN receipts :
                   /\ receipts[c].command.payment_reference = p
                   /\ Stamp(p) = receipts[c].received_at
           \/ /\ p \in DOMAIN payments /\ payments[p].status = "AWAITING_PAYMENT"
              /\ \E s \in Sweepers :
                   /\ sweeps[s] # None /\ Stamp(p) = sweeps[s]
                   /\ payments[p].expires_at <= Stamp(p)
<1>1. CASE Quiet
  BY <1>1 DEF Quiet, SameAt
<1>2. ASSUME NEW r \in Requests, NEW q \in PaymentIds, NEW type \in EventTypes,
             NEW row, NEW entries, ClientChange(r, q, row, type, entries)
      PROVE  \/ /\ p \notin DOMAIN payments
                /\ requests[r] # None /\ Stamp(p) = requests[r].at
                /\ Delayed(payments'[p]) =>
                     payments'[p].expires_at = Stamp(p) + Window
             \/ p \in DOMAIN payments /\ Stamp(p) = now
  <2>1. WrittenAt(p, row, type, entries) /\ p = q
    BY <1>2, PublishedOne DEF ClientChange, Core, TablesOK
  <2>2. CASE p \notin DOMAIN payments
    <3>1. r = CHOOSE x \in Requests : requests[x] # requests'[x]
      BY <1>2, CommittedRequest DEF ClientChange
    <3>2. Stamp(p) = requests[r].at
      BY <2>2, <3>1 DEF Stamp
    <3>3. requests[r] # None
      BY <1>2 DEF ClientChange, Claims
    <3>4. Delayed(payments'[p]) => payments'[p].expires_at = requests[r].at + Window
      BY <1>2, <2>1, <2>2 DEF ClientChange, ClientMove, WrittenAt
    <3> QED
      BY <2>2, <3>2, <3>3, <3>4
  <2>3. CASE p \in DOMAIN payments
    <3>1. UNCHANGED <<confirmations, sweeps>>
      BY <1>2 DEF ClientChange, confirmationVars
    <3> QED
      BY <2>3, <3>1 DEF Stamp
  <2> QED
    BY <2>2, <2>3
<1>3. CASE \E h \in Handlers, c \in ConfirmationIds :
             \E command \in ConfirmationCommand : AcceptNew(h, c, command)
  BY <1>3 DEF AcceptNew, SameAt
<1>4. ASSUME NEW w \in Workers, NEW c \in ConfirmationIds, Complete(w, c)
      PROVE  /\ p \in DOMAIN payments /\ payments[p].status = "AWAITING_PAYMENT"
             /\ c \in DOMAIN receipts
             /\ receipts[c].command.payment_reference = p
             /\ Stamp(p) = receipts[c].received_at
  <2>1. /\ p = receipts[c].command.payment_reference
        /\ p \in DOMAIN payments /\ payments[p].status = "AWAITING_PAYMENT"
    BY <1>4, CompletionTouches
  <2>2. c \in DOMAIN receipts
    BY <1>4 DEF Complete, Next_in_line, Core, DeliveriesOK
  <2>3. c \notin DOMAIN confirmations
        /\ DOMAIN confirmations' = DOMAIN confirmations \cup {c}
    BY <1>4 DEF Complete, Record, Put, Row
  <2>4. confirmations # confirmations'
    BY <2>3
  <2>5. c = CHOOSE d \in DOMAIN confirmations' : d \notin DOMAIN confirmations
    BY <2>3
  <2>6. Stamp(p) = receipts[c].received_at
    BY <2>1, <2>4, <2>5 DEF Stamp
  <2> QED
    BY <2>1, <2>2, <2>6
<1>5. ASSUME NEW s \in Sweepers, Expire(s)
      PROVE  /\ p \in DOMAIN payments /\ payments[p].status = "AWAITING_PAYMENT"
             /\ sweeps[s] # None /\ Stamp(p) = sweeps[s]
             /\ payments[p].expires_at <= Stamp(p)
  <2>1. /\ p \in DOMAIN payments /\ payments[p].status = "AWAITING_PAYMENT"
        /\ payments[p].expires_at <= sweeps[s]
    BY <1>5, ExpiryTouches
  <2>2. /\ sweeps[s] # None /\ sweeps' = [sweeps EXCEPT ![s] = None]
        /\ confirmations = confirmations'
    BY <1>5 DEF Expire
  <2>3. sweeps # sweeps' /\ \A x \in Sweepers : sweeps[x] # sweeps'[x] <=> x = s
    BY <2>2 DEF Core, DeliveriesOK
  <2>4. s = CHOOSE x \in Sweepers : sweeps[x] # sweeps'[x]
    BY <2>3
  <2>5. Stamp(p) = sweeps[s]
    BY <2>1, <2>2, <2>3, <2>4 DEF Stamp
  <2> QED
    BY <2>1, <2>2, <2>5
<1> QED
  BY <1>1, <1>2, <1>3, <1>4, <1>5, StepKinds DEF Kinds

\* A step that changes a payment publishes one event of it, and enters at most
\* one movement.
LEMMA Grown ==
    ASSUME Core, [Next]_vars, NEW p \in PaymentIds, ~SameAt(p)
    PROVE  /\ p \in DOMAIN payments'
           /\ \E e \in Event : events'[p] = Append(events[p], e) /\ e.payment = payments'[p]
           /\ \/ ledger'[p] = ledger[p]
              \/ \E entry \in LedgerEntry : ledger'[p] = Append(ledger[p], entry)
           /\ p \in DOMAIN payments => payments'[p].status # "AWAITING_PAYMENT"
           /\ p \notin DOMAIN payments => payments'[p].version = 1
<1>1. PICK row, type, entries :
        /\ WrittenAt(p, row, type, entries)
        /\ \/ p \notin DOMAIN payments /\ Opening(row, type, entries)
           \/ p \in DOMAIN payments /\ Move(payments[p], row, entries)
  BY Changes DEF OpenedAt, MovedAt
<1>2. ledger[p] \in Seq(LedgerEntry)
  BY DEF Core, TablesOK
<1>3. entries \in Seq(LedgerEntry) /\ row \in Payment
  BY <1>1, OpeningExplained, MoveRow, RowFacts DEF Opening
<1>4. Len(entries) \in {0, 1}
  BY <1>1 DEF Opening, Move
<1>5. \/ ledger'[p] = ledger[p]
      \/ \E entry \in LedgerEntry : ledger'[p] = Append(ledger[p], entry)
  <2>1. CASE entries = <<>>
    BY <1>1, <1>2, <2>1 DEF WrittenAt
  <2>2. CASE entries # <<>>
    <3>1. entries = <<entries[1]>> /\ entries[1] \in LedgerEntry
      BY <1>3, <1>4, <2>2
    <3>2. ledger[p] \o <<entries[1]>> = Append(ledger[p], entries[1])
      BY <1>2, <3>1
    <3> QED
      BY <1>1, <3>1, <3>2 DEF WrittenAt
  <2> QED
    BY <2>1, <2>2
<1>6. p \in DOMAIN payments => payments'[p].status # "AWAITING_PAYMENT"
  <2>1. p \in DOMAIN payments => payments[p] \in Payment
    BY RowFacts
  <2> QED
    BY <1>1, <2>1, MoveStatus DEF WrittenAt
<1>7. \E e \in Event : events'[p] = Append(events[p], e) /\ e.payment = payments'[p]
  <2>1. PICK e \in Event : events'[p] = Append(events[p], e)
    BY Changes, WrittenTypes
  <2>2. events[p] \in Seq(Event)
    BY DEF Core, TablesOK
  <2>3. e = [type |-> type, payment |-> row]
    <3>1. e = Append(events[p], e)[Len(events[p]) + 1]
      BY <2>2
    <3>2. Append(events[p], [type |-> type, payment |-> row])[Len(events[p]) + 1]
            = [type |-> type, payment |-> row]
      BY <2>2
    <3> QED
      BY <1>1, <2>1, <3>1, <3>2 DEF WrittenAt
  <2> QED
    BY <1>1, <2>1, <2>3 DEF WrittenAt
<1> QED
  BY <1>1, <1>5, <1>6, <1>7 DEF WrittenAt, Opening

\* The time of a change is not before anything the payment has been through.
LEMMA StampTimely ==
    ASSUME Core, EvidenceAgrees, Times, [Next]_vars, NEW p \in PaymentIds, ~SameAt(p)
    PROVE  /\ Stamp(p) \in Nat /\ Stamp(p) <= now
           /\ \A v \in 1..Len(created_at[p]) : created_at[p][v] <= Stamp(p)
           /\ p \notin DOMAIN payments /\ Delayed(payments'[p]) =>
                Stamp(p) <= payments'[p].expires_at
<1>0. now \in Nat
  BY DEF Core, DeliveriesOK
<1>1. p \in DOMAIN payments => Len(created_at[p]) = payments[p].version
  BY DEF Times, TimesKnown, Core, TablesOK, RowsArePublished
<1>2. CASE p \notin DOMAIN payments
  <2>1. PICK r \in Requests :
          /\ requests[r] # None /\ Stamp(p) = requests[r].at
          /\ Delayed(payments'[p]) => payments'[p].expires_at = Stamp(p) + Window
    BY <1>2, StampIs
  <2>2. requests[r].at \in Nat /\ requests[r].at <= now
    BY <2>1, InProgress DEF Times, Core
  <2>3. Len(created_at[p]) = 0
    BY <1>2 DEF Times, TimesKnown, Core, TablesOK, RowsArePublished
  <2> QED
    BY <1>2, <2>1, <2>2, <2>3, WindowAssumption
<1>3. CASE p \in DOMAIN payments /\ Stamp(p) = now
  BY <1>0, <1>3 DEF Times, LastIsYoungest
<1>4. ASSUME p \in DOMAIN payments, payments[p].status = "AWAITING_PAYMENT"
      PROVE  /\ Len(created_at[p]) = 1 /\ created_at[p][1] \in Nat
             /\ created_at[p][1] <= payments[p].expires_at
             /\ payments[p].expires_at \in Nat
  <2>1. Len(created_at[p]) = 1 /\ created_at[p][1] <= payments[p].expires_at
    BY <1>1, <1>4 DEF Times, AwaitingIsNew
  <2>2. created_at[p] \in Seq(Nat)
    BY DEF Times, TimesKnown
  <2> QED
    BY <1>4, <2>1, <2>2, RowFacts
<1>5. ASSUME p \in DOMAIN payments, payments[p].status = "AWAITING_PAYMENT",
             NEW c \in DOMAIN receipts, receipts[c].command.payment_reference = p,
             Stamp(p) = receipts[c].received_at
      PROVE  /\ Stamp(p) \in Nat /\ Stamp(p) <= now
             /\ \A v \in 1..Len(created_at[p]) : created_at[p][v] <= Stamp(p)
  <2>1. receipts[c].received_at \in Nat /\ receipts[c].received_at <= now
    BY ReceiptFacts DEF EvidenceAgrees
  <2>2. created_at[p][1] <= receipts[c].received_at
    BY <1>5, NoneAssumption DEF Times, ReceivedAfterOpening
  <2> QED
    BY <1>4, <1>5, <2>1, <2>2
<1>6. ASSUME p \in DOMAIN payments, payments[p].status = "AWAITING_PAYMENT",
             NEW s \in Sweepers, sweeps[s] # None, Stamp(p) = sweeps[s],
             payments[p].expires_at <= Stamp(p)
      PROVE  /\ Stamp(p) \in Nat /\ Stamp(p) <= now
             /\ \A v \in 1..Len(created_at[p]) : created_at[p][v] <= Stamp(p)
  <2>1. sweeps[s] \in Nat /\ sweeps[s] <= now
    BY <1>6 DEF Core, DeliveriesOK, EvidenceAgrees
  <2> QED
    BY <1>4, <1>6, <2>1
<1> QED
  BY <1>2, <1>3, <1>5, <1>6, StampIs

\* A step that changes a payment stamps the change.
LEMMA ChangeIsStamped ==
    ASSUME Core, Times, Serve, NEW p \in PaymentIds
    PROVE  /\ SameAt(p) => created_at'[p] = created_at[p] /\ entered_at'[p] = entered_at[p]
           /\ ~SameAt(p) => StampedWith(p, Stamp(p))
<1>1. /\ created_at'[p] = Stamped(created_at[p], p, events[p], events'[p])
      /\ entered_at'[p] = Stamped(entered_at[p], p, ledger[p], ledger'[p])
  BY DEF Serve
<1>2. events[p] \in Seq(Event) /\ ledger[p] \in Seq(LedgerEntry)
  BY DEF Core, TablesOK
<1>3. CASE SameAt(p)
  BY <1>1, <1>2, <1>3 DEF SameAt, Stamped
<1>4. CASE ~SameAt(p)
  <2>1. PICK e \in Event : events'[p] = Append(events[p], e)
    BY <1>4, Grown DEF Serve
  <2>2. Len(events'[p]) > Len(events[p])
    BY <1>2, <2>1
  <2> QED
    BY <1>1, <1>4, <2>2 DEF Stamped, StampedWith
<1> QED
  BY <1>3, <1>4

\* A request that is new has been asked now, or has no time.
LEMMA Asked ==
    ASSUME Core, [Next]_vars, NEW r \in Requests, requests'[r] # None
    PROVE  requests'[r] = requests[r] \/ requests'[r].at \in {0, now}
<1>1. CASE LifecycleNext
  <2>1. PICK q \in Requests :
          \/ \E command \in Command, key \in Keys :
               /\ Sendable(command)
               /\ \E copy \in SessionCopies(command) :
                    Arrive(q, command, key, copy)
          \/ Perform(q)
          \/ Interrupt(q)
    BY <1>1 DEF LifecycleNext
  <2>2. requests \in [Requests -> Request \cup {None}]
    BY DEF Core, SessionsOK
  <2>3. ASSUME NEW command, NEW key, NEW copy, Arrive(q, command, key, copy)
        PROVE  requests'[r] = requests[r] \/ requests'[r].at \in {0, now}
    <3>1. CASE requests' = [requests EXCEPT ![q] = None]
      BY <2>2, <3>1
    <3>2. CASE requests' = [requests EXCEPT ![q] =
                 [command |-> command, key |-> key, copy |-> copy,
                  at |-> IF command.operation = "AUTHORIZE" THEN now ELSE 0]]
      BY <2>2, <3>2
    <3> QED
      BY <2>3, <3>1, <3>2 DEF Arrive, Done
  <2>4. CASE Perform(q) \/ Interrupt(q)
    <3>1. requests' = [requests EXCEPT ![q] = None]
      BY <2>4 DEF Perform, Interrupt, ReplayConcurrent, Authorize, Capture, Cancel,
                  Refund, Refuse, Apply, Commit, Done
    <3> QED
      BY <2>2, <3>1
  <2> QED
    BY <2>1, <2>3, <2>4
<1>2. CASE UNCHANGED requests
  BY <1>2
<1> QED
  BY <1>1, <1>2 DEF Next, Tick, vars, lifecycleVars

\* Times of changes are kept, so that the first stays the opening's.
LEMMA StampsGrow ==
    ASSUME Core, EvidenceAgrees, Times, Serve, NEW p \in PaymentIds
    PROVE  \A v \in DOMAIN created_at[p] :
             v \in DOMAIN created_at'[p] /\ created_at'[p][v] = created_at[p][v]
<1>1. created_at[p] \in Seq(Nat)
  BY DEF Times, TimesKnown
<1>2. CASE SameAt(p)
  BY <1>2, ChangeIsStamped
<1>3. CASE ~SameAt(p)
  <2>1. Stamp(p) \in Nat /\ created_at'[p] = Append(created_at[p], Stamp(p))
    BY <1>3, ChangeIsStamped, StampTimely DEF Serve, StampedWith
  <2> QED
    BY <1>1, <2>1
<1> QED
  BY <1>2, <1>3

\* Events, entries and their times grow together.
LEMMA TimesAreKnown ==
    ASSUME Core, EvidenceAgrees, Times, Serve
    PROVE  TimesKnown'
<1>1. ASSUME NEW p \in PaymentIds
      PROVE  /\ created_at'[p] \in Seq(Nat) /\ entered_at'[p] \in Seq(Nat)
             /\ Len(created_at'[p]) = Len(events'[p])
             /\ Len(entered_at'[p]) = Len(ledger'[p])
  <2>1. /\ created_at[p] \in Seq(Nat) /\ entered_at[p] \in Seq(Nat)
        /\ Len(created_at[p]) = Len(events[p]) /\ Len(entered_at[p]) = Len(ledger[p])
    BY DEF Times, TimesKnown
  <2>2. CASE SameAt(p)
    BY <2>1, <2>2, ChangeIsStamped DEF SameAt
  <2>3. CASE ~SameAt(p)
    <3>1. Stamp(p) \in Nat /\ StampedWith(p, Stamp(p))
      BY <2>3, ChangeIsStamped, StampTimely DEF Serve
    <3>2. events[p] \in Seq(Event) /\ ledger[p] \in Seq(LedgerEntry)
      BY DEF Core, TablesOK
    <3>3. Len(events'[p]) = Len(events[p]) + 1
      BY <2>3, <3>2, Grown DEF Serve
    <3>4. ledger'[p] = ledger[p] \/ Len(ledger'[p]) = Len(ledger[p]) + 1
      BY <2>3, <3>2, Grown DEF Serve
    <3>5. \A times \in Seq(Nat) :
            /\ Append(times, Stamp(p)) \in Seq(Nat)
            /\ Len(Append(times, Stamp(p))) = Len(times) + 1
      <4> DEFINE t == Stamp(p)
      <4>1. t \in Nat
        BY <3>1
      <4> HIDE DEF t
      <4>2. \A times \in Seq(Nat) : /\ Append(times, t) \in Seq(Nat)
                                    /\ Len(Append(times, t)) = Len(times) + 1
        BY <4>1
      <4> QED
        BY <4>2 DEF t
    <3>6. created_at'[p] \in Seq(Nat) /\ Len(created_at'[p]) = Len(events'[p])
      <4>1. created_at'[p] = Append(created_at[p], Stamp(p))
        BY <3>1 DEF StampedWith
      <4> QED
        BY <2>1, <3>3, <3>5, <4>1
    <3>7. entered_at'[p] \in Seq(Nat) /\ Len(entered_at'[p]) = Len(ledger'[p])
      <4>1. CASE ledger'[p] = ledger[p]
        BY <2>1, <3>1, <4>1 DEF StampedWith
      <4>2. CASE Len(ledger'[p]) = Len(ledger[p]) + 1
        <5>1. Len(ledger[p]) \in Nat
          BY <3>2
        <5>2. entered_at'[p] = Append(entered_at[p], Stamp(p))
          BY <3>1, <4>2, <5>1 DEF StampedWith
        <5> QED
          BY <2>1, <3>5, <4>2, <5>2
      <4> QED
        BY <3>4, <4>1, <4>2
    <3> QED
      BY <3>6, <3>7
  <2> QED
    BY <2>2, <2>3
<1>2. /\ created_at' = [p \in PaymentIds |-> created_at'[p]]
      /\ entered_at' = [p \in PaymentIds |-> entered_at'[p]]
  BY DEF Serve
<1> QED
  BY <1>1, <1>2 DEF TimesKnown

\* A change is stamped no earlier than what the payment has been through.
LEMMA LastStaysYoungest ==
    ASSUME Core, EvidenceAgrees, Times, Serve, NEW p \in PaymentIds
    PROVE  LastIsYoungest(p)'
<1>1. /\ created_at[p] \in Seq(Nat) /\ entered_at[p] \in Seq(Nat)
      /\ created_at'[p] \in Seq(Nat) /\ entered_at'[p] \in Seq(Nat)
  BY TimesAreKnown DEF Times, TimesKnown
<1>2. now \in Nat /\ now' \in Nat /\ now <= now'
  BY TermsStay DEF Serve
<1>3. LastIsYoungest(p)
  BY DEF Times
<1>4. CASE SameAt(p)
  <2>1. created_at'[p] = created_at[p] /\ entered_at'[p] = entered_at[p]
    BY <1>4, ChangeIsStamped
  <2> QED
    BY <1>1, <1>2, <1>3, <2>1 DEF LastIsYoungest
<1>5. CASE ~SameAt(p)
  <2> DEFINE time == Stamp(p)
             last == Len(created_at[p])
  <2>1. /\ time \in Nat /\ time <= now
        /\ \A v \in 1..last : created_at[p][v] <= time
    BY <1>5, StampTimely DEF Serve
  <2>2. StampedWith(p, time)
    BY <1>5, ChangeIsStamped
  <2> HIDE DEF time
  <2>3. /\ Len(created_at'[p]) = last + 1
        /\ \A v \in 1..last : created_at'[p][v] = created_at[p][v]
        /\ created_at'[p][last + 1] = time
    BY <1>1, <2>2 DEF StampedWith
  <2>4. \A v \in 1..(last + 1) : created_at'[p][v] <= time
    <3>1. last \in Nat
      BY <1>1
    <3> HIDE DEF last
    <3>2. \A v \in 1..(last + 1) : v \in 1..last \/ v = last + 1
      BY ONLY <3>1
    <3> QED
      BY <2>1, <2>3, <3>2
  <2>5. \A i \in DOMAIN entered_at[p] : entered_at[p][i] <= time
    <3>1. CASE p \in DOMAIN payments
      <4>1. last \in 1..last
        BY <1>1, <3>1 DEF Times, TimesKnown, Core, TablesOK, RowsArePublished, IsTable, Payment
      <4>2. created_at[p][last] <= time /\ created_at[p][last] \in Nat
        BY <1>1, <2>1, <4>1
      <4>3. \A i \in DOMAIN entered_at[p] : entered_at[p][i] <= created_at[p][last]
        BY <1>3 DEF LastIsYoungest
      <4> QED
        BY <1>1, <2>1, <4>2, <4>3
    <3>2. CASE p \notin DOMAIN payments
      <4>1. Len(entered_at[p]) = 0
        BY <3>2 DEF Times, TimesKnown, Core, TablesOK, RowsArePublished
      <4> QED
        BY <1>1, <4>1
    <3> QED
      BY <3>1, <3>2
  <2>6. \A i \in DOMAIN entered_at'[p] : entered_at'[p][i] <= time
    <3>1. CASE entered_at'[p] = entered_at[p]
      BY <2>5, <3>1
    <3>2. CASE entered_at'[p] = Append(entered_at[p], time)
      BY <1>1, <2>1, <2>5, <3>2
    <3> QED
      BY <2>2, <3>1, <3>2 DEF StampedWith
  <2>7. time <= now'
    BY <1>2, <2>1
  <2> QED
    BY <1>1, <1>2, <2>1, <2>3, <2>4, <2>6, <2>7 DEF LastIsYoungest
<1> QED
  BY <1>4, <1>5

\* A payment is awaiting from its opening on, and never again.
LEMMA AwaitingStaysNew ==
    ASSUME Core, EvidenceAgrees, Times, Serve, NEW p \in DOMAIN payments'
    PROVE  AwaitingIsNew(p)'
<1>1. SUFFICES ASSUME payments'[p].status = "AWAITING_PAYMENT"
               PROVE  /\ payments'[p].version = 1
                      /\ created_at'[p][1] <= payments'[p].expires_at
  BY DEF AwaitingIsNew
<1>2. Core' /\ p \in PaymentIds
  <2>1. Core'
    BY NextCore DEF Serve
  <2> QED
    BY <2>1 DEF Core, TablesOK, IsTable
<1>3. CASE SameAt(p)
  <2>1. payments'[p] = payments[p] /\ p \in DOMAIN payments
        /\ created_at'[p] = created_at[p]
    BY <1>2, <1>3, ChangeIsStamped DEF SameAt
  <2> QED
    BY <1>1, <2>1 DEF Times, AwaitingIsNew
<1>4. CASE ~SameAt(p)
  <2>1. p \notin DOMAIN payments /\ payments'[p].version = 1
    BY <1>1, <1>2, <1>4, Grown DEF Serve
  <2>2. Delayed(payments'[p])
    BY <1>1, <1>2 DEF Core, TablesOK, BalancesFitStatus, MoneyFitsStatus
  <2>3. Stamp(p) <= payments'[p].expires_at
    BY <1>2, <1>4, <2>1, <2>2, StampTimely DEF Serve
  <2>4. created_at'[p] = Append(created_at[p], Stamp(p))
    BY <1>2, <1>4, ChangeIsStamped DEF StampedWith
  <2>5. created_at[p] = <<>>
    BY <1>2, <2>1 DEF Times, TimesKnown, Core, TablesOK, RowsArePublished
  <2> QED
    BY <2>1, <2>3, <2>4, <2>5
<1> QED
  BY <1>3, <1>4

\* Whoever names a payment in a receipt has been told of it.
LEMMA ReceiptsStayAfterOpening ==
    ASSUME Core, EvidenceAgrees, Times, Serve, NEW c \in DOMAIN receipts'
    PROVE  ReceivedAfterOpening(c)'
<1>1. [Next]_vars
  BY DEF Serve
<1> DEFINE p == receipts'[c].command.payment_reference
<1>2. SUFFICES ASSUME p # None
               PROVE  created_at'[p][1] <= receipts'[c].received_at
  BY DEF ReceivedAfterOpening
<1> HIDE DEF p
<1>3. ASSUME p \in DOMAIN payments
      PROVE  created_at'[p][1] = created_at[p][1] /\ created_at[p][1] <= now
  <2>1. p \in PaymentIds /\ Len(created_at[p]) = payments[p].version
        /\ payments[p] \in Payment
    BY <1>3 DEF Times, TimesKnown, Core, TablesOK, RowsArePublished, IsTable
  <2>2. 1 \in 1..Len(created_at[p])
    BY <2>1 DEF Payment
  <2>3. DOMAIN created_at[p] = 1..Len(created_at[p])
    BY <2>1 DEF Times, TimesKnown
  <2> QED
    BY <2>1, <2>2, <2>3, StampsGrow DEF Times, LastIsYoungest
<1>4. CASE EvidenceAccepted(c)
  <2>1. PICK command \in ConfirmationCommand :
          /\ command.payment_reference \in KnownReferences \cup {None}
          /\ receipts'[c] = receipt_at(command, now)
    BY <1>4 DEF EvidenceAccepted
  <2>2. p = command.payment_reference /\ receipts'[c].received_at = now
    BY <2>1 DEF p, receipt_at
  <2>3. p \in DOMAIN payments
    BY <1>2, <2>1, <2>2 DEF KnownReferences
  <2> QED
    BY <1>3, <2>2, <2>3
<1>5. CASE EvidenceKept(c) \/ EvidenceCompleted(c)
  <2>1. c \in DOMAIN receipts
    BY <1>5 DEF EvidenceKept, EvidenceCompleted
  <2>2. /\ p = receipts[c].command.payment_reference
        /\ receipts'[c].received_at = receipts[c].received_at
    BY <1>1, <2>1, ReceiptStays DEF p
  <2>3. p \in DOMAIN payments
    BY <1>2, <2>1, <2>2 DEF EvidenceAgrees, KnownReferences
  <2> QED
    BY <1>2, <1>3, <2>1, <2>2, <2>3 DEF Times, ReceivedAfterOpening
<1> QED
  BY <1>1, <1>4, <1>5, EvidenceSteps

\* The times stay in order.
LEMMA TimesStep ==
    ASSUME Core, EvidenceAgrees, Times, [ReconciliationNext]_allVars
    PROVE  Times'
<1>1. CASE Serve
  <2>1. \A r \in Requests : requests'[r] # None => requests'[r].at <= now'
    <3>1. ASSUME NEW r \in Requests, requests'[r] # None
          PROVE  requests'[r].at <= now'
      <4>1. now \in Nat /\ now' \in Nat /\ now <= now'
        BY <1>1, TermsStay DEF Serve
      <4>2. CASE requests'[r].at \in {0, now}
        BY <4>1, <4>2
      <4>3. CASE requests'[r] = requests[r]
        <5>1. requests[r].at \in Nat /\ requests[r].at <= now
          BY <3>1, <4>3, InProgress DEF Times, Core
        <5> QED
          BY <4>1, <4>3, <5>1
      <4> QED
        BY <1>1, <3>1, <4>2, <4>3, Asked DEF Serve
    <3> QED
      BY <3>1
  <2>2. TimesKnown' /\ \A p \in PaymentIds : LastIsYoungest(p)'
    BY <1>1, TimesAreKnown, LastStaysYoungest
  <2>3. \A p \in DOMAIN payments' : AwaitingIsNew(p)'
    BY <1>1, AwaitingStaysNew
  <2>4. \A c \in DOMAIN receipts' : ReceivedAfterOpening(c)'
    BY <1>1, ReceiptsStayAfterOpening
  <2> QED
    BY <2>1, <2>2, <2>3, <2>4 DEF Times
<1>2. CASE UNCHANGED <<vars, stampVars>>
  BY <1>2 DEF vars, storeVars, lifecycleVars, stampVars, Times, TimesKnown,
              LastIsYoungest, AwaitingIsNew, ReceivedAfterOpening
<1> QED
  BY <1>1, <1>2 DEF ReconciliationNext, Consume, create_settlement_batch, Ask,
       ReadLedger, ReadEvent, ReadInbox, Read, ReadProjection, Generate, Leave, allVars

----------------------------------------------------------------------------
(* The ledger at a time in the past.                                       *)

\* Entries that are all of the times count all.
LEMMA TotalOfAll ==
    ASSUME NEW entries, NEW stamps, NEW operations, NEW times,
           \A i \in DOMAIN entries : stamps[i] \in times
    PROVE  TotalAt(entries, stamps, operations, times) = Total(entries, operations)
<1>1. {i \in DOMAIN entries : /\ entries[i].operation \in operations
                              /\ stamps[i] \in times}
        = {i \in DOMAIN entries : entries[i].operation \in operations}
  OBVIOUS
<1> QED
  BY <1>1 DEF TotalAt, Total

\* An entry of another time does not count.
LEMMA TotalWithoutLater ==
    ASSUME NEW entries \in Seq(LedgerEntry), NEW stamps \in Seq(Nat),
           Len(stamps) = Len(entries), NEW entry \in LedgerEntry, NEW time \in Nat,
           NEW operations, NEW times, time \notin times
    PROVE  TotalAt(Append(entries, entry), Append(stamps, time), operations, times)
             = TotalAt(entries, stamps, operations, times)
<1> DEFINE more == Append(entries, entry)
           later == Append(stamps, time)
           S == {i \in DOMAIN entries : /\ entries[i].operation \in operations
                                        /\ stamps[i] \in times}
           T == {i \in DOMAIN more : /\ more[i].operation \in operations
                                     /\ later[i] \in times}
<1>1. /\ DOMAIN more = DOMAIN entries \cup {Len(entries) + 1}
      /\ \A i \in DOMAIN entries : more[i] = entries[i] /\ later[i] = stamps[i]
      /\ later[Len(entries) + 1] = time
  OBVIOUS
<1>2. T = S
  BY <1>1
<1>3. S \subseteq DOMAIN entries
  OBVIOUS
<1>4. \A i \in S : AmountsIn(entries)[i] = AmountsIn(more)[i]
  BY <1>1, <1>3 DEF AmountsIn
<1>5. IsFiniteSet(S)
  BY <1>3, AmountsAreNumbers
<1>6. /\ TotalAt(entries, stamps, operations, times) =
           SumFunctionOnSet(AmountsIn(entries), S)
      /\ TotalAt(more, later, operations, times) = SumFunctionOnSet(AmountsIn(more), T)
  BY DEF TotalAt
<1> HIDE DEF S, T, more, later
<1> QED
  BY <1>2, <1>4, <1>5, <1>6, SumDepends DEF more, later

\* A set of numbers that is bounded has a greatest one.
LEMMA Greatest ==
    ASSUME NEW n \in Nat, NEW S, S \subseteq 1..n, S # {}
    PROVE  Max(S) \in S /\ \A v \in S : v <= Max(S)
<1> DEFINE T == {n - v : v \in S}
<1>1. T \subseteq Nat /\ T # {}
  OBVIOUS
<1>2. PICK d \in T : \A e \in T : d <= e
  BY <1>1, Least
<1>3. PICK v \in S : d = n - v
  BY <1>2
<1>4. \A w \in S : v >= w
  BY <1>2, <1>3
<1> QED
  BY <1>3, <1>4 DEF Max

\* The version that a cutoff selects is one of those it selects from.
LEMMA SomeVersion ==
    ASSUME NEW stamps, NEW n \in Nat \ {0}, NEW cutoff, stamps[1] <= cutoff
    PROVE  /\ VersionThrough(stamps, n, cutoff) \in 1..n
           /\ stamps[n] <= cutoff => VersionThrough(stamps, n, cutoff) = n
<1> DEFINE S == {v \in 1..n : stamps[v] <= cutoff}
<1>1. S \subseteq 1..n /\ 1 \in S
  OBVIOUS
<1>2. stamps[n] <= cutoff => n \in S
  OBVIOUS
<1>3. VersionThrough(stamps, n, cutoff) = Max(S)
  BY DEF VersionThrough
<1> HIDE DEF S
<1>4. Max(S) \in S /\ \A v \in S : v <= Max(S)
  BY <1>1, Greatest
<1>5. n \in S => Max(S) = n
  <2> DEFINE m == Max(S)
  <2>1. m \in 1..n /\ (n \in S => n <= m)
    BY <1>1, <1>4
  <2> HIDE DEF m
  <2>2. n \in S => m = n
    BY <2>1
  <2> QED
    BY <2>2 DEF m
<1> QED
  BY <1>1, <1>2, <1>3, <1>4, <1>5

\* It does not depend on versions after the cutoff, nor on those not asked for.
LEMMA SameVersion ==
    ASSUME NEW n \in Nat, NEW m \in Nat, n <= m, NEW cutoff, NEW stamps, NEW later,
           \A v \in 1..n : later[v] = stamps[v],
           \A v \in (n + 1)..m : ~(later[v] <= cutoff)
    PROVE  VersionThrough(later, m, cutoff) = VersionThrough(stamps, n, cutoff)
<1>1. {v \in 1..m : later[v] <= cutoff} = {v \in 1..n : stamps[v] <= cutoff}
  <2>1. \A v \in 1..m : v \in 1..n \/ v \in (n + 1)..m
    OBVIOUS
  <2>2. 1..n \subseteq 1..m
    OBVIOUS
  <2> QED
    BY <2>1, <2>2
<1> QED
  BY <1>1 DEF VersionThrough

\* What the entries of some times add up to is what the row had that was the
\* current one then.
AgreesAt(entries, entered, history, created, time) ==
    created[1] <= time =>
        LET row == history[VersionThrough(created, Len(created), time)].payment
            total(operations) == TotalAt(entries, entered, operations, 0..time)
        IN  /\ row.captured_amount = total({"CAPTURE", "CONFIRMATION_CAPTURE"})
            /\ row.refunded_amount = total({"REFUND"})
            /\ row.refunded_amount <= row.captured_amount

\* Money that is returned has been taken.
LEMMA RefundedIsCaptured ==
    ASSUME NEW row \in Payment, MoneyFitsStatus(row)
    PROVE  row.refunded_amount <= row.captured_amount
<1>1. row.amount \in Nat /\ row.status \in Statuses
  BY AmountsAssumption DEF Payment
<1>2. \/ row.captured_amount = row.amount /\ row.refunded_amount \in {0, row.amount}
      \/ row.captured_amount = row.amount /\ row.refunded_amount < row.amount
      \/ row.captured_amount = 0 /\ row.refunded_amount = 0
  BY <1>1 DEF MoneyFitsStatus, Balances, Statuses
<1>3. row.refunded_amount \in Nat
  BY DEF Payment
<1> QED
  BY <1>1, <1>2, <1>3

\* From the last change on, the current row and the whole ledger count.
LEMMA AgreesAtEnd ==
    ASSUME NEW entries, NEW entered \in Seq(Nat), Len(entered) = Len(entries),
           NEW history, NEW created, Len(created) \in Nat \ {0}, NEW time \in Nat,
           created[Len(created)] <= time,
           \A i \in DOMAIN entered : entered[i] <= time,
           entries \in Seq(LedgerEntry),
           NEW row \in Payment, row = history[Len(created)].payment,
           MoneyFitsStatus(row), Explains(entries, row)
    PROVE  AgreesAt(entries, entered, history, created, time)
<1>1. created[1] <= time => VersionThrough(created, Len(created), time) = Len(created)
  BY SomeVersion
<1>2. \A i \in DOMAIN entries : entered[i] \in 0..time
  OBVIOUS
<1>3. \A operations :
        TotalAt(entries, entered, operations, 0..time) = Total(entries, operations)
  BY <1>2, TotalOfAll
<1> QED
  BY <1>1, <1>3, RefundedIsCaptured DEF AgreesAt, Explains, Balances

\* A later change is not in it.
LEMMA AgreesBefore ==
    ASSUME NEW entries \in Seq(LedgerEntry), NEW entered \in Seq(Nat),
           Len(entered) = Len(entries),
           NEW history \in Seq(Event), NEW created \in Seq(Nat),
           Len(created) = Len(history),
           NEW time \in Nat,
           created = <<>> \/ AgreesAt(entries, entered, history, created, time),
           NEW stamp \in Nat, time < stamp, NEW e
    PROVE  /\ AgreesAt(entries, entered, Append(history, e),
                       Append(created, stamp), time)
           /\ \A entry \in LedgerEntry :
                AgreesAt(Append(entries, entry), Append(entered, stamp),
                         Append(history, e), Append(created, stamp), time)
<1> DEFINE n == Len(created)
           later == Append(created, stamp)
           more == Append(history, e)
<1>1. /\ n \in Nat /\ Len(later) = n + 1 /\ later[n + 1] = stamp
      /\ \A v \in 1..n : later[v] = created[v] /\ more[v] = history[v]
  OBVIOUS
<1>2. CASE created = <<>>
  <2>1. ~(later[1] <= time)
    BY <1>1, <1>2
  <2> HIDE DEF later, more
  <2> QED
    BY <2>1 DEF AgreesAt, later, more
<1>3. CASE created # <<>>
  <2>1. n \in Nat \ {0} /\ later[1] = created[1]
    BY <1>1, <1>3
  <2> HIDE DEF later, n
  <2>2. VersionThrough(later, n + 1, time) = VersionThrough(created, n, time)
    <3>1. \A v \in (n + 1)..(n + 1) : ~(later[v] <= time)
      BY <1>1
    <3> QED
      BY <1>1, <3>1, SameVersion
  <2>3. created[1] <= time => VersionThrough(created, n, time) \in 1..n
    BY <2>1, SomeVersion
  <2>4. created[1] <= time =>
          more[VersionThrough(created, n, time)]
            = history[VersionThrough(created, n, time)]
    BY <1>1, <2>3
  <2>5. \A entry \in LedgerEntry : \A operations :
          TotalAt(Append(entries, entry), Append(entered, stamp), operations, 0..time)
            = TotalAt(entries, entered, operations, 0..time)
    <3>1. stamp \notin 0..time
      OBVIOUS
    <3> QED
      BY <3>1, TotalWithoutLater
  <2> HIDE DEF more
  <2>6. /\ AgreesAt(entries, entered, more, later, time)
        /\ \A entry \in LedgerEntry :
             AgreesAt(Append(entries, entry), Append(entered, stamp), more, later, time)
    BY <1>1, <2>1, <2>2, <2>4, <2>5 DEF AgreesAt, n
  <2> QED
    BY <2>6 DEF more, later
<1> QED
  BY <1>2, <1>3

\* At every time, every payment agrees with its ledger.
History ==
    \A p \in DOMAIN payments : \A time \in Nat :
        AgreesAt(ledger[p], entered_at[p], events[p], created_at[p], time)

\* The facts that a step of the service preserves.
Books == Core /\ EvidenceAgrees /\ LedgerExplainsBalances /\ Times

\* A payment's last event is its row, with its time.
LastIsTheRow ==
    \A p \in DOMAIN payments :
        /\ p \in PaymentIds
        /\ payments[p] \in Payment /\ MoneyFitsStatus(payments[p])
        /\ Explains(ledger[p], payments[p])
        /\ payments[p].version = Len(events[p])
        /\ payments[p] = events[p][Len(events[p])].payment
        /\ created_at[p] \in Seq(Nat) /\ Len(created_at[p]) = Len(events[p])
        /\ entered_at[p] \in Seq(Nat) /\ Len(entered_at[p]) = Len(ledger[p])
        /\ ledger[p] \in Seq(LedgerEntry) /\ events[p] \in Seq(Event)
        /\ Len(events[p]) \in Nat \ {0}
        /\ now \in Nat

\* What the books say of a payment, in one place.
LEMMA BooksShowRows == Books => LastIsTheRow
<1> SUFFICES ASSUME Books, NEW p \in DOMAIN payments
             PROVE  LastIsTheRow!(p)
  BY DEF LastIsTheRow
<1>1. /\ p \in PaymentIds
      /\ payments[p] \in Payment /\ MoneyFitsStatus(payments[p])
  BY RowFacts DEF Books
<1>2. /\ Explains(ledger[p], payments[p])
      /\ payments[p].version = Len(events[p])
      /\ payments[p] = events[p][Len(events[p])].payment
  BY <1>1 DEF Books, LedgerExplainsBalances, Explains, Core, TablesOK, RowsArePublished
<1>3. /\ created_at[p] \in Seq(Nat) /\ Len(created_at[p]) = Len(events[p])
      /\ entered_at[p] \in Seq(Nat) /\ Len(entered_at[p]) = Len(ledger[p])
      /\ ledger[p] \in Seq(LedgerEntry) /\ events[p] \in Seq(Event)
      /\ now \in Nat
  BY <1>1 DEF Books, Times, TimesKnown, Core, TablesOK, DeliveriesOK
<1>4. Len(events[p]) \in Nat \ {0}
  BY <1>1, <1>2 DEF Payment
<1> QED
  BY <1>1, <1>2, <1>3, <1>4

\* The same, after a step.
LEMMA BooksShowRowsNext == Books' => LastIsTheRow'
BY BooksShowRows, PTL

\* A change leaves what was before it in agreement, and ends in agreement.
LEMMA HistoryStep ==
    ASSUME Books, Books', History, [ReconciliationNext]_allVars
    PROVE  History'
<1>1. ASSUME Serve, NEW p \in DOMAIN payments', NEW time \in Nat
      PROVE  AgreesAt(ledger'[p], entered_at'[p], events'[p], created_at'[p], time)
  <2>1. p \in PaymentIds
    BY DEF Books, Core, TablesOK, IsTable
  <2>2. CASE SameAt(p)
    <3>1. created_at'[p] = created_at[p] /\ entered_at'[p] = entered_at[p]
      BY <1>1, <2>1, <2>2, ChangeIsStamped DEF Books
    <3> QED
      BY <2>2, <3>1 DEF SameAt, History
  <2>3. CASE ~SameAt(p)
    <3> DEFINE stamp == Stamp(p)
    <3>1. /\ stamp \in Nat /\ StampedWith(p, stamp)
      BY <1>1, <2>1, <2>3, ChangeIsStamped, StampTimely DEF Books, Serve
    <3> HIDE DEF stamp
    <3>2. /\ created_at[p] \in Seq(Nat) /\ Len(created_at[p]) = Len(events[p])
          /\ entered_at[p] \in Seq(Nat) /\ Len(entered_at[p]) = Len(ledger[p])
          /\ ledger[p] \in Seq(LedgerEntry) /\ events[p] \in Seq(Event)
      BY <2>1 DEF Books, Times, TimesKnown, Core, TablesOK
    <3>3. PICK e \in Event : events'[p] = Append(events[p], e)
      BY <1>1, <2>1, <2>3, Grown DEF Books, Serve
    <3>4. \/ ledger'[p] = ledger[p]
          \/ \E entry \in LedgerEntry : ledger'[p] = Append(ledger[p], entry)
      BY <1>1, <2>1, <2>3, Grown DEF Books, Serve
    <3>5. created_at'[p] = Append(created_at[p], stamp)
      BY <3>1 DEF StampedWith
    <3>6. CASE time < stamp
      <4>1. created_at[p] = <<>> \/
            AgreesAt(ledger[p], entered_at[p], events[p], created_at[p], time)
        <5>1. p \notin DOMAIN payments => created_at[p] = <<>>
          BY <2>1, <3>2 DEF Books, Core, TablesOK, RowsArePublished
        <5> QED
          BY <5>1 DEF History
      <4>2. CASE ledger'[p] = ledger[p]
        <5>1. entered_at'[p] = entered_at[p]
          BY <3>1, <3>2, <4>2 DEF StampedWith
        <5> QED
          BY <3>1, <3>2, <3>3, <3>5, <3>6, <4>1, <4>2, <5>1, AgreesBefore
      <4>3. ASSUME NEW entry \in LedgerEntry, ledger'[p] = Append(ledger[p], entry)
            PROVE  AgreesAt(ledger'[p], entered_at'[p], events'[p], created_at'[p], time)
        <5>1. entered_at'[p] = Append(entered_at[p], stamp)
          BY <3>1, <3>2, <4>3 DEF StampedWith
        <5> QED
          BY <3>1, <3>2, <3>3, <3>5, <3>6, <4>1, <4>3, <5>1, AgreesBefore
      <4> QED
        BY <3>4, <4>2, <4>3
    <3>7. CASE ~(time < stamp)
      <4> DEFINE last == Len(created_at'[p])
                 row == payments'[p]
      <4>1. /\ row \in Payment /\ MoneyFitsStatus(row) /\ Explains(ledger'[p], row)
            /\ row = events'[p][Len(events'[p])].payment
            /\ created_at'[p] \in Seq(Nat) /\ last = Len(events'[p])
            /\ entered_at'[p] \in Seq(Nat) /\ Len(entered_at'[p]) = Len(ledger'[p])
            /\ ledger'[p] \in Seq(LedgerEntry)
            /\ last \in Nat \ {0}
        BY BooksShowRowsNext DEF LastIsTheRow
      <4>2. created_at'[p][last] = stamp /\ stamp <= time
        BY <3>1, <3>2, <3>5, <3>7
      <4>3. \A i \in DOMAIN entered_at'[p] : entered_at'[p][i] <= stamp
        BY <2>1, <4>2 DEF Books, Times, LastIsYoungest
      <4>4. \A i \in DOMAIN entered_at'[p] : entered_at'[p][i] <= time
        BY <3>1, <4>1, <4>2, <4>3
      <4> HIDE DEF last, row
      <4>5. created_at'[p][last] <= time /\ row = events'[p][last].payment
        BY <4>1, <4>2
      <4> QED
        BY <4>1, <4>4, <4>5, AgreesAtEnd DEF last
    <3> QED
      BY <3>6, <3>7
  <2> QED
    BY <2>2, <2>3
<1>2. CASE UNCHANGED <<vars, stampVars>>
  BY <1>2 DEF vars, storeVars, stampVars, History
<1> QED
  BY <1>1, <1>2 DEF History, ReconciliationNext, Consume, create_settlement_batch, Ask,
       ReadLedger, ReadEvent, ReadInbox, Read, ReadProjection, Generate, Leave, allVars

\* What the service keeps, it keeps with the reports around it.
LEMMA BooksInvariant == ReconciliationSpec => [](Books /\ History)
<1>1. ReconciliationInit => Times /\ History
  <2> SUFFICES ASSUME ReconciliationInit PROVE Times /\ History
    OBVIOUS
  <2>1. /\ created_at = [p \in PaymentIds |-> <<>>]
        /\ entered_at = [p \in PaymentIds |-> <<>>]
        /\ events = [p \in PaymentIds |-> <<>>]
        /\ ledger = [p \in PaymentIds |-> <<>>]
        /\ DOMAIN payments = {} /\ DOMAIN receipts = {}
        /\ requests = [r \in Requests |-> None]
    BY DEF ReconciliationInit, Init, StoreInit, LifecycleInit
  <2> QED
    BY <2>1 DEF Times, TimesKnown, LastIsYoungest, History
<1>2. Core /\ EvidenceAgrees /\ Times /\ [ReconciliationNext]_allVars => Times'
  BY TimesStep
<1>3. Books /\ Books' /\ History /\ [ReconciliationNext]_allVars => History'
  BY HistoryStep
<1> QED
  BY <1>1, <1>2, <1>3, ServiceUndisturbed, CoreInvariant, EvidenceAlwaysAgrees,
     LedgerAlwaysExplains, PTL DEF ReconciliationSpec, Books

----------------------------------------------------------------------------
(* The tables that reports read only grow.                                 *)

LaterAt(p) ==
    /\ p \in DOMAIN payments => p \in DOMAIN payments'
    /\ Len(events[p]) \in Nat /\ Len(events'[p]) \in Nat
    /\ Len(events[p]) <= Len(events'[p])
    /\ \A v \in 1..Len(events[p]) : /\ events'[p][v] = events[p][v]
                                    /\ created_at'[p][v] = created_at[p][v]
    /\ \A operations : /\ Total(ledger[p], operations) \in Nat
                       /\ Total(ledger'[p], operations) \in Nat
                       /\ Total(ledger[p], operations) <= Total(ledger'[p], operations)

Later ==
    /\ \A p \in PaymentIds : LaterAt(p)
    /\ \A b \in Batches : batches[b] # None => batches'[b] = batches[b]

\* A total is a number.
LEMMA TotalIsNumber ==
    ASSUME NEW entries \in Seq(LedgerEntry), NEW operations
    PROVE  Total(entries, operations) \in Nat
BY TotalIsSum, SumIsNumber

\* Payments, events, totals and batches only grow.
LEMMA TimePasses ==
    ASSUME Books, Books', [ReconciliationNext]_allVars,
           batches = [b \in Batches |-> batches[b]]
    PROVE  Later
<1>1. \A b \in Batches : batches[b] # None => batches'[b] = batches[b]
  BY DEF ReconciliationNext, Serve, Consume, create_settlement_batch, Ask, ReadLedger,
         ReadEvent, ReadInbox, Read, ReadProjection, Generate, Leave, reportVars, allVars
<1>2. ASSUME NEW p \in PaymentIds PROVE LaterAt(p)
  <2>1. /\ events[p] \in Seq(Event) /\ ledger[p] \in Seq(LedgerEntry)
        /\ events'[p] \in Seq(Event) /\ ledger'[p] \in Seq(LedgerEntry)
        /\ created_at[p] \in Seq(Nat) /\ Len(created_at[p]) = Len(events[p])
    BY DEF Books, Core, TablesOK, Times, TimesKnown
  <2>2. \A operations : /\ Total(ledger[p], operations) \in Nat
                        /\ Total(ledger'[p], operations) \in Nat
    BY <2>1, TotalIsNumber
  <2>3. CASE SameAt(p) /\ created_at'[p] = created_at[p]
    BY <2>1, <2>2, <2>3 DEF SameAt, LaterAt
  <2>4. CASE Serve /\ ~SameAt(p)
    <3>1. p \in DOMAIN payments'
      BY <2>4, Grown DEF Books, Serve
    <3>2. PICK e \in Event : events'[p] = Append(events[p], e)
      BY <2>4, Grown DEF Books, Serve
    <3>3. \A v \in 1..Len(events[p]) : created_at'[p][v] = created_at[p][v]
      BY <2>1, <2>4, StampsGrow DEF Books
    <3>4. /\ Len(events[p]) \in Nat /\ Len(events'[p]) = Len(events[p]) + 1
          /\ \A v \in 1..Len(events[p]) : events'[p][v] = events[p][v]
      BY <2>1, <3>2
    <3>5. ASSUME NEW operations
          PROVE  Total(ledger[p], operations) <= Total(ledger'[p], operations)
      <4>1. CASE ledger'[p] = ledger[p]
        BY <2>2, <4>1
      <4>2. ASSUME NEW entry \in LedgerEntry, ledger'[p] = Append(ledger[p], entry)
            PROVE  Total(ledger[p], operations) <= Total(ledger'[p], operations)
        <5>1. ledger'[p] = ledger[p] \o <<entry>>
          BY <2>1, <4>2
        <5>2. entry.amount \in Nat
          BY DEF LedgerEntry
        <5>3. Total(ledger'[p], operations) =
                Total(ledger[p], operations)
                + IF entry.operation \in operations THEN entry.amount ELSE 0
          BY <2>1, <5>1, TotalGrows
        <5> QED
          BY <2>2, <5>2, <5>3
      <4> QED
        BY <2>4, <4>1, <4>2, Grown DEF Books, Serve
    <3> QED
      BY <2>2, <3>1, <3>3, <3>4, <3>5 DEF LaterAt
  <2>5. \/ SameAt(p) /\ created_at'[p] = created_at[p]
        \/ Serve /\ ~SameAt(p)
    <3>1. Serve /\ SameAt(p) => created_at'[p] = created_at[p]
      BY ChangeIsStamped DEF Books
    <3>2. UNCHANGED <<vars, stampVars>> => SameAt(p) /\ created_at'[p] = created_at[p]
      BY DEF vars, storeVars, stampVars, SameAt
    <3> QED
      BY <3>1, <3>2 DEF ReconciliationNext, Consume, create_settlement_batch, Ask,
         ReadLedger, ReadEvent, ReadInbox, Read, ReadProjection, Generate, Leave, allVars
  <2> QED
    BY <2>3, <2>4, <2>5
<1> QED
  BY <1>1, <1>2 DEF Later

----------------------------------------------------------------------------
(* What a report in progress has read.                                     *)

\* Totals that account for all the money in a row.
Covers(totals, row) ==
    /\ row.authorized_amount <= totals.authorized
    /\ row.captured_amount <= totals.captured
    /\ row.refunded_amount <= totals.refunded

TotalsNow(p) ==
    [authorized |-> Total(ledger[p], {"AUTHORIZATION", "CONFIRMATION_CAPTURE"}),
     captured |-> Total(ledger[p], {"CAPTURE", "CONFIRMATION_CAPTURE"}),
     refunded |-> Total(ledger[p], {"REFUND"})]

\* A row of a payment of the batch: a published one, that the ledger covers.
Listed(row, p, cutoff) ==
    /\ p \in PaymentIds /\ Through(p, cutoff)
    /\ row \in Payment
    /\ row.version \in 1..Len(events[p])
    /\ events[p][row.version].payment = row
    /\ Covers(TotalsNow(p), row)

\* The net amount of the payment at the cutoff, as of some version since.
Historical(expected, row, p, cutoff) ==
    \E n \in row.version..Len(events[p]) :
        expected = NetAt(events[p], VersionThrough(created_at[p], n, cutoff))

\* What was read of a payment after its row. If no version is known to have
\* followed the row, then the totals are exactly the row's.
ReadSince(reading, row, cutoff) ==
    LET p == reading.payment_id
        totals == reading.totals
        latest == IF reading.latest = None THEN Len(events[p]) ELSE reading.latest
    IN  /\ reading = [payment_id |-> p, totals |-> totals,
                      expected |-> reading.expected, latest |-> reading.latest,
                      processed |-> reading.processed]
        /\ reading.latest = None \/ reading.latest \in Nat
        /\ reading.processed # None => reading.latest # None
        /\ Covers(totals, row)
        /\ latest <= row.version =>
             Balances(row, totals.authorized, totals.captured, totals.refunded)
        /\ reading.expected \in Nat
        /\ Historical(reading.expected, row, p, cutoff)

\* A completed item.
IsItem(item, row, p, batch) ==
    /\ Covers(item.totals, row)
    /\ item.projection = "matched" => item.ledger = "matched"
    /\ item.expected \in Nat
    /\ Historical(item.expected, row, p, batch.cutoff)
    /\ item.rows = RowsOf(batch, p)
    /\ item.settlement = classify_settlement(item.expected, row.currency, item.rows)

IsReportOf(R, batch) ==
    /\ R = [batch |-> R.batch, items |-> R.items, reading |-> R.reading,
            section |-> R.section, listed |-> R.listed]
    /\ IsFiniteSet(DOMAIN R.items) /\ DOMAIN R.items \subseteq DOMAIN R.listed
    /\ \A p \in DOMAIN R.listed : Listed(R.listed[p], p, batch.cutoff)
    /\ \A line \in DOMAIN batch.rows : batch.rows[line].payment_id \in DOMAIN R.listed
    /\ R.reading # None =>
         /\ R.reading.payment_id \in DOMAIN R.listed
         /\ ReadSince(R.reading, R.listed[R.reading.payment_id], batch.cutoff)
    /\ \A p \in DOMAIN R.items : IsItem(R.items[p], R.listed[p], p, batch)
    /\ R.section # None => DOMAIN R.items = DOMAIN R.listed

IsReport(R) ==
    \E batch : /\ R.batch \in Batches
               /\ batch = batches[R.batch] /\ batch # None
               /\ IsReportOf(R, batch)

BatchRow == [payment_id: PaymentIds, amount: Amounts, currency: Currencies]

IsBatch(batch) ==
    /\ batch.cutoff \in Nat
    /\ batch.rows \in Seq(BatchRow)
    /\ Importable(batch.rows, batch.cutoff)

Imported == {batches[b] : b \in Batches} \ {None}

Active == {reports[g] : g \in Reporters} \ {None}

Reports ==
    /\ batches = [b \in Batches |-> batches[b]]
    /\ sections = [b \in Batches |-> sections[b]]
    /\ reports = [g \in Reporters |-> reports[g]]
    /\ \A batch \in Imported : IsBatch(batch)
    /\ \A R \in Active : IsReport(R)

----------------------------------------------------------------------------
(* Time passes under a report.                                             *)

\* A payment stays in a batch's cutoff.
LEMMA ThroughStays ==
    ASSUME Books, Later, NEW p \in PaymentIds, NEW cutoff, Through(p, cutoff)
    PROVE  Through(p, cutoff)' /\ created_at[p][1] <= cutoff
<1>1. p \in DOMAIN payments /\ created_at[p][1] <= cutoff
  BY DEF Through
<1>2. 1 \in 1..Len(events[p])
  BY <1>1, BooksShowRows DEF LastIsTheRow
<1> QED
  BY <1>1, <1>2 DEF Later, LaterAt, Through

\* A row that a report listed stays published, and covered by the ledger.
LEMMA ListedStays ==
    ASSUME Books, Later, NEW row, NEW p, NEW cutoff, Listed(row, p, cutoff)
    PROVE  Listed(row, p, cutoff)'
<1>1. /\ p \in PaymentIds /\ LaterAt(p) /\ row \in Payment
      /\ row.version \in 1..Len(events[p]) /\ events[p][row.version].payment = row
      /\ Covers(TotalsNow(p), row)
  BY DEF Listed, Later
<1>2. Through(p, cutoff)'
  BY <1>1, ThroughStays DEF Listed
<1>3. row.version \in 1..Len(events'[p]) /\ events'[p][row.version].payment = row
  BY <1>1 DEF LaterAt
<1>4. row.authorized_amount \in Nat /\ row.captured_amount \in Nat
      /\ row.refunded_amount \in Nat
  BY <1>1, AmountsAssumption DEF Payment
<1>5. ASSUME NEW operations, NEW n \in Nat, n <= Total(ledger[p], operations)
      PROVE  n <= Total(ledger'[p], operations)
  <2>1. /\ Total(ledger[p], operations) \in Nat
        /\ Total(ledger'[p], operations) \in Nat
        /\ Total(ledger[p], operations) <= Total(ledger'[p], operations)
    BY <1>1 DEF LaterAt
  <2> QED
    BY <1>5, <2>1
<1>6. Covers(TotalsNow(p)', row)
  BY <1>1, <1>4, <1>5 DEF Covers, TotalsNow
<1> QED
  BY <1>1, <1>2, <1>3, <1>6 DEF Listed, Covers, TotalsNow

\* An amount that was of the cutoff in some history since stays so.
LEMMA HistoricalStays ==
    ASSUME Books, Later, NEW row, NEW p, NEW cutoff, Listed(row, p, cutoff),
           NEW expected, Historical(expected, row, p, cutoff)
    PROVE  Historical(expected, row, p, cutoff)'
<1>1. PICK n \in row.version..Len(events[p]) :
        expected = NetAt(events[p], VersionThrough(created_at[p], n, cutoff))
  BY DEF Historical
<1>2. /\ p \in PaymentIds /\ LaterAt(p) /\ row.version \in 1..Len(events[p])
      /\ created_at[p][1] <= cutoff
  BY ThroughStays DEF Listed, Later
<1>3. n \in Nat \ {0} /\ n \in row.version..Len(events'[p]) /\ 1..n \subseteq 1..Len(events[p])
  BY <1>1, <1>2 DEF LaterAt
<1>4. VersionThrough(created_at'[p], n, cutoff) = VersionThrough(created_at[p], n, cutoff)
  <2>1. \A v \in 1..n : created_at'[p][v] = created_at[p][v]
    BY <1>2, <1>3 DEF LaterAt
  <2>2. \A v \in (n + 1)..n : ~(created_at'[p][v] <= cutoff)
    BY <1>3
  <2> DEFINE stamps == created_at[p]
             later == created_at'[p]
  <2>3. n \in Nat /\ n <= n
    BY <1>3
  <2> HIDE DEF stamps, later
  <2>4. VersionThrough(later, n, cutoff) = VersionThrough(stamps, n, cutoff)
    <3>1. /\ \A v \in 1..n : later[v] = stamps[v]
          /\ \A v \in (n + 1)..n : ~(later[v] <= cutoff)
      BY <2>1, <2>2 DEF stamps, later
    <3> QED
      BY <2>3, <3>1, SameVersion
  <2> QED
    BY <2>4 DEF stamps, later
<1>5. VersionThrough(created_at[p], n, cutoff) \in 1..n
  BY <1>2, <1>3, SomeVersion
<1>6. events'[p][VersionThrough(created_at[p], n, cutoff)]
        = events[p][VersionThrough(created_at[p], n, cutoff)]
  BY <1>2, <1>3, <1>5 DEF LaterAt
<1>7. expected = NetAt(events'[p], VersionThrough(created_at'[p], n, cutoff))
  BY <1>1, <1>4, <1>6 DEF NetAt
<1> QED
  BY <1>3, <1>7 DEF Historical

\* What a report has read of a payment stays true of it.
LEMMA ReadStays ==
    ASSUME Books, Later, NEW reading, NEW row, NEW cutoff,
           Listed(row, reading.payment_id, cutoff), ReadSince(reading, row, cutoff)
    PROVE  ReadSince(reading, row, cutoff)'
<1> DEFINE p == reading.payment_id
           totals == reading.totals
<1>1. LaterAt(p) /\ row.version \in Nat
  BY DEF Listed, Later, Payment
<1>2. Historical(reading.expected, row, p, cutoff)'
  <2> DEFINE expected == reading.expected
  <2>1. Listed(row, p, cutoff) /\ Historical(expected, row, p, cutoff)
    BY DEF ReadSince
  <2> HIDE DEF p, expected
  <2>2. Historical(expected, row, p, cutoff)'
    BY <2>1, HistoricalStays
  <2> QED
    BY <2>2 DEF p, expected
<1>3. /\ reading = [payment_id |-> p, totals |-> totals,
                    expected |-> reading.expected, latest |-> reading.latest,
                    processed |-> reading.processed]
      /\ reading.latest = None \/ reading.latest \in Nat
      /\ reading.processed # None => reading.latest # None
      /\ Covers(totals, row)
      /\ (IF reading.latest = None THEN Len(events[p]) ELSE reading.latest)
           <= row.version
           => Balances(row, totals.authorized, totals.captured, totals.refunded)
      /\ reading.expected \in Nat
  BY DEF ReadSince
<1>4. (IF reading.latest = None THEN Len(events'[p]) ELSE reading.latest)
        <= row.version
        => Balances(row, totals.authorized, totals.captured, totals.refunded)
  <2>1. CASE reading.latest = None
    BY <1>1, <1>3, <2>1 DEF LaterAt
  <2>2. CASE reading.latest # None
    BY <1>3, <2>2
  <2> QED
    BY <2>1, <2>2
<1> HIDE DEF p, totals
<1>5. /\ Covers(totals, row)'
      /\ Balances(row, totals.authorized, totals.captured, totals.refunded)'
           <=> Balances(row, totals.authorized, totals.captured, totals.refunded)
  BY <1>3 DEF Covers, Balances, totals
<1> QED
  BY <1>2, <1>3, <1>4, <1>5 DEF ReadSince, p, totals

\* A completed item stays what it is.
LEMMA ItemStays ==
    ASSUME Books, Later, NEW item, NEW row, NEW p, NEW batch,
           Listed(row, p, batch.cutoff), IsItem(item, row, p, batch)
    PROVE  IsItem(item, row, p, batch)'
<1> DEFINE expected == item.expected
           cutoff == batch.cutoff
<1>1. Listed(row, p, cutoff) /\ Historical(expected, row, p, cutoff)
  BY DEF IsItem
<1> HIDE DEF expected, cutoff
<1>2. Historical(expected, row, p, cutoff)'
  BY <1>1, HistoricalStays
<1> QED
  BY <1>2 DEF IsItem, expected, cutoff, Covers, RowsOf, classify_settlement, Canonical

\* So does a report that does not move.
LEMMA ReportStays ==
    ASSUME Books, Later, NEW R, IsReport(R)
    PROVE  IsReport(R)'
<1>1. batches'[R.batch] = batches[R.batch]
  BY DEF IsReport, Later
<1>2. ASSUME NEW batch, IsReportOf(R, batch)
      PROVE  IsReportOf(R, batch)'
  <2>1. ASSUME NEW p \in DOMAIN R.listed
        PROVE  /\ Listed(R.listed[p], p, batch.cutoff)
               /\ Listed(R.listed[p], p, batch.cutoff)'
    <3> DEFINE row == R.listed[p]
               cutoff == batch.cutoff
    <3>1. Listed(row, p, cutoff)
      BY <1>2 DEF IsReportOf
    <3> HIDE DEF row, cutoff
    <3> QED
      BY <3>1, ListedStays DEF row, cutoff
  <2>2. ASSUME NEW p \in DOMAIN R.items
        PROVE  IsItem(R.items[p], R.listed[p], p, batch)'
    <3> DEFINE item == R.items[p]
               row == R.listed[p]
    <3>1. Listed(row, p, batch.cutoff) /\ IsItem(item, row, p, batch)
      BY <1>2, <2>1 DEF IsReportOf
    <3> HIDE DEF item, row
    <3> QED
      BY <3>1, ItemStays DEF item, row
  <2>3. ASSUME R.reading # None
        PROVE  ReadSince(R.reading, R.listed[R.reading.payment_id], batch.cutoff)'
    <3> DEFINE reading == R.reading
               row == R.listed[reading.payment_id]
               cutoff == batch.cutoff
    <3>1. /\ Listed(row, reading.payment_id, cutoff)
          /\ ReadSince(reading, row, cutoff)
      BY <1>2, <2>1, <2>3 DEF IsReportOf
    <3> HIDE DEF reading, row, cutoff
    <3>2. ReadSince(reading, row, cutoff)'
      BY <3>1, ReadStays
    <3> QED
      BY <3>2 DEF reading, row, cutoff
  <2> QED
    BY <1>2, <2>1, <2>2, <2>3 DEF IsReportOf
<1>3. PICK batch : /\ R.batch \in Batches
                   /\ batch = batches[R.batch] /\ batch # None
                   /\ IsReportOf(R, batch)
  BY DEF IsReport
<1>4. IsReportOf(R, batch)' /\ batch = batches'[R.batch]
  BY <1>1, <1>2, <1>3
<1> QED
  BY <1>3, <1>4 DEF IsReport

----------------------------------------------------------------------------
(* What a report reads.                                                    *)

\* A current row is one to list: the ledger says what it says.
LEMMA CurrentRowIsListed ==
    ASSUME Books, NEW p \in DOMAIN payments, NEW cutoff, Through(p, cutoff)
    PROVE  Listed(payments[p], p, cutoff)
<1> DEFINE row == payments[p]
<1>1. /\ p \in PaymentIds /\ row \in Payment /\ Explains(ledger[p], row)
      /\ row.version = Len(events[p]) /\ row = events[p][Len(events[p])].payment
      /\ Len(events[p]) \in Nat \ {0}
  BY BooksShowRows DEF LastIsTheRow
<1>2. row.authorized_amount \in Nat /\ row.captured_amount \in Nat
      /\ row.refunded_amount \in Nat
  BY <1>1, AmountsAssumption DEF Payment
<1> HIDE DEF row
<1>3. Covers(TotalsNow(p), row)
  BY <1>1, <1>2 DEF Explains, Balances, Covers, TotalsNow
<1> QED
  BY <1>1, <1>3 DEF Listed, row

\* A report starts with the rows as they are.
LEMMA AskedIsReport ==
    ASSUME Books, NEW b \in Batches, NEW batch, batch = batches[b], batch # None,
           IsBatch(batch), NEW R,
           R = [batch |-> b, items |-> NoItems, reading |-> None, section |-> None,
                listed |-> [p \in {p \in PaymentIds : Through(p, batch.cutoff)} |->
                              payments[p]]]
    PROVE  IsReport(R)
<1>1. /\ R.batch = b /\ R.reading = None /\ R.section = None /\ DOMAIN R.items = {}
      /\ DOMAIN R.listed = {p \in PaymentIds : Through(p, batch.cutoff)}
      /\ \A p \in DOMAIN R.listed : R.listed[p] = payments[p]
      /\ R = [batch |-> R.batch, items |-> R.items, reading |-> R.reading,
              section |-> R.section, listed |-> R.listed]
  BY DEF NoItems
<1>2. \A p \in DOMAIN R.listed : Listed(R.listed[p], p, batch.cutoff)
  BY <1>1, CurrentRowIsListed DEF Through
<1>3. \A line \in DOMAIN batch.rows : batch.rows[line].payment_id \in DOMAIN R.listed
  <2>1. \A line \in DOMAIN batch.rows : batch.rows[line] \in BatchRow
    BY DEF IsBatch
  <2> QED
    BY <1>1, <2>1 DEF IsBatch, Importable, BatchRow
<1>4. IsFiniteSet(DOMAIN R.items)
  BY <1>1, FS_EmptySet
<1>5. IsReportOf(R, batch)
  BY <1>1, <1>2, <1>3, <1>4 DEF IsReportOf
<1> QED
  BY <1>1, <1>5 DEF IsReport

\* The entries of a payment, all or through a time.
LEMMA TotalsRead ==
    ASSUME Books, NEW p \in PaymentIds
    PROVE  calculate_ledger_totals(p, Nat) = TotalsNow(p)
<1>1. \A i \in DOMAIN ledger[p] : entered_at[p][i] \in Nat
  BY DEF Books, Times, TimesKnown, Core, TablesOK
<1> QED
  BY <1>1, TotalOfAll DEF calculate_ledger_totals, TotalsNow

\* The cutoff selects a row of the history, and the entries through it add up
\* to what that row has been captured for and refunded.
LEMMA ExpectedIsHistorical ==
    ASSUME Books, History, NEW p \in PaymentIds, NEW cutoff \in Nat, Through(p, cutoff)
    PROVE  /\ expected_amount(p, cutoff) \in Nat
           /\ expected_amount(p, cutoff) =
                NetAt(events[p], VersionThrough(created_at[p], Len(events[p]), cutoff))
<1> DEFINE v == VersionThrough(created_at[p], Len(events[p]), cutoff)
           totals == calculate_ledger_totals(p, 0..cutoff)
           row == events[p][v].payment
<1>1. /\ p \in DOMAIN payments /\ created_at[p][1] <= cutoff
      /\ Len(created_at[p]) = Len(events[p])
      /\ events[p] \in Seq(Event) /\ Len(events[p]) \in Nat \ {0}
  BY BooksShowRows DEF LastIsTheRow, Through
<1>2. v \in 1..Len(events[p])
  BY <1>1, SomeVersion
<1>3. AgreesAt(ledger[p], entered_at[p], events[p], created_at[p], cutoff)
  BY <1>1 DEF History
<1>4. /\ row.captured_amount = totals.captured
      /\ row.refunded_amount = totals.refunded
      /\ row.refunded_amount <= row.captured_amount
  BY <1>1, <1>3 DEF AgreesAt, calculate_ledger_totals
<1>5. row.captured_amount \in Nat /\ row.refunded_amount \in Nat
  <2> HIDE DEF v
  <2>1. events[p][v] \in Event
    BY <1>1, <1>2
  <2> QED
    BY <2>1, AmountsAssumption DEF Event, Payment
<1>6. expected_amount(p, cutoff) = IF totals.captured > totals.refunded
                                   THEN totals.captured - totals.refunded ELSE 0
  BY DEF expected_amount
<1>7. NetAt(events[p], v) = row.captured_amount - row.refunded_amount
  BY DEF NetAt
<1> HIDE DEF v, totals, row
<1>8. expected_amount(p, cutoff) \in Nat /\ expected_amount(p, cutoff) = NetAt(events[p], v)
  BY <1>4, <1>5, <1>6, <1>7
<1> QED
  BY <1>8 DEF v

\* The ledger, read after the row. It covers the row, and if the row is the
\* last version, then it says exactly what the row says.
LEMMA LedgerIsReadSince ==
    ASSUME Books, History, NEW row, NEW p, NEW cutoff \in Nat, Listed(row, p, cutoff),
           NEW reading,
           reading = [payment_id |-> p, totals |-> calculate_ledger_totals(p, Nat),
                      expected |-> expected_amount(p, cutoff),
                      latest |-> None, processed |-> None]
    PROVE  ReadSince(reading, row, cutoff)
<1>1. /\ p \in PaymentIds /\ Through(p, cutoff) /\ p \in DOMAIN payments
      /\ row.version \in 1..Len(events[p]) /\ events[p][row.version].payment = row
  BY DEF Listed, Through
<1>2. /\ reading.payment_id = p /\ reading.totals = TotalsNow(p)
      /\ reading.expected = expected_amount(p, cutoff)
      /\ reading.latest = None /\ reading.processed = None
  BY <1>1, TotalsRead
<1>3. /\ Explains(ledger[p], payments[p])
      /\ payments[p] = events[p][Len(events[p])].payment
      /\ Len(events[p]) \in Nat \ {0}
  BY <1>1, BooksShowRows DEF LastIsTheRow
<1>4. Len(events[p]) <= row.version =>
        Balances(row, TotalsNow(p).authorized, TotalsNow(p).captured,
                 TotalsNow(p).refunded)
  <2>1. SUFFICES ASSUME Len(events[p]) <= row.version
                 PROVE  Balances(row, TotalsNow(p).authorized, TotalsNow(p).captured,
                                 TotalsNow(p).refunded)
    OBVIOUS
  <2>2. row = payments[p]
    BY <1>1, <1>3, <2>1
  <2> QED
    BY <1>3, <2>2 DEF Explains, TotalsNow, Balances
<1>5. Historical(expected_amount(p, cutoff), row, p, cutoff)
  <2>1. Len(events[p]) \in row.version..Len(events[p])
    BY <1>1, <1>3
  <2> QED
    BY <1>1, <2>1, ExpectedIsHistorical DEF Historical
<1>6. expected_amount(p, cutoff) \in Nat
  BY <1>1, ExpectedIsHistorical
<1>7. reading = [payment_id |-> reading.payment_id, totals |-> reading.totals,
                 expected |-> reading.expected, latest |-> reading.latest,
                 processed |-> reading.processed]
  OBVIOUS
<1> QED
  BY <1>2, <1>4, <1>5, <1>6, <1>7 DEF ReadSince, Listed

\* The latest event, read after the ledger.
LEMMA EventIsReadSince ==
    ASSUME NEW reading, NEW row, NEW cutoff, ReadSince(reading, row, cutoff),
           reading.latest = None, events[reading.payment_id] \in Seq(Event), NEW more,
           more = [reading EXCEPT !.latest = Len(events[reading.payment_id])]
    PROVE  ReadSince(more, row, cutoff) /\ more.payment_id = reading.payment_id
<1>1. reading = [payment_id |-> reading.payment_id, totals |-> reading.totals,
                 expected |-> reading.expected, latest |-> reading.latest,
                 processed |-> reading.processed]
  BY DEF ReadSince
<1>2. Len(events[reading.payment_id]) \in Nat
  OBVIOUS
<1>3. more = [payment_id |-> reading.payment_id, totals |-> reading.totals,
              expected |-> reading.expected,
              latest |-> Len(events[reading.payment_id]),
              processed |-> reading.processed]
  BY <1>1
<1>4. /\ more.payment_id = reading.payment_id /\ more.totals = reading.totals
      /\ more.expected = reading.expected /\ more.processed = reading.processed
      /\ more.latest = Len(events[reading.payment_id])
  BY <1>3
<1> QED
  BY <1>2, <1>3, <1>4, NoneAssumption DEF ReadSince

\* The answer of the inbox adds nothing to what is known of the row.
LEMMA InboxIsReadSince ==
    ASSUME NEW reading, NEW row, NEW cutoff, ReadSince(reading, row, cutoff),
           reading.latest # None, NEW answer, NEW more, more = [reading EXCEPT !.processed = answer]
    PROVE  ReadSince(more, row, cutoff) /\ more.payment_id = reading.payment_id
<1>1. reading = [payment_id |-> reading.payment_id, totals |-> reading.totals,
                 expected |-> reading.expected, latest |-> reading.latest,
                 processed |-> reading.processed]
  BY DEF ReadSince
<1>2. more = [payment_id |-> reading.payment_id, totals |-> reading.totals,
              expected |-> reading.expected, latest |-> reading.latest,
              processed |-> answer]
  BY <1>1
<1>3. /\ more.payment_id = reading.payment_id /\ more.totals = reading.totals
      /\ more.expected = reading.expected /\ more.processed = answer
      /\ more.latest = reading.latest
  BY <1>2
<1> QED
  BY <1>2, <1>3 DEF ReadSince

\* The projection, read last: it is found to match only a row that no version
\* had followed when the ledger was read.
LEMMA ProjectionMakesItem ==
    ASSUME NEW reading, NEW row \in Payment, NEW batch,
           ReadSince(reading, row, batch.cutoff), reading.latest # None,
           NEW shown, NEW item,
           item = [expected |-> reading.expected, totals |-> reading.totals,
                   settlement |-> classify_settlement(reading.expected, row.currency,
                                          RowsOf(batch, reading.payment_id)),
                   rows |-> RowsOf(batch, reading.payment_id),
                   ledger |-> ledger_status(row, reading.totals),
                   projection |-> projection_status(row, shown, reading.latest,
                                                    reading.processed)]
    PROVE  IsItem(item, row, reading.payment_id, batch)
<1>1. /\ item.expected = reading.expected /\ item.totals = reading.totals
      /\ item.rows = RowsOf(batch, reading.payment_id)
      /\ item.ledger = ledger_status(row, reading.totals)
      /\ item.projection = projection_status(row, shown, reading.latest,
                                             reading.processed)
      /\ item.settlement = classify_settlement(item.expected, row.currency, item.rows)
  OBVIOUS
<1>2. reading.latest \in Nat /\ row.version \in Nat
  BY DEF ReadSince, Payment
<1>3. ASSUME item.projection = "matched"
      PROVE  item.ledger = "matched"
  <2>1. shown = row /\ ~(shown.version < reading.latest)
    BY <1>1, <1>3 DEF projection_status
  <2>2. Balances(row, reading.totals.authorized, reading.totals.captured,
                 reading.totals.refunded)
    BY <1>2, <2>1 DEF ReadSince
  <2> QED
    BY <1>1, <2>2 DEF ledger_status
<1> QED
  BY <1>1, <1>3 DEF ReadSince, IsItem

\* A report that reads on is a report.
LEMMA ReportReads ==
    ASSUME NEW R, NEW batch, IsReportOf(R, batch), NEW reading, reading.payment_id \in DOMAIN R.listed,
           ReadSince(reading, R.listed[reading.payment_id], batch.cutoff),
           NEW S, S = [R EXCEPT !.reading = reading]
    PROVE  IsReportOf(S, batch) /\ S.batch = R.batch
<1>0. R = [batch |-> R.batch, items |-> R.items, reading |-> R.reading,
           section |-> R.section, listed |-> R.listed]
  BY DEF IsReportOf
<1>1. S = [batch |-> R.batch, items |-> R.items, reading |-> reading,
           section |-> R.section, listed |-> R.listed]
  BY <1>0
<1>2. /\ S.batch = R.batch /\ S.listed = R.listed /\ S.reading = reading
      /\ S.items = R.items /\ S.section = R.section
  BY <1>1
<1> QED
  BY <1>1, <1>2 DEF IsReportOf

\* A report that completes an item is a report.
LEMMA ReportCompletes ==
    ASSUME NEW R, NEW batch, IsReportOf(R, batch), NEW p \in DOMAIN R.listed, NEW item,
           IsItem(item, R.listed[p], p, batch),
           NEW S, S = [R EXCEPT !.reading = None, !.items = Put(@, Row(p, item))]
    PROVE  IsReportOf(S, batch) /\ S.batch = R.batch
<1> DEFINE items == Put(R.items, Row(p, item))
<1>0. R = [batch |-> R.batch, items |-> R.items, reading |-> R.reading,
           section |-> R.section, listed |-> R.listed]
  BY DEF IsReportOf
<1>1. S = [batch |-> R.batch, items |-> items, reading |-> None,
           section |-> R.section, listed |-> R.listed]
  BY <1>0
<1>2. /\ DOMAIN items = DOMAIN R.items \cup {p} /\ items[p] = item
      /\ \A q \in DOMAIN R.items : q # p => items[q] = R.items[q]
  BY DEF Put, Row
<1> HIDE DEF items
<1>3. /\ S.batch = R.batch /\ S.listed = R.listed /\ S.reading = None
      /\ S.items = items /\ S.section = R.section
  BY ONLY <1>1
<1>4. IsFiniteSet(DOMAIN items)
  BY <1>2, FS_AddElement DEF IsReportOf
<1>5. \A q \in DOMAIN items : IsItem(items[q], R.listed[q], q, batch)
  BY <1>2 DEF IsReportOf
<1>6. /\ DOMAIN items \subseteq DOMAIN R.listed
      /\ R.section # None => DOMAIN items = DOMAIN R.listed
  BY <1>2 DEF IsReportOf
<1> QED
  BY <1>1, <1>3, <1>4, <1>5, <1>6 DEF IsReportOf

\* A report that gets its section, with all items complete, is a report.
LEMMA ReportEnds ==
    ASSUME NEW R, NEW batch, IsReportOf(R, batch), DOMAIN R.listed \ DOMAIN R.items = {},
           NEW section, NEW S, S = [R EXCEPT !.section = section]
    PROVE  IsReportOf(S, batch) /\ S.batch = R.batch
<1>0. R = [batch |-> R.batch, items |-> R.items, reading |-> R.reading,
           section |-> R.section, listed |-> R.listed]
  BY DEF IsReportOf
<1>1. S = [batch |-> R.batch, items |-> R.items, reading |-> R.reading,
           section |-> section, listed |-> R.listed]
  BY <1>0
<1>2. /\ S.batch = R.batch /\ S.listed = R.listed /\ S.reading = R.reading
      /\ S.items = R.items /\ S.section = section
  BY <1>1
<1> QED
  BY <1>1, <1>2 DEF IsReportOf

----------------------------------------------------------------------------
(* Every step keeps every report.                                          *)

\* A report in progress belongs to a batch that was imported.
LEMMA ActiveReports ==
    ASSUME Reports, NEW g \in Reporters, reports[g] # None
    PROVE  \E batch : /\ reports[g].batch \in Batches
                      /\ batch = batches[reports[g].batch] /\ batch # None
                      /\ IsReportOf(reports[g], batch) /\ IsBatch(batch)
BY DEF Reports, Active, Imported, IsReport

\* A report of a batch that was imported is a report.
LEMMA BatchedReport ==
    ASSUME NEW R, NEW batch, IsReportOf(R, batch), R.batch \in Batches,
           batch = batches[R.batch], batch # None
    PROVE  IsReport(R)
BY DEF IsReport

\* A step that reads makes a report.
LEMMA ReadMakesReport ==
    ASSUME Reports, NEW g \in Reporters, reports[g] # None, NEW reading,
           reading.payment_id \in DOMAIN reports[g].listed,
           ReadSince(reading, reports[g].listed[reading.payment_id],
                     batches[reports[g].batch].cutoff)
    PROVE  IsReport([reports[g] EXCEPT !.reading = reading])
<1> DEFINE R == reports[g]
           S == [R EXCEPT !.reading = reading]
<1>1. PICK batch : /\ R.batch \in Batches
                   /\ batch = batches[R.batch] /\ batch # None
                   /\ IsReportOf(R, batch)
  BY ActiveReports
<1>2. ReadSince(reading, R.listed[reading.payment_id], batch.cutoff)
  BY <1>1
<1>3. IsReportOf(S, batch) /\ S.batch = R.batch
  BY <1>1, <1>2, ReportReads
<1> HIDE DEF R, S
<1>4. IsReport(S)
  BY <1>1, <1>3, BatchedReport
<1> QED
  BY <1>4 DEF R, S

\* So does the SELECT of the ledger.
LEMMA LedgerMakesReport ==
    ASSUME Books, History, Reports, NEW g \in Reporters, NEW p, ReadLedger(g, p)
    PROVE  IsReport(reports'[g])
<1> DEFINE R == reports[g]
           cutoff == batches[R.batch].cutoff
           reading == [payment_id |-> p, totals |-> calculate_ledger_totals(p, Nat),
                       expected |-> expected_amount(p, cutoff),
                       latest |-> None, processed |-> None]
<1>1. /\ R # None /\ p \in DOMAIN R.listed
      /\ reports' = [reports EXCEPT ![g].reading = reading]
  BY DEF ReadLedger, Read, Unread
<1>2. reports'[g] = [R EXCEPT !.reading = reading]
  BY <1>1 DEF Reports
<1>3. Listed(R.listed[p], p, cutoff) /\ cutoff \in Nat
  BY <1>1, ActiveReports DEF IsReportOf, IsBatch
<1>4. ReadSince(reading, R.listed[p], cutoff)
  BY <1>3, LedgerIsReadSince
<1>5. reading.payment_id = p
  OBVIOUS
<1> HIDE DEF reading
<1> QED
  BY <1>1, <1>2, <1>4, <1>5, ReadMakesReport

\* So do the SELECTs of the latest event and of the inbox.
LEMMA EventMakesReport ==
    ASSUME Books, Reports, NEW g \in Reporters, ReadEvent(g) \/ ReadInbox(g)
    PROVE  IsReport(reports'[g])
<1> DEFINE R == reports[g]
           reading == R.reading
           p == reading.payment_id
           row == R.listed[p]
           cutoff == batches[R.batch].cutoff
           looked == [reading EXCEPT !.latest = Len(events[p])]
           found == [reading EXCEPT !.processed = reading.latest \in inbox[p]]
<1>1. R # None /\ reading # None
  BY DEF ReadEvent, ReadInbox, Reading
<1>2. /\ p \in DOMAIN R.listed /\ ReadSince(reading, row, cutoff)
      /\ Listed(row, p, cutoff)
  BY <1>1, ActiveReports DEF IsReportOf
<1>3. CASE ReadEvent(g)
  <2>1. reports'[g] = [R EXCEPT !.reading = looked] /\ reading.latest = None
    BY <1>3 DEF ReadEvent, Read, Reports
  <2>2. events[p] \in Seq(Event)
    BY <1>2 DEF Listed, Books, Core, TablesOK
  <2>3. ReadSince(looked, row, cutoff) /\ looked.payment_id = p
    <3> HIDE DEF reading, row, cutoff
    <3> QED
      BY <1>2, <2>1, <2>2, EventIsReadSince
  <2> HIDE DEF looked
  <2> QED
    BY <1>1, <1>2, <2>1, <2>3, ReadMakesReport
<1>4. CASE ReadInbox(g)
  <2>1. reports'[g] = [R EXCEPT !.reading = found] /\ reading.latest # None
    BY <1>4 DEF ReadInbox, Read, Reports
  <2>3. ReadSince(found, row, cutoff) /\ found.payment_id = p
    <3> HIDE DEF reading, row, cutoff
    <3> QED
      BY <1>2, <2>1, InboxIsReadSince
  <2> HIDE DEF found
  <2> QED
    BY <1>1, <1>2, <2>1, <2>3, ReadMakesReport
<1> QED
  BY <1>3, <1>4

\* So does the SELECT of the projection.
LEMMA ProjectionMakesReport ==
    ASSUME Reports, NEW g \in Reporters, ReadProjection(g)
    PROVE  IsReport(reports'[g])
<1> DEFINE R == reports[g]
           reading == R.reading
           p == reading.payment_id
           row == R.listed[p]
           rows == RowsOf(batches[R.batch], p)
           item == [expected |-> reading.expected, totals |-> reading.totals,
                    settlement |-> classify_settlement(reading.expected,
                                                       row.currency, rows),
                    rows |-> rows,
                    ledger |-> ledger_status(row, reading.totals),
                    projection |-> projection_status(row, Shown(p), reading.latest,
                                                     reading.processed)]
           S == [R EXCEPT !.reading = None, !.items = Put(@, Row(p, item))]
<1>1. /\ R # None /\ reading # None /\ reading.processed # None
      /\ reports' = [reports EXCEPT ![g].reading = None,
                                    ![g].items = Put(@, Row(p, item))]
  BY DEF ReadProjection, Reading
<1>2. reports'[g] = S
  BY <1>1 DEF Reports
<1>3. PICK batch : /\ R.batch \in Batches
                   /\ batch = batches[R.batch] /\ batch # None
                   /\ IsReportOf(R, batch)
  BY <1>1, ActiveReports
<1>4. /\ p \in DOMAIN R.listed /\ ReadSince(reading, row, batch.cutoff)
      /\ row \in Payment /\ R = [batch |-> R.batch, items |-> R.items,
                                 reading |-> R.reading, section |-> R.section,
                                 listed |-> R.listed]
  BY <1>1, <1>3 DEF IsReportOf, Listed
<1>5. reading.latest # None
  BY <1>1, <1>4 DEF ReadSince
<1>6. IsItem(item, row, p, batch)
  BY <1>3, <1>4, <1>5, ProjectionMakesItem
<1> HIDE DEF item
<1>7. IsReportOf(S, batch) /\ S.batch = R.batch
  BY <1>3, <1>4, <1>6, ReportCompletes
<1> HIDE DEF S, R
<1>8. IsReport(S)
  BY <1>3, <1>7, BatchedReport
<1> QED
  BY <1>2, <1>8

\* So does the section.
LEMMA GenerateMakesReport ==
    ASSUME Reports, NEW g \in Reporters, Generate(g)
    PROVE  IsReport(reports'[g])
<1> DEFINE R == reports[g]
           section == Saved(R.batch)
           S == [R EXCEPT !.section = section]
<1>1. /\ R # None /\ DOMAIN R.listed \ DOMAIN R.items = {}
      /\ reports' = [reports EXCEPT ![g].section = section]
  BY DEF Generate, Unread
<1>2. reports'[g] = S
  BY <1>1 DEF Reports
<1>3. PICK batch : /\ R.batch \in Batches
                   /\ batch = batches[R.batch] /\ batch # None
                   /\ IsReportOf(R, batch)
  BY <1>1, ActiveReports
<1> HIDE DEF section
<1>4. IsReportOf(S, batch) /\ S.batch = R.batch
  BY <1>1, <1>3, ReportEnds
<1> HIDE DEF S, R
<1>5. IsReport(S)
  BY <1>3, <1>4, BatchedReport
<1> QED
  BY <1>2, <1>5

\* So does the first SELECT.
LEMMA AskMakesReport ==
    ASSUME Books, Reports, NEW g \in Reporters, NEW b \in Batches, Ask(g, b)
    PROVE  IsReport(reports'[g])
<1>1. PICK batch : batch = batches[b]
  OBVIOUS
<1> DEFINE R == [batch |-> b, items |-> NoItems, reading |-> None, section |-> None,
                 listed |-> [p \in {p \in PaymentIds : Through(p, batch.cutoff)} |->
                               payments[p]]]
<1>2. batch # None /\ reports'[g] = R
  BY <1>1 DEF Ask, Reports
<1>3. IsBatch(batch)
  BY <1>1, <1>2 DEF Reports, Imported
<1>4. IsReport(R)
  BY <1>1, <1>2, <1>3, AskedIsReport
<1> QED
  BY <1>2, <1>4

\* A step moves one report at most.
LEMMA OneReportMoves ==
    ASSUME Books, History, Reports, [ReconciliationNext]_allVars, NEW R \in Active'
    PROVE  IsReport(R)
<1>1. CASE reports' = reports
  BY <1>1 DEF Active, Reports
<1>2. ASSUME NEW g \in Reporters, \A h \in Reporters \ {g} : reports'[h] = reports[h],
             reports'[g] # None => IsReport(reports'[g])
      PROVE  IsReport(R)
  BY <1>2 DEF Active, Reports
<1>3. ASSUME NEW g \in Reporters,
             \/ \E b \in Batches : Ask(g, b)
             \/ \E p \in PaymentIds : ReadLedger(g, p)
             \/ ReadEvent(g)
             \/ ReadInbox(g)
             \/ ReadProjection(g)
             \/ Generate(g)
             \/ Leave(g)
      PROVE  IsReport(R)
  <2>1. \A h \in Reporters \ {g} : reports'[h] = reports[h]
    BY <1>3 DEF Ask, ReadLedger, ReadEvent, ReadInbox, Read, ReadProjection, Generate,
               Leave, Reports
  <2>2. Leave(g) => reports'[g] = None
    BY DEF Leave, Reports
  <2>3. ~Leave(g) => IsReport(reports'[g])
    BY <1>3, AskMakesReport, LedgerMakesReport, EventMakesReport, ProjectionMakesReport,
       GenerateMakesReport
  <2> QED
    BY <1>2, <2>1, <2>2, <2>3
<1> QED
  BY <1>1, <1>3 DEF ReconciliationNext, Serve, Consume, create_settlement_batch,
                    reportVars, allVars

\* A batch keeps its rows importable, and a new one has them so.
LEMMA BatchStays ==
    ASSUME Books, Later, NEW batch, IsBatch(batch)
    PROVE  IsBatch(batch)'
<1>1. \A line \in DOMAIN batch.rows : batch.rows[line].payment_id \in PaymentIds
  <2>1. \A line \in DOMAIN batch.rows : batch.rows[line] \in BatchRow
    BY DEF IsBatch
  <2> QED
    BY <2>1 DEF BatchRow
<1>2. \A line \in DOMAIN batch.rows : Through(batch.rows[line].payment_id, batch.cutoff)'
  <2>1. ASSUME NEW line \in DOMAIN batch.rows
        PROVE  Through(batch.rows[line].payment_id, batch.cutoff)'
    <3> DEFINE p == batch.rows[line].payment_id
               cutoff == batch.cutoff
    <3>1. p \in PaymentIds /\ Through(p, cutoff)
      BY <1>1 DEF IsBatch, Importable
    <3> HIDE DEF p, cutoff
    <3>2. Through(p, cutoff)'
      BY <3>1, ThroughStays
    <3> QED
      BY <3>2 DEF p, cutoff
  <2> QED
    BY <2>1
<1> QED
  BY <1>2 DEF IsBatch, Importable

\* A batch is imported with rows of payments the cutoff includes.
LEMMA ImportMakesBatch ==
    ASSUME NEW b \in Batches, NEW cutoff \in 0..MaxTime, NEW rows \in SettlementRows,
           create_settlement_batch(b, cutoff, rows), NEW batch,
           batch = [cutoff |-> cutoff, rows |-> rows]
    PROVE  IsBatch(batch)
<1>1. cutoff \in Nat
  BY MaxTimeAssumption
<1>2. rows \in Seq(BatchRow)
  <2>1. PICK n \in 0..MaxRows : rows \in [1..n -> BatchRow]
    BY DEF SettlementRows, BatchRow
  <2>2. n \in Nat
    BY BoundsAssumption
  <2> QED
    BY <2>1, <2>2
<1>3. batch.cutoff = cutoff /\ batch.rows = rows /\ Importable(rows, cutoff)
  BY DEF create_settlement_batch
<1> QED
  BY <1>1, <1>2, <1>3 DEF IsBatch

\* Batches stay what they were imported as.
LEMMA BatchesStay ==
    ASSUME Books, Later, Reports, [ReconciliationNext]_allVars
    PROVE  /\ batches' = [b \in Batches |-> batches'[b]]
           /\ \A batch \in Imported' : IsBatch(batch)'
<1>1. CASE batches' = batches
  <2>1. \A batch \in Imported' : IsBatch(batch)
    BY <1>1 DEF Imported, Reports
  <2> QED
    BY <1>1, <2>1, BatchStays DEF Reports
<1>2. ASSUME NEW b \in Batches, NEW cutoff \in 0..MaxTime, NEW rows \in SettlementRows,
             create_settlement_batch(b, cutoff, rows)
      PROVE  /\ batches' = [c \in Batches |-> batches'[c]]
             /\ \A batch \in Imported' : IsBatch(batch)
  <2>1. /\ batches' = [batches EXCEPT ![b] = [cutoff |-> cutoff, rows |-> rows]]
        /\ batches = [c \in Batches |-> batches[c]]
    BY <1>2 DEF create_settlement_batch, Reports
  <2>2. /\ batches' = [c \in Batches |-> batches'[c]]
        /\ batches'[b] = [cutoff |-> cutoff, rows |-> rows]
        /\ \A c \in Batches : c # b => batches'[c] = batches[c]
    BY <2>1
  <2>3. \A batch : batch = [cutoff |-> cutoff, rows |-> rows] => IsBatch(batch)
    BY <1>2, ImportMakesBatch
  <2>4. \A batch \in Imported' :
          batch \in Imported \/ batch = [cutoff |-> cutoff, rows |-> rows]
    BY <2>2 DEF Imported
  <2> QED
    BY <2>2, <2>3, <2>4 DEF Reports
<1>3. ASSUME NEW b \in Batches, NEW cutoff \in 0..MaxTime, NEW rows \in SettlementRows,
             create_settlement_batch(b, cutoff, rows)
      PROVE  \A batch \in Imported' : IsBatch(batch)'
  BY <1>2, <1>3, BatchStays
<1> QED
  BY <1>1, <1>2, <1>3 DEF ReconciliationNext, Serve, Consume, Ask, ReadLedger, ReadEvent,
       ReadInbox, Read, ReadProjection, Generate, Leave, reportVars, allVars

\* Reports and batches stay what they are through any step.
LEMMA ReportsStep ==
    ASSUME Books, Books', History, Reports, [ReconciliationNext]_allVars
    PROVE  Reports'
<1>1. Later
  BY TimePasses DEF Reports
<1>2. \A R \in Active' : IsReport(R)'
  BY <1>1, OneReportMoves, ReportStays
<1>3. /\ sections' = [b \in Batches |-> sections'[b]]
      /\ reports' = [g \in Reporters |-> reports'[g]]
  BY DEF Reports, ReconciliationNext, Serve, Consume, create_settlement_batch, Ask,
         ReadLedger, ReadEvent, ReadInbox, Read, ReadProjection, Generate, Leave,
         reportVars, allVars
<1> QED
  BY <1>1, <1>2, <1>3, BatchesStay DEF Reports

\* Reports is invariant.
LEMMA ReportsInvariant == ReconciliationSpec => []Reports
<1>1. ReconciliationInit => Reports
  <2> SUFFICES ASSUME ReconciliationInit PROVE Reports
    OBVIOUS
  <2>1. /\ batches = [b \in Batches |-> None]
        /\ sections = [b \in Batches |-> None]
        /\ reports = [g \in Reporters |-> None]
    BY DEF ReconciliationInit
  <2> QED
    BY <2>1 DEF Reports, Imported, Active
<1>2. Books /\ Books' /\ History /\ Reports /\ [ReconciliationNext]_allVars => Reports'
  BY ReportsStep
<1> QED
  BY <1>1, <1>2, BooksInvariant, PTL DEF ReconciliationSpec

----------------------------------------------------------------------------
(* What a report is worth.                                                 *)

\* A saved section is what every later report of its batch gets.
THEOREM SavedSectionsStay == ReconciliationSpec => SectionsArePermanent
<1>1. Reports /\ [ReconciliationNext]_allVars =>
        \A b \in Batches : sections[b] # None => sections'[b] = sections[b]
  <2> SUFFICES ASSUME Reports, [ReconciliationNext]_allVars,
                      NEW b \in Batches, sections[b] # None
               PROVE  sections'[b] = sections[b]
    OBVIOUS
  <2>1. ASSUME NEW g \in Reporters, Generate(g)
        PROVE  sections'[b] = sections[b]
    <3>1. sections' = [sections EXCEPT ![reports[g].batch] = Saved(reports[g].batch)]
      BY <2>1 DEF Generate
    <3>2. Saved(b) = sections[b]
      BY DEF Saved
    <3> QED
      BY <3>1, <3>2 DEF Reports
  <2> QED
    BY <2>1 DEF ReconciliationNext, Serve, Consume, create_settlement_batch, Ask,
       ReadLedger, ReadEvent, ReadInbox, Read, ReadProjection, Leave, reportVars, allVars
<1> QED
  BY <1>1, ReportsInvariant, PTL DEF ReconciliationSpec, SectionsArePermanent

\* What a report says of a payment, it says of a row, a batch and an item that
\* belong together.
LEMMA ItemsAreSound ==
    ASSUME Reports, NEW g \in Reporters, NEW p \in Items(g)
    PROVE  \E batch : /\ batch = batches[reports[g].batch] /\ batch # None
                      /\ p \in DOMAIN reports[g].listed
                      /\ IsItem(reports[g].items[p], reports[g].listed[p], p, batch)
<1>1. reports[g] # None /\ p \in DOMAIN reports[g].items
  BY DEF Items
<1> QED
  BY <1>1, ActiveReports DEF IsReportOf

\* No report shows money in a balance that its ledger totals do not show.
THEOREM LedgerStaysAhead == ReconciliationSpec => []LedgerIsNeverBehind
<1>1. Reports => LedgerIsNeverBehind
  BY ItemsAreSound DEF LedgerIsNeverBehind, IsItem, Covers
<1> QED
  BY <1>1, ReportsInvariant, PTL

\* A projection is found to match only where the ledger was found to match.
THEOREM MatchedMeansMatched == ReconciliationSpec => []MatchedIsConsistent
<1>1. Reports => MatchedIsConsistent
  BY ItemsAreSound DEF MatchedIsConsistent, IsItem
<1> QED
  BY <1>1, ReportsInvariant, PTL

\* What is expected to be settled is the net amount of the version that the
\* cutoff selects.
THEOREM ExpectedIsOfTheCutoff == ReconciliationSpec => []ExpectedAmountIsHistorical
<1>1. Reports => ExpectedAmountIsHistorical
  BY ItemsAreSound DEF ExpectedAmountIsHistorical, IsItem, Historical
<1> QED
  BY <1>1, ReportsInvariant, PTL

----------------------------------------------------------------------------
(* Counting rows and amounts.                                              *)

\* The sum of nothing is zero.
LEMMA NoSum == ASSUME NEW f PROVE SumFunctionOnSet(f, {}) = 0
BY FS_EmptySet, SumIsComputed, SumOfNone

Keyed(keys, s) == {line \in DOMAIN keys : keys[line] \in s}

\* Lines counted by their keys are the lines that have those keys.
LEMMA CountedByKey ==
    ASSUME NEW S, IsFiniteSet(S), NEW keys, IsFiniteSet(DOMAIN keys), NEW counts,
           \A p \in S : counts[p] = Cardinality(Keyed(keys, {p}))
    PROVE  SumFunctionOnSet(counts, S) = Cardinality(Keyed(keys, S))
<1> DEFINE B == {s \in SUBSET S :
                   SumFunctionOnSet(counts, s) # Cardinality(Keyed(keys, s))}
<1>1. SUFFICES ASSUME B # {} PROVE FALSE
  BY DEF B
<1>2. PICK s \in B : \A x \in s : s \ {x} \notin B
  BY <1>1, Minimal
<1>3. \A t : IsFiniteSet(Keyed(keys, t)) /\ Cardinality(Keyed(keys, t)) \in Nat
  BY FS_Subset, FS_CardinalityType DEF Keyed
<1>4. s \in SUBSET S /\ IsFiniteSet(s)
  BY FS_Subset
<1>5. SumFunctionOnSet(counts, s) # Cardinality(Keyed(keys, s))
  BY <1>2
<1>6. s # {}
  <2>1. Keyed(keys, {}) = {}
    BY DEF Keyed
  <2> QED
    BY <1>5, <2>1, NoSum, FS_EmptySet
<1>7. PICK x \in s : TRUE
  BY <1>6
<1> DEFINE rest == s \ {x}
<1>8. SumFunctionOnSet(counts, rest) = Cardinality(Keyed(keys, rest))
  BY <1>2, <1>4, <1>7
<1>9. \A y \in s : counts[y] \in Nat
  BY <1>3, <1>4
<1>10. SumFunctionOnSet(counts, s) = counts[x] + SumFunctionOnSet(counts, rest)
  BY <1>4, <1>7, <1>9, SumTaken
<1>11. Cardinality(Keyed(keys, s))
         = Cardinality(Keyed(keys, {x})) + Cardinality(Keyed(keys, rest))
  <2> DEFINE one == Keyed(keys, {x})
             others == Keyed(keys, rest)
  <2>1. Keyed(keys, s) = one \cup others /\ one \cap others = {}
    BY <1>7 DEF Keyed
  <2>2. Cardinality({}) = 0
    BY FS_EmptySet
  <2>3. /\ IsFiniteSet(one) /\ IsFiniteSet(others)
        /\ Cardinality(one) \in Nat /\ Cardinality(others) \in Nat
    BY <1>3
  <2> HIDE DEF one, others
  <2>4. Cardinality(one \cup others)
          = Cardinality(one) + Cardinality(others) - Cardinality(one \cap others)
    BY <2>3, FS_Union
  <2>5. Cardinality(Keyed(keys, s)) = Cardinality(one) + Cardinality(others)
    BY <2>1, <2>2, <2>3, <2>4
  <2> QED
    BY <2>5 DEF one, others
<1>12. counts[x] = Cardinality(Keyed(keys, {x}))
  BY <1>4, <1>7
<1> HIDE DEF rest
<1> QED
  BY <1>5, <1>8, <1>10, <1>11, <1>12

\* Zeros do not count.
LEMMA SumWithoutZeros ==
    ASSUME NEW S, IsFiniteSet(S), NEW f, \A x \in S : f[x] \in Nat,
           NEW T, T \subseteq S, \A x \in S \ T : f[x] = 0
    PROVE  SumFunctionOnSet(f, S) = SumFunctionOnSet(f, T)
<1> DEFINE B == {s \in SUBSET S :
                   SumFunctionOnSet(f, s) # SumFunctionOnSet(f, s \cap T)}
<1>1. S \cap T = T
  OBVIOUS
<1>2. SUFFICES ASSUME B # {} PROVE FALSE
  BY <1>1
<1>3. PICK s \in B : \A x \in s : s \ {x} \notin B
  BY <1>2, Minimal
<1>4. /\ s \in SUBSET S /\ IsFiniteSet(s) /\ IsFiniteSet(s \cap T)
      /\ SumFunctionOnSet(f, s) # SumFunctionOnSet(f, s \cap T)
  BY <1>3, FS_Subset
<1>5. s # {}
  <2>1. {} \cap T = {}
    OBVIOUS
  <2> QED
    BY <1>4, <2>1
<1>6. PICK x \in s : TRUE
  BY <1>5
<1> DEFINE rest == s \ {x}
<1>7. SumFunctionOnSet(f, rest) = SumFunctionOnSet(f, rest \cap T)
  BY <1>3, <1>4, <1>6
<1>8. /\ SumFunctionOnSet(f, s) = f[x] + SumFunctionOnSet(f, rest)
      /\ SumFunctionOnSet(f, rest) \in Nat /\ f[x] \in Nat
  BY <1>4, <1>6, SumTaken
<1>9. CASE x \in T
  <2>1. (s \cap T) \ {x} = rest \cap T /\ x \in s \cap T
    BY <1>6, <1>9
  <2>2. \A y \in s \cap T : f[y] \in Nat
    BY <1>4
  <2>3. SumFunctionOnSet(f, s \cap T) = f[x] + SumFunctionOnSet(f, rest \cap T)
    <3> DEFINE both == s \cap T
    <3>1. /\ IsFiniteSet(both) /\ x \in both /\ \A y \in both : f[y] \in Nat
          /\ both \ {x} = rest \cap T
      BY <1>4, <2>1, <2>2
    <3> HIDE DEF both
    <3>2. SumFunctionOnSet(f, both) = f[x] + SumFunctionOnSet(f, both \ {x})
      BY <3>1, SumTaken
    <3> QED
      BY <3>1, <3>2 DEF both
  <2> QED
    BY <1>4, <1>7, <1>8, <2>3
<1>10. CASE x \notin T
  <2>1. s \cap T = rest \cap T /\ f[x] = 0
    BY <1>4, <1>6, <1>10
  <2>2. SumFunctionOnSet(f, s \cap T) = SumFunctionOnSet(f, rest \cap T)
    BY <2>1
  <2>3. SumFunctionOnSet(f, s) = SumFunctionOnSet(f, rest)
    <3> HIDE DEF rest
    <3> QED
      BY <1>8, <2>1
  <2> HIDE DEF rest
  <2> QED
    BY <1>4, <1>7, <2>2, <2>3
<1> QED
  BY <1>9, <1>10

----------------------------------------------------------------------------
(* Finished reports.                                                       *)

\* A report is finished when it has an item of every payment it listed.
LEMMA FinishedReport ==
    ASSUME Reports, NEW g \in Reporters, Finished(g)
    PROVE  \E batch :
             /\ batch = batches[reports[g].batch] /\ IsBatch(batch)
             /\ IsFiniteSet(DOMAIN reports[g].items)
             /\ \A p \in DOMAIN reports[g].items :
                  /\ reports[g].listed[p] \in Payment
                  /\ IsItem(reports[g].items[p], reports[g].listed[p], p, batch)
             /\ \A line \in DOMAIN batch.rows :
                  batch.rows[line].payment_id \in DOMAIN reports[g].items
<1>1. reports[g] # None /\ reports[g].section # None
  BY DEF Finished
<1> QED
  BY <1>1, ActiveReports DEF IsReportOf, Listed

\* Every row of a batch is shown by every report of it.
THEOREM RowsAreAllShown == ReconciliationSpec => []RowsAreNeverExcluded
<1>1. Reports => RowsAreNeverExcluded
  <2> SUFFICES ASSUME Reports, NEW g \in Reporters, Finished(g)
               PROVE  RowsShown(g) = Len(batches[reports[g].batch].rows)
    BY DEF RowsAreNeverExcluded
  <2>1. PICK batch :
          /\ batch = batches[reports[g].batch] /\ IsBatch(batch)
          /\ IsFiniteSet(DOMAIN reports[g].items)
          /\ \A p \in DOMAIN reports[g].items :
               IsItem(reports[g].items[p], reports[g].listed[p], p, batch)
          /\ \A line \in DOMAIN batch.rows :
               batch.rows[line].payment_id \in DOMAIN reports[g].items
    BY FinishedReport
  <2> DEFINE items == reports[g].items
             S == DOMAIN items
             counts == [p \in S |-> Cardinality(DOMAIN items[p].rows)]
             keys == [line \in DOMAIN batch.rows |-> batch.rows[line].payment_id]
  <2>2. DOMAIN batch.rows = 1..Len(batch.rows) /\ Len(batch.rows) \in Nat
    BY <2>1 DEF IsBatch
  <2>3. /\ IsFiniteSet(DOMAIN keys)
        /\ Cardinality(DOMAIN keys) = Len(batch.rows)
    BY <2>2, FS_Interval
  <2>4. \A p \in S : counts[p] = Cardinality(Keyed(keys, {p}))
    <3>1. ASSUME NEW p \in S
          PROVE  DOMAIN items[p].rows = Keyed(keys, {p})
      <4>1. items[p].rows = RowsOf(batch, p)
        BY <2>1 DEF IsItem
      <4>2. Keyed(keys, {p}) =
              {line \in DOMAIN batch.rows : batch.rows[line].payment_id = p}
        BY DEF Keyed
      <4>3. DOMAIN RowsOf(batch, p) =
              {line \in DOMAIN batch.rows : batch.rows[line].payment_id = p}
        BY DEF RowsOf, Restrict
      <4> QED
        BY <4>1, <4>2, <4>3
    <3> QED
      BY <3>1
  <2>5. Keyed(keys, S) = DOMAIN keys
    BY <2>1 DEF Keyed
  <2>6. RowsShown(g) = SumFunctionOnSet(counts, S)
    BY DEF RowsShown, SumFunction
  <2>7. IsFiniteSet(S)
    BY <2>1
  <2> HIDE DEF items, S, counts, keys
  <2>8. SumFunctionOnSet(counts, S) = Cardinality(Keyed(keys, S))
    BY <2>3, <2>4, <2>7, CountedByKey
  <2>9. SumFunctionOnSet(counts, S) = Len(batch.rows)
    BY <2>3, <2>5, <2>8
  <2> QED
    BY <2>1, <2>6, <2>9
<1> QED
  BY <1>1, ReportsInvariant, PTL

\* A matched item has nothing to settle and no row, or a row of just that.
LEMMA MatchedItem ==
    ASSUME NEW item, NEW row, NEW p, NEW batch, IsItem(item, row, p, batch),
           item.settlement = "matched"
    PROVE  \/ DOMAIN item.rows = {} /\ item.expected = 0
           \/ /\ DOMAIN item.rows # {}
              /\ Canonical(item.rows).amount = item.expected
              /\ Canonical(item.rows).currency = row.currency
<1>1. classify_settlement(item.expected, row.currency, item.rows) = "matched"
  BY DEF IsItem
<1>2. CASE DOMAIN item.rows = {}
  BY <1>1, <1>2 DEF classify_settlement
<1>3. CASE DOMAIN item.rows # {}
  BY <1>1, <1>3 DEF classify_settlement
<1> QED
  BY <1>2, <1>3

\* A report whose payments all match balances in every currency.
THEOREM MatchedReportsBalance == ReconciliationSpec => []MatchedReportBalances
<1>1. Reports => MatchedReportBalances
  <2> SUFFICES ASSUME Reports, NEW g \in Reporters, Finished(g),
                      \A p \in DOMAIN reports[g].items :
                        reports[g].items[p].settlement = "matched",
                      NEW currency \in Currencies
               PROVE  ExpectedIn(g, currency) = ObservedIn(g, currency)
    BY DEF MatchedReportBalances
  <2> DEFINE items == reports[g].items
             listed == reports[g].listed
             expected == [p \in DOMAIN items |-> items[p].expected]
             E == {p \in DOMAIN items : listed[p].currency = currency}
             paid == {p \in DOMAIN items :
                        /\ DOMAIN items[p].rows # {}
                        /\ Canonical(items[p].rows).currency = currency}
             observed == [p \in paid |-> Canonical(items[p].rows).amount]
  <2>1. PICK batch :
          /\ IsFiniteSet(DOMAIN items)
          /\ \A p \in DOMAIN items : IsItem(items[p], listed[p], p, batch)
    BY FinishedReport
  <2>2. ASSUME NEW p \in DOMAIN items
        PROVE  /\ items[p].expected \in Nat
               /\ \/ DOMAIN items[p].rows = {} /\ items[p].expected = 0
                  \/ /\ DOMAIN items[p].rows # {}
                     /\ Canonical(items[p].rows).amount = items[p].expected
                     /\ Canonical(items[p].rows).currency = listed[p].currency
    <3> DEFINE item == items[p]
               row == listed[p]
    <3>1. IsItem(item, row, p, batch) /\ item.settlement = "matched"
      BY <2>1
    <3> HIDE DEF item, row
    <3>2. /\ item.expected \in Nat
          /\ \/ DOMAIN item.rows = {} /\ item.expected = 0
             \/ /\ DOMAIN item.rows # {}
                /\ Canonical(item.rows).amount = item.expected
                /\ Canonical(item.rows).currency = row.currency
      BY <3>1, MatchedItem DEF IsItem
    <3> QED
      BY <3>2 DEF item, row
  <2>3. /\ IsFiniteSet(E) /\ paid \subseteq E
        /\ \A p \in E : expected[p] \in Nat
        /\ \A p \in E \ paid : expected[p] = 0
        /\ \A p \in paid : expected[p] = observed[p]
    <3>1. IsFiniteSet(E)
      BY <2>1, FS_Subset
    <3>2. \A p \in E : expected[p] \in Nat
      BY <2>2
    <3>3. paid \subseteq E
      BY <2>2
    <3>4. \A p \in E \ paid : expected[p] = 0
      BY <2>2
    <3>5. \A p \in paid : expected[p] = observed[p]
      BY <2>2
    <3> QED
      BY <3>1, <3>2, <3>3, <3>4, <3>5
  <2>4. /\ ExpectedIn(g, currency) = SumFunctionOnSet(expected, E)
        /\ ObservedIn(g, currency) = SumFunctionOnSet(observed, paid)
    BY DEF ExpectedIn, ObservedIn, SumFunction
  <2> HIDE DEF items, listed, expected, E, paid, observed
  <2>5. SumFunctionOnSet(expected, E) = SumFunctionOnSet(expected, paid)
    BY <2>3, SumWithoutZeros
  <2>6. SumFunctionOnSet(expected, paid) = SumFunctionOnSet(observed, paid)
    <3>1. IsFiniteSet(paid)
      BY <2>3, FS_Subset
    <3> QED
      BY <2>3, <3>1, SumDepends
  <2> QED
    BY <2>4, <2>5, <2>6
<1> QED
  BY <1>1, ReportsInvariant, PTL

----------------------------------------------------------------------------
(* Confirmed on time, and applied.                                         *)

PaidStatuses == {"CAPTURED", "PARTIALLY_REFUNDED", "REFUNDED"}

PaidIn(p, v) == events[p][v].payment.status \in PaidStatuses

\* A delayed payment is paid by its events from the time on at which the
\* confirmation that was applied to it was received.
Confirmed(p) ==
    /\ \A v \in 1..Len(events[p]) : PaidIn(p, v) =>
         \E c \in ConfirmationIds :
            Applied(c, p) /\ confirmations[c].received_at <= created_at[p][v]
    /\ \A c \in ConfirmationIds : Applied(c, p) =>
         \E v \in 1..Len(events[p]) :
            PaidIn(p, v) /\ created_at[p][v] <= confirmations[c].received_at

Verdicts ==
    /\ IsFiniteSet(DOMAIN confirmations)
    /\ \A c \in DOMAIN confirmations :
         confirmations[c].disposition = "applied" =>
             confirmations[c].payment_id \in KnownReferences
    /\ \A p \in KnownReferences : Confirmed(p)

\* A change by a completion carries the time of the receipt.
LEMMA CompletionStamp ==
    ASSUME Core, NEW w \in Workers, NEW c, c \in ConfirmationIds, Complete(w, c),
           NEW p \in DOMAIN payments
    PROVE  Stamp(p) = receipts[c].received_at
<1>1. c \notin DOMAIN confirmations
      /\ DOMAIN confirmations' = DOMAIN confirmations \cup {c}
  BY DEF Complete, Record, Put, Row
<1>2. confirmations # confirmations'
  BY <1>1
<1>3. c = CHOOSE d \in DOMAIN confirmations' : d \notin DOMAIN confirmations
  BY <1>1
<1> QED
  BY <1>2, <1>3 DEF Stamp

\* What is applied now was received when it says, and pays now.
LEMMA AppliedIsStamped ==
    ASSUME Core, EvidenceAgrees, [Next]_vars, NEW c, NEW p \in DOMAIN payments,
           Applied(c, p)', ~Applied(c, p)
    PROVE  /\ payments'[p].status = "CAPTURED" /\ ~SameAt(p)
           /\ Stamp(p) = confirmations'[c].received_at
<1>1. /\ EvidenceCompleted(c) /\ payments[p].status = "AWAITING_PAYMENT"
      /\ payments'[p].status = "CAPTURED"
  BY AppliedNow
<1>2. PICK w \in Workers : Complete(w, c)
  BY <1>1 DEF EvidenceCompleted
<1>3. c \in ConfirmationIds
  BY <1>1 DEF EvidenceCompleted, Core, DeliveriesOK, IsTable
<1>4. confirmations'[c].received_at = receipts[c].received_at
  BY <1>1 DEF EvidenceCompleted, Judgement
<1>5. ~SameAt(p)
  BY <1>1 DEF SameAt
<1> QED
  BY <1>1, <1>2, <1>3, <1>4, <1>5, CompletionStamp

\* A change is the last event, with its time.
LEMMA ChangeIsLast ==
    ASSUME Books, Serve, NEW p \in PaymentIds, ~SameAt(p)
    PROVE  /\ Len(events[p]) \in Nat /\ Len(events'[p]) = Len(events[p]) + 1
           /\ events'[p][Len(events[p]) + 1].payment = payments'[p]
           /\ created_at'[p][Len(events[p]) + 1] = Stamp(p)
           /\ \A v \in 1..Len(events[p]) : /\ events'[p][v] = events[p][v]
                                           /\ created_at'[p][v] = created_at[p][v]
           /\ \A v \in 1..Len(events[p]) : created_at[p][v] <= Stamp(p)
           /\ Stamp(p) \in Nat
           /\ created_at[p] \in Seq(Nat) /\ Len(created_at[p]) = Len(events[p])
<1>1. /\ events[p] \in Seq(Event)
      /\ created_at[p] \in Seq(Nat) /\ Len(created_at[p]) = Len(events[p])
  BY DEF Books, Core, TablesOK, Times, TimesKnown
<1>2. PICK e \in Event : events'[p] = Append(events[p], e) /\ e.payment = payments'[p]
  BY Grown DEF Books, Serve
<1>3. created_at'[p] = Append(created_at[p], Stamp(p))
  BY ChangeIsStamped DEF Books, StampedWith
<1>4. /\ Stamp(p) \in Nat
      /\ \A v \in 1..Len(created_at[p]) : created_at[p][v] <= Stamp(p)
  BY StampTimely DEF Books, Serve
<1>5. /\ Len(events[p]) \in Nat /\ Len(events'[p]) = Len(events[p]) + 1
      /\ events'[p][Len(events[p]) + 1] = e
      /\ \A v \in 1..Len(events[p]) : events'[p][v] = events[p][v]
  BY <1>1, <1>2
<1>6. /\ created_at'[p][Len(events[p]) + 1] = Stamp(p)
      /\ \A v \in 1..Len(events[p]) : created_at'[p][v] = created_at[p][v]
  <2> DEFINE time == Stamp(p)
  <2>1. time \in Nat /\ created_at'[p] = Append(created_at[p], time)
    BY <1>3, <1>4
  <2> HIDE DEF time
  <2>2. /\ created_at'[p][Len(created_at[p]) + 1] = time
        /\ \A v \in 1..Len(created_at[p]) : created_at'[p][v] = created_at[p][v]
    BY <1>1, <2>1
  <2> QED
    BY <1>1, <2>2 DEF time
<1> QED
  BY <1>1, <1>2, <1>4, <1>5, <1>6

\* A step that leaves a payment as it is leaves its confirmation as it is.
LEMMA ConfirmedStays ==
    ASSUME Books, Serve, NEW p \in DOMAIN payments, SameAt(p), Confirmed(p)
    PROVE  Confirmed(p)'
<1>1. p \in PaymentIds /\ Core /\ EvidenceAgrees /\ [Next]_vars
  BY DEF Books, Core, TablesOK, IsTable, Serve
<1>2. events'[p] = events[p] /\ created_at'[p] = created_at[p]
  BY <1>1, ChangeIsStamped DEF Books, SameAt
<1>3. ASSUME NEW c
      PROVE  /\ Applied(c, p)' <=> Applied(c, p)
             /\ Applied(c, p) => confirmations'[c] = confirmations[c]
  <2>1. Applied(c, p)' => Applied(c, p)
    BY <1>1, AppliedIsStamped
  <2>2. Applied(c, p) => Applied(c, p)'
    BY <1>1, AppliedStays
  <2>3. Applied(c, p) => confirmations'[c] = confirmations[c]
    BY <1>1, EvidencePermanent DEF Applied
  <2> QED
    BY <2>1, <2>2, <2>3
<1> QED
  BY <1>2, <1>3 DEF Confirmed, PaidIn

\* A payment that is opened is not paid, and nothing was applied to it.
LEMMA ConfirmedOpened ==
    ASSUME Books, Evidence, Evidence', Serve,
           NEW p \in KnownReferences', p \notin DOMAIN payments
    PROVE  Confirmed(p)'
<1>1. /\ p \in PaymentIds /\ p \in DOMAIN payments'
      /\ payments'[p].status \in {"AUTHORIZED", "DECLINED", "AWAITING_PAYMENT"}
      /\ MoneyFitsStatus(payments'[p])
  BY Opened DEF KnownReferences, Books, Serve
<1>2. payments'[p] \in Payment /\ Delayed(payments'[p])
  BY <1>1 DEF Evidence, Core, TablesOK, IsTable, KnownReferences, Delayed
<1>3. ~(payments'[p].captured_amount > 0)
  BY <1>1, <1>2, DelayedMoney
<1>4. \A c \in ConfirmationIds : ~Applied(c, p)'
  BY <1>3 DEF Evidence, AppliedExactlyOnce
<1>5. ~SameAt(p)
  BY <1>1 DEF SameAt
<1>6. events[p] = <<>>
  BY <1>1 DEF Books, Core, TablesOK, RowsArePublished
<1>7. Len(events'[p]) = 1 /\ events'[p][1].payment = payments'[p]
  <2>1. /\ Len(events'[p]) = Len(events[p]) + 1
        /\ events'[p][Len(events[p]) + 1].payment = payments'[p]
    BY <1>1, <1>5, ChangeIsLast
  <2>2. Len(events[p]) = 0
    BY <1>6
  <2> QED
    BY ONLY <2>1, <2>2
<1>8. \A v \in 1..Len(events'[p]) : events'[p][v].payment.status \notin PaidStatuses
  BY <1>1, <1>7 DEF PaidStatuses
<1> QED
  BY <1>4, <1>8 DEF Confirmed, PaidIn

\* A change of a delayed payment pays it when a confirmation is applied to it,
\* or after one has been.
LEMMA ConfirmedChanges ==
    ASSUME Books, Evidence, Evidence', Serve,
           NEW p \in KnownReferences, Confirmed(p), ~SameAt(p)
    PROVE  Confirmed(p)'
<1> DEFINE n == Len(events[p])
           stamp == Stamp(p)
<1>1. /\ p \in DOMAIN payments /\ p \in PaymentIds
      /\ Core /\ EvidenceAgrees /\ [Next]_vars
  BY DEF KnownReferences, Books, Core, TablesOK, IsTable, Serve
<1>2. p \in KnownReferences' /\ Delayed(payments'[p])
  BY <1>1, TermsStay DEF KnownReferences, SameTerms, Delayed
<1>3. /\ n \in Nat /\ Len(events'[p]) = n + 1 /\ stamp \in Nat
      /\ events'[p][n + 1].payment = payments'[p] /\ created_at'[p][n + 1] = stamp
      /\ \A v \in 1..n : events'[p][v] = events[p][v]
      /\ \A v \in 1..n : created_at'[p][v] = created_at[p][v]
      /\ \A v \in 1..n : created_at[p][v] \in Nat /\ created_at[p][v] <= stamp
  <2>1. /\ n \in Nat /\ Len(events'[p]) = n + 1 /\ stamp \in Nat
        /\ events'[p][n + 1].payment = payments'[p] /\ created_at'[p][n + 1] = stamp
    BY <1>1, ChangeIsLast
  <2>2. /\ \A v \in 1..n : events'[p][v] = events[p][v]
        /\ \A v \in 1..n : created_at'[p][v] = created_at[p][v]
        /\ \A v \in 1..n : created_at[p][v] <= stamp
    BY <1>1, ChangeIsLast
  <2>3. \A v \in 1..n : created_at[p][v] \in Nat
    BY <1>1 DEF Books, Times, TimesKnown
  <2> QED
    BY <2>1, <2>2, <2>3
<1>4. ASSUME NEW c, Applied(c, p)
      PROVE  /\ Applied(c, p)' /\ confirmations'[c].received_at = confirmations[c].received_at
             /\ confirmations[c].received_at \in Nat
  <2>1. c \in DOMAIN confirmations /\ c \in DOMAIN receipts
        /\ confirmations[c].received_at = receipts[c].received_at
    BY <1>1, <1>4 DEF Applied, EvidenceAgrees
  <2> QED
    BY <1>1, <1>4, <2>1, AppliedStays, EvidencePermanent, ReceiptFacts
<1>5. ASSUME NEW c, Applied(c, p)', ~Applied(c, p)
      PROVE  /\ payments'[p].status = "CAPTURED"
             /\ confirmations'[c].received_at = stamp
  BY <1>1, <1>5, AppliedIsStamped
<1> HIDE DEF n, stamp
<1>6. ASSUME NEW v \in 1..(n + 1), PaidIn(p, v)'
      PROVE  \E c \in ConfirmationIds :
               Applied(c, p)' /\ confirmations'[c].received_at <= created_at'[p][v]
  <2>1. CASE v \in 1..n
    <3>1. PaidIn(p, v)
      BY <1>3, <1>6, <2>1 DEF PaidIn
    <3>2. PICK c \in ConfirmationIds :
            Applied(c, p) /\ confirmations[c].received_at <= created_at[p][v]
      BY <2>1, <3>1 DEF Confirmed, n
    <3> QED
      BY <1>3, <1>4, <2>1, <3>2
  <2>2. CASE v = n + 1
    <3>1. payments'[p].status \in PaidStatuses
      BY <1>3, <1>6, <2>2 DEF PaidIn
    <3>2. payments'[p] \in Payment /\ MoneyFitsStatus(payments'[p])
      BY <1>2 DEF Evidence, Core, TablesOK, IsTable, BalancesFitStatus, KnownReferences
    <3>3. payments'[p].captured_amount > 0
      BY <1>2, <3>1, <3>2, DelayedMoney DEF PaidStatuses
    <3>4. PICK c \in ConfirmationIds : Applied(c, p)'
      BY <1>2, <3>3 DEF Evidence, AppliedExactlyOnce
    <3>5. CASE ~Applied(c, p)
      BY <1>3, <1>5, <2>2, <3>4, <3>5
    <3>6. CASE Applied(c, p)
      <4>1. PICK u \in 1..n : PaidIn(p, u)
        BY <3>6 DEF Confirmed, n
      <4>2. PICK d \in ConfirmationIds :
              Applied(d, p) /\ confirmations[d].received_at <= created_at[p][u]
        BY <4>1 DEF Confirmed, n
      <4>3. confirmations'[d].received_at <= stamp
        BY <1>3, <1>4, <4>1, <4>2
      <4> QED
        BY <1>3, <1>4, <2>2, <4>2, <4>3
    <3> QED
      BY <3>5, <3>6
  <2> QED
    BY <1>3, <2>1, <2>2
<1>7. ASSUME NEW c \in ConfirmationIds, Applied(c, p)'
      PROVE  \E v \in 1..(n + 1) :
               PaidIn(p, v)' /\ created_at'[p][v] <= confirmations'[c].received_at
  <2>1. CASE Applied(c, p)
    <3>1. PICK v \in 1..n :
            PaidIn(p, v) /\ created_at[p][v] <= confirmations[c].received_at
      BY <2>1 DEF Confirmed, n
    <3>2. PaidIn(p, v)' /\ created_at'[p][v] <= confirmations'[c].received_at
      BY <1>3, <1>4, <2>1, <3>1 DEF PaidIn
    <3> QED
      BY <1>3, <3>1, <3>2
  <2>2. CASE ~Applied(c, p)
    <3>1. events'[p][n + 1].payment.status \in PaidStatuses
      BY <1>3, <1>5, <1>7, <2>2 DEF PaidStatuses
    <3>2. created_at'[p][n + 1] <= confirmations'[c].received_at
      BY <1>3, <1>5, <1>7, <2>2
    <3> QED
      BY <1>3, <3>1, <3>2 DEF PaidIn
  <2> QED
    BY <2>1, <2>2
<1> QED
  BY <1>3, <1>6, <1>7 DEF Confirmed

\* Only a delayed payment is confirmed.
LEMMA AppliedToDelayed ==
    ASSUME Evidence, Verdicts, Serve, NEW c \in DOMAIN confirmations',
           confirmations'[c].disposition = "applied"
    PROVE  confirmations'[c].payment_id \in KnownReferences'
<1>1. Core /\ EvidenceAgrees /\ [Next]_vars
  BY DEF Evidence, Serve
<1>2. KnownReferences \subseteq KnownReferences'
  BY <1>1, TermsStay DEF KnownReferences, SameTerms
<1>3. CASE c \in DOMAIN confirmations
  BY <1>1, <1>2, <1>3, EvidencePermanent DEF Verdicts
<1>4. CASE c \notin DOMAIN confirmations
  <2>1. EvidenceCompleted(c)
    BY <1>1, <1>4, EvidenceSteps DEF EvidenceKept, EvidenceAccepted
  <2>2. c \in DOMAIN receipts /\ confirmations'[c] = Judgement(receipts[c])
    BY <2>1 DEF EvidenceCompleted
  <2> DEFINE p == receipts[c].command.payment_reference
  <2>3. classify(receipts[c]) = "applied" /\ confirmations'[c].payment_id = p
    BY <2>2 DEF Judgement
  <2>4. p \in DOMAIN payments
    BY <2>3, Classified
  <2>5. p # None
    BY <1>1, <2>4, NoneAssumption DEF Core, TablesOK, IsTable
  <2>6. p \in KnownReferences
    BY <1>1, <2>2, <2>5 DEF EvidenceAgrees
  <2> QED
    BY <1>2, <2>3, <2>6
<1> QED
  BY <1>3, <1>4

\* There are finitely many confirmations.
LEMMA ConfirmationsStayFinite ==
    ASSUME Core, [Next]_vars, IsFiniteSet(DOMAIN confirmations)
    PROVE  IsFiniteSet(DOMAIN confirmations')
<1>1. CASE \E c : EvidenceCompleted(c)
  <2>1. PICK c : EvidenceCompleted(c)
    BY <1>1
  <2>2. \A d : d \in DOMAIN confirmations' <=> d \in DOMAIN confirmations \cup {c}
    BY <2>1, EvidenceSteps, OneCompletion
       DEF EvidenceKept, EvidenceAccepted, EvidenceCompleted
  <2>3. DOMAIN confirmations' = DOMAIN confirmations \cup {c}
    BY <2>2
  <2> QED
    BY <2>3, FS_AddElement
<1>2. CASE \A c : ~EvidenceCompleted(c)
  <2>1. \A d : d \in DOMAIN confirmations' <=> d \in DOMAIN confirmations
    BY <1>2, EvidenceSteps DEF EvidenceKept, EvidenceAccepted
  <2>2. DOMAIN confirmations' = DOMAIN confirmations
    BY <2>1
  <2> QED
    BY <2>2
<1> QED
  BY <1>1, <1>2

\* The verdicts stay what they are.
LEMMA VerdictsStep ==
    ASSUME Books, Evidence, Evidence', Verdicts, [ReconciliationNext]_allVars
    PROVE  Verdicts'
<1>1. CASE Serve
  <2>1. Core /\ [Next]_vars
    BY <1>1 DEF Evidence, Serve
  <2>2. ASSUME NEW p \in KnownReferences'
        PROVE  Confirmed(p)'
    <3>1. CASE p \notin DOMAIN payments
      BY <1>1, <2>2, <3>1, ConfirmedOpened
    <3>2. CASE p \in DOMAIN payments
      <4>1. p \in KnownReferences
        BY <2>1, <2>2, <3>2, TermsStay DEF KnownReferences, SameTerms
      <4>2. Confirmed(p)
        BY <4>1 DEF Verdicts
      <4> QED
        BY <1>1, <3>2, <4>1, <4>2, ConfirmedStays, ConfirmedChanges
    <3> QED
      BY <3>1, <3>2
  <2>3. IsFiniteSet(DOMAIN confirmations')
    BY <2>1, ConfirmationsStayFinite DEF Verdicts
  <2>4. \A c \in DOMAIN confirmations' :
          confirmations'[c].disposition = "applied" =>
              confirmations'[c].payment_id \in KnownReferences'
    BY <1>1, AppliedToDelayed
  <2> QED
    BY <2>2, <2>3, <2>4 DEF Verdicts
<1>2. CASE UNCHANGED <<vars, stampVars>>
  BY <1>2 DEF vars, storeVars, confirmationVars, stampVars, Verdicts, Confirmed, PaidIn,
              Applied, KnownReferences
<1> QED
  BY <1>1, <1>2 DEF ReconciliationNext, Consume, create_settlement_batch, Ask,
       ReadLedger, ReadEvent, ReadInbox, Read, ReadProjection, Generate, Leave, allVars

\* Evidence and verdicts are invariant.
LEMMA VerdictsInvariant == ReconciliationSpec => [](Evidence /\ Verdicts)
<1>1. ReconciliationInit => Verdicts
  <2> SUFFICES ASSUME ReconciliationInit PROVE Verdicts
    OBVIOUS
  <2>1. DOMAIN payments = {} /\ DOMAIN confirmations = {}
    BY DEF ReconciliationInit, Init, StoreInit, ConfirmationsInit
  <2> QED
    BY <2>1, FS_EmptySet DEF Verdicts, KnownReferences
<1>2. Books /\ Evidence /\ Evidence' /\ Verdicts /\ [ReconciliationNext]_allVars => Verdicts'
  BY VerdictsStep
<1> QED
  BY <1>1, <1>2, BooksInvariant, ServiceUndisturbed, EvidenceInvariant, PTL
     DEF ReconciliationSpec

\* A section counts, one for one, the payments confirmed on time and the
\* confirmations applied to them.
LEMMA SectionCounts ==
    ASSUME Books, Evidence, Verdicts, NEW cutoff \in Nat
    PROVE  LET section == confirmation_section(cutoff)
           IN  section.dispositions["applied"]
                 = section.payment_outcomes["confirmed_on_time"]
<1> DEFINE paid == {p \in {q \in KnownReferences : Through(q, cutoff)} :
                      outcome(p, cutoff) = "confirmed_on_time"}
           applied == {c \in {d \in DOMAIN confirmations :
                                confirmations[d].received_at <= cutoff} :
                         confirmations[c].disposition = "applied"}
           f == [c \in applied |-> confirmations[c].payment_id]
<1>1. ASSUME NEW c \in applied
      PROVE  /\ f[c] = confirmations[c].payment_id
             /\ f[c] \in KnownReferences /\ f[c] \in PaymentIds
             /\ c \in ConfirmationIds /\ Applied(c, f[c])
             /\ confirmations[c].received_at \in Nat
             /\ confirmations[c].received_at <= cutoff
  <2>1. f[c] = confirmations[c].payment_id /\ f[c] \in KnownReferences
    BY DEF Verdicts
  <2>2. f[c] \in PaymentIds /\ c \in ConfirmationIds
    BY <2>1 DEF KnownReferences, Evidence, Core, TablesOK, DeliveriesOK, IsTable
  <2>3. confirmations[c].received_at \in Nat
    BY ReceiptFacts DEF Evidence, EvidenceAgrees
  <2> QED
    BY <2>1, <2>2, <2>3 DEF Applied
<1>2. \A p \in KnownReferences :
        /\ p \in PaymentIds /\ p \in DOMAIN payments /\ Confirmed(p)
        /\ Len(events[p]) \in Nat /\ DOMAIN events[p] = 1..Len(events[p])
        /\ \A v \in 1..Len(events[p]) : created_at[p][v] \in Nat
  <2> SUFFICES ASSUME NEW p \in KnownReferences
               PROVE  /\ p \in PaymentIds /\ p \in DOMAIN payments /\ Confirmed(p)
                      /\ Len(events[p]) \in Nat /\ DOMAIN events[p] = 1..Len(events[p])
                      /\ \A v \in 1..Len(events[p]) : created_at[p][v] \in Nat
    OBVIOUS
  <2>1. p \in DOMAIN payments /\ Confirmed(p)
    BY DEF KnownReferences, Verdicts
  <2>2. /\ p \in PaymentIds /\ events[p] \in Seq(Event)
        /\ created_at[p] \in Seq(Nat) /\ Len(created_at[p]) = Len(events[p])
    BY <2>1, BooksShowRows DEF LastIsTheRow
  <2> QED
    BY <2>1, <2>2
<1>3. \A p \in KnownReferences :
        outcome(p, cutoff) = "confirmed_on_time" <=>
          \E v \in 1..Len(events[p]) : PaidIn(p, v) /\ created_at[p][v] <= cutoff
  <2> SUFFICES ASSUME NEW p \in KnownReferences
               PROVE  outcome(p, cutoff) = "confirmed_on_time" <=>
                        \E v \in 1..Len(events[p]) :
                          PaidIn(p, v) /\ created_at[p][v] <= cutoff
    OBVIOUS
  <2> DEFINE statuses == {events[p][v].payment.status :
                            v \in {v \in DOMAIN events[p] : created_at[p][v] <= cutoff}}
  <2>1. outcome(p, cutoff) = "confirmed_on_time" <=> statuses \cap PaidStatuses # {}
    BY DEF outcome, PaidStatuses
  <2> QED
    BY <1>2, <2>1 DEF PaidIn
<1>4. \A c \in applied : f[c] \in paid
  <2> SUFFICES ASSUME NEW c \in applied PROVE f[c] \in paid
    OBVIOUS
  <2> DEFINE p == f[c]
  <2>1. /\ p \in KnownReferences /\ p \in PaymentIds /\ c \in ConfirmationIds
        /\ Applied(c, p) /\ confirmations[c].received_at \in Nat
        /\ confirmations[c].received_at <= cutoff
    BY <1>1
  <2> HIDE DEF p, f, applied, paid
  <2>2. PICK v \in 1..Len(events[p]) :
          PaidIn(p, v) /\ created_at[p][v] <= confirmations[c].received_at
    BY <1>2, <2>1 DEF Confirmed
  <2>3. created_at[p][v] <= cutoff
    BY <1>2, <2>1, <2>2
  <2>4. outcome(p, cutoff) = "confirmed_on_time"
    BY <1>3, <2>1, <2>2, <2>3
  <2>5. Through(p, cutoff)
    <3>1. /\ c \in DOMAIN confirmations /\ c \in DOMAIN receipts
          /\ receipts[c].received_at = confirmations[c].received_at
      BY <2>1 DEF Applied, Evidence, EvidenceAgrees
    <3>2. receipts[c].command.payment_reference = p
      BY <2>1 DEF Evidence, AppliedExactlyOnce, Honourable
    <3>3. created_at[p][1] <= receipts[c].received_at
      BY <2>1, <3>1, <3>2, NoneAssumption DEF Books, Times, ReceivedAfterOpening
    <3>4. created_at[p][1] \in Nat
      BY <1>2, <2>1, <2>2
    <3> QED
      BY <1>2, <2>1, <3>1, <3>3, <3>4 DEF Through
  <2> QED
    BY <2>1, <2>4, <2>5 DEF p, paid
<1>5. \A c, d \in applied : f[c] = f[d] => c = d
  BY <1>1 DEF Evidence, AppliedExactlyOnce
<1>6. \A p \in paid : \E c \in applied : f[c] = p
  <2> SUFFICES ASSUME NEW p \in paid PROVE \E c \in applied : f[c] = p
    OBVIOUS
  <2>1. p \in KnownReferences /\ outcome(p, cutoff) = "confirmed_on_time"
    OBVIOUS
  <2>2. PICK v \in 1..Len(events[p]) : PaidIn(p, v) /\ created_at[p][v] <= cutoff
    BY <1>3, <2>1
  <2>3. PICK c \in ConfirmationIds :
          Applied(c, p) /\ confirmations[c].received_at <= created_at[p][v]
    BY <1>2, <2>1, <2>2 DEF Confirmed
  <2>4. /\ c \in DOMAIN confirmations /\ confirmations[c].disposition = "applied"
        /\ confirmations[c].payment_id = p
    BY <2>3 DEF Applied
  <2>5. confirmations[c].received_at \in Nat
    BY <2>4, ReceiptFacts DEF Evidence, EvidenceAgrees
  <2>6. confirmations[c].received_at <= cutoff
    BY <1>2, <2>1, <2>2, <2>3, <2>5
  <2> QED
    BY <2>4, <2>6
<1>7. IsFiniteSet(applied)
  BY FS_Subset DEF Verdicts
<1>8. f \in Bijection(applied, paid)
  <2>1. f \in [applied -> paid]
    BY <1>4
  <2> HIDE DEF f, applied, paid
  <2> QED
    BY <1>5, <1>6, <2>1 DEF Bijection, Injection, Surjection, IsInjective
<1>9. Cardinality(applied) = Cardinality(paid)
  <2> HIDE DEF f, applied, paid
  <2> QED
    BY <1>7, <1>8, FS_Bijection DEF ExistsBijection
<1>10. "applied" \in Dispositions /\ "confirmed_on_time" \in Outcomes
  BY DEF Dispositions, Outcomes
<1>11. /\ confirmation_section(cutoff).dispositions["applied"] = Cardinality(applied)
       /\ confirmation_section(cutoff).payment_outcomes["confirmed_on_time"]
            = Cardinality(paid)
  BY <1>10 DEF confirmation_section
<1> QED
  BY <1>9, <1>11

\* A saved section counts as many payments confirmed on time as confirmations
\* applied, whatever happened between the cutoff and the generation.
THEOREM SectionsAgree == ReconciliationSpec => []SectionAgrees
<1> DEFINE Agrees(section) ==
      section.dispositions["applied"] = section.payment_outcomes["confirmed_on_time"]
<1>1. ReconciliationInit => SectionAgrees
  BY NoneAssumption DEF ReconciliationInit, SectionAgrees
<1>2. ASSUME Books, Evidence, Verdicts, Reports, SectionAgrees,
             [ReconciliationNext]_allVars
      PROVE  SectionAgrees'
  <2>1. CASE UNCHANGED sections
    BY <1>2, <2>1 DEF SectionAgrees
  <2>2. ASSUME NEW g \in Reporters, Generate(g), NEW b \in Batches, sections'[b] # None
        PROVE  Agrees(sections'[b])
    <3> DEFINE d == reports[g].batch
    <3>1. sections' = [sections EXCEPT ![d] = Saved(d)] /\ reports[g] # None
      BY <2>2 DEF Generate
    <3>2. CASE b # d
      <4>1. sections'[b] = sections[b]
        BY <3>1, <3>2
      <4> QED
        BY <1>2, <2>2, <4>1 DEF SectionAgrees
    <3>3. CASE b = d
      <4>1. sections'[b] = Saved(b)
        BY <1>2, <3>1, <3>3 DEF Reports
      <4>2. CASE sections[b] # None
        BY <1>2, <4>1, <4>2 DEF Saved, SectionAgrees
      <4>3. CASE sections[b] = None
        <5>1. batches[b].cutoff \in Nat
          BY <1>2, <3>1, <3>3, ActiveReports DEF IsBatch
        <5> QED
          BY <1>2, <4>1, <4>3, <5>1, SectionCounts DEF Saved
      <4> QED
        BY <4>2, <4>3
    <3> QED
      BY <3>2, <3>3
  <2> QED
    BY <1>2, <2>1, <2>2 DEF SectionAgrees, ReconciliationNext, Serve, Consume,
       create_settlement_batch, Ask, ReadLedger, ReadEvent, ReadInbox, Read,
       ReadProjection, Leave, reportVars, allVars
<1>3. Books /\ Evidence /\ Verdicts /\ Reports /\ SectionAgrees
      /\ [ReconciliationNext]_allVars => SectionAgrees'
  BY <1>2
<1> QED
  BY <1>1, <1>3, BooksInvariant, VerdictsInvariant, ReportsInvariant, PTL
     DEF ReconciliationSpec
=============================================================================
