------------------------ MODULE PaymentSteps_proofs ------------------------
(***************************************************************************)
(* What a step of the payment service can be, for every value of the       *)
(* constants: five kinds of steps of the database, and three things that   *)
(* can happen to one payment. The refinement of the contract, the          *)
(* permanence of records and the promises of idempotency follow.           *)
(***************************************************************************)
EXTENDS PaymentPlatform_proofs

----------------------------------------------------------------------------
(* Kinds of steps.                                                         *)

\* Nothing but sessions, queues, scheduled runs and the clock.
Quiet ==
    /\ UNCHANGED <<payments, ledger, events, receipts, idempotency, confirmations>>
    /\ now' = now \/ (now' = now + 1 /\ UNCHANGED sweeps)
    /\ \A s \in Sweepers : sweeps'[s] \in {sweeps[s], now, None}

\* A payment that an authorization opens.
Opening(row, type, entries) ==
    /\ row \in Payment /\ row.version = 1
    /\ MoneyFitsStatus(row)
    /\ \/ /\ row.status = "AUTHORIZED" /\ type = "payment.authorized"
          /\ entries = <<Entry("AUTHORIZATION", row.amount)>>
       \/ /\ row.status = "DECLINED" /\ type = "payment.declined"
          /\ entries = <<>>
       \/ /\ row.status = "AWAITING_PAYMENT"
          /\ type = "payment.confirmation_requested"
          /\ entries = <<>>

\* The moves that a client asks for. A protected payment is not among them.
ClientMove(p, row, type, entries) ==
    /\ p \in DOMAIN payments
    /\ Move(payments[p], row, entries)
    /\ \/ type = "payment.captured" /\ CanCapture(payments[p])
       \/ /\ type = "payment.cancelled" /\ CanCancel(payments[p])
          /\ row.status = "CANCELLED"
          /\ payments[p].status = "AWAITING_PAYMENT" => ~has_protecting_receipt(p)
       \/ /\ type = "payment.refunded"
          /\ payments[p].status \in {"CAPTURED", "PARTIALLY_REFUNDED"}

\* The commit of a request: one row, its entries, its event and its record.
ClientChange(r, p, row, type, entries) ==
    /\ Claims(r)
    /\ Commit(r, p, row)
    /\ Publish(Row(p, row), type)
    /\ Enter(p, entries)
    /\ UNCHANGED <<receipts, now, confirmationVars>>
    /\ \/ /\ p \notin DOMAIN payments
          /\ Opening(row, type, entries)
          /\ Delayed(row) => row.expires_at = requests[r].at + Window
       \/ ClientMove(p, row, type, entries)

Kinds ==
    \/ Quiet
    \/ \E r \in Requests, p \in PaymentIds, type \in EventTypes :
         \E row, entries : ClientChange(r, p, row, type, entries)
    \/ /\ UNCHANGED lifecycleVars
       /\ \/ \E h \in Handlers, c \in ConfirmationIds :
               \E command \in ConfirmationCommand :
                 /\ command.payment_reference \in KnownReferences \cup {None}
                 /\ AcceptNew(h, c, command)
          \/ \E w \in Workers, c \in ConfirmationIds : Complete(w, c)
          \/ \E s \in Sweepers : Expire(s)

\* An operation that a request applies to its loaded row commits a move of the
\* current one.
LEMMA AppliedChange ==
    ASSUME NEW r, NEW p, p = requests[r].command.payment_id, Claims(r),
           NEW next, NEW entries, NEW type,
           Apply(r, next, entries, type), UNCHANGED confirmationVars,
           ClientMove(p, Bumped(next), type, entries)
    PROVE  \E row : ClientChange(r, p, row, type, entries)
<1>1. ClientChange(r, p, Bumped(next), type, entries)
  BY DEF ClientChange, Apply
<1> QED
  BY <1>1

\* Capture, on a copy however old, is a capture of the current row.
LEMMA CaptureKind ==
    ASSUME Core, NEW r \in Requests, Capture(r), UNCHANGED confirmationVars
    PROVE  Kinds
<1> DEFINE p == requests[r].command.payment_id
           next == capture(Loaded(r))
           entries == <<Entry("CAPTURE",
                              next.captured_amount - Loaded(r).captured_amount)>>
<1>1. /\ Claims(r) /\ requests[r] # None /\ p \in DOMAIN payments
      /\ CanCapture(Loaded(r)) /\ Apply(r, next, entries, "payment.captured")
  BY DEF Capture, Finds, Claims
<1>2. Loaded(r) = payments[p]
  BY <1>1, LoadedIsCurrent DEF Apply
<1>3. Move(Loaded(r), Bumped(next), entries)
  BY <1>1 DEF Move
<1> HIDE DEF next, entries
<1>4. ClientMove(p, Bumped(next), "payment.captured", entries)
  BY <1>1, <1>2, <1>3 DEF ClientMove
<1>5. p \in PaymentIds /\ "payment.captured" \in EventTypes
  BY <1>1 DEF Core, TablesOK, IsTable, EventTypes
<1>6. \E row : ClientChange(r, p, row, "payment.captured", entries)
  BY <1>1, <1>4, AppliedChange
<1> QED
  BY <1>5, <1>6 DEF Kinds

\* Cancellation is a cancellation of the current row, which nothing protects.
LEMMA CancelKind ==
    ASSUME Core, NEW r \in Requests, Cancel(r), UNCHANGED confirmationVars
    PROVE  Kinds
<1> DEFINE p == requests[r].command.payment_id
           next == cancel(Loaded(r))
           entries == IF Loaded(r).status = "AWAITING_PAYMENT" THEN <<>>
                      ELSE <<Entry("CANCEL", Loaded(r).authorized_amount)>>
<1>1. /\ Claims(r) /\ requests[r] # None /\ p \in DOMAIN payments
      /\ CanCancel(Loaded(r)) /\ Apply(r, next, entries, "payment.cancelled")
      /\ Loaded(r).status = "AWAITING_PAYMENT" => ~has_protecting_receipt(p)
  BY DEF Cancel, Cancellable, Finds, Claims
<1>2. Loaded(r) = payments[p]
  BY <1>1, LoadedIsCurrent DEF Apply
<1>3. Move(Loaded(r), Bumped(next), entries)
  BY <1>1 DEF Move
<1>4. Bumped(next).status = "CANCELLED"
  <2>1. payments[p] \in Payment
    BY <1>1 DEF Core, TablesOK, IsTable
  <2>2. next \in Payment /\ next.status = "CANCELLED"
    BY <1>2, <2>1, CancelRow
  <2> HIDE DEF next
  <2> QED
    BY <2>2, BumpedRow
<1> HIDE DEF next, entries
<1>5. ClientMove(p, Bumped(next), "payment.cancelled", entries)
  BY <1>1, <1>2, <1>3, <1>4 DEF ClientMove
<1>6. p \in PaymentIds /\ "payment.cancelled" \in EventTypes
  BY <1>1 DEF Core, TablesOK, IsTable, EventTypes
<1>7. \E row : ClientChange(r, p, row, "payment.cancelled", entries)
  BY <1>1, <1>5, AppliedChange
<1> QED
  BY <1>6, <1>7 DEF Kinds

\* A refund is counted against the current row.
LEMMA RefundKind ==
    ASSUME Core, NEW r \in Requests, Refund(r), UNCHANGED confirmationVars
    PROVE  Kinds
<1> DEFINE p == requests[r].command.payment_id
           amount == requests[r].command.amount
           next == refund(Loaded(r), amount)
           entries == <<Entry("REFUND", amount)>>
<1>1. /\ Claims(r) /\ requests[r] # None /\ p \in DOMAIN payments
      /\ requests[r].command.operation = "REFUND"
      /\ CanRefund(Loaded(r), amount) /\ Apply(r, next, entries, "payment.refunded")
  BY DEF Refund, Finds, Claims
<1>2. Loaded(r) = payments[p]
  BY <1>1, LoadedIsCurrent DEF Apply
<1>3. amount \in Amounts
  BY <1>1, InProgress DEF Core, Command, AuthorizationCommand, LifecycleCommand
<1>4. Move(Loaded(r), Bumped(next), entries)
  BY <1>1, <1>3 DEF Move
<1>5. payments[p].status \in {"CAPTURED", "PARTIALLY_REFUNDED"}
  BY <1>1, <1>2 DEF CanRefund
<1> HIDE DEF next, entries
<1>6. ClientMove(p, Bumped(next), "payment.refunded", entries)
  BY <1>1, <1>2, <1>4, <1>5 DEF ClientMove
<1>7. p \in PaymentIds /\ "payment.refunded" \in EventTypes
  BY <1>1 DEF Core, TablesOK, IsTable, EventTypes
<1>8. \E row : ClientChange(r, p, row, "payment.refunded", entries)
  BY <1>1, <1>6, AppliedChange
<1> QED
  BY <1>7, <1>8 DEF Kinds

\* An authorization opens a payment, in one of the three states.
LEMMA AuthorizeKind ==
    ASSUME Core, NEW r \in Requests, NEW p \in PaymentIds, Authorize(r, p),
           UNCHANGED confirmationVars
    PROVE  Kinds
<1> DEFINE command == requests[r].command
           delayed == command.token = "AWAIT_CONFIRMATION"
           authorized == IF delayed THEN 0
                         ELSE authorize_amount(command.amount, command.token)
           status == IF delayed THEN "AWAITING_PAYMENT"
                     ELSE authorize_status(command.token)
           expires_at == IF delayed THEN requests[r].at + Window ELSE None
           flow == IF delayed THEN "ASYNCHRONOUS_CONFIRMATION" ELSE "SYNCHRONOUS"
           row == [status |-> status, payment_flow |-> flow,
                   amount |-> command.amount, currency |-> command.currency,
                   expires_at |-> expires_at,
                   authorized_amount |-> authorized, captured_amount |-> 0,
                   refunded_amount |-> 0, version |-> 1]
           type == IF delayed THEN "payment.confirmation_requested"
                   ELSE IF status = "AUTHORIZED" THEN "payment.authorized"
                   ELSE "payment.declined"
           entries == IF authorized > 0 THEN <<Entry("AUTHORIZATION", authorized)>>
                      ELSE <<>>
<1>1. /\ Claims(r) /\ requests[r] # None /\ command.operation = "AUTHORIZE"
      /\ p \in PaymentIds \ DOMAIN payments
      /\ Publish(Row(p, row), type)
      /\ Enter(p, entries)
      /\ Commit(r, p, row)
      /\ UNCHANGED <<receipts, now>>
  BY DEF Authorize, Claims
<1>2. /\ command.amount \in Nat \ {0} /\ command.amount \in Amounts
      /\ command.currency \in Currencies /\ requests[r].at \in Nat
  BY <1>1, InProgress, AmountsAssumption
     DEF Core, Command, AuthorizationCommand, LifecycleCommand
<1>3. /\ authorized \in {0, command.amount}
      /\ authorized = IF status = "AUTHORIZED" THEN command.amount ELSE 0
      /\ status \in {"AUTHORIZED", "DECLINED", "AWAITING_PAYMENT"}
      /\ status = "AWAITING_PAYMENT" <=> delayed
  BY <1>2 DEF authorize_amount, authorize_status
<1>4. expires_at \in Nat \cup {None} /\ flow \in Flows /\ type \in EventTypes
  BY <1>2, WindowAssumption DEF Flows, EventTypes
<1>5. delayed <=> expires_at # None
  BY <1>2, WindowAssumption, NoneAssumption
<1>6. delayed <=> flow = "ASYNCHRONOUS_CONFIRMATION"
  OBVIOUS
<1>7. \/ /\ status = "AUTHORIZED" /\ type = "payment.authorized"
         /\ entries = <<Entry("AUTHORIZATION", command.amount)>>
      \/ status = "DECLINED" /\ type = "payment.declined" /\ entries = <<>>
      \/ /\ status = "AWAITING_PAYMENT" /\ entries = <<>>
         /\ type = "payment.confirmation_requested"
  <2> HIDE DEF authorized, status, delayed, command
  <2>1. status = "AUTHORIZED" => authorized > 0 /\ authorized = command.amount
    BY <1>2, <1>3
  <2>2. status # "AUTHORIZED" => authorized = 0
    BY <1>3
  <2> QED
    BY <1>3, <2>1, <2>2
<1> HIDE DEF authorized, status, expires_at, flow, type, entries, delayed, command
<1>8. status \in Statuses
  BY <1>3 DEF Statuses
<1>9. row \in Payment
  BY <1>2, <1>3, <1>4, <1>8 DEF Payment
<1>10. /\ row.status = status /\ row.amount = command.amount
       /\ Balances(row, authorized, 0, 0) /\ row.version = 1
       /\ row.expires_at = expires_at /\ row.payment_flow = flow
  BY DEF Balances
<1> HIDE DEF row
<1>11. MoneyFitsStatus(row)
  <2>1. Delayed(row) <=> status = "AWAITING_PAYMENT"
    BY <1>3, <1>6, <1>10 DEF Delayed
  <2>2. Delayed(row) <=> row.expires_at # None
    BY <1>3, <1>5, <1>10, <2>1
  <2> QED
    BY <1>3, <1>10, <2>1, <2>2 DEF MoneyFitsStatus, Balances
<1>12. Opening(row, type, entries)
  BY <1>7, <1>9, <1>10, <1>11 DEF Opening
<1>13. Delayed(row) => row.expires_at = requests[r].at + Window
  <2>1. delayed => expires_at = requests[r].at + Window
    BY DEF expires_at
  <2> QED
    BY <1>6, <1>10, <2>1 DEF Delayed
<1>14. ClientChange(r, p, row, type, entries)
  BY <1>1, <1>12, <1>13 DEF ClientChange
<1> QED
  BY <1>4, <1>14 DEF Kinds

\* Arrivals, replays, refusals and interruptions touch sessions only.
LEMMA SessionKind ==
    ASSUME UNCHANGED <<storeVars, idempotency, confirmationVars>>
    PROVE  Kinds
<1>1. Quiet
  BY DEF Quiet, storeVars, confirmationVars
<1> QED
  BY <1>1 DEF Kinds

\* Every step of a lifecycle request is of one of the kinds.
LEMMA LifecycleKinds ==
    ASSUME Core, LifecycleNext, UNCHANGED confirmationVars
    PROVE  Kinds
<1>1. PICK r \in Requests :
        \/ \E command \in Command, key \in Keys :
             /\ Sendable(command)
             /\ \E copy \in SessionCopies(command) :
                  Arrive(r, command, key, copy)
        \/ Perform(r)
        \/ Interrupt(r)
  BY DEF LifecycleNext
<1>2. CASE \/ \E command \in Command, key \in Keys :
                \E copy \in SessionCopies(command) : Arrive(r, command, key, copy)
           \/ ReplayConcurrent(r) \/ Refuse(r) \/ Interrupt(r)
  <2>1. UNCHANGED <<storeVars, idempotency>>
    BY <1>2 DEF Arrive, ReplayConcurrent, Refuse, Interrupt
  <2> QED
    BY <2>1, SessionKind
<1>3. CASE \E p \in PaymentIds : Authorize(r, p)
  BY <1>3, AuthorizeKind
<1>4. CASE Capture(r) \/ Cancel(r) \/ Refund(r)
  BY <1>4, CaptureKind, CancelKind, RefundKind
<1> QED
  BY <1>1, <1>2, <1>3, <1>4 DEF Perform

\* So is every step of a delivery, a recovery run or an expiry run.
LEMMA DeliveryKinds ==
    ASSUME Core, ConfirmationsNext, UNCHANGED lifecycleVars
    PROVE  Kinds
<1>1. CASE \E w \in Workers, c \in ConfirmationIds : Complete(w, c)
  BY <1>1 DEF Kinds
<1>2. CASE \E h \in Handlers, c \in ConfirmationIds, command \in ConfirmationCommand :
             /\ command.payment_reference \in KnownReferences \cup {None}
             /\ AcceptNew(h, c, command)
  BY <1>2 DEF Kinds
<1>3. CASE \E s \in Sweepers : Expire(s)
  BY <1>3 DEF Kinds
<1>4. CASE UNCHANGED <<storeVars, confirmations, sweeps>>
  <2>1. Quiet
    BY <1>4 DEF Quiet, storeVars, lifecycleVars
  <2> QED
    BY <2>1 DEF Kinds
<1>5. CASE \E s \in Sweepers : ScheduleExpiry(s) \/ AbandonExpiry(s)
  <2>1. Quiet
    BY <1>5 DEF Quiet, storeVars, lifecycleVars, ScheduleExpiry, AbandonExpiry,
                Core, DeliveriesOK
  <2> QED
    BY <2>1 DEF Kinds
<1> QED
  BY <1>1, <1>2, <1>3, <1>4, <1>5
     DEF ConfirmationsNext, AcceptAgain, CompleteAgain, Give_up, Recover

\* So is every step, and every stutter.
LEMMA StepKinds ==
    ASSUME Core, [Next]_vars
    PROVE  Kinds
<1>1. CASE Tick \/ UNCHANGED vars
  <2>1. Quiet
    BY <1>1 DEF Quiet, Tick, vars, storeVars, lifecycleVars, confirmationVars
  <2> QED
    BY <2>1 DEF Kinds
<1> QED
  BY <1>1, LifecycleKinds, DeliveryKinds DEF Next

----------------------------------------------------------------------------
(* What a step does to one payment.                                        *)

SameAt(p) ==
    /\ p \in DOMAIN payments' <=> p \in DOMAIN payments
    /\ p \in DOMAIN payments => payments'[p] = payments[p]
    /\ events'[p] = events[p]
    /\ ledger'[p] = ledger[p]

WrittenAt(p, row, type, entries) ==
    /\ p \in DOMAIN payments'
    /\ payments'[p] = row
    /\ events'[p] = Append(events[p], [type |-> type, payment |-> row])
    /\ ledger'[p] = ledger[p] \o entries

OpenedAt(p) ==
    /\ p \notin DOMAIN payments
    /\ \E row, entries : \E type \in EventTypes :
         Opening(row, type, entries) /\ WrittenAt(p, row, type, entries)

MovedAt(p) ==
    /\ p \in DOMAIN payments
    /\ \E row, entries : \E type \in EventTypes :
         Move(payments[p], row, entries) /\ WrittenAt(p, row, type, entries)

\* Publishing changes the rows it is given and no others.
LEMMA Published ==
    ASSUME NEW rows, NEW type, Publish(rows, type), NEW p \in PaymentIds
    PROVE  /\ p \in DOMAIN rows =>
                /\ p \in DOMAIN payments' /\ payments'[p] = rows[p]
                /\ events'[p] = Append(events[p], [type |-> type, payment |-> rows[p]])
           /\ p \notin DOMAIN rows =>
                /\ p \in DOMAIN payments' <=> p \in DOMAIN payments
                /\ p \in DOMAIN payments => payments'[p] = payments[p]
                /\ events'[p] = events[p]
BY DEF Publish, Put

\* One row with its entries.
LEMMA PublishedOne ==
    ASSUME ledger \in [PaymentIds -> Seq(LedgerEntry)],
           NEW p \in PaymentIds, NEW row, NEW type, NEW entries,
           Publish(Row(p, row), type), Enter(p, entries), NEW q \in PaymentIds
    PROVE  /\ q = p => WrittenAt(q, row, type, entries)
           /\ q # p => SameAt(q)
<1> DEFINE rows == Row(p, row)
<1>1. DOMAIN rows = {p} /\ rows[p] = row
  BY DEF Row
<1>2. Publish(rows, type)
  OBVIOUS
<1> HIDE DEF rows
<1>3. ledger'[q] = IF q = p THEN ledger[q] \o entries ELSE ledger[q]
  BY DEF Enter
<1>4. CASE q = p
  <2>1. /\ q \in DOMAIN payments' /\ payments'[q] = row
        /\ events'[q] = Append(events[q], [type |-> type, payment |-> row])
    BY <1>1, <1>2, <1>4, Published
  <2> QED
    BY <1>3, <1>4, <2>1 DEF WrittenAt
<1>5. CASE q # p
  <2>1. /\ q \in DOMAIN payments' <=> q \in DOMAIN payments
        /\ q \in DOMAIN payments => payments'[q] = payments[q]
        /\ events'[q] = events[q]
    BY <1>1, <1>2, <1>5, Published
  <2> QED
    BY <1>3, <1>5, <2>1 DEF SameAt
<1> QED
  BY <1>4, <1>5

\* An expiry moves a payment without an entry.
LEMMA ExpiryIsMove ==
    ASSUME TablesOK, NEW p \in DOMAIN payments, CanExpire(payments[p]),
           NEW rows, Publish(rows, "payment.expired"), UNCHANGED ledger,
           p \in DOMAIN rows, rows[p] = Bumped(expire(payments[p]))
    PROVE  MovedAt(p)
<1> DEFINE row == Bumped(expire(payments[p]))
<1>1. Move(payments[p], row, <<>>)
  BY DEF Move
<1>2. rows[p] = row
  OBVIOUS
<1> HIDE DEF row
<1>3. p \in PaymentIds /\ ledger[p] \in Seq(LedgerEntry)
  BY DEF TablesOK, IsTable
<1>4. ledger'[p] = ledger[p] \o <<>>
  BY <1>3
<1>5. WrittenAt(p, row, "payment.expired", <<>>) /\ "payment.expired" \in EventTypes
  BY <1>2, <1>3, <1>4, Published DEF WrittenAt, EventTypes
<1> QED
  BY <1>1, <1>5 DEF MovedAt

\* A completion moves the payment it names, or none.
LEMMA CompletionChanges ==
    ASSUME Core, NEW receipt \in Receipt, NEW q \in PaymentIds,
           ApplyDisposition(receipt, classify(receipt))
    PROVE  SameAt(q) \/ MovedAt(q)
<1> DEFINE p == receipt.command.payment_reference
           amount == receipt.command.amount
           disposition == classify(receipt)
<1>1. CASE disposition = "applied"
  <2> DEFINE row == Bumped(capture_confirmation(payments[p], amount))
             entries == <<Entry("CONFIRMATION_CAPTURE", amount)>>
  <2>1. /\ CanCaptureConfirmation(payments[p], amount)
        /\ Publish(Row(p, row), "payment.captured") /\ Enter(p, entries)
    BY <1>1 DEF ApplyDisposition
  <2>2. /\ p \in DOMAIN payments /\ payments[p].status = "AWAITING_PAYMENT"
        /\ amount = payments[p].amount
    BY <1>1, Classified DEF Matches
  <2>3. Move(payments[p], row, entries)
    BY <2>1, <2>2 DEF Move
  <2>4. p \in PaymentIds /\ ledger \in [PaymentIds -> Seq(LedgerEntry)]
    BY <2>2 DEF Core, TablesOK, IsTable
  <2>5. "payment.captured" \in EventTypes
    BY DEF EventTypes
  <2> HIDE DEF row, entries, p
  <2>6. /\ q = p => WrittenAt(q, row, "payment.captured", entries)
        /\ q # p => SameAt(q)
    BY <2>1, <2>4, PublishedOne
  <2> QED
    BY <2>2, <2>3, <2>5, <2>6 DEF MovedAt
<1>2. CASE /\ disposition = "late"
           /\ payments[p].status = "AWAITING_PAYMENT"
           /\ ~has_protecting_receipt(p)
  <2> DEFINE row == Bumped(expire(payments[p]))
             rows == Row(p, row)
  <2>1. /\ CanExpire(payments[p])
        /\ Publish(rows, "payment.expired") /\ UNCHANGED ledger
    BY <1>2 DEF ApplyDisposition
  <2>2. p \in DOMAIN payments /\ CanExpire(payments[p])
    BY <1>2, <2>1, Classified
  <2>3. DOMAIN rows = {p} /\ rows[p] = Bumped(expire(payments[p]))
    BY DEF Row
  <2> HIDE DEF rows
  <2>4. MovedAt(p)
    BY <2>1, <2>2, <2>3, ExpiryIsMove DEF Core
  <2>5. q # p => SameAt(q)
    BY <2>1, <2>3, Published DEF SameAt
  <2> QED
    BY <2>4, <2>5
<1>3. CASE /\ disposition # "applied"
           /\ ~ /\ disposition = "late"
                /\ payments[p].status = "AWAITING_PAYMENT"
                /\ ~has_protecting_receipt(p)
  BY <1>3 DEF ApplyDisposition, SameAt
<1> QED
  BY <1>1, <1>2, <1>3

\* An expiry run moves every payment of its batch.
LEMMA ExpiryChanges ==
    ASSUME Core, NEW s \in Sweepers, Expire(s), NEW q \in PaymentIds
    PROVE  SameAt(q) \/ MovedAt(q)
<1>1. PICK due \in First(Due(sweeps[s]),
                         [p \in Due(sweeps[s]) |-> payments[p].expires_at],
                         ExpiryLimit) :
        /\ \A p \in due : CanExpire(payments[p])
        /\ Publish([p \in due |-> Bumped(expire(payments[p]))], "payment.expired")
  BY DEF Expire
<1>2. due \subseteq DOMAIN payments /\ \A p \in due : CanExpire(payments[p])
  BY <1>1, FirstOf DEF Due
<1> DEFINE rows == [p \in due |-> Bumped(expire(payments[p]))]
<1>3. /\ Publish(rows, "payment.expired") /\ UNCHANGED ledger
      /\ DOMAIN rows = due
      /\ \A p \in due : rows[p] = Bumped(expire(payments[p]))
  BY <1>1 DEF Expire
<1> HIDE DEF rows
<1>4. CASE q \in due
  BY <1>2, <1>3, <1>4, ExpiryIsMove DEF Core
<1>5. CASE q \notin due
  BY <1>3, <1>5, Published DEF SameAt
<1> QED
  BY <1>4, <1>5

\* Every step leaves a payment as it is, opens it or moves it once, with the
\* event and the ledger entries that belong to the change.
LEMMA Changes ==
    ASSUME Core, [Next]_vars, NEW q \in PaymentIds
    PROVE  SameAt(q) \/ OpenedAt(q) \/ MovedAt(q)
<1>1. CASE Quiet
  BY <1>1 DEF Quiet, SameAt
<1>2. ASSUME NEW r \in Requests, NEW p \in PaymentIds, NEW type \in EventTypes,
             NEW row, NEW entries, ClientChange(r, p, row, type, entries)
      PROVE  SameAt(q) \/ OpenedAt(q) \/ MovedAt(q)
  <2>1. /\ q = p => WrittenAt(q, row, type, entries)
        /\ q # p => SameAt(q)
    BY <1>2, PublishedOne DEF ClientChange, Core, TablesOK
  <2> QED
    BY <1>2, <2>1 DEF ClientChange, ClientMove, OpenedAt, MovedAt
<1>3. CASE \E h \in Handlers, c \in ConfirmationIds :
             \E command \in ConfirmationCommand : AcceptNew(h, c, command)
  BY <1>3 DEF AcceptNew, SameAt
<1>4. ASSUME NEW w \in Workers, NEW c \in ConfirmationIds, Complete(w, c)
      PROVE  SameAt(q) \/ MovedAt(q)
  <2>1. receipts[c] \in Receipt
    BY <1>4 DEF Complete, Next_in_line, Core, DeliveriesOK, IsTable
  <2> QED
    BY <1>4, <2>1, CompletionChanges DEF Complete
<1>5. CASE \E s \in Sweepers : Expire(s)
  BY <1>5, ExpiryChanges
<1> QED
  BY <1>1, <1>2, <1>3, <1>4, <1>5, StepKinds DEF Kinds

----------------------------------------------------------------------------
(* The refinement of the contract.                                         *)

\* What the contract sees of a payment.
Account(p) == IF p \in DOMAIN payments THEN View(payments[p]) ELSE None

Announced(p) == [v \in DOMAIN events[p] |-> View(events[p][v].payment)]

\* Appending, point by point.
LEMMA AppendIs ==
    ASSUME NEW S, NEW s \in Seq(S), NEW x \in S
    PROVE  Append(s, x) = [v \in 1..(Len(s) + 1) |->
                             IF v = Len(s) + 1 THEN x ELSE s[v]]
<1> DEFINE t == Append(s, x)
<1>1. t \in Seq(S) /\ Len(t) = Len(s) + 1
  OBVIOUS
<1>2. t[Len(s) + 1] = x /\ \A v \in 1..Len(s) : t[v] = s[v]
  OBVIOUS
<1>3. Len(s) \in Nat
  OBVIOUS
<1> HIDE DEF t
<1>4. t = [v \in 1..Len(t) |-> t[v]]
  BY <1>1
<1>5. \A v \in 1..(Len(s) + 1) : t[v] = IF v = Len(s) + 1 THEN x ELSE s[v]
  BY <1>2, <1>3
<1> QED
  BY <1>1, <1>4, <1>5 DEF t

\* One event more is one state more announced.
LEMMA AnnouncedMore ==
    ASSUME NEW s \in Seq(Event), NEW e \in Event
    PROVE  [v \in DOMAIN Append(s, e) |-> View(Append(s, e)[v].payment)]
             = Append([v \in DOMAIN s |-> View(s[v].payment)], View(e.payment))
<1> DEFINE n == Len(s)
           t == [v \in 1..n |-> View(s[v].payment)]
           Views == {View(row) : row \in Payment}
           x == View(e.payment)
<1>1. n \in Nat /\ DOMAIN s = 1..n /\ \A v \in 1..n : s[v] \in Event
  OBVIOUS
<1>2. \A f \in Event : View(f.payment) \in Views
  BY DEF Event
<1>3. x \in Views /\ \A v \in 1..n : View(s[v].payment) \in Views
  BY <1>1, <1>2
<1> HIDE DEF Views
<1>4. t \in Seq(Views) /\ Len(t) = n
  BY <1>1, <1>3
<1>5. Append(s, e) = [v \in 1..(n + 1) |-> IF v = n + 1 THEN e ELSE s[v]]
  BY AppendIs
<1>6. [v \in DOMAIN Append(s, e) |-> View(Append(s, e)[v].payment)]
        = [v \in 1..(n + 1) |-> IF v = n + 1 THEN x ELSE View(s[v].payment)]
  BY <1>5
<1>7. \A v \in 1..(n + 1) : v # n + 1 => v \in 1..n
  BY <1>1
<1>8. \A v \in 1..(n + 1) :
         (IF v = n + 1 THEN x ELSE View(s[v].payment))
            = IF v = n + 1 THEN x ELSE t[v]
  BY <1>7
<1>9. [v \in 1..(n + 1) |-> IF v = n + 1 THEN x ELSE View(s[v].payment)]
        = [v \in 1..(n + 1) |-> IF v = n + 1 THEN x ELSE t[v]]
  BY <1>8
<1> HIDE DEF t, x
<1>10. Append(t, x) = [v \in 1..(n + 1) |-> IF v = n + 1 THEN x ELSE t[v]]
  BY <1>3, <1>4, AppendIs
<1> QED
  BY <1>1, <1>6, <1>9, <1>10 DEF t, x

\* The contract's Becomes, in the terms of the service.
LEMMA BecomesMeans ==
    ASSUME Core, NEW p \in PaymentIds, NEW row \in Payment, NEW type \in EventTypes,
           NEW entries, WrittenAt(p, row, type, entries)
    PROVE  Contract!Becomes(p, View(row), entries)
<1> DEFINE e == [type |-> type, payment |-> row]
<1>1. e \in Event /\ e.payment = row /\ events'[p] = Append(events[p], e)
  BY DEF Event, WrittenAt
<1>2. events[p] \in Seq(Event)
  BY DEF Core, TablesOK
<1> HIDE DEF e
<1>3. Announced(p)' = Append(Announced(p), View(row))
  BY <1>1, <1>2, AnnouncedMore DEF Announced
<1>4. Account(p)' = View(row)
  BY DEF Account, WrittenAt
<1>5. ledger'[p] = ledger[p] \o entries
  BY DEF WrittenAt
<1> QED
  BY <1>3, <1>4, <1>5 DEF Contract!Becomes, Account, Announced

\* A view is a state of the contract.
LEMMA ViewIsState ==
    ASSUME NEW row
    PROVE  View(row) = Contract!State(row.status, row.amount, row.authorized_amount,
                                      row.captured_amount, row.refunded_amount)
BY DEF View, Contract!State

\* What the contract sees of a row whose balances are known.
LEMMA ViewOf ==
    ASSUME NEW row, NEW status, NEW a, NEW authorized, NEW captured, NEW refunded,
           row.status = status, row.amount = a,
           Balances(row, authorized, captured, refunded)
    PROVE  View(row) = Contract!State(status, a, authorized, captured, refunded)
BY DEF View, Contract!State, Balances

\* An entry is a movement.
LEMMA EntryIsMovement ==
    ASSUME NEW operation, NEW amount
    PROVE  Entry(operation, amount) = Contract!Movement(operation, amount)
BY DEF Entry, Contract!Movement

\* A capture or a cancellation of a held payment settles it.
LEMMA SettlingMove ==
    ASSUME NEW p \in PaymentIds, NEW a \in Amounts,
           Account(p) = Contract!State("AUTHORIZED", a, a, 0, 0),
           \/ Contract!Becomes(p, Contract!State("CAPTURED", a, a, a, 0),
                               <<Entry("CAPTURE", a)>>)
           \/ Contract!Becomes(p, Contract!State("CANCELLED", a, a, 0, 0),
                               <<Entry("CANCEL", a)>>)
    PROVE  Contract!Settles(p)
BY EntryIsMovement DEF Contract!Settles, Account

\* A confirmation, a cancellation or an expiry of an awaiting one resolves it.
LEMMA ResolvingMove ==
    ASSUME NEW p \in PaymentIds, NEW a \in Amounts,
           Account(p) = Contract!State("AWAITING_PAYMENT", a, 0, 0, 0),
           \/ Contract!Becomes(p, Contract!State("CAPTURED", a, a, a, 0),
                               <<Entry("CONFIRMATION_CAPTURE", a)>>)
           \/ Contract!Becomes(p, Contract!State("CANCELLED", a, 0, 0, 0), <<>>)
           \/ Contract!Becomes(p, Contract!State("EXPIRED", a, 0, 0, 0), <<>>)
    PROVE  Contract!Resolves(p)
BY EntryIsMovement DEF Contract!Resolves, Account

\* A refund within what is left is a refund of the contract.
LEMMA RefundingMove ==
    ASSUME NEW p \in PaymentIds, NEW a \in Amounts, NEW back \in Amounts,
           NEW status \in {"CAPTURED", "PARTIALLY_REFUNDED"},
           NEW given \in 0..(a - 1), given + back <= a,
           Account(p) = Contract!State(status, a, a, a, given),
           Contract!Becomes(p, Contract!State(IF given + back = a THEN "REFUNDED"
                                              ELSE "PARTIALLY_REFUNDED",
                                              a, a, a, given + back),
                            <<Entry("REFUND", back)>>)
    PROVE  Contract!Refunds(p)
BY EntryIsMovement DEF Contract!Refunds, Account

\* Every move of a row is a move of the contract.
LEMMA MovedMeans ==
    ASSUME Core, NEW p \in PaymentIds, MovedAt(p)
    PROVE  Contract!Settles(p) \/ Contract!Resolves(p) \/ Contract!Refunds(p)
<1> DEFINE s == payments[p]
           a == s.amount
<1>1. p \in DOMAIN payments /\ s \in Payment /\ MoneyFitsStatus(s)
  BY DEF MovedAt, Core, TablesOK, IsTable, BalancesFitStatus
<1>2. PICK row, entries : \E type \in EventTypes :
        Move(s, row, entries) /\ WrittenAt(p, row, type, entries)
  BY DEF MovedAt
<1>3. PICK type \in EventTypes : WrittenAt(p, row, type, entries)
  BY <1>2
<1>4. row \in Payment /\ SameTerms(s, row) /\ MoneyFitsStatus(row)
  BY <1>1, <1>2, MoveRow
<1>5. Contract!Becomes(p, View(row), entries)
  BY <1>3, <1>4, BecomesMeans
<1>6. Account(p) = View(s)
  BY <1>1 DEF Account
<1>7. /\ a \in Amounts /\ a \in Nat \ {0} /\ row.amount = a
      /\ s.captured_amount \in Nat /\ s.refunded_amount \in Nat
  BY <1>1, <1>4, AmountsAssumption DEF Payment, SameTerms
<1> HIDE DEF s, a
<1>8. CASE /\ CanCapture(s)
           /\ row = Bumped(capture(s))
           /\ entries = <<Entry("CAPTURE",
                    capture(s).captured_amount - s.captured_amount)>>
  <2>1. s.status = "AUTHORIZED" /\ Balances(s, a, 0, 0)
    BY <1>1, <1>8 DEF CanCapture, MoneyFitsStatus, a
  <2>2. capture(s) \in Payment /\ capture(s).status = "CAPTURED"
        /\ Balances(capture(s), a, a, 0)
    BY <1>1, <2>1, CaptureRow DEF Balances
  <2>3. row.status = "CAPTURED" /\ Balances(row, a, a, 0)
    BY <1>8, <2>2, BumpedRow DEF Balances
  <2>4. entries = <<Entry("CAPTURE", a)>>
    <3>1. capture(s).captured_amount - s.captured_amount = a
      BY <1>7, <2>1, <2>2 DEF Balances
    <3> QED
      BY <1>8, <3>1
  <2>5. /\ View(s) = Contract!State("AUTHORIZED", a, a, 0, 0)
        /\ View(row) = Contract!State("CAPTURED", a, a, a, 0)
    BY <1>7, <2>1, <2>3, ViewOf DEF a
  <2> QED
    BY <1>5, <1>6, <1>7, <2>4, <2>5, SettlingMove
<1>9. CASE /\ CanCancel(s)
           /\ row = Bumped(cancel(s))
           /\ entries = IF s.status = "AWAITING_PAYMENT" THEN <<>>
                        ELSE <<Entry("CANCEL", s.authorized_amount)>>
  <2>1. cancel(s) \in Payment /\ cancel(s).status = "CANCELLED"
        /\ Balances(cancel(s), s.authorized_amount, 0, 0)
    BY <1>1, CancelRow
  <2>2. row.status = "CANCELLED" /\ Balances(row, s.authorized_amount, 0, 0)
    BY <1>9, <2>1, BumpedRow DEF Balances
  <2>3. CASE s.status = "AUTHORIZED"
    <3>1. Balances(s, a, 0, 0)
      BY <1>1, <2>3 DEF MoneyFitsStatus, a
    <3>2. entries = <<Entry("CANCEL", a)>> /\ Balances(row, a, 0, 0)
      BY <1>9, <2>2, <2>3, <3>1 DEF Balances
    <3>3. /\ View(s) = Contract!State("AUTHORIZED", a, a, 0, 0)
          /\ View(row) = Contract!State("CANCELLED", a, a, 0, 0)
      BY <1>7, <2>2, <2>3, <3>1, <3>2, ViewOf DEF a
    <3> QED
      BY <1>5, <1>6, <1>7, <3>2, <3>3, SettlingMove
  <2>4. CASE s.status = "AWAITING_PAYMENT"
    <3>1. Balances(s, 0, 0, 0)
      BY <1>1, <2>4 DEF MoneyFitsStatus
    <3>2. entries = <<>> /\ Balances(row, 0, 0, 0)
      BY <1>9, <2>2, <2>4, <3>1 DEF Balances
    <3>3. /\ View(s) = Contract!State("AWAITING_PAYMENT", a, 0, 0, 0)
          /\ View(row) = Contract!State("CANCELLED", a, 0, 0, 0)
      BY <1>7, <2>2, <2>4, <3>1, <3>2, ViewOf DEF a
    <3> QED
      BY <1>5, <1>6, <1>7, <3>2, <3>3, ResolvingMove
  <2> QED
    BY <1>9, <2>3, <2>4 DEF CanCancel
<1>10. CASE \E amount \in Amounts :
              /\ CanRefund(s, amount)
              /\ row = Bumped(refund(s, amount))
              /\ entries = <<Entry("REFUND", amount)>>
  <2>1. PICK back \in Amounts :
              /\ CanRefund(s, back)
              /\ row = Bumped(refund(s, back))
              /\ entries = <<Entry("REFUND", back)>>
    BY <1>10
  <2> DEFINE given == s.refunded_amount
             status == IF given + back = a THEN "REFUNDED" ELSE "PARTIALLY_REFUNDED"
  <2>2. back \in Nat \ {0} /\ given \in Nat
    BY <1>7, AmountsAssumption
  <2>3. /\ s.status \in {"CAPTURED", "PARTIALLY_REFUNDED"}
        /\ Balances(s, a, a, given)
    BY <1>1, <2>1 DEF CanRefund, MoneyFitsStatus, Balances, a
  <2>4. given + back <= a /\ given \in 0..(a - 1)
    BY <1>7, <2>1, <2>2, <2>3 DEF CanRefund, refundable_amount, Balances
  <2>5. refund(s, back) \in Payment /\ refund(s, back).status = status
        /\ Balances(refund(s, back), a, a, given + back)
    <3>1. /\ refund(s, back) \in Payment
          /\ refund(s, back).status =
               IF s.refunded_amount + back = s.captured_amount
               THEN "REFUNDED" ELSE "PARTIALLY_REFUNDED"
          /\ Balances(refund(s, back), s.authorized_amount,
                      s.captured_amount, s.refunded_amount + back)
      BY <1>1, <2>2, RefundRow
    <3>2. s.authorized_amount = a /\ s.captured_amount = a
      BY <2>3 DEF Balances
    <3> QED
      BY <3>1, <3>2
  <2> HIDE DEF given, status
  <2>6. row.status = status /\ Balances(row, a, a, given + back)
    BY <2>1, <2>5, BumpedRow DEF Balances
  <2>7. /\ View(s) = Contract!State(s.status, a, a, a, given)
        /\ View(row) = Contract!State(status, a, a, a, given + back)
    BY <1>7, <2>3, <2>6, ViewOf DEF a
  <2>8. Contract!Becomes(p, Contract!State(IF given + back = a THEN "REFUNDED"
                                           ELSE "PARTIALLY_REFUNDED",
                                           a, a, a, given + back),
                         <<Entry("REFUND", back)>>)
    BY <1>5, <2>1, <2>7 DEF status
  <2> QED
    BY <1>6, <1>7, <2>3, <2>4, <2>7, <2>8, RefundingMove
<1>11. CASE /\ CanCaptureConfirmation(s, s.amount)
            /\ row = Bumped(capture_confirmation(s, s.amount))
            /\ entries = <<Entry("CONFIRMATION_CAPTURE", s.amount)>>
  <2>1. s.status = "AWAITING_PAYMENT" /\ Balances(s, 0, 0, 0)
    BY <1>1, <1>11 DEF CanCaptureConfirmation, MoneyFitsStatus
  <2>2. /\ capture_confirmation(s, a) \in Payment
        /\ capture_confirmation(s, a).status = "CAPTURED"
        /\ Balances(capture_confirmation(s, a), a, a, 0)
    BY <1>1, <1>7, CaptureConfirmationRow
  <2>3. row.status = "CAPTURED" /\ Balances(row, a, a, 0)
    BY <1>11, <2>2, BumpedRow DEF Balances, a
  <2>4. entries = <<Entry("CONFIRMATION_CAPTURE", a)>>
    BY <1>11 DEF a
  <2>5. /\ View(s) = Contract!State("AWAITING_PAYMENT", a, 0, 0, 0)
        /\ View(row) = Contract!State("CAPTURED", a, a, a, 0)
    BY <1>7, <2>1, <2>3, ViewOf DEF a
  <2> QED
    BY <1>5, <1>6, <1>7, <2>4, <2>5, ResolvingMove
<1>12. CASE CanExpire(s) /\ row = Bumped(expire(s)) /\ entries = <<>>
  <2>1. s.status = "AWAITING_PAYMENT" /\ Balances(s, 0, 0, 0)
    BY <1>1, <1>12 DEF CanExpire, MoneyFitsStatus
  <2>2. expire(s) \in Payment /\ expire(s).status = "EXPIRED"
        /\ Balances(expire(s), 0, 0, 0)
    BY <1>1, <2>1, ExpireRow DEF Balances
  <2>3. row.status = "EXPIRED" /\ Balances(row, 0, 0, 0)
    BY <1>12, <2>2, BumpedRow DEF Balances
  <2>4. /\ View(s) = Contract!State("AWAITING_PAYMENT", a, 0, 0, 0)
        /\ View(row) = Contract!State("EXPIRED", a, 0, 0, 0)
    BY <1>7, <2>1, <2>3, ViewOf DEF a
  <2> QED
    BY <1>5, <1>6, <1>7, <1>12, <2>4, ResolvingMove
<1> QED
  BY <1>2, <1>8, <1>9, <1>10, <1>11, <1>12 DEF Move

\* Every opening is an opening of the contract.
LEMMA OpenedMeans ==
    ASSUME Core, NEW p \in PaymentIds, OpenedAt(p)
    PROVE  Contract!Opens(p)
<1>1. PICK row, entries : \E type \in EventTypes :
        Opening(row, type, entries) /\ WrittenAt(p, row, type, entries)
  BY DEF OpenedAt
<1>2. PICK type \in EventTypes :
        Opening(row, type, entries) /\ WrittenAt(p, row, type, entries)
  BY <1>1
<1> DEFINE a == row.amount
<1>3. row \in Payment /\ MoneyFitsStatus(row) /\ a \in Amounts
  BY <1>2 DEF Opening, Payment
<1>4. Contract!Becomes(p, View(row), entries)
  BY <1>2, <1>3, BecomesMeans
<1>5. Account(p) = None
  BY DEF OpenedAt, Account
<1>6. \/ View(row) = Contract!State("AUTHORIZED", a, a, 0, 0)
         /\ entries = <<Contract!Movement("AUTHORIZATION", a)>>
      \/ View(row) = Contract!State("DECLINED", a, 0, 0, 0) /\ entries = <<>>
      \/ View(row) = Contract!State("AWAITING_PAYMENT", a, 0, 0, 0) /\ entries = <<>>
  BY <1>2, <1>3, ViewOf, EntryIsMovement DEF Opening, MoneyFitsStatus
<1> HIDE DEF a
<1> QED
  BY <1>3, <1>4, <1>5, <1>6 DEF Contract!Opens, Account

\* Every step of the service is a step of the contract, or a stutter of it.
LEMMA ContractStep ==
    ASSUME Core, [Next]_vars
    PROVE  Contract!Next
<1> SUFFICES ASSUME NEW p \in PaymentIds
             PROVE  \/ Contract!Unchanged(p) \/ Contract!Opens(p)
                    \/ Contract!Settles(p) \/ Contract!Resolves(p)
                    \/ Contract!Refunds(p)
  BY DEF Contract!Next
<1>1. CASE SameAt(p)
  <2>1. Account(p)' = Account(p) /\ Announced(p)' = Announced(p)
    BY <1>1 DEF SameAt, Account, Announced
  <2> QED
    BY <1>1, <2>1 DEF Contract!Unchanged, SameAt, Account, Announced
<1> QED
  BY <1>1, Changes, OpenedMeans, MovedMeans

\* The service starts where the contract does.
LEMMA ContractInit ==
    ASSUME Init
    PROVE  Contract!Init
<1>1. \A p \in PaymentIds :
        DOMAIN payments = {} /\ events[p] = <<>> /\ ledger = [q \in PaymentIds |-> <<>>]
  BY DEF Init, StoreInit
<1>2. \A p \in PaymentIds : Announced(p) = <<>>
  BY <1>1 DEF Announced
<1> QED
  BY <1>1, <1>2 DEF Contract!Init, Announced, Init, StoreInit

\* The whole service implements the contract of a payment: whatever
\* interleaves, a payment only opens, settles, resolves or is refunded, with
\* exactly the entries and the one event that belong to it.
THEOREM ServiceImplementsContract == Spec => ImplementsContract
<1>1. Init => Contract!Init
  BY ContractInit
<1>2. Core /\ [Next]_vars => [Contract!Next]_Contract!vars
  BY ContractStep
<1> QED
  BY <1>1, <1>2, CoreInvariant, PTL DEF Spec, ImplementsContract, Contract!Spec

----------------------------------------------------------------------------
(* Records are permanent.                                                  *)

\* A sequence is a prefix of whatever is appended to it.
LEMMA Prefix ==
    ASSUME NEW S, NEW s \in Seq(S), NEW t \in Seq(S)
    PROVE  s = SubSeq(s \o t, 1, Len(s))
<1> DEFINE u == s \o t
           n == Len(s)
<1>1. u \in Seq(S) /\ n \in Nat /\ n <= Len(u) /\ \A i \in 1..n : u[i] = s[i]
  OBVIOUS
<1>2. s = [i \in 1..n |-> s[i]]
  OBVIOUS
<1> HIDE DEF u
<1>3. SubSeq(u, 1, n) = [i \in 1..n |-> u[i]]
  BY <1>1
<1> HIDE DEF n
<1>4. SubSeq(u, 1, n) = s
  BY <1>1, <1>2, <1>3
<1> QED
  BY <1>4 DEF u, n

\* Appending one element is appending a sequence of one.
LEMMA PrefixOfAppend ==
    ASSUME NEW S, NEW s \in Seq(S), NEW x \in S
    PROVE  s = SubSeq(Append(s, x), 1, Len(s))
<1>1. <<x>> \in Seq(S)
  OBVIOUS
<1>2. Append(s, x) = s \o <<x>>
  OBVIOUS
<1> QED
  BY <1>1, <1>2, Prefix

\* What a change writes has its type.
LEMMA WrittenTypes ==
    ASSUME Core, NEW p \in PaymentIds, OpenedAt(p) \/ MovedAt(p)
    PROVE  /\ \E entries \in Seq(LedgerEntry) : ledger'[p] = ledger[p] \o entries
           /\ \E e \in Event : events'[p] = Append(events[p], e)
<1>1. PICK row, entries : \E type \in EventTypes :
        /\ \/ Opening(row, type, entries)
           \/ p \in DOMAIN payments /\ Move(payments[p], row, entries)
        /\ WrittenAt(p, row, type, entries)
  BY DEF OpenedAt, MovedAt
<1>2. PICK type \in EventTypes :
        /\ \/ Opening(row, type, entries)
           \/ p \in DOMAIN payments /\ Move(payments[p], row, entries)
        /\ WrittenAt(p, row, type, entries)
  BY <1>1
<1>3. row \in Payment /\ entries \in Seq(LedgerEntry)
  <2>1. CASE Opening(row, type, entries)
    <3>1. row \in Payment /\ row.amount \in Nat \ {0}
      BY <2>1, AmountsAssumption DEF Opening, Payment
    <3>2. Entry("AUTHORIZATION", row.amount) \in LedgerEntry
      BY <3>1 DEF Entry, LedgerEntry, LedgerOperations
    <3>3. entries = <<Entry("AUTHORIZATION", row.amount)>> \/ entries = <<>>
      BY <2>1 DEF Opening
    <3>4. <<Entry("AUTHORIZATION", row.amount)>> \in Seq(LedgerEntry)
      BY <3>2
    <3>5. <<>> \in Seq(LedgerEntry)
      OBVIOUS
    <3>6. entries \in Seq(LedgerEntry)
      BY <3>3, <3>4, <3>5, Zenon
    <3> QED
      BY <3>1, <3>6
  <2>2. CASE p \in DOMAIN payments /\ Move(payments[p], row, entries)
    BY <2>2, MoveRow DEF Core, TablesOK, IsTable, BalancesFitStatus
  <2> QED
    BY <1>2, <2>1, <2>2
<1>4. [type |-> type, payment |-> row] \in Event
  BY <1>3 DEF Event
<1> QED
  BY <1>2, <1>3, <1>4 DEF WrittenAt

\* Books and histories only grow at their end.
LEMMA BooksPermanent ==
    ASSUME Core, [Next]_vars, NEW p \in PaymentIds
    PROVE  /\ ledger[p] = SubSeq(ledger'[p], 1, Len(ledger[p]))
           /\ events[p] = SubSeq(events'[p], 1, Len(events[p]))
<1>1. ledger[p] \in Seq(LedgerEntry) /\ events[p] \in Seq(Event)
  BY DEF Core, TablesOK
<1>2. CASE SameAt(p)
  <2>1. \A S : \A s \in Seq(S) : s = SubSeq(s, 1, Len(s))
    <3> SUFFICES ASSUME NEW S, NEW s \in Seq(S) PROVE s = SubSeq(s, 1, Len(s))
      OBVIOUS
    <3>1. <<>> \in Seq(S) /\ s \o <<>> = s
      OBVIOUS
    <3> QED
      BY <3>1, Prefix
  <2> QED
    BY <1>1, <1>2, <2>1 DEF SameAt
<1>3. CASE OpenedAt(p) \/ MovedAt(p)
  <2>1. PICK entries \in Seq(LedgerEntry) : ledger'[p] = ledger[p] \o entries
    BY <1>3, WrittenTypes
  <2>2. PICK e \in Event : events'[p] = Append(events[p], e)
    BY <1>3, WrittenTypes
  <2>3. ledger[p] = SubSeq(ledger[p] \o entries, 1, Len(ledger[p]))
    BY <1>1, Prefix
  <2>4. events[p] = SubSeq(Append(events[p], e), 1, Len(events[p]))
    BY <1>1, PrefixOfAppend
  <2> QED
    BY <2>1, <2>2, <2>3, <2>4
<1> QED
  BY <1>2, <1>3, Changes

\* An idempotency record is written once.
LEMMA IdempotencyPermanent ==
    ASSUME Core, [Next]_vars, NEW k \in DOMAIN idempotency
    PROVE  k \in DOMAIN idempotency' /\ idempotency'[k] = idempotency[k]
<1>1. ASSUME NEW r \in Requests, NEW p \in PaymentIds, NEW type \in EventTypes,
             NEW row, NEW entries, ClientChange(r, p, row, type, entries)
      PROVE  k \in DOMAIN idempotency' /\ idempotency'[k] = idempotency[k]
  <2> DEFINE record == [request_fingerprint |-> requests[r].command,
                        payment_id |-> p, response_snapshot |-> row]
             key == requests[r].key
  <2>1. key \notin DOMAIN idempotency
    BY <1>1 DEF ClientChange, Claims, KeyTaken
  <2>2. idempotency' = Put(idempotency, Row(key, record))
    BY <1>1 DEF ClientChange, Commit
  <2> HIDE DEF record, key
  <2> QED
    BY <2>1, <2>2 DEF Put, Row
<1>2. CASE Quiet \/ UNCHANGED lifecycleVars
  BY <1>2 DEF Quiet, lifecycleVars
<1> QED
  BY <1>1, <1>2, StepKinds DEF Kinds

\* A receipt and a confirmation that exist when a step is none of the
\* deliveries' own.
LEMMA QuietEvidence ==
    ASSUME \/ Quiet
           \/ UNCHANGED <<receipts, now, confirmationVars>>
           \/ \E s \in Sweepers : Expire(s)
    PROVE  UNCHANGED <<receipts, confirmations>>
BY DEF Quiet, confirmationVars, Expire

\* Evidence is permanent: a confirmation is written once, and a receipt only
\* turns from pending to completed.
LEMMA EvidencePermanent ==
    ASSUME Core, [Next]_vars
    PROVE  /\ \A c \in DOMAIN confirmations :
                c \in DOMAIN confirmations' /\ confirmations'[c] = confirmations[c]
           /\ \A c \in DOMAIN receipts :
                /\ c \in DOMAIN receipts'
                /\ receipts'[c] \in
                     {receipts[c], [receipts[c] EXCEPT !.completed = TRUE]}
<1>1. CASE UNCHANGED <<receipts, confirmations>>
  BY <1>1
<1>2. ASSUME NEW h \in Handlers, NEW c \in ConfirmationIds,
             NEW command \in ConfirmationCommand, AcceptNew(h, c, command)
      PROVE  /\ UNCHANGED confirmations
             /\ \A d \in DOMAIN receipts :
                  d \in DOMAIN receipts' /\ receipts'[d] = receipts[d]
  <2> DEFINE receipt == receipt_at(command, now)
  <2>1. c \notin DOMAIN receipts /\ receipts' = Put(receipts, Row(c, receipt))
    BY <1>2 DEF AcceptNew
  <2> HIDE DEF receipt
  <2> QED
    BY <1>2, <2>1 DEF AcceptNew, Put, Row
<1>3. ASSUME NEW w \in Workers, NEW c \in ConfirmationIds, Complete(w, c)
      PROVE  /\ \A d \in DOMAIN confirmations :
                  d \in DOMAIN confirmations' /\ confirmations'[d] = confirmations[d]
             /\ DOMAIN receipts' = DOMAIN receipts
             /\ \A d \in DOMAIN receipts :
                  receipts'[d] = IF d = c THEN [receipts[d] EXCEPT !.completed = TRUE]
                                 ELSE receipts[d]
  <2> DEFINE disposition == classify(receipts[c])
             confirmation ==
               [command |-> receipts[c].command,
                received_at |-> receipts[c].received_at,
                disposition |-> disposition,
                payment_id |-> IF disposition = "unknown_reference" THEN None
                               ELSE receipts[c].command.payment_reference]
  <2>1. /\ c \notin DOMAIN confirmations
        /\ confirmations' = Put(confirmations, Row(c, confirmation))
    BY <1>3 DEF Complete, Record
  <2>2. receipts' = [receipts EXCEPT ![c].completed = TRUE]
    BY <1>3 DEF Complete, Record
  <2> HIDE DEF confirmation
  <2>3. \A d \in DOMAIN confirmations :
          d \in DOMAIN confirmations' /\ confirmations'[d] = confirmations[d]
    BY <2>1 DEF Put, Row
  <2> QED
    BY <2>2, <2>3
<1> QED
  BY <1>1, <1>2, <1>3, StepKinds, QuietEvidence DEF Kinds, ClientChange

\* Ledger entries, events, idempotency records and confirmations are written
\* once, and a receipt only ever turns from pending to completed.
THEOREM RecordsStay == Spec => RecordsArePermanent
<1> DEFINE Kept ==
      /\ \A p \in PaymentIds :
            /\ ledger[p] = SubSeq(ledger'[p], 1, Len(ledger[p]))
            /\ events[p] = SubSeq(events'[p], 1, Len(events[p]))
      /\ \A k \in DOMAIN idempotency :
            k \in DOMAIN idempotency' /\ idempotency'[k] = idempotency[k]
      /\ \A c \in DOMAIN confirmations :
            c \in DOMAIN confirmations' /\ confirmations'[c] = confirmations[c]
      /\ \A c \in DOMAIN receipts :
            /\ c \in DOMAIN receipts'
            /\ receipts'[c] \in {receipts[c], [receipts[c] EXCEPT !.completed = TRUE]}
<1>1. Core /\ [Next]_vars => Kept
  BY BooksPermanent, IdempotencyPermanent, EvidencePermanent
<1> QED
  BY <1>1, CoreInvariant, PTL DEF Spec, RecordsArePermanent

----------------------------------------------------------------------------
(* Answers.                                                                *)

RecordOf(a) ==
    [request_fingerprint |-> a.command, payment_id |-> a.payment_id,
     response_snapshot |-> a.payment]

RecordedIn(table, a) == a.key \in DOMAIN table /\ table[a.key] = RecordOf(a)

\* A replay answers with the record, or with none when the command differs.
LEMMA ReplayIsRecorded ==
    ASSUME SessionsOK, NEW key \in DOMAIN idempotency, NEW command, NEW a,
           a = find_idempotent_snapshot(key, command), a # None
    PROVE  RecordedIn(idempotency, a)
<1> DEFINE record == idempotency[key]
<1>1. record \in IdempotencyRecord
  BY DEF SessionsOK, IsTable
<1>2. /\ record.request_fingerprint = command
      /\ a = [key |-> key, command |-> command,
              payment_id |-> record.payment_id, payment |-> record.response_snapshot]
  BY DEF find_idempotent_snapshot
<1>3. record = [request_fingerprint |-> record.request_fingerprint,
                payment_id |-> record.payment_id,
                response_snapshot |-> record.response_snapshot]
  BY <1>1 DEF IdempotencyRecord
<1> HIDE DEF record
<1>4. RecordOf(a) = record /\ a.key = key
  BY <1>2, <1>3 DEF RecordOf
<1> QED
  BY <1>4 DEF RecordedIn, record

\* A request that ends answers its own slot.
LEMMA DoneAnswers ==
    ASSUME SessionsOK, NEW r \in Requests, NEW a, Done(r, a), NEW q \in Requests
    PROVE  answers'[q] = IF q = r THEN a ELSE answers[q]
BY DEF Done, SessionsOK

AnswerOK(q) ==
    \/ answers'[q] \in {answers[q], None}
    \/ RecordedIn(idempotency', answers'[q])

\* The answer of a commit is what the commit records.
LEMMA CommitAnswers ==
    ASSUME SessionsOK, NEW r \in Requests, NEW p, NEW row, Commit(r, p, row),
           NEW q \in Requests
    PROVE  AnswerOK(q)
<1> DEFINE record == [request_fingerprint |-> requests[r].command,
                      payment_id |-> p, response_snapshot |-> row]
           answer == [key |-> requests[r].key, command |-> requests[r].command,
                      payment_id |-> p, payment |-> row]
           key == requests[r].key
<1>1. /\ idempotency' = Put(idempotency, Row(key, record))
      /\ Done(r, answer) \/ Done(r, None)
  BY DEF Commit
<1>2. answer.key = key /\ RecordOf(answer) = record
  BY DEF RecordOf
<1> HIDE DEF record, answer, key
<1>3. key \in DOMAIN idempotency' /\ idempotency'[key] = record
  BY <1>1 DEF Put, Row
<1>4. CASE Done(r, None)
  BY <1>4, DoneAnswers DEF AnswerOK
<1>5. CASE Done(r, answer)
  <2>1. answers'[q] = IF q = r THEN answer ELSE answers[q]
    BY <1>5, DoneAnswers
  <2> QED
    BY <1>2, <1>3, <2>1 DEF AnswerOK, RecordedIn
<1> QED
  BY <1>1, <1>4, <1>5

\* A step of a request answers with nothing, or with what is recorded.
LEMMA LifecycleAnswers ==
    ASSUME Core, LifecycleNext, NEW q \in Requests
    PROVE  AnswerOK(q)
<1>1. PICK r \in Requests :
        \/ \E command \in Command, key \in Keys :
             /\ Sendable(command)
             /\ \E copy \in SessionCopies(command) :
                  Arrive(r, command, key, copy)
        \/ Perform(r)
        \/ Interrupt(r)
  BY DEF LifecycleNext
<1>2. SessionsOK
  BY DEF Core
<1>3. ASSUME NEW command, NEW key, NEW copy, Arrive(r, command, key, copy)
      PROVE  AnswerOK(q)
  <2>1. CASE KeyTaken(key) /\ command.operation # "CANCEL"
    <3> DEFINE a == find_idempotent_snapshot(key, command)
    <3>1. Done(r, a) /\ UNCHANGED idempotency
      BY <1>3, <2>1 DEF Arrive
    <3>2. a # None => RecordedIn(idempotency, a)
      BY <1>2, <2>1, ReplayIsRecorded DEF KeyTaken
    <3> HIDE DEF a
    <3>3. answers'[q] = IF q = r THEN a ELSE answers[q]
      BY <1>2, <3>1, DoneAnswers
    <3> QED
      BY <3>1, <3>2, <3>3 DEF AnswerOK, RecordedIn
  <2>2. CASE ~(KeyTaken(key) /\ command.operation # "CANCEL")
    <3>1. answers' = [answers EXCEPT ![r] = None]
      BY <1>3, <2>2 DEF Arrive
    <3> QED
      BY <1>2, <3>1 DEF AnswerOK, SessionsOK
  <2> QED
    BY <2>1, <2>2
<1>4. CASE ReplayConcurrent(r)
  <2> DEFINE a == find_idempotent_snapshot(requests[r].key, requests[r].command)
  <2>1. Done(r, a) /\ UNCHANGED idempotency /\ requests[r].key \in DOMAIN idempotency
    BY <1>4 DEF ReplayConcurrent, KeyTaken
  <2>2. a # None => RecordedIn(idempotency, a)
    BY <1>2, <2>1, ReplayIsRecorded
  <2> HIDE DEF a
  <2>3. answers'[q] = IF q = r THEN a ELSE answers[q]
    BY <1>2, <2>1, DoneAnswers
  <2> QED
    BY <2>1, <2>2, <2>3 DEF AnswerOK, RecordedIn
<1>5. CASE Refuse(r) \/ Interrupt(r)
  BY <1>2, <1>5, DoneAnswers DEF Refuse, Interrupt, AnswerOK
<1>6. CASE \E p \in PaymentIds : Authorize(r, p)
  <2>1. \E p, row : Commit(r, p, row)
    BY <1>6 DEF Authorize
  <2> QED
    BY <1>2, <2>1, CommitAnswers
<1>7. CASE Capture(r) \/ Cancel(r) \/ Refund(r)
  <2>1. \E p, row : Commit(r, p, row)
    BY <1>7 DEF Capture, Cancel, Refund, Apply
  <2> QED
    BY <1>2, <2>1, CommitAnswers
<1> QED
  BY <1>1, <1>3, <1>4, <1>5, <1>6, <1>7 DEF Perform

\* AnswersAreRecorded is inductive on top of Core, since records are permanent.
LEMMA AnswersStep ==
    ASSUME Core, AnswersAreRecorded, [Next]_vars
    PROVE  AnswersAreRecorded'
<1> SUFFICES ASSUME NEW q \in Requests, answers'[q] # None
             PROVE  RecordedIn(idempotency', answers'[q])
  BY DEF AnswersAreRecorded, RecordedIn, RecordOf
<1>1. AnswerOK(q)
  BY LifecycleAnswers
     DEF Next, ConfirmationsNext, Tick, vars, lifecycleVars, AnswerOK
<1>2. CASE answers'[q] = answers[q]
  <2>1. RecordedIn(idempotency, answers[q])
    BY <1>2 DEF AnswersAreRecorded, RecordedIn, RecordOf
  <2> QED
    BY <1>2, <2>1, IdempotencyPermanent DEF RecordedIn
<1> QED
  BY <1>1, <1>2 DEF AnswerOK

\* An answer, first or replayed, is the snapshot its key recorded for that
\* very command.
THEOREM AnswersAreTheRecords == Spec => []AnswersAreRecorded
<1>1. Init => AnswersAreRecorded
  BY DEF Init, LifecycleInit, AnswersAreRecorded
<1>2. Core /\ AnswersAreRecorded /\ [Next]_vars => AnswersAreRecorded'
  BY AnswersStep
<1> QED
  BY <1>1, <1>2, CoreInvariant, PTL DEF Spec

----------------------------------------------------------------------------
(* One effect per key.                                                     *)

\* A key's own change, and a change's own key.
HasEffect(k) ==
    LET p == idempotency[k].payment_id
    IN  \E v \in DOMAIN events[p] : ClientMade(events[p][v]) /\ RecordedAs(k, p, v)

HasKey(p, v) ==
    \E k \in DOMAIN idempotency :
        /\ RecordedAs(k, p, v)
        /\ \A j \in DOMAIN idempotency : RecordedAs(j, p, v) => j = k

\* What the service does of its own accord publishes nothing a client made.
SystemStep ==
    /\ UNCHANGED idempotency
    /\ \A p \in PaymentIds :
         \/ events'[p] = events[p]
         \/ \E e \in Event : ~ClientMade(e) /\ events'[p] = Append(events[p], e)

\* An expiry is no client's.
LEMMA ExpiryBySystem ==
    ASSUME NEW row \in Payment
    PROVE  LET e == [type |-> "payment.expired", payment |-> row]
           IN  e \in Event /\ ~ClientMade(e)
BY DEF Event, EventTypes, ClientMade

\* Nor is the capture of a delayed payment.
LEMMA CaptureBySystem ==
    ASSUME NEW row \in Payment, Delayed(row)
    PROVE  LET e == [type |-> "payment.captured", payment |-> row]
           IN  e \in Event /\ ~ClientMade(e)
BY DEF Event, EventTypes, ClientMade, Delayed

\* Expired rows are rows.
LEMMA ExpiredRow ==
    ASSUME Core, NEW p \in DOMAIN payments
    PROVE  Bumped(expire(payments[p])) \in Payment
<1>1. payments[p] \in Payment
  BY DEF Core, TablesOK, IsTable
<1>2. expire(payments[p]) \in Payment
  BY <1>1, ExpireRow
<1> QED
  BY <1>2, BumpedRow

\* Completions, expiry runs and everything without an event are the system's.
LEMMA CompleteBySystem ==
    ASSUME Core, NEW w \in Workers, NEW c \in ConfirmationIds, Complete(w, c),
           UNCHANGED idempotency
    PROVE  SystemStep
<1> DEFINE receipt == receipts[c]
           q == receipt.command.payment_reference
           amount == receipt.command.amount
           disposition == classify(receipt)
<1>1. ApplyDisposition(receipt, disposition) /\ c \in DOMAIN receipts
  BY DEF Complete, Next_in_line, Core, DeliveriesOK
<1>2. receipt \in Receipt
  BY <1>1 DEF Core, DeliveriesOK, IsTable
<1>3. CASE disposition = "applied"
  <2> DEFINE row == Bumped(capture_confirmation(payments[q], amount))
             rows == Row(q, row)
             e == [type |-> "payment.captured", payment |-> row]
  <2>1. Publish(rows, "payment.captured")
    BY <1>1, <1>3 DEF ApplyDisposition
  <2>2. DOMAIN rows = {q} /\ rows[q] = row
    BY DEF Row
  <2>3. q \in DOMAIN payments /\ payments[q].status = "AWAITING_PAYMENT"
    BY <1>3, Classified
  <2>4. payments[q] \in Payment /\ Delayed(payments[q])
    BY <2>3 DEF Core, TablesOK, IsTable, BalancesFitStatus, MoneyFitsStatus
  <2>5. amount \in Nat
    BY <1>2, AmountsAssumption DEF Receipt, ConfirmationCommand
  <2> DEFINE u == capture_confirmation(payments[q], amount)
  <2>6. u \in Payment /\ SameTerms(payments[q], u)
    BY <2>4, <2>5, CaptureConfirmationRow
  <2>7. row = Bumped(u)
    OBVIOUS
  <2> HIDE DEF rows, row, u
  <2>8. row \in Payment /\ Delayed(row)
    BY <2>4, <2>6, <2>7, BumpedRow DEF SameTerms, Delayed
  <2>9. e \in Event /\ ~ClientMade(e)
    BY <2>8, CaptureBySystem
  <2>10. \A p \in PaymentIds :
           events'[p] = events[p] \/ events'[p] = Append(events[p], e)
    <3>1. SUFFICES ASSUME NEW p \in PaymentIds
                   PROVE  events'[p] = events[p] \/ events'[p] = Append(events[p], e)
      OBVIOUS
    <3>2. CASE p = q
      BY <2>1, <2>2, <3>1, <3>2, Published
    <3>3. CASE p # q
      BY <2>1, <2>2, <3>1, <3>3, Published
    <3> QED
      BY <3>2, <3>3
  <2> HIDE DEF e
  <2> QED
    BY <2>9, <2>10 DEF SystemStep
<1>4. CASE /\ disposition = "late"
           /\ payments[q].status = "AWAITING_PAYMENT"
           /\ ~has_protecting_receipt(q)
  <2> DEFINE row == Bumped(expire(payments[q]))
             rows == Row(q, row)
             e == [type |-> "payment.expired", payment |-> row]
  <2>1. Publish(rows, "payment.expired")
    BY <1>1, <1>4 DEF ApplyDisposition
  <2>2. DOMAIN rows = {q} /\ rows[q] = row
    BY DEF Row
  <2>3. row \in Payment
    BY <1>4, Classified, ExpiredRow
  <2> HIDE DEF rows, row
  <2>4. e \in Event /\ ~ClientMade(e)
    BY <2>3, ExpiryBySystem
  <2>5. \A p \in PaymentIds :
           events'[p] = events[p] \/ events'[p] = Append(events[p], e)
    <3>1. SUFFICES ASSUME NEW p \in PaymentIds
                   PROVE  events'[p] = events[p] \/ events'[p] = Append(events[p], e)
      OBVIOUS
    <3>2. CASE p = q
      BY <2>1, <2>2, <3>1, <3>2, Published
    <3>3. CASE p # q
      BY <2>1, <2>2, <3>1, <3>3, Published
    <3> QED
      BY <3>2, <3>3
  <2> HIDE DEF e
  <2> QED
    BY <2>4, <2>5 DEF SystemStep
<1>5. CASE /\ disposition # "applied"
           /\ ~ /\ disposition = "late"
                /\ payments[q].status = "AWAITING_PAYMENT"
                /\ ~has_protecting_receipt(q)
  BY <1>1, <1>5 DEF ApplyDisposition, SystemStep
<1> QED
  BY <1>3, <1>4, <1>5

\* An expiry is nobody's request.
LEMMA ExpireBySystem ==
    ASSUME Core, NEW s \in Sweepers, Expire(s), UNCHANGED idempotency
    PROVE  SystemStep
<1>1. PICK due \in First(Due(sweeps[s]),
                         [p \in Due(sweeps[s]) |-> payments[p].expires_at],
                         ExpiryLimit) :
        /\ \A p \in due : CanExpire(payments[p])
        /\ Publish([p \in due |-> Bumped(expire(payments[p]))], "payment.expired")
  BY DEF Expire
<1>2. due \subseteq DOMAIN payments
  BY FirstOf DEF Due
<1> DEFINE rows == [p \in due |-> Bumped(expire(payments[p]))]
<1>3. Publish(rows, "payment.expired") /\ DOMAIN rows = due
  BY <1>1
<1>4. \A p \in due : rows[p] \in Payment
  BY <1>2, ExpiredRow
<1> HIDE DEF rows
<1>5. ASSUME NEW p \in PaymentIds
      PROVE  \/ events'[p] = events[p]
             \/ \E e \in Event : ~ClientMade(e) /\ events'[p] = Append(events[p], e)
  <2>1. CASE p \in due
    <3> DEFINE e == [type |-> "payment.expired", payment |-> rows[p]]
    <3>1. events'[p] = Append(events[p], e)
      BY <1>3, <2>1, Published
    <3>2. e \in Event /\ ~ClientMade(e)
      BY <1>4, <2>1, ExpiryBySystem
    <3> QED
      BY <3>1, <3>2
  <2>2. CASE p \notin due
    BY <1>3, <2>2, Published
  <2> QED
    BY <2>1, <2>2
<1> QED
  BY <1>5 DEF SystemStep

\* A client's step publishes one event of the client, for one new key.
ClientStep ==
    \E key \in Keys, p \in PaymentIds, e \in Event :
        /\ key \notin DOMAIN idempotency
        /\ ClientMade(e)
        /\ \E record :
             /\ record.payment_id = p /\ record.response_snapshot = e.payment
             /\ idempotency' = Put(idempotency, Row(key, record))
        /\ events'[p] = Append(events[p], e)
        /\ \A q \in PaymentIds \ {p} : events'[q] = events[q]

\* The change that a request commits is its client's.
LEMMA ChangeByClient ==
    ASSUME Core, NEW r \in Requests, NEW p \in PaymentIds, NEW type \in EventTypes,
           NEW row, NEW entries, ClientChange(r, p, row, type, entries)
    PROVE  ClientStep
<1> DEFINE e == [type |-> type, payment |-> row]
           record == [request_fingerprint |-> requests[r].command,
                      payment_id |-> p, response_snapshot |-> row]
           key == requests[r].key
<1>1. key \in Keys /\ key \notin DOMAIN idempotency
  BY InProgress DEF ClientChange, Claims, KeyTaken, Core
<1>2. idempotency' = Put(idempotency, Row(key, record))
  BY DEF ClientChange, Commit
<1>3. \A q \in PaymentIds :
         /\ q = p => WrittenAt(q, row, type, entries)
         /\ q # p => SameAt(q)
  BY PublishedOne DEF ClientChange, Core, TablesOK
<1>4. /\ events'[p] = Append(events[p], e)
      /\ \A q \in PaymentIds \ {p} : events'[q] = events[q]
  BY <1>3 DEF WrittenAt, SameAt
<1>5. row \in Payment /\ ClientMade(e)
  <2>1. CASE Opening(row, type, entries)
    BY <2>1 DEF Opening, ClientMade
  <2>2. CASE ClientMove(p, row, type, entries)
    <3>1. /\ p \in DOMAIN payments /\ payments[p] \in Payment
          /\ MoneyFitsStatus(payments[p])
      BY <2>2 DEF ClientMove, Core, TablesOK, IsTable, BalancesFitStatus
    <3>2. row \in Payment /\ SameTerms(payments[p], row)
      BY <2>2, <3>1, MoveRow DEF ClientMove
    <3>3. CASE type = "payment.captured" /\ CanCapture(payments[p])
      <4>1. ~Delayed(payments[p])
        BY <3>1, <3>3 DEF CanCapture, MoneyFitsStatus
      <4> QED
        BY <3>2, <3>3, <4>1 DEF ClientMade, Delayed, SameTerms
    <3>4. CASE type \in {"payment.cancelled", "payment.refunded"}
      BY <3>2, <3>4 DEF ClientMade
    <3> QED
      BY <2>2, <3>3, <3>4 DEF ClientMove
  <2> QED
    BY <2>1, <2>2 DEF ClientChange
<1>6. e \in Event /\ record.payment_id = p /\ record.response_snapshot = e.payment
  BY <1>5 DEF Event
<1> HIDE DEF e, record, key
<1> QED
  BY <1>1, <1>2, <1>4, <1>5, <1>6 DEF ClientStep

\* Every step is the system's or a client's.
LEMMA WhoseStep ==
    ASSUME Core, [Next]_vars
    PROVE  SystemStep \/ ClientStep
<1>1. CASE Quiet
  BY <1>1 DEF Quiet, SystemStep
<1>2. CASE \E r \in Requests, p \in PaymentIds, type \in EventTypes :
             \E row, entries : ClientChange(r, p, row, type, entries)
  BY <1>2, ChangeByClient
<1>3. CASE /\ UNCHANGED lifecycleVars
           /\ \E h \in Handlers, c \in ConfirmationIds :
                \E command \in ConfirmationCommand : AcceptNew(h, c, command)
  BY <1>3 DEF AcceptNew, SystemStep, lifecycleVars
<1>4. CASE /\ UNCHANGED lifecycleVars
           /\ \/ \E w \in Workers, c \in ConfirmationIds : Complete(w, c)
              \/ \E s \in Sweepers : Expire(s)
  BY <1>4, CompleteBySystem, ExpireBySystem DEF lifecycleVars
<1> QED
  BY <1>1, <1>2, <1>3, <1>4, StepKinds DEF Kinds

\* The elements of a sequence with one more.
LEMMA AppendFacts ==
    ASSUME NEW S, NEW s \in Seq(S), NEW e \in S
    PROVE  /\ Len(s) \in Nat
           /\ DOMAIN s = 1..Len(s)
           /\ Len(s) + 1 \notin DOMAIN s
           /\ DOMAIN Append(s, e) = DOMAIN s \cup {Len(s) + 1}
           /\ Append(s, e)[Len(s) + 1] = e
           /\ \A v \in DOMAIN s : Append(s, e)[v] = s[v]
OBVIOUS

\* Published events stay, and what they record does.
LEMMA EventsStay ==
    ASSUME Core, SystemStep \/ ClientStep, NEW p \in PaymentIds,
           NEW v \in DOMAIN events[p]
    PROVE  v \in DOMAIN events'[p] /\ events'[p][v] = events[p][v]
<1>1. events[p] \in Seq(Event)
  BY DEF Core, TablesOK
<1>2. events'[p] = events[p] \/ \E e \in Event : events'[p] = Append(events[p], e)
  BY DEF SystemStep, ClientStep
<1> QED
  BY <1>1, <1>2, AppendFacts

\* The keys that had an effect still have it.
LEMMA EffectStays ==
    ASSUME Core, SystemStep \/ ClientStep, NEW k \in DOMAIN idempotency, HasEffect(k),
           k \in DOMAIN idempotency', idempotency'[k] = idempotency[k]
    PROVE  HasEffect(k)'
<1> DEFINE p == idempotency[k].payment_id
<1>1. p \in PaymentIds
  BY DEF Core, SessionsOK, IsTable, IdempotencyRecord
<1>2. PICK v \in DOMAIN events[p] : ClientMade(events[p][v]) /\ RecordedAs(k, p, v)
  BY DEF HasEffect
<1>3. v \in DOMAIN events'[p] /\ events'[p][v] = events[p][v]
  BY <1>1, EventsStay
<1>4. RecordedAs(k, p, v)'
  BY <1>2, <1>3 DEF RecordedAs
<1> QED
  BY <1>2, <1>3, <1>4 DEF HasEffect

\* A step of the system leaves keys and changes as they are.
LEMMA SystemKeeps ==
    ASSUME Core, OneEffectPerKey, SystemStep
    PROVE  OneEffectPerKey'
<1>1. UNCHANGED idempotency
  BY DEF SystemStep
<1>2. ASSUME NEW k \in DOMAIN idempotency'
      PROVE  HasEffect(k)'
  <2>1. k \in DOMAIN idempotency /\ HasEffect(k)
    BY <1>1 DEF OneEffectPerKey, HasEffect
  <2> QED
    BY <1>1, <2>1, EffectStays
<1>3. ASSUME NEW p \in PaymentIds, NEW v \in DOMAIN events'[p],
             ClientMade(events'[p][v])
      PROVE  HasKey(p, v)'
  <2>1. v \in DOMAIN events[p] /\ events'[p][v] = events[p][v]
    <3>1. events[p] \in Seq(Event)
      BY DEF Core, TablesOK
    <3>2. CASE events'[p] = events[p]
      BY <3>2
    <3>3. ASSUME NEW e \in Event, ~ClientMade(e), events'[p] = Append(events[p], e)
          PROVE  v \in DOMAIN events[p] /\ events'[p][v] = events[p][v]
      BY <1>3, <3>1, <3>3, AppendFacts
    <3> QED
      BY <3>2, <3>3 DEF SystemStep
  <2>2. HasKey(p, v)
    BY <1>3, <2>1 DEF OneEffectPerKey, HasKey
  <2>3. \A k : RecordedAs(k, p, v)' <=> RecordedAs(k, p, v)
    BY <1>1, <2>1 DEF RecordedAs
  <2> QED
    BY <1>1, <2>2, <2>3 DEF HasKey
<1> QED
  BY <1>2, <1>3 DEF OneEffectPerKey, HasEffect, HasKey

\* A client's step adds a key and its change: no older key can have recorded
\* the new version, and the new key none of the older ones.
LEMMA ClientKeeps ==
    ASSUME Core, Core', OneEffectPerKey, ClientStep
    PROVE  OneEffectPerKey'
<1>1. PICK key \in Keys, p \in PaymentIds, e \in Event :
        /\ key \notin DOMAIN idempotency
        /\ ClientMade(e)
        /\ \E record :
             /\ record.payment_id = p /\ record.response_snapshot = e.payment
             /\ idempotency' = Put(idempotency, Row(key, record))
        /\ events'[p] = Append(events[p], e)
        /\ \A q \in PaymentIds \ {p} : events'[q] = events[q]
  BY DEF ClientStep
<1>n. PICK n \in Nat : n = Len(events[p]) + 1
  <2>1. events[p] \in Seq(Event)
    BY DEF Core, TablesOK
  <2> QED
    BY <2>1
<1>2. /\ DOMAIN idempotency' = DOMAIN idempotency \cup {key}
      /\ idempotency'[key].payment_id = p
      /\ idempotency'[key].response_snapshot = e.payment
      /\ \A k \in DOMAIN idempotency : idempotency'[k] = idempotency[k]
  BY <1>1 DEF Put, Row
<1>3. /\ DOMAIN events'[p] = DOMAIN events[p] \cup {n}
      /\ n \notin DOMAIN events[p]
      /\ events'[p][n] = e
      /\ \A v \in DOMAIN events[p] : events'[p][v] = events[p][v]
  <2>1. events[p] \in Seq(Event)
    BY DEF Core, TablesOK
  <2> QED
    BY <1>n, <1>1, <2>1, AppendFacts
<1>4. \A q \in PaymentIds : \A v \in DOMAIN events[q] : events[q][v].payment.version = v
  BY DEF Core, TablesOK, RowsArePublished
<1>5. e.payment.version = n
  <2>1. \A v \in DOMAIN events'[p] : events'[p][v].payment.version = v
    BY <1>3 DEF Core, TablesOK, RowsArePublished
  <2> QED
    BY <1>3, <2>1
<1>6. ASSUME NEW k \in DOMAIN idempotency'
      PROVE  HasEffect(k)'
  <2>1. CASE k = key
    BY <1>1, <1>2, <1>3, <2>1 DEF HasEffect, RecordedAs
  <2>2. CASE k \in DOMAIN idempotency
    <3>1. HasEffect(k)
      BY <2>2 DEF OneEffectPerKey, HasEffect
    <3> QED
      BY <1>2, <2>2, <3>1, EffectStays
  <2> QED
    BY <1>2, <2>1, <2>2
<1>7. ASSUME NEW j \in DOMAIN idempotency
      PROVE  ~RecordedAs(j, p, n)'
  <2>1. SUFFICES ASSUME RecordedAs(j, p, n)' PROVE FALSE
    OBVIOUS
  <2>2. /\ idempotency[j].payment_id = p
        /\ idempotency[j].response_snapshot = e.payment
    BY <1>2, <1>3, <2>1 DEF RecordedAs
  <2>3. PICK v \in DOMAIN events[p] : RecordedAs(j, p, v)
    BY <2>2 DEF OneEffectPerKey
  <2>4. events[p][v].payment = e.payment
    BY <2>2, <2>3 DEF RecordedAs
  <2> QED
    BY <1>3, <1>4, <1>5, <2>4
<1>8. ASSUME NEW q \in PaymentIds, NEW v \in DOMAIN events'[q],
             ClientMade(events'[q][v])
      PROVE  HasKey(q, v)'
  <2>1. CASE q = p /\ v = n
    <3>1. RecordedAs(key, p, n)'
      BY <1>2, <1>3 DEF RecordedAs
    <3>2. \A j \in DOMAIN idempotency' : RecordedAs(j, p, n)' => j = key
      BY <1>2, <1>7
    <3> QED
      BY <1>2, <2>1, <3>1, <3>2 DEF HasKey
  <2>2. CASE ~(q = p /\ v = n)
    <3>1. v \in DOMAIN events[q] /\ events'[q][v] = events[q][v]
      BY <1>1, <1>3, <1>8, <2>2
    <3>2. PICK k \in DOMAIN idempotency :
            /\ RecordedAs(k, q, v)
            /\ \A j \in DOMAIN idempotency : RecordedAs(j, q, v) => j = k
      BY <1>8, <3>1 DEF OneEffectPerKey
    <3>3. \A j \in DOMAIN idempotency : RecordedAs(j, q, v)' <=> RecordedAs(j, q, v)
      BY <1>2, <3>1 DEF RecordedAs
    <3>4. ~RecordedAs(key, q, v)'
      <4>1. SUFFICES ASSUME RecordedAs(key, q, v)' PROVE FALSE
        OBVIOUS
      <4>2. q = p /\ e.payment = events[p][v].payment
        BY <1>2, <3>1, <4>1 DEF RecordedAs
      <4> QED
        BY <1>3, <1>4, <1>5, <3>1, <4>2
    <3> QED
      BY <1>2, <3>2, <3>3, <3>4 DEF HasKey
  <2> QED
    BY <2>1, <2>2
<1> QED
  BY <1>6, <1>8 DEF OneEffectPerKey, HasEffect, HasKey

\* A key stands for one change that a client made, and such a change has one
\* key, whatever is retried, duplicated or concurrent.
THEOREM KeysHaveOneEffect == Spec => []OneEffectPerKey
<1>1. Init => OneEffectPerKey
  <2> SUFFICES ASSUME Init PROVE OneEffectPerKey
    OBVIOUS
  <2>1. DOMAIN idempotency = {} /\ \A p \in PaymentIds : events[p] = <<>>
    BY DEF Init, StoreInit, LifecycleInit
  <2> QED
    BY <2>1 DEF OneEffectPerKey
<1>2. Core /\ OneEffectPerKey /\ [Next]_vars => OneEffectPerKey'
  BY NextCore, WhoseStep, SystemKeeps, ClientKeeps
<1> QED
  BY <1>1, <1>2, CoreInvariant, PTL DEF Spec
==============================================================================
