----------------------- MODULE CheckoutResult_proofs ------------------------
(***************************************************************************)
(* What the checkout displays, and the contract it keeps, for every value  *)
(* of the constants: theorems of CheckoutClient that need to know what the *)
(* service writes as well as what the page stores.                         *)
(***************************************************************************)
EXTENDS CheckoutClient_proofs

----------------------------------------------------------------------------
(* Rows.                                                                   *)

\* The versions of a payment that have been published.
Rows(p) == {events[p][v].payment : v \in DOMAIN events[p]}

\* The token that populateControlsFromPayment reads off a row.
TokenOf(row) ==
    IF row.payment_flow = "ASYNCHRONOUS_CONFIRMATION" THEN "AWAIT_CONFIRMATION"
    ELSE IF row.status # "DECLINED" THEN "APPROVE" ELSE "DECLINE"

\* A row that a form the page accepts can stand for.
Orderable(row) ==
    /\ row \in Payment
    /\ boundedInteger(row.amount)
    /\ TokenOf(row) \in Tokens

SameMoney(s, t) == s.amount = t.amount /\ s.currency = t.currency

\* A row that an authorization creates.
Made(command, row) ==
    /\ command \in AuthorizationCommand
    /\ row \in Payment
    /\ SameMoney(command, row)
    /\ TokenOf(row) = command.token

\* A row that an operation of a client moves another row to.
Moved(s, t) ==
    /\ t \in Payment
    /\ SameMoney(s, t)
    /\ TokenOf(t) = TokenOf(s)
    /\ t.version >= s.version

\* Each domain rule that a client may ask for moves a row, and the UPDATE that
\* counts up its version does too (capture, cancel, refund, version_id_col).
LEMMA RulesMove ==
    ASSUME NEW s \in Payment, NEW next,
           \/ CanCapture(s) /\ next = capture(s)
           \/ CanCancel(s) /\ next = cancel(s)
           \/ \E amount \in Amounts : CanRefund(s, amount) /\ next = refund(s, amount)
    PROVE  Moved(s, Bumped(next))
<1>1. /\ next \in Payment
      /\ SameMoney(s, next)
      /\ next.payment_flow = s.payment_flow
      /\ next.version = s.version
      /\ s.status # "DECLINED" /\ next.status # "DECLINED"
  <2>1. CASE CanCapture(s) /\ next = capture(s)
    BY <2>1 DEF CanCapture, capture, Payment, Statuses, SameMoney
  <2>2. CASE CanCancel(s) /\ next = cancel(s)
    BY <2>2 DEF CanCancel, cancel, Payment, Statuses, SameMoney
  <2>3. CASE \E amount \in Amounts : CanRefund(s, amount) /\ next = refund(s, amount)
    <3>1. PICK amount \in Amounts : CanRefund(s, amount) /\ next = refund(s, amount)
      BY <2>3
    <3> DEFINE refunded == s.refunded_amount + amount
               status == IF refunded = s.captured_amount THEN "REFUNDED"
                         ELSE "PARTIALLY_REFUNDED"
    <3>2. next = [s EXCEPT !.status = status, !.refunded_amount = refunded]
      BY <3>1 DEF refund
    <3>3. /\ refunded \in Nat /\ status \in Statuses /\ status # "DECLINED"
          /\ s.status # "DECLINED"
      BY <3>1, AmountsAssumption DEF Payment, Statuses, CanRefund
    <3> HIDE DEF refunded, status
    <3> QED
      BY <3>2, <3>3 DEF Payment, SameMoney
  <2> QED
    BY <2>1, <2>2, <2>3
<1>2. Bumped(next) = [next EXCEPT !.version = next.version + 1]
  BY <1>1 DEF Bumped, Payment
<1>3. next.version + 1 \in Nat \ {0}
  BY <1>1 DEF Payment
<1>4. /\ Bumped(next) \in Payment
      /\ SameMoney(next, Bumped(next))
      /\ Bumped(next).payment_flow = next.payment_flow
      /\ Bumped(next).status = next.status
      /\ Bumped(next).version = next.version + 1
  BY <1>1, <1>2, <1>3 DEF Payment, SameMoney
<1>5. s.version \in Nat
  BY DEF Payment
<1>6. TokenOf(Bumped(next)) = TokenOf(s)
  BY <1>1, <1>4 DEF TokenOf
<1> QED
  BY <1>1, <1>4, <1>5, <1>6 DEF Moved, SameMoney

\* What a form says that populateControlsFromPayment fills in from a row: the
\* row's amount, its currency and the token that asks for it.
LEMMA PopulatedForm ==
    ASSUME NEW row, Orderable(row)
    PROVE  LET controls == populateControlsFromPayment(row)
           IN  /\ controls \in Form
               /\ validateForm(controls)
               /\ SameMoney(Submission(controls), row)
               /\ controls.currency = row.currency
<1> DEFINE controls == populateControlsFromPayment(row)
           text == displayAmountFromMinorUnits(row.amount, row.currency)
<1>1. row.amount \in Nat /\ row.amount \in Amounts /\ row.currency \in Currencies
  BY AmountsAssumption DEF Orderable, Payment
<1>2. /\ text \in AmountText
      /\ IsMinorUnits(text, row.currency)
      /\ MinorUnits(text, row.currency) = row.amount
  BY <1>1, DisplayRoundTrips DEF Orderable
<1>3. controls = [amount |-> text, currency |-> row.currency, token |-> TokenOf(row)]
  BY DEF populateControlsFromPayment, TokenOf
<1> HIDE DEF controls, text
<1>4. Submission(controls) = [operation |-> "AUTHORIZE", amount |-> row.amount,
                              currency |-> row.currency, token |-> TokenOf(row)]
  BY <1>2, <1>3 DEF Submission
<1>5. Submission(controls) \in AuthorizationCommand
  BY <1>1, <1>4 DEF AuthorizationCommand, Orderable
<1>6. controls \in Form
  BY <1>1, <1>2, <1>3 DEF Form, Orderable
<1>7. validateForm(controls)
  BY <1>2, <1>3, <1>5 DEF validateForm
<1>8. SameMoney(Submission(controls), row)
  BY <1>4 DEF SameMoney
<1> QED
  BY <1>3, <1>6, <1>7, <1>8 DEF controls

----------------------------------------------------------------------------
(* What the service writes.                                                *)

\* The published versions of a payment belong together, and the row of the
\* payments table is the last of them.
HistoryOK ==
    /\ events \in [PaymentIds -> Seq(Event)]
    /\ DOMAIN payments \subseteq PaymentIds
    /\ \A p \in DOMAIN payments :
         /\ payments[p] \in Rows(p)
         /\ \A row \in Rows(p) :
              /\ Orderable(row)
              /\ SameMoney(row, payments[p])
              /\ row.version <= payments[p].version
    /\ \A p \in PaymentIds \ DOMAIN payments : Rows(p) = {}

\* A request decides on the row it reads under the reservation; the tab's
\* requests are authorizations, and only the tab authorizes.
RequestsOK ==
    \A r \in Requests :
        requests[r] # None =>
            /\ requests[r].copy = None
            /\ requests[r].at \in Nat
            /\ requests[r].command \in Command
            /\ requests[r].command \in AuthorizationCommand =>
                 boundedInteger(requests[r].command.amount)
            /\ requests[r].key \in TabKeys =>
                 requests[r].command \in AuthorizationCommand

\* A key of the tab has the payment that its submission asked for.
RecordsOK ==
    /\ \A k \in DOMAIN idempotency : \E p \in DOMAIN payments :
         /\ idempotency[k].payment_id = p
         /\ idempotency[k].response_snapshot \in Rows(p)
    /\ \A k \in DOMAIN idempotency \cap TabKeys :
         /\ idempotency[k].request_fingerprint \in AuthorizationCommand
         /\ SameMoney(idempotency[k].request_fingerprint,
                      idempotency[k].response_snapshot)
    /\ \A k, j \in DOMAIN idempotency \cap TabKeys :
         idempotency[k].payment_id = idempotency[j].payment_id => k = j

ServiceOK == HistoryOK /\ RequestsOK /\ RecordsOK /\ now \in Nat

\* A row is written: it is in the table, and the last of its payment's events.
Wrote(p, row) ==
    /\ DOMAIN payments' = DOMAIN payments \cup {p}
    /\ payments'[p] = row
    /\ \A q \in DOMAIN payments \ {p} : payments'[q] = payments[q]
    /\ events' = [q \in PaymentIds |-> events'[q]]
    /\ \E e \in Event : e.payment = row /\ events'[p] = Append(events[p], e)
    /\ \A q \in PaymentIds \ {p} : events'[q] = events[q]

\* The key of a request is recorded with the row it has written.
Recorded(key, command, p, row) ==
    /\ ~KeyTaken(key)
    /\ DOMAIN idempotency' = DOMAIN idempotency \cup {key}
    /\ idempotency'[key].request_fingerprint = command
    /\ idempotency'[key].payment_id = p
    /\ idempotency'[key].response_snapshot = row
    /\ \A k \in DOMAIN idempotency : idempotency'[k] = idempotency[k]

\* The change that the end of a request makes: a payment of its own for an
\* authorization, a move of an existing one for the other operations.
Change(r, p, row) ==
    /\ Wrote(p, row)
    /\ Recorded(requests[r].key, requests[r].command, p, row)
    /\ \/ p \notin DOMAIN payments /\ Made(requests[r].command, row)
       \/ /\ p \in DOMAIN payments /\ Moved(payments[p], row)
          /\ requests[r].command \notin AuthorizationCommand

\* Publish, and the claim's commit, as far as the tab can tell.
LEMMA Writes ==
    ASSUME HistoryOK, NEW r \in Requests, NEW p \in PaymentIds,
           NEW row \in Payment, NEW type \in EventTypes,
           Publish(Row(p, row), type), Claims(r), Commit(r, p, row)
    PROVE  Wrote(p, row) /\ Recorded(requests[r].key, requests[r].command, p, row)
<1>1. Wrote(p, row)
  <2> DEFINE e == [type |-> type, payment |-> row]
  <2>1. e \in Event /\ e.payment = row
    BY DEF Event
  <2>2. payments' = Put(payments, Row(p, row))
    BY DEF Publish
  <2>3. /\ DOMAIN payments' = DOMAIN payments \cup {p}
        /\ payments'[p] = row
        /\ \A q \in DOMAIN payments \ {p} : payments'[q] = payments[q]
    BY <2>2 DEF Put, Row
  <2>4. /\ events' = [q \in PaymentIds |-> events'[q]]
        /\ events'[p] = Append(events[p], e)
        /\ \A q \in PaymentIds \ {p} : events'[q] = events[q]
    BY DEF Publish, Row
  <2> HIDE DEF e
  <2> QED
    BY <2>1, <2>3, <2>4 DEF Wrote
<1>2. Recorded(requests[r].key, requests[r].command, p, row)
  <2> DEFINE record == [request_fingerprint |-> requests[r].command,
                        payment_id |-> p, response_snapshot |-> row]
             key == requests[r].key
  <2>1. idempotency' = Put(idempotency, Row(key, record))
    BY DEF Commit
  <2>2. /\ record.request_fingerprint = requests[r].command
        /\ record.payment_id = p /\ record.response_snapshot = row
    OBVIOUS
  <2>3. key \notin DOMAIN idempotency
    BY DEF Claims, KeyTaken
  <2> HIDE DEF record
  <2>4. /\ DOMAIN idempotency' = DOMAIN idempotency \cup {key}
        /\ idempotency'[key] = record
        /\ \A k \in DOMAIN idempotency : idempotency'[k] = idempotency[k]
    BY <2>1, <2>3 DEF Put, Row
  <2> QED
    BY <2>2, <2>3, <2>4 DEF Recorded, KeyTaken
<1> QED
  BY <1>1, <1>2

\* authorize_payment: the row is the one that was asked for.
LEMMA AuthorizeChanges ==
    ASSUME ServiceOK, NEW r \in Requests, NEW p \in PaymentIds, Authorize(r, p)
    PROVE  \E row : Change(r, p, row)
<1> DEFINE command == requests[r].command
           delayed == command.token = "AWAIT_CONFIRMATION"
           authorized == IF delayed THEN 0
                         ELSE authorize_amount(command.amount, command.token)
           status == IF delayed THEN "AWAITING_PAYMENT"
                     ELSE authorize_status(command.token)
           flow == IF delayed THEN "ASYNCHRONOUS_CONFIRMATION" ELSE "SYNCHRONOUS"
           expiry == IF delayed THEN requests[r].at + Window ELSE None
           row == [status |-> status, payment_flow |-> flow,
                   amount |-> command.amount, currency |-> command.currency,
                   expires_at |-> expiry,
                   authorized_amount |-> authorized, captured_amount |-> 0,
                   refunded_amount |-> 0, version |-> 1]
           type == IF delayed THEN "payment.confirmation_requested"
                   ELSE IF status = "AUTHORIZED" THEN "payment.authorized"
                   ELSE "payment.declined"
<1>1. /\ Claims(r) /\ p \notin DOMAIN payments
      /\ command.operation = "AUTHORIZE"
      /\ Publish(Row(p, row), type)
      /\ Commit(r, p, row)
  BY DEF Authorize
<1>2. command \in AuthorizationCommand /\ requests[r].at \in Nat
  <2>1. requests[r] # None
    BY <1>1 DEF Claims
  <2>2. command \in Command /\ requests[r].at \in Nat
    BY <2>1 DEF ServiceOK, RequestsOK
  <2> QED
    BY <1>1, <2>2 DEF Command, LifecycleCommand
<1>3. /\ command.amount \in Amounts /\ command.amount \in Nat
      /\ command.currency \in Currencies
      /\ command.token \in {"APPROVE", "DECLINE", "AWAIT_CONFIRMATION"}
  BY <1>2, AmountsAssumption, TokensAssumption
     DEF AuthorizationCommand, PaymentMethodDecisions
<1> HIDE DEF command
<1>4. /\ status \in Statuses /\ flow \in Flows /\ expiry \in Nat \cup {None}
      /\ authorized \in Nat /\ type \in EventTypes
  BY <1>2, <1>3, WindowAssumption
     DEF Statuses, Flows, EventTypes, authorize_status, authorize_amount
<1>5. /\ flow = "ASYNCHRONOUS_CONFIRMATION" <=> command.token = "AWAIT_CONFIRMATION"
      /\ command.token # "AWAIT_CONFIRMATION" =>
           (status = "DECLINED" <=> command.token = "DECLINE")
  BY <1>3 DEF authorize_status
<1> HIDE DEF delayed, authorized, status, flow, expiry, type
<1>6. row \in Payment
  BY <1>3, <1>4 DEF Payment
<1>7. /\ row.amount = command.amount /\ row.currency = command.currency
      /\ row.payment_flow = flow /\ row.status = status
  OBVIOUS
<1> HIDE DEF row
<1>8. Made(command, row)
  BY <1>2, <1>3, <1>5, <1>6, <1>7 DEF Made, SameMoney, TokenOf
<1>9. Wrote(p, row) /\ Recorded(requests[r].key, requests[r].command, p, row)
  BY <1>1, <1>4, <1>6, Writes DEF ServiceOK
<1> QED
  BY <1>1, <1>8, <1>9 DEF Change, command

\* What capture, cancellation and refund do with the row they find.
LEMMA ApplyChanges ==
    ASSUME ServiceOK, NEW r \in Requests, NEW operation, NEW next, NEW entries,
           NEW type \in EventTypes,
           Finds(r, operation), operation # "AUTHORIZE",
           Apply(r, next, entries, type),
           \/ CanCapture(Loaded(r)) /\ next = capture(Loaded(r))
           \/ CanCancel(Loaded(r)) /\ next = cancel(Loaded(r))
           \/ \E amount \in Amounts :
                CanRefund(Loaded(r), amount) /\ next = refund(Loaded(r), amount)
    PROVE  \E p \in PaymentIds : \E row : Change(r, p, row)
<1> DEFINE p == requests[r].command.payment_id
           row == Bumped(next)
<1>1. /\ Claims(r) /\ p \in DOMAIN payments /\ p \in PaymentIds
      /\ requests[r].command.operation = operation
      /\ Publish(Row(p, row), type) /\ Commit(r, p, row)
  BY DEF Finds, Apply, ServiceOK, HistoryOK
<1>2. Loaded(r) = payments[p]
  BY <1>1 DEF Loaded, Claims, ServiceOK, RequestsOK
<1>3. payments[p] \in Payment
  BY <1>1 DEF ServiceOK, HistoryOK, Orderable
<1>4. Moved(payments[p], row)
  BY <1>2, <1>3, RulesMove
<1>5. requests[r].command \notin AuthorizationCommand
  BY <1>1 DEF AuthorizationCommand
<1> HIDE DEF p, row
<1>6. row \in Payment
  BY <1>4 DEF Moved
<1>7. Wrote(p, row) /\ Recorded(requests[r].key, requests[r].command, p, row)
  BY <1>1, <1>6, Writes DEF ServiceOK
<1> QED
  BY <1>1, <1>4, <1>5, <1>7 DEF Change

\* Whatever a request does next, it changes nothing or makes one change.
LEMMA RequestChanges ==
    ASSUME ServiceOK, NEW r \in Requests, Perform(r) \/ Interrupt(r)
    PROVE  /\ UNCHANGED now
           /\ \/ UNCHANGED <<payments, events, idempotency>>
              \/ \E p \in PaymentIds : \E row : Change(r, p, row)
<1>1. CASE ReplayConcurrent(r) \/ Refuse(r) \/ Interrupt(r)
  BY <1>1 DEF ReplayConcurrent, Refuse, Interrupt, storeVars
<1>2. CASE \E p \in PaymentIds : Authorize(r, p)
  <2>1. PICK p \in PaymentIds : Authorize(r, p)
    BY <1>2
  <2>2. UNCHANGED now
    BY <2>1 DEF Authorize
  <2> QED
    BY <2>1, <2>2, AuthorizeChanges
<1>3. CASE Capture(r)
  <2>1. PICK entries :
          /\ Finds(r, "CAPTURE") /\ CanCapture(Loaded(r))
          /\ Apply(r, capture(Loaded(r)), entries, "payment.captured")
    BY <1>3 DEF Capture
  <2> QED
    BY <2>1, ApplyChanges DEF Apply, EventTypes
<1>4. CASE Cancel(r)
  <2>1. PICK entries :
          /\ Finds(r, "CANCEL") /\ CanCancel(Loaded(r))
          /\ Apply(r, cancel(Loaded(r)), entries, "payment.cancelled")
    BY <1>4 DEF Cancel, Cancellable
  <2> QED
    BY <2>1, ApplyChanges DEF Apply, EventTypes
<1>5. CASE Refund(r)
  <2> DEFINE amount == requests[r].command.amount
  <2>1. PICK entries :
          /\ Finds(r, "REFUND") /\ CanRefund(Loaded(r), amount)
          /\ Apply(r, refund(Loaded(r), amount), entries, "payment.refunded")
    BY <1>5 DEF Refund
  <2>2. amount \in Amounts
    BY <2>1 DEF Finds, Claims, ServiceOK, RequestsOK, Command, LifecycleCommand,
                AuthorizationCommand
  <2> HIDE DEF amount
  <2> QED
    BY <2>1, <2>2, ApplyChanges DEF Apply, EventTypes
<1> QED
  BY <1>1, <1>2, <1>3, <1>4, <1>5 DEF Perform

----------------------------------------------------------------------------
(* What the service knows is kept.                                         *)

\* Payments and their versions only become more.
BooksGrow ==
    /\ DOMAIN payments \subseteq DOMAIN payments'
    /\ \A p \in PaymentIds : Rows(p) \subseteq Rows(p)'

\* Versions are counted with numbers.
LEMMA OrderableFields ==
    ASSUME NEW row, Orderable(row)
    PROVE  row \in Payment /\ row.version \in Nat
BY DEF Orderable, Payment

\* A row of the payment's own, or a later one, keeps the history in order.
LEMMA HistoryKept ==
    ASSUME HistoryOK, NEW p \in PaymentIds, NEW row, Wrote(p, row), Orderable(row),
           p \in DOMAIN payments =>
              SameMoney(payments[p], row) /\ row.version >= payments[p].version
    PROVE  /\ HistoryOK' /\ BooksGrow
           /\ row \in Rows(p)'
<1>1. PICK e \in Event : e.payment = row /\ events'[p] = Append(events[p], e)
  BY DEF Wrote
<1>2. \A q \in PaymentIds : events[q] \in Seq(Event)
  BY DEF HistoryOK
<1>3. events' \in [PaymentIds -> Seq(Event)]
  <2>1. ASSUME NEW q \in PaymentIds PROVE events'[q] \in Seq(Event)
    <3>1. CASE q = p
      <4>1. \A s \in Seq(Event) : Append(s, e) \in Seq(Event)
        OBVIOUS
      <4>2. events'[q] = Append(events[q], e)
        BY <1>1, <3>1
      <4> QED
        BY <1>2, <4>1, <4>2
    <3>2. CASE q # p
      BY <1>2, <3>2 DEF Wrote
    <3> QED
      BY <3>1, <3>2
  <2> QED
    BY <2>1 DEF Wrote
<1>4. Rows(p)' = Rows(p) \cup {row}
  <2> DEFINE old == events[p]
             new == events'[p]
  <2>1. old \in Seq(Event) /\ new = Append(old, e)
    BY <1>1, <1>2
  <2> HIDE DEF old, new
  <2>2. /\ DOMAIN new = DOMAIN old \cup {Len(old) + 1}
        /\ \A v \in DOMAIN old : new[v] = old[v]
        /\ new[Len(old) + 1] = e
    BY <2>1
  <2>3. {new[v].payment : v \in DOMAIN new} = {old[v].payment : v \in DOMAIN old} \cup {row}
    BY <1>1, <2>2
  <2> QED
    BY <2>3 DEF Rows, old, new
<1>5. \A q \in PaymentIds \ {p} : Rows(q)' = Rows(q)
  BY DEF Wrote, Rows
<1>6. DOMAIN payments' = DOMAIN payments \cup {p}
  BY DEF Wrote
<1>7. ASSUME NEW q \in DOMAIN payments'
      PROVE  /\ payments'[q] \in Rows(q)'
             /\ \A s \in Rows(q)' :
                  /\ Orderable(s)
                  /\ SameMoney(s, payments'[q])
                  /\ s.version <= payments'[q].version
  <2>1. CASE q # p
    <3>1. q \in DOMAIN payments /\ payments'[q] = payments[q] /\ q \in PaymentIds
      BY <1>6, <2>1 DEF Wrote, HistoryOK
    <3>2. Rows(q)' = Rows(q)
      BY <1>5, <2>1, <3>1
    <3> QED
      BY <3>1, <3>2 DEF HistoryOK
  <2>2. CASE q = p
    <3>1. payments'[p] = row
      BY DEF Wrote
    <3>2. ASSUME NEW s \in Rows(p)
          PROVE  Orderable(s) /\ SameMoney(s, row) /\ s.version <= row.version
      <4>1. p \in DOMAIN payments
        BY <3>2 DEF HistoryOK
      <4>2. /\ Orderable(s) /\ SameMoney(s, payments[p])
            /\ s.version <= payments[p].version
            /\ Orderable(payments[p])
        BY <3>2, <4>1 DEF HistoryOK
      <4>3. /\ s.version \in Nat /\ row.version \in Nat
            /\ payments[p].version \in Nat
        BY <4>2, OrderableFields
      <4> QED
        BY <4>1, <4>2, <4>3 DEF SameMoney
    <3>3. row.version \in Nat
      BY OrderableFields
    <3> QED
      BY <1>4, <2>2, <3>1, <3>2, <3>3 DEF SameMoney
  <2> QED
    BY <2>1, <2>2
<1>8. \A q \in PaymentIds \ DOMAIN payments' : Rows(q)' = {}
  BY <1>5, <1>6 DEF HistoryOK
<1>9. DOMAIN payments' \subseteq PaymentIds
  BY <1>6 DEF HistoryOK
<1>10. HistoryOK'
  BY <1>3, <1>7, <1>8, <1>9 DEF HistoryOK
<1>11. \A q \in PaymentIds : Rows(q) \subseteq Rows(q)'
  BY <1>4, <1>5
<1>12. BooksGrow
  BY <1>6, <1>11 DEF BooksGrow
<1> QED
  BY <1>4, <1>10, <1>12

\* The end of a request keeps all of it.
LEMMA RequestKeeps ==
    ASSUME ServiceShape, ServiceOK, NEW r \in Requests, Perform(r) \/ Interrupt(r)
    PROVE  ServiceOK' /\ BooksGrow
<1>1. OnlySlot(r) /\ requests[r] # None /\ requests'[r] = None
  BY RequestStep DEF Ended
<1>2. RequestsOK'
  <2>1. \A q \in Requests : requests'[q] = requests[q] \/ requests'[q] = None
    BY <1>1 DEF OnlySlot
  <2> QED
    BY <2>1 DEF ServiceOK, RequestsOK
<1>3. now' \in Nat
  BY RequestChanges DEF ServiceOK
<1>4. CASE UNCHANGED <<payments, events, idempotency>>
  <2>1. \A p : Rows(p)' = Rows(p)
    BY <1>4 DEF Rows
  <2>2. HistoryOK'
    BY <1>4, <2>1 DEF ServiceOK, HistoryOK
  <2>3. RecordsOK'
    BY <1>4, <2>1 DEF ServiceOK, RecordsOK
  <2>4. BooksGrow
    BY <1>4, <2>1 DEF BooksGrow
  <2> QED
    BY <1>2, <1>3, <2>2, <2>3, <2>4 DEF ServiceOK
<1>5. CASE \E p \in PaymentIds : \E row : Change(r, p, row)
  <2> DEFINE key == requests[r].key
             command == requests[r].command
  <2>0. PICK p \in PaymentIds : \E row : Change(r, p, row)
    BY <1>5
  <2>1. PICK row : Change(r, p, row)
    BY <2>0
  <2>2. /\ Wrote(p, row) /\ Recorded(key, command, p, row)
        /\ \/ p \notin DOMAIN payments /\ Made(command, row)
           \/ /\ p \in DOMAIN payments /\ Moved(payments[p], row)
              /\ command \notin AuthorizationCommand
    BY <2>1 DEF Change
  <2>3. /\ command \in AuthorizationCommand => boundedInteger(command.amount)
        /\ key \in TabKeys => command \in AuthorizationCommand
    BY <1>1 DEF ServiceOK, RequestsOK
  <2> HIDE DEF key, command
  <2>4. Orderable(row)
    <3>1. CASE p \notin DOMAIN payments /\ Made(command, row)
      BY <2>3, <3>1 DEF Made, Orderable, SameMoney, AuthorizationCommand
    <3>2. CASE p \in DOMAIN payments /\ Moved(payments[p], row)
      <4>1. Orderable(payments[p])
        BY <3>2 DEF ServiceOK, HistoryOK
      <4> QED
        BY <3>2, <4>1 DEF Moved, Orderable, SameMoney
    <3> QED
      BY <2>2, <3>1, <3>2
  <2>5. HistoryOK' /\ BooksGrow /\ row \in Rows(p)'
    BY <2>2, <2>4, HistoryKept DEF ServiceOK, Moved
  <2>6. /\ DOMAIN idempotency' = DOMAIN idempotency \cup {key}
        /\ key \notin DOMAIN idempotency
        /\ idempotency'[key].request_fingerprint = command
        /\ idempotency'[key].payment_id = p
        /\ idempotency'[key].response_snapshot = row
        /\ \A k \in DOMAIN idempotency : idempotency'[k] = idempotency[k]
    BY <2>2 DEF Recorded, KeyTaken
  <2>7. p \in DOMAIN payments' /\ DOMAIN payments \subseteq DOMAIN payments'
    BY <2>2 DEF Wrote
  <2>8. key \in TabKeys =>
          /\ p \notin DOMAIN payments
          /\ command \in AuthorizationCommand /\ SameMoney(command, row)
    BY <2>2, <2>3 DEF Made
  <2>9. \A k \in DOMAIN idempotency' : \E q \in DOMAIN payments' :
           /\ idempotency'[k].payment_id = q
           /\ idempotency'[k].response_snapshot \in Rows(q)'
    <3> SUFFICES ASSUME NEW k \in DOMAIN idempotency'
                 PROVE  \E q \in DOMAIN payments' :
                           /\ idempotency'[k].payment_id = q
                           /\ idempotency'[k].response_snapshot \in Rows(q)'
      OBVIOUS
    <3>1. CASE k = key
      BY <2>5, <2>6, <2>7, <3>1
    <3>2. CASE k \in DOMAIN idempotency
      <4>1. PICK q \in DOMAIN payments :
              /\ idempotency[k].payment_id = q
              /\ idempotency[k].response_snapshot \in Rows(q)
        BY <3>2 DEF ServiceOK, RecordsOK
      <4>2. q \in PaymentIds
        BY <4>1 DEF ServiceOK, HistoryOK
      <4>3. Rows(q) \subseteq Rows(q)'
        BY <2>5, <4>2 DEF BooksGrow
      <4> QED
        BY <2>6, <2>7, <3>2, <4>1, <4>3
    <3> QED
      BY <2>6, <3>1, <3>2
  <2>10. \A k \in DOMAIN idempotency' \cap TabKeys :
           /\ idempotency'[k].request_fingerprint \in AuthorizationCommand
           /\ SameMoney(idempotency'[k].request_fingerprint,
                        idempotency'[k].response_snapshot)
    BY <2>6, <2>8 DEF ServiceOK, RecordsOK
  <2>11. \A k, j \in DOMAIN idempotency' \cap TabKeys :
           idempotency'[k].payment_id = idempotency'[j].payment_id => k = j
    <3>1. \A k \in DOMAIN idempotency : idempotency[k].payment_id \in DOMAIN payments
      BY DEF ServiceOK, RecordsOK
    <3> QED
      BY <2>6, <2>8, <3>1 DEF ServiceOK, RecordsOK
  <2>12. RecordsOK'
    BY <2>9, <2>10, <2>11 DEF RecordsOK
  <2> QED
    BY <1>2, <1>3, <2>5, <2>12 DEF ServiceOK
<1> QED
  BY <1>4, <1>5, RequestChanges

\* A request that arrives is one of the tab's authorizations, or another
\* client's operation on a payment.
LEMMA ArrivalKeeps ==
    ASSUME ServiceShape, ServiceOK, NEW r \in Requests, NEW command \in Command,
           NEW key, Arrive(r, command, key, None),
           command \in AuthorizationCommand => boundedInteger(command.amount),
           key \in TabKeys => command \in AuthorizationCommand
    PROVE  ServiceOK' /\ BooksGrow
<1>1. UNCHANGED <<payments, events, idempotency, now>>
  BY DEF Arrive, storeVars
<1>2. \A p : Rows(p)' = Rows(p)
  BY <1>1 DEF Rows
<1>3. HistoryOK'
  BY <1>1, <1>2 DEF ServiceOK, HistoryOK
<1>4. RecordsOK'
  BY <1>1, <1>2 DEF ServiceOK, RecordsOK
<1>5. BooksGrow
  BY <1>1, <1>2 DEF BooksGrow
<1>6. RequestsOK'
  <2> DEFINE at == IF command.operation = "AUTHORIZE" THEN now ELSE 0
             request == [command |-> command, key |-> key, copy |-> None, at |-> at]
  <2>1. /\ requests = [q \in Requests |-> requests[q]]
        /\ \/ requests' = [requests EXCEPT ![r] = None]
           \/ requests' = [requests EXCEPT ![r] = request]
    BY DEF Arrive, Done, ServiceShape
  <2>2. at \in Nat
    BY DEF ServiceOK
  <2>3. request.command = command /\ request.key = key /\ request.copy = None
        /\ request.at = at
    OBVIOUS
  <2> HIDE DEF at, request
  <2>4. \A q \in Requests :
          requests'[q] \in {requests[q], None} \/ requests'[q] = request
    BY <2>1
  <2> QED
    BY <2>2, <2>3, <2>4 DEF ServiceOK, RequestsOK
<1> QED
  BY <1>1, <1>3, <1>4, <1>5, <1>6 DEF ServiceOK

----------------------------------------------------------------------------
(* What the page shows.                                                    *)

\* The rest of what TypeOK says, which IInv does not.
PageTyped ==
    /\ lastPaymentId \in PaymentIds \cup {Undefined, None}
    /\ form \in Form \cup {None}
    /\ currentPayment \in Display
    /\ refreshFailed \in BOOLEAN
    /\ reading \subseteq ReadRequest
    /\ seen \subseteq PaymentIds

\* The row on display is a published version of the payment on display.
ShownIsPublished ==
    currentPayment.row # None =>
        \E p \in DOMAIN payments :
            currentPayment.id = p /\ currentPayment.row \in Rows(p)

\* The controls say what the row on display says.
FormIsOfResult ==
    uiState = "final" /\ currentPayment.row # None =>
        /\ validateForm(form)
        /\ SameMoney(Submission(form), currentPayment.row)
        /\ form.currency = currentPayment.row.currency

\* A read comes back with a published version of its payment, and a refresh
\* with none that is older than the one on display.
ReadsArePublished ==
    \A request \in reading :
        /\ request.row # None =>
             \E p \in DOMAIN payments :
                 request.id = p /\ request.row \in Rows(p)
        /\ request.reason = "refresh" => currentPayment.row # None
        /\ request.reason = "refresh" /\ request.row # None =>
             request.row.version >= currentPayment.row.version

Shown == PageTyped /\ ShownIsPublished /\ FormIsOfResult /\ ReadsArePublished

ResultInv == IInv /\ ServiceOK /\ Shown

\* Nothing is displayed, and nothing asked for, in the empty tab.
LEMMA InitResult ==
    ASSUME Init
    PROVE  ResultInv
<1>1. /\ payments = [p \in {} |-> None] /\ events = [p \in PaymentIds |-> <<>>]
      /\ now = 0 /\ idempotency = [k \in {} |-> None]
      /\ requests = [r \in Requests |-> None]
      /\ form = None /\ currentPayment = NoPayment /\ lastPaymentId = None
      /\ refreshFailed = FALSE /\ reading = {} /\ seen = {}
  BY DEF Init, StoreInit, LifecycleInit
<1>2. ServiceOK
  <2>1. \A p \in PaymentIds : events[p] \in Seq(Event) /\ Rows(p) = {}
    BY <1>1 DEF Rows
  <2>2. HistoryOK
    BY <1>1, <2>1 DEF HistoryOK
  <2> QED
    BY <1>1, <2>2 DEF ServiceOK, RequestsOK, RecordsOK
<1>3. Shown
  BY <1>1 DEF Shown, PageTyped, ShownIsPublished, FormIsOfResult,
              ReadsArePublished, NoPayment, Display
<1> QED
  BY <1>2, <1>3, InitInvariant DEF ResultInv

\* The service stands still.
LEMMA BooksStay ==
    ASSUME ServiceOK, UNCHANGED serviceVars
    PROVE  ServiceOK' /\ BooksGrow
<1>1. UNCHANGED <<payments, events, now, idempotency, requests>>
  BY DEF serviceVars, storeVars, lifecycleVars
<1>2. \A p : Rows(p)' = Rows(p)
  BY <1>1 DEF Rows
<1>3. HistoryOK' /\ BooksGrow
  BY <1>1, <1>2 DEF ServiceOK, HistoryOK, BooksGrow
<1>4. RequestsOK' /\ RecordsOK'
  BY <1>1, <1>2 DEF ServiceOK, RequestsOK, RecordsOK
<1> QED
  BY <1>1, <1>3, <1>4 DEF ServiceOK

\* What has been published stays published.
LEMMA StillPublished ==
    ASSUME HistoryOK, BooksGrow, UNCHANGED <<currentPayment, reading>>,
           ShownIsPublished, ReadsArePublished
    PROVE  ShownIsPublished' /\ ReadsArePublished'
<1>1. \A p \in DOMAIN payments : p \in DOMAIN payments' /\ Rows(p) \subseteq Rows(p)'
  BY DEF HistoryOK, BooksGrow
<1>2. ShownIsPublished'
  BY <1>1 DEF ShownIsPublished
<1>3. ReadsArePublished'
  BY <1>1 DEF ReadsArePublished
<1> QED
  BY <1>2, <1>3

\* A submission shows nothing new.
LEMMA SubmitShowsResult ==
    ASSUME ResultInv, NEW controls \in Form \cup {None}, submitPayment(controls),
           \/ uiState = "editing"
           \/ uiState = "uncertain" /\ controls = form
    PROVE  ServiceOK' /\ Shown'
<1> DEFINE command == Submission(controls)
<1>1. /\ uiState' = "processing" /\ form' = controls
      /\ validateForm(controls)
      /\ UNCHANGED <<lastPaymentId, currentPayment, refreshFailed, reading, seen>>
  BY Transitions DEF submitPayment, moveUi, ResultInv
<1>2. /\ command \in Command
      /\ boundedInteger(command.amount)
      /\ command \in AuthorizationCommand
  BY <1>1, SubmissionFields DEF Command
<1>3. PICK key \in TabKeys : Sent(key, command)
  BY DEF submitPayment
<1> HIDE DEF command
<1>4. ServiceOK' /\ BooksGrow
  <2>1. CASE UNCHANGED serviceVars
    BY <2>1, BooksStay DEF ResultInv
  <2>2. CASE \E r \in TabRequests : Arrive(r, command, key, None)
    <3>1. PICK r \in TabRequests : Arrive(r, command, key, None)
      BY <2>2
    <3>2. r \in Requests
      BY TabAssumption
    <3> QED
      BY <1>2, <3>1, <3>2, ArrivalKeeps DEF ResultInv, IInv
  <2> QED
    BY <1>3, <2>1, <2>2 DEF Sent
<1>5. ShownIsPublished' /\ ReadsArePublished'
  BY <1>1, <1>4, StillPublished DEF ResultInv, Shown, ServiceOK
<1>6. PageTyped' /\ FormIsOfResult'
  BY <1>1 DEF ResultInv, Shown, PageTyped, FormIsOfResult
<1> QED
  BY <1>4, <1>5, <1>6 DEF Shown

\* An answer is of the submission that the controls still hold.
LEMMA ResolvedShowsResult ==
    ASSUME ResultInv, PaymentResolved
    PROVE  ServiceOK' /\ Shown'
<1>1. /\ uiState = "processing" /\ posting # None
      /\ requests[posting] = None /\ answers[posting] # None
  BY DEF PaymentResolved, Answered
<1>2. PICK body \in Bodies(answers[posting]) : Resolves(body)
  BY DEF PaymentResolved
<1>3. /\ lastPaymentId' = body.id /\ currentPayment' = body
      /\ seen' = seen \cup ({body.id} \cap PaymentIds)
      /\ UNCHANGED <<form, refreshFailed, reading, serviceVars>>
  BY <1>2 DEF Resolves
<1>4. ServiceOK' /\ BooksGrow
  BY <1>3, BooksStay DEF ResultInv
<1>5. /\ activeKey \in TabKeys /\ KeyTaken(activeKey)
      /\ answers[posting].payment_id = idempotency[activeKey].payment_id
      /\ answers[posting].payment = idempotency[activeKey].response_snapshot
      /\ idempotency[activeKey].request_fingerprint = activeSubmission
      /\ validateForm(form) /\ Submission(form) = activeSubmission
  BY <1>1 DEF ResultInv, IInv, PostingIsActive, RetriesAskTheSame,
              ReloadShowsTheSame, KeysAreMinted
<1> DEFINE record == idempotency[activeKey]
           row == record.response_snapshot
<1>6. PICK p \in DOMAIN payments : record.payment_id = p /\ row \in Rows(p)
  BY <1>5 DEF ResultInv, ServiceOK, RecordsOK, KeyTaken
<1>7. SameMoney(activeSubmission, row)
  BY <1>5 DEF ResultInv, ServiceOK, RecordsOK, KeyTaken
<1>8. p \in PaymentIds /\ row \in Payment
  BY <1>6 DEF ResultInv, ServiceOK, HistoryOK, Orderable
<1>9. \/ body = [id |-> p, row |-> row]
      \/ body = [id |-> Undefined, row |-> None]
  BY <1>2, <1>5, <1>6 DEF Bodies
<1> HIDE DEF row
<1>10. reading = {}
  BY <1>1 DEF ResultInv, IInv, ReadsAreCurrent
<1>11. PageTyped'
  BY <1>3, <1>8, <1>9, <1>10 DEF ResultInv, Shown, PageTyped, Display
<1>12. ReadsArePublished'
  BY <1>3, <1>10 DEF ReadsArePublished
<1>13. ShownIsPublished'
  <2>1. p \in DOMAIN payments' /\ Rows(p) \subseteq Rows(p)'
    BY <1>4, <1>8 DEF BooksGrow
  <2> QED
    BY <1>3, <1>6, <1>9, <2>1 DEF ShownIsPublished
<1>14. FormIsOfResult'
  <2>1. form.currency = Submission(form).currency
    BY DEF Submission
  <2> QED
    BY <1>3, <1>5, <1>7, <1>9, <2>1 DEF FormIsOfResult, SameMoney
<1> QED
  BY <1>4, <1>11, <1>12, <1>13, <1>14 DEF Shown

\* A step after which nothing is on display.
LEMMA NothingShown ==
    ASSUME ResultInv, UNCHANGED serviceVars, currentPayment' = NoPayment,
           PageTyped',
           \/ reading' = {}
           \/ \E id : reading' = {[reason |-> "restore", id |-> id, row |-> None]}
    PROVE  ServiceOK' /\ Shown'
<1>1. ServiceOK' /\ BooksGrow
  BY BooksStay DEF ResultInv
<1>2. ShownIsPublished' /\ FormIsOfResult'
  BY DEF ShownIsPublished, FormIsOfResult, NoPayment
<1>3. ReadsArePublished'
  BY DEF ReadsArePublished
<1> QED
  BY <1>1, <1>2, <1>3 DEF Shown

\* The result is uncertain, refused, left behind or lost by a reload.
LEMMA LeftShowsNothing ==
    ASSUME ResultInv, ResultUncertain \/ ErrorStatus \/ resetCheckout \/ Reload
    PROVE  ServiceOK' /\ Shown'
<1>1. UNCHANGED serviceVars /\ currentPayment' = NoPayment
  BY DEF ResultUncertain, ErrorStatus, resetCheckout, Reload
<1>2. NoPayment \in Display
  BY DEF NoPayment, Display
<1>3. CASE ResultUncertain \/ ErrorStatus \/ resetCheckout
  <2>1. /\ reading' = reading
        /\ lastPaymentId' \in {lastPaymentId, None}
        /\ form' \in {form, None}
        /\ refreshFailed' \in {refreshFailed, FALSE}
        /\ seen' = seen
    BY <1>3 DEF ResultUncertain, ErrorStatus, resetCheckout, storageVars
  <2>2. reading = {}
    BY <1>3 DEF ResultUncertain, ErrorStatus, resetCheckout, CanLeave, Refreshing,
                ResultInv, IInv, ReadsAreCurrent
  <2>3. PageTyped'
    BY <1>1, <1>2, <2>1 DEF ResultInv, Shown, PageTyped
  <2> QED
    BY <1>1, <2>1, <2>2, <2>3, NothingShown
<1>4. CASE Reload
  <2>1. refreshFailed' = FALSE /\ seen' = seen /\ restorePayment
    BY <1>4 DEF Reload
  <2>2. /\ lastPaymentId' = lastPaymentId
        /\ \/ reading' = {}
           \/ /\ lastPaymentId # None
              /\ reading' = {[reason |-> "restore", id |-> lastPaymentId, row |-> None]}
    BY <2>1 DEF restorePayment, storageVars
  <2>3. form' \in Form \cup {None}
    <3>1. CASE form' = None
      BY <3>1
    <3>2. CASE form' = RestoredForm(activeSubmission) /\ Resumable
      <4> DEFINE amount == activeSubmission.amount
                 currency == activeSubmission.currency
                 text == displayAmountFromMinorUnits(amount, currency)
      <4>1. activeSubmission \in AuthorizationCommand /\ boundedInteger(amount)
        BY <3>2 DEF Resumable, ResultInv, IInv, SubmissionIsValid
      <4>2. amount \in Nat /\ currency \in Currencies /\ activeSubmission.token \in Tokens
        BY <4>1, AmountsAssumption DEF AuthorizationCommand
      <4>3. text \in AmountText
        BY <4>1, <4>2, DisplayRoundTrips
      <4>4. form' = [amount |-> text, currency |-> currency,
                     token |-> activeSubmission.token]
        BY <3>2 DEF RestoredForm
      <4> HIDE DEF text
      <4> QED
        BY <4>2, <4>3, <4>4 DEF Form
    <3> QED
      BY <2>1, <3>1, <3>2 DEF restorePayment
  <2>4. PageTyped'
    <3>1. lastPaymentId \in PaymentIds \cup {Undefined, None} /\ seen \subseteq PaymentIds
      BY DEF ResultInv, Shown, PageTyped
    <3>2. \A id \in PaymentIds \cup {Undefined} :
            [reason |-> "restore", id |-> id, row |-> None] \in ReadRequest
      BY DEF ReadRequest
    <3>3. reading' \subseteq ReadRequest
      BY <2>2, <3>1, <3>2
    <3> QED
      BY <1>1, <1>2, <2>1, <2>2, <2>3, <3>1, <3>3 DEF PageTyped
  <2> QED
    BY <1>1, <2>2, <2>4, NothingShown
<1> QED
  BY <1>3, <1>4

\* A refresh asks for the payment on display.
LEMMA StartRefreshShows ==
    ASSUME ResultInv, StartRefresh
    PROVE  ServiceOK' /\ Shown'
<1> DEFINE request == [reason |-> "refresh", id |-> currentPayment.id, row |-> None]
<1>1. /\ ~Refreshing /\ uiState = "final" /\ currentPayment.row # None
      /\ refreshFailed' = FALSE
      /\ reading' = reading \cup {request}
      /\ UNCHANGED <<lastPaymentId, uiState, form, currentPayment, seen, serviceVars>>
  BY DEF StartRefresh, CanRefresh, storageVars
<1>2. ServiceOK' /\ BooksGrow
  BY <1>1, BooksStay DEF ResultInv
<1>3. PICK p \in DOMAIN payments : currentPayment.id = p /\ currentPayment.row \in Rows(p)
  BY <1>1 DEF ResultInv, Shown, ShownIsPublished
<1>4. p \in PaymentIds
  BY <1>3 DEF ResultInv, ServiceOK, HistoryOK
<1>5. request \in ReadRequest
  BY <1>3, <1>4 DEF ReadRequest
<1>6. request.row = None
  OBVIOUS
<1> HIDE DEF request
<1>7. reading = {}
  BY <1>1 DEF ResultInv, IInv, ReadsAreCurrent, Refreshing
<1>8. PageTyped' /\ FormIsOfResult'
  BY <1>1, <1>5 DEF ResultInv, Shown, PageTyped, FormIsOfResult
<1>9. ShownIsPublished'
  BY <1>1, <1>2, StillPublished, <1>4
     DEF ResultInv, Shown, ShownIsPublished, ServiceOK, HistoryOK, BooksGrow
<1>10. ReadsArePublished'
  BY <1>1, <1>6, <1>7 DEF ReadsArePublished
<1> QED
  BY <1>2, <1>8, <1>9, <1>10 DEF Shown

\* A read is served with the current row, or its answer replaces the payment on
\* display by itself, as it is now.
LEMMA ReadShows ==
    ASSUME ResultInv, NEW request \in reading,
           \/ ServeRead(request)
           \/ Restored(request) \/ NotRestored(request)
           \/ Refreshed(request) \/ NotRefreshed(request)
    PROVE  ServiceOK' /\ Shown'
<1>1. /\ reading = {request}
      /\ request = [reason |-> request.reason, id |-> lastPaymentId,
                    row |-> request.row]
      /\ \/ request.reason = "restore" /\ uiState = "restoring"
         \/ request.reason = "refresh" /\ uiState = "final"
  BY DEF ResultInv, IInv, ReadsAreCurrent
<1>2. /\ request \in ReadRequest
      /\ request.row # None =>
           \E p \in DOMAIN payments : request.id = p /\ request.row \in Rows(p)
      /\ request.reason = "refresh" => currentPayment.row # None
  BY DEF ResultInv, Shown, PageTyped, ReadsArePublished
<1>3. UNCHANGED serviceVars
  BY DEF ServeRead, Restored, NotRestored, Refreshed, NotRefreshed
<1>4. ServiceOK' /\ BooksGrow
  BY <1>3, BooksStay DEF ResultInv
<1>5. UNCHANGED payments /\ \A p : Rows(p)' = Rows(p)
  BY <1>3 DEF serviceVars, storeVars, Rows
<1>6. CASE ServeRead(request)
  <2> DEFINE row == payments[request.id]
             served == [request EXCEPT !.row = row]
             p == request.id
  <2>1. /\ p \in DOMAIN payments
        /\ reading' = {served}
        /\ UNCHANGED <<lastPaymentId, uiState, form, currentPayment,
                       refreshFailed, seen>>
    BY <1>1, <1>6 DEF ServeRead, storageVars
  <2>2. /\ row \in Rows(p) /\ row \in Payment /\ p \in PaymentIds
        /\ \A s \in Rows(p) : s.version <= row.version
    BY <2>1 DEF ResultInv, ServiceOK, HistoryOK, Orderable
  <2>3. served = [reason |-> request.reason, id |-> p, row |-> row]
    BY <1>1
  <2>4. served \in ReadRequest
    BY <1>2, <2>2, <2>3 DEF ReadRequest
  <2>5. served.reason = request.reason /\ served.id = p /\ served.row = row
    BY <2>3
  <2> HIDE DEF row, served, p
  <2>6. request.reason = "refresh" =>
          /\ currentPayment.row # None
          /\ row.version >= currentPayment.row.version
    <3> SUFFICES ASSUME request.reason = "refresh"
                 PROVE  /\ currentPayment.row # None
                        /\ row.version >= currentPayment.row.version
      OBVIOUS
    <3>1. currentPayment.row # None /\ currentPayment.id = lastPaymentId
      BY <1>1, <1>2 DEF ResultInv, IInv, ReloadShowsTheSame
    <3>2. p = lastPaymentId
      BY <1>1 DEF p
    <3>3. currentPayment.row \in Rows(p)
      BY <3>1, <3>2 DEF ResultInv, Shown, ShownIsPublished
    <3>4. /\ currentPayment.row.version <= row.version
          /\ currentPayment.row.version \in Nat /\ row.version \in Nat
      BY <2>1, <2>2, <3>3, OrderableFields DEF ResultInv, ServiceOK, HistoryOK
    <3> QED
      BY <3>1, <3>4
  <2>7. PageTyped' /\ FormIsOfResult' /\ ShownIsPublished'
    BY <1>5, <2>1, <2>4
       DEF ResultInv, Shown, PageTyped, FormIsOfResult, ShownIsPublished
  <2>8. ReadsArePublished'
    BY <1>5, <2>1, <2>2, <2>5, <2>6 DEF ReadsArePublished
  <2> QED
    BY <1>4, <2>7, <2>8 DEF Shown
<1>7. CASE Restored(request) \/ Refreshed(request)
  <2> DEFINE row == request.row
  <2>1. /\ row # None
        /\ currentPayment' = [id |-> request.id, row |-> row]
        /\ reading' = {}
        /\ UNCHANGED <<lastPaymentId, refreshFailed>>
    BY <1>1, <1>7 DEF Restored, Refreshed, storageVars
  <2>2. PICK p \in DOMAIN payments : request.id = p /\ row \in Rows(p)
    BY <1>2, <2>1
  <2>3. p \in PaymentIds /\ Orderable(row) /\ row \in Payment
    BY <2>2 DEF ResultInv, ServiceOK, HistoryOK, Orderable
  <2> HIDE DEF row
  <2>4. seen' \subseteq PaymentIds
    BY <1>7, <2>2, <2>3 DEF ResultInv, Shown, PageTyped, Restored, Refreshed
  <2>5. /\ form' \in Form \cup {None}
        /\ validateForm(form')
        /\ SameMoney(Submission(form'), row)
        /\ form'.currency = row.currency
    <3>1. CASE Restored(request)
      <4>1. form' = populateControlsFromPayment(row)
        BY <3>1 DEF Restored, row
      <4> QED
        BY <2>3, <4>1, PopulatedForm
    <3>2. CASE Refreshed(request)
      <4>1. form' = form /\ uiState = "final" /\ currentPayment.row # None
        BY <1>1, <1>2, <3>2 DEF Refreshed
      <4>2. /\ validateForm(form)
            /\ SameMoney(Submission(form), currentPayment.row)
            /\ form.currency = currentPayment.row.currency
        BY <4>1 DEF ResultInv, Shown, FormIsOfResult
      <4>3. currentPayment.id = p
        BY <1>1, <2>2, <4>1 DEF ResultInv, IInv, ReloadShowsTheSame, Displayed, NoPayment
      <4>4. currentPayment.row \in Rows(p)
        BY <4>1, <4>3 DEF ResultInv, Shown, ShownIsPublished
      <4>5. SameMoney(currentPayment.row, row)
        BY <2>2, <4>4 DEF ResultInv, ServiceOK, HistoryOK, SameMoney
      <4> QED
        BY <4>1, <4>2, <4>5 DEF ResultInv, Shown, PageTyped, SameMoney
    <3> QED
      BY <1>7, <3>1, <3>2
  <2>6. PageTyped'
    BY <2>1, <2>2, <2>3, <2>4, <2>5 DEF ResultInv, Shown, PageTyped, Display
  <2>7. ShownIsPublished'
    BY <1>5, <2>1, <2>2 DEF ShownIsPublished
  <2>8. FormIsOfResult' /\ ReadsArePublished'
    BY <2>1, <2>5 DEF FormIsOfResult, ReadsArePublished
  <2> QED
    BY <1>4, <2>6, <2>7, <2>8 DEF Shown
<1>8. CASE NotRestored(request) \/ NotRefreshed(request)
  <2>1. /\ reading' = {}
        /\ lastPaymentId' \in {lastPaymentId, None}
        /\ refreshFailed' \in {refreshFailed, TRUE}
        /\ UNCHANGED <<form, currentPayment, seen>>
        /\ uiState' = uiState \/ uiState' = "error"
    BY <1>1, <1>8, Transitions DEF NotRestored, NotRefreshed, storageVars, moveUi
  <2>2. PageTyped' /\ FormIsOfResult'
    BY <2>1 DEF ResultInv, Shown, PageTyped, FormIsOfResult
  <2>3. ShownIsPublished' /\ ReadsArePublished'
    BY <1>5, <2>1 DEF ResultInv, Shown, ShownIsPublished, ReadsArePublished
  <2> QED
    BY <1>4, <2>2, <2>3 DEF Shown
<1> QED
  BY <1>6, <1>7, <1>8

\* The service takes a step, and the page none.
LEMMA ServiceShowsResult ==
    ASSUME ResultInv, Service
    PROVE  ServiceOK' /\ Shown'
<1>1. UNCHANGED <<lastPaymentId, uiState, form, currentPayment, refreshFailed,
                  reading, seen>>
  BY DEF Service, tabVars, storageVars, pageVars
<1>2. ServiceOK' /\ BooksGrow
  <2>1. CASE \E r \in Requests : Perform(r) \/ Interrupt(r)
    BY <2>1, RequestKeeps DEF ResultInv, IInv
  <2>2. CASE Elsewhere
    <3>1. PICK r \in Requests \ TabRequests, command \in LifecycleCommand,
               key \in Keys \ TabKeys :
             Arrive(r, command, key, None)
      BY <2>2 DEF Elsewhere
    <3>2. command \in Command /\ command \notin AuthorizationCommand
      BY <3>1 DEF Command, LifecycleCommand, AuthorizationCommand
    <3> QED
      BY <3>1, <3>2, ArrivalKeeps DEF ResultInv, IInv
  <2> QED
    BY <2>1, <2>2 DEF Service
<1>3. ShownIsPublished' /\ ReadsArePublished'
  BY <1>1, <1>2, StillPublished DEF ResultInv, Shown, ServiceOK
<1>4. PageTyped' /\ FormIsOfResult'
  BY <1>1 DEF ResultInv, Shown, PageTyped, FormIsOfResult
<1> QED
  BY <1>2, <1>3, <1>4 DEF Shown

\* Every step of the tab and of the service.
LEMMA NextResult ==
    ASSUME ResultInv, [Next]_vars
    PROVE  ResultInv'
<1>1. IInv'
  BY NextInvariant DEF ResultInv
<1>2. CASE Submit
  <2>1. PICK controls \in Forms : submitPayment(controls)
    BY <1>2 DEF Submit
  <2>2. controls \in Form \cup {None}
    BY TabAssumption DEF Form
  <2> QED
    BY <1>1, <1>2, <2>1, <2>2, SubmitShowsResult DEF ResultInv, Submit
<1>3. CASE Retry
  <2>1. form \in Form \cup {None}
    BY DEF ResultInv, Shown, PageTyped
  <2> QED
    BY <1>1, <1>3, <2>1, SubmitShowsResult DEF ResultInv, Retry
<1>4. CASE PaymentResolved
  BY <1>1, <1>4, ResolvedShowsResult DEF ResultInv
<1>5. CASE ResultUncertain \/ ErrorStatus \/ resetCheckout \/ Reload
  BY <1>1, <1>5, LeftShowsNothing DEF ResultInv
<1>6. CASE StartRefresh
  BY <1>1, <1>6, StartRefreshShows DEF ResultInv
<1>7. CASE Read
  BY <1>1, <1>7, ReadShows DEF ResultInv, Read
<1>8. CASE Service
  BY <1>1, <1>8, ServiceShowsResult DEF ResultInv
<1>9. CASE UNCHANGED vars
  <2>1. UNCHANGED <<lastPaymentId, uiState, form, currentPayment, refreshFailed,
                    reading, seen, serviceVars>>
    BY <1>9 DEF vars, tabVars, storageVars, pageVars
  <2>2. ServiceOK' /\ BooksGrow
    BY <2>1, BooksStay DEF ResultInv
  <2>3. ShownIsPublished' /\ ReadsArePublished'
    BY <2>1, <2>2, StillPublished DEF ResultInv, Shown, ServiceOK
  <2>4. PageTyped' /\ FormIsOfResult'
    BY <2>1 DEF ResultInv, Shown, PageTyped, FormIsOfResult
  <2> QED
    BY <1>1, <2>2, <2>3, <2>4 DEF ResultInv, Shown
<1> QED
  BY <1>2, <1>3, <1>4, <1>5, <1>6, <1>7, <1>8, <1>9 DEF Next

\* The invariant of the page and the service together.
LEMMA ResultInvariant == Spec => []ResultInv
<1>1. Init => ResultInv
  BY InitResult
<1>2. ResultInv /\ [Next]_vars => ResultInv'
  BY NextResult
<1> QED
  BY <1>1, <1>2, PTL DEF Spec

----------------------------------------------------------------------------
(* Theorems about what is displayed.                                       *)

\* A key is dropped while it is the active one, if at all.
LEMMA DroppedKeys ==
    ASSUME ResultInv, [Next]_vars
    PROVE  abandoned' = abandoned \/ abandoned' = abandoned \cup ({activeKey} \cap TabKeys)
<1>1. uiState = "processing" => activeKey \in TabKeys
  BY DEF ResultInv, IInv, KeysAreMinted, ReloadShowsTheSame
<1>2. CASE PaymentResolved \/ ErrorStatus
  BY <1>1, <1>2 DEF PaymentResolved, Resolves, ErrorStatus
<1>3. CASE Submit \/ Retry
  BY <1>3 DEF Submit, Retry, submitPayment
<1>4. CASE \/ ResultUncertain \/ resetCheckout \/ Reload \/ StartRefresh \/ Read
           \/ Service \/ UNCHANGED vars
  BY <1>4 DEF ResultUncertain, resetCheckout, Reload, StartRefresh, Read,
              ServeRead, Restored, NotRestored, Refreshed, NotRefreshed, Service,
              vars, tabVars
<1> QED
  BY <1>2, <1>3, <1>4 DEF Next

\* sessionStorage, the controls, the page's fields and its reads keep their
\* types, and transitionUiState never throws.
THEOREM TabTypeCorrect == Spec => []TypeOK
<1> DEFINE Inv == ResultInv /\ abandoned \subseteq TabKeys
<1>1. Init => Inv
  BY InitResult DEF Init
<1>2. Inv /\ [Next]_vars => Inv'
  BY NextResult, DroppedKeys
<1>3. Inv => TypeOK
  <2> SUFFICES ASSUME Inv PROVE TypeOK
    OBVIOUS
  <2>1. activeKey \in TabKeys \cup {None} /\ minted \subseteq TabKeys
    BY DEF ResultInv, IInv, KeysAreMinted
  <2>2. activeSubmission \in AuthorizationCommand \cup {None}
    BY DEF ResultInv, IInv, SubmissionIsValid
  <2>3. uiState \in UiStates
    BY DEF ResultInv, IInv, ReadsAreCurrent
  <2>4. posting \in TabRequests \cup {None}
    BY DEF ResultInv, IInv, PostingIsActive
  <2> QED
    BY <2>1, <2>2, <2>3, <2>4 DEF ResultInv, Shown, PageTyped, TypeOK
<1> QED
  BY <1>1, <1>2, <1>3, PTL DEF Spec

\* The status that the page shows and the money in its controls are of one
\* published version of one payment, whether it was answered, restored by a
\* reload or refreshed (renderPayment, populateControlsFromPayment).
THEOREM ResultIsAlwaysOnePayment == Spec => []ResultIsOnePayment
<1>1. ResultInv => ResultIsOnePayment
  <2> SUFFICES ASSUME ResultInv, uiState = "final", currentPayment.row # None
               PROVE  /\ validateForm(form)
                      /\ Submission(form).amount = currentPayment.row.amount
                      /\ form.currency = currentPayment.row.currency
                      /\ currentPayment.row \in
                           {events[currentPayment.id][v].payment :
                              v \in DOMAIN events[currentPayment.id]}
    BY DEF ResultIsOnePayment
  <2>1. PICK p \in DOMAIN payments : currentPayment.id = p /\ currentPayment.row \in Rows(p)
    BY DEF ResultInv, Shown, ShownIsPublished
  <2> QED
    BY <2>1 DEF ResultInv, Shown, FormIsOfResult, SameMoney, Rows
<1> QED
  BY <1>1, ResultInvariant, PTL

\* While a payment stays on display, only a newer version of it ever replaces
\* it, in whatever order reads are served and answered (refreshPayment).
THEOREM DisplayStays == Spec => DisplayIsStable
<1> DEFINE Stays ==
             Displayed /\ Displayed' =>
                /\ currentPayment'.id = currentPayment.id
                /\ currentPayment.row # None =>
                     currentPayment'.row.version >= currentPayment.row.version
<1>1. ASSUME ResultInv, ResultInv', [Next]_vars
      PROVE  Stays
  <2> SUFFICES ASSUME Displayed, Displayed' PROVE Stays
    OBVIOUS
  <2>1. /\ uiState = "final" /\ uiState' = "final"
        /\ currentPayment.id = lastPaymentId
        /\ currentPayment'.id = lastPaymentId'
    BY <1>1 DEF ResultInv, IInv, ReloadShowsTheSame
  <2>2. CASE UNCHANGED currentPayment
    <3>1. currentPayment.row # None => currentPayment.row \in Payment
      BY <1>1 DEF ResultInv, Shown, PageTyped, Display
    <3>2. currentPayment.row # None => currentPayment.row.version \in Nat
      BY <3>1 DEF Payment
    <3> QED
      BY <2>2, <3>2
  <2>3. CASE \E request \in reading : Refreshed(request)
    <3>1. PICK request \in reading : Refreshed(request)
      BY <2>3
    <3>2. /\ request.reason = "refresh" /\ request.row # None
          /\ currentPayment'.row = request.row
          /\ UNCHANGED lastPaymentId
      BY <3>1 DEF Refreshed, storageVars
    <3>3. request.row.version >= currentPayment.row.version
      BY <1>1, <3>1, <3>2 DEF ResultInv, Shown, ReadsArePublished
    <3> QED
      BY <2>1, <3>2, <3>3
  <2>4. \/ UNCHANGED currentPayment
        \/ \E request \in reading : Refreshed(request)
    <3>1. CASE Submit \/ Retry \/ PaymentResolved \/ ResultUncertain \/ ErrorStatus
      BY <2>1, <3>1 DEF Submit, Retry, PaymentResolved, ResultUncertain, ErrorStatus
    <3>2. CASE resetCheckout \/ Reload
      <4>1. currentPayment' = NoPayment
        BY <3>2 DEF resetCheckout, Reload
      <4> QED
        BY <4>1 DEF Displayed
    <3>3. CASE StartRefresh \/ Service \/ UNCHANGED vars
      BY <3>3 DEF StartRefresh, Service, vars, tabVars, pageVars
    <3>4. CASE Read
      <4>1. PICK request \in reading :
              \/ ServeRead(request)
              \/ Restored(request) \/ NotRestored(request)
              \/ Refreshed(request) \/ NotRefreshed(request)
        BY <3>4 DEF Read
      <4>2. request.reason = "restore" => uiState = "restoring"
        BY <1>1, <4>1 DEF ResultInv, IInv, ReadsAreCurrent
      <4> QED
        BY <2>1, <4>1, <4>2
           DEF ServeRead, Restored, NotRestored, Refreshed, NotRefreshed
    <3> QED
      BY <1>1, <3>1, <3>2, <3>3, <3>4 DEF Next
  <2> QED
    BY <2>2, <2>3, <2>4
<1> QED
  BY <1>1, ResultInvariant, PTL DEF Spec, DisplayIsStable

----------------------------------------------------------------------------
(* The contract.                                                           *)

\* What the orders are read from belongs together: every attempt under a key
\* asks for the same, whether the key is still the active one or not, and only
\* payments that exist have been seen.
OneCommandPerKey ==
    \A k \in TabKeys : \A r \in Requests : InFlight(r, k) =>
        /\ KeyTaken(k) => idempotency[k].request_fingerprint = requests[r].command
        /\ \A q \in Requests : InFlight(q, k) =>
             requests[q].command = requests[r].command

SeenExist ==
    /\ seen \subseteq DOMAIN payments
    /\ lastPaymentId \in PaymentIds => lastPaymentId \in seen

OrdersInv == ResultInv /\ OneCommandPerKey /\ SeenExist

\* The answer the page resolves with is of the active key's payment.
LEMMA ResolvedPayment ==
    ASSUME ResultInv, PaymentResolved
    PROVE  /\ activeKey \in DOMAIN idempotency \cap TabKeys /\ activeKey # None
           /\ idempotency[activeKey].request_fingerprint = activeSubmission
           /\ idempotency[activeKey].payment_id \in DOMAIN payments
           /\ activeKey' = None
           /\ UNCHANGED <<requests, idempotency, payments>>
           /\ \/ /\ lastPaymentId' = idempotency[activeKey].payment_id
                 /\ seen' = seen \cup {idempotency[activeKey].payment_id}
                 /\ abandoned' = abandoned
              \/ /\ lastPaymentId' = Undefined
                 /\ seen' = seen
                 /\ abandoned' = abandoned \cup {activeKey}
<1>1. /\ uiState = "processing" /\ posting # None
      /\ requests[posting] = None /\ answers[posting] # None
      /\ activeKey' = None
  BY DEF PaymentResolved, Answered, clearActiveSubmission
<1>2. PICK body \in Bodies(answers[posting]) : Resolves(body)
  BY DEF PaymentResolved
<1>3. /\ activeKey \in TabKeys /\ activeKey # None /\ KeyTaken(activeKey)
      /\ answers[posting].payment_id = idempotency[activeKey].payment_id
      /\ idempotency[activeKey].request_fingerprint = activeSubmission
  BY <1>1 DEF ResultInv, IInv, PostingIsActive, RetriesAskTheSame,
              ReloadShowsTheSame, KeysAreMinted
<1>4. /\ idempotency[activeKey].payment_id \in DOMAIN payments
      /\ DOMAIN payments \subseteq PaymentIds
  BY <1>3 DEF ResultInv, IInv, ServiceShape, ServiceOK, RecordsOK, KeyTaken
<1>5. /\ lastPaymentId' = body.id
      /\ seen' = seen \cup ({body.id} \cap PaymentIds)
      /\ abandoned' = IF body.id = Undefined THEN abandoned \cup {activeKey}
                      ELSE abandoned
      /\ UNCHANGED <<requests, idempotency, payments>>
  BY <1>2 DEF Resolves, serviceVars, storeVars, lifecycleVars
<1>6. body.id \in {answers[posting].payment_id, Undefined}
  BY <1>2 DEF Bodies
<1> QED
  BY <1>1, <1>3, <1>4, <1>5, <1>6, TabAssumption DEF KeyTaken

\* submitPayment: a new key, or the active one with what it asks for.
LEMMA SubmittedOrder ==
    ASSUME ResultInv, NEW controls, submitPayment(controls),
           \/ uiState = "editing"
           \/ uiState = "uncertain" /\ controls = form
    PROVE  /\ activeKey' \in TabKeys /\ activeKey' # None
           /\ activeSubmission' \in AuthorizationCommand
           /\ UNCHANGED <<seen, abandoned, idempotency, payments, lastPaymentId>>
           /\ \/ /\ activeKey = None
                 /\ ~KeyTaken(activeKey')
                 /\ \A r \in Requests : ~InFlight(r, activeKey')
              \/ UNCHANGED <<activeKey, activeSubmission>>
           /\ \A r \in Requests :
                \/ requests'[r] = requests[r]
                \/ requests[r] = None /\ requests'[r] = None
                \/ /\ requests[r] = None
                   /\ requests'[r].key = activeKey'
                   /\ requests'[r].command = activeSubmission'
<1> DEFINE command == Submission(controls)
<1>1. PICK key \in TabKeys : activeIdempotencyKey(key) /\ Sent(key, command)
  BY DEF submitPayment
<1>2. /\ validateForm(controls) /\ activeSubmission' = command
      /\ UNCHANGED <<seen, abandoned, lastPaymentId>>
  BY DEF submitPayment, storeActiveSubmission
<1>3. command \in AuthorizationCommand
  BY <1>2, SubmissionFields
<1>4. activeKey # None => controls = form /\ command = activeSubmission
  BY DEF ResultInv, IInv, ReloadShowsTheSame, RetriesAskTheSame
<1> HIDE DEF command
<1>5. /\ activeKey' = key /\ key # None
      /\ activeKey = None => key \notin minted
      /\ activeKey # None => key = activeKey
  BY <1>1, TabAssumption DEF activeIdempotencyKey
<1>6. activeKey = None =>
        ~KeyTaken(activeKey') /\ \A r \in Requests : ~InFlight(r, activeKey')
  BY <1>1, <1>5, FreshKey DEF ResultInv, IInv
<1>7. CASE UNCHANGED serviceVars
  <2>1. UNCHANGED <<requests, idempotency, payments>>
    BY <1>7 DEF serviceVars, storeVars, lifecycleVars
  <2> QED
    BY <1>1, <1>2, <1>3, <1>4, <1>5, <1>6, <2>1
<1>8. CASE \E r \in TabRequests : Arrive(r, command, key, None)
  <2>1. PICK r \in TabRequests : Arrived(r, command, key)
    BY <1>8, ArriveStep, TabAssumption DEF ResultInv, IInv
  <2>2. /\ UNCHANGED <<idempotency, payments>>
        /\ requests[r] = None
        /\ \/ requests'[r] = None
           \/ requests'[r].key = key /\ requests'[r].command = command
        /\ \A q \in Requests : q = r \/ requests'[q] = requests[q]
    BY <2>1 DEF Arrived, OnlySlot
  <2> QED
    BY <1>1, <1>2, <1>3, <1>4, <1>5, <1>6, <2>2
<1> QED
  BY <1>1, <1>7, <1>8 DEF Sent

\* A step of the page that does not submit or get an answer of a submission.
Aside ==
    \/ ResultUncertain \/ resetCheckout \/ Reload \/ StartRefresh \/ Read
    \/ UNCHANGED vars

LEMMA AsideLeaves ==
    ASSUME OrdersInv, Aside
    PROVE  /\ UNCHANGED <<activeKey, activeSubmission, seen, abandoned, requests,
                          idempotency, payments>>
           /\ lastPaymentId' \in {lastPaymentId, None}
<1>1. UNCHANGED <<abandoned, requests, idempotency, payments>>
  BY DEF Aside, ResultUncertain, resetCheckout, Reload, StartRefresh, Read,
         ServeRead, Restored, NotRestored, Refreshed, NotRefreshed, vars, tabVars,
         serviceVars, storeVars, lifecycleVars
<1>2. CASE Read
  <2>1. PICK request \in reading :
          \/ ServeRead(request)
          \/ Restored(request) \/ NotRestored(request)
          \/ Refreshed(request) \/ NotRefreshed(request)
    BY <1>2 DEF Read
  <2>2. /\ UNCHANGED <<activeKey, activeSubmission>>
        /\ lastPaymentId' \in {lastPaymentId, None}
    BY <2>1 DEF ServeRead, Restored, NotRestored, Refreshed, NotRefreshed,
                storageVars
  <2>3. \/ seen' = seen
        \/ Restored(request) /\ seen' = seen \cup {request.id}
    BY <2>1 DEF ServeRead, Restored, NotRestored, Refreshed, NotRefreshed
  <2>4. Restored(request) => request.id \in seen
    <3> SUFFICES ASSUME Restored(request) PROVE request.id \in seen
      OBVIOUS
    <3>1. request.row # None /\ request.id = lastPaymentId
      BY DEF Restored, OrdersInv, ResultInv, IInv, ReadsAreCurrent
    <3>2. request.id \in PaymentIds
      BY <3>1 DEF OrdersInv, ResultInv, IInv, ServiceShape, Shown,
                  ReadsArePublished
    <3> QED
      BY <3>1, <3>2 DEF OrdersInv, SeenExist
  <2> QED
    BY <1>1, <2>2, <2>3, <2>4
<1>3. CASE resetCheckout
  <2>1. activeKey = None /\ activeSubmission = None
    BY <1>3 DEF resetCheckout, CanLeave, OrdersInv, ResultInv, IInv,
                ReloadShowsTheSame
  <2> QED
    BY <1>1, <1>3, <2>1 DEF resetCheckout, clearActiveSubmission
<1>4. CASE Reload
  BY <1>1, <1>4 DEF Reload, restorePayment, Resumable, storageVars,
                    clearActiveSubmission, OrdersInv, ResultInv, IInv,
                    ReloadShowsTheSame
<1>5. CASE ResultUncertain \/ StartRefresh \/ UNCHANGED vars
  BY <1>1, <1>5 DEF ResultUncertain, StartRefresh, vars, tabVars, storageVars
<1> QED
  BY <1>2, <1>3, <1>4, <1>5 DEF Aside

\* The end of a request of the tab: it has paid for its order, or it has not.
LEMMA EndedOrder ==
    ASSUME ResultInv, NEW r \in Requests, Perform(r) \/ Interrupt(r)
    PROVE  /\ requests[r] # None /\ requests'[r] = None
           /\ \A q \in Requests \ {r} : requests'[q] = requests[q]
           /\ \/ UNCHANGED <<idempotency, payments>>
              \/ \E p \in PaymentIds :
                   /\ DOMAIN payments' = DOMAIN payments \cup {p}
                   /\ requests[r].key \notin DOMAIN idempotency
                   /\ DOMAIN idempotency' = DOMAIN idempotency \cup {requests[r].key}
                   /\ \A k \in DOMAIN idempotency : idempotency'[k] = idempotency[k]
                   /\ idempotency'[requests[r].key].payment_id = p
                   /\ idempotency'[requests[r].key].request_fingerprint =
                        requests[r].command
                   /\ requests[r].key \in TabKeys => p \notin DOMAIN payments
<1>1. Ended(r)
  BY RequestStep DEF ResultInv, IInv
<1>2. /\ requests[r] # None /\ requests'[r] = None
      /\ \A q \in Requests \ {r} : requests'[q] = requests[q]
  BY <1>1 DEF Ended, OnlySlot
<1>3. \/ UNCHANGED <<payments, idempotency>>
      \/ \E p \in PaymentIds : \E row : Change(r, p, row)
  BY RequestChanges DEF ResultInv
<1>4. ASSUME NEW p \in PaymentIds, NEW row, Change(r, p, row)
      PROVE  /\ DOMAIN payments' = DOMAIN payments \cup {p}
             /\ requests[r].key \notin DOMAIN idempotency
             /\ DOMAIN idempotency' = DOMAIN idempotency \cup {requests[r].key}
             /\ \A k \in DOMAIN idempotency : idempotency'[k] = idempotency[k]
             /\ idempotency'[requests[r].key].payment_id = p
             /\ idempotency'[requests[r].key].request_fingerprint =
                  requests[r].command
             /\ requests[r].key \in TabKeys => p \notin DOMAIN payments
  <2>1. requests[r].key \in TabKeys => requests[r].command \in AuthorizationCommand
    BY <1>2 DEF ResultInv, ServiceOK, RequestsOK
  <2>2. Wrote(p, row) /\ Recorded(requests[r].key, requests[r].command, p, row)
    BY <1>4 DEF Change
  <2>3. requests[r].key \in TabKeys => p \notin DOMAIN payments
    BY <1>4, <2>1 DEF Change
  <2> QED
    BY <2>2, <2>3 DEF Wrote, Recorded, KeyTaken
<1> QED
  BY <1>2, <1>3, <1>4

\* Other clients use keys of their own.
LEMMA ElsewhereLeaves ==
    ASSUME ResultInv, Elsewhere
    PROVE  /\ UNCHANGED <<idempotency, payments>>
           /\ \A q \in Requests, k \in TabKeys : InFlight(q, k)' <=> InFlight(q, k)
           /\ \A q \in Requests, k \in TabKeys :
                InFlight(q, k) => requests'[q] = requests[q]
<1>1. PICK r \in Requests \ TabRequests, command \in LifecycleCommand,
           key \in Keys \ TabKeys :
         Arrive(r, command, key, None)
  BY DEF Elsewhere
<1>2. Arrived(r, command, key)
  BY <1>1, ArriveStep DEF ResultInv, IInv
<1>3. /\ UNCHANGED <<idempotency, payments>>
      /\ requests[r] = None
      /\ requests'[r] = None \/ requests'[r].key \notin TabKeys
      /\ \A q \in Requests : q = r \/ requests'[q] = requests[q]
  BY <1>1, <1>2 DEF Arrived, OnlySlot
<1> QED
  BY <1>3 DEF InFlight

\* The steps of the tab and of the service, for what the orders are read from.
LEMMA StepKinds ==
    ASSUME [Next]_vars
    PROVE  \/ \E controls : /\ submitPayment(controls)
                            /\ \/ uiState = "editing"
                               \/ uiState = "uncertain" /\ controls = form
           \/ PaymentResolved
           \/ ErrorStatus
           \/ Aside
           \/ UNCHANGED tabVars /\ Elsewhere
           \/ UNCHANGED tabVars /\ \E r \in Requests : Perform(r) \/ Interrupt(r)
BY DEF Next, Submit, Retry, Aside, Service

LEMMA InitOrders ==
    ASSUME Init
    PROVE  OrdersInv
<1>1. OneCommandPerKey
  BY DEF Init, LifecycleInit, OneCommandPerKey, InFlight
<1>2. SeenExist
  BY NoneAssumption DEF Init, SeenExist
<1> QED
  BY <1>1, <1>2, InitResult DEF OrdersInv

\* What the orders are read from keeps belonging together.
LEMMA NextOrders ==
    ASSUME OrdersInv, [Next]_vars
    PROVE  OrdersInv'
<1>1. ResultInv /\ ResultInv'
  BY NextResult DEF OrdersInv
<1> USE DEF OneCommandPerKey, SeenExist
<1>2. CASE UNCHANGED <<seen, lastPaymentId, requests, idempotency, payments>>
  BY <1>1, <1>2 DEF OrdersInv, InFlight, KeyTaken
<1>3. ASSUME NEW controls, submitPayment(controls),
             \/ uiState = "editing"
             \/ uiState = "uncertain" /\ controls = form
      PROVE  OrdersInv'
  <2>1. /\ UNCHANGED <<seen, idempotency, payments, lastPaymentId>>
        /\ \A r \in Requests, k \in TabKeys \ {activeKey'} :
             InFlight(r, k)' => InFlight(r, k) /\ requests'[r] = requests[r]
    BY <1>1, <1>3, SubmittedOrder DEF InFlight
  <2>2. OneCommandPerKey'
    <3> SUFFICES ASSUME NEW k \in TabKeys, NEW r \in Requests, InFlight(r, k)'
                 PROVE  /\ KeyTaken(k)' => idempotency'[k].request_fingerprint =
                                             requests'[r].command
                        /\ \A q \in Requests : InFlight(q, k)' =>
                             requests'[q].command = requests'[r].command
      OBVIOUS
    <3>1. CASE k = activeKey'
      <4>1. k # None
        BY TabAssumption
      <4> QED
        BY <1>1, <3>1, <4>1 DEF ResultInv, IInv, RetriesAskTheSame, InFlight
    <3>2. CASE k # activeKey'
      BY <2>1, <3>2 DEF OrdersInv, KeyTaken
    <3> QED
      BY <3>1, <3>2
  <2> QED
    BY <1>1, <2>1, <2>2 DEF OrdersInv
<1>4. CASE PaymentResolved
  <2>1. /\ UNCHANGED <<requests, idempotency, payments>>
        /\ seen \subseteq seen'
        /\ seen' \subseteq DOMAIN payments
        /\ lastPaymentId' \in seen' \cup {Undefined}
    BY <1>1, <1>4, ResolvedPayment DEF OrdersInv
  <2> QED
    BY <1>1, <2>1, TabAssumption DEF OrdersInv, InFlight, KeyTaken
<1>5. CASE ErrorStatus
  BY <1>1, <1>2, <1>5 DEF ErrorStatus, serviceVars, storeVars, lifecycleVars
<1>6. CASE Aside
  <2>1. /\ UNCHANGED <<seen, requests, idempotency, payments>>
        /\ lastPaymentId' \in {lastPaymentId, None}
    BY <1>6, AsideLeaves
  <2> QED
    BY <1>1, <2>1, NoneAssumption DEF OrdersInv, InFlight, KeyTaken
<1>7. CASE UNCHANGED tabVars /\ Elsewhere
  <2>1. /\ UNCHANGED <<seen, lastPaymentId, idempotency, payments>>
        /\ \A q \in Requests, k \in TabKeys :
             InFlight(q, k)' => InFlight(q, k) /\ requests'[q] = requests[q]
    BY <1>1, <1>7, ElsewhereLeaves DEF tabVars, storageVars
  <2> QED
    BY <1>1, <2>1 DEF OrdersInv, KeyTaken
<1>8. CASE UNCHANGED tabVars /\ \E r \in Requests : Perform(r) \/ Interrupt(r)
  <2>1. UNCHANGED <<seen, lastPaymentId>>
    BY <1>8 DEF tabVars, storageVars
  <2>2. PICK r \in Requests : Perform(r) \/ Interrupt(r)
    BY <1>8
  <2>3. /\ requests[r] # None
        /\ \A q \in Requests, k \in TabKeys :
             InFlight(q, k)' => InFlight(q, k) /\ requests'[q] = requests[q]
        /\ DOMAIN payments \subseteq DOMAIN payments'
        /\ \A k \in DOMAIN idempotency' :
             \/ k \in DOMAIN idempotency /\ idempotency'[k] = idempotency[k]
             \/ /\ k = requests[r].key
                /\ idempotency'[k].request_fingerprint = requests[r].command
    BY <1>1, <2>2, EndedOrder DEF InFlight
  <2>4. OneCommandPerKey'
    <3> SUFFICES ASSUME NEW k \in TabKeys, NEW q \in Requests, InFlight(q, k)'
                 PROVE  /\ KeyTaken(k)' => idempotency'[k].request_fingerprint =
                                             requests'[q].command
                        /\ \A u \in Requests : InFlight(u, k)' =>
                             requests'[u].command = requests'[q].command
      OBVIOUS
    <3>1. /\ InFlight(q, k) /\ requests'[q] = requests[q]
          /\ \A u \in Requests : InFlight(u, k)' =>
               InFlight(u, k) /\ requests'[u] = requests[u]
      BY <2>3
    <3>2. k = requests[r].key => InFlight(r, k)
      BY <2>3 DEF InFlight
    <3> QED
      BY <2>3, <3>1, <3>2 DEF OrdersInv, KeyTaken
  <2> QED
    BY <1>1, <2>1, <2>3, <2>4 DEF OrdersInv
<1> QED
  BY <1>3, <1>4, <1>5, <1>6, <1>7, <1>8, StepKinds

\* A step keeps what the order of a key is read from. Attempts may end, and the
\* active key may be tried again.
Kept(k) ==
    /\ k = activeKey' <=> k = activeKey
    /\ k = activeKey => activeSubmission' = activeSubmission
    /\ k \in abandoned' <=> k \in abandoned
    /\ KeyTaken(k)' <=> KeyTaken(k)
    /\ KeyTaken(k) => idempotency'[k] = idempotency[k]
    /\ KeyTaken(k) =>
         (idempotency[k].payment_id \in seen' <=> idempotency[k].payment_id \in seen)
    /\ \/ k = activeKey
       \/ \A r \in Requests :
            InFlight(r, k)' => InFlight(r, k) /\ requests'[r] = requests[r]

\* The command of an order, from whichever of its traces is left.
CommandIsKnown ==
    OrdersInv => \A k \in TabKeys :
        /\ k = activeKey => CommandOf(k) = activeSubmission
        /\ KeyTaken(k) => CommandOf(k) = idempotency[k].request_fingerprint
        /\ \A r \in Requests : InFlight(r, k) => CommandOf(k) = requests[r].command

LEMMA CommandKnown == CommandIsKnown
<1> SUFFICES ASSUME OrdersInv, NEW k \in TabKeys
             PROVE  /\ k = activeKey => CommandOf(k) = activeSubmission
                    /\ KeyTaken(k) =>
                         CommandOf(k) = idempotency[k].request_fingerprint
                    /\ \A r \in Requests :
                         InFlight(r, k) => CommandOf(k) = requests[r].command
  BY DEF CommandIsKnown
<1>1. CASE k = activeKey
  <2>1. activeKey # None
    BY <1>1, TabAssumption
  <2> QED
    BY <1>1, <2>1 DEF CommandOf, OrdersInv, ResultInv, IInv, RetriesAskTheSame,
                      InFlight
<1>2. CASE k # activeKey /\ KeyTaken(k)
  BY <1>2 DEF CommandOf, OrdersInv, OneCommandPerKey
<1>3. CASE k # activeKey /\ ~KeyTaken(k)
  <2> SUFFICES ASSUME NEW r \in Requests, InFlight(r, k)
               PROVE  CommandOf(k) = requests[r].command
    BY <1>3
  <2>1. r \in Attempts(k)
    BY DEF Attempts, InFlight
  <2> DEFINE q == CHOOSE u \in Attempts(k) : TRUE
  <2>2. q \in Attempts(k)
    BY <2>1
  <2>3. CommandOf(k) = requests[q].command
    BY <1>3 DEF CommandOf
  <2> HIDE DEF q
  <2>4. q \in Requests /\ InFlight(q, k)
    BY <2>2 DEF Attempts, InFlight
  <2> QED
    BY <2>3, <2>4 DEF OrdersInv, OneCommandPerKey
<1> QED
  BY <1>1, <1>2, <1>3

\* An order of which nothing changes is the same order.
LEMMA KeptOrder ==
    ASSUME OrdersInv, OrdersInv', NEW k \in TabKeys, Kept(k), k \in OrderKeys'
    PROVE  OrderOf(k)' = OrderOf(k)
<1>1. CommandOf(k)' = CommandOf(k)
  <2>1. /\ k = activeKey' => CommandOf(k)' = activeSubmission'
        /\ KeyTaken(k)' => CommandOf(k)' = idempotency'[k].request_fingerprint
        /\ \A r \in Requests :
             InFlight(r, k)' => CommandOf(k)' = requests'[r].command
    <3>1. CommandIsKnown'
      BY CommandKnown, PTL
    <3> QED
      BY <3>1 DEF CommandIsKnown
  <2>2. CASE k = activeKey
    BY <2>1, <2>2, CommandKnown DEF Kept, CommandIsKnown
  <2>3. CASE KeyTaken(k)
    BY <2>1, <2>3, CommandKnown DEF Kept, CommandIsKnown
  <2>4. CASE k # activeKey /\ ~KeyTaken(k)
    <3>1. PICK r \in Requests : InFlight(r, k)'
      BY <2>4 DEF OrderKeys, Kept, Attempts, InFlight
    <3> QED
      BY <2>1, <2>4, <3>1, CommandKnown DEF Kept, CommandIsKnown
  <2> QED
    BY <2>2, <2>3, <2>4
<1>2. PaymentOf(k)' = PaymentOf(k)
  BY DEF Kept, PaymentOf
<1>3. FateOf(k)' = FateOf(k)
  <2>1. None \notin seen /\ None \notin seen'
    BY NoneAssumption DEF OrdersInv, SeenExist, ResultInv, IInv, ServiceShape
  <2>2. PaymentOf(k)' \in seen' <=> PaymentOf(k) \in seen
    BY <2>1 DEF Kept, PaymentOf
  <2> QED
    BY <2>2 DEF FateOf, Kept
<1> QED
  BY <1>1, <1>2, <1>3 DEF OrderOf

\* Nothing that the orders are read from changes.
LEMMA OrdersSame ==
    ASSUME OrdersInv, OrdersInv', OrderKeys' = OrderKeys,
           \A k \in TabKeys : Kept(k)
    PROVE  UNCHANGED TabOrders
<1>1. \A k \in OrderKeys' : OrderOf(k)' = OrderOf(k)
  BY KeptOrder DEF OrderKeys
<1> QED
  BY <1>1 DEF TabOrders

\* One order changes, or is new.
LEMMA OneBecomes ==
    ASSUME OrdersInv, OrdersInv', NEW o \in TabKeys, NEW order,
           OrderKeys' = OrderKeys \cup {o}, OrderOf(o)' = order,
           \A k \in TabKeys \ {o} : Kept(k)
    PROVE  Contract!Becomes(o, order)
<1>1. \A k \in OrderKeys' \ {o} : OrderOf(k)' = OrderOf(k)
  BY KeptOrder DEF OrderKeys
<1>2. TabOrders' = [k \in OrderKeys' |-> OrderOf(k)']
  BY DEF TabOrders
<1>3. DOMAIN TabOrders = OrderKeys /\ \A k \in OrderKeys : TabOrders[k] = OrderOf(k)
  BY DEF TabOrders
<1> QED
  BY <1>1, <1>2, <1>3 DEF Contract!Becomes

\* The fields of an order, and what it becomes when one of them changes.
LEMMA OrderFields ==
    ASSUME NEW o \in OrderKeys
    PROVE  /\ o \in DOMAIN TabOrders /\ TabOrders[o] = OrderOf(o)
           /\ TabOrders[o].command = CommandOf(o)
           /\ TabOrders[o].payment = PaymentOf(o)
           /\ TabOrders[o].fate = FateOf(o)
           /\ \A p : [TabOrders[o] EXCEPT !.payment = p] =
                [command |-> CommandOf(o), payment |-> p, fate |-> FateOf(o)]
           /\ \A fate : [TabOrders[o] EXCEPT !.fate = fate] =
                [command |-> CommandOf(o), payment |-> PaymentOf(o), fate |-> fate]
<1>1. o \in DOMAIN TabOrders /\ TabOrders[o] = OrderOf(o)
  BY DEF TabOrders
<1> QED
  BY <1>1 DEF OrderOf

\* A first attempt places an order, and a retry is still the same one.
LEMMA SubmitOrders ==
    ASSUME OrdersInv, OrdersInv', NEW controls, submitPayment(controls),
           \/ uiState = "editing"
           \/ uiState = "uncertain" /\ controls = form
    PROVE  Contract!Next \/ UNCHANGED TabOrders
<1>0. PICK key \in TabKeys : key = activeKey'
  BY SubmittedOrder DEF OrdersInv
<1>1. /\ key # None /\ activeKey' = key
      /\ activeSubmission' \in AuthorizationCommand
      /\ UNCHANGED <<seen, abandoned, idempotency>>
      /\ \/ /\ activeKey = None
            /\ ~KeyTaken(key)
            /\ \A r \in Requests : ~InFlight(r, key)
         \/ UNCHANGED <<activeKey, activeSubmission>>
      /\ \A r \in Requests, k \in TabKeys :
           k = key \/ (InFlight(r, k)' <=> InFlight(r, k))
      /\ \A r \in Requests, k \in TabKeys :
           k # key /\ InFlight(r, k)' => requests'[r] = requests[r]
  BY <1>0, SubmittedOrder DEF OrdersInv, InFlight
<1>2. \A k \in TabKeys \ {key} : Kept(k)
  BY <1>1, TabAssumption DEF Kept, KeyTaken
<1>3. OrderKeys' = OrderKeys \cup {key}
  <2>1. \A k \in TabKeys \ {key} : k \in OrderKeys' <=> k \in OrderKeys
    BY <1>1, TabAssumption DEF OrderKeys, KeyTaken, Attempts, InFlight
  <2>2. key \in OrderKeys'
    BY <1>1 DEF OrderKeys
  <2> QED
    BY <2>1, <2>2, <1>1 DEF OrderKeys
<1>4. CASE UNCHANGED <<activeKey, activeSubmission>>
  <2>1. Kept(key)
    BY <1>1, <1>4 DEF Kept, KeyTaken
  <2>2. key \in OrderKeys
    BY <1>1, <1>4 DEF OrderKeys
  <2> QED
    BY <1>2, <1>3, <2>1, <2>2, OrdersSame
<1>5. CASE activeKey = None /\ ~KeyTaken(key) /\ \A r \in Requests : ~InFlight(r, key)
  <2> DEFINE order == [command |-> activeSubmission', payment |-> None,
                       fate |-> "awaited"]
  <2>1. OrderOf(key)' = order
    BY <1>1, <1>5 DEF OrderOf, CommandOf, PaymentOf, FateOf, KeyTaken
  <2>2. key \notin OrderKeys
    BY <1>1, <1>5 DEF OrderKeys, Attempts, InFlight
  <2>3. key \notin DOMAIN TabOrders
    BY <2>2 DEF TabOrders
  <2>4. \A k \in DOMAIN TabOrders : TabOrders[k].fate # "awaited"
    <3>1. \A k \in OrderKeys : FateOf(k) # "awaited"
      BY <1>5, TabAssumption DEF FateOf, OrderKeys
    <3> QED
      BY <3>1, OrderFields DEF TabOrders
  <2> HIDE DEF order
  <2>5. Contract!Becomes(key, order)
    BY <1>1, <1>2, <1>3, <2>1, OneBecomes
  <2>6. Contract!Place(key, activeSubmission')
    BY <2>3, <2>4, <2>5 DEF Contract!Place, order
  <2> QED
    BY <1>1, <2>6 DEF Contract!Next
<1> QED
  BY <1>1, <1>4, <1>5

\* An answer tells of the payment of the order, or makes it look failed.
LEMMA ResolvedOrders ==
    ASSUME OrdersInv, OrdersInv', PaymentResolved
    PROVE  Contract!Next
<1>0. PICK key \in TabKeys, p \in PaymentIds :
         key = activeKey /\ p = idempotency[key].payment_id
  BY ResolvedPayment DEF OrdersInv, ResultInv, IInv, ServiceShape
<1>1. /\ key = activeKey /\ key # None /\ KeyTaken(key)
      /\ p = idempotency[key].payment_id
      /\ p \in DOMAIN payments /\ p # None
      /\ idempotency[key].request_fingerprint = activeSubmission
      /\ activeKey' = None
      /\ UNCHANGED <<requests, idempotency>>
      /\ \/ seen' = seen \cup {p} /\ abandoned' = abandoned
         \/ seen' = seen /\ abandoned' = abandoned \cup {key}
  BY <1>0, ResolvedPayment, NoneAssumption DEF OrdersInv, KeyTaken
<1>2. OrderKeys' = OrderKeys \cup {key}
  BY <1>1, TabAssumption DEF OrderKeys, KeyTaken, Attempts
<1>3. \A k \in TabKeys \ {key} : Kept(k)
  <2>1. \A k \in TabKeys \ {key} : KeyTaken(k) => idempotency[k].payment_id # p
    BY <1>1 DEF OrdersInv, ResultInv, ServiceOK, RecordsOK, KeyTaken
  <2> QED
    BY <1>1, <2>1, TabAssumption DEF Kept, KeyTaken, InFlight
<1>4. key \in OrderKeys
  BY <1>1 DEF OrderKeys
<1>5. /\ CommandOf(key) = activeSubmission /\ PaymentOf(key) = p
      /\ FateOf(key) = "awaited"
  BY <1>1 DEF CommandOf, PaymentOf, FateOf
<1>6. /\ PaymentOf(key)' = p
      /\ CommandOf(key)' = activeSubmission
      /\ FateOf(key)' \in {"told", "given up"}
  BY <1>1 DEF CommandOf, PaymentOf, FateOf, KeyTaken
<1>7. ASSUME NEW fate, FateOf(key)' = fate
      PROVE  Contract!Becomes(key, [TabOrders[key] EXCEPT !.fate = fate])
  <2>1. [TabOrders[key] EXCEPT !.fate = fate] =
          [command |-> activeSubmission, payment |-> p, fate |-> fate]
    BY <1>4, <1>5, OrderFields
  <2>2. OrderOf(key)' = [command |-> activeSubmission, payment |-> p, fate |-> fate]
    BY <1>6, <1>7 DEF OrderOf
  <2> QED
    BY <1>1, <1>2, <1>3, <2>1, <2>2, OneBecomes
<1>8. /\ key \in DOMAIN TabOrders
      /\ TabOrders[key].fate = "awaited" /\ TabOrders[key].payment # None
  BY <1>1, <1>4, <1>5, OrderFields
<1>9. CASE FateOf(key)' = "told"
  BY <1>1, <1>7, <1>8, <1>9 DEF Contract!Next, Contract!Tell
<1>10. CASE FateOf(key)' = "given up"
  BY <1>1, <1>7, <1>8, <1>10 DEF Contract!Next, Contract!GiveUp
<1> QED
  BY <1>6, <1>9, <1>10

\* The last that is left of an unpaid order goes.
LEMMA OrderLapses ==
    ASSUME OrdersInv, OrdersInv', NEW o \in OrderKeys, ~KeyTaken(o),
           OrderKeys' = OrderKeys \ {o},
           \A k \in TabKeys \ {o} : Kept(k)
    PROVE  Contract!Next
<1>1. TabOrders' = [k \in OrderKeys \ {o} |-> TabOrders[k]]
  <2>1. \A k \in OrderKeys' : OrderOf(k)' = OrderOf(k)
    BY KeptOrder DEF OrderKeys
  <2>2. TabOrders' = [k \in OrderKeys' |-> OrderOf(k)']
    BY DEF TabOrders
  <2>3. \A k \in OrderKeys : TabOrders[k] = OrderOf(k)
    BY DEF TabOrders
  <2> QED
    BY <2>1, <2>2, <2>3
<1>2. DOMAIN TabOrders = OrderKeys
  BY DEF TabOrders
<1>3. TabOrders[o].payment = None
  BY OrderFields DEF PaymentOf
<1>4. Contract!Lapse(o)
  BY <1>1, <1>2, <1>3 DEF Contract!Lapse
<1> QED
  BY <1>4 DEF Contract!Next, OrderKeys

\* An error status gives the order up, which may be paid or may still be.
LEMMA ErrorOrders ==
    ASSUME OrdersInv, OrdersInv', ErrorStatus
    PROVE  Contract!Next
<1>0. PICK key \in TabKeys : key = activeKey
  BY DEF ErrorStatus, OrdersInv, ResultInv, IInv, KeysAreMinted,
         ReloadShowsTheSame
<1>1. /\ key = activeKey /\ key # None
      /\ activeKey' = None
      /\ abandoned' = abandoned \cup {key}
      /\ UNCHANGED <<seen, requests, idempotency>>
  BY <1>0, TabAssumption
     DEF ErrorStatus, clearActiveSubmission, serviceVars, lifecycleVars
<1>2. \A k \in TabKeys \ {key} : Kept(k)
  BY <1>1, TabAssumption DEF Kept, KeyTaken, InFlight
<1>3. key \in OrderKeys
  BY <1>1 DEF OrderKeys
<1>4. \A k \in TabKeys \ {key} : k \in OrderKeys' <=> k \in OrderKeys
  BY <1>1, TabAssumption DEF OrderKeys, KeyTaken, Attempts
<1>5. CASE key \in OrderKeys'
  <2>1. OrderKeys' = OrderKeys \cup {key}
    BY <1>3, <1>4, <1>5 DEF OrderKeys
  <2>2. CommandOf(key) = activeSubmission /\ FateOf(key) = "awaited"
    BY <1>1 DEF CommandOf, FateOf
  <2>3. CommandOf(key)' = activeSubmission
    <3>1. /\ KeyTaken(key)' => CommandOf(key)' = idempotency'[key].request_fingerprint
          /\ \A r \in Requests :
               InFlight(r, key)' => CommandOf(key)' = requests'[r].command
      <4>1. CommandIsKnown'
        BY CommandKnown, PTL
      <4> QED
        BY <1>1, <4>1 DEF CommandIsKnown
    <3>2. KeyTaken(key) \/ \E r \in Requests : InFlight(r, key)
      BY <1>1, <1>5 DEF OrderKeys, KeyTaken, Attempts, InFlight
    <3> QED
      BY <1>1, <3>1, <3>2, CommandKnown DEF CommandIsKnown, KeyTaken, InFlight
  <2>4. PaymentOf(key)' = PaymentOf(key)
    BY <1>1 DEF PaymentOf, KeyTaken
  <2>5. \/ FateOf(key)' = "told" /\ PaymentOf(key) # None
        \/ FateOf(key)' = "given up"
    <3>1. None \notin seen'
      BY NoneAssumption DEF OrdersInv, SeenExist, ResultInv, IInv, ServiceShape
    <3> QED
      BY <1>1, <2>4, <3>1 DEF FateOf
  <2>6. ASSUME NEW fate, FateOf(key)' = fate
        PROVE  Contract!Becomes(key, [TabOrders[key] EXCEPT !.fate = fate])
    <3>1. [TabOrders[key] EXCEPT !.fate = fate] =
            [command |-> activeSubmission, payment |-> PaymentOf(key), fate |-> fate]
      BY <1>3, <2>2, OrderFields
    <3>2. OrderOf(key)' =
            [command |-> activeSubmission, payment |-> PaymentOf(key), fate |-> fate]
      BY <2>3, <2>4, <2>6 DEF OrderOf
    <3> QED
      BY <1>1, <1>2, <2>1, <3>1, <3>2, OneBecomes
  <2>7. /\ key \in DOMAIN TabOrders
        /\ TabOrders[key].fate = "awaited"
        /\ TabOrders[key].payment = PaymentOf(key)
    BY <1>3, <2>2, OrderFields
  <2>8. CASE FateOf(key)' = "told" /\ PaymentOf(key) # None
    BY <1>1, <2>6, <2>7, <2>8 DEF Contract!Next, Contract!Tell
  <2>9. CASE FateOf(key)' = "given up"
    BY <1>1, <2>6, <2>7, <2>9 DEF Contract!Next, Contract!GiveUp
  <2> QED
    BY <2>5, <2>8, <2>9
<1>6. CASE key \notin OrderKeys'
  <2>1. OrderKeys' = OrderKeys \ {key}
    BY <1>4, <1>6 DEF OrderKeys
  <2>2. ~KeyTaken(key)
    BY <1>1, <1>6 DEF OrderKeys, KeyTaken
  <2> QED
    BY <1>2, <1>3, <2>1, <2>2, OrderLapses
<1> QED
  BY <1>5, <1>6

\* A request of the tab that ends has paid for its order, awaited or given up, or
\* it was perhaps the last that could.
LEMMA EndedOrders ==
    ASSUME OrdersInv, OrdersInv', UNCHANGED tabVars,
           NEW r \in Requests, Perform(r) \/ Interrupt(r)
    PROVE  Contract!Next \/ UNCHANGED TabOrders
<1> DEFINE key == requests[r].key
<1>1. UNCHANGED <<activeKey, activeSubmission, seen, abandoned>>
  BY DEF tabVars, storageVars
<1>2. /\ requests[r] # None /\ requests'[r] = None
      /\ \A q \in Requests \ {r} : requests'[q] = requests[q]
  BY EndedOrder DEF OrdersInv
<1>3. \A k \in TabKeys, q \in Requests :
        /\ InFlight(q, k)' => InFlight(q, k) /\ requests'[q] = requests[q]
        /\ k # key => (InFlight(q, k)' <=> InFlight(q, k))
  BY <1>2 DEF InFlight
<1>4. CASE UNCHANGED <<idempotency, payments>>
  <2>1. \A k \in TabKeys : Kept(k)
    BY <1>1, <1>3, <1>4 DEF Kept, KeyTaken
  <2>2. \A k \in TabKeys :
          /\ k \in OrderKeys' => k \in OrderKeys
          /\ k # key /\ k \in OrderKeys => k \in OrderKeys'
    BY <1>1, <1>3, <1>4 DEF OrderKeys, KeyTaken, Attempts, InFlight
  <2>3. CASE OrderKeys' = OrderKeys
    BY <2>1, <2>3, OrdersSame
  <2>4. CASE OrderKeys' # OrderKeys
    <3>1. PICK o \in TabKeys : o = key /\ o \in OrderKeys /\ o \notin OrderKeys'
      BY <2>2, <2>4 DEF OrderKeys
    <3>2. OrderKeys' = OrderKeys \ {o}
      BY <2>2, <3>1 DEF OrderKeys
    <3>3. ~KeyTaken(o)
      BY <1>4, <3>1 DEF OrderKeys, KeyTaken
    <3> QED
      BY <2>1, <3>1, <3>2, <3>3, OrderLapses
  <2> QED
    BY <2>3, <2>4
<1>5. ASSUME NEW p \in PaymentIds,
             key \notin DOMAIN idempotency,
             DOMAIN idempotency' = DOMAIN idempotency \cup {key},
             \A k \in DOMAIN idempotency : idempotency'[k] = idempotency[k],
             idempotency'[key].payment_id = p,
             idempotency'[key].request_fingerprint = requests[r].command,
             key \in TabKeys => p \notin DOMAIN payments
      PROVE  Contract!Next \/ UNCHANGED TabOrders
  <2>1. \A k \in TabKeys \ {key} : Kept(k) /\ (k \in OrderKeys' <=> k \in OrderKeys)
    BY <1>1, <1>3, <1>5 DEF Kept, KeyTaken, OrderKeys, Attempts, InFlight
  <2>2. CASE key \notin TabKeys
    BY <2>1, <2>2, OrdersSame DEF OrderKeys
  <2>3. CASE key \in TabKeys
    <3>1. PICK o \in TabKeys : o = key
      BY <2>3
    <3>2. InFlight(r, o) /\ o \in OrderKeys
      BY <1>2, <3>1 DEF InFlight, OrderKeys, Attempts
    <3>3. ~KeyTaken(o) /\ KeyTaken(o)' /\ idempotency'[o].payment_id = p
      BY <1>5, <3>1 DEF KeyTaken
    <3>4. OrderKeys' = OrderKeys \cup {o}
      BY <2>1, <3>1, <3>2, <3>3 DEF OrderKeys
    <3>5. CommandOf(o) = requests[r].command
      BY <3>2, CommandKnown DEF CommandIsKnown
    <3>6. CommandOf(o)' = requests[r].command
      <4>1. CommandIsKnown'
        BY CommandKnown, PTL
      <4>2. CommandOf(o)' = idempotency'[o].request_fingerprint
        BY <3>3, <4>1 DEF CommandIsKnown
      <4> QED
        BY <1>5, <3>1, <4>2
    <3>7. PaymentOf(o) = None /\ PaymentOf(o)' = p
      BY <3>3 DEF PaymentOf
    <3>8. None \notin seen /\ p \notin seen
      BY <1>5, <2>3, NoneAssumption
         DEF OrdersInv, SeenExist, ResultInv, IInv, ServiceShape
    <3>9. FateOf(o)' = FateOf(o) /\ FateOf(o) # "told"
      BY <1>1, <3>7, <3>8 DEF FateOf
    <3>10. Contract!Becomes(o, [TabOrders[o] EXCEPT !.payment = p])
      <4>1. [TabOrders[o] EXCEPT !.payment = p] =
              [command |-> requests[r].command, payment |-> p, fate |-> FateOf(o)]
        BY <3>2, <3>5, OrderFields
      <4>2. OrderOf(o)' =
              [command |-> requests[r].command, payment |-> p, fate |-> FateOf(o)]
        BY <3>6, <3>7, <3>9 DEF OrderOf
      <4> QED
        BY <2>1, <3>1, <3>4, <4>1, <4>2, OneBecomes
    <3>11. /\ o \in DOMAIN TabOrders
           /\ TabOrders[o].payment = None /\ TabOrders[o].fate # "told"
      BY <3>2, <3>7, <3>9, OrderFields
    <3>12. \A k \in DOMAIN TabOrders : TabOrders[k].payment # p
      <4> SUFFICES ASSUME NEW k \in OrderKeys PROVE PaymentOf(k) # p
        BY OrderFields DEF TabOrders
      <4>1. KeyTaken(k) => idempotency[k].payment_id \in DOMAIN payments
        BY DEF KeyTaken, OrdersInv, ResultInv, ServiceOK, RecordsOK
      <4> QED
        BY <1>5, <2>3, <4>1, NoneAssumption DEF PaymentOf
    <3>13. Contract!Pay(o, p)
      BY <3>10, <3>11, <3>12 DEF Contract!Pay
    <3> QED
      BY <3>13 DEF Contract!Next
  <2> QED
    BY <2>2, <2>3
<1> QED
  BY <1>4, <1>5, EndedOrder DEF OrdersInv

\* Every step of the tab and the service is one of the contract, or none.
LEMMA ContractStep ==
    ASSUME OrdersInv, OrdersInv', [Next]_vars
    PROVE  Contract!Next \/ UNCHANGED TabOrders
<1>1. CASE Aside
  <2>1. UNCHANGED <<activeKey, activeSubmission, seen, abandoned, requests,
                    idempotency>>
    BY <1>1, AsideLeaves
  <2>2. OrderKeys' = OrderKeys /\ \A k \in TabKeys : Kept(k)
    BY <2>1 DEF Kept, OrderKeys, KeyTaken, Attempts, InFlight
  <2> QED
    BY <2>2, OrdersSame
<1>2. CASE UNCHANGED tabVars /\ Elsewhere
  <2>1. /\ UNCHANGED <<activeKey, activeSubmission, seen, abandoned, idempotency>>
        /\ \A q \in Requests, k \in TabKeys :
             /\ InFlight(q, k)' <=> InFlight(q, k)
             /\ InFlight(q, k) => requests'[q] = requests[q]
    BY <1>2, ElsewhereLeaves DEF OrdersInv, tabVars, storageVars
  <2>2. OrderKeys' = OrderKeys /\ \A k \in TabKeys : Kept(k)
    BY <2>1 DEF Kept, OrderKeys, KeyTaken, Attempts, InFlight
  <2> QED
    BY <2>2, OrdersSame
<1> QED
  BY <1>1, <1>2, StepKinds, SubmitOrders, ResolvedOrders, ErrorOrders, EndedOrders

\* The page with its keys, retries, reloads and reads, and the service with its
\* concurrent requests, await one order at a time, make at most one payment for
\* it and for what it asked, and stop awaiting it only by showing the payment or
\* by giving it up on the answer of submitPayment; an order that was given up
\* may still be paid, and one that cannot be paid any more lapses
\* (submitPayment, restorePayment, resetCheckout and _commit_payment_outcome).
THEOREM CheckoutKeepsContract == Spec => ImplementsContract
<1>1. Init => Contract!Init
  <2> SUFFICES ASSUME Init PROVE Contract!Init
    OBVIOUS
  <2>1. OrderKeys = {}
    BY TabAssumption DEF Init, LifecycleInit, OrderKeys, KeyTaken, Attempts
  <2>2. TabOrders = [k \in {} |-> OrderOf(k)]
    BY <2>1 DEF TabOrders
  <2> QED
    BY <2>2 DEF Contract!Init
<1>2. Init => OrdersInv
  BY InitOrders
<1>3. OrdersInv /\ [Next]_vars => OrdersInv'
  BY NextOrders
<1>4. OrdersInv /\ OrdersInv' /\ [Next]_vars => [Contract!Next]_TabOrders
  BY ContractStep
<1> QED
  BY <1>1, <1>2, <1>3, <1>4, PTL DEF Spec, ImplementsContract, Contract!Spec
=============================================================================
