----------------------- MODULE PaymentPlatform_proofs -----------------------
(***************************************************************************)
(* Theorems about PaymentPlatform for every value of its constants.        *)
(***************************************************************************)
EXTENDS PaymentPlatform, TLAPS

----------------------------------------------------------------------------
(* Tables.                                                                 *)

\* Writing rows into a table keeps it a table, and changes those rows only.
LEMMA PutRows ==
    ASSUME NEW K, NEW R, NEW table, NEW rows,
           IsTable(table, K, R), IsTable(rows, K, R)
    PROVE  /\ IsTable(Put(table, rows), K, R)
           /\ DOMAIN Put(table, rows) = DOMAIN table \cup DOMAIN rows
           /\ \A k \in DOMAIN rows : Put(table, rows)[k] = rows[k]
           /\ \A k \in DOMAIN table \ DOMAIN rows :
                Put(table, rows)[k] = table[k]
BY DEF IsTable, Put

\* A single row is a table.
LEMMA RowTable ==
    ASSUME NEW K, NEW R, NEW k \in K, NEW row \in R
    PROVE  /\ IsTable(Row(k, row), K, R)
           /\ DOMAIN Row(k, row) = {k}
           /\ Row(k, row)[k] = row
BY DEF IsTable, Row

----------------------------------------------------------------------------
(* Rows.                                                                   *)

\* Two rows differ at most in their status, balances and version.
SameTerms(s, t) ==
    /\ t.payment_flow = s.payment_flow
    /\ t.amount = s.amount
    /\ t.currency = s.currency
    /\ t.expires_at = s.expires_at

\* Counting up the version changes nothing else.
LEMMA BumpedRow ==
    ASSUME NEW s \in Payment
    PROVE  /\ Bumped(s) \in Payment
           /\ Bumped(s).version = s.version + 1
           /\ Bumped(s).status = s.status
           /\ Balances(Bumped(s), s.authorized_amount, s.captured_amount,
                       s.refunded_amount)
           /\ SameTerms(s, Bumped(s))
<1>1. s.version + 1 \in Nat \ {0}
  BY DEF Payment
<1>2. Bumped(s) = [s EXCEPT !.version = s.version + 1]
  BY DEF Payment, Bumped
<1>3. Bumped(s) \in Payment
  BY <1>1, <1>2 DEF Payment
<1> QED
  BY <1>2, <1>3 DEF Payment, Balances, SameTerms

\* The statuses are the ones the domain names.
LEMMA StatusNames ==
    /\ "CAPTURED" \in Statuses /\ "CANCELLED" \in Statuses
    /\ "EXPIRED" \in Statuses /\ "REFUNDED" \in Statuses
    /\ "PARTIALLY_REFUNDED" \in Statuses
BY DEF Statuses

\* A capture in full (capture) keeps a row well formed, with balances that fit.
LEMMA CaptureRow ==
    ASSUME NEW s \in Payment
    PROVE  /\ capture(s) \in Payment
           /\ capture(s).status = "CAPTURED"
           /\ capture(s).version = s.version
           /\ Balances(capture(s), s.authorized_amount, s.authorized_amount, 0)
           /\ SameTerms(s, capture(s))
BY StatusNames DEF Payment, capture, Balances, SameTerms

\* So does the capture by a confirmation (capture_confirmation).
LEMMA CaptureConfirmationRow ==
    ASSUME NEW s \in Payment, NEW amount \in Nat
    PROVE  /\ capture_confirmation(s, amount) \in Payment
           /\ capture_confirmation(s, amount).status = "CAPTURED"
           /\ capture_confirmation(s, amount).version = s.version
           /\ Balances(capture_confirmation(s, amount), amount, amount, 0)
           /\ SameTerms(s, capture_confirmation(s, amount))
BY StatusNames DEF Payment, capture_confirmation, Balances, SameTerms

\* So does expiry (expire).
LEMMA ExpireRow ==
    ASSUME NEW s \in Payment
    PROVE  /\ expire(s) \in Payment
           /\ expire(s).status = "EXPIRED"
           /\ expire(s).version = s.version
           /\ Balances(expire(s), s.authorized_amount, s.captured_amount,
                       s.refunded_amount)
           /\ SameTerms(s, expire(s))
BY StatusNames DEF Payment, expire, Balances, SameTerms

\* So does cancellation (cancel), of a held or an awaiting payment.
LEMMA CancelRow ==
    ASSUME NEW s \in Payment
    PROVE  /\ cancel(s) \in Payment
           /\ cancel(s).status = "CANCELLED"
           /\ cancel(s).version = s.version
           /\ Balances(cancel(s), s.authorized_amount, 0, 0)
           /\ SameTerms(s, cancel(s))
BY StatusNames DEF Payment, cancel, Balances, SameTerms

\* So does a refund (refund), partial or the last one.
LEMMA RefundRow ==
    ASSUME NEW s \in Payment, NEW amount \in Nat
    PROVE  /\ refund(s, amount) \in Payment
           /\ refund(s, amount).status =
                IF s.refunded_amount + amount = s.captured_amount
                THEN "REFUNDED" ELSE "PARTIALLY_REFUNDED"
           /\ refund(s, amount).version = s.version
           /\ Balances(refund(s, amount), s.authorized_amount,
                       s.captured_amount, s.refunded_amount + amount)
           /\ SameTerms(s, refund(s, amount))
<1> DEFINE status == IF s.refunded_amount + amount = s.captured_amount
                     THEN "REFUNDED" ELSE "PARTIALLY_REFUNDED"
<1>1. refund(s, amount) = [s EXCEPT !.status = status,
                                    !.refunded_amount = s.refunded_amount + amount]
  BY DEF refund
<1>2. status \in Statuses /\ s.refunded_amount + amount \in Nat
  BY StatusNames DEF Payment
<1> HIDE DEF status
<1>3. refund(s, amount) \in Payment
  BY <1>1, <1>2 DEF Payment
<1>4. /\ refund(s, amount).status = status
      /\ refund(s, amount).version = s.version
      /\ Balances(refund(s, amount), s.authorized_amount,
                  s.captured_amount, s.refunded_amount + amount)
      /\ SameTerms(s, refund(s, amount))
  BY <1>1 DEF Payment, Balances, SameTerms
<1> QED
  BY <1>3, <1>4 DEF status

----------------------------------------------------------------------------
(* The moves of a payment row. Every update of the payments table is one,  *)
(* from the row that is current when it commits.                           *)

\* One domain rule with its guard, its counted version and its ledger entries.
Move(s, t, entries) ==
    \/ /\ CanCapture(s)
       /\ t = Bumped(capture(s))
       /\ entries = <<Entry("CAPTURE", capture(s).captured_amount - s.captured_amount)>>
    \/ /\ CanCancel(s)
       /\ t = Bumped(cancel(s))
       /\ entries = IF s.status = "AWAITING_PAYMENT" THEN <<>>
                    ELSE <<Entry("CANCEL", s.authorized_amount)>>
    \/ \E amount \in Amounts :
         /\ CanRefund(s, amount)
         /\ t = Bumped(refund(s, amount))
         /\ entries = <<Entry("REFUND", amount)>>
    \/ /\ CanCaptureConfirmation(s, s.amount)
       /\ t = Bumped(capture_confirmation(s, s.amount))
       /\ entries = <<Entry("CONFIRMATION_CAPTURE", s.amount)>>
    \/ CanExpire(s) /\ t = Bumped(expire(s)) /\ entries = <<>>

\* A move keeps the terms of the payment, counts the version up by one and
\* leads to balances that fit the new status.
LEMMA MoveRow ==
    ASSUME NEW s \in Payment, NEW t, NEW entries,
           MoneyFitsStatus(s), Move(s, t, entries)
    PROVE  /\ t \in Payment
           /\ MoneyFitsStatus(t)
           /\ t.version = s.version + 1
           /\ SameTerms(s, t)
           /\ entries \in Seq(LedgerEntry)
<1>0. /\ s.amount \in Nat \ {0} /\ s.amount \in Nat
      /\ s.authorized_amount \in Nat /\ s.captured_amount \in Nat
      /\ s.refunded_amount \in Nat
  BY AmountsAssumption DEF Payment
<1>e. \A operation \in LedgerOperations, amount \in Nat \ {0} :
        <<Entry(operation, amount)>> \in Seq(LedgerEntry)
  BY DEF Entry, LedgerEntry
<1>1. CASE /\ CanCapture(s)
           /\ t = Bumped(capture(s))
           /\ entries = <<Entry("CAPTURE",
                    capture(s).captured_amount - s.captured_amount)>>
  <2>1. capture(s).captured_amount - s.captured_amount = s.amount
    BY <1>0, <1>1, CaptureRow DEF CanCapture, MoneyFitsStatus, Balances
  <2>2. entries \in Seq(LedgerEntry)
    BY <1>0, <1>1, <1>e, <2>1 DEF LedgerOperations
  <2>3. /\ t \in Payment /\ t.version = s.version + 1 /\ SameTerms(s, t)
        /\ t.status = "CAPTURED" /\ Balances(t, s.amount, s.amount, 0)
    BY <1>1, CaptureRow, BumpedRow
       DEF CanCapture, MoneyFitsStatus, Balances, SameTerms
  <2> QED
    BY <1>0, <1>1, <2>2, <2>3 DEF MoneyFitsStatus, Balances, SameTerms, Delayed, CanCapture
<1>2. CASE /\ CanCancel(s)
           /\ t = Bumped(cancel(s))
           /\ entries = IF s.status = "AWAITING_PAYMENT" THEN <<>>
                        ELSE <<Entry("CANCEL", s.authorized_amount)>>
  <2>1. s.status # "AWAITING_PAYMENT" => s.authorized_amount = s.amount
    BY <1>2 DEF CanCancel, MoneyFitsStatus, Balances
  <2>2. entries \in Seq(LedgerEntry)
    BY <1>0, <1>2, <1>e, <2>1 DEF LedgerOperations
  <2>3. /\ t \in Payment /\ t.version = s.version + 1 /\ SameTerms(s, t)
        /\ t.status = "CANCELLED" /\ Balances(t, s.authorized_amount, 0, 0)
    BY <1>2, CancelRow, BumpedRow DEF Balances, SameTerms
  <2> QED
    BY <1>0, <1>2, <2>2, <2>3
       DEF MoneyFitsStatus, Balances, SameTerms, Delayed, CanCancel
<1>3. CASE \E amount \in Amounts :
             /\ CanRefund(s, amount)
             /\ t = Bumped(refund(s, amount))
             /\ entries = <<Entry("REFUND", amount)>>
  <2>1. PICK amount \in Amounts :
             /\ CanRefund(s, amount)
             /\ t = Bumped(refund(s, amount))
             /\ entries = <<Entry("REFUND", amount)>>
    BY <1>3
  <2>2. amount \in Nat \ {0} /\ amount \in Nat
    BY AmountsAssumption
  <2>3. entries \in Seq(LedgerEntry)
    BY <1>e, <2>1, <2>2 DEF LedgerOperations
  <2>4. /\ s.captured_amount = s.amount /\ s.authorized_amount = s.amount
        /\ s.refunded_amount + amount <= s.amount
    BY <1>0, <2>1, <2>2 DEF CanRefund, refundable_amount, MoneyFitsStatus, Balances
  <2>n. s.refunded_amount + amount \in Nat
    BY <1>0, <2>2
  <2> DEFINE u == refund(s, amount)
  <2>u. /\ u \in Payment /\ u.version = s.version /\ SameTerms(s, u)
        /\ u.status = IF s.refunded_amount + amount = s.captured_amount
                      THEN "REFUNDED" ELSE "PARTIALLY_REFUNDED"
        /\ Balances(u, s.authorized_amount, s.captured_amount,
                    s.refunded_amount + amount)
    BY <2>2, RefundRow
  <2>b. t = Bumped(u)
    BY <2>1
  <2> HIDE DEF u
  <2>5. /\ t \in Payment /\ t.version = s.version + 1 /\ SameTerms(s, t)
        /\ t.status = IF s.refunded_amount + amount = s.amount
                      THEN "REFUNDED" ELSE "PARTIALLY_REFUNDED"
        /\ Balances(t, s.amount, s.amount, s.refunded_amount + amount)
    BY <2>4, <2>u, <2>b, BumpedRow DEF Balances, SameTerms
  <2> QED
    BY <1>0, <2>1, <2>2, <2>3, <2>4, <2>5
       DEF MoneyFitsStatus, Balances, SameTerms, Delayed, CanRefund
<1>4. CASE /\ CanCaptureConfirmation(s, s.amount)
           /\ t = Bumped(capture_confirmation(s, s.amount))
           /\ entries = <<Entry("CONFIRMATION_CAPTURE", s.amount)>>
  <2>1. entries \in Seq(LedgerEntry)
    BY <1>0, <1>4, <1>e DEF LedgerOperations
  <2> DEFINE u == capture_confirmation(s, s.amount)
  <2>u. /\ u \in Payment /\ u.version = s.version /\ SameTerms(s, u)
        /\ u.status = "CAPTURED" /\ Balances(u, s.amount, s.amount, 0)
    BY <1>0, CaptureConfirmationRow
  <2>b. t = Bumped(u)
    BY <1>4
  <2> HIDE DEF u
  <2>2. /\ t \in Payment /\ t.version = s.version + 1 /\ SameTerms(s, t)
        /\ t.status = "CAPTURED" /\ Balances(t, s.amount, s.amount, 0)
    BY <2>u, <2>b, BumpedRow DEF Balances, SameTerms
  <2> QED
    BY <1>0, <1>4, <2>1, <2>2
       DEF MoneyFitsStatus, Balances, SameTerms, Delayed, CanCaptureConfirmation
<1>5. CASE CanExpire(s) /\ t = Bumped(expire(s)) /\ entries = <<>>
  <2>1. /\ t \in Payment /\ t.version = s.version + 1 /\ SameTerms(s, t)
        /\ t.status = "EXPIRED" /\ Balances(t, 0, 0, 0)
    BY <1>5, ExpireRow, BumpedRow
       DEF Balances, SameTerms, CanExpire, MoneyFitsStatus
  <2> QED
    BY <1>5, <2>1 DEF MoneyFitsStatus, Balances, SameTerms, Delayed, CanExpire
<1> QED
  BY <1>1, <1>2, <1>3, <1>4, <1>5 DEF Move

----------------------------------------------------------------------------
(* Publishing rows.                                                        *)

\* The tables have their types, and agree with each other.
TablesOK ==
    /\ IsTable(payments, PaymentIds, Payment)
    /\ ledger \in [PaymentIds -> Seq(LedgerEntry)]
    /\ events \in [PaymentIds -> Seq(Event)]
    /\ BalancesFitStatus
    /\ RowsArePublished

\* No payment disappears or changes its terms, and no event changes.
TermsKept ==
    /\ \A p \in DOMAIN payments :
         p \in DOMAIN payments' /\ SameTerms(payments[p], payments'[p])
    /\ \A p \in PaymentIds : \A v \in DOMAIN events[p] :
         v \in DOMAIN events'[p] /\ events'[p][v] = events[p][v]

\* A row that may be published for p: the first version, or the next one.
NextVersion(p, row) ==
    /\ row \in Payment
    /\ MoneyFitsStatus(row)
    /\ IF p \in DOMAIN payments
       THEN row.version = payments[p].version + 1 /\ SameTerms(payments[p], row)
       ELSE row.version = 1

\* Publishing next versions keeps rows and outbox in step.
LEMMA PublishRows ==
    ASSUME TablesOK, NEW rows, NEW type \in EventTypes,
           IsTable(rows, PaymentIds, Payment),
           \A p \in DOMAIN rows : NextVersion(p, rows[p]),
           Publish(rows, type),
           ledger' \in [PaymentIds -> Seq(LedgerEntry)],
           \A p \in PaymentIds \ (DOMAIN payments \cup DOMAIN rows) :
              ledger'[p] = ledger[p]
    PROVE  TablesOK' /\ TermsKept
<1>0. IsTable(payments, PaymentIds, Payment) /\ payments' = Put(payments, rows)
  BY DEF TablesOK, Publish
<1>1. /\ IsTable(payments', PaymentIds, Payment)
      /\ DOMAIN payments' = DOMAIN payments \cup DOMAIN rows
      /\ \A p \in DOMAIN rows : payments'[p] = rows[p]
      /\ \A p \in DOMAIN payments \ DOMAIN rows : payments'[p] = payments[p]
  <2>1. /\ IsTable(Put(payments, rows), PaymentIds, Payment)
        /\ DOMAIN Put(payments, rows) = DOMAIN payments \cup DOMAIN rows
        /\ \A p \in DOMAIN rows : Put(payments, rows)[p] = rows[p]
        /\ \A p \in DOMAIN payments \ DOMAIN rows :
             Put(payments, rows)[p] = payments[p]
    BY <1>0 DEF IsTable, Put
  <2> QED
    BY <1>0, <2>1
<1>2. DOMAIN payments \subseteq PaymentIds /\ DOMAIN rows \subseteq PaymentIds
  BY DEF TablesOK, IsTable
<1>3. \A p \in PaymentIds :
        /\ events[p] \in Seq(Event)
        /\ p \in DOMAIN rows =>
             /\ [type |-> type, payment |-> rows[p]] \in Event
             /\ events'[p] = Append(events[p], [type |-> type, payment |-> rows[p]])
        /\ p \notin DOMAIN rows => events'[p] = events[p]
  BY DEF TablesOK, Publish, Event, IsTable
<1>4. events' \in [PaymentIds -> Seq(Event)]
  <2>1. ASSUME NEW p \in PaymentIds PROVE events'[p] \in Seq(Event)
    <3>1. CASE p \in DOMAIN rows
      <4> DEFINE e == [type |-> type, payment |-> rows[p]]
      <4>1. e \in Event /\ events[p] \in Seq(Event) /\ events'[p] = Append(events[p], e)
        BY <1>3, <3>1
      <4> HIDE DEF e
      <4> QED
        BY <4>1
    <3>2. CASE p \notin DOMAIN rows
      BY <1>3, <3>2
    <3> QED
      BY <3>1, <3>2
  <2>2. events' = [p \in PaymentIds |-> events'[p]]
    BY DEF Publish
  <2> QED
    BY <2>1, <2>2
<1>5. BalancesFitStatus'
  BY <1>1 DEF TablesOK, BalancesFitStatus, NextVersion
<1>6. RowsArePublished'
  <2>1. SUFFICES ASSUME NEW p \in PaymentIds
                 PROVE  IF p \in DOMAIN payments'
                        THEN /\ payments'[p].version = Len(events'[p])
                             /\ events'[p][Len(events'[p])].payment = payments'[p]
                             /\ \A v \in DOMAIN events'[p] :
                                  events'[p][v].payment.version = v
                        ELSE events'[p] = <<>> /\ ledger'[p] = <<>>
    BY DEF RowsArePublished
  <2>2. CASE p \in DOMAIN rows
    <3> DEFINE e == [type |-> type, payment |-> rows[p]]
    <3>0. e \in Event /\ events[p] \in Seq(Event) /\ events'[p] = Append(events[p], e)
      BY <1>3, <2>2
    <3>p. e.payment = rows[p]
      OBVIOUS
    <3> HIDE DEF e
    <3>1. /\ Len(events'[p]) = Len(events[p]) + 1
          /\ DOMAIN events'[p] = 1..(Len(events[p]) + 1)
          /\ events'[p][Len(events[p]) + 1] = e
          /\ \A v \in 1..Len(events[p]) : events'[p][v] = events[p][v]
          /\ DOMAIN events[p] = 1..Len(events[p]) /\ Len(events[p]) \in Nat
      BY <3>0
    <3>2. rows[p].version = Len(events[p]) + 1
      BY <2>2, <3>1 DEF TablesOK, RowsArePublished, NextVersion
    <3>3. \A v \in 1..Len(events[p]) : events[p][v].payment.version = v
      BY <2>2, <3>1 DEF TablesOK, RowsArePublished
    <3>4. /\ payments'[p].version = Len(events'[p])
          /\ events'[p][Len(events'[p])].payment = payments'[p]
      BY <1>1, <2>2, <3>1, <3>2, <3>p
    <3>5. ASSUME NEW v \in 1..(Len(events[p]) + 1)
          PROVE  events'[p][v].payment.version = v
      <4>1. CASE v = Len(events[p]) + 1
        BY <3>1, <3>2, <3>p, <4>1
      <4>2. CASE v \in 1..Len(events[p])
        BY <3>1, <3>3, <4>2
      <4> QED
        BY <3>1, <4>1, <4>2
    <3>6. p \in DOMAIN payments'
      BY <1>1, <2>2
    <3> QED
      BY <3>1, <3>4, <3>5, <3>6
  <2>3. CASE p \notin DOMAIN rows
    BY <1>1, <1>3, <2>3 DEF TablesOK, RowsArePublished
  <2> QED
    BY <2>2, <2>3
<1>7. TermsKept
  <2>1. \A p \in DOMAIN payments :
          p \in DOMAIN payments' /\ SameTerms(payments[p], payments'[p])
    BY <1>1 DEF NextVersion, SameTerms
  <2>2. ASSUME NEW p \in PaymentIds, NEW v \in DOMAIN events[p]
        PROVE  v \in DOMAIN events'[p] /\ events'[p][v] = events[p][v]
    <3>1. CASE p \in DOMAIN rows
      <4> DEFINE e == [type |-> type, payment |-> rows[p]]
      <4>1. e \in Event /\ events[p] \in Seq(Event) /\ events'[p] = Append(events[p], e)
        BY <1>3, <3>1
      <4> HIDE DEF e
      <4> QED
        BY <4>1
    <3>2. CASE p \notin DOMAIN rows
      BY <1>3, <3>2
    <3> QED
      BY <3>1, <3>2
  <2> QED
    BY <2>1, <2>2 DEF TermsKept
<1> QED
  BY <1>1, <1>4, <1>5, <1>6, <1>7 DEF TablesOK

\* The empty sequence, and concatenation, stay in the ledger's type.
LEMMA EnterEntries ==
    ASSUME ledger \in [PaymentIds -> Seq(LedgerEntry)],
           NEW p \in PaymentIds, NEW entries \in Seq(LedgerEntry),
           Enter(p, entries)
    PROVE  /\ ledger' \in [PaymentIds -> Seq(LedgerEntry)]
           /\ ledger'[p] = ledger[p] \o entries
           /\ \A q \in PaymentIds \ {p} : ledger'[q] = ledger[q]
<1>1. ledger[p] \in Seq(LedgerEntry)
  OBVIOUS
<1>2. ledger[p] \o entries \in Seq(LedgerEntry)
  BY <1>1
<1>3. ledger' = [ledger EXCEPT ![p] = ledger[p] \o entries]
  BY DEF Enter
<1> DEFINE s == ledger[p] \o entries
<1>4. s \in Seq(LedgerEntry) /\ ledger' = [ledger EXCEPT ![p] = s]
  BY <1>2, <1>3
<1> HIDE DEF s
<1>5. /\ ledger' \in [PaymentIds -> Seq(LedgerEntry)]
      /\ ledger'[p] = s
      /\ \A q \in PaymentIds \ {p} : ledger'[q] = ledger[q]
  BY <1>4
<1> QED
  BY <1>5 DEF s

\* A step that moves one payment from its current row keeps the tables.
LEMMA MoveStep ==
    ASSUME TablesOK, NEW p \in DOMAIN payments, NEW t, NEW entries,
           NEW type \in EventTypes,
           Move(payments[p], t, entries),
           Publish(Row(p, t), type), Enter(p, entries)
    PROVE  TablesOK' /\ TermsKept /\ t \in Payment
<1>1. p \in PaymentIds /\ payments[p] \in Payment /\ MoneyFitsStatus(payments[p])
  BY DEF TablesOK, IsTable, BalancesFitStatus
<1>2. /\ t \in Payment /\ MoneyFitsStatus(t) /\ t.version = payments[p].version + 1
      /\ SameTerms(payments[p], t) /\ entries \in Seq(LedgerEntry)
  BY <1>1, MoveRow
<1>3. NextVersion(p, t)
  BY <1>2 DEF NextVersion
<1> DEFINE rows == Row(p, t)
<1>4. /\ IsTable(rows, PaymentIds, Payment) /\ DOMAIN rows = {p} /\ rows[p] = t
  BY <1>1, <1>2, RowTable
<1>5. Publish(rows, type)
  OBVIOUS
<1> HIDE DEF rows
<1>6. \A q \in DOMAIN rows : NextVersion(q, rows[q])
  BY <1>3, <1>4
<1>7. /\ ledger' \in [PaymentIds -> Seq(LedgerEntry)]
      /\ \A q \in PaymentIds \ {p} : ledger'[q] = ledger[q]
  BY <1>1, <1>2, EnterEntries DEF TablesOK
<1>8. \A q \in PaymentIds \ (DOMAIN payments \cup DOMAIN rows) :
         ledger'[q] = ledger[q]
  BY <1>7
<1> QED
  BY <1>2, <1>4, <1>5, <1>6, <1>7, <1>8, PublishRows

\* A step that opens a payment keeps the tables.
LEMMA OpenStep ==
    ASSUME TablesOK, NEW p \in PaymentIds \ DOMAIN payments,
           NEW row \in Payment, row.version = 1, MoneyFitsStatus(row),
           NEW entries \in Seq(LedgerEntry), NEW type \in EventTypes,
           Publish(Row(p, row), type), Enter(p, entries)
    PROVE  TablesOK' /\ TermsKept
<1>1. NextVersion(p, row)
  BY DEF NextVersion
<1> DEFINE rows == Row(p, row)
<1>2. IsTable(rows, PaymentIds, Payment) /\ DOMAIN rows = {p} /\ rows[p] = row
  BY RowTable
<1>3. Publish(rows, type)
  OBVIOUS
<1> HIDE DEF rows
<1>4. \A q \in DOMAIN rows : NextVersion(q, rows[q])
  BY <1>1, <1>2
<1>5. /\ ledger' \in [PaymentIds -> Seq(LedgerEntry)]
      /\ \A q \in PaymentIds \ {p} : ledger'[q] = ledger[q]
  BY EnterEntries DEF TablesOK
<1>6. \A q \in PaymentIds \ (DOMAIN payments \cup DOMAIN rows) :
         ledger'[q] = ledger[q]
  BY <1>2, <1>5
<1> QED
  BY <1>2, <1>3, <1>4, <1>5, <1>6, PublishRows

\* A step that expires any number of awaiting payments keeps the tables.
LEMMA ExpireStep ==
    ASSUME TablesOK, NEW due, due \subseteq DOMAIN payments,
           \A p \in due : CanExpire(payments[p]),
           Publish([p \in due |-> Bumped(expire(payments[p]))], "payment.expired"),
           UNCHANGED ledger
    PROVE  TablesOK' /\ TermsKept
<1>1. ASSUME NEW p \in due
      PROVE  NextVersion(p, Bumped(expire(payments[p])))
  <2>1. p \in DOMAIN payments /\ payments[p] \in Payment
        /\ MoneyFitsStatus(payments[p])
    BY DEF TablesOK, IsTable, BalancesFitStatus
  <2>2. Move(payments[p], Bumped(expire(payments[p])), <<>>)
    BY DEF Move
  <2> DEFINE t == Bumped(expire(payments[p]))
  <2>3. /\ t \in Payment /\ MoneyFitsStatus(t)
        /\ t.version = payments[p].version + 1 /\ SameTerms(payments[p], t)
    <3>1. Move(payments[p], t, <<>>)
      BY <2>2
    <3> HIDE DEF t
    <3> QED
      BY <2>1, <3>1, MoveRow
  <2> QED
    BY <2>1, <2>3 DEF NextVersion
<1> DEFINE rows == [p \in due |-> Bumped(expire(payments[p]))]
<1>2. DOMAIN rows = due /\ \A p \in due : NextVersion(p, rows[p])
  BY <1>1
<1>3. IsTable(rows, PaymentIds, Payment)
  BY <1>1 DEF TablesOK, IsTable, NextVersion
<1>4. Publish(rows, "payment.expired") /\ "payment.expired" \in EventTypes
  BY DEF EventTypes
<1> HIDE DEF rows
<1>5. /\ ledger' \in [PaymentIds -> Seq(LedgerEntry)]
      /\ \A q \in PaymentIds \ (DOMAIN payments \cup DOMAIN rows) :
           ledger'[q] = ledger[q]
  BY DEF TablesOK
<1> QED
  BY <1>2, <1>3, <1>4, <1>5, PublishRows

----------------------------------------------------------------------------
(* The inductive invariant: the tables, the sessions of the lifecycle      *)
(* requests, and the deliveries.                                           *)

SessionsOK ==
    /\ IsTable(idempotency, Keys, IdempotencyRecord)
    /\ requests \in [Requests -> Request \cup {None}]
    /\ answers \in [Requests -> Answer \cup {None}]
    /\ CopiesArePublished

DeliveriesOK ==
    /\ IsTable(receipts, ConfirmationIds, Receipt)
    /\ now \in Nat
    /\ IsTable(confirmations, ConfirmationIds, Confirmation)
    /\ completing \in [Workers -> SUBSET DOMAIN receipts]
    /\ sweeps \in [Sweepers -> Nat \cup {None}]

Core == TablesOK /\ SessionsOK /\ DeliveriesOK

\* The invariant is the type invariant with two of the safety invariants.
LEMMA CoreMeaning ==
    Core <=> TypeOK /\ BalancesFitStatus /\ OutboxMirrorsVersions
BY DEF Core, TablesOK, SessionsOK, DeliveriesOK, TypeOK, OutboxMirrorsVersions

\* Steps of the tables that keep their events keep the sessions' copies, as
\* long as no session loads a new one.
LEMMA CopiesKept ==
    ASSUME TablesOK, SessionsOK, TermsKept, TablesOK',
           \A r \in Requests : requests'[r] \in {requests[r], None}
    PROVE  CopiesArePublished'
<1> SUFFICES ASSUME NEW r \in Requests,
                    requests'[r] # None, requests'[r].copy # None
             PROVE  LET p == requests'[r].command.payment_id
                        copy == requests'[r].copy
                    IN  /\ p \in DOMAIN payments'
                        /\ copy.version \in DOMAIN events'[p]
                        /\ events'[p][copy.version].payment = copy
  BY DEF CopiesArePublished
<1> DEFINE p == requests[r].command.payment_id
           copy == requests[r].copy
<1>1. requests'[r] = requests[r]
  OBVIOUS
<1>2. /\ p \in DOMAIN payments
      /\ copy.version \in DOMAIN events[p]
      /\ events[p][copy.version].payment = copy
  BY <1>1 DEF SessionsOK, CopiesArePublished
<1>3. p \in PaymentIds
  BY <1>2 DEF TablesOK, IsTable
<1> QED
  BY <1>1, <1>2, <1>3 DEF TermsKept

\* A request that ends keeps the sessions' types.
LEMMA DoneRequest ==
    ASSUME SessionsOK, NEW r \in Requests, NEW answer \in Answer \cup {None},
           Done(r, answer)
    PROVE  /\ requests' \in [Requests -> Request \cup {None}]
           /\ answers' \in [Requests -> Answer \cup {None}]
           /\ \A q \in Requests : requests'[q] \in {requests[q], None}
<1>1. /\ requests' = [requests EXCEPT ![r] = None]
      /\ answers' = [answers EXCEPT ![r] = answer]
  BY DEF Done
<1> QED
  BY <1>1 DEF SessionsOK

\* The tables of a step that leaves them alone.
LEMMA SameTables ==
    ASSUME TablesOK, UNCHANGED <<payments, ledger, events>>
    PROVE  TablesOK' /\ TermsKept
<1>1. TablesOK'
  BY DEF TablesOK, BalancesFitStatus, RowsArePublished
<1>2. TermsKept
  BY DEF TermsKept, SameTerms
<1> QED
  BY <1>1, <1>2

\* The deliveries of a step of a lifecycle request.
LEMMA SameDeliveries ==
    ASSUME DeliveriesOK, UNCHANGED <<receipts, now, confirmationVars>>
    PROVE  DeliveriesOK'
BY DEF DeliveriesOK, confirmationVars

\* The sessions of a step of a delivery.
LEMMA SameSessions ==
    ASSUME TablesOK, SessionsOK, TermsKept, TablesOK', UNCHANGED lifecycleVars
    PROVE  SessionsOK'
<1>1. UNCHANGED <<idempotency, requests, answers>>
  BY DEF lifecycleVars
<1>2. CopiesArePublished'
  <2>1. \A r \in Requests : requests'[r] \in {requests[r], None}
    BY <1>1
  <2> QED
    BY <2>1, CopiesKept
<1> QED
  BY <1>1, <1>2 DEF SessionsOK

----------------------------------------------------------------------------
(* Lifecycle requests.                                                     *)

\* What a key's record holds is an answer.
LEMMA Snapshot ==
    ASSUME SessionsOK, NEW key \in DOMAIN idempotency, NEW command \in Command
    PROVE  find_idempotent_snapshot(key, command) \in Answer \cup {None}
<1>1. key \in Keys /\ idempotency[key] \in IdempotencyRecord
  BY DEF SessionsOK, IsTable
<1>2. [key |-> key, command |-> command,
       payment_id |-> idempotency[key].payment_id,
       payment |-> idempotency[key].response_snapshot] \in Answer
  BY <1>1 DEF Answer, IdempotencyRecord
<1> QED
  BY <1>2 DEF find_idempotent_snapshot

\* A request in progress has a key and a command.
LEMMA InProgress ==
    ASSUME SessionsOK, NEW r \in Requests, requests[r] # None
    PROVE  /\ requests[r] \in Request
           /\ requests[r].command \in Command
           /\ requests[r].key \in Keys
           /\ requests[r].copy \in Payment \cup {None}
           /\ requests[r].at \in Nat
<1>1. requests[r] \in Request
  BY DEF SessionsOK
<1> QED
  BY <1>1 DEF Request

\* The arrival and look-up of a request keeps the invariant: the copy it brings
\* was read from the current row.
LEMMA ArriveCore ==
    ASSUME Core, NEW r \in Requests, NEW command \in Command, NEW key \in Keys,
           Sendable(command), NEW copy \in SessionCopies(command),
           Arrive(r, command, key, copy), UNCHANGED confirmationVars
    PROVE  Core'
<1>1. UNCHANGED <<payments, ledger, events, receipts, now, idempotency>>
  BY DEF Arrive, storeVars
<1>2. TablesOK' /\ TermsKept /\ DeliveriesOK'
  BY <1>1, SameTables, SameDeliveries DEF Core
<1>3. IsTable(idempotency', Keys, IdempotencyRecord)
  BY <1>1 DEF Core, SessionsOK
<1>4. CASE KeyTaken(key) /\ command.operation # "CANCEL"
  <2> DEFINE answer == find_idempotent_snapshot(key, command)
  <2>1. answer \in Answer \cup {None}
    BY <1>4, Snapshot DEF KeyTaken, Core
  <2>2. Done(r, answer)
    BY <1>4 DEF Arrive
  <2> HIDE DEF answer
  <2>3. /\ requests' \in [Requests -> Request \cup {None}]
        /\ answers' \in [Requests -> Answer \cup {None}]
        /\ \A q \in Requests : requests'[q] \in {requests[q], None}
    BY <2>1, <2>2, DoneRequest DEF Core
  <2>4. CopiesArePublished'
    BY <1>2, <2>3, CopiesKept DEF Core
  <2> QED
    BY <1>2, <1>3, <2>3, <2>4 DEF Core, SessionsOK
<1>5. CASE ~(KeyTaken(key) /\ command.operation # "CANCEL")
  <2> DEFINE at == IF command.operation = "AUTHORIZE" THEN now ELSE 0
             request == [command |-> command, key |-> key, copy |-> copy, at |-> at]
  <2>1. /\ requests' = [requests EXCEPT ![r] = request]
        /\ answers' = [answers EXCEPT ![r] = None]
    BY <1>5 DEF Arrive
  <2>2. copy # None => /\ copy \in Payment
                       /\ command.payment_id \in DOMAIN payments
                       /\ copy = payments[command.payment_id]
    BY DEF SessionCopies, Core, TablesOK, IsTable
  <2>3. at \in Nat
    BY DEF Core, DeliveriesOK
  <2>4. request \in Request /\ request.copy = copy /\ request.command = command
    BY <2>2, <2>3 DEF Request
  <2> HIDE DEF request
  <2>5. requests' \in [Requests -> Request \cup {None}]
        /\ answers' \in [Requests -> Answer \cup {None}]
    BY <2>1, <2>4 DEF Core, SessionsOK
  <2>6. CopiesArePublished'
    <3> SUFFICES ASSUME NEW q \in Requests,
                        requests'[q] # None, requests'[q].copy # None
                 PROVE  LET p == requests'[q].command.payment_id
                            c == requests'[q].copy
                        IN  /\ p \in DOMAIN payments'
                            /\ c.version \in DOMAIN events'[p]
                            /\ events'[p][c.version].payment = c
      BY DEF CopiesArePublished
    <3>1. CASE q = r
      <4>1. requests'[q] = request
        BY <2>1, <3>1 DEF Core, SessionsOK
      <4> DEFINE p == command.payment_id
      <4>2. p \in DOMAIN payments /\ copy = payments[p] /\ copy \in Payment
        BY <2>2, <2>4, <4>1
      <4>3. p \in PaymentIds
        BY <4>2 DEF Core, TablesOK, IsTable
      <4>4. /\ copy.version = Len(events[p])
            /\ events[p][Len(events[p])].payment = copy
        BY <4>2, <4>3 DEF Core, TablesOK, RowsArePublished
      <4>5. copy.version \in Nat \ {0} /\ events[p] \in Seq(Event)
        BY <4>2, <4>3 DEF Payment, Core, TablesOK
      <4>6. copy.version \in DOMAIN events[p]
        BY <4>4, <4>5
      <4> QED
        BY <1>1, <2>4, <4>1, <4>2, <4>4, <4>6
    <3>2. CASE q # r
      <4>1. requests'[q] = requests[q]
        BY <2>1, <3>2 DEF Core, SessionsOK
      <4> QED
        BY <1>1, <4>1 DEF Core, SessionsOK, CopiesArePublished
    <3> QED
      BY <3>1, <3>2
  <2> QED
    BY <1>2, <1>3, <2>5, <2>6 DEF Core, SessionsOK
<1> QED
  BY <1>4, <1>5

\* Replaying a concurrently claimed key changes no table.
LEMMA ReplayCore ==
    ASSUME Core, NEW r \in Requests, ReplayConcurrent(r),
           UNCHANGED confirmationVars
    PROVE  Core'
<1> DEFINE answer == find_idempotent_snapshot(requests[r].key, requests[r].command)
<1>1. UNCHANGED <<payments, ledger, events, receipts, now, idempotency>>
  BY DEF ReplayConcurrent, storeVars
<1>2. TablesOK' /\ TermsKept /\ DeliveriesOK'
  BY <1>1, SameTables, SameDeliveries DEF Core
<1>3. answer \in Answer \cup {None}
  BY InProgress, Snapshot DEF ReplayConcurrent, KeyTaken, Core
<1>4. Done(r, answer)
  BY DEF ReplayConcurrent
<1> HIDE DEF answer
<1>5. /\ requests' \in [Requests -> Request \cup {None}]
      /\ answers' \in [Requests -> Answer \cup {None}]
      /\ \A q \in Requests : requests'[q] \in {requests[q], None}
  BY <1>3, <1>4, DoneRequest DEF Core
<1>6. CopiesArePublished'
  BY <1>2, <1>5, CopiesKept DEF Core
<1> QED
  BY <1>1, <1>2, <1>5, <1>6 DEF Core, SessionsOK

\* A request that ends without an answer or an effect.
LEMMA EndCore ==
    ASSUME Core, NEW r \in Requests, Done(r, None),
           UNCHANGED <<storeVars, idempotency, confirmationVars>>
    PROVE  Core'
<1>1. UNCHANGED <<payments, ledger, events, receipts, now, idempotency>>
  BY DEF storeVars
<1>2. TablesOK' /\ TermsKept /\ DeliveriesOK'
  BY <1>1, SameTables, SameDeliveries DEF Core
<1>3. /\ requests' \in [Requests -> Request \cup {None}]
      /\ answers' \in [Requests -> Answer \cup {None}]
      /\ \A q \in Requests : requests'[q] \in {requests[q], None}
  BY DoneRequest DEF Core
<1>4. CopiesArePublished'
  BY <1>2, <1>3, CopiesKept DEF Core
<1> QED
  BY <1>1, <1>2, <1>3, <1>4 DEF Core, SessionsOK

\* The commit of a request stores a record of its type, and ends the request.
LEMMA CommitSessions ==
    ASSUME Core, NEW r \in Requests, requests[r] # None,
           NEW p \in PaymentIds, NEW row \in Payment, Commit(r, p, row),
           TablesOK', TermsKept
    PROVE  SessionsOK'
<1>1. requests[r].command \in Command /\ requests[r].key \in Keys
  BY InProgress DEF Core
<1> DEFINE record == [request_fingerprint |-> requests[r].command,
                      payment_id |-> p, response_snapshot |-> row]
           answer == [key |-> requests[r].key, command |-> requests[r].command,
                      payment_id |-> p, payment |-> row]
           key == requests[r].key
<1>2. record \in IdempotencyRecord
  BY <1>1 DEF IdempotencyRecord
<1>3. answer \in Answer
  BY <1>1 DEF Answer
<1>4. /\ idempotency' = Put(idempotency, Row(key, record))
      /\ Done(r, answer) \/ Done(r, None)
  BY DEF Commit
<1> HIDE DEF record, answer, key
<1>5. IsTable(Row(key, record), Keys, IdempotencyRecord)
  BY <1>1, <1>2, RowTable DEF key
<1>6. IsTable(idempotency', Keys, IdempotencyRecord)
  BY <1>4, <1>5 DEF Core, SessionsOK, IsTable, Put
<1>7. PICK a \in Answer \cup {None} : Done(r, a)
  BY <1>3, <1>4
<1>8. /\ requests' \in [Requests -> Request \cup {None}]
      /\ answers' \in [Requests -> Answer \cup {None}]
      /\ \A q \in Requests : requests'[q] \in {requests[q], None}
  BY <1>7, DoneRequest DEF Core
<1>9. CopiesArePublished'
  BY <1>8, CopiesKept DEF Core
<1> QED
  BY <1>6, <1>8, <1>9 DEF SessionsOK

\* The version check, and the outbox that knows every version, make the row
\* a session decides on the current one when its update is admitted.
LEMMA LoadedIsCurrent ==
    ASSUME Core, NEW r \in Requests, requests[r] # None,
           requests[r].command.payment_id \in DOMAIN payments,
           VersionIsCurrent(r)
    PROVE  Loaded(r) = payments[requests[r].command.payment_id]
<1> DEFINE p == requests[r].command.payment_id
           copy == requests[r].copy
<1>1. CASE copy = None
  BY <1>1 DEF Loaded
<1>2. CASE copy # None
  <2>1. p \in PaymentIds
    BY DEF Core, TablesOK, IsTable
  <2>2. Loaded(r) = copy /\ payments[p].version = copy.version
    BY <1>2 DEF Loaded, VersionIsCurrent
  <2>3. events[p][copy.version].payment = copy
    BY <1>2 DEF Core, SessionsOK, CopiesArePublished
  <2>4. /\ payments[p].version = Len(events[p])
        /\ events[p][Len(events[p])].payment = payments[p]
    BY <2>1 DEF Core, TablesOK, RowsArePublished
  <2> QED
    BY <2>2, <2>3, <2>4
<1> QED
  BY <1>1, <1>2

\* What an accepted operation of a request does: a move of the current row.
LEMMA ApplyMoves ==
    ASSUME Core, NEW r \in Requests, requests[r] # None,
           requests[r].command.payment_id \in DOMAIN payments,
           NEW next, NEW entries, NEW type \in EventTypes,
           Move(Loaded(r), Bumped(next), entries),
           Apply(r, next, entries, type)
    PROVE  LET p == requests[r].command.payment_id
           IN  /\ Move(payments[p], Bumped(next), entries)
               /\ Publish(Row(p, Bumped(next)), type)
               /\ Enter(p, entries)
               /\ Commit(r, p, Bumped(next))
               /\ UNCHANGED <<receipts, now>>
BY LoadedIsCurrent DEF Apply

\* An operation whose row is current and whose result is a move keeps the
\* invariant.
LEMMA ApplyCore ==
    ASSUME Core, NEW r \in Requests, requests[r] # None,
           requests[r].command.payment_id \in DOMAIN payments,
           NEW next, NEW entries, NEW type \in EventTypes,
           Move(Loaded(r), Bumped(next), entries),
           Apply(r, next, entries, type), UNCHANGED confirmationVars
    PROVE  Core'
<1> DEFINE p == requests[r].command.payment_id
           t == Bumped(next)
<1>1. /\ Move(payments[p], t, entries)
      /\ Publish(Row(p, t), type)
      /\ Enter(p, entries)
      /\ Commit(r, p, t)
      /\ UNCHANGED <<receipts, now>>
  BY ApplyMoves
<1>2. p \in DOMAIN payments /\ p \in PaymentIds
  BY DEF Core, TablesOK, IsTable
<1> HIDE DEF p, t
<1>3. TablesOK' /\ TermsKept /\ t \in Payment
  BY <1>1, <1>2, MoveStep DEF Core
<1>4. SessionsOK'
  BY <1>1, <1>2, <1>3, CommitSessions
<1>5. DeliveriesOK'
  BY <1>1, SameDeliveries DEF Core
<1> QED
  BY <1>3, <1>4, <1>5 DEF Core

\* Every operation of the domain that a request asks for is a move.
LEMMA CaptureMoves ==
    ASSUME NEW r, Capture(r)
    PROVE  \E next, entries :
             /\ Move(Loaded(r), Bumped(next), entries)
             /\ Apply(r, next, entries, "payment.captured")
<1> DEFINE next == capture(Loaded(r))
           entries == <<Entry("CAPTURE",
                              next.captured_amount - Loaded(r).captured_amount)>>
<1>1. Move(Loaded(r), Bumped(next), entries)
  BY DEF Capture, Move
<1>2. Apply(r, next, entries, "payment.captured")
  BY DEF Capture
<1> QED
  BY <1>1, <1>2

\* The same of Cancel, which has no ledger entry for an awaiting payment.
LEMMA CancelMoves ==
    ASSUME NEW r, Cancel(r)
    PROVE  \E next, entries :
             /\ Move(Loaded(r), Bumped(next), entries)
             /\ Apply(r, next, entries, "payment.cancelled")
<1> DEFINE next == cancel(Loaded(r))
           entries == IF Loaded(r).status = "AWAITING_PAYMENT" THEN <<>>
                      ELSE <<Entry("CANCEL", Loaded(r).authorized_amount)>>
<1>1. Move(Loaded(r), Bumped(next), entries)
  BY DEF Cancel, Cancellable, Move
<1>2. Apply(r, next, entries, "payment.cancelled")
  BY DEF Cancel
<1> QED
  BY <1>1, <1>2

\* The same of Refund, partial or complete.
LEMMA RefundMoves ==
    ASSUME Core, NEW r \in Requests, Refund(r)
    PROVE  \E next, entries :
             /\ Move(Loaded(r), Bumped(next), entries)
             /\ Apply(r, next, entries, "payment.refunded")
<1> DEFINE amount == requests[r].command.amount
           next == refund(Loaded(r), amount)
           entries == <<Entry("REFUND", amount)>>
<1>1. requests[r] # None /\ requests[r].command.operation = "REFUND"
  BY DEF Refund, Finds, Claims
<1>2. requests[r].command \in Command
  BY <1>1, InProgress DEF Core
<1>3. amount \in Amounts
  BY <1>1, <1>2 DEF Command, AuthorizationCommand, LifecycleCommand
<1>4. CanRefund(Loaded(r), amount)
  BY DEF Refund
<1>5. Move(Loaded(r), Bumped(next), entries)
  BY <1>3, <1>4 DEF Move
<1>6. Apply(r, next, entries, "payment.refunded")
  BY DEF Refund
<1> QED
  BY <1>5, <1>6

\* Capture, Cancel and Refund keep the invariant, on copies however old.
LEMMA OperationCore ==
    ASSUME Core, NEW r \in Requests, Capture(r) \/ Cancel(r) \/ Refund(r),
           UNCHANGED confirmationVars
    PROVE  Core'
<1>1. /\ requests[r] # None
      /\ requests[r].command.payment_id \in DOMAIN payments
  BY DEF Capture, Cancel, Refund, Finds, Claims
<1>2. \E type \in EventTypes : \E next, entries :
        /\ Move(Loaded(r), Bumped(next), entries)
        /\ Apply(r, next, entries, type)
  <2>1. /\ "payment.captured" \in EventTypes
        /\ "payment.cancelled" \in EventTypes
        /\ "payment.refunded" \in EventTypes
    BY DEF EventTypes
  <2> QED
    BY <2>1, CaptureMoves, CancelMoves, RefundMoves
<1> QED
  BY <1>1, <1>2, ApplyCore

\* An authorization opens a payment whose balances fit its status.
LEMMA AuthorizeCore ==
    ASSUME Core, NEW r \in Requests, NEW p \in PaymentIds, Authorize(r, p),
           UNCHANGED confirmationVars
    PROVE  Core'
<1> DEFINE command == requests[r].command
           delayed == command.token = "AWAIT_CONFIRMATION"
           authorized == IF delayed THEN 0
                         ELSE authorize_amount(command.amount, command.token)
           status == IF delayed THEN "AWAITING_PAYMENT"
                     ELSE authorize_status(command.token)
           expires_at == IF delayed THEN requests[r].at + Window ELSE None
           flow == IF delayed THEN "ASYNCHRONOUS_CONFIRMATION" ELSE "SYNCHRONOUS"
           row == [status |-> status, payment_flow |-> flow,
                   amount |-> command.amount, currency |-> command.currency,
                   expires_at |-> expires_at,
                   authorized_amount |-> authorized, captured_amount |-> 0,
                   refunded_amount |-> 0, version |-> 1]
           type == IF delayed THEN "payment.confirmation_requested"
                   ELSE IF status = "AUTHORIZED" THEN "payment.authorized"
                   ELSE "payment.declined"
           entries == IF authorized > 0 THEN <<Entry("AUTHORIZATION", authorized)>>
                      ELSE <<>>
<1>1. /\ requests[r] # None /\ command.operation = "AUTHORIZE"
      /\ p \in PaymentIds \ DOMAIN payments
      /\ Publish(Row(p, row), type)
      /\ Enter(p, entries)
      /\ Commit(r, p, row)
      /\ UNCHANGED <<receipts, now>>
  BY DEF Authorize, Claims
<1>2. /\ command.amount \in Nat \ {0} /\ command.amount \in Amounts
      /\ command.currency \in Currencies /\ requests[r].at \in Nat
  BY <1>1, InProgress, AmountsAssumption
     DEF Core, Command, AuthorizationCommand, LifecycleCommand
<1>3. /\ authorized \in {0, command.amount}
      /\ authorized = IF status = "AUTHORIZED" THEN command.amount ELSE 0
      /\ status \in {"AUTHORIZED", "DECLINED", "AWAITING_PAYMENT"}
      /\ status = "AWAITING_PAYMENT" <=> delayed
  BY <1>2 DEF authorize_amount, authorize_status
<1>4. expires_at \in Nat \cup {None} /\ flow \in Flows /\ type \in EventTypes
  BY <1>2, WindowAssumption DEF Flows, EventTypes
<1>5. delayed <=> expires_at # None
  BY <1>2, WindowAssumption, NoneAssumption
<1>6. delayed <=> flow = "ASYNCHRONOUS_CONFIRMATION"
  OBVIOUS
<1>7. entries \in Seq(LedgerEntry)
  <2> HIDE DEF authorized
  <2>1. authorized > 0 => Entry("AUTHORIZATION", authorized) \in LedgerEntry
    BY <1>2, <1>3 DEF Entry, LedgerEntry, LedgerOperations
  <2> QED
    BY <2>1
<1> HIDE DEF authorized, status, expires_at, flow, type, entries, delayed, command
<1>8. status \in Statuses
  BY <1>3 DEF Statuses
<1>9. row \in Payment
  BY <1>2, <1>3, <1>4, <1>8 DEF Payment
<1>10. MoneyFitsStatus(row)
  <2>1. /\ row.status = status /\ row.amount = command.amount
        /\ Balances(row, authorized, 0, 0)
        /\ row.expires_at = expires_at /\ row.payment_flow = flow
    BY DEF Balances
  <2> HIDE DEF row
  <2>2. Delayed(row) <=> status = "AWAITING_PAYMENT"
    BY <1>3, <1>6, <2>1 DEF Delayed
  <2>3. Delayed(row) <=> row.expires_at # None
    BY <1>3, <1>5, <2>1, <2>2
  <2> QED
    BY <1>3, <2>1, <2>2, <2>3 DEF MoneyFitsStatus, Balances
<1>11. row.version = 1
  OBVIOUS
<1> HIDE DEF row
<1>12. TablesOK' /\ TermsKept
  BY <1>1, <1>4, <1>7, <1>9, <1>10, <1>11, OpenStep DEF Core
<1>13. SessionsOK'
  BY <1>1, <1>9, <1>12, CommitSessions
<1>14. DeliveriesOK'
  BY <1>1, SameDeliveries DEF Core
<1> QED
  BY <1>12, <1>13, <1>14 DEF Core

\* Every step of a lifecycle request keeps the invariant.
LEMMA LifecycleCore ==
    ASSUME Core, LifecycleNext, UNCHANGED confirmationVars
    PROVE  Core'
<1>1. PICK r \in Requests :
        \/ \E command \in Command, key \in Keys :
             /\ Sendable(command)
             /\ \E copy \in SessionCopies(command) :
                  Arrive(r, command, key, copy)
        \/ Perform(r)
        \/ Interrupt(r)
  BY DEF LifecycleNext
<1>2. CASE \E command \in Command, key \in Keys :
             /\ Sendable(command)
             /\ \E copy \in SessionCopies(command) :
                  Arrive(r, command, key, copy)
  BY <1>2, ArriveCore
<1>3. CASE ReplayConcurrent(r)
  BY <1>3, ReplayCore
<1>4. CASE \E p \in PaymentIds : Authorize(r, p)
  BY <1>4, AuthorizeCore
<1>5. CASE Capture(r) \/ Cancel(r) \/ Refund(r)
  BY <1>5, OperationCore
<1>6. CASE Refuse(r)
  BY <1>6, EndCore DEF Refuse
<1>7. CASE Interrupt(r)
  BY <1>7, EndCore DEF Interrupt
<1> QED
  BY <1>1, <1>2, <1>3, <1>4, <1>5, <1>6, <1>7 DEF Perform

----------------------------------------------------------------------------
(* Deliveries, recovery and expiry.                                        *)

\* The dispositions of a receipt, and when it is applied.
LEMMA Classified ==
    ASSUME NEW receipt
    PROVE  /\ classify(receipt) \in Dispositions
           /\ classify(receipt) = "applied" =>
                LET p == receipt.command.payment_reference
                IN  /\ p \in DOMAIN payments
                    /\ payments[p].status = "AWAITING_PAYMENT"
                    /\ OnTime(receipt, payments[p])
                    /\ Matches(receipt.command, payments[p])
           /\ classify(receipt) # "unknown_reference" =>
                receipt.command.payment_reference \in DOMAIN payments
BY DEF classify, Dispositions, Matches

\* A completion moves its payment at most once.
LEMMA DispositionTables ==
    ASSUME Core, NEW receipt \in Receipt,
           ApplyDisposition(receipt, classify(receipt))
    PROVE  TablesOK' /\ TermsKept
<1> DEFINE p == receipt.command.payment_reference
           amount == receipt.command.amount
           disposition == classify(receipt)
<1>0. /\ "payment.captured" \in EventTypes /\ "payment.expired" \in EventTypes
  BY DEF EventTypes
<1>1. CASE disposition = "applied"
  <2> DEFINE t == Bumped(capture_confirmation(payments[p], amount))
             entries == <<Entry("CONFIRMATION_CAPTURE", amount)>>
  <2>1. /\ CanCaptureConfirmation(payments[p], amount)
        /\ Publish(Row(p, t), "payment.captured") /\ Enter(p, entries)
    BY <1>1 DEF ApplyDisposition
  <2>2. /\ p \in DOMAIN payments /\ payments[p].status = "AWAITING_PAYMENT"
        /\ amount = payments[p].amount
    BY <1>1, Classified DEF Matches
  <2>3. Move(payments[p], t, entries)
    BY <2>1, <2>2 DEF Move
  <2> HIDE DEF t, entries, p
  <2> QED
    BY <1>0, <2>1, <2>2, <2>3, MoveStep DEF Core
<1>2. CASE /\ disposition = "late"
           /\ payments[p].status = "AWAITING_PAYMENT"
           /\ ~has_protecting_receipt(p)
  <2> DEFINE due == {p}
             rows == [q \in due |-> Bumped(expire(payments[q]))]
  <2>1. /\ CanExpire(payments[p])
        /\ Publish(Row(p, Bumped(expire(payments[p]))), "payment.expired")
        /\ UNCHANGED ledger
    BY <1>2 DEF ApplyDisposition
  <2>2. p \in DOMAIN payments /\ CanExpire(payments[p])
    BY <1>2, <2>1, Classified
  <2>3. rows = Row(p, Bumped(expire(payments[p])))
    BY DEF Row
  <2>4. Publish(rows, "payment.expired")
    BY <2>1, <2>3
  <2>5. due \subseteq DOMAIN payments /\ \A q \in due : CanExpire(payments[q])
    BY <2>2
  <2> HIDE DEF due
  <2> QED
    BY <2>1, <2>4, <2>5, ExpireStep DEF Core
<1>3. CASE /\ disposition # "applied"
           /\ ~ /\ disposition = "late"
                /\ payments[p].status = "AWAITING_PAYMENT"
                /\ ~has_protecting_receipt(p)
  <2>1. UNCHANGED <<payments, events, ledger>>
    BY <1>3 DEF ApplyDisposition
  <2> QED
    BY <2>1, SameTables DEF Core
<1> QED
  BY <1>1, <1>2, <1>3

\* Accepting a confirmation stamps a receipt of its type.
LEMMA AcceptNewCore ==
    ASSUME Core, NEW h \in Handlers, NEW c \in ConfirmationIds,
           NEW command \in ConfirmationCommand, AcceptNew(h, c, command),
           UNCHANGED lifecycleVars
    PROVE  Core'
<1>1. UNCHANGED <<payments, ledger, events, now, confirmations, sweeps>>
  BY DEF AcceptNew
<1>2. TablesOK' /\ TermsKept
  BY <1>1, SameTables DEF Core
<1>3. SessionsOK'
  BY <1>2, SameSessions DEF Core
<1> DEFINE receipt == receipt_at(command, now)
           rows == Row(c, receipt)
<1>4. receipt \in Receipt
  BY DEF receipt_at, Receipt, Core, DeliveriesOK
<1>5. receipts' = Put(receipts, rows)
  BY DEF AcceptNew
<1> HIDE DEF receipt
<1>6. IsTable(rows, ConfirmationIds, Receipt) /\ DOMAIN rows = {c}
  BY <1>4, RowTable
<1> HIDE DEF rows
<1>7. /\ IsTable(receipts', ConfirmationIds, Receipt)
      /\ DOMAIN receipts' = DOMAIN receipts \cup {c}
  BY <1>5, <1>6 DEF Core, DeliveriesOK, IsTable, Put
<1>8. completing' = [completing EXCEPT ![h] = {c}]
  BY DEF AcceptNew
<1>9. completing' \in [Workers -> SUBSET DOMAIN receipts']
  BY <1>7, <1>8 DEF Core, DeliveriesOK
<1> QED
  BY <1>1, <1>2, <1>3, <1>7, <1>9 DEF Core, DeliveriesOK

\* A worker takes up or drops receipts, and no table changes.
LEMMA WorkerCore ==
    ASSUME Core, NEW w \in Workers, NEW batch \in SUBSET DOMAIN receipts,
           completing' = [completing EXCEPT ![w] = batch],
           UNCHANGED <<storeVars, confirmations, sweeps, lifecycleVars>>
    PROVE  Core'
<1>1. UNCHANGED <<payments, ledger, events, receipts, now>>
  BY DEF storeVars
<1>2. TablesOK' /\ TermsKept
  BY <1>1, SameTables DEF Core
<1>3. SessionsOK'
  BY <1>2, SameSessions DEF Core
<1>4. DeliveriesOK'
  BY <1>1 DEF Core, DeliveriesOK
<1> QED
  BY <1>2, <1>3, <1>4 DEF Core

\* A completion records its disposition with the completed receipt.
LEMMA RecordRows ==
    ASSUME DeliveriesOK, NEW c \in DOMAIN receipts,
           NEW disposition \in Dispositions, Record(c, disposition)
    PROVE  /\ IsTable(confirmations', ConfirmationIds, Confirmation)
           /\ IsTable(receipts', ConfirmationIds, Receipt)
           /\ DOMAIN receipts' = DOMAIN receipts
<1>1. receipts[c] \in Receipt /\ c \in ConfirmationIds
  BY DEF DeliveriesOK, IsTable
<1> DEFINE id == IF disposition = "unknown_reference" THEN None
                 ELSE receipts[c].command.payment_reference
           confirmation ==
             [command |-> receipts[c].command,
              received_at |-> receipts[c].received_at,
              disposition |-> disposition, payment_id |-> id]
           rows == Row(c, confirmation)
<1>2. /\ receipts[c].command \in ConfirmationCommand
      /\ receipts[c].received_at \in Nat
      /\ id \in PaymentIds \cup {None}
  BY <1>1 DEF Receipt, ConfirmationCommand
<1> HIDE DEF id
<1>3. confirmation \in Confirmation
  BY <1>2 DEF Confirmation
<1>4. confirmations' = Put(confirmations, rows)
  BY DEF Record, id
<1> HIDE DEF confirmation
<1>5. IsTable(rows, ConfirmationIds, Confirmation)
  BY <1>1, <1>3, RowTable
<1> HIDE DEF rows
<1>6. IsTable(confirmations', ConfirmationIds, Confirmation)
  BY <1>4, <1>5 DEF DeliveriesOK, IsTable, Put
<1> DEFINE done == [receipts[c] EXCEPT !.completed = TRUE]
<1>7. done \in Receipt
  BY <1>1 DEF Receipt
<1>8. receipts' = [receipts EXCEPT ![c] = done]
  BY DEF Record
<1> HIDE DEF done
<1>9. IsTable(receipts', ConfirmationIds, Receipt) /\ DOMAIN receipts' = DOMAIN receipts
  BY <1>7, <1>8 DEF DeliveriesOK, IsTable
<1> QED
  BY <1>6, <1>9

\* Completing a receipt keeps the invariant, whatever its disposition.
LEMMA CompleteCore ==
    ASSUME Core, NEW w \in Workers, NEW c \in ConfirmationIds, Complete(w, c),
           UNCHANGED lifecycleVars
    PROVE  Core'
<1>1. c \in DOMAIN receipts
  BY DEF Complete, Next_in_line, Core, DeliveriesOK
<1>2. receipts[c] \in Receipt
  BY <1>1 DEF Core, DeliveriesOK, IsTable
<1>3. TablesOK' /\ TermsKept
  BY <1>2, DispositionTables DEF Complete
<1>4. SessionsOK'
  BY <1>3, SameSessions DEF Core
<1>5. classify(receipts[c]) \in Dispositions /\ Record(c, classify(receipts[c]))
  BY Classified DEF Complete
<1>6. /\ IsTable(confirmations', ConfirmationIds, Confirmation)
      /\ IsTable(receipts', ConfirmationIds, Receipt)
      /\ DOMAIN receipts' = DOMAIN receipts
  BY <1>1, <1>5, RecordRows DEF Core
<1>7. /\ completing' = [completing EXCEPT ![w] = completing[w] \ {c}]
      /\ UNCHANGED <<now, sweeps>>
  BY DEF Complete
<1>8. completing' \in [Workers -> SUBSET DOMAIN receipts']
  BY <1>6, <1>7 DEF Core, DeliveriesOK
<1> QED
  BY <1>3, <1>4, <1>6, <1>7, <1>8 DEF Core, DeliveriesOK

\* Batches are drawn from the candidates.
LEMMA FirstOf ==
    ASSUME NEW S, NEW when, NEW limit, NEW B \in First(S, when, limit)
    PROVE  B \subseteq S
BY DEF First

\* An expiry run keeps the invariant, whatever its batch.
LEMMA ExpireCore ==
    ASSUME Core, NEW s \in Sweepers, Expire(s), UNCHANGED lifecycleVars
    PROVE  Core'
<1>1. PICK due \in First(Due(sweeps[s]),
                         [p \in Due(sweeps[s]) |-> payments[p].expires_at],
                         ExpiryLimit) :
        /\ \A p \in due : CanExpire(payments[p])
        /\ Publish([p \in due |-> Bumped(expire(payments[p]))], "payment.expired")
  BY DEF Expire
<1>2. due \subseteq Due(sweeps[s])
  BY FirstOf
<1>3. due \subseteq DOMAIN payments /\ \A p \in due : CanExpire(payments[p])
  BY <1>1, <1>2 DEF Due
<1>4. UNCHANGED <<ledger, receipts, now, confirmations, completing>>
  BY DEF Expire
<1>5. TablesOK' /\ TermsKept
  BY <1>1, <1>3, <1>4, ExpireStep DEF Core
<1>6. SessionsOK'
  BY <1>5, SameSessions DEF Core
<1>7. sweeps' \in [Sweepers -> Nat \cup {None}]
  BY DEF Expire, Core, DeliveriesOK
<1> QED
  BY <1>4, <1>5, <1>6, <1>7 DEF Core, DeliveriesOK

\* An expiry run is called, or rolls back.
LEMMA SweepCore ==
    ASSUME Core, NEW s \in Sweepers, ScheduleExpiry(s) \/ AbandonExpiry(s),
           UNCHANGED lifecycleVars
    PROVE  Core'
<1>1. UNCHANGED <<payments, ledger, events, receipts, now, confirmations, completing>>
  BY DEF ScheduleExpiry, AbandonExpiry, storeVars
<1>2. TablesOK' /\ TermsKept
  BY <1>1, SameTables DEF Core
<1>3. SessionsOK'
  BY <1>2, SameSessions DEF Core
<1>4. sweeps' \in [Sweepers -> Nat \cup {None}]
  BY DEF ScheduleExpiry, AbandonExpiry, Core, DeliveriesOK
<1> QED
  BY <1>1, <1>2, <1>3, <1>4 DEF Core, DeliveriesOK

\* Every step of a delivery, a recovery run or an expiry run keeps the
\* invariant.
LEMMA ConfirmationsCore ==
    ASSUME Core, ConfirmationsNext, UNCHANGED lifecycleVars
    PROVE  Core'
<1> USE DEF Workers
<1>0. \A w \in Workers : completing[w] \in SUBSET DOMAIN receipts
  BY DEF Core, DeliveriesOK
<1>1. ASSUME NEW h \in Handlers, NEW c \in ConfirmationIds,
             NEW command \in ConfirmationCommand, AcceptNew(h, c, command)
      PROVE  Core'
  BY <1>1, AcceptNewCore
<1>2. ASSUME NEW h \in Handlers, NEW c \in ConfirmationIds,
             NEW command \in ConfirmationCommand, AcceptAgain(h, c, command)
      PROVE  Core'
  <2>1. {c} \in SUBSET DOMAIN receipts
    BY <1>2 DEF AcceptAgain
  <2> QED
    BY <1>2, <2>1, WorkerCore DEF AcceptAgain
<1>3. ASSUME NEW w \in Workers, NEW c \in ConfirmationIds, Complete(w, c)
      PROVE  Core'
  BY <1>3, CompleteCore
<1>4. ASSUME NEW w \in Workers, NEW c \in ConfirmationIds, CompleteAgain(w, c)
      PROVE  Core'
  <2> DEFINE batch == completing[w] \ {c}
  <2>1. batch \in SUBSET DOMAIN receipts
    BY <1>0
  <2>2. /\ completing' = [completing EXCEPT ![w] = batch]
        /\ UNCHANGED <<storeVars, confirmations, sweeps>>
    BY <1>4 DEF CompleteAgain
  <2> HIDE DEF batch
  <2> QED
    BY <2>1, <2>2, WorkerCore
<1>5. ASSUME NEW w \in Workers, Give_up(w)
      PROVE  Core'
  BY <1>5, WorkerCore DEF Give_up
<1>6. ASSUME NEW w \in Recoverers, Recover(w)
      PROVE  Core'
  <2>1. PICK batch \in First(Pending,
                             [c \in Pending |-> receipts[c].received_at],
                             RecoveryLimit) :
          completing' = [completing EXCEPT ![w] = batch]
    BY <1>6 DEF Recover
  <2>2. batch \in SUBSET DOMAIN receipts
    BY FirstOf DEF Pending
  <2> QED
    BY <1>6, <2>1, <2>2, WorkerCore DEF Recover
<1>7. ASSUME NEW s \in Sweepers, ScheduleExpiry(s) \/ Expire(s) \/ AbandonExpiry(s)
      PROVE  Core'
  BY <1>7, SweepCore, ExpireCore
<1> QED
  BY <1>1, <1>2, <1>3, <1>4, <1>5, <1>6, <1>7 DEF ConfirmationsNext

----------------------------------------------------------------------------
(* The theorem.                                                            *)

\* The empty database satisfies the invariant.
LEMMA InitCore == Init => Core
<1> SUFFICES ASSUME Init PROVE Core
  OBVIOUS
<1> USE DEF Init, StoreInit, LifecycleInit, ConfirmationsInit
<1>1. TablesOK
  BY DEF TablesOK, IsTable, BalancesFitStatus, RowsArePublished
<1>2. SessionsOK
  BY DEF SessionsOK, IsTable, CopiesArePublished
<1>3. DeliveriesOK
  BY DEF DeliveriesOK, IsTable
<1> QED
  BY <1>1, <1>2, <1>3 DEF Core

\* Time alone disturbs nothing.
LEMMA TickCore ==
    ASSUME Core, Tick
    PROVE  Core'
<1>1. UNCHANGED <<payments, ledger, events, receipts, lifecycleVars,
                  confirmations, completing, sweeps>>
  BY DEF Tick, confirmationVars
<1>2. TablesOK' /\ TermsKept
  BY <1>1, SameTables DEF Core
<1>3. SessionsOK'
  BY <1>1, <1>2, SameSessions DEF Core
<1>4. now' \in Nat
  BY DEF Tick, Core, DeliveriesOK
<1> QED
  BY <1>1, <1>2, <1>3, <1>4 DEF Core, DeliveriesOK

\* A step that changes nothing.
LEMMA StutterCore ==
    ASSUME Core, UNCHANGED vars
    PROVE  Core'
<1>1. UNCHANGED <<payments, ledger, events, receipts, now, lifecycleVars,
                  confirmationVars>>
  BY DEF vars, storeVars
<1>2. TablesOK' /\ TermsKept /\ DeliveriesOK'
  BY <1>1, SameTables, SameDeliveries DEF Core
<1>3. SessionsOK'
  BY <1>1, <1>2, SameSessions DEF Core
<1> QED
  BY <1>2, <1>3 DEF Core

\* The invariant is inductive.
LEMMA NextCore == Core /\ [Next]_vars => Core'
BY LifecycleCore, ConfirmationsCore, TickCore, StutterCore DEF Next

\* Core is invariant: with every table, copy and queue it needs.
LEMMA CoreInvariant == Spec => []Core
<1>1. Init => Core
  BY InitCore
<1>2. Core /\ [Next]_vars => Core'
  BY NextCore
<1> QED
  BY <1>1, <1>2, PTL DEF Spec

\* Every table, session and queue keeps its type, whatever steps of requests,
\* deliveries, recovery and expiry interleave.
THEOREM TypeCorrect == Spec => []TypeOK
BY CoreInvariant, CoreMeaning, PTL

\* No payment has balances that its status does not stand for, although
\* requests decide on rows their session loaded long before they commit.
THEOREM BalancesAlwaysFit == Spec => []BalancesFitStatus
BY CoreInvariant, CoreMeaning, PTL

\* The outbox holds every version of every payment exactly once, in order.
THEOREM OutboxAlwaysMirrors == Spec => []OutboxMirrorsVersions
BY CoreInvariant, CoreMeaning, PTL
=============================================================================
