----------------------- MODULE PaymentEvidence_proofs -----------------------
(***************************************************************************)
(* Confirmations against the deadline, for every value of the constants:   *)
(* evidence agrees, a receipt in time is honoured, money is taken once,    *)
(* and nothing resolves a protected payment.                               *)
(***************************************************************************)
EXTENDS PaymentSteps_proofs

----------------------------------------------------------------------------
(* What a step does to a payment that exists.                              *)

\* The statuses that a move connects.
LEMMA MoveStatus ==
    ASSUME NEW s \in Payment, NEW t, NEW entries, Move(s, t, entries)
    PROVE  \/ s.status = "AUTHORIZED" /\ t.status \in {"CAPTURED", "CANCELLED"}
           \/ /\ s.status = "AWAITING_PAYMENT"
              /\ t.status \in {"CAPTURED", "CANCELLED", "EXPIRED"}
           \/ /\ s.status \in {"CAPTURED", "PARTIALLY_REFUNDED"}
              /\ t.status \in {"PARTIALLY_REFUNDED", "REFUNDED"}
<1>1. CASE CanCapture(s) /\ t = Bumped(capture(s))
  BY <1>1, CaptureRow, BumpedRow DEF CanCapture
<1>2. CASE CanCancel(s) /\ t = Bumped(cancel(s))
  BY <1>2, CancelRow, BumpedRow DEF CanCancel
<1>3. ASSUME NEW amount \in Amounts, CanRefund(s, amount),
             t = Bumped(refund(s, amount))
      PROVE  /\ s.status \in {"CAPTURED", "PARTIALLY_REFUNDED"}
             /\ t.status \in {"PARTIALLY_REFUNDED", "REFUNDED"}
  <2> DEFINE u == refund(s, amount)
  <2>1. amount \in Nat
    BY AmountsAssumption
  <2>2. u \in Payment /\ u.status \in {"PARTIALLY_REFUNDED", "REFUNDED"}
    BY <2>1, RefundRow
  <2>3. t = Bumped(u)
    BY <1>3
  <2> HIDE DEF u
  <2> QED
    BY <1>3, <2>2, <2>3, BumpedRow DEF CanRefund
<1>4. CASE /\ CanCaptureConfirmation(s, s.amount)
           /\ t = Bumped(capture_confirmation(s, s.amount))
  <2> DEFINE u == capture_confirmation(s, s.amount)
  <2>1. s.amount \in Nat
    BY AmountsAssumption DEF Payment
  <2>2. u \in Payment /\ u.status = "CAPTURED"
    BY <2>1, CaptureConfirmationRow
  <2>3. t = Bumped(u)
    BY <1>4
  <2> HIDE DEF u
  <2> QED
    BY <1>4, <2>2, <2>3, BumpedRow DEF CanCaptureConfirmation
<1>5. CASE CanExpire(s) /\ t = Bumped(expire(s))
  BY <1>5, ExpireRow, BumpedRow DEF CanExpire
<1> QED
  BY <1>1, <1>2, <1>3, <1>4, <1>5 DEF Move

\* A confirmation of c is applied to p.
AppliedBy(w, c, p) ==
    /\ Complete(w, c)
    /\ receipts[c].command.payment_reference = p
    /\ classify(receipts[c]) = "applied"

\* Why p may expire: a scheduled run is past its deadline, or a receipt is.
PastDeadline(p) ==
    \/ \E s \in Sweepers : sweeps[s] # None /\ payments[p].expires_at <= sweeps[s]
    \/ \E c \in DOMAIN receipts : payments[p].expires_at <= receipts[c].received_at

\* A payment stays as it is; one that is resolved goes on; an awaiting one is
\* captured by a confirmation; or, when nothing protects it, it is cancelled,
\* or expires past its deadline.
Fate(p) ==
    \/ payments'[p] = payments[p]
    \/ /\ payments[p].status # "AWAITING_PAYMENT"
       /\ \E entries : Move(payments[p], payments'[p], entries)
    \/ /\ payments[p].status = "AWAITING_PAYMENT"
       /\ \/ /\ payments'[p].status = "CAPTURED"
             /\ \E w \in Workers, c \in ConfirmationIds : AppliedBy(w, c, p)
          \/ /\ payments'[p].status \in {"CANCELLED", "EXPIRED"}
             /\ payments'[p].status = "EXPIRED" => PastDeadline(p)
             /\ ~has_protecting_receipt(p)

\* A row that exists, and what is known of it.
LEMMA RowFacts ==
    ASSUME Core, NEW p \in DOMAIN payments
    PROVE  /\ p \in PaymentIds /\ payments[p] \in Payment
           /\ MoneyFitsStatus(payments[p])
           /\ payments[p].status = "AWAITING_PAYMENT" =>
                Delayed(payments[p]) /\ payments[p].expires_at \in Nat
<1>1. /\ p \in PaymentIds /\ payments[p] \in Payment
      /\ MoneyFitsStatus(payments[p])
  BY DEF Core, TablesOK, IsTable, BalancesFitStatus
<1>2. payments[p].status = "AWAITING_PAYMENT" =>
         Delayed(payments[p]) /\ payments[p].expires_at # None
  BY <1>1 DEF MoneyFitsStatus
<1>3. payments[p].expires_at \in Nat \cup {None}
  BY <1>1 DEF Payment
<1> QED
  BY <1>1, <1>2, <1>3

\* The fate of a payment in a client's step.
LEMMA ClientFate ==
    ASSUME Core, NEW p \in DOMAIN payments, NEW r \in Requests, NEW q \in PaymentIds,
           NEW type, NEW row, NEW entries, ClientChange(r, q, row, type, entries)
    PROVE  Fate(p)
<1>1. ledger \in [PaymentIds -> Seq(LedgerEntry)] /\ p \in PaymentIds
  BY RowFacts DEF Core, TablesOK
<1>2. (q = p => WrittenAt(p, row, type, entries)) /\ (q # p => SameAt(p))
  BY <1>1, PublishedOne DEF ClientChange
<1>3. CASE q # p
  BY <1>2, <1>3 DEF SameAt, Fate
<1>4. CASE q = p
  <2>1. ClientMove(p, row, type, entries) /\ payments'[p] = row
    BY <1>2, <1>4 DEF ClientChange, WrittenAt
  <2>2. Move(payments[p], payments'[p], entries)
    BY <2>1 DEF ClientMove
  <2>3. CASE payments[p].status # "AWAITING_PAYMENT"
    BY <2>2, <2>3 DEF Fate
  <2>4. CASE payments[p].status = "AWAITING_PAYMENT"
    <3>1. payments'[p].status = "CANCELLED" /\ ~has_protecting_receipt(p)
      BY <2>1, <2>4 DEF ClientMove, CanCapture
    <3> QED
      BY <2>4, <3>1 DEF Fate
  <2> QED
    BY <2>3, <2>4
<1> QED
  BY <1>3, <1>4

\* The fate of a payment when a receipt is completed.
LEMMA CompleteFate ==
    ASSUME Core, NEW p \in DOMAIN payments, NEW w \in Workers,
           NEW c \in ConfirmationIds, Complete(w, c)
    PROVE  Fate(p)
<1> DEFINE receipt == receipts[c]
           q == receipt.command.payment_reference
           amount == receipt.command.amount
           disposition == classify(receipt)
<1>1. ApplyDisposition(receipt, disposition) /\ c \in DOMAIN receipts
  BY DEF Complete, Next_in_line, Core, DeliveriesOK
<1>2. receipt \in Receipt
  BY <1>1 DEF Core, DeliveriesOK, IsTable
<1>3. p \in PaymentIds /\ payments[p] \in Payment
  BY RowFacts
<1>4. CASE disposition = "applied"
  <2> DEFINE row == Bumped(capture_confirmation(payments[q], amount))
             rows == Row(q, row)
  <2>1. Publish(rows, "payment.captured")
    BY <1>1, <1>4 DEF ApplyDisposition
  <2>2. DOMAIN rows = {q} /\ rows[q] = row
    BY DEF Row
  <2> HIDE DEF rows
  <2>3. CASE q # p
    <3>1. payments'[p] = payments[p]
      BY <1>3, <2>1, <2>2, <2>3, Published
    <3> QED
      BY <3>1 DEF Fate
  <2>4. CASE q = p
    <3>1. payments'[p] = row
      BY <1>3, <2>1, <2>2, <2>4, Published
    <3>2. payments[p].status = "AWAITING_PAYMENT" /\ amount \in Nat
      BY <1>2, <1>4, <2>4, Classified, AmountsAssumption DEF Receipt, ConfirmationCommand
    <3> DEFINE u == capture_confirmation(payments[p], amount)
    <3>3. u \in Payment /\ u.status = "CAPTURED"
      BY <1>3, <3>2, CaptureConfirmationRow
    <3>4. row = Bumped(u)
      BY <2>4
    <3> HIDE DEF u
    <3>5. row.status = "CAPTURED"
      BY <3>3, <3>4, BumpedRow
    <3>6. AppliedBy(w, c, p)
      BY <1>4, <2>4 DEF AppliedBy
    <3> QED
      BY <3>1, <3>2, <3>5, <3>6 DEF Fate
  <2> QED
    BY <2>3, <2>4
<1>5. CASE /\ disposition = "late"
           /\ payments[q].status = "AWAITING_PAYMENT"
           /\ ~has_protecting_receipt(q)
  <2> DEFINE row == Bumped(expire(payments[q]))
             rows == Row(q, row)
  <2>1. Publish(rows, "payment.expired")
    BY <1>1, <1>5 DEF ApplyDisposition
  <2>2. DOMAIN rows = {q} /\ rows[q] = row
    BY DEF Row
  <2> HIDE DEF rows
  <2>3. CASE q # p
    <3>1. payments'[p] = payments[p]
      BY <1>3, <2>1, <2>2, <2>3, Published
    <3> QED
      BY <3>1 DEF Fate
  <2>4. CASE q = p
    <3>1. payments'[p] = row
      BY <1>3, <2>1, <2>2, <2>4, Published
    <3>2. row.status = "EXPIRED"
      BY <1>3, <2>4, ExpireRow, BumpedRow
    <3>3. ~OnTime(receipt, payments[p])
      BY <1>5, <2>4 DEF classify
    <3>4. payments[p].expires_at <= receipt.received_at
      BY <1>2, <1>5, <2>4, <3>3, RowFacts DEF OnTime, Receipt
    <3>5. PastDeadline(p)
      BY <1>1, <3>4 DEF PastDeadline
    <3> QED
      BY <1>5, <2>4, <3>1, <3>2, <3>5 DEF Fate
  <2> QED
    BY <2>3, <2>4
<1>6. CASE /\ disposition # "applied"
           /\ ~ /\ disposition = "late"
                /\ payments[q].status = "AWAITING_PAYMENT"
                /\ ~has_protecting_receipt(q)
  BY <1>1, <1>6 DEF ApplyDisposition, Fate
<1> QED
  BY <1>4, <1>5, <1>6

\* The fate of a payment in an expiry run.
LEMMA ExpireFate ==
    ASSUME Core, NEW p \in DOMAIN payments, NEW s \in Sweepers, Expire(s)
    PROVE  Fate(p)
<1>1. PICK due \in First(Due(sweeps[s]),
                         [q \in Due(sweeps[s]) |-> payments[q].expires_at],
                         ExpiryLimit) :
        Publish([q \in due |-> Bumped(expire(payments[q]))], "payment.expired")
  BY DEF Expire
<1>2. due \subseteq Due(sweeps[s]) /\ sweeps[s] # None
  BY FirstOf DEF Expire
<1> DEFINE rows == [q \in due |-> Bumped(expire(payments[q]))]
<1>3. Publish(rows, "payment.expired") /\ DOMAIN rows = due
  BY <1>1
<1>4. \A q \in due : rows[q] = Bumped(expire(payments[q]))
  OBVIOUS
<1> HIDE DEF rows
<1>5. p \in PaymentIds /\ payments[p] \in Payment
  BY RowFacts
<1>6. CASE p \notin due
  <2>1. payments'[p] = payments[p]
    BY <1>3, <1>5, <1>6, Published
  <2> QED
    BY <2>1 DEF Fate
<1>7. CASE p \in due
  <2>1. payments'[p] = Bumped(expire(payments[p]))
    BY <1>3, <1>4, <1>5, <1>7, Published
  <2>2. payments'[p].status = "EXPIRED"
    <3>1. expire(payments[p]) \in Payment /\ expire(payments[p]).status = "EXPIRED"
      BY <1>5, ExpireRow
    <3>2. Bumped(expire(payments[p])).status = "EXPIRED"
      BY <3>1, BumpedRow
    <3> QED
      BY <2>1, <3>2
  <2>3. /\ payments[p].status = "AWAITING_PAYMENT"
        /\ payments[p].expires_at <= sweeps[s]
        /\ ~has_protecting_receipt(p)
    BY <1>2, <1>7 DEF Due
  <2>4. PastDeadline(p)
    BY <1>2, <2>3 DEF PastDeadline
  <2> QED
    BY <2>2, <2>3, <2>4 DEF Fate
<1> QED
  BY <1>6, <1>7

\* Nothing else can happen to a payment.
LEMMA Fates ==
    ASSUME Core, [Next]_vars, NEW p \in DOMAIN payments
    PROVE  Fate(p)
<1>1. CASE Quiet \/ \E h \in Handlers, c \in ConfirmationIds :
                      \E command \in ConfirmationCommand : AcceptNew(h, c, command)
  BY <1>1 DEF Quiet, AcceptNew, Fate
<1>2. CASE \E r \in Requests, q \in PaymentIds, type \in EventTypes :
             \E row, entries : ClientChange(r, q, row, type, entries)
  BY <1>2, ClientFate
<1>3. CASE \E w \in Workers, c \in ConfirmationIds : Complete(w, c)
  BY <1>3, CompleteFate
<1>4. CASE \E s \in Sweepers : Expire(s)
  BY <1>4, ExpireFate
<1> QED
  BY <1>1, <1>2, <1>3, <1>4, StepKinds DEF Kinds

\* Nothing but its capture resolves an awaiting payment while a matching
\* receipt is pending: no cancellation, no late confirmation, no expiry run.
THEOREM ProtectionHolds == Spec => ProtectedPaymentStays
<1> DEFINE Stays == \A p \in DOMAIN payments :
      payments[p].status = "AWAITING_PAYMENT" /\ has_protecting_receipt(p) =>
         payments'[p].status \in {"AWAITING_PAYMENT", "CAPTURED"}
<1>1. Core /\ [Next]_vars => Stays
  BY Fates DEF Fate
<1> QED
  BY <1>1, CoreInvariant, PTL DEF Spec, ProtectedPaymentStays

----------------------------------------------------------------------------
(* What a step does to evidence.                                           *)

\* Terms stay and time goes.
LEMMA TermsStay ==
    ASSUME Core, [Next]_vars
    PROVE  /\ \A p \in DOMAIN payments :
                p \in DOMAIN payments' /\ SameTerms(payments[p], payments'[p])
           /\ now \in Nat /\ now' \in Nat /\ now <= now'
<1>1. ASSUME NEW p \in DOMAIN payments
      PROVE  p \in DOMAIN payments' /\ SameTerms(payments[p], payments'[p])
  <2>1. p \in PaymentIds /\ payments[p] \in Payment /\ MoneyFitsStatus(payments[p])
    BY RowFacts
  <2>2. CASE SameAt(p)
    BY <2>2 DEF SameAt, SameTerms
  <2>3. CASE MovedAt(p)
    BY <2>1, <2>3, MoveRow DEF MovedAt, WrittenAt
  <2> QED
    BY <2>1, <2>2, <2>3, Changes DEF OpenedAt
<1>2. now \in Nat /\ (now' = now \/ now' = now + 1)
  BY StepKinds DEF Core, DeliveriesOK, Kinds, Quiet, ClientChange, AcceptNew,
                   Complete, Expire
<1> QED
  BY <1>1, <1>2

\* A payment that is opened comes from an authorization, which is no evidence.
LEMMA Opened ==
    ASSUME Core, [Next]_vars, NEW p \in DOMAIN payments', p \notin DOMAIN payments
    PROVE  /\ p \in PaymentIds
           /\ payments'[p].status \in {"AUTHORIZED", "DECLINED", "AWAITING_PAYMENT"}
           /\ MoneyFitsStatus(payments'[p])
           /\ UNCHANGED <<receipts, confirmations, now>>
<1>0. p \in PaymentIds
  <2>1. Core'
    BY NextCore
  <2> QED
    BY <2>1 DEF Core, TablesOK, IsTable
<1>1. OpenedAt(p)
  BY <1>0, Changes DEF SameAt, MovedAt
<1>2. /\ payments'[p].status \in {"AUTHORIZED", "DECLINED", "AWAITING_PAYMENT"}
      /\ MoneyFitsStatus(payments'[p])
  BY <1>1 DEF OpenedAt, Opening, WrittenAt
<1>3. ASSUME NEW w \in Workers, NEW c \in ConfirmationIds, Complete(w, c)
      PROVE  FALSE
  <2>1. receipts[c] \in Receipt
    BY <1>3 DEF Complete, Next_in_line, Core, DeliveriesOK, IsTable
  <2>2. SameAt(p) \/ MovedAt(p)
    BY <1>0, <1>3, <2>1, CompletionChanges DEF Complete
  <2> QED
    BY <2>2 DEF SameAt, MovedAt
<1>4. ASSUME NEW s \in Sweepers, Expire(s)
      PROVE  FALSE
  <2>1. SameAt(p) \/ MovedAt(p)
    BY <1>0, <1>4, ExpiryChanges
  <2> QED
    BY <2>1 DEF SameAt, MovedAt
<1>5. CASE Quiet \/ \E h \in Handlers, c \in ConfirmationIds :
                      \E command \in ConfirmationCommand : AcceptNew(h, c, command)
  BY <1>5 DEF Quiet, AcceptNew
<1>6. CASE \E r \in Requests, q \in PaymentIds, type \in EventTypes :
             \E row, entries : ClientChange(r, q, row, type, entries)
  BY <1>0, <1>2, <1>6 DEF ClientChange, confirmationVars
<1> QED
  BY <1>0, <1>2, <1>3, <1>4, <1>5, <1>6, StepKinds DEF Kinds

\* The confirmation that completes a receipt.
Judgement(receipt) ==
    [command |-> receipt.command, received_at |-> receipt.received_at,
     disposition |-> classify(receipt),
     payment_id |-> IF classify(receipt) = "unknown_reference" THEN None
                    ELSE receipt.command.payment_reference]

EvidenceKept(c) ==
    /\ c \in DOMAIN receipts' <=> c \in DOMAIN receipts
    /\ c \in DOMAIN receipts => receipts'[c] = receipts[c]
    /\ c \in DOMAIN confirmations' <=> c \in DOMAIN confirmations
    /\ c \in DOMAIN confirmations => confirmations'[c] = confirmations[c]

EvidenceAccepted(c) ==
    /\ c \notin DOMAIN receipts /\ c \in DOMAIN receipts'
    /\ UNCHANGED <<payments, confirmations, now>>
    /\ \E command \in ConfirmationCommand :
         /\ command.payment_reference \in KnownReferences \cup {None}
         /\ receipts'[c] = receipt_at(command, now)

EvidenceCompleted(c) ==
    /\ c \in DOMAIN receipts /\ c \in DOMAIN receipts'
    /\ receipts'[c] = [receipts[c] EXCEPT !.completed = TRUE]
    /\ c \notin DOMAIN confirmations /\ c \in DOMAIN confirmations'
    /\ confirmations'[c] = Judgement(receipts[c])
    /\ \E w \in Workers : Complete(w, c)

\* Evidence about a confirmation is kept, accepted or completed.
LEMMA EvidenceSteps ==
    ASSUME Core, [Next]_vars, NEW c
    PROVE  EvidenceKept(c) \/ EvidenceAccepted(c) \/ EvidenceCompleted(c)
<1>1. CASE UNCHANGED <<receipts, confirmations>>
  BY <1>1 DEF EvidenceKept
<1>2. ASSUME NEW h \in Handlers, NEW d \in ConfirmationIds,
             NEW command \in ConfirmationCommand, AcceptNew(h, d, command),
             command.payment_reference \in KnownReferences \cup {None}
      PROVE  EvidenceKept(c) \/ EvidenceAccepted(c)
  <2> DEFINE receipt == receipt_at(command, now)
  <2>1. /\ d \notin DOMAIN receipts
        /\ receipts' = Put(receipts, Row(d, receipt))
        /\ UNCHANGED <<payments, confirmations, now>>
    BY <1>2 DEF AcceptNew
  <2>2. receipt = receipt_at(command, now)
    OBVIOUS
  <2> HIDE DEF receipt
  <2>3. CASE c = d
    <3>1. c \in DOMAIN receipts' /\ receipts'[c] = receipt
      BY <2>1, <2>3 DEF Put, Row
    <3> QED
      BY <1>2, <2>1, <2>2, <2>3, <3>1 DEF EvidenceAccepted
  <2>4. CASE c # d
    <3>1. /\ c \in DOMAIN receipts' <=> c \in DOMAIN receipts
          /\ c \in DOMAIN receipts => receipts'[c] = receipts[c]
      BY <2>1, <2>4 DEF Put, Row
    <3> QED
      BY <2>1, <3>1 DEF EvidenceKept
  <2> QED
    BY <2>3, <2>4
<1>3. ASSUME NEW w \in Workers, NEW d \in ConfirmationIds, Complete(w, d)
      PROVE  EvidenceKept(c) \/ EvidenceCompleted(c)
  <2> DEFINE judgement == Judgement(receipts[d])
             done == [receipts[d] EXCEPT !.completed = TRUE]
  <2>1. /\ d \notin DOMAIN confirmations
        /\ confirmations' = Put(confirmations, Row(d, judgement))
        /\ receipts' = [receipts EXCEPT ![d] = done]
        /\ d \in DOMAIN receipts
    BY <1>3 DEF Complete, Record, Judgement, Next_in_line, Core, DeliveriesOK
  <2>2. judgement = Judgement(receipts[d]) /\ done = [receipts[d] EXCEPT !.completed = TRUE]
    OBVIOUS
  <2> HIDE DEF judgement, done
  <2>3. CASE c = d
    <3>1. /\ c \in DOMAIN receipts' /\ receipts'[c] = done
          /\ c \in DOMAIN confirmations' /\ confirmations'[c] = judgement
      BY <2>1, <2>3 DEF Put, Row
    <3> QED
      BY <1>3, <2>1, <2>2, <2>3, <3>1 DEF EvidenceCompleted
  <2>4. CASE c # d
    <3>1. /\ c \in DOMAIN confirmations' <=> c \in DOMAIN confirmations
          /\ c \in DOMAIN confirmations => confirmations'[c] = confirmations[c]
      BY <2>1, <2>4 DEF Put, Row
    <3>2. /\ c \in DOMAIN receipts' <=> c \in DOMAIN receipts
          /\ c \in DOMAIN receipts => receipts'[c] = receipts[c]
      BY <2>1, <2>4
    <3> QED
      BY <3>1, <3>2 DEF EvidenceKept
  <2> QED
    BY <2>3, <2>4
<1> QED
  BY <1>1, <1>2, <1>3, StepKinds, QuietEvidence DEF Kinds, ClientChange

----------------------------------------------------------------------------
(* Evidence agrees.                                                        *)

ReceiptOK(c) ==
    /\ receipts[c].received_at <= now
    /\ receipts[c].command.payment_reference \in KnownReferences \cup {None}
    /\ receipts[c].completed <=> c \in DOMAIN confirmations

ConfirmationOK(c) ==
    /\ c \in DOMAIN receipts
    /\ confirmations[c].command = receipts[c].command
    /\ confirmations[c].received_at = receipts[c].received_at

\* A receipt has the fields of its type.
LEMMA ReceiptFacts ==
    ASSUME Core, NEW c \in DOMAIN receipts
    PROVE  /\ receipts[c] \in Receipt
           /\ receipts[c].received_at \in Nat
           /\ LET done == [receipts[c] EXCEPT !.completed = TRUE]
              IN  /\ done.command = receipts[c].command
                  /\ done.received_at = receipts[c].received_at
                  /\ done.completed = TRUE
BY DEF Core, DeliveriesOK, IsTable, Receipt

\* What a receipt asks for, and when it came, stays.
LEMMA ReceiptStays ==
    ASSUME Core, [Next]_vars, NEW c \in DOMAIN receipts
    PROVE  /\ c \in DOMAIN receipts'
           /\ receipts'[c].command = receipts[c].command
           /\ receipts'[c].received_at = receipts[c].received_at
<1>1. /\ c \in DOMAIN receipts'
      /\ receipts'[c] \in {receipts[c], [receipts[c] EXCEPT !.completed = TRUE]}
  BY EvidencePermanent
<1> QED
  BY <1>1, ReceiptFacts

\* Receipts name delayed payments, and are completed by a confirmation.
LEMMA ReceiptsAgree ==
    ASSUME Core, EvidenceAgrees, [Next]_vars, NEW c \in DOMAIN receipts'
    PROVE  ReceiptOK(c)'
<1>1. KnownReferences \subseteq KnownReferences'
  BY TermsStay DEF KnownReferences, SameTerms
<1>2. now \in Nat /\ now' \in Nat /\ now <= now'
  BY TermsStay
<1>3. CASE c \in DOMAIN receipts
  <2>1. ReceiptOK(c) /\ receipts[c].received_at \in Nat
    BY <1>3, ReceiptFacts DEF EvidenceAgrees, ReceiptOK
  <2>2. /\ receipts'[c].command = receipts[c].command
        /\ receipts'[c].received_at = receipts[c].received_at
    BY <1>3, ReceiptStays
  <2>3. receipts'[c].received_at <= now'
    BY <1>2, <2>1, <2>2 DEF ReceiptOK
  <2>4. receipts'[c].completed <=> c \in DOMAIN confirmations'
    <3>1. CASE EvidenceKept(c)
      BY <1>3, <2>1, <3>1 DEF EvidenceKept, ReceiptOK
    <3>2. CASE EvidenceCompleted(c)
      BY <1>3, <3>2, ReceiptFacts DEF EvidenceCompleted
    <3> QED
      BY <1>3, <3>1, <3>2, EvidenceSteps DEF EvidenceAccepted
  <2> QED
    BY <1>1, <2>1, <2>2, <2>3, <2>4 DEF ReceiptOK
<1>4. CASE c \notin DOMAIN receipts
  <2>1. EvidenceAccepted(c)
    BY <1>4, EvidenceSteps DEF EvidenceKept, EvidenceCompleted
  <2>2. PICK command \in ConfirmationCommand :
          /\ command.payment_reference \in KnownReferences \cup {None}
          /\ receipts'[c] = receipt_at(command, now)
    BY <2>1 DEF EvidenceAccepted
  <2>3. /\ receipts'[c].command = command /\ receipts'[c].received_at = now
        /\ receipts'[c].completed = FALSE
    BY <2>2 DEF receipt_at
  <2>4. c \notin DOMAIN confirmations'
    BY <1>4, <2>1 DEF EvidenceAccepted, EvidenceAgrees
  <2> QED
    BY <1>1, <1>2, <2>2, <2>3, <2>4 DEF ReceiptOK
<1> QED
  BY <1>3, <1>4

\* Confirmations repeat their receipts.
LEMMA ConfirmationsAgree ==
    ASSUME Core, EvidenceAgrees, [Next]_vars, NEW c \in DOMAIN confirmations'
    PROVE  ConfirmationOK(c)'
<1>1. CASE EvidenceKept(c)
  BY <1>1 DEF EvidenceKept, EvidenceAgrees, ConfirmationOK
<1>2. CASE EvidenceAccepted(c)
  BY <1>2 DEF EvidenceAccepted, EvidenceAgrees
<1>3. CASE EvidenceCompleted(c)
  BY <1>3, ReceiptFacts DEF EvidenceCompleted, ConfirmationOK, Judgement
<1> QED
  BY <1>1, <1>2, <1>3, EvidenceSteps

\* A run is scheduled with the clock of its day, which has passed.
LEMMA SweepsAgree ==
    ASSUME Core, EvidenceAgrees, [Next]_vars, NEW s \in Sweepers, sweeps'[s] # None
    PROVE  sweeps'[s] <= now'
<1>1. now \in Nat /\ now' \in Nat /\ now <= now'
  BY TermsStay
<1>2. sweeps[s] # None => sweeps[s] \in Nat /\ sweeps[s] <= now
  BY DEF EvidenceAgrees, Core, DeliveriesOK
<1>3. sweeps'[s] \in {sweeps[s], now, None}
  <2>1. CASE \E t \in Sweepers : Expire(t)
    BY <2>1 DEF Expire, Core, DeliveriesOK
  <2>2. CASE UNCHANGED sweeps \/ Quiet
    BY <2>2 DEF Quiet
  <2> QED
    BY <2>1, <2>2, StepKinds
       DEF Kinds, ClientChange, confirmationVars, AcceptNew, Complete
<1> QED
  BY <1>1, <1>2, <1>3

\* A payment past its deadline when it expires is so by the clock.
LEMMA PastDeadlineNow ==
    ASSUME Core, EvidenceAgrees, NEW p \in DOMAIN payments, PastDeadline(p),
           payments[p].status = "AWAITING_PAYMENT"
    PROVE  payments[p].expires_at <= now
<1>1. payments[p].expires_at \in Nat /\ now \in Nat
  BY RowFacts DEF Core, DeliveriesOK
<1>2. CASE \E s \in Sweepers : sweeps[s] # None /\ payments[p].expires_at <= sweeps[s]
  <2>1. PICK s \in Sweepers : sweeps[s] # None /\ payments[p].expires_at <= sweeps[s]
    BY <1>2
  <2>2. sweeps[s] \in Nat /\ sweeps[s] <= now
    BY <2>1 DEF EvidenceAgrees, Core, DeliveriesOK
  <2> QED
    BY <1>1, <2>1, <2>2
<1>3. CASE \E c \in DOMAIN receipts : payments[p].expires_at <= receipts[c].received_at
  <2>1. PICK c \in DOMAIN receipts : payments[p].expires_at <= receipts[c].received_at
    BY <1>3
  <2>2. receipts[c].received_at \in Nat /\ receipts[c].received_at <= now
    BY ReceiptFacts DEF EvidenceAgrees
  <2> QED
    BY <1>1, <2>1, <2>2
<1> QED
  BY <1>2, <1>3 DEF PastDeadline

\* Payments expire in the past.
LEMMA ExpiriesAgree ==
    ASSUME Core, EvidenceAgrees, [Next]_vars, NEW p \in DOMAIN payments',
           payments'[p].status = "EXPIRED"
    PROVE  payments'[p].expires_at <= now'
<1>1. p \in DOMAIN payments
  BY Opened
<1>2. now \in Nat /\ now' \in Nat /\ now <= now'
  BY TermsStay
<1>3. payments'[p].expires_at = payments[p].expires_at
  BY <1>1, TermsStay DEF SameTerms
<1>4. payments[p] \in Payment /\ MoneyFitsStatus(payments[p])
  BY <1>1, RowFacts
<1>5. CASE payments'[p] = payments[p]
  <2>1. payments[p].expires_at \in Nat /\ payments[p].expires_at <= now
    BY <1>1, <1>4, <1>5 DEF EvidenceAgrees, Payment, MoneyFitsStatus
  <2> QED
    BY <1>2, <1>3, <2>1
<1>6. CASE payments[p].status = "AWAITING_PAYMENT" /\ PastDeadline(p)
  <2>1. payments[p].expires_at \in Nat /\ payments[p].expires_at <= now
    BY <1>1, <1>6, RowFacts, PastDeadlineNow
  <2> QED
    BY <1>2, <1>3, <2>1
<1>7. CASE /\ payments[p].status # "AWAITING_PAYMENT"
           /\ \E entries : Move(payments[p], payments'[p], entries)
  BY <1>4, <1>7, MoveStatus
<1> QED
  BY <1>1, <1>5, <1>6, <1>7, Fates DEF Fate

\* EvidenceAgrees is inductive on top of Core.
LEMMA EvidenceStep ==
    ASSUME Core, EvidenceAgrees, [Next]_vars
    PROVE  EvidenceAgrees'
BY ReceiptsAgree, ConfirmationsAgree, SweepsAgree, ExpiriesAgree
   DEF EvidenceAgrees, ReceiptOK, ConfirmationOK

----------------------------------------------------------------------------
(* A receipt in time is honoured.                                          *)

Honoured(c, p) ==
    IF receipts[c].completed
    THEN confirmations[c].disposition \in {"applied", "already_resolved"}
    ELSE payments[p].status # "EXPIRED"

\* Whether a receipt can be honoured never changes once both are there.
LEMMA HonourableStays ==
    ASSUME Core, [Next]_vars, NEW c \in DOMAIN receipts, NEW p \in DOMAIN payments
    PROVE  Honourable(c, p)' <=> Honourable(c, p)
<1>1. /\ receipts'[c].command = receipts[c].command
      /\ receipts'[c].received_at = receipts[c].received_at
  BY ReceiptStays
<1>2. SameTerms(payments[p], payments'[p])
  BY TermsStay
<1> QED
  BY <1>1, <1>2 DEF Honourable, Matches, OnTime, SameTerms

\* A receipt that can be honoured, of a payment that has not expired, is
\* applied or finds its payment resolved.
LEMMA HonourableJudged ==
    ASSUME NEW c \in DOMAIN receipts, NEW p \in DOMAIN payments, Honourable(c, p),
           payments[p].status # "EXPIRED"
    PROVE  classify(receipts[c]) \in {"applied", "already_resolved"}
BY DEF classify, Honourable, Matches

\* A receipt stamped now, in time, names a payment that has not expired.
LEMMA AcceptedIsHonoured ==
    ASSUME Core, EvidenceAgrees, NEW c, EvidenceAccepted(c),
           NEW p \in DOMAIN payments', Honourable(c, p)'
    PROVE  Honoured(c, p)'
<1>1. UNCHANGED <<payments, now>> /\ p \in DOMAIN payments
  BY DEF EvidenceAccepted
<1>2. receipts'[c].received_at = now /\ receipts'[c].completed = FALSE
  BY DEF EvidenceAccepted, receipt_at
<1>3. now < payments[p].expires_at
  BY <1>1, <1>2 DEF Honourable, OnTime
<1>4. payments[p].status # "EXPIRED"
  <2>1. SUFFICES ASSUME payments[p].status = "EXPIRED" PROVE FALSE
    OBVIOUS
  <2>2. payments[p].expires_at <= now
    BY <1>1, <2>1 DEF EvidenceAgrees
  <2>3. payments[p].expires_at \in Nat
    BY <1>1, <2>1, RowFacts DEF MoneyFitsStatus, Payment
  <2>4. now \in Nat
    BY DEF Core, DeliveriesOK
  <2> QED
    BY <1>3, <2>2, <2>3, <2>4
<1> QED
  BY <1>1, <1>2, <1>4 DEF Honoured

\* OnTimeReceiptIsHonoured is inductive with Core and EvidenceAgrees.
LEMMA HonouredStep ==
    ASSUME Core, EvidenceAgrees, OnTimeReceiptIsHonoured, [Next]_vars
    PROVE  OnTimeReceiptIsHonoured'
<1> SUFFICES ASSUME NEW c \in DOMAIN receipts', NEW p \in DOMAIN payments',
                    Honourable(c, p)'
             PROVE  Honoured(c, p)'
  BY DEF OnTimeReceiptIsHonoured, Honoured
<1>1. CASE c \notin DOMAIN receipts
  <2>1. EvidenceAccepted(c)
    BY <1>1, EvidenceSteps DEF EvidenceKept, EvidenceCompleted
  <2> QED
    BY <2>1, AcceptedIsHonoured
<1>2. CASE c \in DOMAIN receipts /\ p \notin DOMAIN payments
  <2>1. receipts[c].command.payment_reference = p
    BY <1>2, ReceiptStays DEF Honourable
  <2>2. p \in PaymentIds
    BY <1>2, Opened
  <2>3. p \in KnownReferences
    BY <1>2, <2>1, <2>2, NoneAssumption DEF EvidenceAgrees
  <2> QED
    BY <1>2, <2>3 DEF KnownReferences
<1>3. CASE c \in DOMAIN receipts /\ p \in DOMAIN payments
  <2>1. Honourable(c, p) /\ Honoured(c, p)
    BY <1>3, HonourableStays DEF OnTimeReceiptIsHonoured, Honoured
  <2>2. receipts[c].completed <=> c \in DOMAIN confirmations
    BY <1>3 DEF EvidenceAgrees
  <2>3. CASE EvidenceCompleted(c)
    <3>1. payments[p].status # "EXPIRED"
      BY <2>1, <2>2, <2>3 DEF Honoured, EvidenceCompleted
    <3>2. confirmations'[c].disposition \in {"applied", "already_resolved"}
      BY <1>3, <2>1, <2>3, <3>1, HonourableJudged DEF EvidenceCompleted, Judgement
    <3>3. receipts'[c].completed = TRUE
      BY <1>3, <2>3, ReceiptFacts DEF EvidenceCompleted
    <3> QED
      BY <3>2, <3>3 DEF Honoured
  <2>4. CASE EvidenceKept(c) /\ receipts[c].completed
    BY <1>3, <2>1, <2>2, <2>4 DEF Honoured, EvidenceKept
  <2>5. CASE EvidenceKept(c) /\ ~receipts[c].completed
    <3>1. payments[p].status # "EXPIRED"
      BY <2>1, <2>5 DEF Honoured
    <3>2. Protects(receipts[c], p)
      BY <2>1, <2>5 DEF Protects, Honourable
    <3>3. has_protecting_receipt(p)
      BY <1>3, <3>2 DEF has_protecting_receipt
    <3>4. payments'[p].status # "EXPIRED"
      BY <1>3, <3>1, <3>3, Fates, MoveStatus, RowFacts DEF Fate
    <3> QED
      BY <1>3, <2>5, <3>4 DEF Honoured, EvidenceKept
  <2> QED
    BY <1>3, <2>3, <2>4, <2>5, EvidenceSteps DEF EvidenceAccepted
<1> QED
  BY <1>1, <1>2, <1>3

----------------------------------------------------------------------------
(* Money is taken by one confirmation.                                     *)

\* A confirmation is of the payment that its receipt names, or of none.
NamedByReceipts ==
    \A c \in DOMAIN confirmations :
        confirmations[c].payment_id # None =>
            confirmations[c].payment_id = receipts[c].command.payment_reference

\* So it stays.
LEMMA NamedStep ==
    ASSUME Core, EvidenceAgrees, NamedByReceipts, [Next]_vars
    PROVE  NamedByReceipts'
<1> SUFFICES ASSUME NEW c \in DOMAIN confirmations',
                    confirmations'[c].payment_id # None
             PROVE  confirmations'[c].payment_id
                      = receipts'[c].command.payment_reference
  BY DEF NamedByReceipts
<1>1. CASE EvidenceKept(c) \/ EvidenceAccepted(c)
  BY <1>1 DEF EvidenceKept, EvidenceAccepted, EvidenceAgrees, NamedByReceipts
<1>2. CASE EvidenceCompleted(c)
  <2>1. c \in DOMAIN receipts /\ confirmations'[c] = Judgement(receipts[c])
    BY <1>2 DEF EvidenceCompleted
  <2>2. receipts'[c].command = receipts[c].command
    BY <2>1, ReceiptStays
  <2> QED
    BY <2>1, <2>2 DEF Judgement
<1> QED
  BY <1>1, <1>2, EvidenceSteps

\* A delayed payment holds money in three statuses.
LEMMA DelayedMoney ==
    ASSUME NEW row \in Payment, MoneyFitsStatus(row), Delayed(row)
    PROVE  row.captured_amount > 0 <=>
             row.status \in {"CAPTURED", "PARTIALLY_REFUNDED", "REFUNDED"}
<1>1. row.amount \in Nat \ {0}
  BY AmountsAssumption DEF Payment
<1>2. row.status \in Statuses
  BY DEF Payment
<1> QED
  BY <1>1, <1>2 DEF MoneyFitsStatus, Balances, Statuses

\* What a new application of c to p is.
LEMMA AppliedNow ==
    ASSUME Core, EvidenceAgrees, [Next]_vars,
           NEW c, NEW p \in DOMAIN payments, Applied(c, p)', ~Applied(c, p)
    PROVE  /\ EvidenceCompleted(c)
           /\ Honourable(c, p)
           /\ payments[p].status = "AWAITING_PAYMENT"
           /\ payments'[p].status = "CAPTURED"
<1>1. EvidenceCompleted(c)
  BY EvidenceSteps DEF Applied, EvidenceKept, EvidenceAccepted
<1>2. /\ c \in DOMAIN receipts /\ classify(receipts[c]) = "applied"
      /\ receipts[c].command.payment_reference = p
  BY <1>1 DEF EvidenceCompleted, Judgement, Applied
<1>3. /\ payments[p].status = "AWAITING_PAYMENT"
      /\ OnTime(receipts[c], payments[p]) /\ Matches(receipts[c].command, payments[p])
  BY <1>2, Classified
<1>4. payments'[p].status = "CAPTURED"
  <2>1. PICK w \in Workers : Complete(w, c)
    BY <1>1 DEF EvidenceCompleted
  <2> DEFINE amount == receipts[c].command.amount
             u == capture_confirmation(payments[p], amount)
             rows == Row(p, Bumped(u))
  <2>2. Publish(rows, "payment.captured")
    BY <1>2, <2>1 DEF Complete, ApplyDisposition
  <2>3. DOMAIN rows = {p} /\ rows[p] = Bumped(u)
    BY DEF Row
  <2>4. payments[p] \in Payment /\ p \in PaymentIds
    BY RowFacts
  <2>5. amount \in Nat
    BY <1>2, ReceiptFacts, AmountsAssumption DEF Receipt, ConfirmationCommand
  <2>6. u \in Payment /\ u.status = "CAPTURED"
    BY <2>4, <2>5, CaptureConfirmationRow
  <2> HIDE DEF rows, u
  <2>7. Bumped(u).status = "CAPTURED"
    BY <2>6, BumpedRow
  <2> QED
    BY <2>2, <2>3, <2>4, <2>7, Published
<1> QED
  BY <1>1, <1>2, <1>3, <1>4 DEF Honourable

\* No two confirmations are completed in one step.
LEMMA OneCompletion ==
    ASSUME Core, [Next]_vars, NEW c, NEW d, EvidenceCompleted(c), EvidenceCompleted(d)
    PROVE  c = d
<1>1. PICK w \in Workers : Complete(w, c)
  BY DEF EvidenceCompleted
<1>2. \E row : confirmations' = Put(confirmations, Row(c, row))
  BY <1>1 DEF Complete, Record
<1> QED
  BY <1>2 DEF EvidenceCompleted, Put, Row

Taken(p) ==
    payments[p].captured_amount > 0 <=> \E c \in ConfirmationIds : Applied(c, p)

Once(p) ==
    \A c \in ConfirmationIds : Applied(c, p) =>
        /\ Honourable(c, p)
        /\ \A d \in ConfirmationIds : Applied(d, p) => d = c

\* A payment that is opened holds no money, and nobody could name it before.
LEMMA OpenedUntaken ==
    ASSUME Core, EvidenceAgrees, NamedByReceipts, [Next]_vars,
           NEW p \in KnownReferences', p \notin DOMAIN payments
    PROVE  (Taken(p) /\ Once(p))'
<1>1. /\ p \in PaymentIds /\ p \in DOMAIN payments'
      /\ payments'[p].status \in {"AUTHORIZED", "DECLINED", "AWAITING_PAYMENT"}
      /\ MoneyFitsStatus(payments'[p])
      /\ UNCHANGED <<receipts, confirmations, now>>
  BY Opened DEF KnownReferences
<1>2. Core'
  BY NextCore
<1>3. payments'[p] \in Payment /\ Delayed(payments'[p])
  BY <1>1, <1>2 DEF Core, TablesOK, IsTable, KnownReferences, Delayed
<1>4. ~(payments'[p].captured_amount > 0)
  BY <1>1, <1>3, DelayedMoney
<1>5. ASSUME NEW c, Applied(c, p)'
      PROVE  FALSE
  <2>1. c \in DOMAIN confirmations /\ confirmations[c].payment_id = p
    BY <1>1, <1>5 DEF Applied
  <2>2. c \in DOMAIN receipts /\ receipts[c].command.payment_reference = p
    BY <1>1, <2>1, NoneAssumption DEF NamedByReceipts, EvidenceAgrees
  <2>3. p \in KnownReferences
    BY <1>1, <2>2, NoneAssumption DEF EvidenceAgrees
  <2> QED
    BY <2>3 DEF KnownReferences
<1> QED
  BY <1>4, <1>5 DEF Taken, Once

\* What was applied stays applied.
LEMMA AppliedStays ==
    ASSUME Core, EvidenceAgrees, [Next]_vars, NEW p \in DOMAIN payments,
           NEW c, Applied(c, p)
    PROVE  Applied(c, p)' /\ (Honourable(c, p)' <=> Honourable(c, p))
<1>1. c \in DOMAIN confirmations /\ c \in DOMAIN receipts
  BY DEF Applied, EvidenceAgrees
<1>2. c \in DOMAIN confirmations' /\ confirmations'[c] = confirmations[c]
  BY <1>1, EvidencePermanent
<1> QED
  BY <1>1, <1>2, HonourableStays DEF Applied

\* A confirmation that captures a payment is applied to it, and new.
LEMMA AppliedByIsNew ==
    ASSUME Core, NEW w \in Workers, NEW c \in ConfirmationIds,
           NEW p \in DOMAIN payments, AppliedBy(w, c, p)
    PROVE  Applied(c, p)' /\ ~Applied(c, p)
<1> DEFINE judgement == Judgement(receipts[c])
<1>1. /\ c \notin DOMAIN confirmations
      /\ confirmations' = Put(confirmations, Row(c, judgement))
  BY DEF AppliedBy, Complete, Record, Judgement
<1>2. judgement.disposition = "applied" /\ judgement.payment_id = p
  BY DEF AppliedBy, Judgement
<1> HIDE DEF judgement
<1>3. c \in DOMAIN confirmations' /\ confirmations'[c] = judgement
  BY <1>1 DEF Put, Row
<1> QED
  BY <1>1, <1>2, <1>3 DEF Applied

\* AppliedExactlyOnce is inductive with what it rests on.
LEMMA AppliedStep ==
    ASSUME Core, EvidenceAgrees, NamedByReceipts, AppliedExactlyOnce, [Next]_vars
    PROVE  AppliedExactlyOnce'
<1> SUFFICES ASSUME NEW p \in KnownReferences'
             PROVE  (Taken(p) /\ Once(p))'
  BY DEF AppliedExactlyOnce, Taken, Once
<1>1. CASE p \notin DOMAIN payments
  BY <1>1, OpenedUntaken
<1>2. CASE p \in DOMAIN payments
  <2>1. p \in DOMAIN payments' /\ SameTerms(payments[p], payments'[p])
    BY <1>2, TermsStay
  <2>2. p \in KnownReferences /\ Delayed(payments[p]) /\ Delayed(payments'[p])
    BY <1>2, <2>1 DEF KnownReferences, SameTerms, Delayed
  <2>3. Taken(p) /\ Once(p)
    BY <2>2 DEF AppliedExactlyOnce, Taken, Once
  <2>4. payments[p] \in Payment /\ MoneyFitsStatus(payments[p])
    BY <1>2, RowFacts
  <2>5. payments'[p] \in Payment /\ MoneyFitsStatus(payments'[p])
    <3>1. Core'
      BY NextCore
    <3> QED
      BY <2>1, <3>1 DEF Core, TablesOK, IsTable, BalancesFitStatus
  <2>6. /\ payments[p].captured_amount > 0 <=>
             payments[p].status \in {"CAPTURED", "PARTIALLY_REFUNDED", "REFUNDED"}
        /\ payments'[p].captured_amount > 0 <=>
             payments'[p].status \in {"CAPTURED", "PARTIALLY_REFUNDED", "REFUNDED"}
    BY <2>2, <2>4, <2>5, DelayedMoney
  <2>7. CASE \E c \in ConfirmationIds : Applied(c, p)' /\ ~Applied(c, p)
    <3>1. PICK c \in ConfirmationIds : Applied(c, p)' /\ ~Applied(c, p)
      BY <2>7
    <3>2. /\ EvidenceCompleted(c) /\ Honourable(c, p)
          /\ payments[p].status = "AWAITING_PAYMENT"
          /\ payments'[p].status = "CAPTURED"
      BY <1>2, <3>1, AppliedNow
    <3>3. \A d \in ConfirmationIds : ~Applied(d, p)
      BY <2>3, <2>6, <3>2 DEF Taken
    <3>4. \A d \in ConfirmationIds : Applied(d, p)' => d = c
      BY <1>2, <3>2, <3>3, AppliedNow, OneCompletion
    <3>5. c \in DOMAIN receipts
      BY <3>2 DEF EvidenceCompleted
    <3>6. Honourable(c, p)'
      BY <1>2, <3>2, <3>5, HonourableStays
    <3> QED
      BY <2>6, <3>1, <3>2, <3>4, <3>6 DEF Taken, Once
  <2>8. CASE \A c \in ConfirmationIds : Applied(c, p)' => Applied(c, p)
    <3>1. \A c \in ConfirmationIds : Applied(c, p)' <=> Applied(c, p)
      BY <1>2, <2>8, AppliedStays
    <3>2. payments'[p].captured_amount > 0 <=> payments[p].captured_amount > 0
      <4>1. CASE payments'[p] = payments[p]
        BY <4>1
      <4>2. CASE /\ payments[p].status # "AWAITING_PAYMENT"
                 /\ \E entries : Move(payments[p], payments'[p], entries)
        <5>1. payments[p].status # "AUTHORIZED"
          BY <2>2, <2>4 DEF MoneyFitsStatus
        <5> QED
          BY <2>4, <2>6, <4>2, <5>1, MoveStatus
      <4>3. CASE /\ payments[p].status = "AWAITING_PAYMENT"
                 /\ payments'[p].status \in {"CANCELLED", "EXPIRED"}
        BY <2>6, <4>3
      <4>4. CASE \E w \in Workers, c \in ConfirmationIds : AppliedBy(w, c, p)
        BY <1>2, <2>8, <4>4, AppliedByIsNew
      <4> QED
        BY <1>2, <4>1, <4>2, <4>3, <4>4, Fates DEF Fate
    <3>3. Once(p)'
      BY <1>2, <2>3, <3>1, AppliedStays DEF Once
    <3> QED
      BY <2>3, <3>1, <3>2, <3>3 DEF Taken
  <2> QED
    BY <2>7, <2>8
<1> QED
  BY <1>1, <1>2

----------------------------------------------------------------------------
(* The theorems.                                                           *)

Evidence ==
    /\ Core
    /\ EvidenceAgrees
    /\ OnTimeReceiptIsHonoured
    /\ NamedByReceipts
    /\ AppliedExactlyOnce

\* Evidence is invariant.
LEMMA EvidenceInvariant == Spec => []Evidence
<1>1. Init => Evidence
  <2> SUFFICES ASSUME Init PROVE Evidence
    OBVIOUS
  <2>1. Core
    BY InitCore
  <2>2. /\ DOMAIN payments = {} /\ DOMAIN receipts = {} /\ DOMAIN confirmations = {}
        /\ \A s \in Sweepers : sweeps[s] = None
    BY DEF Init, StoreInit, ConfirmationsInit
  <2>3. KnownReferences = {}
    BY <2>2 DEF KnownReferences
  <2> QED
    BY <2>1, <2>2, <2>3 DEF Evidence, EvidenceAgrees, OnTimeReceiptIsHonoured,
                            NamedByReceipts, AppliedExactlyOnce
<1>2. Evidence /\ [Next]_vars => Evidence'
  BY NextCore, EvidenceStep, HonouredStep, NamedStep, AppliedStep DEF Evidence
<1> QED
  BY <1>1, <1>2, PTL DEF Spec

\* Receipts, confirmations, scheduled runs and expired payments never
\* contradict each other or the clock.
THEOREM EvidenceAlwaysAgrees == Spec => []EvidenceAgrees
BY EvidenceInvariant, PTL DEF Evidence

\* A matching receipt stamped before the deadline is never found too late,
\* however long its completion takes.
THEOREM InTimeIsInTime == Spec => []OnTimeReceiptIsHonoured
BY EvidenceInvariant, PTL DEF Evidence

\* A delayed payment is paid by exactly one confirmation, in time, of the
\* amount it asked for.
THEOREM PaidByOneConfirmation == Spec => []AppliedExactlyOnce
BY EvidenceInvariant, PTL DEF Evidence
============================================================================
