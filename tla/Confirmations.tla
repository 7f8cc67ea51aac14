--------------------------- MODULE Confirmations ---------------------------
(***************************************************************************)
(* Asynchronous payment confirmation: services/confirmations.py.           *)
(*                                                                         *)
(* A confirmation is accepted in one transaction, which makes its receipt  *)
(* durable, and completed in a second one, which decides its disposition   *)
(* and applies it. A process may stop between the two; a recovery run      *)
(* completes what is still pending. A scheduled run expires the payments   *)
(* whose deadline has passed. All four transactions start with             *)
(* BEGIN IMMEDIATE and drop what their session had loaded, so each is one  *)
(* step on the current tables.                                             *)
(***************************************************************************)
EXTENDS PaymentStore

CONSTANTS
    Handlers,       \* HTTP deliveries that may be in progress at once
    Recoverers,     \* recovery runs that may be in progress at once
    Sweepers,       \* scheduled expiry runs that may be in progress at once
    RecoveryLimit,  \* receipts one recovery run lists
    ExpiryLimit     \* payments one expiry run expires

ASSUME LimitsAssumption ==
    RecoveryLimit \in Nat \ {0} /\ ExpiryLimit \in Nat \ {0}

VARIABLES
    confirmations,  \* payment_confirmations: confirmation id -> row
    completing,     \* the receipts each worker has still to complete
    sweeps          \* the `now` each expiry run was called with, or None

confirmationVars == <<confirmations, completing, sweeps>>

Workers == Handlers \cup Recoverers

Dispositions ==
    {"applied", "late", "amount_mismatch", "currency_mismatch",
     "unknown_reference", "already_resolved"}

Confirmation ==
    [command: ConfirmationCommand, received_at: Nat,
     disposition: Dispositions, payment_id: PaymentIds \cup {None}]

----------------------------------------------------------------------------
(* Acceptance.                                                             *)

\* The clock is read after the writer reservation is held.
receipt_at(command, time) ==
    [command |-> command, received_at |-> time, completed |-> FALSE]

AcceptNew_Overwriting(h, c, command) ==
    /\ completing[h] = {}
    /\ receipts' = Put(receipts, Row(c, receipt_at(command, now)))
    /\ completing' = [completing EXCEPT ![h] = {c}]
    /\ UNCHANGED <<payments, ledger, events, now, confirmations, sweeps>>

AcceptNew(h, c, command) ==
    /\ completing[h] = {}
    /\ c \notin DOMAIN receipts
    /\ receipts' = Put(receipts, Row(c, receipt_at(command, now)))
    /\ completing' = [completing EXCEPT ![h] = {c}]
    /\ UNCHANGED <<payments, ledger, events, now, confirmations, sweeps>>

\* The same identity with the same content; with another content the
\* delivery raises ConfirmationIdConflict and nothing changes.
AcceptAgain(h, c, command) ==
    /\ completing[h] = {}
    /\ c \in DOMAIN receipts
    /\ receipts[c].command = command
    /\ completing' = [completing EXCEPT ![h] = {c}]
    /\ UNCHANGED <<storeVars, confirmations, sweeps>>

\* A reference is a uuid the sender was given, or one no payment has.
KnownReferences ==
    {p \in DOMAIN payments : payments[p].payment_flow = "ASYNCHRONOUS_CONFIRMATION"}

----------------------------------------------------------------------------
(* Completion.                                                             *)

classify_DeadlineInclusive(receipt) ==
    LET p == receipt.command.payment_reference
    IN  IF p \notin DOMAIN payments THEN "unknown_reference"
        ELSE IF payments[p].status = "EXPIRED" THEN "late"
        ELSE IF payments[p].status # "AWAITING_PAYMENT" THEN "already_resolved"
        ELSE IF receipt.received_at > payments[p].expires_at THEN "late"
        ELSE IF receipt.command.amount # payments[p].amount THEN "amount_mismatch"
        ELSE IF receipt.command.currency # payments[p].currency
             THEN "currency_mismatch"
        ELSE "applied"

classify_AmountUnchecked(receipt) ==
    LET p == receipt.command.payment_reference
    IN  IF p \notin DOMAIN payments THEN "unknown_reference"
        ELSE IF payments[p].status = "EXPIRED" THEN "late"
        ELSE IF payments[p].status # "AWAITING_PAYMENT" THEN "already_resolved"
        ELSE IF ~OnTime(receipt, payments[p]) THEN "late"
        ELSE "applied"

classify(receipt) ==
    LET p == receipt.command.payment_reference
    IN  IF p \notin DOMAIN payments THEN "unknown_reference"
        ELSE IF payments[p].status = "EXPIRED" THEN "late"
        ELSE IF payments[p].status # "AWAITING_PAYMENT" THEN "already_resolved"
        ELSE IF ~OnTime(receipt, payments[p]) THEN "late"
        ELSE IF receipt.command.amount # payments[p].amount THEN "amount_mismatch"
        ELSE IF receipt.command.currency # payments[p].currency
             THEN "currency_mismatch"
        ELSE "applied"

\* The effect of a disposition on the payment. A late confirmation expires a
\* payment still awaiting, unless another receipt protects it. A rule of the
\* domain that refuses raises, and nothing of the completion remains.
ApplyDisposition(receipt, disposition) ==
    LET p == receipt.command.payment_reference
        amount == receipt.command.amount
    IN  CASE disposition = "applied" ->
               /\ CanCaptureConfirmation(payments[p], amount)
               /\ Publish(Row(p, Bumped(capture_confirmation(payments[p], amount))),
                          "payment.captured")
               /\ Enter(p, <<Entry("CONFIRMATION_CAPTURE", amount)>>)
          [] /\ disposition = "late"
             /\ payments[p].status = "AWAITING_PAYMENT"
             /\ ~has_protecting_receipt(p) ->
               /\ CanExpire(payments[p])
               /\ Publish(Row(p, Bumped(expire(payments[p]))), "payment.expired")
               /\ UNCHANGED ledger
          [] OTHER -> UNCHANGED <<payments, events, ledger>>

Record_NotCompleted(c, disposition) ==
    /\ confirmations' = Put(confirmations, Row(c,
            [command |-> receipts[c].command,
             received_at |-> receipts[c].received_at,
             disposition |-> disposition,
             payment_id |-> IF disposition = "unknown_reference" THEN None
                            ELSE receipts[c].command.payment_reference]))
    /\ UNCHANGED receipts

Record(c, disposition) ==
    /\ confirmations' = Put(confirmations, Row(c,
            [command |-> receipts[c].command,
             received_at |-> receipts[c].received_at,
             disposition |-> disposition,
             payment_id |-> IF disposition = "unknown_reference" THEN None
                            ELSE receipts[c].command.payment_reference]))
    /\ receipts' = [receipts EXCEPT ![c].completed = TRUE]

\* A run completes its receipts in the order of their receipt times.
Next_in_line(w, c) ==
    /\ c \in completing[w]
    /\ \A d \in completing[w] : receipts[c].received_at <= receipts[d].received_at

Complete(w, c) ==
    /\ Next_in_line(w, c)
    /\ c \notin DOMAIN confirmations
    /\ ApplyDisposition(receipts[c], classify(receipts[c]))
    /\ Record(c, classify(receipts[c]))
    /\ completing' = [completing EXCEPT ![w] = @ \ {c}]
    /\ UNCHANGED <<now, sweeps>>

\* Another worker completed this receipt meanwhile: its outcome is returned.
CompleteAgain(w, c) ==
    /\ Next_in_line(w, c)
    /\ c \in DOMAIN confirmations
    /\ completing' = [completing EXCEPT ![w] = @ \ {c}]
    /\ UNCHANGED <<storeVars, confirmations, sweeps>>

\* Completion raises, or the process stops: the transaction rolls back, the
\* receipts stay pending and a recovery run stops at the one that failed.
Give_up(w) ==
    /\ completing[w] # {}
    /\ completing' = [completing EXCEPT ![w] = {}]
    /\ UNCHANGED <<storeVars, confirmations, sweeps>>

----------------------------------------------------------------------------
(* Recovery and scheduled expiry.                                          *)

\* ORDER BY when LIMIT limit; the identity breaks ties.
First(S, when, limit) ==
    {B \in SUBSET S :
        /\ Cardinality(B) = IF Cardinality(S) < limit THEN Cardinality(S) ELSE limit
        /\ \A b \in B, s \in S \ B : when[b] <= when[s]}

Pending_KnownOnly ==
    {c \in DOMAIN receipts :
        ~receipts[c].completed /\ receipts[c].command.payment_reference # None}

Pending == {c \in DOMAIN receipts : ~receipts[c].completed}

Recover(w) ==
    /\ completing[w] = {}
    /\ Pending # {}
    /\ \E batch \in First(Pending, [c \in Pending |-> receipts[c].received_at],
                          RecoveryLimit) :
         completing' = [completing EXCEPT ![w] = batch]
    /\ UNCHANGED <<storeVars, confirmations, sweeps>>

\* The scheduler reads the clock before the run has the writer reservation.
ScheduleExpiry(s) ==
    /\ sweeps[s] = None
    /\ sweeps' = [sweeps EXCEPT ![s] = now]
    /\ UNCHANGED <<storeVars, confirmations, completing>>

Due_Unprotected(time) ==
    {p \in DOMAIN payments :
        /\ payments[p].status = "AWAITING_PAYMENT"
        /\ payments[p].expires_at <= time}

Due(time) ==
    {p \in DOMAIN payments :
        /\ payments[p].status = "AWAITING_PAYMENT"
        /\ payments[p].expires_at <= time
        /\ ~has_protecting_receipt(p)}

Expire_LimitedFirst(s) ==
    /\ sweeps[s] # None
    /\ LET delayed == {p \in DOMAIN payments :
                         /\ payments[p].expires_at # None
                         /\ payments[p].expires_at <= sweeps[s]}
       IN  \E listed \in First(delayed,
                              [p \in delayed |-> payments[p].expires_at],
                              ExpiryLimit) :
             Publish([p \in listed \cap Due(sweeps[s]) |->
                        Bumped(expire(payments[p]))], "payment.expired")
    /\ sweeps' = [sweeps EXCEPT ![s] = None]
    /\ UNCHANGED <<ledger, receipts, now, confirmations, completing>>

Expire(s) ==
    /\ sweeps[s] # None
    /\ \E due \in First(Due(sweeps[s]),
                        [p \in Due(sweeps[s]) |-> payments[p].expires_at],
                        ExpiryLimit) :
         /\ \A p \in due : CanExpire(payments[p])
         /\ Publish([p \in due |-> Bumped(expire(payments[p]))], "payment.expired")
    /\ sweeps' = [sweeps EXCEPT ![s] = None]
    /\ UNCHANGED <<ledger, receipts, now, confirmations, completing>>

\* One payment of the batch cannot be written: the whole batch rolls back.
AbandonExpiry(s) ==
    /\ sweeps[s] # None
    /\ sweeps' = [sweeps EXCEPT ![s] = None]
    /\ UNCHANGED <<storeVars, confirmations, completing>>

----------------------------------------------------------------------------
ConfirmationsInit ==
    /\ confirmations = [c \in {} |-> None]
    /\ completing = [w \in Workers |-> {}]
    /\ sweeps = [s \in Sweepers |-> None]

ConfirmationsNext ==
    \/ \E h \in Handlers, c \in ConfirmationIds, command \in ConfirmationCommand :
         /\ command.payment_reference \in KnownReferences \cup {None}
         /\ AcceptNew(h, c, command) \/ AcceptAgain(h, c, command)
    \/ \E w \in Workers :
         \/ \E c \in ConfirmationIds : Complete(w, c) \/ CompleteAgain(w, c)
         \/ Give_up(w)
    \/ \E w \in Recoverers : Recover(w)
    \/ \E s \in Sweepers : ScheduleExpiry(s) \/ Expire(s) \/ AbandonExpiry(s)
=============================================================================
