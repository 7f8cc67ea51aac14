-------------------------- MODULE PaymentLifecycle --------------------------
(***************************************************************************)
(* The synchronous payment operations of services/payments.py: authorize,  *)
(* capture, cancel and refund, each made idempotent by a client's key.     *)
(*                                                                         *)
(* A request runs in two steps. It first looks its key up without holding  *)
(* the writer reservation (SELECTs run outside a transaction); later, when *)
(* the INSERT of its claim is admitted, it claims the key, applies the     *)
(* operation and commits, or rolls everything back. Everything that other  *)
(* sessions commit between the two steps is what makes this code hard. A   *)
(* cancellation takes the reservation first, and does both under it.       *)
(***************************************************************************)
EXTENDS PaymentStore

CONSTANTS
    Requests,  \* requests that may be in progress at once
    Keys,      \* idempotency keys the clients use
    Tokens     \* test tokens the clients present

ASSUME TokensAssumption == Tokens \subseteq PaymentMethodDecisions

VARIABLES
    idempotency,  \* idempotency_records: key -> row
    requests,     \* the request in progress in each slot, or None
    answers       \* the payment last returned in each slot, or None

lifecycleVars == <<idempotency, requests, answers>>

----------------------------------------------------------------------------
(* Commands. The fingerprint is a digest of exactly the command's fields,  *)
(* and two commands have the same digest when they are equal.              *)

AuthorizationCommand ==
    [operation: {"AUTHORIZE"}, amount: Amounts, currency: Currencies,
     token: Tokens]

LifecycleCommand ==
    [operation: {"CAPTURE", "CANCEL"}, payment_id: PaymentIds \cup {None}]
      \cup
    [operation: {"REFUND"}, payment_id: PaymentIds \cup {None},
     amount: Amounts]

Command == AuthorizationCommand \cup LifecycleCommand

IdempotencyRecord ==
    [request_fingerprint: Command, payment_id: PaymentIds,
     response_snapshot: Payment]

\* `at` is the clock an authorization reads when it arrives; `copy` is the row
\* the request's session had already loaded, which session.get will return.
Request == [command: Command, key: Keys, at: Nat, copy: Payment \cup {None}]

Answer == [key: Keys, command: Command, payment_id: PaymentIds, payment: Payment]

----------------------------------------------------------------------------
(* Idempotency.                                                            *)

\* A conflicting reuse of the key raises: there is no payment in the answer.
find_idempotent_snapshot_AnyFingerprint(key, command) ==
    [key |-> key, command |-> command,
     payment_id |-> idempotency[key].payment_id,
     payment |-> idempotency[key].response_snapshot]

find_idempotent_snapshot(key, command) ==
    IF idempotency[key].request_fingerprint = command
    THEN [key |-> key, command |-> command,
          payment_id |-> idempotency[key].payment_id,
          payment |-> idempotency[key].response_snapshot]
    ELSE None

KeyTaken(key) == key \in DOMAIN idempotency

Done(r, answer) ==
    /\ requests' = [requests EXCEPT ![r] = None]
    /\ answers' = [answers EXCEPT ![r] = answer]

----------------------------------------------------------------------------
(* First step: the request arrives, its session perhaps with a loaded copy *)
(* of the payment, and looks its key up.                                   *)

Arrive(r, command, key, copy) ==
    /\ requests[r] = None
    /\ IF KeyTaken(key) /\ command.operation # "CANCEL"
       THEN Done(r, find_idempotent_snapshot(key, command))
       ELSE /\ requests' = [requests EXCEPT ![r] =
                  [command |-> command, key |-> key, copy |-> copy,
                   at |-> IF command.operation = "AUTHORIZE" THEN now ELSE 0]]
            /\ answers' = [answers EXCEPT ![r] = None]
    /\ UNCHANGED <<storeVars, idempotency>>

\* begin_coordinated_write expires what a cancelling session had loaded.
SessionCopies(command) ==
    IF command.operation \in {"CAPTURE", "REFUND"}
       /\ command.payment_id \in DOMAIN payments
    THEN {None, payments[command.payment_id]}
    ELSE {None}

\* A client can name a payment that exists or an identity that no row has.
Sendable(command) ==
    command \in LifecycleCommand =>
        command.payment_id \in DOMAIN payments \cup {None}

----------------------------------------------------------------------------
(* Second step, with the writer reservation.                               *)

\* The claim's INSERT collides with a record committed since the look-up.
ReplayConcurrent(r) ==
    /\ requests[r] # None
    /\ KeyTaken(requests[r].key)
    /\ Done(r, find_idempotent_snapshot(requests[r].key, requests[r].command))
    /\ UNCHANGED <<storeVars, idempotency>>

Claims_WithoutInsert(r) == requests[r] # None

Claims(r) == requests[r] # None /\ ~KeyTaken(requests[r].key)

\* The commit itself; a timeout after it (AFTER_COMMIT, or a lost response)
\* leaves the client without the answer.
Commit(r, p, row) ==
    /\ idempotency' = Put(idempotency, Row(requests[r].key,
            [request_fingerprint |-> requests[r].command, payment_id |-> p,
             response_snapshot |-> row]))
    /\ \/ Done(r, [key |-> requests[r].key, command |-> requests[r].command,
                   payment_id |-> p, payment |-> row])
       \/ Done(r, None)

Authorize(r, p) ==
    LET command == requests[r].command
        delayed == command.token = "AWAIT_CONFIRMATION"
        authorized == IF delayed THEN 0
                      ELSE authorize_amount(command.amount, command.token)
        status == IF delayed THEN "AWAITING_PAYMENT"
                  ELSE authorize_status(command.token)
        row == [status |-> status,
                payment_flow |-> IF delayed THEN "ASYNCHRONOUS_CONFIRMATION"
                                 ELSE "SYNCHRONOUS",
                amount |-> command.amount, currency |-> command.currency,
                expires_at |-> IF delayed THEN requests[r].at + Window ELSE None,
                authorized_amount |-> authorized, captured_amount |-> 0,
                refunded_amount |-> 0, version |-> 1]
    IN  /\ Claims(r)
        /\ command.operation = "AUTHORIZE"
        /\ p \in PaymentIds \ DOMAIN payments
        /\ Publish(Row(p, row),
                   IF delayed THEN "payment.confirmation_requested"
                   ELSE IF status = "AUTHORIZED" THEN "payment.authorized"
                   ELSE "payment.declined")
        /\ Enter(p, IF authorized > 0 THEN <<Entry("AUTHORIZATION", authorized)>>
                    ELSE <<>>)
        /\ Commit(r, p, row)
        /\ UNCHANGED <<receipts, now>>

\* What session.get returns: the copy already loaded, or the row read now.
Loaded(r) ==
    IF requests[r].copy # None THEN requests[r].copy
    ELSE payments[requests[r].command.payment_id]

\* UPDATE ... WHERE version = ?; no matching row raises StaleDataError.
VersionIsCurrent_Unchecked(r) == TRUE

VersionIsCurrent(r) ==
    payments[requests[r].command.payment_id].version = Loaded(r).version

Finds(r, operation) ==
    /\ Claims(r)
    /\ requests[r].command.operation = operation
    /\ requests[r].command.payment_id \in DOMAIN payments

\* _execute_claimed_lifecycle_operation once the domain rule has accepted.
Apply(r, next, entries, type) ==
    LET p == requests[r].command.payment_id
    IN  /\ VersionIsCurrent(r)
        /\ Publish(Row(p, Bumped(next)), type)
        /\ Enter(p, entries)
        /\ Commit(r, p, Bumped(next))
        /\ UNCHANGED <<receipts, now>>

Capture(r) ==
    /\ Finds(r, "CAPTURE")
    /\ CanCapture(Loaded(r))
    /\ LET next == capture(Loaded(r))
       IN  Apply(r, next,
                 <<Entry("CAPTURE",
                         next.captured_amount - Loaded(r).captured_amount)>>,
                 "payment.captured")

Cancellable_Unprotected(r) == CanCancel(Loaded(r))

Cancellable(r) ==
    /\ CanCancel(Loaded(r))
    /\ Loaded(r).status = "AWAITING_PAYMENT" =>
         ~has_protecting_receipt(requests[r].command.payment_id)

Cancel_AlwaysEntered(r) ==
    /\ Finds(r, "CANCEL")
    /\ Cancellable(r)
    /\ Apply(r, cancel(Loaded(r)),
             <<Entry("CANCEL", Loaded(r).authorized_amount)>>,
             "payment.cancelled")

Cancel(r) ==
    /\ Finds(r, "CANCEL")
    /\ Cancellable(r)
    /\ Apply(r, cancel(Loaded(r)),
             IF Loaded(r).status = "AWAITING_PAYMENT" THEN <<>>
             ELSE <<Entry("CANCEL", Loaded(r).authorized_amount)>>,
             "payment.cancelled")

Refund(r) ==
    LET amount == requests[r].command.amount
    IN  /\ Finds(r, "REFUND")
        /\ CanRefund(Loaded(r), amount)
        /\ Apply(r, refund(Loaded(r), amount), <<Entry("REFUND", amount)>>,
                 "payment.refunded")

\* PaymentNotFound, an operation the domain refuses, ConfirmationPending or
\* ConcurrentPaymentUpdate: the claim is rolled back and the key stays free.
Refused(r) ==
    LET command == requests[r].command
    IN  /\ command.operation # "AUTHORIZE"
        /\ command.payment_id \in DOMAIN payments =>
             \/ ~VersionIsCurrent(r)
             \/ command.operation = "CAPTURE" /\ ~CanCapture(Loaded(r))
             \/ command.operation = "CANCEL" /\ ~Cancellable(r)
             \/ command.operation = "REFUND" /\ ~CanRefund(Loaded(r), command.amount)

Refuse(r) ==
    /\ Claims(r)
    /\ Refused(r)
    /\ Done(r, None)
    /\ UNCHANGED <<storeVars, idempotency>>

\* A timeout before the commit, a writer that stays busy, a crash.
Interrupt(r) ==
    /\ requests[r] # None
    /\ Done(r, None)
    /\ UNCHANGED <<storeVars, idempotency>>

----------------------------------------------------------------------------
LifecycleInit ==
    /\ idempotency = [k \in {} |-> None]
    /\ requests = [r \in Requests |-> None]
    /\ answers = [r \in Requests |-> None]

Perform(r) ==
    \/ ReplayConcurrent(r)
    \/ \E p \in PaymentIds : Authorize(r, p)
    \/ Capture(r)
    \/ Cancel(r)
    \/ Refund(r)
    \/ Refuse(r)

LifecycleNext ==
    \E r \in Requests :
        \/ \E command \in Command, key \in Keys :
             /\ Sendable(command)
             /\ \E copy \in SessionCopies(command) :
                  Arrive(r, command, key, copy)
        \/ Perform(r)
        \/ Interrupt(r)
=============================================================================
