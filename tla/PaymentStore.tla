---------------------------- MODULE PaymentStore ----------------------------
(***************************************************************************)
(* The tables that the payment and the confirmation services share, and    *)
(* the writes they have in common.                                         *)
(*                                                                         *)
(* A table is a function from the primary keys it holds to their rows.     *)
(* SQLite admits one writer at a time and shows nobody an uncommitted row, *)
(* so a transaction that holds the writer reservation is one step of the   *)
(* model, and a transaction that rolls back is no step of the tables.      *)
(***************************************************************************)
EXTENDS PaymentDomain, Sequences, FiniteSets

CONSTANTS
    PaymentIds,       \* identities the service may hand out (uuid4)
    ConfirmationIds,  \* identities a confirmation sender may choose
    Amounts,          \* amounts in minor units
    Currencies,
    Window,           \* how long a delayed payment may be confirmed (72 h)
    None              \* SQL NULL, and an identity no row has

ASSUME AmountsAssumption == Amounts \subseteq Nat \ {0}
ASSUME WindowAssumption == Window \in Nat \ {0}
ASSUME NoneAssumption == None \notin PaymentIds /\ None \notin Nat

VARIABLES
    payments,  \* payments: id -> row
    ledger,    \* ledger_entries of each payment, in commit order
    events,    \* webhook_events of each payment, in commit order
    receipts,  \* confirmation_receipts: confirmation id -> row
    now        \* the trusted clock, read by requests and transactions

storeVars == <<payments, ledger, events, receipts, now>>

----------------------------------------------------------------------------
(* Rows.                                                                   *)

Payment ==
    [status: Statuses, payment_flow: Flows, amount: Amounts,
     currency: Currencies, expires_at: Nat \cup {None},
     authorized_amount: Nat, captured_amount: Nat, refunded_amount: Nat,
     version: Nat \ {0}]

LedgerOperations ==
    {"AUTHORIZATION", "CAPTURE", "CANCEL", "REFUND", "CONFIRMATION_CAPTURE"}

LedgerEntry == [operation: LedgerOperations, amount: Nat \ {0}]

EventTypes ==
    {"payment.authorized", "payment.confirmation_requested",
     "payment.declined", "payment.captured", "payment.cancelled",
     "payment.refunded", "payment.expired"}

\* The payload carries the full row, its version included.
Event == [type: EventTypes, payment: Payment]

\* The payment_reference of a delayed payment is unique and immutable, so the
\* payment's id stands for it; None is a reference no payment has.
ConfirmationCommand ==
    [payment_reference: PaymentIds \cup {None}, amount: Amounts,
     currency: Currencies]

Receipt == [command: ConfirmationCommand, received_at: Nat, completed: BOOLEAN]

----------------------------------------------------------------------------
(* Writes.                                                                 *)

Put(table, rows) ==
    [k \in DOMAIN table \cup DOMAIN rows |->
        IF k \in DOMAIN rows THEN rows[k] ELSE table[k]]

Row(key, row) == [k \in {key} |-> row]

Bumped_NotCounted(row) == row

\* version_id_col: an UPDATE of a row also counts up its version.
Bumped(row) == [row EXCEPT !.version = @ + 1]

\* create_outbox_event runs in the transaction that writes the payment rows.
Publish(rows, type) ==
    /\ payments' = Put(payments, rows)
    /\ events' = [p \in PaymentIds |->
                    IF p \in DOMAIN rows
                    THEN Append(events[p], [type |-> type, payment |-> rows[p]])
                    ELSE events[p]]

Enter(p, entries) == ledger' = [ledger EXCEPT ![p] = @ \o entries]

Entry(operation, amount) == [operation |-> operation, amount |-> amount]

----------------------------------------------------------------------------
(* Coordination: the predicate that cancellation and expiry share.         *)

Matches(command, row) ==
    command.amount = row.amount /\ command.currency = row.currency

OnTime(receipt, row) == receipt.received_at < row.expires_at

Protects(receipt, p) ==
    /\ receipt.command.payment_reference = p
    /\ ~receipt.completed
    /\ Matches(receipt.command, payments[p])
    /\ OnTime(receipt, payments[p])

has_protecting_receipt(p) ==
    \E c \in DOMAIN receipts : Protects(receipts[c], p)

StoreInit ==
    /\ payments = [p \in {} |-> None]
    /\ ledger = [p \in PaymentIds |-> <<>>]
    /\ events = [p \in PaymentIds |-> <<>>]
    /\ receipts = [c \in {} |-> None]
    /\ now = 0
=============================================================================
