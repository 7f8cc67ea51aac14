--------------------------- MODULE PaymentContract ---------------------------
(***************************************************************************)
(* What the payment service promises about every payment, whatever         *)
(* requests, confirmations, recovery and expiry runs it is made of: a step *)
(* opens the payment, moves it once along the published lifecycle, or      *)
(* leaves it alone. A move enters in the payment's book exactly the money  *)
(* it moved, and announces the new state of the account exactly once.      *)
(***************************************************************************)
EXTENDS Integers, Sequences

CONSTANTS PaymentIds, Amounts, None

VARIABLES
    account,  \* the state of each payment, or None
    book,     \* the money movements of each payment
    outbox    \* the states of each payment that were announced

vars == <<account, book, outbox>>

State(status, amount, authorized, captured, refunded) ==
    [status |-> status, amount |-> amount, authorized_amount |-> authorized,
     captured_amount |-> captured, refunded_amount |-> refunded]

Movement(operation, amount) == [operation |-> operation, amount |-> amount]

Init ==
    /\ account = [p \in PaymentIds |-> None]
    /\ book = [p \in PaymentIds |-> <<>>]
    /\ outbox = [p \in PaymentIds |-> <<>>]

Unchanged(p) ==
    /\ account'[p] = account[p]
    /\ book'[p] = book[p]
    /\ outbox'[p] = outbox[p]

Becomes(p, state, movements) ==
    /\ account'[p] = state
    /\ book'[p] = book[p] \o movements
    /\ outbox'[p] = Append(outbox[p], state)

Opens(p) ==
    /\ account[p] = None
    /\ \E a \in Amounts :
         \/ Becomes(p, State("AUTHORIZED", a, a, 0, 0),
                    <<Movement("AUTHORIZATION", a)>>)
         \/ Becomes(p, State("DECLINED", a, 0, 0, 0), <<>>)
         \/ Becomes(p, State("AWAITING_PAYMENT", a, 0, 0, 0), <<>>)

\* An authorized payment is captured in full or cancelled in full.
Settles(p) ==
    \E a \in Amounts :
        /\ account[p] = State("AUTHORIZED", a, a, 0, 0)
        /\ \/ Becomes(p, State("CAPTURED", a, a, a, 0), <<Movement("CAPTURE", a)>>)
           \/ Becomes(p, State("CANCELLED", a, a, 0, 0), <<Movement("CANCEL", a)>>)

\* A delayed payment is captured for exactly what it asked for, or ends
\* without any money movement.
Resolves(p) ==
    \E a \in Amounts :
        /\ account[p] = State("AWAITING_PAYMENT", a, 0, 0, 0)
        /\ \/ Becomes(p, State("CAPTURED", a, a, a, 0),
                      <<Movement("CONFIRMATION_CAPTURE", a)>>)
           \/ Becomes(p, State("CANCELLED", a, 0, 0, 0), <<>>)
           \/ Becomes(p, State("EXPIRED", a, 0, 0, 0), <<>>)

\* Money given back is counted against what is still there to give back.
Refunds(p) ==
    \E status \in {"CAPTURED", "PARTIALLY_REFUNDED"}, a \in Amounts, back \in Amounts :
        \E given \in 0..(a - 1) :
            /\ account[p] = State(status, a, a, a, given)
            /\ given + back <= a
            /\ Becomes(p, State(IF given + back = a THEN "REFUNDED"
                               ELSE "PARTIALLY_REFUNDED", a, a, a, given + back),
                       <<Movement("REFUND", back)>>)

\* An expiry run moves several payments at once.
Next ==
    \A p \in PaymentIds :
        Unchanged(p) \/ Opens(p) \/ Settles(p) \/ Resolves(p) \/ Refunds(p)

Spec == Init /\ [][Next]_vars
=============================================================================
