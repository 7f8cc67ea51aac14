-------------------------- MODULE CheckoutContract --------------------------
(***************************************************************************)
(* What a checkout promises its customer: one order is awaited at a time,  *)
(* at most one payment is made for each order, and an order stops being    *)
(* awaited only when its payment is shown, when nothing can come of it any *)
(* more, or when the customer is told that it has failed. What the last    *)
(* one is worth is the weak point: an order that was given up may be paid. *)
(* No key, request, reload or lost answer appears here.                    *)
(***************************************************************************)
CONSTANTS Orders, Commands, PaymentIds, None

VARIABLE orders  \* what became of each order that is awaited or may be paid

Order ==
    [command: Commands, payment: PaymentIds \cup {None},
     fate: {"awaited", "told", "given up"}]

Init == orders = [o \in {} |-> None]

\* The order o becomes like this one, and the others stay.
Becomes(o, order) ==
    orders' = [q \in DOMAIN orders \cup {o} |-> IF q = o THEN order ELSE orders[q]]

Place(o, command) ==
    /\ o \notin DOMAIN orders
    /\ \A q \in DOMAIN orders : orders[q].fate # "awaited"
    /\ Becomes(o, [command |-> command, payment |-> None, fate |-> "awaited"])

Pay(o, p) ==
    /\ o \in DOMAIN orders
    /\ orders[o].payment = None
    /\ orders[o].fate # "told"
    /\ \A q \in DOMAIN orders : orders[q].payment # p
    /\ Becomes(o, [orders[o] EXCEPT !.payment = p])

Tell(o) ==
    /\ o \in DOMAIN orders
    /\ orders[o].fate = "awaited" /\ orders[o].payment # None
    /\ Becomes(o, [orders[o] EXCEPT !.fate = "told"])

GiveUp(o) ==
    /\ o \in DOMAIN orders
    /\ orders[o].fate = "awaited"
    /\ Becomes(o, [orders[o] EXCEPT !.fate = "given up"])

\* No attempt is left that could still pay for the order.
Lapse(o) ==
    /\ o \in DOMAIN orders
    /\ orders[o].payment = None
    /\ orders' = [q \in DOMAIN orders \ {o} |-> orders[q]]

Next ==
    \E o \in Orders :
        \/ \E command \in Commands : Place(o, command)
        \/ \E p \in PaymentIds : Pay(o, p)
        \/ Tell(o)
        \/ GiveUp(o)
        \/ Lapse(o)

Spec == Init /\ [][Next]_orders
=============================================================================
