------------------------- MODULE MCPaymentPlatform -------------------------
(***************************************************************************)
(* PaymentPlatform for TLC: identities are symmetric, or used in one order. *)
(***************************************************************************)
EXTENDS PaymentPlatform, TLC

Identities ==
    Permutations(PaymentIds) \cup Permutations(Keys) \cup
    Permutations(ConfirmationIds) \cup Permutations(Requests) \cup
    Permutations(Handlers)

----------------------------------------------------------------------------
(* Progress is checked without symmetry. Payments and keys are numbers     *)
(* there, and are used from the lowest on: nothing else depends on which   *)
(* of them is used, so a behaviour with another order is one of these      *)
(* under other names.                                                      *)

Lowest(used, all) == \A i \in used, j \in all : j < i => j \in used

UsedKeys ==
    DOMAIN idempotency
        \cup {requests[r].key : r \in {r \in Requests : requests[r] # None}}

InOrder == Lowest(DOMAIN payments, PaymentIds) /\ Lowest(UsedKeys, Keys)

\* The bounds on what is sent: clients only authorize, in dollars, and the two
\* confirmations are one that is right for the first payment and one in another
\* currency, for that payment or for none that is known.
OnlyOrders ==
    \A r \in Requests :
        requests[r] # None =>
            /\ requests[r].command \in AuthorizationCommand
            /\ requests[r].command.currency = "USD"

RightAndWrong ==
    \A c \in DOMAIN receipts :
        LET command == receipts[c].command
        IN  IF c = "right"
            THEN command.payment_reference = 1 /\ command.currency = "USD"
            ELSE command.payment_reference \in {1, None} /\ command.currency = "JPY"

OrderedSpec ==
    /\ Init /\ [][Next /\ InOrder' /\ OnlyOrders' /\ RightAndWrong']_vars
    /\ Fairness
=============================================================================
