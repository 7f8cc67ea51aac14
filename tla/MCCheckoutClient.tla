--------------------------- MODULE MCCheckoutClient ---------------------------
(***************************************************************************)
(* CheckoutClient for TLC: two forms, in currencies that write their       *)
(* amounts differently (1.05 needs its zero), of which one is for a        *)
(* delayed payment.                                                        *)
(***************************************************************************)
EXTENDS CheckoutClient

TwoForms ==
    {[amount |-> Text(1, <<0, 5>>), currency |-> "USD",
      token |-> "AWAIT_CONFIRMATION"],
     [amount |-> Text(105, <<>>), currency |-> "JPY", token |-> "APPROVE"]}

\* Keys and payments are numbers, used from the lowest on: nothing else depends
\* on which of them is used, so a behaviour with another order is one of these
\* under other names.
Lowest(used, all) == \A i \in used, j \in all : j < i => j \in used

InOrder == Lowest(DOMAIN payments, PaymentIds) /\ Lowest(minted, TabKeys)

OrderedSpec == Init /\ [][Next /\ InOrder']_vars /\ Fairness
=============================================================================
