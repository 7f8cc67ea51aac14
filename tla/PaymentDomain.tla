---------------------------- MODULE PaymentDomain ----------------------------
(***************************************************************************)
(* The pure lifecycle and financial rules of a payment: domain/payment.py. *)
(*                                                                         *)
(* A payment row carries more than the domain's PaymentState; the rules    *)
(* below read and replace its status and its three balances and leave the  *)
(* other columns alone, as the services do when they copy the result of a  *)
(* rule back into the row.                                                 *)
(***************************************************************************)
EXTENDS Integers

Statuses == {"AUTHORIZED", "AWAITING_PAYMENT", "DECLINED", "CAPTURED",
             "PARTIALLY_REFUNDED", "REFUNDED", "CANCELLED", "EXPIRED"}

Flows == {"SYNCHRONOUS", "ASYNCHRONOUS_CONFIRMATION"}

\* The seven declining test tokens differ only in the reason they carry.
PaymentMethodDecisions == {"APPROVE", "DECLINE", "AWAIT_CONFIRMATION"}

----------------------------------------------------------------------------
(* PaymentState: what its constructor accepts, and what may be refunded.   *)

ValidState(s) ==
    /\ s.authorized_amount >= 0 /\ s.captured_amount >= 0
    /\ s.refunded_amount >= 0
    /\ s.captured_amount <= s.authorized_amount
    /\ s.refunded_amount <= s.captured_amount

\* A PaymentState is constructed of the row, and another one of the result.
Constructs(s, next) == ValidState(s) /\ ValidState(next)

refundable_amount(s) == s.captured_amount - s.refunded_amount

----------------------------------------------------------------------------
(* Each rule has a result, and a guard: the condition under which the code *)
(* does not raise.                                                         *)

authorize_status(token) == IF token = "APPROVE" THEN "AUTHORIZED" ELSE "DECLINED"

authorize_amount(amount, token) == IF token = "APPROVE" THEN amount ELSE 0

capture(s) == [s EXCEPT !.status = "CAPTURED",
                        !.captured_amount = s.authorized_amount,
                        !.refunded_amount = 0]

CanCapture(s) == s.status = "AUTHORIZED" /\ Constructs(s, capture(s))

capture_confirmation(s, amount) == [s EXCEPT !.status = "CAPTURED",
                                             !.authorized_amount = amount,
                                             !.captured_amount = amount,
                                             !.refunded_amount = 0]

CanCaptureConfirmation(s, amount) ==
    /\ s.status = "AWAITING_PAYMENT"
    /\ amount > 0
    /\ Constructs(s, capture_confirmation(s, amount))

expire(s) == [s EXCEPT !.status = "EXPIRED"]

CanExpire(s) == s.status = "AWAITING_PAYMENT" /\ Constructs(s, expire(s))

cancel(s) == [s EXCEPT !.status = "CANCELLED",
                       !.captured_amount = 0,
                       !.refunded_amount = 0]

CanCancel(s) ==
    /\ s.status \in {"AUTHORIZED", "AWAITING_PAYMENT"}
    /\ Constructs(s, cancel(s))

refund_NotAccumulated(s, amount) ==
    [s EXCEPT !.status = IF amount = s.captured_amount THEN "REFUNDED"
                         ELSE "PARTIALLY_REFUNDED",
              !.refunded_amount = amount]

refund(s, amount) ==
    LET refunded == s.refunded_amount + amount
    IN  [s EXCEPT !.status = IF refunded = s.captured_amount
                             THEN "REFUNDED"
                             ELSE "PARTIALLY_REFUNDED",
                  !.refunded_amount = refunded]

CanRefund(s, amount) ==
    /\ s.status \in {"CAPTURED", "PARTIALLY_REFUNDED"}
    /\ amount > 0
    /\ amount <= refundable_amount(s)
    /\ Constructs(s, refund(s, amount))
=============================================================================
