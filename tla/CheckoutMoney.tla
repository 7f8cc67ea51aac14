---------------------------- MODULE CheckoutMoney ----------------------------
(***************************************************************************)
(* Amounts as the checkout shows them and reads them back: money.js and    *)
(* displayAmountFromMinorUnits in checkout.js. A text is the number before *)
(* the point and the digits after it, if any (leading zeros change         *)
(* neither what it means nor whether it is accepted).                      *)
(***************************************************************************)
EXTENDS Integers, Sequences

MAX_MINOR_UNITS == 999999999

CheckoutCurrencies == {"JPY", "USD"}

Digit == 0..9

Text(whole, fraction) == [whole |-> whole, fraction |-> fraction]

AmountText == [whole: Nat, fraction: Seq(Digit)]

boundedInteger(amount) == 0 < amount /\ amount <= MAX_MINOR_UNITS

\* fractional = (match[2] ?? "").padEnd(2, "0")
Cents(fraction) ==
    LET padded == fraction \o <<0, 0>>
    IN  10 * padded[1] + padded[2]

MinorUnits(text, currency) ==
    IF currency = "JPY" THEN text.whole
    ELSE 100 * text.whole + Cents(text.fraction)

\* parseMinorUnits returns null for any other text.
IsMinorUnits(text, currency) ==
    /\ currency = "JPY" => text.fraction = <<>>
    /\ currency = "USD" => Len(text.fraction) <= 2
    /\ boundedInteger(MinorUnits(text, currency))

\* Without padStart, 105 cents would be shown as 1.5.
displayAmountFromMinorUnits_Unpadded(amount, currency) ==
    IF currency = "JPY" THEN Text(amount, <<>>)
    ELSE IF amount % 100 < 10 THEN Text(amount \div 100, <<amount % 100>>)
    ELSE Text(amount \div 100, <<(amount % 100) \div 10, amount % 10>>)

displayAmountFromMinorUnits(amount, currency) ==
    IF currency = "JPY" THEN Text(amount, <<>>)
    ELSE Text(amount \div 100, <<(amount % 100) \div 10, amount % 10>>)
=============================================================================
