\* The tab of Checkout.cfg: an answer after the commit is an error status, or a
\* success without a body, and the key of the payment is gone.
CONSTANTS
    PaymentIds = {p1, p2}
    ConfirmationIds = {}
    Amounts = {105}
    Currencies = {"JPY", "USD"}
    Window = 1
    None = None
    Requests = {r1, r2, o1}
    Keys = {k1, k2, m1}
    Tokens = {"APPROVE", "AWAIT_CONFIRMATION"}
    TabRequests = {r1, r2}
    TabKeys = {k1, k2}
    Forms <- TwoForms
    Undefined = Undefined
SPECIFICATION Spec
INVARIANTS
    PaymentsAreShownOrRetryable
