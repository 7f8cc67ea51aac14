\* One delayed payment: an on-time confirmation for the wrong currency whose
\* completion the expiry run overtakes.
CONSTANTS
    PaymentIds = {p1}
    ConfirmationIds = {c1, c2}
    Amounts = {1}
    Currencies = {USD, JPY}
    Window = 1
    None = None
    Requests = {r1}
    Keys = {k1}
    Tokens = {"AWAIT_CONFIRMATION"}
    Handlers = {h1}
    Recoverers = {w1}
    Sweepers = {s1}
    RecoveryLimit = 1
    ExpiryLimit = 1
    MaxTime = 1
SPECIFICATION Spec
INVARIANTS
    OnTimeReceiptNeverLate
