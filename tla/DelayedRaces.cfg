\* One delayed payment, two confirmations that may be on time, late or for the
\* wrong amount, one of each worker, and a client with two keys who may cancel
\* or refund meanwhile; the clock crosses the deadline.
CONSTANTS
    PaymentIds = {p1}
    ConfirmationIds = {c1, c2}
    Amounts = {1, 2}
    Currencies = {USD}
    Window = 1
    None = None
    Requests = {r1}
    Keys = {k1, k2}
    Tokens = {"AWAIT_CONFIRMATION"}
    Handlers = {h1}
    Recoverers = {w1}
    Sweepers = {s1}
    RecoveryLimit = 2
    ExpiryLimit = 1
    MaxTime = 1
SYMMETRY Identities
SPECIFICATION Spec
INVARIANTS
    TypeOK
    BalancesFitStatus
    OutboxMirrorsVersions
    EvidenceAgrees
    OnTimeReceiptIsHonoured
    AppliedExactlyOnce
PROPERTIES
    ProtectedPaymentStays
    RecordsArePermanent
    ImplementsContract
