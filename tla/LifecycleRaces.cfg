\* Two requests at a time on one payment, four keys, no deliveries: stale
\* copies, shared keys, lost answers and partial refunds.
CONSTANTS
    PaymentIds = {p1}
    ConfirmationIds = {}
    Amounts = {1, 2}
    Currencies = {USD}
    Window = 1
    None = None
    Requests = {r1, r2}
    Keys = {k1, k2, k3, k4}
    Tokens = {"APPROVE", "DECLINE", "AWAIT_CONFIRMATION"}
    Handlers = {}
    Recoverers = {}
    Sweepers = {}
    RecoveryLimit = 1
    ExpiryLimit = 1
    MaxTime = 0
SYMMETRY Identities
SPECIFICATION Spec
INVARIANTS
    LedgerExplainsBalances
    OneEffectPerKey
    AnswersAreRecorded
PROPERTIES
    ImplementsContract
