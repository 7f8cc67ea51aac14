\* Three delayed payments and expiry runs that take two: more are due than one
\* run takes, and a run of several payments rolls back with all of them. A right
\* and a wrong confirmation, which recovery takes one at a time; the operator keeps
\* running recovery and expiry.
CONSTANTS
    PaymentIds = {1, 2, 3}
    ConfirmationIds = {"right", "wrong"}
    Amounts = {1}
    Currencies = {"USD", "JPY"}
    Window = 1
    None = None
    Requests = {r1}
    Keys = {1, 2, 3}
    Tokens = {"AWAIT_CONFIRMATION"}
    Handlers = {h1}
    Recoverers = {w1}
    Sweepers = {s1}
    RecoveryLimit = 1
    ExpiryLimit = 2
    MaxTime = 1
SPECIFICATION OrderedSpec
PROPERTIES
    AcceptedReceiptsComplete
    AwaitingPaymentsResolve
