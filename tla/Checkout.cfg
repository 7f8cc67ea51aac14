\* A tab that makes two submissions, each in progress up to twice at once, and
\* another client with one key: lost answers, reloads at any time, refreshes of
\* a delayed payment that is cancelled meanwhile, and a customer who keeps retrying.
CONSTANTS
    PaymentIds = {1, 2}
    ConfirmationIds = {}
    Amounts = {105}
    Currencies = {"JPY", "USD"}
    Window = 1
    None = None
    Requests = {r1, r2, o1}
    Keys = {1, 2, 3}
    Tokens = {"APPROVE", "AWAIT_CONFIRMATION"}
    TabRequests = {r1, r2}
    TabKeys = {1, 2}
    Forms <- TwoForms
    Undefined = Undefined
SPECIFICATION OrderedSpec
INVARIANTS
    TypeOK
    UncertainPaymentsStayRetryable
    RetriesAskTheSame
    ReloadShowsTheSame
    ResultIsOnePayment
PROPERTIES
    DisplayIsStable
    SubmissionsResolve
    ImplementsContract
