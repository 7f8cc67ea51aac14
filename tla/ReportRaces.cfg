\* A delayed payment is confirmed, cancelled or refunded while its batch is
\* imported and reports of it are asked for again and again, before, at or after
\* the cutoff; its deadline is after the last cutoff.
CONSTANTS
    PaymentIds = {p1}
    ConfirmationIds = {c1}
    Amounts = {1}
    Currencies = {USD}
    Window = 2
    None = None
    Requests = {r1}
    Keys = {k1, k2}
    Tokens = {"AWAIT_CONFIRMATION"}
    Handlers = {h1}
    Recoverers = {}
    Sweepers = {}
    RecoveryLimit = 1
    ExpiryLimit = 1
    MaxTime = 1
    Batches = {b1}
    Reporters = {g1}
    MaxRows = 2
    MaxRead = 1
SYMMETRY Identities
SPECIFICATION ReconciliationSpec
INVARIANTS
    MatchedIsConsistent
    ExpectedAmountIsHistorical
    RowsAreNeverExcluded
    MatchedReportBalances
    LedgerIsNeverBehind
    SectionAgrees
PROPERTIES
    SectionsArePermanent
