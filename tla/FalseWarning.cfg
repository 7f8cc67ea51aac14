\* A payment is captured or refunded while a report reads it: between the SELECT
\* of the payments and that of the ledger.
CONSTANTS
    PaymentIds = {p1}
    ConfirmationIds = {}
    Amounts = {1}
    Currencies = {USD}
    Window = 1
    None = None
    Requests = {r1}
    Keys = {k1, k2, k3}
    Tokens = {"APPROVE"}
    Handlers = {}
    Recoverers = {}
    Sweepers = {}
    RecoveryLimit = 1
    ExpiryLimit = 1
    MaxTime = 1
    Batches = {b1}
    Reporters = {g1}
    MaxRows = 0
    MaxRead = 0
SYMMETRY Identities
SPECIFICATION ReconciliationSpec
INVARIANT
    NoFalseLedgerWarning
