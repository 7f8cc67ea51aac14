\* Two dispatches and a delivery from outside race for two events, with two
\* attempts each; leases run out while they are in progress.
CONSTANTS
    Columns <- AllColumns
    Values <- AllValues
    History <- TwoVersions
    Consumers <- Slots
    None = None
    Dispatchers = {d1, d2}
    Endpoints = {e1}
    MaxAttempts = 2
    RetryDelays <- OneDelay
    LeaseSeconds = 1
    MaxTime = 1
SYMMETRY Identities
SPECIFICATION Spec
INVARIANTS
    TypeOK
    AttemptsExplainStatus
    DeliveredIsProcessed
    AcceptedIsStored
