\* Two dispatches, as in LeaseRaces.cfg: the first dispatch ends while
\* the second owns the event.
CONSTANTS
    Columns <- AllColumns
    Values <- AllValues
    History <- TwoVersions
    Consumers <- Slots
    None = None
    Dispatchers = {d1, d2}
    Endpoints = {}
    MaxAttempts = 2
    RetryDelays <- OneDelay
    LeaseSeconds = 1
    MaxTime = 2
SPECIFICATION Spec
INVARIANTS
    ActiveAttemptIsOwned
