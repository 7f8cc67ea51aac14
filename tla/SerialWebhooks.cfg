\* One dispatch at a time of two versions, for ever and in any order: crashes at
\* any step, lost acknowledgements, failing consumers, two attempts each, leases
\* that run out, an operator who keeps asking for both events, and a clock that
\* never stops.
CONSTANTS
    Columns <- AllColumns
    Values <- AllValues
    History <- TwoVersions
    Consumers <- Slots
    None = None
    Dispatchers = {d1}
    Endpoints = {}
    MaxAttempts = 2
    RetryDelays <- OneDelay
    LeaseSeconds = 1
    MaxTime = 1
SPECIFICATION EndlessSpec
INVARIANTS
    ProjectionIsNewestProcessed
    GapsAreVisible
PROPERTIES
    EventsSettle
