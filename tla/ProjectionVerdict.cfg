\* A dispatch and a delivery from outside bring three versions in any order:
\* both read the projection before either writes it, and the older version is
\* written last.
CONSTANTS
    Columns <- AllColumns
    Values <- AllValues
    History <- FullHistory
    Consumers <- Slots
    None = None
    Dispatchers = {d1}
    Endpoints = {e1}
    MaxAttempts = 1
    RetryDelays <- NoDelays
    LeaseSeconds = 1
    MaxTime = 0
SPECIFICATION Spec
PROPERTIES
    ProjectionNeverRegresses
