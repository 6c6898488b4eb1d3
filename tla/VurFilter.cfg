SPECIFICATION VurSpec
CONSTANTS
    available = available
    unavailable = unavailable
    Nothing = Nothing
    Values = {4, 5}
    Statuses = {available, unavailable}
    MaxTimestamp = 3
    ClientResolutions = {0, 10}
INVARIANT OnlyChangesAreSent
