SPECIFICATION FairSpec
CONSTANTS
    gear = gear
    speed = speed
    Nothing = Nothing
    OnChange = {gear}
    Continuous = {speed}
    Values = {0, 1}
    Intervals = {5, 10}
    MaxClock = 2
    LooperStub = TRUE
CHECK_DEADLOCK FALSE
PROPERTY CallbacksReturn
