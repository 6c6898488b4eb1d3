SPECIFICATION Spec
CONSTANTS
    PowerAreas <- MCPowerAreas
    TempAreas <- MCTempAreas
    DualAreas <- MCDualAreas
    Assists <- MCAssists
    Frames <- MCFrames
    Scenarios <- MCScenarios
    PowerController = TRUE
    MaxRequests = 3
    NoValue = NoValue
    Malformed = Malformed
CHECK_DEADLOCK FALSE
INVARIANTS
    HvacStatusFollowsPower
    TempsCoupled
    AdasFollowsEnabled
    AnsweredIsDone
    PreparedAnswerUsedOnce
    NoRequestForgotten
