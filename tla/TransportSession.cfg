SPECIFICATION Spec
CONSTANTS
    MaxAttempts = 8
    U32Max = 12
INVARIANTS TypeOK RouteFollowsState ReconnectBudget
PROPERTIES FailedUntilReset AttemptsCounted
