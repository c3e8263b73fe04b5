SPECIFICATION Spec
CONSTANTS
    NoValue = NoValue
    Handlers <- MCHandlers
    Overrides <- MCOverrides
    MaxIterations <- MCMaxIterations
    Statuses <- MCStatuses
    MaxCrashes = 1
INVARIANT TwiceInARow
INVARIANT IterationsBounded
 
 
CHECK_DEADLOCK FALSE
