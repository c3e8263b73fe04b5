SPECIFICATION Spec
CONSTANTS
    j1 = j1
    j2 = j2
    j3 = j3
    Jobs <- MCJobs3
    NoJob = NoJob
    MonitorResults <- KillMonitors
    MaxAttempts = 2
    MaxCrashes = 2
    AsyncTransport = FALSE
    Inputs <- AllInputs
    Events <- AllEvents
SYMMETRY Symmetry
INVARIANT SubmittedOnce
INVARIANT RetrievedAfterJob
INVARIANT FinishedAfterJob
PROPERTY CommandOrder
CHECK_DEADLOCK FALSE
