SPECIFICATION FairSpec
CONSTANTS
    j1 = j1
    j2 = j2
    j3 = j3
    Jobs <- MCJobs
    NoJob = NoJob
    MonitorResults <- KillOverride
    MaxAttempts = 2
    MaxCrashes = 1
    AsyncTransport = TRUE
    Inputs <- AllInputs
    Events <- LiveEvents
 
PROPERTY Terminates
 
CHECK_DEADLOCK FALSE
