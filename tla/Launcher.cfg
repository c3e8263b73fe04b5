SPECIFICATION Spec
CONSTANTS
    p1 = p1
    p2 = p2
    w1 = w1
    w2 = w2
    Procs <- MCProcs
    Workers <- MCWorkers
    Broken <- MCBroken
    Outcomes = {"finished", "killed"}
    Meddled <- MCMeddled
    Slots = 1
    MaxTasks <- MCMaxTasks
    MaxFaults = 2
INVARIANT OneInstance
INVARIANT SealedOrSealing
 
PROPERTY Completed
CHECK_DEADLOCK FALSE
