SPECIFICATION FairSpec
CONSTANTS
    Jobs = {j1, j2, j3}
    j3 = j3
    j1 = j1
    j2 = j2
    Updaters = {u1, u2}
    u1 = u1
    u2 = u2
    NoHandle = NoHandle
    Interval = 2
    QueryByUser = FALSE
    Faults <- AllFaults
INVARIANT GoneIsGone
PROPERTY PollsSpaced
PROPERTY Answered
