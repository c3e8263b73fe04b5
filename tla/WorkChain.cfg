SPECIFICATION Spec
CONSTANTS
    a = a
    b = b
    None = None
    Children <- MCChildren
    Keys <- MCKeys
    Outline <- MCOutline
    MaxCrashes = 1
INVARIANT ContextComplete
INVARIANT LaunchedOnce
 
PROPERTY Terminates
CHECK_DEADLOCK FALSE
