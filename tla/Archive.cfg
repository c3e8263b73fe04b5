SPECIFICATION ASpec
CONSTANT Nodes = {"d1", "d2", "k1", "k2", "w"}
CONSTANT Early = {"d1", "w", "k1"}
CONSTANT EarlyLinks <- MCEarlyLinks
CONSTANT Walkers = {"B"}
CONSTANT Roots = {"d1", "k2"}
CONSTANT Kind <- MCKind
CONSTANT Functions = {"k2"}
CONSTANT Like <- MCLike
CONSTANT Clients = {"A", "B"}
CONSTANT Home <- MCHome
CONSTANT Requests <- MCRequests
CONSTANT Toggles <- MCToggles
CONSTANT MaxDeletes = 1
CONSTANT MaxCrashes = 1
CONSTANT ExportToggles <- MCExportToggles
CONSTANT MaxImports = 1
INVARIANT GraphSound
PROPERTY DeletionConsistent
 
CHECK_DEADLOCK FALSE
