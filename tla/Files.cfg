SPECIFICATION FilesSpec
CONSTANT Computers = {"local", "ssh", "async"}
CONSTANT InitRemote <- MCInitRemote
CONSTANT Order <- MCOrder
CONSTANT Sandbox <- MCSandbox
CONSTANT LocalCopies <- MCLocalCopies
CONSTANT RemoteCopies <- MCRemoteCopies
CONSTANT Symlinks <- MCSymlinks
CONSTANT Outputs <- MCOutputs
CONSTANT StashLists <- MCStashLists
CONSTANT RetrieveList <- MCRetrieveList
CONSTANT MaxAttempts = 3
CONSTANT Trees <- MCTrees
CONSTANT MaxCalls = 1
CONSTANT Calls <- MCCalls
CONSTANT DirNames = {"d", "e"}
CONSTANT MaxDepth = 5
 
INVARIANT UploadedExactly
INVARIANT StashComplete
INVARIANT RetrievedExactly
 
PROPERTY KeptBeforeRemoved
CHECK_DEADLOCK FALSE
