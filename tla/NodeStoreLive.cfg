SPECIFICATION Spec
CONSTANT Clients = {A, B}
CONSTANT A = A
CONSTANT B = B
CONSTANT Nodes = {"k1", "o1", "k2", "o2", "k3", "o3", "a"}
CONSTANT Objs <- MCObjs
CONSTANT Calcs = {"k1", "k2", "k3"}
CONSTANT Outputs <- MCOutputs
CONSTANT Twins <- MCTwins
CONSTANT CacheFor = {"k1", "k2", "k3"}
CONSTANT Early = {}
CONSTANT Archived = {"a"}
CONSTANT DumpFirst = TRUE
CONSTANT MaxEvents = 1
INVARIANT LiveIsSafe
