SPECIFICATION BatchSpec
CONSTANTS
 TotalBlocks = 3
 BlockSize = 2
 SeqIds = {1,2,3}
 MaxBatch = 2
 Shapes <- MCShapes
 MaxRequests = 3
 MaxFaults = 1
 MaxRaw = 1
INVARIANTS BlocksPartitioned OldestEligibleRight AdmittedHasRoom
CHECK_DEADLOCK FALSE
PROPERTY RequestsEnd
