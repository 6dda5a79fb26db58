CONSTANTS
  VertexGroups <- MCVertexGroups
  EdgeGroups <- MCEdgeGroups
  Unsendable = {2, 3}
  MaxRows = 5
  Budget = 3
  MaxAttempts = 2
  MaxCalls = 2
SPECIFICATION FairWrites
CHECK_DEADLOCK FALSE
INVARIANTS
  SuccessStoresAll
PROPERTY
  Terminates
