SPECIFICATION Spec
CONSTANTS exactRoutes <- MCExactRoutes
          prefixRoutes <- MCPrefixRoutes
          FileSize <- MCFileSize
          Requests <- MCRequests
          TlsModes = {"None", "MemoryBio", "KernelTls"}
          MaxRequests = 3
INVARIANTS Inv AnswersInOrder ClosingIsLast
PROPERTY RequestEnds
CHECK_DEADLOCK FALSE
