SPECIFICATION BufferSpec
CONSTANTS kCheapPrepend = 2
          kStackBufSize = 3
          initialSize = 3
          MaxBytes = 12
INVARIANT BufferInv
PROPERTY Refines
CHECK_DEADLOCK FALSE
