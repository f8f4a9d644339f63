SPECIFICATION Spec
CONSTANTS Calls = {1}
          FrameSize = 2
          MaxIncoming = 2
          Garbage = Garbage
          None = None
INVARIANTS NobodyWaitsAlone
CHECK_DEADLOCK FALSE
