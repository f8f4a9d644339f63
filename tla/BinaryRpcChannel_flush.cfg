SPECIFICATION Spec
CONSTANTS Calls = {1, 2}
          FrameSize = 2
          MaxIncoming = 2
          Garbage = Garbage
          None = None
INVARIANTS BacklogIsWatched
CHECK_DEADLOCK FALSE
