SPECIFICATION Spec
CONSTANTS Calls = {1, 2}
          FrameSize = 2
          MaxIncoming = 2
          Garbage = Garbage
          None = None
INVARIANTS TypeOK CompletedOnce ResponseAlive FramesWhole AnswerMatches WaiterIsRegistered
PROPERTIES AnswerEndsCall DestructionEndsCalls
CHECK_DEADLOCK FALSE
