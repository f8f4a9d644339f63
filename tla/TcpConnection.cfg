SPECIFICATION Spec
CONSTANTS Sizes = {1, 2}
          HighWaterMark = 2
          MaxUnits = 4
          MaxInbox = 1
INVARIANTS Inv OutputInOrder
PROPERTIES ClosedForGood CompleteMeansDrained HighWaterIsEdge ImplementsStream OutputDrains
CHECK_DEADLOCK FALSE
