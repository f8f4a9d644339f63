SPECIFICATION Spec
CONSTANTS BinaryFrames <- MCBinaryFrames
          JsonLines <- MCJsonLines
          MaxFrames = 3
INVARIANTS Inv AnswersMatch
PROPERTY AnswerComes
CHECK_DEADLOCK FALSE
