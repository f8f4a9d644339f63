SPECIFICATION Spec
CONSTANTS Conns = {c1, c2}
          Stoppers = {s1, s2}
          IoLoopNum = 2
          None = None
INVARIANTS Inv NothingRunsAfterReturn
PROPERTIES CallbackOrder StopCompletes
CHECK_DEADLOCK FALSE
