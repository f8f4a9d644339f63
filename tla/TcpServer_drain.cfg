SPECIFICATION Spec
CONSTANTS Conns = {c1}
          Stoppers = {s1}
          IoLoopNum = 1
          None = None
INVARIANTS WaitDrains
CHECK_DEADLOCK FALSE
