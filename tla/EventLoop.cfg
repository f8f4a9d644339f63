SPECIFICATION Spec
CONSTANTS Threads = {t1, t2}
          Functors = {f1, f2, f3}
INVARIANTS Inv FifoDelivery
PROPERTIES DispatchSafety QueuedIsRun QuitStops
CHECK_DEADLOCK FALSE
