SPECIFICATION Spec
CONSTANTS Threads = {t1, t2}
          Tokens = {a, b}
          NoToken = none
          Ttl = 1
          Limit = 2
          MaxTime = 1
          MaxRequests = 4
INVARIANTS Inv AcceptedWasValid
CHECK_DEADLOCK FALSE
