SPECIFICATION Spec
CONSTANTS Timers = {a, b}
          Delays = {0, 1, 2}
          Intervals = {0, 2}
          Lag = 1
          None = None
INVARIANT Inv
PROPERTIES NeverTooSoon CancelIsFinal TimersFire
CHECK_DEADLOCK FALSE
