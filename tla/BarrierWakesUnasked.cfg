\* Three threads that meet twice.
CONSTANTS
  Members = {t1, t2, t3}
  MaxRounds = 2
SPECIFICATION BarrierSpec
INVARIANT NobodyIsAhead
CHECK_DEADLOCK FALSE
