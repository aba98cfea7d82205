\* Four workers that complete a task each, and the caller; three threads that
\* meet three times at a barrier; an array of two cells that doubles twice,
\* with counters of sixteen values.
CONSTANTS
  Workers = {w1, w2, w3, w4}
  Caller = c
  Nobody = Nobody
  Members = {t1, t2, t3}
  MaxRounds = 3
  Tasks = {k1, k2}
  Null = Null
  Width = 16
  Capacity = 2
  MaxLength = 6
SPECIFICATION PartsSpec
INVARIANTS
  NoUseAfterDestroy
  NobodyIsLeftBehind
  CellsAreOwn
PROPERTIES
  WaitReturns
  ImplementsTaskList
