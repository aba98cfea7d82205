\* Two workers, one caller, two task addresses that are reused, task sets of up to
\* two elements, up to three tasks in a group.
CONSTANTS
  Workers = {w1, w2}
  Clients = {c1}
  Tasks = {t1, t2}
  MaxElts = 2
  MaxAdds = 3
  Null = Null
SPECIFICATION Spec
INVARIANTS
  IInv
  ElementsRunOnce
  SyncWaitsForGroup
  NoDanglingAccess
  NoLostWakeup
  ShutdownDropsNothing
PROPERTIES
  SyncReturns
  DestroyReturns
  ImplementsTaskGroups
