\* Two turns, a cancel and two deletes with every fault.
SPECIFICATION Spec
CONSTANTS
  t1 = t1
  t2 = t2
  c1 = c1
  d1 = d1
  d2 = d2
  Turns = {t1, t2}
  Cancels = {c1}
  Deletes = {d1, d2}
  Events = {"db", "disconnect", "shutdown", "cancelError", "retryable"}
  MaxContinuations = 1
  NoTurn = NoTurn
SYMMETRY Symmetry
INVARIANTS
  TypeOK
  TurnExclusive
  QueuedMarkerOwned
  DeletingFlagOwned
CHECK_DEADLOCK FALSE
