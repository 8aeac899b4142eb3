\* Two turns and two cancels of an agent that may never end its turn.
SPECIFICATION FairSpec
CONSTANTS
  t1 = t1
  t2 = t2
  c1 = c1
  c2 = c2
  Turns = {t1, t2}
  Cancels = {c1, c2}
  Deletes = {}
  Events = {"cancelError", "retryable"}
  MaxContinuations = 1
  NoTurn = NoTurn
PROPERTIES
  CancelEndsTurn
CHECK_DEADLOCK FALSE
