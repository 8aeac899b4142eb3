\* Two turns compete for one slot; writes succeed, the backend may crash.
SPECIFICATION FairSpecFixedUser
CONSTANTS
  r1 = r1
  r2 = r2
  u1 = u1
  u2 = u2
  a1 = a1
  Runs = {r1, r2}
  Users = {u1, u2}
  Policies <- OneSlot
  Memory = {"normal"}
  Events = {"crash", "cancel", "tick", "timeout", "route"}
  MaxRestarts = 1
  NoUser = NoUser
  NoRun = NoRun
  Maintenance = Maintenance
  Admins = {}
  Recovery = Recovery
INVARIANTS
  SlotOwned
  QueuedRowOwned
  NoReplayAfterTimeout
PROPERTIES
  EveryRunSettles
  ImplementsLedger
