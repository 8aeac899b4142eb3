\* Two turns, every event of the environment, both modes, one crash.
SPECIFICATION Spec
CONSTANTS
  r1 = r1
  r2 = r2
  u1 = u1
  u2 = u2
  a1 = a1
  Runs = {r1, r2}
  Users = {u1, u2}
  Policies <- MixedPolicies
  Memory = {"normal"}
  Events = {"db", "delete", "disconnect", "crash", "cancel", "tick", "timeout"}
  MaxRestarts = 1
  NoUser = NoUser
  NoRun = NoRun
  Maintenance = Maintenance
  Admins = {}
  Recovery = Recovery
SYMMETRY Symmetry
INVARIANTS
  TypeOK
  OneHome
  AtMostOnce
PROPERTIES
  TerminalIsFinal
