\* Three turns of up to three users while an administrator changes the limit.
SPECIFICATION Spec
CONSTANTS
  r1 = r1
  r2 = r2
  r3 = r3
  u1 = u1
  u2 = u2
  u3 = u3
  a1 = a1
  Runs = {r1, r2, r3}
  Users = {u1, u2, u3}
  Policies <- EnforcePolicies
  Memory = {"normal"}
  Events = {}
  MaxRestarts = 0
  NoUser = NoUser
  NoRun = NoRun
  Maintenance = Maintenance
  Admins = {a1}
  Recovery = Recovery
SYMMETRY Symmetry
INVARIANTS
  NoMissedDispatch
  WithinLargestLimit
