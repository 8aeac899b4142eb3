CONSTANTS
  s1 = s1  s2 = s2  s3 = s3  r1 = r1  r2 = r2  r3 = r3  r4 = r4  r5 = r5
  Slots = {s1, s2, s3}
  Lead = s1
  Reqs = {r1, r2, r3, r4, r5}
  Scenarios <- UserMessages
  Admin = Admin
  MaxCopies = 2
  MaxOps = 4
  MaxRuns = 2
SPECIFICATION Spec
INVARIANT NoSilentRead
CHECK_DEADLOCK FALSE
