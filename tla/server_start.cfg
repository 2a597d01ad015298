SPECIFICATION ServerFairSpec
CONSTANTS
  i1 = i1
  i2 = i2
  i3 = i3
  u1 = u1
  u2 = u2
  q1 = q1
  Instances = {i1, i2, i3}
  Migrations = 3
  None = None
  NoPid = NoPid
  PidReuse = FALSE
  Plain = {region}
  Secrets = {key}
  region = region
  key = key
  Saves = {}
  Reads = {}
  Absent = Absent
  Empty = Empty
  t1 = t1
  t2 = t2
  Texts = {t1}
CHECK_DEADLOCK FALSE
INVARIANTS
  AppliedOnce
PROPERTIES
  NextServes
