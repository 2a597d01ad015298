SPECIFICATION ServerSpec
CONSTANTS
  i1 = i1
  i2 = i2
  i3 = i3
  u1 = u1
  u2 = u2
  q1 = q1
  Instances = {i1, i2}
  Migrations = 1
  None = None
  NoPid = NoPid
  PidReuse = TRUE
  Plain = {}
  Secrets = {key}
  region = region
  key = key
  Saves = {u1, u2}
  Reads = {q1}
  Absent = Absent
  Empty = Empty
  t1 = t1
  t2 = t2
  Texts = {t1, t2}
CHECK_DEADLOCK FALSE
SYMMETRY Symmetry
INVARIANTS
  ServerIInv
  OneAnswers
  ReadIsLastSave
