SPECIFICATION Spec
CONSTANTS
  q1 = q1
  q2 = q2
  q3 = q3
  c1 = c1
  c2 = c2
  l1 = l1
  s1 = s1
  s2 = s2
  t1 = t1
  t2 = t2
  owner = owner
  null = null
  Requests = {q1}
  Cancels = {}
  Legacy = {}
  Students = {s1}
  Teachers = {t1, t2}
  Owner = owner
  Senders = {s1}
  None = null
  Starts = {0}
  Slot = 2
  LegacyDurations = {2}
  SnapshotIsolation = TRUE
INVARIANTS
  TeacherTold
CHECK_DEADLOCK FALSE
