SPECIFICATION Spec
CONSTANTS
  q1 = q1
  q2 = q2
  q3 = q3
  c1 = c1
  c2 = c2
  l1 = l1
  s1 = s1
  s2 = s2
  t1 = t1
  t2 = t2
  owner = owner
  null = null
  Requests = {q1}
  Cancels = {c1, c2}
  Legacy = {l1}
  Students = {s1}
  Teachers = {t1, t2}
  Owner = owner
  Senders = {s1, owner}
  None = null
  Starts = {0, 2}
  Slot = 2
  LegacyDurations = {2}
  SnapshotIsolation = TRUE
SYMMETRY Interchangeable
INVARIANTS
  CancelledOnce
  OnlyOnATeachersCalendar
CHECK_DEADLOCK FALSE
