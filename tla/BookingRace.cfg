SPECIFICATION FairSpec
CONSTANTS
  q1 = q1
  q2 = q2
  q3 = q3
  c1 = c1
  c2 = c2
  l1 = l1
  s1 = s1
  s2 = s2
  t1 = t1
  t2 = t2
  owner = owner
  null = null
  Requests = {q1, q2}
  Cancels = {c1}
  Legacy = {l1}
  Students = {s1}
  Teachers = {t1}
  Owner = owner
  Senders = {s1}
  None = null
  Starts = {0, 1, 2}
  Slot = 2
  LegacyDurations = {2, 4}
  SnapshotIsolation = FALSE
INVARIANTS
  NoDoubleBooking
  UniqueIndexNeverFires
PROPERTIES
  ImplementsCalendar
  EveryRequestAnswered
CHECK_DEADLOCK FALSE
