SPECIFICATION MCSpec
CONSTANTS
  c1 = c1
  c2 = c2
  s1 = s1
  s2 = s2
  t1 = t1
  q1 = q1
  r1 = r1
  r2 = r2
  d1 = d1
  d2 = d2
  d3 = d3
  null = null
  None = null
  Connections = {c1, c2}
  Requests = {s1, s2, t1, q1}
  KindOf <- MCKindOf
  Runners = {r1, r2}
  Defects = {d1, d2, d3}
  Script <- MCScript
INVARIANTS
  StuckOnlyInConfirms
  RecordedIsWhole
  NoneHalfDone
PROPERTIES
  EveryRequestServed
  OnlyBadDataStops
CHECK_DEADLOCK FALSE
