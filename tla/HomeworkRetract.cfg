SPECIFICATION Spec
CONSTANTS
  w1 = w1
  w2 = w2
  w3 = w3
  k1 = k1
  e1 = e1
  v1 = v1
  v2 = v2
  p1 = p1
  p2 = p2
  p3 = p3
  d1 = d1
  d2 = d2
  a1 = a1
  s1 = s1
  s2 = s2
  teacher = teacher
  null = null
  same = same
  Same = same
  Teacher = teacher
  None = null
  Assignments = {a1}
  Keys = {k1}
  Students = {s1}
  Foreign = {}
  Submits = {w1}
  Edits = {}
  Reviews = {}
  Patches = {p1, p2}
  Changes <- CourseChanges
  Deletes = {}
  Limits = {}
SYMMETRY Interchangeable
INVARIANTS
  NoWorkOnDraft
CHECK_DEADLOCK FALSE
