SPECIFICATION MCSpec
CONSTANTS
  k1 = k1
  k2 = k2
  p1 = p1
  p2 = p2
  c1 = c1
  c2 = c2
  c3 = c3
  d1 = d1
  m1 = m1
  g1 = g1
  h1 = h1
  h2 = h2
  x1 = x1
  x2 = x2
  x3 = x3
  null = null
  None = null
  VideoKeys = {k1}
  FileKeys = {k2}
  Posts = {p1, p2}
  StaffComments = {c1, c2}
  StudentComments = {c3}
  Deletes = {d1}
  Moves = {m1}
  Categories = {g1}
  Holders = {h1, h2}
  Courses = {h1}
  Replaces = {x1, x2}
  Clears = {x3}
SYMMETRY Interchangeable
INVARIANTS
  OneRowPerUpload
  MissingMeansDeleted
  ShelvedFiles
  PictureStored
PROPERTIES
  ReviewedIsTold
  OnlyLateFeedbackLost
CHECK_DEADLOCK FALSE
