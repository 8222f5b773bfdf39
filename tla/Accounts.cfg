SPECIFICATION Spec
CONSTANTS
  u1 = u1
  f1 = f1
  f2 = f2
  r1 = r1
  r2 = r2
  r3 = r3
  i1 = i1
  i2 = i2
  g1 = g1
  g2 = g2
  o1 = o1
  e1 = e1
  e2 = e2
  e3 = e3
  null = null
  None = null
  SnapshotIsolation = TRUE
  Users = {u1}
  Forgots = {f1, f2}
  Redeems = {r1, r2}
  Invitations = {i1}
  Registers = {g1, g2}
  Signups = {o1}
  Emails = {e1, e2, e3}
  Taken = {e1}
SYMMETRY Interchangeable
INVARIANTS
  RedeemedOnce
  OneAccountPerInvitation
  OneAccountPerAddress
PROPERTIES
  ImplementsCredentials
CHECK_DEADLOCK FALSE
