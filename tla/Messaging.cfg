SPECIFICATION MCSpec
CONSTANTS
  owner = owner
  manager = manager
  ada = ada
  bob = bob
  sam = sam
  sue = sue
  far = far
  null = null
  t1 = t1
  p1 = p1
  p2 = p2
  q1 = q1
  q2 = q2
  r1 = r1
  b1 = b1
  Users = {owner, manager, ada, bob, sam, sue, far}
  RoleOf <- MCRoleOf
  OrgOf <- MCOrgOf
  None = null
  Tasks = {t1}
  Patches = {p1, p2}
  Sends = {q1, q2}
  Marks = {r1}
  Broadcasts = {b1}
SYMMETRY Interchangeable
INVARIANTS
  StaysInOrganization
  TellsTheReaders
  UnreadCanBeOpened
  RecordOfReach
PROPERTIES
  CompletionTold
  ImplementsCorrespondence
CHECK_DEADLOCK FALSE
