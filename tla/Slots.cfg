SPECIFICATION Spec
CONSTANTS
  t1 = t1
  t2 = t2
  owner = owner
  manager = manager
  s1 = s1
  null = null
  r1 = r1
  Users = {t1, t2, owner, manager, s1}
  RoleOf <- MCRoleOf
  OrgOf <- MCOrgOf
  TeacherOf <- MCTeacherOf
  None = null
  Requests = {r1}
  Zones <- MCZones
  Dates <- MCDates
  First = 0
  Last = 2
  Ranges <- MCRanges
  Nows <- MCNows
  Instants <- MCInstants
  Wanted <- MCWanted
  Legacy <- MCLegacy
  Day = 24
  SlotMinutes = 2
  WeekDays = 2
  MaxRows = 2
  MaxLessons = 1
INVARIANTS
  OffersOnlyFreeTime
  OffersAllFreeTime
  RangeAgreesWithDays
PROPERTIES
  BookedIntoOpenTime
CHECK_DEADLOCK FALSE
