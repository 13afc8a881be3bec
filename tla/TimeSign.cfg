SPECIFICATION Spec
CONSTANTS
  c1 = c1
  User = {u1, u2}
  Course = {c1}
  Rollcall = {r1}
  course_of <- CourseOf
  takes <- Takes
  Nobody = Nobody
  MaxTicks = 2
  MaxUpsets = 1
SYMMETRY Classmates
INVARIANTS TypeOK MarkIsJust SettledIsLeftAlone NobodyIsMissed
PROPERTY DutyRotates
CHECK_DEADLOCK FALSE
