SPECIFICATION Spec
CONSTANTS
  c1 = c1
  User = {u1, u2}
  Course = {c1}
  Rollcall = {r1}
  course_of <- CourseOf
  takes <- Takes
  Nobody = Nobody
  MaxTicks = 1
  MaxUpsets = 0
INVARIANT OwnScoutIsSigned
CHECK_DEADLOCK FALSE
