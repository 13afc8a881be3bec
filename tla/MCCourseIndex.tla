--------------------------- MODULE MCCourseIndex ---------------------------
(***************************************************************************)
(* Bounded instance of CourseIndex: two users, two courses, two tasks.     *)
(***************************************************************************)
EXTENDS CourseIndex, TLC

\* Users may be exchanged, and so may tasks; courses have an order.
Symmetry == Permutations(User) \cup Permutations(Task)
=============================================================================
