----------------------------- MODULE MCTimeSign -----------------------------
(***************************************************************************)
(* Bounded instances of TimeSign: two class mates, one course, one roll    *)
(* call.                                                                   *)
(***************************************************************************)
EXTENDS TimeSign, TLC

CONSTANT c1

CourseOf == [r \in Rollcall |-> c1]
Takes == [u \in User |-> {c1}]

\* The class mates are interchangeable.
Classmates == Permutations(User)
=============================================================================
