---------------------------- MODULE CourseIndex ----------------------------
(***************************************************************************)
(* The index of who takes which course                                     *)
(* (src/logic/rollcall/course_index.rs, CourseIndexInner): by_course gives *)
(* the users of a course, by_qq the courses of a user.  Both are           *)
(* concurrent maps, and set_user and remove_user change them row by row:   *)
(* the tasks spawn_upsert and spawn_remove start run side by side on one   *)
(* index, so their steps interleave.  This module has one action per       *)
(* access to a map.                                                        *)
(***************************************************************************)
EXTENDS Integers, FiniteSets

CONSTANTS User,
          Course,    \* course ids
          Task,      \* tasks that update the index
          MaxOps     \* bound: updates begun

ASSUME CourseIndexAssumption ==
  /\ Course \subseteq Nat
  /\ MaxOps \in Nat

VARIABLES rows,       \* courses that have a row in by_course
          by_course,  \* how often a user is listed in the row of a course
          qq_rows,    \* users that have a row in by_qq
          by_qq,      \* the courses of a user
          by_code,    \* courses whose class code is known
          task,       \* per task: the update it is in
          ops         \* updates begun

\* History.
VARIABLES overlapped, \* users that two tasks once updated at the same time
          torn        \* <<user, course>> pairs that vanished with a whole row

vars == <<rows, by_course, qq_rows, by_qq, by_code, task, ops, overlapped, torn>>

Idle == [pc |-> "idle"]

\* old: courses still to detach from; new: courses still to enter;
\* courses: the argument of set_user, empty in remove_user.
Update == [fn : {"set_user", "remove_user"}, pc : {"begin", "detach", "drop", "enter"},
           qq : User, old : SUBSET Course, new : SUBSET Course, courses : SUBSET Course]

Active == {t \in Task : task[t] # Idle}

\* Courses are handled in the order of their ids.
First(cs) == CHOOSE c \in cs : \A d \in cs : c <= d

Init ==
  /\ rows = {}
  /\ by_course = [c \in Course |-> [u \in User |-> 0]]
  /\ qq_rows = {}
  /\ by_qq = [u \in User |-> {}]
  /\ by_code = {}
  /\ task = [t \in Task |-> Idle]
  /\ ops = 0
  /\ overlapped = {}
  /\ torn = {}

-----------------------------------------------------------------------------
\* Faulty variants of actions below; no specification uses them.  Each is a
\* bug that a property of this module must catch.

\* detach leaves the user's last course alone.
TakeOld_AllButLast(t) ==
  /\ task[t].pc = "begin"
  /\ LET u == task[t].qq IN
     /\ task' = [task EXCEPT ![t].pc = "detach",
                             ![t].old = {c \in by_qq[u] : \E d \in by_qq[u] : c < d}]
     /\ by_qq' = [by_qq EXCEPT ![u] = {}]
     /\ qq_rows' = qq_rows \ {u}
  /\ UNCHANGED <<rows, by_course, by_code, ops, overlapped, torn>>

\* The row of a course stays when its last user goes.
Retain_KeepsEmpty(t) ==
  /\ task[t].pc = "detach"
  /\ task[t].old # {}
  /\ LET c == First(task[t].old) IN
     /\ by_course' = [by_course EXCEPT ![c][task[t].qq] = 0]
     /\ task' = [task EXCEPT ![t].old = @ \ {c}]
  /\ UNCHANGED <<rows, qq_rows, by_qq, by_code, ops, overlapped, torn>>

\* A course is entered with the index of its successor.
Enter_NextRow(t) ==
  /\ task[t].pc = "enter"
  /\ task[t].new # {}
  /\ LET c == First(task[t].new) IN
     /\ rows' = rows \cup {c + 1}
     /\ by_course' = [by_course EXCEPT ![c][task[t].qq] = @ + 1]
     /\ task' = [task EXCEPT ![t].new = @ \ {c}]
  /\ UNCHANGED <<qq_rows, by_qq, by_code, ops, overlapped, torn>>

-----------------------------------------------------------------------------
\* set_user(qq, courses) is called, courses sorted and without duplicates, or
\* remove_user(qq).
Call(t, fn, u, courses) ==
  /\ task[t] = Idle
  /\ ops < MaxOps
  /\ ops' = ops + 1
  /\ task' = [task EXCEPT ![t] = [fn |-> fn, pc |-> "begin", qq |-> u,
                                  old |-> {}, new |-> courses, courses |-> courses]]
  /\ overlapped' = IF \E s \in Active : task[s].qq = u
                     THEN overlapped \cup {u} ELSE overlapped
  /\ UNCHANGED <<rows, by_course, qq_rows, by_qq, by_code, torn>>

\* detach: the user's row of by_qq is taken out.
TakeOld(t) ==
  /\ task[t].pc = "begin"
  /\ LET u == task[t].qq IN
     /\ task' = [task EXCEPT ![t].pc = "detach", ![t].old = by_qq[u]]
     /\ by_qq' = [by_qq EXCEPT ![u] = {}]
     /\ qq_rows' = qq_rows \ {u}
  /\ UNCHANGED <<rows, by_course, by_code, ops, overlapped, torn>>

\* detach, for one course: the user is taken out of its row, under the lock
\* of the row; if that leaves the row empty it is to be dropped.
Retain(t) ==
  /\ task[t].pc = "detach"
  /\ task[t].old # {}
  /\ LET c == First(task[t].old)
         others == {v \in User \ {task[t].qq} : by_course[c][v] > 0}
     IN IF c \in rows /\ others = {}
          THEN /\ by_course' = [by_course EXCEPT ![c][task[t].qq] = 0]
               /\ task' = [task EXCEPT ![t].pc = "drop"]
          ELSE /\ by_course' = [by_course EXCEPT ![c][task[t].qq] = 0]
               /\ task' = [task EXCEPT ![t].old = @ \ {c}]
  /\ UNCHANGED <<rows, qq_rows, by_qq, by_code, ops, overlapped, torn>>

\* detach: the row found empty is removed, with whatever is in it by now.
Drop(t) ==
  /\ task[t].pc = "drop"
  /\ LET c == First(task[t].old) IN
     /\ rows' = rows \ {c}
     /\ by_course' = [by_course EXCEPT ![c] = [u \in User |-> 0]]
     /\ torn' = torn \cup {<<u, c>> : u \in {v \in User : by_course[c][v] > 0}}
     /\ task' = [task EXCEPT ![t].pc = "detach", ![t].old = @ \ {c}]
  /\ UNCHANGED <<qq_rows, by_qq, by_code, ops, overlapped>>

\* detach returns: remove_user is done, set_user goes on to enter.
Detached(t) ==
  /\ task[t].pc = "detach"
  /\ task[t].old = {}
  /\ task' = [task EXCEPT ![t] = IF @.fn = "remove_user"
                                    THEN Idle ELSE [@ EXCEPT !.pc = "enter"]]
  /\ UNCHANGED <<rows, by_course, qq_rows, by_qq, by_code, ops, overlapped, torn>>

\* set_user, for one course: the user joins its row, made if need be, and
\* the class code of the course is noted.
Enter(t) ==
  /\ task[t].pc = "enter"
  /\ task[t].new # {}
  /\ LET c == First(task[t].new) IN
     /\ rows' = rows \cup {c}
     /\ by_course' = [by_course EXCEPT ![c][task[t].qq] = @ + 1]
     /\ by_code' = by_code \cup {c}
     /\ torn' = torn \ {<<task[t].qq, c>>}
     /\ task' = [task EXCEPT ![t].new = @ \ {c}]
  /\ UNCHANGED <<qq_rows, by_qq, ops, overlapped>>

\* set_user, last: the user's row of by_qq.
Finish(t) ==
  /\ task[t].pc = "enter"
  /\ task[t].new = {}
  /\ by_qq' = [by_qq EXCEPT ![task[t].qq] = task[t].courses]
  /\ qq_rows' = qq_rows \cup {task[t].qq}
  /\ task' = [task EXCEPT ![t] = Idle]
  /\ UNCHANGED <<rows, by_course, by_code, ops, overlapped, torn>>

-----------------------------------------------------------------------------
Step(t) == \/ TakeOld(t)
           \/ Retain(t)
           \/ Drop(t)
           \/ Detached(t)
           \/ Enter(t)
           \/ Finish(t)

Next == \/ \E t \in Task, u \in User, cs \in SUBSET Course : Call(t, "set_user", u, cs)
        \/ \E t \in Task, u \in User : Call(t, "remove_user", u, {})
        \/ \E t \in Active : Step(t)

Spec == Init /\ [][Next]_vars

-----------------------------------------------------------------------------
TypeOK ==
  /\ rows \subseteq Course
  /\ by_course \in [Course -> [User -> Nat]]
  /\ qq_rows \subseteq User
  /\ by_qq \in [User -> SUBSET Course]
  /\ by_code \subseteq Course
  /\ task \in [Task -> Update \cup {Idle}]
  /\ ops \in 0..MaxOps
  /\ overlapped \subseteq User
  /\ torn \subseteq User \X Course

(***************************************************************************)
(* How far the two tables can drift apart, exactly.  For a user whose      *)
(* updates never ran side by side and who is not being updated: the user   *)
(* is listed once under every course of his and under no other, except     *)
(* where another user's detach removed a whole row this user had joined    *)
(* after the row was found empty.                                          *)
(* (detach: the emptiness is tested under the row's lock, the row removed  *)
(* after it is released)                                                   *)
(***************************************************************************)
DriftIsTorn ==
  \A u \in User \ overlapped, c \in Course :
    (\A t \in Active : task[t].qq # u)
      => by_course[c][u] = IF c \in by_qq[u] /\ <<u, c>> \notin torn THEN 1 ELSE 0

(***************************************************************************)
(* course_count counts real courses: a row nobody is listed in belongs to  *)
(* a task that is about to remove it.  (detach)                            *)
(***************************************************************************)
NoEmptyRow ==
  \A c \in rows :
    (\A u \in User : by_course[c][u] = 0)
      => \E t \in Active : task[t].pc = "drop" /\ First(task[t].old) = c

(***************************************************************************)
(* What the comment on CourseIndexInner says of the two tables: "always    *)
(* changed together, kept consistent" (course_index.rs).  Read when no     *)
(* update is in progress.                                                  *)
(***************************************************************************)
TablesAgree ==
  Active = {} => \A u \in User, c \in Course : (by_course[c][u] > 0) = (c \in by_qq[u])
=============================================================================
