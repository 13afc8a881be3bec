---------------------------- MODULE SharedProofs ----------------------------
(***************************************************************************)
(* Theorems about what tasks and requests share (MCShared), for every set  *)
(* of users and tasks and every limit: first the course index              *)
(* (CourseIndex: types, how far its two tables may drift apart, and that   *)
(* no row stays empty), then part by part the cookies (ClientSession), the *)
(* pages of failed logins (FailedPages), the threads that read codes       *)
(* (QrDecoder) and the temporary files (TempFiles), and at the end, with   *)
(* the parts of AnswerProofs, that every step of PartsSpec keeps the       *)
(* invariants of all of them.                                              *)
(***************************************************************************)
EXTENDS AnswerProofs


-----------------------------------------------------------------------------
\* The course that is handled next is one of those left: ids are ordered.
LEMMA FirstIsOne ==
  ASSUME NEW cs \in SUBSET Course, cs # {}
  PROVE  First(cs) \in cs
<1> DEFINE R == {ss \in Nat \X Nat : ss[1] < ss[2]}
<1>1. IsWellFoundedOn(R, Nat)
  BY NatLessThanWellFounded DEF OpToRel
<1>2. cs \subseteq Nat
  BY CourseIndexAssumption
<1>3. \A c, d \in Nat : <<d, c>> \in R <=> d < c
  OBVIOUS
<1> HIDE DEF R
<1>4. PICK c \in cs : \A d \in cs : <<d, c>> \notin R
  BY Zenon, <1>1, <1>2, WFMin
<1>5. \A d \in cs : c \in Nat /\ d \in Nat /\ ~(d < c)
  BY Zenon, <1>2, <1>3, <1>4
<1>6. \A d \in cs : c <= d
  BY <1>5
<1> QED BY <1>6 DEF First

\* A task is idle or in an update, and never both.
LEMMA UpdateOrIdle ==
  ASSUME TypeOK, NEW t \in Task
  PROVE  /\ task[t] = Idle <=> task[t] \notin Update
         /\ task[t] = Idle <=> task[t].pc = "idle"
BY DEF TypeOK, Update, Idle

-----------------------------------------------------------------------------
(* A row is dropped by a task that has the row's course still to detach    *)
(* from.                                                                   *)
DropsOne == \A t \in Active : task[t].pc = "drop" => task[t].old # {}

TInv == TypeOK /\ DropsOne

\* What every step of a task is about: the update it is in.
LEMMA StepTask ==
  ASSUME TInv, NEW t \in Active
  PROVE  /\ t \in Task /\ task[t] \in Update /\ task \in [Task -> Update \cup {Idle}]
         /\ task[t].qq \in User /\ task[t].old \subseteq Course
         /\ task[t].new \subseteq Course /\ task[t].courses \subseteq Course
         /\ task[t].old # {} => First(task[t].old) \in task[t].old
         /\ task[t].new # {} => First(task[t].new) \in task[t].new
<1>1. t \in Task /\ task[t] \in Update /\ task \in [Task -> Update \cup {Idle}]
  BY UpdateOrIdle DEF Active, TInv, TypeOK
<1>2. /\ task[t].qq \in User /\ task[t].old \subseteq Course
      /\ task[t].new \subseteq Course /\ task[t].courses \subseteq Course
  BY <1>1 DEF Update
<1> QED BY <1>1, <1>2, FirstIsOne

\* What the task of a step is afterwards.
LEMMA CallTask ==
  ASSUME TInv, NEW t \in Task, NEW u \in User, NEW cs \in SUBSET Course,
         NEW fn \in {"set_user", "remove_user"}, Call(t, fn, u, cs)
  PROVE  /\ task'[t] \in Update /\ task'[t] # Idle /\ task[t] = Idle
         /\ task'[t].pc = "begin" /\ task'[t].qq = u
         /\ \A s \in Task \ {t} : task'[s] = task[s]
         /\ task' \in [Task -> Update \cup {Idle}]
BY DEF Call, TInv, TypeOK, Update, Idle

\* detach begins.
LEMMA TakeOldTask ==
  ASSUME TInv, NEW t \in Active, TakeOld(t)
  PROVE  /\ task'[t] \in Update /\ task'[t] # Idle
         /\ task[t].pc = "begin" /\ task'[t].pc = "detach" /\ task'[t].qq = task[t].qq
         /\ task'[t].old = by_qq[task[t].qq]
         /\ task'[t].new = task[t].new /\ task'[t].courses = task[t].courses
         /\ \A s \in Task \ {t} : task'[s] = task[s]
         /\ task' \in [Task -> Update \cup {Idle}]
<1>1. by_qq[task[t].qq] \subseteq Course
  BY StepTask DEF TInv, TypeOK
<1>2. [[task[t] EXCEPT !.pc = "detach"] EXCEPT !.old = by_qq[task[t].qq]] \in Update
  BY Zenon, <1>1, StepTask DEF Update
<1>3. task' = [task EXCEPT ![t] = [[task[t] EXCEPT !.pc = "detach"] EXCEPT !.old = by_qq[task[t].qq]]]
  BY Zenon, StepTask DEF TakeOld
<1>4. task[t].pc = "begin"
  BY DEF TakeOld
<1>5. /\ task'[t] \in Update /\ task'[t].pc = "detach" /\ task'[t].qq = task[t].qq
      /\ task'[t].old = by_qq[task[t].qq]
      /\ task'[t].new = task[t].new /\ task'[t].courses = task[t].courses
      /\ \A s \in Task \ {t} : task'[s] = task[s]
      /\ task' \in [Task -> Update \cup {Idle}]
  BY Zenon, <1>2, <1>3, StepTask DEF Update
<1>6. task'[t] # Idle
  BY <1>5 DEF Idle
<1> QED BY <1>4, <1>5, <1>6

\* detach, for one course.
LEMMA RetainTask ==
  ASSUME TInv, NEW t \in Active, Retain(t)
  PROVE  LET c == First(task[t].old) IN
         /\ task'[t] \in Update /\ task'[t] # Idle /\ task'[t].qq = task[t].qq
         /\ c \in task[t].old /\ c \in Course /\ task[t].pc = "detach"
         /\ \/ task'[t].pc = "drop" /\ task'[t].old = task[t].old
            \/ task'[t].pc = "detach" /\ task'[t].old = task[t].old \ {c}
         /\ task'[t].new = task[t].new /\ task'[t].courses = task[t].courses
         /\ \A s \in Task \ {t} : task'[s] = task[s]
         /\ task' \in [Task -> Update \cup {Idle}]
<1> DEFINE c == First(task[t].old)
<1>1. c \in task[t].old /\ c \in Course /\ task[t].pc = "detach"
  BY StepTask DEF Retain
<1>2. [task[t] EXCEPT !.pc = "drop"] \in Update /\ [task[t] EXCEPT !.old = @ \ {c}] \in Update
  BY StepTask DEF Update
<1>3. \/ task' = [task EXCEPT ![t] = [task[t] EXCEPT !.pc = "drop"]]
      \/ task' = [task EXCEPT ![t] = [task[t] EXCEPT !.old = @ \ {c}]]
  BY StepTask DEF Retain
<1> HIDE DEF c
<1>4. /\ task'[t] \in Update /\ task'[t].qq = task[t].qq
      /\ \/ task'[t].pc = "drop" /\ task'[t].old = task[t].old
         \/ task'[t].pc = "detach" /\ task'[t].old = task[t].old \ {c}
      /\ task'[t].new = task[t].new /\ task'[t].courses = task[t].courses
      /\ \A s \in Task \ {t} : task'[s] = task[s]
      /\ task' \in [Task -> Update \cup {Idle}]
  BY <1>1, <1>2, <1>3, StepTask DEF Update
<1>5. task'[t] # Idle
  BY <1>4 DEF Idle
<1> QED BY <1>1, <1>4, <1>5 DEF c

\* detach, when a row is removed.
LEMMA DropTask ==
  ASSUME TInv, NEW t \in Active, Drop(t)
  PROVE  LET c == First(task[t].old) IN
         /\ task'[t] \in Update /\ task'[t] # Idle /\ task'[t].qq = task[t].qq
         /\ c \in task[t].old /\ c \in Course /\ task[t].pc = "drop"
         /\ task'[t].pc = "detach" /\ task'[t].old = task[t].old \ {c}
         /\ task'[t].new = task[t].new /\ task'[t].courses = task[t].courses
         /\ \A s \in Task \ {t} : task'[s] = task[s]
         /\ task' \in [Task -> Update \cup {Idle}]
<1> DEFINE c == First(task[t].old)
<1>1. c \in task[t].old /\ c \in Course /\ task[t].pc = "drop"
  BY StepTask DEF Drop, TInv, DropsOne
<1>2. [[task[t] EXCEPT !.pc = "detach"] EXCEPT !.old = task[t].old \ {c}] \in Update
  BY Zenon, StepTask DEF Update
<1>3. task' = [task EXCEPT ![t] = [[task[t] EXCEPT !.pc = "detach"] EXCEPT !.old = task[t].old \ {c}]]
  BY Zenon, StepTask DEF Drop
<1> HIDE DEF c
<1>4. /\ task'[t] \in Update /\ task'[t].qq = task[t].qq
      /\ task'[t].pc = "detach" /\ task'[t].old = task[t].old \ {c}
      /\ task'[t].new = task[t].new /\ task'[t].courses = task[t].courses
      /\ \A s \in Task \ {t} : task'[s] = task[s]
      /\ task' \in [Task -> Update \cup {Idle}]
  BY Zenon, <1>2, <1>3, StepTask DEF Update
<1>5. task'[t] # Idle
  BY <1>4 DEF Idle
<1> QED BY <1>1, <1>4, <1>5 DEF c

\* detach returns.
LEMMA DetachedTask ==
  ASSUME TInv, NEW t \in Active, Detached(t)
  PROVE  /\ task[t].pc = "detach" /\ task[t].old = {}
         /\ \/ task'[t] = Idle
            \/ /\ task'[t] \in Update /\ task'[t] # Idle /\ task'[t].qq = task[t].qq
               /\ task'[t].pc = "enter" /\ task'[t].new = task[t].new
               /\ task'[t].courses = task[t].courses
         /\ \A s \in Task \ {t} : task'[s] = task[s]
         /\ task' \in [Task -> Update \cup {Idle}]
<1>1. [task[t] EXCEPT !.pc = "enter"] \in Update
  BY StepTask DEF Update
<1>2. \/ task' = [task EXCEPT ![t] = Idle]
      \/ task' = [task EXCEPT ![t] = [task[t] EXCEPT !.pc = "enter"]]
  BY Zenon, StepTask DEF Detached
<1> QED BY <1>1, <1>2, StepTask DEF Update, Idle, Detached

\* set_user, for one course.
LEMMA EnterTask ==
  ASSUME TInv, NEW t \in Active, Enter(t)
  PROVE  LET c == First(task[t].new) IN
         /\ task'[t] \in Update /\ task'[t] # Idle /\ task'[t].qq = task[t].qq
         /\ c \in task[t].new /\ c \in Course /\ task[t].pc = "enter"
         /\ task'[t].pc = "enter" /\ task'[t].new = task[t].new \ {c}
         /\ task'[t].courses = task[t].courses
         /\ \A s \in Task \ {t} : task'[s] = task[s]
         /\ task' \in [Task -> Update \cup {Idle}]
<1> DEFINE c == First(task[t].new)
<1>1. c \in task[t].new /\ c \in Course /\ task[t].pc = "enter"
  BY StepTask DEF Enter
<1>2. [task[t] EXCEPT !.new = @ \ {c}] \in Update
  BY StepTask DEF Update
<1>3. task' = [task EXCEPT ![t] = [task[t] EXCEPT !.new = @ \ {c}]]
  BY StepTask DEF Enter
<1> HIDE DEF c
<1>4. /\ task'[t] \in Update /\ task'[t].qq = task[t].qq
      /\ task'[t].pc = "enter" /\ task'[t].new = task[t].new \ {c}
      /\ task'[t].courses = task[t].courses
      /\ \A s \in Task \ {t} : task'[s] = task[s]
      /\ task' \in [Task -> Update \cup {Idle}]
  BY <1>1, <1>2, <1>3, StepTask DEF Update
<1>5. task'[t] # Idle
  BY <1>4 DEF Idle
<1> QED BY <1>1, <1>4, <1>5 DEF c

\* set_user returns.
LEMMA FinishTask ==
  ASSUME TInv, NEW t \in Active, Finish(t)
  PROVE  /\ task[t].pc = "enter" /\ task[t].new = {} /\ task'[t] = Idle
         /\ \A s \in Task \ {t} : task'[s] = task[s]
         /\ task' \in [Task -> Update \cup {Idle}]
BY StepTask DEF Finish

-----------------------------------------------------------------------------
\* The variables keep their types.
LEMMA TypeInductive == TInv /\ [Next]_vars => TInv'
<1> SUFFICES ASSUME TInv, [Next]_vars PROVE TInv'
  OBVIOUS
<1> USE DEF TInv
<1>1. ASSUME NEW t \in Task, NEW u \in User, NEW cs \in SUBSET Course,
             NEW fn \in {"set_user", "remove_user"}, Call(t, fn, u, cs)
      PROVE  TInv'
  <2>1. ops' \in 0..MaxOps /\ overlapped' \subseteq User
    BY <1>1, CourseIndexAssumption DEF Call, TypeOK
  <2>2. task' \in [Task -> Update \cup {Idle}]
    BY <1>1, CallTask
  <2>3. DropsOne'
    BY <1>1, CallTask DEF DropsOne, Active
  <2> QED BY <1>1, <2>1, <2>2, <2>3 DEF Call, TypeOK
<1>2. ASSUME NEW t \in Active, TakeOld(t)
      PROVE  TInv'
  <2>1. task' \in [Task -> Update \cup {Idle}]
    BY <1>2, TakeOldTask
  <2>2. by_qq' \in [User -> SUBSET Course]
    BY <1>2, StepTask DEF TakeOld, TypeOK
  <2>3. DropsOne'
    BY <1>2, TakeOldTask DEF DropsOne, Active
  <2> QED BY <1>2, <2>1, <2>2, <2>3 DEF TakeOld, TypeOK
<1>3. ASSUME NEW t \in Active, Retain(t)
      PROVE  TInv'
  <2>1. task' \in [Task -> Update \cup {Idle}]
    BY <1>3, RetainTask
  <2>2. by_course' = [by_course EXCEPT ![First(task[t].old)] =
                        [by_course[First(task[t].old)] EXCEPT ![task[t].qq] = 0]]
    BY <1>3 DEF Retain
  <2>3. by_course[First(task[t].old)] \in [User -> Nat]
    BY <1>3, RetainTask DEF TypeOK
  <2>4. by_course' \in [Course -> [User -> Nat]]
    BY Zenon, <2>2, <2>3 DEF TypeOK
  <2>5. DropsOne'
    BY <1>3, RetainTask DEF DropsOne, Active
  <2> QED BY <1>3, <2>1, <2>4, <2>5 DEF Retain, TypeOK
<1>4. ASSUME NEW t \in Active, Drop(t)
      PROVE  TInv'
  <2>1. task' \in [Task -> Update \cup {Idle}] /\ First(task[t].old) \in Course
    BY <1>4, DropTask
  <2>2. by_course' \in [Course -> [User -> Nat]]
    BY Zenon, <1>4 DEF Drop, TypeOK
  <2>3. torn' \subseteq User \X Course
    BY <1>4, <2>1 DEF Drop, TypeOK
  <2>4. DropsOne'
    BY <1>4, DropTask DEF DropsOne, Active
  <2> QED BY <1>4, <2>1, <2>2, <2>3, <2>4 DEF Drop, TypeOK
<1>5. ASSUME NEW t \in Active, Detached(t)
      PROVE  TInv'
  <2>1. task' \in [Task -> Update \cup {Idle}]
    BY <1>5, DetachedTask
  <2>2. DropsOne'
    BY <1>5, DetachedTask DEF DropsOne, Active
  <2> QED BY <1>5, <2>1, <2>2 DEF Detached, TypeOK
<1>6. ASSUME NEW t \in Active, Enter(t)
      PROVE  TInv'
  <2>1. task' \in [Task -> Update \cup {Idle}] /\ First(task[t].new) \in Course
    BY <1>6, EnterTask
  <2>2. by_course' = [by_course EXCEPT ![First(task[t].new)] =
                        [by_course[First(task[t].new)] EXCEPT ![task[t].qq] = @ + 1]]
    BY <1>6 DEF Enter
  <2>3. by_course[First(task[t].new)] \in [User -> Nat]
    BY <2>1 DEF TypeOK
  <2>4. by_course' \in [Course -> [User -> Nat]]
    <3>1. [by_course[First(task[t].new)] EXCEPT ![task[t].qq] = @ + 1] \in [User -> Nat]
      BY <2>3, StepTask
    <3> QED BY Zenon, <2>2, <3>1 DEF TypeOK
  <2>5. DropsOne'
    BY <1>6, EnterTask DEF DropsOne, Active
  <2> QED BY <1>6, <2>1, <2>4, <2>5 DEF Enter, TypeOK
<1>7. ASSUME NEW t \in Active, Finish(t)
      PROVE  TInv'
  <2>1. task' \in [Task -> Update \cup {Idle}]
    BY <1>7, FinishTask
  <2>2. by_qq' \in [User -> SUBSET Course] /\ qq_rows' \subseteq User
    BY <1>7, StepTask DEF Finish, TypeOK
  <2>3. DropsOne'
    BY <1>7, FinishTask DEF DropsOne, Active
  <2> QED BY <1>7, <2>1, <2>2, <2>3 DEF Finish, TypeOK
<1>8. CASE UNCHANGED vars
  BY <1>8 DEF vars, TypeOK, DropsOne, Active
<1> QED
  BY <1>1, <1>2, <1>3, <1>4, <1>5, <1>6, <1>7, <1>8 DEF Next, Step
\* The types hold at the start.
LEMMA InitTypes == Init => TInv
<1> SUFFICES ASSUME Init PROVE TInv
  OBVIOUS
<1>1. by_course \in [Course -> [User -> Nat]]
  BY DEF Init
<1>2. by_qq \in [User -> SUBSET Course] /\ task \in [Task -> Update \cup {Idle}]
  BY DEF Init
<1>3. ops \in 0..MaxOps
  BY CourseIndexAssumption DEF Init
<1>4. DropsOne
  BY DEF Init, DropsOne, Active
<1> QED BY <1>1, <1>2, <1>3, <1>4 DEF Init, TInv, TypeOK

\* So they hold in every reachable state, with what they need of a task.
LEMMA TypeInvariance == Spec => []TInv
<1>1. Init => TInv
  BY InitTypes
<1>2. TInv /\ [Next]_vars => TInv'
  BY TypeInductive
<1> QED BY <1>1, <1>2, PTL DEF Spec

(* Every variable keeps its type, in every behaviour.                      *)
THEOREM TypeCorrect == Spec => []TypeOK
<1>1. TInv => TypeOK
  BY DEF TInv
<1> QED BY <1>1, TypeInvariance, PTL

-----------------------------------------------------------------------------
\* A row without users is one that a task is about to drop, after every step:
\* a task that empties a row keeps it in mind, and one that makes a row enters
\* its user at once.
LEMMA NextNoEmptyRow == TInv /\ NoEmptyRow /\ [Next]_vars => NoEmptyRow'
<1> DEFINE Empty(c) == \A u \in User : by_course[c][u] = 0
           Dropped(c) == \E t \in Active : task[t].pc = "drop" /\ First(task[t].old) = c
<1> SUFFICES ASSUME TInv, NoEmptyRow, [Next]_vars, NEW c \in rows', Empty(c)'
             PROVE  Dropped(c)'
  BY DEF NoEmptyRow
<1>0. c \in rows /\ Empty(c) => Dropped(c)
  BY DEF NoEmptyRow
<1>1. ASSUME NEW t \in Task, NEW u \in User, NEW cs \in SUBSET Course,
             NEW fn \in {"set_user", "remove_user"}, Call(t, fn, u, cs)
      PROVE  Dropped(c)'
  <2>1. c \in rows /\ Empty(c)
    BY <1>1 DEF Call
  <2> QED BY <1>0, <1>1, <2>1, CallTask DEF Active
<1>2. ASSUME NEW t \in Active, TakeOld(t)
      PROVE  Dropped(c)'
  <2>1. c \in rows /\ Empty(c) /\ task[t].pc = "begin"
    BY <1>2 DEF TakeOld
  <2> QED BY <1>0, <1>2, <2>1, TakeOldTask DEF Active
<1>3. ASSUME NEW t \in Active, Retain(t)
      PROVE  Dropped(c)'
  <2> DEFINE d == First(task[t].old)
             others == {v \in User \ {task[t].qq} : by_course[d][v] > 0}
  <2>1. c \in rows /\ d \in Course /\ task[t].pc = "detach"
    BY <1>3, RetainTask DEF Retain
  <2>2. by_course' = [by_course EXCEPT ![d] = [by_course[d] EXCEPT ![task[t].qq] = 0]]
    BY <1>3 DEF Retain
  <2>3. CASE c # d
    <3>1. by_course'[c] = by_course[c]
      BY <2>2, <2>3
    <3>2. Empty(c)
      BY <3>1
    <3> QED BY <1>0, <1>3, <2>1, <3>2, RetainTask DEF Active
  <2>4. CASE c = d
    <3>1. \A v \in User \ {task[t].qq} : by_course'[d][v] = by_course[d][v] /\ by_course[d][v] \in Nat
      BY <2>1, <2>2 DEF TInv, TypeOK
    <3>2. others = {}
      BY <2>4, <3>1
    <3>3. task' = [task EXCEPT ![t].pc = "drop"]
      BY <1>3, <2>1, <2>4, <3>2 DEF Retain
    <3>4. task'[t].pc = "drop" /\ task'[t].old = task[t].old /\ t \in Active'
      BY <1>3, <3>3, StepTask, RetainTask DEF Active, Update
    <3> QED BY <2>4, <3>4
  <2> QED BY <2>3, <2>4
<1>4. ASSUME NEW t \in Active, Drop(t)
      PROVE  Dropped(c)'
  <2> DEFINE d == First(task[t].old)
  <2>1. c \in rows /\ c # d
    BY <1>4 DEF Drop
  <2>2. by_course'[c] = by_course[c]
    BY <1>4, <2>1 DEF Drop, TInv, TypeOK
  <2>3. Empty(c)
    BY <2>2
  <2>4. PICK s \in Active : task[s].pc = "drop" /\ First(task[s].old) = c
    BY <1>0, <2>1, <2>3
  <2>5. s # t /\ task'[s] = task[s] /\ s \in Active'
    BY <1>4, <2>1, <2>4, DropTask DEF Active
  <2> QED BY <2>4, <2>5
<1>5. ASSUME NEW t \in Active, Detached(t)
      PROVE  Dropped(c)'
  <2>1. c \in rows /\ Empty(c) /\ task[t].pc = "detach"
    BY <1>5 DEF Detached
  <2> QED BY <1>0, <1>5, <2>1, DetachedTask DEF Active
<1>6. ASSUME NEW t \in Active, Enter(t)
      PROVE  Dropped(c)'
  <2> DEFINE d == First(task[t].new)
             u == task[t].qq
  <2>1. d \in Course /\ u \in User /\ task[t].pc = "enter"
    BY <1>6, EnterTask, StepTask
  <2>2. by_course' = [by_course EXCEPT ![d] = [by_course[d] EXCEPT ![u] = @ + 1]]
    BY <1>6 DEF Enter
  <2>3. by_course[d] \in [User -> Nat]
    BY <2>1 DEF TInv, TypeOK
  <2>4. c # d
    <3>1. by_course'[d][u] = by_course[d][u] + 1 /\ by_course[d][u] \in Nat
      BY <2>1, <2>2, <2>3 DEF TInv, TypeOK
    <3> QED BY <2>1, <3>1
  <2>5. c \in rows /\ by_course'[c] = by_course[c]
    BY <1>6, <2>2, <2>4 DEF Enter, TInv, TypeOK
  <2>6. Empty(c)
    BY <2>5
  <2> QED BY <1>0, <1>6, <2>1, <2>5, <2>6, EnterTask DEF Active
<1>7. ASSUME NEW t \in Active, Finish(t)
      PROVE  Dropped(c)'
  <2>1. c \in rows /\ Empty(c) /\ task[t].pc = "enter"
    BY <1>7 DEF Finish
  <2> QED BY <1>0, <1>7, <2>1, FinishTask DEF Active
<1>8. CASE UNCHANGED vars
  BY <1>0, <1>8 DEF vars, Active
<1> QED
  BY <1>1, <1>2, <1>3, <1>4, <1>5, <1>6, <1>7, <1>8 DEF Next, Step

(* No row stays empty: course_count counts real courses, and those a task  *)
(* is about to drop (detach).                                              *)
THEOREM NoRowStaysEmpty == Spec => []NoEmptyRow
<1>1. Init => NoEmptyRow
  BY DEF Init, NoEmptyRow
<1>2. TInv /\ NoEmptyRow /\ [Next]_vars => NoEmptyRow'
  BY NextNoEmptyRow
<1> QED BY <1>1, <1>2, TypeInvariance, PTL DEF Spec
-----------------------------------------------------------------------------
(* DriftIsTorn is about users nobody updates.  In an update the courses    *)
(* its user is listed under are, one after the other: those of by_qq,      *)
(* those still to detach from, and those entered so far.                   *)
ListedIn(r, c) ==
  \/ r.pc = "begin" /\ c \in by_qq[r.qq]
  \/ r.pc = "detach" /\ c \in r.old
  \/ r.pc = "drop" /\ c \in r.old /\ c # First(r.old)
  \/ r.pc = "enter" /\ c \in r.courses /\ c \notin r.new

RightUpdate(r) ==
  /\ r.new \subseteq r.courses
  /\ r.pc # "enter" => r.new = r.courses
  /\ r.pc # "begin" => by_qq[r.qq] = {}
  /\ \A c \in Course :
       by_course[c][r.qq] = IF ListedIn(r, c) /\ <<r.qq, c>> \notin torn THEN 1 ELSE 0

RightUser(u) ==
  \A c \in Course : by_course[c][u] = IF c \in by_qq[u] /\ <<u, c>> \notin torn THEN 1 ELSE 0

Alone(t) == \A s \in Active : task[s].qq = task[t].qq => s = t

UpdatesRight == \A t \in Active : task[t].qq \notin overlapped => Alone(t) /\ RightUpdate(task[t])

UsersRight ==
  \A u \in User \ overlapped : (\A t \in Active : task[t].qq # u) => RightUser(u)

DInv == TInv /\ UpdatesRight /\ UsersRight

\* A task's step leaves other users alone, but that it may drop a row they are in.
OthersLeft(w) ==
  /\ \A u \in User \ {w} : by_qq'[u] = by_qq[u]
  /\ \A u \in User \ {w}, c \in Course :
       \/ /\ by_course'[c][u] = by_course[c][u]
          /\ <<u, c>> \in torn' <=> <<u, c>> \in torn
       \/ /\ by_course'[c][u] = 0
          /\ <<u, c>> \in torn' <=> <<u, c>> \in torn \/ by_course[c][u] > 0

\* So the users it leaves alone stay right, in an update or not.
LEMMA OthersStayRight ==
  ASSUME DInv, NEW w \in User, OthersLeft(w), NEW u \in User \ {w}
  PROVE  /\ RightUser(u) => RightUser(u)'
         /\ \A r \in Update : r.qq = u /\ RightUpdate(r) => RightUpdate(r)'
<1>1. /\ by_qq'[u] = by_qq[u]
      /\ \A c \in Course :
           \/ /\ by_course'[c][u] = by_course[c][u]
              /\ <<u, c>> \in torn' <=> <<u, c>> \in torn
           \/ /\ by_course'[c][u] = 0
              /\ <<u, c>> \in torn' <=> <<u, c>> \in torn \/ by_course[c][u] > 0
  BY DEF OthersLeft
<1>2. RightUser(u) => RightUser(u)'
  BY <1>1 DEF RightUser
<1>3. ASSUME NEW r \in Update, r.qq = u, RightUpdate(r)
      PROVE  RightUpdate(r)'
  <2>1. \A c \in Course : ListedIn(r, c)' <=> ListedIn(r, c)
    BY <1>1, <1>3 DEF ListedIn
  <2>2. \A c \in Course :
          by_course'[c][u] = IF ListedIn(r, c)' /\ <<u, c>> \notin torn' THEN 1 ELSE 0
    <3> SUFFICES ASSUME NEW c \in Course
                 PROVE  by_course'[c][u] = IF ListedIn(r, c) /\ <<u, c>> \notin torn' THEN 1 ELSE 0
      BY <2>1
    <3>1. by_course[c][u] = IF ListedIn(r, c) /\ <<u, c>> \notin torn THEN 1 ELSE 0
      BY <1>3 DEF RightUpdate
    <3> QED BY <1>1, <3>1
  <2> QED BY <1>1, <1>3, <2>2 DEF RightUpdate
<1> QED BY <1>2, <1>3

\* A step of one task is right if it is right for the task's own user.
LEMMA StepRight ==
  ASSUME DInv, NEW t \in Active, NEW w \in User, w = task[t].qq,
         overlapped' = overlapped, OthersLeft(w),
         \A s \in Task \ {t} : task'[s] = task[s],
         task'[t] = Idle \/ (task'[t] \in Update /\ task'[t] # Idle /\ task'[t].qq = w),
         w \notin overlapped /\ Alone(t) /\ RightUpdate(task[t]) =>
           IF task'[t] = Idle THEN RightUser(w)' ELSE RightUpdate(task[t])'
  PROVE  UpdatesRight' /\ UsersRight'
<1>1. t \in Task /\ Active' \subseteq Active
  BY StepTask DEF DInv, Active
<1>2. \A s \in Active : task[s] \in Update /\ task[s].qq \in User /\ s \in Task
  BY StepTask DEF DInv
<1>3. \A s \in Active' : task'[s].qq = task[s].qq
  BY <1>1 DEF Active
<1>4. w \notin overlapped => Alone(t) /\ RightUpdate(task[t])
  BY DEF DInv, UpdatesRight
<1>5. UpdatesRight'
  <2> SUFFICES ASSUME NEW s \in Active', task'[s].qq \notin overlapped
               PROVE  Alone(s)' /\ RightUpdate(task[s])'
    BY DEF UpdatesRight
  <2>1. s \in Active /\ task[s].qq \notin overlapped
    BY <1>1, <1>3
  <2>2. Alone(s) /\ RightUpdate(task[s])
    BY <2>1 DEF DInv, UpdatesRight
  <2>3. Alone(s)'
    BY <1>1, <1>3, <2>2 DEF Alone
  <2>4. CASE s = t
    <3>1. RightUpdate(task[t])'
      BY <1>4, <2>1, <2>4 DEF Active
    <3> QED BY <2>3, <2>4, <3>1 DEF RightUpdate, ListedIn
  <2>5. CASE s # t
    <3>1. task[s].qq # w /\ task'[s] = task[s] /\ task[s] \in Update /\ task[s].qq \in User
      BY <1>2, <2>1, <2>2, <2>5 DEF Alone
    <3>2. \A r \in Update : r.qq = task[s].qq /\ RightUpdate(r) => RightUpdate(r)'
      BY <1>1, <3>1, OthersStayRight
    <3> DEFINE r == task[s]
    <3>3. r \in Update /\ RightUpdate(r) /\ r.qq = task[s].qq /\ task'[s] = r
      BY <2>2, <3>1
    <3> QED BY <2>3, <3>2, <3>3 DEF RightUpdate, ListedIn
  <2> QED BY <2>4, <2>5
<1>6. UsersRight'
  <2> SUFFICES ASSUME NEW u \in User \ overlapped, \A s \in Active' : task'[s].qq # u
               PROVE  RightUser(u)'
    BY DEF UsersRight
  <2>1. CASE u = w
    <3>1. task'[t] = Idle
      BY <1>1, <2>1 DEF Active
    <3>2. RightUser(w)'
      BY <1>4, <2>1, <3>1
    <3> QED BY <2>1, <3>2 DEF RightUser
  <2>2. CASE u # w
    <3>1. \A s \in Active : task[s].qq # u
      BY <1>2, <2>2 DEF Active
    <3>2. RightUser(u)
      BY <3>1 DEF DInv, UsersRight
    <3> QED BY <1>1, <2>2, <3>2, OthersStayRight
  <2> QED BY <2>1, <2>2
<1> QED BY <1>5, <1>6

\* Right users are told apart from torn ones: a task's own changes, action by action.
LEMMA OwnTakeOld ==
  ASSUME DInv, NEW t \in Active, NEW w \in User, w = task[t].qq, TakeOld(t)
  PROVE  OthersLeft(w) /\ (RightUpdate(task[t]) => RightUpdate(task[t])')
<1>1. TInv /\ w \in User /\ by_qq \in [User -> SUBSET Course]
  BY DEF DInv, TInv, TypeOK
<1>2. by_qq' = [by_qq EXCEPT ![w] = {}] /\ by_course' = by_course /\ torn' = torn
  BY DEF TakeOld
<1>3. OthersLeft(w)
  BY <1>1, <1>2 DEF OthersLeft
<1>4. ASSUME RightUpdate(task[t]) PROVE RightUpdate(task[t])'
  <2>1. /\ task[t].pc = "begin" /\ task'[t].pc = "detach" /\ task'[t].qq = w
        /\ task'[t].old = by_qq[w]
        /\ task'[t].new = task[t].new /\ task'[t].courses = task[t].courses
    BY <1>1, TakeOldTask
  <2>2. by_qq'[w] = {}
    BY <1>1, <1>2
  <2>3. \A c \in Course : ListedIn(task[t], c)' <=> ListedIn(task[t], c)
    BY <2>1 DEF ListedIn
  <2> QED BY <1>2, <1>4, <2>1, <2>2, <2>3 DEF RightUpdate
<1> QED BY <1>3, <1>4

\* Taking the user out of one row.
LEMMA OwnRetain ==
  ASSUME DInv, NEW t \in Active, NEW w \in User, w = task[t].qq, Retain(t)
  PROVE  OthersLeft(w) /\ (RightUpdate(task[t]) => RightUpdate(task[t])')
<1> DEFINE d == First(task[t].old)
<1>1. TInv /\ w \in User /\ by_course \in [Course -> [User -> Nat]]
  BY DEF DInv, TInv, TypeOK
<1>2. by_course' = [by_course EXCEPT ![d][w] = 0] /\ by_qq' = by_qq /\ torn' = torn
  BY DEF Retain
<1>3. /\ task'[t].qq = w /\ d \in task[t].old /\ d \in Course /\ task[t].pc = "detach"
      /\ \/ task'[t].pc = "drop" /\ task'[t].old = task[t].old
         \/ task'[t].pc = "detach" /\ task'[t].old = task[t].old \ {d}
      /\ task'[t].new = task[t].new /\ task'[t].courses = task[t].courses
  BY <1>1, RetainTask
<1>4. \A c \in Course, u \in User :
        by_course'[c][u] = IF c = d /\ u = w THEN 0 ELSE by_course[c][u]
  BY <1>1, <1>2, <1>3
<1>5. OthersLeft(w)
  BY <1>2, <1>4 DEF OthersLeft
<1>6. ASSUME RightUpdate(task[t]) PROVE RightUpdate(task[t])'
  <2>1. First(task'[t].old) = d \/ task'[t].pc = "detach"
    BY <1>3
  <2> HIDE DEF d
  <2>2. \A c \in Course : ListedIn(task[t], c)' <=> ListedIn(task[t], c) /\ c # d
    BY <1>3, <2>1 DEF ListedIn
  <2>3. \A c \in Course :
          by_course[c][w] = IF ListedIn(task[t], c) /\ <<w, c>> \notin torn THEN 1 ELSE 0
    BY <1>6 DEF RightUpdate
  <2>4. \A c \in Course :
          by_course'[c][w] = IF ListedIn(task[t], c)' /\ <<w, c>> \notin torn' THEN 1 ELSE 0
    BY <1>2, <1>4, <2>2, <2>3
  <2> QED BY <1>2, <1>3, <1>6, <2>4 DEF RightUpdate
<1> QED BY <1>5, <1>6

\* Removing a row.
LEMMA OwnDrop ==
  ASSUME DInv, NEW t \in Active, NEW w \in User, w = task[t].qq, Drop(t)
  PROVE  OthersLeft(w) /\ (RightUpdate(task[t]) => RightUpdate(task[t])')
<1> DEFINE d == First(task[t].old)
<1>1. TInv /\ w \in User /\ by_course \in [Course -> [User -> Nat]]
  BY DEF DInv, TInv, TypeOK
<1>2. /\ by_course' = [by_course EXCEPT ![d] = [u \in User |-> 0]] /\ by_qq' = by_qq
      /\ torn' = torn \cup {<<u, d>> : u \in {v \in User : by_course[d][v] > 0}}
  BY DEF Drop
<1>3. /\ task'[t].qq = w /\ d \in task[t].old /\ d \in Course /\ task[t].pc = "drop"
      /\ task'[t].pc = "detach" /\ task'[t].old = task[t].old \ {d}
      /\ task'[t].new = task[t].new /\ task'[t].courses = task[t].courses
  BY <1>1, DropTask
<1>4. \A c \in Course, u \in User :
        /\ by_course'[c][u] = IF c = d THEN 0 ELSE by_course[c][u]
        /\ <<u, c>> \in torn' <=> <<u, c>> \in torn \/ (c = d /\ by_course[c][u] > 0)
  BY <1>1, <1>2, <1>3
<1>5. OthersLeft(w)
  BY <1>2, <1>4 DEF OthersLeft
<1>6. ASSUME RightUpdate(task[t]) PROVE RightUpdate(task[t])'
  <2>1. \A c \in Course :
          by_course[c][w] = IF ListedIn(task[t], c) /\ <<w, c>> \notin torn THEN 1 ELSE 0
    BY <1>6 DEF RightUpdate
  <2>2. \A c \in Course : ListedIn(task[t], c) <=> c \in task[t].old /\ c # d
    BY <1>3 DEF ListedIn
  <2> HIDE DEF d
  <2>3. \A c \in Course : ListedIn(task[t], c)' <=> c \in task[t].old /\ c # d
    BY <1>3 DEF ListedIn
  <2>4. by_course[d][w] = 0
    BY Zenon, <1>3, <2>1, <2>2
  <2>5. \A c \in Course : <<w, c>> \in torn' <=> <<w, c>> \in torn
    BY <1>4, <2>4
  <2>6. \A c \in Course :
          by_course'[c][w] = IF ListedIn(task[t], c)' /\ <<w, c>> \notin torn' THEN 1 ELSE 0
    BY <1>4, <2>1, <2>2, <2>3, <2>5
  <2> QED BY <1>2, <1>3, <1>6, <2>6 DEF RightUpdate
<1> QED BY <1>5, <1>6

\* detach returns.
LEMMA OwnDetached ==
  ASSUME DInv, NEW t \in Active, NEW w \in User, w = task[t].qq, Detached(t)
  PROVE  /\ OthersLeft(w)
         /\ RightUpdate(task[t]) =>
              IF task'[t] = Idle THEN RightUser(w)' ELSE RightUpdate(task[t])'
<1>1. TInv /\ by_course' = by_course /\ by_qq' = by_qq /\ torn' = torn
  BY DEF DInv, Detached
<1>2. OthersLeft(w)
  BY <1>1 DEF OthersLeft
<1>3. ASSUME RightUpdate(task[t])
      PROVE  IF task'[t] = Idle THEN RightUser(w)' ELSE RightUpdate(task[t])'
  <2>1. task[t].pc = "detach" /\ task[t].old = {}
    BY <1>1, DetachedTask
  <2>2. by_qq[w] = {} /\ task[t].new = task[t].courses
    BY <1>3, <2>1 DEF RightUpdate
  <2>3. \A c \in Course : by_course[c][w] = 0
    BY <1>3, <2>1 DEF RightUpdate, ListedIn
  <2>4. CASE task'[t] = Idle
    <3>1. RightUser(w)'
      BY <1>1, <2>2, <2>3 DEF RightUser
    <3> QED BY <2>4, <3>1
  <2>5. CASE task'[t] # Idle
    <3>1. /\ task'[t].qq = w /\ task'[t].pc = "enter"
          /\ task'[t].new = task'[t].courses
      BY <1>1, <2>2, <2>5, DetachedTask
    <3>2. RightUpdate(task[t])'
      BY <1>1, <2>2, <2>3, <3>1 DEF RightUpdate, ListedIn
    <3> QED BY <2>5, <3>2
  <2> QED BY <2>4, <2>5
<1> QED BY <1>2, <1>3

\* Entering one course.
LEMMA OwnEnter ==
  ASSUME DInv, NEW t \in Active, NEW w \in User, w = task[t].qq, Enter(t)
  PROVE  OthersLeft(w) /\ (RightUpdate(task[t]) => RightUpdate(task[t])')
<1> DEFINE d == First(task[t].new)
<1>1. TInv /\ w \in User /\ by_course \in [Course -> [User -> Nat]]
  BY DEF DInv, TInv, TypeOK
<1>2. /\ by_course' = [by_course EXCEPT ![d][w] = @ + 1] /\ by_qq' = by_qq
      /\ torn' = torn \ {<<w, d>>}
  BY DEF Enter
<1>3. /\ task'[t].qq = w /\ d \in task[t].new /\ d \in Course /\ task[t].pc = "enter"
      /\ task'[t].pc = "enter" /\ task'[t].new = task[t].new \ {d}
      /\ task'[t].courses = task[t].courses
  BY <1>1, EnterTask
<1>4. \A c \in Course, u \in User :
        /\ by_course'[c][u] = IF c = d /\ u = w THEN by_course[c][u] + 1 ELSE by_course[c][u]
        /\ <<u, c>> \in torn' <=> <<u, c>> \in torn /\ ~ (c = d /\ u = w)
  BY <1>1, <1>2, <1>3
<1> HIDE DEF d
<1>5. OthersLeft(w)
  BY <1>2, <1>4 DEF OthersLeft
<1>6. ASSUME RightUpdate(task[t]) PROVE RightUpdate(task[t])'
  <2>1. \A c \in Course :
          by_course[c][w] = IF ListedIn(task[t], c) /\ <<w, c>> \notin torn THEN 1 ELSE 0
    BY <1>6 DEF RightUpdate
  <2>2. /\ \A c \in Course : ListedIn(task[t], c) <=> c \in task[t].courses /\ c \notin task[t].new
        /\ task[t].new \subseteq task[t].courses /\ by_qq[w] = {}
    BY <1>3, <1>6 DEF ListedIn, RightUpdate
  <2>3. \A c \in Course : ListedIn(task[t], c)' <=> ListedIn(task[t], c) \/ c = d
    BY <1>3, <2>2 DEF ListedIn
  <2>4. by_course[d][w] = 0
    BY Zenon, <1>3, <2>1, <2>2
  <2>5. \A c \in Course :
          by_course'[c][w] = IF ListedIn(task[t], c)' /\ <<w, c>> \notin torn' THEN 1 ELSE 0
    BY <1>4, <2>1, <2>3, <2>4
  <2> QED BY <1>2, <1>3, <2>2, <2>5 DEF RightUpdate
<1> QED BY <1>5, <1>6

\* set_user returns.
LEMMA OwnFinish ==
  ASSUME DInv, NEW t \in Active, NEW w \in User, w = task[t].qq, Finish(t)
  PROVE  OthersLeft(w) /\ (RightUpdate(task[t]) => RightUser(w)')
<1>1. TInv /\ by_qq \in [User -> SUBSET Course]
  BY DEF DInv, TInv, TypeOK
<1>2. /\ by_qq' = [by_qq EXCEPT ![w] = task[t].courses]
      /\ by_course' = by_course /\ torn' = torn
  BY DEF Finish
<1>3. OthersLeft(w)
  BY <1>1, <1>2 DEF OthersLeft
<1>4. ASSUME RightUpdate(task[t]) PROVE RightUser(w)'
  <2>1. task[t].pc = "enter" /\ task[t].new = {}
    BY <1>1, FinishTask
  <2>2. by_qq'[w] = task[t].courses
    BY <1>1, <1>2
  <2> QED BY <1>2, <1>4, <2>1, <2>2 DEF RightUpdate, RightUser, ListedIn
<1> QED BY <1>3, <1>4

\* A user nobody updates becomes one in an update.
LEMMA CallRight ==
  ASSUME DInv, NEW t \in Task, NEW u \in User, NEW cs \in SUBSET Course,
         NEW fn \in {"set_user", "remove_user"}, Call(t, fn, u, cs)
  PROVE  UpdatesRight' /\ UsersRight'
<1>1. /\ task'[t] \in Update /\ task'[t] # Idle /\ task[t] = Idle
      /\ task'[t].pc = "begin" /\ task'[t].qq = u
      /\ \A s \in Task \ {t} : task'[s] = task[s]
  BY CallTask DEF DInv
<1>2. by_course' = by_course /\ by_qq' = by_qq /\ torn' = torn
  BY DEF Call
<1>3. Active' = Active \cup {t} /\ t \notin Active
  BY <1>1 DEF Active
<1>4. task'[t].new = task'[t].courses
  BY DEF Call, DInv, TInv, TypeOK
<1>5. /\ overlapped \subseteq overlapped'
      /\ u \notin overlapped' => \A s \in Active : task[s].qq # u
  BY DEF Call
<1>6. ASSUME NEW s \in Active', task'[s].qq \notin overlapped'
      PROVE  Alone(s)' /\ RightUpdate(task[s])'
  <2>1. CASE s = t
    <3>1. u \notin overlapped' /\ \A r \in Active : task[r].qq # u
      BY <1>1, <1>5, <1>6, <2>1
    <3>2. Alone(t)'
      BY <1>1, <1>3, <3>1 DEF Alone, Active
    <3>3. RightUser(u)
      BY <1>5, <3>1 DEF DInv, UsersRight
    <3>4. RightUpdate(task[t])'
      BY <1>1, <1>2, <1>4, <3>3 DEF RightUpdate, RightUser, ListedIn
    <3> QED BY <2>1, <3>2, <3>4 DEF Alone, RightUpdate, ListedIn
  <2>2. CASE s # t
    <3>1. s \in Active /\ task'[s] = task[s] /\ task[s].qq \notin overlapped
      BY <1>1, <1>3, <1>5, <1>6, <2>2 DEF Active
    <3>2. Alone(s) /\ RightUpdate(task[s])
      BY <3>1 DEF DInv, UpdatesRight
    <3>3. u # task[s].qq
      BY <1>5, <1>6, <3>1
    <3>4. Alone(s)'
      BY <1>1, <1>3, <3>1, <3>2, <3>3 DEF Alone, Active
    <3>5. RightUpdate(task[s])'
      BY <1>2, <3>1, <3>2 DEF RightUpdate, ListedIn
    <3> QED BY <3>4, <3>5
  <2> QED BY <2>1, <2>2
<1>7. ASSUME NEW v \in User \ overlapped', \A s \in Active' : task'[s].qq # v
      PROVE  RightUser(v)'
  <2>1. \A s \in Active : task[s].qq # v
    BY <1>1, <1>3, <1>7 DEF Active
  <2>2. RightUser(v)
    BY <1>5, <2>1 DEF DInv, UsersRight
  <2> QED BY <1>2, <2>2 DEF RightUser
<1> QED BY <1>6, <1>7 DEF UpdatesRight, UsersRight

\* Every step keeps users right.
LEMMA NextDrift == DInv /\ [Next]_vars => DInv'
<1> SUFFICES ASSUME DInv, [Next]_vars PROVE UpdatesRight' /\ UsersRight'
  BY TypeInductive DEF DInv
<1>1. ASSUME NEW t \in Task, NEW u \in User, NEW cs \in SUBSET Course,
             NEW fn \in {"set_user", "remove_user"}, Call(t, fn, u, cs)
      PROVE  UpdatesRight' /\ UsersRight'
  BY <1>1, CallRight
<1>2. ASSUME NEW t \in Active, Step(t)
      PROVE  UpdatesRight' /\ UsersRight'
  <2> DEFINE w == task[t].qq
  <2>1. TInv /\ t \in Task /\ w \in User
    BY StepTask DEF DInv
  <2>2. PICK v \in User : v = task[t].qq
    BY <2>1
  <2>3. overlapped' = overlapped
    BY <1>2 DEF Step, TakeOld, Retain, Drop, Detached, Enter, Finish
  <2>4. /\ \A s \in Task \ {t} : task'[s] = task[s]
        /\ task'[t] = Idle \/ (task'[t] \in Update /\ task'[t] # Idle /\ task'[t].qq = v)
    BY <1>2, <2>1, <2>2, TakeOldTask, RetainTask, DropTask, DetachedTask, EnterTask, FinishTask
       DEF Step
  <2>5. OthersLeft(v)
    BY <1>2, <2>2, OwnTakeOld, OwnRetain, OwnDrop, OwnDetached, OwnEnter, OwnFinish DEF Step
  <2>6. ASSUME RightUpdate(task[t])
        PROVE  IF task'[t] = Idle THEN RightUser(v)' ELSE RightUpdate(task[t])'
    <3>1. CASE TakeOld(t)
      BY <2>1, <2>2, <2>6, <3>1, OwnTakeOld, TakeOldTask
    <3>2. CASE Retain(t)
      BY <2>1, <2>2, <2>6, <3>2, OwnRetain, RetainTask
    <3>3. CASE Drop(t)
      BY <2>1, <2>2, <2>6, <3>3, OwnDrop, DropTask
    <3>4. CASE Detached(t)
      BY <2>2, <2>6, <3>4, OwnDetached
    <3>5. CASE Enter(t)
      BY <2>1, <2>2, <2>6, <3>5, OwnEnter, EnterTask
    <3>6. CASE Finish(t)
      BY <2>1, <2>2, <2>6, <3>6, OwnFinish, FinishTask
    <3> QED BY <1>2, <3>1, <3>2, <3>3, <3>4, <3>5, <3>6 DEF Step
  <2> QED BY <2>2, <2>3, <2>4, <2>5, <2>6, StepRight
<1>3. CASE UNCHANGED vars
  <2>1. Active' = Active
    BY <1>3 DEF Active, vars
  <2>2. UpdatesRight'
    BY <1>3, <2>1 DEF DInv, UpdatesRight, Alone, RightUpdate, ListedIn, vars
  <2>3. UsersRight'
    BY <1>3, <2>1 DEF DInv, UsersRight, RightUser, vars
  <2> QED BY <2>2, <2>3
<1> QED BY <1>1, <1>2, <1>3 DEF Next

(* How far the two tables drift apart: a user whose updates never ran side *)
(* by side, and who is not being updated, is listed exactly under his own  *)
(* courses, but for those whose row another task removed (detach).         *)
THEOREM DriftExplained == Spec => []DriftIsTorn
<1>1. Init => DInv
  <2>1. Init => TInv
    BY InitTypes
  <2>2. Init => UpdatesRight
    BY DEF Init, UpdatesRight, Active
  <2>3. Init => UsersRight
    BY DEF Init, UsersRight, RightUser
  <2> QED BY <2>1, <2>2, <2>3 DEF DInv
<1>2. DInv /\ [Next]_vars => DInv'
  BY NextDrift
<1>3. DInv => DriftIsTorn
  BY DEF DInv, UsersRight, RightUser, DriftIsTorn
<1> QED BY <1>1, <1>2, <1>3, PTL DEF Spec

-----------------------------------------------------------------------------
(* Cookies (ClientSession).                                                *)

\* A chain has sent one request for every redirect it followed, and one more
\* while the last is under way.
Counted(r) ==
  /\ req[r].pc \in {"look", "rebuild", "read", "looped"} => req[r].sends = req[r].count
  /\ req[r].pc \in {"sent", "answered"} => req[r].sends = req[r].count + 1
  /\ req[r].count <= MAX_REDIRECTS + 1
  /\ req[r].pc \in {"rebuild", "read", "sent", "answered"} => req[r].count <= MAX_REDIRECTS
  /\ req[r].pc = "looped" => req[r].count = MAX_REDIRECTS + 1

\* What a chain was given the host has, and a header that is about to be sent
\* holds it, unless another request was rebuilding it.
Given(r) ==
  /\ \A h \in User : req[r].own[h] <= raw_data[h]
  /\ req[r].pc = "read" => header_cache[req[r].host] >= req[r].own[req[r].host] \/ req[r].raced

CookiesInv ==
  /\ Cookies!TypeOK
  /\ Cookies!StaleOnlyDuringRebuild /\ Cookies!ChainSendsItsCookies
  /\ \A h \in User : header_cache[h] <= raw_data[h]
  /\ \A r \in Task : req[r] # Cookies!Idle => Counted(r) /\ Given(r)

\* The client starts with an empty jar and an empty cache.
LEMMA CookiesInit == Cookies!Init => CookiesInv
<1> SUFFICES ASSUME Cookies!Init PROVE CookiesInv
  OBVIOUS
<1> USE DEF Cookies!Init
<1>1. Cookies!TypeOK
  BY SharedAssumption DEF Cookies!TypeOK, Cookies!Version
<1>2. Cookies!StaleOnlyDuringRebuild /\ Cookies!ChainSendsItsCookies
  BY DEF Cookies!StaleOnlyDuringRebuild, Cookies!ChainSendsItsCookies, Cookies!At, Cookies!Idle
<1> QED BY <1>1, <1>2 DEF CookiesInv

\* What the invariant says of each variable of the client.
LEMMA CookiesTypes ==
  ASSUME CookiesInv
  PROVE  /\ \A h \in User : raw_data[h] \in 0..MaxCookies /\ header_cache[h] \in 0..MaxCookies
         /\ raw_data \in [User -> 0..MaxCookies] /\ header_cache \in [User -> 0..MaxCookies]
         /\ \A r \in Task : req[r].pc # "idle" => req[r] # Cookies!Idle
         /\ \A r \in Task : req[r] # Cookies!Idle =>
              /\ req[r] \in Cookies!Chain /\ req[r].host \in User /\ req[r].count \in Nat
              /\ req[r].own \in [User -> 0..MaxCookies] /\ req[r].raced \in BOOLEAN
              /\ req[r].sends \in Nat /\ req[r].cookie \in 0..MaxCookies /\ req[r].body \in BOOLEAN
BY DEF CookiesInv, Cookies!TypeOK, Cookies!Chain, Cookies!Version, Cookies!Idle

\* Chains that a step leaves alone: their cookies and headers only get newer.
LEMMA ChainKept ==
  ASSUME CookiesInv, NEW o \in Task, req'[o] = req[o], req[o] # Cookies!Idle,
         \A h \in User : raw_data'[h] \in Nat /\ raw_data'[h] >= raw_data[h]
                         /\ header_cache'[h] \in Nat /\ header_cache'[h] >= header_cache[h]
  PROVE  Counted(o)' /\ Given(o)'
<1>1. Counted(o) /\ Given(o)
  BY DEF CookiesInv
<1>2. Counted(o)'
  BY <1>1 DEF Counted
<1>3. Given(o)'
  <2>1. /\ req[o].host \in User /\ \A h \in User : req[o].own[h] \in Nat /\ header_cache[h] \in Nat /\ raw_data[h] \in Nat
    BY CookiesTypes
  <2> QED BY <1>1, <2>1 DEF Given
<1> QED BY <1>2, <1>3

\* A step of one chain that sets no cookies and makes no header.
LEMMA ChainStep ==
  ASSUME CookiesInv, NEW r \in Task, NEW q \in Cookies!Chain \cup {Cookies!Idle},
         req' = [req EXCEPT ![r] = q], UNCHANGED <<raw_data, header_cache>>,
         dirty' \subseteq dirty,
         req[r].pc # "rebuild",
         \A h \in dirty \ dirty' : q.pc = "rebuild" /\ q.host = h,
         q.pc = "sent" => q.cookie >= q.own[q.host] \/ q.raced,
         req'[r] = q /\ q # Cookies!Idle => Counted(r)' /\ Given(r)'
  PROVE  CookiesInv'
<1>1. req' \in [Task -> Cookies!Chain \cup {Cookies!Idle}]
      /\ req'[r] = q /\ \A o \in Task : o # r => req'[o] = req[o]
  BY DEF CookiesInv, Cookies!TypeOK
<1>2. Cookies!TypeOK'
  BY <1>1 DEF CookiesInv, Cookies!TypeOK
<1>3. \A h \in User : Cookies!Rebuilding(h) => Cookies!Rebuilding(h)'
  BY <1>1 DEF Cookies!Rebuilding, Cookies!At
<1>4. \A h \in User : h \in dirty \ dirty' => Cookies!Rebuilding(h)'
  BY <1>1 DEF Cookies!Rebuilding, Cookies!At
<1>5. Cookies!StaleOnlyDuringRebuild'
  BY <1>3, <1>4 DEF CookiesInv, Cookies!StaleOnlyDuringRebuild
<1>6. Cookies!ChainSendsItsCookies'
  BY <1>1 DEF CookiesInv, Cookies!ChainSendsItsCookies, Cookies!At
<1>7. ASSUME NEW o \in Task, req'[o] # Cookies!Idle PROVE Counted(o)' /\ Given(o)'
  <2>1. CASE o = r
    BY <1>1, <1>7, <2>1
  <2>2. CASE o # r
    <3>1. \A h \in User : /\ raw_data'[h] \in Nat /\ raw_data'[h] >= raw_data[h]
                          /\ header_cache'[h] \in Nat /\ header_cache'[h] >= header_cache[h]
      BY CookiesTypes
    <3> QED BY <1>1, <1>7, <2>2, <3>1, ChainKept
  <2> QED BY <2>1, <2>2
<1> QED BY <1>2, <1>5, <1>6, <1>7 DEF CookiesInv

\* New cookies: the header of their host is marked.
LEMMA CookiesCome ==
  ASSUME CookiesInv, NEW h \in User, Cookies!SetCookies(h)
  PROVE  /\ raw_data' \in [User -> 0..MaxCookies] /\ dirty' \subseteq User /\ dirty \subseteq dirty'
         /\ \A g \in User : raw_data'[g] >= raw_data[g]
         /\ \A g \in User : raw_data'[g] # raw_data[g] => g \in dirty'
<1>1. CASE /\ raw_data[h] < MaxCookies /\ raw_data' = [raw_data EXCEPT ![h] = @ + 1]
           /\ dirty' = dirty \cup {h}
  <2>1. raw_data[h] + 1 \in 0..MaxCookies /\ raw_data[h] \in Nat
    BY <1>1, CookiesTypes, SharedAssumption
  <2>2. \A g \in User : raw_data'[g] = IF g = h THEN raw_data[h] + 1 ELSE raw_data[g]
    BY <1>1, CookiesTypes
  <2>3. \A g \in User : raw_data[g] \in Nat
    BY CookiesTypes
  <2> QED BY <1>1, <2>1, <2>2, <2>3, CookiesTypes DEF CookiesInv, Cookies!TypeOK
<1>2. CASE UNCHANGED <<raw_data, dirty>>
  BY <1>2, CookiesTypes DEF CookiesInv, Cookies!TypeOK
<1> QED BY <1>1, <1>2 DEF Cookies!SetCookies

\* Every step keeps the invariant.
LEMMA CookiesStep == CookiesInv /\ Cookies!Next => CookiesInv'
<1> SUFFICES ASSUME CookiesInv, Cookies!Next PROVE CookiesInv'
  OBVIOUS
<1>1. ASSUME NEW h \in User, Cookies!SetCookie(h) PROVE CookiesInv'
  <2>1. Cookies!SetCookies(h) /\ UNCHANGED <<header_cache, req>>
    BY <1>1 DEF Cookies!SetCookie, Cookies!SetCookies
  <2>2. /\ raw_data' \in [User -> 0..MaxCookies] /\ dirty' \subseteq User /\ dirty \subseteq dirty'
        /\ \A g \in User : raw_data'[g] >= raw_data[g]
        /\ \A g \in User : raw_data'[g] # raw_data[g] => g \in dirty'
    BY <2>1, CookiesCome
  <2>3. \A g \in User : raw_data'[g] \in Nat /\ raw_data[g] \in Nat /\ header_cache[g] \in Nat
    BY <2>2, CookiesTypes
  <2>4. \A o \in Task : req'[o] # Cookies!Idle => Counted(o)' /\ Given(o)'
    BY <2>1, <2>2, <2>3, ChainKept
  <2>5. Cookies!TypeOK'
    BY <2>1, <2>2 DEF CookiesInv, Cookies!TypeOK, Cookies!Version
  <2>6. Cookies!StaleOnlyDuringRebuild' /\ Cookies!ChainSendsItsCookies'
    BY <2>1, <2>2 DEF CookiesInv, Cookies!StaleOnlyDuringRebuild, Cookies!ChainSendsItsCookies,
       Cookies!Rebuilding, Cookies!At
  <2>7. \A g \in User : header_cache'[g] <= raw_data'[g]
    BY <2>1, <2>2, <2>3 DEF CookiesInv
  <2> QED BY <2>4, <2>5, <2>6, <2>7 DEF CookiesInv
<1>2. ASSUME NEW r \in Task, NEW h \in User, NEW body \in BOOLEAN, Cookies!Begin(r, h, body) PROVE CookiesInv'
  <2> DEFINE q == [pc |-> "look", host |-> h, count |-> 0, body |-> body,
                   own |-> [g \in User |-> 0], raced |-> FALSE, sends |-> 0, cookie |-> 0]
  <2>1. /\ req[r] = Cookies!Idle /\ req' = [req EXCEPT ![r] = q]
        /\ UNCHANGED <<raw_data, header_cache, dirty>>
    BY <1>2 DEF Cookies!Begin
  <2>2. q \in Cookies!Chain
    BY SharedAssumption DEF Cookies!Chain, Cookies!Version
  <2>3. req'[r] = q => Counted(r)' /\ Given(r)'
    BY <2>1, CookiesTypes, SharedAssumption DEF Counted, Given
  <2>4. req[r].pc # "rebuild" /\ q.pc # "sent"
    BY <2>1 DEF Cookies!Idle
  <2> HIDE DEF q
  <2> QED BY Zenon, <2>1, <2>2, <2>3, <2>4, ChainStep
<1>3. ASSUME NEW r \in Task, Cookies!Look(r) PROVE CookiesInv'
  <2>0. PICK h : h = req[r].host
    OBVIOUS
  <2>1. /\ req[r].pc = "look" /\ req[r] # Cookies!Idle /\ h \in User
        /\ UNCHANGED <<raw_data, header_cache>> /\ Counted(r) /\ Given(r) /\ req[r] \in Cookies!Chain
    BY <1>3, <2>0, CookiesTypes DEF Cookies!Look, Cookies!At, CookiesInv
  <2>2. CASE req[r].count > MAX_REDIRECTS
    <3> DEFINE q == [req[r] EXCEPT !.pc = "looped"]
    <3>1. req' = [req EXCEPT ![r] = q] /\ dirty' = dirty
      BY <1>3, <2>2 DEF Cookies!Look
    <3>2. /\ q \in Cookies!Chain /\ q.pc = "looped" /\ q.count = req[r].count /\ q.sends = req[r].sends
          /\ q.own = req[r].own
      BY <2>1 DEF Cookies!Chain
    <3> HIDE DEF q
    <3>3. req'[r] = q => Counted(r)' /\ Given(r)'
      BY <2>1, <2>2, <3>2, CookiesTypes, SharedAssumption DEF Counted, Given
    <3> QED BY Zenon, <2>1, <3>1, <3>2, <3>3, ChainStep
  <2>3. CASE ~(req[r].count > MAX_REDIRECTS)
    <3> DEFINE raced == h \notin dirty /\ Cookies!Rebuilding(h)
               q == [[req[r] EXCEPT !.pc = IF h \in dirty THEN "rebuild" ELSE "read"] EXCEPT !.raced = raced]
    <3>1. req' = [req EXCEPT ![r] = q] /\ dirty' = dirty \ {h}
      BY Zenon, <1>3, <2>0, <2>1, <2>3 DEF Cookies!Look, CookiesInv, Cookies!TypeOK, Cookies!Chain
    <3>2. /\ q \in Cookies!Chain /\ q.pc = (IF h \in dirty THEN "rebuild" ELSE "read")
          /\ q.count = req[r].count /\ q.sends = req[r].sends /\ q.host = h
          /\ q.own = req[r].own /\ q.raced = raced
      BY Zenon, <2>0, <2>1 DEF Cookies!Chain
    <3> HIDE DEF q
    <3>3. req'[r] = q => Counted(r)'
      BY <2>1, <2>3, <3>2, CookiesTypes, SharedAssumption DEF Counted
    <3>4. h \notin dirty => header_cache[h] = raw_data[h] \/ raced
      BY <2>1 DEF CookiesInv, Cookies!StaleOnlyDuringRebuild
    <3>5. req'[r] = q => Given(r)'
      <4>1. \A g \in User : req[r].own[g] <= raw_data[g]
        BY <2>1 DEF Given
      <4>2. header_cache[h] \in Nat /\ raw_data[h] \in Nat /\ req[r].own[h] \in Nat
        BY <2>1, CookiesTypes
      <4> HIDE DEF raced
      <4> QED BY <2>1, <3>2, <3>4, <4>1, <4>2 DEF Given
    <3> QED BY Zenon, <2>1, <3>1, <3>2, <3>3, <3>5, ChainStep
  <2> QED BY <2>2, <2>3
<1>4. ASSUME NEW r \in Task, Cookies!Rebuild(r) PROVE CookiesInv'
  <2>0. PICK h : h = req[r].host
    OBVIOUS
  <2> DEFINE q == [req[r] EXCEPT !.pc = "read"]
  <2>1. /\ req[r].pc = "rebuild" /\ req[r] # Cookies!Idle /\ h \in User
        /\ UNCHANGED <<raw_data, dirty>> /\ Counted(r) /\ Given(r) /\ req[r] \in Cookies!Chain
    BY <1>4, <2>0, CookiesTypes DEF Cookies!Rebuild, Cookies!At, CookiesInv
  <2>2. header_cache' = [header_cache EXCEPT ![h] = raw_data[h]] /\ req' = [req EXCEPT ![r] = q]
    BY <1>4, <2>0 DEF Cookies!Rebuild
  <2>3. /\ q \in Cookies!Chain /\ q.pc = "read" /\ q.count = req[r].count /\ q.sends = req[r].sends
        /\ q.own = req[r].own /\ q.host = h /\ q # Cookies!Idle
    BY <2>0, <2>1 DEF Cookies!Chain, Cookies!Idle
  <2> HIDE DEF q
  <2>4. req' \in [Task -> Cookies!Chain \cup {Cookies!Idle}]
        /\ req'[r] = q /\ \A o \in Task : o # r => req'[o] = req[o]
    BY <2>2, <2>3 DEF CookiesInv, Cookies!TypeOK
  <2>5. /\ header_cache' \in [User -> 0..MaxCookies] /\ header_cache'[h] = raw_data[h]
        /\ \A g \in User : g # h => header_cache'[g] = header_cache[g]
    BY <2>1, <2>2, CookiesTypes
  <2>6. \A g \in User : /\ header_cache[g] \in Nat /\ raw_data[g] \in Nat /\ header_cache'[g] \in Nat
                        /\ header_cache'[g] >= header_cache[g] /\ header_cache'[g] <= raw_data[g]
    BY <2>5, CookiesTypes DEF CookiesInv
  <2>7. Cookies!TypeOK'
    BY <2>1, <2>4, <2>5 DEF CookiesInv, Cookies!TypeOK, Cookies!Version
  <2>8. \A g \in User : g # h /\ Cookies!Rebuilding(g) => Cookies!Rebuilding(g)'
    BY <2>0, <2>4 DEF Cookies!Rebuilding, Cookies!At
  <2>9. Cookies!StaleOnlyDuringRebuild'
    BY <2>1, <2>5, <2>8 DEF CookiesInv, Cookies!StaleOnlyDuringRebuild
  <2>10. Cookies!ChainSendsItsCookies'
    BY <2>3, <2>4 DEF CookiesInv, Cookies!ChainSendsItsCookies, Cookies!At
  <2>11. Counted(r)' /\ Given(r)'
    <3>1. Counted(r)'
      BY <2>1, <2>3, <2>4 DEF Counted
    <3>2. \A g \in User : req[r].own[g] <= raw_data[g]
      BY <2>1 DEF Given
    <3> QED BY <2>1, <2>3, <2>4, <2>5, <3>1, <3>2, <2>6, CookiesTypes DEF Given
  <2>12. ASSUME NEW o \in Task, req'[o] # Cookies!Idle PROVE Counted(o)' /\ Given(o)'
    <3>1. CASE o = r
      BY <2>11, <3>1
    <3>2. CASE o # r
      <4>1. \A g \in User : raw_data'[g] = raw_data[g] /\ raw_data[g] >= raw_data[g]
        BY <2>1, <2>6
      <4> QED BY <2>1, <2>4, <2>6, <2>12, <3>2, <4>1, ChainKept
    <3> QED BY <3>1, <3>2
  <2>13. \A g \in User : header_cache'[g] <= raw_data'[g]
    BY <2>1, <2>6
  <2> QED BY <2>7, <2>9, <2>10, <2>12, <2>13 DEF CookiesInv
<1>5. ASSUME NEW r \in Task, Cookies!Send(r) PROVE CookiesInv'
  <2>0. PICK h : h = req[r].host
    OBVIOUS
  <2> DEFINE q == [[[req[r] EXCEPT !.pc = "sent"] EXCEPT !.cookie = header_cache[h]] EXCEPT !.sends = req[r].sends + 1]
  <2>1. /\ req[r].pc = "read" /\ req[r] # Cookies!Idle /\ h \in User
        /\ UNCHANGED <<raw_data, header_cache, dirty>> /\ Counted(r) /\ Given(r) /\ req[r] \in Cookies!Chain
    BY <1>5, <2>0, CookiesTypes DEF Cookies!Send, Cookies!At, CookiesInv
  <2>2. req' = [req EXCEPT ![r] = q]
    BY <1>5, <2>0, <2>1 DEF Cookies!Send, CookiesInv, Cookies!TypeOK, Cookies!Chain
  <2>3. /\ q \in Cookies!Chain /\ q.pc = "sent" /\ q.count = req[r].count /\ q.sends = req[r].sends + 1
        /\ q.own = req[r].own /\ q.host = h /\ q.cookie = header_cache[h] /\ q.raced = req[r].raced
    <3>1. header_cache[h] \in 0..MaxCookies /\ req[r].sends + 1 \in Nat
      BY <2>1, CookiesTypes
    <3> QED BY Zenon, <2>0, <2>1, <3>1 DEF Cookies!Chain, Cookies!Version
  <2> HIDE DEF q
  <2>4. req'[r] = q => Counted(r)' /\ Given(r)'
    BY <2>1, <2>3 DEF Counted, Given
  <2>5. q.cookie >= q.own[q.host] \/ q.raced
    BY <2>0, <2>1, <2>3 DEF Given
  <2> QED BY Zenon, <2>1, <2>2, <2>3, <2>4, <2>5, ChainStep
<1>6. ASSUME NEW r \in Task, Cookies!Answer(r) PROVE CookiesInv'
  <2>0. PICK h : h = req[r].host
    OBVIOUS
  <2>1. /\ req[r].pc = "sent" /\ req[r] # Cookies!Idle /\ h \in User
        /\ header_cache' = header_cache /\ Counted(r) /\ Given(r) /\ req[r] \in Cookies!Chain
        /\ Cookies!SetCookies(h)
    BY Zenon, <1>6, <2>0, CookiesTypes DEF Cookies!Answer, Cookies!At, CookiesInv
  <2>2. /\ raw_data' \in [User -> 0..MaxCookies] /\ dirty' \subseteq User /\ dirty \subseteq dirty'
        /\ \A g \in User : raw_data'[g] >= raw_data[g]
        /\ \A g \in User : raw_data'[g] # raw_data[g] => g \in dirty'
    BY <2>1, CookiesCome
  <2>3. PICK own : own = [req[r].own EXCEPT ![h] = raw_data'[h]]
    BY Zenon
  <2>4. own \in [User -> 0..MaxCookies] /\ \A g \in User : own[g] <= raw_data'[g]
    <3>1. req[r].own \in [User -> 0..MaxCookies] /\ raw_data'[h] \in 0..MaxCookies
      BY <2>1, <2>2, CookiesTypes
    <3>2. own[h] = raw_data'[h] /\ \A g \in User : g # h => own[g] = req[r].own[g]
      BY <2>1, <2>3, <3>1
    <3>3. \A g \in User : raw_data'[g] \in Nat /\ raw_data[g] \in Nat /\ req[r].own[g] \in Nat /\ req[r].own[g] <= raw_data[g]
      BY <2>1, <2>2, <3>1, CookiesTypes DEF Given
    <3>4. own \in [User -> 0..MaxCookies]
      BY Zenon, <2>3, <3>1
    <3>5. ASSUME NEW g \in User PROVE own[g] <= raw_data'[g]
      <4>1. CASE g = h
        BY <3>2, <3>3, <4>1
      <4>2. CASE g # h
        BY <2>2, <3>2, <3>3, <4>2
      <4> QED BY <4>1, <4>2
    <3> QED BY <3>4, <3>5
  <2>5. PICK q \in Cookies!Chain :
          /\ req' = [req EXCEPT ![r] = q]
          /\ q.own = own /\ q.sends = req[r].sends
          /\ \/ q.pc = "answered" /\ q.count = req[r].count
             \/ q.pc = "look" /\ q.count = req[r].count + 1
    <3> DEFINE came == [req[r] EXCEPT !.own = [@ EXCEPT ![h] = raw_data'[h]], !.cookie = 0, !.raced = FALSE]
    <3>1. /\ came \in Cookies!Chain /\ came.own = own /\ came.sends = req[r].sends
          /\ came.count = req[r].count
      <4>1. came = [[[req[r] EXCEPT !.own = own] EXCEPT !.cookie = 0] EXCEPT !.raced = FALSE]
        BY <2>1, <2>3 DEF Cookies!Chain
      <4>2. 0 \in 0..MaxCookies
        BY SharedAssumption
      <4> HIDE DEF came
      <4> QED BY Zenon, <2>1, <2>4, <4>1, <4>2 DEF Cookies!Chain, Cookies!Version
    <3>2. \/ req' = [req EXCEPT ![r] = [came EXCEPT !.pc = "answered"]]
          \/ \E next \in User, keeps \in BOOLEAN :
                 req' = [req EXCEPT ![r] =
                     [came EXCEPT !.pc = "look", !.host = next, !.count = @ + 1,
                                  !.body = @ /\ keeps]]
      BY Zenon, <1>6, <2>0 DEF Cookies!Answer
    <3> HIDE DEF came
    <3>3. CASE req' = [req EXCEPT ![r] = [came EXCEPT !.pc = "answered"]]
      <4>1. /\ [came EXCEPT !.pc = "answered"] \in Cookies!Chain
            /\ [came EXCEPT !.pc = "answered"].own = own
            /\ [came EXCEPT !.pc = "answered"].sends = req[r].sends
            /\ [came EXCEPT !.pc = "answered"].count = req[r].count
            /\ [came EXCEPT !.pc = "answered"].pc = "answered"
        BY <3>1 DEF Cookies!Chain
      <4> QED BY Zenon, <3>3, <4>1
    <3>4. ASSUME NEW next \in User, NEW keeps \in BOOLEAN,
                 req' = [req EXCEPT ![r] =
                     [came EXCEPT !.pc = "look", !.host = next, !.count = @ + 1,
                                  !.body = @ /\ keeps]]
          PROVE  \E q \in Cookies!Chain :
                    /\ req' = [req EXCEPT ![r] = q]
                    /\ q.own = own /\ q.sends = req[r].sends
                    /\ q.pc = "look" /\ q.count = req[r].count + 1
      <4> DEFINE q == [came EXCEPT !.pc = "look", !.host = next, !.count = @ + 1, !.body = @ /\ keeps]
      <4>1. came.count \in Nat /\ came.body \in BOOLEAN
        BY <3>1 DEF Cookies!Chain
      <4>2. came.count + 1 \in Nat /\ (came.body /\ keeps) \in BOOLEAN
        BY <4>1
      <4>3. /\ q \in Cookies!Chain /\ q.own = own /\ q.sends = req[r].sends
            /\ q.pc = "look" /\ q.count = req[r].count + 1
        BY Zenon, <3>1, <4>2 DEF Cookies!Chain
      <4> HIDE DEF q
      <4> QED BY Zenon, <3>4, <4>3 DEF q
    <3> QED BY Zenon, <3>2, <3>3, <3>4
  <2>6. /\ req' \in [Task -> Cookies!Chain \cup {Cookies!Idle}]
        /\ req'[r] = q /\ \A o \in Task : o # r => req'[o] = req[o]
    BY <2>5 DEF CookiesInv, Cookies!TypeOK
  <2>7. \A g \in User : raw_data'[g] \in Nat /\ raw_data[g] \in Nat /\ header_cache[g] \in Nat
    BY <2>2, CookiesTypes
  <2>8. Counted(r)' /\ Given(r)'
    <3>1. req[r].count \in Nat
      BY <2>1, CookiesTypes
    <3>2. Counted(r)'
      BY <2>1, <2>5, <2>6, <3>1, SharedAssumption DEF Counted
    <3> QED BY <2>4, <2>5, <2>6, <3>2 DEF Given
  <2>9. ASSUME NEW o \in Task, req'[o] # Cookies!Idle PROVE Counted(o)' /\ Given(o)'
    <3>1. CASE o = r
      BY <2>8, <3>1
    <3>2. CASE o # r
      <4>1. \A g \in User : header_cache'[g] \in Nat /\ header_cache'[g] >= header_cache[g]
        BY <2>1, <2>7
      <4> QED BY <2>2, <2>6, <2>7, <2>9, <3>2, <4>1, ChainKept
    <3> QED BY <3>1, <3>2
  <2>10. Cookies!TypeOK'
    BY <2>1, <2>2, <2>6 DEF CookiesInv, Cookies!TypeOK, Cookies!Version
  <2>11. \A g \in User : Cookies!Rebuilding(g) => Cookies!Rebuilding(g)'
    BY <2>1, <2>6 DEF Cookies!Rebuilding, Cookies!At
  <2>12. Cookies!StaleOnlyDuringRebuild'
    BY <2>1, <2>2, <2>11 DEF CookiesInv, Cookies!StaleOnlyDuringRebuild
  <2>13. Cookies!ChainSendsItsCookies'
    BY <2>5, <2>6 DEF CookiesInv, Cookies!ChainSendsItsCookies, Cookies!At
  <2>14. \A g \in User : header_cache'[g] <= raw_data'[g]
    BY <2>1, <2>2, <2>7 DEF CookiesInv
  <2> QED BY <2>9, <2>10, <2>12, <2>13, <2>14 DEF CookiesInv
<1>7. ASSUME NEW r \in Task, Cookies!Finish(r) PROVE CookiesInv'
  <2>1. /\ req' = [req EXCEPT ![r] = Cookies!Idle] /\ UNCHANGED <<raw_data, header_cache, dirty>>
        /\ req[r].pc # "rebuild"
    BY <1>7 DEF Cookies!Finish, Cookies!At
  <2>2. Cookies!Idle.pc # "sent"
    BY DEF Cookies!Idle
  <2> QED BY Zenon, <2>1, <2>2, ChainStep
<1> QED BY <1>1, <1>2, <1>3, <1>4, <1>5, <1>6, <1>7 DEF Cookies!Next

\* So does a step of another part.
LEMMA CookiesStutter == CookiesInv /\ UNCHANGED <<req, cookieVars>> => CookiesInv'
BY DEF CookiesInv, cookieVars, Cookies!TypeOK, Cookies!StaleOnlyDuringRebuild, Cookies!ChainSendsItsCookies,
       Cookies!Rebuilding, Cookies!At, Counted, Given

\* The invariant bounds a chain of redirects.
LEMMA CookiesHold == CookiesInv => Cookies!ChainIsFollowed
<1> SUFFICES ASSUME CookiesInv, NEW r \in Task, req[r] # Cookies!Idle
             PROVE  /\ req[r].sends <= MAX_REDIRECTS + 1
                    /\ Cookies!At(r, "looped") => req[r].sends = MAX_REDIRECTS + 1
  BY DEF Cookies!ChainIsFollowed
<1>1. req[r].count \in Nat /\ req[r].sends \in Nat
  BY CookiesTypes
<1>2. req[r].pc \in {"look", "rebuild", "read", "sent", "answered", "looped"}
  BY CookiesTypes DEF Cookies!Chain
<1> QED BY <1>1, <1>2, SharedAssumption DEF CookiesInv, Counted, Cookies!At
-----------------------------------------------------------------------------
(* The pages of failed logins (FailedPages).                               *)

Removing(s) == saver[s] # Failures!Idle /\ saver[s].at = "remove"
Listing(s) == saver[s] # Failures!Idle /\ saver[s].at = "list"

\* What is removed has KEEP newer pages; and what is too much is about to be
\* removed, or to be listed.
FailuresInv ==
  /\ Failures!TypeOK
  /\ \A p \in written \ dir : Cardinality(Failures!Newer(p, written)) >= KEEP
  /\ \A s \in User : Removing(s) =>
       saver[s].old \subseteq {p \in written : Cardinality(Failures!Newer(p, written)) >= KEEP}
  /\ ~spared =>
       \/ \E s \in User : Listing(s)
       \/ \A p \in Failures!Excess(dir) : \E s \in User : Removing(s) /\ p \in saver[s].old

\* More pages, more newer ones.
LEMMA NewerGrow ==
  ASSUME NEW S \in SUBSET Failures!Time, NEW T \in SUBSET S, NEW p
  PROVE  /\ Failures!Cardinality(Failures!Newer(p, T)) = Cardinality(Failures!Newer(p, T))
         /\ Cardinality(Failures!Newer(p, T)) <= Cardinality(Failures!Newer(p, S))
         /\ Cardinality(Failures!Newer(p, T)) \in Nat /\ Cardinality(Failures!Newer(p, S)) \in Nat
<1>1. IsFiniteSet(S)
  <2>1. 1 \in Int /\ PageTime \in Int /\ S \subseteq 1..PageTime
    BY SharedAssumption DEF Failures!Time
  <2>2. IsFiniteSet(1..PageTime)
    BY <2>1, FS_Interval
  <2> QED BY Zenon, <2>1, <2>2, FS_Subset
<1>2. Failures!Newer(p, T) \subseteq Failures!Newer(p, S) /\ Failures!Newer(p, S) \subseteq S
  BY DEF Failures!Newer
<1>3. IsFiniteSet(Failures!Newer(p, S)) /\ IsFiniteSet(Failures!Newer(p, T))
  BY <1>1, <1>2, FS_Subset
<1>4. Failures!Cardinality(Failures!Newer(p, T)) = Cardinality(Failures!Newer(p, T))
  BY DEF Failures!Cardinality, Cardinality
<1> QED BY <1>2, <1>3, <1>4, FS_Subset, FS_CardinalityType

\* What is too much in some pages is so in more of them.
LEMMA ExcessGrows ==
  ASSUME NEW S \in SUBSET Failures!Time, NEW T \in SUBSET S
  PROVE  /\ Failures!Excess(T) = {p \in T : Cardinality(Failures!Newer(p, T)) >= KEEP}
         /\ Failures!Excess(T) \subseteq Failures!Excess(S)
<1>1. Failures!Excess(T) = {p \in T : Cardinality(Failures!Newer(p, T)) >= KEEP}
  BY NewerGrow DEF Failures!Excess
<1>2. Failures!Excess(S) = {p \in S : Cardinality(Failures!Newer(p, S)) >= KEEP}
  BY NewerGrow DEF Failures!Excess
<1>3. KEEP \in Nat
  BY SharedAssumption
<1>4. ASSUME NEW p \in T, Cardinality(Failures!Newer(p, T)) >= KEEP
      PROVE  Cardinality(Failures!Newer(p, S)) >= KEEP
  BY <1>3, <1>4, NewerGrow
<1> QED BY <1>1, <1>2, <1>4

\* The oldest of some pages is one of them.
LEMMA OldestIsOne ==
  ASSUME NEW S \in SUBSET Failures!Time, S # {}
  PROVE  (CHOOSE q \in S : Failures!Newer(q, S) = S \ {q}) \in S
<1>1. S \subseteq Nat
  BY SharedAssumption DEF Failures!Time
<1>2. PICK x \in S : \A y \in S : x <= y
  BY <1>1, HasLeast
<1>3. Failures!Newer(x, S) = S \ {x}
  <2>1. \A q \in S : q > x <=> q # x
    BY <1>1, <1>2
  <2> QED BY <2>1 DEF Failures!Newer
<1> QED BY <1>3

\* The directory starts with no saver at work.
LEMMA FailuresInit == Failures!Init => FailuresInv
<1> SUFFICES ASSUME Failures!Init PROVE FailuresInv
  OBVIOUS
<1> USE DEF Failures!Init
<1>1. Failures!TypeOK
  <2>1. 1 \in Failures!Time
    BY SharedAssumption DEF Failures!Time
  <2> QED BY Zenon, <2>1 DEF Failures!TypeOK
<1>2. Failures!Excess(dir) = {}
  BY DEF Failures!Excess
<1>3. \A s \in User : ~Removing(s)
  BY DEF Removing
<1> QED BY <1>1, <1>2, <1>3 DEF FailuresInv

\* Write: a page is written under the time of day.
LEMMA FailuresWrite ==
  ASSUME FailuresInv, NEW s \in User, Failures!Write(s)
  PROVE  FailuresInv'
<1>1. /\ dir \subseteq written /\ written' \subseteq Failures!Time /\ dir' \subseteq written'
      /\ written \subseteq written' /\ written' \ dir' \subseteq written \ dir
      /\ UNCHANGED <<clock, spared>> /\ Failures!TypeOK'
  BY DEF FailuresInv, Failures!TypeOK, Failures!Write, Failures!Time
<1>2. /\ \A o \in User : o # s => saver'[o] = saver[o]
      /\ saver'[s] = [at |-> "list", old |-> {}] /\ saver'[s] # Failures!Idle
  BY DEF FailuresInv, Failures!TypeOK, Failures!Write, Failures!Idle
<1>3. ASSUME NEW p \in written, Cardinality(Failures!Newer(p, written)) >= KEEP
      PROVE  p \in written' /\ Cardinality(Failures!Newer(p, written')) >= KEEP
  BY <1>1, <1>3, NewerGrow, SharedAssumption
<1>4. Listing(s)' /\ ~Removing(s)'
  BY <1>2 DEF Listing, Removing
<1>5. \A p \in written' \ dir' : Cardinality(Failures!Newer(p, written')) >= KEEP
  BY <1>1, <1>3 DEF FailuresInv
<1>6. \A o \in User : Removing(o)' =>
        saver'[o].old \subseteq {p \in written' : Cardinality(Failures!Newer(p, written')) >= KEEP}
  BY <1>2, <1>3, <1>4 DEF FailuresInv, Removing
<1>7. FailuresInv' <=>
        /\ Failures!TypeOK'
        /\ \A p \in written' \ dir' : Cardinality(Failures!Newer(p, written')) >= KEEP
        /\ \A o \in User : Removing(o)' =>
             saver'[o].old \subseteq {p \in written' : Cardinality(Failures!Newer(p, written')) >= KEEP}
        /\ ~spared' =>
             \/ \E o \in User : Listing(o)'
             \/ \A p \in Failures!Excess(dir)' : \E o \in User : Removing(o)' /\ p \in saver'[o].old
  BY DEF FailuresInv, Failures!Newer
<1> QED BY <1>1, <1>4, <1>5, <1>6, <1>7

\* List: the directory is read, and the oldest pages above the limit are chosen.
LEMMA FailuresList ==
  ASSUME FailuresInv, NEW s \in User, Failures!List(s)
  PROVE  FailuresInv'
<1>1. PICK found \in SUBSET dir :
        /\ saver' = [saver EXCEPT ![s] = [at |-> "remove", old |-> Failures!Excess(found)]]
        /\ spared' = (spared \/ found # dir)
  BY Zenon DEF Failures!List
<1>2. /\ UNCHANGED <<clock, dir, written>> /\ dir \in SUBSET Failures!Time
      /\ dir \subseteq written /\ written \in SUBSET Failures!Time
  BY DEF FailuresInv, Failures!TypeOK, Failures!List
<1>3. Failures!Excess(found) = {p \in found : Cardinality(Failures!Newer(p, found)) >= KEEP}
  BY <1>2, ExcessGrows
<1>4. Failures!TypeOK'
  BY <1>1, <1>2, <1>3 DEF FailuresInv, Failures!TypeOK
<1>5. /\ \A o \in User : o # s => saver'[o] = saver[o]
      /\ saver'[s] = [at |-> "remove", old |-> Failures!Excess(found)] /\ saver'[s] # Failures!Idle
  BY <1>1 DEF FailuresInv, Failures!TypeOK, Failures!Idle
<1>6. Failures!Excess(found) \subseteq {p \in written : Cardinality(Failures!Newer(p, written)) >= KEEP}
  BY <1>2, <1>3, NewerGrow, SharedAssumption
<1>7. \A o \in User : Removing(o)' =>
        saver'[o].old \subseteq {p \in written : Cardinality(Failures!Newer(p, written)) >= KEEP}
  BY <1>5, <1>6 DEF FailuresInv, Removing
<1>8. Removing(s)' /\ (spared' \/ saver'[s].old = Failures!Excess(dir))
  <2>1. Removing(s)'
    BY <1>5 DEF Removing
  <2>2. CASE found = dir
    BY <1>5, <2>1, <2>2
  <2>3. CASE found # dir
    <3>1. spared'
      BY Zenon, <1>1, <2>3
    <3> QED BY <2>1, <3>1
  <2> QED BY <2>2, <2>3
<1> QED BY <1>2, <1>4, <1>7, <1>8 DEF FailuresInv, Failures!Newer, Failures!Excess

\* Remove: the chosen pages are removed one by one.
LEMMA FailuresRemove ==
  ASSUME FailuresInv, NEW s \in User, Failures!Remove(s)
  PROVE  FailuresInv'
<1>1. /\ saver[s] # Failures!Idle /\ saver[s].at = "remove" /\ saver[s].old \subseteq Failures!Time
      /\ saver[s].old # {} /\ Removing(s) /\ ~Listing(s)
  BY DEF FailuresInv, Failures!TypeOK, Failures!Remove, Failures!Idle, Removing, Listing
<1>2. PICK p \in saver[s].old :
        /\ saver' = [saver EXCEPT ![s].old = @ \ {p}]
        /\ \/ dir' = dir \ {p} /\ UNCHANGED spared
           \/ spared' = TRUE /\ UNCHANGED dir
  BY Zenon, <1>1, OldestIsOne DEF Failures!Remove
<1>3. /\ UNCHANGED <<clock, written>> /\ dir \subseteq written /\ written \in SUBSET Failures!Time
      /\ dir' \subseteq dir
  BY <1>2 DEF FailuresInv, Failures!TypeOK, Failures!Remove
<1>4. Failures!TypeOK'
  BY Zenon, <1>1, <1>2, <1>3 DEF FailuresInv, Failures!TypeOK
<1>5. /\ \A o \in User : o # s => saver'[o] = saver[o]
      /\ saver'[s].at = "remove" /\ saver'[s].old = saver[s].old \ {p} /\ saver'[s] # Failures!Idle
  BY <1>1, <1>2 DEF FailuresInv, Failures!TypeOK, Failures!Idle
<1>6. \A q \in written \ dir' : Cardinality(Failures!Newer(q, written)) >= KEEP
  BY <1>1, <1>2 DEF FailuresInv
<1>7. \A o \in User : (Removing(o)' <=> Removing(o)) /\ (Listing(o)' <=> Listing(o))
  BY <1>1, <1>5 DEF Removing, Listing
<1>8. \A o \in User : Removing(o)' =>
        saver'[o].old \subseteq {q \in written : Cardinality(Failures!Newer(q, written)) >= KEEP}
  BY <1>5, <1>7, <1>1 DEF FailuresInv
<1>9. ~spared' => \/ \E o \in User : Listing(o)'
                  \/ \A q \in Failures!Excess(dir)' : \E o \in User : Removing(o)' /\ q \in saver'[o].old
  <2> SUFFICES ASSUME ~spared', \A o \in User : ~Listing(o)', NEW q \in Failures!Excess(dir)'
               PROVE  \E o \in User : Removing(o)' /\ q \in saver'[o].old
    OBVIOUS
  <2>1. ~spared /\ dir' = dir \ {p} /\ \A o \in User : ~Listing(o)
    BY <1>2, <1>7 DEF FailuresInv, Failures!TypeOK
  <2>2. Failures!Excess(dir)' = Failures!Excess(dir')
    BY DEF Failures!Excess, Failures!Newer
  <2>3. q \in Failures!Excess(dir) /\ q # p
    BY <1>3, <2>1, <2>2, ExcessGrows DEF Failures!Excess
  <2>4. PICK o \in User : Removing(o) /\ q \in saver[o].old
    BY <2>1, <2>3 DEF FailuresInv
  <2> QED BY <1>5, <1>7, <2>3, <2>4
<1> QED BY <1>3, <1>4, <1>6, <1>8, <1>9 DEF FailuresInv, Failures!Newer

\* Saved: a saver that has nothing left to remove is done.
LEMMA FailuresSaved ==
  ASSUME FailuresInv, NEW s \in User, Failures!Saved(s)
  PROVE  FailuresInv'
<1>1. /\ saver[s].old = {} /\ UNCHANGED <<clock, dir, written, spared>> /\ ~Listing(s)
      /\ saver' = [saver EXCEPT ![s] = Failures!Idle] /\ Failures!TypeOK'
  BY DEF FailuresInv, Failures!TypeOK, Failures!Saved, Listing
<1>2. saver'[s] = Failures!Idle /\ \A o \in User : o # s => saver'[o] = saver[o]
  BY <1>1 DEF FailuresInv, Failures!TypeOK
<1>3. /\ \A o \in User : Removing(o)' => Removing(o) /\ saver'[o] = saver[o]
      /\ \A o \in User : Removing(o) /\ saver[o].old # {} => Removing(o)' /\ saver'[o] = saver[o]
      /\ \A o \in User : Listing(o) => Listing(o)'
  BY <1>1, <1>2 DEF Removing, Listing
<1> QED BY <1>1, <1>3 DEF FailuresInv, Failures!Newer, Failures!Excess

\* A step of another part, and the passing of time, keep the invariant.
LEMMA FailuresStutter == FailuresInv /\ UNCHANGED <<dir, saver, written, spared>> /\ clock' \in Failures!Time => FailuresInv'
BY DEF FailuresInv, Failures!TypeOK, Failures!Newer, Failures!Excess, Removing, Listing

\* Every step keeps the invariant.
LEMMA FailuresStep == FailuresInv /\ (Failures!Next \/ UNCHANGED failureVars) => FailuresInv'
<1> SUFFICES ASSUME FailuresInv, Failures!Next \/ UNCHANGED failureVars PROVE FailuresInv'
  OBVIOUS
<1>1. CASE Failures!Tick \/ UNCHANGED failureVars
  <2>1. clock' \in Failures!Time /\ UNCHANGED <<dir, saver, written, spared>>
    BY <1>1, SharedAssumption DEF FailuresInv, Failures!TypeOK, Failures!Tick, Failures!Time, failureVars
  <2> QED BY <2>1, FailuresStutter
<1> QED BY <1>1, FailuresWrite, FailuresList, FailuresRemove, FailuresSaved DEF Failures!Next

\* The invariant has the property the runs check.
LEMMA FailuresHold == FailuresInv => Failures!NewestAreKept
<1> SUFFICES ASSUME FailuresInv PROVE Failures!NewestAreKept
  OBVIOUS
<1>1. written \in SUBSET Failures!Time
  BY DEF FailuresInv, Failures!TypeOK
<1>2. \A p \in written \ dir : Failures!Cardinality(Failures!Newer(p, written)) >= KEEP
  BY <1>1, NewerGrow DEF FailuresInv
<1>3. (\A s \in User : saver[s] = Failures!Idle) => \A s \in User : ~Listing(s) /\ ~Removing(s)
  BY DEF Listing, Removing
<1> QED BY <1>2, <1>3 DEF FailuresInv, Failures!NewestAreKept, Failures!Excess
-----------------------------------------------------------------------------
(* The threads that read QR codes (QrDecoder).                             *)

Off == Decoder!Off
Filling(v, f) == worker[v] = [at |-> "fill", file |-> f]
AtFile(v, f) == worker[v] \in {[at |-> "write", file |-> f], [at |-> "fill", file |-> f]}

\* A thread that has left a file behind it, and is not past the load.
Past(w, f) == worker[w] = [at |-> "load"] \/ (worker[w] \in Decoder!Unpacking /\ f < worker[w].file)

\* Such a file is whole and nobody is at it, unless one was passed while another was.
PastIsWhole ==
  \A w \in User, f \in 1..FILES :
    Past(w, f) => f \in passed \cup left \/ (model[f] = "whole" /\ \A v \in User : ~AtFile(v, f))

\* A torn file is being filled, or an earlier run of the program left it.
TornIsFilled == \A f \in 1..FILES : model[f] = "torn" => f \in left \/ \E v \in User : Filling(v, f)

\* A file that was left is torn, nobody is at it, and nobody reads codes.
LeftStays ==
  /\ \A f \in left : model[f] = "torn" /\ \A v \in User : ~AtFile(v, f)
  /\ left # {} => \A w \in User : worker[w].at \notin {"wait", "decode"}

\* Threads start together, with the first image.
StartTogether ==
  (\E w \in User : worker[w] = Off) =>
    /\ \A w \in User : worker[w] = Off
    /\ tasks = <<>> /\ \A i \in Task : image[i] # "sent"

DecoderInv ==
  /\ Decoder!TypeOK
  /\ PastIsWhole /\ TornIsFilled /\ LeftStays /\ StartTogether
  /\ Decoder!WaitersAreServed

\* The states of a thread, told apart by what it is at.
LEMMA DecoderTypes ==
  ASSUME Decoder!TypeOK, NEW w \in User
  PROVE  /\ worker[w] = Off <=> worker[w].at = "off"
         /\ worker[w] = [at |-> "load"] <=> worker[w].at = "load"
         /\ worker[w] = [at |-> "wait"] <=> worker[w].at = "wait"
         /\ worker[w] \in Decoder!Unpacking <=> worker[w].at \in {"look", "write", "fill"}
         /\ worker[w] \in Decoder!Unpacking =>
              worker[w].file \in 1..FILES /\ worker[w] = [at |-> worker[w].at, file |-> worker[w].file]
         /\ worker[w].at = "decode" =>
              worker[w].image \in Task /\ worker[w] = [at |-> "decode", image |-> worker[w].image]
BY DEF Decoder!TypeOK, Decoder!Off, Decoder!Unpacking, Off

\* The decoder starts with no worker.
LEMMA DecoderInit == Decoder!Init => DecoderInv
<1> SUFFICES ASSUME Decoder!Init PROVE DecoderInv
  OBVIOUS
<1> USE DEF Decoder!Init
<1>1. Decoder!TypeOK
  <2>1. /\ model \in [1..FILES -> {"none", "torn", "whole"}]
        /\ worker \in [User -> {Decoder!Off}] /\ image \in [Task -> {"none"}]
    OBVIOUS
  <2>2. tasks \in Seq(Task) /\ crashes \in 0..MaxCrashes /\ left = {} /\ passed = {}
    BY SharedAssumption
  <2> HIDE DEF Decoder!Init
  <2> QED BY <2>1, <2>2 DEF Decoder!TypeOK
<1>2. \A w \in User : worker[w] = Off /\ worker[w].at = "off" /\ worker[w] \notin Decoder!Unpacking
  BY DEF Decoder!Off, Decoder!Unpacking, Off
<1>3. PastIsWhole
  BY <1>2 DEF PastIsWhole, Past
<1>4. LeftStays
  BY DEF LeftStays
<1>5. Decoder!WaitersAreServed
  BY DEF Decoder!WaitersAreServed
<1>6. TornIsFilled /\ StartTogether
  BY <1>2 DEF TornIsFilled, StartTogether
<1> QED BY <1>1, <1>3, <1>4, <1>5, <1>6 DEF DecoderInv

\* A thread that runs on, and holds no image before or after, changes little.
LEMMA ThreadGoesOn ==
  ASSUME DecoderInv, NEW w \in User, NEW s, Decoder!Set(w, s), UNCHANGED <<tasks, image>>,
         worker[w] # Off, s # Off, worker[w].at # "decode"
  PROVE  /\ worker'[w] = s /\ \A v \in User : v # w => worker'[v] = worker[v]
         /\ StartTogether' /\ Decoder!WaitersAreServed'
<1>1. worker'[w] = s /\ \A v \in User : v # w => worker'[v] = worker[v]
  BY DEF DecoderInv, Decoder!TypeOK, Decoder!Set
<1>2. StartTogether'
  BY <1>1 DEF DecoderInv, StartTogether
<1>3. Decoder!WaitersAreServed'
  <2>1. \A i \in Task : worker[w] # [at |-> "decode", image |-> i]
    OBVIOUS
  <2>2. (\A v \in User : worker[v] # Decoder!Off) => \A v \in User : worker'[v] # Decoder!Off
    BY <1>1 DEF Off
  <2>3. \A i \in Task : (\E v \in User : worker[v] = [at |-> "decode", image |-> i])
                         => \E v \in User : worker'[v] = [at |-> "decode", image |-> i]
    BY Zenon, <1>1, <2>1
  <2>4. Decoder!WaitersAreServed
    BY DEF DecoderInv
  <2> QED BY Zenon, <2>2, <2>3, <2>4 DEF Decoder!WaitersAreServed
<1> QED BY <1>1, <1>2, <1>3

\* A thread that leaves its file for the next one.
LEMMA ThreadPasses ==
  ASSUME DecoderInv, NEW w \in User, NEW f, f = worker[w].file, worker[w].at \in {"look", "fill"},
         Decoder!Pass(w), UNCHANGED <<tasks, image>>
  PROVE  /\ f \in 1..FILES /\ Decoder!TypeOK /\ worker[w] = [at |-> worker[w].at, file |-> f]
         /\ worker' \in [User -> {Off} \cup Decoder!Unpacking \cup [at : {"load", "wait"}]
                                   \cup [at : {"decode"}, image : Task]]
         /\ passed' \subseteq 1..FILES /\ passed \subseteq passed'
         /\ (\E v \in User \ {w} : AtFile(v, f)) => f \in passed'
         /\ \A v \in User, g \in 1..FILES :
              /\ AtFile(v, g)' <=> v # w /\ AtFile(v, g)
              /\ Filling(v, g)' <=> v # w /\ Filling(v, g)
         /\ \A u \in User, g \in 1..FILES : Past(u, g)' => Past(u, g) \/ (u = w /\ g = f)
         /\ worker'[w].at \notin {"wait", "decode"} /\ \A v \in User : v # w => worker'[v] = worker[v]
         /\ StartTogether' /\ Decoder!WaitersAreServed'
<1>1. /\ f \in 1..FILES /\ Decoder!TypeOK /\ worker[w] \in Decoder!Unpacking
      /\ worker[w] # Off /\ worker[w] = [at |-> worker[w].at, file |-> f]
  BY DecoderTypes DEF DecoderInv
<1> DEFINE s == Decoder!NextFile(f)
<1>2. Decoder!Set(w, s)
  BY DEF Decoder!Pass
<1>3. /\ s # Off
      /\ \/ s = [at |-> "load"] /\ f = FILES
         \/ s = [at |-> "look", file |-> f + 1] /\ f + 1 \in 1..FILES
  BY <1>1, SharedAssumption DEF Decoder!NextFile, Decoder!Off, Off
<1> HIDE DEF s
<1>4. worker[w].at # "decode"
  OBVIOUS
<1>5. /\ worker'[w] = s /\ \A v \in User : v # w => worker'[v] = worker[v]
      /\ StartTogether' /\ Decoder!WaitersAreServed'
  BY <1>1, <1>2, <1>3, <1>4, ThreadGoesOn
<1>6. worker' \in [User -> {Off} \cup Decoder!Unpacking \cup [at : {"load", "wait"}]
                             \cup [at : {"decode"}, image : Task]]
  BY <1>1, <1>2, <1>3 DEF Decoder!TypeOK, Decoder!Set, Decoder!Unpacking, Off
<1>7. /\ passed' \subseteq 1..FILES /\ passed \subseteq passed'
      /\ (\E v \in User \ {w} : AtFile(v, f)) => f \in passed'
  <2>1. passed \subseteq 1..FILES
    BY <1>1 DEF Decoder!TypeOK
  <2> QED BY <1>1, <2>1 DEF Decoder!Pass, Decoder!OtherIsAt, AtFile
<1>8. \A g \in 1..FILES : ~AtFile(w, g)' /\ ~Filling(w, g)'
  BY <1>3, <1>5 DEF AtFile, Filling
<1>9. \A v \in User, g \in 1..FILES : /\ AtFile(v, g)' <=> v # w /\ AtFile(v, g)
                                      /\ Filling(v, g)' <=> v # w /\ Filling(v, g)
  <2> SUFFICES ASSUME NEW v \in User, NEW g \in 1..FILES
               PROVE  /\ AtFile(v, g)' <=> v # w /\ AtFile(v, g)
                      /\ Filling(v, g)' <=> v # w /\ Filling(v, g)
    OBVIOUS
  <2>1. CASE v = w
    BY <1>8, <2>1
  <2>2. CASE v # w
    BY <1>5, <2>2 DEF AtFile, Filling
  <2> QED BY <2>1, <2>2
<1>10. \A u \in User, g \in 1..FILES : Past(u, g)' => Past(u, g) \/ (u = w /\ g = f)
  <2> SUFFICES ASSUME NEW u \in User, NEW g \in 1..FILES, Past(u, g)', ~Past(u, g)
               PROVE  u = w /\ g = f
    OBVIOUS
  <2>1. u = w
    BY <1>5 DEF Past
  <2>2. f <= g
    BY <1>1, <2>1, SharedAssumption DEF Past
  <2>3. g <= f
    <3>1. CASE s = [at |-> "load"] /\ f = FILES
      BY <3>1, SharedAssumption
    <3>2. CASE s = [at |-> "look", file |-> f + 1]
      <4>1. worker'[w] # [at |-> "load"] /\ worker'[w].file = f + 1
        BY <1>5, <3>2
      <4>2. g < f + 1
        BY <2>1, <4>1 DEF Past
      <4> QED BY <1>1, <4>2, SharedAssumption
    <3> QED BY <1>3, <3>1, <3>2
  <2> QED BY <1>1, <2>1, <2>2, <2>3, SharedAssumption
<1>11. worker'[w].at \notin {"wait", "decode"}
  BY <1>3, <1>5
<1> QED BY <1>1, <1>5, <1>6, <1>7, <1>9, <1>10, <1>11

\* Nobody takes up an image while a file is left torn, in a step that sends nobody to wait.
LEMMA NobodyReads ==
  ASSUME DecoderInv, NEW w \in User, worker'[w].at \notin {"wait", "decode"}, UNCHANGED left,
         \A v \in User : v # w => worker'[v] = worker[v]
  PROVE  left' # {} => \A v \in User : worker'[v].at \notin {"wait", "decode"}
BY DEF DecoderInv, LeftStays

\* LookForFile: a worker looks whether a model file is there.
LEMMA DecoderLook ==
  ASSUME DecoderInv, NEW w \in User, Decoder!LookForFile(w)
  PROVE  DecoderInv'
<1>f. PICK f : f = worker[w].file
  OBVIOUS
<1>1. /\ worker[w].at = "look" /\ f \in 1..FILES /\ Decoder!TypeOK
      /\ worker[w] # Off /\ worker[w] = [at |-> "look", file |-> f]
      /\ UNCHANGED <<model, tasks, image, crashes, left>>
  BY Zenon, <1>f, DecoderTypes DEF DecoderInv, Decoder!LookForFile
<1>2. CASE model[f] = "none" /\ Decoder!Set(w, [worker[w] EXCEPT !.at = "write"]) /\ UNCHANGED passed
  <2> DEFINE s == [at |-> "write", file |-> f]
  <2>1. Decoder!Set(w, s) /\ s # Off
    BY <1>1, <1>2 DEF Decoder!Off, Off
  <2>2. worker[w].at # "decode"
    BY <1>1
  <2>3. /\ worker'[w] = s /\ \A v \in User : v # w => worker'[v] = worker[v]
        /\ StartTogether' /\ Decoder!WaitersAreServed'
    <3> HIDE DEF s
    <3> QED BY <1>1, <2>1, <2>2, ThreadGoesOn
  <2>4. Decoder!TypeOK'
    BY <1>1, <1>2, <2>1 DEF Decoder!TypeOK, Decoder!Set, Decoder!Unpacking
  <2>5. \A u \in User, g \in 1..FILES : Past(u, g)' => Past(u, g)
    BY <1>1, <2>3 DEF Past, Decoder!Unpacking
  <2>6. \A v \in User, g \in 1..FILES : AtFile(v, g)' => AtFile(v, g) \/ (v = w /\ g = f)
    BY <2>3 DEF AtFile
  <2>7. \A v \in User, g \in 1..FILES : Filling(v, g) => Filling(v, g)'
    BY <1>1, <2>3 DEF Filling
  <2>8. PastIsWhole'
    BY <1>1, <1>2, <2>5, <2>6 DEF DecoderInv, PastIsWhole
  <2>9. TornIsFilled'
    BY <1>1, <2>7 DEF DecoderInv, TornIsFilled
  <2>10. LeftStays'
    <3>1. worker'[w].at \notin {"wait", "decode"}
      BY <2>3
    <3>2. \A g \in left : g \in 1..FILES /\ g # f /\ model[g] = "torn" /\ \A v \in User : ~AtFile(v, g)
      BY <1>1, <1>2 DEF DecoderInv, LeftStays, Decoder!TypeOK
    <3>3. \A g \in left : model[g] = "torn" /\ \A v \in User : ~AtFile(v, g)'
      BY <2>6, <3>2
    <3> QED BY <1>1, <2>3, <3>1, <3>3, NobodyReads DEF LeftStays
  <2> QED BY <2>3, <2>4, <2>8, <2>9, <2>10 DEF DecoderInv
<1>3. CASE model[f] # "none" /\ Decoder!Pass(w)
  <2>1. /\ worker' \in [User -> {Off} \cup Decoder!Unpacking \cup [at : {"load", "wait"}]
                                 \cup [at : {"decode"}, image : Task]]
        /\ passed' \subseteq 1..FILES /\ passed \subseteq passed'
        /\ (\E v \in User \ {w} : AtFile(v, f)) => f \in passed'
        /\ \A v \in User, g \in 1..FILES :
             /\ AtFile(v, g)' <=> v # w /\ AtFile(v, g)
             /\ Filling(v, g)' <=> v # w /\ Filling(v, g)
        /\ \A u \in User, g \in 1..FILES : Past(u, g)' => Past(u, g) \/ (u = w /\ g = f)
        /\ worker'[w].at \notin {"wait", "decode"} /\ \A v \in User : v # w => worker'[v] = worker[v]
        /\ StartTogether' /\ Decoder!WaitersAreServed'
    BY <1>f, <1>1, <1>3, ThreadPasses
  <2>2. Decoder!TypeOK'
    BY <1>1, <2>1 DEF Decoder!TypeOK, Off
  <2>3. \A g \in 1..FILES : ~AtFile(w, g) /\ ~Filling(w, g)
    BY <1>1 DEF AtFile, Filling
  <2>4. f \in passed' \cup left' \/ (model'[f] = "whole" /\ \A v \in User : ~AtFile(v, f)')
    <3> SUFFICES ASSUME f \notin passed', f \notin left
                 PROVE  model[f] = "whole" /\ \A v \in User : ~AtFile(v, f)
      BY <1>1, <2>1
    <3>1. \A v \in User : ~AtFile(v, f)
      BY <1>1, <2>1, <2>3
    <3>2. \A v \in User : ~Filling(v, f)
      BY <3>1 DEF AtFile, Filling
    <3>3. model[f] # "torn"
      BY <1>1, <3>2 DEF DecoderInv, TornIsFilled
    <3>4. model[f] \in {"none", "torn", "whole"}
      BY <1>1 DEF Decoder!TypeOK
    <3> QED BY <1>3, <3>1, <3>3, <3>4
  <2>5. PastIsWhole'
    <3> SUFFICES ASSUME NEW u \in User, NEW g \in 1..FILES, Past(u, g)'
                 PROVE  g \in passed' \cup left' \/ (model'[g] = "whole" /\ \A v \in User : ~AtFile(v, g)')
      BY DEF PastIsWhole
    <3>1. CASE Past(u, g)
      BY <1>1, <2>1, <3>1 DEF DecoderInv, PastIsWhole
    <3>2. CASE g = f
      BY <2>4, <3>2
    <3> QED BY <2>1, <3>1, <3>2
  <2>6. TornIsFilled'
    BY <1>1, <2>1, <2>3 DEF DecoderInv, TornIsFilled
  <2>7. LeftStays'
    <3>1. left \subseteq 1..FILES
      BY <1>1 DEF Decoder!TypeOK
    <3>2. \A g \in left : model[g] = "torn" /\ \A v \in User : ~AtFile(v, g)'
      BY <2>1, <3>1 DEF DecoderInv, LeftStays
    <3> QED BY <1>1, <2>1, <3>2, NobodyReads DEF LeftStays
  <2> QED BY <2>1, <2>2, <2>5, <2>6, <2>7 DEF DecoderInv
<1> QED BY <1>f, <1>2, <1>3 DEF Decoder!LookForFile

\* BeginWrite: a worker begins to write a model file.
LEMMA DecoderBegin ==
  ASSUME DecoderInv, NEW w \in User, Decoder!BeginWrite(w)
  PROVE  DecoderInv'
<1>f. PICK f : f = worker[w].file
  OBVIOUS
<1>1. /\ worker[w].at = "write" /\ f \in 1..FILES /\ Decoder!TypeOK
      /\ worker[w] # Off /\ worker[w] = [at |-> "write", file |-> f]
      /\ UNCHANGED <<tasks, image, crashes, left, passed>>
      /\ model' = [model EXCEPT ![f] = "torn"]
  BY Zenon, <1>f, DecoderTypes DEF DecoderInv, Decoder!BeginWrite
<1> DEFINE s == [at |-> "fill", file |-> f]
<1>2. Decoder!Set(w, s) /\ s # Off
  BY <1>1 DEF Decoder!BeginWrite, Decoder!Off, Off
<1>3. worker[w].at # "decode"
  BY <1>1
<1>4. /\ worker'[w] = s /\ \A v \in User : v # w => worker'[v] = worker[v]
      /\ StartTogether' /\ Decoder!WaitersAreServed'
  <2> HIDE DEF s
  <2> QED BY <1>1, <1>2, <1>3, ThreadGoesOn
<1>5. Decoder!TypeOK' /\ \A g \in 1..FILES : model'[g] = IF g = f THEN "torn" ELSE model[g]
  BY <1>1, <1>2 DEF Decoder!TypeOK, Decoder!Set, Decoder!Unpacking
<1>6. \A u \in User, g \in 1..FILES : Past(u, g)' => Past(u, g)
  BY <1>1, <1>4 DEF Past, Decoder!Unpacking
<1>7. \A v \in User, g \in 1..FILES : AtFile(v, g)' <=> AtFile(v, g)
  BY <1>1, <1>4 DEF AtFile
<1>8. AtFile(w, f) /\ Filling(w, f)'
  BY <1>1, <1>4 DEF AtFile, Filling
<1>9. \A v \in User, g \in 1..FILES : Filling(v, g) => Filling(v, g)'
  BY <1>1, <1>4 DEF Filling
<1>10. PastIsWhole'
  BY <1>1, <1>5, <1>6, <1>7, <1>8 DEF DecoderInv, PastIsWhole
<1>11. TornIsFilled'
  BY <1>1, <1>5, <1>8, <1>9 DEF DecoderInv, TornIsFilled
<1>12. LeftStays'
  <2>1. worker'[w].at \notin {"wait", "decode"}
    BY <1>4
  <2>2. left \subseteq 1..FILES
    BY <1>1 DEF Decoder!TypeOK
  <2>3. \A g \in left : model'[g] = "torn" /\ \A v \in User : ~AtFile(v, g)'
    BY <1>5, <1>7, <2>2 DEF DecoderInv, LeftStays
  <2> QED BY <1>1, <1>4, <2>1, <2>3, NobodyReads DEF LeftStays
<1> QED BY <1>4, <1>5, <1>10, <1>11, <1>12 DEF DecoderInv

\* EndWrite: a model file is whole, or another worker is still at it.
LEMMA DecoderEnd ==
  ASSUME DecoderInv, NEW w \in User, Decoder!EndWrite(w)
  PROVE  DecoderInv'
<1>f. PICK f : f = worker[w].file
  OBVIOUS
<1>1. worker[w].at = "fill" /\ Decoder!Pass(w) /\ UNCHANGED <<tasks, image, crashes, left>>
  BY DEF Decoder!EndWrite
<1>2. PICK now_ \in {"whole", "torn"} :
        /\ model' = [model EXCEPT ![f] = now_]
        /\ now_ = "torn" => \E v \in User \ {w} : worker[v] = worker[w]
  BY Zenon, <1>f DEF Decoder!EndWrite
<1>3. /\ f \in 1..FILES /\ Decoder!TypeOK /\ worker[w] = [at |-> worker[w].at, file |-> f]
      /\ worker' \in [User -> {Off} \cup Decoder!Unpacking \cup [at : {"load", "wait"}]
                               \cup [at : {"decode"}, image : Task]]
      /\ passed' \subseteq 1..FILES /\ passed \subseteq passed'
      /\ (\E v \in User \ {w} : AtFile(v, f)) => f \in passed'
      /\ \A v \in User, g \in 1..FILES :
           /\ AtFile(v, g)' <=> v # w /\ AtFile(v, g)
           /\ Filling(v, g)' <=> v # w /\ Filling(v, g)
      /\ \A u \in User, g \in 1..FILES : Past(u, g)' => Past(u, g) \/ (u = w /\ g = f)
      /\ worker'[w].at \notin {"wait", "decode"} /\ \A v \in User : v # w => worker'[v] = worker[v]
      /\ StartTogether' /\ Decoder!WaitersAreServed'
  BY <1>f, <1>1, ThreadPasses
<1>4. worker[w] = [at |-> "fill", file |-> f] /\ AtFile(w, f)
  BY <1>1, <1>3 DEF AtFile
<1>5. \A g \in 1..FILES : model'[g] = IF g = f THEN now_ ELSE model[g]
  BY <1>2, <1>3 DEF Decoder!TypeOK
<1>6. Decoder!TypeOK'
  BY <1>1, <1>2, <1>3 DEF Decoder!TypeOK, Off
<1>7. now_ = "torn" => \E v \in User \ {w} : Filling(v, f) /\ AtFile(v, f)
  BY <1>2, <1>4 DEF Filling, AtFile
<1>8. \A g \in 1..FILES : Filling(w, g) => g = f
  BY <1>4 DEF Filling
<1>9. PastIsWhole'
  <2> SUFFICES ASSUME NEW u \in User, NEW g \in 1..FILES, Past(u, g)'
               PROVE  g \in passed' \cup left' \/ (model'[g] = "whole" /\ \A v \in User : ~AtFile(v, g)')
    BY DEF PastIsWhole
  <2>1. CASE Past(u, g) /\ g # f
    BY <1>1, <1>3, <1>5, <2>1 DEF DecoderInv, PastIsWhole
  <2>2. CASE Past(u, g) /\ g = f
    BY <1>1, <1>3, <1>4, <2>2 DEF DecoderInv, PastIsWhole
  <2>3. CASE g = f
    <3> SUFFICES ASSUME f \notin passed' PROVE model'[f] = "whole" /\ \A v \in User : ~AtFile(v, f)'
      BY <2>3
    <3>1. \A v \in User \ {w} : ~AtFile(v, f)
      BY <1>3
    <3>2. now_ = "whole"
      BY <1>7, <3>1
    <3> QED BY <1>3, <1>5, <3>1, <3>2
  <2> QED BY <1>3, <2>1, <2>2, <2>3
<1>10. TornIsFilled'
  <2> SUFFICES ASSUME NEW g \in 1..FILES, model'[g] = "torn"
               PROVE  g \in left \/ \E v \in User : Filling(v, g)'
    BY <1>1 DEF TornIsFilled
  <2>1. CASE g = f
    <3>1. PICK v \in User \ {w} : Filling(v, f)
      BY <1>5, <1>7, <2>1
    <3> QED BY <1>3, <2>1, <3>1
  <2>2. CASE g # f
    <3>1. g \in left \/ \E v \in User : Filling(v, g)
      BY <1>5, <2>2 DEF DecoderInv, TornIsFilled
    <3> QED BY <1>3, <1>8, <2>2, <3>1
  <2> QED BY <2>1, <2>2
<1>11. LeftStays'
  <2>1. \A g \in left : g \in 1..FILES /\ g # f
    BY <1>3, <1>4 DEF DecoderInv, LeftStays, Decoder!TypeOK
  <2>2. \A g \in left : model'[g] = "torn" /\ \A v \in User : ~AtFile(v, g)'
    BY <1>3, <1>5, <2>1 DEF DecoderInv, LeftStays
  <2> QED BY <1>1, <1>3, <2>2, NobodyReads DEF LeftStays
<1> QED BY <1>3, <1>6, <1>9, <1>10, <1>11 DEF DecoderInv

\* ProcessImage: an image is queued, and the workers are started.
LEMMA DecoderProcess ==
  ASSUME DecoderInv, NEW i \in Task, Decoder!ProcessImage(i)
  PROVE  DecoderInv'
<1>1. /\ UNCHANGED <<model, crashes, left, passed>> /\ Decoder!TypeOK
      /\ tasks' = Append(tasks, i) /\ image' = [image EXCEPT ![i] = "sent"]
      /\ \A w \in User : worker'[w] = IF worker[w] = Off THEN [at |-> "look", file |-> 1] ELSE worker[w]
      /\ \A w \in User : worker'[w] # Off
  BY DEF DecoderInv, Decoder!ProcessImage, Decoder!Off, Off
<1>2. 1 \in 1..FILES
  BY SharedAssumption
<1>3. worker' \in [User -> {Decoder!Off} \cup Decoder!Unpacking
                     \cup [at : {"load", "wait"}] \cup [at : {"decode"}, image : Task]]
  BY <1>1, <1>2 DEF Decoder!TypeOK, Decoder!ProcessImage, Decoder!Unpacking
<1>4. tasks \in Seq(Task) /\ image \in [Task -> {"none", "sent", "answered"}]
  BY <1>1 DEF Decoder!TypeOK
<1>5. Decoder!TypeOK'
  <2>1. tasks' \in Seq(Task) /\ image' \in [Task -> {"none", "sent", "answered"}]
    BY <1>1, <1>4
  <2> QED BY <1>1, <1>3, <2>1 DEF Decoder!TypeOK
<1>6. \A v \in User, g \in 1..FILES : /\ AtFile(v, g)' <=> AtFile(v, g)
                                      /\ Filling(v, g)' <=> Filling(v, g)
  BY <1>1 DEF AtFile, Filling, Decoder!Off, Off
<1>7. \A u \in User, g \in 1..FILES : Past(u, g)' => Past(u, g)
  <2> SUFFICES ASSUME NEW u \in User, NEW g \in 1..FILES, Past(u, g)' PROVE Past(u, g)
    OBVIOUS
  <2>1. CASE worker[u] = Off
    <3>1. worker'[u] = [at |-> "look", file |-> 1]
      BY <1>1, <2>1
    <3>2. worker'[u].file = 1 /\ worker'[u] # [at |-> "load"]
      BY <3>1
    <3>3. g < 1
      BY <3>2 DEF Past
    <3> QED BY <3>3, SharedAssumption
  <2>2. CASE worker[u] # Off
    BY <1>1, <2>2 DEF Past
  <2> QED BY <2>1, <2>2
<1>8. PastIsWhole' /\ TornIsFilled'
  BY <1>1, <1>6, <1>7 DEF DecoderInv, PastIsWhole, TornIsFilled
<1>9. LeftStays'
  <2>1. left \subseteq 1..FILES
    BY <1>1 DEF Decoder!TypeOK
  <2>2. \A w \in User : worker'[w].at \in {"wait", "decode"} => worker[w].at \in {"wait", "decode"}
    BY <1>1
  <2> QED BY <1>1, <1>6, <2>1, <2>2 DEF DecoderInv, LeftStays
<1>10. StartTogether'
  BY <1>1 DEF StartTogether
<1>11. Decoder!WaitersAreServed'
  <2> SUFFICES ASSUME NEW j \in Task, image'[j] = "sent"
               PROVE  \/ (\E k \in 1..Len(tasks') : tasks'[k] = j) /\ \A w \in User : worker'[w] # Decoder!Off
                      \/ \E w \in User : worker'[w] = [at |-> "decode", image |-> j]
    BY Zenon DEF Decoder!WaitersAreServed
  <2>0. \A w \in User : worker'[w] # Decoder!Off
    BY <1>1 DEF Off
  <2>1. CASE j = i
    <3>1. tasks'[Len(tasks')] = j /\ Len(tasks') \in 1..Len(tasks')
      BY <1>1, <1>4, <2>1
    <3> QED BY <2>0, <3>1
  <2>2. CASE j # i
    <3>1. image[j] = "sent"
      BY <1>1, <1>4, <2>2
    <3>2. CASE \E k \in 1..Len(tasks) : tasks[k] = j
      <4>1. PICK k \in 1..Len(tasks) : tasks[k] = j
        BY <3>2
      <4>2. k \in 1..Len(tasks') /\ tasks'[k] = j
        BY <1>1, <1>4, <4>1
      <4> QED BY <2>0, <4>2
    <3>3. CASE \E w \in User : worker[w] = [at |-> "decode", image |-> j]
      BY <1>1, <3>3 DEF Decoder!Off, Off
    <3> QED BY <3>1, <3>2, <3>3 DEF DecoderInv, Decoder!WaitersAreServed
  <2> QED BY <2>1, <2>2
<1> QED BY <1>5, <1>8, <1>9, <1>10, <1>11 DEF DecoderInv

\* The program ends, and what was written stays.
LEMMA DecoderEnds ==
  ASSUME DecoderInv, Decoder!Ends, crashes' \in 0..MaxCrashes
  PROVE  DecoderInv'
<1>1. /\ \A w \in User : worker'[w] = Off /\ worker'[w].at = "off" /\ worker'[w] \notin Decoder!Unpacking
      /\ tasks' = <<>> /\ image' = [i \in Task |-> "none"]
      /\ worker' = [w \in User |-> Decoder!Off] /\ UNCHANGED model
      /\ left' = {f \in 1..FILES : model[f] = "torn"} /\ passed' = {} /\ Decoder!TypeOK
  BY DEF DecoderInv, Decoder!Ends, Decoder!Off, Off, Decoder!Unpacking
<1>2. Decoder!TypeOK'
  BY <1>1 DEF Decoder!TypeOK
<1>3. PastIsWhole'
  BY <1>1 DEF PastIsWhole, Past
<1>4. TornIsFilled'
  BY <1>1 DEF TornIsFilled
<1>5. LeftStays'
  <2>1. \A v \in User, g \in 1..FILES : ~AtFile(v, g)'
    BY <1>1 DEF AtFile
  <2> QED BY <1>1, <2>1 DEF LeftStays
<1>6. StartTogether'
  BY <1>1 DEF StartTogether
<1>7. Decoder!WaitersAreServed'
  BY <1>1 DEF Decoder!WaitersAreServed
<1> QED BY <1>2, <1>3, <1>4, <1>5, <1>6, <1>7 DEF DecoderInv

\* The steps with which it ends, but for Load.
LEMMA DecoderFails ==
  ASSUME DecoderInv, Decoder!Crash \/ \E w \in User : Decoder!FailToUnpack(w)
  PROVE  DecoderInv'
<1>1. crashes' \in 0..MaxCrashes /\ Decoder!Ends
  BY SharedAssumption DEF DecoderInv, Decoder!TypeOK, Decoder!Crash, Decoder!FailToUnpack
<1> QED BY <1>1, DecoderEnds

\* Load: a worker that finds all files whole waits for an image; else the program ends.
LEMMA DecoderLoad ==
  ASSUME DecoderInv, NEW w \in User, Decoder!Load(w)
  PROVE  DecoderInv'
<1>1. /\ worker[w].at = "load" /\ Decoder!TypeOK /\ UNCHANGED crashes
      /\ worker[w] # Off /\ worker[w] = [at |-> "load"]
  BY Zenon, DecoderTypes DEF DecoderInv, Decoder!Load
<1>2. CASE Decoder!Ends
  <2>1. crashes' \in 0..MaxCrashes
    BY <1>1 DEF Decoder!TypeOK
  <2> QED BY <1>2, <2>1, DecoderEnds
<1>3. CASE /\ \A f \in 1..FILES : model[f] = "whole"
           /\ Decoder!Set(w, [at |-> "wait"]) /\ UNCHANGED <<model, tasks, image, left, passed>>
  <2> DEFINE s == [at |-> "wait"]
  <2>1. Decoder!Set(w, s) /\ s # Off /\ worker[w].at # "decode"
    BY <1>1, <1>3 DEF Decoder!Off, Off
  <2>2. /\ worker'[w] = s /\ \A v \in User : v # w => worker'[v] = worker[v]
        /\ StartTogether' /\ Decoder!WaitersAreServed'
    <3> HIDE DEF s
    <3> QED BY <1>1, <1>3, <2>1, ThreadGoesOn
  <2>3. Decoder!TypeOK'
    BY <1>1, <1>3 DEF Decoder!TypeOK, Decoder!Set
  <2>4. \A u \in User, g \in 1..FILES : Past(u, g)' => Past(u, g)
    BY <1>1, <2>2 DEF Past, Decoder!Unpacking
  <2>5. \A v \in User, g \in 1..FILES : /\ AtFile(v, g)' => AtFile(v, g)
                                        /\ Filling(v, g) => Filling(v, g)'
    BY <1>1, <2>2 DEF AtFile, Filling
  <2>6. PastIsWhole' /\ TornIsFilled'
    BY <1>3, <2>4, <2>5 DEF DecoderInv, PastIsWhole, TornIsFilled
  <2>7. left = {}
    <3>1. left \subseteq 1..FILES
      BY <1>1 DEF Decoder!TypeOK
    <3> QED BY <1>3, <3>1 DEF DecoderInv, LeftStays
  <2>8. LeftStays'
    BY <1>3, <2>7 DEF LeftStays
  <2> QED BY <2>2, <2>3, <2>6, <2>8 DEF DecoderInv
<1> QED BY <1>2, <1>3 DEF Decoder!Load

\* Only the files matter to what is past, torn or left; a thread that reads codes is at none.
LEMMA ThreadReads ==
  ASSUME DecoderInv, NEW w \in User, UNCHANGED <<model, left, passed>>,
         worker[w].at \in {"wait", "decode"}, worker'[w].at \in {"wait", "decode"},
         \A v \in User : v # w => worker'[v] = worker[v]
  PROVE  PastIsWhole' /\ TornIsFilled' /\ LeftStays'
<1>1. left = {}
  BY DEF DecoderInv, LeftStays
<1>2. \A g \in 1..FILES : ~Past(w, g)'
  BY DEF Past, Decoder!Unpacking
<1>3. \A u \in User, g \in 1..FILES : Past(u, g)' => Past(u, g)
  BY <1>2 DEF Past
<1>4. \A g \in 1..FILES : ~AtFile(w, g)' /\ ~AtFile(w, g) /\ ~Filling(w, g)
  BY DEF AtFile, Filling
<1>5. \A v \in User, g \in 1..FILES : /\ AtFile(v, g)' => AtFile(v, g)
                                      /\ Filling(v, g) => Filling(v, g)'
  BY <1>4 DEF AtFile, Filling
<1> QED BY <1>1, <1>3, <1>5 DEF DecoderInv, PastIsWhole, TornIsFilled, LeftStays

\* Receive: a worker takes the image at the head of the queue.
LEMMA DecoderReceive ==
  ASSUME DecoderInv, NEW w \in User, Decoder!Receive(w)
  PROVE  DecoderInv'
<1>1. /\ worker[w].at = "wait" /\ Decoder!TypeOK /\ tasks \in Seq(Task) /\ tasks # <<>>
      /\ UNCHANGED <<model, image, crashes, left, passed>>
      /\ worker[w] # Off /\ worker[w] = [at |-> "wait"] /\ tasks' = Tail(tasks)
  BY DecoderTypes DEF DecoderInv, Decoder!Receive, Decoder!TypeOK
<1>2. PICK i \in Task : i = Head(tasks)
  BY <1>1
<1>3. worker' = [worker EXCEPT ![w] = [at |-> "decode", image |-> i]]
  BY <1>2 DEF Decoder!Receive, Decoder!Set
<1>4. /\ worker'[w] = [at |-> "decode", image |-> i] /\ \A v \in User : v # w => worker'[v] = worker[v]
      /\ worker'[w] # Off
  BY <1>1, <1>3 DEF Decoder!TypeOK, Decoder!Off, Off
<1>5. Decoder!TypeOK'
  BY <1>1, <1>3 DEF Decoder!TypeOK
<1>6. PastIsWhole' /\ TornIsFilled' /\ LeftStays'
  <2>1. worker[w].at \in {"wait", "decode"} /\ worker'[w].at \in {"wait", "decode"}
    BY <1>1, <1>4
  <2> QED BY <1>1, <1>4, <2>1, ThreadReads
<1>7. StartTogether'
  BY <1>1, <1>4 DEF DecoderInv, StartTogether
<1>8. Decoder!WaitersAreServed'
  <2> SUFFICES ASSUME NEW j \in Task, image[j] = "sent"
               PROVE  \/ (\E k \in 1..Len(tasks') : tasks'[k] = j) /\ \A v \in User : worker'[v] # Decoder!Off
                      \/ \E v \in User : worker'[v] = [at |-> "decode", image |-> j]
    BY Zenon, <1>1 DEF Decoder!WaitersAreServed
  <2>1. \A v \in User : worker[v] = [at |-> "decode", image |-> j] => worker'[v] = worker[v]
    BY <1>1, <1>4
  <2>2. (\A v \in User : worker[v] # Decoder!Off) => \A v \in User : worker'[v] # Decoder!Off
    BY <1>4 DEF Off
  <2>3. ASSUME NEW k \in 1..Len(tasks), tasks[k] = j, j # i
        PROVE  k - 1 \in 1..Len(tasks') /\ tasks'[k - 1] = j
    BY <1>1, <1>2, <2>3
  <2> QED BY <1>4, <2>1, <2>2, <2>3 DEF DecoderInv, Decoder!WaitersAreServed
<1> QED BY <1>5, <1>6, <1>7, <1>8 DEF DecoderInv

\* Reply: the image is answered.
LEMMA DecoderReply ==
  ASSUME DecoderInv, NEW w \in User, Decoder!Reply(w)
  PROVE  DecoderInv'
<1>1. /\ worker[w].at = "decode" /\ Decoder!TypeOK /\ UNCHANGED <<model, tasks, crashes, left, passed>>
      /\ worker[w] # Off
  BY Zenon, DecoderTypes DEF DecoderInv, Decoder!Reply
<1>2. PICK i \in Task : worker[w] = [at |-> "decode", image |-> i]
  BY Zenon, <1>1, DecoderTypes
<1>3. image' = [image EXCEPT ![i] = "answered"] /\ worker' = [worker EXCEPT ![w] = [at |-> "wait"]]
  BY <1>2 DEF Decoder!Reply, Decoder!Set
<1>4. /\ worker'[w] = [at |-> "wait"] /\ \A v \in User : v # w => worker'[v] = worker[v]
      /\ worker'[w] # Off
      /\ \A j \in Task : image'[j] = IF j = i THEN "answered" ELSE image[j]
  BY <1>1, <1>3 DEF Decoder!TypeOK, Decoder!Off, Off
<1>5. Decoder!TypeOK'
  BY <1>1, <1>3 DEF Decoder!TypeOK
<1>6. PastIsWhole' /\ TornIsFilled' /\ LeftStays'
  <2>1. worker[w].at \in {"wait", "decode"} /\ worker'[w].at \in {"wait", "decode"}
    BY <1>1, <1>4
  <2> QED BY <1>1, <1>4, <2>1, ThreadReads
<1>7. StartTogether'
  BY <1>1, <1>4 DEF DecoderInv, StartTogether
<1>8. Decoder!WaitersAreServed'
  <2> SUFFICES ASSUME NEW j \in Task, image'[j] = "sent"
               PROVE  \/ (\E k \in 1..Len(tasks) : tasks[k] = j) /\ \A v \in User : worker'[v] # Decoder!Off
                      \/ \E v \in User : worker'[v] = [at |-> "decode", image |-> j]
    BY Zenon, <1>1 DEF Decoder!WaitersAreServed
  <2>1. j # i /\ image[j] = "sent"
    BY <1>4
  <2>2. \A v \in User : worker[v] = [at |-> "decode", image |-> j] => worker'[v] = worker[v]
    <3> SUFFICES ASSUME NEW v \in User, worker[v] = [at |-> "decode", image |-> j]
                 PROVE  v # w
      BY <1>4
    <3>1. worker[v].image = j /\ worker[w].image = i
      BY <1>2
    <3> QED BY <2>1, <3>1
  <2>3. (\A v \in User : worker[v] # Decoder!Off) => \A v \in User : worker'[v] # Decoder!Off
    BY <1>4 DEF Off
  <2> QED BY <2>1, <2>2, <2>3 DEF DecoderInv, Decoder!WaitersAreServed
<1> QED BY <1>5, <1>6, <1>7, <1>8 DEF DecoderInv

\* Every step keeps the invariant.
LEMMA DecoderStep == DecoderInv /\ (Decoder!Next \/ UNCHANGED decoderVars) => DecoderInv'
<1>1. DecoderInv /\ UNCHANGED decoderVars => DecoderInv'
  BY DEF DecoderInv, decoderVars, Decoder!TypeOK, Past, AtFile, Filling, PastIsWhole, TornIsFilled,
         LeftStays, StartTogether, Decoder!WaitersAreServed
<1> QED BY <1>1, DecoderFails, DecoderProcess, DecoderLook, DecoderBegin, DecoderEnd, DecoderLoad,
           DecoderReceive, DecoderReply DEF Decoder!Next

\* The invariant has the properties the runs check.
LEMMA DecoderHold == DecoderInv => Decoder!LoadsWholeFiles /\ Decoder!TornForGood
<1> SUFFICES ASSUME DecoderInv PROVE Decoder!LoadsWholeFiles /\ Decoder!TornForGood
  OBVIOUS
<1>1. \A w \in User : worker[w].at = "load" => worker[w] = [at |-> "load"]
  BY DecoderTypes DEF DecoderInv
<1> QED BY <1>1 DEF DecoderInv, PastIsWhole, Past, LeftStays, Decoder!LoadsWholeFiles, Decoder!TornForGood
-----------------------------------------------------------------------------
(* Temporary files (TempFiles).                                            *)

\* The names in a queue, each of which is there once.
Names(q) == {q[i] : i \in 1..Len(q)}
Once(q) == \A i, k \in 1..Len(q) : q[i] = q[k] => i = k

\* A finite set can be put into a sequence.
LEMMA SeqOfSet ==
  ASSUME NEW S, IsFiniteSet(S)
  PROVE  /\ Files!SetToSeq(S) \in Seq(S)
         /\ Names(Files!SetToSeq(S)) = S /\ Once(Files!SetToSeq(S))
<1> DEFINE n == Cardinality(S)
           T == {f \in [1..n -> S] : Files!IsInjective(f)}
<1>1. n \in Nat /\ ExistsBijection(1..n, S)
  BY FS_CardinalityType
<1>2. PICK f \in Bijection(1..n, S) : TRUE
  BY <1>1 DEF ExistsBijection
<1>3. f \in [1..n -> S] /\ Files!IsInjective(f)
  BY <1>2 DEF Bijection, Injection, Files!IsInjective, IsInjective
<1>4. Files!SetToSeq(S) = CHOOSE g \in [1..Files!Cardinality(S) -> S] : Files!IsInjective(g)
  BY DEF Files!SetToSeq
<1>5. Files!Cardinality(S) = n
  BY DEF Files!Cardinality, Cardinality
<1>6. PICK g : g = Files!SetToSeq(S)
  OBVIOUS
<1>7. g \in [1..n -> S] /\ Files!IsInjective(g)
  BY <1>3, <1>4, <1>5, <1>6
<1>8. g \in Seq(S) /\ Len(g) = n
  BY <1>1, <1>7
<1>9. Once(g)
  BY <1>7, <1>8 DEF Once, Files!IsInjective
<1>10. Names(g) = S
  <2>1. g \in Injection(1..n, S)
    BY <1>7 DEF Injection, Files!IsInjective, IsInjective
  <2>2. 1 \in Int /\ n \in Int
    BY <1>1
  <2>3. IsFiniteSet(1..n) /\ Cardinality(1..n) = n
    BY <1>1, <2>2, FS_Interval
  <2>4. g \in Surjection(1..n, S)
    BY <2>1, <2>3, FS_Injection
  <2> QED BY <1>8, <2>4 DEF Names, Surjection
<1> QED BY <1>6, <1>8, <1>9, <1>10

\* A queue that a set is appended to has the names of both, each once.
LEMMA QueueGrows ==
  ASSUME NEW T, NEW q \in Seq(T), Once(q), NEW S \in SUBSET T, IsFiniteSet(S), S \cap Names(q) = {}
  PROVE  /\ q \o Files!SetToSeq(S) \in Seq(T) /\ Once(q \o Files!SetToSeq(S))
         /\ Names(q \o Files!SetToSeq(S)) = Names(q) \cup S
<1>1. PICK s : s = Files!SetToSeq(S)
  OBVIOUS
<1>2. s \in Seq(S) /\ Names(s) = S /\ Once(s)
  BY <1>1, SeqOfSet
<1>3. s \in Seq(T)
  BY <1>2
<1> DEFINE w == q \o s
<1>4. /\ w \in Seq(T) /\ Len(w) = Len(q) + Len(s) /\ Len(q) \in Nat /\ Len(s) \in Nat
      /\ \A i \in 1..Len(w) : w[i] = IF i <= Len(q) THEN q[i] ELSE s[i - Len(q)]
  BY <1>3
<1> HIDE DEF w
<1>5. Names(w) = Names(q) \cup S
  <2>1. ASSUME NEW x \in Names(w) PROVE x \in Names(q) \cup S
    <3>1. PICK i \in 1..Len(w) : x = w[i]
      BY DEF Names
    <3>2. CASE i <= Len(q)
      BY <1>4, <3>1, <3>2 DEF Names
    <3>3. CASE ~(i <= Len(q))
      <4>1. i - Len(q) \in 1..Len(s) /\ x = s[i - Len(q)]
        BY <1>4, <3>1, <3>3
      <4>2. x \in Names(s)
        BY <4>1 DEF Names
      <4> QED BY <1>2, <4>2
    <3> QED BY <3>2, <3>3
  <2>2. ASSUME NEW x \in Names(q) PROVE x \in Names(w)
    <3>1. PICK i \in 1..Len(q) : x = q[i]
      BY DEF Names
    <3>2. i \in 1..Len(w) /\ x = w[i]
      BY <1>4, <3>1
    <3> QED BY <3>2 DEF Names
  <2>3. ASSUME NEW x \in S PROVE x \in Names(w)
    <3>1. PICK i \in 1..Len(s) : x = s[i]
      BY <1>2 DEF Names
    <3>2. /\ i + Len(q) \in 1..Len(w) /\ ~(i + Len(q) <= Len(q))
          /\ (i + Len(q)) - Len(q) = i
      BY <1>4, <3>1
    <3>3. x = w[i + Len(q)]
      BY <1>4, <3>1, <3>2
    <3> QED BY <3>2, <3>3 DEF Names
  <2> QED BY <2>1, <2>2, <2>3
<1>6. Once(w)
  <2> SUFFICES ASSUME NEW i \in 1..Len(w), NEW k \in 1..Len(w), w[i] = w[k] PROVE i = k
    BY DEF Once
  <2>1. \A x \in 1..Len(w) : /\ x <= Len(q) => x \in 1..Len(q) /\ w[x] \in Names(q)
                             /\ ~(x <= Len(q)) => x - Len(q) \in 1..Len(s) /\ w[x] \in Names(s)
    <3> SUFFICES ASSUME NEW x \in 1..Len(w)
                 PROVE  /\ x <= Len(q) => x \in 1..Len(q) /\ w[x] \in Names(q)
                        /\ ~(x <= Len(q)) => x - Len(q) \in 1..Len(s) /\ w[x] \in Names(s)
      OBVIOUS
    <3>1. x <= Len(q) => x \in 1..Len(q) /\ w[x] = q[x]
      BY <1>4
    <3>2. ~(x <= Len(q)) => x - Len(q) \in 1..Len(s) /\ w[x] = s[x - Len(q)]
      BY <1>4
    <3> QED BY <3>1, <3>2 DEF Names
  <2>2. i <= Len(q) <=> k <= Len(q)
    <3>1. w[i] \in Names(q) => w[k] \notin Names(s)
      BY <1>2
    <3>2. w[k] \in Names(q) => w[i] \notin Names(s)
      BY <1>2
    <3>n. Len(q) \in Nat /\ Len(w) \in Nat
      BY <1>4
    <3>3. i <= Len(q) => w[i] \in Names(q)
      BY <2>1, <3>n
    <3>4. ~(i <= Len(q)) => w[i] \in Names(s)
      BY <2>1, <3>n
    <3>5. k <= Len(q) => w[k] \in Names(q)
      BY <2>1, <3>n
    <3>6. ~(k <= Len(q)) => w[k] \in Names(s)
      BY <2>1, <3>n
    <3> QED BY <3>1, <3>2, <3>3, <3>4, <3>5, <3>6
  <2>3. CASE i <= Len(q)
    BY <1>4, <2>1, <2>2, <2>3 DEF Once
  <2>4. CASE ~(i <= Len(q))
    <3>1. s[i - Len(q)] = s[k - Len(q)] /\ i - Len(q) \in 1..Len(s) /\ k - Len(q) \in 1..Len(s)
      BY <1>4, <2>1, <2>2, <2>4
    <3>2. i - Len(q) = k - Len(q)
      BY Zenon, <1>2, <3>1 DEF Once
    <3> QED BY <1>4, <3>2
  <2> QED BY <2>3, <2>4
<1>7. w = q \o Files!SetToSeq(S)
  BY <1>1 DEF w
<1> QED BY <1>4, <1>5, <1>6, <1>7

\* A queue that loses its head loses that name.
LEMMA QueueShrinks ==
  ASSUME NEW T, NEW q \in Seq(T), Once(q), q # <<>>
  PROVE  /\ Tail(q) \in Seq(T) /\ Once(Tail(q)) /\ Head(q) \in Names(q) /\ Head(q) \in T
         /\ Names(Tail(q)) = Names(q) \ {Head(q)}
<1>1. PICK t : t = Tail(q)
  BY Zenon
<1>2. /\ t \in Seq(T) /\ Len(q) \in Nat \ {0} /\ Len(t) = Len(q) - 1 /\ Head(q) = q[1] /\ Head(q) \in T
      /\ \A i \in 1..Len(t) : t[i] = q[i + 1]
  BY <1>1
<1>3. Once(t)
  <2> SUFFICES ASSUME NEW i \in 1..Len(t), NEW k \in 1..Len(t), t[i] = t[k] PROVE i = k
    BY DEF Once
  <2>1. i + 1 \in 1..Len(q) /\ k + 1 \in 1..Len(q) /\ q[i + 1] = q[k + 1]
    BY <1>2
  <2>2. i + 1 = k + 1
    BY <2>1 DEF Once
  <2> QED BY <1>2, <2>2
<1>4. 1 \in 1..Len(q)
  BY <1>2
<1>5. Names(t) = Names(q) \ {q[1]}
  <2>1. ASSUME NEW x \in Names(t) PROVE x \in Names(q) /\ x # q[1]
    <3>1. PICK i \in 1..Len(t) : x = t[i]
      BY DEF Names
    <3>2. i + 1 \in 1..Len(q) /\ x = q[i + 1] /\ i + 1 # 1
      BY <1>2, <3>1
    <3>3. q[i + 1] # q[1]
      BY <1>4, <3>2 DEF Once
    <3> QED BY <3>2, <3>3 DEF Names
  <2>2. ASSUME NEW x \in Names(q), x # q[1] PROVE x \in Names(t)
    <3>1. PICK i \in 1..Len(q) : x = q[i]
      BY DEF Names
    <3>2. i - 1 \in 1..Len(t) /\ x = t[i - 1]
      BY <1>2, <2>2, <3>1
    <3> QED BY <3>2 DEF Names
  <2> QED BY <2>1, <2>2
<1>6. Head(q) \in Names(q)
  BY <1>2, <1>4 DEF Names
<1> QED BY <1>1, <1>2, <1>3, <1>5, <1>6

\* The empty queue has no names.
LEMMA QueueEmpty == Names(<<>>) = {} /\ Once(<<>>)
BY DEF Names, Once

\* The ranges of a file lie in it and cover it.
Covers(ranges, size) ==
  /\ ranges \subseteq Nat \X Nat
  /\ \A k \in ranges : k[2] < size
  /\ \A b \in Nat : b < size => \E k \in ranges : k[1] <= b /\ b <= k[2]

\* One range covers a file that is fetched whole.
LEMMA WholeCovers ==
  ASSUME NEW size \in Nat
  PROVE  Covers(Files!Whole(size), size)
<1>1. CASE size = 0
  BY <1>1 DEF Covers, Files!Whole
<1>2. CASE size # 0
  <2>1. Files!Whole(size) = {<<0, size - 1>>} /\ <<0, size - 1>> \in Nat \X Nat
    BY <1>2 DEF Files!Whole
  <2>2. \A b \in Nat : b < size => 0 <= b /\ b <= size - 1
    OBVIOUS
  <2> QED BY <2>1, <2>2 DEF Covers
<1> QED BY <1>1, <1>2

\* A quotient times its divisor is no more than what was divided.
LEMMA Division ==
  ASSUME NEW a \in Nat, NEW o \in Nat \ {0}
  PROVE  a \div o \in Nat /\ (a \div o) * o <= a
OBVIOUS

\* A product grows with its factor.
LEMMA ProductGrows ==
  ASSUME NEW c \in Nat, NEW i \in Nat, NEW k \in Nat, i <= k
  PROVE  i * c <= k * c
<1>1. PICK d \in Nat : k = i + d
  <2>1. k - i \in Nat /\ k = i + (k - i)
    OBVIOUS
  <2> QED BY <2>1
<1>2. k * c = i * c + d * c
  BY <1>1
<1>3. i * c \in Nat /\ d * c \in Nat
  OBVIOUS
<1> QED BY <1>2, <1>3

\* The ranges of calculate_chunks cover the file, the last one included.
LEMMA ChunksCover ==
  ASSUME NEW size \in Nat
  PROVE  Covers(Files!Chunks(size), size)
<1> DEFINE o == OPTIMAL_CHUNKS
           c == size \div OPTIMAL_CHUNKS
<1>o. o \in Nat /\ o # 0 /\ o >= 1
  BY FilesAssumption
<1>c. c \in Nat /\ c * o <= size
  BY <1>o, Division
<1>1. CASE size = 0
  BY <1>1 DEF Covers, Files!Chunks
<1>2. CASE size # 0 /\ c = 0
  <2>1. Files!ChunkSize(size) = size
    BY <1>2 DEF Files!ChunkSize
  <2>2. Files!Chunks(size) = {<<i * size, IF i = 1 - 1 THEN size - 1 ELSE (i + 1) * size - 1>> : i \in 0..(1 - 1)}
    BY <1>2, <2>1 DEF Files!Chunks
  <2>3. Files!Chunks(size) = {<<0, size - 1>>} /\ <<0, size - 1>> \in Nat \X Nat
    BY <1>2, <2>2
  <2>4. \A b \in Nat : b < size => 0 <= b /\ b <= size - 1
    OBVIOUS
  <2> QED BY <2>3, <2>4 DEF Covers
<1>3. CASE size # 0 /\ c # 0
  <2>1. Files!ChunkSize(size) = c
    BY <1>3 DEF Files!ChunkSize
  <2> DEFINE top(i) == IF i = o - 1 THEN size - 1 ELSE (i + 1) * c - 1
  <2>2. Files!Chunks(size) = {<<i * c, top(i)>> : i \in 0..(o - 1)}
    BY <1>3, <2>1 DEF Files!Chunks
  <2>3. \A i \in 0..(o - 1) : i * c \in Nat /\ top(i) \in Nat /\ top(i) < size
    <3> SUFFICES ASSUME NEW i \in 0..(o - 1) PROVE i * c \in Nat /\ top(i) \in Nat /\ top(i) < size
      OBVIOUS
    <3>1. i \in Nat /\ i + 1 \in Nat /\ i + 1 <= o
      BY <1>o
    <3>2. (i + 1) * c <= o * c
      BY <1>c, <1>o, <3>1, ProductGrows
    <3>3. i * c \in Nat /\ (i + 1) * c = i * c + c /\ o * c = c * o /\ o * c \in Nat
      BY <1>c, <1>o, <3>1
    <3> HIDE DEF c, o
    <3> QED BY <1>c, <1>o, <1>3, <3>1, <3>2, <3>3
  <2>4. ASSUME NEW b \in Nat, b < size
        PROVE  \E i \in 0..(o - 1) : i * c <= b /\ b <= top(i)
    <3> DEFINE T == {i \in Nat : b < (i + 1) * c}
    <3>1. b \in T
      <4>1. 1 * (b + 1) <= c * (b + 1)
        BY <1>c, <1>3, ProductGrows
      <4>2. c * (b + 1) = (b + 1) * c /\ 1 * (b + 1) = b + 1 /\ (b + 1) * c \in Nat
        BY <1>c
      <4> HIDE DEF c
      <4> QED BY <4>1, <4>2
    <3>2. PICK i \in T : \A k \in T : i <= k
      BY Zenon, <3>1, HasLeast
    <3>3. i \in Nat /\ b < (i + 1) * c /\ i * c \in Nat
      BY <1>c, <3>2
    <3>4. i * c <= b
      <4>1. CASE i = 0
        <5>1. i * c = 0
          BY <1>c, <4>1
        <5> QED BY <5>1
      <4>2. CASE i # 0
        <5>1. i - 1 \in Nat /\ i - 1 \notin T /\ (i - 1) + 1 = i
          BY <3>2, <3>3, <4>2
        <5>2. ~(b < ((i - 1) + 1) * c)
          BY <5>1
        <5> QED BY <3>3, <5>1, <5>2
      <4> QED BY <4>1, <4>2
    <3>5. CASE i < o - 1
      <4>1. i \in 0..(o - 1) /\ top(i) = (i + 1) * c - 1 /\ (i + 1) * c \in Nat
        BY <1>c, <1>o, <3>3, <3>5
      <4> HIDE DEF c, o
      <4> QED BY <3>3, <3>4, <4>1
    <3>6. CASE ~(i < o - 1)
      <4>1. o - 1 \in Nat /\ o - 1 \in 0..(o - 1) /\ top(o - 1) = size - 1
        BY <1>o
      <4>2. (o - 1) * c <= i * c
        BY <1>c, <1>o, <3>3, <3>6, <4>1, ProductGrows
      <4>3. (o - 1) * c \in Nat
        BY <1>c, <4>1
      <4>4. (o - 1) * c <= b
        BY <3>3, <3>4, <4>2, <4>3
      <4> HIDE DEF c, o
      <4> QED BY <2>4, <4>1, <4>4
    <3> QED BY <3>5, <3>6, <1>o, <3>3
  <2> HIDE DEF top
  <2> DEFINE R == Files!Chunks(size)
  <2>5. \A k \in R : \E i \in 0..(o - 1) : k = <<i * c, top(i)>>
    BY <2>2
  <2>6. \A i \in 0..(o - 1) : <<i * c, top(i)>> \in R
    BY <2>2
  <2> HIDE DEF R, c, o
  <2>7. \A k \in R : k \in Nat \X Nat /\ k[2] < size
    BY <2>3, <2>5
  <2>8. \A b \in Nat : b < size => \E k \in R : k[1] <= b /\ b <= k[2]
    <3> SUFFICES ASSUME NEW b \in Nat, b < size PROVE \E k \in R : k[1] <= b /\ b <= k[2]
      OBVIOUS
    <3>1. PICK i \in 0..(o - 1) : i * c <= b /\ b <= top(i)
      BY <2>4
    <3>2. <<i * c, top(i)>>[1] = i * c /\ <<i * c, top(i)>>[2] = top(i)
      OBVIOUS
    <3> QED BY Zenon, <2>6, <3>1, <3>2
  <2> QED BY <2>7, <2>8 DEF Covers, R
<1> QED BY <1>1, <1>2, <1>3

\* A file that is written or kept owns its name.
Keeping(t) == t.st \in {"writing", "kept"}
Owned(jobs) == {jobs[i].name : i \in {k \in Task : Keeping(jobs[k])}}
OwnersApart(jobs) ==
  \A i, k \in Task : Keeping(jobs[i]) /\ Keeping(jobs[k]) /\ jobs[i].name = jobs[k].name => i = k

\* A reserved name is a file's, the cleaner's, or one of an earlier run.
Accounted(own, wait, old, names) ==
  /\ own \cap wait = {} /\ own \cap old = {} /\ wait \cap old = {}
  /\ names = (own \cup wait) \cup old

\* The tries a file has spent, each of which may have taken a suffix.
Used(t) ==
  CASE t.st = "unused" -> 0
    [] t.st = "asking" -> t.try - 1
    [] t.st = "over" -> TRIES
    [] OTHER -> t.try
Spent(jobs) == {p \in Task \X (1..TRIES) : p[2] <= Used(jobs[p[1]])}
SuffixesUpTo(names, n) == \A d \in Doc, k \in Nat : <<d, k>> \in names => k <= n

\* What a file holds, or is still asked for, is all of it, as far as is told.
Fills(t, f, told) ==
  /\ f.have \subseteq {b \in Nat : b < f.size}
  /\ \A k \in t.todo : k[2] < f.size
  /\ told /\ ~t.bad =>
       \A b \in Nat : b < f.size => b \in f.have \/ \E k \in t.todo : k[1] <= b /\ b <= k[2]
  /\ t.st = "kept" => t.todo = {} /\ ~t.bad

\* No file of a command is on its way.
Settled(c) == \A i \in Task : job[i] # Files!NoJob /\ job[i].cmd = c => job[i].st \in {"kept", "over"}

OnDisk == {n \in Files!Name : disk[n] # Absent}

NamesHold ==
  /\ Once(queue) /\ OwnersApart(job)
  /\ Accounted(Owned(job), Names(queue), leftover, cache)
  /\ \A i \in Task : Keeping(job[i]) => job[i].name # Absent /\ disk[job[i].name] # Absent
SuffixesHold ==
  /\ counter <= Cardinality(Spent(job)) + 1
  /\ SuffixesUpTo(cache \cup OnDisk, Cardinality(Spent(job)))
ContentsHold ==
  \A i \in Task : Keeping(job[i]) => Fills(job[i], disk[job[i].name], i \notin short)
PagesHold ==
  /\ \A c \in User : phase[c] \in {"moved", "listed"} => Settled(c)
  /\ \A c \in data : phase[c] = "listed"
  /\ \A r \in Req : req[r] # Absent => phase[req[r]] = "listed"
  /\ gone = {}

FilesInv == Files!TypeOK /\ NamesHold /\ SuffixesHold /\ ContentsHold /\ PagesHold

\* What the state of a file is made of.
LEMMA FileOfJobs ==
  ASSUME NEW jobs \in [Task -> Files!Fetch \cup {Files!NoJob}], NEW j \in Task
  PROVE  /\ jobs[j] = Files!NoJob <=> jobs[j].st = "unused"
         /\ jobs[j].st \in {"unused", "asking", "writing", "kept", "over"}
         /\ jobs[j] = Files!NoJob => ~Keeping(jobs[j]) /\ Used(jobs[j]) = 0
         /\ jobs[j] # Files!NoJob =>
              /\ jobs[j] \in Files!Fetch /\ jobs[j].cmd \in User /\ jobs[j].doc \in Doc /\ jobs[j].try \in 1..TRIES
              /\ jobs[j].name \in Files!Name \cup {Absent} /\ jobs[j].todo \in SUBSET (Nat \X Nat)
              /\ jobs[j].bad \in BOOLEAN
         /\ Used(jobs[j]) \in Nat
         /\ Keeping(jobs[j]) => jobs[j] # Files!NoJob
<1>1. (jobs[j] = Files!NoJob \/ jobs[j] \in Files!Fetch)
  OBVIOUS
<1>t. TRIES \in Nat
  BY FilesAssumption
<1>2. CASE jobs[j] = Files!NoJob
  <2>1. jobs[j].st = "unused"
    BY <1>2 DEF Files!NoJob
  <2>2. ~Keeping(jobs[j]) /\ Used(jobs[j]) = 0
    BY <2>1 DEF Keeping, Used
  <2> QED BY <1>1, <1>2, <2>1, <2>2
<1>3. CASE jobs[j] \in Files!Fetch
  <2>1. /\ jobs[j].st \in {"asking", "writing", "kept", "over"}
        /\ jobs[j].cmd \in User /\ jobs[j].doc \in Doc /\ jobs[j].try \in 1..TRIES
        /\ jobs[j].name \in Files!Name \cup {Absent} /\ jobs[j].todo \in SUBSET (Nat \X Nat)
        /\ jobs[j].bad \in BOOLEAN
    BY <1>3 DEF Files!Fetch
  <2>2. jobs[j] # Files!NoJob /\ jobs[j].st # "unused"
    BY <2>1 DEF Files!NoJob
  <2>3. Used(jobs[j]) \in Nat
    BY <1>t, <2>1 DEF Used
  <2> QED BY <1>1, <1>3, <2>1, <2>2, <2>3
<1> QED BY <1>1, <1>2, <1>3

\* What the type invariant says of one job.
LEMMA FileTypes ==
  ASSUME Files!TypeOK, NEW j \in Task
  PROVE  /\ job \in [Task -> Files!Fetch \cup {Files!NoJob}]
         /\ job[j] = Files!NoJob <=> job[j].st = "unused"
         /\ job[j].st \in {"unused", "asking", "writing", "kept", "over"}
         /\ job[j] = Files!NoJob => ~Keeping(job[j]) /\ Used(job[j]) = 0
         /\ job[j] # Files!NoJob =>
              /\ job[j] \in Files!Fetch /\ job[j].cmd \in User /\ job[j].doc \in Doc /\ job[j].try \in 1..TRIES
              /\ job[j].name \in Files!Name \cup {Absent} /\ job[j].todo \in SUBSET (Nat \X Nat)
              /\ job[j].bad \in BOOLEAN
         /\ Used(job[j]) \in Nat
         /\ Keeping(job[j]) => job[j] # Files!NoJob
<1>1. job \in [Task -> Files!Fetch \cup {Files!NoJob}]
  BY DEF Files!TypeOK
<1> QED BY <1>1, FileOfJobs

\* The names that are owned when one file changes.
LEMMA OneFileChanges ==
  ASSUME NEW jobs, NEW jobs2, NEW j \in Task, OwnersApart(jobs),
         \A i \in Task : i # j => jobs2[i] = jobs[i]
  PROVE  /\ ~Keeping(jobs[j]) /\ ~Keeping(jobs2[j]) =>
              OwnersApart(jobs2) /\ Owned(jobs2) = Owned(jobs)
         /\ ~Keeping(jobs[j]) /\ Keeping(jobs2[j]) /\ jobs2[j].name \notin Owned(jobs) =>
              OwnersApart(jobs2) /\ Owned(jobs2) = Owned(jobs) \cup {jobs2[j].name}
         /\ Keeping(jobs[j]) /\ Keeping(jobs2[j]) /\ jobs2[j].name = jobs[j].name =>
              OwnersApart(jobs2) /\ Owned(jobs2) = Owned(jobs)
         /\ Keeping(jobs[j]) /\ ~Keeping(jobs2[j]) =>
              OwnersApart(jobs2) /\ Owned(jobs2) = Owned(jobs) \ {jobs[j].name}
<1>1. ASSUME NEW f, NEW x \in Owned(f) PROVE \E i \in Task : Keeping(f[i]) /\ x = f[i].name
  BY DEF Owned
<1>2. ASSUME NEW f, NEW i \in Task, Keeping(f[i]) PROVE f[i].name \in Owned(f)
  BY <1>2 DEF Owned
<1>3. ASSUME ~Keeping(jobs[j]), ~Keeping(jobs2[j]) PROVE OwnersApart(jobs2) /\ Owned(jobs2) = Owned(jobs)
  <2>1. OwnersApart(jobs2)
    BY <1>3 DEF OwnersApart
  <2>2. ASSUME NEW x \in Owned(jobs) PROVE x \in Owned(jobs2)
    BY <1>1, <1>2, <1>3
  <2>3. ASSUME NEW x \in Owned(jobs2) PROVE x \in Owned(jobs)
    BY <1>1, <1>2, <1>3
  <2> QED BY <2>1, <2>2, <2>3
<1>4. ASSUME ~Keeping(jobs[j]), Keeping(jobs2[j]), jobs2[j].name \notin Owned(jobs)
      PROVE  OwnersApart(jobs2) /\ Owned(jobs2) = Owned(jobs) \cup {jobs2[j].name}
  <2>1. OwnersApart(jobs2)
    BY <1>2, <1>4 DEF OwnersApart
  <2>2. ASSUME NEW x \in Owned(jobs) PROVE x \in Owned(jobs2)
    BY <1>1, <1>2, <1>4
  <2>3. ASSUME NEW x \in Owned(jobs2), x # jobs2[j].name PROVE x \in Owned(jobs)
    BY <1>1, <1>2, <1>4, <2>3
  <2>4. jobs2[j].name \in Owned(jobs2)
    BY <1>2, <1>4
  <2> QED BY <2>1, <2>2, <2>3, <2>4
<1>5. ASSUME Keeping(jobs[j]), Keeping(jobs2[j]), jobs2[j].name = jobs[j].name
      PROVE  OwnersApart(jobs2) /\ Owned(jobs2) = Owned(jobs)
  <2>1. OwnersApart(jobs2)
    BY <1>5 DEF OwnersApart
  <2>2. ASSUME NEW x \in Owned(jobs) PROVE x \in Owned(jobs2)
    BY <1>1, <1>2, <1>5
  <2>3. ASSUME NEW x \in Owned(jobs2) PROVE x \in Owned(jobs)
    BY <1>1, <1>2, <1>5
  <2> QED BY <2>1, <2>2, <2>3
<1>6. ASSUME Keeping(jobs[j]), ~Keeping(jobs2[j])
      PROVE  OwnersApart(jobs2) /\ Owned(jobs2) = Owned(jobs) \ {jobs[j].name}
  <2>1. OwnersApart(jobs2)
    BY <1>6 DEF OwnersApart
  <2>2. ASSUME NEW x \in Owned(jobs), x # jobs[j].name PROVE x \in Owned(jobs2)
    BY <1>1, <1>2, <1>6, <2>2
  <2>3. ASSUME NEW x \in Owned(jobs2) PROVE x \in Owned(jobs) /\ x # jobs[j].name
    <3>1. PICK i \in Task : Keeping(jobs2[i]) /\ x = jobs2[i].name
      BY <1>1, <2>3
    <3>2. i # j /\ jobs2[i] = jobs[i]
      BY <1>6, <3>1
    <3>3. x # jobs[j].name
      BY <1>6, <3>1, <3>2 DEF OwnersApart
    <3> QED BY <1>2, <3>1, <3>2, <3>3
  <2> QED BY <2>1, <2>2, <2>3
<1> QED BY <1>3, <1>4, <1>5, <1>6

\* The names that are owned when some files are given up.
LEMMA FilesGivenUp ==
  ASSUME NEW jobs, NEW jobs2, NEW S \in SUBSET Task, OwnersApart(jobs),
         \A i \in Task \ S : jobs2[i] = jobs[i], \A i \in S : ~Keeping(jobs2[i])
  PROVE  /\ OwnersApart(jobs2)
         /\ Owned(jobs2) = Owned(jobs) \ {jobs[i].name : i \in {k \in S : Keeping(jobs[k])}}
<1> DEFINE L == {jobs[i].name : i \in {k \in S : Keeping(jobs[k])}}
<1>1. OwnersApart(jobs2)
  BY DEF OwnersApart
<1>2. ASSUME NEW x \in Owned(jobs2) PROVE x \in Owned(jobs) /\ x \notin L
  <2>1. PICK i \in Task : Keeping(jobs2[i]) /\ x = jobs2[i].name
    BY DEF Owned
  <2>2. i \notin S /\ Keeping(jobs[i]) /\ x = jobs[i].name
    BY <2>1
  <2>3. \A k \in S : Keeping(jobs[k]) => jobs[k].name # x
    BY <2>2 DEF OwnersApart
  <2> QED BY <2>2, <2>3 DEF Owned
<1>3. ASSUME NEW x \in Owned(jobs), x \notin L PROVE x \in Owned(jobs2)
  <2>1. PICK i \in Task : Keeping(jobs[i]) /\ x = jobs[i].name
    BY DEF Owned
  <2>2. i \notin S
    BY <1>3, <2>1
  <2> QED BY <2>1, <2>2 DEF Owned
<1> QED BY <1>1, <1>2, <1>3

\* The names that jobs keep are finite in number.
LEMMA OwnedIsFinite ==
  ASSUME NEW jobs
  PROVE  IsFiniteSet(Owned(jobs))
<1> DEFINE K == {k \in Task : Keeping(jobs[k])}
           f == [i \in K |-> jobs[i].name]
<1>1. IsFiniteSet(K)
  BY FilesAssumption, FS_Subset
<1>2. Owned(jobs) = {jobs[i].name : i \in K}
  BY DEF Owned
<1> HIDE DEF K
<1>3. f \in [K -> Owned(jobs)] /\ \A x \in Owned(jobs) : \E i \in K : f[i] = x
  BY <1>2
<1>4. f \in Surjection(K, Owned(jobs))
  BY <1>3 DEF Surjection
<1> HIDE DEF f
<1> QED BY <1>1, <1>4, FS_Surjection

\* Tries are only ever spent, and there are so many of them.
LEMMA TriesBounded ==
  ASSUME NEW jobs
  PROVE  /\ IsFiniteSet(Spent(jobs)) /\ Cardinality(Spent(jobs)) \in Nat
         /\ Cardinality(Spent(jobs)) + 1 <= Files!MaxSuffix /\ Files!MaxSuffix \in Nat
<1>1. IsFiniteSet(Task) /\ TRIES \in Nat /\ TRIES > 0
  BY FilesAssumption
<1>2. 1 \in Int /\ TRIES \in Int
  BY <1>1
<1>3. IsFiniteSet(1..TRIES) /\ Cardinality(1..TRIES) = TRIES
  BY <1>1, <1>2, FS_Interval
<1>4. IsFiniteSet(Task \X (1..TRIES)) /\ Cardinality(Task \X (1..TRIES)) = Cardinality(Task) * Cardinality(1..TRIES)
  BY Zenon, <1>1, <1>3, FS_Product
<1>5. Spent(jobs) \in SUBSET (Task \X (1..TRIES))
  BY DEF Spent
<1>6. IsFiniteSet(Spent(jobs)) /\ Cardinality(Spent(jobs)) <= Cardinality(Task \X (1..TRIES))
  BY <1>4, <1>5, FS_Subset
<1>7. Cardinality(Spent(jobs)) \in Nat /\ Cardinality(Task) \in Nat
  BY <1>1, <1>6, FS_CardinalityType
<1>8. Files!MaxSuffix = Cardinality(Task) * TRIES + 1
  BY DEF Files!MaxSuffix, Files!Cardinality, Cardinality
<1>9. Cardinality(Task) * TRIES \in Nat
  BY <1>1, <1>7
<1> QED BY <1>3, <1>4, <1>6, <1>7, <1>8, <1>9

\* More tries spent by one job and fewer by none are more tries spent.
LEMMA TriesAreSpent ==
  ASSUME NEW jobs, NEW jobs2, \A i \in Task : Used(jobs[i]) \in Nat /\ Used(jobs2[i]) \in Nat,
         \A i \in Task : Used(jobs[i]) <= Used(jobs2[i])
  PROVE  /\ Cardinality(Spent(jobs)) <= Cardinality(Spent(jobs2))
         /\ (\E i \in Task : Used(jobs[i]) < Used(jobs2[i]) /\ Used(jobs2[i]) <= TRIES) =>
              Cardinality(Spent(jobs)) + 1 <= Cardinality(Spent(jobs2))
<1>t. TRIES \in Nat
  BY FilesAssumption
<1>1. Spent(jobs) \in SUBSET Spent(jobs2)
  <2>1. ASSUME NEW p \in Spent(jobs) PROVE p \in Spent(jobs2)
    <3>1. p \in Task \X (1..TRIES) /\ p[2] <= Used(jobs[p[1]])
      BY DEF Spent
    <3>2. p[1] \in Task /\ p[2] \in Nat
      BY <1>t, <3>1
    <3>3. p[2] <= Used(jobs2[p[1]])
      BY <3>1, <3>2
    <3> QED BY <3>1, <3>3 DEF Spent
  <2> QED BY <2>1
<1>2. Cardinality(Spent(jobs)) <= Cardinality(Spent(jobs2))
  BY <1>1, TriesBounded, FS_Subset
<1>3. ASSUME NEW i \in Task, Used(jobs[i]) < Used(jobs2[i]), Used(jobs2[i]) <= TRIES
      PROVE  Cardinality(Spent(jobs)) + 1 <= Cardinality(Spent(jobs2))
  <2>1. PICK u : u = Used(jobs2[i])
    OBVIOUS
  <2>2. u \in 1..TRIES /\ ~(u <= Used(jobs[i]))
    BY <1>t, <1>3, <2>1
  <2>3. <<i, u>> \in Spent(jobs2)
    BY <2>1, <2>2, <1>t DEF Spent
  <2>4. <<i, u>> \notin Spent(jobs)
    BY <2>2 DEF Spent
  <2>5. Cardinality(Spent(jobs)) # Cardinality(Spent(jobs2))
    BY <1>1, <2>3, <2>4, TriesBounded, FS_Subset
  <2>6. Cardinality(Spent(jobs)) \in Nat /\ Cardinality(Spent(jobs2)) \in Nat
    BY TriesBounded
  <2> QED BY <1>2, <2>5, <2>6
<1> QED BY <1>2, <1>3

\* alloc_path finds a name that is not reserved.
LEMMA NameIsNew ==
  ASSUME NEW d \in Doc, NEW b \in Nat, b + 1 <= Files!MaxSuffix, Files!MaxSuffix \in Nat,
         cache \subseteq Files!Name, counter \in Nat, counter <= b + 1, SuffixesUpTo(cache, b)
  PROVE  LET a == Files!AllocPath(d)
         IN  /\ a.name \in Files!Name /\ a.name \notin cache
             /\ a.counter \in Nat /\ a.counter <= b + 2
             /\ \A e \in Doc, k \in Nat : <<e, k>> = a.name => k <= b + 1
<1>1. CASE d \notin cache
  <2>1. PICK a : a = Files!AllocPath(d)
    OBVIOUS
  <2>2. a.name = d /\ a.counter = counter
    BY <1>1, <2>1 DEF Files!AllocPath
  <2>3. d \in Files!Name
    BY DEF Files!Name
  <2>4. \A e \in Doc, k \in Nat : <<e, k>> # d
    <3>1. Doc \cap (Doc \X Nat) = {}
      BY FilesAssumption
    <3> QED BY <3>1
  <2> QED BY <1>1, <2>1, <2>2, <2>3, <2>4
<1>2. CASE d \in cache
  <2> DEFINE P(n) == <<d, n>> \notin cache /\ \A m \in counter..(n - 1) : <<d, m>> \in cache
             T == {n \in Nat : n >= counter /\ <<d, n>> \notin cache}
  <2>1. <<d, b + 1>> \notin cache
    <3>1. b + 1 \in Nat /\ ~(b + 1 <= b)
      OBVIOUS
    <3> QED BY <3>1 DEF SuffixesUpTo
  <2>2. b + 1 \in T
    BY <2>1
  <2>3. PICK x \in T : \A y \in T : x <= y
    BY Zenon, <2>2, HasLeast
  <2>4. x \in Nat /\ x >= counter /\ <<d, x>> \notin cache /\ x <= b + 1
    BY <2>2, <2>3
  <2>5. \A m \in counter..(x - 1) : <<d, m>> \in cache
    <3> SUFFICES ASSUME NEW m \in counter..(x - 1) PROVE <<d, m>> \in cache
      OBVIOUS
    <3>1. m \in Nat /\ m >= counter /\ ~(x <= m)
      BY <2>4
    <3>2. m \notin T
      BY <2>3, <3>1
    <3> QED BY <3>1, <3>2
  <2>6. x \in counter..Files!MaxSuffix /\ P(x)
    BY <2>4, <2>5
  <2>7. PICK s : s = Files!Suffix(d)
    OBVIOUS
  <2>8. s = CHOOSE n \in counter..Files!MaxSuffix : P(n)
    BY <2>7 DEF Files!Suffix
  <2>9. s \in counter..Files!MaxSuffix /\ P(s)
    BY Zenon, <2>6, <2>8
  <2>10. s \in Nat /\ s <= b + 1 /\ s \in 0..Files!MaxSuffix
    <3>1. s \in Nat /\ s >= counter /\ s \in 0..Files!MaxSuffix
      BY <2>9
    <3>2. ASSUME s > b + 1 PROVE FALSE
      <4>1. b + 1 \in counter..(s - 1)
        BY <3>1, <3>2
      <4> QED BY <2>1, <2>9, <4>1
    <3> QED BY <3>1, <3>2
  <2>11. PICK a : a = Files!AllocPath(d)
    OBVIOUS
  <2>12. a.name = <<d, s>> /\ a.counter = s + 1
    BY <1>2, <2>7, <2>11 DEF Files!AllocPath
  <2>13. <<d, s>> \in Files!Name /\ <<d, s>> \notin cache
    BY <2>9, <2>10 DEF Files!Name
  <2>14. \A e \in Doc, k \in Nat : <<e, k>> = <<d, s>> => k <= b + 1
    BY <2>10
  <2> QED BY <2>10, <2>11, <2>12, <2>13, <2>14
<1> QED BY <1>1, <1>2

\* What goes to the cleaner when files let go of their names.
LEMMA NamesReleased ==
  ASSUME Files!TypeOK, Once(queue), NEW S \in SUBSET Files!Name, IsFiniteSet(S), S \cap Names(queue) = {},
         Files!Release(S), now' = now
  PROVE  /\ queue' \in Seq(Files!Name) /\ Once(queue') /\ Names(queue') = Names(queue) \cup S
         /\ cleanAt' \in 0..(FileTime + CLEAN)
<1>1. queue \in Seq(Files!Name) /\ queue' = queue \o Files!SetToSeq(S)
  BY DEF Files!TypeOK, Files!Release
<1>2. cleanAt' \in 0..(FileTime + CLEAN)
  <2>1. now \in 0..FileTime /\ cleanAt \in 0..(FileTime + CLEAN)
    BY DEF Files!TypeOK
  <2>2. cleanAt' = now + CLEAN \/ cleanAt' = cleanAt
    BY DEF Files!Release
  <2>3. FileTime \in Nat /\ CLEAN \in Nat
    BY FilesAssumption
  <2> QED BY <2>1, <2>2, <2>3
<1>3. PICK q : q = queue
  OBVIOUS
<1>4. /\ q \o Files!SetToSeq(S) \in Seq(Files!Name) /\ Once(q \o Files!SetToSeq(S))
      /\ Names(q \o Files!SetToSeq(S)) = Names(q) \cup S
  BY <1>1, <1>3, QueueGrows
<1> QED BY <1>1, <1>2, <1>3, <1>4

\* A start with files of an earlier process on disk.
LEMMA FilesInit == Files!Init => FilesInv
<1> SUFFICES ASSUME Files!Init PROVE FilesInv
  OBVIOUS
<1>1. PICK old \in SUBSET (Doc \cup {<<d, 0>> : d \in Doc}) :
        /\ disk = [n \in Files!Name |-> IF n \in old THEN [size |-> CHOOSE s \in Sizes : TRUE, have |-> {}] ELSE Absent]
        /\ cache = old /\ leftover = old
  BY DEF Files!Init
<1>2. /\ now = 0 /\ counter = 0 /\ queue = <<>> /\ cleanAt = 0
      /\ job = [j \in Task |-> Files!NoJob] /\ phase = [c \in User |-> "unused"]
      /\ expire = [c \in User |-> 0] /\ data = {}
      /\ req = [r \in Req |-> Absent] /\ faults = 0 /\ short = {} /\ gone = {}
  BY DEF Files!Init
<1>3. Files!MaxSuffix \in Nat /\ Cardinality(Spent(job)) \in Nat
  BY TriesBounded
<1>4. old \subseteq Files!Name
  BY <1>3 DEF Files!Name
<1>5. (CHOOSE s \in Sizes : TRUE) \in Sizes
  BY FilesAssumption
<1>6. Files!TypeOK
  <2>1. disk \in [Files!Name -> Files!File \cup {Absent}]
    BY <1>1, <1>5 DEF Files!File
  <2>2. /\ now \in 0..FileTime /\ counter \in 0..Files!MaxSuffix /\ cleanAt \in 0..(FileTime + CLEAN)
        /\ faults \in 0..MaxFaults /\ 0 \in 0..(FileTime + EXPIRE)
    <3>1. FileTime \in Nat /\ CLEAN \in Nat /\ EXPIRE \in Nat /\ MaxFaults \in Nat
      BY FilesAssumption
    <3>2. 0 \in 0..FileTime /\ 0 \in 0..(FileTime + CLEAN) /\ 0 \in 0..(FileTime + EXPIRE) /\ 0 \in 0..MaxFaults
      BY <3>1
    <3>3. 0 \in 0..Files!MaxSuffix
      BY <1>3
    <3> QED BY <1>2, <3>2, <3>3
  <2>3. queue \in Seq(Files!Name)
    BY <1>2
  <2>4. /\ job \in [Task -> Files!Fetch \cup {Files!NoJob}] /\ expire \in [User -> 0..(FileTime + EXPIRE)]
        /\ data \subseteq User /\ req \in [Req -> User \cup {Absent}]
        /\ short \subseteq Task /\ gone \subseteq Req
    BY <1>2, <2>2
  <2>5. phase \in [User -> {"unused", "fetching", "moved", "listed", "ended"}]
    BY <1>2
  <2> QED BY <1>1, <1>4, <2>1, <2>2, <2>3, <2>4, <2>5 DEF Files!TypeOK
<1>7. \A j \in Task : job[j] = Files!NoJob /\ ~Keeping(job[j])
  BY <1>2, <1>6, FileTypes
<1>8. NamesHold
  <2>1. Owned(job) = {} /\ OwnersApart(job)
    BY <1>7 DEF Owned, OwnersApart
  <2>2. Names(queue) = {} /\ Once(queue)
    BY <1>2, QueueEmpty
  <2>3. Accounted(Owned(job), Names(queue), leftover, cache)
    BY <1>1, <2>1, <2>2 DEF Accounted
  <2> QED BY <1>7, <2>1, <2>2, <2>3 DEF NamesHold
<1>9. SuffixesHold
  <2>1. \A n \in OnDisk : n \in old
    BY <1>1 DEF OnDisk
  <2>2. Doc \cap (Doc \X Nat) = {}
    BY FilesAssumption
  <2>3. \A d \in Doc, k \in Nat : <<d, k>> \in old => k = 0
    <3> SUFFICES ASSUME NEW d \in Doc, NEW k \in Nat, <<d, k>> \in old PROVE k = 0
      OBVIOUS
    <3>1. <<d, k>> \in Doc \X Nat /\ <<d, k>> \notin Doc
      BY <2>2
    <3>2. PICK e \in Doc : <<d, k>> = <<e, 0>>
      BY <3>1
    <3> QED BY <3>2
  <2>4. SuffixesUpTo(cache \cup OnDisk, Cardinality(Spent(job)))
    BY <1>1, <1>3, <2>1, <2>3 DEF SuffixesUpTo
  <2> QED BY <1>2, <1>3, <2>4 DEF SuffixesHold
<1>10. ContentsHold
  BY <1>7 DEF ContentsHold
<1>11. PagesHold
  <2>1. \A c \in User : phase[c] = "unused"
    BY <1>2
  <2>2. \A r \in Req : req[r] = Absent
    BY <1>2
  <2> QED BY <1>2, <2>1, <2>2 DEF PagesHold
<1> QED BY <1>6, <1>8, <1>9, <1>10, <1>11 DEF FilesInv

\* Steps that leave the files and their names alone.
LEMMA FilesAlone ==
  ASSUME FilesInv, Files!TypeOK', UNCHANGED <<cache, counter, disk, queue, job, leftover, short>>, PagesHold'
  PROVE  FilesInv'
<1>1. NamesHold'
  BY DEF FilesInv, NamesHold, Accounted, Owned, OwnersApart, Names, Once
<1>2. SuffixesHold'
  BY DEF FilesInv, SuffixesHold, SuffixesUpTo, OnDisk, Spent
<1>3. ContentsHold'
  BY DEF FilesInv, ContentsHold, Fills
<1> QED BY <1>1, <1>2, <1>3 DEF FilesInv

\* Tick: time passes.
LEMMA FilesTick ==
  ASSUME FilesInv, Files!Tick
  PROVE  FilesInv'
<1>1. now < FileTime /\ now' = now + 1
      /\ UNCHANGED <<faults, cache, counter, disk, queue, cleanAt, job, phase, expire, data,
                   req, leftover, short, gone>>
  BY DEF Files!Tick
<1>2. now' \in 0..FileTime
  <2>1. now \in 0..FileTime
    BY DEF FilesInv, Files!TypeOK
  <2>2. FileTime \in Nat
    BY FilesAssumption
  <2> QED BY <1>1, <2>1, <2>2
<1>3. Files!TypeOK'
  BY <1>1, <1>2 DEF FilesInv, Files!TypeOK
<1>4. PagesHold'
  BY <1>1 DEF FilesInv, PagesHold, Settled
<1> QED BY <1>1, <1>3, <1>4, FilesAlone

\* ListPage: the page of a download is listed.
LEMMA FilesListPage ==
  ASSUME FilesInv, NEW c \in User, Files!ListPage(c)
  PROVE  FilesInv'
<1>1. /\ phase[c] = "moved" /\ phase' = [phase EXCEPT ![c] = "listed"] /\ data' = data \cup {c}
      /\ UNCHANGED <<faults, now, cache, counter, disk, queue, cleanAt, job, expire, req,
                   leftover, short, gone>>
  BY DEF Files!ListPage
<1>2. phase \in [User -> {"unused", "fetching", "moved", "listed", "ended"}] /\ data \subseteq User
  BY DEF FilesInv, Files!TypeOK
<1>3. Files!TypeOK'
  BY <1>1, <1>2 DEF FilesInv, Files!TypeOK
<1>4. phase'[c] = "listed" /\ \A e \in User : e # c => phase'[e] = phase[e]
  BY <1>1, <1>2
<1>5. \A r \in Req : req[r] # Absent => req[r] \in User
  BY DEF FilesInv, Files!TypeOK
<1>6. \A e \in User : Settled(e)' <=> Settled(e)
  BY <1>1 DEF Settled
<1>7. PagesHold'
  <2>1. \A e \in User : phase'[e] \in {"moved", "listed"} => phase[e] \in {"moved", "listed"}
    BY <1>1, <1>4
  <2>2. \A e \in User : phase'[e] \in {"moved", "listed"} => Settled(e)'
    BY <1>6, <2>1 DEF FilesInv, PagesHold
  <2>3. \A e \in data' : phase'[e] = "listed"
    BY <1>1, <1>2, <1>4 DEF FilesInv, PagesHold
  <2>4. \A r \in Req : req'[r] # Absent => phase'[req'[r]] = "listed"
    BY <1>1, <1>4, <1>5 DEF FilesInv, PagesHold
  <2> QED BY <1>1, <2>2, <2>3, <2>4 DEF FilesInv, PagesHold
<1> QED BY <1>1, <1>3, <1>7, FilesAlone

\* The cleaner lets go of a name that is no file's.
LEMMA FilesClean ==
  ASSUME FilesInv, Files!Clean
  PROVE  FilesInv'
<1> DEFINE h == Head(queue)
<1>1. /\ queue # <<>> /\ cache' = cache \ {h} /\ queue' = Tail(queue)
      /\ cleanAt' = IF queue' = <<>> THEN 0 ELSE now + CLEAN
      /\ UNCHANGED <<now, counter, job, phase, expire, data, req, leftover, short, gone>>
  BY DEF Files!Clean
<1>2. \/ disk' = [disk EXCEPT ![h] = Absent] /\ UNCHANGED faults
      \/ Files!Fault /\ UNCHANGED disk
  BY DEF Files!Clean
<1>3. queue \in Seq(Files!Name) /\ Once(queue) /\ Files!TypeOK
  BY DEF FilesInv, NamesHold, Files!TypeOK
<1>4. /\ Tail(queue) \in Seq(Files!Name) /\ Once(Tail(queue)) /\ h \in Names(queue) /\ h \in Files!Name
      /\ Names(Tail(queue)) = Names(queue) \ {h}
  BY <1>1, <1>3, QueueShrinks
<1> HIDE DEF h
<1>5. disk' \in [Files!Name -> Files!File \cup {Absent}]
      /\ \A n \in Files!Name : disk'[n] = disk[n] \/ (n = h /\ disk'[n] = Absent)
  BY Zenon, <1>2, <1>3 DEF Files!TypeOK
<1>6. faults' \in 0..MaxFaults
  <2>1. faults \in 0..MaxFaults
    BY <1>3 DEF Files!TypeOK
  <2>2. faults' = faults \/ (faults < MaxFaults /\ faults' = faults + 1)
    BY <1>2 DEF Files!Fault
  <2>3. MaxFaults \in Nat
    BY FilesAssumption
  <2> QED BY <2>1, <2>2, <2>3
<1>7. cleanAt' \in 0..(FileTime + CLEAN)
  <2>1. now \in 0..FileTime
    BY <1>3 DEF Files!TypeOK
  <2>2. cleanAt' = 0 \/ cleanAt' = now + CLEAN
    BY <1>1
  <2> QED BY <2>1, <2>2, FilesAssumption
<1>8. Files!TypeOK'
  BY Zenon, <1>1, <1>3, <1>4, <1>5, <1>6, <1>7 DEF Files!TypeOK
<1>9. \A i \in Task : Keeping(job[i]) => job[i].name \in Files!Name /\ job[i].name # h
  <2>1. h \notin Owned(job)
    BY <1>4 DEF FilesInv, NamesHold, Accounted
  <2>2. \A i \in Task : Keeping(job[i]) => job[i].name \in Owned(job) /\ job[i].name # Absent
    BY DEF Owned, FilesInv, NamesHold
  <2> QED BY <1>3, <2>1, <2>2, FileTypes
<1>10. NamesHold'
  <2>1. Accounted(Owned(job), Names(queue) \ {h}, leftover, cache \ {h})
    BY <1>4 DEF FilesInv, NamesHold, Accounted
  <2>2. Accounted(Owned(job'), Names(queue'), leftover', cache')
    BY Zenon, <1>1, <1>4, <2>1
  <2>3. \A i \in Task : Keeping(job'[i]) => job'[i].name # Absent /\ disk'[job'[i].name] # Absent
    BY <1>1, <1>5, <1>9 DEF FilesInv, NamesHold
  <2>4. Once(queue') /\ OwnersApart(job')
    BY <1>1, <1>4 DEF FilesInv, NamesHold
  <2> QED BY <2>2, <2>3, <2>4 DEF NamesHold, Accounted, Owned, Names, Once, OwnersApart
<1>11. SuffixesHold'
  <2>1. cache' \cup OnDisk' \subseteq cache \cup OnDisk
    BY <1>1, <1>5 DEF OnDisk
  <2>2. SuffixesUpTo(cache' \cup OnDisk', Cardinality(Spent(job')))
    BY <1>1, <2>1 DEF FilesInv, SuffixesHold, SuffixesUpTo
  <2>3. counter' <= Cardinality(Spent(job')) + 1
    BY <1>1 DEF FilesInv, SuffixesHold
  <2> QED BY <2>2, <2>3 DEF SuffixesHold, SuffixesUpTo, OnDisk, Spent
<1>12. ContentsHold'
  <2>1. \A i \in Task : Keeping(job[i]) => disk'[job[i].name] = disk[job[i].name]
    BY <1>5, <1>9
  <2> QED BY <1>1, <2>1 DEF FilesInv, ContentsHold
<1>13. PagesHold'
  BY <1>1 DEF FilesInv, PagesHold, Settled
<1> QED BY <1>8, <1>10, <1>11, <1>12, <1>13 DEF FilesInv

\* A try that failed leaves no file; more is spent than before.
LEMMA FileAgain ==
  ASSUME Files!TypeOK, NEW j \in Task, NEW permanent \in BOOLEAN, Files!Retry(j, permanent),
         job[j].st \in {"asking", "writing"}
  PROVE  /\ job' \in [Task -> Files!Fetch \cup {Files!NoJob}]
         /\ \A i \in Task : i # j => job'[i] = job[i]
         /\ ~Keeping(job'[j]) /\ job'[j] # Files!NoJob /\ job'[j].cmd = job[j].cmd
         /\ Used(job[j]) \in Nat /\ Used(job'[j]) \in Nat /\ Used(job[j]) <= Used(job'[j])
         /\ job[j].st = "asking" => Used(job[j]) < Used(job'[j]) /\ Used(job'[j]) <= TRIES
<1>1. /\ job \in [Task -> Files!Fetch \cup {Files!NoJob}] /\ job[j] \in Files!Fetch
      /\ job[j].cmd \in User /\ job[j].doc \in Doc /\ job[j].try \in 1..TRIES
  BY FileTypes, FilesAssumption
<1>t. TRIES \in Nat /\ TRIES > 0 /\ 1 \in 1..TRIES
  BY FilesAssumption
<1>2. Used(job[j]) = (IF job[j].st = "asking" THEN job[j].try - 1 ELSE job[j].try)
  BY DEF Used
<1>3. job' = [job EXCEPT ![j] = IF permanent \/ job[j].try = TRIES THEN Files!GivenUp(job[j])
                              ELSE Files!Without("asking", job[j].cmd, job[j].doc, job[j].try + 1)]
  BY <1>1 DEF Files!Retry
<1>4. CASE permanent \/ job[j].try = TRIES
  <2> DEFINE s == [st |-> "over", cmd |-> job[j].cmd, doc |-> job[j].doc, try |-> 1, name |-> Absent,
                   todo |-> {}, bad |-> FALSE]
  <2>1. job' = [job EXCEPT ![j] = s]
    BY Zenon, <1>3, <1>4 DEF Files!GivenUp, Files!Without
  <2>2. s \in Files!Fetch
    BY <1>1, <1>t DEF Files!Fetch
  <2>3. job' \in [Task -> Files!Fetch \cup {Files!NoJob}] /\ job'[j] = s /\ \A i \in Task : i # j => job'[i] = job[i]
    <3> HIDE DEF s
    <3> QED BY <1>1, <2>1, <2>2
  <2>4. ~Keeping(s) /\ s # Files!NoJob /\ s.cmd = job[j].cmd /\ Used(s) = TRIES
    BY DEF Keeping, Used, Files!NoJob
  <2> HIDE DEF s
  <2>5. /\ Used(job[j]) \in Nat /\ Used(job[j]) <= TRIES
        /\ job[j].st = "asking" => Used(job[j]) < TRIES
    BY <1>1, <1>2, <1>t
  <2> QED BY <1>t, <2>3, <2>4, <2>5
<1>5. CASE ~(permanent \/ job[j].try = TRIES)
  <2> DEFINE s == [st |-> "asking", cmd |-> job[j].cmd, doc |-> job[j].doc, try |-> job[j].try + 1,
                   name |-> Absent, todo |-> {}, bad |-> FALSE]
  <2>1. job' = [job EXCEPT ![j] = s]
    BY <1>3, <1>5 DEF Files!Without
  <2>2. job[j].try + 1 \in 1..TRIES
    BY <1>1, <1>5, <1>t
  <2>3. s \in Files!Fetch
    BY <1>1, <2>2 DEF Files!Fetch
  <2>4. job' \in [Task -> Files!Fetch \cup {Files!NoJob}] /\ job'[j] = s /\ \A i \in Task : i # j => job'[i] = job[i]
    <3> HIDE DEF s
    <3> QED BY <1>1, <2>1, <2>3
  <2>5. ~Keeping(s) /\ s # Files!NoJob /\ s.cmd = job[j].cmd /\ Used(s) = (job[j].try + 1) - 1
    BY DEF Keeping, Used, Files!NoJob
  <2> HIDE DEF s
  <2>6. /\ Used(job[j]) \in Nat /\ Used(job[j]) <= job[j].try
        /\ job[j].st = "asking" => Used(job[j]) < job[j].try
    BY <1>1, <1>2, <1>t
  <2>7. (job[j].try + 1) - 1 = job[j].try /\ job[j].try \in Nat /\ job[j].try <= TRIES
    BY <1>1, <1>t
  <2> QED BY <2>4, <2>5, <2>6, <2>7
<1> QED BY <1>4, <1>5

\* A file that is begun, and one that goes on.
LEMMA FileBegins ==
  ASSUME Files!TypeOK, NEW j \in Task, job[j].st = "asking", NEW n \in Files!Name,
         NEW ranges \in SUBSET (Nat \X Nat), job' = [job EXCEPT ![j] = Files!Writing(@, n, ranges, FALSE)]
  PROVE  /\ job' \in [Task -> Files!Fetch \cup {Files!NoJob}]
         /\ \A i \in Task : i # j => job'[i] = job[i]
         /\ ~Keeping(job[j]) /\ Keeping(job'[j]) /\ job'[j] # Files!NoJob
         /\ job'[j].st = "writing" /\ job'[j].cmd = job[j].cmd /\ job'[j].name = n /\ job'[j].todo = ranges
         /\ Used(job[j]) \in Nat /\ Used(job'[j]) \in Nat
         /\ Used(job[j]) < Used(job'[j]) /\ Used(job'[j]) <= TRIES
<1>1. /\ job \in [Task -> Files!Fetch \cup {Files!NoJob}] /\ job[j] \in Files!Fetch
      /\ job[j].cmd \in User /\ job[j].doc \in Doc /\ job[j].try \in 1..TRIES
  BY FileTypes, FilesAssumption
<1>2. Used(job[j]) = job[j].try - 1 /\ ~Keeping(job[j])
  BY DEF Used, Keeping
<1> DEFINE s == [st |-> "writing", cmd |-> job[j].cmd, doc |-> job[j].doc, try |-> job[j].try, name |-> n,
                 todo |-> ranges, bad |-> FALSE]
<1>3. job' = [job EXCEPT ![j] = s]
  BY <1>1 DEF Files!Writing
<1>4. s \in Files!Fetch
  BY <1>1 DEF Files!Fetch
<1>5. Keeping(s) /\ s # Files!NoJob /\ s.st = "writing" /\ s.cmd = job[j].cmd /\ s.name = n /\ s.todo = ranges
      /\ Used(s) = job[j].try
  BY DEF Keeping, Used, Files!NoJob
<1> HIDE DEF s
<1>6. job' \in [Task -> Files!Fetch \cup {Files!NoJob}] /\ job'[j] = s /\ \A i \in Task : i # j => job'[i] = job[i]
  BY Zenon, <1>1, <1>3, <1>4
<1>7. job[j].try \in Nat /\ job[j].try - 1 \in Nat /\ job[j].try - 1 < job[j].try /\ job[j].try <= TRIES
  BY <1>1, FilesAssumption
<1> QED BY Zenon, <1>2, <1>5, <1>6, <1>7

\* A job that is writing goes on writing the same file.
LEMMA FileGoesOn ==
  ASSUME Files!TypeOK, NEW j \in Task, job[j].st = "writing", NEW ranges \in SUBSET (Nat \X Nat),
         NEW wrong \in BOOLEAN, job' = [job EXCEPT ![j] = Files!Writing(@, @.name, ranges, wrong)]
  PROVE  /\ job' \in [Task -> Files!Fetch \cup {Files!NoJob}]
         /\ \A i \in Task : i # j => job'[i] = job[i]
         /\ Keeping(job[j]) /\ Keeping(job'[j]) /\ job'[j] # Files!NoJob
         /\ job'[j].st = "writing" /\ job'[j].cmd = job[j].cmd /\ job'[j].name = job[j].name
         /\ job'[j].todo = ranges /\ job'[j].bad = wrong
         /\ Used(job'[j]) = Used(job[j])
<1>1. /\ job \in [Task -> Files!Fetch \cup {Files!NoJob}] /\ job[j] \in Files!Fetch
      /\ job[j].cmd \in User /\ job[j].doc \in Doc /\ job[j].try \in 1..TRIES
      /\ job[j].name \in Files!Name \cup {Absent}
  BY FileTypes, FilesAssumption
<1>2. Used(job[j]) = job[j].try /\ Keeping(job[j])
  BY DEF Used, Keeping
<1> DEFINE s == [st |-> "writing", cmd |-> job[j].cmd, doc |-> job[j].doc, try |-> job[j].try,
                 name |-> job[j].name, todo |-> ranges, bad |-> wrong]
<1>3. job' = [job EXCEPT ![j] = s]
  BY <1>1 DEF Files!Writing
<1>4. s \in Files!Fetch
  BY <1>1 DEF Files!Fetch
<1>5. Keeping(s) /\ s # Files!NoJob /\ s.st = "writing" /\ s.cmd = job[j].cmd /\ s.name = job[j].name
      /\ s.todo = ranges /\ s.bad = wrong /\ Used(s) = job[j].try
  BY DEF Keeping, Used, Files!NoJob
<1> HIDE DEF s
<1>6. job' \in [Task -> Files!Fetch \cup {Files!NoJob}] /\ job'[j] = s /\ \A i \in Task : i # j => job'[i] = job[i]
  BY <1>1, <1>3, <1>4
<1> QED BY <1>2, <1>5, <1>6

\* What a step leaves of the suffixes, the contents and the pages.
LEMMA SuffixesStay ==
  ASSUME FilesInv, Files!TypeOK', counter' <= counter, cache' \cup OnDisk' \subseteq cache \cup OnDisk,
         \A i \in Task : Used(job[i]) <= Used(job'[i])
  PROVE  SuffixesHold'
<1>1. \A i \in Task : Used(job[i]) \in Nat /\ Used(job'[i]) \in Nat
  <2>1. job \in [Task -> Files!Fetch \cup {Files!NoJob}] /\ job' \in [Task -> Files!Fetch \cup {Files!NoJob}]
    BY Zenon DEF FilesInv, Files!TypeOK
  <2> QED BY <2>1, FileOfJobs
<1>2. Cardinality(Spent(job)) <= Cardinality(Spent(job'))
  BY <1>1, TriesAreSpent
<1>3. Cardinality(Spent(job)) \in Nat /\ Cardinality(Spent(job')) \in Nat /\ Files!MaxSuffix \in Nat
  BY TriesBounded
<1>4. counter \in Nat /\ counter' \in Nat
  BY <1>3 DEF FilesInv, Files!TypeOK
<1>5. counter' <= Cardinality(Spent(job')) + 1
  BY <1>2, <1>3, <1>4 DEF FilesInv, SuffixesHold
<1>6. SuffixesUpTo(cache' \cup OnDisk', Cardinality(Spent(job')))
  <2> SUFFICES ASSUME NEW d \in Doc, NEW k \in Nat, <<d, k>> \in cache' \cup OnDisk'
               PROVE  k <= Cardinality(Spent(job'))
    BY DEF SuffixesUpTo
  <2>1. k <= Cardinality(Spent(job))
    BY DEF FilesInv, SuffixesHold, SuffixesUpTo
  <2> QED BY <1>2, <1>3, <2>1
<1> QED BY <1>5, <1>6 DEF SuffixesHold, SuffixesUpTo, OnDisk, Spent

\* A step that touches no file but those it fills keeps the contents.
LEMMA ContentsStay ==
  ASSUME FilesInv, short \subseteq short',
         \A i \in Task : Keeping(job'[i]) =>
           \/ job'[i] = job[i] /\ disk'[job[i].name] = disk[job[i].name]
           \/ Fills(job'[i], disk'[job'[i].name], i \notin short')
  PROVE  ContentsHold'
<1> SUFFICES ASSUME NEW i \in Task, Keeping(job'[i]) PROVE Fills(job'[i], disk'[job'[i].name], i \notin short')
  BY DEF ContentsHold
<1>1. CASE job'[i] = job[i] /\ disk'[job[i].name] = disk[job[i].name]
  <2>1. Fills(job[i], disk[job[i].name], i \notin short)
    BY <1>1 DEF FilesInv, ContentsHold
  <2> QED BY <1>1, <2>1 DEF Fills
<1> QED BY <1>1

\* A step of one job that is not over leaves the pages as they are.
LEMMA PagesStay ==
  ASSUME FilesInv, UNCHANGED <<phase, data, req, gone>>, NEW j \in Task,
         \A i \in Task : i # j => job'[i] = job[i],
         job[j].st \in {"asking", "writing"}, job'[j].cmd = job[j].cmd
  PROVE  PagesHold'
<1>1. job[j] # Files!NoJob
  BY DEF Files!NoJob
<1>2. ASSUME NEW c \in User, phase[c] \in {"moved", "listed"} PROVE Settled(c)'
  <2>1. Settled(c)
    BY <1>2 DEF FilesInv, PagesHold
  <2>2. job[j].cmd # c
    BY <1>1, <2>1 DEF Settled
  <2> QED BY <2>1, <2>2 DEF Settled
<1> QED BY <1>2 DEF FilesInv, PagesHold

\* A fault is counted, up to the bound.
LEMMA FaultType ==
  ASSUME Files!TypeOK, Files!Fault \/ UNCHANGED faults
  PROVE  faults' \in 0..MaxFaults
<1>1. faults \in 0..MaxFaults
  BY DEF Files!TypeOK
<1>2. faults' = faults \/ (faults < MaxFaults /\ faults' = faults + 1)
  BY DEF Files!Fault
<1>3. MaxFaults \in Nat
  BY FilesAssumption
<1> QED BY <1>1, <1>2, <1>3

\* AskFails: the file's size cannot be had.
LEMMA FilesAskFails ==
  ASSUME FilesInv, NEW j \in Task, Files!AskFails(j)
  PROVE  FilesInv'
<1>1. PICK permanent \in BOOLEAN : Files!Retry(j, permanent)
  BY DEF Files!AskFails
<1>2. /\ job[j].st = "asking" /\ Files!Fault
      /\ UNCHANGED <<now, cache, counter, disk, queue, cleanAt, phase, expire, data,
                   req, leftover, short, gone>>
  BY DEF Files!AskFails
<1>3. /\ job' \in [Task -> Files!Fetch \cup {Files!NoJob}]
      /\ \A i \in Task : i # j => job'[i] = job[i]
      /\ ~Keeping(job'[j]) /\ job'[j].cmd = job[j].cmd
      /\ Used(job[j]) <= Used(job'[j])
  BY <1>1, <1>2, FileAgain DEF FilesInv
<1>4. faults' \in 0..MaxFaults
  BY <1>2, FaultType DEF FilesInv
<1>5. Files!TypeOK'
  BY <1>2, <1>3, <1>4 DEF FilesInv, Files!TypeOK
<1>6. ~Keeping(job[j])
  BY <1>2 DEF Keeping
<1>7. OwnersApart(job') /\ Owned(job') = Owned(job)
  BY <1>3, <1>6, OneFileChanges DEF FilesInv, NamesHold
<1>8. NamesHold'
  <2>1. Accounted(Owned(job'), Names(queue'), leftover', cache')
    BY <1>2, <1>7 DEF FilesInv, NamesHold
  <2>2. \A i \in Task : Keeping(job'[i]) => job'[i].name # Absent /\ disk'[job'[i].name] # Absent
    BY <1>2, <1>3 DEF FilesInv, NamesHold
  <2>3. Once(queue')
    BY <1>2 DEF FilesInv, NamesHold
  <2> QED BY <1>7, <2>1, <2>2, <2>3 DEF NamesHold, Accounted, Owned, Names, Once, OwnersApart
<1>9. \A i \in Task : Used(job[i]) <= Used(job'[i])
  BY <1>3, FileTypes DEF FilesInv
<1>10. SuffixesHold'
  <2>1. counter' <= counter
    <3>1. counter \in Nat
      BY TriesBounded DEF FilesInv, Files!TypeOK
    <3> QED BY <1>2, <3>1
  <2>2. cache' \cup OnDisk' \subseteq cache \cup OnDisk
    BY <1>2 DEF OnDisk
  <2> QED BY <1>5, <1>9, <2>1, <2>2, SuffixesStay
<1>11. ContentsHold'
  BY <1>2, <1>3, ContentsStay
<1>12. PagesHold'
  BY <1>2, <1>3, PagesStay
<1> QED BY <1>5, <1>8, <1>10, <1>11, <1>12 DEF FilesInv

\* A name that is taken is new, and its suffix is within the bound.
LEMMA NameTaken ==
  ASSUME FilesInv, NEW j \in Task, job[j].st = "asking", NEW a, a = Files!AllocPath(job[j].doc),
         job' \in [Task -> Files!Fetch \cup {Files!NoJob}], \A i \in Task : i # j => job'[i] = job[i],
         cache' = cache \cup {a.name}, counter' = a.counter, OnDisk' \subseteq OnDisk \cup {a.name},
         Used(job[j]) < Used(job'[j]), Used(job'[j]) <= TRIES
  PROVE  /\ a.name \in Files!Name /\ a.name \notin cache /\ a.name # Absent
         /\ cache' \subseteq Files!Name /\ counter' \in 0..Files!MaxSuffix /\ SuffixesHold'
<1> DEFINE b == Cardinality(Spent(job))
           b2 == Cardinality(Spent(job'))
<1>1. b \in Nat /\ b2 \in Nat /\ b + 1 <= Files!MaxSuffix /\ b2 + 1 <= Files!MaxSuffix /\ Files!MaxSuffix \in Nat
  BY TriesBounded
<1>2. /\ cache \subseteq Files!Name /\ counter \in Nat /\ counter <= b + 1 /\ SuffixesUpTo(cache \cup OnDisk, b)
      /\ job \in [Task -> Files!Fetch \cup {Files!NoJob}]
  BY <1>1 DEF FilesInv, Files!TypeOK, SuffixesHold
<1>3. b + 1 <= b2
  <2>1. \A i \in Task : Used(job[i]) \in Nat /\ Used(job'[i]) \in Nat
    BY <1>2, FileOfJobs
  <2>2. \A i \in Task : Used(job[i]) <= Used(job'[i])
    BY <2>1
  <2> QED BY <2>1, <2>2, TriesAreSpent
<1> HIDE DEF b, b2
<1>4. SuffixesUpTo(cache, b)
  BY <1>2 DEF SuffixesUpTo
<1>5. job[j].doc \in Doc
  BY FileTypes DEF FilesInv
<1>6. /\ a.name \in Files!Name /\ a.name \notin cache
      /\ a.counter \in Nat /\ a.counter <= b + 2
      /\ \A e \in Doc, k \in Nat : <<e, k>> = a.name => k <= b + 1
  BY <1>1, <1>2, <1>4, <1>5, NameIsNew
<1>7. a.name # Absent
  <2>1. Files!Name \subseteq Doc \cup (Doc \X Nat)
    BY <1>1 DEF Files!Name
  <2> QED BY <1>6, <2>1, FilesAssumption
<1>8. counter' \in Nat /\ counter' <= b2 + 1 /\ counter' \in 0..Files!MaxSuffix
  BY <1>1, <1>3, <1>6
<1>9. SuffixesUpTo(cache' \cup OnDisk', b2)
  <2> SUFFICES ASSUME NEW d \in Doc, NEW k \in Nat, <<d, k>> \in cache' \cup OnDisk' PROVE k <= b2
    BY DEF SuffixesUpTo
  <2>1. CASE <<d, k>> = a.name
    <3>1. k <= b + 1
      BY <1>6, <2>1
    <3> QED BY <1>1, <1>3, <3>1
  <2>2. CASE <<d, k>> # a.name
    <3>1. <<d, k>> \in cache \cup OnDisk
      BY <2>2
    <3>2. k <= b
      BY <1>2, <3>1 DEF SuffixesUpTo
    <3> QED BY <1>1, <1>3, <3>2
  <2> QED BY <2>1, <2>2
<1>10. SuffixesHold'
  BY <1>8, <1>9 DEF SuffixesHold, SuffixesUpTo, OnDisk, Spent, b2
<1> QED BY <1>2, <1>6, <1>7, <1>8, <1>10

\* BeginWrite: the size is known, a name is allocated and the file is made.
LEMMA FilesBeginWrite ==
  ASSUME FilesInv, NEW j \in Task, Files!BeginWrite(j)
  PROVE  FilesInv'
<1>1. PICK a : a = Files!AllocPath(job[j].doc)
  OBVIOUS
<1> DEFINE n == a.name
<1>2. /\ job[j].st = "asking" /\ cache' = cache \cup {n} /\ counter' = a.counter /\ Files!MakeFile(j, n)
      /\ UNCHANGED <<now, phase, expire, data, req, leftover, short, gone>>
  BY <1>1 DEF Files!BeginWrite
<1>k. ~Keeping(job[j]) /\ Files!TypeOK
  BY <1>2 DEF Keeping, FilesInv
<1>o. /\ OwnersApart(job) /\ Once(queue) /\ Accounted(Owned(job), Names(queue), leftover, cache)
      /\ disk \in [Files!Name -> Files!File \cup {Absent}]
  BY DEF FilesInv, NamesHold, Files!TypeOK
<1>3. CASE \E s \in Sizes : \E ranges \in {Files!Chunks(s), Files!Whole(s)} :
             /\ disk' = [disk EXCEPT ![n] = [size |-> s, have |-> {}]]
             /\ job' = [job EXCEPT ![j] = Files!Writing(@, n, ranges, FALSE)]
             /\ UNCHANGED <<queue, cleanAt, faults>>
  <2>1. PICK s \in Sizes, ranges \in SUBSET (Nat \X Nat) :
          /\ Covers(ranges, s) /\ s \in Nat
          /\ disk' = [disk EXCEPT ![n] = [size |-> s, have |-> {}]]
          /\ job' = [job EXCEPT ![j] = Files!Writing(@, n, ranges, FALSE)]
          /\ UNCHANGED <<queue, cleanAt, faults>>
    <3>1. PICK s \in Sizes : \E ranges \in {Files!Chunks(s), Files!Whole(s)} :
             /\ disk' = [disk EXCEPT ![n] = [size |-> s, have |-> {}]]
             /\ job' = [job EXCEPT ![j] = Files!Writing(@, n, ranges, FALSE)]
             /\ UNCHANGED <<queue, cleanAt, faults>>
      BY Zenon, <1>3
    <3>2. s \in Nat
      BY FilesAssumption
    <3>3. Covers(Files!Chunks(s), s) /\ Covers(Files!Whole(s), s)
      BY <3>2, ChunksCover, WholeCovers
    <3>4. Files!Chunks(s) \in SUBSET (Nat \X Nat) /\ Files!Whole(s) \in SUBSET (Nat \X Nat)
      BY <3>3 DEF Covers
    <3> QED BY Zenon, <3>1, <3>2, <3>3, <3>4
  <2>n. n \in Files!Name
    <3>1. job[j].doc \in Doc
      BY <1>2, <1>k, FileTypes
    <3>2. SuffixesUpTo(cache, Cardinality(Spent(job)))
      BY DEF FilesInv, SuffixesHold, SuffixesUpTo
    <3> QED BY <1>1, <3>1, <3>2, NameIsNew, TriesBounded DEF FilesInv, SuffixesHold, Files!TypeOK
  <2> DEFINE f == [size |-> s, have |-> {}]
  <2>f. f \in Files!File /\ f # Absent /\ f.size = s /\ f.have = {}
    BY <2>1, FilesAssumption DEF Files!File
  <2>2. /\ job' \in [Task -> Files!Fetch \cup {Files!NoJob}]
        /\ \A i \in Task : i # j => job'[i] = job[i]
        /\ Keeping(job'[j]) /\ job'[j].st = "writing" /\ job'[j].cmd = job[j].cmd /\ job'[j].name = n /\ job'[j].todo = ranges
        /\ Used(job[j]) < Used(job'[j]) /\ Used(job'[j]) <= TRIES
    BY Zenon, <1>2, <1>k, <2>1, <2>n, FileBegins
  <2>3. disk' = [disk EXCEPT ![n] = f]
    BY <2>1
  <2> HIDE DEF f
  <2>4. /\ disk' \in [Files!Name -> Files!File \cup {Absent}] /\ disk'[n] = f
        /\ \A m \in Files!Name : m # n => disk'[m] = disk[m]
    BY <1>o, <2>3, <2>f, <2>n
  <2>5. OnDisk' \subseteq OnDisk \cup {n}
    BY <2>4 DEF OnDisk
  <2>6. /\ n \notin cache /\ n # Absent
        /\ cache' \subseteq Files!Name /\ counter' \in 0..Files!MaxSuffix /\ SuffixesHold'
    BY <1>1, <1>2, <2>2, <2>5, NameTaken
  <2>7. Files!TypeOK'
    BY Zenon, <1>2, <1>k, <2>1, <2>2, <2>4, <2>6 DEF Files!TypeOK
  <2>8. n \notin Owned(job) /\ n \notin Names(queue) /\ n \notin leftover
    BY <1>o, <2>6 DEF Accounted
  <2>9. OwnersApart(job') /\ Owned(job') = Owned(job) \cup {n}
    BY <1>k, <1>o, <2>2, <2>8, OneFileChanges
  <2>10. \A i \in Task : i # j /\ Keeping(job[i]) => job[i].name \in Files!Name /\ job[i].name # n
    <3>1. \A i \in Task : Keeping(job[i]) => job[i].name \in Owned(job) /\ job[i].name # Absent
      BY DEF Owned, FilesInv, NamesHold
    <3> QED BY <1>k, <2>8, <3>1, FileTypes
  <2>11. NamesHold'
    <3>1. Accounted(Owned(job) \cup {n}, Names(queue), leftover, cache \cup {n})
      BY <1>o, <2>8 DEF Accounted
    <3>2. Accounted(Owned(job'), Names(queue'), leftover', cache')
      BY Zenon, <1>2, <2>1, <2>9, <3>1
    <3>3. \A i \in Task : Keeping(job'[i]) => job'[i].name # Absent /\ disk'[job'[i].name] # Absent
      <4> SUFFICES ASSUME NEW i \in Task, Keeping(job'[i])
                   PROVE  job'[i].name # Absent /\ disk'[job'[i].name] # Absent
        OBVIOUS
      <4>1. CASE i = j
        BY <2>2, <2>4, <2>6, <2>f, <4>1
      <4>2. CASE i # j
        BY <2>2, <2>4, <2>10, <4>2 DEF FilesInv, NamesHold
      <4> QED BY <4>1, <4>2
    <3>4. Once(queue')
      BY <1>o, <2>1
    <3> QED BY Zenon, <2>9, <3>2, <3>3, <3>4 DEF NamesHold, Accounted, Owned, Names, Once, OwnersApart
  <2>12. ContentsHold'
    <3>1. Fills(job'[j], disk'[n], j \notin short')
      <4>1. disk'[n].have = {} /\ disk'[n].size = s
        BY <2>4, <2>f
      <4>2. /\ \A k \in ranges : k[2] < s
            /\ \A b \in Nat : b < s => \E k \in ranges : k[1] <= b /\ b <= k[2]
        BY <2>1 DEF Covers
      <4> QED BY <2>2, <4>1, <4>2 DEF Fills
    <3>2. \A i \in Task : i # j /\ Keeping(job'[i]) => job'[i] = job[i] /\ disk'[job[i].name] = disk[job[i].name]
      BY <2>2, <2>4, <2>10
    <3> QED BY <1>2, <2>2, <3>1, <3>2, ContentsStay
  <2>13. PagesHold'
    BY <1>2, <2>2, PagesStay
  <2> QED BY <2>6, <2>7, <2>11, <2>12, <2>13 DEF FilesInv
<1>4. CASE Files!Fault /\ Files!Retry(j, FALSE) /\ Files!Release({n}) /\ UNCHANGED disk
  <2>2. /\ job' \in [Task -> Files!Fetch \cup {Files!NoJob}]
        /\ \A i \in Task : i # j => job'[i] = job[i]
        /\ ~Keeping(job'[j]) /\ job'[j].cmd = job[j].cmd
        /\ Used(job[j]) < Used(job'[j]) /\ Used(job'[j]) <= TRIES
    BY Zenon, <1>2, <1>k, <1>4, FileAgain
  <2>5. OnDisk' \subseteq OnDisk \cup {n}
    BY <1>4 DEF OnDisk
  <2>6. /\ n \in Files!Name /\ n \notin cache /\ n # Absent
        /\ cache' \subseteq Files!Name /\ counter' \in 0..Files!MaxSuffix /\ SuffixesHold'
    BY <1>1, <1>2, <2>2, <2>5, NameTaken
  <2>8. n \notin Owned(job) /\ n \notin Names(queue) /\ n \notin leftover
    BY <1>o, <2>6 DEF Accounted
  <2>r. /\ queue' \in Seq(Files!Name) /\ Once(queue') /\ Names(queue') = Names(queue) \cup {n}
        /\ cleanAt' \in 0..(FileTime + CLEAN)
    <3>1. IsFiniteSet({n}) /\ {n} \in SUBSET Files!Name /\ {n} \cap Names(queue) = {} /\ now' = now
      BY Zenon, <1>2, <2>6, <2>8, FS_Singleton
    <3> HIDE DEF n
    <3> QED BY <1>k, <1>o, <1>4, <3>1, NamesReleased
  <2>7. Files!TypeOK'
    <3>1. faults' \in 0..MaxFaults
      BY <1>4, <1>k, FaultType
    <3> QED BY Zenon, <1>2, <1>4, <1>k, <2>2, <2>6, <2>r, <3>1 DEF Files!TypeOK
  <2>9. OwnersApart(job') /\ Owned(job') = Owned(job)
    BY <1>k, <1>o, <2>2, OneFileChanges
  <2>11. NamesHold'
    <3>1. Accounted(Owned(job), Names(queue) \cup {n}, leftover, cache \cup {n})
      BY <1>o, <2>8 DEF Accounted
    <3>2. Accounted(Owned(job'), Names(queue'), leftover', cache')
      BY <1>2, <2>9, <2>r, <3>1
    <3>3. \A i \in Task : Keeping(job'[i]) => job'[i].name # Absent /\ disk'[job'[i].name] # Absent
      BY <1>4, <2>2 DEF FilesInv, NamesHold
    <3> QED BY Zenon, <2>9, <2>r, <3>2, <3>3 DEF NamesHold, Accounted, Owned, Names, Once, OwnersApart
  <2>12. ContentsHold'
    BY <1>2, <1>4, <2>2, ContentsStay
  <2>13. PagesHold'
    BY <1>2, <2>2, PagesStay
  <2> QED BY <2>6, <2>7, <2>11, <2>12, <2>13 DEF FilesInv
<1> QED BY Zenon, <1>2, <1>3, <1>4 DEF Files!MakeFile

\* A file that keeps its name.
LEMMA FileStays ==
  ASSUME FilesInv, Files!TypeOK', NEW j \in Task, job[j].st = "writing",
         UNCHANGED <<cache, counter, queue, leftover, phase, data, req, gone>>,
         \A i \in Task : i # j => job'[i] = job[i],
         Keeping(job'[j]), job'[j].name = job[j].name, job'[j].cmd = job[j].cmd, Used(job'[j]) = Used(job[j]),
         \A m \in Files!Name : disk'[m] = Absent <=> disk[m] = Absent
  PROVE  NamesHold' /\ SuffixesHold' /\ PagesHold'
<1>1. Keeping(job[j])
  BY DEF Keeping
<1>2. OwnersApart(job') /\ Owned(job') = Owned(job)
  BY <1>1, OneFileChanges DEF FilesInv, NamesHold
<1>3. \A i \in Task : Keeping(job[i]) => job[i].name \in Files!Name
  BY FileTypes DEF FilesInv, NamesHold
<1>4. NamesHold'
  <2>1. Accounted(Owned(job'), Names(queue'), leftover', cache')
    BY <1>2 DEF FilesInv, NamesHold
  <2>2. \A i \in Task : Keeping(job'[i]) => Keeping(job[i]) /\ job'[i].name = job[i].name
    BY <1>1
  <2>3. \A i \in Task : Keeping(job'[i]) => job'[i].name # Absent /\ disk'[job'[i].name] # Absent
    BY <1>3, <2>2 DEF FilesInv, NamesHold
  <2>4. Once(queue')
    BY DEF FilesInv, NamesHold
  <2> QED BY Zenon, <1>2, <2>1, <2>3, <2>4 DEF NamesHold, Accounted, Owned, Names, Once, OwnersApart
<1>5. SuffixesHold'
  <2>1. \A i \in Task : Used(job[i]) <= Used(job'[i])
    <3>1. \A i \in Task : Used(job'[i]) = Used(job[i]) /\ Used(job[i]) \in Nat
      BY FileTypes DEF FilesInv
    <3> QED BY <3>1
  <2>2. counter' <= counter
    <3>1. counter \in Nat
      BY TriesBounded DEF FilesInv, Files!TypeOK
    <3> QED BY <3>1
  <2>3. cache' \cup OnDisk' \subseteq cache \cup OnDisk
    BY DEF OnDisk
  <2> QED BY <2>1, <2>2, <2>3, SuffixesStay
<1>6. PagesHold'
  BY PagesStay
<1> QED BY <1>4, <1>5, <1>6

\* FetchChunk: one range of the file is fetched.
LEMMA FilesFetchChunk ==
  ASSUME FilesInv, NEW j \in Task, NEW k \in job[j].todo, Files!FetchChunk(j, k)
  PROVE  FilesInv'
<1>1. /\ job[j].st = "writing"
      /\ UNCHANGED <<now, cache, counter, queue, cleanAt, phase, expire, data, req, leftover, gone>>
  BY DEF Files!FetchChunk
<1>2. Files!TypeOK /\ Keeping(job[j]) /\ job[j] # Files!NoJob
  BY <1>1, FileTypes DEF FilesInv, Keeping
<1> DEFINE n == job[j].name
<1>3. /\ job[j].todo \in SUBSET (Nat \X Nat) /\ job[j].bad \in BOOLEAN /\ n \in Files!Name
      /\ disk \in [Files!Name -> Files!File \cup {Absent}] /\ disk[n] \in Files!File
  BY <1>2, FileTypes DEF FilesInv, NamesHold, Files!TypeOK
<1>4. /\ disk[n].have \in SUBSET Nat /\ disk[n].size \in Sizes /\ disk[n].size \in Nat
      /\ Fills(job[j], disk[n], j \notin short)
  BY <1>2, <1>3, FilesAssumption DEF FilesInv, ContentsHold, Files!File
<1>5. \A i \in Task : i # j /\ Keeping(job[i]) => job[i].name \in Files!Name /\ job[i].name # n
  BY <1>2, FileTypes DEF FilesInv, NamesHold, OwnersApart
<1>6. PICK wrong \in BOOLEAN :
        /\ job' = [job EXCEPT ![j] = Files!Writing(@, @.name, @.todo \ {k}, wrong)]
        /\ \/ /\ disk' = [disk EXCEPT ![n].have = @ \cup (k[1]..k[2])] /\ wrong = job[j].bad
              /\ UNCHANGED <<short, faults>>
           \/ Files!Fault /\ short' = short \cup {j} /\ wrong = job[j].bad /\ UNCHANGED disk
           \/ Files!Fault /\ wrong = TRUE /\ UNCHANGED <<disk, short>>
  <2>1. CASE /\ disk' = [disk EXCEPT ![n].have = @ \cup (k[1]..k[2])]
             /\ job' = [job EXCEPT ![j] = Files!Writing(@, @.name, @.todo \ {k}, @.bad)]
             /\ UNCHANGED <<short, faults>>
    BY Zenon, <1>2, <1>3, <2>1 DEF Files!TypeOK
  <2>2. CASE /\ Files!Fault /\ short' = short \cup {j}
             /\ job' = [job EXCEPT ![j] = Files!Writing(@, @.name, @.todo \ {k}, @.bad)]
             /\ UNCHANGED disk
    BY Zenon, <1>2, <1>3, <2>2 DEF Files!TypeOK
  <2>3. CASE /\ Files!Fault /\ job' = [job EXCEPT ![j] = Files!Writing(@, @.name, @.todo \ {k}, TRUE)]
             /\ UNCHANGED <<disk, short>>
    BY Zenon, <1>2, <1>3, <2>3 DEF Files!TypeOK
  <2> QED BY Zenon, <2>1, <2>2, <2>3 DEF Files!FetchChunk
<1> DEFINE R == job[j].todo \ {k}
<1>7. R \in SUBSET (Nat \X Nat) /\ job' = [job EXCEPT ![j] = Files!Writing(@, @.name, R, wrong)]
  BY <1>2, <1>3, <1>6
<1>8. /\ job' \in [Task -> Files!Fetch \cup {Files!NoJob}]
      /\ \A i \in Task : i # j => job'[i] = job[i]
      /\ Keeping(job'[j]) /\ job'[j].st = "writing" /\ job'[j].cmd = job[j].cmd /\ job'[j].name = n
      /\ job'[j].todo = R /\ job'[j].bad = wrong /\ Used(job'[j]) = Used(job[j])
  <2> HIDE DEF R
  <2> QED BY Zenon, <1>1, <1>2, <1>7, FileGoesOn
<1>9. /\ k \in Nat \X Nat /\ k[1] \in Nat /\ k[2] \in Nat /\ k[2] < disk[n].size
      /\ \A b \in k[1]..k[2] : b \in Nat /\ b < disk[n].size
  <2>1. k \in Nat \X Nat /\ k[2] < disk[n].size
    BY <1>3, <1>4 DEF Fills
  <2> QED BY <1>4, <2>1
<1>10. /\ disk' \in [Files!Name -> Files!File \cup {Absent}] /\ disk'[n] # Absent
       /\ \A m \in Files!Name : m # n => disk'[m] = disk[m]
       /\ disk'[n].size = disk[n].size
       /\ \/ disk'[n].have = disk[n].have \cup (k[1]..k[2])
          \/ disk'[n] = disk[n] /\ (wrong \/ j \in short')
  <2>1. CASE disk' = [disk EXCEPT ![n].have = @ \cup (k[1]..k[2])]
    <3> DEFINE f == [size |-> disk[n].size, have |-> disk[n].have \cup (k[1]..k[2])]
    <3>1. disk[n] = [size |-> disk[n].size, have |-> disk[n].have]
      BY <1>3 DEF Files!File
    <3>2. [disk[n] EXCEPT !.have = @ \cup (k[1]..k[2])] = f
      BY <3>1
    <3>3. disk' = [disk EXCEPT ![n] = f]
      BY Zenon, <1>3, <2>1, <3>2
    <3>4. k[1]..k[2] \subseteq Nat
      BY <1>9
    <3>5. f \in Files!File /\ f # Absent /\ f.size = disk[n].size /\ f.have = disk[n].have \cup (k[1]..k[2])
      BY <1>4, <3>4, FilesAssumption DEF Files!File
    <3> HIDE DEF f
    <3>6. disk' \in [Files!Name -> Files!File \cup {Absent}] /\ disk'[n] = f
          /\ \A m \in Files!Name : m # n => disk'[m] = disk[m]
      BY <1>3, <3>3, <3>5
    <3> QED BY <3>5, <3>6
  <2>2. CASE disk' = disk /\ (wrong \/ j \in short')
    BY <1>2, <1>3, <2>2 DEF FilesInv, NamesHold
  <2> QED BY <1>6, <2>1, <2>2
<1>11. faults' \in 0..MaxFaults /\ short' \subseteq Task /\ short \subseteq short'
  <2>1. Files!Fault \/ UNCHANGED faults
    BY <1>6
  <2>2. short \subseteq Task /\ short' \subseteq short \cup {j} /\ short \subseteq short'
    BY <1>2, <1>6 DEF Files!TypeOK
  <2> QED BY <1>2, <2>1, <2>2, FaultType
<1>12. Files!TypeOK'
  BY <1>1, <1>2, <1>8, <1>10, <1>11 DEF Files!TypeOK
<1>13. \A m \in Files!Name : disk'[m] = Absent <=> disk[m] = Absent
  BY <1>2, <1>3, <1>10 DEF FilesInv, NamesHold
<1>14. NamesHold' /\ SuffixesHold' /\ PagesHold'
  BY <1>1, <1>8, <1>12, <1>13, FileStays
<1>15. Fills(job'[j], disk'[n], j \notin short')
  <2>1. disk'[n].have \subseteq {b \in Nat : b < disk'[n].size}
    BY <1>4, <1>9, <1>10 DEF Fills
  <2>2. \A r \in R : r[2] < disk'[n].size
    BY <1>4, <1>10 DEF Fills
  <2>3. ASSUME j \notin short', ~wrong, NEW b \in Nat, b < disk'[n].size
        PROVE  b \in disk'[n].have \/ \E r \in R : r[1] <= b /\ b <= r[2]
    <3>1. disk'[n].have = disk[n].have \cup (k[1]..k[2]) /\ ~job[j].bad /\ j \notin short
      BY <1>6, <1>10, <1>11, <2>3
    <3>2. b \in disk[n].have \/ \E r \in job[j].todo : r[1] <= b /\ b <= r[2]
      BY <1>4, <1>10, <2>3, <3>1 DEF Fills
    <3>3. ASSUME k[1] <= b, b <= k[2] PROVE b \in k[1]..k[2]
      BY <1>9, <3>3
    <3> QED BY <3>1, <3>2, <3>3
  <2> HIDE DEF R
  <2>4. job'[j].st # "kept"
    BY <1>8
  <2> QED BY <1>8, <2>1, <2>2, <2>3, <2>4 DEF Fills
<1>16. ContentsHold'
  <2>1. \A i \in Task : i # j /\ Keeping(job'[i]) => job'[i] = job[i] /\ disk'[job[i].name] = disk[job[i].name]
    BY <1>5, <1>8, <1>10
  <2> QED BY <1>8, <1>11, <1>15, <2>1, ContentsStay
<1> QED BY <1>12, <1>14, <1>16 DEF FilesInv

\* EndWrite: the last range is in, and the file is kept or given up.
LEMMA FilesEndWrite ==
  ASSUME FilesInv, NEW j \in Task, Files!EndWrite(j)
  PROVE  FilesInv'
<1>1. /\ job[j].st = "writing" /\ job[j].todo = {}
      /\ UNCHANGED <<faults, now, cache, counter, disk, phase, expire, data, req, leftover, short, gone>>
  BY DEF Files!EndWrite
<1>2. Files!TypeOK /\ Keeping(job[j]) /\ job[j] # Files!NoJob /\ job[j] \in Files!Fetch
  BY <1>1, FileTypes DEF FilesInv, Keeping
<1> DEFINE n == job[j].name
<1>3. CASE ~job[j].bad /\ job' = [job EXCEPT ![j].st = "kept"] /\ UNCHANGED <<queue, cleanAt>>
  <2> DEFINE s == [job[j] EXCEPT !.st = "kept"]
  <2>1. s \in Files!Fetch /\ job' = [job EXCEPT ![j] = s]
    BY <1>2, <1>3 DEF Files!Fetch
  <2>2. /\ s.st = "kept" /\ s.name = n /\ s.cmd = job[j].cmd /\ s.todo = {} /\ s.bad = job[j].bad
        /\ s.try = job[j].try
    BY <1>1, <1>2 DEF Files!Fetch
  <2>3. Keeping(s) /\ Used(s) = Used(job[j])
    BY <1>1, <2>2 DEF Keeping, Used
  <2> HIDE DEF s
  <2>4. /\ job' \in [Task -> Files!Fetch \cup {Files!NoJob}] /\ job'[j] = s
        /\ \A i \in Task : i # j => job'[i] = job[i]
    BY <1>2, <2>1 DEF Files!TypeOK
  <2>5. Files!TypeOK'
    BY <1>1, <1>2, <1>3, <2>4 DEF Files!TypeOK
  <2>6. NamesHold' /\ SuffixesHold' /\ PagesHold'
    BY <1>1, <1>3, <2>2, <2>3, <2>4, <2>5, FileStays
  <2>7. Fills(job'[j], disk'[job'[j].name], j \notin short')
    <3>1. Fills(job[j], disk[n], j \notin short)
      BY <1>2 DEF FilesInv, ContentsHold
    <3> QED BY <1>1, <1>3, <2>2, <2>4, <3>1 DEF Fills
  <2>8. ContentsHold'
    BY <1>1, <2>4, <2>7, ContentsStay
  <2> QED BY <2>5, <2>6, <2>8 DEF FilesInv
<1>4. CASE job[j].bad /\ Files!Retry(j, FALSE) /\ Files!Release({n})
  <2>1. /\ job' \in [Task -> Files!Fetch \cup {Files!NoJob}]
        /\ \A i \in Task : i # j => job'[i] = job[i]
        /\ ~Keeping(job'[j]) /\ job'[j].cmd = job[j].cmd
        /\ Used(job[j]) <= Used(job'[j])
    BY Zenon, <1>1, <1>2, <1>4, FileAgain
  <2>2. OwnersApart(job') /\ Owned(job') = Owned(job) \ {n} /\ n \in Owned(job) /\ n \in Files!Name
    BY Zenon, <1>2, <2>1, FileTypes, OneFileChanges DEF FilesInv, NamesHold, Owned
  <2>3. /\ Accounted(Owned(job), Names(queue), leftover, cache) /\ Once(queue)
        /\ n \notin Names(queue) /\ n \notin leftover
    BY <2>2 DEF FilesInv, NamesHold, Accounted
  <2>4. /\ queue' \in Seq(Files!Name) /\ Once(queue') /\ Names(queue') = Names(queue) \cup {n}
        /\ cleanAt' \in 0..(FileTime + CLEAN)
    <3>1. IsFiniteSet({n}) /\ {n} \in SUBSET Files!Name /\ {n} \cap Names(queue) = {} /\ now' = now
      BY Zenon, <1>1, <2>2, <2>3, FS_Singleton
    <3> HIDE DEF n
    <3> QED BY <1>2, <1>4, <2>3, <3>1, NamesReleased
  <2>5. Files!TypeOK'
    BY <1>1, <1>2, <2>1, <2>4 DEF Files!TypeOK
  <2>6. NamesHold'
    <3>1. Accounted(Owned(job) \ {n}, Names(queue) \cup {n}, leftover, cache)
      BY <2>2, <2>3 DEF Accounted
    <3>2. Accounted(Owned(job'), Names(queue'), leftover', cache')
      BY <1>1, <2>2, <2>4, <3>1
    <3>3. \A i \in Task : Keeping(job'[i]) => job'[i].name # Absent /\ disk'[job'[i].name] # Absent
      BY <1>1, <2>1 DEF FilesInv, NamesHold
    <3> QED BY <2>2, <2>4, <3>2, <3>3 DEF NamesHold, Accounted, Owned, Names, Once, OwnersApart
  <2>7. SuffixesHold'
    <3>1. \A i \in Task : Used(job[i]) <= Used(job'[i])
      BY <1>2, <2>1, FileTypes
    <3>2. counter' <= counter
      <4>1. counter \in Nat
        BY <1>2, TriesBounded DEF Files!TypeOK
      <4> QED BY <1>1, <4>1
    <3>3. cache' \cup OnDisk' \subseteq cache \cup OnDisk
      BY <1>1 DEF OnDisk
    <3> QED BY <2>5, <3>1, <3>2, <3>3, SuffixesStay
  <2>8. ContentsHold'
    BY <1>1, <2>1, ContentsStay
  <2>9. PagesHold'
    BY <1>1, <2>1, PagesStay
  <2> QED BY <2>5, <2>6, <2>7, <2>8, <2>9 DEF FilesInv
<1> QED BY Zenon, <1>3, <1>4 DEF Files!EndWrite

\* StartDownload: a command starts its jobs.
LEMMA FilesStart ==
  ASSUME FilesInv, NEW c \in User, NEW J \in SUBSET {j \in Task : job[j] = Files!NoJob}, Files!StartDownload(c, J)
  PROVE  FilesInv'
<1>1. /\ phase[c] = "unused" /\ phase' = [phase EXCEPT ![c] = "fetching"] /\ Files!TypeOK
      /\ UNCHANGED <<faults, now, cache, counter, disk, queue, cleanAt, expire, data, req, leftover, short, gone>>
  BY DEF Files!StartDownload, FilesInv
<1>2. PICK doc \in [J -> Doc] :
        job' = [j \in Task |-> IF j \in J THEN Files!Without("asking", c, doc[j], 1) ELSE job[j]]
  BY DEF Files!StartDownload
<1>t. TRIES \in Nat /\ 1 \in 1..TRIES
  BY FilesAssumption
<1>3. \A j \in J : /\ Files!Without("asking", c, doc[j], 1) \in Files!Fetch
                   /\ ~Keeping(Files!Without("asking", c, doc[j], 1))
                   /\ Files!Without("asking", c, doc[j], 1).cmd = c
                   /\ Used(Files!Without("asking", c, doc[j], 1)) = 1 - 1
  BY <1>t DEF Files!Without, Files!Fetch, Keeping, Used
<1>4. /\ job' \in [Task -> Files!Fetch \cup {Files!NoJob}] /\ J \subseteq Task
      /\ \A i \in Task \ J : job'[i] = job[i]
      /\ \A i \in J : job[i] = Files!NoJob /\ ~Keeping(job'[i]) /\ job'[i].cmd = c /\ Used(job'[i]) = 0
  BY <1>1, <1>2, <1>3 DEF Files!TypeOK
<1>5. /\ phase' \in [User -> {"unused", "fetching", "moved", "listed", "ended"}]
      /\ phase'[c] = "fetching" /\ \A e \in User : e # c => phase'[e] = phase[e]
  BY <1>1 DEF Files!TypeOK
<1>6. Files!TypeOK'
  BY <1>1, <1>4, <1>5 DEF Files!TypeOK
<1>7. \A i \in J : ~Keeping(job[i]) /\ Used(job[i]) = 0
  BY <1>1, <1>4, FileTypes
<1>8. OwnersApart(job') /\ Owned(job') = Owned(job)
  <2>1. {job[i].name : i \in {k \in J : Keeping(job[k])}} = {}
    BY <1>7
  <2>2. J \in SUBSET Task /\ OwnersApart(job) /\ \A i \in J : ~Keeping(job'[i])
    BY <1>4 DEF FilesInv, NamesHold
  <2>3. /\ OwnersApart(job')
        /\ Owned(job') = Owned(job) \ {job[i].name : i \in {k \in J : Keeping(job[k])}}
    BY Zenon, <1>4, <2>2, FilesGivenUp
  <2> QED BY Zenon, <2>1, <2>3
<1>9. NamesHold'
  <2>1. Accounted(Owned(job'), Names(queue'), leftover', cache') /\ Once(queue')
    BY <1>1, <1>8 DEF FilesInv, NamesHold
  <2>2. \A i \in Task : Keeping(job'[i]) => job'[i].name # Absent /\ disk'[job'[i].name] # Absent
    BY <1>1, <1>4 DEF FilesInv, NamesHold
  <2> QED BY <1>8, <2>1, <2>2 DEF NamesHold, Accounted, Owned, Names, Once, OwnersApart
<1>10. SuffixesHold'
  <2>1. \A i \in Task : Used(job[i]) <= Used(job'[i])
    <3>1. \A i \in Task : Used(job'[i]) = Used(job[i]) /\ Used(job[i]) \in Nat
      BY <1>1, <1>4, <1>7, FileTypes
    <3> QED BY <3>1
  <2>2. counter' <= counter
    <3>1. counter \in Nat
      BY <1>1, TriesBounded DEF Files!TypeOK
    <3> QED BY <1>1, <3>1
  <2>3. cache' \cup OnDisk' \subseteq cache \cup OnDisk
    BY <1>1 DEF OnDisk
  <2> QED BY <1>6, <2>1, <2>2, <2>3, SuffixesStay
<1>11. ContentsHold'
  BY <1>1, <1>4, ContentsStay
<1>12. PagesHold'
  <2>1. ASSUME NEW e \in User, phase'[e] \in {"moved", "listed"} PROVE Settled(e)'
    <3>1. e # c /\ Settled(e)
      BY <1>5, <2>1 DEF FilesInv, PagesHold
    <3> QED BY <1>4, <3>1 DEF Settled
  <2>2. \A e \in data' : phase'[e] = "listed"
    <3>1. data \subseteq User
      BY <1>1 DEF Files!TypeOK
    <3> QED BY <1>1, <1>5, <3>1 DEF FilesInv, PagesHold
  <2>3. \A r \in Req : req'[r] # Absent => phase'[req'[r]] = "listed"
    <3>1. \A r \in Req : req[r] # Absent => req[r] \in User
      BY <1>1 DEF Files!TypeOK
    <3> QED BY <1>1, <1>5, <3>1 DEF FilesInv, PagesHold
  <2> QED BY <1>1, <2>1, <2>2, <2>3 DEF FilesInv, PagesHold
<1> QED BY <1>6, <1>9, <1>10, <1>11, <1>12 DEF FilesInv

\* The files of pages that are dropped are given up, and go to the cleaner.
LEMMA FilesDropped ==
  ASSUME FilesInv, NEW S \in SUBSET User, \A p \in S : Settled(p),
         Files!Release(UNION {Files!FilesOf(p) : p \in S}),
         job' = [j \in Task |-> IF \E p \in S : j \in Files!JobsOf(p) THEN Files!GivenUp(job[j]) ELSE job[j]],
         UNCHANGED <<now, cache, counter, disk, leftover, short>>
  PROVE  /\ job' \in [Task -> Files!Fetch \cup {Files!NoJob}]
         /\ queue' \in Seq(Files!Name) /\ cleanAt' \in 0..(FileTime + CLEAN)
         /\ NamesHold' /\ (Files!TypeOK' => SuffixesHold') /\ ContentsHold'
         /\ \A c \in User : Settled(c) => Settled(c)'
<1> DEFINE G == {i \in Task : \E p \in S : i \in Files!JobsOf(p)}
           L == UNION {Files!FilesOf(p) : p \in S}
<1>1. Files!TypeOK /\ Once(queue) /\ OwnersApart(job) /\ Accounted(Owned(job), Names(queue), leftover, cache)
  BY DEF FilesInv, NamesHold
<1>2. \A i \in G : job[i] # Files!NoJob /\ job[i].cmd \in S /\ job[i].st \in {"kept", "over"}
  BY DEF Files!JobsOf, Settled
<1>3. L = {job[i].name : i \in {k \in G : Keeping(job[k])}}
  <2>1. ASSUME NEW x \in L PROVE \E i \in G : Keeping(job[i]) /\ x = job[i].name
    <3>1. PICK p \in S : x \in Files!FilesOf(p)
      OBVIOUS
    <3>2. PICK i \in Files!JobsOf(p) : job[i].st = "kept" /\ x = job[i].name
      BY <3>1 DEF Files!FilesOf
    <3>3. i \in G /\ Keeping(job[i])
      BY <3>2 DEF Files!JobsOf, Keeping
    <3> QED BY <3>2, <3>3
  <2>2. ASSUME NEW i \in G, Keeping(job[i]) PROVE job[i].name \in L
    <3>1. PICK p \in S : i \in Files!JobsOf(p)
      OBVIOUS
    <3>2. job[i].st = "kept"
      BY <1>2, <2>2 DEF Keeping
    <3>3. job[i].name \in Files!FilesOf(p)
      BY <3>1, <3>2 DEF Files!FilesOf
    <3> QED BY <3>3
  <2> HIDE DEF G, L
  <2> QED BY <2>1, <2>2
<1>t. TRIES \in Nat /\ 1 \in 1..TRIES
  BY FilesAssumption
<1>4. \A i \in G : /\ Files!GivenUp(job[i]) \in Files!Fetch /\ ~Keeping(Files!GivenUp(job[i]))
                   /\ Files!GivenUp(job[i]).cmd = job[i].cmd /\ Files!GivenUp(job[i]).st = "over"
                   /\ Used(Files!GivenUp(job[i])) = TRIES
  <2> SUFFICES ASSUME NEW i \in G
               PROVE  /\ Files!GivenUp(job[i]) \in Files!Fetch /\ ~Keeping(Files!GivenUp(job[i]))
                      /\ Files!GivenUp(job[i]).cmd = job[i].cmd /\ Files!GivenUp(job[i]).st = "over"
                      /\ Used(Files!GivenUp(job[i])) = TRIES
    OBVIOUS
  <2>1. job[i].cmd \in User /\ job[i].doc \in Doc
    BY <1>1, <1>2, FileTypes
  <2> QED BY <1>t, <2>1 DEF Files!GivenUp, Files!Without, Files!Fetch, Keeping, Used
<1>5. G \in SUBSET Task /\ job' = [i \in Task |-> IF i \in G THEN Files!GivenUp(job[i]) ELSE job[i]]
  OBVIOUS
<1>6. Files!Release(L)
  OBVIOUS
<1> HIDE DEF G, L
<1>7. /\ job' \in [Task -> Files!Fetch \cup {Files!NoJob}]
      /\ \A i \in Task \ G : job'[i] = job[i]
      /\ \A i \in G : ~Keeping(job'[i]) /\ job'[i].cmd = job[i].cmd /\ job'[i].st = "over" /\ Used(job'[i]) = TRIES
  BY <1>1, <1>4, <1>5 DEF Files!TypeOK
<1>8. OwnersApart(job') /\ Owned(job') = Owned(job) \ L
  BY Zenon, <1>1, <1>3, <1>5, <1>7, FilesGivenUp
<1>9. L \subseteq Owned(job) /\ \A x \in Owned(job) : x \in Files!Name
  <2>1. L \subseteq Owned(job)
    BY <1>3, <1>5 DEF Owned
  <2>2. \A i \in Task : Keeping(job[i]) => job[i].name \in Files!Name
    BY FileTypes DEF FilesInv, NamesHold
  <2> QED BY <2>1, <2>2 DEF Owned
<1>10. /\ queue' \in Seq(Files!Name) /\ Once(queue') /\ Names(queue') = Names(queue) \cup L
       /\ cleanAt' \in 0..(FileTime + CLEAN)
  <2>1. L \in SUBSET Files!Name /\ L \in SUBSET Owned(job)
    BY <1>9
  <2>2. IsFiniteSet(L)
    BY <2>1, OwnedIsFinite, FS_Subset
  <2>3. L \cap Names(queue) = {} /\ now' = now
    BY <1>1, <2>1 DEF Accounted
  <2> QED BY <1>1, <1>6, <2>1, <2>2, <2>3, NamesReleased
<1>11. NamesHold'
  <2>1. Accounted(Owned(job) \ L, Names(queue) \cup L, leftover, cache)
    BY <1>1, <1>9 DEF Accounted
  <2>2. Accounted(Owned(job'), Names(queue'), leftover', cache')
    BY Zenon, <1>8, <1>10, <2>1
  <2>3. \A i \in Task : Keeping(job'[i]) => job'[i].name # Absent /\ disk'[job'[i].name] # Absent
    BY <1>7 DEF FilesInv, NamesHold
  <2> QED BY Zenon, <1>8, <1>10, <2>2, <2>3 DEF NamesHold, Accounted, Owned, Names, Once, OwnersApart
<1>12. ASSUME Files!TypeOK' PROVE SuffixesHold'
  <2>1. \A i \in Task : Used(job[i]) <= Used(job'[i])
    <3>1. \A i \in Task : Used(job[i]) \in Nat /\ Used(job[i]) <= TRIES
      <4> SUFFICES ASSUME NEW i \in Task PROVE Used(job[i]) \in Nat /\ Used(job[i]) <= TRIES
        OBVIOUS
      <4>1. Used(job[i]) \in Nat /\ (job[i] = Files!NoJob => Used(job[i]) = 0)
            /\ (job[i] # Files!NoJob => job[i].try \in 1..TRIES)
        BY <1>1, FileTypes
      <4>2. job[i] # Files!NoJob => Used(job[i]) <= TRIES
        BY <1>t, <1>1, <4>1, FileTypes DEF Used
      <4> QED BY <1>t, <4>1, <4>2
    <3> QED BY <1>7, <3>1
  <2>2. counter' <= counter
    <3>1. counter \in Nat
      BY <1>1, TriesBounded DEF Files!TypeOK
    <3> QED BY <3>1
  <2>3. cache' \cup OnDisk' \subseteq cache \cup OnDisk
    BY DEF OnDisk
  <2> QED BY <1>12, <2>1, <2>2, <2>3, SuffixesStay
<1>13. ContentsHold'
  BY <1>7, ContentsStay
<1>14. \A c \in User : Settled(c) => Settled(c)'
  <2> SUFFICES ASSUME NEW c \in User, Settled(c), NEW i \in Task, job'[i] # Files!NoJob, job'[i].cmd = c
               PROVE  job'[i].st \in {"kept", "over"}
    BY DEF Settled
  <2> QED BY <1>7 DEF Settled
<1> QED BY <1>7, <1>10, <1>11, <1>12, <1>13, <1>14

\* MovePage: all jobs of a download are over, and its page is put together.
LEMMA FilesMovePage ==
  ASSUME FilesInv, NEW c \in User, Files!MovePage(c)
  PROVE  FilesInv'
<1>1. /\ phase[c] = "fetching" /\ \A j \in Files!JobsOf(c) : job[j].st \in {"kept", "over"}
      /\ phase' = [phase EXCEPT ![c] = "moved"] /\ expire' = [expire EXCEPT ![c] = now + EXPIRE]
      /\ data' = {p \in data : expire[p] > now} /\ Files!Drop(data)
      /\ UNCHANGED <<req, faults, now, cache, counter, disk, leftover, short, gone>>
  BY DEF Files!MovePage
<1>2. Files!TypeOK /\ data \subseteq User
  BY DEF FilesInv, Files!TypeOK
<1>3. PICK S \in SUBSET data : S = Files!Dropped(data)
  BY Zenon DEF Files!Dropped
<1>4. /\ S \in SUBSET User /\ \A p \in S : Settled(p)
      /\ Files!Release(UNION {Files!FilesOf(p) : p \in S})
      /\ job' = [j \in Task |-> IF \E p \in S : j \in Files!JobsOf(p) THEN Files!GivenUp(job[j]) ELSE job[j]]
  BY <1>1, <1>2, <1>3 DEF Files!Drop, FilesInv, PagesHold
<1>5. /\ job' \in [Task -> Files!Fetch \cup {Files!NoJob}]
      /\ queue' \in Seq(Files!Name) /\ cleanAt' \in 0..(FileTime + CLEAN)
      /\ NamesHold' /\ (Files!TypeOK' => SuffixesHold') /\ ContentsHold'
      /\ \A p \in User : Settled(p) => Settled(p)'
  BY Zenon, <1>1, <1>4, FilesDropped
<1>6. Files!TypeOK'
  <2>1. phase' \in [User -> {"unused", "fetching", "moved", "listed", "ended"}]
    BY <1>1, <1>2 DEF Files!TypeOK
  <2>2. expire' \in [User -> 0..(FileTime + EXPIRE)]
    <3>1. now \in 0..FileTime /\ expire \in [User -> 0..(FileTime + EXPIRE)]
      BY <1>2 DEF Files!TypeOK
    <3>2. now + EXPIRE \in 0..(FileTime + EXPIRE)
      BY <3>1, FilesAssumption
    <3> QED BY <1>1, <3>1, <3>2
  <2> QED BY Zenon, <1>1, <1>2, <1>5, <2>1, <2>2 DEF Files!TypeOK
<1>7. phase'[c] = "moved" /\ \A e \in User : e # c => phase'[e] = phase[e]
  BY <1>1, <1>2 DEF Files!TypeOK
<1>8. Settled(c)
  BY <1>1 DEF Settled, Files!JobsOf
<1>9. PagesHold'
  <2>1. \A e \in User : phase'[e] \in {"moved", "listed"} => Settled(e)'
    BY <1>5, <1>7, <1>8 DEF FilesInv, PagesHold
  <2>2. \A e \in data' : phase'[e] = "listed"
    BY <1>1, <1>2, <1>7 DEF FilesInv, PagesHold
  <2>3. \A r \in Req : req'[r] # Absent => phase'[req'[r]] = "listed"
    <3>1. \A r \in Req : req[r] # Absent => req[r] \in User
      BY <1>2 DEF Files!TypeOK
    <3> QED BY <1>1, <1>7, <3>1 DEF FilesInv, PagesHold
  <2> QED BY <1>1, <2>1, <2>2, <2>3 DEF FilesInv, PagesHold
<1> QED BY <1>5, <1>6, <1>9 DEF FilesInv

\* LookPage: a request finds a page, and sweeps those that have expired.
LEMMA FilesLookPage ==
  ASSUME FilesInv, NEW r \in Req, NEW c \in User, Files!LookPage(r, c)
  PROVE  FilesInv'
<1>1. /\ req[r] = Absent /\ c \in data /\ Files!TypeOK
      /\ UNCHANGED <<faults, now, cache, counter, disk, phase, expire, leftover, short, gone>>
  BY DEF Files!LookPage, FilesInv
<1>2. CASE req' = [req EXCEPT ![r] = c] /\ UNCHANGED <<data, queue, cleanAt, job>>
  <2>1. req' \in [Req -> User \cup {Absent}] /\ req'[r] = c /\ \A q \in Req : q # r => req'[q] = req[q]
    BY <1>1, <1>2 DEF Files!TypeOK
  <2>2. Files!TypeOK'
    BY <1>1, <1>2, <2>1 DEF Files!TypeOK
  <2>3. PagesHold'
    <3>1. \A q \in Req : req'[q] # Absent => phase'[req'[q]] = "listed"
      BY <1>1, <2>1 DEF FilesInv, PagesHold
    <3>2. \A e \in User : Settled(e)' <=> Settled(e)
      BY <1>2 DEF Settled
    <3> QED BY <1>1, <1>2, <3>1, <3>2 DEF FilesInv, PagesHold
  <2> QED BY <1>1, <1>2, <2>2, <2>3, FilesAlone
<1>3. CASE data' = data \ {c} /\ UNCHANGED req /\ Files!Drop({c})
  <2>1. PICK S \in SUBSET {c} : S = Files!Dropped({c})
    BY Zenon DEF Files!Dropped
  <2>2. /\ S \in SUBSET User /\ \A p \in S : Settled(p)
        /\ Files!Release(UNION {Files!FilesOf(p) : p \in S})
        /\ job' = [j \in Task |-> IF \E p \in S : j \in Files!JobsOf(p) THEN Files!GivenUp(job[j]) ELSE job[j]]
    BY Zenon, <1>1, <1>3, <2>1 DEF Files!Drop, FilesInv, PagesHold
  <2>3. /\ job' \in [Task -> Files!Fetch \cup {Files!NoJob}]
        /\ queue' \in Seq(Files!Name) /\ cleanAt' \in 0..(FileTime + CLEAN)
        /\ NamesHold' /\ (Files!TypeOK' => SuffixesHold') /\ ContentsHold'
        /\ \A p \in User : Settled(p) => Settled(p)'
    BY Zenon, <1>1, <2>2, FilesDropped
  <2>4. Files!TypeOK'
    BY <1>1, <1>3, <2>3 DEF Files!TypeOK
  <2>5. PagesHold'
    BY <1>1, <1>3, <2>3 DEF FilesInv, PagesHold
  <2> QED BY <2>3, <2>4, <2>5 DEF FilesInv
<1> QED BY <1>2, <1>3 DEF Files!LookPage

\* ServeFile: a page is served once and dropped.
LEMMA FilesServe ==
  ASSUME FilesInv, NEW r \in Req, Files!ServeFile(r)
  PROVE  FilesInv'
<1> DEFINE c == req[r]
<1>1. /\ c # Absent /\ req' = [req EXCEPT ![r] = Absent] /\ Files!Drop({c}) /\ Files!TypeOK
      /\ gone' = IF \E n \in Files!FilesOf(c) : disk[n] = Absent THEN gone \cup {r} ELSE gone
      /\ UNCHANGED <<data, faults, now, cache, counter, disk, phase, expire, leftover, short>>
  BY DEF Files!ServeFile, FilesInv
<1>2. c \in User /\ phase[c] = "listed"
  BY <1>1 DEF FilesInv, PagesHold, Files!TypeOK
<1>3. req' \in [Req -> User \cup {Absent}] /\ req'[r] = Absent /\ \A q \in Req : q # r => req'[q] = req[q]
  BY <1>1 DEF Files!TypeOK
<1>4. gone' = {}
  <2>1. ASSUME NEW n \in Files!FilesOf(c) PROVE disk[n] # Absent
    <3>1. PICK j \in Files!JobsOf(c) : job[j].st = "kept" /\ n = job[j].name
      BY DEF Files!FilesOf
    <3>2. j \in Task /\ Keeping(job[j])
      BY <3>1 DEF Keeping, Files!JobsOf
    <3> QED BY <3>1, <3>2 DEF FilesInv, NamesHold
  <2> QED BY <1>1, <2>1 DEF FilesInv, PagesHold
<1> HIDE DEF c
<1>5. PICK S \in SUBSET {c} : S = Files!Dropped({c})
  BY Zenon DEF Files!Dropped
<1>6. /\ S \in SUBSET User /\ \A p \in S : Settled(p)
      /\ Files!Release(UNION {Files!FilesOf(p) : p \in S})
      /\ job' = [j \in Task |-> IF \E p \in S : j \in Files!JobsOf(p) THEN Files!GivenUp(job[j]) ELSE job[j]]
  BY Zenon, <1>1, <1>2, <1>5 DEF Files!Drop, FilesInv, PagesHold
<1>7. /\ job' \in [Task -> Files!Fetch \cup {Files!NoJob}]
      /\ queue' \in Seq(Files!Name) /\ cleanAt' \in 0..(FileTime + CLEAN)
      /\ NamesHold' /\ (Files!TypeOK' => SuffixesHold') /\ ContentsHold'
      /\ \A p \in User : Settled(p) => Settled(p)'
  BY Zenon, <1>1, <1>6, FilesDropped
<1>8. Files!TypeOK'
  BY Zenon, <1>1, <1>3, <1>4, <1>7 DEF Files!TypeOK
<1>9. PagesHold'
  BY <1>1, <1>3, <1>4, <1>7 DEF FilesInv, PagesHold
<1> QED BY <1>7, <1>8, <1>9 DEF FilesInv

\* After a restart every name on disk is one of an earlier run.
LEMMA FilesRestart ==
  ASSUME FilesInv, Files!Restart
  PROVE  FilesInv'
<1>1. /\ cache' = OnDisk /\ leftover' = cache' /\ counter' = 0 /\ queue' = <<>> /\ data' = {}
      /\ req' = [r \in Req |-> Absent]
      /\ job' = [j \in Task |-> IF job[j] = Files!NoJob THEN Files!NoJob ELSE Files!GivenUp(job[j])]
      /\ phase' = [c \in User |-> IF phase[c] = "unused" THEN "unused" ELSE "ended"]
      /\ cleanAt' = 0 /\ expire' = [c \in User |-> 0]
      /\ UNCHANGED <<faults, now, disk, short, gone>> /\ Files!TypeOK
  BY DEF Files!Restart, OnDisk, FilesInv
<1>t. TRIES \in Nat /\ 1 \in 1..TRIES
  BY FilesAssumption
<1>2. \A i \in Task : job[i] # Files!NoJob =>
        /\ Files!GivenUp(job[i]) \in Files!Fetch /\ ~Keeping(Files!GivenUp(job[i]))
        /\ Used(Files!GivenUp(job[i])) = TRIES
  <2> SUFFICES ASSUME NEW i \in Task, job[i] # Files!NoJob
               PROVE  /\ Files!GivenUp(job[i]) \in Files!Fetch /\ ~Keeping(Files!GivenUp(job[i]))
                      /\ Used(Files!GivenUp(job[i])) = TRIES
    OBVIOUS
  <2>1. job[i].cmd \in User /\ job[i].doc \in Doc
    BY <1>1, FileTypes
  <2> QED BY <1>t, <2>1 DEF Files!GivenUp, Files!Without, Files!Fetch, Keeping, Used
<1>3. /\ job' \in [Task -> Files!Fetch \cup {Files!NoJob}]
      /\ \A i \in Task : job[i] = Files!NoJob => job'[i] = Files!NoJob
      /\ \A i \in Task : job[i] # Files!NoJob => ~Keeping(job'[i]) /\ Used(job'[i]) = TRIES
  BY <1>1, <1>2 DEF Files!TypeOK
<1>4. \A i \in Task : ~Keeping(job'[i])
  BY <1>3, FileOfJobs
<1>5. \A i \in Task : Used(job[i]) <= Used(job'[i])
  <2> SUFFICES ASSUME NEW i \in Task PROVE Used(job[i]) <= Used(job'[i])
    OBVIOUS
  <2>1. Used(job[i]) \in Nat /\ (job[i] = Files!NoJob => Used(job[i]) = 0)
        /\ (job[i] # Files!NoJob => job[i].try \in 1..TRIES)
    BY <1>1, FileTypes
  <2>2. job[i] # Files!NoJob => Used(job[i]) <= TRIES
    BY <1>t, <1>1, <2>1, FileTypes DEF Used
  <2> QED BY <1>3, <1>t, <2>1, <2>2
<1>6. Files!MaxSuffix \in Nat /\ counter \in Nat
  <2>1. Files!MaxSuffix \in Nat
    BY TriesBounded
  <2>2. counter \in 0..Files!MaxSuffix
    BY <1>1 DEF Files!TypeOK
  <2> QED BY <2>1, <2>2
<1>7. Files!TypeOK'
  <2>1. counter' \in 0..Files!MaxSuffix
    BY <1>1, <1>6
  <2>2. cleanAt' \in 0..(FileTime + CLEAN) /\ 0 \in 0..(FileTime + EXPIRE)
    <3>1. FileTime \in Nat /\ CLEAN \in Nat /\ EXPIRE \in Nat
      BY FilesAssumption
    <3>2. 0 \in 0..(FileTime + CLEAN) /\ 0 \in 0..(FileTime + EXPIRE)
      BY <3>1
    <3> QED BY <1>1, <3>2
  <2>3. /\ queue' \in Seq(Files!Name) /\ cache' \subseteq Files!Name /\ leftover' \subseteq Files!Name
        /\ req' \in [Req -> User \cup {Absent}] /\ data' \subseteq User
        /\ expire' \in [User -> 0..(FileTime + EXPIRE)]
    BY <1>1, <2>2 DEF OnDisk
  <2>4. phase' \in [User -> {"unused", "fetching", "moved", "listed", "ended"}]
    BY <1>1
  <2> QED BY <1>1, <1>3, <2>1, <2>2, <2>3, <2>4 DEF Files!TypeOK
<1>8. NamesHold'
  <2>1. Owned(job') = {} /\ OwnersApart(job')
    BY <1>4 DEF Owned, OwnersApart
  <2>2. Names(queue') = {} /\ Once(queue')
    BY <1>1, QueueEmpty
  <2>3. Accounted(Owned(job'), Names(queue'), leftover', cache')
    BY <1>1, <2>1, <2>2 DEF Accounted
  <2> QED BY <1>4, <2>1, <2>2, <2>3 DEF NamesHold, Accounted, Owned, Names, Once, OwnersApart
<1>9. SuffixesHold'
  <2>1. counter' <= counter
    BY <1>1, <1>6
  <2>2. cache' \cup OnDisk' \subseteq cache \cup OnDisk
    BY <1>1 DEF OnDisk
  <2> QED BY <1>5, <1>7, <2>1, <2>2, SuffixesStay
<1>10. ContentsHold'
  BY <1>4 DEF ContentsHold
<1>11. PagesHold'
  <2>1. \A c \in User : phase'[c] \notin {"moved", "listed"}
    BY <1>1
  <2>2. \A r \in Req : req'[r] = Absent
    BY <1>1
  <2> QED BY <1>1, <2>1, <2>2 DEF FilesInv, PagesHold
<1> QED BY <1>7, <1>8, <1>9, <1>10, <1>11 DEF FilesInv

\* Every step keeps the invariant.
LEMMA FilesStep == FilesInv /\ (Files!Next \/ UNCHANGED <<now, cache, req, fileVars>>) => FilesInv'
<1>1. ASSUME FilesInv, UNCHANGED <<now, cache, req, fileVars>> PROVE FilesInv'
  <2>1. UNCHANGED <<now, cache, req, counter, disk, queue, cleanAt, job, phase, expire, data, faults,
                    leftover, short, gone>>
    BY <1>1 DEF fileVars
  <2>2. Files!TypeOK'
    BY <1>1, <2>1 DEF FilesInv, Files!TypeOK
  <2>3. PagesHold'
    BY <1>1, <2>1 DEF FilesInv, PagesHold, Settled
  <2> QED BY <1>1, <2>1, <2>2, <2>3, FilesAlone
<1>2. ASSUME FilesInv, Files!Next PROVE FilesInv'
  BY <1>2, FilesTick, FilesClean, FilesRestart, FilesStart, FilesMovePage, FilesListPage, FilesAskFails,
     FilesBeginWrite, FilesEndWrite, FilesFetchChunk, FilesServe, FilesLookPage DEF Files!Next
<1> QED BY <1>1, <1>2

\* The invariant has the property the runs check.
LEMMA FilesHold == FilesInv => Files!FilesAreKept
<1> SUFFICES ASSUME FilesInv PROVE Files!FilesAreKept
  OBVIOUS
<1>1. Files!OneOwner
  <2> SUFFICES ASSUME NEW n \in Files!Name
               PROVE  Files!Cardinality(Files!Owners(n)) + Files!Cardinality(Files!Waiting(n))
                        + (IF n \in leftover THEN 1 ELSE 0) = IF n \in cache THEN 1 ELSE 0
    BY DEF Files!OneOwner
  <2> DEFINE O == Files!Owners(n)
             W == Files!Waiting(n)
  <2>1. Files!Cardinality(O) = IF n \in Owned(job) THEN 1 ELSE 0
    <3>1. Files!Cardinality(O) = Cardinality(O)
      BY DEF Files!Cardinality, Cardinality
    <3>2. O = {j \in Task : Keeping(job[j]) /\ job[j].name = n}
      BY DEF Files!Owners, Keeping
    <3>3. CASE n \in Owned(job)
      <4>1. PICK j \in Task : Keeping(job[j]) /\ job[j].name = n
        BY <3>3 DEF Owned
      <4>2. O = {j}
        BY <3>2, <4>1 DEF FilesInv, NamesHold, OwnersApart
      <4> HIDE DEF O
      <4> QED BY Zenon, <3>1, <3>3, <4>2, FS_Singleton
    <3>4. CASE n \notin Owned(job)
      <4>1. O = {}
        BY <3>2, <3>4 DEF Owned
      <4> HIDE DEF O
      <4> QED BY <3>1, <3>4, <4>1, FS_EmptySet
    <3> QED BY <3>3, <3>4
  <2>2. Files!Cardinality(W) = IF n \in Names(queue) THEN 1 ELSE 0
    <3>1. Files!Cardinality(W) = Cardinality(W)
      BY DEF Files!Cardinality, Cardinality
    <3>2. W = {i \in 1..Len(queue) : queue[i] = n}
      BY DEF Files!Waiting
    <3>3. CASE n \in Names(queue)
      <4>1. PICK i \in 1..Len(queue) : queue[i] = n
        BY <3>3 DEF Names
      <4>2. W = {i}
        BY <3>2, <4>1 DEF FilesInv, NamesHold, Once
      <4> HIDE DEF W
      <4> QED BY Zenon, <3>1, <3>3, <4>2, FS_Singleton
    <3>4. CASE n \notin Names(queue)
      <4>1. W = {}
        BY <3>2, <3>4 DEF Names
      <4> HIDE DEF W
      <4> QED BY <3>1, <3>4, <4>1, FS_EmptySet
    <3> QED BY <3>3, <3>4
  <2> HIDE DEF O, W
  <2>3. Accounted(Owned(job), Names(queue), leftover, cache)
    BY DEF FilesInv, NamesHold
  <2> QED BY <2>1, <2>2, <2>3 DEF Accounted, O, W
<1>2. Files!FilesWhileListed
  <2>1. ASSUME NEW c \in User, NEW n \in Files!FilesOf(c) PROVE disk[n] # Absent
    <3>1. PICK j \in Files!JobsOf(c) : job[j].st = "kept" /\ n = job[j].name
      BY DEF Files!FilesOf
    <3>2. j \in Task /\ Keeping(job[j])
      BY <3>1 DEF Keeping, Files!JobsOf
    <3> QED BY <3>1, <3>2 DEF FilesInv, NamesHold
  <2> QED BY <2>1 DEF Files!FilesWhileListed, FilesInv, PagesHold
<1>3. Files!WholeUnlessShort
  <2> SUFFICES ASSUME NEW j \in Task, job[j].st = "kept", j \notin short
               PROVE  disk[job[j].name].have = {b \in 0..disk[job[j].name].size : b < disk[job[j].name].size}
    BY DEF Files!WholeUnlessShort
  <2>1. Keeping(job[j]) /\ job[j] # Files!NoJob
    BY DEF Keeping, Files!NoJob
  <2>2. PICK f : f = disk[job[j].name]
    OBVIOUS
  <2>3. f \in Files!File /\ Fills(job[j], f, TRUE)
    <3>1. job[j].name \in Files!Name /\ f # Absent
      BY <2>1, <2>2, FileTypes DEF FilesInv, NamesHold
    <3>2. Fills(job[j], f, j \notin short)
      BY <2>1, <2>2 DEF FilesInv, ContentsHold
    <3> QED BY <2>2, <3>1, <3>2 DEF FilesInv, Files!TypeOK, Fills
  <2>4. f.size \in Nat /\ job[j].todo = {} /\ ~job[j].bad
    BY <2>3, FilesAssumption DEF Files!File, Fills
  <2>5. f.have \subseteq {b \in Nat : b < f.size} /\ \A b \in Nat : b < f.size => b \in f.have
    BY <2>3, <2>4 DEF Fills
  <2>6. f.have = {b \in 0..f.size : b < f.size}
    BY <2>4, <2>5
  <2> QED BY <2>2, <2>6
<1> QED BY <1>1, <1>2, <1>3 DEF Files!FilesAreKept

-----------------------------------------------------------------------------
(* The parts together: a behaviour is one of them.                         *)

BusyInv ==
  /\ part = "files" => FilesInv
  /\ part = "cookies" => CookiesInv
  /\ part = "vpn" => VpnInv
  /\ part = "sessions" => SessionsInv
  /\ part = "radar" => RadarInv
  /\ part = "qr" => QrInv

QuietInv ==
  /\ part = "school" => SchoolInv
  /\ part = "grades" => GradesInv
  /\ part = "semesters" => SemestersInv
  /\ part = "decoder" => DecoderInv
  /\ part = "failures" => FailuresInv

SharedInv == BusyInv /\ QuietInv

\* The parts start with their invariants.
LEMMA PartsStart == PartsInit => SharedInv
<1> SUFFICES ASSUME PartsInit PROVE SharedInv
  OBVIOUS
<1>1. CASE QuietRest /\ (IndexBegins \/ FilesBegin \/ CookiesBegin \/ VpnBegins \/ SessionsBegin \/ RadarBegins \/ QrBegins)
  <2>1. part \in {"index", "files", "cookies", "vpn", "sessions", "radar", "qr"}
    BY <1>1 DEF IndexBegins, FilesBegin, CookiesBegin, VpnBegins, SessionsBegin, RadarBegins, QrBegins
  <2>2. BusyInv
    BY <1>1, FilesInit, CookiesInit, VpnInit, SessionsInit, RadarInit, QrInit
       DEF BusyInv, IndexBegins, FilesBegin, CookiesBegin, VpnBegins, SessionsBegin, RadarBegins, QrBegins
  <2>3. QuietInv
    BY <2>1 DEF QuietInv
  <2> QED BY <2>2, <2>3 DEF SharedInv
<1>2. CASE SchoolBegins \/ GradesBegin \/ SemestersBegin \/ DecoderBegins \/ FailuresBegin
  <2>1. part \in {"school", "grades", "semesters", "decoder", "failures"}
    BY <1>2 DEF SchoolBegins, GradesBegin, SemestersBegin, DecoderBegins, FailuresBegin
  <2>2. BusyInv
    BY <2>1 DEF BusyInv
  <2>3. QuietInv
    BY <1>2, SchoolInit, GradesInit, SemestersInit, DecoderInit, FailuresInit
       DEF QuietInv, SchoolBegins, GradesBegin, SemestersBegin, DecoderBegins, FailuresBegin
  <2> QED BY <2>2, <2>3 DEF SharedInv
<1> QED BY <1>1, <1>2 DEF PartsInit

\* What a step of PartsSpec is for each part.
LEMMA PartOfStep ==
  ASSUME [PartsNext]_<<part, vars, partVars, quietVars>>
  PROVE  /\ part' = part
         /\ part = "files" => Files!Next \/ UNCHANGED <<now, cache, req, fileVars>>
         /\ part = "cookies" => Cookies!Next \/ UNCHANGED <<req, cookieVars>>
         /\ part = "vpn" => Vpn!Next \/ UNCHANGED <<now, req, vpnVars>>
         /\ part = "sessions" => Sessions!Next \/ UNCHANGED <<cache, loginVars, sessionVars>>
         /\ part = "radar" => Radar!Next \/ UNCHANGED <<req, signed, radarVars>>
         /\ part = "qr" => Qr!Next \/ UNCHANGED <<cache, signed, qrVars, loginVars>>
         /\ part = "school" => School!Next \/ UNCHANGED schoolVars
         /\ part = "grades" => Grades!Next \/ UNCHANGED gradeVars
         /\ part = "semesters" => Semesters!Next \/ UNCHANGED semesterVars
         /\ part = "decoder" => Decoder!Next \/ UNCHANGED decoderVars
         /\ part = "failures" => Failures!Next \/ UNCHANGED failureVars
<1>1. CASE BusyPartsNext
  BY <1>1 DEF BusyPartsNext, quietVars
<1>2. CASE QuietPartsNext
  BY <1>2 DEF QuietPartsNext, partVars
<1>3. CASE UNCHANGED <<part, vars, partVars, quietVars>>
  BY <1>3 DEF partVars, quietVars
<1> QED BY <1>1, <1>2, <1>3 DEF PartsNext

\* A step of one part keeps the invariants of all.
LEMMA PartsStep == SharedInv /\ [PartsNext]_<<part, vars, partVars, quietVars>> => SharedInv'
<1> SUFFICES ASSUME SharedInv, [PartsNext]_<<part, vars, partVars, quietVars>> PROVE SharedInv'
  OBVIOUS
<1>1. part' = part
  BY PartOfStep
<1>2. BusyInv'
  <2>1. part = "cookies" => CookiesInv'
    BY PartOfStep, CookiesStep, CookiesStutter DEF SharedInv, BusyInv
  <2>2. part = "vpn" => VpnInv'
    BY PartOfStep, VpnStep DEF SharedInv, BusyInv
  <2>3. part = "sessions" => SessionsInv'
    BY PartOfStep, SessionsStep DEF SharedInv, BusyInv
  <2>4. part = "radar" => RadarInv'
    BY PartOfStep, RadarStep DEF SharedInv, BusyInv
  <2>5. part = "qr" => QrInv'
    BY PartOfStep, QrStep DEF SharedInv, BusyInv
  <2>6. part = "files" => FilesInv'
    BY PartOfStep, FilesStep DEF SharedInv, BusyInv
  <2> QED BY <1>1, <2>1, <2>2, <2>3, <2>4, <2>5, <2>6 DEF BusyInv
<1>3. QuietInv'
  <2>1. part = "school" => SchoolInv'
    BY PartOfStep, SchoolStep DEF SharedInv, QuietInv
  <2>2. part = "grades" => GradesInv'
    BY PartOfStep, GradesStep DEF SharedInv, QuietInv
  <2>3. part = "semesters" => SemestersInv'
    BY PartOfStep, SemestersStep DEF SharedInv, QuietInv
  <2>4. part = "decoder" => DecoderInv'
    BY PartOfStep, DecoderStep DEF SharedInv, QuietInv
  <2>5. part = "failures" => FailuresInv'
    BY PartOfStep, FailuresStep DEF SharedInv, QuietInv
  <2> QED BY <1>1, <2>1, <2>2, <2>3, <2>4, <2>5 DEF QuietInv
<1> QED BY <1>2, <1>3 DEF SharedInv

\* The header of a client is behind its cookies only while it is marked or
\* rebuilt, a chain of redirects sends the cookies it was given, and it is
\* followed to its limit (network/session.rs).
THEOREM CookiesArrive == PartsSpec => []CookiesReachTheNextRequest
<1>1. SharedInv => CookiesReachTheNextRequest
  BY CookiesHold DEF SharedInv, BusyInv, CookiesInv, CookiesReachTheNextRequest
<1> QED BY <1>1, PartsStart, PartsStep, PTL DEF PartsSpec

\* The VPN's client sends its access token, unless a login ended midway, and knows
\* when it ends, unless one of the two came alone (securelink/api.rs); who logged out stays out up to the cached client, and a
\* login page ends with its command (logic/login, web/login); a login is stored
\* with the ticket the server accepted, or one left from before (login/mod.rs).
THEOREM SessionsHoldTrue == PartsSpec => []SessionsAreWhatTheySay
<1>1. SharedInv => SessionsAreWhatTheySay
  BY SessionsHold DEF SharedInv, BusyInv, QuietInv, VpnInv, VpnTokens, SessionsInv, SchoolInv, SessionsAreWhatTheySay
<1> QED BY <1>1, PartsStart, PartsStep, PTL DEF PartsSpec

\* A radar answer reported as failed did fail, but for lost requests, and the
\* place that is remembered is close (auto_sign_request.rs, sign_data.rs); a push
\* of a QR code gives a user up or leaves him out only for the reasons given
\* (qr_sign_parse.rs, qr_sign.rs); grades called new are new, and missing ones are
\* gone (web/jdfpm/expose.rs, jdfpm/record.rs); the semester asked for is of the
\* list (choose_timetable.rs); an image that waits is answered (qrcode/task.rs).
THEOREM AnswersHoldTrue == PartsSpec => []AnswersAreHonest
<1>1. SharedInv => AnswersAreHonest
  BY RadarHold, QrHold, GradesHold
     DEF SharedInv, BusyInv, QuietInv, GradesInv, SemestersInv, DecoderInv, AnswersAreHonest
<1> QED BY <1>1, PartsStart, PartsStep, PTL DEF PartsSpec

\* A temporary file has one owner, is there while a page lists it and whole unless
\* the server's answer was short (storage/temp.rs, network/download.rs,
\* logic/download.rs, web/file); the newest pages of failed logins are kept
\* (xmu_service/login/mod.rs); threads that unpack the model files side by side do
\* not all die of it (qrcode/task.rs).
THEOREM FilesStay == PartsSpec => []FilesAreKept
<1>1. SharedInv => FilesAreKept
  BY FilesHold, FailuresHold, DecoderHold
     DEF SharedInv, BusyInv, QuietInv, FilesInv, FailuresInv, DecoderInv, FilesAreKept
<1> QED BY <1>1, PartsStart, PartsStep, PTL DEF PartsSpec

=============================================================================
