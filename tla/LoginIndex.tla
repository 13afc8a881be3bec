----------------------------- MODULE LoginIndex -----------------------------
(***************************************************************************)
(* How the course index follows the logins: the table of logins            *)
(* (src/logic/login), the task runner that rebuilds the index now and then *)
(* (src/api/scheduler/main.rs), and the tasks that a login or a logout     *)
(* spawns to change the index at once (upsert_user and remove_user of      *)
(* src/logic/rollcall/course_index.rs).                                    *)
(*                                                                         *)
(* A rebuild reads the logins, asks the school's server for the courses of *)
(* each user, and replaces the index; whatever was changed in the old      *)
(* index meanwhile is gone with it.  Here an index is the set of its       *)
(* users, and a change of one user is one step (CourseIndex has the steps  *)
(* inside it).                                                             *)
(***************************************************************************)
EXTENDS Naturals

CONSTANTS User,
          Expired,   \* users whose session the server may refuse
          Job,       \* bound: spawned tasks that are alive at once
          MaxOps     \* bound: logins and logouts

ASSUME LoginIndexAssumption ==
  /\ Expired \subseteq User
  /\ "maintain" \notin Job
  /\ MaxOps \in Nat

VARIABLES LOGIN_DATA,  \* users with a row in the table of logins
          ready,       \* TaskRunner::value is not None
          index,       \* the users of the index in TaskRunner::value
          building,    \* who is inside CourseIndexTask::run
          snap,        \* the logins that run has read
          job,         \* the spawned tasks
          ops

\* History.
VARIABLES touched,     \* per run: users that changed while it was under way
          raced        \* users whose last change a rebuild or a failure may have undone

vars == <<LOGIN_DATA, ready, index, building, snap, job, ops, touched, raced>>

Builder == Job \cup {"maintain"}

Idle == [pc |-> "idle"]

\* obj: whether the index the task has looked up is still the one in value.
\* A removal asks the server for nothing.
Spawned == {t \in [fn : {"upsert_user", "remove_user"}, user : User,
                   pc : {"fetch", "lookup", "build", "apply"}, obj : {"none", "current", "stale"}] :
              t.fn = "remove_user" => t.pc # "fetch"}

Active == {j \in Job : job[j] # Idle}

Init ==
  /\ LOGIN_DATA \in SUBSET User
  /\ ready = FALSE
  /\ index = {}
  /\ building = {}
  /\ snap = [b \in Builder |-> {}]
  /\ job = [j \in Job |-> Idle]
  /\ ops = 0
  /\ touched = [b \in Builder |-> {}]
  /\ raced = {}

\* The runs under way do not see what happens to u from here on.
Touch(u) == touched' = [b \in Builder |-> IF b \in building THEN touched[b] \cup {u}
                                                            ELSE touched[b]]

-----------------------------------------------------------------------------
\* Faulty variants of actions below; no specification uses them.  Each is a
\* bug that a property of this module must catch.

\* set_user changes only users the index has already.
Apply_KnownOnly(j) ==
  /\ job[j].pc = "apply"
  /\ index' = IF job[j].fn = "remove_user" /\ job[j].obj # "stale"
                THEN index \ {job[j].user} ELSE index
  /\ touched' = [b \in Builder |-> IF b \in building THEN touched[b] \cup {job[j].user}
                                                     ELSE touched[b]]
  /\ job' = [job EXCEPT ![j] = Idle]
  /\ UNCHANGED <<LOGIN_DATA, ready, building, snap, ops, raced>>

\* The maintenance loop stops for good when a run found nobody.
MaintainRun_NotIfEmpty ==
  /\ "maintain" \notin building
  /\ ready => index # {}
  /\ building' = building \cup {"maintain"}
  /\ snap' = [snap EXCEPT !["maintain"] = LOGIN_DATA]
  /\ UNCHANGED <<LOGIN_DATA, ready, index, job, ops, touched, raced>>

\* A logout asks the server for the user's courses first, as a login does, and
\* gives up when the session is refused.
Spawn_Alike(j, fn, u) ==
  /\ job[j] = Idle
  /\ job' = [job EXCEPT ![j] = [fn |-> fn, user |-> u, obj |-> "none", pc |-> "fetch"]]

-----------------------------------------------------------------------------
\* spawn_upsert, spawn_remove: only the first begins with a request.
Spawn(j, fn, u) ==
  /\ job[j] = Idle
  /\ job' = [job EXCEPT ![j] = [fn |-> fn, user |-> u, obj |-> "none",
                                pc |-> IF fn = "upsert_user" THEN "fetch" ELSE "lookup"]]

Overlapping(u) == \E k \in Active : job[k].user = u

\* update_and_login, try_pwd_login: the row is written, an upsert spawned.
Login(u, j) ==
  /\ ops < MaxOps
  /\ ops' = ops + 1
  /\ LOGIN_DATA' = LOGIN_DATA \cup {u}
  /\ Spawn(j, "upsert_user", u)
  /\ Touch(u)
  /\ raced' = IF Overlapping(u) THEN raced \cup {u} ELSE raced
  /\ UNCHANGED <<ready, index, building, snap>>

\* /loginpwd and the recovery with a stored password write the row and leave
\* the index to the next rebuild.
LoginUnindexed(u) ==
  /\ ops < MaxOps
  /\ ops' = ops + 1
  /\ LOGIN_DATA' = LOGIN_DATA \cup {u}
  /\ Touch(u)
  /\ raced' = raced \cup {u}
  /\ UNCHANGED <<ready, index, building, snap, job>>

\* /logout: the row is removed, a removal spawned.
logout(u, j) ==
  /\ ops < MaxOps
  /\ ops' = ops + 1
  /\ LOGIN_DATA' = LOGIN_DATA \ {u}
  /\ Spawn(j, "remove_user", u)
  /\ Touch(u)
  /\ raced' = IF Overlapping(u) THEN raced \cup {u} ELSE raced
  /\ UNCHANGED <<ready, index, building, snap>>

-----------------------------------------------------------------------------
\* upsert_user: the user's courses arrive, or the task gives up.
Fetched(j) ==
  /\ job[j].pc = "fetch"
  /\ \/ /\ job' = [job EXCEPT ![j].pc = "lookup"]
        /\ raced' = raced
     \/ /\ job[j].user \in Expired
        /\ job' = [job EXCEPT ![j] = Idle]
        /\ raced' = raced \cup {job[j].user}
  /\ UNCHANGED <<LOGIN_DATA, ready, index, building, snap, ops, touched>>

\* current_index: get_latest has a value.
Lookup(j) ==
  /\ job[j].pc = "lookup"
  /\ ready
  /\ job' = [job EXCEPT ![j].pc = "apply", ![j].obj = "current"]
  /\ UNCHANGED <<LOGIN_DATA, ready, index, building, snap, ops, touched, raced>>

\* current_index: get_latest has none and runs the task itself.
JobBuilds(j) ==
  /\ job[j].pc = "lookup"
  /\ ~ready
  /\ job' = [job EXCEPT ![j].pc = "build"]
  /\ building' = building \cup {j}
  /\ snap' = [snap EXCEPT ![j] = LOGIN_DATA]
  /\ UNCHANGED <<LOGIN_DATA, ready, index, ops, touched, raced>>

\* A run ends: the new index takes the place of whatever is in value.  It
\* lacks the users whose courses could not be fetched.
Store(b, failed) ==
  /\ ready' = TRUE
  /\ index' = snap[b] \ failed
  /\ building' = building \ {b}
  /\ snap' = [snap EXCEPT ![b] = {}]
  /\ touched' = [touched EXCEPT ![b] = {}]
  /\ raced' = touched[b] \cup failed \cup {job[k].user : k \in Active \ {b}}
                \cup (raced \cap {job[k].user : k \in Active})

Outdated(k) == IF job[k] # Idle /\ job[k].obj = "current"
                 THEN [job[k] EXCEPT !.obj = "stale"] ELSE job[k]

JobBuilt(j, failed) ==
  /\ job[j].pc = "build"
  /\ Store(j, failed)
  /\ job' = [k \in Job |-> IF k = j THEN [job[j] EXCEPT !.obj = "current", !.pc = "apply"]
                                    ELSE Outdated(k)]
  /\ UNCHANGED <<LOGIN_DATA, ops>>

\* index.set_user or index.remove_user, on the index that was looked up.
Apply(j) ==
  /\ job[j].pc = "apply"
  /\ index' = IF job[j].obj = "stale" THEN index
              ELSE IF job[j].fn = "upsert_user" THEN index \cup {job[j].user}
              ELSE index \ {job[j].user}
  /\ Touch(job[j].user)
  /\ job' = [job EXCEPT ![j] = Idle]
  /\ UNCHANGED <<LOGIN_DATA, ready, building, snap, ops, raced>>

-----------------------------------------------------------------------------
\* maintain: at the start and whenever interval() has passed since the last
\* result, CourseIndexTask::run reads the logins.
MaintainRun ==
  /\ "maintain" \notin building
  /\ building' = building \cup {"maintain"}
  /\ snap' = [snap EXCEPT !["maintain"] = LOGIN_DATA]
  /\ UNCHANGED <<LOGIN_DATA, ready, index, job, ops, touched, raced>>

\* maintain: the result is stored.  The run never fails, so the retry loop is
\* not entered.
MaintainStore(failed) ==
  /\ "maintain" \in building
  /\ Store("maintain", failed)
  /\ job' = [k \in Job |-> Outdated(k)]
  /\ UNCHANGED <<LOGIN_DATA, ops>>

-----------------------------------------------------------------------------
JobStep(j) == \/ Fetched(j)
              \/ Lookup(j)
              \/ JobBuilds(j)
              \/ \E failed \in SUBSET Expired : JobBuilt(j, failed)
              \/ Apply(j)

Maintenance == \/ MaintainRun
               \/ \E failed \in SUBSET Expired : MaintainStore(failed)

Next == \/ \E u \in User, j \in Job : Login(u, j) \/ logout(u, j)
        \/ \E u \in User : LoginUnindexed(u)
        \/ \E j \in Active : JobStep(j)
        \/ Maintenance

Spec == Init /\ [][Next]_vars

\* Who asks the server waits for it without limit: an upsert for the courses of
\* its user, a run for those of everybody it has read.
Asks(b) == snap[b] # {}

\* The runtime polls every task that can go on by itself, and the timer of the
\* loop fires.  A request need not end, so nothing that waits for one is fair.
JobGoesOn(j) == \/ Lookup(j)
                \/ JobBuilds(j)
                \/ Apply(j)
                \/ ~Asks(j) /\ \E failed \in SUBSET Expired : JobBuilt(j, failed)
MaintenanceGoesOn == \/ MaintainRun
                     \/ ~Asks("maintain") /\ \E failed \in SUBSET Expired : MaintainStore(failed)
Fairness == WF_vars(MaintenanceGoesOn) /\ \A j \in Job : WF_vars(j \in Active /\ JobGoesOn(j))

FairSpec == Spec /\ Fairness

-----------------------------------------------------------------------------
TypeOK ==
  /\ LOGIN_DATA \subseteq User
  /\ ready \in BOOLEAN
  /\ index \subseteq User
  /\ building \subseteq Builder
  /\ snap \in [Builder -> SUBSET User]
  /\ job \in [Job -> Spawned \cup {Idle}]
  /\ ops \in 0..MaxOps
  /\ touched \in [Builder -> SUBSET User]
  /\ raced \subseteq User

(***************************************************************************)
(* The index is right about everybody except those it can be wrong about   *)
(* until the next rebuild: users with an update still running, users whose *)
(* updates overlapped each other or a rebuild, users whose courses could   *)
(* not be fetched, and users logged in by a path that spawns no update.    *)
(* (get_latest, maintain, upsert_user, remove_user)                        *)
(***************************************************************************)
IndexFollowsLogins ==
  ready => \A u \in User \ raced : Overlapping(u) \/ (u \in index <=> u \in LOGIN_DATA)

(***************************************************************************)
(* Rebuilding repairs: once logins and logouts pause, the index comes to   *)
(* hold exactly the logged-in users and keeps holding them, but for those  *)
(* whose sessions have expired, and never holds anybody who logged out     *)
(* ("the rebuild only reconciles", REBUILD_INTERVAL) - unless a rebuild    *)
(* waits for ever: run joins the requests of all users, maintain awaits    *)
(* it, and no request has a limit.  A login's own task that waits for ever *)
(* does no harm.                                                           *)
(***************************************************************************)
Reconciled == ready /\ index \subseteq LOGIN_DATA /\ LOGIN_DATA \ Expired \subseteq index
EventuallyReconciled ==
  <>[]Reconciled \/ <>[]("maintain" \in building /\ Asks("maintain"))
=============================================================================
