-------------------------- MODULE LoginIndexProofs --------------------------
(***************************************************************************)
(* Theorems about LoginIndex, for every set of users and spawned tasks and *)
(* any number of logins and logouts: types, and whom the index can be      *)
(* wrong about.                                                            *)
(***************************************************************************)
EXTENDS LoginIndex, TLAPS

-----------------------------------------------------------------------------
\* A task is idle or spawned, and never both.
LEMMA SpawnedOrIdle ==
  ASSUME TypeOK, NEW j \in Job
  PROVE  /\ job[j] = Idle <=> job[j] \notin Spawned
         /\ job[j] = Idle <=> job[j].pc = "idle"
BY DEF TypeOK, Spawned, Idle

\* A task that is moved on is still a spawned one.
LEMMA MovedIsSpawned ==
  ASSUME TypeOK, NEW j \in Job, job[j] # Idle,
         NEW p \in {"lookup", "build", "apply"}, NEW o \in {"none", "current", "stale"}
  PROVE  /\ [job[j] EXCEPT !.pc = p] \in Spawned
         /\ [job[j] EXCEPT !.pc = p, !.obj = o] \in Spawned
         /\ [job[j] EXCEPT !.obj = o] \in Spawned
BY SpawnedOrIdle DEF Spawned

\* A run that ends leaves the variables it writes with their types.
LEMMA StoreTypes ==
  ASSUME TypeOK, NEW b \in Builder, NEW failed \in SUBSET Expired, Store(b, failed)
  PROVE  /\ ready' \in BOOLEAN /\ index' \subseteq User /\ building' \subseteq Builder
         /\ snap' \in [Builder -> SUBSET User] /\ touched' \in [Builder -> SUBSET User]
         /\ raced' \subseteq User
<1>1. \A k \in Active : job[k].user \in User
  BY SpawnedOrIdle DEF Active, Spawned
<1>2. failed \subseteq User /\ touched[b] \subseteq User /\ snap[b] \subseteq User
  BY LoginIndexAssumption DEF TypeOK
<1> QED BY <1>1, <1>2 DEF Store, TypeOK

\* What happens to a user is noted by the runs under way.
LEMMA TouchTypes ==
  ASSUME TypeOK, NEW u \in User, Touch(u)
  PROVE  touched' \in [Builder -> SUBSET User]
BY DEF Touch, TypeOK

\* A spawned task fits its place.
LEMMA SpawnTypes ==
  ASSUME TypeOK, NEW j \in Job, NEW u \in User, NEW fn \in {"upsert_user", "remove_user"},
         Spawn(j, fn, u)
  PROVE  job' \in [Job -> Spawned \cup {Idle}]
BY DEF Spawn, TypeOK, Spawned

\* Whose index was replaced is still a spawned task, or idle.
LEMMA OutdatedTypes ==
  ASSUME TypeOK, NEW k \in Job
  PROVE  Outdated(k) \in Spawned \cup {Idle}
BY MovedIsSpawned DEF Outdated, TypeOK

\* The variables keep their types.
LEMMA TypeInductive == TypeOK /\ [Next]_vars => TypeOK'
<1> SUFFICES ASSUME TypeOK, [Next]_vars PROVE TypeOK'
  OBVIOUS
<1>1. ASSUME NEW u \in User, NEW j \in Job, Login(u, j) \/ logout(u, j)
      PROVE  TypeOK'
  <2>1. job' \in [Job -> Spawned \cup {Idle}]
    BY <1>1, SpawnTypes DEF Login, logout
  <2>2. touched' \in [Builder -> SUBSET User]
    BY <1>1, TouchTypes DEF Login, logout
  <2>3. ops' \in 0..MaxOps
    BY <1>1, LoginIndexAssumption DEF Login, logout, TypeOK
  <2>4. LOGIN_DATA' \subseteq User /\ raced' \subseteq User
    BY <1>1 DEF Login, logout, TypeOK
  <2> QED BY <1>1, <2>1, <2>2, <2>3, <2>4 DEF Login, logout, TypeOK
<1>2. ASSUME NEW u \in User, LoginUnindexed(u)
      PROVE  TypeOK'
  <2>1. touched' \in [Builder -> SUBSET User]
    BY <1>2, TouchTypes DEF LoginUnindexed
  <2>2. ops' \in 0..MaxOps
    BY <1>2, LoginIndexAssumption DEF LoginUnindexed, TypeOK
  <2> QED BY <1>2, <2>1, <2>2 DEF LoginUnindexed, TypeOK
<1>3. ASSUME NEW j \in Active, Fetched(j)
      PROVE  TypeOK'
  <2>1. j \in Job /\ job[j] # Idle /\ job[j].user \in User
    BY SpawnedOrIdle DEF Active, Spawned
  <2>2. [job[j] EXCEPT !.pc = "lookup"] \in Spawned
    BY <2>1, MovedIsSpawned
  <2>3. job' \in [Job -> Spawned \cup {Idle}]
    BY <1>3, <2>1, <2>2 DEF Fetched, TypeOK
  <2>4. raced' \subseteq User
    BY <1>3, <2>1 DEF Fetched, TypeOK
  <2> QED BY <1>3, <2>3, <2>4 DEF Fetched, TypeOK
<1>4. ASSUME NEW j \in Active, Lookup(j)
      PROVE  TypeOK'
  <2>1. j \in Job /\ job[j] # Idle
    BY DEF Active
  <2>2. [job[j] EXCEPT !.pc = "apply", !.obj = "current"] \in Spawned
    BY <2>1, MovedIsSpawned
  <2>3. job' \in [Job -> Spawned \cup {Idle}]
    BY <1>4, <2>1, <2>2 DEF Lookup, TypeOK
  <2> QED BY <1>4, <2>3 DEF Lookup, TypeOK
<1>5. ASSUME NEW j \in Active, JobBuilds(j)
      PROVE  TypeOK'
  <2>1. j \in Job /\ job[j] # Idle /\ j \in Builder
    BY DEF Active, Builder
  <2>2. [job[j] EXCEPT !.pc = "build"] \in Spawned
    BY <2>1, MovedIsSpawned
  <2>3. job' \in [Job -> Spawned \cup {Idle}]
    BY <1>5, <2>1, <2>2 DEF JobBuilds, TypeOK
  <2> QED BY <1>5, <2>1, <2>3 DEF JobBuilds, TypeOK
<1>6. ASSUME NEW j \in Active, NEW failed \in SUBSET Expired, JobBuilt(j, failed)
      PROVE  TypeOK'
  <2>1. j \in Job /\ job[j] # Idle /\ j \in Builder
    BY DEF Active, Builder
  <2>2. [job[j] EXCEPT !.obj = "current", !.pc = "apply"] \in Spawned
    BY <2>1, SpawnedOrIdle DEF Spawned
  <2>3. job' \in [Job -> Spawned \cup {Idle}]
    BY <1>6, <2>1, <2>2, OutdatedTypes DEF JobBuilt
  <2> QED BY <1>6, <2>1, <2>3, StoreTypes DEF JobBuilt, TypeOK
<1>7. ASSUME NEW j \in Active, Apply(j)
      PROVE  TypeOK'
  <2>1. j \in Job /\ job[j].user \in User
    BY SpawnedOrIdle DEF Active, Spawned
  <2>2. touched' \in [Builder -> SUBSET User]
    BY <1>7, <2>1, TouchTypes DEF Apply
  <2>3. index' \subseteq User
    BY <1>7, <2>1 DEF Apply, TypeOK
  <2> QED BY <1>7, <2>2, <2>3 DEF Apply, TypeOK
<1>8. CASE MaintainRun
  BY <1>8 DEF MaintainRun, TypeOK, Builder
<1>9. ASSUME NEW failed \in SUBSET Expired, MaintainStore(failed)
      PROVE  TypeOK'
  <2>1. job' \in [Job -> Spawned \cup {Idle}]
    BY <1>9, OutdatedTypes DEF MaintainStore
  <2> QED BY <1>9, <2>1, StoreTypes DEF MaintainStore, TypeOK, Builder
<1>10. CASE UNCHANGED vars
  BY <1>10 DEF vars, TypeOK
<1> QED
  BY <1>1, <1>2, <1>3, <1>4, <1>5, <1>6, <1>7, <1>8, <1>9, <1>10 DEF Next, JobStep, Maintenance

\* The types hold at the start.
LEMMA InitTypes == Init => TypeOK
<1> SUFFICES ASSUME Init PROVE TypeOK
  OBVIOUS
<1>1. snap \in [Builder -> SUBSET User] /\ touched \in [Builder -> SUBSET User]
  BY DEF Init
<1>2. ops \in 0..MaxOps
  BY LoginIndexAssumption DEF Init
<1>3. job \in [Job -> Spawned \cup {Idle}]
  BY DEF Init
<1> QED BY <1>1, <1>2, <1>3 DEF Init, TypeOK

(* Every variable keeps its type, in every behaviour.                      *)
THEOREM TypeCorrect == Spec => []TypeOK
<1>1. Init => TypeOK
  BY InitTypes
<1>2. TypeOK /\ [Next]_vars => TypeOK'
  BY TypeInductive
<1> QED BY <1>1, <1>2, PTL DEF Spec
-----------------------------------------------------------------------------
(* IndexFollowsLogins is about a moment in which nothing of the user is    *)
(* under way.  What it needs of the moments before: the one task of a user *)
(* will do what his last login or logout asks for, to the index in use;    *)
(* and a run has read everybody as he is, but those it knows to have       *)
(* changed.                                                                *)
JobRight ==
  \A j \in Active :
    job[j].user \notin raced =>
      /\ job[j].obj # "stale"
      /\ job[j].fn = "upsert_user" <=> job[j].user \in LOGIN_DATA
      /\ \A k \in Active : job[k].user = job[j].user => k = j

SnapRight ==
  \A b \in building : \A u \in User \ touched[b] : u \in snap[b] <=> u \in LOGIN_DATA

BuildsCounted == \A j \in Active : job[j].pc = "build" => j \in building

IInv == TypeOK /\ JobRight /\ SnapRight /\ BuildsCounted /\ IndexFollowsLogins

-----------------------------------------------------------------------------
\* A login or logout: the user's new task is his only one, or he has raced.
LEMMA LoginStep ==
  ASSUME IInv, NEW u \in User, NEW j \in Job, Login(u, j) \/ logout(u, j)
  PROVE  JobRight' /\ SnapRight' /\ BuildsCounted' /\ IndexFollowsLogins'
<1>1. job[j] = Idle /\ job \in [Job -> Spawned \cup {Idle}]
  BY DEF Login, logout, Spawn, IInv, TypeOK
<1>2. /\ job'[j] \in Spawned /\ job'[j] # Idle
      /\ job'[j].user = u /\ job'[j].obj = "none" /\ job'[j].pc # "build"
      /\ job'[j].fn = "upsert_user" <=> u \in LOGIN_DATA'
  BY <1>1 DEF Login, logout, Spawn, Spawned, Idle
<1>3. \A k \in Job \ {j} : job'[k] = job[k]
  BY <1>1 DEF Login, logout, Spawn
<1>4. Active' = Active \cup {j} /\ j \notin Active
  BY <1>1, <1>2, <1>3 DEF Active
<1>5. \A w \in User \ {u} : w \in LOGIN_DATA' <=> w \in LOGIN_DATA
  BY DEF Login, logout
<1>6. raced \subseteq raced' /\ raced' \subseteq raced \cup {u} /\ (Overlapping(u) => u \in raced')
  BY DEF Login, logout
<1>7. \A k \in Active : k # j /\ job'[k] = job[k] /\ job[k].user \in User
  BY <1>3, <1>4, SpawnedOrIdle DEF IInv, Active, Spawned
<1>8. JobRight'
  <2> SUFFICES ASSUME NEW i \in Active', job'[i].user \notin raced'
               PROVE  /\ job'[i].obj # "stale"
                      /\ job'[i].fn = "upsert_user" <=> job'[i].user \in LOGIN_DATA'
                      /\ \A k \in Active' : job'[k].user = job'[i].user => k = i
    BY DEF JobRight
  <2>1. CASE i = j
    <3>1. \A k \in Active : job[k].user # u
      BY <1>2, <1>6, <2>1 DEF Overlapping
    <3> QED BY <1>2, <1>4, <1>7, <2>1, <3>1
  <2>2. CASE i # j
    <3>1. i \in Active /\ job'[i] = job[i] /\ job[i].user \notin raced
      BY <1>4, <1>6, <1>7, <2>2
    <3>2. job[i].user # u
      BY <1>6, <3>1 DEF Overlapping
    <3> QED BY <1>2, <1>4, <1>5, <1>7, <3>1, <3>2 DEF IInv, JobRight
  <2> QED BY <2>1, <2>2
<1>9. SnapRight'
  <2> SUFFICES ASSUME NEW b \in building, NEW w \in User \ touched'[b]
               PROVE  w \in snap[b] <=> w \in LOGIN_DATA'
    BY DEF SnapRight, Login, logout
  <2>1. touched'[b] = touched[b] \cup {u}
    BY DEF Login, logout, Touch, IInv, TypeOK
  <2> QED BY <1>5, <2>1 DEF IInv, SnapRight
<1>10. BuildsCounted'
  BY <1>2, <1>4, <1>7 DEF BuildsCounted, IInv, Login, logout
<1>11. IndexFollowsLogins'
  <2> SUFFICES ASSUME ready, NEW w \in User \ raced', ~Overlapping(w)'
               PROVE  w \in index <=> w \in LOGIN_DATA'
    BY DEF IndexFollowsLogins, Login, logout
  <2>1. w # u /\ ~Overlapping(w)
    BY <1>2, <1>4, <1>7 DEF Overlapping
  <2> QED BY <1>5, <1>6, <2>1 DEF IInv, IndexFollowsLogins
<1> QED BY <1>8, <1>9, <1>10, <1>11

\* What a step may do to a task that stays: the same user and function, never
\* newly stale, and no task appears.
TasksKept ==
  /\ Active' \subseteq Active
  /\ \A k \in Active' : /\ job'[k].user = job[k].user /\ job'[k].fn = job[k].fn
                        /\ job'[k].obj = "stale" =>
                             job[k].obj = "stale" \/ job[k].user \in raced'

\* If tasks are kept, no login changed, and no active user's race is forgotten, tasks stay right.
LEMMA JobRightKept ==
  ASSUME IInv, TasksKept, LOGIN_DATA' = LOGIN_DATA,
         \A k \in Active' : job[k].user \in raced => job[k].user \in raced'
  PROVE  JobRight'
<1> SUFFICES ASSUME NEW i \in Active', job'[i].user \notin raced'
             PROVE  /\ job'[i].obj # "stale"
                    /\ job'[i].fn = "upsert_user" <=> job'[i].user \in LOGIN_DATA'
                    /\ \A k \in Active' : job'[k].user = job'[i].user => k = i
  BY DEF JobRight
<1>1. i \in Active /\ job'[i].user = job[i].user /\ job[i].user \notin raced
  BY DEF TasksKept
<1> QED BY <1>1 DEF TasksKept, IInv, JobRight

\* A run ends and replaces the index: who changed meanwhile, failed, or has a
\* task has raced; everybody else is as the run has read him.
LEMMA StoreStep ==
  ASSUME IInv, NEW b \in building, NEW failed \in SUBSET Expired, Store(b, failed),
         LOGIN_DATA' = LOGIN_DATA, Active' = Active,
         \A k \in Active : job'[k].user = job[k].user
  PROVE  SnapRight' /\ IndexFollowsLogins'
<1>1. b \in Builder /\ building' = building \ {b} /\ index' = snap[b] \ failed
  BY DEF IInv, TypeOK, Store
<1>2. \A c \in building' : snap'[c] = snap[c] /\ touched'[c] = touched[c] /\ c \in building
  BY <1>1 DEF IInv, TypeOK, Store
<1>3. SnapRight'
  BY <1>2 DEF IInv, SnapRight
<1>4. touched[b] \subseteq raced' /\ failed \subseteq raced'
  BY DEF Store
<1>5. IndexFollowsLogins'
  BY <1>1, <1>4 DEF IndexFollowsLogins, IInv, SnapRight
<1> QED BY <1>3, <1>5

\* The index in use becomes stale only to tasks; they keep everything else.
LEMMA OutdatedKeeps ==
  ASSUME TypeOK, NEW k \in Job
  PROVE  /\ Outdated(k) = Idle <=> job[k] = Idle
         /\ job[k] # Idle => /\ Outdated(k).user = job[k].user /\ Outdated(k).fn = job[k].fn
                             /\ Outdated(k).pc = job[k].pc
<1>1. CASE job[k] # Idle
  <2>1. job[k] \in Spawned /\ job[k].pc # "idle"
    BY <1>1, SpawnedOrIdle DEF Spawned
  <2>2. Outdated(k).pc = job[k].pc /\ Outdated(k).user = job[k].user /\ Outdated(k).fn = job[k].fn
    BY <2>1 DEF Outdated, Spawned
  <2>3. Outdated(k) # Idle
    BY <2>1, <2>2 DEF Idle
  <2> QED BY <1>1, <2>2, <2>3
<1>2. CASE job[k] = Idle
  BY <1>2 DEF Outdated
<1> QED BY <1>1, <1>2

\* The invariant is kept by every step: each action is a step below.
LEMMA InvInductive == IInv /\ [Next]_vars => IInv'
<1> SUFFICES ASSUME IInv, [Next]_vars
             PROVE  JobRight' /\ SnapRight' /\ BuildsCounted' /\ IndexFollowsLogins'
  BY TypeInductive DEF IInv
<1> USE DEF IInv
<1>1. ASSUME NEW u \in User, NEW j \in Job, Login(u, j) \/ logout(u, j)
      PROVE  JobRight' /\ SnapRight' /\ BuildsCounted' /\ IndexFollowsLogins'
  BY <1>1, LoginStep
<1>2. ASSUME NEW u \in User, LoginUnindexed(u)
      PROVE  JobRight' /\ SnapRight' /\ BuildsCounted' /\ IndexFollowsLogins'
  <2>1. raced' = raced \cup {u} /\ job' = job /\ Active' = Active
    BY <1>2 DEF LoginUnindexed, Active
  <2>2. \A w \in User \ {u} : w \in LOGIN_DATA' <=> w \in LOGIN_DATA
    BY <1>2 DEF LoginUnindexed
  <2>3. \A k \in Active : job[k].user \in User
    BY SpawnedOrIdle DEF Active, Spawned
  <2>4. JobRight'
    BY <2>1, <2>2, <2>3 DEF JobRight
  <2>5. SnapRight'
    <3>1. \A b \in building : touched'[b] = touched[b] \cup {u}
      BY <1>2 DEF LoginUnindexed, Touch, TypeOK
    <3> QED BY <1>2, <2>2, <3>1 DEF SnapRight, LoginUnindexed
  <2>6. BuildsCounted'
    BY <1>2, <2>1 DEF BuildsCounted, LoginUnindexed
  <2>7. IndexFollowsLogins'
    BY <1>2, <2>1, <2>2 DEF IndexFollowsLogins, Overlapping, LoginUnindexed
  <2> QED BY <2>4, <2>5, <2>6, <2>7
<1>3. ASSUME NEW j \in Active, Fetched(j)
      PROVE  JobRight' /\ SnapRight' /\ BuildsCounted' /\ IndexFollowsLogins'
  <2>1. j \in Job /\ job[j] \in Spawned /\ job \in [Job -> Spawned \cup {Idle}]
    BY SpawnedOrIdle DEF Active, TypeOK
  <2>2. \A k \in Active \ {j} : job'[k] = job[k]
    BY <1>3, <2>1 DEF Fetched, Active
  <2>3. \/ /\ job'[j] = Idle /\ raced' = raced \cup {job[j].user}
        \/ /\ job'[j].pc = "lookup" /\ raced' = raced
           /\ job'[j].user = job[j].user /\ job'[j].fn = job[j].fn /\ job'[j].obj = job[j].obj
    BY <1>3, <2>1 DEF Fetched, Spawned
  <2>4. Active' \subseteq Active
    BY <1>3, <2>1 DEF Fetched, Active
  <2>5. j \in Active' => job'[j].pc = "lookup"
    BY <2>3 DEF Active
  <2>6. raced \subseteq raced' /\ LOGIN_DATA' = LOGIN_DATA
    BY <1>3 DEF Fetched
  <2>7. TasksKept
    BY <2>2, <2>3, <2>4 DEF TasksKept, Active
  <2>8. JobRight'
    BY <2>6, <2>7, JobRightKept
  <2>9. SnapRight'
    BY <1>3 DEF Fetched, SnapRight
  <2>10. BuildsCounted'
    BY <1>3, <2>2, <2>4, <2>5 DEF Fetched, BuildsCounted
  <2>11. IndexFollowsLogins'
    <3> SUFFICES ASSUME ready, NEW w \in User \ raced', Overlapping(w)
                 PROVE  Overlapping(w)'
      BY <1>3, <2>6 DEF IndexFollowsLogins, Fetched
    <3>1. PICK k \in Active : job[k].user = w
      BY DEF Overlapping
    <3>2. job'[k].user = w /\ job'[k] # Idle
      <4>1. CASE k = j
        BY <2>3, <3>1, <4>1 DEF Idle
      <4>2. CASE k # j
        BY <2>2, <3>1, <4>2 DEF Active
      <4> QED BY <4>1, <4>2
    <3> QED BY <3>2 DEF Overlapping, Active
  <2> QED BY <2>8, <2>9, <2>10, <2>11
<1>4. ASSUME NEW j \in Active, Lookup(j) \/ JobBuilds(j)
      PROVE  JobRight' /\ SnapRight' /\ BuildsCounted' /\ IndexFollowsLogins'
  <2>1. j \in Job /\ job[j] \in Spawned /\ job \in [Job -> Spawned \cup {Idle}] /\ j \in Builder
    BY SpawnedOrIdle DEF Active, TypeOK, Builder
  <2>2. \A k \in Job \ {j} : job'[k] = job[k]
    BY <1>4, <2>1 DEF Lookup, JobBuilds
  <2>3. /\ job'[j].user = job[j].user /\ job'[j].fn = job[j].fn
        /\ job'[j].obj # "stale" \/ job'[j].obj = job[j].obj
        /\ job'[j].pc = "apply" \/ (job'[j].pc = "build" /\ j \in building')
    BY <1>4, <2>1 DEF Lookup, JobBuilds, Spawned
  <2>4. Active' = Active
    BY <2>1, <2>2, <2>3 DEF Active, Idle
  <2>5. raced' = raced /\ LOGIN_DATA' = LOGIN_DATA /\ building \subseteq building'
    BY <1>4 DEF Lookup, JobBuilds
  <2>6. \A k \in Active : job'[k].user = job[k].user /\ job'[k].fn = job[k].fn
    BY <2>2, <2>3 DEF Active
  <2>7. TasksKept
    BY <2>2, <2>3, <2>4, <2>6 DEF TasksKept, Active
  <2>8. JobRight'
    BY <2>5, <2>7, JobRightKept
  <2>9. SnapRight'
    <3>1. CASE Lookup(j)
      BY <3>1 DEF Lookup, SnapRight
    <3>2. CASE JobBuilds(j)
      <4>1. snap'[j] = LOGIN_DATA /\ \A b \in building \ {j} : snap'[b] = snap[b]
        BY <2>1, <3>2 DEF JobBuilds, TypeOK
      <4> QED BY <3>2, <4>1 DEF JobBuilds, SnapRight
    <3> QED BY <1>4, <3>1, <3>2
  <2>10. BuildsCounted'
    BY <2>2, <2>3, <2>4, <2>5 DEF BuildsCounted, Active
  <2>11. IndexFollowsLogins'
    BY <1>4, <2>4, <2>5, <2>6 DEF IndexFollowsLogins, Overlapping, Lookup, JobBuilds
  <2> QED BY <2>8, <2>9, <2>10, <2>11
<1>5. ASSUME NEW j \in Active, NEW failed \in SUBSET Expired, JobBuilt(j, failed)
      PROVE  JobRight' /\ SnapRight' /\ BuildsCounted' /\ IndexFollowsLogins'
  <2>1. /\ j \in Job /\ job[j] \in Spawned /\ job[j].pc = "build"
        /\ job \in [Job -> Spawned \cup {Idle}] /\ j \in building
    BY <1>5, SpawnedOrIdle DEF Active, TypeOK, BuildsCounted, JobBuilt
  <2>2. \A k \in Job \ {j} : job'[k] = Outdated(k)
    BY <1>5, <2>1 DEF JobBuilt
  <2>3. /\ job'[j].user = job[j].user /\ job'[j].fn = job[j].fn
        /\ job'[j].obj = "current" /\ job'[j].pc = "apply"
    BY <1>5, <2>1 DEF JobBuilt, Spawned
  <2>4. Active' = Active
    BY <2>1, <2>2, <2>3, OutdatedKeeps DEF Active, Idle
  <2>5. \A k \in Active : job'[k].user = job[k].user /\ job'[k].fn = job[k].fn
    BY <2>2, <2>3, OutdatedKeeps DEF Active
  <2>6. Store(j, failed) /\ LOGIN_DATA' = LOGIN_DATA
    BY <1>5 DEF JobBuilt
  <2>7. \A k \in Active : /\ k # j => job[k].user \in raced'
                          /\ job[k].user \in raced => job[k].user \in raced'
    BY <2>6 DEF Store
  <2>8. TasksKept
    BY <2>3, <2>4, <2>5, <2>7 DEF TasksKept
  <2>9. JobRight'
    BY <2>4, <2>6, <2>7, <2>8, JobRightKept
  <2>10. SnapRight' /\ IndexFollowsLogins'
    BY <2>1, <2>4, <2>5, <2>6, StoreStep
  <2>11. BuildsCounted'
    <3>1. building' = building \ {j}
      BY <2>6 DEF Store
    <3> QED BY <2>2, <2>3, <2>4, <3>1, OutdatedKeeps DEF BuildsCounted, Active
  <2> QED BY <2>9, <2>10, <2>11
<1>6. ASSUME NEW j \in Active, Apply(j)
      PROVE  JobRight' /\ SnapRight' /\ BuildsCounted' /\ IndexFollowsLogins'
  <2>1. j \in Job /\ job[j] \in Spawned /\ job \in [Job -> Spawned \cup {Idle}] /\ job[j].user \in User
    BY SpawnedOrIdle DEF Active, TypeOK, Spawned
  <2>2. \A k \in Active \ {j} : job'[k] = job[k]
    BY <1>6, <2>1 DEF Apply, Active
  <2>3. Active' = Active \ {j}
    BY <1>6, <2>1 DEF Apply, Active
  <2>4. raced' = raced /\ LOGIN_DATA' = LOGIN_DATA /\ snap' = snap /\ building' = building /\ ready' = ready
    BY <1>6 DEF Apply
  <2>5. TasksKept
    BY <2>2, <2>3 DEF TasksKept
  <2>6. JobRight'
    BY <2>3, <2>4, <2>5, JobRightKept
  <2>7. SnapRight'
    <3>1. \A b \in building : touched[b] \subseteq touched'[b]
      BY <1>6 DEF Apply, Touch, TypeOK
    <3> QED BY <2>4, <3>1 DEF SnapRight
  <2>8. BuildsCounted'
    BY <2>2, <2>3, <2>4 DEF BuildsCounted
  <2>9. IndexFollowsLogins'
    <3> SUFFICES ASSUME ready, NEW w \in User \ raced, ~Overlapping(w)'
                 PROVE  w \in index' <=> w \in LOGIN_DATA
      BY <2>4 DEF IndexFollowsLogins
    <3>1. CASE w = job[j].user
      <4>1. job[j].obj # "stale" /\ (job[j].fn = "upsert_user" <=> w \in LOGIN_DATA)
        BY <3>1 DEF JobRight
      <4>2. index' = IF job[j].fn = "upsert_user" THEN index \cup {w} ELSE index \ {w}
        BY <1>6, <3>1, <4>1 DEF Apply
      <4> QED BY <4>1, <4>2
    <3>2. CASE w # job[j].user
      <4>1. ~Overlapping(w)
        BY <2>2, <2>3, <3>2 DEF Overlapping
      <4>2. w \in index' <=> w \in index
        BY <1>6, <3>2 DEF Apply
      <4> QED BY <4>1, <4>2 DEF IndexFollowsLogins
    <3> QED BY <3>1, <3>2
  <2> QED BY <2>6, <2>7, <2>8, <2>9
<1>7. CASE MaintainRun
  <2>1. job' = job /\ Active' = Active /\ LOGIN_DATA' = LOGIN_DATA /\ raced' = raced
    BY <1>7 DEF MaintainRun, Active
  <2>2. JobRight' /\ BuildsCounted' /\ IndexFollowsLogins'
    BY <1>7, <2>1 DEF JobRight, BuildsCounted, IndexFollowsLogins, Overlapping, MaintainRun
  <2>3. SnapRight'
    <3>1. snap'["maintain"] = LOGIN_DATA /\ \A b \in building : snap'[b] = snap[b]
      BY <1>7 DEF MaintainRun, TypeOK, Builder
    <3> QED BY <1>7, <3>1 DEF MaintainRun, SnapRight
  <2> QED BY <2>2, <2>3
<1>8. ASSUME NEW failed \in SUBSET Expired, MaintainStore(failed)
      PROVE  JobRight' /\ SnapRight' /\ BuildsCounted' /\ IndexFollowsLogins'
  <2>1. \A k \in Job : job'[k] = Outdated(k)
    BY <1>8 DEF MaintainStore
  <2>2. Active' = Active
    BY <2>1, OutdatedKeeps DEF Active
  <2>3. \A k \in Active : job'[k].user = job[k].user /\ job'[k].fn = job[k].fn
    BY <2>1, OutdatedKeeps DEF Active
  <2>4. Store("maintain", failed) /\ LOGIN_DATA' = LOGIN_DATA /\ "maintain" \in building
    BY <1>8 DEF MaintainStore
  <2>5. \A k \in Active : job[k].user \in raced'
    BY <2>4, LoginIndexAssumption DEF Store, Active
  <2>6. TasksKept
    BY <2>2, <2>3, <2>5 DEF TasksKept
  <2>7. JobRight'
    BY <2>2, <2>4, <2>5, <2>6, JobRightKept
  <2>8. SnapRight' /\ IndexFollowsLogins'
    BY <2>2, <2>3, <2>4, StoreStep
  <2>9. BuildsCounted'
    <3>1. building' = building \ {"maintain"}
      BY <2>4 DEF Store
    <3> QED BY <2>1, <2>2, <3>1, OutdatedKeeps, LoginIndexAssumption DEF BuildsCounted, Active
  <2> QED BY <2>7, <2>8, <2>9
<1>9. CASE UNCHANGED vars
  BY <1>9 DEF vars, JobRight, SnapRight, BuildsCounted, IndexFollowsLogins, Overlapping, Active
<1> QED
  BY <1>1, <1>2, <1>3, <1>4, <1>5, <1>6, <1>7, <1>8, <1>9 DEF Next, JobStep, Maintenance

(* The index is right about everybody but those who have an update under   *)
(* way, or whose updates raced, failed or were never made (upsert_user,    *)
(* remove_user, get_latest, maintain).                                     *)
THEOREM IndexRight == Spec => []IndexFollowsLogins
<1>1. Init => IInv
  <2>1. Init => JobRight /\ SnapRight /\ BuildsCounted /\ IndexFollowsLogins
    BY DEF Init, JobRight, SnapRight, BuildsCounted, IndexFollowsLogins, Active
  <2> QED BY <2>1, InitTypes DEF IInv
<1>2. IInv /\ [Next]_vars => IInv'
  BY InvInductive
<1>3. IInv => IndexFollowsLogins
  BY DEF IInv
<1> QED BY <1>1, <1>2, <1>3, PTL DEF Spec
=============================================================================
