------------------------------ MODULE TimeSign ------------------------------
(***************************************************************************)
(* The timed sign-in (src/logic/rollcall/time_sign.rs, watch.rs).  A tick  *)
(* takes the users who are in class, makes sure of their sessions, lets a  *)
(* few scouts ask for open roll calls on behalf of the courses they share  *)
(* with the others, sends backups for scouts that failed, and dispatches   *)
(* everybody concerned to sign: a leader first, the others after him, but  *)
(* without waiting longer than a limit for a slow leader.                  *)
(*                                                                         *)
(* Any request to the school's server may fail, sessions end at any time   *)
(* and users log in again at any time.  There is no clock: a timer may     *)
(* fire whenever it is armed, a cached conclusion may be fresh or too old. *)
(***************************************************************************)
EXTENDS Naturals, FiniteSets, Sequences

CONSTANTS User, Course, Rollcall,
          course_of,   \* the course of a roll call
          takes,       \* the courses of a user, as the server knows them
          Nobody,
          MaxTicks,    \* bound: ticks with somebody active
          MaxUpsets    \* bound: sessions that end and roll calls that close

ASSUME TimeSignAssumption ==
  /\ course_of \in [Rollcall -> Course]
  /\ takes \in [User -> SUBSET Course]
  /\ IsFiniteSet(User)
  /\ Nobody \notin User
  /\ MaxTicks \in Nat /\ MaxUpsets \in Nat

\* The server, and the users' sessions on it.
VARIABLES rollcall,      \* none, open or closed
          signed,        \* <<user, roll call>> pairs: present, says the server
          upsets,        \* sessions that ended and roll calls that were closed
          client,        \* CLIENT_CACHE: no client, a live one, or a dead one
          request        \* AUTO_SIGN_CACHE: the client kept for <<user, course>>

\* Tables of the bot that outlive a tick.
VARIABLES by_qq,         \* the course index: the courses of a user
          indexed,       \* users who are in the index
          healing,       \* users with a spawned update of the index
          SIGNED_MARK,   \* <<user, roll call>> pairs that are settled
          SCOUT_DUTY,    \* the tick in which a user was last a scout
          WARM_STATE,    \* what was last known of a session
          TICK_SEQ

\* The tick under way.
VARIABLES pc,
          unwarmed,      \* active users whose session is yet to be looked at
          active,        \* users of this tick with a session
          courses_of,    \* courses in session that the index knows
          all_courses_of,\* courses of an indexed user, when the tick began
          scouts,        \* the scouts in order, then the backups
          polled,        \* per user: "no", "ok" or "failed" as a scout
          seen,          \* what a scout saw
          found,         \* per roll call: the scout who saw it, or Nobody
          todo,          \* found roll calls still to be dealt with
          current,       \* the roll call that is being dispatched
          leader, others,
          task,          \* sign_one per user and roll call
          late           \* <<leader, roll call>> not waited for

\* History of the tick.
VARIABLE trouble         \* since the scouts set out a backup or a sign-in failed,
                         \* a roll call was put off, or one was opened

server  == <<rollcall, signed, upsets>>
session == <<client, request>>
index   == <<by_qq, indexed, healing>>
tables  == <<SIGNED_MARK, SCOUT_DUTY, WARM_STATE, TICK_SEQ>>
plan    == <<unwarmed, active, courses_of, all_courses_of>>
gather  == <<scouts, polled, seen, found>>
signing == <<todo, current, leader, others, task, late>>
vars == <<server, session, index, tables, pc, plan, gather, signing, trouble>>

Pair == User \X Rollcall
Running == {"cached", "recover", "retry"}
Outcome == {"settled", "unconfirmed", "failed", "notlogin"}

Known == UNION {by_qq[u] : u \in indexed}
Lists(u, r) == course_of[r] \in takes[u] /\ rollcall[r] = "open"
qq_of_course(c) == {u \in indexed : c \in by_qq[u]}
Listed(s) == {s[i] : i \in 1..Len(s)}
Orders(S) == {s \in [1..Cardinality(S) -> S] : Listed(s) = S}

Init ==
  /\ rollcall = [r \in Rollcall |-> "none"]
  /\ signed = {}
  /\ client = [u \in User |-> "none"]
  /\ request = [u \in User |-> [c \in Course |-> "none"]]
  /\ upsets = 0
  /\ indexed \in SUBSET User
  /\ by_qq \in [User -> SUBSET Course]
  /\ \A u \in User \ indexed : by_qq[u] = {}
  /\ healing = {}
  /\ SIGNED_MARK = {}
  /\ SCOUT_DUTY = [u \in User |-> 0]
  /\ WARM_STATE = [u \in User |-> "none"]
  /\ TICK_SEQ = 0
  /\ pc = "idle"
  /\ unwarmed = {} /\ active = {} /\ scouts = <<>>
  /\ courses_of = [u \in User |-> {}] /\ all_courses_of = <<>>
  /\ polled = [u \in User |-> "no"] /\ seen = [u \in User |-> {}]
  /\ found = [r \in Rollcall |-> Nobody]
  /\ todo = {} /\ current = Nobody /\ leader = Nobody /\ others = {} /\ late = {}
  /\ task = [p \in Pair |-> "no"]
  /\ trouble = FALSE

-----------------------------------------------------------------------------
\* get_client_or_err_for_id: the cached client if it works, else one recovered
\* from the login or the password that is stored.  It fails if nothing is
\* stored, or on the way; what is stored is left out, so it may always fail.
Recovered(u) == client' = [client EXCEPT ![u] = "live"]
NotRecovered(u) == UNCHANGED client

\* time_sign_task begins: users whose time it is and who have a group.
TickBegin(users) ==
  /\ pc = "idle"
  /\ TICK_SEQ < MaxTicks
  /\ pc' = "warm"
  /\ unwarmed' = users
  /\ UNCHANGED <<active, courses_of, all_courses_of>>
  /\ UNCHANGED <<server, session, index, tables, gather, signing, trouble>>

\* warm_up for one user: an earlier conclusion is used, or the session tried.
WarmUp(u) ==
  /\ pc = "warm"
  /\ u \in unwarmed
  /\ unwarmed' = unwarmed \ {u}
  /\ \/ /\ WARM_STATE[u] = "ok"
        /\ active' = active \cup {u}
        /\ UNCHANGED <<session, WARM_STATE>>
     \/ /\ WARM_STATE[u] = "bad"
        /\ UNCHANGED <<session, active, WARM_STATE>>
     \/ /\ Recovered(u)
        /\ active' = active \cup {u}
        /\ WARM_STATE' = [WARM_STATE EXCEPT ![u] = "ok"]
        /\ UNCHANGED request
     \/ /\ NotRecovered(u)
        /\ WARM_STATE' = [WARM_STATE EXCEPT ![u] = "bad"]
        /\ UNCHANGED <<request, active>>
  /\ UNCHANGED <<pc, courses_of, all_courses_of>>
  /\ UNCHANGED <<server, index, SIGNED_MARK, SCOUT_DUTY, TICK_SEQ, gather, signing, trouble>>

\* Nobody has a session: only reminders are left to send.
NobodyWarm ==
  /\ pc = "warm"
  /\ unwarmed = {}
  /\ active = {}
  /\ pc' = "idle"
  /\ UNCHANGED <<server, session, index, tables, plan, gather, signing, trouble>>

\* Faulty: whoever adds most is sent again and again.
Better_Widest(adds, u, v) == Cardinality(adds[u]) >= Cardinality(adds[v])

\* plan_tick: among those who watch a course that none of the earlier scouts
\* watches, the next scout is the one who has not been on duty for longest;
\* among equals, one who adds the most courses.
Better(adds, u, v) ==
  \/ SCOUT_DUTY[u] < SCOUT_DUTY[v]
  \/ SCOUT_DUTY[u] = SCOUT_DUTY[v] /\ Cardinality(adds[u]) >= Cardinality(adds[v])

IsRota(watched, s) ==
  /\ \A i \in 1..Len(s) :
       LET earlier == {s[j] : j \in 1..(i - 1)}
           adds == [u \in User |-> watched[u] \ UNION {watched[v] : v \in earlier}]
       IN /\ adds[s[i]] # {}
          /\ \A v \in active \ earlier : adds[v] # {} => Better(adds, s[i], v)
  /\ \A u \in active : watched[u] \subseteq UNION {watched[v] : v \in Listed(s)}

\* Whoever has no known course in session is a scout of his own.
Rotas(watched) ==
  LET alone == {u \in active : watched[u] = {}}
      shared == {s \in UNION {Orders(S) : S \in SUBSET (active \ alone)} : IsRota(watched, s)}
  IN UNION {{own \o s : s \in shared} : own \in Orders(alone)}

\* Faulty: the duty is booked under the number of the next tick.
Plan_Ahead(insession) ==
  /\ pc = "warm"
  /\ unwarmed = {}
  /\ active # {}
  /\ pc' = "scouting"
  /\ courses_of' = [u \in User |-> IF u \in active THEN insession[u] \cap takes[u] \cap Known
                                                   ELSE {}]
  /\ all_courses_of' = [u \in active \cap indexed |-> by_qq[u]]
  /\ scouts' \in Rotas(courses_of')
  /\ TICK_SEQ' = TICK_SEQ + 1
  /\ SCOUT_DUTY' = [u \in User |-> IF u \in Listed(scouts') THEN TICK_SEQ' + 1 ELSE SCOUT_DUTY[u]]
  /\ UNCHANGED <<unwarmed, active, polled, seen, found, trouble>>
  /\ UNCHANGED <<server, session, index, SIGNED_MARK, WARM_STATE, signing>>

\* The plan, made in one go: the tick gets its number, the scouts their duty.
Plan(insession) ==
  /\ pc = "warm"
  /\ unwarmed = {}
  /\ active # {}
  /\ pc' = "scouting"
  /\ courses_of' = [u \in User |-> IF u \in active THEN insession[u] \cap takes[u] \cap Known
                                                   ELSE {}]
  /\ all_courses_of' = [u \in active \cap indexed |-> by_qq[u]]
  /\ scouts' \in Rotas(courses_of')
  /\ TICK_SEQ' = TICK_SEQ + 1
  /\ SCOUT_DUTY' = [u \in User |-> IF u \in Listed(scouts') THEN TICK_SEQ' ELSE SCOUT_DUTY[u]]
  /\ UNCHANGED <<unwarmed, active, polled, seen, found, trouble>>
  /\ UNCHANGED <<server, session, index, SIGNED_MARK, WARM_STATE, signing>>

-----------------------------------------------------------------------------
\* run_scouts for one scout: with the cached client, or else a recovered one.
Poll(u) ==
  /\ pc \in {"scouting", "backup"}
  /\ u \in Listed(scouts)
  /\ polled[u] = "no"
  /\ \/ /\ Recovered(u)
        /\ polled' = [polled EXCEPT ![u] = "ok"]
        /\ seen' = [seen EXCEPT ![u] = {r \in Rollcall : Lists(u, r)}]
        /\ UNCHANGED <<WARM_STATE, trouble>>
     \/ /\ NotRecovered(u)
        /\ polled' = [polled EXCEPT ![u] = "failed"]
        /\ WARM_STATE' = [WARM_STATE EXCEPT ![u] = "bad"]
        /\ trouble' = (trouble \/ pc = "backup")
        /\ UNCHANGED seen
     \/ /\ Recovered(u)
        /\ polled' = [polled EXCEPT ![u] = "failed"]
        /\ trouble' = (trouble \/ pc = "backup")
        /\ UNCHANGED <<WARM_STATE, seen>>
  /\ UNCHANGED <<pc, scouts, found, request, SIGNED_MARK, SCOUT_DUTY, TICK_SEQ>>
  /\ UNCHANGED <<server, index, plan, signing>>

Failed == {u \in User : polled[u] = "failed"}

\* The first scout in order who saw the roll call is its finder.
FirstToSee(r) ==
  LET who == {i \in 1..Len(scouts) : polled[scouts[i]] = "ok" /\ r \in seen[scouts[i]]}
  IN IF found[r] # Nobody \/ who = {} THEN found[r]
     ELSE scouts[CHOOSE i \in who : \A j \in who : i <= j]

Good == {u \in Listed(scouts) : polled[u] = "ok"}

\* absorb: what the scouts bring home.  A roll call of a course the index does
\* not have for its scout has the index updated, unless that was tried lately.
Absorb ==
  LET behind == {u \in Good \cap DOMAIN all_courses_of :
                   \E r \in seen[u] : course_of[r] \notin all_courses_of[u]}
  IN /\ \A u \in Listed(scouts) : polled[u] # "no"
     /\ found' = [r \in Rollcall |-> FirstToSee(r)]
     /\ seen' = [u \in User |-> {}]
     /\ \E heal \in SUBSET behind : healing' = healing \cup heal

\* pick_backups: for each course nobody could look at, a user who shares it
\* and has not failed, unless an earlier backup shares it too.
Backups(lost) ==
  LET fit == {u \in active \ Failed : courses_of[u] \cap lost # {}}
  IN {s \in UNION {Orders(S) : S \in SUBSET fit} :
        /\ \A c \in lost : (\E u \in fit : c \in courses_of[u])
                             => \E u \in Listed(s) : c \in courses_of[u]
        /\ \A i \in 1..Len(s) : \E c \in courses_of[s[i]] \cap lost :
                                  \A j \in 1..(i - 1) : c \notin courses_of[s[j]]}

Watched == UNION {courses_of[u] : u \in active}

AbsorbScouts ==
  /\ pc = "scouting"
  /\ Absorb
  /\ scouts' \in Backups(Watched \ UNION {courses_of[u] : u \in Good})
  /\ SCOUT_DUTY' = [u \in User |-> IF u \in Listed(scouts') THEN TICK_SEQ ELSE SCOUT_DUTY[u]]
  /\ IF scouts' = <<>>
       THEN pc' = "dispatch" /\ todo' = {r \in Rollcall : found'[r] # Nobody}
       ELSE pc' = "backup" /\ todo' = todo
  /\ UNCHANGED <<polled, by_qq, indexed, SIGNED_MARK, WARM_STATE, TICK_SEQ>>
  /\ UNCHANGED <<current, leader, others, task, late, server, session, plan, trouble>>

AbsorbBackups ==
  /\ pc = "backup"
  /\ Absorb
  /\ pc' = "dispatch"
  /\ todo' = {r \in Rollcall : found'[r] # Nobody}
  /\ UNCHANGED <<scouts, polled, by_qq, indexed, current, leader, others, task, late>>
  /\ UNCHANGED <<server, session, tables, plan, trouble>>

-----------------------------------------------------------------------------
\* Faulty: the list is narrowed to those who watch the course just now.
Targets_Watchers(r) ==
  {u \in active : course_of[r] \in courses_of[u] /\ <<u, r>> \notin SIGNED_MARK}
    \cup ({found[r]} \cap {u \in active : <<u, r>> \notin SIGNED_MARK})

\* Faulty: the marks are not looked at.
Targets_Everybody(r) == (qq_of_course(course_of[r]) \cup {found[r]}) \cap active

\* Who is to sign: the course's users in the index and the finder, if they are
\* active and not settled.
Targets(r) ==
  {u \in (qq_of_course(course_of[r]) \cup {found[r]}) \cap active : <<u, r>> \notin SIGNED_MARK}

\* A found roll call is passed over: everybody is settled, its progress could
\* not be read, or it is below the threshold.
PassOver(r) ==
  /\ pc = "dispatch"
  /\ r \in todo
  /\ todo' = todo \ {r}
  /\ trouble' = (trouble \/ Targets(r) # {})
  /\ UNCHANGED <<pc, current, leader, others, task, late>>
  /\ UNCHANGED <<server, session, index, tables, plan, gather>>

\* The threshold is reached: the finder leads if he is to sign himself.
Lead(r, u) ==
  /\ pc = "dispatch"
  /\ r \in todo
  /\ u \in Targets(r)
  /\ found[r] \in Targets(r) => u = found[r]
  /\ client[found[r]] = "live"
  /\ pc' = "leader"
  /\ current' = r
  /\ leader' = u
  /\ others' = Targets(r) \ {u}
  /\ task' = [task EXCEPT ![<<u, r>>] = "cached"]
  /\ UNCHANGED <<todo, late>>
  /\ UNCHANGED <<server, session, index, tables, plan, gather, trouble>>

\* Faulty: an answer the server took is marked before it is confirmed.
absorb_sign_Sent(pairs) ==
  /\ SIGNED_MARK' = SIGNED_MARK \cup {p \in pairs : task[p] \in {"settled", "unconfirmed"}}
  /\ UNCHANGED <<SCOUT_DUTY, WARM_STATE, TICK_SEQ>>

\* absorb_sign: only what is settled is marked.
absorb_sign(pairs) ==
  /\ SIGNED_MARK' = SIGNED_MARK \cup {p \in pairs : task[p] = "settled"}
  /\ UNCHANGED <<SCOUT_DUTY, WARM_STATE, TICK_SEQ>>

Follow(t) == [p \in Pair |-> IF p \in others \X {current} THEN "cached" ELSE t[p]]

\* The leader is back within the limit.
LeaderBack ==
  /\ pc = "leader"
  /\ task[<<leader, current>>] \in Outcome
  /\ absorb_sign({<<leader, current>>})
  /\ task' = Follow([task EXCEPT ![<<leader, current>>] = "no"])
  /\ pc' = "others"
  /\ UNCHANGED <<todo, current, leader, others, late>>
  /\ UNCHANGED <<server, session, index, plan, gather, trouble>>

\* The limit passes: the leader goes on, the others no longer wait for him.
LeaderSlow ==
  /\ pc = "leader"
  /\ task[<<leader, current>>] \in Running
  /\ late' = late \cup {<<leader, current>>}
  /\ task' = Follow(task)
  /\ pc' = "others"
  /\ UNCHANGED <<todo, current, leader, others>>
  /\ UNCHANGED <<server, session, index, tables, plan, gather, trouble>>

\* join_all: everybody else is back.
OthersBack ==
  /\ pc = "others"
  /\ \A u \in others : task[<<u, current>>] \in Outcome
  /\ absorb_sign(others \X {current})
  /\ task' = [p \in Pair |-> IF p \in others \X {current} THEN "no" ELSE task[p]]
  /\ todo' = todo \ {current}
  /\ pc' = "dispatch"
  /\ current' = Nobody /\ leader' = Nobody /\ others' = {}
  /\ UNCHANGED late
  /\ UNCHANGED <<server, session, index, plan, gather, trouble>>

\* After the last roll call the slow leaders are waited for.
LateBack(p) ==
  /\ pc = "dispatch"
  /\ todo = {}
  /\ p \in late
  /\ task[p] \in Outcome
  /\ absorb_sign({p})
  /\ late' = late \ {p}
  /\ task' = [task EXCEPT ![p] = "no"]
  /\ UNCHANGED <<pc, todo, current, leader, others>>
  /\ UNCHANGED <<server, session, index, plan, gather, trouble>>

AllBack ==
  /\ pc = "dispatch"
  /\ todo = {}
  /\ late = {}
  /\ pc' = "report"
  /\ UNCHANGED <<server, session, index, tables, plan, gather, signing, trouble>>

\* send_reports, and the tick's own data are dropped.
send_reports ==
  /\ pc = "report"
  /\ pc' = "idle"
  /\ active' = {} /\ scouts' = <<>>
  /\ courses_of' = [u \in User |-> {}] /\ all_courses_of' = <<>>
  /\ polled' = [u \in User |-> "no"] /\ seen' = [u \in User |-> {}]
  /\ found' = [r \in Rollcall |-> Nobody]
  /\ trouble' = FALSE
  /\ UNCHANGED <<unwarmed, signing>>
  /\ UNCHANGED <<server, session, index, tables>>

-----------------------------------------------------------------------------
\* The client an attempt signs with: the one kept for this user and course
\* since the first attempt ever, whatever client the caller brought.
Kept(u, r) == IF request[u][course_of[r]] = "none" THEN client[u] ELSE request[u][course_of[r]]

KeepRequest(u, r) == request' = [request EXCEPT ![u][course_of[r]] = Kept(u, r)]

\* spec_sign_request_inner comes back with responses: none if the roll call is
\* not on the user's list, already signed, or signed now, which the second look
\* at the list confirms or does not.
Responses(u, r, outcome) ==
  /\ client[u] = "live"
  /\ \/ /\ ~Lists(u, r)
        /\ outcome = "settled"
        /\ UNCHANGED <<signed, request>>
     \/ /\ Lists(u, r)
        /\ <<u, r>> \in signed
        /\ outcome = "settled"
        /\ KeepRequest(u, r)
        /\ UNCHANGED signed
     \/ /\ Lists(u, r)
        /\ <<u, r>> \notin signed
        /\ Kept(u, r) = "live"
        /\ KeepRequest(u, r)
        /\ \/ signed' = signed \cup {<<u, r>>} /\ outcome \in {"settled", "unconfirmed"}
           \/ signed' = signed /\ outcome = "unconfirmed"

\* It comes back with an error: from reading the list, or later, when the
\* answer may have reached the server all the same.
Error(u, r) ==
  \/ UNCHANGED <<signed, request>>
  \/ /\ client[u] = "live"
     /\ Lists(u, r)
     /\ <<u, r>> \notin signed
     /\ KeepRequest(u, r)
     /\ \/ signed' = signed
        \/ Kept(u, r) = "live" /\ signed' = signed \cup {<<u, r>>}

\* sign_one.  With the cached client first, which every active user has; on an
\* error the session is looked at, and only a dead one is recovered for a
\* second attempt.
sign_one(u, r) ==
  LET p == <<u, r>>
      Becomes(s) == task' = [task EXCEPT ![p] = s]
      Clean(s) == trouble' = (trouble \/ s # "settled")
  IN /\ \/ /\ task[p] \in {"cached", "retry"}
           /\ \E s \in Outcome : Responses(u, r, s) /\ Becomes(s) /\ Clean(s)
           /\ UNCHANGED <<client, WARM_STATE>>
        \/ /\ task[p] \in {"cached", "retry"}
           /\ Error(u, r)
           /\ \/ Becomes("failed") /\ (task[p] = "cached" => client[u] = "live")
              \/ Becomes("recover") /\ task[p] = "cached"
           /\ trouble' = TRUE
           /\ UNCHANGED <<client, WARM_STATE>>
        \/ /\ task[p] = "recover"
           /\ Recovered(u)
           /\ Becomes("retry")
           /\ UNCHANGED <<signed, request, WARM_STATE, trouble>>
        \/ /\ task[p] = "recover"
           /\ NotRecovered(u)
           /\ Becomes("notlogin")
           /\ WARM_STATE' = [WARM_STATE EXCEPT ![u] = "bad"]
           /\ trouble' = TRUE
           /\ UNCHANGED <<signed, request>>
     /\ UNCHANGED <<rollcall, upsets, pc, todo, current, leader, others, late>>
     /\ UNCHANGED <<index, SIGNED_MARK, SCOUT_DUTY, TICK_SEQ, plan, gather>>

-----------------------------------------------------------------------------
\* The teacher opens a roll call, and closes it for good.
Opens(r) ==
  /\ rollcall[r] = "none"
  /\ rollcall' = [rollcall EXCEPT ![r] = "open"]
  /\ trouble' = (trouble \/ pc \notin {"idle", "warm"})
  /\ UNCHANGED <<signed, upsets, session, index, tables, pc, plan, gather, signing>>

Closes(r) ==
  /\ rollcall[r] = "open"
  /\ upsets < MaxUpsets
  /\ upsets' = upsets + 1
  /\ rollcall' = [rollcall EXCEPT ![r] = "closed"]
  /\ UNCHANGED <<signed, session, index, tables, pc, plan, gather, signing, trouble>>

\* The server ends a session, and with it every client that holds it.
SessionEnds(u) ==
  /\ upsets < MaxUpsets
  /\ client[u] = "live"
  /\ upsets' = upsets + 1
  /\ client' = [client EXCEPT ![u] = "dead"]
  /\ request' = [request EXCEPT ![u] = [c \in Course |-> IF @[c] = "live" THEN "dead" ELSE @[c]]]
  /\ UNCHANGED <<rollcall, signed, index, tables, pc, plan, gather, signing, trouble>>

\* A user whose session is dead logs in; his courses are fetched again.
LogsInAgain(u) ==
  /\ client[u] = "dead"
  /\ client' = [client EXCEPT ![u] = "live"]
  /\ healing' = healing \cup {u}
  /\ UNCHANGED <<request, by_qq, indexed>>
  /\ UNCHANGED <<server, tables, pc, plan, gather, signing, trouble>>

\* upsert_user of a spawned update of the index ends, well or not.
Upserted(u) ==
  /\ u \in healing
  /\ healing' = healing \ {u}
  /\ \/ by_qq' = [by_qq EXCEPT ![u] = takes[u]] /\ indexed' = indexed \cup {u}
     \/ UNCHANGED <<by_qq, indexed>>
  /\ UNCHANGED <<server, session, tables, pc, plan, gather, signing, trouble>>

-----------------------------------------------------------------------------
Tick == \/ \E u \in unwarmed : WarmUp(u)
        \/ NobodyWarm
        \/ \E insession \in [User -> SUBSET Course] : Plan(insession)
        \/ \E u \in Listed(scouts) : Poll(u)
        \/ AbsorbScouts
        \/ AbsorbBackups
        \/ \E r \in todo : PassOver(r) \/ \E u \in User : Lead(r, u)
        \/ LeaderBack
        \/ LeaderSlow
        \/ OthersBack
        \/ \E p \in late : LateBack(p)
        \/ AllBack
        \/ send_reports

Environment == \/ \E r \in Rollcall : Opens(r) \/ Closes(r)
               \/ \E u \in User : SessionEnds(u) \/ LogsInAgain(u) \/ Upserted(u)

Next == \/ \E users \in SUBSET User \ {{}} : TickBegin(users)
        \/ Tick
        \/ \E p \in Pair : sign_one(p[1], p[2])
        \/ Environment

Spec == Init /\ [][Next]_vars

-----------------------------------------------------------------------------
TypeOK ==
  /\ rollcall \in [Rollcall -> {"none", "open", "closed"}]
  /\ signed \subseteq Pair
  /\ client \in [User -> {"none", "live", "dead"}]
  /\ request \in [User -> [Course -> {"none", "live", "dead"}]]
  /\ upsets \in 0..MaxUpsets
  /\ by_qq \in [User -> SUBSET Course]
  /\ indexed \subseteq User
  /\ healing \subseteq User
  /\ SIGNED_MARK \subseteq Pair
  /\ SCOUT_DUTY \in [User -> 0..MaxTicks]
  /\ WARM_STATE \in [User -> {"none", "ok", "bad"}]
  /\ TICK_SEQ \in 0..MaxTicks
  /\ pc \in {"idle", "warm", "scouting", "backup", "dispatch", "leader", "others", "report"}
  /\ unwarmed \subseteq User
  /\ active \subseteq User
  /\ courses_of \in [User -> SUBSET Course]
  /\ \E known \in SUBSET User : all_courses_of \in [known -> SUBSET Course]
  /\ scouts \in Seq(User)
  /\ polled \in [User -> {"no", "ok", "failed"}]
  /\ seen \in [User -> SUBSET Rollcall]
  /\ found \in [Rollcall -> User \cup {Nobody}]
  /\ todo \subseteq Rollcall
  /\ current \in Rollcall \cup {Nobody}
  /\ leader \in User \cup {Nobody}
  /\ others \subseteq User
  /\ task \in [Pair -> {"no"} \cup Running \cup Outcome]
  /\ late \subseteq Pair
  /\ trouble \in BOOLEAN

(***************************************************************************)
(* A settled roll call costs its user nothing: whoever is marked is        *)
(* present, or the roll call is not on his list and will not be.           *)
(* (classify, absorb_sign: "only what the server confirms is booked")      *)
(***************************************************************************)
MarkIsJust ==
  \A p \in SIGNED_MARK :
    \/ p \in signed
    \/ course_of[p[2]] \notin takes[p[1]]
    \/ rollcall[p[2]] = "closed"

(***************************************************************************)
(* No request is made for what is settled, by the tick or by a slow leader *)
(* that it no longer waits for; and no two ticks overlap.                  *)
(***************************************************************************)
SettledIsLeftAlone ==
  \A p \in Pair : task[p] \in Running =>
    /\ p \notin SIGNED_MARK
    /\ pc \in {"dispatch", "leader", "others"}

(***************************************************************************)
(* Duty rotates: nobody is a scout for courses that a user who has rested  *)
(* longer could all have covered and who was left at home.  (plan_tick)    *)
(***************************************************************************)
DutyRotates ==
  [][(pc = "warm" /\ pc' = "scouting") =>
       \A u \in Listed(scouts'), v \in active \ Listed(scouts') :
         courses_of'[u] # {} /\ courses_of'[u] \subseteq courses_of'[v]
           => SCOUT_DUTY[v] >= SCOUT_DUTY[u]]_vars

(***************************************************************************)
(* Polling on behalf of others misses nobody it is meant for.  In a tick   *)
(* in which, once the scouts had set out, no backup and no sign-in failed, *)
(* nothing was put off and no roll call opened: whoever the index has      *)
(* under a course is present in its roll call, if that is still open and   *)
(* one user who watched the course had not failed, not necessarily the     *)
(* scout that was planned.  (pick_backups, the dispatch in time_sign_task) *)
(***************************************************************************)
NobodyIsMissed ==
  (pc = "report" /\ ~trouble) =>
    \A u \in active, r \in Rollcall :
      LET c == course_of[r] IN
      (/\ u \in DOMAIN all_courses_of
       /\ c \in takes[u] \cap all_courses_of[u]
       /\ \E v \in active \ Failed : c \in courses_of[v]
       /\ rollcall[r] = "open")
        => <<u, r>> \in signed

(***************************************************************************)
(* What watch.rs and time_sign.rs say of users the index does not know:    *)
(* they scout for themselves, so the roll calls they see are not missed.   *)
(***************************************************************************)
OwnScoutIsSigned ==
  (pc = "report" /\ ~trouble) =>
    \A u \in active, r \in Rollcall :
      (polled[u] = "ok" /\ Lists(u, r) /\ rollcall[r] = "open") => <<u, r>> \in signed

(***************************************************************************)
(* What the reminder of a dead session says (send_reports): whoever logs   *)
(* in again is signed again.  An attempt of a user with a live session is  *)
(* made with a live session.                                               *)
(***************************************************************************)
ReloginRestores ==
  \A p \in Pair :
    (task[p] \in {"cached", "retry"} /\ client[p[1]] = "live") => Kept(p[1], p[2]) = "live"
=============================================================================
