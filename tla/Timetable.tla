------------------------------ MODULE Timetable ------------------------------
(***************************************************************************)
(* Stored timetables and the table of who has class today:                 *)
(* /signtime and /delsigntime (src/src/logic/rollcall/timetable.rs), the   *)
(* table and its task (time.rs there, and src/src/api/scheduler/main.rs),  *)
(* and the page on which a timetable is edited (src/src/web/timetable).    *)
(*                                                                         *)
(* Computing the table reads the timetables and takes time; storing it is  *)
(* a step of its own, so a result may be stored after a later one.         *)
(***************************************************************************)
EXTENDS SchoolCalendar

CONSTANTS
    User,       \* users
    Course,     \* lessons of a week
    Weeks, Day, \* of each lesson: the weeks it is held in, the day of the week
    Tables,     \* the timetables a user may have: sets of lessons
    Cmd,        \* commands and saves in flight
    Link,       \* ids of editing links
    WEEK_BITS,  \* width of the mask of weeks (32)
    MaxDay,     \* bound of the date
    MaxEdits    \* bound of the commands and saves begun

VARIABLES
    data,       \* TIMETABLE_DATA: the timetable of a user
    group,      \* TIMETABLE_GROUP: users whose group is stored
    table,      \* TIME_SIGN_TASK: for every user the lessons that count today
    maint,      \* the maintenance loop: a result it is about to store
    cmd,        \* commands between two of their steps
    link,       \* editing links: whose, and whether the time is up
    edits,      \* commands and saves begun
    torn,       \* history: users one of whose commands broke off
    unowned     \* history: users whose timetable was saved without a group

tvars == <<data, group, table, maint, cmd, link, edits, torn, unowned>>
cvars == <<today, live, start, fetches, known>>
vars == <<today, live, start, fetches, known, data, group, table, maint, cmd, link, edits, torn, unowned>>

Idle == [at |-> "idle"]
NoTable == [u \in User |-> Absent]
Result == [User -> (SUBSET Course) \cup {Absent}]

TypeOK ==
    /\ today \in 0..MaxDay
    /\ data \in [User -> Tables \cup {Absent}] /\ group \subseteq User
    /\ table = Absent \/ table \in Result
    /\ maint = Absent \/ maint \in Result
    /\ \A k \in Cmd : cmd[k].at \in {"idle", "group", "refresh", "store", "remove", "link"}
    /\ \A l \in Link : link[l] # Absent => link[l].user \in User /\ link[l].state \in {"open", "over", "gone"}
    /\ edits \in 0..MaxEdits /\ torn \subseteq User /\ unowned \subseteq User

Init ==
    /\ CalendarInit
    /\ data = [u \in User |-> Absent] /\ group = {}
    /\ table = Absent /\ maint = Absent
    /\ cmd = [k \in Cmd |-> Idle] /\ link = [l \in Link |-> Absent]
    /\ edits = 0 /\ torn = {} /\ unowned = {}

-----------------------------------------------------------------------------
\* BitField32::get_bit in a release build: the shift wraps at the width.
GetBit(mask, i) == (i % WEEK_BITS) \in mask

\* course_happens_today: every lesson may be held on a day worked in exchange.
HappensToday(c, kind, week, day) ==
    \/ kind = "makeup"
    \/ /\ kind = "normal" /\ Day[c] = day
       /\ week > 0 /\ GetBit(Weeks[c], (week - 1) % 256)

\* get_today_courses: none on a holiday, which is not the same as no timetable.
TodayCourses(u) ==
    IF data[u] = Absent THEN Absent
    ELSE {c \in data[u] : HappensToday(c, DayKind(Current, today),
                                       WeekNumber(SemesterStart, today),
                                       WeekDay(SemesterStart, today))}
RunTask == [u \in User |-> TodayCourses(u)]

\* Faulty variant of MaintRun; no specification uses it: the loop computes a
\* table only when there is none.
MaintRun_IfNone ==
    /\ maint = Absent /\ table = Absent
    /\ maint' = RunTask
    /\ UNCHANGED <<cvars, data, group, table, cmd, link, edits, torn, unowned>>

\* The maintenance loop computes the table, stores it and sleeps, over and over.
MaintRun ==
    /\ maint = Absent
    /\ maint' = RunTask
    /\ UNCHANGED <<cvars, data, group, table, cmd, link, edits, torn, unowned>>
MaintStore ==
    /\ maint # Absent
    /\ table' = maint /\ maint' = Absent
    /\ UNCHANGED <<cvars, data, group, cmd, link, edits, torn, unowned>>

\* get_latest: only a caller that finds no result computes one.
GetLatest ==
    /\ table = Absent
    /\ table' = RunTask
    /\ UNCHANGED <<cvars, data, group, maint, cmd, link, edits, torn, unowned>>

\* The course index derives the start of the semester (course_index.rs).
FindStart(d) ==
    /\ edits < MaxEdits /\ edits' = edits + 1
    /\ SetSemesterStart(d)
    /\ UNCHANGED <<data, group, table, maint, cmd, link, torn, unowned>>

-----------------------------------------------------------------------------
Begin(k, u, at, op) ==
    /\ cmd[k] = Idle /\ edits < MaxEdits
    /\ edits' = edits + 1
    /\ cmd' = [cmd EXCEPT ![k] = [at |-> at, op |-> op, user |-> u]]
At(k, at) == cmd[k].at = at

\* /signtime, once the timetable was fetched: it is stored ...
SignTime(k, u, t) ==
    /\ Begin(k, u, "group", "sign")
    /\ data' = [data EXCEPT ![u] = t]
    /\ UNCHANGED <<cvars, group, table, maint, link, torn, unowned>>

\* ... then the group, or the write fails and the command ends.
StoreGroup(k) ==
    /\ At(k, "group")
    /\ \/ /\ group' = group \cup {cmd[k].user} /\ unowned' = unowned \ {cmd[k].user}
          /\ cmd' = [cmd EXCEPT ![k].at = "refresh"] /\ UNCHANGED torn
       \/ /\ cmd' = [cmd EXCEPT ![k] = Idle] /\ torn' = torn \cup {cmd[k].user}
          /\ UNCHANGED <<group, unowned>>
    /\ UNCHANGED <<cvars, data, table, maint, link, edits>>

\* force_update: compute, then store.
Refresh(k) ==
    /\ At(k, "refresh")
    /\ cmd' = [cmd EXCEPT ![k] = [at |-> "store", op |-> @.op, user |-> @.user, result |-> RunTask]]
    /\ UNCHANGED <<cvars, data, group, table, maint, link, edits, torn, unowned>>
StoreTable(k) ==
    /\ At(k, "store")
    /\ table' = cmd[k].result
    /\ cmd' = [cmd EXCEPT ![k] =
                 CASE cmd[k].op = "sign" -> [at |-> "link", user |-> cmd[k].user]
                   [] cmd[k].op = "del" -> [at |-> "remove", user |-> cmd[k].user]
                   [] OTHER -> Idle]
    /\ UNCHANGED <<cvars, data, group, maint, link, edits, torn, unowned>>

\* create_edit_task_url: old links are not looked at.
MakeLink(k, l) ==
    /\ At(k, "link") /\ link[l] = Absent
    /\ link' = [link EXCEPT ![l] = [user |-> cmd[k].user, state |-> "open"]]
    /\ cmd' = [cmd EXCEPT ![k] = Idle]
    /\ UNCHANGED <<cvars, data, group, table, maint, edits, torn, unowned>>

\* /delsigntime: the group first, then a refresh that still sees the timetable.
DelSignTime(k, u) ==
    /\ Begin(k, u, "refresh", "del")
    /\ group' = group \ {u}
    /\ UNCHANGED <<cvars, data, table, maint, link, torn, unowned>>
RemoveData(k) ==
    /\ At(k, "remove")
    /\ \/ data' = [data EXCEPT ![cmd[k].user] = Absent] /\ UNCHANGED torn
       \/ torn' = torn \cup {cmd[k].user} /\ UNCHANGED data
    /\ cmd' = [cmd EXCEPT ![k] = Idle]
    /\ UNCHANGED <<cvars, group, table, maint, link, edits, unowned>>

-----------------------------------------------------------------------------
\* Twenty minutes after it was made a link is over; nobody sweeps it.
LinkOver(l) ==
    /\ link[l] # Absent /\ link[l].state = "open"
    /\ link' = [link EXCEPT ![l].state = "over"]
    /\ UNCHANGED <<cvars, data, group, table, maint, cmd, edits, torn, unowned>>

\* get_valid_task: looking at a link that is over removes it.
OpenLink(l) ==
    /\ link[l] # Absent /\ link[l].state = "over"
    /\ link' = [link EXCEPT ![l].state = "gone"]
    /\ UNCHANGED <<cvars, data, group, table, maint, cmd, edits, torn, unowned>>

\* task_save_handler: the link is taken before the lessons are parsed, so a
\* mistake in one of them spends it; what is saved is the timetable alone.
SaveLink(k, l, t) ==
    /\ link[l] # Absent /\ link[l].state # "gone"
    /\ link' = [link EXCEPT ![l].state = "gone"]
    /\ \/ /\ link[l].state = "open"
          /\ Begin(k, link[l].user, "refresh", "save")
          /\ data' = [data EXCEPT ![link[l].user] = t]
          /\ unowned' = IF link[l].user \in group THEN unowned ELSE unowned \cup {link[l].user}
       \/ UNCHANGED <<data, cmd, edits, unowned>>
    /\ UNCHANGED <<cvars, group, table, maint, torn>>

Next ==
    \/ today < MaxDay /\ NextDay /\ UNCHANGED tvars
    \/ \E b \in Published : FetchCalendar(b) /\ UNCHANGED tvars
    \/ \E d \in 0..MaxDay : FindStart(d)
    \/ MaintRun \/ MaintStore \/ GetLatest
    \/ \E k \in Cmd :
         \/ \E u \in User : DelSignTime(k, u) \/ \E t \in Tables : SignTime(k, u, t)
         \/ StoreGroup(k) \/ Refresh(k) \/ StoreTable(k) \/ RemoveData(k)
         \/ \E l \in Link : MakeLink(k, l) \/ \E t \in Tables : SaveLink(k, l, t)
    \/ \E l \in Link : LinkOver(l) \/ OpenLink(l)

\* The loop never ends, and a command that was begun goes on.
Proceed(k) == StoreGroup(k) \/ Refresh(k) \/ StoreTable(k) \/ RemoveData(k)
Fairness ==
    /\ WF_maint(MaintRun \/ MaintStore)
    /\ \A k \in Cmd : WF_cmd(Proceed(k))

Spec == Init /\ [][Next]_vars /\ Fairness

-----------------------------------------------------------------------------
\* A timetable without a group is one of a command still under way, of one
\* that broke off, or one that was saved from an editing link after the user
\* had deleted his timetable: nothing else brings it back (timetable.rs:76-81,
\* web/timetable/expose.rs, task_save_handler).
TimetableHasGroup ==
    \A u \in User : data[u] # Absent /\ u \notin group =>
        \/ \E k \in Cmd : cmd[k] # Idle /\ cmd[k].user = u
        \/ u \in torn \cup unowned

\* A free day that was known is still free, unless the file in use now ends
\* later and has dropped it: the guard of fetch_and_install looks at the end
\* only (calendar.rs, the comment at `new_span.end < old_span.end`).
EndIsKept == known # {} => CoverageEnd(Current) >= Max(known)

\* Once nobody edits, the table is that of the timetables, the calendar and
\* the day: a result that was stored late, and the timetable /delsigntime
\* deleted after its refresh, are put right by the loop.
TableCatchesUp == <>[](table = RunTask)
=============================================================================
