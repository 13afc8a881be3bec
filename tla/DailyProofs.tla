----------------------------- MODULE DailyProofs -----------------------------
(***************************************************************************)
(* Proofs about what happens once and what happens daily: the timetables   *)
(* and the calendar (Timetable), the minutes watched (WatchWindow), the    *)
(* notices to users whose login is lost (Reminders), the announcement of a *)
(* version (VersionBroadcast) and the reading of the file of the calendar  *)
(* (CalendarText), for any users, commands, lessons, links, groups,        *)
(* calendars, files, values and bounds.  An invariant for each part, and   *)
(* the run composed of them at the end.                                    *)
(***************************************************************************)
EXTENDS MCDaily, NaturalsInduction, WellFoundedInduction, TLAPS

-----------------------------------------------------------------------------
(* A set of numbers with a bound has a greatest one, so the end of a       *)
(* calendar that is not empty is the last of its dates.                    *)
LEMMA GreatestOfSet ==
  ASSUME NEW S \in SUBSET Int, NEW top \in S, \A y \in S : y <= top
  PROVE  Times!Max(S) \in S /\ \A y \in S : y <= Times!Max(S)
<1>1. \A y \in S : top >= y
  OBVIOUS
<1>2. Times!Max(S) \in S /\ \A y \in S : Times!Max(S) >= y
  BY Zenon, <1>1 DEF Times!Max
<1> QED BY <1>2

\* The end of coverage of a calendar with a holiday is the last of its dates.
LEMMA EndIsLast ==
  ASSUME NEW cal \in Calendars, cal # {}
  PROVE  /\ Times!CoverageEnd(cal) \in Int
         /\ \A d \in Times!Dates(cal) : d <= Times!CoverageEnd(cal)
<1>1. /\ Times!Dates(cal) \subseteq Int
      /\ \E top \in Times!Dates(cal) : \A d \in Times!Dates(cal) : d <= top
  BY DailyAssumption
<1> QED BY <1>1, GreatestOfSet DEF Times!CoverageEnd

\* A free day is a number, and not after the end of its calendar.
LEMMA FreeDayBeforeEnd ==
  ASSUME NEW cal \in Calendars, NEW d \in Times!FreeDays(cal)
  PROVE  d \in Int /\ cal # {} /\ d <= Times!CoverageEnd(cal)
<1>1. PICK h \in cal : d \in Times!Days(h.span)
  BY DEF Times!FreeDays
<1>2. h.span[1] \in Times!Dates(cal) /\ h.span[2] \in Times!Dates(cal)
  BY DEF Times!Dates
<1>3. cal # {} /\ Times!Dates(cal) \subseteq Int
  BY DailyAssumption
<1>4. d \in Int /\ d <= h.span[2]
  BY <1>1, <1>2, <1>3 DEF Times!Days
<1>5. Times!CoverageEnd(cal) \in Int /\ h.span[2] <= Times!CoverageEnd(cal) /\ h.span[2] \in Int
  BY <1>2, <1>3, EndIsLast
<1> QED BY <1>3, <1>4, <1>5

\* A set of numbers with a bound from above: its greatest is not above the bound.
LEMMA HasLeast ==
  ASSUME NEW T \in SUBSET Nat, T # {}
  PROVE  \E x \in T : \A y \in T : x <= y
<1>1. PICK x \in T : \A y \in T : <<y, x>> \notin OpToRel(<, Nat)
  BY Zenon, NatLessThanWellFounded, WFMin
<1>2. \A y \in T : ~(y < x)
  BY Zenon, <1>1 DEF OpToRel
<1> QED BY <1>2

\* The greatest of a set of numbers is not above a bound of it.
LEMMA GreatestBelow ==
  ASSUME NEW S \in SUBSET Int, S # {}, NEW e \in Int, \A d \in S : d <= e
  PROVE  Times!Max(S) <= e
<1> DEFINE T == {n \in Nat : e - n \in S}
<1>1. PICK s \in S : TRUE
  OBVIOUS
<1>2. e - s \in Nat /\ e - (e - s) = s
  BY <1>1
<1>3. e - s \in T
  BY <1>1, <1>2
<1>4. T \in SUBSET Nat /\ T # {}
  BY <1>3
<1> HIDE DEF T
<1>5. PICK n \in T : \A y \in T : n <= y
  BY Zenon, <1>4, HasLeast
<1>6. n \in Nat /\ e - n \in S
  BY <1>5 DEF T
<1>7. ASSUME NEW d \in S PROVE d <= e - n
  <2>1. e - d \in Nat /\ e - (e - d) = d /\ d \in Int
    OBVIOUS
  <2>2. e - d \in T
    BY <2>1 DEF T
  <2>3. n <= e - d
    BY <1>5, <2>2
  <2> QED BY <1>6, <2>1, <2>3
<1>8. Times!Max(S) \in S
  BY <1>6, <1>7, GreatestOfSet
<1> QED BY <1>8

-----------------------------------------------------------------------------
(* The calendar: what is in use is one of those there are, and does not    *)
(* end before a free day that was known.                                   *)
TimesCovered ==
  \A d \in known : d \in Int /\ Times!Current # {} /\ d <= Times!CoverageEnd(Times!Current)

\* The table compiled in covers the free days it knows.
LEMMA CoveredFirst ==
  ASSUME Times!CalendarInit
  PROVE  TimesCovered
<1>1. Times!Current = Fallback /\ known = Times!FreeDays(Fallback) /\ Fallback \in Calendars
  BY DEF Times!CalendarInit, Times!Current, Calendars
<1> QED BY <1>1, FreeDayBeforeEnd DEF TimesCovered

\* The calendar in use is one of those there are.
LEMMA CurrentKnown ==
  ASSUME live \in Calendars \cup {Absent}
  PROVE  Times!Current \in Calendars
BY DEF Times!Current, Calendars

\* fetch_and_install: a calendar that takes over covers every free day that was known.
LEMMA FetchCovers ==
  ASSUME live \in Calendars \cup {Absent}, TimesCovered,
         NEW b \in Published, Times!FetchCalendar(b)
  PROVE  live' \in Calendars \cup {Absent} /\ TimesCovered'
<1> DEFINE cal == Times!Parse(b)
<1>1. CASE ~Times!Accepted(cal)
  <2>1. live' = live /\ known' = known
    BY <1>1 DEF Times!FetchCalendar
  <2> QED BY <2>1 DEF TimesCovered, Times!Current
<1>2. CASE Times!Accepted(cal)
  <2>1. live' = cal /\ known' = known \cup Times!FreeDays(cal)
    BY <1>2 DEF Times!FetchCalendar
  <2>2. cal # Absent /\ cal # {}
        /\ (Times!Current # {} => Times!CoverageEnd(cal) >= Times!CoverageEnd(Times!Current))
    BY <1>2 DEF Times!Accepted
  <2>3. cal \in Calendars
    BY <2>2 DEF Times!Parse, Calendars
  <2>4. Times!Current' = cal
    BY <2>1, <2>2 DEF Times!Current
  <2> HIDE DEF cal
  <2>5. Times!CoverageEnd(cal) \in Int
    BY <2>2, <2>3, EndIsLast
  <2>6. ASSUME NEW d \in known PROVE d \in Int /\ d <= Times!CoverageEnd(cal)
    <3>1. d \in Int /\ Times!Current # {} /\ d <= Times!CoverageEnd(Times!Current)
      BY DEF TimesCovered
    <3>2. Times!CoverageEnd(Times!Current) \in Int
      BY <3>1, CurrentKnown, EndIsLast
    <3> QED BY <2>2, <2>5, <3>1, <3>2
  <2>7. ASSUME NEW d \in Times!FreeDays(cal) PROVE d \in Int /\ d <= Times!CoverageEnd(cal)
    BY <2>3, FreeDayBeforeEnd
  <2>8. \A d \in known' : d \in Int /\ Times!Current' # {} /\ d <= Times!CoverageEnd(Times!Current')
    BY <2>1, <2>2, <2>4, <2>6, <2>7
  <2> QED BY <2>1, <2>3, <2>8 DEF TimesCovered, Times!CoverageEnd, Times!Dates
<1> QED BY <1>1, <1>2

\* What is covered is what the end of the calendar is kept for.
LEMMA CoveredIsKept ==
  ASSUME live \in Calendars \cup {Absent}, TimesCovered
  PROVE  Times!EndIsKept
<1> SUFFICES ASSUME known # {} PROVE Times!CoverageEnd(Times!Current) >= Times!Max(known)
  BY DEF Times!EndIsKept
<1>1. known \in SUBSET Int /\ Times!Current # {}
      /\ \A d \in known : d <= Times!CoverageEnd(Times!Current)
  BY DEF TimesCovered
<1>2. Times!CoverageEnd(Times!Current) \in Int
  BY <1>1, CurrentKnown, EndIsLast
<1>3. Times!Max(known) <= Times!CoverageEnd(Times!Current)
  BY <1>1, <1>2, GreatestBelow
<1> QED BY <1>2, <1>3

-----------------------------------------------------------------------------
(* The commands: what one between two of its steps carries, and which of   *)
(* them will still see to the timetable of their user: /signtime until the *)
(* group is stored, and /delsigntime until the timetable is removed.       *)
TimesOp == {"sign", "del", "save"}
AtGroup(u) == [at |-> "group", op |-> "sign", user |-> u]
AtRefresh(u, op) == [at |-> "refresh", op |-> op, user |-> u]
AtStore(u, op, r) == [at |-> "store", op |-> op, user |-> u, result |-> r]
AtLink(u) == [at |-> "link", user |-> u]
AtRemove(u) == [at |-> "remove", user |-> u]
TimesCommand ==
  {Times!Idle} \cup {AtGroup(u) : u \in User} \cup {AtRefresh(u, op) : u \in User, op \in TimesOp}
    \cup {AtStore(u, op, r) : u \in User, op \in TimesOp, r \in Times!Result}
    \cup {AtLink(u) : u \in User} \cup {AtRemove(u) : u \in User}
TimesLink == {Absent} \cup [user : User, state : {"open", "over", "gone"}]

SeesTo(c, u) ==
  /\ c.at # "idle" /\ c.user = u
  /\ \/ c.at \in {"group", "remove"}
     \/ c.at \in {"refresh", "store"} /\ c.op = "del"

\* The fields of a command, stage by stage.
LEMMA StageFields ==
  /\ Times!Idle.at = "idle"
  /\ \A u : AtGroup(u).at = "group" /\ AtGroup(u).user = u
  /\ \A u, op : AtRefresh(u, op).at = "refresh" /\ AtRefresh(u, op).user = u /\ AtRefresh(u, op).op = op
  /\ \A u, op, r : /\ AtStore(u, op, r).at = "store" /\ AtStore(u, op, r).user = u
                   /\ AtStore(u, op, r).op = op /\ AtStore(u, op, r).result = r
  /\ \A u : AtLink(u).at = "link" /\ AtLink(u).user = u
  /\ \A u : AtRemove(u).at = "remove" /\ AtRemove(u).user = u
BY DEF Times!Idle, AtGroup, AtRefresh, AtStore, AtLink, AtRemove

\* A command is idle or at one of its stages.
LEMMA CommandForms ==
  ASSUME NEW c \in TimesCommand
  PROVE  \/ c = Times!Idle
         \/ \E u \in User : c = AtGroup(u) \/ c = AtLink(u) \/ c = AtRemove(u)
         \/ \E u \in User, op \in TimesOp : c = AtRefresh(u, op)
         \/ \E u \in User, op \in TimesOp, r \in Times!Result : c = AtStore(u, op, r)
BY DEF TimesCommand

\* The stage of a command tells what it carries.
LEMMA CommandStages ==
  ASSUME NEW c \in TimesCommand
  PROVE  /\ c.at \in {"idle", "group", "refresh", "store", "remove", "link"}
         /\ c.at = "group" => \E u \in User : c = AtGroup(u)
         /\ c.at = "refresh" => \E u \in User, op \in TimesOp : c = AtRefresh(u, op)
         /\ c.at = "store" => \E u \in User, op \in TimesOp, r \in Times!Result : c = AtStore(u, op, r)
         /\ c.at = "link" => \E u \in User : c = AtLink(u)
         /\ c.at = "remove" => \E u \in User : c = AtRemove(u)
<1>1. CASE c = Times!Idle
  BY <1>1, StageFields
<1>2. ASSUME NEW u \in User, c = AtGroup(u) \/ c = AtLink(u) \/ c = AtRemove(u)
      PROVE  /\ c.at \in {"group", "link", "remove"}
             /\ c.at = "group" => c = AtGroup(u)
             /\ c.at = "link" => c = AtLink(u)
             /\ c.at = "remove" => c = AtRemove(u)
  BY <1>2, StageFields
<1>3. ASSUME NEW u \in User, NEW op \in TimesOp, c = AtRefresh(u, op) PROVE c.at = "refresh"
  BY <1>3, StageFields
<1>4. ASSUME NEW u \in User, NEW op \in TimesOp, NEW r \in Times!Result, c = AtStore(u, op, r)
      PROVE  c.at = "store"
  BY <1>4, StageFields
<1>5. CASE \E u \in User : c = AtGroup(u) \/ c = AtLink(u) \/ c = AtRemove(u)
  BY <1>2, <1>5
<1>6. CASE \E u \in User, op \in TimesOp : c = AtRefresh(u, op)
  BY <1>3, <1>6
<1>7. CASE \E u \in User, op \in TimesOp, r \in Times!Result : c = AtStore(u, op, r)
  BY <1>4, <1>7
<1> QED BY <1>1, <1>5, <1>6, <1>7, CommandForms

\* Each stage makes a command.
LEMMA CommandMade ==
  /\ Times!Idle \in TimesCommand
  /\ \A u \in User : AtGroup(u) \in TimesCommand /\ AtLink(u) \in TimesCommand /\ AtRemove(u) \in TimesCommand
  /\ \A u \in User, op \in TimesOp : AtRefresh(u, op) \in TimesCommand
  /\ \A u \in User, op \in TimesOp, r \in Times!Result : AtStore(u, op, r) \in TimesCommand
BY DEF TimesCommand

\* Who sees to a timetable, stage by stage.
LEMMA SeesToStages ==
  /\ \A v : ~SeesTo(Times!Idle, v)
  /\ \A u, v : SeesTo(AtGroup(u), v) <=> u = v
  /\ \A u, v : SeesTo(AtRemove(u), v) <=> u = v
  /\ \A u, v : ~SeesTo(AtLink(u), v)
  /\ \A u, op, v : SeesTo(AtRefresh(u, op), v) <=> op = "del" /\ u = v
  /\ \A u, op, r, v : SeesTo(AtStore(u, op, r), v) <=> op = "del" /\ u = v
BY StageFields DEF SeesTo

-----------------------------------------------------------------------------
(* The invariant: a timetable without a group is one that a command sees   *)
(* to, one whose command broke off, or one saved from an old link; and no  *)
(* free day that was known is past the end of the calendar in use.         *)
TimesTypes ==
  /\ today \in 0..MaxDay /\ live \in Calendars \cup {Absent}
  /\ data \in [User -> Tables \cup {Absent}] /\ group \subseteq User
  /\ table \in Times!Result \cup {Absent} /\ maint \in Times!Result \cup {Absent}
  /\ cmd \in [Cmd -> TimesCommand] /\ link \in [Link -> TimesLink]
  /\ edits \in 0..MaxEdits /\ torn \subseteq User /\ unowned \subseteq User
TimesOwned ==
  \A u \in User : data[u] # Absent /\ u \notin group =>
      u \in torn \cup unowned \/ \E k \in Cmd : SeesTo(cmd[k], u)
TimesInv == TimesTypes /\ TimesOwned /\ TimesCovered

\* With the invariant the timetables are kept.
LEMMA TimesPromise ==
  ASSUME TimesInv
  PROVE  Times!TypeOK /\ Times!TimetableHasGroup /\ Times!EndIsKept
<1>1. \A k \in Cmd : cmd[k].at \in {"idle", "group", "refresh", "store", "remove", "link"}
  BY CommandStages DEF TimesInv, TimesTypes
<1>2. \A l \in Link : link[l] # Absent =>
          link[l].user \in User /\ link[l].state \in {"open", "over", "gone"}
  BY DEF TimesInv, TimesTypes, TimesLink
<1>3. Times!TypeOK
  BY <1>1, <1>2 DEF TimesInv, TimesTypes, Times!TypeOK
<1>4. \A k \in Cmd, u \in User : SeesTo(cmd[k], u) => cmd[k] # Times!Idle /\ cmd[k].user = u
  BY StageFields DEF SeesTo
<1>5. Times!TimetableHasGroup
  BY <1>4 DEF TimesInv, TimesOwned, Times!TimetableHasGroup
<1>6. Times!EndIsKept
  BY CoveredIsKept DEF TimesInv, TimesTypes
<1> QED BY <1>3, <1>5, <1>6

\* At the start nobody has a timetable, and the table compiled in is in use.
LEMMA TimesBegin ==
  ASSUME Times!Init
  PROVE  TimesInv
<1>1. TimesTypes
  BY CommandMade, DailyAssumption DEF Times!Init, Times!CalendarInit, TimesTypes, TimesLink
<1>2. TimesOwned
  BY DEF Times!Init, TimesOwned
<1>3. TimesCovered
  BY CoveredFirst DEF Times!Init
<1> QED BY <1>1, <1>2, <1>3 DEF TimesInv

\* The table computed is of lessons of the timetables.
LEMMA RunTaskResult ==
  ASSUME TimesTypes
  PROVE  Times!RunTask \in Times!Result
<1>1. ASSUME NEW u \in User PROVE Times!TodayCourses(u) \in (SUBSET Course) \cup {Absent}
  <2>1. CASE data[u] = Absent
    BY <2>1 DEF Times!TodayCourses
  <2>2. CASE data[u] # Absent
    <3>1. data[u] \in SUBSET Course
      BY <2>2, DailyAssumption DEF TimesTypes
    <3>2. Times!TodayCourses(u) \subseteq data[u]
      BY <2>2 DEF Times!TodayCourses
    <3> QED BY <3>1, <3>2
  <2> QED BY <2>1, <2>2
<1> QED BY <1>1 DEF Times!RunTask, Times!Result

\* A step of one command keeps its stage a stage, and those who see to a
\* timetable see to it still, if this one does or the timetable needs nobody.
SeenTo(k, c) ==
  \A v \in User : data'[v] # Absent /\ v \notin group' =>
      \/ v \in torn' \cup unowned'
      \/ SeesTo(c, v)
      \/ /\ data[v] # Absent /\ v \notin group /\ ~SeesTo(cmd[k], v)
         /\ v \in torn \cup unowned => v \in torn' \cup unowned'
LEMMA OwnedAfter ==
  ASSUME TimesTypes, TimesOwned, NEW k \in Cmd, NEW c \in TimesCommand,
         cmd' = [cmd EXCEPT ![k] = c], SeenTo(k, c)
  PROVE  cmd' \in [Cmd -> TimesCommand] /\ TimesOwned'
<1>1. cmd' \in [Cmd -> TimesCommand] /\ cmd'[k] = c /\ \A j \in Cmd \ {k} : cmd'[j] = cmd[j]
  BY DEF TimesTypes
<1>2. ASSUME NEW v \in User, data'[v] # Absent, v \notin group', v \notin torn' \cup unowned'
      PROVE  \E j \in Cmd : SeesTo(cmd'[j], v)
  <2>1. CASE SeesTo(c, v)
    BY <1>1, <2>1
  <2>2. CASE ~SeesTo(c, v)
    <3>1. data[v] # Absent /\ v \notin group /\ ~SeesTo(cmd[k], v) /\ v \notin torn \cup unowned
      BY <1>2, <2>2 DEF SeenTo
    <3>2. PICK j \in Cmd : SeesTo(cmd[j], v)
      BY <3>1 DEF TimesOwned
    <3>3. j # k
      BY <3>1, <3>2
    <3> QED BY <1>1, <3>2, <3>3
  <2> QED BY <2>1, <2>2
<1>3. TimesOwned'
  BY <1>2 DEF TimesOwned, SeesTo
<1> QED BY <1>1, <1>3

\* Steps that leave the commands and the timetables alone.
LEMMA OwnedIfSame ==
  ASSUME TimesOwned, UNCHANGED <<data, group, cmd, torn, unowned>>
  PROVE  TimesOwned'
BY DEF TimesOwned, SeesTo

\* Steps that leave the calendar alone leave it covering.
LEMMA CoveredIfSame ==
  ASSUME TimesCovered, UNCHANGED <<live, known>>
  PROVE  TimesCovered'
BY DEF TimesCovered, Times!Current, Times!CoverageEnd, Times!Dates

-----------------------------------------------------------------------------
(* The steps of the calendar and of the table.                             *)
LEMMA CalendarStep ==
  ASSUME TimesInv,
         \/ today < MaxDay /\ Times!NextDay /\ UNCHANGED Times!tvars
         \/ \E b \in Published : Times!FetchCalendar(b) /\ UNCHANGED Times!tvars
         \/ \E d \in 0..MaxDay : Times!FindStart(d)
  PROVE  TimesInv'
<1> USE DEF Times!tvars
<1>0. MaxDay \in Nat /\ MaxEdits \in Nat
  BY DailyAssumption
<1>1. CASE today < MaxDay /\ Times!NextDay /\ UNCHANGED Times!tvars
  <2>1. today' \in 0..MaxDay /\ UNCHANGED <<live, known>>
    BY <1>0, <1>1 DEF Times!NextDay, TimesInv, TimesTypes
  <2>2. TimesTypes'
    BY <1>1, <2>1 DEF TimesInv, TimesTypes
  <2> QED BY <1>1, <2>1, <2>2, OwnedIfSame, CoveredIfSame DEF TimesInv
<1>2. ASSUME NEW b \in Published, Times!FetchCalendar(b), UNCHANGED Times!tvars PROVE TimesInv'
  <2>1. live' \in Calendars \cup {Absent} /\ TimesCovered'
    BY <1>2, FetchCovers DEF TimesInv, TimesTypes
  <2>2. today' = today
    BY <1>2 DEF Times!FetchCalendar
  <2>3. TimesTypes'
    BY <1>2, <2>1, <2>2 DEF TimesInv, TimesTypes
  <2> QED BY <1>2, <2>1, <2>3, OwnedIfSame DEF TimesInv
<1>3. ASSUME NEW d \in 0..MaxDay, Times!FindStart(d) PROVE TimesInv'
  <2>1. UNCHANGED <<today, live, known, data, group, table, maint, cmd, link, torn, unowned>>
    BY <1>3 DEF Times!FindStart, Times!SetSemesterStart
  <2>2. edits' \in 0..MaxEdits
    BY <1>0, <1>3 DEF Times!FindStart, TimesInv, TimesTypes
  <2>3. TimesTypes'
    BY <2>1, <2>2 DEF TimesInv, TimesTypes
  <2> QED BY <2>1, <2>3, OwnedIfSame, CoveredIfSame DEF TimesInv
<1> QED BY <1>1, <1>2, <1>3

\* The maintenance loop and get_latest change the table and what is about to be stored.
LEMMA TableStep ==
  ASSUME TimesInv, Times!MaintRun \/ Times!MaintStore \/ Times!GetLatest
  PROVE  TimesInv'
<1> USE DEF Times!MaintRun, Times!MaintStore, Times!GetLatest
<1>1. UNCHANGED <<Times!cvars, data, group, cmd, link, edits, torn, unowned>>
  OBVIOUS
<1>2. Times!RunTask \in Times!Result
  BY RunTaskResult DEF TimesInv
<1>3. table' \in Times!Result \cup {Absent} /\ maint' \in Times!Result \cup {Absent}
  BY <1>2 DEF TimesInv, TimesTypes
<1>4. TimesTypes'
  BY <1>1, <1>3 DEF TimesInv, TimesTypes, Times!cvars
<1> QED BY <1>1, <1>4, OwnedIfSame, CoveredIfSame DEF TimesInv, Times!cvars

(* The steps of the links.                                                 *)
LEMMA LinkStep ==
  ASSUME TimesInv, NEW l \in Link, Times!LinkOver(l) \/ Times!OpenLink(l)
  PROVE  TimesInv'
<1>1. UNCHANGED <<Times!cvars, data, group, table, maint, cmd, edits, torn, unowned>>
  BY DEF Times!LinkOver, Times!OpenLink
<1>2. link[l] # Absent /\ \E s \in {"over", "gone"} : link' = [link EXCEPT ![l].state = s]
  BY DEF Times!LinkOver, Times!OpenLink
<1>3. PICK u \in User, s \in {"open", "over", "gone"} : link[l] = [user |-> u, state |-> s]
  BY <1>2 DEF TimesInv, TimesTypes, TimesLink
<1>4. PICK e \in {"over", "gone"} : link' = [link EXCEPT ![l].state = e]
  BY <1>2
<1>5. link' = [link EXCEPT ![l] = [user |-> u, state |-> e]]
  <2>1. [link EXCEPT ![l].state = e] = [link EXCEPT ![l] = [link[l] EXCEPT !.state = e]]
    OBVIOUS
  <2>2. [[user |-> u, state |-> s] EXCEPT !.state = e] = [user |-> u, state |-> e]
    OBVIOUS
  <2> QED BY Zenon, <1>3, <1>4, <2>1, <2>2
<1>6. link' \in [Link -> TimesLink]
  BY <1>5 DEF TimesInv, TimesTypes, TimesLink
<1>7. TimesTypes'
  BY <1>1, <1>6 DEF TimesInv, TimesTypes, Times!cvars
<1> QED BY <1>1, <1>7, OwnedIfSame, CoveredIfSame DEF TimesInv, Times!cvars

-----------------------------------------------------------------------------
(* The steps of the commands.                                              *)
LEMMA BeginStep ==
  ASSUME TimesTypes, NEW k \in Cmd, NEW u, NEW stage, NEW op, Times!Begin(k, u, stage, op)
  PROVE  /\ cmd[k] = Times!Idle /\ edits' \in 0..MaxEdits
         /\ cmd' = [cmd EXCEPT ![k] = [at |-> stage, op |-> op, user |-> u]]
<1>1. MaxEdits \in Nat
  BY DailyAssumption
<1> QED BY <1>1 DEF Times!Begin, TimesTypes

\* /signtime stores a timetable, and sees to it from then on.
LEMMA SignTimeStep ==
  ASSUME TimesInv, NEW k \in Cmd, NEW u \in User, NEW t \in Tables, Times!SignTime(k, u, t)
  PROVE  TimesInv'
<1>1. UNCHANGED <<Times!cvars, group, table, maint, link, torn, unowned>>
      /\ data' = [data EXCEPT ![u] = t]
  BY DEF Times!SignTime
<1>2. cmd[k] = Times!Idle /\ edits' \in 0..MaxEdits /\ cmd' = [cmd EXCEPT ![k] = AtGroup(u)]
  BY BeginStep DEF Times!SignTime, AtGroup, TimesInv
<1>3. cmd' \in [Cmd -> TimesCommand] /\ TimesOwned'
  <2>1. AtGroup(u) \in TimesCommand
    BY CommandMade
  <2>2. \A v \in User : v # u => data'[v] = data[v]
    BY <1>1 DEF TimesInv, TimesTypes
  <2>3. SeesTo(AtGroup(u), u) /\ \A v : ~SeesTo(cmd[k], v)
    BY <1>2, SeesToStages
  <2>4. SeenTo(k, AtGroup(u))
    BY <1>1, <2>2, <2>3 DEF SeenTo
  <2> QED BY <1>2, <2>1, <2>4, OwnedAfter DEF TimesInv
<1>4. TimesTypes'
  BY <1>1, <1>2, <1>3 DEF TimesInv, TimesTypes, Times!cvars
<1> QED BY <1>1, <1>3, <1>4, CoveredIfSame DEF TimesInv, Times!cvars

\* It stores the group, and need not see to the timetable any more, or breaks off.
LEMMA StoreGroupStep ==
  ASSUME TimesInv, NEW k \in Cmd, Times!StoreGroup(k)
  PROVE  TimesInv'
<1>1. UNCHANGED <<Times!cvars, data, table, maint, link, edits>>
  BY DEF Times!StoreGroup
<1>2. PICK u \in User : cmd[k] = AtGroup(u)
  BY CommandStages DEF Times!StoreGroup, Times!At, TimesInv, TimesTypes
<1>3. cmd[k].user = u /\ \A v : SeesTo(cmd[k], v) <=> u = v
  BY <1>2, StageFields, SeesToStages
<1>4. ASSUME group' = group \cup {u}, unowned' = unowned \ {u},
             cmd' = [cmd EXCEPT ![k].at = "refresh"], UNCHANGED torn
      PROVE  TimesTypes' /\ TimesOwned'
  <2>1. cmd' = [cmd EXCEPT ![k] = AtRefresh(u, "sign")]
    <3>1. [cmd EXCEPT ![k].at = "refresh"] = [cmd EXCEPT ![k] = [cmd[k] EXCEPT !.at = "refresh"]]
      OBVIOUS
    <3>2. [AtGroup(u) EXCEPT !.at = "refresh"] = AtRefresh(u, "sign")
      BY DEF AtGroup, AtRefresh
    <3> QED BY Zenon, <1>2, <1>4, <3>1, <3>2
  <2>2. AtRefresh(u, "sign") \in TimesCommand
    BY CommandMade DEF TimesOp
  <2>3. SeenTo(k, AtRefresh(u, "sign"))
    BY <1>1, <1>3, <1>4 DEF SeenTo
  <2>4. cmd' \in [Cmd -> TimesCommand] /\ TimesOwned'
    BY <2>1, <2>2, <2>3, OwnedAfter DEF TimesInv
  <2> QED BY <1>1, <1>4, <2>4 DEF TimesInv, TimesTypes, Times!cvars
<1>5. ASSUME cmd' = [cmd EXCEPT ![k] = Times!Idle], torn' = torn \cup {u}, UNCHANGED <<group, unowned>>
      PROVE  TimesTypes' /\ TimesOwned'
  <2>1. Times!Idle \in TimesCommand
    BY CommandMade
  <2>2. SeenTo(k, Times!Idle)
    BY <1>1, <1>3, <1>5 DEF SeenTo
  <2>3. cmd' \in [Cmd -> TimesCommand] /\ TimesOwned'
    BY <1>5, <2>1, <2>2, OwnedAfter DEF TimesInv
  <2> QED BY <1>1, <1>5, <2>3 DEF TimesInv, TimesTypes, Times!cvars
<1>6. TimesTypes' /\ TimesOwned'
  BY <1>3, <1>4, <1>5 DEF Times!StoreGroup
<1> QED BY <1>1, <1>6, CoveredIfSame DEF TimesInv, Times!cvars

\* force_update, first half: the command carries the table it computed.
LEMMA RefreshStep ==
  ASSUME TimesInv, NEW k \in Cmd, Times!Refresh(k)
  PROVE  TimesInv'
<1>1. UNCHANGED <<Times!cvars, data, group, table, maint, link, edits, torn, unowned>>
  BY DEF Times!Refresh
<1>2. PICK u \in User, op \in TimesOp : cmd[k] = AtRefresh(u, op)
  BY CommandStages DEF Times!Refresh, Times!At, TimesInv, TimesTypes
<1>3. cmd[k].user = u /\ cmd[k].op = op
  BY <1>2, StageFields
<1>4. cmd' = [cmd EXCEPT ![k] = AtStore(u, op, Times!RunTask)]
  BY <1>3 DEF Times!Refresh, AtStore, TimesInv, TimesTypes
<1>5. AtStore(u, op, Times!RunTask) \in TimesCommand
  BY RunTaskResult, CommandMade DEF TimesInv
<1>6. \A v : SeesTo(AtStore(u, op, Times!RunTask), v) <=> SeesTo(cmd[k], v)
  BY <1>2, SeesToStages
<1> HIDE DEF Times!RunTask
<1>7. cmd' \in [Cmd -> TimesCommand] /\ TimesOwned'
  <2>1. SeenTo(k, AtStore(u, op, Times!RunTask))
    BY <1>1, <1>6 DEF SeenTo
  <2> QED BY <1>4, <1>5, <2>1, OwnedAfter DEF TimesInv
<1>8. TimesTypes'
  BY <1>1, <1>7 DEF TimesInv, TimesTypes, Times!cvars
<1> QED BY <1>1, <1>7, <1>8, CoveredIfSame DEF TimesInv, Times!cvars

\* force_update, second half: /signtime goes on to the link, /delsigntime to the timetable.
LEMMA StoreTableStep ==
  ASSUME TimesInv, NEW k \in Cmd, Times!StoreTable(k)
  PROVE  TimesInv'
<1>1. UNCHANGED <<Times!cvars, data, group, maint, link, edits, torn, unowned>>
  BY DEF Times!StoreTable
<1>2. PICK u \in User, op \in TimesOp, r \in Times!Result : cmd[k] = AtStore(u, op, r)
  BY CommandStages DEF Times!StoreTable, Times!At, TimesInv, TimesTypes
<1>3. cmd[k].user = u /\ cmd[k].op = op /\ cmd[k].result = r
  BY <1>2, StageFields
<1>4. table' = r
  BY <1>3 DEF Times!StoreTable
<1>5. cmd' = [cmd EXCEPT ![k] = CASE op = "sign" -> AtLink(u)
                                  [] op = "del" -> AtRemove(u)
                                  [] OTHER -> Times!Idle]
  BY <1>3 DEF Times!StoreTable, AtLink, AtRemove
<1>6. PICK c \in TimesCommand : /\ cmd' = [cmd EXCEPT ![k] = c]
                                /\ op = "del" => c = AtRemove(u)
  BY <1>5, CommandMade DEF TimesOp
<1>7. \A v : SeesTo(cmd[k], v) => SeesTo(c, v)
  BY <1>2, <1>6, SeesToStages
<1>8. cmd' \in [Cmd -> TimesCommand] /\ TimesOwned'
  <2>1. SeenTo(k, c)
    BY <1>1, <1>7 DEF SeenTo
  <2> QED BY <1>6, <2>1, OwnedAfter DEF TimesInv
<1>9. TimesTypes'
  BY <1>1, <1>4, <1>8 DEF TimesInv, TimesTypes, Times!cvars
<1> QED BY <1>1, <1>8, <1>9, CoveredIfSame DEF TimesInv, Times!cvars

\* create_edit_task_url: the command is done.
LEMMA MakeLinkStep ==
  ASSUME TimesInv, NEW k \in Cmd, NEW l \in Link, Times!MakeLink(k, l)
  PROVE  TimesInv'
<1>1. UNCHANGED <<Times!cvars, data, group, table, maint, edits, torn, unowned>>
      /\ cmd' = [cmd EXCEPT ![k] = Times!Idle]
  BY DEF Times!MakeLink
<1>2. PICK u \in User : cmd[k] = AtLink(u)
  BY CommandStages DEF Times!MakeLink, Times!At, TimesInv, TimesTypes
<1>3. cmd[k].user = u /\ \A v : ~SeesTo(cmd[k], v)
  BY <1>2, StageFields, SeesToStages
<1>4. link' = [link EXCEPT ![l] = [user |-> u, state |-> "open"]]
  BY <1>3 DEF Times!MakeLink
<1>5. link' \in [Link -> TimesLink]
  BY <1>4 DEF TimesInv, TimesTypes, TimesLink
<1>6. cmd' \in [Cmd -> TimesCommand] /\ TimesOwned'
  <2>1. SeenTo(k, Times!Idle)
    BY <1>1, <1>3 DEF SeenTo
  <2> QED BY <1>1, <2>1, CommandMade, OwnedAfter DEF TimesInv
<1>7. TimesTypes'
  BY <1>1, <1>5, <1>6 DEF TimesInv, TimesTypes, Times!cvars
<1> QED BY <1>1, <1>6, <1>7, CoveredIfSame DEF TimesInv, Times!cvars

\* /delsigntime removes the group, and sees to the timetable from then on.
LEMMA DelSignTimeStep ==
  ASSUME TimesInv, NEW k \in Cmd, NEW u \in User, Times!DelSignTime(k, u)
  PROVE  TimesInv'
<1>1. UNCHANGED <<Times!cvars, data, table, maint, link, torn, unowned>> /\ group' = group \ {u}
  BY DEF Times!DelSignTime
<1>2. cmd[k] = Times!Idle /\ edits' \in 0..MaxEdits /\ cmd' = [cmd EXCEPT ![k] = AtRefresh(u, "del")]
  BY BeginStep DEF Times!DelSignTime, AtRefresh, TimesInv
<1>3. AtRefresh(u, "del") \in TimesCommand
  BY CommandMade DEF TimesOp
<1>4. SeesTo(AtRefresh(u, "del"), u) /\ \A v : ~SeesTo(cmd[k], v)
  BY <1>2, SeesToStages
<1>5. cmd' \in [Cmd -> TimesCommand] /\ TimesOwned'
  <2>1. SeenTo(k, AtRefresh(u, "del"))
    BY <1>1, <1>4 DEF SeenTo
  <2> QED BY <1>2, <1>3, <2>1, OwnedAfter DEF TimesInv
<1>6. TimesTypes'
  BY <1>1, <1>2, <1>5 DEF TimesInv, TimesTypes, Times!cvars
<1> QED BY <1>1, <1>5, <1>6, CoveredIfSame DEF TimesInv, Times!cvars

\* It removes the timetable, or breaks off.
LEMMA RemoveDataStep ==
  ASSUME TimesInv, NEW k \in Cmd, Times!RemoveData(k)
  PROVE  TimesInv'
<1>1. UNCHANGED <<Times!cvars, group, table, maint, link, edits, unowned>>
      /\ cmd' = [cmd EXCEPT ![k] = Times!Idle]
  BY DEF Times!RemoveData
<1>2. PICK u \in User : cmd[k] = AtRemove(u)
  BY CommandStages DEF Times!RemoveData, Times!At, TimesInv, TimesTypes
<1>3. cmd[k].user = u /\ \A v : SeesTo(cmd[k], v) <=> u = v
  BY <1>2, StageFields, SeesToStages
<1>4. \/ data' = [data EXCEPT ![u] = Absent] /\ torn' = torn
      \/ torn' = torn \cup {u} /\ data' = data
  BY <1>3 DEF Times!RemoveData
<1>5. /\ data' \in [User -> Tables \cup {Absent}] /\ torn' \subseteq User /\ torn \subseteq torn'
      /\ \A v \in User : v # u => data'[v] = data[v]
      /\ data'[u] = Absent \/ u \in torn'
  BY <1>4 DEF TimesInv, TimesTypes
<1>6. cmd' \in [Cmd -> TimesCommand] /\ TimesOwned'
  <2>1. ASSUME NEW v \in User, data'[v] # Absent, v \notin group'
        PROVE  \/ v \in torn' \cup unowned'
               \/ /\ data[v] # Absent /\ v \notin group /\ ~SeesTo(cmd[k], v)
                  /\ v \in torn \cup unowned => v \in torn' \cup unowned'
    <3>1. CASE v = u
      BY <1>5, <2>1, <3>1
    <3>2. CASE v # u
      BY <1>1, <1>3, <1>5, <2>1, <3>2
    <3> QED BY <3>1, <3>2
  <2>2. SeenTo(k, Times!Idle)
    BY <2>1 DEF SeenTo
  <2> QED BY <1>1, <2>2, CommandMade, OwnedAfter DEF TimesInv
<1>7. TimesTypes'
  BY <1>1, <1>5, <1>6 DEF TimesInv, TimesTypes, Times!cvars
<1> QED BY <1>1, <1>6, <1>7, CoveredIfSame DEF TimesInv, Times!cvars

\* task_save_handler: a timetable saved without a group is noted as one.
LEMMA SaveLinkStep ==
  ASSUME TimesInv, NEW k \in Cmd, NEW l \in Link, NEW t \in Tables, Times!SaveLink(k, l, t)
  PROVE  TimesInv'
<1>1. UNCHANGED <<Times!cvars, group, table, maint, torn>> /\ link[l] # Absent
      /\ link' = [link EXCEPT ![l].state = "gone"]
  BY DEF Times!SaveLink
<1>2. PICK u \in User, s \in {"open", "over", "gone"} : link[l] = [user |-> u, state |-> s]
  BY <1>1 DEF TimesInv, TimesTypes, TimesLink
<1>3. link' = [link EXCEPT ![l] = [user |-> u, state |-> "gone"]]
  <2>1. [link EXCEPT ![l].state = "gone"] = [link EXCEPT ![l] = [link[l] EXCEPT !.state = "gone"]]
    OBVIOUS
  <2>2. [[user |-> u, state |-> s] EXCEPT !.state = "gone"] = [user |-> u, state |-> "gone"]
    OBVIOUS
  <2> QED BY Zenon, <1>1, <1>2, <2>1, <2>2
<1>4. link' \in [Link -> TimesLink]
  BY <1>3 DEF TimesInv, TimesTypes, TimesLink
<1>5. ASSUME Times!Begin(k, u, "refresh", "save"), data' = [data EXCEPT ![u] = t],
             unowned' = IF u \in group THEN unowned ELSE unowned \cup {u}
      PROVE  TimesTypes' /\ TimesOwned'
  <2>1. cmd[k] = Times!Idle /\ edits' \in 0..MaxEdits /\ cmd' = [cmd EXCEPT ![k] = AtRefresh(u, "save")]
    BY <1>5, BeginStep DEF AtRefresh, TimesInv
  <2>2. AtRefresh(u, "save") \in TimesCommand
    BY CommandMade DEF TimesOp
  <2>3. \A v : ~SeesTo(cmd[k], v)
    BY <2>1, SeesToStages
  <2>4. /\ data' \in [User -> Tables \cup {Absent}] /\ \A v \in User : v # u => data'[v] = data[v]
        /\ unowned' \subseteq User /\ unowned \subseteq unowned' /\ (u \in group \/ u \in unowned')
    BY <1>5 DEF TimesInv, TimesTypes
  <2>5. ASSUME NEW v \in User, data'[v] # Absent, v \notin group'
        PROVE  \/ v \in torn' \cup unowned'
               \/ /\ data[v] # Absent /\ v \notin group /\ ~SeesTo(cmd[k], v)
                  /\ v \in torn \cup unowned => v \in torn' \cup unowned'
    <3>1. CASE v = u
      BY <1>1, <2>4, <2>5, <3>1
    <3>2. CASE v # u
      BY <1>1, <2>3, <2>4, <2>5, <3>2
    <3> QED BY <3>1, <3>2
  <2>6. SeenTo(k, AtRefresh(u, "save"))
    BY <2>5 DEF SeenTo
  <2>7. cmd' \in [Cmd -> TimesCommand] /\ TimesOwned'
    BY <2>1, <2>2, <2>6, OwnedAfter DEF TimesInv
  <2> QED BY <1>1, <1>4, <2>1, <2>4, <2>7 DEF TimesInv, TimesTypes, Times!cvars
<1>6. ASSUME UNCHANGED <<data, cmd, edits, unowned>>
      PROVE  TimesTypes' /\ TimesOwned'
  BY <1>1, <1>4, <1>6, OwnedIfSame DEF TimesInv, TimesTypes, Times!cvars
<1>7. TimesTypes' /\ TimesOwned'
  BY <1>2, <1>5, <1>6 DEF Times!SaveLink
<1> QED BY <1>1, <1>7, CoveredIfSame DEF TimesInv, Times!cvars

\* Every step keeps the invariant.
LEMMA TimesStep ==
  ASSUME TimesInv, Times!Next
  PROVE  TimesInv'
BY CalendarStep, TableStep, LinkStep, SignTimeStep, StoreGroupStep, RefreshStep, StoreTableStep,
   MakeLinkStep, DelSignTimeStep, RemoveDataStep, SaveLinkStep DEF Times!Next

-----------------------------------------------------------------------------
(* The bits of a bitmap: the words, the places in a word, the minute that  *)
(* a bit stands for, and all of those (TimeBitMap).                        *)
Lane == 0..63
BitAt(i, j) == 64 * i + j
Bits == 0..1471

\* The minutes a lesson may begin and end at, and those around it.
DayMinutes == 0..1439
DayEnds == 0..1440
Stretch(x, y, p, q) == {m \in DayMinutes : x < y /\ x <= m + p /\ m < y + q}

\* The minutes of the day are all in the map.
LEMMA DayMinutesAreBits == DayMinutes \subseteq Bits
<1>1. ASSUME NEW m \in DayMinutes PROVE m \in Bits
  BY DEF Bits, DayMinutes
<1> QED BY Zenon, <1>1

\* Every bit is one of one word, at one place.
LEMMA BitSplit ==
  /\ \A m \in Bits : \E i \in Minutes!Word, j \in Lane : m = BitAt(i, j)
  /\ \A i \in Minutes!Word, j \in Lane : BitAt(i, j) \in Bits
  /\ \A i, k \in Minutes!Word, j, l \in Lane : BitAt(i, j) = BitAt(k, l) => i = k /\ j = l
<1>1. ASSUME NEW m \in Bits PROVE \E i \in Minutes!Word, j \in Lane : m = BitAt(i, j)
  <2> DEFINE q == m \div 64
             r == m % 64
  <2>1. q \in Int /\ r \in Int /\ m = 64 * q + r /\ 0 <= r /\ r < 64
    BY DEF Bits
  <2> HIDE DEF q, r
  <2>2. q \in Minutes!Word /\ r \in Lane
    BY <2>1 DEF Lane, BitAt, Bits, Minutes!Word, Minutes!WORDS
  <2>3. m = BitAt(q, r)
    BY <2>1 DEF BitAt
  <2> QED BY Zenon, <2>2, <2>3
<1>2. \A i \in Minutes!Word, j \in Lane : BitAt(i, j) \in Bits
  BY DEF Lane, BitAt, Bits, Minutes!Word, Minutes!WORDS
<1>3. \A i, k \in Minutes!Word, j, l \in Lane : BitAt(i, j) = BitAt(k, l) => i = k /\ j = l
  BY DEF Lane, BitAt, Bits, Minutes!Word, Minutes!WORDS
<1> QED BY Zenon, <1>1, <1>2, <1>3

\* A bitmap has, for every word, some of its places.
LEMMA BitmapBits ==
  /\ \A b \in Minutes!Bitmap : \A i \in Minutes!Word : b[i] \subseteq Lane
  /\ Minutes!Bitmap = [Minutes!Word -> SUBSET Lane]
BY DEF Minutes!Bitmap, Minutes!WIDTH, Lane

\* A bit is set if its minute is active.
LEMMA ActiveIsBit ==
  ASSUME NEW b \in Minutes!Bitmap
  PROVE  /\ Minutes!Active(b) \subseteq Bits
         /\ \A i \in Minutes!Word, j \in Lane : BitAt(i, j) \in Minutes!Active(b) <=> j \in b[i]
<1>1. \A m : m \in Minutes!Active(b) <=> \E i \in Minutes!Word : \E j \in b[i] : m = BitAt(i, j)
  BY DEF Minutes!Active, Minutes!WIDTH, BitAt
<1>2. Minutes!Active(b) \subseteq Bits
  BY <1>1, BitSplit, BitmapBits
<1>3. ASSUME NEW i \in Minutes!Word, NEW j \in Lane
      PROVE  BitAt(i, j) \in Minutes!Active(b) <=> j \in b[i]
  BY <1>1, BitSplit, BitmapBits
<1> QED BY <1>2, <1>3

\* To know the minutes of a bitmap it is enough to know its bits.
LEMMA BitsAreMinutes ==
  ASSUME NEW b \in Minutes!Bitmap, NEW M \in SUBSET Bits,
         \A i \in Minutes!Word, j \in Lane : j \in b[i] <=> BitAt(i, j) \in M
  PROVE  Minutes!Active(b) = M
<1>1. ASSUME NEW m \in Bits PROVE m \in Minutes!Active(b) <=> m \in M
  <2>1. PICK i \in Minutes!Word, j \in Lane : m = BitAt(i, j)
    BY BitSplit
  <2>2. BitAt(i, j) \in Minutes!Active(b) <=> j \in b[i]
    BY <2>1, ActiveIsBit
  <2> QED BY <2>1, <2>2
<1>2. Minutes!Active(b) \subseteq Bits
  BY ActiveIsBit
<1> QED BY <1>1, <1>2

\* Nothing is watched in an empty bitmap, and in a union what is in either.
LEMMA ActiveEmpty == Minutes!Empty \in Minutes!Bitmap /\ Minutes!Active(Minutes!Empty) = {}
<1>1. Minutes!Empty \in Minutes!Bitmap
  BY BitmapBits DEF Minutes!Empty
<1>2. \A i \in Minutes!Word, j \in Lane : j \in Minutes!Empty[i] <=> BitAt(i, j) \in {}
  BY DEF Minutes!Empty
<1> QED BY <1>1, <1>2, BitsAreMinutes

\* Where two bitmaps are merged both their minutes are active.
LEMMA ActiveUnion ==
  ASSUME NEW a \in Minutes!Bitmap, NEW b \in Minutes!Bitmap
  PROVE  /\ [i \in Minutes!Word |-> a[i] \cup b[i]] \in Minutes!Bitmap
         /\ Minutes!Active([i \in Minutes!Word |-> a[i] \cup b[i]]) = Minutes!Active(a) \cup Minutes!Active(b)
<1> DEFINE c == [i \in Minutes!Word |-> a[i] \cup b[i]]
           M == Minutes!Active(a) \cup Minutes!Active(b)
<1>1. c \in Minutes!Bitmap
  BY BitmapBits
<1>2. ASSUME NEW i \in Minutes!Word, NEW j \in Lane PROVE j \in c[i] <=> BitAt(i, j) \in M
  BY ActiveIsBit
<1>3. M \in SUBSET Bits
  BY ActiveIsBit
<1> HIDE DEF c, M
<1>4. Minutes!Active(c) = M
  BY <1>1, <1>2, <1>3, BitsAreMinutes
<1> QED BY <1>1, <1>4 DEF c, M

\* The minutes of a range.
LEMMA ActiveRange ==
  ASSUME NEW s \in DayMinutes, NEW e \in DayEnds
  PROVE  /\ Minutes!Range(s, e) \in Minutes!Bitmap
         /\ Minutes!Active(Minutes!Range(s, e)) = s..e-1
<1>1. Minutes!Range(s, e) \in Minutes!Bitmap
  BY BitmapBits DEF Minutes!Range, Minutes!WIDTH, Lane
<1>2. \A i \in Minutes!Word, j \in Lane : j \in Minutes!Range(s, e)[i] <=> BitAt(i, j) \in s..e-1
  BY DEF Minutes!Range, Minutes!WIDTH, Lane, BitAt
<1>3. s..e-1 \in SUBSET Bits
  BY DEF Bits, DayMinutes, DayEnds
<1> QED BY <1>1, <1>2, <1>3, BitsAreMinutes

\* The bits around a bit.
LEMMA BitNeighbours ==
  ASSUME NEW i \in Minutes!Word, NEW j \in Lane
  PROVE  /\ j # 63 => j + 1 \in Lane /\ BitAt(i, j) + 1 = BitAt(i, j + 1)
         /\ j = 63 /\ i + 1 \in Minutes!Word => 0 \in Lane /\ BitAt(i, j) + 1 = BitAt(i + 1, 0)
         /\ j = 63 /\ i + 1 \notin Minutes!Word => BitAt(i, j) + 1 \notin Bits
         /\ j # 0 => j - 1 \in Lane /\ BitAt(i, j) - 1 = BitAt(i, j - 1)
         /\ j = 0 /\ i > 0 => i - 1 \in Minutes!Word /\ 63 \in Lane /\ BitAt(i, j) - 1 = BitAt(i - 1, 63)
         /\ j = 0 /\ ~(i > 0) => BitAt(i, j) - 1 \notin Bits
BY DEF Lane, BitAt, Bits, Minutes!Word, Minutes!WORDS

\* A minute earlier.
LEMMA ActiveEarlier ==
  ASSUME NEW b \in Minutes!Bitmap
  PROVE  /\ Minutes!Earlier(b) \in Minutes!Bitmap
         /\ Minutes!Active(Minutes!Earlier(b)) =
              {m \in Bits : m \in Minutes!Active(b) \/ m + 1 \in Minutes!Active(b)}
<1> DEFINE M == {m \in Bits : m \in Minutes!Active(b) \/ m + 1 \in Minutes!Active(b)}
           c == Minutes!Earlier(b)
<1>0. \A k \in Minutes!Word : b[k] \subseteq 0..63
  BY BitmapBits DEF Lane
<1>c. c = [k \in Minutes!Word |->
             b[k] \cup {j - 1 : j \in b[k] \ {0}}
                  \cup IF k + 1 \in Minutes!Word /\ 0 \in b[k + 1] THEN {63} ELSE {}]
  BY DEF Minutes!Earlier, Minutes!WIDTH
<1>d. \A k \in Minutes!Word : c[k] \subseteq Lane
  BY <1>0, <1>c DEF Lane
<1>1. c \in Minutes!Bitmap
  BY <1>c, <1>d, BitmapBits
<1>2. ASSUME NEW i \in Minutes!Word, NEW j \in Lane PROVE j \in c[i] <=> BitAt(i, j) \in M
  <2>0. j \in 0..63
    BY DEF Lane
  <2>1. j \in c[i] <=> \/ j \in b[i]
                       \/ j + 1 \in b[i]
                       \/ j = 63 /\ i + 1 \in Minutes!Word /\ 0 \in b[i + 1]
    BY <1>0, <1>c, <2>0
  <2>2. BitAt(i, j) \in M <=> j \in b[i] \/ BitAt(i, j) + 1 \in Minutes!Active(b)
    BY BitSplit, ActiveIsBit
  <2>3. CASE j # 63
    <3>1. j + 1 \in Lane /\ BitAt(i, j) + 1 = BitAt(i, j + 1)
      BY <2>3, BitNeighbours
    <3>2. BitAt(i, j) + 1 \in Minutes!Active(b) <=> j + 1 \in b[i]
      BY <3>1, ActiveIsBit
    <3> QED BY <2>1, <2>2, <2>3, <3>2
  <2>4. ASSUME j = 63 PROVE j + 1 \notin b[i]
    BY <1>0, <2>4
  <2>5. CASE j = 63 /\ i + 1 \in Minutes!Word
    <3>1. 0 \in Lane /\ BitAt(i, j) + 1 = BitAt(i + 1, 0)
      BY <2>5, BitNeighbours
    <3>2. BitAt(i, j) + 1 \in Minutes!Active(b) <=> 0 \in b[i + 1]
      BY <2>5, <3>1, ActiveIsBit
    <3> QED BY <2>1, <2>2, <2>4, <2>5, <3>2
  <2>6. CASE j = 63 /\ i + 1 \notin Minutes!Word
    <3>1. BitAt(i, j) + 1 \notin Minutes!Active(b)
      BY <2>6, BitNeighbours, ActiveIsBit
    <3> QED BY <2>1, <2>2, <2>4, <2>6, <3>1
  <2> QED BY <2>3, <2>5, <2>6
<1> HIDE DEF M, c
<1>3. M \in SUBSET Bits
  BY DEF M
<1>4. Minutes!Active(c) = M
  BY <1>1, <1>2, <1>3, BitsAreMinutes
<1> QED BY <1>1, <1>4 DEF M, c

\* A minute later, but for those past the day.
LEMMA ActiveLater ==
  ASSUME NEW b \in Minutes!Bitmap
  PROVE  /\ Minutes!Later(b) \in Minutes!Bitmap
         /\ Minutes!Active(Minutes!Later(b)) =
              {m \in DayMinutes : m \in Minutes!Active(b) \/ m - 1 \in Minutes!Active(b)}
<1> DEFINE M == {m \in DayMinutes : m \in Minutes!Active(b) \/ m - 1 \in Minutes!Active(b)}
           c == Minutes!Later(b)
<1>0. \A k \in Minutes!Word : b[k] \subseteq 0..63
  BY BitmapBits DEF Lane
<1>c. c = [k \in Minutes!Word |->
             (b[k] \cup {j + 1 : j \in b[k] \ {63}}
                   \cup IF k > 0 /\ 63 \in b[k - 1] THEN {0} ELSE {})
             \ IF k = 22 THEN 32..63 ELSE {}]
  BY DEF Minutes!Later, Minutes!WIDTH, Minutes!WORDS
<1>d. \A k \in Minutes!Word : c[k] \subseteq Lane
  BY <1>0, <1>c DEF Lane
<1>1. c \in Minutes!Bitmap
  BY <1>c, <1>d, BitmapBits
<1>2. ASSUME NEW i \in Minutes!Word, NEW j \in Lane PROVE j \in c[i] <=> BitAt(i, j) \in M
  <2>0. j \in 0..63
    BY DEF Lane
  <2>1. j \in c[i] <=> /\ \/ j \in b[i]
                          \/ j - 1 \in b[i]
                          \/ j = 0 /\ i > 0 /\ 63 \in b[i - 1]
                       /\ ~(i = 22 /\ j >= 32)
    BY <1>0, <1>c, <2>0
  <2>2. BitAt(i, j) \in M <=> /\ j \in b[i] \/ BitAt(i, j) - 1 \in Minutes!Active(b)
                              /\ ~(i = 22 /\ j >= 32)
    <3>1. BitAt(i, j) \in DayMinutes <=> ~(i = 22 /\ j >= 32)
      BY DEF DayMinutes, Lane, BitAt, Minutes!Word, Minutes!WORDS
    <3>2. BitAt(i, j) \in Minutes!Active(b) <=> j \in b[i]
      BY ActiveIsBit
    <3>3. BitAt(i, j) \in M <=> /\ BitAt(i, j) \in DayMinutes
                                /\ BitAt(i, j) \in Minutes!Active(b) \/ BitAt(i, j) - 1 \in Minutes!Active(b)
      OBVIOUS
    <3> HIDE DEF M
    <3> QED BY <3>1, <3>2, <3>3
  <2>3. CASE j # 0
    <3>1. j - 1 \in Lane /\ BitAt(i, j) - 1 = BitAt(i, j - 1)
      BY <2>3, BitNeighbours
    <3>2. BitAt(i, j) - 1 \in Minutes!Active(b) <=> j - 1 \in b[i]
      BY <3>1, ActiveIsBit
    <3> QED BY <2>1, <2>2, <2>3, <3>2
  <2>4. ASSUME j = 0 PROVE j - 1 \notin b[i]
    BY <1>0, <2>4
  <2>5. CASE j = 0 /\ i > 0
    <3>1. i - 1 \in Minutes!Word /\ 63 \in Lane /\ BitAt(i, j) - 1 = BitAt(i - 1, 63)
      BY <2>5, BitNeighbours
    <3>2. BitAt(i, j) - 1 \in Minutes!Active(b) <=> 63 \in b[i - 1]
      BY <2>5, <3>1, ActiveIsBit
    <3> QED BY <2>1, <2>2, <2>4, <2>5, <3>2
  <2>6. CASE j = 0 /\ ~(i > 0)
    <3>1. BitAt(i, j) - 1 \notin Minutes!Active(b)
      BY <2>6, BitNeighbours, ActiveIsBit
    <3> QED BY <2>1, <2>2, <2>4, <2>6, <3>1
  <2> QED BY <2>3, <2>5, <2>6
<1> HIDE DEF M, c
<1>3. M \in SUBSET Bits
  BY DEF M, Bits, DayMinutes
<1>4. Minutes!Active(c) = M
  BY <1>1, <1>2, <1>3, BitsAreMinutes
<1> QED BY <1>1, <1>4 DEF M, c

-----------------------------------------------------------------------------
(* The bitmap holds exactly the minutes of the lessons merged so far, and  *)
(* the window those it was extended by (WatchWindow).                      *)
MinutesInv == Minutes!TypeOK /\ Minutes!MarginsAreExact

\* A clock time of the school is a minute of the day, and a page shows the
\* minute it was given.
LEMMA ClockIsMinute ==
  ASSUME NEW s \in Nat, Minutes!IsTime(s)
  PROVE  Minutes!FromMilitary(s) \in 0..1439
<1> DEFINE h == (s \div 100) % 256
           n == s % 100
<1>1. h \in Int /\ 0 <= h /\ h < 24 /\ n \in Int /\ 0 <= n /\ n < 60
  BY DEF Minutes!IsTime, Minutes!Hour, Minutes!Minute
<1>2. Minutes!FromMilitary(s) = 60 * h + n
  BY DEF Minutes!FromMilitary, Minutes!Hour, Minutes!Minute
<1> HIDE DEF h, n
<1> QED BY <1>1, <1>2

\* A page shows the minutes it was given, and gives back what it shows.
LEMMA ViewIsSame ==
  ASSUME NEW c \in DayEnds \X DayEnds
  PROVE  Minutes!View(c) = c
<1>1. ASSUME NEW m \in DayEnds PROVE Minutes!AsMinutes(m) = m
  <2> DEFINE q == m \div 60
             r == m % 60
  <2>1. q \in Int /\ r \in Int /\ m = 60 * q + r /\ 0 <= r /\ r < 60
    BY DEF DayEnds
  <2>2. Minutes!AsMinutes(m) = 60 * (q % 256) + r
    BY DEF Minutes!AsMinutes
  <2> HIDE DEF q, r
  <2>3. q \in 0..24
    BY <2>1 DEF DayEnds
  <2>4. q % 256 = q
    BY <2>3
  <2> QED BY <2>1, <2>2, <2>4
<1>2. PICK x \in DayEnds, y \in DayEnds : c = <<x, y>>
  OBVIOUS
<1>3. Minutes!AsMinutes(x) = x /\ Minutes!AsMinutes(y) = y
  BY Zenon, <1>1
<1> QED BY <1>2, <1>3 DEF Minutes!View

\* The minutes of a lesson, and of one extended by a minute at either end.
LEMMA StretchRange ==
  ASSUME NEW x \in DayMinutes, NEW y \in DayEnds
  PROVE  Stretch(x, y, 0, 0) = x..y-1
<1>1. ASSUME NEW m \in DayMinutes PROVE m \in Stretch(x, y, 0, 0) <=> m \in x..y-1
  BY DEF Stretch, DayMinutes, DayEnds
<1>2. x..y-1 \subseteq DayMinutes
  BY DEF DayMinutes, DayEnds
<1>3. Stretch(x, y, 0, 0) \subseteq DayMinutes
  BY Zenon DEF Stretch
<1> HIDE DEF Stretch
<1> QED BY Zenon, <1>1, <1>2, <1>3

\* A minute earlier: the stretch begins a minute before.
LEMMA StretchEarlier ==
  ASSUME NEW x \in DayMinutes, NEW y \in DayEnds, NEW k \in 0..9
  PROVE  {m \in Bits : m \in Stretch(x, y, k, 0) \/ m + 1 \in Stretch(x, y, k, 0)} = Stretch(x, y, k + 1, 0)
<1>1. ASSUME NEW m \in Bits
      PROVE  (m \in Stretch(x, y, k, 0) \/ m + 1 \in Stretch(x, y, k, 0))
               <=> m \in Stretch(x, y, k + 1, 0)
  BY DEF Stretch, Bits, DayMinutes, DayEnds
<1>2. DayMinutes \subseteq Bits
  BY DayMinutesAreBits
<1>3. Stretch(x, y, k + 1, 0) \subseteq DayMinutes
  BY Zenon DEF Stretch
<1> QED BY Zenon, <1>1, <1>2, <1>3

\* A minute later: the stretch ends a minute after, within the day.
LEMMA StretchLater ==
  ASSUME NEW x \in DayMinutes, NEW y \in DayEnds, NEW k \in 0..9
  PROVE  {m \in DayMinutes : m \in Stretch(x, y, 10, k) \/ m - 1 \in Stretch(x, y, 10, k)} = Stretch(x, y, 10, k + 1)
<1>1. ASSUME NEW m \in DayMinutes
      PROVE  (m \in Stretch(x, y, 10, k) \/ m - 1 \in Stretch(x, y, 10, k))
               <=> m \in Stretch(x, y, 10, k + 1)
  BY DEF Stretch, DayMinutes, DayEnds
<1>2. Stretch(x, y, 10, k + 1) \subseteq DayMinutes
  BY Zenon DEF Stretch
<1> QED BY Zenon, <1>1, <1>2

\* The minutes around a lesson are such a stretch.
LEMMA AroundIsStretch ==
  ASSUME NEW c, NEW p, NEW q
  PROVE  Minutes!Around(c, p, q) = Stretch(c[1], c[2], p, q)
<1>1. 0..Minutes!DAY-1 = DayMinutes
  BY DEF Minutes!DAY, DayMinutes
<1> QED BY Zenon, <1>1 DEF Minutes!Around, Stretch

-----------------------------------------------------------------------------
\* What the types of the lessons say.
LEMMA MinutesTypes ==
  ASSUME Minutes!TypeOK
  PROVE  /\ times \subseteq DayMinutes \X DayEnds
         /\ unmerged \subseteq times
         /\ lesson = {} \/ \E c \in unmerged : lesson = {c}
         /\ bitmap \in Minutes!Bitmap /\ window \in Minutes!Bitmap
         /\ minutes \in 0..20
<1>1. 0..Minutes!DAY-1 = DayMinutes /\ 0..Minutes!DAY = DayEnds /\ 2 * Minutes!MARGIN = 20
  BY DEF Minutes!DAY, DayMinutes, DayEnds, Minutes!MARGIN
<1> QED BY <1>1 DEF Minutes!TypeOK

\* The type invariant is put together from the types of the variables.
LEMMA MinutesTyped ==
  ASSUME times' \subseteq DayMinutes \X DayEnds,
         unmerged' \subseteq times',
         lesson' = {} \/ \E c \in unmerged' : lesson' = {c},
         bitmap' \in Minutes!Bitmap, window' \in Minutes!Bitmap,
         minutes' \in 0..20
  PROVE  Minutes!TypeOK'
<1>1. 0..Minutes!DAY-1 = DayMinutes /\ 0..Minutes!DAY = DayEnds /\ 2 * Minutes!MARGIN = 20
  BY DEF Minutes!DAY, DayMinutes, DayEnds, Minutes!MARGIN
<1>2. lesson' \in {{c} : c \in unmerged'} \cup {{}}
  OBVIOUS
<1> QED BY <1>1, <1>2 DEF Minutes!TypeOK, Minutes!Bitmap

\* A timetable that is stored is of lessons within the day.
LEMMA SignTimeTypes ==
  ASSUME NEW r \in Nat \X Nat, Minutes!Readable(r)
  PROVE  Minutes!Lesson(r) \in DayMinutes \X DayEnds
<1>1. r[1] \in Nat /\ r[2] \in Nat /\ Minutes!IsTime(r[1]) /\ Minutes!IsTime(r[2])
  BY DEF Minutes!Readable
<1>2. \A n \in Nat : Minutes!IsTime(n) =>
          Minutes!FromMilitary(n) \in DayMinutes /\ Minutes!FromMilitary(n) \in DayEnds
  BY ClockIsMinute DEF DayMinutes, DayEnds
<1> QED BY <1>1, <1>2 DEF Minutes!Lesson

\* What a page may save lies within the day.
LEMMA SaveableIsLesson ==
  ASSUME NEW x \in Nat, NEW y \in Nat, Minutes!Saveable(<<x, y>>)
  PROVE  x \in DayMinutes /\ y \in DayEnds
BY DEF Minutes!Saveable, Minutes!DAY, DayMinutes, DayEnds

\* The same of a timetable that a page saves.
LEMMA SavePageTypes ==
  ASSUME Minutes!TypeOK, NEW v \in Nat \X Nat, Minutes!SavePage(v)
  PROVE  times' \subseteq DayMinutes \X DayEnds
<1> DEFINE views == {Minutes!View(c) : c \in times} \cup {v}
<1>1. times' = {Minutes!View(w) : w \in views} /\ \A w \in views : Minutes!Saveable(w)
  BY DEF Minutes!SavePage, Minutes!Stored
<1>2. \A c \in DayMinutes \X DayEnds : Minutes!View(c) = c
  <2> DayMinutes \X DayEnds \subseteq DayEnds \X DayEnds
    BY DEF DayMinutes, DayEnds
  <2> QED BY ViewIsSame
<1>3. \A c \in times : Minutes!View(c) = c /\ c \in DayMinutes \X DayEnds
  BY <1>2, MinutesTypes
<1>4. v \in DayMinutes \X DayEnds
  <2>1. Minutes!Saveable(v)
    BY <1>1
  <2>2. PICK x \in Nat, y \in Nat : v = <<x, y>>
    OBVIOUS
  <2>3. x \in DayMinutes /\ y \in DayEnds
    BY <2>1, <2>2, SaveableIsLesson
  <2> QED BY <2>2, <2>3
<1>5. \A w \in views : w \in DayMinutes \X DayEnds
  BY <1>3, <1>4
<1> HIDE DEF views
<1> QED BY <1>1, <1>2, <1>5

\* Storing a timetable begins a new table of the day.
LEMMA MinutesStored ==
  ASSUME MinutesInv, NEW cs \in SUBSET (DayMinutes \X DayEnds), Minutes!Stored(cs),
         lesson = {}, UNCHANGED <<lesson, window, minutes>>
  PROVE  MinutesInv'
<1>0. times' = cs /\ unmerged' = cs /\ bitmap' = Minutes!Empty
      /\ lesson' = {} /\ window' = window /\ minutes' = minutes
  BY DEF Minutes!Stored
<1>1. Minutes!TypeOK'
  <2>1. window \in Minutes!Bitmap /\ minutes \in 0..20
    BY MinutesTypes DEF MinutesInv
  <2> QED BY <1>0, <2>1, ActiveEmpty, MinutesTyped
<1>2. Minutes!Active(bitmap') = {} /\ times' \ unmerged' = {}
  BY <1>0, ActiveEmpty
<1>3. Minutes!MarginsAreExact'
  BY <1>0, <1>2 DEF Minutes!MarginsAreExact, Minutes!Active
<1> QED BY <1>1, <1>3 DEF MinutesInv

\* TakeLesson: the window is the lesson.
LEMMA MinutesTake ==
  ASSUME MinutesInv, NEW c \in unmerged, Minutes!TakeLesson(c)
  PROVE  MinutesInv'
<1>0. /\ lesson' = {c} /\ window' = Minutes!Range(c[1], c[2]) /\ minutes' = 0
      /\ times' = times /\ unmerged' = unmerged /\ bitmap' = bitmap
  BY DEF Minutes!TakeLesson
<1>1. c[1] \in DayMinutes /\ c[2] \in DayEnds
  BY MinutesTypes DEF MinutesInv
<1>2. /\ Minutes!Range(c[1], c[2]) \in Minutes!Bitmap
      /\ Minutes!Active(Minutes!Range(c[1], c[2])) = c[1]..c[2]-1
  BY <1>1, ActiveRange
<1>3. Minutes!TypeOK'
  <2>1. 0 \in 0..20
    OBVIOUS
  <2> QED BY <1>0, <1>2, <2>1, MinutesTypes, MinutesTyped DEF MinutesInv
<1>4. Minutes!Active(window') = Minutes!Around(c, 0, 0)
  BY <1>0, <1>1, <1>2, StretchRange, AroundIsStretch
<1>5. Minutes!MarginsAreExact'
  <2>1. Minutes!Active(bitmap)
          = UNION {Minutes!Around(e, Minutes!MARGIN, Minutes!MARGIN) : e \in times \ unmerged}
    BY DEF MinutesInv, Minutes!MarginsAreExact
  <2>2. 0 < Minutes!MARGIN
    BY DEF Minutes!MARGIN
  <2>3. \A e \in lesson' : Minutes!Active(window')
              = IF minutes' < Minutes!MARGIN THEN Minutes!Around(e, minutes', 0)
                ELSE Minutes!Around(e, Minutes!MARGIN, minutes' - Minutes!MARGIN)
    BY <1>0, <1>4, <2>2
  <2> QED BY <1>0, <2>1, <2>3 DEF Minutes!MarginsAreExact, Minutes!Active
<1> QED BY <1>3, <1>5 DEF MinutesInv

\* Extend: the window grows by a minute to the front, or to the back.
LEMMA MinutesExtend ==
  ASSUME MinutesInv, Minutes!Extend
  PROVE  MinutesInv'
<1>0. /\ lesson # {} /\ minutes < 2 * Minutes!MARGIN /\ minutes' = minutes + 1
      /\ window' = IF minutes < Minutes!MARGIN THEN Minutes!Earlier(window) ELSE Minutes!Later(window)
      /\ times' = times /\ unmerged' = unmerged /\ bitmap' = bitmap /\ lesson' = lesson
  BY DEF Minutes!Extend
<1>1. minutes \in 0..20 /\ window \in Minutes!Bitmap
  BY MinutesTypes DEF MinutesInv
<1>2. Minutes!MARGIN = 10
  BY DEF Minutes!MARGIN
<1>3. window' \in Minutes!Bitmap
  BY <1>0, <1>1, ActiveEarlier, ActiveLater
<1>4. minutes' \in 0..20
  BY <1>0, <1>1, <1>2
<1>5. Minutes!TypeOK'
  BY <1>0, <1>3, <1>4, MinutesTypes, MinutesTyped DEF MinutesInv
<1>6. ASSUME NEW c \in lesson
      PROVE  Minutes!Active(window')
               = IF minutes' < 10 THEN Minutes!Around(c, minutes', 0)
                 ELSE Minutes!Around(c, 10, minutes' - 10)
  <2>1. c[1] \in DayMinutes /\ c[2] \in DayEnds
    BY MinutesTypes DEF MinutesInv
  <2>2. Minutes!Active(window)
           = IF minutes < 10 THEN Minutes!Around(c, minutes, 0)
             ELSE Minutes!Around(c, 10, minutes - 10)
    BY <1>2 DEF MinutesInv, Minutes!MarginsAreExact
  <2>3. CASE minutes < 10
    <3>1. minutes \in 0..9
      BY <1>1, <2>3
    <3> DEFINE V == Stretch(c[1], c[2], minutes, 0)
    <3>5. Minutes!Active(window) = V
      BY <2>2, <2>3, AroundIsStretch
    <3>6. window' = Minutes!Earlier(window)
      BY <1>0, <1>2, <2>3
    <3>7. {m \in Bits : m \in V \/ m + 1 \in V} = Stretch(c[1], c[2], minutes + 1, 0)
      BY <2>1, <3>1, StretchEarlier
    <3> HIDE DEF V
    <3>8. Minutes!Active(window') = {m \in Bits : m \in V \/ m + 1 \in V}
      BY <1>1, <3>5, <3>6, ActiveEarlier
    <3>2. Minutes!Active(window') = Minutes!Around(c, minutes + 1, 0)
      BY Zenon, <3>7, <3>8, AroundIsStretch
    <3>3. CASE minutes = 9
      BY <1>0, <3>2, <3>3, AroundIsStretch
    <3>4. CASE minutes # 9
      BY <1>0, <3>1, <3>2, <3>4
    <3> QED BY <3>3, <3>4
  <2>4. CASE ~(minutes < 10)
    <3>1. minutes - 10 \in 0..9 /\ ~(minutes' < 10) /\ minutes' - 10 = (minutes - 10) + 1
      BY <1>0, <1>1, <1>2, <2>4
    <3> DEFINE k == minutes - 10
    <3>2. Minutes!Active(window) = Minutes!Around(c, 10, k)
      BY <2>2, <2>4
    <3>3. window' = Minutes!Later(window)
      BY <1>0, <1>2, <2>4
    <3> HIDE DEF k
    <3>4. k \in 0..9
      BY <3>1 DEF k
    <3> DEFINE V == Stretch(c[1], c[2], 10, k)
    <3>6. Minutes!Active(window) = V
      BY <3>2, AroundIsStretch
    <3>7. {m \in DayMinutes : m \in V \/ m - 1 \in V} = Stretch(c[1], c[2], 10, k + 1)
      BY <2>1, <3>4, StretchLater
    <3> HIDE DEF V
    <3>8. Minutes!Active(window') = {m \in DayMinutes : m \in V \/ m - 1 \in V}
      BY <1>1, <3>3, <3>6, ActiveLater
    <3>5. Minutes!Active(window') = Minutes!Around(c, 10, k + 1)
      BY Zenon, <3>7, <3>8, AroundIsStretch
    <3> QED BY <3>1, <3>5 DEF k
  <2> QED BY <2>3, <2>4
<1>7. Minutes!MarginsAreExact'
  <2>1. Minutes!Active(bitmap)
          = UNION {Minutes!Around(e, Minutes!MARGIN, Minutes!MARGIN) : e \in times \ unmerged}
    BY DEF MinutesInv, Minutes!MarginsAreExact
  <2> QED BY <1>0, <1>2, <1>6, <2>1 DEF Minutes!MarginsAreExact, Minutes!Active
<1> QED BY <1>5, <1>7 DEF MinutesInv

\* Merge: the lesson with its margins joins the table of the day.
LEMMA MinutesMerge ==
  ASSUME MinutesInv, Minutes!Merge
  PROVE  MinutesInv'
<1>0. /\ lesson # {} /\ minutes = 2 * Minutes!MARGIN
      /\ bitmap' = [i \in Minutes!Word |-> bitmap[i] \cup window[i]]
      /\ unmerged' = unmerged \ lesson /\ lesson' = {} /\ window' = Minutes!Empty /\ minutes' = 0
      /\ times' = times
  BY DEF Minutes!Merge
<1>1. bitmap \in Minutes!Bitmap /\ window \in Minutes!Bitmap
  BY MinutesTypes DEF MinutesInv
<1>2. bitmap' \in Minutes!Bitmap
      /\ Minutes!Active(bitmap') = Minutes!Active(bitmap) \cup Minutes!Active(window)
  BY <1>0, <1>1, ActiveUnion
<1>3. Minutes!TypeOK'
  <2>1. 0 \in 0..20
    OBVIOUS
  <2> QED BY <1>0, <1>2, <2>1, MinutesTypes, MinutesTyped, ActiveEmpty DEF MinutesInv
<1>4. PICK c \in unmerged : lesson = {c}
  BY <1>0, MinutesTypes DEF MinutesInv
<1>5. Minutes!Active(window) = Minutes!Around(c, Minutes!MARGIN, Minutes!MARGIN)
  <2>1. ~(minutes < Minutes!MARGIN) /\ minutes - Minutes!MARGIN = Minutes!MARGIN
    BY <1>0 DEF Minutes!MARGIN
  <2> QED BY <1>4, <2>1 DEF MinutesInv, Minutes!MarginsAreExact
<1>6. times' \ unmerged' = (times \ unmerged) \cup {c}
  BY <1>0, <1>4, MinutesTypes DEF MinutesInv
<1>7. Minutes!MarginsAreExact'
  <2>1. Minutes!Active(bitmap)
          = UNION {Minutes!Around(e, Minutes!MARGIN, Minutes!MARGIN) : e \in times \ unmerged}
    BY DEF MinutesInv, Minutes!MarginsAreExact
  <2>2. Minutes!Active(bitmap')
          = UNION {Minutes!Around(e, Minutes!MARGIN, Minutes!MARGIN) : e \in times' \ unmerged'}
    BY <1>2, <1>5, <1>6, <2>1
  <2> QED BY <1>0, <2>2 DEF Minutes!MarginsAreExact, Minutes!Active
<1> QED BY <1>3, <1>7 DEF MinutesInv

\* Every step keeps the invariant, and so does the beginning; with it a page
\* can save what it was shown.
LEMMA MinutesStep ==
  ASSUME MinutesInv, Minutes!Next
  PROVE  MinutesInv'
<1>0. Raw \subseteq Nat \X Nat /\ Edit \subseteq Nat \X Nat
  BY DailyAssumption
<1>1. ASSUME NEW r \in Raw, NEW s \in Raw, times = {}, Minutes!SignTime({r, s}) PROVE MinutesInv'
  <2>1. \A q \in {r, s} : q \in Nat \X Nat /\ Minutes!Readable(q)
    BY <1>0, <1>1 DEF Minutes!SignTime
  <2>2. {Minutes!Lesson(q) : q \in {r, s}} \in SUBSET (DayMinutes \X DayEnds)
    BY <2>1, SignTimeTypes
  <2>3. lesson = {}
    BY <1>1, MinutesTypes DEF MinutesInv
  <2> QED BY <1>1, <2>2, <2>3, MinutesStored DEF Minutes!SignTime
<1>2. ASSUME NEW v \in Edit, unmerged = {}, Minutes!SavePage(v) PROVE MinutesInv'
  <2>1. lesson = {}
    BY <1>2, MinutesTypes DEF MinutesInv
  <2>2. times' \in SUBSET (DayMinutes \X DayEnds)
    BY <1>0, <1>2, SavePageTypes DEF MinutesInv
  <2>3. Minutes!Stored(times') /\ UNCHANGED <<lesson, window, minutes>>
    BY <1>2 DEF Minutes!SavePage, Minutes!Stored
  <2> QED BY <2>1, <2>2, <2>3, MinutesStored
<1> QED BY <1>1, <1>2, MinutesTake, MinutesExtend, MinutesMerge DEF Minutes!Next

\* At the start there is nothing to watch.
LEMMA MinutesBegin ==
  ASSUME Minutes!Init
  PROVE  MinutesInv
<1>1. times \ unmerged = {} /\ Minutes!Active(bitmap) = {}
  BY ActiveEmpty DEF Minutes!Init
<1>2. Minutes!TypeOK
  BY ActiveEmpty DEF Minutes!Init, Minutes!TypeOK, Minutes!MARGIN
<1> QED BY <1>1, <1>2 DEF MinutesInv, Minutes!MarginsAreExact, Minutes!Init

\* With the invariant the margins are exact and a page can save what it was shown.
LEMMA MinutesPromise ==
  ASSUME MinutesInv
  PROVE  Minutes!TypeOK /\ Minutes!MarginsAreExact /\ Minutes!PageAcceptsWhatItShows
<1>1. ASSUME NEW c \in times PROVE Minutes!Saveable(Minutes!View(c)) \/ c[1] >= c[2]
  <2>1. c \in DayMinutes \X DayEnds
    BY MinutesTypes DEF MinutesInv
  <2>2. Minutes!View(c) = c
    <3> DayMinutes \X DayEnds \subseteq DayEnds \X DayEnds
      BY DEF DayMinutes, DayEnds
    <3> QED BY <2>1, ViewIsSame
  <2>3. c[1] \in DayMinutes /\ c[2] \in DayEnds
    BY <2>1
  <2>4. \A x \in DayMinutes, y \in DayEnds :
            (x < Minutes!DAY /\ y <= Minutes!DAY /\ x < y) \/ x >= y
    BY DEF Minutes!DAY, DayMinutes, DayEnds
  <2>5. Minutes!Saveable(c) \/ c[1] >= c[2]
    BY Zenon, <2>3, <2>4 DEF Minutes!Saveable
  <2> QED BY <2>2, <2>5
<1> QED BY <1>1 DEF MinutesInv, Minutes!PageAcceptsWhatItShows

-----------------------------------------------------------------------------
\* The terms in which the notices are spoken of: those of Reminders.
USE DEF Notices!Time, Notices!AtMostOne

-----------------------------------------------------------------------------
(* What a tick may rely on: it began before now, and its warm-up is not    *)
(* over its time; nobody is tried but in a warm-up; a conclusion, kept or  *)
(* still being waited for, that is not what a session is now is from       *)
(* before the session became so, or from a warm-up that began before.      *)
ClockIsAhead ==
  /\ began <= now
  /\ tick_pc = "warm" => now <= began + WARM_TIME
  /\ \A k \in Cmd : since[k] <= now
  /\ tick_pc # "warm" => trying = {} /\ warmed = {}
ConclusionsArePast ==
  \A k \in Cmd, t \in Notices!Time :
    <<t, TRUE>> \in warm[k] \/ <<t, FALSE>> \in warm[k] => t <= now
ConclusionsAreOld ==
  \A k \in Cmd :
    /\ \A t \in Notices!Time :
          /\ <<t, FALSE>> \in warm[k] /\ k \in alive => t <= since[k] + WARM_TIME
          /\ <<t, TRUE>> \in warm[k] /\ k \notin alive => t <= since[k] + WARM_TIME
    /\ <<k, FALSE>> \in warmed /\ k \in alive => began <= since[k]
    /\ <<k, TRUE>> \in warmed /\ k \notin alive => began <= since[k]

(* Whoever had been as he is for long when the tick began is on the right  *)
(* side of it, or on the way there.                                        *)
BackIsServed ==
  \A k \in users \cap alive :
    since[k] + WARM_RETRY + WARM_TIME <= began => k \in ok \cup trying \/ <<k, TRUE>> \in warmed
LostIsNoted ==
  \A k \in users \ alive :
    since[k] + WARM_MAX_AGE + WARM_TIME <= began => k \in bad \cup trying \/ <<k, FALSE>> \in warmed
BadAreReminded == tick_pc = "idle" => bad \subseteq reminded

NoticesInv ==
  /\ Notices!TypeOK /\ Notices!ToldOnce
  /\ ClockIsAhead /\ ConclusionsArePast /\ ConclusionsAreOld
  /\ BackIsServed /\ LostIsNoted /\ BadAreReminded

\* The bounds and durations are numbers.
LEMMA NoticesNumbers ==
  /\ WARM_RETRY \in Nat /\ WARM_RETRY > 0 /\ WARM_MAX_AGE \in Nat /\ WARM_MAX_AGE > 0
  /\ WARM_TIME \in Nat /\ MaxTime \in Nat /\ MaxUpsets \in Nat
BY DailyAssumption

\* A part of what holds at most one thing holds at most one.
LEMMA PartOfAtMostOne ==
  ASSUME NEW S, NEW X \in Notices!AtMostOne(S), NEW Y \in SUBSET X
  PROVE  Y \in Notices!AtMostOne(S)
<1>1. CASE X = {}
  BY <1>1
<1>2. ASSUME NEW x \in S, X = {x} PROVE Y \in Notices!AtMostOne(S)
  <2>1. Y = {} \/ Y = {x}
    BY <1>2
  <2> QED BY <2>1
<1> QED BY <1>1, <1>2

-----------------------------------------------------------------------------
\* The variables of the notices keep their types, one step per action (warm_up,
\* send_reports, prune_caches).
LEMMA NoticesInitTypeOK == Notices!Init => Notices!TypeOK
<1> SUFFICES ASSUME Notices!Init PROVE Notices!TypeOK
  OBVIOUS
<1>1. 0 \in Notices!Time /\ 0 \in 0..MaxUpsets
  BY NoticesNumbers
<1> QED BY <1>1 DEF Notices!Init, Notices!TypeOK

\* The same of every step.
LEMMA NoticesNextTypeOK ==
  ASSUME Notices!TypeOK, Notices!Next PROVE Notices!TypeOK'
<1> USE DEF Notices!tables, Notices!tick
<1>1. CASE Notices!Tick
  <2>1. now' \in Notices!Time
    BY <1>1, NoticesNumbers DEF Notices!Tick, Notices!TypeOK
  <2> QED BY <1>1, <2>1 DEF Notices!Tick, Notices!TypeOK
<1>2. ASSUME NEW k \in Cmd, Notices!Upset(k)
      PROVE  upsets' \in 0..MaxUpsets /\ since' \in [Cmd -> Notices!Time]
  BY <1>2, NoticesNumbers DEF Notices!Upset, Notices!TypeOK
<1>3. ASSUME NEW k \in Cmd, Notices!Turns(k) PROVE Notices!TypeOK'
  BY <1>2, <1>3 DEF Notices!Turns, Notices!TypeOK
<1>4. ASSUME NEW U \in SUBSET Cmd, Notices!TickBegin(U) PROVE Notices!TypeOK'
  <2>1. \A k \in Cmd : Notices!Recent(k) \in Notices!AtMostOne(Notices!Time)
    BY PartOfAtMostOne DEF Notices!Recent, Notices!TypeOK
  <2>2. \A k \in Cmd : Notices!Kept(k) \in Notices!AtMostOne(Notices!Time \X BOOLEAN)
    BY PartOfAtMostOne DEF Notices!Kept, Notices!TypeOK
  <2>3. now \in Notices!Time
    BY DEF Notices!TypeOK
  <2>4. last' \in [Cmd -> Notices!AtMostOne(Notices!Time)]
    BY <1>4, <2>1, <2>3 DEF Notices!TickBegin
  <2>5. warm' \in [Cmd -> Notices!AtMostOne(Notices!Time \X BOOLEAN)]
    BY <1>4, <2>2 DEF Notices!TickBegin
  <2>6. users' \subseteq Cmd /\ ok' \subseteq users' /\ bad' \subseteq users'
    BY <1>4 DEF Notices!TickBegin
  <2>7. trying' \subseteq users' \ (ok' \cup bad') /\ warmed' = {}
    BY <1>4 DEF Notices!TickBegin
  <2> QED BY <1>4, <2>4, <2>5, <2>6, <2>7 DEF Notices!TickBegin, Notices!TypeOK
<1>5. ASSUME NEW k \in Cmd, Notices!Try(k) PROVE Notices!TypeOK'
  <2>1. upsets' \in 0..MaxUpsets /\ since' \in [Cmd -> Notices!Time]
    BY <1>2, <1>5 DEF Notices!Try, Notices!TypeOK
  <2>2. trying' = trying \ {k} /\ k \in users /\ k \notin trying'
    BY <1>5 DEF Notices!Try, Notices!TypeOK
  <2>3. warmed' = warmed \cup {<<k, k \in alive>>} \/ warmed' = warmed \cup {<<k, FALSE>>}
    BY <1>5 DEF Notices!Try
  <2>4. warmed' \subseteq (users \ trying') \X BOOLEAN
    <3>1. warmed \subseteq (users \ trying) \X BOOLEAN
      BY DEF Notices!TypeOK
    <3>2. \A good \in BOOLEAN : <<k, good>> \in (users \ trying') \X BOOLEAN
      BY <2>2
    <3>4. warmed \subseteq (users \ trying') \X BOOLEAN
      BY <2>2, <3>1
    <3>5. warmed' \subseteq warmed \cup {<<k, TRUE>>, <<k, FALSE>>}
      <4>1. (k \in alive) = TRUE \/ (k \in alive) = FALSE
        OBVIOUS
      <4> QED BY Zenon, <2>3, <4>1
    <3> QED BY <3>2, <3>4, <3>5
  <2> QED BY <1>5, <2>1, <2>2, <2>4 DEF Notices!Try, Notices!TypeOK
<1>6. ASSUME NEW U \in SUBSET Cmd, Notices!SeenAlive(U)
      PROVE  reminded' \subseteq Cmd /\ notices' \in [Cmd -> Nat]
  BY <1>6 DEF Notices!SeenAlive, Notices!TypeOK
<1>7. CASE Notices!WarmUp
  <2> DEFINE good == {k \in Cmd : <<k, TRUE>> \in warmed}
             lost == {k \in Cmd : <<k, FALSE>> \in warmed}
  <2>1. good \subseteq users /\ lost \subseteq users /\ good \in SUBSET Cmd
    BY DEF Notices!TypeOK
  <2>2. /\ warm' = [k \in Cmd |-> IF k \in good \cup lost THEN {<<now, k \in good>>} ELSE warm[k]]
        /\ ok' = ok \cup good /\ bad' = bad \cup lost /\ warmed' = {}
        /\ Notices!SeenAlive(good) /\ trying = {} /\ trying' = trying /\ tick_pc' = "work"
        /\ UNCHANGED <<now, alive, last, began, users, upsets, since>>
    BY <1>7 DEF Notices!WarmUp
  <2> HIDE DEF good, lost
  <2>3. warm' \in [Cmd -> Notices!AtMostOne(Notices!Time \X BOOLEAN)]
    <3> SUFFICES ASSUME NEW k \in Cmd
                 PROVE  warm'[k] \in Notices!AtMostOne(Notices!Time \X BOOLEAN)
      BY <2>2
    <3>1. CASE k \in good \cup lost
      <4>1. warm'[k] = {<<now, TRUE>>} \/ warm'[k] = {<<now, FALSE>>}
        <5>1. warm'[k] = {<<now, k \in good>>}
          BY <2>2, <3>1
        <5>2. (k \in good) = TRUE \/ (k \in good) = FALSE
          OBVIOUS
        <5> QED BY Zenon, <5>1, <5>2
      <4>2. \A b \in BOOLEAN : <<now, b>> \in Notices!Time \X BOOLEAN
        BY DEF Notices!TypeOK
      <4> QED BY <4>1, <4>2
    <3>2. CASE k \notin good \cup lost
      BY <2>2, <3>2 DEF Notices!TypeOK
    <3> QED BY <3>1, <3>2
  <2> QED BY <1>6, <2>1, <2>2, <2>3 DEF Notices!TypeOK
<1>8. ASSUME NEW k \in Cmd, Notices!Ask(k) PROVE Notices!TypeOK'
  <2>1. upsets' \in 0..MaxUpsets /\ since' \in [Cmd -> Notices!Time]
    BY <1>2, <1>8 DEF Notices!Ask, Notices!TypeOK
  <2>2. reminded' \subseteq Cmd /\ notices' \in [Cmd -> Nat]
    <3>1. CASE Notices!SeenAlive({k})
      BY <1>6, <3>1
    <3>2. CASE UNCHANGED <<reminded, notices>>
      BY <3>2 DEF Notices!TypeOK
    <3> QED BY <1>8, <3>1, <3>2 DEF Notices!Ask
  <2>3. /\ warm' = warm \/ warm' = [warm EXCEPT ![k] = {<<now, FALSE>>}]
        /\ bad' = bad \/ bad' = bad \cup {k}
        /\ k \in ok
    BY <1>8 DEF Notices!Ask
  <2>4. bad' \subseteq users /\ k \notin trying
    BY <2>3 DEF Notices!TypeOK
  <2>5. <<now, FALSE>> \in Notices!Time \X BOOLEAN
    BY DEF Notices!TypeOK
  <2>6. warm' \in [Cmd -> Notices!AtMostOne(Notices!Time \X BOOLEAN)]
    <3>1. warm \in [Cmd -> Notices!AtMostOne(Notices!Time \X BOOLEAN)]
      BY DEF Notices!TypeOK
    <3> QED BY <2>3, <2>5, <3>1
  <2> QED BY <1>8, <2>1, <2>2, <2>3, <2>4, <2>6 DEF Notices!Ask, Notices!TypeOK
<1>9. CASE Notices!SendReports
  BY <1>9 DEF Notices!SendReports, Notices!TypeOK
<1>10. CASE Notices!Restart
  BY <1>10 DEF Notices!Restart, Notices!TypeOK
<1> QED BY <1>1, <1>3, <1>4, <1>5, <1>7, <1>8, <1>9, <1>10 DEF Notices!Next

-----------------------------------------------------------------------------
\* Who is in NOTLOGIN_REMINDED has been told once, in every step.
LEMMA NoticesNextToldOnce ==
  ASSUME Notices!TypeOK, Notices!ToldOnce, Notices!Next PROVE Notices!ToldOnce'
<1> USE DEF Notices!tables, Notices!tick
<1>0. notices \in [Cmd -> Nat] /\ bad \subseteq Cmd
  BY DEF Notices!TypeOK
<1>1. ASSUME UNCHANGED <<reminded, notices>> PROVE Notices!ToldOnce'
  BY <1>1 DEF Notices!ToldOnce
<1>2. ASSUME NEW U \in SUBSET Cmd, Notices!SeenAlive(U) PROVE Notices!ToldOnce'
  BY <1>0, <1>2 DEF Notices!SeenAlive, Notices!ToldOnce
<1>3. CASE Notices!WarmUp
  <2> DEFINE good == {k \in Cmd : <<k, TRUE>> \in warmed}
  <2>1. good \in SUBSET Cmd /\ Notices!SeenAlive(good)
    BY <1>3 DEF Notices!WarmUp
  <2> HIDE DEF good
  <2> QED BY <1>2, <2>1
<1>4. ASSUME NEW k \in Cmd, Notices!Ask(k) PROVE Notices!ToldOnce'
  BY <1>1, <1>2, <1>4 DEF Notices!Ask
<1>5. CASE Notices!SendReports
  BY <1>0, <1>5 DEF Notices!SendReports, Notices!ToldOnce
<1>6. CASE Notices!Restart
  BY <1>6 DEF Notices!Restart, Notices!ToldOnce
<1>7. CASE Notices!Tick
  BY <1>1, <1>7 DEF Notices!Tick
<1>8. ASSUME NEW k \in Cmd, Notices!Turns(k) PROVE Notices!ToldOnce'
  BY <1>1, <1>8 DEF Notices!Turns
<1>9. ASSUME NEW k \in Cmd, Notices!Try(k) PROVE Notices!ToldOnce'
  BY <1>1, <1>9 DEF Notices!Try
<1>10. ASSUME NEW U \in SUBSET Cmd, Notices!TickBegin(U) PROVE Notices!ToldOnce'
  BY <1>1, <1>10 DEF Notices!TickBegin
<1> QED BY <1>3, <1>4, <1>5, <1>6, <1>7, <1>8, <1>9, <1>10 DEF Notices!Next

\* What an action makes of the conclusions on sessions.
LEMMA WarmAfter ==
  ASSUME Notices!TypeOK, Notices!Next, NEW u \in Cmd, NEW t \in Notices!Time
  PROVE  /\ <<t, TRUE>> \in warm'[u] =>
              <<t, TRUE>> \in warm[u] \/ (t = now /\ Notices!WarmUp /\ <<u, TRUE>> \in warmed)
         /\ <<t, FALSE>> \in warm'[u] =>
              \/ <<t, FALSE>> \in warm[u]
              \/ t = now /\ Notices!WarmUp /\ <<u, FALSE>> \in warmed
              \/ t = now /\ Notices!Ask(u) /\ (u \in alive => Notices!Upset(u))
<1> USE DEF Notices!tables, Notices!tick
<1>0. warm \in [Cmd -> Notices!AtMostOne(Notices!Time \X BOOLEAN)]
  BY DEF Notices!TypeOK
<1>1. CASE UNCHANGED warm
  BY <1>1
<1>2. ASSUME NEW U \in SUBSET Cmd, Notices!TickBegin(U)
      PROVE  warm'[u] \subseteq warm[u]
  BY <1>2 DEF Notices!TickBegin, Notices!Kept
<1>3. CASE Notices!WarmUp
  <2> DEFINE good == {k \in Cmd : <<k, TRUE>> \in warmed}
             lost == {k \in Cmd : <<k, FALSE>> \in warmed}
  <2>1. warm'[u] = IF u \in good \cup lost THEN {<<now, u \in good>>} ELSE warm[u]
    BY <1>3 DEF Notices!WarmUp
  <2>2. CASE u \in good
    <3>1. (u \in good) = TRUE
      BY <2>2
    <3>2. warm'[u] = {<<now, TRUE>>}
      BY Zenon, <2>1, <2>2, <3>1
    <3> QED BY <1>3, <2>2, <3>2
  <2>3. CASE u \in lost \ good
    <3>1. (u \in good) = FALSE
      BY <2>3
    <3>2. warm'[u] = {<<now, FALSE>>}
      BY Zenon, <2>1, <2>3, <3>1
    <3> QED BY <1>3, <2>3, <3>2
  <2>4. CASE u \notin good \cup lost
    BY <2>1, <2>4
  <2> QED BY <2>2, <2>3, <2>4
<1>4. ASSUME NEW k \in Cmd, Notices!Ask(k)
      PROVE  \/ UNCHANGED warm
             \/ /\ warm' = [warm EXCEPT ![k] = {<<now, FALSE>>}]
                /\ k \in alive => Notices!Upset(k)
  BY <1>4 DEF Notices!Ask
<1>5. ASSUME NEW k \in Cmd, Notices!Ask(k), warm' = [warm EXCEPT ![k] = {<<now, FALSE>>}],
             k \in alive => Notices!Upset(k)
      PROVE  /\ <<t, TRUE>> \in warm'[u] => <<t, TRUE>> \in warm[u]
             /\ <<t, FALSE>> \in warm'[u] =>
                  \/ <<t, FALSE>> \in warm[u]
                  \/ t = now /\ Notices!Ask(u) /\ (u \in alive => Notices!Upset(u))
  <2>1. CASE u = k
    <3>1. warm'[u] = {<<now, FALSE>>}
      BY <1>0, <1>5, <2>1
    <3> QED BY <1>5, <2>1, <3>1
  <2>2. CASE u # k
    <3>1. warm'[u] = warm[u]
      BY <1>0, <1>5, <2>2
    <3> QED BY <3>1
  <2> QED BY <2>1, <2>2
<1>6. Notices!Tick \/ Notices!SendReports => UNCHANGED warm
  BY DEF Notices!Tick, Notices!SendReports
<1>7. \A k \in Cmd : Notices!Turns(k) \/ Notices!Try(k) => UNCHANGED warm
  BY DEF Notices!Turns, Notices!Try
<1>8. CASE Notices!Restart
  <2>1. warm'[u] = {}
    BY <1>8 DEF Notices!Restart
  <2> QED BY <2>1
<1> QED BY <1>1, <1>2, <1>3, <1>4, <1>5, <1>6, <1>7, <1>8 DEF Notices!Next

\* A warm-up stays within its time, and what it tries is over with it.
LEMMA NextClock ==
  ASSUME Notices!TypeOK, ClockIsAhead, Notices!Next PROVE ClockIsAhead'
<1> USE DEF Notices!tables, Notices!tick
<1>0. /\ now \in Nat /\ began \in Nat /\ since \in [Cmd -> Nat] /\ WARM_TIME \in Nat
      /\ tick_pc \in {"idle", "warm", "work"}
  BY NoticesNumbers DEF Notices!TypeOK
<1>1. ASSUME NEW k \in Cmd, Notices!Upset(k), now' = now
      PROVE  \A j \in Cmd : since'[j] <= now'
  BY <1>0, <1>1 DEF Notices!Upset, ClockIsAhead
<1>2. CASE Notices!Tick
  BY <1>0, <1>2 DEF Notices!Tick, ClockIsAhead
<1>3. ASSUME NEW k \in Cmd, Notices!Turns(k) PROVE ClockIsAhead'
  BY <1>0, <1>1, <1>3 DEF Notices!Turns, ClockIsAhead
<1>4. ASSUME NEW U \in SUBSET Cmd, Notices!TickBegin(U) PROVE ClockIsAhead'
  BY <1>0, <1>4 DEF Notices!TickBegin, ClockIsAhead
<1>5. ASSUME NEW k \in Cmd, Notices!Try(k) PROVE ClockIsAhead'
  <2>1. tick_pc = "warm"
    BY <1>5 DEF Notices!Try, ClockIsAhead
  <2> QED BY <1>0, <1>1, <1>5, <2>1 DEF Notices!Try, ClockIsAhead
<1>6. CASE Notices!WarmUp
  BY <1>0, <1>6 DEF Notices!WarmUp, ClockIsAhead
<1>7. ASSUME NEW k \in Cmd, Notices!Ask(k) PROVE ClockIsAhead'
  BY <1>0, <1>1, <1>7 DEF Notices!Ask, ClockIsAhead
<1>8. CASE Notices!SendReports
  BY <1>0, <1>8 DEF Notices!SendReports, ClockIsAhead
<1>9. CASE Notices!Restart
  BY <1>0, <1>9 DEF Notices!Restart, ClockIsAhead
<1> QED BY <1>2, <1>3, <1>4, <1>5, <1>6, <1>7, <1>8, <1>9 DEF Notices!Next

\* Conclusions are dated when they are drawn.
LEMMA NextPast ==
  ASSUME Notices!TypeOK, ConclusionsArePast, Notices!Next PROVE ConclusionsArePast'
<1> SUFFICES ASSUME NEW k \in Cmd, NEW t \in Notices!Time,
                    <<t, TRUE>> \in warm'[k] \/ <<t, FALSE>> \in warm'[k]
             PROVE  t <= now'
  BY DEF ConclusionsArePast
<1>1. t <= now
  <2>1. <<t, TRUE>> \in warm[k] \/ <<t, FALSE>> \in warm[k] \/ t = now
    BY WarmAfter
  <2>2. now \in Nat
    BY NoticesNumbers DEF Notices!TypeOK
  <2>3. <<t, TRUE>> \in warm[k] \/ <<t, FALSE>> \in warm[k] => t <= now
    BY Zenon DEF ConclusionsArePast
  <2>4. t = now => t <= now
    BY <2>2
  <2> QED BY Zenon, <2>1, <2>3, <2>4
<1>2. now' \in Nat /\ now \in Nat /\ now <= now'
  <2>1. now' = now + 1 \/ now' = now
    BY DEF Notices!Next, Notices!Tick, Notices!WarmUp, Notices!SendReports, Notices!Restart,
           Notices!TickBegin, Notices!Turns, Notices!Try, Notices!Ask
  <2>2. now \in Nat
    BY NoticesNumbers DEF Notices!TypeOK
  <2> QED BY <2>1, <2>2
<1>3. t \in Nat
  BY NoticesNumbers
<1> QED BY <1>1, <1>2, <1>3

\* A conclusion that is not what the session is now stays an old one: what a
\* session is changes at a time that is noted.
LEMMA SinceAfter ==
  ASSUME Notices!TypeOK, ClockIsAhead, Notices!Next, NEW u \in Cmd
  PROVE  \/ (u \in alive' <=> u \in alive) /\ since'[u] = since[u]
         \/ since'[u] = now
<1>0. since \in [Cmd -> Nat]
  BY NoticesNumbers DEF Notices!TypeOK
<1>1. ASSUME NEW k \in Cmd, Notices!Upset(k)
      PROVE  since'[u] = now \/ (k # u /\ since'[u] = since[u])
  BY <1>0, <1>1 DEF Notices!Upset
<1>2. ASSUME NEW k \in Cmd, Notices!Turns(k)
      PROVE  \/ (u \in alive' <=> u \in alive) /\ since'[u] = since[u]
             \/ since'[u] = now
  BY <1>1, <1>2 DEF Notices!Turns
<1>3. ASSUME NEW k \in Cmd, Notices!Try(k) \/ Notices!Ask(k)
      PROVE  \/ (u \in alive' <=> u \in alive) /\ since'[u] = since[u]
             \/ since'[u] = now
  BY <1>1, <1>3 DEF Notices!Try, Notices!Ask
<1>4. ASSUME UNCHANGED <<alive, since>>
      PROVE  (u \in alive' <=> u \in alive) /\ since'[u] = since[u]
  BY <1>4
<1> QED BY <1>2, <1>3, <1>4 DEF Notices!Next, Notices!Tick, Notices!WarmUp, Notices!SendReports,
        Notices!Restart, Notices!TickBegin

\* A conclusion that is not what the session is now stays old in every step.
LEMMA NextConclusions ==
  ASSUME Notices!TypeOK, ClockIsAhead, ConclusionsArePast, ConclusionsAreOld, Notices!Next
  PROVE  ConclusionsAreOld'
<1> SUFFICES ASSUME NEW u \in Cmd
             PROVE  /\ \A t \in Notices!Time :
                          /\ <<t, FALSE>> \in warm'[u] /\ u \in alive' => t <= since'[u] + WARM_TIME
                          /\ <<t, TRUE>> \in warm'[u] /\ u \notin alive' => t <= since'[u] + WARM_TIME
                    /\ <<u, FALSE>> \in warmed' /\ u \in alive' => began' <= since'[u]
                    /\ <<u, TRUE>> \in warmed' /\ u \notin alive' => began' <= since'[u]
  BY DEF ConclusionsAreOld
<1>0. /\ now \in Nat /\ began \in Nat /\ since[u] \in Nat /\ WARM_TIME \in Nat
      /\ \A t \in Notices!Time : t \in Nat
  BY NoticesNumbers DEF Notices!TypeOK
<1>a. /\ \A t \in Notices!Time :
            /\ <<t, FALSE>> \in warm[u] /\ u \in alive => t <= since[u] + WARM_TIME
            /\ <<t, TRUE>> \in warm[u] /\ u \notin alive => t <= since[u] + WARM_TIME
      /\ <<u, FALSE>> \in warmed /\ u \in alive => began <= since[u]
      /\ <<u, TRUE>> \in warmed /\ u \notin alive => began <= since[u]
  BY DEF ConclusionsAreOld
<1>b. began <= now /\ (tick_pc = "warm" => now <= began + WARM_TIME)
  BY DEF ClockIsAhead
<1>1. ASSUME NEW t \in Notices!Time, <<t, TRUE>> \in warm'[u], u \notin alive'
      PROVE  t <= since'[u] + WARM_TIME
  <2>1. <<t, TRUE>> \in warm[u] \/ (t = now /\ Notices!WarmUp /\ <<u, TRUE>> \in warmed)
    BY <1>1, WarmAfter
  <2>2. t <= now
    <3>1. <<t, TRUE>> \in warm[u] => t <= now
      BY Zenon DEF ConclusionsArePast
    <3>2. t = now => t <= now
      BY <1>0
    <3> QED BY Zenon, <2>1, <3>1, <3>2
  <2>3. CASE since'[u] = now
    BY <1>0, <2>2, <2>3
  <2>4. CASE u \notin alive /\ since'[u] = since[u]
    <3>1. CASE <<t, TRUE>> \in warm[u]
      BY <1>a, <2>4, <3>1
    <3>2. CASE t = now /\ Notices!WarmUp /\ <<u, TRUE>> \in warmed
      <4>1. now <= began + WARM_TIME /\ began <= since[u]
        BY <1>a, <1>b, <2>4, <3>2 DEF Notices!WarmUp
      <4> QED BY <1>0, <2>4, <3>2, <4>1
    <3> QED BY <2>1, <3>1, <3>2
  <2> QED BY <1>1, <2>3, <2>4, SinceAfter
<1>2. ASSUME NEW t \in Notices!Time, <<t, FALSE>> \in warm'[u], u \in alive'
      PROVE  t <= since'[u] + WARM_TIME
  <2>1. \/ <<t, FALSE>> \in warm[u]
        \/ t = now /\ Notices!WarmUp /\ <<u, FALSE>> \in warmed
        \/ t = now /\ Notices!Ask(u) /\ (u \in alive => Notices!Upset(u))
    BY <1>2, WarmAfter
  <2>2. t <= now
    <3>1. <<t, FALSE>> \in warm[u] => t <= now
      BY Zenon DEF ConclusionsArePast
    <3>2. t = now => t <= now
      BY <1>0
    <3> QED BY Zenon, <2>1, <3>1, <3>2
  <2>3. CASE since'[u] = now
    BY <1>0, <2>2, <2>3
  <2>4. CASE u \in alive /\ since'[u] = since[u]
    <3>1. CASE <<t, FALSE>> \in warm[u]
      BY <1>a, <2>4, <3>1
    <3>2. CASE t = now /\ Notices!WarmUp /\ <<u, FALSE>> \in warmed
      <4>1. now <= began + WARM_TIME /\ began <= since[u]
        BY <1>a, <1>b, <2>4, <3>2 DEF Notices!WarmUp
      <4> QED BY <1>0, <2>4, <3>2, <4>1
    <3>3. CASE Notices!Upset(u)
      <4>1. since'[u] = now
        BY <3>3 DEF Notices!Upset, Notices!TypeOK
      <4> QED BY <2>3, <4>1
    <3> QED BY <2>1, <2>4, <3>1, <3>2, <3>3
  <2> QED BY <1>2, <2>3, <2>4, SinceAfter
\* Those whose warm-up came back differently than it would now.
<1>3. \/ \A good : <<u, good>> \in warmed' => <<u, good>> \in warmed /\ began' = began
      \/ /\ Notices!Try(u) /\ began' = began
         /\ <<u, TRUE>> \in warmed' => <<u, TRUE>> \in warmed \/ u \in alive
         /\ <<u, FALSE>> \in warmed' =>
              <<u, FALSE>> \in warmed \/ u \notin alive \/ Notices!Upset(u)
  <2>1. ASSUME warmed' = {} \/ (warmed' = warmed /\ began' = began)
        PROVE  \A good : <<u, good>> \in warmed' => <<u, good>> \in warmed /\ began' = began
    BY <2>1
  <2>2. ASSUME NEW k \in Cmd, Notices!Try(k), k # u
        PROVE  \A good : <<u, good>> \in warmed' => <<u, good>> \in warmed /\ began' = began
    <3>1. PICK b : warmed' = warmed \cup {<<k, b>>}
      BY Zenon, <2>2 DEF Notices!Try
    <3>2. began' = began
      BY <2>2 DEF Notices!Try
    <3> QED BY <2>2, <3>1, <3>2
  <2>3. ASSUME Notices!Try(u)
        PROVE  /\ began' = began
               /\ <<u, TRUE>> \in warmed' => <<u, TRUE>> \in warmed \/ u \in alive
               /\ <<u, FALSE>> \in warmed' =>
                    <<u, FALSE>> \in warmed \/ u \notin alive \/ Notices!Upset(u)
    <3>1. began' = began
      BY <2>3 DEF Notices!Try
    <3>2. CASE warmed' = warmed \cup {<<u, u \in alive>>}
      <4>1. CASE u \in alive
        <5>1. (u \in alive) = TRUE
          BY <4>1
        <5>2. warmed' = warmed \cup {<<u, TRUE>>}
          BY Zenon, <3>2, <5>1
        <5> QED BY <3>1, <4>1, <5>2
      <4>2. CASE u \notin alive
        <5>1. (u \in alive) = FALSE
          BY <4>2
        <5>2. warmed' = warmed \cup {<<u, FALSE>>}
          BY Zenon, <3>2, <5>1
        <5> QED BY <3>1, <4>2, <5>2
      <4> QED BY <4>1, <4>2
    <3>3. CASE Notices!Upset(u) /\ warmed' = warmed \cup {<<u, FALSE>>}
      BY <3>1, <3>3
    <3> QED BY <2>3, <3>2, <3>3 DEF Notices!Try
  <2> USE DEF Notices!tables, Notices!tick
  <2>4. Notices!Tick \/ Notices!SendReports => warmed' = warmed /\ began' = began
    BY DEF Notices!Tick, Notices!SendReports
  <2>5. Notices!WarmUp \/ Notices!Restart \/ (\E U \in SUBSET Cmd : Notices!TickBegin(U)) => warmed' = {}
    BY DEF Notices!WarmUp, Notices!Restart, Notices!TickBegin
  <2>6. \A k \in Cmd : Notices!Turns(k) \/ Notices!Ask(k) => warmed' = warmed /\ began' = began
    BY DEF Notices!Turns, Notices!Ask
  <2> QED BY Zenon, <2>1, <2>2, <2>3, <2>4, <2>5, <2>6 DEF Notices!Next
<1>4. ASSUME <<u, TRUE>> \in warmed', u \notin alive' PROVE began' <= since'[u]
  <2>1. began' = began
    BY <1>3, <1>4
  <2>2. CASE since'[u] = now
    BY <1>b, <2>1, <2>2
  <2>3. CASE u \notin alive /\ since'[u] = since[u]
    BY <1>3, <1>4, <1>a, <2>1, <2>3
  <2> QED BY <1>4, <2>2, <2>3, SinceAfter
<1>5. ASSUME <<u, FALSE>> \in warmed', u \in alive' PROVE began' <= since'[u]
  <2>1. began' = began
    BY <1>3, <1>5
  <2>2. CASE since'[u] = now
    BY <1>b, <2>1, <2>2
  <2>3. CASE u \in alive /\ since'[u] = since[u]
    <3>1. CASE Notices!Upset(u)
      <4>1. since'[u] = now
        BY <3>1 DEF Notices!Upset, Notices!TypeOK
      <4> QED BY <2>2, <4>1
    <3> QED BY <1>3, <1>5, <1>a, <2>1, <2>3, <3>1
  <2> QED BY <1>5, <2>2, <2>3, SinceAfter
<1> QED BY <1>1, <1>2, <1>4, <1>5

\* Who turned, or failed, since a tick began had not been as he is for long.
LEMMA LongBefore ==
  ASSUME Notices!TypeOK, ClockIsAhead, Notices!Next, NEW u \in Cmd,
         NEW D \in Nat \ {0}, since'[u] + D + WARM_TIME <= began'
  PROVE  \/ \E U \in SUBSET Cmd : Notices!TickBegin(U)
         \/ /\ began' = began /\ since'[u] = since[u] /\ (u \in alive' <=> u \in alive)
            /\ ~Notices!Upset(u)
<1> USE DEF Notices!tables, Notices!tick
<1>1. now \in Nat /\ began \in Nat /\ WARM_TIME \in Nat /\ began <= now
  BY NoticesNumbers DEF Notices!TypeOK, ClockIsAhead
<1>2. ASSUME ~\E U \in SUBSET Cmd : Notices!TickBegin(U) PROVE began' = began
  BY <1>2 DEF Notices!Next, Notices!Tick, Notices!WarmUp, Notices!SendReports, Notices!Restart,
              Notices!Turns, Notices!Try, Notices!Ask
<1>3. began' = began => since'[u] # now
  BY <1>1
<1>4. Notices!Upset(u) => since'[u] = now
  BY DEF Notices!Upset, Notices!TypeOK
<1> QED BY <1>2, <1>3, <1>4, SinceAfter

\* A user who has been logged in for long is not skipped when a tick begins.
LEMMA LongBackIsTried ==
  ASSUME Notices!TypeOK, ConclusionsAreOld, NEW U \in SUBSET Cmd, Notices!TickBegin(U),
         NEW u \in U, u \in alive, since[u] + WARM_RETRY + WARM_TIME <= now
  PROVE  u \in ok' \cup trying'
<1>0. /\ now \in Nat /\ since[u] \in Nat /\ \A t \in Notices!Time : t \in Nat
      /\ warm[u] \in Notices!AtMostOne(Notices!Time \X BOOLEAN)
  BY NoticesNumbers DEF Notices!TypeOK
<1>1. Notices!WarmDecision(u) # "skip"
  <2> SUFFICES ASSUME NEW w \in Notices!Kept(u), ~w[2], now - w[1] < WARM_RETRY PROVE FALSE
    BY DEF Notices!WarmDecision
  <2>1. w \in warm[u] /\ w \in Notices!Time \X BOOLEAN
    BY <1>0 DEF Notices!Kept
  <2>2. w[2] = FALSE /\ w[1] \in Notices!Time /\ w = <<w[1], w[2]>>
    BY <2>1
  <2>3. <<w[1], FALSE>> \in warm[u]
    BY Zenon, <2>1, <2>2
  <2>4. w[1] <= since[u] + WARM_TIME
    BY Zenon, <2>2, <2>3 DEF ConclusionsAreOld
  <2> QED BY <1>0, <2>2, <2>4, NoticesNumbers
<1>2. Notices!WarmDecision(u) \in {"reuse", "skip", "warm"}
  BY DEF Notices!WarmDecision
<1> QED BY <1>1, <1>2 DEF Notices!TickBegin

\* A user whose session was lost for long is not served unseen.
LEMMA LongLostIsTried ==
  ASSUME Notices!TypeOK, ConclusionsAreOld, NEW U \in SUBSET Cmd, Notices!TickBegin(U),
         NEW u \in U, u \notin alive, since[u] + WARM_MAX_AGE + WARM_TIME <= now
  PROVE  u \in bad' \cup trying'
<1>0. /\ now \in Nat /\ since[u] \in Nat /\ \A t \in Notices!Time : t \in Nat
      /\ warm[u] \in Notices!AtMostOne(Notices!Time \X BOOLEAN)
  BY NoticesNumbers DEF Notices!TypeOK
<1>w. \A w \in Notices!Kept(u) :
        /\ w \in warm[u] /\ w[1] \in Notices!Time /\ w = <<w[1], w[2]>>
        /\ w[2] = TRUE \/ w[2] = FALSE
  BY <1>0 DEF Notices!Kept
<1>1. Notices!WarmDecision(u) # "reuse"
  <2> SUFFICES ASSUME NEW w \in Notices!Kept(u), w[2], now - w[1] < WARM_MAX_AGE PROVE FALSE
    BY DEF Notices!WarmDecision
  <2>1. w \in warm[u] /\ w[1] \in Notices!Time /\ w = <<w[1], w[2]>>
    BY Zenon, <1>w
  <2>2. w[2] = TRUE
    BY Zenon, <1>w
  <2>3. <<w[1], TRUE>> \in warm[u]
    BY Zenon, <2>1, <2>2
  <2>4. w[1] <= since[u] + WARM_TIME
    BY Zenon, <2>1, <2>3 DEF ConclusionsAreOld
  <2> QED BY <1>0, <2>1, <2>4, NoticesNumbers
<1>2. Notices!WarmDecision(u) \in {"reuse", "skip", "warm"}
  BY DEF Notices!WarmDecision
<1> QED BY <1>1, <1>2 DEF Notices!TickBegin

\* Where a user of the tick is after a step: who comes out of a warm-up goes to
\* the side of what came out, and nobody leaves his side.
LEMMA SidesAfter ==
  ASSUME Notices!TypeOK, ClockIsAhead, Notices!Next, ~\E U \in SUBSET Cmd : Notices!TickBegin(U),
         NEW u \in users'
  PROVE  /\ u \in users
         /\ ok \subseteq ok' /\ bad \subseteq bad'
         /\ <<u, TRUE>> \in warmed => <<u, TRUE>> \in warmed' \/ u \in ok'
         /\ <<u, FALSE>> \in warmed => <<u, FALSE>> \in warmed' \/ u \in bad'
         /\ u \in trying => \/ u \in trying'
                            \/ Notices!Upset(u)
                            \/ u \in alive /\ <<u, TRUE>> \in warmed'
                            \/ u \notin alive /\ <<u, FALSE>> \in warmed'
<1> USE DEF Notices!tables, Notices!tick
<1>0. u \in Cmd /\ users \subseteq Cmd
  <2>1. users' = users \/ users' = {}
    BY DEF Notices!Next, Notices!Tick, Notices!WarmUp, Notices!SendReports, Notices!Restart,
           Notices!Turns, Notices!Try, Notices!Ask
  <2> QED BY <2>1 DEF Notices!TypeOK
<1>1. CASE UNCHANGED <<users, ok, bad, trying, warmed>>
  BY <1>1
<1>2. ASSUME NEW k \in Cmd, Notices!Try(k)
      PROVE  /\ users' = users /\ ok' = ok /\ bad' = bad /\ warmed \subseteq warmed'
             /\ trying' = trying \ {k}
             /\ \/ Notices!Upset(k)
                \/ k \in alive /\ <<k, TRUE>> \in warmed'
                \/ k \notin alive /\ <<k, FALSE>> \in warmed'
  <2>1. /\ users' = users /\ ok' = ok /\ bad' = bad /\ trying' = trying \ {k}
    BY <1>2 DEF Notices!Try
  <2>2. \/ warmed' = warmed \cup {<<k, k \in alive>>}
        \/ Notices!Upset(k) /\ warmed' = warmed \cup {<<k, FALSE>>}
    BY <1>2 DEF Notices!Try
  <2>3. CASE k \in alive
    <3>1. (k \in alive) = TRUE
      BY <2>3
    <3>2. Notices!Upset(k) \/ warmed' = warmed \cup {<<k, TRUE>>}
      BY Zenon, <2>2, <3>1
    <3> QED BY <2>1, <2>2, <2>3, <3>2
  <2>4. CASE k \notin alive
    <3>1. (k \in alive) = FALSE
      BY <2>4
    <3>2. warmed' = warmed \cup {<<k, FALSE>>}
      BY Zenon, <2>2, <3>1
    <3> QED BY <2>1, <2>4, <3>2
  <2> QED BY <2>3, <2>4
<1>3. CASE Notices!WarmUp
  BY <1>0, <1>3 DEF Notices!WarmUp, Notices!TypeOK
<1>4. ASSUME NEW k \in Cmd, Notices!Ask(k)
      PROVE  /\ UNCHANGED <<users, ok, trying, warmed>> /\ bad \subseteq bad'
  BY <1>4 DEF Notices!Ask
<1>5. Notices!Tick \/ Notices!SendReports => UNCHANGED <<users, ok, bad, trying, warmed>>
  BY DEF Notices!Tick, Notices!SendReports
<1>6. \A k \in Cmd : Notices!Turns(k) => UNCHANGED <<users, ok, bad, trying, warmed>>
  BY DEF Notices!Turns
<1>7. Notices!Restart => users' = {}
  BY DEF Notices!Restart
<1>8. CASE \E k \in Cmd : Notices!Try(k)
  BY <1>2, <1>8
<1>9. CASE \E k \in Cmd : Notices!Ask(k)
  BY <1>4, <1>9
<1> QED BY <1>1, <1>3, <1>5, <1>6, <1>7, <1>8, <1>9 DEF Notices!Next

\* Who is back for long is served, or about to be.
LEMMA NextServed ==
  ASSUME Notices!TypeOK, ClockIsAhead, ConclusionsAreOld, BackIsServed, Notices!Next
  PROVE  BackIsServed'
<1> SUFFICES ASSUME NEW u \in users', u \in alive',
                    since'[u] + WARM_RETRY + WARM_TIME <= began'
             PROVE  u \in ok' \cup trying' \/ <<u, TRUE>> \in warmed'
  BY DEF BackIsServed
<1>0. WARM_RETRY \in Nat \ {0}
  BY NoticesNumbers
<1>1. CASE \E U \in SUBSET Cmd : Notices!TickBegin(U)
  <2>1. PICK U \in SUBSET Cmd : Notices!TickBegin(U)
    BY <1>1
  <2>2. users' = U /\ began' = now /\ alive' = alive /\ since' = since
    BY <2>1 DEF Notices!TickBegin
  <2> QED BY <2>1, <2>2, LongBackIsTried
<1>2. CASE ~\E U \in SUBSET Cmd : Notices!TickBegin(U)
  <2>1. u \in users /\ u \in Cmd
    BY <1>2, SidesAfter DEF Notices!TypeOK
  <2>2. u \in alive /\ since[u] + WARM_RETRY + WARM_TIME <= began /\ ~Notices!Upset(u)
    BY <1>0, <1>2, <2>1, LongBefore
  <2>3. u \in ok \cup trying \/ <<u, TRUE>> \in warmed
    BY <2>1, <2>2 DEF BackIsServed
  <2> QED BY Zenon, <1>2, <2>2, <2>3, SidesAfter
<1> QED BY <1>1, <1>2

\* Whose session is lost for long is known to have none, or about to be.
LEMMA NextNoted ==
  ASSUME Notices!TypeOK, ClockIsAhead, ConclusionsAreOld, LostIsNoted, Notices!Next
  PROVE  LostIsNoted'
<1> SUFFICES ASSUME NEW u \in users', u \notin alive',
                    since'[u] + WARM_MAX_AGE + WARM_TIME <= began'
             PROVE  u \in bad' \cup trying' \/ <<u, FALSE>> \in warmed'
  BY DEF LostIsNoted
<1>0. WARM_MAX_AGE \in Nat \ {0}
  BY NoticesNumbers
<1>1. CASE \E U \in SUBSET Cmd : Notices!TickBegin(U)
  <2>1. PICK U \in SUBSET Cmd : Notices!TickBegin(U)
    BY <1>1
  <2>2. users' = U /\ began' = now /\ alive' = alive /\ since' = since
    BY <2>1 DEF Notices!TickBegin
  <2> QED BY <2>1, <2>2, LongLostIsTried
<1>2. CASE ~\E U \in SUBSET Cmd : Notices!TickBegin(U)
  <2>1. u \in users /\ u \in Cmd
    BY <1>2, SidesAfter DEF Notices!TypeOK
  <2>2. u \notin alive /\ since[u] + WARM_MAX_AGE + WARM_TIME <= began /\ ~Notices!Upset(u)
    BY <1>0, <1>2, <2>1, LongBefore
  <2>3. u \in bad \cup trying \/ <<u, FALSE>> \in warmed
    BY <2>1, <2>2 DEF LostIsNoted
  <2> QED BY Zenon, <1>2, <2>2, <2>3, SidesAfter
<1> QED BY <1>1, <1>2

\* Between two ticks whoever had no session is in NOTLOGIN_REMINDED.
LEMMA NextReminded ==
  ASSUME Notices!TypeOK, BadAreReminded, Notices!Next PROVE BadAreReminded'
<1> USE DEF Notices!tables, Notices!tick
<1>1. ASSUME tick_pc' # "idle" PROVE BadAreReminded'
  BY <1>1 DEF BadAreReminded
<1>2. ASSUME UNCHANGED <<tick_pc, bad, reminded>> PROVE BadAreReminded'
  BY <1>2 DEF BadAreReminded
<1>3. Notices!SendReports \/ Notices!Restart => BadAreReminded'
  BY DEF Notices!SendReports, Notices!Restart, BadAreReminded
<1>4. \A k \in Cmd : Notices!Ask(k) => tick_pc' # "idle"
  BY DEF Notices!Ask
<1>5. \A k \in Cmd : Notices!Turns(k) \/ Notices!Try(k) => BadAreReminded'
  BY <1>2 DEF Notices!Turns, Notices!Try
<1>6. Notices!WarmUp \/ (\E U \in SUBSET Cmd : Notices!TickBegin(U)) => tick_pc' # "idle"
  BY DEF Notices!WarmUp, Notices!TickBegin
<1>7. Notices!Tick => BadAreReminded'
  BY <1>2 DEF Notices!Tick
<1> QED BY Zenon, <1>1, <1>3, <1>4, <1>5, <1>6, <1>7 DEF Notices!Next

-----------------------------------------------------------------------------
\* Every step of the notices keeps their invariant, and it says what is promised.
LEMMA NoticesStep ==
  ASSUME NoticesInv, Notices!Next PROVE NoticesInv'
BY NoticesNextTypeOK, NoticesNextToldOnce, NextClock, NextPast, NextConclusions,
   NextServed, NextNoted, NextReminded DEF NoticesInv

\* At the start nobody is served, told or lost.
LEMMA NoticesBegin == Notices!Init => NoticesInv
<1> SUFFICES ASSUME Notices!Init PROVE NoticesInv
  OBVIOUS
<1>1. Notices!TypeOK
  BY NoticesInitTypeOK
<1>2. /\ now = 0 /\ began = 0 /\ tick_pc = "idle" /\ trying = {} /\ warmed = {} /\ users = {} /\ bad = {}
      /\ reminded = {} /\ warm = [u \in Cmd |-> {}] /\ since = [u \in Cmd |-> 0]
      /\ notices = [u \in Cmd |-> 0]
  BY DEF Notices!Init
<1>3. Notices!ToldOnce
  BY <1>2 DEF Notices!ToldOnce
<1>4. ClockIsAhead
  BY <1>2 DEF ClockIsAhead
<1>5. ConclusionsArePast /\ ConclusionsAreOld
  BY <1>2 DEF ConclusionsArePast, ConclusionsAreOld
<1>6. BackIsServed /\ LostIsNoted /\ BadAreReminded
  BY <1>2 DEF BackIsServed, LostIsNoted, BadAreReminded
<1> QED BY <1>1, <1>3, <1>4, <1>5, <1>6 DEF NoticesInv

\* With the invariant a lost login is told once and one that is back is served in time.
LEMMA NoticesPromise ==
  ASSUME NoticesInv
  PROVE  Notices!TypeOK /\ Notices!ToldOnce /\ Notices!BackInTime /\ Notices!LossIsTold
<1>1. tick_pc = "idle" => trying = {} /\ warmed = {} /\ bad \subseteq reminded
  BY DEF NoticesInv, ClockIsAhead, BadAreReminded
<1>2. Notices!BackInTime
  BY <1>1 DEF NoticesInv, BackIsServed, Notices!BackInTime
<1>3. Notices!LossIsTold
  <2> SUFFICES ASSUME tick_pc = "idle", NEW u \in users \ alive,
                      since[u] + WARM_MAX_AGE + WARM_TIME <= began
               PROVE  notices[u] > 0
    BY DEF Notices!LossIsTold
  <2>1. u \in bad /\ u \in Cmd
    BY <1>1 DEF NoticesInv, LostIsNoted, Notices!TypeOK
  <2>2. u \in reminded
    BY <1>1, <2>1
  <2> QED BY <2>1, <2>2 DEF NoticesInv, Notices!ToldOnce
<1> QED BY <1>2, <1>3 DEF NoticesInv

HIDE DEF Notices!Time, Notices!AtMostOne

-----------------------------------------------------------------------------
\* What an action of the task leaves alone.
USE DEF Unmarked, LIST_RETRY

-----------------------------------------------------------------------------
(* The variables keep their types (broadcast and the restart of the        *)
(* process).                                                               *)
LEMMA InitTypeOK == Init => TypeOK
<1> SUFFICES ASSUME Init PROVE TypeOK
  OBVIOUS
<1>1. VERSION \in Value /\ STATE_KEY \in Key
  BY VersionBroadcastAssumption DEF Init
<1>2. store \in Table /\ cached \in Cell /\ pending \in Seq(StoreOp)
  BY <1>1 DEF Init, StoreInit, Table, Row
<1>3. seen \subseteq Value
  BY <1>1, <1>2 DEF Init, Cell
<1>4. told \in [Group -> [Release -> Nat]] /\ listed \in [Release -> SUBSET Group]
  BY DEF Init
<1>5. VERSION \in Release /\ lastMark \in Cell /\ markLost \in BOOLEAN /\ pc = "boot"
  BY <1>2 DEF Init
<1>6. attempt \in 1..LIST_RETRY /\ restarts \in Nat
  BY DEF Init
<1>7. left \subseteq Group /\ tried \subseteq Group \X Release /\ interrupted \subseteq Release
  BY DEF Init
<1> QED BY <1>2, <1>3, <1>4, <1>5, <1>6, <1>7 DEF TypeOK

\* Queueing the record of a version keeps the types of what it writes.
LEMMA MarkTypeOK ==
  ASSUME TypeOK, mark_broadcasted
  PROVE  /\ store' \in Table /\ pending' \in Seq(StoreOp)
         /\ cached' \in Cell /\ lastMark' \in Cell /\ markLost' \in BOOLEAN
<1>1. VERSION \in Value /\ STATE_KEY \in Key
  BY VersionBroadcastAssumption DEF TypeOK
<1>2. [key |-> STATE_KEY, value |-> VERSION] \in StoreOp
  BY <1>1 DEF StoreOp, Cell
<1>3. pending' \in Seq(StoreOp)
  <2> DEFINE op == [key |-> STATE_KEY, value |-> VERSION]
  <2>1. op \in StoreOp /\ pending' = Append(pending, op) /\ pending \in Seq(StoreOp)
    BY <1>2 DEF mark_broadcasted, Accept, TypeOK
  <2> HIDE DEF op
  <2> QED BY <2>1
<1>4. store' \in Table
  BY DEF TypeOK, mark_broadcasted, Accept
<1> QED BY <1>1, <1>3, <1>4 DEF mark_broadcasted, Cell

\* The variables keep their types: one step per action.
LEMMA NextTypeOK == TypeOK /\ [Next]_vars => TypeOK'
<1> SUFFICES ASSUME TypeOK, [Next]_vars PROVE TypeOK'
  OBVIOUS
<1>1. CASE SkipSame
  BY <1>1 DEF SkipSame, TypeOK
<1>2. CASE RecordFirst
  <2>1. mark_broadcasted
    BY <1>2 DEF RecordFirst
  <2>2. /\ store' \in Table /\ pending' \in Seq(StoreOp)
        /\ cached' \in Cell /\ lastMark' \in Cell /\ markLost' \in BOOLEAN
    BY <2>1, MarkTypeOK
  <2> QED BY <1>2, <2>2 DEF RecordFirst, TypeOK
<1>3. CASE StartListing
  BY <1>3 DEF StartListing, TypeOK
<1>4. ASSUME NEW groups \in SUBSET Group, ListFetched(groups) PROVE TypeOK'
  <2>1. mark_broadcasted
    BY <1>4 DEF ListFetched
  <2>2. /\ store' \in Table /\ pending' \in Seq(StoreOp)
        /\ cached' \in Cell /\ lastMark' \in Cell /\ markLost' \in BOOLEAN
    BY <2>1, MarkTypeOK
  <2>3. listed' \in [Release -> SUBSET Group] /\ left' \subseteq Group
    BY <1>4 DEF ListFetched, TypeOK
  <2> QED BY <1>4, <2>2, <2>3 DEF ListFetched, TypeOK
<1>5. CASE ListFailed
  BY <1>5 DEF ListFailed, TypeOK
<1>6. ASSUME NEW g \in left, SendNotice(g) PROVE TypeOK'
  <2>1. g \in Group /\ VERSION \in Release
    BY DEF TypeOK
  <2>2. told' \in [Group -> [Release -> Nat]]
    <3>1. told \in [Group -> [Release -> Nat]]
      BY DEF TypeOK
    <3>2. CASE told' = [told EXCEPT ![g][VERSION] = @ + 1]
      <4>1. told[g] \in [Release -> Nat]
        BY <2>1, <3>1
      <4>2. [told[g] EXCEPT ![VERSION] = @ + 1] \in [Release -> Nat]
        BY <2>1, <4>1
      <4> QED BY <2>1, <3>1, <3>2, <4>2
    <3> QED BY <1>6, <3>1, <3>2 DEF SendNotice
  <2>3. tried' \subseteq Group \X Release /\ left' \subseteq Group
    BY <1>6, <2>1 DEF SendNotice, TypeOK
  <2> QED BY <1>6, <2>2, <2>3 DEF SendNotice, TypeOK
<1>7. CASE AllSent
  BY <1>7 DEF AllSent, TypeOK
<1>8. ASSUME NEW kept \in SUBSET {1}, EngineSettles(kept) PROVE TypeOK'
  <2>1. pending' \in Seq(StoreOp)
    BY <1>8 DEF EngineSettles, Settle, TypeOK
  <2>2. store' \in Table
    BY <1>8 DEF EngineSettles, Settle
  <2> QED BY <1>8, <2>1, <2>2 DEF EngineSettles, TypeOK
<1>9. ASSUME NEW v \in Release, NEW unread \in {FALSE, IoErrors}, Restart(v, unread) PROVE TypeOK'
  <2>1. v \in Value /\ STATE_KEY \in Key
    BY VersionBroadcastAssumption
  <2>2. cached' \in Cell
    BY <1>9, <2>1 DEF Restart, Row, TypeOK, Table, Cell
  <2>3. store' \in Table /\ pending' \in Seq(StoreOp) /\ markLost' \in BOOLEAN
    BY <1>9 DEF Restart, Forget, TypeOK
  <2>4. interrupted' \subseteq Release /\ seen' \subseteq Value /\ restarts' \in Nat
    BY <1>9, <2>1 DEF Restart, TypeOK
  <2> QED BY <1>9, <2>2, <2>3, <2>4 DEF Restart, TypeOK
<1>10. CASE UNCHANGED vars
  BY <1>10 DEF vars, TypeOK
<1> QED BY <1>1, <1>2, <1>3, <1>4, <1>5, <1>6, <1>7, <1>8, <1>9, <1>10 DEF Next

(* The type invariant holds, whatever fails and restarts (broadcast).       *)
THEOREM TypeCorrect == Spec => []TypeOK
<1> QED BY InitTypeOK, NextTypeOK, PTL DEF Spec

-----------------------------------------------------------------------------
(* Only a crash in the middle of the sending leaves a group of the list    *)
(* out: what is listed was tried, or is still to be told by the process    *)
(* that listed it (the loop of broadcast over send_notice).                *)
LEMMA NextLeftOut ==
  TypeOK /\ LeftOutOnlyByCrash /\ [Next]_vars => LeftOutOnlyByCrash'
<1> SUFFICES ASSUME TypeOK, LeftOutOnlyByCrash, [Next]_vars,
                    NEW v \in Release, v \notin interrupted',
                    NEW g \in listed'[v]
             PROVE  \/ <<g, v>> \in tried'
                    \/ pc' = "sending" /\ VERSION' = v /\ g \in left'
  BY DEF LeftOutOnlyByCrash
<1> DEFINE Reached == <<g, v>> \in tried \/ (pc = "sending" /\ VERSION = v /\ g \in left)
<1>old. v \notin interrupted /\ g \in listed[v] => Reached
  BY DEF LeftOutOnlyByCrash
<1>1. CASE SkipSame
  BY <1>1, <1>old DEF SkipSame
<1>2. CASE RecordFirst
  BY <1>2, <1>old DEF RecordFirst
<1>3. CASE StartListing
  BY <1>3, <1>old DEF StartListing
<1>4. ASSUME NEW groups \in SUBSET Group, ListFetched(groups)
      PROVE  <<g, v>> \in tried' \/ (pc' = "sending" /\ VERSION' = v /\ g \in left')
  <2>1. CASE v = VERSION
    BY <1>4, <2>1 DEF ListFetched, TypeOK
  <2>2. CASE v # VERSION
    BY <1>4, <2>2, <1>old DEF ListFetched, TypeOK
  <2> QED BY <2>1, <2>2
<1>5. CASE ListFailed
  BY <1>5, <1>old DEF ListFailed
<1>6. ASSUME NEW h \in left, SendNotice(h)
      PROVE  <<g, v>> \in tried' \/ (pc' = "sending" /\ VERSION' = v /\ g \in left')
  BY <1>6, <1>old DEF SendNotice
<1>7. CASE AllSent
  BY <1>7, <1>old DEF AllSent
<1>8. ASSUME NEW kept \in SUBSET {1}, EngineSettles(kept)
      PROVE  <<g, v>> \in tried' \/ (pc' = "sending" /\ VERSION' = v /\ g \in left')
  BY <1>8, <1>old DEF EngineSettles
<1>9. ASSUME NEW w \in Release, NEW unread \in {FALSE, IoErrors}, Restart(w, unread)
      PROVE  <<g, v>> \in tried' \/ (pc' = "sending" /\ VERSION' = v /\ g \in left')
  <2>1. v \notin interrupted /\ g \in listed[v]
    BY <1>9 DEF Restart
  <2>2. ~(pc = "sending" /\ VERSION = v /\ g \in left)
    BY <1>9 DEF Restart
  <2> QED BY <1>9, <2>1, <2>2, <1>old DEF Restart
<1>10. CASE UNCHANGED vars
  BY <1>10, <1>old DEF vars
<1> QED BY <1>1, <1>2, <1>3, <1>4, <1>5, <1>6, <1>7, <1>8, <1>9, <1>10 DEF Next

(* A group that was listed was tried, unless the process died while it sent *)
(* (broadcast, send_notice).                                               *)
THEOREM OnlyCrashesLeaveOut == Spec => []LeftOutOnlyByCrash
<1>1. Init => LeftOutOnlyByCrash
  BY DEF Init, LeftOutOnlyByCrash
<1> QED BY <1>1, NextLeftOut, TypeCorrect, PTL DEF Spec

-----------------------------------------------------------------------------
(* What is on record, in memory, on disk or on its way there, is a version *)
(* that was seen; and who lists groups or sends has seen two of them.      *)
RecordsAreSeen ==
  /\ VERSION \in seen
  /\ cached \in seen \cup {Absent}
  /\ store[STATE_KEY] \in seen \cup {Absent}
  /\ \A i \in DOMAIN pending : pending[i].key = STATE_KEY /\ pending[i].value \in seen
  /\ pc \in {"listing", "sending"} => \A v \in Release : seen # {v}

SparedInv == TypeOK /\ RecordsAreSeen /\ NewcomersAreSpared

\* Queueing the record of the running version records only versions that ran.
LEMMA MarkIsSeen ==
  ASSUME TypeOK, RecordsAreSeen, mark_broadcasted
  PROVE  /\ \A i \in DOMAIN pending' : pending'[i].key = STATE_KEY /\ pending'[i].value \in seen
         /\ cached' \in seen /\ store' = store
<1> DEFINE op == [key |-> STATE_KEY, value |-> VERSION]
<1>1. op \in StoreOp
  BY VersionBroadcastAssumption DEF TypeOK, StoreOp, Cell
<1>2. op.key = STATE_KEY /\ op.value \in seen
  BY DEF RecordsAreSeen
<1>3. pending' = Append(pending, op) /\ pending \in Seq(StoreOp)
  BY DEF mark_broadcasted, Accept, TypeOK
<1>4. \A i \in DOMAIN pending : pending[i].key = STATE_KEY /\ pending[i].value \in seen
  BY DEF RecordsAreSeen
<1> HIDE DEF op
<1>5. \A i \in DOMAIN pending' : pending'[i].key = STATE_KEY /\ pending'[i].value \in seen
  <2> SUFFICES ASSUME NEW i \in 1..Len(pending) + 1
               PROVE  pending'[i].key = STATE_KEY /\ pending'[i].value \in seen
    BY <1>1, <1>3
  <2>1. CASE i = Len(pending) + 1
    BY <1>1, <1>2, <1>3, <2>1
  <2>2. CASE i # Len(pending) + 1
    BY <1>1, <1>3, <1>4, <2>2
  <2> QED BY <2>1, <2>2
<1> QED BY <1>5 DEF mark_broadcasted, Accept, RecordsAreSeen

\* The record on disk, once the engine has settled the oldest operation.
LEMMA SettledIsSeen ==
  ASSUME TypeOK, RecordsAreSeen, NEW kept \in SUBSET {1}, EngineSettles(kept)
  PROVE  /\ store'[STATE_KEY] \in seen \cup {Absent}
         /\ \A i \in DOMAIN pending' : pending'[i].key = STATE_KEY /\ pending'[i].value \in seen
<1>1. pending \in Seq(StoreOp) /\ Len(pending) >= 1
  BY DEF EngineSettles, TypeOK
<1>2. HoldsAfter(STATE_KEY, store[STATE_KEY], pending, kept, store'[STATE_KEY])
  BY VersionBroadcastAssumption DEF EngineSettles, Settle, Overwrites
<1>3. \A i \in kept : i \in DOMAIN pending
  BY <1>1
<1>4. store'[STATE_KEY] \in seen \cup {Absent}
  BY <1>2, <1>3 DEF HoldsAfter, RecordsAreSeen
<1>5. \A i \in DOMAIN pending' : pending'[i] = pending[i + 1] /\ i + 1 \in DOMAIN pending
  BY <1>1 DEF EngineSettles, Settle
<1> QED BY <1>4, <1>5 DEF RecordsAreSeen

\* The records, on their way or on disk, are of versions that ran, in every step.
LEMMA NextSpared == SparedInv /\ [Next]_vars => SparedInv'
<1> SUFFICES ASSUME TypeOK, RecordsAreSeen, NewcomersAreSpared, [Next]_vars
             PROVE  RecordsAreSeen' /\ NewcomersAreSpared'
  BY NextTypeOK DEF SparedInv
<1>0. VERSION \in Release /\ VERSION \in seen /\ VERSION # Absent
  BY VersionBroadcastAssumption, AbsentIsNoValue DEF TypeOK, RecordsAreSeen
<1>1. CASE SkipSame
  BY <1>1 DEF SkipSame, RecordsAreSeen, NewcomersAreSpared
<1>2. CASE RecordFirst
  <2>1. mark_broadcasted
    BY <1>2 DEF RecordFirst
  <2> QED BY <1>2, <2>1, MarkIsSeen DEF RecordFirst, RecordsAreSeen, NewcomersAreSpared
<1>3. CASE StartListing
  BY <1>0, <1>3 DEF StartListing, RecordsAreSeen, NewcomersAreSpared
<1>4. ASSUME NEW groups \in SUBSET Group, ListFetched(groups)
      PROVE  RecordsAreSeen' /\ NewcomersAreSpared'
  <2>1. mark_broadcasted
    BY <1>4 DEF ListFetched
  <2> QED BY <1>4, <2>1, MarkIsSeen DEF ListFetched, RecordsAreSeen, NewcomersAreSpared
<1>5. CASE ListFailed
  BY <1>5 DEF ListFailed, RecordsAreSeen, NewcomersAreSpared
<1>6. ASSUME NEW g \in left, SendNotice(g)
      PROVE  RecordsAreSeen' /\ NewcomersAreSpared'
  BY <1>6 DEF SendNotice, RecordsAreSeen, NewcomersAreSpared
<1>7. CASE AllSent
  BY <1>7 DEF AllSent, RecordsAreSeen, NewcomersAreSpared
<1>8. ASSUME NEW kept \in SUBSET {1}, EngineSettles(kept)
      PROVE  RecordsAreSeen' /\ NewcomersAreSpared'
  BY <1>8, SettledIsSeen DEF EngineSettles, RecordsAreSeen, NewcomersAreSpared
<1>9. ASSUME NEW w \in Release, NEW unread \in {FALSE, IoErrors}, Restart(w, unread)
      PROVE  RecordsAreSeen' /\ NewcomersAreSpared'
  <2>1. seen' = seen \cup {w} /\ VERSION' = w /\ told' = told /\ pc' = "boot" /\ store' = store
    BY <1>9 DEF Restart, Forget
  <2>2. cached' \in {store[STATE_KEY], Absent} /\ pending' = <<>>
    BY <1>9 DEF Restart, Forget, Row
  <2>3. RecordsAreSeen'
    BY <2>1, <2>2 DEF RecordsAreSeen
  <2>4. NewcomersAreSpared'
    BY <1>0, <2>1 DEF NewcomersAreSpared
  <2> QED BY <2>3, <2>4
<1>10. CASE UNCHANGED vars
  BY <1>10 DEF vars, RecordsAreSeen, NewcomersAreSpared
<1> QED BY <1>1, <1>2, <1>3, <1>4, <1>5, <1>6, <1>7, <1>8, <1>9, <1>10 DEF Next

(* Where one version ran and no other was on record, nobody is told of an  *)
(* update (the None branch of broadcast).                                  *)
THEOREM Newcomers == Spec => []NewcomersAreSpared
<1>1. Init => SparedInv
  <2> SUFFICES ASSUME Init PROVE RecordsAreSeen /\ NewcomersAreSpared
    BY InitTypeOK DEF SparedInv
  <2>1. VERSION # Absent
    BY VersionBroadcastAssumption, AbsentIsNoValue DEF Init
  <2> QED BY <2>1 DEF Init, StoreInit, Row, RecordsAreSeen, NewcomersAreSpared
<1>2. SparedInv => NewcomersAreSpared
  BY DEF SparedInv
<1> QED BY <1>1, <1>2, NextSpared, PTL DEF Spec

-----------------------------------------------------------------------------
(* One operation is on its way at most, and it is the last record; once it *)
(* arrived, and was not lost, the disk and the map hold the last record,   *)
(* or the map holds nothing; and nobody lists groups whose own version, or *)
(* none, is in the map.                                                    *)
MarkTracked ==
  /\ \/ pending = <<>>
     \/ /\ pending = <<[key |-> STATE_KEY, value |-> lastMark]>>
        /\ pc \in {"sending", "done"}
        /\ cached = lastMark
  /\ ~markLost /\ pending = <<>> => store[STATE_KEY] = lastMark
  /\ ~markLost => cached \in {lastMark, Absent}
  /\ pc = "listing" => cached \notin {VERSION, Absent}

TrackedInv == TypeOK /\ MarkTracked

\* Where the last record is, and whether it was lost, is known after every step.
LEMMA NextTracked == TrackedInv /\ [Next]_vars => TrackedInv'
<1> SUFFICES ASSUME TypeOK, MarkTracked, [Next]_vars PROVE MarkTracked'
  BY NextTypeOK DEF TrackedInv
<1>1. CASE SkipSame
  BY <1>1 DEF SkipSame, MarkTracked
<1>2. ASSUME mark_broadcasted, pc \in {"boot", "listing"}, pc' \in {"sending", "done"}
      PROVE  MarkTracked'
  <2>1. pending = <<>>
    BY <1>2 DEF MarkTracked
  <2>2. pending' = <<[key |-> STATE_KEY, value |-> VERSION]>> /\ lastMark' = VERSION
    BY <1>2, <2>1 DEF mark_broadcasted, Accept
  <2>3. pending' # <<>>
    BY <2>2
  <2> QED BY <1>2, <2>2, <2>3 DEF mark_broadcasted, MarkTracked
<1>3. CASE StartListing
  BY <1>3 DEF StartListing, MarkTracked
<1>4. CASE RecordFirst
  BY <1>2, <1>4 DEF RecordFirst
<1>5. ASSUME NEW groups \in SUBSET Group, ListFetched(groups) PROVE MarkTracked'
  BY <1>2, <1>5 DEF ListFetched
<1>6. CASE ListFailed
  BY <1>6 DEF ListFailed, MarkTracked
<1>7. ASSUME NEW g \in left, SendNotice(g) PROVE MarkTracked'
  BY <1>7 DEF SendNotice, MarkTracked
<1>8. CASE AllSent
  BY <1>8 DEF AllSent, MarkTracked
<1>9. ASSUME NEW kept \in SUBSET {1}, EngineSettles(kept) PROVE MarkTracked'
  <2>1. pending = <<[key |-> STATE_KEY, value |-> lastMark]>> /\ cached = lastMark /\ pc # "listing"
    BY <1>9 DEF EngineSettles, MarkTracked
  <2>2. Len(pending) = 1 /\ pending[1].key = STATE_KEY /\ pending[1].value = lastMark
    BY <2>1
  <2>3. pending' = <<>>
    <3>1. pending' = SubSeq(pending, 2, 1)
      BY <1>9, <2>2 DEF EngineSettles, Settle
    <3> QED BY <3>1
  <2>4. CASE kept = {}
    BY <1>9, <2>1, <2>3, <2>4 DEF EngineSettles, MarkTracked
  <2>5. CASE kept = {1}
    <3>1. HoldsAfter(STATE_KEY, store[STATE_KEY], pending, kept, store'[STATE_KEY])
      BY <1>9, VersionBroadcastAssumption DEF EngineSettles, Settle, Overwrites
    <3>2. store'[STATE_KEY] = lastMark
      BY <2>2, <2>5, <3>1 DEF HoldsAfter
    <3> QED BY <1>9, <2>1, <2>3, <2>5, <3>2 DEF EngineSettles, MarkTracked
  <2> QED BY <2>4, <2>5
<1>10. ASSUME NEW w \in Release, NEW unread \in {FALSE, IoErrors}, Restart(w, unread)
       PROVE  MarkTracked'
  <2>1. pending' = <<>> /\ store' = store /\ lastMark' = lastMark /\ pc' = "boot"
    BY <1>10 DEF Restart, Forget
  <2>2. markLost' = (markLost \/ pending # <<>>) /\ cached' \in {store[STATE_KEY], Absent}
    BY <1>10 DEF Restart, Row
  <2> QED BY <2>1, <2>2 DEF MarkTracked
<1>11. CASE UNCHANGED vars
  BY <1>11 DEF vars, MarkTracked
<1> QED BY <1>1, <1>3, <1>4, <1>5, <1>6, <1>7, <1>8, <1>9, <1>10, <1>11 DEF Next

(* A version is announced again only if its record was lost on the way to  *)
(* the disk (broadcast: record first, then send).                          *)
THEOREM RepeatsOnlyAfterLoss == Spec => RepeatNeedsLostMark
<1>1. Init => TrackedInv
  <2> SUFFICES ASSUME Init PROVE MarkTracked
    BY InitTypeOK DEF TrackedInv
  <2> QED BY DEF Init, StoreInit, Row, MarkTracked
<1>2. TrackedInv /\ [Next]_vars =>
        [(pc = "listing" /\ pc' = "sending" /\ lastMark = VERSION) => markLost]_vars
  BY DEF TrackedInv, MarkTracked
<1> QED BY <1>1, <1>2, NextTracked, PTL DEF Spec, RepeatNeedsLostMark

-----------------------------------------------------------------------------
(* The reading of the calendar, for any files and any tokens: the reader   *)
(* stays within the text, something is open whenever it reads an entry,    *)
(* and each step leaves less to read, so it ends whatever the school       *)
(* wrote and wherever that breaks off.                                     *)
IsFrame(f) ==
  /\ f = [kind |-> f.kind, items |-> f.items, key |-> f.key]
  /\ f.kind \in {"obj", "arr"}
IsStack(s) ==
  \E n \in Nat : DOMAIN s = 1..n /\ s = [i \in 1..n |-> s[i]] /\ \A i \in 1..n : IsFrame(s[i])
Within == {"item", "colon", "value", "comma"}
TextInv ==
  /\ text \in Seq(Token)
  /\ pos \in 1..(Len(text) + 1)
  /\ at \in Within \cup {"push", "open", "done", "failed"}
  /\ IsStack(stack)
  /\ at \in Within => Len(stack) > 0

\* What is left to do: three for each token, and what follows an entry counts
\* more than an entry, for a bracket there is only looked at.
Rank(stage) == CASE stage = "comma" -> 2 [] stage \in {"done", "failed"} -> 0 [] OTHER -> 1
ToRead == 3 * (Len(text) + 1 - pos) + Rank(at)

\* A stack may be empty, and is a sequence ...
LEMMA EmptyStack == IsStack(<<>>)
<1>1. DOMAIN <<>> = 1..0 /\ <<>> = [i \in 1..0 |-> <<>>[i]]
  OBVIOUS
<1> QED BY <1>1 DEF IsStack

LEMMA StackLength ==
  ASSUME NEW s, IsStack(s)
  PROVE  /\ Len(s) \in Nat /\ DOMAIN s = 1..Len(s) /\ s = [i \in 1..Len(s) |-> s[i]]
         /\ \A i \in 1..Len(s) : IsFrame(s[i])
<1>1. PICK n \in Nat : DOMAIN s = 1..n /\ s = [i \in 1..n |-> s[i]] /\ \A i \in 1..n : IsFrame(s[i])
  BY DEF IsStack
<1>2. s \in [1..n -> {s[i] : i \in 1..n}]
  BY <1>1
<1>3. s \in Seq({s[i] : i \in 1..n})
  BY <1>2
<1>4. Len(s) = n
  BY <1>1, <1>3
<1> QED BY <1>1, <1>4

\* ... of what is in it.
LEMMA StackOf ==
  ASSUME NEW s, IsStack(s), NEW R, \A i \in 1..Len(s) : s[i] \in R
  PROVE  s \in Seq(R)
<1>1. s = [i \in 1..Len(s) |-> s[i]] /\ Len(s) \in Nat
  BY StackLength
<1>2. s \in [1..Len(s) -> R]
  BY <1>1
<1> QED BY <1>1, <1>2

\* What is opened lies on the top,
LEMMA StackPush ==
  ASSUME NEW s, IsStack(s), NEW f, IsFrame(f)
  PROVE  IsStack(Append(s, f)) /\ Len(Append(s, f)) > 0
<1> DEFINE R == {s[i] : i \in 1..Len(s)} \cup {f}
           n == Len(s)
           t == Append(s, f)
<1>1. n \in Nat /\ \A i \in 1..n : IsFrame(s[i])
  BY StackLength
<1>2. s \in Seq(R)
  BY StackOf
<1>3. /\ t \in Seq(R) /\ Len(t) = n + 1 /\ DOMAIN t = 1..(n + 1) /\ t[n + 1] = f
      /\ \A i \in 1..n : t[i] = s[i]
  BY <1>1, <1>2
<1> HIDE DEF t, n
<1>4. t = [i \in 1..(n + 1) |-> t[i]]
  BY <1>3
<1>5. \A i \in 1..(n + 1) : IsFrame(t[i])
  BY <1>1, <1>3
<1>6. IsStack(t)
  BY <1>1, <1>3, <1>4, <1>5 DEF IsStack
<1> QED BY <1>1, <1>3, <1>6 DEF t

\* the top may change,
LEMMA StackTop ==
  ASSUME NEW s, IsStack(s), Len(s) > 0, NEW f, IsFrame(f)
  PROVE  IsStack([s EXCEPT ![Len(s)] = f]) /\ Len([s EXCEPT ![Len(s)] = f]) = Len(s)
<1> DEFINE n == Len(s)
           t == [s EXCEPT ![n] = f]
<1>1. n \in Nat /\ n > 0 /\ DOMAIN s = 1..n /\ \A i \in 1..n : IsFrame(s[i])
  BY StackLength
<1> HIDE DEF n
<1>2. DOMAIN t = 1..n /\ \A i \in 1..n : t[i] = IF i = n THEN f ELSE s[i]
  BY <1>1
<1>3. t = [i \in 1..n |-> t[i]]
  BY <1>1
<1> HIDE DEF t
<1>4. \A i \in 1..n : IsFrame(t[i])
  BY <1>1, <1>2
<1>5. IsStack(t)
  BY <1>1, <1>2, <1>3, <1>4 DEF IsStack
<1>6. Len(t) \in Nat /\ DOMAIN t = 1..Len(t)
  BY <1>5, StackLength
<1>7. Len(t) = n
  BY <1>1, <1>2, <1>6
<1> QED BY <1>5, <1>7 DEF t, n

\* and what is closed is taken off.
LEMMA StackFront ==
  ASSUME NEW s, IsStack(s), Len(s) > 1
  PROVE  IsStack(Text!Front(s)) /\ Len(Text!Front(s)) > 0
<1> DEFINE R == {s[i] : i \in 1..Len(s)}
           n == Len(s) - 1
           t == Text!Front(s)
<1>1. Len(s) = n + 1 /\ n \in Nat /\ n > 0 /\ \A i \in 1..(n + 1) : IsFrame(s[i])
  BY StackLength
<1>2. s \in Seq(R)
  BY StackOf
<1>3. t = SubSeq(s, 1, n)
  BY DEF Text!Front
<1> HIDE DEF n, t
<1>4. Len(t) = n /\ DOMAIN t = 1..n /\ \A i \in 1..n : t[i] = s[i]
  BY <1>1, <1>2, <1>3
<1>5. t = [i \in 1..n |-> t[i]]
  BY <1>1, <1>2, <1>3
<1>6. \A i \in 1..n : IsFrame(t[i])
  BY <1>1, <1>4
<1>7. IsStack(t)
  BY <1>1, <1>4, <1>5, <1>6 DEF IsStack
<1> QED BY <1>1, <1>4, <1>7 DEF t

\* A key, or a value that is given to the top, leaves it a frame.
LEMMA FrameKeyed ==
  ASSUME NEW f, IsFrame(f), NEW new
  PROVE  IsFrame([f EXCEPT !.key = new])
<1> DEFINE k == f.kind
           o == f.items
           y == f.key
<1>1. f = [kind |-> k, items |-> o, key |-> y] /\ k \in {"obj", "arr"}
  BY DEF IsFrame
<1> HIDE DEF k, y, o
<1>2. [f EXCEPT !.key = new] = [kind |-> k, items |-> o, key |-> new]
  BY <1>1
<1> QED BY <1>1, <1>2 DEF IsFrame

LEMMA FrameGiven ==
  ASSUME NEW f, IsFrame(f), NEW new
  PROVE  IsFrame([f EXCEPT !.items = new])
<1> DEFINE k == f.kind
           y == f.key
           o == f.items
<1>1. f = [kind |-> k, items |-> o, key |-> y] /\ k \in {"obj", "arr"}
  BY DEF IsFrame
<1> HIDE DEF k, y, o
<1>2. [f EXCEPT !.items = new] = [kind |-> k, items |-> new, key |-> y]
  BY <1>1
<1> QED BY <1>1, <1>2 DEF IsFrame
LEMMA StackGiven ==
  ASSUME NEW s, IsStack(s), Len(s) > 0, NEW value
  PROVE  IsStack(Text!Given(s, value)) /\ Len(Text!Given(s, value)) = Len(s)
<1> DEFINE n == Len(s)
           item == IF Text!Last(s).kind = "arr" THEN value ELSE [key |-> Text!Last(s).key, value |-> value]
           f == [s[n] EXCEPT !.items = Append(@, item)]
<1>1. n \in DOMAIN s /\ IsFrame(s[n])
  BY StackLength
<1>2. Text!Given(s, value) = [s EXCEPT ![n] = f]
  BY DEF Text!Given
<1>3. IsFrame(f)
  <2>1. f = [s[n] EXCEPT !.items = Append(s[n].items, item)]
    OBVIOUS
  <2> HIDE DEF item, n, f
  <2> QED BY <1>1, <2>1, FrameGiven
<1> HIDE DEF f
<1>4. IsStack([s EXCEPT ![n] = f]) /\ Len([s EXCEPT ![n] = f]) = Len(s)
  BY <1>3, StackTop
<1> QED BY <1>2, <1>4

\* The reader stands in the text or right behind it.
LEMMA TextNumbers == TextInv => Len(text) \in Nat /\ pos \in 1..(Len(text) + 1)
BY DEF TextInv

LEMMA NextPlace ==
  ASSUME NEW n \in Nat, NEW p \in 1..(n + 1), p <= n
  PROVE  p + 1 \in 1..(n + 1) /\ p < p + 1
OBVIOUS

\* Where there is a token there is something to read.
LEMMA PeekIsText ==
  ASSUME TextInv, Text!Peek # "end of file"
  PROVE  pos <= Len(text) /\ pos + 1 \in 1..(Len(text) + 1) /\ pos < pos + 1
<1>1. Len(text) \in Nat /\ pos \in 1..(Len(text) + 1)
  BY Zenon, TextNumbers
<1>2. pos <= Len(text)
  BY Zenon DEF Text!Peek
<1> QED BY Zenon, <1>1, <1>2, NextPlace

\* A reader that goes on has less to read, and so has one that gives up or looks
\* only.
LEMMA LessToRead ==
  ASSUME NEW n \in Nat, NEW p \in 1..n, NEW q \in 1..n, NEW old, NEW new,
         p < q \/ (p = q /\ Rank(new) < Rank(old))
  PROVE  3 * (n - q) + Rank(new) < 3 * (n - p) + Rank(old)
<1>1. Rank(old) \in 0..2 /\ Rank(new) \in 0..2
  BY DEF Rank
<1> HIDE DEF Rank
<1> QED BY <1>1

LEMMA LeftOver == TextInv => ToRead \in Nat
<1> SUFFICES ASSUME TextInv PROVE ToRead \in Nat
  OBVIOUS
<1>1. Len(text) \in Nat /\ pos \in 1..(Len(text) + 1)
  BY TextNumbers
<1>2. Rank(at) \in 0..2
  BY DEF Rank
<1> QED BY <1>1, <1>2 DEF ToRead

\* What a step has to show.
LEMMA StepReads ==
  ASSUME TextInv, text' = text,
         pos' \in 1..(Len(text) + 1), at' \in Within \cup {"push", "open", "done", "failed"},
         IsStack(stack'), at' \in Within => Len(stack') > 0,
         pos < pos' \/ (pos = pos' /\ Rank(at') < Rank(at))
  PROVE  TextInv' /\ ToRead' < ToRead
<1>1. TextInv'
  BY DEF TextInv, IsStack, IsFrame
<1>2. Len(text) + 1 \in Nat /\ pos \in 1..(Len(text) + 1) /\ pos' \in 1..(Len(text) + 1)
  <2>1. Len(text) \in Nat /\ pos \in 1..(Len(text) + 1)
    BY Zenon, TextNumbers
  <2> QED BY <2>1
<1>3. 3 * (Len(text) + 1 - pos') + Rank(at') < 3 * (Len(text) + 1 - pos) + Rank(at)
  <2>1. ASSUME NEW n \in Nat, pos \in 1..n, pos' \in 1..n
        PROVE  3 * (n - pos') + Rank(at') < 3 * (n - pos) + Rank(at)
    BY ONLY pos < pos' \/ (pos = pos' /\ Rank(at') < Rank(at)), <2>1, LessToRead, Zenon
  <2>2. \A n \in Nat : pos \in 1..n /\ pos' \in 1..n =>
           3 * (n - pos') + Rank(at') < 3 * (n - pos) + Rank(at)
    BY ONLY <2>1, Zenon
  <2> QED BY ONLY <1>2, <2>2
<1>4. ToRead' < ToRead
  BY <1>3 DEF ToRead, Rank
<1> QED BY <1>1, <1>4

\* What arrived is a text, wherever it breaks off.
LEMMA ArrivedIsText ==
  ASSUME NEW whole \in Seq(Token), NEW cut \in 0..Len(whole), NEW t \in Text!Arrived(whole, cut)
  PROVE  t \in Seq(Token)
<1> DEFINE piece == SubSeq(whole, 1, cut)
<1>1. piece \in Seq(Token)
  OBVIOUS
<1> HIDE DEF piece
<1>2. t = piece \/ (piece # <<>> /\ t = Text!Front(piece) \o <<"half">>)
  BY DEF Text!Arrived, piece
<1>3. CASE t = piece
  BY <1>1, <1>3
<1>4. CASE piece # <<>> /\ t = Text!Front(piece) \o <<"half">>
  <2>1. Text!Front(piece) \in Seq(Token)
    BY <1>1, <1>4 DEF Text!Front
  <2>2. <<"half">> \in Seq(Token)
    <3>1. "half" \in Token
      BY Zenon DEF Token
    <3>2. \A x \in Token : <<x>> \in Seq(Token)
      OBVIOUS
    <3> QED BY Zenon, <3>1, <3>2
  <2> QED BY <1>4, <2>1, <2>2
<1> QED BY <1>2, <1>3, <1>4

\* The reader begins before the first token, with nothing open.
LEMMA TextBegin == Text!Init => TextInv
<1> SUFFICES ASSUME Text!Init PROVE TextInv
  OBVIOUS
<1>1. PICK blocks \in Files, dirty \in BOOLEAN :
        \E cut \in 0..Len(Text!FileText(blocks, dirty)) :
           text \in Text!Arrived(Text!FileText(blocks, dirty), cut)
  BY Zenon DEF Text!Init
<1>2. Text!FileText(blocks, dirty) \in Seq(Token)
  BY Zenon, CalendarAssumption
<1>3. text \in Seq(Token)
  BY Zenon, <1>1, <1>2, ArrivedIsText
<1>4. pos = 1 /\ stack = <<>> /\ at = "push"
  BY DEF Text!Init
<1> QED BY <1>3, <1>4, EmptyStack DEF TextInv, Within

\* Marks are no end.
LEMMA MarkIsPeek ==
  ASSUME TextInv, NEW mark \in Token, Text!Peek = mark
  PROVE  pos <= Len(text) /\ pos + 1 \in 1..(Len(text) + 1) /\ pos < pos + 1
BY Zenon, PeekIsText, CalendarAssumption

\* The least of a set of places is one of them.
LEMMA FirstPlace ==
  ASSUME NEW n \in Nat, NEW p \in 1..(n + 1), NEW S \in SUBSET (p..n), S # {}
  PROVE  LET first == CHOOSE x \in S : \A y \in S : x <= y
         IN  first + 1 \in 1..(n + 1) /\ p < first + 1
<1> DEFINE first == CHOOSE x \in S : \A y \in S : x <= y
<1>1. S \in SUBSET Nat
  OBVIOUS
<1>2. \E x \in S : \A y \in S : x <= y
  BY Zenon, <1>1, HasLeast
<1>3. first \in S
  BY Zenon, <1>2
<1> HIDE DEF first
<1>4. first + 1 \in 1..(n + 1) /\ p < first + 1
  BY <1>3
<1> QED BY <1>4 DEF first

\* A comment is passed over up to the end of its line.
LEMMA SkipReads == TextInv /\ Text!SkipTrivia => TextInv' /\ ToRead' < ToRead
<1> SUFFICES ASSUME TextInv, Text!SkipTrivia PROVE TextInv' /\ ToRead' < ToRead
  OBVIOUS
<1> DEFINE ends == {p \in pos..Len(text) : text[p] = "nl"}
<1>1. /\ text' = text /\ stack' = stack /\ at' = at
      /\ pos' = IF ends = {} THEN Len(text) + 1 ELSE (CHOOSE p \in ends : \A q \in ends : p <= q) + 1
  BY DEF Text!SkipTrivia, Text!Stay
<1>2. Text!Peek \in Token
  BY DEF Text!SkipTrivia, Text!Trivia, Token
<1>3. Len(text) \in Nat /\ pos \in 1..(Len(text) + 1) /\ pos <= Len(text)
  BY Zenon, <1>2, MarkIsPeek, TextNumbers
<1>4. pos' \in 1..(Len(text) + 1) /\ pos < pos'
  <2>1. CASE ends = {}
    BY <1>1, <1>3, <2>1
  <2>2. CASE ends # {}
    <3>1. ends \in SUBSET (pos..Len(text))
      OBVIOUS
    <3>2. pos' = (CHOOSE p \in ends : \A q \in ends : p <= q) + 1
      BY <1>1, <2>2
    <3> HIDE DEF ends
    <3> QED BY Zenon, <1>3, <2>2, <3>1, <3>2, FirstPlace
  <2> QED BY <2>1, <2>2
<1>5. at \in Within \cup {"push", "open", "done", "failed"} /\ IsStack(stack)
      /\ (at \in Within => Len(stack) > 0)
  BY Zenon DEF TextInv
<1> QED BY Zenon, <1>1, <1>4, <1>5, StepReads

\* A step that reads a token, one that gives up or ends, and a frame that is opened.
LEMMA TokenReads ==
  ASSUME TextInv, text' = text, Text!Peek \in Token, pos' = pos + 1,
         at' \in Within \cup {"push", "open"}, IsStack(stack'), at' \in Within => Len(stack') > 0
  PROVE  TextInv' /\ ToRead' < ToRead
<1>1. pos' \in 1..(Len(text) + 1) /\ pos < pos'
  BY Zenon, MarkIsPeek
<1>2. at' \in Within \cup {"push", "open", "done", "failed"}
  OBVIOUS
<1> QED BY Zenon, <1>1, <1>2, StepReads

LEMMA EndReads ==
  ASSUME TextInv, text' = text, at \in Within \cup {"push", "open"}, at' \in {"done", "failed"},
         pos' = pos, stack' = stack
  PROVE  TextInv' /\ ToRead' < ToRead
<1>1. Rank(at') < Rank(at)
  <2>1. Rank(at') = 0
    BY DEF Rank
  <2>2. Rank(at) \in {1, 2}
    BY DEF Rank, Within
  <2> QED BY ONLY <2>1, <2>2
<1>2. pos \in 1..(Len(text) + 1) /\ IsStack(stack)
  BY Zenon DEF TextInv
<1>3. at' \in Within \cup {"push", "open", "done", "failed"} /\ at' \notin Within
  BY DEF Within
<1> QED BY Zenon, <1>1, <1>2, <1>3, StepReads

LEMMA OpenReads ==
  ASSUME TextInv, text' = text, Text!Peek \in Token,
         NEW kind \in {"obj", "arr"}, Text!Push(kind), Text!Go("item", 1)
  PROVE  TextInv' /\ ToRead' < ToRead
<1>1. IsFrame(Text!Open(kind))
  BY DEF IsFrame, Text!Open
<1>2. stack' = Append(stack, Text!Open(kind)) /\ IsStack(stack)
  BY Zenon DEF Text!Push, TextInv
<1>3. IsStack(stack') /\ Len(stack') > 0
  BY Zenon, <1>1, <1>2, StackPush
<1>4. pos' = pos + 1 /\ at' = "item"
  BY Zenon DEF Text!Go
<1>5. at' \in Within \cup {"push", "open"}
  BY <1>4 DEF Within
<1> QED BY Zenon, <1>3, <1>4, <1>5, TokenReads

\* The search for the next block finds one or comes to the end of the file.
LEMMA PushReads == TextInv /\ Text!FindPush => TextInv' /\ ToRead' < ToRead
<1> SUFFICES ASSUME TextInv, Text!FindPush PROVE TextInv' /\ ToRead' < ToRead
  OBVIOUS
<1> DEFINE found == {p \in pos..Len(text) : text[p] = ".push("}
<1>1. text' = text /\ stack' = stack /\ at = "push"
  BY DEF Text!FindPush, Text!Stay
<1>2. CASE found # {}
  <2>1. at' = "open" /\ pos' = (CHOOSE p \in found : \A q \in found : p <= q) + 1
    BY <1>2 DEF Text!FindPush
  <2>2. found \in SUBSET (pos..Len(text))
    OBVIOUS
  <2> HIDE DEF found
  <2>3. Len(text) \in Nat /\ pos \in 1..(Len(text) + 1)
    BY Zenon, TextNumbers
  <2>4. pos' \in 1..(Len(text) + 1) /\ pos < pos'
    BY Zenon, <1>2, <2>1, <2>2, <2>3, FirstPlace
  <2>5. IsStack(stack')
    BY Zenon, <1>1 DEF TextInv
  <2>6. at' \in Within \cup {"push", "open", "done", "failed"} /\ at' \notin Within
    BY <2>1 DEF Within
  <2> QED BY Zenon, <1>1, <2>4, <2>5, <2>6, StepReads
<1>3. CASE found = {}
  <2>1. at' \in {"done", "failed"} /\ pos' = pos
    BY <1>3 DEF Text!FindPush
  <2>2. at \in Within \cup {"push", "open"}
    BY <1>1
  <2> QED BY Zenon, <1>1, <2>1, <2>2, EndReads
<1> QED BY Zenon, <1>2, <1>3

\* A block begins with its brace.
LEMMA ExpectReads == TextInv /\ Text!Expect => TextInv' /\ ToRead' < ToRead
<1> SUFFICES ASSUME TextInv, Text!Expect PROVE TextInv' /\ ToRead' < ToRead
  OBVIOUS
<1>1. at \in Within \cup {"push", "open"}
  BY DEF Text!Expect
<1>2. CASE Text!Peek = "{"
  <2>1. Text!Push("obj") /\ Text!Go("item", 1) /\ text' = text
    BY Zenon, <1>2 DEF Text!Expect, Text!Stay
  <2>2. Text!Peek \in Token
    BY Zenon, <1>2 DEF Token
  <2> QED BY Zenon, <2>1, <2>2, OpenReads
<1>3. CASE Text!Bail
  BY Zenon, <1>1, <1>3, EndReads DEF Text!Bail, Text!Stay
<1> QED BY Zenon, <1>2, <1>3 DEF Text!Expect

\* A key, or what is no key.
LEMMA KeyReads == TextInv /\ Text!ReadKey => TextInv' /\ ToRead' < ToRead
<1> SUFFICES ASSUME TextInv, Text!ReadKey PROVE TextInv' /\ ToRead' < ToRead
  OBVIOUS
<1>1. at \in Within /\ IsStack(stack) /\ Len(stack) > 0
  BY Zenon DEF Text!ReadKey, TextInv, Within
<1>2. ASSUME Text!IsKey(Text!Peek) \/ Text!IsString(Text!Peek) \/ Text!IsNumber(Text!Peek),
             stack' = [stack EXCEPT ![Len(stack)].key = Text!Peek], Text!Go("colon", 1), text' = text
      PROVE  TextInv' /\ ToRead' < ToRead
  <2>1. Text!Peek \in Token
    BY Zenon, <1>2 DEF Token, Text!IsKey, Text!IsString, Text!IsNumber
  <2>2. Len(stack) \in DOMAIN stack /\ IsFrame(stack[Len(stack)])
    BY <1>1, StackLength
  <2>3. IsFrame([stack[Len(stack)] EXCEPT !.key = Text!Peek])
    BY Zenon, <2>2, FrameKeyed
  <2>4. stack' = [stack EXCEPT ![Len(stack)] = [stack[Len(stack)] EXCEPT !.key = Text!Peek]]
    BY <1>2
  <2>5. IsStack(stack') /\ Len(stack') > 0
    BY Zenon, <1>1, <2>3, <2>4, StackTop
  <2>6. pos' = pos + 1 /\ at' \in Within \cup {"push", "open"}
    BY Zenon, <1>2 DEF Text!Go, Within
  <2> QED BY Zenon, <1>2, <2>1, <2>5, <2>6, TokenReads
<1>3. CASE Text!Bail
  BY Zenon, <1>1, <1>3, EndReads DEF Text!Bail, Text!Stay
<1> QED BY Zenon, <1>2, <1>3 DEF Text!ReadKey, Text!Stay

\* Its colon.
LEMMA ColonReads == TextInv /\ Text!ReadColon => TextInv' /\ ToRead' < ToRead
<1> SUFFICES ASSUME TextInv, Text!ReadColon PROVE TextInv' /\ ToRead' < ToRead
  OBVIOUS
<1>1. at \in Within /\ IsStack(stack) /\ Len(stack) > 0
  BY Zenon DEF Text!ReadColon, TextInv, Within
<1>2. ASSUME Text!Peek = ":", Text!Go("value", 1), stack' = stack, text' = text
      PROVE  TextInv' /\ ToRead' < ToRead
  <2>1. Text!Peek \in Token
    BY Zenon, <1>2 DEF Token
  <2>2. pos' = pos + 1 /\ at' \in Within \cup {"push", "open"}
    BY Zenon, <1>2 DEF Text!Go, Within
  <2>3. IsStack(stack') /\ Len(stack') > 0
    BY Zenon, <1>1, <1>2
  <2> QED BY Zenon, <1>2, <2>1, <2>2, <2>3, TokenReads
<1>3. CASE Text!Bail
  BY Zenon, <1>1, <1>3, EndReads DEF Text!Bail, Text!Stay
<1> QED BY Zenon, <1>2, <1>3 DEF Text!ReadColon, Text!Stay

\* A value: something opens, something is given, or it is none.
LEMMA ValueReads == TextInv /\ Text!ReadValue => TextInv' /\ ToRead' < ToRead
<1> SUFFICES ASSUME TextInv, Text!ReadValue PROVE TextInv' /\ ToRead' < ToRead
  OBVIOUS
<1>1. at \in Within /\ IsStack(stack) /\ Len(stack) > 0
  BY Zenon DEF Text!ReadValue, TextInv, Within
<1>2. text' = text
  BY Zenon DEF Text!ReadValue, Text!Stay
<1>3. ASSUME Text!Peek = "{", Text!Push("obj"), Text!Go("item", 1)
      PROVE  TextInv' /\ ToRead' < ToRead
  <2>1. Text!Peek \in Token
    BY Zenon, <1>3 DEF Token
  <2> QED BY Zenon, <1>2, <1>3, <2>1, OpenReads
<1>4. ASSUME Text!Peek = "[", Text!Push("arr"), Text!Go("item", 1)
      PROVE  TextInv' /\ ToRead' < ToRead
  <2>1. Text!Peek \in Token
    BY Zenon, <1>4 DEF Token
  <2> QED BY Zenon, <1>2, <1>4, <2>1, OpenReads
<1>5. ASSUME NEW value, stack' = Text!Given(stack, value), Text!Go("comma", 1),
             Text!IsString(Text!Peek) \/ Text!IsNumber(Text!Peek)
      PROVE  TextInv' /\ ToRead' < ToRead
  <2>1. Text!Peek \in Token
    BY Zenon, <1>5 DEF Token, Text!IsString, Text!IsNumber
  <2>2. IsStack(stack') /\ Len(stack') > 0
    BY Zenon, <1>1, <1>5, StackGiven
  <2>3. pos' = pos + 1 /\ at' \in Within \cup {"push", "open"}
    BY Zenon, <1>5 DEF Text!Go, Within
  <2> QED BY Zenon, <1>2, <2>1, <2>2, <2>3, TokenReads
<1>6. CASE at' = "failed" /\ UNCHANGED <<pos, stack>>
  BY Zenon, <1>1, <1>2, <1>6, EndReads
<1> QED BY Zenon, <1>3, <1>4, <1>5, <1>6 DEF Text!ReadValue

\* A comma, or the closing bracket, which is only looked at.
LEMMA CommaReads == TextInv /\ Text!ReadComma => TextInv' /\ ToRead' < ToRead
<1> SUFFICES ASSUME TextInv, Text!ReadComma PROVE TextInv' /\ ToRead' < ToRead
  OBVIOUS
<1>1. at = "comma" /\ at \in Within /\ IsStack(stack) /\ Len(stack) > 0
  BY Zenon DEF Text!ReadComma, TextInv, Within
<1>2. ASSUME Text!Peek = ",", Text!Go("item", 1), stack' = stack, text' = text
      PROVE  TextInv' /\ ToRead' < ToRead
  <2>1. Text!Peek \in Token
    BY Zenon, <1>2 DEF Token
  <2>2. pos' = pos + 1 /\ at' \in Within \cup {"push", "open"}
    BY Zenon, <1>2 DEF Text!Go, Within
  <2>3. IsStack(stack') /\ Len(stack') > 0
    BY Zenon, <1>1, <1>2
  <2> QED BY Zenon, <1>2, <2>1, <2>2, <2>3, TokenReads
<1>3. ASSUME Text!Go("item", 0), stack' = stack, text' = text
      PROVE  TextInv' /\ ToRead' < ToRead
  <2>1. pos \in 1..(Len(text) + 1) /\ pos \in Nat
    <3>1. Len(text) \in Nat /\ pos \in 1..(Len(text) + 1)
      BY Zenon, TextNumbers
    <3> QED BY <3>1
  <2>2. pos' = pos + 0 /\ at' = "item"
    BY Zenon, <1>3 DEF Text!Go
  <2>3. pos' = pos /\ pos' \in 1..(Len(text) + 1)
    BY <2>1, <2>2
  <2>4. Rank(at') < Rank(at)
    BY <1>1, <2>2 DEF Rank
  <2>5. IsStack(stack') /\ Len(stack') > 0
        /\ at' \in Within \cup {"push", "open", "done", "failed"}
    BY Zenon, <1>1, <1>3, <2>2 DEF Within
  <2> QED BY Zenon, <1>3, <2>3, <2>4, <2>5, StepReads
<1>4. CASE Text!Bail
  BY Zenon, <1>1, <1>4, EndReads DEF Text!Bail, Text!Stay
<1> QED BY Zenon, <1>2, <1>3, <1>4 DEF Text!ReadComma, Text!Stay

\* A bracket closes what is on the top, and the outermost the block.
LEMMA CloseReads == TextInv /\ Text!Close => TextInv' /\ ToRead' < ToRead
<1> SUFFICES ASSUME TextInv, Text!Close PROVE TextInv' /\ ToRead' < ToRead
  OBVIOUS
<1>1. at \in Within /\ IsStack(stack) /\ text' = text
  BY Zenon DEF Text!Close, Text!Stay, TextInv, Within
<1>2. Text!Peek \in Token
  BY Zenon DEF Text!Close, Text!Closer, Token
<1>3. ASSUME NEW value, Len(stack) > 1, stack' = Text!Given(Text!Front(stack), value), Text!Go("comma", 1)
      PROVE  TextInv' /\ ToRead' < ToRead
  <2>1. IsStack(Text!Front(stack)) /\ Len(Text!Front(stack)) > 0
    BY Zenon, <1>1, <1>3, StackFront
  <2>2. IsStack(stack') /\ Len(stack') > 0
    BY Zenon, <1>3, <2>1, StackGiven
  <2>3. pos' = pos + 1 /\ at' \in Within \cup {"push", "open"}
    BY Zenon, <1>3 DEF Text!Go, Within
  <2> QED BY Zenon, <1>1, <1>2, <2>2, <2>3, TokenReads
<1>4. ASSUME stack' = <<>>, Text!Go("push", 1)
      PROVE  TextInv' /\ ToRead' < ToRead
  <2>1. IsStack(stack')
    BY Zenon, <1>4, EmptyStack
  <2>2. pos' = pos + 1 /\ at' = "push"
    BY Zenon, <1>4 DEF Text!Go
  <2>3. at' \in Within \cup {"push", "open"} /\ at' \notin Within
    BY <2>2 DEF Within
  <2> QED BY Zenon, <1>1, <1>2, <2>1, <2>2, <2>3, TokenReads
<1>5. CASE at' = "failed" /\ UNCHANGED <<pos, stack>>
  BY Zenon, <1>1, <1>5, EndReads
<1> QED BY Zenon, <1>3, <1>4, <1>5 DEF Text!Close

\* So every step of the reader leaves less to read.
LEMMA TextStep == TextInv /\ Text!Next => TextInv' /\ ToRead' < ToRead
BY Zenon, SkipReads, PushReads, ExpectReads, KeyReads, ColonReads, ValueReads, CommaReads, CloseReads
   DEF Text!Next

-----------------------------------------------------------------------------
(* The run composed of the parts: the part that was chosen keeps its       *)
(* invariant, and whatever the part is, the announcement of a version      *)
(* takes one of its own steps or none.                                     *)
partsVars == <<part, vars, timeVars, minuteVars, textVars, noticeVars>>

DailyInv ==
  /\ TypeOK
  /\ part = "times" => TimesInv
  /\ part = "minutes" => MinutesInv
  /\ part = "notices" => NoticesInv
  /\ part = "text" => TextInv

\* Every part starts in its invariant, and the announcement in its initial states.
LEMMA PartsBegin == PartsInit => Init /\ DailyInv
<1> SUFFICES ASSUME PartsInit PROVE Init /\ DailyInv
  OBVIOUS
<1>1. Init
  BY DEF PartsInit, BroadcastRests
<1>2. /\ part = "times" => Times!Init
      /\ part = "minutes" => Minutes!Init
      /\ part = "notices" => Notices!Init
      /\ part = "text" => Text!Init
  BY DEF PartsInit
<1> QED BY <1>1, <1>2, InitTypeOK, TimesBegin, MinutesBegin, NoticesBegin, TextBegin DEF DailyInv

\* A step of the run is one of the announcement, or leaves that alone.
LEMMA PartsNextIsNext == PartsNext => [Next]_vars
BY DEF PartsNext

\* Every step keeps the invariant of the part that was chosen ...
LEMMA PartsNextInv == DailyInv /\ PartsNext => DailyInv'
<1> SUFFICES ASSUME DailyInv, PartsNext PROVE DailyInv'
  OBVIOUS
<1>1. TypeOK'
  BY PartsNextIsNext, NextTypeOK DEF DailyInv
<1>2. part' = part
      /\ (part = "times" => Times!Next)
      /\ (part = "minutes" => Minutes!Next)
      /\ (part = "notices" => Notices!Next)
      /\ (part = "text" => Text!Next)
  BY DEF PartsNext
<1> QED BY <1>1, <1>2, TimesStep, MinutesStep, NoticesStep, TextStep DEF DailyInv

\* ... and so does a step in which nothing changes.
LEMMA PartsRest == DailyInv /\ UNCHANGED partsVars => DailyInv'
<1> SUFFICES ASSUME DailyInv, UNCHANGED partsVars PROVE DailyInv'
  OBVIOUS
<1>1. TypeOK'
  BY NextTypeOK DEF DailyInv, partsVars
<1>2. part' = part /\ UNCHANGED timeVars /\ UNCHANGED minuteVars /\ UNCHANGED noticeVars
      /\ UNCHANGED textVars
  BY DEF partsVars
<1>3. TimesInv => TimesInv'
  BY <1>2, OwnedIfSame, CoveredIfSame DEF timeVars, TimesInv, TimesTypes
<1>4. ASSUME MinutesInv PROVE MinutesInv'
  <2>1. /\ times' = times /\ unmerged' = unmerged /\ bitmap' = bitmap
        /\ lesson' = lesson /\ window' = window /\ minutes' = minutes
    BY <1>2 DEF minuteVars
  <2>2. Minutes!TypeOK'
    BY <1>4, <2>1, MinutesTypes, MinutesTyped DEF MinutesInv
  <2>3. /\ Minutes!Active(bitmap)
             = UNION {Minutes!Around(c, Minutes!MARGIN, Minutes!MARGIN) : c \in times \ unmerged}
        /\ \A c \in lesson : Minutes!Active(window)
             = IF minutes < Minutes!MARGIN THEN Minutes!Around(c, minutes, 0)
               ELSE Minutes!Around(c, Minutes!MARGIN, minutes - Minutes!MARGIN)
    BY <1>4 DEF MinutesInv, Minutes!MarginsAreExact
  <2>4. Minutes!MarginsAreExact'
    BY <2>1, <2>3 DEF Minutes!MarginsAreExact, Minutes!Active
  <2> QED BY <2>2, <2>4 DEF MinutesInv
<1>5. NoticesInv => NoticesInv'
  BY <1>2 DEF noticeVars, NoticesInv, Notices!TypeOK, Notices!ToldOnce, ClockIsAhead,
       ConclusionsArePast, ConclusionsAreOld, BackIsServed, LostIsNoted, BadAreReminded
<1>6. TextInv => TextInv'
  BY <1>2 DEF textVars, TextInv, IsStack, IsFrame
<1> QED BY <1>1, <1>2, <1>3, <1>4, <1>5, <1>6 DEF DailyInv

\* The invariants of the parts say what the run checks.
LEMMA DailyIsKept == DailyInv => TimetablesAreKept
BY TimesPromise, MinutesPromise, NoticesPromise DEF DailyInv, TimetablesAreKept

(* Nobody has a timetable that no group, command, crash or old link        *)
(* explains, and the calendar never loses its end; the minutes watched are *)
(* exactly those of the lessons with their margins; and a lost login is    *)
(* noticed, told once and served again in time (timetable.rs, calendar.rs, *)
(* TimeBitMap, warm_up and send_reports).                                  *)
THEOREM DailyTablesAreKept == PartsSpec => []TimetablesAreKept
<1>1. DailyInv /\ [PartsNext]_partsVars => DailyInv'
  BY PartsNextInv, PartsRest
<1> QED BY <1>1, PartsBegin, DailyIsKept, PTL DEF PartsSpec, partsVars

\* Within the file, with something open whenever an entry is read, and with so much
\* left to read.
ReaderIsWithin ==
  part = "text" => Text!TypeOK /\ (at \in Within => Len(stack) > 0) /\ ToRead \in Nat

(* The reader of the calendar stays within the file and always has an      *)
(* object or an array open when it reads an entry of one, and every step   *)
(* leaves it less to read: it ends on any file, wherever that breaks off   *)
(* (parse, calendar.rs: every loop of the scanner moves on or fails).      *)
THEOREM CalendarReaderEnds ==
  PartsSpec => []ReaderIsWithin /\ [][part = "text" => ToRead' < ToRead]_partsVars
<1>1. DailyInv /\ [PartsNext]_partsVars => DailyInv'
  BY PartsNextInv, PartsRest
<1>2. DailyInv => ReaderIsWithin
  <2> SUFFICES ASSUME TextInv PROVE Text!TypeOK /\ (at \in Within => Len(stack) > 0) /\ ToRead \in Nat
    BY DEF DailyInv, ReaderIsWithin
  <2>1. \A i \in DOMAIN stack : stack[i].kind \in {"obj", "arr"}
    BY StackLength DEF TextInv, IsFrame
  <2>2. /\ pos \in 1..(Len(text) + 1)
        /\ at \in {"push", "open", "item", "colon", "value", "comma", "done", "failed"}
        /\ at \in Within => Len(stack) > 0
    BY DEF TextInv, Within
  <2> QED BY <2>1, <2>2, LeftOver DEF Text!TypeOK
<1>3. DailyInv /\ [PartsNext]_partsVars => [part = "text" => ToRead' < ToRead]_partsVars
  BY TextStep DEF DailyInv, PartsNext
<1> QED BY <1>1, <1>2, <1>3, PartsBegin, PTL DEF PartsSpec, partsVars

(* The composed run announces versions as VersionBroadcast says, so what   *)
(* is proved of that holds of it.                                          *)
THEOREM DailyAnnounces == PartsSpec => Spec
<1>1. [PartsNext]_partsVars => [Next]_vars
  BY PartsNextIsNext DEF partsVars
<1> QED BY <1>1, PartsBegin, PTL DEF PartsSpec, Spec, partsVars
=============================================================================
