--------------------------- MODULE SchoolCalendar ---------------------------
(***************************************************************************)
(* The school calendar (src/src/api/xmu_service/calendar.rs) and the       *)
(* counting of weeks (src/src/api/xmu_service/time.rs).                    *)
(*                                                                         *)
(* A date is a number, date 0 a Monday.  A calendar is its holidays, each  *)
(* a closed span of free days and the days worked in exchange; it is made  *)
(* from the blocks of years of school.js.  What is used is the calendar    *)
(* installed last, or the table compiled in.                               *)
(***************************************************************************)
EXTENDS Integers, FiniteSets, FiniteSetsExt

CONSTANTS
    Fallback,       \* fallback_calendar: the table compiled in
    Published,      \* what school.js may be: sets of blocks of years
    FALLBACK_START, \* FALLBACK_START_DATE
    OLDEST, NEWEST, \* how far back and ahead a start of semester is believed
    Absent

VARIABLES
    today,      \* the date
    live,       \* LIVE: the calendar that was fetched, or Absent
    start,      \* SEMESTER_START: the Monday it began, or Absent
    fetches,    \* tries to fetch the calendar, one at the start and one a day
    known       \* history: every free day of a calendar that was in use

Days(span) == span[1]..span[2]

\* An academic year may lack its name, which fails the whole file.
NamedYears(blocks) == \A b \in blocks : b.named

\* parse: the holidays of all blocks as one table; a broken block or a file
\* without blocks fails.
Parse(blocks) ==
    IF blocks # {} /\ NamedYears(blocks) THEN UNION {b.holidays : b \in blocks} ELSE Absent

\* coverage of a table with a holiday ends with the last of its dates.
Dates(cal) == UNION {{h.span[1], h.span[2]} \cup h.makeups : h \in cal}
CoverageEnd(cal) == Max(Dates(cal))

Current == IF live = Absent THEN Fallback ELSE live

FreeDays(cal) == UNION {Days(h.span) : h \in cal}
DayKind(cal, d) ==
    CASE d \in FreeDays(cal) -> "holiday"
      [] d \notin FreeDays(cal) /\ \E h \in cal : d \in h.makeups -> "makeup"
      [] OTHER -> "normal"

CalendarInit ==
    /\ today = 0
    /\ live = Absent /\ start = Absent /\ fetches = 0
    /\ known = FreeDays(Fallback)

\* Faulty variant of Accepted; no specification uses it: any calendar with a
\* holiday takes the place of the one in use.
Accepted_AnyEnd(cal) == cal # Absent /\ cal # {}

\* fetch_and_install: a file that cannot be read or parsed, or has no holiday,
\* changes nothing; neither does one that ends before the one in use.  The task
\* never fails, so its runner never falls into the loop of retries.
Accepted(cal) ==
    /\ cal # Absent /\ cal # {}
    /\ Current # {} => CoverageEnd(cal) >= CoverageEnd(Current)
FetchCalendar(blocks) ==
    /\ fetches <= today
    /\ fetches' = fetches + 1
    /\ live' = IF Accepted(Parse(blocks)) THEN Parse(blocks) ELSE live
    /\ known' = IF Accepted(Parse(blocks)) THEN known \cup FreeDays(Parse(blocks)) ELSE known
    /\ UNCHANGED <<today, start>>

\* get_week_number: Rust divides towards zero; week 1 is the first.
SemesterStart == IF start = Absent THEN FALLBACK_START ELSE start
WeekNumber(from, d) ==
    IF d >= from THEN (d - from) \div 7 + 1 ELSE -((from - d) \div 7)
WeekDay(from, d) == ((d - from) % 7) + 1

\* set_semester_start: aligned to its Monday; one out of range is not believed.
SetSemesterStart(d) ==
    /\ d - today \in (-OLDEST)..NEWEST
    /\ start' = d - (d % 7)
    /\ UNCHANGED <<today, live, fetches, known>>

\* Midnight in Beijing.
NextDay ==
    /\ today' = today + 1
    /\ UNCHANGED <<live, start, fetches, known>>
=============================================================================
