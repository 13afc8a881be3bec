------------------------------- MODULE MCDaily -------------------------------
(***************************************************************************)
(* What happens once and what happens daily: the announcement of a version *)
(* at the start of the process (VersionBroadcast, extended), the table of  *)
(* who has class today with the calendar under it (Timetable), the minutes *)
(* of such a table (WatchWindow), the reading of the file of the calendar  *)
(* (CalendarText), and the notices to users whose login is lost            *)
(* (Reminders).  They share nothing here, so a behaviour is one of the     *)
(* five, chosen in its initial state, and the variables of the others      *)
(* stand still.  Cmd also names the users of the last.                     *)
(***************************************************************************)
EXTENDS VersionBroadcast, Integers, FiniteSets

CONSTANTS User, Course, Cmd, Link, MaxDay, MaxEdits,
          Fallback, Published, Weeks, Day, Tables, Raw, Edit,
          DateStrings, Numbers, Files, Missing,
          FALLBACK_START, OLDEST, NEWEST, WEEK_BITS,            \* of the calendar and the weeks
          SESSION_GAP, WARM_RETRY, WARM_MAX_AGE, SIGNED_MARK_TTL,
          WARM_TIME, MaxUpsets, MaxTime                         \* of the notices

VARIABLES
    part,
    today, live, start, fetches, known,
    data, group, table, maint, cmd, link, edits, torn, unowned,
    times, unmerged, bitmap, lesson, window, minutes,
    file, text, pos, stack, at, years, holidays,
    now, alive, reminded, last, warm, tick_pc, began, users, ok, bad, trying, warmed,
    upsets, since, notices

Times == INSTANCE Timetable

Minutes == INSTANCE WatchWindow

Text == INSTANCE CalendarText

Notices == INSTANCE Reminders WITH
    User <- Cmd, pc <- tick_pc, tried <- warmed, told <- notices

\* A calendar that is not empty has a last date, timetables hold lessons, an end
\* of a lesson is a number, and what was concluded of a session counts for a while.
Calendars == {Fallback} \cup {UNION {b.holidays : b \in blocks} : blocks \in Published}
ASSUME DailyAssumption ==
    /\ \A cal \in Calendars :
          /\ Times!Dates(cal) \subseteq Int
          /\ cal # {} => \E last_date \in Times!Dates(cal) : \A d \in Times!Dates(cal) : d <= last_date
    /\ Tables \subseteq SUBSET Course /\ MaxDay \in Nat /\ MaxEdits \in Nat
    /\ Raw \subseteq Nat \X Nat /\ Edit \subseteq Nat \X Nat
    /\ WARM_RETRY \in Nat \ {0} /\ WARM_MAX_AGE \in Nat \ {0} /\ WARM_TIME \in Nat
    /\ SESSION_GAP \in Nat /\ SIGNED_MARK_TTL \in Nat
    /\ MaxUpsets \in Nat /\ MaxTime \in Nat

\* What the file of the calendar is written in: a file is a sequence of tokens,
\* none of which stands for its end.
Token == DateStrings \cup Numbers \cup
    {".push(", ");", "{", "}", "[", "]", ":", ",", "//", "nl", "half", "no date",
     "name", "first", "holidays", "festival", "start", "end", "makeups", "unknown"}
ASSUME CalendarAssumption ==
    /\ \A blocks \in Files, dirty \in BOOLEAN : Text!FileText(blocks, dirty) \in Seq(Token)
    /\ "end of file" \notin Token

minuteVars == <<times, unmerged, bitmap, lesson, window, minutes>>
textVars == <<file, text, pos, stack, at, years, holidays>>
timeVars == <<today, live, start, fetches, known,
              data, group, table, maint, cmd, link, edits, torn, unowned>>
noticeVars == <<now, alive, reminded, last, warm, tick_pc, began, users, ok, bad, trying,
                warmed, upsets, since, notices>>

\* A holiday on a span of days, with the days worked in exchange.
Holiday(from, to, makeups) == [span |-> <<from, to>>, makeups |-> makeups]

\* The table compiled in knows a day off and the day worked for it ...
MCFallback == {Holiday(1, 1, {0})}

\* ... and the file may be empty, lack the name of a year, end before that
\* table, or end later, in two years, without its day off.
MCPublished == {
    {},
    {[named |-> FALSE, holidays |-> MCFallback]},
    {[named |-> TRUE, holidays |-> {Holiday(0, 0, {})}]},
    {[named |-> TRUE, holidays |-> {Holiday(0, 0, {})}], [named |-> TRUE, holidays |-> {Holiday(2, 2, {})}]}}

\* One lesson a week, on the first day of odd weeks.
MCWeeks == [c \in Course |-> {0}]
MCDay == [c \in Course |-> 1]
MCTables == {{}, Course}

\* Lessons at both ends of a day and of a word of its bitmap, one without a
\* duration, an hour that is none, and one that is only when cut to a byte.
MCRaw == {<<0, 5>>, <<2355, 2359>>, <<1005, 1050>>, <<1430, 1610>>, <<1200, 1100>>,
          <<2400, 2410>>, <<25600, 15>>}
MCEdit == {<<1400, 1440>>, <<1440, 1440>>, <<64, 128>>, <<600, 500>>}

\* Years with holidays and without, written as they should be, in another order,
\* and with one commented out in a line or in several.
MCFiles ==
    LET week == [span |-> <<"d1", "d2">>, makeups |-> <<"d3", "d1">>]
        day == [span |-> <<"d3", "d3">>, makeups |-> <<>>]
        Old(way) == [name |-> "2025", first |-> <<"d1", "d3">>, holidays |-> <<week, day>>, out |-> way]
        New(way) == [name |-> "2026", first |-> Missing, holidays |-> <<>>, out |-> way]
    IN  {<<>>, <<Old("no"), New("no")>>, <<New("line"), Old("no")>>, <<New("no"), Old("lines")>>}

TextRests ==
    /\ file = 0 /\ text = 0 /\ pos = 0 /\ stack = 0 /\ at = 0
    /\ years = 0 /\ holidays = 0
NoticesRest ==
    /\ now = 0 /\ alive = 0 /\ reminded = 0 /\ last = 0 /\ warm = 0 /\ tick_pc = 0
    /\ began = 0 /\ users = 0 /\ ok = 0 /\ bad = 0 /\ trying = 0 /\ warmed = 0
    /\ upsets = 0 /\ since = 0 /\ notices = 0
MinutesRest ==
    times = 0 /\ unmerged = 0 /\ bitmap = 0 /\ lesson = 0 /\ window = 0 /\ minutes = 0
TimesRest ==
    /\ today = 0 /\ live = 0 /\ start = 0 /\ fetches = 0 /\ known = 0
    /\ data = 0 /\ group = 0 /\ table = 0 /\ maint = 0 /\ cmd = 0 /\ link = 0
    /\ edits = 0 /\ torn = 0 /\ unowned = 0

BroadcastRests ==
    /\ Init
    /\ VERSION = CHOOSE v \in Release : TRUE
    /\ \A k \in Key : store[k] = Absent

PartsInit ==
    \/ part = "broadcast" /\ Init /\ TimesRest /\ MinutesRest /\ TextRests /\ NoticesRest
    \/ /\ BroadcastRests
       /\ \/ part = "times" /\ Times!Init /\ MinutesRest /\ TextRests /\ NoticesRest
          \/ part = "minutes" /\ TimesRest /\ Minutes!Init /\ TextRests /\ NoticesRest
          \/ part = "text" /\ TimesRest /\ MinutesRest /\ Text!Init /\ NoticesRest
          \/ part = "notices" /\ TimesRest /\ MinutesRest /\ TextRests /\ Notices!Init

PartsNext ==
    /\ UNCHANGED part
    /\ \/ part = "broadcast" /\ Next /\ UNCHANGED <<timeVars, minuteVars, textVars, noticeVars>>
       \/ part = "times" /\ Times!Next /\ UNCHANGED <<vars, minuteVars, textVars, noticeVars>>
       \/ part = "minutes" /\ Minutes!Next /\ UNCHANGED <<vars, timeVars, textVars, noticeVars>>
       \/ part = "text" /\ Text!Next /\ UNCHANGED <<vars, timeVars, minuteVars, noticeVars>>
       \/ part = "notices" /\ Notices!Next /\ UNCHANGED <<vars, timeVars, minuteVars, textVars>>

PartsSpec ==
    /\ PartsInit /\ [][PartsNext]_<<part, vars, timeVars, minuteVars, textVars, noticeVars>>
    /\ WF_maint(part = "times" /\ (Times!MaintRun \/ Times!MaintStore))
    /\ \A k \in Cmd : WF_cmd(part = "times" /\ Times!Proceed(k))

-----------------------------------------------------------------------------
(* Nobody has a timetable without a group but through a command under way, *)
(* one that broke off, or an old editing link; and a calendar in use is    *)
(* never replaced by one that ends earlier (Timetable: TimetableHasGroup,  *)
(* EndIsKept).  The minutes watched are those of the lessons with ten on   *)
(* either side, and a page can save what it was shown (WatchWindow:        *)
(* MarginsAreExact, PageAcceptsWhatItShows).  A user whose login is lost   *)
(* is told so once, and served again in time once it is back (Reminders:   *)
(* ToldOnce, BackInTime, LossIsTold).  The attempts at the list of groups  *)
(* are limited (VersionBroadcast: TypeOK).                                 *)
TimetablesAreKept ==
    /\ TypeOK
    /\ part = "times" => Times!TypeOK /\ Times!TimetableHasGroup /\ Times!EndIsKept
    /\ part = "minutes" =>
          Minutes!TypeOK /\ Minutes!MarginsAreExact /\ Minutes!PageAcceptsWhatItShows
    /\ part = "notices" =>
          Notices!TypeOK /\ Notices!ToldOnce /\ Notices!BackInTime /\ Notices!LossIsTold

(* A file of the calendar that breaks off is never read in half, and one   *)
(* that does not is read as it was written (CalendarText: ReadAsWritten).  *)
CalendarIsReadWhole == part = "text" => Text!TypeOK /\ Text!ReadAsWritten

(* Once nobody edits, the table comes to be that of the timetables, the    *)
(* calendar and the day, and stays so (Timetable: TableCatchesUp).         *)
TableCatchesUp == <>[](part = "times" => table = Times!RunTask)
=============================================================================
