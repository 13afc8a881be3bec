----------------------------- MODULE WatchWindow -----------------------------
(***************************************************************************)
(* The minutes of a day on which a user is watched: lessons as the school  *)
(* gives them (ClockTime, CourseTime::new), the page on which they are     *)
(* edited (src/src/web/timetable/expose.rs), the bitmap of minutes with    *)
(* its margins (TimeBitMap in src/src/api/xmu_service/jw/schedule/         *)
(* readable.rs), and the two readings of it (src/src/logic/rollcall/       *)
(* time.rs): the table of the day and the classes in session now.          *)
(*                                                                         *)
(* A word of the bitmap is the set of its bits.  A lesson is the pair of   *)
(* its ends; its weeks and its day are in Timetable.                       *)
(***************************************************************************)
EXTENDS Naturals, FiniteSets

CONSTANTS
    Raw,    \* lessons of the school: their ends as hours times 100 and minutes
    Edit    \* lessons a page sends: their ends in minutes

VARIABLES
    times,      \* the lessons of the stored timetable
    unmerged,       \* the lessons not yet merged into the table of the day
    bitmap,     \* the table of the day
    lesson,     \* the lesson whose window is being made, or none
    window,     \* the window so far
    minutes     \* the minutes it was extended by

vars == <<times, unmerged, bitmap, lesson, window, minutes>>

WORDS == 23
WIDTH == 64
DAY == 1440
MARGIN == 10

Word == 0..WORDS-1
Empty == [i \in Word |-> {}]
Active(b) == UNION {{WIDTH * i + j : j \in b[i]} : i \in Word}

Bitmap == [Word -> SUBSET (0..WIDTH-1)]

TypeOK ==
    /\ times \subseteq (0..DAY-1) \X (0..DAY)
    /\ unmerged \subseteq times /\ lesson \in {{c} : c \in unmerged} \cup {{}}
    /\ bitmap \in Bitmap /\ window \in Bitmap
    /\ minutes \in 0..2*MARGIN

Init ==
    /\ times = {} /\ unmerged = {} /\ bitmap = Empty
    /\ lesson = {} /\ window = Empty /\ minutes = 0

-----------------------------------------------------------------------------
\* ClockTime::from_military: the hour is cut to a byte before it is tested.
Hour(s) == (s \div 100) % 256
Minute(s) == s % 100
IsTime(s) == Hour(s) < 24 /\ Minute(s) < 60
FromMilitary(s) == 60 * Hour(s) + Minute(s)

\* CourseTime::new: one bad end refuses the lesson, one lesson the timetable.
Readable(raw) == IsTime(raw[1]) /\ IsTime(raw[2])
Lesson(raw) == <<FromMilitary(raw[1]), FromMilitary(raw[2])>>

\* to_course_view and parse_course_view go over hours, cut to a byte, and minutes.
AsMinutes(m) == 60 * ((m \div 60) % 256) + (m % 60)
View(c) == <<AsMinutes(c[1]), AsMinutes(c[2])>>

\* parse_course_view: a lesson may end with the day, and must end after it began.
Saveable(view) == view[1] < DAY /\ view[2] <= DAY /\ view[1] < view[2]

\* add_range: a lesson that ends before it begins adds nothing.
Range(start, end) ==
    [i \in Word |-> {j \in 0..WIDTH-1 : WIDTH * i + j \in start..end-1}]

\* One minute earlier: each word takes the lowest bit of the one above.
Earlier(b) ==
    [i \in Word |->
        b[i] \cup {j - 1 : j \in b[i] \ {0}}
             \cup IF i + 1 \in Word /\ 0 \in b[i + 1] THEN {WIDTH - 1} ELSE {}]

\* One minute later: each word takes the highest bit of the one below, and
\* the minutes past the end of the day are cleared.
Later(b) ==
    [i \in Word |->
        (b[i] \cup {j + 1 : j \in b[i] \ {WIDTH - 1}}
              \cup IF i > 0 /\ WIDTH - 1 \in b[i - 1] THEN {0} ELSE {})
        \ IF i = WORDS - 1 THEN 32..WIDTH-1 ELSE {}]

-----------------------------------------------------------------------------
\* The table of the day is computed from the timetable as it is now.
Stored(cs) == times' = cs /\ unmerged' = cs /\ bitmap' = Empty

\* ScheduleCourseTime::new, on the lessons of a semester.
SignTime(raws) ==
    /\ \A r \in raws : Readable(r)
    /\ Stored({Lesson(r) : r \in raws})
    /\ UNCHANGED <<lesson, window, minutes>>

\* task_save_handler, on what the page was shown and one more lesson.
SavePage(view) ==
    LET views == {View(c) : c \in times} \cup {view} IN
    /\ \A v \in views : Saveable(v)
    /\ Stored({View(v) : v \in views})
    /\ UNCHANGED <<lesson, window, minutes>>

\* get_today_courses, one lesson of today at a time; watch_window extends it
\* minute by minute, ten to the front and then ten to the back, ...
TakeLesson(c) ==
    /\ lesson = {} /\ lesson' = {c}
    /\ window' = Range(c[1], c[2]) /\ minutes' = 0
    /\ UNCHANGED <<times, unmerged, bitmap>>
Extend ==
    /\ lesson # {} /\ minutes < 2 * MARGIN
    /\ window' = IF minutes < MARGIN THEN Earlier(window) ELSE Later(window)
    /\ minutes' = minutes + 1
    /\ UNCHANGED <<times, unmerged, bitmap, lesson>>
\* ... and what it is then is merged into the table.
Merge ==
    /\ lesson # {} /\ minutes = 2 * MARGIN
    /\ bitmap' = [i \in Word |-> bitmap[i] \cup window[i]]
    /\ unmerged' = unmerged \ lesson /\ lesson' = {} /\ window' = Empty /\ minutes' = 0
    /\ UNCHANGED times

Next ==
    \/ \E r, s \in Raw : times = {} /\ SignTime({r, s})
    \/ \E v \in Edit : unmerged = {} /\ Cardinality(times) < 2 /\ SavePage(v)
    \/ \E c \in unmerged : TakeLesson(c)
    \/ Extend \/ Merge

Spec == Init /\ [][Next]_vars

-----------------------------------------------------------------------------
\* The minutes of the day from some before a lesson to some after it.
Around(c, before, after) ==
    {m \in 0..DAY-1 : c[1] < c[2] /\ c[1] <= m + before /\ m < c[2] + after}

(* The table of the day holds exactly the minutes from ten before a merged *)
(* lesson to ten after it, within the day, and a window being made those   *)
(* it was extended by so far: nothing is lost or gained where a word or    *)
(* the day ends, and a lesson without a duration adds nothing.             *)
MarginsAreExact ==
    /\ Active(bitmap) = UNION {Around(c, MARGIN, MARGIN) : c \in times \ unmerged}
    /\ \A c \in lesson :
          Active(window) = IF minutes < MARGIN THEN Around(c, minutes, 0)
                           ELSE Around(c, MARGIN, minutes - MARGIN)

(* A page can save again what it was shown, but for a lesson the school    *)
(* gave without a duration.                                                *)
PageAcceptsWhatItShows == \A c \in times : Saveable(View(c)) \/ c[1] >= c[2]
=============================================================================
