---------------------------- MODULE SemesterChoice ----------------------------
(***************************************************************************)
(* Which semester a timetable is drawn for                                 *)
(* (src/src/api/xmu_service/llm/choose_timetable.rs): the newest of the    *)
(* semesters the school lists, or the one a language model reads out of    *)
(* what the user wrote (ask_as, src/src/api/llm/tool/llm.rs).              *)
(*                                                                         *)
(* A code is a number, or text that is none; codes are compared as numbers *)
(* where both are, and else by their letters.  So a code is a record of    *)
(* its number (0 for none) and its place among all codes in the order of   *)
(* letters.                                                                *)
(***************************************************************************)
EXTENDS Naturals, Sequences

CONSTANTS
    Numbers,        \* numbers of codes
    Places,         \* places in the order of letters
    MaxRows,        \* bound: semesters in the list
    MAX_ASKS        \* requests to the language model

VARIABLES
    rows,       \* the school's list
    described,  \* whether the user wrote anything after the command
    at,         \* what the command waits for
    asks,       \* requests to the model so far
    chosen      \* the code the timetable is asked for with

vars == <<rows, described, at, asks, chosen>>

Code == [number : Numbers \cup {0}, place : Places]
None == [number |-> 0, place |-> 0]
Listed(code) == \E i \in DOMAIN rows : rows[i] = code

TypeOK ==
    /\ rows \in Seq(Code) /\ Len(rows) <= MaxRows
    /\ described \in BOOLEAN
    /\ at \in {"list", "ask", "schedule", "drawn", "failed"}
    /\ asks \in 0..MAX_ASKS
    /\ chosen \in Code \cup {None}

\* strip_description: what is left of the message without the command.
Init ==
    /\ rows = <<>> /\ described \in BOOLEAN
    /\ at = "list" /\ asks = 0 /\ chosen = None

\* latest_semester: max_by, which keeps the later of two that are equal.
Greater(a, b) ==
    IF a.number # 0 /\ b.number # 0 THEN a.number > b.number ELSE a.place > b.place
LatestSemester(list) ==
    LET best[n \in DOMAIN list] ==
            IF n > 1 /\ Greater(best[n - 1], list[n]) THEN best[n - 1] ELSE list[n]
    IN  best[Len(list)]

Fail == at' = "failed" /\ UNCHANGED chosen
Choose(code) == at' = "schedule" /\ chosen' = code

\* default_schedule: the newest of the list, which must not be empty.
DefaultSchedule(list) == IF list = <<>> THEN Fail ELSE Choose(LatestSemester(list))

\* get_from_client: the list, and without a description the newest.
GetList ==
    /\ at = "list"
    /\ \/ /\ rows' \in UNION {[1..n -> Code] : n \in 0..MaxRows}
          /\ IF ~described THEN DefaultSchedule(rows')
             ELSE IF rows' = <<>> THEN Fail ELSE at' = "ask" /\ UNCHANGED chosen
       \/ Fail /\ UNCHANGED rows
    /\ UNCHANGED <<described, asks>>

\* ask_as: asked again until there is an answer, up to MAX_ASKS; a message the
\* model cannot take ends it at once.  An answer off the list counts for none.
AskAs ==
    /\ at = "ask"
    /\ \/ \E code \in Code :
             /\ IF Listed(code) THEN Choose(code) ELSE DefaultSchedule(rows)
             /\ UNCHANGED asks
       \/ asks < MAX_ASKS /\ asks' = asks + 1 /\ UNCHANGED <<at, chosen>>
       \/ Fail /\ UNCHANGED asks
    /\ UNCHANGED <<rows, described>>

GetSchedule ==
    /\ at = "schedule"
    /\ at' \in {"drawn", "failed"}
    /\ UNCHANGED <<rows, described, asks, chosen>>

Next == GetList \/ AskAs \/ GetSchedule

Spec == Init /\ [][Next]_vars

-----------------------------------------------------------------------------
(* The school is asked only for a semester it lists, whatever the model    *)
(* makes up; and in a list of numbers the one chosen without a description *)
(* is the greatest, in whatever order they come (choose_timetable.rs:60).  *)
SemesterIsListed ==
    at \in {"schedule", "drawn"} =>
        /\ Listed(chosen)
        /\ ~described /\ (\A i \in DOMAIN rows : rows[i].number # 0) =>
              \A i \in DOMAIN rows : rows[i].number <= chosen.number
=============================================================================
