------------------------------ MODULE FailedPages ------------------------------
(***************************************************************************)
(* The pages a failed login leaves behind for whoever reads the logs       *)
(* (save_failed_login_page, src/src/api/xmu_service/login/mod.rs): each is *)
(* written under the time of its failure, and then all but the newest KEEP *)
(* are removed.  Logins fail side by side, and every call on the directory *)
(* is a wait.                                                              *)
(***************************************************************************)
EXTENDS Naturals, FiniteSets

CONSTANTS
    Saver,          \* failed logins under way
    KEEP,           \* LOGIN_FAIL_KEEP
    MaxTime         \* bound of the clock

VARIABLES
    clock,      \* milliseconds
    dir,        \* the pages in the directory, by their time
    saver,      \* what each failed login is at: its list, and what it still removes
    written,    \* history: every page that was written
    spared      \* history: a list was cut short, or a page could not be removed

vars == <<clock, dir, saver, written, spared>>

Time == 1..MaxTime
Idle == [at |-> "idle"]

TypeOK ==
    /\ clock \in Time /\ dir \subseteq written /\ written \subseteq Time
    /\ saver \in [Saver -> [at : {"list", "remove"}, old : SUBSET Time] \cup {Idle}]
    /\ spared \in BOOLEAN

Init ==
    /\ clock = 1 /\ dir = {} /\ written = {} /\ spared = FALSE
    /\ saver = [s \in Saver |-> Idle]

\* The pages of a list that are not among its newest KEEP.
Newer(p, pages) == {q \in pages : q > p}
Excess(pages) == {p \in pages : Cardinality(Newer(p, pages)) >= KEEP}

\* The page is written, over one of the same millisecond; or it cannot be.
Write(s) ==
    /\ saver[s] = Idle
    /\ dir' = dir \cup {clock} /\ written' = written \cup {clock}
    /\ saver' = [saver EXCEPT ![s] = [at |-> "list", old |-> {}]]
    /\ UNCHANGED <<clock, spared>>

\* read_dir, up to its end or its first error.
List(s) ==
    /\ saver[s].at = "list"
    /\ \E pages \in SUBSET dir :
          /\ saver' = [saver EXCEPT ![s] = [at |-> "remove", old |-> Excess(pages)]]
          /\ spared' = (spared \/ pages # dir)
    /\ UNCHANGED <<clock, dir, written>>

\* remove_file, oldest first; an error is passed over.
Remove(s) ==
    /\ saver[s].at = "remove" /\ saver[s].old # {}
    /\ LET p == CHOOSE q \in saver[s].old : Newer(q, saver[s].old) = saver[s].old \ {q}
       IN  /\ saver' = [saver EXCEPT ![s].old = @ \ {p}]
           /\ \/ dir' = dir \ {p} /\ UNCHANGED spared
              \/ spared' = TRUE /\ UNCHANGED dir
    /\ UNCHANGED <<clock, written>>

Saved(s) ==
    /\ saver[s].at = "remove" /\ saver[s].old = {}
    /\ saver' = [saver EXCEPT ![s] = Idle]
    /\ UNCHANGED <<clock, dir, written, spared>>

Tick ==
    /\ clock < MaxTime
    /\ clock' = clock + 1
    /\ UNCHANGED <<dir, saver, written, spared>>

Next == Tick \/ \E s \in Saver : Write(s) \/ List(s) \/ Remove(s) \/ Saved(s)

Spec == Init /\ [][Next]_vars

-----------------------------------------------------------------------------
(* The newest KEEP pages are there, whoever removes old ones meanwhile;    *)
(* and when nobody is saving, they are all there is, unless a removal went *)
(* wrong or a list was cut short (login/mod.rs:309 lists after it wrote).  *)
NewestAreKept ==
    /\ \A p \in written \ dir : Cardinality(Newer(p, written)) >= KEEP
    /\ (\A s \in Saver : saver[s] = Idle) /\ ~spared => Excess(dir) = {}
=============================================================================
