------------------------------ MODULE Reminders ------------------------------
(***************************************************************************)
(* Who is told that the timed sign-in has lost his session, and when he is *)
(* tried again (warm_up, warm_decision, prune_caches and send_reports in   *)
(* src/src/logic/rollcall/time_sign.rs).                                   *)
(*                                                                         *)
(* A tick takes the users who are in class and decides for each whether an *)
(* earlier conclusion on his session is used or he is tried.  All that are *)
(* tried are waited for, and what came out is dated then.  The scouts and  *)
(* the sign-ins of the tick (TimeSign) may find a session lost or working. *)
(* At its end those without a session are told, once until one works.      *)
(***************************************************************************)
EXTENDS Naturals, FiniteSets

CONSTANTS
    User,
    SESSION_GAP, WARM_RETRY, WARM_MAX_AGE, SIGNED_MARK_TTL,
    WARM_TIME,  \* the longest a warm-up takes
    MaxUpsets,  \* bound: logins, lost sessions and requests that fail
    MaxTime     \* bound of the clock

VARIABLES
    now,        \* the clock
    alive,      \* users whose session works, or can be recovered
    reminded,   \* NOTLOGIN_REMINDED
    last,       \* LAST_ACTIVE: {} or the one time
    warm,       \* WARM_STATE: {} or the one conclusion and its time
    pc,         \* what the tick is at
    began,      \* when it, or the last one, began
    users,      \* its users
    ok, bad,    \* those with a session, and those without (notlogin)
    trying,     \* those whose session is being tried
    tried,      \* those of whom that is over, with what came out
    upsets,     \* logins, lost sessions and failures so far
    since,      \* history: when alive or dead began, or the last failure
    told        \* history: notices to a user since his session was seen to work

vars == <<now, alive, reminded, last, warm, pc, began, users, ok, bad, trying,
          tried, upsets, since, told>>
tables == <<reminded, last, warm>>
tick == <<pc, began, users, ok, bad, trying, tried>>

Time == 0..MaxTime
AtMostOne(S) == {{}} \cup {{x} : x \in S}

TypeOK ==
    /\ now \in Time /\ began \in Time /\ since \in [User -> Time]
    /\ alive \subseteq User /\ reminded \subseteq User
    /\ last \in [User -> AtMostOne(Time)]
    /\ warm \in [User -> AtMostOne(Time \X BOOLEAN)]
    /\ pc \in {"idle", "warm", "work"}
    /\ users \subseteq User /\ ok \subseteq users /\ bad \subseteq users
    /\ trying \subseteq users \ (ok \cup bad)
    /\ tried \subseteq (users \ trying) \X BOOLEAN
    /\ upsets \in 0..MaxUpsets
    /\ told \in [User -> Nat]

Init ==
    /\ now = 0 /\ began = 0 /\ pc = "idle" /\ upsets = 0
    /\ alive \in SUBSET User
    /\ reminded = {} /\ last = [u \in User |-> {}] /\ warm = [u \in User |-> {}]
    /\ users = {} /\ ok = {} /\ bad = {} /\ trying = {} /\ tried = {}
    /\ since = [u \in User |-> 0] /\ told = [u \in User |-> 0]

Upset(u) ==
    /\ upsets < MaxUpsets /\ upsets' = upsets + 1
    /\ since' = [since EXCEPT ![u] = now]

\* Time passes, but a warm-up is over after a while.
Tick ==
    /\ now < MaxTime /\ (pc = "warm" => now < began + WARM_TIME)
    /\ now' = now + 1
    /\ UNCHANGED <<alive, tables, tick, upsets, since, told>>

\* A user logs in, or his login is lost.
Turns(u) ==
    /\ Upset(u)
    /\ alive' = IF u \in alive THEN alive \ {u} ELSE alive \cup {u}
    /\ UNCHANGED <<now, tables, tick, told>>

-----------------------------------------------------------------------------
\* prune_caches: one who was not active for long is as good as new.
Recent(u) == {t \in last[u] : now - t < SIGNED_MARK_TTL}
Kept(u) == {w \in warm[u] : Recent(u) # {}}

\* Faulty variants of warm_decision; no specification uses them: a bad
\* conclusion stays as long as a good one, and a good one for ever.
WarmDecision_Late(u) ==
    LET same == \E t \in Recent(u) : now - t <= SESSION_GAP
    IN  IF \E w \in Kept(u) : same /\ w[2] /\ now - w[1] < WARM_MAX_AGE THEN "reuse"
        ELSE IF \E w \in Kept(u) : same /\ ~w[2] /\ now - w[1] < WARM_MAX_AGE THEN "skip"
        ELSE "warm"
WarmDecision_Forever(u) ==
    LET same == \E t \in Recent(u) : now - t <= SESSION_GAP
    IN  IF \E w \in Kept(u) : same /\ w[2] THEN "reuse"
        ELSE IF \E w \in Kept(u) : same /\ ~w[2] /\ now - w[1] < WARM_RETRY THEN "skip"
        ELSE "warm"

\* warm_decision: in a window of classes a conclusion is used while it is fresh.
WarmDecision(u) ==
    LET same == \E t \in Recent(u) : now - t <= SESSION_GAP
    IN  IF \E w \in Kept(u) : same /\ w[2] /\ now - w[1] < WARM_MAX_AGE THEN "reuse"
        ELSE IF \E w \in Kept(u) : same /\ ~w[2] /\ now - w[1] < WARM_RETRY THEN "skip"
        ELSE "warm"

\* time_sign_task begins with those in class, and warm_up decides for each.
TickBegin(U) ==
    /\ pc = "idle" /\ U # {}
    /\ pc' = "warm" /\ began' = now /\ users' = U
    /\ ok' = {u \in U : WarmDecision(u) = "reuse"}
    /\ bad' = {u \in U : WarmDecision(u) = "skip"}
    /\ trying' = {u \in U : WarmDecision(u) = "warm"} /\ tried' = {}
    /\ last' = [u \in User |-> IF u \in U THEN {now} ELSE Recent(u)]
    /\ warm' = [u \in User |-> Kept(u)]
    /\ UNCHANGED <<now, alive, reminded, upsets, since, told>>

\* get_client_or_err_for_id for one of them; it may fail for another reason.
Try(u) ==
    /\ u \in trying
    /\ trying' = trying \ {u}
    /\ \/ tried' = tried \cup {<<u, u \in alive>>} /\ UNCHANGED <<upsets, since>>
       \/ u \in alive /\ Upset(u) /\ tried' = tried \cup {<<u, FALSE>>}
    /\ UNCHANGED <<now, alive, tables, pc, began, users, ok, bad, told>>

\* A session that works: the next time it is lost the user is told again.
SeenAlive(U) ==
    /\ reminded' = reminded \ U
    /\ told' = [u \in User |-> IF u \in U THEN 0 ELSE told[u]]

\* All came back, and the conclusions are kept.
WarmUp ==
    LET good == {u \in User : <<u, TRUE>> \in tried}
        lost == {u \in User : <<u, FALSE>> \in tried}
    IN  /\ pc = "warm" /\ trying = {}
        /\ warm' = [u \in User |-> IF u \in good \cup lost THEN {<<now, u \in good>>} ELSE warm[u]]
        /\ ok' = ok \cup good /\ bad' = bad \cup lost /\ tried' = {}
        /\ SeenAlive(good)
        /\ pc' = "work"
        /\ UNCHANGED <<now, alive, last, began, users, trying, upsets, since>>

\* A scout asks, or a user is signed in: his session works, also once recovered,
\* or cannot be had.  What he lacks is found again by the other sign-ins of the tick.
Ask(u) ==
    /\ pc = "work" /\ u \in ok
    /\ \/ u \in alive /\ SeenAlive({u}) /\ UNCHANGED <<warm, bad, upsets, since>>
       \/ /\ IF u \in alive THEN Upset(u) ELSE UNCHANGED <<upsets, since>>
          /\ warm' = [warm EXCEPT ![u] = {<<now, FALSE>>}] /\ bad' = bad \cup {u}
          /\ UNCHANGED <<reminded, told>>
    /\ UNCHANGED <<now, alive, last, pc, began, users, ok, trying, tried>>

\* Faulty variant of SendReports; no specification uses it: a user is told in
\* every tick.
SendReports_Again ==
    /\ pc = "work"
    /\ reminded' = reminded \cup bad
    /\ told' = [u \in User |-> IF u \in bad THEN told[u] + 1 ELSE told[u]]
    /\ pc' = "idle"
    /\ UNCHANGED <<now, alive, last, warm, began, users, ok, bad, trying, tried, upsets, since>>

\* send_reports: whoever is new in NOTLOGIN_REMINDED is told; whether the
\* message arrives is only logged.
SendReports ==
    /\ pc = "work"
    /\ reminded' = reminded \cup bad
    /\ told' = [u \in User |-> IF u \in bad \ reminded THEN told[u] + 1 ELSE told[u]]
    /\ pc' = "idle"
    /\ UNCHANGED <<now, alive, last, warm, began, users, ok, bad, trying, tried, upsets, since>>

\* A restart forgets all tables, and whom it told.
Restart ==
    /\ \E u \in User : last[u] # {}
    /\ reminded' = {} /\ last' = [u \in User |-> {}] /\ warm' = [u \in User |-> {}]
    /\ told' = [u \in User |-> 0]
    /\ pc' = "idle" /\ users' = {} /\ ok' = {} /\ bad' = {} /\ trying' = {} /\ tried' = {}
    /\ UNCHANGED <<now, alive, began, upsets, since>>

Next ==
    \/ Tick \/ WarmUp \/ SendReports \/ Restart
    \/ \E U \in SUBSET User : TickBegin(U)
    \/ \E u \in User : Turns(u) \/ Try(u) \/ Ask(u)

Spec == Init /\ [][Next]_vars

-----------------------------------------------------------------------------
(* A user is told once that his login is lost, and again only after his    *)
(* session was seen to work (the comment on NOTLOGIN_REMINDED): whoever is *)
(* in the table was told since then, and whoever is not was not.           *)
ToldOnce == \A u \in User : told[u] = IF u \in reminded THEN 1 ELSE 0

(* A tick serves everybody who has been logged in again, undisturbed, for  *)
(* as long as a failed warm-up counts and one more may take (WARM_RETRY):  *)
(* nobody is left out for the rest of his class.                           *)
BackInTime ==
    pc = "idle" => \A u \in users \cap alive :
        since[u] + WARM_RETRY + WARM_TIME <= began => u \in ok

(* Whoever has been without a session for as long as a good conclusion     *)
(* counts and a warm-up may take (WARM_MAX_AGE) has been told at the end   *)
(* of a tick of his, scout or not.                                         *)
LossIsTold ==
    pc = "idle" => \A u \in users \ alive :
        since[u] + WARM_MAX_AGE + WARM_TIME <= began => told[u] > 0
=============================================================================
