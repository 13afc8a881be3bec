------------------------------ MODULE SetupLink ------------------------------
(***************************************************************************)
(* The one-time links on which a user sets or renews his password          *)
(* (/setpwd; the first half of src/src/web/guard/task.rs) over the cold    *)
(* table that keeps the passwords.                                         *)
(*                                                                         *)
(* HTTP requests run concurrently: a save looks at the mark of the link,   *)
(* lets go of it, computes the digest on another thread, writes the row    *)
(* and only then marks the link.  A digest with a random salt tells only   *)
(* whether two passwords are equal, so a stored digest is the password     *)
(* itself.  Ids are never reused.                                          *)
(***************************************************************************)
EXTENDS Naturals, FiniteSets

CONSTANTS
    Link,           \* the ids of setup links
    Qq,             \* the accounts
    Password, Short,  \* passwords, and those below MIN_PASSWORD_LEN
    Req,            \* HTTP requests in flight
    Absent,
    SETUP_EXPIRE,   \* SETUP_EXPIRE_SECS
    IoErrors,       \* whether the database may fail
    MaxTime         \* bound of the clock

VARIABLES
    now,        \* the clock
    secret,     \* SECRETS: the stored password of an account
    setup,      \* the setup links ever made; a request may hold one that is gone
    setups,     \* SETUPS: the links that can be looked up
    req,        \* saves between two of their steps
    saved,      \* history: how many saves of a link have stored a password
    overlap     \* history: links on which a save began before another ended

vars == <<now, secret, setup, setups, req, saved, overlap>>

Cold == INSTANCE ColdTable WITH rows <- secret, Key <- Qq, Value <- Password

Idle == [op |-> "idle"]
Setup == [qq : Qq, refresh : BOOLEAN, expire : Nat, used : BOOLEAN]
Saving == [op : {"deriving", "stored"}, link : Link, pw : Password]

TypeOK ==
    /\ now \in 0..MaxTime
    /\ secret \in Cold!TableType
    /\ setup \in [Link -> Setup \cup {Absent}] /\ setups \subseteq Link
    /\ req \in [Req -> Saving \cup {Idle}]
    /\ saved \in [Link -> Nat] /\ overlap \subseteq Link

\* The table of passwords is on disk: it may hold a password from an earlier run.
Init ==
    /\ now = 0
    /\ secret \in [Qq -> (Password \ Short) \cup {Absent}]
    /\ setup = [l \in Link |-> Absent] /\ setups = {}
    /\ req = [r \in Req |-> Idle]
    /\ saved = [l \in Link |-> 0] /\ overlap = {}

Tick ==
    /\ now < MaxTime
    /\ now' = now + 1
    /\ UNCHANGED <<secret, setup, setups, req, saved, overlap>>

\* Faulty variants of definitions below; no specification uses them.  Each is
\* a bug that a property must catch.

\* A save that stored its password leaves the link as it was.
SpendLink_Kept(r) ==
    /\ req[r].op = "stored"
    /\ req' = [req EXCEPT ![r] = Idle]
    /\ UNCHANGED <<now, secret, setup, setups, saved, overlap>>

---------------------------------------------------------------------------
Live(l) == setup[l].expire > now /\ ~setup[l].used

\* An unreadable password counts as none.
Known(q) == {g.value : g \in Cold!GetResults(q)}

\* create_setup: drops dead links, then makes one.
CreateSetup(l, q) ==
    /\ setup[l] = Absent
    /\ \E s \in Known(q) :
          setup' = [setup EXCEPT ![l] =
                      [qq |-> q, refresh |-> s # Absent,
                       expire |-> now + SETUP_EXPIRE, used |-> FALSE]]
    /\ setups' = {k \in setups : Live(k)} \cup {l}
    /\ UNCHANGED <<now, secret, req, saved, overlap>>

\* get_setup of the page, its state, and a save refused at the door: a dead
\* link is dropped.
OpenSetup(l) ==
    /\ l \in setups /\ ~Live(l)
    /\ setups' = setups \ {l}
    /\ UNCHANGED <<now, secret, setup, req, saved, overlap>>

\* Faulty variant of BeginSave; no specification uses it: the save does not look
\* at the clock, as if the page had done so for good.
BeginSave_Late(r, l, pw) ==
    /\ req[r] = Idle /\ l \in setups /\ ~setup[l].used
    /\ pw \notin Short
    /\ req' = [req EXCEPT ![r] = [op |-> "deriving", link |-> l, pw |-> pw]]
    /\ overlap' = IF \E o \in Req : req[o] # Idle /\ req[o].link = l
                  THEN overlap \cup {l} ELSE overlap
    /\ UNCHANGED <<now, secret, setup, setups, saved>>

\* setup_save_handler: looks at the mark, lets go of it, and starts the digest.
BeginSave(r, l, pw) ==
    /\ req[r] = Idle /\ l \in setups /\ Live(l)
    /\ pw \notin Short
    /\ req' = [req EXCEPT ![r] = [op |-> "deriving", link |-> l, pw |-> pw]]
    /\ overlap' = IF \E o \in Req : req[o] # Idle /\ req[o].link = l
                  THEN overlap \cup {l} ELSE overlap
    /\ UNCHANGED <<now, secret, setup, setups, saved>>

\* save_secret after the digest: the row is written, or the save fails and the
\* link stays usable.
StoreSecret(r) ==
    /\ req[r].op = "deriving"
    /\ \/ /\ Cold!InsertOk(setup[req[r].link].qq, req[r].pw)
          /\ req' = [req EXCEPT ![r].op = "stored"]
          /\ saved' = [saved EXCEPT ![req[r].link] = @ + 1]
       \/ /\ Cold!WriteFails
          /\ req' = [req EXCEPT ![r] = Idle]
          /\ UNCHANGED saved
    /\ UNCHANGED <<now, setup, setups, overlap>>

\* The link is marked used and forgotten.
SpendLink(r) ==
    /\ req[r].op = "stored"
    /\ setup' = [setup EXCEPT ![req[r].link].used = TRUE]
    /\ setups' = setups \ {req[r].link}
    /\ req' = [req EXCEPT ![r] = Idle]
    /\ UNCHANGED <<now, secret, saved, overlap>>

\* A restart forgets the links and the requests; the table is on disk.
Restart ==
    /\ setups' = {}
    /\ req' = [r \in Req |-> Idle]
    /\ UNCHANGED <<now, secret, setup, saved, overlap>>

Next ==
    \/ Tick \/ Restart
    \/ \E l \in Link : OpenSetup(l) \/ \E q \in Qq : CreateSetup(l, q)
    \/ \E r \in Req :
          \/ StoreSecret(r) \/ SpendLink(r)
          \/ \E l \in Link, pw \in Password : BeginSave(r, l, pw)

Spec == Init /\ [][Next]_vars

---------------------------------------------------------------------------
\* What a link is to its user (OneTimeLink): it can store a password as long as
\* it can be looked up, or a save that found it is under way.
Usable(l) ==
    \/ l \in setups /\ Live(l)
    \/ \E r \in Req : req[r].op = "deriving" /\ req[r].link = l
StateOf(l) ==
    IF setup[l] = Absent THEN "unmade"
    ELSE IF ~Usable(l) THEN "dead"
    ELSE IF l \in overlap THEN "shared"
    ELSE IF saved[l] > 0 THEN "saved" ELSE "open"
OwnerOf(l) == IF setup[l] = Absent THEN Absent ELSE setup[l].qq

(* "The link is one-time and a saved password spends it" (expose.rs:129    *)
(* of src/src/web/guard) holds up to requests in flight together: a link   *)
(* stores a second password only when its saves overlapped.                *)
SecondSaveOverlaps == \A l \in Link : saved[l] > 1 => l \in overlap
=============================================================================
