----------------------------- MODULE GuardedPage -----------------------------
(***************************************************************************)
(* Pages behind a password: the gate of a page with its tokens and its     *)
(* lockout (second half of src/src/web/guard/task.rs), and the grade page  *)
(* (/jdpm) that lives behind the gate with the school session and the last *)
(* certificate it downloaded (src/src/web/jdfpm).  The passwords are those *)
(* that SetupLink stores; here one may change at any time.                 *)
(*                                                                         *)
(* HTTP requests run concurrently.  A request that waits (for the digest   *)
(* of a password, for the school) is a row of `req` and takes its second   *)
(* step later; `revoke` is a second step because the gate is unlocked      *)
(* between the check of a token and its removal.  A digest with a random   *)
(* salt tells only whether two passwords are equal, so a stored digest is  *)
(* the password itself.  A token is random and only the newest counts, so  *)
(* a gate keeps whether it has one; a request with an older token is       *)
(* refused and changes nothing.                                            *)
(***************************************************************************)
EXTENDS Naturals, FiniteSets

CONSTANTS
    Page,           \* the ids of guarded pages, never reused
    Qq,             \* the accounts
    Password,
    Wid,            \* results a certificate can be printed for
    Req,            \* HTTP requests in flight
    Absent,
    GUARD_EXPIRE, LOCK, MAX_FAILS,  \* the limits of task.rs
    IoErrors,       \* whether the database may fail
    MaxTime         \* bound of the clock

VARIABLES
    now,        \* the clock
    secret,     \* SECRETS: the stored password of an account
    guard,      \* the gates ever made
    guards,     \* GUARDS: the gates that can be looked up
    sessions,   \* SESSIONS of the grade page; a session shares its gate's id
    cert,       \* the certificate a session keeps
    req,        \* requests between two of their steps; `late` of an unlock is
                \* history: the page was locked after the unlock had begun
    breached,   \* history: pages unlocked while locked, by an unlock not late
    mixed       \* history: pages that answered with a certificate not asked for

vars == <<now, secret, guard, guards, sessions, cert, req, breached, mixed>>

Cold == INSTANCE ColdTable WITH rows <- secret, Key <- Qq, Value <- Password

Idle == [op |-> "idle"]
Guard == [qq : Qq, expire : Nat, token : BOOLEAN,
          fails : 0..MAX_FAILS, locked_until : Nat]
Request ==
    {Idle}
    \cup [op : {"checking"}, page : Page, match : BOOLEAN, late : BOOLEAN]
    \cup [op : {"revoking"}, page : Page]
    \cup [op : {"printing"}, page : Page, wid : Wid]

TypeOK ==
    /\ now \in 0..MaxTime
    /\ secret \in Cold!TableType
    /\ guard \in [Page -> Guard \cup {Absent}]
    /\ guards \subseteq Page /\ sessions \subseteq Page
    /\ cert \in [Page -> Wid \cup {Absent}]
    /\ req \in [Req -> Request] /\ breached \subseteq Page /\ mixed \subseteq Page

\* An unreadable password counts as none.
Known(q) == {g.value : g \in Cold!GetResults(q)}

\* The table of passwords is on disk: it may hold a password from an earlier run.
Init ==
    /\ now = 0
    /\ secret \in Cold!TableType
    /\ guard = [p \in Page |-> Absent] /\ guards = {} /\ sessions = {}
    /\ cert = [p \in Page |-> Absent]
    /\ req = [r \in Req |-> Idle] /\ breached = {} /\ mixed = {}

\* A gate that has expired is refused before anything it keeps is looked at
\* (LiveGuard), so what it kept counts as forgotten.
Kept(g, t) ==
    IF g # Absent /\ g.expire <= t
    THEN [g EXCEPT !.token = FALSE, !.fails = 0, !.locked_until = 0] ELSE g

Tick ==
    /\ now < MaxTime
    /\ now' = now + 1
    /\ guard' = [p \in Page |-> Kept(guard[p], now')]
    /\ UNCHANGED <<secret, guards, sessions, cert, req, breached, mixed>>

\* Faulty variants of definitions below; no specification uses them.  Each is
\* a bug that a property must catch.

\* The digest is compared first, and the lock is looked at for wrong ones only.
BeginUnlock_Locked(r, p, pw) ==
    /\ req[r] = Idle /\ p \in guards /\ guard[p].expire > now
    /\ \E s \in Known(guard[p].qq) \ {Absent} :
          /\ pw = s \/ guard[p].locked_until <= now
          /\ req' = [req EXCEPT ![r] = [op |-> "checking", page |-> p,
                                        match |-> pw = s, late |-> FALSE]]
    /\ UNCHANGED <<now, secret, guard, guards, sessions, cert, breached, mixed>>

---------------------------------------------------------------------------
LiveGuard(p) == guard[p].expire > now

\* get_guard: look up, and drop a gate that has expired.
GuardsAfterGet(p) == IF LiveGuard(p) THEN guards ELSE guards \ {p}

\* A setup link of the account stores a password.
SetPassword(q, pw) ==
    /\ Cold!InsertOk(q, pw)
    /\ UNCHANGED <<now, guard, guards, sessions, cert, req, breached, mixed>>

---------------------------------------------------------------------------
(* Gates and the grade page.                                               *)

\* sweep of the grade page: expired sessions go, each with its gate.
Swept == {p \in sessions : ~LiveGuard(p)}

\* Guard::create.
NewGuard(q) ==
    [qq |-> q, expire |-> now + GUARD_EXPIRE, token |-> FALSE, fails |-> 0, locked_until |-> 0]

\* create_session, called by /jdpm after the login: sweeps, then needs a
\* password, then makes a gate and a session of the same id and lifetime.
CreatePage(p, q) ==
    /\ guard[p] = Absent
    /\ \E s \in Known(q) :
          \/ /\ s = Absent
             /\ guards' = guards \ Swept
             /\ sessions' = sessions \ Swept
             /\ UNCHANGED guard
          \/ /\ s # Absent
             /\ guard' = [guard EXCEPT ![p] = NewGuard(q)]
             /\ guards' = {k \in guards \ Swept : LiveGuard(k)} \cup {p}
             /\ sessions' = (sessions \ Swept) \cup {p}
    /\ UNCHANGED <<now, secret, cert, req, breached, mixed>>

\* state_handler of a gate.
OpenGuard(p) ==
    /\ p \in guards
    /\ guards' = GuardsAfterGet(p)
    /\ UNCHANGED <<now, secret, guard, sessions, cert, req, breached, mixed>>

\* unlock_handler: refused while locked; the stored digest is read now and
\* compared when the digest of the password is there.
BeginUnlock(r, p, pw) ==
    /\ req[r] = Idle /\ p \in guards /\ LiveGuard(p)
    /\ guard[p].locked_until <= now
    /\ \E s \in Known(guard[p].qq) \ {Absent} :
          req' = [req EXCEPT ![r] = [op |-> "checking", page |-> p,
                                     match |-> pw = s, late |-> FALSE]]
    /\ UNCHANGED <<now, secret, guard, guards, sessions, cert, breached, mixed>>

Checking(p) == {o \in Req : req[o].op = "checking" /\ req[o].page = p}

\* The digest does not match: one failure more, and the page locks at the limit.
Refuse(r) ==
    LET p == req[r].page IN
    /\ req[r].op = "checking" /\ ~req[r].match
    /\ IF guard[p].fails + 1 >= MAX_FAILS
       THEN /\ guard' = [guard EXCEPT ![p].fails = 0,
                                      ![p].locked_until = now + LOCK]
            /\ req' = [o \in Req |->
                         IF o = r THEN Idle
                         ELSE IF o \in Checking(p) /\ req[o].match THEN [req[o] EXCEPT !.late = TRUE]
                         ELSE req[o]]
       ELSE /\ guard' = [guard EXCEPT ![p].fails = @ + 1]
            /\ req' = [req EXCEPT ![r] = Idle]
    /\ UNCHANGED <<now, secret, guards, sessions, cert, breached, mixed>>

\* The digest matches: a new token, the failures forgotten.
Unlock(r) ==
    LET p == req[r].page IN
    /\ req[r].op = "checking" /\ req[r].match
    /\ guard' = [guard EXCEPT ![p].token = TRUE, ![p].fails = 0]
    /\ req' = [req EXCEPT ![r] = Idle]
    /\ breached' = IF guard[p].locked_until > now /\ ~req[r].late
                   THEN breached \cup {p} ELSE breached
    /\ UNCHANGED <<now, secret, guards, sessions, cert, mixed>>

\* verify, by the holder of the gate's token.
Verified(p) == p \in guards /\ LiveGuard(p) /\ guard[p].token

\* lock_handler: the token is verified, then whatever token is there goes.
BeginLock(r, p) ==
    /\ req[r] = Idle /\ Verified(p)
    /\ req' = [req EXCEPT ![r] = [op |-> "revoking", page |-> p]]
    /\ UNCHANGED <<now, secret, guard, guards, sessions, cert, breached, mixed>>

RevokeToken(r) ==
    /\ req[r].op = "revoking"
    /\ guard' = [guard EXCEPT ![req[r].page].token = FALSE]
    /\ req' = [req EXCEPT ![r] = Idle]
    /\ UNCHANGED <<now, secret, guards, sessions, cert, breached, mixed>>

\* get_session of the grade page: an expired session goes with its gate.
OpenPage(p) ==
    /\ p \in sessions
    /\ sessions' = IF LiveGuard(p) THEN sessions ELSE sessions \ {p}
    /\ guards' = GuardsAfterGet(p)
    /\ UNCHANGED <<now, secret, guard, cert, req, breached, mixed>>

\* authorize, at the entry of every request of the page.
Authorized(p) == p \in sessions /\ Verified(p)

\* query_handler and certificate_handler: authorised once, then the school is
\* asked (the application, up to RESULT_POLL_TRIES looks at the records) and a
\* result number is known.  Other requests run meanwhile.
BeginPrint(r, p, w) ==
    /\ req[r] = Idle /\ Authorized(p)
    /\ req' = [req EXCEPT ![r] = [op |-> "printing", page |-> p, wid |-> w]]
    /\ UNCHANGED <<now, secret, guard, guards, sessions, cert, breached, mixed>>

\* cached_certificate: the one that is kept, if it is the one asked for.
CachedFor(p, w) == {c \in {cert[p]} : c = w}

\* A request for w is answered with c.
Answered(p, w, c) == mixed' = IF c = w THEN mixed ELSE mixed \cup {p}

\* build_certificate: from the cache, or downloaded and then kept; or the
\* school fails and the cache stays as it is.
FinishPrint(r) ==
    /\ req[r].op = "printing"
    /\ req' = [req EXCEPT ![r] = Idle]
    /\ LET p == req[r].page
           w == req[r].wid
           found == CachedFor(p, w)
       IN \/ \E c \in (IF found = {} THEN {w} ELSE found) :
                /\ cert' = IF found = {} THEN [cert EXCEPT ![p] = w] ELSE cert
                /\ Answered(p, w, c)
          \/ found = {} /\ UNCHANGED <<cert, mixed>>
    /\ UNCHANGED <<now, secret, guard, guards, sessions, breached>>

\* pdf_handler: the kept certificate, if it is the one of the link.
Download(p, w) ==
    /\ Authorized(p)
    /\ \E c \in CachedFor(p, w) : Answered(p, w, c)
    /\ UNCHANGED <<now, secret, guard, guards, sessions, cert, req, breached>>

Next ==
    \/ Tick
    \/ \E q \in Qq, pw \in Password : SetPassword(q, pw)
    \/ \E p \in Page : \/ OpenGuard(p) \/ OpenPage(p)
                       \/ \E q \in Qq : CreatePage(p, q)
                       \/ \E w \in Wid : Download(p, w)
    \/ \E r \in Req :
          \/ Refuse(r) \/ Unlock(r)
          \/ RevokeToken(r) \/ FinishPrint(r)
          \/ \E p \in Page :
                \/ \E pw \in Password : BeginUnlock(r, p, pw)
                \/ BeginLock(r, p)
                \/ \E w \in Wid : BeginPrint(r, p, w)

Spec == Init /\ [][Next]_vars

---------------------------------------------------------------------------
(* A locked page hands out no token, not even for the right password, to   *)
(* an unlock that began after the lock; only one already past the check    *)
(* when the lock fell may still succeed.                                   *)
LockoutHolds == breached = {}

(* A page and its gate live and die together: as long as they have not     *)
(* expired both can be found, and a session is never left without a gate   *)
(* it could be unlocked by.                                                *)
GateWithPage ==
    \A p \in Page : guard[p] # Absent /\ LiveGuard(p) =>
                        p \in sessions /\ p \in guards

(* Every certificate a request answers with is the one that was asked for, *)
(* whatever other requests of the page put into its one-place cache.       *)
CertificateIsAsked == mixed = {}
=============================================================================
