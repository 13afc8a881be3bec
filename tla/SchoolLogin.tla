------------------------------ MODULE SchoolLogin ------------------------------
(***************************************************************************)
(* How one HTTP client is logged in at the school                          *)
(* (src/src/api/xmu_service/login): by the stored password, and, when that *)
(* fails, by a code to scan, on the same client and its cookies            *)
(* (process_login).  Then, for a command, the wait until the new session   *)
(* is of use (wait_lnt_ready).                                             *)
(*                                                                         *)
(* The server is the school's: a ticket (the CASTGC cookie) and an LNT     *)
(* session are numbers, counted up as they are issued, 0 for none.  A      *)
(* ticket ends when the account logs in elsewhere; an LNT session opened   *)
(* with a ticket is taken some time after it was opened.  Every request is *)
(* a wait, and may fail.                                                   *)
(***************************************************************************)
EXTENDS Naturals

CONSTANTS
    MAX_TRIES,      \* of lnt_get_api, while the session is not ready
    MAX_ATTEMPTS,   \* of wait_lnt_ready
    MaxTickets,     \* bound: tickets the server issues
    MaxElsewhere    \* bound: logins of the account elsewhere

VARIABLES
    jar,        \* the client's cookies: CASTGC and session
    account,    \* the server: tickets issued and alive, sessions opened and ready
    step,       \* what the login waits for
    method,     \* "password" or "code"
    tries,      \* requests for the profile, or probes, so far
    stored,     \* LOGIN_DATA: the login that was stored
    accepted,   \* history: the ticket the server issued for the last submit
    carried     \* history: a ticket that a failed password login left in the jar

vars == <<jar, account, step, method, tries, stored, accepted, carried>>

Ticket == 0..MaxTickets
Step == {"page", "token", "scan", "submit", "continue", "profile", "probe", "done", "failed"}
NoLogin == [castgc |-> 0, session |-> 0]

TypeOK ==
    /\ jar \in [castgc : Ticket, session : Ticket]
    /\ account \in [issued : Ticket, alive : Ticket, opened : SUBSET (1..MaxTickets),
                    ready : SUBSET (1..MaxTickets), elsewhere : 0..MaxElsewhere, blocked : BOOLEAN]
    /\ step \in Step /\ method \in {"password", "code"}
    /\ tries \in [ask : 0..MAX_TRIES, probe : 0..MAX_ATTEMPTS]
    /\ stored \in [castgc : Ticket, session : Ticket]
    /\ accepted \in Ticket /\ carried \in Ticket

\* The account may be in use on another computer, which blocks a new ticket
\* until that one is thrown out.
Init ==
    /\ jar = NoLogin /\ stored = NoLogin
    /\ account \in [issued : {0}, alive : {0}, opened : {{}}, ready : {{}},
                    elsewhere : {0}, blocked : BOOLEAN]
    /\ step = "page" /\ method \in {"password", "code"}
    /\ tries = [ask |-> 0, probe |-> 0]
    /\ accepted = 0 /\ carried = 0

-----------------------------------------------------------------------------
\* process_login: a failed password login is followed by a code on the same
\* client; a failed code ends the command.
Fail ==
    IF method = "password"
    THEN method' = "code" /\ step' = "page" /\ carried' = jar.castgc
    ELSE step' = "failed" /\ UNCHANGED <<method, carried>>

GoOn(s) == step' = s /\ UNCHANGED <<method, carried>>

\* login_password posts the form of the password at once; the code has to be got
\* and scanned first.
Form == IF method = "password" THEN "submit" ELSE "token"

\* login_password and get_qrcode: the login page has its form, unless the
\* service is frozen or the cookies of the client lead past the page.
LoginPage ==
    /\ step = "page"
    /\ \/ /\ jar.castgc = 0 \/ jar.castgc # account.alive
          /\ GoOn(Form)
       \/ Fail
    /\ UNCHANGED <<jar, account, tries, stored, accepted>>

\* get_qrcode and send_qr_msg_and_wait: the id of the code, and the message with it.
GetToken ==
    /\ step = "token"
    /\ GoOn("scan") \/ Fail
    /\ UNCHANGED <<jar, account, tries, stored, accepted>>

\* wait_qrcode: "0" and "2" ask again, "1" goes on, "3" and all others end it.
WaitQrcode ==
    /\ step = "scan"
    /\ \E status \in {"0", "1", "2", "3", "other"} :
          CASE status \in {"0", "2"} -> UNCHANGED <<step, method, carried>>
            [] status = "1" -> GoOn("submit")
            [] OTHER -> Fail
    /\ UNCHANGED <<jar, account, tries, stored, accepted>>

\* The server issues a ticket, which replaces the one in the jar.
Issue ==
    /\ account.issued < MaxTickets
    /\ account' = [account EXCEPT !.issued = @ + 1, !.alive = account.issued + 1, !.blocked = FALSE]
    /\ jar' = [jar EXCEPT !.castgc = account'.issued]
    /\ accepted' = account'.issued

NoTicket == accepted' = 0 /\ UNCHANGED <<jar, account>>

\* With a ticket in the jar, the client goes on to the profile.
Check ==
    IF jar'.castgc # 0
    THEN GoOn("profile") /\ tries' = [tries EXCEPT !.ask = 0]
    ELSE Fail /\ UNCHANGED tries

\* submit_login: whatever page comes back, a ticket in the jar is taken for the
\* answer; without one, the page that says the account is in use elsewhere is
\* answered with "throw out and continue".
SubmitLogin ==
    /\ step = "submit"
    /\ \/ Issue /\ ~account.blocked /\ Check
       \/ /\ account.blocked /\ NoTicket
          /\ IF jar.castgc # 0 THEN Check ELSE GoOn("continue") /\ UNCHANGED tries
       \/ NoTicket /\ Check
       \/ NoTicket /\ Fail /\ UNCHANGED tries
    /\ UNCHANGED stored

KickOut ==
    /\ step = "continue"
    /\ \/ Issue /\ Check
       \/ NoTicket /\ Check
       \/ NoTicket /\ Fail /\ UNCHANGED tries
    /\ UNCHANGED stored

-----------------------------------------------------------------------------
\* A request for the profile: a ticket that is alive opens a session if the jar
\* has none that is taken, and a session that is not ready is answered with the
\* login page, as an unknown one is.
Opens == jar.castgc # 0 /\ jar.castgc = account.alive /\ jar.session \notin account.ready
SessionOf == IF Opens THEN jar.castgc ELSE jar.session
Asked ==
    /\ jar' = [jar EXCEPT !.session = SessionOf]
    /\ account' = [account EXCEPT !.opened = IF Opens THEN @ \cup {jar.castgc} ELSE @]
IsReady == SessionOf \in account.ready

\* What lnt_get_api does with the answer: data ends it, the login page is asked
\* for again up to MAX_TRIES, and everything else is an error.
Answers(Ok, Error) ==
    \/ IsReady /\ Ok /\ UNCHANGED tries
    \/ /\ ~IsReady
       /\ IF tries.ask + 1 >= MAX_TRIES THEN Error /\ UNCHANGED tries
          ELSE tries' = [tries EXCEPT !.ask = @ + 1] /\ UNCHANGED <<step, method, carried, stored>>
    \/ Error /\ UNCHANGED tries

\* login_request and login_password after the ticket: the profile, then the
\* session cookie, and what both make is stored (update_and_login).  A command
\* that needs the session at once waits for it.
Store ==
    /\ stored' = [castgc |-> jar.castgc, session |-> SessionOf]
    /\ GoOn("probe") \/ GoOn("done")

Profile ==
    /\ step = "profile"
    /\ Asked
    /\ Answers(Store, Fail /\ UNCHANGED stored)
    /\ UNCHANGED accepted

\* wait_lnt_ready, with a client of the stored session alone: up to MAX_ATTEMPTS
\* profiles, and the command goes on in any case.
Probe ==
    /\ step = "probe"
    /\ \/ stored.session \in account.ready /\ GoOn("done") /\ UNCHANGED tries
       \/ /\ tries' = [tries EXCEPT !.probe = @ + 1]
          /\ GoOn(IF tries.probe + 1 = MAX_ATTEMPTS THEN "done" ELSE "probe")
    /\ UNCHANGED <<jar, account, stored, accepted>>

-----------------------------------------------------------------------------
\* A session that was opened is ready.
Ready(s) ==
    /\ s \in account.opened \ account.ready
    /\ account' = [account EXCEPT !.ready = @ \cup {s}]
    /\ UNCHANGED <<jar, step, method, tries, stored, accepted, carried>>

\* A login on another computer ends the ticket, and is in the way of the next.
Elsewhere ==
    /\ account.elsewhere < MaxElsewhere
    /\ account' = [account EXCEPT !.alive = 0, !.blocked = TRUE, !.elsewhere = @ + 1]
    /\ UNCHANGED <<jar, step, method, tries, stored, accepted, carried>>

Next ==
    \/ LoginPage \/ GetToken \/ WaitQrcode \/ SubmitLogin \/ KickOut
    \/ Profile \/ Probe \/ Elsewhere
    \/ \E s \in 1..MaxTickets : Ready(s)

Spec == Init /\ [][Next]_vars

-----------------------------------------------------------------------------
(* A login is stored with a session that the server takes, and with the    *)
(* ticket the server issued for it: a ticket of an earlier attempt gets in *)
(* only where the failed password login left one in the jar (submit_login  *)
(* takes any ticket for the answer, login/mod.rs:210).                     *)
LoginIsBacked ==
    stored # NoLogin =>
        /\ stored.session \in account.ready
        /\ stored.castgc # 0
        /\ stored.castgc = accepted \/ stored.castgc = carried
=============================================================================
