---------------------------- MODULE ClientSession ----------------------------
(***************************************************************************)
(* The HTTP client of a login (src/src/api/network/session.rs): cookies by *)
(* host, the header made of them, and the redirects it follows by hand so  *)
(* that every answer's cookies are kept.                                   *)
(*                                                                         *)
(* Clones of a client share the cookies, and their requests run            *)
(* concurrently.  set and rebuild_cache_internal exclude each other (a     *)
(* lock on the cookies of the host), but the mark that a header is out of  *)
(* date is taken away before the rebuilding.  The cookies of a host are a  *)
(* number, counted up by every change; a header is the number it was made  *)
(* of.                                                                     *)
(***************************************************************************)
EXTENDS Naturals, FiniteSets

CONSTANTS
    Host,
    Req,            \* requests under way
    MAX_REDIRECTS,  \* redirects that are followed (20 in the code)
    MaxCookies      \* bound: changes of the cookies of a host

VARIABLES
    raw_data,       \* the cookies of a host
    header_cache,   \* the cookies its header was made of
    dirty,          \* hosts whose header is marked out of date
    req             \* requests: their step, and where they are in their chain

vars == <<raw_data, header_cache, dirty, req>>

Idle == [pc |-> "idle"]
Version == 0..MaxCookies
(* own: the cookies of the host after its last answer to this chain;       *)
(* raced: another request was rebuilding the header when this one looked;  *)
(* sends: requests sent so far (history); cookie: the header it sends.     *)
Chain == [pc : {"look", "rebuild", "read", "sent", "answered", "looped"},
          host : Host, count : Nat, body : BOOLEAN,
          own : [Host -> Version], raced : BOOLEAN,
          sends : Nat, cookie : Version]

TypeOK ==
    /\ raw_data \in [Host -> Version] /\ header_cache \in [Host -> Version]
    /\ dirty \subseteq Host
    /\ req \in [Req -> Chain \cup {Idle}]

Init ==
    /\ raw_data = [h \in Host |-> 0] /\ header_cache = [h \in Host |-> 0]
    /\ dirty = {}
    /\ req = [r \in Req |-> Idle]

\* get, or post with a body.
Begin(r, h, body) ==
    /\ req[r] = Idle
    /\ req' = [req EXCEPT ![r] =
         [pc |-> "look", host |-> h, count |-> 0, body |-> body,
          own |-> [g \in Host |-> 0], raced |-> FALSE, sends |-> 0,
          cookie |-> 0]]
    /\ UNCHANGED <<raw_data, header_cache, dirty>>

At(r, pc) == req[r].pc = pc
Rebuilding(h) == \E o \in Req : At(o, "rebuild") /\ req[o].host = h

\* The head of the loop: the limit, then get_header takes the mark of the host.
Look(r) ==
    LET h == req[r].host
    IN  /\ At(r, "look")
        /\ IF req[r].count > MAX_REDIRECTS
           THEN /\ req' = [req EXCEPT ![r].pc = "looped"]
                /\ UNCHANGED dirty
           ELSE /\ req' = [req EXCEPT ![r].pc = IF h \in dirty THEN "rebuild" ELSE "read",
                                      ![r].raced = h \notin dirty /\ Rebuilding(h)]
                /\ dirty' = dirty \ {h}
        /\ UNCHANGED <<raw_data, header_cache>>

\* rebuild_cache_internal: the header is made of the cookies there are now.
Rebuild(r) ==
    /\ At(r, "rebuild")
    /\ header_cache' = [header_cache EXCEPT ![req[r].host] = raw_data[req[r].host]]
    /\ req' = [req EXCEPT ![r].pc = "read"]
    /\ UNCHANGED <<raw_data, dirty>>

\* The header as it is in the cache, and the request is sent with it.
Send(r) ==
    /\ At(r, "read")
    /\ req' = [req EXCEPT ![r].pc = "sent", ![r].cookie = header_cache[req[r].host],
                          ![r].sends = @ + 1]
    /\ UNCHANGED <<raw_data, header_cache, dirty>>

\* Faulty variant of SetCookies; no specification uses it: the header is not
\* marked out of date.
SetCookies_Unmarked(h) ==
    /\ \/ raw_data[h] < MaxCookies /\ raw_data' = [raw_data EXCEPT ![h] = @ + 1]
       \/ UNCHANGED raw_data
    /\ UNCHANGED dirty

\* Set-Cookie lines of an answer, or none.  set marks the header out of date.
SetCookies(h) ==
    \/ /\ raw_data[h] < MaxCookies
       /\ raw_data' = [raw_data EXCEPT ![h] = @ + 1]
       /\ dirty' = dirty \cup {h}
    \/ UNCHANGED <<raw_data, dirty>>

\* set_cookie: a cookie put in by hand (a saved login).
SetCookie(h) ==
    /\ raw_data[h] < MaxCookies
    /\ raw_data' = [raw_data EXCEPT ![h] = @ + 1]
    /\ dirty' = dirty \cup {h}
    /\ UNCHANGED <<header_cache, req>>

\* An answer.  301, 302 and 303 go on as a GET without a body, 307 and 308 as
\* they were; any other one, or one that leads nowhere, is handed back.
Answer(r) ==
    LET h == req[r].host
        came == [req[r] EXCEPT !.own = [@ EXCEPT ![h] = raw_data'[h]], !.cookie = 0, !.raced = FALSE]
    IN  /\ At(r, "sent")
        /\ SetCookies(h)
        /\ \/ req' = [req EXCEPT ![r] = [came EXCEPT !.pc = "answered"]]
           \/ \E next \in Host, keeps \in BOOLEAN :
                 req' = [req EXCEPT ![r] =
                     [came EXCEPT !.pc = "look", !.host = next, !.count = @ + 1,
                                  !.body = @ /\ keeps]]
        /\ UNCHANGED header_cache

\* The request could not be sent, or its caller has what came of it.
Finish(r) ==
    /\ At(r, "sent") \/ At(r, "answered") \/ At(r, "looped")
    /\ req' = [req EXCEPT ![r] = Idle]
    /\ UNCHANGED <<raw_data, header_cache, dirty>>

Next ==
    \/ \E h \in Host : SetCookie(h)
    \/ \E r \in Req :
          \/ Look(r) \/ Rebuild(r) \/ Send(r) \/ Answer(r) \/ Finish(r)
          \/ \E h \in Host, body \in BOOLEAN : Begin(r, h, body)

Spec == Init /\ [][Next]_vars

-----------------------------------------------------------------------------
(* A header is behind the cookies of its host only while it is marked, or  *)
(* while somebody who took the mark is about to rebuild it: no cookie is   *)
(* left out for good.                                                      *)
StaleOnlyDuringRebuild ==
    \A h \in Host : header_cache[h] # raw_data[h] => h \in dirty \/ Rebuilding(h)

(* The cookies that a host set earlier in a chain of redirects are sent    *)
(* when the chain comes back to it (a login depends on that), unless       *)
(* another request was rebuilding the header just then.                    *)
ChainSendsItsCookies ==
    \A r \in Req : At(r, "sent") => req[r].cookie >= req[r].own[req[r].host] \/ req[r].raced

(* A chain is given up only after its first request and MAX_REDIRECTS      *)
(* redirects were all sent, and never sends more.                          *)
ChainIsFollowed ==
    \A r \in Req : req[r] # Idle =>
        /\ req[r].sends <= MAX_REDIRECTS + 1
        /\ At(r, "looped") => req[r].sends = MAX_REDIRECTS + 1
=============================================================================
