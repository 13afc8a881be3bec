------------------------------ MODULE SecureLink ------------------------------
(***************************************************************************)
(* The VPN login over the school's SSO: /flushvpn (logic/flushvpn.rs), the *)
(* flows behind its pages (web/vpn), and the client each flow keeps        *)
(* (src/src/api/xmu_service/securelink/api.rs).                            *)
(*                                                                         *)
(* All flows share one session.json.  A flow reads it when it begins, logs *)
(* in later, when a page hands it a callback code, and writes the file     *)
(* after a login.  The requests of one flow take turns (a lock around its  *)
(* client); those of two flows do not.  A token is a number, counted up as *)
(* the server issues them, and 0 for none.                                 *)
(***************************************************************************)
EXTENDS Naturals, FiniteSets

CONSTANTS
    Flow,           \* the ids of login flows, never reused
    Req,            \* HTTP requests in flight
    FLOW_EXPIRE,    \* FLOW_EXPIRE_SECS
    MaxTokens,      \* bound: tokens the server issues
    MaxTime         \* bound of the clock

VARIABLES
    now,        \* the clock
    file,       \* session.json
    flow,       \* how far a flow is, and when it ends
    api,        \* its client: the token it sends, and its session
    flows,      \* FLOWS: the flows that can be looked up
    req,        \* requests: the flow they hold and the step they are at
    issued,     \* tokens issued so far
    bare,       \* history: flows whose last login brought no access token
    dropped,    \* history: flows with a login given up midway, and none complete since
    undated,    \* history: access tokens that came without their expiry
    stray       \* history: expiries that came without their access token

vars == <<now, file, flow, api, flows, req, issued, bare, dropped, undated, stray>>

Token == 0..MaxTokens
Session == [two : Token, access : Token, expire : Token]
NoSession == [two |-> 0, access |-> 0, expire |-> 0]
NoClient == [token |-> 0, session |-> NoSession]
Idle == [at |-> "idle"]
Step == {"waiting", "validate", "login", "save"}

TypeOK ==
    /\ now \in 0..MaxTime /\ issued \in Token
    /\ file \in Session
    /\ flow \in [Flow -> [st : {"unused", "asking", "open", "refused"}, expire : 0..(MaxTime + FLOW_EXPIRE)]]
    /\ api \in [Flow -> [token : Token, session : Session]]
    /\ flows \subseteq Flow /\ bare \subseteq Flow /\ dropped \subseteq Flow
    /\ undated \subseteq Token /\ stray \subseteq Token
    /\ req \in [Req -> [at : Step, flow : Flow] \cup {Idle}]

\* An earlier run, or the import from the desktop client, may have left a session.
Init ==
    /\ now = 0 /\ flows = {} /\ issued = 1
    /\ bare = {} /\ dropped = {} /\ undated = {} /\ stray = {}
    /\ file \in {NoSession, [two |-> 1, access |-> 1, expire |-> 1]}
    /\ flow = [f \in Flow |-> [st |-> "unused", expire |-> 0]]
    /\ api = [f \in Flow |-> NoClient]
    /\ req = [r \in Req |-> Idle]

Tick ==
    /\ now < MaxTime
    /\ now' = now + 1
    /\ UNCHANGED <<file, flow, api, flows, req, issued, bare, dropped, undated, stray>>

-----------------------------------------------------------------------------
\* load_session: a file that is missing, half written or unreadable is no session.
LoadSession(f) ==
    /\ flow[f].st = "unused"
    /\ flow' = [flow EXCEPT ![f].st = "asking"]
    /\ \E s \in {file, NoSession} :
          api' = [api EXCEPT ![f] = [token |-> s.access, session |-> s]]
    /\ UNCHANGED <<now, file, flows, req, issued, bare, dropped, undated, stray>>

\* begin_sso: the server refuses its configuration or the link, or names none.
NoLink(f) ==
    /\ flow[f].st = "asking"
    /\ flow' = [flow EXCEPT ![f].st = "refused"]
    /\ api' = [api EXCEPT ![f] = NoClient]
    /\ UNCHANGED <<now, file, flows, req, issued, bare, dropped, undated, stray>>

\* It has its link: create_flow sweeps, and enters the flow.
CreateFlow(f) ==
    /\ flow[f].st = "asking"
    /\ flow' = [flow EXCEPT ![f] = [st |-> "open", expire |-> now + FLOW_EXPIRE]]
    /\ flows' = {g \in flows : flow[g].expire > now} \cup {f}
    /\ UNCHANGED <<now, file, api, req, issued, bare, dropped, undated, stray>>

\* get_flow on a flow that has ended.
Forget(f) ==
    /\ f \in flows /\ flow[f].expire <= now
    /\ flows' = flows \ {f}
    /\ UNCHANGED <<now, file, flow, api, req, issued, bare, dropped, undated, stray>>

\* A page submits a callback address; one without a code is turned away at once.
Arrive(r, f) ==
    /\ req[r] = Idle /\ f \in flows /\ flow[f].expire > now
    /\ req' = [req EXCEPT ![r] = [at |-> "waiting", flow |-> f]]
    /\ UNCHANGED <<now, file, flow, api, flows, issued, bare, dropped, undated, stray>>

At(r, step) == req[r].at = step
Goto(r, step) == req' = [req EXCEPT ![r].at = step]
Reply(r) == req' = [req EXCEPT ![r] = Idle]

\* The lock around the client of the flow.
Lock(r) ==
    /\ At(r, "waiting")
    /\ \A o \in Req : req[o] # Idle /\ req[o].flow = req[r].flow => At(o, "waiting")
    /\ Goto(r, "validate")
    /\ UNCHANGED <<now, file, flow, api, flows, issued, bare, dropped, undated, stray>>

\* validate_code: the server trades the code for a two-factor token, accepts
\* without one, or refuses.
Validate(r) ==
    /\ At(r, "validate")
    /\ \/ /\ issued < MaxTokens
          /\ issued' = issued + 1
          /\ api' = [api EXCEPT ![req[r].flow].session.two = issued']
          /\ Goto(r, "login")
       \/ Goto(r, "login") /\ UNCHANGED <<api, issued>>
       \/ Reply(r) /\ UNCHANGED <<api, issued>>
    /\ UNCHANGED <<now, file, flow, flows, bare, dropped, undated, stray>>

\* Faulty variant of Restored; no specification uses it: the token comes back
\* when there is an access token, instead of when there is none.
Restored_Swapped(a) == IF a.session.access # 0 THEN a.token ELSE a.session.two

\* The token during and after sso_login when nothing is captured: the old one
\* comes back only if there is no access token in the session.
Restored(a) == IF a.session.access = 0 THEN a.token ELSE a.session.two

\* The request fails, or the server refuses the login.
LoginRefused(r, f, a) ==
    /\ api' = [api EXCEPT ![f].token = Restored(a)]
    /\ bare' = bare \cup {f}
    /\ Reply(r)
    /\ UNCHANGED <<issued, dropped, undated, stray>>

\* A login without an access token, an error unless the session has one; an expiry
\* that comes with it is kept all the same.
LoginWithoutToken(r, f, a) ==
    /\ \/ UNCHANGED <<issued, stray>> /\ api' = [api EXCEPT ![f].token = Restored(a)]
       \/ /\ issued < MaxTokens
          /\ issued' = issued + 1 /\ stray' = stray \cup {issued'}
          /\ api' = [api EXCEPT ![f] =
                [token |-> Restored(a), session |-> [a.session EXCEPT !.expire = issued']]]
    /\ bare' = bare \cup {f}
    /\ IF a.session.access = 0 THEN Reply(r) ELSE Goto(r, "save")
    /\ UNCHANGED <<dropped, undated>>

\* A login with an access token, dated or not: the old expiry stays if it is not.
LoginWithToken(r, f, a) ==
    /\ issued < MaxTokens
    /\ issued' = issued + 1
    /\ \E e \in {issued', a.session.expire} :
          /\ api' = [api EXCEPT ![f] =
                [token |-> issued',
                 session |-> [two |-> a.session.two, access |-> issued', expire |-> e]]]
          /\ undated' = IF e = issued' THEN undated ELSE undated \cup {issued'}
    /\ bare' = bare \ {f} /\ dropped' = dropped \ {f}
    /\ Goto(r, "save")
    /\ UNCHANGED stray

\* sso_login and capture_login_tokens.
Login(r) ==
    LET f == req[r].flow
    IN  /\ At(r, "login")
        /\ LoginRefused(r, f, api[f]) \/ LoginWithoutToken(r, f, api[f]) \/ LoginWithToken(r, f, api[f])
        /\ UNCHANGED <<now, file, flow, flows>>

\* The browser goes away, and the request is dropped where it waits: in the midst
\* of sso_login the client is left with the two-factor token.
Drop(r) ==
    /\ req[r].at \in {"waiting", "validate", "login"}
    /\ IF At(r, "login")
       THEN LET f == req[r].flow
            IN  api' = [api EXCEPT ![f].token = api[f].session.two] /\ dropped' = dropped \cup {f}
       ELSE UNCHANGED <<api, dropped>>
    /\ Reply(r)
    /\ UNCHANGED <<now, file, flow, flows, issued, bare, undated, stray>>

\* save_session, whole or not at all; the reply says so.  The configuration that
\* is asked for next, or by the button of the page, changes nothing kept here.
Save(r) ==
    /\ At(r, "save")
    /\ file' \in {file, api[req[r].flow].session}
    /\ Reply(r)
    /\ UNCHANGED <<now, flow, api, flows, issued, bare, dropped, undated, stray>>

\* A restart forgets flows, their clients and requests; the file stays.
Restart ==
    /\ flows # {}
    /\ flows' = {} /\ req' = [r \in Req |-> Idle]
    /\ flow' = [f \in Flow |-> IF flow[f].st = "unused" THEN flow[f]
                               ELSE [st |-> "refused", expire |-> 0]]
    /\ api' = [f \in Flow |-> NoClient] /\ bare' = {} /\ dropped' = {}
    /\ UNCHANGED <<now, file, issued, undated, stray>>

Next ==
    \/ Tick \/ Restart
    \/ \E f \in Flow : LoadSession(f) \/ NoLink(f) \/ CreateFlow(f) \/ Forget(f)
    \/ \E r \in Req :
          \/ Lock(r) \/ Validate(r) \/ Login(r) \/ Save(r) \/ Drop(r)
          \/ \E f \in Flow : Arrive(r, f)

Spec == Init /\ [][Next]_vars

-----------------------------------------------------------------------------
(* A client goes on with its access token: it is left with the two-factor  *)
(* token (which the VPN does not take) only after a login over an older    *)
(* session that brought no access token (sso_login restores the token only *)
(* of a session that has none), or one that was dropped midway.            *)
TokenIsAccess ==
    \A f \in Flow :
        \/ api[f].token = api[f].session.access
        \/ f \in dropped
        \/ f \in bare /\ api[f].session.access # 0

(* The expiry is that of the access token, unless this one came without    *)
(* its own, or an expiry came without a token (capture_login_tokens keeps  *)
(* it before it asks for the token); without a token none is stored.       *)
ExpiryIsOfToken ==
    /\ \A s \in {file} \cup {api[f].session : f \in Flow} :
          s.expire = s.access \/ s.access \in undated \/ s.expire \in stray
    /\ file.access = 0 => file.expire = 0
=============================================================================
