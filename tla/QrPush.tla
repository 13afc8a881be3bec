------------------------------- MODULE QrPush -------------------------------
(***************************************************************************)
(* A QR code seen in a chat is sent in for everybody it may concern        *)
(* (qr_sign, qr_sign_request, QrSignRequest::push), next to the commands   *)
(* that sign one user (/autosign, /specsign, /pushsign), which leave       *)
(* behind the request objects the push finds.                              *)
(*                                                                         *)
(* Logins of a user are numbered.  A client belongs to a login; a request  *)
(* object (AUTO_SIGN_CACHE) keeps the client it was made with.  There is   *)
(* one roll call.                                                          *)
(***************************************************************************)
EXTENDS Naturals, FiniteSets

CONSTANTS
    User,       \* the users with a login
    MAX_RETRY,  \* tries of one push (3 in the code)
    MaxLogins   \* bound: logins of a user

VARIABLES
    takes,      \* the users the roll call is for
    listed,     \* the users the course index has under the course
    pwd,        \* users with a stored password
    login,      \* LOGIN_DATA: the login on record
    alive,      \* logins the server still takes
    cache,      \* CLIENT_CACHE: the login of the cached client, or 0
    kept,       \* AUTO_SIGN_CACHE: the login of the request object, or 0
    open,       \* the roll call is open, and the code is valid
    signed,     \* users the server has down as present
    push        \* the push of a user

vars == <<takes, listed, pwd, login, alive, cache, kept, open, signed, push>>
people == <<takes, listed, pwd>>

Login == 0..MaxLogins
Step == {"idle", "look", "recover", "build", "send", "probe", "list", "done"}

\* client: the login of the client of the push; tries left; result; smooth
\* holds while no request of the push was lost.
NoPush == [at |-> "idle", client |-> 0, tries |-> MAX_RETRY, result |-> "", smooth |-> TRUE]

TypeOK ==
    /\ takes \subseteq User /\ listed \subseteq User /\ pwd \subseteq User
    /\ login \in [User -> Login] /\ alive \in [User -> SUBSET Login]
    /\ cache \in [User -> Login] /\ kept \in [User -> Login]
    /\ open \in BOOLEAN /\ signed \subseteq User
    /\ push \in [User -> [at : Step, client : Login, tries : 0..MAX_RETRY,
                          result : {"", "none", "error", "response"}, smooth : BOOLEAN]]

Init ==
    /\ takes \in SUBSET User /\ listed \in SUBSET takes /\ pwd \in SUBSET User
    /\ login = [u \in User |-> 1]
    /\ alive \in [User -> {{}, {1}}]
    /\ cache \in [User -> {0, 1}]
    /\ kept = [u \in User |-> 0]
    /\ open = TRUE /\ signed = {}
    /\ push = [u \in User |-> NoPush]

-----------------------------------------------------------------------------
At(u, at) == push[u].at = at
Goto(u, p) == push' = [push EXCEPT ![u] = p]
Done(p, result) ==
    [at |-> "done", client |-> 0, tries |-> MAX_RETRY, result |-> result, smooth |-> p.smooth]
Lost(p) == [p EXCEPT !.smooth = FALSE]

\* qr_sign_request: the users the index has for the course, or everybody.
Audience == IF listed # {} THEN listed ELSE User

QrSignRequest ==
    /\ open /\ \A u \in User : At(u, "idle")
    /\ push' = [u \in User |-> IF u \in Audience THEN [NoPush EXCEPT !.at = "look"] ELSE NoPush]
    /\ UNCHANGED <<people, login, alive, cache, kept, open, signed>>

\* push takes the cached client as it is.
Look(u) ==
    /\ At(u, "look")
    /\ Goto(u, IF cache[u] # 0 THEN [push[u] EXCEPT !.at = "build", !.client = cache[u]]
               ELSE [push[u] EXCEPT !.at = "recover"])
    /\ UNCHANGED <<people, login, alive, cache, kept, open, signed>>

\* get_client_or_err_for_id: the cached client if it works, else the login on
\* record, else the password; `failed` of no client.  A probe that is lost
\* counts as a dead session.
Recovered(u, ok, failed) ==
    \/ /\ cache[u] \in alive[u]
       /\ Goto(u, [ok EXCEPT !.client = cache[u]]) /\ UNCHANGED <<login, alive, cache>>
    \/ /\ login[u] \in alive[u]
       /\ cache' = [cache EXCEPT ![u] = login[u]]
       /\ Goto(u, [ok EXCEPT !.client = login[u]]) /\ UNCHANGED <<login, alive>>
    \/ /\ u \in pwd /\ login[u] < MaxLogins
       /\ LET new == login[u] + 1 IN
          /\ login' = [login EXCEPT ![u] = new] /\ cache' = [cache EXCEPT ![u] = new]
          /\ alive' = [alive EXCEPT ![u] = @ \cup {new}]
          /\ Goto(u, [ok EXCEPT !.client = new])
    \/ /\ Goto(u, IF alive[u] \cap {cache[u], login[u]} # {} \/ u \in pwd THEN Lost(failed) ELSE failed)
       /\ UNCHANGED <<login, alive, cache>>

Recover(u) ==
    /\ At(u, "recover")
    /\ Recovered(u, [push[u] EXCEPT !.at = "build"], Done(push[u], "error"))
    /\ UNCHANGED <<people, kept, open, signed>>

\* AutoSignRequest::get: the object that is there, or one with this client.
AutoSignRequest(u, client) == IF kept[u] # 0 THEN kept[u] ELSE client

Build(u) ==
    /\ At(u, "build")
    /\ IF push[u].tries = 0 THEN Goto(u, Done(push[u], "error")) /\ UNCHANGED kept
       ELSE /\ kept' = [kept EXCEPT ![u] = AutoSignRequest(u, push[u].client)]
            /\ Goto(u, [push[u] EXCEPT !.at = "send", !.tries = @ - 1])
    /\ UNCHANGED <<people, login, alive, cache, open, signed>>

\* AutoSignRequest::qr, by the client of the object: a dead session fails; the
\* server counts a valid code; the statistics that follow may still be lost.
Send(u) ==
    LET probe == [push[u] EXCEPT !.at = "probe"]
    IN  /\ At(u, "send")
        /\ \/ /\ kept[u] \in alive[u]
              /\ signed' = IF open /\ u \in takes THEN signed \cup {u} ELSE signed
              /\ \/ u \in takes /\ Goto(u, Done(push[u], "response"))
                 \/ u \notin takes /\ Goto(u, probe)
                 \/ Goto(u, Lost(probe))
           \/ /\ Goto(u, IF kept[u] \in alive[u] THEN Lost(probe) ELSE probe)
              /\ UNCHANGED signed
        /\ UNCHANGED <<people, login, alive, cache, kept, open>>

\* The try failed.  Is the session of the push's client over?
Probe(u) ==
    LET again == [push[u] EXCEPT !.at = "build"]
    IN  /\ At(u, "probe")
        /\ \/ /\ push[u].client \in alive[u]
              /\ Goto(u, [push[u] EXCEPT !.at = "list"]) /\ UNCHANGED <<login, alive, cache>>
           \/ push[u].client \notin alive[u] /\ Recovered(u, again, again)
           \/ push[u].client \in alive[u] /\ Recovered(u, Lost(again), Lost(again))
        /\ UNCHANGED <<people, kept, open, signed>>

\* sign_request_inner: it is not, so is the roll call one of the user's?
List(u) ==
    /\ At(u, "list")
    /\ \/ /\ push[u].client \in alive[u]
          /\ Goto(u, IF open /\ u \in takes THEN [push[u] EXCEPT !.at = "build"]
                     ELSE Done(push[u], "none"))
       \/ Goto(u, Done(Lost(push[u]), "error"))
    /\ UNCHANGED <<people, login, alive, cache, kept, open, signed>>

\* /autosign, /specsign and /pushsign see the roll call among the user's and
\* make its request object; a QR roll call is left pending.
SpecSign(u) ==
    /\ open /\ u \in takes
    /\ cache[u] \in alive[u] /\ kept[u] = 0
    /\ kept' = [kept EXCEPT ![u] = cache[u]]
    /\ UNCHANGED <<people, login, alive, cache, open, signed, push>>

-----------------------------------------------------------------------------
\* The school server.
SessionEnds(u) ==
    /\ alive[u] # {}
    /\ alive' = [alive EXCEPT ![u] = {}]
    /\ UNCHANGED <<people, login, cache, kept, open, signed, push>>
Closes ==
    /\ open /\ open' = FALSE
    /\ UNCHANGED <<people, login, alive, cache, kept, signed, push>>

Next ==
    \/ QrSignRequest \/ Closes
    \/ \E u \in User :
          \/ Look(u) \/ Recover(u) \/ Build(u) \/ Send(u) \/ Probe(u) \/ List(u)
          \/ SpecSign(u) \/ SessionEnds(u)

Spec == Init /\ [][Next]_vars

-----------------------------------------------------------------------------
(* A push gives a user up, as not concerned or with an error, while the    *)
(* roll call is open for him and he has a live login, only if a request    *)
(* was lost on the way, a session died under it, or the request object     *)
(* held a client of a login that is over: recovery reaches the client of   *)
(* the push and not that of the object (qr_sign_parse.rs:164).             *)
GivenUpForAReason ==
    \A u \in User :
        push[u].result \in {"none", "error"} /\ push[u].smooth /\ open /\ u \in takes
            => kept[u] \notin alive[u]

(* Nobody the roll call is for is left out of the pushes of its code while *)
(* the index has nobody under the course; once it has somebody, exactly    *)
(* those it lacks are (qr_sign.rs, the comment before qq_list).            *)
LeftOutOnlyByIndex ==
    (\E u \in User : push[u].at # "idle") =>
        \A u \in takes : At(u, "idle") <=> listed # {} /\ u \notin listed
=============================================================================
