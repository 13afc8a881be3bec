----------------------------- MODULE LoginSession -----------------------------
(***************************************************************************)
(* How a user's session is made, found again and given up: /login,         *)
(* /logout, /loginpwd and /logoutpwd (logic/login), the recovery behind    *)
(* every command and every tick (logic/helper/session.rs), and the page    *)
(* that asks for a password (web/login).                                   *)
(*                                                                         *)
(* One user; nothing here relates two.  Tasks run concurrently, and every  *)
(* request to the school is a wait between two steps of a task.  A login   *)
(* is a number, counted up; its CASTGC and its LNT session, which the      *)
(* server gives out together, count as one.  0 is none.  The hot tables    *)
(* are their maps, which every call sees at once (HotTable).               *)
(***************************************************************************)
EXTENDS Naturals, FiniteSets

CONSTANTS
    Task,           \* commands and ticks under way
    Page,           \* the ids of login pages, never reused
    MaxLogins,      \* bound: logins the server grants
    MaxBegun        \* bound: tasks begun

VARIABLES
    login,      \* LOGIN_DATA: the login on record
    pwd,        \* PWD_DATA: whether a password is stored
    cache,      \* CLIENT_CACHE: the login of the cached client
    profiled,   \* PROFILE: the logins whose profile is cached
    alive,      \* logins the server still takes
    granted,    \* logins the server has granted
    pages,      \* DATA: the login pages that can be opened
    task,       \* what a task waits for, and what it has read
    begun,      \* tasks begun
    out,        \* history: logged out, and no command of the user since
    revivable,  \* history: at that time a password was stored or a task under way
    unsent      \* history: pages whose link was never delivered

vars == <<login, pwd, cache, profiled, alive, granted, pages, task, begun,
          out, revivable, unsent>>
tables == <<login, pwd, cache, profiled>>
server == <<alive, granted>>
history == <<out, revivable, unsent>>

Login == 1..MaxLogins
Idle == [pc |-> "idle"]
Kind == {"tick", "command", "castgc", "login", "loginpwd"}
Wait == {"cache", "lnt", "pwd", "retry", "castgc", "check", "scan", "title", "ready", "page", "verify", "naming"}
Busy(t) == task[t] # Idle

TypeOK ==
    /\ login \in Login \cup {0} /\ cache \in Login \cup {0} /\ pwd \in BOOLEAN
    /\ profiled \subseteq Login /\ alive \subseteq 1..granted /\ granted \in 0..MaxLogins
    /\ pages \subseteq Page /\ unsent \subseteq Page
    /\ task \in [Task -> [pc : Wait, kind : Kind, s : Login \cup {0}, page : Page \cup {0}] \cup {Idle}]
    /\ begun \in 0..MaxBegun /\ out \in BOOLEAN /\ revivable \in BOOLEAN

\* The tables are on disk: a login and a password may be left from an earlier run.
Init ==
    /\ granted = 1 /\ alive \in {{}, {1}}
    /\ login \in {0, 1} /\ pwd \in BOOLEAN
    /\ cache = 0 /\ profiled = {} /\ pages = {}
    /\ task = [t \in Task |-> Idle] /\ begun = 0
    /\ out = FALSE /\ revivable = FALSE /\ unsent = {}

-----------------------------------------------------------------------------
Await(t, pc, s) == task' = [task EXCEPT ![t].pc = pc, ![t].s = s]
End(t) == task' = [task EXCEPT ![t] = Idle]

\* send_qr_msg_and_wait: the message with the code may fail.
AskForScan(t) == \/ Await(t, "scan", 0)
                 \/ End(t)

\* process_login: the stored password first, then a code to scan.
ProcessLogin(t) == IF pwd THEN Await(t, "retry", 0) ELSE AskForScan(t)

\* A recovery that found nothing: a tick gives up, a command starts a login.
Unrecovered(t) == IF task[t].kind = "tick" THEN End(t) ELSE ProcessLogin(t)

\* get_client_or_err_for_id after the cache: the login on record, or the password.
ReadLogin(t) ==
    IF login # 0 THEN Await(t, "lnt", login)
    ELSE IF pwd THEN Await(t, "pwd", 0) ELSE Unrecovered(t)

-----------------------------------------------------------------------------
\* What a task does when it begins, up to its first wait.
FirstStep(t, kind) ==
    LET At(pc, s) == task' = [task EXCEPT ![t] = [pc |-> pc, kind |-> kind, s |-> s, page |-> 0]]
        Scan == At("scan", 0) \/ UNCHANGED task
        Process == IF pwd THEN At("retry", 0) ELSE Scan
    IN  CASE kind \in {"tick", "command"} ->
               IF cache # 0 THEN At("cache", cache)
               ELSE IF login # 0 THEN At("lnt", login)
               ELSE IF pwd THEN At("pwd", 0)
               ELSE IF kind = "command" THEN Process ELSE UNCHANGED task
          [] kind = "castgc" -> IF login # 0 THEN At("castgc", login) ELSE Process
          [] kind = "login" ->
               IF login \in profiled THEN UNCHANGED task
               ELSE IF login # 0 THEN At("check", login) ELSE Process

\* A command of the user, or a tick that needs his client.
Begin(t, kind) ==
    /\ ~Busy(t) /\ begun < MaxBegun
    /\ kind # "loginpwd" /\ FirstStep(t, kind)
    /\ begun' = begun + 1
    /\ out' = (out /\ kind = "tick")
    /\ UNCHANGED <<tables, server, pages, revivable, unsent>>

\* /loginpwd without a stored password: a page, and the message with its link.
BeginLoginPwd(t, p) ==
    /\ ~Busy(t) /\ begun < MaxBegun /\ ~pwd
    /\ p \notin pages \cup unsent /\ \A u \in Task : Busy(u) => task[u].page # p
    /\ begun' = begun + 1 /\ out' = FALSE
    /\ pages' = pages \cup {p}
    /\ \/ /\ task' = [task EXCEPT ![t] = [pc |-> "page", kind |-> "loginpwd", s |-> 0, page |-> p]]
          /\ UNCHANGED unsent
       \/ /\ unsent' = unsent \cup {p}
          /\ UNCHANGED task
    /\ UNCHANGED <<tables, server, revivable>>

\* Whether a request that carries login s is answered well; the network may fail.
Probes(s) == IF s \in alive THEN BOOLEAN ELSE {FALSE}

\* get_client_or_err_for_id: the cached client answers, or the next is tried.
ProbeCache(t) ==
    /\ task[t].pc = "cache"
    /\ \E ok \in Probes(task[t].s) : IF ok THEN End(t) ELSE ReadLogin(t)
    /\ UNCHANGED <<tables, server, pages, begun, history>>

\* A client from the login on record answers and is cached, or the password is tried.
ProbeLnt(t) ==
    /\ task[t].pc = "lnt"
    /\ \E ok \in Probes(task[t].s) :
          IF ok THEN cache' = task[t].s /\ End(t)
          ELSE UNCHANGED cache /\ IF pwd THEN Await(t, "pwd", 0) ELSE Unrecovered(t)
    /\ UNCHANGED <<login, pwd, profiled, server, pages, begun, history>>

\* The server grants a login: on record, and its client cached.
Granted ==
    /\ granted < MaxLogins
    /\ granted' = granted + 1 /\ alive' = alive \cup {granted'}
    /\ login' = granted' /\ cache' = granted'

Refused == UNCHANGED <<server, login, cache>>

\* login_password of the recovery: a refusal ends a tick; a command logs in anew.
RecoverByPassword(t) ==
    /\ task[t].pc = "pwd"
    /\ \/ Granted /\ End(t)
       \/ Refused /\ Unrecovered(t)
    /\ UNCHANGED <<pwd, profiled, pages, begun, history>>

\* try_pwd_login; when it is refused a code is sent.
TryPwdLogin(t) ==
    /\ task[t].pc = "retry"
    /\ \/ Granted /\ IF task[t].kind = "command" THEN Await(t, "ready", granted') ELSE End(t)
       \/ Refused /\ AskForScan(t)
    /\ UNCHANGED <<pwd, profiled, pages, begun, history>>

\* process_login_castgc: the CASTGC on record still works and gets a client.
ProbeCastgc(t) ==
    /\ task[t].pc = "castgc"
    /\ \E ok \in Probes(task[t].s) :
          IF ok THEN cache' = task[t].s /\ End(t)
          ELSE UNCHANGED cache /\ ProcessLogin(t)
    /\ UNCHANGED <<login, pwd, profiled, server, pages, begun, history>>

\* /login: Profile::check asks the server once per login and keeps what it said.
CheckLogin(t) ==
    /\ task[t].pc = "check"
    /\ \E ok \in Probes(task[t].s) :
          IF ok THEN profiled' = profiled \cup {task[t].s} /\ End(t)
          ELSE UNCHANGED profiled /\ ProcessLogin(t)
    /\ UNCHANGED <<login, pwd, cache, server, pages, begun, history>>

\* The code is scanned and update_and_login stores the login; or time is up.
Scanned(t) ==
    /\ task[t].pc = "scan"
    /\ \/ Granted /\ IF task[t].kind = "castgc" THEN End(t) ELSE Await(t, "title", granted')
       \/ Refused /\ End(t)
    /\ UNCHANGED <<pwd, profiled, pages, begun, history>>

\* login_base_data is through; a title that cannot be set ends the task.
Titled(t) ==
    /\ task[t].pc = "title"
    /\ \/ End(t)
       \/ task[t].kind = "command" /\ Await(t, "ready", task[t].s)
    /\ UNCHANGED <<tables, server, pages, begun, history>>

\* get_client_or_err after process_login: a client from that login, once it is
\* ready, is cached again.
Rehydrate(t) ==
    /\ task[t].pc = "ready"
    /\ cache' = task[t].s
    /\ End(t)
    /\ UNCHANGED <<login, pwd, profiled, server, pages, begun, history>>

-----------------------------------------------------------------------------
\* submit_handler: the page is gone whatever was submitted; its command gets
\* the credentials, or an error that ends it.
Submit(p) ==
    /\ p \in pages
    /\ pages' = pages \ {p}
    /\ \/ \E t \in Task : Busy(t) /\ task[t].page = p /\ (Await(t, "verify", 0) \/ End(t))
       \/ (\A t \in Task : Busy(t) => task[t].page # p) /\ UNCHANGED task
    /\ UNCHANGED <<tables, server, begun, history>>

\* The server takes the password, which is stored; the login is not yet.
VerifyPassword(t) ==
    /\ task[t].pc = "verify"
    /\ \/ /\ granted < MaxLogins
          /\ granted' = granted + 1 /\ alive' = alive \cup {granted'}
          /\ pwd' = TRUE
          /\ Await(t, "naming", granted')
       \/ End(t) /\ UNCHANGED <<server, pwd>>
    /\ UNCHANGED <<login, cache, profiled, pages, begun, history>>

\* login_base_data is through and the login is stored, or the command fails.
StoreLogin(t) ==
    /\ task[t].pc = "naming"
    /\ \/ login' = task[t].s /\ cache' = task[t].s
       \/ UNCHANGED <<login, cache>>
    /\ End(t)
    /\ UNCHANGED <<pwd, profiled, server, pages, begun, history>>

SomeoneBusy == \E t \in Task : Busy(t)

\* /logout removes the login, not the cached client; /logoutpwd the password.
Logout ==
    /\ login' = 0
    /\ out' = TRUE
    /\ revivable' = (pwd \/ SomeoneBusy)
    /\ UNCHANGED <<pwd, cache, profiled, server, pages, task, begun, unsent>>

LogoutPwd ==
    /\ pwd' = FALSE
    /\ revivable' = (SomeoneBusy \/ login # 0)
    /\ UNCHANGED <<login, cache, profiled, server, pages, task, begun, out, unsent>>

\* The server ends a login.
Expire(s) ==
    /\ s \in alive
    /\ alive' = alive \ {s}
    /\ UNCHANGED <<tables, granted, pages, task, begun, history>>

\* A restart: what is on disk stays.
Restart ==
    /\ SomeoneBusy \/ cache # 0 \/ pages # {}
    /\ cache' = 0 /\ profiled' = {} /\ pages' = {}
    /\ task' = [t \in Task |-> Idle]
    /\ UNCHANGED <<login, pwd, server, begun, history>>

Next ==
    \/ Logout \/ LogoutPwd \/ Restart
    \/ \E s \in Login : Expire(s)
    \/ \E p \in Page : Submit(p)
    \/ \E t \in Task :
          \/ \E kind \in Kind : Begin(t, kind)
          \/ \E p \in Page : BeginLoginPwd(t, p)
          \/ ProbeCache(t) \/ ProbeLnt(t) \/ RecoverByPassword(t) \/ TryPwdLogin(t)
          \/ ProbeCastgc(t) \/ CheckLogin(t) \/ Scanned(t) \/ Titled(t) \/ Rehydrate(t)
          \/ VerifyPassword(t) \/ StoreLogin(t)

Spec == Init /\ [][Next]_vars

-----------------------------------------------------------------------------
(* After /logout, with no password stored and nothing under way, nothing   *)
(* but the cached client is left: until the user sends a command, no tick  *)
(* gets further than asking with that client, and no login comes back      *)
(* (qr.rs:44 removes the record; cache.rs keeps the client).               *)
OnlyTheCacheOutlivesLogout ==
    out /\ ~revivable =>
        login = 0 /\ \A t \in Task : Busy(t) => task[t].pc = "cache"

(* A login page is taken off the list with its command: one stays behind   *)
(* only when the message with its link could not be sent.                  *)
PagesEndWithCommands ==
    \A p \in pages : p \in unsent \/ \E t \in Task : Busy(t) /\ task[t].pc = "page" /\ task[t].page = p
=============================================================================
