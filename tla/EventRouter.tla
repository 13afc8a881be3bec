----------------------------- MODULE EventRouter -----------------------------
(***************************************************************************)
(* From an event on the socket to the answers of its handlers: reading and *)
(* parsing (websocket.rs, napcat.rs), the router (router/handler.rs), the  *)
(* dispatch generated by build.rs and the macros of helper/src/lib.rs, the *)
(* wrapper of a handler, and what its Context collects and sends.          *)
(*                                                                         *)
(* Every event is parsed by a task of its own and every handler runs as a  *)
(* task, so both overtake each other.  What a handler does in the chat is  *)
(* one of its scripts; the state behind it is in the other modules.        *)
(***************************************************************************)
EXTENDS Naturals, Sequences, FiniteSets

CONSTANTS
    Event,      \* the events that arrive
    Kinds,      \* of an event what it may be: a command word, "text" for any
                \* other message, "Notice", "Request" or "Meta"
    Commands,   \* the command handlers: length of the name, and words
    Starts,     \* of a word, the words it starts with
    Others,     \* of a type of event, its handlers that are no commands
    Scripts     \* of a handler, the ways it may go: sequences of steps

VARIABLES
    kind,       \* what an event is, once it was read
    inbox,      \* events read from the socket and not yet parsed
    channel,    \* parsed events waiting for the router
    routed,     \* events the router is done with
    task,       \* handlers under way: what is left to do, what is collected
    spoken      \* calls that reached the server: in the handler, or at its end

vars == <<kind, inbox, channel, routed, task, spoken>>

TypeOf(k) == IF k \in {"Notice", "Request", "Meta"} THEN k ELSE "Message"
Words == DOMAIN Starts
Step == {"collect", "send", "try", "ask"}
Stage == {"run", "failed", "finish", "over"}

TypeOK ==
    /\ kind \in [Event -> Words \cup {"unread", "text", "Notice", "Request", "Meta"}]
    /\ inbox \subseteq Event /\ routed \subseteq Event
    /\ channel \in Seq(Event)
    /\ DOMAIN task \subseteq Event \X DOMAIN Scripts
    /\ task \in [DOMAIN task -> [at : Stage, todo : Seq(Step), list : Nat, err : BOOLEAN]]
    /\ spoken \subseteq [task : DOMAIN task, how : {"now", "forward"}, n : Nat]

Init ==
    /\ kind = [e \in Event |-> "unread"]
    /\ inbox = {} /\ channel = <<>> /\ routed = {}
    /\ task = <<>> /\ spoken = {}

-----------------------------------------------------------------------------
\* Faulty variants of definitions below; no specification uses them.  Each is
\* a bug that a property must catch.

\* The list is sorted by the shortest name first.
Earlier_Shorter(c, d) == Commands[c].len < Commands[d].len


-----------------------------------------------------------------------------
\* The order of the generated list: the longer the name of the function, the
\* earlier; functions of one length in any order.
Earlier(c, d) == Commands[c].len > Commands[d].len

\* dispatch_all_handlers: the first command handler one of whose words the
\* text starts with, and every other handler for the type.
Matches(k) == {c \in DOMAIN Commands : k \in Words /\ Commands[c].words \cap Starts[k] # {}}
Matched(k) == {c \in Matches(k) : \A d \in Matches(k) : ~Earlier(d, c)}
OthersOf(k) == IF TypeOf(k) = "Meta" THEN {} ELSE Others[TypeOf(k)]

-----------------------------------------------------------------------------
\* connect: an event is read and handed to a task.
Read(e, k) ==
    /\ kind[e] = "unread"
    /\ kind' = [kind EXCEPT ![e] = k]
    /\ inbox' = inbox \cup {e}
    /\ UNCHANGED <<channel, routed, task, spoken>>

\* handle_event: an event of an unknown shape is dropped.
HandleEvent(e) ==
    /\ e \in inbox
    /\ inbox' = inbox \ {e}
    /\ \/ channel' = Append(channel, e) /\ UNCHANGED routed
       \/ routed' = routed \cup {e} /\ UNCHANGED channel
    /\ UNCHANGED <<kind, task, spoken>>

\* run: the handlers of the event are spawned.
Spawn(e, script) ==
    task' = [t \in DOMAIN task \cup {<<e, h>> : h \in DOMAIN script} |->
               IF t \in DOMAIN task THEN task[t]
               ELSE [at |-> "run", todo |-> script[t[2]], list |-> 0, err |-> FALSE]]
Route ==
    /\ channel # <<>>
    /\ channel' = Tail(channel)
    /\ LET e == Head(channel)
       IN  /\ routed' = routed \cup {e}
           /\ \E first \in IF Matched(kind[e]) = {} THEN {{}} ELSE {{c} : c \in Matched(kind[e])} :
                 LET hs == first \cup OthersOf(kind[e])
                 IN  \E script \in [hs -> UNION {Scripts[h] : h \in hs}] :
                        /\ \A h \in hs : script[h] \in Scripts[h]
                        /\ Spawn(e, script)
    /\ UNCHANGED <<kind, inbox, spoken>>

\* The next step of a handler.  A call that succeeds reaches the server at
\* once; what is collected waits for the end.
Does(t, steps) == task[t].at = "run" /\ task[t].todo # <<>> /\ Head(task[t].todo) \in steps
Next1(t) == [task[t] EXCEPT !.todo = Tail(@)]

Collect(t) ==
    /\ Does(t, {"collect"})
    /\ task' = [task EXCEPT ![t] = [Next1(t) EXCEPT !.list = @ + 1]]
    /\ UNCHANGED <<kind, inbox, channel, routed, spoken>>
Call(t) ==
    /\ Does(t, {"send", "try"})
    /\ task' = [task EXCEPT ![t] = Next1(t)]
    /\ spoken' = spoken \cup {[task |-> t, how |-> "now", n |-> Len(task[t].todo)]}
    /\ UNCHANGED <<kind, inbox, channel, routed>>
Pass(t) ==
    /\ Does(t, {"try", "ask"})
    /\ task' = [task EXCEPT ![t] = Next1(t)]
    /\ UNCHANGED <<kind, inbox, channel, routed, spoken>>
Fail(t) ==
    /\ Does(t, {"send", "ask"})
    /\ task' = [task EXCEPT ![t].at = "failed"]
    /\ UNCHANGED <<kind, inbox, channel, routed, spoken>>
\* A panic ends the process (panic = "abort"), and with it every handler and
\* every event under way; the next process begins with the socket.
Panic(t) ==
    /\ Does(t, {"ask"})
    /\ inbox' = {} /\ channel' = <<>> /\ task' = <<>> /\ spoken' = {}
    /\ UNCHANGED <<kind, routed>>
Return(t) ==
    /\ task[t].at = "run" /\ task[t].todo = <<>>
    /\ task' = [task EXCEPT ![t].at = "finish"]
    /\ UNCHANGED <<kind, inbox, channel, routed, spoken>>

\* handle_error: the error joins what was collected.
HandleError(t) ==
    /\ task[t].at = "failed"
    /\ task' = [task EXCEPT ![t].at = "finish", ![t].list = @ + 1, ![t].err = TRUE]
    /\ UNCHANGED <<kind, inbox, channel, routed, spoken>>

\* finish: what was collected leaves as one forwarded message, if the event
\* was a message; a failure of the call is logged.
Forwards(t) == task[t].list > 0 /\ TypeOf(kind[t[1]]) = "Message"
Finish(t) ==
    /\ task[t].at = "finish"
    /\ task' = [task EXCEPT ![t].at = "over"]
    /\ \/ /\ Forwards(t)
          /\ spoken' = spoken \cup {[task |-> t, how |-> "forward", n |-> task[t].list]}
       \/ UNCHANGED spoken
    /\ UNCHANGED <<kind, inbox, channel, routed>>

Handler(t) ==
    \/ Collect(t) \/ Call(t) \/ Pass(t) \/ Fail(t) \/ Panic(t)
    \/ Return(t) \/ HandleError(t) \/ Finish(t)

\* A handler that asks waits for something outside the process: a server that
\* is asked over HTTP, a user who is to log in.  No such wait has a limit.
Asks(t) == Does(t, {"ask"})

Next ==
    \/ \E e \in Event : \E k \in Kinds[e] : Read(e, k)
    \/ \E e \in Event : HandleEvent(e)
    \/ Route
    \/ \E t \in DOMAIN task : Handler(t)

\* What the runtime can run by itself: everything but what is asked outside.  The
\* calls of the API are among it, since each of them ends (EchoRpc: EveryCallEnds).
Progress ==
    \/ \E e \in Event : HandleEvent(e)
    \/ Route
    \/ \E t \in DOMAIN task : ~Asks(t) /\ Handler(t)

\* The runtime does not idle while there is something it can run, in whatever
\* order it goes about it.  The socket need not deliver anything, and what is
\* asked outside need never be answered.
Fairness == WF_vars(Progress)

Spec == Init /\ [][Next]_vars /\ Fairness

-----------------------------------------------------------------------------
(* "The longer command is matched first" (build.rs:212), by the length of  *)
(* the name of a function: a message starts at most one command handler,   *)
(* and no other command has a word the text starts with that itself starts *)
(* with the word of the one started.                                       *)
LongestWins ==
    \A e \in Event :
        LET started == {c \in DOMAIN Commands : <<e, c>> \in DOMAIN task}
        IN  /\ Cardinality(started) <= 1
            /\ \A c \in started, d \in Matches(kind[e]) \ started :
                  \E w \in Commands[c].words : Commands[d].words \cap Starts[kind[e]] \subseteq Starts[w]

(* What a handler collected leaves in one message after all it said at     *)
(* once, and only messages are answered that way: what the handler of a    *)
(* notice or a request collects, the report of its error included, is      *)
(* dropped (context.rs, finish; the head of friend_add.rs fears it is      *)
(* sent).  Of a message, a handler that fails is reported, or the last     *)
(* call failed too.                                                        *)
OneForward ==
    /\ \A s \in spoken : s.how = "forward" =>
          /\ TypeOf(kind[s.task[1]]) = "Message"
          /\ task[s.task].at = "over" /\ s.n = task[s.task].list
          /\ \A r \in spoken : r.task = s.task /\ r.how = "forward" => r = s
    /\ \A t \in DOMAIN task : task[t].at = "over" /\ task[t].err => task[t].list > 0

(* The router goes on until nothing is left of the events that were read,  *)
(* and every handler comes to its end or waits for something outside:      *)
(* nothing else holds one up, neither a call that fails nor another        *)
(* handler that waits, perhaps for ever.                                   *)
AllSettled ==
    /\ \A t \in DOMAIN task : task[t].at = "over" \/ Asks(t)
    /\ inbox = {} /\ channel = <<>>
=============================================================================
