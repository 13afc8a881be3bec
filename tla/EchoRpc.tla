------------------------------- MODULE EchoRpc -------------------------------
(***************************************************************************)
(* Calls to the OneBot server and the matching of their answers            *)
(* (src/abi/echo.rs, src/abi/network/napcat.rs, src/abi/websocket.rs).     *)
(*                                                                         *)
(* A task names its call with a fresh echo, hands the request to the task  *)
(* that writes the socket, and only then registers the echo and waits.     *)
(* Every message read from the socket is handled by a task of its own, so  *)
(* answers are handled in any order, and the server may answer late, twice *)
(* or never.  The registry lives in memory and the answers come over the   *)
(* socket they were asked on: a lost socket ends the process, and a new    *)
(* process is back in Init.                                                *)
(***************************************************************************)
EXTENDS Naturals, Sequences

CONSTANTS Caller,      \* tasks that call the API
          MaxCalls,    \* bound: calls made
          MaxReplies   \* bound: answers the server gives to one request

ASSUME EchoRpcAssumption == MaxCalls \in Nat /\ MaxReplies \in Nat

VARIABLES counter,     \* COUNTER
          registry,    \* RESPONSE_REGISTRY: pairs of an echo and the call whose
                       \* receiver is the other end of the sender kept there
          pc,          \* per caller: where it is in call_api and wait_echo
          echo,        \* per caller: the echo of its current call
          got,         \* per caller: what lies in its receiver, 0 for nothing
          api_queue,   \* requests on their way to the writer task
          server,      \* requests the server has, with the answers given
          inbound      \* answers read from the socket, their tasks not yet run

\* History.  A call is known by its number, from 1; a request and an answer
\* carry the number of the call they were made for.
VARIABLES made,        \* calls made
          current,     \* per caller: the number of its current call
          handed,      \* calls whose receiver got an answer while they waited
          failed       \* calls that ended with the timeout error

vars == <<counter, registry, pc, echo, got, api_queue, server, inbound,
          made, current, handed, failed>>

PCs == {"idle", "named", "sent", "waiting", "expired", "answered"}

Request == [echo : Nat, for : Nat]
Answer  == [echo : Nat, for : Nat, nth : 1..MaxReplies]

Init ==
  /\ counter = 1
  /\ registry = {}
  /\ pc = [c \in Caller |-> "idle"]
  /\ echo = [c \in Caller |-> 0]
  /\ got = [c \in Caller |-> 0]
  /\ api_queue = <<>>
  /\ server = {}
  /\ inbound = {}
  /\ made = 0
  /\ current = [c \in Caller |-> 0]
  /\ handed = {}
  /\ failed = {}

-----------------------------------------------------------------------------
\* Faulty variants of definitions below; no specification uses them.  Each is
\* a bug that a property of this module must catch.

\* The counter counts down.
fetch_add_Down == counter - 1

\* The counter is read and never advanced.
fetch_add_Read == counter

\* The timer is looked at before the receiver.
WaitExpired_TimerFirst(c) ==
  /\ pc[c] = "waiting"
  /\ pc' = [pc EXCEPT ![c] = "expired"]
  /\ failed' = failed \cup {current[c]}
  /\ UNCHANGED <<counter, registry, echo, got, api_queue, server, inbound,
                 made, current, handed>>

\* No timeout around the receiver.
WaitExpired_Never(c) == pc[c] = "waiting" /\ FALSE

\* wait returns without touching the registry.
Cleanup_Forgets(c) ==
  /\ pc[c] \in {"expired", "answered"}
  /\ pc' = [pc EXCEPT ![c] = "idle"]
  /\ UNCHANGED <<counter, registry, echo, got, api_queue, server, inbound,
                 made, current, handed, failed>>

\* A call that returns takes out everything registered before it, too.
Cleanup_SweepsOlder(c) ==
  /\ pc[c] \in {"expired", "answered"}
  /\ registry' = {p \in registry : p.echo > echo[c]}
  /\ pc' = [pc EXCEPT ![c] = "idle"]
  /\ UNCHANGED <<counter, echo, got, api_queue, server, inbound,
                 made, current, handed, failed>>

-----------------------------------------------------------------------------
\* Echo::new: fetch_add on the counter.
fetch_add == counter + 1

EchoNew(c) ==
  /\ pc[c] = "idle"
  /\ made < MaxCalls
  /\ echo' = [echo EXCEPT ![c] = counter]
  /\ counter' = fetch_add
  /\ pc' = [pc EXCEPT ![c] = "named"]
  /\ made' = made + 1
  /\ current' = [current EXCEPT ![c] = made + 1]
  /\ UNCHANGED <<registry, got, api_queue, server, inbound, handed, failed>>

\* call_api, first half: the request goes to the writer task.
CallApiSend(c) ==
  /\ pc[c] = "named"
  /\ api_queue' = Append(api_queue, [echo |-> echo[c], for |-> current[c]])
  /\ pc' = [pc EXCEPT ![c] = "sent"]
  /\ UNCHANGED <<counter, registry, echo, got, server, inbound,
                 made, current, handed, failed>>

\* call_api, second half: EchoPending::new makes the channel and puts the
\* sender in the registry, over whatever was there.
EchoPendingNew(c) ==
  /\ pc[c] = "sent"
  /\ registry' = {p \in registry : p.echo # echo[c]}
                   \cup {[echo |-> echo[c], for |-> current[c]]}
  /\ got' = [got EXCEPT ![c] = 0]
  /\ pc' = [pc EXCEPT ![c] = "waiting"]
  /\ UNCHANGED <<counter, echo, api_queue, server, inbound,
                 made, current, handed, failed>>

\* wait: the timeout polls the receiver first, and there is an answer.
WaitAnswered(c) ==
  /\ pc[c] = "waiting"
  /\ got[c] # 0
  /\ pc' = [pc EXCEPT ![c] = "answered"]
  /\ UNCHANGED <<counter, registry, echo, got, api_queue, server, inbound,
                 made, current, handed, failed>>

\* wait: the receiver had nothing and the 600 seconds are over.
WaitExpired(c) ==
  /\ pc[c] = "waiting"
  /\ got[c] = 0
  /\ pc' = [pc EXCEPT ![c] = "expired"]
  /\ failed' = failed \cup {current[c]}
  /\ UNCHANGED <<counter, registry, echo, got, api_queue, server, inbound,
                 made, current, handed>>

\* wait, last step of either outcome: the echo is taken out of the registry
\* if it is still there.
Cleanup(c) ==
  /\ pc[c] \in {"expired", "answered"}
  /\ registry' = {p \in registry : p.echo # echo[c]}
  /\ pc' = [pc EXCEPT ![c] = "idle"]
  /\ UNCHANGED <<counter, echo, got, api_queue, server, inbound,
                 made, current, handed, failed>>

-----------------------------------------------------------------------------
\* The writer task puts the next request on the socket.
ApiWrite ==
  /\ api_queue # <<>>
  /\ api_queue' = Tail(api_queue)
  /\ server' = server \cup {[request |-> Head(api_queue), replies |-> 0]}
  /\ UNCHANGED <<counter, registry, pc, echo, got, inbound,
                 made, current, handed, failed>>

\* The server answers a request it has, in any order, perhaps again; the
\* reader task spawns a task for the answer.
ServerReplies(s) ==
  /\ s.replies < MaxReplies
  /\ server' = (server \ {s}) \cup {[s EXCEPT !.replies = s.replies + 1]}
  /\ inbound' = inbound \cup {[echo |-> s.request.echo, for |-> s.request.for,
                               nth |-> s.replies + 1]}
  /\ UNCHANGED <<counter, registry, pc, echo, got, api_queue,
                 made, current, handed, failed>>

\* handle_api / echo_send_result: the sender is taken out of the registry and
\* the answer sent into it.  An answer without a sender is dropped, and one
\* sent to a call that has just given up goes with its receiver.
HandleApi(r) ==
  /\ inbound' = inbound \ {r}
  /\ registry' = {p \in registry : p.echo # r.echo}
  /\ LET open == {c \in Caller : /\ pc[c] = "waiting"
                                 /\ [echo |-> r.echo, for |-> current[c]] \in registry}
     IN /\ got' = [c \in Caller |-> IF c \in open THEN r.for ELSE got[c]]
        /\ handed' = handed \cup {current[c] : c \in open}
  /\ UNCHANGED <<counter, pc, echo, api_queue, server, made, current, failed>>

-----------------------------------------------------------------------------
Proceed(c) == \/ CallApiSend(c)
              \/ EchoPendingNew(c)
              \/ WaitAnswered(c)
              \/ WaitExpired(c)
              \/ Cleanup(c)

Next == \/ \E c \in Caller : EchoNew(c) \/ Proceed(c)
        \/ ApiWrite
        \/ \E s \in server : ServerReplies(s)
        \/ \E r \in inbound : HandleApi(r)

Spec == Init /\ [][Next]_vars

\* A call that was begun is polled to its end, and its timer fires.  The
\* server owes nobody an answer.
Fairness == \A c \in Caller : WF_vars(Proceed(c))

FairSpec == Spec /\ Fairness

-----------------------------------------------------------------------------
TypeOK ==
  /\ counter \in Nat
  /\ registry \subseteq Request
  /\ pc \in [Caller -> PCs]
  /\ echo \in [Caller -> Nat]
  /\ got \in [Caller -> Nat]
  /\ api_queue \in Seq(Request)
  /\ server \subseteq [request : Request, replies : 0..MaxReplies]
  /\ inbound \subseteq Answer
  /\ made \in Nat
  /\ current \in [Caller -> Nat]
  /\ handed \subseteq Nat
  /\ failed \subseteq Nat

(***************************************************************************)
(* An answer only ever reaches the call it was made for, however late, how *)
(* often and in whatever order the server answers: no group's reply is     *)
(* read as the member list of another.                                     *)
(* (echo_send_result, Echo::new: "COUNTER 递增保证唯一性")                  *)
(***************************************************************************)
AnswerIsMine ==
  \A c \in Caller : pc[c] \in {"waiting", "answered"} => got[c] \in {0, current[c]}

(***************************************************************************)
(* A call that waits for an answer can still be given one: its sender is   *)
(* in the registry, under its echo, whatever other calls have registered   *)
(* or cleaned up meanwhile.  So the "channel closed" error of              *)
(* EchoPending::wait cannot happen.                                        *)
(***************************************************************************)
WaitingIsReachable ==
  \A c \in Caller :
    (pc[c] = "waiting" /\ got[c] = 0)
      => [echo |-> echo[c], for |-> current[c]] \in registry

(***************************************************************************)
(* The registry does not leak: every entry belongs to a call that has not  *)
(* returned yet, so with no call in progress it is empty.                  *)
(* (the removal at the end of EchoPending::wait)                           *)
(***************************************************************************)
RegistryOwned ==
  \A p \in registry :
    \E c \in Caller : /\ pc[c] \in {"waiting", "expired"}
                      /\ p = [echo |-> echo[c], for |-> current[c]]

(***************************************************************************)
(* A call whose receiver got its answer while it was waiting does not end  *)
(* with the timeout error, even if the timer fires before the task is      *)
(* polled again.  (EchoPending::wait)                                      *)
(***************************************************************************)
AnsweredInTime == handed \cap failed = {}

(***************************************************************************)
(* Every call returns to its caller, answered or timed out, although the   *)
(* server may never answer.  (EchoPending::wait)                           *)
(***************************************************************************)
EveryCallEnds == \A c \in Caller : pc[c] = "named" ~> pc[c] = "idle"

(***************************************************************************)
(* What the trace message of echo_send_result says of an answer that finds *)
(* no registration: its call timed out or was answered before.  It is not  *)
(* so, because call_api sends the request before it registers the echo.    *)
(***************************************************************************)
UnmatchedIsOver ==
  [][\A r \in inbound \ inbound' :
       (\A p \in registry : p.echo # r.echo) => r.for \in handed \cup failed]_vars
=============================================================================
