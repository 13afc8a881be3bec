---------------------------- MODULE SocketProofs ----------------------------
(***************************************************************************)
(* Proofs about the two halves of the socket (MCSocket), for every set of  *)
(* callers and events and every bound.                                     *)
(*                                                                         *)
(* Calls (EchoRpc): the type invariant, that an answer only reaches its    *)
(* own call, that a call that waits can be reached, that the registry does *)
(* not leak, and that an answered call does not time out.  The argument    *)
(* goes in layers, each inductive given those before it: the echo of a     *)
(* call is its number and nobody else's (Named); every message carries the *)
(* number of its call (Faithful); hence the registry has one entry per     *)
(* waiting call and nothing else (Matched); hence an answer handed over    *)
(* excludes the timeout (Timely).                                          *)
(*                                                                         *)
(* Events (EventRouter, over the tables of ChatHandlers): what a message   *)
(* starts and what its handlers answer.  An event is in one place on its   *)
(* way to the router (Queued), so its handlers are started once, at most   *)
(* one of them a command (FirstOnly); that the command is the right one is *)
(* a fact about the table (TableFits).                                     *)
(***************************************************************************)
EXTENDS MCSocket, FiniteSetTheorems, TLAPS

-----------------------------------------------------------------------------
(* Calls (EchoRpc).                                                        *)


\* A call's echo is its number, and calls in progress have different ones.
Named ==
  /\ counter = made + 1
  /\ \A c \in Caller : pc[c] # "idle" => echo[c] = current[c] /\ current[c] \in 1..made
  /\ \A c, d \in Caller :
       (pc[c] # "idle" /\ pc[d] # "idle" /\ current[c] = current[d]) => c = d

\* Whatever travels or is registered carries the echo of the call it is for.
Faithful ==
  /\ \A p \in registry : p.echo = p.for
  /\ \A i \in 1..Len(api_queue) : api_queue[i].echo = api_queue[i].for
  /\ \A s \in server : s.request.echo = s.request.for
  /\ \A r \in inbound : r.echo = r.for

\* The sender of a receiver that has its answer is no longer registered.
TakenOut ==
  \A c \in Caller : (pc[c] = "waiting" /\ got[c] # 0) => \A p \in registry : p.echo # echo[c]

Matched == AnswerIsMine /\ WaitingIsReachable /\ RegistryOwned /\ TakenOut

\* What is known of a call's outcome while it is in progress.
Timely ==
  /\ handed \subseteq 1..made
  /\ failed \subseteq 1..made
  /\ \A c \in Caller : pc[c] \in {"named", "sent"} => current[c] \notin handed \cup failed
  /\ \A c \in Caller : pc[c] = "waiting" =>
       current[c] \notin failed /\ (current[c] \in handed => got[c] # 0)
  /\ AnsweredInTime

IInv == TypeOK /\ Named /\ Faithful /\ Matched /\ Timely

-----------------------------------------------------------------------------
\* The variables keep their types.
LEMMA TypeInductive == TypeOK /\ [Next]_vars => TypeOK'
<1> SUFFICES ASSUME TypeOK, [Next]_vars PROVE TypeOK'
  OBVIOUS
<1> USE EchoRpcAssumption
<1>1. ASSUME NEW c \in Caller, EchoNew(c) PROVE TypeOK'
  BY <1>1 DEF TypeOK, EchoNew, fetch_add, PCs
<1>2. ASSUME NEW c \in Caller, CallApiSend(c) PROVE TypeOK'
  <2>1. [echo |-> echo[c], for |-> current[c]] \in Request
    BY DEF TypeOK, Request
  <2>2. api_queue' \in Seq(Request)
    BY <1>2, <2>1 DEF TypeOK, CallApiSend
  <2>3. QED BY <1>2, <2>2 DEF TypeOK, CallApiSend, PCs
<1>3. ASSUME NEW c \in Caller, EchoPendingNew(c) PROVE TypeOK'
  <2>1. registry' \subseteq Request
    BY <1>3 DEF TypeOK, EchoPendingNew, Request
  <2>2. QED BY <1>3, <2>1 DEF TypeOK, EchoPendingNew, PCs
<1>4. ASSUME NEW c \in Caller, WaitAnswered(c) PROVE TypeOK'
  BY <1>4 DEF TypeOK, WaitAnswered, PCs
<1>5. ASSUME NEW c \in Caller, WaitExpired(c) PROVE TypeOK'
  BY <1>5 DEF TypeOK, WaitExpired, PCs
<1>6. ASSUME NEW c \in Caller, Cleanup(c) PROVE TypeOK'
  BY <1>6 DEF TypeOK, Cleanup, PCs
<1>7. CASE ApiWrite
  <2>1. Head(api_queue) \in Request /\ Tail(api_queue) \in Seq(Request)
    BY <1>7 DEF TypeOK, ApiWrite
  <2>2. server' \subseteq [request : Request, replies : 0..MaxReplies]
    BY <1>7, <2>1 DEF TypeOK, ApiWrite
  <2>3. QED BY <1>7, <2>1, <2>2 DEF TypeOK, ApiWrite
<1>8. ASSUME NEW s \in server, ServerReplies(s) PROVE TypeOK'
  <2>1. /\ s.request \in Request /\ s.replies \in 0..MaxReplies
        /\ s.request.echo \in Nat /\ s.request.for \in Nat
    BY DEF TypeOK, Request
  <2>2. s.replies + 1 \in 0..MaxReplies /\ s.replies + 1 \in 1..MaxReplies
    BY <1>8, <2>1 DEF ServerReplies
  <2>3. [s EXCEPT !.replies = s.replies + 1] \in [request : Request, replies : 0..MaxReplies]
    BY <2>1, <2>2 DEF TypeOK
  <2>4. server' \subseteq [request : Request, replies : 0..MaxReplies]
    BY <1>8, <2>3 DEF TypeOK, ServerReplies
  <2>5. inbound' \subseteq Answer
    BY <1>8, <2>1, <2>2 DEF TypeOK, ServerReplies, Answer
  <2>6. QED BY <1>8, <2>4, <2>5 DEF TypeOK, ServerReplies
<1>9. ASSUME NEW r \in inbound, HandleApi(r) PROVE TypeOK'
  <2>1. r.for \in Nat
    BY DEF TypeOK, Answer
  <2>2. got' \in [Caller -> Nat] /\ handed' \subseteq Nat
    BY <1>9, <2>1 DEF TypeOK, HandleApi
  <2>3. QED BY <1>9, <2>2 DEF TypeOK, HandleApi
<1>10. CASE UNCHANGED vars
  BY <1>10 DEF TypeOK, vars
<1>11. QED
  BY <1>1, <1>2, <1>3, <1>4, <1>5, <1>6, <1>7, <1>8, <1>9, <1>10 DEF Next, Proceed

-----------------------------------------------------------------------------
\* Names stay unique: only EchoNew gives one, and it takes the next number.
LEMMA NamedInductive == TypeOK /\ Named /\ [Next]_vars => Named'
<1> SUFFICES ASSUME TypeOK, Named, [Next]_vars PROVE Named'
  OBVIOUS
<1>1. ASSUME NEW c \in Caller, EchoNew(c) PROVE Named'
  <2>1. /\ echo' = [echo EXCEPT ![c] = counter] /\ current' = [current EXCEPT ![c] = made + 1]
        /\ pc' = [pc EXCEPT ![c] = "named"] /\ counter' = counter + 1 /\ made' = made + 1
    BY <1>1 DEF EchoNew, fetch_add
  <2>2. made \in Nat /\ counter = made + 1
    BY DEF TypeOK, Named
  <2>3. counter' = made' + 1
    BY <2>1, <2>2
  <2>4. ASSUME NEW d \in Caller, pc'[d] # "idle"
        PROVE  /\ echo'[d] = current'[d] /\ current'[d] \in 1..made'
               /\ d # c => pc[d] # "idle" /\ current'[d] = current[d] /\ current[d] \in 1..made
    <3>1. CASE d = c
      BY <2>1, <2>2, <3>1 DEF TypeOK
    <3>2. CASE d # c
      <4>1. echo'[d] = echo[d] /\ current'[d] = current[d] /\ pc'[d] = pc[d]
        BY <2>1, <3>2 DEF TypeOK
      <4>2. QED BY <2>1, <2>2, <2>4, <3>2, <4>1 DEF Named
    <3>3. QED BY <3>1, <3>2
  <2>5. current'[c] = made + 1
    BY <2>1 DEF TypeOK
  <2>6. ASSUME NEW d \in Caller, NEW e \in Caller,
               pc'[d] # "idle", pc'[e] # "idle", current'[d] = current'[e]
        PROVE  d = e
    <3>1. CASE d # c /\ e # c
      BY <2>4, <2>6, <3>1 DEF Named
    <3>2. CASE d = c \/ e = c
      BY <2>2, <2>4, <2>5, <2>6, <3>2
    <3>3. QED BY <3>1, <3>2
  <2>7. QED BY <2>3, <2>4, <2>6 DEF Named
<1>2. ASSUME NEW c \in Caller, pc[c] # "idle", NEW s \in PCs, pc' = [pc EXCEPT ![c] = s],
             UNCHANGED <<counter, echo, current, made>>
      PROVE  Named'
  BY <1>2 DEF Named, TypeOK
<1>3. ASSUME UNCHANGED <<pc, counter, echo, current, made>> PROVE Named'
  BY <1>3 DEF Named
<1>4. ASSUME NEW c \in Caller, Proceed(c) PROVE Named'
  <2>1. ASSUME CallApiSend(c) PROVE Named'
    BY <1>2, <2>1 DEF CallApiSend, PCs
  <2>2. ASSUME EchoPendingNew(c) PROVE Named'
    BY <1>2, <2>2 DEF EchoPendingNew, PCs
  <2>3. ASSUME WaitAnswered(c) PROVE Named'
    BY <1>2, <2>3 DEF WaitAnswered, PCs
  <2>4. ASSUME WaitExpired(c) PROVE Named'
    BY <1>2, <2>4 DEF WaitExpired, PCs
  <2>5. ASSUME Cleanup(c) PROVE Named'
    BY <1>2, <2>5 DEF Cleanup, PCs
  <2>6. QED BY <1>4, <2>1, <2>2, <2>3, <2>4, <2>5 DEF Proceed
<1>5. QED
  BY <1>1, <1>3, <1>4 DEF Next, ApiWrite, ServerReplies, HandleApi, vars

\* Messages are built from the echo of the call they are for, and copied.
LEMMA FaithfulInductive == TypeOK /\ Named /\ Faithful /\ [Next]_vars => Faithful'
<1> SUFFICES ASSUME TypeOK, Named, Faithful, [Next]_vars PROVE Faithful'
  OBVIOUS
<1>1. ASSUME NEW c \in Caller, CallApiSend(c) PROVE Faithful'
  <2>1. echo[c] = current[c]
    BY <1>1 DEF Named, CallApiSend
  <2> DEFINE q == [echo |-> echo[c], for |-> current[c]]
  <2>2. q \in Request /\ q.echo = q.for
    BY <2>1 DEF TypeOK, Request
  <2>3. api_queue' = Append(api_queue, q)
    BY <1>1 DEF CallApiSend
  <2> HIDE DEF q
  <2>4. \A i \in 1..Len(api_queue') : api_queue'[i] = q \/ \E j \in 1..Len(api_queue) : api_queue'[i] = api_queue[j]
    BY <2>2, <2>3 DEF TypeOK
  <2>5. \A i \in 1..Len(api_queue') : api_queue'[i].echo = api_queue'[i].for
    BY <2>2, <2>4 DEF Faithful
  <2>6. QED BY <1>1, <2>5 DEF CallApiSend, Faithful
<1>2. ASSUME NEW c \in Caller, EchoPendingNew(c) PROVE Faithful'
  <2>1. echo[c] = current[c]
    BY <1>2 DEF Named, EchoPendingNew
  <2>2. \A p \in registry' : p.echo = p.for
    BY <1>2, <2>1 DEF EchoPendingNew, Faithful
  <2>3. QED BY <1>2, <2>2 DEF EchoPendingNew, Faithful
<1>3. ASSUME NEW c \in Caller, Cleanup(c) PROVE Faithful'
  BY <1>3 DEF Cleanup, Faithful
<1>4. CASE ApiWrite
  <2>0. /\ api_queue' = Tail(api_queue) /\ Head(api_queue) = api_queue[1]
        /\ 1 \in 1..Len(api_queue)
        /\ \A i \in 1..Len(Tail(api_queue)) :
             i + 1 \in 1..Len(api_queue) /\ Tail(api_queue)[i] = api_queue[i + 1]
    BY <1>4 DEF ApiWrite, TypeOK
  <2>1. Head(api_queue).echo = Head(api_queue).for
    BY <2>0 DEF Faithful
  <2>2. \A s \in server' : s.request.echo = s.request.for
    BY <1>4, <2>1 DEF ApiWrite, Faithful
  <2>3. \A i \in 1..Len(api_queue') : api_queue'[i].echo = api_queue'[i].for
    BY <2>0 DEF Faithful
  <2>4. QED BY <1>4, <2>2, <2>3 DEF ApiWrite, Faithful
<1>5. ASSUME NEW s \in server, ServerReplies(s) PROVE Faithful'
  <2>1. s \in [request : Request, replies : 0..MaxReplies] /\ s.request.echo = s.request.for
    BY DEF TypeOK, Faithful
  <2>2. [s EXCEPT !.replies = s.replies + 1].request = s.request
    BY <2>1
  <2>3. \A t \in server' : t.request.echo = t.request.for
    BY <1>5, <2>1, <2>2 DEF ServerReplies, Faithful
  <2>4. \A r \in inbound' : r.echo = r.for
    BY <1>5, <2>1 DEF ServerReplies, Faithful
  <2>5. QED BY <1>5, <2>3, <2>4 DEF ServerReplies, Faithful
<1>6. ASSUME NEW r \in inbound, HandleApi(r) PROVE Faithful'
  BY <1>6 DEF HandleApi, Faithful
<1>7. QED
  BY <1>1, <1>2, <1>3, <1>4, <1>5, <1>6
     DEF Next, Proceed, EchoNew, WaitAnswered, WaitExpired, vars, Faithful

\* The registry is changed by three actions: a call that starts to wait puts
\* itself in, a call that returns takes itself out, an answer takes out the
\* entry of the call it is for.
LEMMA MatchedInductive == TypeOK /\ Named /\ Faithful /\ Matched /\ [Next]_vars => Matched'
<1> SUFFICES ASSUME TypeOK, Named, Faithful, Matched, [Next]_vars PROVE Matched'
  OBVIOUS
<1>n. /\ \A c \in Caller : pc[c] # "idle" => echo[c] = current[c] /\ current[c] # 0
      /\ \A c, d \in Caller :
           (pc[c] # "idle" /\ pc[d] # "idle" /\ echo[c] = echo[d]) => c = d
  BY DEF Named
<1>1. ASSUME NEW c \in Caller, EchoNew(c) PROVE Matched'
  <2>1. /\ pc[c] = "idle" /\ pc'[c] = "named"
        /\ \A d \in Caller \ {c} : pc'[d] = pc[d] /\ echo'[d] = echo[d] /\ current'[d] = current[d]
        /\ got' = got /\ registry' = registry
    BY <1>1 DEF EchoNew, TypeOK
  <2>2. AnswerIsMine' /\ WaitingIsReachable' /\ TakenOut'
    BY <2>1 DEF Matched, AnswerIsMine, WaitingIsReachable, TakenOut
  <2>3. RegistryOwned'
    BY <2>1 DEF Matched, RegistryOwned
  <2>4. QED BY <2>2, <2>3 DEF Matched
<1>2. ASSUME NEW c \in Caller, CallApiSend(c) PROVE Matched'
  <2>1. /\ pc[c] = "named" /\ pc'[c] = "sent"
        /\ \A d \in Caller \ {c} : pc'[d] = pc[d]
        /\ got' = got /\ registry' = registry /\ echo' = echo /\ current' = current
    BY <1>2 DEF CallApiSend, TypeOK
  <2>2. QED BY <2>1 DEF Matched, AnswerIsMine, WaitingIsReachable, TakenOut, RegistryOwned
<1>3. ASSUME NEW c \in Caller, EchoPendingNew(c) PROVE Matched'
  <2> DEFINE e == [echo |-> echo[c], for |-> current[c]]
  <2>1. /\ pc[c] = "sent" /\ pc'[c] = "waiting" /\ got'[c] = 0
        /\ \A d \in Caller \ {c} : pc'[d] = pc[d] /\ got'[d] = got[d]
        /\ registry' = {p \in registry : p.echo # echo[c]} \cup {e}
        /\ echo' = echo /\ current' = current
    BY <1>3 DEF EchoPendingNew, TypeOK
  <2>2. AnswerIsMine'
    BY <2>1 DEF Matched, AnswerIsMine
  <2>3. WaitingIsReachable'
    BY <1>n, <2>1 DEF Matched, WaitingIsReachable
  <2>4. TakenOut'
    BY <1>n, <2>1 DEF Matched, TakenOut
  <2>5. RegistryOwned'
    BY <2>1 DEF Matched, RegistryOwned
  <2>6. QED BY <2>2, <2>3, <2>4, <2>5 DEF Matched
<1>4. ASSUME NEW c \in Caller, WaitAnswered(c) PROVE Matched'
  <2>1. /\ pc[c] = "waiting" /\ got[c] # 0 /\ pc'[c] = "answered"
        /\ \A d \in Caller \ {c} : pc'[d] = pc[d]
        /\ got' = got /\ registry' = registry /\ echo' = echo /\ current' = current
    BY <1>4 DEF WaitAnswered, TypeOK
  <2>2. AnswerIsMine' /\ WaitingIsReachable' /\ TakenOut'
    BY <2>1 DEF Matched, AnswerIsMine, WaitingIsReachable, TakenOut
  <2>3. \A p \in registry : p # [echo |-> echo[c], for |-> current[c]]
    BY <2>1 DEF Matched, TakenOut
  <2>4. RegistryOwned'
    BY <2>1, <2>3 DEF Matched, RegistryOwned
  <2>5. QED BY <2>2, <2>4 DEF Matched
<1>5. ASSUME NEW c \in Caller, WaitExpired(c) PROVE Matched'
  <2>1. /\ pc[c] = "waiting" /\ pc'[c] = "expired"
        /\ \A d \in Caller \ {c} : pc'[d] = pc[d]
        /\ got' = got /\ registry' = registry /\ echo' = echo /\ current' = current
    BY <1>5 DEF WaitExpired, TypeOK
  <2>2. AnswerIsMine' /\ WaitingIsReachable' /\ TakenOut'
    BY <2>1 DEF Matched, AnswerIsMine, WaitingIsReachable, TakenOut
  <2>3. RegistryOwned'
    BY <2>1 DEF Matched, RegistryOwned
  <2>4. QED BY <2>2, <2>3 DEF Matched
<1>6. ASSUME NEW c \in Caller, Cleanup(c) PROVE Matched'
  <2>1. /\ pc[c] \in {"expired", "answered"} /\ pc'[c] = "idle"
        /\ \A d \in Caller \ {c} : pc'[d] = pc[d]
        /\ registry' = {p \in registry : p.echo # echo[c]}
        /\ got' = got /\ echo' = echo /\ current' = current
    BY <1>6 DEF Cleanup, TypeOK
  <2>2. AnswerIsMine' /\ TakenOut'
    BY <2>1 DEF Matched, AnswerIsMine, TakenOut
  <2>3. WaitingIsReachable'
    BY <1>n, <2>1 DEF Matched, WaitingIsReachable
  <2>4. RegistryOwned'
    BY <2>1 DEF Matched, RegistryOwned
  <2>5. QED BY <2>2, <2>3, <2>4 DEF Matched
<1>7. ASSUME NEW r \in inbound, HandleApi(r) PROVE Matched'
  <2> DEFINE open == {c \in Caller : /\ pc[c] = "waiting"
                                     /\ [echo |-> r.echo, for |-> current[c]] \in registry}
  <2>1. /\ registry' = {p \in registry : p.echo # r.echo}
        /\ got' = [c \in Caller |-> IF c \in open THEN r.for ELSE got[c]]
        /\ pc' = pc /\ echo' = echo /\ current' = current
    BY <1>7 DEF HandleApi
  <2>2. r.for = r.echo
    BY DEF Faithful
  <2>3. ASSUME NEW c \in open PROVE current[c] = r.echo /\ echo[c] = r.echo
    BY <1>n DEF Faithful
  <2>4. ASSUME NEW c \in Caller, pc[c] = "waiting", c \notin open, got[c] = 0
        PROVE  echo[c] # r.echo
    BY <2>4 DEF Matched, WaitingIsReachable
  <2>5. AnswerIsMine'
    BY <2>1, <2>2, <2>3 DEF Matched, AnswerIsMine
  <2>6. WaitingIsReachable'
    <3> SUFFICES ASSUME NEW c \in Caller, pc[c] = "waiting", got'[c] = 0
                 PROVE  [echo |-> echo[c], for |-> current[c]] \in registry'
      BY <2>1 DEF WaitingIsReachable
    <3>1. c \notin open
      BY <1>n, <2>1, <2>2, <2>3
    <3>2. got[c] = 0 /\ echo[c] # r.echo
      BY <2>1, <2>4, <3>1
    <3>3. QED BY <2>1, <3>2 DEF Matched, WaitingIsReachable
  <2>7. TakenOut'
    BY <2>1, <2>3 DEF Matched, TakenOut
  <2>8. RegistryOwned'
    BY <2>1 DEF Matched, RegistryOwned
  <2>9. QED BY <2>5, <2>6, <2>7, <2>8 DEF Matched
<1>8. ASSUME UNCHANGED <<registry, pc, echo, got, current>> PROVE Matched'
  BY <1>8 DEF Matched, AnswerIsMine, WaitingIsReachable, TakenOut, RegistryOwned
<1>9. QED
  BY <1>1, <1>2, <1>3, <1>4, <1>5, <1>6, <1>7, <1>8
     DEF Next, Proceed, ApiWrite, ServerReplies, vars

\* A call fails only with an empty receiver, and once a receiver has been
\* handed an answer it is not empty.
LEMMA TimelyInductive ==
  TypeOK /\ Named /\ Faithful /\ Matched /\ Timely /\ [Next]_vars => Timely'
<1> SUFFICES ASSUME TypeOK, Named, Faithful, Matched, Timely, [Next]_vars PROVE Timely'
  OBVIOUS
<1>m. made \in Nat /\ made + 1 \notin 1..made /\ 1..made \subseteq 1..(made + 1)
  BY DEF TypeOK
<1>n. \A c, d \in Caller :
        (pc[c] # "idle" /\ pc[d] # "idle" /\ current[c] = current[d]) => c = d
  BY DEF Named
<1>1. ASSUME NEW c \in Caller, EchoNew(c) PROVE Timely'
  <2>1. /\ pc'[c] = "named" /\ current'[c] = made + 1 /\ made' = made + 1
        /\ \A d \in Caller \ {c} : pc'[d] = pc[d] /\ current'[d] = current[d]
        /\ got' = got /\ handed' = handed /\ failed' = failed
    BY <1>1 DEF EchoNew, TypeOK
  <2>2. handed' \subseteq 1..made' /\ failed' \subseteq 1..made'
    BY <1>m, <2>1 DEF Timely
  <2>3. made + 1 \notin handed \cup failed
    BY <1>m DEF Timely
  <2>4. QED BY <2>1, <2>2, <2>3 DEF Timely, AnsweredInTime
<1>2. ASSUME NEW c \in Caller, CallApiSend(c) PROVE Timely'
  <2>1. /\ pc[c] = "named" /\ pc'[c] = "sent"
        /\ \A d \in Caller \ {c} : pc'[d] = pc[d]
        /\ got' = got /\ handed' = handed /\ failed' = failed
        /\ made' = made /\ current' = current
    BY <1>2 DEF CallApiSend, TypeOK
  <2>2. QED BY <2>1 DEF Timely, AnsweredInTime
<1>3. ASSUME NEW c \in Caller, EchoPendingNew(c) PROVE Timely'
  <2>1. /\ pc[c] = "sent" /\ pc'[c] = "waiting"
        /\ \A d \in Caller \ {c} : pc'[d] = pc[d] /\ got'[d] = got[d]
        /\ handed' = handed /\ failed' = failed /\ made' = made /\ current' = current
    BY <1>3 DEF EchoPendingNew, TypeOK
  <2>2. QED BY <2>1 DEF Timely, AnsweredInTime
<1>4. ASSUME NEW c \in Caller, NEW s \in {"answered", "idle"}, pc' = [pc EXCEPT ![c] = s],
             UNCHANGED <<got, handed, failed, made, current>>
      PROVE  Timely'
  <2>1. pc'[c] = s /\ \A d \in Caller \ {c} : pc'[d] = pc[d]
    BY <1>4 DEF TypeOK
  <2>2. QED BY <1>4, <2>1 DEF Timely, AnsweredInTime
<1>5. ASSUME NEW c \in Caller, WaitExpired(c) PROVE Timely'
  <2>1. /\ pc[c] = "waiting" /\ got[c] = 0 /\ pc'[c] = "expired"
        /\ \A d \in Caller \ {c} : pc'[d] = pc[d]
        /\ failed' = failed \cup {current[c]}
        /\ got' = got /\ handed' = handed /\ made' = made /\ current' = current
    BY <1>5 DEF WaitExpired, TypeOK
  <2>2. current[c] \in 1..made /\ current[c] \notin handed
    BY <2>1 DEF Named, Timely
  <2>3. \A d \in Caller \ {c} : pc[d] # "idle" => current[d] # current[c]
    BY <1>n, <2>1
  <2>4. QED BY <2>1, <2>2, <2>3 DEF Timely, AnsweredInTime
<1>6. ASSUME NEW r \in inbound, HandleApi(r) PROVE Timely'
  <2> DEFINE open == {c \in Caller : /\ pc[c] = "waiting"
                                     /\ [echo |-> r.echo, for |-> current[c]] \in registry}
  <2>1. /\ got' = [c \in Caller |-> IF c \in open THEN r.for ELSE got[c]]
        /\ handed' = handed \cup {current[c] : c \in open}
        /\ pc' = pc /\ failed' = failed /\ made' = made /\ current' = current
    BY <1>6 DEF HandleApi
  <2>2. ASSUME NEW c \in open
        PROVE  pc[c] = "waiting" /\ current[c] \in 1..made /\ r.for = current[c] /\ current[c] # 0
    BY DEF Faithful, Named
  <2>3. handed' \subseteq 1..made'
    BY <2>1, <2>2 DEF Timely
  <2>4. ASSUME NEW d \in Caller, pc[d] # "idle", d \notin open
        PROVE  current[d] \in handed' <=> current[d] \in handed
    BY <1>n, <2>1, <2>2, <2>4
  <2>5. \A d \in Caller : pc[d] \in {"named", "sent"} => current[d] \notin handed' \cup failed
    BY <2>2, <2>4 DEF Timely
  <2>6. \A d \in Caller : pc[d] = "waiting" =>
          current[d] \notin failed /\ (current[d] \in handed' => got'[d] # 0)
    BY <2>1, <2>2, <2>4 DEF Timely
  <2>7. handed' \cap failed = {}
    BY <2>1, <2>2 DEF Timely, AnsweredInTime
  <2>8. QED BY <2>1, <2>3, <2>5, <2>6, <2>7 DEF Timely, AnsweredInTime
<1>7. ASSUME UNCHANGED <<pc, got, made, current, handed, failed>> PROVE Timely'
  BY <1>7 DEF Timely, AnsweredInTime
<1>8. ASSUME NEW c \in Caller, WaitAnswered(c) PROVE Timely'
  BY <1>4, <1>8 DEF WaitAnswered
<1>9. ASSUME NEW c \in Caller, Cleanup(c) PROVE Timely'
  BY <1>4, <1>9 DEF Cleanup
<1>10. QED
  BY <1>1, <1>2, <1>3, <1>5, <1>6, <1>7, <1>8, <1>9
     DEF Next, Proceed, ApiWrite, ServerReplies, vars

-----------------------------------------------------------------------------
\* Nothing is under way at the start.
LEMMA InitInv == Init => IInv
BY DEF Init, IInv, TypeOK, PCs, Named, Faithful, Matched, AnswerIsMine, WaitingIsReachable,
       RegistryOwned, TakenOut, Timely, AnsweredInTime

\* The layers together are inductive, so they hold in every reachable state.
LEMMA Invariance == Spec => []IInv
<1>1. IInv /\ [Next]_vars => IInv'
  BY TypeInductive, NamedInductive, FaithfulInductive, MatchedInductive, TimelyInductive
     DEF IInv
<1>2. QED BY InitInv, <1>1, PTL DEF Spec

\* Every variable keeps its type, in every behaviour.
THEOREM TypeCorrect == Spec => []TypeOK
<1>1. IInv => TypeOK
  BY DEF IInv
<1>2. QED BY <1>1, Invariance, PTL

\* However many tasks call at once, and whatever the server answers, in
\* whatever order and however often, an answer only reaches its own call.
THEOREM AnswersMatch == Spec => []AnswerIsMine
<1>1. IInv => AnswerIsMine
  BY DEF IInv, Matched
<1>2. QED BY <1>1, Invariance, PTL

\* A call that waits with an empty receiver has its sender in the registry.
THEOREM CallsReachable == Spec => []WaitingIsReachable
<1>1. IInv => WaitingIsReachable
  BY DEF IInv, Matched
<1>2. QED BY <1>1, Invariance, PTL

\* Every entry of the registry belongs to a call that has not returned.
THEOREM RegistryBounded == Spec => []RegistryOwned
<1>1. IInv => RegistryOwned
  BY DEF IInv, Matched
<1>2. QED BY <1>1, Invariance, PTL

\* A call that was handed an answer while it waited does not time out.
THEOREM AnswersCount == Spec => []AnsweredInTime
<1>1. IInv => AnsweredInTime
  BY DEF IInv, Timely
<1>2. QED BY <1>1, Invariance, PTL

-----------------------------------------------------------------------------
(* The tables of the handlers (ChatHandlers).                              *)

\* The command a word belongs to.
Owner == [login |-> "login", logout |-> "logout", loginpwd |-> "login_pwd", logoutpwd |-> "logout_pwd",
  sign |-> "sign", signtime |-> "sign_time", signapi |-> "sign_api", delsigntime |-> "del_sign_time",
  autosign |-> "auto_sign", specsign |-> "spec_sign", pushsign |-> "push_sign", push |-> "push_sign",
  test |-> "test", testans |-> "test_ans", gettest |-> "get_test", class |-> "class", getclass |-> "get_class",
  download |-> "download", timetable |-> "timetable", jdpm |-> "jdpm", setpwd |-> "setpwd",
  flushvpn |-> "flushvpn", status |-> "status", github |-> "github", echo |-> "echo", help |-> "help"]

\* The commands of the table, by name.
LEMMA CommandNames == DOMAIN Chat!Commands =
  {"login", "logout", "login_pwd", "logout_pwd", "sign", "sign_time", "sign_api", "del_sign_time",
   "auto_sign", "spec_sign", "push_sign", "test", "test_ans", "get_test", "class", "get_class",
   "download", "timetable", "jdpm", "setpwd", "flushvpn", "status", "github", "echo", "help"}
BY DEF Chat!Commands

\* Every word starts one command only.
LEMMA WordsOwned == \A c \in DOMAIN Chat!Commands : \A w \in Chat!Commands[c].words : Owner[w] = c
BY CommandNames DEF Chat!Commands, Chat!Cmd, Owner

\* The words of the table.
LEMMA TheWords == Chat!Words = DOMAIN Owner
<1>1. \A c \in DOMAIN Chat!Commands : Chat!Commands[c].words \subseteq DOMAIN Owner
  BY CommandNames DEF Chat!Commands, Chat!Cmd, Owner
<1>2. \A w \in DOMAIN Owner : Owner[w] \in DOMAIN Chat!Commands /\ w \in Chat!Commands[Owner[w]].words
  BY CommandNames DEF Chat!Commands, Chat!Cmd, Owner
<1> QED BY <1>1, <1>2 DEF Chat!Words

Longer == {"signtime", "signapi", "loginpwd", "logoutpwd", "testans", "pushsign"}

\* Which words start with which.
LEMMA Starting ==
  /\ \A k \in Chat!Words \ Longer : Chat!Starts[k] = {k}
  /\ Chat!Starts["signtime"] = {"signtime", "sign"} /\ Chat!Starts["signapi"] = {"signapi", "sign"}
  /\ Chat!Starts["loginpwd"] = {"loginpwd", "login"} /\ Chat!Starts["logoutpwd"] = {"logoutpwd", "logout"}
  /\ Chat!Starts["testans"] = {"testans", "test"} /\ Chat!Starts["pushsign"] = {"pushsign", "push"}
  /\ DOMAIN Chat!Starts = Chat!Words
  /\ Longer \subseteq Chat!Words
<1>1. Longer \subseteq Chat!Words
  BY TheWords DEF Longer, Owner
<1> QED BY <1>1 DEF Chat!Starts, Longer

\* A command that is matched has a word that the words of the others start.
LEMMA TableFits ==
  ASSUME NEW k \in Chat!Words, NEW c \in Router!Matched(k), NEW d \in Router!Matches(k) \ {c}
  PROVE  \E w \in Chat!Commands[c].words : Chat!Commands[d].words \cap Chat!Starts[k] \subseteq Chat!Starts[w]
<1>1. /\ c \in DOMAIN Chat!Commands /\ d \in DOMAIN Chat!Commands /\ d # c
      /\ Chat!Commands[c].words \cap Chat!Starts[k] # {} /\ Chat!Commands[d].words \cap Chat!Starts[k] # {}
      /\ ~(Chat!Commands[d].len > Chat!Commands[c].len)
  BY DEF Router!Matched, Router!Matches, Router!Earlier
<1>2. CASE k \notin Longer
  BY <1>1, <1>2, WordsOwned, Starting
<1>3. CASE k = "signtime"
  BY <1>1, <1>3, WordsOwned, Starting DEF Owner, Chat!Commands, Chat!Cmd
<1>4. CASE k = "signapi"
  BY <1>1, <1>4, WordsOwned, Starting DEF Owner, Chat!Commands, Chat!Cmd
<1>5. CASE k = "loginpwd"
  BY <1>1, <1>5, WordsOwned, Starting DEF Owner, Chat!Commands, Chat!Cmd
<1>6. CASE k = "logoutpwd"
  BY <1>1, <1>6, WordsOwned, Starting DEF Owner, Chat!Commands, Chat!Cmd
<1>7. CASE k = "testans"
  BY <1>1, <1>7, WordsOwned, Starting DEF Owner, Chat!Commands, Chat!Cmd
<1>8. CASE k = "pushsign"
  BY <1>1, <1>8, WordsOwned, Starting DEF Owner, Chat!Commands, Chat!Cmd
<1> QED BY <1>2, <1>3, <1>4, <1>5, <1>6, <1>7, <1>8 DEF Longer

\* The handlers that are no commands are none of the commands, and there is a
\* script for every handler.
LEMMA HandlersNamed ==
  /\ DOMAIN Chat!Commands \subseteq DOMAIN Chat!Scripts
  /\ \A k : /\ Router!OthersOf(k) \subseteq DOMAIN Chat!Scripts
            /\ Router!OthersOf(k) \cap DOMAIN Chat!Commands = {}
<1>1. DOMAIN Chat!Commands \subseteq DOMAIN Chat!Scripts
  BY CommandNames DEF Chat!Scripts
<1>2. ASSUME NEW k
      PROVE  /\ Router!OthersOf(k) \subseteq DOMAIN Chat!Scripts
             /\ Router!OthersOf(k) \cap DOMAIN Chat!Commands = {}
  <2>1. Router!OthersOf(k) \subseteq {"qr_sign", "emoji_mirror", "poke", "emoji_follow", "friend_add"}
    BY DEF Router!OthersOf, Router!TypeOf, Chat!Others
  <2> QED BY <2>1, CommandNames DEF Chat!Scripts
<1> QED BY <1>1, <1>2

\* Scripts put one after the other are scripts.
LEMMA ThenSteps ==
  ASSUME NEW S \in SUBSET Seq(Router!Step), NEW T \in SUBSET Seq(Router!Step)
  PROVE  Chat!Then(S, T) \in SUBSET Seq(Router!Step)
<1>1. ASSUME NEW s \in S, NEW t \in T PROVE s \o t \in Seq(Router!Step)
  OBVIOUS
<1>2. \A x \in Chat!Then(S, T) : \E s \in S, t \in T : x = s \o t
  BY DEF Chat!Then
<1>3. Chat!Then(S, T) \subseteq Seq(Router!Step)
  BY <1>1, <1>2
<1> QED BY <1>3

\* The scripts of the table are made of steps the router knows.
LEMMA ScriptsFit == \A h \in DOMAIN Chat!Scripts : Chat!Scripts[h] \in SUBSET Seq(Router!Step)
<1>1. /\ Chat!Answer \in SUBSET Seq(Router!Step)
      /\ Chat!process_login \in SUBSET Seq(Router!Step)
      /\ {<<"ask">>} \in SUBSET Seq(Router!Step)
      /\ {<<"ask", "collect">>} \in SUBSET Seq(Router!Step)
      /\ {<<"ask">>, <<"ask", "collect">>} \in SUBSET Seq(Router!Step)
      /\ {<<"ask", "try", "send", "ask">>} \in SUBSET Seq(Router!Step)
      /\ {<<"ask", "collect", "collect", "ask">>} \in SUBSET Seq(Router!Step)
      /\ {<<"ask", "collect", "ask">>} \in SUBSET Seq(Router!Step)
      /\ {<<"ask", "collect", "collect", "collect">>} \in SUBSET Seq(Router!Step)
  BY DEF Chat!Answer, Chat!process_login, Router!Step
<1>2. /\ Chat!get_client_or_err \in SUBSET Seq(Router!Step)
      /\ Chat!process_login_castgc \in SUBSET Seq(Router!Step)
  BY <1>1 DEF Chat!get_client_or_err, Chat!process_login_castgc
<1>3. /\ Chat!Then({<<"ask", "collect">>}, Chat!process_login) \in SUBSET Seq(Router!Step)
      /\ Chat!Then(Chat!process_login_castgc, {<<"ask", "collect", "collect", "collect">>}) \in SUBSET Seq(Router!Step)
  BY <1>1, <1>2, ThenSteps
<1>4. /\ Chat!login \in SUBSET Seq(Router!Step)
      /\ Chat!sign \in SUBSET Seq(Router!Step)
      /\ Chat!auto_sign \in SUBSET Seq(Router!Step)
      /\ Chat!spec_sign \in SUBSET Seq(Router!Step)
      /\ Chat!sign_time \in SUBSET Seq(Router!Step)
  BY <1>1, <1>2, <1>3, ThenSteps DEF Chat!login, Chat!sign, Chat!auto_sign, Chat!spec_sign, Chat!sign_time
<1>5. /\ Chat!test \in SUBSET Seq(Router!Step)
      /\ Chat!class \in SUBSET Seq(Router!Step)
      /\ Chat!get_test \in SUBSET Seq(Router!Step)
      /\ Chat!test_ans \in SUBSET Seq(Router!Step)
      /\ Chat!get_class \in SUBSET Seq(Router!Step)
      /\ Chat!download \in SUBSET Seq(Router!Step)
      /\ Chat!timetable \in SUBSET Seq(Router!Step)
      /\ Chat!jdpm \in SUBSET Seq(Router!Step)
  BY <1>1, <1>2, <1>3, ThenSteps DEF Chat!test, Chat!class, Chat!get_test, Chat!test_ans, Chat!get_class,
     Chat!download, Chat!timetable, Chat!jdpm
<1>6. /\ Chat!logout \in SUBSET Seq(Router!Step) /\ Chat!logout_pwd \in SUBSET Seq(Router!Step)
      /\ Chat!del_sign_time \in SUBSET Seq(Router!Step) /\ Chat!setpwd \in SUBSET Seq(Router!Step)
      /\ Chat!status \in SUBSET Seq(Router!Step)
  BY <1>1 DEF Chat!logout, Chat!logout_pwd, Chat!del_sign_time, Chat!setpwd, Chat!status
<1>7. /\ Chat!login_pwd \in SUBSET Seq(Router!Step) /\ Chat!push_sign \in SUBSET Seq(Router!Step)
      /\ Chat!sign_api \in SUBSET Seq(Router!Step) /\ Chat!flushvpn \in SUBSET Seq(Router!Step)
      /\ Chat!github \in SUBSET Seq(Router!Step) /\ Chat!echo \in SUBSET Seq(Router!Step)
      /\ Chat!help \in SUBSET Seq(Router!Step) /\ Chat!qr_sign \in SUBSET Seq(Router!Step)
      /\ Chat!emoji_mirror \in SUBSET Seq(Router!Step) /\ Chat!emoji_follow \in SUBSET Seq(Router!Step)
      /\ Chat!poke \in SUBSET Seq(Router!Step) /\ Chat!friend_add \in SUBSET Seq(Router!Step)
  BY DEF Chat!login_pwd, Chat!push_sign, Chat!sign_api, Chat!flushvpn, Chat!github, Chat!echo, Chat!help,
     Chat!qr_sign, Chat!emoji_mirror, Chat!emoji_follow, Chat!poke, Chat!friend_add, Router!Step
<1> QED BY <1>4, <1>5, <1>6, <1>7 DEF Chat!Scripts

-----------------------------------------------------------------------------
(* Events (EventRouter).                                                   *)

TaskType == [at : Router!Stage, todo : Seq(Router!Step), list : Nat, err : BOOLEAN]

\* An event that was read is in one place, and it has handlers only once it is
\* behind the router.
Queued ==
  /\ inbox \cap routed = {}
  /\ \A i \in 1..Len(channel) : channel[i] \notin inbox \cup routed
  /\ \A i, j \in 1..Len(channel) : channel[i] = channel[j] => i = j
  /\ \A e \in Event : kind[e] = "unread" =>
       e \notin inbox \cup routed /\ \A i \in 1..Len(channel) : channel[i] # e
  /\ \A t \in DOMAIN task : t[1] \in routed

\* The command that was started is the first that matches, and the only one.
FirstOnly ==
  \A e \in Event, c \in DOMAIN Chat!Commands : <<e, c>> \in DOMAIN task =>
    /\ c \in Router!Matched(kind[e])
    /\ \A d \in DOMAIN Chat!Commands : <<e, d>> \in DOMAIN task => d = c

\* A handler that failed has its error to tell.
Reports == \A t \in DOMAIN task : task[t].err => task[t].list > 0

Forwarded ==
  \A s \in spoken : s.how = "forward" =>
    /\ Router!TypeOf(kind[s.task[1]]) = "Message"
    /\ task[s.task].at = "over" /\ s.n = task[s.task].list
    /\ \A r \in spoken : r.task = s.task /\ r.how = "forward" => r = s

RouterInv == Router!TypeOK /\ Queued /\ FirstOnly /\ Reports /\ Forwarded

\* The router starts with nothing read.
LEMMA RouterInit == Router!Init => RouterInv
BY DEF Router!Init, RouterInv, Router!TypeOK, Queued, FirstOnly, Reports, Forwarded

\* What the invariant says of each variable of the router.
LEMMA RouterTypes ==
  ASSUME RouterInv
  PROVE  /\ kind \in [Event -> Router!Words \cup {"unread", "text", "Notice", "Request", "Meta"}]
         /\ inbox \subseteq Event /\ routed \subseteq Event /\ channel \in Seq(Event)
         /\ DOMAIN task \subseteq Event \X DOMAIN Chat!Scripts
         /\ task \in [DOMAIN task -> TaskType]
         /\ \A t \in DOMAIN task : task[t] \in TaskType /\ t[1] \in Event
         /\ \A s \in spoken : s.task \in DOMAIN task
BY DEF RouterInv, Router!TypeOK, TaskType

\* A step of one handler, which may tell the server something.
LEMMA TaskStep ==
  ASSUME RouterInv, NEW t \in DOMAIN task, NEW q \in TaskType,
         task' = [task EXCEPT ![t] = q], UNCHANGED <<kind, inbox, channel, routed>>,
         task[t].at # "over", q.err => q.list > 0,
         \/ spoken' = spoken
         \/ \E s \in [task : {t}, how : {"now", "forward"}, n : Nat] :
              /\ spoken' = spoken \cup {s}
              /\ s.how = "forward" => Router!TypeOf(kind[t[1]]) = "Message" /\ q.at = "over" /\ s.n = q.list
  PROVE  RouterInv'
<1> DEFINE told == spoken' \ spoken
<1>0. /\ spoken' = spoken \cup told
      /\ \A s \in told :
           /\ s \in [task : {t}, how : {"now", "forward"}, n : Nat]
           /\ s.how = "forward" => Router!TypeOf(kind[t[1]]) = "Message" /\ q.at = "over" /\ s.n = q.list
      /\ \A s, r \in told : s = r
  OBVIOUS
<1> HIDE DEF told
<1>1. /\ DOMAIN task' = DOMAIN task /\ task'[t] = q
      /\ \A o \in DOMAIN task : o # t => task'[o] = task[o]
      /\ task' \in [DOMAIN task -> TaskType]
  BY RouterTypes
<1>2. Router!TypeOK'
  <2>1. spoken' \subseteq [task : DOMAIN task, how : {"now", "forward"}, n : Nat]
    BY <1>0 DEF RouterInv, Router!TypeOK
  <2> QED BY <1>1, <2>1 DEF RouterInv, Router!TypeOK, TaskType
<1>3. Queued' /\ FirstOnly'
  BY <1>1 DEF RouterInv, Queued, FirstOnly, Router!Matched, Router!Matches
<1>4. Reports'
  BY <1>1 DEF RouterInv, Reports
<1>5. Forwarded'
  <2> SUFFICES ASSUME NEW s \in spoken', s.how = "forward"
               PROVE  /\ Router!TypeOf(kind[s.task[1]]) = "Message"
                      /\ task'[s.task].at = "over" /\ s.n = task'[s.task].list
                      /\ \A r \in spoken' : r.task = s.task /\ r.how = "forward" => r = s
    BY DEF Forwarded
  <2>1. \A r \in told : r.task = t
    BY <1>0
  <2>2. \A r \in spoken : r.how = "forward" => r.task # t /\ r.task \in DOMAIN task
    BY RouterTypes DEF RouterInv, Forwarded
  <2>3. CASE s \in told
    BY <1>0, <1>1, <2>1, <2>2, <2>3
  <2>4. CASE s \in spoken
    BY <1>0, <1>1, <2>1, <2>2, <2>4 DEF RouterInv, Forwarded
  <2> QED BY <1>0, <2>3, <2>4
<1> QED BY <1>2, <1>3, <1>4, <1>5 DEF RouterInv

\* Read: an event is read and handed to a task.
LEMMA RouterRead ==
  ASSUME RouterInv, NEW e \in Event, NEW k \in Kinds[e], Router!Read(e, k)
  PROVE  RouterInv'
<1>1. /\ kind[e] = "unread" /\ kind' = [kind EXCEPT ![e] = k] /\ inbox' = inbox \cup {e}
      /\ UNCHANGED <<channel, routed, task, spoken>>
  BY DEF Router!Read
<1>2. k \in Router!Words \cup {"text", "Notice", "Request", "Meta"} /\ k # "unread"
  <2>1. "unread" \notin Chat!Words
    BY TheWords DEF Owner
  <2>2. k \in Chat!Words \cup {"text", "Notice", "Request", "Meta"}
    BY KindsAssumption
  <2> QED BY <2>1, <2>2, Starting DEF Router!Words
<1>3. /\ kind' \in [Event -> Router!Words \cup {"unread", "text", "Notice", "Request", "Meta"}]
      /\ kind'[e] = k /\ \A o \in Event : o # e => kind'[o] = kind[o]
  BY <1>1, <1>2, RouterTypes
<1>4. \A o \in routed : kind'[o] = kind[o]
  BY <1>1, <1>3, RouterTypes DEF RouterInv, Queued
<1>5. Router!TypeOK'
  BY <1>1, <1>3 DEF RouterInv, Router!TypeOK
<1>6. Queued'
  BY <1>1, <1>2, <1>3 DEF RouterInv, Queued
<1>7. \A t \in DOMAIN task : kind'[t[1]] = kind[t[1]]
  BY <1>4 DEF RouterInv, Queued
<1>8. FirstOnly'
  BY <1>1, <1>7 DEF RouterInv, FirstOnly
<1>9. Reports' /\ Forwarded'
  BY <1>1, <1>7, RouterTypes DEF RouterInv, Reports, Forwarded
<1> QED BY <1>5, <1>6, <1>8, <1>9 DEF RouterInv

\* HandleEvent: an event is dropped, or handed to the router.
LEMMA RouterHandleEvent ==
  ASSUME RouterInv, NEW e \in Event, Router!HandleEvent(e)
  PROVE  RouterInv'
<1>1. /\ e \in inbox /\ inbox' = inbox \ {e} /\ UNCHANGED <<kind, task, spoken>>
      /\ \/ channel' = Append(channel, e) /\ routed' = routed
         \/ routed' = routed \cup {e} /\ channel' = channel
  BY DEF Router!HandleEvent
<1>2. /\ channel \in Seq(Event) /\ e \notin routed /\ kind[e] # "unread"
      /\ \A i \in 1..Len(channel) : channel[i] # e
  BY <1>1, RouterTypes DEF RouterInv, Queued
<1>3. channel' \in Seq(Event)
  BY <1>1, <1>2
<1>4. Router!TypeOK'
  BY <1>1, <1>3 DEF RouterInv, Router!TypeOK
<1>5. Queued'
  <2>1. CASE channel' = Append(channel, e) /\ routed' = routed
    <3>1. /\ Len(channel') = Len(channel) + 1 /\ Len(channel) \in Nat /\ channel'[Len(channel) + 1] = e
          /\ \A i \in 1..Len(channel) : channel'[i] = channel[i]
      BY <1>2, <2>1
    <3>2. \A i \in 1..Len(channel') : i \in 1..Len(channel) \/ i = Len(channel) + 1
      BY <3>1
    <3> QED BY <1>1, <1>2, <2>1, <3>1, <3>2 DEF RouterInv, Queued
  <2>2. CASE routed' = routed \cup {e} /\ channel' = channel
    BY <1>1, <1>2, <2>2 DEF RouterInv, Queued
  <2> QED BY <1>1, <2>1, <2>2
<1>6. FirstOnly' /\ Reports' /\ Forwarded'
  BY <1>1 DEF RouterInv, FirstOnly, Reports, Forwarded, Router!Matched, Router!Matches
<1> QED BY <1>4, <1>5, <1>6 DEF RouterInv

\* The handlers of one event are started: it had none, and among the new ones
\* is at most one command.
LEMMA RouterRoute ==
  ASSUME RouterInv, Router!Route
  PROVE  RouterInv'
<1>0. PICK e : e = Head(channel)
  OBVIOUS
<1>f. PICK first \in IF Router!Matched(kind[e]) = {} THEN {{}} ELSE {{c} : c \in Router!Matched(kind[e])} :
        \E script \in [first \cup Router!OthersOf(kind[e]) ->
                         UNION {Chat!Scripts[h] : h \in first \cup Router!OthersOf(kind[e])}] :
        /\ \A h \in first \cup Router!OthersOf(kind[e]) : script[h] \in Chat!Scripts[h]
        /\ Router!Spawn(e, script)
  BY <1>0 DEF Router!Route
<1>1. PICK script \in [first \cup Router!OthersOf(kind[e]) ->
                         UNION {Chat!Scripts[h] : h \in first \cup Router!OthersOf(kind[e])}] :
        /\ \A h \in first \cup Router!OthersOf(kind[e]) : script[h] \in Chat!Scripts[h]
        /\ Router!Spawn(e, script)
  BY <1>f
<1>2. /\ channel # <<>> /\ channel' = Tail(channel) /\ routed' = routed \cup {e}
      /\ UNCHANGED <<kind, inbox, spoken>>
  BY <1>0 DEF Router!Route
<1>3. /\ channel \in Seq(Event) /\ e \in Event /\ e = channel[1] /\ 1 \in 1..Len(channel)
      /\ e \notin inbox \cup routed /\ kind[e] # "unread"
      /\ \A t \in DOMAIN task : t[1] # e
  BY <1>0, <1>2, RouterTypes DEF RouterInv, Queued
<1> DEFINE hs == first \cup Router!OthersOf(kind[e])
           new == {<<e, h>> : h \in hs}
<1>4. /\ hs \subseteq DOMAIN Chat!Scripts
      /\ \A c \in hs \cap DOMAIN Chat!Commands :
           c \in Router!Matched(kind[e]) /\ \A d \in hs \cap DOMAIN Chat!Commands : d = c
  BY HandlersNamed DEF Router!Matched, Router!Matches
<1>5. /\ DOMAIN task' = DOMAIN task \cup new
      /\ \A t \in DOMAIN task : task'[t] = task[t]
      /\ \A h \in hs : task'[<<e, h>>] = [at |-> "run", todo |-> script[h], list |-> 0, err |-> FALSE]
      /\ task' = [t \in DOMAIN task' |-> task'[t]]
  <2>1. DOMAIN script = hs
    BY <1>1
  <2>2. task' = [t \in DOMAIN task \cup new |->
                   IF t \in DOMAIN task THEN task[t]
                   ELSE [at |-> "run", todo |-> script[t[2]], list |-> 0, err |-> FALSE]]
    BY <1>1, <2>1 DEF Router!Spawn
  <2>3. \A h \in hs : <<e, h>>[1] = e /\ <<e, h>>[2] = h /\ <<e, h>> \notin DOMAIN task
    BY <1>3
  <2> HIDE DEF hs
  <2> QED BY <2>2, <2>3
<1>6. \A h \in hs : task'[<<e, h>>] \in TaskType /\ task'[<<e, h>>].err = FALSE
  <2>1. \A h \in hs : script[h] \in Seq(Router!Step)
    BY <1>1, <1>4, ScriptsFit
  <2>2. ASSUME NEW h \in hs PROVE task'[<<e, h>>] \in TaskType /\ task'[<<e, h>>].err = FALSE
    <3>1. task'[<<e, h>>] = [at |-> "run", todo |-> script[h], list |-> 0, err |-> FALSE]
      BY <1>5
    <3>2. script[h] \in Seq(Router!Step)
      BY <2>1
    <3> QED BY <3>1, <3>2 DEF TaskType, Router!Stage
  <2> QED BY <2>2
<1> HIDE DEF hs
<1>7. Router!TypeOK'
  <2>1. DOMAIN task' \subseteq Event \X DOMAIN Chat!Scripts
    BY <1>3, <1>4, <1>5, RouterTypes
  <2>2. \A t \in DOMAIN task' : task'[t] \in TaskType
    BY <1>5, <1>6, RouterTypes
  <2>3. task' \in [DOMAIN task' -> TaskType]
    BY <1>5, <2>2
  <2>4. spoken' \subseteq [task : DOMAIN task', how : {"now", "forward"}, n : Nat]
    BY <1>2, <1>5 DEF RouterInv, Router!TypeOK
  <2>5. channel' \in Seq(Event)
    BY <1>2, <1>3
  <2> QED BY <1>2, <1>3, <2>1, <2>3, <2>4, <2>5 DEF RouterInv, Router!TypeOK, TaskType
<1>8. Queued'
  <2>1. /\ Len(channel') = Len(channel) - 1 /\ Len(channel) \in Nat
        /\ \A i \in 1..Len(channel') : channel'[i] = channel[i + 1] /\ i + 1 \in 1..Len(channel) /\ i + 1 # 1
    BY <1>2, <1>3
  <2>2. \A i \in 1..Len(channel') : channel'[i] \notin inbox \cup routed \cup {e}
    BY <2>1, <1>3 DEF RouterInv, Queued
  <2>3. ASSUME NEW i \in 1..Len(channel'), NEW j \in 1..Len(channel'), channel'[i] = channel'[j] PROVE i = j
    <3>1. i + 1 = j + 1
      BY <2>1, <2>3 DEF RouterInv, Queued
    <3> QED BY <3>1
  <2>4. \A t \in DOMAIN task' : t[1] \in routed'
    BY <1>2, <1>5 DEF RouterInv, Queued
  <2>5. \A o \in Event : kind[o] = "unread" =>
          o \notin inbox \cup routed' /\ \A i \in 1..Len(channel') : channel'[i] # o
    BY <1>2, <1>3, <2>1 DEF RouterInv, Queued
  <2> QED BY <1>2, <1>3, <2>2, <2>3, <2>4, <2>5 DEF RouterInv, Queued
<1>9. FirstOnly'
  <2> SUFFICES ASSUME NEW o \in Event, NEW c \in DOMAIN Chat!Commands, <<o, c>> \in DOMAIN task'
               PROVE  /\ c \in Router!Matched(kind[o])
                      /\ \A d \in DOMAIN Chat!Commands : <<o, d>> \in DOMAIN task' => d = c
    BY <1>2 DEF FirstOnly, Router!Matched, Router!Matches
  <2>1. CASE o = e
    <3>1. \A d : <<e, d>> \notin DOMAIN task
      BY <1>3
    <3>2. \A d : <<e, d>> \in new => d \in hs
      OBVIOUS
    <3> QED BY <1>4, <1>5, <2>1, <3>1, <3>2
  <2>2. CASE o # e
    <3>1. \A d : <<o, d>> \notin new
      BY <2>2
    <3> QED BY <1>5, <3>1 DEF RouterInv, FirstOnly
  <2> QED BY <2>1, <2>2
<1>10. Reports'
  BY <1>5, <1>6 DEF RouterInv, Reports
<1>11. Forwarded'
  BY <1>2, <1>5, RouterTypes DEF RouterInv, Forwarded
<1> QED BY <1>7, <1>8, <1>9, <1>10, <1>11 DEF RouterInv

\* Handler: a handler takes its next step.
LEMMA RouterHandler ==
  ASSUME RouterInv, NEW t \in DOMAIN task, Router!Handler(t)
  PROVE  RouterInv'
<1>t. task[t] \in TaskType /\ (task[t].err => task[t].list > 0) /\ task[t].list \in Nat
  BY RouterTypes DEF RouterInv, Reports, TaskType
<1>n. /\ task[t].todo # <<>> => Router!Next1(t) \in TaskType
      /\ Router!Next1(t).list = task[t].list /\ Router!Next1(t).err = task[t].err
      /\ Router!Next1(t).at = task[t].at
  <2>1. task[t].todo # <<>> => Tail(task[t].todo) \in Seq(Router!Step)
    BY <1>t DEF TaskType
  <2> QED BY <1>t, <2>1 DEF TaskType, Router!Next1
<1>1. CASE Router!Collect(t)
  <2> DEFINE q == [Router!Next1(t) EXCEPT !.list = Router!Next1(t).list + 1]
  <2>1. /\ task[t].at = "run" /\ task[t].todo # <<>> /\ task' = [task EXCEPT ![t] = q]
        /\ UNCHANGED <<kind, inbox, channel, routed, spoken>>
    BY <1>1 DEF Router!Collect, Router!Does
  <2>2. q \in TaskType /\ q.list > 0
    BY <1>t, <1>n, <2>1 DEF TaskType
  <2> HIDE DEF q
  <2> QED BY <2>1, <2>2, TaskStep
<1>2. CASE Router!Call(t)
  <2> DEFINE s == [task |-> t, how |-> "now", n |-> Len(task[t].todo)]
  <2>1. /\ task[t].at = "run" /\ task[t].todo # <<>> /\ task' = [task EXCEPT ![t] = Router!Next1(t)]
        /\ UNCHANGED <<kind, inbox, channel, routed>> /\ spoken' = spoken \cup {s}
    BY <1>2 DEF Router!Call, Router!Does
  <2>2. Len(task[t].todo) \in Nat
    BY <1>t DEF TaskType
  <2>3. s \in [task : {t}, how : {"now", "forward"}, n : Nat] /\ s.how # "forward"
    BY <2>2
  <2> HIDE DEF s
  <2> QED BY <1>t, <1>n, <2>1, <2>3, TaskStep
<1>3. CASE Router!Pass(t)
  <2>1. /\ task[t].at = "run" /\ task[t].todo # <<>> /\ task' = [task EXCEPT ![t] = Router!Next1(t)]
        /\ UNCHANGED <<kind, inbox, channel, routed, spoken>>
    BY <1>3 DEF Router!Pass, Router!Does
  <2> QED BY <1>t, <1>n, <2>1, TaskStep
<1>4. ASSUME NEW at \in {"failed", "finish"}, task[t].at = "run", task' = [task EXCEPT ![t].at = at],
             UNCHANGED <<kind, inbox, channel, routed, spoken>>
      PROVE  RouterInv'
  <2> DEFINE q == [task[t] EXCEPT !.at = at]
  <2>1. q \in TaskType /\ q.list = task[t].list /\ q.err = task[t].err
    BY <1>t DEF TaskType, Router!Stage
  <2>2. task' = [task EXCEPT ![t] = q]
    BY <1>4
  <2> HIDE DEF q
  <2> QED BY <1>4, <1>t, <2>1, <2>2, TaskStep
<1>5. CASE Router!Fail(t) \/ Router!Return(t)
  BY <1>4, <1>5 DEF Router!Fail, Router!Return, Router!Does
<1>8. CASE Router!Panic(t)
  <2>1. /\ inbox' = {} /\ channel' = <<>> /\ task' = <<>> /\ spoken' = {} /\ kind' = kind /\ routed' = routed
    BY <1>8 DEF Router!Panic
  <2>2. DOMAIN task' = {} /\ task' \in [DOMAIN task' -> TaskType] /\ Len(channel') = 0
    BY <2>1
  <2>3. Router!TypeOK'
    BY <2>1, <2>2 DEF RouterInv, Router!TypeOK, TaskType
  <2>4. Queued'
    BY <2>1, <2>2 DEF RouterInv, Queued
  <2> QED BY <2>1, <2>2, <2>3, <2>4 DEF RouterInv, FirstOnly, Reports, Forwarded
<1>6. CASE Router!HandleError(t)
  <2> DEFINE q == [task[t] EXCEPT !.at = "finish", !.list = @ + 1, !.err = TRUE]
  <2>0. task[t].list + 1 \in Nat /\ task[t].list + 1 > 0
    BY <1>t
  <2>1. q \in TaskType /\ q.list > 0
    BY <1>t, <2>0 DEF TaskType, Router!Stage
  <2>2. /\ task[t].at = "failed" /\ UNCHANGED <<kind, inbox, channel, routed, spoken>>
        /\ task' = [task EXCEPT ![t].at = "finish", ![t].list = @ + 1, ![t].err = TRUE]
    BY <1>6 DEF Router!HandleError
  <2>3. task' = [task EXCEPT ![t] = q]
    BY <2>2, <1>t DEF TaskType
  <2> HIDE DEF q
  <2> QED BY <2>1, <2>2, <2>3, TaskStep
<1>7. CASE Router!Finish(t)
  <2> DEFINE q == [task[t] EXCEPT !.at = "over"]
             s == [task |-> t, how |-> "forward", n |-> task[t].list]
  <2>1. q \in TaskType /\ q.list = task[t].list /\ q.err = task[t].err /\ q.at = "over"
    BY <1>t DEF TaskType, Router!Stage
  <2>2. /\ task[t].at = "finish" /\ UNCHANGED <<kind, inbox, channel, routed>>
        /\ task' = [task EXCEPT ![t] = q]
        /\ \/ Router!TypeOf(kind[t[1]]) = "Message" /\ spoken' = spoken \cup {s}
           \/ spoken' = spoken
    BY <1>7 DEF Router!Finish, Router!Forwards
  <2>3. s \in [task : {t}, how : {"now", "forward"}, n : Nat] /\ s.n = q.list
    BY <1>t, <2>1
  <2> HIDE DEF q, s
  <2>4. CASE Router!TypeOf(kind[t[1]]) = "Message" /\ spoken' = spoken \cup {s}
    BY <1>t, <2>1, <2>2, <2>3, <2>4, TaskStep
  <2>5. CASE spoken' = spoken
    BY <1>t, <2>1, <2>2, <2>5, TaskStep
  <2> QED BY <2>2, <2>4, <2>5
<1> QED BY <1>1, <1>2, <1>3, <1>5, <1>6, <1>7, <1>8 DEF Router!Handler

\* Every step keeps the invariant.
LEMMA RouterStep == RouterInv /\ Router!Next => RouterInv'
BY RouterRead, RouterHandleEvent, RouterRoute, RouterHandler DEF Router!Next

\* So does a step of another part.
LEMMA RouterStutter == RouterInv /\ UNCHANGED events => RouterInv'
BY DEF RouterInv, events, Router!TypeOK, Queued, FirstOnly, Reports, Forwarded, Router!Matched,
       Router!Matches

\* The invariant has the properties the runs check.
LEMMA RouterHolds == RouterInv => Router!TypeOK /\ Router!LongestWins /\ Router!OneForward
<1> SUFFICES ASSUME RouterInv PROVE Router!LongestWins /\ Router!OneForward
  BY DEF RouterInv
<1>1. ASSUME NEW e \in Event
      PROVE  LET started == {c \in DOMAIN Chat!Commands : <<e, c>> \in DOMAIN task}
             IN  /\ Router!Cardinality(started) <= 1
                 /\ \A c \in started, d \in Router!Matches(kind[e]) \ started :
                      \E w \in Chat!Commands[c].words : Chat!Commands[d].words \cap Chat!Starts[kind[e]] \subseteq Chat!Starts[w]
  <2> DEFINE started == {c \in DOMAIN Chat!Commands : <<e, c>> \in DOMAIN task}
  <2>1. started = {} \/ \E c : started = {c}
    BY DEF RouterInv, FirstOnly
  <2>2. Router!Cardinality(started) <= 1
    <3>1. \A S : Router!Cardinality(S) = Cardinality(S)
      BY DEF Router!Cardinality, Cardinality
    <3>2. \A c : Cardinality({c}) = 1
      BY FS_Singleton
    <3>3. Cardinality({}) = 0
      BY FS_EmptySet
    <3> HIDE DEF started
    <3> QED BY <2>1, <3>1, <3>2, <3>3
  <2>3. ASSUME NEW c \in started, NEW d \in Router!Matches(kind[e]) \ started
        PROVE  \E w \in Chat!Commands[c].words : Chat!Commands[d].words \cap Chat!Starts[kind[e]] \subseteq Chat!Starts[w]
    <3>1. c \in Router!Matched(kind[e])
      BY <2>3 DEF RouterInv, FirstOnly
    <3>2. kind[e] \in Chat!Words
      BY <3>1, Starting DEF Router!Matched, Router!Matches, Router!Words
    <3> QED BY <2>3, <3>1, <3>2, TableFits
  <2> QED BY <2>2, <2>3
<1>2. Router!LongestWins
  BY <1>1 DEF Router!LongestWins
<1>3. Router!OneForward
  BY DEF RouterInv, Forwarded, Reports, Router!OneForward
<1> QED BY <1>2, <1>3

\* In every behaviour of the socket's two halves, whatever events arrive and in
\* whatever order their tasks run: a message starts the command of the longest
\* name it begins with and no other (build.rs, the order of its list), and what a
\* handler collected is sent in one message at its end, of a message only
\* (context.rs).
THEOREM CommandsAreAnswered == PartsSpec => []OneCommandOneAnswer
<1> DEFINE Inv == part = "events" => RouterInv
<1>1. PartsInit => Inv
  BY RouterInit DEF PartsInit
<1>2. Inv /\ [PartsNext]_<<part, vars, events>> => Inv'
  <2> SUFFICES ASSUME Inv, [PartsNext]_<<part, vars, events>>, part' = "events" PROVE RouterInv'
    OBVIOUS
  <2>1. part = "events" /\ (Router!Next \/ UNCHANGED events)
    BY DEF PartsNext
  <2> QED BY <2>1, RouterStep, RouterStutter
<1>3. Inv => OneCommandOneAnswer
  BY RouterHolds DEF OneCommandOneAnswer
<1> QED BY <1>1, <1>2, <1>3, PTL DEF PartsSpec
=============================================================================
