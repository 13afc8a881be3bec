--------------------------- MODULE HotTableProofs ---------------------------
(***************************************************************************)
(* Proofs about HotTable, for every set of keys, values and callers and    *)
(* every bound: the type invariant, that the disk is a replay of the log,  *)
(* that map and disk agree once the engine has caught up, and that the     *)
(* engine implements DurableStore.                                         *)
(***************************************************************************)
EXTENDS HotTable, TLAPS

(***************************************************************************)
(* Facts about logs (module KeyedLog).                                     *)
(***************************************************************************)

\* No entry kept: the table is as it was.
LEMMA NothingKept ==
  ASSUME NEW t \in Table, NEW l
  PROVE  Overwrites(t, l, {}, t)
BY DEF Overwrites, HoldsAfter

\* Appending an entry leaves what the older entries did untouched.
LEMMA HoldsAfterAppend ==
  ASSUME NEW k, NEW old, NEW new, NEW l \in Seq(StoreOp), NEW op \in StoreOp,
         NEW S \in SUBSET (1..Len(l)), HoldsAfter(k, old, l, S, new)
  PROVE  HoldsAfter(k, old, Append(l, op), S, new)
<1>1. \A i \in S : Append(l, op)[i] = l[i]  OBVIOUS
<1>2. QED BY <1>1 DEF HoldsAfter

\* One more kept entry, later than all the others, is process_op.
LEMMA OverwritesNext ==
  ASSUME NEW s \in Table, NEW t \in Table, NEW l \in Seq(StoreOp),
         NEW n \in 1..Len(l), NEW S \in SUBSET (1..(n-1)),
         Overwrites(s, l, S, t)
  PROVE  Overwrites(s, l, S \cup {n}, process_op(t, l[n]))
<1> DEFINE u == process_op(t, l[n])
<1>a. l[n] \in StoreOp
  OBVIOUS
<1>0. l[n] \in StoreOp /\ l[n].key \in Key
  BY <1>a DEF StoreOp
<1> SUFFICES ASSUME NEW k \in Key
             PROVE  HoldsAfter(k, s[k], l, S \cup {n}, u[k])
  BY DEF Overwrites
<1>1. CASE l[n].key = k
  <2>1. u[k] = l[n].value
    BY <1>0, <1>1 DEF process_op, Table
  <2>2. \A j \in S \cup {n} : j <= n
    OBVIOUS
  <2>3. QED BY <1>1, <2>1, <2>2 DEF HoldsAfter
<1>2. CASE l[n].key # k
  <2>1. u[k] = t[k]
    BY <1>0, <1>2 DEF process_op, Table
  <2>2. HoldsAfter(k, s[k], l, S, t[k])
    BY DEF Overwrites
  <2>3. QED BY <1>2, <2>1, <2>2 DEF HoldsAfter
<1>3. QED BY <1>1, <1>2

\* Two stretches of a log, one after the other, are one stretch.
LEMMA OverwritesCompose ==
  ASSUME NEW s \in Table, NEW t \in Table, NEW u \in Table, NEW l,
         NEW n \in Nat, NEW S \in SUBSET (1..n), NEW T \in SUBSET (Nat \ (0..n)),
         Overwrites(s, l, S, t), Overwrites(t, l, T, u)
  PROVE  Overwrites(s, l, S \cup T, u)
<1> SUFFICES ASSUME NEW k \in Key
             PROVE  HoldsAfter(k, s[k], l, S \cup T, u[k])
  BY DEF Overwrites
<1>1. HoldsAfter(k, s[k], l, S, t[k]) /\ HoldsAfter(k, t[k], l, T, u[k])
  BY DEF Overwrites
<1>2. CASE \A i \in T : l[i].key # k
  BY <1>1, <1>2 DEF HoldsAfter
<1>3. CASE \E i \in T : l[i].key = k
  <2>1. PICK i \in T : /\ l[i].key = k
                       /\ u[k] = l[i].value
                       /\ \A j \in T : l[j].key = k => j <= i
    BY <1>1, <1>3 DEF HoldsAfter
  <2>2. \A j \in S : j <= i
    OBVIOUS
  <2>3. QED BY <2>1, <2>2 DEF HoldsAfter
<1>4. QED BY <1>2, <1>3

-----------------------------------------------------------------------------
(***************************************************************************)
(* The inductive invariant.  DiskIsReplay and QuiescentCacheIsDisk are not *)
(* inductive: one needs to know what the open transaction holds, the other *)
(* what every call in progress has sent.                                   *)
(***************************************************************************)

\* The queue is the end of the log, and the writer is done with a prefix of
\* what it has received.
QueueIsTail ==
  /\ \A i \in 1..Len(queue) : queue[i] = log[received + i]
  /\ settled <= received
  /\ lost \subseteq 1..received

\* The open transaction is the disk plus the batch received so far; between
\* two transactions there is no batch.
StagedIsBatch ==
  /\ Overwrites(disk, log, ((settled + 1)..received) \ lost, staged)
  /\ writer = "idle" => settled = received /\ staged = disk

\* Unless writes of a key overlapped, the map holds what the log says, and
\* the one call in progress on the key is about to write the end of the log.
CacheFollowsLog ==
  \A k \in Key \ muddled :
    /\ InFlight(k) = {} => HoldsAfter(k, loaded[k], log, 1..Len(log), cache[k])
    /\ \A c \in InFlight(k) :
         /\ HoldsAfter(k, loaded[k], log, 1..Len(log), call[c].value)
         /\ \A d \in InFlight(k) : d = c

IInv == /\ TypeOK
        /\ QueueIsTail
        /\ StagedIsBatch
        /\ DiskIsReplay
        /\ CacheFollowsLog

\* The variables keep their types.
LEMMA TypeInductive == TypeOK /\ [Next]_vars => TypeOK'
<1> SUFFICES ASSUME TypeOK, [Next]_vars PROVE TypeOK'
  OBVIOUS
<1> USE HotTableAssumption, AbsentIsNoValue
<1>s. staged \in Table /\ disk \in Table /\ cache \in Table
  BY DEF TypeOK
<1>p. \A tbl \in Table, op \in StoreOp : process_op(tbl, op) \in Table
  BY DEF process_op, Table, StoreOp
<1>r. \A tbl \in Table, bad \in SUBSET Key : read_table(tbl, bad) \in Table
  BY DEF read_table, Table, Cell
<1>l. Len(log) \in Nat /\ Len(queue) \in Nat /\ received \in Nat
  BY DEF TypeOK
<1>1. ASSUME NEW c \in Caller, NEW op \in StoreOp, SendOp(c, op) PROVE TypeOK'
  <2>1. Len(queue') = Len(queue) + 1 /\ Len(log') = Len(log) + 1
    BY <1>1 DEF TypeOK, SendOp
  <2>2. received' \in Nat
    BY <2>1, <1>l DEF received
  <2>3. QED BY <1>1, <2>2 DEF TypeOK, SendOp, StoreOp
<1>2. ASSUME NEW c \in Caller, UpdateCache(c) PROVE TypeOK'
  <2>1. call[c] \in StoreOp
    BY <1>2 DEF TypeOK, UpdateCache
  <2>2. process_op(cache, call[c]) \in Table
    BY <1>p, <1>s, <2>1
  <2>3. QED BY <1>2, <2>2 DEF TypeOK, UpdateCache, received
<1>3. CASE BeginBatch
  <2>1. /\ Head(queue) \in StoreOp /\ Tail(queue) \in Seq(StoreOp)
        /\ Len(Tail(queue)) = Len(queue) - 1
    BY <1>3 DEF TypeOK, BeginBatch
  <2>2. process_op(staged, Head(queue)) \in Table
    BY <1>p, <1>s, <2>1
  <2>3. received' \in Nat
    BY <1>3, <1>l, <2>1 DEF BeginBatch, received
  <2>4. staged' \in Table /\ lost' \subseteq Nat
    <3>1. lost \subseteq Nat /\ {received + 1} \subseteq Nat
      BY <1>l DEF TypeOK
    <3>2. QED BY <1>3, <1>s, <2>2, <3>1 DEF BeginBatch, Stage
  <2>5. QED BY <1>3, <2>1, <2>3, <2>4 DEF TypeOK, BeginBatch
<1>4. CASE DrainOne
  <2>1. /\ Head(queue) \in StoreOp /\ Tail(queue) \in Seq(StoreOp)
        /\ Len(Tail(queue)) = Len(queue) - 1
    BY <1>4 DEF TypeOK, DrainOne
  <2>2. process_op(staged, Head(queue)) \in Table
    BY <1>p, <1>s, <2>1
  <2>3. received' \in Nat
    BY <1>4, <1>l, <2>1 DEF DrainOne, received
  <2>4. staged' \in Table /\ lost' \subseteq Nat
    <3>1. lost \subseteq Nat /\ {received + 1} \subseteq Nat
      BY <1>l DEF TypeOK
    <3>2. QED BY <1>4, <1>s, <2>2, <3>1 DEF DrainOne, Stage
  <2>5. QED BY <1>4, <2>1, <2>3, <2>4 DEF TypeOK, DrainOne
<1>5. CASE DrainDone
  BY <1>5 DEF TypeOK, DrainDone, received
<1>6. CASE Commit
  BY <1>6, <1>l DEF TypeOK, Commit, received
<1>7. CASE CommitFails
  <2>1. (settled + 1)..received \subseteq Nat
    BY <1>l DEF TypeOK
  <2>2. lost' \subseteq Nat
    BY <1>7, <2>1 DEF TypeOK, CommitFails
  <2>3. QED BY <1>7, <1>l, <2>2 DEF TypeOK, CommitFails, received
<1>8. CASE Restart
  <2>1. PICK bad \in Unreadable : cache' = read_table(disk, bad)
    BY <1>8 DEF Restart
  <2>2. cache' \in Table
    BY <1>r, <1>s, <2>1 DEF Unreadable
  <2>3. QED BY <1>8, <2>2 DEF TypeOK, Restart, received
<1>9. CASE UNCHANGED vars
  BY <1>9 DEF TypeOK, vars, received
<1>10. QED
  BY <1>1, <1>2, <1>3, <1>4, <1>5, <1>6, <1>7, <1>8, <1>9 DEF Next, Writer

\* Every variable of the hot storage keeps its type, in every behaviour.
THEOREM TypeCorrect == Spec => []TypeOK
<1>1. Init => TypeOK
  <2> SUFFICES ASSUME Init PROVE TypeOK
    OBVIOUS
  <2>1. PICK bad \in Unreadable : cache = read_table(disk, bad)
    BY DEF Init
  <2>2. cache \in Table
    BY <2>1 DEF Init, Unreadable, read_table, Table, Cell
  <2>3. QED BY <2>2 DEF Init, TypeOK, received
<1>2. QED BY <1>1, TypeInductive, PTL DEF Spec

-----------------------------------------------------------------------------
\* Receiving an operation of the queue and staging it keeps the transaction
\* a replay of the batch.  BeginBatch and DrainOne both do exactly this.
LEMMA StageKeepsBatch ==
  ASSUME TypeOK, QueueIsTail, queue # <<>>,
         Overwrites(disk, log, ((settled + 1)..received) \ lost, staged),
         Stage(Head(queue)), queue' = Tail(queue), UNCHANGED <<disk, log, settled>>
  PROVE  /\ received' = received + 1
         /\ received' <= Len(log)
         /\ lost \subseteq lost' /\ lost' \subseteq lost \cup {received + 1}
         /\ Overwrites(disk, log, ((settled + 1)..(received + 1)) \ lost', staged')
<1>1. /\ Len(queue) \in Nat \ {0} /\ Len(log) \in Nat /\ Head(queue) = queue[1]
      /\ Len(Tail(queue)) = Len(queue) - 1
      /\ settled \in Nat /\ received \in Nat
  BY DEF TypeOK
<1>2. received' = received + 1 /\ received + 1 \in 1..Len(log)
  BY <1>1 DEF received
<1>3. Head(queue) = log[received + 1]
  BY <1>1 DEF QueueIsTail
<1>4. lost \subseteq 1..received /\ settled <= received
  BY DEF QueueIsTail
<1>5. CASE staged' = process_op(staged, Head(queue)) /\ lost' = lost
  <2> DEFINE S == ((settled + 1)..received) \ lost
  <2>1. S \in SUBSET (1..((received + 1) - 1))
    BY <1>1
  <2>2. Overwrites(disk, log, S \cup {received + 1}, process_op(staged, log[received + 1]))
    BY <1>2, <2>1, OverwritesNext DEF TypeOK
  <2>3. ((settled + 1)..(received + 1)) \ lost = S \cup {received + 1}
    BY <1>1, <1>4
  <2> HIDE DEF S
  <2>4. Overwrites(disk, log, ((settled + 1)..(received + 1)) \ lost', staged')
    BY <1>3, <1>5, <2>2, <2>3
  <2>5. QED BY <1>1, <1>2, <1>5, <2>4
<1>6. CASE staged' = staged /\ lost' = lost \cup {received + 1}
  <2>1. ((settled + 1)..(received + 1)) \ lost' = ((settled + 1)..received) \ lost
    BY <1>1, <1>4, <1>6
  <2>2. Overwrites(disk, log, ((settled + 1)..(received + 1)) \ lost', staged')
    BY <1>6, <2>1
  <2>3. QED BY <1>1, <1>2, <1>6, <2>2
<1>7. QED BY <1>5, <1>6 DEF Stage

\* What is in InFlight depends on the calls only.
LEMMA InFlightUnchanged ==
  ASSUME UNCHANGED call, NEW k PROVE InFlight(k)' = InFlight(k)
BY DEF InFlight

\* Steps of the writer do not touch the log, the map or the calls.
LEMMA WriterKeepsCache ==
  ASSUME CacheFollowsLog, UNCHANGED <<cache, call, log, loaded, muddled>>
  PROVE  CacheFollowsLog'
BY InFlightUnchanged DEF CacheFollowsLog, HoldsAfter

\* The inductive invariant is kept by every step: each action is a step below.
LEMMA InvInductive == IInv /\ [Next]_vars => IInv'
<1> SUFFICES ASSUME IInv, [Next]_vars PROVE IInv'
  OBVIOUS
<1> USE HotTableAssumption, AbsentIsNoValue
<1>t. TypeOK /\ TypeOK'
  BY TypeInductive DEF IInv
<1>i. QueueIsTail /\ StagedIsBatch /\ DiskIsReplay /\ CacheFollowsLog
  BY DEF IInv
<1>n. /\ Len(log) \in Nat /\ Len(queue) \in Nat /\ settled \in Nat /\ received \in Nat
      /\ log \in Seq(StoreOp) /\ queue \in Seq(StoreOp)
      /\ settled <= received /\ received <= Len(log) /\ lost \subseteq 1..received
  BY <1>t, <1>i DEF TypeOK, QueueIsTail, received
<1>1. ASSUME NEW c \in Caller, NEW op \in StoreOp, SendOp(c, op) PROVE IInv'
  <2>1. /\ Len(queue') = Len(queue) + 1 /\ Len(log') = Len(log) + 1
        /\ \A i \in 1..Len(log) : log'[i] = log[i]
        /\ \A i \in 1..Len(queue) : queue'[i] = queue[i]
        /\ log'[Len(log) + 1] = op /\ queue'[Len(queue) + 1] = op
        /\ received' = received
    BY <1>1, <1>n DEF SendOp, received
  <2>2. QueueIsTail'
    <3>1. ASSUME NEW i \in 1..Len(queue') PROVE queue'[i] = log'[received' + i]
      <4>1. received + Len(queue) = Len(log)
        BY <1>n DEF received
      <4>2. CASE i \in 1..Len(queue)
        <5>1. queue[i] = log[received + i] /\ received + i \in 1..Len(log)
          BY <1>i, <1>n, <4>1, <4>2 DEF QueueIsTail
        <5>2. QED BY <2>1, <4>2, <5>1
      <4>3. CASE i = Len(queue) + 1
        <5>1. /\ received' = received /\ received \in Nat
              /\ Len(queue) \in Nat /\ Len(log) \in Nat
          BY <1>n, <2>1
        <5>2. received' + i = Len(log) + 1
          BY <4>1, <4>3, <5>1
        <5>3. QED BY <2>1, <4>3, <5>2
      <4>4. QED BY <1>n, <2>1, <4>2, <4>3
    <3>2. QED BY <1>1, <1>n, <2>1, <3>1 DEF QueueIsTail, SendOp
  <2>3. ASSUME NEW S \in SUBSET (1..Len(log)), NEW s \in Table, NEW t \in Table,
               Overwrites(s, log, S, t)
        PROVE  Overwrites(s, log', S, t)
    BY <1>1, <1>n, <2>3, HoldsAfterAppend DEF Overwrites, SendOp
  <2>4. StagedIsBatch'
    <3>1. Overwrites(disk, log', ((settled + 1)..received) \ lost, staged)
      BY <1>t, <1>i, <1>n, <2>3 DEF TypeOK, StagedIsBatch
    <3>2. QED BY <1>1, <1>i, <2>1, <3>1 DEF SendOp, StagedIsBatch
  <2>5. DiskIsReplay'
    <3>1. Overwrites(base, log', (1..settled) \ lost, disk)
      BY <1>t, <1>i, <1>n, <2>3 DEF TypeOK, DiskIsReplay
    <3>2. QED BY <1>1, <3>1 DEF SendOp, DiskIsReplay
  <2>6. CacheFollowsLog'
    <3> SUFFICES ASSUME NEW k \in Key, k \notin muddled'
                 PROVE  /\ InFlight(k)' = {} => HoldsAfter(k, loaded[k], log', 1..Len(log'), cache[k])
                        /\ \A d \in InFlight(k)' :
                             /\ HoldsAfter(k, loaded[k], log', 1..Len(log'), call'[d].value)
                             /\ \A e \in InFlight(k)' : e = d
      BY <1>1 DEF SendOp, CacheFollowsLog
    <3>0. call' = [call EXCEPT ![c] = op] /\ call[c] = NoCall /\ op.key \in Key
      BY <1>1 DEF SendOp, StoreOp
    <3>1. CASE op.key = k
      <4>1. InFlight(k) = {}
        BY <1>1, <3>1 DEF SendOp
      <4>2. InFlight(k)' = {c} /\ call'[c] = op
        BY <1>t, <3>0, <3>1, <4>1 DEF InFlight, TypeOK
      <4>3. HoldsAfter(k, loaded[k], log', 1..Len(log'), op.value)
        BY <1>n, <2>1, <3>1 DEF HoldsAfter
      <4>4. QED BY <4>2, <4>3
    <3>2. CASE op.key # k
      <4>1. InFlight(k)' = InFlight(k) /\ \A d \in InFlight(k) : call'[d] = call[d]
        BY <1>t, <3>0, <3>2 DEF InFlight, TypeOK
      <4>2. k \notin muddled
        BY <1>1, <3>2 DEF SendOp
      <4>3. ASSUME NEW v, HoldsAfter(k, loaded[k], log, 1..Len(log), v)
            PROVE  HoldsAfter(k, loaded[k], log', 1..Len(log'), v)
        <5>1. 1..Len(log') = (1..Len(log)) \cup {Len(log) + 1}
          BY <1>n, <2>1
        <5>2. QED BY <1>n, <2>1, <3>2, <4>3, <5>1 DEF HoldsAfter
      <4>4. QED BY <1>i, <4>1, <4>2, <4>3 DEF CacheFollowsLog
    <3>3. QED BY <3>1, <3>2
  <2>7. QED BY <1>t, <2>2, <2>4, <2>5, <2>6 DEF IInv
<1>2. ASSUME NEW c \in Caller, UpdateCache(c) PROVE IInv'
  <2>1. QueueIsTail' /\ StagedIsBatch' /\ DiskIsReplay'
    BY <1>2, <1>i DEF UpdateCache, QueueIsTail, StagedIsBatch, DiskIsReplay, received, Overwrites
  <2>2. CacheFollowsLog'
    <3>0. /\ call[c] \in StoreOp /\ call[c].key \in Key
          /\ cache' = [cache EXCEPT ![call[c].key] = call[c].value]
          /\ call' = [call EXCEPT ![c] = NoCall]
      <4>1. call[c] \in StoreOp
        BY <1>2, <1>t DEF UpdateCache, TypeOK
      <4>2. QED BY <1>2, <4>1 DEF UpdateCache, process_op, StoreOp
    <3> SUFFICES ASSUME NEW k \in Key, k \notin muddled
                 PROVE  /\ InFlight(k)' = {} => HoldsAfter(k, loaded[k], log, 1..Len(log), cache'[k])
                        /\ \A d \in InFlight(k)' :
                             /\ HoldsAfter(k, loaded[k], log, 1..Len(log), call'[d].value)
                             /\ \A e \in InFlight(k)' : e = d
      BY <1>2 DEF UpdateCache, CacheFollowsLog
    <3>1. CASE call[c].key = k
      <4>1. c \in InFlight(k)
        BY <1>2, <3>1 DEF InFlight, UpdateCache
      <4>2. InFlight(k)' = {}
        BY <1>i, <1>t, <3>0, <4>1 DEF CacheFollowsLog, InFlight, TypeOK
      <4>3. cache'[k] = call[c].value
        BY <1>t, <3>0, <3>1 DEF TypeOK, Table
      <4>4. QED BY <1>i, <4>1, <4>2, <4>3 DEF CacheFollowsLog
    <3>2. CASE call[c].key # k
      <4>1. InFlight(k)' = InFlight(k) /\ \A d \in InFlight(k) : call'[d] = call[d]
        BY <1>t, <3>0, <3>2 DEF InFlight, TypeOK
      <4>2. cache'[k] = cache[k]
        BY <1>t, <3>0, <3>2 DEF TypeOK, Table
      <4>3. QED BY <1>i, <4>1, <4>2 DEF CacheFollowsLog
    <3>3. QED BY <3>1, <3>2
  <2>3. QED BY <1>t, <2>1, <2>2 DEF IInv
<1>3. ASSUME queue # <<>>, Stage(Head(queue)), queue' = Tail(queue), writer' = "draining",
             UNCHANGED <<cache, disk, call, log, base, loaded, settled, muddled>>
      PROVE  IInv'
  <2>1. /\ received' = received + 1 /\ received' <= Len(log)
        /\ lost \subseteq lost' /\ lost' \subseteq lost \cup {received + 1}
        /\ Overwrites(disk, log, ((settled + 1)..(received + 1)) \ lost', staged')
    <3>1. Overwrites(disk, log, ((settled + 1)..received) \ lost, staged)
      BY <1>i DEF StagedIsBatch
    <3>2. QED BY <1>3, <1>t, <1>i, <3>1, StageKeepsBatch
  <2>2. QueueIsTail'
    <3>1. Len(queue') = Len(queue) - 1 /\ \A i \in 1..Len(queue') : queue'[i] = queue[i + 1]
      BY <1>3, <1>n
    <3>2. \A i \in 1..Len(queue') : i + 1 \in 1..Len(queue)
      BY <1>n, <3>1
    <3>3. ASSUME NEW i \in 1..Len(queue') PROVE queue'[i] = log'[received' + i]
      <4>1. queue[i + 1] = log[received + (i + 1)]
        BY <1>i, <3>2 DEF QueueIsTail
      <4>2. received + (i + 1) = received' + i
        BY <1>n, <2>1, <3>1
      <4>3. QED BY <1>3, <3>1, <4>1, <4>2
    <3>4. lost' \subseteq 1..received' /\ settled <= received'
      BY <1>n, <2>1
    <3>5. QED BY <1>3, <3>3, <3>4 DEF QueueIsTail
  <2>3. StagedIsBatch'
    BY <1>3, <2>1 DEF StagedIsBatch
  <2>4. DiskIsReplay'
    <3>1. (1..settled) \ lost' = (1..settled) \ lost
      BY <1>n, <2>1
    <3>2. QED BY <1>3, <1>i, <3>1 DEF DiskIsReplay, Overwrites
  <2>5. CacheFollowsLog'
    BY <1>3, <1>i, WriterKeepsCache
  <2>6. QED BY <1>t, <2>2, <2>3, <2>4, <2>5 DEF IInv
<1>4. CASE BeginBatch
  BY <1>3, <1>4 DEF BeginBatch
<1>5. CASE DrainOne
  BY <1>3, <1>5 DEF DrainOne
<1>6. CASE DrainDone
  <2>1. QueueIsTail' /\ StagedIsBatch' /\ DiskIsReplay'
    BY <1>6, <1>i DEF DrainDone, QueueIsTail, StagedIsBatch, DiskIsReplay, received, Overwrites
  <2>2. CacheFollowsLog'
    BY <1>6, <1>i, WriterKeepsCache DEF DrainDone
  <2>3. QED BY <1>t, <2>1, <2>2 DEF IInv
<1>7. CASE Commit
  <2>0. received' = received
    BY <1>7 DEF Commit, received
  <2>1. QueueIsTail'
    BY <1>7, <1>i, <1>n, <2>0 DEF Commit, QueueIsTail
  <2>2. StagedIsBatch'
    <3>1. ((settled' + 1)..received') \ lost' = {}
      BY <1>7, <1>n, <2>0 DEF Commit
    <3>2. Overwrites(disk', log', {}, staged')
      BY <1>7, <1>t, NothingKept DEF Commit, TypeOK
    <3>3. QED BY <1>7, <2>0, <3>1, <3>2 DEF Commit, StagedIsBatch
  <2>3. DiskIsReplay'
    <3> DEFINE S == (1..settled) \ lost
               T == ((settled + 1)..received) \ lost
    <3>1. S \in SUBSET (1..settled) /\ T \in SUBSET (Nat \ (0..settled))
      BY <1>n
    <3>2. Overwrites(base, log, S, disk) /\ Overwrites(disk, log, T, staged)
      BY <1>i DEF DiskIsReplay, StagedIsBatch
    <3> HIDE DEF S, T
    <3>3. Overwrites(base, log, S \cup T, staged)
      BY <1>t, <1>n, <3>1, <3>2, OverwritesCompose DEF TypeOK
    <3>4. (1..received) \ lost = S \cup T
      BY <1>n DEF S, T
    <3>5. QED BY <1>7, <3>3, <3>4 DEF Commit, DiskIsReplay
  <2>4. CacheFollowsLog'
    BY <1>7, <1>i, WriterKeepsCache DEF Commit
  <2>5. QED BY <1>t, <2>1, <2>2, <2>3, <2>4 DEF IInv
<1>8. CASE CommitFails
  <2>0. /\ received' = received /\ settled' = received
        /\ lost' = lost \cup (settled + 1)..received
    BY <1>8 DEF CommitFails, received
  <2>1. QueueIsTail'
    <3>1. lost' \subseteq 1..received'
      BY <1>n, <2>0
    <3>2. QED BY <1>8, <1>i, <1>n, <2>0, <3>1 DEF CommitFails, QueueIsTail
  <2>2. StagedIsBatch'
    <3>1. ((settled' + 1)..received') \ lost' = {}
      BY <1>n, <2>0
    <3>2. Overwrites(disk, log, {}, disk)
      BY <1>t, NothingKept DEF TypeOK
    <3>3. QED BY <1>8, <2>0, <3>1, <3>2 DEF CommitFails, StagedIsBatch
  <2>3. DiskIsReplay'
    <3>1. (1..settled') \ lost' = (1..settled) \ lost
      BY <1>n, <2>0
    <3>2. QED BY <1>8, <1>i, <3>1 DEF CommitFails, DiskIsReplay, Overwrites
  <2>4. CacheFollowsLog'
    BY <1>8, <1>i, WriterKeepsCache DEF CommitFails
  <2>5. QED BY <1>t, <2>1, <2>2, <2>3, <2>4 DEF IInv
<1>9. CASE Restart
  <2>1. /\ log' = <<>> /\ queue' = <<>> /\ settled' = 0 /\ lost' = {}
        /\ received' = 0 /\ staged' = disk /\ disk' = disk /\ base' = disk
        /\ \A k : InFlight(k)' = {}
    BY <1>9 DEF Restart, received, InFlight
  <2>2. QueueIsTail'
    BY <2>1 DEF QueueIsTail
  <2>3. Overwrites(disk, <<>>, {}, disk)
    BY <1>t, NothingKept DEF TypeOK
  <2>4. StagedIsBatch' /\ DiskIsReplay'
    BY <2>1, <2>3 DEF StagedIsBatch, DiskIsReplay
  <2>5. CacheFollowsLog'
    BY <1>9, <2>1 DEF CacheFollowsLog, Restart, HoldsAfter
  <2>6. QED BY <1>t, <2>2, <2>4, <2>5 DEF IInv
<1>10. CASE UNCHANGED vars
  <2>1. QueueIsTail' /\ StagedIsBatch' /\ DiskIsReplay'
    BY <1>10, <1>i DEF vars, QueueIsTail, StagedIsBatch, DiskIsReplay, received, Overwrites
  <2>2. CacheFollowsLog'
    BY <1>10, <1>i, WriterKeepsCache DEF vars
  <2>3. QED BY <1>t, <2>1, <2>2 DEF IInv
<1>11. QED
  BY <1>1, <1>2, <1>4, <1>5, <1>6, <1>7, <1>8, <1>9, <1>10 DEF Next, Writer

\* It holds at the start, with an empty queue and an empty log.
LEMMA InitInv == Init => IInv
<1> SUFFICES ASSUME Init PROVE IInv
  OBVIOUS
<1>1. TypeOK
  <2>1. PICK bad \in Unreadable : cache = read_table(disk, bad)
    BY DEF Init
  <2>2. cache \in Table
    BY <2>1 DEF Init, Unreadable, read_table, Table, Cell
  <2>3. QED BY <2>2 DEF Init, TypeOK, received
<1>2. received = 0
  BY DEF Init, received
<1>3. QueueIsTail
  BY <1>2 DEF Init, QueueIsTail
<1>4. Overwrites(disk, log, {}, disk)
  BY <1>1, NothingKept DEF TypeOK
<1>5. StagedIsBatch /\ DiskIsReplay
  BY <1>2, <1>4 DEF Init, StagedIsBatch, DiskIsReplay
<1>6. CacheFollowsLog
  BY DEF Init, CacheFollowsLog, InFlight, HoldsAfter
<1>7. QED BY <1>1, <1>3, <1>5, <1>6 DEF IInv

\* So it holds in every reachable state.
LEMMA Invariance == Spec => []IInv
BY InitInv, InvInductive, PTL DEF Spec

-----------------------------------------------------------------------------
\* Whatever the callers do, whatever the database refuses and wherever the
\* process is stopped, the rows on disk are the rows of the start overwritten,
\* in order, by a prefix of what was sent, minus the refused operations.
THEOREM DiskCorrect == Spec => []DiskIsReplay
<1>1. IInv => DiskIsReplay
  BY DEF IInv
<1>2. QED BY <1>1, Invariance, PTL

\* Once the engine has caught up on a key whose writes did not overlap, the
\* map answers what a restart would load.
THEOREM CacheCorrect == Spec => []QuiescentCacheIsDisk
<1>1. IInv => QuiescentCacheIsDisk
  <2> SUFFICES ASSUME IInv, NEW k \in Key \ muddled, CaughtUp(k), loaded[k] = base[k]
               PROVE  cache[k] = disk[k]
    BY DEF QuiescentCacheIsDisk
  <2>1. HoldsAfter(k, base[k], log, 1..Len(log), cache[k])
    BY DEF IInv, CacheFollowsLog, CaughtUp
  <2>2. HoldsAfter(k, base[k], log, (1..settled) \ lost, disk[k])
    BY DEF IInv, DiskIsReplay, Overwrites
  <2>3. \A i \in 1..Len(log) : log[i].key = k => i \in (1..settled) \ lost
    BY DEF CaughtUp
  <2>4. (1..settled) \ lost \subseteq 1..Len(log)
    BY DEF IInv, TypeOK, QueueIsTail, received
  <2>5. QED BY <2>1, <2>2, <2>3, <2>4 DEF HoldsAfter
<1>2. QED BY <1>1, Invariance, PTL

-----------------------------------------------------------------------------
(***************************************************************************)
(* The hot storage engine implements DurableStore, for every set of keys,  *)
(* values and callers and every bound.  The line of pending operations is  *)
(* the part of the log that has not settled, whether it is in the queue or *)
(* in the open transaction; a commit, good or bad, settles the batch.      *)
(***************************************************************************)
Line == SubSeq(log, settled + 1, Len(log))

\* Beyond IInv: a transaction is opened for an operation and so settles one
\* at least, and a database without errors refuses nothing.
BatchNotEmpty == writer # "idle" => settled < received
NothingRefused == ~IoErrors => lost = {}

RInv == BatchNotEmpty /\ NothingRefused

\* What happens to a stretch of the log happens to the same entries when the
\* stretch is a log of its own.
LEMMA OverwritesShift ==
  ASSUME NEW s \in Table, NEW t \in Table, NEW l \in Seq(StoreOp),
         NEW m \in Nat, NEW n \in Nat, m + n <= Len(l),
         NEW S \in SUBSET ((m + 1)..(m + n)), Overwrites(s, l, S, t)
  PROVE  Overwrites(s, SubSeq(l, m + 1, Len(l)), {i \in 1..n : m + i \in S}, t)
<1> DEFINE r == SubSeq(l, m + 1, Len(l))
           K == {i \in 1..n : m + i \in S}
<1>1. \A i \in 1..n : r[i] = l[m + i]
  OBVIOUS
<1>2. \A j \in S : j - m \in K /\ r[j - m] = l[j] /\ m + (j - m) = j
  <2> SUFFICES ASSUME NEW j \in S PROVE j - m \in K /\ r[j - m] = l[j] /\ m + (j - m) = j
    OBVIOUS
  <2>1. j - m \in 1..n /\ m + (j - m) = j
    OBVIOUS
  <2> HIDE DEF r
  <2>2. QED BY <1>1, <2>1
<1>3. \A i \in K : m + i \in S /\ r[i] = l[m + i] /\ i \in Nat
  BY <1>1
<1> HIDE DEF r, K
<1> SUFFICES ASSUME NEW k \in Key PROVE HoldsAfter(k, s[k], r, K, t[k])
  BY DEF Overwrites, r, K
<1>4. HoldsAfter(k, s[k], l, S, t[k])
  BY DEF Overwrites
<1>5. CASE \A j \in S : l[j].key # k
  BY <1>3, <1>4, <1>5 DEF HoldsAfter
<1>6. CASE \E j \in S : l[j].key = k
  <2>1. PICK j \in S : /\ l[j].key = k /\ t[k] = l[j].value
                       /\ \A h \in S : l[h].key = k => h <= j
    BY <1>4, <1>6 DEF HoldsAfter
  <2>2. ASSUME NEW i \in K, r[i].key = k PROVE i <= j - m
    <3>1. m + i <= j
      BY <1>3, <2>1, <2>2
    <3>2. QED BY <1>3, <3>1
  <2>3. QED BY <1>2, <2>1, <2>2 DEF HoldsAfter
<1>7. QED BY <1>5, <1>6

\* An entry appended to a log is appended to every end of it.
LEMMA EndOfAppend ==
  ASSUME NEW l \in Seq(StoreOp), NEW op \in StoreOp, NEW m \in 0..Len(l)
  PROVE  SubSeq(Append(l, op), m + 1, Len(l) + 1) = Append(SubSeq(l, m + 1, Len(l)), op)
<1> DEFINE a == SubSeq(Append(l, op), m + 1, Len(l) + 1)
           b == Append(SubSeq(l, m + 1, Len(l)), op)
<1>1. a \in Seq(StoreOp) /\ Len(a) = Len(l) + 1 - m
  OBVIOUS
<1>2. SubSeq(l, m + 1, Len(l)) \in Seq(StoreOp) /\ Len(SubSeq(l, m + 1, Len(l))) = Len(l) - m
  OBVIOUS
<1>3. b \in Seq(StoreOp) /\ Len(b) = Len(l) + 1 - m
  BY <1>2
<1>4. ASSUME NEW i \in 1..(Len(l) + 1 - m) PROVE a[i] = b[i]
  <2>1. a[i] = Append(l, op)[m + i]
    OBVIOUS
  <2>2. CASE i = Len(l) + 1 - m
    <3>1. m + i = Len(l) + 1
      BY <2>2
    <3>2. b[i] = op
      BY <1>2, <2>2
    <3>3. QED BY <2>1, <3>1, <3>2
  <2>3. CASE i \in 1..(Len(l) - m)
    <3>1. m + i \in 1..Len(l)
      BY <2>3
    <3>2. b[i] = SubSeq(l, m + 1, Len(l))[i]
      BY <1>2, <2>3
    <3>3. QED BY <2>1, <2>3, <3>1, <3>2
  <2>4. QED BY <2>2, <2>3
<1> HIDE DEF a, b
<1>5. a = b
  BY <1>1, <1>3, <1>4
<1>6. QED BY <1>5 DEF a, b

\* The writer opens a batch with an operation in hand and closes it by
\* settling all it has received.
LEMMA RInvInductive == IInv /\ RInv /\ [Next]_vars => RInv'
<1> SUFFICES ASSUME IInv, RInv, [Next]_vars PROVE RInv'
  OBVIOUS
<1>n. /\ Len(log) \in Nat /\ Len(queue) \in Nat /\ settled \in Nat /\ received \in Nat
      /\ log \in Seq(StoreOp) /\ queue \in Seq(StoreOp) /\ settled <= received
  BY DEF IInv, TypeOK, QueueIsTail
<1>1. ASSUME NEW c \in Caller, NEW op \in StoreOp, SendOp(c, op) PROVE RInv'
  <2>1. received' = received
    BY <1>1, <1>n DEF SendOp, received
  <2>2. QED BY <1>1, <2>1 DEF SendOp, RInv, BatchNotEmpty, NothingRefused
<1>2. ASSUME NEW c \in Caller, UpdateCache(c) PROVE RInv'
  BY <1>2 DEF UpdateCache, RInv, BatchNotEmpty, NothingRefused, received
<1>3. ASSUME queue # <<>>, Stage(Head(queue)), queue' = Tail(queue), UNCHANGED <<log, settled>>
      PROVE  RInv'
  <2>1. received' = received + 1
    BY <1>3, <1>n DEF received
  <2>2. QED BY <1>3, <1>n, <2>1 DEF RInv, BatchNotEmpty, NothingRefused, Stage
<1>4. CASE BeginBatch
  BY <1>3, <1>4 DEF BeginBatch
<1>5. CASE DrainOne
  BY <1>3, <1>5 DEF DrainOne
<1>6. CASE DrainDone
  BY <1>6 DEF DrainDone, RInv, BatchNotEmpty, NothingRefused, received
<1>7. CASE Commit
  BY <1>7 DEF Commit, RInv, BatchNotEmpty, NothingRefused, received
<1>8. CASE CommitFails
  BY <1>8 DEF CommitFails, RInv, BatchNotEmpty, NothingRefused, received
<1>9. CASE Restart
  BY <1>9 DEF Restart, RInv, BatchNotEmpty, NothingRefused, received
<1>10. CASE UNCHANGED vars
  BY <1>10 DEF vars, RInv, BatchNotEmpty, NothingRefused, received
<1>11. QED
  BY <1>1, <1>2, <1>4, <1>5, <1>6, <1>7, <1>8, <1>9, <1>10 DEF Next, Writer

\* So both hold in every reachable state.
LEMMA RInvariance == Spec => [](IInv /\ RInv)
<1>1. Init => RInv
  BY DEF Init, RInv, BatchNotEmpty, NothingRefused
<1>2. QED BY <1>1, RInvInductive, Invariance, PTL DEF Spec

-----------------------------------------------------------------------------
\* A batch of n operations, of which those at the positions kept were applied,
\* is one step of the abstract store.
LEMMA SettleStep ==
  ASSUME NEW n \in 1..Len(Line), NEW kept \in SUBSET (1..n),
         IoErrors \/ kept = 1..n, disk' \in Table,
         Overwrites(disk, Line, kept, disk'),
         Line' = SubSeq(Line, n + 1, Len(Line))
  PROVE  Store!StoreNext
<1>1. Store!Overwrites(disk, Line, kept, disk')
  BY DEF Overwrites, HoldsAfter, Store!Overwrites, Store!HoldsAfter
<1>2. Store!Settle(n, kept)
  BY <1>1 DEF Store!Settle, Store!Table, Store!Cell, Table, Cell, Line
<1>3. QED BY <1>2 DEF Store!StoreNext, Line

\* An entry of the rest of a log is an entry of the log.
LEMMA TailElement ==
  ASSUME NEW S, NEW s \in Seq(S), NEW m \in Nat, NEW i \in 1..(Len(s) - m)
  PROVE  SubSeq(s, m + 1, Len(s))[i] = s[m + i]
OBVIOUS

\* Every step of the engine is a step of the abstract store or a stutter.
LEMMA StepSimulates == IInv /\ RInv /\ IInv' /\ [Next]_vars => [Store!StoreNext]_(Store!svars)
<1> SUFFICES ASSUME IInv, RInv, IInv', [Next]_vars
             PROVE  Store!StoreNext \/ UNCHANGED <<disk, Line>>
  BY DEF Store!svars, Line
<1>n. /\ Len(log) \in Nat /\ settled \in Nat /\ received \in Nat /\ Len(queue) \in Nat
      /\ log \in Seq(StoreOp) /\ settled <= received /\ received <= Len(log)
      /\ lost \subseteq 1..received /\ disk \in Table /\ staged \in Table /\ disk' \in Table
  BY DEF IInv, TypeOK, QueueIsTail, received
<1>l. Line \in Seq(StoreOp) /\ Len(Line) = Len(log) - settled
  BY <1>n DEF Line
<1>1. ASSUME NEW c \in Caller, NEW op \in StoreOp, SendOp(c, op) PROVE Store!StoreNext
  <2>1. Line' = Append(Line, op)
    <3>1. log' = Append(log, op) /\ settled' = settled /\ Len(log') = Len(log) + 1
      BY <1>1, <1>n DEF SendOp
    <3>2. settled \in 0..Len(log)
      BY <1>n
    <3>3. SubSeq(Append(log, op), settled + 1, Len(log) + 1) = Append(Line, op)
      BY <1>n, <3>2, EndOfAppend DEF Line
    <3>4. QED BY <3>1, <3>3 DEF Line
  <2>2. Store!Accept(op)
    BY <1>1, <2>1 DEF SendOp, Store!Accept, Line
  <2>3. QED BY <2>2 DEF Store!StoreNext, Store!StoreOp, Store!Cell, StoreOp, Cell
<1>2. ASSUME writer = "committing", log' = log, settled' = received
      PROVE  /\ received - settled \in 1..Len(Line)
             /\ Line' = SubSeq(Line, (received - settled) + 1, Len(Line))
  <2>1. settled < received
    BY <1>2 DEF RInv, BatchNotEmpty
  <2>2. received - settled \in 1..Len(Line)
    BY <1>n, <1>l, <2>1
  <2>3. SubSeq(Line, (received - settled) + 1, Len(Line)) = SubSeq(log, received + 1, Len(log))
    <3> DEFINE a == SubSeq(Line, (received - settled) + 1, Len(Line))
               b == SubSeq(log, received + 1, Len(log))
    <3>1. a \in Seq(StoreOp) /\ Len(a) = Len(log) - received
      BY <1>n, <1>l, <2>2
    <3>2. b \in Seq(StoreOp) /\ Len(b) = Len(log) - received
      BY <1>n
    <3>3. ASSUME NEW i \in 1..(Len(log) - received) PROVE a[i] = b[i]
      <4>1. a[i] = Line[(received - settled) + i]
        <5>1. received - settled \in Nat /\ i \in 1..(Len(Line) - (received - settled))
          BY <1>n, <1>l, <2>1
        <5>2. QED BY <5>1, <1>l, TailElement
      <4>2. (received - settled) + i \in 1..(Len(log) - settled)
        BY <1>n, <2>1
      <4>3. Line[(received - settled) + i] = log[settled + ((received - settled) + i)]
        BY <1>n, <4>2 DEF Line
      <4>4. settled + ((received - settled) + i) = received + i
        BY <1>n
      <4>5. b[i] = log[received + i]
        BY <1>n
      <4>6. QED BY <4>1, <4>3, <4>4, <4>5
    <3> HIDE DEF a, b
    <3>4. a = b
      BY <3>1, <3>2, <3>3
    <3>5. QED BY <3>4 DEF a, b
  <2>4. QED BY <1>2, <2>2, <2>3 DEF Line
<1>3. CASE Commit
  <2> DEFINE n == received - settled
             S == ((settled + 1)..received) \ lost
             kept == {i \in 1..n : settled + i \in S}
  <2>1. writer = "committing" /\ log' = log /\ settled' = received /\ disk' = staged
    BY <1>3 DEF Commit
  <2>2. n \in 1..Len(Line) /\ Line' = SubSeq(Line, n + 1, Len(Line))
    BY <1>2, <2>1
  <2>3. n \in Nat /\ settled + n = received
    BY <1>n
  <2>4. Overwrites(disk, log, S, staged)
    BY DEF IInv, StagedIsBatch
  <2>5. S \in SUBSET ((settled + 1)..(settled + n)) /\ settled + n <= Len(log)
    BY <1>n, <2>3
  <2>6. IoErrors \/ kept = 1..n
    <3>1. CASE ~IoErrors
      <4>1. lost = {}
        BY <3>1 DEF RInv, NothingRefused
      <4>2. \A i \in 1..n : settled + i \in (settled + 1)..received
        BY <1>n
      <4>3. QED BY <4>1, <4>2
    <3>2. QED BY <3>1
  <2> HIDE DEF S, n
  <2>7. Overwrites(disk, Line, kept, staged)
    BY <1>n, <2>3, <2>4, <2>5, OverwritesShift DEF Line
  <2>8. kept \in SUBSET (1..n)
    OBVIOUS
  <2> HIDE DEF kept
  <2>9. QED BY <1>n, <2>1, <2>2, <2>6, <2>7, <2>8, SettleStep
<1>4. CASE CommitFails
  <2>1. writer = "committing" /\ log' = log /\ settled' = received /\ disk' = disk /\ IoErrors
    BY <1>4 DEF CommitFails
  <2>2. Overwrites(disk, Line, {}, disk)
    BY <1>n, NothingKept
  <2>3. QED BY <1>n, <1>2, <2>1, <2>2, SettleStep
<1>5. CASE Restart
  <2>1. Line' = <<>> /\ disk' = disk
    BY <1>5 DEF Restart, Line
  <2>2. QED BY <2>1 DEF Store!StoreNext, Store!Forget, Line
<1>6. ASSUME UNCHANGED <<disk, log, settled>> PROVE UNCHANGED <<disk, Line>>
  BY <1>6 DEF Line
<1>7. QED
  BY <1>1, <1>3, <1>4, <1>5, <1>6
     DEF Next, Writer, UpdateCache, BeginBatch, DrainOne, DrainDone, vars

\* Seen from the disk and from what has not settled, the engine with its
\* queue, thread, transactions, errors and crashes is the abstract store.
THEOREM EngineImplementsStore == Spec => ImplementsStore
<1>1. Init => Store!StoreInit
  BY InitInv DEF Init, Store!StoreInit, Store!Table, Store!Cell, Table, Cell
<1>2. QED BY <1>1, RInvariance, StepSimulates, PTL DEF Spec, ImplementsStore, Store!StoreSpec
=============================================================================
