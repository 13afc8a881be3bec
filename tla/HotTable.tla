------------------------------ MODULE HotTable ------------------------------
(***************************************************************************)
(* The write-behind tables of src/api/storage/hot.rs: a concurrent map in  *)
(* memory answers every read, and every write is queued for the one thread *)
(* that owns the redb database.  The thread takes the first operation,     *)
(* opens a write transaction, drains whatever else is queued into the same *)
(* transaction, and commits.                                               *)
(*                                                                         *)
(* A caller's insert or remove is two steps, because the operation is sent *)
(* to the queue before the map is updated and nothing holds the two        *)
(* together.  A crash may fall between any two steps.                      *)
(***************************************************************************)
EXTENDS KeyedLog

CONSTANTS IoErrors,    \* may the database refuse an operation, a commit or a row?
          Caller,      \* tasks that call insert and remove
          NoCall,      \* a caller that is in no call
          MaxOps,      \* bound: operations sent in one run of the process
          MaxCrashes   \* bound: restarts of the process

ASSUME HotTableAssumption ==
  /\ IoErrors \in BOOLEAN
  /\ NoCall \notin StoreOp
  /\ MaxOps \in Nat
  /\ MaxCrashes \in Nat

VARIABLES cache,       \* HotTable::cache, what get() answers
          queue,       \* operations sent and not received by the writer
          writer,      \* where the writer thread is in its loop
          staged,      \* the tables as the open write transaction sees them
          disk,        \* the committed rows
          call,        \* per caller: the operation sent, its map update still due
          crashes

\* History, never read by an action's guard except for the bound on log.
VARIABLES log,         \* every operation accepted since the process started
          base,        \* the rows on disk when the process started
          loaded,      \* the map as read_table filled it at that time
          settled,     \* how many operations of the log the writer is done with
          lost,        \* positions of the log that the database refused
          muddled      \* keys whose last writes overlapped one another

vars == <<cache, queue, writer, staged, disk, call, crashes,
          log, base, loaded, settled, lost, muddled>>

received == Len(log) - Len(queue)

InFlight(k) == {c \in Caller : call[c] # NoCall /\ call[c].key = k}

-----------------------------------------------------------------------------
\* HotTable::new: read_table copies the rows on disk into the map.  A row
\* that cannot be read or decoded is reported and skipped.
read_table(rows, unreadable) ==
  [k \in Key |-> IF k \in unreadable THEN Absent ELSE rows[k]]

Unreadable == IF IoErrors THEN SUBSET Key ELSE {{}}

Init ==
  /\ disk \in Table
  /\ \E bad \in Unreadable : cache = read_table(disk, bad)
  /\ queue = <<>>
  /\ writer = "idle"
  /\ staged = disk
  /\ call = [c \in Caller |-> NoCall]
  /\ crashes = 0
  /\ log = <<>>
  /\ base = disk
  /\ loaded = cache
  /\ settled = 0
  /\ lost = {}
  /\ muddled = {}

-----------------------------------------------------------------------------
\* Faulty variants of actions below; no specification uses them.  Each is a
\* bug that a property of this module must catch.

\* The map keeps what it has, as entry().or_insert would.
UpdateCache_KeepsOld(c) ==
  /\ call[c] # NoCall
  /\ cache' = IF cache[call[c].key] = Absent THEN process_op(cache, call[c]) ELSE cache
  /\ call' = [call EXCEPT ![c] = NoCall]
  /\ UNCHANGED <<queue, writer, staged, disk, crashes,
                 log, base, loaded, settled, lost, muddled>>

\* The writer takes the newest operation first.
DrainOne_Newest ==
  /\ writer = "draining"
  /\ queue # <<>>
  /\ staged' = process_op(staged, queue[Len(queue)])
  /\ queue' = SubSeq(queue, 1, Len(queue) - 1)
  /\ UNCHANGED <<cache, writer, disk, call, crashes,
                 log, base, loaded, settled, lost, muddled>>

\* Later operations of a batch are written outside its transaction.
DrainOne_Autocommit ==
  /\ writer = "draining"
  /\ queue # <<>>
  /\ staged' = process_op(staged, Head(queue))
  /\ disk' = process_op(disk, Head(queue))
  /\ queue' = Tail(queue)
  /\ UNCHANGED <<cache, writer, call, crashes,
                 log, base, loaded, settled, lost, muddled>>

\* The writer holds a batch back until another operation arrives.
DrainDone_Debounced ==
  /\ writer = "draining"
  /\ queue # <<>>
  /\ writer' = "committing"
  /\ UNCHANGED <<cache, queue, staged, disk, call, crashes,
                 log, base, loaded, settled, lost, muddled>>

-----------------------------------------------------------------------------
\* insert / remove, first half: send_engine serializes the operation and
\* sends it to the unbounded queue.
SendOp(c, op) ==
  /\ call[c] = NoCall
  /\ Len(log) < MaxOps
  /\ queue' = Append(queue, op)
  /\ log' = Append(log, op)
  /\ call' = [call EXCEPT ![c] = op]
  /\ muddled' = IF InFlight(op.key) = {} THEN muddled \ {op.key}
                                         ELSE muddled \cup {op.key}
  /\ UNCHANGED <<cache, writer, staged, disk, crashes, base, loaded, settled, lost>>

\* insert / remove, second half: the map is updated and the call returns.
UpdateCache(c) ==
  /\ call[c] # NoCall
  /\ cache' = process_op(cache, call[c])
  /\ call' = [call EXCEPT ![c] = NoCall]
  /\ UNCHANGED <<queue, writer, staged, disk, crashes,
                 log, base, loaded, settled, lost, muddled>>

-----------------------------------------------------------------------------
\* process_op inside the transaction; an error of the database is reported
\* and the operation skipped.
Stage(op) ==
  \/ /\ staged' = process_op(staged, op)
     /\ lost' = lost
  \/ /\ IoErrors
     /\ staged' = staged
     /\ lost' = lost \cup {received + 1}

\* blocking_recv returned an operation: begin_write, then process it.
BeginBatch ==
  /\ writer = "idle"
  /\ queue # <<>>
  /\ Stage(Head(queue))
  /\ queue' = Tail(queue)
  /\ writer' = "draining"
  /\ UNCHANGED <<cache, disk, call, crashes, log, base, loaded, settled, muddled>>

\* try_recv returned another operation: it joins the open transaction.
DrainOne ==
  /\ writer = "draining"
  /\ queue # <<>>
  /\ Stage(Head(queue))
  /\ queue' = Tail(queue)
  /\ UNCHANGED <<cache, writer, disk, call, crashes, log, base, loaded, settled, muddled>>

\* try_recv found the queue empty; a send may still come before the commit.
DrainDone ==
  /\ writer = "draining"
  /\ queue = <<>>
  /\ writer' = "committing"
  /\ UNCHANGED <<cache, queue, staged, disk, call, crashes,
                 log, base, loaded, settled, lost, muddled>>

Commit ==
  /\ writer = "committing"
  /\ disk' = staged
  /\ settled' = received
  /\ writer' = "idle"
  /\ UNCHANGED <<cache, queue, staged, call, crashes, log, base, loaded, lost, muddled>>

\* commit failed: the error is logged and the loop goes on without the batch.
CommitFails ==
  /\ IoErrors
  /\ writer = "committing"
  /\ staged' = disk
  /\ lost' = lost \cup (settled + 1)..received
  /\ settled' = received
  /\ writer' = "idle"
  /\ UNCHANGED <<cache, queue, disk, call, crashes, log, base, loaded, muddled>>

\* The process ends (the release build aborts on any panic, the bot exits
\* when its socket closes) and is started again: the map is rebuilt from
\* the committed rows, the queue and the open transaction are gone.
Restart ==
  /\ crashes < MaxCrashes
  /\ crashes' = crashes + 1
  /\ \E bad \in Unreadable : cache' = read_table(disk, bad)
  /\ queue' = <<>>
  /\ writer' = "idle"
  /\ staged' = disk
  /\ call' = [c \in Caller |-> NoCall]
  /\ log' = <<>>
  /\ base' = disk
  /\ loaded' = cache'
  /\ settled' = 0
  /\ lost' = {}
  /\ muddled' = {}
  /\ UNCHANGED disk

-----------------------------------------------------------------------------
Writer == BeginBatch \/ DrainOne \/ DrainDone \/ Commit \/ CommitFails

Next == \/ \E c \in Caller, op \in StoreOp : SendOp(c, op)
        \/ \E c \in Caller : UpdateCache(c)
        \/ Writer
        \/ Restart

Spec == Init /\ [][Next]_vars

\* The writer has a blocking thread to itself and the runtime schedules
\* every ready task; nobody has to call, and nothing has to crash.
Fairness == /\ WF_vars(Writer)
            /\ \A c \in Caller : WF_vars(UpdateCache(c))

FairSpec == Spec /\ Fairness

-----------------------------------------------------------------------------
TypeOK ==
  /\ cache \in Table
  /\ queue \in Seq(StoreOp)
  /\ writer \in {"idle", "draining", "committing"}
  /\ staged \in Table
  /\ disk \in Table
  /\ call \in [Caller -> StoreOp \cup {NoCall}]
  /\ crashes \in Nat
  /\ log \in Seq(StoreOp)
  /\ base \in Table
  /\ loaded \in Table
  /\ received \in Nat
  /\ settled \in Nat
  /\ lost \subseteq Nat
  /\ muddled \subseteq Key

(***************************************************************************)
(* Nothing is reordered, invented or applied in part: the committed rows   *)
(* are what the process found on disk when it started, overwritten by the  *)
(* operations the writer is done with, in the order they were sent, minus  *)
(* those the database refused.  A batch that is still open shows nowhere.  *)
(* (the writer loop of StorageEngine::create)                              *)
(***************************************************************************)
DiskIsReplay == Overwrites(base, log, (1..settled) \ lost, disk)

(***************************************************************************)
(* The map and the disk agree once the engine has caught up.  For a key    *)
(* that was readable at start, on which no call is in progress, nothing is *)
(* waiting or lost, and whose last write overlapped no other call on the   *)
(* same key, get() returns what a restart would load.  Overlapping calls   *)
(* are excluded because the code does let them disagree: the two sends and *)
(* the two map updates may happen in opposite orders.                      *)
(***************************************************************************)
CaughtUp(k) ==
  /\ InFlight(k) = {}
  /\ \A i \in 1..Len(log) : log[i].key = k => i <= settled /\ i \notin lost

QuiescentCacheIsDisk ==
  \A k \in Key \ muddled :
    (CaughtUp(k) /\ loaded[k] = base[k]) => cache[k] = disk[k]

(***************************************************************************)
(* Every accepted operation is settled, or the process dies first: the     *)
(* writer never forgets the queue and never waits for a wake-up that does  *)
(* not come, once the callers pause (MaxOps).                              *)
(***************************************************************************)
EventuallySettled ==
  \A n \in 1..MaxOps, r \in 0..MaxCrashes :
    (Len(log) >= n /\ crashes = r) ~> (settled >= n \/ crashes > r)

(***************************************************************************)
(* The engine implements DurableStore: the line of pending operations is   *)
(* what has been sent and has not settled, whether the writer has it in    *)
(* its transaction or not.                                                 *)
(***************************************************************************)
Store == INSTANCE DurableStore
           WITH store <- disk, pending <- SubSeq(log, settled + 1, Len(log))
ImplementsStore == Store!StoreSpec
=============================================================================
