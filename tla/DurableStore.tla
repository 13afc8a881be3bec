---------------------------- MODULE DurableStore ----------------------------
(***************************************************************************)
(* What the hot storage engine promises its callers, with no threads, no   *)
(* cache and no transactions.  Accepted operations wait in one line; a     *)
(* prefix of the line settles in a single step, either all of it or, when  *)
(* the database reports errors, what is left of it; a crash forgets the    *)
(* line and keeps the store.  Nothing is reordered, no state between two   *)
(* batches is ever visible on disk.                                        *)
(***************************************************************************)
EXTENDS KeyedLog

CONSTANT IoErrors   \* may the database refuse an operation or a commit?

VARIABLES store,    \* the rows on disk
          pending   \* accepted operations that have not settled

svars == <<store, pending>>

StoreInit == /\ store \in Table
             /\ pending = <<>>

Accept(op) == /\ pending' = Append(pending, op)
              /\ UNCHANGED store

Settle(n, kept) ==
  /\ IoErrors \/ kept = 1..n
  /\ store' \in Table
  /\ Overwrites(store, pending, kept, store')
  /\ pending' = SubSeq(pending, n + 1, Len(pending))

Forget == /\ pending' = <<>>
          /\ UNCHANGED store

StoreNext == \/ \E op \in StoreOp : Accept(op)
             \/ \E n \in 1..Len(pending) : \E kept \in SUBSET (1..n) : Settle(n, kept)
             \/ Forget

StoreSpec == StoreInit /\ [][StoreNext]_svars
=============================================================================
