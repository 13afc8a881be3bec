------------------------------ MODULE KeyedLog ------------------------------
(***************************************************************************)
(* Logs of keyed writes, and what it means to apply some of them to a      *)
(* table.  An entry of a log is the StoreOp that HotTable queues for the   *)
(* storage engine (src/api/storage/hot.rs): Upsert carries a value, Delete *)
(* is the write of Absent.                                                 *)
(***************************************************************************)
EXTENDS Naturals, Sequences

CONSTANTS Key,      \* the (table, key) pairs
          Value,    \* serialized values
          Absent    \* "no row under this key"

ASSUME AbsentIsNoValue == Absent \notin Value

Cell  == Value \cup {Absent}
Table == [Key -> Cell]
StoreOp == [key : Key, value : Cell]

EmptyTable == [k \in Key |-> Absent]

\* One operation applied to a table: insert overwrites, remove erases, and
\* removing a row that is not there changes nothing.
process_op(tbl, op) == [tbl EXCEPT ![op.key] = op.value]

\* What key k holds after the entries of "log" at the positions "kept" have
\* been applied in the order of the log to a table that held "old" there:
\* what the last kept entry on k wrote, or "old" if no kept entry is on k.
HoldsAfter(k, old, log, kept, new) ==
  \/ /\ \A i \in kept : log[i].key # k
     /\ new = old
  \/ \E i \in kept :
       /\ log[i].key = k
       /\ new = log[i].value
       /\ \A j \in kept : log[j].key = k => j <= i

\* Table "to" is table "from" overwritten by those entries.
Overwrites(from, log, kept, to) ==
  \A k \in Key : HoldsAfter(k, from[k], log, kept, to[k])
=============================================================================
