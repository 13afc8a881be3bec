------------------------------ MODULE ColdTable ------------------------------
(***************************************************************************)
(* A cold table (src/src/api/storage/cold.rs): every call opens its own    *)
(* redb transaction and does the whole disk operation before it returns,   *)
(* so a row is either committed or the call has failed.  Nothing is cached *)
(* and nothing is queued: what a call stored survives a restart.  An error *)
(* is possible in every call (the database, the table, the encoding).      *)
(*                                                                         *)
(* Operators over the rows of one table; the module that owns the table    *)
(* instantiates this one with its variable.                                *)
(***************************************************************************)
EXTENDS FiniteSets

CONSTANTS Key, Value, Absent, IoErrors

VARIABLE rows

TableType == [Key -> Value \cup {Absent}]

\* get, get_async: the row, Absent for a missing row or table, or an error.
GetResults(k) ==
    {[ok |-> TRUE, value |-> rows[k]]}
        \cup IF IoErrors THEN {[ok |-> FALSE, value |-> Absent]} ELSE {}

\* insert: committed and durable when it returns Ok.
InsertOk(k, v) == rows' = [rows EXCEPT ![k] = v]

\* insert or remove that fails before its commit: the transaction is dropped.
WriteFails == IoErrors /\ UNCHANGED rows
=============================================================================
