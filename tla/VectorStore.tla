----------------------------- MODULE VectorStore -----------------------------
(***************************************************************************)
(* VectorSearchEngine (src/src/api/storage/vector.rs): rows in a cold      *)
(* table, and in memory a graph of vectors with internal numbers and a map *)
(* from those numbers to the keys of the rows.  Graph and map are replaced *)
(* by a removal, one after the other, and otherwise grow in place.         *)
(*                                                                         *)
(* An item stands for its key, its row and its vector.  The graph is the   *)
(* set of its points, and a search for a vector that is in it finds the    *)
(* point of that vector (hnsw_rs, taken to be exact).                      *)
(***************************************************************************)
EXTENDS Naturals, FiniteSets, Functions

CONSTANTS
    Item,       \* numbers: the order in which the table lists its rows
    Call,       \* calls in flight
    MaxCalls    \* bound of the calls made

VARIABLES
    rows,       \* kv_table
    graphs,     \* every graph there was
    maps,       \* every map there was
    index,      \* the number of the graph in use
    id_map,     \* the number of the map in use
    call,       \* the calls
    calls,      \* calls made
    doubtful,   \* history: items added while something else was under way, and
                \* those a start could not read; until a removal makes it good
    swapped     \* history: removals overlapped, and none was alone since

vars == <<rows, graphs, maps, index, id_map, call, calls, doubtful, swapped>>

\* A call: the step it is at, and what it holds of the item, the map and the
\* graph it loaded and the number it took (of an insertion); the rows it read
\* and what it made of them (of a removal); the key and the answer (of a search).
\* `alone` and `due` are history: nothing disturbed it, its answer is owed.
Step == {"idle", "ids", "index", "point", "map", "build", "swap", "swap_map",
         "look", "row", "done"}
CallType ==
    [at : Step, op : {"none", "insert", "remove", "search"}, item : Nat,
     ids : Nat, graph : Nat, number : Nat, alone : BOOLEAN, read : SUBSET Item,
     made : Nat, due : BOOLEAN, key : SUBSET Item, ans : SUBSET Item]
Idle == [at |-> "idle", op |-> "none", item |-> 0,
         ids |-> 0, graph |-> 0, number |-> 0, alone |-> FALSE, read |-> {},
         made |-> 0, due |-> FALSE, key |-> {}, ans |-> {}]
At(c, at) == call[c].at = at
Busy == {c \in Call : call[c].at \notin {"idle", "done"}}
Adding == {c \in Busy : call[c].op = "insert"}
Removing == {c \in Busy : call[c].op = "remove"}

TypeOK ==
    /\ rows \subseteq Item /\ doubtful \subseteq Item /\ swapped \in BOOLEAN
    /\ DOMAIN graphs = DOMAIN maps /\ index \in DOMAIN graphs /\ id_map \in DOMAIN maps
    /\ \A g \in DOMAIN graphs : graphs[g] \subseteq Item \X Nat
    /\ \A g \in DOMAIN maps : DOMAIN maps[g] \subseteq Nat /\ Range(maps[g]) \subseteq Item
    /\ call \in [Call -> CallType]
    /\ \A c \in Busy : call[c].item \in Item
    /\ calls \in 0..MaxCalls

-----------------------------------------------------------------------------
\* build_index_sync: the rows are numbered from zero in the table's order.
Number(rs, x) == Cardinality({y \in rs : y < x})
GraphOf(rs) == {<<x, Number(rs, x)>> : x \in rs}
MapOf(rs) == [n \in 0..Cardinality(rs)-1 |-> CHOOSE x \in rs : Number(rs, x) = n]

\* get_all, at a start: every row; or none, since a single row that cannot be
\* decoded fails the read, and new goes on with the empty set.
Readable == {rows, {}}

\* new: the graph and the map of whatever rows were read.
Init ==
    /\ rows \in SUBSET Item
    /\ \E read \in Readable :
          /\ graphs = [g \in {0} |-> GraphOf(read)] /\ maps = [g \in {0} |-> MapOf(read)]
          /\ doubtful = rows \ read
    /\ index = 0 /\ id_map = 0
    /\ call = [c \in Call |-> Idle] /\ calls = 0
    /\ swapped = FALSE

\* The process ends, and begins with the rows that are stored and can be read.
Restart ==
    /\ \E read \in Readable :
          /\ graphs' = [g \in {0} |-> GraphOf(read)] /\ maps' = [g \in {0} |-> MapOf(read)]
          /\ doubtful' = rows \ read
    /\ index' = 0 /\ id_map' = 0
    /\ call' = [c \in Call |-> Idle] /\ swapped' = FALSE
    /\ UNCHANGED <<rows, calls>>

Begin(c, record) ==
    /\ call[c].at \in {"idle", "done"} /\ calls < MaxCalls
    /\ calls' = calls + 1 /\ call' = [call EXCEPT ![c] = record]
\* A call that changes something disturbs the removals under way.
BeginChange(c, record) ==
    /\ call[c].at \in {"idle", "done"} /\ calls < MaxCalls
    /\ calls' = calls + 1
    /\ call' = [d \in Call |-> CASE d = c -> record
                                 [] d \in Removing -> [call[d] EXCEPT !.alone = FALSE]
                                 [] OTHER -> call[d]]
End(c) == call' = [call EXCEPT ![c] = Idle]

-----------------------------------------------------------------------------
\* insert: the row comes first.
InsertRow(c, x) ==
    /\ x \notin rows /\ \A d \in Busy : call[d].item # x
    /\ \A g \in DOMAIN graphs : x \notin {p[1] : p \in graphs[g]}
    /\ BeginChange(c, [Idle EXCEPT !.at = "ids", !.op = "insert", !.item = x])
    /\ rows' = rows \cup {x}
    /\ doubtful' = doubtful \cup
                IF Adding \cup Removing = {} THEN {}
                ELSE {x} \cup {call[d].item : d \in Adding}
    /\ UNCHANGED <<graphs, maps, index, id_map, swapped>>

\* The map and the graph are loaded, and the length of that map is the number.
LoadIds(c) ==
    /\ At(c, "ids")
    /\ call' = [call EXCEPT ![c].at = "index", ![c].ids = id_map]
    /\ UNCHANGED <<rows, graphs, maps, index, id_map, calls, doubtful, swapped>>

LoadIndex(c) ==
    /\ At(c, "index")
    /\ call' = [call EXCEPT ![c].at = "point", ![c].graph = index,
                            ![c].number = Cardinality(DOMAIN maps[call[c].ids])]
    /\ UNCHANGED <<rows, graphs, maps, index, id_map, calls, doubtful, swapped>>

\* The point is added on another thread, then the number to the map.
InsertPoint(c) ==
    /\ At(c, "point")
    /\ graphs' = [graphs EXCEPT ![call[c].graph] = @ \cup {<<call[c].item, call[c].number>>}]
    /\ call' = [call EXCEPT ![c].at = "map"]
    /\ UNCHANGED <<rows, maps, index, id_map, calls, doubtful, swapped>>
InsertNumber(c) ==
    /\ At(c, "map")
    /\ maps' = [maps EXCEPT ![call[c].ids] =
                  [n \in DOMAIN @ \cup {call[c].number} |->
                       IF n = call[c].number THEN call[c].item ELSE @[n]]]
    /\ End(c)
    /\ UNCHANGED <<rows, graphs, index, id_map, calls, doubtful, swapped>>

-----------------------------------------------------------------------------
\* remove: the row goes first; then all rows are read and numbered anew, ...
RemoveRow(c, x) ==
    /\ x \in rows
    /\ BeginChange(c, [Idle EXCEPT !.at = "build", !.op = "remove", !.item = x,
                                  !.alone = (Adding \cup Removing = {})])
    /\ rows' = rows \ {x}
    /\ doubtful' = doubtful \cup {call[d].item : d \in Adding}
    /\ swapped' = (swapped \/ Removing # {})
    /\ UNCHANGED <<graphs, maps, index, id_map>>
ReadAll(c) ==
    /\ At(c, "build")
    /\ \/ call' = [call EXCEPT ![c].at = "swap", ![c].read = rows]
       \/ End(c)                                   \* the read fails
    /\ UNCHANGED <<rows, graphs, maps, index, id_map, calls, doubtful, swapped>>

\* ... and the graph is replaced before the map is.
Newest == Cardinality(DOMAIN graphs)
SwapGraph(c) ==
    /\ At(c, "swap")
    /\ graphs' = [g \in 0..Newest |-> IF g = Newest THEN GraphOf(call[c].read) ELSE graphs[g]]
    /\ maps' = [g \in 0..Newest |-> IF g = Newest THEN MapOf(call[c].read) ELSE maps[g]]
    /\ index' = Newest
    /\ call' = [call EXCEPT ![c].at = "swap_map", ![c].made = Newest]
    /\ UNCHANGED <<rows, id_map, calls, doubtful, swapped>>

\* A removal that nothing overlapped has made good what went wrong before.
SwapMap(c) ==
    /\ At(c, "swap_map")
    /\ id_map' = call[c].made
    /\ doubtful' = IF call[c].alone THEN {} ELSE doubtful
    /\ swapped' = (swapped /\ ~call[c].alone)
    /\ End(c)
    /\ UNCHANGED <<rows, graphs, maps, index, calls>>

-----------------------------------------------------------------------------
\* What a search for an item must find: it is there, and nothing interfered.
Sound(x) ==
    /\ x \in rows \ doubtful /\ ~swapped /\ Removing = {}
    /\ \A c \in Adding : call[c].item # x

\* search, for the vector of an item: the graph, then the map, ...
Search(c, x) ==
    /\ Begin(c, [Idle EXCEPT !.at = "look", !.op = "search", !.item = x,
                            !.graph = index, !.due = (Removing = {})])
    /\ UNCHANGED <<rows, graphs, maps, index, id_map, doubtful, swapped>>

\* ... the number of the nearest point and its key in the map, ...
Nearest(g, x) ==
    LET mine == {p \in graphs[g] : p[1] = x} IN
    {p[2] : p \in IF mine # {} THEN mine ELSE graphs[g]}
Look(c) ==
    /\ At(c, "look")
    /\ LET numbers == Nearest(call[c].graph, call[c].item)
           KeyOf(n) == IF n \in DOMAIN maps[id_map] THEN {maps[id_map][n]} ELSE {}
       IN \E key \in IF numbers = {} THEN {{}} ELSE {KeyOf(n) : n \in numbers} :
             call' = [call EXCEPT ![c].at = "row", ![c].key = key,
                          ![c].due = @ /\ Sound(call[c].item) /\ index = call[c].graph]
    /\ UNCHANGED <<rows, graphs, maps, index, id_map, calls, doubtful, swapped>>

\* ... and the row of that key, or an error of the table.
ReadRow(c) ==
    /\ At(c, "row")
    /\ \/ call' = [call EXCEPT ![c] =
                      [Idle EXCEPT !.at = "done", !.item = call[c].item,
                                   !.ans = call[c].key \cap rows,
                                   !.due = call[c].due /\ call[c].item \in rows]]
       \/ End(c)                                   \* the read fails, the search with it
    /\ UNCHANGED <<rows, graphs, maps, index, id_map, calls, doubtful, swapped>>

Next ==
    \/ Restart
    \/ \E c \in Call :
         \/ \E x \in Item : InsertRow(c, x) \/ RemoveRow(c, x) \/ Search(c, x)
         \/ LoadIds(c) \/ LoadIndex(c) \/ InsertPoint(c) \/ InsertNumber(c)
         \/ ReadAll(c) \/ SwapGraph(c) \/ SwapMap(c)
         \/ Look(c) \/ ReadRow(c)

Spec == Init /\ [][Next]_vars

-----------------------------------------------------------------------------
(* A row can be found by its own vector once it is stored, unless its      *)
(* addition overlapped another addition or a removal, two removals         *)
(* overlapped, or the last start could not read the table and went on with *)
(* an empty index; and a removal that overlaps nothing, and can read the   *)
(* table, makes all of that good.                                          *)
RowsCanBeFound ==
    \A x \in Item : Sound(x) =>
        \E n \in DOMAIN maps[id_map] : maps[id_map][n] = x /\ <<x, n>> \in graphs[index]

(* So a search that ran while no removal did, and that ends without an     *)
(* error, returns that row, though the graph, the map and the table are    *)
(* read one after another.                                                 *)
SearchesAreAnswered == \A c \in Call : At(c, "done") /\ call[c].due => call[c].ans = {call[c].item}
=============================================================================
