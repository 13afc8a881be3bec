------------------------------- MODULE GpaQuery -------------------------------
(***************************************************************************)
(* The query of a grade page: apply for a computation of a range of        *)
(* grades, then look among the school's records for its result             *)
(* (query_handler, src/src/web/jdfpm/expose.rs; the calls of               *)
(* src/src/api/xmu_service/jw/jdfpm).  What follows once a result is       *)
(* found, its certificate, is GuardedPage.                                 *)
(*                                                                         *)
(* Every call is made the way jw_api generates it: the entrance of the     *)
(* application, whose redirects sign the client in if its ticket is still  *)
(* taken, then the data.  Each is a wait.  The queries of one page share   *)
(* its client.  The school is a set of results, counted up as they are     *)
(* computed, and the ranges it is computing.                               *)
(***************************************************************************)
EXTENDS Naturals, FiniteSets

CONSTANTS
    Query,              \* requests under way
    Range,              \* ranges of grades
    RESULT_POLL_TRIES,
    MaxResults          \* bound: results the school computes

VARIABLES
    results,    \* the range of each result, and whether it is still valid
    computing,  \* ranges that are being computed
    ticket,     \* whether the school still takes the client's ticket
    entered,    \* whether the client is signed in at the application
    query       \* what a query waits for, what it will answer, and the results
                \* there were when it applied (history: seen)

vars == <<results, computing, ticket, entered, query>>
school == <<results, computing, ticket>>

Wid == 1..MaxResults
Made == {w \in Wid : results[w].made}
Valid(range) == {w \in Made : results[w].range = range /\ results[w].valid}
Idle == [at |-> "idle"]
Done(q) == query[q].at = "answered"
Answer == {"result", "computing", "missing", "error"}
Asked == [at : {"enter_apply", "apply", "sleep", "enter_records", "records", "answered"}, range : Range,
          outcome : {"none", "created", "exists"}, attempt : 0..RESULT_POLL_TRIES,
          answer : Answer \cup {"none"}, wid : Wid \cup {0}, seen : SUBSET Wid]

TypeOK ==
    /\ results \in [Wid -> [made : BOOLEAN, range : Range, valid : BOOLEAN]]
    /\ computing \subseteq Range
    /\ ticket \in BOOLEAN /\ entered \in BOOLEAN
    /\ query \in [Query -> Asked \cup {Idle}]

\* The page was opened with a client that had just logged in.  The school may
\* have a result of an earlier query, whose range is the same for all symmetric.
Init ==
    /\ results \in {[w \in Wid |-> [made |-> w = 1 /\ old, range |-> r, valid |-> w = 1 /\ old]] :
                        old \in BOOLEAN, r \in Range}
    /\ computing = {} /\ ticket = TRUE /\ entered = FALSE
    /\ query = [q \in Query |-> Idle]

-----------------------------------------------------------------------------
Goes(q, at) == query' = [query EXCEPT ![q].at = at]
Answers(q, answer, w) ==
    query' = [query EXCEPT ![q].at = "answered", ![q].answer = answer, ![q].wid = w]
\* upstream: the call failed, and the page is told with a 502.
Upstream(q) == Answers(q, "error", 0)

\* query_handler, behind the gate of the page: it begins with an application.
Begin(q, range) ==
    /\ query[q] = Idle
    /\ query' = [query EXCEPT ![q] = [at |-> "enter_apply", range |-> range, outcome |-> "none",
                    attempt |-> 0, answer |-> "none", wid |-> 0, seen |-> Made]]
    /\ UNCHANGED <<school, entered>>

\* call_client, first half: the entrance is asked for, and what it answers is
\* not looked at.
Enter(q) ==
    /\ query[q].at \in {"enter_apply", "enter_records"}
    /\ \/ /\ Goes(q, IF query[q].at = "enter_apply" THEN "apply" ELSE "records")
          /\ entered' \in {entered, entered \/ ticket}
       \/ Upstream(q) /\ UNCHANGED entered
    /\ UNCHANGED school

\* Second half, as far as it is no answer: the network, a page of the login or of
\* an error (ensure_json_response), or data that cannot be read.
Refused(q) == Upstream(q) /\ UNCHANGED <<results, computing>>

\* Whether an application is for the school a new one: a range with a valid result
\* has none, and one that is being computed may have.
Replies(range) ==
    IF Valid(range) # {} THEN {"exists"}
    ELSE {"created"} \cup (IF range \in computing THEN {"exists"} ELSE {})

Created(q) ==
    /\ computing' = computing \cup {query[q].range}
    /\ query' = [query EXCEPT ![q].at = "sleep", ![q].outcome = "created", ![q].seen = Made]
Exists(q) ==
    /\ query' = [query EXCEPT ![q].at = "enter_records", ![q].outcome = "exists", ![q].seen = Valid(query[q].range)]
    /\ UNCHANGED computing

\* submit_from_client: code "0" is a new computation, the message that a result is
\* still valid is as good as one, and any other code is an error.
Apply(q) ==
    /\ query[q].at = "apply"
    /\ \/ /\ entered
          /\ \E reply \in Replies(query[q].range) :
                IF reply = "created" THEN Created(q) ELSE Exists(q)
          /\ UNCHANGED results
       \/ Refused(q)
    /\ UNCHANGED <<ticket, entered>>

\* RESULT_POLL_INTERVAL.
Wake(q) ==
    /\ query[q].at = "sleep"
    /\ query' = [query EXCEPT ![q].at = "enter_records", ![q].attempt = @ + 1]
    /\ UNCHANGED <<school, entered>>

\* is_valid_for: a valid record of the range whose detail has a result.
\* find_valid: the first of them.
IsValidFor(w, range) == w \in Valid(range)
FindValid(q) == {w \in Wid : IsValidFor(w, query[q].range)}

\* No record will do: an old result should have been there, and a new one is
\* waited for as long as there are tries.
NotFound(q) ==
    IF query[q].outcome = "exists" THEN Answers(q, "missing", 0)
    ELSE IF query[q].attempt < RESULT_POLL_TRIES THEN Goes(q, "sleep")
    ELSE Answers(q, "computing", 0)

\* GpaRecord::get_from_client: the school's records, if it says that it lists them
\* (ensure_ok).
Records(q) ==
    /\ query[q].at = "records"
    /\ \/ /\ entered
          /\ \/ \E w \in FindValid(q) : Answers(q, "result", w)
             \/ FindValid(q) = {} /\ NotFound(q)
       \/ Upstream(q)
    /\ UNCHANGED <<school, entered>>

\* The page is used again.
Again(q) ==
    /\ Done(q)
    /\ query' = [query EXCEPT ![q] = Idle]
    /\ UNCHANGED <<school, entered>>

-----------------------------------------------------------------------------
\* The school computes a result, and puts it out of date later on.
Compute(range) ==
    /\ range \in computing
    /\ \E w \in Wid \ Made :
          /\ \A v \in 1..(w - 1) : results[v].made
          /\ results' = [results EXCEPT ![w] = [made |-> TRUE, range |-> range, valid |-> TRUE]]
    /\ computing' = computing \ {range}
    /\ UNCHANGED <<ticket, entered, query>>

OutOfDate(w) ==
    /\ w \in Made /\ results[w].valid
    /\ results' = [results EXCEPT ![w].valid = FALSE]
    /\ UNCHANGED <<computing, ticket, entered, query>>

\* The session at the application ends, or the ticket with it.
SignedOut ==
    /\ entered /\ entered' = FALSE
    /\ ticket' \in {ticket, FALSE}
    /\ UNCHANGED <<results, computing, query>>

Next ==
    \/ SignedOut
    \/ \E q \in Query :
          \/ \E range \in Range : Begin(q, range)
          \/ Enter(q) \/ Apply(q) \/ Wake(q) \/ Records(q) \/ Again(q)
    \/ \E range \in Range : Compute(range)
    \/ \E w \in Wid : OutOfDate(w)

Spec == Init /\ [][Next]_vars

-----------------------------------------------------------------------------
(* A query that says it had the grades computed anew shows a result that   *)
(* was not there when it applied, and every result shown is of the range   *)
(* that was asked for (expose.rs:236 applies before it looks).             *)
NewIsNew ==
    \A q \in Query : Done(q) /\ query[q].answer = "result" =>
        /\ results[query[q].wid].range = query[q].range
        /\ query[q].outcome = "created" => query[q].wid \notin query[q].seen

(* "The school says there is a result, but has none on record" is said     *)
(* only when the results it spoke of are out of date by then, or there was *)
(* none but a computation under way, by another query or one that gave up: *)
(* never because the records could not be read (expose.rs:258).            *)
MissingIsGone ==
    \A q \in Query : Done(q) /\ query[q].answer = "missing" =>
        \A w \in query[q].seen : ~results[w].valid
=============================================================================
