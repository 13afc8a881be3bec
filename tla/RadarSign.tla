------------------------------ MODULE RadarSign ------------------------------
(***************************************************************************)
(* A radar roll call answered by the class mates in it, concurrently:      *)
(* AutoSignRequest::radar (logic/rollcall/auto_sign_request.rs) over       *)
(* SignData (sign_data.rs), which remembers for everybody where somebody   *)
(* was found close enough.                                                 *)
(*                                                                         *)
(* Every measurement is an answer to the server, which may count it: the   *)
(* four ways to find a place are tried in turn, and each may have signed   *)
(* the user although it failed.  A distance is its class: 1 below 100 m,   *)
(* 2 below 200 m, 3 up to 300 m, 4 above.  The random offset of a place    *)
(* (some 30 m) moves it by one class at most.  An estimated point that has *)
(* no place near it is tried as it is, and may be remembered like a place: *)
(* it is the number Places + e, where e is its class.                      *)
(***************************************************************************)
EXTENDS Naturals, FiniteSets

CONSTANTS
    User,       \* the class mates
    Places,     \* LOCATIONS has the places 1..Places
    Radii,      \* the radii the server may use
    PROBES      \* places measured for a trilateration (3 in the code)

VARIABLES
    dist,       \* how far each place is from the roll call
    radius,     \* the distance up to which the server counts an answer
    timetable,  \* the place of the lesson in their timetables, or 0
    location,   \* SIGN_LOCATION_DATA: the place or estimated point that worked, or 0
    signed,     \* users the server has down as present
    req,        \* the call of a user
    rechecked   \* history: users told of a failure on the word of the server

vars == <<dist, radius, timetable, location, signed, req, rechecked>>
scene == <<dist, radius, timetable>>

Place == 1..Places
Distance == 1..4
Spot == 0..(Places + 4)
Result == {"success", "already", "failed"}
Stage == {"start", "cache", "timetable", "probe", "snap", "triple", "measure", "retry", "check", "unknown", "done"}

TypeOK ==
    /\ dist \in [Place -> Distance] /\ radius \in Radii
    /\ timetable \in Place \cup {0} /\ location \in Spot
    /\ signed \subseteq User /\ rechecked \subseteq User
    /\ req \in [User -> [at : Stage, place : Spot, i : Place,
                         best : Place \cup {0}, estimate : 0..4, smooth : BOOLEAN,
                         result : Result \cup {"none"}]]

\* estimate is the class of the trilaterated point, 0 without one; smooth holds
\* while no request of the call has failed.
Start == [at |-> "start", place |-> 0, i |-> 1, best |-> 0, estimate |-> 0,
          smooth |-> TRUE, result |-> "none"]

Init ==
    /\ dist \in [Place -> Distance] /\ radius \in Radii
    /\ timetable \in {0, 1}
    /\ location = 0 /\ signed = {} /\ rechecked = {}
    /\ req = [u \in User |-> Start]

-----------------------------------------------------------------------------
At(u, stage) == req[u].at = stage
Goto(u, r) == req' = [req EXCEPT ![u] = r]

\* The call returns, and its local variables are gone.
Returned(r, result) ==
    [at |-> "done", place |-> 0, i |-> 1, best |-> 0, estimate |-> 0,
     smooth |-> r.smooth, result |-> result]

\* An answer from distance d reaches the server.
Counted(u, d) == IF d <= radius THEN signed \cup {u} ELSE signed

\* radar_distance: an answer of u from the distance d arrives and is measured,
Answer(u, d) == signed' = Counted(u, d)

\* or, sent from one of the distances D, it fails on its way or coming back.
NoAnswer(u, D, fail) ==
    /\ signed' \in {signed} \cup {Counted(u, d) : d \in D}
    /\ Goto(u, [fail EXCEPT !.smooth = FALSE])
    /\ UNCHANGED location

Near(d) == {e \in Distance : e + 1 >= d /\ d + 1 >= e}

Far(spot) == IF spot \in Place THEN dist[spot] ELSE spot - Places

\* radar_inner: an answer from one of the distances D, for the spot it belongs to.
\* Up to 300 m it is a success, and the spot is remembered below 100 m.
RadarFrom(u, spot, D, fail) ==
    \/ NoAnswer(u, D, fail)
    \/ \E d \in D :
          /\ Answer(u, d)
          /\ Goto(u, IF d = 4 THEN fail ELSE Returned(req[u], "success"))
          /\ location' = IF d = 1 THEN spot ELSE location

\* With the random offset.
RadarInner(u, spot, fail) == RadarFrom(u, spot, Near(Far(spot)), fail)

-----------------------------------------------------------------------------
\* radar_cache looks whether a place, or an estimated point, has worked for somebody.
LookCache(u) ==
    /\ At(u, "start")
    /\ Goto(u, IF location # 0 THEN [req[u] EXCEPT !.at = "cache", !.place = location]
               ELSE [req[u] EXCEPT !.at = "timetable"])
    /\ UNCHANGED <<scene, location, signed, rechecked>>

TryCache(u) ==
    /\ At(u, "cache")
    /\ RadarInner(u, req[u].place, [req[u] EXCEPT !.at = "timetable", !.place = 0])
    /\ UNCHANGED <<scene, rechecked>>

\* radar_timetable: where the lesson of the most similar name is held.
TryTimetable(u) ==
    LET next == [req[u] EXCEPT !.at = "probe", !.i = 1]
    IN  /\ At(u, "timetable")
        /\ IF timetable = 0 THEN Goto(u, next) /\ UNCHANGED <<signed, location>>
           ELSE RadarInner(u, timetable, next)
        /\ UNCHANGED <<scene, rechecked>>

\* triple_estimate: the first places are measured; the circles may not meet, or
\* there are too few places.
Probe(u) ==
    LET none == [req[u] EXCEPT !.at = "measure", !.i = 1]
    IN  /\ At(u, "probe")
        /\ IF Places < PROBES THEN Goto(u, none) /\ UNCHANGED <<signed, location>>
           ELSE \/ NoAnswer(u, {dist[req[u].i]}, none)
                \/ /\ Answer(u, dist[req[u].i])
                   /\ UNCHANGED location
                   /\ IF req[u].i < PROBES THEN Goto(u, [req[u] EXCEPT !.i = @ + 1])
                      ELSE \E e \in 0..4 :
                         Goto(u, [none EXCEPT !.at = IF e = 0 THEN "measure" ELSE "snap",
                                              !.estimate = e])
        /\ UNCHANGED <<scene, rechecked>>

\* location_fix_triple: a known place within 100 m of the estimate is measured,
\* and must be within 100 m of the roll call.
Snap(u) ==
    LET next == [req[u] EXCEPT !.at = "measure"]
        Known == {p \in Place : dist[p] \in Near(req[u].estimate)}
    IN  /\ At(u, "snap")
        /\ \/ Goto(u, next) /\ UNCHANGED <<signed, location>>
           \/ \E p \in Known :
                 \/ NoAnswer(u, {dist[p]}, next)
                 \/ /\ Answer(u, dist[p])
                    /\ UNCHANGED location
                    /\ Goto(u, IF dist[p] = 1 THEN [next EXCEPT !.at = "triple", !.place = p]
                               ELSE next)
        /\ UNCHANGED <<scene, rechecked>>

TryTriple(u) ==
    /\ At(u, "triple")
    /\ RadarInner(u, req[u].place, [req[u] EXCEPT !.at = "measure", !.place = 0])
    /\ UNCHANGED <<scene, rechecked>>

\* location_retry: one place after the other until one is below 100 m; the best
\* of them is good enough below 200 m.
Better(p, best) == IF best = 0 THEN p ELSE IF dist[p] < dist[best] THEN p ELSE best
Measure(u) ==
    LET stop == [req[u] EXCEPT !.at = "check", !.i = 1, !.best = 0]
        d == dist[req[u].i]
        best == Better(req[u].i, req[u].best)
    IN  /\ At(u, "measure")
        /\ \/ NoAnswer(u, {d}, stop)
           \/ /\ Answer(u, d)
              /\ location' = IF d = 1 THEN best ELSE location
              /\ Goto(u, IF d # 1 /\ req[u].i < Places
                         THEN [req[u] EXCEPT !.i = @ + 1, !.best = best]
                         ELSE IF dist[best] <= 2 THEN [stop EXCEPT !.at = "retry", !.place = best]
                         ELSE stop)
        /\ UNCHANGED <<scene, rechecked>>

TryRetry(u) ==
    /\ At(u, "retry")
    /\ RadarInner(u, req[u].place, [req[u] EXCEPT !.at = "check", !.place = 0])
    /\ UNCHANGED <<scene, rechecked>>

Fail(r) == [Returned(r, "failed") EXCEPT !.estimate = r.estimate]
Fallback(r) == IF r.estimate # 0 THEN [r EXCEPT !.at = "unknown"] ELSE Fail(r)

\* Faulty variant of Check; no specification uses it: no last look is taken.
Check_Unlooked(u) ==
    /\ At(u, "check")
    /\ Goto(u, Fallback(req[u]))
    /\ UNCHANGED <<scene, location, signed, rechecked>>

\* The last look at the server: an earlier answer may have counted.
Check(u) ==
    /\ At(u, "check")
    /\ \/ /\ Goto(u, IF u \in signed THEN Returned(req[u], "already")
                     ELSE Fallback(req[u]))
          /\ rechecked' = IF u \in signed THEN rechecked ELSE rechecked \cup {u}
       \/ /\ Goto(u, Fallback([req[u] EXCEPT !.smooth = FALSE]))
          /\ UNCHANGED rechecked
       \/ /\ u \in signed
          /\ Goto(u, Fail([req[u] EXCEPT !.smooth = FALSE]))
          /\ UNCHANGED rechecked
    /\ UNCHANGED <<scene, location, signed>>

\* radar_triple_unknown: the estimated point itself, without an offset.
TryUnknown(u) ==
    LET e == req[u].estimate
    IN  /\ At(u, "unknown")
        /\ RadarFrom(u, Places + e, {e}, Fail(req[u]))
        /\ UNCHANGED <<scene, rechecked>>

Next == \E u \in User :
    \/ LookCache(u) \/ TryCache(u) \/ TryTimetable(u) \/ Probe(u) \/ Snap(u)
    \/ TryTriple(u) \/ Measure(u) \/ TryRetry(u) \/ Check(u) \/ TryUnknown(u)

Spec == Init /\ [][Next]_vars

-----------------------------------------------------------------------------
(* "避免误报失败" (auto_sign_request.rs:415): a user is told of a failure    *)
(* although the server has him down only if a request to the server failed *)
(* or the very last answer, after the look at the server, was too far for  *)
(* the client and near enough for the server.                              *)
FailureIsReal ==
    \A u \in User : req[u].result = "failed" /\ u \in signed =>
        \/ ~req[u].smooth
        \/ u \in rechecked /\ req[u].estimate = 4 /\ radius = 4

(* What is remembered for the class mates, a place or an estimated point,  *)
(* is at most one offset above 100 m from the roll call, and nobody is     *)
(* sent there from a worse measurement: a wrong one in SIGN_LOCATION_DATA  *)
(* sends every later answer of the course astray.                          *)
CacheIsClose ==
    /\ location # 0 => Far(location) <= 2
    /\ \A u \in User : At(u, "cache") => Far(req[u].place) <= 2
=============================================================================
