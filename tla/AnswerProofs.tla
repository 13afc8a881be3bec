---------------------------- MODULE AnswerProofs ----------------------------
(***************************************************************************)
(* Invariants of what a user is told and of the sessions he has (MCShared: *)
(* AnswersAreHonest, SessionsAreWhatTheySay), part by part: the radar roll *)
(* call (RadarSign), the QR code and its pushes (QrPush), the grade page   *)
(* (GpaQuery), the list of semesters (SemesterChoice), the VPN             *)
(* (SecureLink), one login (SchoolLogin) and the sessions of users         *)
(* (LoginSession).  Each part has an inductive invariant, a lemma for its  *)
(* initial states and one for every action; SharedProofs puts the parts    *)
(* together.                                                               *)
(***************************************************************************)
EXTENDS MCShared, Sequences, FiniteSetTheorems, WellFoundedInduction, TLAPS


-----------------------------------------------------------------------------
\* A set of numbers has a least one.
LEMMA HasLeast ==
  ASSUME NEW T \in SUBSET Nat, T # {}
  PROVE  \E x \in T : \A y \in T : x <= y
<1>1. PICK x \in T : \A y \in T : <<y, x>> \notin OpToRel(<, Nat)
  BY Zenon, NatLessThanWellFounded, WFMin
<1>2. \A y \in T : ~(y < x)
  BY Zenon, <1>1 DEF OpToRel
<1> QED BY <1>2

-----------------------------------------------------------------------------
(* The answers to a radar roll call (RadarSign).                           *)

Calls == [at : Radar!Stage, place : Radar!Spot, i : Radar!Place, best : Radar!Place \cup {0},
          estimate : 0..4, smooth : BOOLEAN, result : Radar!Result \cup {"none"}]

\* A place or an estimated point is at most one offset above 100 m away.
Close(d, s) == (IF s \in Radar!Place THEN d[s] ELSE s - Places) <= 2

\* Places are spots; what is no place is an estimated point, or none.
LEMMA SpotTypes ==
  /\ 0 \in Radar!Spot /\ 0 \notin Radar!Place /\ 1 \in Radar!Place
  /\ Radar!Place \cup {0} \subseteq Radar!Spot
  /\ \A e \in 0..4 : Places + e \in Radar!Spot /\ (e # 0 => Places + e \notin Radar!Place)
  /\ \A s \in Radar!Spot : s # 0 /\ s \notin Radar!Place => s - Places \in 1..4
BY SharedAssumption DEF Radar!Spot, Radar!Place

\* A call that tries the remembered place has a close one; one that goes on to
\* the estimate has looked at the server; one that failed has returned.
Sound(d, range, present, looked, u, r) ==
  /\ r.at = "cache" => r.place # 0 /\ Close(d, r.place)
  /\ r.at = "unknown" /\ r.smooth => u \in looked /\ u \notin present
  /\ r.result = "failed" => r.at = "done"
  /\ r.result = "failed" /\ r.smooth /\ u \in present => u \in looked /\ r.estimate = 4 /\ range = 4

RadarInv ==
  /\ Radar!TypeOK
  /\ location # 0 => Close(dist, location)
  /\ \A u \in User : Sound(dist, radius, signed, rechecked, u, req[u])

\* A call of which there is nothing to say.
Ordinary(b) == b \notin {"cache", "unknown"}
Unfailed(r) == r.result # "failed"
Plain(r) == r \in Calls /\ Ordinary(r.at) /\ Unfailed(r)

\* What the type invariant says of each variable of the radar sign-in.
LEMMA RadarTypes ==
  ASSUME Radar!TypeOK
  PROVE  /\ dist \in [Radar!Place -> 1..4] /\ radius \in Radii /\ radius \in 1..4
         /\ timetable \in Radar!Place \cup {0} /\ location \in Radar!Spot
         /\ signed \subseteq User /\ rechecked \subseteq User /\ req \in [User -> Calls]
BY SharedAssumption DEF Radar!TypeOK, Radar!Distance, Calls

\* The type invariant is put together from the types of the variables.
LEMMA RadarWhole ==
  ASSUME dist' \in [Radar!Place -> 1..4], radius' \in Radii,
         timetable' \in Radar!Place \cup {0}, location' \in Radar!Spot,
         signed' \subseteq User, rechecked' \subseteq User, req' \in [User -> Calls]
  PROVE  Radar!TypeOK'
BY DEF Radar!TypeOK, Radar!Distance, Calls

\* A call that moves to another stage, with other places, stays one with nothing to say of it.
LEMMA RadarSet ==
  ASSUME NEW r \in Calls, Unfailed(r), NEW b \in Radar!Stage, Ordinary(b),
         NEW n \in Radar!Spot, NEW k \in Radar!Place, NEW e \in 0..4
  PROVE  /\ Plain([r EXCEPT !.at = b])
         /\ Plain([r EXCEPT !.at = b, !.place = n])
         /\ Plain([r EXCEPT !.at = b, !.i = k])
         /\ Plain([r EXCEPT !.at = b, !.estimate = e])
<1>1. Plain([r EXCEPT !.at = b])
  BY DEF Calls, Plain, Unfailed
<1>2. Plain([r EXCEPT !.at = b, !.place = n])
  BY Zenon DEF Calls, Plain, Unfailed
<1>3. Plain([r EXCEPT !.at = b, !.i = k])
  BY Zenon DEF Calls, Plain, Unfailed
<1>4. Plain([r EXCEPT !.at = b, !.estimate = e])
  BY Zenon DEF Calls, Plain, Unfailed
<1> QED BY <1>1, <1>2, <1>3, <1>4

\* So does a call that only changes its best place, or its index.
LEMMA RadarMore ==
  ASSUME NEW r, Plain(r), NEW n \in Radar!Place \cup {0}, NEW k \in Radar!Place
  PROVE  /\ Plain([r EXCEPT !.best = n])
         /\ Plain([r EXCEPT !.i = k])
         /\ Plain([r EXCEPT !.i = k, !.best = n])
         /\ Plain([r EXCEPT !.smooth = FALSE])
<1>1. Plain([r EXCEPT !.best = n])
  BY DEF Calls, Plain, Unfailed
<1>2. Plain([r EXCEPT !.i = k])
  BY DEF Calls, Plain, Unfailed
<1>3. Plain([r EXCEPT !.i = k, !.best = n])
  BY Zenon DEF Calls, Plain, Unfailed
<1>4. Plain([r EXCEPT !.smooth = FALSE])
  BY Zenon DEF Calls, Plain, Unfailed
<1> QED BY <1>1, <1>2, <1>3, <1>4

\* A call that has returned.
LEMMA RadarReturned ==
  ASSUME NEW r \in Calls, NEW w \in Radar!Result
  PROVE  \E q \in Calls : /\ q = Radar!Returned(r, w) /\ q.at = "done" /\ q.result = w
                          /\ q.smooth = r.smooth
<1>1. ASSUME NEW d \in Radar!Stage, d = "done"
      PROVE  \E q \in Calls : /\ q = Radar!Returned(r, w) /\ q.at = d /\ q.result = w
                              /\ q.smooth = r.smooth
  <2>1. Radar!Returned(r, w) = [at |-> d, place |-> 0, i |-> 1, best |-> 0, estimate |-> 0,
                                smooth |-> r.smooth, result |-> w]
    BY <1>1 DEF Radar!Returned
  <2>2. 1 \in Radar!Place /\ 0 \in 0..4 /\ 0 \in Radar!Place \cup {0} /\ 0 \in Radar!Spot
    BY SpotTypes
  <2>3. r.smooth \in BOOLEAN
    BY DEF Calls
  <2>4. \A f \in Radar!Stage, y \in BOOLEAN, z \in Radar!Result :
          LET q == [at |-> f, place |-> 0, i |-> 1, best |-> 0, estimate |-> 0, smooth |-> y, result |-> z]
          IN  q \in Calls /\ q.at = f /\ q.result = z /\ q.smooth = y
    BY <2>2 DEF Calls
  <2> QED BY <2>1, <2>3, <2>4
<1>2. "done" \in Radar!Stage
  BY DEF Radar!Stage
<1> QED BY <1>1, <1>2

\* The scene starts with no call made and no place signed in.
LEMMA RadarInit == Radar!Init => RadarInv
<1> SUFFICES ASSUME Radar!Init PROVE RadarInv
  OBVIOUS
<1>1. /\ dist \in [Radar!Place -> 1..4] /\ radius \in Radii /\ timetable \in {0, 1}
      /\ location = 0 /\ signed = {} /\ rechecked = {} /\ req = [u \in User |-> Radar!Start]
  BY DEF Radar!Init, Radar!Distance
<1>2. Radar!Start \in Calls
  <2>1. 1 \in Radar!Place /\ 0 \in Radar!Spot
    BY SpotTypes
  <2> QED BY <2>1 DEF Radar!Start, Calls, Radar!Stage, Radar!Result
<1>3. Radar!TypeOK
  <2>1. timetable \in Radar!Place \cup {0} /\ location \in Radar!Spot
    BY <1>1, SpotTypes
  <2> QED BY <1>1, <1>2, <2>1 DEF Radar!TypeOK, Radar!Distance, Calls
<1>4. Radar!Start.at = "start" /\ Radar!Start.result = "none"
  BY DEF Radar!Start
<1>5. \A u \in User : Sound(dist, radius, signed, rechecked, u, Radar!Start)
  BY <1>4 DEF Sound
<1> QED BY <1>1, <1>3, <1>5 DEF RadarInv

\* A step of the call of one user.
LEMMA RadarOne ==
  ASSUME RadarInv, NEW u \in User, NEW r \in Calls, req' = [req EXCEPT ![u] = r],
         UNCHANGED <<dist, radius, timetable>>, location' \in Radar!Spot,
         location' # 0 => Close(dist, location'),
         signed' \in {signed, signed \cup {u}}, rechecked' \in {rechecked, rechecked \cup {u}},
         Sound(dist, radius, signed', rechecked', u, r)
  PROVE  RadarInv'
<1>1. Radar!TypeOK'
  <2>1. Radar!TypeOK
    BY DEF RadarInv
  <2> QED BY <2>1, RadarTypes, RadarWhole
<1>2. \A v \in User : Sound(dist, radius, signed, rechecked, v, req[v])'
  <2> SUFFICES ASSUME NEW v \in User PROVE Sound(dist, radius, signed, rechecked, v, req[v])'
    OBVIOUS
  <2>0. req \in [User -> Calls]
    BY RadarTypes DEF RadarInv
  <2>1. CASE v = u
    BY <2>0, <2>1
  <2>2. CASE v # u
    <3>1. Sound(dist, radius, signed, rechecked, v, req[v])
      BY DEF RadarInv
    <3>2. (v \in signed <=> v \in signed') /\ (v \in rechecked <=> v \in rechecked') /\ req'[v] = req[v]
      BY <2>0, <2>2
    <3>3. Sound(dist, radius, signed', rechecked', v, req[v])
      BY <3>1, <3>2 DEF Sound
    <3> QED BY <3>2, <3>3
  <2> QED BY <2>1, <2>2
<1>3. (location # 0 => Close(dist, location))'
  OBVIOUS
<1> QED BY <1>1, <1>2, <1>3 DEF RadarInv

\* A step that leaves the call plain, and the cache empty or close, keeps the invariant.
LEMMA RadarPlain ==
  ASSUME RadarInv, NEW u \in User, NEW r, Plain(r), req' = [req EXCEPT ![u] = r],
         UNCHANGED <<dist, radius, timetable, rechecked>>, location' \in Radar!Spot,
         location' # 0 => Close(dist, location'), signed' \in {signed, signed \cup {u}}
  PROVE  RadarInv'
<1>1. r \in Calls
  BY DEF Plain
<1>2. Sound(dist, radius, signed', rechecked', u, r)
  BY DEF Plain, Ordinary, Unfailed, Sound
<1> QED BY Zenon, <1>1, <1>2, RadarOne

\* A call that is not done is a call, and has not failed.
LEMMA RadarNow ==
  ASSUME RadarInv, NEW u \in User, req[u].at # "done"
  PROVE  req[u] \in Calls /\ Unfailed(req[u]) /\ Radar!TypeOK
<1>1. Radar!TypeOK /\ Sound(dist, radius, signed, rechecked, u, req[u])
  BY DEF RadarInv
<1>2. req[u] \in Calls
  BY <1>1, RadarTypes
<1> QED BY <1>1, <1>2 DEF Sound, Unfailed

\* The branch of a step that gets no answer.
LEMMA RadarNoAnswers ==
  ASSUME RadarInv, NEW u \in User, NEW D, NEW fail, Plain(fail), Radar!NoAnswer(u, D, fail),
         UNCHANGED <<dist, radius, timetable, rechecked>>
  PROVE  RadarInv'
<1>1. req' = [req EXCEPT ![u] = [fail EXCEPT !.smooth = FALSE]] /\ location' = location
      /\ signed' \in {signed, signed \cup {u}}
  BY DEF Radar!NoAnswer, Radar!Goto, Radar!Counted
<1> DEFINE r == [fail EXCEPT !.smooth = FALSE]
<1>2. Plain(r)
  <2>1. 0 \in Radar!Place \cup {0} /\ 1 \in Radar!Place
    BY SharedAssumption DEF Radar!Place
  <2> QED BY Zenon, <2>1, RadarMore
<1>3. req' = [req EXCEPT ![u] = r]
  BY <1>1
<1> HIDE DEF r
<1>4. location' \in Radar!Spot /\ (location' # 0 => Close(dist, location'))
  BY <1>1, RadarTypes DEF RadarInv
<1> QED BY Zenon, <1>1, <1>2, <1>3, <1>4, RadarPlain

\* radar_inner: one sign-in at one place.
LEMMA RadarInners ==
  ASSUME RadarInv, NEW u \in User, req[u].at # "done", NEW place \in Radar!Spot,
         NEW fail, Plain(fail), Radar!RadarInner(u, place, fail),
         UNCHANGED <<dist, radius, timetable, rechecked>>
  PROVE  RadarInv'
<1>0. req[u] \in Calls /\ Radar!TypeOK
  BY RadarNow
<1>1. CASE Radar!NoAnswer(u, Radar!Near(Radar!Far(place)), fail)
  BY <1>1, RadarNoAnswers
<1>2. ASSUME NEW d \in Radar!Near(Radar!Far(place)), Radar!Answer(u, d),
             req' = [req EXCEPT ![u] = IF d = 4 THEN fail ELSE Radar!Returned(req[u], "success")],
             location' = IF d = 1 THEN place ELSE location
      PROVE  RadarInv'
  <2>1. location' \in Radar!Spot /\ (location' # 0 => Close(dist, location'))
    <3>1. CASE d = 1 /\ place # 0
      <4>1. Radar!Far(place) \in 1..4
        BY <1>0, <3>1, RadarTypes, SpotTypes DEF Radar!Far
      <4>2. Radar!Far(place) <= 2
        BY <1>2, <3>1, <4>1 DEF Radar!Near
      <4>3. Close(dist, place)
        BY <4>2 DEF Close, Radar!Far
      <4> QED BY <1>2, <3>1, <4>3
    <3>2. CASE d = 1 /\ place = 0
      BY <1>2, <3>2
    <3>3. CASE d # 1
      BY <1>0, <1>2, <3>3, RadarTypes DEF RadarInv
    <3> QED BY <3>1, <3>2, <3>3
  <2>2. signed' \in {signed, signed \cup {u}}
    BY <1>2 DEF Radar!Answer, Radar!Counted
  <2>3. PICK ok \in Calls : ok = Radar!Returned(req[u], "success") /\ Plain(ok)
    <3>1. ASSUME NEW w \in Radar!Result, w = "success"
          PROVE  \E ok \in Calls : ok = Radar!Returned(req[u], w) /\ Plain(ok)
      <4>1. PICK q \in Calls : q = Radar!Returned(req[u], w) /\ q.at = "done" /\ q.result = w
        BY <1>0, RadarReturned
      <4> QED BY <3>1, <4>1 DEF Plain, Ordinary, Unfailed
    <3>2. "success" \in Radar!Result
      BY DEF Radar!Result
    <3> QED BY <3>1, <3>2
  <2>4. PICK r : r = (IF d = 4 THEN fail ELSE Radar!Returned(req[u], "success"))
    OBVIOUS
  <2>5. Plain(r) /\ req' = [req EXCEPT ![u] = r]
    <3>1. Plain(r)
      BY <2>3, <2>4
    <3> QED BY <1>2, <2>4, <3>1
  <2> QED BY Zenon, <2>1, <2>2, <2>5, RadarPlain
<1> QED BY <1>1, <1>2 DEF Radar!RadarInner, Radar!RadarFrom, Radar!Goto

\* Where the calls go.
LEMMA RadarGoes ==
  ASSUME NEW r \in Calls, Unfailed(r), NEW n \in Radar!Spot, NEW e \in 0..4
  PROVE  /\ Plain([r EXCEPT !.at = "timetable"])
         /\ Plain([r EXCEPT !.at = "timetable", !.place = 0])
         /\ Plain([r EXCEPT !.at = "probe", !.i = 1])
         /\ Plain([r EXCEPT !.at = "measure", !.i = 1])
         /\ Plain([r EXCEPT !.at = "measure"])
         /\ Plain([r EXCEPT !.at = "measure", !.place = 0])
         /\ Plain([r EXCEPT !.at = "triple", !.place = n])
         /\ Plain([r EXCEPT !.at = "check", !.place = 0])
         /\ Plain([r EXCEPT !.at = "check", !.i = 1])
         /\ Plain([r EXCEPT !.at = "retry", !.place = n])
         /\ Plain([r EXCEPT !.at = "measure", !.estimate = e])
         /\ Plain([r EXCEPT !.at = "snap", !.estimate = e])
<1>1. 1 \in Radar!Place /\ 0 \in Radar!Spot
  BY SpotTypes
<1>2. ASSUME NEW b \in Radar!Stage, Ordinary(b)
      PROVE  /\ Plain([r EXCEPT !.at = b]) /\ Plain([r EXCEPT !.at = b, !.place = 0])
             /\ Plain([r EXCEPT !.at = b, !.place = n]) /\ Plain([r EXCEPT !.at = b, !.i = 1])
             /\ Plain([r EXCEPT !.at = b, !.estimate = e])
  BY Zenon, <1>1, <1>2, RadarSet
<1>3. ASSUME NEW b, b \in {"timetable", "probe", "measure", "triple", "check", "retry", "snap"}
      PROVE  b \in Radar!Stage /\ Ordinary(b)
  BY <1>3 DEF Radar!Stage, Ordinary
<1>4. \A b \in {"timetable", "probe", "measure", "triple", "check", "retry", "snap"} :
        /\ Plain([r EXCEPT !.at = b]) /\ Plain([r EXCEPT !.at = b, !.place = 0])
        /\ Plain([r EXCEPT !.at = b, !.place = n]) /\ Plain([r EXCEPT !.at = b, !.i = 1])
        /\ Plain([r EXCEPT !.at = b, !.estimate = e])
  BY Zenon, <1>2, <1>3
<1> QED BY ONLY <1>4

\* LookCache: the cached place is read.
LEMMA RadarLooks ==
  ASSUME RadarInv, NEW u \in User, Radar!LookCache(u)
  PROVE  RadarInv'
<1>1. /\ req[u].at = "start" /\ UNCHANGED <<dist, radius, timetable, location, signed, rechecked>>
  BY DEF Radar!LookCache, Radar!At, Radar!scene
<1>2. req[u] \in Calls /\ Unfailed(req[u]) /\ Radar!TypeOK
  BY <1>1, RadarNow
<1>3. location \in Radar!Spot /\ (location # 0 => Close(dist, location))
  BY <1>2, RadarTypes DEF RadarInv
<1>4. CASE req' = [req EXCEPT ![u] = [req[u] EXCEPT !.at = "timetable"]]
  <2>1. \A n \in Radar!Spot, e \in 0..4 : Plain([req[u] EXCEPT !.at = "timetable"])
    BY Zenon, <1>2, RadarGoes
  <2>2. 0 \in Radar!Spot /\ 0 \in 0..4
    BY SpotTypes
  <2>3. PICK r : r = [req[u] EXCEPT !.at = "timetable"]
    BY Zenon
  <2>4. Plain(r) /\ req' = [req EXCEPT ![u] = r]
    BY <1>4, <2>1, <2>2, <2>3
  <2> QED BY Zenon, <1>1, <1>3, <2>4, RadarPlain
<1>5. CASE location # 0 /\ req' = [req EXCEPT ![u] = [req[u] EXCEPT !.at = "cache", !.place = location]]
  <2>1. ASSUME NEW d \in Radar!Stage, d = "cache"
        PROVE  \E r \in Calls : /\ r = [req[u] EXCEPT !.at = d, !.place = location]
                                /\ r.at = "cache" /\ r.place = location /\ r.result = req[u].result
    <3>1. [req[u] EXCEPT !.at = d, !.place = location] \in Calls
      BY Zenon, <1>2, <1>3 DEF Calls
    <3>2. /\ [req[u] EXCEPT !.at = d, !.place = location].at = d
          /\ [req[u] EXCEPT !.at = d, !.place = location].place = location
          /\ [req[u] EXCEPT !.at = d, !.place = location].result = req[u].result
      BY <1>2 DEF Calls
    <3> QED BY Zenon, <2>1, <3>1, <3>2
  <2>2. "cache" \in Radar!Stage
    BY DEF Radar!Stage
  <2>3. PICK r \in Calls : /\ r = [req[u] EXCEPT !.at = "cache", !.place = location]
                           /\ r.at = "cache" /\ r.place = location /\ r.result = req[u].result
    BY Zenon, <2>1, <2>2
  <2>4. r.result # "failed"
    BY <1>2, <2>3 DEF Unfailed
  <2>5. r.place # 0 /\ Close(dist, r.place)
    <3>1. r.place = location
      BY <2>3
    <3> QED BY <1>3, <1>5, <3>1
  <2>6. Sound(dist, radius, signed', rechecked', u, r)
    BY <2>3, <2>4, <2>5 DEF Sound
  <2>7. req' = [req EXCEPT ![u] = r]
    BY <1>5, <2>3
  <2> QED BY Zenon, <1>1, <1>3, <2>6, <2>7, RadarOne
<1> QED BY Zenon, <1>4, <1>5 DEF Radar!LookCache, Radar!Goto

\* The four steps that try a place: cached, of the timetable, triangulated, retried.
LEMMA RadarTries ==
  ASSUME RadarInv, NEW u \in User,
         Radar!TryCache(u) \/ Radar!TryTimetable(u) \/ Radar!TryTriple(u) \/ Radar!TryRetry(u)
  PROVE  RadarInv'
<1>1. /\ req[u].at # "done" /\ UNCHANGED <<dist, radius, timetable, rechecked>>
  BY DEF Radar!TryCache, Radar!TryTimetable, Radar!TryTriple, Radar!TryRetry, Radar!At, Radar!scene
<1>2. req[u] \in Calls /\ Unfailed(req[u]) /\ Radar!TypeOK
  BY <1>1, RadarNow
<1>3. /\ location \in Radar!Spot /\ (location # 0 => Close(dist, location))
      /\ timetable \in Radar!Place \cup {0} /\ req[u].place \in Radar!Spot
  <2>1. req[u].place \in Radar!Spot
    BY <1>2 DEF Calls
  <2> QED BY <1>2, <2>1, RadarTypes DEF RadarInv
<1>4. \A n \in Radar!Spot, e \in 0..4 :
        /\ Plain([req[u] EXCEPT !.at = "timetable", !.place = 0])
        /\ Plain([req[u] EXCEPT !.at = "probe", !.i = 1])
        /\ Plain([req[u] EXCEPT !.at = "measure", !.place = 0])
        /\ Plain([req[u] EXCEPT !.at = "check", !.place = 0])
  BY Zenon, <1>2, RadarGoes
<1>5. 0 \in Radar!Spot /\ 0 \in 0..4
  BY SpotTypes
<1>6. ASSUME NEW fail, Plain(fail), NEW place \in Radar!Spot, Radar!RadarInner(u, place, fail)
      PROVE  RadarInv'
  BY <1>1, <1>6, RadarInners
<1>7. CASE Radar!TryCache(u)
  <2>1. Plain([req[u] EXCEPT !.at = "timetable", !.place = 0])
    BY <1>4, <1>5
  <2>2. Radar!RadarInner(u, req[u].place, [req[u] EXCEPT !.at = "timetable", !.place = 0])
    BY <1>7 DEF Radar!TryCache
  <2>3. PICK fail : fail = [req[u] EXCEPT !.at = "timetable", !.place = 0]
    OBVIOUS
  <2>4. Plain(fail) /\ Radar!RadarInner(u, req[u].place, fail)
    BY <2>1, <2>2, <2>3
  <2> QED BY <1>3, <1>6, <2>4
<1>8. CASE Radar!TryTimetable(u)
  <2>1. Plain([req[u] EXCEPT !.at = "probe", !.i = 1])
    BY <1>4, <1>5
  <2>3. PICK next : next = [req[u] EXCEPT !.at = "probe", !.i = 1]
    OBVIOUS
  <2>4. \/ Radar!Goto(u, next) /\ UNCHANGED <<signed, location>>
        \/ Radar!RadarInner(u, timetable, next)
    BY <1>8, <2>3 DEF Radar!TryTimetable
  <2>5. Plain(next)
    BY <2>1, <2>3
  <2>6. CASE Radar!Goto(u, next) /\ UNCHANGED <<signed, location>>
    BY Zenon, <1>1, <1>3, <2>5, <2>6, RadarPlain DEF Radar!Goto
  <2>7. timetable \in Radar!Spot
    BY <1>3, SpotTypes
  <2> QED BY <1>6, <2>4, <2>5, <2>6, <2>7
<1>9. CASE Radar!TryTriple(u)
  <2>1. Plain([req[u] EXCEPT !.at = "measure", !.place = 0])
    BY <1>4, <1>5
  <2>2. Radar!RadarInner(u, req[u].place, [req[u] EXCEPT !.at = "measure", !.place = 0])
    BY <1>9 DEF Radar!TryTriple
  <2>3. PICK fail : fail = [req[u] EXCEPT !.at = "measure", !.place = 0]
    OBVIOUS
  <2>4. Plain(fail) /\ Radar!RadarInner(u, req[u].place, fail)
    BY <2>1, <2>2, <2>3
  <2> QED BY <1>3, <1>6, <2>4
<1>10. CASE Radar!TryRetry(u)
  <2>1. Plain([req[u] EXCEPT !.at = "check", !.place = 0])
    BY <1>4, <1>5
  <2>2. Radar!RadarInner(u, req[u].place, [req[u] EXCEPT !.at = "check", !.place = 0])
    BY <1>10 DEF Radar!TryRetry
  <2>3. PICK fail : fail = [req[u] EXCEPT !.at = "check", !.place = 0]
    OBVIOUS
  <2>4. Plain(fail) /\ Radar!RadarInner(u, req[u].place, fail)
    BY <2>1, <2>2, <2>3
  <2> QED BY <1>3, <1>6, <2>4
<1> QED BY <1>7, <1>8, <1>9, <1>10

\* What every step of a call may rely on, and where it may go.
LEMMA RadarBefore ==
  ASSUME RadarInv, NEW u \in User, req[u].at # "done"
  PROVE  /\ location \in Radar!Spot /\ (location # 0 => Close(dist, location))
         /\ req[u].place \in Radar!Spot /\ req[u].i \in Radar!Place
         /\ req[u].best \in Radar!Place \cup {0} /\ req[u].estimate \in 0..4
         /\ dist \in [Radar!Place -> 1..4]
         /\ signed' = signed => signed' \in {signed, signed \cup {u}}
         /\ \A d : Radar!Answer(u, d) => signed' \in {signed, signed \cup {u}}
<1>1. req[u] \in Calls /\ Radar!TypeOK
  BY RadarNow
<1>2. /\ req[u].place \in Radar!Spot /\ req[u].i \in Radar!Place
      /\ req[u].best \in Radar!Place \cup {0} /\ req[u].estimate \in 0..4
  BY <1>1 DEF Calls
<1>3. \A d : Radar!Answer(u, d) => signed' \in {signed, signed \cup {u}}
  BY DEF Radar!Answer, Radar!Counted
<1> QED BY <1>1, <1>2, <1>3, RadarTypes DEF RadarInv

\* Probe: the first places are measured, and an estimate may come of it.
LEMMA RadarProbes ==
  ASSUME RadarInv, NEW u \in User, Radar!Probe(u)
  PROVE  RadarInv'
<1>1. /\ req[u].at = "probe" /\ UNCHANGED <<dist, radius, timetable, rechecked>>
  BY DEF Radar!Probe, Radar!At, Radar!scene
<1>2. req[u] \in Calls /\ Unfailed(req[u]) /\ Radar!TypeOK
  BY <1>1, RadarNow
<1>3. /\ location \in Radar!Spot /\ (location # 0 => Close(dist, location))
      /\ req[u].i \in Radar!Place
      /\ \A d : Radar!Answer(u, d) => signed' \in {signed, signed \cup {u}}
  BY <1>1, RadarBefore
<1>4. 0 \in Radar!Spot /\ 0 \in Radar!Place \cup {0} /\ 0 \in 0..4
  BY SpotTypes
<1>5. PICK none : none = [req[u] EXCEPT !.at = "measure", !.i = 1]
  OBVIOUS
<1>6. Plain(none)
  <2>1. \A n \in Radar!Spot, e \in 0..4 : Plain([req[u] EXCEPT !.at = "measure", !.i = 1])
    BY Zenon, <1>2, RadarGoes
  <2> QED BY <1>4, <1>5, <2>1
<1>7. \/ req' = [req EXCEPT ![u] = none] /\ UNCHANGED <<signed, location>>
      \/ Radar!NoAnswer(u, {dist[req[u].i]}, none)
      \/ /\ Radar!Answer(u, dist[req[u].i]) /\ UNCHANGED location
         /\ Places >= PROBES
         /\ \/ req[u].i < PROBES /\ req' = [req EXCEPT ![u] = [req[u] EXCEPT !.i = @ + 1]]
            \/ \E e \in 0..4 : \/ req' = [req EXCEPT ![u] = [none EXCEPT !.at = "measure", !.estimate = e]]
                               \/ req' = [req EXCEPT ![u] = [none EXCEPT !.at = "snap", !.estimate = e]]
  <2>1. ~(Places < PROBES) => Places >= PROBES
    BY SharedAssumption
  <2> QED BY <1>5, <2>1 DEF Radar!Probe, Radar!Goto
<1>8. CASE req' = [req EXCEPT ![u] = none] /\ UNCHANGED <<signed, location>>
  BY Zenon, <1>1, <1>3, <1>6, <1>8, RadarPlain
<1>9. CASE Radar!NoAnswer(u, {dist[req[u].i]}, none)
  BY <1>1, <1>6, <1>9, RadarNoAnswers
<1>10. CASE /\ Radar!Answer(u, dist[req[u].i]) /\ UNCHANGED location /\ Places >= PROBES
            /\ req[u].i < PROBES /\ req' = [req EXCEPT ![u] = [req[u] EXCEPT !.i = @ + 1]]
  <2>1. req[u].i + 1 \in Radar!Place
    BY <1>3, <1>10, SharedAssumption DEF Radar!Place
  <2>2. Plain(req[u])
    BY <1>1, <1>2 DEF Plain, Ordinary
  <2>3. Plain([req[u] EXCEPT !.i = req[u].i + 1])
    BY Zenon, <1>4, <2>1, <2>2, RadarMore
  <2>4. PICK r : r = [req[u] EXCEPT !.i = req[u].i + 1]
    BY Zenon
  <2>5. Plain(r) /\ req' = [req EXCEPT ![u] = r]
    <3>1. [req[u] EXCEPT !.i = @ + 1] = [req[u] EXCEPT !.i = req[u].i + 1]
      BY <1>2 DEF Calls
    <3> QED BY <1>10, <2>3, <2>4, <3>1
  <2> QED BY Zenon, <1>1, <1>3, <1>10, <2>5, RadarPlain
<1>11. ASSUME Radar!Answer(u, dist[req[u].i]), UNCHANGED location, NEW e \in 0..4,
              \/ req' = [req EXCEPT ![u] = [none EXCEPT !.at = "measure", !.estimate = e]]
              \/ req' = [req EXCEPT ![u] = [none EXCEPT !.at = "snap", !.estimate = e]]
       PROVE  RadarInv'
  <2>1. none \in Calls /\ Unfailed(none)
    BY <1>6 DEF Plain
  <2>2. \A n \in Radar!Spot : /\ Plain([none EXCEPT !.at = "measure", !.estimate = e])
                                        /\ Plain([none EXCEPT !.at = "snap", !.estimate = e])
    BY Zenon, <2>1, RadarGoes
  <2>3. \E r : Plain(r) /\ req' = [req EXCEPT ![u] = r]
    BY <1>4, <1>11, <2>2
  <2> QED BY Zenon, <1>1, <1>3, <1>11, <2>3, RadarPlain
<1> QED BY <1>7, <1>8, <1>9, <1>10, <1>11

\* Snap: a known place near the estimate is measured.
LEMMA RadarSnaps ==
  ASSUME RadarInv, NEW u \in User, Radar!Snap(u)
  PROVE  RadarInv'
<1>1. /\ req[u].at = "snap" /\ UNCHANGED <<dist, radius, timetable, rechecked>>
  BY Zenon DEF Radar!Snap, Radar!At, Radar!scene
<1>2. req[u] \in Calls /\ Unfailed(req[u]) /\ Radar!TypeOK
  BY <1>1, RadarNow
<1>3. /\ location \in Radar!Spot /\ (location # 0 => Close(dist, location))
      /\ \A d : Radar!Answer(u, d) => signed' \in {signed, signed \cup {u}}
  BY <1>1, RadarBefore
<1>4. 0 \in Radar!Spot /\ 0 \in Radar!Place \cup {0} /\ 0 \in 0..4
  BY SpotTypes
<1>5. PICK next : next = [req[u] EXCEPT !.at = "measure"]
  BY Zenon
<1>6. Plain(next)
  <2>1. \A n \in Radar!Spot, e \in 0..4 : Plain([req[u] EXCEPT !.at = "measure"])
    BY Zenon, <1>2, RadarGoes
  <2> QED BY <1>4, <1>5, <2>1
<1>7. \/ req' = [req EXCEPT ![u] = next] /\ UNCHANGED <<signed, location>>
      \/ \E p \in Radar!Place :
           \/ Radar!NoAnswer(u, {dist[p]}, next)
           \/ /\ Radar!Answer(u, dist[p]) /\ UNCHANGED location
              /\ \/ req' = [req EXCEPT ![u] = next]
                 \/ req' = [req EXCEPT ![u] = [next EXCEPT !.at = "triple", !.place = p]]
  BY Zenon, <1>5 DEF Radar!Snap, Radar!Goto
<1>8. CASE req' = [req EXCEPT ![u] = next] /\ UNCHANGED <<signed, location>>
  BY Zenon, <1>1, <1>3, <1>6, <1>8, RadarPlain
<1>9. ASSUME NEW p \in Radar!Place, Radar!NoAnswer(u, {dist[p]}, next) PROVE RadarInv'
  BY <1>1, <1>6, <1>9, RadarNoAnswers
<1>10. ASSUME NEW p \in Radar!Place, Radar!Answer(u, dist[p]), UNCHANGED location,
              \/ req' = [req EXCEPT ![u] = next]
              \/ req' = [req EXCEPT ![u] = [next EXCEPT !.at = "triple", !.place = p]]
       PROVE  RadarInv'
  <2>1. next \in Calls /\ Unfailed(next)
    BY <1>6 DEF Plain
  <2>a. p \in Radar!Spot
    BY SpotTypes
  <2>2. \A e \in 0..4 : Plain([next EXCEPT !.at = "triple", !.place = p])
    BY Zenon, <2>1, <2>a, RadarGoes
  <2>3. \E r : Plain(r) /\ req' = [req EXCEPT ![u] = r]
    BY <1>4, <1>6, <1>10, <2>2
  <2> QED BY Zenon, <1>1, <1>3, <1>10, <2>3, RadarPlain
<1> QED BY Zenon, <1>7, <1>8, <1>9, <1>10

\* Measure: one place after the other, until one is close or the best is taken.
LEMMA RadarMeasures ==
  ASSUME RadarInv, NEW u \in User, Radar!Measure(u)
  PROVE  RadarInv'
<1>1. /\ req[u].at = "measure" /\ UNCHANGED <<dist, radius, timetable, rechecked>>
  BY DEF Radar!Measure, Radar!At, Radar!scene
<1>2. req[u] \in Calls /\ Unfailed(req[u]) /\ Radar!TypeOK
  BY <1>1, RadarNow
<1>3. /\ location \in Radar!Spot /\ (location # 0 => Close(dist, location))
      /\ req[u].i \in Radar!Place /\ req[u].best \in Radar!Place \cup {0} /\ dist \in [Radar!Place -> 1..4]
      /\ \A d : Radar!Answer(u, d) => signed' \in {signed, signed \cup {u}}
  BY <1>1, RadarBefore
<1>4. 0 \in Radar!Spot /\ 0 \in Radar!Place \cup {0} /\ 0 \in 0..4
  BY SpotTypes
<1>5. PICK stop : stop = [req[u] EXCEPT !.at = "check", !.i = 1, !.best = 0]
  OBVIOUS
<1>6. Plain(stop)
  <2>1. \A n \in Radar!Spot, e \in 0..4 : Plain([req[u] EXCEPT !.at = "check", !.i = 1])
    BY Zenon, <1>2, RadarGoes
  <2>2. PICK q : q = [req[u] EXCEPT !.at = "check", !.i = 1]
    OBVIOUS
  <2>3. Plain(q)
    BY <1>4, <2>1, <2>2
  <2>4. stop = [q EXCEPT !.best = 0]
    BY <1>5, <2>2
  <2>5. Plain([q EXCEPT !.best = 0])
    BY Zenon, <1>3, <1>4, <2>3, RadarMore
  <2> QED BY <2>4, <2>5
<1>7. PICK d : d = dist[req[u].i]
  OBVIOUS
<1>8. PICK best : best = Radar!Better(req[u].i, req[u].best)
  OBVIOUS
<1>9. best \in Radar!Place /\ (d = 1 => dist[best] <= 2)
  <2>1. d \in 1..4
    BY <1>3, <1>7
  <2>2. CASE best = req[u].i
    BY <1>3, <1>7, <2>2
  <2>3. CASE best = req[u].best /\ req[u].best # 0 /\ ~(dist[req[u].i] < dist[req[u].best])
    <3>1. dist[best] \in 1..4 /\ best \in Radar!Place
      BY <1>3, <2>3
    <3>2. d = 1 => dist[best] <= 2
      BY <1>7, <2>1, <2>3, <3>1
    <3> QED BY <3>1, <3>2
  <2> QED BY <1>8, <2>2, <2>3 DEF Radar!Better
<1>10. \/ Radar!NoAnswer(u, {d}, stop)
       \/ /\ Radar!Answer(u, d) /\ location' = IF d = 1 THEN best ELSE location
          /\ \/ req[u].i < Places /\ req' = [req EXCEPT ![u] = [req[u] EXCEPT !.i = @ + 1, !.best = best]]
             \/ req' = [req EXCEPT ![u] = [stop EXCEPT !.at = "retry", !.place = best]]
             \/ req' = [req EXCEPT ![u] = stop]
  BY <1>5, <1>7, <1>8 DEF Radar!Measure, Radar!Goto
<1>11. CASE Radar!NoAnswer(u, {d}, stop)
  BY <1>1, <1>6, <1>11, RadarNoAnswers
<1>12. ASSUME Radar!Answer(u, d), location' = IF d = 1 THEN best ELSE location,
              NEW r, Plain(r), req' = [req EXCEPT ![u] = r]
       PROVE  RadarInv'
  <2>a. best \in Radar!Spot /\ (d = 1 => Close(dist, best))
    BY <1>9, SpotTypes DEF Close
  <2>1. location' \in Radar!Spot /\ (location' # 0 => Close(dist, location'))
    BY <1>3, <1>12, <2>a
  <2>2. signed' \in {signed, signed \cup {u}}
    BY <1>3, <1>12
  <2> QED BY Zenon, <1>1, <1>12, <2>1, <2>2, RadarPlain
<1>13. ASSUME req[u].i < Places
       PROVE  Plain([req[u] EXCEPT !.i = @ + 1, !.best = best])
  <2>1. req[u].i + 1 \in Radar!Place
    BY <1>3, <1>13, SharedAssumption DEF Radar!Place
  <2>2. Plain(req[u])
    BY <1>1, <1>2 DEF Plain, Ordinary
  <2>3. Plain([req[u] EXCEPT !.i = req[u].i + 1, !.best = best])
    <3>1. best \in Radar!Place \cup {0}
      BY <1>9
    <3> QED BY Zenon, <2>1, <2>2, <3>1, RadarMore
  <2> QED BY <1>2, <2>3 DEF Calls
<1>14. Plain([stop EXCEPT !.at = "retry", !.place = best])
  <2>1. stop \in Calls /\ Unfailed(stop) /\ best \in Radar!Spot
    BY <1>6, <1>9, SpotTypes DEF Plain
  <2>2. \A e \in 0..4 : Plain([stop EXCEPT !.at = "retry", !.place = best])
    BY Zenon, <2>1, RadarGoes
  <2> QED BY <1>4, <2>2
<1> QED BY <1>6, <1>10, <1>11, <1>12, <1>13, <1>14

\* A call that fails.
LEMMA RadarFails ==
  ASSUME NEW r \in Calls
  PROVE  \E q \in Calls : /\ q = Radar!Fail(r) /\ q.at = "done" /\ q.result = "failed"
                          /\ q.smooth = r.smooth /\ q.estimate = r.estimate
<1>1. PICK p \in Calls : p = Radar!Returned(r, "failed") /\ p.at = "done" /\ p.result = "failed" /\ p.smooth = r.smooth
  <2>1. "failed" \in Radar!Result
    BY DEF Radar!Result
  <2>2. ASSUME NEW w \in Radar!Result, w = "failed"
        PROVE  \E p \in Calls : p = Radar!Returned(r, w) /\ p.at = "done" /\ p.result = w /\ p.smooth = r.smooth
    BY RadarReturned
  <2> QED BY <2>1, <2>2
<1>2. r.estimate \in 0..4
  BY DEF Calls
<1>3. PICK q : q = [p EXCEPT !.estimate = r.estimate]
  BY Zenon
<1>4. q \in Calls /\ q.at = p.at /\ q.result = p.result /\ q.smooth = p.smooth /\ q.estimate = r.estimate
  BY <1>2, <1>3 DEF Calls
<1>5. q = Radar!Fail(r)
  BY <1>1, <1>3 DEF Radar!Fail
<1> QED BY <1>1, <1>4, <1>5

\* A call that turns to the unknown place is a call like the one before.
LEMMA RadarUnknown ==
  ASSUME NEW r \in Calls
  PROVE  \E q \in Calls : /\ q = [r EXCEPT !.at = "unknown"] /\ q.at = "unknown" /\ q.result = r.result
                          /\ q.smooth = r.smooth /\ q.estimate = r.estimate
<1>1. ASSUME NEW d \in Radar!Stage, d = "unknown"
      PROVE  \E q \in Calls : /\ q = [r EXCEPT !.at = d] /\ q.at = d /\ q.result = r.result
                              /\ q.smooth = r.smooth /\ q.estimate = r.estimate
  <2>1. [r EXCEPT !.at = d] \in Calls
    BY DEF Calls
  <2>2. /\ [r EXCEPT !.at = d].at = d /\ [r EXCEPT !.at = d].result = r.result
        /\ [r EXCEPT !.at = d].smooth = r.smooth /\ [r EXCEPT !.at = d].estimate = r.estimate
    BY DEF Calls
  <2> QED BY Zenon, <2>1, <2>2
<1>2. "unknown" \in Radar!Stage
  BY DEF Radar!Stage
<1> QED BY <1>1, <1>2

\* Where the last look leads.
LEMMA RadarFallback ==
  ASSUME NEW r \in Calls, Unfailed(r)
  PROVE  \E q \in Calls : /\ q = Radar!Fallback(r) /\ q.smooth = r.smooth
                          /\ \/ q.at = "done" /\ q.result = "failed"
                             \/ q.at = "unknown" /\ Unfailed(q)
<1>1. PICK p \in Calls : p = Radar!Fail(r) /\ p.at = "done" /\ p.result = "failed" /\ p.smooth = r.smooth
  BY RadarFails
<1>2. PICK q \in Calls : /\ q = [r EXCEPT !.at = "unknown"] /\ q.at = "unknown" /\ q.result = r.result
                         /\ q.smooth = r.smooth
  BY RadarUnknown
<1>3. Unfailed(q)
  BY <1>2 DEF Unfailed
<1>4. Radar!Fallback(r) = q \/ Radar!Fallback(r) = p
  BY <1>1, <1>2 DEF Radar!Fallback
<1> QED BY Zenon, <1>1, <1>2, <1>3, <1>4

\* The same call after a loss.
LEMMA RadarLost ==
  ASSUME NEW r \in Calls
  PROVE  \E q \in Calls : /\ q = [r EXCEPT !.smooth = FALSE] /\ q.smooth = FALSE
                          /\ q.at = r.at /\ q.result = r.result
<1>1. [r EXCEPT !.smooth = FALSE] \in Calls
  BY Zenon DEF Calls
<1>2. /\ [r EXCEPT !.smooth = FALSE].smooth = FALSE /\ [r EXCEPT !.smooth = FALSE].at = r.at
      /\ [r EXCEPT !.smooth = FALSE].result = r.result
  BY DEF Calls
<1> QED BY Zenon, <1>1, <1>2

\* Check: the last look at the server, where an earlier answer may have counted.
LEMMA RadarChecks ==
  ASSUME RadarInv, NEW u \in User, Radar!Check(u)
  PROVE  RadarInv'
<1>1. /\ req[u].at = "check" /\ UNCHANGED <<dist, radius, timetable, location, signed>>
  BY DEF Radar!Check, Radar!At, Radar!scene
<1>2. req[u] \in Calls /\ Unfailed(req[u]) /\ Radar!TypeOK
  BY <1>1, RadarNow
<1>3. location' \in Radar!Spot /\ (location' # 0 => Close(dist, location')) /\ signed' \in {signed, signed \cup {u}}
  BY <1>1, RadarBefore
<1>4. ASSUME NEW r \in Calls, req' = [req EXCEPT ![u] = r], rechecked' \in {rechecked, rechecked \cup {u}},
             Sound(dist, radius, signed', rechecked', u, r)
      PROVE  RadarInv'
  BY Zenon, <1>1, <1>3, <1>4, RadarOne
<1>5. PICK lost \in Calls : lost = [req[u] EXCEPT !.smooth = FALSE] /\ lost.smooth = FALSE /\ lost.result = req[u].result
  BY Zenon, <1>2, RadarLost
<1>6. Unfailed(lost)
  BY <1>2, <1>5 DEF Unfailed
<1>7. CASE u \in signed /\ req' = [req EXCEPT ![u] = Radar!Returned(req[u], "already")] /\ UNCHANGED rechecked
  <2>1. ASSUME NEW w \in Radar!Result, w = "already"
        PROVE  \E ok \in Calls : ok = Radar!Returned(req[u], w) /\ ok.at = "done" /\ ok.result = "already"
    BY <1>2, <2>1, RadarReturned
  <2>2. "already" \in Radar!Result
    BY DEF Radar!Result
  <2>3. PICK r \in Calls : r = Radar!Returned(req[u], "already") /\ r.at = "done" /\ r.result = "already"
    BY <2>1, <2>2
  <2>4. Sound(dist, radius, signed', rechecked', u, r)
    BY <2>3 DEF Sound
  <2> QED BY Zenon, <1>4, <1>7, <2>3, <2>4
<1>8. CASE u \notin signed /\ req' = [req EXCEPT ![u] = Radar!Fallback(req[u])] /\ rechecked' = rechecked \cup {u}
  <2>1. PICK r \in Calls : /\ r = Radar!Fallback(req[u])
                           /\ \/ r.at = "done" /\ r.result = "failed"
                              \/ r.at = "unknown" /\ Unfailed(r)
    BY <1>2, RadarFallback
  <2>2. u \notin signed' /\ u \in rechecked'
    BY <1>1, <1>8
  <2>3. Sound(dist, radius, signed', rechecked', u, r)
    BY <2>1, <2>2 DEF Sound, Unfailed
  <2> QED BY Zenon, <1>4, <1>8, <2>1, <2>3
<1>9. CASE req' = [req EXCEPT ![u] = Radar!Fallback(lost)] /\ UNCHANGED rechecked
  <2>1. PICK r \in Calls : /\ r = Radar!Fallback(lost) /\ r.smooth = lost.smooth
                           /\ \/ r.at = "done" /\ r.result = "failed"
                              \/ r.at = "unknown" /\ Unfailed(r)
    BY <1>6, RadarFallback
  <2>2. ~r.smooth
    BY Zenon, <1>5, <2>1
  <2>3. Sound(dist, radius, signed', rechecked', u, r)
    BY <2>1, <2>2 DEF Sound, Unfailed
  <2> QED BY Zenon, <1>4, <1>9, <2>1, <2>3
<1>10. CASE req' = [req EXCEPT ![u] = Radar!Fail(lost)] /\ UNCHANGED rechecked
  <2>1. PICK r \in Calls : /\ r = Radar!Fail(lost) /\ r.smooth = lost.smooth
                           /\ r.at = "done" /\ r.result = "failed"
    BY RadarFails
  <2>2. ~r.smooth
    BY Zenon, <1>5, <2>1
  <2>3. Sound(dist, radius, signed', rechecked', u, r)
    BY <2>1, <2>2 DEF Sound
  <2> QED BY Zenon, <1>4, <1>10, <2>1, <2>3
<1> QED BY <1>5, <1>7, <1>8, <1>9, <1>10 DEF Radar!Check, Radar!Goto

\* TryUnknown: the sign-in at the estimate itself.
LEMMA RadarUnknowns ==
  ASSUME RadarInv, NEW u \in User, Radar!TryUnknown(u)
  PROVE  RadarInv'
<1>1. /\ req[u].at = "unknown" /\ UNCHANGED <<dist, radius, timetable, rechecked>>
  BY DEF Radar!TryUnknown, Radar!At, Radar!scene
<1>2. req[u] \in Calls /\ Unfailed(req[u]) /\ Radar!TypeOK
  BY <1>1, RadarNow
<1>e. PICK e \in 0..4 : e = req[u].estimate
  BY <1>1, RadarBefore
<1>s. PICK s \in Radar!Spot : s = Places + e
  BY SpotTypes
<1>3. /\ location \in Radar!Spot /\ (location # 0 => Close(dist, location))
      /\ \A d : Radar!Answer(u, d) => signed' \in {signed, signed \cup {u}}
  BY <1>1, RadarBefore
<1>b. location' \in {location, s} /\ (location' # location => e = 1)
  BY <1>e, <1>s DEF Radar!TryUnknown, Radar!RadarFrom, Radar!NoAnswer
<1>c. location' \in Radar!Spot /\ (location' # 0 => Close(dist, location'))
  <2>1. ASSUME e = 1 PROVE Close(dist, s)
    <3>1. Places \in Nat /\ s = Places + 1
      BY <1>s, <2>1, SharedAssumption
    <3>2. s \notin Radar!Place /\ s - Places <= 2
      BY <3>1 DEF Radar!Place
    <3> QED BY <3>2 DEF Close
  <2> QED BY <1>3, <1>b, <2>1
<1>4. ASSUME NEW r \in Calls, req' = [req EXCEPT ![u] = r], signed' \in {signed, signed \cup {u}},
             Sound(dist, radius, signed', rechecked', u, r)
      PROVE  RadarInv'
  BY Zenon, <1>1, <1>c, <1>4, RadarOne
<1>5. Sound(dist, radius, signed, rechecked, u, req[u])
  BY DEF RadarInv
<1>6. PICK fail \in Calls : /\ fail = Radar!Fail(req[u]) /\ fail.at = "done" /\ fail.result = "failed"
                            /\ fail.smooth = req[u].smooth /\ fail.estimate = req[u].estimate
  BY <1>2, RadarFails
<1>7. CASE Radar!NoAnswer(u, {req[u].estimate}, fail)
  <2>1. PICK r \in Calls : /\ r = [fail EXCEPT !.smooth = FALSE] /\ r.smooth = FALSE
                           /\ r.at = fail.at /\ r.result = fail.result
    BY Zenon, RadarLost
  <2>2. ~r.smooth /\ r.at = "done" /\ r.result = "failed"
    BY <1>6, <2>1
  <2>3. Sound(dist, radius, signed', rechecked', u, r)
    BY <2>2 DEF Sound
  <2>4. req' = [req EXCEPT ![u] = r] /\ signed' \in {signed, signed \cup {u}}
    BY <1>7, <2>1 DEF Radar!NoAnswer, Radar!Goto, Radar!Counted
  <2> QED BY Zenon, <1>4, <2>3, <2>4
<1>8. CASE Radar!Answer(u, req[u].estimate) /\ req[u].estimate = 4 /\ req' = [req EXCEPT ![u] = fail]
  <2>1. u \in signed' => radius = 4 \/ u \in signed
    <3>1. radius \in 1..4
      BY <1>2, RadarTypes
    <3> QED BY <1>8, <3>1 DEF Radar!Answer, Radar!Counted
  <2>2. req[u].smooth => u \in rechecked /\ u \notin signed
    BY <1>1, <1>5 DEF Sound
  <2>3. fail.estimate = 4
    BY <1>6, <1>8
  <2>4. fail.smooth /\ u \in signed' => u \in rechecked' /\ radius = 4
    BY <1>1, <1>6, <2>1, <2>2
  <2>5. Sound(dist, radius, signed', rechecked', u, fail)
    BY <1>6, <2>3, <2>4 DEF Sound
  <2>6. signed' \in {signed, signed \cup {u}}
    BY <1>3, <1>8
  <2> QED BY Zenon, <1>4, <1>8, <2>5, <2>6
<1>9. CASE Radar!Answer(u, req[u].estimate) /\ req' = [req EXCEPT ![u] = Radar!Returned(req[u], "success")]
  <2>1. ASSUME NEW w \in Radar!Result, w = "success"
        PROVE  \E ok \in Calls : ok = Radar!Returned(req[u], w) /\ ok.at = "done" /\ ok.result = "success"
    BY <1>2, <2>1, RadarReturned
  <2>2. "success" \in Radar!Result
    BY DEF Radar!Result
  <2>3. PICK r \in Calls : r = Radar!Returned(req[u], "success") /\ r.at = "done" /\ r.result = "success"
    BY <2>1, <2>2
  <2>4. Sound(dist, radius, signed', rechecked', u, r)
    BY <2>3 DEF Sound
  <2>5. signed' \in {signed, signed \cup {u}}
    BY <1>3, <1>9
  <2> QED BY Zenon, <1>4, <1>9, <2>3, <2>4, <2>5
<1>10. Radar!RadarFrom(u, s, {req[u].estimate}, fail)
  BY <1>e, <1>s, <1>6 DEF Radar!TryUnknown
<1> QED BY <1>7, <1>8, <1>9, <1>10 DEF Radar!RadarFrom, Radar!Goto

\* Every step keeps the invariant.
LEMMA RadarStep ==
  RadarInv /\ (Radar!Next \/ UNCHANGED <<req, signed, radarVars>>) => RadarInv'
<1> SUFFICES ASSUME RadarInv, Radar!Next \/ UNCHANGED <<req, signed, radarVars>> PROVE RadarInv'
  OBVIOUS
<1>1. CASE Radar!Next
  BY <1>1, RadarLooks, RadarTries, RadarProbes, RadarSnaps, RadarMeasures, RadarChecks, RadarUnknowns
     DEF Radar!Next
<1>2. CASE UNCHANGED <<req, signed, radarVars>>
  <2>1. UNCHANGED <<dist, radius, timetable, location, signed, req, rechecked>>
    BY <1>2 DEF radarVars
  <2>2. Radar!TypeOK'
    BY <2>1 DEF RadarInv, Radar!TypeOK
  <2>3. \A u \in User : Sound(dist, radius, signed, rechecked, u, req[u])'
    BY <2>1 DEF RadarInv
  <2>4. (location # 0 => Close(dist, location))'
    BY <2>1 DEF RadarInv
  <2> QED BY <2>2, <2>3, <2>4 DEF RadarInv
<1> QED BY <1>1, <1>2

\* The invariant has the properties the runs check.
LEMMA RadarHold ==
  RadarInv => Radar!TypeOK /\ Radar!FailureIsReal /\ Radar!CacheIsClose
<1> SUFFICES ASSUME RadarInv PROVE Radar!TypeOK /\ Radar!FailureIsReal /\ Radar!CacheIsClose
  OBVIOUS
<1>1. Radar!TypeOK
  BY DEF RadarInv
<1>2. Radar!FailureIsReal
  BY DEF RadarInv, Sound, Radar!FailureIsReal
<1>3. Radar!CacheIsClose
  <2>1. \A u \in User : req[u].at = "cache" => Close(dist, req[u].place)
    BY DEF RadarInv, Sound
  <2>2. location # 0 => Close(dist, location)
    BY DEF RadarInv
  <2> QED BY <2>1, <2>2 DEF Close, Radar!Far, Radar!CacheIsClose, Radar!At
<1> QED BY <1>1, <1>2, <1>3
-----------------------------------------------------------------------------
(* The push of a QR code (QrPush).                                         *)

Outcomes == {"", "none", "error", "response"}
Pushes == [at : Qr!Step, client : 0..MaxLogins, tries : 0..MAX_RETRY,
           result : Outcomes, smooth : BOOLEAN]

\* Of the logins of a user the last is on record, and without a password there
\* is no other.
Numbered(u, k, living, l, c) ==
  /\ l # 0 /\ 0 \notin living /\ k <= l /\ c <= l
  /\ \A s \in living : s <= l
  /\ u \notin pwd => \A s \in living : s = l

\* A push that goes on without a loss has met an object whose login is over; one
\* that gave its user up has, or the user has no live login and cannot get one.
Fair(t, w, o, u, p, k, living) ==
  /\ p.at \in {"look", "recover"} => p.tries = MAX_RETRY
  /\ p.at \in {"build", "send", "probe", "list"} => p.client # 0
  /\ (p.at \in {"build", "send", "probe", "list"} /\ p.tries < MAX_RETRY) => k # 0
  /\ p.at \in {"send", "probe", "list"} => p.tries < MAX_RETRY
  /\ (p.at \in {"probe", "list"} \/ (p.at = "build" /\ p.tries < MAX_RETRY))
       => (p.smooth /\ u \in t => k \notin living)
  /\ p.result # "" => p.at = "done"
  /\ p.result \in {"none", "error"} /\ p.smooth /\ o /\ u \in t
       => k \notin living /\ (k # 0 \/ (living = {} /\ u \notin w))

SameIdle(p, q) == p.at = "idle" <=> q.at = "idle"

LeftOut ==
  \/ \A u \in User : push[u].at = "idle"
  \/ \A u \in User : push[u].at = "idle" <=> u \notin Qr!Audience

QrInv ==
  /\ Qr!TypeOK
  /\ \A u \in User : Numbered(u, kept[u], alive[u], login[u], cache[u])
  /\ \A u \in User : Fair(takes, pwd, open, u, push[u], kept[u], alive[u])
  /\ \A u \in User : push[u].client <= login[u]
  /\ LeftOut

\* What the type invariant says of each variable of the QR sign-in.
LEMMA QrTypes ==
  ASSUME Qr!TypeOK
  PROVE  /\ takes \subseteq User /\ listed \subseteq User /\ pwd \subseteq User /\ signed \subseteq User
         /\ login \in [User -> 0..MaxLogins] /\ alive \in [User -> SUBSET (0..MaxLogins)]
         /\ cache \in [User -> 0..MaxLogins] /\ kept \in [User -> 0..MaxLogins]
         /\ open \in BOOLEAN /\ push \in [User -> Pushes]
BY Zenon DEF Qr!TypeOK, Qr!Login, Pushes, Outcomes

\* The type invariant is put together from the types of the variables.
LEMMA QrWhole ==
  ASSUME takes' \subseteq User, listed' \subseteq User, pwd' \subseteq User, signed' \subseteq User,
         login' \in [User -> 0..MaxLogins], alive' \in [User -> SUBSET (0..MaxLogins)],
         cache' \in [User -> 0..MaxLogins], kept' \in [User -> 0..MaxLogins],
         open' \in BOOLEAN, push' \in [User -> Pushes]
  PROVE  Qr!TypeOK'
BY Zenon DEF Qr!TypeOK, Qr!Login, Pushes, Outcomes

\* The fields of a push.
LEMMA QrFields ==
  ASSUME Qr!TypeOK, NEW u \in User
  PROVE  /\ push[u] \in Pushes
         /\ push[u].at \in Qr!Step /\ push[u].client \in 0..MaxLogins /\ push[u].tries \in 0..MAX_RETRY
         /\ push[u].result \in {"", "none", "error", "response"} /\ push[u].smooth \in BOOLEAN
         /\ login[u] \in 0..MaxLogins /\ cache[u] \in 0..MaxLogins /\ kept[u] \in 0..MaxLogins
         /\ alive[u] \subseteq 0..MaxLogins
BY Zenon, QrTypes DEF Pushes, Outcomes

\* What the updates make of the fields.
LEMMA QrAt ==
  ASSUME NEW p \in Pushes, NEW b \in Qr!Step
  PROVE  /\ [p EXCEPT !.at = b] \in Pushes
         /\ [p EXCEPT !.at = b].at = b /\ [p EXCEPT !.at = b].client = p.client
         /\ [p EXCEPT !.at = b].tries = p.tries /\ [p EXCEPT !.at = b].result = p.result
         /\ [p EXCEPT !.at = b].smooth = p.smooth
BY DEF Pushes

\* A push that takes another client differs in nothing else.
LEMMA QrClient ==
  ASSUME NEW p \in Pushes, NEW b \in 0..MaxLogins
  PROVE  /\ [p EXCEPT !.client = b] \in Pushes
         /\ [p EXCEPT !.client = b].at = p.at /\ [p EXCEPT !.client = b].client = b
         /\ [p EXCEPT !.client = b].tries = p.tries /\ [p EXCEPT !.client = b].result = p.result
         /\ [p EXCEPT !.client = b].smooth = p.smooth
BY DEF Pushes

\* A push that counts another try differs in nothing else.
LEMMA QrTries ==
  ASSUME NEW p \in Pushes, NEW b \in 0..MAX_RETRY
  PROVE  /\ [p EXCEPT !.tries = b] \in Pushes
         /\ [p EXCEPT !.tries = b].at = p.at /\ [p EXCEPT !.tries = b].client = p.client
         /\ [p EXCEPT !.tries = b].tries = b /\ [p EXCEPT !.tries = b].result = p.result
         /\ [p EXCEPT !.tries = b].smooth = p.smooth
BY DEF Pushes

\* A push that meets a failure is no longer smooth, and differs in nothing else.
LEMMA QrLost ==
  ASSUME NEW p \in Pushes
  PROVE  /\ Qr!Lost(p) \in Pushes /\ Qr!Lost(p).smooth = FALSE
         /\ Qr!Lost(p).at = p.at /\ Qr!Lost(p).client = p.client
         /\ Qr!Lost(p).tries = p.tries /\ Qr!Lost(p).result = p.result
BY Zenon DEF Pushes, Qr!Lost

\* The fields of a push written out.
LEMMA QrMade ==
  ASSUME NEW a \in Qr!Step, NEW c \in 0..MaxLogins, NEW n \in 0..MAX_RETRY,
         NEW w \in Outcomes, NEW s \in BOOLEAN
  PROVE  /\ [at |-> a, client |-> c, tries |-> n, result |-> w, smooth |-> s] \in Pushes
         /\ [at |-> a, client |-> c, tries |-> n, result |-> w, smooth |-> s].at = a
         /\ [at |-> a, client |-> c, tries |-> n, result |-> w, smooth |-> s].result = w
         /\ [at |-> a, client |-> c, tries |-> n, result |-> w, smooth |-> s].smooth = s
BY DEF Pushes

\* A push that is done has its outcome and no client.
LEMMA QrDone ==
  ASSUME NEW p \in Pushes, NEW w \in Outcomes
  PROVE  /\ Qr!Done(p, w) \in Pushes /\ Qr!Done(p, w).at = "done" /\ Qr!Done(p, w).result = w
         /\ Qr!Done(p, w).smooth = p.smooth
<1>1. ASSUME NEW d \in Qr!Step, d = "done"
      PROVE  /\ Qr!Done(p, w) \in Pushes /\ Qr!Done(p, w).at = d /\ Qr!Done(p, w).result = w
             /\ Qr!Done(p, w).smooth = p.smooth
  <2>1. Qr!Done(p, w) = [at |-> d, client |-> 0, tries |-> MAX_RETRY, result |-> w, smooth |-> p.smooth]
    BY <1>1 DEF Qr!Done
  <2>2. 0 \in 0..MaxLogins /\ MAX_RETRY \in 0..MAX_RETRY
    BY SharedAssumption
  <2>3. p.smooth \in BOOLEAN
    BY DEF Pushes
  <2> QED BY <2>1, <2>2, <2>3, QrMade
<1>2. "done" \in Qr!Step
  BY DEF Qr!Step
<1> QED BY <1>1, <1>2

\* The request starts with nobody asked.
LEMMA QrInit == Qr!Init => QrInv
<1> SUFFICES ASSUME Qr!Init PROVE QrInv
  OBVIOUS
<1>1. /\ 1 \in 0..MaxLogins /\ 0 \in 0..MaxLogins /\ MAX_RETRY \in 0..MAX_RETRY
  BY SharedAssumption
<1>2. Qr!NoPush \in Pushes
  BY <1>1 DEF Qr!NoPush, Pushes, Outcomes, Qr!Step
<1>3. /\ takes \subseteq User /\ listed \subseteq User /\ pwd \subseteq User /\ signed = {} /\ open = TRUE
      /\ login = [u \in User |-> 1] /\ kept = [u \in User |-> 0]
      /\ push = [u \in User |-> Qr!NoPush]
      /\ cache \in [User -> {0, 1}] /\ alive \in [User -> {{}, {1}}]
  BY DEF Qr!Init
<1>4. Qr!TypeOK
  <2>1. cache \in [User -> 0..MaxLogins] /\ alive \in [User -> SUBSET (0..MaxLogins)]
    BY <1>1, <1>3
  <2> QED BY Zenon, <1>1, <1>2, <1>3, <2>1 DEF Qr!TypeOK, Qr!Login, Pushes, Outcomes
<1>5. \A u \in User : Numbered(u, kept[u], alive[u], login[u], cache[u])
  BY <1>3 DEF Numbered
<1>6. \A u \in User : push[u] = Qr!NoPush /\ push[u].at = "idle" /\ push[u].result = ""
  <2>1. Qr!NoPush.at = "idle" /\ Qr!NoPush.result = ""
    BY DEF Qr!NoPush
  <2> QED BY Zenon, <1>3, <2>1
<1>9. \A u \in User : push[u].client <= login[u]
  <2>1. Qr!NoPush.client = 0
    BY DEF Qr!NoPush
  <2>2. \A u \in User : push[u].client = 0 /\ login[u] = 1
    BY <1>3, <2>1
  <2> QED BY <2>2
<1>7. \A u \in User : Fair(takes, pwd, open, u, push[u], kept[u], alive[u])
  BY Zenon, <1>6 DEF Fair
<1>8. LeftOut
  BY Zenon, <1>6 DEF LeftOut
<1> QED BY <1>4, <1>5, <1>7, <1>8, <1>9 DEF QrInv

\* A step of the push of one user, or of his logins.
LEMMA QrOne ==
  ASSUME QrInv, NEW u \in User, NEW p \in Pushes, NEW k \in 0..MaxLogins, NEW l \in 0..MaxLogins,
         NEW c \in 0..MaxLogins, NEW living \in SUBSET (0..MaxLogins),
         push' = [push EXCEPT ![u] = p], kept' = [kept EXCEPT ![u] = k], login' = [login EXCEPT ![u] = l],
         cache' = [cache EXCEPT ![u] = c], alive' = [alive EXCEPT ![u] = living],
         UNCHANGED <<takes, listed, pwd, open>>, signed' \subseteq User,
         SameIdle(p, push[u]), p.client <= l,
         Numbered(u, k, living, l, c), Fair(takes, pwd, open, u, p, k, living)
  PROVE  QrInv'
<1>1. Qr!TypeOK'
  BY QrTypes, QrWhole DEF QrInv
<1>2. /\ push'[u] = p /\ kept'[u] = k /\ login'[u] = l /\ cache'[u] = c /\ alive'[u] = living
      /\ \A v \in User : v # u => /\ push'[v] = push[v] /\ kept'[v] = kept[v] /\ login'[v] = login[v]
                                  /\ cache'[v] = cache[v] /\ alive'[v] = alive[v]
  BY QrTypes DEF QrInv
<1>3. \A v \in User : Numbered(v, kept[v], alive[v], login[v], cache[v])'
  <2> SUFFICES ASSUME NEW v \in User PROVE Numbered(v, kept[v], alive[v], login[v], cache[v])'
    OBVIOUS
  <2>1. CASE v = u
    BY Zenon, <1>2, <2>1 DEF Numbered
  <2>2. CASE v # u
    BY <1>2, <2>2 DEF Numbered, QrInv
  <2> QED BY <2>1, <2>2
<1>4. \A v \in User : Fair(takes, pwd, open, v, push[v], kept[v], alive[v])'
  <2> SUFFICES ASSUME NEW v \in User PROVE Fair(takes, pwd, open, v, push[v], kept[v], alive[v])'
    OBVIOUS
  <2>1. CASE v = u
    BY <1>2, <2>1
  <2>2. CASE v # u
    <3>1. Fair(takes, pwd, open, v, push[v], kept[v], alive[v])
      BY DEF QrInv
    <3>2. push'[v] = push[v] /\ kept'[v] = kept[v] /\ alive'[v] = alive[v]
      BY <1>2, <2>2
    <3> QED BY <3>1, <3>2
  <2> QED BY <2>1, <2>2
<1>7. \A v \in User : push'[v].client <= login'[v]
  BY <1>2 DEF QrInv
<1>5. \A v \in User : push'[v].at = "idle" <=> push[v].at = "idle"
  BY <1>2 DEF SameIdle
<1>6. LeftOut'
  BY <1>5 DEF LeftOut, QrInv, Qr!Audience
<1> QED BY <1>1, <1>3, <1>4, <1>6, <1>7 DEF QrInv

\* A step of one push that leaves the logins and the caches alone.
LEMMA QrMoves ==
  ASSUME QrInv, NEW u \in User, NEW p \in Pushes, push' = [push EXCEPT ![u] = p],
         UNCHANGED <<takes, listed, pwd, open, kept, login, cache, alive>>, signed' \subseteq User,
         SameIdle(p, push[u]), p.client <= login[u],
         Fair(takes, pwd, open, u, p, kept[u], alive[u])
  PROVE  QrInv'
<1>1. Qr!TypeOK /\ Numbered(u, kept[u], alive[u], login[u], cache[u])
  BY DEF QrInv
<1>2. /\ login' = [login EXCEPT ![u] = login[u]] /\ cache' = [cache EXCEPT ![u] = cache[u]]
      /\ alive' = [alive EXCEPT ![u] = alive[u]] /\ kept' = [kept EXCEPT ![u] = kept[u]]
  BY <1>1, QrTypes
<1>3. /\ login[u] \in 0..MaxLogins /\ cache[u] \in 0..MaxLogins /\ kept[u] \in 0..MaxLogins
      /\ alive[u] \in SUBSET (0..MaxLogins)
  BY Zenon, <1>1, QrFields
<1> QED BY Zenon, <1>1, <1>2, <1>3, QrOne

\* A push that goes on to build its client.
LEMMA QrBuildAt ==
  ASSUME NEW p \in Pushes
  PROVE  \E q \in Pushes : /\ q = [p EXCEPT !.at = "build"] /\ q.at = "build" /\ q.client = p.client
                           /\ q.tries = p.tries /\ q.result = p.result /\ q.smooth = p.smooth
<1>1. ASSUME NEW d \in Qr!Step, d = "build"
      PROVE  \E q \in Pushes : /\ q = [p EXCEPT !.at = d] /\ q.at = d /\ q.client = p.client
                               /\ q.tries = p.tries /\ q.result = p.result /\ q.smooth = p.smooth
  BY Zenon, QrAt
<1>2. "build" \in Qr!Step
  BY DEF Qr!Step
<1> QED BY <1>1, <1>2

\* A push that goes on to send.
LEMMA QrSendAt ==
  ASSUME NEW p \in Pushes
  PROVE  \E q \in Pushes : /\ q = [p EXCEPT !.at = "send"] /\ q.at = "send" /\ q.client = p.client
                           /\ q.tries = p.tries /\ q.result = p.result /\ q.smooth = p.smooth
<1>1. ASSUME NEW d \in Qr!Step, d = "send"
      PROVE  \E q \in Pushes : /\ q = [p EXCEPT !.at = d] /\ q.at = d /\ q.client = p.client
                               /\ q.tries = p.tries /\ q.result = p.result /\ q.smooth = p.smooth
  BY Zenon, QrAt
<1>2. "send" \in Qr!Step
  BY DEF Qr!Step
<1> QED BY <1>1, <1>2

\* A push that goes on to probe its session.
LEMMA QrProbeAt ==
  ASSUME NEW p \in Pushes
  PROVE  \E q \in Pushes : /\ q = [p EXCEPT !.at = "probe"] /\ q.at = "probe" /\ q.client = p.client
                           /\ q.tries = p.tries /\ q.result = p.result /\ q.smooth = p.smooth
<1>1. ASSUME NEW d \in Qr!Step, d = "probe"
      PROVE  \E q \in Pushes : /\ q = [p EXCEPT !.at = d] /\ q.at = d /\ q.client = p.client
                               /\ q.tries = p.tries /\ q.result = p.result /\ q.smooth = p.smooth
  BY Zenon, QrAt
<1>2. "probe" \in Qr!Step
  BY DEF Qr!Step
<1> QED BY <1>1, <1>2

\* A push that goes on to list the sign-ins.
LEMMA QrListAt ==
  ASSUME NEW p \in Pushes
  PROVE  \E q \in Pushes : /\ q = [p EXCEPT !.at = "list"] /\ q.at = "list" /\ q.client = p.client
                           /\ q.tries = p.tries /\ q.result = p.result /\ q.smooth = p.smooth
<1>1. ASSUME NEW d \in Qr!Step, d = "list"
      PROVE  \E q \in Pushes : /\ q = [p EXCEPT !.at = d] /\ q.at = d /\ q.client = p.client
                               /\ q.tries = p.tries /\ q.result = p.result /\ q.smooth = p.smooth
  BY Zenon, QrAt
<1>2. "list" \in Qr!Step
  BY DEF Qr!Step
<1> QED BY <1>1, <1>2

\* A push that goes on to recover its session.
LEMMA QrRecoverAt ==
  ASSUME NEW p \in Pushes
  PROVE  \E q \in Pushes : /\ q = [p EXCEPT !.at = "recover"] /\ q.at = "recover" /\ q.client = p.client
                           /\ q.tries = p.tries /\ q.result = p.result /\ q.smooth = p.smooth
<1>1. ASSUME NEW d \in Qr!Step, d = "recover"
      PROVE  \E q \in Pushes : /\ q = [p EXCEPT !.at = d] /\ q.at = d /\ q.client = p.client
                               /\ q.tries = p.tries /\ q.result = p.result /\ q.smooth = p.smooth
  BY Zenon, QrAt
<1>2. "recover" \in Qr!Step
  BY DEF Qr!Step
<1> QED BY <1>1, <1>2

\* A push that goes on to look whether it is wanted.
LEMMA QrLookAt ==
  ASSUME NEW p \in Pushes
  PROVE  \E q \in Pushes : /\ q = [p EXCEPT !.at = "look"] /\ q.at = "look" /\ q.client = p.client
                           /\ q.tries = p.tries /\ q.result = p.result /\ q.smooth = p.smooth
<1>1. ASSUME NEW d \in Qr!Step, d = "look"
      PROVE  \E q \in Pushes : /\ q = [p EXCEPT !.at = d] /\ q.at = d /\ q.client = p.client
                               /\ q.tries = p.tries /\ q.result = p.result /\ q.smooth = p.smooth
  BY Zenon, QrAt
<1>2. "look" \in Qr!Step
  BY DEF Qr!Step
<1> QED BY <1>1, <1>2

\* A push that ends with an error.
LEMMA QrError ==
  ASSUME NEW p \in Pushes
  PROVE  \E q \in Pushes : /\ q = Qr!Done(p, "error") /\ q.at = "done" /\ q.client = 0
                           /\ q.result = "error" /\ q.smooth = p.smooth
<1>1. ASSUME NEW d \in Outcomes, d = "error"
      PROVE  \E q \in Pushes : /\ q = Qr!Done(p, d) /\ q.at = "done" /\ q.client = 0
                               /\ q.result = d /\ q.smooth = p.smooth
  <2>1. Qr!Done(p, d).client = 0
    BY DEF Qr!Done
  <2> QED BY <2>1, QrDone
<1>2. "error" \in Outcomes
  BY DEF Outcomes
<1> QED BY <1>1, <1>2

\* A push that ends with nothing to sign.
LEMMA QrNone ==
  ASSUME NEW p \in Pushes
  PROVE  \E q \in Pushes : /\ q = Qr!Done(p, "none") /\ q.at = "done" /\ q.client = 0
                           /\ q.result = "none" /\ q.smooth = p.smooth
<1>1. ASSUME NEW d \in Outcomes, d = "none"
      PROVE  \E q \in Pushes : /\ q = Qr!Done(p, d) /\ q.at = "done" /\ q.client = 0
                               /\ q.result = d /\ q.smooth = p.smooth
  <2>1. Qr!Done(p, d).client = 0
    BY DEF Qr!Done
  <2> QED BY <2>1, QrDone
<1>2. "none" \in Outcomes
  BY DEF Outcomes
<1> QED BY <1>1, <1>2

\* A push that ends with the answer of the school.
LEMMA QrResponse ==
  ASSUME NEW p \in Pushes
  PROVE  \E q \in Pushes : /\ q = Qr!Done(p, "response") /\ q.at = "done" /\ q.client = 0
                           /\ q.result = "response" /\ q.smooth = p.smooth
<1>1. ASSUME NEW d \in Outcomes, d = "response"
      PROVE  \E q \in Pushes : /\ q = Qr!Done(p, d) /\ q.at = "done" /\ q.client = 0
                               /\ q.result = d /\ q.smooth = p.smooth
  <2>1. Qr!Done(p, d).client = 0
    BY DEF Qr!Done
  <2> QED BY <2>1, QrDone
<1>2. "response" \in Outcomes
  BY DEF Outcomes
<1> QED BY <1>1, <1>2

\* What a recovery leaves: a client of a live login, or no other logins than before.
RecoveredTo(u, ok, failed, p, l, c, living) ==
  /\ push' = [push EXCEPT ![u] = p] /\ login' = [login EXCEPT ![u] = l]
  /\ cache' = [cache EXCEPT ![u] = c] /\ alive' = [alive EXCEPT ![u] = living]
  /\ Numbered(u, kept[u], living, l, c)
  /\ kept[u] \in living => kept[u] \in alive[u]
  /\ \/ /\ p.at = ok.at /\ p.client # 0 /\ p.client <= l /\ p.tries = ok.tries
        /\ p.result = ok.result /\ p.smooth = ok.smooth
     \/ living = alive[u] /\ l = login[u] /\ p = Qr!Lost(failed)
     \/ living = alive[u] /\ l = login[u] /\ p = failed /\ login[u] \notin alive[u] /\ u \notin pwd

\* What the recovery of a session may leave: who is logged in, and the two ways the push goes on.
LEMMA QrRecovered ==
  ASSUME QrInv, NEW u \in User, NEW ok \in Pushes, NEW failed \in Pushes, Qr!Recovered(u, ok, failed)
  PROVE  \E p \in Pushes, l \in 0..MaxLogins, c \in 0..MaxLogins, living \in SUBSET (0..MaxLogins) :
           RecoveredTo(u, ok, failed, p, l, c, living)
<1>n. Numbered(u, kept[u], alive[u], login[u], cache[u]) /\ Qr!TypeOK
  BY DEF QrInv
<1>t. /\ login[u] \in 0..MaxLogins /\ cache[u] \in 0..MaxLogins /\ kept[u] \in 0..MaxLogins
      /\ alive[u] \in SUBSET (0..MaxLogins)
  BY Zenon, <1>n, QrFields
<1>q. /\ login = [login EXCEPT ![u] = login[u]] /\ cache = [cache EXCEPT ![u] = cache[u]]
      /\ alive = [alive EXCEPT ![u] = alive[u]]
  BY <1>n, QrTypes
<1> DEFINE With(d) == [ok EXCEPT !.client = d]
<1>w. \A d \in 1..MaxLogins :
        /\ With(d) \in Pushes /\ With(d).client = d /\ With(d).at = ok.at /\ With(d).client # 0 /\ With(d).tries = ok.tries
        /\ With(d).result = ok.result /\ With(d).smooth = ok.smooth
  BY QrClient, SharedAssumption
<1> HIDE DEF With
<1>1. CASE /\ cache[u] \in alive[u] /\ push' = [push EXCEPT ![u] = With(cache[u])]
           /\ UNCHANGED <<login, alive, cache>>
  <2>1. cache[u] \in 1..MaxLogins
    BY <1>1, <1>n, <1>t, SharedAssumption DEF Numbered
  <2>3. With(cache[u]).client <= login[u]
    BY <1>n, <1>t, <1>w, <2>1 DEF Numbered
  <2>2. RecoveredTo(u, ok, failed, With(cache[u]), login[u], cache[u], alive[u])
    BY <2>3, <1>1, <1>n, <1>q, <1>w, <2>1 DEF RecoveredTo
  <2> QED BY <1>t, <1>w, <2>1, <2>2
<1>2. CASE /\ login[u] \in alive[u] /\ cache' = [cache EXCEPT ![u] = login[u]]
           /\ push' = [push EXCEPT ![u] = With(login[u])] /\ UNCHANGED <<login, alive>>
  <2>1. login[u] \in 1..MaxLogins
    BY <1>n, <1>t, SharedAssumption DEF Numbered
  <2>2. Numbered(u, kept[u], alive[u], login[u], login[u])
    BY <1>n, <1>t, SharedAssumption DEF Numbered
  <2>4. With(login[u]).client <= login[u]
    BY <1>t, <1>w, <2>1
  <2>3. RecoveredTo(u, ok, failed, With(login[u]), login[u], login[u], alive[u])
    BY <1>2, <1>q, <1>w, <2>1, <2>2, <2>4 DEF RecoveredTo
  <2> QED BY <1>t, <1>w, <2>1, <2>3
<1>3. ASSUME NEW new, new = login[u] + 1, u \in pwd, login[u] < MaxLogins,
             login' = [login EXCEPT ![u] = new], cache' = [cache EXCEPT ![u] = new],
             alive' = [alive EXCEPT ![u] = alive[u] \cup {new}],
             push' = [push EXCEPT ![u] = With(new)]
      PROVE  \E p \in Pushes, l \in 0..MaxLogins, c \in 0..MaxLogins, living \in SUBSET (0..MaxLogins) :
               RecoveredTo(u, ok, failed, p, l, c, living)
  <2>1. new \in 1..MaxLogins /\ new \in 0..MaxLogins
    BY <1>3, <1>t, SharedAssumption
  <2>2. alive[u] \cup {new} \in SUBSET (0..MaxLogins)
    BY <1>t, <2>1
  <2>3. \A k \in alive[u] : k \in 0..MaxLogins
    BY <1>t
  <2>4. Numbered(u, kept[u], alive[u] \cup {new}, new, new)
    BY <1>3, <1>n, <1>t, <2>1, <2>3, SharedAssumption DEF Numbered
  <2>5. kept[u] \in alive[u] \cup {new} => kept[u] \in alive[u]
    BY <1>3, <1>n, <1>t, SharedAssumption DEF Numbered
  <2>7. With(new).client <= new
    BY <1>w, <2>1
  <2>6. RecoveredTo(u, ok, failed, With(new), new, new, alive[u] \cup {new})
    BY <1>3, <1>w, <2>1, <2>4, <2>5, <2>7 DEF RecoveredTo
  <2> QED BY <1>w, <2>1, <2>2, <2>6
<1>4. CASE /\ push' = [push EXCEPT ![u] = IF alive[u] \cap {cache[u], login[u]} # {} \/ u \in pwd
                                          THEN Qr!Lost(failed) ELSE failed]
           /\ UNCHANGED <<login, alive, cache>>
  <2>1. CASE alive[u] \cap {cache[u], login[u]} # {} \/ u \in pwd
    <3>1. RecoveredTo(u, ok, failed, Qr!Lost(failed), login[u], cache[u], alive[u])
      BY Zenon, <1>4, <1>n, <1>q, <2>1 DEF RecoveredTo
    <3>2. Qr!Lost(failed) \in Pushes
      BY Zenon, QrLost
    <3> QED BY <1>t, <3>1, <3>2
  <2>2. CASE ~(alive[u] \cap {cache[u], login[u]} # {} \/ u \in pwd)
    <3>1. login[u] \notin alive[u] /\ u \notin pwd
      BY <2>2
    <3>2. RecoveredTo(u, ok, failed, failed, login[u], cache[u], alive[u])
      BY <1>4, <1>n, <1>q, <2>2, <3>1 DEF RecoveredTo
    <3> QED BY <1>t, <3>2
  <2> QED BY <2>1, <2>2
<1> QED
  <2>1. CASE /\ cache[u] \in alive[u] /\ push' = [push EXCEPT ![u] = [ok EXCEPT !.client = cache[u]]]
             /\ UNCHANGED <<login, alive, cache>>
    BY <1>1, <2>1 DEF With
  <2>2. CASE /\ login[u] \in alive[u] /\ cache' = [cache EXCEPT ![u] = login[u]]
             /\ push' = [push EXCEPT ![u] = [ok EXCEPT !.client = login[u]]] /\ UNCHANGED <<login, alive>>
    BY <1>2, <2>2 DEF With
  <2>3. ASSUME u \in pwd, login[u] < MaxLogins, NEW new, new = login[u] + 1,
               login' = [login EXCEPT ![u] = new], cache' = [cache EXCEPT ![u] = new],
               alive' = [alive EXCEPT ![u] = alive[u] \cup {new}],
               push' = [push EXCEPT ![u] = [ok EXCEPT !.client = new]]
        PROVE  \E p \in Pushes, l \in 0..MaxLogins, c \in 0..MaxLogins, living \in SUBSET (0..MaxLogins) :
                 RecoveredTo(u, ok, failed, p, l, c, living)
    <3>1. push' = [push EXCEPT ![u] = With(new)]
      BY <2>3 DEF With
    <3> QED BY Zenon, <1>3, <2>3, <3>1
  <2>4. alive' = [alive EXCEPT ![u] = @ \cup {login[u] + 1}] <=> alive' = [alive EXCEPT ![u] = alive[u] \cup {login[u] + 1}]
    BY <1>n, QrTypes
  <2> QED BY <1>4, <2>1, <2>2, <2>3, <2>4 DEF Qr!Recovered, Qr!Goto

\* Recover: the session is recovered, and the client is built again.
LEMMA QrRecovers ==
  ASSUME QrInv, NEW u \in User, Qr!Recover(u)
  PROVE  QrInv'
<1>1. /\ push[u].at = "recover" /\ UNCHANGED <<takes, listed, pwd, kept, open, signed>> /\ Qr!TypeOK
      /\ Qr!Recovered(u, [push[u] EXCEPT !.at = "build"], Qr!Done(push[u], "error"))
  BY DEF QrInv, Qr!Recover, Qr!At, Qr!people
<1>0. push[u] \in Pushes
  BY Zenon, <1>1, QrFields
<1>2. PICK ok \in Pushes : /\ ok = [push[u] EXCEPT !.at = "build"] /\ ok.at = "build" /\ ok.client = push[u].client
                           /\ ok.tries = push[u].tries /\ ok.result = push[u].result /\ ok.smooth = push[u].smooth
  BY <1>0, QrBuildAt
<1>3. PICK failed \in Pushes : /\ failed = Qr!Done(push[u], "error") /\ failed.at = "done" /\ failed.client = 0
                               /\ failed.result = "error" /\ failed.smooth = push[u].smooth
  BY <1>0, QrError
<1>4. Qr!Recovered(u, ok, failed)
  BY <1>1, <1>2, <1>3
<1>5. PICK p \in Pushes, l \in 0..MaxLogins, c \in 0..MaxLogins, living \in SUBSET (0..MaxLogins) :
        RecoveredTo(u, ok, failed, p, l, c, living)
  BY <1>4, QrRecovered
<1>6. /\ Fair(takes, pwd, open, u, push[u], kept[u], alive[u])
      /\ Numbered(u, kept[u], alive[u], login[u], cache[u])
  BY DEF QrInv
<1>7. push[u].tries = MAX_RETRY /\ push[u].result = ""
  <2>1. push[u].result # "" => push[u].at = "done"
    BY Zenon, <1>6 DEF Fair
  <2> QED BY Zenon, <1>1, <1>6, <2>1 DEF Fair
<1>8. Fair(takes, pwd, open, u, p, kept[u], living) /\ p.client <= l /\ SameIdle(p, push[u])
  <2>1. CASE /\ p.at = ok.at /\ p.client # 0 /\ p.client <= l /\ p.tries = ok.tries
             /\ p.result = ok.result /\ p.smooth = ok.smooth
    <3>1. p.at = "build" /\ p.result = ""
      BY Zenon, <1>2, <1>7, <2>1
    <3>2. p.tries = MAX_RETRY
      BY Zenon, <1>2, <1>7, <2>1
    <3>3. ~(p.tries < MAX_RETRY)
      BY <3>2, SharedAssumption
    <3>4. SameIdle(p, push[u])
      BY Zenon, <1>1, <3>1 DEF SameIdle
    <3> QED BY Zenon, <2>1, <3>1, <3>3, <3>4 DEF Fair
  <2>2. CASE living = alive[u] /\ l = login[u] /\ p = Qr!Lost(failed)
    <3>1. p.at = "done" /\ p.smooth = FALSE
      BY Zenon, <1>3, <2>2, QrLost
    <3>2. SameIdle(p, push[u])
      BY <1>1, <3>1 DEF SameIdle
    <3>3. p.client <= l
      <4>1. p.client = 0
        BY Zenon, <1>3, <2>2, QrLost
      <4> QED BY <4>1
    <3> QED BY <3>1, <3>2, <3>3 DEF Fair
  <2>3. CASE living = alive[u] /\ l = login[u] /\ p = failed /\ login[u] \notin alive[u] /\ u \notin pwd
    <3>1. p.at = "done"
      BY <1>3, <2>3
    <3>2. SameIdle(p, push[u])
      BY <1>1, <3>1 DEF SameIdle
    <3>3. p.client <= l
      <4>1. p.client = 0
        BY <1>3, <2>3
      <4> QED BY <4>1
    <3>4. living = {}
      BY <1>6, <2>3 DEF Numbered
    <3> QED BY <2>3, <3>1, <3>2, <3>3, <3>4 DEF Fair
  <2> QED BY <1>5, <2>1, <2>2, <2>3 DEF RecoveredTo
<1>9. /\ push' = [push EXCEPT ![u] = p] /\ login' = [login EXCEPT ![u] = l]
      /\ cache' = [cache EXCEPT ![u] = c] /\ alive' = [alive EXCEPT ![u] = living]
      /\ kept' = [kept EXCEPT ![u] = kept[u]] /\ Numbered(u, kept[u], living, l, c)
      /\ UNCHANGED <<takes, listed, pwd, open>> /\ signed' \subseteq User
      /\ kept[u] \in 0..MaxLogins
  BY Zenon, <1>1, <1>5, QrTypes, QrFields DEF RecoveredTo
<1> QED BY Zenon, <1>8, <1>9, QrOne

\* Build: the request object of the user is taken, or made with this client.
LEMMA QrBuild ==
  ASSUME QrInv, NEW u \in User, Qr!Build(u)
  PROVE  QrInv'
<1>1. /\ push[u].at = "build" /\ Qr!TypeOK
      /\ UNCHANGED <<takes, listed, pwd, login, alive, cache, open, signed>>
  BY DEF QrInv, Qr!Build, Qr!At, Qr!people
<1>2. /\ Fair(takes, pwd, open, u, push[u], kept[u], alive[u])
      /\ Numbered(u, kept[u], alive[u], login[u], cache[u])
      /\ push[u].client <= login[u]
  BY DEF QrInv
<1>f. /\ push[u] \in Pushes /\ push[u].client \in 0..MaxLogins /\ push[u].tries \in 0..MAX_RETRY
      /\ login[u] \in 0..MaxLogins /\ cache[u] \in 0..MaxLogins /\ kept[u] \in 0..MaxLogins
      /\ alive[u] \in SUBSET (0..MaxLogins) /\ signed' \subseteq User
  BY Zenon, <1>1, QrFields, QrTypes
<1>3. push[u].client # 0 /\ (push[u].tries < MAX_RETRY => kept[u] # 0)
  BY Zenon, <1>1, <1>2 DEF Fair
<1>4. CASE push[u].tries = 0 /\ push' = [push EXCEPT ![u] = Qr!Done(push[u], "error")] /\ UNCHANGED kept
  <2>1. PICK p \in Pushes : /\ p = Qr!Done(push[u], "error") /\ p.at = "done" /\ p.client = 0
                            /\ p.result = "error" /\ p.smooth = push[u].smooth
    BY <1>f, QrError
  <2>3. SameIdle(p, push[u])
    BY <1>1, <2>1 DEF SameIdle
  <2>4. p.client <= login[u]
    <3>1. p.client = 0
      BY <2>1
    <3> QED BY <1>f, <3>1
  <2>5. push[u].tries < MAX_RETRY
    BY <1>4, SharedAssumption
  <2>6. push[u].smooth /\ u \in takes => kept[u] \notin alive[u]
    BY Zenon, <1>1, <1>2, <2>5 DEF Fair
  <2>7. kept[u] # 0
    BY <1>3, <2>5
  <2>9. Fair(takes, pwd, open, u, p, kept[u], alive[u])
    BY Zenon, <2>1, <2>6, <2>7 DEF Fair
  <2>8. push' = [push EXCEPT ![u] = p]
    BY <1>4, <2>1
  <2> QED BY Zenon, <1>1, <1>4, <1>f, <2>9, <2>1, <2>3, <2>4, <2>7, <2>8, QrMoves
<1>5. CASE /\ push[u].tries # 0 /\ kept' = [kept EXCEPT ![u] = Qr!AutoSignRequest(u, push[u].client)]
           /\ push' = [push EXCEPT ![u] = [push[u] EXCEPT !.at = "send", !.tries = push[u].tries - 1]]
  <2>2. PICK q \in Pushes : /\ q = [push[u] EXCEPT !.at = "send"] /\ q.at = "send" /\ q.client = push[u].client
                            /\ q.tries = push[u].tries /\ q.result = push[u].result /\ q.smooth = push[u].smooth
    BY <1>f, QrSendAt
  <2> DEFINE p == [q EXCEPT !.tries = push[u].tries - 1]
             k == Qr!AutoSignRequest(u, push[u].client)
  <2>1. push[u].tries - 1 \in 0..MAX_RETRY /\ push[u].tries - 1 < MAX_RETRY
    BY <1>5, <1>f, SharedAssumption
  <2>4. push' = [push EXCEPT ![u] = p]
    BY <1>5, <2>2
  <2>5. /\ p \in Pushes /\ p.at = q.at /\ p.client = push[u].client /\ p.tries = push[u].tries - 1
        /\ p.result = push[u].result /\ p.smooth = push[u].smooth
    <3>1. /\ q.client = push[u].client /\ q.result = push[u].result /\ q.smooth = push[u].smooth
      BY <2>2
    <3> QED BY <2>1, <3>1, QrTries
  <2> HIDE DEF p
  <2>6. k \in 0..MaxLogins /\ k # 0 /\ Numbered(u, k, alive[u], login[u], cache[u])
    <3>1. CASE kept[u] # 0
      BY <1>2, <1>f, <3>1 DEF Qr!AutoSignRequest
    <3>2. CASE kept[u] = 0
      <4>1. k = push[u].client /\ k # 0
        BY <1>3, <3>2 DEF Qr!AutoSignRequest
      <4>2. k \in 0..MaxLogins /\ k <= login[u]
        BY <1>2, <1>f, <4>1
      <4> HIDE DEF k
      <4> QED BY <1>2, <4>1, <4>2 DEF Numbered
    <3> QED BY <3>1, <3>2
  <2> HIDE DEF k
  <2>7. p.at = "send" /\ SameIdle(p, push[u])
    BY <1>1, <2>2, <2>5 DEF SameIdle
  <2>8. p.client <= login[u] /\ p.tries < MAX_RETRY
    BY <1>2, <1>f, <2>1, <2>5
  <2>9. p.result = ""
    <3>1. push[u].result # "" => push[u].at = "done"
      BY Zenon, <1>2 DEF Fair
    <3> QED BY Zenon, <1>1, <2>5, <3>1
  <2>10. Fair(takes, pwd, open, u, p, k, alive[u])
    <3>1. p.client # 0
      <4>1. p.client = push[u].client
        BY <2>5
      <4> QED BY <1>3, <4>1
    <3> QED BY Zenon, <2>6, <2>7, <2>8, <2>9, <3>1 DEF Fair
  <2>11. /\ login' = [login EXCEPT ![u] = login[u]] /\ cache' = [cache EXCEPT ![u] = cache[u]]
         /\ alive' = [alive EXCEPT ![u] = alive[u]] /\ kept' = [kept EXCEPT ![u] = k]
    BY <1>1, <1>5, QrTypes DEF k
  <2> QED BY Zenon, <1>1, <1>f, <2>4, <2>5, <2>6, <2>7, <2>8, <2>10, <2>11, QrOne
<1> QED
  <2>1. [push EXCEPT ![u] = [push[u] EXCEPT !.at = "send", !.tries = @ - 1]]
          = [push EXCEPT ![u] = [push[u] EXCEPT !.at = "send", !.tries = push[u].tries - 1]]
    BY <1>f DEF Pushes
  <2> QED BY <1>4, <1>5, <2>1 DEF Qr!Build, Qr!Goto

\* Look: a push takes the cached client as it is.
LEMMA QrLooks ==
  ASSUME QrInv, NEW u \in User, Qr!Look(u)
  PROVE  QrInv'
<1>1. /\ push[u].at = "look" /\ Qr!TypeOK
      /\ UNCHANGED <<takes, listed, pwd, login, alive, cache, kept, open, signed>>
  BY DEF QrInv, Qr!Look, Qr!At, Qr!people
<1>2. /\ Fair(takes, pwd, open, u, push[u], kept[u], alive[u])
      /\ Numbered(u, kept[u], alive[u], login[u], cache[u])
  BY DEF QrInv
<1>f. /\ push[u] \in Pushes /\ login[u] \in 0..MaxLogins /\ cache[u] \in 0..MaxLogins
      /\ signed' \subseteq User
  BY Zenon, <1>1, QrFields, QrTypes
<1>3. push[u].tries = MAX_RETRY /\ push[u].client <= login[u]
  BY Zenon, <1>1, <1>2 DEF Fair, QrInv
<1>4. push[u].result = ""
  <2>1. push[u].result # "" => push[u].at = "done"
    BY Zenon, <1>2 DEF Fair
  <2> QED BY Zenon, <1>1, <2>1
<1>5. CASE cache[u] # 0 /\ push' = [push EXCEPT ![u] = [push[u] EXCEPT !.at = "build", !.client = cache[u]]]
  <2>1. PICK q \in Pushes : /\ q = [push[u] EXCEPT !.at = "build"] /\ q.at = "build" /\ q.client = push[u].client
                            /\ q.tries = push[u].tries /\ q.result = push[u].result /\ q.smooth = push[u].smooth
    BY <1>f, QrBuildAt
  <2> DEFINE p == [q EXCEPT !.client = cache[u]]
  <2>2. push' = [push EXCEPT ![u] = p]
    BY <1>5, <2>1
  <2>3. /\ p \in Pushes /\ p.at = q.at /\ p.client = cache[u] /\ p.tries = q.tries
        /\ p.result = q.result
    BY <1>f, QrClient
  <2> HIDE DEF p
  <2>4. p.at = "build" /\ p.result = "" /\ SameIdle(p, push[u])
    BY Zenon, <1>1, <1>4, <2>1, <2>3 DEF SameIdle
  <2>5. ~(p.tries < MAX_RETRY)
    <3>1. p.tries = MAX_RETRY
      BY <1>3, <2>1, <2>3
    <3> QED BY <3>1, SharedAssumption
  <2>6. p.client <= login[u] /\ p.client # 0
    BY <1>2, <1>5, <2>3 DEF Numbered
  <2>7. Fair(takes, pwd, open, u, p, kept[u], alive[u])
    BY Zenon, <2>4, <2>5, <2>6 DEF Fair
  <2> QED BY Zenon, <1>1, <1>f, <2>2, <2>3, <2>4, <2>6, <2>7, QrMoves
<1>6. CASE push' = [push EXCEPT ![u] = [push[u] EXCEPT !.at = "recover"]]
  <2>1. PICK q \in Pushes : /\ q = [push[u] EXCEPT !.at = "recover"] /\ q.at = "recover" /\ q.client = push[u].client
                            /\ q.tries = push[u].tries /\ q.result = push[u].result /\ q.smooth = push[u].smooth
    BY <1>f, QrRecoverAt
  <2>2. q.result = "" /\ SameIdle(q, push[u])
    BY Zenon, <1>1, <1>4, <2>1 DEF SameIdle
  <2>3. q.tries = MAX_RETRY /\ q.client <= login[u]
    <3>1. q.tries = push[u].tries /\ q.client = push[u].client
      BY <2>1
    <3> QED BY <1>3, <3>1
  <2>4. Fair(takes, pwd, open, u, q, kept[u], alive[u])
    BY Zenon, <2>1, <2>2, <2>3 DEF Fair
  <2>5. push' = [push EXCEPT ![u] = q]
    BY <1>6, <2>1
  <2> QED BY Zenon, <1>1, <1>f, <2>2, <2>3, <2>4, <2>5, QrMoves
<1> QED BY Zenon, <1>5, <1>6 DEF Qr!Look, Qr!Goto

\* A step that cannot give its user up.
LEMMA QrSendOrProbe ==
  ASSUME QrInv, NEW u \in User, NEW p \in Pushes, p.client <= login[u], push[u].at \in {"send", "probe", "list"},
         \/ p.at = "done" /\ (p.smooth => p.result = "response" \/ u \notin takes \/ open = FALSE)
         \/ /\ p.at \in {"probe", "list", "build"} /\ p.client = push[u].client
            /\ p.tries = push[u].tries /\ p.result = push[u].result
            /\ p.smooth /\ u \in takes => kept[u] \notin alive[u]
  PROVE  Fair(takes, pwd, open, u, p, kept[u], alive[u]) /\ SameIdle(p, push[u])
<1>2. Fair(takes, pwd, open, u, push[u], kept[u], alive[u])
  BY DEF QrInv
<1>3. push[u].client # 0 /\ push[u].tries < MAX_RETRY /\ kept[u] # 0
  BY Zenon, <1>2 DEF Fair
<1>4. push[u].result = ""
  <2>1. push[u].result # "" => push[u].at = "done"
    BY Zenon, <1>2 DEF Fair
  <2> QED BY Zenon, <2>1
<1>5. SameIdle(p, push[u])
  BY DEF SameIdle
<1>6. CASE p.at = "done" /\ (p.smooth => p.result = "response" \/ u \notin takes \/ open = FALSE)
  <2>1. ~(p.result \in {"none", "error"} /\ p.smooth /\ open /\ u \in takes)
    BY <1>6
  <2> QED BY <1>5, <1>6, <2>1 DEF Fair
<1>7. CASE /\ p.at \in {"probe", "list", "build"} /\ p.client = push[u].client
           /\ p.tries = push[u].tries /\ p.result = push[u].result
           /\ p.smooth /\ u \in takes => kept[u] \notin alive[u]
  <2>1. p.client # 0 /\ p.tries < MAX_RETRY
    <3>1. p.client = push[u].client /\ p.tries = push[u].tries
      BY <1>7
    <3> QED BY <1>3, <3>1
  <2>2. p.result = ""
    BY Zenon, <1>4, <1>7
  <2> QED BY Zenon, <1>3, <1>5, <1>7, <2>1, <2>2 DEF Fair
<1> QED BY Zenon, <1>6, <1>7

\* Send: the code is sent, counted or not, and the reply may be lost.
LEMMA QrSends ==
  ASSUME QrInv, NEW u \in User, Qr!Send(u)
  PROVE  QrInv'
<1>1. /\ push[u].at = "send" /\ Qr!TypeOK
      /\ UNCHANGED <<takes, listed, pwd, login, alive, cache, kept, open>>
  BY DEF QrInv, Qr!Send, Qr!At, Qr!people
<1>f. /\ push[u] \in Pushes /\ push[u].client <= login[u] /\ login[u] \in Nat
  <2>1. login[u] \in 0..MaxLogins
    BY Zenon, <1>1, QrFields
  <2>2. push[u] \in Pushes
    BY Zenon, <1>1, QrFields
  <2>3. push[u].client <= login[u]
    BY DEF QrInv
  <2> QED BY <2>1, <2>2, <2>3, SharedAssumption
<1>s. signed' \subseteq User
  BY <1>1, QrTypes DEF Qr!Send
<1>2. PICK probe \in Pushes : /\ probe = [push[u] EXCEPT !.at = "probe"] /\ probe.at = "probe"
                              /\ probe.client = push[u].client /\ probe.tries = push[u].tries
                              /\ probe.result = push[u].result /\ probe.smooth = push[u].smooth
  BY <1>f, QrProbeAt
<1>3. PICK response \in Pushes :
          /\ response = Qr!Done(push[u], "response") /\ response.at = "done" /\ response.client = 0
          /\ response.result = "response" /\ response.smooth = push[u].smooth
  BY <1>f, QrResponse
<1>4. \/ push' = [push EXCEPT ![u] = response]
      \/ u \notin takes /\ push' = [push EXCEPT ![u] = probe]
      \/ push' = [push EXCEPT ![u] = Qr!Lost(probe)]
      \/ kept[u] \notin alive[u] /\ push' = [push EXCEPT ![u] = probe]
  BY <1>2, <1>3 DEF Qr!Send, Qr!Goto
<1>5. CASE push' = [push EXCEPT ![u] = response]
  <2>1. response.client <= login[u]
    <3>1. response.client = 0
      BY <1>3
    <3> QED BY <1>f, <3>1
  <2>2. Fair(takes, pwd, open, u, response, kept[u], alive[u]) /\ SameIdle(response, push[u])
    BY Zenon, <1>1, <1>3, <2>1, QrSendOrProbe
  <2> QED BY Zenon, <1>1, <1>s, <1>5, <2>1, <2>2, QrMoves
<1>6. probe.client <= login[u]
  <2>1. probe.client = push[u].client
    BY <1>2
  <2> QED BY <1>f, <2>1
<1>7. CASE (u \notin takes \/ kept[u] \notin alive[u]) /\ push' = [push EXCEPT ![u] = probe]
  <2>2. Fair(takes, pwd, open, u, probe, kept[u], alive[u]) /\ SameIdle(probe, push[u])
    BY Zenon, <1>1, <1>2, <1>6, <1>7, QrSendOrProbe
  <2> QED BY Zenon, <1>1, <1>s, <1>6, <1>7, <2>2, QrMoves
<1>8. CASE push' = [push EXCEPT ![u] = Qr!Lost(probe)]
  <2>1. PICK p : p = Qr!Lost(probe)
    OBVIOUS
  <2>2. /\ p \in Pushes /\ p.smooth = FALSE /\ p.at = probe.at /\ p.client = probe.client
        /\ p.tries = probe.tries /\ p.result = probe.result
    BY Zenon, <2>1, QrLost
  <2>3. p.client <= login[u]
    <3>1. p.client = probe.client
      BY <2>2
    <3> QED BY <1>6, <3>1
  <2>4. Fair(takes, pwd, open, u, p, kept[u], alive[u]) /\ SameIdle(p, push[u])
    <3>1. p.at = "probe" /\ p.client = push[u].client /\ p.tries = push[u].tries /\ p.result = push[u].result
      BY <1>2, <2>2
    <3> QED BY Zenon, <1>1, <2>2, <2>3, <3>1, QrSendOrProbe
  <2>5. push' = [push EXCEPT ![u] = p]
    BY <1>8, <2>1
  <2> QED BY Zenon, <1>1, <1>s, <2>2, <2>3, <2>4, <2>5, QrMoves
<1> QED BY <1>4, <1>5, <1>7, <1>8

\* Probe: a try failed, and the session of its client is asked about.
LEMMA QrProbes ==
  ASSUME QrInv, NEW u \in User, Qr!Probe(u)
  PROVE  QrInv'
<1>1. /\ push[u].at = "probe" /\ Qr!TypeOK
      /\ UNCHANGED <<takes, listed, pwd, kept, open, signed>>
  BY DEF QrInv, Qr!Probe, Qr!At, Qr!people
<1>f. /\ push[u] \in Pushes /\ signed' \subseteq User
  BY Zenon, <1>1, QrFields, QrTypes
<1>g. push[u].client <= login[u] /\ Fair(takes, pwd, open, u, push[u], kept[u], alive[u])
  BY DEF QrInv
<1>h. push[u].client # 0 /\ push[u].tries < MAX_RETRY /\ kept[u] # 0 /\ push[u].result = ""
  <2>1. push[u].result # "" => push[u].at = "done"
    BY Zenon, <1>g DEF Fair
  <2> QED BY Zenon, <1>1, <1>g, <2>1 DEF Fair
<1>i. push[u].smooth /\ u \in takes => kept[u] \notin alive[u]
  BY Zenon, <1>1, <1>g DEF Fair
<1>2. PICK again \in Pushes : /\ again = [push[u] EXCEPT !.at = "build"] /\ again.at = "build"
                              /\ again.client = push[u].client /\ again.tries = push[u].tries
                              /\ again.result = push[u].result /\ again.smooth = push[u].smooth
  BY <1>f, QrBuildAt
<1>3. PICK on \in Pushes : /\ on = [push[u] EXCEPT !.at = "list"] /\ on.at = "list"
                           /\ on.client = push[u].client /\ on.tries = push[u].tries
                           /\ on.result = push[u].result /\ on.smooth = push[u].smooth
  BY <1>f, QrListAt
<1>4. \/ push' = [push EXCEPT ![u] = on] /\ UNCHANGED <<login, alive, cache>>
      \/ \E w \in Pushes : w \in {again, Qr!Lost(again)} /\ Qr!Recovered(u, w, w)
  <2>1. Qr!Lost(again) \in Pushes
    BY Zenon, QrLost
  <2> QED BY <1>2, <1>3, <2>1 DEF Qr!Probe, Qr!Goto
<1>5. CASE push' = [push EXCEPT ![u] = on] /\ UNCHANGED <<login, alive, cache>>
  <2>1. on.client <= login[u]
    <3>1. on.client = push[u].client
      BY <1>3
    <3> QED BY <1>g, <3>1
  <2>2. Fair(takes, pwd, open, u, on, kept[u], alive[u]) /\ SameIdle(on, push[u])
    BY Zenon, <1>1, <1>3, <1>i, <2>1, QrSendOrProbe
  <2> QED BY Zenon, <1>1, <1>f, <1>5, <2>1, <2>2, QrMoves
<1>6. ASSUME NEW w \in Pushes, w \in {again, Qr!Lost(again)}, Qr!Recovered(u, w, w) PROVE QrInv'
  <2>1. w.at = "build" /\ w.result = "" /\ (w.smooth => push[u].smooth)
    <3>1. w.at = again.at /\ w.result = again.result /\ (w.smooth => again.smooth)
      BY Zenon, <1>6, QrLost
    <3> QED BY Zenon, <3>1, <1>2, <1>h
  <2>2. w.client = push[u].client /\ w.tries = push[u].tries
    <3>1. w.client = again.client /\ w.tries = again.tries
      BY Zenon, <1>6, QrLost
    <3>2. again.client = push[u].client /\ again.tries = push[u].tries
      BY <1>2
    <3> QED BY <3>1, <3>2
  <2>3. PICK p \in Pushes, l \in 0..MaxLogins, c \in 0..MaxLogins, living \in SUBSET (0..MaxLogins) :
          RecoveredTo(u, w, w, p, l, c, living)
    BY <1>6, QrRecovered
  <2>4. /\ p.at = "build" /\ p.result = "" /\ (p.smooth => push[u].smooth)
    <3>1. p.at = w.at /\ p.result = w.result /\ (p.smooth => w.smooth)
      BY Zenon, <2>3, QrLost DEF RecoveredTo
    <3> QED BY Zenon, <2>1, <3>1
  <2>5. /\ p.client # 0 /\ p.tries = w.tries /\ p.client <= l
    <3>1. CASE p.client # 0 /\ p.client <= l /\ p.tries = w.tries
      BY <3>1
    <3>2. CASE l = login[u] /\ p.client = w.client /\ p.tries = w.tries
      BY Zenon, <1>g, <1>h, <2>2, <3>2
    <3> QED BY Zenon, <2>3, <3>1, <3>2, QrLost DEF RecoveredTo
  <2>6. kept[u] \in living => kept[u] \in alive[u]
    BY <2>3 DEF RecoveredTo
  <2>7. p.tries < MAX_RETRY
    BY Zenon, <1>h, <2>2, <2>5
  <2>8. Fair(takes, pwd, open, u, p, kept[u], living)
    BY Zenon, <1>h, <1>i, <2>4, <2>5, <2>6, <2>7 DEF Fair
  <2>9. SameIdle(p, push[u])
    BY Zenon, <1>1, <2>4 DEF SameIdle
  <2>10. /\ push' = [push EXCEPT ![u] = p] /\ login' = [login EXCEPT ![u] = l]
         /\ cache' = [cache EXCEPT ![u] = c] /\ alive' = [alive EXCEPT ![u] = living]
         /\ kept' = [kept EXCEPT ![u] = kept[u]] /\ Numbered(u, kept[u], living, l, c)
         /\ kept[u] \in 0..MaxLogins
    BY Zenon, <1>1, <2>3, QrTypes, QrFields DEF RecoveredTo
  <2> QED BY Zenon, <1>1, <1>f, <2>5, <2>8, <2>9, <2>10, QrOne
<1> QED BY <1>4, <1>5, <1>6

\* List: the roll call is looked for among those of the user.
LEMMA QrLists ==
  ASSUME QrInv, NEW u \in User, Qr!List(u)
  PROVE  QrInv'
<1>1. /\ push[u].at = "list" /\ Qr!TypeOK
      /\ UNCHANGED <<takes, listed, pwd, login, alive, cache, kept, open, signed>>
  BY DEF QrInv, Qr!List, Qr!At, Qr!people
<1>f. /\ push[u] \in Pushes /\ signed' \subseteq User /\ open \in BOOLEAN
  BY Zenon, <1>1, QrFields, QrTypes
<1>g. push[u].client <= login[u] /\ Fair(takes, pwd, open, u, push[u], kept[u], alive[u])
  BY DEF QrInv
<1>l. login[u] \in Nat
  <2>1. login[u] \in 0..MaxLogins
    BY Zenon, <1>1, QrFields
  <2> QED BY <2>1, SharedAssumption
<1>i. push[u].smooth /\ u \in takes => kept[u] \notin alive[u]
  BY Zenon, <1>1, <1>g DEF Fair
<1>2. PICK again \in Pushes : /\ again = [push[u] EXCEPT !.at = "build"] /\ again.at = "build"
                              /\ again.client = push[u].client /\ again.tries = push[u].tries
                              /\ again.result = push[u].result /\ again.smooth = push[u].smooth
  BY <1>f, QrBuildAt
<1>3. PICK none \in Pushes : /\ none = Qr!Done(push[u], "none") /\ none.at = "done" /\ none.client = 0
                             /\ none.result = "none" /\ none.smooth = push[u].smooth
  BY <1>f, QrNone
<1>4. PICK lost \in Pushes : lost = Qr!Lost(push[u]) /\ lost.smooth = FALSE
  BY Zenon, <1>f, QrLost
<1>5. PICK error \in Pushes : /\ error = Qr!Done(lost, "error") /\ error.at = "done" /\ error.client = 0
                              /\ error.result = "error" /\ error.smooth = lost.smooth
  BY QrError
<1>6. \/ push' = [push EXCEPT ![u] = again]
      \/ ~(open /\ u \in takes) /\ push' = [push EXCEPT ![u] = none]
      \/ push' = [push EXCEPT ![u] = error]
  BY <1>2, <1>3, <1>4, <1>5 DEF Qr!List, Qr!Goto
<1>7. CASE push' = [push EXCEPT ![u] = again]
  <2>1. again.client <= login[u]
    <3>1. again.client = push[u].client
      BY <1>2
    <3> QED BY <1>g, <3>1
  <2>2. Fair(takes, pwd, open, u, again, kept[u], alive[u]) /\ SameIdle(again, push[u])
    BY Zenon, <1>1, <1>2, <1>i, <2>1, QrSendOrProbe
  <2> QED BY Zenon, <1>1, <1>f, <1>7, <2>1, <2>2, QrMoves
<1>8. CASE ~(open /\ u \in takes) /\ push' = [push EXCEPT ![u] = none]
  <2>1. none.client <= login[u]
    <3>1. none.client = 0
      BY <1>3
    <3> QED BY <1>l, <3>1
  <2>2. u \notin takes \/ open = FALSE
    BY <1>8, <1>f
  <2>3. Fair(takes, pwd, open, u, none, kept[u], alive[u]) /\ SameIdle(none, push[u])
    BY Zenon, <1>1, <1>3, <2>1, <2>2, QrSendOrProbe
  <2> QED BY Zenon, <1>1, <1>f, <1>8, <2>1, <2>3, QrMoves
<1>9. CASE push' = [push EXCEPT ![u] = error]
  <2>1. error.client <= login[u]
    <3>1. error.client = 0
      BY <1>5
    <3> QED BY <1>l, <3>1
  <2>2. ~error.smooth
    BY <1>4, <1>5
  <2>3. Fair(takes, pwd, open, u, error, kept[u], alive[u]) /\ SameIdle(error, push[u])
    BY Zenon, <1>1, <1>5, <2>1, <2>2, QrSendOrProbe
  <2> QED BY Zenon, <1>1, <1>f, <1>9, <2>1, <2>3, QrMoves
<1> QED BY <1>6, <1>7, <1>8, <1>9

\* SpecSign: another command makes the request object of the user.
LEMMA QrSpecSigns ==
  ASSUME QrInv, NEW u \in User, Qr!SpecSign(u)
  PROVE  QrInv'
<1>1. /\ UNCHANGED <<takes, listed, pwd, login, alive, cache, open, signed, push>> /\ Qr!TypeOK
      /\ cache[u] \in alive[u] /\ kept[u] = 0 /\ kept' = [kept EXCEPT ![u] = cache[u]]
  BY DEF QrInv, Qr!SpecSign, Qr!people
<1>f. /\ push[u] \in Pushes /\ login[u] \in 0..MaxLogins /\ cache[u] \in 0..MaxLogins
      /\ alive[u] \in SUBSET (0..MaxLogins) /\ signed' \subseteq User
  BY Zenon, <1>1, QrFields, QrTypes
<1>g. /\ push[u].client <= login[u] /\ Fair(takes, pwd, open, u, push[u], kept[u], alive[u])
      /\ Numbered(u, kept[u], alive[u], login[u], cache[u])
  BY DEF QrInv
<1>2. cache[u] # 0 /\ alive[u] # {} /\ Numbered(u, cache[u], alive[u], login[u], cache[u])
  BY <1>1, <1>g DEF Numbered
<1>3. Fair(takes, pwd, open, u, push[u], cache[u], alive[u])
  BY Zenon, <1>1, <1>2, <1>g DEF Fair
<1>4. SameIdle(push[u], push[u])
  BY DEF SameIdle
<1>5. /\ push' = [push EXCEPT ![u] = push[u]] /\ login' = [login EXCEPT ![u] = login[u]]
      /\ cache' = [cache EXCEPT ![u] = cache[u]] /\ alive' = [alive EXCEPT ![u] = alive[u]]
  BY <1>1, QrTypes
<1> QED BY Zenon, <1>1, <1>f, <1>g, <1>2, <1>3, <1>4, <1>5, QrOne

\* SessionEnds: the school ends the sessions of a user.
LEMMA QrSessionEnds ==
  ASSUME QrInv, NEW u \in User, Qr!SessionEnds(u)
  PROVE  QrInv'
<1>1. /\ UNCHANGED <<takes, listed, pwd, login, cache, kept, open, signed, push>> /\ Qr!TypeOK
      /\ alive' = [alive EXCEPT ![u] = {}]
  BY DEF QrInv, Qr!SessionEnds, Qr!people
<1>f. /\ push[u] \in Pushes /\ login[u] \in 0..MaxLogins /\ cache[u] \in 0..MaxLogins
      /\ kept[u] \in 0..MaxLogins /\ signed' \subseteq User
  BY Zenon, <1>1, QrFields, QrTypes
<1>g. /\ push[u].client <= login[u] /\ Fair(takes, pwd, open, u, push[u], kept[u], alive[u])
      /\ Numbered(u, kept[u], alive[u], login[u], cache[u])
  BY DEF QrInv
<1>2. Numbered(u, kept[u], {}, login[u], cache[u])
  BY <1>g DEF Numbered
<1>3. Fair(takes, pwd, open, u, push[u], kept[u], {})
  BY Zenon, <1>g DEF Fair
<1>4. SameIdle(push[u], push[u])
  BY DEF SameIdle
<1>5. /\ push' = [push EXCEPT ![u] = push[u]] /\ login' = [login EXCEPT ![u] = login[u]]
      /\ cache' = [cache EXCEPT ![u] = cache[u]] /\ kept' = [kept EXCEPT ![u] = kept[u]]
  BY <1>1, QrTypes
<1>6. {} \in SUBSET (0..MaxLogins)
  OBVIOUS
<1> QED BY Zenon, <1>1, <1>f, <1>g, <1>2, <1>3, <1>4, <1>5, <1>6, QrOne

\* Closes: the roll call is closed.
LEMMA QrCloses ==
  ASSUME QrInv, Qr!Closes
  PROVE  QrInv'
<1>1. /\ UNCHANGED <<takes, listed, pwd, login, cache, alive, kept, signed, push>> /\ Qr!TypeOK
      /\ open' = FALSE
  BY DEF QrInv, Qr!Closes, Qr!people
<1>2. Qr!TypeOK'
  BY Zenon, <1>1 DEF Qr!TypeOK
<1>3. ASSUME NEW u \in User PROVE Fair(takes, pwd, open, u, push[u], kept[u], alive[u])'
  <2>1. Fair(takes, pwd, open, u, push[u], kept[u], alive[u])
    BY DEF QrInv
  <2>2. Fair(takes, pwd, FALSE, u, push[u], kept[u], alive[u])
    BY Zenon, <2>1 DEF Fair
  <2> QED BY Zenon, <1>1, <2>2
<1>4. \A u \in User : Numbered(u, kept[u], alive[u], login[u], cache[u])'
  BY <1>1 DEF QrInv, Numbered
<1>5. (\A u \in User : push[u].client <= login[u])'
  BY <1>1 DEF QrInv
<1>6. LeftOut'
  BY <1>1 DEF QrInv, LeftOut, Qr!Audience
<1> QED BY <1>2, <1>3, <1>4, <1>5, <1>6 DEF QrInv

\* QrSignRequest: everyone the index lists for the course gets a push.
LEMMA QrSignRequests ==
  ASSUME QrInv, Qr!QrSignRequest
  PROVE  QrInv'
<1>1. /\ UNCHANGED <<takes, listed, pwd, login, cache, alive, kept, open, signed>> /\ Qr!TypeOK
      /\ push' = [u \in User |-> IF u \in Qr!Audience THEN [Qr!NoPush EXCEPT !.at = "look"] ELSE Qr!NoPush]
  BY DEF QrInv, Qr!QrSignRequest, Qr!people
<1>2. Qr!NoPush \in Pushes
  <2>1. 0 \in 0..MaxLogins /\ MAX_RETRY \in 0..MAX_RETRY
    BY SharedAssumption
  <2> QED BY <2>1 DEF Qr!NoPush, Pushes, Outcomes, Qr!Step
<1>3. Qr!NoPush.at = "idle" /\ Qr!NoPush.result = ""
  BY DEF Qr!NoPush
<1>4. Qr!NoPush.client = 0 /\ Qr!NoPush.tries = MAX_RETRY
  BY DEF Qr!NoPush
<1>5. PICK look \in Pushes : /\ look = [Qr!NoPush EXCEPT !.at = "look"] /\ look.at = "look"
                             /\ look.client = Qr!NoPush.client /\ look.tries = Qr!NoPush.tries
                             /\ look.result = Qr!NoPush.result /\ look.smooth = Qr!NoPush.smooth
  BY <1>2, QrLookAt
<1>6. push' = [u \in User |-> IF u \in Qr!Audience THEN look ELSE Qr!NoPush]
  BY <1>1, <1>5
<1>7. look.client = 0 /\ look.tries = MAX_RETRY
  <2>1. look.client = Qr!NoPush.client /\ look.tries = Qr!NoPush.tries
    BY <1>5
  <2> QED BY <1>4, <2>1
<1>8. look.result = ""
  BY Zenon, <1>3, <1>5
<1>9. Qr!TypeOK'
  <2>1. push' \in [User -> Pushes]
    BY <1>2, <1>6
  <2> QED BY <1>1, <2>1, QrTypes, QrWhole
<1>10. ASSUME NEW u \in User PROVE Fair(takes, pwd, open, u, push[u], kept[u], alive[u])'
  <2>1. Fair(takes, pwd, open, u, look, kept[u], alive[u])
    BY Zenon, <1>5, <1>7, <1>8 DEF Fair
  <2>2. Fair(takes, pwd, open, u, Qr!NoPush, kept[u], alive[u])
    BY Zenon, <1>3 DEF Fair
  <2>3. push'[u] = look \/ push'[u] = Qr!NoPush
    BY <1>6
  <2> QED BY <1>1, <2>1, <2>2, <2>3
<1>11. \A u \in User : Numbered(u, kept[u], alive[u], login[u], cache[u])'
  BY <1>1 DEF QrInv, Numbered
<1>12. (\A u \in User : push[u].client <= login[u])'
  <2> SUFFICES ASSUME NEW u \in User PROVE push'[u].client <= login'[u]
    OBVIOUS
  <2>1. login'[u] \in 0..MaxLogins
    BY Zenon, <1>1, QrFields
  <2>2. push'[u].client = 0
    BY <1>4, <1>6, <1>7
  <2> QED BY <2>1, <2>2
<1>13. LeftOut'
  <2>1. \A u \in User : push'[u].at = "idle" <=> u \notin Qr!Audience
    BY Zenon, <1>3, <1>5, <1>6
  <2>2. Qr!Audience' = Qr!Audience
    BY <1>1 DEF Qr!Audience
  <2> QED BY <2>1, <2>2 DEF LeftOut
<1> QED BY <1>9, <1>10, <1>11, <1>12, <1>13 DEF QrInv

\* Every step keeps the invariant.
LEMMA QrStep ==
  QrInv /\ (Qr!Next \/ UNCHANGED <<cache, signed, qrVars, loginVars>>) => QrInv'
<1> SUFFICES ASSUME QrInv, Qr!Next \/ UNCHANGED <<cache, signed, qrVars, loginVars>> PROVE QrInv'
  OBVIOUS
<1>1. CASE Qr!Next
  BY <1>1, QrLooks, QrRecovers, QrBuild, QrSends, QrProbes, QrLists, QrSpecSigns, QrSessionEnds,
     QrCloses, QrSignRequests DEF Qr!Next
<1>2. CASE UNCHANGED <<cache, signed, qrVars, loginVars>>
  <2>1. UNCHANGED <<takes, listed, pwd, login, cache, alive, kept, open, signed, push>>
    BY <1>2 DEF qrVars, loginVars
  <2>2. Qr!TypeOK'
    BY Zenon, <2>1 DEF QrInv, Qr!TypeOK
  <2>3. \A u \in User : Fair(takes, pwd, open, u, push[u], kept[u], alive[u])'
    BY <2>1 DEF QrInv
  <2>4. \A u \in User : Numbered(u, kept[u], alive[u], login[u], cache[u])'
    BY <2>1 DEF QrInv, Numbered
  <2>5. (\A u \in User : push[u].client <= login[u])'
    BY <2>1 DEF QrInv
  <2>6. LeftOut'
    BY <2>1 DEF QrInv, LeftOut, Qr!Audience
  <2> QED BY <2>2, <2>3, <2>4, <2>5, <2>6 DEF QrInv
<1> QED BY <1>1, <1>2

\* The invariant has the properties the runs check.
LEMMA QrHold ==
  QrInv => Qr!TypeOK /\ Qr!GivenUpForAReason /\ Qr!LeftOutOnlyByIndex
<1> SUFFICES ASSUME QrInv PROVE Qr!TypeOK /\ Qr!GivenUpForAReason /\ Qr!LeftOutOnlyByIndex
  OBVIOUS
<1>1. Qr!TypeOK
  BY DEF QrInv
<1>2. Qr!GivenUpForAReason
  <2> SUFFICES ASSUME NEW u \in User, push[u].result \in {"none", "error"}, push[u].smooth, open, u \in takes
               PROVE  kept[u] \notin alive[u]
    BY DEF Qr!GivenUpForAReason
  <2>1. Fair(takes, pwd, open, u, push[u], kept[u], alive[u])
    BY Zenon DEF QrInv
  <2> QED BY Zenon, <2>1 DEF Fair
<1>3. Qr!LeftOutOnlyByIndex
  <2> SUFFICES ASSUME NEW v \in User, push[v].at # "idle", NEW u \in takes
               PROVE  push[u].at = "idle" <=> listed # {} /\ u \notin listed
    BY DEF Qr!LeftOutOnlyByIndex, Qr!At
  <2>1. \A w \in User : push[w].at = "idle" <=> w \notin Qr!Audience
    BY DEF QrInv, LeftOut
  <2>2. u \in User
    BY <1>1, QrTypes
  <2> QED BY <2>1, <2>2 DEF Qr!Audience
<1> QED BY <1>1, <1>2, <1>3
-----------------------------------------------------------------------------
(* The queries of a grade page (GpaQuery).                                 *)

\* What a query holds is true of the school's results.
Honest(r) ==
  /\ r.at \in {"enter_apply", "apply"} => r.attempt = 0
  /\ r.at = "sleep" => r.attempt < RESULT_POLL_TRIES
  /\ \A w \in r.seen : results[w].made
  /\ r.outcome = "created" => \A w \in r.seen : ~(results[w].range = r.range /\ results[w].valid)
  /\ r.outcome = "exists" => \A w \in r.seen : results[w].range = r.range
  /\ r.at = "answered" /\ r.answer = "result" =>
       /\ r.wid \in 1..MaxResults /\ results[r.wid].made /\ results[r.wid].range = r.range
       /\ r.outcome = "created" => r.wid \notin r.seen
  /\ r.at = "answered" /\ r.answer = "missing" => \A w \in r.seen : ~results[w].valid

GradesInv ==
  /\ Grades!TypeOK
  /\ \A q \in User : query[q] # Grades!Idle => Honest(query[q])

\* What the type invariant says of each variable of the grade query.
LEMMA GradeTypes ==
  ASSUME Grades!TypeOK
  PROVE  /\ results \in [1..MaxResults -> [made : BOOLEAN, range : Task, valid : BOOLEAN]]
         /\ computing \subseteq Task /\ ticket \in BOOLEAN /\ entered \in BOOLEAN
         /\ query \in [User -> Grades!Asked \cup {Grades!Idle}]
BY DEF Grades!TypeOK, Grades!Wid

\* The fields of a query.
LEMMA GradeFields ==
  ASSUME Grades!TypeOK, NEW q \in User, query[q].at # "idle"
  PROVE  /\ query[q] # Grades!Idle /\ query[q] \in Grades!Asked
         /\ query[q] = [at |-> query[q].at, range |-> query[q].range, outcome |-> query[q].outcome,
                        attempt |-> query[q].attempt, answer |-> query[q].answer, wid |-> query[q].wid,
                        seen |-> query[q].seen]
         /\ query[q].range \in Task /\ query[q].outcome \in {"none", "created", "exists"}
         /\ query[q].attempt \in 0..RESULT_POLL_TRIES /\ query[q].wid \in 1..MaxResults \cup {0}
         /\ query[q].answer \in {"result", "computing", "missing", "error", "none"}
         /\ query[q].seen \subseteq 1..MaxResults
<1>1. query[q] # Grades!Idle
  BY DEF Grades!Idle
<1>2. query[q] \in Grades!Asked
  BY <1>1, GradeTypes
<1> QED BY <1>1, <1>2 DEF Grades!Asked, Grades!Wid, Grades!Answer

\* The query starts with nothing asked, and perhaps an old result.
LEMMA GradesInit == Grades!Init => GradesInv
<1> SUFFICES ASSUME Grades!Init PROVE GradesInv
  OBVIOUS
<1>1. PICK old \in BOOLEAN, r \in Task :
        results = [w \in 1..MaxResults |-> [made |-> w = 1 /\ old, range |-> r, valid |-> w = 1 /\ old]]
  BY DEF Grades!Init, Grades!Wid
<1>2. results \in [1..MaxResults -> [made : BOOLEAN, range : Task, valid : BOOLEAN]]
  BY <1>1
<1>3. /\ computing = {} /\ ticket = TRUE /\ entered = FALSE
      /\ query = [q \in User |-> Grades!Idle]
  BY DEF Grades!Init
<1>4. Grades!TypeOK
  BY Zenon, <1>2, <1>3 DEF Grades!TypeOK, Grades!Wid
<1> QED BY <1>3, <1>4 DEF GradesInv

\* A query that moves on while the results stay.
LEMMA GradeMoves ==
  ASSUME GradesInv, NEW q \in User, NEW r, r \in Grades!Asked \cup {Grades!Idle},
         r = Grades!Idle \/ Honest(r), query' = [query EXCEPT ![q] = r], UNCHANGED <<results, ticket>>,
         computing' \subseteq Task, entered' \in BOOLEAN
  PROVE  GradesInv'
<1>1. Grades!TypeOK'
  BY DEF GradesInv, Grades!TypeOK
<1>2. ASSUME NEW p \in User, query'[p] # Grades!Idle PROVE Honest(query[p])'
  <2>1. CASE p = q
    <3>1. query'[p] = r
      BY <2>1, GradeTypes DEF GradesInv
    <3> QED BY <1>2, <3>1 DEF Honest
  <2>2. CASE p # q
    <3>1. query'[p] = query[p]
      BY <2>2, GradeTypes DEF GradesInv
    <3> QED BY <1>2, <3>1 DEF Honest, GradesInv
  <2> QED BY <2>1, <2>2
<1> QED BY <1>1, <1>2 DEF GradesInv, Grades!Idle

\* The answer of a query.
LEMMA GradeAnswers ==
  ASSUME Grades!TypeOK, NEW q \in User, query[q].at # "idle", NEW answer, NEW w, Grades!Answers(q, answer, w)
  PROVE  query' = [query EXCEPT ![q] =
           [at |-> "answered", range |-> query[q].range, outcome |-> query[q].outcome,
            attempt |-> query[q].attempt, answer |-> answer, wid |-> w, seen |-> query[q].seen]]
<1>1. PICK v : v = query[q]
  OBVIOUS
<1> DEFINE r(pc, a, i) == [at |-> pc, range |-> v.range, outcome |-> v.outcome, attempt |-> v.attempt,
                           answer |-> a, wid |-> i, seen |-> v.seen]
<1>2. v = r(v.at, v.answer, v.wid)
  BY <1>1, GradeFields
<1>3. [v EXCEPT !.at = "answered"] = r("answered", v.answer, v.wid)
  BY <1>2
<1>4. [r("answered", v.answer, v.wid) EXCEPT !.answer = answer] = r("answered", answer, v.wid)
  OBVIOUS
<1>5. [r("answered", answer, v.wid) EXCEPT !.wid = w] = r("answered", answer, w)
  OBVIOUS
<1>6. query' = [query EXCEPT ![q] = [[[v EXCEPT !.at = "answered"] EXCEPT !.answer = answer] EXCEPT !.wid = w]]
  BY Zenon, <1>1, GradeTypes DEF Grades!Answers
<1> HIDE DEF r
<1>7. query' = [query EXCEPT ![q] = r("answered", answer, w)]
  BY Zenon, <1>3, <1>4, <1>5, <1>6
<1> QED BY <1>1, <1>7 DEF r

\* An answer that says nothing of the results is always true.
LEMMA GradeRefused ==
  ASSUME GradesInv, NEW q \in User, query[q].at # "idle",
         Grades!Answers(q, "error", 0) \/ Grades!Answers(q, "computing", 0), UNCHANGED <<results, ticket>>,
         computing' \subseteq Task, entered' \in BOOLEAN
  PROVE  GradesInv'
<1> DEFINE r(answer) ==
      [at |-> "answered", range |-> query[q].range, outcome |-> query[q].outcome,
       attempt |-> query[q].attempt, answer |-> answer, wid |-> 0, seen |-> query[q].seen]
<1>1. PICK answer \in {"error", "computing"} : query' = [query EXCEPT ![q] = r(answer)]
  BY GradeAnswers DEF GradesInv
<1>2. Honest(query[q])
  BY Zenon, GradeFields DEF GradesInv
<1>3. r(answer) \in Grades!Asked
  BY Zenon, GradeFields DEF GradesInv, Grades!Asked, Grades!Answer, Grades!Wid
<1>4. Honest(r(answer))
  BY <1>2 DEF Honest
<1> QED BY Zenon, <1>1, <1>3, <1>4, GradeMoves

\* Apply: the school is asked to compute a range.
LEMMA GradeApplies ==
  ASSUME GradesInv, NEW q \in User, Grades!Apply(q)
  PROVE  GradesInv'
<1>1. query[q].at = "apply" /\ UNCHANGED <<results, ticket, entered>> /\ Grades!TypeOK
  BY DEF GradesInv, Grades!Apply, Grades!Refused
<1>2. Honest(query[q]) /\ entered \in BOOLEAN
  BY <1>1, GradeFields, GradeTypes DEF GradesInv
<1>3. CASE Grades!Refused(q)
  <2>1. computing' \subseteq Task /\ entered' \in BOOLEAN
    BY <1>1, <1>3, GradeTypes DEF Grades!Refused
  <2> QED BY <1>1, <1>3, <2>1, GradeRefused DEF Grades!Refused, Grades!Upstream
<1> DEFINE r(pc, outcome, seen) ==
      [at |-> pc, range |-> query[q].range, outcome |-> outcome, attempt |-> query[q].attempt,
       answer |-> query[q].answer, wid |-> query[q].wid, seen |-> seen]
<1>4. \A pc, outcome, seen :
        query' = [query EXCEPT ![q].at = pc, ![q].outcome = outcome, ![q].seen = seen]
          => query' = [query EXCEPT ![q] = r(pc, outcome, seen)]
  <2> SUFFICES ASSUME NEW pc, NEW outcome, NEW seen,
                      query' = [query EXCEPT ![q].at = pc, ![q].outcome = outcome, ![q].seen = seen]
               PROVE  query' = [query EXCEPT ![q] = r(pc, outcome, seen)]
    BY Zenon
  <2>1. PICK v : v = query[q]
    OBVIOUS
  <2> DEFINE s(a, o, n) == [at |-> a, range |-> v.range, outcome |-> o, attempt |-> v.attempt,
                            answer |-> v.answer, wid |-> v.wid, seen |-> n]
  <2>2. [v EXCEPT !.at = pc] = s(pc, v.outcome, v.seen)
    <3>1. v = s(v.at, v.outcome, v.seen)
      BY <1>1, <2>1, GradeFields
    <3> QED BY <3>1
  <2>3. [s(pc, v.outcome, v.seen) EXCEPT !.outcome = outcome] = s(pc, outcome, v.seen)
    OBVIOUS
  <2>4. [s(pc, outcome, v.seen) EXCEPT !.seen = seen] = s(pc, outcome, seen)
    OBVIOUS
  <2>5. query' = [query EXCEPT ![q] = [[[v EXCEPT !.at = pc] EXCEPT !.outcome = outcome] EXCEPT !.seen = seen]]
    BY Zenon, <1>1, <2>1, GradeTypes
  <2>6. r(pc, outcome, seen) = s(pc, outcome, seen)
    BY <2>1
  <2> HIDE DEF s, r
  <2> QED BY Zenon, <2>2, <2>3, <2>4, <2>5, <2>6
<1>5. \A pc \in {"sleep", "enter_records"}, outcome \in {"created", "exists"} : \A seen \in SUBSET (1..MaxResults) :
        r(pc, outcome, seen) \in Grades!Asked
  BY Zenon, <1>1, GradeFields DEF Grades!Asked, Grades!Answer, Grades!Wid
<1>6. query[q].attempt = 0
  BY <1>1, <1>2 DEF Honest
<1>7. CASE Grades!Created(q) /\ Grades!Valid(query[q].range) = {}
  <2>1. Grades!Made \in SUBSET (1..MaxResults)
    BY DEF Grades!Made, Grades!Wid
  <2>2. query' = [query EXCEPT ![q] = r("sleep", "created", Grades!Made)]
    BY Zenon, <1>4, <1>7 DEF Grades!Created
  <2>3. \A w \in Grades!Made : results[w].made /\ ~(results[w].range = query[q].range /\ results[w].valid)
    BY <1>7 DEF Grades!Made, Grades!Valid
  <2>4. Honest(r("sleep", "created", Grades!Made))
    BY <1>6, <2>3, SharedAssumption DEF Honest
  <2>5. computing' \subseteq Task
    BY <1>1, <1>7, GradeTypes, GradeFields DEF Grades!Created
  <2>6. r("sleep", "created", Grades!Made) \in Grades!Asked
    BY <1>5, <2>1
  <2> HIDE DEF r
  <2> QED BY Zenon, <1>1, <1>2, <2>2, <2>4, <2>5, <2>6, GradeMoves
<1>8. CASE Grades!Exists(q)
  <2> DEFINE V == Grades!Valid(query[q].range)
  <2>1. V \in SUBSET (1..MaxResults)
    BY DEF Grades!Valid, Grades!Made, Grades!Wid
  <2>2. query' = [query EXCEPT ![q] = r("enter_records", "exists", V)]
    BY Zenon, <1>4, <1>8 DEF Grades!Exists
  <2>3. \A w \in V : results[w].made /\ results[w].range = query[q].range
    BY DEF Grades!Made, Grades!Valid
  <2>4. Honest(r("enter_records", "exists", V))
    BY <2>3 DEF Honest
  <2>5. computing' \subseteq Task
    BY <1>1, <1>8, GradeTypes DEF Grades!Exists
  <2>6. r("enter_records", "exists", V) \in Grades!Asked
    BY <1>5, <2>1
  <2> HIDE DEF r, V
  <2> QED BY Zenon, <1>1, <1>2, <2>2, <2>4, <2>5, <2>6, GradeMoves
<1> QED
  <2>1. ASSUME NEW reply \in Grades!Replies(query[q].range), reply = "created"
        PROVE  Grades!Valid(query[q].range) = {}
    <3>1. Grades!Valid(query[q].range) # {} => Grades!Replies(query[q].range) = {"exists"}
      BY DEF Grades!Replies
    <3> QED BY <2>1, <3>1
  <2>2. Grades!Refused(q) \/ Grades!Exists(q) \/ (Grades!Created(q) /\ Grades!Valid(query[q].range) = {})
    BY <2>1 DEF Grades!Apply
  <2> QED BY <1>3, <1>7, <1>8, <2>2

\* A query goes on to the next call.
LEMMA GradeGoes ==
  ASSUME GradesInv, NEW q \in User, query[q].at # "idle", NEW pc \in {"apply", "records", "sleep", "enter_records"},
         NEW n \in 0..RESULT_POLL_TRIES, pc = "apply" => n = 0, pc = "sleep" => n < RESULT_POLL_TRIES,
         query' = [query EXCEPT ![q] =
           [at |-> pc, range |-> query[q].range, outcome |-> query[q].outcome, attempt |-> n,
            answer |-> query[q].answer, wid |-> query[q].wid, seen |-> query[q].seen]],
         UNCHANGED <<results, computing, ticket>>, entered' \in BOOLEAN
  PROVE  GradesInv'
<1> DEFINE r == [at |-> pc, range |-> query[q].range, outcome |-> query[q].outcome, attempt |-> n,
                 answer |-> query[q].answer, wid |-> query[q].wid, seen |-> query[q].seen]
<1>1. Honest(query[q]) /\ computing' \subseteq Task
  BY GradeFields, GradeTypes DEF GradesInv
<1>2. r \in Grades!Asked
  BY Zenon, GradeFields DEF GradesInv, Grades!Asked, Grades!Answer, Grades!Wid
<1>3. Honest(r)
  BY <1>1 DEF Honest
<1>4. query' = [query EXCEPT ![q] = r]
  OBVIOUS
<1> HIDE DEF r
<1> QED BY Zenon, <1>1, <1>2, <1>3, <1>4, GradeMoves

\* The two ways in which a query goes on.
LEMMA GradeNext ==
  ASSUME Grades!TypeOK, NEW q \in User, query[q].at # "idle", NEW pc
  PROVE  /\ Grades!Goes(q, pc) => query' = [query EXCEPT ![q] =
              [at |-> pc, range |-> query[q].range, outcome |-> query[q].outcome, attempt |-> query[q].attempt,
               answer |-> query[q].answer, wid |-> query[q].wid, seen |-> query[q].seen]]
         /\ query' = [query EXCEPT ![q].at = pc, ![q].attempt = @ + 1] => query' = [query EXCEPT ![q] =
              [at |-> pc, range |-> query[q].range, outcome |-> query[q].outcome, attempt |-> query[q].attempt + 1,
               answer |-> query[q].answer, wid |-> query[q].wid, seen |-> query[q].seen]]
<1>1. PICK v : v = query[q]
  OBVIOUS
<1> DEFINE s(a, n) == [at |-> a, range |-> v.range, outcome |-> v.outcome, attempt |-> n,
                       answer |-> v.answer, wid |-> v.wid, seen |-> v.seen]
<1>2. [v EXCEPT !.at = pc] = s(pc, v.attempt)
  <2>1. v = s(v.at, v.attempt)
    BY <1>1, GradeFields
  <2> QED BY <2>1
<1>3. [s(pc, v.attempt) EXCEPT !.attempt = v.attempt + 1] = s(pc, v.attempt + 1)
  OBVIOUS
<1>4. Grades!Goes(q, pc) => query' = [query EXCEPT ![q] = [v EXCEPT !.at = pc]]
  BY <1>1, GradeTypes DEF Grades!Goes
<1>5. query' = [query EXCEPT ![q].at = pc, ![q].attempt = @ + 1]
        => query' = [query EXCEPT ![q] = [[v EXCEPT !.at = pc] EXCEPT !.attempt = v.attempt + 1]]
  BY Zenon, <1>1, <1>2, GradeTypes
<1> HIDE DEF s
<1>6. /\ Grades!Goes(q, pc) => query' = [query EXCEPT ![q] = s(pc, v.attempt)]
      /\ query' = [query EXCEPT ![q].at = pc, ![q].attempt = @ + 1]
           => query' = [query EXCEPT ![q] = s(pc, v.attempt + 1)]
  BY Zenon, <1>2, <1>3, <1>4, <1>5
<1> QED BY <1>1, <1>6 DEF s

\* Records: the list of results is read, and answered, waited for or given up.
LEMMA GradeLooks ==
  ASSUME GradesInv, NEW q \in User, Grades!Records(q)
  PROVE  GradesInv'
<1>1. query[q].at = "records" /\ UNCHANGED <<results, computing, ticket, entered>> /\ Grades!TypeOK
  BY DEF GradesInv, Grades!Records, Grades!school
<1>2. Honest(query[q]) /\ entered' \in BOOLEAN /\ computing' \subseteq Task
  BY <1>1, GradeFields, GradeTypes DEF GradesInv
<1> DEFINE r(answer, w) ==
      [at |-> "answered", range |-> query[q].range, outcome |-> query[q].outcome, attempt |-> query[q].attempt,
       answer |-> answer, wid |-> w, seen |-> query[q].seen]
<1>3. \A answer \in {"result", "missing"}, w \in 0..MaxResults :
        Grades!Answers(q, answer, w) =>
          query' = [query EXCEPT ![q] = r(answer, w)] /\ r(answer, w) \in Grades!Asked
  <2> SUFFICES ASSUME NEW answer \in {"result", "missing"}, NEW w \in 0..MaxResults, Grades!Answers(q, answer, w)
               PROVE  query' = [query EXCEPT ![q] = r(answer, w)] /\ r(answer, w) \in Grades!Asked
    OBVIOUS
  <2>1. query' = [query EXCEPT ![q] = r(answer, w)]
    BY <1>1, GradeAnswers
  <2>2. w \in Grades!Wid \cup {0}
    BY SharedAssumption DEF Grades!Wid
  <2>3. r(answer, w) \in Grades!Asked
    BY Zenon, <1>1, <2>2, GradeFields DEF Grades!Asked, Grades!Answer, Grades!Wid
  <2> HIDE DEF r
  <2> QED BY <2>1, <2>3
<1>4. CASE Grades!Upstream(q) \/ Grades!Answers(q, "computing", 0)
  BY <1>1, <1>2, <1>4, GradeRefused DEF Grades!Upstream
<1>5. ASSUME NEW w \in Grades!FindValid(q), Grades!Answers(q, "result", w) PROVE GradesInv'
  <2>1. /\ w \in 1..MaxResults /\ results[w].made /\ results[w].range = query[q].range /\ results[w].valid
    BY DEF Grades!FindValid, Grades!IsValidFor, Grades!Valid, Grades!Made, Grades!Wid
  <2>2. query[q].outcome = "created" => w \notin query[q].seen
    BY <1>2, <2>1 DEF Honest
  <2>3. Honest(r("result", w))
    BY <1>2, <2>1, <2>2 DEF Honest
  <2>4. query' = [query EXCEPT ![q] = r("result", w)] /\ r("result", w) \in Grades!Asked
    BY <1>3, <1>5, <2>1, SharedAssumption
  <2> HIDE DEF r
  <2> QED BY Zenon, <1>1, <1>2, <2>3, <2>4, GradeMoves
<1>6. CASE Grades!FindValid(q) = {} /\ query[q].outcome = "exists" /\ Grades!Answers(q, "missing", 0)
  <2>1. \A w \in query[q].seen : ~results[w].valid
    <3>1. \A w \in query[q].seen : w \in 1..MaxResults /\ results[w].made /\ results[w].range = query[q].range
      BY Zenon, <1>1, <1>2, <1>6, GradeFields DEF Honest
    <3> QED BY <1>6, <3>1 DEF Grades!FindValid, Grades!IsValidFor, Grades!Valid, Grades!Made, Grades!Wid
  <2>2. Honest(r("missing", 0))
    BY <1>2, <2>1 DEF Honest
  <2>3. query' = [query EXCEPT ![q] = r("missing", 0)] /\ r("missing", 0) \in Grades!Asked
    BY <1>3, <1>6, SharedAssumption
  <2> HIDE DEF r
  <2> QED BY Zenon, <1>1, <1>2, <2>2, <2>3, GradeMoves
<1>7. CASE query[q].attempt < RESULT_POLL_TRIES /\ Grades!Goes(q, "sleep")
  <2>1. query[q].attempt \in 0..RESULT_POLL_TRIES
    BY Zenon, <1>1, GradeFields
  <2>2. query' = [query EXCEPT ![q] =
          [at |-> "sleep", range |-> query[q].range, outcome |-> query[q].outcome, attempt |-> query[q].attempt,
           answer |-> query[q].answer, wid |-> query[q].wid, seen |-> query[q].seen]]
    BY Zenon, <1>1, <1>7, GradeNext
  <2> QED BY Zenon, <1>1, <1>2, <1>7, <2>1, <2>2, GradeGoes
<1> QED BY <1>4, <1>5, <1>6, <1>7 DEF Grades!Records, Grades!NotFound

\* The school computes a result, or puts one out of date.
LEMMA GradeResults ==
  ASSUME GradesInv, Grades!TypeOK', UNCHANGED query,
         \A w \in 1..MaxResults : results[w].made =>
           /\ results'[w].made /\ results'[w].range = results[w].range
           /\ ~results[w].valid => ~results'[w].valid
  PROVE  GradesInv'
<1>1. ASSUME NEW q \in User, query'[q] # Grades!Idle PROVE Honest(query[q])'
  <2>1. Honest(query[q]) /\ query[q].seen \subseteq 1..MaxResults
    BY <1>1, GradeTypes DEF GradesInv, Grades!Asked, Grades!Wid
  <2>2. /\ \A w \in query[q].seen : results'[w].made
        /\ query[q].outcome = "created" =>
             \A w \in query[q].seen : ~(results'[w].range = query[q].range /\ results'[w].valid)
        /\ query[q].outcome = "exists" => \A w \in query[q].seen : results'[w].range = query[q].range
    BY <2>1 DEF Honest
  <2>3. /\ query[q].at = "answered" /\ query[q].answer = "result" =>
             /\ results'[query[q].wid].made /\ results'[query[q].wid].range = query[q].range
        /\ query[q].at = "answered" /\ query[q].answer = "missing" =>
             \A w \in query[q].seen : ~results'[w].valid
    BY <2>1 DEF Honest
  <2> QED BY <2>1, <2>2, <2>3 DEF Honest
<1> QED BY <1>1 DEF GradesInv, Grades!Idle

\* Every step keeps the invariant.
LEMMA GradesStep == GradesInv /\ (Grades!Next \/ UNCHANGED gradeVars) => GradesInv'
<1> SUFFICES ASSUME GradesInv, Grades!Next \/ UNCHANGED gradeVars PROVE GradesInv'
  OBVIOUS
<1>t. Grades!TypeOK
  BY DEF GradesInv
<1>1. CASE UNCHANGED gradeVars
  BY <1>1 DEF gradeVars, GradesInv, Grades!TypeOK, Honest, Grades!Idle
<1>2. CASE Grades!SignedOut
  <2>1. UNCHANGED <<results, computing, query>> /\ ticket' \in BOOLEAN /\ entered' = FALSE
    BY Zenon, <1>2, <1>t, GradeTypes DEF Grades!SignedOut
  <2>2. Grades!TypeOK'
    BY Zenon, <1>t, <2>1 DEF Grades!TypeOK
  <2> QED BY <2>1, <2>2, GradeResults
<1>3. ASSUME NEW q \in User, NEW range \in Task, Grades!Begin(q, range) PROVE GradesInv'
  <2> DEFINE r == [at |-> "enter_apply", range |-> range, outcome |-> "none", attempt |-> 0,
                   answer |-> "none", wid |-> 0, seen |-> Grades!Made]
  <2>1. query' = [query EXCEPT ![q] = r] /\ UNCHANGED <<results, computing, ticket, entered>>
    BY <1>3 DEF Grades!Begin, Grades!school
  <2>2. r \in Grades!Asked
    BY SharedAssumption DEF Grades!Asked, Grades!Answer, Grades!Wid, Grades!Made
  <2>3. Honest(r)
    BY DEF Honest, Grades!Made
  <2>4. computing' \subseteq Task /\ entered' \in BOOLEAN
    BY <1>t, <2>1, GradeTypes
  <2> HIDE DEF r
  <2> QED BY Zenon, <2>1, <2>2, <2>3, <2>4, GradeMoves
<1>4. ASSUME NEW q \in User, Grades!Enter(q) PROVE GradesInv'
  <2>1. /\ query[q].at \in {"enter_apply", "enter_records"} /\ UNCHANGED <<results, computing, ticket>>
        /\ \/ query[q].at = "enter_apply" /\ Grades!Goes(q, "apply")
           \/ query[q].at = "enter_records" /\ Grades!Goes(q, "records")
           \/ Grades!Upstream(q)
    BY <1>4 DEF Grades!Enter, Grades!school
  <2>2. entered' \in BOOLEAN /\ computing' \subseteq Task
    BY <1>t, <1>4, <2>1, GradeTypes DEF Grades!Enter
  <2>3. Honest(query[q]) /\ query[q].attempt \in 0..RESULT_POLL_TRIES
    BY Zenon, <1>t, <2>1, GradeFields DEF GradesInv
  <2>4. CASE Grades!Upstream(q)
    BY <2>1, <2>2, <2>4, GradeRefused DEF Grades!Upstream
  <2>5. CASE query[q].at = "enter_apply" /\ Grades!Goes(q, "apply")
    <3>1. query[q].attempt = 0
      BY <2>3, <2>5 DEF Honest
    <3> QED BY Zenon, <1>t, <2>1, <2>2, <2>3, <2>5, <3>1, GradeNext, GradeGoes
  <2>6. CASE query[q].at = "enter_records" /\ Grades!Goes(q, "records")
    <3>1. query[q].at # "idle"
      BY <2>1
    <3>2. query' = [query EXCEPT ![q] =
            [at |-> "records", range |-> query[q].range, outcome |-> query[q].outcome, attempt |-> query[q].attempt,
             answer |-> query[q].answer, wid |-> query[q].wid, seen |-> query[q].seen]]
      BY Zenon, <1>t, <2>6, <3>1, GradeNext
    <3> QED BY Zenon, <2>1, <2>2, <2>3, <3>1, <3>2, GradeGoes
  <2> QED BY <2>1, <2>4, <2>5, <2>6
<1>5. ASSUME NEW q \in User, Grades!Wake(q) PROVE GradesInv'
  <2>1. /\ query[q].at = "sleep" /\ UNCHANGED <<results, computing, ticket, entered>>
        /\ query' = [query EXCEPT ![q].at = "enter_records", ![q].attempt = @ + 1]
    BY <1>5 DEF Grades!Wake, Grades!school
  <2>2. query[q].attempt + 1 \in 0..RESULT_POLL_TRIES /\ entered' \in BOOLEAN
    <3>1. query[q].attempt < RESULT_POLL_TRIES /\ query[q].attempt \in 0..RESULT_POLL_TRIES
      BY Zenon, <1>t, <2>1, GradeFields DEF GradesInv, Honest
    <3>2. query[q].attempt + 1 \in 0..RESULT_POLL_TRIES
      BY <3>1, SharedAssumption
    <3>3. entered' \in BOOLEAN
      BY <1>t, <2>1, GradeTypes
    <3> QED BY <3>2, <3>3
  <2> QED BY Zenon, <1>t, <2>1, <2>2, GradeNext, GradeGoes
<1>6. ASSUME NEW q \in User, Grades!Again(q) PROVE GradesInv'
  <2>1. query' = [query EXCEPT ![q] = Grades!Idle] /\ UNCHANGED <<results, computing, ticket, entered>>
    BY <1>6 DEF Grades!Again, Grades!school
  <2>2. computing' \subseteq Task /\ entered' \in BOOLEAN
    BY <1>t, <2>1, GradeTypes
  <2> QED BY Zenon, <2>1, <2>2, GradeMoves
<1>7. ASSUME NEW range \in Task, Grades!Compute(range) PROVE GradesInv'
  <2>1. PICK w \in 1..MaxResults : /\ ~results[w].made
                                   /\ results' = [results EXCEPT ![w] = [made |-> TRUE, range |-> range, valid |-> TRUE]]
    BY Zenon, <1>7 DEF Grades!Compute, Grades!Made, Grades!Wid
  <2>2. computing' = computing \ {range} /\ UNCHANGED <<ticket, entered, query>>
    BY <1>7 DEF Grades!Compute
  <2>3. results' \in [1..MaxResults -> [made : BOOLEAN, range : Task, valid : BOOLEAN]]
    BY <1>t, <2>1, GradeTypes
  <2>4. Grades!TypeOK'
    BY <1>t, <2>2, <2>3 DEF Grades!TypeOK, Grades!Wid
  <2>5. \A v \in 1..MaxResults : results[v].made => results'[v] = results[v]
    BY <1>t, <2>1, GradeTypes
  <2> QED BY <2>2, <2>4, <2>5, GradeResults
<1>8. ASSUME NEW w \in Grades!Wid, Grades!OutOfDate(w) PROVE GradesInv'
  <2>1. /\ w \in 1..MaxResults /\ results' = [results EXCEPT ![w].valid = FALSE]
        /\ UNCHANGED <<computing, ticket, entered, query>>
    BY <1>8 DEF Grades!OutOfDate, Grades!Wid
  <2>2. /\ results'[w] = [results[w] EXCEPT !.valid = FALSE]
        /\ \A v \in 1..MaxResults : v # w => results'[v] = results[v]
    BY <1>t, <2>1, GradeTypes
  <2>3. results'[w].made = results[w].made /\ results'[w].range = results[w].range /\ results'[w].valid = FALSE
    BY <1>t, <2>1, <2>2, GradeTypes
  <2>4. results' \in [1..MaxResults -> [made : BOOLEAN, range : Task, valid : BOOLEAN]]
    BY Zenon, <1>t, <2>1, GradeTypes
  <2>5. Grades!TypeOK'
    BY <1>t, <2>1, <2>4 DEF Grades!TypeOK, Grades!Wid
  <2>6. \A v \in 1..MaxResults : results[v].made =>
          /\ results'[v].made /\ results'[v].range = results[v].range
          /\ ~results[v].valid => ~results'[v].valid
    BY Zenon, <2>2, <2>3
  <2> QED BY <2>1, <2>5, <2>6, GradeResults
<1> QED BY <1>1, <1>2, <1>3, <1>4, <1>5, <1>6, <1>7, <1>8, GradeApplies, GradeLooks DEF Grades!Next

\* The invariant has the properties the runs check.
LEMMA GradesHold == GradesInv => Grades!NewIsNew /\ Grades!MissingIsGone
BY DEF GradesInv, Honest, Grades!NewIsNew, Grades!MissingIsGone, Grades!Done, Grades!Idle
-----------------------------------------------------------------------------
(* The semester a timetable is drawn for (SemesterChoice).                 *)

\* The step of max_by, from the best so far.
BestStep(l, b, n) == IF n > 1 /\ Semesters!Greater(b, l[n]) THEN b ELSE l[n]

\* max_by over a list makes one choice after the other.  (That there is such a
\* function, and what it yields, is shown on the shortest list without.)
LEMMA BestsExist ==
  ASSUME NEW l \in Seq(Semesters!Code), NEW n \in Nat, n <= Len(l)
  PROVE  \E g : g = [m \in 1..n |-> BestStep(l, g[m - 1], m)]
<1> DEFINE Works(k) == \E g : g = [m \in 1..k |-> BestStep(l, g[m - 1], m)]
<1> SUFFICES ASSUME ~Works(n) PROVE FALSE
  OBVIOUS
<1> DEFINE Bad == {k \in Nat : k <= Len(l) /\ ~Works(k)}
<1>1. PICK k \in Bad : \A j \in Bad : k <= j
  <2>1. Bad \in SUBSET Nat /\ n \in Bad
    OBVIOUS
  <2> HIDE DEF Bad
  <2> QED BY Zenon, <2>1, HasLeast
<1>2. k \in Nat /\ k <= Len(l) /\ ~Works(k)
  BY <1>1
<1>3. CASE k = 0
  <2>1. [m \in 1..0 |-> 0] = [m \in 1..0 |-> BestStep(l, [i \in 1..0 |-> 0][m - 1], m)]
    OBVIOUS
  <2> QED BY <1>2, <1>3, <2>1
<1>4. CASE k # 0
  <2>1. k - 1 \in Nat /\ k - 1 <= Len(l)
    BY <1>2, <1>4
  <2>2. Works(k - 1)
    <3> SUFFICES ASSUME ~Works(k - 1) PROVE FALSE
      OBVIOUS
    <3> HIDE DEF Works
    <3>1. k - 1 \in Bad
      BY <2>1
    <3> QED BY <1>1, <1>2, <3>1
  <2>3. PICK g : g = [m \in 1..(k - 1) |-> BestStep(l, g[m - 1], m)]
    BY Zenon, <2>2
  <2> DEFINE h == [m \in 1..k |-> IF m = k THEN BestStep(l, g[k - 1], k) ELSE g[m]]
  <2>4. ASSUME NEW m \in 1..k PROVE h[m] = BestStep(l, h[m - 1], m)
    <3>1. CASE m = 1
      <4>1. \A b : BestStep(l, b, 1) = l[1]
        BY DEF BestStep
      <4>2. CASE k = 1
        BY <3>1, <4>1, <4>2
      <4>3. CASE k # 1
        <5>1. 1 \in 1..(k - 1) /\ h[1] = g[1]
          BY <1>2, <1>4, <4>3
        <5>2. g[1] = BestStep(l, g[1 - 1], 1)
          BY Zenon, <2>3, <5>1
        <5> HIDE DEF h
        <5> QED BY <3>1, <4>1, <5>1, <5>2
      <4> QED BY <4>2, <4>3
    <3>2. CASE m # 1
      <4>1. m - 1 \in 1..k /\ m - 1 # k /\ h[m - 1] = g[m - 1]
        BY <1>2, <3>2
      <4>2. CASE m = k
        BY <4>1, <4>2
      <4>3. CASE m # k
        <5>1. m \in 1..(k - 1) /\ h[m] = g[m]
          BY <1>2, <4>3
        <5>2. g[m] = BestStep(l, g[m - 1], m)
          BY Zenon, <2>3, <5>1
        <5> QED BY <4>1, <5>1, <5>2
      <4> QED BY <4>2, <4>3
    <3> QED BY <3>1, <3>2
  <2>5. h = [m \in 1..k |-> BestStep(l, h[m - 1], m)]
    <3>1. h = [m \in 1..k |-> h[m]]
      OBVIOUS
    <3> HIDE DEF h
    <3> QED BY Zenon, <2>4, <3>1
  <2> HIDE DEF h
  <2> QED BY <1>2, <2>5
<1> QED BY <1>3, <1>4

\* What it yields is in the list, and where all codes are numbers none is
\* greater.
LEMMA LatestIsListed ==
  ASSUME NEW l \in Seq(Semesters!Code), l # <<>>
  PROVE  /\ \E i \in 1..Len(l) : l[i] = Semesters!LatestSemester(l)
         /\ (\A i \in 1..Len(l) : l[i].number # 0) =>
              \A i \in 1..Len(l) : l[i].number <= Semesters!LatestSemester(l).number
<1>1. \A i \in 1..Len(l) : l[i] \in Semesters!Code /\ l[i].number \in Nat /\ l[i].place \in Nat
  <2>1. (\A n \in Numbers \cup {0} : n \in Nat) /\ \A n \in Letters : n \in Nat
    BY SharedAssumption
  <2>2. ASSUME NEW c \in Semesters!Code PROVE c.number \in Nat /\ c.place \in Nat
    <3>1. c.number \in Numbers \cup {0} /\ c.place \in Letters
      BY DEF Semesters!Code
    <3> QED BY <2>1, <3>1
  <2> QED BY <2>2
<1> DEFINE best == CHOOSE g : g = [n \in DOMAIN l |->
                     IF n > 1 /\ Semesters!Greater(g[n - 1], l[n]) THEN g[n - 1] ELSE l[n]]
<1>2. Semesters!LatestSemester(l) = best[Len(l)]
  BY DEF Semesters!LatestSemester
<1>3. \A k \in 1..Len(l) : best[k] = BestStep(l, best[k - 1], k)
  <2>1. PICK n \in Nat : n = Len(l)
    OBVIOUS
  <2>1a. n <= Len(l)
    BY <2>1
  <2>2. PICK g : g = [m \in 1..n |-> BestStep(l, g[m - 1], m)]
    BY <2>1a, BestsExist
  <2>3. g = [k \in DOMAIN l |-> IF k > 1 /\ Semesters!Greater(g[k - 1], l[k]) THEN g[k - 1] ELSE l[k]]
    <3>1. DOMAIN l = 1..n
      BY <2>1
    <3>2. [m \in 1..n |-> BestStep(l, g[m - 1], m)] =
            [k \in DOMAIN l |-> IF k > 1 /\ Semesters!Greater(g[k - 1], l[k]) THEN g[k - 1] ELSE l[k]]
      BY <3>1 DEF BestStep
    <3> QED BY Zenon, <2>2, <3>2
  <2>4. best = [k \in DOMAIN l |->
                 IF k > 1 /\ Semesters!Greater(best[k - 1], l[k]) THEN best[k - 1] ELSE l[k]]
    BY Zenon, <2>3
  <2> HIDE DEF best
  <2>5. \A k \in DOMAIN l : best[k] =
           IF k > 1 /\ Semesters!Greater(best[k - 1], l[k]) THEN best[k - 1] ELSE l[k]
    BY <2>4
  <2> QED BY <2>5 DEF BestStep
<1> HIDE DEF best
<1> DEFINE Fits(k) ==
      /\ \E i \in 1..k : l[i] = best[k]
      /\ (\A i \in 1..Len(l) : l[i].number # 0) => \A i \in 1..k : l[i].number <= best[k].number
<1> DEFINE Bad == {k \in Nat : 1 <= k /\ k <= Len(l) /\ ~Fits(k)}
<1>4. Bad = {}
  <2> SUFFICES ASSUME Bad # {} PROVE FALSE
    OBVIOUS
  <2>1. PICK k \in Bad : \A j \in Bad : k <= j
    <3>1. Bad \in SUBSET Nat
      OBVIOUS
    <3> HIDE DEF Bad
    <3> QED BY <3>1, HasLeast
  <2>2. k \in Nat /\ 1 <= k /\ k <= Len(l) /\ ~Fits(k)
    BY <2>1
  <2>3. best[k] = BestStep(l, best[k - 1], k)
    <3>1. k \in 1..Len(l)
      BY <2>2
    <3> QED BY <1>3, <3>1
  <2>4. CASE k = 1
    <3>1. best[1] = l[1]
      BY <2>3, <2>4 DEF BestStep
    <3> QED BY <1>1, <2>2, <2>4, <3>1
  <2>5. CASE k # 1
    <3>1. k - 1 \in Nat /\ 1 <= k - 1 /\ k - 1 <= Len(l) /\ k \in 1..Len(l)
      BY <2>2, <2>5
    <3>2. Fits(k - 1)
      BY <2>1, <3>1
    <3>3. PICK i \in 1..(k - 1) : l[i] = best[k - 1]
      BY <3>2
    <3>4. \/ best[k] = l[k]
          \/ best[k] = best[k - 1]
      BY <2>3 DEF BestStep
    <3>5. \E j \in 1..k : l[j] = best[k]
      BY <2>2, <3>1, <3>3, <3>4
    <3>6. ASSUME \A j \in 1..Len(l) : l[j].number # 0
          PROVE  \A j \in 1..k : l[j].number <= best[k].number
      <4>1. best[k - 1].number \in Nat /\ best[k - 1].number # 0 /\ l[k].number \in Nat /\ l[k].number # 0
        BY <1>1, <3>1, <3>3, <3>6
      <4>2. \A j \in 1..(k - 1) : l[j].number \in Nat /\ l[j].number <= best[k - 1].number
        BY <1>1, <3>1, <3>2, <3>6
      <4>3. best[k].number \in Nat /\ best[k].number >= best[k - 1].number /\ best[k].number >= l[k].number
        <5>1. CASE best[k - 1].number > l[k].number
          BY <2>3, <2>2, <2>5, <4>1, <5>1 DEF BestStep, Semesters!Greater
        <5>2. CASE ~(best[k - 1].number > l[k].number)
          <6>1. best[k] = l[k]
            BY <2>3, <4>1, <5>2 DEF BestStep, Semesters!Greater
          <6> QED BY <4>1, <5>2, <6>1
        <5> QED BY <5>1, <5>2
      <4> QED BY <2>2, <4>1, <4>2, <4>3
    <3> QED BY <2>2, <3>5, <3>6
  <2> QED BY <2>4, <2>5
<1>5. Len(l) \in Nat /\ 1 <= Len(l)
  OBVIOUS
<1>6. Fits(Len(l))
  BY <1>4, <1>5
<1> QED BY <1>2, <1>6

\* The model is asked only where something was written; what is asked for stays.
SemestersInv ==
  /\ Semesters!TypeOK /\ Semesters!SemesterIsListed
  /\ at = "ask" => described /\ list # <<>>

\* The newest of a list is one to ask for.
LEMMA NewestFits ==
  ASSUME NEW l \in Seq(Semesters!Code), l # <<>>
  PROVE  /\ Semesters!LatestSemester(l) \in Semesters!Code
         /\ \E i \in DOMAIN l : l[i] = Semesters!LatestSemester(l)
         /\ (\A i \in DOMAIN l : l[i].number # 0) =>
              \A i \in DOMAIN l : l[i].number <= Semesters!LatestSemester(l).number
<1>1. DOMAIN l = 1..Len(l) /\ \A i \in 1..Len(l) : l[i] \in Semesters!Code
  OBVIOUS
<1> QED BY <1>1, LatestIsListed

\* The choice starts with no semester asked about.
LEMMA SemestersInit == Semesters!Init => SemestersInv
<1> SUFFICES ASSUME Semesters!Init PROVE SemestersInv
  OBVIOUS
<1>1. /\ list = <<>> /\ Len(list) = 0 /\ list \in Seq(Semesters!Code) /\ described \in BOOLEAN
      /\ at = "list" /\ asks = 0 /\ chosen = Semesters!None
  BY DEF Semesters!Init
<1> QED BY <1>1, SharedAssumption DEF SemestersInv, Semesters!TypeOK, Semesters!SemesterIsListed

\* Every step keeps the invariant.
LEMMA SemestersStep == SemestersInv /\ (Semesters!Next \/ UNCHANGED semesterVars) => SemestersInv'
<1> SUFFICES ASSUME SemestersInv, Semesters!Next \/ UNCHANGED semesterVars PROVE SemestersInv'
  OBVIOUS
<1>t. /\ list \in Seq(Semesters!Code) /\ Len(list) <= MaxRows /\ described \in BOOLEAN
      /\ at \in {"list", "ask", "schedule", "drawn", "failed"} /\ asks \in 0..MAX_ASKS
      /\ chosen \in Semesters!Code \cup {Semesters!None}
  BY DEF SemestersInv, Semesters!TypeOK
\* A choice of the newest, of a list that becomes or is the list of rows.
<1>n. ASSUME list' \in Seq(Semesters!Code), Len(list') <= MaxRows, UNCHANGED <<described, asks>>,
             at' = "schedule", list' # <<>>, chosen' = Semesters!LatestSemester(list')
      PROVE  SemestersInv'
  <2>1. Semesters!SemesterIsListed'
    BY <1>n, NewestFits DEF Semesters!SemesterIsListed, Semesters!Listed
  <2>2. chosen' \in Semesters!Code
    BY <1>n, NewestFits
  <2> QED BY <1>t, <1>n, <2>1, <2>2 DEF SemestersInv, Semesters!TypeOK
\* Nothing is chosen.
<1>f. ASSUME list' \in Seq(Semesters!Code), Len(list') <= MaxRows, UNCHANGED <<described, chosen>>,
             asks' \in 0..MAX_ASKS, at' \in {"failed", "ask"}, at' = "ask" => described /\ list' # <<>>
      PROVE  SemestersInv'
  BY <1>t, <1>f DEF SemestersInv, Semesters!TypeOK, Semesters!SemesterIsListed
<1>1. CASE Semesters!GetList
  <2>1. CASE Semesters!Fail /\ UNCHANGED list
    BY <1>1, <2>1, <1>t, <1>f DEF Semesters!GetList, Semesters!Fail
  <2>2. CASE /\ list' \in UNION {[1..n -> Semesters!Code] : n \in 0..MaxRows}
             /\ IF ~described THEN Semesters!DefaultSchedule(list')
                ELSE IF list' = <<>> THEN Semesters!Fail ELSE at' = "ask" /\ UNCHANGED chosen
    <3>1. list' \in Seq(Semesters!Code) /\ Len(list') <= MaxRows
      <4>1. PICK n \in 0..MaxRows : list' \in [1..n -> Semesters!Code]
        BY <2>2
      <4> QED BY <4>1, SharedAssumption
    <3>2. UNCHANGED <<described, asks>>
      BY <1>1 DEF Semesters!GetList
    <3>3. \/ Semesters!Fail
          \/ at' = "ask" /\ described /\ list' # <<>> /\ UNCHANGED chosen
          \/ at' = "schedule" /\ list' # <<>> /\ chosen' = Semesters!LatestSemester(list')
      BY <2>2 DEF Semesters!DefaultSchedule, Semesters!Choose
    <3> QED BY <1>t, <1>n, <1>f, <3>1, <3>2, <3>3 DEF Semesters!Fail
  <2> QED BY <1>1, <2>1, <2>2 DEF Semesters!GetList
<1>2. CASE Semesters!AskAs
  <2>1. at = "ask" /\ UNCHANGED <<list, described>> /\ described /\ list # <<>>
    BY <1>2 DEF Semesters!AskAs, SemestersInv
  <2>2. CASE \E code \in Semesters!Code :
               /\ IF Semesters!Listed(code) THEN Semesters!Choose(code) ELSE Semesters!DefaultSchedule(list)
               /\ UNCHANGED asks
    <3>1. PICK code \in Semesters!Code :
               /\ IF Semesters!Listed(code) THEN Semesters!Choose(code) ELSE Semesters!DefaultSchedule(list)
               /\ UNCHANGED asks
      BY <2>2
    <3>2. CASE Semesters!Listed(code)
      <4>1. at' = "schedule" /\ chosen' = code
        BY <3>1, <3>2 DEF Semesters!Choose
      <4>2. Semesters!SemesterIsListed'
        BY <2>1, <3>2, <4>1 DEF Semesters!SemesterIsListed, Semesters!Listed
      <4> QED BY <1>t, <2>1, <3>1, <4>1, <4>2 DEF SemestersInv, Semesters!TypeOK
    <3>3. CASE ~Semesters!Listed(code)
      <4>1. at' = "schedule" /\ chosen' = Semesters!LatestSemester(list)
        BY <2>1, <3>1, <3>3 DEF Semesters!DefaultSchedule, Semesters!Choose
      <4> QED BY <1>t, <1>n, <2>1, <3>1, <4>1
    <3> QED BY <3>2, <3>3
  <2>3. CASE asks < MAX_ASKS /\ asks' = asks + 1 /\ UNCHANGED <<at, chosen>>
    BY <1>t, <1>f, <2>1, <2>3, SharedAssumption
  <2>4. CASE Semesters!Fail /\ UNCHANGED asks
    BY <1>t, <1>f, <2>1, <2>4 DEF Semesters!Fail
  <2> QED BY <1>2, <2>2, <2>3, <2>4 DEF Semesters!AskAs
<1>3. CASE Semesters!GetSchedule
  BY <1>3, <1>t DEF SemestersInv, Semesters!GetSchedule, Semesters!TypeOK, Semesters!SemesterIsListed, Semesters!Listed
<1>4. CASE UNCHANGED semesterVars
  BY <1>4 DEF SemestersInv, semesterVars, Semesters!TypeOK, Semesters!SemesterIsListed, Semesters!Listed
<1> QED BY <1>1, <1>2, <1>3, <1>4 DEF Semesters!Next
-----------------------------------------------------------------------------
(* The session of the VPN (SecureLink).                                    *)

VpnTokens == Vpn!TypeOK /\ Vpn!TokenIsAccess /\ Vpn!ExpiryIsOfToken

\* A flow with requests has its client, and what is to be saved has an access token.
VpnHeld ==
  /\ \A g \in flows : flow[g].st = "open"
  /\ \A r \in Task : req[r].at \in Vpn!Step => flow[req[r].flow].st = "open"
  /\ \A r \in Task : req[r].at = "save" => api[req[r].flow].session.access # 0

VpnInv == VpnTokens /\ VpnHeld

\* A client may be left as it is, a session be dated, and one be written to the file.
Kept(f) ==
  \/ api[f].token = api[f].session.access
  \/ f \in dropped
  \/ f \in bare /\ api[f].session.access # 0
Dated(s) == s.expire = s.access \/ s.access \in undated \/ s.expire \in stray
Filed(s) == s.access = 0 => s.expire = 0

\* The parts of the invariant, one flow at a time.
LEMMA VpnParts ==
  ASSUME VpnTokens
  PROVE  /\ Vpn!TypeOK
         /\ \A f \in User : Kept(f) /\ Dated(api[f].session)
         /\ Dated(file) /\ Filed(file)
BY DEF VpnTokens, Vpn!TokenIsAccess, Vpn!ExpiryIsOfToken, Kept, Dated, Filed

\* The invariant is put together from its parts.
LEMMA VpnWhole ==
  Vpn!TypeOK /\ (\A f \in User : Kept(f) /\ Dated(api[f].session)) /\ Dated(file) /\ Filed(file)
    => VpnTokens
BY DEF VpnTokens, Vpn!TokenIsAccess, Vpn!ExpiryIsOfToken, Kept, Dated, Filed

\* The same in the next state.
LEMMA VpnPartsNext ==
  Vpn!TypeOK' /\ (\A f \in User : Kept(f)' /\ Dated(api[f].session)') /\ Dated(file)' /\ Filed(file)'
    => VpnTokens'
BY DEF VpnTokens, Vpn!TokenIsAccess, Vpn!ExpiryIsOfToken, Kept, Dated, Filed

\* What the type invariant says of each variable of the VPN login.
LEMMA VpnTypes ==
  ASSUME Vpn!TypeOK
  PROVE  /\ now \in 0..VpnTime /\ issued \in 0..MaxTokens /\ file \in Vpn!Session
         /\ \A f \in User :
              /\ api[f] \in [token : Vpn!Token, session : Vpn!Session]
              /\ api[f].token \in 0..MaxTokens /\ api[f].session \in Vpn!Session
              /\ api[f].session.two \in 0..MaxTokens /\ api[f].session.access \in 0..MaxTokens
              /\ api[f].session.expire \in 0..MaxTokens
              /\ flow[f].st \in {"unused", "asking", "open", "refused"}
              /\ flow[f].expire \in 0..(VpnTime + FLOW_EXPIRE)
         /\ \A r \in Task : req[r].at \in Vpn!Step =>
              req[r] \in [at : Vpn!Step, flow : User] /\ req[r].flow \in User
BY DEF Vpn!TypeOK, Vpn!Token, Vpn!Session, Vpn!Idle, Vpn!Step

\* The login starts with the session the file holds.
LEMMA VpnInit == Vpn!Init => VpnInv
<1> SUFFICES ASSUME Vpn!Init PROVE VpnInv
  OBVIOUS
<1>1. 0 \in 0..MaxTokens /\ 1 \in 0..MaxTokens /\ 0 \in 0..VpnTime /\ 0 \in 0..(VpnTime + FLOW_EXPIRE)
  BY SharedAssumption
<1>2. Vpn!TypeOK
  <2>1. file \in Vpn!Session /\ Vpn!NoSession \in Vpn!Session
    BY <1>1 DEF Vpn!Init, Vpn!Session, Vpn!NoSession, Vpn!Token
  <2>2. /\ api \in [User -> [token : Vpn!Token, session : Vpn!Session]]
        /\ flow \in [User -> [st : {"unused", "asking", "open", "refused"}, expire : 0..(VpnTime + FLOW_EXPIRE)]]
    BY <1>1, <2>1 DEF Vpn!Init, Vpn!NoClient, Vpn!Token
  <2> QED BY <1>1, <2>1, <2>2 DEF Vpn!Init, Vpn!TypeOK, Vpn!Token
<1>3. \A f \in User : Kept(f) /\ Dated(api[f].session)
  BY DEF Vpn!Init, Kept, Dated, Vpn!NoClient, Vpn!NoSession
<1>4. Dated(file) /\ Filed(file)
  BY DEF Vpn!Init, Dated, Filed, Vpn!NoSession
<1>5. VpnHeld
  BY DEF Vpn!Init, VpnHeld, Vpn!Idle, Vpn!Step
<1> QED BY <1>2, <1>3, <1>4, <1>5, VpnWhole DEF VpnInv

\* What changes no client, file or history leaves the sessions as they are.
LEMMA VpnQuiet ==
  ASSUME VpnTokens, Vpn!TypeOK', UNCHANGED <<file, api, bare, dropped, undated, stray>>
  PROVE  VpnTokens'
<1>1. (\A f \in User : Kept(f)' /\ Dated(api[f].session)') /\ Dated(file)' /\ Filed(file)'
  BY VpnParts DEF Kept, Dated, Filed
<1> QED BY <1>1, VpnPartsNext

\* The histories only grow, but for the flow whose client changes.
Grows(f) ==
  /\ file' = file /\ undated \subseteq undated' /\ stray \subseteq stray'
  /\ bare \ {f} \subseteq bare' /\ dropped \ {f} \subseteq dropped'

\* A step that gives one flow another client.
LEMMA VpnClient ==
  ASSUME VpnTokens, Vpn!TypeOK', NEW f \in User, NEW a, api' = [api EXCEPT ![f] = a], Grows(f),
         a.token = a.session.access \/ f \in dropped' \/ (f \in bare' /\ a.session.access # 0),
         a.session.expire = a.session.access \/ a.session.access \in undated' \/ a.session.expire \in stray'
  PROVE  VpnTokens'
<1>1. api'[f] = a /\ \A g \in User : g # f => api'[g] = api[g]
  BY DEF VpnTokens, Vpn!TypeOK
<1>2. \A g \in User : Kept(g) /\ Dated(api[g].session)
  BY VpnParts
<1>3. Dated(file)' /\ Filed(file)'
  BY VpnParts DEF Dated, Filed, Grows
<1>4. \A g \in User : Kept(g)' /\ Dated(api[g].session)'
  <2> SUFFICES ASSUME NEW g \in User PROVE Kept(g)' /\ Dated(api[g].session)'
    OBVIOUS
  <2>1. CASE g = f
    BY <1>1, <2>1 DEF Kept, Dated
  <2>2. CASE g # f
    BY <1>1, <1>2, <2>2 DEF Kept, Dated, Grows
  <2> QED BY <2>1, <2>2
<1> QED BY <1>3, <1>4, VpnPartsNext

\* The two tokens of a client and the expiry, one by one.
LEMMA VpnClientTypes ==
  ASSUME Vpn!TypeOK, NEW f \in User, NEW a, a = api[f]
  PROVE  /\ a \in [token : Vpn!Token, session : Vpn!Session] /\ a.token \in Vpn!Token
         /\ a.session \in Vpn!Session /\ a.session.two \in Vpn!Token
         /\ a.session.access \in Vpn!Token /\ a.session.expire \in Vpn!Token
BY VpnTypes DEF Vpn!Token

\* The client of one flow changes its token only.
NewToken(f, t) ==
  \E b \in [token : Vpn!Token, session : Vpn!Session] :
     api' = [api EXCEPT ![f] = b] /\ b.token = t /\ b.session = api[f].session

\* Another token in the client of one flow.
LEMMA VpnNewToken ==
  ASSUME Vpn!TypeOK, NEW f \in User, NEW t \in Vpn!Token, api' = [api EXCEPT ![f].token = t]
  PROVE  NewToken(f, t)
<1> DEFINE b == [token |-> t, session |-> api[f].session]
<1>1. api[f] \in [token : Vpn!Token, session : Vpn!Session]
  BY VpnTypes
<1>2. [api[f] EXCEPT !.token = t] = b
  BY <1>1
<1>3. api' = [api EXCEPT ![f] = [api[f] EXCEPT !.token = t]]
  BY DEF Vpn!TypeOK
<1>4. api' = [api EXCEPT ![f] = b]
  BY Zenon, <1>2, <1>3
<1>5. b \in [token : Vpn!Token, session : Vpn!Session] /\ b.token = t /\ b.session = api[f].session
  BY <1>1
<1> HIDE DEF b
<1> QED BY <1>4, <1>5 DEF NewToken

\* One more member, or one less, keeps a set within its type.
LEMMA VpnSets ==
  \A S, T, x : T \subseteq S => (T \ {x} \subseteq S /\ (x \in S => T \cup {x} \subseteq S))
OBVIOUS

\* sso_login fails, or captures no token and no expiry.
LEMMA VpnNothingCaptured ==
  ASSUME VpnTokens, Vpn!TypeOK', NEW f \in User, api' = [api EXCEPT ![f].token = Vpn!Restored(api[f])],
         bare' = bare \cup {f}, UNCHANGED <<file, dropped, undated, stray>>
  PROVE  VpnTokens'
<1>1. PICK a : a = api[f]
  OBVIOUS
<1>2. Vpn!TypeOK /\ Kept(f) /\ Dated(a.session)
  BY <1>1, VpnParts
<1>3. /\ a.session.access \in Vpn!Token /\ Vpn!Restored(a) \in Vpn!Token
      /\ Vpn!Restored(a) = a.token \/ a.session.access # 0
  BY Zenon, <1>1, <1>2, VpnClientTypes DEF Vpn!Restored
<1>4. PICK b \in [token : Vpn!Token, session : Vpn!Session] :
         api' = [api EXCEPT ![f] = b] /\ b.token = Vpn!Restored(a) /\ b.session = a.session
  <2>1. Vpn!Restored(api[f]) \in Vpn!Token
    BY Zenon, <1>1, <1>3
  <2>2. NewToken(f, Vpn!Restored(api[f]))
    BY Zenon, <1>2, <2>1, VpnNewToken
  <2> QED BY Zenon, <1>1, <2>2 DEF NewToken
<1>5. Grows(f) /\ f \in bare'
  BY DEF Grows
<1>6. b.token = b.session.access \/ f \in dropped' \/ (f \in bare' /\ b.session.access # 0)
  <2>1. a.token = a.session.access \/ f \in dropped \/ a.session.access # 0
    BY Zenon, <1>1, <1>2 DEF Kept
  <2> QED BY Zenon, <1>3, <1>4, <1>5, <2>1
<1>7. b.session.expire = b.session.access \/ b.session.access \in undated' \/ b.session.expire \in stray'
  BY Zenon, <1>2, <1>4 DEF Dated
<1> QED BY Zenon, <1>4, <1>5, <1>6, <1>7, VpnClient

\* An expiry is captured, and no token.
LEMMA VpnStray ==
  ASSUME VpnTokens, Vpn!TypeOK', NEW f \in User, NEW i \in Vpn!Token,
         api' = [api EXCEPT ![f] = [token |-> Vpn!Restored(api[f]),
                                    session |-> [api[f].session EXCEPT !.expire = i]]],
         bare' = bare \cup {f}, stray' = stray \cup {i}, UNCHANGED <<file, dropped, undated>>
  PROVE  VpnTokens'
<1>1. PICK a : a = api[f]
  OBVIOUS
<1>2. Vpn!TypeOK /\ Kept(f)
  BY VpnParts
<1>3. a.session \in Vpn!Session /\ (Vpn!Restored(a) = a.token \/ a.session.access # 0)
  BY Zenon, <1>1, <1>2, VpnClientTypes DEF Vpn!Restored
<1> DEFINE s == [a.session EXCEPT !.expire = i]
<1> DEFINE b == [token |-> Vpn!Restored(a), session |-> s]
<1>4. s.access = a.session.access /\ s.expire = i
  BY <1>3 DEF Vpn!Session
<1> HIDE DEF s
<1>5. b.token = Vpn!Restored(a) /\ b.session = s
  OBVIOUS
<1>6. api' = [api EXCEPT ![f] = b]
  BY Zenon, <1>1 DEF s
<1> HIDE DEF b
<1>7. Grows(f) /\ f \in bare' /\ i \in stray'
  BY DEF Grows
<1>8. b.token = b.session.access \/ f \in dropped' \/ (f \in bare' /\ b.session.access # 0)
  <2>1. a.token = a.session.access \/ f \in dropped \/ a.session.access # 0
    BY Zenon, <1>1, <1>2 DEF Kept
  <2> QED BY Zenon, <1>3, <1>4, <1>5, <1>7, <2>1
<1>9. b.session.expire \in stray'
  BY Zenon, <1>4, <1>5, <1>7
<1> QED BY Zenon, <1>6, <1>7, <1>8, <1>9, VpnClient

\* An access token is captured, with an expiry or without.
LEMMA VpnCaptured ==
  ASSUME VpnTokens, Vpn!TypeOK', NEW f \in User, NEW i, NEW e, NEW two,
         api' = [api EXCEPT ![f] = [token |-> i, session |-> [two |-> two, access |-> i, expire |-> e]]],
         e = i \/ i \in undated', undated \subseteq undated',
         bare' = bare \ {f}, dropped' = dropped \ {f}, UNCHANGED <<file, stray>>
  PROVE  VpnTokens'
<1> DEFINE b == [token |-> i, session |-> [two |-> two, access |-> i, expire |-> e]]
<1>1. b.token = i /\ b.session.access = i /\ b.session.expire = e /\ api' = [api EXCEPT ![f] = b]
  OBVIOUS
<1> HIDE DEF b
<1>2. Grows(f)
  BY DEF Grows
<1>3. b.token = b.session.access /\ (b.session.expire = b.session.access \/ b.session.access \in undated')
  BY Zenon, <1>1
<1> QED BY Zenon, <1>1, <1>2, <1>3, VpnClient

\* Login: sso_login, and what of its tokens is captured.
LEMMA VpnLogin ==
  ASSUME VpnTokens, NEW r \in Task, Vpn!Login(r)
  PROVE  VpnTokens'
<1>1. PICK f : f = req[r].flow
  OBVIOUS
<1>2. /\ req[r].at = "login" /\ f \in User /\ req[r] \in [at : Vpn!Step, flow : User]
      /\ UNCHANGED <<now, file, flow, flows>> /\ Vpn!TypeOK
  BY <1>1, VpnTypes DEF VpnTokens, Vpn!Login, Vpn!At, Vpn!Step
<1>3. PICK a : a = api[f]
  OBVIOUS
<1>4. /\ a \in [token : Vpn!Token, session : Vpn!Session] /\ a.token \in Vpn!Token
      /\ a.session \in Vpn!Session /\ a.session.two \in Vpn!Token
      /\ a.session.access \in Vpn!Token /\ a.session.expire \in Vpn!Token
  BY <1>2, <1>3, VpnClientTypes
<1>5. Vpn!LoginRefused(r, f, a) \/ Vpn!LoginWithoutToken(r, f, a) \/ Vpn!LoginWithToken(r, f, a)
  BY <1>1, <1>3 DEF Vpn!Login
<1>6. req' \in [Task -> [at : Vpn!Step, flow : User] \cup {Vpn!Idle}]
  <2>1. Vpn!Reply(r) \/ Vpn!Goto(r, "save")
    BY <1>5 DEF Vpn!LoginRefused, Vpn!LoginWithoutToken, Vpn!LoginWithToken
  <2> QED BY <1>2, <2>1 DEF Vpn!Reply, Vpn!Goto, Vpn!TypeOK, Vpn!Step
<1>7. Vpn!Restored(a) \in Vpn!Token
  BY <1>4 DEF Vpn!Restored
<1>8. CASE /\ api' = [api EXCEPT ![f].token = Vpn!Restored(a)]
           /\ bare' = bare \cup {f} /\ UNCHANGED <<issued, dropped, undated, stray>>
  <2>1. PICK b \in [token : Vpn!Token, session : Vpn!Session] : api' = [api EXCEPT ![f] = b]
    <3>1. NewToken(f, Vpn!Restored(a))
      BY Zenon, <1>2, <1>7, <1>8, VpnNewToken
    <3> QED BY Zenon, <3>1 DEF NewToken
  <2>2. Vpn!TypeOK'
    BY <1>2, <1>6, <1>8, <2>1 DEF Vpn!TypeOK
  <2>3. api' = [api EXCEPT ![f].token = Vpn!Restored(api[f])] /\ UNCHANGED <<file, dropped, undated, stray>>
    BY <1>2, <1>3, <1>8
  <2> QED BY Zenon, <1>2, <1>8, <2>2, <2>3, VpnNothingCaptured
<1>9. CASE /\ issued < MaxTokens /\ issued' = issued + 1 /\ stray' = stray \cup {issued'}
           /\ api' = [api EXCEPT ![f] =
                [token |-> Vpn!Restored(a), session |-> [a.session EXCEPT !.expire = issued']]]
           /\ bare' = bare \cup {f} /\ UNCHANGED <<dropped, undated>>
  <2>1. issued' \in Vpn!Token
    BY <1>2, <1>9, VpnTypes, SharedAssumption DEF Vpn!Token
  <2> DEFINE b == [token |-> Vpn!Restored(a), session |-> [a.session EXCEPT !.expire = issued']]
  <2>2. api' = [api EXCEPT ![f] = b] /\ b \in [token : Vpn!Token, session : Vpn!Session]
    <3>1. [a.session EXCEPT !.expire = issued'] \in Vpn!Session
      BY <1>4, <2>1 DEF Vpn!Session
    <3> QED BY <1>7, <1>9, <3>1
  <2> HIDE DEF b
  <2>3. Vpn!TypeOK'
    <3>1. /\ now' = now /\ file' = file /\ flow' = flow /\ flows' = flows
          /\ dropped' = dropped /\ undated' = undated
      BY <1>2, <1>9
    <3>2. bare' \subseteq User /\ stray' \subseteq Vpn!Token
      BY Zenon, <1>2, <1>9, <2>1, VpnSets DEF Vpn!TypeOK
    <3>3. api' \in [User -> [token : Vpn!Token, session : Vpn!Session]]
      BY <1>2, <2>2 DEF Vpn!TypeOK
    <3> QED BY Zenon, <1>2, <1>6, <2>1, <3>1, <3>2, <3>3 DEF Vpn!TypeOK
  <2>4. api' = [api EXCEPT ![f] = [token |-> Vpn!Restored(api[f]),
                                   session |-> [api[f].session EXCEPT !.expire = issued']]]
    BY Zenon, <1>3, <1>9
  <2>5. UNCHANGED <<file, dropped, undated>>
    BY <1>2, <1>9
  <2> QED BY Zenon, <1>2, <1>9, <2>1, <2>3, <2>4, <2>5, VpnStray
<1>10. CASE Vpn!LoginWithToken(r, f, a)
  <2>1. issued' \in Vpn!Token
    BY <1>2, <1>10, VpnTypes, SharedAssumption DEF Vpn!Token, Vpn!LoginWithToken
  <2>2. PICK e \in {issued', a.session.expire} :
           /\ api' = [api EXCEPT ![f] =
                [token |-> issued', session |-> [two |-> a.session.two, access |-> issued', expire |-> e]]]
           /\ undated' = IF e = issued' THEN undated ELSE undated \cup {issued'}
    BY Zenon, <1>10 DEF Vpn!LoginWithToken
  <2> DEFINE b == [token |-> issued', session |-> [two |-> a.session.two, access |-> issued', expire |-> e]]
  <2>3. api' = [api EXCEPT ![f] = b] /\ b \in [token : Vpn!Token, session : Vpn!Session]
    BY <1>4, <2>1, <2>2 DEF Vpn!Session
  <2> HIDE DEF b
  <2>4. /\ undated \subseteq undated' /\ (e = issued' \/ issued' \in undated')
        /\ undated' \subseteq undated \cup {issued'}
    BY <2>2
  <2>5. bare' = bare \ {f} /\ dropped' = dropped \ {f} /\ UNCHANGED <<file, stray>>
    BY <1>2, <1>10 DEF Vpn!LoginWithToken
  <2>6. Vpn!TypeOK'
    BY Zenon, <1>2, <1>6, <2>1, <2>3, <2>4, <2>5, VpnSets DEF Vpn!TypeOK
  <2> QED BY Zenon, <1>2, <2>2, <2>4, <2>5, <2>6, VpnCaptured
<1>11. CASE Vpn!LoginRefused(r, f, a)
  BY <1>8, <1>11 DEF Vpn!LoginRefused
<1>12. CASE Vpn!LoginWithoutToken(r, f, a)
  <2>1. bare' = bare \cup {f} /\ UNCHANGED <<dropped, undated>>
    BY <1>12 DEF Vpn!LoginWithoutToken
  <2> QED BY <1>8, <1>9, <1>12, <2>1 DEF Vpn!LoginWithoutToken
<1> QED BY <1>5, <1>10, <1>11, <1>12

\* Drop: a request is dropped, maybe in the midst of sso_login.
LEMMA VpnDrop ==
  ASSUME VpnTokens, NEW r \in Task, Vpn!Drop(r)
  PROVE  VpnTokens'
<1>1. PICK f : f = req[r].flow
  OBVIOUS
<1>2. /\ f \in User /\ Vpn!TypeOK /\ req' = [req EXCEPT ![r] = Vpn!Idle]
      /\ UNCHANGED <<now, file, flow, flows, issued, bare, undated, stray>>
  BY <1>1, VpnTypes DEF VpnTokens, Vpn!Drop, Vpn!Step, Vpn!Reply
<1>3. CASE UNCHANGED <<api, dropped>>
  <2>1. Vpn!TypeOK'
    BY <1>2, <1>3 DEF Vpn!TypeOK
  <2> QED BY <1>2, <1>3, <2>1, VpnQuiet
<1>4. CASE api' = [api EXCEPT ![f].token = api[f].session.two] /\ dropped' = dropped \cup {f}
  <2>1. api[f].session.two \in Vpn!Token /\ Dated(api[f].session)
    BY <1>2, VpnTypes, VpnParts DEF Vpn!Token
  <2>2. PICK b \in [token : Vpn!Token, session : Vpn!Session] :
           api' = [api EXCEPT ![f] = b] /\ b.session = api[f].session
    <3>1. NewToken(f, api[f].session.two)
      BY Zenon, <1>2, <1>4, <2>1, VpnNewToken
    <3> QED BY Zenon, <3>1 DEF NewToken
  <2>3. Vpn!TypeOK'
    BY <1>2, <1>4, <2>2 DEF Vpn!TypeOK
  <2>4. Grows(f) /\ f \in dropped'
    BY <1>2, <1>4 DEF Grows
  <2>5. b.session.expire = b.session.access \/ b.session.access \in undated' \/ b.session.expire \in stray'
    BY <1>2, <2>1, <2>2 DEF Dated
  <2> QED BY Zenon, <1>2, <2>2, <2>3, <2>4, <2>5, VpnClient
<1> QED BY <1>1, <1>3, <1>4 DEF Vpn!Drop, Vpn!At

\* Validate: the code is traded for a two-factor token.
LEMMA VpnValidate ==
  ASSUME VpnTokens, NEW r \in Task, Vpn!Validate(r)
  PROVE  VpnTokens'
<1>1. PICK f : f = req[r].flow
  OBVIOUS
<1>2. /\ f \in User /\ req[r] \in [at : Vpn!Step, flow : User]
      /\ UNCHANGED <<now, file, flow, flows, bare, dropped, undated, stray>> /\ Vpn!TypeOK
  BY <1>1, VpnTypes DEF VpnTokens, Vpn!Validate, Vpn!At, Vpn!Step
<1>3. req' \in [Task -> [at : Vpn!Step, flow : User] \cup {Vpn!Idle}]
  <2>1. Vpn!Reply(r) \/ Vpn!Goto(r, "login")
    BY DEF Vpn!Validate
  <2> QED BY <1>2, <2>1 DEF Vpn!Reply, Vpn!Goto, Vpn!TypeOK, Vpn!Step
<1>4. CASE UNCHANGED <<api, issued>>
  <2>1. Vpn!TypeOK'
    BY <1>2, <1>3, <1>4 DEF Vpn!TypeOK
  <2> QED BY <1>2, <1>4, <2>1, VpnQuiet
<1>5. CASE /\ issued < MaxTokens /\ issued' = issued + 1
           /\ api' = [api EXCEPT ![f].session.two = issued']
  <2>1. PICK a : a = api[f]
    OBVIOUS
  <2>2. /\ a \in [token : Vpn!Token, session : Vpn!Session] /\ a.session \in Vpn!Session
        /\ a.token \in Vpn!Token /\ a.session.access \in Vpn!Token /\ a.session.expire \in Vpn!Token
    BY <1>2, <2>1, VpnTypes DEF Vpn!Token
  <2>3. issued' \in Vpn!Token
    BY <1>2, <1>5, VpnTypes, SharedAssumption DEF Vpn!Token
  <2> DEFINE b == [token |-> a.token,
                   session |-> [two |-> issued', access |-> a.session.access, expire |-> a.session.expire]]
  <2>4. /\ b \in [token : Vpn!Token, session : Vpn!Session]
        /\ b.token = a.token /\ b.session.access = a.session.access /\ b.session.expire = a.session.expire
    BY <2>2, <2>3 DEF Vpn!Session
  <2>5. api' = [api EXCEPT ![f] = b]
    <3>1. [a EXCEPT !.session.two = issued'] = b
      BY <2>2 DEF Vpn!Session
    <3>2. api' = [api EXCEPT ![f] = [a EXCEPT !.session.two = issued']]
      BY <1>2, <1>5, <2>1 DEF Vpn!TypeOK
    <3> QED BY Zenon, <3>1, <3>2
  <2>6. /\ a.token = a.session.access \/ f \in dropped \/ (f \in bare /\ a.session.access # 0)
        /\ a.session.expire = a.session.access \/ a.session.access \in undated \/ a.session.expire \in stray
    <3>1. Kept(f) /\ Dated(api[f].session)
      BY <1>2, VpnParts
    <3> QED BY <2>1, <3>1 DEF Kept, Dated
  <2> HIDE DEF b
  <2>7. Vpn!TypeOK'
    BY <1>2, <1>3, <2>3, <2>4, <2>5 DEF Vpn!TypeOK
  <2>8. Grows(f)
    BY <1>2 DEF Grows
  <2>9. b.token = b.session.access \/ f \in dropped' \/ (f \in bare' /\ b.session.access # 0)
    BY <1>2, <2>4, <2>6
  <2>10. b.session.expire = b.session.access \/ b.session.access \in undated' \/ b.session.expire \in stray'
    BY <1>2, <2>4, <2>6
  <2> QED BY Zenon, <1>2, <2>5, <2>7, <2>8, <2>9, <2>10, VpnClient
<1> QED BY <1>1, <1>4, <1>5 DEF Vpn!Validate

\* LoadSession and NoLink: a flow takes the session on file, and may be refused its link.
LEMMA VpnLoad ==
  ASSUME VpnTokens, NEW f \in User, Vpn!LoadSession(f) \/ Vpn!NoLink(f)
  PROVE  VpnTokens'
<1>1. /\ UNCHANGED <<now, file, flows, req, issued, bare, dropped, undated, stray>> /\ Vpn!TypeOK
      /\ \E st \in {"asking", "refused"} : flow' = [flow EXCEPT ![f].st = st]
  BY DEF VpnTokens, Vpn!LoadSession, Vpn!NoLink
<1>2. /\ Vpn!NoSession \in Vpn!Session /\ Vpn!NoClient.session = Vpn!NoSession
      /\ Vpn!NoClient.token = 0 /\ Vpn!NoSession.access = 0 /\ Vpn!NoSession.expire = 0
  BY SharedAssumption DEF Vpn!NoSession, Vpn!NoClient, Vpn!Session, Vpn!Token
<1>3. PICK s \in {file, Vpn!NoSession} : api' = [api EXCEPT ![f] = [token |-> s.access, session |-> s]]
  <2>1. Vpn!NoClient = [token |-> Vpn!NoSession.access, session |-> Vpn!NoSession]
    BY DEF Vpn!NoClient, Vpn!NoSession
  <2> QED BY <2>1 DEF Vpn!LoadSession, Vpn!NoLink
<1>4. s \in Vpn!Session /\ s.access \in Vpn!Token
  BY <1>1, <1>2, VpnTypes DEF Vpn!Session
<1> DEFINE b == [token |-> s.access, session |-> s]
<1>5. b \in [token : Vpn!Token, session : Vpn!Session] /\ b.token = b.session.access /\ b.session = s
  BY <1>4
<1>6. s.expire = s.access \/ s.access \in undated \/ s.expire \in stray
  BY <1>2, VpnParts DEF Dated
<1> HIDE DEF b
<1>7. api' = [api EXCEPT ![f] = b]
  BY <1>3 DEF b
<1>8. Vpn!TypeOK'
  BY <1>1, <1>5, <1>7 DEF Vpn!TypeOK
<1>9. Grows(f)
  BY <1>1 DEF Grows
<1>10. b.token = b.session.access
  BY <1>5
<1>11. b.session.expire = b.session.access \/ b.session.access \in undated' \/ b.session.expire \in stray'
  BY <1>1, <1>5, <1>6
<1> QED BY Zenon, <1>7, <1>8, <1>9, <1>10, <1>11, VpnClient

\* Every step keeps the tokens and their expiry.
LEMMA VpnTokensStep == VpnInv /\ (Vpn!Next \/ UNCHANGED <<now, req, vpnVars>>) => VpnTokens'
<1> SUFFICES ASSUME VpnInv, Vpn!Next \/ UNCHANGED <<now, req, vpnVars>> PROVE VpnTokens'
  OBVIOUS
<1>t. Vpn!TypeOK /\ VpnTokens /\ VpnHeld
  BY DEF VpnInv, VpnTokens
<1>1. CASE Vpn!Tick \/ UNCHANGED <<now, req, vpnVars>>
  <2>1. Vpn!TypeOK' /\ UNCHANGED <<file, api, bare, dropped, undated, stray>>
    BY <1>1, <1>t, SharedAssumption DEF Vpn!TypeOK, Vpn!Tick, vpnVars
  <2> QED BY <1>t, <2>1, VpnQuiet
<1>2. CASE Vpn!Restart
  <2>1. /\ UNCHANGED <<now, file, issued, undated, stray>> /\ api' = [f \in User |-> Vpn!NoClient]
        /\ bare' = {} /\ dropped' = {} /\ flows' = {} /\ req' = [r \in Task |-> Vpn!Idle]
        /\ flow' = [f \in User |-> IF flow[f].st = "unused" THEN flow[f]
                                   ELSE [st |-> "refused", expire |-> 0]]
    BY <1>2 DEF Vpn!Restart
  <2>2. Vpn!NoClient \in [token : Vpn!Token, session : Vpn!Session]
    BY SharedAssumption DEF Vpn!NoClient, Vpn!NoSession, Vpn!Session, Vpn!Token
  <2>3. flow' \in [User -> [st : {"unused", "asking", "open", "refused"}, expire : 0..(VpnTime + FLOW_EXPIRE)]]
    BY <1>t, <2>1, SharedAssumption DEF Vpn!TypeOK
  <2>4. Vpn!TypeOK'
    BY <1>t, <2>1, <2>2, <2>3 DEF Vpn!TypeOK
  <2>5. \A f \in User : Kept(f)' /\ Dated(api[f].session)'
    BY <2>1 DEF Kept, Dated, Vpn!NoClient, Vpn!NoSession
  <2>6. Dated(file)' /\ Filed(file)'
    BY <1>t, <2>1, VpnParts DEF Dated, Filed
  <2> QED BY <2>4, <2>5, <2>6, VpnPartsNext
<1>3. ASSUME NEW f \in User, Vpn!CreateFlow(f) \/ Vpn!Forget(f) PROVE VpnTokens'
  <2>1. now + FLOW_EXPIRE \in 0..(VpnTime + FLOW_EXPIRE)
    BY <1>t, SharedAssumption DEF Vpn!TypeOK
  <2>2. Vpn!TypeOK' /\ UNCHANGED <<file, api, bare, dropped, undated, stray>>
    BY <1>3, <1>t, <2>1 DEF Vpn!TypeOK, Vpn!CreateFlow, Vpn!Forget
  <2> QED BY <1>t, <2>2, VpnQuiet
<1>4. ASSUME NEW r \in Task, NEW f \in User, Vpn!Arrive(r, f) PROVE VpnTokens'
  <2>1. Vpn!TypeOK' /\ UNCHANGED <<file, api, bare, dropped, undated, stray>>
    BY <1>4, <1>t DEF Vpn!TypeOK, Vpn!Arrive, Vpn!Step
  <2> QED BY <1>t, <2>1, VpnQuiet
<1>5. ASSUME NEW r \in Task, Vpn!Lock(r) PROVE VpnTokens'
  <2>1. req[r] \in [at : Vpn!Step, flow : User]
    BY <1>5, <1>t, VpnTypes DEF Vpn!Lock, Vpn!At, Vpn!Step
  <2>2. Vpn!TypeOK' /\ UNCHANGED <<file, api, bare, dropped, undated, stray>>
    BY <1>5, <1>t, <2>1 DEF Vpn!TypeOK, Vpn!Lock, Vpn!Goto, Vpn!Step
  <2> QED BY <1>t, <2>2, VpnQuiet
<1>6. ASSUME NEW r \in Task, Vpn!Save(r) PROVE VpnTokens'
  <2>1. req[r].at = "save" /\ req[r].flow \in User
        /\ UNCHANGED <<now, flow, api, flows, issued, bare, dropped, undated, stray>>
        /\ file' \in {file, api[req[r].flow].session} /\ req' = [req EXCEPT ![r] = Vpn!Idle]
    BY <1>6, <1>t, VpnTypes DEF Vpn!Save, Vpn!At, Vpn!Step, Vpn!Reply
  <2>2. file' \in Vpn!Session
    BY <1>t, <2>1, VpnTypes
  <2>3. Vpn!TypeOK'
    BY <1>t, <2>1, <2>2 DEF Vpn!TypeOK
  <2>4. \A f \in User : Kept(f)' /\ Dated(api[f].session)'
    BY <1>t, <2>1, VpnParts DEF Kept, Dated
  <2>5. Dated(file)' /\ Filed(file)'
    BY <1>t, <2>1, VpnParts DEF Dated, Filed, VpnHeld
  <2> QED BY <2>3, <2>4, <2>5, VpnPartsNext
<1> QED BY <1>t, <1>1, <1>2, <1>3, <1>4, <1>5, <1>6, VpnLoad, VpnValidate, VpnLogin, VpnDrop DEF Vpn!Next

\* Access tokens are not given up in this step.
TokensStay == \A f \in User : api[f].session.access # 0 => api'[f].session.access # 0

\* A step of one request, which ends it or takes it on, and to a save only with a token.
LEMMA VpnOneRequest ==
  ASSUME VpnTokens, VpnHeld, NEW r \in Task, req[r].at \in Vpn!Step, UNCHANGED <<flow, flows>>, TokensStay,
         \/ Vpn!Reply(r) \/ Vpn!Goto(r, "validate") \/ Vpn!Goto(r, "login")
         \/ Vpn!Goto(r, "save") /\ api'[req[r].flow].session.access # 0
  PROVE  VpnHeld'
<1>1. /\ Vpn!TypeOK /\ req[r].flow \in User /\ req[r] \in [at : Vpn!Step, flow : User]
      /\ flow[req[r].flow].st = "open"
  BY VpnTypes DEF VpnTokens, VpnHeld
<1>2. \A o \in Task : o # r => req'[o] = req[o]
  BY <1>1 DEF Vpn!Reply, Vpn!Goto, Vpn!TypeOK
<1>3. /\ req'[r].at \in Vpn!Step => req'[r].flow = req[r].flow
      /\ req'[r].at = "save" => api'[req[r].flow].session.access # 0
  BY <1>1 DEF Vpn!Reply, Vpn!Goto, Vpn!TypeOK, Vpn!Idle, Vpn!Step
<1>4. \A o \in Task : req[o].at \in Vpn!Step => req[o].flow \in User
  BY <1>1, VpnTypes
<1>5. (\A g \in flows : flow[g].st = "open")'
  BY DEF VpnHeld
<1>6. (\A o \in Task : req[o].at \in Vpn!Step => flow[req[o].flow].st = "open")'
  BY <1>1, <1>2, <1>3 DEF VpnHeld
<1>7. (\A o \in Task : req[o].at = "save" => api[req[o].flow].session.access # 0)'
  <2>1. "save" \in Vpn!Step
    BY DEF Vpn!Step
  <2> QED BY <1>1, <1>2, <1>3, <1>4, <2>1 DEF VpnHeld, TokensStay
<1> QED BY <1>5, <1>6, <1>7 DEF VpnHeld

\* A client that is given another token or expiry keeps that it has an access token.
LEMMA VpnTokensStay ==
  ASSUME Vpn!TypeOK, NEW f \in User, NEW b, api' = [api EXCEPT ![f] = b],
         api[f].session.access # 0 => b.session.access # 0
  PROVE  TokensStay
BY DEF TokensStay, Vpn!TypeOK

\* The requests of Login, Validate and Drop.
LEMMA VpnLoginHeld ==
  ASSUME VpnTokens, VpnHeld, NEW r \in Task, Vpn!Login(r)
  PROVE  VpnHeld'
<1>1. PICK f : f = req[r].flow
  OBVIOUS
<1>2. /\ req[r].at \in Vpn!Step /\ f \in User /\ UNCHANGED <<flow, flows>> /\ Vpn!TypeOK
  BY <1>1, VpnTypes DEF VpnTokens, Vpn!Login, Vpn!At, Vpn!Step
<1>3. PICK a : a = api[f]
  OBVIOUS
<1>4. /\ a \in [token : Vpn!Token, session : Vpn!Session] /\ a.session \in Vpn!Session
      /\ Vpn!Restored(a) \in Vpn!Token /\ issued \in Nat
  <2>1. /\ a \in [token : Vpn!Token, session : Vpn!Session] /\ a.session \in Vpn!Session
        /\ a.token \in Vpn!Token /\ a.session.two \in Vpn!Token
    BY <1>2, <1>3, VpnClientTypes
  <2>2. issued \in Nat
    BY <1>2, VpnTypes, SharedAssumption
  <2> QED BY <2>1, <2>2 DEF Vpn!Restored
<1>5. CASE api' = [api EXCEPT ![f].token = Vpn!Restored(a)]
           /\ (Vpn!Reply(r) \/ (a.session.access # 0 /\ Vpn!Goto(r, "save")))
  <2>1. PICK b : api' = [api EXCEPT ![f] = b] /\ b.session = a.session
    <3>1. NewToken(f, Vpn!Restored(a))
      BY Zenon, <1>2, <1>4, <1>5, VpnNewToken
    <3> QED BY Zenon, <1>3, <3>1 DEF NewToken
  <2>2. TokensStay
    BY Zenon, <1>2, <1>3, <2>1, VpnTokensStay
  <2>3. a.session.access # 0 => api'[f].session.access # 0
    BY Zenon, <1>2, <1>3, <2>2 DEF TokensStay
  <2> QED BY <1>1, <1>2, <1>5, <2>2, <2>3, VpnOneRequest
<1>6. CASE api' = [api EXCEPT ![f] =
                [token |-> Vpn!Restored(a), session |-> [a.session EXCEPT !.expire = issued']]]
           /\ (Vpn!Reply(r) \/ (a.session.access # 0 /\ Vpn!Goto(r, "save")))
  <2> DEFINE b == [token |-> Vpn!Restored(a), session |-> [a.session EXCEPT !.expire = issued']]
  <2>1. b.session.access = a.session.access
    BY <1>4 DEF Vpn!Session
  <2>2. api' = [api EXCEPT ![f] = b]
    BY <1>6
  <2> HIDE DEF b
  <2>3. TokensStay
    BY Zenon, <1>2, <1>3, <2>1, <2>2, VpnTokensStay
  <2>4. a.session.access # 0 => api'[f].session.access # 0
    BY Zenon, <1>2, <1>3, <2>3 DEF TokensStay
  <2> QED BY <1>1, <1>2, <1>6, <2>3, <2>4, VpnOneRequest
<1>7. CASE Vpn!LoginWithToken(r, f, a)
  <2>1. issued' # 0 /\ Vpn!Goto(r, "save")
    BY <1>4, <1>7 DEF Vpn!LoginWithToken
  <2>2. PICK e : api' = [api EXCEPT ![f] =
           [token |-> issued', session |-> [two |-> a.session.two, access |-> issued', expire |-> e]]]
    BY Zenon, <1>7 DEF Vpn!LoginWithToken
  <2> DEFINE b == [token |-> issued', session |-> [two |-> a.session.two, access |-> issued', expire |-> e]]
  <2>3. api' = [api EXCEPT ![f] = b] /\ b.session.access = issued'
    BY <2>2
  <2> HIDE DEF b
  <2>4. TokensStay
    BY Zenon, <1>2, <2>1, <2>3, VpnTokensStay
  <2>5. api'[f].session.access # 0
    BY <1>2, <2>1, <2>3 DEF Vpn!TypeOK
  <2> QED BY <1>1, <1>2, <2>1, <2>4, <2>5, VpnOneRequest
<1>8. CASE Vpn!LoginRefused(r, f, a)
  <2>1. api' = [api EXCEPT ![f].token = Vpn!Restored(a)] /\ Vpn!Reply(r)
    BY <1>8 DEF Vpn!LoginRefused
  <2> QED BY Zenon, <1>5, <2>1
<1>9. CASE Vpn!LoginWithoutToken(r, f, a)
  <2>1. Vpn!Reply(r) \/ (a.session.access # 0 /\ Vpn!Goto(r, "save"))
    BY Zenon, <1>9 DEF Vpn!LoginWithoutToken
  <2>2. \/ api' = [api EXCEPT ![f].token = Vpn!Restored(a)]
        \/ api' = [api EXCEPT ![f] =
              [token |-> Vpn!Restored(a), session |-> [a.session EXCEPT !.expire = issued']]]
    BY Zenon, <1>9 DEF Vpn!LoginWithoutToken
  <2> QED BY Zenon, <1>5, <1>6, <2>1, <2>2
<1> QED BY <1>1, <1>3, <1>7, <1>8, <1>9 DEF Vpn!Login

\* Validate and Drop leave every session its access token.
LEMMA VpnOthersHeld ==
  ASSUME VpnTokens, VpnHeld, NEW r \in Task, Vpn!Validate(r) \/ Vpn!Drop(r)
  PROVE  VpnHeld'
<1>1. PICK f : f = req[r].flow
  OBVIOUS
<1>2. /\ req[r].at \in Vpn!Step /\ f \in User /\ UNCHANGED <<flow, flows>> /\ Vpn!TypeOK
      /\ Vpn!Reply(r) \/ Vpn!Goto(r, "login")
  BY <1>1, VpnTypes DEF VpnTokens, Vpn!Validate, Vpn!Drop, Vpn!At, Vpn!Step
<1>3. \A g \in User : api[g] \in [token : Vpn!Token, session : Vpn!Session] /\ api[g].session \in Vpn!Session
  BY <1>2, VpnTypes
<1>4. TokensStay
  <2>1. CASE api' = api
    BY <2>1 DEF TokensStay
  <2>2. CASE api' = [api EXCEPT ![f].session.two = issued']
    BY <1>2, <1>3, <2>2 DEF TokensStay, Vpn!TypeOK, Vpn!Session
  <2>3. CASE api' = [api EXCEPT ![f].token = api[f].session.two]
    BY <1>2, <1>3, <2>3 DEF TokensStay, Vpn!TypeOK
  <2> QED BY <1>1, <2>1, <2>2, <2>3 DEF Vpn!Validate, Vpn!Drop
<1> QED BY <1>2, <1>4, VpnOneRequest

\* Flows with requests, and sessions to be saved, stay as the invariant has them.
LEMMA VpnHeldStep == VpnInv /\ (Vpn!Next \/ UNCHANGED <<now, req, vpnVars>>) => VpnHeld'
<1> SUFFICES ASSUME VpnInv, Vpn!Next \/ UNCHANGED <<now, req, vpnVars>> PROVE VpnHeld'
  OBVIOUS
<1>t. Vpn!TypeOK /\ VpnTokens /\ VpnHeld
  BY DEF VpnInv, VpnTokens
<1>f. \A r \in Task : req[r].at \in Vpn!Step => req[r].flow \in User
  BY <1>t, VpnTypes
<1>1. CASE Vpn!Tick \/ UNCHANGED <<now, req, vpnVars>>
  BY <1>1, <1>t DEF VpnHeld, Vpn!Tick, vpnVars
<1>2. CASE Vpn!Restart
  BY <1>2 DEF VpnHeld, Vpn!Restart, Vpn!Idle, Vpn!Step
<1>3. ASSUME NEW f \in User, Vpn!LoadSession(f) \/ Vpn!NoLink(f) PROVE VpnHeld'
  <2>1. /\ UNCHANGED <<flows, req>> /\ flow[f].st # "open"
        /\ \A g \in User : g # f => flow'[g] = flow[g] /\ api'[g] = api[g]
    BY <1>3, <1>t DEF Vpn!LoadSession, Vpn!NoLink, Vpn!TypeOK
  <2>2. "save" \in Vpn!Step /\ flows \subseteq User
    BY <1>t DEF Vpn!Step, Vpn!TypeOK
  <2>3. (\A g \in flows : flow[g].st = "open")'
    BY <1>t, <2>1, <2>2 DEF VpnHeld
  <2>4. \A r \in Task : req[r].at \in Vpn!Step => req[r].flow # f
    BY <1>t, <2>1 DEF VpnHeld
  <2> QED BY <1>t, <1>f, <2>1, <2>2, <2>3, <2>4 DEF VpnHeld
<1>4. ASSUME NEW f \in User, Vpn!CreateFlow(f) PROVE VpnHeld'
  <2>1. /\ UNCHANGED <<req, api>> /\ flow'[f].st = "open" /\ flows' \subseteq flows \cup {f}
        /\ \A g \in User : g # f => flow'[g] = flow[g]
    BY <1>4, <1>t DEF Vpn!CreateFlow, Vpn!TypeOK
  <2> QED BY <1>t, <1>f, <2>1 DEF VpnHeld, Vpn!TypeOK
<1>5. ASSUME NEW f \in User, Vpn!Forget(f) PROVE VpnHeld'
  BY <1>5, <1>t DEF VpnHeld, Vpn!Forget
<1>6. ASSUME NEW r \in Task, NEW f \in User, Vpn!Arrive(r, f) PROVE VpnHeld'
  <2>1. /\ UNCHANGED <<flow, api, flows>> /\ f \in flows /\ req'[r] = [at |-> "waiting", flow |-> f]
        /\ \A o \in Task : o # r => req'[o] = req[o]
    BY <1>6, <1>t DEF Vpn!Arrive, Vpn!TypeOK
  <2> QED BY <1>t, <2>1 DEF VpnHeld
<1>7. ASSUME NEW r \in Task, Vpn!Lock(r) \/ Vpn!Save(r) PROVE VpnHeld'
  <2>1. /\ req[r].at \in Vpn!Step /\ UNCHANGED <<flow, flows, api>>
        /\ Vpn!Goto(r, "validate") \/ Vpn!Reply(r)
    BY <1>7 DEF Vpn!Lock, Vpn!Save, Vpn!At, Vpn!Step
  <2>2. TokensStay
    BY <2>1 DEF TokensStay
  <2> QED BY <1>t, <2>1, <2>2, VpnOneRequest
<1> QED BY <1>t, <1>1, <1>2, <1>3, <1>4, <1>5, <1>6, <1>7, VpnLoginHeld, VpnOthersHeld DEF Vpn!Next

\* Every step keeps the invariant.
LEMMA VpnStep == VpnInv /\ (Vpn!Next \/ UNCHANGED <<now, req, vpnVars>>) => VpnInv'
BY VpnTokensStep, VpnHeldStep DEF VpnInv
-----------------------------------------------------------------------------
(* The client of one login (SchoolLogin).                                  *)

\* Before a login is stored, a ticket in the jar is the one the server issued
\* for the last submit, or the one a failed password login left behind.
SchoolInv ==
  /\ School!TypeOK
  /\ jar.castgc = 0 \/ step = "failed" \/ jar.castgc = carried
       \/ (step \in {"profile", "probe", "done"} /\ jar.castgc = accepted)
  /\ step = "profile" => jar.castgc # 0
  /\ step \notin {"probe", "done"} => stored = School!NoLogin /\ tries.probe = 0
  /\ step = "probe" => tries.probe < MAX_ATTEMPTS
  /\ School!LoginIsBacked

\* What the type invariant says of each variable of the school login.
LEMMA SchoolTypes ==
  ASSUME School!TypeOK
  PROVE  /\ jar \in [castgc : School!Ticket, session : School!Ticket]
         /\ jar.castgc \in 0..MaxTickets /\ jar.session \in 0..MaxTickets
         /\ account = [issued |-> account.issued, alive |-> account.alive, opened |-> account.opened,
                       ready |-> account.ready, elsewhere |-> account.elsewhere, blocked |-> account.blocked]
         /\ account.issued \in 0..MaxTickets /\ account.alive \in 0..MaxTickets
         /\ account.opened \subseteq 1..MaxTickets /\ account.ready \subseteq 1..MaxTickets
         /\ account.elsewhere \in 0..MaxElsewhere /\ account.blocked \in BOOLEAN
         /\ step \in School!Step /\ method \in {"password", "code"}
         /\ tries \in [ask : 0..MAX_TRIES, probe : 0..MAX_ATTEMPTS]
         /\ tries.ask \in 0..MAX_TRIES /\ tries.probe \in 0..MAX_ATTEMPTS
         /\ accepted \in 0..MaxTickets /\ carried \in 0..MaxTickets
BY DEF School!TypeOK, School!Ticket

\* The login starts with an empty jar.
LEMMA SchoolInit == School!Init => SchoolInv
BY SharedAssumption DEF School!Init, SchoolInv, School!TypeOK, School!NoLogin, School!Ticket,
     School!Step, School!LoginIsBacked

\* A step before a login is stored, with the jar and the account it leaves.
LEMMA SchoolEarly ==
  ASSUME SchoolInv, School!TypeOK', step \notin {"probe", "done"}, step' \notin {"probe", "done"},
         stored' = stored, tries'.probe = tries.probe, step' = "profile" => jar'.castgc # 0,
         jar'.castgc = 0 \/ step' = "failed" \/ jar'.castgc = carried'
           \/ (step' = "profile" /\ jar'.castgc = accepted')
  PROVE  SchoolInv'
BY DEF SchoolInv, School!LoginIsBacked

\* What a failure, or going on, makes of the method.
LEMMA SchoolFail ==
  ASSUME School!TypeOK, School!Fail
  PROVE  /\ step' \in {"page", "failed"} /\ method' \in {"password", "code"}
         /\ step' = "page" => carried' = jar.castgc
         /\ carried' \in {carried, jar.castgc}
BY DEF School!Fail, School!TypeOK

\* The steps that only ask: the login page, the token, the wait for the code.
LEMMA SchoolAsking ==
  ASSUME SchoolInv, School!LoginPage \/ School!GetToken \/ School!WaitQrcode
  PROVE  SchoolInv'
<1>1. /\ step \in {"page", "token", "scan"} /\ UNCHANGED <<jar, account, tries, stored, accepted>>
      /\ School!TypeOK
  BY DEF SchoolInv, School!LoginPage, School!GetToken, School!WaitQrcode
<1>2. \/ /\ step' \in {"submit", "token", "scan", step} /\ UNCHANGED <<method, carried>>
      \/ School!Fail
  BY DEF School!LoginPage, School!GetToken, School!WaitQrcode, School!GoOn, School!Form
<1>3. School!TypeOK'
  BY <1>1, <1>2, SchoolTypes, SchoolFail DEF School!TypeOK, School!Step, School!Ticket
<1>4. jar.castgc = 0 \/ jar.castgc = carried
  BY <1>1 DEF SchoolInv
<1>5. jar'.castgc = 0 \/ step' = "failed" \/ jar'.castgc = carried'
  BY <1>1, <1>2, <1>4, SchoolFail
<1>6. step' \notin {"probe", "done", "profile"}
  BY <1>1, <1>2, SchoolFail
<1> QED BY <1>1, <1>3, <1>5, <1>6, SchoolEarly

\* The steps that submit, and that answer "throw out and continue".
LEMMA SchoolSubmitting ==
  ASSUME SchoolInv, School!SubmitLogin \/ School!KickOut
  PROVE  SchoolInv'
<1>1. step \in {"submit", "continue"} /\ stored' = stored /\ School!TypeOK
  BY DEF SchoolInv, School!SubmitLogin, School!KickOut
<1>2. jar.castgc = 0 \/ jar.castgc = carried
  BY <1>1 DEF SchoolInv
<1>3. CASE School!Issue /\ School!Check
  <2>1. /\ account.issued < MaxTickets
        /\ account' = [issued |-> account.issued + 1, alive |-> account.issued + 1, opened |-> account.opened,
                       ready |-> account.ready, elsewhere |-> account.elsewhere, blocked |-> FALSE]
        /\ accepted' = account'.issued
    BY Zenon, <1>1, <1>3, SchoolTypes DEF School!Issue
  <2>2. account'.issued = account.issued + 1 /\ account.issued + 1 \in 1..MaxTickets
    BY <1>1, <2>1, SchoolTypes, SharedAssumption
  <2>3. jar' \in [castgc : School!Ticket, session : School!Ticket] /\ jar'.castgc = account.issued + 1
    BY <1>1, <1>3, <2>2, SchoolTypes DEF School!Issue, School!Ticket
  <2>4. /\ step' = "profile" /\ UNCHANGED <<method, carried>>
        /\ tries' = [ask |-> 0, probe |-> tries.probe]
    BY <1>1, <1>3, <2>2, <2>3, SchoolTypes DEF School!Check, School!GoOn
  <2>5. account' \in [issued : School!Ticket, alive : School!Ticket, opened : SUBSET (1..MaxTickets),
                      ready : SUBSET (1..MaxTickets), elsewhere : 0..MaxElsewhere, blocked : BOOLEAN]
    BY <1>1, <2>1, <2>2, SchoolTypes DEF School!Ticket
  <2>6. School!TypeOK'
    BY <1>1, <2>1, <2>2, <2>3, <2>4, <2>5, SchoolTypes, SharedAssumption DEF School!TypeOK, School!Step, School!Ticket
  <2>7. tries'.probe = tries.probe
    BY <2>4
  <2> QED BY <1>1, <2>1, <2>2, <2>3, <2>4, <2>6, <2>7, SchoolEarly
<1>4. CASE School!NoTicket /\ \/ School!Check
                              \/ School!Fail /\ UNCHANGED tries
                              \/ School!GoOn("continue") /\ UNCHANGED tries
  <2>1. accepted' = 0 /\ UNCHANGED <<jar, account>>
    BY <1>4 DEF School!NoTicket
  <2>2. CASE step' = "profile" /\ jar.castgc # 0 /\ tries' = [tries EXCEPT !.ask = 0] /\ UNCHANGED <<method, carried>>
    <3>1. tries' \in [ask : 0..MAX_TRIES, probe : 0..MAX_ATTEMPTS] /\ tries'.probe = tries.probe
      BY <1>1, <2>2, SchoolTypes, SharedAssumption
    <3>2. School!TypeOK'
      BY <1>1, <2>1, <2>2, <3>1, SchoolTypes, SharedAssumption DEF School!TypeOK, School!Step, School!Ticket
    <3> QED BY <1>1, <1>2, <2>1, <2>2, <3>1, <3>2, SchoolEarly
  <2>3. CASE School!Fail /\ UNCHANGED tries
    <3>1. School!TypeOK'
      BY <1>1, <2>1, <2>3, SchoolTypes, SchoolFail, SharedAssumption DEF School!TypeOK, School!Step, School!Ticket
    <3>2. step' \in {"page", "failed"} /\ (step' = "failed" \/ carried' = jar.castgc)
      BY <1>1, <2>3, SchoolFail
    <3> QED BY <1>1, <2>1, <2>3, <3>1, <3>2, SchoolEarly
  <2>4. CASE step' = "continue" /\ UNCHANGED <<method, carried, tries>>
    <3>1. School!TypeOK'
      BY <1>1, <2>1, <2>4, SchoolTypes, SharedAssumption DEF School!TypeOK, School!Step, School!Ticket
    <3> QED BY <1>1, <1>2, <2>1, <2>4, <3>1, SchoolEarly
  <2> QED BY <1>4, <2>1, <2>2, <2>3, <2>4 DEF School!Check, School!GoOn
<1> QED BY <1>3, <1>4 DEF School!SubmitLogin, School!KickOut

\* Profile: the ticket opens a session, and what both make is stored.
LEMMA SchoolProfile ==
  ASSUME SchoolInv, School!Profile
  PROVE  SchoolInv'
<1>1. step = "profile" /\ UNCHANGED accepted /\ School!TypeOK /\ jar.castgc # 0 /\ tries.probe = 0
  BY DEF SchoolInv, School!Profile
<1>2. /\ jar' = [castgc |-> jar.castgc, session |-> School!SessionOf] /\ School!SessionOf \in School!Ticket
      /\ jar'.castgc = jar.castgc
      /\ jar' \in [castgc : School!Ticket, session : School!Ticket]
  BY <1>1, SchoolTypes DEF School!Profile, School!Asked, School!SessionOf, School!Ticket
<1>3. /\ account'.ready = account.ready
      /\ account' \in [issued : School!Ticket, alive : School!Ticket, opened : SUBSET (1..MaxTickets),
                       ready : SUBSET (1..MaxTickets), elsewhere : 0..MaxElsewhere, blocked : BOOLEAN]
  <2>1. jar.castgc \in 1..MaxTickets
    BY <1>1, SchoolTypes, SharedAssumption
  <2>2. PICK o \in SUBSET (1..MaxTickets) : account' = [account EXCEPT !.opened = o]
    BY Zenon, <1>1, <2>1, SchoolTypes DEF School!Profile, School!Asked
  <2>3. account' = [issued |-> account.issued, alive |-> account.alive, opened |-> o,
                    ready |-> account.ready, elsewhere |-> account.elsewhere, blocked |-> account.blocked]
    BY <1>1, <2>2, SchoolTypes
  <2> QED BY <1>1, <2>2, <2>3, SchoolTypes DEF School!Ticket
<1>4. jar.castgc = carried \/ jar.castgc = accepted
  BY <1>1 DEF SchoolInv
<1>5. CASE School!IsReady /\ School!Store /\ UNCHANGED tries
  <2>1. /\ step' \in {"probe", "done"} /\ UNCHANGED <<method, carried, tries>>
        /\ stored' = [castgc |-> jar.castgc, session |-> School!SessionOf]
        /\ School!SessionOf \in account.ready
    BY <1>5 DEF School!IsReady, School!Store, School!GoOn
  <2>2. School!TypeOK'
    BY <1>1, <1>2, <1>3, <2>1, SchoolTypes DEF School!TypeOK, School!Step, School!Ticket
  <2>3. stored'.session \in account'.ready /\ stored'.castgc = jar.castgc
    BY <1>3, <2>1
  <2>4. School!LoginIsBacked'
    BY <1>1, <1>4, <2>1, <2>3 DEF School!LoginIsBacked
  <2>5. tries'.probe < MAX_ATTEMPTS
    BY <1>1, <2>1, SharedAssumption
  <2> QED BY <1>1, <1>2, <1>4, <2>1, <2>2, <2>4, <2>5 DEF SchoolInv
<1>6. CASE /\ UNCHANGED <<step, method, carried, stored>>
           /\ tries.ask + 1 < MAX_TRIES /\ tries' = [tries EXCEPT !.ask = tries.ask + 1]
  <2>1. tries' \in [ask : 0..MAX_TRIES, probe : 0..MAX_ATTEMPTS] /\ tries'.probe = tries.probe
    BY <1>1, <1>6, SchoolTypes, SharedAssumption
  <2>2. School!TypeOK'
    BY <1>1, <1>2, <1>3, <1>6, <2>1 DEF School!TypeOK
  <2> QED BY <1>1, <1>2, <1>4, <1>6, <2>1, <2>2, SchoolEarly
<1>7. CASE School!Fail /\ UNCHANGED <<stored, tries>>
  <2>1. step' \in {"page", "failed"} /\ (step' = "failed" \/ carried' = jar.castgc)
    BY <1>1, <1>7, SchoolFail
  <2>2. School!TypeOK'
    BY <1>1, <1>2, <1>3, <1>7, SchoolTypes, SchoolFail DEF School!TypeOK, School!Step, School!Ticket
  <2> QED BY <1>1, <1>2, <1>7, <2>1, <2>2, SchoolEarly
<1> QED
  <2>1. tries.ask \in Nat /\ MAX_TRIES \in Nat
    BY <1>1, SchoolTypes, SharedAssumption
  <2> QED BY <1>5, <1>6, <1>7, <2>1 DEF School!Profile, School!Answers

\* Every step keeps the invariant.
LEMMA SchoolStep == SchoolInv /\ (School!Next \/ UNCHANGED schoolVars) => SchoolInv'
<1> SUFFICES ASSUME SchoolInv, School!Next \/ UNCHANGED schoolVars PROVE SchoolInv'
  OBVIOUS
<1>t. School!TypeOK
  BY DEF SchoolInv
<1>1. CASE UNCHANGED schoolVars
  BY <1>1 DEF schoolVars, SchoolInv, School!TypeOK, School!LoginIsBacked
<1>2. CASE School!Probe
  <2>1. /\ step = "probe" /\ step' \in {"probe", "done"}
        /\ UNCHANGED <<jar, account, stored, accepted, method, carried>>
    BY <1>2 DEF School!Probe, School!GoOn
  <2>2. /\ tries' \in [ask : 0..MAX_TRIES, probe : 0..MAX_ATTEMPTS]
        /\ step' = "probe" => tries'.probe < MAX_ATTEMPTS
    <3>1. tries.probe < MAX_ATTEMPTS /\ tries.probe \in Nat
      BY <1>t, <2>1, SchoolTypes DEF SchoolInv
    <3>2. CASE UNCHANGED tries
      BY <1>t, <3>1, <3>2, SchoolTypes
    <3>3. CASE /\ tries' = [tries EXCEPT !.probe = tries.probe + 1]
               /\ step' = IF tries.probe + 1 = MAX_ATTEMPTS THEN "done" ELSE "probe"
      <4>1. tries' = [ask |-> tries.ask, probe |-> tries.probe + 1]
        BY <1>t, <3>3, SchoolTypes
      <4> QED BY <1>t, <3>1, <3>3, <4>1, SchoolTypes, SharedAssumption
    <3> QED BY <1>2, <3>2, <3>3 DEF School!Probe, School!GoOn
  <2>3. School!TypeOK'
    BY <1>t, <2>1, <2>2 DEF School!TypeOK, School!Step
  <2>4. School!LoginIsBacked'
    BY <2>1 DEF School!LoginIsBacked, SchoolInv
  <2> QED BY <2>1, <2>2, <2>3, <2>4 DEF SchoolInv
<1>3. CASE School!Elsewhere \/ \E s \in 1..MaxTickets : School!Ready(s)
  <2>1. /\ UNCHANGED <<jar, step, method, tries, stored, accepted, carried>>
        /\ account.ready \subseteq account'.ready
        /\ account' \in [issued : School!Ticket, alive : School!Ticket, opened : SUBSET (1..MaxTickets),
                         ready : SUBSET (1..MaxTickets), elsewhere : 0..MaxElsewhere, blocked : BOOLEAN]
    <3>1. CASE School!Elsewhere
      <4>1. account' = [issued |-> account.issued, alive |-> 0, opened |-> account.opened,
                        ready |-> account.ready, elsewhere |-> account.elsewhere + 1, blocked |-> TRUE]
        BY Zenon, <1>t, <3>1, SchoolTypes DEF School!Elsewhere
      <4>2. account.elsewhere + 1 \in 0..MaxElsewhere /\ 0 \in 0..MaxTickets
        BY <1>t, <3>1, SchoolTypes, SharedAssumption DEF School!Elsewhere
      <4> QED BY Zenon, <1>t, <3>1, <4>1, <4>2, SchoolTypes DEF School!Ticket, School!Elsewhere
    <3>2. ASSUME NEW s \in 1..MaxTickets, School!Ready(s) PROVE <2>1!:
      <4>1. account' = [issued |-> account.issued, alive |-> account.alive, opened |-> account.opened,
                        ready |-> account.ready \cup {s}, elsewhere |-> account.elsewhere, blocked |-> account.blocked]
        BY Zenon, <1>t, <3>2, SchoolTypes DEF School!Ready
      <4>2. account.ready \cup {s} \subseteq 1..MaxTickets
        BY <1>t, SchoolTypes
      <4> QED BY <1>t, <3>2, <4>1, <4>2, SchoolTypes DEF School!Ticket, School!Ready
    <3> QED BY <1>3, <3>1, <3>2
  <2>2. School!TypeOK'
    BY <1>t, <2>1 DEF School!TypeOK
  <2>3. School!LoginIsBacked'
    BY <2>1 DEF School!LoginIsBacked, SchoolInv
  <2> QED BY <2>1, <2>2, <2>3 DEF SchoolInv
<1> QED BY <1>1, <1>2, <1>3, SchoolAsking, SchoolSubmitting, SchoolProfile DEF School!Next
-----------------------------------------------------------------------------
(* The session of a user (LoginSession).                                   *)

Waiting == [pc : Sessions!Wait, kind : Sessions!Kind, s : Sessions!Login \cup {0}, page : User \cup {0}]

\* While the user is out for good there is no password either, and only ticks
\* are under way.
OutForGood ==
  out /\ ~revivable =>
    /\ login = 0 /\ ~pwd
    /\ \A t \in Task : Sessions!Busy(t) =>
         session_task[t].pc = "cache" /\ session_task[t].kind = "tick" /\ session_task[t].page = 0

SessionsInv == Sessions!TypeOK /\ OutForGood /\ Sessions!PagesEndWithCommands

\* What a task may become.
Moves(t) == \E w \in Waiting \cup {Sessions!Idle} : session_task' = [session_task EXCEPT ![t] = w]

\* What the type invariant says of each variable of the sessions.
LEMMA SessionTypes ==
  ASSUME Sessions!TypeOK
  PROVE  /\ login \in 0..MaxLogins /\ cache \in 0..MaxLogins /\ pwd \in BOOLEAN
         /\ profiled \subseteq 1..MaxLogins /\ alive \subseteq 1..granted /\ granted \in 0..MaxLogins
         /\ pages \subseteq User /\ unsent \subseteq User
         /\ session_task \in [Task -> Waiting \cup {Sessions!Idle}]
         /\ begun \in 0..MaxBegun /\ out \in BOOLEAN /\ revivable \in BOOLEAN
BY SharedAssumption DEF Sessions!TypeOK, Waiting, Sessions!Login

\* The type invariant is put together from the types of the variables.
LEMMA SessionWhole ==
  ASSUME login' \in 0..MaxLogins, cache' \in 0..MaxLogins, pwd' \in BOOLEAN,
         profiled' \subseteq 1..MaxLogins, alive' \subseteq 1..granted', granted' \in 0..MaxLogins,
         pages' \subseteq User, unsent' \subseteq User,
         session_task' \in [Task -> Waiting \cup {Sessions!Idle}],
         begun' \in 0..MaxBegun, out' \in BOOLEAN, revivable' \in BOOLEAN
  PROVE  Sessions!TypeOK'
<1>1. 0..MaxLogins = 1..MaxLogins \cup {0}
  BY SharedAssumption
<1> QED BY <1>1 DEF Sessions!TypeOK, Waiting, Sessions!Login

\* The sessions start with nobody at work.
LEMMA SessionsInit == Sessions!Init => SessionsInv
<1> SUFFICES ASSUME Sessions!Init PROVE SessionsInv
  OBVIOUS
<1>1. 1 \in 1..MaxLogins /\ 0 \in 0..MaxBegun /\ 1 \in 0..MaxLogins
  BY SharedAssumption
<1>2. Sessions!TypeOK
  <2>1. /\ login \in Sessions!Login \cup {0} /\ cache \in Sessions!Login \cup {0} /\ pwd \in BOOLEAN
        /\ granted = 1 /\ granted \in 0..MaxLogins /\ profiled \subseteq Sessions!Login
        /\ pages \subseteq User /\ unsent \subseteq User
    BY <1>1 DEF Sessions!Init, Sessions!Login
  <2>2. alive \subseteq 1..granted
    BY <2>1 DEF Sessions!Init
  <2>3. /\ begun \in 0..MaxBegun /\ out \in BOOLEAN /\ revivable \in BOOLEAN
        /\ session_task = [t \in Task |-> Sessions!Idle]
    BY Zenon, <1>1 DEF Sessions!Init
  <2> QED BY <2>1, <2>2, <2>3 DEF Sessions!TypeOK
<1> QED BY <1>2 DEF Sessions!Init, SessionsInv, OutForGood, Sessions!PagesEndWithCommands

\* A step of one task leaves the tasks well typed.
LEMMA SessionMoves ==
  ASSUME NEW t \in Task, Moves(t), Sessions!TypeOK
  PROVE  session_task' \in [Task -> Waiting \cup {Sessions!Idle}]
BY SessionTypes DEF Moves

\* A task that ends is free again.
LEMMA SessionEnd ==
  ASSUME NEW t \in Task, Sessions!End(t)
  PROVE  Moves(t)
BY Zenon DEF Moves, Sessions!End

\* A task that awaits goes on with what it has.
LEMMA SessionAwait ==
  ASSUME Sessions!TypeOK, NEW t \in Task, Sessions!Busy(t), NEW pc \in Sessions!Wait, NEW s \in 0..MaxLogins,
         Sessions!Await(t, pc, s)
  PROVE  Moves(t)
<1>1. PICK v : v = session_task[t]
  OBVIOUS
<1>2. v \in Waiting
  BY <1>1, SessionTypes DEF Sessions!Busy
<1> DEFINE w == [pc |-> pc, kind |-> v.kind, s |-> s, page |-> v.page]
<1>3. w \in Waiting
  <2>1. s \in Sessions!Login \cup {0}
    BY SharedAssumption DEF Sessions!Login
  <2> QED BY <1>2, <2>1 DEF Waiting
<1>4. [[v EXCEPT !.pc = pc] EXCEPT !.s = s] = w
  <2>1. v = [pc |-> v.pc, kind |-> v.kind, s |-> v.s, page |-> v.page]
    BY <1>2 DEF Waiting
  <2>2. [v EXCEPT !.pc = pc] = [pc |-> pc, kind |-> v.kind, s |-> v.s, page |-> v.page]
    BY <2>1
  <2>3. [[pc |-> pc, kind |-> v.kind, s |-> v.s, page |-> v.page] EXCEPT !.s = s] = w
    OBVIOUS
  <2> QED BY Zenon, <2>2, <2>3
<1>5. session_task' = [session_task EXCEPT ![t] = [[v EXCEPT !.pc = pc] EXCEPT !.s = s]]
  BY Zenon, <1>1, SessionTypes DEF Sessions!Await
<1> QED BY Zenon, <1>3, <1>4, <1>5 DEF Moves

\* The steps that only move their task: a code to scan, a password, a login on record.
LEMMA SessionAsk ==
  ASSUME Sessions!TypeOK, NEW t \in Task, Sessions!Busy(t),
         Sessions!AskForScan(t) \/ Sessions!ProcessLogin(t) \/ Sessions!Unrecovered(t) \/ Sessions!ReadLogin(t)
  PROVE  Moves(t)
<1>1. /\ 0 \in 0..MaxLogins /\ login \in 0..MaxLogins
      /\ \A pc \in {"scan", "retry", "lnt", "pwd"} : pc \in Sessions!Wait
  BY SessionTypes, SharedAssumption DEF Sessions!Wait
<1>2. \/ Sessions!End(t)
      \/ \E pc \in {"scan", "retry", "lnt", "pwd"}, s \in {0, login} : Sessions!Await(t, pc, s)
  BY DEF Sessions!AskForScan, Sessions!ProcessLogin, Sessions!Unrecovered, Sessions!ReadLogin
<1> QED BY <1>1, <1>2, SessionEnd, SessionAwait

\* A page keeps the task that waits for it, or has none.
LEMMA SessionPages ==
  ASSUME SessionsInv, NEW t \in Task, session_task[t].pc # "page", Moves(t), UNCHANGED <<pages, unsent>>
  PROVE  Sessions!PagesEndWithCommands'
<1>1. PICK w : session_task' = [session_task EXCEPT ![t] = w]
  BY Zenon DEF Moves
<1>2. \A u \in Task : session_task[u].pc = "page" => session_task'[u] = session_task[u]
  BY <1>1, SessionTypes DEF SessionsInv
<1>3. \A u \in Task : (Sessions!Busy(u) /\ session_task[u].pc = "page") => Sessions!Busy(u)'
  BY <1>2 DEF Sessions!Busy
<1> QED BY <1>2, <1>3 DEF SessionsInv, Sessions!PagesEndWithCommands

\* A task past its cached client: the user is not out for good.
LEMMA SessionLate ==
  ASSUME SessionsInv, NEW t \in Task, session_task[t].pc \in Sessions!Wait \ {"cache", "page"}, Moves(t),
         UNCHANGED <<pages, begun, out, revivable, unsent>>,
         login' \in 0..MaxLogins, cache' \in 0..MaxLogins, pwd' \in BOOLEAN,
         profiled' \subseteq 1..MaxLogins, alive' \subseteq 1..granted', granted' \in 0..MaxLogins
  PROVE  SessionsInv'
<1>1. Sessions!TypeOK /\ Sessions!Busy(t)
  BY DEF SessionsInv, Sessions!Busy, Sessions!Idle, Sessions!Wait
<1>2. ~(out /\ ~revivable)
  BY <1>1 DEF SessionsInv, OutForGood
<1>3. OutForGood'
  BY <1>2 DEF OutForGood
<1>4. Sessions!PagesEndWithCommands'
  BY SessionPages
<1>5. Sessions!TypeOK'
  BY <1>1, SessionMoves, SessionTypes, SessionWhole
<1> QED BY <1>3, <1>4, <1>5 DEF SessionsInv

\* The server grants a login, or refuses.
LEMMA SessionGranted ==
  ASSUME Sessions!TypeOK, Sessions!Granted \/ Sessions!Refused
  PROVE  /\ login' \in 0..MaxLogins /\ cache' \in 0..MaxLogins
         /\ alive' \subseteq 1..granted' /\ granted' \in 0..MaxLogins
<1>1. CASE Sessions!Refused
  BY <1>1, SessionTypes DEF Sessions!Refused, Sessions!server
<1>2. CASE Sessions!Granted
  <2>1. /\ granted' = granted + 1 /\ granted + 1 \in 1..MaxLogins
        /\ alive' = alive \cup {granted + 1}
        /\ login' = granted + 1 /\ cache' = granted + 1
    BY <1>2, SessionTypes, SharedAssumption DEF Sessions!Granted
  <2>2. 1..granted \subseteq 1..(granted + 1) /\ granted + 1 \in 1..(granted + 1)
    BY <2>1, SessionTypes
  <2> QED BY <2>1, <2>2, SessionTypes
<1> QED BY <1>1, <1>2

\* The login of a busy task.
LEMMA SessionOfTask ==
  ASSUME Sessions!TypeOK, NEW t \in Task, session_task[t].pc \in Sessions!Wait
  PROVE  /\ Sessions!Busy(t) /\ session_task[t] \in Waiting /\ session_task[t].s \in 0..MaxLogins
         /\ session_task[t].kind \in Sessions!Kind
         /\ \A ok \in Sessions!Probes(session_task[t].s) :
              ok \in BOOLEAN /\ (ok => session_task[t].s \in 1..MaxLogins)
<1>1. Sessions!Busy(t)
  BY DEF Sessions!Busy, Sessions!Idle, Sessions!Wait
<1>2. session_task[t] \in Waiting
  BY <1>1, SessionTypes DEF Sessions!Busy
<1>3. session_task[t].s \in 0..MaxLogins /\ session_task[t].kind \in Sessions!Kind
  BY <1>2, SharedAssumption DEF Waiting, Sessions!Login
<1>4. \A s \in alive : s \in 1..MaxLogins
  BY SessionTypes, SharedAssumption
<1> QED BY Zenon, <1>1, <1>2, <1>3, <1>4 DEF Sessions!Probes

\* The recoveries, and the logins, of a task past its cached client.
LEMMA SessionRecovers ==
  ASSUME SessionsInv, NEW t \in Task,
         \/ Sessions!ProbeLnt(t) \/ Sessions!RecoverByPassword(t) \/ Sessions!TryPwdLogin(t)
         \/ Sessions!ProbeCastgc(t) \/ Sessions!CheckLogin(t) \/ Sessions!Scanned(t)
         \/ Sessions!Titled(t) \/ Sessions!Rehydrate(t)
         \/ Sessions!VerifyPassword(t) \/ Sessions!StoreLogin(t)
  PROVE  SessionsInv'
<1>1. /\ session_task[t].pc \in Sessions!Wait \ {"cache", "page"}
      /\ UNCHANGED <<pages, begun, out, revivable, unsent>>
      /\ Sessions!TypeOK
  BY DEF SessionsInv, Sessions!ProbeLnt, Sessions!RecoverByPassword, Sessions!TryPwdLogin,
         Sessions!ProbeCastgc, Sessions!CheckLogin, Sessions!Scanned, Sessions!Titled,
         Sessions!Rehydrate, Sessions!VerifyPassword, Sessions!StoreLogin,
         Sessions!Wait, Sessions!history
<1>2. /\ Sessions!Busy(t) /\ session_task[t].s \in 0..MaxLogins
      /\ \A ok \in Sessions!Probes(session_task[t].s) :
           ok \in BOOLEAN /\ (ok => session_task[t].s \in 1..MaxLogins)
  BY <1>1, SessionOfTask
<1>3. \A pc \in {"lnt", "pwd", "retry", "ready", "title", "naming"} : pc \in Sessions!Wait
  BY DEF Sessions!Wait
<1>t. /\ login \in 0..MaxLogins /\ cache \in 0..MaxLogins /\ pwd \in BOOLEAN /\ 0 \in 0..MaxLogins
      /\ profiled \subseteq 1..MaxLogins /\ alive \subseteq 1..granted /\ granted \in 0..MaxLogins
  BY <1>1, SessionTypes, SharedAssumption
<1>4. CASE Sessions!ProbeLnt(t) \/ Sessions!ProbeCastgc(t) \/ Sessions!CheckLogin(t)
  <2>1. /\ UNCHANGED <<login, pwd, alive, granted>>
        /\ cache' \in {cache, session_task[t].s}
        /\ \E ok \in Sessions!Probes(session_task[t].s) :
             \/ profiled' = profiled
             \/ ok = TRUE /\ profiled' = profiled \cup {session_task[t].s}
        /\ \/ Sessions!End(t) \/ Sessions!Unrecovered(t) \/ Sessions!ProcessLogin(t)
           \/ Sessions!Await(t, "pwd", 0)
    BY <1>2, <1>4 DEF Sessions!ProbeLnt, Sessions!ProbeCastgc, Sessions!CheckLogin, Sessions!server
  <2>2. profiled' \subseteq 1..MaxLogins
    BY <1>2, <1>t, <2>1
  <2>3. Moves(t)
    BY <1>1, <1>2, <1>3, <1>t, <2>1, SessionEnd, SessionAwait, SessionAsk
  <2> QED BY <1>1, <1>2, <1>t, <2>1, <2>2, <2>3, SessionLate
<1>5. CASE Sessions!RecoverByPassword(t) \/ Sessions!TryPwdLogin(t) \/ Sessions!Scanned(t)
  <2>1. /\ Sessions!Granted \/ Sessions!Refused
        /\ UNCHANGED <<pwd, profiled>>
        /\ \/ Sessions!End(t) \/ Sessions!Unrecovered(t) \/ Sessions!AskForScan(t)
           \/ Sessions!Granted /\ \E pc \in {"ready", "title"} : Sessions!Await(t, pc, granted')
    BY <1>5 DEF Sessions!RecoverByPassword, Sessions!TryPwdLogin, Sessions!Scanned
  <2>2. /\ login' \in 0..MaxLogins /\ cache' \in 0..MaxLogins
        /\ alive' \subseteq 1..granted' /\ granted' \in 0..MaxLogins
    BY <1>1, <2>1, SessionGranted
  <2>3. Moves(t)
    <3>1. CASE \E pc \in {"ready", "title"} : Sessions!Await(t, pc, granted')
      <4>1. PICK g : g = granted'
        OBVIOUS
      <4>2. PICK pc \in {"ready", "title"} : Sessions!Await(t, pc, g)
        BY <3>1, <4>1
      <4> QED BY <1>1, <1>2, <1>3, <2>2, <4>1, <4>2, SessionAwait
    <3> QED BY <1>1, <1>2, <2>1, <3>1, SessionEnd, SessionAsk
  <2> QED BY <1>1, <1>t, <2>1, <2>2, <2>3, SessionLate
<1>6. CASE Sessions!Titled(t) \/ Sessions!Rehydrate(t) \/ Sessions!StoreLogin(t)
  <2>1. /\ UNCHANGED <<pwd, profiled, alive, granted>>
        /\ login' \in {login, session_task[t].s} /\ cache' \in {cache, session_task[t].s}
        /\ Sessions!End(t) \/ Sessions!Await(t, "ready", session_task[t].s)
    BY <1>6 DEF Sessions!Titled, Sessions!Rehydrate, Sessions!StoreLogin, Sessions!server, Sessions!tables
  <2>2. Moves(t)
    BY <1>1, <1>2, <1>3, <2>1, SessionEnd, SessionAwait
  <2> QED BY <1>1, <1>2, <1>t, <2>1, <2>2, SessionLate
<1>7. CASE Sessions!VerifyPassword(t)
  <2>1. CASE Sessions!End(t) /\ UNCHANGED <<alive, granted, pwd>>
    <3>1. Moves(t)
      BY <2>1, SessionEnd
    <3> QED BY <1>1, <1>7, <1>t, <2>1, <3>1, SessionLate DEF Sessions!VerifyPassword
  <2>2. CASE /\ granted < MaxLogins /\ granted' = granted + 1 /\ alive' = alive \cup {granted'}
             /\ pwd' = TRUE /\ Sessions!Await(t, "naming", granted')
    <3>1. PICK g : g = granted + 1
      OBVIOUS
    <3>2. granted' = g /\ g \in 0..MaxLogins /\ alive' \subseteq 1..g /\ Sessions!Await(t, "naming", g)
      <4>1. granted' = g /\ g \in 1..MaxLogins /\ 1..granted \subseteq 1..g /\ g \in 1..g
        BY <1>t, <2>2, <3>1, SharedAssumption
      <4> QED BY <1>t, <2>2, <4>1
    <3>3. Moves(t)
      BY <1>1, <1>2, <1>3, <3>2, SessionAwait
    <3> QED BY <1>1, <1>7, <1>t, <2>2, <3>2, <3>3, SessionLate DEF Sessions!VerifyPassword
  <2> QED BY Zenon, <1>7, <2>1, <2>2 DEF Sessions!VerifyPassword, Sessions!server
<1> QED BY <1>4, <1>5, <1>6, <1>7

\* ProbeCache: the cached session is asked about.
LEMMA SessionProbesCache ==
  ASSUME SessionsInv, NEW t \in Task, Sessions!ProbeCache(t)
  PROVE  SessionsInv'
<1>1. /\ session_task[t].pc = "cache" /\ Sessions!TypeOK
      /\ UNCHANGED <<login, pwd, cache, profiled, alive, granted, pages, begun, out, revivable, unsent>>
      /\ Sessions!End(t) \/ Sessions!ReadLogin(t)
  BY DEF SessionsInv, Sessions!ProbeCache, Sessions!tables, Sessions!server, Sessions!history
<1>2. Sessions!Busy(t)
  BY <1>1 DEF Sessions!Busy, Sessions!Idle
<1>3. Moves(t)
  BY <1>1, <1>2, SessionEnd, SessionAsk
<1>4. Sessions!TypeOK'
  BY <1>1, <1>3, SessionMoves, SessionTypes, SessionWhole
<1>5. Sessions!PagesEndWithCommands'
  BY <1>1, <1>3, SessionPages
<1>6. OutForGood'
  <2>1. CASE out /\ ~revivable
    <3>1. login = 0 /\ ~pwd /\ session_task[t].kind = "tick"
      BY <1>2, <2>1 DEF SessionsInv, OutForGood
    <3>2. session_task' = [session_task EXCEPT ![t] = Sessions!Idle]
      BY <1>1, <3>1 DEF Sessions!ReadLogin, Sessions!Unrecovered, Sessions!End
    <3> QED BY <1>1, <2>1, <3>1, <3>2, SessionTypes DEF SessionsInv, OutForGood, Sessions!Busy
  <2>2. CASE ~(out /\ ~revivable)
    BY <1>1, <2>2 DEF OutForGood
  <2> QED BY <2>1, <2>2
<1> QED BY <1>4, <1>5, <1>6 DEF SessionsInv

\* Begin: a task takes up a command.
LEMMA SessionBegins ==
  ASSUME SessionsInv, NEW t \in Task, NEW kind \in Sessions!Kind, Sessions!Begin(t, kind)
  PROVE  SessionsInv'
<1> DEFINE Rec(pc, s) == [pc |-> pc, kind |-> kind, s |-> s, page |-> 0]
<1>1. /\ ~Sessions!Busy(t) /\ begun < MaxBegun /\ begun' = begun + 1 /\ Sessions!TypeOK
      /\ kind # "loginpwd" /\ Sessions!FirstStep(t, kind) /\ out' = (out /\ kind = "tick")
      /\ UNCHANGED <<login, pwd, cache, profiled, alive, granted, pages, revivable, unsent>>
  BY DEF SessionsInv, Sessions!Begin, Sessions!tables, Sessions!server
<1>2. /\ login \in 0..MaxLogins /\ cache \in 0..MaxLogins /\ 0 \in 0..MaxLogins
      /\ 0..MaxLogins = Sessions!Login \cup {0}
  BY <1>1, SessionTypes, SharedAssumption DEF Sessions!Login
<1>4. \A pc \in Sessions!Wait, s \in 0..MaxLogins : Rec(pc, s) \in Waiting
  BY <1>2 DEF Waiting
<1>5. \/ UNCHANGED session_task
      \/ \E pc \in {"cache", "lnt", "pwd", "retry", "scan", "castgc", "check"}, s \in {0, login, cache} :
           /\ session_task' = [session_task EXCEPT ![t] = Rec(pc, s)]
           /\ (kind = "tick" /\ login = 0 /\ ~pwd) => pc = "cache"
  <2>1. CASE kind \in {"tick", "command"}
    BY Zenon, <1>1, <2>1 DEF Sessions!FirstStep
  <2>2. CASE kind = "castgc"
    BY <1>1, <2>2 DEF Sessions!FirstStep
  <2>3. CASE kind = "login"
    BY <1>1, <2>3 DEF Sessions!FirstStep
  <2> QED BY <1>1, <2>1, <2>2, <2>3 DEF Sessions!Kind
<1>6. Moves(t)
  <2>1. CASE UNCHANGED session_task
    <3>1. session_task' = [session_task EXCEPT ![t] = Sessions!Idle]
      BY <1>1, <2>1, SessionTypes DEF Sessions!Busy
    <3> QED BY Zenon, <3>1 DEF Moves
  <2>2. ASSUME NEW pc \in {"cache", "lnt", "pwd", "retry", "scan", "castgc", "check"}, NEW s \in {0, login, cache},
               session_task' = [session_task EXCEPT ![t] = Rec(pc, s)]
        PROVE  Moves(t)
    <3>1. Rec(pc, s) \in Waiting
      BY <1>2, <1>4 DEF Sessions!Wait
    <3> QED BY Zenon, <2>2, <3>1 DEF Moves
  <2> QED BY <1>5, <2>1, <2>2
<1>7. Sessions!TypeOK'
  <2>1. begun' \in 0..MaxBegun /\ out' \in BOOLEAN
    BY <1>1, SessionTypes, SharedAssumption
  <2> QED BY <1>1, <1>6, <2>1, SessionMoves, SessionTypes, SessionWhole
<1>8. Sessions!PagesEndWithCommands'
  <2>1. session_task[t].pc # "page"
    BY <1>1 DEF Sessions!Busy, Sessions!Idle
  <2> QED BY <1>1, <1>6, <2>1, SessionPages
<1>9. OutForGood'
  <2>1. CASE out /\ kind = "tick" /\ ~revivable
    <3>1. login = 0 /\ ~pwd
      BY <2>1 DEF SessionsInv, OutForGood
    <3>2. CASE UNCHANGED session_task
      BY <1>1, <2>1, <3>1, <3>2 DEF SessionsInv, OutForGood, Sessions!Busy
    <3>3. ASSUME NEW s \in {0, login, cache},
                 session_task' = [session_task EXCEPT ![t] = Rec("cache", s)]
          PROVE  OutForGood'
      <4>1. session_task'[t] = Rec("cache", s) /\ \A u \in Task : u # t => session_task'[u] = session_task[u]
        BY <1>1, <3>3, SessionTypes
      <4>2. \A u \in Task : u # t => Sessions!Busy(u)' = Sessions!Busy(u)
        BY <4>1 DEF Sessions!Busy
      <4> QED BY <1>1, <2>1, <3>1, <4>1, <4>2 DEF SessionsInv, OutForGood
    <3> QED BY <1>5, <2>1, <3>1, <3>2, <3>3
  <2>2. CASE ~(out /\ kind = "tick" /\ ~revivable)
    BY Zenon, <1>1, <2>2 DEF OutForGood
  <2> QED BY <2>1, <2>2
<1> QED BY <1>7, <1>8, <1>9 DEF SessionsInv

\* BeginLoginPwd: a task opens a page for a password.
LEMMA SessionBeginsPage ==
  ASSUME SessionsInv, NEW t \in Task, NEW p \in User, Sessions!BeginLoginPwd(t, p)
  PROVE  SessionsInv'
<1> DEFINE w == [pc |-> "page", kind |-> "loginpwd", s |-> 0, page |-> p]
<1>1. /\ ~Sessions!Busy(t) /\ begun < MaxBegun /\ begun' = begun + 1 /\ out' = FALSE /\ Sessions!TypeOK
      /\ pages' = pages \cup {p}
      /\ \/ session_task' = [session_task EXCEPT ![t] = w] /\ UNCHANGED unsent
         \/ unsent' = unsent \cup {p} /\ UNCHANGED session_task
      /\ UNCHANGED <<login, pwd, cache, profiled, alive, granted, revivable>>
  BY DEF SessionsInv, Sessions!BeginLoginPwd, Sessions!tables, Sessions!server
<1>2. w \in Waiting
  BY DEF Waiting, Sessions!Wait, Sessions!Kind
<1>3. Sessions!TypeOK'
  <2>1. begun' \in 0..MaxBegun
    BY <1>1, SessionTypes, SharedAssumption
  <2>2. session_task' \in [Task -> Waiting \cup {Sessions!Idle}]
    BY <1>1, <1>2, SessionTypes
  <2>3. pages' \subseteq User /\ unsent' \subseteq User
    BY <1>1, SessionTypes
  <2>4. out' \in BOOLEAN
    BY Zenon, <1>1
  <2> QED BY <1>1, <2>1, <2>2, <2>3, <2>4, SessionTypes, SessionWhole
<1>4. Sessions!PagesEndWithCommands'
  <2>1. CASE session_task' = [session_task EXCEPT ![t] = w] /\ UNCHANGED unsent
    <3>1. session_task'[t] = w /\ \A u \in Task : Sessions!Busy(u) => session_task'[u] = session_task[u]
      BY <1>1, <2>1, SessionTypes
    <3>2. \A u \in Task : Sessions!Busy(u) => Sessions!Busy(u)'
      BY <3>1 DEF Sessions!Busy
    <3>3. Sessions!Busy(t)' /\ w.pc = "page" /\ w.page = p
      BY <3>1 DEF Sessions!Busy, Sessions!Idle
    <3> QED BY <1>1, <2>1, <3>1, <3>2, <3>3 DEF SessionsInv, Sessions!PagesEndWithCommands
  <2>2. CASE unsent' = unsent \cup {p} /\ UNCHANGED session_task
    BY <1>1, <2>2 DEF SessionsInv, Sessions!PagesEndWithCommands, Sessions!Busy
  <2> QED BY <1>1, <2>1, <2>2
<1>5. OutForGood'
  BY <1>1 DEF OutForGood
<1> QED BY <1>3, <1>4, <1>5 DEF SessionsInv

\* Submit: the page is gone, and its command goes on or ends.
LEMMA SessionSubmits ==
  ASSUME SessionsInv, NEW p \in User, Sessions!Submit(p)
  PROVE  SessionsInv'
<1>1. /\ p \in pages /\ pages' = pages \ {p} /\ Sessions!TypeOK
      /\ UNCHANGED <<login, pwd, cache, profiled, alive, granted, begun, out, revivable, unsent>>
  BY DEF SessionsInv, Sessions!Submit, Sessions!tables, Sessions!server, Sessions!history
<1>2. CASE UNCHANGED session_task
  <2>1. pages' \subseteq User
    BY <1>1, SessionTypes
  <2>2. Sessions!TypeOK'
    BY <1>1, <1>2, <2>1, SessionTypes, SessionWhole
  <2> QED BY <1>1, <1>2, <2>2 DEF SessionsInv, OutForGood, Sessions!PagesEndWithCommands, Sessions!Busy
<1>3. ASSUME NEW t \in Task, Sessions!Busy(t), session_task[t].page = p,
             Sessions!Await(t, "verify", 0) \/ Sessions!End(t)
      PROVE  SessionsInv'
  <2>1. Moves(t)
    BY <1>1, <1>3, SessionEnd, SessionAwait, SharedAssumption DEF Sessions!Wait
  <2>2. PICK w : session_task' = [session_task EXCEPT ![t] = w]
    BY Zenon, <2>1 DEF Moves
  <2>3. \A u \in Task : session_task[u].page # p => session_task'[u] = session_task[u]
    BY <1>1, <1>3, <2>2, SessionTypes
  <2>4. \A u \in Task : (session_task[u].page # p /\ Sessions!Busy(u)) => Sessions!Busy(u)'
    BY <2>3 DEF Sessions!Busy
  <2>5. Sessions!PagesEndWithCommands'
    BY <1>1, <2>3, <2>4 DEF SessionsInv, Sessions!PagesEndWithCommands
  <2>6. ~(out /\ ~revivable)
    BY <1>3, SharedAssumption DEF SessionsInv, OutForGood
  <2>7. OutForGood'
    BY <1>1, <2>6 DEF OutForGood
  <2>8. pages' \subseteq User
    BY <1>1, SessionTypes
  <2>9. Sessions!TypeOK'
    BY <1>1, <2>1, <2>8, SessionMoves, SessionTypes, SessionWhole
  <2> QED BY <2>5, <2>7, <2>9 DEF SessionsInv
<1> QED BY <1>2, <1>3 DEF Sessions!Submit

\* Every step keeps the invariant.
LEMMA SessionsStep == SessionsInv /\ (Sessions!Next \/ UNCHANGED <<cache, loginVars, sessionVars>>) => SessionsInv'
<1> SUFFICES ASSUME SessionsInv, Sessions!Next \/ UNCHANGED <<cache, loginVars, sessionVars>> PROVE SessionsInv'
  OBVIOUS
<1>t. Sessions!TypeOK
  BY DEF SessionsInv
<1>1. CASE UNCHANGED <<cache, loginVars, sessionVars>>
  <2>1. /\ UNCHANGED <<login, pwd, cache, profiled, alive, granted, pages, session_task, begun, out, revivable, unsent>>
    BY <1>1 DEF loginVars, sessionVars
  <2>2. Sessions!TypeOK'
    BY <1>t, <2>1, SessionTypes, SessionWhole
  <2> QED BY <2>1, <2>2 DEF SessionsInv, OutForGood, Sessions!PagesEndWithCommands, Sessions!Busy
<1>2. CASE Sessions!Logout \/ Sessions!LogoutPwd
  <2>1. /\ UNCHANGED <<cache, profiled, alive, granted, pages, session_task, begun, unsent>>
        /\ login' \in {0, login} /\ pwd' \in BOOLEAN /\ out' \in BOOLEAN
        /\ revivable' \in BOOLEAN
    BY Zenon, <1>2, <1>t, SessionTypes DEF Sessions!Logout, Sessions!LogoutPwd, Sessions!server, Sessions!SomeoneBusy
  <2>2. Sessions!TypeOK'
    BY <1>t, <2>1, SessionTypes, SessionWhole, SharedAssumption
  <2>3. ~revivable' => login' = 0 /\ ~pwd' /\ \A t \in Task : ~Sessions!Busy(t)
    BY Zenon, <1>2 DEF Sessions!Logout, Sessions!LogoutPwd, Sessions!SomeoneBusy
  <2>4. OutForGood'
    BY <2>1, <2>3 DEF OutForGood, Sessions!Busy
  <2>5. Sessions!PagesEndWithCommands'
    BY <2>1 DEF SessionsInv, Sessions!PagesEndWithCommands, Sessions!Busy
  <2> QED BY <2>2, <2>4, <2>5 DEF SessionsInv
<1>3. CASE Sessions!Restart
  <2>1. /\ UNCHANGED <<login, pwd, alive, granted, begun, out, revivable, unsent>>
        /\ cache' = 0 /\ profiled' = {} /\ pages' = {}
        /\ session_task' = [t \in Task |-> Sessions!Idle]
    BY <1>3 DEF Sessions!Restart, Sessions!server, Sessions!history
  <2>2. Sessions!TypeOK'
    BY <1>t, <2>1, SessionTypes, SessionWhole, SharedAssumption
  <2> QED BY <2>1, <2>2 DEF SessionsInv, OutForGood, Sessions!PagesEndWithCommands, Sessions!Busy
<1>4. CASE \E s \in Sessions!Login : Sessions!Expire(s)
  <2>1. /\ alive' \subseteq alive
        /\ UNCHANGED <<login, pwd, cache, profiled, granted, pages, session_task, begun, out, revivable, unsent>>
    BY <1>4 DEF Sessions!Expire, Sessions!tables, Sessions!history
  <2>2. Sessions!TypeOK'
    BY <1>t, <2>1, SessionTypes, SessionWhole
  <2> QED BY <2>1, <2>2 DEF SessionsInv, OutForGood, Sessions!PagesEndWithCommands, Sessions!Busy
<1> QED BY <1>1, <1>2, <1>3, <1>4, SessionProbesCache, SessionBegins, SessionBeginsPage, SessionSubmits,
           SessionRecovers DEF Sessions!Next

\* The invariant has the property the runs check.
LEMMA SessionsHold == SessionsInv => Sessions!OnlyTheCacheOutlivesLogout
BY DEF SessionsInv, OutForGood, Sessions!OnlyTheCacheOutlivesLogout

=============================================================================
