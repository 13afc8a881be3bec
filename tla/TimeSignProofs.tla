--------------------------- MODULE TimeSignProofs ---------------------------
(***************************************************************************)
(* Theorems about TimeSign, for any users, courses and roll calls and any  *)
(* number of ticks: types; that only what is settled is marked; that no    *)
(* request is made for what is settled; that the duty of scouts rotates;   *)
(* and that polling on behalf of others misses nobody.                     *)
(***************************************************************************)
EXTENDS TimeSign, FiniteSetTheorems, SequenceTheorems, WellFoundedInduction, TLAPS

-----------------------------------------------------------------------------
\* A set of numbers has a least one.
LEMMA HasLeast ==
  ASSUME NEW T \in SUBSET Nat, T # {}
  PROVE  \E x \in T : \A y \in T : x <= y
<1>1. PICK x \in T : \A y \in T : <<y, x>> \notin OpToRel(<, Nat)
  BY NatLessThanWellFounded, WFMin
<1>2. \A y \in T : ~(y < x)
  BY <1>1 DEF OpToRel
<1> QED BY <1>2

\* An order of a set of users is a sequence of them.
LEMMA OrderIsSeq ==
  ASSUME NEW S \in SUBSET User, NEW s \in Orders(S)
  PROVE  s \in Seq(User) /\ Listed(s) = S
<1>1. Cardinality(S) \in Nat
  BY TimeSignAssumption, FS_Subset, FS_CardinalityType
<1>2. s \in [1..Cardinality(S) -> User] /\ Listed(s) = S
  BY DEF Orders
<1> QED BY <1>1, <1>2, SeqDef

\* Who is listed in two sequences one after the other.
LEMMA ListedConcat ==
  ASSUME NEW s \in Seq(User), NEW t \in Seq(User)
  PROVE  Listed(s \o t) = Listed(s) \cup Listed(t)
<1> DEFINE st == s \o t
<1>1. /\ Len(s) \in Nat /\ Len(t) \in Nat /\ Len(st) = Len(s) + Len(t)
      /\ \A i \in 1..(Len(s) + Len(t)) : st[i] = IF i <= Len(s) THEN s[i] ELSE t[i - Len(s)]
  BY ConcatProperties, LenProperties
<1>2. ASSUME NEW u \in Listed(st) PROVE u \in Listed(s) \cup Listed(t)
  <2>1. PICK i \in 1..(Len(s) + Len(t)) : u = st[i]
    BY <1>1, <1>2 DEF Listed
  <2>2. CASE i <= Len(s)
    BY <1>1, <2>1, <2>2 DEF Listed
  <2>3. CASE i > Len(s)
    <3>1. i - Len(s) \in 1..Len(t) /\ u = t[i - Len(s)]
      BY <1>1, <2>1, <2>3
    <3> QED BY <3>1 DEF Listed
  <2> QED BY <1>1, <2>2, <2>3
<1>3. ASSUME NEW u \in Listed(s) PROVE u \in Listed(st)
  <2>1. PICK i \in 1..Len(s) : u = s[i]
    BY <1>3 DEF Listed
  <2>2. i \in 1..Len(st) /\ u = st[i]
    BY <1>1, <2>1
  <2> QED BY <2>2 DEF Listed
<1>4. ASSUME NEW u \in Listed(t) PROVE u \in Listed(st)
  <2>1. PICK i \in 1..Len(t) : u = t[i]
    BY <1>4 DEF Listed
  <2>2. i + Len(s) \in 1..Len(st) /\ u = st[i + Len(s)]
    BY <1>1, <2>1
  <2> QED BY <2>2 DEF Listed
<1> QED BY <1>2, <1>3, <1>4

\* A rota is made of users on their own and of one that covers the others.
LEMMA RotaParts ==
  ASSUME active \subseteq User, NEW watched \in [User -> SUBSET Course], NEW rota \in Rotas(watched)
  PROVE  /\ rota \in Seq(User)
         /\ \E t \in Seq(User) :
              /\ IsRota(watched, t) /\ Listed(t) \subseteq active
              /\ Listed(t) \subseteq Listed(rota)
              /\ \A u \in Listed(rota) \ Listed(t) : watched[u] = {}
<1> DEFINE alone == {u \in active : watched[u] = {}}
<1> DEFINE shared == {s \in UNION {Orders(S) : S \in SUBSET (active \ alone)} : IsRota(watched, s)}
<1>1. PICK own \in Orders(alone), t \in shared : rota = own \o t
  BY DEF Rotas
<1>2. PICK S \in SUBSET (active \ alone) : t \in Orders(S)
  BY <1>1
<1>3. t \in Seq(User) /\ Listed(t) = S
  BY <1>2, OrderIsSeq
<1>4. own \in Seq(User) /\ Listed(own) = alone
  BY OrderIsSeq
<1>5. rota \in Seq(User) /\ Listed(rota) = Listed(own) \cup Listed(t)
  BY <1>1, <1>3, <1>4, ConcatProperties, ListedConcat
<1> QED BY <1>1, <1>3, <1>4, <1>5

\* Backups are a sequence of users.
LEMMA BackupsAreSeq ==
  ASSUME active \subseteq User, NEW lost, NEW s \in Backups(lost)
  PROVE  s \in Seq(User) /\ Listed(s) \subseteq active
<1> DEFINE fit == {u \in active \ Failed : courses_of[u] \cap lost # {}}
<1>1. PICK S \in SUBSET fit : s \in Orders(S)
  BY DEF Backups
<1>2. S \in SUBSET User
  OBVIOUS
<1> QED BY <1>1, <1>2, OrderIsSeq

-----------------------------------------------------------------------------
(***************************************************************************)
(* What the invariants need of each other.  A tick has room for its number *)
(* when it begins; a dispatch has a roll call and a leader who does not    *)
(* follow himself; a report is made when nothing is left to do.            *)
(***************************************************************************)
Started ==
  /\ pc = "warm" => TICK_SEQ < MaxTicks
  /\ pc \in {"leader", "others"} => /\ current \in Rollcall /\ leader \in User
                                    /\ leader \notin others
  /\ pc = "report" => todo = {}

\* What was seen, found or taken up had been opened: a roll call that is not on
\* the list of somebody who signs is closed, or of a course he does not take.
Opened ==
  /\ \A u \in User : \A r \in seen[u] : rollcall[r] # "none"
  /\ \A r \in Rollcall : found[r] # Nobody => rollcall[r] # "none"
  /\ \A r \in todo : rollcall[r] # "none"
  /\ pc \in {"leader", "others"} => rollcall[current] # "none"
  /\ \A p \in Pair : task[p] # "no" => rollcall[p[2]] # "none"

Just(p) ==
  \/ p \in signed
  \/ course_of[p[2]] \notin takes[p[1]]
  \/ rollcall[p[2]] = "closed"

\* What came back settled is as just as what is marked.
Justified == \A p \in Pair : (p \in SIGNED_MARK \/ task[p] = "settled") => Just(p)

\* Every sign-in that was begun is one the tick still waits for.
Awaited ==
  \A p \in Pair : task[p] # "no" =>
    \/ pc = "dispatch" /\ p \in late
    \/ pc = "leader" /\ (p \in late \/ p = <<leader, current>>)
    \/ pc = "others" /\ (p \in late \/ p \in others \X {current})

\* Nobody who signs, or is about to follow, is marked.
Unmarked ==
  /\ \A p \in Pair : task[p] \in Running => p \notin SIGNED_MARK
  /\ pc = "leader" => \A u \in others : <<u, current>> \notin SIGNED_MARK

-----------------------------------------------------------------------------
\* What the scouts bring home keeps its types.
LEMMA AbsorbTypes ==
  ASSUME TypeOK, Absorb
  PROVE  /\ found' \in [Rollcall -> User \cup {Nobody}]
         /\ seen' \in [User -> SUBSET Rollcall]
         /\ healing' \subseteq User
<1>1. Good \subseteq User
  <2>1. Listed(scouts) \subseteq User
    BY ElementOfSeq DEF TypeOK, Listed
  <2> QED BY <2>1 DEF Good
<1>2. ASSUME NEW r \in Rollcall PROVE FirstToSee(r) \in User \cup {Nobody}
  <2> DEFINE who == {i \in 1..Len(scouts) : polled[scouts[i]] = "ok" /\ r \in seen[scouts[i]]}
  <2>1. CASE found[r] # Nobody \/ who = {}
    BY <2>1 DEF FirstToSee, TypeOK
  <2>2. CASE found[r] = Nobody /\ who # {}
    <3>1. Len(scouts) \in Nat
      BY LenProperties DEF TypeOK
    <3>2. who \in SUBSET Nat
      BY <3>1
    <3>3. \E i \in who : \A j \in who : i <= j
      BY <2>2, <3>2, HasLeast
    <3>4. (CHOOSE i \in who : \A j \in who : i <= j) \in 1..Len(scouts)
      BY <3>3
    <3>5. scouts[CHOOSE i \in who : \A j \in who : i <= j] \in User
      BY <3>4, ElementOfSeq DEF TypeOK
    <3> QED BY <2>2, <3>5 DEF FirstToSee
  <2> QED BY <2>1, <2>2
<1>3. found' \in [Rollcall -> User \cup {Nobody}]
  BY <1>2 DEF Absorb
<1>4. healing' \subseteq User
  BY <1>1 DEF Absorb, TypeOK
<1> QED BY <1>3, <1>4 DEF Absorb

\* A sign-in that goes on was begun, and comes to one of its next states.
LEMMA SignOneTask ==
  ASSUME NEW u, NEW r, sign_one(u, r)
  PROVE  /\ task[<<u, r>>] \in Running
         /\ \E s \in {"recover", "retry"} \cup Outcome : task' = [task EXCEPT ![<<u, r>>] = s]
<1>1. CASE /\ task[<<u, r>>] \in {"cached", "retry"}
           /\ \E s \in Outcome : task' = [task EXCEPT ![<<u, r>>] = s]
  BY <1>1 DEF Running
<1>2. CASE /\ task[<<u, r>>] \in {"cached", "retry", "recover"}
           /\ \E s \in {"failed", "recover", "retry", "notlogin"} :
                task' = [task EXCEPT ![<<u, r>>] = s]
  BY <1>2 DEF Running, Outcome
<1> QED BY <1>1, <1>2 DEF sign_one

\* The variables keep their types.
LEMMA TypeInductive == TypeOK /\ Started /\ [Next]_vars => TypeOK'
<1> SUFFICES ASSUME TypeOK, Started, [Next]_vars PROVE TypeOK'
  OBVIOUS
<1> USE DEF server, session, index, tables, plan, gather, signing
<1>1. ASSUME NEW users \in SUBSET User, TickBegin(users) PROVE TypeOK'
  BY <1>1 DEF TickBegin, TypeOK
<1>2. ASSUME NEW u \in unwarmed, WarmUp(u) PROVE TypeOK'
  <2>1. u \in User
    BY DEF TypeOK
  <2>2. /\ client' \in [User -> {"none", "live", "dead"}]
        /\ WARM_STATE' \in [User -> {"none", "ok", "bad"}]
    BY <1>2, <2>1 DEF WarmUp, TypeOK, Recovered, NotRecovered
  <2>3. active' \subseteq User /\ unwarmed' \subseteq User
    BY <1>2, <2>1 DEF WarmUp, TypeOK
  <2>4. UNCHANGED <<server, index, request, pc, courses_of, all_courses_of, SIGNED_MARK,
                    SCOUT_DUTY, TICK_SEQ, gather, signing, trouble>>
    BY <1>2 DEF WarmUp
  <2> QED BY <2>2, <2>3, <2>4 DEF TypeOK
<1>3. CASE NobodyWarm
  BY <1>3 DEF NobodyWarm, TypeOK
<1>4. ASSUME NEW insession \in [User -> SUBSET Course], Plan(insession) PROVE TypeOK'
  <2>1. courses_of' \in [User -> SUBSET Course]
    BY <1>4, TimeSignAssumption DEF Plan, TypeOK
  <2>2. scouts' \in Seq(User)
    BY <1>4, <2>1, RotaParts DEF Plan, TypeOK
  <2>3. TICK_SEQ' \in 0..MaxTicks
    BY <1>4, TimeSignAssumption DEF Plan, TypeOK, Started
  <2>4. SCOUT_DUTY' \in [User -> 0..MaxTicks]
    BY <1>4, <2>3 DEF Plan, TypeOK
  <2>5. \E known \in SUBSET User : all_courses_of' \in [known -> SUBSET Course]
    <3>1. active \cap indexed \in SUBSET User
      BY DEF TypeOK
    <3>2. all_courses_of' \in [active \cap indexed -> SUBSET Course]
      BY <1>4, <3>1 DEF Plan, TypeOK
    <3> QED BY <3>1, <3>2
  <2> QED BY <1>4, <2>1, <2>2, <2>3, <2>4, <2>5 DEF Plan, TypeOK
<1>5. ASSUME NEW u \in Listed(scouts), Poll(u) PROVE TypeOK'
  <2>1. u \in User
    BY ElementOfSeq DEF TypeOK, Listed
  <2>2. polled' \in [User -> {"no", "ok", "failed"}] /\ seen' \in [User -> SUBSET Rollcall]
    <3>1. seen' = seen \/ \E S \in SUBSET Rollcall : seen' = [seen EXCEPT ![u] = S]
      BY <1>5 DEF Poll
    <3>2. polled' = [polled EXCEPT ![u] = "ok"] \/ polled' = [polled EXCEPT ![u] = "failed"]
      BY <1>5 DEF Poll
    <3>3. seen \in [User -> SUBSET Rollcall] /\ polled \in [User -> {"no", "ok", "failed"}]
      BY DEF TypeOK
    <3>4. seen' \in [User -> SUBSET Rollcall]
      BY <2>1, <3>1, <3>3
    <3>5. polled' \in [User -> {"no", "ok", "failed"}]
      BY <2>1, <3>2, <3>3
    <3> QED BY <3>4, <3>5
  <2>3. client' \in [User -> {"none", "live", "dead"}] /\ WARM_STATE' \in [User -> {"none", "ok", "bad"}]
    BY <1>5, <2>1 DEF Poll, TypeOK, Recovered, NotRecovered
  <2>4. trouble' \in BOOLEAN
    <3>1. trouble' = trouble \/ trouble' = (trouble \/ pc = "backup")
      BY <1>5 DEF Poll
    <3>2. trouble \in BOOLEAN
      BY DEF TypeOK
    <3> QED BY <3>1, <3>2
  <2> QED BY <1>5, <2>2, <2>3, <2>4 DEF Poll, TypeOK
<1>6. CASE AbsorbScouts
  <2>1. scouts' \in Seq(User)
    BY <1>6, BackupsAreSeq DEF AbsorbScouts, TypeOK
  <2>2. SCOUT_DUTY' \in [User -> 0..MaxTicks]
    BY <1>6 DEF AbsorbScouts, TypeOK
  <2>3. pc' \in {"backup", "dispatch"} /\ todo' \subseteq Rollcall
    BY <1>6 DEF AbsorbScouts, TypeOK
  <2>4. Absorb
    BY <1>6 DEF AbsorbScouts
  <2>5. UNCHANGED <<server, session, plan, trouble, polled, by_qq, indexed, SIGNED_MARK, WARM_STATE,
                    TICK_SEQ, current, leader, others, task, late>>
    BY <1>6 DEF AbsorbScouts
  <2> QED BY <2>1, <2>2, <2>3, <2>4, <2>5, AbsorbTypes DEF TypeOK
<1>7. CASE AbsorbBackups
  <2>1. Absorb /\ pc' = "dispatch" /\ todo' \subseteq Rollcall
    BY <1>7 DEF AbsorbBackups
  <2>2. UNCHANGED <<server, session, plan, tables, trouble, scouts, polled, by_qq, indexed,
                    current, leader, others, task, late>>
    BY <1>7 DEF AbsorbBackups
  <2> QED BY <2>1, <2>2, AbsorbTypes DEF TypeOK
<1>8. ASSUME NEW r \in todo, PassOver(r) PROVE TypeOK'
  BY <1>8 DEF PassOver, TypeOK
<1>9. ASSUME NEW r \in todo, NEW u \in User, Lead(r, u) PROVE TypeOK'
  <2>1. r \in Rollcall /\ <<u, r>> \in Pair /\ Targets(r) \subseteq User
    BY DEF TypeOK, Targets, Pair
  <2>2. task' \in [Pair -> {"no"} \cup Running \cup Outcome]
    BY <1>9, <2>1 DEF Lead, TypeOK, Running
  <2> QED BY <1>9, <2>1, <2>2 DEF Lead, TypeOK
<1>10. CASE LeaderBack
  <2>1. <<leader, current>> \in Pair
    BY <1>10 DEF LeaderBack, Started, Pair
  <2>2. SIGNED_MARK' \subseteq Pair
    BY <1>10, <2>1 DEF LeaderBack, absorb_sign, TypeOK
  <2>3. task' \in [Pair -> {"no"} \cup Running \cup Outcome]
    BY <1>10, <2>1 DEF LeaderBack, Follow, TypeOK, Running
  <2> QED BY <1>10, <2>2, <2>3 DEF LeaderBack, absorb_sign, TypeOK
<1>11. CASE LeaderSlow
  <2>1. <<leader, current>> \in Pair
    BY <1>11 DEF LeaderSlow, Started, Pair
  <2>2. task' \in [Pair -> {"no"} \cup Running \cup Outcome]
    BY <1>11 DEF LeaderSlow, Follow, TypeOK, Running
  <2> QED BY <1>11, <2>1, <2>2 DEF LeaderSlow, TypeOK
<1>12. CASE OthersBack
  <2>1. others \X {current} \subseteq Pair
    BY <1>12 DEF OthersBack, Started, Pair, TypeOK
  <2>2. SIGNED_MARK' \subseteq Pair
    BY <1>12, <2>1 DEF OthersBack, absorb_sign, TypeOK
  <2>3. task' \in [Pair -> {"no"} \cup Running \cup Outcome]
    BY <1>12 DEF OthersBack, TypeOK
  <2> QED BY <1>12, <2>2, <2>3 DEF OthersBack, absorb_sign, TypeOK
<1>13. ASSUME NEW p \in late, LateBack(p) PROVE TypeOK'
  <2>1. SIGNED_MARK' \subseteq Pair
    BY <1>13 DEF LateBack, absorb_sign, TypeOK
  <2> QED BY <1>13, <2>1 DEF LateBack, absorb_sign, TypeOK
<1>14. CASE AllBack
  BY <1>14 DEF AllBack, TypeOK
<1>15. CASE send_reports
  <2>1. all_courses_of' = [u \in {} |-> {}] /\ <<>> \in Seq(User)
    BY <1>15, EmptySeq DEF send_reports
  <2>2. all_courses_of' \in [{} -> SUBSET Course] /\ {} \in SUBSET User
    BY <2>1
  <2> QED BY <1>15, <2>1, <2>2 DEF send_reports, TypeOK
<1>16. ASSUME NEW p \in Pair, sign_one(p[1], p[2]) PROVE TypeOK'
  <2>1. PICK u \in User, r \in Rollcall : p = <<u, r>>
    BY DEF Pair
  <2>2. sign_one(u, r) /\ <<u, r>> \in Pair
    BY <1>16, <2>1
  <2>3. task' \in [Pair -> {"no"} \cup Running \cup Outcome]
    <3>1. PICK s \in {"recover", "retry"} \cup Outcome : task' = [task EXCEPT ![<<u, r>>] = s]
      BY <2>2, SignOneTask
    <3>2. task \in [Pair -> {"no"} \cup Running \cup Outcome]
      BY DEF TypeOK
    <3> QED BY <3>1, <3>2 DEF Running
  <2>4. signed' \subseteq Pair
    BY <2>2 DEF sign_one, Responses, Error, TypeOK
  <2>5. request' \in [User -> [Course -> {"none", "live", "dead"}]]
    <3>1. request' = request \/ KeepRequest(u, r)
      BY <2>2 DEF sign_one, Responses, Error
    <3>2. course_of[r] \in Course
      BY TimeSignAssumption
    <3>3. Kept(u, r) \in {"none", "live", "dead"}
      BY <3>2 DEF Kept, TypeOK
    <3>4. request \in [User -> [Course -> {"none", "live", "dead"}]]
      BY DEF TypeOK
    <3>5. CASE KeepRequest(u, r)
      <4> DEFINE kept == [request[u] EXCEPT ![course_of[r]] = Kept(u, r)]
      <4>1. kept \in [Course -> {"none", "live", "dead"}]
        BY <3>2, <3>3, <3>4
      <4>2. request' = [request EXCEPT ![u] = kept]
        BY <3>5 DEF KeepRequest
      <4> QED BY <3>4, <4>1, <4>2
    <3> QED BY <3>1, <3>4, <3>5
  <2>6. client' \in [User -> {"none", "live", "dead"}] /\ WARM_STATE' \in [User -> {"none", "ok", "bad"}]
    BY <2>2 DEF sign_one, TypeOK, Recovered, NotRecovered
  <2>7. trouble' \in BOOLEAN
    <3>1. \/ trouble' = trouble \/ trouble' = TRUE
          \/ \E s \in Outcome : trouble' = (trouble \/ s # "settled")
      BY <2>2 DEF sign_one
    <3>2. trouble \in BOOLEAN
      BY DEF TypeOK
    <3> QED BY <3>1, <3>2
  <2>8. UNCHANGED <<rollcall, upsets, pc, todo, current, leader, others, late,
                    index, SIGNED_MARK, SCOUT_DUTY, TICK_SEQ, plan, gather>>
    BY <2>2 DEF sign_one
  <2> QED BY <2>3, <2>4, <2>5, <2>6, <2>7, <2>8 DEF TypeOK
<1>17. ASSUME NEW r \in Rollcall, Opens(r) \/ Closes(r) PROVE TypeOK'
  <2>1. rollcall' \in [Rollcall -> {"none", "open", "closed"}]
    <3>1. rollcall' = [rollcall EXCEPT ![r] = "open"] \/ rollcall' = [rollcall EXCEPT ![r] = "closed"]
      BY <1>17 DEF Opens, Closes
    <3>2. rollcall \in [Rollcall -> {"none", "open", "closed"}]
      BY DEF TypeOK
    <3> QED BY <3>1, <3>2
  <2>2. upsets' \in 0..MaxUpsets
    BY <1>17, TimeSignAssumption DEF Opens, Closes, TypeOK
  <2>3. trouble' \in BOOLEAN
    <3>1. trouble' = trouble \/ trouble' = (trouble \/ pc \notin {"idle", "warm"})
      BY <1>17 DEF Opens, Closes
    <3>2. trouble \in BOOLEAN
      BY DEF TypeOK
    <3> QED BY <3>1, <3>2
  <2>4. UNCHANGED <<signed, session, index, tables, pc, plan, gather, signing>>
    BY <1>17 DEF Opens, Closes
  <2> QED BY <2>1, <2>2, <2>3, <2>4 DEF TypeOK
<1>18. ASSUME NEW u \in User, SessionEnds(u) PROVE TypeOK'
  <2>1. request' \in [User -> [Course -> {"none", "live", "dead"}]]
    BY <1>18 DEF SessionEnds, TypeOK
  <2>2. upsets' \in 0..MaxUpsets
    BY <1>18, TimeSignAssumption DEF SessionEnds, TypeOK
  <2> QED BY <1>18, <2>1, <2>2 DEF SessionEnds, TypeOK
<1>19. ASSUME NEW u \in User, LogsInAgain(u) \/ Upserted(u) PROVE TypeOK'
  <2>1. by_qq' \in [User -> SUBSET Course] /\ indexed' \subseteq User /\ healing' \subseteq User
    <3>1. CASE LogsInAgain(u)
      BY <3>1 DEF LogsInAgain, TypeOK
    <3>2. CASE Upserted(u)
      <4>1. takes[u] \subseteq Course
        BY TimeSignAssumption
      <4> QED BY <3>2, <4>1 DEF Upserted, TypeOK
    <3> QED BY <1>19, <3>1, <3>2
  <2>2. client' \in [User -> {"none", "live", "dead"}]
    <3>1. client' = client \/ client' = [client EXCEPT ![u] = "live"]
      BY <1>19 DEF LogsInAgain, Upserted
    <3> QED BY <3>1 DEF TypeOK
  <2>3. UNCHANGED <<server, request, tables, pc, plan, gather, signing, trouble>>
    BY <1>19 DEF LogsInAgain, Upserted
  <2> QED BY <2>1, <2>2, <2>3 DEF TypeOK
<1>20. CASE UNCHANGED vars
  BY <1>20 DEF vars, TypeOK
<1> QED
  BY <1>1, <1>2, <1>3, <1>4, <1>5, <1>6, <1>7, <1>8, <1>9, <1>10, <1>11, <1>12, <1>13, <1>14,
     <1>15, <1>16, <1>17, <1>18, <1>19, <1>20 DEF Next, Tick, Environment

\* The tick has room for its number, and no leader follows himself.
LEMMA StartedInductive == TypeOK /\ Started /\ [Next]_vars => Started'
<1> SUFFICES ASSUME TypeOK, Started, [Next]_vars PROVE Started'
  OBVIOUS
<1> USE DEF server, session, index, tables, plan, gather, signing, Started
<1>1. ASSUME NEW users, TickBegin(users) PROVE Started'
  BY <1>1 DEF TickBegin
<1>2. ASSUME NEW u, WarmUp(u) \/ Poll(u) PROVE Started'
  BY <1>2 DEF WarmUp, Poll
<1>3. CASE NobodyWarm \/ AllBack \/ send_reports \/ AbsorbScouts \/ AbsorbBackups
  BY <1>3 DEF NobodyWarm, AllBack, send_reports, AbsorbScouts, AbsorbBackups
<1>4. ASSUME NEW insession, Plan(insession) PROVE Started'
  BY <1>4 DEF Plan
<1>5. ASSUME NEW r \in todo, PassOver(r) \/ \E u \in User : Lead(r, u) PROVE Started'
  <2>1. r \in Rollcall
    BY DEF TypeOK
  <2> QED BY <1>5, <2>1 DEF PassOver, Lead
<1>6. CASE LeaderBack \/ LeaderSlow
  BY <1>6 DEF LeaderBack, LeaderSlow, absorb_sign
<1>7. CASE OthersBack \/ \E p \in late : LateBack(p)
  BY <1>7 DEF OthersBack, LateBack, absorb_sign
<1>8. ASSUME NEW p \in Pair, sign_one(p[1], p[2]) PROVE Started'
  BY <1>8 DEF sign_one
<1>9. CASE Environment
  BY <1>9 DEF Environment, Opens, Closes, SessionEnds, LogsInAgain, Upserted
<1>10. CASE UNCHANGED vars
  BY <1>10 DEF vars
<1> QED
  BY <1>1, <1>2, <1>3, <1>4, <1>5, <1>6, <1>7, <1>8, <1>9, <1>10 DEF Next, Tick

\* A roll call that was opened is never again one that was not.
LEMMA StaysOpened ==
  ASSUME TypeOK, [Next]_vars, NEW r \in Rollcall, rollcall[r] # "none"
  PROVE  rollcall'[r] # "none"
<1> USE DEF server
<1>1. CASE Tick \/ \E users \in SUBSET User : TickBegin(users)
  BY <1>1 DEF Tick, TickBegin, WarmUp, NobodyWarm, Plan, Poll, AbsorbScouts, AbsorbBackups, PassOver,
     Lead, LeaderBack, LeaderSlow, OthersBack, LateBack, AllBack, send_reports
<1>2. ASSUME NEW p \in Pair, sign_one(p[1], p[2]) PROVE rollcall'[r] # "none"
  BY <1>2 DEF sign_one
<1>3. CASE Environment
  BY <1>3 DEF Environment, Opens, Closes, SessionEnds, LogsInAgain, Upserted, TypeOK
<1>4. CASE UNCHANGED vars
  BY <1>4 DEF vars
<1> QED BY <1>1, <1>2, <1>3, <1>4 DEF Next

\* What was seen, found or taken up had been opened.
LEMMA OpenedInductive == TypeOK /\ TypeOK' /\ Started /\ Opened /\ [Next]_vars => Opened'
<1> SUFFICES ASSUME TypeOK, TypeOK', Started, Opened, [Next]_vars PROVE Opened'
  OBVIOUS
<1> DEFINE Open(r) == rollcall'[r] # "none"
<1>a. \A r \in Rollcall : rollcall[r] # "none" => Open(r)
  BY StaysOpened
<1> USE DEF session, index, tables, plan, gather, signing
<1> HIDE DEF Open
<1>b. /\ \A u \in User : \A r \in seen[u] : Open(r)
      /\ \A r \in Rollcall : found[r] # Nobody => Open(r)
      /\ \A r \in todo : Open(r)
      /\ pc \in {"leader", "others"} => Open(current)
      /\ \A p \in Pair : task[p] # "no" => Open(p[2])
  BY <1>a DEF Opened, TypeOK, Started, Pair
<1> SUFFICES /\ \A u \in User : \A r \in seen'[u] : Open(r)
             /\ \A r \in Rollcall : found'[r] # Nobody => Open(r)
             /\ \A r \in todo' : Open(r)
             /\ pc' \in {"leader", "others"} => Open(current')
             /\ \A p \in Pair : task'[p] # "no" => Open(p[2])
  BY DEF Opened, Open
<1> DEFINE Goal == /\ \A u \in User : \A r \in seen'[u] : Open(r)
                   /\ \A r \in Rollcall : found'[r] # Nobody => Open(r)
                   /\ \A r \in todo' : Open(r)
                   /\ pc' \in {"leader", "others"} => Open(current')
                   /\ \A p \in Pair : task'[p] # "no" => Open(p[2])
<1>1. ASSUME NEW users, TickBegin(users) PROVE Goal
  BY <1>1, <1>b DEF TickBegin
<1>2. ASSUME NEW u, WarmUp(u) PROVE Goal
  BY <1>2, <1>b DEF WarmUp
<1>3. CASE NobodyWarm \/ AllBack
  BY <1>3, <1>b DEF NobodyWarm, AllBack
<1>4. ASSUME NEW insession, Plan(insession) PROVE Goal
  BY <1>4, <1>b DEF Plan
<1>5. ASSUME NEW u \in Listed(scouts), Poll(u) PROVE Goal
  <2>1. u \in User
    BY ElementOfSeq DEF TypeOK, Listed
  <2>2. \A r \in Rollcall : Lists(u, r) => Open(r)
    BY <1>a DEF Lists
  <2>3. \A v \in User : \A r \in seen'[v] : Open(r)
    <3>1. \/ seen' = seen
          \/ seen' = [seen EXCEPT ![u] = {r \in Rollcall : Lists(u, r)}]
      BY <1>5 DEF Poll
    <3>2. seen \in [User -> SUBSET Rollcall]
      BY DEF TypeOK
    <3> QED BY <1>b, <2>1, <2>2, <3>1, <3>2
  <2> QED BY <1>5, <1>b, <2>3 DEF Poll
<1>6. CASE AbsorbScouts \/ AbsorbBackups
  <2>1. Absorb /\ \A u \in User : seen'[u] = {}
    BY <1>6 DEF AbsorbScouts, AbsorbBackups, Absorb
  <2>2. ASSUME NEW r \in Rollcall, found'[r] # Nobody PROVE Open(r)
    <3> DEFINE who == {i \in 1..Len(scouts) : polled[scouts[i]] = "ok" /\ r \in seen[scouts[i]]}
    <3>1. found'[r] = FirstToSee(r)
      BY <2>1 DEF Absorb
    <3>2. found[r] # Nobody \/ who # {}
      BY <2>2, <3>1 DEF FirstToSee
    <3>3. ASSUME NEW i \in who PROVE Open(r)
      <4>1. scouts[i] \in User
        BY ElementOfSeq DEF TypeOK
      <4> QED BY <1>b, <4>1
    <3> QED BY <1>b, <3>2, <3>3
  <2>3. todo' = todo \/ todo' = {r \in Rollcall : found'[r] # Nobody}
    BY <1>6 DEF AbsorbScouts, AbsorbBackups
  <2>4. pc' \notin {"leader", "others"} /\ task' = task
    BY <1>6 DEF AbsorbScouts, AbsorbBackups
  <2> QED BY <1>b, <2>1, <2>2, <2>3, <2>4
<1>7. ASSUME NEW r \in todo, PassOver(r) PROVE Goal
  BY <1>7, <1>b DEF PassOver
<1>8. ASSUME NEW r \in todo, NEW u \in User, Lead(r, u) PROVE Goal
  <2>1. Open(r) /\ <<u, r>> \in Pair
    BY <1>b DEF Pair, TypeOK
  <2>2. \A p \in Pair : task'[p] # "no" => Open(p[2])
    BY <1>8, <1>b, <2>1 DEF Lead, TypeOK
  <2> QED BY <1>8, <1>b, <2>1, <2>2 DEF Lead
<1>9. CASE LeaderBack \/ LeaderSlow
  <2>1. <<leader, current>> \in Pair /\ Open(current)
    BY <1>9, <1>b DEF LeaderBack, LeaderSlow, Started, Pair
  <2>2. \A p \in Pair : task'[p] # "no" => task[p] # "no" \/ p[2] = current
    BY <1>9, <2>1 DEF LeaderBack, LeaderSlow, Follow, TypeOK
  <2> QED BY <1>9, <1>b, <2>1, <2>2 DEF LeaderBack, LeaderSlow
<1>10. CASE OthersBack
  BY <1>10, <1>b DEF OthersBack
<1>11. ASSUME NEW p \in late, LateBack(p) PROVE Goal
  <2>1. \A q \in Pair : task'[q] # "no" => task[q] # "no"
    BY <1>11 DEF LateBack, TypeOK
  <2> QED BY <1>11, <1>b, <2>1 DEF LateBack
<1>12. CASE send_reports
  BY <1>12, <1>b DEF send_reports
<1>13. ASSUME NEW p \in Pair, sign_one(p[1], p[2]) PROVE Goal
  <2>1. PICK u \in User, r \in Rollcall : p = <<u, r>> /\ sign_one(u, r)
    BY <1>13 DEF Pair
  <2>2. task[<<u, r>>] # "no"
    BY <2>1, SignOneTask DEF Running
  <2>3. \A q \in Pair : task'[q] # "no" => task[q] # "no"
    <3>1. PICK s : task' = [task EXCEPT ![<<u, r>>] = s]
      BY <2>1, SignOneTask
    <3>2. DOMAIN task = Pair
      BY DEF TypeOK
    <3> QED BY <2>2, <3>1, <3>2
  <2>4. UNCHANGED <<seen, found, todo, pc, current>>
    BY <2>1 DEF sign_one
  <2> QED BY <1>b, <2>3, <2>4
<1>14. CASE Environment
  BY <1>14, <1>b DEF Environment, Opens, Closes, SessionEnds, LogsInAgain, Upserted
<1>15. CASE UNCHANGED vars
  BY <1>15, <1>b DEF vars
<1> QED
  BY <1>1, <1>2, <1>3, <1>4, <1>5, <1>6, <1>7, <1>8, <1>9, <1>10, <1>11, <1>12, <1>13, <1>14, <1>15
  DEF Next, Tick

\* What is just stays just: nobody's presence is taken back, no roll call is
\* opened again.
LEMMA StaysJust ==
  ASSUME TypeOK, [Next]_vars, NEW p \in Pair, Just(p)
  PROVE  Just(p)'
<1> USE DEF server, Just
<1>1. CASE Tick \/ \E users \in SUBSET User : TickBegin(users)
  BY <1>1 DEF Tick, TickBegin, WarmUp, NobodyWarm, Plan, Poll, AbsorbScouts, AbsorbBackups, PassOver,
     Lead, LeaderBack, LeaderSlow, OthersBack, LateBack, AllBack, send_reports
<1>2. ASSUME NEW q \in Pair, sign_one(q[1], q[2]) PROVE Just(p)'
  <2>1. signed \subseteq signed' /\ rollcall' = rollcall
    BY <1>2 DEF sign_one, Responses, Error
  <2> QED BY <2>1
<1>3. CASE Environment
  <2>1. signed' = signed
    BY <1>3 DEF Environment, Opens, Closes, SessionEnds, LogsInAgain, Upserted
  <2>2. rollcall[p[2]] = "closed" => rollcall'[p[2]] = "closed"
    BY <1>3 DEF Environment, Opens, Closes, SessionEnds, LogsInAgain, Upserted, TypeOK, Pair
  <2> QED BY <2>1, <2>2
<1>4. CASE UNCHANGED vars
  BY <1>4 DEF vars
<1> QED BY <1>1, <1>2, <1>3, <1>4 DEF Next

\* A sign-in comes back settled only for a pair that is just.
LEMMA SettledIsJust ==
  ASSUME TypeOK, Opened, NEW u \in User, NEW r \in Rollcall, sign_one(u, r),
         task'[<<u, r>>] = "settled"
  PROVE  Just(<<u, r>>)'
<1>1. task[<<u, r>>] \in Running /\ <<u, r>> \in Pair
  BY SignOneTask DEF Pair
<1>2. rollcall[r] \in {"open", "closed"} /\ rollcall' = rollcall
  BY <1>1 DEF Opened, TypeOK, Running, sign_one
<1>3. DOMAIN task = Pair
  BY DEF TypeOK
<1>4. Responses(u, r, "settled")
  <2>1. CASE \E s \in Outcome : Responses(u, r, s) /\ task' = [task EXCEPT ![<<u, r>>] = s]
    BY <1>1, <1>3, <2>1
  <2>2. CASE \E s \in {"failed", "recover", "retry", "notlogin"} : task' = [task EXCEPT ![<<u, r>>] = s]
    BY <1>1, <1>3, <2>2
  <2> QED BY <2>1, <2>2 DEF sign_one
<1>5. CASE ~Lists(u, r)
  BY <1>2, <1>5 DEF Lists, Just
<1>6. CASE <<u, r>> \in signed'
  BY <1>6 DEF Just
<1> QED BY <1>4, <1>5, <1>6 DEF Responses

\* What is marked, and what came back settled, is just.
LEMMA JustifiedInductive == TypeOK /\ Started /\ Opened /\ Justified /\ [Next]_vars => Justified'
<1> SUFFICES ASSUME TypeOK, Started, Opened, Justified, [Next]_vars,
                    NEW p \in Pair, p \in SIGNED_MARK' \/ task'[p] = "settled"
             PROVE  Just(p)'
  BY DEF Justified
<1>a. (p \in SIGNED_MARK \/ task[p] = "settled") => Just(p)'
  BY StaysJust DEF Justified
<1>b. task \in [Pair -> {"no"} \cup Running \cup Outcome]
  BY DEF TypeOK
<1> USE DEF tables, signing
<1>1. CASE Environment \/ UNCHANGED vars \/ \E users \in SUBSET User : TickBegin(users)
  BY <1>1, <1>a DEF Environment, Opens, Closes, SessionEnds, LogsInAgain, Upserted, vars, TickBegin
<1>2. CASE \/ \E u \in unwarmed : WarmUp(u)
           \/ \E insession \in [User -> SUBSET Course] : Plan(insession)
           \/ \E u \in Listed(scouts) : Poll(u)
           \/ NobodyWarm \/ AbsorbScouts \/ AbsorbBackups \/ AllBack \/ send_reports
  BY <1>2, <1>a DEF WarmUp, Plan, Poll, NobodyWarm, AbsorbScouts, AbsorbBackups, AllBack, send_reports
<1>3. ASSUME NEW r \in todo, PassOver(r) PROVE Just(p)'
  BY <1>3, <1>a DEF PassOver
<1>4. ASSUME NEW r \in todo, NEW u \in User, Lead(r, u) PROVE Just(p)'
  BY <1>4, <1>a, <1>b DEF Lead
<1>5. CASE LeaderBack \/ LeaderSlow
  <2>1. /\ task'[p] = "settled" => task[p] = "settled"
        /\ p \in SIGNED_MARK' => p \in SIGNED_MARK \/ task[p] = "settled"
    BY <1>5, <1>b DEF LeaderBack, LeaderSlow, absorb_sign, Follow
  <2> QED BY <1>a, <2>1
<1>6. CASE OthersBack
  <2>1. /\ task'[p] = "settled" => task[p] = "settled"
        /\ p \in SIGNED_MARK' => p \in SIGNED_MARK \/ task[p] = "settled"
    BY <1>6, <1>b DEF OthersBack, absorb_sign
  <2> QED BY <1>a, <2>1
<1>7. ASSUME NEW q \in late, LateBack(q) PROVE Just(p)'
  <2>1. /\ task'[p] = "settled" => task[p] = "settled"
        /\ p \in SIGNED_MARK' => p \in SIGNED_MARK \/ task[p] = "settled"
    BY <1>7, <1>b DEF LateBack, absorb_sign
  <2> QED BY <1>a, <2>1
<1>8. ASSUME NEW u \in User, NEW r \in Rollcall, sign_one(u, r) PROVE Just(p)'
  <2>1. SIGNED_MARK' = SIGNED_MARK
    BY <1>8 DEF sign_one
  <2>2. CASE p = <<u, r>>
    BY <1>8, <1>a, <2>1, <2>2, SettledIsJust
  <2>3. CASE p # <<u, r>>
    <3>1. task'[p] = task[p]
      BY <1>8, <1>b, <2>3, SignOneTask
    <3> QED BY <1>a, <2>1, <3>1
  <2> QED BY <2>2, <2>3
<1>9. ASSUME NEW q \in Pair, sign_one(q[1], q[2]) PROVE Just(p)'
  BY <1>8, <1>9 DEF Pair
<1> QED
  BY <1>1, <1>2, <1>3, <1>4, <1>5, <1>6, <1>7, <1>9 DEF Next, Tick

\* Every sign-in that was begun is one the tick still waits for.
LEMMA AwaitedInductive == TypeOK /\ Started /\ Awaited /\ [Next]_vars => Awaited'
<1> SUFFICES ASSUME TypeOK, Started, Awaited, [Next]_vars, NEW p \in Pair, task'[p] # "no"
             PROVE  \/ pc' = "dispatch" /\ p \in late'
                    \/ pc' = "leader" /\ (p \in late' \/ p = <<leader', current'>>)
                    \/ pc' = "others" /\ (p \in late' \/ p \in others' \X {current'})
  BY DEF Awaited
<1> DEFINE Goal == \/ pc' = "dispatch" /\ p \in late'
                   \/ pc' = "leader" /\ (p \in late' \/ p = <<leader', current'>>)
                   \/ pc' = "others" /\ (p \in late' \/ p \in others' \X {current'})
<1>a. task[p] # "no" =>
        \/ pc = "dispatch" /\ p \in late
        \/ pc = "leader" /\ (p \in late \/ p = <<leader, current>>)
        \/ pc = "others" /\ (p \in late \/ p \in others \X {current})
  BY DEF Awaited
<1>b. task \in [Pair -> {"no"} \cup Running \cup Outcome]
  BY DEF TypeOK
<1> USE DEF signing
<1>1. CASE Environment \/ UNCHANGED vars \/ \E users \in SUBSET User : TickBegin(users)
  BY <1>1, <1>a DEF Environment, Opens, Closes, SessionEnds, LogsInAgain, Upserted, vars, TickBegin
<1>2. CASE \/ \E u \in unwarmed : WarmUp(u)
           \/ \E insession \in [User -> SUBSET Course] : Plan(insession)
           \/ \E u \in Listed(scouts) : Poll(u)
           \/ NobodyWarm \/ AbsorbScouts \/ AbsorbBackups \/ AllBack \/ send_reports
  BY <1>2, <1>a DEF WarmUp, Plan, Poll, NobodyWarm, AbsorbScouts, AbsorbBackups, AllBack, send_reports
<1>3. ASSUME NEW r \in todo, PassOver(r) PROVE Goal
  BY <1>3, <1>a DEF PassOver
<1>4. ASSUME NEW r \in todo, NEW u \in User, Lead(r, u) PROVE Goal
  BY <1>4, <1>a, <1>b DEF Lead
<1>5. CASE LeaderBack
  BY <1>5, <1>a, <1>b DEF LeaderBack, Follow
<1>6. CASE LeaderSlow
  BY <1>6, <1>a, <1>b DEF LeaderSlow, Follow
<1>7. CASE OthersBack
  BY <1>7, <1>a, <1>b DEF OthersBack
<1>8. ASSUME NEW q \in late, LateBack(q) PROVE Goal
  BY <1>8, <1>a, <1>b DEF LateBack
<1>9. ASSUME NEW q \in Pair, sign_one(q[1], q[2]) PROVE Goal
  <2>1. PICK u \in User, r \in Rollcall : q = <<u, r>> /\ sign_one(u, r)
    BY <1>9 DEF Pair
  <2>2. task[<<u, r>>] # "no"
    BY <2>1, SignOneTask DEF Running
  <2>3. task[p] # "no"
    BY <1>b, <2>1, <2>2, SignOneTask
  <2> QED BY <1>a, <2>1, <2>3 DEF sign_one
<1> QED
  BY <1>1, <1>2, <1>3, <1>4, <1>5, <1>6, <1>7, <1>8, <1>9 DEF Next, Tick

\* Nobody who signs, or is about to follow, is marked.
LEMMA UnmarkedInductive == TypeOK /\ Started /\ Unmarked /\ [Next]_vars => Unmarked'
<1> SUFFICES ASSUME TypeOK, Started, Unmarked, [Next]_vars PROVE Unmarked'
  OBVIOUS
<1>b. task \in [Pair -> {"no"} \cup Running \cup Outcome]
  BY DEF TypeOK
<1> USE DEF signing, tables, Unmarked
<1>1. CASE Environment \/ UNCHANGED vars \/ \E users \in SUBSET User : TickBegin(users)
  BY <1>1 DEF Environment, Opens, Closes, SessionEnds, LogsInAgain, Upserted, vars, TickBegin
<1>2. CASE \/ \E u \in unwarmed : WarmUp(u)
           \/ \E insession \in [User -> SUBSET Course] : Plan(insession)
           \/ \E u \in Listed(scouts) : Poll(u)
           \/ NobodyWarm \/ AbsorbScouts \/ AbsorbBackups \/ AllBack \/ send_reports
  BY <1>2 DEF WarmUp, Plan, Poll, NobodyWarm, AbsorbScouts, AbsorbBackups, AllBack, send_reports
<1>3. ASSUME NEW r \in todo, PassOver(r) PROVE Unmarked'
  BY <1>3 DEF PassOver
<1>4. ASSUME NEW r \in todo, NEW u \in User, Lead(r, u) PROVE Unmarked'
  BY <1>4, <1>b DEF Lead, Targets
<1>5. CASE LeaderBack
  <2>1. /\ leader \notin others
        /\ \A v \in others : <<v, current>> \notin SIGNED_MARK
        /\ \A q \in SIGNED_MARK' : q \in SIGNED_MARK \/ q = <<leader, current>>
    BY <1>5 DEF LeaderBack, absorb_sign, Started
  <2>2. ASSUME NEW q \in Pair, task'[q] \in Running PROVE q \notin SIGNED_MARK'
    <3>1. CASE q \in others \X {current}
      BY <2>1, <3>1
    <3>2. CASE q \notin others \X {current}
      <4>1. q # <<leader, current>> /\ task[q] \in Running
        BY <1>5, <1>b, <2>2, <3>2 DEF LeaderBack, Follow, Running
      <4> QED BY <2>1, <4>1
    <3> QED BY <3>1, <3>2
  <2> QED BY <1>5, <2>2 DEF LeaderBack
<1>6. CASE LeaderSlow
  BY <1>6, <1>b DEF LeaderSlow, Follow
<1>7. CASE OthersBack
  BY <1>7, <1>b DEF OthersBack, absorb_sign, Running
<1>8. ASSUME NEW q \in late, LateBack(q) PROVE Unmarked'
  BY <1>8, <1>b DEF LateBack, absorb_sign, Running
<1>9. ASSUME NEW q \in Pair, sign_one(q[1], q[2]) PROVE Unmarked'
  <2>1. PICK u \in User, r \in Rollcall : q = <<u, r>> /\ sign_one(u, r)
    BY <1>9 DEF Pair
  <2>2. task[<<u, r>>] \in Running
    BY <2>1, SignOneTask
  <2>3. \A x \in Pair : task'[x] \in Running => task[x] \in Running
    BY <1>b, <2>1, <2>2, SignOneTask
  <2>4. UNCHANGED <<SIGNED_MARK, pc, others, current>>
    BY <2>1 DEF sign_one
  <2> QED BY <2>3, <2>4
<1> QED
  BY <1>1, <1>2, <1>3, <1>4, <1>5, <1>6, <1>7, <1>8, <1>9 DEF Next, Tick

-----------------------------------------------------------------------------
\* The invariants, together inductive.
SafeInv == TypeOK /\ Started /\ Opened /\ Justified /\ Awaited /\ Unmarked

\* They hold at the start ...
LEMMA SafeInit == Init => SafeInv
<1> SUFFICES ASSUME Init PROVE SafeInv
  OBVIOUS
<1> USE DEF Init
<1>1. TypeOK
  <2>1. all_courses_of \in [{} -> SUBSET Course] /\ {} \in SUBSET User
    OBVIOUS
  <2>2. \E known \in SUBSET User : all_courses_of \in [known -> SUBSET Course]
    BY <2>1
  <2>3. scouts \in Seq(User)
    BY EmptySeq
  <2>4. /\ SCOUT_DUTY \in [User -> 0..MaxTicks] /\ TICK_SEQ \in 0..MaxTicks
        /\ upsets \in 0..MaxUpsets
    BY TimeSignAssumption
  <2>5. /\ indexed \subseteq User /\ by_qq \in [User -> SUBSET Course]
        /\ request \in [User -> [Course -> {"none", "live", "dead"}]]
        /\ client \in [User -> {"none", "live", "dead"}]
        /\ courses_of \in [User -> SUBSET Course] /\ seen \in [User -> SUBSET Rollcall]
    OBVIOUS
  <2>6. /\ rollcall \in [Rollcall -> {"none", "open", "closed"}]
        /\ found \in [Rollcall -> User \cup {Nobody}]
        /\ task \in [Pair -> {"no"} \cup Running \cup Outcome]
        /\ polled \in [User -> {"no", "ok", "failed"}] /\ WARM_STATE \in [User -> {"none", "ok", "bad"}]
    OBVIOUS
  <2> QED BY <2>2, <2>3, <2>4, <2>5, <2>6 DEF TypeOK
<1>2. Started /\ Awaited /\ Unmarked
  BY DEF Started, Awaited, Unmarked, Pair, Running
<1>3. Opened /\ Justified
  BY DEF Opened, Justified, Pair
<1> QED BY <1>1, <1>2, <1>3 DEF SafeInv

\* ... and every step keeps them ...
LEMMA SafeInductive == SafeInv /\ [Next]_vars => SafeInv'
<1> SUFFICES ASSUME SafeInv, [Next]_vars PROVE SafeInv'
  OBVIOUS
<1>1. TypeOK'
  BY TypeInductive DEF SafeInv
<1> QED BY <1>1, StartedInductive, OpenedInductive, JustifiedInductive, AwaitedInductive,
           UnmarkedInductive DEF SafeInv

\* ... so they always hold.
LEMMA SafeAlways == Spec => []SafeInv
BY SafeInit, SafeInductive, PTL DEF Spec

(***************************************************************************)
(* The variables keep their types: no tick is numbered past the last, and  *)
(* whatever a tick plans, sees or dispatches are users and roll calls.     *)
(***************************************************************************)
THEOREM TypeCorrect == Spec => []TypeOK
<1>1. SafeInv => TypeOK
  BY DEF SafeInv
<1> QED BY <1>1, SafeAlways, PTL

(***************************************************************************)
(* Whoever is marked is present, or the roll call is closed or of a course *)
(* he does not take: "only what the server confirms is booked".            *)
(***************************************************************************)
THEOREM MarksAreJust == Spec => []MarkIsJust
<1>1. SafeInv => MarkIsJust
  BY DEF SafeInv, TypeOK, Justified, Just, MarkIsJust
<1> QED BY <1>1, SafeAlways, PTL

(***************************************************************************)
(* Nothing is asked of the server for what is settled, by the tick or by a *)
(* leader it no longer waits for, and nothing outside a dispatch.          *)
(***************************************************************************)
THEOREM SettledStaysAlone == Spec => []SettledIsLeftAlone
<1>1. SafeInv => SettledIsLeftAlone
  BY DEF SafeInv, Awaited, Unmarked, Running, SettledIsLeftAlone
<1> QED BY <1>1, SafeAlways, PTL

\* A rota sends nobody for what somebody less lately on duty covers.
LEMMA RotaIsFair ==
  ASSUME TypeOK, NEW watched \in [User -> SUBSET Course], NEW rota \in Rotas(watched),
         NEW u \in Listed(rota), NEW v \in active \ Listed(rota),
         watched[u] # {}, watched[u] \subseteq watched[v]
  PROVE  SCOUT_DUTY[v] >= SCOUT_DUTY[u]
<1>0. active \subseteq User /\ u \in User /\ v \in User
  <2>1. active \subseteq User
    BY DEF TypeOK
  <2>2. rota \in Seq(User)
    BY <2>1, RotaParts
  <2> QED BY <2>1, <2>2, ElementOfSeq DEF Listed
<1>1. PICK t \in Seq(User) :
        /\ IsRota(watched, t) /\ Listed(t) \subseteq Listed(rota)
        /\ \A w \in Listed(rota) \ Listed(t) : watched[w] = {}
  BY <1>0, RotaParts
<1>2. u \in Listed(t) /\ v \notin Listed(t)
  BY <1>1
<1>3. PICK i \in 1..Len(t) : u = t[i]
  BY <1>2 DEF Listed
<1> DEFINE earlier == {t[j] : j \in 1..(i - 1)}
           adds == [w \in User |-> watched[w] \ UNION {watched[x] : x \in earlier}]
<1>4. adds[u] # {} /\ \A w \in active \ earlier : adds[w] # {} => Better(adds, u, w)
  BY <1>1, <1>3 DEF IsRota
<1>5. v \in active \ earlier
  <2>1. Len(t) \in Nat
    BY LenProperties
  <2>2. earlier \subseteq Listed(t)
    BY <2>1 DEF Listed
  <2> QED BY <1>2, <2>2
<1>6. adds[v] # {}
  BY <1>0, <1>4
<1>7. Better(adds, u, v)
  BY <1>4, <1>5, <1>6
<1>8. SCOUT_DUTY[u] \in Nat /\ SCOUT_DUTY[v] \in Nat
  BY <1>0, TimeSignAssumption DEF TypeOK
<1> HIDE DEF adds
<1> QED BY <1>7, <1>8 DEF Better

(***************************************************************************)
(* Duty rotates, for any timetable and any index: nobody is sent for       *)
(* courses that a user who has rested longer could all have covered and    *)
(* who stays at home (plan_tick).                                          *)
(***************************************************************************)
THEOREM DutyAlwaysRotates == Spec => DutyRotates
<1>1. ASSUME SafeInv, [Next]_vars, pc = "warm", pc' = "scouting",
             NEW u \in Listed(scouts'), NEW v \in active \ Listed(scouts'),
             courses_of'[u] # {}, courses_of'[u] \subseteq courses_of'[v]
      PROVE  SCOUT_DUTY[v] >= SCOUT_DUTY[u]
  <2>1. PICK insession \in [User -> SUBSET Course] : Plan(insession)
    <3>1. CASE Environment \/ UNCHANGED vars \/ \E users \in SUBSET User : TickBegin(users)
      BY <1>1, <3>1 DEF Environment, Opens, Closes, SessionEnds, LogsInAgain, Upserted, vars, TickBegin
    <3>2. CASE \E p \in Pair : sign_one(p[1], p[2])
      BY <1>1, <3>2 DEF sign_one
    <3>3. CASE Tick
      BY <1>1, <3>3 DEF Tick, WarmUp, NobodyWarm, Poll, AbsorbScouts, AbsorbBackups, PassOver, Lead,
         LeaderBack, LeaderSlow, OthersBack, LateBack, AllBack, send_reports
    <3> QED BY <1>1, <3>1, <3>2, <3>3 DEF Next
  <2>2. TypeOK /\ TypeOK'
    BY <1>1, SafeInductive DEF SafeInv
  <2>3. courses_of' \in [User -> SUBSET Course] /\ scouts' \in Rotas(courses_of')
    BY <2>1, <2>2 DEF Plan, TypeOK
  <2> QED BY <1>1, <2>2, <2>3, RotaIsFair
<1>2. SafeInv /\ [Next]_vars =>
        ((pc = "warm" /\ pc' = "scouting") =>
           \A u \in Listed(scouts'), v \in active \ Listed(scouts') :
             courses_of'[u] # {} /\ courses_of'[u] \subseteq courses_of'[v]
               => SCOUT_DUTY[v] >= SCOUT_DUTY[u])
  BY <1>1
<1> QED BY <1>2, SafeAlways, PTL DEF Spec, DutyRotates

-----------------------------------------------------------------------------
(***************************************************************************)
(* Polling on behalf of others misses nobody: NobodyIsMissed of TimeSign,  *)
(* for any users, courses and roll calls and any number of ticks.  The     *)
(* argument follows a roll call through a tick without trouble: it is on   *)
(* the list of a scout who answered, or of a backup; so it is found; so    *)
(* everybody the index has under its course signs in it, or is marked; and *)
(* whoever came back settled is marked, and a mark is just.                *)
(***************************************************************************)

Abroad == pc \in {"scouting", "backup"}
Landed == pc \in {"dispatch", "leader", "others", "report"}

\* Somebody who has not failed watches the course of the roll call.
LookedAfter(r) == \E v \in active \ Failed : course_of[r] \in courses_of[v]

\* The roll call is one of the courses the index had for the user.
Due(u, r) ==
  /\ u \in DOMAIN all_courses_of
  /\ course_of[r] \in takes[u] \cap all_courses_of[u]

\* Only scouts that were polled have seen something, and only while they are out.
SeenByScouts ==
  /\ pc \in {"idle", "warm"} => \A u \in User : polled[u] = "no"
  /\ \A u \in User : seen[u] # {} => Abroad /\ u \in Listed(scouts) /\ polled[u] = "ok"

\* A user watches courses he takes, and the index never loses one of these.
IndexKeeps ==
  /\ \A u \in User : courses_of[u] \subseteq takes[u]
  /\ \A u \in DOMAIN all_courses_of :
       u \in active \cap indexed /\ all_courses_of[u] \cap takes[u] \subseteq by_qq[u]

\* As long as there was no trouble no sign-in came back but settled ...
Clean == ~trouble => \A p \in Pair : task[p] \in {"no", "cached", "settled"}

\* ... what an answering scout had on his list is seen or found ...
Reported ==
  (Abroad /\ ~trouble) =>
    \A u \in User, r \in Rollcall :
      polled[u] = "ok" /\ Lists(u, r) => r \in seen[u] \/ found[r] # Nobody

\* ... what the scouts missed a backup looks at ...
BackedUp ==
  (pc = "backup" /\ ~trouble) =>
    /\ \A u \in Listed(scouts) : polled[u] # "failed"
    /\ \A r \in Rollcall : rollcall[r] = "open" /\ LookedAfter(r) =>
         \/ found[r] # Nobody
         \/ \E u \in Listed(scouts) : course_of[r] \in courses_of[u]

\* ... so that every open roll call somebody watched over is found ...
FoundAll ==
  (Landed /\ ~trouble) =>
    \A r \in Rollcall : rollcall[r] = "open" /\ LookedAfter(r) => found[r] # Nobody

\* ... and whoever it concerns is marked, signs, or follows his leader.
Served(u, r) ==
  \/ <<u, r>> \in SIGNED_MARK
  \/ task[<<u, r>>] # "no"
  \/ pc = "leader" /\ r = current /\ u \in others
AllServed ==
  (Landed /\ ~trouble) =>
    \A u \in active, r \in Rollcall :
      /\ Due(u, r) /\ found[r] # Nobody
      /\ r \in todo => pc \in {"leader", "others"} /\ r = current
      => Served(u, r)

-----------------------------------------------------------------------------
\* What was seen was seen by scouts who are out.
LEMMA SeenInductive == TypeOK /\ SeenByScouts /\ [Next]_vars => SeenByScouts'
<1> SUFFICES ASSUME TypeOK, SeenByScouts, [Next]_vars PROVE SeenByScouts'
  OBVIOUS
<1> USE DEF plan, gather, SeenByScouts, Abroad
<1>1. CASE Environment \/ UNCHANGED vars \/ \E users \in SUBSET User : TickBegin(users)
  BY <1>1 DEF Environment, Opens, Closes, SessionEnds, LogsInAgain, Upserted, vars, TickBegin
<1>2. CASE \/ \E u \in unwarmed : WarmUp(u)
           \/ NobodyWarm \/ AllBack \/ LeaderBack \/ LeaderSlow \/ OthersBack
           \/ \E r \in todo : PassOver(r) \/ \E u \in User : Lead(r, u)
           \/ \E p \in late : LateBack(p)
           \/ \E p \in Pair : sign_one(p[1], p[2])
  BY <1>2 DEF WarmUp, NobodyWarm, AllBack, LeaderBack, LeaderSlow, OthersBack, PassOver, Lead, LateBack, sign_one
<1>3. ASSUME NEW insession \in [User -> SUBSET Course], Plan(insession) PROVE SeenByScouts'
  BY <1>3 DEF Plan
<1>4. ASSUME NEW u \in Listed(scouts), Poll(u) PROVE SeenByScouts'
  <2>1. u \in User /\ DOMAIN seen = User /\ DOMAIN polled = User
    BY ElementOfSeq DEF TypeOK, Listed
  <2>2. pc' = pc /\ scouts' = scouts /\ pc \in {"scouting", "backup"} /\ polled[u] = "no"
    BY <1>4 DEF Poll
  <2>3. \/ seen' = seen /\ \E s \in {"ok", "failed"} : polled' = [polled EXCEPT ![u] = s]
        \/ /\ \E S : seen' = [seen EXCEPT ![u] = S]
           /\ polled' = [polled EXCEPT ![u] = "ok"]
    BY <1>4 DEF Poll
  <2>4. seen[u] = {}
    BY <2>1, <2>2
  <2> QED BY <1>4, <2>1, <2>2, <2>3, <2>4
<1>5. CASE AbsorbScouts \/ AbsorbBackups
  BY <1>5 DEF AbsorbScouts, AbsorbBackups, Absorb
<1>6. CASE send_reports
  BY <1>6 DEF send_reports
<1> QED BY <1>1, <1>2, <1>3, <1>4, <1>5, <1>6 DEF Next, Tick

\* A user watches courses he takes; the index keeps those it had.
LEMMA IndexKeepsInductive == TypeOK /\ IndexKeeps /\ [Next]_vars => IndexKeeps'
<1> SUFFICES ASSUME TypeOK, IndexKeeps, [Next]_vars PROVE IndexKeeps'
  OBVIOUS
<1> USE DEF plan, index, IndexKeeps
<1>1. ASSUME NEW u \in User, Upserted(u) PROVE IndexKeeps'
  <2>1. UNCHANGED <<courses_of, all_courses_of, active>> /\ indexed \subseteq indexed'
    BY <1>1 DEF Upserted
  <2>2. by_qq' = by_qq \/ by_qq' = [by_qq EXCEPT ![u] = takes[u]]
    BY <1>1 DEF Upserted
  <2>3. DOMAIN by_qq = User /\ active \subseteq User
    BY DEF TypeOK
  <2>4. \A v \in User : by_qq[v] \cap takes[v] \subseteq by_qq'[v]
    BY <2>2, <2>3
  <2> QED BY <2>1, <2>3, <2>4
<1>2. ASSUME NEW insession \in [User -> SUBSET Course], Plan(insession) PROVE IndexKeeps'
  BY <1>2 DEF Plan
<1>3. CASE send_reports
  BY <1>3 DEF send_reports
<1>4. CASE \/ \E u \in unwarmed : WarmUp(u)
           \/ NobodyWarm
  <2>1. UNCHANGED <<courses_of, all_courses_of, by_qq, indexed>> /\ active \subseteq active'
    BY <1>4 DEF WarmUp, NobodyWarm
  <2> QED BY <2>1
<1>5. CASE \/ AllBack \/ LeaderBack \/ LeaderSlow \/ OthersBack \/ AbsorbScouts \/ AbsorbBackups
           \/ \E u \in Listed(scouts) : Poll(u)
           \/ \E r \in todo : PassOver(r) \/ \E u \in User : Lead(r, u)
           \/ \E p \in late : LateBack(p)
           \/ \E p \in Pair : sign_one(p[1], p[2])
  BY <1>5 DEF AllBack, LeaderBack, LeaderSlow, OthersBack, AbsorbScouts, AbsorbBackups,
     Poll, PassOver, Lead, LateBack, sign_one
<1>6. CASE \/ \E r \in Rollcall : Opens(r) \/ Closes(r)
           \/ \E u \in User : SessionEnds(u) \/ LogsInAgain(u)
           \/ UNCHANGED vars \/ \E users \in SUBSET User : TickBegin(users)
  BY <1>6 DEF Opens, Closes, SessionEnds, LogsInAgain, vars, TickBegin
<1> QED BY <1>1, <1>2, <1>3, <1>4, <1>5, <1>6 DEF Next, Tick, Environment

\* Trouble is forgotten by the end of the tick only.
LEMMA TroubleStays ==
  ASSUME [Next]_vars, ~send_reports, TypeOK, trouble PROVE trouble'
<1>0. trouble \in BOOLEAN
  BY DEF TypeOK
<1>1. CASE Environment \/ UNCHANGED vars \/ \E users \in SUBSET User : TickBegin(users)
  BY <1>1 DEF Environment, Opens, Closes, SessionEnds, LogsInAgain, Upserted, vars, TickBegin
<1>2. CASE \E p \in Pair : sign_one(p[1], p[2])
  BY <1>2 DEF sign_one
<1>3. CASE Tick
  BY <1>3 DEF Tick, WarmUp, NobodyWarm, Plan, Poll, AbsorbScouts, AbsorbBackups, PassOver, Lead,
     LeaderBack, LeaderSlow, OthersBack, LateBack, AllBack
<1> QED BY <1>1, <1>2, <1>3 DEF Next

\* Without trouble a sign-in came back settled, or goes on with its first try.
LEMMA SignOneClean ==
  ASSUME TypeOK, NEW u \in User, NEW r \in Rollcall, sign_one(u, r),
         task[<<u, r>>] \in {"no", "cached", "settled"}
  PROVE  task'[<<u, r>>] = "settled" \/ trouble'
<1>1. task[<<u, r>>] = "cached" /\ <<u, r>> \in DOMAIN task
  BY SignOneTask DEF Running, TypeOK, Pair
<1>2. CASE \E s \in Outcome : task' = [task EXCEPT ![<<u, r>>] = s] /\ trouble' = (trouble \/ s # "settled")
  <2>1. PICK s \in Outcome : task' = [task EXCEPT ![<<u, r>>] = s] /\ trouble' = (trouble \/ s # "settled")
    BY <1>2
  <2>2. CASE s = "settled"
    BY <1>1, <2>1, <2>2
  <2>3. CASE s # "settled"
    BY <2>1, <2>3
  <2> QED BY <2>2, <2>3
<1>3. CASE trouble' = TRUE
  BY <1>3
<1> QED BY <1>1, <1>2, <1>3 DEF sign_one

\* Without trouble no sign-in came back but settled.
LEMMA CleanInductive == TypeOK /\ Awaited /\ Clean /\ [Next]_vars => Clean'
<1> SUFFICES ASSUME TypeOK, Awaited, Clean, [Next]_vars, ~trouble', NEW p \in Pair
             PROVE  task'[p] \in {"no", "cached", "settled"}
  BY DEF Clean
<1>b. task \in [Pair -> {"no"} \cup Running \cup Outcome]
  BY DEF TypeOK
<1> USE DEF signing
<1>1. CASE send_reports
  <2>1. task' = task /\ task[p] = "no"
    BY <1>1 DEF send_reports, Awaited
  <2> QED BY <2>1
<1>2. CASE ~send_reports
  <2>a. task[p] \in {"no", "cached", "settled"}
    BY <1>2, TroubleStays DEF Clean
  <2>1. CASE \/ LeaderBack \/ LeaderSlow \/ OthersBack
             \/ \E r \in todo : PassOver(r) \/ \E u \in User : Lead(r, u)
             \/ \E q \in late : LateBack(q)
    BY <1>b, <2>a, <2>1 DEF LeaderBack, LeaderSlow, OthersBack, PassOver, Lead, LateBack, Follow
  <2>2. CASE \E q \in Pair : sign_one(q[1], q[2])
    <3>1. PICK u \in User, r \in Rollcall : sign_one(u, r)
      BY <2>2 DEF Pair
    <3>2. CASE p = <<u, r>>
      BY <2>a, <3>1, <3>2, SignOneClean
    <3>3. CASE p # <<u, r>>
      BY <1>b, <2>a, <3>1, <3>3, SignOneTask
    <3> QED BY <3>2, <3>3
  <2>3. CASE Environment \/ UNCHANGED vars \/ \E users \in SUBSET User : TickBegin(users)
    BY <2>a, <2>3 DEF Environment, Opens, Closes, SessionEnds, LogsInAgain, Upserted, vars, TickBegin
  <2>4. CASE \/ \E u \in unwarmed : WarmUp(u)
             \/ \E insession \in [User -> SUBSET Course] : Plan(insession)
             \/ \E u \in Listed(scouts) : Poll(u)
             \/ NobodyWarm \/ AbsorbScouts \/ AbsorbBackups \/ AllBack
    BY <2>a, <2>4 DEF WarmUp, Plan, Poll, NobodyWarm, AbsorbScouts, AbsorbBackups, AllBack
  <2> QED BY <1>2, <2>1, <2>2, <2>3, <2>4 DEF Next, Tick
<1> QED BY <1>1, <1>2

-----------------------------------------------------------------------------
\* What a scout saw, or was found before, is found when they are back.
LEMMA FoundWhenSeen ==
  ASSUME TypeOK, SeenByScouts, Absorb, NEW r \in Rollcall,
         found[r] # Nobody \/ \E u \in User : r \in seen[u]
  PROVE  found'[r] # Nobody
<1> DEFINE who == {i \in 1..Len(scouts) : polled[scouts[i]] = "ok" /\ r \in seen[scouts[i]]}
<1>1. found'[r] = FirstToSee(r)
  BY DEF Absorb
<1>2. CASE found[r] # Nobody
  BY <1>1, <1>2 DEF FirstToSee
<1>3. CASE found[r] = Nobody
  <2>1. PICK u \in User : r \in seen[u]
    BY <1>3
  <2>2. u \in Listed(scouts) /\ polled[u] = "ok"
    BY <2>1 DEF SeenByScouts
  <2>3. who # {}
    BY <2>1, <2>2 DEF Listed
  <2>4. Len(scouts) \in Nat
    BY LenProperties DEF TypeOK
  <2>5. who \in SUBSET Nat
    BY <2>4
  <2>6. \E i \in who : \A j \in who : i <= j
    BY <2>3, <2>5, HasLeast
  <2>7. (CHOOSE i \in who : \A j \in who : i <= j) \in 1..Len(scouts)
    BY <2>6
  <2>8. scouts[CHOOSE i \in who : \A j \in who : i <= j] \in User
    BY <2>7, ElementOfSeq DEF TypeOK
  <2> QED BY <1>1, <1>3, <2>3, <2>8, TimeSignAssumption DEF FirstToSee
<1> QED BY <1>2, <1>3

\* Steps that neither move the tick on from its scouts or to them, nor open a
\* roll call.
LEMMA OtherSteps ==
  ASSUME TypeOK, [Next]_vars, ~trouble', Abroad \/ Landed,
         ~AbsorbScouts, ~AbsorbBackups, ~send_reports,
         \A u \in Listed(scouts) : ~Poll(u)
  PROVE  /\ ~trouble
         /\ UNCHANGED <<plan, scouts, polled, seen, found>>
         /\ Abroad => pc' = pc
         /\ Abroad' => Abroad /\ pc' = pc
         /\ Landed' <=> Landed
         /\ \A r \in Rollcall : rollcall'[r] = "open" => rollcall[r] = "open"
<1> USE DEF server, plan, gather, Abroad, Landed
<1>0. ~trouble /\ trouble \in BOOLEAN
  BY TroubleStays DEF TypeOK
<1>1. CASE \/ \E r \in Rollcall : Closes(r)
           \/ \E u \in User : SessionEnds(u) \/ LogsInAgain(u) \/ Upserted(u)
  BY <1>0, <1>1 DEF Closes, SessionEnds, LogsInAgain, Upserted, TypeOK
<1>2. CASE \E r \in Rollcall : Opens(r)
  BY <1>0, <1>2 DEF Opens
<1>3. CASE UNCHANGED vars \/ \E p \in Pair : sign_one(p[1], p[2])
  BY <1>0, <1>3 DEF vars, sign_one
<1>4. CASE \/ AllBack \/ LeaderBack \/ LeaderSlow \/ OthersBack
           \/ \E r \in todo : PassOver(r) \/ \E u \in User : Lead(r, u)
           \/ \E p \in late : LateBack(p)
  BY <1>0, <1>4 DEF AllBack, LeaderBack, LeaderSlow, OthersBack, PassOver, Lead, LateBack
<1>5. CASE \/ \E users \in SUBSET User : TickBegin(users)
           \/ \E u \in unwarmed : WarmUp(u)
           \/ NobodyWarm
           \/ \E insession \in [User -> SUBSET Course] : Plan(insession)
  BY <1>5 DEF TickBegin, WarmUp, NobodyWarm, Plan
<1> QED BY <1>1, <1>2, <1>3, <1>4, <1>5 DEF Next, Tick, Environment

\* What polling a scout changes.
LEMMA PollSteps ==
  ASSUME TypeOK, NEW u \in Listed(scouts), Poll(u)
  PROVE  /\ u \in User /\ Abroad /\ pc' = pc /\ polled[u] = "no"
         /\ UNCHANGED <<rollcall, plan, scouts, found>>
         /\ \E s \in {"ok", "failed"} : polled' = [polled EXCEPT ![u] = s]
         /\ pc = "backup" /\ polled'[u] = "failed" => trouble'
         /\ IF polled'[u] = "ok" THEN seen' = [seen EXCEPT ![u] = {r \in Rollcall : Lists(u, r)}]
                                 ELSE seen' = seen
<1>1. u \in User /\ DOMAIN polled = User /\ trouble \in BOOLEAN
  BY ElementOfSeq DEF TypeOK, Listed
<1>2. CASE /\ polled' = [polled EXCEPT ![u] = "ok"]
           /\ seen' = [seen EXCEPT ![u] = {r \in Rollcall : Lists(u, r)}]
  BY <1>1, <1>2 DEF Poll, Abroad, server, plan
<1>3. CASE /\ polled' = [polled EXCEPT ![u] = "failed"]
           /\ trouble' = (trouble \/ pc = "backup")
           /\ seen' = seen
  BY <1>1, <1>3 DEF Poll, Abroad, server, plan
<1> QED BY <1>2, <1>3 DEF Poll

\* What a scout who answered had on his list is seen or found.
LEMMA ReportedInductive ==
  TypeOK /\ SeenByScouts /\ Reported /\ [Next]_vars => Reported'
<1> SUFFICES ASSUME TypeOK, SeenByScouts, Reported, [Next]_vars, Abroad', ~trouble',
                    NEW u \in User, NEW r \in Rollcall, polled'[u] = "ok",
                    course_of[r] \in takes[u], rollcall'[r] = "open"
             PROVE  r \in seen'[u] \/ found'[r] # Nobody
  BY DEF Reported, Lists
<1>a. polled[u] = "ok" /\ rollcall[r] = "open" /\ Abroad /\ ~trouble
        => r \in seen[u] \/ found[r] # Nobody
  BY DEF Reported, Lists
<1>b. DOMAIN polled = User /\ DOMAIN seen = User
  BY DEF TypeOK
<1>1. CASE pc \in {"idle", "warm"}
  <2>1. polled[u] = "no"
    BY <1>1 DEF SeenByScouts
  <2>2. polled' = polled
    <3>1. CASE \/ \E users \in SUBSET User : TickBegin(users)
               \/ \E v \in unwarmed : WarmUp(v)
               \/ \E insession \in [User -> SUBSET Course] : Plan(insession)
               \/ NobodyWarm \/ UNCHANGED vars \/ Environment
               \/ \E p \in Pair : sign_one(p[1], p[2])
      BY <3>1 DEF TickBegin, WarmUp, Plan, NobodyWarm, vars, sign_one, Environment, Opens, Closes,
         SessionEnds, LogsInAgain, Upserted, gather
    <3>2. ~(\/ \E v \in Listed(scouts) : Poll(v)
            \/ \E x \in todo : PassOver(x) \/ \E v \in User : Lead(x, v)
            \/ \E p \in late : LateBack(p)
            \/ AbsorbScouts \/ AbsorbBackups \/ LeaderBack \/ LeaderSlow \/ OthersBack \/ AllBack
            \/ send_reports)
      BY <1>1 DEF Poll, PassOver, Lead, LateBack, AbsorbScouts, AbsorbBackups, LeaderBack, LeaderSlow,
         OthersBack, AllBack, send_reports
    <3> QED BY <3>1, <3>2 DEF Next, Tick
  <2> QED BY <2>1, <2>2
<1>2. CASE \E v \in Listed(scouts) : Poll(v)
  <2>1. PICK v \in Listed(scouts) : Poll(v)
    BY <1>2
  <2>2. ~trouble
    BY <2>1, TroubleStays DEF Poll, send_reports
  <2>3. CASE u = v
    <3>1. r \in seen'[u]
      BY <1>b, <2>1, <2>3, PollSteps DEF Lists
    <3> QED BY <3>1
  <2>4. CASE u # v
    <3>1. polled[u] = "ok" /\ seen'[u] = seen[u]
      BY <1>b, <2>1, <2>4, PollSteps
    <3> QED BY <1>a, <2>1, <2>2, <3>1, PollSteps
  <2> QED BY <2>3, <2>4
<1>3. CASE AbsorbScouts
  <2>1. Absorb /\ polled' = polled /\ rollcall' = rollcall /\ trouble' = trouble /\ Abroad
    BY <1>3 DEF AbsorbScouts, server, Abroad
  <2> QED BY <1>a, <2>1, FoundWhenSeen
<1>4. CASE AbsorbBackups \/ send_reports
  BY <1>4 DEF AbsorbBackups, send_reports, Abroad
<1>5. CASE /\ pc \notin {"idle", "warm"}
           /\ ~AbsorbScouts /\ ~AbsorbBackups /\ ~send_reports /\ \A v \in Listed(scouts) : ~Poll(v)
  <2>1. Abroad \/ Landed
    BY <1>5 DEF Abroad, Landed, TypeOK
  <2> QED BY <1>a, <1>5, <2>1, OtherSteps
<1> QED BY <1>1, <1>2, <1>3, <1>4, <1>5

\* Without trouble no backup failed, and one is sent wherever nothing was found.
LEMMA BackedUpInductive ==
  TypeOK /\ SeenByScouts /\ IndexKeeps /\ Reported /\ BackedUp /\ [Next]_vars => BackedUp'
<1> SUFFICES ASSUME TypeOK, SeenByScouts, IndexKeeps, Reported, BackedUp, [Next]_vars,
                    pc' = "backup", ~trouble'
             PROVE  /\ \A u \in Listed(scouts') : polled'[u] # "failed"
                    /\ \A r \in Rollcall : rollcall'[r] = "open" /\ LookedAfter(r)' =>
                         \/ found'[r] # Nobody
                         \/ \E u \in Listed(scouts') : course_of[r] \in courses_of'[u]
  BY DEF BackedUp
<1> DEFINE Goal == /\ \A u \in Listed(scouts') : polled'[u] # "failed"
                   /\ \A r \in Rollcall : rollcall'[r] = "open" /\ LookedAfter(r)' =>
                        \/ found'[r] # Nobody
                        \/ \E u \in Listed(scouts') : course_of[r] \in courses_of'[u]
<1>1. CASE AbsorbScouts
  <2> DEFINE lost == Watched \ UNION {courses_of[u] : u \in Good}
  <2>1. /\ Absorb /\ pc = "scouting" /\ scouts' \in Backups(lost)
        /\ UNCHANGED <<rollcall, polled, active, courses_of>> /\ trouble' = trouble
    BY <1>1 DEF AbsorbScouts, server, plan
  <2>2. active \subseteq User
    BY DEF TypeOK
  <2>3. \A u \in Listed(scouts') : u \in active \ Failed
    <3> DEFINE fit == {u \in active \ Failed : courses_of[u] \cap lost # {}}
    <3>1. PICK S \in SUBSET fit : scouts' \in Orders(S)
      BY <2>1 DEF Backups
    <3>2. S \in SUBSET User
      BY <2>2
    <3> QED BY <3>1, <3>2, OrderIsSeq
  <2>4. \A u \in Listed(scouts') : polled'[u] # "failed"
    BY <2>1, <2>2, <2>3 DEF Failed
  <2>5. ASSUME NEW r \in Rollcall, rollcall'[r] = "open", LookedAfter(r)'
        PROVE  \/ found'[r] # Nobody
               \/ \E u \in Listed(scouts') : course_of[r] \in courses_of'[u]
    <3>1. PICK v \in active \ Failed : course_of[r] \in courses_of[v]
      BY <2>1, <2>5 DEF LookedAfter, Failed
    <3>2. CASE course_of[r] \in lost
      BY <2>1, <3>1, <3>2 DEF Backups
    <3>3. CASE course_of[r] \notin lost
      <4>1. PICK u \in Good : course_of[r] \in courses_of[u]
        BY <3>1, <3>3 DEF Watched
      <4>2. u \in User /\ polled[u] = "ok"
        BY <4>1, ElementOfSeq DEF Good, Listed, TypeOK
      <4>3. Lists(u, r)
        BY <2>1, <2>5, <4>1, <4>2 DEF IndexKeeps, Lists
      <4>4. r \in seen[u] \/ found[r] # Nobody
        BY <2>1, <4>2, <4>3 DEF Reported, Abroad
      <4> QED BY <2>1, <4>2, <4>4, FoundWhenSeen
    <3> QED BY <3>2, <3>3
  <2> QED BY <2>4, <2>5
<1>2. CASE \E v \in Listed(scouts) : Poll(v)
  <2>1. PICK v \in Listed(scouts) : Poll(v)
    BY <1>2
  <2>2. ~trouble /\ pc = "backup"
    BY <2>1, TroubleStays, PollSteps DEF Poll, send_reports
  <2>3. /\ DOMAIN polled = User /\ polled[v] = "no" /\ polled'[v] = "ok" /\ v \in User
        /\ polled' = [polled EXCEPT ![v] = "ok"]
    <3>1. DOMAIN polled = User
      BY DEF TypeOK
    <3> QED BY <2>1, <2>2, <3>1, PollSteps
  <2>4. UNCHANGED <<rollcall, active, courses_of, scouts, found>>
    BY <2>1, PollSteps DEF plan
  <2>5. Failed' = Failed
    BY <2>3 DEF Failed
  <2> QED BY <2>2, <2>3, <2>4, <2>5 DEF BackedUp, LookedAfter
<1>3. CASE AbsorbBackups \/ send_reports
  BY <1>3 DEF AbsorbBackups, send_reports
<1>4. CASE pc \in {"idle", "warm"}
  BY <1>4 DEF Next, Tick, TickBegin, WarmUp, NobodyWarm, Plan, Poll, AbsorbScouts, AbsorbBackups, PassOver,
     Lead, LeaderBack, LeaderSlow, OthersBack, LateBack, AllBack, send_reports, sign_one, Environment,
     Opens, Closes, SessionEnds, LogsInAgain, Upserted, vars
<1>5. CASE /\ pc \notin {"idle", "warm"}
           /\ ~AbsorbScouts /\ ~AbsorbBackups /\ ~send_reports /\ \A v \in Listed(scouts) : ~Poll(v)
  <2>1. Abroad \/ Landed
    BY <1>5 DEF Abroad, Landed, TypeOK
  <2>2. /\ ~trouble /\ pc = "backup" /\ UNCHANGED <<plan, scouts, polled, found>>
        /\ \A r \in Rollcall : rollcall'[r] = "open" => rollcall[r] = "open"
    BY <1>5, <2>1, OtherSteps DEF Abroad
  <2> QED BY <2>2 DEF BackedUp, LookedAfter, Failed, plan
<1> QED BY <1>1, <1>2, <1>3, <1>4, <1>5

\* Without trouble every open roll call somebody watched over is found.
LEMMA FoundAllInductive ==
  TypeOK /\ SeenByScouts /\ IndexKeeps /\ Reported /\ BackedUp /\ FoundAll /\ [Next]_vars => FoundAll'
<1> SUFFICES ASSUME TypeOK, SeenByScouts, IndexKeeps, Reported, BackedUp, FoundAll, [Next]_vars,
                    Landed', ~trouble', NEW r \in Rollcall, rollcall'[r] = "open", LookedAfter(r)'
             PROVE  found'[r] # Nobody
  BY DEF FoundAll
<1>1. CASE AbsorbScouts
  <2> DEFINE lost == Watched \ UNION {courses_of[u] : u \in Good}
  <2>1. /\ Absorb /\ pc = "scouting" /\ scouts' \in Backups(lost) /\ scouts' = <<>>
        /\ UNCHANGED <<rollcall, polled, active, courses_of>> /\ trouble' = trouble
    BY <1>1 DEF AbsorbScouts, server, plan, Landed
  <2>2. PICK v \in active \ Failed : course_of[r] \in courses_of[v]
    BY <2>1 DEF LookedAfter, Failed
  <2>3. course_of[r] \notin lost
    <3>1. Listed(<<>>) = {}
      BY DEF Listed
    <3> QED BY <2>1, <2>2, <3>1 DEF Backups
  <2>4. PICK u \in Good : course_of[r] \in courses_of[u]
    BY <2>2, <2>3 DEF Watched
  <2>5. u \in User /\ polled[u] = "ok"
    BY <2>4, ElementOfSeq DEF Good, Listed, TypeOK
  <2>6. Lists(u, r)
    BY <2>1, <2>4, <2>5 DEF IndexKeeps, Lists
  <2>7. r \in seen[u] \/ found[r] # Nobody
    BY <2>1, <2>5, <2>6 DEF Reported, Abroad
  <2> QED BY <2>1, <2>5, <2>7, FoundWhenSeen
<1>2. CASE AbsorbBackups
  <2>1. /\ Absorb /\ pc = "backup" /\ \A u \in Listed(scouts) : polled[u] # "no"
        /\ UNCHANGED <<rollcall, polled, active, courses_of>> /\ trouble' = trouble
    BY <1>2 DEF AbsorbBackups, Absorb, server, plan
  <2>2. found[r] # Nobody \/ \E u \in Listed(scouts) : course_of[r] \in courses_of[u]
    BY <2>1 DEF BackedUp, LookedAfter, Failed
  <2>3. CASE found[r] # Nobody
    BY <2>1, <2>3, FoundWhenSeen
  <2>4. ASSUME NEW u \in Listed(scouts), course_of[r] \in courses_of[u]
        PROVE  found'[r] # Nobody
    <3>1. u \in User /\ polled[u] = "ok"
      <4>1. u \in User
        BY ElementOfSeq DEF Listed, TypeOK
      <4>2. polled[u] \in {"no", "ok", "failed"}
        BY <4>1 DEF TypeOK
      <4> QED BY <2>1, <4>1, <4>2 DEF BackedUp
    <3>2. Lists(u, r)
      BY <2>1, <2>4, <3>1 DEF IndexKeeps, Lists
    <3>3. r \in seen[u] \/ found[r] # Nobody
      BY <2>1, <3>1, <3>2 DEF Reported, Abroad
    <3> QED BY <2>1, <3>1, <3>3, FoundWhenSeen
  <2> QED BY <2>2, <2>3, <2>4
<1>3. CASE send_reports \/ \E v \in Listed(scouts) : Poll(v)
  BY <1>3 DEF send_reports, Poll, Landed
<1>4. CASE pc \in {"idle", "warm"}
  BY <1>4 DEF Next, Tick, TickBegin, WarmUp, NobodyWarm, Plan, Poll, AbsorbScouts, AbsorbBackups, PassOver,
     Lead, LeaderBack, LeaderSlow, OthersBack, LateBack, AllBack, send_reports, sign_one, Environment,
     Opens, Closes, SessionEnds, LogsInAgain, Upserted, vars, Landed
<1>5. CASE /\ pc \notin {"idle", "warm"}
           /\ ~AbsorbScouts /\ ~AbsorbBackups /\ ~send_reports /\ \A v \in Listed(scouts) : ~Poll(v)
  <2>1. Abroad \/ Landed
    BY <1>5 DEF Abroad, Landed, TypeOK
  <2>2. /\ ~trouble /\ Landed /\ UNCHANGED <<plan, scouts, polled, found>>
        /\ rollcall[r] = "open"
    BY <1>5, <2>1, OtherSteps
  <2> QED BY <2>2 DEF FoundAll, LookedAfter, Failed, plan
<1> QED BY <1>1, <1>2, <1>3, <1>4, <1>5

\* Whoever a found roll call concerns is marked, signs, or follows his leader.
LEMMA AllServedInductive ==
  TypeOK /\ Started /\ Clean /\ IndexKeeps /\ AllServed /\ [Next]_vars => AllServed'
<1> SUFFICES ASSUME TypeOK, Started, Clean, IndexKeeps, AllServed, [Next]_vars, Landed', ~trouble',
                    NEW u \in active', NEW r \in Rollcall, Due(u, r)', found'[r] # Nobody,
                    r \in todo' => pc' \in {"leader", "others"} /\ r = current'
             PROVE  Served(u, r)'
  BY DEF AllServed
<1> USE DEF server, tables, plan, gather, signing
<1>1. CASE AbsorbScouts \/ AbsorbBackups
  BY <1>1 DEF AbsorbScouts, AbsorbBackups, Landed
<1>2. CASE send_reports \/ \E v \in Listed(scouts) : Poll(v)
  BY <1>2 DEF send_reports, Poll, Landed
<1>3. CASE pc \in {"idle", "warm"}
  BY <1>3 DEF Next, Tick, TickBegin, WarmUp, NobodyWarm, Plan, Poll, AbsorbScouts, AbsorbBackups, PassOver,
     Lead, LeaderBack, LeaderSlow, OthersBack, LateBack, AllBack, send_reports, sign_one, Environment,
     Opens, Closes, SessionEnds, LogsInAgain, Upserted, vars, Landed
<1>4. CASE /\ pc \notin {"idle", "warm"}
           /\ ~AbsorbScouts /\ ~AbsorbBackups /\ ~send_reports /\ \A v \in Listed(scouts) : ~Poll(v)
  <2>1. Abroad \/ Landed
    BY <1>4 DEF Abroad, Landed, TypeOK
  <2>2. /\ ~trouble /\ Landed /\ UNCHANGED <<plan, found>>
    BY <1>4, <2>1, OtherSteps
  <2>3. /\ u \in active /\ u \in User /\ Due(u, r) /\ found[r] # Nobody
        /\ <<u, r>> \in Pair
    BY <2>2 DEF Due, TypeOK, Pair
  <2>4. (r \in todo => pc \in {"leader", "others"} /\ r = current) => Served(u, r)
    BY <2>2, <2>3 DEF AllServed
  <2>5. task \in [Pair -> {"no"} \cup Running \cup Outcome]
    BY DEF TypeOK
  <2>6. \A p \in Pair : task[p] \in {"no", "cached", "settled"}
    BY <2>2 DEF Clean
  <2>7. u \in Targets(r) \/ <<u, r>> \in SIGNED_MARK
    BY <2>3 DEF Targets, qq_of_course, IndexKeeps, Due
  <2>8. ASSUME NEW x \in todo, PassOver(x) PROVE Served(u, r)'
    <3>1. Targets(x) = {}
      <4>1. trouble' = (trouble \/ Targets(x) # {})
        BY <2>8 DEF PassOver
      <4> QED BY <4>1
    <3>2. CASE x = r
      BY <2>7, <2>8, <3>1, <3>2 DEF Served, PassOver
    <3>3. CASE x # r
      BY <2>4, <2>8, <3>3 DEF Served, PassOver
    <3> QED BY <3>2, <3>3
  <2>9. ASSUME NEW x \in todo, NEW v \in User, Lead(x, v) PROVE Served(u, r)'
    <3>1. task' = [task EXCEPT ![<<v, x>>] = "cached"] /\ SIGNED_MARK' = SIGNED_MARK
      BY <2>9 DEF Lead
    <3>2. CASE x = r
      <4>1. CASE u = v
        BY <2>3, <2>5, <3>1, <3>2, <4>1 DEF Served
      <4>2. CASE u # v
        BY <2>7, <2>9, <3>2, <4>2 DEF Served, Lead
      <4> QED BY <4>1, <4>2
    <3>3. CASE x # r
      <4>1. Served(u, r) /\ pc = "dispatch"
        BY <2>4, <2>9, <3>3 DEF Lead
      <4>2. <<u, r>> \in SIGNED_MARK \/ task[<<u, r>>] # "no"
        BY <4>1 DEF Served
      <4> QED BY <2>3, <2>5, <3>1, <4>2 DEF Served
    <3> QED BY <3>2, <3>3
  <2>10. CASE LeaderBack
    <3>1. Served(u, r) /\ <<leader, current>> \in Pair /\ current \in Rollcall
      BY <2>4, <2>10 DEF LeaderBack, Started, Pair
    <3>2. task[<<leader, current>>] = "settled"
      BY <2>6, <2>10, <3>1 DEF LeaderBack, Outcome
    <3>3. SIGNED_MARK' = SIGNED_MARK \cup {<<leader, current>>}
      BY <2>10, <3>2 DEF LeaderBack, absorb_sign
    <3>4. CASE <<u, r>> = <<leader, current>>
      BY <3>3, <3>4 DEF Served
    <3>5. CASE u \in others /\ r = current
      BY <2>3, <2>10, <3>5 DEF LeaderBack, Follow, Served
    <3>6. CASE <<u, r>> # <<leader, current>> /\ ~(u \in others /\ r = current)
      <4>1. task'[<<u, r>>] = task[<<u, r>>]
        BY <2>3, <2>5, <2>10, <3>6 DEF LeaderBack, Follow
      <4> QED BY <3>1, <3>3, <3>6, <4>1 DEF Served
    <3> QED BY <3>4, <3>5, <3>6
  <2>11. CASE LeaderSlow
    <3>1. Served(u, r)
      BY <2>4, <2>11 DEF LeaderSlow
    <3> QED BY <2>3, <2>5, <2>11, <3>1 DEF LeaderSlow, Follow, Served
  <2>12. CASE OthersBack
    <3>1. Served(u, r) /\ pc = "others" /\ current \in Rollcall /\ others \subseteq User
      BY <2>4, <2>12 DEF OthersBack, Started, TypeOK
    <3>2. CASE <<u, r>> \in others \X {current}
      <4>1. task[<<u, r>>] = "settled"
        BY <2>3, <2>6, <2>12, <3>2 DEF OthersBack, Outcome
      <4> QED BY <2>12, <3>2, <4>1 DEF OthersBack, absorb_sign, Served
    <3>3. CASE <<u, r>> \notin others \X {current}
      BY <2>3, <2>12, <3>1, <3>3 DEF OthersBack, absorb_sign, Served
    <3> QED BY <3>2, <3>3
  <2>13. ASSUME NEW p \in late, LateBack(p) PROVE Served(u, r)'
    <3>1. Served(u, r) /\ pc = "dispatch"
      BY <2>4, <2>13 DEF LateBack
    <3>2. CASE p = <<u, r>>
      <4>1. task[p] = "settled"
        BY <2>3, <2>6, <2>13, <3>2 DEF LateBack, Outcome
      <4> QED BY <2>13, <3>2, <4>1 DEF LateBack, absorb_sign, Served
    <3>3. CASE p # <<u, r>>
      BY <2>3, <2>5, <2>13, <3>1, <3>3 DEF LateBack, absorb_sign, Served
    <3> QED BY <3>2, <3>3
  <2>14. CASE AllBack
    BY <2>4, <2>14 DEF AllBack, Served
  <2>15. CASE \E p \in Pair : sign_one(p[1], p[2])
    <3>1. PICK v \in User, x \in Rollcall : sign_one(v, x)
      BY <2>15 DEF Pair
    <3>2. UNCHANGED <<SIGNED_MARK, todo, pc, current, others>>
      BY <3>1 DEF sign_one
    <3>3. task[<<u, r>>] # "no" => task'[<<u, r>>] # "no"
      <4>1. PICK s \in {"recover", "retry"} \cup Outcome : task' = [task EXCEPT ![<<v, x>>] = s]
        BY <3>1, SignOneTask
      <4>2. s # "no"
        BY DEF Outcome
      <4> QED BY <2>3, <2>5, <4>1, <4>2
    <3> QED BY <2>4, <3>2, <3>3 DEF Served
  <2>16. CASE Environment \/ UNCHANGED vars
    BY <2>4, <2>16 DEF Environment, Opens, Closes, SessionEnds, LogsInAgain, Upserted, vars, Served
  <2>17. CASE \/ \E users \in SUBSET User : TickBegin(users)
              \/ \E v \in unwarmed : WarmUp(v)
              \/ NobodyWarm
              \/ \E insession \in [User -> SUBSET Course] : Plan(insession)
    BY <1>4, <2>17 DEF TickBegin, WarmUp, NobodyWarm, Plan
  <2> QED
    BY <1>4, <2>8, <2>9, <2>10, <2>11, <2>12, <2>13, <2>14, <2>15, <2>16, <2>17 DEF Next, Tick
<1> QED BY <1>1, <1>2, <1>3, <1>4

-----------------------------------------------------------------------------
\* The invariants of a tick without trouble, together inductive with the others.
QuietInv ==
  SafeInv /\ SeenByScouts /\ IndexKeeps /\ Clean /\ Reported /\ BackedUp /\ FoundAll /\ AllServed

\* They hold at the start ...
LEMMA QuietInit == Init => QuietInv
<1> SUFFICES ASSUME Init PROVE QuietInv
  OBVIOUS
<1>1. SeenByScouts /\ Clean /\ Reported /\ BackedUp /\ FoundAll /\ AllServed
  BY DEF Init, SeenByScouts, Clean, Reported, BackedUp, FoundAll, AllServed, Abroad, Landed
<1>2. IndexKeeps
  BY DEF Init, IndexKeeps
<1> QED BY <1>1, <1>2, SafeInit DEF QuietInv

\* ... and every step keeps them.
LEMMA QuietInductive == QuietInv /\ [Next]_vars => QuietInv'
<1> SUFFICES ASSUME QuietInv, [Next]_vars PROVE QuietInv'
  OBVIOUS
<1> QED BY SafeInductive, SeenInductive, IndexKeepsInductive, CleanInductive, ReportedInductive,
           BackedUpInductive, FoundAllInductive, AllServedInductive DEF QuietInv, SafeInv

\* At the end of the tick nobody signs any more, so all are marked.
LEMMA QuietMissesNobody == QuietInv => NobodyIsMissed
<1> SUFFICES ASSUME QuietInv, pc = "report", ~trouble, NEW u \in active, NEW r \in Rollcall,
                    u \in DOMAIN all_courses_of, course_of[r] \in takes[u] \cap all_courses_of[u],
                    \E v \in active \ Failed : course_of[r] \in courses_of[v],
                    rollcall[r] = "open"
             PROVE  <<u, r>> \in signed
  BY DEF NobodyIsMissed
<1> USE DEF QuietInv, SafeInv
<1>1. <<u, r>> \in Pair
  BY DEF TypeOK, Pair
<1>2. found[r] # Nobody
  BY DEF FoundAll, Landed, LookedAfter
<1>3. task[<<u, r>>] = "no"
  BY <1>1 DEF Awaited
<1>4. <<u, r>> \in SIGNED_MARK
  BY <1>2, <1>3 DEF AllServed, Landed, Served, Due, Started
<1> QED BY <1>1, <1>4 DEF Justified, Just

(***************************************************************************)
(* In a tick in which no backup and no sign-in failed, nothing was put off *)
(* and no roll call opened once the scouts had set out, whoever the index  *)
(* has under a course is present in its open roll call, if one user who    *)
(* watched the course had not failed (plan_tick, pick_backups, dispatch).  *)
(***************************************************************************)
THEOREM NobodyEverMissed == Spec => []NobodyIsMissed
BY QuietInit, QuietInductive, QuietMissesNobody, PTL DEF Spec
=============================================================================
