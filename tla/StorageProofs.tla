--------------------------- MODULE StorageProofs ----------------------------
(***************************************************************************)
(* Theorems about what rests on storage (MCStorage): the links on which    *)
(* passwords are set, the pages those guard, the pages rendered from       *)
(* Markdown and the vector store; for any keys, accounts, passwords,       *)
(* callers and items, any limits and any bounds.  Each of the four has an  *)
(* inductive invariant of its own; a behaviour of PartsSpec is one of them.*)
(***************************************************************************)
EXTENDS MCStorage, HotTableProofs, FiniteSetTheorems

-----------------------------------------------------------------------------
(* Links (SetupLink).                                                      *)

Saves(l) == {r \in Caller : req[r] # Links!Idle /\ req[r].link = l}

\* Only links that were made are looked up or held by a save.
LinksMade ==
  /\ \A l \in setups : setup[l] # Absent
  /\ \A r \in Caller : req[r] # Links!Idle => setup[req[r].link] # Absent

\* Saves of a link that never overlapped: there is one at a time, it stores
\* the only password, and after that the link cannot be saved on again.
OneSave(l) ==
  /\ \A r, o \in Saves(l) : r = o
  /\ \A r \in Saves(l) : saved[l] = IF req[r].op = "deriving" THEN 0 ELSE 1
  /\ saved[l] # 0 =>
       /\ saved[l] = 1 /\ setup[l] # Absent
       /\ Saves(l) # {} \/ l \notin setups \/ setup[l].used

\* A save that began has a good password, and a shared link was made.
LinksFit ==
  /\ \A r \in Caller : req[r].op = "deriving" => req[r].pw \in Strong \ Weak
  /\ \A l \in overlap : setup[l] # Absent

LinksInv == Links!TypeOK /\ LinksMade /\ LinksFit /\ \A l \in Key \ overlap : OneSave(l)

\* Nobody has saved on a link that was just made, or that does not exist.
LEMMA LinksInit == Links!Init => LinksInv
<1> SUFFICES ASSUME Links!Init PROVE LinksInv
  OBVIOUS
<1> USE DEF Links!Init
<1>1. Links!TypeOK
  BY StorageAssumption DEF Links!TypeOK, Links!Cold!TableType
<1>2. LinksMade
  BY DEF LinksMade
<1>3. \A l \in Key : OneSave(l)
  BY DEF OneSave, Saves
<1>4. LinksFit
  BY DEF LinksFit, Links!Idle
<1> QED BY <1>1, <1>2, <1>3, <1>4 DEF LinksInv

\* Types, with what a save and a link are made of.
LEMMA LinksTypes ==
  ASSUME Links!TypeOK
  PROVE  /\ \A r \in Caller : req[r] # Links!Idle =>
              /\ req[r].op \in {"deriving", "stored"} /\ req[r].link \in Key
              /\ req[r].pw \in Strong \cup Weak
         /\ \A r \in Caller : req[r].op \in {"deriving", "stored"} => req[r] # Links!Idle
         /\ \A l \in Key : setup[l] # Absent => setup[l] \in Links!Setup
         /\ \A l \in Key : saved[l] \in Nat
         /\ \A q \in Account : secret[q] \in Strong \cup Weak \cup {Absent}
BY DEF Links!TypeOK, Links!Saving, Links!Idle, Links!Cold!TableType

\* Every step of the setup links keeps their types.
LEMMA LinksTypeStep == LinksInv /\ Links!Next => Links!TypeOK'
<1> SUFFICES ASSUME LinksInv, Links!Next PROVE Links!TypeOK'
  OBVIOUS
<1>t. Links!TypeOK /\ LinksMade
  BY DEF LinksInv
<1> USE DEF Links!TypeOK
<1>1. CASE Links!Tick
  BY <1>1, <1>t, StorageAssumption DEF Links!Tick
<1>2. CASE Links!Restart
  BY <1>2, <1>t DEF Links!Restart
<1>3. ASSUME NEW l \in Key, Links!OpenSetup(l) PROVE Links!TypeOK'
  BY <1>3, <1>t DEF Links!OpenSetup
<1>4. ASSUME NEW l \in Key, NEW q \in Account, Links!CreateSetup(l, q) PROVE Links!TypeOK'
  <2>1. PICK s : setup' = [setup EXCEPT ![l] = [qq |-> q, refresh |-> s # Absent,
                             expire |-> now + SETUP_EXPIRE, used |-> FALSE]]
    BY <1>4 DEF Links!CreateSetup
  <2>2. now + SETUP_EXPIRE \in Nat
    BY <1>t, StorageAssumption
  <2>3. setup' \in [Key -> Links!Setup \cup {Absent}]
    BY <1>t, <2>1, <2>2 DEF Links!Setup
  <2> QED BY <1>4, <1>t, <2>3 DEF Links!CreateSetup
<1>5. ASSUME NEW r \in Caller, Links!StoreSecret(r) PROVE Links!TypeOK'
  <2>1. req[r] \in Links!Saving /\ req[r].op = "deriving" /\ req[r] # Links!Idle
    BY <1>5, <1>t DEF Links!StoreSecret, Links!Idle
  <2>2. req[r].link \in Key /\ req[r].pw \in Strong \cup Weak
    BY <2>1 DEF Links!Saving
  <2>4. [req[r] EXCEPT !.op = "stored"] \in Links!Saving
    BY <2>1 DEF Links!Saving
  <2>5. req' \in [Caller -> Links!Saving \cup {Links!Idle}]
    BY <1>5, <1>t, <2>4 DEF Links!StoreSecret
  <2>6. secret' \in Links!Cold!TableType
    BY <1>5, <1>t, <2>2 DEF Links!StoreSecret, Links!Cold!InsertOk, Links!Cold!WriteFails, Links!Cold!TableType
  <2>7. saved' \in [Key -> Nat]
    BY <1>5, <1>t, <2>2 DEF Links!StoreSecret
  <2> QED BY <1>5, <1>t, <2>5, <2>6, <2>7 DEF Links!StoreSecret
<1>6. ASSUME NEW r \in Caller, Links!SpendLink(r) PROVE Links!TypeOK'
  <2>1. req[r] # Links!Idle /\ req[r].link \in Key
    BY <1>6, <1>t DEF Links!SpendLink, Links!Idle, Links!Saving
  <2>2. setup[req[r].link] \in Links!Setup
    BY <1>t, <2>1 DEF LinksMade
  <2>3. [setup[req[r].link] EXCEPT !.used = TRUE] \in Links!Setup
    BY <2>2 DEF Links!Setup
  <2>4. setup' \in [Key -> Links!Setup \cup {Absent}]
    BY <1>6, <1>t, <2>1, <2>3 DEF Links!SpendLink
  <2> QED BY <1>6, <1>t, <2>4 DEF Links!SpendLink
<1>7. ASSUME NEW r \in Caller, NEW l \in Key, NEW pw \in Strong \cup Weak, Links!BeginSave(r, l, pw)
      PROVE  Links!TypeOK'
  BY <1>7, <1>t DEF Links!BeginSave, Links!Saving
<1> QED BY <1>1, <1>2, <1>3, <1>4, <1>5, <1>6, <1>7 DEF Links!Next
\* A link on which there is no save, or that a step does not touch, is as before.
LEMMA OneSaveKept ==
  ASSUME NEW l \in Key, OneSave(l), Saves(l)' = Saves(l), saved'[l] = saved[l],
         \A r \in Saves(l) : req'[r] = req[r],
         setup[l] # Absent => setup'[l] # Absent /\ (setup[l].used => setup'[l].used),
         setup[l] # Absent /\ l \in setups' => l \in setups
  PROVE  OneSave(l)'
<1>1. \A r, o \in Saves(l)' : r = o
  BY DEF OneSave
<1>2. \A r \in Saves(l)' : saved'[l] = IF req'[r].op = "deriving" THEN 0 ELSE 1
  BY DEF OneSave
<1>3. saved'[l] # 0 =>
        /\ saved'[l] = 1 /\ setup'[l] # Absent
        /\ Saves(l)' # {} \/ l \notin setups' \/ setup'[l].used
  BY DEF OneSave
<1> QED BY <1>1, <1>2, <1>3 DEF OneSave

\* Every step keeps saves and shared links fit.
LEMMA LinksFitStep == LinksInv /\ Links!Next => LinksFit'
<1> SUFFICES ASSUME LinksInv, Links!Next PROVE LinksFit'
  OBVIOUS
<1>i. /\ req \in [Caller -> Links!Saving \cup {Links!Idle}] /\ setup \in [Key -> Links!Setup \cup {Absent}]
      /\ overlap \subseteq Key /\ LinksMade /\ LinksFit
  BY DEF LinksInv, Links!TypeOK
<1>1. CASE Links!Tick
  BY <1>1, <1>i DEF Links!Tick, LinksFit
<1>2. CASE Links!Restart
  BY <1>2, <1>i DEF Links!Restart, LinksFit, Links!Idle
<1>3. ASSUME NEW l \in Key, Links!OpenSetup(l) PROVE LinksFit'
  BY <1>3, <1>i DEF Links!OpenSetup, LinksFit
<1>4. ASSUME NEW l \in Key, NEW q \in Account, Links!CreateSetup(l, q) PROVE LinksFit'
  <2>1. setup[l] = Absent /\ req' = req /\ overlap' = overlap
        /\ \A k \in Key : k # l => setup'[k] = setup[k]
    BY <1>4, <1>i DEF Links!CreateSetup
  <2> QED BY <2>1, <1>i DEF LinksFit
<1>5. ASSUME NEW r \in Caller, Links!StoreSecret(r) PROVE LinksFit'
  <2>1. setup' = setup /\ overlap' = overlap /\ \A o \in Caller : o # r => req'[o] = req[o]
    BY <1>5, <1>i DEF Links!StoreSecret
  <2>2. req'[r].op # "deriving"
    BY <1>5, <1>i DEF Links!StoreSecret, Links!Idle, Links!Saving
  <2> QED BY <2>1, <2>2, <1>i DEF LinksFit
<1>6. ASSUME NEW r \in Caller, Links!SpendLink(r) PROVE LinksFit'
  <2>1. req[r].link \in Key /\ setup[req[r].link] \in Links!Setup
    BY <1>6, <1>i DEF Links!SpendLink, LinksMade, Links!Saving, Links!Idle
  <2>2. overlap' = overlap /\ req'[r].op # "deriving" /\ \A o \in Caller : o # r => req'[o] = req[o]
    BY <1>6, <1>i DEF Links!SpendLink, Links!Idle
  <2>3. setup' = [setup EXCEPT ![req[r].link] = [setup[req[r].link] EXCEPT !.used = TRUE]]
    BY <1>6 DEF Links!SpendLink
  <2>4. [setup[req[r].link] EXCEPT !.used = TRUE] \in Links!Setup
    BY <2>1 DEF Links!Setup
  <2>5. \A k \in Key : setup[k] # Absent => setup'[k] # Absent
    BY <2>1, <2>3, <2>4, <1>i, StorageAssumption
  <2> QED BY <2>2, <2>5, <1>i DEF LinksFit
<1>7. ASSUME NEW r \in Caller, NEW l \in Key, NEW pw \in Strong \cup Weak, Links!BeginSave(r, l, pw)
      PROVE  LinksFit'
  <2>1. setup' = setup /\ overlap' \subseteq overlap \cup {l} /\ setup[l] # Absent
    BY <1>7, <1>i DEF Links!BeginSave, LinksMade
  <2>2. pw \in Strong \ Weak /\ req'[r].pw = pw /\ \A o \in Caller : o # r => req'[o] = req[o]
    BY <1>7, <1>i DEF Links!BeginSave
  <2> QED BY <2>1, <2>2, <1>i DEF LinksFit
<1> QED BY <1>1, <1>2, <1>3, <1>4, <1>5, <1>6, <1>7 DEF Links!Next

\* Every step keeps the invariant.
LEMMA LinksStep == LinksInv /\ Links!Next => LinksInv'
<1> SUFFICES ASSUME LinksInv, Links!Next PROVE LinksInv'
  OBVIOUS
<1>t. Links!TypeOK /\ LinksMade /\ Links!TypeOK'
  BY LinksTypeStep DEF LinksInv
<1>i. /\ req \in [Caller -> Links!Saving \cup {Links!Idle}] /\ setup \in [Key -> Links!Setup \cup {Absent}]
      /\ saved \in [Key -> Nat] /\ setups \subseteq Key /\ overlap \subseteq Key
  BY <1>t DEF Links!TypeOK
<1>o. \A l \in Key \ overlap : OneSave(l)
  BY DEF LinksInv
<1> SUFFICES LinksMade' /\ \A l \in Key \ overlap' : OneSave(l)'
  BY <1>t, LinksFitStep DEF LinksInv
<1>1. CASE Links!Tick
  BY <1>1, <1>t, <1>o DEF Links!Tick, LinksMade, OneSave, Saves
<1>2. CASE Links!Restart
  <2>1. \A l \in Key : Saves(l)' = {}
    BY <1>2 DEF Links!Restart, Saves
  <2>2. LinksMade'
    BY <1>2 DEF Links!Restart, LinksMade
  <2>3. ASSUME NEW l \in Key \ overlap' PROVE OneSave(l)'
    <3>1. l \in Key \ overlap /\ l \notin setups' /\ saved' = saved /\ setup' = setup
      BY <1>2 DEF Links!Restart
    <3> QED BY <3>1, <2>1, <1>o DEF OneSave
  <2> QED BY <2>2, <2>3
<1>3. ASSUME NEW l \in Key, Links!OpenSetup(l) PROVE LinksMade' /\ \A k \in Key \ overlap' : OneSave(k)'
  BY <1>3, <1>t, <1>o DEF Links!OpenSetup, LinksMade, OneSave, Saves
<1>4. ASSUME NEW l \in Key, NEW q \in Account, Links!CreateSetup(l, q)
      PROVE  LinksMade' /\ \A k \in Key \ overlap' : OneSave(k)'
  <2>1. PICK s : setup' = [setup EXCEPT ![l] = [qq |-> q, refresh |-> s # Absent,
                             expire |-> now + SETUP_EXPIRE, used |-> FALSE]]
    BY <1>4 DEF Links!CreateSetup
  <2>2. /\ setup[l] = Absent /\ setups' \subseteq setups \cup {l}
        /\ req' = req /\ saved' = saved /\ overlap' = overlap
    BY <1>4 DEF Links!CreateSetup
  <2>3. setup'[l] \in Links!Setup
    <3>1. now + SETUP_EXPIRE \in Nat
      BY <1>t, StorageAssumption DEF Links!TypeOK
    <3> QED BY <2>1, <1>i, <3>1 DEF Links!Setup
  <2>4. setup'[l] # Absent /\ \A k \in Key : k # l => setup'[k] = setup[k]
    BY <2>1, <2>3, <1>i, StorageAssumption
  <2>5. LinksMade'
    BY <1>t, <2>2, <2>4, <1>i DEF LinksMade, Links!Saving
  <2>6. ASSUME NEW k \in Key \ overlap' PROVE OneSave(k)'
    <3>1. Saves(k)' = Saves(k)
      BY <2>2 DEF Saves
    <3>2. OneSave(k)
      BY <2>2, <1>o
    <3> QED BY <2>2, <2>4, <3>1, <3>2, OneSaveKept
  <2> QED BY <2>5, <2>6
<1>5. ASSUME NEW r \in Caller, Links!StoreSecret(r) PROVE LinksMade' /\ \A k \in Key \ overlap' : OneSave(k)'
  <2>0. PICK l : l = req[r].link
    OBVIOUS
  <2>1. req[r] # Links!Idle /\ req[r].op = "deriving" /\ l \in Key
    BY <1>5, <1>i, <2>0 DEF Links!StoreSecret, Links!Saving, Links!Idle
  <2>2. setup' = setup /\ setups' = setups /\ overlap' = overlap
    BY <1>5 DEF Links!StoreSecret
  <2>3. \/ /\ req' = [req EXCEPT ![r].op = "stored"] /\ saved' = [saved EXCEPT ![l] = @ + 1]
        \/ req' = [req EXCEPT ![r] = Links!Idle] /\ saved' = saved
    BY <1>5, <2>0 DEF Links!StoreSecret
  <2>4. \A o \in Caller : o # r => req'[o] = req[o]
    BY <2>3, <1>i
  <2>5. \/ req'[r] # Links!Idle /\ req'[r].op = "stored" /\ req'[r].link = l /\ saved'[l] = saved[l] + 1
        \/ req'[r] = Links!Idle /\ saved'[l] = saved[l]
    BY <2>0, <2>3, <2>1, <1>i DEF Links!Saving, Links!Idle
  <2>6. \A k \in Key : k # l => saved'[k] = saved[k]
    BY <2>3, <1>i
  <2>7. LinksMade'
    BY <2>0, <2>1, <2>2, <2>4, <2>5, <1>t DEF LinksMade
  <2>8. r \in Saves(l) /\ \A k \in Key : k # l => r \notin Saves(k) \cup Saves(k)'
    BY <2>0, <2>1, <2>5 DEF Saves
  <2>9. ASSUME NEW k \in Key \ overlap' PROVE OneSave(k)'
    <3>1. OneSave(k)
      BY <2>2, <1>o
    <3>2. CASE k # l
      <4>1. Saves(k)' = Saves(k) /\ \A o \in Saves(k) : req'[o] = req[o]
        BY <2>4, <2>8, <3>2 DEF Saves
      <4> QED BY <4>1, <2>2, <2>6, <3>1, <3>2, OneSaveKept
    <3>3. CASE k = l
      <4>1. saved[l] = 0 /\ Saves(l) = {r}
        BY <2>1, <2>8, <3>1, <3>3 DEF OneSave
      <4>2. CASE req'[r] = Links!Idle /\ saved'[l] = saved[l]
        <5>1. Saves(l)' = {}
          BY <2>4, <4>1, <4>2 DEF Saves
        <5> QED BY <5>1, <4>1, <4>2, <3>3 DEF OneSave
      <4>3. CASE req'[r] # Links!Idle /\ req'[r].op = "stored" /\ req'[r].link = l /\ saved'[l] = saved[l] + 1
        <5>1. Saves(l)' = {r} /\ saved'[l] = 1
          BY <2>4, <4>1, <4>3 DEF Saves
        <5>2. setup'[l] # Absent
          BY <2>0, <2>1, <2>2, <1>t DEF LinksMade
        <5> QED BY <5>1, <5>2, <4>3, <3>3 DEF OneSave
      <4> QED BY <4>2, <4>3, <2>5
    <3> QED BY <3>2, <3>3
  <2> QED BY <2>7, <2>9
<1>6. ASSUME NEW r \in Caller, Links!SpendLink(r) PROVE LinksMade' /\ \A k \in Key \ overlap' : OneSave(k)'
  <2>0. PICK l : l = req[r].link
    OBVIOUS
  <2>1. req[r] # Links!Idle /\ l \in Key /\ r \in Saves(l) /\ req[r].op = "stored"
    BY <1>6, <1>i, <2>0 DEF Links!SpendLink, Links!Saving, Links!Idle, Saves
  <2>2. /\ setup' = [setup EXCEPT ![l].used = TRUE] /\ setups' = setups \ {l}
        /\ req' = [req EXCEPT ![r] = Links!Idle] /\ saved' = saved /\ overlap' = overlap
    BY <1>6, <2>0 DEF Links!SpendLink
  <2>3. setup[l] # Absent /\ setup[l] \in Links!Setup
    BY <2>0, <2>1, <1>t, <1>i DEF LinksMade
  <2>4. setup'[l] \in Links!Setup /\ setup'[l].used
    BY <2>2, <2>1, <2>3, <1>i DEF Links!Setup
  <2>5. setup'[l] # Absent /\ \A k \in Key : k # l => setup'[k] = setup[k]
    BY <2>4, <2>2, <1>i, StorageAssumption
  <2>6. req'[r] = Links!Idle /\ \A o \in Caller : o # r => req'[o] = req[o]
    BY <2>2, <1>i
  <2>7. LinksMade'
    <3>1. \A k \in Key : setup[k] # Absent => setup'[k] # Absent
      BY <2>5
    <3>2. \A o \in Caller : req[o] # Links!Idle => req[o].link \in Key
      BY <1>i DEF Links!Saving
    <3> QED BY <2>2, <2>6, <3>1, <3>2, <1>t, <1>i DEF LinksMade
  <2>8. ASSUME NEW k \in Key \ overlap' PROVE OneSave(k)'
    <3>1. OneSave(k)
      BY <2>2, <1>o
    <3>2. CASE k # l
      <4>1. r \notin Saves(k)
        BY <2>0, <3>2 DEF Saves
      <4>2. Saves(k)' = Saves(k) /\ \A o \in Saves(k) : req'[o] = req[o]
        BY <4>1, <2>6 DEF Saves
      <4> QED BY <4>2, <2>2, <2>5, <3>1, <3>2, OneSaveKept
    <3>3. CASE k = l
      <4>1. saved[l] = 1 /\ Saves(l) = {r}
        BY <2>1, <3>1, <3>3 DEF OneSave
      <4>2. Saves(l)' = {}
        BY <4>1, <2>6 DEF Saves
      <4> QED BY <4>1, <4>2, <2>2, <2>4, <2>5, <3>3 DEF OneSave
    <3> QED BY <3>2, <3>3
  <2> QED BY <2>7, <2>8
<1>7. ASSUME NEW r \in Caller, NEW l \in Key, NEW pw \in Strong \cup Weak, Links!BeginSave(r, l, pw)
      PROVE  LinksMade' /\ \A k \in Key \ overlap' : OneSave(k)'
  <2>1. /\ req[r] = Links!Idle /\ l \in setups /\ ~setup[l].used
        /\ req' = [req EXCEPT ![r] = [op |-> "deriving", link |-> l, pw |-> pw]]
        /\ overlap' = IF Saves(l) # {} THEN overlap \cup {l} ELSE overlap
        /\ setup' = setup /\ setups' = setups /\ saved' = saved
    BY <1>7 DEF Links!BeginSave, Links!Live, Saves
  <2>2. /\ req'[r] # Links!Idle /\ req'[r].op = "deriving" /\ req'[r].link = l
        /\ \A o \in Caller : o # r => req'[o] = req[o]
    BY <2>1, <1>i DEF Links!Idle
  <2>3. LinksMade'
    BY <2>1, <2>2, <1>t DEF LinksMade
  <2>4. ASSUME NEW k \in Key \ overlap' PROVE OneSave(k)'
    <3>1. OneSave(k)
      BY <2>1, <1>o
    <3>2. CASE k # l
      <4>1. Saves(k)' = Saves(k) /\ \A o \in Saves(k) : req'[o] = req[o]
        BY <2>1, <2>2, <3>2 DEF Saves
      <4> QED BY <4>1, <2>1, <3>1, <3>2, OneSaveKept
    <3>3. CASE k = l
      <4>1. Saves(l) = {}
        BY <2>1, <3>3
      <4>2. Saves(l)' = {r}
        BY <4>1, <2>2 DEF Saves
      <4>3. saved[l] = 0
        BY <4>1, <2>1, <3>1, <3>3 DEF OneSave
      <4> QED BY <4>2, <4>3, <2>1, <2>2, <3>3 DEF OneSave
    <3> QED BY <3>2, <3>3
  <2> QED BY <2>3, <2>4
<1> QED BY <1>1, <1>2, <1>3, <1>4, <1>5, <1>6, <1>7 DEF Links!Next

\* A link stores a second password only when its saves overlapped.
LEMMA LinksHold == LinksInv => Links!TypeOK /\ Links!SecondSaveOverlaps
<1>1. ASSUME LinksInv, NEW l \in Key, saved[l] > 1 PROVE l \in overlap
  <2>1. OneSave(l) => saved[l] \in {0, 1}
    BY DEF OneSave
  <2> QED BY <1>1, <2>1 DEF LinksInv
<1> QED BY <1>1 DEF LinksInv, Links!SecondSaveOverlaps

\* So does a step of another part.
LEMMA LinksStutter == LinksInv /\ UNCHANGED <<webVars, req, linkVars>> => LinksInv'
BY DEF LinksInv, webVars, linkVars, Links!TypeOK, LinksMade, LinksFit, OneSave, Saves

-----------------------------------------------------------------------------
(* The setup links are one-time links (OneTimeLink).                       *)

\* What their users know of the links, in a behaviour of the links.
LEMMA LinksKnown ==
  ASSUME part = "links"
  PROVE  /\ LinkSecret = secret
         /\ LinkOwner = [l \in Key |-> Links!OwnerOf(l)]
         /\ LinkState = [l \in Key |-> Links!StateOf(l)]
BY DEF LinkSecret, LinkOwner, LinkState

\* A link that a step makes no more usable is what it was, or has ended.
Ends(k) == Links!StateOf(k) # "unmade" /\ Links!StateOf(k)' = "dead"
LEMMA StateKept ==
  ASSUME NEW k \in Key, setup'[k] = Absent <=> setup[k] = Absent,
         k \in overlap' <=> k \in overlap, saved'[k] = saved[k],
         Links!Usable(k)' => Links!Usable(k)
  PROVE  Links!StateOf(k)' = Links!StateOf(k) \/ Ends(k)
BY DEF Links!StateOf, Ends

\* A step that makes no link more usable closes some, or none.
LEMMA LinksClose ==
  ASSUME part = "links", part' = part, secret' = secret,
         \A k \in Key : Links!OwnerOf(k)' = Links!OwnerOf(k),
         \A k \in Key : Links!StateOf(k)' = Links!StateOf(k) \/ Ends(k)
  PROVE  OneTime!Next
<1> DEFINE ended == {k \in Key : Links!StateOf(k)' # Links!StateOf(k)}
<1>1. LinkSecret' = LinkSecret
  BY LinksKnown DEF LinkSecret
<1>2. LinkOwner' = LinkOwner
  BY DEF LinkOwner
<1>3. LinkState' = [l \in Key |-> IF l \in ended THEN "dead" ELSE LinkState[l]]
  BY DEF LinkState, Ends
<1>4. \A l \in ended : LinkState[l] # "unmade"
  BY DEF LinkState, Ends
<1>5. OneTime!Close(ended)
  BY <1>1, <1>2, <1>3, <1>4 DEF OneTime!Close
<1> HIDE DEF ended
<1>6. ended \in SUBSET Key
  BY DEF ended
<1> QED BY <1>5, <1>6 DEF OneTime!Next

\* A step that changes what one link is.
LEMMA LinksSet ==
  ASSUME part = "links", part' = part, NEW l \in Key, NEW s, Links!StateOf(l)' = s,
         \A k \in Key : k # l => Links!StateOf(k)' = Links!StateOf(k)
  PROVE  LinkState' = [LinkState EXCEPT ![l] = s] /\ LinkState[l] = Links!StateOf(l)
BY DEF LinkState

\* A link is usable or not by itself: by its row, the clock, and the saves under way.
Deriving(k) == \E r \in Caller : req[r].op = "deriving" /\ req[r].link = k
LEMMA UsableIs ==
  ASSUME NEW k \in Key
  PROVE  Links!Usable(k) <=> (k \in setups /\ setup[k].expire > now /\ ~setup[k].used) \/ Deriving(k)
BY DEF Links!Usable, Links!Live, Deriving

\* Time, a look at a dead link, and a restart close links.
LEMMA LinksPass ==
  ASSUME part = "links", part' = part, LinksInv,
         Links!Tick \/ Links!Restart \/ \E l \in Key : Links!OpenSetup(l)
  PROVE  OneTime!Next
<1>1. /\ setup' = setup /\ saved' = saved /\ overlap' = overlap /\ secret' = secret
      /\ setups' \subseteq setups /\ now' >= now
  BY DEF Links!Tick, Links!Restart, Links!OpenSetup, LinksInv, Links!TypeOK
<1>2. ASSUME NEW k \in Key PROVE Deriving(k)' => Deriving(k)
  BY DEF Links!Tick, Links!Restart, Links!OpenSetup, Deriving, Links!Idle
<1>3. ASSUME NEW k \in Key PROVE Links!Usable(k)' => Links!Usable(k)
  <2>1. Links!Usable(k)' <=> (k \in setups' /\ setup'[k].expire > now' /\ ~setup'[k].used) \/ Deriving(k)'
    BY UsableIs DEF Links!Usable, Links!Live, Deriving
  <2>2. k \in setups => setup[k].expire \in Nat /\ now \in Nat /\ now' \in Nat
    BY StorageAssumption DEF LinksInv, LinksMade, Links!TypeOK, Links!Setup, Links!Tick, Links!Restart, Links!OpenSetup
  <2> QED BY <1>1, <1>2, <2>1, <2>2, UsableIs
<1>4. \A k \in Key : Links!StateOf(k)' = Links!StateOf(k) \/ Ends(k)
  BY <1>1, <1>3, StateKept
<1>5. \A k \in Key : Links!OwnerOf(k)' = Links!OwnerOf(k)
  BY <1>1 DEF Links!OwnerOf
<1> QED BY <1>1, <1>4, <1>5, LinksClose

\* A new link is open: it was unmade, and nobody has used it.
LEMMA LinksMake ==
  ASSUME part = "links", part' = part, LinksInv,
         NEW l \in Key, NEW q \in Account, Links!CreateSetup(l, q)
  PROVE  OneTime!Next
<1>i. setup \in [Key -> Links!Setup \cup {Absent}] /\ now \in Nat /\ saved \in [Key -> Nat]
  BY StorageAssumption DEF LinksInv, Links!TypeOK
<1>1. PICK s : setup' = [setup EXCEPT ![l] = [qq |-> q, refresh |-> s # Absent,
                           expire |-> now + SETUP_EXPIRE, used |-> FALSE]]
  BY DEF Links!CreateSetup
<1>2. /\ setup[l] = Absent /\ setups' = {k \in setups : Links!Live(k)} \cup {l}
      /\ now' = now /\ secret' = secret /\ req' = req /\ saved' = saved /\ overlap' = overlap
  BY DEF Links!CreateSetup
<1>3. /\ setup'[l].qq = q /\ setup'[l].expire > now /\ ~setup'[l].used /\ setup'[l] \in Links!Setup
      /\ setup'[l] # Absent /\ \A k \in Key : k # l => setup'[k] = setup[k]
  <2>1. now + SETUP_EXPIRE \in Nat /\ now + SETUP_EXPIRE > now
    BY <1>i, StorageAssumption
  <2>2. PICK new : new = [qq |-> q, refresh |-> s # Absent, expire |-> now + SETUP_EXPIRE, used |-> FALSE]
    OBVIOUS
  <2>3. new.qq = q /\ new.expire = now + SETUP_EXPIRE /\ ~new.used /\ new \in Links!Setup
    BY <2>1, <2>2 DEF Links!Setup
  <2>4. setup' = [setup EXCEPT ![l] = new]
    BY Zenon, <1>1, <2>2
  <2>5. setup'[l] = new /\ \A k \in Key : k # l => setup'[k] = setup[k]
    BY <2>4, <1>i
  <2>6. new # Absent
    BY <2>3, StorageAssumption
  <2> QED BY <2>1, <2>3, <2>5, <2>6
<1>4. Links!StateOf(l) = "unmade" /\ l \notin overlap /\ saved[l] = 0
  <2>1. l \notin overlap
    BY <1>2 DEF LinksInv, LinksFit
  <2>2. OneSave(l)
    BY <2>1 DEF LinksInv
  <2> QED BY <1>2, <1>i, <2>1, <2>2 DEF OneSave, Links!StateOf
<1>5. Links!StateOf(l)' = "open"
  <2>1. Links!Usable(l)'
    BY <1>2, <1>3 DEF Links!Usable, Links!Live
  <2> QED BY <1>2, <1>3, <1>4, <2>1 DEF Links!StateOf
<1>6. ASSUME NEW k \in Key, k # l PROVE Links!StateOf(k)' = Links!StateOf(k)
  <2>1. Links!Usable(k)' <=> Links!Usable(k)
    BY <1>2, <1>3, <1>6 DEF Links!Usable, Links!Live
  <2> QED BY <1>2, <1>3, <1>6, <2>1 DEF Links!StateOf
<1>7. LinkState' = [LinkState EXCEPT ![l] = "open"] /\ LinkState[l] = "unmade"
  BY <1>4, <1>5, <1>6, LinksSet
<1>8. LinkOwner' = [LinkOwner EXCEPT ![l] = q]
  BY <1>2, <1>3 DEF LinkOwner, Links!OwnerOf
<1>9. LinkSecret' = LinkSecret
  BY <1>2 DEF LinkSecret
<1> QED BY <1>7, <1>8, <1>9 DEF OneTime!Next, OneTime!Make

\* A save that begins changes nothing, or the link is a shared one from now on.
LEMMA LinksBegin ==
  ASSUME part = "links", part' = part, LinksInv,
         NEW r \in Caller, NEW l \in Key, NEW pw \in Strong \cup Weak, Links!BeginSave(r, l, pw)
  PROVE  OneTime!Next
<1>i. req \in [Caller -> Links!Saving \cup {Links!Idle}]
  BY DEF LinksInv, Links!TypeOK
<1>1. /\ req[r] = Links!Idle /\ l \in setups /\ Links!Live(l)
      /\ req' = [req EXCEPT ![r] = [op |-> "deriving", link |-> l, pw |-> pw]]
      /\ overlap' = overlap \/ overlap' = overlap \cup {l}
      /\ setup' = setup /\ setups' = setups /\ saved' = saved /\ now' = now /\ secret' = secret
  BY DEF Links!BeginSave
<1>2. /\ req'[r].op = "deriving" /\ req'[r].link = l
      /\ req[r].op # "deriving" /\ \A o \in Caller : o # r => req'[o] = req[o]
  BY <1>1, <1>i DEF Links!Idle
<1>3. Links!Usable(l) /\ Links!Usable(l)' /\ setup[l] # Absent
  BY <1>1 DEF Links!Usable, Links!Live, LinksInv, LinksMade
<1>4. ASSUME NEW k \in Key, k # l
      PROVE  Links!StateOf(k)' = Links!StateOf(k)
  <2>1. Deriving(k)' <=> Deriving(k)
    BY <1>2, <1>4 DEF Deriving
  <2>2. Links!Usable(k)' <=> Links!Usable(k)
    BY <1>1, <2>1 DEF Links!Usable, Links!Live, Deriving
  <2> QED BY <1>1, <1>4, <2>2 DEF Links!StateOf
<1>5. \A k \in Key : Links!OwnerOf(k)' = Links!OwnerOf(k)
  BY <1>1 DEF Links!OwnerOf
<1>6. CASE l \in overlap \/ l \notin overlap'
  <2>1. Links!StateOf(l)' = Links!StateOf(l)
    BY <1>1, <1>3, <1>6 DEF Links!StateOf
  <2>2. \A k \in Key : Links!StateOf(k)' = Links!StateOf(k) \/ Ends(k)
    BY <1>4, <2>1
  <2> QED BY <1>1, <1>5, <2>2, LinksClose
<1>7. CASE l \notin overlap /\ l \in overlap'
  <2>1. Links!StateOf(l)' = "shared" /\ Links!StateOf(l) \in {"open", "saved"}
    BY <1>1, <1>3, <1>7 DEF Links!StateOf
  <2>2. LinkState' = [LinkState EXCEPT ![l] = "shared"] /\ LinkState[l] = Links!StateOf(l)
    BY <1>4, <2>1, LinksSet
  <2>3. LinkOwner' = LinkOwner /\ LinkSecret' = LinkSecret
    BY <1>1, <1>5 DEF LinkOwner, LinkSecret
  <2> QED BY <2>1, <2>2, <2>3 DEF OneTime!Next, OneTime!Share
<1> QED BY <1>6, <1>7

\* A digest that is stored is a save of a link that is open or shared; one that
\* cannot be stored may close the link.
LEMMA LinksStore ==
  ASSUME part = "links", part' = part, LinksInv, NEW r \in Caller, Links!StoreSecret(r)
  PROVE  OneTime!Next
<1>i. /\ req \in [Caller -> Links!Saving \cup {Links!Idle}]
      /\ setup \in [Key -> Links!Setup \cup {Absent}] /\ saved \in [Key -> Nat]
  BY DEF LinksInv, Links!TypeOK
<1>0. PICK l : l = req[r].link
  OBVIOUS
<1>1. /\ req[r].op = "deriving" /\ l \in Key /\ req[r] # Links!Idle /\ setup[l] # Absent
      /\ setup' = setup /\ setups' = setups /\ overlap' = overlap /\ now' = now
  BY <1>0, <1>i DEF Links!StoreSecret, Links!Saving, Links!Idle, LinksInv, LinksMade
<1>2. req'[r].op # "deriving" /\ \A o \in Caller : o # r => req'[o] = req[o]
  BY <1>1, <1>i DEF Links!StoreSecret, Links!Saving, Links!Idle
<1>3. \A k \in Key : Deriving(k)' => Deriving(k)
  BY <1>2 DEF Deriving
<1>4. \A k \in Key : k # l => (Deriving(k) => Deriving(k)')
  BY <1>0, <1>2 DEF Deriving
<1>5. \A k \in Key : Links!Usable(k)' => Links!Usable(k)
  BY <1>1, <1>3 DEF Links!Usable, Links!Live, Deriving
<1>6. \A k \in Key : k # l => (Links!Usable(k) => Links!Usable(k)')
  BY <1>1, <1>4 DEF Links!Usable, Links!Live, Deriving
<1>7. \A k \in Key : Links!OwnerOf(k)' = Links!OwnerOf(k)
  BY <1>1 DEF Links!OwnerOf
<1>8. CASE saved' = saved /\ secret' = secret
  <2>1. \A k \in Key : Links!StateOf(k)' = Links!StateOf(k) \/ Ends(k)
    BY <1>1, <1>5, <1>8, StateKept
  <2> QED BY <1>7, <1>8, <2>1, LinksClose
<1>9. CASE /\ saved' = [saved EXCEPT ![l] = @ + 1]
           /\ secret' = [secret EXCEPT ![setup[l].qq] = req[r].pw]
  <2>1. Links!Usable(l)
    BY <1>0, <1>1 DEF Links!Usable
  <2>2. l \notin overlap => saved[l] = 0
    BY <1>0, <1>1 DEF LinksInv, OneSave, Saves
  <2>3. /\ Links!StateOf(l) = IF l \in overlap THEN "shared" ELSE "open"
        /\ saved'[l] > 0 /\ \A k \in Key : k # l => saved'[k] = saved[k]
    BY <1>1, <1>9, <1>i, <2>1, <2>2 DEF Links!StateOf
  <2>4. \/ Links!StateOf(l)' = "dead"
        \/ Links!StateOf(l)' = IF Links!StateOf(l) = "open" THEN "saved" ELSE "shared"
    BY <1>1, <2>3 DEF Links!StateOf
  <2>5. ASSUME NEW k \in Key, k # l PROVE Links!StateOf(k)' = Links!StateOf(k)
    BY <1>1, <1>5, <1>6, <2>3, <2>5 DEF Links!StateOf
  <2>6. PICK after : Links!StateOf(l)' = after
    OBVIOUS
  <2>7. LinkState' = [LinkState EXCEPT ![l] = after] /\ LinkState[l] = Links!StateOf(l)
    BY <1>1, <2>5, <2>6, LinksSet
  <2>8. LinkOwner' = LinkOwner /\ LinkOwner[l] = setup[l].qq
    BY <1>1, <1>7 DEF LinkOwner, Links!OwnerOf
  <2>9. LinkSecret' = [LinkSecret EXCEPT ![LinkOwner[l]] = req[r].pw]
    BY <1>9, <2>8 DEF LinkSecret
  <2>10. req[r].pw \in Strong \ Weak
    BY <1>1 DEF LinksInv, LinksFit
  <2>11. OneTime!Save(l, req[r].pw)
    BY <2>3, <2>4, <2>6, <2>7, <2>8, <2>9 DEF OneTime!Save
  <2> QED BY <1>1, <2>10, <2>11 DEF OneTime!Next
<1> QED BY <1>0, <1>8, <1>9 DEF Links!StoreSecret, Links!Cold!InsertOk, Links!Cold!WriteFails

\* A link that is spent is closed, unless somebody else is saving on it.
LEMMA LinksSpend ==
  ASSUME part = "links", part' = part, LinksInv, NEW r \in Caller, Links!SpendLink(r)
  PROVE  OneTime!Next
<1>i. /\ req \in [Caller -> Links!Saving \cup {Links!Idle}]
      /\ setup \in [Key -> Links!Setup \cup {Absent}]
  BY DEF LinksInv, Links!TypeOK
<1>0. PICK l : l = req[r].link
  OBVIOUS
<1>1. req[r] # Links!Idle /\ l \in Key /\ setup[l] # Absent /\ setup[l] \in Links!Setup
  BY <1>0, <1>i DEF Links!SpendLink, Links!Saving, Links!Idle, LinksInv, LinksMade
<1>2. /\ setup' = [setup EXCEPT ![l].used = TRUE] /\ setups' = setups \ {l} /\ now' = now
      /\ req' = [req EXCEPT ![r] = Links!Idle] /\ saved' = saved /\ overlap' = overlap
      /\ secret' = secret
  BY <1>0 DEF Links!SpendLink
<1>3. /\ setup'[l] = [setup[l] EXCEPT !.used = TRUE]
      /\ \A k \in Key : k # l => setup'[k] = setup[k]
  BY <1>1, <1>2, <1>i
<1>4. setup'[l] \in Links!Setup /\ setup'[l].qq = setup[l].qq
  BY <1>1, <1>3 DEF Links!Setup
<1>5. \A k \in Key : Deriving(k)' => Deriving(k)
  BY <1>2, <1>i DEF Deriving, Links!Idle
<1>6. \A k \in Key : Links!Usable(k)' => Links!Usable(k)
  BY <1>2, <1>3, <1>5 DEF Links!Usable, Links!Live, Deriving
<1>7. \A k \in Key : setup'[k] = Absent <=> setup[k] = Absent
  BY <1>1, <1>3, <1>4, StorageAssumption
<1>8. \A k \in Key : Links!OwnerOf(k)' = Links!OwnerOf(k)
  BY <1>1, <1>3, <1>4, <1>7 DEF Links!OwnerOf
<1>9. \A k \in Key : Links!StateOf(k)' = Links!StateOf(k) \/ Ends(k)
  BY <1>2, <1>6, <1>7, StateKept
<1> QED BY <1>2, <1>8, <1>9, LinksClose

-----------------------------------------------------------------------------
(* Guarded pages (GuardedPage).                                            *)

\* Only gates that were made are looked up or held by a request.
GatesMade ==
  /\ \A p \in guards \cup sessions : guard[p] # Absent
  /\ \A r \in Caller : req[r] # Pages!Idle => guard[req[r].page] # Absent

\* A right password that is being checked was given while the page was not
\* locked, and if the page was locked since, it is late.
CheckedInTime ==
  \A r \in Caller :
    req[r].op = "checking" /\ req[r].match /\ ~req[r].late => guard[req[r].page].locked_until <= now

PagesInv ==
  /\ Pages!TypeOK /\ GatesMade /\ CheckedInTime
  /\ Pages!GateWithPage /\ Pages!CertificateIsAsked /\ Pages!LockoutHolds

\* The guarded pages start with no page open.
LEMMA PagesInit == Pages!Init => PagesInv
<1> SUFFICES ASSUME Pages!Init PROVE PagesInv
  OBVIOUS
<1> USE DEF Pages!Init
<1>1. Pages!TypeOK
  BY StorageAssumption DEF Pages!TypeOK, Pages!Request
<1>2. GatesMade /\ CheckedInTime
  BY DEF GatesMade, CheckedInTime, Pages!Idle
<1>3. Pages!GateWithPage /\ Pages!CertificateIsAsked /\ Pages!LockoutHolds
  BY DEF Pages!GateWithPage, Pages!CertificateIsAsked, Pages!LockoutHolds
<1> QED BY <1>1, <1>2, <1>3 DEF PagesInv

\* What the requests and the gates are made of.
LEMMA PagesTypes ==
  ASSUME Pages!TypeOK, GatesMade
  PROVE  /\ \A r \in Caller : req[r] # Pages!Idle => req[r].page \in Key /\ guard[req[r].page] \in Pages!Guard
         /\ \A r \in Caller : req[r].op \in {"checking", "revoking", "printing"} => req[r] # Pages!Idle
         /\ \A r \in Caller : req[r].op = "checking" => req[r].match \in BOOLEAN /\ req[r].late \in BOOLEAN
         /\ \A r \in Caller : req[r].op = "printing" => req[r].wid \in Certificate
         /\ \A p \in Key : guard[p] # Absent =>
              /\ guard[p] \in Pages!Guard /\ guard[p].qq \in Account /\ guard[p].expire \in Nat
              /\ guard[p].token \in BOOLEAN /\ guard[p].fails \in 0..MAX_FAILS
              /\ guard[p].locked_until \in Nat
         /\ now \in Nat
<1>1. /\ req \in [Caller -> Pages!Request] /\ guard \in [Key -> Pages!Guard \cup {Absent}] /\ now \in Nat
  BY DEF Pages!TypeOK
<1>2. \A r \in Caller : req[r] # Pages!Idle => req[r].page \in Key
  BY <1>1 DEF Pages!Request, Pages!Idle
<1>3. \A r \in Caller : req[r] # Pages!Idle => guard[req[r].page] \in Pages!Guard
  BY <1>1, <1>2 DEF GatesMade
<1>4. \A r \in Caller : req[r].op \in {"checking", "revoking", "printing"} => req[r] # Pages!Idle
  BY DEF Pages!Idle
<1>5. \A r \in Caller : req[r].op = "checking" => req[r].match \in BOOLEAN /\ req[r].late \in BOOLEAN
  BY <1>1 DEF Pages!Request, Pages!Idle
<1>6. \A r \in Caller : req[r].op = "printing" => req[r].wid \in Certificate
  BY <1>1 DEF Pages!Request, Pages!Idle
<1>7. \A p \in Key : guard[p] # Absent =>
              /\ guard[p] \in Pages!Guard /\ guard[p].qq \in Account /\ guard[p].expire \in Nat
              /\ guard[p].token \in BOOLEAN /\ guard[p].fails \in 0..MAX_FAILS
              /\ guard[p].locked_until \in Nat
  BY <1>1 DEF Pages!Guard
<1> QED BY <1>1, <1>2, <1>3, <1>4, <1>5, <1>6, <1>7

\* A step that changes at most fields of a gate other than its lifetime, and
\* one request, keeps what is said of all of them.
LEMMA GateUpdate ==
  ASSUME PagesInv, NEW p \in Key, guard[p] # Absent, NEW g \in Pages!Guard,
         guard' = [guard EXCEPT ![p] = g], g.expire = guard[p].expire,
         UNCHANGED <<now, guards, sessions>>
  PROVE  /\ guard' \in [Key -> Pages!Guard \cup {Absent}]
         /\ \A k \in Key : guard[k] # Absent => guard'[k] # Absent
         /\ Pages!GateWithPage'
         /\ \A k \in guards' \cup sessions' : guard'[k] # Absent
<1>1. guard \in [Key -> Pages!Guard \cup {Absent}] /\ guards \subseteq Key /\ sessions \subseteq Key
  BY DEF PagesInv, Pages!TypeOK
<1>2. guard'[p] = g /\ g # Absent /\ \A k \in Key : k # p => guard'[k] = guard[k]
  BY <1>1, StorageAssumption
<1>3. Pages!GateWithPage'
  BY <1>2 DEF PagesInv, Pages!GateWithPage, Pages!LiveGuard
<1> QED BY <1>1, <1>2, <1>3 DEF PagesInv, GatesMade

\* Requests: one that begins, one that ends.
LEMMA RequestChange ==
  ASSUME PagesInv, NEW r \in Caller, NEW q \in Pages!Request, req' = [req EXCEPT ![r] = q]
  PROVE  /\ req' \in [Caller -> Pages!Request]
         /\ req'[r] = q /\ \A o \in Caller : o # r => req'[o] = req[o]
BY DEF PagesInv, Pages!TypeOK

\* A step of a request that leaves the gates alone: what it holds must be right.
LEMMA RequestStep ==
  ASSUME PagesInv, NEW r \in Caller, NEW q \in Pages!Request, req' = [req EXCEPT ![r] = q],
         q # Pages!Idle => guard[q.page] # Absent,
         q.op = "checking" /\ q.match /\ ~q.late => guard[q.page].locked_until <= now,
         UNCHANGED <<now, secret, guard, guards, sessions, cert, breached, mixed>>
  PROVE  PagesInv'
<1>1. /\ req' \in [Caller -> Pages!Request]
      /\ req'[r] = q /\ \A o \in Caller : o # r => req'[o] = req[o]
  BY RequestChange
<1>2. Pages!TypeOK'
  BY <1>1 DEF PagesInv, Pages!TypeOK, Pages!Cold!TableType
<1>3. GatesMade'
  BY <1>1 DEF PagesInv, GatesMade
<1>4. CheckedInTime'
  BY <1>1 DEF PagesInv, CheckedInTime
<1>5. Pages!GateWithPage' /\ Pages!CertificateIsAsked' /\ Pages!LockoutHolds'
  BY DEF PagesInv, Pages!GateWithPage, Pages!LiveGuard, Pages!CertificateIsAsked, Pages!LockoutHolds
<1> QED BY <1>2, <1>3, <1>4, <1>5 DEF PagesInv

\* A step that lets go of gates and sessions that have expired, and no others.
LEMMA ForgetStep ==
  ASSUME PagesInv, guards' \subseteq guards, sessions' \subseteq sessions,
         \A p \in guards \ guards' : ~Pages!LiveGuard(p),
         \A p \in sessions \ sessions' : ~Pages!LiveGuard(p),
         UNCHANGED <<now, secret, guard, cert, req, breached, mixed>>
  PROVE  PagesInv'
<1>1. Pages!TypeOK'
  BY DEF PagesInv, Pages!TypeOK, Pages!Cold!TableType
<1>2. GatesMade' /\ CheckedInTime'
  BY DEF PagesInv, GatesMade, CheckedInTime
<1>3. Pages!GateWithPage' /\ Pages!CertificateIsAsked' /\ Pages!LockoutHolds'
  BY DEF PagesInv, Pages!GateWithPage, Pages!LiveGuard, Pages!CertificateIsAsked, Pages!LockoutHolds
<1> QED BY <1>1, <1>2, <1>3 DEF PagesInv

\* A certificate that is answered with is in the cache, or just came.
LEMMA CertificateStep ==
  ASSUME PagesInv, cert' \in [Key -> Certificate \cup {Absent}], mixed' = mixed,
         req' = req \/ \E r \in Caller : req' = [req EXCEPT ![r] = Pages!Idle],
         UNCHANGED <<now, secret, guard, guards, sessions, breached>>
  PROVE  PagesInv'
<1>1. /\ req' \in [Caller -> Pages!Request]
      /\ \A o \in Caller : req'[o] = req[o] \/ req'[o] = Pages!Idle
  BY DEF PagesInv, Pages!TypeOK, Pages!Request
<1>2. Pages!TypeOK'
  BY <1>1 DEF PagesInv, Pages!TypeOK, Pages!Cold!TableType
<1>3. GatesMade' /\ CheckedInTime'
  BY <1>1 DEF PagesInv, GatesMade, CheckedInTime, Pages!Idle
<1>4. Pages!GateWithPage' /\ Pages!CertificateIsAsked' /\ Pages!LockoutHolds'
  BY DEF PagesInv, Pages!GateWithPage, Pages!LiveGuard, Pages!CertificateIsAsked, Pages!LockoutHolds
<1> QED BY <1>2, <1>3, <1>4 DEF PagesInv

\* Time passes: what an expired gate kept is forgotten, the gate is not.
LEMMA PagesTick == PagesInv /\ Pages!Tick => PagesInv'
<1> SUFFICES ASSUME PagesInv, Pages!Tick PROVE PagesInv'
  OBVIOUS
<1>t. Pages!TypeOK /\ GatesMade /\ CheckedInTime
  BY DEF PagesInv
<1>0. now' = now + 1 /\ now \in Nat /\ now' \in 0..MaxTime
  BY <1>t, StorageAssumption DEF Pages!Tick, Pages!TypeOK
<1>1. ASSUME NEW p \in Key
      PROVE  /\ guard[p] = Absent => guard'[p] = Absent
             /\ guard[p] # Absent =>
                  /\ guard'[p] \in Pages!Guard /\ guard'[p].expire = guard[p].expire
                  /\ guard'[p].locked_until \in {0, guard[p].locked_until}
  <2>1. guard'[p] = Pages!Kept(guard[p], now')
    BY DEF Pages!Tick
  <2>2. CASE guard[p] = Absent
    BY <2>1, <2>2 DEF Pages!Kept
  <2>3. CASE guard[p] # Absent
    <3>1. guard[p] \in Pages!Guard
      BY <2>3, <1>t DEF Pages!TypeOK
    <3>2. 0 \in 0..MAX_FAILS
      BY StorageAssumption
    <3>3. CASE guard[p].expire <= now'
      <4>1. guard'[p] = [qq |-> guard[p].qq, expire |-> guard[p].expire, token |-> FALSE,
                         fails |-> 0, locked_until |-> 0]
        BY <2>1, <2>3, <3>1, <3>3 DEF Pages!Kept, Pages!Guard
      <4>2. guard[p].qq \in Account /\ guard[p].expire \in Nat /\ 0 \in Nat
        BY <3>1 DEF Pages!Guard
      <4>3. guard'[p] \in Pages!Guard
        BY <3>2, <4>1, <4>2 DEF Pages!Guard
      <4>4. guard'[p].expire = guard[p].expire /\ guard'[p].locked_until = 0
        BY <4>1
      <4> QED BY <4>3, <4>4, <2>3
    <3>4. CASE ~(guard[p].expire <= now')
      BY <2>1, <2>3, <3>1, <3>4 DEF Pages!Kept
    <3> QED BY <3>3, <3>4
  <2> QED BY <2>2, <2>3
<1>2. \A p \in Key : guard[p] # Absent => guard'[p] # Absent
  BY <1>1, StorageAssumption
<1>3. guard' \in [Key -> Pages!Guard \cup {Absent}]
  <2>1. guard' = [p \in Key |-> Pages!Kept(guard[p], now')]
    BY DEF Pages!Tick
  <2>2. \A p \in Key : guard'[p] \in Pages!Guard \cup {Absent}
    BY <1>1
  <2> QED BY <2>1, <2>2
<1>4. UNCHANGED <<secret, guards, sessions, cert, req, breached, mixed>>
  BY DEF Pages!Tick
<1>5. Pages!TypeOK'
  BY <1>0, <1>3, <1>4, <1>t DEF Pages!TypeOK, Pages!Cold!TableType
<1>6. GatesMade'
  <2>1. guards \subseteq Key /\ sessions \subseteq Key
    BY <1>t DEF Pages!TypeOK
  <2> QED BY <1>2, <1>4, <1>t, <2>1, PagesTypes DEF GatesMade
<1>7. CheckedInTime'
  <2> SUFFICES ASSUME NEW r \in Caller, req[r].op = "checking", req[r].match, ~req[r].late
               PROVE  guard'[req[r].page].locked_until <= now'
    BY <1>4 DEF CheckedInTime
  <2>1. req[r].page \in Key /\ guard[req[r].page] # Absent /\ guard[req[r].page].locked_until \in Nat
    BY <1>t, PagesTypes DEF GatesMade
  <2>2. guard[req[r].page].locked_until <= now
    BY <1>t DEF CheckedInTime
  <2> QED BY <1>0, <1>1, <2>1, <2>2
<1>8. Pages!GateWithPage'
  <2> SUFFICES ASSUME NEW p \in Key, guard'[p] # Absent, guard'[p].expire > now'
               PROVE  p \in sessions /\ p \in guards
    BY <1>4 DEF Pages!GateWithPage, Pages!LiveGuard
  <2>1. guard[p] # Absent /\ guard[p].expire \in Nat /\ guard'[p].expire = guard[p].expire
    BY <1>1, <1>t, PagesTypes
  <2>2. guard[p].expire > now
    BY <1>0, <2>1
  <2> QED BY <2>1, <2>2 DEF PagesInv, Pages!GateWithPage, Pages!LiveGuard
<1> QED BY <1>4, <1>5, <1>6, <1>7, <1>8 DEF PagesInv, Pages!CertificateIsAsked, Pages!LockoutHolds

\* A gate and a session of the same id are made, after what has expired went.
LEMMA PagesCreate ==
  ASSUME PagesInv, NEW p \in Key, NEW q \in Account, Pages!CreatePage(p, q)
  PROVE  PagesInv'
<1>t. Pages!TypeOK /\ GatesMade /\ CheckedInTime
  BY DEF PagesInv
<1>0. guard[p] = Absent /\ UNCHANGED <<now, secret, cert, req, breached, mixed>>
  BY DEF Pages!CreatePage
<1>1. CASE guards' = guards \ Pages!Swept /\ sessions' = sessions \ Pages!Swept /\ guard' = guard
  BY <1>0, <1>1, ForgetStep DEF Pages!Swept
<1>2. CASE /\ guard' = [guard EXCEPT ![p] = Pages!NewGuard(q)]
           /\ guards' = {k \in guards \ Pages!Swept : Pages!LiveGuard(k)} \cup {p}
           /\ sessions' = (sessions \ Pages!Swept) \cup {p}
  <2>1. now + GUARD_EXPIRE \in Nat /\ 0 \in 0..MAX_FAILS
    BY <1>t, PagesTypes, StorageAssumption
  <2>2. Pages!NewGuard(q) \in Pages!Guard
    BY <2>1 DEF Pages!NewGuard, Pages!Guard
  <2>3. /\ guard' \in [Key -> Pages!Guard \cup {Absent}] /\ guard'[p] # Absent
        /\ \A k \in Key : k # p => guard'[k] = guard[k]
    BY <1>2, <1>t, <2>2, StorageAssumption DEF Pages!TypeOK
  <2>4. guards \subseteq Key /\ sessions \subseteq Key /\ guards' \subseteq Key /\ sessions' \subseteq Key
    BY <1>2, <1>t DEF Pages!TypeOK
  <2>5. Pages!TypeOK'
    BY <1>0, <2>3, <2>4, <1>t DEF Pages!TypeOK, Pages!Cold!TableType
  <2>6. \A r \in Caller : req[r] # Pages!Idle => req[r].page \in Key \ {p}
    BY <1>0, <1>t, PagesTypes DEF GatesMade
  <2>7. GatesMade'
    BY <1>0, <1>2, <1>t, <2>3, <2>4, <2>6 DEF GatesMade
  <2>8. CheckedInTime'
    BY <1>0, <1>t, <2>3, <2>6, PagesTypes DEF CheckedInTime
  <2>9. Pages!GateWithPage'
    <3> SUFFICES ASSUME NEW k \in Key, guard'[k] # Absent, guard'[k].expire > now
                 PROVE  k \in sessions' /\ k \in guards'
      BY <1>0 DEF Pages!GateWithPage, Pages!LiveGuard
    <3>1. CASE k = p
      BY <1>2, <3>1
    <3>2. CASE k # p
      <4>1. guard[k] # Absent /\ Pages!LiveGuard(k)
        BY <2>3, <3>2 DEF Pages!LiveGuard
      <4>2. k \in sessions /\ k \in guards
        BY <4>1 DEF PagesInv, Pages!GateWithPage
      <4> QED BY <1>2, <4>1, <4>2 DEF Pages!Swept
    <3> QED BY <3>1, <3>2
  <2> QED BY <1>0, <2>5, <2>7, <2>8, <2>9 DEF PagesInv, Pages!CertificateIsAsked, Pages!LockoutHolds
<1> QED BY <1>1, <1>2 DEF Pages!CreatePage

\* A wrong password: a lock that falls makes the right ones under way late.
LEMMA PagesRefuse ==
  ASSUME PagesInv, NEW r \in Caller, Pages!Refuse(r)
  PROVE  PagesInv'
<1>t. Pages!TypeOK /\ GatesMade /\ CheckedInTime
  BY DEF PagesInv
<1>0. PICK p : p = req[r].page
  OBVIOUS
<1>1. /\ req[r].op = "checking" /\ ~req[r].match /\ req[r] # Pages!Idle
      /\ UNCHANGED <<now, secret, guards, sessions, cert, breached, mixed>>
  BY DEF Pages!Refuse, Pages!Idle
<1>2. p \in Key /\ guard[p] # Absent /\ guard[p] \in Pages!Guard
  BY <1>0, <1>1, <1>t, PagesTypes DEF GatesMade
<1>3. PICK g \in Pages!Guard :
        /\ guard' = [guard EXCEPT ![p] = g] /\ g.expire = guard[p].expire
        /\ \/ /\ g.locked_until = guard[p].locked_until
              /\ req' = [req EXCEPT ![r] = Pages!Idle]
           \/ req' = [o \in Caller |->
                         IF o = r THEN Pages!Idle
                         ELSE IF o \in Pages!Checking(p) /\ req[o].match THEN [req[o] EXCEPT !.late = TRUE]
                         ELSE req[o]]
  <2>1. CASE guard[p].fails + 1 >= MAX_FAILS
    <3>1. /\ guard' = [guard EXCEPT ![p].fails = 0, ![p].locked_until = now + LOCK]
          /\ req' = [o \in Caller |->
                         IF o = r THEN Pages!Idle
                         ELSE IF o \in Pages!Checking(p) /\ req[o].match THEN [req[o] EXCEPT !.late = TRUE]
                         ELSE req[o]]
      BY <1>0, <2>1 DEF Pages!Refuse
    <3>2. now + LOCK \in Nat /\ 0 \in 0..MAX_FAILS
      BY <1>t, PagesTypes, StorageAssumption
    <3>3. [[guard[p] EXCEPT !.fails = 0] EXCEPT !.locked_until = now + LOCK] \in Pages!Guard
      BY <1>2, <3>2 DEF Pages!Guard
    <3>4. guard' = [guard EXCEPT ![p] = [[guard[p] EXCEPT !.fails = 0] EXCEPT !.locked_until = now + LOCK]]
      BY <3>1, <1>2, <1>t DEF Pages!TypeOK
    <3>5. [[guard[p] EXCEPT !.fails = 0] EXCEPT !.locked_until = now + LOCK].expire = guard[p].expire
      BY <1>2 DEF Pages!Guard
    <3> QED BY <3>1, <3>3, <3>4, <3>5
  <2>2. CASE ~(guard[p].fails + 1 >= MAX_FAILS)
    <3>1. guard' = [guard EXCEPT ![p].fails = @ + 1] /\ req' = [req EXCEPT ![r] = Pages!Idle]
      BY <1>0, <2>2 DEF Pages!Refuse
    <3>2. guard[p].fails + 1 \in 0..MAX_FAILS
      BY <1>2, <2>2, StorageAssumption DEF Pages!Guard
    <3>3. [guard[p] EXCEPT !.fails = @ + 1] \in Pages!Guard
      BY <1>2, <3>2 DEF Pages!Guard
    <3>4. guard' = [guard EXCEPT ![p] = [guard[p] EXCEPT !.fails = @ + 1]]
      BY <3>1, <1>2, <1>t DEF Pages!TypeOK
    <3>5. /\ [guard[p] EXCEPT !.fails = @ + 1].expire = guard[p].expire
          /\ [guard[p] EXCEPT !.fails = @ + 1].locked_until = guard[p].locked_until
      BY <1>2 DEF Pages!Guard
    <3> QED BY <3>1, <3>3, <3>4, <3>5
  <2> QED BY <2>1, <2>2
<1>4. /\ guard' \in [Key -> Pages!Guard \cup {Absent}]
      /\ \A k \in Key : guard[k] # Absent => guard'[k] # Absent
      /\ Pages!GateWithPage'
      /\ \A k \in guards' \cup sessions' : guard'[k] # Absent
  BY <1>1, <1>2, <1>3, GateUpdate
<1>5. /\ guard'[p] = g /\ \A k \in Key : k # p => guard'[k] = guard[k]
  BY <1>2, <1>3, <1>t DEF Pages!TypeOK
<1>6. req' \in [Caller -> Pages!Request] /\ req'[r] = Pages!Idle
      /\ \A o \in Caller : o # r =>
           \/ req'[o] = req[o] /\ (req[o].op = "checking" /\ req[o].match /\ req[o].page = p
                                      => g.locked_until = guard[p].locked_until)
           \/ req'[o] = [req[o] EXCEPT !.late = TRUE] /\ req[o].op = "checking"
  <2>1. CASE g.locked_until = guard[p].locked_until /\ req' = [req EXCEPT ![r] = Pages!Idle]
    <3>1. Pages!Idle \in Pages!Request
      BY DEF Pages!Request
    <3> QED BY <2>1, <3>1, RequestChange
  <2>2. CASE req' = [o \in Caller |->
                         IF o = r THEN Pages!Idle
                         ELSE IF o \in Pages!Checking(p) /\ req[o].match THEN [req[o] EXCEPT !.late = TRUE]
                         ELSE req[o]]
    <3>1. \A o \in Caller : req[o] \in Pages!Request
      BY <1>t DEF Pages!TypeOK
    <3>2. ASSUME NEW o \in Caller, o \in Pages!Checking(p)
          PROVE  [req[o] EXCEPT !.late = TRUE] \in Pages!Request
      <4>1. req[o].op = "checking" /\ req[o] \in Pages!Request
        BY <3>1, <3>2 DEF Pages!Checking
      <4>2. req[o] \in [op : {"checking"}, page : Key, match : BOOLEAN, late : BOOLEAN]
        BY <4>1 DEF Pages!Request, Pages!Idle
      <4>3. [req[o] EXCEPT !.late = TRUE] \in [op : {"checking"}, page : Key, match : BOOLEAN, late : BOOLEAN]
        BY <4>2
      <4> QED BY <4>3 DEF Pages!Request
    <3>3. Pages!Idle \in Pages!Request
      BY DEF Pages!Request
    <3>4. \A o \in Caller : req'[o] = IF o = r THEN Pages!Idle
                         ELSE IF o \in Pages!Checking(p) /\ req[o].match THEN [req[o] EXCEPT !.late = TRUE]
                         ELSE req[o]
      BY <2>2
    <3>5. \A o \in Caller : req'[o] \in Pages!Request
      BY <3>1, <3>2, <3>3, <3>4
    <3>6. req' \in [Caller -> Pages!Request]
      BY <2>2, <3>5
    <3> QED BY <3>4, <3>6 DEF Pages!Checking
  <2> QED BY <1>3, <2>1, <2>2
<1>7. Pages!TypeOK'
  BY <1>1, <1>4, <1>6, <1>t DEF Pages!TypeOK, Pages!Cold!TableType
<1>8. \A o \in Caller : o # r /\ req'[o] # Pages!Idle => req[o] # Pages!Idle /\ req'[o].page = req[o].page
  <2> SUFFICES ASSUME NEW o \in Caller, o # r, req[o].op = "checking",
                      req'[o] = [req[o] EXCEPT !.late = TRUE]
               PROVE  req[o] # Pages!Idle /\ req'[o].page = req[o].page
    BY <1>6
  <2>1. req[o] \in [op : {"checking"}, page : Key, match : BOOLEAN, late : BOOLEAN]
    BY <1>t DEF Pages!TypeOK, Pages!Request, Pages!Idle
  <2> QED BY <2>1 DEF Pages!Idle
<1>9. GatesMade'
  BY <1>4, <1>6, <1>8, <1>t, PagesTypes DEF GatesMade
<1>10. CheckedInTime'
  <2> SUFFICES ASSUME NEW o \in Caller, req'[o].op = "checking", req'[o].match, ~req'[o].late
               PROVE  guard'[req'[o].page].locked_until <= now
    BY <1>1 DEF CheckedInTime
  <2>1. o # r
    BY <1>6 DEF Pages!Idle
  <2>2. CASE req'[o] = [req[o] EXCEPT !.late = TRUE] /\ req[o].op = "checking"
    <3>1. req[o] \in [op : {"checking"}, page : Key, match : BOOLEAN, late : BOOLEAN]
      BY <2>2, <1>t DEF Pages!TypeOK, Pages!Request, Pages!Idle
    <3> QED BY <2>2, <3>1
  <2>3. CASE /\ req'[o] = req[o]
             /\ req[o].op = "checking" /\ req[o].match /\ req[o].page = p
                  => g.locked_until = guard[p].locked_until
    <3>1. guard[req[o].page].locked_until <= now /\ req[o].page \in Key
      BY <2>3, <1>t, PagesTypes DEF CheckedInTime
    <3> QED BY <2>3, <3>1, <1>5
  <2> QED BY <2>1, <2>2, <2>3, <1>6
<1> QED BY <1>1, <1>4, <1>7, <1>9, <1>10 DEF PagesInv, Pages!CertificateIsAsked, Pages!LockoutHolds

\* The right password opens a page only while it is not locked, or late.
LEMMA PagesUnlock ==
  ASSUME PagesInv, NEW r \in Caller, Pages!Unlock(r) \/ Pages!RevokeToken(r)
  PROVE  PagesInv'
<1>t. Pages!TypeOK /\ GatesMade /\ CheckedInTime
  BY DEF PagesInv
<1>0. PICK p : p = req[r].page
  OBVIOUS
<1>1. /\ req[r] # Pages!Idle /\ req' = [req EXCEPT ![r] = Pages!Idle]
      /\ UNCHANGED <<now, secret, guards, sessions, cert, mixed>>
  BY DEF Pages!Unlock, Pages!RevokeToken, Pages!Idle
<1>2. p \in Key /\ guard[p] # Absent /\ guard[p] \in Pages!Guard
  BY <1>0, <1>1, <1>t, PagesTypes DEF GatesMade
<1>3. PICK g \in Pages!Guard :
        /\ guard' = [guard EXCEPT ![p] = g] /\ g.expire = guard[p].expire
        /\ g.locked_until = guard[p].locked_until
  <2>0. 0 \in 0..MAX_FAILS /\ guard \in [Key -> Pages!Guard \cup {Absent}]
    BY <1>t, StorageAssumption DEF Pages!TypeOK
  <2>1. CASE Pages!Unlock(r)
    <3>1. guard' = [guard EXCEPT ![p] = [[guard[p] EXCEPT !.token = TRUE] EXCEPT !.fails = 0]]
      BY <1>0, <1>2, <2>0, <2>1 DEF Pages!Unlock
    <3>2. /\ [[guard[p] EXCEPT !.token = TRUE] EXCEPT !.fails = 0] \in Pages!Guard
          /\ [[guard[p] EXCEPT !.token = TRUE] EXCEPT !.fails = 0].expire = guard[p].expire
          /\ [[guard[p] EXCEPT !.token = TRUE] EXCEPT !.fails = 0].locked_until = guard[p].locked_until
      BY <1>2, <2>0 DEF Pages!Guard
    <3> QED BY <3>1, <3>2
  <2>2. CASE Pages!RevokeToken(r)
    <3>1. guard' = [guard EXCEPT ![p] = [guard[p] EXCEPT !.token = FALSE]]
      BY <1>0, <1>2, <2>0, <2>2 DEF Pages!RevokeToken
    <3>2. /\ [guard[p] EXCEPT !.token = FALSE] \in Pages!Guard
          /\ [guard[p] EXCEPT !.token = FALSE].expire = guard[p].expire
          /\ [guard[p] EXCEPT !.token = FALSE].locked_until = guard[p].locked_until
      BY <1>2 DEF Pages!Guard
    <3> QED BY <3>1, <3>2
  <2> QED BY <2>1, <2>2
<1>4. /\ guard' \in [Key -> Pages!Guard \cup {Absent}]
      /\ \A k \in Key : guard[k] # Absent => guard'[k] # Absent
      /\ Pages!GateWithPage'
      /\ \A k \in guards' \cup sessions' : guard'[k] # Absent
  BY <1>1, <1>2, <1>3, GateUpdate
<1>5. \A k \in Key : guard'[k].locked_until = guard[k].locked_until
  BY <1>2, <1>3, <1>t DEF Pages!TypeOK
<1>6. /\ req' \in [Caller -> Pages!Request]
      /\ req'[r] = Pages!Idle /\ \A o \in Caller : o # r => req'[o] = req[o]
  <2>1. Pages!Idle \in Pages!Request
    BY DEF Pages!Request
  <2> QED BY <1>1, <2>1, RequestChange
<1>7. breached' = breached
  <2>1. CASE Pages!Unlock(r)
    <3>1. req[r].op = "checking" /\ req[r].match
      BY <2>1 DEF Pages!Unlock
    <3>2. req[r].late \in BOOLEAN /\ guard[p].locked_until \in Nat /\ now \in Nat
      BY <1>2, <1>t, <3>1, PagesTypes
    <3>3. ~(guard[p].locked_until > now /\ ~req[r].late)
      BY <1>0, <1>t, <3>1, <3>2 DEF CheckedInTime
    <3> QED BY <1>0, <2>1, <3>3 DEF Pages!Unlock
  <2>2. CASE Pages!RevokeToken(r)
    BY <2>2 DEF Pages!RevokeToken
  <2> QED BY <2>1, <2>2
<1>8. Pages!TypeOK'
  BY <1>1, <1>4, <1>6, <1>7, <1>t DEF Pages!TypeOK, Pages!Cold!TableType
<1>9. GatesMade'
  BY <1>4, <1>6, <1>t, PagesTypes DEF GatesMade
<1>10. CheckedInTime'
  BY <1>1, <1>5, <1>6, <1>t, PagesTypes DEF CheckedInTime, Pages!Idle
<1> QED BY <1>1, <1>4, <1>7, <1>8, <1>9, <1>10 DEF PagesInv, Pages!CertificateIsAsked, Pages!LockoutHolds

\* Every step keeps the invariant.
LEMMA PagesStep == PagesInv /\ Pages!Next => PagesInv'
<1> SUFFICES ASSUME PagesInv, Pages!Next PROVE PagesInv'
  OBVIOUS
<1>t. Pages!TypeOK /\ GatesMade
  BY DEF PagesInv
<1>1. CASE Pages!Tick
  BY <1>1, PagesTick
<1>2. ASSUME NEW q \in Account, NEW pw \in Strong, Pages!SetPassword(q, pw) PROVE PagesInv'
  <2>1. Pages!TypeOK'
    BY <1>2, <1>t DEF Pages!SetPassword, Pages!TypeOK, Pages!Cold!InsertOk, Pages!Cold!TableType
  <2> QED BY <1>2, <2>1 DEF Pages!SetPassword, PagesInv, GatesMade, CheckedInTime,
        Pages!GateWithPage, Pages!LiveGuard, Pages!CertificateIsAsked, Pages!LockoutHolds
<1>3. ASSUME NEW p \in Key, Pages!OpenGuard(p) \/ Pages!OpenPage(p) PROVE PagesInv'
  BY <1>3, ForgetStep DEF Pages!OpenGuard, Pages!OpenPage, Pages!GuardsAfterGet
<1>4. ASSUME NEW p \in Key, NEW q \in Account, Pages!CreatePage(p, q) PROVE PagesInv'
  BY <1>4, PagesCreate
<1>5. ASSUME NEW p \in Key, NEW w \in Certificate, Pages!Download(p, w) PROVE PagesInv'
  <2>1. mixed' = mixed /\ UNCHANGED <<now, secret, guard, guards, sessions, cert, req, breached>>
    BY <1>5 DEF Pages!Download, Pages!CachedFor, Pages!Answered
  <2> QED BY <2>1, <1>t, CertificateStep DEF Pages!TypeOK
<1>6. ASSUME NEW r \in Caller, Pages!Refuse(r) \/ Pages!Unlock(r) \/ Pages!RevokeToken(r) PROVE PagesInv'
  BY <1>6, PagesRefuse, PagesUnlock
<1>7. ASSUME NEW r \in Caller, Pages!FinishPrint(r) PROVE PagesInv'
  <2>1. req[r].op = "printing" /\ req[r].page \in Key /\ req[r].wid \in Certificate
    BY <1>7, <1>t, PagesTypes DEF Pages!FinishPrint
  <2>2. /\ req' = [req EXCEPT ![r] = Pages!Idle]
        /\ UNCHANGED <<now, secret, guard, guards, sessions, breached>>
        /\ cert' \in {cert, [cert EXCEPT ![req[r].page] = req[r].wid]}
        /\ mixed' = mixed
    BY <1>7 DEF Pages!FinishPrint, Pages!CachedFor, Pages!Answered
  <2>3. cert' \in [Key -> Certificate \cup {Absent}]
    BY <2>1, <2>2, <1>t DEF Pages!TypeOK
  <2> QED BY <2>2, <2>3, CertificateStep
<1>8. ASSUME NEW r \in Caller, NEW p \in Key, NEW pw \in Strong, Pages!BeginUnlock(r, p, pw) PROVE PagesInv'
  <2>1. PICK s : req' = [req EXCEPT ![r] = [op |-> "checking", page |-> p, match |-> pw = s, late |-> FALSE]]
    BY <1>8 DEF Pages!BeginUnlock
  <2>2. [op |-> "checking", page |-> p, match |-> pw = s, late |-> FALSE] \in Pages!Request
    BY DEF Pages!Request
  <2>3. p \in guards /\ guard[p].locked_until <= now
        /\ UNCHANGED <<now, secret, guard, guards, sessions, cert, breached, mixed>>
    BY <1>8 DEF Pages!BeginUnlock
  <2>4. guard[p] # Absent
    BY <2>3, <1>t DEF GatesMade
  <2> QED BY <2>1, <2>2, <2>3, <2>4, RequestStep
<1>9. ASSUME NEW r \in Caller, NEW p \in Key, Pages!BeginLock(r, p) PROVE PagesInv'
  <2>1. /\ req' = [req EXCEPT ![r] = [op |-> "revoking", page |-> p]] /\ p \in guards
        /\ UNCHANGED <<now, secret, guard, guards, sessions, cert, breached, mixed>>
    BY <1>9 DEF Pages!BeginLock, Pages!Verified
  <2>2. [op |-> "revoking", page |-> p] \in Pages!Request
    BY DEF Pages!Request
  <2> QED BY <2>1, <2>2, <1>t, RequestStep DEF GatesMade
<1>10. ASSUME NEW r \in Caller, NEW p \in Key, NEW w \in Certificate, Pages!BeginPrint(r, p, w) PROVE PagesInv'
  <2>1. /\ req' = [req EXCEPT ![r] = [op |-> "printing", page |-> p, wid |-> w]] /\ p \in sessions
        /\ UNCHANGED <<now, secret, guard, guards, sessions, cert, breached, mixed>>
    BY <1>10 DEF Pages!BeginPrint, Pages!Authorized
  <2>2. [op |-> "printing", page |-> p, wid |-> w] \in Pages!Request
    BY DEF Pages!Request
  <2> QED BY <2>1, <2>2, <1>t, RequestStep DEF GatesMade
<1> QED BY <1>1, <1>2, <1>3, <1>4, <1>5, <1>6, <1>7, <1>8, <1>9, <1>10 DEF Pages!Next

\* So does a step of another part.
LEMMA PagesStutter == PagesInv /\ UNCHANGED <<webVars, req, pageVars>> => PagesInv'
BY DEF PagesInv, webVars, pageVars, Pages!TypeOK, Pages!Cold!TableType, GatesMade, CheckedInTime,
       Pages!GateWithPage, Pages!LiveGuard, Pages!CertificateIsAsked, Pages!LockoutHolds

-----------------------------------------------------------------------------
(* Pages rendered from Markdown (MarkdownPage).                            *)

Asked == [at : {"idle"}] \cup [at : {"open"}, page : Key]
         \cup [at : {"done"}, page : Key, answer : Markdown!Answers]
MarkdownTypes == Markdown!TypeOK /\ req \in [Caller -> Asked]

\* What the stage of a task says of its file and of the queue.
Stages ==
  \A p \in Key :
    /\ p \notin begun =>
         task[p] = "none" /\ pdf[p] = "none" /\ p \notin DATA /\ p \notin ON_QUEUE
    /\ task[p] \in {"prepare", "render", "finish", "freeze", "list"} => p \in ON_QUEUE
    /\ task[p] \in {"prepare", "render", "finish", "freeze", "list", "insert"} => p \notin DATA
    /\ task[p] = "prepare" => pdf[p] = "none"
    /\ task[p] = "finish" => pdf[p] = "whole"
    /\ task[p] \in {"freeze", "list", "insert", "done"} => p \in readonly
    /\ task[p] = "done" => p \in DATA
    /\ task[p] \in {"insert", "done"} => p \notin ON_QUEUE

\* A file is locked, and read ahead or opened, only when it is whole.
LockedIsWhole ==
  /\ DATA \subseteq readonly /\ read_rx \subseteq readonly
  /\ \A p \in readonly : pdf[p] = "whole"
  /\ \A p \in Key : ahead[p] \in {"unread", "whole"}
  /\ \A r \in Caller : req[r].at = "open" => req[r].page \in readonly

MarkdownInv ==
  /\ MarkdownTypes /\ Stages /\ LockedIsWhole
  /\ Markdown!ServedIsWhole /\ Markdown!CompleteHasContents

\* The markdown pages start with nothing shown.
LEMMA MarkdownInit == Markdown!Init => MarkdownInv
<1> SUFFICES ASSUME Markdown!Init PROVE MarkdownInv
  OBVIOUS
<1> USE DEF Markdown!Init
<1>1. Markdown!TypeOK
  BY StorageAssumption DEF Markdown!TypeOK, Markdown!Contents
<1>2. req \in [Caller -> Asked]
  BY DEF Asked
<1>3. Stages /\ LockedIsWhole
  BY DEF Stages, LockedIsWhole
<1>4. Markdown!ServedIsWhole /\ Markdown!CompleteHasContents
  BY DEF Markdown!ServedIsWhole, Markdown!CompleteHasContents
<1> QED BY <1>1, <1>2, <1>3, <1>4 DEF MarkdownInv, MarkdownTypes

\* A request is answered, or finds the row: nothing else changes, and what it
\* is answered with is not a piece of a file.
LEMMA MarkdownAsk ==
  ASSUME MarkdownInv, NEW r \in Caller, NEW q \in Asked, req' = [req EXCEPT ![r] = q],
         q.at = "open" => q.page \in readonly,
         q.at = "done" => q.answer \notin {"gone", "none", "part"},
         UNCHANGED markdownVars
  PROVE  MarkdownInv'
<1> USE DEF markdownVars
<1>1. /\ req' \in [Caller -> Asked]
      /\ req'[r] = q /\ \A o \in Caller : o # r => req'[o] = req[o]
  BY DEF MarkdownInv, MarkdownTypes
<1>2. \A o \in Caller : req'[o].at \in {"idle", "open", "done"}
  BY <1>1 DEF Asked
<1>3. Markdown!TypeOK'
  BY <1>2 DEF MarkdownInv, MarkdownTypes, Markdown!TypeOK
<1>4. Stages' /\ LockedIsWhole'
  BY <1>1 DEF MarkdownInv, Stages, LockedIsWhole
<1>5. Markdown!ServedIsWhole'
  BY <1>1 DEF MarkdownInv, Markdown!ServedIsWhole
<1>6. Markdown!CompleteHasContents'
  BY DEF MarkdownInv, Markdown!CompleteHasContents, Markdown!At
<1> QED BY <1>1, <1>3, <1>4, <1>5, <1>6 DEF MarkdownInv, MarkdownTypes

\* Every step keeps the invariant.
LEMMA MarkdownStep == MarkdownInv /\ Markdown!Next => MarkdownInv'
<1> SUFFICES ASSUME MarkdownInv, Markdown!Next PROVE MarkdownInv'
  OBVIOUS
<1>t. /\ Markdown!TypeOK /\ req \in [Caller -> Asked] /\ Stages /\ LockedIsWhole
      /\ Markdown!ServedIsWhole /\ Markdown!CompleteHasContents
  BY DEF MarkdownInv, MarkdownTypes
<1>r. \A r \in Caller : req[r].at \in {"idle", "open", "done"}
  BY <1>t DEF Asked
<1> USE DEF Markdown!At, Markdown!Go, Markdown!Fails, Markdown!files, Markdown!past
<1>1. CASE Markdown!Commit
  <2>1. Markdown!TypeOK'
    BY <1>1, <1>t DEF Markdown!Commit, Markdown!TypeOK
  <2>2. Stages' /\ LockedIsWhole'
    BY <1>1, <1>t DEF Markdown!Commit, Stages, LockedIsWhole
  <2>3. Markdown!ServedIsWhole' /\ Markdown!CompleteHasContents'
    BY <1>1, <1>t DEF Markdown!Commit, Markdown!ServedIsWhole, Markdown!CompleteHasContents
  <2>4. req' = req
    BY <1>1 DEF Markdown!Commit
  <2> QED BY <1>t, <2>1, <2>2, <2>3, <2>4 DEF MarkdownInv, MarkdownTypes
<1>2. CASE Markdown!Restart
  <2>0. req' \in [Caller -> Asked] /\ \A r \in Caller : req'[r].at = "idle"
    BY <1>2 DEF Markdown!Restart, Asked
  <2>1. Markdown!TypeOK'
    BY <1>2, <1>t, <2>0, StorageAssumption DEF Markdown!Restart, Markdown!TypeOK
  <2>2. Stages' /\ LockedIsWhole'
    BY <1>2, <1>t DEF Markdown!Restart, Markdown!TypeOK, Stages, LockedIsWhole
  <2>3. Markdown!ServedIsWhole'
    BY <1>2, <1>t DEF Markdown!Restart, Markdown!TypeOK, Markdown!ServedIsWhole
  <2>4. Markdown!CompleteHasContents'
    BY <1>2, <1>t DEF Markdown!Restart, Markdown!TypeOK, Markdown!CompleteHasContents
  <2> QED BY <2>0, <2>1, <2>2, <2>3, <2>4 DEF MarkdownInv, MarkdownTypes
<1>3. ASSUME NEW p \in Key, Markdown!NewTask(p) PROVE MarkdownInv'
  <2>1. Markdown!TypeOK'
    BY <1>3, <1>t DEF Markdown!NewTask, Markdown!TypeOK, Markdown!Contents
  <2>2. Stages'
    BY <1>3, <1>t DEF Markdown!NewTask, Markdown!TypeOK, Stages, LockedIsWhole
  <2>3. LockedIsWhole'
    BY <1>3, <1>t DEF Markdown!NewTask, Markdown!TypeOK, Stages, LockedIsWhole
  <2>4. Markdown!ServedIsWhole'
    BY <1>3, <1>t DEF Markdown!NewTask, Markdown!TypeOK, Stages, LockedIsWhole, Markdown!ServedIsWhole
  <2>5. Markdown!CompleteHasContents'
    BY <1>3, <1>t DEF Markdown!NewTask, Markdown!TypeOK, Stages, Markdown!CompleteHasContents
  <2>6. req' = req
    BY <1>3 DEF Markdown!NewTask
  <2> QED BY <1>t, <2>1, <2>2, <2>3, <2>4, <2>5, <2>6 DEF MarkdownInv, MarkdownTypes
<1>4. ASSUME NEW p \in Key, Markdown!Prepare(p) PROVE MarkdownInv'
  <2>1. Markdown!TypeOK'
    BY <1>4, <1>t DEF Markdown!Prepare, Markdown!TypeOK, Markdown!Contents
  <2>2. Stages'
    BY <1>4, <1>t DEF Markdown!Prepare, Markdown!TypeOK, Stages, LockedIsWhole
  <2>3. LockedIsWhole'
    BY <1>4, <1>t DEF Markdown!Prepare, Markdown!TypeOK, Stages, LockedIsWhole
  <2>4. Markdown!ServedIsWhole'
    BY <1>4, <1>t DEF Markdown!Prepare, Markdown!TypeOK, Stages, LockedIsWhole, Markdown!ServedIsWhole
  <2>5. Markdown!CompleteHasContents'
    BY <1>4, <1>t DEF Markdown!Prepare, Markdown!TypeOK, Stages, Markdown!CompleteHasContents
  <2>6. req' = req
    BY <1>4 DEF Markdown!Prepare
  <2> QED BY <1>t, <2>1, <2>2, <2>3, <2>4, <2>5, <2>6 DEF MarkdownInv, MarkdownTypes
<1>5. ASSUME NEW p \in Key, Markdown!ChromeWrites(p) PROVE MarkdownInv'
  <2>1. Markdown!TypeOK'
    BY <1>5, <1>t DEF Markdown!ChromeWrites, Markdown!TypeOK, Markdown!Contents
  <2>2. Stages'
    BY <1>5, <1>t DEF Markdown!ChromeWrites, Markdown!TypeOK, Stages, LockedIsWhole
  <2>3. LockedIsWhole'
    BY <1>5, <1>t DEF Markdown!ChromeWrites, Markdown!TypeOK, Stages, LockedIsWhole
  <2>4. Markdown!ServedIsWhole'
    BY <1>5, <1>t DEF Markdown!ChromeWrites, Markdown!TypeOK, Stages, LockedIsWhole, Markdown!ServedIsWhole
  <2>5. Markdown!CompleteHasContents'
    BY <1>5, <1>t DEF Markdown!ChromeWrites, Markdown!TypeOK, Stages, Markdown!CompleteHasContents
  <2>6. req' = req
    BY <1>5 DEF Markdown!ChromeWrites
  <2> QED BY <1>t, <2>1, <2>2, <2>3, <2>4, <2>5, <2>6 DEF MarkdownInv, MarkdownTypes
<1>6. ASSUME NEW p \in Key, Markdown!RenderPdf(p) PROVE MarkdownInv'
  <2>1. Markdown!TypeOK'
    BY <1>6, <1>t DEF Markdown!RenderPdf, Markdown!TypeOK, Markdown!Contents
  <2>2. Stages'
    BY <1>6, <1>t DEF Markdown!RenderPdf, Markdown!TypeOK, Stages, LockedIsWhole
  <2>3. LockedIsWhole'
    BY <1>6, <1>t DEF Markdown!RenderPdf, Markdown!TypeOK, Stages, LockedIsWhole
  <2>4. Markdown!ServedIsWhole'
    BY <1>6, <1>t DEF Markdown!RenderPdf, Markdown!TypeOK, Stages, LockedIsWhole, Markdown!ServedIsWhole
  <2>5. Markdown!CompleteHasContents'
    BY <1>6, <1>t DEF Markdown!RenderPdf, Markdown!TypeOK, Stages, Markdown!CompleteHasContents
  <2>6. req' = req
    BY <1>6 DEF Markdown!RenderPdf
  <2> QED BY <1>t, <2>1, <2>2, <2>3, <2>4, <2>5, <2>6 DEF MarkdownInv, MarkdownTypes
<1>7. ASSUME NEW p \in Key, Markdown!Finish(p) PROVE MarkdownInv'
  <2>1. Markdown!TypeOK'
    BY <1>7, <1>t DEF Markdown!Finish, Markdown!TypeOK, Markdown!Contents
  <2>2. Stages'
    BY <1>7, <1>t DEF Markdown!Finish, Markdown!TypeOK, Stages, LockedIsWhole
  <2>3. LockedIsWhole'
    BY <1>7, <1>t DEF Markdown!Finish, Markdown!TypeOK, Stages, LockedIsWhole
  <2>4. Markdown!ServedIsWhole'
    BY <1>7, <1>t DEF Markdown!Finish, Markdown!TypeOK, Stages, LockedIsWhole, Markdown!ServedIsWhole
  <2>5. Markdown!CompleteHasContents'
    BY <1>7, <1>t DEF Markdown!Finish, Markdown!TypeOK, Stages, Markdown!CompleteHasContents
  <2>6. req' = req
    BY <1>7 DEF Markdown!Finish
  <2> QED BY <1>t, <2>1, <2>2, <2>3, <2>4, <2>5, <2>6 DEF MarkdownInv, MarkdownTypes
<1>8. ASSUME NEW p \in Key, Markdown!Freeze(p) PROVE MarkdownInv'
  <2>1. Markdown!TypeOK'
    BY <1>8, <1>t DEF Markdown!Freeze, Markdown!TypeOK, Markdown!Contents
  <2>2. Stages'
    BY <1>8, <1>t DEF Markdown!Freeze, Markdown!TypeOK, Stages, LockedIsWhole
  <2>3. LockedIsWhole'
    BY <1>8, <1>t DEF Markdown!Freeze, Markdown!TypeOK, Stages, LockedIsWhole
  <2>4. Markdown!ServedIsWhole'
    BY <1>8, <1>t DEF Markdown!Freeze, Markdown!TypeOK, Stages, LockedIsWhole, Markdown!ServedIsWhole
  <2>5. Markdown!CompleteHasContents'
    BY <1>8, <1>t DEF Markdown!Freeze, Markdown!TypeOK, Stages, Markdown!CompleteHasContents
  <2>6. req' = req
    BY <1>8 DEF Markdown!Freeze
  <2> QED BY <1>t, <2>1, <2>2, <2>3, <2>4, <2>5, <2>6 DEF MarkdownInv, MarkdownTypes
<1>9. ASSUME NEW p \in Key, Markdown!ReadAhead(p) PROVE MarkdownInv'
  <2>1. Markdown!TypeOK'
    BY <1>9, <1>t DEF Markdown!ReadAhead, Markdown!TypeOK, Markdown!Contents
  <2>2. Stages'
    BY <1>9, <1>t DEF Markdown!ReadAhead, Markdown!TypeOK, Stages, LockedIsWhole
  <2>3. LockedIsWhole'
    BY <1>9, <1>t DEF Markdown!ReadAhead, Markdown!TypeOK, Stages, LockedIsWhole
  <2>4. Markdown!ServedIsWhole'
    BY <1>9, <1>t DEF Markdown!ReadAhead, Markdown!TypeOK, Stages, LockedIsWhole, Markdown!ServedIsWhole
  <2>5. Markdown!CompleteHasContents'
    BY <1>9, <1>t DEF Markdown!ReadAhead, Markdown!TypeOK, Stages, Markdown!CompleteHasContents
  <2>6. req' = req
    BY <1>9 DEF Markdown!ReadAhead
  <2> QED BY <1>t, <2>1, <2>2, <2>3, <2>4, <2>5, <2>6 DEF MarkdownInv, MarkdownTypes
<1>10. ASSUME NEW p \in Key, Markdown!Unqueue(p) PROVE MarkdownInv'
  <2>1. Markdown!TypeOK'
    BY <1>10, <1>t DEF Markdown!Unqueue, Markdown!TypeOK, Markdown!Contents
  <2>2. Stages'
    BY <1>10, <1>t DEF Markdown!Unqueue, Markdown!TypeOK, Stages, LockedIsWhole
  <2>3. LockedIsWhole'
    BY <1>10, <1>t DEF Markdown!Unqueue, Markdown!TypeOK, Stages, LockedIsWhole
  <2>4. Markdown!ServedIsWhole'
    BY <1>10, <1>t DEF Markdown!Unqueue, Markdown!TypeOK, Stages, LockedIsWhole, Markdown!ServedIsWhole
  <2>5. Markdown!CompleteHasContents'
    BY <1>10, <1>t DEF Markdown!Unqueue, Markdown!TypeOK, Stages, Markdown!CompleteHasContents
  <2>6. req' = req
    BY <1>10 DEF Markdown!Unqueue
  <2> QED BY <1>t, <2>1, <2>2, <2>3, <2>4, <2>5, <2>6 DEF MarkdownInv, MarkdownTypes
<1>11. ASSUME NEW p \in Key, Markdown!InsertResult(p) PROVE MarkdownInv'
  <2>1. Markdown!TypeOK'
    BY <1>11, <1>t DEF Markdown!InsertResult, Markdown!TypeOK, Markdown!Contents
  <2>2. Stages'
    BY <1>11, <1>t DEF Markdown!InsertResult, Markdown!TypeOK, Stages, LockedIsWhole
  <2>3. LockedIsWhole'
    BY <1>11, <1>t DEF Markdown!InsertResult, Markdown!TypeOK, Stages, LockedIsWhole
  <2>4. Markdown!ServedIsWhole'
    BY <1>11, <1>t DEF Markdown!InsertResult, Markdown!TypeOK, Stages, LockedIsWhole, Markdown!ServedIsWhole
  <2>5. Markdown!CompleteHasContents'
    BY <1>11, <1>t DEF Markdown!InsertResult, Markdown!TypeOK, Stages, Markdown!CompleteHasContents
  <2>6. req' = req
    BY <1>11 DEF Markdown!InsertResult
  <2> QED BY <1>t, <2>1, <2>2, <2>3, <2>4, <2>5, <2>6 DEF MarkdownInv, MarkdownTypes
<1>12. ASSUME NEW r \in Caller, NEW p \in Key, Markdown!Status(r, p) PROVE MarkdownInv'
  <2>1. PICK a \in {"processing", "complete"} :
          req' = [req EXCEPT ![r] = [at |-> "done", page |-> p, answer |-> a]]
    BY <1>12 DEF Markdown!Status, Markdown!Answer
  <2>2. [at |-> "done", page |-> p, answer |-> a] \in Asked
    BY DEF Asked, Markdown!Answers
  <2>3. UNCHANGED markdownVars
    BY <1>12 DEF Markdown!Status, markdownVars
  <2> QED BY <2>1, <2>2, <2>3, MarkdownAsk
<1>13. ASSUME NEW r \in Caller, NEW p \in Key, Markdown!Content(r, p) PROVE MarkdownInv'
  <2>1. UNCHANGED markdownVars
    BY <1>13 DEF Markdown!Content, markdownVars
  <2>2. CASE p \in DATA
    <3>1. req' = [req EXCEPT ![r] = [at |-> "open", page |-> p]]
      BY <1>13, <2>2 DEF Markdown!Content
    <3>2. [at |-> "open", page |-> p] \in Asked /\ p \in readonly
      BY <2>2, <1>t DEF Asked, LockedIsWhole
    <3> QED BY <2>1, <3>1, <3>2, MarkdownAsk
  <2>3. CASE p \notin DATA
    <3>1. req' = [req EXCEPT ![r] = [at |-> "done", page |-> p, answer |-> "missing"]]
      BY <1>13, <2>3 DEF Markdown!Content, Markdown!Answer
    <3>2. [at |-> "done", page |-> p, answer |-> "missing"] \in Asked
      BY DEF Asked, Markdown!Answers
    <3> QED BY <2>1, <3>1, <3>2, MarkdownAsk
  <2> QED BY <2>2, <2>3
<1>14. ASSUME NEW r \in Caller, Markdown!OpenPdf(r) PROVE MarkdownInv'
  <2>1. UNCHANGED markdownVars /\ req[r].at = "open"
    BY <1>14 DEF Markdown!OpenPdf, markdownVars
  <2>2. req[r].page \in Key /\ pdf[req[r].page] = "whole"
    BY <2>1, <1>t DEF Asked, LockedIsWhole
  <2>3. req' = [req EXCEPT ![r] = [at |-> "done", page |-> req[r].page, answer |-> "whole"]]
    BY <1>14, <2>2 DEF Markdown!OpenPdf, Markdown!Answer
  <2>4. [at |-> "done", page |-> req[r].page, answer |-> "whole"] \in Asked
    BY <2>2 DEF Asked, Markdown!Answers, Markdown!Contents
  <2> QED BY <2>1, <2>3, <2>4, MarkdownAsk
<1> QED BY <1>1, <1>2, <1>3, <1>4, <1>5, <1>6, <1>7, <1>8, <1>9, <1>10, <1>11, <1>12, <1>13, <1>14 DEF Markdown!Next

\* So does a step of another part.
LEMMA MarkdownStutter == MarkdownInv /\ UNCHANGED <<req, markdownVars>> => MarkdownInv'
BY DEF MarkdownInv, MarkdownTypes, markdownVars, Markdown!TypeOK, Stages, LockedIsWhole,
       Markdown!ServedIsWhole, Markdown!CompleteHasContents, Markdown!At

-----------------------------------------------------------------------------
(* The vector store (VectorStore).                                         *)

\* The operators of FiniteSets and Functions that the instance has are those.
LEMMA SameOperators ==
  /\ \A S : Vectors!Cardinality(S) = Cardinality(S)
  /\ \A f : Vectors!Range(f) = Range(f)
BY DEF Vectors!Cardinality, Cardinality, Vectors!Range, Range

\* Rows are numbered in their order, from zero and without a gap.
LEMMA NumberIsLess ==
  ASSUME NEW R \in SUBSET Item, NEW x \in R
  PROVE  Vectors!Number(R, x) \in 0..(Cardinality(R) - 1)
<1>1. IsFiniteSet(R) /\ Cardinality(R) \in Nat
  BY StorageAssumption, FS_Subset, FS_CardinalityType
<1>2. /\ IsFiniteSet(R \ {x}) /\ Cardinality(R \ {x}) = Cardinality(R) - 1
      /\ Cardinality(R \ {x}) \in Nat
  BY <1>1, FS_RemoveElement, FS_CardinalityType
<1>3. x \in Nat /\ \A y \in R : y \in Nat
  BY StorageAssumption
<1>4. {y \in R : y < x} \in SUBSET (R \ {x})
  BY <1>3
<1>5. /\ Cardinality({y \in R : y < x}) <= Cardinality(R \ {x})
      /\ Cardinality({y \in R : y < x}) \in Nat
  BY <1>2, <1>4, FS_Subset, FS_CardinalityType
<1> QED BY <1>1, <1>2, <1>5, SameOperators DEF Vectors!Number

\* A later item has a greater number.
LEMMA NumberGrows ==
  ASSUME NEW R \in SUBSET Item, NEW x \in R, NEW y \in R, x < y
  PROVE  Vectors!Number(R, x) < Vectors!Number(R, y)
<1>1. IsFiniteSet(R)
  BY StorageAssumption, FS_Subset
<1>2. x \in Nat /\ y \in Nat /\ \A z \in R : z \in Nat
  BY StorageAssumption
<1> DEFINE S == {z \in R : z < y}
<1>3. IsFiniteSet(S) /\ x \in S
  BY <1>1, <1>2, FS_Subset
<1>4. IsFiniteSet(S \ {x}) /\ Cardinality(S \ {x}) = Cardinality(S) - 1 /\ Cardinality(S) \in Nat
  BY <1>3, FS_RemoveElement, FS_CardinalityType
<1>5. {z \in R : z < x} \in SUBSET (S \ {x})
  <2>1. ASSUME NEW z \in R, z < x PROVE z < y /\ z # x
    <3>1. z \in Nat /\ x \in Nat /\ y \in Nat
      BY <1>2
    <3> QED BY <3>1, <2>1
  <2> QED BY <2>1
<1>6. Cardinality({z \in R : z < x}) <= Cardinality(S \ {x})
  BY <1>4, <1>5, FS_Subset
<1>7. Cardinality({z \in R : z < x}) \in Nat
  BY <1>4, <1>5, FS_Subset, FS_CardinalityType
<1> HIDE DEF S
<1>8. Cardinality({z \in R : z < x}) < Cardinality(S)
  BY <1>4, <1>6, <1>7
<1> QED BY <1>8, SameOperators DEF Vectors!Number, S

\* Two items of a set have two numbers.
LEMMA NumberTells ==
  ASSUME NEW R \in SUBSET Item, NEW x \in R, NEW y \in R, Vectors!Number(R, x) = Vectors!Number(R, y)
  PROVE  x = y
<1>1. x \in Nat /\ y \in Nat
  BY StorageAssumption
<1>2. Vectors!Number(R, x) \in Nat
  BY NumberIsLess
<1>3. ~(x < y) /\ ~(y < x)
  BY <1>2, NumberGrows
<1> QED BY <1>1, <1>3

\* Every number below the size of a set is an item's.
LEMMA NumberReaches ==
  ASSUME NEW R \in SUBSET Item, NEW n \in 0..(Cardinality(R) - 1)
  PROVE  \E x \in R : Vectors!Number(R, x) = n
<1> DEFINE T == 0..(Cardinality(R) - 1)
           f == [x \in R |-> Vectors!Number(R, x)]
<1>1. IsFiniteSet(R) /\ Cardinality(R) \in Nat
  BY StorageAssumption, FS_Subset, FS_CardinalityType
<1>2. IsFiniteSet(T) /\ Cardinality(T) = Cardinality(R)
  BY <1>1, FS_Interval
<1>3. f \in Injection(R, T)
  BY NumberIsLess, NumberTells DEF Injection, IsInjective
<1>4. f \in Surjection(R, T)
  BY <1>2, <1>3, FS_Injection
<1> QED BY <1>4 DEF Surjection

\* A map made of rows has exactly these, each under the number its point has.
LEMMA MapIsMade ==
  ASSUME NEW R \in SUBSET Item
  PROVE  /\ \E n \in Nat : DOMAIN Vectors!MapOf(R) = 0..(n - 1)
         /\ Vectors!Range(Vectors!MapOf(R)) \subseteq Item
         /\ Vectors!GraphOf(R) \subseteq Item \X Nat
         /\ \A x \in R :
              /\ Vectors!Number(R, x) \in DOMAIN Vectors!MapOf(R)
              /\ Vectors!MapOf(R)[Vectors!Number(R, x)] = x
              /\ <<x, Vectors!Number(R, x)>> \in Vectors!GraphOf(R)
              /\ \A p \in Vectors!GraphOf(R) : p[1] = x => p[2] = Vectors!Number(R, x)
<1>1. Cardinality(R) \in Nat
  BY StorageAssumption, FS_Subset, FS_CardinalityType
<1>2. DOMAIN Vectors!MapOf(R) = 0..(Cardinality(R) - 1)
  BY SameOperators DEF Vectors!MapOf
<1>3. ASSUME NEW n \in 0..(Cardinality(R) - 1) PROVE Vectors!MapOf(R)[n] \in R
  <2>1. \E x \in R : Vectors!Number(R, x) = n
    BY NumberReaches
  <2>2. Vectors!MapOf(R)[n] = CHOOSE x \in R : Vectors!Number(R, x) = n
    BY SameOperators DEF Vectors!MapOf
  <2> QED BY <2>1, <2>2
<1>4. ASSUME NEW x \in R PROVE Vectors!MapOf(R)[Vectors!Number(R, x)] = x
  <2>1. Vectors!Number(R, x) \in 0..(Cardinality(R) - 1)
    BY NumberIsLess
  <2>2. Vectors!MapOf(R)[Vectors!Number(R, x)] = CHOOSE y \in R : Vectors!Number(R, y) = Vectors!Number(R, x)
    BY <2>1, SameOperators DEF Vectors!MapOf
  <2>3. \A y \in R : Vectors!Number(R, y) = Vectors!Number(R, x) => y = x
    BY NumberTells
  <2> QED BY <2>2, <2>3
<1>5. Vectors!Range(Vectors!MapOf(R)) \subseteq Item
  BY <1>2, <1>3 DEF Vectors!Range
<1>6. Vectors!GraphOf(R) \subseteq Item \X Nat
  BY NumberIsLess DEF Vectors!GraphOf
<1>7. \A x \in R : Vectors!Number(R, x) \in DOMAIN Vectors!MapOf(R)
  BY <1>2, NumberIsLess
<1>8. \A x \in R : /\ <<x, Vectors!Number(R, x)>> \in Vectors!GraphOf(R)
                   /\ \A p \in Vectors!GraphOf(R) : p[1] = x => p[2] = Vectors!Number(R, x)
  BY DEF Vectors!GraphOf
<1> QED BY <1>1, <1>2, <1>4, <1>5, <1>6, <1>7, <1>8

\* Calls that add a row and that remove one, and those that have replaced the
\* graph and not yet the map.
AddStep == {"ids", "index", "point", "map"}
RemoveStep == {"build", "swap", "swap_map"}
Adds == {c \in Caller : lookup[c].at \in AddStep}
Removes == {c \in Caller : lookup[c].at \in RemoveStep}
Swapping == {c \in Caller : lookup[c].at = "swap_map"}

\* Rows that nothing doubtful with, when no two removals overlapped.
Calm == IF swapped THEN {} ELSE rows \ doubtful

\* The graph has one point of the item, and the map has it under its number.
Sole(G, x, n) == <<x, n>> \in G /\ \A p \in G : p[1] = x => p[2] = n
Placed(G, M, x) == \E n \in DOMAIN M : M[n] = x /\ Sole(G, x, n)

\* Graphs and maps are numbered from zero, and so are the entries of a map.
Numbered ==
  /\ \E n \in Nat : DOMAIN graphs = 0..n
  /\ \A m \in DOMAIN maps : \E n \in Nat : DOMAIN maps[m] = 0..(n - 1)

\* What a call holds, by the step it is at.
OpFits(c) ==
  /\ lookup[c].op = "insert" <=> lookup[c].at \in AddStep
  /\ lookup[c].op = "remove" <=> lookup[c].at \in RemoveStep
Loaded(c) ==
  /\ lookup[c].at \in {"index", "point", "map"} => lookup[c].ids \in DOMAIN maps
  /\ lookup[c].at \in {"point", "map"} => lookup[c].graph \in DOMAIN graphs
  /\ lookup[c].at = "swap_map" => lookup[c].made \in DOMAIN graphs

\* A number that was taken is the next one of the map, or was given since to
\* an item that doubtful.
NumberFits(c) ==
  lookup[c].at \in {"point", "map"} =>
    /\ \A n \in Nat : n < lookup[c].number => n \in DOMAIN maps[lookup[c].ids]
    /\ lookup[c].number \in DOMAIN maps[lookup[c].ids] =>
         maps[lookup[c].ids][lookup[c].number] \in doubtful

\* While a row that nothing races with is added, nothing else has changed.
Undisturbed(c) ==
  lookup[c].at \in AddStep /\ lookup[c].item \in Calm =>
    /\ lookup[c].at # "ids" => lookup[c].ids = id_map
    /\ lookup[c].at \in {"point", "map"} => lookup[c].graph = index
    /\ lookup[c].at # "map" => \A p \in graphs[index] : p[1] # lookup[c].item
    /\ lookup[c].at = "map" => Sole(graphs[index], lookup[c].item, lookup[c].number)

\* A search that is owed an answer has found the key, and then the row.
Answered(c) ==
  /\ lookup[c].at = "row" /\ lookup[c].due => lookup[c].key = {lookup[c].item}
  /\ lookup[c].at = "done" /\ lookup[c].due => lookup[c].ans = {lookup[c].item}

CallsFit ==
  \A c \in Caller : OpFits(c) /\ Loaded(c) /\ NumberFits(c) /\ Undisturbed(c) /\ Answered(c)

\* Additions that overlap one another or a removal are doubtful; removals that
\* overlap are swapped; and one that is still alone overlaps nothing.
Overlaps ==
  /\ \A c \in Adds, d \in Adds \cup Removes : d # c => lookup[c].item \in doubtful
  /\ swapped \/ \A c, d \in Removes : c = d
  /\ \A c \in Removes : lookup[c].alone => Adds = {} /\ Removes = {c}

\* A calm row has been read by a removal that has read the rows, is in the map
\* made by one that has replaced the graph, and is otherwise in the graph and
\* in the map, or on its way there.
Sorted ==
  \A x \in Calm :
    /\ \A c \in Caller : lookup[c].at = "swap" => x \in lookup[c].read
    /\ \A c \in Swapping : Placed(graphs[index], maps[lookup[c].made], x)
    /\ Swapping = {} => Placed(graphs[index], maps[id_map], x) \/ \E c \in Adds : lookup[c].item = x

\* Unless removals overlapped, graph and map are of one build but while they
\* are replaced; and a removal that nothing disturbs will make all good.
Current ==
  /\ ~swapped => /\ Swapping = {} => index = id_map
                 /\ \A c \in Swapping : index = lookup[c].made
  /\ \A c \in Removes : lookup[c].alone =>
       /\ lookup[c].at = "swap" => lookup[c].read = rows
       /\ lookup[c].at = "swap_map" => index = lookup[c].made /\ \A x \in rows : Placed(graphs[index], maps[index], x)

VectorsInv ==
  Vectors!TypeOK /\ Numbered /\ CallsFit /\ Overlaps /\ Sorted /\ Current

\* The callers that add and that remove, by what their calls look like.
LEMMA WhoseCall ==
  ASSUME VectorsInv
  PROVE  Vectors!Adding = Adds /\ Vectors!Removing = Removes
BY DEF VectorsInv, CallsFit, OpFits, Vectors!Adding, Vectors!Removing, Vectors!Busy, Adds, Removes,
       AddStep, RemoveStep

\* What is said of a search holds, and of the rows it looks for.
LEMMA VectorsHold ==
  ASSUME VectorsInv
  PROVE  /\ Vectors!TypeOK /\ Vectors!RowsCanBeFound /\ Vectors!SearchesAreAnswered
         /\ \A x \in Item : Vectors!Sound(x) => Placed(graphs[index], maps[id_map], x)
<1>1. ASSUME NEW x \in Item, Vectors!Sound(x) PROVE Placed(graphs[index], maps[id_map], x)
  <2>1. x \in Calm /\ Removes = {} /\ \A c \in Adds : lookup[c].item # x
    BY <1>1, WhoseCall DEF Vectors!Sound, Calm
  <2>2. Swapping = {}
    BY <2>1 DEF Swapping, Removes, RemoveStep
  <2> QED BY <2>1, <2>2 DEF VectorsInv, Sorted
<1>2. Vectors!RowsCanBeFound
  BY <1>1 DEF Vectors!RowsCanBeFound, Placed, Sole
<1>3. Vectors!SearchesAreAnswered
  BY DEF VectorsInv, CallsFit, Answered, Vectors!SearchesAreAnswered, Vectors!At
<1> QED BY <1>1, <1>2, <1>3 DEF VectorsInv

\* A step of another part keeps the invariant.
LEMMA VectorsStutter == VectorsInv /\ UNCHANGED vectorVars => VectorsInv'
<1> SUFFICES ASSUME VectorsInv, UNCHANGED vectorVars PROVE VectorsInv'
  OBVIOUS
<1> USE DEF VectorsInv, vectorVars
<1>1. Vectors!TypeOK' /\ Numbered'
  BY DEF Vectors!TypeOK, Vectors!Busy, Numbered
<1>2. CallsFit'
  BY DEF CallsFit, OpFits, Loaded, NumberFits, Undisturbed, Answered, Calm, Sole
<1>3. Adds' = Adds /\ Removes' = Removes /\ Swapping' = Swapping /\ Calm' = Calm
  BY DEF Adds, Removes, Swapping, Calm
<1>4. Overlaps' /\ Current'
  BY <1>3 DEF Overlaps, Current, Placed, Sole
<1>5. Sorted'
  <2>1. /\ \A c \in Caller : lookup'[c] = lookup[c]
        /\ graphs' = graphs /\ maps' = maps /\ index' = index /\ id_map' = id_map
    OBVIOUS
  <2>2. \A G, M, x : Placed(G, M, x)' <=> Placed(G, M, x)
    BY DEF Placed, Sole
  <2> QED BY <1>3, <2>1, <2>2 DEF Sorted
<1> QED BY <1>1, <1>2, <1>4, <1>5

\* A step of one call that moves nothing else.
LEMMA CallStep ==
  ASSUME VectorsInv, NEW c \in Caller, NEW q \in Vectors!CallType,
         lookup' = [lookup EXCEPT ![c] = q], calls' \in 0..MaxCalls,
         UNCHANGED <<rows, graphs, maps, index, id_map, doubtful, swapped>>,
         q.at \notin {"idle", "done"} => q.item \in Item,
         q.op = "insert" <=> q.at \in AddStep,
         q.op = "remove" <=> q.at \in RemoveStep,
         q.at \in AddStep <=> c \in Adds,
         q.at \in AddStep => q.item = lookup[c].item,
         q.at \in RemoveStep => c \in Removes /\ q.alone = lookup[c].alone,
         q.at \notin {"map", "swap_map"}, lookup[c].at # "swap_map",
         q.at \in {"index", "point"} => q.ids \in DOMAIN maps,
         q.at = "point" =>
           /\ q.graph \in DOMAIN graphs /\ q.number \notin DOMAIN maps[q.ids]
           /\ \A n \in Nat : n < q.number => n \in DOMAIN maps[q.ids],
         q.at \in AddStep /\ q.item \in Calm =>
           /\ q.at # "ids" => q.ids = id_map
           /\ q.at = "point" => q.graph = index
           /\ \A p \in graphs[index] : p[1] # q.item,
         q.at = "swap" => q.read = rows,
         q.at = "row" /\ q.due => q.key = {q.item},
         q.at = "done" /\ q.due => q.ans = {q.item}
  PROVE  VectorsInv'
<1>1. /\ lookup' \in [Caller -> Vectors!CallType]
      /\ lookup'[c] = q /\ \A d \in Caller : d # c => lookup'[d] = lookup[d]
  BY DEF VectorsInv, Vectors!TypeOK
<1>2. Adds' = Adds /\ Removes' \subseteq Removes /\ Swapping' = Swapping
  BY <1>1 DEF Adds, Removes, Swapping, AddStep, RemoveStep
<1>3. Calm' = Calm
  BY DEF Calm
<1>4. /\ \A d \in Adds : lookup'[d].item = lookup[d].item
      /\ \A d \in Removes' : lookup'[d].alone = lookup[d].alone
      /\ \A d \in Swapping : lookup'[d] = lookup[d]
  BY <1>1 DEF Adds, Removes, Swapping
<1>5. Vectors!TypeOK'
  BY <1>1 DEF VectorsInv, Vectors!TypeOK, Vectors!Busy
<1>6. Numbered'
  BY DEF VectorsInv, Numbered
<1>7. ASSUME NEW d \in Caller
      PROVE  (OpFits(d) /\ Loaded(d) /\ NumberFits(d) /\ Undisturbed(d) /\ Answered(d))'
  <2>1. CASE d = c
    <3>1. OpFits(d)' /\ Loaded(d)' /\ NumberFits(d)' /\ Answered(d)'
      BY <2>1, <1>1 DEF OpFits, Loaded, NumberFits, Answered
    <3>2. Undisturbed(d)'
      BY <2>1, <1>1, <1>3 DEF Undisturbed, AddStep
    <3> QED BY <3>1, <3>2
  <2>2. CASE d # c
    BY <2>2, <1>1, <1>3 DEF VectorsInv, CallsFit, OpFits, Loaded, NumberFits, Undisturbed, Answered
  <2> QED BY <2>1, <2>2
<1>8. Overlaps'
  BY <1>2, <1>4 DEF VectorsInv, Overlaps, Adds
<1>9. Sorted'
  <2>1. ASSUME NEW x \in Calm
        PROVE  /\ \A d \in Caller : lookup'[d].at = "swap" => x \in lookup'[d].read
               /\ \A d \in Swapping : Placed(graphs[index], maps[lookup[d].made], x)
               /\ Swapping = {} => Placed(graphs[index], maps[id_map], x) \/ \E d \in Adds : lookup'[d].item = x
    <3>1. x \in rows
      BY DEF Calm
    <3> QED BY <1>1, <1>4, <3>1 DEF VectorsInv, Sorted
  <2>2. ASSUME NEW x \in Calm', NEW d \in Swapping' PROVE Placed(graphs[index], maps[lookup[d].made], x)'
    <3>1. x \in Calm /\ d \in Swapping /\ lookup'[d] = lookup[d]
      BY <1>2, <1>3, <1>4
    <3> QED BY <2>1, <3>1
  <2>3. ASSUME NEW x \in Calm', Swapping' = {}
        PROVE  Placed(graphs[index], maps[id_map], x)' \/ \E d \in Adds' : lookup'[d].item = x
    <3>1. x \in Calm /\ Swapping = {}
      BY <1>2, <1>3, <2>3
    <3> QED BY <1>2, <1>4, <2>1, <3>1 DEF Adds
  <2> QED BY <1>3, <2>1, <2>2, <2>3 DEF Sorted
<1>10. Current'
  <2>1. ~swapped => /\ Swapping = {} => index = id_map
                    /\ \A d \in Swapping : index = lookup'[d].made
    BY <1>4 DEF VectorsInv, Current
  <2>2. ASSUME NEW d \in Removes', lookup'[d].alone
        PROVE  /\ lookup'[d].at = "swap" => lookup'[d].read = rows
               /\ lookup'[d].at = "swap_map" => index = lookup'[d].made /\ \A x \in rows : Placed(graphs[index], maps[index], x)
    <3>1. d \in Removes /\ lookup[d].alone /\ d \in Caller
      BY <1>2, <1>4, <2>2 DEF Removes
    <3> QED BY <1>1, <3>1 DEF VectorsInv, Current
  <2> QED BY <1>2, <2>1, <2>2 DEF Current
<1> QED BY <1>5, <1>6, <1>7, <1>8, <1>9, <1>10 DEF VectorsInv, CallsFit

\* Which calls can be at which step, and what their types say.
LEMMA CallTypes ==
  ASSUME VectorsInv, NEW c \in Caller
  PROVE  /\ lookup[c] \in Vectors!CallType /\ lookup \in [Caller -> Vectors!CallType]
         /\ lookup[c].at \notin {"idle", "done"} => lookup[c].item \in Item
         /\ calls \in 0..MaxCalls /\ index \in DOMAIN maps /\ id_map \in DOMAIN maps
         /\ DOMAIN graphs = DOMAIN maps
         /\ Vectors!Idle \in Vectors!CallType
BY StorageAssumption DEF VectorsInv, Vectors!TypeOK, Vectors!Busy, Vectors!CallType, Vectors!Step, Vectors!Idle

\* LoadIds: an addition takes the map that is loaded.
LEMMA VectorsLoadIds ==
  ASSUME VectorsInv, NEW c \in Caller, Vectors!LoadIds(c)
  PROVE  VectorsInv'
<1> DEFINE q == [[lookup[c] EXCEPT !.at = "index"] EXCEPT !.ids = id_map]
<1>1. lookup[c].at = "ids" /\ lookup[c] \in Vectors!CallType /\ id_map \in DOMAIN maps /\ id_map \in Nat
  BY CallTypes DEF Vectors!LoadIds, Vectors!At, VectorsInv, Numbered
<1>2. /\ lookup' = [lookup EXCEPT ![c] = q]
      /\ UNCHANGED <<rows, graphs, maps, index, id_map, calls, doubtful, swapped>>
  BY CallTypes DEF Vectors!LoadIds
<1>3. /\ q \in Vectors!CallType /\ q.at = "index" /\ q.ids = id_map /\ q.op = lookup[c].op
      /\ q.item = lookup[c].item
  BY <1>1 DEF Vectors!CallType, Vectors!Step
<1> HIDE DEF q
<1>4. lookup[c].op = "insert" /\ c \in Adds /\ lookup[c].item \in Item /\ calls' \in 0..MaxCalls
  BY <1>1, <1>2, CallTypes DEF VectorsInv, CallsFit, OpFits, Adds, AddStep
<1>5. lookup[c].item \in Calm => \A p \in graphs[index] : p[1] # lookup[c].item
  BY <1>1 DEF VectorsInv, CallsFit, Undisturbed, AddStep
<1> QED BY <1>1, <1>2, <1>3, <1>4, <1>5, CallStep DEF AddStep, RemoveStep

\* LoadIndex: it takes the graph, and the length of its map as the number.
LEMMA VectorsLoadIndex ==
  ASSUME VectorsInv, NEW c \in Caller, Vectors!LoadIndex(c)
  PROVE  VectorsInv'
<1> DEFINE n == Cardinality(DOMAIN maps[lookup[c].ids])
           q == [[[lookup[c] EXCEPT !.at = "point"] EXCEPT !.graph = index] EXCEPT !.number = n]
<1>1. /\ lookup[c].at = "index" /\ lookup[c] \in Vectors!CallType
      /\ index \in DOMAIN graphs /\ index \in Nat /\ lookup[c].ids \in DOMAIN maps
  BY CallTypes DEF Vectors!LoadIndex, Vectors!At, VectorsInv, Numbered, CallsFit, Loaded
<1>2. /\ lookup' = [lookup EXCEPT ![c] = q]
      /\ UNCHANGED <<rows, graphs, maps, index, id_map, calls, doubtful, swapped>>
  BY CallTypes, SameOperators DEF Vectors!LoadIndex
<1>3. n \in Nat /\ DOMAIN maps[lookup[c].ids] = 0..(n - 1)
  <2>1. PICK k \in Nat : DOMAIN maps[lookup[c].ids] = 0..(k - 1)
    BY <1>1 DEF VectorsInv, Numbered
  <2>2. Cardinality(0..(k - 1)) = k
    BY <2>1, FS_Interval
  <2> QED BY <2>1, <2>2
<1>4. /\ q \in Vectors!CallType /\ q.at = "point" /\ q.graph = index /\ q.number = n
      /\ q.op = lookup[c].op /\ q.item = lookup[c].item /\ q.ids = lookup[c].ids
  BY <1>1, <1>3 DEF Vectors!CallType, Vectors!Step
<1> HIDE DEF q, n
<1>5. lookup[c].op = "insert" /\ c \in Adds /\ lookup[c].item \in Item /\ calls' \in 0..MaxCalls
  BY <1>1, <1>2, CallTypes DEF VectorsInv, CallsFit, OpFits, Adds, AddStep
<1>6. lookup[c].item \in Calm =>
         lookup[c].ids = id_map /\ \A p \in graphs[index] : p[1] # lookup[c].item
  BY <1>1 DEF VectorsInv, CallsFit, Undisturbed, AddStep
<1>7. q.number \notin DOMAIN maps[q.ids] /\ \A k \in Nat : k < q.number => k \in DOMAIN maps[q.ids]
  BY <1>3, <1>4
<1> QED BY <1>1, <1>2, <1>4, <1>5, <1>6, <1>7, CallStep DEF AddStep, RemoveStep

\* ReadAll: a removal reads every row, or fails.
LEMMA VectorsReadAll ==
  ASSUME VectorsInv, NEW c \in Caller, Vectors!ReadAll(c)
  PROVE  VectorsInv'
<1>1. lookup[c].at = "build" /\ lookup[c] \in Vectors!CallType
  BY CallTypes DEF Vectors!ReadAll, Vectors!At
<1>2. UNCHANGED <<rows, graphs, maps, index, id_map, calls, doubtful, swapped>>
  BY DEF Vectors!ReadAll
<1>3. /\ lookup[c].op = "remove" /\ c \in Removes /\ c \notin Adds /\ lookup[c].item \in Item
      /\ calls' \in 0..MaxCalls
  BY <1>1, <1>2, CallTypes DEF VectorsInv, CallsFit, OpFits, Removes, Adds, RemoveStep, AddStep
<1>4. CASE lookup' = [lookup EXCEPT ![c].at = "swap", ![c].read = rows]
  <2> DEFINE q == [[lookup[c] EXCEPT !.at = "swap"] EXCEPT !.read = rows]
  <2>1. lookup' = [lookup EXCEPT ![c] = q]
    BY <1>4, CallTypes
  <2>2. rows \in SUBSET Item
    BY DEF VectorsInv, Vectors!TypeOK
  <2>3. /\ q \in Vectors!CallType /\ q.at = "swap" /\ q.read = rows /\ q.op = lookup[c].op
        /\ q.item = lookup[c].item /\ q.alone = lookup[c].alone
    BY <1>1, <2>2 DEF Vectors!CallType, Vectors!Step
  <2> HIDE DEF q
  <2> QED BY <1>1, <1>2, <1>3, <2>1, <2>3, CallStep DEF AddStep, RemoveStep
<1>5. CASE lookup' = [lookup EXCEPT ![c] = Vectors!Idle]
  <2>1. /\ Vectors!Idle \in Vectors!CallType /\ Vectors!Idle.at = "idle" /\ Vectors!Idle.op = "none"
    BY CallTypes DEF Vectors!Idle
  <2> QED BY <1>1, <1>2, <1>3, <1>5, <2>1, CallStep DEF AddStep, RemoveStep
<1> QED BY <1>4, <1>5 DEF Vectors!ReadAll, Vectors!End

\* Search: a search begins on the index as it is.
LEMMA VectorsSearch ==
  ASSUME VectorsInv, NEW c \in Caller, NEW x \in Item, Vectors!Search(c, x)
  PROVE  VectorsInv'
<1> DEFINE due == (Vectors!Removing = {})
           q == [Vectors!Idle EXCEPT !.at = "look", !.op = "search", !.item = x, !.graph = index, !.due = due]
<1>1. /\ lookup[c].at \in {"idle", "done"} /\ calls < MaxCalls /\ calls' = calls + 1
      /\ lookup' = [lookup EXCEPT ![c] = q]
      /\ UNCHANGED <<rows, graphs, maps, index, id_map, doubtful, swapped>>
  BY DEF Vectors!Search, Vectors!Begin
<1>2. index \in Nat /\ x \in Nat /\ due \in BOOLEAN /\ Vectors!Idle \in Vectors!CallType
  BY CallTypes, StorageAssumption DEF VectorsInv, Numbered
<1> HIDE DEF due
<1>3. q \in Vectors!CallType /\ q.at = "look" /\ q.op = "search" /\ q.item = x
  BY <1>2 DEF Vectors!CallType, Vectors!Step, Vectors!Idle
<1> HIDE DEF q
<1>4. c \notin Adds /\ calls' \in 0..MaxCalls
  BY <1>1, CallTypes, StorageAssumption DEF Adds, AddStep
<1> QED BY <1>1, <1>3, <1>4, CallStep DEF AddStep, RemoveStep

\* Look: a search finds the nearest number and its key.
LEMMA VectorsLook ==
  ASSUME VectorsInv, NEW c \in Caller, Vectors!Look(c)
  PROVE  VectorsInv'
<1> DEFINE x == lookup[c].item
           g == lookup[c].graph
           KeyOf(n) == IF n \in DOMAIN maps[id_map] THEN {maps[id_map][n]} ELSE {}
           Keys == IF Vectors!Nearest(g, x) = {} THEN {{}} ELSE {KeyOf(n) : n \in Vectors!Nearest(g, x)}
           due == lookup[c].due /\ Vectors!Sound(x) /\ index = g
<1>1. /\ lookup[c].at = "look" /\ lookup[c] \in Vectors!CallType /\ x \in Item /\ c \notin Adds
      /\ lookup[c].op \notin {"insert", "remove"}
  BY CallTypes DEF Vectors!Look, Vectors!At, VectorsInv, CallsFit, OpFits, Adds, AddStep, RemoveStep
<1>2. UNCHANGED <<rows, graphs, maps, index, id_map, calls, doubtful, swapped>> /\ calls' \in 0..MaxCalls
  BY CallTypes DEF Vectors!Look
<1>3. PICK key \in Keys : lookup' = [lookup EXCEPT ![c].at = "row", ![c].key = key,
                             ![c].due = @ /\ Vectors!Sound(x) /\ index = g]
  BY DEF Vectors!Look
<1>4. \A n \in DOMAIN maps[id_map] : maps[id_map][n] \in Item
  BY CallTypes DEF VectorsInv, Vectors!TypeOK, Vectors!Range
<1>5. key \in SUBSET Item
  BY <1>3, <1>4
<1>6. due => key = {x}
  <2> SUFFICES ASSUME due PROVE key = {x}
    OBVIOUS
  <2>1. Placed(graphs[g], maps[id_map], x)
    BY <1>1, VectorsHold
  <2>2. PICK n \in DOMAIN maps[id_map] : maps[id_map][n] = x /\ Sole(graphs[g], x, n)
    BY <2>1 DEF Placed
  <2>3. Vectors!Nearest(g, x) = {n}
    BY <2>2 DEF Sole, Vectors!Nearest
  <2>4. KeyOf(n) = {x}
    BY <2>2
  <2> QED BY <1>3, <2>3, <2>4
<1> DEFINE q == [[[lookup[c] EXCEPT !.at = "row"] EXCEPT !.key = key] EXCEPT !.due = due]
<1>7. lookup' = [lookup EXCEPT ![c] = q]
  BY <1>1, <1>3, CallTypes DEF Vectors!CallType
<1>8. due \in BOOLEAN
  BY <1>1 DEF Vectors!CallType, Vectors!Sound
<1> HIDE DEF due, Keys
<1>9. /\ q \in Vectors!CallType /\ q.at = "row" /\ q.op = lookup[c].op /\ q.item = x
      /\ q.key = key /\ q.due = due
  BY <1>1, <1>5, <1>8 DEF Vectors!CallType, Vectors!Step
<1> HIDE DEF q, x, g
<1> QED BY <1>1, <1>2, <1>6, <1>7, <1>9, CallStep DEF AddStep, RemoveStep

\* ReadRow: a search reads the row of that key.
LEMMA VectorsReadRow ==
  ASSUME VectorsInv, NEW c \in Caller, Vectors!ReadRow(c)
  PROVE  VectorsInv'
<1>r. CASE Vectors!End(c)
  <2>1. lookup[c].at = "row" /\ c \notin Adds /\ Vectors!Idle \in Vectors!CallType
    BY CallTypes DEF Vectors!ReadRow, Vectors!At, Adds, AddStep
  <2>2. Vectors!Idle.at = "idle" /\ Vectors!Idle.op = "none" /\ Vectors!Idle.due = FALSE
    BY DEF Vectors!Idle
  <2>3. /\ lookup' = [lookup EXCEPT ![c] = Vectors!Idle] /\ calls' \in 0..MaxCalls
        /\ UNCHANGED <<rows, graphs, maps, index, id_map, calls, doubtful, swapped>>
    BY <1>r, CallTypes DEF Vectors!ReadRow, Vectors!End
  <2> QED BY <2>1, <2>2, <2>3, CallStep DEF AddStep, RemoveStep
<1> SUFFICES ASSUME ~Vectors!End(c) PROVE VectorsInv'
  BY <1>r
<1> DEFINE due == lookup[c].due /\ lookup[c].item \in rows
           ans == lookup[c].key \cap rows
           q == [Vectors!Idle EXCEPT !.at = "done", !.item = lookup[c].item, !.ans = ans, !.due = due]
<1>1. lookup[c].at = "row" /\ lookup[c] \in Vectors!CallType /\ c \notin Adds /\ Vectors!Idle \in Vectors!CallType
  BY CallTypes DEF Vectors!ReadRow, Vectors!At, Adds, AddStep
<1>2. /\ lookup' = [lookup EXCEPT ![c] = q] /\ calls' \in 0..MaxCalls
      /\ UNCHANGED <<rows, graphs, maps, index, id_map, calls, doubtful, swapped>>
  BY CallTypes DEF Vectors!ReadRow
<1>3. due \in BOOLEAN /\ ans \in SUBSET Item /\ lookup[c].item \in Nat
  BY <1>1 DEF Vectors!CallType
<1>4. due => ans = {lookup[c].item}
  BY <1>1 DEF VectorsInv, CallsFit, Answered
<1> HIDE DEF due, ans
<1>5. /\ q \in Vectors!CallType /\ q.at = "done" /\ q.op = "none" /\ q.item = lookup[c].item
      /\ q.ans = ans /\ q.due = due
  BY <1>1, <1>3 DEF Vectors!CallType, Vectors!Step, Vectors!Idle
<1> HIDE DEF q
<1> QED BY <1>1, <1>2, <1>4, <1>5, CallStep DEF AddStep, RemoveStep

\* A call that changes something begins: no removal under way is alone any more.
LEMMA ChangeBegins ==
  ASSUME VectorsInv, NEW c \in Caller, NEW q \in Vectors!CallType, Vectors!BeginChange(c, q)
  PROVE  /\ lookup[c].at \in {"idle", "done"} /\ c \notin Adds \cup Removes
         /\ calls' \in 0..MaxCalls
         /\ lookup' \in [Caller -> Vectors!CallType] /\ lookup'[c] = q
         /\ \A d \in Caller \ (Removes \cup {c}) : lookup'[d] = lookup[d]
         /\ \A d \in Removes : lookup'[d] = [lookup[d] EXCEPT !.alone = FALSE]
         /\ \A d \in Removes :
              /\ lookup'[d].at = lookup[d].at /\ lookup'[d].op = lookup[d].op
              /\ lookup'[d].item = lookup[d].item /\ lookup'[d].read = lookup[d].read
              /\ lookup'[d].made = lookup[d].made /\ lookup'[d].alone = FALSE
<1>1. /\ lookup[c].at \in {"idle", "done"} /\ calls < MaxCalls /\ calls' = calls + 1
      /\ lookup' = [d \in Caller |-> CASE d = c -> q
                                       [] d \in Vectors!Removing -> [lookup[d] EXCEPT !.alone = FALSE]
                                       [] OTHER -> lookup[d]]
  BY DEF Vectors!BeginChange
<1>2. c \notin Adds \cup Removes
  BY <1>1 DEF Adds, Removes, AddStep, RemoveStep
<1>3. /\ lookup'[c] = q
      /\ \A d \in Caller \ (Removes \cup {c}) : lookup'[d] = lookup[d]
      /\ \A d \in Removes : lookup'[d] = [lookup[d] EXCEPT !.alone = FALSE]
  BY <1>1, <1>2, WhoseCall DEF Removes
<1>4. ASSUME NEW d \in Removes
      PROVE  /\ lookup'[d] \in Vectors!CallType
             /\ lookup'[d].at = lookup[d].at /\ lookup'[d].op = lookup[d].op
             /\ lookup'[d].item = lookup[d].item /\ lookup'[d].read = lookup[d].read
             /\ lookup'[d].made = lookup[d].made /\ lookup'[d].alone = FALSE
  <2>1. lookup[d] \in Vectors!CallType /\ lookup'[d] = [lookup[d] EXCEPT !.alone = FALSE]
    BY <1>3, CallTypes DEF Removes
  <2> QED BY <2>1 DEF Vectors!CallType
<1>5. \A d \in Caller : lookup'[d] \in Vectors!CallType
  BY <1>3, <1>4, CallTypes
<1>6. lookup' \in [Caller -> Vectors!CallType]
  BY <1>1, <1>5
<1>7. calls' \in 0..MaxCalls
  BY <1>1, CallTypes, StorageAssumption
<1> QED BY <1>1, <1>2, <1>3, <1>4, <1>6, <1>7

\* A row is added: it is calm only if nothing else adds or removes.
LEMMA VectorsInsertRow ==
  ASSUME VectorsInv, NEW c \in Caller, NEW x \in Item, Vectors!InsertRow(c, x)
  PROVE  VectorsInv'
<1> DEFINE q == [Vectors!Idle EXCEPT !.at = "ids", !.op = "insert", !.item = x]
<1>0. /\ q \in Vectors!CallType /\ q.at = "ids" /\ q.op = "insert" /\ q.item = x
      /\ Vectors!BeginChange(c, q)
      /\ rows' = rows \cup {x}
      /\ UNCHANGED <<graphs, maps, index, id_map, swapped>>
      /\ \A g \in DOMAIN graphs : x \notin {p[1] : p \in graphs[g]}
  <2>1. Vectors!Idle \in Vectors!CallType /\ x \in Nat
    BY CallTypes, StorageAssumption
  <2> QED BY <2>1 DEF Vectors!InsertRow, Vectors!CallType, Vectors!Step, Vectors!Idle
<1> HIDE DEF q
<1>1. /\ c \notin Adds \cup Removes
      /\ calls' \in 0..MaxCalls
      /\ lookup' \in [Caller -> Vectors!CallType] /\ lookup'[c] = q
      /\ \A d \in Caller \ (Removes \cup {c}) : lookup'[d] = lookup[d]
      /\ \A d \in Removes :
              /\ lookup'[d].at = lookup[d].at /\ lookup'[d].op = lookup[d].op
              /\ lookup'[d].item = lookup[d].item /\ lookup'[d].read = lookup[d].read
              /\ lookup'[d].made = lookup[d].made /\ lookup'[d].alone = FALSE
  BY <1>0, ChangeBegins
<1>2. \A d \in Caller : d # c => lookup'[d].at = lookup[d].at /\ lookup'[d].item = lookup[d].item
  BY <1>1
<1>3. Adds' = Adds \cup {c} /\ Removes' = Removes /\ Swapping' = Swapping
  BY <1>0, <1>1, <1>2 DEF Adds, Removes, Swapping, AddStep, RemoveStep
<1>4. /\ doubtful \subseteq doubtful' /\ doubtful' \subseteq Item
      /\ Adds \cup Removes # {} => x \in doubtful' /\ \A d \in Adds : lookup[d].item \in doubtful'
  <2>1. doubtful' = doubtful \cup IF Adds \cup Removes = {} THEN {} ELSE {x} \cup {lookup[d].item : d \in Adds}
    BY WhoseCall DEF Vectors!InsertRow
  <2>2. \A d \in Adds : lookup[d].item \in Item
    BY CallTypes DEF Adds, AddStep
  <2> QED BY <2>1, <2>2 DEF VectorsInv, Vectors!TypeOK
<1>5. Calm' \subseteq Calm \cup {x}
  BY <1>0, <1>4 DEF Calm
<1>6. Vectors!TypeOK' /\ Numbered'
  <2>1. \A d \in Caller : lookup'[d].at \notin {"idle", "done"} => lookup'[d].item \in Item
    BY <1>0, <1>1, <1>2, CallTypes
  <2>2. rows' \subseteq Item
    BY <1>0 DEF VectorsInv, Vectors!TypeOK
  <2>3. Vectors!TypeOK'
    BY <1>0, <1>1, <1>4, <2>1, <2>2 DEF VectorsInv, Vectors!TypeOK, Vectors!Busy
  <2> QED BY <1>0, <2>3 DEF VectorsInv, Numbered
<1>7. ASSUME NEW d \in Caller
      PROVE  (OpFits(d) /\ Loaded(d) /\ NumberFits(d) /\ Undisturbed(d) /\ Answered(d))'
  <2>1. CASE d = c
    <3>1. OpFits(d)' /\ Loaded(d)' /\ NumberFits(d)' /\ Answered(d)'
      BY <2>1, <1>0, <1>1 DEF OpFits, Loaded, NumberFits, Answered, AddStep, RemoveStep
    <3>2. \A p \in graphs[index] : p[1] # x
      BY <1>0, CallTypes
    <3>3. Undisturbed(d)'
      BY <2>1, <3>2, <1>0, <1>1 DEF Undisturbed
    <3> QED BY <3>1, <3>3
  <2>2. CASE d \in Removes
    BY <2>2, <1>0, <1>1 DEF VectorsInv, CallsFit, OpFits, Loaded, NumberFits, Undisturbed, Answered,
        Removes, AddStep, RemoveStep
  <2>3. CASE d \notin Removes \cup {c}
    <3>1. lookup'[d] = lookup[d]
      BY <2>3, <1>1
    <3>2. OpFits(d)' /\ Loaded(d)' /\ Answered(d)'
      BY <3>1, <1>0 DEF VectorsInv, CallsFit, OpFits, Loaded, Answered
    <3>3. NumberFits(d)'
      BY <3>1, <1>0, <1>4 DEF VectorsInv, CallsFit, NumberFits
    <3>4. d \in Adds => lookup[d].item \notin Calm'
      BY <1>4 DEF Calm
    <3>5. Undisturbed(d)'
      BY <3>1, <3>4 DEF Undisturbed, Adds
    <3> QED BY <3>2, <3>3, <3>5
  <2> QED BY <2>1, <2>2, <2>3
<1>8. Overlaps'
  <2>1. ASSUME NEW d \in Adds', NEW e \in Adds' \cup Removes', e # d PROVE lookup'[d].item \in doubtful'
    <3>1. Adds \cup Removes # {}
      BY <1>3, <2>1
    <3>2. CASE d = c
      BY <3>1, <3>2, <1>0, <1>1, <1>4
    <3>3. CASE d # c
      BY <3>1, <3>3, <1>2, <1>3, <1>4 DEF Adds
    <3> QED BY <3>2, <3>3
  <2>2. \A d \in Removes' : ~lookup'[d].alone
    BY <1>1, <1>3
  <2> QED BY <1>0, <1>3, <2>1, <2>2 DEF VectorsInv, Overlaps
<1>9. Sorted'
  <2> SUFFICES ASSUME NEW y \in Calm'
               PROVE  /\ \A d \in Caller : lookup'[d].at = "swap" => y \in lookup'[d].read
                      /\ \A d \in Swapping : Placed(graphs[index], maps[lookup'[d].made], y)
                      /\ Swapping = {} => Placed(graphs[index], maps[id_map], y)
                                          \/ \E d \in Adds \cup {c} : lookup'[d].item = y
    BY <1>0, <1>3 DEF Sorted
  <2>1. CASE y = x
    <3>1. Adds \cup Removes = {}
      BY <2>1, <1>4 DEF Calm
    <3>2. \A d \in Caller : lookup'[d].at \notin {"swap", "swap_map"}
      BY <3>1, <1>0, <1>1, <1>2 DEF Removes, RemoveStep
    <3>3. lookup'[c].item = y
      BY <2>1, <1>0, <1>1
    <3>4. Swapping = {}
      BY <3>1 DEF Swapping, Removes, RemoveStep
    <3> QED BY <3>2, <3>3, <3>4
  <2>2. CASE y # x
    <3>1. y \in Calm
      BY <2>2, <1>5
    <3>2. \A d \in Caller : lookup[d].at = "swap" => y \in lookup[d].read
      BY <3>1 DEF VectorsInv, Sorted
    <3>3. \A d \in Swapping : Placed(graphs[index], maps[lookup[d].made], y)
      BY <3>1 DEF VectorsInv, Sorted
    <3>4. Swapping = {} => Placed(graphs[index], maps[id_map], y) \/ \E d \in Adds : lookup[d].item = y
      BY <3>1 DEF VectorsInv, Sorted
    <3>5. \A d \in Caller : lookup'[d].at = "swap" => lookup[d].at = "swap" /\ lookup'[d].read = lookup[d].read
      BY <1>0, <1>1, <1>2 DEF Removes, RemoveStep
    <3>6. \A d \in Swapping : lookup'[d].made = lookup[d].made
      BY <1>1 DEF Swapping, Removes, RemoveStep
    <3>7. \A d \in Adds : lookup'[d].item = lookup[d].item
      BY <1>1, <1>2 DEF Adds
    <3> QED BY <3>2, <3>3, <3>4, <3>5, <3>6, <3>7
  <2> QED BY <2>1, <2>2
<1>10. Current'
  <2>1. \A d \in Swapping : lookup'[d].made = lookup[d].made
    BY <1>1 DEF Swapping, Removes, RemoveStep
  <2> QED BY <1>0, <1>1, <1>3, <2>1 DEF VectorsInv, Current
<1> QED BY <1>6, <1>7, <1>8, <1>9, <1>10 DEF VectorsInv, CallsFit

\* A row is removed: whatever is being added is doubtful, and another removal is
\* overlapped.
LEMMA VectorsRemoveRow ==
  ASSUME VectorsInv, NEW c \in Caller, NEW x \in Item, Vectors!RemoveRow(c, x)
  PROVE  VectorsInv'
<1> DEFINE lone == (Vectors!Adding \cup Vectors!Removing = {})
           q == [Vectors!Idle EXCEPT !.at = "build", !.op = "remove", !.item = x, !.alone = lone]
<1>0. /\ Vectors!BeginChange(c, q) /\ rows' = rows \ {x}
      /\ UNCHANGED <<graphs, maps, index, id_map>>
      /\ doubtful' = doubtful \cup {lookup[d].item : d \in Adds}
      /\ swapped' = (swapped \/ Removes # {})
      /\ lone = (Adds \cup Removes = {})
  BY WhoseCall DEF Vectors!RemoveRow
<1>q. lone \in BOOLEAN /\ x \in Nat /\ Vectors!Idle \in Vectors!CallType
  BY CallTypes, StorageAssumption
<1> HIDE DEF lone
<1>r. q \in Vectors!CallType /\ q.at = "build" /\ q.op = "remove" /\ q.item = x /\ q.alone = lone
  BY <1>q DEF Vectors!CallType, Vectors!Step, Vectors!Idle
<1> HIDE DEF q
<1>1. /\ c \notin Adds \cup Removes
      /\ calls' \in 0..MaxCalls
      /\ lookup' \in [Caller -> Vectors!CallType] /\ lookup'[c] = q
      /\ \A d \in Caller \ (Removes \cup {c}) : lookup'[d] = lookup[d]
      /\ \A d \in Removes :
              /\ lookup'[d].at = lookup[d].at /\ lookup'[d].op = lookup[d].op
              /\ lookup'[d].item = lookup[d].item /\ lookup'[d].read = lookup[d].read
              /\ lookup'[d].made = lookup[d].made /\ lookup'[d].alone = FALSE
  BY <1>0, <1>r, ChangeBegins
<1>2. \A d \in Caller : d # c => lookup'[d].at = lookup[d].at /\ lookup'[d].item = lookup[d].item
  BY <1>1
<1>3. Adds' = Adds /\ Removes' = Removes \cup {c} /\ Swapping' = Swapping
  BY <1>r, <1>1, <1>2 DEF Adds, Removes, Swapping, AddStep, RemoveStep
<1>4. \A d \in Adds : lookup[d].item \in Item /\ lookup'[d] = lookup[d]
  BY <1>1, CallTypes DEF Adds, Removes, AddStep, RemoveStep
<1>5. Calm' \subseteq Calm /\ (Calm' # {} => Removes = {}) /\ \A d \in Adds : lookup[d].item \notin Calm'
  BY <1>0 DEF Calm
<1>6. Vectors!TypeOK' /\ Numbered'
  <2>1. \A d \in Caller : lookup'[d].at \notin {"idle", "done"} => lookup'[d].item \in Item
    BY <1>r, <1>1, <1>2, CallTypes
  <2>2. rows' \subseteq Item /\ doubtful' \subseteq Item /\ swapped' \in BOOLEAN
    BY <1>0, <1>4 DEF VectorsInv, Vectors!TypeOK
  <2>3. Vectors!TypeOK'
    BY <1>0, <1>1, <2>1, <2>2 DEF VectorsInv, Vectors!TypeOK, Vectors!Busy
  <2> QED BY <1>0, <2>3 DEF VectorsInv, Numbered
<1>7. ASSUME NEW d \in Caller
      PROVE  (OpFits(d) /\ Loaded(d) /\ NumberFits(d) /\ Undisturbed(d) /\ Answered(d))'
  <2>1. CASE d = c
    BY <2>1, <1>r, <1>1 DEF OpFits, Loaded, NumberFits, Answered, Undisturbed, AddStep, RemoveStep
  <2>2. CASE d \in Removes
    BY <2>2, <1>0, <1>1 DEF VectorsInv, CallsFit, OpFits, Loaded, NumberFits, Undisturbed, Answered,
        Removes, AddStep, RemoveStep
  <2>3. CASE d \notin Removes \cup {c}
    <3>1. lookup'[d] = lookup[d]
      BY <2>3, <1>1
    <3>2. OpFits(d)' /\ Loaded(d)' /\ Answered(d)'
      BY <3>1, <1>0 DEF VectorsInv, CallsFit, OpFits, Loaded, Answered
    <3>3. NumberFits(d)'
      BY <3>1, <1>0 DEF VectorsInv, CallsFit, NumberFits
    <3>4. Undisturbed(d)'
      BY <3>1, <1>5 DEF Undisturbed, Adds
    <3> QED BY <3>2, <3>3, <3>4
  <2> QED BY <2>1, <2>2, <2>3
<1>8. Overlaps'
  <2>1. \A d \in Adds' : lookup'[d].item \in doubtful'
    BY <1>0, <1>3, <1>4
  <2>2. swapped' \/ \A d, e \in Removes' : d = e
    BY <1>0, <1>3
  <2>3. ASSUME NEW d \in Removes', lookup'[d].alone PROVE Adds' = {} /\ Removes' = {d}
    BY <1>0, <1>r, <1>1, <1>3, <2>3
  <2> QED BY <2>1, <2>2, <2>3 DEF Overlaps
<1>9. Sorted'
  <2> SUFFICES ASSUME NEW y \in Calm'
               PROVE  /\ \A d \in Caller : lookup'[d].at = "swap" => y \in lookup'[d].read
                      /\ \A d \in Swapping : Placed(graphs[index], maps[lookup'[d].made], y)
                      /\ Swapping = {} => Placed(graphs[index], maps[id_map], y)
                                          \/ \E d \in Adds : lookup'[d].item = y
    BY <1>0, <1>3 DEF Sorted
  <2>1. y \in Calm /\ Removes = {} /\ Swapping = {}
    BY <1>5 DEF Swapping, Removes, RemoveStep
  <2>2. \A d \in Caller : lookup'[d].at # "swap"
    BY <2>1, <1>r, <1>1, <1>2 DEF Removes, RemoveStep
  <2>3. Placed(graphs[index], maps[id_map], y) \/ \E d \in Adds : lookup[d].item = y
    BY <2>1 DEF VectorsInv, Sorted
  <2> QED BY <2>1, <2>2, <2>3, <1>4
<1>10. Current'
  <2>1. ~swapped' => Swapping = {} /\ index = id_map
    BY <1>0 DEF VectorsInv, Current, Swapping, Removes, RemoveStep
  <2>2. \A d \in Removes' : lookup'[d].alone => lookup'[d].at = "build"
    BY <1>r, <1>1, <1>3
  <2> QED BY <1>0, <1>3, <2>1, <2>2 DEF Current
<1> QED BY <1>6, <1>7, <1>8, <1>9, <1>10 DEF VectorsInv, CallsFit

\* A point is added to the graph that was loaded, the one of a calm item to the
\* graph in use, where there was none of it.
LEMMA VectorsInsertPoint ==
  ASSUME VectorsInv, NEW c \in Caller, Vectors!InsertPoint(c)
  PROVE  VectorsInv'
<1> DEFINE q == [lookup[c] EXCEPT !.at = "map"]
<1>0. PICK x, n, g : x = lookup[c].item /\ n = lookup[c].number /\ g = lookup[c].graph
  OBVIOUS
<1>1. /\ lookup[c].at = "point" /\ lookup[c] \in Vectors!CallType /\ c \in Adds /\ lookup[c].op = "insert"
      /\ x \in Item /\ n \in Nat /\ g \in DOMAIN graphs
      /\ \A h \in DOMAIN graphs : graphs[h] \subseteq Item \X Nat
  BY <1>0, CallTypes DEF Vectors!InsertPoint, Vectors!At, VectorsInv, CallsFit, Loaded, OpFits, Adds, AddStep,
     Vectors!TypeOK, Vectors!CallType
<1>2. /\ graphs' = [graphs EXCEPT ![g] = @ \cup {<<x, n>>}]
      /\ lookup' = [lookup EXCEPT ![c] = q]
      /\ UNCHANGED <<rows, maps, index, id_map, calls, doubtful, swapped>>
  BY <1>0, CallTypes DEF Vectors!InsertPoint
<1>3. /\ lookup' \in [Caller -> Vectors!CallType] /\ lookup'[c] = q
      /\ \A d \in Caller : d # c => lookup'[d] = lookup[d]
      /\ q.at = "map" /\ q.op = "insert" /\ q.item = x /\ q.number = n /\ q.graph = g
      /\ q.ids = lookup[c].ids
  <2>1. /\ q \in Vectors!CallType /\ q.at = "map" /\ q.op = "insert" /\ q.item = x /\ q.number = n
        /\ q.graph = g /\ q.ids = lookup[c].ids
    BY <1>0, <1>1 DEF Vectors!CallType, Vectors!Step
  <2> HIDE DEF q
  <2> QED BY <1>2, <2>1, CallTypes
<1> HIDE DEF q
<1>4. \A d \in Caller : lookup'[d].item = lookup[d].item
  BY <1>0, <1>3
<1>5. Adds' = Adds /\ Removes' = Removes /\ Swapping' = Swapping /\ Calm' = Calm
  BY <1>1, <1>2, <1>3 DEF Adds, Removes, Swapping, AddStep, RemoveStep, Calm
<1>6. /\ DOMAIN graphs' = DOMAIN graphs
      /\ \A h \in DOMAIN graphs : h # g => graphs'[h] = graphs[h]
      /\ graphs'[g] = graphs[g] \cup {<<x, n>>}
  BY <1>1, <1>2
<1>7. /\ \A d \in Adds \cup Removes : d # c => x \notin Calm
      /\ \A d \in Adds : d # c => lookup[d].item \notin Calm
      /\ \A d \in Removes : ~lookup[d].alone
  BY <1>0, <1>1 DEF VectorsInv, Overlaps, Calm
<1>8. x \in Calm => /\ lookup[c].ids = id_map /\ g = index
                    /\ Sole(graphs'[index], x, n)
  BY <1>0, <1>1, <1>6 DEF VectorsInv, CallsFit, Undisturbed, AddStep, Sole
<1>9. ASSUME NEW y \in Calm, y # x, NEW M, Placed(graphs[index], M, y) PROVE Placed(graphs'[index], M, y)
  <2>1. PICK k \in DOMAIN M : M[k] = y /\ Sole(graphs[index], y, k)
    BY <1>9 DEF Placed
  <2>2. Sole(graphs'[index], y, k)
    <3>1. graphs'[index] = graphs[index] \/ graphs'[index] = graphs[index] \cup {<<x, n>>}
      BY <1>6, CallTypes
    <3>2. <<x, n>>[1] = x
      OBVIOUS
    <3> QED BY <1>9, <2>1, <3>1, <3>2 DEF Sole
  <2> QED BY <2>1, <2>2 DEF Placed
<1>10. Vectors!TypeOK' /\ Numbered'
  <2>1. \A h \in DOMAIN graphs : graphs'[h] \subseteq Item \X Nat
    BY <1>1, <1>6
  <2>2. \A d \in Caller : lookup'[d].at \notin {"idle", "done"} => lookup'[d].item \in Item
    BY <1>0, <1>1, <1>3, CallTypes
  <2>3. Vectors!TypeOK'
    BY <1>2, <1>3, <1>6, <2>1, <2>2 DEF VectorsInv, Vectors!TypeOK, Vectors!Busy
  <2> QED BY <1>2, <1>6, <2>3 DEF VectorsInv, Numbered
<1>11. ASSUME NEW d \in Caller
       PROVE  (OpFits(d) /\ Loaded(d) /\ NumberFits(d) /\ Undisturbed(d) /\ Answered(d))'
  <2>0. OpFits(d) /\ Loaded(d) /\ NumberFits(d) /\ Undisturbed(d) /\ Answered(d)
    BY DEF VectorsInv, CallsFit
  <2>1. CASE d = c
    <3>1. OpFits(d)' /\ Answered(d)'
      BY <2>1, <1>3 DEF OpFits, Answered, AddStep, RemoveStep
    <3>2. Loaded(d)' /\ NumberFits(d)'
      BY <2>0, <2>1, <1>0, <1>1, <1>2, <1>3, <1>6 DEF Loaded, NumberFits
    <3>3. Undisturbed(d)'
      BY <2>1, <1>2, <1>3, <1>5, <1>8 DEF Undisturbed
    <3> QED BY <3>1, <3>2, <3>3
  <2>2. CASE d # c
    <3>1. lookup'[d] = lookup[d]
      BY <2>2, <1>3
    <3>2. OpFits(d)' /\ Loaded(d)' /\ NumberFits(d)' /\ Answered(d)'
      BY <2>0, <3>1, <1>2, <1>6 DEF OpFits, Loaded, NumberFits, Answered
    <3>3. Undisturbed(d)'
      BY <2>2, <3>1, <1>5, <1>7 DEF Undisturbed, Adds
    <3> QED BY <3>2, <3>3
  <2> QED BY <2>1, <2>2
<1>12. Overlaps'
  BY <1>2, <1>4, <1>5, <1>7, <1>3, <1>1 DEF VectorsInv, Overlaps, Removes, RemoveStep
<1>13. Sorted'
  <2> SUFFICES ASSUME NEW y \in Calm
               PROVE  /\ \A d \in Caller : lookup'[d].at = "swap" => y \in lookup'[d].read
                      /\ \A d \in Swapping : Placed(graphs'[index], maps[lookup'[d].made], y)
                      /\ Swapping = {} => Placed(graphs'[index], maps[id_map], y)
                                          \/ \E d \in Adds : lookup'[d].item = y
    BY <1>2, <1>5 DEF Sorted
  <2>1. \A d \in Caller : d # c => lookup'[d] = lookup[d]
    BY <1>3
  <2>2. CASE y = x
    <3>1. Removes = {}
      BY <2>2, <1>1, <1>7 DEF Adds, Removes, AddStep, RemoveStep
    <3>2. Swapping = {} /\ \A d \in Caller : lookup'[d].at # "swap"
      BY <3>1, <1>3, <2>1 DEF Swapping, Removes, RemoveStep
    <3>3. lookup'[c].item = y
      BY <2>2, <1>3
    <3> QED BY <1>1, <3>2, <3>3
  <2>3. CASE y # x
    <3>1. \A d \in Caller : lookup'[d].at = "swap" => y \in lookup'[d].read
      BY <2>1, <1>3 DEF VectorsInv, Sorted
    <3>2. \A d \in Swapping : Placed(graphs'[index], maps[lookup'[d].made], y)
      BY <2>1, <2>3, <1>1, <1>9 DEF VectorsInv, Sorted, Swapping
    <3>3. Swapping = {} => Placed(graphs'[index], maps[id_map], y) \/ \E d \in Adds : lookup'[d].item = y
      BY <2>3, <1>4, <1>9 DEF VectorsInv, Sorted, Adds
    <3> QED BY <3>1, <3>2, <3>3
  <2> QED BY <2>2, <2>3
<1>14. Current'
  <2>1. \A d \in Swapping : lookup'[d].made = lookup[d].made
    BY <1>1, <1>3 DEF Swapping
  <2>2. \A d \in Removes : lookup'[d].alone = lookup[d].alone
    BY <1>1, <1>3 DEF Removes, RemoveStep
  <2> QED BY <1>2, <1>5, <1>7, <2>1, <2>2 DEF VectorsInv, Current
<1> QED BY <1>10, <1>11, <1>12, <1>13, <1>14 DEF VectorsInv, CallsFit

\* A number is put into the map that was loaded.  It may replace one that was
\* given to an item that doubtful, and no other.
LEMMA VectorsInsertNumber ==
  ASSUME VectorsInv, NEW c \in Caller, Vectors!InsertNumber(c)
  PROVE  VectorsInv'
<1>0. PICK x, n, m : x = lookup[c].item /\ n = lookup[c].number /\ m = lookup[c].ids
  OBVIOUS
<1>1. /\ lookup[c].at = "map" /\ c \in Adds /\ x \in Item /\ n \in Nat /\ m \in DOMAIN maps
      /\ \A k \in Nat : k < n => k \in DOMAIN maps[m]
      /\ n \in DOMAIN maps[m] => maps[m][n] \in doubtful
  BY <1>0, CallTypes DEF Vectors!InsertNumber, Vectors!At, VectorsInv, CallsFit, Loaded, NumberFits, Adds,
     AddStep, Vectors!CallType
<1>2. /\ maps' = [maps EXCEPT ![m] = [k \in DOMAIN maps[m] \cup {n} |-> IF k = n THEN x ELSE maps[m][k]]]
      /\ lookup' = [lookup EXCEPT ![c] = Vectors!Idle]
      /\ UNCHANGED <<rows, graphs, index, id_map, calls, doubtful, swapped>>
  BY <1>0, <1>1 DEF Vectors!InsertNumber, Vectors!End
<1>3. /\ lookup' \in [Caller -> Vectors!CallType] /\ lookup'[c] = Vectors!Idle
      /\ Vectors!Idle.at = "idle" /\ Vectors!Idle.op = "none"
      /\ \A d \in Caller : d # c => lookup'[d] = lookup[d]
  <2>1. Vectors!Idle.at = "idle" /\ Vectors!Idle.op = "none"
    BY DEF Vectors!Idle
  <2> QED BY <1>2, <2>1, CallTypes
<1>4. /\ Adds' = Adds \ {c} /\ Removes' = Removes /\ Swapping' = Swapping /\ Calm' = Calm
  BY <1>1, <1>2, <1>3 DEF Adds, Removes, Swapping, AddStep, RemoveStep, Calm
<1>5. /\ DOMAIN maps' = DOMAIN maps
      /\ \A k \in DOMAIN maps : k # m => maps'[k] = maps[k]
      /\ DOMAIN maps'[m] = DOMAIN maps[m] \cup {n} /\ maps'[m][n] = x
      /\ \A k \in DOMAIN maps[m] : k # n => maps'[m][k] = maps[m][k]
  BY <1>1, <1>2
<1>6. /\ \A d \in Adds \cup Removes : d # c => x \in doubtful
      /\ \A d \in Removes : ~lookup[d].alone
      /\ c \notin Removes
  BY <1>0, <1>1 DEF VectorsInv, Overlaps, Removes, RemoveStep
<1>7. ASSUME NEW y \in Calm, y # x, NEW k \in DOMAIN maps, Placed(graphs[index], maps[k], y)
      PROVE  Placed(graphs[index], maps'[k], y)
  <2>1. PICK j \in DOMAIN maps[k] : maps[k][j] = y /\ Sole(graphs[index], y, j)
    BY <1>7 DEF Placed
  <2>2. y \notin doubtful
    BY DEF Calm
  <2>3. j \in DOMAIN maps'[k] /\ maps'[k][j] = y
    BY <1>1, <1>5, <2>1, <2>2
  <2> QED BY <2>1, <2>3 DEF Placed
<1>8. x \in Calm => Removes = {} /\ Placed(graphs[index], maps'[id_map], x)
  <2> SUFFICES ASSUME x \in Calm PROVE Removes = {} /\ Placed(graphs[index], maps'[id_map], x)
    OBVIOUS
  <2>1. Removes = {}
    BY <1>6 DEF Calm
  <2>2. m = id_map /\ Sole(graphs[index], x, n)
    BY <1>0, <1>1 DEF VectorsInv, CallsFit, Undisturbed, AddStep
  <2> QED BY <2>1, <2>2, <1>5 DEF Placed
<1>9. Numbered'
  <2>1. PICK k \in Nat : DOMAIN maps[m] = 0..(k - 1)
    BY <1>1 DEF VectorsInv, Numbered
  <2>2. ~(k < n)
    <3> SUFFICES ASSUME k < n PROVE FALSE
      OBVIOUS
    <3> QED BY <2>1, <1>1
  <2>3. CASE n = k
    <3>1. DOMAIN maps'[m] = 0..((k + 1) - 1) /\ k + 1 \in Nat
      BY <2>1, <2>3, <1>5
    <3> QED BY <3>1, <1>2, <1>5 DEF VectorsInv, Numbered
  <2>4. CASE n < k
    <3>1. DOMAIN maps'[m] = 0..(k - 1)
      BY <2>1, <2>4, <1>1, <1>5
    <3> QED BY <3>1, <1>2, <1>5 DEF VectorsInv, Numbered
  <2> QED BY <2>1, <2>2, <2>3, <2>4, <1>1
<1>10. Vectors!TypeOK'
  <2>1. ASSUME NEW k \in DOMAIN maps PROVE DOMAIN maps'[k] \subseteq Nat /\ Vectors!Range(maps'[k]) \subseteq Item
    <3>1. DOMAIN maps[k] \subseteq Nat /\ Vectors!Range(maps[k]) \subseteq Item
      BY DEF VectorsInv, Vectors!TypeOK
    <3>2. CASE k # m
      BY <3>1, <3>2, <1>5
    <3>3. CASE k = m
      <4>1. DOMAIN maps'[k] \subseteq Nat
        BY <3>1, <3>3, <1>1, <1>5
      <4>2. \A j \in DOMAIN maps'[k] : maps'[k][j] \in Item
        BY <3>1, <3>3, <1>1, <1>5 DEF Vectors!Range
      <4> QED BY <4>1, <4>2 DEF Vectors!Range
    <3> QED BY <3>2, <3>3
  <2>2. \A d \in Caller : lookup'[d].at \notin {"idle", "done"} => lookup'[d].item \in Item
    BY <1>3, CallTypes
  <2> QED BY <1>2, <1>3, <1>5, <2>1, <2>2 DEF VectorsInv, Vectors!TypeOK, Vectors!Busy
<1>11. ASSUME NEW d \in Caller
       PROVE  (OpFits(d) /\ Loaded(d) /\ NumberFits(d) /\ Undisturbed(d) /\ Answered(d))'
  <2>1. CASE d = c
    BY <2>1, <1>3 DEF OpFits, Loaded, NumberFits, Undisturbed, Answered, AddStep, RemoveStep
  <2>2. CASE d # c
    <3>0. OpFits(d) /\ Loaded(d) /\ NumberFits(d) /\ Undisturbed(d) /\ Answered(d) /\ lookup'[d] = lookup[d]
      BY <2>2, <1>3 DEF VectorsInv, CallsFit
    <3>1. OpFits(d)' /\ Loaded(d)' /\ Answered(d)'
      BY <3>0, <1>2, <1>5 DEF OpFits, Loaded, Answered
    <3>2. Undisturbed(d)'
      BY <3>0, <1>2, <1>4 DEF Undisturbed
    <3>3. ASSUME lookup[d].at \in {"point", "map"}
          PROVE  /\ \A j \in Nat : j < lookup[d].number => j \in DOMAIN maps'[lookup[d].ids]
                 /\ lookup[d].number \in DOMAIN maps'[lookup[d].ids] =>
                      maps'[lookup[d].ids][lookup[d].number] \in doubtful
      <4>1. x \in doubtful /\ lookup[d].ids \in DOMAIN maps
        BY <2>2, <3>0, <3>3, <1>6 DEF Loaded, Adds, AddStep
      <4>2. \A j \in DOMAIN maps[lookup[d].ids] : j \in DOMAIN maps'[lookup[d].ids]
        BY <4>1, <1>5
      <4>3. /\ \A j \in Nat : j < lookup[d].number => j \in DOMAIN maps[lookup[d].ids]
            /\ lookup[d].number \in DOMAIN maps[lookup[d].ids] =>
                 maps[lookup[d].ids][lookup[d].number] \in doubtful
        BY <3>0, <3>3 DEF NumberFits
      <4> QED BY <4>1, <4>2, <4>3, <1>5
    <3>4. NumberFits(d)'
      BY <3>0, <3>3, <1>2 DEF NumberFits
    <3> QED BY <3>1, <3>2, <3>4
  <2> QED BY <2>1, <2>2
<1>12. Overlaps'
  <2>1. \A d \in Adds' \cup Removes' : lookup'[d] = lookup[d] /\ d \in Adds \cup Removes
    BY <1>3, <1>4, <1>6 DEF Adds, Removes
  <2>2. \A d \in Adds', e \in Adds' \cup Removes' : e # d => lookup'[d].item \in doubtful'
    BY <2>1, <1>2, <1>4 DEF VectorsInv, Overlaps
  <2>3. \A d \in Removes' : ~lookup'[d].alone
    BY <2>1, <1>4, <1>6
  <2> QED BY <2>2, <2>3, <1>2, <1>4 DEF VectorsInv, Overlaps
<1>13. Sorted'
  <2> SUFFICES ASSUME NEW y \in Calm
               PROVE  /\ \A d \in Caller : lookup'[d].at = "swap" => y \in lookup'[d].read
                      /\ \A d \in Swapping : Placed(graphs[index], maps'[lookup'[d].made], y)
                      /\ Swapping = {} => Placed(graphs[index], maps'[id_map], y)
                                          \/ \E d \in Adds \ {c} : lookup'[d].item = y
    BY <1>2, <1>4 DEF Sorted
  <2>1. /\ \A d \in Caller : lookup'[d].at = "swap" => lookup[d].at = "swap" /\ lookup'[d] = lookup[d]
        /\ \A d \in Swapping : lookup'[d] = lookup[d] /\ lookup[d].made \in DOMAIN maps /\ d \in Removes
    BY <1>1, <1>3, CallTypes DEF Swapping, Removes, RemoveStep, VectorsInv, CallsFit, Loaded
  <2>2. CASE y = x
    <3>1. Removes = {} /\ Placed(graphs[index], maps'[id_map], y)
      BY <2>2, <1>8
    <3> QED BY <2>1, <3>1 DEF Removes, RemoveStep
  <2>3. CASE y # x
    <3>1. \A d \in Caller : lookup'[d].at = "swap" => y \in lookup'[d].read
      BY <2>1 DEF VectorsInv, Sorted
    <3>2. \A d \in Swapping : Placed(graphs[index], maps'[lookup'[d].made], y)
      BY <2>1, <2>3, <1>7 DEF VectorsInv, Sorted
    <3>3. Swapping = {} => Placed(graphs[index], maps[id_map], y) \/ \E d \in Adds : lookup[d].item = y
      BY DEF VectorsInv, Sorted
    <3>4. ASSUME NEW d \in Adds, lookup[d].item = y PROVE d \in Adds \ {c} /\ lookup'[d].item = y
      BY <2>3, <3>4, <1>0, <1>3 DEF Adds
    <3> QED BY <2>3, <3>1, <3>2, <3>3, <3>4, <1>7, CallTypes
  <2> QED BY <2>2, <2>3
<1>14. Current'
  <2>1. \A d \in Removes : lookup'[d] = lookup[d]
    BY <1>3, <1>6 DEF Removes
  <2>2. \A d \in Swapping : d \in Removes
    BY DEF Swapping, Removes, RemoveStep
  <2> QED BY <1>2, <1>4, <1>6, <2>1, <2>2 DEF VectorsInv, Current
<1> QED BY <1>9, <1>10, <1>11, <1>12, <1>13, <1>14 DEF VectorsInv, CallsFit

\* The graph of the rows that were read comes into use; if nothing overlapped
\* the removal, every calm row is among them.
LEMMA VectorsSwapGraph ==
  ASSUME VectorsInv, NEW c \in Caller, Vectors!SwapGraph(c)
  PROVE  VectorsInv'
<1>0. PICK R, N : R = lookup[c].read /\ N = Vectors!Newest
  OBVIOUS
<1>1. /\ lookup[c].at = "swap" /\ lookup[c] \in Vectors!CallType /\ R \in SUBSET Item
      /\ c \in Removes /\ c \notin Adds /\ lookup[c].op = "remove"
  BY <1>0, CallTypes DEF Vectors!SwapGraph, Vectors!At, VectorsInv, CallsFit, OpFits, Adds, AddStep, Removes,
     RemoveStep, Vectors!CallType
<1>2. N \in Nat /\ DOMAIN graphs = 0..(N - 1) /\ N \notin DOMAIN graphs
  <2>1. PICK k \in Nat : DOMAIN graphs = 0..k
    BY DEF VectorsInv, Numbered
  <2>2. Cardinality(0..k) = k + 1
    BY <2>1, FS_Interval
  <2>3. N = k + 1
    BY <2>1, <2>2, <1>0, SameOperators DEF Vectors!Newest
  <2> QED BY <2>1, <2>3
<1> DEFINE q == [[lookup[c] EXCEPT !.at = "swap_map"] EXCEPT !.made = N]
<1>3. /\ graphs' = [g \in 0..N |-> IF g = N THEN Vectors!GraphOf(R) ELSE graphs[g]]
      /\ maps' = [g \in 0..N |-> IF g = N THEN Vectors!MapOf(R) ELSE maps[g]]
      /\ index' = N /\ lookup' = [lookup EXCEPT ![c] = q]
      /\ UNCHANGED <<rows, id_map, calls, doubtful, swapped>>
  BY <1>0, CallTypes DEF Vectors!SwapGraph
<1>4. /\ lookup' \in [Caller -> Vectors!CallType] /\ lookup'[c] = q
      /\ \A d \in Caller : d # c => lookup'[d] = lookup[d]
      /\ q.at = "swap_map" /\ q.op = "remove" /\ q.item = lookup[c].item /\ q.made = N
      /\ q.alone = lookup[c].alone
  <2>1. /\ q \in Vectors!CallType /\ q.at = "swap_map" /\ q.op = "remove" /\ q.item = lookup[c].item
        /\ q.made = N /\ q.alone = lookup[c].alone
    BY <1>1, <1>2 DEF Vectors!CallType, Vectors!Step
  <2> HIDE DEF q
  <2> QED BY <1>3, <2>1, CallTypes
<1> HIDE DEF q
<1>5. Adds' = Adds /\ Removes' = Removes /\ Swapping' = Swapping \cup {c} /\ Calm' = Calm
  BY <1>1, <1>3, <1>4 DEF Adds, Removes, Swapping, AddStep, RemoveStep, Calm
<1>6. /\ DOMAIN graphs' = DOMAIN graphs \cup {N} /\ DOMAIN maps' = DOMAIN maps \cup {N}
      /\ \A g \in DOMAIN graphs : graphs'[g] = graphs[g] /\ maps'[g] = maps[g]
      /\ graphs'[N] = Vectors!GraphOf(R) /\ maps'[N] = Vectors!MapOf(R)
  BY <1>2, <1>3, CallTypes
<1>7. /\ \A d \in Adds : lookup[d].item \notin Calm
      /\ swapped \/ Removes = {c}
      /\ \A d \in Removes : lookup[d].alone => d = c
  BY <1>1 DEF VectorsInv, Overlaps, Calm
<1>8. \A y \in R : Placed(graphs'[N], maps'[N], y)
  BY <1>1, <1>6, MapIsMade DEF Placed, Sole
<1>9. Numbered'
  <2>1. DOMAIN graphs' = 0..N /\ DOMAIN maps' = 0..N
    BY <1>3
  <2>2. ASSUME NEW g \in DOMAIN maps' PROVE \E k \in Nat : DOMAIN maps'[g] = 0..(k - 1)
    <3>1. \E k \in Nat : DOMAIN Vectors!MapOf(R) = 0..(k - 1)
      BY <1>1, MapIsMade
    <3>2. g \in DOMAIN maps => \E k \in Nat : DOMAIN maps[g] = 0..(k - 1)
      BY DEF VectorsInv, Numbered
    <3>3. CASE g = N
      BY <3>1, <3>3, <1>6
    <3>4. CASE g # N
      <4>1. g \in DOMAIN maps /\ maps'[g] = maps[g]
        BY <3>4, <1>6, CallTypes
      <4> QED BY <4>1, <3>2
    <3> QED BY <3>3, <3>4
  <2> QED BY <1>2, <2>1, <2>2 DEF Numbered
<1>10. Vectors!TypeOK'
  <2>1. \A g \in DOMAIN graphs' : graphs'[g] \subseteq Item \X Nat
    BY <1>1, <1>6, MapIsMade DEF VectorsInv, Vectors!TypeOK
  <2>2. \A g \in DOMAIN maps' : DOMAIN maps'[g] \subseteq Nat /\ Vectors!Range(maps'[g]) \subseteq Item
    <3>1. DOMAIN Vectors!MapOf(R) \subseteq Nat
      BY <1>1, MapIsMade
    <3> QED BY <3>1, <1>1, <1>6, MapIsMade DEF VectorsInv, Vectors!TypeOK
  <2>3. \A d \in Caller : lookup'[d].at \notin {"idle", "done"} => lookup'[d].item \in Item
    BY <1>1, <1>4, CallTypes
  <2> QED BY <1>3, <1>4, <1>6, <2>1, <2>2, <2>3, CallTypes DEF VectorsInv, Vectors!TypeOK, Vectors!Busy
<1>11. ASSUME NEW d \in Caller
       PROVE  (OpFits(d) /\ Loaded(d) /\ NumberFits(d) /\ Undisturbed(d) /\ Answered(d))'
  <2>1. CASE d = c
    BY <2>1, <1>4, <1>6 DEF OpFits, Loaded, NumberFits, Undisturbed, Answered, AddStep, RemoveStep
  <2>2. CASE d # c
    <3>0. OpFits(d) /\ Loaded(d) /\ NumberFits(d) /\ Answered(d) /\ lookup'[d] = lookup[d]
      BY <2>2, <1>4 DEF VectorsInv, CallsFit
    <3>1. OpFits(d)' /\ Loaded(d)' /\ Answered(d)'
      BY <3>0, <1>6 DEF OpFits, Loaded, Answered
    <3>2. Undisturbed(d)'
      BY <3>0, <1>5, <1>7 DEF Undisturbed, Adds
    <3>3. lookup[d].at \in {"point", "map"} => maps'[lookup[d].ids] = maps[lookup[d].ids]
      BY <3>0, <1>6, CallTypes DEF Loaded
    <3>4. NumberFits(d)'
      <4>1. doubtful' = doubtful
        BY <1>3
      <4> QED BY <3>0, <3>3, <4>1 DEF NumberFits
    <3> QED BY <3>1, <3>2, <3>4
  <2> QED BY <2>1, <2>2
<1>12. Overlaps'
  <2>1. \A d \in Caller : lookup'[d].item = lookup[d].item
    BY <1>4
  <2>2. \A d \in Removes : lookup'[d].alone = lookup[d].alone
    BY <1>4 DEF Removes
  <2> QED BY <1>3, <1>5, <2>1, <2>2 DEF VectorsInv, Overlaps, Adds
<1>13. Sorted'
  <2> SUFFICES ASSUME NEW y \in Calm
               PROVE  /\ \A d \in Caller : lookup'[d].at = "swap" => y \in lookup'[d].read
                      /\ \A d \in Swapping \cup {c} : Placed(graphs'[N], maps'[lookup'[d].made], y)
    BY <1>3, <1>5 DEF Sorted
  <2>1. Removes = {c} /\ y \in R
    BY <1>0, <1>1, <1>7 DEF Calm, VectorsInv, Sorted
  <2>2. \A d \in Caller : lookup'[d].at # "swap"
    BY <2>1, <1>4 DEF Removes, RemoveStep
  <2>3. Swapping \cup {c} = {c}
    BY <2>1 DEF Swapping, Removes, RemoveStep
  <2> QED BY <2>1, <2>2, <2>3, <1>4, <1>8
<1>14. Current'
  <2>1. ~swapped => Swapping \cup {c} = {c}
    BY <1>7 DEF Swapping, Removes, RemoveStep
  <2>2. ASSUME NEW d \in Removes, lookup'[d].alone
        PROVE  /\ lookup'[d].at = "swap" => lookup'[d].read = rows
               /\ lookup'[d].at = "swap_map" => N = lookup'[d].made /\ \A y \in rows : Placed(graphs'[N], maps'[N], y)
    <3>1. d = c /\ lookup[c].alone
      BY <2>2, <1>4, <1>7 DEF Removes
    <3>2. R = rows
      BY <3>1, <1>0, <1>1 DEF VectorsInv, Current
    <3> QED BY <3>1, <3>2, <1>4, <1>8
  <2> QED BY <1>3, <1>4, <1>5, <2>1, <2>2 DEF Current
<1> QED BY <1>9, <1>10, <1>11, <1>12, <1>13, <1>14 DEF VectorsInv, CallsFit

\* The map follows the graph.  A removal that was alone has put everything in
\* its place; after another one, what is calm is in the map it made.
LEMMA VectorsSwapMap ==
  ASSUME VectorsInv, NEW c \in Caller, Vectors!SwapMap(c)
  PROVE  VectorsInv'
<1>0. PICK m : m = lookup[c].made
  OBVIOUS
<1>1. /\ lookup[c].at = "swap_map" /\ c \in Removes /\ c \notin Adds /\ c \in Swapping
      /\ m \in DOMAIN maps
  BY <1>0, CallTypes DEF Vectors!SwapMap, Vectors!At, VectorsInv, CallsFit, Loaded, Adds, AddStep, Removes,
     RemoveStep, Swapping
<1>2. /\ id_map' = m /\ lookup' = [lookup EXCEPT ![c] = Vectors!Idle]
      /\ doubtful' = IF lookup[c].alone THEN {} ELSE doubtful
      /\ swapped' = (swapped /\ ~lookup[c].alone)
      /\ UNCHANGED <<rows, graphs, maps, index, calls>>
  BY <1>0 DEF Vectors!SwapMap, Vectors!End
<1>3. /\ lookup' \in [Caller -> Vectors!CallType] /\ lookup'[c] = Vectors!Idle
      /\ Vectors!Idle.at = "idle" /\ Vectors!Idle.op = "none"
      /\ \A d \in Caller : d # c => lookup'[d] = lookup[d]
  <2>1. Vectors!Idle.at = "idle" /\ Vectors!Idle.op = "none"
    BY DEF Vectors!Idle
  <2> QED BY <1>2, <2>1, CallTypes
<1>4. Adds' = Adds /\ Removes' = Removes \ {c} /\ Swapping' = Swapping \ {c}
  BY <1>1, <1>3 DEF Adds, Removes, Swapping, AddStep, RemoveStep
<1>5. /\ \A d \in Adds : lookup[d].item \notin Calm
      /\ \A d \in Removes \ {c} : ~lookup[d].alone
      /\ swapped \/ Removes = {c}
      /\ lookup[c].alone => Adds = {} /\ Removes = {c}
  BY <1>1 DEF VectorsInv, Overlaps, Calm
<1>6. ASSUME NEW y \in Calm' PROVE Placed(graphs[index], maps[m], y) /\ Removes = {c}
  <2>1. CASE lookup[c].alone
    <3>1. index = m /\ y \in rows
      BY <2>1, <1>0, <1>1, <1>2 DEF VectorsInv, Current, Calm
    <3> QED BY <2>1, <3>1, <1>0, <1>1, <1>5 DEF VectorsInv, Current
  <2>2. CASE ~lookup[c].alone
    <3>1. y \in Calm /\ ~swapped
      BY <2>2, <1>2 DEF Calm
    <3> QED BY <3>1, <1>0, <1>1, <1>5 DEF VectorsInv, Sorted
  <2> QED BY <2>1, <2>2
<1>7. Vectors!TypeOK' /\ Numbered'
  <2>1. \A d \in Caller : lookup'[d].at \notin {"idle", "done"} => lookup'[d].item \in Item
    BY <1>3, CallTypes
  <2>2. lookup[c].alone \in BOOLEAN
    BY CallTypes DEF Vectors!CallType
  <2>3. doubtful' \subseteq Item /\ swapped' \in BOOLEAN
    BY <1>2, <2>2 DEF VectorsInv, Vectors!TypeOK
  <2>4. Vectors!TypeOK'
    BY <1>1, <1>2, <1>3, <2>1, <2>3 DEF VectorsInv, Vectors!TypeOK, Vectors!Busy
  <2> QED BY <1>2, <2>4 DEF VectorsInv, Numbered
<1>8. ASSUME NEW d \in Caller
      PROVE  (OpFits(d) /\ Loaded(d) /\ NumberFits(d) /\ Undisturbed(d) /\ Answered(d))'
  <2>1. CASE d = c
    BY <2>1, <1>3 DEF OpFits, Loaded, NumberFits, Undisturbed, Answered, AddStep, RemoveStep
  <2>2. CASE d # c
    <3>0. OpFits(d) /\ Loaded(d) /\ NumberFits(d) /\ Answered(d) /\ lookup'[d] = lookup[d]
      BY <2>2, <1>3 DEF VectorsInv, CallsFit
    <3>1. OpFits(d)' /\ Loaded(d)' /\ Answered(d)'
      BY <3>0, <1>2 DEF OpFits, Loaded, Answered
    <3>2. d \in Adds => ~lookup[c].alone /\ lookup[d].item \notin Calm'
      BY <1>2, <1>5 DEF Calm
    <3>3. Undisturbed(d)'
      BY <3>0, <3>2 DEF Undisturbed, Adds
    <3>4. lookup[d].at \in {"point", "map"} => doubtful' = doubtful
      BY <3>2, <1>2 DEF Adds, AddStep
    <3>5. NumberFits(d)'
      BY <3>0, <3>4, <1>2 DEF NumberFits
    <3> QED BY <3>1, <3>3, <3>5
  <2> QED BY <2>1, <2>2
<1>9. Overlaps'
  <2>1. \A d \in Adds' \cup Removes' : lookup'[d] = lookup[d]
    BY <1>1, <1>3, <1>4 DEF Adds, Removes
  <2>2. \A d \in Adds', e \in Adds' \cup Removes' : e # d => lookup'[d].item \in doubtful'
    <3> SUFFICES ASSUME NEW d \in Adds PROVE lookup'[d].item \in doubtful'
      BY <1>4
    <3>1. ~lookup[c].alone
      BY <1>5
    <3> QED BY <2>1, <3>1, <1>1, <1>2, <1>4 DEF VectorsInv, Overlaps
  <2>3. swapped' \/ \A d, e \in Removes' : d = e
    BY <1>2, <1>4, <1>5
  <2>4. \A d \in Removes' : ~lookup'[d].alone
    BY <2>1, <1>4, <1>5
  <2> QED BY <2>2, <2>3, <2>4 DEF Overlaps
<1>10. Sorted'
  <2> SUFFICES ASSUME NEW y \in Calm'
               PROVE  /\ \A d \in Caller : lookup'[d].at # "swap"
                      /\ Swapping' = {}
                      /\ Placed(graphs[index], maps[m], y)
    BY <1>2 DEF Sorted
  <2>1. Removes' = {}
    BY <1>4, <1>6
  <2> QED BY <2>1, <1>6 DEF Removes, Swapping, RemoveStep
<1>11. Current'
  <2>1. ~swapped' => Removes = {c}
    BY <1>2, <1>5
  <2>2. ~swapped' => index = m
    <3>1. CASE lookup[c].alone
      BY <3>1, <1>0, <1>1 DEF VectorsInv, Current
    <3>2. CASE ~lookup[c].alone
      BY <3>2, <1>0, <1>1, <1>2 DEF VectorsInv, Current
    <3> QED BY <3>1, <3>2
  <2>3. ~swapped' => Swapping' = {}
    BY <2>1, <1>4 DEF Swapping, Removes, RemoveStep
  <2>4. \A d \in Removes' : ~lookup'[d].alone
    BY <1>3, <1>4, <1>5 DEF Removes
  <2> QED BY <2>2, <2>3, <2>4, <1>2 DEF Current
<1> QED BY <1>7, <1>8, <1>9, <1>10, <1>11 DEF VectorsInv, CallsFit

\* After a start every row that was read is in the one graph and in the one map.
StartedWith(read) ==
  /\ rows \subseteq Item /\ read \subseteq rows /\ calls \in 0..MaxCalls
  /\ graphs = [g \in {0} |-> Vectors!GraphOf(read)] /\ maps = [g \in {0} |-> Vectors!MapOf(read)]
  /\ index = 0 /\ id_map = 0
  /\ lookup = [c \in Caller |-> Vectors!Idle] /\ doubtful = rows \ read /\ swapped = FALSE
Started == \E read \in SUBSET Item : StartedWith(read)

\* A start with any rows, and the index built from those that were read.
LEMMA VectorsStart == Started => VectorsInv
<1> SUFFICES ASSUME NEW read \in SUBSET Item, StartedWith(read) PROVE VectorsInv
  BY DEF Started
<1>1. Vectors!Idle \in Vectors!CallType /\ Vectors!Idle.at = "idle" /\ Vectors!Idle.op = "none"
  BY StorageAssumption DEF Vectors!Idle, Vectors!CallType, Vectors!Step
<1>2. \A c \in Caller : lookup[c] = Vectors!Idle
  BY DEF StartedWith
<1>3. Adds = {} /\ Removes = {} /\ Swapping = {}
  BY <1>1, <1>2 DEF Adds, Removes, Swapping, AddStep, RemoveStep
<1>4. /\ DOMAIN graphs = {0} /\ DOMAIN maps = {0}
      /\ graphs[0] = Vectors!GraphOf(read) /\ maps[0] = Vectors!MapOf(read)
      /\ index = 0 /\ id_map = 0 /\ rows \in SUBSET Item /\ doubtful = rows \ read
  BY DEF StartedWith
<1>5. Numbered
  <2>1. 0 \in Nat /\ DOMAIN graphs = 0..0
    BY <1>4
  <2>2. PICK n \in Nat : DOMAIN Vectors!MapOf(read) = 0..(n - 1)
    BY <1>4, MapIsMade
  <2>3. \A m \in DOMAIN maps : DOMAIN maps[m] = 0..(n - 1)
    BY <1>4, <2>2
  <2> QED BY <2>1, <2>2, <2>3 DEF Numbered
<1>6. Vectors!TypeOK
  <2>1. DOMAIN Vectors!MapOf(read) \subseteq Nat
    BY <1>4, MapIsMade
  <2>2. /\ \A g \in DOMAIN graphs : graphs[g] \subseteq Item \X Nat
        /\ \A g \in DOMAIN maps : DOMAIN maps[g] \subseteq Nat /\ Vectors!Range(maps[g]) \subseteq Item
    BY <1>4, <2>1, MapIsMade
  <2> QED BY <1>1, <1>2, <1>4, <2>2 DEF StartedWith, Vectors!TypeOK, Vectors!Busy
<1>7. CallsFit
  BY <1>1, <1>2 DEF CallsFit, OpFits, Loaded, NumberFits, Undisturbed, Answered, AddStep, RemoveStep
<1>8. ASSUME NEW x \in read PROVE Placed(graphs[index], maps[id_map], x)
  <2>1. /\ Vectors!Number(read, x) \in DOMAIN maps[id_map]
        /\ maps[id_map][Vectors!Number(read, x)] = x
    BY <1>4, MapIsMade
  <2>2. Sole(graphs[index], x, Vectors!Number(read, x))
    BY <1>4, MapIsMade DEF Sole
  <2> QED BY <2>1, <2>2 DEF Placed
<1>9. Sorted
  BY <1>1, <1>2, <1>3, <1>4, <1>8 DEF Sorted, Calm
<1>10. Overlaps /\ Current
  BY <1>3, <1>4 DEF Overlaps, Current
<1> QED BY <1>5, <1>6, <1>7, <1>9, <1>10 DEF VectorsInv

\* The initial states are such a start.
LEMMA VectorsInit == Vectors!Init => VectorsInv
<1> SUFFICES ASSUME Vectors!Init PROVE VectorsInv
  OBVIOUS
<1>1. PICK read \in Vectors!Readable :
        /\ graphs = [g \in {0} |-> Vectors!GraphOf(read)] /\ maps = [g \in {0} |-> Vectors!MapOf(read)]
        /\ doubtful = rows \ read
  BY DEF Vectors!Init
<1>2. read \in SUBSET Item /\ read \subseteq rows /\ rows \subseteq Item
  BY DEF Vectors!Init, Vectors!Readable
<1>3. StartedWith(read)
  BY <1>1, <1>2, StorageAssumption DEF Vectors!Init, StartedWith
<1> QED BY <1>2, <1>3, VectorsStart DEF Started

\* Every step keeps the invariant.
LEMMA VectorsStep == VectorsInv /\ Vectors!Next => VectorsInv'
<1> SUFFICES ASSUME VectorsInv, Vectors!Next PROVE VectorsInv'
  OBVIOUS
<1>1. CASE Vectors!Restart
  <2>1. rows \subseteq Item /\ calls \in 0..MaxCalls
    BY DEF VectorsInv, Vectors!TypeOK
  <2>4. PICK read \in Vectors!Readable :
          /\ graphs' = [g \in {0} |-> Vectors!GraphOf(read)] /\ maps' = [g \in {0} |-> Vectors!MapOf(read)]
          /\ doubtful' = rows \ read
    BY <1>1 DEF Vectors!Restart
  <2>5. read \in SUBSET Item /\ read \subseteq rows
    BY <2>1 DEF Vectors!Readable
  <2>6. StartedWith(read)'
    BY <1>1, <2>1, <2>4, <2>5 DEF Vectors!Restart, StartedWith, Vectors!GraphOf, Vectors!MapOf, Vectors!Number,
       Vectors!Idle
  <2>2. Started'
    BY <2>5, <2>6 DEF Started
  <2>3. Started' => VectorsInv'
    BY VectorsStart, PTL
  <2> QED BY <2>2, <2>3
<1>2. CASE \E c \in Caller, x \in Item : Vectors!InsertRow(c, x)
  BY <1>2, VectorsInsertRow
<1>3. CASE \E c \in Caller, x \in Item : Vectors!RemoveRow(c, x)
  BY <1>3, VectorsRemoveRow
<1>4. CASE \E c \in Caller, x \in Item : Vectors!Search(c, x)
  BY <1>4, VectorsSearch
<1>5. CASE \E c \in Caller : Vectors!LoadIds(c)
  BY <1>5, VectorsLoadIds
<1>6. CASE \E c \in Caller : Vectors!LoadIndex(c)
  BY <1>6, VectorsLoadIndex
<1>7. CASE \E c \in Caller : Vectors!InsertPoint(c)
  BY <1>7, VectorsInsertPoint
<1>8. CASE \E c \in Caller : Vectors!InsertNumber(c)
  BY <1>8, VectorsInsertNumber
<1>9. CASE \E c \in Caller : Vectors!ReadAll(c)
  BY <1>9, VectorsReadAll
<1>10. CASE \E c \in Caller : Vectors!SwapGraph(c)
  BY <1>10, VectorsSwapGraph
<1>11. CASE \E c \in Caller : Vectors!SwapMap(c)
  BY <1>11, VectorsSwapMap
<1>12. CASE \E c \in Caller : Vectors!Look(c)
  BY <1>12, VectorsLook
<1>13. CASE \E c \in Caller : Vectors!ReadRow(c)
  BY <1>13, VectorsReadRow
<1> QED BY <1>1, <1>2, <1>3, <1>4, <1>5, <1>6, <1>7, <1>8, <1>9, <1>10, <1>11, <1>12, <1>13 DEF Vectors!Next

-----------------------------------------------------------------------------
(* Together (MCStorage).                                                   *)

StoredInv ==
  /\ part = "links" => LinksInv
  /\ part = "pages" => PagesInv
  /\ part = "markdown" => MarkdownInv
  /\ part = "vectors" => VectorsInv

\* The parts start with their invariants.
LEMMA PartsStart == PartsInit => StoredInv
BY LinksInit, PagesInit, MarkdownInit, VectorsInit DEF PartsInit, StoredInv

\* A step of one part keeps the invariants of all.
LEMMA PartsStep ==
  StoredInv /\ [PartsNext]_<<part, vars, webVars, req, linkVars, pageVars, markdownVars, vectorVars>>
    => StoredInv'
<1> SUFFICES ASSUME StoredInv,
                    [PartsNext]_<<part, vars, webVars, req, linkVars, pageVars, markdownVars, vectorVars>>
             PROVE  StoredInv'
  OBVIOUS
<1>1. part' = part
  BY DEF PartsNext
<1>2. CASE part = "links"
  <2>1. Links!Next \/ UNCHANGED <<webVars, req, linkVars>>
    BY <1>2 DEF PartsNext
  <2>2. LinksInv'
    BY <1>2, <2>1, LinksStep, LinksStutter DEF StoredInv
  <2> QED BY <1>1, <1>2, <2>2 DEF StoredInv
<1>3. CASE part = "pages"
  <2>1. Pages!Next \/ UNCHANGED <<webVars, req, pageVars>>
    BY <1>3 DEF PartsNext
  <2>2. PagesInv'
    BY <1>3, <2>1, PagesStep, PagesStutter DEF StoredInv
  <2> QED BY <1>1, <1>3, <2>2 DEF StoredInv
<1>4. CASE part = "markdown"
  <2>1. Markdown!Next \/ UNCHANGED <<req, markdownVars>>
    BY <1>4 DEF PartsNext
  <2>2. MarkdownInv'
    BY <1>4, <2>1, MarkdownStep, MarkdownStutter DEF StoredInv
  <2> QED BY <1>1, <1>4, <2>2 DEF StoredInv
<1>5. CASE part = "vectors"
  <2>1. Vectors!Next \/ UNCHANGED vectorVars
    BY <1>5 DEF PartsNext
  <2>2. VectorsInv'
    BY <1>5, <2>1, VectorsStep, VectorsStutter DEF StoredInv
  <2> QED BY <1>1, <1>5, <2>2 DEF StoredInv
<1>6. CASE part \notin {"links", "pages", "markdown", "vectors"}
  BY <1>1, <1>6 DEF StoredInv
<1> QED BY <1>2, <1>3, <1>4, <1>5, <1>6

\* Every step of the links is one of such links, and no other step is any.
LEMMA PartsOneTime ==
  StoredInv /\ [PartsNext]_<<part, vars, webVars, req, linkVars, pageVars, markdownVars, vectorVars>>
    => OneTime!Next \/ UNCHANGED <<LinkSecret, LinkOwner, LinkState>>
<1> SUFFICES ASSUME StoredInv,
                    [PartsNext]_<<part, vars, webVars, req, linkVars, pageVars, markdownVars, vectorVars>>
             PROVE  OneTime!Next \/ UNCHANGED <<LinkSecret, LinkOwner, LinkState>>
  OBVIOUS
<1>1. part' = part
  BY DEF PartsNext
<1>2. CASE part # "links"
  BY <1>1, <1>2 DEF LinkSecret, LinkOwner, LinkState
<1>3. CASE part = "links"
  <2>1. LinksInv
    BY <1>3 DEF StoredInv
  <2>2. Links!Next \/ UNCHANGED <<webVars, req, linkVars>>
    BY <1>3 DEF PartsNext
  <2>3. CASE UNCHANGED <<webVars, req, linkVars>>
    <3>1. now' = now /\ req' = req /\ setup' = setup /\ setups' = setups /\ overlap' = overlap
          /\ saved' = saved /\ secret' = secret
      BY <2>3 DEF webVars, linkVars
    <3> QED BY <1>1, <3>1 DEF LinkSecret, LinkOwner, LinkState, Links!OwnerOf, Links!StateOf,
          Links!Usable, Links!Live
  <2>4. CASE Links!Next
    <3>1. CASE Links!Tick \/ Links!Restart \/ \E l \in Key : Links!OpenSetup(l)
      BY <1>1, <1>3, <2>1, <3>1, LinksPass
    <3>2. ASSUME NEW l \in Key, NEW q \in Account, Links!CreateSetup(l, q) PROVE OneTime!Next
      BY <1>1, <1>3, <2>1, <3>2, LinksMake
    <3>3. ASSUME NEW r \in Caller, Links!StoreSecret(r) PROVE OneTime!Next
      BY <1>1, <1>3, <2>1, <3>3, LinksStore
    <3>4. ASSUME NEW r \in Caller, Links!SpendLink(r) PROVE OneTime!Next
      BY <1>1, <1>3, <2>1, <3>4, LinksSpend
    <3>5. ASSUME NEW r \in Caller, NEW l \in Key, NEW pw \in Strong \cup Weak, Links!BeginSave(r, l, pw)
          PROVE  OneTime!Next
      BY <1>1, <1>3, <2>1, <3>5, LinksBegin
    <3> QED BY <2>4, <3>1, <3>2, <3>3, <3>4, <3>5 DEF Links!Next
  <2> QED BY <2>2, <2>3, <2>4
<1> QED BY <1>2, <1>3

\* At the start no link is made, and the passwords are those of an earlier run.
LEMMA PartsOneTimeInit == PartsInit => OneTime!Init
<1> SUFFICES ASSUME PartsInit PROVE OneTime!Init
  OBVIOUS
<1>1. CASE part = "links"
  <2>1. Links!Init
    BY <1>1 DEF PartsInit
  <2>2. LinkSecret \in [Account -> (Strong \ Weak) \cup {Absent}]
    BY <1>1, <2>1 DEF LinkSecret, Links!Init
  <2>3. LinkOwner = [l \in Key |-> Absent] /\ LinkState = [l \in Key |-> "unmade"]
    BY <1>1, <2>1 DEF LinkOwner, LinkState, Links!Init, Links!OwnerOf, Links!StateOf
  <2> QED BY <2>2, <2>3 DEF OneTime!Init
<1>2. CASE part # "links"
  BY <1>2 DEF OneTime!Init, LinkSecret, LinkOwner, LinkState
<1> QED BY <1>1, <1>2

\* The setup links of every behaviour implement OneTimeLink: a password is
\* stored by a link of its account, and by one that is still good and has stored
\* none, unless several saves share it (SetupTask::save, create_setup and
\* get_setup of web/guard/task.rs).
THEOREM LinksAreOneTime == PartsSpec => ImplementsOneTimeLink
<1> QED BY PartsStart, PartsStep, PartsOneTime, PartsOneTimeInit, PTL
        DEF PartsSpec, ImplementsOneTimeLink, OneTime!Spec, OneTime!vars

\* The engine of the tables runs in every behaviour (api/storage/hot.rs), at rest
\* but in its own part: what is proved of it holds there too.
THEOREM StorageRuns == PartsSpec => Spec
<1>1. PartsInit => Init
  BY DEF PartsInit, TablesRest
<1>2. [PartsNext]_<<part, vars, webVars, req, linkVars, pageVars, markdownVars, vectorVars>>
        => [Next]_vars
  BY DEF PartsNext
<1> QED BY <1>1, <1>2, PTL DEF PartsSpec, Spec

\* In every behaviour of the parts: a link stores a second password only when
\* its saves overlapped (web/guard/task.rs); a locked page gives out no token but
\* to an attempt under way, a page and its gate live together and a request gets
\* the certificate it asked for (web/guard/task.rs, web/jdfpm/expose.rs); a
\* rendered page is served whole and a complete one has contents, but for the
\* reasons given (web/md/task.rs, storage/file.rs); a row is found by its vector,
\* and a search answered with it, unless calls overlapped (storage/vector.rs).
THEOREM StoredThingsHold == PartsSpec => []WhatIsStoredHolds
<1>1. StoredInv /\ TypeOK => WhatIsStoredHolds
  BY LinksHold, VectorsHold DEF StoredInv, WhatIsStoredHolds, PagesInv, MarkdownInv, MarkdownTypes
<1>2. PartsSpec => []StoredInv
  BY PartsStart, PartsStep, PTL DEF PartsSpec
<1>3. PartsSpec => []TypeOK
  BY StorageRuns, TypeCorrect, PTL
<1> QED BY <1>1, <1>2, <1>3, PTL
=============================================================================
