-------------------------- MODULE VersionBroadcast --------------------------
(***************************************************************************)
(* The announcement of a new version to every group the bot is in          *)
(* (src/logic/notify.rs): one task per process, which compares the version *)
(* it was built as with the one recorded last, records its own, and only   *)
(* then sends.  The record is a row of a HotTable, so recording it means   *)
(* handing it to the storage engine: the engine is taken at the level of   *)
(* its promise (DurableStore), and the map in memory is "cached".          *)
(***************************************************************************)
EXTENDS DurableStore

CONSTANTS Group,         \* groups the bot may be in
          Release,       \* versions that get deployed
          STATE_KEY,     \* the one key of the table
          MaxRestarts    \* bound: restarts of the process

ASSUME VersionBroadcastAssumption ==
  /\ STATE_KEY \in Key
  /\ Release \subseteq Value
  /\ MaxRestarts \in Nat

VARIABLES VERSION,    \* what the running process was built as
          cached,     \* the row as the process knows it
          pc,         \* where broadcast() is
          attempt,    \* the attempt of fetch_group_list
          left,       \* groups that are still to be told
          restarts

\* History.
VARIABLES told,         \* how often a group got the notice of a version
          listed,       \* groups on the list when a version was last announced
          tried,        \* <<group, version>> pairs whose sending was attempted
          interrupted,  \* versions whose announcement was cut by a crash
          lastMark,     \* the version recorded last, durable or not
          markLost,     \* that record never reached the disk
          seen          \* versions that ran here, or left the first record

vars == <<store, pending, VERSION, cached, pc, attempt, left, restarts,
          told, listed, tried, interrupted, lastMark, markLost, seen>>

LIST_RETRY == 3

Row(bad) == IF bad THEN Absent ELSE store[STATE_KEY]

Init ==
  /\ StoreInit
  /\ VERSION \in Release
  /\ cached = Row(FALSE)
  /\ pc = "boot"
  /\ attempt = 1
  /\ left = {}
  /\ restarts = 0
  /\ told = [g \in Group |-> [v \in Release |-> 0]]
  /\ listed = [v \in Release |-> {}]
  /\ tried = {}
  /\ interrupted = {}
  /\ lastMark = cached
  /\ markLost = FALSE
  /\ seen = ({VERSION} \cup {cached}) \ {Absent}

-----------------------------------------------------------------------------
\* Faulty variants of definitions below; no specification uses them.  Each is
\* a bug that a property of this module must catch.

\* The version is recorded in memory only.
mark_broadcasted_MemoryOnly ==
  /\ cached' = VERSION
  /\ lastMark' = VERSION
  /\ markLost' = FALSE
  /\ UNCHANGED <<store, pending>>

\* The table without a record is taken for one that holds an old version.
RecordFirst_Announces ==
  /\ pc = "boot"
  /\ cached = Absent
  /\ pc' = "listing"
  /\ UNCHANGED <<store, pending, cached, lastMark, markLost>>
  /\ UNCHANGED <<VERSION, attempt, left, restarts,
                 told, listed, tried, interrupted, seen>>

\* The first group that cannot be told ends the announcement.
SendNotice_StopsOnError(g) ==
  /\ pc = "sending"
  /\ tried' = tried \cup {<<g, VERSION>>}
  /\ \/ told' = [told EXCEPT ![g][VERSION] = @ + 1] /\ left' = left \ {g}
     \/ told' = told /\ left' = {}
  /\ UNCHANGED <<store, pending, cached, lastMark, markLost>>
  /\ UNCHANGED <<VERSION, pc, attempt, restarts, listed, interrupted, seen>>

-----------------------------------------------------------------------------
\* HotTable::insert of the running version: queued for the engine, and in
\* the map at once.
mark_broadcasted ==
  /\ Accept([key |-> STATE_KEY, value |-> VERSION])
  /\ cached' = VERSION
  /\ lastMark' = VERSION
  /\ markLost' = FALSE

Unmarked == UNCHANGED <<store, pending, cached, lastMark, markLost>>

\* After BOOT_DELAY the recorded version is the running one: nothing to do.
SkipSame ==
  /\ pc = "boot"
  /\ cached = VERSION
  /\ pc' = "done"
  /\ Unmarked
  /\ UNCHANGED <<VERSION, attempt, left, restarts,
                 told, listed, tried, interrupted, seen>>

\* Nothing was ever recorded: record the version, tell nobody.
RecordFirst ==
  /\ pc = "boot"
  /\ cached = Absent
  /\ mark_broadcasted
  /\ pc' = "done"
  /\ UNCHANGED <<VERSION, attempt, left, restarts,
                 told, listed, tried, interrupted, seen>>

\* Another version was recorded: ask for the groups.
StartListing ==
  /\ pc = "boot"
  /\ cached \notin {VERSION, Absent}
  /\ pc' = "listing"
  /\ Unmarked
  /\ UNCHANGED <<VERSION, attempt, left, restarts,
                 told, listed, tried, interrupted, seen>>

\* fetch_group_list got an answer: record the version, then start to send.
ListFetched(groups) ==
  /\ pc = "listing"
  /\ mark_broadcasted
  /\ left' = groups
  /\ listed' = [listed EXCEPT ![VERSION] = groups]
  /\ pc' = "sending"
  /\ UNCHANGED <<VERSION, attempt, restarts, told, tried, interrupted, seen>>

\* An attempt failed (no answer in time, or one without data); after the last
\* one the task gives up and records nothing.
ListFailed ==
  /\ pc = "listing"
  /\ IF attempt < LIST_RETRY
       THEN attempt' = attempt + 1 /\ pc' = pc
       ELSE attempt' = attempt /\ pc' = "done"
  /\ Unmarked
  /\ UNCHANGED <<VERSION, left, restarts, told, listed, tried, interrupted, seen>>

\* send_notice: the group may get it or not, and an error is only logged.
SendNotice(g) ==
  /\ pc = "sending"
  /\ left' = left \ {g}
  /\ tried' = tried \cup {<<g, VERSION>>}
  /\ \/ told' = [told EXCEPT ![g][VERSION] = @ + 1]
     \/ told' = told
  /\ Unmarked
  /\ UNCHANGED <<VERSION, pc, attempt, restarts, listed, interrupted, seen>>

AllSent ==
  /\ pc = "sending"
  /\ left = {}
  /\ pc' = "done"
  /\ Unmarked
  /\ UNCHANGED <<VERSION, attempt, left, restarts,
                 told, listed, tried, interrupted, seen>>

-----------------------------------------------------------------------------
\* The engine commits the record, or the database refuses it.
EngineSettles(kept) ==
  /\ pending # <<>>
  /\ Settle(1, kept)
  /\ markLost' = (kept = {})
  /\ UNCHANGED <<VERSION, cached, pc, attempt, left, restarts,
                 told, listed, tried, interrupted, lastMark, seen>>

\* The process ends anywhere (a lost socket is process::exit) and the
\* container starts it again, perhaps with another build, older or newer.
Restart(v, bad) ==
  /\ restarts < MaxRestarts
  /\ restarts' = restarts + 1
  /\ Forget
  /\ VERSION' = v
  /\ cached' = Row(bad)
  /\ pc' = "boot"
  /\ attempt' = 1
  /\ left' = {}
  /\ interrupted' = IF pc = "sending" /\ left # {} THEN interrupted \cup {VERSION}
                                                   ELSE interrupted
  /\ markLost' = (markLost \/ pending # <<>>)
  /\ seen' = seen \cup {v}
  /\ UNCHANGED <<told, listed, tried, lastMark>>

Next == \/ SkipSame
        \/ RecordFirst
        \/ StartListing
        \/ \E groups \in SUBSET Group : ListFetched(groups)
        \/ ListFailed
        \/ \E g \in left : SendNotice(g)
        \/ AllSent
        \/ \E kept \in SUBSET {1} : EngineSettles(kept)
        \/ \E v \in Release : \E bad \in {FALSE, IoErrors} : Restart(v, bad)

Spec == Init /\ [][Next]_vars

-----------------------------------------------------------------------------
TypeOK ==
  /\ store \in Table
  /\ pending \in Seq(StoreOp)
  /\ VERSION \in Release
  /\ cached \in Cell
  /\ pc \in {"boot", "listing", "sending", "done"}
  /\ attempt \in 1..LIST_RETRY
  /\ left \subseteq Group
  /\ restarts \in Nat
  /\ told \in [Group -> [Release -> Nat]]
  /\ listed \in [Release -> SUBSET Group]
  /\ tried \subseteq Group \X Release
  /\ interrupted \subseteq Release
  /\ lastMark \in Cell
  /\ markLost \in BOOLEAN
  /\ seen \subseteq Value

(***************************************************************************)
(* A version is announced again, with no other version recorded between,   *)
(* only if its record was lost on the way to the disk: the process died    *)
(* before the engine committed, or the database refused it.                *)
(* (broadcast: the record is queued before the first notice)               *)
(***************************************************************************)
RepeatNeedsLostMark ==
  [][(pc = "listing" /\ pc' = "sending" /\ lastMark = VERSION) => markLost]_vars

(***************************************************************************)
(* Where only one version ever ran and no other was on record, no group is *)
(* ever told of an update, whatever crashes and unreadable rows there      *)
(* were.  (decision 4 at the head of notify.rs, the None branch)           *)
(***************************************************************************)
NewcomersAreSpared ==
  \A v \in Release : seen = {v} => \A g \in Group : told[g][v] = 0

(***************************************************************************)
(* A group on the list can be left out of an announcement only by a crash  *)
(* in the middle of the sending: not by a send that fails, not by a list   *)
(* that came late, not by the record being there first.                    *)
(***************************************************************************)
LeftOutOnlyByCrash ==
  \A v \in Release \ interrupted :
    \A g \in listed[v] :
      \/ <<g, v>> \in tried
      \/ pc = "sending" /\ VERSION = v /\ g \in left

(***************************************************************************)
(* "Mark first, then send: a crash in between leaves out a few groups once *)
(* at most" (notify.rs): a group never gets the notice of one version      *)
(* twice, for deployments that do not go back to an older version.         *)
(***************************************************************************)
ToldOnce == \A g \in Group, v \in Release : told[g][v] <= 1
=============================================================================
