------------------------------ MODULE TempFiles ------------------------------
(***************************************************************************)
(* Downloads into temporary files and the pages that hand them out:        *)
(* src/src/api/storage/temp.rs, src/src/api/network/download.rs, the       *)
(* /download command (src/src/logic/download.rs) and src/src/web/file.     *)
(*                                                                         *)
(* A command asks for files, each fetched by a task of its own with up to  *)
(* three tries; what was fetched is owned by a page for a day.  Dropping   *)
(* the last owner of a file puts its name on the queue of the cleaner,     *)
(* which waits a minute for every name.  A name is a document's own, or    *)
(* <<document, n>> with n from a counter.                                  *)
(***************************************************************************)
EXTENDS Naturals, FiniteSets, Sequences, SequencesExt

CONSTANTS
    Cmd,            \* /download commands, and the ids of their pages
    Job,            \* files asked for
    Doc,            \* file names they ask for
    Req,            \* HTTP requests for a listed file
    Sizes,          \* lengths of files, in bytes
    Absent,
    OPTIMAL_CHUNKS, \* into how many ranges a download is cut
    TRIES,          \* the tries of one file (3 in the code)
    EXPIRE,         \* EXPIRE_DURATION_SECS of a page
    CLEAN,          \* the wait of the cleaner
    MaxFaults,      \* bound of the failures: of the disk, the server, the network
    MaxTime         \* bound of the clock

VARIABLES
    now,        \* the clock
    cache,      \* names that are reserved
    counter,    \* the next suffix
    disk,       \* what a name holds: the bytes written, and the length
    queue,      \* names waiting for the cleaner
    cleanAt,    \* when the cleaner is done waiting for the first of them; 0 for none
    job,        \* the state of every file asked for
    phase,      \* how far a command is
    expire,     \* when its page ends
    data,       \* DATA: the pages that can be looked up
    req,        \* requests that hold a page
    faults,     \* failures so far
    leftover,   \* history: names found on disk by the last start
    short,      \* history: jobs that took a wrong answer for data
    gone        \* history: requests that found no file behind a listed name

vars == <<now, cache, counter, disk, queue, cleanAt, job, phase, expire, data,
          req, faults, leftover, short, gone>>

MaxSuffix == Cardinality(Job) * TRIES + 1
Name == Doc \cup (Doc \X (0..MaxSuffix))
File == [size : Sizes, have : SUBSET Nat]
NoJob == [st |-> "unused"]
Fetch == [st : {"asking", "writing", "kept", "over"}, cmd : Cmd, doc : Doc, try : 1..TRIES,
         name : Name \cup {Absent}, todo : SUBSET (Nat \X Nat), bad : BOOLEAN]

TypeOK ==
    /\ now \in 0..MaxTime
    /\ cache \subseteq Name /\ counter \in 0..MaxSuffix
    /\ disk \in [Name -> File \cup {Absent}]
    /\ queue \in Seq(Name) /\ cleanAt \in 0..(MaxTime + CLEAN)
    /\ job \in [Job -> Fetch \cup {NoJob}]
    /\ phase \in [Cmd -> {"unused", "fetching", "moved", "listed", "ended"}]
    /\ expire \in [Cmd -> 0..(MaxTime + EXPIRE)] /\ data \subseteq Cmd
    /\ req \in [Req -> Cmd \cup {Absent}]
    /\ faults \in 0..MaxFaults
    /\ leftover \subseteq Name /\ short \subseteq Job /\ gone \subseteq Req

\* An earlier run may have left a file behind: its name is reserved for good.
Init ==
    /\ now = 0 /\ counter = 0 /\ queue = <<>> /\ cleanAt = 0
    /\ \E old \in SUBSET (Doc \cup {<<d, 0>> : d \in Doc}) :
          /\ disk = [n \in Name |-> IF n \in old THEN [size |-> CHOOSE s \in Sizes : TRUE, have |-> {}] ELSE Absent]
          /\ cache = old /\ leftover = old
    /\ job = [j \in Job |-> NoJob] /\ phase = [c \in Cmd |-> "unused"]
    /\ expire = [c \in Cmd |-> 0] /\ data = {}
    /\ req = [r \in Req |-> Absent] /\ faults = 0 /\ short = {} /\ gone = {}

Tick ==
    /\ now < MaxTime
    /\ now' = now + 1
    /\ UNCHANGED <<faults, cache, counter, disk, queue, cleanAt, job, phase, expire, data,
                   req, leftover, short, gone>>

-----------------------------------------------------------------------------
\* Faulty variant of AllocPath; no specification uses it: whether the name
\* asked for is free is not looked at.
AllocPath_Unlooked(d) == [name |-> d, counter |-> counter]

\* alloc_path: the name asked for, or the first free one from the counter on.
Suffix(d) == CHOOSE n \in counter..MaxSuffix :
                /\ <<d, n>> \notin cache
                /\ \A m \in counter..(n - 1) : <<d, m>> \in cache
AllocPath(d) ==
    IF d \notin cache THEN [name |-> d, counter |-> counter]
    ELSE [name |-> <<d, Suffix(d)>>, counter |-> Suffix(d) + 1]

\* release: names go to the cleaner, which starts to wait if it was idle.
Release(names) ==
    /\ queue' = queue \o SetToSeq(names)
    /\ cleanAt' = IF queue = <<>> /\ names # {} THEN now + CLEAN ELSE cleanAt

\* The byte ranges a file of this length is cut into; none for an empty one.
ChunkSize(size) == IF size \div OPTIMAL_CHUNKS = 0 THEN size ELSE size \div OPTIMAL_CHUNKS
Chunks(size) ==
    LET num == IF size \div OPTIMAL_CHUNKS = 0 THEN 1 ELSE OPTIMAL_CHUNKS
    IN  IF size = 0 THEN {}
        ELSE {<<i * ChunkSize(size),
                IF i = num - 1 THEN size - 1 ELSE (i + 1) * ChunkSize(size) - 1>> : i \in 0..(num - 1)}

\* download_single_stream: a file whose length the server does not tell comes
\* as one stream, the answer to the probe, and grows as it arrives.
Whole(size) == IF size = 0 THEN {} ELSE {<<0, size - 1>>}

\* A failure, as long as the bound allows one.
Fault == faults < MaxFaults /\ faults' = faults + 1

\* A file that is asked for, or was given up or dropped with its page, holds
\* nothing; one that is written has a name.
Without(st, cmd, doc, try) ==
    [st |-> st, cmd |-> cmd, doc |-> doc, try |-> try, name |-> Absent, todo |-> {}, bad |-> FALSE]
GivenUp(task) == Without("over", task.cmd, task.doc, 1)
Writing(task, name, todo, bad) ==
    [st |-> "writing", cmd |-> task.cmd, doc |-> task.doc, try |-> task.try,
     name |-> name, todo |-> todo, bad |-> bad]

\* A try that failed: the next one, or the end of the file.
Retry(j, permanent) ==
    job' = [job EXCEPT ![j] = IF permanent \/ @.try = TRIES THEN GivenUp(@)
                              ELSE Without("asking", @.cmd, @.doc, @.try + 1)]

\* /download: one task for every file of an activity that is not closed.
StartDownload(c, J) ==
    /\ phase[c] = "unused"
    /\ phase' = [phase EXCEPT ![c] = "fetching"]
    /\ \E doc \in [J -> Doc] :
          job' = [j \in Job |-> IF j \in J THEN Without("asking", c, doc[j], 1) ELSE job[j]]
    /\ UNCHANGED <<faults, now, cache, counter, disk, queue, cleanAt, expire, data, req,
                   leftover, short, gone>>

\* The address or the length cannot be had; a refusal is not asked again.
AskFails(j) ==
    /\ job[j].st = "asking" /\ Fault
    /\ \E permanent \in BOOLEAN : Retry(j, permanent)
    /\ UNCHANGED <<now, cache, counter, disk, queue, cleanAt, phase, expire, data,
                   req, leftover, short, gone>>

\* The file is made: to be filled range by range if the probe told its length,
\* from the one stream if not; or the disk refuses and the name is released.
MakeFile(j, name) ==
    \/ \E s \in Sizes : \E ranges \in {Chunks(s), Whole(s)} :
          /\ disk' = [disk EXCEPT ![name] = [size |-> s, have |-> {}]]
          /\ job' = [job EXCEPT ![j] = Writing(@, name, ranges, FALSE)]
          /\ UNCHANGED <<queue, cleanAt, faults>>
    \/ Fault /\ Retry(j, FALSE) /\ Release({name}) /\ UNCHANGED disk

\* download_to_backend: probe_total_size answered, a name is reserved.
BeginWrite(j) ==
    /\ job[j].st = "asking"
    /\ LET a == AllocPath(job[j].doc) IN
          /\ cache' = cache \cup {a.name} /\ counter' = a.counter
          /\ MakeFile(j, a.name)
    /\ UNCHANGED <<now, phase, expire, data, req, leftover, short, gone>>

\* A range is answered whole; or with too little, which nobody notices because
\* neither the status nor the length is looked at; or the stream breaks.
FetchChunk(j, k) ==
    /\ job[j].st = "writing" /\ k \in job[j].todo
    /\ \/ /\ disk' = [disk EXCEPT ![job[j].name].have = @ \cup (k[1]..k[2])]
          /\ job' = [job EXCEPT ![j] = Writing(@, @.name, @.todo \ {k}, @.bad)]
          /\ UNCHANGED <<short, faults>>
       \/ /\ Fault /\ short' = short \cup {j}
          /\ job' = [job EXCEPT ![j] = Writing(@, @.name, @.todo \ {k}, @.bad)]
          /\ UNCHANGED disk
       \/ /\ Fault /\ job' = [job EXCEPT ![j] = Writing(@, @.name, @.todo \ {k}, TRUE)]
          /\ UNCHANGED <<disk, short>>
    /\ UNCHANGED <<now, cache, counter, queue, cleanAt, phase, expire, data, req,
                   leftover, gone>>

\* All ranges are in: the file is kept, or dropped and asked for again.
EndWrite(j) ==
    /\ job[j].st = "writing" /\ job[j].todo = {}
    /\ \/ /\ ~job[j].bad /\ job' = [job EXCEPT ![j].st = "kept"]
          /\ UNCHANGED <<queue, cleanAt>>
       \/ /\ job[j].bad /\ Retry(j, FALSE) /\ Release({job[j].name})
    /\ UNCHANGED <<faults, now, cache, counter, disk, phase, expire, data, req, leftover, short, gone>>

-----------------------------------------------------------------------------
JobsOf(c) == {j \in Job : job[j] # NoJob /\ job[j].cmd = c}
FilesOf(c) == {job[j].name : j \in {i \in JobsOf(c) : job[i].st = "kept"}}
Held(c) == \E r \in Req : req[r] = c

\* Pages that are no longer listed or held are dropped, and their files.
Dropped(before) == {p \in before : p \notin data' /\ ~\E r \in Req : req'[r] = p}
Drop(before) ==
    LET over == Dropped(before)
    IN  /\ Release(UNION {FilesOf(p) : p \in over})
        /\ job' = [j \in Job |-> IF \E p \in over : j \in JobsOf(p) THEN GivenUp(job[j]) ELSE job[j]]

\* Once every task has ended the page enters ON_QUEUE and its link is sent out;
\* finish sweeps the pages that are over and takes it out of ON_QUEUE ...
MovePage(c) ==
    /\ phase[c] = "fetching"
    /\ \A j \in JobsOf(c) : job[j].st \in {"kept", "over"}
    /\ phase' = [phase EXCEPT ![c] = "moved"]
    /\ expire' = [expire EXCEPT ![c] = now + EXPIRE]
    /\ data' = {p \in data : expire[p] > now}
    /\ UNCHANGED req
    /\ Drop(data)
    /\ UNCHANGED <<faults, now, cache, counter, disk, leftover, short, gone>>

\* ... and only then enters DATA.
ListPage(c) ==
    /\ phase[c] = "moved"
    /\ phase' = [phase EXCEPT ![c] = "listed"]
    /\ data' = data \cup {c}
    /\ UNCHANGED <<faults, now, cache, counter, disk, queue, cleanAt, job, expire, req,
                   leftover, short, gone>>

\* query: a request holds the page it finds; one that is over is removed.
LookPage(r, c) ==
    /\ req[r] = Absent /\ c \in data
    /\ \/ /\ expire[c] > now
          /\ req' = [req EXCEPT ![r] = c]
          /\ UNCHANGED <<data, queue, cleanAt, job>>
       \/ /\ expire[c] <= now
          /\ data' = data \ {c} /\ UNCHANGED req
          /\ Drop({c})
    /\ UNCHANGED <<faults, now, cache, counter, disk, phase, expire, leftover, short, gone>>

\* file_download_handler opens a file of the page it holds and lets go of it.
ServeFile(r) ==
    /\ req[r] # Absent
    /\ req' = [req EXCEPT ![r] = Absent]
    /\ gone' = IF \E n \in FilesOf(req[r]) : disk[n] = Absent THEN gone \cup {r} ELSE gone
    /\ UNCHANGED data
    /\ Drop({req[r]})
    /\ UNCHANGED <<faults, now, cache, counter, disk, phase, expire, leftover, short>>

-----------------------------------------------------------------------------
\* The cleaner removes the file, which may fail, and frees the name.
Clean ==
    /\ queue # <<>> /\ now >= cleanAt
    /\ \/ disk' = [disk EXCEPT ![Head(queue)] = Absent] /\ UNCHANGED faults
       \/ Fault /\ UNCHANGED disk
    /\ cache' = cache \ {Head(queue)}
    /\ queue' = Tail(queue)
    /\ cleanAt' = IF queue' = <<>> THEN 0 ELSE now + CLEAN
    /\ UNCHANGED <<now, counter, job, phase, expire, data, req, leftover, short, gone>>

\* A restart: what is on disk is reserved, everything else is forgotten.
Restart ==
    /\ \E c \in Cmd : phase[c] \notin {"unused", "ended"}
    /\ cache' = {n \in Name : disk[n] # Absent} /\ leftover' = cache'
    /\ counter' = 0 /\ queue' = <<>> /\ data' = {} /\ req' = [r \in Req |-> Absent]
    /\ job' = [j \in Job |-> IF job[j] = NoJob THEN NoJob ELSE GivenUp(job[j])]
    /\ phase' = [c \in Cmd |-> IF phase[c] = "unused" THEN "unused" ELSE "ended"]
    /\ cleanAt' = 0 /\ expire' = [c \in Cmd |-> 0]
    /\ UNCHANGED <<faults, now, disk, short, gone>>

Next ==
    \/ Tick \/ Clean \/ Restart
    \/ \E c \in Cmd : \/ \E J \in SUBSET {j \in Job : job[j] = NoJob} : StartDownload(c, J)
                      \/ MovePage(c) \/ ListPage(c)
    \/ \E j \in Job : AskFails(j) \/ BeginWrite(j) \/ EndWrite(j)
                      \/ (job[j] # NoJob /\ \E k \in job[j].todo : FetchChunk(j, k))
    \/ \E r \in Req : ServeFile(r) \/ \E c \in Cmd : LookPage(r, c)

Spec == Init /\ [][Next]_vars

-----------------------------------------------------------------------------
Owners(n) == {j \in Job : job[j].st \in {"writing", "kept"} /\ job[j].name = n}
Waiting(n) == {i \in 1..Len(queue) : queue[i] = n}

\* Every reserved name is accounted for exactly once: one download or page owns
\* it, or the cleaner has it, or an earlier run left it (temp.rs: a name given
\* twice would let two downloads write one file and the cleaner remove it
\* under the second).
OneOwner ==
    \A n \in Name :
        LET accounts == Cardinality(Owners(n)) + Cardinality(Waiting(n))
                          + (IF n \in leftover THEN 1 ELSE 0)
        IN  accounts = IF n \in cache THEN 1 ELSE 0

\* A page that is listed, or held by a request, has its files on disk: nobody
\* is told that a listed file is gone (file/expose.rs, GONE).
FilesWhileListed ==
    /\ \A c \in Cmd : c \in data \/ Held(c) => \A n \in FilesOf(c) : disk[n] # Absent
    /\ gone = {}

\* A file on a page is whole unless the server gave a short answer: the ranges
\* of download_parallel_benchmarked cover the file.
WholeUnlessShort ==
    \A j \in Job : job[j].st = "kept" /\ j \notin short =>
        disk[job[j].name].have = {b \in 0..disk[job[j].name].size : b < disk[job[j].name].size}

FilesAreKept == OneOwner /\ FilesWhileListed /\ WholeUnlessShort
=============================================================================
