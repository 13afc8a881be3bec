---------------------------- MODULE MarkdownPage ----------------------------
(***************************************************************************)
(* Pages rendered from Markdown: the task of a command (src/src/web/md/    *)
(* task.rs), what its address answers (expose.rs there), and the managed   *)
(* file its PDF is (src/src/api/storage/file.rs).  The results are a hot   *)
(* table: what was inserted is seen at once, and survives a restart once   *)
(* it was committed.                                                       *)
(*                                                                         *)
(* A task stands for its id, which is new, and for the file named by it.   *)
(* Files stay: nothing removes one, or the row of a page.                  *)
(***************************************************************************)
EXTENDS Naturals

CONSTANTS
    Page,           \* tasks, by their ids
    Req,            \* requests for a page
    MaxRestarts     \* bound of the restarts

VARIABLES
    ON_QUEUE,   \* the pages that are being rendered
    DATA,       \* the pages that are rendered
    stored,     \* those whose rows are committed
    cache,      \* the names that are taken
    disk,       \* the files: none, partly written, whole
    readonly,   \* the files that may not be written any more
    read_rx,    \* files whose contents were read ahead, or are being
    ahead,      \* what was read ahead: nothing yet, or the file as it was
    task,       \* the tasks
    req,        \* the requests
    restarts,
    begun,      \* history: pages whose address was given out
    failed,     \* history: tasks that broke off since the last restart
    lost        \* history: pages a restart took before their row was committed

vars == <<ON_QUEUE, DATA, stored, cache, disk, readonly, read_rx, ahead, task, req,
          restarts, begun, failed, lost>>
files == <<cache, disk, readonly, read_rx, ahead>>
past == <<restarts, begun, failed, lost>>

Contents == {"none", "part", "whole"}
Answers == {"processing", "complete", "missing", "gone"} \cup Contents

TypeOK ==
    /\ ON_QUEUE \subseteq Page /\ DATA \subseteq Page /\ stored \subseteq DATA
    /\ cache \subseteq Page /\ readonly \subseteq Page /\ read_rx \subseteq Page
    /\ disk \in [Page -> Contents] /\ ahead \in [Page -> {"unread"} \cup Contents]
    /\ task \in [Page -> {"none", "prepare", "render", "finish", "freeze", "list", "insert", "done"}]
    /\ \A r \in Req : req[r].at \in {"idle", "open", "done"}
    /\ restarts \in 0..MaxRestarts
    /\ begun \subseteq Page /\ failed \subseteq Page /\ lost \subseteq Page

Init ==
    /\ ON_QUEUE = {} /\ DATA = {} /\ stored = {}
    /\ cache = {} /\ disk = [p \in Page |-> "none"] /\ readonly = {}
    /\ read_rx = {} /\ ahead = [p \in Page |-> "unread"]
    /\ task = [p \in Page |-> "none"] /\ req = [r \in Req |-> [at |-> "idle"]]
    /\ restarts = 0 /\ begun = {} /\ failed = {} /\ lost = {}

At(p, stage) == task[p] = stage
Go(p, stage) == task' = [task EXCEPT ![p] = stage]
Fails(p) == Go(p, "none") /\ failed' = failed \cup {p}

-----------------------------------------------------------------------------
\* MdTask::new; the command says the address before it renders.
NewTask(p) ==
    /\ At(p, "none") /\ p \notin begun
    /\ ON_QUEUE' = ON_QUEUE \cup {p} /\ begun' = begun \cup {p}
    /\ Go(p, "prepare")
    /\ UNCHANGED <<DATA, stored, files, req, restarts, failed, lost>>

\* File::prepare: the name is reserved; its owner is the task it is called after.
Prepare(p) ==
    /\ At(p, "prepare") /\ p \notin cache
    /\ cache' = cache \cup {p} /\ Go(p, "render")
    /\ UNCHANGED <<ON_QUEUE, DATA, stored, disk, readonly, read_rx, ahead, req, past>>

\* Chrome writes the PDF, or fails, with or without a part of it written.
ChromeWrites(p) ==
    /\ At(p, "render") /\ disk[p] = "none"
    /\ disk' = [disk EXCEPT ![p] = "part"]
    /\ UNCHANGED <<ON_QUEUE, DATA, stored, cache, readonly, read_rx, ahead, task, req, past>>
RenderPdf(p) ==
    /\ At(p, "render")
    /\ \/ disk[p] = "part" /\ disk' = [disk EXCEPT ![p] = "whole"] /\ Go(p, "finish") /\ UNCHANGED failed
       \/ Fails(p) /\ UNCHANGED disk
    /\ UNCHANGED <<ON_QUEUE, DATA, stored, cache, readonly, read_rx, ahead, req, restarts, begun, lost>>

\* File::finish: the file is locked, ...
Finish(p) ==
    /\ At(p, "finish")
    /\ \/ disk[p] # "none" /\ readonly' = readonly \cup {p} /\ Go(p, "freeze") /\ UNCHANGED failed
       \/ Fails(p) /\ UNCHANGED readonly
    /\ UNCHANGED <<ON_QUEUE, DATA, stored, cache, disk, read_rx, ahead, req, restarts, begun, lost>>

\* ... and a task of its own begins to read it, once.
Freeze(p) ==
    /\ At(p, "freeze")
    /\ read_rx' = read_rx \cup {p} /\ Go(p, "list")
    /\ UNCHANGED <<ON_QUEUE, DATA, stored, cache, disk, readonly, ahead, req, past>>
ReadAhead(p) ==
    /\ p \in read_rx /\ ahead[p] = "unread"
    /\ ahead' = [ahead EXCEPT ![p] = disk[p]]
    /\ UNCHANGED <<ON_QUEUE, DATA, stored, cache, disk, readonly, read_rx, task, req, past>>

\* MdTask::finish: the page leaves the queue before it enters the table.
Unqueue(p) ==
    /\ At(p, "list")
    /\ ON_QUEUE' = ON_QUEUE \ {p} /\ Go(p, "insert")
    /\ UNCHANGED <<DATA, stored, files, req, past>>
InsertResult(p) ==
    /\ At(p, "insert")
    /\ DATA' = DATA \cup {p} /\ Go(p, "done")
    /\ UNCHANGED <<ON_QUEUE, stored, files, req, past>>

\* The table's writer commits what was inserted.
Commit ==
    /\ stored # DATA /\ stored' = DATA
    /\ UNCHANGED <<ON_QUEUE, DATA, files, task, req, past>>

\* The queue, the tasks and what is not committed are gone; the files and
\* their names stay.
Restart ==
    /\ restarts < MaxRestarts /\ restarts' = restarts + 1
    /\ ON_QUEUE' = {} /\ DATA' = stored
    /\ cache' = {p \in Page : disk[p] # "none"}
    /\ read_rx' = {} /\ ahead' = [p \in Page |-> "unread"]
    /\ task' = [p \in Page |-> "none"] /\ req' = [r \in Req |-> [at |-> "idle"]]
    /\ failed' = {} /\ lost' = lost \cup (begun \ stored)
    /\ UNCHANGED <<stored, disk, readonly, begun>>

-----------------------------------------------------------------------------
Answer(r, p, a) == req' = [req EXCEPT ![r] = [at |-> "done", page |-> p, answer |-> a]]

\* task_status_handler: whatever is not being rendered counts as complete.
Status(r, p) ==
    /\ req[r].at # "open" /\ p \in begun
    /\ Answer(r, p, IF p \in ON_QUEUE THEN "processing" ELSE "complete")
    /\ UNCHANGED <<ON_QUEUE, DATA, stored, files, task, past>>

\* content_handler: the row is looked up, then the file is opened.
Content(r, p) ==
    /\ req[r].at # "open" /\ p \in begun
    /\ IF p \in DATA THEN req' = [req EXCEPT ![r] = [at |-> "open", page |-> p]]
       ELSE Answer(r, p, "missing")
    /\ UNCHANGED <<ON_QUEUE, DATA, stored, files, task, past>>
OpenPdf(r) ==
    /\ req[r].at = "open"
    /\ LET p == req[r].page IN Answer(r, p, IF disk[p] = "none" THEN "gone" ELSE disk[p])
    /\ UNCHANGED <<ON_QUEUE, DATA, stored, files, task, past>>

Next ==
    \/ Commit \/ Restart
    \/ \E p \in Page :
         \/ NewTask(p) \/ Prepare(p) \/ ChromeWrites(p) \/ RenderPdf(p) \/ Finish(p)
         \/ Freeze(p) \/ ReadAhead(p) \/ Unqueue(p) \/ InsertResult(p)
         \/ \E r \in Req : Status(r, p) \/ Content(r, p)
    \/ \E r \in Req : OpenPdf(r)

Spec == Init /\ [][Next]_vars

-----------------------------------------------------------------------------
(* A PDF that is served, and what was read ahead of one, is the whole      *)
(* file, across restarts too: a file that a failure or a restart left      *)
(* half-written has no row, and one with a row is locked.                  *)
ServedIsWhole ==
    /\ DATA \subseteq {p \in readonly : disk[p] = "whole"}
    /\ \A p \in read_rx : ahead[p] \in {"unread", "whole"}
    /\ \A r \in Req : req[r].at = "done" => req[r].answer \notin {"gone", "none", "part"}

(* A page that is not being rendered has its contents, but for the moment  *)
(* between leaving the queue and entering the table, and for what a        *)
(* restart took; and one that stays in the queue is being rendered or      *)
(* broke off.                                                              *)
CompleteHasContents ==
    \A p \in begun :
        IF p \in ON_QUEUE THEN task[p] \notin {"none", "done"} \/ p \in failed
        ELSE p \in DATA \/ At(p, "insert") \/ p \in lost
=============================================================================
