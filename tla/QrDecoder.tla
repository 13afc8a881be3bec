------------------------------ MODULE QrDecoder ------------------------------
(***************************************************************************)
(* The threads that read QR codes (src/src/api/qrcode): started by the     *)
(* first image, each unpacks the model files that are not there yet, loads *)
(* them, and then takes images from one channel.  Several threads unpack   *)
(* at once, and a file is there from the moment its writing begins.  A     *)
(* thread that cannot write or load its model ends the program (expect,    *)
(* under the release profile's panic = "abort"), and the next run of the   *)
(* program finds the files as they are.                                    *)
(***************************************************************************)
EXTENDS Naturals, Sequences, FiniteSets

CONSTANTS
    Worker,         \* worker_threads, one core each
    Image,          \* images under way
    FILES,          \* model files of a detector
    MaxCrashes      \* bound: crashes of the program

VARIABLES
    model,      \* the model files on disk: "none", "torn" or "whole"
    worker,     \* what each thread is at, and with which file
    tasks,      \* the channel
    image,      \* what each caller of process_image waits for
    crashes,
    left,       \* history: files that were torn when a run of the program ended
    passed      \* history: files a thread of this run passed while another was at them

vars == <<model, worker, tasks, image, crashes, left, passed>>

Off == [at |-> "off"]
Unpacking == [at : {"look", "write", "fill"}, file : 1..FILES]

TypeOK ==
    /\ model \in [1..FILES -> {"none", "torn", "whole"}]
    /\ worker \in [Worker ->
          {Off} \cup Unpacking \cup [at : {"load", "wait"}] \cup [at : {"decode"}, image : Image]]
    /\ tasks \in Seq(Image)
    /\ image \in [Image -> {"none", "sent", "answered"}]
    /\ crashes \in 0..MaxCrashes /\ left \subseteq 1..FILES /\ passed \subseteq 1..FILES

Init ==
    /\ model \in {[f \in 1..FILES |-> "none"], [f \in 1..FILES |-> "whole"]}
    /\ worker = [w \in Worker |-> Off]
    /\ tasks = <<>> /\ image = [i \in Image |-> "none"]
    /\ crashes = 0 /\ left = {} /\ passed = {}

Set(w, state) == worker' = [worker EXCEPT ![w] = state]

\* process_image: the first one starts the threads.
ProcessImage(i) ==
    /\ image[i] = "none"
    /\ image' = [image EXCEPT ![i] = "sent"] /\ tasks' = Append(tasks, i)
    /\ worker' = [w \in Worker |-> IF worker[w] = Off THEN [at |-> "look", file |-> 1] ELSE worker[w]]
    /\ UNCHANGED <<model, crashes, left, passed>>

\* QrCodeDetector::new: the next file, or the load when all are there.
NextFile(f) == IF f = FILES THEN [at |-> "load"] ELSE [at |-> "look", file |-> f + 1]

\* Another thread found the file missing, and has not written it to its end.
OtherIsAt(w, f) ==
    \E v \in Worker \ {w} : worker[v] \in {[at |-> "write", file |-> f], [at |-> "fill", file |-> f]}

\* The thread leaves its file for the next one.
Pass(w) ==
    /\ Set(w, NextFile(worker[w].file))
    /\ passed' = IF OtherIsAt(w, worker[w].file) THEN passed \cup {worker[w].file} ELSE passed

LookForFile(w) ==
    /\ worker[w].at = "look"
    /\ \/ model[worker[w].file] = "none" /\ Set(w, [worker[w] EXCEPT !.at = "write"]) /\ UNCHANGED passed
       \/ model[worker[w].file] # "none" /\ Pass(w)
    /\ UNCHANGED <<model, tasks, image, crashes, left>>

\* fs::write empties the file, which is there from then on, and fills it.
BeginWrite(w) ==
    /\ worker[w].at = "write"
    /\ model' = [model EXCEPT ![worker[w].file] = "torn"]
    /\ Set(w, [worker[w] EXCEPT !.at = "fill"])
    /\ UNCHANGED <<tasks, image, crashes, left, passed>>

\* It is whole then, unless another thread emptied it meanwhile and is still at it.
EndWrite(w) ==
    /\ worker[w].at = "fill"
    /\ \E now \in IF \E v \in Worker \ {w} : worker[v] = worker[w] THEN {"whole", "torn"} ELSE {"whole"} :
          model' = [model EXCEPT ![worker[w].file] = now]
    /\ Pass(w)
    /\ UNCHANGED <<tasks, image, crashes, left>>

\* The program ends, with all its threads, and is started again: the files are
\* what they are.
Ends ==
    /\ worker' = [w \in Worker |-> Off]
    /\ tasks' = <<>> /\ image' = [i \in Image |-> "none"]
    /\ left' = {f \in 1..FILES : model[f] = "torn"} /\ passed' = {}
    /\ UNCHANGED model

\* The directory or a file cannot be written.
FailToUnpack(w) == worker[w].at \in {"look", "write", "fill"} /\ Ends /\ UNCHANGED crashes

\* The model is loaded and tried on the image that comes with the program: a torn
\* file ends the program, and so may whatever else keeps the model from loading.
Load(w) ==
    /\ worker[w].at = "load"
    /\ \/ /\ \A f \in 1..FILES : model[f] = "whole"
          /\ Set(w, [at |-> "wait"]) /\ UNCHANGED <<model, tasks, image, left, passed>>
       \/ Ends
    /\ UNCHANGED crashes

Receive(w) ==
    /\ worker[w].at = "wait" /\ tasks # <<>>
    /\ Set(w, [at |-> "decode", image |-> Head(tasks)])
    /\ tasks' = Tail(tasks)
    /\ UNCHANGED <<model, image, crashes, left, passed>>

\* The codes of the image, or that it has none that can be read.
Reply(w) ==
    /\ worker[w].at = "decode"
    /\ image' = [image EXCEPT ![worker[w].image] = "answered"]
    /\ Set(w, [at |-> "wait"])
    /\ UNCHANGED <<model, tasks, crashes, left, passed>>

\* The program ends for a reason of its own.
Crash == crashes < MaxCrashes /\ crashes' = crashes + 1 /\ Ends

Next ==
    \/ Crash
    \/ \E i \in Image : ProcessImage(i)
    \/ \E w \in Worker : LookForFile(w) \/ BeginWrite(w) \/ EndWrite(w) \/ FailToUnpack(w)
                            \/ Load(w) \/ Receive(w) \/ Reply(w)

Spec == Init /\ [][Next]_vars

-----------------------------------------------------------------------------
(* An image that waits is in the channel of threads that run, or with one  *)
(* of them: its caller is answered, be it with an error (task.rs:59-62),   *)
(* unless the program ends.                                                *)
WaitersAreServed ==
    \A i \in Image : image[i] = "sent" =>
        \/ (\E k \in 1..Len(tasks) : tasks[k] = i) /\ \A w \in Worker : worker[w] # Off
        \/ \E w \in Worker : worker[w] = [at |-> "decode", image |-> i]

(* A thread that comes to load a file which is not whole ends the program  *)
(* (task.rs:54).  It meets one only where a thread of this run passed the  *)
(* file while another was still at it (bridge.rs:30 asks whether it is     *)
(* there, not whether it is whole), or an earlier run left it torn.        *)
LoadsWholeFiles ==
    \A w \in Worker, f \in 1..FILES :
        worker[w].at = "load" => model[f] = "whole" \/ f \in passed \cup left

(* A file that was torn when the program ended is not written again: until *)
(* somebody removes it no thread comes to read a code, and each that loads *)
(* ends the program once more.                                             *)
TornForGood ==
    /\ \A f \in left : model[f] = "torn"
    /\ left # {} => \A w \in Worker : worker[w].at \notin {"wait", "decode"}
=============================================================================
