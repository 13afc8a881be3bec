------------------------------ MODULE MCStorage ------------------------------
(***************************************************************************)
(* Storage and what rests on it: the write-behind tables (HotTable,        *)
(* extended) and a page whose row is in one (MarkdownPage); and over a     *)
(* cold table the links on which passwords are set (SetupLink), the pages  *)
(* they guard (GuardedPage) and the vector store (VectorStore).  A         *)
(* behaviour is one of the five, chosen in its initial state; the others'  *)
(* variables stand still.                                                  *)
(***************************************************************************)
EXTENDS HotTable, FiniteSets, TLC

CONSTANTS
    Account, Strong, Weak, Certificate, Item,
    SETUP_EXPIRE, GUARD_EXPIRE, LOCK, MAX_FAILS,    \* the limits of the two guards
    MaxTime, MaxCalls, MaxRestarts                  \* bounds

VARIABLES
    part,
    now, secret, req,               \* of links and of pages
    setup, setups, saved, overlap,  \* of links
    guard, guards, sessions, cert, breached, mixed,  \* of pages
    ON_QUEUE, DATA, stored, names, pdf, readonly, read_rx, ahead, task,
    restarts, begun, failed, lost_pages,        \* of Markdown
    rows, graphs, maps, index, id_map, lookup, calls, doubtful, swapped  \* of vectors

Links == INSTANCE SetupLink WITH
    Link <- Key, Qq <- Account, Password <- Strong \cup Weak, Short <- Weak, Req <- Caller

Pages == INSTANCE GuardedPage WITH
    Page <- Key, Qq <- Account, Password <- Strong, Wid <- Certificate, Req <- Caller

Markdown == INSTANCE MarkdownPage WITH
    Page <- Key, Req <- Caller, cache <- names, disk <- pdf, lost <- lost_pages

Vectors == INSTANCE VectorStore WITH
    Call <- Caller, call <- lookup

\* A missing password, link or gate is none of those there are.
ASSUME StorageAssumption ==
    /\ Absent \notin Strong \cup Weak /\ Absent \notin Links!Setup /\ Absent \notin Pages!Guard
    /\ Item \subseteq Nat /\ IsFiniteSet(Item)
    /\ SETUP_EXPIRE \in Nat \ {0} /\ GUARD_EXPIRE \in Nat /\ LOCK \in Nat /\ MAX_FAILS \in Nat \ {0}
    /\ MaxTime \in Nat /\ MaxCalls \in Nat /\ MaxRestarts \in Nat

linkVars == <<setup, setups, saved, overlap>>
pageVars == <<guard, guards, sessions, cert, breached, mixed>>
webVars == <<now, secret>>
markdownVars == <<ON_QUEUE, DATA, stored, names, pdf, readonly, read_rx, ahead, task,
                  restarts, begun, failed, lost_pages>>
vectorVars == <<rows, graphs, maps, index, id_map, lookup, calls, doubtful, swapped>>

\* The links as their users know them; in the other parts there are none.
LinkSecret == IF part = "links" THEN secret ELSE [q \in Account |-> Absent]
LinkOwner == [l \in Key |-> IF part = "links" THEN Links!OwnerOf(l) ELSE Absent]
LinkState == [l \in Key |-> IF part = "links" THEN Links!StateOf(l) ELSE "unmade"]
OneTime == INSTANCE OneTimeLink WITH
    Link <- Key, Qq <- Account, Password <- Strong \ Weak,
    secret <- LinkSecret, owner <- LinkOwner, state <- LinkState

LinksRest == setup = <<>> /\ setups = {} /\ saved = <<>> /\ overlap = {}
PagesRest == guard = <<>> /\ guards = {} /\ sessions = {} /\ cert = <<>> /\ breached = {} /\ mixed = {}
MarkdownRests ==
    /\ ON_QUEUE = {} /\ DATA = {} /\ stored = {} /\ names = {} /\ pdf = <<>> /\ readonly = {}
    /\ read_rx = {} /\ ahead = <<>> /\ task = <<>>
    /\ restarts = 0 /\ begun = {} /\ failed = {} /\ lost_pages = {}
VectorsRest ==
    /\ rows = {} /\ graphs = <<>> /\ maps = <<>> /\ index = 0 /\ id_map = 0
    /\ lookup = <<>> /\ calls = 0 /\ doubtful = {} /\ swapped = FALSE
TablesRest == Init /\ \A k \in Key : disk[k] = Absent
WebRests == now = 0 /\ secret = <<>>

PartsInit ==
    \/ /\ part = "tables" /\ Init /\ WebRests /\ req = <<>>
       /\ LinksRest /\ PagesRest /\ MarkdownRests /\ VectorsRest
    \/ /\ part = "links" /\ TablesRest /\ Links!Init
       /\ PagesRest /\ MarkdownRests /\ VectorsRest
    \/ /\ part = "pages" /\ TablesRest /\ Pages!Init
       /\ LinksRest /\ MarkdownRests /\ VectorsRest
    \/ /\ part = "markdown" /\ TablesRest /\ WebRests /\ Markdown!Init
       /\ LinksRest /\ PagesRest /\ VectorsRest
    \/ /\ part = "vectors" /\ TablesRest /\ WebRests /\ req = <<>> /\ Vectors!Init
       /\ LinksRest /\ PagesRest /\ MarkdownRests

PartsNext ==
    /\ UNCHANGED part
    /\ \/ /\ part = "tables" /\ Next
          /\ UNCHANGED <<webVars, req, linkVars, pageVars, markdownVars, vectorVars>>
       \/ /\ part = "links" /\ Links!Next
          /\ UNCHANGED <<vars, pageVars, markdownVars, vectorVars>>
       \/ /\ part = "pages" /\ Pages!Next
          /\ UNCHANGED <<vars, linkVars, markdownVars, vectorVars>>
       \/ /\ part = "markdown" /\ Markdown!Next
          /\ UNCHANGED <<vars, webVars, linkVars, pageVars, vectorVars>>
       \/ /\ part = "vectors" /\ Vectors!Next
          /\ UNCHANGED <<vars, webVars, req, linkVars, pageVars, markdownVars>>

PartsSpec ==
    PartsInit /\ [][PartsNext]_<<part, vars, webVars, req, linkVars, pageVars,
                                markdownVars, vectorVars>>

\* Nothing tells two ids, two requests, two good passwords or two results apart.
PartsSymmetry ==
    Permutations(Key) \cup Permutations(Caller)
        \cup Permutations(Strong) \cup Permutations(Certificate)

-----------------------------------------------------------------------------
(* A password is stored by the link that was sent for it, and once only    *)
(* unless two saves of the link overlapped (SetupLink: SecondSaveOverlaps).*)
(* A page and its gate live together, a request gets the certificate it    *)
(* asked for, and a page that is locked gives out no token, the right      *)
(* password or not, except to an attempt that was under way (GuardedPage:  *)
(* GateWithPage, CertificateIsAsked, LockoutHolds).  A rendered page       *)
(* serves whole files, and one that is complete has contents, but for the  *)
(* reasons given (MarkdownPage: ServedIsWhole, CompleteHasContents).  A    *)
(* row is found by its vector unless calls overlapped or the last start    *)
(* could not read the table (VectorStore: RowsCanBeFound,                  *)
(* SearchesAreAnswered).  What the engine of the tables knows of its log   *)
(* is within the log (HotTable: TypeOK).                                   *)
WhatIsStoredHolds ==
    /\ TypeOK
    /\ part = "links" => Links!TypeOK /\ Links!SecondSaveOverlaps
    /\ part = "pages" =>
          /\ Pages!TypeOK
          /\ Pages!GateWithPage /\ Pages!CertificateIsAsked /\ Pages!LockoutHolds
    /\ part = "markdown" =>
          Markdown!TypeOK /\ Markdown!ServedIsWhole /\ Markdown!CompleteHasContents
    /\ part = "vectors" =>
          Vectors!TypeOK /\ Vectors!RowsCanBeFound /\ Vectors!SearchesAreAnswered

(* The setup links implement OneTimeLink: a password is stored by a link   *)
(* that was made for that account, is still good when the save begins and  *)
(* has stored none, or by one that several saves share; and it is one that *)
(* is long enough (SetupTask::save and setup_save_handler).                *)
ImplementsOneTimeLink == OneTime!Spec
=============================================================================
