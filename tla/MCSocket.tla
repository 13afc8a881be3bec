------------------------------ MODULE MCSocket ------------------------------
(***************************************************************************)
(* The two halves of the socket: API calls and their answers (EchoRpc,     *)
(* extended), and events and their handlers (EventRouter).  They keep no   *)
(* state in common, so a behaviour is one of either half, chosen in its    *)
(* initial state, and the variables of the other half stand still.         *)
(***************************************************************************)
EXTENDS EchoRpc

CONSTANTS Event, Kinds

VARIABLES part, kind, inbox, channel, routed, task, spoken

Chat == INSTANCE ChatHandlers
Router == INSTANCE EventRouter WITH
    Commands <- Chat!Commands, Starts <- Chat!Starts,
    Others <- Chat!Others, Scripts <- Chat!Scripts

events == <<kind, inbox, channel, routed, task, spoken>>
EventsRest ==
    /\ kind = <<>> /\ inbox = {} /\ channel = <<>>
    /\ routed = {} /\ task = <<>> /\ spoken = {}

\* An event may be any command, another message, or none; commands that do
\* and are called like another are left out.
MCKinds ==
    LET alike == {"autosign", "specsign", "class", "gettest", "jdpm", "github"}
    IN  [e \in Event |-> (Chat!Words \ alike) \cup {"text", "Notice", "Request", "Meta"}]

\* Of an event, it may be whatever the code tells apart.
ASSUME KindsAssumption ==
    Kinds \in [Event -> SUBSET (Chat!Words \cup {"text", "Notice", "Request", "Meta"})]

PartsInit ==
    /\ Init
    /\ \/ part = "calls" /\ EventsRest
       \/ part = "events" /\ Router!Init

PartsNext ==
    /\ UNCHANGED part
    /\ \/ part = "calls" /\ Next /\ UNCHANGED events
       \/ part = "events" /\ Router!Next /\ UNCHANGED vars

PartsSpec ==
    /\ PartsInit /\ [][PartsNext]_<<part, vars, events>>
    /\ \A c \in Caller : WF_vars(part = "calls" /\ Proceed(c))
    /\ WF_events(part = "events" /\ Router!Progress)

-----------------------------------------------------------------------------
(* A message starts the command of the longest name it begins with and no  *)
(* other, and a handler answers with one message at its end, of a message  *)
(* only (EventRouter: LongestWins, OneForward).                            *)
OneCommandOneAnswer ==
    part = "events" => Router!TypeOK /\ Router!LongestWins /\ Router!OneForward

=============================================================================
