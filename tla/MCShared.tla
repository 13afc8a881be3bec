------------------------------ MODULE MCShared ------------------------------
(***************************************************************************)
(* What tasks and requests that run side by side share: the course index   *)
(* (CourseIndex, extended), the temporary files (TempFiles), the cookies   *)
(* of a client (ClientSession), the session of the VPN (SecureLink) and    *)
(* that of a user (LoginSession), the place of a radar roll call           *)
(* (RadarSign), the request objects of a QR code (QrPush), the client of   *)
(* one login (SchoolLogin), the records of a grade page (GpaQuery), the    *)
(* list of semesters (SemesterChoice), the threads that read QR codes      *)
(* (QrDecoder) and the pages of failed logins (FailedPages).  A behaviour  *)
(* is one of the twelve, chosen in its initial state; the variables of the *)
(* others stand still.  User and Task also name the two sorts of things    *)
(* the others have two of.                                                 *)
(***************************************************************************)
EXTENDS MCCourseIndex

CONSTANTS
    Doc, Req, Absent,
    Sizes, OPTIMAL_CHUNKS, TRIES, EXPIRE, CLEAN, MaxFaults, FileTime,   \* of the files
    MAX_REDIRECTS, MaxCookies,                                          \* of the cookies
    FLOW_EXPIRE, MaxTokens, VpnTime,                                    \* of the VPN
    MaxLogins, MaxBegun,                                                \* of the users
    Places, Radii, PROBES,                                              \* of the radar
    MAX_RETRY,                                                          \* of the QR code
    MAX_TRIES, MAX_ATTEMPTS, MaxTickets, MaxElsewhere,                  \* of one login
    RESULT_POLL_TRIES, MaxResults,                                      \* of the grades
    Numbers, Letters, MaxRows, MAX_ASKS,                                \* of the semesters
    FILES, MaxCrashes,                                                  \* of the decoder
    KEEP, PageTime                                                      \* of the failed pages

VARIABLES
    part,
    now, req,
    cache, counter, disk, queue, cleanAt, job, phase, expire, data, faults,
    leftover, short, gone,                                      \* of the files
    raw_data, header_cache, dirty,                              \* of the cookies
    file, flow, api, flows, issued, bare, dropped, undated, stray,  \* of the VPN
    login, pwd, profiled, alive, granted, pages, session_task,
    begun, out, revivable, unsent,                              \* of the users
    dist, radius, timetable, location, rechecked,               \* of the radar
    takes, listed, kept, open, push,                            \* of the QR code
    signed,
    jar, account, step, method, tries, stored, accepted, carried,   \* of one login
    results, computing, ticket, entered, query,                 \* of the grades
    list, described, at, asks, chosen,                          \* of the semesters
    model, worker, tasks, image, crashes, left, passed,         \* of the decoder
    clock, dir, saver, written, spared                          \* of the failed pages

Files == INSTANCE TempFiles WITH Cmd <- User, Job <- Task, MaxTime <- FileTime

Cookies == INSTANCE ClientSession WITH Host <- User, Req <- Task

Vpn == INSTANCE SecureLink WITH Flow <- User, Req <- Task, MaxTime <- VpnTime

Sessions == INSTANCE LoginSession WITH Page <- User, task <- session_task

Radar == INSTANCE RadarSign

Qr == INSTANCE QrPush

School == INSTANCE SchoolLogin

Grades == INSTANCE GpaQuery WITH Query <- User, Range <- Task

Semesters == INSTANCE SemesterChoice WITH Places <- Letters, rows <- list

Decoder == INSTANCE QrDecoder WITH Worker <- User, Image <- Task

Failures == INSTANCE FailedPages WITH Saver <- User, MaxTime <- PageTime

\* Limits and bounds are numbers; a detector has a file, and there is a thread.
ASSUME SharedAssumption ==
    /\ User # {} /\ 0 \notin User /\ FILES \in Nat \ {0} /\ MaxCrashes \in Nat
    /\ MAX_REDIRECTS \in Nat /\ MaxCookies \in Nat
    /\ FLOW_EXPIRE \in Nat /\ MaxTokens \in Nat \ {0} /\ VpnTime \in Nat
    /\ MaxLogins \in Nat \ {0} /\ MaxBegun \in Nat
    /\ MAX_TRIES \in Nat /\ MAX_ATTEMPTS \in Nat \ {0} /\ MaxTickets \in Nat /\ MaxElsewhere \in Nat
    /\ Places \in Nat \ {0} /\ Radii \subseteq 1..4 /\ PROBES \in Nat
    /\ MAX_RETRY \in Nat \ {0} /\ RESULT_POLL_TRIES \in Nat \ {0} /\ MaxResults \in Nat
    /\ Numbers \subseteq Nat \ {0} /\ Letters \subseteq Nat
    /\ MaxRows \in Nat /\ MAX_ASKS \in Nat
    /\ KEEP \in Nat /\ PageTime \in Nat \ {0}

\* A file has a length, and a try; names with a suffix are no document's own, and
\* what is absent is neither a name nor what a name holds.
ASSUME FilesAssumption ==
    /\ IsFiniteSet(Task) /\ Sizes # {} /\ Sizes \subseteq Nat
    /\ OPTIMAL_CHUNKS \in Nat \ {0} /\ TRIES \in Nat \ {0}
    /\ EXPIRE \in Nat /\ CLEAN \in Nat /\ MaxFaults \in Nat /\ FileTime \in Nat
    /\ Doc \cap (Doc \X Nat) = {} /\ Absent \notin Doc \cup (Doc \X Nat) /\ Absent \notin User
    /\ Absent \notin [size : Nat, have : SUBSET Nat]

fileVars == <<counter, disk, queue, cleanAt, job, phase, expire, data, faults, leftover, short, gone>>
cookieVars == <<raw_data, header_cache, dirty>>
vpnVars == <<file, flow, api, flows, issued, bare, dropped, undated, stray>>
sessionVars == <<profiled, granted, pages, session_task, begun, out, revivable, unsent>>
radarVars == <<dist, radius, timetable, location, rechecked>>
qrVars == <<takes, listed, kept, open, push>>
loginVars == <<login, pwd, alive>>
schoolVars == <<jar, account, step, method, tries, stored, accepted, carried>>
gradeVars == <<results, computing, ticket, entered, query>>
semesterVars == <<list, described, at, asks, chosen>>
decoderVars == <<model, worker, tasks, image, crashes, left, passed>>
failureVars == <<clock, dir, saver, written, spared>>
partVars == <<now, req, cache, signed, fileVars, cookieVars, vpnVars, sessionVars,
              radarVars, qrVars, loginVars>>
quietVars == <<schoolVars, gradeVars, semesterVars, decoderVars, failureVars>>

FilesRest ==
    /\ counter = 0 /\ disk = 0 /\ queue = 0 /\ cleanAt = 0 /\ job = 0 /\ phase = 0
    /\ expire = 0 /\ data = 0 /\ faults = 0 /\ leftover = 0 /\ short = 0 /\ gone = 0
CookiesRest == raw_data = 0 /\ header_cache = 0 /\ dirty = 0
VpnRests ==
    /\ file = 0 /\ flow = 0 /\ api = 0 /\ flows = 0 /\ issued = 0 /\ bare = 0
    /\ dropped = 0 /\ undated = 0 /\ stray = 0
SessionsRest ==
    /\ profiled = 0 /\ granted = 0 /\ pages = 0 /\ session_task = 0 /\ begun = 0
    /\ out = 0 /\ revivable = 0 /\ unsent = 0
RadarRests == dist = 0 /\ radius = 0 /\ timetable = 0 /\ location = 0 /\ rechecked = 0
QrRests == takes = 0 /\ listed = 0 /\ kept = 0 /\ open = 0 /\ push = 0
LoginRests == login = 0 /\ pwd = 0 /\ alive = 0
SchoolRests ==
    /\ jar = 0 /\ account = 0 /\ step = 0 /\ method = 0 /\ tries = 0
    /\ stored = 0 /\ accepted = 0 /\ carried = 0
GradesRest == results = 0 /\ computing = 0 /\ ticket = 0 /\ entered = 0 /\ query = 0
SemestersRest == list = 0 /\ described = 0 /\ at = 0 /\ asks = 0 /\ chosen = 0
DecoderRests ==
    /\ model = 0 /\ worker = 0 /\ tasks = 0 /\ image = 0 /\ crashes = 0
    /\ left = 0 /\ passed = 0
FailuresRest == clock = 0 /\ dir = 0 /\ saver = 0 /\ written = 0 /\ spared = 0

\* One part begins, and the variables that are not its own rest.
IndexBegins ==
    /\ part = "index"
    /\ now = 0 /\ req = 0 /\ cache = 0 /\ signed = 0
    /\ FilesRest /\ CookiesRest /\ VpnRests /\ SessionsRest /\ RadarRests /\ QrRests /\ LoginRests
FilesBegin ==
    /\ part = "files" /\ Files!Init /\ signed = 0
    /\ CookiesRest /\ VpnRests /\ SessionsRest /\ RadarRests /\ QrRests /\ LoginRests
CookiesBegin ==
    /\ part = "cookies" /\ Cookies!Init /\ now = 0 /\ cache = 0 /\ signed = 0
    /\ FilesRest /\ VpnRests /\ SessionsRest /\ RadarRests /\ QrRests /\ LoginRests
VpnBegins ==
    /\ part = "vpn" /\ Vpn!Init /\ cache = 0 /\ signed = 0
    /\ FilesRest /\ CookiesRest /\ SessionsRest /\ RadarRests /\ QrRests /\ LoginRests
SessionsBegin ==
    /\ part = "sessions" /\ Sessions!Init /\ now = 0 /\ req = 0 /\ signed = 0
    /\ FilesRest /\ CookiesRest /\ VpnRests /\ RadarRests /\ QrRests
RadarBegins ==
    /\ part = "radar" /\ Radar!Init /\ now = 0 /\ cache = 0
    /\ FilesRest /\ CookiesRest /\ VpnRests /\ SessionsRest /\ QrRests /\ LoginRests
QrBegins ==
    /\ part = "qr" /\ Qr!Init /\ now = 0 /\ req = 0
    /\ FilesRest /\ CookiesRest /\ VpnRests /\ SessionsRest /\ RadarRests

\* The parts that keep nothing another part has.
QuietRest == SchoolRests /\ GradesRest /\ SemestersRest /\ DecoderRests /\ FailuresRest
SchoolBegins ==
    /\ part = "school" /\ School!Init
    /\ GradesRest /\ SemestersRest /\ DecoderRests /\ FailuresRest
GradesBegin ==
    /\ part = "grades" /\ Grades!Init
    /\ SchoolRests /\ SemestersRest /\ DecoderRests /\ FailuresRest
SemestersBegin ==
    /\ part = "semesters" /\ Semesters!Init
    /\ SchoolRests /\ GradesRest /\ DecoderRests /\ FailuresRest
DecoderBegins ==
    /\ part = "decoder" /\ Decoder!Init
    /\ SchoolRests /\ GradesRest /\ SemestersRest /\ FailuresRest
FailuresBegin ==
    /\ part = "failures" /\ Failures!Init
    /\ SchoolRests /\ GradesRest /\ SemestersRest /\ DecoderRests

PartsInit ==
    /\ Init
    /\ \/ /\ QuietRest
          /\ \/ IndexBegins \/ FilesBegin \/ CookiesBegin \/ VpnBegins \/ SessionsBegin
             \/ RadarBegins \/ QrBegins
       \/ /\ now = 0 /\ req = 0 /\ cache = 0 /\ signed = 0
          /\ FilesRest /\ CookiesRest /\ VpnRests /\ SessionsRest /\ RadarRests /\ QrRests
          /\ LoginRests
          /\ \/ SchoolBegins \/ GradesBegin \/ SemestersBegin \/ DecoderBegins \/ FailuresBegin

BusyPartsNext ==
    /\ UNCHANGED <<part, quietVars>>
    /\ \/ part = "index" /\ Next /\ UNCHANGED partVars
       \/ /\ part = "files" /\ Files!Next
          /\ UNCHANGED <<vars, signed, cookieVars, vpnVars, sessionVars, radarVars, qrVars, loginVars>>
       \/ /\ part = "cookies" /\ Cookies!Next
          /\ UNCHANGED <<vars, now, cache, signed, fileVars, vpnVars, sessionVars, radarVars,
                         qrVars, loginVars>>
       \/ /\ part = "vpn" /\ Vpn!Next
          /\ UNCHANGED <<vars, cache, signed, fileVars, cookieVars, sessionVars, radarVars,
                         qrVars, loginVars>>
       \/ /\ part = "sessions" /\ Sessions!Next
          /\ UNCHANGED <<vars, now, req, signed, fileVars, cookieVars, vpnVars, radarVars, qrVars>>
       \/ /\ part = "radar" /\ Radar!Next
          /\ UNCHANGED <<vars, now, cache, fileVars, cookieVars, vpnVars, sessionVars, qrVars, loginVars>>
       \/ /\ part = "qr" /\ Qr!Next
          /\ UNCHANGED <<vars, now, req, fileVars, cookieVars, vpnVars, sessionVars, radarVars>>

QuietPartsNext ==
    /\ UNCHANGED <<part, vars, partVars>>
    /\ \/ /\ part = "school" /\ School!Next
          /\ UNCHANGED <<gradeVars, semesterVars, decoderVars, failureVars>>
       \/ /\ part = "grades" /\ Grades!Next
          /\ UNCHANGED <<schoolVars, semesterVars, decoderVars, failureVars>>
       \/ /\ part = "semesters" /\ Semesters!Next
          /\ UNCHANGED <<schoolVars, gradeVars, decoderVars, failureVars>>
       \/ /\ part = "decoder" /\ Decoder!Next
          /\ UNCHANGED <<schoolVars, gradeVars, semesterVars, failureVars>>
       \/ /\ part = "failures" /\ Failures!Next
          /\ UNCHANGED <<schoolVars, gradeVars, semesterVars, decoderVars>>

PartsNext == BusyPartsNext \/ QuietPartsNext

PartsSpec == PartsInit /\ [][PartsNext]_<<part, vars, partVars, quietVars>>

-----------------------------------------------------------------------------
(* A reserved name has one owner, a listed page has its files, and a file  *)
(* is whole unless the server gave a short answer (TempFiles: OneOwner,    *)
(* FilesWhileListed, WholeUnlessShort).  The newest pages of failed logins *)
(* are there (FailedPages: NewestAreKept).  Threads load model files that  *)
(* are whole unless one was passed while another was at it, and a file a   *)
(* run left torn stays torn (QrDecoder: LoadsWholeFiles, TornForGood).     *)
FilesAreKept ==
    /\ part = "files" => Files!TypeOK /\ Files!FilesAreKept
    /\ part = "failures" => Failures!TypeOK /\ Failures!NewestAreKept
    /\ part = "decoder" => Decoder!TypeOK /\ Decoder!LoadsWholeFiles /\ Decoder!TornForGood

(* A header is behind its cookies only while it is marked or rebuilt, so a *)
(* chain of redirects sends the cookies it was given, and it is followed   *)
(* to its limit (ClientSession: StaleOnlyDuringRebuild,                    *)
(* ChainSendsItsCookies, ChainIsFollowed).                                 *)
CookiesReachTheNextRequest ==
    part = "cookies" =>
        /\ Cookies!TypeOK
        /\ Cookies!StaleOnlyDuringRebuild /\ Cookies!ChainSendsItsCookies /\ Cookies!ChainIsFollowed

(* The VPN's client goes on with its newest access token and the expiry of *)
(* that token; a user who logged out stays out, up to the cached client,   *)
(* and a login page ends with its command; a login is stored with what the *)
(* server gave it (SecureLink: TokenIsAccess, ExpiryIsOfToken;             *)
(* LoginSession: OnlyTheCacheOutlivesLogout, PagesEndWithCommands;         *)
(* SchoolLogin: LoginIsBacked).                                            *)
SessionsAreWhatTheySay ==
    /\ part = "vpn" => Vpn!TypeOK /\ Vpn!TokenIsAccess /\ Vpn!ExpiryIsOfToken
    /\ part = "sessions" =>
          Sessions!TypeOK /\ Sessions!OnlyTheCacheOutlivesLogout /\ Sessions!PagesEndWithCommands
    /\ part = "school" => School!TypeOK /\ School!LoginIsBacked

(* Nobody is told that his radar answer failed while the server has him    *)
(* down, but for lost requests; the place that is remembered is close; a   *)
(* push gives a user up, or leaves him out, only for the reasons given;    *)
(* grades that are called new are new, and missing ones are gone; the      *)
(* semester asked for is one of the list; an image that waits is answered  *)
(* (RadarSign: FailureIsReal, CacheIsClose; QrPush: GivenUpForAReason,     *)
(* LeftOutOnlyByIndex; GpaQuery: NewIsNew, MissingIsGone; SemesterChoice:  *)
(* SemesterIsListed; QrDecoder: WaitersAreServed).                         *)
AnswersAreHonest ==
    /\ part = "radar" => Radar!TypeOK /\ Radar!FailureIsReal /\ Radar!CacheIsClose
    /\ part = "qr" => Qr!TypeOK /\ Qr!GivenUpForAReason /\ Qr!LeftOutOnlyByIndex
    /\ part = "grades" => Grades!TypeOK /\ Grades!NewIsNew /\ Grades!MissingIsGone
    /\ part = "semesters" => Semesters!TypeOK /\ Semesters!SemesterIsListed
    /\ part = "decoder" => Decoder!WaitersAreServed
=============================================================================
