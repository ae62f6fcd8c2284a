------------------------------ MODULE WritePause ------------------------------
(***************************************************************************)
(* The operator's write pause of one environment (lab/write_pause.py): the   *)
(* commands pause, pause --adopt-maintenance and resume, and what runs       *)
(* beside them: the gateway's admission, a Studio start, direct database     *)
(* access, scheduled jobs and Edge Functions being turned on and off, another *)
(* operation's maintenance, and restarts of the platform.                    *)
(*                                                                         *)
(* A command holds the operation lock for its length and, once it has waited *)
(* for it, the pause lock; each write, call and statement is a step, after   *)
(* which it may fail or be killed.  A Studio start holds the pause lock.     *)
(* Auth, REST, Realtime and Storage are one `services`; `request` is one     *)
(* request on its way to the database.                                       *)
(***************************************************************************)
EXTENDS Naturals

CONSTANTS
    BodyRead,      \* ticks the gateway may take to read a body: 10 seconds
    Window,        \* ticks a pause waits before it stops the writers: 15 seconds
    MaxFaults,     \* bound on failing steps and killed processes
    MaxPauses,     \* bound on pause commands (adopting one is not counted)
    MaxOthers,     \* bound on other operations that take the maintenance
    MaxChanges     \* bound on changes of a setting and restarts

ASSUME BoundsAssumption == {BodyRead, Window, MaxFaults, MaxPauses, MaxOthers, MaxChanges} \subseteq Nat
ASSUME WindowAssumption == BodyRead < Window

None == "none"
NoRecord == [phase |-> None, intent |-> 0, revision |-> 0, routed |-> FALSE]
Nobody == [kind |-> None, at |-> None, held |-> FALSE, failed |-> FALSE]
NoRequest == [stage |-> None, life |-> 0]
Logins == {"developer", "studio", "cron"}

VARIABLES
    routing,     \* the environment's routing row; who put it in maintenance (history)
    record,      \* write-pauses/<e>.json, or NoRecord
    age,         \* ticks since routed_at, or since the wait began when it is not known
    proc,        \* the command under the operation lock, with its program counter
    logins,      \* the logins that are on
    sessions,    \* the logins with an open session
    services, functions,   \* what runs
    request,     \* one request: read by the gateway, in a service, or left in the database
    studio,      \* the Studio of the environment: down; checked and opening, under the pause lock; up
    access,      \* turning direct access on: nothing, writing grants (under its own lock), grants written
    settings,    \* what is turned on: direct access, scheduled jobs, Edge Functions
    counts       \* of the bounds

gate == <<routing, record>>
world == <<logins, sessions, services, functions, request, studio, access, settings>>
vars == <<gate, age, proc, world, counts>>

CountNames == {"faults", "pauses", "others", "changes"}
Count(c, bound) == counts[c] < bound /\ counts' = [counts EXCEPT ![c] = @ + 1]

Init ==
    /\ routing = [revision |-> 0, maintenance |-> FALSE, by |-> None]
    /\ record = NoRecord /\ age = 0 /\ proc = Nobody
    /\ settings \in [{"developer", "cron", "functions"} -> BOOLEAN]
    /\ logins = {l \in {"developer", "cron"} : settings[l]} /\ sessions = {}
    /\ services = TRUE /\ functions = settings.functions
    /\ request = NoRequest /\ studio = "down" /\ access = None
    /\ counts = [c \in CountNames |-> 0]

At(kind, pc) == proc.kind = kind /\ proc.at = pc
Goes(pc) == proc' = [proc EXCEPT !.at = pc]
Ends == proc' = Nobody
OperationFree == proc = Nobody
StudioHoldsLock == studio \in {"checked", "opening"}
PauseLockFree_Alone == proc = Nobody \/ proc.at = "lock"
PauseLockFree == (proc = Nobody \/ proc.at = "lock") /\ ~StudioHoldsLock
Owned_Answered == record.routed /\ record.revision = routing.revision
Owned == record.revision # 0 /\ record.revision = routing.revision

-------------------------------------------------------------------------------
(* pause and resume: the locks and what they read.                           *)

Command(kind) ==
    /\ OperationFree
    /\ kind = "resume" \/ Count("pauses", MaxPauses)
    /\ kind = "resume" => record # NoRecord /\ counts' = counts
    /\ proc' = [Nobody EXCEPT !.kind = kind, !.at = "lock"]
    /\ UNCHANGED <<gate, age, world>>

TakeLock ==
    /\ proc # Nobody /\ proc.at = "lock" /\ PauseLockFree
    /\ Goes("read")
    /\ UNCHANGED <<gate, age, world, counts>>

\* A routing change the record cannot tell the outcome of: dropped without maintenance, refused with it.
Unsettled ==
    /\ proc # Nobody /\ proc.at = "read" /\ record.intent # 0
    /\ IF routing.maintenance THEN Ends /\ UNCHANGED record
                              ELSE record' = [record EXCEPT !.intent = 0] /\ UNCHANGED proc
    /\ UNCHANGED <<routing, age, world, counts>>

\* The maintenance is another operation's, or there is nothing to do.
Refuses ==
    /\ proc # Nobody /\ proc.at = "read" /\ record.intent = 0
    /\ \/ routing.maintenance /\ ~Owned
       \/ proc.kind = "pause" /\ record.phase = "held" /\ Owned
    /\ Ends
    /\ UNCHANGED <<gate, age, world, counts>>

\* Recorded before anything stops.
PauseBegins ==
    /\ At("pause", "read") /\ record.intent = 0
    /\ routing.maintenance => Owned /\ record.phase # "held"
    /\ record' = [record EXCEPT !.phase = "pausing"]
    /\ Goes(IF routing.maintenance THEN "studio" ELSE "intent")
    /\ UNCHANGED <<routing, age, world, counts>>

\* resume records itself before anything reopens.
ResumeBegins ==
    /\ At("resume", "read") /\ record.intent = 0 /\ (routing.maintenance => Owned)
    /\ record' = [record EXCEPT !.phase = "resuming"]
    /\ proc' = [proc EXCEPT !.at = "writers", !.held = (record.phase = "held")]
    /\ UNCHANGED <<routing, age, world, counts>>

\* --adopt-maintenance: the operator made sure no other operation holds it; the pause goes on.
Adopt ==
    /\ OperationFree /\ ~StudioHoldsLock /\ record.intent # 0 /\ routing.by # "other"
    /\ record' = [record EXCEPT !.intent = 0, !.routed = FALSE,
                                !.revision = IF routing.maintenance /\ routing.revision = record.intent THEN record.intent ELSE @]
    /\ proc' = [Nobody EXCEPT !.kind = "pause", !.at = "lock"]
    /\ UNCHANGED <<routing, age, world, counts>>

-------------------------------------------------------------------------------
(* pause: routing, Studio and logins, the window, the writers.                *)

\* The read revision is what the call expects; the one the record had is forgotten.
WriteIntent ==
    /\ At("pause", "intent")
    /\ record' = [record EXCEPT !.intent = routing.revision + 1, !.revision = 0, !.routed = FALSE]
    /\ Goes("route")
    /\ UNCHANGED <<routing, age, world, counts>>

Paused(by) == [revision |-> routing.revision + 1, maintenance |-> TRUE, by |-> by]
Released == [revision |-> routing.revision + 1, maintenance |-> FALSE, by |-> None]

\* The routing operator answers, or its answer is lost: the change happened or not.
Route ==
    /\ At("pause", "route")
    /\ \/ routing' = Paused("pause") /\ Goes("answered") /\ counts' = counts
       \/ routing' \in {Paused("pause"), routing} /\ Goes("readBack") /\ Count("faults", MaxFaults)
    /\ UNCHANGED <<record, age, world>>

Answered ==
    /\ At("pause", "answered")
    /\ record' = [record EXCEPT !.intent = 0, !.revision = record.intent, !.routed = TRUE]
    /\ age' = 0
    /\ Goes("studio")
    /\ UNCHANGED <<routing, world, counts>>

ReadBack ==
    /\ At("pause", "readBack")
    /\ IF routing.maintenance /\ routing.revision = record.intent
       THEN record' = [record EXCEPT !.intent = 0, !.revision = record.intent] /\ Goes("studio")
       ELSE record' = [record EXCEPT !.intent = 0] /\ Ends
    /\ UNCHANGED <<routing, age, world, counts>>

\* studio.down: its containers go, then its login.
StopStudio ==
    /\ At("pause", "studio")
    /\ studio' = (IF StudioHoldsLock THEN studio ELSE "down") /\ logins' = logins \ {"studio"} /\ sessions' = sessions \ {"studio"}
    /\ Goes("logins")
    /\ UNCHANGED <<gate, age, services, functions, request, access, settings, counts>>

CloseLogins ==
    /\ At("pause", "logins")
    /\ logins' = {}
    /\ Goes("sessions")
    /\ UNCHANGED <<gate, age, sessions, services, functions, request, studio, access, settings, counts>>

\* With every session ended the window is waited: from routed_at, or from now when it is not known.
EndSessions ==
    /\ At("pause", "sessions")
    /\ sessions' = {}
    /\ age' = IF record.routed THEN age ELSE 0
    /\ Goes("window")
    /\ UNCHANGED <<gate, logins, services, functions, request, studio, access, settings, counts>>

Waits ==
    /\ At("pause", "window") /\ age >= Window
    /\ Goes("stop")
    /\ UNCHANGED <<gate, age, world, counts>>

\* PostgreSQL finishes a statement whose client died.
Orphaned == IF request.stage = "service" THEN [request EXCEPT !.stage = "database"] ELSE request

StopWriters ==
    /\ At("pause", "stop")
    /\ services' = FALSE /\ functions' = FALSE
    /\ request' = Orphaned
    /\ Goes("drain")
    /\ UNCHANGED <<gate, age, logins, sessions, studio, access, settings, counts>>

\* Every session in the environment's database ends, or the pause fails and still starts the writers.
Drain ==
    /\ At("pause", "drain")
    /\ \/ request' = (IF request.stage = "database" THEN NoRequest ELSE request) /\ Goes("start") /\ counts' = counts
       \/ proc' = [proc EXCEPT !.at = "start", !.failed = TRUE] /\ Count("faults", MaxFaults) /\ UNCHANGED request
    /\ UNCHANGED <<gate, age, logins, sessions, services, functions, studio, access, settings>>

\* Everything but Functions starts again.
StartWriters ==
    /\ At("pause", "start")
    /\ services' = TRUE /\ UNCHANGED functions
    /\ IF proc.failed THEN Ends ELSE Goes("hold")
    /\ UNCHANGED <<gate, age, logins, sessions, request, studio, access, settings, counts>>

Hold ==
    /\ At("pause", "hold")
    /\ record' = [record EXCEPT !.phase = "held"]
    /\ Ends
    /\ UNCHANGED <<routing, age, world, counts>>

-------------------------------------------------------------------------------
(* resume: the writers, routing, the logins, and the record last.             *)

\* A pause that held has only Functions to start; one that stopped midway may have left everything stopped.
StartsAll_Held == FALSE
StartsAll == ~proc.held
ResumeWriters ==
    /\ At("resume", "writers")
    /\ services' = (StartsAll \/ services)
    /\ functions' = settings.functions
    /\ Goes("route")
    /\ UNCHANGED <<gate, age, logins, sessions, request, studio, access, settings, counts>>

ResumeRouting ==
    /\ At("resume", "route")
    /\ \/ ~routing.maintenance /\ UNCHANGED routing /\ Goes("developer") /\ counts' = counts
       \/ routing.maintenance /\ routing' = Released /\ Goes("developer") /\ counts' = counts
       \/ routing.maintenance /\ routing' = Released /\ Ends /\ Count("faults", MaxFaults)
    /\ UNCHANGED <<record, age, world>>

\* The developer login as the setting says now; its grants' lock is tried, not waited for.
ResumeDeveloper ==
    /\ At("resume", "developer")
    /\ IF settings.developer /\ access = "writing"
       THEN Ends /\ UNCHANGED logins
       ELSE /\ logins' = IF settings.developer THEN logins \cup {"developer"} ELSE logins
            /\ Goes("cron")
    /\ UNCHANGED <<gate, age, sessions, services, functions, request, studio, access, settings, counts>>

ResumeCron ==
    /\ At("resume", "cron")
    /\ logins' = IF settings.cron THEN logins \cup {"cron"} ELSE logins
    /\ Goes("unlink")
    /\ UNCHANGED <<gate, age, sessions, services, functions, request, studio, access, settings, counts>>

Unlink ==
    /\ At("resume", "unlink")
    /\ record' = NoRecord
    /\ Ends
    /\ UNCHANGED <<routing, age, world, counts>>

\* A step raises, or the process is killed.  Stopping the writers raises past the `finally` that starts them.
Fails ==
    /\ proc # Nobody /\ proc.at \notin {"lock", "drain"}
    /\ Count("faults", MaxFaults)
    /\ IF At("pause", "stop") THEN proc' = [proc EXCEPT !.at = "start", !.failed = TRUE] ELSE Ends
    /\ UNCHANGED <<gate, age, world>>
Killed ==
    /\ proc # Nobody /\ Count("faults", MaxFaults)
    /\ Ends
    /\ UNCHANGED <<gate, age, world>>

-------------------------------------------------------------------------------
(* What runs beside.                                                         *)

\* The gateway reads routing on every request, then its body within its own limit; it then reaches a service.
Admit ==
    /\ ~routing.maintenance /\ request = NoRequest
    /\ request' = [stage |-> "gateway", life |-> BodyRead]
    /\ UNCHANGED <<gate, age, proc, logins, sessions, services, functions, studio, access, settings, counts>>
Forward ==
    /\ request.stage = "gateway"
    /\ request' = IF services THEN [stage |-> "service", life |-> 0] ELSE NoRequest
    /\ UNCHANGED <<gate, age, proc, logins, sessions, services, functions, studio, access, settings, counts>>
\* The environment's own functions reach its services without the gateway.
FunctionCalls ==
    /\ functions /\ services /\ request = NoRequest
    /\ request' = [stage |-> "service", life |-> 0]
    /\ UNCHANGED <<gate, age, proc, logins, sessions, services, functions, studio, access, settings, counts>>
Lands ==
    /\ request.stage \in {"service", "database"}
    /\ request' = NoRequest
    /\ UNCHANGED <<gate, age, proc, logins, sessions, services, functions, studio, access, settings, counts>>

Tick ==
    /\ age < Window \/ request.stage = "gateway"
    /\ request.stage = "gateway" => request.life > 0
    /\ age' = IF age < Window THEN age + 1 ELSE age
    /\ request' = IF request.stage = "gateway" THEN [request EXCEPT !.life = @ - 1] ELSE request
    /\ UNCHANGED <<gate, proc, logins, sessions, services, functions, studio, access, settings, counts>>

SignIn(l) ==
    /\ l \in logins \ sessions
    /\ sessions' = sessions \cup {l}
    /\ UNCHANGED <<gate, age, proc, logins, services, functions, request, studio, access, settings, counts>>

\* unpaused: the pause lock and no record, until the login is on.
Unpaused == PauseLockFree /\ record = NoRecord

StudioStarts ==
    /\ studio = "down" /\ Unpaused /\ Count("changes", MaxChanges)
    /\ studio' = "checked"
    /\ UNCHANGED <<gate, age, proc, logins, sessions, services, functions, request, access, settings>>
StudioOpens ==
    /\ studio = "checked"
    /\ studio' = "opening" /\ logins' = logins \cup {"studio"}
    /\ UNCHANGED <<gate, age, proc, sessions, services, functions, request, access, settings, counts>>
\* It serves, fails and closes its login, or is killed and leaves it on.
StudioSettles ==
    /\ studio = "opening"
    /\ \/ studio' = "up" /\ UNCHANGED <<logins, sessions, counts>>
       \/ studio' = "down" /\ logins' = logins \ {"studio"} /\ sessions' = sessions \ {"studio"} /\ counts' = counts
       \/ studio' = "down" /\ UNCHANGED <<logins, sessions>> /\ Count("faults", MaxFaults)
    /\ UNCHANGED <<gate, age, proc, services, functions, request, access, settings>>

StudioCloses ==
    /\ studio = "up"
    /\ studio' = "down" /\ logins' = logins \ {"studio"} /\ sessions' = sessions \ {"studio"}
    /\ UNCHANGED <<gate, age, proc, services, functions, request, access, settings, counts>>

\* Direct access on: checks under the operation lock, grants under its own, the login under the first again.
AccessAsked ==
    /\ access = None /\ OperationFree /\ record = NoRecord /\ Count("changes", MaxChanges)
    /\ access' = "writing"
    /\ UNCHANGED <<gate, age, proc, logins, sessions, services, functions, request, studio, settings>>
AccessWritten ==
    /\ access = "writing" /\ access' = "written"
    /\ UNCHANGED <<gate, age, proc, logins, sessions, services, functions, request, studio, settings, counts>>
AccessOpens ==
    /\ access = "written" /\ OperationFree /\ access' = None
    /\ IF Unpaused THEN logins' = logins \cup {"developer"} /\ settings' = [settings EXCEPT !.developer = TRUE]
                   ELSE UNCHANGED <<logins, settings>>
    /\ UNCHANGED <<gate, age, proc, sessions, services, functions, request, studio, counts>>

\* Under the operation lock: scheduled jobs and Functions on while no pause is recorded; anything off at any time.
TurnOn(what) ==
    /\ OperationFree /\ record = NoRecord /\ (what = "functions" => PauseLockFree)
    /\ ~settings[what] /\ Count("changes", MaxChanges)
    /\ settings' = [settings EXCEPT ![what] = TRUE]
    /\ logins' = logins \cup ({what} \cap Logins) /\ functions' = (functions \/ what = "functions")
    /\ UNCHANGED <<gate, age, proc, sessions, services, request, studio, access>>
TurnOff(what) ==
    /\ OperationFree /\ settings[what] /\ (what = "developer" => access # "writing") /\ Count("changes", MaxChanges)
    /\ settings' = [settings EXCEPT ![what] = FALSE]
    /\ logins' = logins \ {what} /\ sessions' = sessions \ {what} /\ functions' = (functions /\ what # "functions")
    /\ UNCHANGED <<gate, age, proc, services, request, studio, access>>

\* A restart: services start again, Functions and the scheduler's login only when no pause is recorded.
BackAtStart(on, running) == IF record = NoRecord THEN on ELSE running /\ on
Restart ==
    /\ OperationFree /\ Count("changes", MaxChanges)
    /\ services' = TRUE
    /\ \E kept \in BOOLEAN : functions' = BackAtStart(settings.functions, functions /\ kept)
    /\ logins' = (logins \ {"cron"}) \cup (IF BackAtStart(settings.cron, FALSE) THEN {"cron"} ELSE {})
    /\ sessions' = sessions \ {"cron"}
    /\ request' = IF request.stage = "gateway" THEN NoRequest ELSE Orphaned
    /\ UNCHANGED <<gate, age, proc, studio, access, settings>>

\* Another operation takes the maintenance, under the operation lock, and releases it.
OtherPauses ==
    /\ OperationFree /\ ~routing.maintenance /\ Count("others", MaxOthers)
    /\ routing' = Paused("other")
    /\ UNCHANGED <<record, age, proc, world>>
OtherReleases ==
    /\ OperationFree /\ routing.by = "other"
    /\ routing' = Released
    /\ UNCHANGED <<record, age, proc, world, counts>>

-------------------------------------------------------------------------------

PauseWorks ==
    \/ TakeLock \/ Unsettled \/ Refuses \/ PauseBegins \/ WriteIntent \/ Route \/ Answered \/ ReadBack
    \/ StopStudio \/ CloseLogins \/ EndSessions \/ Waits \/ StopWriters \/ Drain \/ StartWriters \/ Hold
ResumeWorks ==
    \/ ResumeBegins \/ ResumeWriters \/ ResumeRouting \/ ResumeDeveloper \/ ResumeCron \/ Unlink
Works == PauseWorks \/ ResumeWorks

Next ==
    \/ Command("pause") \/ Command("resume") \/ Adopt
    \/ TakeLock \/ Unsettled \/ Refuses \/ PauseBegins \/ WriteIntent \/ Route \/ Answered \/ ReadBack
    \/ StopStudio \/ CloseLogins \/ EndSessions \/ Waits \/ StopWriters \/ Drain \/ StartWriters \/ Hold
    \/ ResumeBegins \/ ResumeWriters \/ ResumeRouting \/ ResumeDeveloper \/ ResumeCron \/ Unlink
    \/ Fails \/ Killed
    \/ Admit \/ Forward \/ FunctionCalls \/ Lands \/ Tick
    \/ StudioStarts \/ StudioOpens \/ StudioSettles \/ StudioCloses \/ AccessAsked \/ AccessWritten \/ AccessOpens \/ Restart
    \/ OtherPauses \/ OtherReleases
    \/ \E l \in Logins : SignIn(l)
    \/ \E what \in {"cron", "functions"} : TurnOn(what)
    \/ \E what \in {"developer", "cron", "functions"} : TurnOff(what)

Spec == Init /\ [][Next]_vars

\* A command goes on, time passes, a request is forwarded, a Studio start and a change of access end; the
\* operator runs resume until it is done, adopts what is his, and another operation releases its maintenance.
FairSpec ==
    /\ Spec /\ WF_vars(Works) /\ WF_vars(Tick) /\ WF_vars(Forward) /\ WF_vars(StudioOpens \/ StudioSettles)
    /\ WF_vars(AccessWritten) /\ SF_vars(Command("resume")) /\ SF_vars(Adopt) /\ SF_vars(OtherReleases)

-------------------------------------------------------------------------------
(* Properties.                                                              *)

\* The shape of the state; an intent and a confirmed revision never stand together.
TypeOK ==
    /\ routing.revision \in Nat /\ routing.maintenance \in BOOLEAN /\ (routing.by # None <=> routing.maintenance)
    /\ record.phase \in {None, "pausing", "held", "resuming"}
    /\ record.intent = 0 \/ (record.revision = 0 /\ ~record.routed)
    /\ age \in 0..Window /\ logins \subseteq Logins /\ sessions \subseteq Logins
    /\ request.stage \in {None, "gateway", "service", "database"} /\ request.life \in 0..BodyRead
    /\ studio \in {"down", "checked", "opening", "up"} /\ access \in {None, "writing", "written"}

\* While the record says held no write can land: the gateway is in maintenance, nothing it admitted before is on its
\* way, Studio is down, every login is off without a session, and Functions are stopped (pause, docs/guides/write-pause.md).
HeldIsQuiet ==
    record.phase = "held" =>
        /\ routing.maintenance /\ request = NoRequest
        /\ logins = {} /\ sessions = {} /\ studio = "down" /\ ~functions

\* The pause's own maintenance ends only while it is recorded, and another operation's is never released by it
\* (owned, unsettled, route_pause).
MaintenanceIsItsOwn ==
    [][routing.maintenance /\ ~routing'.maintenance =>
        (routing.by = "pause" /\ record.phase = "resuming") \/ (routing.by = "other" /\ proc = Nobody)]_vars

\* Without a record nothing of a pause is left: its maintenance is gone, the services run, and the logins and
\* Functions are as the settings say (resume: the record goes last).
RecordGoesLast ==
    record = NoRecord =>
        /\ routing.by # "pause" /\ services /\ functions = settings.functions
        /\ \A l \in {"developer", "cron"} : l \in logins <=> settings[l]

\* The operator can always get out: with resume run until it is done, adopting what was left unsettled, a recorded
\* pause is released however often it failed or was killed (resume, adopt).
ResumeGetsOut == (record # NoRecord) ~> (record = NoRecord)
===============================================================================
