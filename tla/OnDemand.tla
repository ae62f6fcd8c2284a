-------------------------------- MODULE OnDemand --------------------------------
(*******************************************************************************)
(* On demand mode of the optional services of one environment: the gateway     *)
(* holds a request and asks for a wake, the sleeper asks for a stop after a     *)
(* quiet period, people change modes and the kill switch, and the supervisor    *)
(* applies the one settings row they all write (src/control/on-demand.ts,       *)
(* src/control/catalog.ts, src/gateway/activity.ts, src/gateway/managed.ts,     *)
(* lab/realtime.py, lab/dev.py, lab/durable_runtime.py).                        *)
(*                                                                             *)
(* Time is not counted.  Elapse is a whole quiet period, HourPasses an hour,    *)
(* HoldEnds and WakeDeadline the twenty seconds of a hold; the catalog's audit  *)
(* rows of an hour are a count.                                                 *)
(*******************************************************************************)
EXTENDS Naturals, Sequences, FiniteSets, Functions

CONSTANTS
    Order,           \* the services, in the order the sleeper looks at them
    Cancels,         \* the services whose pending sleep may be called off: Edge Functions
    Requests,        \* requests and sockets at the gateway at once
    MaxHeld,         \* MAX_HELD_PER_ENVIRONMENT
    WakesPerHour,    \* WAKES_PER_HOUR
    MaxChoices,      \* bound on changes of a mode or of the kill switch
    MaxFaults,       \* bound on refused or failed commands and on deaths
    MaxOthers        \* bound on other operations that hold the operation lock

Services == Range(Order)
ASSUME ServicesAssumption == Order \in Seq(Services) /\ Cancels \subseteq Services
ASSUME LimitsAssumption == {MaxHeld, WakesPerHour, MaxChoices, MaxFaults, MaxOthers} \subseteq Nat

None == "none"
NoRequest == [at |-> None, service |-> None, let |-> FALSE]
NoChild == [at |-> None, want |-> None, by |-> None]

VARIABLES
    row,       \* realtime_settings, functions_settings: desired, state, and who asked
    mode,      \* service_modes
    wakes,     \* wake requests audited in the last hour
    killed,    \* the kill switch
    recent,    \* used within the quiet period (ServiceActivity, stored and seen)
    calm,      \* the row is as it was for a whole quiet period (updated_at)
    young,     \* the console is younger than a quiet period
    known,     \* the gateway's answer to isOnDemand, kept for two seconds
    req,       \* a request: held by ensure, let go, or at the service
    queue,     \* the wakes behind tail, the first one at work: its service, and whether it has asked
    box,       \* a container serves
    entry,     \* the published endpoints name it
    child,     \* realtime.py apply and the command it runs
    sup,       \* the supervisor and the console are up
    other,     \* another operation holds the operation lock
    calledOff, \* a sleep was called off while a child was at it (history)
    counts     \* what the bounds count

catalogVars == <<row, mode, wakes, killed>>
useVars == <<recent, young, known, req, queue>>
hostVars == <<box, entry, child, sup, other>>
vars == <<catalogVars, useVars, calm, hostVars, calledOff, counts>>

Init ==
    /\ row = [s \in Services |-> [desired |-> "off", state |-> "off", by |-> "user"]]
    /\ mode \in [Services -> {"off", "on_demand"}]
    /\ wakes = [s \in Services |-> 0] /\ killed = FALSE
    /\ recent = [s \in Services |-> FALSE] /\ calm = [s \in Services |-> TRUE] /\ young = TRUE
    /\ known = [s \in Services |-> FALSE]
    /\ req = [r \in Requests |-> NoRequest] /\ queue = <<>>
    /\ box = [s \in Services |-> FALSE] /\ entry = [s \in Services |-> FALSE]
    /\ child = [s \in Services |-> NoChild]
    /\ sup = TRUE /\ other = FALSE
    /\ calledOff = [s \in Services |-> FALSE]
    /\ counts = [choices |-> 0, faults |-> 0, others |-> 0]

Count(field) == counts' = [counts EXCEPT ![field] = @ + 1]
Held == {r \in Requests : req[r].at = "held"}
InUse(s) == {r \in Requests : req[r] \in [at : {"use"}, service : {s}, let : BOOLEAN]}
Up(s) == row[s].state = "on" /\ entry[s]

--------------------------------------------------------------------------------
(* The row that everybody writes.                                              *)

Asks(s, want, by) ==
    /\ row' = [row EXCEPT ![s] = [desired |-> want, state |-> "pending", by |-> by]]
    /\ calm' = [calm EXCEPT ![s] = FALSE]

\* requestServiceChange: refused while a change is pending, nothing when it is as asked.
MayAsk(s, want, force) ==
    /\ row[s].state # "pending"
    /\ IF want = "on" THEN row[s].state # "on" \/ force ELSE row[s].state = "on" \/ row[s].desired = "on"

\* A person chooses a mode; On and Off ask for the change, On demand starts and stops nothing.
setServiceMode(s, m) ==
    /\ sup /\ counts.choices < MaxChoices /\ Count("choices")
    /\ row[s].state # "pending" /\ mode[s] # m
    /\ mode' = [mode EXCEPT ![s] = m]
    /\ IF m = "on" /\ row[s].state # "on" THEN Asks(s, "on", "user")
       ELSE IF m = "off" /\ (row[s].state = "on" \/ row[s].desired = "on") THEN Asks(s, "off", "user")
       ELSE UNCHANGED <<row, calm>>
    /\ UNCHANGED <<wakes, killed, useVars, hostVars, calledOff>>

setKillSwitch ==
    /\ sup /\ counts.choices < MaxChoices /\ Count("choices")
    /\ killed' = ~killed
    /\ UNCHANGED <<row, mode, wakes, useVars, calm, hostVars, calledOff>>

\* A stop the sleeper asked for is called off while it is pending, whatever the supervisor has done with it.
MayCancel(s) == s \in Cancels /\ row[s] = [desired |-> "off", state |-> "pending", by |-> "idle"] /\ entry[s]
cancelSleep(s) ==
    /\ row' = [row EXCEPT ![s] = [desired |-> "on", state |-> "on", by |-> "wake"]]
    /\ calledOff' = [calledOff EXCEPT ![s] = child[s] # NoChild]

--------------------------------------------------------------------------------
(* The gateway and ensure.                                                      *)

\* Who is let go is counted as use in the same turn of the event loop.
Goes(r, at, s, let) == req' = [req EXCEPT ![r] = [at |-> at, service |-> s, let |-> let]]
Touch(s) == recent' = [recent EXCEPT ![s] = TRUE]

\* A request with a verified key.  The gateway's answer about the mode may be two seconds old, in both directions.
Straight(r, s) ==
    /\ sup /\ req[r] = NoRequest
    /\ ~known[s] \/ mode[s] # "on_demand"
    /\ entry[s]
    /\ known' = [known EXCEPT ![s] = FALSE]
    /\ Goes(r, "go", s, FALSE) /\ Touch(s)
    /\ UNCHANGED <<catalogVars, young, queue, calm, hostVars, calledOff, counts>>

Asked(r, s) == sup /\ req[r] = NoRequest /\ (known[s] \/ mode[s] = "on_demand")

\* ensure reads the catalog again, and is what refreshes the answer.
Learn(s) == known' = [known EXCEPT ![s] = mode[s] = "on_demand"]

EnsureRefuses(r, s) ==
    /\ Asked(r, s) /\ mode[s] # "on_demand" /\ ~(mode[s] = "on" /\ Up(s))
    /\ known[s] /\ Learn(s)
    /\ UNCHANGED <<catalogVars, recent, young, req, queue, calm, hostVars, calledOff, counts>>

EnsureUp(r, s) ==
    /\ Asked(r, s) /\ mode[s] \in {"on", "on_demand"} /\ Up(s)
    /\ Learn(s) /\ Goes(r, "go", s, TRUE) /\ Touch(s)
    /\ UNCHANGED <<catalogVars, young, queue, calm, hostVars, calledOff, counts>>

EnsureCallsOff(r, s) ==
    /\ Asked(r, s) /\ mode[s] = "on_demand" /\ MayCancel(s)
    /\ cancelSleep(s)
    /\ Learn(s) /\ Goes(r, "go", s, TRUE) /\ Touch(s)
    /\ UNCHANGED <<mode, wakes, killed, young, queue, calm, hostVars, counts>>

\* Held until the wake of this service answers: the one at work or behind tail, or a new one at its end.
EnsureHolds(r, s) ==
    /\ Asked(r, s) /\ mode[s] = "on_demand" /\ ~Up(s) /\ ~MayCancel(s)
    /\ Cardinality(Held) < MaxHeld
    /\ Learn(s) /\ Goes(r, "held", s, TRUE)
    /\ queue' = IF \E i \in DOMAIN queue : queue[i].service = s THEN queue
                ELSE Append(queue, [service |-> s, asked |-> FALSE])
    /\ UNCHANGED <<catalogVars, recent, young, calm, hostVars, calledOff, counts>>

\* The twenty seconds of one request: 503, and the wake goes on.
HoldEnds(r) ==
    /\ sup /\ req[r].at = "held"
    /\ req' = [req EXCEPT ![r] = NoRequest]
    /\ UNCHANGED <<catalogVars, recent, young, known, queue, calm, hostVars, calledOff, counts>>

\* A request let go reaches the container the endpoints name, or finds none.
Reaches(r) ==
    LET s == req[r].service IN
    /\ sup /\ req[r].at = "go"
    /\ req' = [req EXCEPT ![r] = IF entry[s] /\ box[s] THEN [@ EXCEPT !.at = "use"] ELSE NoRequest]
    /\ UNCHANGED <<catalogVars, recent, young, known, queue, calm, hostVars, calledOff, counts>>

\* A call ends; a socket that closes is a use, a call is one only when it starts.
Leaves(r) ==
    /\ req[r].at = "use"
    /\ recent' = IF req[r].service \in Cancels THEN recent ELSE [recent EXCEPT ![req[r].service] = TRUE]
    /\ req' = [req EXCEPT ![r] = NoRequest]
    /\ UNCHANGED <<catalogVars, young, known, queue, calm, hostVars, calledOff, counts>>

--------------------------------------------------------------------------------
(* wakeNow, one at a time.                                                      *)

First == Head(queue)

\* The wake's answer reaches everybody who waits for it; a good one counts as use from that moment.
WakeAnswers(ok) ==
    LET s == First.service IN
    /\ queue' = Tail(queue)
    /\ req' = [r \in Requests |-> IF req[r].at = "held" /\ req[r].service = s
                                  THEN IF ok THEN [req[r] EXCEPT !.at = "go"] ELSE NoRequest ELSE req[r]]
    /\ recent' = IF ok THEN [recent EXCEPT ![s] = TRUE] ELSE recent
    /\ UNCHANGED <<young, known>>

WakeUp ==
    /\ sup /\ queue # <<>> /\ Up(First.service)
    /\ WakeAnswers(TRUE)
    /\ UNCHANGED <<catalogVars, calm, hostVars, calledOff, counts>>

\* Failed, or turned off again, after it was asked for.
WakeFails ==
    LET r == row[First.service] IN
    /\ sup /\ queue # <<>> /\ First.asked
    /\ r.state = "failed" \/ (r.state = "off" /\ r.desired = "off")
    /\ WakeAnswers(FALSE)
    /\ UNCHANGED <<catalogVars, calm, hostVars, calledOff, counts>>

Spent(s) == wakes[s] >= WakesPerHour
WakeAsks ==
    LET s == First.service IN
    /\ sup /\ queue # <<>> /\ ~First.asked /\ ~Up(s) /\ row[s].state # "pending"
    /\ IF Spent(s)
       THEN WakeAnswers(FALSE) /\ UNCHANGED <<catalogVars, calm>>
       ELSE /\ MayAsk(s, "on", row[s].state = "on")
            /\ Asks(s, "on", "wake") /\ wakes' = [wakes EXCEPT ![s] = @ + 1]
            /\ queue' = [queue EXCEPT ![1].asked = TRUE]
            /\ UNCHANGED <<mode, killed, recent, young, known, req>>
    /\ UNCHANGED <<hostVars, calledOff, counts>>

\* The wake's own twenty seconds, from when its turn came.
WakeDeadline ==
    /\ sup /\ queue # <<>> /\ ~Up(First.service)
    /\ WakeAnswers(FALSE)
    /\ UNCHANGED <<catalogVars, calm, hostVars, calledOff, counts>>

--------------------------------------------------------------------------------
(* sweep: one synchronous pass over the services saved as On demand.           *)

\* Every pass looks at the services in order; one that is pending holds back the wakes after it.
Before(s) == {Order[i] : i \in {j \in DOMAIN Order : \E k \in DOMAIN Order : Order[k] = s /\ j < k}}
KillSweep(s) ==
    /\ sup /\ killed /\ mode[s] = "on_demand" /\ ~Up(s)
    /\ row[s].state = "failed" => calm[s]
    /\ \A b \in Before(s) : mode[b] = "on_demand" => row[b].state # "pending"
    /\ MayAsk(s, "on", FALSE)
    /\ Asks(s, "on", "kill")
    /\ UNCHANGED <<mode, wakes, killed, useVars, hostVars, calledOff, counts>>

quietFor_Sockets(s) == ~young /\ ~recent[s]
quietFor(s) == InUse(s) = {} /\ ~young /\ ~recent[s]
IdleSweep_Killed(s) ==
    /\ sup /\ mode[s] = "on_demand" /\ Up(s)
    /\ calm[s] /\ quietFor(s)
    /\ MayAsk(s, "off", FALSE)
    /\ Asks(s, "off", "idle")
    /\ UNCHANGED <<mode, wakes, killed, useVars, hostVars, calledOff, counts>>
IdleSweep(s) ==
    /\ sup /\ ~killed /\ mode[s] = "on_demand" /\ Up(s)
    /\ calm[s] /\ quietFor(s)
    /\ MayAsk(s, "off", FALSE)
    /\ Asks(s, "off", "idle")
    /\ UNCHANGED <<mode, wakes, killed, useVars, hostVars, calledOff, counts>>

--------------------------------------------------------------------------------
(* Time.                                                                       *)

\* A quiet period, which no request spends held or on its way.
Elapse(s) ==
    /\ \A r \in Requests : req[r].service = s => req[r].at = "use"
    /\ recent' = [recent EXCEPT ![s] = FALSE] /\ calm' = [calm EXCEPT ![s] = TRUE] /\ young' = FALSE
    /\ UNCHANGED <<catalogVars, known, req, queue, hostVars, calledOff, counts>>

HourPasses ==
    /\ queue = <<>>
    /\ wakes' = [s \in Services |-> 0]
    /\ UNCHANGED <<row, mode, killed, useVars, calm, hostVars, calledOff, counts>>

--------------------------------------------------------------------------------
(* The supervisor and the command.                                             *)

ChildGoes(s, at) == child' = [child EXCEPT ![s].at = at]
LockFree == ~other /\ \A s \in Services : child[s].at \notin {"run", "changed"}

Spawn(s) ==
    /\ sup /\ child[s] = NoChild /\ row[s].state = "pending"
    /\ ChildGoes(s, "asked")
    /\ UNCHANGED <<catalogVars, useVars, calm, box, entry, sup, other, calledOff, counts>>

\* apply reads what is desired, not whether it is still pending.
Read(s) ==
    /\ child[s].at = "asked"
    /\ child' = [child EXCEPT ![s] = [at |-> "read", want |-> row[s].desired, by |-> None]]
    /\ UNCHANGED <<catalogVars, useVars, calm, box, entry, sup, other, calledOff, counts>>

\* The lock is tried by busy and again by the command; a refusal leaves the row pending.
Begin(s) ==
    /\ child[s].at = "read"
    /\ child' = [child EXCEPT ![s] = IF LockFree THEN [@ EXCEPT !.at = "run", !.by = row[s].by] ELSE NoChild]
    /\ UNCHANGED <<catalogVars, useVars, calm, box, entry, sup, other, calledOff, counts>>

\* The container goes: who uses it is cut off.
Cut(s) == req' = [r \in Requests |-> IF r \in InUse(s) THEN NoRequest ELSE req[r]]
Stops(s) == child[s].at = "run" /\ child[s].want = "off"
Starts(s) == child[s].at = "run" /\ child[s].want = "on"

Run(s) ==
    /\ Stops(s) \/ Starts(s)
    /\ Cut(s)
    /\ box' = [box EXCEPT ![s] = child[s].want = "on"]
    /\ ChildGoes(s, "changed")
    /\ UNCHANGED <<catalogVars, recent, young, known, queue, calm, entry, sup, other, calledOff, counts>>

Publish(s) ==
    /\ child[s].at = "changed"
    /\ entry' = [entry EXCEPT ![s] = child[s].want = "on"]
    /\ ChildGoes(s, "published")
    /\ UNCHANGED <<catalogVars, useVars, calm, box, sup, other, calledOff, counts>>

\* Refused for lack of room, failed before or after the container changed, or a slot that remains.
Breaks(s) ==
    /\ child[s].at \in {"run", "changed", "published"} /\ counts.faults < MaxFaults /\ Count("faults")
    /\ ChildGoes(s, "broke")
    /\ UNCHANGED <<catalogVars, useVars, calm, box, entry, sup, other, calledOff>>

\* record writes the row whatever it has become.
Record_Desired(s) ==
    /\ child[s].at \in {"published", "broke"}
    /\ row' = [row EXCEPT ![s].state = IF child[s].at = "broke" THEN row[s].desired ELSE child[s].want]
    /\ calm' = [calm EXCEPT ![s] = FALSE]
    /\ child' = [child EXCEPT ![s] = NoChild]
    /\ UNCHANGED <<mode, wakes, killed, useVars, box, entry, sup, other, calledOff, counts>>
Record(s) ==
    /\ child[s].at \in {"published", "broke"}
    /\ row' = [row EXCEPT ![s].state = IF child[s].at = "broke" THEN "failed" ELSE child[s].want]
    /\ calm' = [calm EXCEPT ![s] = FALSE]
    /\ child' = [child EXCEPT ![s] = NoChild]
    /\ UNCHANGED <<mode, wakes, killed, useVars, box, entry, sup, other, calledOff, counts>>

OtherBegins ==
    /\ LockFree /\ counts.others < MaxOthers /\ Count("others")
    /\ other' = TRUE
    /\ UNCHANGED <<catalogVars, useVars, calm, box, entry, child, sup, calledOff>>
OtherEnds ==
    /\ other /\ other' = FALSE
    /\ UNCHANGED <<catalogVars, useVars, calm, box, entry, child, sup, calledOff, counts>>

\* The supervisor takes its children, the console and what the console holds in memory with it.
SupervisorDies ==
    /\ sup /\ counts.faults < MaxFaults /\ Count("faults")
    /\ sup' = FALSE /\ child' = [s \in Services |-> NoChild]
    /\ req' = [r \in Requests |-> NoRequest] /\ queue' = <<>>
    /\ young' = TRUE /\ known' = [s \in Services |-> FALSE]
    /\ UNCHANGED <<catalogVars, recent, calm, box, entry, other, calledOff>>

\* A start brings up what the endpoints name, and nothing else.
SupervisorStarts ==
    /\ ~sup /\ ~other
    /\ sup' = TRUE /\ box' = [s \in Services |-> box[s] \/ entry[s]]
    /\ UNCHANGED <<catalogVars, useVars, calm, entry, child, other, calledOff, counts>>

--------------------------------------------------------------------------------
Gateway(r, s) == Straight(r, s) \/ EnsureRefuses(r, s) \/ EnsureUp(r, s) \/ EnsureCallsOff(r, s) \/ EnsureHolds(r, s)
Wake == WakeUp \/ WakeFails \/ WakeAsks \/ WakeDeadline
Apply(s) == Spawn(s) \/ Read(s) \/ Begin(s) \/ Run(s) \/ Publish(s) \/ Record(s)

Next ==
    \/ \E r \in Requests : HoldEnds(r) \/ Reaches(r) \/ Leaves(r) \/ \E s \in Services : Gateway(r, s)
    \/ Wake \/ setKillSwitch \/ HourPasses \/ OtherBegins \/ OtherEnds \/ SupervisorDies \/ SupervisorStarts
    \/ \E s \in Services :
         \/ Apply(s) \/ Breaks(s) \/ KillSweep(s) \/ IdleSweep(s) \/ Elapse(s)
         \/ \E m \in {"off", "on", "on_demand"} : setServiceMode(s, m)

Spec == Init /\ [][Next]_vars

\* The supervisor looks for pending rows every second, its children run, another operation ends, the sweep comes
\* every ten seconds, and the service manager restarts the supervisor.
Fairness ==
    /\ \A s \in Services : WF_vars(Apply(s)) /\ WF_vars(KillSweep(s))
    /\ WF_vars(OtherEnds) /\ WF_vars(SupervisorStarts)
FairSpec == Spec /\ Fairness

--------------------------------------------------------------------------------
(* Properties.                                                                 *)

RowStates == {"off", "on", "pending", "failed"}
TypeOK ==
    /\ row \in [Services -> [desired : {"off", "on"}, state : RowStates, by : {"user", "wake", "idle", "kill"}]]
    /\ mode \in [Services -> {"off", "on", "on_demand"}] /\ wakes \in [Services -> 0..WakesPerHour]
    /\ {killed, young, sup, other} \subseteq BOOLEAN
    /\ \A f \in {recent, calm, known, box, entry, calledOff} : f \in [Services -> BOOLEAN]
    /\ req \in [Requests -> [at : {None, "held", "go", "use"}, service : Services \cup {None}, let : BOOLEAN]]
    /\ \A i \in DOMAIN queue : queue[i] \in [service : Services, asked : BOOLEAN]
    /\ child \in [Services -> [at : {None, "asked", "read", "run", "changed", "published", "broke"},
                               want : {None, "off", "on"}, by : {None, "user", "wake", "idle", "kill"}]]

\* A stop for idleness cuts off nobody whom ensure let in: it was asked for when nobody was there, and is carried
\* out when still nobody is.  A sleep of Edge Functions that was called off while the supervisor was at it is the
\* exception (CalledOffKeepsServing).
NobodyIsCutOff ==
    [][\A s \in Services :
        Stops(s) /\ child'[s].at = "changed" /\ child[s].by = "idle" /\ ~calledOff[s] =>
            \A r \in InUse(s) : ~req[r].let]_vars

\* The row and the host agree whenever nothing is being applied: on means the container runs and the endpoints name
\* it, off means neither is there.  Left out: a sleep that was called off while the supervisor was at it
\* (CalledOffKeepsServing), and what a person reads before the supervisor that died is back.
RowTellsTruth ==
    \A s \in Services :
        sup /\ child[s] = NoChild /\ ~calledOff[s] =>
            /\ row[s].state = "on" => entry[s] /\ box[s]
            /\ row[s].state = "off" => ~entry[s] /\ ~box[s]

\* With the kill switch on for good, a service saved as On demand runs, or its start was refused or failed in words,
\* whatever was asked for, half applied or asleep before (docs/guides/services.md: behaves as On while it is set).
KillSwitchMeansOn ==
    \A s \in Services :
        <>[](killed /\ mode[s] = "on_demand") =>
            <>[](Up(s) \/ row[s].state = "failed" \/ calledOff[s])

\* src/control/catalog.ts:1366-1367: a stop is called off "so a service that is running is not stopped and started
\* again for the one who is waiting": the request for which it was called off is not cut off.
CalledOffKeepsServing ==
    [][\A s \in Services :
        child[s].at = "run" /\ child'[s].at = "changed" /\ calledOff[s] => \A r \in InUse(s) : ~req[r].let]_vars
================================================================================
