--------------------------- MODULE WritePauseProofs ---------------------------
(***************************************************************************)
(* WritePause for any read time of a body, any longer window and any bounds.*)
(*                                                                         *)
(* HeldIsQuiet speaks of one moment, but what makes the environment quiet   *)
(* was done many steps before it, each under a lock something else waits    *)
(* for.  IInv adds whose maintenance it is (RoutingInv), that a request the *)
(* gateway read before is older than the window (AgeInv), and what is       *)
(* already closed at each step of a pause (PauseInv) and open again at each *)
(* step of a resume (ResumeInv).                                            *)
(***************************************************************************)
EXTENDS WritePause, TLAPS

RoutedSteps == {"studio", "logins", "sessions", "window", "stop", "drain", "start", "hold"}
PauseSteps == {"intent", "route", "answered", "readBack"} \cup RoutedSteps
ResumeSteps == {"writers", "route", "developer", "cron", "unlink"}
Settings == {"developer", "cron", "functions"}

Routings == [revision : Nat, maintenance : BOOLEAN, by : {None, "pause", "other"}]
Records == [phase : {None, "pausing", "held", "resuming"}, intent : Nat, revision : Nat, routed : BOOLEAN]
GateType ==
  /\ routing \in Routings
  /\ routing.by # None <=> routing.maintenance
  /\ record \in Records
  /\ record.phase = None => record = NoRecord
  /\ record.intent = 0 \/ (record.revision = 0 /\ ~ record.routed)
ProcType ==
  /\ proc \in [kind : {None, "pause", "resume"}, at : PauseSteps \cup ResumeSteps \cup {None, "lock", "read"},
               held : BOOLEAN, failed : BOOLEAN]
  /\ proc.at = None => proc = Nobody
  /\ proc.kind = None => proc.at = None
  /\ proc.kind = "pause" => proc.at \in PauseSteps \cup {"lock", "read"}
  /\ proc.kind = "resume" => proc.at \in ResumeSteps \cup {"lock", "read"}
WorldType ==
  /\ age \in 0..Window /\ logins \subseteq Logins /\ sessions \subseteq Logins
  /\ services \in BOOLEAN /\ functions \in BOOLEAN
  /\ request \in [stage : {None, "gateway", "service", "database"}, life : 0..BodyRead]
  /\ request.stage = None => request = NoRequest
  /\ studio \in {"down", "checked", "opening", "up"} /\ access \in {None, "writing", "written"}
  /\ settings \in [Settings -> BOOLEAN]
  /\ counts \in [CountNames -> Nat]
TypeInv == GateType /\ ProcType /\ WorldType

\* The maintenance the record names is the pause's own.
RoutingInv ==
  /\ record.revision <= routing.revision
  /\ Owned => routing.by = "pause"

\* A request the gateway read before the maintenance has that much less time left.
Expires == request.stage = "gateway" => age + request.life <= BodyRead
AgeInv == Owned /\ record.routed => Expires

\* A login that is on is one whose setting is on: none is left on when a setting goes.
LoginsInv == \A l \in {"developer", "cron"} : l \in logins => settings[l]

PauseInv ==
  /\ proc.at \notin {None, "lock"} => ~ StudioHoldsLock
  /\ proc.kind = "pause" =>
       /\ proc.at \in PauseSteps => record.phase = "pausing"
       /\ proc.at \in {"intent", "route"} => ~ routing.maintenance
       /\ proc.at = "route" => record.intent = routing.revision + 1
       /\ proc.at = "answered" => record.intent # 0 /\ record.intent = routing.revision /\ routing.by = "pause"
       /\ proc.at = "readBack" => record.intent # 0
                                  /\ (routing.maintenance => record.intent = routing.revision /\ routing.by = "pause")
       /\ proc.at \in RoutedSteps => Owned /\ record.intent = 0
       /\ proc.at \in RoutedSteps \ {"studio"} => studio = "down"
       /\ proc.at \in RoutedSteps \ {"studio", "logins"} => logins = {}
       /\ proc.at \in RoutedSteps \ {"studio", "logins", "sessions"} => sessions = {}
       /\ proc.at = "window" => Expires
       /\ proc.at \in {"stop", "drain", "start", "hold"} => request.stage # "gateway"
       /\ proc.at \in {"drain", "hold"} \/ (proc.at = "start" /\ ~ proc.failed) => ~ functions /\ request.stage # "service"
       /\ proc.at = "hold" \/ (proc.at = "start" /\ ~ proc.failed) => request = NoRequest
       /\ proc.at = "hold" => services

ResumeInv ==
  proc.kind = "resume" =>
    /\ proc.at \in ResumeSteps => record.phase = "resuming"
    /\ proc.at \in {"writers", "route"} /\ routing.maintenance => Owned
    /\ proc.at = "writers" /\ proc.held => services
    /\ proc.at \in ResumeSteps \ {"writers"} => services /\ functions = settings.functions
    /\ proc.at \in {"developer", "cron", "unlink"} => ~ routing.maintenance
    /\ proc.at \in {"cron", "unlink"} /\ settings["developer"] => "developer" \in logins
    /\ proc.at = "unlink" /\ settings["cron"] => "cron" \in logins

HeldInv == record.phase = "held" => Owned /\ record.intent = 0 /\ services

IInv ==
  /\ TypeInv /\ RoutingInv /\ AgeInv /\ LoginsInv /\ PauseInv /\ ResumeInv /\ HeldInv
  /\ HeldIsQuiet /\ RecordGoesLast

-------------------------------------------------------------------------------
(* Every step keeps IInv. *)

LEMMA InitHolds == ASSUME Init PROVE IInv
<1>1. TypeInv
  BY BoundsAssumption DEF Init, TypeInv, GateType, ProcType, WorldType, Routings, Records, None, NoRecord,
     Nobody, NoRequest, Logins, Settings
<1>2. RoutingInv /\ AgeInv /\ LoginsInv /\ HeldInv /\ HeldIsQuiet /\ RecordGoesLast
  BY DEF Init, RoutingInv, Owned, AgeInv, LoginsInv, HeldInv, HeldIsQuiet, RecordGoesLast, NoRecord, None
<1>3. PauseInv /\ ResumeInv
  BY DEF Init, PauseInv, ResumeInv, Nobody, None
<1> QED
  BY <1>1, <1>2, <1>3 DEF IInv

\* What the writes of a record and of the routing row keep.
LEMMA RecordTypes ==
  ASSUME NEW r \in Records, NEW i \in Nat, NEW v \in Nat, NEW b \in BOOLEAN
  PROVE  /\ [r EXCEPT !.intent = i] \in Records
         /\ [r EXCEPT !.intent = i, !.revision = v] \in Records
         /\ [r EXCEPT !.intent = i, !.revision = v, !.routed = b] \in Records
         /\ [r EXCEPT !.intent = i, !.routed = b, !.revision = v] \in Records
BY DEF Records

LEMMA RoutingTypes ==
  ASSUME routing \in Routings
  PROVE  /\ \A by \in {"pause", "other"} : Paused(by) \in Routings /\ Paused(by).by = by /\ Paused(by).maintenance
         /\ Released \in Routings /\ Released.by = None /\ ~ Released.maintenance
BY DEF Routings, Paused, Released, None

LEMMA CommandKeeps == ASSUME IInv, NEW kind \in {"pause", "resume"}, Command(kind) PROVE IInv'
<1>1. GateType' /\ RoutingInv' /\ AgeInv' /\ LoginsInv' /\ HeldInv' /\ HeldIsQuiet' /\ RecordGoesLast'
  BY DEF IInv, Command, gate, world, TypeInv, GateType, RoutingInv, Owned, AgeInv, Expires, LoginsInv,
     HeldInv, HeldIsQuiet, RecordGoesLast
<1>2. ProcType'
  BY BoundsAssumption, WindowAssumption DEF IInv, TypeInv, GateType, ProcType, WorldType, Command, gate,
     world, OperationFree, Count, Routings, Records, None, NoRecord, Nobody, NoRequest, Logins, Settings,
     CountNames, PauseSteps, RoutedSteps, ResumeSteps
<1>3. WorldType'
  BY DEF IInv, TypeInv, WorldType, Command, world, Count
<1>4. PauseInv'
  BY DEF IInv, TypeInv, PauseInv, Command, PauseSteps, RoutedSteps
<1>5. ResumeInv'
  BY DEF IInv, TypeInv, ResumeInv, Command, ResumeSteps
<1> QED
  BY <1>1, <1>2, <1>3, <1>4, <1>5 DEF IInv, TypeInv

LEMMA AdoptKeeps == ASSUME IInv, Adopt PROVE IInv'
<1>1. WorldType' /\ LoginsInv'
  BY DEF IInv, Adopt, world, TypeInv, WorldType, LoginsInv
<1>2. GateType'
  <2>1. routing' \in Routings /\ (routing'.by # None <=> routing'.maintenance)
    BY DEF IInv, TypeInv, GateType, Adopt
  <2>2. record' \in Records
    <3>1. record \in Records /\ record.intent \in Nat /\ record.revision \in Nat
      BY DEF IInv, TypeInv, GateType, Records
    <3> QED
      BY <3>1, RecordTypes DEF Adopt
  <2>3. (record'.phase = None => record' = NoRecord) /\ (record'.intent = 0 \/ (record'.revision = 0 /\ ~ record'.routed))
    BY DEF IInv, TypeInv, GateType, Adopt, None, NoRecord
  <2> QED
    BY <2>1, <2>2, <2>3 DEF GateType
<1>3. ProcType'
  BY BoundsAssumption, WindowAssumption DEF IInv, TypeInv, GateType, ProcType, WorldType, Adopt, world,
     OperationFree, StudioHoldsLock, Routings, Records, None, NoRecord, Nobody, NoRequest, Logins, Settings,
     CountNames, PauseSteps, RoutedSteps, ResumeSteps
<1>4. RoutingInv'
  BY DEF IInv, TypeInv, GateType, RoutingInv, Owned, Adopt, Routings
<1>5. AgeInv'
  BY DEF IInv, TypeInv, AgeInv, Adopt
<1>6. PauseInv'
  BY DEF IInv, TypeInv, PauseInv, Adopt, PauseSteps, RoutedSteps
<1>7. ResumeInv'
  BY DEF IInv, TypeInv, ResumeInv, Adopt
<1>8. HeldInv'
  BY DEF IInv, TypeInv, HeldInv, Adopt
<1>9. HeldIsQuiet'
  BY DEF IInv, TypeInv, HeldIsQuiet, HeldInv, Adopt
<1>10. RecordGoesLast'
  BY BoundsAssumption, WindowAssumption DEF IInv, TypeInv, GateType, ProcType, WorldType, RecordGoesLast,
     PauseInv, ResumeInv, Owned, RoutingInv, HeldInv, LoginsInv, Adopt, world, OperationFree,
     StudioHoldsLock, Routings, Records, None, NoRecord, Nobody, NoRequest, Logins, Settings, CountNames,
     PauseSteps, RoutedSteps, ResumeSteps
<1> QED
  BY <1>1, <1>2, <1>3, <1>4, <1>5, <1>6, <1>7, <1>8, <1>9, <1>10 DEF IInv, TypeInv

LEMMA TakeLockKeeps == ASSUME IInv, TakeLock PROVE IInv'
<1>1. GateType' /\ WorldType' /\ RoutingInv' /\ AgeInv' /\ LoginsInv' /\ HeldInv' /\ HeldIsQuiet' /\ RecordGoesLast'
  BY DEF IInv, TakeLock, gate, world, TypeInv, GateType, WorldType, RoutingInv, Owned, AgeInv, Expires,
     LoginsInv, HeldInv, HeldIsQuiet, RecordGoesLast
<1>2. ProcType'
  BY DEF IInv, TypeInv, ProcType, TakeLock, Goes, None
<1>3. PauseInv'
  BY DEF IInv, TypeInv, PauseInv, StudioHoldsLock, TakeLock, world, PauseLockFree, Goes, StudioHoldsLock,
     PauseSteps, RoutedSteps
<1>4. ResumeInv'
  BY DEF IInv, TypeInv, ResumeInv, TakeLock, Goes, ResumeSteps
<1> QED
  BY <1>1, <1>2, <1>3, <1>4 DEF IInv, TypeInv

LEMMA UnsettledKeeps == ASSUME IInv, Unsettled PROVE IInv'
<1>1. WorldType' /\ LoginsInv'
  BY DEF IInv, Unsettled, world, TypeInv, WorldType, LoginsInv
<1>2. GateType'
  BY DEF IInv, TypeInv, GateType, Unsettled, Records, NoRecord
<1>3. ProcType'
  <2>1. CASE Ends
    BY <2>1 DEF IInv, TypeInv, ProcType, Ends, None, Nobody
  <2>2. CASE UNCHANGED proc
    BY <2>2 DEF IInv, TypeInv, ProcType
  <2> QED
    BY <2>1, <2>2 DEF Unsettled
<1>4. RoutingInv'
  BY DEF IInv, TypeInv, GateType, RoutingInv, Owned, Unsettled, Records
<1>5. AgeInv'
  BY DEF IInv, TypeInv, GateType, AgeInv, Unsettled, Records
<1>6. PauseInv'
  BY DEF IInv, TypeInv, GateType, PauseInv, StudioHoldsLock, Unsettled, world, Ends, Records, None, Nobody
<1>7. ResumeInv'
  BY DEF IInv, TypeInv, GateType, ResumeInv, Unsettled, world, Ends, Records, None, Nobody
<1>8. HeldInv'
  BY DEF IInv, TypeInv, GateType, HeldInv, Unsettled, Records
<1>9. HeldIsQuiet'
  BY DEF IInv, TypeInv, GateType, HeldIsQuiet, HeldInv, Unsettled, Records
<1>10. RecordGoesLast'
  BY DEF IInv, TypeInv, GateType, RecordGoesLast, Unsettled, NoRecord
<1> QED
  BY <1>1, <1>2, <1>3, <1>4, <1>5, <1>6, <1>7, <1>8, <1>9, <1>10 DEF IInv, TypeInv

LEMMA RefusesKeeps == ASSUME IInv, Refuses PROVE IInv'
<1>1. GateType' /\ WorldType' /\ RoutingInv' /\ AgeInv' /\ LoginsInv' /\ HeldInv' /\ HeldIsQuiet' /\ RecordGoesLast'
  BY DEF IInv, Refuses, gate, world, TypeInv, GateType, WorldType, RoutingInv, Owned, AgeInv, Expires,
     LoginsInv, HeldInv, HeldIsQuiet, RecordGoesLast
<1>2. ProcType'
  BY DEF IInv, TypeInv, ProcType, Refuses, Ends, None, Nobody
<1>3. PauseInv'
  BY DEF IInv, TypeInv, PauseInv, Refuses, Ends, None, Nobody
<1>4. ResumeInv'
  BY DEF IInv, TypeInv, ResumeInv, Refuses, Ends, None, Nobody
<1> QED
  BY <1>1, <1>2, <1>3, <1>4 DEF IInv, TypeInv

LEMMA PauseBeginsKeeps == ASSUME IInv, PauseBegins PROVE IInv'
<1>1. WorldType' /\ LoginsInv'
  BY DEF IInv, PauseBegins, world, TypeInv, WorldType, LoginsInv
<1>2. GateType'
  BY DEF IInv, TypeInv, GateType, PauseBegins, Records, None
<1>3. ProcType'
  BY DEF IInv, TypeInv, ProcType, PauseBegins, At, Goes, None, PauseSteps, RoutedSteps
<1>4. RoutingInv'
  BY DEF IInv, TypeInv, RoutingInv, Owned, PauseBegins
<1>5. AgeInv'
  BY DEF IInv, TypeInv, AgeInv, Owned, Expires, PauseBegins, world
<1>6. PauseInv'
  BY DEF IInv, TypeInv, PauseInv, Owned, StudioHoldsLock, PauseBegins, world, At, Goes, None, RoutedSteps
<1>7. ResumeInv'
  BY DEF IInv, TypeInv, ResumeInv, PauseBegins, At, Goes
<1>8. HeldInv'
  BY DEF IInv, TypeInv, HeldInv, PauseBegins
<1>9. HeldIsQuiet'
  BY DEF IInv, TypeInv, HeldIsQuiet, PauseBegins
<1>10. RecordGoesLast'
  BY DEF IInv, TypeInv, RecordGoesLast, PauseBegins, None, NoRecord
<1> QED
  BY <1>1, <1>2, <1>3, <1>4, <1>5, <1>6, <1>7, <1>8, <1>9, <1>10 DEF IInv, TypeInv

LEMMA WriteIntentKeeps == ASSUME IInv, WriteIntent PROVE IInv'
<1>1. WorldType' /\ LoginsInv'
  BY DEF IInv, WriteIntent, world, TypeInv, WorldType, LoginsInv
<1>2. GateType'
  <2>1. routing' \in Routings /\ (routing'.by # None <=> routing'.maintenance)
    BY DEF IInv, TypeInv, GateType, WriteIntent
  <2>2. record' \in Records
    <3>1. record \in Records /\ routing.revision + 1 \in Nat
      BY DEF IInv, TypeInv, GateType, Routings
    <3> QED
      BY <3>1, RecordTypes DEF WriteIntent
  <2>3. (record'.phase = None => record' = NoRecord) /\ (record'.intent = 0 \/ (record'.revision = 0 /\ ~ record'.routed))
    BY DEF IInv, TypeInv, PauseInv, WriteIntent, At, PauseSteps, None, NoRecord
  <2> QED
    BY <2>1, <2>2, <2>3 DEF GateType
<1>3. ProcType'
  BY DEF IInv, TypeInv, ProcType, WriteIntent, At, Goes, None, PauseSteps
<1>4. RoutingInv'
  BY DEF IInv, TypeInv, GateType, RoutingInv, Owned, WriteIntent, Routings
<1>5. AgeInv'
  BY DEF IInv, TypeInv, AgeInv, WriteIntent
<1>6. PauseInv'
  BY DEF IInv, TypeInv, ProcType, PauseInv, StudioHoldsLock, WriteIntent, world, At, Goes, None, RoutedSteps
<1>7. ResumeInv'
  BY DEF IInv, TypeInv, ResumeInv, WriteIntent, At, Goes
<1>8. HeldInv'
  BY DEF IInv, TypeInv, ProcType, HeldInv, PauseInv, WriteIntent, At
<1>9. HeldIsQuiet'
  BY DEF IInv, TypeInv, HeldIsQuiet, WriteIntent, world
<1>10. RecordGoesLast'
  BY BoundsAssumption, WindowAssumption DEF IInv, TypeInv, GateType, ProcType, WorldType, RecordGoesLast,
     PauseInv, ResumeInv, Owned, RoutingInv, HeldInv, LoginsInv, WriteIntent, world, At, Goes, Routings,
     Records, None, NoRecord, Nobody, NoRequest, Logins, Settings, CountNames, PauseSteps, RoutedSteps,
     ResumeSteps
<1> QED
  BY <1>1, <1>2, <1>3, <1>4, <1>5, <1>6, <1>7, <1>8, <1>9, <1>10 DEF IInv, TypeInv

LEMMA RouteKeeps == ASSUME IInv, Route PROVE IInv'
<1>1. LoginsInv'
  BY DEF IInv, Route, world, LoginsInv
<1>2. GateType'
  <2>1. (routing' = Paused("pause") \/ routing' = routing) /\ UNCHANGED record
    BY DEF Route
  <2>2. routing' \in Routings /\ (routing'.by # None <=> routing'.maintenance)
    BY <2>1, RoutingTypes DEF IInv, TypeInv, GateType, None
  <2> QED
    BY <2>1, <2>2 DEF IInv, TypeInv, GateType
<1>3. ProcType'
  BY DEF IInv, TypeInv, ProcType, Route, At, Goes, None, PauseSteps
<1>4. WorldType'
  BY DEF IInv, TypeInv, WorldType, Route, world, Count
<1>5. RoutingInv'
  BY DEF IInv, TypeInv, GateType, RoutingInv, Owned, PauseInv, Route, At, Paused, Routings
<1>6. AgeInv'
  BY DEF IInv, TypeInv, GateType, ProcType, AgeInv, Owned, PauseInv, RoutingInv, Route, At, Paused
<1>7. PauseInv'
  BY DEF IInv, TypeInv, GateType, ProcType, PauseInv, StudioHoldsLock, Route, world, At, Goes, Paused,
     Routings, None, RoutedSteps
<1>8. ResumeInv'
  BY DEF IInv, TypeInv, ProcType, ResumeInv, Route, At, Goes
<1>9. HeldInv'
  BY DEF IInv, TypeInv, ProcType, HeldInv, PauseInv, Route, At
<1>10. HeldIsQuiet'
  BY DEF IInv, TypeInv, HeldIsQuiet, PauseInv, Route, At
<1>11. RecordGoesLast'
  BY DEF IInv, TypeInv, GateType, RecordGoesLast, PauseInv, Route, At, Routings, NoRecord
<1> QED
  BY <1>1, <1>2, <1>3, <1>4, <1>5, <1>6, <1>7, <1>8, <1>9, <1>10, <1>11 DEF IInv, TypeInv

LEMMA AnsweredKeeps == ASSUME IInv, Answered PROVE IInv'
<1>1. LoginsInv'
  BY DEF IInv, Answered, world, LoginsInv
<1>2. GateType'
  <2>1. routing' \in Routings /\ (routing'.by # None <=> routing'.maintenance)
    BY DEF IInv, TypeInv, GateType, Answered
  <2>2. record' \in Records
    <3>1. record \in Records /\ record.intent \in Nat
      BY DEF IInv, TypeInv, GateType, Records
    <3> QED
      BY <3>1, RecordTypes DEF Answered
  <2>3. (record'.phase = None => record' = NoRecord) /\ (record'.intent = 0 \/ (record'.revision = 0 /\ ~ record'.routed))
    BY DEF IInv, TypeInv, GateType, PauseInv, Answered, At, None, NoRecord
  <2> QED
    BY <2>1, <2>2, <2>3 DEF GateType
<1>3. ProcType'
  BY DEF IInv, TypeInv, ProcType, Answered, At, Goes, None, PauseSteps, RoutedSteps
<1>4. WorldType'
  BY BoundsAssumption DEF IInv, TypeInv, WorldType, Answered, world
<1>5. RoutingInv'
  BY DEF IInv, TypeInv, GateType, RoutingInv, PauseInv, Answered, At, Routings
<1>6. AgeInv'
  BY DEF IInv, TypeInv, WorldType, AgeInv, Expires, Answered, world
<1>7. PauseInv'
  BY DEF IInv, TypeInv, ProcType, PauseInv, Owned, StudioHoldsLock, Answered, world, At, Goes, None
<1>8. ResumeInv'
  BY DEF IInv, TypeInv, ResumeInv, Answered, At, Goes
<1>9. HeldInv'
  BY DEF IInv, TypeInv, HeldInv, PauseInv, Answered, At
<1>10. HeldIsQuiet'
  BY DEF IInv, TypeInv, HeldIsQuiet, Answered, world
<1>11. RecordGoesLast'
  BY BoundsAssumption, WindowAssumption DEF IInv, TypeInv, GateType, ProcType, WorldType, RecordGoesLast,
     PauseInv, ResumeInv, Owned, RoutingInv, HeldInv, LoginsInv, Answered, world, At, Goes, Routings,
     Records, None, NoRecord, Nobody, NoRequest, Logins, Settings, CountNames, PauseSteps, RoutedSteps,
     ResumeSteps
<1> QED
  BY <1>1, <1>2, <1>3, <1>4, <1>5, <1>6, <1>7, <1>8, <1>9, <1>10, <1>11 DEF IInv, TypeInv

LEMMA ReadBackKeeps == ASSUME IInv, ReadBack PROVE IInv'
<1>1. WorldType' /\ LoginsInv'
  BY DEF IInv, ReadBack, world, TypeInv, WorldType, LoginsInv
<1>2. GateType'
  <2>1. routing' \in Routings /\ (routing'.by # None <=> routing'.maintenance)
    BY DEF IInv, TypeInv, GateType, ReadBack
  <2>2. record' \in Records
    <3>1. record \in Records /\ record.intent \in Nat
      BY DEF IInv, TypeInv, GateType, Records
    <3>2. [record EXCEPT !.intent = 0] \in Records /\ [record EXCEPT !.intent = 0, !.revision = record.intent] \in Records
      BY <3>1, RecordTypes
    <3> QED
      BY <3>2 DEF ReadBack
  <2>3. (record'.phase = None => record' = NoRecord) /\ (record'.intent = 0 \/ (record'.revision = 0 /\ ~ record'.routed))
    BY <2>2 DEF IInv, TypeInv, GateType, PauseInv, ResumeInv, ReadBack, At, Owned, PauseSteps,
       RoutedSteps, ResumeSteps, Records, None, NoRecord
  <2> QED
    BY <2>1, <2>2, <2>3 DEF GateType
<1>3. ProcType'
  <2>1. CASE routing.maintenance /\ routing.revision = record.intent
    <3>1. record' = [record EXCEPT !.intent = 0, !.revision = record.intent] /\ proc' = [proc EXCEPT !.at = "studio"] /\ UNCHANGED <<routing, age, world>> /\ proc.kind = "pause" /\ proc.at = "readBack"
      BY <2>1 DEF ReadBack, At, Goes
    <3> QED
      BY <3>1 DEF IInv, TypeInv, ProcType, None, PauseSteps, RoutedSteps
  <2>2. CASE ~ (routing.maintenance /\ routing.revision = record.intent)
    <3>1. record' = [record EXCEPT !.intent = 0] /\ proc' = Nobody /\ UNCHANGED <<routing, age, world>> /\ proc.kind = "pause" /\ proc.at = "readBack"
      BY <2>2 DEF ReadBack, At, Ends
    <3> QED
      BY <3>1 DEF IInv, TypeInv, ProcType, None, Nobody
  <2> QED
    BY <2>1, <2>2
<1>4. RoutingInv'
  <2>1. CASE routing.maintenance /\ routing.revision = record.intent
    <3>1. record' = [record EXCEPT !.intent = 0, !.revision = record.intent] /\ proc' = [proc EXCEPT !.at = "studio"] /\ UNCHANGED <<routing, age, world>> /\ proc.kind = "pause" /\ proc.at = "readBack"
      BY <2>1 DEF ReadBack, At, Goes
    <3> QED
      BY <2>1, <3>1 DEF IInv, TypeInv, GateType, RoutingInv, PauseInv, Routings
  <2>2. CASE ~ (routing.maintenance /\ routing.revision = record.intent)
    <3>1. record' = [record EXCEPT !.intent = 0] /\ proc' = Nobody /\ UNCHANGED <<routing, age, world>> /\ proc.kind = "pause" /\ proc.at = "readBack"
      BY <2>2 DEF ReadBack, At, Ends
    <3> QED
      BY <3>1 DEF IInv, TypeInv, RoutingInv, Owned
  <2> QED
    BY <2>1, <2>2
<1>5. AgeInv'
  <2>1. CASE routing.maintenance /\ routing.revision = record.intent
    <3>1. record' = [record EXCEPT !.intent = 0, !.revision = record.intent] /\ proc' = [proc EXCEPT !.at = "studio"] /\ UNCHANGED <<routing, age, world>> /\ proc.kind = "pause" /\ proc.at = "readBack"
      BY <2>1 DEF ReadBack, At, Goes
    <3> QED
      BY <3>1 DEF IInv, TypeInv, GateType, AgeInv, Owned
  <2>2. CASE ~ (routing.maintenance /\ routing.revision = record.intent)
    <3>1. record' = [record EXCEPT !.intent = 0] /\ proc' = Nobody /\ UNCHANGED <<routing, age, world>> /\ proc.kind = "pause" /\ proc.at = "readBack"
      BY <2>2 DEF ReadBack, At, Ends
    <3> QED
      BY <3>1 DEF IInv, TypeInv, GateType, AgeInv, PauseInv
  <2> QED
    BY <2>1, <2>2
<1>6. PauseInv'
  <2>1. CASE routing.maintenance /\ routing.revision = record.intent
    <3>1. record' = [record EXCEPT !.intent = 0, !.revision = record.intent] /\ proc' = [proc EXCEPT !.at = "studio"] /\ UNCHANGED <<routing, age, world>> /\ proc.kind = "pause" /\ proc.at = "readBack"
      BY <2>1 DEF ReadBack, At, Goes
    <3> QED
      BY <2>1, <3>1 DEF IInv, TypeInv, ProcType, PauseInv, Owned, StudioHoldsLock, world, None
  <2>2. CASE ~ (routing.maintenance /\ routing.revision = record.intent)
    <3>1. record' = [record EXCEPT !.intent = 0] /\ proc' = Nobody /\ UNCHANGED <<routing, age, world>> /\ proc.kind = "pause" /\ proc.at = "readBack"
      BY <2>2 DEF ReadBack, At, Ends
    <3> QED
      BY <3>1 DEF IInv, TypeInv, ProcType, PauseInv, Nobody
  <2> QED
    BY <2>1, <2>2
<1>7. ResumeInv'
  BY DEF IInv, TypeInv, ProcType, ResumeInv, ReadBack, At, Goes, Ends, None, Nobody
<1>8. HeldInv'
  BY BoundsAssumption, WindowAssumption DEF IInv, TypeInv, GateType, ProcType, WorldType, HeldInv, Owned,
     PauseInv, ResumeInv, RoutingInv, LoginsInv, ReadBack, world, At, Goes, Ends, Routings, Records, None,
     NoRecord, Nobody, NoRequest, Logins, Settings, CountNames, PauseSteps, RoutedSteps, ResumeSteps
<1>9. HeldIsQuiet'
  BY BoundsAssumption, WindowAssumption DEF IInv, TypeInv, GateType, ProcType, WorldType, HeldIsQuiet,
     PauseInv, ResumeInv, Owned, RoutingInv, HeldInv, LoginsInv, ReadBack, world, At, Goes, Ends, Routings,
     Records, None, NoRecord, Nobody, NoRequest, Logins, Settings, CountNames, PauseSteps, RoutedSteps,
     ResumeSteps
<1>10. RecordGoesLast'
  <2>1. CASE routing.maintenance /\ routing.revision = record.intent
    <3>1. record' = [record EXCEPT !.intent = 0, !.revision = record.intent] /\ proc' = [proc EXCEPT !.at = "studio"] /\ UNCHANGED <<routing, age, world>> /\ proc.kind = "pause" /\ proc.at = "readBack"
      BY <2>1 DEF ReadBack, At, Goes
    <3> QED
      BY <2>1, <3>1, BoundsAssumption, WindowAssumption DEF IInv, TypeInv, GateType, ProcType,
         WorldType, RecordGoesLast, PauseInv, ResumeInv, Owned, RoutingInv, HeldInv, LoginsInv, world,
         Routings, Records, None, NoRecord, Nobody, NoRequest, Logins, Settings, CountNames, PauseSteps,
         RoutedSteps, ResumeSteps
  <2>2. CASE ~ (routing.maintenance /\ routing.revision = record.intent)
    <3>1. record' = [record EXCEPT !.intent = 0] /\ proc' = Nobody /\ UNCHANGED <<routing, age, world>> /\ proc.kind = "pause" /\ proc.at = "readBack"
      BY <2>2 DEF ReadBack, At, Ends
    <3> QED
      BY <3>1 DEF IInv, TypeInv, GateType, RecordGoesLast, PauseInv, NoRecord
  <2> QED
    BY <2>1, <2>2
<1> QED
  BY <1>1, <1>2, <1>3, <1>4, <1>5, <1>6, <1>7, <1>8, <1>9, <1>10 DEF IInv, TypeInv

LEMMA StopStudioKeeps == ASSUME IInv, StopStudio PROVE IInv'
<1>1. GateType' /\ RoutingInv' /\ AgeInv' /\ HeldInv'
  BY DEF IInv, StopStudio, gate, TypeInv, GateType, RoutingInv, Owned, AgeInv, Expires, HeldInv
<1>2. ProcType'
  BY DEF IInv, TypeInv, ProcType, StopStudio, At, Goes, None, PauseSteps, RoutedSteps
<1>3. WorldType'
  BY DEF IInv, TypeInv, WorldType, StopStudio
<1>4. LoginsInv'
  BY DEF IInv, TypeInv, LoginsInv, StopStudio
<1>5. PauseInv'
  BY DEF IInv, TypeInv, ProcType, PauseInv, Owned, StudioHoldsLock, StopStudio, gate, At, Goes, None,
     PauseSteps
<1>6. ResumeInv'
  BY DEF IInv, TypeInv, ResumeInv, StopStudio, At, Goes
<1>7. HeldIsQuiet'
  BY DEF IInv, TypeInv, HeldIsQuiet, StopStudio, gate
<1>8. RecordGoesLast'
  BY DEF IInv, TypeInv, RecordGoesLast, StopStudio, gate
<1> QED
  BY <1>1, <1>2, <1>3, <1>4, <1>5, <1>6, <1>7, <1>8 DEF IInv, TypeInv

LEMMA CloseLoginsKeeps == ASSUME IInv, CloseLogins PROVE IInv'
<1>1. GateType' /\ RoutingInv' /\ AgeInv' /\ HeldInv'
  BY DEF IInv, CloseLogins, gate, TypeInv, GateType, RoutingInv, Owned, AgeInv, Expires, HeldInv
<1>2. ProcType'
  BY DEF IInv, TypeInv, ProcType, CloseLogins, At, Goes, None, PauseSteps, RoutedSteps
<1>3. WorldType'
  BY DEF IInv, TypeInv, WorldType, CloseLogins
<1>4. LoginsInv'
  BY DEF IInv, TypeInv, LoginsInv, CloseLogins
<1>5. PauseInv'
  BY DEF IInv, TypeInv, ProcType, PauseInv, Owned, StudioHoldsLock, CloseLogins, gate, At, Goes, PauseSteps
<1>6. ResumeInv'
  BY DEF IInv, TypeInv, ResumeInv, CloseLogins, At, Goes
<1>7. HeldIsQuiet'
  BY DEF IInv, TypeInv, HeldIsQuiet, CloseLogins, gate
<1>8. RecordGoesLast'
  BY DEF IInv, TypeInv, ProcType, RecordGoesLast, PauseInv, CloseLogins, gate, At, None, NoRecord
<1> QED
  BY <1>1, <1>2, <1>3, <1>4, <1>5, <1>6, <1>7, <1>8 DEF IInv, TypeInv

LEMMA EndSessionsKeeps == ASSUME IInv, EndSessions PROVE IInv'
<1>1. GateType' /\ RoutingInv' /\ LoginsInv' /\ HeldInv' /\ RecordGoesLast'
  BY DEF IInv, EndSessions, gate, TypeInv, GateType, RoutingInv, Owned, LoginsInv, HeldInv, RecordGoesLast
<1>2. ProcType'
  BY DEF IInv, TypeInv, ProcType, EndSessions, At, Goes, None, PauseSteps, RoutedSteps
<1>3. WorldType'
  BY BoundsAssumption DEF IInv, TypeInv, WorldType, EndSessions
<1>4. AgeInv'
  BY DEF IInv, TypeInv, AgeInv, Owned, Expires, EndSessions, gate
<1>5. PauseInv'
  <2>1. proc'.at = "window" => Expires'
    <3>1. CASE record.routed
      BY <3>1 DEF IInv, AgeInv, Expires, PauseInv, EndSessions, At, RoutedSteps
    <3>2. CASE ~ record.routed
      BY <3>2 DEF IInv, TypeInv, WorldType, Expires, EndSessions
    <3> QED
      BY <3>1, <3>2
  <2> QED
    BY <2>1 DEF IInv, TypeInv, ProcType, PauseInv, EndSessions, gate, At, Goes, Owned, StudioHoldsLock,
       PauseSteps
<1>6. ResumeInv'
  BY DEF IInv, TypeInv, ResumeInv, EndSessions, At, Goes
<1>7. HeldIsQuiet'
  BY DEF IInv, TypeInv, HeldIsQuiet, EndSessions, gate
<1> QED
  BY <1>1, <1>2, <1>3, <1>4, <1>5, <1>6, <1>7 DEF IInv, TypeInv

LEMMA WaitsKeeps == ASSUME IInv, Waits PROVE IInv'
<1>1. GateType' /\ WorldType' /\ RoutingInv' /\ AgeInv' /\ LoginsInv' /\ HeldInv' /\ HeldIsQuiet' /\ RecordGoesLast'
  BY DEF IInv, Waits, gate, world, TypeInv, GateType, WorldType, RoutingInv, Owned, AgeInv, Expires,
     LoginsInv, HeldInv, HeldIsQuiet, RecordGoesLast
<1>2. ProcType'
  BY DEF IInv, TypeInv, ProcType, Waits, At, Goes, None, PauseSteps, RoutedSteps
<1>3. PauseInv'
  BY BoundsAssumption, WindowAssumption DEF IInv, TypeInv, ProcType, WorldType, PauseInv, Owned, Expires,
     StudioHoldsLock, Waits, gate, world, At, Goes, PauseSteps
<1>4. ResumeInv'
  BY DEF IInv, TypeInv, ResumeInv, Waits, At, Goes
<1> QED
  BY <1>1, <1>2, <1>3, <1>4 DEF IInv, TypeInv

LEMMA StopWritersKeeps == ASSUME IInv, StopWriters PROVE IInv'
<1>1. GateType' /\ RoutingInv' /\ LoginsInv'
  BY DEF IInv, StopWriters, gate, TypeInv, GateType, RoutingInv, Owned, LoginsInv
<1>2. ProcType'
  BY DEF IInv, TypeInv, ProcType, StopWriters, At, Goes, None, PauseSteps, RoutedSteps
<1>3. WorldType'
  BY BoundsAssumption, WindowAssumption DEF IInv, TypeInv, GateType, ProcType, WorldType, StopWriters, gate,
     At, Goes, Orphaned, Routings, Records, None, NoRecord, Nobody, NoRequest, Logins, Settings, CountNames,
     PauseSteps, RoutedSteps, ResumeSteps
<1>4. AgeInv'
  BY DEF IInv, TypeInv, AgeInv, Owned, Expires, StopWriters, gate, Orphaned
<1>5. PauseInv'
  BY DEF IInv, TypeInv, ProcType, PauseInv, Owned, StudioHoldsLock, StopWriters, gate, At, Goes, Orphaned,
     PauseSteps
<1>6. ResumeInv'
  BY DEF IInv, TypeInv, ResumeInv, StopWriters, At, Goes
<1>7. HeldInv'
  BY DEF IInv, TypeInv, ProcType, HeldInv, PauseInv, StopWriters, gate, At
<1>8. HeldIsQuiet'
  BY DEF IInv, TypeInv, ProcType, HeldIsQuiet, PauseInv, StopWriters, gate, At
<1>9. RecordGoesLast'
  BY DEF IInv, TypeInv, ProcType, RecordGoesLast, PauseInv, StopWriters, gate, At, None, NoRecord
<1> QED
  BY <1>1, <1>2, <1>3, <1>4, <1>5, <1>6, <1>7, <1>8, <1>9 DEF IInv, TypeInv

LEMMA DrainKeeps == ASSUME IInv, Drain PROVE IInv'
<1>1. GateType' /\ RoutingInv' /\ LoginsInv' /\ HeldInv' /\ RecordGoesLast'
  BY DEF IInv, Drain, gate, TypeInv, GateType, RoutingInv, Owned, LoginsInv, HeldInv, RecordGoesLast
<1>2. ProcType'
  BY BoundsAssumption, WindowAssumption DEF IInv, TypeInv, GateType, ProcType, WorldType, Drain, gate, At,
     Goes, Count, Routings, Records, None, NoRecord, Nobody, NoRequest, Logins, Settings, CountNames,
     PauseSteps, RoutedSteps, ResumeSteps
<1>3. WorldType'
  BY BoundsAssumption DEF IInv, TypeInv, WorldType, Drain, Count, NoRequest
<1>4. AgeInv'
  BY DEF IInv, TypeInv, AgeInv, Owned, Expires, Drain, gate, None, NoRequest
<1>5. PauseInv'
  <2>1. CASE request' = (IF request.stage = "database" THEN NoRequest ELSE request) /\ Goes("start")
    BY <2>1 DEF IInv, TypeInv, ProcType, WorldType, PauseInv, Owned, StudioHoldsLock, Drain, gate, At,
       Goes, None, NoRequest, PauseSteps
  <2>2. CASE proc' = [proc EXCEPT !.at = "start", !.failed = TRUE] /\ UNCHANGED request
    BY <2>2 DEF IInv, TypeInv, ProcType, PauseInv, Owned, StudioHoldsLock, Drain, gate, At, PauseSteps
  <2> QED
    BY <2>1, <2>2 DEF Drain
<1>6. ResumeInv'
  <2>1. CASE Goes("start")
    BY <2>1 DEF IInv, TypeInv, ResumeInv, Drain, At, Goes
  <2>2. CASE proc' = [proc EXCEPT !.at = "start", !.failed = TRUE]
    BY <2>2 DEF IInv, TypeInv, ResumeInv, Drain, At
  <2> QED
    BY <2>1, <2>2 DEF Drain
<1>7. HeldIsQuiet'
  BY DEF IInv, TypeInv, HeldIsQuiet, Drain, gate
<1> QED
  BY <1>1, <1>2, <1>3, <1>4, <1>5, <1>6, <1>7 DEF IInv, TypeInv

LEMMA StartWritersKeeps == ASSUME IInv, StartWriters PROVE IInv'
<1>1. GateType' /\ RoutingInv' /\ AgeInv' /\ LoginsInv'
  BY DEF IInv, StartWriters, gate, TypeInv, GateType, RoutingInv, Owned, AgeInv, Expires, LoginsInv
<1>2. ProcType'
  <2>1. CASE Ends
    BY <2>1 DEF IInv, TypeInv, ProcType, Ends, None, Nobody
  <2>2. CASE Goes("hold")
    BY <2>2 DEF IInv, TypeInv, ProcType, StartWriters, At, Goes, None, PauseSteps, RoutedSteps
  <2> QED
    BY <2>1, <2>2 DEF StartWriters
<1>3. WorldType'
  BY DEF IInv, TypeInv, WorldType, StartWriters
<1>4. PauseInv'
  BY DEF IInv, TypeInv, ProcType, PauseInv, Owned, StudioHoldsLock, StartWriters, gate, At, Goes, Ends,
     Nobody, PauseSteps
<1>5. ResumeInv'
  BY DEF IInv, TypeInv, ProcType, ResumeInv, StartWriters, At, Goes, Ends, None, Nobody
<1>6. HeldInv'
  BY DEF IInv, TypeInv, HeldInv, Owned, StartWriters, gate
<1>7. HeldIsQuiet'
  BY DEF IInv, TypeInv, HeldIsQuiet, StartWriters, gate
<1>8. RecordGoesLast'
  BY DEF IInv, TypeInv, RecordGoesLast, StartWriters, gate
<1> QED
  BY <1>1, <1>2, <1>3, <1>4, <1>5, <1>6, <1>7, <1>8 DEF IInv, TypeInv

LEMMA HoldKeeps == ASSUME IInv, Hold PROVE IInv'
<1>1. WorldType' /\ LoginsInv'
  BY DEF IInv, Hold, world, TypeInv, WorldType, LoginsInv
<1>2. GateType'
  BY DEF IInv, TypeInv, GateType, Hold, Records, None
<1>3. ProcType'
  BY DEF IInv, TypeInv, ProcType, Hold, Ends, None, Nobody
<1>4. RoutingInv'
  BY DEF IInv, TypeInv, RoutingInv, Owned, Hold
<1>5. AgeInv'
  BY DEF IInv, TypeInv, AgeInv, Owned, Expires, Hold, world
<1>6. PauseInv'
  BY DEF IInv, TypeInv, ProcType, PauseInv, Hold, At, Ends, Nobody
<1>7. ResumeInv'
  BY DEF IInv, TypeInv, ResumeInv, Hold, Ends, None, Nobody
<1>8. HeldInv'
  BY DEF IInv, TypeInv, ProcType, HeldInv, Owned, PauseInv, Hold, world, At, PauseSteps
<1>9. HeldIsQuiet'
  BY DEF IInv, TypeInv, GateType, ProcType, HeldIsQuiet, PauseInv, RoutingInv, Hold, world, At, PauseSteps
<1>10. RecordGoesLast'
  BY DEF IInv, TypeInv, RecordGoesLast, Hold, None, NoRecord
<1> QED
  BY <1>1, <1>2, <1>3, <1>4, <1>5, <1>6, <1>7, <1>8, <1>9, <1>10 DEF IInv, TypeInv

LEMMA ResumeBeginsKeeps == ASSUME IInv, ResumeBegins PROVE IInv'
<1>1. WorldType' /\ LoginsInv'
  BY DEF IInv, ResumeBegins, world, TypeInv, WorldType, LoginsInv
<1>2. GateType'
  BY DEF IInv, TypeInv, GateType, ResumeBegins, Records, None
<1>3. ProcType'
  BY BoundsAssumption, WindowAssumption DEF IInv, TypeInv, GateType, ProcType, WorldType, ResumeBegins,
     world, At, Routings, Records, None, NoRecord, Nobody, NoRequest, Logins, Settings, CountNames,
     PauseSteps, RoutedSteps, ResumeSteps
<1>4. RoutingInv'
  BY DEF IInv, TypeInv, RoutingInv, Owned, ResumeBegins
<1>5. AgeInv'
  BY DEF IInv, TypeInv, AgeInv, Owned, Expires, ResumeBegins, world
<1>6. PauseInv'
  BY DEF IInv, TypeInv, PauseInv, StudioHoldsLock, ResumeBegins, world, At, None
<1>7. ResumeInv'
  BY DEF IInv, TypeInv, WorldType, ResumeInv, Owned, HeldInv, ResumeBegins, world
<1>8. HeldInv'
  BY DEF IInv, TypeInv, HeldInv, ResumeBegins
<1>9. HeldIsQuiet'
  BY DEF IInv, TypeInv, HeldIsQuiet, ResumeBegins
<1>10. RecordGoesLast'
  BY DEF IInv, TypeInv, RecordGoesLast, ResumeBegins, None, NoRecord
<1> QED
  BY <1>1, <1>2, <1>3, <1>4, <1>5, <1>6, <1>7, <1>8, <1>9, <1>10 DEF IInv, TypeInv

LEMMA ResumeWritersKeeps == ASSUME IInv, ResumeWriters PROVE IInv'
<1>1. GateType' /\ RoutingInv' /\ AgeInv' /\ LoginsInv'
  BY DEF IInv, ResumeWriters, gate, TypeInv, GateType, RoutingInv, Owned, AgeInv, Expires, LoginsInv
<1>2. ProcType'
  BY DEF IInv, TypeInv, ProcType, ResumeWriters, At, Goes, None, ResumeSteps
<1>3. WorldType'
  BY DEF IInv, TypeInv, WorldType, ResumeWriters, Settings
<1>4. PauseInv'
  BY DEF IInv, TypeInv, PauseInv, StudioHoldsLock, ResumeWriters, At, Goes, None
<1>5. ResumeInv'
  BY BoundsAssumption, WindowAssumption DEF IInv, TypeInv, GateType, ProcType, WorldType, ResumeInv, Owned,
     PauseInv, RoutingInv, HeldInv, LoginsInv, ResumeWriters, gate, At, Goes, StartsAll, Routings, Records,
     None, NoRecord, Nobody, NoRequest, Logins, Settings, CountNames, PauseSteps, RoutedSteps, ResumeSteps
<1>6. HeldInv'
  BY DEF IInv, TypeInv, ProcType, HeldInv, ResumeInv, ResumeWriters, gate, At
<1>7. HeldIsQuiet'
  BY DEF IInv, TypeInv, ProcType, HeldIsQuiet, ResumeInv, ResumeWriters, gate, At
<1>8. RecordGoesLast'
  BY DEF IInv, TypeInv, ProcType, RecordGoesLast, ResumeInv, ResumeWriters, gate, At, None, NoRecord
<1> QED
  BY <1>1, <1>2, <1>3, <1>4, <1>5, <1>6, <1>7, <1>8 DEF IInv, TypeInv

LEMMA ResumeRoutingKeeps == ASSUME IInv, ResumeRouting PROVE IInv'
<1>1. LoginsInv'
  BY DEF IInv, ResumeRouting, world, LoginsInv
<1>2. GateType'
  <2>1. routing' \in Routings /\ (routing'.by # None <=> routing'.maintenance)
    BY RoutingTypes DEF IInv, TypeInv, GateType, ResumeRouting, Paused, Released, None
  <2>2. UNCHANGED record
    BY DEF ResumeRouting
  <2> QED
    BY <2>1, <2>2 DEF IInv, TypeInv, GateType
<1>3. ProcType'
  <2>1. CASE Ends
    BY <2>1 DEF IInv, TypeInv, ProcType, Ends, None, Nobody
  <2>2. CASE Goes("developer")
    BY <2>2 DEF IInv, TypeInv, ProcType, ResumeRouting, At, Goes, None, ResumeSteps
  <2> QED
    BY <2>1, <2>2 DEF ResumeRouting
<1>4. WorldType'
  BY DEF IInv, TypeInv, WorldType, ResumeRouting, world, Count
<1>5. RoutingInv'
  BY DEF IInv, TypeInv, GateType, RoutingInv, Owned, ResumeInv, ResumeRouting, At, Released, Routings
<1>6. AgeInv'
  BY DEF IInv, TypeInv, AgeInv, Owned, Expires, ResumeInv, ResumeRouting, world, At
<1>7. PauseInv'
  BY DEF IInv, TypeInv, GateType, ProcType, PauseInv, StudioHoldsLock, ResumeInv, RoutingInv, ResumeRouting,
     world, At, Goes, Ends, Nobody
<1>8. ResumeInv'
  BY DEF IInv, TypeInv, ProcType, ResumeInv, ResumeRouting, world, At, Goes, Ends, Released, Nobody
<1>9. HeldInv'
  BY DEF IInv, TypeInv, ProcType, HeldInv, ResumeInv, ResumeRouting, At
<1>10. HeldIsQuiet'
  BY DEF IInv, TypeInv, ProcType, HeldIsQuiet, ResumeInv, ResumeRouting, At
<1>11. RecordGoesLast'
  BY DEF IInv, TypeInv, RecordGoesLast, ResumeInv, RoutingInv, ResumeRouting, world, At
<1> QED
  BY <1>1, <1>2, <1>3, <1>4, <1>5, <1>6, <1>7, <1>8, <1>9, <1>10, <1>11 DEF IInv, TypeInv

LEMMA ResumeDeveloperKeeps == ASSUME IInv, ResumeDeveloper PROVE IInv'
<1>1. GateType' /\ RoutingInv' /\ AgeInv' /\ HeldInv'
  BY DEF IInv, ResumeDeveloper, gate, TypeInv, GateType, RoutingInv, Owned, AgeInv, Expires, HeldInv
<1>2. ProcType'
  <2>1. CASE Ends
    BY <2>1 DEF IInv, TypeInv, ProcType, Ends, None, Nobody
  <2>2. CASE Goes("cron")
    BY <2>2 DEF IInv, TypeInv, ProcType, ResumeDeveloper, At, Goes, None, ResumeSteps
  <2> QED
    BY <2>1, <2>2 DEF ResumeDeveloper
<1>3. WorldType'
  BY DEF IInv, TypeInv, WorldType, ResumeDeveloper, Goes, Logins
<1>4. LoginsInv'
  BY DEF IInv, TypeInv, LoginsInv, ResumeDeveloper
<1>5. PauseInv'
  BY DEF IInv, TypeInv, ProcType, PauseInv, StudioHoldsLock, ResumeDeveloper, At, Goes, Ends, None, Nobody
<1>6. ResumeInv'
  BY DEF IInv, TypeInv, ProcType, ResumeInv, ResumeDeveloper, gate, At, Goes, Ends, Nobody
<1>7. HeldIsQuiet'
  BY DEF IInv, TypeInv, HeldIsQuiet, ResumeInv, ResumeDeveloper, gate, At
<1>8. RecordGoesLast'
  BY DEF IInv, TypeInv, RecordGoesLast, ResumeDeveloper, gate
<1> QED
  BY <1>1, <1>2, <1>3, <1>4, <1>5, <1>6, <1>7, <1>8 DEF IInv, TypeInv

LEMMA ResumeCronKeeps == ASSUME IInv, ResumeCron PROVE IInv'
<1>1. GateType' /\ RoutingInv' /\ AgeInv' /\ HeldInv'
  BY DEF IInv, ResumeCron, gate, TypeInv, GateType, RoutingInv, Owned, AgeInv, Expires, HeldInv
<1>2. ProcType'
  BY DEF IInv, TypeInv, ProcType, ResumeCron, At, Goes, None, ResumeSteps
<1>3. WorldType'
  BY DEF IInv, TypeInv, WorldType, ResumeCron, Logins
<1>4. LoginsInv'
  BY DEF IInv, TypeInv, LoginsInv, ResumeCron
<1>5. PauseInv'
  BY DEF IInv, TypeInv, PauseInv, StudioHoldsLock, ResumeCron, At, Goes, None
<1>6. ResumeInv'
  BY DEF IInv, TypeInv, ProcType, ResumeInv, ResumeCron, gate, At
<1>7. HeldIsQuiet'
  BY DEF IInv, TypeInv, HeldIsQuiet, ResumeInv, ResumeCron, gate, At
<1>8. RecordGoesLast'
  BY DEF IInv, TypeInv, RecordGoesLast, ResumeCron, gate
<1> QED
  BY <1>1, <1>2, <1>3, <1>4, <1>5, <1>6, <1>7, <1>8 DEF IInv, TypeInv

LEMMA UnlinkKeeps == ASSUME IInv, Unlink PROVE IInv'
<1>1. WorldType' /\ LoginsInv'
  BY DEF IInv, Unlink, world, TypeInv, WorldType, LoginsInv
<1>2. GateType'
  BY DEF IInv, TypeInv, GateType, Unlink, Records, NoRecord
<1>3. ProcType'
  BY DEF IInv, TypeInv, ProcType, Unlink, Ends, None, Nobody
<1>4. RoutingInv'
  BY DEF IInv, TypeInv, GateType, RoutingInv, Owned, Unlink, Routings, NoRecord
<1>5. AgeInv'
  BY DEF IInv, TypeInv, AgeInv, Unlink, NoRecord
<1>6. PauseInv'
  BY DEF IInv, TypeInv, PauseInv, Unlink, Ends, None, Nobody
<1>7. ResumeInv'
  BY DEF IInv, TypeInv, ProcType, ResumeInv, Unlink, At, Ends, Nobody
<1>8. HeldInv'
  BY DEF IInv, TypeInv, HeldInv, Unlink, None, NoRecord
<1>9. HeldIsQuiet'
  BY DEF IInv, TypeInv, HeldIsQuiet, Unlink, None, NoRecord
<1>10. RecordGoesLast'
  BY DEF IInv, TypeInv, GateType, ProcType, RecordGoesLast, ResumeInv, LoginsInv, Unlink, world, At, None
<1> QED
  BY <1>1, <1>2, <1>3, <1>4, <1>5, <1>6, <1>7, <1>8, <1>9, <1>10 DEF IInv, TypeInv

LEMMA FailsKeeps == ASSUME IInv, Fails PROVE IInv'
<1>1. GateType' /\ RoutingInv' /\ AgeInv' /\ LoginsInv' /\ HeldInv' /\ HeldIsQuiet' /\ RecordGoesLast'
  BY DEF IInv, Fails, gate, world, TypeInv, GateType, RoutingInv, Owned, AgeInv, Expires, LoginsInv,
     HeldInv, HeldIsQuiet, RecordGoesLast
<1>2. ProcType'
  <2>1. CASE Ends
    BY <2>1 DEF IInv, TypeInv, ProcType, Ends, None, Nobody
  <2>2. CASE At("pause", "stop") /\ proc' = [proc EXCEPT !.at = "start", !.failed = TRUE]
    BY <2>2, BoundsAssumption, WindowAssumption DEF IInv, TypeInv, GateType, ProcType, WorldType, Fails,
       gate, world, At, Ends, Count, Routings, Records, None, NoRecord, Nobody, NoRequest, Logins,
       Settings, CountNames, PauseSteps, RoutedSteps, ResumeSteps
  <2> QED
    BY <2>1, <2>2 DEF Fails
<1>3. WorldType'
  BY DEF IInv, TypeInv, WorldType, Fails, world, Count, CountNames
<1>4. PauseInv'
  <2>1. CASE Ends
    BY <2>1 DEF IInv, TypeInv, PauseInv, Ends, None, Nobody
  <2>2. CASE At("pause", "stop") /\ proc' = [proc EXCEPT !.at = "start", !.failed = TRUE]
    BY <2>2 DEF IInv, TypeInv, ProcType, PauseInv, Owned, StudioHoldsLock, Fails, gate, world, At,
       PauseSteps
  <2> QED
    BY <2>1, <2>2 DEF Fails
<1>5. ResumeInv'
  <2>1. CASE Ends
    BY <2>1 DEF IInv, TypeInv, ResumeInv, Ends, None, Nobody
  <2>2. CASE At("pause", "stop") /\ proc' = [proc EXCEPT !.at = "start", !.failed = TRUE]
    BY <2>2 DEF IInv, TypeInv, ResumeInv, At
  <2> QED
    BY <2>1, <2>2 DEF Fails
<1> QED
  BY <1>1, <1>2, <1>3, <1>4, <1>5 DEF IInv, TypeInv

LEMMA KilledKeeps == ASSUME IInv, Killed PROVE IInv'
<1>1. GateType' /\ RoutingInv' /\ AgeInv' /\ LoginsInv' /\ HeldInv' /\ HeldIsQuiet' /\ RecordGoesLast'
  BY DEF IInv, Killed, gate, world, TypeInv, GateType, RoutingInv, Owned, AgeInv, Expires, LoginsInv,
     HeldInv, HeldIsQuiet, RecordGoesLast
<1>2. ProcType'
  BY DEF IInv, TypeInv, ProcType, Killed, Ends, None, Nobody
<1>3. WorldType'
  BY DEF IInv, TypeInv, WorldType, Killed, world, Count, CountNames
<1>4. PauseInv'
  BY DEF IInv, TypeInv, PauseInv, Killed, Ends, None, Nobody
<1>5. ResumeInv'
  BY DEF IInv, TypeInv, ResumeInv, Killed, Ends, None, Nobody
<1> QED
  BY <1>1, <1>2, <1>3, <1>4, <1>5 DEF IInv, TypeInv

LEMMA AdmitKeeps == ASSUME IInv, Admit PROVE IInv'
<1>1. GateType' /\ ProcType' /\ RoutingInv' /\ LoginsInv' /\ ResumeInv' /\ HeldInv' /\ RecordGoesLast'
  BY DEF IInv, Admit, gate, TypeInv, GateType, ProcType, RoutingInv, Owned, LoginsInv, ResumeInv, HeldInv,
     RecordGoesLast
<1>2. WorldType'
  BY BoundsAssumption DEF IInv, TypeInv, WorldType, Admit, None
<1>3. AgeInv'
  BY DEF IInv, TypeInv, GateType, AgeInv, Owned, RoutingInv, Admit, gate, None
<1>4. PauseInv'
  BY DEF IInv, TypeInv, GateType, ProcType, PauseInv, Owned, StudioHoldsLock, RoutingInv, Admit, gate,
     PauseSteps
<1>5. HeldIsQuiet'
  BY DEF IInv, TypeInv, HeldIsQuiet, Admit, gate
<1> QED
  BY <1>1, <1>2, <1>3, <1>4, <1>5 DEF IInv, TypeInv

LEMMA ForwardKeeps == ASSUME IInv, Forward PROVE IInv'
<1>1. GateType' /\ ProcType' /\ RoutingInv' /\ LoginsInv' /\ ResumeInv' /\ HeldInv' /\ RecordGoesLast'
  BY DEF IInv, Forward, gate, TypeInv, GateType, ProcType, RoutingInv, Owned, LoginsInv, ResumeInv, HeldInv,
     RecordGoesLast
<1>2. WorldType'
  BY BoundsAssumption DEF IInv, TypeInv, WorldType, Forward, NoRequest
<1>3. AgeInv'
  BY DEF IInv, TypeInv, WorldType, AgeInv, Owned, Expires, Forward, gate, NoRequest
<1>4. PauseInv'
  BY DEF IInv, TypeInv, WorldType, PauseInv, Owned, Expires, StudioHoldsLock, Forward, gate, NoRequest
<1>5. HeldIsQuiet'
  BY DEF IInv, TypeInv, HeldIsQuiet, Forward, gate, None, NoRequest
<1> QED
  BY <1>1, <1>2, <1>3, <1>4, <1>5 DEF IInv, TypeInv

LEMMA FunctionCallsKeeps == ASSUME IInv, FunctionCalls PROVE IInv'
<1>1. ResumeInv'
  BY DEF IInv, FunctionCalls, gate, ResumeInv, Owned
<1>2. RecordGoesLast'
  BY DEF IInv, FunctionCalls, gate, RecordGoesLast
<1>3. GateType' /\ ProcType' /\ RoutingInv' /\ LoginsInv' /\ HeldInv'
  BY DEF IInv, FunctionCalls, gate, TypeInv, GateType, ProcType, RoutingInv, Owned, LoginsInv, HeldInv
<1>4. WorldType'
  BY BoundsAssumption DEF IInv, TypeInv, WorldType, FunctionCalls, None
<1>5. AgeInv'
  BY DEF IInv, TypeInv, AgeInv, Expires, FunctionCalls
<1>6. PauseInv'
  BY DEF IInv, TypeInv, PauseInv, Owned, Expires, StudioHoldsLock, FunctionCalls, gate
<1>7. HeldIsQuiet'
  BY DEF IInv, TypeInv, HeldIsQuiet, FunctionCalls, gate
<1> QED
  BY <1>1, <1>2, <1>3, <1>4, <1>5, <1>6, <1>7 DEF IInv, TypeInv

LEMMA LandsKeeps == ASSUME IInv, Lands PROVE IInv'
<1>1. GateType' /\ ProcType' /\ RoutingInv' /\ LoginsInv' /\ ResumeInv' /\ HeldInv' /\ RecordGoesLast'
  BY DEF IInv, Lands, gate, TypeInv, GateType, ProcType, RoutingInv, Owned, LoginsInv, ResumeInv, HeldInv,
     RecordGoesLast
<1>2. WorldType'
  BY BoundsAssumption DEF IInv, TypeInv, WorldType, Lands, NoRequest
<1>3. AgeInv'
  BY DEF IInv, TypeInv, AgeInv, Expires, Lands, None, NoRequest
<1>4. PauseInv'
  BY DEF IInv, TypeInv, PauseInv, Owned, Expires, StudioHoldsLock, Lands, gate, None, NoRequest
<1>5. HeldIsQuiet'
  BY DEF IInv, TypeInv, HeldIsQuiet, Lands, gate
<1> QED
  BY <1>1, <1>2, <1>3, <1>4, <1>5 DEF IInv, TypeInv

LEMMA TickKeeps == ASSUME IInv, Tick PROVE IInv'
<1>1. GateType' /\ ProcType' /\ RoutingInv' /\ LoginsInv' /\ ResumeInv' /\ HeldInv' /\ RecordGoesLast'
  BY DEF IInv, Tick, gate, TypeInv, GateType, ProcType, RoutingInv, Owned, LoginsInv, ResumeInv, HeldInv,
     RecordGoesLast
<1>2. WorldType'
  BY BoundsAssumption DEF IInv, TypeInv, WorldType, Tick, None
<1>3. AgeInv'
  BY BoundsAssumption DEF IInv, TypeInv, WorldType, AgeInv, Owned, Expires, Tick, gate
<1>4. PauseInv'
  BY BoundsAssumption DEF IInv, TypeInv, WorldType, PauseInv, Owned, Expires, StudioHoldsLock, Tick, gate
<1>5. HeldIsQuiet'
  BY DEF IInv, TypeInv, HeldIsQuiet, Tick, gate, NoRequest
<1> QED
  BY <1>1, <1>2, <1>3, <1>4, <1>5 DEF IInv, TypeInv

LEMMA StudioStartsKeeps == ASSUME IInv, StudioStarts PROVE IInv'
<1>1. GateType' /\ ProcType' /\ RoutingInv' /\ AgeInv' /\ LoginsInv' /\ ResumeInv' /\ HeldInv' /\ RecordGoesLast'
  BY DEF IInv, StudioStarts, gate, TypeInv, GateType, ProcType, RoutingInv, Owned, AgeInv, Expires,
     LoginsInv, ResumeInv, HeldInv, RecordGoesLast
<1>2. WorldType'
  BY DEF IInv, TypeInv, WorldType, StudioStarts, Count, CountNames
<1>3. PauseInv'
  BY DEF IInv, TypeInv, PauseInv, Owned, StudioStarts, gate, Unpaused, PauseLockFree, NoRecord, Nobody
<1>4. HeldIsQuiet'
  BY DEF IInv, TypeInv, HeldIsQuiet, Owned, HeldInv, StudioStarts, gate, Unpaused, NoRecord
<1> QED
  BY <1>1, <1>2, <1>3, <1>4 DEF IInv, TypeInv

LEMMA StudioOpensKeeps == ASSUME IInv, StudioOpens PROVE IInv'
<1>1. GateType' /\ ProcType' /\ RoutingInv' /\ AgeInv' /\ HeldInv'
  BY DEF IInv, StudioOpens, gate, TypeInv, GateType, ProcType, RoutingInv, Owned, AgeInv, Expires, HeldInv
<1>2. WorldType'
  BY DEF IInv, TypeInv, WorldType, StudioOpens, Logins
<1>3. LoginsInv'
  BY DEF IInv, TypeInv, LoginsInv, StudioOpens
<1>4. PauseInv'
  BY DEF IInv, TypeInv, PauseInv, Owned, Expires, StudioHoldsLock, StudioOpens, gate, StudioHoldsLock
<1>5. ResumeInv'
  BY DEF IInv, TypeInv, ResumeInv, Owned, StudioOpens, gate
<1>6. HeldIsQuiet'
  BY DEF IInv, TypeInv, HeldIsQuiet, StudioOpens, gate
<1>7. RecordGoesLast'
  BY DEF IInv, TypeInv, RecordGoesLast, StudioOpens, gate
<1> QED
  BY <1>1, <1>2, <1>3, <1>4, <1>5, <1>6, <1>7 DEF IInv, TypeInv

LEMMA StudioSettlesKeeps == ASSUME IInv, StudioSettles PROVE IInv'
<1>1. GateType' /\ ProcType' /\ RoutingInv' /\ AgeInv' /\ HeldInv'
  BY DEF IInv, StudioSettles, gate, TypeInv, GateType, ProcType, RoutingInv, Owned, AgeInv, Expires, HeldInv
<1>2. WorldType'
  <2>1. CASE UNCHANGED <<logins, sessions, counts>>
    BY <2>1 DEF IInv, TypeInv, WorldType, StudioSettles
  <2>2. CASE logins' = logins \ {"studio"} /\ sessions' = sessions \ {"studio"} /\ counts' = counts
    BY <2>2 DEF IInv, TypeInv, WorldType, StudioSettles
  <2>3. CASE UNCHANGED <<logins, sessions>> /\ Count("faults", MaxFaults)
    BY DEF IInv, TypeInv, WorldType, StudioSettles, Count, CountNames
  <2> QED
    BY <2>1, <2>2, <2>3 DEF StudioSettles
<1>3. LoginsInv'
  BY DEF IInv, TypeInv, LoginsInv, StudioSettles
<1>4. PauseInv'
  BY DEF IInv, TypeInv, PauseInv, Owned, Expires, StudioHoldsLock, StudioSettles, gate, StudioHoldsLock
<1>5. ResumeInv'
  BY DEF IInv, TypeInv, ResumeInv, Owned, StudioSettles, gate
<1>6. HeldIsQuiet'
  BY DEF IInv, TypeInv, HeldIsQuiet, StudioSettles, gate
<1>7. RecordGoesLast'
  BY DEF IInv, TypeInv, RecordGoesLast, StudioSettles, gate
<1> QED
  BY <1>1, <1>2, <1>3, <1>4, <1>5, <1>6, <1>7 DEF IInv, TypeInv

LEMMA StudioClosesKeeps == ASSUME IInv, StudioCloses PROVE IInv'
<1>1. GateType' /\ ProcType' /\ RoutingInv' /\ AgeInv' /\ HeldInv'
  BY DEF IInv, StudioCloses, gate, TypeInv, GateType, ProcType, RoutingInv, Owned, AgeInv, Expires, HeldInv
<1>2. WorldType'
  BY DEF IInv, TypeInv, WorldType, StudioCloses
<1>3. LoginsInv'
  BY DEF IInv, TypeInv, LoginsInv, StudioCloses
<1>4. PauseInv'
  BY DEF IInv, TypeInv, PauseInv, Owned, Expires, StudioHoldsLock, StudioCloses, gate
<1>5. ResumeInv'
  BY DEF IInv, TypeInv, ResumeInv, Owned, StudioCloses, gate
<1>6. HeldIsQuiet'
  BY DEF IInv, TypeInv, HeldIsQuiet, StudioCloses, gate
<1>7. RecordGoesLast'
  BY DEF IInv, TypeInv, RecordGoesLast, StudioCloses, gate
<1> QED
  BY <1>1, <1>2, <1>3, <1>4, <1>5, <1>6, <1>7 DEF IInv, TypeInv

LEMMA AccessAskedKeeps == ASSUME IInv, AccessAsked PROVE IInv'
<1>1. GateType' /\ ProcType' /\ RoutingInv' /\ AgeInv' /\ LoginsInv' /\ PauseInv' /\ ResumeInv' /\ HeldInv' /\
     HeldIsQuiet' /\ RecordGoesLast'
  BY DEF IInv, AccessAsked, gate, TypeInv, GateType, ProcType, RoutingInv, Owned, AgeInv, Expires,
     LoginsInv, PauseInv, StudioHoldsLock, ResumeInv, HeldInv, HeldIsQuiet, RecordGoesLast
<1>2. WorldType'
  BY DEF IInv, TypeInv, WorldType, AccessAsked, Count, CountNames
<1> QED
  BY <1>1, <1>2 DEF IInv, TypeInv

LEMMA AccessWrittenKeeps == ASSUME IInv, AccessWritten PROVE IInv'
<1>1. GateType' /\ ProcType' /\ RoutingInv' /\ AgeInv' /\ LoginsInv' /\ PauseInv' /\ ResumeInv' /\ HeldInv' /\
     HeldIsQuiet' /\ RecordGoesLast'
  BY DEF IInv, AccessWritten, gate, TypeInv, GateType, ProcType, RoutingInv, Owned, AgeInv, Expires,
     LoginsInv, PauseInv, StudioHoldsLock, ResumeInv, HeldInv, HeldIsQuiet, RecordGoesLast
<1>2. WorldType'
  BY DEF IInv, TypeInv, WorldType, AccessWritten
<1> QED
  BY <1>1, <1>2 DEF IInv, TypeInv

LEMMA AccessOpensKeeps == ASSUME IInv, AccessOpens PROVE IInv'
<1>1. GateType' /\ ProcType' /\ RoutingInv' /\ AgeInv' /\ HeldInv'
  BY DEF IInv, AccessOpens, gate, TypeInv, GateType, ProcType, RoutingInv, Owned, AgeInv, Expires, HeldInv
<1>2. WorldType'
  <2>1. settings' \in [Settings -> BOOLEAN]
    BY DEF IInv, TypeInv, WorldType, AccessOpens, Settings
  <2>2. logins' \subseteq Logins /\ access' = None
    BY DEF IInv, TypeInv, WorldType, AccessOpens, Logins
  <2>3. UNCHANGED <<age, sessions, services, functions, request, studio, counts>>
    BY DEF AccessOpens
  <2> QED
    BY <2>1, <2>2, <2>3 DEF IInv, TypeInv, WorldType
<1>3. LoginsInv'
  BY DEF IInv, TypeInv, WorldType, LoginsInv, AccessOpens, Settings
<1>4. PauseInv'
  BY DEF IInv, TypeInv, PauseInv, Owned, Expires, StudioHoldsLock, AccessOpens, gate, Unpaused, NoRecord
<1>5. ResumeInv'
  BY DEF IInv, TypeInv, ProcType, ResumeInv, Owned, AccessOpens, gate, Unpaused, None, NoRecord
<1>6. HeldIsQuiet'
  BY DEF IInv, TypeInv, HeldIsQuiet, Owned, HeldInv, AccessOpens, gate, Unpaused, NoRecord
<1>7. RecordGoesLast'
  BY DEF IInv, TypeInv, WorldType, RecordGoesLast, AccessOpens, gate, Settings
<1> QED
  BY <1>1, <1>2, <1>3, <1>4, <1>5, <1>6, <1>7 DEF IInv, TypeInv

LEMMA RestartKeeps == ASSUME IInv, Restart PROVE IInv'
<1>1. GateType' /\ ProcType' /\ RoutingInv'
  BY DEF IInv, Restart, gate, TypeInv, GateType, ProcType, RoutingInv, Owned
<1>2. WorldType'
  BY BoundsAssumption DEF IInv, TypeInv, WorldType, Restart, BackAtStart, Orphaned, Count, None, NoRequest,
     Logins, Settings, CountNames
<1>3. AgeInv'
  BY DEF IInv, TypeInv, WorldType, AgeInv, Owned, Expires, Restart, gate, Orphaned, NoRequest
<1>4. LoginsInv'
  BY DEF IInv, TypeInv, LoginsInv, Restart, BackAtStart
<1>5. PauseInv'
  BY DEF IInv, TypeInv, PauseInv, Restart, OperationFree, None, Nobody
<1>6. ResumeInv'
  BY DEF IInv, TypeInv, ResumeInv, Restart, OperationFree, None, Nobody
<1>7. HeldInv'
  BY DEF IInv, TypeInv, HeldInv, Owned, Restart, gate
<1>8. HeldIsQuiet'
  BY DEF IInv, TypeInv, WorldType, HeldIsQuiet, Restart, gate, BackAtStart, Orphaned, None, NoRecord,
     NoRequest
<1>9. RecordGoesLast'
  BY DEF IInv, TypeInv, RecordGoesLast, Restart, gate, BackAtStart
<1> QED
  BY <1>1, <1>2, <1>3, <1>4, <1>5, <1>6, <1>7, <1>8, <1>9 DEF IInv, TypeInv

LEMMA OtherPausesKeeps == ASSUME IInv, OtherPauses PROVE IInv'
<1>1. ProcType' /\ LoginsInv'
  BY DEF IInv, OtherPauses, world, TypeInv, ProcType, LoginsInv
<1>2. GateType'
  BY DEF IInv, TypeInv, GateType, OtherPauses, Paused, Routings, None
<1>3. WorldType'
  BY DEF IInv, TypeInv, WorldType, OtherPauses, world, Count, CountNames
<1>4. RoutingInv'
  BY DEF IInv, TypeInv, GateType, RoutingInv, Owned, OtherPauses, Paused, Routings, Records
<1>5. AgeInv'
  BY DEF IInv, TypeInv, GateType, AgeInv, Owned, RoutingInv, OtherPauses, Paused, Routings
<1>6. PauseInv'
  BY DEF IInv, TypeInv, PauseInv, OtherPauses, OperationFree, None, Nobody
<1>7. ResumeInv'
  BY DEF IInv, TypeInv, ResumeInv, OtherPauses, world, OperationFree, Nobody
<1>8. HeldInv'
  BY DEF IInv, TypeInv, GateType, HeldInv, RoutingInv, OtherPauses, None
<1>9. HeldIsQuiet'
  BY DEF IInv, TypeInv, HeldIsQuiet, OtherPauses
<1>10. RecordGoesLast'
  BY DEF IInv, TypeInv, RecordGoesLast, OtherPauses, world, Paused
<1> QED
  BY <1>1, <1>2, <1>3, <1>4, <1>5, <1>6, <1>7, <1>8, <1>9, <1>10 DEF IInv, TypeInv

LEMMA OtherReleasesKeeps == ASSUME IInv, OtherReleases PROVE IInv'
<1>1. ProcType' /\ WorldType' /\ LoginsInv'
  BY DEF IInv, OtherReleases, world, TypeInv, ProcType, WorldType, LoginsInv
<1>2. GateType'
  BY DEF IInv, TypeInv, GateType, OtherReleases, Released, Routings
<1>3. RoutingInv'
  BY DEF IInv, TypeInv, GateType, RoutingInv, Owned, OtherReleases, Released, Routings, Records
<1>4. AgeInv'
  BY DEF IInv, TypeInv, GateType, AgeInv, Owned, RoutingInv, OtherReleases, Released, Routings
<1>5. PauseInv'
  BY DEF IInv, TypeInv, GateType, PauseInv, Expires, StudioHoldsLock, RoutingInv, OtherReleases, world, None
<1>6. ResumeInv'
  BY DEF IInv, TypeInv, ResumeInv, OtherReleases, world, Released
<1>7. HeldInv'
  BY DEF IInv, TypeInv, HeldInv, RoutingInv, OtherReleases
<1>8. HeldIsQuiet'
  BY DEF IInv, TypeInv, HeldIsQuiet, RoutingInv, HeldInv, OtherReleases
<1>9. RecordGoesLast'
  BY DEF IInv, TypeInv, RecordGoesLast, OtherReleases, world, Released, None
<1> QED
  BY <1>1, <1>2, <1>3, <1>4, <1>5, <1>6, <1>7, <1>8, <1>9 DEF IInv, TypeInv

LEMMA SignInKeeps == ASSUME IInv, NEW l \in Logins, SignIn(l) PROVE IInv'
<1>1. GateType' /\ ProcType' /\ RoutingInv' /\ AgeInv' /\ LoginsInv' /\ ResumeInv' /\ HeldInv' /\ RecordGoesLast'
  BY DEF IInv, SignIn, gate, TypeInv, GateType, ProcType, RoutingInv, Owned, AgeInv, Expires, LoginsInv,
     ResumeInv, HeldInv, RecordGoesLast
<1>2. WorldType'
  BY DEF IInv, TypeInv, WorldType, SignIn
<1>3. PauseInv'
  BY DEF IInv, TypeInv, PauseInv, Owned, Expires, StudioHoldsLock, SignIn, gate
<1>4. HeldIsQuiet'
  BY DEF IInv, TypeInv, HeldIsQuiet, SignIn, gate
<1> QED
  BY <1>1, <1>2, <1>3, <1>4 DEF IInv, TypeInv

LEMMA TurnOnKeeps == ASSUME IInv, NEW what \in {"cron", "functions"}, TurnOn(what) PROVE IInv'
<1>1. GateType' /\ ProcType' /\ RoutingInv' /\ AgeInv' /\ HeldInv'
  BY DEF IInv, TurnOn, gate, TypeInv, GateType, ProcType, RoutingInv, Owned, AgeInv, Expires, HeldInv
<1>2. WorldType'
  BY DEF IInv, TypeInv, WorldType, TurnOn, Count, Settings, CountNames
<1>3. LoginsInv'
  BY DEF IInv, TypeInv, LoginsInv, TurnOn, Logins
<1>4. PauseInv'
  BY DEF IInv, TypeInv, ProcType, PauseInv, Owned, StudioHoldsLock, TurnOn, None, NoRecord
<1>5. ResumeInv'
  BY DEF IInv, TypeInv, ResumeInv, TurnOn, OperationFree, None, Nobody
<1>6. HeldIsQuiet'
  BY DEF IInv, TypeInv, HeldIsQuiet, Owned, HeldInv, TurnOn, gate, NoRecord
<1>7. RecordGoesLast'
  BY BoundsAssumption, WindowAssumption DEF IInv, TypeInv, GateType, ProcType, WorldType, RecordGoesLast,
     PauseInv, ResumeInv, Owned, RoutingInv, HeldInv, LoginsInv, TurnOn, gate, OperationFree, Count,
     Routings, Records, None, NoRecord, Nobody, NoRequest, Logins, Settings, CountNames, PauseSteps,
     RoutedSteps, ResumeSteps
<1> QED
  BY <1>1, <1>2, <1>3, <1>4, <1>5, <1>6, <1>7 DEF IInv, TypeInv

LEMMA TurnOffKeeps == ASSUME IInv, NEW what \in Settings, TurnOff(what) PROVE IInv'
<1>1. GateType' /\ ProcType' /\ RoutingInv' /\ AgeInv' /\ HeldInv'
  BY DEF IInv, TurnOff, gate, TypeInv, GateType, ProcType, RoutingInv, Owned, AgeInv, Expires, HeldInv
<1>2. WorldType'
  BY DEF IInv, TypeInv, WorldType, TurnOff, Count, CountNames
<1>3. LoginsInv'
  BY DEF IInv, TypeInv, LoginsInv, TurnOff
<1>4. PauseInv'
  BY DEF IInv, TypeInv, WorldType, PauseInv, Owned, Expires, StudioHoldsLock, TurnOff, gate
<1>5. ResumeInv'
  BY DEF IInv, TypeInv, ResumeInv, TurnOff, OperationFree, None, Nobody
<1>6. HeldIsQuiet'
  BY DEF IInv, TypeInv, WorldType, HeldIsQuiet, TurnOff, gate
<1>7. RecordGoesLast'
  BY BoundsAssumption, WindowAssumption DEF IInv, TypeInv, GateType, ProcType, WorldType, RecordGoesLast,
     PauseInv, ResumeInv, Owned, RoutingInv, HeldInv, LoginsInv, TurnOff, gate, OperationFree, Count,
     Routings, Records, None, NoRecord, Nobody, NoRequest, Logins, Settings, CountNames, PauseSteps,
     RoutedSteps, ResumeSteps
<1> QED
  BY <1>1, <1>2, <1>3, <1>4, <1>5, <1>6, <1>7 DEF IInv, TypeInv

-------------------------------------------------------------------------------
(* The theorems. *)

LEMMA NextKeeps == ASSUME IInv, [Next]_vars PROVE IInv'
<1>1. CASE UNCHANGED vars
  BY <1>1 DEF vars, gate, world, IInv, TypeInv, GateType, ProcType, WorldType, RoutingInv, AgeInv,
     LoginsInv, PauseInv, ResumeInv, HeldInv, HeldIsQuiet, RecordGoesLast, Owned, Expires, StudioHoldsLock
<1>2. CASE \E kind \in {"pause", "resume"} : Command(kind)
  BY <1>2, CommandKeeps
<1>3. CASE \/ \E l \in Logins : SignIn(l)
           \/ \E what \in {"cron", "functions"} : TurnOn(what)
           \/ \E what \in Settings : TurnOff(what)
  BY <1>3, SignInKeeps, TurnOnKeeps, TurnOffKeeps
<1> QED
  BY <1>1, <1>2, <1>3, AdoptKeeps, TakeLockKeeps, UnsettledKeeps, RefusesKeeps, PauseBeginsKeeps,
     WriteIntentKeeps, RouteKeeps, AnsweredKeeps, ReadBackKeeps, StopStudioKeeps, CloseLoginsKeeps,
     EndSessionsKeeps, WaitsKeeps, StopWritersKeeps, DrainKeeps, StartWritersKeeps, HoldKeeps,
     ResumeBeginsKeeps, ResumeWritersKeeps, ResumeRoutingKeeps, ResumeDeveloperKeeps, ResumeCronKeeps,
     UnlinkKeeps, FailsKeeps, KilledKeeps, AdmitKeeps, ForwardKeeps, FunctionCallsKeeps, LandsKeeps,
     TickKeeps, StudioStartsKeeps, StudioOpensKeeps, StudioSettlesKeeps, StudioClosesKeeps,
     AccessAskedKeeps, AccessWrittenKeeps, AccessOpensKeeps, RestartKeeps, OtherPausesKeeps,
     OtherReleasesKeeps DEF Next, Settings

\* IInv holds in every state: whose maintenance it is, and what is closed at each step of a command.
THEOREM Inductive == Spec => []IInv
<1>1. Init => IInv
  BY InitHolds
<1>2. IInv /\ [Next]_vars => IInv'
  BY NextKeeps
<1> QED
  BY <1>1, <1>2, PTL DEF Spec

\* The record and the routing row keep their shape; an intent and a confirmed revision never stand together
\* (lab/write_pause.py).
THEOREM TypeCorrect == Spec => []TypeOK
<1>1. IInv => TypeOK
  BY DEF IInv, TypeInv, GateType, WorldType, Routings, Records, TypeOK
<1> QED
  BY <1>1, Inductive, PTL

\* While the record says held no write can land, for any window longer than a body may take to read (pause).
THEOREM HeldMeansQuiet == Spec => []HeldIsQuiet
<1>1. IInv => HeldIsQuiet
  BY DEF IInv
<1> QED
  BY <1>1, Inductive, PTL

\* Without a record nothing of a pause is left, wherever a resume failed or was killed before (resume).
THEOREM NothingLeftBehind == Spec => []RecordGoesLast
<1>1. IInv => RecordGoesLast
  BY DEF IInv
<1> QED
  BY <1>1, Inductive, PTL

\* The pause's maintenance ends only while its resume is recorded, and another operation's is never released
\* by it (owned, unsettled, route_pause).
THEOREM OwnMaintenanceOnly == Spec => MaintenanceIsItsOwn
<1> DEFINE Own == routing.maintenance /\ ~routing'.maintenance =>
        (routing.by = "pause" /\ record.phase = "resuming") \/ (routing.by = "other" /\ proc = Nobody)
<1>1. ASSUME IInv, [Next]_vars PROVE [Own]_vars
  <2>1. UNCHANGED routing \/ Route \/ OtherPauses \/ ResumeRouting \/ OtherReleases
    BY <1>1 DEF vars, Next, gate, Command, Adopt, TakeLock, Unsettled, Refuses, PauseBegins, WriteIntent,
       Answered, ReadBack, StopStudio, CloseLogins, EndSessions, Waits, StopWriters, Drain, StartWriters,
       Hold, ResumeBegins, ResumeWriters, ResumeDeveloper, ResumeCron, Unlink, Fails, Killed, Admit,
       Forward, FunctionCalls, Lands, Tick, StudioStarts, StudioOpens, StudioSettles, StudioCloses,
       AccessAsked, AccessWritten, AccessOpens, Restart, SignIn, TurnOn, TurnOff
  <2>2. CASE ResumeRouting
    BY <1>1, <2>2 DEF ResumeRouting, At, IInv, TypeInv, ProcType, ResumeInv, RoutingInv
  <2>3. CASE OtherReleases
    BY <2>3 DEF OtherReleases, OperationFree
  <2>4. CASE Route \/ OtherPauses
    <3>1. routing' = routing \/ \E by \in {"pause", "other"} : routing' = Paused(by)
      BY <2>4 DEF Route, OtherPauses
    <3>2. routing' = routing \/ routing'.maintenance
      BY <1>1, <3>1, RoutingTypes DEF IInv, TypeInv, GateType
    <3> QED
      BY <3>2
  <2> QED
    BY <2>1, <2>2, <2>3, <2>4
<1> QED
  BY <1>1, Inductive, PTL DEF Spec, MaintenanceIsItsOwn

===============================================================================
