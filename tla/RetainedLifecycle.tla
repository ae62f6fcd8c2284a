-------------------------- MODULE RetainedLifecycle --------------------------
(***************************************************************************)
(* Soft delete and restore of one environment of the durable runtime: the  *)
(* lifecycle row of the catalog (src/control/catalog.ts), the worker that  *)
(* runs its pending operation (src/control/lifecycle.ts,                   *)
(* src/control/durable-lifecycle.ts), the python run that makes each       *)
(* effect and its journal (lab/durable_lifecycle.py), and the start of the *)
(* installation that resumes published environments                        *)
(* (lab/durable_runtime.py).                                               *)
(*                                                                         *)
(* The worker, a python run, the supervisor and the whole host may each    *)
(* die between any two steps; the catalog, the journal, the logins and the *)
(* published entry are durable, a running container is not.  A python run  *)
(* whose worker died goes on.  Operations are numbered as they are         *)
(* requested, so a number stands for the operation's uuid and epoch.       *)
(*                                                                         *)
(* A definition whose name ends in _<Word> is not part of the program: it  *)
(* is the definition that follows it with one plausible bug, kept to show  *)
(* that a property would notice.                                           *)
(***************************************************************************)
EXTENDS Naturals, FiniteSets

CONSTANTS
  Container,    \* the containers of the environment's inventory
  Serving,      \* those of them that serve it; the others are retained, stopped
  Tenant,       \* its database, logins and published entry, as one resource
  Adapter,      \* python runs that may be alive at once
  NoAdapter,
  MaxOp         \* bound: operations that are explored

ASSUME ServingAssumption == Serving \subseteq Container
ASSUME TenantAssumption == Tenant \notin Container
ASSUME AdapterAssumption == NoAdapter \notin Adapter
ASSUME MaxOpAssumption == MaxOp \in Nat

Resource == Container \cup {Tenant}
Phase == {"none", "recorded", "quarantined", "restored"}
\* A run holds the operation lock from its intent check to its end.
Holding == {"record", "change", "publish", "save"}

VARIABLES
  \* the catalog: environment_lifecycle and the lifecycle_effects of its operation
  state, op, effects, failure,
  retained,     \* is retain_until still ahead
  authorized,   \* would requireLifecycleAuthorization accept the operation's owner
  \* durable-lifecycle/<runtime>.json
  journal,
  \* the host
  running, login, published,
  \* processes
  platform,     \* has this installation started, and is it still supervised
  wpc,          \* the worker: down, idle, effects, wait, finish
  mine,         \* the python run the worker waits for
  adapter       \* each python run

catalogVars == <<state, op, effects, failure, retained, authorized>>
hostVars == <<running, login, published>>
processVars == <<platform, wpc, mine, adapter>>
vars == <<catalogVars, journal, hostVars, processVars>>

NoEffects == [r \in Resource |-> "none"]
Gone == [pc |-> "none", action |-> "none", resource |-> Tenant, op |-> 0]
EmptyJournal(n) ==
  [op |-> n, restoreOp |-> 0, phase |-> [r \in Resource |-> "none"],
   ran |-> [c \in Container |-> FALSE], login |-> FALSE, entry |-> FALSE]

\* An environment that was provisioned and serves.
Init ==
  /\ state = "active" /\ op = 0 /\ effects = NoEffects /\ failure = FALSE
  /\ retained = FALSE /\ authorized = FALSE
  /\ journal = EmptyJournal(0)
  /\ running = [c \in Container |-> c \in Serving]
  /\ login = TRUE /\ published = TRUE
  /\ platform = "up" /\ wpc = "idle" /\ mine = NoAdapter
  /\ adapter = [a \in Adapter |-> Gone]

Pending == {"deleting", "restoring"}

-----------------------------------------------------------------------------
(* Requests of people, through the catalog. *)

\* A new operation: the owner who asks is authorized for it, no effect is recorded.
NewOperation ==
  /\ op < MaxOp
  /\ op' = op + 1
  /\ effects' = NoEffects /\ failure' = FALSE /\ authorized' = TRUE

deleteEnvironment ==
  /\ state = "active"
  /\ NewOperation
  /\ state' = "deleting" /\ retained' = TRUE
  /\ UNCHANGED <<journal, hostVars, processVars>>

\* A durable environment cannot be purged: Shared writer isolation unavailable.
restoreEnvironment ==
  /\ state = "deleted" /\ retained
  /\ NewOperation
  /\ state' = "restoring"
  /\ UNCHANGED <<retained, journal, hostVars, processVars>>

RetentionExpires ==
  /\ state = "deleted" /\ retained
  /\ retained' = FALSE
  /\ UNCHANGED <<state, op, effects, failure, authorized, journal, hostVars, processVars>>

\* The owner's sign-in ends or changes; resumeLifecycleOperation renews it.
Revoke ==
  /\ state \in Pending /\ authorized
  /\ authorized' = FALSE
  /\ UNCHANGED <<state, op, effects, failure, retained, journal, hostVars, processVars>>
resumeLifecycleOperation ==
  /\ state \in Pending /\ ~ authorized
  /\ authorized' = TRUE
  /\ UNCHANGED <<state, op, effects, failure, retained, journal, hostVars, processVars>>

\* What the manual tells an operator to do about a container that should not run.
OperatorStop(c) ==
  /\ state = "deleting" /\ failure /\ effects[c] = "done" /\ running[c]
  /\ running' = [running EXCEPT ![c] = FALSE]
  /\ UNCHANGED <<catalogVars, journal, login, published, processVars>>

-----------------------------------------------------------------------------
(* The worker. *)

OperationLockFree == \A a \in Adapter : adapter[a].pc \notin Holding

\* worker.py takes the operation lock without waiting, and gives it back.
WorkerStarts ==
  /\ platform = "up" /\ wpc = "down" /\ OperationLockFree
  /\ wpc' = "idle"
  /\ UNCHANGED <<platform, mine, adapter, catalogVars, journal, hostVars>>

\* blockLifecycle: the failure is recorded, the intent stays for a replay.
Block ==
  /\ failure' = TRUE
  /\ wpc' = "idle" /\ mine' = NoAdapter
  /\ UNCHANGED <<state, op, effects, retained, authorized>>

\* runNextDurableOperation: assertLifecycleOperation on the row it read, then
\* the inspection of every resource, each under the operation lock.
BeginOperation ==
  /\ wpc = "idle" /\ state \in Pending
  /\ IF authorized /\ OperationLockFree
     THEN wpc' = "effects" /\ UNCHANGED <<mine, catalogVars>>
     ELSE Block
  /\ UNCHANGED <<platform, adapter, journal, hostVars>>

\* The order: containers before the tenant to close, after it to open.
DueNext(r) ==
  IF state = "restoring" THEN r = Tenant \/ effects[Tenant] = "done"
                         ELSE r # Tenant \/ \A c \in Container : effects[c] = "done"

\* The pending effect is durable before the run starts; a done one is skipped.
StartEffect(r, a) ==
  /\ wpc = "effects" /\ authorized /\ effects[r] # "done" /\ DueNext(r)
  /\ adapter[a] = Gone
  /\ effects' = [effects EXCEPT ![r] = "pending"]
  /\ adapter' = [adapter EXCEPT ![a] =
       [pc |-> "spawned", action |-> IF state = "deleting" THEN "quarantine" ELSE "restore",
        resource |-> r, op |-> op]]
  /\ wpc' = "wait" /\ mine' = a
  /\ UNCHANGED <<platform, state, op, failure, retained, authorized, journal, hostVars>>

\* The run's answer, and the assertion repeated after the await.
SettleRun ==
  /\ wpc = "wait" /\ adapter[mine].pc \in {"done", "failed"}
  /\ \/ /\ adapter[mine].pc = "done" /\ authorized
        /\ effects' = [effects EXCEPT ![adapter[mine].resource] = "done"]
        /\ wpc' = "effects" /\ mine' = NoAdapter
        /\ UNCHANGED <<state, op, failure, retained, authorized>>
     \/ /\ adapter[mine].pc = "failed" \/ ~ authorized
        /\ Block
  /\ adapter' = [adapter EXCEPT ![mine] = Gone]
  /\ UNCHANGED <<platform, journal, hostVars>>

AuthorityLost ==
  /\ wpc = "effects" /\ ~ authorized
  /\ Block
  /\ UNCHANGED <<platform, adapter, journal, hostVars>>

AllDone == \A r \in Resource : effects[r] = "done"

\* readiness of every resource, a read under the operation lock each.
Ready ==
  /\ \A c \in Container : journal.ran[c] => running[c]
  /\ login = journal.login /\ (journal.entry => published)
CheckReadiness ==
  /\ wpc = "effects" /\ AllDone
  /\ authorized
  /\ IF state = "restoring" => OperationLockFree /\ Ready
     THEN wpc' = "finish" /\ UNCHANGED <<mine, catalogVars>>
     ELSE Block
  /\ UNCHANGED <<platform, adapter, journal, hostVars>>

finishLifecycle ==
  /\ wpc = "finish"
  /\ \/ /\ authorized
        /\ state' = IF state = "deleting" THEN "deleted" ELSE "active"
        /\ retained' = (state = "deleting" \/ retained)
        /\ failure' = FALSE
        /\ wpc' = "idle" /\ UNCHANGED <<mine, op, effects, authorized>>
     \/ ~ authorized /\ Block
  /\ UNCHANGED <<platform, adapter, journal, hostVars>>

\* SIGKILL, an error, the restart of the supervisor's child.  An answered run is lost.
Orphaned == [a \in Adapter |-> IF adapter[a].pc \in {"done", "failed"} THEN Gone ELSE adapter[a]]
WorkerCrash ==
  /\ wpc # "down"
  /\ wpc' = "down" /\ mine' = NoAdapter /\ adapter' = Orphaned
  /\ UNCHANGED <<platform, catalogVars, journal, hostVars>>

\* An inspection or a readiness read that is refused or not answered in time.
ReadFails ==
  /\ wpc = "effects"
  /\ Block
  /\ UNCHANGED <<platform, adapter, journal, hostVars>>

-----------------------------------------------------------------------------
(* One python run of durable_lifecycle.py. *)

Ends(a, answer) ==
  adapter' = [adapter EXCEPT ![a] = IF a = mine THEN [@ EXCEPT !.pc = answer] ELSE Gone]
Goes(a, pc) == adapter' = [adapter EXCEPT ![a].pc = pc]

\* The operation lock, tried once, and catalog_verifier: the intent is recorded.
Intent_Unchecked(a) == TRUE
Intent(a) ==
  /\ adapter[a].op = op
  /\ state = IF adapter[a].action = "quarantine" THEN "deleting" ELSE "restoring"
EnterRun(a) ==
  /\ adapter[a].pc = "spawned"
  /\ IF OperationLockFree /\ Intent(a) THEN Goes(a, "record") ELSE Ends(a, "failed")
  /\ UNCHANGED <<platform, wpc, mine, catalogVars, journal, hostVars>>

\* The journal this operation may write: its own, or a new one once every part
\* of the last one is restored.
Usable_OnlyFresh(n) == \A r \in Resource : journal.phase[r] \in {"none", "restored"}
Usable(n) == journal.op = n \/ \A r \in Resource : journal.phase[r] \in {"none", "restored"}
JournalOf(n) == IF journal.op = n THEN journal ELSE EmptyJournal(n)

\* What is there now is written down before it is changed, and only once.
Observe(r, j) ==
  IF r = Tenant THEN [j EXCEPT !.phase[r] = "recorded", !.login = login, !.entry = published]
                ELSE [j EXCEPT !.phase[r] = "recorded", !.ran[r] = running[r]]
Recorded_Again(r, j) == Observe(r, j)
Recorded(r, j) == IF j.phase[r] = "none" THEN Observe(r, j) ELSE j

MayClose(r) == r = Tenant => \A c \in Container : ~ running[c]
RecordQuarantine(a) ==
  LET r == adapter[a].resource  n == adapter[a].op IN
  /\ adapter[a].pc = "record" /\ adapter[a].action = "quarantine"
  /\ IF MayClose(r) /\ Usable(n)
     THEN journal' = Recorded(r, JournalOf(n)) /\ Goes(a, "change")
     ELSE Ends(a, "failed") /\ UNCHANGED journal
  /\ UNCHANGED <<platform, wpc, mine, catalogVars, hostVars>>

MayOpen(r, n) ==
  /\ journal.phase[r] # "none"
  /\ r # Tenant => journal.phase[Tenant] = "restored"
  /\ journal.restoreOp \in {0, n}
RecordRestore(a) ==
  LET r == adapter[a].resource  n == adapter[a].op IN
  /\ adapter[a].pc = "record" /\ adapter[a].action = "restore"
  /\ IF MayOpen(r, n)
     THEN /\ journal' = IF r = Tenant THEN [journal EXCEPT !.restoreOp = n] ELSE journal
          /\ Goes(a, "change")
     ELSE Ends(a, "failed") /\ UNCHANGED journal
  /\ UNCHANGED <<platform, wpc, mine, catalogVars, hostVars>>

\* docker stop or start of a container, NOLOGIN or LOGIN of the roles.
Change(a) ==
  LET r == adapter[a].resource  closing == adapter[a].action = "quarantine" IN
  /\ adapter[a].pc = "change"
  /\ IF r = Tenant
     THEN /\ login' = IF closing THEN login /\ ~ journal.login ELSE login \/ journal.login
          /\ Goes(a, "publish") /\ UNCHANGED running
     ELSE /\ running' = [running EXCEPT ![r] = IF closing THEN FALSE ELSE @ \/ journal.ran[r]]
          /\ Goes(a, "save") /\ UNCHANGED login
  /\ UNCHANGED <<platform, wpc, mine, catalogVars, journal, published>>

\* The environment's entry of the published endpoints.
Publish_EntryStays(a) ==
  /\ adapter[a].pc = "publish"
  /\ published' = (published \/ journal.entry)
  /\ Goes(a, "save")
  /\ UNCHANGED <<platform, wpc, mine, catalogVars, journal, running, login>>
Publish(a) ==
  /\ adapter[a].pc = "publish"
  /\ published' = (adapter[a].action = "restore" /\ (published \/ journal.entry))
  /\ Goes(a, "save")
  /\ UNCHANGED <<platform, wpc, mine, catalogVars, journal, running, login>>

SavePhase(a) ==
  /\ adapter[a].pc = "save"
  /\ journal' = [journal EXCEPT !.phase[adapter[a].resource] =
                   IF adapter[a].action = "quarantine" THEN "quarantined" ELSE "restored"]
  /\ Ends(a, "done")
  /\ UNCHANGED <<platform, wpc, mine, catalogVars, hostVars>>

\* A limit of the docker client, of SQL or of the whole run, a container that
\* does not become healthy.
RunFails(a) ==
  /\ adapter[a].pc \in {"spawned"} \cup Holding
  /\ Ends(a, "failed")
  /\ UNCHANGED <<platform, wpc, mine, catalogVars, journal, hostVars>>

-----------------------------------------------------------------------------
(* The installation. *)

SupervisorDies ==
  /\ platform = "up"
  /\ platform' = "down" /\ wpc' = "down" /\ mine' = NoAdapter /\ adapter' = Orphaned
  /\ UNCHANGED <<catalogVars, journal, hostVars>>

PowerLoss ==
  /\ platform' = "down" /\ wpc' = "down" /\ mine' = NoAdapter
  /\ adapter' = [a \in Adapter |-> Gone]
  /\ running' = [c \in Container |-> FALSE]
  /\ UNCHANGED <<catalogVars, journal, login, published>>

\* Runtime.start resumes what the published endpoints name; it reads no lifecycle row.
Start ==
  /\ platform = "down" /\ OperationLockFree
  /\ platform' = "up"
  /\ running' = [c \in Container |-> running[c] \/ (published /\ c \in Serving)]
  /\ UNCHANGED <<wpc, mine, adapter, catalogVars, journal, login, published>>

-----------------------------------------------------------------------------
Request ==
  \/ deleteEnvironment \/ restoreEnvironment \/ RetentionExpires
  \/ resumeLifecycleOperation
  \/ \E c \in Container : OperatorStop(c)

WorkerStep ==
  \/ WorkerStarts \/ BeginOperation \/ AuthorityLost
  \/ \E r \in Resource, a \in Adapter : StartEffect(r, a)
  \/ SettleRun \/ CheckReadiness \/ finishLifecycle

RunStep(a) ==
  EnterRun(a) \/ RecordQuarantine(a) \/ RecordRestore(a) \/ Change(a) \/ Publish(a) \/ SavePhase(a)

Step == Request \/ WorkerStep \/ (\E a \in Adapter : RunStep(a)) \/ Start
Fault == Revoke \/ ReadFails \/ WorkerCrash \/ SupervisorDies \/ PowerLoss \/ \E a \in Adapter : RunFails(a)

Next == Step \/ Fault
Spec == Init /\ [][Next]_vars

-----------------------------------------------------------------------------
(* Properties. *)

TypeOK ==
  /\ state \in {"active", "deleting", "deleted", "restoring"}
  /\ op \in 0 .. MaxOp
  /\ effects \in [Resource -> {"none", "pending", "done"}]
  /\ {failure, retained, authorized, login, published} \subseteq BOOLEAN
  /\ journal \in [op : 0 .. MaxOp, restoreOp : 0 .. MaxOp, phase : [Resource -> Phase],
                  ran : [Container -> BOOLEAN], login : BOOLEAN, entry : BOOLEAN]
  /\ running \in [Container -> BOOLEAN]
  /\ platform \in {"up", "down"}
  /\ wpc \in {"down", "idle", "effects", "wait", "finish"}
  /\ mine \in Adapter \cup {NoAdapter}
  /\ adapter \in [Adapter -> [pc : {"none", "spawned", "done", "failed"} \cup Holding,
                              action : {"none", "quarantine", "restore"},
                              resource : Resource, op : 0 .. MaxOp]]

\* A deleted environment is closed and stays closed: no container runs, no
\* login opens and no entry is published, through restarts of the host and
\* runs of an operation that is long over.
DeletedIsClosed ==
  state = "deleted" => ~ login /\ ~ published /\ \A c \in Container : ~ running[c]

\* Once an environment is active again it is whole: what served before the
\* delete serves, and what did not does not, however often the delete and the
\* restore were interrupted and replayed.
ActiveIsWhole ==
  state = "active" /\ platform = "up" =>
    login /\ published /\ \A c \in Container : running[c] <=> c \in Serving

\* The logins close only after every container has stopped
\* (lab/test_durable_lifecycle.py, test_the_database_logins_close_only_after_every_container_stopped).
LoginsCloseLast == [][login /\ ~ login' => \A c \in Container : ~ running[c]]_vars

\* Logins and the entry close only under a pending delete and open only under
\* a pending restore: no late or orphaned run acts for an operation that is over.
OnlyUnderIntent ==
  [][/\ (login /\ ~ login') \/ (published /\ ~ published') => state = "deleting"
     /\ (~ login /\ login') \/ (~ published /\ published') => state = "restoring"]_vars
=============================================================================
