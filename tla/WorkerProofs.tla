------------------------------ MODULE WorkerProofs ------------------------------
(***************************************************************************)
(* The two parts of the worker's step whose state is its own: the          *)
(* environments' retained lifecycle, and the drain of the outbox.          *)
(*                                                                         *)
(* RetainedLifecycle, for any inventory of containers, any number of runs  *)
(* alive at once and any number of operations.                             *)
(* DeletedIsClosed and ActiveIsWhole are not inductive: what a run does    *)
(* depends on the operation it was started for and on what its journal     *)
(* says of a host that served long ago.  IInv adds both: the run that has  *)
(* the operation lock acts for the recorded operation, or for the one      *)
(* before it while no worker has taken up the new one (LockInv); a step of *)
(* a run found what its earlier steps left (RunInv); what a journal says   *)
(* ran is what serves (JournalInv); and for each state of the catalog what *)
(* the host may look like, with how far the closing has come (HostInv).    *)
(*                                                                         *)
(* Outbox, for any events, channels, drains, outcomes and bounds.          *)
(* A settled row is final, and a row's attempts are bounded, because of    *)
(* what a step may do to one row (RowsMove): each action is shown to do    *)
(* nothing else.  FailureReported needs that a drain at work has an item   *)
(* in hand (BatchInv) and that only a row whose event is there moves       *)
(* (EventInv).  That one drain at most settles a row needs that a claim's  *)
(* token is newer than every one still held (OldTokens) and that a slot    *)
(* goes to a new event only when no drain holds an item of the old one     *)
(* (Free).                                                                 *)
(***************************************************************************)
EXTENDS RetainedLifecycle, Outbox, SequenceTheorems, FiniteSetTheorems, TLAPS

RunRecord == [pc : {"none", "spawned", "done", "failed"} \cup Holding,
              action : {"none", "quarantine", "restore"}, resource : Resource, op : 0 .. MaxOp]

Closing == state \in {"deleting", "deleted"}
Working == {"effects", "wait", "finish"}
Alive(a) == adapter[a].pc \in {"spawned"} \cup Holding
Shut == ~ login /\ ~ published /\ \A c \in Container : ~ running[c]
HostLive == platform = "up" \/ \E a \in Adapter : adapter[a] # Gone

\* The worker and the runs it started.
WorkerInv ==
  /\ platform = "down" => wpc = "down"
  /\ wpc \in Working => state \in Pending
  /\ mine \in Adapter <=> wpc = "wait"
  /\ wpc = "wait" =>
       /\ adapter[mine].pc # "none" /\ adapter[mine].op = op
       /\ adapter[mine].action = IF state = "deleting" THEN "quarantine" ELSE "restore"
  /\ \A a \in Adapter :
       /\ adapter[a].pc \in {"done", "failed"} => a = mine
       /\ adapter[a].pc = "none" => adapter[a] = Gone
       /\ Alive(a) => adapter[a].action \in {"quarantine", "restore"}

\* The run that has the operation lock acts for the operation that is recorded, or for the one
\* before it while no worker has taken up the new one.
Current(a) == adapter[a].op = op /\ (adapter[a].action = "quarantine" <=> Closing)
Late(a) ==
  /\ adapter[a].op + 1 = op /\ (adapter[a].action = "quarantine" <=> ~ Closing)
  /\ state \in Pending /\ wpc \in {"down", "idle"} /\ journal.op # op
  /\ state = "restoring" => Shut
LockInv ==
  /\ \A a, b \in Adapter : adapter[a].pc \in Holding /\ adapter[b].pc \in Holding => a = b
  /\ \A a \in Adapter : adapter[a].pc \in Holding => Current(a) \/ Late(a)

\* What the earlier steps of a run have left.
RunInv ==
  \A a \in Adapter : adapter[a].pc \in {"change", "publish", "save"} =>
    /\ journal.phase[adapter[a].resource] # "none"
    /\ adapter[a].pc = "publish" => adapter[a].resource = Tenant
    /\ adapter[a].action = "quarantine" =>
         /\ journal.op = adapter[a].op
         /\ adapter[a].resource = Tenant =>
              /\ \A c \in Container : ~ running[c]
              /\ adapter[a].pc \in {"publish", "save"} => ~ login
              /\ adapter[a].pc = "save" => ~ published

\* What was written down is what the environment was when it served.
JournalInv ==
  /\ journal.op <= op
  /\ \A c \in Container : IF journal.phase[c] = "none" THEN ~ journal.ran[c]
                                                       ELSE journal.ran[c] = (c \in Serving)
  /\ journal.phase[Tenant] # "none" => journal.login /\ journal.entry

Touched(r) == journal.op = op /\ journal.phase[r] # "none"
ClosedOff(r) == journal.op = op /\ journal.phase[r] = "quarantined" /\ (r = Tenant => Shut)

\* The host in each state of the catalog.
ActiveHost == login /\ published /\ (HostLive => \A c \in Serving : running[c])
DeletingHost ==
  /\ HostLive => \A c \in Serving : running[c] \/ Touched(c)
  /\ ~ Touched(Tenant) => login /\ published
  /\ ~ published => \A c \in Serving : Touched(c)
  /\ \A r \in Resource : effects[r] = "done" => ClosedOff(r)
  /\ wpc = "wait" /\ adapter[mine].pc = "done" => ClosedOff(adapter[mine].resource)
  /\ wpc = "finish" => AllDone
DeletedHost == Shut /\ journal.op = op /\ \A r \in Resource : journal.phase[r] = "quarantined"
RestoringHost ==
  /\ journal.op + 1 = op /\ \A r \in Resource : journal.phase[r] # "none"
  /\ wpc = "finish" => login /\ published /\ \A c \in Serving : running[c]
HostInv ==
  /\ \A c \in Container : running[c] => c \in Serving
  /\ state = "active" => ActiveHost
  /\ state = "deleting" => DeletingHost
  /\ state = "deleted" => DeletedHost
  /\ state = "restoring" => RestoringHost

IInv == TypeOK /\ WorkerInv /\ LockInv /\ RunInv /\ JournalInv /\ HostInv

USE ServingAssumption, TenantAssumption, AdapterAssumption, MaxOpAssumption DEF Resource, Holding, Pending, Working

-------------------------------------------------------------------------------
LEMMA InitIInv == Init => IInv
<1> SUFFICES ASSUME Init PROVE IInv
  OBVIOUS
<1>1. \A a \in Adapter : adapter[a] = Gone
  BY DEF Init
<1>2. journal = EmptyJournal(0)
  BY DEF Init
<1>3. TypeOK
  <2>1. journal \in [op : 0 .. MaxOp, restoreOp : 0 .. MaxOp, phase : [Resource -> Phase],
                     ran : [Container -> BOOLEAN], login : BOOLEAN, entry : BOOLEAN]
    BY <1>2 DEF EmptyJournal, Phase
  <2>2. Gone \in RunRecord /\ adapter \in [Adapter -> RunRecord]
    BY DEF Init, Gone, RunRecord
  <2>3. {failure, retained, authorized, login, published} \subseteq BOOLEAN
    BY DEF Init
  <2> QED
    BY <2>1, <2>2, <2>3 DEF Init, TypeOK, NoEffects, RunRecord
<1>4. WorkerInv /\ LockInv /\ RunInv
  BY <1>1 DEF Init, WorkerInv, LockInv, RunInv, Gone, Alive
<1>5. JournalInv
  BY <1>2 DEF Init, JournalInv, EmptyJournal
<1>6. HostInv
  BY DEF Init, HostInv, ActiveHost
<1> QED
  BY <1>3, <1>4, <1>5, <1>6 DEF IInv

-------------------------------------------------------------------------------
(* What a step does to the run that takes it. *)

Same(b) == adapter'[b] = adapter[b]
Like(a) == /\ adapter'[a].action = adapter[a].action /\ adapter'[a].resource = adapter[a].resource
           /\ adapter'[a].op = adapter[a].op

LEMMA GoesRun ==
  ASSUME adapter \in [Adapter -> RunRecord], NEW a \in Adapter, NEW pc \in {"none", "spawned", "done", "failed"} \cup Holding,
         Goes(a, pc)
  PROVE  /\ adapter' \in [Adapter -> RunRecord] /\ adapter'[a].pc = pc /\ Like(a)
         /\ \A b \in Adapter \ {a} : Same(b)
BY DEF Goes, RunRecord, Like, Same

LEMMA EndsRun ==
  ASSUME adapter \in [Adapter -> RunRecord], NEW a \in Adapter, NEW answer \in {"done", "failed"}, Ends(a, answer)
  PROVE  /\ adapter' \in [Adapter -> RunRecord]
         /\ a = mine => adapter'[a].pc = answer /\ Like(a)
         /\ a # mine => adapter'[a] = Gone
         /\ \A b \in Adapter \ {a} : Same(b)
BY DEF Ends, RunRecord, Like, Same, Gone

\* A step that changes neither the catalog nor the host nor the journal.
LEMMA HostKept ==
  ASSUME IInv, UNCHANGED <<platform, wpc, mine, catalogVars, journal, hostVars>>, HostLive' => HostLive,
         wpc = "wait" /\ adapter'[mine].pc = "done" =>
           adapter[mine].pc = "done" /\ adapter'[mine].resource = adapter[mine].resource
  PROVE  HostInv' /\ JournalInv'
BY DEF IInv, HostInv, JournalInv, ActiveHost, DeletingHost, DeletedHost, RestoringHost, Touched, ClosedOff,
   Shut, AllDone, catalogVars, hostVars

\* A run that goes on.
LEMMA GoesWorker ==
  ASSUME IInv, NEW a \in Adapter, Alive(a), NEW pc \in Holding, Goes(a, pc),
         UNCHANGED <<platform, wpc, mine, state, op>>
  PROVE  WorkerInv' /\ adapter' \in [Adapter -> RunRecord] /\ (HostLive' => HostLive)
<1>1. adapter \in [Adapter -> RunRecord]
  BY DEF IInv, TypeOK, RunRecord
<1>2. /\ adapter' \in [Adapter -> RunRecord] /\ adapter'[a].pc = pc /\ Like(a)
      /\ \A b \in Adapter \ {a} : Same(b)
  BY <1>1, GoesRun
<1>3. WorkerInv'
  BY <1>2 DEF IInv, WorkerInv, Alive, Same, Like
<1>4. HostLive' => HostLive
  BY <1>2 DEF HostLive, Same, Alive, Gone
<1> QED
  BY <1>2, <1>3, <1>4

LEMMA GoesLock ==
  ASSUME IInv, NEW a \in Adapter, adapter[a].pc \in Holding, NEW pc \in Holding, Goes(a, pc),
         UNCHANGED <<wpc, state, op>>,
         Late(a) => journal'.op # op /\ (state = "restoring" => Shut')
  PROVE  LockInv' /\ (\A b \in Adapter : adapter'[b].pc \in Holding => b = a) /\ adapter'[a].pc = pc /\ Like(a)
<1>1. /\ adapter'[a].pc = pc /\ Like(a) /\ \A b \in Adapter \ {a} : Same(b)
  BY GoesRun DEF IInv, TypeOK, RunRecord
<1>2. \A b \in Adapter : adapter'[b].pc \in Holding => b = a
  BY <1>1 DEF IInv, LockInv, Same
<1>3. Current(a)' \/ Late(a)'
  BY <1>1 DEF IInv, LockInv, Current, Late, Closing, Like
<1> QED
  BY <1>1, <1>2, <1>3 DEF LockInv

\* A run that ends, refused or done.
LEMMA EndsWorker ==
  ASSUME IInv, NEW a \in Adapter, Alive(a), NEW answer \in {"done", "failed"}, Ends(a, answer),
         UNCHANGED <<platform, wpc, mine, state, op>>
  PROVE  /\ WorkerInv' /\ adapter' \in [Adapter -> RunRecord] /\ (HostLive' => HostLive)
         /\ wpc = "wait" /\ adapter'[mine].pc = "done" =>
              /\ answer = "failed" => adapter[mine].pc = "done"
              /\ adapter[mine].pc # "done" => a = mine
              /\ adapter'[mine].resource = adapter[mine].resource
         /\ \A b \in Adapter : adapter'[b].pc \in Holding => adapter'[b] = adapter[b] /\ b # a
<1>1. adapter \in [Adapter -> RunRecord]
  BY DEF IInv, TypeOK, RunRecord
<1>2. /\ adapter' \in [Adapter -> RunRecord]
      /\ a = mine => adapter'[a].pc = answer /\ Like(a)
      /\ a # mine => adapter'[a] = Gone
      /\ \A b \in Adapter \ {a} : Same(b)
  BY <1>1, EndsRun
<1>3. WorkerInv'
  BY <1>2 DEF IInv, WorkerInv, Alive, Same, Like, Gone
<1>4. HostLive' => HostLive
  BY <1>2 DEF HostLive, Same, Alive, Gone
<1>5. wpc = "wait" /\ adapter'[mine].pc = "done" =>
        /\ answer = "failed" => adapter[mine].pc = "done"
        /\ adapter[mine].pc # "done" => a = mine
        /\ adapter'[mine].resource = adapter[mine].resource
  BY <1>2 DEF IInv, WorkerInv, Same, Like
<1>6. \A b \in Adapter : adapter'[b].pc \in Holding => adapter'[b] = adapter[b] /\ b # a
  BY <1>2 DEF Same, Gone
<1> QED
  BY <1>2, <1>3, <1>4, <1>5, <1>6

LEMMA FailedKeeps ==
  ASSUME IInv, NEW a \in Adapter, Alive(a), Ends(a, "failed"),
         UNCHANGED <<platform, wpc, mine, catalogVars, journal, hostVars>>
  PROVE  IInv'
<1>1. UNCHANGED <<platform, wpc, mine, state, op>>
  BY DEF catalogVars
<1>2. /\ WorkerInv' /\ adapter' \in [Adapter -> RunRecord] /\ (HostLive' => HostLive)
      /\ wpc = "wait" /\ adapter'[mine].pc = "done" =>
           adapter[mine].pc = "done" /\ adapter'[mine].resource = adapter[mine].resource
      /\ \A b \in Adapter : adapter'[b].pc \in Holding => adapter'[b] = adapter[b]
  BY <1>1, EndsWorker
<1>3. TypeOK'
  BY <1>2 DEF IInv, TypeOK, RunRecord, catalogVars, hostVars
<1>4. LockInv'
  BY <1>2 DEF IInv, LockInv, Current, Late, Closing, Shut, catalogVars, hostVars
<1>5. RunInv'
  BY <1>2 DEF IInv, RunInv, catalogVars, hostVars
<1>6. HostInv' /\ JournalInv'
  BY <1>2, HostKept
<1> QED
  BY <1>2, <1>3, <1>4, <1>5, <1>6 DEF IInv


LEMMA deleteEnvironmentKeeps == ASSUME IInv, deleteEnvironment PROVE IInv'
<1>1. TypeOK'
  <2>1. op' \in 0 .. MaxOp /\ effects' \in [Resource -> {"none", "pending", "done"}]
    BY DEF IInv, deleteEnvironment, NewOperation, NoEffects, TypeOK
  <2>2. /\ state' \in {"active", "deleting", "deleted", "restoring"}
        /\ {failure', retained', authorized', login', published'} \subseteq BOOLEAN
    BY DEF IInv, deleteEnvironment, NewOperation, TypeOK, hostVars
  <2> QED
    BY <2>1, <2>2 DEF IInv, deleteEnvironment, TypeOK, hostVars, processVars
<1>2. WorkerInv'
  BY DEF IInv, deleteEnvironment, NewOperation, NoEffects, hostVars, processVars, TypeOK, WorkerInv, Alive
<1>3. LockInv'
  BY DEF IInv, deleteEnvironment, NewOperation, hostVars, processVars, TypeOK, WorkerInv, LockInv,
     JournalInv, Current, Late, Closing, Shut
<1>4. RunInv'
  BY DEF IInv, deleteEnvironment, NewOperation, NoEffects, hostVars, processVars, TypeOK, LockInv, RunInv,
     Current, Late, Closing
<1>5. JournalInv'
  BY DEF IInv, deleteEnvironment, NewOperation, NoEffects, hostVars, processVars, TypeOK, JournalInv
<1>6. HostInv'
  BY DEF IInv, deleteEnvironment, NewOperation, NoEffects, hostVars, processVars, TypeOK, WorkerInv,
     HostInv, ActiveHost, DeletingHost, DeletedHost, RestoringHost, Touched, ClosedOff, Shut, HostLive,
     AllDone
<1> QED
  BY <1>1, <1>2, <1>3, <1>4, <1>5, <1>6 DEF IInv

LEMMA restoreEnvironmentKeeps == ASSUME IInv, restoreEnvironment PROVE IInv'
<1>1. TypeOK'
  <2>1. op' \in 0 .. MaxOp /\ effects' \in [Resource -> {"none", "pending", "done"}]
    BY DEF IInv, restoreEnvironment, NewOperation, NoEffects, TypeOK
  <2>2. /\ state' \in {"active", "deleting", "deleted", "restoring"}
        /\ {failure', retained', authorized', login', published'} \subseteq BOOLEAN
    BY DEF IInv, restoreEnvironment, NewOperation, TypeOK, hostVars
  <2> QED
    BY <2>1, <2>2 DEF IInv, restoreEnvironment, TypeOK, hostVars, processVars
<1>2. WorkerInv'
  BY DEF IInv, restoreEnvironment, NewOperation, NoEffects, hostVars, processVars, TypeOK, WorkerInv, Alive
<1>3. LockInv'
  BY DEF IInv, restoreEnvironment, NewOperation, hostVars, processVars, TypeOK, WorkerInv, LockInv,
     JournalInv, HostInv, DeletedHost, Current, Late, Closing, Shut
<1>4. RunInv'
  BY DEF IInv, restoreEnvironment, NewOperation, NoEffects, hostVars, processVars, TypeOK, LockInv, RunInv,
     Current, Late, Closing
<1>5. JournalInv'
  BY DEF IInv, restoreEnvironment, NewOperation, NoEffects, hostVars, processVars, TypeOK, JournalInv
<1>6. HostInv'
  BY DEF IInv, restoreEnvironment, NewOperation, NoEffects, hostVars, processVars, TypeOK, WorkerInv,
     HostInv, ActiveHost, DeletingHost, DeletedHost, RestoringHost, Touched, ClosedOff, Shut, HostLive,
     AllDone
<1> QED
  BY <1>1, <1>2, <1>3, <1>4, <1>5, <1>6 DEF IInv

LEMMA RetentionExpiresKeeps == ASSUME IInv, RetentionExpires PROVE IInv'
<1>1. TypeOK'
  BY DEF IInv, RetentionExpires, hostVars, processVars, TypeOK, Phase
<1>2. WorkerInv'
  BY DEF IInv, RetentionExpires, hostVars, processVars, TypeOK, WorkerInv, Alive
<1>3. LockInv'
  BY DEF IInv, RetentionExpires, hostVars, processVars, TypeOK, WorkerInv, LockInv, Current, Late, Closing,
     Shut
<1>4. RunInv'
  BY DEF IInv, RetentionExpires, hostVars, processVars, TypeOK, LockInv, RunInv, Current, Late, Closing
<1>5. JournalInv'
  BY DEF IInv, RetentionExpires, hostVars, processVars, TypeOK, JournalInv
<1>6. HostInv'
  BY DEF IInv, RetentionExpires, hostVars, processVars, TypeOK, WorkerInv, HostInv, ActiveHost,
     DeletingHost, DeletedHost, RestoringHost, Touched, ClosedOff, Shut, HostLive, AllDone
<1> QED
  BY <1>1, <1>2, <1>3, <1>4, <1>5, <1>6 DEF IInv

LEMMA RevokeKeeps == ASSUME IInv, Revoke PROVE IInv'
<1>1. TypeOK'
  BY DEF IInv, Revoke, hostVars, processVars, TypeOK, Phase
<1>2. WorkerInv'
  BY DEF IInv, Revoke, hostVars, processVars, TypeOK, WorkerInv, Alive
<1>3. LockInv'
  BY DEF IInv, Revoke, hostVars, processVars, TypeOK, WorkerInv, LockInv, Current, Late, Closing, Shut
<1>4. RunInv'
  BY DEF IInv, Revoke, hostVars, processVars, TypeOK, LockInv, RunInv, Current, Late, Closing
<1>5. JournalInv'
  BY DEF IInv, Revoke, hostVars, processVars, TypeOK, JournalInv
<1>6. HostInv'
  BY DEF IInv, Revoke, hostVars, processVars, TypeOK, WorkerInv, HostInv, ActiveHost, DeletingHost,
     DeletedHost, RestoringHost, Touched, ClosedOff, Shut, HostLive, AllDone
<1> QED
  BY <1>1, <1>2, <1>3, <1>4, <1>5, <1>6 DEF IInv

LEMMA resumeLifecycleOperationKeeps == ASSUME IInv, resumeLifecycleOperation PROVE IInv'
<1>1. TypeOK'
  BY DEF IInv, resumeLifecycleOperation, hostVars, processVars, TypeOK, Phase
<1>2. WorkerInv'
  BY DEF IInv, resumeLifecycleOperation, hostVars, processVars, TypeOK, WorkerInv, Alive
<1>3. LockInv'
  BY DEF IInv, resumeLifecycleOperation, hostVars, processVars, TypeOK, WorkerInv, LockInv, Current, Late,
     Closing, Shut
<1>4. RunInv'
  BY DEF IInv, resumeLifecycleOperation, hostVars, processVars, TypeOK, LockInv, RunInv, Current, Late,
     Closing
<1>5. JournalInv'
  BY DEF IInv, resumeLifecycleOperation, hostVars, processVars, TypeOK, JournalInv
<1>6. HostInv'
  BY DEF IInv, resumeLifecycleOperation, hostVars, processVars, TypeOK, WorkerInv, HostInv, ActiveHost,
     DeletingHost, DeletedHost, RestoringHost, Touched, ClosedOff, Shut, HostLive, AllDone
<1> QED
  BY <1>1, <1>2, <1>3, <1>4, <1>5, <1>6 DEF IInv

LEMMA OperatorStopKeeps == ASSUME IInv, NEW c \in Container, OperatorStop(c) PROVE IInv'
<1>1. TypeOK'
  BY DEF IInv, OperatorStop, catalogVars, processVars, TypeOK, Phase
<1>2. WorkerInv'
  BY DEF IInv, OperatorStop, catalogVars, processVars, TypeOK, WorkerInv, Alive
<1>3. LockInv'
  BY DEF IInv, OperatorStop, catalogVars, processVars, TypeOK, WorkerInv, LockInv, Current, Late, Closing,
     Shut
<1>4. RunInv'
  BY DEF IInv, OperatorStop, catalogVars, processVars, TypeOK, LockInv, RunInv, Current, Late, Closing
<1>5. JournalInv'
  BY DEF IInv, OperatorStop, catalogVars, processVars, TypeOK, JournalInv
<1>6. HostInv'
  BY DEF IInv, OperatorStop, catalogVars, processVars, TypeOK, WorkerInv, HostInv, ActiveHost, DeletingHost,
     DeletedHost, RestoringHost, Touched, ClosedOff, Shut, HostLive, AllDone
<1> QED
  BY <1>1, <1>2, <1>3, <1>4, <1>5, <1>6 DEF IInv

LEMMA WorkerStartsKeeps == ASSUME IInv, WorkerStarts PROVE IInv'
<1>1. TypeOK'
  BY DEF IInv, WorkerStarts, OperationLockFree, catalogVars, hostVars, TypeOK, Phase
<1>2. WorkerInv'
  BY DEF IInv, WorkerStarts, OperationLockFree, catalogVars, hostVars, TypeOK, WorkerInv, Alive
<1>3. LockInv'
  BY DEF IInv, WorkerStarts, OperationLockFree, catalogVars, hostVars, TypeOK, WorkerInv, LockInv, Current,
     Late, Closing, Shut
<1>4. RunInv'
  BY DEF IInv, WorkerStarts, OperationLockFree, catalogVars, hostVars, TypeOK, LockInv, RunInv, Current,
     Late, Closing
<1>5. JournalInv'
  BY DEF IInv, WorkerStarts, OperationLockFree, catalogVars, hostVars, TypeOK, JournalInv
<1>6. HostInv'
  BY DEF IInv, WorkerStarts, OperationLockFree, catalogVars, hostVars, TypeOK, WorkerInv, HostInv,
     ActiveHost, DeletingHost, DeletedHost, RestoringHost, Touched, ClosedOff, Shut, HostLive, AllDone
<1> QED
  BY <1>1, <1>2, <1>3, <1>4, <1>5, <1>6 DEF IInv

LEMMA BeginOperationKeeps == ASSUME IInv, BeginOperation PROVE IInv'
<1>1. TypeOK'
  BY DEF IInv, BeginOperation, OperationLockFree, Block, catalogVars, hostVars, TypeOK, Phase
<1>2. WorkerInv'
  BY DEF IInv, BeginOperation, OperationLockFree, Block, catalogVars, hostVars, TypeOK, WorkerInv, Alive
<1>3. LockInv'
  BY DEF IInv, BeginOperation, OperationLockFree, Block, catalogVars, hostVars, TypeOK, WorkerInv, LockInv,
     Current, Late, Closing, Shut
<1>4. RunInv'
  BY DEF IInv, BeginOperation, OperationLockFree, Block, catalogVars, hostVars, TypeOK, LockInv, RunInv,
     Current, Late, Closing
<1>5. JournalInv'
  BY DEF IInv, BeginOperation, OperationLockFree, Block, catalogVars, hostVars, TypeOK, JournalInv
<1>6. HostInv'
  BY DEF IInv, BeginOperation, OperationLockFree, Block, catalogVars, hostVars, TypeOK, WorkerInv, HostInv,
     ActiveHost, DeletingHost, DeletedHost, RestoringHost, Touched, ClosedOff, Shut, HostLive, AllDone
<1> QED
  BY <1>1, <1>2, <1>3, <1>4, <1>5, <1>6 DEF IInv

LEMMA StartEffectKeeps == ASSUME IInv, NEW r \in Resource, NEW a \in Adapter, StartEffect(r, a) PROVE IInv'
<1>1. TypeOK'
  BY DEF IInv, StartEffect, Gone, hostVars, TypeOK, Phase
<1>2. WorkerInv'
  BY DEF IInv, StartEffect, Gone, hostVars, TypeOK, WorkerInv, Alive
<1>3. LockInv'
  BY DEF IInv, StartEffect, Gone, hostVars, TypeOK, WorkerInv, LockInv, Current, Late, Closing, Shut
<1>4. RunInv'
  BY DEF IInv, StartEffect, Gone, hostVars, TypeOK, LockInv, RunInv, Current, Late, Closing
<1>5. JournalInv'
  BY DEF IInv, StartEffect, Gone, hostVars, TypeOK, JournalInv
<1>6. HostInv'
  BY DEF IInv, StartEffect, Gone, hostVars, TypeOK, WorkerInv, HostInv, ActiveHost, DeletingHost,
     DeletedHost, RestoringHost, Touched, ClosedOff, Shut, HostLive, AllDone
<1> QED
  BY <1>1, <1>2, <1>3, <1>4, <1>5, <1>6 DEF IInv

LEMMA SettleRunKeeps == ASSUME IInv, SettleRun PROVE IInv'
<1>1. TypeOK'
  <2>1. /\ effects' \in [Resource -> {"none", "pending", "done"}] /\ mine' \in Adapter \cup {NoAdapter}
        /\ wpc' \in {"down", "idle", "effects", "wait", "finish"}
    BY DEF IInv, SettleRun, Block, TypeOK
  <2>2. {failure', retained', authorized', login', published'} \subseteq BOOLEAN
    BY DEF IInv, SettleRun, Block, TypeOK, hostVars
  <2>3. adapter \in [Adapter -> RunRecord] /\ Gone \in RunRecord
    BY DEF IInv, TypeOK, RunRecord, Gone
  <2>4. adapter' \in [Adapter -> RunRecord]
    BY <2>3 DEF SettleRun
  <2> QED
    BY <2>1, <2>2, <2>4 DEF IInv, SettleRun, Block, TypeOK, RunRecord, hostVars
<1>2. WorkerInv'
  BY DEF IInv, SettleRun, Block, Gone, hostVars, TypeOK, WorkerInv, Alive
<1>3. LockInv'
  BY DEF IInv, SettleRun, Block, Gone, hostVars, TypeOK, WorkerInv, LockInv, Current, Late, Closing, Shut
<1>4. RunInv'
  BY DEF IInv, SettleRun, Block, Gone, hostVars, TypeOK, LockInv, RunInv, Current, Late, Closing
<1>5. JournalInv'
  BY DEF IInv, SettleRun, Block, Gone, hostVars, TypeOK, JournalInv
<1>6. HostInv'
  BY DEF IInv, SettleRun, Block, Gone, hostVars, TypeOK, WorkerInv, HostInv, ActiveHost, DeletingHost,
     DeletedHost, RestoringHost, Touched, ClosedOff, Shut, HostLive, AllDone
<1> QED
  BY <1>1, <1>2, <1>3, <1>4, <1>5, <1>6 DEF IInv

LEMMA AuthorityLostKeeps == ASSUME IInv, AuthorityLost PROVE IInv'
<1>1. TypeOK'
  BY DEF IInv, AuthorityLost, Block, hostVars, TypeOK, Phase
<1>2. WorkerInv'
  BY DEF IInv, AuthorityLost, Block, hostVars, TypeOK, WorkerInv, Alive
<1>3. LockInv'
  BY DEF IInv, AuthorityLost, Block, hostVars, TypeOK, WorkerInv, LockInv, Current, Late, Closing, Shut
<1>4. RunInv'
  BY DEF IInv, AuthorityLost, Block, hostVars, TypeOK, LockInv, RunInv, Current, Late, Closing
<1>5. JournalInv'
  BY DEF IInv, AuthorityLost, Block, hostVars, TypeOK, JournalInv
<1>6. HostInv'
  BY DEF IInv, AuthorityLost, Block, hostVars, TypeOK, WorkerInv, HostInv, ActiveHost, DeletingHost,
     DeletedHost, RestoringHost, Touched, ClosedOff, Shut, HostLive, AllDone
<1> QED
  BY <1>1, <1>2, <1>3, <1>4, <1>5, <1>6 DEF IInv

LEMMA CheckReadinessKeeps == ASSUME IInv, CheckReadiness PROVE IInv'
<1>1. TypeOK'
  BY DEF IInv, CheckReadiness, Block, AllDone, Ready, OperationLockFree, catalogVars, hostVars, TypeOK,
     Phase
<1>2. WorkerInv'
  BY DEF IInv, CheckReadiness, Block, AllDone, Ready, OperationLockFree, catalogVars, hostVars, TypeOK,
     WorkerInv, Alive
<1>3. LockInv'
  BY DEF IInv, CheckReadiness, Block, AllDone, Ready, OperationLockFree, catalogVars, hostVars, TypeOK,
     WorkerInv, LockInv, Current, Late, Closing, Shut
<1>4. RunInv'
  BY DEF IInv, CheckReadiness, Block, AllDone, Ready, OperationLockFree, catalogVars, hostVars, TypeOK,
     LockInv, RunInv, Current, Late, Closing
<1>5. JournalInv'
  BY DEF IInv, CheckReadiness, Block, AllDone, Ready, OperationLockFree, catalogVars, hostVars, TypeOK,
     JournalInv
<1>6. HostInv'
  <2>1. /\ UNCHANGED <<platform, state, op, effects, journal, running, login, published, adapter>>
        /\ wpc' \in {"idle", "finish"} /\ wpc = "effects" /\ AllDone
        /\ wpc' = "finish" => UNCHANGED mine /\ (state = "restoring" => Ready)
    BY DEF CheckReadiness, Block, catalogVars, hostVars
  <2>2. state = "restoring" /\ wpc' = "finish" => login /\ published /\ \A c \in Serving : running[c]
    BY <2>1 DEF IInv, HostInv, RestoringHost, JournalInv, Ready
  <2> QED
    BY <2>1, <2>2 DEF IInv, HostInv, ActiveHost, DeletingHost, DeletedHost, RestoringHost, Touched,
       ClosedOff, Shut, HostLive, AllDone
<1> QED
  BY <1>1, <1>2, <1>3, <1>4, <1>5, <1>6 DEF IInv

LEMMA finishLifecycleKeeps == ASSUME IInv, finishLifecycle PROVE IInv'
<1>1. TypeOK'
  BY DEF IInv, finishLifecycle, Block, hostVars, TypeOK, Phase
<1>2. WorkerInv'
  BY DEF IInv, finishLifecycle, Block, hostVars, TypeOK, WorkerInv, Alive
<1>3. LockInv'
  BY DEF IInv, finishLifecycle, Block, hostVars, TypeOK, WorkerInv, LockInv, Current, Late, Closing, Shut
<1>4. RunInv'
  BY DEF IInv, finishLifecycle, Block, hostVars, TypeOK, LockInv, RunInv, Current, Late, Closing
<1>5. JournalInv'
  BY DEF IInv, finishLifecycle, Block, hostVars, TypeOK, JournalInv
<1>6. HostInv'
  BY DEF IInv, finishLifecycle, Block, AllDone, hostVars, TypeOK, WorkerInv, HostInv, ActiveHost,
     DeletingHost, DeletedHost, RestoringHost, Touched, ClosedOff, Shut, HostLive, AllDone
<1> QED
  BY <1>1, <1>2, <1>3, <1>4, <1>5, <1>6 DEF IInv

LEMMA WorkerCrashKeeps == ASSUME IInv, WorkerCrash PROVE IInv'
<1>1. TypeOK'
  BY DEF IInv, WorkerCrash, Orphaned, Gone, catalogVars, hostVars, TypeOK, Phase
<1>2. WorkerInv'
  BY DEF IInv, WorkerCrash, Orphaned, Gone, catalogVars, hostVars, TypeOK, WorkerInv, Alive
<1>3. LockInv'
  BY DEF IInv, WorkerCrash, Orphaned, Gone, catalogVars, hostVars, TypeOK, WorkerInv, LockInv, Current,
     Late, Closing, Shut
<1>4. RunInv'
  BY DEF IInv, WorkerCrash, Orphaned, Gone, catalogVars, hostVars, TypeOK, LockInv, RunInv, Current, Late,
     Closing
<1>5. JournalInv'
  BY DEF IInv, WorkerCrash, Orphaned, Gone, catalogVars, hostVars, TypeOK, JournalInv
<1>6. HostInv'
  BY DEF IInv, WorkerCrash, Orphaned, Gone, catalogVars, hostVars, TypeOK, WorkerInv, HostInv, ActiveHost,
     DeletingHost, DeletedHost, RestoringHost, Touched, ClosedOff, Shut, HostLive, AllDone
<1> QED
  BY <1>1, <1>2, <1>3, <1>4, <1>5, <1>6 DEF IInv

LEMMA ReadFailsKeeps == ASSUME IInv, ReadFails PROVE IInv'
<1>1. TypeOK'
  BY DEF IInv, ReadFails, Block, hostVars, TypeOK, Phase
<1>2. WorkerInv'
  BY DEF IInv, ReadFails, Block, hostVars, TypeOK, WorkerInv, Alive
<1>3. LockInv'
  BY DEF IInv, ReadFails, Block, hostVars, TypeOK, WorkerInv, LockInv, Current, Late, Closing, Shut
<1>4. RunInv'
  BY DEF IInv, ReadFails, Block, hostVars, TypeOK, LockInv, RunInv, Current, Late, Closing
<1>5. JournalInv'
  BY DEF IInv, ReadFails, Block, hostVars, TypeOK, JournalInv
<1>6. HostInv'
  BY DEF IInv, ReadFails, Block, hostVars, TypeOK, WorkerInv, HostInv, ActiveHost, DeletingHost,
     DeletedHost, RestoringHost, Touched, ClosedOff, Shut, HostLive, AllDone
<1> QED
  BY <1>1, <1>2, <1>3, <1>4, <1>5, <1>6 DEF IInv

LEMMA SupervisorDiesKeeps == ASSUME IInv, SupervisorDies PROVE IInv'
<1>1. TypeOK'
  BY DEF IInv, SupervisorDies, Orphaned, Gone, catalogVars, hostVars, TypeOK, Phase
<1>2. WorkerInv'
  BY DEF IInv, SupervisorDies, Orphaned, Gone, catalogVars, hostVars, TypeOK, WorkerInv, Alive
<1>3. LockInv'
  BY DEF IInv, SupervisorDies, Orphaned, Gone, catalogVars, hostVars, TypeOK, WorkerInv, LockInv, Current,
     Late, Closing, Shut
<1>4. RunInv'
  BY DEF IInv, SupervisorDies, Orphaned, Gone, catalogVars, hostVars, TypeOK, LockInv, RunInv, Current,
     Late, Closing
<1>5. JournalInv'
  BY DEF IInv, SupervisorDies, Orphaned, Gone, catalogVars, hostVars, TypeOK, JournalInv
<1>6. HostInv'
  BY DEF IInv, SupervisorDies, Orphaned, Gone, catalogVars, hostVars, TypeOK, WorkerInv, HostInv,
     ActiveHost, DeletingHost, DeletedHost, RestoringHost, Touched, ClosedOff, Shut, HostLive, AllDone
<1> QED
  BY <1>1, <1>2, <1>3, <1>4, <1>5, <1>6 DEF IInv

LEMMA PowerLossKeeps == ASSUME IInv, PowerLoss PROVE IInv'
<1>1. TypeOK'
  BY DEF IInv, PowerLoss, Gone, catalogVars, TypeOK, Phase
<1>2. WorkerInv'
  BY DEF IInv, PowerLoss, Gone, catalogVars, TypeOK, WorkerInv, Alive
<1>3. LockInv'
  BY DEF IInv, PowerLoss, Gone, catalogVars, TypeOK, WorkerInv, LockInv, Current, Late, Closing, Shut
<1>4. RunInv'
  BY DEF IInv, PowerLoss, Gone, catalogVars, TypeOK, LockInv, RunInv, Current, Late, Closing
<1>5. JournalInv'
  BY DEF IInv, PowerLoss, Gone, catalogVars, TypeOK, JournalInv
<1>6. HostInv'
  BY DEF IInv, PowerLoss, Gone, catalogVars, TypeOK, WorkerInv, HostInv, ActiveHost, DeletingHost,
     DeletedHost, RestoringHost, Touched, ClosedOff, Shut, HostLive, AllDone
<1> QED
  BY <1>1, <1>2, <1>3, <1>4, <1>5, <1>6 DEF IInv

LEMMA StartKeeps == ASSUME IInv, Start PROVE IInv'
<1>1. TypeOK'
  BY DEF IInv, Start, OperationLockFree, catalogVars, TypeOK, Phase
<1>2. WorkerInv'
  BY DEF IInv, Start, OperationLockFree, catalogVars, TypeOK, WorkerInv, Alive
<1>3. LockInv'
  BY DEF IInv, Start, OperationLockFree, catalogVars, TypeOK, WorkerInv, LockInv, Current, Late, Closing,
     Shut
<1>4. RunInv'
  BY DEF IInv, Start, OperationLockFree, catalogVars, TypeOK, LockInv, RunInv, Current, Late, Closing
<1>5. JournalInv'
  BY DEF IInv, Start, OperationLockFree, catalogVars, TypeOK, JournalInv
<1>6. HostInv'
  BY DEF IInv, Start, OperationLockFree, catalogVars, TypeOK, WorkerInv, HostInv, ActiveHost, DeletingHost,
     DeletedHost, RestoringHost, Touched, ClosedOff, Shut, HostLive, AllDone
<1> QED
  BY <1>1, <1>2, <1>3, <1>4, <1>5, <1>6 DEF IInv

LEMMA RunFailsKeeps == ASSUME IInv, NEW a \in Adapter, RunFails(a) PROVE IInv'
BY FailedKeeps DEF RunFails, Alive

LEMMA EnterRunKeeps == ASSUME IInv, NEW a \in Adapter, EnterRun(a) PROVE IInv'
<1>1. CASE Ends(a, "failed")
  BY <1>1, FailedKeeps DEF EnterRun, Alive
<1>2. CASE OperationLockFree /\ Intent(a) /\ Goes(a, "record")
  <2>1. Alive(a) /\ UNCHANGED <<platform, wpc, mine, state, op>> /\ adapter \in [Adapter -> RunRecord]
    BY DEF EnterRun, Alive, catalogVars, IInv, TypeOK, RunRecord
  <2>2. WorkerInv' /\ adapter' \in [Adapter -> RunRecord] /\ (HostLive' => HostLive)
    BY <1>2, <2>1, GoesWorker
  <2>3. adapter'[a].pc = "record" /\ Like(a) /\ \A b \in Adapter \ {a} : Same(b)
    BY <1>2, <2>1, GoesRun
  <2>4. LockInv' /\ RunInv'
    BY <1>2, <2>1, <2>3 DEF LockInv, RunInv, OperationLockFree, Intent, Current, Closing, Like, Same,
       IInv, WorkerInv, Alive
  <2>5. TypeOK'
    BY <2>2 DEF IInv, TypeOK, RunRecord, EnterRun, catalogVars, hostVars
  <2>6. HostInv' /\ JournalInv'
    <3>1. wpc = "wait" /\ adapter'[mine].pc = "done" =>
            adapter[mine].pc = "done" /\ adapter'[mine].resource = adapter[mine].resource
      BY <2>3 DEF IInv, WorkerInv, Same
    <3> QED
      BY <2>2, <3>1, HostKept DEF EnterRun
  <2> QED
    BY <2>2, <2>4, <2>5, <2>6 DEF IInv
<1> QED
  BY <1>1, <1>2 DEF EnterRun

-------------------------------------------------------------------------------
(* The steps of a run that has the operation lock. *)

JournalType == [op : 0 .. MaxOp, restoreOp : 0 .. MaxOp, phase : [Resource -> Phase],
                ran : [Container -> BOOLEAN], login : BOOLEAN, entry : BOOLEAN]

\* The run that has the lock goes on, and only its own answer is awaited.
HoldsOn(a, pc) ==
  /\ adapter[a].pc \in Holding /\ Goes(a, pc)
  /\ UNCHANGED <<platform, wpc, mine, catalogVars>>

LEMMA HoldsOnKeeps ==
  ASSUME IInv, NEW a \in Adapter, NEW pc \in Holding, HoldsOn(a, pc),
         Late(a) => journal'.op # op /\ (state = "restoring" => Shut')
  PROVE  /\ WorkerInv' /\ LockInv' /\ adapter' \in [Adapter -> RunRecord] /\ HostLive /\ (Current(a) \/ Late(a))
         /\ adapter'[a].pc = pc /\ Like(a)
         /\ \A b \in Adapter : adapter'[b].pc \in Holding => b = a
         /\ adapter'[mine].pc = "done" /\ wpc = "wait" => adapter[mine].pc = "done" /\ adapter'[mine] = adapter[mine]
<1>1. Alive(a) /\ UNCHANGED <<platform, wpc, mine, state, op>>
  BY DEF HoldsOn, Alive, catalogVars
<1>2. WorkerInv' /\ adapter' \in [Adapter -> RunRecord]
  BY <1>1, GoesWorker DEF HoldsOn
<1>3. /\ LockInv' /\ adapter'[a].pc = pc /\ Like(a) /\ \A b \in Adapter : adapter'[b].pc \in Holding => b = a
  BY <1>1, GoesLock DEF HoldsOn
<1>4. HostLive /\ (Current(a) \/ Late(a))
  BY <1>1 DEF HostLive, Alive, Gone, HoldsOn, IInv, LockInv
<1>5. adapter'[mine].pc = "done" /\ wpc = "wait" => adapter[mine].pc = "done" /\ adapter'[mine] = adapter[mine]
  <2>1. adapter \in [Adapter -> RunRecord] /\ \A b \in Adapter \ {a} : Same(b)
    BY GoesRun DEF HoldsOn, IInv, TypeOK, RunRecord
  <2> QED
    BY <2>1, <1>3 DEF Same, IInv, WorkerInv
<1> QED
  BY <1>2, <1>3, <1>4, <1>5

\* The journal an operation writes to, and what it writes there.
LEMMA JournalOfWrites ==
  ASSUME journal \in JournalType, NEW n \in 0 .. MaxOp
  PROVE  /\ JournalOf(n) \in JournalType /\ JournalOf(n).op = n
         /\ journal.op = n => JournalOf(n) = journal
         /\ journal.op # n =>
              /\ \A x \in Resource : JournalOf(n).phase[x] = "none"
              /\ \A c \in Container : JournalOf(n).ran[c] = FALSE
BY DEF JournalType, JournalOf, EmptyJournal, Phase

LEMMA ObserveWrites ==
  ASSUME NEW j \in JournalType, NEW r \in Resource, running \in [Container -> BOOLEAN],
         login \in BOOLEAN, published \in BOOLEAN
  PROVE  /\ Observe(r, j) \in JournalType /\ Observe(r, j).op = j.op
         /\ Observe(r, j).phase[r] = "recorded"
         /\ \A x \in Resource \ {r} : Observe(r, j).phase[x] = j.phase[x]
         /\ \A c \in Container : Observe(r, j).ran[c] = IF c = r THEN running[c] ELSE j.ran[c]
         /\ r = Tenant => Observe(r, j).login = login /\ Observe(r, j).entry = published
         /\ r # Tenant => Observe(r, j).login = j.login /\ Observe(r, j).entry = j.entry
BY DEF JournalType, Observe, Phase

LEMMA RecordQuarantineKeeps == ASSUME IInv, NEW a \in Adapter, RecordQuarantine(a) PROVE IInv'
<1> DEFINE r == adapter[a].resource  n == adapter[a].op
<1>1. CASE Ends(a, "failed") /\ UNCHANGED journal
  BY <1>1, FailedKeeps DEF RecordQuarantine, Alive
<1>2. CASE MayClose(r) /\ journal' = Recorded(r, JournalOf(n)) /\ Goes(a, "change")
  <2>1. /\ HoldsOn(a, "change") /\ r \in Resource /\ n \in 0 .. MaxOp /\ adapter[a].action = "quarantine"
        /\ journal \in JournalType /\ running \in [Container -> BOOLEAN] /\ login \in BOOLEAN /\ published \in BOOLEAN
        /\ UNCHANGED <<running, login, published, state, op, effects>>
    BY <1>2 DEF RecordQuarantine, HoldsOn, catalogVars, hostVars, IInv, TypeOK, JournalType
  <2>2. CASE UNCHANGED journal /\ journal.op = n /\ journal.phase[r] # "none"
    <3>1. /\ WorkerInv' /\ LockInv' /\ adapter' \in [Adapter -> RunRecord] /\ HostLive
          /\ adapter'[a].pc = "change" /\ Like(a) /\ \A b \in Adapter : adapter'[b].pc \in Holding => b = a
          /\ adapter'[mine].pc = "done" /\ wpc = "wait" => adapter[mine].pc = "done" /\ adapter'[mine] = adapter[mine]
      BY <2>1, <2>2, HoldsOnKeeps DEF Late, Shut
    <3>2. TypeOK'
      BY <2>2, <3>1 DEF RecordQuarantine, IInv, TypeOK, RunRecord, catalogVars, hostVars
    <3>3. RunInv'
      BY <1>2, <2>1, <2>2, <3>1 DEF RunInv, MayClose, Like
    <3>4. HostInv' /\ JournalInv'
      BY <2>2, <3>1, HostKept DEF RecordQuarantine
    <3> QED
      BY <3>1, <3>2, <3>3, <3>4 DEF IInv
  <2>3. CASE ~ (journal.op = n /\ journal.phase[r] # "none")
    \* Only a quarantine of the recorded delete writes to its journal for the first time.
    <3>1. state = "deleting" /\ n = op /\ ~ Touched(r) /\ ~ Late(a)
      BY <2>1, <2>3 DEF IInv, LockInv, Current, Late, Closing, HostInv, DeletedHost, RestoringHost,
         Touched, HoldsOn, TypeOK
    <3>2. journal' = Observe(r, JournalOf(n)) /\ JournalOf(n) \in JournalType
      <4>1. JournalOf(n) \in JournalType /\ JournalOf(n).phase[r] = "none"
        BY <2>1, <2>3, JournalOfWrites
      <4> QED
        BY <1>2, <4>1 DEF Recorded
    <3>3. /\ journal' \in JournalType /\ journal'.op = op /\ journal'.phase[r] # "none"
          /\ \A x \in Resource \ {r} : journal'.phase[x] = IF journal.op = op THEN journal.phase[x] ELSE "none"
          /\ \A c \in Container \ {r} : journal'.ran[c] = IF journal.op = op THEN journal.ran[c] ELSE FALSE
          /\ r # Tenant => journal'.ran[r] = running[r] /\
                           (journal.op = op => journal'.login = journal.login /\ journal'.entry = journal.entry)
          /\ r = Tenant => journal'.login = login /\ journal'.entry = published
      <4> HIDE DEF r, n
      <4> DEFINE j == JournalOf(op)
      <4>1. /\ j \in JournalType /\ j.op = op
            /\ journal.op = op => j = journal
            /\ journal.op # op => (\A x \in Resource : j.phase[x] = "none") /\ \A c \in Container : j.ran[c] = FALSE
        BY <2>1, <3>1, JournalOfWrites
      <4> HIDE DEF j
      <4>2. /\ Observe(r, j) \in JournalType /\ Observe(r, j).op = j.op
            /\ Observe(r, j).phase[r] = "recorded"
            /\ \A x \in Resource \ {r} : Observe(r, j).phase[x] = j.phase[x]
            /\ \A c \in Container : Observe(r, j).ran[c] = IF c = r THEN running[c] ELSE j.ran[c]
            /\ r = Tenant => Observe(r, j).login = login /\ Observe(r, j).entry = published
            /\ r # Tenant => Observe(r, j).login = j.login /\ Observe(r, j).entry = j.entry
        BY <2>1, <4>1, ObserveWrites
      <4>3. journal' = Observe(r, j)
        BY <3>1, <3>2 DEF j
      <4> QED
        BY <2>1, <4>1, <4>2, <4>3
    <3>4. /\ WorkerInv' /\ LockInv' /\ adapter' \in [Adapter -> RunRecord] /\ HostLive
          /\ adapter'[a].pc = "change" /\ Like(a) /\ \A b \in Adapter : adapter'[b].pc \in Holding => b = a
          /\ adapter'[mine].pc = "done" /\ wpc = "wait" => adapter[mine].pc = "done" /\ adapter'[mine] = adapter[mine]
      BY <2>1, <3>1, HoldsOnKeeps
    <3>5. TypeOK'
      BY <3>3, <3>4 DEF RecordQuarantine, IInv, TypeOK, RunRecord, JournalType, catalogVars, hostVars
    <3>6. RunInv'
      BY <1>2, <2>1, <3>1, <3>3, <3>4 DEF RunInv, MayClose, Like
    <3>7. JournalInv'
      <4>1. IF r = Tenant THEN login /\ published ELSE running[r] = (r \in Serving)
        BY <2>1, <3>1, <3>4 DEF IInv, HostInv, DeletingHost
      <4>2. ASSUME NEW c \in Container
            PROVE  IF journal'.phase[c] = "none" THEN ~ journal'.ran[c] ELSE journal'.ran[c] = (c \in Serving)
        <5>1. CASE c = r
          BY <3>3, <4>1, <5>1
        <5>2. CASE c # r
          BY <3>3, <5>2 DEF IInv, JournalInv
        <5> QED
          BY <5>1, <5>2
      <4>3. journal'.phase[Tenant] # "none" => journal'.login /\ journal'.entry
        BY <2>1, <3>3, <4>1 DEF IInv, JournalInv
      <4>4. journal'.op <= op'
        BY <2>1, <3>3 DEF IInv, TypeOK
      <4> QED
        BY <4>2, <4>3, <4>4 DEF JournalInv
    <3>8. HostInv'
      <4>1. \A x \in Resource : Touched(x) => x # r /\ Touched(x)'
        BY <2>1, <3>1, <3>3 DEF Touched
      <4>2. \A x \in Resource : ClosedOff(x) => x # r /\ ClosedOff(x)'
        BY <2>1, <3>1, <3>3 DEF ClosedOff, Touched, Shut
      <4>3. DeletingHost'
        BY <2>1, <3>1, <3>4, <4>1, <4>2 DEF IInv, HostInv, DeletingHost, HoldsOn, AllDone, TypeOK,
           WorkerInv
      <4> QED
        BY <2>1, <3>1, <4>3 DEF IInv, HostInv
    <3> QED
      BY <3>4, <3>5, <3>6, <3>7, <3>8 DEF IInv
  <2>4. journal.op = n /\ journal.phase[r] # "none" => UNCHANGED journal
    BY <1>2 DEF Recorded, JournalOf
  <2> QED
    BY <2>2, <2>3, <2>4
<1> QED
  BY <1>1, <1>2 DEF RecordQuarantine

LEMMA RecordRestoreKeeps == ASSUME IInv, NEW a \in Adapter, RecordRestore(a) PROVE IInv'
<1> DEFINE r == adapter[a].resource  n == adapter[a].op
<1>1. CASE Ends(a, "failed") /\ UNCHANGED journal
  BY <1>1, FailedKeeps DEF RecordRestore, Alive
<1>2. CASE /\ MayOpen(r, n) /\ Goes(a, "change")
           /\ journal' = IF r = Tenant THEN [journal EXCEPT !.restoreOp = n] ELSE journal
  <2>1. /\ HoldsOn(a, "change") /\ r \in Resource /\ n \in 0 .. MaxOp /\ adapter[a].action = "restore"
        /\ UNCHANGED <<running, login, published, state, op, effects>>
    BY <1>2 DEF RecordRestore, HoldsOn, catalogVars, hostVars, IInv, TypeOK
  <2>2. /\ journal' \in JournalType /\ journal.phase[r] # "none"
        /\ journal'.op = journal.op /\ journal'.phase = journal.phase /\ journal'.ran = journal.ran
        /\ journal'.login = journal.login /\ journal'.entry = journal.entry
    BY <1>2, <2>1 DEF MayOpen, IInv, TypeOK, JournalType
  <2>3. /\ WorkerInv' /\ LockInv' /\ adapter' \in [Adapter -> RunRecord] /\ HostLive
        /\ adapter'[a].pc = "change" /\ Like(a) /\ \A b \in Adapter : adapter'[b].pc \in Holding => b = a
        /\ adapter'[mine].pc = "done" /\ wpc = "wait" => adapter[mine].pc = "done" /\ adapter'[mine] = adapter[mine]
    BY <2>1, <2>2, HoldsOnKeeps DEF Late, Shut
  <2>4. TypeOK'
    BY <2>2, <2>3 DEF RecordRestore, IInv, TypeOK, RunRecord, JournalType, catalogVars, hostVars
  <2>5. RunInv'
    BY <2>1, <2>2, <2>3 DEF RunInv, Like
  <2>6. JournalInv'
    BY <2>1, <2>2 DEF IInv, JournalInv
  <2>7. HostInv'
    BY <2>1, <2>2, <2>3 DEF IInv, HostInv, ActiveHost, DeletingHost, DeletedHost, RestoringHost, Touched,
       ClosedOff, Shut, AllDone, HoldsOn
  <2> QED
    BY <2>3, <2>4, <2>5, <2>6, <2>7 DEF IInv
<1> QED
  BY <1>1, <1>2 DEF RecordRestore

LEMMA ChangeKeeps == ASSUME IInv, NEW a \in Adapter, Change(a) PROVE IInv'
<1> DEFINE r == adapter[a].resource  pc == IF r = Tenant THEN "publish" ELSE "save"
<1>1. /\ HoldsOn(a, pc) /\ r \in Resource /\ adapter[a].pc = "change" /\ pc \in Holding
      /\ UNCHANGED <<journal, published, state, op, effects>>
  BY DEF Change, HoldsOn, catalogVars, IInv, TypeOK
<1>2. /\ journal.phase[r] # "none" /\ adapter[a].action \in {"quarantine", "restore"}
      /\ adapter[a].action = "quarantine" =>
           journal.op = adapter[a].op /\ (r = Tenant => \A c \in Container : ~ running[c])
  BY <1>1 DEF IInv, RunInv, WorkerInv, Alive
<1>3. /\ running' \in [Container -> BOOLEAN] /\ login' \in BOOLEAN
      /\ r = Tenant => UNCHANGED running /\ (IF adapter[a].action = "quarantine" THEN ~ login' ELSE login')
      /\ r # Tenant => /\ UNCHANGED login /\ \A c \in Container \ {r} : running'[c] = running[c]
                       /\ adapter[a].action = "quarantine" => ~ running'[r]
                       /\ adapter[a].action = "restore" => running'[r] = (running[r] \/ r \in Serving)
  BY <1>1, <1>2 DEF Change, IInv, TypeOK, JournalInv
<1>4. Late(a) => journal'.op # op /\ (state = "restoring" => Shut')
  BY <1>1, <1>2, <1>3 DEF Late, Closing, Shut
<1>5. /\ WorkerInv' /\ LockInv' /\ adapter' \in [Adapter -> RunRecord] /\ HostLive /\ (Current(a) \/ Late(a))
      /\ adapter'[a].pc = pc /\ Like(a) /\ \A b \in Adapter : adapter'[b].pc \in Holding => b = a
      /\ adapter'[mine].pc = "done" /\ wpc = "wait" => adapter[mine].pc = "done" /\ adapter'[mine] = adapter[mine]
  BY <1>1, <1>4, HoldsOnKeeps
<1>6. TypeOK'
  BY <1>1, <1>3, <1>5 DEF HoldsOn, IInv, TypeOK, RunRecord, catalogVars
<1>7. RunInv'
  BY <1>1, <1>2, <1>3, <1>5 DEF RunInv, Like
<1>8. JournalInv'
  BY <1>1 DEF IInv, JournalInv
<1>9. HostInv'
  <2>1. CASE state = "active"
    <3>1. adapter[a].action = "restore" /\ login /\ published /\ (\A c \in Serving : running[c])
      BY <2>1, <1>2, <1>5 DEF IInv, HostInv, ActiveHost, Current, Late, Closing
    <3>2. login' /\ (\A c \in Container : running'[c] <=> running[c] \/ (c = r /\ r \in Serving))
      BY <3>1, <1>1, <1>3
    <3> QED
      BY <2>1, <3>1, <3>2, <1>1 DEF IInv, HostInv, ActiveHost
  <2>2. CASE state = "deleting"
    BY <2>2, <1>1, <1>2, <1>3, <1>5 DEF IInv, HostInv, DeletingHost, Current, Late, Closing, Touched,
       ClosedOff, Shut, AllDone, HoldsOn
  <2>3. CASE state = "deleted"
    BY <2>3, <1>1, <1>2, <1>3, <1>5 DEF IInv, HostInv, DeletedHost, Current, Late, Closing, Shut
  <2>4. CASE state = "restoring"
    BY <2>4, <1>1, <1>2, <1>3, <1>5 DEF IInv, HostInv, RestoringHost, Current, Late, Closing, Shut,
       HoldsOn
  <2> QED
    BY <2>1, <2>2, <2>3, <2>4 DEF IInv, TypeOK
<1> QED
  BY <1>5, <1>6, <1>7, <1>8, <1>9 DEF IInv

LEMMA PublishKeeps == ASSUME IInv, NEW a \in Adapter, Publish(a) PROVE IInv'
<1> DEFINE r == adapter[a].resource
<1>1. /\ HoldsOn(a, "save") /\ r = Tenant /\ adapter[a].pc = "publish"
      /\ UNCHANGED <<journal, running, login, state, op, effects>>
  BY DEF Publish, HoldsOn, catalogVars, IInv, RunInv
<1>2. /\ journal.phase[Tenant] # "none" /\ adapter[a].action \in {"quarantine", "restore"}
      /\ adapter[a].action = "quarantine" =>
           journal.op = adapter[a].op /\ ~ login /\ \A c \in Container : ~ running[c]
  BY <1>1 DEF IInv, RunInv, WorkerInv, Alive
<1>3. published' = (adapter[a].action = "restore")
  BY <1>1, <1>2 DEF Publish, IInv, TypeOK, JournalInv
<1>4. Late(a) => journal'.op # op /\ (state = "restoring" => Shut')
  BY <1>1, <1>2, <1>3 DEF Late, Closing, Shut
<1>5. /\ WorkerInv' /\ LockInv' /\ adapter' \in [Adapter -> RunRecord] /\ HostLive /\ (Current(a) \/ Late(a))
      /\ adapter'[a].pc = "save" /\ Like(a) /\ \A b \in Adapter : adapter'[b].pc \in Holding => b = a
      /\ adapter'[mine].pc = "done" /\ wpc = "wait" => adapter[mine].pc = "done" /\ adapter'[mine] = adapter[mine]
  BY <1>1, <1>4, HoldsOnKeeps
<1>6. TypeOK'
  BY <1>1, <1>3, <1>5 DEF HoldsOn, IInv, TypeOK, RunRecord, catalogVars
<1>7. RunInv'
  BY <1>1, <1>2, <1>3, <1>5 DEF RunInv, Like
<1>8. JournalInv'
  BY <1>1 DEF IInv, JournalInv
<1>9. HostInv'
  <2>1. CASE state = "active"
    BY <2>1, <1>1, <1>2, <1>3, <1>5 DEF IInv, HostInv, ActiveHost, Current, Late, Closing
  <2>2. CASE state = "deleting"
    BY <2>2, <1>1, <1>2, <1>3, <1>5 DEF IInv, HostInv, DeletingHost, Current, Late, Closing, Touched,
       ClosedOff, Shut, AllDone, HoldsOn
  <2>3. CASE state = "deleted"
    BY <2>3, <1>1, <1>2, <1>3, <1>5 DEF IInv, HostInv, DeletedHost, Current, Late, Closing, Shut
  <2>4. CASE state = "restoring"
    BY <2>4, <1>1, <1>2, <1>3, <1>5 DEF IInv, HostInv, RestoringHost, Current, Late, Closing, Shut,
       HoldsOn
  <2> QED
    BY <2>1, <2>2, <2>3, <2>4 DEF IInv, TypeOK
<1> QED
  BY <1>5, <1>6, <1>7, <1>8, <1>9 DEF IInv

LEMMA SavePhaseKeeps == ASSUME IInv, NEW a \in Adapter, SavePhase(a) PROVE IInv'
<1> DEFINE r == adapter[a].resource  closing == adapter[a].action = "quarantine"
<1>1. /\ Alive(a) /\ adapter[a].pc = "save" /\ r \in Resource /\ Ends(a, "done")
      /\ UNCHANGED <<platform, wpc, mine, state, op, effects, running, login, published>>
  BY DEF SavePhase, Alive, catalogVars, hostVars, IInv, TypeOK
<1>2. /\ journal.phase[r] # "none" /\ (Current(a) \/ Late(a))
      /\ closing => /\ journal.op = adapter[a].op
                    /\ r = Tenant => Shut
  BY <1>1 DEF IInv, RunInv, LockInv, Shut
<1>3. /\ journal' \in JournalType /\ journal'.op = journal.op /\ journal'.ran = journal.ran
      /\ journal'.login = journal.login /\ journal'.entry = journal.entry
      /\ journal'.phase[r] = IF closing THEN "quarantined" ELSE "restored"
      /\ \A x \in Resource \ {r} : journal'.phase[x] = journal.phase[x]
  BY <1>1 DEF SavePhase, IInv, TypeOK, JournalType, Phase
<1>4. /\ WorkerInv' /\ adapter' \in [Adapter -> RunRecord] /\ (HostLive' => HostLive)
      /\ wpc = "wait" /\ adapter'[mine].pc = "done" =>
           /\ adapter[mine].pc # "done" => a = mine
           /\ adapter'[mine].resource = adapter[mine].resource
      /\ \A b \in Adapter : adapter'[b].pc \in Holding => adapter'[b] = adapter[b] /\ b # a
  BY <1>1, EndsWorker
<1>5. \A b \in Adapter : adapter'[b].pc \notin Holding
  BY <1>1, <1>4 DEF IInv, LockInv
<1>6. LockInv' /\ RunInv'
  BY <1>5 DEF LockInv, RunInv
<1>7. TypeOK'
  BY <1>3, <1>4 DEF SavePhase, IInv, TypeOK, RunRecord, JournalType, catalogVars, hostVars
<1>8. JournalInv'
  BY <1>1, <1>2, <1>3 DEF IInv, JournalInv
<1>9. HostInv'
  <2>1. CASE state = "active"
    BY <2>1, <1>1, <1>4 DEF IInv, HostInv, ActiveHost
  <2>2. CASE state = "deleting"
    <3>1. \A x \in Resource : Touched(x) <=> Touched(x)'
      BY <1>2, <1>3, <1>1 DEF Touched
    \* A late restore does not write to the journal of the delete.
    <3>2. journal.op = op => closing /\ Current(a)
      BY <2>2, <1>2 DEF Current, Late, Closing
    <3>3. \A x \in Resource : ClosedOff(x) => ClosedOff(x)'
      BY <1>1, <1>3, <3>2 DEF ClosedOff, Shut
    <3>4. wpc = "wait" /\ adapter'[mine].pc = "done" => ClosedOff(adapter[mine].resource)'
      <4>1. CASE wpc = "wait" /\ a = mine
        BY <4>1, <2>2, <1>1, <1>2, <1>3, <1>4 DEF ClosedOff, Shut, Current, Late, Closing
      <4>2. CASE wpc = "wait" /\ a # mine /\ adapter'[mine].pc = "done"
        BY <4>2, <2>2, <1>1, <1>4, <3>3 DEF IInv, HostInv, DeletingHost, WorkerInv, TypeOK
      <4> QED
        BY <4>1, <4>2
    <3>5. DeletingHost'
      BY <2>2, <1>1, <1>4, <3>1, <3>3, <3>4 DEF IInv, HostInv, DeletingHost, AllDone
    <3> QED
      BY <2>2, <1>1, <3>5 DEF IInv, HostInv
  <2>3. CASE state = "deleted"
    BY <2>3, <1>1, <1>2, <1>3 DEF IInv, HostInv, DeletedHost, Current, Late, Closing, Shut
  <2>4. CASE state = "restoring"
    BY <2>4, <1>1, <1>3 DEF IInv, HostInv, RestoringHost
  <2> QED
    BY <2>1, <2>2, <2>3, <2>4 DEF IInv, TypeOK
<1> QED
  BY <1>4, <1>6, <1>7, <1>8, <1>9 DEF IInv

-------------------------------------------------------------------------------
LEMMA StutterKeeps == ASSUME IInv, UNCHANGED vars PROVE IInv'
BY DEF IInv, vars, catalogVars, hostVars, processVars, TypeOK, WorkerInv, LockInv, RunInv, JournalInv,
   HostInv, Alive, Current, Late, Closing, Shut, ActiveHost, DeletingHost, DeletedHost, RestoringHost,
   Touched, ClosedOff, HostLive, AllDone

LEMMA StepKeeps == IInv /\ [Next]_vars => IInv'
<1> SUFFICES ASSUME IInv, [Next]_vars PROVE IInv'
  OBVIOUS
<1>1. CASE UNCHANGED vars
  BY <1>1, StutterKeeps
<1>2. CASE Request
  BY <1>2, deleteEnvironmentKeeps, restoreEnvironmentKeeps, RetentionExpiresKeeps,
     resumeLifecycleOperationKeeps, OperatorStopKeeps DEF Request
<1>3. CASE WorkerStep
  BY <1>3, WorkerStartsKeeps, BeginOperationKeeps, AuthorityLostKeeps, StartEffectKeeps, SettleRunKeeps,
     CheckReadinessKeeps, finishLifecycleKeeps DEF WorkerStep
<1>4. CASE \E a \in Adapter : RunStep(a)
  BY <1>4, EnterRunKeeps, RecordQuarantineKeeps, RecordRestoreKeeps, ChangeKeeps, PublishKeeps,
     SavePhaseKeeps DEF RunStep
<1>5. CASE Start
  BY <1>5, StartKeeps
<1>6. CASE Fault
  BY <1>6, RevokeKeeps, ReadFailsKeeps, WorkerCrashKeeps, SupervisorDiesKeeps, PowerLossKeeps, RunFailsKeeps
     DEF Fault
<1> QED
  BY <1>1, <1>2, <1>3, <1>4, <1>5, <1>6 DEF Next, Step

\* The invariant the properties below are read from.
THEOREM Inductive == Spec => []IInv
BY InitIInv, StepKeeps, PTL DEF Spec

\* Every variable keeps its type.
THEOREM TypeCorrect == Spec => []TypeOK
<1>1. IInv => TypeOK
  BY DEF IInv
<1> QED
  BY <1>1, Inductive, PTL

\* A deleted environment is closed and stays closed, whatever restarts and whichever run of an
\* operation that is over goes on (catalog.ts finishLifecycle, durable_lifecycle.py).
THEOREM DeletedStaysClosed == Spec => []DeletedIsClosed
<1>1. IInv => DeletedIsClosed
  BY DEF IInv, HostInv, DeletedHost, Shut, DeletedIsClosed
<1> QED
  BY <1>1, Inductive, PTL

\* An environment that is active serves what it served before it was first deleted.
THEOREM ActiveServesAgain == Spec => []ActiveIsWhole
<1>1. IInv => ActiveIsWhole
  BY DEF IInv, HostInv, ActiveHost, HostLive, ActiveIsWhole
<1> QED
  BY <1>1, Inductive, PTL

-------------------------------------------------------------------------------
(* What a step does to the logins and to the entry. *)

\* Only a run that has the lock changes a login, and only Publish the entry.
LEMMA OnlyRunsChange ==
  ASSUME [Next]_vars, login' # login \/ published' # published
  PROVE  \E a \in Adapter : \/ Change(a) /\ UNCHANGED published /\ adapter[a].resource = Tenant
                            \/ Publish(a) /\ UNCHANGED login
BY DEF Next, vars, Step, Request, WorkerStep, RunStep, Fault, deleteEnvironment, restoreEnvironment,
   RetentionExpires, resumeLifecycleOperation, OperatorStop, WorkerStarts, BeginOperation, AuthorityLost,
   StartEffect, SettleRun, CheckReadiness, finishLifecycle, EnterRun, RecordQuarantine, RecordRestore, Change,
   Publish, SavePhase, Start, Revoke, ReadFails, WorkerCrash, SupervisorDies, PowerLoss, RunFails, hostVars,
   catalogVars, processVars

\* Such a run works on the tenant, has the lock, and its journal knows what it found.
LEMMA TenantRun ==
  ASSUME IInv, NEW a \in Adapter, (Change(a) /\ adapter[a].resource = Tenant) \/ Publish(a)
  PROVE  /\ Current(a) \/ Late(a)
         /\ adapter[a].action \in {"quarantine", "restore"} /\ journal.login /\ journal.entry /\ UNCHANGED state
         /\ journal.phase[Tenant] # "none"
         /\ adapter[a].action = "quarantine" => journal.op = adapter[a].op /\ \A c \in Container : ~ running[c]
BY DEF IInv, LockInv, RunInv, WorkerInv, Alive, JournalInv, Change, Publish, catalogVars

\* Logins and entry close under a pending delete and open under a pending restore only: no run
\* that outlived its worker acts for an operation that is over (durable_lifecycle.py catalog_verifier).
THEOREM IntentGoverns == Spec => OnlyUnderIntent
<1>1. ASSUME IInv, [Next]_vars
      PROVE  [/\ (login /\ ~ login') \/ (published /\ ~ published') => state = "deleting"
              /\ (~ login /\ login') \/ (~ published /\ published') => state = "restoring"]_vars
  <2>1. CASE login' = login /\ published' = published
    BY <2>1
  <2>2. ASSUME NEW a \in Adapter, \/ Change(a) /\ UNCHANGED published /\ adapter[a].resource = Tenant
                                  \/ Publish(a) /\ UNCHANGED login
        PROVE  /\ (login /\ ~ login') \/ (published /\ ~ published') => state = "deleting"
               /\ (~ login /\ login') \/ (~ published /\ published') => state = "restoring"
    <3>1. /\ Current(a) \/ Late(a)
          /\ adapter[a].action \in {"quarantine", "restore"} /\ journal.login /\ journal.entry
      BY <2>2, <1>1, TenantRun
    <3>2. /\ login \in BOOLEAN /\ published \in BOOLEAN
          /\ state \in {"active", "deleting", "deleted", "restoring"}
      BY <1>1 DEF IInv, TypeOK
    <3>3. adapter[a].action = "quarantine" => (~ login \/ login' = login \/ ~ login') /\ (login' => login)
                                              /\ (published' => published)
      BY <2>2, <3>1, <3>2 DEF Change, Publish
    <3>4. adapter[a].action = "restore" => (login => login') /\ (published => published')
      BY <2>2, <3>1, <3>2 DEF Change, Publish
    <3>5. adapter[a].action = "quarantine" /\ (login \/ published) => state = "deleting"
      BY <1>1, <3>1, <3>2 DEF Current, Late, Closing, Shut, IInv, HostInv, DeletedHost
    <3>6. adapter[a].action = "restore" /\ (~ login \/ ~ published) => state = "restoring"
      BY <1>1, <3>1, <3>2 DEF Current, Late, Closing, IInv, HostInv, ActiveHost, DeletingHost, Touched
    <3> QED
      BY <3>1, <3>3, <3>4, <3>5, <3>6
  <2> QED
    BY <1>1, <2>1, <2>2, OnlyRunsChange
<1> QED
  BY <1>1, Inductive, PTL DEF Spec, OnlyUnderIntent

\* The database logins close only after every container has stopped.
THEOREM LoginsClosedLast == Spec => LoginsCloseLast
<1>1. ASSUME IInv, [Next]_vars PROVE [login /\ ~ login' => \A c \in Container : ~ running[c]]_vars
  <2>1. CASE login' = login
    BY <2>1
  <2>2. ASSUME NEW a \in Adapter, Change(a), adapter[a].resource = Tenant
        PROVE  login /\ ~ login' => \A c \in Container : ~ running[c]
    BY <2>2, <1>1, TenantRun DEF Change, IInv, TypeOK
  <2> QED
    BY <1>1, <2>1, <2>2, OnlyRunsChange
<1> QED
  BY <1>1, Inductive, PTL DEF Spec, LoginsCloseLast

-----------------------------------------------------------------------------
(* The outbox. *)

Results == {"delivered", "transient", "failed"}
Errors == {"none", "send", "channel_disabled", "redaction_refused"}
RowType == [state : RowStates, attempts : Nat, wait : Nat, lapsed : BOOLEAN, error : Errors,
            reclaims : Nat, reported : BOOLEAN]
ItemType == [event : Slots, channel : Channels, claim : Nat]
Busy == {"work", "sent", "escalate", "refuse"}
DrainType == [phase : {"idle", "prune"} \cup Busy, channels : SUBSET Channels, batch : Seq(ItemType),
              result : {"none"} \cup Results]

NoKey == <<"none">>
EventType == [key : EventKeys \cup {NoKey}, window : Nat, refused : BOOLEAN]

OutboxTypeInv ==
  /\ outbox \in [Slots -> EventType]
  /\ row \in [Slots -> [Channels -> RowType]]
  /\ drain \in [Drains -> DrainType]
  /\ enabled \in SUBSET Channels

\* A drain at work has an item in hand, and one that has sent has an answer; an event that is not there has no rows.
InOrder(w) ==
  /\ w.batch = <<>> <=> w.phase \in {"idle", "prune"}
  /\ w.phase = "sent" => w.result # "none"
BatchInv == \A d \in Drains : InOrder(drain[d])
EventInv ==
  \A s \in Slots :
    /\ outbox[s] = NoEvent => \A c \in Channels : row[s][c] = NoRow
    /\ outbox[s].key = NoKey => outbox[s] = NoEvent

OutboxInv == OutboxTypeInv /\ BatchInv /\ EventInv /\ BudgetHolds /\ FailureReported

\* What a step may do to one row of the event in slot s.
RowMoves(s, r, q) ==
  \/ q = r
  \/ q = NoRow /\ r.state \in Settled \cup {"none"}
  \/ r = NoRow /\ q = FreshRow /\ s \in Free
  \/ r.state \in {"pending", "claimed"} /\ q = Claimed(r)
  \/ r.state = "claimed" /\ q = [r EXCEPT !.lapsed = TRUE]
  \/ r.state = "claimed" /\ \E o \in Results, x \in Errors : q = After(r, o, x)
  \/ r.state = "failed" /\ q = [r EXCEPT !.reported = TRUE]
  \/ q = [r EXCEPT !.wait = Less(@)]

\* A row whose failed send nobody was told of, and the drain that is about to tell.
Untold(r) == r.state = "failed" /\ r.error = "send" /\ ~ r.reported
Tells(d, s, c) == At(d, "escalate") /\ Item(d).event = s /\ Item(d).channel = c

RowsMove == \A s \in Slots, c \in Channels : RowMoves(s, row[s][c], row'[s][c])

-----------------------------------------------------------------------------
(* Rows. *)

LEMMA BackoffType == ASSUME NEW n \in Nat PROVE Backoff(n) \in Nat
<1>1. BACKOFF \in Seq(Nat) /\ Len(BACKOFF) \in Nat /\ Len(BACKOFF) # 0
  BY OutboxAssumption
<1>2. \A k \in 1 .. Len(BACKOFF) : BACKOFF[k] \in Nat
  BY <1>1
<1> QED BY <1>1, <1>2 DEF Backoff

\* A row keeps its type and its retry budget, and leaves a settled state only with its event.
LEMMA RowMovesKeep ==
  ASSUME NEW s, NEW r \in RowType, NEW q, RowMoves(s, r, q),
         r.attempts <= MAX_ATTEMPTS + r.reclaims,
         r.state = "pending" => r.attempts < MAX_ATTEMPTS
  PROVE  /\ q \in RowType
         /\ q.attempts <= MAX_ATTEMPTS + q.reclaims
         /\ q.state = "pending" => q.attempts < MAX_ATTEMPTS
         /\ r.state \in Settled => q.state \in {r.state, "none"}
         /\ r.state \in {"pending", "claimed"} => q.state # "none"
         /\ q.state = "none" \/ q.attempts >= r.attempts
         /\ r.state = "none" => q.state = "none" \/ s \in Free
<1>0. /\ MAX_ATTEMPTS \in Nat \ {0}
      /\ r.attempts \in Nat /\ r.wait \in Nat /\ r.reclaims \in Nat /\ r.state \in RowStates
      /\ r = [state |-> r.state, attempts |-> r.attempts, wait |-> r.wait, lapsed |-> r.lapsed, error |-> r.error,
              reclaims |-> r.reclaims, reported |-> r.reported]
  BY OutboxAssumption DEF RowType
<1>1. CASE q = r
  BY <1>0, <1>1
<1>2. CASE q = NoRow /\ r.state \in Settled \cup {"none"}
  BY <1>0, <1>2 DEF NoRow, RowType, RowStates, Errors, Settled
<1>3. CASE r = NoRow /\ q = FreshRow /\ s \in Free
  <2>1. q = [state |-> "pending", attempts |-> 0, wait |-> 0, lapsed |-> FALSE, error |-> "none", reclaims |-> 0,
             reported |-> FALSE]
    BY <1>3 DEF NoRow, FreshRow
  <2>2. r.state = "none"
    BY <1>3 DEF NoRow
  <2> QED BY <1>0, <2>1, <1>3, <2>2 DEF RowType, RowStates, Errors, Settled, NoRow
<1>4. CASE r.state \in {"pending", "claimed"} /\ q = Claimed(r)
  <2> DEFINE again == IF r.state = "claimed" THEN r.reclaims + 1 ELSE r.reclaims
  <2>1. q = [state |-> "claimed", attempts |-> r.attempts + 1, wait |-> r.wait, lapsed |-> FALSE,
             error |-> r.error, reclaims |-> again, reported |-> r.reported]
    BY <1>4 DEF Claimed, RowType
  <2>2. again \in Nat /\ r.attempts + 1 <= MAX_ATTEMPTS + again
    BY <1>0, <1>4
  <2> HIDE DEF again
  <2>3. q \in RowType
    BY <1>0, <2>1, <2>2 DEF RowType, RowStates
  <2> QED BY <1>0, <1>4, <2>1, <2>2, <2>3 DEF Settled
<1>5. CASE r.state = "claimed" /\ q = [r EXCEPT !.lapsed = TRUE]
  <2>1. q.state = r.state /\ q.attempts = r.attempts /\ q.reclaims = r.reclaims /\ q \in RowType
    BY <1>5 DEF RowType
  <2> QED BY <1>0, <1>5, <2>1 DEF Settled
<1>6. CASE r.state = "claimed" /\ \E o \in Results, x \in Errors : q = After(r, o, x)
  <2>1. PICK o \in Results, x \in Errors : q = After(r, o, x)
    BY <1>6
  <2>2. CASE o = "delivered"
    <3>1. q = [r EXCEPT !.state = "delivered", !.error = "none", !.wait = 0, !.lapsed = FALSE]
      BY <2>1, <2>2 DEF After
    <3>2. q = [state |-> "delivered", attempts |-> r.attempts, wait |-> 0, lapsed |-> FALSE, error |-> "none",
               reclaims |-> r.reclaims, reported |-> r.reported]
      BY <3>1 DEF RowType
    <3>3. q \in RowType
      BY <1>0, <3>2 DEF RowType, RowStates, Errors
    <3> QED BY <1>0, <1>6, <3>2, <3>3 DEF Settled
  <2>3. CASE o # "delivered" /\ Permanent(r, o)
    <3>1. q = [r EXCEPT !.state = "failed", !.error = x, !.wait = 0, !.lapsed = FALSE]
      BY <2>1, <2>3 DEF After
    <3>2. q = [state |-> "failed", attempts |-> r.attempts, wait |-> 0, lapsed |-> FALSE, error |-> x,
               reclaims |-> r.reclaims, reported |-> r.reported]
      BY <3>1 DEF RowType
    <3>3. x \in Errors
      BY <2>1
    <3>4. q \in RowType
      BY <1>0, <3>2, <3>3 DEF RowType, RowStates
    <3> QED BY <1>0, <1>6, <3>2, <3>4 DEF Settled
  <2>4. CASE o # "delivered" /\ ~ Permanent(r, o)
    <3>1. q = [r EXCEPT !.state = "pending", !.error = x, !.lapsed = FALSE, !.wait = Backoff(r.attempts)]
      BY <2>1, <2>4 DEF After
    <3>2. Backoff(r.attempts) \in Nat
      BY <1>0, BackoffType
    <3>3. r.attempts < MAX_ATTEMPTS
      BY <1>0, <2>4 DEF Permanent
    <3>4. q = [state |-> "pending", attempts |-> r.attempts, wait |-> Backoff(r.attempts), lapsed |-> FALSE,
               error |-> x, reclaims |-> r.reclaims, reported |-> r.reported]
      BY <3>1 DEF RowType
    <3>5. x \in Errors
      BY <2>1
    <3>6. q \in RowType
      BY <1>0, <3>2, <3>4, <3>5 DEF RowType, RowStates
    <3> QED BY <1>0, <1>6, <3>3, <3>4, <3>6 DEF Settled
  <2> QED BY <2>2, <2>3, <2>4
<1>7. CASE r.state = "failed" /\ q = [r EXCEPT !.reported = TRUE]
  <2>1. q.state = r.state /\ q.attempts = r.attempts /\ q.reclaims = r.reclaims /\ q \in RowType
    BY <1>7 DEF RowType
  <2> QED BY <1>0, <1>7, <2>1
<1>8. CASE q = [r EXCEPT !.wait = Less(@)]
  <2>1. Less(r.wait) \in Nat
    BY <1>0 DEF Less
  <2>2. q.state = r.state /\ q.attempts = r.attempts /\ q.reclaims = r.reclaims /\ q \in RowType
    BY <1>8, <2>1 DEF RowType
  <2> QED BY <1>0, <2>2
<1> QED BY <1>1, <1>2, <1>3, <1>4, <1>5, <1>6, <1>7, <1>8 DEF RowMoves

-----------------------------------------------------------------------------
(* Drains. *)

\* A batch is a sequence of due rows.
LEMMA BatchesAreDue ==
  ASSUME NEW b \in Batches
  PROVE  b \in Seq(DueItems) /\ Range(b) \subseteq DueItems
<1>1. DueItems \subseteq Slots \X Channels
  BY DEF DueItems
<1>2. IsFiniteSet(DueItems)
  BY <1>1, OutboxAssumption, FS_Product, FS_Subset
<1>3. PICK S \in SUBSET DueItems : b \in SetToSeqs(S)
  BY DEF Batches, SetToAllKPermutations
<1>4. Cardinality(S) \in Nat
  BY <1>2, <1>3, FS_Subset, FS_CardinalityType
<1>5. b \in [1 .. Cardinality(S) -> S]
  BY <1>3 DEF SetToSeqs
<1>6. b \in [1 .. Cardinality(S) -> DueItems]
  BY <1>3, <1>5
<1>7. b \in Seq(DueItems)
  BY <1>4, <1>6
<1> QED BY <1>6, <1>7 DEF Range

\* The item in hand of a drain at work.
LEMMA InHand ==
  ASSUME OutboxTypeInv, BatchInv, NEW d \in Drains, drain[d].phase \notin {"idle", "prune"}
  PROVE  Item(d) \in ItemType /\ Item(d).event \in Slots /\ Item(d).channel \in Channels /\ Item(d).claim \in Nat
<1>1. drain[d].batch \in Seq(ItemType) /\ drain[d].batch # <<>>
  BY DEF OutboxTypeInv, BatchInv, DrainType, InOrder
<1>2. Item(d) \in ItemType
  BY <1>1, HeadTailProperties DEF Item
<1> QED BY <1>2 DEF ItemType

LEMMA NextItemType ==
  ASSUME OutboxTypeInv, BatchInv, NEW d \in Drains, drain[d].phase \notin {"idle", "prune"}
  PROVE  /\ NextItem(d) \in DrainType
         /\ InOrder(NextItem(d))
<1>1. /\ drain[d] \in DrainType
      /\ drain[d].batch \in Seq(ItemType) /\ drain[d].batch # <<>>
  BY DEF OutboxTypeInv, BatchInv, DrainType, InOrder
<1>2. /\ Tail(drain[d].batch) \in Seq(ItemType)
      /\ Len(drain[d].batch) \in Nat /\ Len(drain[d].batch) > 0
      /\ Tail(drain[d].batch) = <<>> <=> Len(drain[d].batch) = 1
  <2>1. Tail(drain[d].batch) \in Seq(ItemType) /\ Len(Tail(drain[d].batch)) = Len(drain[d].batch) - 1
        /\ Len(drain[d].batch) \in Nat /\ Len(drain[d].batch) > 0
    BY <1>1, HeadTailProperties, EmptySeq
  <2>2. \A q \in Seq(ItemType) : q = <<>> <=> Len(q) = 0
    BY EmptySeq
  <2>3. Tail(drain[d].batch) = <<>> <=> Len(Tail(drain[d].batch)) = 0
    BY <2>1, <2>2, Zenon
  <2> QED BY <2>1, <2>3
<1>3. NextItem(d) = [phase |-> IF Len(drain[d].batch) = 1 THEN "prune" ELSE "work", channels |-> drain[d].channels,
                     batch |-> Tail(drain[d].batch), result |-> "none"]
  <2> DEFINE D == drain[d]
  <2>1. D = [phase |-> D.phase, channels |-> D.channels, batch |-> D.batch, result |-> D.result]
    BY <1>1 DEF DrainType
  <2>2. NextItem(d) = [D EXCEPT !.phase = IF Len(D.batch) = 1 THEN "prune" ELSE "work",
                                !.batch = Tail(@), !.result = "none"]
    BY DEF NextItem
  <2> HIDE DEF D, NextItem
  <2>3. NextItem(d) = [phase |-> IF Len(D.batch) = 1 THEN "prune" ELSE "work", channels |-> D.channels,
                     batch |-> Tail(D.batch), result |-> "none"]
    BY <2>1, <2>2
  <2> QED BY <2>3 DEF D
<1> HIDE DEF NextItem
<1> QED BY <1>1, <1>2, <1>3 DEF DrainType, Busy, InOrder

-----------------------------------------------------------------------------
(* What an action does to the rows. *)

\* Every row is left as rows says, or is one more of an event that was not there.
Adds(rows) ==
  \A s \in Slots, c \in Channels :
    \/ row'[s][c] = rows[s][c]
    \/ row[s][c] = NoRow /\ row'[s][c] \in {NoRow, FreshRow} /\ s \in Free

\* No row moves but this one.
Only(s, c) == \A x \in Slots, y \in Channels : x # s \/ y # c => row'[x][y] = row[x][y]

\* Only the rows of an event that is not there yet are written by enqueue.
LEMMA EnqueueRows ==
  ASSUME OutboxInv, NEW key \in EventKeys, NEW channels, NEW refused \in BOOLEAN, NEW rows,
         Enqueue(key, channels, refused, rows), rows \in [Slots -> [Channels -> RowType]],
         \A s \in Slots : outbox[s] = NoEvent => rows[s] = row[s]
  PROVE  /\ outbox' \in [Slots -> EventType]
         /\ row' \in [Slots -> [Channels -> RowType]]
         /\ EventInv'
         /\ Adds(rows)
<1>0. /\ outbox \in [Slots -> EventType] /\ EventInv
      /\ NoRow \in RowType /\ FreshRow \in RowType
  BY DEF OutboxInv, OutboxTypeInv, NoRow, FreshRow, RowType, RowStates, Errors
<1>1. CASE Open(key) # {}
  <2>1. outbox' = outbox /\ row' = rows
    BY <1>1 DEF Enqueue
  <2>2. EventInv'
    <3>1. \A s \in Slots : outbox'[s] = NoEvent => \A c \in Channels : row'[s][c] = NoRow
      BY <1>0, <2>1 DEF EventInv
    <3>2. \A s \in Slots : outbox'[s].key = NoKey => outbox'[s] = NoEvent
      BY <1>0, <2>1 DEF EventInv
    <3> QED BY <3>1, <3>2 DEF EventInv
  <2>3. Adds(rows)
    BY <2>1 DEF Adds
  <2> QED BY <1>0, <2>1, <2>2, <2>3
<1>2. CASE Open(key) = {}
  <2> DEFINE s == CHOOSE x \in Free : TRUE
             event == [key |-> key, window |-> Window[key[1]], refused |-> refused]
             fresh == [c \in Channels |-> IF c \in channels THEN FreshRow ELSE NoRow]
  <2>1. Free # {} /\ outbox' = [outbox EXCEPT ![s] = event] /\ row' = [rows EXCEPT ![s] = fresh]
    BY <1>2 DEF Enqueue
  <2>2. s \in Slots /\ outbox[s] = NoEvent /\ s \in Free
    <3>1. s \in Free
      BY <2>1
    <3> QED BY <3>1 DEF Free
  <2>3. event \in EventType /\ event.key # NoKey /\ event.window # 0
    <3>1. key[1] \in {"event", "channel_failed", "refused"} /\ key # NoKey
      BY DEF EventKeys, NoKey
    <3>2. Window[key[1]] \in Nat \ {0}
      BY <3>1, OutboxAssumption
    <3> QED BY <3>1, <3>2 DEF EventType
  <2>4. fresh \in [Channels -> RowType] /\ \A c \in Channels : fresh[c] \in {NoRow, FreshRow}
    BY <1>0
  <2>5. \A c \in Channels : row[s][c] = NoRow
    BY <1>0, <2>2 DEF EventInv
  <2>6. event # NoEvent
    BY <2>3 DEF NoEvent
  <2> HIDE DEF s, event, fresh
  <2>7. /\ outbox'[s] = event /\ row'[s] = fresh
        /\ \A x \in Slots \ {s} : outbox'[x] = outbox[x] /\ row'[x] = rows[x]
        /\ outbox' \in [Slots -> EventType] /\ row' \in [Slots -> [Channels -> RowType]]
    BY <1>0, <2>1, <2>2, <2>3, <2>4
  <2>8. EventInv'
    BY <1>0, <2>3, <2>6, <2>7 DEF EventInv
  <2>9. ASSUME NEW x \in Slots, NEW c \in Channels
        PROVE  \/ row'[x][c] = rows[x][c]
               \/ row[x][c] = NoRow /\ row'[x][c] \in {NoRow, FreshRow} /\ x \in Free
    BY <2>2, <2>4, <2>5, <2>7
  <2>10. Adds(rows)
    BY <2>9 DEF Adds
  <2> QED BY <2>7, <2>8, <2>10
<1> QED BY <1>1, <1>2

\* A write of one row.
LEMMA OneRow ==
  ASSUME OutboxInv, NEW s \in Slots, NEW c \in Channels, NEW q, RowMoves(s, row[s][c], q),
         row' = [row EXCEPT ![s][c] = q]
  PROVE  /\ row' \in [Slots -> [Channels -> RowType]]
         /\ RowsMove
         /\ row'[s][c] = q
         /\ Only(s, c)
<1>1. row \in [Slots -> [Channels -> RowType]]
  BY DEF OutboxInv, OutboxTypeInv
<1>2. q \in RowType
  <2>1. row[s][c] \in RowType
    BY <1>1
  <2>2. /\ row[s][c].attempts <= MAX_ATTEMPTS + row[s][c].reclaims
        /\ row[s][c].state = "pending" => row[s][c].attempts < MAX_ATTEMPTS
    BY DEF OutboxInv, BudgetHolds
  <2> QED BY <2>1, <2>2, RowMovesKeep
<1>3. /\ row'[s][c] = q
      /\ \A x \in Slots, y \in Channels : x # s \/ y # c => row'[x][y] = row[x][y]
  BY <1>1
<1>4. row' \in [Slots -> [Channels -> RowType]]
  BY <1>1, <1>2
<1>5. RowsMove
  <2>1. \A x \in Slots, y \in Channels : row'[x][y] = row[x][y] \/ (x = s /\ y = c)
    BY <1>3
  <2>2. \A x, r : RowMoves(x, r, r)
    BY DEF RowMoves
  <2> QED BY <1>3, <2>1, <2>2 DEF RowsMove
<1> QED BY <1>3, <1>4, <1>5 DEF Only

\* Rows that stay as they are.
LEMMA NoRowMoves == row' = row => RowsMove
BY DEF RowsMove, RowMoves

\* The retry budget follows from what a step may do to a row.
LEMMA BudgetKept ==
  ASSUME OutboxInv, RowsMove
  PROVE  BudgetHolds'
<1> SUFFICES ASSUME NEW s \in Slots, NEW c \in Channels
             PROVE  /\ row'[s][c].attempts <= MAX_ATTEMPTS + row'[s][c].reclaims
                    /\ row'[s][c].state = "pending" => row'[s][c].attempts < MAX_ATTEMPTS
  BY DEF BudgetHolds
<1>1. RowMoves(s, row[s][c], row'[s][c]) /\ row[s][c] \in RowType
  BY DEF RowsMove, OutboxInv, OutboxTypeInv
<1>2. /\ row[s][c].attempts <= MAX_ATTEMPTS + row[s][c].reclaims
      /\ row[s][c].state = "pending" => row[s][c].attempts < MAX_ATTEMPTS
  BY DEF OutboxInv, BudgetHolds
<1> QED BY <1>1, <1>2, RowMovesKeep

\* Failed sends stay told of when a step adds none, or is the one that will tell, and keeps those who were to tell.
LEMMA ReportKept ==
  ASSUME OutboxInv,
         \A s \in Slots, c \in Channels :
            Untold(row'[s][c]) =>
              \/ \E d \in Drains : Tells(d, s, c)'
              \/ /\ Untold(row[s][c]) /\ \A d \in Drains : Tells(d, s, c) => drain'[d] = drain[d]
                 /\ <<s, c>> \in cut => <<s, c>> \in cut'
  PROVE  FailureReported'
<1> SUFFICES ASSUME NEW s \in Slots, NEW c \in Channels, Untold(row'[s][c]), ~ (<<s, c>> \in cut')
             PROVE  \E d \in Drains : Tells(d, s, c)'
  BY DEF FailureReported, Untold, Escalating, Tells
<1>1. CASE \E d \in Drains : Tells(d, s, c)'
  BY <1>1
<1>2. CASE /\ Untold(row[s][c]) /\ \A d \in Drains : Tells(d, s, c) => drain'[d] = drain[d]
           /\ <<s, c>> \in cut => <<s, c>> \in cut'
  <2>1. ~ (<<s, c>> \in cut)
    BY <1>2
  <2>2. PICK d \in Drains : Tells(d, s, c)
    BY <1>2, <2>1 DEF OutboxInv, FailureReported, Untold, Escalating, Tells
  <2>3. drain'[d] = drain[d]
    BY <1>2, <2>2
  <2> QED BY <2>2, <2>3 DEF Tells, At, Item
<1> QED BY <1>1, <1>2

-----------------------------------------------------------------------------
(* Every step keeps OutboxInv. *)

\* What an action shows of itself; FailureReported and BudgetHolds follow from lemmas.
Kept == OutboxTypeInv' /\ BatchInv' /\ EventInv' /\ RowsMove

LEMMA InvFromKept ==
  ASSUME OutboxInv, Kept, FailureReported' PROVE OutboxInv' /\ RowsMove
BY BudgetKept DEF Kept, OutboxInv

\* A drain that takes up its next item, or goes idle.
LEMMA DrainMoves ==
  ASSUME OutboxInv, NEW d \in Drains, NEW to \in DrainType, drain' = [drain EXCEPT ![d] = to],
         InOrder(to)
  PROVE  /\ drain' \in [Drains -> DrainType] /\ BatchInv'
         /\ drain'[d] = to /\ \A x \in Drains \ {d} : drain'[x] = drain[x]
<1>1. drain \in [Drains -> DrainType]
  BY DEF OutboxInv, OutboxTypeInv
<1>2. /\ drain' \in [Drains -> DrainType]
      /\ drain'[d] = to /\ \A x \in Drains \ {d} : drain'[x] = drain[x]
  BY <1>1
<1>3. BatchInv'
  BY <1>2 DEF BatchInv, OutboxInv
<1> QED BY <1>2, <1>3

LEMMA ProduceKeeps ==
  ASSUME OutboxInv, NEW k \in Keys, NEW refused \in BOOLEAN, Produce(k, refused)
  PROVE  OutboxInv' /\ RowsMove
<1>1. Enqueue(<<"event", k>>, Channels, refused, row) /\ UNCHANGED <<enabled, drain, heard, cut>>
  BY DEF Produce
<1>2. /\ outbox' \in [Slots -> EventType]
      /\ row' \in [Slots -> [Channels -> RowType]]
      /\ EventInv'
      /\ Adds(row)
  <2>1. PICK key \in EventKeys : key = <<"event", k>>
    BY DEF EventKeys
  <2>2. row \in [Slots -> [Channels -> RowType]] /\ \A s \in Slots : outbox[s] = NoEvent => row[s] = row[s]
    BY DEF OutboxInv, OutboxTypeInv
  <2>3. Enqueue(key, Channels, refused, row)
    BY <1>1, <2>1
  <2> QED BY <2>2, <2>3, EnqueueRows
<1>3. RowsMove
  BY <1>2 DEF RowsMove, RowMoves, Adds
<1>4. Kept
  BY <1>1, <1>2, <1>3 DEF Kept, OutboxInv, OutboxTypeInv, BatchInv
<1>5. FailureReported'
  <2>1. \A s \in Slots, c \in Channels : Untold(row'[s][c]) => Untold(row[s][c])
    BY <1>2 DEF Untold, NoRow, FreshRow, Adds
  <2> QED BY <1>1, <2>1, ReportKept DEF OutboxInv, OutboxTypeInv
<1> QED BY <1>4, <1>5, InvFromKept

LEMMA ConfigureKeeps ==
  ASSUME OutboxInv, Configure PROVE OutboxInv' /\ RowsMove
<1>1. UNCHANGED <<outbox, order, row, drain, heard, cut>> /\ enabled' \in SUBSET Channels
  BY OutboxAssumption DEF Configure, tableVars
<1>2. Kept
  BY <1>1, NoRowMoves DEF Kept, OutboxInv, OutboxTypeInv, BatchInv, EventInv
<1>3. FailureReported'
  BY <1>1, ReportKept DEF OutboxInv, OutboxTypeInv
<1> QED BY <1>2, <1>3, InvFromKept

\* A drain that drops its item or its whole batch: the rows stay, and the row whose report it drops is remembered.
LEMMA FaultKeeps ==
  ASSUME OutboxInv, NEW d \in Drains, Raise(d) \/ Die(d)
  PROVE  OutboxInv' /\ RowsMove
<1>1. UNCHANGED <<outbox, order, row, enabled, heard>> /\ cut' = cut \cup CutShort(d)
  BY DEF Raise, Die, tableVars
<1>2. drain' \in [Drains -> DrainType] /\ BatchInv' /\ \A x \in Drains \ {d} : drain'[x] = drain[x]
  <2>1. CASE Raise(d)
    <3>1. drain[d].phase \notin {"idle", "prune"} /\ drain' = [drain EXCEPT ![d] = NextItem(d)]
      BY <2>1 DEF Raise
    <3>2. /\ NextItem(d) \in DrainType
          /\ InOrder(NextItem(d))
      BY <3>1, NextItemType DEF OutboxInv
    <3> QED BY <3>1, <3>2, DrainMoves
  <2>2. CASE Die(d)
    <3>1. drain' = [drain EXCEPT ![d] = Idle] /\ Idle \in DrainType /\ InOrder(Idle)
      BY <2>2 DEF Die, Idle, DrainType, InOrder
    <3> QED BY <3>1, DrainMoves
  <2> QED BY <2>1, <2>2
<1>3. Kept
  BY <1>1, <1>2, NoRowMoves DEF Kept, OutboxInv, OutboxTypeInv, EventInv
<1>4. FailureReported'
  <2> SUFFICES ASSUME NEW s \in Slots, NEW c \in Channels, Untold(row[s][c]), ~ (<<s, c>> \in cut')
               PROVE  \E x \in Drains : Tells(x, s, c)'
    BY <1>1 DEF FailureReported, Untold, Escalating, Tells
  <2>1. ~ (<<s, c>> \in cut)
    BY <1>1
  <2>2. PICK x \in Drains : Tells(x, s, c)
    BY <2>1 DEF OutboxInv, FailureReported, Untold, Escalating, Tells
  <2>3. x # d
    BY <1>1, <2>2 DEF CutShort, Tells, Untold
  <2> QED BY <1>2, <2>2, <2>3 DEF Tells, At, Item
<1> QED BY <1>3, <1>4, InvFromKept

\* A claim takes due rows, and no drain that is to tell of a failure claims.
LEMMA ClaimKeeps ==
  ASSUME OutboxInv, NEW d \in Drains, Claim(d)
  PROVE  OutboxInv' /\ RowsMove
<1>1. PICK b \in Batches :
        /\ row' = [s \in Slots |-> [c \in Channels |->
                     IF <<s, c>> \in Range(b) THEN Claimed(row[s][c]) ELSE row[s][c]]]
        /\ drain' = [drain EXCEPT ![d] =
                [phase |-> IF b = <<>> THEN "prune" ELSE "work", channels |-> enabled, result |-> "none",
                 batch |-> [i \in DOMAIN b |-> [event |-> b[i][1], channel |-> b[i][2],
                                                claim |-> row[b[i][1]][b[i][2]].attempts + 1]]]]
  BY DEF Claim
<1>2. UNCHANGED <<outbox, order, enabled, heard, cut>> /\ drain[d].phase = "idle"
  BY DEF Claim, bounds
<1>3. b \in Seq(DueItems) /\ Range(b) \subseteq DueItems
  BY BatchesAreDue
<1>4. row \in [Slots -> [Channels -> RowType]] /\ enabled \in SUBSET Channels
  BY DEF OutboxInv, OutboxTypeInv
<1>5. ASSUME NEW s \in Slots, NEW c \in Channels
      PROVE  \/ row'[s][c] = row[s][c]
             \/ row[s][c].state \in {"pending", "claimed"} /\ row'[s][c] = Claimed(row[s][c])
  <2>1. <<s, c>> \in DueItems => row[s][c].state \in {"pending", "claimed"}
    BY DEF DueItems, Due
  <2> QED BY <1>1, <1>3, <2>1
<1>6. RowsMove
  BY <1>5 DEF RowsMove, RowMoves
<1>7. ASSUME NEW s \in Slots, NEW c \in Channels PROVE row'[s][c] \in RowType
  <2>1. /\ row[s][c].attempts <= MAX_ATTEMPTS + row[s][c].reclaims
        /\ row[s][c].state = "pending" => row[s][c].attempts < MAX_ATTEMPTS
    BY DEF OutboxInv, BudgetHolds
  <2> QED BY <1>4, <1>6, <2>1, RowMovesKeep DEF RowsMove
<1>8. row' \in [Slots -> [Channels -> RowType]]
  BY <1>1, <1>7
<1>9. drain' \in [Drains -> DrainType] /\ BatchInv' /\ \A x \in Drains \ {d} : drain'[x] = drain[x]
  <2> DEFINE items == [i \in DOMAIN b |-> [event |-> b[i][1], channel |-> b[i][2],
                                           claim |-> row[b[i][1]][b[i][2]].attempts + 1]]
             to == [phase |-> IF b = <<>> THEN "prune" ELSE "work", channels |-> enabled, result |-> "none",
                    batch |-> items]
  <2>1. ASSUME NEW i \in DOMAIN b PROVE items[i] \in ItemType
    <3>1. b[i] \in DueItems
      BY <1>3
    <3>2. b[i][1] \in Slots /\ b[i][2] \in Channels
      BY <3>1 DEF DueItems
    <3>3. row[b[i][1]][b[i][2]].attempts \in Nat
      BY <1>4, <3>2 DEF RowType
    <3> QED BY <3>2, <3>3 DEF ItemType
  <2>2. DOMAIN b = 1 .. Len(b) /\ Len(b) \in Nat
    BY <1>3
  <2>3. items \in Seq(ItemType)
    <3>1. items \in [1 .. Len(b) -> ItemType]
      BY <2>1, <2>2
    <3> HIDE DEF items
    <3> QED BY <2>2, <3>1
  <2>4. items = <<>> <=> b = <<>>
    <3>1. DOMAIN items = DOMAIN b
      OBVIOUS
    <3> HIDE DEF items
    <3>2. items = <<>> <=> Len(items) = 0
      BY <2>3
    <3>3. b = <<>> <=> Len(b) = 0
      BY <1>3
    <3>4. Len(items) = Len(b)
      BY <2>2, <2>3, <3>1
    <3> QED BY <3>2, <3>3, <3>4
  <2> HIDE DEF items
  <2>5. to \in DrainType /\ InOrder(to)
    BY <1>4, <2>3, <2>4 DEF DrainType, Busy, InOrder
  <2>6. drain' = [drain EXCEPT ![d] = to]
    BY <1>1 DEF items
  <2> HIDE DEF to
  <2> QED BY <2>5, <2>6, DrainMoves
<1>10. EventInv'
  <2>1. ASSUME NEW s \in Slots, outbox[s] = NoEvent, NEW c \in Channels PROVE row'[s][c] = NoRow
    <3>1. row[s][c] = NoRow
      BY <2>1 DEF OutboxInv, EventInv
    <3> QED BY <1>5, <3>1 DEF NoRow
  <2> QED BY <1>2, <2>1 DEF OutboxInv, EventInv
<1>11. FailureReported'
  <2>1. \A s \in Slots, c \in Channels : Untold(row'[s][c]) => Untold(row[s][c])
    <3>1. \A r \in RowType : Claimed(r).state = "claimed"
      BY DEF Claimed, RowType
    <3>2. \A s \in Slots, c \in Channels : row[s][c] \in RowType
      BY <1>4
    <3> QED BY <1>5, <3>1, <3>2 DEF Untold
  <2>2. \A s \in Slots, c \in Channels, x \in Drains : Tells(x, s, c) => drain'[x] = drain[x]
    BY <1>2, <1>9 DEF Tells, At
  <2> QED BY <1>2, <2>1, <2>2, ReportKept DEF OutboxInv, OutboxTypeInv
<1>12. Kept
  BY <1>2, <1>6, <1>8, <1>9, <1>10 DEF Kept, OutboxInv, OutboxTypeInv
<1> QED BY <1>11, <1>12, InvFromKept

\* A row settled without a send: as failed, for a reason nobody is told of.
LEMMA SettleKeepsRow ==
  ASSUME OutboxInv, NEW i \in ItemType, Holds(i), NEW o \in Results, NEW x \in Errors, SettleRow(i, o, x)
  PROVE  /\ row' \in [Slots -> [Channels -> RowType]]
         /\ RowsMove
         /\ row'[i.event][i.channel] = After(row[i.event][i.channel], o, x)
         /\ Only(i.event, i.channel)
         /\ outbox[i.event] # NoEvent
<1>1. i.event \in Slots /\ i.channel \in Channels
  BY DEF ItemType
<1>2. PICK s \in Slots, c \in Channels : s = i.event /\ c = i.channel
  BY <1>1
<1>3. row[s][c].state = "claimed"
  BY <1>2 DEF Holds
<1>4. PICK q : q = After(row[s][c], o, x)
  OBVIOUS
<1>5. RowMoves(s, row[s][c], q)
  BY <1>3, <1>4 DEF RowMoves
<1>6. row' = [row EXCEPT ![s][c] = q]
  <2>1. row' = [row EXCEPT ![s][c] = After(row[s][c], o, x)]
    <3>1. row \in [Slots -> [Channels -> RowType]]
      BY DEF OutboxInv, OutboxTypeInv
    <3>2. row' = [row EXCEPT ![s][c] = After(@, o, x)]
      BY <1>2 DEF SettleRow
    <3> QED BY <3>1, <3>2
  <2> QED BY <2>1, <1>4
<1>7. outbox[s] # NoEvent
  BY <1>3 DEF OutboxInv, EventInv, NoRow
<1>8. row' \in [Slots -> [Channels -> RowType]] /\ RowsMove /\ row'[s][c] = q /\ Only(s, c)
  BY <1>5, <1>6, OneRow
<1> QED BY <1>2, <1>4, <1>7, <1>8

\* What After leaves: the error it was given, or none.
LEMMA AfterIs ==
  ASSUME NEW r \in RowType, NEW o \in Results, NEW x \in Errors
  PROVE  Untold(After(r, o, x)) => x = "send" /\ o # "delivered" /\ Permanent(r, o)
<1>1. CASE o = "delivered"
  <2>1. After(r, o, x).state = "delivered"
    BY <1>1 DEF After, RowType
  <2> QED BY <2>1 DEF Untold
<1>2. CASE o # "delivered" /\ Permanent(r, o)
  <2>1. After(r, o, x).error = x
    BY <1>2 DEF After, RowType
  <2> QED BY <1>2, <2>1 DEF Untold
<1>3. CASE o # "delivered" /\ ~ Permanent(r, o)
  <2>1. After(r, o, x).state = "pending"
    BY <1>3 DEF After, RowType
  <2> QED BY <2>1 DEF Untold
<1> QED BY <1>1, <1>2, <1>3

\* A channel that is off, and a content that is refused.
LEMMA NotSentKeeps ==
  ASSUME OutboxInv, NEW d \in Drains, Disabled(d) \/ Refuse(d)
  PROVE  OutboxInv' /\ RowsMove
<1>1. drain[d].phase = "work" /\ UNCHANGED <<outbox, order, enabled, heard, cut, bounds>>
  BY DEF Disabled, Refuse, At
<1>2. Item(d) \in ItemType
  BY <1>1, InHand DEF OutboxInv
<1>3. \/ row' = row
      \/ Holds(Item(d)) /\ \E x \in Errors \ {"send"} : SettleRow(Item(d), "failed", x)
  BY DEF Disabled, Refuse, Errors
<1>4. \/ drain' = [drain EXCEPT ![d] = NextItem(d)]
      \/ drain' = [drain EXCEPT ![d].phase = "refuse"]
  BY DEF Disabled, Refuse
<1>5. drain' \in [Drains -> DrainType] /\ BatchInv' /\ \A x \in Drains \ {d} : drain'[x] = drain[x]
  <2>1. CASE drain' = [drain EXCEPT ![d] = NextItem(d)]
    <3>1. /\ NextItem(d) \in DrainType
          /\ InOrder(NextItem(d))
      BY <1>1, NextItemType DEF OutboxInv
    <3> QED BY <2>1, <3>1, DrainMoves
  <2>2. CASE drain' = [drain EXCEPT ![d].phase = "refuse"]
    <3> DEFINE to == [drain[d] EXCEPT !.phase = "refuse"]
    <3>1. drain[d] \in DrainType /\ InOrder(drain[d])
      BY DEF OutboxInv, OutboxTypeInv, BatchInv
    <3>2. to \in DrainType /\ InOrder(to)
      BY <1>1, <3>1 DEF DrainType, Busy, InOrder
    <3>3. drain' = [drain EXCEPT ![d] = to]
      BY <2>2 DEF OutboxInv, OutboxTypeInv
    <3> HIDE DEF to
    <3> QED BY <3>2, <3>3, DrainMoves
  <2> QED BY <1>4, <2>1, <2>2
<1>6. /\ row' \in [Slots -> [Channels -> RowType]] /\ RowsMove /\ EventInv'
      /\ \A s \in Slots, c \in Channels : Untold(row'[s][c]) => Untold(row[s][c])
  <2>1. CASE row' = row
    BY <1>1, <2>1, NoRowMoves DEF OutboxInv, OutboxTypeInv, EventInv
  <2>2. CASE Holds(Item(d)) /\ \E x \in Errors \ {"send"} : SettleRow(Item(d), "failed", x)
    <3>1. PICK x \in Errors \ {"send"} : SettleRow(Item(d), "failed", x)
      BY <2>2
    <3>2. /\ row' \in [Slots -> [Channels -> RowType]] /\ RowsMove
          /\ row'[Item(d).event][Item(d).channel] = After(row[Item(d).event][Item(d).channel], "failed", x)
          /\ Only(Item(d).event, Item(d).channel)
          /\ outbox[Item(d).event] # NoEvent
      BY <1>2, <2>2, <3>1, SettleKeepsRow DEF Results
    <3>3. ~ Untold(row'[Item(d).event][Item(d).channel])
      <4>1. row[Item(d).event][Item(d).channel] \in RowType
        BY <1>2 DEF ItemType, OutboxInv, OutboxTypeInv
      <4>2. "failed" \in Results /\ x \in Errors /\ x # "send"
        BY <3>1 DEF Results
      <4> QED BY <3>2, <4>1, <4>2, AfterIs
    <3>4. EventInv'
      BY <1>1, <3>2 DEF OutboxInv, EventInv, Only
    <3> QED BY <3>2, <3>3, <3>4 DEF Only
  <2> QED BY <1>3, <2>1, <2>2
<1>7. Kept
  BY <1>1, <1>5, <1>6 DEF Kept, OutboxInv, OutboxTypeInv, bounds
<1>8. FailureReported'
  <2>1. \A s \in Slots, c \in Channels, x \in Drains : Tells(x, s, c) => drain'[x] = drain[x]
    BY <1>1, <1>5 DEF Tells, At
  <2> QED BY <1>1, <1>6, <2>1, ReportKept DEF OutboxInv, OutboxTypeInv, bounds
<1> QED BY <1>7, <1>8, InvFromKept

\* A drain that is not to tell of a failure takes up its next item after an action on the rows.
LEMMA NextItemMoves ==
  ASSUME OutboxInv, NEW d \in Drains, drain[d].phase \notin {"idle", "prune"},
         drain' = [drain EXCEPT ![d] = NextItem(d)]
  PROVE  drain' \in [Drains -> DrainType] /\ BatchInv' /\ \A x \in Drains \ {d} : drain'[x] = drain[x]
<1>1. NextItem(d) \in DrainType /\ InOrder(NextItem(d))
  BY NextItemType DEF OutboxInv
<1> QED BY <1>1, DrainMoves

LEMMA EnqueueRefusedKeeps ==
  ASSUME OutboxInv, NEW d \in Drains, EnqueueRefused(d)
  PROVE  OutboxInv' /\ RowsMove
<1>1. /\ drain[d].phase = "refuse" /\ UNCHANGED <<enabled, heard, cut, bounds>>
      /\ drain' = [drain EXCEPT ![d] = NextItem(d)]
      /\ Enqueue(<<"refused", Item(d).event>>, drain[d].channels, FALSE, row)
  BY DEF EnqueueRefused, At
<1>2. Item(d).event \in Slots
  BY <1>1, InHand DEF OutboxInv
<1>3. /\ outbox' \in [Slots -> EventType]
      /\ row' \in [Slots -> [Channels -> RowType]]
      /\ EventInv'
      /\ Adds(row)
  <2>1. PICK key \in EventKeys : key = <<"refused", Item(d).event>>
    BY <1>2 DEF EventKeys
  <2>2. row \in [Slots -> [Channels -> RowType]] /\ \A s \in Slots : outbox[s] = NoEvent => row[s] = row[s]
    BY DEF OutboxInv, OutboxTypeInv
  <2>3. PICK channels : channels = drain[d].channels
    OBVIOUS
  <2>4. Enqueue(key, channels, FALSE, row)
    BY <1>1, <2>1, <2>3
  <2> QED BY <2>2, <2>4, EnqueueRows
<1>4. drain' \in [Drains -> DrainType] /\ BatchInv' /\ \A x \in Drains \ {d} : drain'[x] = drain[x]
  BY <1>1, NextItemMoves
<1>5. RowsMove
  BY <1>3 DEF RowsMove, RowMoves, Adds
<1>6. Kept
  BY <1>1, <1>3, <1>4, <1>5 DEF Kept, OutboxInv, OutboxTypeInv, bounds
<1>7. FailureReported'
  <2>1. \A s \in Slots, c \in Channels : Untold(row'[s][c]) => Untold(row[s][c])
    BY <1>3 DEF Untold, NoRow, FreshRow, Adds
  <2>2. \A s \in Slots, c \in Channels, x \in Drains : Tells(x, s, c) => drain'[x] = drain[x]
    BY <1>1, <1>4 DEF Tells, At
  <2> QED BY <1>1, <2>1, <2>2, ReportKept DEF OutboxInv, OutboxTypeInv, bounds
<1> QED BY <1>6, <1>7, InvFromKept

LEMMA SendKeeps ==
  ASSUME OutboxInv, NEW d \in Drains, Send(d)
  PROVE  OutboxInv' /\ RowsMove
<1>1. drain[d].phase = "work" /\ UNCHANGED <<outbox, order, row, enabled, heard, cut, bounds>>
  BY DEF Send, At, tableVars
<1>2. Item(d).channel \in Channels
  BY <1>1, InHand DEF OutboxInv
<1>3. PICK outcome \in Results : drain' = [drain EXCEPT ![d].phase = "sent", ![d].result = outcome]
  BY <1>2, OutboxAssumption DEF Send, Results
<1>4. drain' \in [Drains -> DrainType] /\ BatchInv' /\ \A x \in Drains \ {d} : drain'[x] = drain[x]
  <2> DEFINE to == [drain[d] EXCEPT !.phase = "sent", !.result = outcome]
  <2>1. drain[d] \in DrainType /\ InOrder(drain[d])
    BY DEF OutboxInv, OutboxTypeInv, BatchInv
  <2>2. to \in DrainType /\ InOrder(to)
    BY <1>1, <2>1 DEF DrainType, Busy, InOrder, Results
  <2>3. drain' = [drain EXCEPT ![d] = to]
    BY <1>3 DEF OutboxInv, OutboxTypeInv
  <2> HIDE DEF to
  <2> QED BY <2>2, <2>3, DrainMoves
<1>5. Kept
  BY <1>1, <1>4, NoRowMoves DEF Kept, OutboxInv, OutboxTypeInv, EventInv, bounds
<1>6. FailureReported'
  <2>1. \A s \in Slots, c \in Channels, x \in Drains : Tells(x, s, c) => drain'[x] = drain[x]
    BY <1>1, <1>4 DEF Tells, At
  <2> QED BY <1>1, <2>1, ReportKept DEF OutboxInv, OutboxTypeInv, bounds
<1> QED BY <1>5, <1>6, InvFromKept

\* The one settlement after which a failed send is untold is the one that leaves its drain about to tell.
LEMMA SettleKeeps ==
  ASSUME OutboxInv, NEW d \in Drains, Settle(d)
  PROVE  OutboxInv' /\ RowsMove
<1>1. drain[d].phase = "sent" /\ UNCHANGED <<outbox, order, enabled, cut, bounds>>
  BY DEF Settle, At
<1>2. Item(d) \in ItemType /\ Item(d).event \in Slots /\ Item(d).channel \in Channels
  BY <1>1, InHand DEF OutboxInv
<1>3. CASE ~ Holds(Item(d))
  <2>1. row' = row /\ drain' = [drain EXCEPT ![d] = NextItem(d)]
    BY <1>3 DEF Settle
  <2>2. drain' \in [Drains -> DrainType] /\ BatchInv' /\ \A x \in Drains \ {d} : drain'[x] = drain[x]
    BY <1>1, <2>1, NextItemMoves
  <2>3. Kept
    BY <1>1, <2>1, <2>2, NoRowMoves DEF Kept, OutboxInv, OutboxTypeInv, EventInv, bounds
  <2>4. FailureReported'
    <3>1. \A s \in Slots, c \in Channels, x \in Drains : Tells(x, s, c) => drain'[x] = drain[x]
      BY <1>1, <2>2 DEF Tells, At
    <3> QED BY <1>1, <2>1, <3>1, ReportKept DEF OutboxInv, OutboxTypeInv, bounds
  <2> QED BY <2>3, <2>4, InvFromKept
<1>4. CASE Holds(Item(d))
  <2> DEFINE r == row[Item(d).event][Item(d).channel]
             o == drain[d].result
             to == IF Exhausts(d) THEN [drain[d] EXCEPT !.phase = "escalate"] ELSE NextItem(d)
  <2>1. SettleRow(Item(d), o, "send") /\ drain' = [drain EXCEPT ![d] = to]
    BY <1>4 DEF Settle, OutboxInv, OutboxTypeInv
  <2>2. r \in RowType /\ "send" \in Errors /\ drain[d] \in DrainType
    BY <1>2 DEF OutboxInv, OutboxTypeInv, Errors
  <2>3. to \in DrainType /\ InOrder(to)
    <3>1. InOrder(drain[d])
      BY DEF OutboxInv, BatchInv
    <3>2. CASE Exhausts(d)
      <4>1. to = [drain[d] EXCEPT !.phase = "escalate"]
        BY <3>2
      <4>2. to \in DrainType /\ to.phase = "escalate" /\ to.batch = drain[d].batch
        BY <2>2, <4>1 DEF DrainType, Busy
      <4> QED BY <1>1, <3>1, <4>2 DEF InOrder
    <3>3. CASE ~ Exhausts(d)
      <4>1. to = NextItem(d)
        BY <3>3
      <4>2. /\ NextItem(d) \in DrainType
            /\ InOrder(NextItem(d))
        BY <1>1, NextItemType DEF OutboxInv
      <4> QED BY <4>1, <4>2
    <3> QED BY <3>2, <3>3
  <2>4. Exhausts(d) => drain'[d].phase = "escalate" /\ drain'[d].batch = drain[d].batch
    BY <2>1, <2>2 DEF OutboxInv, OutboxTypeInv, DrainType
  <2> HIDE DEF to
  <2>5. drain' \in [Drains -> DrainType] /\ BatchInv' /\ \A x \in Drains \ {d} : drain'[x] = drain[x]
    BY <2>1, <2>3, DrainMoves
  <2>6. o \in Results
    BY <1>1, <2>2 DEF OutboxInv, BatchInv, InOrder, DrainType
  <2>7. QED
    <3>1. /\ row' \in [Slots -> [Channels -> RowType]] /\ RowsMove
          /\ row'[Item(d).event][Item(d).channel] = After(r, o, "send")
          /\ Only(Item(d).event, Item(d).channel)
          /\ outbox[Item(d).event] # NoEvent
      BY <1>2, <1>4, <2>1, <2>2, <2>6, SettleKeepsRow
    <3>2. EventInv'
      BY <1>1, <3>1 DEF OutboxInv, EventInv, Only
    <3>3. Kept
      BY <1>1, <2>5, <3>1, <3>2 DEF Kept, OutboxInv, OutboxTypeInv, bounds
    <3>4. ASSUME NEW s \in Slots, NEW c \in Channels, Untold(row'[s][c]), s = Item(d).event, c = Item(d).channel
          PROVE  Tells(d, s, c)'
      <4>1. Untold(After(r, o, "send"))
        BY <3>1, <3>4
      <4>2. Exhausts(d)
        BY <2>2, <2>6, <4>1, AfterIs DEF Exhausts
      <4> QED BY <2>4, <3>4, <4>2 DEF Tells, At, Item
    <3>5. ASSUME NEW s \in Slots, NEW c \in Channels, Untold(row'[s][c])
          PROVE  \/ \E x \in Drains : Tells(x, s, c)'
                 \/ Untold(row[s][c]) /\ \A x \in Drains : Tells(x, s, c) => drain'[x] = drain[x]
      <4>1. \A x \in Drains : Tells(x, s, c) => drain'[x] = drain[x]
        BY <1>1, <2>5 DEF Tells, At
      <4>2. CASE s = Item(d).event /\ c = Item(d).channel
        BY <3>4, <3>5, <4>2
      <4>3. CASE s # Item(d).event \/ c # Item(d).channel
        <5>1. row'[s][c] = row[s][c]
          BY <3>1, <4>3 DEF Only
        <5> QED BY <3>5, <4>1, <5>1
      <4> QED BY <4>2, <4>3
    <3>6. FailureReported'
      BY <1>1, <3>5, ReportKept DEF OutboxInv, OutboxTypeInv, bounds
    <3> QED BY <3>3, <3>6, InvFromKept
<1> QED BY <1>3, <1>4

\* The row of the item in hand is told of, whatever its report became.
LEMMA EscalateKeeps ==
  ASSUME OutboxInv, NEW d \in Drains, Escalate(d)
  PROVE  OutboxInv' /\ RowsMove
<1>1. /\ drain[d].phase = "escalate" /\ UNCHANGED <<enabled, heard, cut, bounds>>
      /\ drain' = [drain EXCEPT ![d] = NextItem(d)]
  BY DEF Escalate, At
<1>2. Item(d) \in ItemType /\ Item(d).event \in Slots /\ Item(d).channel \in Channels
  BY <1>1, InHand DEF OutboxInv
<1>3. PICK s \in Slots, c \in Channels : s = Item(d).event /\ c = Item(d).channel
  BY <1>2
<1>4. PICK rows : rows = Reported(Item(d))
  OBVIOUS
<1>5. row \in [Slots -> [Channels -> RowType]]
  BY DEF OutboxInv, OutboxTypeInv
<1>6. /\ rows \in [Slots -> [Channels -> RowType]]
      /\ \A x \in Slots, y \in Channels : x # s \/ y # c => rows[x][y] = row[x][y]
      /\ \/ rows[s][c] = row[s][c] /\ row[s][c].state # "failed"
         \/ row[s][c].state = "failed" /\ rows[s][c] = [row[s][c] EXCEPT !.reported = TRUE]
  <2>1. CASE row[s][c].state # "failed"
    <3>1. rows = row
      BY <1>3, <1>4, <2>1 DEF Reported
    <3> QED BY <1>5, <2>1, <3>1
  <2>2. CASE row[s][c].state = "failed"
    <3> DEFINE q == [row[s][c] EXCEPT !.reported = TRUE]
    <3>1. rows = [row EXCEPT ![s][c] = q]
      BY <1>3, <1>4, <1>5, <2>2 DEF Reported
    <3>2. q \in RowType
      <4>1. row[s][c] \in RowType
        BY <1>5
      <4> QED BY <4>1 DEF RowType
    <3>3. rows[s][c] = q
      BY <1>5, <3>1
    <3> HIDE DEF q
    <3>4. /\ rows \in [Slots -> [Channels -> RowType]]
          /\ \A x \in Slots, y \in Channels : x # s \/ y # c => rows[x][y] = row[x][y]
      BY <1>5, <3>1, <3>2
    <3> QED BY <2>2, <3>3, <3>4 DEF q
  <2> QED BY <2>1, <2>2
<1>7. \A x \in Slots : outbox[x] = NoEvent => rows[x] = row[x]
  <2> SUFFICES ASSUME NEW x \in Slots, outbox[x] = NoEvent PROVE rows[x] = row[x]
    OBVIOUS
  <2>1. \A y \in Channels : row[x][y] = NoRow
    BY DEF OutboxInv, EventInv
  <2>2. \A y \in Channels : rows[x][y] = row[x][y]
    BY <1>6, <2>1 DEF NoRow
  <2>3. rows[x] \in [Channels -> RowType] /\ row[x] \in [Channels -> RowType]
    BY <1>5, <1>6
  <2> QED BY <2>2, <2>3
<1>8. /\ outbox' \in [Slots -> EventType]
      /\ row' \in [Slots -> [Channels -> RowType]]
      /\ EventInv'
      /\ Adds(rows)
  <2>1. CASE UNCHANGED <<outbox, order>> /\ row' = rows
    <3>1. EventInv'
      BY <1>7, <2>1 DEF OutboxInv, EventInv
    <3> QED BY <1>6, <2>1, <3>1 DEF Adds, OutboxInv, OutboxTypeInv
  <2>2. CASE Enqueue(<<"channel_failed", Item(d).channel>>, Others(d), FALSE, rows)
    <3>1. PICK key \in EventKeys : key = <<"channel_failed", Item(d).channel>>
      BY <1>2 DEF EventKeys
    <3>2. PICK channels : channels = Others(d)
      OBVIOUS
    <3>3. Enqueue(key, channels, FALSE, rows)
      BY <2>2, <3>1, <3>2
    <3> QED BY <1>6, <1>7, <3>3, EnqueueRows
  <2> QED BY <1>4, <2>1, <2>2 DEF Escalate
<1>9. RowsMove
  <2> SUFFICES ASSUME NEW x \in Slots, NEW y \in Channels PROVE RowMoves(x, row[x][y], row'[x][y])
    BY DEF RowsMove
  <2>1. CASE row'[x][y] = rows[x][y]
    BY <1>6, <2>1 DEF RowMoves
  <2>2. CASE row[x][y] = NoRow /\ row'[x][y] \in {NoRow, FreshRow} /\ x \in Free
    BY <2>2 DEF RowMoves
  <2> QED BY <1>8, <2>1, <2>2 DEF Adds
<1>10. drain' \in [Drains -> DrainType] /\ BatchInv' /\ \A x \in Drains \ {d} : drain'[x] = drain[x]
  BY <1>1, NextItemMoves
<1>11. Kept
  BY <1>1, <1>8, <1>9, <1>10 DEF Kept, OutboxInv, OutboxTypeInv, bounds
<1>12. FailureReported'
  <2>1. ASSUME NEW x \in Slots, NEW y \in Channels, Untold(row'[x][y])
        PROVE  Untold(row[x][y]) /\ \A e \in Drains : Tells(e, x, y) => drain'[e] = drain[e]
    <3>1. row'[x][y] = rows[x][y]
      BY <1>8, <2>1 DEF Adds, Untold, NoRow, FreshRow
    <3>2. x # s \/ y # c
      <4> SUFFICES ASSUME x = s, y = c PROVE FALSE
        OBVIOUS
      <4>1. row[s][c] \in RowType /\ rows[s][c].state = "failed" /\ ~ rows[s][c].reported
        BY <1>5, <2>1, <3>1 DEF Untold
      <4>2. rows[s][c].reported
        BY <1>6, <4>1 DEF RowType
      <4> QED BY <4>1, <4>2
    <3>3. Untold(row[x][y])
      BY <1>6, <2>1, <3>1, <3>2
    <3>4. ~ Tells(d, x, y)
      BY <1>3, <3>2 DEF Tells
    <3> QED BY <1>10, <3>3, <3>4
  <2> QED BY <1>1, <2>1, ReportKept DEF OutboxInv, OutboxTypeInv, bounds
<1> QED BY <1>11, <1>12, InvFromKept

\* Only events whose rows are all settled go.
LEMMA PruneKeeps ==
  ASSUME OutboxInv, NEW d \in Drains, Prune(d)
  PROVE  OutboxInv' /\ RowsMove
<1>1. PICK gone \in SUBSET Old :
        /\ outbox' = [s \in Slots |-> IF s \in gone THEN NoEvent ELSE outbox[s]]
        /\ row' = [s \in Slots |-> IF s \in gone THEN [c \in Channels |-> NoRow] ELSE row[s]]
        /\ cut' = {p \in cut : p[1] \notin gone}
  BY DEF Prune
<1>2. drain[d].phase = "prune" /\ drain' = [drain EXCEPT ![d] = Idle] /\ UNCHANGED <<enabled, heard, bounds>>
  BY DEF Prune, At
<1>3. /\ outbox \in [Slots -> EventType] /\ row \in [Slots -> [Channels -> RowType]]
      /\ NoEvent \in EventType /\ NoRow \in RowType
  BY DEF OutboxInv, OutboxTypeInv, NoEvent, EventType, NoKey, NoRow, RowType, RowStates, Errors
<1>4. outbox' \in [Slots -> EventType] /\ row' \in [Slots -> [Channels -> RowType]]
  BY <1>1, <1>3
<1>5. ASSUME NEW s \in Slots, NEW c \in Channels
      PROVE  \/ row'[s][c] = row[s][c]
             \/ s \in gone /\ row'[s][c] = NoRow
  BY <1>1
<1>6. RowsMove
  <2>1. \A s \in gone, c \in Channels : row[s][c].state \in Settled \cup {"none"}
    BY <1>1 DEF Old, Rows
  <2> QED BY <1>5, <2>1 DEF RowsMove, RowMoves
<1>7. EventInv'
  BY <1>1, <1>5 DEF OutboxInv, EventInv, NoEvent, NoKey
<1>8. drain' \in [Drains -> DrainType] /\ BatchInv' /\ \A x \in Drains \ {d} : drain'[x] = drain[x]
  <2>1. Idle \in DrainType /\ InOrder(Idle)
    BY DEF Idle, DrainType, InOrder
  <2> QED BY <1>2, <2>1, DrainMoves
<1>9. Kept
  BY <1>2, <1>4, <1>6, <1>7, <1>8 DEF Kept, OutboxInv, OutboxTypeInv, bounds
<1>10. FailureReported'
  <2>1. \A s \in Slots, c \in Channels :
          Untold(row'[s][c]) => Untold(row[s][c]) /\ (<<s, c>> \in cut => <<s, c>> \in cut')
    BY <1>1, <1>5 DEF Untold, NoRow
  <2>2. \A s \in Slots, c \in Channels, x \in Drains : Tells(x, s, c) => drain'[x] = drain[x]
    BY <1>2, <1>8 DEF Tells, At
  <2> QED BY <1>2, <2>1, <2>2, ReportKept DEF OutboxInv, OutboxTypeInv, bounds
<1> QED BY <1>9, <1>10, InvFromKept

LEMMA LeaseEndsKeeps ==
  ASSUME OutboxInv, NEW s \in Slots, NEW c \in Channels, LeaseEnds(s, c)
  PROVE  OutboxInv' /\ RowsMove
<1>1. /\ row[s][c].state = "claimed" /\ row' = [row EXCEPT ![s][c].lapsed = TRUE]
      /\ UNCHANGED <<outbox, order, enabled, drain, heard, cut>>
  BY DEF LeaseEnds
<1>2. PICK q : q = [row[s][c] EXCEPT !.lapsed = TRUE]
  OBVIOUS
<1>3. row \in [Slots -> [Channels -> RowType]]
  BY DEF OutboxInv, OutboxTypeInv
<1>4. row' = [row EXCEPT ![s][c] = q]
  BY <1>1, <1>2, <1>3
<1>5. RowMoves(s, row[s][c], q) /\ q.state = "claimed"
  <2>1. row[s][c] \in RowType
    BY <1>3
  <2> QED BY <1>1, <1>2, <2>1 DEF RowMoves, RowType
<1>6. row' \in [Slots -> [Channels -> RowType]] /\ RowsMove /\ row'[s][c] = q /\ Only(s, c)
  BY <1>4, <1>5, OneRow
<1>7. EventInv'
  <2>1. outbox[s] # NoEvent
    BY <1>1 DEF OutboxInv, EventInv, NoRow
  <2> QED BY <1>1, <1>6, <2>1 DEF OutboxInv, EventInv, Only
<1>8. Kept
  BY <1>1, <1>6, <1>7 DEF Kept, OutboxInv, OutboxTypeInv, BatchInv
<1>9. FailureReported'
  <2>1. \A x \in Slots, y \in Channels : Untold(row'[x][y]) => Untold(row[x][y])
    BY <1>5, <1>6 DEF Untold, Only
  <2>2. drain' = drain /\ cut' = cut
    BY <1>1
  <2> QED BY <2>1, <2>2, ReportKept
<1> QED BY <1>8, <1>9, InvFromKept

LEMMA TickKeeps ==
  ASSUME OutboxInv, Tick
  PROVE  OutboxInv' /\ RowsMove
<1>1. /\ outbox' = [s \in Slots |-> [outbox[s] EXCEPT !.window = Less(@)]]
      /\ row' = [s \in Slots |-> [c \in Channels |-> [row[s][c] EXCEPT !.wait = Less(@)]]]
      /\ UNCHANGED <<order, enabled, drain, heard, cut, bounds>>
  BY DEF Tick
<1>2. outbox \in [Slots -> EventType] /\ row \in [Slots -> [Channels -> RowType]] /\ \A n \in Nat : Less(n) \in Nat
  BY DEF OutboxInv, OutboxTypeInv, Less
<1>3. ASSUME NEW s \in Slots, NEW c \in Channels
      PROVE  /\ row'[s][c] = [row[s][c] EXCEPT !.wait = Less(@)]
             /\ row'[s][c] \in RowType
             /\ Untold(row'[s][c]) => Untold(row[s][c])
             /\ row[s][c] = NoRow => row'[s][c] = NoRow
  <2>1. row'[s][c] = [row[s][c] EXCEPT !.wait = Less(@)] /\ row[s][c] \in RowType
    BY <1>1, <1>2
  <2>2. row'[s][c] \in RowType
    BY <1>2, <2>1 DEF RowType
  <2>3. Untold(row'[s][c]) => Untold(row[s][c])
    BY <2>1 DEF Untold, RowType
  <2>4. row[s][c] = NoRow => row'[s][c] = NoRow
    BY <2>1 DEF NoRow, Less
  <2> QED BY <2>1, <2>2, <2>3, <2>4
<1>4. row' \in [Slots -> [Channels -> RowType]]
  BY <1>1, <1>3
<1>5. ASSUME NEW s \in Slots
      PROVE  /\ outbox'[s] \in EventType /\ outbox'[s].key = outbox[s].key
             /\ outbox'[s] = NoEvent => outbox[s] = NoEvent
             /\ outbox[s] = NoEvent => outbox'[s] = NoEvent
  <2>1. outbox'[s] = [outbox[s] EXCEPT !.window = Less(@)] /\ outbox[s] \in EventType
    BY <1>1, <1>2
  <2>2. outbox'[s] \in EventType /\ outbox'[s].key = outbox[s].key
    BY <1>2, <2>1 DEF EventType
  <2>3. outbox[s] = NoEvent => outbox'[s] = NoEvent
    BY <2>1 DEF NoEvent, Less
  <2>4. outbox'[s] = NoEvent => outbox[s] = NoEvent
    BY <2>2 DEF OutboxInv, EventInv, NoEvent, NoKey
  <2> QED BY <2>2, <2>3, <2>4
<1>6. outbox' \in [Slots -> EventType]
  BY <1>1, <1>5
<1>7. EventInv'
  BY <1>3, <1>5 DEF OutboxInv, EventInv
<1>8. RowsMove
  BY <1>3 DEF RowsMove, RowMoves
<1>9. Kept
  BY <1>1, <1>4, <1>6, <1>7, <1>8 DEF Kept, OutboxInv, OutboxTypeInv, BatchInv, bounds
<1>10. FailureReported'
  BY <1>1, <1>3, ReportKept DEF OutboxInv, OutboxTypeInv, bounds
<1> QED BY <1>9, <1>10, InvFromKept

-----------------------------------------------------------------------------
(* What holds of every outbox. *)

LEMMA OutboxInitInv == OutboxInit => OutboxInv
<1> SUFFICES ASSUME OutboxInit PROVE OutboxInv
  OBVIOUS
<1>1. NoRow \in RowType /\ NoEvent \in EventType /\ Idle \in DrainType /\ InOrder(Idle)
  BY DEF NoRow, RowType, RowStates, Errors, NoEvent, EventType, NoKey, Idle, DrainType, InOrder
<1>2. OutboxTypeInv
  BY <1>1, OutboxAssumption DEF OutboxInit, OutboxTypeInv
<1>3. BatchInv
  BY <1>1 DEF OutboxInit, BatchInv
<1>4. EventInv
  BY DEF OutboxInit, EventInv
<1>5. BudgetHolds
  <2>1. NoRow.attempts = 0 /\ NoRow.reclaims = 0 /\ NoRow.state = "none"
    BY DEF NoRow
  <2> QED BY <2>1, OutboxAssumption DEF OutboxInit, BudgetHolds
<1>6. FailureReported
  BY DEF OutboxInit, FailureReported, NoRow
<1> QED BY <1>2, <1>3, <1>4, <1>5, <1>6 DEF OutboxInv

LEMMA OutboxStepInv ==
  ASSUME OutboxInv, [OutboxNext]_outboxVars
  PROVE  OutboxInv' /\ RowsMove
<1>1. ASSUME NEW k \in Keys, NEW refused \in Refusals, Produce(k, refused) PROVE OutboxInv' /\ RowsMove
  BY <1>1, OutboxAssumption, ProduceKeeps
<1>2. CASE Configure
  BY <1>2, ConfigureKeeps
<1>3. ASSUME NEW d \in Drains, Claim(d) \/ Raise(d) \/ Die(d) PROVE OutboxInv' /\ RowsMove
  BY <1>3, ClaimKeeps, FaultKeeps
<1>4. ASSUME NEW d \in Drains,
             Disabled(d) \/ Refuse(d) \/ EnqueueRefused(d) \/ Send(d) \/ Settle(d) \/ Escalate(d) \/ Prune(d)
      PROVE  OutboxInv' /\ RowsMove
  BY <1>4, NotSentKeeps, EnqueueRefusedKeeps, SendKeeps, SettleKeeps, EscalateKeeps, PruneKeeps
<1>5. ASSUME NEW s \in Slots, NEW c \in Channels, LeaseEnds(s, c) PROVE OutboxInv' /\ RowsMove
  BY <1>5, LeaseEndsKeeps
<1>6. CASE Tick
  BY <1>6, TickKeeps
<1>7. CASE UNCHANGED outboxVars
  <2>1. UNCHANGED <<outbox, row, enabled, drain, cut>>
    BY <1>7 DEF outboxVars, bounds
  <2>2. OutboxInv'
    BY <2>1 DEF OutboxInv, OutboxTypeInv, BatchInv, EventInv, BudgetHolds, FailureReported, Escalating, At, Item
  <2> QED BY <2>1, <2>2, NoRowMoves
<1> QED BY <1>1, <1>2, <1>3, <1>4, <1>5, <1>6, <1>7 DEF OutboxNext

\* In every state: what OutboxInv says of the events, their rows and the drains.
THEOREM OutboxInvariance == OutboxSpec => []OutboxInv
<1>1. OutboxInit => OutboxInv
  BY OutboxInitInv
<1>2. OutboxInv /\ [OutboxNext]_outboxVars => OutboxInv'
  BY OutboxStepInv
<1> QED BY <1>1, <1>2, PTL DEF OutboxSpec

\* The retry budget of settle and claim: a row is claimed at most MAX_ATTEMPTS times beyond the claims that
\* lapsed, and a row that waits for its next attempt has one left.
THEOREM RetriesAreBounded == OutboxSpec => []BudgetHolds
<1>1. OutboxInv => BudgetHolds
  BY DEF OutboxInv
<1> QED BY <1>1, OutboxInvariance, PTL

\* escalate: a send that failed for good has been reported, or the drain that settled it is about to report it, or
\* an exception or a death met that drain between the settlement of this very row and its report.
THEOREM FailuresAreReported == OutboxSpec => []FailureReported
<1>1. OutboxInv => FailureReported
  BY DEF OutboxInv
<1> QED BY <1>1, OutboxInvariance, PTL

\* settle's WHERE clause: a settled row stays as it is until its event is removed, whatever late answers come.
THEOREM SettledRowsStay == OutboxSpec => SettledIsFinal
<1>1. ASSUME OutboxInv, [OutboxNext]_outboxVars
      PROVE  \A s \in Slots, c \in Channels :
               row[s][c].state \in Settled => row'[s][c].state \in {row[s][c].state, "none"}
  <2> SUFFICES ASSUME NEW s \in Slots, NEW c \in Channels
               PROVE  row[s][c].state \in Settled => row'[s][c].state \in {row[s][c].state, "none"}
    OBVIOUS
  <2>1. RowMoves(s, row[s][c], row'[s][c])
    BY <1>1, OutboxStepInv DEF RowsMove
  <2>2. /\ row[s][c] \in RowType
        /\ row[s][c].attempts <= MAX_ATTEMPTS + row[s][c].reclaims
        /\ row[s][c].state = "pending" => row[s][c].attempts < MAX_ATTEMPTS
    BY <1>1 DEF OutboxInv, OutboxTypeInv, BudgetHolds
  <2> QED BY <2>1, <2>2, RowMovesKeep
<1>2. OutboxInv /\ [OutboxNext]_outboxVars =>
        [\A s \in Slots, c \in Channels :
           row[s][c].state \in Settled => row'[s][c].state \in {row[s][c].state, "none"}]_outboxVars
  BY <1>1
<1> QED BY <1>2, OutboxInvariance, PTL DEF OutboxSpec, SettledIsFinal

\* _prune: no event leaves the outbox with a row that waits or is claimed.
NothingDropped ==
  [][\A s \in Slots, c \in Channels :
      row[s][c].state \in {"pending", "claimed"} => row'[s][c].state # "none"]_outboxVars

\* The same of every instance.
THEOREM UnsettledRowsStay == OutboxSpec => NothingDropped
<1>1. ASSUME OutboxInv, [OutboxNext]_outboxVars
      PROVE  \A s \in Slots, c \in Channels :
               row[s][c].state \in {"pending", "claimed"} => row'[s][c].state # "none"
  <2> SUFFICES ASSUME NEW s \in Slots, NEW c \in Channels
               PROVE  row[s][c].state \in {"pending", "claimed"} => row'[s][c].state # "none"
    OBVIOUS
  <2>1. RowMoves(s, row[s][c], row'[s][c])
    BY <1>1, OutboxStepInv DEF RowsMove
  <2>2. /\ row[s][c] \in RowType
        /\ row[s][c].attempts <= MAX_ATTEMPTS + row[s][c].reclaims
        /\ row[s][c].state = "pending" => row[s][c].attempts < MAX_ATTEMPTS
    BY <1>1 DEF OutboxInv, OutboxTypeInv, BudgetHolds
  <2> QED BY <2>1, <2>2, RowMovesKeep
<1>2. OutboxInv /\ [OutboxNext]_outboxVars =>
        [\A s \in Slots, c \in Channels :
           row[s][c].state \in {"pending", "claimed"} => row'[s][c].state # "none"]_outboxVars
  BY <1>1
<1> QED BY <1>2, OutboxInvariance, PTL DEF OutboxSpec, NothingDropped

-----------------------------------------------------------------------------
(* The token of a claim is the number of its attempt: no two drains hold the same one. *)

\* An item's token is no newer than its row's last claim, and is held by one drain.
OldTokens ==
  \A d \in Drains : \A t \in Items(d) :
    \/ row[t.event][t.channel].state = "none"
    \/ t.claim <= row[t.event][t.channel].attempts
OneHolder == \A d, e \in Drains : d # e => Items(d) \cap Items(e) = {}
TokenInv == OutboxInv /\ OldTokens /\ OneHolder

\* The items of a step are those of before.
NoNewItems == \A d \in Drains : Items(d)' \subseteq Items(d)

LEMMA TailItems ==
  ASSUME NEW S, NEW q \in Seq(S), q # <<>>
  PROVE  Range(Tail(q)) \subseteq Range(q)
<1> SUFFICES ASSUME NEW i \in DOMAIN Tail(q) PROVE \E j \in DOMAIN q : Tail(q)[i] = q[j]
  BY DEF Range
<1>1. Len(q) \in Nat /\ Len(q) # 0 /\ DOMAIN q = 1 .. Len(q)
  BY EmptySeq
<1>2. DOMAIN Tail(q) = 1 .. Len(q) - 1
  BY <1>1
<1>3. i + 1 \in DOMAIN q /\ Tail(q)[i] = q[i + 1]
  BY <1>1, <1>2
<1> QED BY <1>3

\* No action but a claim puts an item into a batch.
LEMMA ItemsStay ==
  ASSUME OutboxInv, [OutboxNext]_outboxVars, \A d \in Drains : ~ Claim(d)
  PROVE  NoNewItems
<1> SUFFICES ASSUME NEW x \in Drains PROVE Range(drain'[x].batch) \subseteq Range(drain[x].batch)
  BY DEF NoNewItems, Items
<1>1. drain \in [Drains -> DrainType]
  BY DEF OutboxInv, OutboxTypeInv
<1>2. CASE drain' = drain
  BY <1>2
<1>3. ASSUME NEW d \in Drains, drain[d].phase \notin {"idle", "prune"}, drain' = [drain EXCEPT ![d] = NextItem(d)]
      PROVE  Range(drain'[x].batch) \subseteq Range(drain[x].batch)
  <2>1. CASE x # d
    BY <1>1, <1>3, <2>1
  <2>2. CASE x = d
    <3>1. drain[d].batch \in Seq(ItemType) /\ drain[d].batch # <<>>
      BY <1>1, <1>3 DEF OutboxInv, BatchInv, InOrder, DrainType
    <3>2. drain'[d].batch = Tail(drain[d].batch)
      <4>1. drain'[d] = NextItem(d)
        BY <1>1, <1>3
      <4>2. NextItem(d).batch = Tail(drain[d].batch)
        BY <1>1 DEF NextItem, DrainType
      <4> QED BY <4>1, <4>2
    <3> QED BY <2>2, <3>1, <3>2, TailItems
  <2> QED BY <2>1, <2>2
<1>4. ASSUME NEW d \in Drains, drain' = [drain EXCEPT ![d] = Idle]
      PROVE  Range(drain'[x].batch) \subseteq Range(drain[x].batch)
  <2>1. CASE x # d
    BY <1>1, <1>4, <2>1
  <2>2. CASE x = d
    <3>1. drain'[x].batch = <<>>
      BY <1>1, <1>4, <2>2 DEF Idle
    <3> QED BY <3>1 DEF Range
  <2> QED BY <2>1, <2>2
<1>5. ASSUME NEW d \in Drains, NEW phase, NEW result,
             \/ drain' = [drain EXCEPT ![d].phase = phase]
             \/ drain' = [drain EXCEPT ![d].phase = phase, ![d].result = result]
      PROVE  Range(drain'[x].batch) \subseteq Range(drain[x].batch)
  <2>1. drain'[x].batch = drain[x].batch
    <3>1. \/ drain'[d] = [drain[d] EXCEPT !.phase = phase]
          \/ drain'[d] = [drain[d] EXCEPT !.phase = phase, !.result = result]
      BY <1>1, <1>5
    <3>2. drain'[d].batch = drain[d].batch
      BY <1>1, <3>1 DEF DrainType
    <3>3. x # d => drain'[x] = drain[x]
      BY <1>1, <1>5
    <3> QED BY <3>2, <3>3
  <2> QED BY <2>1
<1>6. ASSUME NEW d \in Drains,
             \/ Raise(d) \/ Die(d) \/ Disabled(d) \/ Refuse(d) \/ EnqueueRefused(d)
             \/ Send(d) \/ Settle(d) \/ Escalate(d) \/ Prune(d)
      PROVE  Range(drain'[x].batch) \subseteq Range(drain[x].batch)
  <2>1. CASE Raise(d) \/ EnqueueRefused(d) \/ Escalate(d) \/ Disabled(d)
    <3>1. drain[d].phase \notin {"idle", "prune"} /\ drain' = [drain EXCEPT ![d] = NextItem(d)]
      BY <2>1 DEF Raise, EnqueueRefused, Escalate, Disabled, At
    <3> QED BY <3>1, <1>3
  <2>2. CASE Die(d) \/ Prune(d)
    <3>1. drain' = [drain EXCEPT ![d] = Idle]
      BY <2>2 DEF Die, Prune
    <3> QED BY <3>1, <1>4
  <2>3. CASE Send(d)
    <3>1. \E outcome : drain' = [drain EXCEPT ![d].phase = "sent", ![d].result = outcome]
      BY <2>3 DEF Send
    <3> QED BY <3>1, <1>5
  <2>4. CASE Refuse(d)
    <3>1. /\ drain[d].phase \notin {"idle", "prune"}
          /\ \/ drain' = [drain EXCEPT ![d] = NextItem(d)]
             \/ drain' = [drain EXCEPT ![d].phase = "refuse"]
      BY <2>4 DEF Refuse, At
    <3> QED BY <3>1, <1>3, <1>5
  <2>5. CASE Settle(d)
    <3>1. /\ drain[d].phase \notin {"idle", "prune"}
          /\ \/ drain' = [drain EXCEPT ![d] = NextItem(d)]
             \/ drain' = [drain EXCEPT ![d] = [@ EXCEPT !.phase = "escalate"]]
      BY <2>5 DEF Settle, At
    <3>2. drain' = [drain EXCEPT ![d] = [@ EXCEPT !.phase = "escalate"]]
            => drain' = [drain EXCEPT ![d].phase = "escalate"]
      BY <1>1
    <3> QED BY <3>1, <3>2, <1>3, <1>5
  <2> QED BY <1>6, <2>1, <2>2, <2>3, <2>4, <2>5
<1>7. \/ drain' = drain
      \/ \E d \in Drains : \/ Raise(d) \/ Die(d) \/ Disabled(d) \/ Refuse(d) \/ EnqueueRefused(d)
                           \/ Send(d) \/ Settle(d) \/ Escalate(d) \/ Prune(d)
  BY DEF OutboxNext, outboxVars, Produce, Configure, LeaseEnds, Tick
<1> QED BY <1>2, <1>6, <1>7

\* An item of a claim: its row was there, and its token is newer than any before.
LEMMA ClaimItems ==
  ASSUME OutboxInv, NEW d \in Drains, Claim(d)
  PROVE  /\ Items(d) = {}
         /\ \A e \in Drains \ {d} : drain'[e] = drain[e]
         /\ \A t \in Items(d)' :
              /\ t \in ItemType
              /\ row[t.event][t.channel].state # "none"
              /\ t.claim = row[t.event][t.channel].attempts + 1
              /\ row'[t.event][t.channel].attempts = t.claim
<1>1. PICK b \in Batches :
        /\ row' = [s \in Slots |-> [c \in Channels |->
                     IF <<s, c>> \in Range(b) THEN Claimed(row[s][c]) ELSE row[s][c]]]
        /\ drain' = [drain EXCEPT ![d] =
                [phase |-> IF b = <<>> THEN "prune" ELSE "work", channels |-> enabled, result |-> "none",
                 batch |-> [i \in DOMAIN b |-> [event |-> b[i][1], channel |-> b[i][2],
                                                claim |-> row[b[i][1]][b[i][2]].attempts + 1]]]]
  BY DEF Claim
<1>2. drain \in [Drains -> DrainType] /\ row \in [Slots -> [Channels -> RowType]]
  BY DEF OutboxInv, OutboxTypeInv
<1>3. b \in Seq(DueItems) /\ Range(b) \subseteq DueItems
  BY BatchesAreDue
<1>4. Items(d) = {}
  <2>1. drain[d].phase = "idle"
    BY DEF Claim
  <2>2. drain[d].batch = <<>>
    BY <2>1 DEF OutboxInv, BatchInv, InOrder
  <2> QED BY <2>2 DEF Items, Range
<1>5. \A e \in Drains \ {d} : drain'[e] = drain[e]
  BY <1>1, <1>2
<1>6. drain'[d].batch = [i \in DOMAIN b |-> [event |-> b[i][1], channel |-> b[i][2],
                                            claim |-> row[b[i][1]][b[i][2]].attempts + 1]]
  BY <1>1, <1>2
<1>7. ASSUME NEW t \in Items(d)'
      PROVE  /\ t \in ItemType
             /\ row[t.event][t.channel].state # "none"
             /\ t.claim = row[t.event][t.channel].attempts + 1
             /\ row'[t.event][t.channel].attempts = t.claim
  <2>1. PICK i \in DOMAIN b : t = [event |-> b[i][1], channel |-> b[i][2],
                                   claim |-> row[b[i][1]][b[i][2]].attempts + 1]
    BY <1>6, <1>7 DEF Items, Range
  <2>2. b[i] \in DueItems /\ b[i] \in Range(b)
    BY <1>3 DEF Range
  <2>3. PICK s \in Slots, c \in Channels : b[i] = <<s, c>> /\ Due(s, c)
    BY <2>2 DEF DueItems
  <2>4. t = [event |-> s, channel |-> c, claim |-> row[s][c].attempts + 1]
    BY <2>1, <2>3
  <2>5. row[s][c] \in RowType /\ row[s][c].state # "none"
    BY <1>2, <2>3 DEF Due
  <2>6. row'[s][c] = Claimed(row[s][c])
    BY <1>1, <2>2, <2>3
  <2>7. row'[s][c].attempts = row[s][c].attempts + 1 /\ row[s][c].attempts \in Nat
    BY <2>5, <2>6 DEF Claimed, RowType
  <2> QED BY <2>4, <2>5, <2>7 DEF ItemType
<1> QED BY <1>4, <1>5, <1>7

\* What is in a batch is of the types of an item, and of a slot that is not free.
LEMMA ItemsHeld ==
  ASSUME OutboxInv, NEW d \in Drains, NEW t \in Items(d)
  PROVE  t \in ItemType /\ t.event \in Slots /\ t.channel \in Channels /\ t.claim \in Nat /\ t.event \notin Free
<1>1. drain[d].batch \in Seq(ItemType)
  BY DEF OutboxInv, OutboxTypeInv, DrainType
<1>2. PICK i \in DOMAIN drain[d].batch : t = drain[d].batch[i]
  BY DEF Items, Range
<1>3. t \in ItemType
  BY <1>1, <1>2
<1>4. t.event \notin Free
  BY <1>2 DEF Free
<1> QED BY <1>3, <1>4 DEF ItemType

\* A row's claims are counted up as long as its slot is not given to another event.
LEMMA TokenStaysOld ==
  ASSUME OutboxInv, OldTokens, RowsMove, NEW d \in Drains, NEW t \in Items(d)
  PROVE  \/ row'[t.event][t.channel].state = "none"
         \/ t.claim <= row'[t.event][t.channel].attempts
<1>1. t.event \in Slots /\ t.channel \in Channels /\ t.claim \in Nat /\ t.event \notin Free
  BY ItemsHeld
<1>2. PICK s \in Slots, c \in Channels : s = t.event /\ c = t.channel
  BY <1>1
<1>3. /\ row[s][c] \in RowType
      /\ row[s][c].attempts <= MAX_ATTEMPTS + row[s][c].reclaims
      /\ row[s][c].state = "pending" => row[s][c].attempts < MAX_ATTEMPTS
  BY DEF OutboxInv, OutboxTypeInv, BudgetHolds
<1>4. RowMoves(s, row[s][c], row'[s][c])
  BY DEF RowsMove
<1>5. /\ row'[s][c] \in RowType
      /\ row'[s][c].state = "none" \/ row'[s][c].attempts >= row[s][c].attempts
      /\ row[s][c].state = "none" => row'[s][c].state = "none" \/ s \in Free
  BY <1>3, <1>4, RowMovesKeep
<1>6. row[s][c].state = "none" \/ t.claim <= row[s][c].attempts
  BY <1>2 DEF OldTokens
<1>7. row[s][c].attempts \in Nat /\ row'[s][c].attempts \in Nat
  BY <1>3, <1>5 DEF RowType
<1>8. \/ row'[s][c].state = "none"
      \/ t.claim <= row'[s][c].attempts
  BY <1>1, <1>2, <1>5, <1>6, <1>7
<1> QED BY <1>2, <1>8

LEMMA TokenStep ==
  ASSUME TokenInv, [OutboxNext]_outboxVars
  PROVE  TokenInv'
<1>1. OutboxInv /\ OutboxInv' /\ RowsMove /\ OldTokens /\ OneHolder
  BY OutboxStepInv DEF TokenInv
<1>2. CASE NoNewItems
  <2>1. OldTokens'
    <3> SUFFICES ASSUME NEW d \in Drains, NEW t \in Items(d)'
                 PROVE  \/ row'[t.event][t.channel].state = "none"
                        \/ t.claim <= row'[t.event][t.channel].attempts
      BY DEF OldTokens
    <3>1. t \in Items(d)
      BY <1>2 DEF NoNewItems
    <3> QED BY <1>1, <3>1, TokenStaysOld
  <2>2. OneHolder'
    BY <1>1, <1>2 DEF OneHolder, NoNewItems
  <2> QED BY <1>1, <2>1, <2>2 DEF TokenInv
<1>3. ASSUME NEW d \in Drains, Claim(d) PROVE TokenInv'
  <2>1. /\ Items(d) = {}
        /\ \A e \in Drains \ {d} : drain'[e] = drain[e]
        /\ \A t \in Items(d)' :
              /\ t \in ItemType
              /\ row[t.event][t.channel].state # "none"
              /\ t.claim = row[t.event][t.channel].attempts + 1
              /\ row'[t.event][t.channel].attempts = t.claim
    BY <1>1, <1>3, ClaimItems
  <2>2. \A e \in Drains \ {d} : Items(e)' = Items(e)
    BY <2>1 DEF Items
  <2>3. OldTokens'
    <3> SUFFICES ASSUME NEW e \in Drains, NEW t \in Items(e)'
                 PROVE  \/ row'[t.event][t.channel].state = "none"
                        \/ t.claim <= row'[t.event][t.channel].attempts
      BY DEF OldTokens
    <3>1. CASE e = d
      <4>1. t.claim \in Nat /\ row'[t.event][t.channel].attempts = t.claim
        BY <2>1, <3>1 DEF ItemType
      <4> QED BY <4>1
    <3>2. CASE e # d
      <4>1. t \in Items(e)
        BY <2>2, <3>2
      <4> QED BY <1>1, <4>1, TokenStaysOld
    <3> QED BY <3>1, <3>2
  <2>4. ASSUME NEW e \in Drains \ {d}, NEW t \in Items(d)', t \in Items(e) PROVE FALSE
    <3>1. row[t.event][t.channel].state # "none" /\ t.claim = row[t.event][t.channel].attempts + 1
      BY <2>1
    <3>2. t.claim <= row[t.event][t.channel].attempts
      BY <1>1, <2>4, <3>1 DEF OldTokens
    <3>3. t.event \in Slots /\ t.channel \in Channels
      BY <1>1, <2>4, ItemsHeld
    <3>4. row[t.event][t.channel].attempts \in Nat
      BY <1>1, <3>3 DEF OutboxInv, OutboxTypeInv, RowType
    <3> QED BY <3>1, <3>2, <3>4
  <2>5. OneHolder'
    <3> SUFFICES ASSUME NEW e \in Drains, NEW f \in Drains, e # f, NEW t, t \in Items(e)', t \in Items(f)'
                 PROVE  FALSE
      BY DEF OneHolder
    <3>1. CASE e = d
      BY <2>2, <2>4, <3>1
    <3>2. CASE f = d
      BY <2>2, <2>4, <3>2
    <3>3. CASE e # d /\ f # d
      BY <1>1, <2>2, <3>3 DEF OneHolder
    <3> QED BY <3>1, <3>2, <3>3
  <2> QED BY <1>1, <2>3, <2>5 DEF TokenInv
<1>4. NoNewItems \/ \E d \in Drains : Claim(d)
  BY <1>1, ItemsStay
<1> QED BY <1>2, <1>3, <1>4

\* A token is never given twice: claim's new one is newer than every one still in a batch.
THEOREM TokensAreUnique == OutboxSpec => []TokenInv
<1>1. OutboxInit => TokenInv
  <2>1. OutboxInit => \A d \in Drains : Items(d) = {}
    BY DEF OutboxInit, Idle, Items, Range
  <2> QED BY <2>1, OutboxInitInv DEF TokenInv, OldTokens, OneHolder
<1>2. TokenInv /\ [OutboxNext]_outboxVars => TokenInv'
  BY TokenStep
<1> QED BY <1>1, <1>2, PTL DEF OutboxSpec

\* settle's WHERE claim=?: of two drains with one row in hand, the answer of one at most is taken.
THEOREM OneDrainSettles == OutboxSpec => []OneMaySettle
<1>1. ASSUME TokenInv PROVE OneMaySettle
  <2> SUFFICES ASSUME NEW d \in Drains, NEW e \in Drains, d # e, NEW t \in Items(d), NEW u \in Items(e),
                      t.event = u.event, t.channel = u.channel, Holds(t), Holds(u)
               PROVE  FALSE
    BY DEF OneMaySettle
  <2>1. t.claim = u.claim
    BY DEF Holds
  <2>2. t \in ItemType /\ u \in ItemType
    BY <1>1, ItemsHeld DEF TokenInv
  <2>3. t = u
    BY <2>1, <2>2 DEF ItemType
  <2> QED BY <1>1, <2>3 DEF TokenInv, OneHolder
<1>2. TokenInv => OneMaySettle
  BY <1>1
<1> QED BY <1>2, TokensAreUnique, PTL

-----------------------------------------------------------------------------
(* The outbox implements DeliveryLedger. *)

Ledger == [s \in Slots |-> [c \in Channels |-> Stands(row[s][c])]]
SameLedger == \A s \in Slots, c \in Channels : Stands(row'[s][c]) = Stands(row[s][c])
LedgerStep == [Deliveries!Next]_Ledger

LEMMA LedgerStutters == SameLedger => LedgerStep
<1> SUFFICES ASSUME SameLedger PROVE Ledger' = Ledger
  BY DEF LedgerStep
<1> QED BY DEF SameLedger, Ledger

\* A new event owes all of its rows at once; a repeat in the window owes nothing more.
LEMMA EnqueueMaps ==
  ASSUME OutboxInv, NEW key, NEW channels, NEW refused, NEW rows, Enqueue(key, channels, refused, rows),
         rows \in [Slots -> [Channels -> RowType]],
         \A s \in Slots, c \in Channels : Stands(rows[s][c]) = Stands(row[s][c])
  PROVE  LedgerStep
<1>1. CASE Open(key) # {}
  <2>1. row' = rows
    BY <1>1 DEF Enqueue
  <2> QED BY <2>1, LedgerStutters DEF SameLedger
<1>2. CASE Open(key) = {}
  <2> DEFINE free == CHOOSE x \in Free : TRUE
             fresh == [c \in Channels |-> IF c \in channels THEN FreshRow ELSE NoRow]
  <2>1. Free # {} /\ row' = [rows EXCEPT ![free] = fresh]
    BY <1>2 DEF Enqueue
  <2>2. free \in Free
    BY <2>1
  <2>3. PICK s \in Slots : s = free /\ outbox[s] = NoEvent
    BY <2>2 DEF Free
  <2> HIDE DEF free
  <2>4. row'[s] = fresh /\ \A x \in Slots \ {s} : row'[x] = rows[x]
    BY <2>1, <2>3
  <2>5. \A c \in Channels : Stands(fresh[c]) = IF c \in channels THEN "owed" ELSE "none"
    BY DEF Stands, FreshRow, NoRow
  <2> HIDE DEF fresh
  <2>6. \A c \in Channels : Ledger[s][c] = "none"
    <3>1. \A c \in Channels : row[s][c] = NoRow
      BY <2>3 DEF OutboxInv, EventInv
    <3> QED BY <3>1 DEF Ledger, Stands, NoRow
  <2>7. Ledger' = [Ledger EXCEPT ![s] = [c \in Channels |-> IF c \in channels \cap Channels THEN "owed" ELSE "none"]]
    BY <2>4, <2>5 DEF Ledger
  <2>8. Deliveries!Announce(s)
    BY <2>6, <2>7 DEF Deliveries!Announce, Ledger
  <2> QED BY <2>8 DEF LedgerStep, Deliveries!Next
<1> QED BY <1>1, <1>2

\* An answer that is taken settles a delivery or leaves it owed.
LEMMA SettleRowMaps ==
  ASSUME OutboxInv, NEW i \in ItemType, Holds(i), NEW o \in Results, NEW x \in Errors, SettleRow(i, o, x)
  PROVE  LedgerStep
<1>1. PICK s \in Slots, c \in Channels : s = i.event /\ c = i.channel
  BY DEF ItemType
<1>2. /\ row'[s][c] = After(row[s][c], o, x)
      /\ Only(s, c)
  BY <1>1, SettleKeepsRow
<1>3. row[s][c] \in RowType /\ row[s][c].state = "claimed"
  BY <1>1 DEF OutboxInv, OutboxTypeInv, Holds
<1>4. Stands(row[s][c]) = "owed"
  BY <1>3 DEF Stands
<1>5. Stands(row'[s][c]) \in {"owed", "delivered", "failed"}
  <2>1. After(row[s][c], o, x).state \in {"delivered", "failed", "pending"}
    BY <1>3 DEF After, RowType
  <2> QED BY <1>2, <2>1 DEF Stands
<1>6. PICK z : z = Stands(row'[s][c])
  OBVIOUS
<1>7. Ledger' = [Ledger EXCEPT ![s][c] = z]
  <2>1. \A a \in Slots, b \in Channels : a # s \/ b # c => Stands(row'[a][b]) = Stands(row[a][b])
    BY <1>2 DEF Only
  <2> QED BY <1>6, <2>1 DEF Ledger
<1>8. CASE z = "owed"
  <2>1. SameLedger
    BY <1>2, <1>4, <1>6, <1>8 DEF SameLedger, Only
  <2> QED BY <2>1, LedgerStutters
<1>9. CASE z \in {"delivered", "failed"}
  <2>1. Deliveries!Settle(s, c)
    BY <1>4, <1>7, <1>9 DEF Deliveries!Settle, Ledger
  <2> QED BY <2>1 DEF LedgerStep, Deliveries!Next
<1> QED BY <1>5, <1>6, <1>8, <1>9

LEMMA DrainMaps ==
  ASSUME OutboxInv, NEW d \in Drains,
         Disabled(d) \/ Refuse(d) \/ EnqueueRefused(d) \/ Send(d) \/ Settle(d) \/ Escalate(d)
  PROVE  LedgerStep
<1>1. Item(d) \in ItemType /\ Item(d).event \in Slots /\ Item(d).channel \in Channels
  <2>1. drain[d].phase \notin {"idle", "prune"}
    BY DEF Disabled, Refuse, EnqueueRefused, Send, Settle, Escalate, At
  <2> QED BY <2>1, InHand DEF OutboxInv
<1>2. row \in [Slots -> [Channels -> RowType]]
  BY DEF OutboxInv, OutboxTypeInv
<1>3. CASE row' = row
  BY <1>3, LedgerStutters DEF SameLedger
<1>4. CASE Disabled(d) \/ Refuse(d)
  <2>1. \/ row' = row
        \/ Holds(Item(d)) /\ \E x \in Errors : SettleRow(Item(d), "failed", x)
    BY <1>4 DEF Disabled, Refuse, Errors
  <2>2. "failed" \in Results
    BY DEF Results
  <2> QED BY <1>1, <1>3, <2>1, <2>2, SettleRowMaps
<1>5. CASE Settle(d)
  <2>1. drain[d].result \in Results /\ "send" \in Errors
    BY <1>5 DEF Settle, At, OutboxInv, OutboxTypeInv, BatchInv, InOrder, DrainType, Errors
  <2>2. \/ row' = row
        \/ Holds(Item(d)) /\ SettleRow(Item(d), drain[d].result, "send")
    BY <1>5 DEF Settle
  <2>3. CASE Holds(Item(d)) /\ SettleRow(Item(d), drain[d].result, "send")
    <3>1. PICK o \in Results, x \in Errors : o = drain[d].result /\ x = "send"
      BY <2>1
    <3>2. SettleRow(Item(d), o, x)
      BY <2>3, <3>1
    <3> QED BY <1>1, <2>3, <3>2, SettleRowMaps
  <2> QED BY <1>3, <2>2, <2>3
<1>6. CASE EnqueueRefused(d)
  <2>1. Enqueue(<<"refused", Item(d).event>>, drain[d].channels, FALSE, row)
    BY <1>6 DEF EnqueueRefused
  <2> QED BY <1>2, <2>1, EnqueueMaps
<1>7. CASE Escalate(d)
  <2>1. PICK rows : rows = Reported(Item(d))
    OBVIOUS
  <2>2. PICK s \in Slots, c \in Channels : s = Item(d).event /\ c = Item(d).channel
    BY <1>1
  <2>3. /\ rows \in [Slots -> [Channels -> RowType]]
        /\ \A x \in Slots, y \in Channels : rows[x][y].state = row[x][y].state
    <3>1. CASE rows = row
      BY <1>2, <3>1
    <3>2. CASE rows = [row EXCEPT ![s][c].reported = TRUE]
      <4>1. PICK q : q = [row[s][c] EXCEPT !.reported = TRUE]
        OBVIOUS
      <4>2. rows = [row EXCEPT ![s][c] = q]
        BY <1>2, <3>2, <4>1
      <4>3. q \in RowType /\ q.state = row[s][c].state
        <5>1. row[s][c] \in RowType
          BY <1>2
        <5> QED BY <4>1, <5>1 DEF RowType
      <4> QED BY <1>2, <4>2, <4>3
    <3> QED BY <2>1, <2>2, <3>1, <3>2 DEF Reported
  <2>4. \A x \in Slots, y \in Channels : Stands(rows[x][y]) = Stands(row[x][y])
    BY <2>3 DEF Stands
  <2>5. \/ row' = rows
        \/ Enqueue(<<"channel_failed", Item(d).channel>>, Others(d), FALSE, rows)
    BY <1>7, <2>1 DEF Escalate
  <2>6. CASE row' = rows
    BY <2>4, <2>6, LedgerStutters DEF SameLedger
  <2>7. CASE Enqueue(<<"channel_failed", Item(d).channel>>, Others(d), FALSE, rows)
    BY <2>3, <2>4, <2>7, EnqueueMaps
  <2> QED BY <2>5, <2>6, <2>7
<1>8. CASE Send(d)
  BY <1>3, <1>8 DEF Send, tableVars
<1> QED BY <1>4, <1>5, <1>6, <1>7, <1>8

\* An event is removed with all of its rows, none of them owed.
LEMMA PruneMaps ==
  ASSUME OutboxInv, NEW d \in Drains, Prune(d)
  PROVE  LedgerStep
<1>1. PICK gone \in SUBSET Old :
        row' = [s \in Slots |-> IF s \in gone THEN [c \in Channels |-> NoRow] ELSE row[s]]
  BY DEF Prune
<1>2. gone \in SUBSET Slots
  BY <1>1 DEF Old
<1>3. \A s \in gone, c \in Channels : Ledger[s][c] # "owed"
  <2>1. \A s \in gone, c \in Channels : row[s][c].state \in Settled \cup {"none"}
    BY <1>1 DEF Old, Rows
  <2> QED BY <1>2, <2>1 DEF Ledger, Stands, Settled
<1>4. Stands(NoRow) = "none"
  BY DEF Stands, NoRow
<1>5. Ledger' = [s \in Slots |-> IF s \in gone THEN [c \in Channels |-> "none"] ELSE Ledger[s]]
  BY <1>1, <1>4 DEF Ledger
<1>6. Deliveries!Retire(gone)
  BY <1>3, <1>5 DEF Deliveries!Retire, Ledger
<1> QED BY <1>2, <1>6 DEF LedgerStep, Deliveries!Next

\* A claim, a lapse of a lease and the passing of time leave what is owed as it is.
LEMMA RestMaps ==
  ASSUME OutboxInv, (\E d \in Drains : Claim(d)) \/ (\E s \in Slots, c \in Channels : LeaseEnds(s, c)) \/ Tick
  PROVE  LedgerStep
<1>1. row \in [Slots -> [Channels -> RowType]]
  BY DEF OutboxInv, OutboxTypeInv
<1>2. ASSUME NEW d \in Drains, Claim(d) PROVE LedgerStep
  <2>1. PICK b \in Batches :
          row' = [s \in Slots |-> [c \in Channels |->
                    IF <<s, c>> \in Range(b) THEN Claimed(row[s][c]) ELSE row[s][c]]]
    BY <1>2 DEF Claim
  <2>2. Range(b) \subseteq DueItems
    BY BatchesAreDue
  <2>3. ASSUME NEW s \in Slots, NEW c \in Channels PROVE Stands(row'[s][c]) = Stands(row[s][c])
    <3>1. <<s, c>> \in Range(b) => row[s][c].state \in {"pending", "claimed"}
      BY <2>2 DEF DueItems, Due
    <3>2. row[s][c] \in RowType
      BY <1>1
    <3>3. Claimed(row[s][c]).state = "claimed"
      BY <3>2 DEF Claimed, RowType
    <3> QED BY <2>1, <3>1, <3>3 DEF Stands
  <2> QED BY <2>3, LedgerStutters DEF SameLedger
<1>3. ASSUME NEW s \in Slots, NEW c \in Channels, LeaseEnds(s, c) PROVE LedgerStep
  <2>1. row' = [row EXCEPT ![s][c].lapsed = TRUE]
    BY <1>3 DEF LeaseEnds
  <2>2. \A x \in Slots, y \in Channels : row'[x][y].state = row[x][y].state
    <3>1. row[s][c] \in RowType
      BY <1>1
    <3>2. PICK q : q = [row[s][c] EXCEPT !.lapsed = TRUE]
      OBVIOUS
    <3>3. q.state = row[s][c].state
      BY <3>1, <3>2 DEF RowType
    <3>4. row' = [row EXCEPT ![s][c] = q]
      BY <1>1, <2>1, <3>2
    <3> QED BY <1>1, <3>3, <3>4
  <2> QED BY <2>2, LedgerStutters DEF SameLedger, Stands
<1>4. CASE Tick
  <2>1. ASSUME NEW x \in Slots, NEW y \in Channels PROVE row'[x][y].state = row[x][y].state
    <3>1. row'[x][y] = [row[x][y] EXCEPT !.wait = Less(@)]
      BY <1>4 DEF Tick
    <3>2. row[x][y] \in RowType
      BY <1>1
    <3> QED BY <3>1, <3>2 DEF RowType
  <2> QED BY <2>1, LedgerStutters DEF SameLedger, Stands
<1> QED BY <1>2, <1>3, <1>4

LEMMA OutboxMaps == OutboxInv /\ [OutboxNext]_outboxVars => LedgerStep
<1> SUFFICES ASSUME OutboxInv, [OutboxNext]_outboxVars PROVE LedgerStep
  OBVIOUS
<1>1. CASE row' = row
  BY <1>1, LedgerStutters DEF SameLedger
<1>2. ASSUME NEW k \in Keys, NEW refused \in Refusals, Produce(k, refused) PROVE LedgerStep
  <2>1. Enqueue(<<"event", k>>, Channels, refused, row)
    BY <1>2 DEF Produce
  <2>2. row \in [Slots -> [Channels -> RowType]]
    BY DEF OutboxInv, OutboxTypeInv
  <2> QED BY <2>1, <2>2, EnqueueMaps
<1>3. CASE Configure \/ \E d \in Drains : Raise(d) \/ Die(d)
  <2>1. row' = row
    BY <1>3 DEF Configure, Raise, Die, tableVars
  <2> QED BY <1>1, <2>1
<1>4. CASE \E d \in Drains : Disabled(d) \/ Refuse(d) \/ EnqueueRefused(d) \/ Send(d) \/ Settle(d) \/ Escalate(d)
  BY <1>4, DrainMaps
<1>5. CASE \E d \in Drains : Prune(d)
  BY <1>5, PruneMaps
<1>6. CASE (\E d \in Drains : Claim(d)) \/ (\E s \in Slots, c \in Channels : LeaseEnds(s, c)) \/ Tick
  BY <1>6, RestMaps
<1>7. CASE UNCHANGED outboxVars
  <2>1. row' = row
    BY <1>7 DEF outboxVars, tableVars
  <2> QED BY <1>1, <2>1
<1> QED BY <1>2, <1>3, <1>4, <1>5, <1>6, <1>7 DEF OutboxNext

\* Both writers, the drain and retention keep the ledger: a delivery is owed with its event, settled once, and
\* an event leaves owing nothing, whatever lapses, dies or answers late.
THEOREM OutboxKeepsDeliveries == OutboxSpec => DeliveriesKept
<1>1. OutboxInit => Deliveries!Init
  <2> SUFFICES ASSUME OutboxInit PROVE Ledger = [s \in Slots |-> [c \in Channels |-> "none"]]
    BY DEF Deliveries!Init, Ledger
  <2>1. \A s \in Slots, c \in Channels : Stands(row[s][c]) = "none"
    BY DEF OutboxInit, Stands, NoRow
  <2> QED BY <2>1 DEF Ledger
<1>2. OutboxInv /\ [OutboxNext]_outboxVars => [Deliveries!Next]_Ledger
  BY OutboxMaps DEF LedgerStep
<1>3. OutboxInv /\ [OutboxNext]_outboxVars => [Deliveries!Next]_[s \in Slots |-> [c \in Channels |-> Stands(row[s][c])]]
  BY <1>2 DEF Ledger
<1> QED BY <1>1, <1>3, OutboxInvariance, PTL DEF OutboxSpec, DeliveriesKept, Deliveries!Spec

=============================================================================
