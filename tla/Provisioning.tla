---------------------------- MODULE Provisioning ----------------------------
(***************************************************************************)
(* Provisioning of environments: the job rows of the catalog               *)
(* (src/control/catalog.ts), the worker that claims and settles them       *)
(* (lab/worker.py, lab/worker.ts, lab/worker-receipt.ts), the guardian it  *)
(* starts per job (lab/worker_lock_exec.py), the native provisioner the    *)
(* guardian starts (lab/durable_runtime.py) and the three kinds of file    *)
(* they leave for each other: the receipt, the stage and the witness       *)
(* (lab/effect_receipt.py).                                                *)
(*                                                                         *)
(* Any process may die between any two steps.  The catalog and the files   *)
(* are durable.  An attempt is a token <<environment, attempt>>: each      *)
(* claim raises the attempt and draws a fresh claim, and one guardian with *)
(* one fresh receipt token runs per claim, so the token stands for the     *)
(* claim and for the receipt token too.                                    *)
(*                                                                         *)
(* A definition whose name ends in _<Word> is not part of the program: it  *)
(* is the definition that follows it with one plausible bug, kept to show  *)
(* that a property would notice.                                           *)
(***************************************************************************)
EXTENDS Integers, FiniteSets

CONSTANTS
  Env,          \* environment ids; integers, because claims go in id order
  Project,      \* projects
  ProjectOf,    \* the project of each environment
  Worker,       \* worker processes that may be started, one after another
  EnvironmentLimit,  \* ENVIRONMENT_LIMIT: jobs that may hold a runtime slot
  MaxAttempt,   \* bound: claims of one environment that are explored
  NoToken       \* the token of no attempt

ASSUME EnvAssumption == Env \subseteq Int
ASSUME ProjectAssumption == ProjectOf \in [Env -> Project]
ASSUME BoundAssumption == MaxAttempt \in Nat /\ EnvironmentLimit \in Nat

Token == Env \X (1 .. MaxAttempt)
ASSUME NoTokenAssumption == NoToken \notin Token

EnvOf(t) == t[1]
AttemptOf(t) == t[2]

JobState == {"none", "queued", "running", "succeeded", "failed", "cancelled"}
Failure == {"none", "runtime_failed", "capacity_exceeded"}
Outcome == {"ok", "refused"}               \* exit codes 0 and 75
RetryLimit == 2

\* STAGES of effect_receipt.py; everything after preflight changes the world.
Mutating == {"database", "services", "storage", "publication"}
NextStage == [database |-> "services", services |-> "storage", storage |-> "publication"]

GuardianLive == {"publish", "opened", "launch", "watch", "cleanup", "finish"}
NativeLive == {"boot", "staging", "preflight", "cleared", "refusing", "writing_refused"}
                \cup Mutating \cup {"built", "writing_ok"}

VARIABLES
  \* the catalog: provision_jobs, provision_effect_results, provision_recovery_decisions
  jobState, attempt, claim, failure, results, decisions,
  authority,    \* does the job's actor still hold owner or admin where the job was asked
  \* files
  receipt,      \* worker-effect.json
  stage,        \* effect-stages/<token>.json
  witness,      \* effect-outcomes/<token>.json
  \* processes
  wpc, wtoken,  \* each worker: where it is, and the attempt it dispatched
  guardian,     \* the guardian of each attempt
  native,       \* the native provisioner of each attempt
  \* what Docker and PostgreSQL hold of each environment
  world

catalogVars == <<jobState, attempt, claim, failure, results, decisions, authority>>
fileVars == <<receipt, stage, witness>>
workerVars == <<wpc, wtoken>>
effectVars == <<guardian, native, world>>
vars == <<catalogVars, fileVars, workerVars, effectVars>>

NoReceipt == [phase |-> "absent", token |-> NoToken, exit |-> "none"]

Init ==
  /\ jobState = [e \in Env |-> "none"]
  /\ attempt = [e \in Env |-> 0]
  /\ claim = [e \in Env |-> 0]
  /\ failure = [e \in Env |-> "none"]
  /\ results = [t \in Token |-> "none"]
  /\ decisions = [t \in Token |-> "none"]
  /\ authority = [e \in Env |-> TRUE]
  /\ receipt = NoReceipt
  /\ stage = [t \in Token |-> "none"]
  /\ witness = [t \in Token |-> "none"]
  /\ wpc = [w \in Worker |-> "down"]
  /\ wtoken = [w \in Worker |-> NoToken]
  /\ guardian = [t \in Token |-> "none"]
  /\ native = [t \in Token |-> "none"]
  /\ world = [e \in Env |-> "absent"]

-----------------------------------------------------------------------------
(* Requests of people, through the catalog. *)

\* requireEnvironmentCapacity: environments that hold or may take a slot.
Held == {e \in Env : jobState[e] \in {"queued", "running", "succeeded"}}
HasCapacity == Cardinality(Held) < EnvironmentLimit

createEnvironment(e) ==
  /\ jobState[e] = "none"
  /\ HasCapacity
  /\ jobState' = [jobState EXCEPT ![e] = "queued"]
  /\ authority' = [authority EXCEPT ![e] = TRUE]
  /\ UNCHANGED <<attempt, claim, failure, results, decisions, fileVars, workerVars, effectVars>>

\* A retry carries the authority of whoever asked for it.
Retryable_Running == {"failed", "cancelled", "running"}
Retryable == {"failed", "cancelled"}
retryProvision(e) ==
  /\ jobState[e] \in Retryable
  /\ HasCapacity
  /\ jobState' = [jobState EXCEPT ![e] = "queued"]
  /\ authority' = [authority EXCEPT ![e] = TRUE]
  /\ claim' = [claim EXCEPT ![e] = 0]
  /\ failure' = [failure EXCEPT ![e] = "none"]
  /\ UNCHANGED <<attempt, results, decisions, fileVars, workerVars, effectVars>>

\* The move to another organization.  Only a queued job reads its authority
\* again, and none of this project stays queued, so authority is left alone.
transferProject(p) ==
  LET moved == {e \in Env : ProjectOf[e] = p} IN
  /\ \A e \in moved : jobState[e] # "running"
  /\ \E e \in moved : jobState[e] = "queued"     \* otherwise no job row changes state
  /\ jobState' = [e \in Env |-> IF e \in moved /\ jobState[e] = "queued"
                                THEN "cancelled" ELSE jobState[e]]
  /\ claim' = [e \in Env |-> IF e \in moved /\ jobState[e] = "queued" THEN 0 ELSE claim[e]]
  /\ UNCHANGED <<attempt, failure, results, decisions, authority, fileVars, workerVars, effectVars>>

\* A membership is removed from, or given back to, the actor of a job.
MembershipChange(e) ==
  /\ jobState[e] # "none"
  /\ authority' = [authority EXCEPT ![e] = ~ @]
  /\ UNCHANGED <<jobState, attempt, claim, failure, results, decisions, fileVars, workerVars, effectVars>>

-----------------------------------------------------------------------------
(* Worker ownership and startup. *)

\* effect.lock: the worker opens it anew, the guardian and the native
\* provisioner inherit the descriptor, and the lock lasts as long as any of them.
LeaseFree_NotInherited ==
  \A w \in Worker : wpc[w] = "down"
LeaseFree ==
  /\ \A w \in Worker : wpc[w] = "down"
  /\ \A t \in Token : guardian[t] \notin GuardianLive /\ native[t] \notin NativeLive

Acquire(w) ==
  /\ wpc[w] = "down"
  /\ LeaseFree
  /\ wpc' = [wpc EXCEPT ![w] = "startup"]
  /\ UNCHANGED <<wtoken, catalogVars, fileVars, effectVars>>

\* settleWorkerReceipt up to its catalog call: what the files say.  A witness
\* or a preflight stage counts only under a fresh lease (recoverNative).
Verdict(fresh) ==
  LET t == receipt.token IN
  CASE receipt.phase = "absent" -> "absent"
    [] receipt.phase = "completed" -> receipt.exit
    [] receipt.phase = "pending" /\ fresh /\ witness[t] \in Outcome -> witness[t]
    [] receipt.phase = "pending" /\ fresh /\ witness[t] = "none" /\ stage[t] = "preflight" -> "preflight"
    [] OTHER -> "blocked"

HoldsClaim(t) ==
  /\ jobState[EnvOf(t)] = "running"
  /\ attempt[EnvOf(t)] = AttemptOf(t)
  /\ claim[EnvOf(t)] = AttemptOf(t)

\* finishProvision, for a claim that still holds.
finishProvision(t, success, code) ==
  /\ jobState' = [jobState EXCEPT ![EnvOf(t)] = IF success THEN "succeeded" ELSE "failed"]
  /\ failure' = [failure EXCEPT ![EnvOf(t)] = IF success THEN "none" ELSE code]
  /\ claim' = [claim EXCEPT ![EnvOf(t)] = 0]
  /\ UNCHANGED <<attempt, authority>>

\* applyProvisionReceipt: an outcome already recorded is answered again and
\* changes nothing; otherwise the claim must still hold.
MayApply_NoReplay(t, exit) == HoldsClaim(t)
MayApply(t, exit) == IF results[t] = "none" THEN HoldsClaim(t) ELSE results[t] = exit
applyProvisionReceipt_NoRecord(t, exit) ==
  IF HoldsClaim(t)
  THEN finishProvision(t, exit = "ok", "capacity_exceeded") /\ UNCHANGED <<results, decisions>>
  ELSE UNCHANGED catalogVars
applyProvisionReceipt(t, exit) ==
  IF results[t] = "none"
  THEN /\ finishProvision(t, exit = "ok", "capacity_exceeded")
       /\ results' = [results EXCEPT ![t] = exit]
       /\ UNCHANGED decisions
  ELSE UNCHANGED catalogVars

\* recoverPreflightReceipt: at most RetryLimit requeues in an environment's life.
RetriesSpent_ThisAttempt(e) ==
  Cardinality({t \in Token : t = <<e, attempt[e]>> /\ decisions[t] = "retry"})
RetriesSpent(e) == Cardinality({t \in Token : EnvOf(t) = e /\ decisions[t] = "retry"})
MayRecover(t) == decisions[t] = "none" => HoldsClaim(t)
recoverPreflightReceipt(t) ==
  IF decisions[t] = "none"
  THEN LET e == EnvOf(t)
           retry == RetriesSpent(e) < RetryLimit IN
       /\ jobState' = [jobState EXCEPT ![e] = IF retry THEN "queued" ELSE "failed"]
       /\ claim' = [claim EXCEPT ![e] = 0]
       /\ failure' = [failure EXCEPT ![e] = IF retry THEN "none" ELSE "runtime_failed"]
       /\ decisions' = [decisions EXCEPT ![t] = IF retry THEN "retry" ELSE "failed"]
       /\ UNCHANGED <<attempt, results, authority>>
  ELSE UNCHANGED catalogVars

\* A thrown error ends the worker; the supervisor starts another.
WorkerExits(w) == wpc' = [wpc EXCEPT ![w] = "down"] /\ wtoken' = [wtoken EXCEPT ![w] = NoToken]
WorkerGoes(w, pc) == wpc' = [wpc EXCEPT ![w] = pc] /\ UNCHANGED wtoken

\* The commit of a settlement; the receipt is still on disk after it.
Commit(w, verdict, pc) ==
  LET t == receipt.token IN
  \/ /\ verdict \in Outcome /\ MayApply(t, verdict)
     /\ applyProvisionReceipt(t, verdict)
     /\ WorkerGoes(w, pc)
  \/ /\ verdict = "preflight" /\ MayRecover(t)
     /\ recoverPreflightReceipt(t)
     /\ WorkerGoes(w, pc)
  \/ /\ \/ verdict = "blocked"
        \/ verdict \in Outcome /\ ~ MayApply(t, verdict)
        \/ verdict = "preflight" /\ ~ MayRecover(t)
     /\ WorkerExits(w)
     /\ UNCHANGED catalogVars

\* Startup settles before anything else, under a fresh lease.
StartupSettle_GoesOn(w) ==
  /\ wpc[w] = "startup"
  /\ \/ /\ Verdict(TRUE) \in {"absent", "blocked"}
        /\ WorkerGoes(w, "recover")
        /\ UNCHANGED catalogVars
     \/ Verdict(TRUE) # "blocked" /\ Commit(w, Verdict(TRUE), "startup_consume")
  /\ UNCHANGED <<fileVars, effectVars>>
StartupSettle(w) ==
  /\ wpc[w] = "startup"
  /\ \/ /\ Verdict(TRUE) = "absent"
        /\ WorkerGoes(w, "recover")
        /\ UNCHANGED catalogVars
     \/ Commit(w, Verdict(TRUE), "startup_consume")
  /\ UNCHANGED <<fileVars, effectVars>>

\* consume: unlink the receipt, only after the commit.
Consume(w) ==
  /\ wpc[w] \in {"startup_consume", "consume"}
  /\ receipt' = NoReceipt
  /\ WorkerGoes(w, IF wpc[w] = "consume" THEN "loop" ELSE "recover")
  /\ UNCHANGED <<stage, witness, catalogVars, effectVars>>

\* Jobs claimed by a worker that died before a receipt existed go back.
recoverProvisioning(w) ==
  /\ wpc[w] = "recover"
  /\ jobState' = [e \in Env |-> IF jobState[e] = "running" THEN "queued" ELSE jobState[e]]
  /\ claim' = [e \in Env |-> IF jobState[e] = "running" THEN 0 ELSE claim[e]]
  /\ WorkerGoes(w, "loop")
  /\ UNCHANGED <<attempt, failure, results, decisions, authority, fileVars, effectVars>>

-----------------------------------------------------------------------------
(* The worker's loop. *)

\* claimProvision: in id order, jobs whose actor lost authority are cancelled
\* until one is found that may run.
Claimable == {e \in Env : jobState[e] = "queued" /\ authority[e]}
Refusable(S) == {e \in Env : jobState[e] = "queued" /\ ~ authority[e] /\ \A f \in S : e < f}
claimProvision(w) ==
  /\ wpc[w] = "loop"
  /\ \/ \E e \in Claimable :
          LET passed == Refusable({e}) IN
          /\ \A f \in Claimable : e <= f
          /\ attempt[e] < MaxAttempt
          /\ jobState' = [f \in Env |-> IF f = e THEN "running"
                                        ELSE IF f \in passed THEN "cancelled" ELSE jobState[f]]
          /\ attempt' = [attempt EXCEPT ![e] = @ + 1]
          /\ claim' = [claim EXCEPT ![e] = attempt[e] + 1]
          /\ wpc' = [wpc EXCEPT ![w] = "spawn"]
          /\ wtoken' = [wtoken EXCEPT ![w] = <<e, attempt[e] + 1>>]
     \/ /\ Claimable = {}
        /\ Refusable({}) # {}
        /\ jobState' = [f \in Env |-> IF f \in Refusable({}) THEN "cancelled" ELSE jobState[f]]
        /\ UNCHANGED <<attempt, claim, workerVars>>
  /\ UNCHANGED <<failure, results, decisions, authority, fileVars, effectVars>>

spawnWorkerEffect(w) ==
  /\ wpc[w] = "spawn"
  /\ guardian' = [guardian EXCEPT ![wtoken[w]] = "publish"]
  /\ WorkerGoes(w, "wait")
  /\ UNCHANGED <<native, world, catalogVars, fileVars>>

\* After child.exited: no receipt at all means the effect never started.
SettleEffect(w) ==
  LET t == wtoken[w] IN
  /\ wpc[w] = "wait"
  /\ guardian[t] = "dead"
  /\ \/ /\ Verdict(FALSE) = "absent"
        /\ IF HoldsClaim(t)
           THEN /\ finishProvision(t, FALSE, "runtime_failed")
                /\ WorkerGoes(w, "loop")
                /\ UNCHANGED <<results, decisions>>
           ELSE WorkerExits(w) /\ UNCHANGED catalogVars
     \/ Commit(w, Verdict(FALSE), "consume")
  /\ UNCHANGED <<fileVars, effectVars>>

\* SIGKILL, a failed spawn, a stop signal, a drain: the process is gone and
\* whatever it had not committed is as it was.
WorkerCrash(w) ==
  /\ wpc[w] # "down"
  /\ WorkerExits(w)
  /\ UNCHANGED <<catalogVars, fileVars, effectVars>>

-----------------------------------------------------------------------------
(* The guardian of one attempt. *)

GuardianGoes(t, pc) == guardian' = [guardian EXCEPT ![t] = pc]

\* publish opens the file exclusively: an existing receipt ends the guardian.
GuardianOpen(t) ==
  /\ guardian[t] = "publish"
  /\ IF receipt.phase = "absent"
     THEN /\ receipt' = [phase |-> "partial", token |-> t, exit |-> "none"]
          /\ GuardianGoes(t, "opened")
     ELSE GuardianGoes(t, "dead") /\ UNCHANGED receipt
  /\ UNCHANGED <<stage, witness, native, world, catalogVars, workerVars>>

GuardianPublish(t) ==
  /\ guardian[t] = "opened"
  /\ receipt' = [phase |-> "pending", token |-> t, exit |-> "none"]
  /\ GuardianGoes(t, "launch")
  /\ UNCHANGED <<stage, witness, native, world, catalogVars, workerVars>>

GuardianLaunch(t) ==
  /\ guardian[t] = "launch"
  /\ native' = [native EXCEPT ![t] = "boot"]
  /\ GuardianGoes(t, "watch")
  /\ UNCHANGED <<world, catalogVars, fileVars, workerVars>>

\* The stop flag or the deadline, seen while watching: nothing is published.
GuardianInterrupt(t) ==
  /\ guardian[t] = "watch"
  /\ GuardianGoes(t, "cleanup")
  /\ UNCHANGED <<native, world, catalogVars, fileVars, workerVars>>

\* terminate_group: the child has a grace period, then it is killed.
GuardianCleanup(t) ==
  /\ guardian[t] = "cleanup"
  /\ native' = [native EXCEPT ![t] = IF @ \in NativeLive THEN "dead" ELSE @]
  /\ GuardianGoes(t, "dead")
  /\ UNCHANGED <<world, catalogVars, fileVars, workerVars>>

\* The child exited by itself; exit 0 and a proven refusal are completed,
\* any other end leaves the receipt pending.
GuardianReap_AnyExit(t) ==
  /\ guardian[t] = "watch"
  /\ native[t] \notin NativeLive
  /\ GuardianGoes(t, "finish")
  /\ UNCHANGED <<native, world, catalogVars, fileVars, workerVars>>
GuardianReap(t) ==
  /\ guardian[t] = "watch"
  /\ native[t] \notin NativeLive
  /\ GuardianGoes(t, IF native[t] \in {"exit_ok", "exit_refused"} THEN "finish" ELSE "dead")
  /\ UNCHANGED <<native, world, catalogVars, fileVars, workerVars>>

\* complete replaces the file whole, whatever it held.
GuardianComplete_AlwaysOk(t) ==
  /\ guardian[t] = "finish"
  /\ receipt' = [phase |-> "completed", token |-> t, exit |-> "ok"]
  /\ GuardianGoes(t, "dead")
  /\ UNCHANGED <<stage, witness, native, world, catalogVars, workerVars>>
GuardianComplete(t) ==
  /\ guardian[t] = "finish"
  /\ receipt' = [phase |-> "completed", token |-> t,
                 exit |-> IF native[t] = "exit_ok" THEN "ok" ELSE "refused"]
  /\ GuardianGoes(t, "dead")
  /\ UNCHANGED <<stage, witness, native, world, catalogVars, workerVars>>

\* SIGKILL, the parent-death signal before the handlers are in place, a stop
\* seen before the launch or a deadline that passed before completion.  The
\* child is in a session of its own and outlives it.
GuardianDie(t) ==
  /\ guardian[t] \in GuardianLive
  /\ GuardianGoes(t, "dead")
  /\ UNCHANGED <<native, world, catalogVars, fileVars, workerVars>>

-----------------------------------------------------------------------------
(* The native provisioner of one attempt. *)

\* require_permission: the receipt on disk is pending and this attempt's.
Permission(t) == receipt.phase = "pending" /\ receipt.token = t
NativeGoes(t, pc) == native' = [native EXCEPT ![t] = pc]
WriteStage(t, s) == stage' = [stage EXCEPT ![t] = s]
WriteWitness(t, v) == witness' = [witness EXCEPT ![t] = v]

\* native_stage(preflight) creates the stage file exclusively, in two steps.
NativeOpenStage(t) ==
  /\ native[t] = "boot"
  /\ Permission(t)
  /\ stage[t] = "none"
  /\ WriteStage(t, "partial")
  /\ NativeGoes(t, "staging")
  /\ UNCHANGED <<receipt, witness, guardian, world, catalogVars, workerVars>>

NativePreflight(t) ==
  /\ native[t] = "staging"
  /\ WriteStage(t, "preflight")
  /\ NativeGoes(t, "preflight")
  /\ UNCHANGED <<receipt, witness, guardian, world, catalogVars, workerVars>>

\* AdmissionLimitError, raised before anything was changed.
NativeRefuse(t) ==
  /\ native[t] = "preflight"
  /\ NativeGoes(t, "refusing")
  /\ UNCHANGED <<guardian, world, catalogVars, fileVars, workerVars>>

\* sql_identity(preflight), then the checks of native_stage(database).  The
\* credentials reserved between the two stay and are used again by a later
\* attempt; they are not part of world.
NativeClear_BeforeMarker(t) ==
  /\ native[t] = "preflight"
  /\ Permission(t) /\ HoldsClaim(t) /\ stage[t] = "preflight"
  /\ NativeGoes(t, "cleared")
  /\ world' = [world EXCEPT ![EnvOf(t)] = "partial"]
  /\ UNCHANGED <<guardian, catalogVars, fileVars, workerVars>>
NativeClear(t) ==
  /\ native[t] = "preflight"
  /\ Permission(t) /\ HoldsClaim(t) /\ stage[t] = "preflight"
  /\ NativeGoes(t, "cleared")
  /\ UNCHANGED <<guardian, world, catalogVars, fileVars, workerVars>>

\* The database marker is durable before the first external change.
NativeMark(t) ==
  /\ native[t] = "cleared"
  /\ WriteStage(t, "database")
  /\ NativeGoes(t, "database")
  /\ UNCHANGED <<receipt, witness, guardian, world, catalogVars, workerVars>>

\* Roles, databases, containers, tenant: the first of many external changes.
NativeMutate(t) ==
  /\ native[t] \in Mutating
  /\ world[EnvOf(t)] # "partial"
  /\ world' = [world EXCEPT ![EnvOf(t)] = "partial"]
  /\ UNCHANGED <<guardian, native, catalogVars, fileVars, workerVars>>

NativeAdvance(t) ==
  /\ native[t] \in DOMAIN NextStage
  /\ world[EnvOf(t)] = "partial"
  /\ Permission(t) /\ stage[t] = native[t]
  /\ WriteStage(t, NextStage[native[t]])
  /\ NativeGoes(t, NextStage[native[t]])
  /\ UNCHANGED <<receipt, witness, guardian, world, catalogVars, workerVars>>

\* The endpoints are published: the environment is complete.
NativePublish(t) ==
  /\ native[t] = "publication"
  /\ world[EnvOf(t)] = "partial"
  /\ world' = [world EXCEPT ![EnvOf(t)] = "built"]
  /\ NativeGoes(t, "built")
  /\ UNCHANGED <<guardian, catalogVars, fileVars, workerVars>>

\* native_outcome: permission, the matching stage, then an exclusive file.
NativeOpenWitness(t) ==
  /\ \/ native[t] = "refusing" /\ stage[t] = "preflight" /\ NativeGoes(t, "writing_refused")
     \/ native[t] = "built" /\ stage[t] = "publication" /\ NativeGoes(t, "writing_ok")
  /\ Permission(t)
  /\ witness[t] = "none"
  /\ WriteWitness(t, "partial")
  /\ UNCHANGED <<receipt, stage, guardian, world, catalogVars, workerVars>>

NativeWitness(t) ==
  /\ \/ native[t] = "writing_refused" /\ WriteWitness(t, "refused") /\ NativeGoes(t, "exit_refused")
     \/ native[t] = "writing_ok" /\ WriteWitness(t, "ok") /\ NativeGoes(t, "exit_ok")
  /\ UNCHANGED <<receipt, stage, guardian, world, catalogVars, workerVars>>

\* An exception, a refused permission, a signal.
NativeFail(t) ==
  /\ native[t] \in NativeLive
  /\ NativeGoes(t, "dead")
  /\ UNCHANGED <<guardian, world, catalogVars, fileVars, workerVars>>

-----------------------------------------------------------------------------
Request ==
  \/ \E e \in Env : createEnvironment(e) \/ retryProvision(e) \/ MembershipChange(e)
  \/ \E p \in Project : transferProject(p)

WorkerStep(w) ==
  \/ Acquire(w) \/ StartupSettle(w) \/ Consume(w) \/ recoverProvisioning(w)
  \/ claimProvision(w) \/ spawnWorkerEffect(w) \/ SettleEffect(w)

GuardianStep(t) ==
  \/ GuardianOpen(t) \/ GuardianPublish(t) \/ GuardianLaunch(t)
  \/ GuardianCleanup(t) \/ GuardianReap(t) \/ GuardianComplete(t)

NativeStep(t) ==
  \/ NativeOpenStage(t) \/ NativePreflight(t) \/ NativeRefuse(t) \/ NativeClear(t)
  \/ NativeMark(t) \/ NativeMutate(t) \/ NativeAdvance(t) \/ NativePublish(t)
  \/ NativeOpenWitness(t) \/ NativeWitness(t)

\* Steps nobody owes: a death, a failure, the deadline.
Fault ==
  \/ \E w \in Worker : WorkerCrash(w)
  \/ \E t \in Token : GuardianInterrupt(t) \/ GuardianDie(t) \/ NativeFail(t)

Step ==
  \/ Request
  \/ \E w \in Worker : WorkerStep(w)
  \/ \E t \in Token : GuardianStep(t) \/ NativeStep(t)

Next == Step \/ Fault
Spec == Init /\ [][Next]_vars

-----------------------------------------------------------------------------
(* Properties. *)

TypeOK ==
  /\ jobState \in [Env -> JobState]
  /\ attempt \in [Env -> 0 .. MaxAttempt]
  /\ claim \in [Env -> 0 .. MaxAttempt]
  /\ failure \in [Env -> Failure]
  /\ results \in [Token -> {"none"} \cup Outcome]
  /\ decisions \in [Token -> {"none", "retry", "failed"}]
  /\ authority \in [Env -> BOOLEAN]
  /\ receipt \in [phase : {"absent", "partial", "pending", "completed"},
                  token : Token \cup {NoToken}, exit : {"none"} \cup Outcome]
  /\ stage \in [Token -> {"none", "partial", "preflight"} \cup Mutating]
  /\ witness \in [Token -> {"none", "partial"} \cup Outcome]
  /\ wpc \in [Worker -> {"down", "startup", "startup_consume", "recover", "loop",
                         "spawn", "wait", "consume"}]
  /\ wtoken \in [Worker -> Token \cup {NoToken}]
  /\ guardian \in [Token -> {"none", "dead"} \cup GuardianLive]
  /\ native \in [Token -> {"none", "dead", "exit_ok", "exit_refused"} \cup NativeLive]
  /\ world \in [Env -> {"absent", "partial", "built"}]

Live(t) == guardian[t] \in GuardianLive \/ native[t] \in NativeLive
PastPreflight(t) == stage[t] \in Mutating

\* No slow effect overlaps another, whichever worker started it and however
\* many workers or guardians died meanwhile (effect.lock, effect_lease.py).
NoOverlap == \A s, t \in Token : Live(s) /\ Live(t) => s = t

\* An effect that is running is the one the catalog says is running: no
\* restart, retry or transfer takes the claim from under it.
LiveEffectHoldsClaim == \A t \in Token : Live(t) => HoldsClaim(t)

\* An unknown outcome never runs twice on a guess: at most one attempt of an
\* environment ever passes the database marker.
AllocatedOnce ==
  \A s, t \in Token : PastPreflight(s) /\ PastPreflight(t) /\ EnvOf(s) = EnvOf(t) => s = t

\* A job that may be claimed or retried has changed nothing outside yet.
RetryableIsClean ==
  \A e \in Env : jobState[e] \in {"none", "queued", "failed", "cancelled"} => world[e] = "absent"

\* A job is reported succeeded only for an environment that is complete.
SucceededIsBuilt == \A e \in Env : jobState[e] = "succeeded" => world[e] = "built"

\* A receipt on disk belongs to the claim that is running, or to an attempt
\* whose outcome the catalog already holds: settling it can always be told.
Recorded(t) == results[t] # "none" \/ decisions[t] # "none"
ReceiptIsAccountable ==
  receipt.phase # "absent" => HoldsClaim(receipt.token) \/ Recorded(receipt.token)

\* The environments that hold or may take a runtime slot never exceed the
\* limit, whatever order creations, retries, cancellations and requeues take.
CapacityRespected == Cardinality(Held) <= EnvironmentLimit

\* Two automatic requeues in an environment's whole life; neither an explicit
\* retry nor a replayed decision gives more (docs/engineering/PREFLIGHT-RECOVERY.md).
RequeueBudget ==
  \A e \in Env : Cardinality({t \in Token : EnvOf(t) = e /\ decisions[t] = "retry"}) <= 2

\* A receipt leaves the disk only after its outcome is in the catalog.
ConsumedOnlyWhenRecorded ==
  [][receipt.phase # "absent" /\ receipt'.phase = "absent" => Recorded(receipt.token)]_vars

\* What the project promises of an allocation, seen from outside.
Ledger == INSTANCE AllocationLedger WITH
  builder <- [e \in Env |-> {t \in Token : EnvOf(t) = e /\ PastPreflight(t)}],
  ready <- [e \in Env |-> jobState[e] = "succeeded"]
LedgerSpec == Ledger!Spec
=============================================================================
