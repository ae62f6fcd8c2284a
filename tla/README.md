# A formal model of sbarbase

sbarbase runs many Supabase environments on one host: a console and gateway
process (TypeScript on Bun), a SQLite catalog, a supervised worker, and Python
programs that drive Docker and PostgreSQL. This directory holds TLA+ models of
its parts, the TLC runs that check them on small instances, and theorems about
them that TLAPS checks for every instance.

Paths below are relative to the repository's root.

## Reading order

| Read | To learn |
|---|---|
| `AllocationLedger.tla` | what provisioning promises, in forty lines |
| `Provisioning.tla` | how the catalog, worker, guardian and native run keep it |
| `ProvisioningProofs.tla` | why, for any number of environments, workers and claims, and that it implements the ledger |
| `ProvisioningSettles.tla` | that accepted jobs settle once faults stop |
| `RetainedLifecycle.tla`, `RetainedLifecycleSettles.tla` | soft delete and restore |
| `ConcurrencyGate.tla` | the gateway's admission |
| `Handover.tla` | the console process handed over in place during an upgrade |
| `Upgrade.tla` | an upgrade, its hold, its confirmation and its way back |
| `ReplacementLedger.tla`, `Rolling.tla` | what a roll promises of an environment's containers, and how they are replaced side by side after an upgrade |
| `WritePause.tla` | the operator's pause of one environment's writes |
| `OnDemand.tla` | services that sleep when idle and wake on a request |
| `DeliveryLedger.tla`, `Outbox.tla` | what the outbox promises of its deliveries, and operator notifications as the code does them |
| `HbaOperation.tla` | a change of the database's access rules |
| `*Proofs.tla` | the invariant that carries each, and its theorems; `GatewayProofs` are those of `ConcurrencyGate` and `OnDemand`, `WorkerProofs` those of `RetainedLifecycle` and `Outbox` |
| `MC*.tla`, `*.cfg` | the instances TLC checks |
| `PROJECT.json` | runs, mutants, hazards, findings and the line map to the source |

Definitions keep the source's names (`claimProvision`, `finishLifecycle`,
`setGatewayShare`, ...). A definition whose name ends in `_` and a word, such as
`HasCapacity_OffByOne`, is not part of the program. It is its namesake with one
plausible bug. `PROJECT.json` pairs each with the property that fails when it
takes the namesake's place, so every property is known to notice something.

## Inventory

### The parts and what they keep

**Provisioning** (`src/control/catalog.ts`, `lab/worker.py`, `lab/worker.ts`,
`lab/worker-receipt.ts`, `lab/worker-effect.ts`, `lab/worker_lock_exec.py`,
`lab/effect_receipt.py`, `lab/effect_lease.py`, `lab/durable_runtime.py`).
*State*: job rows, recorded outcomes and recovery decisions in the catalog; the
receipt, the stage and the witness files; `effect.lock`. *Operations*: create,
retry and transfer requests; claim, dispatch, settle, requeue, start-up
recovery. *Hard*: four processes that die independently, a lock inherited
across them, files that carry an outcome from one to the next, an external
effect that must not run twice. *Correct when*: no two effects overlap; an
effect's outcome is never guessed; one attempt of an environment ever touches
the world; a receipt outlives its outcome's commit; `succeeded` means built; the
retry budget and the capacity hold; every job settles.

**Retained lifecycle** (`src/control/lifecycle.ts`,
`src/control/durable-lifecycle.ts`, `lab/durable_lifecycle.py`,
`lab/durable_probe.py`). *State*: the lifecycle row and its effects; the journal
of each runtime; containers, logins and published endpoints on the host.
*Operations*: delete, restore, resume; quarantine and restore of each resource;
readiness. *Hard*: replay after a crash anywhere, orphaned Python runs, a host
restart that resumes published environments, authority that ends half way.
*Correct when*: deleted means closed, active means whole, logins close last, no
late run acts for an operation that is over, a pending operation finishes.

**Gateway admission** (`src/gateway/concurrency.ts`, `src/gateway/shares.ts`).
*State*: counters per environment and service, environments seen in the last
minute, pause leases. *Operations*: admit, answer, cancel, drain, time out;
pause, drain, resume; change a share. *Hard*: every call ends in one of several
ways and some come twice; borrowing against a reserve that moves. *Correct
when*: counters are the calls held; a borrow never breaks into a neighbour's
reserve; borrowed room comes back; a drained environment is idle.

**Lifecycle inventory and authorization** (`src/control/lifecycle-authority.ts`,
`src/control/lifecycle-contract.ts`, `lab/durable_inventory.py`): validates what a
delete covers and who asked. **Shared and disposable resources**
(`lab/lifecycle_resources.py`, `lab/lifecycle_shared.py`): purge for the other
profiles.

**Console handover** (`lab/handover.py`, `src/http/handover.ts`,
`lab/upstream-server.ts`, `lab/dev.py`). *State*: two console processes, the
listeners they share, the steering of new connections, `handover.json`.
*Operations*: freeze, exec, adopt, start the candidate, steer, drain, confirm,
give up. *Hard*: either process or the supervisor may end at every step, and the
supervisor replaces its own program in the middle. *Correct when*: the console
port is served throughout; two versions never both hold control; a way back ends
both before it restores.

**Upgrade and its hold** (`lab/upgrade.py`, `lab/upgrade_guard.py`, `lab/dev.py`,
`src/gateway/hold.ts`). *State*: the record, the checkout, the control stores,
the hold marker. *Operations*: start, guard, gate, confirm, roll back. *Hard*: a
crash at each step, a command beside a start, cached answers about the hold.
*Correct when*: no accepted change is lost; an old console never serves migrated
stores; every upgrade is settled.

**Rolling replacement** (`lab/rolling.py`, `lab/durable_runtime.py`). *State*: the
plan, the record, both containers, the address, raised limits. *Operations*:
defer, replace, repair, force. *Hard*: a crash between two docker commands,
operators' hands, Studio's limits. *Correct when*: a settled replacement is whole,
limits go back, the serving container goes last, records settle.

**Write pause** (`lab/write_pause.py`). *State*: the record, the routing's
maintenance, logins, services, Functions. *Operations*: pause, resume, adopt.
*Hard*: lost answers, a kill at every step, other doors that open meanwhile.
*Correct when*: a held pause is quiet, a released one left nothing, the operator
can get out.

**On-demand services** (`src/control/on-demand.ts`, `src/gateway/activity.ts`,
`src/gateway/managed.ts`, the catalog, `lab/realtime.py`, `lab/dev.py`). *State*: the
settings row, the mode, the kill switch, activity, held requests, the container and its
published entry. *Operations*: hold and wake, sleep, apply. *Hard*: the stop is
decided in one process and carried out seconds later in another. *Correct when*:
a settled row tells the truth, an idle stop cuts off nobody, the kill switch
means On.

**Notification outbox** (`notify` in the catalog, `lab/notify.py`). *State*: events,
delivery rows, leases. *Operations*: enqueue, claim, send, settle, escalate,
prune. *Hard*: a drain that dies between claim, send and settlement. *Correct
when*: every row settles, a late answer moves nothing, a failure is heard.

**HBA operation** (`lab/hba_*.py`, `lab/atomic_hba.py`). *State*: the rules, the
registry of operations in the container, the journal and the evidence on the
host. *Operations*: begin, apply, complete; cancel, complete after a crash.
*Hard*: a command sent into the container outlives its sender. *Correct when*:
whatever may still happen is accounted for on the host.

**Saturation monitor** (`src/gateway/pressure.ts`), **project transfer**
(`lab/transfer_journal.py`, `src/control/transfer-store.ts`), **storage
settlement** (`lab/storage_write_settlement.py`), **backup and restore**
(`lab/backup.py`, `lab/restore_operation.py`, `lab/recovery_reconcile.py`): samples,
and journaled sequences of external tools.

**Scheduler** (`src/scheduler/`): runs cron jobs; the cron expression is a pure
algorithm. **Settings** (`src/control/sign-in.ts`, `src/control/data-api.ts`,
`lab/auth_settings.py`, `lab/data_api.py`): revisions saved in the console and
applied by the supervisor. **Keys, invitations, access tokens**: single requests
over one database. **Database proxy and HTTP front**, **website, deployment,
release channel**: bytes, packaging, documents.

### How they interact

```
people ──> console ──> catalog (SQLite) <── worker ──> guardian ──> native run
             │            ▲                   │            │            │
          gateway ────────┘ shares            │          receipt   stage, witness
             │                                └──> python lifecycle run ── journal
             ▼                                               │
        containers <──────── Docker, PostgreSQL <────────────┘
             ▲
        supervisor: starts and restarts the worker, resumes published environments
```

The catalog serializes its own transactions; everything else meets through
files, inherited locks and what Docker and PostgreSQL hold.

## Provisioning

### Correspondence

| Variable | In the code |
|---|---|
| `jobState`, `attempt`, `claim`, `failure`, `authority` | rows of `provision_jobs` and the actor's membership |
| `results`, `decisions` | `provision_effect_results`, `provision_recovery_decisions` |
| `receipt`, `stage`, `witness` | `worker-effect.json`, `effect-stages/`, `effect-outcomes/` |
| `wpc`, `wtoken` | each worker process and the attempt it dispatched |
| `guardian`, `native` | `worker_lock_exec.py` and the durable provisioner of each attempt |
| `world` | what Docker and PostgreSQL hold of an environment |

A claim in the code is a random token drawn when the attempt counter is raised,
and each claim's one guardian draws one receipt token. The pair
`<<environment, attempt>>` therefore stands for the claim and for the receipt
token. `claim[e]` is the attempt whose claim is in the row, 0 for none.

`effect.lock` is an open file description the guardian and the native run
inherit. It is free when no process that has it is alive; `LeaseFree` says just
that. `Verdict(fresh)` is what `settleWorkerReceipt` reads from the files: a
witness or a preflight stage counts only under a lease that was newly taken.

Files opened exclusively and written afterwards are two actions with a
`partial` file between. Files replaced by rename are one. Any process may die
between any two actions; a stop signal, a drain, a settle-only exit and an
error of the worker are all `WorkerCrash` or `WorkerExits`, since each of them
just ends the process. `NativeMutate` may repeat: what earlier attempts built is
overwritten, never relied on.

### What is left out

The component profile (`lab/provision.py` writes no stages); tombstones of
deleted runtimes; the refusal to start over an unfinished HBA journal;
notifications; relinking an environment. Credentials reserved before the
database marker stay for a later attempt and are not part of `world`.

### Runs

| Run | Instance | States | Shows |
|---|---|---|---|
| `provisioning` | 2 environments, 2 workers, 2 claims each | 604,900 | the safety properties and the refinement of `AllocationLedger` |
| `provisioning_settles` | 1 environment, 4 claims | 96,908 | at most two automatic requeues in an environment's life, and jobs settle once faults stop |

`TypeOK`, `AllocatedOnce`, `CapacityRespected` and `SucceededIsBuilt` are proved and can be
added to either.

*Why the bounds are enough.* Two workers, because the hazard is one that died
and one that follows; the lease allows no third. Two environments, because the
receipt is one file for all of them. Two claims, because a hazard of replay
needs an attempt and its successor. Four claims in `provisioning_settles` pass the
budget of two requeues with one to spare. `MaxAttempt` is the only bound of the
model; it caps `claimProvision`.

*Fairness.* `lab/dev.py` (246-272) starts the worker again when it ends, and
the operating system runs every live process, so `WorkerStep`, `GuardianStep`
and `NativeStep` are weakly fair. People are not fair. `calm` in
`ProvisioningSettles` turns true at some moment between two steps; no process
dies after it. It is a variable because a death and an ordinary exit can be the
same change of state, which no formula on steps can tell apart. The supervisor
gives up after three restarts in a minute, so the settling of a job says
nothing of a worker that is stuck before an unresolvable receipt: `Unresolved`
names that end (no effect is alive, the receipt is undecidable, an operator
must act), and it has to last for ever to count.

### What is proved

`ProvisioningProofs.tla` proves, for any finite or infinite `Env` and `Worker` and
any `MaxAttempt` and `EnvironmentLimit` in `Nat`:

| Theorem | Property |
|---|---|
| `TypeCorrect` | `TypeOK` |
| `EffectsNeverOverlap` | `NoOverlap` |
| `EffectKeepsClaim` | `LiveEffectHoldsClaim` |
| `OneAllocation` | `AllocatedOnce` |
| `RetryIsSafe` | `RetryableIsClean` |
| `SuccessIsTrue` | `SucceededIsBuilt` |
| `ReceiptTraceable` | `ReceiptIsAccountable` |
| `CommitBeforeConsume` | `ConsumedOnlyWhenRecorded` |
| `CapacityHolds` | `CapacityRespected` |
| `RequeuesAreBounded` | `RequeueBudget` |
| `ImplementsLedger` | `LedgerSpec` |

Assumptions: `EnvAssumption` (ids are integers), `ProjectAssumption`,
`BoundAssumption`, `NoTokenAssumption`. TLC evaluates them in every run.

None of these properties is inductive. Whether a job may be taken again depends
on what is on disk, that on how far a process came, and that on who may run.
`IInv` strengthens them together:

* `LeaseInv`: one worker, one live effect, and if both, the worker waits for it;
* `ClaimInv`: a live effect and a dispatch hold the claim; a claim that is held
  has no outcome yet;
* `FreshInv`: an attempt that was not dispatched left no trace;
* `ReceiptInv`: what the receipt says, at each place of each process;
* `StageInv`: what stage and witness say at each place of the native run;
* `WorldInv`: an allocation that is more than absent has exactly one attempt
  that passed the marker; it is either succeeded, or it holds the claim and the
  receipt on disk is its own.

The last part carries the argument for recovery. A startup that requeues running
jobs has settled the receipt first; a job that passed the marker has a receipt
that can only be settled as succeeded or not at all; so none is requeued. There
is one lemma per action (`...Inv`), with one step per part; `NextIInv` collects
them and `Inductive` closes with temporal logic.

The two bounds are counts, and what makes them provable without induction over
the counted sets is that no step adds more than one member to either: only a
creation or a retry, which asked for room, adds to the environments that hold a
slot (`HeldGrowsByRequests`), and only a decision taken below the limit adds a
requeue (`DecisionsGrow`). That the set is finite is kept with the bound, since
`Env` need not be (`GrowsWithin`).

The refinement maps every step to a step of `AllocationLedger` or a stutter. Only five are seen: the database marker commits the builder (`WorldInv`
says there was none and nothing outside), the first external change starts it,
publication finishes it, and the settlements at startup and after the effect
announce it (`ReceiptInv` and `WorldInv` say a receipt that reads `ok` is of an
environment that is built).

Model-checked only: `JobSettles` (liveness).

## Retained lifecycle

### Correspondence

| Variable | In the code |
|---|---|
| `state`, `op`, `effects`, `failure`, `retained` | `environment_lifecycle` and `lifecycle_effects`; `op` numbers the operations and stands for uuid and epoch |
| `authorized` | whether `requireLifecycleAuthorization` accepts the operation's owner now |
| `journal` | `durable-lifecycle/<runtime>.json` |
| `running`, `login`, `published` | containers, LOGIN of the roles, the entry of the endpoints |
| `platform`, `wpc`, `mine`, `adapter` | supervisor, worker, the Python run it waits for, every Python run alive |

A Python run whose worker died goes on; its answer is lost. The operation lock
is tried, never waited for, by the worker, by every Python run and by the
start. `Start` is `Runtime.start`: it starts the serving containers of every
published environment and reads no lifecycle row.

`OperatorStop` is the remedy `docs/reference/api.md:116` gives an operator: stop
a container that a failed delete names.

### What is left out

Purge (the durable profile refuses it), transfer holds, container identities, a
container that stops by itself, a Docker daemon that finishes a stop after its
client was killed, other environments (and with them the head of line, see
hazards). A readiness check of all resources is one step. A service that was
switched off is retained but does not serve.

### Runs

| Run | Instance | States | Shows |
|---|---|---|---|
| `lifecycle` | 2 containers, 2 Python runs, 3 operations, with an operator | 355,344 | the safety properties, and that a pending operation settles |
| `lifecycle_unattended` | the same | violated | without the operator, a delete may never finish |

*Why the bounds are enough.* One serving container and one that is retained
stopped: order among containers is free, and both kinds must come back as they
were. Two Python runs: an orphan and the current one; the operation lock admits
one at a time. Three operations: a journal is reused by its own operation's restore
and replaced by the next delete; the third meets leftovers of both.

*Fairness.* The supervisor restarts the worker, the worker retries a blocked
operation about once a minute, a started run goes on: `WorkerStep`, `Start` and
`RunStep` are weakly fair. In `AttendedSpec` so is `OperatorStop`. `calm` as above.

### What is proved

`WorkerProofs.tla`, first part, for any inventory of containers, any number of
Python runs alive at once and any number of operations:

| Theorem | Property |
|---|---|
| `TypeCorrect` | `TypeOK` |
| `DeletedStaysClosed` | `DeletedIsClosed` |
| `ActiveServesAgain` | `ActiveIsWhole` |
| `IntentGoverns` | `OnlyUnderIntent` |
| `LoginsClosedLast` | `LoginsCloseLast` |

Assumptions: the serving containers are containers, the tenant is not one, and
`NoAdapter` is no run. `IInv` adds to the types: the run that has the operation
lock acts for the recorded operation, or for the one before it while no worker
has taken up the new one (`LockInv`); what its earlier steps left (`RunInv`);
that a journal says what served (`JournalInv`); and for each state of the
catalog what the host may look like (`HostInv`). The case that needs all of them
is an orphan of a delete that is still running when the restore is asked for: it
may go on closing what the delete has closed already, and nothing else.

Model-checked only: `OperationSettles` and the violated `ReplayFinishes` (liveness).

## Gateway admission

### Correspondence

`total`, `active`, `services`, `seen` are the gate's own maps; `paused` and `drain`
are the pause lease and its `waitForDrain`; `share` is `gateway_shares` of the
catalog. The gate runs in one JavaScript thread, so the code between two awaits
is one action. `calls` counts the calls of each service by what they wait for:
`forward` (the answer), `stream` (its body), `drain` (an abandoned body that is
read to its end), `lingering` (a drain loop whose slot the deadline has given
back already; its `finish` comes second and must do nothing).

Left out: the pressure samples, the answers, a share lookup that throws. The
environments are fixed and all of them are ready. A service without a budget has
the budget `Maximum`, which never binds.

### Runs

| Run | Instance | States | Shows |
|---|---|---|---|
| `gate` | 2 environments, 2 services, one draining with budget 2, pauses, shares that change, maximum 4 | 284,544 | counters; drained means idle; only borrowing makes a full gateway refuse a share; what one environment may cost another, and that it comes back |

By hand: `MCConcurrencyGateWake.cfg` (a disagreement, below).

*Why the bounds are enough.* The policy is scaled down with its order kept: in
production share 8, total 64, ceiling 24, headroom 8. Two environments are one
that borrows and one that wakes; the proofs below are for any number. `MaxLingering`
bounds drain loops that have lost their slot: one is enough for a second
`finish`.

*Fairness.* Every call has a deadline for its answer and one for its body (30 s,
150 s for a function). `ShareComesBack` assumes only that calls end, and says
something of behaviours in which nobody new wakes or is forgotten and shares
stay (`Steady`).

### What is proved

`GatewayProofs.tla`, first part, for any finite sets of environments and
services, any shares and any policy (`PolicyAssumption`):

| Theorem | Property |
|---|---|
| `GateTypeCorrect` | `GateTypeOK` |
| `SlotsAreCounted` | `CountersAgree` |
| `DrainAnswersTruly` | `DrainedIsIdle` |
| `BorrowersLeaveReserve` | `BorrowersKeepReserve` |
| `GuaranteesHoldTogether` | `FullOnlyByBorrowing` |

The counters are sums over calls and shares. A sum is the number of its units
(`Units`, `Total`): that of `f` over `S` counts the pairs of a member `x` and a number up
to `f[x]`, so what it becomes when one number changes follows from the cardinality
of a union, and no induction over what is summed is needed. `GateInv` is
`CountersAgree`, the types, `total <= Maximum` and `DrainInv`: an environment whose
drain is asked for or answered is paused, and one that was answered yes holds no
slot. Without it a call let in after the answer would go unnoticed.
`GuaranteesHoldTogether` also needs that the shares fit into the gateway together
(`SharesFit`). `setGatewayShare` keeps that (`SharesKeepFitting`), but nothing makes
the default shares fit at the beginning, so the theorem has that as its
hypothesis: eight ready environments of share 8 fill 64 slots, a ninth does not.

Model-checked only: `ShareComesBack` (liveness).

## Console handover

`Handover` follows the numbered steps of `docs/engineering/HANDOVER.md` as the
code takes them: `sup` walks through A5 to A7 in the old program, B1 to B9 in the
new one, then "watch", where `phase` is that of `handover.Promotion`. One turn of
the supervisor's loop is one action: it looks at the processes and then polls the
promotion, so what happens between two turns is seen together. Timeouts may come
at any moment they are armed. The old process ticks on its own
(`lab/upstream-server.ts`) and finishes a bind it awaited before the freeze. A
death of the supervisor takes the console processes with it
(`lab/parent_bound.py`), and the next start follows only when they are gone.

| Run | Instance | States | Shows |
|---|---|---|---|
| `handover` | console and two late listeners, two deaths or failed promotions | 314,148 | served throughout, control in one place, a way back alone, no stray signal, every handover ends |

Two late listeners, so that one can be steered while the other is not; two
faults, because the way out of one step meets the second one in its own. Fair
are the supervisor's turns, the candidate's steps, the old process's ticks and
binds, and the drains, which have a deadline.

`HandoverProofs.tla`, for any set of late listeners and any number of deaths:

| Theorem | Property |
|---|---|
| `TypeCorrect` | `TypeOK` |
| `ConsoleServed` | `ServedThroughout` |
| `OneVersionConfirmed` | `ConfirmedAlone` |
| `RestoredAlone` | `WayBackAlone` |
| `SignalsOnlyItsOwn` | `NeverSignalsReaped` |

`HandoverConstants` says that the console is no late listener. `IInv` adds that a
process with a socket accepts and has one for each listener (`GroupInv`), which
processes there are at each step (`StageInv`), and who has the console while
nothing died (`ServedInv`): the old process until `retire`, the candidate from then on.
A listener's group has at most two sockets, which the code relies on and `TypeCorrect`
shows; so `Without`, one process's leaving, is written for those. `Settles` is
liveness and stays with TLC.

Left out: the qualification Q1 to Q9 (taken as passed), `handover-failed.json`, a
failed detach, a third socket nobody knows, failed writes of a listener record.

## Upgrade

`rec` is `.lab/upgrades/state.json`; `head` and `tidy` are the checkout and whether
a move that was cut short left it half written; `control` stands for the control
stores: how many changes they accepted, their schema, whether a way back lost
them. `hold` is the marker and `seen` what the running consoles last read of it.
A management change is two actions: `AdmitChange`, when the console's answer about
the hold is no, and `CommitChange` at any later time, whatever the answer is by
then (`running` are the consoles that work on admitted changes). The operator's
commands run at any moment the locks allow, also between a start's read of the
record and its end.
`sup` walks through a start: guard, locks, `before_start`, the gated or ungated
start, and `after_start` of a failed one. The way back is one machine, `back`,
whoever runs it, because the code has one (`complete_way_back`): checkout, mark,
stores, mark.

| Run | Instance | States | Shows |
|---|---|---|---|
| `upgrade` | one upgrade, 2 attempts, 3 faults, 1 accepted change | 807,269 | stores go back with the version, no change is lost that was admitted in time, everything is settled |

Two of the properties have exceptions, and each is written into the property:

- `KeepsAccepted` leaves out the changes that a request admitted before the hold
  commits after the snapshot (`late`). `docs/engineering/HANDOVER.md:225` records it as
  a known limit; the docstring at `lab/upgrade.py:863` says that it cannot be, and
  `UpgradeOverrun.cfg` shows that it can.
- `OldOpensOnlyItsOwn` leaves out what follows when a start acts on a record that is
  no longer the one on disk (`stale`): it saves its attempt over what a command wrote
  while it waited for `upgrade.lock` (`lab/upgrade.py:899`, `UpgradeStale.cfg`), or it
  read that nothing waits and settles, unprobed, what a command has begun since
  (`lab/dev.py:1317`, `UpgradeUngated.cfg`). Nothing in the code keeps a command and a
  start apart.

`late`, `raced` and `stale` are history: no guard reads them.

A fault is a death of the supervisor or the command, a failed move that leaves
any tree, a missing snapshot, a disk that fails between two stores of a restore, a
refused start. Three are needed for two failed moves (`MaxAttempts`; the code has
3) and a restore that fails. With 3 attempts, 4 faults and 2 changes the same
properties hold in 3,652,263 states (under four minutes). Fair are the steps of the guard,
the start, the way back and the commands, and the expiry of a console's cached
answer: the service manager restarts without limit, the other waits have
deadlines. Clean stops need no fairness: an operator may stop every start and the
attempts still run out.

`UpgradeProofs.tla`, for any number of attempts, faults, upgrades and changes, and
with the operator's commands at any moment:

| Theorem | Property |
|---|---|
| `TypeCorrect` | `TypeOK` |
| `NothingAcceptedIsLost` | `KeepsAccepted` |
| `OldServesItsOwn` | `OldOpensOnlyItsOwn` |
| `RestoredWhileClosed` | `RestoresOnlyClosed` |
| `RollbackFailsAtHome` | `RollbackFailedIsHome` |
| `StopIsNoCrash` | `CleanStopKeepsVersion` |
| `MatchedIsConfirmed` | `ReadIsConfirmed`: `MismatchNeverConfirmed` but for `stale` |
| `ProbedIsConfirmed` | `RecordReadIsProbed`: `ConfirmedByHealth` but for an unprobed start during which a command began |

A snapshot is at stake from the attempt it was taken for until the stores are put
back or the version is confirmed (`AtStake`). `SafeInv` says that meanwhile the
stores are what the snapshot holds and the `late` changes, that whoever serves has
seen the hold (`QuietInv`), and who may put the snapshot back (`LockInv`);
`StartInv` carries that through the waits of a start.

`OldOpensOnlyItsOwn` needs the version in the checkout to be the one the record
names (`WindowInv`, `HomeInv`, `SchemaInv`). That holds until a start has saved a
record it had not read, which is why those are the part of `IInv` under `~stale`
(`QuietWindow`); `raced` says that a command began since the last start read the
record, and without one the record a start saves is the one it read. The
invariant was checked before it was proved, with two upgrades, two attempts and
three faults: 10,030,212 states.

The last five are about the move itself. `ProbedIsConfirmed` follows from the
invariant above, the others need `MoveInv` as well. The stores are put back only while they are at stake, and a console that serves on while its
supervisor is replaced has nothing at stake (`TakeoverInv`: `HandsOver` starts
from a record without an attempt). A way back that recorded its move is on a whole
previous version and never moves again (`TreeInv`), which is all that the four
writers of `rollback_failed` have in common. A clean stop, or a handover that is
called off, closes the guard's attempt, and nothing opens one before the next
guard (`StoppedInv`). The exceptions of `ReadIsConfirmed` and `RecordReadIsProbed`
are necessary: TLC violates `MismatchNeverConfirmed` and `ConfirmedByHealth`, which
have none, in `UpgradeStale` and `UpgradeUngated`.

`Settles` is liveness and stays with TLC.

Left out: choosing a release, `request.json` and the automatic decision, pruning,
evidence and aside copies, the database move, the narrowed hold, the health round
itself (it may pass or fail). A death between two stores of a restore is a failing
disk followed by a death. A console works on admitted changes as a whole: how many
they are is bounded by the changes of the instance.

## Rolling replacement

One process at a time holds the operation lock; it is a program counter, and
every docker command, record write and statement is one step, after which the
process may fail (`Fails`) or die (`ProcessDies`, `SupervisorStops`). What survives
is explicit: the canonical and the `-next` container, the settings file of each,
the published address, the raised limits, `rolling.json`, `rolling-held.json`,
`rolling-plan.json`. `Repair` reads only the record and the containers, as `repair`
does, and is the same program for a start, a roll, a failing replacement and the
two repair commands; they differ in where they go afterwards (`AfterSettled`) and
in what an unrecognised state does (`Hold`, `RepairStops`, `RepairForces`). A container is
named by its image, or as made by hand. Studio takes only the limit lock.

| Run | Instance | States | Shows |
|---|---|---|---|
| `rolling` | 2 environments, one each of: failure or death, act by hand, stop, fence, Studio write, operator's command | 1,325,692 | settled is whole, limits go back, the roll keeps `ReplacementLedger`, records settle |

Starts are unbounded, so an interrupted repair is repaired again, and the first
environment's leftovers meet the second one's roll. Fair are a process that
works, the supervisor's poll (`schedule_rolling`), the confirmation of an upgrade
and the service manager's start.

`RollingProofs.tla`, for any set of environments and any bounds:

| Theorem | Property |
|---|---|
| `TypeCorrect` | `TypeOK` |
| `LimitsOnlyOfARecord` | `LimitsGoBack` |
| `NothingHalfDone` | `SettledIsWhole` |
| `OldWaitsForNew` | `OldGoesLast` |
| `ReplacementsKeepLedger` | `RollKeepsLedger`: every step is a step of `ReplacementLedger` or a stutter |

`RollingConstants` says that `None` is no environment and the bounds are numbers.
The properties speak of what is durable, and why they hold depends on where the
process under the lock is: `StepInv` says which record there is at each of its
steps, `WholeInv` what an environment no hand touched is like at each step of its
replacement, whatever died over it. With two environments that invariant holds in
the run's 1,325,692 states; the proof is for any number, and its hard case is a
repair that finds the leftovers of a repair. `RecordSettles` is liveness.

`ReplacementLedger` has no commands, records or repairs: an environment is old, on trial
(both containers are there), decided or new, and leaves the ledger when a hand removes
or makes a container of it. `Place` reads that off the names that are taken and the
phase of the record. Six kinds of step are seen, each one write or one docker
command: `LaunchNext` tries, a repair that removes the `-next` container gives up, the
record's phase `retiring` decides, `RemoveOld` or the repair that finds it undone
finishes, `Confirm` is the confirmation. Everything else stutters, so a crash, a stop or
a repair between any two leaves an environment at one of the four and never without a
container. That a trial is alone is `WholeInv` for the others; that it comes after
the confirmation, so that the upgrade's way back finds every old container, is
`ConfirmedInv`. That what is decided is never undone is `RepairMaps`: `Recognised`
undoes only an early phase. `OldGoesLast` says of hands what the ledger leaves out: after
one, too, a repair never removes the last container.

Left out: Auth and the function egress (the same `replace` with other settings),
the refusal of other commands while a record is open, the order of the canary,
the Data API lock, memory arithmetic (`NotAdmitted` is any refusal). Hands act only
while no process works.

## Write pause

A command is a program counter under the operation lock, then the pause lock.
`Route` may lose its answer, `Fails` and `Killed` may come after any step, and the
record keeps what the code keeps: the phase, the routing intent, the confirmed
revision, whether the time of the change is known. Beside it run one request
(`Admit`, `Forward`, `Lands`, with what PostgreSQL still executes after its client
died), the environment's own functions, a Studio start under the pause lock,
direct access in its three steps, settings turned on and off, a restart, and
another operation that takes and releases the maintenance. Time is `age` since the
routing change and the life of a body being read: a body read (10 s) is shorter
than the window (15 s), which `WindowAssumption` states.

| Run | Instance | States | Shows |
|---|---|---|---|
| `write_pause` | one environment, one fault, two pauses, one other operation, one change | 557,812 | held is quiet, released left nothing, resume gets out |

Fairness: a command goes on, time and requests pass, a Studio start ends, and the
operator runs resume until it is done, adopts his own maintenance, and releases
another operation's (strong fairness, since the operation lock comes and goes).
That the operator comes back is the guide's own instruction.

`WritePauseProofs.tla`, for every window longer than a body may take to read and
any bounds:

| Theorem | Property |
|---|---|
| `TypeCorrect` | `TypeOK` |
| `HeldMeansQuiet` | `HeldIsQuiet` |
| `NothingLeftBehind` | `RecordGoesLast` |
| `OwnMaintenanceOnly` | `MaintenanceIsItsOwn` |

`WindowAssumption` (`BodyRead < Window`, 10 s and 15 s in the code) is used in one
place: a request read before the routing change has less time left than the
window (`AgeInv`). `RoutingInv` says whose maintenance it is when an answer was
lost, `PauseInv` what is closed at each step of a pause and `ResumeInv` what is open
again at each step of a resume, which a killed command leaves for the next one.
`ResumeGetsOut` is liveness.

Left out: the backup lock and a restore that runs meanwhile (a refusal is one of
the faults), staged placements, the readers of the pauses in a database move, a
toggle that dies in the middle of its own change.

## On-demand services

| Variable | In the code |
|---|---|
| `row` | `functions_settings`, `realtime_settings`: desired, state and who asked |
| `mode`, `killed`, `wakes` | `service_modes`, the installation's switch, the audited wakes of an hour |
| `recent`, `calm` | `ServiceActivity` and the row's `updated_at` against a quiet period |
| `box`, `entry` | the container and its published entry |
| `child` | the `lab/realtime.py apply` the supervisor started |

Requests and sockets are at the gateway in slots. The gateway runs in one thread:
a held request that is let go is counted as use in the same turn of its event
loop, which is what keeps a stop from slipping between. The two seconds for which
an answer about the mode is kept are a known answer that may be old. `Elapse` is
a quiet period, `HourPasses` an hour, `HoldEnds` and `WakeDeadline` the twenty
seconds of a hold.

| Run | Instance | States | Shows |
|---|---|---|---|
| `on_demand` | Edge Functions, 2 requests, 1 held, 1 wake an hour, 2 changes, 1 fault, 1 other operation | 1,151,762 | settled rows tell the truth, idle stops cut off nobody, the kill switch means On |

Two requests, because one must be there while another arrives or
leaves. Fair are the supervisor's application of a row, the sleeper's sweep under
the kill switch, the end of other operations and the supervisor's restart.

`GatewayProofs.tla`, second part, for any services, any number of requests and any limits:

| Theorem | Property |
|---|---|
| `TypeCorrect` | `TypeOK` |
| `RowAgreesWithHost` | `RowTellsTruth` |
| `IdleStopsReachNobody` | `NobodyIsCutOff` |

`ServicesAssumption` says the sweep's order lists services, `LimitsAssumption` that the
limits are numbers. `RowTellsTruth` is about services nobody works at; what it
rests on is about those somebody works at: a child works at a pending row and has
read what the row still says (`ChildInv`), and endpoints name a container that is
not there only after a change broke (`NamedInv`), which is why calling a sleep off
is safe. It is about the container as well as its entry, on and off alike; a
service whose sleep was called off while a child was at it is left out
(`calledOff`, `MCOnDemandCalledOff`). `NobodyIsCutOff` rests on `RequestInv`: who is let in and on the way counts as
use, and nobody is while a stop for idleness is pending. `KillSwitchMeansOn` is
liveness.

`NobodyIsCutOff` is about stops for idleness. A person's Off that broke down
before the container was removed and is then undone by a wake may cut off a
request: that is what Off asks for.

Left out: the drain before a person's Off of Functions, the installation's
default mode, the refusal under a write pause, migrations of a sleeping Realtime,
other environments.

## Notification outbox

An event is a slot with a dedupe key and what is left of its suppression window;
a delivery row has its state, its attempts, what is left of its backoff and
whether its lease has ended. A drain is a program counter over the items of its
batch: `Claim`, then for each item `Disabled`, `Refuse` (and `EnqueueRefused`), or
`Send`, `Settle` and, when the row failed for good, `Escalate`; `Prune` ends the
step. Each is a transaction or an external effect of its own, and `Raise` (the
loop's `except Exception`) or `Die` may come between any two. The token of a claim
is the number of the attempt, which every claim increments; the code draws a
random one. `TokensAreUnique` proves that the number serves as well: no two drains
ever hold the same. `LeaseEnds` stands for
thirty seconds, `Tick` for one unit of the windows and backoffs.

| Run | Instance | States | Shows |
|---|---|---|---|
| `outbox` | 2 drains, 3 slots, 2 attempts, 1 broken channel beside one that works | 112,594 | the outbox keeps `DeliveryLedger`, failures are reported and heard, every row settles |

Two drains are the worker's and the command run by hand without
`--require-worker-lock`; under `worker.lock` there is one. Three slots: an event, the
report of its failure, and one more. `MaxTrouble` bounds faults, changes of the
configuration and leases that end under a drain together (two of any kind); a
content that is refused counts two (`Weight`), since its notice doubles the rows.
`OutboxTypeOK`, `BudgetHolds`, `OneMaySettle` and `SettledIsFinal` hold on the same
instance and can be added to it. `Enqueue` waits when no slot is free,
a bound; `SlotsReached` names it where liveness would blame the code.

Fairness: a running drain goes on, it polls, a lease and a unit of time end. The
worker restarts its drain, so a dead drain is idle again at once. Retention is
longer than every window: `Prune` removes any old settled events, or none.

`WorkerProofs.tla`, second part, for any number of events, channels and drains,
any outcomes, backoffs and windows:

| Theorem | Property |
|---|---|
| `FailuresAreReported` | `FailureReported` |
| `OutboxKeepsDeliveries` | `DeliveriesKept`: every step is a step of `DeliveryLedger` or a stutter |
| `SettledRowsStay` | `SettledIsFinal` |
| `OneDrainSettles` | `OneMaySettle` |
| `RetriesAreBounded` | `BudgetHolds` |
| `UnsettledRowsStay` | `NothingDropped`: no event is pruned with a row that waits or is claimed |
| `TokensAreUnique` | `TokenInv` |

`OutboxAssumption` says what the configuration is: finite sets, known outcomes, at
least one attempt, one row a step and one backoff, windows that are not empty.
The argument goes by rows: `RowMoves` lists what a step may do to one, each action
is shown to do nothing else (`RowsMove`), and the retry budget and both action
properties follow from that list. `FailureReported` leaves out one thing, the row
whose drain met an exception or a death between that row's settlement and its
report (`cut`); `MCOutboxLost` shows that its report is lost. A fault anywhere else
excuses nothing. It needs `OutboxInv` as well: a
drain at work has an item in hand (`BatchInv`), and a row without its event does not
move (`EventInv`), so the report of a failure never overwrites the row it is
about.

`DeliveryLedger` knows neither drains, claims, leases nor retries: a delivery is none,
owed, delivered or failed. The mapping reads a row that waits or is claimed as owed
(`Stands`). Claims, leases that end, time, sends, retries, exceptions and deaths then
stutter (`RestMaps`); an answer that is taken is `Settle` or a stutter
(`SettleRowMaps`); a new event, the producer's or a drain's report, is `Announce`
(`EnqueueMaps`), for which `EventInv` says that a free slot has no rows left; retention is
`Retire` (`PruneMaps`). So a late answer settles nothing a second time and no event
leaves with a delivery owed, whatever happens in between.

`OneMaySettle` needs `TokenInv`: a token in a batch is no newer than the last
claim of its row (`OldTokens`), so a new claim's differs from all of them; it
survives the removal of an event because a slot is taken again only when no drain
holds an item of it (`Free`), as an identifier of the catalog never is.

Model-checked only: `EveryRowSettles` and `FailureIsHeard` (liveness), and that
`order` lists the slots in use (`OutboxTypeOK`), since `Prune` filters it with
`SelectSeq`, which is recursive.

Left out: rendering and signatures, the Telegram texts, the fine refusal reason,
the occurrences of a repeated event, the console's reads of the outbox.

## HBA operation

The access rules of the database are changed by one writer at a time, in a file
inside the container, while the record of what is being done is on the host.
`proc` is the process that holds the three locks, an owner or a recovery; whoever
does not get them ends before it reads anything. `sent` holds the scripts that
were sent into the container. A script compares digests under a lock of its own
and replaces its target by a rename, so its comparison and its effect are one
action, `Land`; its sender may be gone by then, or never hear of its success.
`registry.rev` counts the registry's replacements and stands for its digest. Files
that are created exclusively and then written are two actions, with `torn`
between them.

| Run | Instance | States | Shows |
|---|---|---|---|
| `hba_operation` | 3 operations, deaths and late scripts unbounded | 129,884 | whatever may still happen is pending or truly archived |

Three operations: one whose script is late, the one that follows it, and one
after the recovery. The crucial case is recovery that finds no registration at
all: it writes the revocation all the same, because the registration may still be
on its way (`Revoked_OrAbsent` is the bug that does not). No liveness is claimed:
an apply that landed without its completion on disk stays pending until someone
decides, which `lab/hba_settlement.py` and its tests mean it to do, and so does any
torn file.

`HbaOperationProofs.tla` proves `NothingUnaccounted` (`ChangesAccounted`) and `TypeOK`
(`TypeCorrect`) for any number of operations. The property is not inductive, since
what a late script may still do depends on the revision it carries, that on what
the registry was when its process read it, and that on who holds the journal.
`IInv` says that a script that could still land carries the registry's revision
and belongs to the pending operation, whose authority is not revoked yet
(`SentInv`); what a process has read is the registry unless the revision moved
(`SeenInv`); and from the end of its authority to the unlink of its journal an
operation has no script left that could land (`SettleInv`).

Left out: the adoption of an older installation and the migration of a generation
to another container, recovery targets, rules edited by hand, power loss between
a write and its sync.

## Findings

1. **An interrupted delete may never finish** (`lab/durable_runtime.py:976`, run
   `lifecycle_unattended`). `docs/reference/api.md:114` says an interrupted delete
   is finished. If the host or the supervisor restarts after a delete stopped
   the containers and before it closed the tenant, the environment is still
   published, so the start resumes its containers. The replay skips container
   effects recorded as done (`src/control/lifecycle.ts:60`) and the tenant's
   quarantine refuses while a container runs, at every retry. The remedy of
   `api.md:116`, an operator who stops the container, ends it (run `lifecycle`).
   The environment is never left half open to a deleted state: `DeletedIsClosed`
   holds.

Further disagreements between the code and what it says of itself are kept as
configurations to run by hand. TLC finds each violated in seconds.

| Configuration | Property | The code | What is said of it |
|---|---|---|---|
| `MCConcurrencyGateWake` | `RecentKeepsShare` | `src/gateway/concurrency.ts:91`: a borrow leaves free the headroom or the unused shares of environments already seen, so an environment with a larger share that wakes alone finds only the headroom | `README.md:18`: every project active in the last minute keeps its whole share |
| `MCHandoverFreeze` | `FrozenOpensNothing` | `lab/upstream-server.ts:193`: a bind that was awaited before the freeze completes after it and is published | `:157`: from the freeze on the process opens no fixed listener. The later checks H4 and H6 end the handover when they see it |
| `MCHandoverGap` | `GapIsGuarded` | `lab/dev.py:1402`: `supervisor.lock` is released before `handover.json` is written, so a start in between finds no record | `HANDOVER.md:226`: it refuses on the live record |
| `UpgradeOverrun` | `NoneLandsAfterSnapshot` | `src/gateway/hold.ts:107`: a request is held or let through when it arrives, and one let through may still run when `before_start` has waited `HOLD_SETTLE_SECONDS` and takes its snapshot (`lab/upgrade.py:896`) | `lab/upgrade.py:863`: no change that console accepts can land after the snapshot. `HANDOVER.md:225` records it as a known limit: a way back loses it |
| `UpgradeStale` | `MismatchNeverConfirmed` | `lab/upgrade.py:899`: `before_start` saves the record it read before it waited for `upgrade.lock`, over a rollback that finished meanwhile | `:855`: a mismatched tree is never confirmed |
| `UpgradeUngated` | `ConfirmedByHealth` | `lab/dev.py:1317`: a start with nothing pending settles a record saved after its check, ungated | `lab/upgrade.py:849`: confirmed only after the health checks pass |
| `UpgradeRefused` | `RefusalKeepsVersion` | `lab/dev.py:1239`: a refusal before the try leaves the guard's attempt open, and the next guard goes back | `:1249`: a refusal never takes an upgrade's way back |
| `UpgradeRaised` | `RaisedIsRecorded` | `lab/upgrade.py:989`: a way back that raised leaves the record as it is | `UPDATE-CHANNEL.md:45`: `rollback_failed` |
| `UpgradeTerminal` | `FailsOnlyAfterStarting` | `lab/dev.py:1090`: a terminal start that moved back leaves an attempt open, and the next guard records `rollback_failed` | `upgrades.md:143`: if the previous version then fails in the same way |
| `MCOutboxLost` | `FailureAlwaysReported` | `lab/notify.py:942`: settlement and report are two transactions | `:371`: the row commits with the settlement that caused it |
| `MCOutboxExhausted` | `ExhaustedIsFailed` | `lab/notify.py:609`: what raises before `settle` is claimed again whatever its attempts | `OPERATOR-NOTIFICATIONS.md`: after `MAX_ATTEMPTS` the row becomes failed |
| `MCOutboxPingPong` | `EscalationEnds` | `lab/notify.py:44`: the retries of a report take 6 h 36 min, longer than its window of 6 h | `:965`: two broken channels must not escalate each other indefinitely |
| `RollingAddress` | `AddressIsServed` | `lab/rolling.py:655`: repair removes the new container before it points the address back (`:675`) | `:26`: the address goes back and the new one is removed |
| `RollingFenced` | `FencedKeepsWaiting` | `lab/rolling.py:290`: a start during a fence drops the environment's entry | `:33`: a fenced environment keeps waiting |
| `RollingMissing` | `MissingIsCreated` | `lab/durable_runtime.py:997`: a start with a missing container raises | `lab/rolling.py:762`: the next start creates it |
| `RollingDrift` | `ForcedResumes` | `lab/durable_runtime.py:822`: a settled hold whose entry was dropped is drift | `lab/rolling.py:43`: it resumes at the next start |
| `MCOnDemandCalledOff` | `CalledOffKeepsServing` | `src/control/catalog.ts:1368`: the row is called off while a child that read it goes on | `:1366`: so that a running service is not stopped and started again for the one who waits |

More properties hold on the same instances and can be added to their
configurations: the type invariant everywhere; `BudgetHolds`, `OneMaySettle` and `SettledIsFinal` (`Outbox`); `SucceededIsBuilt` (`Provisioning`); `StopHonoured` (`Handover`);
`RestoresOnlyClosed`, `RollbackFailedIsHome`, `CleanStopKeepsVersion`, `ReadIsConfirmed` and
`RecordReadIsProbed` (`Upgrade`, all five proved); `RollEnds` and `OldGoesLast` (`Rolling`);
`MaintenanceIsItsOwn` (`WritePause`).

## Not modelled, and why

`PROJECT.json` lists every part with its status. The models cover the state
machines named above, about five in a hundred of the repository's 74,000 lines
of implementation. The rest is mostly of three kinds. Sequences of docker and SQL
commands whose order has no state between them to get wrong: images, networks,
rendering of settings, dumps. Programs that check a live installation: probes,
verifications, fixtures. Pages, single requests over one database transaction,
packaging and documents. They have little that a state machine could say and a
test could not.

State machines that remain: backup, restore and recovery; project transfer
between installations; storage write settlement; the scheduler's runner; the
migration of a database's HBA generation.

Liveness and ENABLED are out of the prover's reach, as is induction over data,
so every `Settles`, `...Settles`, `ShareComesBack`, `ResumeGetsOut`, `FailureIsHeard`,
`EveryRowSettles` and `KillSwitchMeansOn` stay with TLC. Every other property of a
passing run, each invariant and each action property, is a theorem.

## Plan

1. An abstract specification that `Upgrade` implements (a version switch in one
   step), with its refinement proved from `IInv` and `MoveInv`.
2. Retained lifecycle with several environments, for the head of line
   (`catalog.ts:1986`).
3. `TransferJournal`; backup and restore; storage settlement; the scheduler.
