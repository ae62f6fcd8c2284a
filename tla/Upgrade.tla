-------------------------------- MODULE Upgrade --------------------------------
(***************************************************************************)
(* The upgrade record and everybody who moves it: the operator's commands  *)
(* (lab/upgrade.py start, rollback), the guard that runs before every      *)
(* start (lab/upgrade_guard.py), and the supervisor's own start            *)
(* (lab/dev.py main with before_start and after_start).  Two versions,     *)
(* "old" and "new"; the checkout `head`, which a move that is cut short    *)
(* leaves torn (`tidy` FALSE); the control stores, of which only the       *)
(* number of accepted changes and the schema matter; the hold marker and   *)
(* what the consoles have cached of it.                                    *)
(*                                                                         *)
(* The supervisor's steps `sup`:                                           *)
(*   down -> guard, undo, cannot (the guard)                               *)
(*        -> main -> start -> unsettled, settle, lock, hold (before_start) *)
(*        -> gated -> probing -> confirmed -> serving                      *)
(*        -> ungated -> serving                                            *)
(*        -> failing -> back (after_start of a failed start) -> down       *)
(* `back` is the way back in progress, of the guard, the start or the      *)
(* operator: move, mark, restore, record, then done, error or lost.        *)
(***************************************************************************)
EXTENDS Naturals, FiniteSets

CONSTANTS MaxAttempts,    \* MAX_ATTEMPTS of the guard
          MaxFaults,      \* bound on deaths, failed moves and refusals in a behaviour
          MaxWrites,      \* bound on accepted changes
          MaxApplies,     \* bound on upgrades started
          Terminal        \* whether the starts come from a terminal, which runs the guard itself

ASSUME UpgradeConstants == /\ MaxAttempts \in Nat \ {0} /\ MaxFaults \in Nat
                           /\ MaxWrites \in Nat /\ MaxApplies \in Nat
                           /\ Terminal \in BOOLEAN

VARIABLES
  head, tidy,       \* the checkout: HEAD, and whether the tree is that commit's
  rec,              \* .lab/upgrades/state.json
  control,          \* the control stores: changes accepted, schema, lost by a way back
  hold, seen,       \* the hold marker; what the running consoles last read of it
  consoles,         \* versions whose console process serves
  running,          \* versions whose console works on changes it admitted
  sup, ver, copy,   \* the supervisor: its step, its program's version, before_start's record
  handover,         \* this start replaced the old supervisor while its console serves on
  op,               \* the operator's command
  back,             \* the way back in progress: who runs it and its step
  lastEnd,          \* how the supervisor last ended
  faults, applies

\* What happened, for the properties; no guard reads it.
VARIABLES
  late,             \* changes committed under the hold since the last snapshot
  raced,            \* a command began since the last start read the record
  stale             \* a start recorded its attempt over a record it had not read, or settled one unprobed

tree == <<head, tidy>>
read == <<copy, raced, stale>>
supervisor == <<sup, ver, read, handover, lastEnd>>
traffic == <<seen, running, late>>
holdv == <<hold, traffic>>
bounds == <<faults, applies>>
vars == <<tree, rec, control, holdv, consoles, supervisor, op, back, bounds>>

Versions == {"old", "new"}
Phases == {"none", "applied", "rolling_back", "confirmed", "rolled_back", "failed", "rollback_failed"}
PENDING == {"applied", "rolling_back"}
MoveCutShort == head' \in Versions /\ tidy' \in BOOLEAN
NoGuard == [phase |-> "none", attempts |-> 0, open |-> FALSE]
NoRecord == [phase |-> "none", moved |-> FALSE, attempted |-> FALSE, snap |-> [writes |-> 0, schema |-> "old"],
             due |-> FALSE, restored |-> FALSE, movedBack |-> FALSE, from |-> "none", g |-> NoGuard, fails |-> 0]
NoBack == [by |-> "none", step |-> "none"]

Pending(r) == r.phase \in PENDING
Held == hold /\ Pending(rec)
RestoreLeft(r) == r.due /\ ~r.restored
MovedBack(r) == r.movedBack /\ head = "old"
WayBackDone(r) == MovedBack(r) /\ ~RestoreLeft(r)
Mismatch(r) == IF r.phase = "applied" THEN ~(r.moved /\ head = "new" /\ tidy)
                                      ELSE ~(WayBackDone(r) /\ tidy)

\* upgrade.lock and supervisor.lock
UpgradeLockFree == op = "idle" /\ back.by = "none" /\ sup \notin {"undo", "cannot"}
OperatorHoldsSupervisor == op = "closed"
SupervisorLockFree == sup \in {"down", "main"} /\ ~OperatorHoldsSupervisor

Fault == faults < MaxFaults /\ faults' = faults + 1 /\ UNCHANGED applies

------------------------------------------------------------------------------
\* The attempt the guard opens, counts and finds open.

GuardRecord(r) == IF r.g.phase = r.phase THEN r.g ELSE [NoGuard EXCEPT !.phase = r.phase]
Counted_Same(r) == GuardRecord(r)
Counted(r) == [GuardRecord(r) EXCEPT !.attempts = @ + 1]
Crashed(r) == GuardRecord(r).open
Exhausted(r) == Counted(r).attempts > MaxAttempts
Opened(r) == [r EXCEPT !.g = [Counted(r) EXCEPT !.open = TRUE]]

CloseAttempt(r) == IF Pending(r) /\ r.g.phase = r.phase THEN [r EXCEPT !.g.open = FALSE] ELSE r

WithdrawAttempt(r) == IF Pending(r) /\ r.g.phase = r.phase
                      THEN [r EXCEPT !.g.open = FALSE, !.g.attempts = IF @ = 0 THEN 0 ELSE @ - 1]
                      ELSE r

------------------------------------------------------------------------------
\* The way back, whoever runs it: the record first, then the checkout, then the control state.

BeginWayBack(r) ==
  [r EXCEPT !.phase = "rolling_back", !.from = r.phase, !.fails = 0, !.movedBack = FALSE, !.g = NoGuard,
            !.due = r.phase = "applied" /\ r.attempted]

BackStep(r) == IF ~MovedBack(r) THEN "move" ELSE IF RestoreLeft(r) THEN "restore" ELSE "done"

BackMoves ==
  /\ back.step = "move"
  /\ \/ head' = "old" /\ tidy' = TRUE /\ back' = [back EXCEPT !.step = "mark"] /\ UNCHANGED bounds
     \/ Fault /\ MoveCutShort /\ back' = [back EXCEPT !.step = "error"]
  /\ UNCHANGED <<rec, control, holdv, consoles, supervisor, op>>

BackMarks ==
  /\ back.step = "mark"
  /\ rec' = [rec EXCEPT !.movedBack = TRUE]
  /\ back' = [back EXCEPT !.step = BackStep(rec')]
  /\ UNCHANGED <<tree, control, holdv, consoles, supervisor, op, bounds>>

SnapshotFailed(r) == [r EXCEPT !.phase = "rollback_failed"]
PutBack == [control EXCEPT !.writes = rec.snap.writes, !.schema = rec.snap.schema]
\* Store by store: the disk may fail in between, and a death in between is that and then the death.
HalfPutBack == [writes : {control.writes, rec.snap.writes}, schema : {control.schema, rec.snap.schema},
                lost : {control.lost}]

BackRestores ==
  /\ back.step = "restore"
  /\ \/ control' = PutBack /\ late' = 0 /\ back' = [back EXCEPT !.step = "record"] /\ UNCHANGED <<rec, bounds>>
     \/ /\ Fault
        /\ rec' = SnapshotFailed(rec) /\ control' = [control EXCEPT !.lost = TRUE]
        /\ back' = [back EXCEPT !.step = "lost"] /\ UNCHANGED late
     \/ /\ Fault                                                      \* OSError: the next start goes on
        /\ control' \in HalfPutBack
        /\ back' = [back EXCEPT !.step = "error"] /\ UNCHANGED <<rec, late>>
  /\ UNCHANGED <<tree, hold, seen, running, consoles, supervisor, op>>

BackRecords ==
  /\ back.step = "record"
  /\ rec' = [rec EXCEPT !.restored = TRUE]
  /\ back' = [back EXCEPT !.step = BackStep(rec')]
  /\ UNCHANGED <<tree, control, holdv, consoles, supervisor, op, bounds>>

------------------------------------------------------------------------------
\* The guard, before every start, under upgrade.lock and supervisor.lock.

GuardGoesBack ==
  /\ rec' = BeginWayBack(rec)
  /\ back' = [by |-> "guard", step |-> BackStep(rec')]
  /\ sup' = "guard"

GuardRuns ==
  /\ sup = "down" /\ UpgradeLockFree
  /\ ver' = head
  /\ handover' = (handover /\ head = "new")      \* adopt: the record names another commit
  /\ consoles' = IF handover /\ head # "new" THEN {} ELSE consoles
  /\ \/ ~Pending(rec) /\ sup' = "main" /\ UNCHANGED <<rec, back>>
     \/ rec.phase = "applied" /\ ~rec.moved /\ sup' = "undo" /\ UNCHANGED <<rec, back>>
     \/ /\ rec.phase = "applied" /\ rec.moved
        /\ IF Crashed(rec) \/ Exhausted(rec) \/ Mismatch(rec)
           THEN GuardGoesBack
           ELSE rec' = Opened(rec) /\ sup' = "main" /\ UNCHANGED back
     \/ /\ rec.phase = "rolling_back"
        /\ back' = [by |-> "guard", step |-> BackStep(rec)] /\ sup' = "guard" /\ UNCHANGED rec
  /\ UNCHANGED <<tree, control, holdv, read, lastEnd, op, bounds>>

\* `start` stopped while it moved the checkout: put it back, verified, and record that.
GuardUndoes ==
  /\ sup = "undo"
  /\ \/ /\ head' = "old" /\ tidy' = TRUE
        /\ rec' = [rec EXCEPT !.phase = "failed", !.fails = 0]
        /\ sup' = "main" /\ UNCHANGED bounds
     \/ /\ Fault /\ MoveCutShort
        /\ sup' = "cannot" /\ UNCHANGED rec
  /\ UNCHANGED <<control, holdv, consoles, ver, read, handover, lastEnd, op, back>>

GuardFinishes ==
  /\ sup = "guard" /\ back.step \in {"done", "lost"}
  /\ IF back.step = "lost" THEN rec' = rec
     ELSE rec' = IF Crashed(rec) \/ Exhausted(rec)
                 THEN [rec EXCEPT !.phase = "rollback_failed", !.fails = 0]
                 ELSE [Opened(rec) EXCEPT !.fails = 0]
  /\ back' = NoBack /\ sup' = "main"
  /\ UNCHANGED <<tree, control, holdv, consoles, ver, read, handover, lastEnd, op, bounds>>

GuardBackFails ==
  /\ sup = "guard" /\ back.step = "error"
  /\ back' = NoBack /\ sup' = "cannot"
  /\ UNCHANGED <<tree, rec, control, holdv, consoles, ver, read, handover, lastEnd, op, bounds>>

\* Whether the confirmed version an operator's rollback tried to leave is what starts again.
ConfirmedAgain(r) == r.phase = "rolling_back" /\ r.from = "confirmed" /\ head = "new" /\ tidy

\* The move failed: retried by the next starts, then the least harmful start is chosen.
CannotMove ==
  /\ sup = "cannot"
  /\ LET r == [rec EXCEPT !.fails = @ + 1] IN
     CASE r.fails < MaxAttempts ->
            rec' = r /\ sup' = "down" /\ UNCHANGED <<control, late, bounds>>
       [] r.fails >= MaxAttempts /\ head = "old" /\ tidy /\ r.phase = "applied" ->
            rec' = [r EXCEPT !.phase = "failed"] /\ sup' = "main" /\ UNCHANGED <<control, late, bounds>>
       [] r.fails >= MaxAttempts /\ head = "old" /\ tidy /\ r.phase = "rolling_back" ->
            /\ sup' = "main"
            /\ \/ /\ rec' = [r EXCEPT !.phase = "rollback_failed", !.restored = r.due]
                  /\ IF RestoreLeft(r) THEN control' = PutBack /\ late' = 0 ELSE UNCHANGED <<control, late>>
                  /\ UNCHANGED bounds
               \/ /\ RestoreLeft(r) /\ Fault
                  /\ rec' = [r EXCEPT !.phase = "rollback_failed"]
                  /\ control' \in {[c EXCEPT !.lost = TRUE] : c \in HalfPutBack} /\ UNCHANGED late
       [] r.fails >= MaxAttempts /\ ~(head = "old" /\ tidy) /\ ConfirmedAgain(r) ->
            rec' = [r EXCEPT !.phase = "confirmed", !.g = NoGuard] /\ sup' = "main" /\ UNCHANGED <<control, late, bounds>>
       [] OTHER -> rec' = r /\ sup' = "down" /\ UNCHANGED <<control, late, bounds>>
  /\ lastEnd' = IF sup' = "down" THEN "stuck" ELSE lastEnd
  /\ handover' = IF sup' = "down" THEN FALSE ELSE handover
  /\ consoles' = IF sup' = "down" THEN {} ELSE consoles
  /\ UNCHANGED <<tree, hold, seen, running, ver, read, op, back>>

------------------------------------------------------------------------------
\* The start: main takes its locks and prepares (before_start) before anything opens a store.

\* The program ends, and with it every console process it owns.
Ends(why) == sup' = "down" /\ consoles' = {} /\ handover' = FALSE /\ lastEnd' = why

\* A guard that moved the checkout ends a start that ran it itself: the previous version starts next.
GuardMovedIt ==
  /\ sup = "main" /\ (Terminal \/ handover) /\ head # ver
  /\ Ends("moved")
  /\ UNCHANGED <<tree, rec, control, holdv, ver, read, op, back, bounds>>

\* Another runner, a manual worker, or a leftover runtime that cannot be stopped: no failed start.
MainRefused ==
  /\ sup = "main"
  /\ IF SupervisorLockFree THEN Fault ELSE UNCHANGED bounds
  /\ Ends("refused")
  /\ UNCHANGED <<tree, rec, control, holdv, ver, read, op, back>>

TakeLocks ==
  /\ sup = "main" /\ ~((Terminal \/ handover) /\ head # ver) /\ SupervisorLockFree
  /\ sup' = "start" /\ ver' = head /\ copy' = rec /\ raced' = FALSE
  /\ UNCHANGED <<tree, rec, control, holdv, consoles, stale, handover, lastEnd, op, back, bounds>>

\* Every console process is gone before the way back restores a snapshot.
Fails == sup' = "failing" /\ consoles' = {} /\ handover' = FALSE

Unattempted(r) == r.phase = "applied" /\ ~r.attempted

BeforeStart ==
  /\ sup = "start"
  /\ \/ /\ ~Pending(copy) /\ ~handover
        /\ hold' = FALSE /\ sup' = "ungated" /\ UNCHANGED <<consoles, handover, bounds>>
     \/ Pending(copy) /\ Mismatch(copy) /\ Fails /\ UNCHANGED <<hold, bounds>>
     \/ /\ Unattempted(copy) /\ ~Mismatch(copy) /\ Fault               \* a record the old version left UNSETTLED
        /\ sup' = "unsettled" /\ UNCHANGED <<hold, consoles, handover>>
     \/ /\ Unattempted(copy) /\ ~Mismatch(copy) /\ handover
        /\ hold' = TRUE /\ sup' = "settle" /\ UNCHANGED <<consoles, handover, bounds>>
     \/ /\ Unattempted(copy) /\ ~Mismatch(copy) /\ ~handover
        /\ sup' = "lock" /\ UNCHANGED <<hold, consoles, handover, bounds>>
     \/ /\ Pending(copy) /\ ~Unattempted(copy) /\ ~Mismatch(copy)
        /\ hold' = TRUE /\ sup' = "gated" /\ UNCHANGED <<consoles, handover, bounds>>
  /\ UNCHANGED <<tree, rec, control, traffic, ver, read, lastEnd, op, back>>

\* The record read before the wait for upgrade.lock is saved, marked `retryable`, and the start fails.
SaveRetryable ==
  /\ sup = "unsettled" /\ Fails
  /\ \/ UpgradeLockFree /\ rec' = copy
     \/ ~UpgradeLockFree /\ rec' = rec
  /\ UNCHANGED <<tree, control, holdv, ver, read, lastEnd, op, back, bounds>>

\* HOLD_SETTLE_SECONDS outlasts the second a console keeps its answer about the hold.
HoldSettles ==
  /\ sup = "settle" /\ seen /\ sup' = "lock"
  /\ UNCHANGED <<tree, rec, control, holdv, consoles, ver, read, handover, lastEnd, op, back, bounds>>

\* Under upgrade.lock: a fresh snapshot, saved with the attempt in the record read before the wait.
Attempted_FirstSnapshot(r) == [r EXCEPT !.attempted = TRUE]
Attempted_SnapshotOnly(r) == [r EXCEPT !.snap = [writes |-> control.writes, schema |-> control.schema]]
Attempted(r) == [r EXCEPT !.attempted = TRUE,
                          !.snap = [writes |-> control.writes, schema |-> control.schema]]

RecordAttempt ==
  /\ sup = "lock"
  /\ \/ /\ UpgradeLockFree /\ rec' = Attempted(copy) /\ sup' = (IF handover THEN "gated" ELSE "hold")
        /\ late' = 0 /\ stale' = (stale \/ copy # rec) /\ UNCHANGED <<consoles, handover, bounds>>
     \/ Fault /\ Fails /\ UNCHANGED <<rec, late, stale>>                \* the snapshot cannot be taken
     \/ ~UpgradeLockFree /\ Fails /\ UNCHANGED <<rec, late, stale, bounds>>  \* the wait of 30 seconds is over
  /\ UNCHANGED <<tree, control, hold, seen, running, ver, copy, raced, lastEnd, op, back>>

WriteHold ==
  /\ sup = "hold" /\ hold' = TRUE /\ sup' = "gated"
  /\ UNCHANGED <<tree, rec, control, traffic, consoles, ver, read, handover, lastEnd, op, back, bounds>>

\* The runtime and the console process of a start to confirm; the new version may migrate the stores.
StartRuntime ==
  /\ sup = "gated" /\ sup' = "probing"
  /\ consoles' = consoles \cup {ver} /\ running' = running \ {ver}
  /\ seen' = Held
  /\ \/ UNCHANGED control
     \/ ver = "new" /\ ~handover /\ control' = [control EXCEPT !.schema = "new"]
  /\ UNCHANGED <<tree, rec, hold, late, ver, read, handover, lastEnd, op, back, bounds>>

Verdict(r) == [r EXCEPT !.phase = IF @ = "applied" THEN "confirmed" ELSE "rolled_back"]

\* A passing round: the confirmation is saved before the hold is lifted.
Confirm ==
  /\ sup = "probing"
  /\ rec' = IF Pending(rec) THEN Verdict(rec) ELSE rec
  /\ sup' = "confirmed" /\ consoles' = {ver} /\ handover' = FALSE
  /\ UNCHANGED <<tree, control, holdv, ver, read, lastEnd, op, back, bounds>>

ReleaseHold ==
  /\ sup = "confirmed" /\ hold' = FALSE /\ sup' = "serving"
  /\ UNCHANGED <<tree, rec, control, traffic, consoles, ver, read, handover, lastEnd, op, back, bounds>>

\* A start nothing waits for: its runtime is up, so after_start(True) reads the record again.
StartUngated ==
  /\ sup = "ungated"
  /\ rec' = (IF Pending(rec) THEN Verdict(rec) ELSE rec) /\ stale' = (stale \/ Pending(rec))
  /\ hold' = FALSE /\ seen' = FALSE
  /\ sup' = "serving" /\ consoles' = {ver} /\ running' = running \ {ver}
  /\ \/ UNCHANGED control
     \/ ver = "new" /\ control' = [control EXCEPT !.schema = "new"]
  /\ UNCHANGED <<tree, late, ver, copy, raced, handover, lastEnd, op, back, bounds>>

StartFails ==
  /\ \/ sup \in {"gated", "probing"} /\ UNCHANGED bounds
     \/ sup = "ungated" /\ Fault
  /\ Fails
  /\ UNCHANGED <<tree, rec, control, holdv, ver, read, lastEnd, op, back>>

\* after_start(False): the way back of a failed start, which always lifts the hold at its end.
NeitherStarted(r) == r.phase = "rolling_back" /\ WayBackDone(r)

AfterStart ==
  /\ sup = "failing"
  /\ \/ /\ \/ ~Pending(rec) /\ rec' = rec
           \/ NeitherStarted(rec) /\ rec' = [rec EXCEPT !.phase = "rollback_failed"]
           \/ Pending(rec) /\ ~NeitherStarted(rec) /\ ~UpgradeLockFree /\ rec' = rec
        /\ hold' = FALSE /\ Ends("failed") /\ UNCHANGED <<back, bounds>>
     \/ /\ rec.phase = "applied" /\ UpgradeLockFree /\ Fault             \* rollback refuses or raises first
        /\ hold' = FALSE /\ Ends("failed") /\ UNCHANGED <<rec, back>>
     \/ /\ Pending(rec) /\ ~NeitherStarted(rec) /\ UpgradeLockFree
        /\ rec' = IF rec.phase = "applied" THEN BeginWayBack(rec) ELSE rec
        /\ back' = [by |-> "start", step |-> BackStep(rec')]
        /\ sup' = "back" /\ UNCHANGED <<hold, consoles, handover, lastEnd, bounds>>
  /\ UNCHANGED <<tree, control, traffic, ver, read, op>>

StartBackEnds ==
  /\ sup = "back" /\ back.step \in {"done", "error", "lost"}
  /\ back' = NoBack /\ hold' = FALSE /\ Ends("failed")
  /\ UNCHANGED <<tree, rec, control, traffic, ver, read, op, bounds>>

------------------------------------------------------------------------------
\* How a supervisor that serves or starts ends: a clean stop, an upgrade's exec, a death.

Stop ==
  /\ sup \in {"gated", "probing", "ungated", "serving"}
  /\ rec' = CloseAttempt(rec)
  /\ Ends("stopped")
  /\ UNCHANGED <<tree, control, holdv, ver, read, op, back, bounds>>

\* An upgrade that changes only code: the new version's supervisor replaces the old one's program.
HandsOver ==
  /\ sup = "serving" /\ ver = "old" /\ op = "idle" /\ ~Terminal
  /\ rec.phase = "applied" /\ rec.moved /\ rec.g = NoGuard
  /\ sup' = "down" /\ handover' = TRUE /\ lastEnd' = "handover"
  /\ UNCHANGED <<tree, rec, control, holdv, consoles, ver, read, op, back, bounds>>

\* The handover, not the version, failed: the attempt is taken back and the same version restarts.
HandoverFails ==
  /\ handover /\ sup \in {"start", "gated", "probing"} /\ UpgradeLockFree
  /\ rec' = WithdrawAttempt(rec)
  /\ Ends("stopped")
  /\ UNCHANGED <<tree, control, holdv, ver, read, op, back, bounds>>

SupervisorDies ==
  /\ sup # "down" /\ Fault
  /\ IF sup = "undo" \/ (back.by \in {"guard", "start"} /\ back.step = "move")
     THEN MoveCutShort ELSE UNCHANGED tree
  /\ back' = IF back.by \in {"guard", "start"} THEN NoBack ELSE back
  /\ Ends("died")
  /\ UNCHANGED <<rec, control, holdv, ver, read, op>>

------------------------------------------------------------------------------
\* The operator's commands, one at a time under upgrade.lock.

CommandStarts ==
  /\ op = "idle" /\ UpgradeLockFree /\ sup # "guard"
  /\ raced' = TRUE /\ UNCHANGED <<sup, ver, copy, stale, handover, lastEnd>>

Apply ==
  /\ CommandStarts /\ applies < MaxApplies
  /\ ~Pending(rec) /\ head = "old" /\ tidy
  /\ rec' = [NoRecord EXCEPT !.phase = "applied", !.snap = [writes |-> control.writes, schema |-> control.schema]]
  /\ op' = "moving" /\ applies' = applies + 1
  /\ UNCHANGED <<tree, control, holdv, consoles, back, faults>>

ApplyMoves ==
  /\ op = "moving"
  /\ \/ head' = "new" /\ tidy' = TRUE /\ op' = "moved" /\ UNCHANGED bounds
     \/ Fault /\ MoveCutShort /\ op' = "undo"
  /\ UNCHANGED <<rec, control, holdv, consoles, supervisor, back>>

ApplyMarksMoved ==
  /\ op = "moved" /\ rec' = [rec EXCEPT !.moved = TRUE] /\ op' = "idle"
  /\ UNCHANGED <<tree, control, holdv, consoles, supervisor, back, bounds>>

\* The move back of a failed move; when that fails too, nothing more is recorded.
ApplyUndoes ==
  /\ op = "undo" /\ op' = "idle"
  /\ \/ head' = "old" /\ tidy' = TRUE /\ rec' = [rec EXCEPT !.phase = "failed"] /\ UNCHANGED bounds
     \/ Fault /\ MoveCutShort /\ UNCHANGED rec
  /\ UNCHANGED <<control, holdv, consoles, supervisor, back>>

NeedsStop(r) == r.phase = "applied" /\ r.attempted

\* The refusals of a rollback; a confirmed version is left only for one that opens its stores.
Rollback ==
  /\ CommandStarts /\ tidy
  /\ \/ rec.phase = "applied"
     \/ rec.phase = "confirmed" /\ control.schema = "old"
  /\ NeedsStop(rec) => SupervisorLockFree
  /\ op' = IF NeedsStop(rec) THEN "closed" ELSE "open"
  /\ rec' = BeginWayBack(rec)
  /\ back' = [by |-> "operator", step |-> BackStep(rec')]
  /\ UNCHANGED <<tree, control, holdv, consoles, bounds>>

RollbackEnds ==
  /\ back.by = "operator" /\ back.step \in {"done", "error", "lost"}
  /\ op' = "idle" /\ back' = NoBack
  /\ UNCHANGED <<tree, rec, control, holdv, consoles, supervisor, bounds>>

CommandDies ==
  /\ op # "idle" /\ Fault
  /\ IF op \in {"moving", "undo"} \/ (back.by = "operator" /\ back.step = "move")
     THEN MoveCutShort ELSE UNCHANGED tree
  /\ op' = "idle"
  /\ back' = IF back.by = "operator" THEN NoBack ELSE back
  /\ UNCHANGED <<rec, control, holdv, consoles, supervisor>>

------------------------------------------------------------------------------
\* The consoles: a change is admitted while the console's answer is that nothing is held, and commits
\* when its handler is done, whatever the answer is by then; the answer is kept for a second.

MoreChanges == control.writes < MaxWrites

AdmitChange(v) ==
  /\ v \in consoles \ running /\ ~seen /\ MoreChanges
  /\ running' = running \cup {v}
  /\ UNCHANGED <<tree, rec, control, hold, seen, late, consoles, supervisor, op, back, bounds>>

CommitChange(v) ==
  /\ v \in consoles \cap running /\ MoreChanges
  /\ control' = [control EXCEPT !.writes = @ + 1]
  /\ late' = IF seen THEN late + 1 ELSE late
  /\ running' \in {running, running \ {v}}                            \* others may still run
  /\ UNCHANGED <<tree, rec, hold, seen, consoles, supervisor, op, back, bounds>>

SeeHold ==
  /\ consoles # {} /\ seen # Held /\ seen' = Held
  /\ UNCHANGED <<tree, rec, control, hold, running, late, consoles, supervisor, op, back, bounds>>

------------------------------------------------------------------------------
Init ==
  /\ head = "old" /\ tidy = TRUE /\ rec = NoRecord
  /\ control = [writes |-> 0, schema |-> "old", lost |-> FALSE]
  /\ hold = FALSE /\ seen = FALSE /\ consoles = {"old"} /\ running = {}
  /\ sup = "serving" /\ ver = "old" /\ copy = NoRecord /\ handover = FALSE
  /\ op = "idle" /\ back = NoBack /\ lastEnd = "none" /\ faults = 0 /\ applies = 0
  /\ late = 0 /\ raced = FALSE /\ stale = FALSE

WayBackSteps == BackMoves \/ BackMarks \/ BackRestores \/ BackRecords
GuardSteps == GuardRuns \/ GuardUndoes \/ GuardFinishes \/ GuardBackFails \/ CannotMove
StartSteps ==
  GuardMovedIt \/ MainRefused \/ TakeLocks \/ BeforeStart \/ SaveRetryable \/ HoldSettles \/ RecordAttempt \/ WriteHold
  \/ StartRuntime \/ Confirm \/ ReleaseHold \/ StartUngated \/ StartFails \/ AfterStart \/ StartBackEnds
Endings == Stop \/ HandsOver \/ HandoverFails \/ SupervisorDies
Commands == Apply \/ ApplyMoves \/ ApplyMarksMoved \/ ApplyUndoes \/ Rollback \/ RollbackEnds \/ CommandDies

Changes == SeeHold \/ \E v \in Versions : AdmitChange(v) \/ CommitChange(v)

Next == WayBackSteps \/ GuardSteps \/ StartSteps \/ Endings \/ Commands \/ Changes
Spec == Init /\ [][Next]_vars

\* Deaths and failed moves aside, the service manager restarts, every step of a start and of a
\* command is taken, and a console's answer about the hold expires.
FairSpec ==
  /\ Spec
  /\ WF_vars(WayBackSteps) /\ WF_vars(GuardSteps) /\ WF_vars(StartSteps) /\ WF_vars(SeeHold)
  /\ WF_vars(ApplyMoves \/ ApplyMarksMoved \/ ApplyUndoes \/ RollbackEnds)

------------------------------------------------------------------------------
\* The record, the supervisor and the stores stay within their values.
TypeOK ==
  /\ head \in Versions /\ tidy \in BOOLEAN
  /\ rec.phase \in Phases /\ rec.from \in Phases
  /\ rec.moved \in BOOLEAN /\ rec.attempted \in BOOLEAN /\ rec.due \in BOOLEAN
  /\ rec.restored \in BOOLEAN /\ rec.movedBack \in BOOLEAN
  /\ rec.g.phase \in Phases /\ rec.g.attempts \in 0..MaxAttempts /\ rec.g.open \in BOOLEAN
  /\ rec.fails \in 0..(MaxAttempts + MaxFaults)
  /\ control.writes \in 0..MaxWrites /\ control.schema \in Versions /\ control.lost \in BOOLEAN
  /\ hold \in BOOLEAN /\ seen \in BOOLEAN /\ consoles \subseteq Versions /\ running \subseteq Versions
  /\ sup \in {"down", "guard", "undo", "cannot", "main", "start", "unsettled", "settle", "lock", "hold", "gated",
              "probing", "confirmed", "ungated", "serving", "failing", "back"}
  /\ ver \in Versions /\ handover \in BOOLEAN
  /\ op \in {"idle", "moving", "moved", "undo", "open", "closed"}
  /\ back.by \in {"none", "guard", "start", "operator"}
  /\ faults \in 0..MaxFaults /\ applies \in 0..MaxApplies
  /\ late \in Nat /\ raced \in BOOLEAN /\ stale \in BOOLEAN

\* The previous version's console never serves stores the new version migrated, unless a snapshot
\* could not be put back, which is recorded: the checkout goes back and the stores with it.  Nothing
\* keeps the operator's commands out of a start; they break this only where a start acts on the record
\* of before the command (lab/upgrade.py:899, lab/dev.py:1317).
OldOpensOnlyItsOwn == "old" \in consoles /\ control.schema = "new" => control.lost \/ stale

\* A way back drops no change a console answered for, except those that a request admitted before
\* the hold committed after the snapshot ("a way back loses it", HANDOVER.md:225): all others are in the
\* snapshot before_start takes, or come after the confirmation.
KeepsAccepted == [][control'.writes + late >= control.writes]_vars

\* "No change that console accepts can land after the snapshot" (lab/upgrade.py:863), of the console
\* that serves on during a handover.
NoneLandsAfterSnapshot ==
  [][(sup \in {"gated", "probing"} /\ rec.phase = "applied") => control'.writes = control.writes]_vars

\* The stores are put back only while no console process has them open ("the supervisor is not
\* running"; "every console process is gone before the way back restores a snapshot").
RestoresOnlyClosed ==
  [][(back.step = "restore" /\ back'.step \in {"record", "error"}) => consoles = {}]_vars

\* "A mismatched tree is never confirmed": the checkout is the version the record settles on, whole.
MismatchNeverConfirmed ==
  [][sup = "probing" /\ rec.phase # rec'.phase
       => tidy /\ head = (IF rec'.phase = "confirmed" THEN "new" ELSE "old")]_vars

\* What the code keeps of it: so, until a start saves the record it read over one a command wrote since.
ReadIsConfirmed ==
  [][sup = "probing" /\ rec.phase # rec'.phase
       => stale \/ (tidy /\ head = (IF rec'.phase = "confirmed" THEN "new" ELSE "old"))]_vars

\* A pending record is confirmed by a start that was gated and probed, never by another one.
ConfirmedByHealth ==
  [][rec.phase \in PENDING /\ rec'.phase \in {"confirmed", "rolled_back"}
       => sup = "probing" \/ (sup = "cannot" /\ rec.from = "confirmed")]_vars

\* What the code keeps of it: so, unless a command began after this start had read that nothing waits.
RecordReadIsProbed ==
  [][rec.phase \in PENDING /\ rec'.phase \in {"confirmed", "rolled_back"}
       => \/ sup = "probing"
          \/ sup = "cannot" /\ rec.from = "confirmed"
          \/ sup = "ungated" /\ raced]_vars

\* "rollback_failed is recorded only with the checkout back on the previous version", whole.
RollbackFailedIsHome ==
  [][rec.phase # "rollback_failed" /\ rec'.phase = "rollback_failed" => head = "old" /\ tidy]_vars

\* A clean stop during a confirmation is not taken for a crash: the guard goes back from a version
\* after one only when its attempts are used up or the tree is not that version's.
CleanStopKeepsVersion ==
  [][sup = "down" /\ sup' = "guard" /\ rec.phase = "applied" /\ lastEnd = "stopped"
       => Exhausted(rec) \/ Mismatch(rec)]_vars

\* "Refusing here is not a failed start of this version, so it never takes an upgrade's way back."
RefusalKeepsVersion ==
  [][sup = "down" /\ sup' = "guard" /\ rec.phase = "applied" /\ lastEnd = "refused"
       => Exhausted(rec) \/ Mismatch(rec)]_vars

\* "The automatic way back itself raised" leaves rollback_failed, as the state table has it.
RaisedIsRecorded ==
  [][(sup \in {"failing", "back"} /\ sup' = "down" /\ lastEnd' = "failed" /\ op = "idle") => rec'.phase # "applied"]_vars

\* "If the previous version then fails in the same way, the guard records rollback_failed": only
\* after a start of that version, which a start that ended with the guard's own move was not.
FailsOnlyAfterStarting ==
  [][sup = "guard" /\ rec.phase = "rolling_back" /\ rec'.phase = "rollback_failed" /\ ~control'.lost
       => lastEnd # "moved"]_vars

\* From a stopped installation every upgrade and way back is settled: confirmed, undone, or recorded as failed, whatever died or
\* failed on the way; no wait, no stuck record and no lost lock keeps the installation pending.
Settles == Pending(rec) /\ sup = "down" ~> ~Pending(rec)
=============================================================================
