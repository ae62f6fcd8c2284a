----------------------------- MODULE UpgradeProofs -----------------------------
(*****************************************************************************)
(* Proofs about Upgrade, for any number of attempts, faults, upgrades and     *)
(* changes, with the operator's commands at any time.  No way back drops a    *)
(* change a console answered for, except the `late` ones, of requests that    *)
(* were admitted before the hold; and until a start acts on a record that a   *)
(* command has written since (`stale`), the old version never serves stores   *)
(* the new one migrated.                                                      *)
(*                                                                           *)
(* A snapshot is at stake from the moment a start records its attempt until   *)
(* the stores are put back or the version is confirmed (AtStake).  While it   *)
(* is, no change is admitted: what serves has seen the hold (QuietInv); and   *)
(* it is put back only while it is at stake (LockInv says who may).           *)
(*                                                                           *)
(* MoveInv, above IInv, is about the checkout a record is settled on: the     *)
(* stores are put back with nothing running, rollback_failed means a whole    *)
(* previous version, a clean stop is no crash; and, until a start is stale,   *)
(* what is confirmed was probed and is what is checked out.                   *)
(*****************************************************************************)
EXTENDS Upgrade, TLAPS

BackSteps == {"none", "move", "mark", "restore", "record", "done", "error", "lost"}
Sups == {"down", "guard", "undo", "cannot", "main", "start", "unsettled", "settle", "lock",
         "hold", "gated", "probing", "confirmed", "ungated", "serving", "failing", "back"}
SnapType == [writes : 0..MaxWrites, schema : Versions]
GuardType == [phase : Phases, attempts : 0..MaxAttempts, open : BOOLEAN]
RecordType == [phase : Phases, moved : BOOLEAN, attempted : BOOLEAN, snap : SnapType, due : BOOLEAN,
               restored : BOOLEAN, movedBack : BOOLEAN, from : Phases, g : GuardType, fails : Nat]
ControlType == [writes : 0..MaxWrites, schema : Versions, lost : BOOLEAN]

RecType == rec \in RecordType /\ copy \in RecordType
StoreType == control \in ControlType /\ head \in Versions /\ tidy \in BOOLEAN
HoldType == hold \in BOOLEAN /\ seen \in BOOLEAN /\ consoles \subseteq Versions /\ running \subseteq Versions /\ late \in Nat
StepType ==
  /\ sup \in Sups /\ ver \in Versions /\ handover \in BOOLEAN
  /\ op \in {"idle", "moving", "moved", "undo", "open", "closed"}
  /\ back \in [by : {"none", "guard", "start", "operator"}, step : BackSteps]
  /\ raced \in BOOLEAN /\ stale \in BOOLEAN
TypeInv == RecType /\ StoreType /\ HoldType /\ StepType

\* The bounds' counts; a failed move back is counted in the record only after the fault that made it fail.
CountInv ==
  /\ faults \in 0..MaxFaults /\ applies \in 0..MaxApplies
  /\ rec.fails <= faults /\ copy.fails <= faults
  /\ sup = "cannot" \/ (sup = "guard" /\ back.step = "error") => rec.fails < faults

\* The snapshot of the record is what the stores will be put back to.
AtStake(r) == (r.phase = "applied" /\ r.attempted) \/ (r.phase = "rolling_back" /\ RestoreLeft(r))

\* Who goes back, and when it may put the stores back.  An operator that did not close the supervisor has
\* nothing to put back.
LockInv ==
  /\ back.by = "none" <=> back.step = "none"
  /\ back.by = "guard" <=> sup = "guard"
  /\ back.by = "start" <=> sup = "back"
  /\ back.by = "operator" <=> op \in {"open", "closed"}
  /\ op # "idle" => back.by \in {"none", "operator"} /\ sup \notin {"undo", "cannot"}
  /\ op = "closed" => sup \in {"down", "main"}
  /\ op = "open" => ~rec.due
  /\ op \in {"open", "closed"} => rec.phase # "applied"
  /\ op # "open" /\ back.step \in {"move", "mark", "restore", "record"} => rec.phase = "rolling_back"
  /\ back.step = "restore" => RestoreLeft(rec)

\* A start that read that nothing waits: it lifts the hold and settles whatever the record is by then.
Ungating == sup = "ungated" \/ (sup = "start" /\ ~Pending(copy))

\* What a start has read and prepared when it records its attempt.
StartInv ==
  /\ sup \in {"down", "guard", "undo", "cannot", "main", "start", "unsettled", "settle", "lock", "hold", "gated", "ungated",
              "failing", "back"} /\ ~handover => consoles = {}
  /\ sup \in {"failing", "back", "ungated", "hold", "confirmed", "serving"} => ~handover
  /\ Ungating => ~AtStake(rec) /\ (~raced => ~Pending(rec))
  /\ op \in {"moving", "moved", "undo"} => ~rec.moved
  /\ sup = "start" /\ Unattempted(copy) /\ copy.moved => Pending(rec) /\ op \notin {"moving", "moved", "undo"}
  /\ sup \in {"ungated", "confirmed", "serving"} => ~AtStake(rec)
  /\ sup \in {"unsettled", "settle", "lock"} => Unattempted(copy) /\ Pending(rec) /\ op \notin {"moving", "moved", "undo"}
  /\ sup \in {"settle", "lock"} /\ handover => hold
  /\ sup = "lock" /\ handover => seen
  /\ sup \in {"gated", "probing"} => hold

\* While a snapshot is at stake it holds every change but the late ones, and whoever serves has seen the hold.
QuietInv ==
  AtStake(rec) => control.writes <= rec.snap.writes + late /\ (consoles # {} => hold /\ seen)

SafeInv == TypeInv /\ CountInv /\ LockInv /\ StartInv /\ QuietInv

ReadWindow == {"start", "unsettled", "settle", "lock"}

\* Until a start saves the record it read over another one: what it read is still the record, or a way back of the
\* operator has begun since, which has nothing to put back; and what it probes is the version the record settles on.
WindowInv ==
  /\ sup \in ReadWindow /\ copy.phase = "applied" /\ copy.moved =>
       /\ ~copy.restored
       /\ \/ rec = copy /\ op = "idle" /\ ver = head
          \/ rec.phase = "rolling_back" /\ ~rec.due /\ Unattempted(copy)
  /\ sup = "start" /\ copy.phase = "rolling_back" =>
       rec.phase = "rolling_back" /\ (copy.movedBack => rec = copy /\ ver = head)
  /\ sup \in {"unsettled", "settle", "lock"} => copy.moved /\ (rec = copy => head = "new")
  /\ sup \in {"hold", "gated", "probing"} =>
       /\ op \in {"idle", "open"} /\ ver = head
       /\ \/ rec.phase = "applied" /\ rec.attempted /\ rec.moved /\ head = "new"
          \/ rec.phase = "rolling_back" /\ WayBackDone(rec)
  /\ Ungating /\ ~Pending(rec) => (ver = "new" <=> rec.phase = "confirmed")
  /\ Ungating /\ rec.phase = "applied" => ver = "old"

\* Where the checkout is when nothing is pending and nobody moves it.
HomeInv ==
  /\ rec.phase = "confirmed" => head = "new"
  /\ ~Pending(rec) /\ rec.phase # "confirmed" => head = "old"
  /\ op \in {"moving", "moved", "undo"} => rec.phase = "applied" /\ ~rec.moved
  /\ rec.phase = "applied" => ~rec.restored /\ (rec.attempted => rec.moved)
  /\ sup = "undo" => rec.phase = "applied" /\ ~rec.moved
  /\ sup = "cannot" => Pending(rec) /\ (rec.phase = "applied" => ~rec.moved)
  /\ back.step \in {"restore", "record"} => MovedBack(rec)
  /\ back.step = "done" /\ back.by # "operator" => rec.phase = "rolling_back" /\ WayBackDone(rec)
  /\ back.step \in {"move", "mark", "restore", "record", "error"} => rec.phase = "rolling_back"
  /\ back.step = "mark" => head = "old"
  /\ back.step = "lost" => control.lost
  /\ rec.phase = "rolling_back" /\ rec.movedBack => head = "old"
  /\ back.step \in {"move", "mark"} => ~rec.movedBack
  /\ back.step = "error" => ~rec.movedBack \/ RestoreLeft(rec)

\* Stores the new version migrated are its own, or will be put back, unless a snapshot was lost.
SchemaInv ==
  /\ control.schema = "new" /\ ~control.lost => AtStake(rec) \/ rec.phase = "confirmed"
  /\ AtStake(rec) /\ ~control.lost => rec.snap.schema = "old"
  /\ back.step = "record" => RestoreLeft(rec) /\ control.schema = rec.snap.schema

QuietWindow == WindowInv /\ HomeInv /\ SchemaInv /\ OldOpensOnlyItsOwn
IInv == SafeInv /\ (~stale => QuietWindow)

\* The groups of variables and the conditions every step below is about.
USE DEF tree, read, supervisor, traffic, holdv, bounds, ReadWindow, Ungating, Unattempted

-------------------------------------------------------------------------------
(* The writes of the record. *)

\* What no write of the phase, of the guard's attempt or of its failed moves touches.
Rest(q, r) ==
  /\ q.moved = r.moved /\ q.attempted = r.attempted /\ q.snap = r.snap /\ q.due = r.due
  /\ q.restored = r.restored /\ q.movedBack = r.movedBack /\ q.from = r.from

\* A write of those: the phase it leaves and the failed moves it counts.
Outcome(q, r, p, n) == q \in RecordType /\ Rest(q, r) /\ q.phase = p /\ q.fails = n

\* A way back begun from r.
Begun(q, r) ==
  /\ q \in RecordType /\ q.phase = "rolling_back" /\ q.from = r.phase /\ q.fails = 0 /\ ~q.movedBack
  /\ q.due = (r.phase = "applied" /\ r.attempted)
  /\ q.restored = r.restored /\ q.snap = r.snap /\ q.moved = r.moved /\ q.attempted = r.attempted

LEMMA PhaseNames == Phases = {"none"} \cup PENDING \cup {"confirmed", "rolled_back", "failed", "rollback_failed"}
                    /\ NoGuard \in GuardType /\ MaxAttempts \in Nat /\ MaxAttempts > 0
<1> QED
  BY UpgradeConstants DEF Phases, PENDING, NoGuard, GuardType

\* The writes of one field.
LEMMA Field ==
  ASSUME NEW r \in RecordType
  PROVE  /\ \A p \in Phases : Outcome([r EXCEPT !.phase = p], r, p, r.fails)
         /\ \A n \in Nat : Outcome([r EXCEPT !.fails = n], r, r.phase, n)
         /\ \A g \in GuardType : Outcome([r EXCEPT !.g = g], r, r.phase, r.fails) /\ [r EXCEPT !.g = g].g = g
<1>1. \A p \in Phases : Outcome([r EXCEPT !.phase = p], r, p, r.fails)
  BY DEF Outcome, Rest, RecordType
<1>2. \A n \in Nat : Outcome([r EXCEPT !.fails = n], r, r.phase, n)
  BY DEF Outcome, Rest, RecordType
<1>3. \A g \in GuardType : Outcome([r EXCEPT !.g = g], r, r.phase, r.fails) /\ [r EXCEPT !.g = g].g = g
  BY DEF Outcome, Rest, RecordType
<1> QED
  BY <1>1, <1>2, <1>3

\* The writes of two of them.
LEMMA TwoFields ==
  ASSUME NEW r \in RecordType, NEW p \in Phases, NEW n \in Nat
  PROVE  /\ Outcome([r EXCEPT !.phase = p, !.fails = n], r, p, n)
         /\ Outcome([r EXCEPT !.phase = p, !.g = NoGuard], r, p, r.fails)
<1>1. DEFINE q == [r EXCEPT !.phase = p]
<1>2. Outcome(q, r, p, r.fails)
  BY Field
<1>3. [r EXCEPT !.phase = p, !.fails = n] = [q EXCEPT !.fails = n]
      /\ [r EXCEPT !.phase = p, !.g = NoGuard] = [q EXCEPT !.g = NoGuard]
  OBVIOUS
<1>4. Outcome([q EXCEPT !.fails = n], q, p, n) /\ Outcome([q EXCEPT !.g = NoGuard], q, p, r.fails)
  <2>1. q \in RecordType /\ q.phase = p /\ q.fails = r.fails /\ NoGuard \in GuardType
    BY <1>2, PhaseNames DEF Outcome
  <2> HIDE DEF q
  <2> QED
    BY <2>1, Field
<1> QED
  BY <1>4 DEF Outcome, Rest

\* The guard's writes of its attempt.
LEMMA Attempts ==
  ASSUME NEW r \in RecordType
  PROVE  /\ Outcome(CloseAttempt(r), r, r.phase, r.fails)
         /\ Outcome(WithdrawAttempt(r), r, r.phase, r.fails)
         /\ ~Exhausted(r) => Outcome(Opened(r), r, r.phase, r.fails)
<1>1. r.g \in GuardType /\ r.phase \in Phases /\ Outcome(r, r, r.phase, r.fails)
  BY DEF RecordType, Outcome, Rest
<1>2. GuardRecord(r) \in GuardType
  <2>1. [NoGuard EXCEPT !.phase = r.phase] \in GuardType
    BY <1>1, PhaseNames DEF GuardType
  <2> QED
    BY <1>1, <2>1 DEF GuardRecord
<1>3. DEFINE shut == [r.g EXCEPT !.open = FALSE]
<1>4. shut \in GuardType /\ shut.attempts = r.g.attempts
  BY <1>1 DEF GuardType
<1>5. [r EXCEPT !.g.open = FALSE] = [r EXCEPT !.g = shut]
  OBVIOUS
<1>6. Outcome(CloseAttempt(r), r, r.phase, r.fails)
  BY <1>1, <1>4, <1>5, Field DEF CloseAttempt
<1>7. Outcome(WithdrawAttempt(r), r, r.phase, r.fails)
  <2>1. DEFINE q == [r EXCEPT !.g = shut]
               n == IF r.g.attempts = 0 THEN 0 ELSE r.g.attempts - 1
               g == [shut EXCEPT !.attempts = n]
  <2>2. Outcome(q, r, r.phase, r.fails) /\ q.g = shut
    BY <1>4, Field
  <2>3. n \in 0..MaxAttempts
    BY <1>1, PhaseNames DEF GuardType
  <2>4. g \in GuardType
    <3> HIDE DEF n, shut
    <3> QED
      BY <1>4, <2>3 DEF GuardType
  <2>5. [r EXCEPT !.g.open = FALSE, !.g.attempts = IF @ = 0 THEN 0 ELSE @ - 1] = [q EXCEPT !.g = g]
    <3>1. [r EXCEPT !.g.open = FALSE, !.g.attempts = IF @ = 0 THEN 0 ELSE @ - 1]
            = [q EXCEPT !.g.attempts = IF @ = 0 THEN 0 ELSE @ - 1]
      BY <1>5
    <3>2. [q EXCEPT !.g.attempts = IF @ = 0 THEN 0 ELSE @ - 1]
            = [q EXCEPT !.g = [q.g EXCEPT !.attempts = IF q.g.attempts = 0 THEN 0 ELSE q.g.attempts - 1]]
      OBVIOUS
    <3> QED
      OBVIOUS
  <2>6. Outcome([q EXCEPT !.g = g], q, r.phase, r.fails)
    <3> HIDE DEF q, g
    <3> QED
      BY <2>2, <2>4, Field DEF Outcome
  <2>7. Outcome([q EXCEPT !.g = g], r, r.phase, r.fails)
    <3> HIDE DEF q, g
    <3> QED
      BY <2>2, <2>6 DEF Outcome, Rest
  <2> QED
    BY <1>1, <2>7 DEF WithdrawAttempt
<1>8. ASSUME ~Exhausted(r) PROVE Outcome(Opened(r), r, r.phase, r.fails)
  <2>1. DEFINE c == GuardRecord(r)
  <2>2. c.attempts + 1 \in Nat /\ Counted(r).attempts = c.attempts + 1
    BY <1>2 DEF Counted, GuardType
  <2>3. c.attempts + 1 \in 0..MaxAttempts
    BY <1>8, <2>2, PhaseNames DEF Exhausted
  <2>4. Counted(r) \in GuardType
    BY <1>2, <2>3 DEF Counted, GuardType
  <2>5. [Counted(r) EXCEPT !.open = TRUE] \in GuardType
    BY <2>4 DEF GuardType
  <2> QED
    BY <2>5, Field DEF Opened
<1> QED
  BY <1>6, <1>7, <1>8

LEMMA Begins == ASSUME NEW r \in RecordType PROVE Begun(BeginWayBack(r), r)
<1>1. "rolling_back" \in Phases
  BY DEF Phases
<1>2. r.phase \in Phases /\ (r.phase = "applied" /\ r.attempted) \in BOOLEAN
  BY DEF RecordType
<1>3. BeginWayBack(r) \in RecordType
  BY <1>1, <1>2, PhaseNames DEF BeginWayBack, RecordType
<1> QED
  BY <1>3 DEF Begun, BeginWayBack, RecordType

\* What putting the stores back leaves, whole or in part, and what losing them does.
LEMMA PutsBack ==
  ASSUME TypeInv
  PROVE  /\ PutBack \in ControlType /\ PutBack.writes = rec.snap.writes /\ PutBack.schema = rec.snap.schema
         /\ PutBack.lost = control.lost
         /\ LET c == [control EXCEPT !.lost = TRUE]
            IN  c \in ControlType /\ c.writes = control.writes /\ c.schema = control.schema /\ c.lost
         /\ \A c \in HalfPutBack : /\ c \in ControlType /\ c.writes \in {control.writes, rec.snap.writes}
                                  /\ c.schema \in {control.schema, rec.snap.schema} /\ c.lost = control.lost
         /\ \A c \in HalfPutBack : LET d == [c EXCEPT !.lost = TRUE]
                                  IN  /\ d \in ControlType /\ d.writes \in {control.writes, rec.snap.writes}
                                      /\ d.schema \in {control.schema, rec.snap.schema} /\ d.lost
<1>1. control \in ControlType /\ rec.snap \in SnapType
  BY DEF TypeInv, StoreType, RecType, RecordType
<1>2. \A c \in HalfPutBack : /\ c \in ControlType /\ c.writes \in {control.writes, rec.snap.writes}
                           /\ c.schema \in {control.schema, rec.snap.schema} /\ c.lost = control.lost
  BY <1>1 DEF HalfPutBack, SnapType, ControlType
<1>3. ASSUME NEW c \in HalfPutBack
      PROVE  LET d == [c EXCEPT !.lost = TRUE]
             IN  /\ d \in ControlType /\ d.writes \in {control.writes, rec.snap.writes}
                 /\ d.schema \in {control.schema, rec.snap.schema} /\ d.lost
  BY <1>2 DEF ControlType
<1>4. /\ PutBack \in ControlType /\ PutBack.writes = rec.snap.writes /\ PutBack.schema = rec.snap.schema
      /\ PutBack.lost = control.lost
      /\ LET c == [control EXCEPT !.lost = TRUE]
         IN  c \in ControlType /\ c.writes = control.writes /\ c.schema = control.schema /\ c.lost
  BY <1>1 DEF PutBack, SnapType, ControlType
<1> QED
  BY <1>2, <1>3, <1>4

\* A guard or a way back that could not move the checkout.
NotMoved == sup = "cannot" \/ (sup = "guard" /\ back.step = "error")

\* What a step that counts at most a fault keeps of the counts.
LEMMA Counts ==
  ASSUME TypeInv, CountInv, Fault \/ UNCHANGED bounds, copy' \in {copy, rec},
         rec'.fails \in {rec.fails, copy.fails, 0}, NotMoved' => Fault \/ (NotMoved /\ rec'.fails = rec.fails)
  PROVE  CountInv'
<1>1. rec.fails \in Nat /\ copy.fails \in Nat
  BY DEF TypeInv, RecType, RecordType
<1> QED
  BY <1>1, UpgradeConstants DEF CountInv, NotMoved, Fault

-------------------------------------------------------------------------------
(* Every step keeps the invariant. *)

LEMMA BackMovesKeeps == ASSUME IInv, BackMoves PROVE IInv'
<1>1. RecType' /\ HoldType' /\ StartInv' /\ QuietInv'
  BY DEF BackMoves, IInv, SafeInv, TypeInv, RecType, HoldType, StartInv, QuietInv
<1>2. StoreType'
  BY DEF IInv, SafeInv, TypeInv, StoreType, RecType, ControlType, Versions, BackMoves, Fault, MoveCutShort
<1>3. StepType'
  BY DEF IInv, SafeInv, TypeInv, StepType, BackSteps, BackMoves
<1>4. CountInv'
  BY Counts DEF IInv, SafeInv, NotMoved, TypeInv, StepType, BackMoves
<1>5. LockInv'
  BY DEF IInv, SafeInv, TypeInv, StepType, LockInv, BackMoves
<1>6. ASSUME ~stale' PROVE OldOpensOnlyItsOwn'
  BY <1>6 DEF BackMoves, IInv, QuietWindow, OldOpensOnlyItsOwn
<1>7. ASSUME ~stale' PROVE WindowInv'
  BY <1>7 DEF BackMoves, IInv, SafeInv, StartInv, QuietWindow, WindowInv, HomeInv, Pending, PENDING, WayBackDone, MovedBack
<1>8. ASSUME ~stale' PROVE HomeInv'
  BY <1>8 DEF IInv, SafeInv, TypeInv, StepType, QuietWindow, HomeInv, Pending, PENDING, BackMoves
<1>9. ASSUME ~stale' PROVE SchemaInv'
  BY <1>9 DEF IInv, SafeInv, TypeInv, StepType, QuietWindow, SchemaInv, BackMoves
<1> QED
  BY <1>1, <1>2, <1>3, <1>4, <1>5, <1>6, <1>7, <1>8, <1>9 DEF IInv, SafeInv, TypeInv, QuietWindow

LEMMA BackMarksKeeps == ASSUME IInv, BackMarks PROVE IInv'
<1>1. /\ rec' \in RecordType /\ rec'.movedBack /\ rec'.phase = rec.phase /\ rec'.moved = rec.moved /\ rec'.attempted = rec.attempted /\ rec'.snap = rec.snap
      /\ rec'.due = rec.due /\ rec'.restored = rec.restored /\ rec'.from = rec.from /\ rec'.fails = rec.fails
  BY DEF IInv, SafeInv, TypeInv, RecType, BackMarks, RecordType
<1>2. StoreType' /\ HoldType'
  BY DEF BackMarks, IInv, SafeInv, TypeInv, StoreType, HoldType
<1>3. RecType'
  BY <1>1 DEF IInv, SafeInv, TypeInv, RecType, BackMarks
<1>4. StepType'
  BY DEF IInv, SafeInv, TypeInv, StepType, BackSteps, BackMarks, BackStep
<1>5. CountInv'
  BY Counts DEF IInv, SafeInv, NotMoved, TypeInv, BackMarks, BackStep
<1>6. LockInv'
  BY DEF IInv, SafeInv, TypeInv, LockInv, BackMarks, BackStep
<1>7. StartInv'
  BY DEF IInv, SafeInv, TypeInv, StartInv, AtStake, RestoreLeft, Pending, BackMarks
<1>8. QuietInv'
  BY DEF IInv, SafeInv, TypeInv, QuietInv, AtStake, RestoreLeft, BackMarks
<1>9. ASSUME ~stale' PROVE OldOpensOnlyItsOwn'
  BY <1>9 DEF BackMarks, IInv, QuietWindow, OldOpensOnlyItsOwn
<1>10. ASSUME ~stale' PROVE WindowInv'
  BY <1>1, <1>10 DEF BackMarks, IInv, SafeInv, StartInv, QuietWindow, WindowInv, HomeInv, Pending, PENDING, WayBackDone,
     MovedBack
<1>11. ASSUME ~stale' PROVE HomeInv'
  BY <1>11 DEF IInv, SafeInv, TypeInv, StepType, LockInv, QuietWindow, HomeInv, WayBackDone, MovedBack, BackMarks,
     BackStep
<1>12. ASSUME ~stale' PROVE SchemaInv'
  BY <1>12 DEF IInv, SafeInv, TypeInv, QuietWindow, SchemaInv, AtStake, RestoreLeft, BackMarks, BackStep
<1> QED
  BY <1>2, <1>3, <1>4, <1>5, <1>6, <1>7, <1>8, <1>9, <1>10, <1>11, <1>12 DEF IInv, SafeInv, TypeInv, QuietWindow

LEMMA BackRestoresKeeps == ASSUME IInv, BackRestores PROVE IInv'
<1>1. /\ back.step = "restore" /\ UNCHANGED <<head, tidy, hold, seen, running, consoles, supervisor, op>>
      /\ control' \in ControlType /\ late' \in {late, 0}
      /\ \/ /\ control'.writes = rec.snap.writes /\ control'.schema = rec.snap.schema /\ control'.lost = control.lost
            /\ back' = [back EXCEPT !.step = "record"] /\ rec' = rec /\ UNCHANGED bounds
         \/ /\ control'.writes = control.writes /\ control'.schema = control.schema /\ control'.lost
            /\ back' = [back EXCEPT !.step = "lost"] /\ Fault /\ Outcome(rec', rec, "rollback_failed", rec.fails)
            /\ late' = late
         \/ /\ control'.writes \in {control.writes, rec.snap.writes} /\ control'.lost = control.lost
            /\ control'.schema \in {control.schema, rec.snap.schema}
            /\ back' = [back EXCEPT !.step = "error"] /\ rec' = rec /\ Fault /\ late' = late
  <2>1. Outcome(SnapshotFailed(rec), rec, "rollback_failed", rec.fails)
    BY Field, PhaseNames DEF IInv, SafeInv, TypeInv, RecType, SnapshotFailed
  <2> QED
    BY <2>1, PutsBack DEF IInv, SafeInv, BackRestores
<1>2. HoldType'
  BY <1>1 DEF IInv, SafeInv, TypeInv, HoldType
<1>3. RecType'
  BY <1>1 DEF IInv, SafeInv, TypeInv, RecType, Outcome
<1>4. StoreType'
  BY <1>1 DEF IInv, SafeInv, TypeInv, StoreType
<1>5. StepType'
  BY <1>1 DEF IInv, SafeInv, TypeInv, StepType, BackSteps
<1>6. CountInv'
  BY <1>1, Counts DEF IInv, SafeInv, NotMoved, TypeInv, Outcome, StepType
<1>7. LockInv'
  BY <1>1 DEF IInv, SafeInv, TypeInv, StepType, LockInv, RestoreLeft, Outcome
<1>8. StartInv'
  BY <1>1 DEF IInv, SafeInv, TypeInv, StepType, LockInv, StartInv, RestoreLeft
<1>9. QuietInv'
  <2>1. late \in Nat /\ rec.snap.writes \in Nat /\ control.writes \in Nat
    BY DEF IInv, SafeInv, TypeInv, HoldType, RecType, RecordType, SnapType, StoreType, ControlType
  <2>2. CASE rec' = rec
    <3>1. AtStake(rec)' <=> AtStake(rec)
      BY <1>1, <2>2 DEF AtStake, RestoreLeft
    <3>2. control'.writes = rec.snap.writes \/ (control'.writes = control.writes /\ late' = late)
      BY <1>1, <2>2
    <3> QED
      BY <1>1, <2>1, <2>2, <3>1, <3>2 DEF IInv, SafeInv, QuietInv
  <2>3. CASE rec'.phase = "rollback_failed"
    BY <2>3 DEF QuietInv, AtStake
  <2> QED
    BY <1>1, <2>2, <2>3 DEF Outcome
<1>10. ASSUME ~stale' PROVE WindowInv'
  BY <1>1, <1>10 DEF IInv, SafeInv, TypeInv, StepType, LockInv, QuietWindow, WindowInv, RestoreLeft
<1>11. ASSUME ~stale' PROVE HomeInv'
  BY <1>1, <1>11 DEF IInv, SafeInv, TypeInv, StepType, LockInv, QuietWindow, HomeInv, Outcome, MovedBack
<1>12. ASSUME ~stale' PROVE SchemaInv'
  BY <1>1, <1>12 DEF IInv, SafeInv, TypeInv, StepType, LockInv, QuietWindow, HomeInv, SchemaInv, AtStake
<1>13. ASSUME ~stale' PROVE OldOpensOnlyItsOwn'
  BY <1>1, <1>13 DEF IInv, SafeInv, TypeInv, LockInv, QuietWindow, HomeInv, SchemaInv, OldOpensOnlyItsOwn, AtStake
<1> QED
  BY <1>2, <1>3, <1>4, <1>5, <1>6, <1>7, <1>8, <1>9, <1>10, <1>11, <1>12, <1>13 DEF IInv, SafeInv, TypeInv,
     QuietWindow

LEMMA BackRecordsKeeps == ASSUME IInv, BackRecords PROVE IInv'
<1>1. /\ rec' \in RecordType /\ rec'.restored /\ rec'.phase = rec.phase /\ rec'.moved = rec.moved /\ rec'.attempted = rec.attempted /\ rec'.snap = rec.snap
      /\ rec'.due = rec.due /\ rec'.movedBack = rec.movedBack /\ rec'.from = rec.from /\ rec'.fails = rec.fails
  BY DEF IInv, SafeInv, TypeInv, RecType, BackRecords, RecordType
<1>2. StoreType' /\ HoldType'
  BY DEF BackRecords, IInv, SafeInv, TypeInv, StoreType, HoldType
<1>3. RecType'
  BY <1>1 DEF IInv, SafeInv, TypeInv, RecType, BackRecords
<1>4. StepType'
  BY DEF IInv, SafeInv, TypeInv, StepType, BackSteps, BackRecords, BackStep
<1>5. CountInv'
  BY Counts DEF IInv, SafeInv, NotMoved, TypeInv, BackRecords, BackStep
<1>6. LockInv'
  BY DEF IInv, SafeInv, TypeInv, LockInv, BackRecords, BackStep
<1>7. StartInv'
  BY DEF IInv, SafeInv, TypeInv, StartInv, AtStake, RestoreLeft, Pending, BackRecords
<1>8. QuietInv'
  BY DEF IInv, SafeInv, TypeInv, QuietInv, AtStake, RestoreLeft, BackRecords
<1>9. ASSUME ~stale' PROVE OldOpensOnlyItsOwn'
  BY <1>9 DEF BackRecords, IInv, QuietWindow, OldOpensOnlyItsOwn
<1>10. ASSUME ~stale' PROVE WindowInv'
  <2>1. RestoreLeft(rec) /\ op # "open" /\ rec.phase = "rolling_back"
    BY <1>10 DEF BackRecords, IInv, SafeInv, LockInv, QuietWindow, SchemaInv, HomeInv, RestoreLeft
  <2>2. sup \notin ReadWindow \cup {"hold", "gated", "probing"}
    BY <2>1 DEF BackRecords, IInv, SafeInv, TypeInv, StepType, LockInv
  <2> QED
    BY <1>1, <1>10, <2>1, <2>2 DEF BackRecords, WindowInv, Pending, PENDING
<1>11. ASSUME ~stale' PROVE HomeInv'
  BY <1>11 DEF IInv, SafeInv, TypeInv, StepType, LockInv, QuietWindow, HomeInv, WayBackDone, MovedBack,
     BackRecords, BackStep
<1>12. ASSUME ~stale' PROVE SchemaInv'
  BY <1>12 DEF IInv, SafeInv, TypeInv, QuietWindow, SchemaInv, AtStake, BackRecords, BackStep
<1> QED
  BY <1>2, <1>3, <1>4, <1>5, <1>6, <1>7, <1>8, <1>9, <1>10, <1>11, <1>12 DEF IInv, SafeInv, TypeInv, QuietWindow

LEMMA GuardRunsKeeps == ASSUME IInv, GuardRuns PROVE IInv'
<1>1. /\ sup = "down" /\ UpgradeLockFree /\ ver' = head /\ UNCHANGED <<head, tidy, control, hold, seen, running, late, copy, raced, stale, op, bounds>>
      /\ handover' = (handover /\ head = "new") /\ consoles' = (IF handover /\ head # "new" THEN {} ELSE consoles)
      /\ \/ /\ Outcome(rec', rec, rec.phase, rec.fails) /\ back' = back
            /\ sup' = "main" \/ (sup' = "undo" /\ rec.phase = "applied" /\ ~rec.moved)
         \/ /\ rec.phase = "rolling_back" /\ rec' = rec
            /\ back' = [by |-> "guard", step |-> BackStep(rec)] /\ sup' = "guard"
         \/ /\ rec.phase = "applied" /\ back' = [by |-> "guard", step |-> BackStep(rec')] /\ sup' = "guard"
            /\ Begun(rec', rec)
  <2>1. Outcome(rec, rec, rec.phase, rec.fails) /\ Begun(BeginWayBack(rec), rec)
        /\ (~Exhausted(rec) => Outcome(Opened(rec), rec, rec.phase, rec.fails))
    BY Attempts, Begins DEF IInv, SafeInv, TypeInv, RecType, Outcome, Rest
  <2> QED
    BY <2>1 DEF GuardRuns, GuardGoesBack
<1>2. StoreType'
  BY <1>1 DEF IInv, SafeInv, TypeInv, StoreType
<1>3. RecType'
  BY <1>1 DEF IInv, SafeInv, TypeInv, RecType, Outcome, Begun
<1>4. HoldType'
  BY <1>1 DEF IInv, SafeInv, TypeInv, HoldType, StepType, Versions, UpgradeLockFree, BackStep, MovedBack
<1>5. StepType'
  BY <1>1 DEF IInv, SafeInv, TypeInv, StepType, StoreType, Sups, BackSteps, BackStep
<1>6. CountInv'
  BY <1>1, Counts DEF IInv, SafeInv, NotMoved, TypeInv, Outcome, Begun, BackStep
<1>7. LockInv'
  BY <1>1 DEF IInv, SafeInv, TypeInv, LockInv, Begun, UpgradeLockFree, BackStep
<1>8. StartInv'
  BY <1>1 DEF IInv, SafeInv, TypeInv, StepType, StartInv, Outcome, Rest, Begun
<1>9. QuietInv'
  BY <1>1 DEF IInv, SafeInv, TypeInv, RecType, StoreType, StepType, HoldType, LockInv, StartInv, QuietInv,
     AtStake, RestoreLeft, Pending, PENDING, Outcome, Rest, Begun, UpgradeLockFree, BackStep, MovedBack
<1>10. ASSUME ~stale' PROVE WindowInv'
  BY <1>1 DEF IInv, SafeInv, TypeInv, WindowInv, UpgradeLockFree
<1>11. ASSUME ~stale' PROVE HomeInv'
  BY <1>1, <1>11 DEF IInv, SafeInv, TypeInv, LockInv, QuietWindow, HomeInv, Pending, PENDING, Outcome, Rest,
     Begun, WayBackDone, MovedBack, UpgradeLockFree, BackStep
<1>12. ASSUME ~stale' PROVE SchemaInv'
  BY <1>1, <1>12 DEF IInv, SafeInv, TypeInv, RecordType, QuietWindow, HomeInv, SchemaInv, AtStake, RestoreLeft,
     Outcome, Rest, Begun, BackStep
<1>13. ASSUME ~stale' PROVE OldOpensOnlyItsOwn'
  BY <1>1, <1>13 DEF IInv, SafeInv, TypeInv, QuietWindow, OldOpensOnlyItsOwn
<1> QED
  BY <1>2, <1>3, <1>4, <1>5, <1>6, <1>7, <1>8, <1>9, <1>10, <1>11, <1>12, <1>13 DEF IInv, SafeInv, TypeInv,
     QuietWindow

LEMMA GuardUndoesKeeps == ASSUME IInv, GuardUndoes PROVE IInv'
<1>1. /\ sup = "undo" /\ UNCHANGED <<control, hold, seen, running, late, consoles, ver, copy, raced, stale, handover, op, back>>
      /\ \/ head' = "old" /\ tidy' = TRUE /\ sup' = "main" /\ UNCHANGED bounds /\ Outcome(rec', rec, "failed", 0)
         \/ Fault /\ MoveCutShort /\ sup' = "cannot" /\ rec' = rec
  <2>1. Outcome([rec EXCEPT !.phase = "failed", !.fails = 0], rec, "failed", 0)
    BY TwoFields, PhaseNames DEF IInv, SafeInv, TypeInv, RecType
  <2> QED
    BY <2>1 DEF GuardUndoes
<1>2. HoldType'
  BY <1>1 DEF IInv, SafeInv, TypeInv, HoldType
<1>3. RecType'
  BY <1>1 DEF IInv, SafeInv, TypeInv, RecType, Outcome
<1>4. StoreType'
  BY <1>1 DEF IInv, SafeInv, TypeInv, StoreType, RecType, ControlType, Versions, Fault, MoveCutShort
<1>5. StepType'
  BY <1>1 DEF IInv, SafeInv, TypeInv, StepType, Sups
<1>6. CountInv'
  BY <1>1, Counts DEF IInv, SafeInv, NotMoved, TypeInv, Outcome
<1>7. LockInv'
  BY <1>1 DEF IInv, SafeInv, TypeInv, StepType, LockInv
<1>8. StartInv'
  BY <1>1 DEF IInv, SafeInv, TypeInv, LockInv, StartInv
<1>9. QuietInv'
  BY <1>1 DEF IInv, SafeInv, TypeInv, QuietInv, AtStake, Outcome
<1>10. ASSUME ~stale' PROVE OldOpensOnlyItsOwn'
  BY <1>1, <1>10 DEF IInv, QuietWindow, OldOpensOnlyItsOwn
<1>11. ASSUME ~stale' PROVE WindowInv'
  BY <1>1 DEF IInv, SafeInv, TypeInv, LockInv, WindowInv
<1>12. ASSUME ~stale' PROVE HomeInv'
  BY <1>1, <1>12 DEF IInv, SafeInv, TypeInv, LockInv, QuietWindow, HomeInv, Pending, PENDING, Outcome
<1>13. ASSUME ~stale' PROVE SchemaInv'
  BY <1>1, <1>13 DEF IInv, SafeInv, TypeInv, QuietWindow, HomeInv, SchemaInv, AtStake, Outcome
<1> QED
  BY <1>2, <1>3, <1>4, <1>5, <1>6, <1>7, <1>8, <1>9, <1>10, <1>11, <1>12, <1>13 DEF IInv, SafeInv, TypeInv,
     QuietWindow

LEMMA GuardFinishesKeeps == ASSUME IInv, GuardFinishes PROVE IInv'
<1>1. /\ sup = "guard" /\ back' = NoBack /\ sup' = "main" /\ back.step \in {"done", "lost"}
      /\ UNCHANGED <<head, tidy, control, hold, seen, running, late, consoles, ver, copy, raced, stale, handover, op, bounds>>
      /\ \/ back.step = "lost" /\ rec' = rec
         \/ back.step = "done" /\ Outcome(rec', rec, "rollback_failed", 0)
         \/ back.step = "done" /\ Outcome(rec', rec, rec.phase, 0)
  <2>1. Outcome([rec EXCEPT !.phase = "rollback_failed", !.fails = 0], rec, "rollback_failed", 0)
    BY TwoFields, PhaseNames DEF IInv, SafeInv, TypeInv, RecType
  <2>2. ASSUME ~Exhausted(rec) PROVE Outcome([Opened(rec) EXCEPT !.fails = 0], rec, rec.phase, 0)
    <3>1. Outcome(Opened(rec), rec, rec.phase, rec.fails)
      BY <2>2, Attempts DEF IInv, SafeInv, TypeInv, RecType
    <3>2. Outcome([Opened(rec) EXCEPT !.fails = 0], Opened(rec), rec.phase, 0)
      BY <3>1, Field DEF Outcome
    <3> QED
      BY <3>1, <3>2 DEF Outcome, Rest
  <2> QED
    BY <2>1, <2>2 DEF GuardFinishes
<1>2. StoreType' /\ HoldType'
  BY <1>1 DEF IInv, SafeInv, TypeInv, StoreType, HoldType
<1>3. RecType'
  BY <1>1 DEF IInv, SafeInv, TypeInv, RecType, Outcome
<1>4. StepType'
  BY <1>1 DEF IInv, SafeInv, TypeInv, StepType, Sups, BackSteps, NoBack
<1>5. CountInv'
  BY <1>1, Counts DEF IInv, SafeInv, NotMoved, TypeInv, Outcome
<1>6. LockInv'
  BY <1>1 DEF IInv, SafeInv, TypeInv, LockInv, NoBack
<1>7. StartInv'
  BY <1>1 DEF IInv, SafeInv, TypeInv, LockInv, StartInv
<1>8. QuietInv'
  BY <1>1 DEF IInv, SafeInv, TypeInv, QuietInv, AtStake, RestoreLeft, Outcome, Rest
<1>9. ASSUME ~stale' PROVE OldOpensOnlyItsOwn'
  BY <1>1, <1>9 DEF IInv, QuietWindow, OldOpensOnlyItsOwn
<1>10. ASSUME ~stale' PROVE WindowInv'
  BY <1>1 DEF IInv, SafeInv, TypeInv, LockInv, WindowInv
<1>11. ASSUME ~stale' PROVE HomeInv'
  BY <1>1, <1>11 DEF IInv, SafeInv, TypeInv, LockInv, QuietWindow, HomeInv, Outcome, RestoreLeft, WayBackDone, MovedBack, NoBack
<1>12. ASSUME ~stale' PROVE SchemaInv'
  BY <1>1, <1>12 DEF IInv, SafeInv, TypeInv, LockInv, QuietWindow, HomeInv, SchemaInv, AtStake, RestoreLeft, Outcome, Rest, WayBackDone, NoBack
<1> QED
  BY <1>2, <1>3, <1>4, <1>5, <1>6, <1>7, <1>8, <1>9, <1>10, <1>11, <1>12 DEF IInv, SafeInv, TypeInv, QuietWindow

LEMMA GuardBackFailsKeeps == ASSUME IInv, GuardBackFails PROVE IInv'
<1>1. RecType' /\ StoreType' /\ HoldType' /\ QuietInv'
  BY DEF GuardBackFails, IInv, SafeInv, TypeInv, RecType, StoreType, HoldType, QuietInv
<1>2. StepType'
  BY DEF IInv, SafeInv, TypeInv, StepType, Sups, BackSteps, GuardBackFails, NoBack
<1>3. CountInv'
  BY Counts DEF IInv, SafeInv, NotMoved, TypeInv, GuardBackFails
<1>4. LockInv'
  BY DEF IInv, SafeInv, TypeInv, LockInv, GuardBackFails, NoBack
<1>5. StartInv'
  BY DEF IInv, SafeInv, TypeInv, StartInv, GuardBackFails
<1>6. ASSUME ~stale' PROVE OldOpensOnlyItsOwn'
  BY <1>6 DEF GuardBackFails, IInv, QuietWindow, OldOpensOnlyItsOwn
<1>7. ASSUME ~stale' PROVE WindowInv'
  BY DEF IInv, SafeInv, TypeInv, LockInv, WindowInv, GuardBackFails
<1>8. ASSUME ~stale' PROVE HomeInv'
  BY <1>8 DEF IInv, SafeInv, TypeInv, QuietWindow, HomeInv, Pending, PENDING, GuardBackFails, NoBack
<1>9. ASSUME ~stale' PROVE SchemaInv'
  BY <1>9 DEF IInv, SafeInv, TypeInv, QuietWindow, SchemaInv, GuardBackFails, NoBack
<1> QED
  BY <1>1, <1>2, <1>3, <1>4, <1>5, <1>6, <1>7, <1>8, <1>9 DEF IInv, SafeInv, TypeInv, QuietWindow

LEMMA CannotMoveKeeps == ASSUME IInv, CannotMove PROVE IInv'
<1>1. /\ sup = "cannot" /\ UNCHANGED <<head, tidy, hold, seen, running, ver, read, op, back>> /\ late' \in {late, 0}
      /\ \/ /\ sup' = "down" /\ handover' = FALSE /\ consoles' = {} /\ UNCHANGED <<control, late, bounds>>
            /\ Outcome(rec', rec, rec.phase, rec.fails + 1)
         \/ /\ sup' = "main" /\ UNCHANGED <<handover, consoles, control, late, bounds>> /\ head = "old"
            /\ rec.phase = "applied" /\ Outcome(rec', rec, "failed", rec.fails + 1)
         \/ /\ sup' = "main" /\ UNCHANGED <<handover, consoles, bounds>> /\ head = "old" /\ rec.phase = "rolling_back"
            /\ control' = (IF RestoreLeft(rec) THEN PutBack ELSE control)
            /\ rec' \in RecordType /\ rec'.phase = "rollback_failed" /\ rec'.fails = rec.fails + 1
         \/ /\ sup' = "main" /\ UNCHANGED <<handover, consoles, late>> /\ head = "old" /\ rec.phase = "rolling_back"
            /\ control' \in {[c EXCEPT !.lost = TRUE] : c \in HalfPutBack} /\ Fault
            /\ rec' \in RecordType /\ rec'.phase = "rollback_failed" /\ rec'.fails = rec.fails + 1
         \/ /\ sup' = "main" /\ UNCHANGED <<handover, consoles, control, late, bounds>> /\ head = "new"
            /\ rec.phase = "rolling_back" /\ rec.from = "confirmed"
            /\ Outcome(rec', rec, "confirmed", rec.fails + 1)
  <2>1. DEFINE r == [rec EXCEPT !.fails = @ + 1]
  <2>2. Outcome(r, rec, rec.phase, rec.fails + 1)
    <3>1. rec \in RecordType /\ rec.fails + 1 \in Nat
      BY DEF IInv, SafeInv, TypeInv, RecType, RecordType
    <3>2. r = [rec EXCEPT !.fails = rec.fails + 1]
      OBVIOUS
    <3> QED
      BY <3>1, Field
  <2>3. /\ sup = "cannot" /\ UNCHANGED <<head, tidy, hold, seen, running, ver, read, op, back>>
        /\ sup' = "down" => handover' = FALSE /\ consoles' = {}
        /\ sup' # "down" => UNCHANGED <<handover, consoles>>
    BY DEF CannotMove
  <2>4. \/ rec' = r /\ sup' = "down" /\ UNCHANGED <<control, late, bounds>>
        \/ /\ head = "old" /\ r.phase = "applied" /\ sup' = "main" /\ UNCHANGED <<control, late, bounds>>
           /\ rec' = [r EXCEPT !.phase = "failed"]
        \/ /\ head = "old" /\ r.phase = "rolling_back" /\ sup' = "main" /\ UNCHANGED bounds
           /\ rec' = [r EXCEPT !.phase = "rollback_failed", !.restored = r.due] /\ late' \in {late, 0}
           /\ control' = (IF RestoreLeft(r) THEN PutBack ELSE control)
        \/ /\ head = "old" /\ r.phase = "rolling_back" /\ sup' = "main" /\ Fault /\ UNCHANGED late
           /\ rec' = [r EXCEPT !.phase = "rollback_failed"]
           /\ control' \in {[c EXCEPT !.lost = TRUE] : c \in HalfPutBack}
        \/ /\ ConfirmedAgain(r) /\ sup' = "main" /\ UNCHANGED <<control, late, bounds>>
           /\ rec' = [r EXCEPT !.phase = "confirmed", !.g = NoGuard]
    BY DEF CannotMove
  <2> HIDE DEF r
  <2>5. r \in RecordType /\ r.phase = rec.phase /\ r.from = rec.from /\ r.fails = rec.fails + 1 /\ Rest(r, rec)
        /\ RestoreLeft(r) = RestoreLeft(rec)
    BY <2>2 DEF Outcome, Rest, RestoreLeft
  <2>6. ASSUME NEW p \in Phases PROVE Outcome([r EXCEPT !.phase = p], rec, p, rec.fails + 1)
    <3>1. Outcome([r EXCEPT !.phase = p], r, p, r.fails)
      BY <2>5, Field
    <3> QED
      BY <2>5, <3>1 DEF Outcome, Rest
  <2>7. Outcome([r EXCEPT !.phase = "confirmed", !.g = NoGuard], rec, "confirmed", rec.fails + 1)
    <3>1. Outcome([r EXCEPT !.phase = "confirmed", !.g = NoGuard], r, "confirmed", r.fails)
      BY <2>5, TwoFields, PhaseNames
    <3> QED
      BY <2>5, <3>1 DEF Outcome, Rest
  <2>8. LET q == [r EXCEPT !.phase = "rollback_failed", !.restored = r.due]
        IN  q \in RecordType /\ q.phase = "rollback_failed" /\ q.fails = rec.fails + 1
    BY <2>5 DEF RecordType, Phases
  <2>9. {"failed", "rollback_failed"} \subseteq Phases
    BY DEF Phases
  <2>10. CASE rec' = r /\ sup' = "down" /\ UNCHANGED <<control, late, bounds>>
    BY <2>2, <2>3, <2>10
  <2>11. CASE /\ head = "old" /\ r.phase = "applied" /\ sup' = "main" /\ UNCHANGED <<control, late, bounds>>
              /\ rec' = [r EXCEPT !.phase = "failed"]
    BY <2>3, <2>5, <2>6, <2>9, <2>11
  <2>12. CASE /\ head = "old" /\ r.phase = "rolling_back" /\ sup' = "main" /\ UNCHANGED bounds
              /\ rec' = [r EXCEPT !.phase = "rollback_failed", !.restored = r.due] /\ late' \in {late, 0}
              /\ control' = (IF RestoreLeft(r) THEN PutBack ELSE control)
    BY <2>3, <2>5, <2>8, <2>12
  <2>13. CASE /\ head = "old" /\ r.phase = "rolling_back" /\ sup' = "main" /\ Fault /\ UNCHANGED late
              /\ rec' = [r EXCEPT !.phase = "rollback_failed"]
              /\ control' \in {[c EXCEPT !.lost = TRUE] : c \in HalfPutBack}
    BY <2>3, <2>5, <2>6, <2>9, <2>13 DEF Outcome
  <2>14. CASE /\ ConfirmedAgain(r) /\ sup' = "main" /\ UNCHANGED <<control, late, bounds>>
              /\ rec' = [r EXCEPT !.phase = "confirmed", !.g = NoGuard]
    BY <2>3, <2>5, <2>7, <2>14 DEF ConfirmedAgain
  <2> QED
    BY <2>4, <2>10, <2>11, <2>12, <2>13, <2>14
<1>2. RecType'
  BY <1>1 DEF IInv, SafeInv, TypeInv, RecType, Outcome
<1>3. StoreType'
  <2>1. control' \in ControlType
    BY <1>1, PutsBack DEF IInv, SafeInv, TypeInv, StoreType, ControlType
  <2> QED
    BY <1>1, <2>1 DEF IInv, SafeInv, TypeInv, StoreType
<1>4. HoldType'
  BY <1>1 DEF IInv, SafeInv, TypeInv, HoldType
<1>5. StepType'
  <2>1. sup' \in {"down", "main"} /\ handover' \in {handover, FALSE} /\ UNCHANGED <<ver, raced, stale, op, back>>
    BY <1>1
  <2> QED
    BY <2>1 DEF IInv, SafeInv, TypeInv, StepType, Sups
<1>6. CountInv'
  <2>1. rec.fails \in Nat /\ copy.fails \in Nat /\ copy' = copy
    BY <1>1 DEF IInv, SafeInv, TypeInv, RecType, RecordType
  <2>2. rec'.fails = rec.fails + 1 /\ (Fault \/ UNCHANGED bounds) /\ sup' \in {"down", "main"} /\ sup = "cannot"
    BY <1>1 DEF Outcome
  <2> QED
    BY <2>1, <2>2, UpgradeConstants DEF IInv, SafeInv, CountInv, Fault
<1>7. LockInv'
  BY <1>1 DEF IInv, SafeInv, TypeInv, StepType, LockInv
<1>8. StartInv'
  BY <1>1 DEF IInv, SafeInv, TypeInv, LockInv, StartInv
<1>9. QuietInv'
  BY <1>1 DEF IInv, SafeInv, TypeInv, QuietInv, AtStake, RestoreLeft, Outcome, Rest
<1>10. ASSUME ~stale' PROVE WindowInv'
  BY <1>1 DEF IInv, SafeInv, TypeInv, LockInv, WindowInv
<1>11. ASSUME ~stale' PROVE HomeInv'
  BY <1>1, <1>11 DEF IInv, SafeInv, TypeInv, StepType, LockInv, QuietWindow, HomeInv, Pending, Outcome, Rest
<1>12. ASSUME ~stale' PROVE SchemaInv'
  <2>1. \/ control'.lost
        \/ RestoreLeft(rec) /\ rec.phase = "rolling_back" /\ control'.schema = rec.snap.schema /\ control'.lost = control.lost
        \/ control' = control
    BY <1>1, PutsBack DEF IInv, SafeInv, TypeInv, StoreType, ControlType
  <2>2. control'.schema = "new" /\ ~control'.lost => control' = control /\ AtStake(rec)
    BY <1>1, <1>12, <2>1 DEF IInv, QuietWindow, WindowInv, HomeInv, SchemaInv, AtStake, Pending, PENDING
  <2>3. control'.schema = "new" /\ ~control'.lost => AtStake(rec)' \/ rec'.phase = "confirmed"
    BY <1>1, <1>12, <2>2 DEF IInv, SafeInv, TypeInv, StoreType, ControlType, QuietWindow, HomeInv, SchemaInv,
       AtStake, RestoreLeft, Outcome, Rest, Pending, PENDING, PutBack
  <2>4. AtStake(rec)' /\ ~control'.lost => rec'.snap.schema = "old"
    BY <1>1, <1>12 DEF IInv, SafeInv, TypeInv, StoreType, ControlType, QuietWindow, HomeInv, SchemaInv, AtStake,
       RestoreLeft, Outcome, Rest, Pending, PENDING, PutBack
  <2>5. back'.step # "record"
    BY <1>1 DEF IInv, SafeInv, TypeInv, StepType, LockInv
  <2> QED
    BY <2>3, <2>4, <2>5 DEF SchemaInv
<1>13. ASSUME ~stale' PROVE OldOpensOnlyItsOwn'
  <2>1. \/ control' = control \/ consoles' = {} \/ control'.lost
        \/ RestoreLeft(rec) /\ rec.phase = "rolling_back" /\ control'.schema = rec.snap.schema /\ control'.lost = control.lost
    BY <1>1, PutsBack DEF IInv, SafeInv, TypeInv, ControlType
  <2> QED
    BY <1>1, <2>1, <1>13 DEF IInv, QuietWindow, SchemaInv, OldOpensOnlyItsOwn, AtStake
<1> QED
  BY <1>2, <1>3, <1>4, <1>5, <1>6, <1>7, <1>8, <1>9, <1>10, <1>11, <1>12, <1>13 DEF IInv, SafeInv, TypeInv,
     QuietWindow

LEMMA GuardMovedItKeeps == ASSUME IInv, GuardMovedIt PROVE IInv'
<1>1. RecType' /\ StoreType'
  BY DEF GuardMovedIt, IInv, SafeInv, TypeInv, RecType, StoreType
<1>2. HoldType'
  BY DEF IInv, SafeInv, TypeInv, HoldType, GuardMovedIt, Ends
<1>3. StepType'
  BY DEF IInv, SafeInv, TypeInv, StepType, StoreType, Sups, BackSteps, GuardMovedIt, Ends
<1>4. CountInv'
  BY Counts DEF IInv, SafeInv, NotMoved, TypeInv, GuardMovedIt, Ends
<1>5. LockInv'
  BY DEF IInv, SafeInv, TypeInv, LockInv, GuardMovedIt, Ends
<1>6. StartInv'
  BY DEF IInv, SafeInv, TypeInv, StartInv, GuardMovedIt, Ends
<1>7. QuietInv'
  BY DEF IInv, SafeInv, TypeInv, QuietInv, GuardMovedIt, Ends
<1>8. ASSUME ~stale' PROVE SchemaInv'
  BY <1>8 DEF GuardMovedIt, IInv, QuietWindow, SchemaInv
<1>9. ASSUME ~stale' PROVE WindowInv'
  BY DEF IInv, SafeInv, TypeInv, WindowInv, GuardMovedIt, Ends
<1>10. ASSUME ~stale' PROVE HomeInv'
  BY <1>10 DEF IInv, SafeInv, TypeInv, QuietWindow, HomeInv, WayBackDone, MovedBack, GuardMovedIt, Ends
<1>11. ASSUME ~stale' PROVE OldOpensOnlyItsOwn'
  BY DEF IInv, SafeInv, TypeInv, OldOpensOnlyItsOwn, GuardMovedIt, Ends
<1> QED
  BY <1>1, <1>2, <1>3, <1>4, <1>5, <1>6, <1>7, <1>8, <1>9, <1>10, <1>11 DEF IInv, SafeInv, TypeInv, QuietWindow

LEMMA MainRefusedKeeps == ASSUME IInv, MainRefused PROVE IInv'
<1>1. RecType' /\ StoreType'
  BY DEF MainRefused, IInv, SafeInv, TypeInv, RecType, StoreType
<1>2. HoldType'
  BY DEF IInv, SafeInv, TypeInv, HoldType, MainRefused, Ends
<1>3. StepType'
  BY DEF IInv, SafeInv, TypeInv, StepType, StoreType, Sups, BackSteps, MainRefused, Ends, Fault
<1>4. CountInv'
  BY Counts DEF IInv, SafeInv, NotMoved, TypeInv, MainRefused, Ends
<1>5. LockInv'
  BY DEF IInv, SafeInv, TypeInv, LockInv, MainRefused, Ends
<1>6. StartInv'
  BY DEF IInv, SafeInv, TypeInv, StartInv, MainRefused, Ends
<1>7. QuietInv'
  BY DEF IInv, SafeInv, TypeInv, QuietInv, MainRefused, Ends
<1>8. ASSUME ~stale' PROVE SchemaInv'
  BY <1>8 DEF MainRefused, IInv, QuietWindow, SchemaInv
<1>9. ASSUME ~stale' PROVE WindowInv'
  BY DEF IInv, SafeInv, TypeInv, WindowInv, MainRefused, Ends
<1>10. ASSUME ~stale' PROVE HomeInv'
  BY <1>10 DEF IInv, SafeInv, TypeInv, QuietWindow, HomeInv, WayBackDone, MovedBack, MainRefused, Ends
<1>11. ASSUME ~stale' PROVE OldOpensOnlyItsOwn'
  BY DEF IInv, SafeInv, TypeInv, OldOpensOnlyItsOwn, MainRefused, Ends
<1> QED
  BY <1>1, <1>2, <1>3, <1>4, <1>5, <1>6, <1>7, <1>8, <1>9, <1>10, <1>11 DEF IInv, SafeInv, TypeInv, QuietWindow

LEMMA TakeLocksKeeps == ASSUME IInv, TakeLocks PROVE IInv'
<1>1. StoreType' /\ HoldType' /\ QuietInv'
  BY DEF TakeLocks, IInv, SafeInv, TypeInv, StoreType, HoldType, QuietInv
<1>2. RecType'
  BY DEF IInv, SafeInv, TypeInv, RecType, TakeLocks
<1>3. StepType'
  BY DEF IInv, SafeInv, TypeInv, StepType, StoreType, Sups, TakeLocks
<1>4. CountInv'
  BY Counts DEF IInv, SafeInv, NotMoved, TypeInv, TakeLocks
<1>5. LockInv'
  BY DEF IInv, SafeInv, TypeInv, LockInv, TakeLocks, SupervisorLockFree, OperatorHoldsSupervisor
<1>6. StartInv'
  BY DEF IInv, SafeInv, TypeInv, StartInv, AtStake, Pending, PENDING, TakeLocks
<1>7. ASSUME ~stale' PROVE SchemaInv' /\ OldOpensOnlyItsOwn'
  BY <1>7 DEF TakeLocks, IInv, QuietWindow, SchemaInv, OldOpensOnlyItsOwn
<1>8. ASSUME ~stale' PROVE WindowInv'
  BY <1>8 DEF TakeLocks, IInv, SafeInv, TypeInv, StoreType, StepType, LockInv, StartInv, QuietWindow, WindowInv, HomeInv,
     Pending, PENDING, Versions, SupervisorLockFree, OperatorHoldsSupervisor
<1>9. ASSUME ~stale' PROVE HomeInv'
  BY <1>9 DEF IInv, SafeInv, TypeInv, QuietWindow, HomeInv, WayBackDone, MovedBack, TakeLocks
<1> QED
  BY <1>1, <1>2, <1>3, <1>4, <1>5, <1>6, <1>7, <1>8, <1>9 DEF IInv, SafeInv, TypeInv, QuietWindow

LEMMA BeforeStartKeeps == ASSUME IInv, BeforeStart PROVE IInv'
<1>1. RecType' /\ StoreType'
  BY DEF BeforeStart, IInv, SafeInv, TypeInv, RecType, StoreType
<1>2. HoldType'
  BY DEF IInv, SafeInv, TypeInv, HoldType, StepType, Versions, BeforeStart, Fails, Fault
<1>3. StepType'
  <2>1. UNCHANGED <<ver, raced, stale, op, back>> /\ handover' \in {handover, FALSE}
    BY DEF BeforeStart, Fails
  <2>2. sup' \in Sups
    BY DEF BeforeStart, Fails, Sups
  <2>3. StepType
    BY DEF IInv, SafeInv, TypeInv
  <2> QED
    BY <2>1, <2>2, <2>3 DEF StepType
<1>4. CountInv'
  BY Counts DEF IInv, SafeInv, NotMoved, TypeInv, BeforeStart, Fails
<1>5. LockInv'
  BY DEF IInv, SafeInv, TypeInv, LockInv, BeforeStart, Fails
<1>6. StartInv'
  BY DEF IInv, SafeInv, TypeInv, StartInv, Mismatch, BeforeStart, Fails
<1>7. QuietInv'
  BY DEF IInv, SafeInv, TypeInv, StartInv, QuietInv, BeforeStart, Fails
<1>8. ASSUME ~stale' PROVE SchemaInv'
  BY <1>8 DEF BeforeStart, IInv, QuietWindow, SchemaInv
<1>9. ASSUME ~stale' PROVE WindowInv'
  <2>1. WindowInv /\ HomeInv /\ op # "closed"
    BY <1>9 DEF BeforeStart, IInv, SafeInv, LockInv, QuietWindow
  <2>2. CASE sup' = "ungated" /\ ~Pending(copy)
    BY <2>1, <2>2 DEF BeforeStart, WindowInv
  <2>3. CASE sup' \in {"unsettled", "settle", "lock"} /\ Unattempted(copy) /\ ~Mismatch(copy)
    BY <2>1, <2>3 DEF BeforeStart, WindowInv, Mismatch
  <2>4. CASE sup' = "gated" /\ Pending(copy) /\ ~Unattempted(copy) /\ ~Mismatch(copy)
    <3>1. \/ copy.phase = "applied" /\ copy.attempted /\ copy.moved /\ head = "new"
          \/ copy.phase = "rolling_back" /\ WayBackDone(copy) /\ copy.movedBack
      BY <2>4 DEF Mismatch, Pending, PENDING, WayBackDone, MovedBack
    <3>2. rec = copy /\ ver = head
      BY <2>1, <3>1 DEF BeforeStart, WindowInv
    <3>3. op \in {"idle", "open"}
      BY <2>1, <3>1, <3>2 DEF BeforeStart, IInv, SafeInv, TypeInv, StepType, WindowInv, HomeInv
    <3> QED
      BY <2>4, <3>1, <3>2, <3>3 DEF BeforeStart, WindowInv, WayBackDone, MovedBack
  <2>5. CASE sup' = "failing"
    BY <2>5 DEF WindowInv
  <2> QED
    BY <2>2, <2>3, <2>4, <2>5 DEF BeforeStart, Fails
<1>10. ASSUME ~stale' PROVE HomeInv'
  BY <1>10 DEF IInv, SafeInv, TypeInv, QuietWindow, HomeInv, WayBackDone, MovedBack, BeforeStart, Fails
<1>11. ASSUME ~stale' PROVE OldOpensOnlyItsOwn'
  BY <1>11 DEF IInv, SafeInv, TypeInv, QuietWindow, OldOpensOnlyItsOwn, BeforeStart, Fails
<1> QED
  BY <1>1, <1>2, <1>3, <1>4, <1>5, <1>6, <1>7, <1>8, <1>9, <1>10, <1>11 DEF IInv, SafeInv, TypeInv, QuietWindow

LEMMA SaveRetryableKeeps == ASSUME IInv, SaveRetryable PROVE IInv'
<1>1. /\ sup = "unsettled" /\ sup' = "failing" /\ consoles' = {} /\ ~handover' /\ handover' \in BOOLEAN
      /\ UNCHANGED <<head, tidy, control, hold, seen, running, late, ver, copy, raced, stale, op, back, bounds>>
      /\ rec' = rec \/ (rec' = copy /\ UpgradeLockFree)
  BY DEF SaveRetryable, Fails
<1>2. copy \in RecordType /\ Unattempted(copy) /\ copy.phase = "applied" /\ ~copy.attempted
  BY <1>1 DEF IInv, SafeInv, TypeInv, RecType, StartInv
<1>3. StoreType' /\ RecType' /\ HoldType'
  BY <1>1 DEF IInv, SafeInv, TypeInv, StoreType, RecType, HoldType
<1>4. StepType'
  BY <1>1 DEF IInv, SafeInv, TypeInv, StepType, Sups
<1>5. CountInv'
  BY <1>1, Counts DEF IInv, SafeInv, NotMoved, TypeInv
<1>6. LockInv'
  BY <1>1, <1>2 DEF IInv, SafeInv, TypeInv, StepType, LockInv, UpgradeLockFree
<1>7. StartInv'
  BY <1>1, <1>2 DEF IInv, SafeInv, TypeInv, StartInv
<1>8. QuietInv'
  BY <1>1, <1>2 DEF IInv, SafeInv, TypeInv, QuietInv, AtStake, RestoreLeft
<1>9. ASSUME ~stale' PROVE WindowInv'
  BY <1>1 DEF WindowInv
<1>10. ASSUME ~stale' PROVE HomeInv'
  BY <1>1, <1>2, <1>10 DEF IInv, SafeInv, LockInv, QuietWindow, WindowInv, HomeInv, UpgradeLockFree, Pending, PENDING,
     WayBackDone, MovedBack
<1>11. ASSUME ~stale' PROVE SchemaInv'
  BY <1>1, <1>2, <1>11 DEF IInv, SafeInv, StartInv, LockInv, QuietWindow, WindowInv, SchemaInv, AtStake, RestoreLeft,
     UpgradeLockFree, Pending, PENDING
<1>12. ASSUME ~stale' PROVE OldOpensOnlyItsOwn'
  BY <1>1 DEF OldOpensOnlyItsOwn
<1> QED
  BY <1>3, <1>4, <1>5, <1>6, <1>7, <1>8, <1>9, <1>10, <1>11, <1>12 DEF IInv, SafeInv, TypeInv, QuietWindow

LEMMA HoldSettlesKeeps == ASSUME IInv, HoldSettles PROVE IInv'
<1>1. RecType' /\ StoreType' /\ HoldType' /\ QuietInv'
  BY DEF HoldSettles, IInv, SafeInv, TypeInv, RecType, StoreType, HoldType, QuietInv
<1>2. StepType'
  BY DEF IInv, SafeInv, TypeInv, StepType, Sups, HoldSettles
<1>3. CountInv'
  BY Counts DEF IInv, SafeInv, NotMoved, TypeInv, HoldSettles
<1>4. LockInv'
  BY DEF IInv, SafeInv, TypeInv, LockInv, HoldSettles
<1>5. StartInv'
  BY DEF IInv, SafeInv, TypeInv, StartInv, HoldSettles
<1>6. ASSUME ~stale' PROVE SchemaInv' /\ OldOpensOnlyItsOwn'
  BY <1>6 DEF HoldSettles, IInv, QuietWindow, SchemaInv, OldOpensOnlyItsOwn
<1>7. ASSUME ~stale' PROVE WindowInv'
  BY <1>7 DEF IInv, SafeInv, TypeInv, QuietWindow, WindowInv, HoldSettles
<1>8. ASSUME ~stale' PROVE HomeInv'
  BY <1>8 DEF HoldSettles, IInv, QuietWindow, HomeInv, RestoreLeft, WayBackDone, MovedBack
<1> QED
  BY <1>1, <1>2, <1>3, <1>4, <1>5, <1>6, <1>7, <1>8 DEF IInv, SafeInv, TypeInv, QuietWindow

LEMMA RecordAttemptKeeps == ASSUME IInv, RecordAttempt PROVE IInv'
<1>1. /\ sup = "lock" /\ UNCHANGED <<head, tidy, control, hold, seen, running, ver, copy, raced, op, back>>
      /\ stale' \in BOOLEAN /\ late' \in Nat
      /\ \/ /\ UpgradeLockFree /\ sup' = (IF handover THEN "gated" ELSE "hold") /\ UNCHANGED <<consoles, handover, bounds>>
            /\ rec' \in RecordType /\ rec'.attempted /\ late' = 0 /\ stale' = (stale \/ copy # rec)
            /\ rec'.snap.writes = control.writes /\ rec'.snap.schema = control.schema
            /\ rec'.phase = copy.phase /\ rec'.moved = copy.moved /\ rec'.due = copy.due
            /\ rec'.restored = copy.restored /\ rec'.movedBack = copy.movedBack /\ rec'.fails = copy.fails
         \/ Fails /\ UNCHANGED <<rec, late, stale>> /\ (Fault \/ UNCHANGED bounds)
  <2>1. [writes |-> control.writes, schema |-> control.schema] \in SnapType /\ copy \in RecordType
    BY DEF IInv, SafeInv, TypeInv, StoreType, ControlType, SnapType, RecType
  <2>2. LET q == Attempted(copy) IN
        /\ q \in RecordType /\ q.attempted /\ q.snap.writes = control.writes /\ q.snap.schema = control.schema
        /\ q.phase = copy.phase /\ q.moved = copy.moved /\ q.due = copy.due
        /\ q.restored = copy.restored /\ q.movedBack = copy.movedBack /\ q.fails = copy.fails
    BY <2>1 DEF Attempted, RecordType
  <2>3. stale' \in BOOLEAN /\ late' \in Nat
    <3>1. stale \in BOOLEAN /\ late \in Nat
      BY DEF IInv, SafeInv, TypeInv, StepType, HoldType
    <3>2. late' \in {late, 0} /\ (stale' = stale \/ stale' = (stale \/ copy # rec))
      BY DEF RecordAttempt
    <3>3. late' \in Nat
      BY <3>1, <3>2
    <3>4. (stale \/ copy # rec) \in BOOLEAN
      OBVIOUS
    <3> QED
      BY <3>1, <3>2, <3>3, <3>4
  <2>4. /\ sup = "lock" /\ UNCHANGED <<head, tidy, control, hold, seen, running, ver, copy, raced, op, back>>
        /\ \/ /\ UpgradeLockFree /\ sup' = (IF handover THEN "gated" ELSE "hold") /\ UNCHANGED <<consoles, handover, bounds>>
              /\ rec' = Attempted(copy) /\ late' = 0 /\ stale' = (stale \/ copy # rec)
           \/ Fails /\ UNCHANGED <<rec, late, stale>> /\ (Fault \/ UNCHANGED bounds)
    BY DEF RecordAttempt
  <2> QED
    BY <2>2, <2>3, <2>4
<1>2. StoreType'
  BY <1>1 DEF IInv, SafeInv, TypeInv, StoreType
<1>3. RecType'
  BY <1>1 DEF IInv, SafeInv, TypeInv, RecType
<1>4. HoldType'
  BY <1>1 DEF IInv, SafeInv, TypeInv, HoldType, StepType, Versions, Fails, Fault, UpgradeLockFree
<1>5. StepType'
  BY <1>1 DEF IInv, SafeInv, TypeInv, StepType, StoreType, Sups, BackSteps, Fails, Fault, UpgradeLockFree
<1>6. CountInv'
  BY <1>1, Counts DEF IInv, SafeInv, NotMoved, TypeInv, Fails
<1>7. LockInv'
  BY <1>1 DEF IInv, SafeInv, TypeInv, LockInv, Fails, UpgradeLockFree
<1>8. StartInv'
  BY <1>1 DEF IInv, SafeInv, TypeInv, StartInv, Fails
<1>9. QuietInv'
  BY <1>1 DEF IInv, SafeInv, TypeInv, StoreType, StartInv, QuietInv, ControlType, Fails
<1>10. ASSUME ~stale' PROVE WindowInv'
  BY <1>1, <1>10 DEF IInv, SafeInv, StartInv, QuietWindow, WindowInv, Fails
<1>11. ASSUME ~stale' PROVE HomeInv'
  <2>1. CASE rec' = rec
    BY <1>1, <1>11, <2>1 DEF IInv, QuietWindow, HomeInv, RestoreLeft, WayBackDone, MovedBack, Fails
  <2>2. CASE UpgradeLockFree /\ copy = rec
    BY <1>1, <1>11, <2>2 DEF IInv, SafeInv, LockInv, StartInv, QuietWindow, WindowInv, HomeInv, UpgradeLockFree, Pending,
       PENDING, WayBackDone, MovedBack, Fails
  <2> QED
    BY <1>1, <1>11, <2>1, <2>2
<1>12. ASSUME ~stale' PROVE SchemaInv'
  <2>1. CASE rec' = rec
    BY <1>1, <1>12, <2>1 DEF IInv, QuietWindow, SchemaInv, AtStake, RestoreLeft
  <2>2. CASE UpgradeLockFree /\ copy = rec /\ rec'.snap.schema = control.schema /\ rec'.attempted /\ rec'.phase = copy.phase
    <3>1. rec.phase = "applied" /\ ~rec.attempted
      BY <1>1, <2>2 DEF IInv, SafeInv, StartInv
    <3>2. control.schema \in Versions
      BY DEF IInv, SafeInv, TypeInv, StoreType, ControlType
    <3>3. back.step = "none"
      BY <2>2 DEF IInv, SafeInv, LockInv, UpgradeLockFree
    <3> QED
      BY <1>1, <2>2, <3>1, <3>2, <3>3, <1>12 DEF IInv, QuietWindow, SchemaInv, AtStake, Versions
  <2> QED
    BY <1>1, <1>12, <2>1, <2>2
<1>13. ASSUME ~stale' PROVE OldOpensOnlyItsOwn'
  BY <1>1, <1>13 DEF IInv, SafeInv, TypeInv, QuietWindow, OldOpensOnlyItsOwn, Fails
<1> QED
  BY <1>2, <1>3, <1>4, <1>5, <1>6, <1>7, <1>8, <1>9, <1>10, <1>11, <1>12, <1>13 DEF IInv, SafeInv, TypeInv,
     QuietWindow

LEMMA WriteHoldKeeps == ASSUME IInv, WriteHold PROVE IInv'
<1>1. RecType' /\ StoreType'
  BY DEF WriteHold, IInv, SafeInv, TypeInv, RecType, StoreType
<1>2. HoldType'
  BY DEF IInv, SafeInv, TypeInv, HoldType, WriteHold
<1>3. StepType'
  BY DEF IInv, SafeInv, TypeInv, StepType, Sups, WriteHold
<1>4. CountInv'
  BY Counts DEF IInv, SafeInv, NotMoved, TypeInv, WriteHold
<1>5. LockInv'
  BY DEF IInv, SafeInv, TypeInv, LockInv, WriteHold
<1>6. StartInv'
  BY DEF IInv, SafeInv, TypeInv, RecType, StartInv, WriteHold
<1>7. QuietInv'
  BY DEF IInv, SafeInv, TypeInv, QuietInv, WriteHold
<1>8. ASSUME ~stale' PROVE SchemaInv' /\ OldOpensOnlyItsOwn'
  BY <1>8 DEF WriteHold, IInv, QuietWindow, SchemaInv, OldOpensOnlyItsOwn
<1>9. ASSUME ~stale' PROVE WindowInv'
  BY <1>9 DEF IInv, SafeInv, TypeInv, QuietWindow, WindowInv, WayBackDone, MovedBack, WriteHold
<1>10. ASSUME ~stale' PROVE HomeInv'
  BY <1>10 DEF WriteHold, IInv, QuietWindow, HomeInv, RestoreLeft, WayBackDone, MovedBack
<1> QED
  BY <1>1, <1>2, <1>3, <1>4, <1>5, <1>6, <1>7, <1>8, <1>9, <1>10 DEF IInv, SafeInv, TypeInv, QuietWindow

LEMMA StartRuntimeKeeps == ASSUME IInv, StartRuntime PROVE IInv'
<1>1. control' = control \/ (ver = "new" /\ ~handover /\ control' \in ControlType /\ control'.writes = control.writes
                               /\ control'.schema = "new" /\ control'.lost = control.lost)
  BY DEF IInv, SafeInv, TypeInv, StoreType, ControlType, Versions, StartRuntime
<1>2. RecType'
  BY DEF StartRuntime, IInv, SafeInv, TypeInv, RecType
<1>3. StoreType'
  BY <1>1 DEF IInv, SafeInv, TypeInv, StoreType, StartRuntime
<1>4. HoldType'
  BY DEF IInv, SafeInv, TypeInv, HoldType, StepType, StartRuntime, Held
<1>5. StepType'
  BY DEF IInv, SafeInv, TypeInv, StepType, Sups, StartRuntime
<1>6. CountInv'
  BY Counts DEF IInv, SafeInv, NotMoved, TypeInv, StartRuntime
<1>7. LockInv'
  BY DEF IInv, SafeInv, TypeInv, LockInv, StartRuntime
<1>8. StartInv'
  BY DEF IInv, SafeInv, TypeInv, StartInv, StartRuntime
<1>9. QuietInv'
  BY <1>1 DEF IInv, SafeInv, TypeInv, RecType, StoreType, StepType, HoldType, LockInv, StartInv, QuietInv,
     AtStake, RestoreLeft, Pending, PENDING, StartRuntime, Held
<1>10. ASSUME ~stale' PROVE WindowInv'
  BY <1>10 DEF IInv, SafeInv, TypeInv, QuietWindow, WindowInv, WayBackDone, MovedBack, StartRuntime
<1>11. ASSUME ~stale' PROVE HomeInv'
  BY <1>1, <1>11 DEF StartRuntime, IInv, QuietWindow, HomeInv, RestoreLeft, WayBackDone, MovedBack
<1>12. ASSUME ~stale' PROVE SchemaInv'
  BY <1>1, <1>12 DEF IInv, SafeInv, TypeInv, QuietWindow, WindowInv, HomeInv, SchemaInv, AtStake, Pending,
     PENDING, WayBackDone, MovedBack, StartRuntime
<1>13. ASSUME ~stale' PROVE OldOpensOnlyItsOwn'
  BY <1>13 DEF IInv, SafeInv, TypeInv, StartInv, QuietWindow, WindowInv, HomeInv, SchemaInv, OldOpensOnlyItsOwn,
     AtStake, WayBackDone, StartRuntime
<1> QED
  BY <1>2, <1>3, <1>4, <1>5, <1>6, <1>7, <1>8, <1>9, <1>10, <1>11, <1>12, <1>13 DEF IInv, SafeInv, TypeInv,
     QuietWindow

LEMMA ConfirmKeeps == ASSUME IInv, Confirm PROVE IInv'
<1>1. /\ sup = "probing" /\ sup' = "confirmed" /\ consoles' = {ver} /\ handover' = FALSE
      /\ UNCHANGED <<head, tidy, control, hold, seen, running, late, ver, copy, raced, stale, op, back, bounds>>
      /\ \/ ~Pending(rec) /\ rec' = rec
         \/ rec.phase = "applied" /\ Outcome(rec', rec, "confirmed", rec.fails)
         \/ rec.phase = "rolling_back" /\ Outcome(rec', rec, "rolled_back", rec.fails)
  <2>1. Pending(rec) => \/ rec.phase = "applied" /\ Outcome(Verdict(rec), rec, "confirmed", rec.fails)
                        \/ rec.phase = "rolling_back" /\ Outcome(Verdict(rec), rec, "rolled_back", rec.fails)
    BY Field, PhaseNames DEF IInv, SafeInv, TypeInv, RecType, Verdict, Pending, PENDING
  <2> QED
    BY <2>1 DEF Confirm
<1>2. StoreType'
  BY <1>1 DEF IInv, SafeInv, TypeInv, StoreType
<1>3. RecType'
  BY <1>1 DEF IInv, SafeInv, TypeInv, RecType, Outcome
<1>4. HoldType'
  BY <1>1 DEF IInv, SafeInv, TypeInv, HoldType, StepType
<1>5. StepType'
  BY <1>1 DEF IInv, SafeInv, TypeInv, StepType, StoreType, Sups, BackSteps
<1>6. CountInv'
  BY <1>1, Counts DEF IInv, SafeInv, NotMoved, TypeInv, Outcome
<1>7. LockInv'
  BY <1>1 DEF IInv, SafeInv, TypeInv, StepType, LockInv, RestoreLeft, Outcome, Rest
<1>8. StartInv'
  BY <1>1 DEF IInv, SafeInv, TypeInv, StartInv, AtStake, Pending, PENDING, Outcome, Rest
<1>9. QuietInv'
  BY <1>1 DEF IInv, SafeInv, TypeInv, QuietInv, AtStake, Pending, PENDING, Outcome
<1>10. ASSUME ~stale' PROVE WindowInv'
  BY <1>1, <1>10 DEF IInv, SafeInv, TypeInv, QuietWindow, WindowInv
<1>11. ASSUME ~stale' PROVE HomeInv'
  <2>1. WindowInv /\ HomeInv /\ SchemaInv /\ LockInv
    BY <1>1, <1>11 DEF IInv, SafeInv, QuietWindow
  <2>2. back.step \notin {"move", "mark", "restore", "record", "error"} /\ op \in {"idle", "open"}
    BY <1>1, <2>1 DEF WindowInv, HomeInv, SchemaInv, LockInv, WayBackDone, MovedBack
  <2>3. back.step = "done" => back.by = "operator"
    BY <1>1, <2>1, <2>2 DEF IInv, SafeInv, TypeInv, StepType, LockInv
  <2>4. \/ rec'.phase = "confirmed" /\ head = "new"
        \/ rec'.phase = "rolled_back" /\ head = "old"
    <3>1. \/ rec.phase = "applied" /\ head = "new" /\ Pending(rec)
          \/ rec.phase = "rolling_back" /\ head = "old" /\ Pending(rec)
      BY <1>1, <2>1 DEF WindowInv, WayBackDone, MovedBack, Pending, PENDING
    <3> QED
      BY <1>1, <3>1 DEF Outcome
  <2> QED
    BY <1>1, <2>1, <2>2, <2>3, <2>4 DEF HomeInv, Pending, PENDING
<1>12. ASSUME ~stale' PROVE SchemaInv'
  BY <1>1, <1>12 DEF IInv, SafeInv, TypeInv, QuietWindow, WindowInv, HomeInv, SchemaInv, AtStake, Outcome, WayBackDone
<1>13. ASSUME ~stale' PROVE OldOpensOnlyItsOwn'
  BY <1>1, <1>13 DEF IInv, SafeInv, TypeInv, QuietWindow, WindowInv, SchemaInv, OldOpensOnlyItsOwn, AtStake,
     WayBackDone
<1> QED
  BY <1>2, <1>3, <1>4, <1>5, <1>6, <1>7, <1>8, <1>9, <1>10, <1>11, <1>12, <1>13 DEF IInv, SafeInv, TypeInv,
     QuietWindow

LEMMA ReleaseHoldKeeps == ASSUME IInv, ReleaseHold PROVE IInv'
<1>1. RecType' /\ StoreType'
  BY DEF ReleaseHold, IInv, SafeInv, TypeInv, RecType, StoreType
<1>2. HoldType'
  BY DEF IInv, SafeInv, TypeInv, HoldType, StepType, Versions, ReleaseHold
<1>3. StepType'
  BY DEF IInv, SafeInv, TypeInv, StepType, Sups, ReleaseHold
<1>4. CountInv'
  BY Counts DEF IInv, SafeInv, NotMoved, TypeInv, ReleaseHold
<1>5. LockInv'
  BY DEF IInv, SafeInv, TypeInv, LockInv, ReleaseHold
<1>6. StartInv'
  BY DEF IInv, SafeInv, TypeInv, StartInv, ReleaseHold
<1>7. QuietInv'
  BY DEF IInv, SafeInv, TypeInv, StartInv, QuietInv, ReleaseHold
<1>8. ASSUME ~stale' PROVE SchemaInv' /\ OldOpensOnlyItsOwn'
  BY <1>8 DEF ReleaseHold, IInv, QuietWindow, SchemaInv, OldOpensOnlyItsOwn
<1>9. ASSUME ~stale' PROVE WindowInv'
  BY DEF IInv, SafeInv, TypeInv, WindowInv, ReleaseHold
<1>10. ASSUME ~stale' PROVE HomeInv'
  BY <1>10 DEF IInv, SafeInv, TypeInv, QuietWindow, HomeInv, WayBackDone, MovedBack, ReleaseHold
<1> QED
  BY <1>1, <1>2, <1>3, <1>4, <1>5, <1>6, <1>7, <1>8, <1>9, <1>10 DEF IInv, SafeInv, TypeInv, QuietWindow

LEMMA StartUngatedKeeps == ASSUME IInv, StartUngated PROVE IInv'
<1>1. /\ sup = "ungated" /\ sup' = "serving" /\ consoles' = {ver} /\ running' = running \ {ver}
      /\ hold' = FALSE /\ seen' = FALSE /\ stale' = (stale \/ Pending(rec))
      /\ UNCHANGED <<head, tidy, late, ver, copy, raced, handover, op, back, bounds>>
      /\ control' = control \/ (ver = "new" /\ control' \in ControlType /\ control'.writes = control.writes
                               /\ control'.schema = "new" /\ control'.lost = control.lost)
      /\ \/ ~Pending(rec) /\ rec' = rec
         \/ rec.phase = "applied" /\ Outcome(rec', rec, "confirmed", rec.fails)
         \/ rec.phase = "rolling_back" /\ Outcome(rec', rec, "rolled_back", rec.fails)
  <2>1. Pending(rec) => \/ rec.phase = "applied" /\ Outcome(Verdict(rec), rec, "confirmed", rec.fails)
                        \/ rec.phase = "rolling_back" /\ Outcome(Verdict(rec), rec, "rolled_back", rec.fails)
    BY Field, PhaseNames DEF IInv, SafeInv, TypeInv, RecType, Verdict, Pending, PENDING
  <2>2. control' = control \/ (ver = "new" /\ control' \in ControlType /\ control'.writes = control.writes
                               /\ control'.schema = "new" /\ control'.lost = control.lost)
    BY DEF IInv, SafeInv, TypeInv, StoreType, ControlType, Versions, StartUngated
  <2> QED
    BY <2>1, <2>2 DEF StartUngated
<1>2. RecType'
  BY <1>1 DEF IInv, SafeInv, TypeInv, RecType, Outcome
<1>3. StoreType'
  BY <1>1 DEF IInv, SafeInv, TypeInv, StoreType
<1>4. HoldType'
  BY <1>1 DEF IInv, SafeInv, TypeInv, HoldType, StepType, Versions
<1>5. StepType'
  BY <1>1 DEF IInv, SafeInv, TypeInv, StepType, Sups
<1>6. CountInv'
  BY <1>1, Counts DEF IInv, SafeInv, NotMoved, TypeInv, Outcome
<1>7. LockInv'
  BY <1>1 DEF IInv, SafeInv, TypeInv, StepType, LockInv, RestoreLeft, Outcome, Rest
<1>8. StartInv'
  BY <1>1 DEF IInv, SafeInv, TypeInv, StartInv, AtStake, Outcome, Rest
<1>9. QuietInv'
  BY <1>1 DEF IInv, SafeInv, TypeInv, StartInv, QuietInv, AtStake, Outcome
<1>10. ASSUME ~stale' PROVE WindowInv'
  BY <1>1 DEF IInv, SafeInv, TypeInv, WindowInv
<1>11. ASSUME ~stale' PROVE HomeInv'
  BY <1>1, <1>11 DEF IInv, SafeInv, TypeInv, QuietWindow, WindowInv, HomeInv, Pending, PENDING
<1>12. ASSUME ~stale' PROVE SchemaInv'
  BY <1>1, <1>12 DEF IInv, SafeInv, TypeInv, QuietWindow, WindowInv, HomeInv, SchemaInv, Pending, PENDING
<1>13. ASSUME ~stale' PROVE OldOpensOnlyItsOwn'
  BY <1>1, <1>13 DEF IInv, SafeInv, TypeInv, StartInv, QuietWindow, WindowInv, HomeInv, SchemaInv, OldOpensOnlyItsOwn
<1> QED
  BY <1>2, <1>3, <1>4, <1>5, <1>6, <1>7, <1>8, <1>9, <1>10, <1>11, <1>12, <1>13 DEF IInv, SafeInv, TypeInv,
     QuietWindow

LEMMA StartFailsKeeps == ASSUME IInv, StartFails PROVE IInv'
<1>1. RecType' /\ StoreType'
  BY DEF StartFails, IInv, SafeInv, TypeInv, RecType, StoreType
<1>2. HoldType'
  BY DEF IInv, SafeInv, TypeInv, HoldType, StartFails, Fails
<1>3. StepType'
  BY DEF IInv, SafeInv, TypeInv, StepType, StoreType, Sups, BackSteps, StartFails, Fails, Fault
<1>4. CountInv'
  BY Counts DEF IInv, SafeInv, NotMoved, TypeInv, StartFails, Fails
<1>5. LockInv'
  BY DEF IInv, SafeInv, TypeInv, LockInv, StartFails, Fails
<1>6. StartInv'
  BY DEF IInv, SafeInv, TypeInv, StartInv, StartFails, Fails
<1>7. QuietInv'
  BY DEF IInv, SafeInv, TypeInv, QuietInv, StartFails, Fails
<1>8. ASSUME ~stale' PROVE SchemaInv'
  BY <1>8 DEF StartFails, IInv, QuietWindow, SchemaInv
<1>9. ASSUME ~stale' PROVE WindowInv'
  BY <1>9 DEF IInv, SafeInv, TypeInv, QuietWindow, WindowInv, StartFails, Fails
<1>10. ASSUME ~stale' PROVE HomeInv'
  BY <1>10 DEF IInv, SafeInv, TypeInv, QuietWindow, HomeInv, WayBackDone, MovedBack, StartFails, Fails
<1>11. ASSUME ~stale' PROVE OldOpensOnlyItsOwn'
  BY DEF IInv, SafeInv, TypeInv, OldOpensOnlyItsOwn, StartFails, Fails
<1> QED
  BY <1>1, <1>2, <1>3, <1>4, <1>5, <1>6, <1>7, <1>8, <1>9, <1>10, <1>11 DEF IInv, SafeInv, TypeInv, QuietWindow

LEMMA AfterStartKeeps == ASSUME IInv, AfterStart PROVE IInv'
<1>1. /\ sup = "failing" /\ UNCHANGED <<head, tidy, control, seen, running, late, ver, copy, raced, stale, op>> /\ (Fault \/ UNCHANGED bounds)
      /\ \/ /\ sup' = "down" /\ back' = back /\ consoles' = {} /\ handover' = FALSE /\ hold' = FALSE
            /\ rec' = rec \/ (NeitherStarted(rec) /\ Outcome(rec', rec, "rollback_failed", rec.fails))
         \/ /\ UpgradeLockFree /\ sup' = "back" /\ back' = [by |-> "start", step |-> BackStep(rec')]
            /\ UNCHANGED <<hold, consoles, handover, bounds>>
            /\ \/ rec.phase = "rolling_back" /\ rec' = rec
               \/ rec.phase = "applied" /\ Begun(rec', rec)
  <2>1. Begun(BeginWayBack(rec), rec) /\ Outcome([rec EXCEPT !.phase = "rollback_failed"], rec, "rollback_failed", rec.fails)
    BY Begins, Field, PhaseNames DEF IInv, SafeInv, TypeInv, RecType
  <2>2. rec.phase # "applied" /\ Pending(rec) => rec.phase = "rolling_back"
    BY DEF Pending, PENDING
  <2> QED
    BY <2>1, <2>2 DEF AfterStart, Ends
<1>2. StoreType'
  BY <1>1 DEF IInv, SafeInv, TypeInv, StoreType
<1>3. RecType'
  BY <1>1 DEF IInv, SafeInv, TypeInv, RecType, Outcome, Begun
<1>4. HoldType'
  BY <1>1 DEF IInv, SafeInv, TypeInv, HoldType, StepType, Versions, NeitherStarted, WayBackDone, MovedBack,
     BackStep, Fault, UpgradeLockFree
<1>5. StepType'
  <2>1. back' \in [by : {"none", "guard", "start", "operator"}, step : BackSteps]
    <3>1. BackStep(rec') \in BackSteps
      BY DEF BackStep, BackSteps
    <3>2. CASE back' = [by |-> "start", step |-> BackStep(rec')]
      BY <3>1, <3>2
    <3> QED
      BY <1>1, <3>2 DEF IInv, SafeInv, TypeInv, StepType
  <2> QED
    BY <1>1, <2>1 DEF IInv, SafeInv, TypeInv, StepType, Sups, StoreType
<1>6. CountInv'
  BY <1>1, Counts DEF IInv, SafeInv, NotMoved, TypeInv, Outcome, Begun
<1>7. LockInv'
  BY <1>1 DEF IInv, SafeInv, TypeInv, StepType, LockInv, RestoreLeft, Outcome, Rest, Begun, BackStep, UpgradeLockFree
<1>8. StartInv'
  BY <1>1 DEF IInv, SafeInv, TypeInv, StartInv, Outcome, Rest, Begun
<1>9. QuietInv'
  BY <1>1 DEF IInv, SafeInv, TypeInv, StepType, StartInv, QuietInv, AtStake, RestoreLeft, Outcome, Begun
<1>10. ASSUME ~stale' PROVE WindowInv'
  BY <1>1, <1>10 DEF IInv, SafeInv, TypeInv, QuietWindow, WindowInv
<1>11. ASSUME ~stale' PROVE HomeInv'
  <2>1. HomeInv /\ SchemaInv /\ LockInv
    BY <1>1, <1>11 DEF IInv, SafeInv, QuietWindow
  <2>2. CASE rec' = rec /\ back' = back
    BY <1>1, <2>1, <2>2 DEF HomeInv, RestoreLeft, WayBackDone, MovedBack
  <2>3. CASE NeitherStarted(rec) /\ Outcome(rec', rec, "rollback_failed", rec.fails) /\ back' = back
    <3>1. back.step \notin {"move", "mark", "restore", "record", "error"} /\ op \notin {"moving", "moved", "undo"}
      BY <1>1, <2>1, <2>3 DEF NeitherStarted, HomeInv, SchemaInv, LockInv, WayBackDone, MovedBack
    <3>2. back.step = "done" => back.by = "operator"
      BY <1>1, <2>1, <3>1 DEF IInv, SafeInv, TypeInv, StepType, LockInv
    <3> QED
      BY <1>1, <2>1, <2>3, <3>1, <3>2 DEF HomeInv, NeitherStarted, WayBackDone, MovedBack, Outcome, Pending, PENDING
  <2>4. CASE /\ UpgradeLockFree /\ sup' = "back" /\ back' = [by |-> "start", step |-> BackStep(rec')]
             /\ \/ rec.phase = "rolling_back" /\ rec' = rec
                \/ rec.phase = "applied" /\ Begun(rec', rec)
    <3>1. rec'.phase = "rolling_back" /\ op = "idle" /\ (rec'.movedBack => head = "old") /\ head' = head
      BY <1>1, <2>1, <2>4 DEF HomeInv, Begun, UpgradeLockFree
    <3> QED
      BY <1>1, <2>4, <3>1 DEF HomeInv, BackStep, RestoreLeft, WayBackDone, MovedBack, Pending, PENDING
  <2> QED
    BY <1>1, <2>2, <2>3, <2>4
<1>12. ASSUME ~stale' PROVE SchemaInv'
  BY <1>1, <1>12 DEF IInv, SafeInv, TypeInv, RecordType, QuietWindow, HomeInv, SchemaInv, AtStake, RestoreLeft,
     Outcome, Begun, WayBackDone, NeitherStarted, BackStep
<1>13. ASSUME ~stale' PROVE OldOpensOnlyItsOwn'
  BY <1>1 DEF IInv, SafeInv, TypeInv, StartInv, OldOpensOnlyItsOwn
<1> QED
  BY <1>2, <1>3, <1>4, <1>5, <1>6, <1>7, <1>8, <1>9, <1>10, <1>11, <1>12, <1>13 DEF IInv, SafeInv, TypeInv,
     QuietWindow

LEMMA StartBackEndsKeeps == ASSUME IInv, StartBackEnds PROVE IInv'
<1>1. RecType' /\ StoreType'
  BY DEF StartBackEnds, IInv, SafeInv, TypeInv, RecType, StoreType
<1>2. HoldType'
  BY DEF IInv, SafeInv, TypeInv, HoldType, StepType, Versions, StartBackEnds, Ends, NoBack
<1>3. StepType'
  BY DEF IInv, SafeInv, TypeInv, StepType, StoreType, Sups, BackSteps, StartBackEnds, Ends, NoBack
<1>4. CountInv'
  BY Counts DEF IInv, SafeInv, NotMoved, TypeInv, StartBackEnds, Ends
<1>5. LockInv'
  BY DEF IInv, SafeInv, TypeInv, LockInv, StartBackEnds, Ends, NoBack
<1>6. StartInv'
  BY DEF IInv, SafeInv, TypeInv, StartInv, StartBackEnds, Ends
<1>7. QuietInv'
  BY DEF IInv, SafeInv, TypeInv, QuietInv, StartBackEnds, Ends
<1>8. ASSUME ~stale' PROVE WindowInv'
  BY DEF IInv, SafeInv, TypeInv, LockInv, WindowInv, StartBackEnds, Ends
<1>9. ASSUME ~stale' PROVE HomeInv'
  BY <1>9 DEF IInv, SafeInv, TypeInv, QuietWindow, HomeInv, StartBackEnds, Ends, NoBack
<1>10. ASSUME ~stale' PROVE SchemaInv'
  BY <1>10 DEF IInv, SafeInv, TypeInv, QuietWindow, SchemaInv, StartBackEnds, NoBack
<1>11. ASSUME ~stale' PROVE OldOpensOnlyItsOwn'
  BY DEF IInv, SafeInv, TypeInv, OldOpensOnlyItsOwn, StartBackEnds, Ends
<1> QED
  BY <1>1, <1>2, <1>3, <1>4, <1>5, <1>6, <1>7, <1>8, <1>9, <1>10, <1>11 DEF IInv, SafeInv, TypeInv, QuietWindow

LEMMA StopKeeps == ASSUME IInv, Stop PROVE IInv'
<1>1. Outcome(rec', rec, rec.phase, rec.fails)
  BY Attempts DEF IInv, SafeInv, TypeInv, RecType, Stop
<1>2. StoreType'
  BY DEF Stop, IInv, SafeInv, TypeInv, StoreType
<1>3. RecType'
  BY <1>1 DEF IInv, SafeInv, TypeInv, RecType, Outcome, Stop
<1>4. HoldType'
  BY DEF IInv, SafeInv, TypeInv, HoldType, Stop, Ends
<1>5. StepType'
  BY <1>1 DEF IInv, SafeInv, TypeInv, StepType, StoreType, Sups, BackSteps, Stop, Ends
<1>6. CountInv'
  BY <1>1, Counts DEF IInv, SafeInv, NotMoved, TypeInv, Outcome, Stop, Ends
<1>7. LockInv'
  BY <1>1 DEF IInv, SafeInv, TypeInv, LockInv, RestoreLeft, Outcome, Rest, Stop, Ends
<1>8. StartInv'
  BY <1>1 DEF IInv, SafeInv, TypeInv, StartInv, Outcome, Rest, Stop, Ends
<1>9. QuietInv'
  BY <1>1 DEF IInv, SafeInv, TypeInv, QuietInv, AtStake, RestoreLeft, Outcome, Rest, Stop, Ends
<1>10. ASSUME ~stale' PROVE WindowInv'
  BY DEF IInv, SafeInv, TypeInv, WindowInv, Stop, Ends
<1>11. ASSUME ~stale' PROVE HomeInv'
  BY <1>1, <1>11 DEF IInv, SafeInv, TypeInv, QuietWindow, HomeInv, RestoreLeft, Pending, Outcome, Rest,
     WayBackDone, MovedBack, Stop, Ends
<1>12. ASSUME ~stale' PROVE SchemaInv'
  BY <1>1, <1>12 DEF IInv, SafeInv, TypeInv, QuietWindow, SchemaInv, AtStake, RestoreLeft, Outcome, Rest, Stop
<1>13. ASSUME ~stale' PROVE OldOpensOnlyItsOwn'
  BY DEF IInv, SafeInv, TypeInv, OldOpensOnlyItsOwn, Stop, Ends
<1> QED
  BY <1>2, <1>3, <1>4, <1>5, <1>6, <1>7, <1>8, <1>9, <1>10, <1>11, <1>12, <1>13 DEF IInv, SafeInv, TypeInv,
     QuietWindow

LEMMA HandsOverKeeps == ASSUME IInv, HandsOver PROVE IInv'
<1>1. RecType' /\ StoreType' /\ HoldType' /\ QuietInv'
  BY DEF HandsOver, IInv, SafeInv, TypeInv, RecType, StoreType, HoldType, QuietInv
<1>2. StepType'
  BY DEF IInv, SafeInv, TypeInv, StepType, Sups, HandsOver
<1>3. CountInv'
  BY Counts DEF IInv, SafeInv, NotMoved, TypeInv, HandsOver
<1>4. LockInv'
  BY DEF IInv, SafeInv, TypeInv, LockInv, HandsOver
<1>5. StartInv'
  BY DEF IInv, SafeInv, TypeInv, StartInv, HandsOver
<1>6. ASSUME ~stale' PROVE SchemaInv' /\ OldOpensOnlyItsOwn'
  BY <1>6 DEF HandsOver, IInv, QuietWindow, SchemaInv, OldOpensOnlyItsOwn
<1>7. ASSUME ~stale' PROVE WindowInv'
  BY DEF IInv, SafeInv, TypeInv, WindowInv, HandsOver
<1>8. ASSUME ~stale' PROVE HomeInv'
  BY <1>8 DEF IInv, SafeInv, TypeInv, QuietWindow, HomeInv, Pending, PENDING, HandsOver
<1> QED
  BY <1>1, <1>2, <1>3, <1>4, <1>5, <1>6, <1>7, <1>8 DEF IInv, SafeInv, TypeInv, QuietWindow

LEMMA HandoverFailsKeeps == ASSUME IInv, HandoverFails PROVE IInv'
<1>1. Outcome(rec', rec, rec.phase, rec.fails)
  BY Attempts DEF IInv, SafeInv, TypeInv, RecType, HandoverFails
<1>2. StoreType'
  BY DEF HandoverFails, IInv, SafeInv, TypeInv, StoreType
<1>3. RecType'
  BY <1>1 DEF IInv, SafeInv, TypeInv, RecType, Outcome, HandoverFails
<1>4. HoldType'
  BY DEF IInv, SafeInv, TypeInv, HoldType, HandoverFails, Ends
<1>5. StepType'
  BY <1>1 DEF IInv, SafeInv, TypeInv, StepType, StoreType, Sups, BackSteps, HandoverFails, UpgradeLockFree, Ends
<1>6. CountInv'
  BY <1>1, Counts DEF IInv, SafeInv, NotMoved, TypeInv, Outcome, HandoverFails, Ends
<1>7. LockInv'
  BY <1>1 DEF IInv, SafeInv, TypeInv, LockInv, RestoreLeft, Outcome, Rest, HandoverFails, Ends
<1>8. StartInv'
  BY <1>1 DEF IInv, SafeInv, TypeInv, StartInv, Outcome, Rest, HandoverFails, Ends
<1>9. QuietInv'
  BY <1>1 DEF IInv, SafeInv, TypeInv, QuietInv, AtStake, RestoreLeft, Outcome, Rest, HandoverFails, Ends
<1>10. ASSUME ~stale' PROVE WindowInv'
  BY DEF IInv, SafeInv, TypeInv, WindowInv, HandoverFails, Ends
<1>11. ASSUME ~stale' PROVE HomeInv'
  BY <1>1, <1>11 DEF IInv, SafeInv, TypeInv, QuietWindow, HomeInv, RestoreLeft, Pending, Outcome, Rest,
     WayBackDone, MovedBack, HandoverFails, Ends
<1>12. ASSUME ~stale' PROVE SchemaInv'
  BY <1>1, <1>12 DEF IInv, SafeInv, TypeInv, QuietWindow, SchemaInv, AtStake, RestoreLeft, Outcome, Rest,
     HandoverFails
<1>13. ASSUME ~stale' PROVE OldOpensOnlyItsOwn'
  BY DEF IInv, SafeInv, TypeInv, OldOpensOnlyItsOwn, HandoverFails, Ends
<1> QED
  BY <1>2, <1>3, <1>4, <1>5, <1>6, <1>7, <1>8, <1>9, <1>10, <1>11, <1>12, <1>13 DEF IInv, SafeInv, TypeInv,
     QuietWindow

LEMMA SupervisorDiesKeeps == ASSUME IInv, SupervisorDies PROVE IInv'
<1>1. RecType'
  BY DEF SupervisorDies, IInv, SafeInv, TypeInv, RecType
<1>2. StoreType'
  BY DEF IInv, SafeInv, TypeInv, StoreType, SupervisorDies, MoveCutShort
<1>3. HoldType'
  BY DEF IInv, SafeInv, TypeInv, HoldType, SupervisorDies, Ends
<1>4. StepType'
  BY DEF IInv, SafeInv, TypeInv, StepType, StoreType, Sups, BackSteps, SupervisorDies, Fault, MoveCutShort,
     NoBack, Ends
<1>5. CountInv'
  BY Counts DEF IInv, SafeInv, TypeInv, SupervisorDies
<1>6. LockInv'
  BY DEF IInv, SafeInv, TypeInv, LockInv, SupervisorDies, NoBack, Ends
<1>7. StartInv'
  BY DEF IInv, SafeInv, TypeInv, StartInv, SupervisorDies, Ends
<1>8. QuietInv'
  BY DEF IInv, SafeInv, TypeInv, QuietInv, SupervisorDies, Ends
<1>9. ASSUME ~stale' PROVE WindowInv'
  BY DEF IInv, SafeInv, TypeInv, WindowInv, SupervisorDies, Ends
<1>10. ASSUME ~stale' PROVE HomeInv'
  BY <1>10 DEF IInv, SafeInv, TypeInv, QuietWindow, HomeInv, Pending, PENDING, WayBackDone, MovedBack,
     SupervisorDies, NoBack, Ends
<1>11. ASSUME ~stale' PROVE SchemaInv'
  BY <1>11 DEF IInv, SafeInv, TypeInv, QuietWindow, SchemaInv, SupervisorDies, NoBack
<1>12. ASSUME ~stale' PROVE OldOpensOnlyItsOwn'
  BY DEF IInv, SafeInv, TypeInv, OldOpensOnlyItsOwn, SupervisorDies, Ends
<1> QED
  BY <1>1, <1>2, <1>3, <1>4, <1>5, <1>6, <1>7, <1>8, <1>9, <1>10, <1>11, <1>12 DEF IInv, SafeInv, TypeInv, QuietWindow

LEMMA ApplyKeeps == ASSUME IInv, Apply PROVE IInv'
<1>1. /\ CommandStarts /\ ~Pending(rec) /\ head = "old" /\ op' = "moving"
      /\ UNCHANGED <<head, tidy, control, holdv, consoles, sup, ver, copy, stale, handover, back, faults>> /\ raced'
      /\ applies < MaxApplies /\ applies' = applies + 1
      /\ rec' \in RecordType /\ rec'.phase = "applied" /\ ~rec'.moved /\ ~rec'.attempted /\ ~rec'.due /\ ~rec'.restored
      /\ rec'.fails = 0
  <2>1. [writes |-> control.writes, schema |-> control.schema] \in SnapType /\ NoRecord \in RecordType
    BY UpgradeConstants DEF IInv, SafeInv, TypeInv, StoreType, ControlType, SnapType, NoRecord, NoGuard,
       RecordType, GuardType, Phases, Versions
  <2>2. rec' \in RecordType /\ rec'.phase = "applied" /\ ~rec'.moved /\ ~rec'.attempted /\ ~rec'.due /\ ~rec'.restored
      /\ rec'.fails = 0
    BY <2>1 DEF Apply, RecordType, NoRecord, Phases
  <2> QED
    BY <2>2 DEF Apply, CommandStarts
<1>2. StoreType' /\ HoldType'
  BY <1>1 DEF IInv, SafeInv, TypeInv, StoreType, HoldType
<1>3. RecType'
  BY <1>1 DEF IInv, SafeInv, TypeInv, RecType
<1>4. StepType'
  BY <1>1 DEF IInv, SafeInv, TypeInv, StepType
<1>5. CountInv'
  BY <1>1, UpgradeConstants DEF IInv, SafeInv, TypeInv, RecType, RecordType, CountInv
<1>6. LockInv'
  BY <1>1 DEF IInv, SafeInv, TypeInv, LockInv, CommandStarts, UpgradeLockFree
<1>7. StartInv'
  BY <1>1 DEF IInv, SafeInv, TypeInv, StartInv, AtStake
<1>8. QuietInv'
  BY <1>1 DEF IInv, SafeInv, TypeInv, QuietInv, AtStake
<1>9. ASSUME ~stale' PROVE OldOpensOnlyItsOwn'
  BY <1>1, <1>9 DEF IInv, QuietWindow, OldOpensOnlyItsOwn
<1>10. ASSUME ~stale' PROVE WindowInv'
  <2>1. WindowInv /\ HomeInv /\ StartInv /\ ver \in Versions /\ ~Pending(rec) /\ head = "old" /\ rec'.phase = "applied" /\ ~rec'.moved
    BY <1>1, <1>10 DEF IInv, SafeInv, TypeInv, StepType, QuietWindow
  <2>2. sup \notin {"unsettled", "settle", "lock", "hold", "gated", "probing"} /\ rec.phase # "confirmed"
    BY <2>1 DEF StartInv, WindowInv, HomeInv, Pending, PENDING
  <2>3. ~(sup \in ReadWindow /\ copy.phase = "applied" /\ copy.moved) /\ ~(sup = "start" /\ copy.phase = "rolling_back")
    BY <2>1 DEF WindowInv, Pending, PENDING
  <2>4. Ungating => ver = "old"
    BY <2>1, <2>2 DEF WindowInv, Versions
  <2> QED
    BY <1>1, <2>1, <2>2, <2>3, <2>4 DEF WindowInv, Pending, PENDING
<1>11. ASSUME ~stale' PROVE HomeInv'
  BY <1>1, <1>11 DEF IInv, SafeInv, TypeInv, QuietWindow, HomeInv, Pending, PENDING
<1>12. ASSUME ~stale' PROVE SchemaInv'
  BY <1>1, <1>12 DEF IInv, SafeInv, TypeInv, QuietWindow, HomeInv, SchemaInv, AtStake, Pending, PENDING
<1> QED
  BY <1>2, <1>3, <1>4, <1>5, <1>6, <1>7, <1>8, <1>9, <1>10, <1>11, <1>12 DEF IInv, SafeInv, TypeInv, QuietWindow

LEMMA ApplyMovesKeeps == ASSUME IInv, ApplyMoves PROVE IInv'
<1>1. RecType' /\ HoldType' /\ QuietInv'
  BY DEF ApplyMoves, IInv, SafeInv, TypeInv, RecType, HoldType, QuietInv
<1>2. StoreType'
  BY DEF IInv, SafeInv, TypeInv, StoreType, RecType, ControlType, Versions, ApplyMoves, Fault, MoveCutShort
<1>3. StepType'
  BY DEF IInv, SafeInv, TypeInv, StepType, ApplyMoves
<1>4. CountInv'
  BY Counts DEF IInv, SafeInv, NotMoved, TypeInv, ApplyMoves
<1>5. LockInv'
  BY DEF IInv, SafeInv, TypeInv, LockInv, ApplyMoves
<1>6. StartInv'
  BY DEF IInv, SafeInv, TypeInv, StartInv, ApplyMoves
<1>7. ASSUME ~stale' PROVE SchemaInv' /\ OldOpensOnlyItsOwn'
  BY <1>7 DEF ApplyMoves, IInv, QuietWindow, SchemaInv, OldOpensOnlyItsOwn
<1>8. ASSUME ~stale' PROVE WindowInv'
  BY <1>8 DEF ApplyMoves, IInv, SafeInv, StartInv, QuietWindow, WindowInv, HomeInv, Pending, PENDING
<1>9. ASSUME ~stale' PROVE HomeInv'
  BY <1>9 DEF IInv, SafeInv, TypeInv, QuietWindow, HomeInv, Pending, PENDING, ApplyMoves
<1> QED
  BY <1>1, <1>2, <1>3, <1>4, <1>5, <1>6, <1>7, <1>8, <1>9 DEF IInv, SafeInv, TypeInv, QuietWindow

LEMMA ApplyMarksMovedKeeps == ASSUME IInv, ApplyMarksMoved PROVE IInv'
<1>1. /\ rec' \in RecordType /\ rec'.moved /\ rec'.phase = rec.phase /\ rec'.attempted = rec.attempted /\ rec'.snap = rec.snap
      /\ rec'.due = rec.due /\ rec'.restored = rec.restored /\ rec'.movedBack = rec.movedBack /\ rec'.from = rec.from /\ rec'.fails = rec.fails
  BY DEF IInv, SafeInv, TypeInv, RecType, ApplyMarksMoved, RecordType
<1>2. StoreType' /\ HoldType'
  BY DEF ApplyMarksMoved, IInv, SafeInv, TypeInv, StoreType, HoldType
<1>3. RecType'
  BY <1>1 DEF IInv, SafeInv, TypeInv, RecType, ApplyMarksMoved
<1>4. StepType'
  BY DEF IInv, SafeInv, TypeInv, StepType, ApplyMarksMoved
<1>5. CountInv'
  BY Counts DEF IInv, SafeInv, NotMoved, TypeInv, ApplyMarksMoved
<1>6. LockInv'
  BY DEF IInv, SafeInv, TypeInv, LockInv, ApplyMarksMoved
<1>7. StartInv'
  BY <1>1 DEF ApplyMarksMoved, IInv, SafeInv, StartInv, AtStake, RestoreLeft, Pending
<1>8. QuietInv'
  BY DEF IInv, SafeInv, TypeInv, QuietInv, AtStake, RestoreLeft, ApplyMarksMoved
<1>9. ASSUME ~stale' PROVE OldOpensOnlyItsOwn'
  BY <1>9 DEF ApplyMarksMoved, IInv, QuietWindow, OldOpensOnlyItsOwn
<1>10. ASSUME ~stale' PROVE WindowInv'
  BY <1>1, <1>10 DEF ApplyMarksMoved, IInv, SafeInv, StartInv, QuietWindow, WindowInv, HomeInv, Pending, PENDING
<1>11. ASSUME ~stale' PROVE HomeInv'
  BY <1>11 DEF IInv, SafeInv, TypeInv, LockInv, QuietWindow, HomeInv, Pending, PENDING, ApplyMarksMoved
<1>12. ASSUME ~stale' PROVE SchemaInv'
  BY <1>12 DEF IInv, SafeInv, TypeInv, QuietWindow, HomeInv, SchemaInv, AtStake, ApplyMarksMoved
<1> QED
  BY <1>2, <1>3, <1>4, <1>5, <1>6, <1>7, <1>8, <1>9, <1>10, <1>11, <1>12 DEF IInv, SafeInv, TypeInv, QuietWindow

LEMMA ApplyUndoesKeeps == ASSUME IInv, ApplyUndoes PROVE IInv'
<1>1. /\ op = "undo" /\ op' = "idle" /\ UNCHANGED <<control, hold, seen, running, late, consoles, sup, ver, copy, raced, stale, handover, back>>
      /\ \/ head' = "old" /\ tidy' = TRUE /\ UNCHANGED bounds /\ Outcome(rec', rec, "failed", rec.fails)
         \/ Fault /\ MoveCutShort /\ rec' = rec
  <2>1. Outcome([rec EXCEPT !.phase = "failed"], rec, "failed", rec.fails)
    BY Field, PhaseNames DEF IInv, SafeInv, TypeInv, RecType
  <2> QED
    BY <2>1 DEF ApplyUndoes
<1>2. HoldType'
  BY <1>1 DEF IInv, SafeInv, TypeInv, HoldType
<1>3. RecType'
  BY <1>1 DEF IInv, SafeInv, TypeInv, RecType, Outcome
<1>4. StoreType'
  BY <1>1 DEF IInv, SafeInv, TypeInv, StoreType, RecType, ControlType, Versions, Fault, MoveCutShort
<1>5. StepType'
  BY <1>1 DEF IInv, SafeInv, TypeInv, StepType
<1>6. CountInv'
  BY <1>1, Counts DEF IInv, SafeInv, NotMoved, TypeInv, Outcome
<1>7. LockInv'
  BY <1>1 DEF IInv, SafeInv, TypeInv, LockInv
<1>8. StartInv'
  BY <1>1 DEF IInv, SafeInv, StartInv, AtStake, Outcome, Pending, PENDING
<1>9. QuietInv'
  BY <1>1 DEF IInv, SafeInv, TypeInv, QuietInv, AtStake, Outcome
<1>10. ASSUME ~stale' PROVE OldOpensOnlyItsOwn'
  BY <1>1, <1>10 DEF IInv, QuietWindow, OldOpensOnlyItsOwn
<1>11. ASSUME ~stale' PROVE WindowInv'
  BY <1>1, <1>11 DEF IInv, SafeInv, StartInv, QuietWindow, WindowInv, HomeInv, Outcome, Pending, PENDING
<1>12. ASSUME ~stale' PROVE HomeInv'
  BY <1>1, <1>12 DEF IInv, SafeInv, TypeInv, LockInv, QuietWindow, HomeInv, Pending, PENDING, Outcome
<1>13. ASSUME ~stale' PROVE SchemaInv'
  BY <1>1, <1>13 DEF IInv, SafeInv, TypeInv, QuietWindow, HomeInv, SchemaInv, AtStake, Outcome
<1> QED
  BY <1>2, <1>3, <1>4, <1>5, <1>6, <1>7, <1>8, <1>9, <1>10, <1>11, <1>12, <1>13 DEF IInv, SafeInv, TypeInv,
     QuietWindow

LEMMA RollbackKeeps == ASSUME IInv, Rollback PROVE IInv'
<1>1. /\ CommandStarts /\ UNCHANGED <<head, tidy, control, holdv, consoles, sup, ver, copy, stale, handover, bounds>> /\ raced'
      /\ rec.phase = "applied" \/ (rec.phase = "confirmed" /\ control.schema = "old")
      /\ NeedsStop(rec) => SupervisorLockFree
      /\ op' = (IF NeedsStop(rec) THEN "closed" ELSE "open")
      /\ back' = [by |-> "operator", step |-> BackStep(rec')]
      /\ Begun(rec', rec)
  <2>1. Begun(BeginWayBack(rec), rec)
    BY Begins DEF IInv, SafeInv, TypeInv, RecType
  <2> QED
    BY <2>1 DEF Rollback, CommandStarts
<1>2. StoreType' /\ HoldType'
  BY <1>1 DEF IInv, SafeInv, TypeInv, StoreType, HoldType
<1>3. RecType'
  BY <1>1 DEF IInv, SafeInv, TypeInv, RecType, Begun
<1>4. StepType'
  BY <1>1 DEF IInv, SafeInv, TypeInv, StepType, BackSteps, BackStep
<1>5. CountInv'
  BY <1>1, Counts DEF IInv, SafeInv, NotMoved, TypeInv, Begun, CommandStarts, UpgradeLockFree
<1>6. LockInv'
  BY <1>1 DEF IInv, SafeInv, TypeInv, RecType, StepType, LockInv, StartInv, AtStake, RestoreLeft, Pending,
     PENDING, Begun, CommandStarts, UpgradeLockFree, NeedsStop, SupervisorLockFree, OperatorHoldsSupervisor,
     BackStep, MovedBack
<1>7. StartInv'
  <2>1. StartInv /\ rec'.phase = "rolling_back" /\ rec'.moved = rec.moved /\ Pending(rec') /\ raced' /\ op = "idle"
    BY <1>1 DEF IInv, SafeInv, Begun, Pending, PENDING, CommandStarts
  <2>2. AtStake(rec)' => NeedsStop(rec)
    BY <1>1 DEF AtStake, RestoreLeft, Begun, NeedsStop
  <2>3. NeedsStop(rec) => AtStake(rec)
    BY DEF AtStake, NeedsStop
  <2> QED
    BY <1>1, <2>1, <2>2, <2>3 DEF StartInv
<1>8. QuietInv'
  BY <1>1 DEF IInv, SafeInv, TypeInv, RecType, StoreType, StepType, HoldType, LockInv, StartInv, QuietInv,
     AtStake, RestoreLeft, Pending, PENDING, Begun, CommandStarts, UpgradeLockFree, NeedsStop, SupervisorLockFree,
     OperatorHoldsSupervisor, BackStep, MovedBack
<1>9. ASSUME ~stale' PROVE OldOpensOnlyItsOwn'
  BY <1>1, <1>9 DEF IInv, QuietWindow, OldOpensOnlyItsOwn
<1>10. ASSUME ~stale' PROVE WindowInv'
  <2>1. WindowInv /\ HomeInv /\ StartInv /\ op = "idle" /\ rec'.phase = "rolling_back"
    BY <1>1, <1>10 DEF IInv, SafeInv, QuietWindow, Begun, CommandStarts
  <2>2. sup \notin {"down", "main"} => ~NeedsStop(rec) /\ ~rec'.due
    BY <1>1 DEF NeedsStop, SupervisorLockFree, Begun
  <2>3. sup \notin {"hold", "gated", "probing"}
    BY <1>1, <2>1, <2>2 DEF WindowInv, NeedsStop
  <2>4. sup \in ReadWindow /\ copy.phase = "applied" /\ copy.moved => ~copy.restored /\ Unattempted(copy) /\ ~rec'.due
    BY <1>1, <2>1, <2>2 DEF WindowInv, NeedsStop
  <2>5. ~(sup = "start" /\ copy.phase = "rolling_back")
    BY <1>1, <2>1 DEF WindowInv
  <2>6. sup \in {"unsettled", "settle", "lock"} => copy.moved /\ rec' # copy
    BY <2>1 DEF WindowInv, StartInv
  <2> QED
    BY <1>1, <2>1, <2>3, <2>4, <2>5, <2>6 DEF WindowInv, Pending, PENDING
<1>11. ASSUME ~stale' PROVE HomeInv'
  BY <1>1 DEF IInv, SafeInv, TypeInv, HomeInv, Pending, PENDING, Begun, MovedBack, CommandStarts, UpgradeLockFree,
     BackStep
<1>12. ASSUME ~stale' PROVE SchemaInv'
  BY <1>1, <1>12 DEF IInv, SafeInv, TypeInv, RecordType, QuietWindow, HomeInv, SchemaInv, AtStake, RestoreLeft,
     Begun, BackStep
<1> QED
  BY <1>2, <1>3, <1>4, <1>5, <1>6, <1>7, <1>8, <1>9, <1>10, <1>11, <1>12 DEF IInv, SafeInv, TypeInv, QuietWindow

LEMMA RollbackEndsKeeps == ASSUME IInv, RollbackEnds PROVE IInv'
<1>1. RecType' /\ StoreType' /\ HoldType' /\ QuietInv'
  BY DEF RollbackEnds, IInv, SafeInv, TypeInv, RecType, StoreType, HoldType, QuietInv
<1>2. StepType'
  BY DEF IInv, SafeInv, TypeInv, StepType, BackSteps, RollbackEnds, NoBack
<1>3. CountInv'
  BY Counts DEF IInv, SafeInv, LockInv, NotMoved, TypeInv, RollbackEnds
<1>4. LockInv'
  BY DEF IInv, SafeInv, TypeInv, LockInv, RollbackEnds, NoBack
<1>5. StartInv'
  BY DEF IInv, SafeInv, TypeInv, StartInv, RollbackEnds
<1>6. ASSUME ~stale' PROVE OldOpensOnlyItsOwn'
  BY <1>6 DEF RollbackEnds, IInv, QuietWindow, OldOpensOnlyItsOwn
<1>7. ASSUME ~stale' PROVE WindowInv'
  BY <1>7 DEF RollbackEnds, IInv, QuietWindow, WindowInv, WayBackDone, MovedBack
<1>8. ASSUME ~stale' PROVE HomeInv'
  BY <1>8 DEF IInv, SafeInv, TypeInv, QuietWindow, HomeInv, RollbackEnds, NoBack
<1>9. ASSUME ~stale' PROVE SchemaInv'
  BY <1>9 DEF IInv, SafeInv, TypeInv, QuietWindow, SchemaInv, RollbackEnds, NoBack
<1> QED
  BY <1>1, <1>2, <1>3, <1>4, <1>5, <1>6, <1>7, <1>8, <1>9 DEF IInv, SafeInv, TypeInv, QuietWindow

LEMMA CommandDiesKeeps == ASSUME IInv, CommandDies PROVE IInv'
<1>1. RecType' /\ HoldType' /\ QuietInv'
  BY DEF CommandDies, IInv, SafeInv, TypeInv, RecType, HoldType, QuietInv
<1>2. StoreType'
  BY DEF IInv, SafeInv, TypeInv, StoreType, CommandDies, MoveCutShort
<1>3. StepType'
  BY DEF IInv, SafeInv, TypeInv, StepType, BackSteps, CommandDies, NoBack
<1>4. CountInv'
  BY Counts DEF IInv, SafeInv, TypeInv, CommandDies
<1>5. LockInv'
  BY DEF IInv, SafeInv, TypeInv, LockInv, CommandDies, NoBack
<1>6. StartInv'
  BY DEF IInv, SafeInv, TypeInv, StartInv, CommandDies
<1>7. ASSUME ~stale' PROVE OldOpensOnlyItsOwn'
  BY <1>7 DEF CommandDies, IInv, QuietWindow, OldOpensOnlyItsOwn
<1>8. ASSUME ~stale' PROVE WindowInv'
  <2>1. CASE UNCHANGED tree
    BY <1>8, <2>1 DEF CommandDies, IInv, SafeInv, TypeInv, StepType, LockInv, QuietWindow, WindowInv, WayBackDone, MovedBack
  <2>2. CASE op \in {"moving", "undo"}
    BY <1>8, <2>2 DEF CommandDies, IInv, SafeInv, StartInv, QuietWindow, WindowInv, HomeInv, Pending, PENDING
  <2>3. CASE back.step = "move"
    BY <1>8, <2>3 DEF CommandDies, IInv, SafeInv, StartInv, QuietWindow, WindowInv, HomeInv, Pending, PENDING, WayBackDone,
       MovedBack
  <2> QED
    BY <2>1, <2>2, <2>3 DEF CommandDies
<1>9. ASSUME ~stale' PROVE HomeInv'
  BY <1>9 DEF IInv, SafeInv, TypeInv, LockInv, QuietWindow, HomeInv, Pending, PENDING, CommandDies, NoBack
<1>10. ASSUME ~stale' PROVE SchemaInv'
  BY <1>10 DEF IInv, SafeInv, TypeInv, QuietWindow, SchemaInv, CommandDies, NoBack
<1> QED
  BY <1>1, <1>2, <1>3, <1>4, <1>5, <1>6, <1>7, <1>8, <1>9, <1>10 DEF IInv, SafeInv, TypeInv, QuietWindow

LEMMA AdmitChangeKeeps == ASSUME IInv, NEW v \in Versions, AdmitChange(v) PROVE IInv'
<1>1. RecType' /\ StoreType' /\ StepType' /\ CountInv' /\ LockInv' /\ StartInv' /\ QuietInv'
  BY DEF AdmitChange, IInv, SafeInv, TypeInv, RecType, StoreType, StepType, CountInv, LockInv, StartInv, QuietInv
<1>2. HoldType'
  BY DEF AdmitChange, IInv, SafeInv, TypeInv, HoldType
<1>3. ASSUME ~stale' PROVE WindowInv' /\ HomeInv' /\ SchemaInv' /\ OldOpensOnlyItsOwn'
  BY <1>3 DEF AdmitChange, IInv, QuietWindow, WindowInv, HomeInv, SchemaInv, OldOpensOnlyItsOwn, WayBackDone, MovedBack
<1> QED
  BY <1>1, <1>2, <1>3 DEF IInv, SafeInv, TypeInv, QuietWindow

LEMMA CommitChangeKeeps == ASSUME IInv, NEW v \in Versions, CommitChange(v) PROVE IInv'
<1>1. /\ control' \in ControlType /\ control'.writes = control.writes + 1 /\ control'.schema = control.schema
      /\ control'.lost = control.lost
  <2>1. control.writes + 1 \in 0..MaxWrites
    BY UpgradeConstants DEF IInv, SafeInv, TypeInv, StoreType, ControlType, CommitChange, MoreChanges
  <2> QED
    BY <2>1 DEF IInv, SafeInv, TypeInv, StoreType, ControlType, CommitChange
<1>2. RecType' /\ StepType' /\ CountInv' /\ LockInv' /\ StartInv'
  BY DEF CommitChange, IInv, SafeInv, TypeInv, RecType, StepType, CountInv, LockInv, StartInv
<1>3. StoreType'
  BY <1>1 DEF IInv, SafeInv, TypeInv, StoreType, CommitChange
<1>4. HoldType'
  BY DEF IInv, SafeInv, TypeInv, HoldType, CommitChange
<1>5. QuietInv'
  <2>1. consoles # {} /\ late' = (IF seen THEN late + 1 ELSE late) /\ UNCHANGED <<rec, hold, seen, consoles, head>>
    BY DEF CommitChange
  <2>2. late \in Nat /\ control.writes \in Nat /\ rec.snap.writes \in Nat
    BY DEF IInv, SafeInv, TypeInv, HoldType, StoreType, ControlType, RecType, RecordType, SnapType
  <2>3. AtStake(rec)' <=> AtStake(rec)
    BY <2>1 DEF AtStake, RestoreLeft
  <2> QED
    BY <1>1, <2>1, <2>2, <2>3 DEF IInv, SafeInv, QuietInv
<1>6. ASSUME ~stale' PROVE WindowInv' /\ HomeInv'
  BY <1>1, <1>6 DEF CommitChange, IInv, QuietWindow, WindowInv, HomeInv, WayBackDone, MovedBack
<1>7. ASSUME ~stale' PROVE SchemaInv' /\ OldOpensOnlyItsOwn'
  BY <1>1, <1>7 DEF CommitChange, IInv, QuietWindow, SchemaInv, OldOpensOnlyItsOwn, AtStake, RestoreLeft
<1> QED
  BY <1>2, <1>3, <1>4, <1>5, <1>6, <1>7 DEF IInv, SafeInv, TypeInv, QuietWindow

LEMMA SeeHoldKeeps == ASSUME IInv, SeeHold PROVE IInv'
<1>1. RecType' /\ StoreType' /\ StepType' /\ CountInv' /\ LockInv'
  BY DEF Changes, AdmitChange, CommitChange, SeeHold, IInv, SafeInv, TypeInv, RecType, StoreType, StepType,
     CountInv, LockInv
<1>2. HoldType'
  BY DEF IInv, SafeInv, TypeInv, HoldType, Changes, AdmitChange, CommitChange, SeeHold, Held
<1>3. StartInv'
  BY DEF IInv, SafeInv, TypeInv, StepType, StartInv, Changes, AdmitChange, CommitChange, SeeHold, Held
<1>4. QuietInv'
  BY DEF IInv, SafeInv, TypeInv, HoldType, QuietInv, AtStake, Pending, PENDING, Changes, AdmitChange,
     CommitChange, SeeHold, Held
<1>5. ASSUME ~stale' PROVE WindowInv' /\ HomeInv' /\ SchemaInv' /\ OldOpensOnlyItsOwn'
  BY <1>5 DEF Changes, AdmitChange, CommitChange, SeeHold, IInv, QuietWindow, WindowInv, HomeInv, SchemaInv,
     OldOpensOnlyItsOwn, WayBackDone, MovedBack
<1> QED
  BY <1>1, <1>2, <1>3, <1>4, <1>5 DEF IInv, SafeInv, TypeInv, QuietWindow

-------------------------------------------------------------------------------
LEMMA NextKeeps == ASSUME IInv, [Next]_vars PROVE IInv'
<1>1. CASE UNCHANGED vars
  BY <1>1 DEF vars, IInv, SafeInv, TypeInv, RecType, StoreType, HoldType, StepType, CountInv, LockInv, StartInv,
     QuietInv, QuietWindow, WindowInv, HomeInv, SchemaInv, OldOpensOnlyItsOwn, WayBackDone, MovedBack
<1>2. CASE WayBackSteps \/ GuardSteps
  BY <1>2, BackMovesKeeps, BackMarksKeeps, BackRestoresKeeps, BackRecordsKeeps, GuardRunsKeeps,
     GuardUndoesKeeps, GuardFinishesKeeps, GuardBackFailsKeeps, CannotMoveKeeps DEF WayBackSteps, GuardSteps
<1>3. CASE StartSteps
  BY <1>3, GuardMovedItKeeps, MainRefusedKeeps, TakeLocksKeeps, BeforeStartKeeps, SaveRetryableKeeps, HoldSettlesKeeps,
     RecordAttemptKeeps, WriteHoldKeeps, StartRuntimeKeeps, ConfirmKeeps, ReleaseHoldKeeps,
     StartUngatedKeeps, StartFailsKeeps, AfterStartKeeps, StartBackEndsKeeps DEF StartSteps
<1>4. CASE Endings \/ Commands
  BY <1>4, StopKeeps, HandsOverKeeps, HandoverFailsKeeps, SupervisorDiesKeeps, ApplyKeeps, ApplyMovesKeeps,
     ApplyMarksMovedKeeps, ApplyUndoesKeeps, RollbackKeeps, RollbackEndsKeeps, CommandDiesKeeps DEF Endings, Commands
<1> QED
  BY <1>1, <1>2, <1>3, <1>4, AdmitChangeKeeps, CommitChangeKeeps, SeeHoldKeeps DEF Next, Changes

LEMMA InitHolds == Init => IInv
<1> SUFFICES ASSUME Init PROVE IInv
  OBVIOUS
<1>1. NoRecord \in RecordType
  BY UpgradeConstants DEF NoRecord, NoGuard, RecordType, GuardType, SnapType, Phases, Versions
<1>2. NoRecord.phase = "none" /\ ~NoRecord.due /\ ~NoRecord.attempted /\ ~NoRecord.moved /\ NoRecord.fails = 0
  BY DEF NoRecord
<1>3. TypeInv
  <2>1. [writes |-> 0, schema |-> "old", lost |-> FALSE] \in ControlType
    BY UpgradeConstants DEF ControlType, Versions
  <2>2. NoBack \in [by : {"none", "guard", "start", "operator"}, step : BackSteps]
    BY DEF NoBack, BackSteps
  <2> QED
    BY <1>1, <2>1, <2>2 DEF Init, TypeInv, RecType, StoreType, HoldType, StepType, Versions, Sups
<1>4. CountInv /\ LockInv /\ StartInv /\ QuietInv
  BY <1>2, UpgradeConstants DEF Init, CountInv, LockInv, StartInv, QuietInv, AtStake, NoBack
<1>5. QuietWindow
  BY <1>2 DEF Init, QuietWindow, WindowInv, HomeInv, SchemaInv, OldOpensOnlyItsOwn, AtStake, NoBack
<1> QED
  BY <1>3, <1>4, <1>5 DEF IInv, SafeInv

\* The invariant holds in every behaviour of an upgrade, its way back and the starts that settle it.
THEOREM Inductive == Spec => []IInv
<1>1. Init => IInv
  BY InitHolds
<1>2. IInv /\ [Next]_vars => IInv'
  BY NextKeeps
<1> QED
  BY <1>1, <1>2, PTL DEF Spec

\* The record, the supervisor and the stores stay within their values; a record counts no more failed
\* moves than there were faults.
THEOREM TypeCorrect == Spec => []TypeOK
<1>1. IInv => TypeOK
  <2> SUFFICES ASSUME IInv PROVE TypeOK
    OBVIOUS
  <2>1. rec.fails \in 0..(MaxAttempts + MaxFaults) /\ faults \in 0..MaxFaults /\ applies \in 0..MaxApplies
    BY UpgradeConstants DEF IInv, SafeInv, TypeInv, RecType, RecordType, CountInv
  <2> QED
    BY <2>1 DEF IInv, SafeInv, TypeInv, RecType, RecordType, GuardType, StoreType, ControlType, HoldType,
       StepType, Sups, TypeOK
<1> QED
  BY <1>1, Inductive, PTL

\* No way back drops a change a console answered for, whoever goes back (the guard, a failed start, the
\* operator) and whatever died on the way, except the late ones: those that a request admitted before the hold
\* committed after the snapshot.
THEOREM NothingAcceptedIsLost == Spec => KeepsAccepted
<1>1. ASSUME IInv, [Next]_vars PROVE control'.writes + late >= control.writes
  <2> USE <1>1
  <2>1. control.writes \in Nat /\ rec.snap.writes \in Nat /\ late \in Nat
    <3>1. control.writes \in 0..MaxWrites /\ rec.snap.writes \in 0..MaxWrites /\ late \in Nat
      BY DEF IInv, SafeInv, TypeInv, StoreType, ControlType, RecType, RecordType, SnapType, HoldType
    <3> QED
      BY <3>1
  <2>2. ASSUME control'.writes \in {control.writes, rec.snap.writes}, AtStake(rec)
        PROVE  control'.writes + late >= control.writes
    <3>1. control.writes <= rec.snap.writes + late
      BY <2>2 DEF IInv, SafeInv, QuietInv
    <3> QED
      BY <2>1, <2>2, <3>1
  <2>3. CASE BackRestores
    <3>1. control'.writes \in {control.writes, rec.snap.writes}
      BY <2>3, PutsBack DEF BackRestores, IInv, SafeInv
    <3>2. AtStake(rec)
      BY <2>3 DEF BackRestores, IInv, SafeInv, LockInv, RestoreLeft, AtStake
    <3> QED
      BY <2>2, <3>1, <3>2
  <2>4. CASE CannotMove
    <3>1. \/ control' = control
          \/ RestoreLeft(rec) /\ rec.phase = "rolling_back"
             /\ (control' = PutBack \/ control' \in {[c EXCEPT !.lost = TRUE] : c \in HalfPutBack})
      <4>1. LET r == [rec EXCEPT !.fails = @ + 1] IN r.phase = rec.phase /\ r.due = rec.due /\ r.restored = rec.restored
        BY DEF IInv, SafeInv, TypeInv
      <4> QED
        BY <2>4, <4>1 DEF CannotMove, RestoreLeft
    <3>2. CASE control' = control
      BY <2>1, <3>2
    <3>3. CASE /\ RestoreLeft(rec) /\ rec.phase = "rolling_back"
               /\ (control' = PutBack \/ control' \in {[c EXCEPT !.lost = TRUE] : c \in HalfPutBack})
      <4>1. control'.writes \in {control.writes, rec.snap.writes}
        BY <3>3, PutsBack DEF IInv, SafeInv
      <4> QED
        BY <2>2, <3>3, <4>1 DEF AtStake
    <3> QED
      BY <3>1, <3>2, <3>3
  <2>5. ASSUME NEW v \in Versions, CommitChange(v) PROVE control'.writes + late >= control.writes
    <3>1. control'.writes = control.writes + 1
      BY <2>5 DEF CommitChange, IInv, SafeInv, TypeInv
    <3> QED
      BY <2>1, <3>1
  <2>6. CASE StartRuntime \/ StartUngated
    <3>1. control'.writes = control.writes
      <4>1. [control EXCEPT !.schema = "new"].writes = control.writes
        BY DEF IInv, SafeInv, TypeInv
      <4> QED
        BY <2>6, <4>1 DEF StartRuntime, StartUngated
    <3> QED
      BY <2>1, <3>1
  <2>7. CASE UNCHANGED control
    BY <2>1, <2>7
  <2>8. \/ BackRestores \/ CannotMove \/ (\E v \in Versions : CommitChange(v)) \/ StartRuntime \/ StartUngated
        \/ UNCHANGED control
    BY DEF vars, Next, WayBackSteps, GuardSteps, StartSteps, Endings, Commands, Changes, BackMoves, BackMarks,
       BackRecords, GuardRuns, GuardUndoes, GuardFinishes, GuardBackFails, GuardMovedIt, MainRefused,
       TakeLocks, BeforeStart, SaveRetryable, HoldSettles, RecordAttempt, WriteHold, Confirm, ReleaseHold, StartFails,
       AfterStart, StartBackEnds, Stop, HandsOver, HandoverFails, SupervisorDies, Apply, ApplyMoves,
       ApplyMarksMoved, ApplyUndoes, Rollback, RollbackEnds, CommandDies, SeeHold, AdmitChange
  <2> QED
    BY <2>3, <2>4, <2>5, <2>6, <2>7, <2>8
<1> QED
  BY <1>1, Inductive, PTL DEF Spec, KeepsAccepted

\* Until a start acts on a record a command has written since, the old version never serves stores the new one
\* migrated, unless a snapshot was lost and that recorded.
THEOREM OldServesItsOwn == Spec => []OldOpensOnlyItsOwn
<1>1. IInv => OldOpensOnlyItsOwn
  BY DEF IInv, QuietWindow, OldOpensOnlyItsOwn
<1> QED
  BY <1>1, Inductive, PTL

-------------------------------------------------------------------------------
(* What the checkout, the guard's attempt and a replaced supervisor's console are while a record is moved.  *)
(* WholeInv holds until a start is stale; the others, whatever the operator's commands do.                  *)

\* The console that serves on while its supervisor is replaced has nothing at stake that a guard could put back.
TakeoverInv == handover /\ sup \in {"down", "guard", "undo", "cannot", "main"} => ~AtStake(rec)

\* A clean stop leaves no open attempt.
StoppedInv == sup = "down" /\ lastEnd = "stopped" /\ rec.phase = "applied" => ~Crashed(rec)

\* A way back that recorded its move is on a whole previous version, and nothing moves the checkout again.
TreeInv ==
  /\ back.step \in {"mark", "restore", "record", "done"} => head = "old" /\ tidy
  /\ rec.phase = "rolling_back" /\ rec.movedBack => head = "old" /\ tidy
  /\ back.step = "move" => ~(rec.phase = "rolling_back" /\ rec.movedBack)
  /\ op \in {"moving", "moved", "undo"} => rec.phase # "rolling_back"
  /\ sup = "undo" => rec.phase = "applied"

\* What a gated start runs is whole.
WholeInv ==
  /\ sup \in {"unsettled", "settle", "lock"} /\ rec = copy => tidy
  /\ sup \in {"hold", "gated", "probing"} => tidy

MoveInv == TakeoverInv /\ StoppedInv /\ TreeInv /\ (~stale => WholeInv)

\* Every write of the record: it settles it, keeps its phase and what a way back reads, begins a way back, or
\* is one of six.
RecordWritten ==
  \/ rec' = rec
  \/ rec'.phase \notin PENDING
  \/ Rest(rec', rec) /\ rec'.phase = rec.phase /\ (GuardSteps \/ Stop \/ HandoverFails)
  \/ Begun(rec', rec) /\ UpgradeLockFree /\ (GuardRuns \/ AfterStart \/ Rollback) /\ rec.phase \in {"applied", "confirmed"}
  \/ BackMarks \/ BackRecords \/ Apply \/ ApplyMarksMoved \/ RecordAttempt \/ SaveRetryable

\* The phases of the writes that settle a record.
LEMMA SettledPhases ==
  ASSUME NEW r \in RecordType
  PROVE  /\ [r EXCEPT !.phase = "failed"].phase = "failed" /\ [r EXCEPT !.phase = "failed", !.fails = 0].phase = "failed"
         /\ [r EXCEPT !.phase = "rollback_failed"].phase = "rollback_failed"
         /\ [r EXCEPT !.phase = "rollback_failed", !.fails = 0].phase = "rollback_failed"
         /\ [r EXCEPT !.phase = "rollback_failed", !.restored = r.due].phase = "rollback_failed"
         /\ [r EXCEPT !.phase = "confirmed", !.g = NoGuard].phase = "confirmed"
<1> QED
  BY DEF RecordType

LEMMA RecordWrites == ASSUME IInv, Next PROVE RecordWritten
<1>1. rec \in RecordType /\ Begun(BeginWayBack(rec), rec)
  BY Begins DEF IInv, SafeInv, TypeInv, RecType
<1>2. \A p \in Phases : [rec EXCEPT !.phase = p].phase = p
  BY <1>1, Field DEF Outcome
<1>3. {"failed", "rollback_failed", "confirmed", "rolled_back"} \subseteq Phases \ PENDING
  BY DEF Phases, PENDING
<1>4. CASE GuardRuns
  <2>1. ~Exhausted(rec) => Rest(Opened(rec), rec) /\ Opened(rec).phase = rec.phase
    BY <1>1, Attempts DEF Outcome
  <2>2. GuardRuns => UpgradeLockFree
    BY DEF GuardRuns
  <2> QED
    BY <1>1, <1>4, <2>1, <2>2 DEF GuardRuns, GuardGoesBack, RecordWritten, GuardSteps
<1>5. CASE GuardUndoes
  <2>1. [rec EXCEPT !.phase = "failed", !.fails = 0].phase = "failed"
    BY <1>1, SettledPhases
  <2> QED
    BY <1>3, <1>5, <2>1 DEF GuardUndoes, RecordWritten
<1>6. CASE GuardFinishes
  <2>1. [rec EXCEPT !.phase = "rollback_failed", !.fails = 0].phase = "rollback_failed"
    BY <1>1, SettledPhases
  <2>2. ASSUME ~Exhausted(rec)
        PROVE  Rest([Opened(rec) EXCEPT !.fails = 0], rec) /\ [Opened(rec) EXCEPT !.fails = 0].phase = rec.phase
    <3>1. Outcome(Opened(rec), rec, rec.phase, rec.fails)
      BY <1>1, <2>2, Attempts
    <3>2. Outcome([Opened(rec) EXCEPT !.fails = 0], Opened(rec), rec.phase, 0)
      BY <3>1, Field DEF Outcome
    <3> QED
      BY <3>1, <3>2 DEF Outcome, Rest
  <2> QED
    BY <1>3, <1>6, <2>1, <2>2 DEF GuardFinishes, RecordWritten, GuardSteps
<1>7. CASE CannotMove
  <2>1. DEFINE r == [rec EXCEPT !.fails = @ + 1]
  <2>2. r \in RecordType /\ Rest(r, rec) /\ r.phase = rec.phase
    <3>1. rec.fails + 1 \in Nat
      BY <1>1 DEF RecordType
    <3> QED
      BY <1>1, <3>1, Field DEF Outcome
  <2>3. \/ rec' = r \/ rec' = [r EXCEPT !.phase = "failed"] \/ rec' = [r EXCEPT !.phase = "rollback_failed"]
        \/ rec' = [r EXCEPT !.phase = "rollback_failed", !.restored = r.due]
        \/ rec' = [r EXCEPT !.phase = "confirmed", !.g = NoGuard]
    BY <1>7 DEF CannotMove
  <2> HIDE DEF r
  <2>4. [r EXCEPT !.phase = "failed"].phase = "failed" /\ [r EXCEPT !.phase = "rollback_failed"].phase = "rollback_failed"
        /\ [r EXCEPT !.phase = "rollback_failed", !.restored = r.due].phase = "rollback_failed"
        /\ [r EXCEPT !.phase = "confirmed", !.g = NoGuard].phase = "confirmed"
    BY <2>2, SettledPhases
  <2> QED
    BY <1>3, <1>7, <2>2, <2>3, <2>4 DEF RecordWritten, GuardSteps
<1>8. CASE Confirm \/ StartUngated
  <2>1. Pending(rec) => Verdict(rec).phase \in {"confirmed", "rolled_back"}
    BY <1>1, <1>2, <1>3 DEF Verdict, Pending, PENDING
  <2> QED
    BY <1>3, <1>8, <2>1 DEF Confirm, StartUngated, RecordWritten
<1>9. CASE Stop \/ HandoverFails
  <2>1. /\ Rest(CloseAttempt(rec), rec) /\ CloseAttempt(rec).phase = rec.phase
        /\ Rest(WithdrawAttempt(rec), rec) /\ WithdrawAttempt(rec).phase = rec.phase
    BY <1>1, Attempts DEF Outcome
  <2> QED
    BY <1>9, <2>1 DEF Stop, HandoverFails, RecordWritten
<1>10. CASE BackRestores \/ ApplyUndoes
  <2>1. rec' \in {rec, [rec EXCEPT !.phase = "rollback_failed"], [rec EXCEPT !.phase = "failed"]}
    BY <1>10 DEF BackRestores, SnapshotFailed, ApplyUndoes
  <2>2. rec' = rec \/ rec'.phase \in {"failed", "rollback_failed"}
    BY <1>1, <2>1, SettledPhases
  <2> QED
    BY <1>3, <2>2 DEF RecordWritten
<1>11. CASE AfterStart
  <2>1. \/ rec' = rec
        \/ rec' = [rec EXCEPT !.phase = "rollback_failed"]
        \/ rec.phase = "applied" /\ UpgradeLockFree /\ rec' = BeginWayBack(rec)
    BY <1>11 DEF AfterStart
  <2>2. [rec EXCEPT !.phase = "rollback_failed"].phase = "rollback_failed"
    BY <1>1, SettledPhases
  <2> QED
    BY <1>1, <1>3, <1>11, <2>1, <2>2 DEF RecordWritten
<1>12. CASE Rollback
  <2>1. UpgradeLockFree /\ rec.phase \in {"applied", "confirmed"}
    BY <1>12 DEF Rollback, CommandStarts
  <2> QED
    BY <1>1, <1>12, <2>1 DEF Rollback, RecordWritten
<1>13. CASE BackMarks \/ BackRecords \/ Apply \/ ApplyMarksMoved \/ RecordAttempt \/ SaveRetryable
  BY <1>13 DEF RecordWritten
<1>14. CASE UNCHANGED rec
  BY <1>14 DEF RecordWritten
<1>15. \/ GuardRuns \/ GuardUndoes \/ GuardFinishes \/ CannotMove \/ Confirm \/ StartUngated \/ Stop \/ HandoverFails
       \/ AfterStart \/ BackRestores \/ ApplyUndoes \/ Rollback \/ BackMarks \/ BackRecords \/ Apply \/ ApplyMarksMoved
       \/ RecordAttempt \/ SaveRetryable \/ UNCHANGED rec
  BY DEF Next, WayBackSteps, GuardSteps, StartSteps, Endings, Commands, BackMoves, GuardBackFails, GuardMovedIt,
     MainRefused, TakeLocks, BeforeStart, HoldSettles, WriteHold, StartRuntime, ReleaseHold,
     StartFails, StartBackEnds, HandsOver, SupervisorDies, ApplyMoves, RollbackEnds, CommandDies, Changes,
     AdmitChange, CommitChange, SeeHold
<1> QED
  BY <1>4, <1>5, <1>6, <1>7, <1>8, <1>9, <1>10, <1>11, <1>12, <1>13, <1>14, <1>15

\* What a way back and a command write, field by field.
LEMMA FieldsWritten ==
  ASSUME IInv
  PROVE  /\ BackMarks => rec'.movedBack /\ rec'.phase = rec.phase /\ rec'.due = rec.due /\ rec'.restored = rec.restored
                         /\ rec'.attempted = rec.attempted /\ rec'.g = rec.g
         /\ BackRecords => rec'.movedBack = rec.movedBack /\ rec'.phase = rec.phase /\ rec'.due = rec.due
                           /\ rec'.restored /\ rec'.attempted = rec.attempted /\ rec'.g = rec.g
         /\ Apply => rec'.phase = "applied" /\ ~rec'.attempted /\ rec'.g = NoGuard
         /\ ApplyMarksMoved => rec'.movedBack = rec.movedBack /\ rec'.phase = rec.phase /\ rec'.due = rec.due
                               /\ rec'.restored = rec.restored /\ rec'.attempted = rec.attempted /\ rec'.g = rec.g
         /\ RecordAttempt => rec' = rec \/ (rec'.phase = "applied" /\ sup' \in {"gated", "hold"})
         /\ SaveRetryable => rec' \in {rec, copy} /\ copy.phase = "applied" /\ ~copy.attempted /\ sup' = "failing"
<1>1. rec \in RecordType /\ copy \in RecordType
  BY DEF IInv, SafeInv, TypeInv, RecType
<1>2. ASSUME BackMarks
      PROVE  rec'.movedBack /\ rec'.phase = rec.phase /\ rec'.due = rec.due /\ rec'.restored = rec.restored
             /\ rec'.attempted = rec.attempted /\ rec'.g = rec.g
  BY <1>1, <1>2 DEF BackMarks, RecordType
<1>3. ASSUME BackRecords
      PROVE  rec'.movedBack = rec.movedBack /\ rec'.phase = rec.phase /\ rec'.due = rec.due
             /\ rec'.restored /\ rec'.attempted = rec.attempted /\ rec'.g = rec.g
  BY <1>1, <1>3 DEF BackRecords, RecordType
<1>4. ASSUME Apply PROVE rec'.phase = "applied" /\ ~rec'.attempted /\ rec'.g = NoGuard
  BY <1>4 DEF Apply, NoRecord
<1>5. ASSUME ApplyMarksMoved
      PROVE  rec'.movedBack = rec.movedBack /\ rec'.phase = rec.phase /\ rec'.due = rec.due
             /\ rec'.restored = rec.restored /\ rec'.attempted = rec.attempted /\ rec'.g = rec.g
  BY <1>1, <1>5 DEF ApplyMarksMoved, RecordType
<1>6. ASSUME RecordAttempt PROVE rec' = rec \/ (rec'.phase = "applied" /\ sup' \in {"gated", "hold"})
  <2>1. copy.phase = "applied"
    BY <1>6 DEF RecordAttempt, IInv, SafeInv, StartInv
  <2>2. Attempted(copy).phase = copy.phase
    BY <1>1 DEF Attempted, RecordType
  <2> QED
    BY <1>6, <2>1, <2>2 DEF RecordAttempt
<1>7. ASSUME SaveRetryable PROVE rec' \in {rec, copy} /\ copy.phase = "applied" /\ ~copy.attempted /\ sup' = "failing"
  BY <1>7 DEF SaveRetryable, Fails, IInv, SafeInv, StartInv
<1> QED
  BY <1>2, <1>3, <1>4, <1>5, <1>6, <1>7

LEMMA TakeoverKeeps == ASSUME IInv, TakeoverInv, Next PROVE TakeoverInv'
<1> SUFFICES ASSUME handover', sup' \in {"down", "guard", "undo", "cannot", "main"} PROVE ~AtStake(rec)'
  BY DEF TakeoverInv
<1>1. CASE HandsOver
  BY <1>1 DEF HandsOver, IInv, SafeInv, StartInv, AtStake, RestoreLeft
<1>2. CASE WayBackSteps \/ GuardSteps \/ Commands \/ Changes
  <2>1. handover /\ sup \in {"down", "guard", "undo", "cannot", "main"}
    BY <1>2 DEF WayBackSteps, GuardSteps, Commands, BackMoves, BackMarks, BackRestores, BackRecords, GuardRuns,
       GuardUndoes, GuardFinishes, GuardBackFails, CannotMove, CommandStarts, Apply, ApplyMoves, ApplyMarksMoved, ApplyUndoes,
       Rollback, RollbackEnds, CommandDies, Changes, AdmitChange, CommitChange, SeeHold
  <2>2. ~AtStake(rec)
    BY <2>1 DEF TakeoverInv
  <2>3. CASE rec' = rec \/ rec'.phase \notin PENDING
    BY <2>2, <2>3 DEF AtStake, RestoreLeft, PENDING
  <2>4. CASE Rest(rec', rec) /\ rec'.phase = rec.phase
    BY <2>2, <2>4 DEF AtStake, RestoreLeft, Rest
  <2>5. CASE Begun(rec', rec)
    BY <2>2, <2>5 DEF AtStake, RestoreLeft, Begun
  <2>6. CASE BackMarks \/ BackRecords \/ Apply \/ ApplyMarksMoved \/ RecordAttempt \/ SaveRetryable
    <3>1. ~RecordAttempt /\ ~SaveRetryable
      BY <2>1 DEF RecordAttempt, SaveRetryable
    <3> QED
      BY <2>2, <2>6, <3>1, FieldsWritten DEF AtStake, RestoreLeft
  <2> QED
    BY <2>3, <2>4, <2>5, <2>6, RecordWrites DEF RecordWritten
<1>3. CASE StartSteps \/ Stop \/ HandoverFails \/ SupervisorDies
  BY <1>3 DEF StartSteps, GuardMovedIt, MainRefused, TakeLocks, BeforeStart, SaveRetryable, HoldSettles,
     RecordAttempt, WriteHold, StartRuntime, Confirm, ReleaseHold, StartUngated, StartFails, AfterStart,
     StartBackEnds, Stop, HandoverFails, SupervisorDies, Ends, Fails
<1> QED
  BY <1>1, <1>2, <1>3 DEF Next, Endings

\* Closing or taking back an attempt leaves none open.
LEMMA ClosesAttempt ==
  ASSUME NEW r \in RecordType, r.phase = "applied"
  PROVE  ~Crashed(CloseAttempt(r)) /\ ~Crashed(WithdrawAttempt(r))
<1>1. Pending(r) /\ r.g \in GuardType
  BY DEF Pending, PENDING, RecordType
<1>2. CASE r.g.phase # r.phase
  BY <1>2 DEF CloseAttempt, WithdrawAttempt, Crashed, GuardRecord, NoGuard
<1>3. CASE r.g.phase = r.phase
  <2>1. DEFINE shut == [r.g EXCEPT !.open = FALSE]
               n == IF r.g.attempts = 0 THEN 0 ELSE r.g.attempts - 1
  <2>2. shut.open = FALSE /\ shut.phase = r.phase
        /\ [shut EXCEPT !.attempts = n].open = FALSE /\ [shut EXCEPT !.attempts = n].phase = r.phase
    BY <1>1, <1>3 DEF GuardType
  <2>3. CloseAttempt(r) = [r EXCEPT !.g = shut] /\ WithdrawAttempt(r) = [r EXCEPT !.g = [shut EXCEPT !.attempts = n]]
    BY <1>1, <1>3 DEF CloseAttempt, WithdrawAttempt, GuardType, RecordType
  <2> HIDE DEF shut, n
  <2>4. \A g : [r EXCEPT !.g = g].g = g /\ [r EXCEPT !.g = g].phase = r.phase
    BY DEF RecordType
  <2>5. /\ CloseAttempt(r).g = shut /\ CloseAttempt(r).phase = r.phase
        /\ WithdrawAttempt(r).g = [shut EXCEPT !.attempts = n] /\ WithdrawAttempt(r).phase = r.phase
    BY <2>3, <2>4
  <2> QED
    BY <2>2, <2>5 DEF Crashed, GuardRecord
<1> QED
  BY <1>2, <1>3

LEMMA StoppedKeeps == ASSUME IInv, StoppedInv, Next PROVE StoppedInv'
<1> SUFFICES ASSUME sup' = "down", lastEnd' = "stopped", rec'.phase = "applied" PROVE ~Crashed(rec)'
  BY DEF StoppedInv
<1>1. rec \in RecordType
  BY DEF IInv, SafeInv, TypeInv, RecType
<1>2. CASE Stop \/ HandoverFails
  <2>1. rec.phase = "applied"
    BY <1>1, <1>2, Attempts DEF Stop, HandoverFails, Outcome
  <2>2. rec' = CloseAttempt(rec) \/ rec' = WithdrawAttempt(rec)
    BY <1>2 DEF Stop, HandoverFails
  <2>3. Crashed(rec)' = Crashed(rec')
    BY DEF Crashed, GuardRecord
  <2> QED
    BY <1>1, <2>1, <2>2, <2>3, ClosesAttempt
<1>3. CASE ~(Stop \/ HandoverFails)
  <2>1. WayBackSteps \/ Commands \/ Changes
    <3>1. GuardSteps => sup' # "down" \/ lastEnd' = "stuck"
      BY DEF GuardSteps, GuardRuns, GuardGoesBack, GuardUndoes, GuardFinishes, GuardBackFails, CannotMove
    <3>2. StartSteps => sup' # "down" \/ lastEnd' \in {"moved", "refused", "failed"}
      BY DEF StartSteps, GuardMovedIt, MainRefused, TakeLocks, BeforeStart, SaveRetryable, HoldSettles,
         RecordAttempt, WriteHold, StartRuntime, Confirm, ReleaseHold, StartUngated, StartFails, AfterStart,
         StartBackEnds, Ends, Fails
    <3>3. HandsOver \/ SupervisorDies => lastEnd' \in {"handover", "died"}
      BY DEF HandsOver, SupervisorDies, Ends
    <3> QED
      BY <1>3, <3>1, <3>2, <3>3 DEF Next, Endings
  <2>2. sup = "down" /\ lastEnd = "stopped"
    BY <2>1 DEF WayBackSteps, Commands, BackMoves, BackMarks, BackRestores, BackRecords, CommandStarts, Apply, ApplyMoves,
       ApplyMarksMoved, ApplyUndoes, Rollback, RollbackEnds, CommandDies, Changes, AdmitChange, CommitChange,
       SeeHold
  <2>3. \/ rec' = rec
        \/ rec'.g = rec.g /\ rec'.phase = rec.phase
        \/ rec'.g = NoGuard
    <3>1. ~RecordAttempt /\ ~SaveRetryable /\ ~GuardSteps /\ ~Stop /\ ~HandoverFails
      BY <1>3, <2>2 DEF RecordAttempt, SaveRetryable, GuardSteps, GuardRuns, GuardGoesBack, GuardUndoes, GuardFinishes,
         GuardBackFails, CannotMove
    <3>2. rec'.phase \in PENDING /\ ~Begun(rec', rec)
      BY DEF PENDING, Begun
    <3> QED
      BY <3>1, <3>2, RecordWrites, FieldsWritten DEF RecordWritten
  <2>4. rec'.g = NoGuard => ~Crashed(rec)'
    BY DEF Crashed, GuardRecord, NoGuard
  <2> QED
    BY <2>2, <2>3, <2>4 DEF StoppedInv, Crashed, GuardRecord
<1> QED
  BY <1>2, <1>3

\* Who moves the checkout while a way back holds it: the way back itself, or whoever dies with it.
LEMMA TreeMoves ==
  ASSUME IInv, TreeInv, Next
  PROVE  \/ UNCHANGED tree
         \/ back.step = "move" /\ rec' = rec /\ op' \in {op, "idle"}
            /\ ((head' = "old" /\ tidy') \/ back'.step \in {"none", "error"}) /\ back'.step \in {"mark", "none", "error"}
         \/ back.step = "none" /\ back' = back /\ rec.phase # "rolling_back" /\ rec'.phase # "rolling_back"
<1>1. rec \in RecordType
  BY DEF IInv, SafeInv, TypeInv, RecType
<1>2. CASE BackMoves
  BY <1>2 DEF BackMoves, IInv, SafeInv, TypeInv, StepType
<1>3. CASE GuardUndoes
  <2>1. back.step = "none" /\ rec.phase = "applied" /\ back' = back
    BY <1>3 DEF GuardUndoes, TreeInv, IInv, SafeInv, TypeInv, StepType, LockInv
  <2>2. rec' = rec \/ rec' = [rec EXCEPT !.phase = "failed", !.fails = 0]
    BY <1>3 DEF GuardUndoes
  <2>3. [rec EXCEPT !.phase = "failed", !.fails = 0].phase = "failed"
    BY <1>1, SettledPhases
  <2> QED
    BY <2>1, <2>2, <2>3
<1>4. CASE SupervisorDies
  <2>1. CASE sup = "undo"
    <3>1. back.step = "none" /\ rec.phase = "applied"
      BY <2>1 DEF TreeInv, IInv, SafeInv, TypeInv, StepType, LockInv
    <3>2. back' = back /\ rec' = rec
      BY <1>4, <3>1 DEF SupervisorDies, IInv, SafeInv, LockInv
    <3> QED
      BY <3>1, <3>2
  <2>2. CASE sup # "undo" /\ back.by \in {"guard", "start"} /\ back.step = "move"
    BY <1>4, <2>2 DEF SupervisorDies, NoBack
  <2> QED
    BY <1>4, <2>1, <2>2 DEF SupervisorDies
<1>5. CASE ApplyMoves \/ ApplyUndoes
  <2>1. op \in {"moving", "undo"} /\ back' = back /\ op # "idle"
    BY <1>5 DEF ApplyMoves, ApplyUndoes
  <2>2. back.step = "none" /\ rec.phase # "rolling_back"
    BY <2>1 DEF TreeInv, IInv, SafeInv, TypeInv, StepType, LockInv
  <2>3. rec' = rec \/ rec'.phase = "failed"
    BY <1>1, <1>5, SettledPhases DEF ApplyMoves, ApplyUndoes
  <2> QED
    BY <2>1, <2>2, <2>3
<1>6. CASE CommandDies
  <2>1. CASE op \in {"moving", "undo"}
    <3>1. back.step = "none" /\ rec.phase # "rolling_back" /\ back.by = "none"
      BY <2>1 DEF TreeInv, IInv, SafeInv, TypeInv, StepType, LockInv
    <3> QED
      BY <1>6, <3>1 DEF CommandDies
  <2>2. CASE op \notin {"moving", "undo"} /\ back.by = "operator" /\ back.step = "move"
    BY <1>6, <2>2 DEF CommandDies, NoBack
  <2> QED
    BY <1>6, <2>1, <2>2 DEF CommandDies
<1>7. CASE UNCHANGED tree
  BY <1>7
<1> QED
  BY <1>2, <1>3, <1>4, <1>5, <1>6, <1>7 DEF Next, WayBackSteps, GuardSteps, StartSteps, Endings, Commands,
     BackMarks, BackRestores, BackRecords, GuardRuns, GuardFinishes, GuardBackFails, CannotMove, GuardMovedIt,
     MainRefused, TakeLocks, BeforeStart, SaveRetryable, HoldSettles, RecordAttempt, WriteHold, StartRuntime,
     Confirm, ReleaseHold, StartUngated, StartFails, AfterStart, StartBackEnds, Stop, HandsOver, HandoverFails,
     CommandStarts, Apply, ApplyMarksMoved, Rollback, RollbackEnds, Changes, AdmitChange, CommitChange, SeeHold

\* The steps of a way back.
LEMMA BackStepsTaken ==
  ASSUME IInv, TreeInv, Next
  PROVE  \/ back' = back
         \/ back'.step \in {"none", "error", "lost"}
         \/ BackMoves /\ back'.step = "mark" /\ head' = "old" /\ tidy'
         \/ BackMarks /\ back'.step = BackStep(rec') /\ UNCHANGED tree
         \/ BackRecords /\ back'.step = BackStep(rec') /\ UNCHANGED tree
         \/ back.step = "restore" /\ back'.step = "record" /\ UNCHANGED tree /\ rec' = rec
         \/ rec'.phase = "rolling_back" /\ back'.step = BackStep(rec') /\ UNCHANGED tree
<1>1. back \in [by : {"none", "guard", "start", "operator"}, step : BackSteps]
  BY DEF IInv, SafeInv, TypeInv, StepType
<1>2. CASE WayBackSteps
  BY <1>1, <1>2 DEF WayBackSteps, BackMoves, BackMarks, BackRestores, BackRecords
<1>3. CASE GuardRuns \/ AfterStart \/ Rollback
  <2>1. BeginWayBack(rec).phase = "rolling_back"
    BY Begins DEF IInv, SafeInv, TypeInv, RecType, Begun
  <2> QED
    BY <1>3, <2>1 DEF GuardRuns, GuardGoesBack, AfterStart, Rollback, Pending, PENDING
<1>4. CASE GuardFinishes \/ GuardBackFails \/ StartBackEnds \/ RollbackEnds \/ SupervisorDies \/ CommandDies
  BY <1>4 DEF GuardFinishes, GuardBackFails, StartBackEnds, RollbackEnds, SupervisorDies, CommandDies, NoBack
<1>5. CASE UNCHANGED back
  BY <1>5
<1> QED
  BY <1>2, <1>3, <1>4, <1>5 DEF Next, GuardSteps, StartSteps, Endings, Commands, GuardUndoes, CannotMove,
     GuardMovedIt, MainRefused, TakeLocks, BeforeStart, SaveRetryable, HoldSettles, RecordAttempt, WriteHold,
     StartRuntime, Confirm, ReleaseHold, StartUngated, StartFails, Stop, HandsOver, HandoverFails, CommandStarts, Apply,
     ApplyMoves, ApplyMarksMoved, ApplyUndoes, Changes, AdmitChange, CommitChange, SeeHold

LEMMA TreeKeeps == ASSUME IInv, TreeInv, Next PROVE TreeInv'
<1>1. rec'.phase = "rolling_back" /\ rec'.movedBack
        => (rec.phase = "rolling_back" /\ rec.movedBack) \/ BackMarks
  BY RecordWrites, FieldsWritten DEF RecordWritten, Rest, Begun, PENDING
<1>2. BackMarks => head = "old" /\ tidy /\ UNCHANGED tree
  BY DEF BackMarks, TreeInv
<1>3. (rec.phase = "rolling_back" /\ rec.movedBack) => back.step # "move" /\ UNCHANGED tree
  BY TreeMoves DEF TreeInv
<1>4. rec'.phase = "rolling_back" /\ rec'.movedBack => head' = "old" /\ tidy'
  BY <1>1, <1>2, <1>3 DEF TreeInv
<1>5. back'.step \in {"mark", "restore", "record", "done"} => head' = "old" /\ tidy'
  <2>1. CASE back' = back
    BY <2>1, TreeMoves DEF TreeInv
  <2>2. CASE BackMarks \/ BackRecords
    BY <2>2 DEF BackMarks, BackRecords, TreeInv
  <2>3. CASE back.step = "restore" /\ UNCHANGED tree
    BY <2>3 DEF TreeInv
  <2>4. CASE rec'.phase = "rolling_back" /\ back'.step = BackStep(rec') /\ UNCHANGED tree
    BY <1>4, <2>4 DEF BackStep, MovedBack
  <2> QED
    BY <2>1, <2>2, <2>3, <2>4, BackStepsTaken
<1>6. back'.step = "move" => ~(rec'.phase = "rolling_back" /\ rec'.movedBack)
  <2> SUFFICES ASSUME back'.step = "move", rec'.phase = "rolling_back", rec'.movedBack PROVE FALSE
    OBVIOUS
  <2>1. head' = "old" /\ (UNCHANGED tree => head = "old")
    BY <1>4
  <2>2. UNCHANGED tree => BackStep(rec') # "move"
    BY <2>1 DEF BackStep, MovedBack
  <2>3. back' = back
    BY <2>2, BackStepsTaken
  <2>4. back.step = "move" /\ ~BackMarks
    BY <2>3 DEF BackMarks
  <2> QED
    BY <1>1, <2>4 DEF TreeInv
<1>7. op' \in {"moving", "moved", "undo"} => rec'.phase # "rolling_back"
  <2> SUFFICES ASSUME op' \in {"moving", "moved", "undo"}, rec'.phase = "rolling_back" PROVE FALSE
    OBVIOUS
  <2>1. ~Apply
    BY FieldsWritten
  <2>2. op \in {"moving", "moved", "undo"}
    BY <2>1 DEF Next, WayBackSteps, GuardSteps, StartSteps, Endings, Commands, BackMoves, BackMarks,
       BackRestores, BackRecords, GuardRuns, GuardUndoes, GuardFinishes, GuardBackFails, CannotMove,
       GuardMovedIt, MainRefused, TakeLocks, BeforeStart, SaveRetryable, HoldSettles, RecordAttempt, WriteHold,
       StartRuntime, Confirm, ReleaseHold, StartUngated, StartFails, AfterStart, StartBackEnds, Stop, HandsOver,
       HandoverFails, SupervisorDies, ApplyMoves, ApplyMarksMoved, ApplyUndoes, Rollback, RollbackEnds,
       CommandDies, Changes, AdmitChange, CommitChange, SeeHold
  <2>3. rec.phase # "rolling_back" /\ ~UpgradeLockFree
    BY <2>2 DEF TreeInv, UpgradeLockFree
  <2> QED
    BY <2>1, <2>3, RecordWrites, FieldsWritten DEF RecordWritten, PENDING
<1>8. sup' = "undo" => rec'.phase = "applied"
  <2> SUFFICES ASSUME sup' = "undo" PROVE rec'.phase = "applied"
    OBVIOUS
  <2>1. CASE GuardRuns
    BY <2>1 DEF GuardRuns, GuardGoesBack
  <2>2. CASE sup = "undo" /\ ~GuardRuns
    <3>1. rec.phase = "applied" /\ back.step = "none" /\ op = "idle" /\ ~UpgradeLockFree
      BY <2>2 DEF TreeInv, IInv, SafeInv, TypeInv, StepType, LockInv, UpgradeLockFree
    <3>2. rec' = rec
      BY <2>2, <3>1 DEF Next, WayBackSteps, GuardSteps, StartSteps, Endings, Commands, BackMoves, BackMarks,
         BackRestores, BackRecords, GuardUndoes, GuardFinishes, GuardBackFails, CannotMove, GuardMovedIt,
         MainRefused, TakeLocks, BeforeStart, SaveRetryable, HoldSettles, RecordAttempt, WriteHold,
         StartRuntime, Confirm, ReleaseHold, StartUngated, StartFails, AfterStart, StartBackEnds, Stop,
         HandsOver, HandoverFails, SupervisorDies, CommandStarts, Apply, ApplyMoves, ApplyMarksMoved, ApplyUndoes, Rollback,
         RollbackEnds, CommandDies, CommandStarts, Changes, AdmitChange, CommitChange, SeeHold
    <3> QED
      BY <3>1, <3>2
  <2>3. sup = "undo" \/ GuardRuns
    BY DEF Next, WayBackSteps, GuardSteps, StartSteps, Endings, Commands, BackMoves, BackMarks, BackRestores,
       BackRecords, GuardRuns, GuardUndoes, GuardFinishes, GuardBackFails, CannotMove, GuardMovedIt,
       MainRefused, TakeLocks, BeforeStart, SaveRetryable, HoldSettles, RecordAttempt, WriteHold, StartRuntime,
       Confirm, ReleaseHold, StartUngated, StartFails, AfterStart, StartBackEnds, Stop, HandsOver,
       HandoverFails, SupervisorDies, CommandStarts, Apply, ApplyMoves, ApplyMarksMoved, ApplyUndoes, Rollback, RollbackEnds,
       CommandDies, Changes, AdmitChange, CommitChange, SeeHold, Ends, Fails
  <2> QED
    BY <2>1, <2>2, <2>3
<1> QED
  BY <1>4, <1>5, <1>6, <1>7, <1>8 DEF TreeInv

\* A stale start is never forgotten.
LEMMA StaleStays == ASSUME Next, stale PROVE stale'
<1> QED
  BY DEF Next, WayBackSteps, GuardSteps, StartSteps, Endings, Commands, Changes, BackMoves, BackMarks,
     BackRestores, BackRecords, GuardRuns, GuardGoesBack, GuardUndoes, GuardFinishes, GuardBackFails, CannotMove,
     GuardMovedIt, MainRefused, TakeLocks, BeforeStart, SaveRetryable, HoldSettles, RecordAttempt, WriteHold,
     StartRuntime, Confirm, ReleaseHold, StartUngated, StartFails, AfterStart, StartBackEnds, Stop, HandsOver,
     HandoverFails, SupervisorDies, CommandStarts, Apply, ApplyMoves, ApplyMarksMoved, ApplyUndoes, Rollback,
     RollbackEnds, CommandDies, AdmitChange, CommitChange, SeeHold, Ends, Fails

\* The checkout is moved by a way back at its move, by an upgrade's own, and by the guard that undoes that.
LEMMA TreeMovers == ASSUME Next PROVE UNCHANGED tree \/ back.step = "move" \/ op \in {"moving", "undo"} \/ sup = "undo"
<1> QED
  BY DEF Next, WayBackSteps, GuardSteps, StartSteps, Endings, Commands, Changes, BackMoves, BackMarks,
     BackRestores, BackRecords, GuardRuns, GuardGoesBack, GuardUndoes, GuardFinishes, GuardBackFails, CannotMove,
     GuardMovedIt, MainRefused, TakeLocks, BeforeStart, SaveRetryable, HoldSettles, RecordAttempt, WriteHold,
     StartRuntime, Confirm, ReleaseHold, StartUngated, StartFails, AfterStart, StartBackEnds, Stop, HandsOver,
     HandoverFails, SupervisorDies, CommandStarts, Apply, ApplyMoves, ApplyMarksMoved, ApplyUndoes, Rollback,
     RollbackEnds, CommandDies, AdmitChange, CommitChange, SeeHold, Ends, Fails

\* Where a start is between its check of the checkout and its verdict, and how it got there.
LEMMA Reached ==
  ASSUME Next
  PROVE  /\ sup' \in {"unsettled", "settle", "lock"} => BeforeStart \/ (sup \in {"unsettled", "settle", "lock"} /\ copy' = copy)
         /\ sup' \in {"hold", "gated", "probing"}
              => BeforeStart \/ sup \in {"hold", "gated", "probing"} \/ (RecordAttempt /\ sup = "lock" /\ stale' = (stale \/ copy # rec))
<1>1. CASE WayBackSteps \/ Commands \/ Changes
  <2>1. UNCHANGED <<sup, copy>>
    BY <1>1 DEF WayBackSteps, Commands, Changes, BackMoves, BackMarks, BackRestores, BackRecords, CommandStarts, Apply,
       ApplyMoves, ApplyMarksMoved, ApplyUndoes, Rollback, RollbackEnds, CommandDies, AdmitChange, CommitChange, SeeHold
  <2> QED
    BY <2>1
<1>2. CASE GuardSteps \/ Endings
  <2>1. sup' \in {"main", "undo", "guard", "cannot", "down"}
    BY <1>2 DEF GuardSteps, Endings, GuardRuns, GuardGoesBack, GuardUndoes, GuardFinishes, GuardBackFails, CannotMove,
       Stop, HandsOver, HandoverFails, SupervisorDies, Ends
  <2> QED
    BY <2>1
<1>3. CASE GuardMovedIt \/ MainRefused \/ TakeLocks \/ SaveRetryable \/ Confirm \/ ReleaseHold \/ StartUngated
           \/ StartFails \/ AfterStart \/ StartBackEnds
  <2>1. sup' \in {"down", "start", "confirmed", "serving", "failing", "back"}
    BY <1>3 DEF GuardMovedIt, MainRefused, TakeLocks, SaveRetryable, Confirm, ReleaseHold, StartUngated, StartFails,
       AfterStart, StartBackEnds, Ends, Fails
  <2> QED
    BY <2>1
<1>4. CASE HoldSettles \/ RecordAttempt \/ WriteHold \/ StartRuntime
  BY <1>4 DEF HoldSettles, RecordAttempt, WriteHold, StartRuntime, Fails
<1> QED
  BY <1>1, <1>2, <1>3, <1>4 DEF Next, StartSteps

LEMMA WholeKeeps == ASSUME IInv, ~stale => WholeInv, ~stale', Next PROVE WholeInv'
<1>1. ~stale /\ QuietWindow /\ WholeInv
  BY StaleStays DEF IInv
<1>2. CASE BeforeStart
  BY <1>2 DEF BeforeStart, Mismatch, Fails, WholeInv
<1>3. CASE sup \in {"unsettled", "settle", "lock"} /\ rec = copy
  <2>1. tidy /\ op = "idle" /\ back.step = "none"
    BY <1>1, <1>3 DEF WholeInv, IInv, SafeInv, TypeInv, StepType, LockInv, StartInv, QuietWindow, WindowInv
  <2> QED
    BY <1>3, <2>1, TreeMovers DEF WholeInv
<1>4. CASE sup \in {"hold", "gated", "probing"}
  <2>1. tidy /\ op \in {"idle", "open"} /\ back.step # "move"
    BY <1>1, <1>4 DEF WholeInv, QuietWindow, WindowInv, HomeInv, WayBackDone, MovedBack
  <2> QED
    BY <1>4, <2>1, TreeMovers DEF WholeInv
<1>5. CASE sup \in {"unsettled", "settle", "lock"} /\ rec # copy
  <2>1. ~(RecordAttempt /\ stale' = (stale \/ copy # rec))
    BY <1>5
  <2>2. sup' \notin {"hold", "gated", "probing"} \/ BeforeStart
    BY <1>5, <2>1, Reached
  <2>3. rec.phase = "rolling_back" /\ copy.phase = "applied"
    BY <1>1, <1>5 DEF IInv, SafeInv, StartInv, QuietWindow, WindowInv
  <2>4. CASE sup' \in {"unsettled", "settle", "lock"} /\ copy' = copy
    <3>1. rec'.phase # "applied" \/ SaveRetryable
      BY <2>3, <2>4, RecordWrites, FieldsWritten DEF RecordWritten, Begun, PENDING, CommandStarts, Apply, Pending
    <3>2. rec' # copy'
      BY <2>3, <2>4, <3>1, FieldsWritten
    <3> QED
      BY <2>4, <3>2 DEF WholeInv
  <2> QED
    BY <1>2, <1>5, <2>2, <2>4, Reached DEF WholeInv
<1>6. CASE sup \notin {"unsettled", "settle", "lock", "hold", "gated", "probing"}
  BY <1>2, <1>6, Reached DEF WholeInv
<1> QED
  BY <1>2, <1>3, <1>4, <1>5, <1>6

LEMMA MoveHolds == Spec => [](IInv /\ MoveInv)
<1>1. Init => MoveInv
  BY DEF Init, MoveInv, TakeoverInv, StoppedInv, TreeInv, WholeInv, NoBack, NoRecord
<1>2. IInv /\ MoveInv /\ [Next]_vars => MoveInv'
  <2> SUFFICES ASSUME IInv, MoveInv, [Next]_vars PROVE MoveInv'
    OBVIOUS
  <2>1. CASE Next
    BY <2>1, TakeoverKeeps, StoppedKeeps, TreeKeeps, WholeKeeps DEF MoveInv
  <2>2. CASE UNCHANGED vars
    BY <2>2 DEF vars, MoveInv, TakeoverInv, StoppedInv, TreeInv, WholeInv, AtStake, RestoreLeft, Crashed, GuardRecord
  <2> QED
    BY <2>1, <2>2
<1> QED
  BY <1>1, <1>2, Inductive, PTL DEF Spec

\* The stores are put back only while no console process has them open, whoever puts them back: after a guard
\* nothing was at stake if a console served on, and a failed start or an operator's command ended it first.
THEOREM RestoredWhileClosed == Spec => RestoresOnlyClosed
<1>1. ASSUME IInv, MoveInv, [Next]_vars, back.step = "restore", back'.step \in {"record", "error"}
      PROVE  consoles = {}
  <2>1. AtStake(rec) /\ op # "open"
    BY <1>1 DEF IInv, SafeInv, LockInv, AtStake, RestoreLeft
  <2>2. sup \in {"guard", "back", "down", "main"}
    BY <1>1, <2>1 DEF IInv, SafeInv, TypeInv, StepType, LockInv
  <2>3. ~handover
    BY <1>1, <2>1, <2>2 DEF MoveInv, TakeoverInv, IInv, SafeInv, StartInv
  <2> QED
    BY <1>1, <2>2, <2>3 DEF IInv, SafeInv, StartInv
<1> QED
  BY <1>1, MoveHolds, PTL DEF Spec, RestoresOnlyClosed

\* rollback_failed is recorded only with the whole previous version checked out, by whichever of the four writers
\* records it: the guard after its attempts, the guard that could not move, a start neither version survived, a
\* snapshot that could not be put back.
THEOREM RollbackFailsAtHome == Spec => RollbackFailedIsHome
<1>1. ASSUME IInv, MoveInv, [Next]_vars, rec.phase # "rollback_failed", rec'.phase = "rollback_failed"
      PROVE  head = "old" /\ tidy
  <2> USE <1>1
  <2>1. rec \in RecordType /\ Next
    BY DEF IInv, SafeInv, TypeInv, RecType, vars
  <2>2. CASE BackRestores \/ GuardFinishes
    <3>1. back.step \in {"restore", "done"} \/ rec' = rec
      BY <2>2 DEF BackRestores, GuardFinishes
    <3> QED
      BY <3>1 DEF MoveInv, TreeInv
  <2>3. CASE CannotMove
    <3>1. DEFINE r == [rec EXCEPT !.fails = @ + 1]
    <3>2. r \in RecordType /\ r.phase = rec.phase
      <4>1. rec.fails + 1 \in Nat
        BY <2>1 DEF RecordType
      <4> QED
        BY <2>1, <4>1, Field DEF Outcome
    <3>3. \/ head = "old" /\ tidy
          \/ rec' = r
          \/ rec' = [r EXCEPT !.phase = "confirmed", !.g = NoGuard]
      BY <2>3 DEF CannotMove
    <3> HIDE DEF r
    <3>4. [r EXCEPT !.phase = "confirmed", !.g = NoGuard].phase = "confirmed"
      BY <3>2, SettledPhases
    <3> QED
      BY <3>2, <3>3, <3>4
  <2>4. CASE AfterStart
    <3>1. rec' = rec \/ NeitherStarted(rec) \/ rec' = BeginWayBack(rec)
      BY <2>4 DEF AfterStart
    <3>2. BeginWayBack(rec).phase = "rolling_back"
      BY <2>1, Begins DEF Begun
    <3> QED
      BY <3>1, <3>2 DEF MoveInv, TreeInv, NeitherStarted, WayBackDone, MovedBack
  <2>5. CASE Confirm \/ StartUngated \/ GuardUndoes \/ ApplyUndoes
    <3>1. Pending(rec) => Verdict(rec).phase # "rollback_failed"
      BY <2>1, Field, PhaseNames DEF Verdict, Outcome
    <3>2. [rec EXCEPT !.phase = "failed"].phase = "failed" /\ [rec EXCEPT !.phase = "failed", !.fails = 0].phase = "failed"
      BY <2>1, SettledPhases
    <3> QED
      BY <2>5, <3>1, <3>2 DEF Confirm, StartUngated, GuardUndoes, ApplyUndoes
  <2>6. CASE GuardRuns \/ Rollback \/ Stop \/ HandoverFails
    <3>1. BeginWayBack(rec).phase = "rolling_back" /\ CloseAttempt(rec).phase = rec.phase
          /\ WithdrawAttempt(rec).phase = rec.phase /\ (~Exhausted(rec) => Opened(rec).phase = rec.phase)
      BY <2>1, Begins, Attempts DEF Begun, Outcome
    <3> QED
      BY <2>6, <3>1 DEF GuardRuns, GuardGoesBack, Rollback, Stop, HandoverFails
  <2>7. CASE BackMarks \/ BackRecords \/ Apply \/ ApplyMarksMoved \/ RecordAttempt \/ SaveRetryable
    BY <2>7, FieldsWritten
  <2> QED
    BY <2>1, <2>2, <2>3, <2>4, <2>5, <2>6, <2>7 DEF Next, WayBackSteps, GuardSteps, StartSteps, Endings,
       Commands, BackMoves, GuardBackFails, GuardMovedIt, MainRefused, TakeLocks, BeforeStart, SaveRetryable,
       HoldSettles, WriteHold, StartRuntime, ReleaseHold, StartFails, StartBackEnds, HandsOver, SupervisorDies,
       ApplyMoves, RollbackEnds, CommandDies, Changes, AdmitChange, CommitChange, SeeHold
<1> QED
  BY <1>1, MoveHolds, PTL DEF Spec, RollbackFailedIsHome

\* A clean stop during a confirmation is not taken for a crash: the guard that runs next goes back only when the
\* attempts are used up or the tree is not that version's.
THEOREM StopIsNoCrash == Spec => CleanStopKeepsVersion
<1>1. ASSUME IInv, MoveInv, [Next]_vars, sup = "down", sup' = "guard", rec.phase = "applied", lastEnd = "stopped"
      PROVE  Exhausted(rec) \/ Mismatch(rec)
  <2>1. GuardRuns
    BY <1>1 DEF vars, Next, WayBackSteps, GuardSteps, StartSteps, Endings, Commands, BackMoves, BackMarks,
       BackRestores, BackRecords, GuardUndoes, GuardFinishes, GuardBackFails, CannotMove, GuardMovedIt,
       MainRefused, TakeLocks, BeforeStart, SaveRetryable, HoldSettles, RecordAttempt, WriteHold, StartRuntime,
       Confirm, ReleaseHold, StartUngated, StartFails, AfterStart, StartBackEnds, Stop, HandsOver,
       HandoverFails, SupervisorDies, CommandStarts, Apply, ApplyMoves, ApplyMarksMoved, ApplyUndoes, Rollback, RollbackEnds,
       CommandDies, Changes, AdmitChange, CommitChange, SeeHold, Ends, Fails
  <2>2. ~Crashed(rec)
    BY <1>1 DEF MoveInv, StoppedInv
  <2> QED
    BY <1>1, <2>1, <2>2 DEF GuardRuns, GuardGoesBack
<1> QED
  BY <1>1, MoveHolds, PTL DEF Spec, CleanStopKeepsVersion

\* A probed start records only the version it is: the checkout is whole and is the one the record settles on, until
\* a start is stale.
THEOREM MatchedIsConfirmed == Spec => ReadIsConfirmed
<1>1. ASSUME IInv, MoveInv, [Next]_vars, sup = "probing", rec.phase # rec'.phase, ~stale
      PROVE  tidy /\ head = (IF rec'.phase = "confirmed" THEN "new" ELSE "old")
  <2>1. /\ tidy /\ op \in {"idle", "open"} /\ rec.phase \in PENDING /\ NeedsStop(rec) = (rec.phase = "applied")
        /\ rec.phase = "applied" => head = "new"
        /\ rec.phase = "rolling_back" => head = "old"
    BY <1>1 DEF MoveInv, WholeInv, IInv, QuietWindow, WindowInv, NeedsStop, PENDING, WayBackDone, MovedBack
  <2>2. back.step # "restore" /\ ~SupervisorLockFree
    BY <1>1 DEF IInv, SafeInv, TypeInv, StepType, LockInv, QuietWindow, WindowInv, HomeInv, WayBackDone, SupervisorLockFree
  <2>3. ~Apply /\ ~Rollback
    BY <2>1, <2>2 DEF CommandStarts, Apply, Rollback, Pending, PENDING
  <2>4. Stop \/ HandoverFails \/ BackMarks \/ BackRecords \/ ApplyMarksMoved => rec'.phase = rec.phase
    BY Attempts, FieldsWritten, <1>1 DEF Stop, HandoverFails, IInv, SafeInv, TypeInv, RecType, Outcome
  <2>5. Confirm
    BY <1>1, <2>1, <2>2, <2>3, <2>4 DEF vars, Next, WayBackSteps, GuardSteps, StartSteps, Endings, Commands, Changes,
       BackMoves, BackRestores, GuardRuns, GuardUndoes, GuardFinishes, GuardBackFails, CannotMove, GuardMovedIt,
       MainRefused, TakeLocks, BeforeStart, SaveRetryable, HoldSettles, RecordAttempt, WriteHold, StartRuntime,
       ReleaseHold, StartUngated, StartFails, AfterStart, StartBackEnds, HandsOver, SupervisorDies, ApplyMoves,
       ApplyUndoes, RollbackEnds, CommandDies, AdmitChange, CommitChange, SeeHold
  <2>6. Pending(rec) /\ rec'.phase = (IF rec.phase = "applied" THEN "confirmed" ELSE "rolled_back")
    <3>1. Verdict(rec).phase = (IF rec.phase = "applied" THEN "confirmed" ELSE "rolled_back")
      BY <1>1, Field, PhaseNames DEF Verdict, IInv, SafeInv, TypeInv, RecType, Outcome
    <3> QED
      BY <1>1, <2>5, <3>1 DEF Confirm
  <2> QED
    BY <2>1, <2>6 DEF PENDING
<1> QED
  BY <1>1, MoveHolds, PTL DEF Spec, ReadIsConfirmed

\* A pending record is confirmed by a start that was gated and probed, by the guard that could not move away from a
\* version confirmed before, or by a start that read that nothing waits and was raced by a command.
THEOREM ProbedIsConfirmed == Spec => RecordReadIsProbed
<1>1. ASSUME IInv, [Next]_vars, rec.phase \in PENDING, rec'.phase \in {"confirmed", "rolled_back"}
      PROVE  sup = "probing" \/ (sup = "cannot" /\ rec.from = "confirmed") \/ (sup = "ungated" /\ raced)
  <2> USE <1>1
  <2>1. rec \in RecordType /\ rec' # rec /\ Next
    BY DEF IInv, SafeInv, TypeInv, RecType, PENDING, vars
  <2>2. CASE Confirm
    BY <2>2 DEF Confirm
  <2>3. CASE StartUngated
    BY <2>3 DEF StartUngated, IInv, SafeInv, StartInv, Pending
  <2>4. CASE CannotMove
    <3>1. DEFINE r == [rec EXCEPT !.fails = @ + 1]
    <3>2. r \in RecordType /\ r.phase = rec.phase /\ r.from = rec.from
      <4>1. rec.fails + 1 \in Nat
        BY <2>1 DEF RecordType
      <4> QED
        BY <2>1, <4>1, Field DEF Outcome, Rest
    <3>3. \/ ConfirmedAgain(r)
          \/ rec' = r \/ rec' = [r EXCEPT !.phase = "failed"] \/ rec' = [r EXCEPT !.phase = "rollback_failed"]
          \/ rec' = [r EXCEPT !.phase = "rollback_failed", !.restored = r.due]
      BY <2>4 DEF CannotMove
    <3>4. sup = "cannot"
      BY <2>4 DEF CannotMove
    <3> HIDE DEF r
    <3>5. [r EXCEPT !.phase = "failed"].phase = "failed" /\ [r EXCEPT !.phase = "rollback_failed"].phase = "rollback_failed"
          /\ [r EXCEPT !.phase = "rollback_failed", !.restored = r.due].phase = "rollback_failed"
      BY <3>2, SettledPhases
    <3> QED
      BY <3>2, <3>3, <3>4, <3>5 DEF ConfirmedAgain, PENDING
  <2>5. CASE GuardUndoes \/ GuardFinishes \/ AfterStart \/ BackRestores \/ ApplyUndoes
    <3>1. [rec EXCEPT !.phase = "failed"].phase = "failed" /\ [rec EXCEPT !.phase = "rollback_failed"].phase = "rollback_failed"
          /\ [rec EXCEPT !.phase = "failed", !.fails = 0].phase = "failed"
          /\ [rec EXCEPT !.phase = "rollback_failed", !.fails = 0].phase = "rollback_failed"
      BY <2>1, SettledPhases
    <3>2. ~Exhausted(rec) => [Opened(rec) EXCEPT !.fails = 0].phase = rec.phase
      <4>1. ~Exhausted(rec) => Outcome(Opened(rec), rec, rec.phase, rec.fails)
        BY <2>1, Attempts
      <4> QED
        BY <4>1, Field DEF Outcome
    <3>3. BeginWayBack(rec).phase = "rolling_back"
      BY <2>1, Begins DEF Begun
    <3> QED
      BY <2>5, <3>1, <3>2, <3>3 DEF GuardUndoes, GuardFinishes, AfterStart, BackRestores, SnapshotFailed,
         ApplyUndoes, PENDING
  <2>6. CASE GuardRuns \/ Rollback \/ Stop \/ HandoverFails
    <3>1. BeginWayBack(rec).phase = "rolling_back" /\ CloseAttempt(rec).phase = rec.phase
          /\ WithdrawAttempt(rec).phase = rec.phase /\ (~Exhausted(rec) => Opened(rec).phase = rec.phase)
      BY <2>1, Begins, Attempts DEF Begun, Outcome
    <3> QED
      BY <2>6, <3>1 DEF GuardRuns, GuardGoesBack, Rollback, Stop, HandoverFails, PENDING
  <2>7. CASE BackMarks \/ BackRecords \/ Apply \/ ApplyMarksMoved \/ RecordAttempt \/ SaveRetryable
    BY <2>1, <2>7, FieldsWritten DEF PENDING
  <2> QED
    BY <2>1, <2>2, <2>3, <2>4, <2>5, <2>6, <2>7 DEF Next, WayBackSteps, GuardSteps, StartSteps, Endings,
       Commands, BackMoves, GuardBackFails, GuardMovedIt, MainRefused, TakeLocks, BeforeStart, SaveRetryable,
       HoldSettles, WriteHold, StartRuntime, ReleaseHold, StartFails, StartBackEnds, HandsOver, SupervisorDies,
       ApplyMoves, RollbackEnds, CommandDies, Changes, AdmitChange, CommitChange, SeeHold
<1> QED
  BY <1>1, Inductive, PTL DEF Spec, RecordReadIsProbed
=============================================================================
