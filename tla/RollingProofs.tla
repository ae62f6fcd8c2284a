----------------------------- MODULE RollingProofs -----------------------------
(***************************************************************************)
(* Rolling for any set of environments and any bounds.                     *)
(*                                                                         *)
(* The properties speak of what is durable; why they hold depends on where *)
(* the process under the lock is.  IInv adds which record there is at each *)
(* of its steps (StepInv), and what an environment that no hand touched is *)
(* like at each step of its replacement, whatever died over it (WholeInv). *)
(* For the ledger, ConfirmedInv adds that no roll begins before the upgrade *)
(* is confirmed.                                                           *)
(***************************************************************************)
EXTENDS Rolling, TLAPS

Kinds == {None, "start", "roll", "swap", "undo", "repair", "force"}
Swapping == {"widen", "launch", "note", "boot", "point", "watch", "retire"}
Settling == {"rename", "take", "publish", "narrow", "settle", "heldAside"}
Clear == {"begin", "resume", "pick", "swap", "replaced", "failed", "end"}
Steps == Swapping \cup Settling \cup Clear \cup {None, "repair"}
Records == [env : Environments \cup {None}, phase : Phases \cup {None}, old : Containers, new : {None, "new"}]

ContainersType ==
  /\ canonical \in [Environments -> Containers] /\ next \in [Environments -> Containers \ {"old"}]
  /\ up \in [Environments -> BOOLEAN] /\ \A e \in Environments : up[e] => canonical[e] # None
  /\ files \in [Environments -> [canonical : Containers, next : BOOLEAN]]
  /\ address \in [Environments -> Containers \ {None}]
RecordsType ==
  /\ record \in Records /\ IsRecord(record)
  /\ record.phase \in {"switched", "retiring"} => record.new = "new"
  /\ held \in [Environments -> Records]
  /\ \A e \in Environments : IsRecord(held[e]) /\ (Held(e) => held[e].env = e)
  /\ \A e \in Environments : held[e].phase \in {"switched", "retiring"} => held[e].new = "new"
ProcType ==
  proc \in [kind : Kinds, at : Steps, env : Environments \cup {None},
            todo : SUBSET Environments, deferred : SUBSET Environments]
RestType ==
  /\ wide \subseteq Environments /\ fenced \subseteq Environments
  /\ plan \in [Environments -> {None, "old", "new", "failed", "skipped"}]
  /\ refused \in {None, "missing", "drift", "failed"}
  /\ counts \in [CountNames -> Nat]
TypeInv == ContainersType /\ RecordsType /\ ProcType /\ RestType

\* The record at each step of the process under the lock.
StepInv ==
  /\ proc.at \in Clear => record = NoRecord
  /\ proc.at \in Settling => Env \in Environments
  /\ proc.at \in Swapping => Env \in Environments /\ E = Env
  /\ At("swap") => E \in Environments
  /\ proc.at \in {"widen", "launch", "note", "boot"} => record.phase = "starting"
  /\ proc.at \in {"point", "watch"} => record.phase = "switched"
  /\ At("retire") => record.phase = "retiring"
  /\ At("boot") => record.new = "new"
  /\ proc.at \in {"note", "boot", "point", "watch", "retire"} => next[Env] = "new"
  /\ At("rename") => canonical[Env] = None /\ next[Env] # None
  /\ At("heldAside") => Held(Env)
  /\ At("settle") => Env \notin wide

\* An environment no swap is recorded of, and one in its replacement.
Whole(e) ==
  /\ canonical[e] \in {"old", "new"} /\ next[e] = None
  /\ files[e].canonical = canonical[e] /\ ~ files[e].next
  /\ up[e] => address[e] = canonical[e]

Replacing(e) ==
  /\ record.old = "old"
  /\ \/ /\ Early /\ canonical[e] = "old" /\ next[e] \in {None, "new"}
        /\ files[e].canonical = "old" /\ (files[e].next <=> next[e] # None)
     \/ /\ record.phase = "retiring" /\ canonical[e] \in {None, "old"} /\ next[e] = "new"
        /\ files[e].canonical = "old" /\ files[e].next
     \/ /\ record.phase = "retiring" /\ canonical[e] = "new" /\ next[e] = None
        /\ files[e].canonical = (IF files[e].next THEN "old" ELSE "new")
  /\ At("take") => canonical[e] = "new"
  /\ proc.at \in {"publish", "narrow", "settle"} => next[e] = None /\ ~ files[e].next
  /\ proc.at \in {"narrow", "settle"} /\ up[e] => address[e] = canonical[e]

WholeInv ==
  \A e \in Environments \ touched : ~ Held(e) /\ (IF Env = e THEN Replacing(e) ELSE Whole(e))

IInv == TypeInv /\ StepInv /\ LimitsGoBack /\ WholeInv

-------------------------------------------------------------------------------
(* The record and the lock. *)

\* There is a record exactly when it names an environment.
LEMMA RecordNames ==
  ASSUME TypeInv
  PROVE  (record = NoRecord <=> Env = None) /\ (record # NoRecord <=> Env \in Environments)
BY RollingConstants DEF TypeInv, RecordsType, IsRecord, NoRecord, Env

LEMMA InitHolds == ASSUME Init PROVE IInv
<1>0. proc = [Nobody EXCEPT !.kind = "start", !.at = "repair"]
  BY DEF Init
<1>1. TypeInv
  <2>1. ContainersType
    BY DEF Init, ContainersType, Containers, None
  <2>2. RecordsType
    BY DEF Init, RecordsType, Held, NoRecord, IsRecord, Records, Containers, None
  <2>3. ProcType
    BY DEF Init, ProcType, Nobody, Kinds, Steps, None
  <2>4. RestType
    BY DEF Init, RestType
  <2> QED
    BY <2>1, <2>2, <2>3, <2>4 DEF TypeInv
<1>2. StepInv
  BY DEF Init, StepInv, At, Settling, Swapping
<1>3. LimitsGoBack /\ WholeInv
  BY RollingConstants DEF Init, LimitsGoBack, WholeInv, Whole, NoRecord, Held, Env
<1> QED
  BY <1>1, <1>2, <1>3 DEF IInv

\* What one step does to the settings files.
LEMMA NextFile ==
  ASSUME ContainersType, NEW e \in Environments, NEW b \in BOOLEAN, files' = [files EXCEPT ![e].next = b]
  PROVE  files' \in [Environments -> [canonical : Containers, next : BOOLEAN]]
<1>1. files \in [Environments -> [canonical : Containers, next : BOOLEAN]]
  BY DEF ContainersType
<1>2. [files[e] EXCEPT !.next = b] \in [canonical : Containers, next : BOOLEAN]
  <2>1. files[e] \in [canonical : Containers, next : BOOLEAN]
    BY <1>1
  <2> QED
    BY <2>1
<1>3. files' = [files EXCEPT ![e] = [files[e] EXCEPT !.next = b]]
  OBVIOUS
<1> QED
  BY <1>1

LEMMA Drops ==
  ASSUME ContainersType, Env \in Environments, DropNext \/ DropCanonical, UNCHANGED address
  PROVE  ContainersType'
<1>1. CASE DropNext
  <2>1. files' \in [Environments -> [canonical : Containers, next : BOOLEAN]]
    BY <1>1, NextFile DEF DropNext
  <2>2. next' \in [Environments -> Containers \ {"old"}] /\ UNCHANGED <<canonical, up, address>>
    BY <1>1 DEF DropNext, ContainersType, Containers, None
  <2> QED
    BY <2>1, <2>2 DEF ContainersType
<1>2. CASE DropCanonical
  BY <1>2 DEF DropCanonical, ContainersType, Containers
<1> QED
  BY <1>1, <1>2

\* A replacement no hand touched is one a repair recognises, wherever it was cut off.
LEMMA Recognises ==
  ASSUME TypeInv, WholeInv, Env \in Environments \ touched
  PROVE  Recognised
<1>1. Replacing(Env)
  BY DEF WholeInv
<1>2. record.new \in {None, "new"} /\ (record.phase \in {"switched", "retiring"} => record.new = "new")
  BY DEF TypeInv, RecordsType, Records
<1> QED
  BY <1>1, <1>2 DEF Replacing, Recognised, RepairUndoes, RepairRetires, RepairKeepsNew, RepairRenames,
     Foreign, IsOld, None

\* A step of the process that leaves what is durable, wherever it goes on or ends.
LEMMA Frame ==
  ASSUME IInv, UNCHANGED <<containers, address, wide, record, held, touched>>, ProcType', RestType',
         proc'.at \in Clear \cup {None, "repair"},
         proc'.at \in Clear => record = NoRecord,
         proc'.at = "swap" => proc'.env \in Environments
  PROVE  IInv'
<1>1. ContainersType' /\ RecordsType'
  BY DEF IInv, TypeInv, ContainersType, RecordsType, containers, Held
<1>2. StepInv'
  BY DEF StepInv, At, E, Clear, Settling, Swapping, None
<1>3. LimitsGoBack' /\ WholeInv'
  BY DEF IInv, LimitsGoBack, WholeInv, Whole, Replacing, containers, Held, Early, At, Env, Clear, None
<1> QED
  BY <1>1, <1>2, <1>3 DEF IInv, TypeInv

LEMMA RepairNothingKeeps == ASSUME IInv, RepairNothing PROVE IInv'
<1>0. (record = NoRecord <=> Env = None) /\ (record # NoRecord <=> Env \in Environments)
  BY RecordNames DEF IInv
<1>1. ProcType'
  BY DEF IInv, TypeInv, ProcType, RepairNothing, Goes, AfterSettled, Steps, Clear
<1>2. RestType'
  BY DEF IInv, TypeInv, RestType, RepairNothing, records, outside
<1>3. /\ proc'.at \in Clear \cup {None, "repair"} /\ (proc'.at \in Clear => record = NoRecord)
      /\ proc'.at = "swap" => proc'.env \in Environments
  BY DEF IInv, TypeInv, RepairNothing, Goes, AfterSettled, None, Clear
<1>4. UNCHANGED <<containers, address, wide, record, held, touched>>
  BY DEF RepairNothing, containers, records, outside
<1> QED
  BY <1>1, <1>2, <1>3, <1>4, Frame

LEMMA RepairKeeps == ASSUME IInv, Repair PROVE IInv'
<1>0. (record = NoRecord <=> Env = None) /\ (record # NoRecord <=> Env \in Environments)
  BY RecordNames DEF IInv
<1>1. TypeInv'
  <2>1. ContainersType'
    <3>1. CASE DropNext \/ DropCanonical
      BY <1>0, <3>1, Drops DEF IInv, TypeInv, Repair
    <3>2. CASE UNCHANGED containers
      BY <3>2 DEF IInv, TypeInv, Repair, ContainersType, containers
    <3> QED
      BY <3>1, <3>2 DEF Repair
  <2>2. RecordsType'
    BY DEF IInv, TypeInv, RecordsType, Repair, records, Held
  <2>3. ProcType'
    BY DEF IInv, TypeInv, ProcType, Repair, Goes, Steps, Settling
  <2>4. RestType'
    BY DEF IInv, TypeInv, RestType, Repair, records, outside
  <2> QED
    BY <2>1, <2>2, <2>3, <2>4 DEF TypeInv
<1>2. StepInv'
  BY <1>0 DEF IInv, TypeInv, ContainersType, ProcType, StepInv, Repair, Goes, RepairRetires, RepairRenames,
     DropCanonical, containers, records, Env, At, Swapping, Clear
<1>3. LimitsGoBack'
  BY DEF IInv, TypeInv, LimitsGoBack, Repair, records, Env, Held
<1>4. WholeInv'
  BY DEF IInv, TypeInv, ContainersType, RecordsType, ProcType, WholeInv, Whole, Replacing, Early, Repair,
     Goes, RepairUndoes, RepairRetires, RepairKeepsOld, RepairKeepsNew, DropNext, DropCanonical, IsOld,
     containers, records, outside, Env, None, At, Held
<1> QED
  BY <1>1, <1>2, <1>3, <1>4 DEF IInv

LEMMA RenameKeeps == ASSUME IInv, Rename PROVE IInv'
<1>0. (record = NoRecord <=> Env = None) /\ (record # NoRecord <=> Env \in Environments)
  BY RecordNames DEF IInv
<1>1. TypeInv'
  <2>1. ContainersType'
    BY <1>0 DEF IInv, TypeInv, ContainersType, RecordsType, RestType, StepInv, Rename, Goes, records,
       outside, Env, E, None, At, NoRecord, Containers
  <2>2. RecordsType'
    BY DEF IInv, TypeInv, RecordsType, Rename, records, Held
  <2>3. ProcType'
    BY DEF IInv, TypeInv, ProcType, Rename, Goes, Steps, Settling
  <2>4. RestType'
    BY DEF IInv, TypeInv, RestType, Rename, records, outside
  <2> QED
    BY <2>1, <2>2, <2>3, <2>4 DEF TypeInv
<1>2. StepInv'
  BY DEF IInv, TypeInv, StepInv, Rename, Goes, records, Env, At, Swapping, Settling, Clear
<1>3. LimitsGoBack'
  BY DEF IInv, TypeInv, LimitsGoBack, Rename, records, Env, Held
<1>4. WholeInv'
  BY DEF IInv, TypeInv, ContainersType, StepInv, WholeInv, Whole, Replacing, Rename, Goes, records, outside,
     Env, None, Held
<1> QED
  BY <1>1, <1>2, <1>3, <1>4 DEF IInv

LEMMA TakeSettingsKeeps == ASSUME IInv, TakeSettings PROVE IInv'
<1>0. (record = NoRecord <=> Env = None) /\ (record # NoRecord <=> Env \in Environments)
  BY RecordNames DEF IInv
<1>1. TypeInv'
  <2>1. ContainersType'
    BY <1>0 DEF IInv, TypeInv, ContainersType, RecordsType, RestType, StepInv, TakeSettings, Goes,
       TakenFiles, records, outside, Env, E, None, At, NoRecord, Containers
  <2>2. RecordsType'
    BY DEF IInv, TypeInv, RecordsType, TakeSettings, records, Held
  <2>3. ProcType'
    BY DEF IInv, TypeInv, ProcType, TakeSettings, Goes, Steps, Settling
  <2>4. RestType'
    BY DEF IInv, TypeInv, RestType, TakeSettings, records, outside
  <2> QED
    BY <2>1, <2>2, <2>3, <2>4 DEF TypeInv
<1>2. StepInv'
  BY DEF IInv, TypeInv, StepInv, TakeSettings, Goes, records, Env, At, Swapping, Settling, Clear
<1>3. LimitsGoBack'
  BY DEF IInv, TypeInv, LimitsGoBack, TakeSettings, records, Env, Held
<1>4. WholeInv'
  BY DEF IInv, TypeInv, ContainersType, WholeInv, Whole, Replacing, TakeSettings, Goes, TakenFiles, records,
     outside, Env, Held
<1> QED
  BY <1>1, <1>2, <1>3, <1>4 DEF IInv

LEMMA PublishKeeps == ASSUME IInv, Publish PROVE IInv'
<1>0. (record = NoRecord <=> Env = None) /\ (record # NoRecord <=> Env \in Environments)
  BY RecordNames DEF IInv
<1>1. TypeInv'
  <2>1. ContainersType'
    BY <1>0 DEF IInv, TypeInv, ContainersType, RecordsType, RestType, StepInv, Publish, Goes, containers,
       records, outside, Env, E, None, At, NoRecord, Containers
  <2>2. RecordsType'
    BY DEF IInv, TypeInv, RecordsType, Publish, records, Held
  <2>3. ProcType'
    BY DEF IInv, TypeInv, ProcType, Publish, Goes, Steps, Settling
  <2>4. RestType'
    BY DEF IInv, TypeInv, RestType, Publish, records, outside
  <2> QED
    BY <2>1, <2>2, <2>3, <2>4 DEF TypeInv
<1>2. StepInv'
  BY DEF IInv, TypeInv, StepInv, Publish, Goes, records, Env, At, Swapping, Settling, Clear
<1>3. LimitsGoBack'
  BY DEF IInv, TypeInv, LimitsGoBack, Publish, records, Env, Held
<1>4. WholeInv'
  BY DEF IInv, TypeInv, ContainersType, WholeInv, Whole, Replacing, Early, Publish, Goes, containers,
     records, outside, Env, At, Held
<1> QED
  BY <1>1, <1>2, <1>3, <1>4 DEF IInv

LEMMA NarrowKeeps == ASSUME IInv, Narrow PROVE IInv'
<1>0. (record = NoRecord <=> Env = None) /\ (record # NoRecord <=> Env \in Environments)
  BY RecordNames DEF IInv
<1>1. TypeInv'
  <2>1. ContainersType'
    BY DEF IInv, TypeInv, ContainersType, Narrow, containers
  <2>2. RecordsType'
    BY DEF IInv, TypeInv, RecordsType, Narrow, records, Held
  <2>3. ProcType'
    BY DEF IInv, TypeInv, ProcType, Narrow, Goes, Steps, Settling
  <2>4. RestType'
    BY DEF IInv, TypeInv, RestType, Narrow, records, outside
  <2> QED
    BY <2>1, <2>2, <2>3, <2>4 DEF TypeInv
<1>2. StepInv'
  BY DEF IInv, TypeInv, StepInv, Narrow, Goes, records, Env, At, Swapping, Settling, Clear
<1>3. LimitsGoBack'
  BY DEF IInv, TypeInv, LimitsGoBack, Narrow, records, Held
<1>4. WholeInv'
  BY DEF IInv, TypeInv, WholeInv, Whole, Replacing, Early, Narrow, Goes, containers, records, outside, Env,
     At, Held
<1> QED
  BY <1>1, <1>2, <1>3, <1>4 DEF IInv

LEMMA SettleKeeps == ASSUME IInv, Settle PROVE IInv'
<1>0. (record = NoRecord <=> Env = None) /\ (record # NoRecord <=> Env \in Environments)
  BY RecordNames DEF IInv
<1>1. TypeInv'
  <2>1. ContainersType'
    BY DEF IInv, TypeInv, ContainersType, Settle, containers
  <2>2. RecordsType'
    BY DEF IInv, TypeInv, RecordsType, Settle, None, Held, NoRecord, Records, IsRecord, Containers
  <2>3. ProcType'
    BY DEF IInv, TypeInv, ProcType, Settle, Goes, AfterSettled, Steps, Clear
  <2>4. RestType'
    BY DEF IInv, TypeInv, RestType, Settle, outside
  <2> QED
    BY <2>1, <2>2, <2>3, <2>4 DEF TypeInv
<1>2. StepInv'
  BY DEF IInv, TypeInv, StepInv, Settle, Goes, AfterSettled, At, Swapping, Settling
<1>3. LimitsGoBack'
  BY DEF IInv, TypeInv, StepInv, LimitsGoBack, Settle, Held
<1>4. WholeInv'
  BY RollingConstants DEF IInv, TypeInv, WholeInv, Whole, Replacing, Settle, containers, outside, Env, At,
     Held, NoRecord
<1> QED
  BY <1>1, <1>2, <1>3, <1>4 DEF IInv

LEMMA HoldKeeps == ASSUME IInv, Hold PROVE IInv'
<1>0. (record = NoRecord <=> Env = None) /\ (record # NoRecord <=> Env \in Environments)
  BY RecordNames DEF IInv
<1>1. TypeInv'
  <2>1. ContainersType'
    BY DEF IInv, TypeInv, ContainersType, Hold, containers
  <2>2. RecordsType'
    BY <1>0 DEF IInv, TypeInv, RecordsType, Hold, Env, Held
  <2>3. ProcType'
    BY DEF IInv, TypeInv, ProcType, Hold, Goes, Steps, Settling
  <2>4. RestType'
    BY DEF IInv, TypeInv, RestType, Hold, outside
  <2> QED
    BY <2>1, <2>2, <2>3, <2>4 DEF TypeInv
<1>2. StepInv'
  BY <1>0 DEF IInv, TypeInv, RecordsType, StepInv, Hold, Goes, Env, At, Held, Swapping, Clear
<1>3. LimitsGoBack'
  BY <1>0 DEF IInv, TypeInv, RecordsType, LimitsGoBack, Hold, Held
<1>4. WholeInv'
  <2>1. Env \in touched
    BY <1>0, Recognises DEF IInv, Hold
  <2> QED
    BY <2>1 DEF IInv, WholeInv, Whole, Hold, Held, containers, outside, Env
<1> QED
  BY <1>1, <1>2, <1>3, <1>4 DEF IInv

LEMMA HoldSettlesKeeps == ASSUME IInv, HoldSettles PROVE IInv'
<1>0. (record = NoRecord <=> Env = None) /\ (record # NoRecord <=> Env \in Environments)
  BY RecordNames DEF IInv
<1>1. TypeInv'
  <2>1. ContainersType'
    BY DEF IInv, TypeInv, ContainersType, HoldSettles, containers
  <2>2. RecordsType'
    BY DEF IInv, TypeInv, RecordsType, HoldSettles, None, Held, NoRecord, Records, IsRecord, Containers
  <2>3. ProcType'
    BY DEF IInv, TypeInv, ProcType, HoldSettles, Goes, AfterSettled, Steps, Clear
  <2>4. RestType'
    BY DEF IInv, TypeInv, RestType, HoldSettles, outside
  <2> QED
    BY <2>1, <2>2, <2>3, <2>4 DEF TypeInv
<1>2. StepInv'
  BY DEF IInv, TypeInv, StepInv, HoldSettles, Goes, AfterSettled, At, Swapping, Settling
<1>3. LimitsGoBack'
  BY DEF IInv, TypeInv, StepInv, LimitsGoBack, HoldSettles, Held
<1>4. WholeInv'
  BY RollingConstants DEF IInv, TypeInv, StepInv, WholeInv, Whole, HoldSettles, containers, outside, Env,
     Held, NoRecord
<1> QED
  BY <1>1, <1>2, <1>3, <1>4 DEF IInv

LEMMA RepairStopsKeeps == ASSUME IInv, RepairStops PROVE IInv'
<1>0. (record = NoRecord <=> Env = None) /\ (record # NoRecord <=> Env \in Environments)
  BY RecordNames DEF IInv
<1>1. ProcType'
  BY DEF IInv, TypeInv, ProcType, RepairStops, Ends, Nobody, Kinds, Steps
<1>2. RestType'
  BY DEF IInv, TypeInv, RestType, RepairStops, records, outside
<1>3. /\ proc'.at \in Clear \cup {None, "repair"} /\ (proc'.at \in Clear => record = NoRecord)
      /\ proc'.at = "swap" => proc'.env \in Environments
  BY DEF IInv, TypeInv, RepairStops, Ends, Nobody, None, Clear
<1>4. UNCHANGED <<containers, address, wide, record, held, touched>>
  BY DEF RepairStops, containers, records, outside
<1> QED
  BY <1>1, <1>2, <1>3, <1>4, Frame

LEMMA RepairForcesKeeps == ASSUME IInv, RepairForces PROVE IInv'
<1>0. (record = NoRecord <=> Env = None) /\ (record # NoRecord <=> Env \in Environments)
  BY RecordNames DEF IInv
<1>1. TypeInv'
  <2>1. ContainersType'
    <3>1. CASE DropNext \/ DropCanonical
      BY <1>0, <3>1, Drops DEF IInv, TypeInv, RepairForces
    <3>2. CASE UNCHANGED containers
      BY <3>2 DEF IInv, TypeInv, RepairForces, ContainersType, containers
    <3> QED
      BY <3>1, <3>2 DEF RepairForces
  <2>2. RecordsType'
    BY DEF IInv, TypeInv, RecordsType, RepairForces, records, Held
  <2>3. ProcType'
    BY DEF IInv, TypeInv, ProcType, RepairForces, Goes, Ends, Nobody, Kinds, Steps, Settling
  <2>4. RestType'
    BY DEF IInv, TypeInv, RestType, RepairForces, records, outside
  <2> QED
    BY <2>1, <2>2, <2>3, <2>4 DEF TypeInv
<1>2. StepInv'
  BY <1>0 DEF IInv, TypeInv, ProcType, StepInv, RepairForces, Goes, Ends, Nobody, records, Env, None, At,
     Swapping, Clear
<1>3. LimitsGoBack'
  BY DEF IInv, TypeInv, LimitsGoBack, RepairForces, records, Env, Held
<1>4. WholeInv'
  <2>1. Env \in touched
    BY <1>0, Recognises DEF IInv, RepairForces
  <2> QED
    BY <2>1 DEF IInv, TypeInv, ContainersType, WholeInv, Whole, RepairForces, DropNext, Held, containers,
       records, outside, Env
<1> QED
  BY <1>1, <1>2, <1>3, <1>4 DEF IInv

LEMMA CommandEndsKeeps == ASSUME IInv, CommandEnds PROVE IInv'
<1>0. (record = NoRecord <=> Env = None) /\ (record # NoRecord <=> Env \in Environments)
  BY RecordNames DEF IInv
<1>1. ProcType'
  BY DEF IInv, TypeInv, ProcType, CommandEnds, Ends, Nobody, Kinds, Steps
<1>2. RestType'
  BY DEF IInv, TypeInv, RestType, CommandEnds, records
<1>3. /\ proc'.at \in Clear \cup {None, "repair"} /\ (proc'.at \in Clear => record = NoRecord)
      /\ proc'.at = "swap" => proc'.env \in Environments
  BY DEF IInv, TypeInv, CommandEnds, Ends, Nobody, None, Clear
<1>4. UNCHANGED <<containers, address, wide, record, held, touched>>
  BY DEF CommandEnds, containers, records
<1> QED
  BY <1>1, <1>2, <1>3, <1>4, Frame

LEMMA BeginKeeps == ASSUME IInv, Begin PROVE IInv'
<1>0. (record = NoRecord <=> Env = None) /\ (record # NoRecord <=> Env \in Environments)
  BY RecordNames DEF IInv
<1>1. ProcType'
  BY <1>0 DEF IInv, TypeInv, ProcType, StepInv, Begin, containers, outside, Env, E, None, Kinds, Steps,
     Swapping, Settling, Clear
<1>2. RestType'
  BY DEF IInv, TypeInv, RestType, Begin, outside
<1>3. /\ proc'.at \in Clear \cup {None, "repair"} /\ (proc'.at \in Clear => record = NoRecord)
      /\ proc'.at = "swap" => proc'.env \in Environments
  BY DEF IInv, TypeInv, StepInv, Begin, None, At, Clear
<1>4. UNCHANGED <<containers, address, wide, record, held, touched>>
  BY DEF Begin, containers, outside
<1> QED
  BY <1>1, <1>2, <1>3, <1>4, Frame

LEMMA FinishStartKeeps == ASSUME IInv, FinishStart PROVE IInv'
<1>0. (record = NoRecord <=> Env = None) /\ (record # NoRecord <=> Env \in Environments)
  BY RecordNames DEF IInv
<1>1. ProcType'
  BY DEF IInv, TypeInv, ProcType, FinishStart, Ends, Nobody, Kinds, Steps
<1>2. RestType'
  BY DEF IInv, TypeInv, RestType, FinishStart
<1>3. /\ proc'.at \in Clear \cup {None, "repair"} /\ (proc'.at \in Clear => record = NoRecord)
      /\ proc'.at = "swap" => proc'.env \in Environments
  BY DEF IInv, TypeInv, FinishStart, Ends, Nobody, None, Clear
<1>4. UNCHANGED <<containers, address, wide, record, held, touched>>
  BY DEF FinishStart, containers
<1> QED
  BY <1>1, <1>2, <1>3, <1>4, Frame

LEMMA PickKeeps == ASSUME IInv, Pick PROVE IInv'
<1>0. (record = NoRecord <=> Env = None) /\ (record # NoRecord <=> Env \in Environments)
  BY RecordNames DEF IInv
<1>1. ProcType'
  <2>1. CASE proc' = Nobody
    BY <2>1 DEF ProcType, Nobody, Kinds, Steps
  <2>2. ASSUME NEW e \in Environments, proc' = [proc EXCEPT !.at = "swap", !.env = e] PROVE ProcType'
    BY <2>2 DEF IInv, TypeInv, ProcType, Steps, Clear
  <2> QED
    BY <2>1, <2>2 DEF Pick, Ends, Candidates
<1>2. RestType'
  BY <1>0 DEF IInv, TypeInv, RestType, StepInv, Pick, Ends, Nobody, Candidates, Revived, containers,
     outside, Env, E, None, At, Swapping, Settling
<1>3. /\ proc'.at \in Clear \cup {None, "repair"} /\ (proc'.at \in Clear => record = NoRecord)
      /\ proc'.at = "swap" => proc'.env \in Environments
  <2>1. record = NoRecord /\ ProcType
    BY DEF Pick, IInv, TypeInv, StepInv, At, Clear
  <2>2. CASE proc' = Nobody
    BY <2>2 DEF Nobody, None, Clear
  <2>3. ASSUME NEW e \in Environments, proc' = [proc EXCEPT !.at = "swap", !.env = e]
        PROVE  proc'.at = "swap" /\ proc'.env \in Environments
    BY <2>3
  <2>4. proc' = Nobody \/ \E e \in Environments : proc' = [proc EXCEPT !.at = "swap", !.env = e]
    BY DEF Pick, Ends, Candidates
  <2> QED
    BY <2>1, <2>2, <2>3, <2>4 DEF Clear
<1>4. UNCHANGED <<containers, address, wide, record, held, touched>>
  BY DEF Pick, Ends, Nobody, Candidates, Revived, containers, outside, E, None
<1> QED
  BY <1>1, <1>2, <1>3, <1>4, Frame

LEMMA SkipKeeps == ASSUME IInv, Skip PROVE IInv'
<1>0. (record = NoRecord <=> Env = None) /\ (record # NoRecord <=> Env \in Environments)
  BY RecordNames DEF IInv
<1>1. ProcType'
  BY DEF IInv, TypeInv, ProcType, Skip, Ends, Nobody, Kinds, Steps
<1>2. RestType'
  BY DEF IInv, TypeInv, RestType, StepInv, Skip, outside
<1>3. /\ proc'.at \in Clear \cup {None, "repair"} /\ (proc'.at \in Clear => record = NoRecord)
      /\ proc'.at = "swap" => proc'.env \in Environments
  BY DEF IInv, TypeInv, Skip, Ends, Nobody, None, Clear
<1>4. UNCHANGED <<containers, address, wide, record, held, touched>>
  BY DEF Skip, containers, outside
<1> QED
  BY <1>1, <1>2, <1>3, <1>4, Frame

LEMMA AlreadyKeeps == ASSUME IInv, Already PROVE IInv'
<1>0. (record = NoRecord <=> Env = None) /\ (record # NoRecord <=> Env \in Environments)
  BY RecordNames DEF IInv
<1>1. ProcType'
  BY DEF IInv, TypeInv, ProcType, Already, Goes, Steps, Clear
<1>2. RestType'
  BY DEF IInv, TypeInv, RestType, Already, records, outside
<1>3. /\ proc'.at \in Clear \cup {None, "repair"} /\ (proc'.at \in Clear => record = NoRecord)
      /\ proc'.at = "swap" => proc'.env \in Environments
  BY DEF IInv, TypeInv, StepInv, Already, Goes, None, At, Clear
<1>4. UNCHANGED <<containers, address, wide, record, held, touched>>
  BY DEF Already, containers, records, outside
<1> QED
  BY <1>1, <1>2, <1>3, <1>4, Frame

LEMMA NotAdmittedKeeps == ASSUME IInv, NotAdmitted PROVE IInv'
<1>0. (record = NoRecord <=> Env = None) /\ (record # NoRecord <=> Env \in Environments)
  BY RecordNames DEF IInv
<1>1. ProcType'
  BY DEF IInv, TypeInv, ProcType, NotAdmitted, Goes, Steps, Clear
<1>2. RestType'
  BY DEF IInv, TypeInv, RestType, NotAdmitted, Count, CountNames, records
<1>3. /\ proc'.at \in Clear \cup {None, "repair"} /\ (proc'.at \in Clear => record = NoRecord)
      /\ proc'.at = "swap" => proc'.env \in Environments
  BY DEF IInv, TypeInv, StepInv, NotAdmitted, Goes, None, At, Clear
<1>4. UNCHANGED <<containers, address, wide, record, held, touched>>
  BY DEF NotAdmitted, containers, records
<1> QED
  BY <1>1, <1>2, <1>3, <1>4, Frame

LEMMA UnexpectedKeeps == ASSUME IInv, Unexpected PROVE IInv'
<1>0. (record = NoRecord <=> Env = None) /\ (record # NoRecord <=> Env \in Environments)
  BY RecordNames DEF IInv
<1>1. ProcType'
  BY DEF IInv, TypeInv, ProcType, Unexpected, Ends, Nobody, Kinds, Steps
<1>2. RestType'
  BY DEF IInv, TypeInv, RestType, Unexpected, records, outside
<1>3. /\ proc'.at \in Clear \cup {None, "repair"} /\ (proc'.at \in Clear => record = NoRecord)
      /\ proc'.at = "swap" => proc'.env \in Environments
  BY DEF IInv, TypeInv, Unexpected, Ends, Nobody, None, Clear
<1>4. UNCHANGED <<containers, address, wide, record, held, touched>>
  BY DEF Unexpected, containers, records, outside
<1> QED
  BY <1>1, <1>2, <1>3, <1>4, Frame

LEMMA WriteRecordKeeps == ASSUME IInv, WriteRecord PROVE IInv'
<1>0. (record = NoRecord <=> Env = None) /\ (record # NoRecord <=> Env \in Environments)
  BY RecordNames DEF IInv
<1>1. TypeInv'
  <2>1. ContainersType'
    BY DEF IInv, TypeInv, ContainersType, WriteRecord, containers
  <2>2. RecordsType'
    BY DEF IInv, TypeInv, ContainersType, RecordsType, StepInv, WriteRecord, Held, Records, IsRecord,
       Phases
  <2>3. ProcType'
    BY <1>0 DEF IInv, TypeInv, ProcType, StepInv, WriteRecord, containers, outside, Env, E, None, Kinds,
       Steps, Swapping, Settling, Clear
  <2>4. RestType'
    BY DEF IInv, TypeInv, RestType, WriteRecord, outside
  <2> QED
    BY <2>1, <2>2, <2>3, <2>4 DEF TypeInv
<1>2. StepInv'
  BY DEF IInv, TypeInv, StepInv, WriteRecord, Env, E, At, Clear
<1>3. LimitsGoBack'
  BY <1>0 DEF IInv, TypeInv, RestType, StepInv, LimitsGoBack, WriteRecord, At, Held, Clear
<1>4. WholeInv'
  BY <1>0 DEF IInv, TypeInv, StepInv, WholeInv, Whole, Replacing, Early, WriteRecord, containers, outside,
     Env, At, Held, Clear
<1> QED
  BY <1>1, <1>2, <1>3, <1>4 DEF IInv

LEMMA WidenKeeps == ASSUME IInv, Widen PROVE IInv'
<1>0. (record = NoRecord <=> Env = None) /\ (record # NoRecord <=> Env \in Environments)
  BY RecordNames DEF IInv
<1>1. TypeInv'
  <2>1. ContainersType'
    BY DEF IInv, TypeInv, ContainersType, Widen, containers
  <2>2. RecordsType'
    BY DEF IInv, TypeInv, RecordsType, Widen, records, Held
  <2>3. ProcType'
    BY DEF IInv, TypeInv, ProcType, Widen, Goes, Steps, Swapping
  <2>4. RestType'
    BY DEF IInv, TypeInv, RestType, StepInv, Widen, records, outside, At, Swapping
  <2> QED
    BY <2>1, <2>2, <2>3, <2>4 DEF TypeInv
<1>2. StepInv'
  BY DEF IInv, TypeInv, StepInv, Widen, Goes, records, Env, E, At, Swapping, Clear
<1>3. LimitsGoBack'
  BY DEF IInv, TypeInv, StepInv, LimitsGoBack, Widen, records, Env, At, Held, Swapping
<1>4. WholeInv'
  BY DEF IInv, TypeInv, WholeInv, Whole, Replacing, Early, Widen, Goes, containers, records, outside, Env,
     At, Held
<1> QED
  BY <1>1, <1>2, <1>3, <1>4 DEF IInv

LEMMA LaunchNextKeeps == ASSUME IInv, LaunchNext PROVE IInv'
<1>0. (record = NoRecord <=> Env = None) /\ (record # NoRecord <=> Env \in Environments)
  BY RecordNames DEF IInv
<1>1. TypeInv'
  <2>1. ContainersType'
    <3>1. Env \in Environments /\ E = Env
      BY DEF IInv, StepInv, LaunchNext, Swapping, At
    <3>2. files' \in [Environments -> [canonical : Containers, next : BOOLEAN]]
      BY <3>1, NextFile DEF IInv, TypeInv, LaunchNext
    <3> QED
      BY <3>2 DEF IInv, TypeInv, LaunchNext, ContainersType, Containers
  <2>2. RecordsType'
    BY DEF IInv, TypeInv, RecordsType, LaunchNext, records, Held
  <2>3. ProcType'
    BY DEF IInv, TypeInv, ProcType, LaunchNext, Goes, Steps, Swapping
  <2>4. RestType'
    BY DEF IInv, TypeInv, RestType, LaunchNext, records, outside
  <2> QED
    BY <2>1, <2>2, <2>3, <2>4 DEF TypeInv
<1>2. StepInv'
  BY DEF IInv, TypeInv, ContainersType, StepInv, LaunchNext, Goes, records, Env, E, At, Swapping, Clear
<1>3. LimitsGoBack'
  BY DEF IInv, TypeInv, LimitsGoBack, LaunchNext, records, Env, Held
<1>4. WholeInv'
  BY DEF IInv, TypeInv, ContainersType, StepInv, WholeInv, Whole, Replacing, Early, LaunchNext, Goes,
     records, outside, Env, None, At, Held, Swapping
<1> QED
  BY <1>1, <1>2, <1>3, <1>4 DEF IInv

LEMMA NoteNewKeeps == ASSUME IInv, NoteNew PROVE IInv'
<1>0. (record = NoRecord <=> Env = None) /\ (record # NoRecord <=> Env \in Environments)
  BY RecordNames DEF IInv
<1>1. TypeInv'
  <2>1. ContainersType'
    BY DEF IInv, TypeInv, ContainersType, NoteNew, containers
  <2>2. RecordsType'
    BY DEF IInv, TypeInv, RecordsType, StepInv, NoteNew, None, At, Held, NoRecord, Records, IsRecord
  <2>3. ProcType'
    BY DEF IInv, TypeInv, ProcType, NoteNew, Goes, Steps, Swapping
  <2>4. RestType'
    BY DEF IInv, TypeInv, RestType, NoteNew, outside
  <2> QED
    BY <2>1, <2>2, <2>3, <2>4 DEF TypeInv
<1>2. StepInv'
  BY DEF IInv, TypeInv, StepInv, NoteNew, Goes, containers, Env, E, At, Swapping, Clear
<1>3. LimitsGoBack'
  BY DEF IInv, TypeInv, LimitsGoBack, NoteNew, Env, Held
<1>4. WholeInv'
  BY DEF IInv, TypeInv, WholeInv, Whole, Replacing, Early, NoteNew, Goes, containers, outside, Env, At, Held
<1> QED
  BY <1>1, <1>2, <1>3, <1>4 DEF IInv

LEMMA BootsKeeps == ASSUME IInv, Boots PROVE IInv'
<1>0. (record = NoRecord <=> Env = None) /\ (record # NoRecord <=> Env \in Environments)
  BY RecordNames DEF IInv
<1>1. TypeInv'
  <2>1. ContainersType'
    BY DEF IInv, TypeInv, ContainersType, Boots, containers
  <2>2. RecordsType'
    BY DEF IInv, TypeInv, RecordsType, StepInv, Boots, None, Held, NoRecord, Records, IsRecord, Phases
  <2>3. ProcType'
    BY DEF IInv, TypeInv, ProcType, Boots, Goes, Steps, Swapping
  <2>4. RestType'
    BY DEF IInv, TypeInv, RestType, Boots, outside
  <2> QED
    BY <2>1, <2>2, <2>3, <2>4 DEF TypeInv
<1>2. StepInv'
  BY DEF IInv, TypeInv, StepInv, Boots, Goes, containers, Env, E, At, Swapping, Clear
<1>3. LimitsGoBack'
  BY DEF IInv, TypeInv, LimitsGoBack, Boots, Env, Held
<1>4. WholeInv'
  BY DEF IInv, TypeInv, StepInv, WholeInv, Whole, Replacing, Early, Boots, Goes, containers, outside, Env,
     At, Held
<1> QED
  BY <1>1, <1>2, <1>3, <1>4 DEF IInv

LEMMA PointKeeps == ASSUME IInv, Point PROVE IInv'
<1>0. (record = NoRecord <=> Env = None) /\ (record # NoRecord <=> Env \in Environments)
  BY RecordNames DEF IInv
<1>1. TypeInv'
  <2>1. ContainersType'
    BY <1>0 DEF IInv, TypeInv, ContainersType, RecordsType, RestType, StepInv, Point, Goes, containers,
       records, outside, Env, E, None, At, NoRecord, Containers
  <2>2. RecordsType'
    BY DEF IInv, TypeInv, RecordsType, Point, records, Held
  <2>3. ProcType'
    BY DEF IInv, TypeInv, ProcType, Point, Goes, Steps, Swapping
  <2>4. RestType'
    BY DEF IInv, TypeInv, RestType, Point, records, outside
  <2> QED
    BY <2>1, <2>2, <2>3, <2>4 DEF TypeInv
<1>2. StepInv'
  BY DEF IInv, TypeInv, StepInv, Point, Goes, containers, records, Env, E, At, Swapping, Clear
<1>3. LimitsGoBack'
  BY DEF IInv, TypeInv, LimitsGoBack, Point, records, Env, Held
<1>4. WholeInv'
  BY DEF IInv, TypeInv, StepInv, WholeInv, Whole, Replacing, Early, Point, Goes, containers, records,
     outside, Env, At, Held, Swapping
<1> QED
  BY <1>1, <1>2, <1>3, <1>4 DEF IInv

LEMMA RetireKeeps == ASSUME IInv, Retire PROVE IInv'
<1>0. (record = NoRecord <=> Env = None) /\ (record # NoRecord <=> Env \in Environments)
  BY RecordNames DEF IInv
<1>1. TypeInv'
  <2>1. ContainersType'
    BY DEF IInv, TypeInv, ContainersType, Retire, containers
  <2>2. RecordsType'
    BY DEF IInv, TypeInv, RecordsType, StepInv, Retire, At, Held, NoRecord, Records, IsRecord, Phases
  <2>3. ProcType'
    BY DEF IInv, TypeInv, ProcType, Retire, Goes, Steps, Swapping
  <2>4. RestType'
    BY DEF IInv, TypeInv, RestType, Retire, outside
  <2> QED
    BY <2>1, <2>2, <2>3, <2>4 DEF TypeInv
<1>2. StepInv'
  BY DEF IInv, TypeInv, StepInv, Retire, Goes, containers, Env, E, At, Swapping, Clear
<1>3. LimitsGoBack'
  BY DEF IInv, TypeInv, LimitsGoBack, Retire, Env, Held
<1>4. WholeInv'
  BY DEF IInv, TypeInv, StepInv, WholeInv, Whole, Replacing, Retire, Goes, containers, outside, Env, None,
     At, Held
<1> QED
  BY <1>1, <1>2, <1>3, <1>4 DEF IInv

LEMMA RemoveOldKeeps == ASSUME IInv, RemoveOld PROVE IInv'
<1>0. (record = NoRecord <=> Env = None) /\ (record # NoRecord <=> Env \in Environments)
  BY RecordNames DEF IInv
<1>1. TypeInv'
  <2>1. ContainersType'
    BY <1>0 DEF IInv, TypeInv, ContainersType, RecordsType, StepInv, RemoveOld, DropCanonical, NoRecord,
       Containers
  <2>2. RecordsType'
    BY DEF IInv, TypeInv, RecordsType, RemoveOld, records, Held
  <2>3. ProcType'
    BY DEF IInv, TypeInv, ProcType, RemoveOld, Goes, Steps, Settling
  <2>4. RestType'
    BY DEF IInv, TypeInv, RestType, RemoveOld, records, outside
  <2> QED
    BY <2>1, <2>2, <2>3, <2>4 DEF TypeInv
<1>2. StepInv'
  BY DEF IInv, TypeInv, ContainersType, StepInv, RemoveOld, Goes, DropCanonical, records, Env, None, At,
     Swapping, Clear
<1>3. LimitsGoBack'
  BY DEF IInv, TypeInv, LimitsGoBack, RemoveOld, records, Env, Held
<1>4. WholeInv'
  BY DEF IInv, TypeInv, StepInv, WholeInv, Whole, Replacing, Early, RemoveOld, Goes, DropCanonical, records,
     outside, Env, At, Held
<1> QED
  BY <1>1, <1>2, <1>3, <1>4 DEF IInv

LEMMA FailsKeeps == ASSUME IInv, Fails PROVE IInv'
<1>0. (record = NoRecord <=> Env = None) /\ (record # NoRecord <=> Env \in Environments)
  BY RecordNames DEF IInv
<1>1. ProcType'
  BY <1>0 DEF IInv, TypeInv, ProcType, StepInv, Fails, Count, BeforeRetiring, Nobody, containers, records,
     Env, E, None, Kinds, Steps, Swapping, Settling, Clear
<1>2. RestType'
  BY DEF IInv, TypeInv, RestType, Fails, Count, CountNames, records
<1>3. /\ proc'.at \in Clear \cup {None, "repair"} /\ (proc'.at \in Clear => record = NoRecord)
      /\ proc'.at = "swap" => proc'.env \in Environments
  BY DEF IInv, TypeInv, Fails, Nobody, None, Clear
<1>4. UNCHANGED <<containers, address, wide, record, held, touched>>
  BY DEF Fails, containers, records
<1> QED
  BY <1>1, <1>2, <1>3, <1>4, Frame

LEMMA ReplacedKeeps == ASSUME IInv, Replaced PROVE IInv'
<1>0. (record = NoRecord <=> Env = None) /\ (record # NoRecord <=> Env \in Environments)
  BY RecordNames DEF IInv
<1>1. ProcType'
  BY DEF IInv, TypeInv, ProcType, Replaced, Ends, Nobody, Kinds, Steps
<1>2. RestType'
  BY <1>0 DEF IInv, TypeInv, RestType, StepInv, Replaced, Ends, Nobody, containers, outside, Env, E, None,
     At, Swapping, Settling
<1>3. /\ proc'.at \in Clear \cup {None, "repair"} /\ (proc'.at \in Clear => record = NoRecord)
      /\ proc'.at = "swap" => proc'.env \in Environments
  BY DEF IInv, TypeInv, Replaced, Ends, Nobody, None, Clear
<1>4. UNCHANGED <<containers, address, wide, record, held, touched>>
  BY DEF Replaced, containers, outside
<1> QED
  BY <1>1, <1>2, <1>3, <1>4, Frame

LEMMA FailedKeeps == ASSUME IInv, Failed PROVE IInv'
<1>0. (record = NoRecord <=> Env = None) /\ (record # NoRecord <=> Env \in Environments)
  BY RecordNames DEF IInv
<1>1. ProcType'
  BY DEF IInv, TypeInv, ProcType, Failed, Ends, Nobody, Kinds, Steps
<1>2. RestType'
  BY <1>0 DEF IInv, TypeInv, RestType, StepInv, Failed, Ends, Nobody, containers, outside, Env, E, None, At,
     Swapping, Settling
<1>3. /\ proc'.at \in Clear \cup {None, "repair"} /\ (proc'.at \in Clear => record = NoRecord)
      /\ proc'.at = "swap" => proc'.env \in Environments
  BY DEF IInv, TypeInv, Failed, Ends, Nobody, None, Clear
<1>4. UNCHANGED <<containers, address, wide, record, held, touched>>
  BY DEF Failed, containers, outside
<1> QED
  BY <1>1, <1>2, <1>3, <1>4, Frame

LEMMA StartRollKeeps == ASSUME IInv, StartRoll PROVE IInv'
<1>0. (record = NoRecord <=> Env = None) /\ (record # NoRecord <=> Env \in Environments)
  BY RecordNames DEF IInv
<1>1. ProcType'
  BY <1>0 DEF IInv, TypeInv, ProcType, StepInv, StartRoll, Nobody, containers, records, outside, Env, E,
     None, Kinds, Steps, Swapping, Settling, Clear
<1>2. RestType'
  BY DEF IInv, TypeInv, RestType, StartRoll, records, outside
<1>3. /\ proc'.at \in Clear \cup {None, "repair"} /\ (proc'.at \in Clear => record = NoRecord)
      /\ proc'.at = "swap" => proc'.env \in Environments
  BY DEF IInv, TypeInv, StartRoll, None, Clear
<1>4. UNCHANGED <<containers, address, wide, record, held, touched>>
  BY DEF StartRoll, containers, records, outside
<1> QED
  BY <1>1, <1>2, <1>3, <1>4, Frame

LEMMA RetryKeeps == ASSUME IInv, Retry PROVE IInv'
<1>0. (record = NoRecord <=> Env = None) /\ (record # NoRecord <=> Env \in Environments)
  BY RecordNames DEF IInv
<1>1. ProcType'
  BY DEF IInv, TypeInv, ProcType, Retry
<1>2. RestType'
  BY DEF IInv, TypeInv, RestType, Retry, Count, CountNames
<1>3. /\ proc'.at \in Clear \cup {None, "repair"} /\ (proc'.at \in Clear => record = NoRecord)
      /\ proc'.at = "swap" => proc'.env \in Environments
  BY DEF IInv, TypeInv, Retry, Nobody, None, Clear
<1>4. UNCHANGED <<containers, address, wide, record, held, touched>>
  BY DEF Retry, containers
<1> QED
  BY <1>1, <1>2, <1>3, <1>4, Frame

LEMMA RepairCommandKeeps == ASSUME IInv, RepairCommand PROVE IInv'
<1>0. (record = NoRecord <=> Env = None) /\ (record # NoRecord <=> Env \in Environments)
  BY RecordNames DEF IInv
<1>1. ProcType'
  BY <1>0 DEF IInv, TypeInv, ProcType, StepInv, RepairCommand, Count, Nobody, containers, records, Env, E,
     None, Kinds, Steps, Swapping, Settling, Clear
<1>2. RestType'
  BY DEF IInv, TypeInv, RestType, RepairCommand, Count, CountNames, records
<1>3. /\ proc'.at \in Clear \cup {None, "repair"} /\ (proc'.at \in Clear => record = NoRecord)
      /\ proc'.at = "swap" => proc'.env \in Environments
  BY DEF IInv, TypeInv, RepairCommand, None, Clear
<1>4. UNCHANGED <<containers, address, wide, record, held, touched>>
  BY DEF RepairCommand, containers, records
<1> QED
  BY <1>1, <1>2, <1>3, <1>4, Frame

LEMMA ConfirmKeeps == ASSUME IInv, Confirm PROVE IInv'
<1>0. (record = NoRecord <=> Env = None) /\ (record # NoRecord <=> Env \in Environments)
  BY RecordNames DEF IInv
<1>1. TypeInv'
  <2>1. ContainersType'
    BY DEF IInv, TypeInv, ContainersType, Confirm, containers
  <2>2. RecordsType'
    BY DEF IInv, TypeInv, RecordsType, Confirm, records, Held
  <2>3. ProcType'
    BY DEF IInv, TypeInv, ProcType, Confirm
  <2>4. RestType'
    BY DEF IInv, TypeInv, RestType, Confirm, records
  <2> QED
    BY <2>1, <2>2, <2>3, <2>4 DEF TypeInv
<1>2. StepInv'
  BY DEF IInv, TypeInv, StepInv, Confirm, containers, records, Env, E, At, Held
<1>3. LimitsGoBack'
  BY DEF IInv, TypeInv, LimitsGoBack, Confirm, records, Env, Held
<1>4. WholeInv'
  BY DEF IInv, TypeInv, WholeInv, Whole, Replacing, Early, Confirm, containers, records, Env, At, Held
<1> QED
  BY <1>1, <1>2, <1>3, <1>4 DEF IInv

LEMMA SupervisorStopsKeeps == ASSUME IInv, SupervisorStops PROVE IInv'
<1>0. (record = NoRecord <=> Env = None) /\ (record # NoRecord <=> Env \in Environments)
  BY RecordNames DEF IInv
<1>1. TypeInv'
  <2>1. ContainersType'
    BY DEF IInv, TypeInv, ContainersType, SupervisorStops
  <2>2. RecordsType'
    BY DEF IInv, TypeInv, RecordsType, SupervisorStops, records, Held
  <2>3. ProcType'
    BY DEF IInv, TypeInv, ProcType, SupervisorStops, Nobody, Kinds, Steps
  <2>4. RestType'
    BY DEF IInv, TypeInv, RestType, SupervisorStops, Count, CountNames, records
  <2> QED
    BY <2>1, <2>2, <2>3, <2>4 DEF TypeInv
<1>2. StepInv'
  BY DEF IInv, TypeInv, StepInv, SupervisorStops, Nobody, None, At, Swapping, Settling, Clear
<1>3. LimitsGoBack'
  BY DEF IInv, TypeInv, LimitsGoBack, SupervisorStops, records, Env, Held
<1>4. WholeInv'
  BY DEF IInv, TypeInv, WholeInv, Whole, Replacing, Early, SupervisorStops, Nobody, records, Env, None, At,
     Held
<1> QED
  BY <1>1, <1>2, <1>3, <1>4 DEF IInv

LEMMA ProcessDiesKeeps == ASSUME IInv, ProcessDies PROVE IInv'
<1>0. (record = NoRecord <=> Env = None) /\ (record # NoRecord <=> Env \in Environments)
  BY RecordNames DEF IInv
<1>1. ProcType'
  BY DEF IInv, TypeInv, ProcType, ProcessDies, Nobody, Kinds, Steps
<1>2. RestType'
  BY DEF IInv, TypeInv, RestType, ProcessDies, Count, CountNames, records
<1>3. /\ proc'.at \in Clear \cup {None, "repair"} /\ (proc'.at \in Clear => record = NoRecord)
      /\ proc'.at = "swap" => proc'.env \in Environments
  BY DEF IInv, TypeInv, ProcessDies, Nobody, None, Clear
<1>4. UNCHANGED <<containers, address, wide, record, held, touched>>
  BY DEF ProcessDies, containers, records
<1> QED
  BY <1>1, <1>2, <1>3, <1>4, Frame

LEMMA StartKeeps == ASSUME IInv, Start PROVE IInv'
<1>0. (record = NoRecord <=> Env = None) /\ (record # NoRecord <=> Env \in Environments)
  BY RecordNames DEF IInv
<1>1. ProcType'
  BY <1>0 DEF IInv, TypeInv, ProcType, StepInv, Start, Nobody, containers, records, Env, E, None, Kinds,
     Steps, Swapping, Settling, Clear
<1>2. RestType'
  BY DEF IInv, TypeInv, RestType, Start, records
<1>3. /\ proc'.at \in Clear \cup {None, "repair"} /\ (proc'.at \in Clear => record = NoRecord)
      /\ proc'.at = "swap" => proc'.env \in Environments
  BY DEF IInv, TypeInv, Start, None, Clear
<1>4. UNCHANGED <<containers, address, wide, record, held, touched>>
  BY DEF Start, containers, records
<1> QED
  BY <1>1, <1>2, <1>3, <1>4, Frame

LEMMA ResumeKeeps == ASSUME IInv, NEW e \in Environments, Resume(e) PROVE IInv'
<1>0. (record = NoRecord <=> Env = None) /\ (record # NoRecord <=> Env \in Environments)
  BY RecordNames DEF IInv
<1>1. TypeInv'
  <2>1. ContainersType'
    BY DEF IInv, TypeInv, ContainersType, Resume, Deferred, None
  <2>2. RecordsType'
    BY DEF IInv, TypeInv, RecordsType, Resume, Held
  <2>3. ProcType'
    BY <1>0 DEF IInv, TypeInv, ProcType, StepInv, Resume, Deferred, Planned, outside, Env, E, None, Kinds,
       Steps, Swapping, Settling, Clear
  <2>4. RestType'
    BY DEF IInv, TypeInv, RestType, Resume, outside
  <2> QED
    BY <2>1, <2>2, <2>3, <2>4 DEF TypeInv
<1>2. StepInv'
  BY DEF IInv, TypeInv, StepInv, Resume, Env, E, At
<1>3. LimitsGoBack'
  BY DEF IInv, TypeInv, LimitsGoBack, Resume, Env, Held
<1>4. WholeInv'
  BY DEF IInv, TypeInv, ContainersType, WholeInv, Whole, Replacing, Early, Resume, outside, Env, At, Held
<1> QED
  BY <1>1, <1>2, <1>3, <1>4 DEF IInv

LEMMA ResumeRefusesKeeps == ASSUME IInv, NEW e \in Environments, ResumeRefuses(e) PROVE IInv'
<1>0. (record = NoRecord <=> Env = None) /\ (record # NoRecord <=> Env \in Environments)
  BY RecordNames DEF IInv
<1>1. ProcType'
  BY DEF IInv, TypeInv, ProcType, ResumeRefuses, Refuses, Ends, Nobody, Kinds, Steps
<1>2. RestType'
  BY DEF IInv, TypeInv, RestType, ResumeRefuses, Refuses, records
<1>3. /\ proc'.at \in Clear \cup {None, "repair"} /\ (proc'.at \in Clear => record = NoRecord)
      /\ proc'.at = "swap" => proc'.env \in Environments
  BY DEF IInv, TypeInv, ResumeRefuses, Refuses, Ends, Nobody, None, Clear
<1>4. UNCHANGED <<containers, address, wide, record, held, touched>>
  BY DEF ResumeRefuses, Refuses, containers, records
<1> QED
  BY <1>1, <1>2, <1>3, <1>4, Frame

LEMMA ForceCommandKeeps == ASSUME IInv, NEW e \in Environments, ForceCommand(e) PROVE IInv'
<1>0. (record = NoRecord <=> Env = None) /\ (record # NoRecord <=> Env \in Environments)
  BY RecordNames DEF IInv
<1>1. TypeInv'
  <2>1. ContainersType'
    BY DEF IInv, TypeInv, ContainersType, ForceCommand, containers
  <2>2. RecordsType'
    <3>1. CASE record' = held[e] /\ held' = [held EXCEPT ![e] = NoRecord]
      <4>1. held[e] \in Records /\ IsRecord(held[e])
        BY DEF IInv, TypeInv, RecordsType
      <4>2. record' \in Records /\ IsRecord(record') /\ (record'.phase \in {"switched", "retiring"} => record'.new = "new")
        BY <3>1 DEF IInv, TypeInv, RecordsType
      <4>3. NoRecord \in Records /\ IsRecord(NoRecord) /\ NoRecord.phase \notin {"switched", "retiring"}
        BY DEF NoRecord, Records, IsRecord, Containers, None
      <4>4. held' \in [Environments -> Records]
        BY <3>1, <4>3 DEF IInv, TypeInv, RecordsType
      <4>5. \A f \in Environments : /\ IsRecord(held'[f]) /\ (held'[f] # NoRecord => held'[f].env = f)
                                    /\ held'[f].phase \in {"switched", "retiring"} => held'[f].new = "new"
        BY <3>1, <4>3 DEF IInv, TypeInv, RecordsType, Held
      <4> QED
        BY <4>2, <4>4, <4>5 DEF RecordsType, Held
    <3>2. CASE UNCHANGED <<record, held>>
      BY <3>2 DEF IInv, TypeInv, RecordsType, Held
    <3> QED
      BY <3>1, <3>2 DEF ForceCommand
  <2>3. ProcType'
    BY <1>0 DEF IInv, TypeInv, ProcType, StepInv, ForceCommand, Count, Nobody, containers, Env, E, None,
       Kinds, Steps, Swapping, Settling, Clear
  <2>4. RestType'
    BY DEF IInv, TypeInv, RestType, ForceCommand, Count, CountNames
  <2> QED
    BY <2>1, <2>2, <2>3, <2>4 DEF TypeInv
<1>2. StepInv'
  BY DEF IInv, TypeInv, RecordsType, StepInv, ForceCommand, Env, E, At, Clear
<1>3. LimitsGoBack'
  BY <1>0 DEF IInv, TypeInv, RecordsType, RestType, LimitsGoBack, ForceCommand, Env, Held
<1>4. WholeInv'
  BY <1>0 DEF IInv, TypeInv, RecordsType, WholeInv, Whole, Replacing, Early, ForceCommand, containers, Env,
     At, Held
<1> QED
  BY <1>1, <1>2, <1>3, <1>4 DEF IInv

LEMMA FenceKeeps == ASSUME IInv, NEW e \in Environments, Fence(e) PROVE IInv'
<1>0. (record = NoRecord <=> Env = None) /\ (record # NoRecord <=> Env \in Environments)
  BY RecordNames DEF IInv
<1>1. ProcType'
  BY DEF IInv, TypeInv, ProcType, Fence
<1>2. RestType'
  BY DEF IInv, TypeInv, RestType, Fence, Count, records
<1>3. /\ proc'.at \in Clear \cup {None, "repair"} /\ (proc'.at \in Clear => record = NoRecord)
      /\ proc'.at = "swap" => proc'.env \in Environments
  BY DEF IInv, TypeInv, Fence, Nobody, None, Clear
<1>4. UNCHANGED <<containers, address, wide, record, held, touched>>
  BY DEF Fence, containers, records
<1> QED
  BY <1>1, <1>2, <1>3, <1>4, Frame

LEMMA StudioWritesKeeps == ASSUME IInv, NEW e \in Environments, StudioWrites(e) PROVE IInv'
<1>0. (record = NoRecord <=> Env = None) /\ (record # NoRecord <=> Env \in Environments)
  BY RecordNames DEF IInv
<1>1. TypeInv'
  <2>1. ContainersType'
    BY DEF IInv, TypeInv, ContainersType, StudioWrites, containers
  <2>2. RecordsType'
    BY DEF IInv, TypeInv, RecordsType, StudioWrites, records, Held
  <2>3. ProcType'
    BY DEF IInv, TypeInv, ProcType, StudioWrites
  <2>4. RestType'
    BY DEF IInv, TypeInv, RestType, StudioWrites, Count, CountNames, records
  <2> QED
    BY <2>1, <2>2, <2>3, <2>4 DEF TypeInv
<1>2. StepInv'
  BY DEF IInv, TypeInv, StepInv, StudioWrites, LimitLockHeld, containers, records, Env, E, At, Held
<1>3. LimitsGoBack'
  BY DEF IInv, TypeInv, LimitsGoBack, StudioWrites, records, Env, Held
<1>4. WholeInv'
  BY DEF IInv, TypeInv, WholeInv, Whole, Replacing, Early, StudioWrites, containers, records, Env, At, Held
<1> QED
  BY <1>1, <1>2, <1>3, <1>4 DEF IInv

LEMMA ByHandKeeps == ASSUME IInv, NEW e \in Environments, ByHand(e) PROVE IInv'
<1>0. (record = NoRecord <=> Env = None) /\ (record # NoRecord <=> Env \in Environments)
  BY RecordNames DEF IInv
<1>1. TypeInv'
  <2>1. ContainersType'
    <3>1. UNCHANGED <<files, address>> /\ ContainersType
      BY DEF ByHand, IInv, TypeInv
    <3>2. CASE canonical' = [canonical EXCEPT ![e] = None] /\ up' = [up EXCEPT ![e] = FALSE] /\ UNCHANGED next
      BY <3>1, <3>2 DEF ContainersType, Containers
    <3>3. CASE (next' = [next EXCEPT ![e] = None] \/ next' = [next EXCEPT ![e] = "other"]) /\ UNCHANGED <<canonical, up>>
      BY <3>1, <3>3 DEF ContainersType, Containers, None
    <3>4. CASE canonical[e] # None /\ up' = [up EXCEPT ![e] = ~@] /\ UNCHANGED <<canonical, next>>
      BY <3>1, <3>4 DEF ContainersType
    <3> QED
      BY <3>2, <3>3, <3>4 DEF ByHand
  <2>2. RecordsType'
    BY DEF IInv, TypeInv, RecordsType, ByHand, records, Held
  <2>3. ProcType'
    BY DEF IInv, TypeInv, ProcType, ByHand
  <2>4. RestType'
    BY DEF IInv, TypeInv, RestType, ByHand, Count, CountNames, records
  <2> QED
    BY <2>1, <2>2, <2>3, <2>4 DEF TypeInv
<1>2. StepInv'
  <2>1. proc = Nobody /\ UNCHANGED <<record, held, proc, wide>>
    BY DEF ByHand, records
  <2> QED
    BY <2>1 DEF StepInv, Nobody, None, At, Clear, Settling, Swapping
<1>3. LimitsGoBack'
  BY DEF IInv, TypeInv, LimitsGoBack, ByHand, records, Env, Held
<1>4. WholeInv'
  BY DEF IInv, TypeInv, ContainersType, WholeInv, Whole, Replacing, Early, ByHand, records, Env, At, Held
<1> QED
  BY <1>1, <1>2, <1>3, <1>4 DEF IInv

-------------------------------------------------------------------------------
(* The theorems. *)

LEMMA NextKeeps == ASSUME IInv, [Next]_vars PROVE IInv'
<1>1. CASE UNCHANGED vars
  BY <1>1 DEF vars, containers, records, outside, IInv, TypeInv, ContainersType, RecordsType, ProcType,
     RestType, StepInv, LimitsGoBack, WholeInv, Whole, Replacing, Early, At, Held, Env, E
<1>2. ASSUME NEW e \in Environments,
             Resume(e) \/ ResumeRefuses(e) \/ ForceCommand(e) \/ Fence(e) \/ StudioWrites(e) \/ ByHand(e)
      PROVE  IInv'
  BY <1>2, ResumeKeeps, ResumeRefusesKeeps, ForceCommandKeeps, FenceKeeps, StudioWritesKeeps, ByHandKeeps
<1> QED
  BY <1>1, <1>2, RepairNothingKeeps, RepairKeeps, RenameKeeps, TakeSettingsKeeps, PublishKeeps, NarrowKeeps,
     SettleKeeps, HoldKeeps, HoldSettlesKeeps, RepairStopsKeeps, RepairForcesKeeps, CommandEndsKeeps,
     BeginKeeps, FinishStartKeeps, PickKeeps, SkipKeeps, AlreadyKeeps, NotAdmittedKeeps, UnexpectedKeeps,
     WriteRecordKeeps, WidenKeeps, LaunchNextKeeps, NoteNewKeeps, BootsKeeps, PointKeeps, RetireKeeps,
     RemoveOldKeeps, FailsKeeps, ReplacedKeeps, FailedKeeps, StartRollKeeps, RetryKeeps, RepairCommandKeeps,
     ConfirmKeeps, SupervisorStopsKeeps, ProcessDiesKeeps, StartKeeps DEF Next

\* IInv holds in every state: what a process under the lock leaves behind, whatever step it dies at.
THEOREM Inductive == Spec => []IInv
<1>1. Init => IInv
  BY InitHolds
<1>2. IInv /\ [Next]_vars => IInv'
  BY NextKeeps
<1> QED
  BY <1>1, <1>2, PTL DEF Spec

\* Every container, record, plan entry and address keeps its shape; a record past `starting` names the new
\* container (lab/rolling.py write_record).
THEOREM TypeCorrect == Spec => []TypeOK
<1>1. IInv => TypeOK
  BY DEF IInv, TypeInv, ContainersType, RecordsType, RestType, TypeOK
<1> QED
  BY <1>1, Inductive, PTL

\* The limits of an environment are raised only while a swap of it is recorded (replace, repair).
THEOREM LimitsOnlyOfARecord == Spec => []LimitsGoBack
<1>1. IInv => LimitsGoBack
  BY DEF IInv
<1> QED
  BY <1>1, Inductive, PTL

\* An environment that no swap is recorded of and no hand touched is whole (replace, repair).
THEOREM NothingHalfDone == Spec => []SettledIsWhole
<1>1. ASSUME IInv PROVE SettledIsWhole
  <2> SUFFICES ASSUME NEW e \in Environments, Env # e, e \notin touched
               PROVE  /\ canonical[e] \in {"old", "new"} /\ next[e] = None
                      /\ files[e] = [canonical |-> canonical[e], next |-> FALSE]
                      /\ up[e] => address[e] = canonical[e]
    BY DEF SettledIsWhole
  <2>1. Whole(e) /\ files[e] \in [canonical : Containers, next : BOOLEAN]
    BY <1>1 DEF IInv, WholeInv, TypeInv, ContainersType
  <2>2. files[e].next = FALSE /\ files[e].canonical = canonical[e]
    BY <2>1 DEF Whole
  <2>3. files[e] = [canonical |-> canonical[e], next |-> FALSE]
    BY <2>1, <2>2
  <2> QED
    BY <2>1, <2>3 DEF Whole
<1> QED
  BY <1>1, Inductive, PTL

\* The container that serves goes only when its replacement is there and was watched, or by hand (replace, repair).
THEOREM OldWaitsForNew == Spec => OldGoesLast
<1> DEFINE Last == \A e \in Environments :
        canonical[e] # None /\ canonical'[e] = None =>
            counts'.hands > counts.hands \/ (record.phase = "retiring" /\ record.env = e /\ next[e] # None)
<1>1. ASSUME IInv, [Next]_vars PROVE [Last]_vars
  <2>1. canonical \in [Environments -> Containers] /\ counts \in [CountNames -> Nat]
    BY <1>1 DEF IInv, TypeInv, ContainersType, RestType
  <2>2. UNCHANGED canonical \/ Repair \/ Rename \/ RepairForces \/ RemoveOld \/ \E e \in Environments : ByHand(e)
    BY <1>1 DEF vars, Next, containers, RepairNothing, TakeSettings, Publish, Narrow, Settle, Hold,
       HoldSettles, RepairStops, CommandEnds, Begin, FinishStart, Pick, Skip, Already, NotAdmitted,
       Unexpected, WriteRecord, Widen, LaunchNext, NoteNew, Boots, Point, Retire, Fails, Replaced, Failed,
       StartRoll, Retry, RepairCommand, Confirm, SupervisorStops, ProcessDies, Start, Resume,
       ResumeRefuses, ForceCommand, Fence, StudioWrites, Refuses
  <2>3. CASE UNCHANGED canonical
    BY <2>3
  <2>4. CASE Repair
    <3>1. UNCHANGED canonical \/ (RepairRetires /\ DropCanonical)
      BY <2>4 DEF Repair, DropNext, containers
    <3> QED
      BY <3>1, <2>1 DEF RepairRetires, DropCanonical, Env
  <2>5. CASE Rename
    BY <1>1, <2>5 DEF Rename, IInv, StepInv
  <2>6. CASE RepairForces
    BY <2>6 DEF RepairForces, DropNext, containers
  <2>7. CASE RemoveOld
    BY <1>1, <2>7 DEF RemoveOld, DropCanonical, IInv, StepInv, At, Env, None
  <2>8. ASSUME NEW e \in Environments, ByHand(e) PROVE Last
    BY <2>1, <2>8 DEF ByHand, Count, CountNames
  <2> QED
    BY <2>2, <2>4, <2>5, <2>6, <2>7, <2>8
<1> QED
  BY <1>1, Inductive, PTL DEF Spec, OldGoesLast

-------------------------------------------------------------------------------
(* A roll keeps ReplacementLedger. *)

\* Nothing is replaced before the upgrade is confirmed: no record, none held, no roll.
Replaces == Swapping \cup {"pick", "swap"}
ConfirmedInv ==
  intent => /\ record = NoRecord /\ \A e \in Environments : ~ Held(e)
            /\ proc.kind \notin {"roll", "swap", "undo"} /\ proc.at \notin Replaces
LedgerInv == IInv /\ ConfirmedInv

Ledger == [e \in Environments |-> Place(e)]
LedgerStep == [Replacement!Next]_<<Ledger, ~ intent>>

LEMMA PlaceValues ==
  ASSUME NEW b \in BOOLEAN
  PROVE  /\ PlaceOf("old", None, b) = "old" /\ PlaceOf("new", None, b) = "new" /\ PlaceOf(None, "new", b) = "new"
         /\ PlaceOf("old", "new", b) = IF b THEN "decided" ELSE "trial"
<1>1. {"old", None} \ {None} = {"old"} /\ {"new", None} \ {None} = {"new"} /\ {None, "new"} \ {None} = {"new"}
      /\ {"old", "new"} \ {None} = {"old", "new"}
  BY DEF None
<1>2. {"old"} # {"new"} /\ {"old"} # {"old", "new"} /\ {"new"} # {"old", "new"}
  OBVIOUS
<1> QED BY <1>1, <1>2 DEF PlaceOf

\* An environment no hand touched and no record names has one container of its own name.
LEMMA Elsewhere ==
  ASSUME IInv, NEW f \in Environments \ touched, Env # f
  PROVE  next[f] = None /\ canonical[f] \in {"old", "new"} /\ Place(f) \in {"old", "new"}
<1>1. next[f] = None /\ canonical[f] \in {"old", "new"}
  BY DEF IInv, WholeInv, Whole
<1>2. (record.phase = "retiring") \in BOOLEAN
  OBVIOUS
<1> QED BY <1>1, <1>2, PlaceValues DEF Place

\* Where an environment stays.
LEMMA Stays ==
  ASSUME IInv, NEW f \in Environments, UNCHANGED touched,
         f \notin touched =>
           /\ canonical'[f] = canonical[f] /\ next'[f] = next[f]
           /\ (record'.phase = "retiring") = (record.phase = "retiring") \/ Env # f \/ next[f] = None
  PROVE  Ledger'[f] = Ledger[f]
<1>1. CASE f \in touched
  BY <1>1 DEF Ledger, Place
<1>2. CASE f \notin touched /\ (record'.phase = "retiring") = (record.phase = "retiring")
  BY <1>2 DEF Ledger, Place
<1>3. CASE f \notin touched /\ (Env # f \/ next[f] = None)
  <2>1. next[f] = None
    BY <1>3, Elsewhere
  <2>2. canonical[f] \in {"old", "new"}
    BY <1>3, <2>1, Elsewhere DEF IInv, WholeInv, Replacing, None
  <2>3. \A b \in BOOLEAN : PlaceOf(canonical[f], None, b) = canonical[f]
    BY <2>2, PlaceValues
  <2>4. (record.phase = "retiring") \in BOOLEAN /\ (record'.phase = "retiring") \in BOOLEAN
    OBVIOUS
  <2>5. Ledger[f] = canonical[f]
    BY <1>3, <2>1, <2>3, <2>4 DEF Ledger, Place
  <2>6. Ledger'[f] = canonical'[f]
    BY <1>3, <2>1, <2>3, <2>4 DEF Ledger, Place
  <2> QED BY <1>3, <2>5, <2>6
<1> QED BY <1>1, <1>2, <1>3

LEMMA AllStay ==
  ASSUME UNCHANGED intent, \A f \in Environments : Ledger'[f] = Ledger[f]
  PROVE  LedgerStep
<1>1. Ledger' = Ledger
  BY DEF Ledger
<1> QED BY <1>1 DEF LedgerStep

\* One environment moves.
LEMMA OneMoves ==
  ASSUME NEW e \in Environments, NEW to, UNCHANGED intent,
         \A f \in Environments \ {e} : Ledger'[f] = Ledger[f], Ledger'[e] = to
  PROVE  Replacement!Moves(e, Ledger[e], to)
<1>1. Ledger' = [Ledger EXCEPT ![e] = to]
  BY DEF Ledger
<1> QED BY <1>1 DEF Replacement!Moves, Ledger

\* The containers stay; the record may change.
LEMMA RecordMoves ==
  ASSUME IInv, UNCHANGED <<canonical, next, touched, intent>>,
         (record'.phase = "retiring") = (record.phase = "retiring") \/ Env \notin Environments \ touched \/ next[Env] = None
  PROVE  LedgerStep
<1>1. ASSUME NEW f \in Environments PROVE Ledger'[f] = Ledger[f]
  <2>1. f \notin touched => (record'.phase = "retiring") = (record.phase = "retiring") \/ Env # f \/ next[f] = None
    OBVIOUS
  <2> QED BY <2>1, Stays
<1> QED BY <1>1, AllStay

\* A step at the recorded environment's containers, none at the others'.
LEMMA Others ==
  ASSUME IInv, UNCHANGED <<touched, record>>,
         \A f \in Environments \ {Env} : canonical'[f] = canonical[f] /\ next'[f] = next[f]
  PROVE  \A f \in Environments \ {Env} : Ledger'[f] = Ledger[f]
BY Stays

\* What the replacement, or the repair of one, does to a container of the recorded environment.
LEMMA NextGoes ==
  ASSUME IInv, Env \in Environments, Early \/ Env \in touched, DropNext, UNCHANGED <<touched, record, intent>>
  PROVE  LedgerStep
<1>1. canonical' = canonical /\ next' = [next EXCEPT ![Env] = None] /\ next \in [Environments -> Containers \ {"old"}]
  BY DEF DropNext, IInv, TypeInv, ContainersType
<1>2. \A f \in Environments \ {Env} : Ledger'[f] = Ledger[f]
  BY <1>1, Others
<1>3. PICK e \in Environments : e = Env
  OBVIOUS
<1>4. CASE e \in touched \/ next[e] = None
  <2>1. Ledger'[e] = Ledger[e]
    BY <1>1, <1>3, <1>4, Stays
  <2> QED BY <1>2, <1>3, <2>1, AllStay
<1>5. CASE e \notin touched /\ next[e] # None
  <2>1. canonical[e] = "old" /\ next[e] = "new" /\ record.phase # "retiring"
    BY <1>3, <1>5 DEF IInv, WholeInv, Replacing, Early
  <2>2. Ledger[e] = "trial" /\ Ledger'[e] = "old"
    <3>1. canonical'[e] = "old" /\ next'[e] = None /\ e \notin touched'
      BY <1>1, <1>3, <1>5, <2>1
    <3>2. FALSE \in BOOLEAN /\ (record.phase = "retiring") = FALSE /\ (record'.phase = "retiring") = FALSE
      BY <2>1
    <3> QED BY <1>5, <2>1, <3>1, <3>2, PlaceValues DEF Ledger, Place
  <2>3. Replacement!GiveUp(e)
    BY <1>2, <1>3, <2>2, OneMoves DEF Replacement!GiveUp
  <2> QED BY <2>3 DEF LedgerStep, Replacement!Next
<1> QED BY <1>4, <1>5

LEMMA CanonicalGoes ==
  ASSUME IInv, Env \in Environments, record.phase = "retiring", canonical[Env] # "new" \/ Env \in touched, DropCanonical,
         UNCHANGED <<touched, record, intent>>
  PROVE  LedgerStep
<1>1. next' = next /\ canonical' = [canonical EXCEPT ![Env] = None] /\ canonical \in [Environments -> Containers]
  BY DEF DropCanonical, IInv, TypeInv, ContainersType
<1>2. \A f \in Environments \ {Env} : Ledger'[f] = Ledger[f]
  BY <1>1, Others
<1>3. PICK e \in Environments : e = Env
  OBVIOUS
<1>4. CASE e \in touched \/ canonical[e] = None
  <2>1. Ledger'[e] = Ledger[e]
    BY <1>1, <1>3, <1>4, Stays
  <2> QED BY <1>2, <1>3, <2>1, AllStay
<1>5. CASE e \notin touched /\ canonical[e] # None
  <2>1. canonical[e] = "old" /\ next[e] = "new"
    BY <1>3, <1>5 DEF IInv, WholeInv, Replacing, Early
  <2>2. Ledger[e] = "decided" /\ Ledger'[e] = "new"
    <3>1. canonical'[e] = None /\ next'[e] = "new" /\ e \notin touched'
      BY <1>1, <1>3, <1>5, <2>1
    <3>2. TRUE \in BOOLEAN /\ (record.phase = "retiring") = TRUE /\ (record'.phase = "retiring") = TRUE
      OBVIOUS
    <3> QED BY <1>5, <2>1, <3>1, <3>2, PlaceValues DEF Ledger, Place
  <2>3. Replacement!Finish(e)
    BY <1>2, <1>3, <2>2, OneMoves DEF Replacement!Finish
  <2> QED BY <2>3 DEF LedgerStep, Replacement!Next
<1> QED BY <1>4, <1>5

LEMMA RepairMaps == ASSUME IInv, Repair PROVE LedgerStep
<1>1. UNCHANGED <<touched, record, intent>> /\ Env \in Environments
  BY RecordNames DEF Repair, records, outside, IInv
<1>2. CASE RepairUndoes /\ DropNext
  BY <1>1, <1>2, NextGoes DEF RepairUndoes
<1>3. CASE RepairRetires /\ DropCanonical
  <2>1. record.phase = "retiring" /\ (canonical[Env] # "new" \/ Env \in touched)
    BY <1>1, <1>3 DEF RepairRetires, IsOld, IInv, WholeInv, Replacing, None
  <2> QED BY <1>1, <1>3, <2>1, CanonicalGoes
<1>4. CASE UNCHANGED containers
  BY <1>1, <1>4, RecordMoves DEF containers
<1> QED BY <1>2, <1>3, <1>4 DEF Repair

LEMMA RenameMaps == ASSUME IInv, Rename PROVE LedgerStep
<1>1. UNCHANGED <<touched, record, intent>> /\ Env \in Environments
  BY DEF Rename, records, outside, IInv, StepInv, At, Settling
<1>2. PICK e \in Environments : e = Env
  BY <1>1
<1>3. /\ canonical' = [canonical EXCEPT ![e] = next[e]] /\ next' = [next EXCEPT ![e] = None]
      /\ canonical \in [Environments -> Containers] /\ next \in [Environments -> Containers \ {"old"}]
  BY <1>2 DEF Rename, IInv, TypeInv, ContainersType
<1>4. \A f \in Environments \ {Env} : Ledger'[f] = Ledger[f]
  BY <1>1, <1>2, <1>3, Others
<1>5. CASE e \in touched
  BY <1>1, <1>2, <1>4, <1>5, Stays, AllStay
<1>6. CASE e \notin touched
  <2>1. canonical[e] = None /\ next[e] = "new"
    BY <1>2, <1>6 DEF Rename, IInv, StepInv, WholeInv, Replacing, None
  <2>2. canonical'[e] = "new" /\ next'[e] = None /\ e \notin touched'
    BY <1>1, <1>3, <1>6, <2>1
  <2>3. (record.phase = "retiring") \in BOOLEAN /\ (record'.phase = "retiring") \in BOOLEAN
    OBVIOUS
  <2>4. Ledger[e] = "new" /\ Ledger'[e] = "new"
    BY <1>6, <2>1, <2>2, <2>3, PlaceValues DEF Ledger, Place
  <2> QED BY <1>1, <1>2, <1>4, <2>4, AllStay
<1> QED BY <1>5, <1>6

\* Only a hand leaves a record that nothing explains.
LEMMA ForceMaps == ASSUME IInv, RepairForces PROVE LedgerStep
<1>1. UNCHANGED <<touched, record, intent>> /\ Env \in Environments
  BY RecordNames DEF RepairForces, records, outside, IInv
<1>2. Env \in touched
  BY <1>1, Recognises DEF RepairForces, IInv
<1>3. CASE DropNext
  BY <1>1, <1>2, <1>3, NextGoes
<1>4. CASE UNCHANGED containers
  BY <1>1, <1>4, RecordMoves DEF containers
<1> QED BY <1>3, <1>4 DEF RepairForces

\* A trial begins after the confirmation, and alone.
LEMMA LaunchMaps == ASSUME LedgerInv, LaunchNext PROVE LedgerStep
<1>1. /\ UNCHANGED <<canonical, touched, record, intent>> /\ ~ intent
      /\ Env \in Environments /\ E = Env /\ record.phase = "starting"
  BY DEF LaunchNext, records, outside, LedgerInv, ConfirmedInv, IInv, StepInv, At, Swapping, Replaces
<1>2. PICK e \in Environments : e = Env
  BY <1>1
<1>3. next' = [next EXCEPT ![e] = "new"] /\ next \in [Environments -> Containers \ {"old"}]
  BY <1>1, <1>2 DEF LaunchNext, LedgerInv, IInv, TypeInv, ContainersType
<1>4. \A f \in Environments \ {Env} : Ledger'[f] = Ledger[f]
  BY <1>1, <1>2, <1>3, Others DEF LedgerInv
<1>5. CASE e \in touched \/ next[e] = "new"
  <2>1. Ledger'[e] = Ledger[e]
    BY <1>1, <1>2, <1>3, <1>5, Stays DEF LedgerInv
  <2> QED BY <1>1, <1>2, <1>4, <2>1, AllStay
<1>6. CASE e \notin touched /\ next[e] # "new"
  <2>1. canonical[e] = "old" /\ next[e] = None
    BY <1>1, <1>2, <1>6 DEF LedgerInv, IInv, WholeInv, Replacing
  <2>2. canonical'[e] = "old" /\ next'[e] = "new" /\ e \notin touched'
    BY <1>1, <1>3, <1>6, <2>1
  <2>3. FALSE \in BOOLEAN /\ (record.phase = "retiring") = FALSE /\ (record'.phase = "retiring") = FALSE
    BY <1>1
  <2>4. Ledger[e] = "old" /\ Ledger'[e] = "trial"
    BY <1>6, <2>1, <2>2, <2>3, PlaceValues DEF Ledger, Place
  <2>5. \A f \in Environments : Ledger[f] \notin {"trial", "decided"}
    <3>1. ASSUME NEW f \in Environments \ {e} PROVE Ledger[f] \in {"old", "new", "byhand"}
      <4>1. CASE f \in touched
        BY <4>1 DEF Ledger, Place
      <4>2. CASE f \notin touched
        BY <1>2, <4>2, Elsewhere DEF Ledger, LedgerInv
      <4> QED BY <4>1, <4>2
    <3> QED BY <2>4, <3>1
  <2>6. Replacement!Try(e)
    BY <1>1, <1>2, <1>4, <2>4, <2>5, OneMoves DEF Replacement!Try, Ledger
  <2> QED BY <2>6 DEF LedgerStep, Replacement!Next
<1> QED BY <1>5, <1>6

\* The decision is the record's, and it is durable.
LEMMA RetireMaps == ASSUME IInv, Retire PROVE LedgerStep
<1>1. /\ UNCHANGED <<canonical, next, touched, intent>> /\ Env \in Environments
      /\ record.phase = "switched" /\ next[Env] = "new" /\ record \in Records /\ record'.phase = "retiring"
  BY DEF Retire, containers, outside, IInv, StepInv, At, Swapping, TypeInv, RecordsType, Records
<1>2. PICK e \in Environments : e = Env
  BY <1>1
<1>3. CASE e \in touched
  BY <1>1, <1>2, <1>3, RecordMoves
<1>4. CASE e \notin touched
  <2>1. canonical[e] = "old" /\ next[e] = "new"
    BY <1>1, <1>2, <1>4 DEF IInv, WholeInv, Replacing
  <2>2. TRUE \in BOOLEAN /\ FALSE \in BOOLEAN /\ (record.phase = "retiring") = FALSE /\ (record'.phase = "retiring") = TRUE
    BY <1>1
  <2>3. Ledger[e] = "trial" /\ Ledger'[e] = "decided"
    BY <1>1, <1>4, <2>1, <2>2, PlaceValues DEF Ledger, Place
  <2>4. \A f \in Environments \ {e} : Ledger'[f] = Ledger[f]
    BY <1>1, <1>2, Stays
  <2>5. Replacement!Decide(e)
    BY <1>1, <2>3, <2>4, OneMoves DEF Replacement!Decide
  <2> QED BY <2>5 DEF LedgerStep, Replacement!Next
<1> QED BY <1>3, <1>4

\* A hand takes the environment out of the ledger.
LEMMA HandMaps == ASSUME IInv, NEW e \in Environments, ByHand(e) PROVE LedgerStep
<1>1. /\ UNCHANGED <<record, intent>> /\ touched' = touched \cup {e}
      /\ \A f \in Environments \ {e} : canonical'[f] = canonical[f] /\ next'[f] = next[f]
  BY DEF ByHand, records, IInv, TypeInv, ContainersType
<1>2. \A f \in Environments \ {e} : Ledger'[f] = Ledger[f]
  BY <1>1 DEF Ledger, Place
<1>3. Ledger'[e] = "byhand"
  BY <1>1 DEF Ledger, Place
<1>4. Ledger' = [Ledger EXCEPT ![e] = "byhand"]
  BY <1>2, <1>3 DEF Ledger
<1>5. Replacement!Leave(e)
  BY <1>1, <1>4 DEF Replacement!Leave, Ledger
<1> QED BY <1>5 DEF LedgerStep, Replacement!Next

\* Records that come and go while no second container is there, or under a hand.
LEMMA RecordsMap ==
  ASSUME IInv, Settle \/ HoldSettles \/ Hold \/ WriteRecord \/ NoteNew \/ Boots \/ \E e \in Environments : ForceCommand(e)
  PROVE  LedgerStep
<1>1. UNCHANGED <<canonical, next, touched, intent>>
  BY DEF Settle, HoldSettles, Hold, WriteRecord, NoteNew, Boots, ForceCommand, containers, outside
<1>2. CASE Env \in Environments \ touched /\ next[Env] # None
  <2>1. ~ Settle
    BY <1>2 DEF Settle, At, IInv, WholeInv, Replacing
  <2>2. ~ HoldSettles
    BY <1>2 DEF HoldSettles, IInv, StepInv, WholeInv
  <2>3. ~ WriteRecord
    BY <1>2, RecordNames DEF WriteRecord, IInv, StepInv, At, Clear
  <2>4. CASE Hold
    BY <1>1, <2>4, RecordMoves DEF Hold
  <2>5. CASE NoteNew \/ Boots
    <3>1. record \in Records
      BY DEF IInv, TypeInv, RecordsType
    <3>2. (record'.phase = "retiring") = (record.phase = "retiring")
      BY <2>5, <3>1 DEF NoteNew, Boots, Records, IInv, StepInv, At
    <3> QED BY <1>1, <3>2, RecordMoves
  <2>6. ASSUME NEW e \in Environments, ForceCommand(e) PROVE LedgerStep
    <3>1. record' = record
      BY <1>2, <2>6, RecordNames DEF ForceCommand, IInv
    <3> QED BY <1>1, <3>1, RecordMoves
  <2> QED BY <2>1, <2>2, <2>3, <2>4, <2>5, <2>6
<1>3. CASE ~ (Env \in Environments \ touched /\ next[Env] # None)
  BY <1>1, <1>3, RecordMoves
<1> QED BY <1>2, <1>3

LEMMA ConfirmedKeeps ==
  ASSUME LedgerInv, [Next]_vars
  PROVE  ConfirmedInv'
<1> SUFFICES ASSUME intent'
             PROVE  /\ record' = NoRecord /\ \A e \in Environments : ~ (held'[e] # NoRecord)
                    /\ proc'.kind \notin {"roll", "swap", "undo"} /\ proc'.at \notin Replaces
  BY DEF ConfirmedInv, Held
<1>1. intent
  <2>1. Confirm \/ intent' = intent
    BY DEF Next, vars, outside, RepairNothing, Repair, Rename, TakeSettings, Publish, Narrow, Settle, Hold,
       HoldSettles, RepairStops, RepairForces, CommandEnds, Begin, FinishStart, Pick, Skip, Already, NotAdmitted,
       Unexpected, WriteRecord, Widen, LaunchNext, NoteNew, Boots, Point, Retire, RemoveOld, Fails, Replaced, Failed,
       StartRoll, Retry, RepairCommand, SupervisorStops, ProcessDies, Start, Resume, ResumeRefuses, Refuses,
       ForceCommand, Fence, StudioWrites, ByHand
  <2> QED BY <2>1 DEF Confirm
<1>2. /\ record = NoRecord /\ \A e \in Environments : held[e] = NoRecord
      /\ proc.kind \notin {"roll", "swap", "undo"} /\ proc.at \notin Replaces
      /\ proc.at \notin Settling /\ TypeInv
  BY <1>1, RecordNames, RollingConstants DEF LedgerInv, ConfirmedInv, Held, IInv, StepInv
<1>3. CASE Rename \/ TakeSettings \/ Publish \/ Narrow \/ Settle \/ HoldSettles
  BY <1>2, <1>3 DEF Rename, TakeSettings, Publish, Narrow, Settle, HoldSettles, At, Settling
<1>4. CASE Repair \/ Hold \/ RepairStops \/ RepairForces \/ RepairCommand
  BY <1>2, <1>4 DEF Repair, Hold, RepairStops, RepairForces, RepairCommand
<1>5. CASE Pick \/ Skip \/ Already \/ NotAdmitted \/ Unexpected \/ WriteRecord \/ Widen \/ LaunchNext \/ NoteNew \/ Boots
           \/ Point \/ Retire \/ RemoveOld \/ StartRoll
  BY <1>1, <1>2, <1>5 DEF Pick, Skip, Already, NotAdmitted, Unexpected, WriteRecord, Widen, LaunchNext, NoteNew, Boots,
     Point, Retire, RemoveOld, StartRoll, At, Replaces, Swapping
<1>6. CASE RepairNothing \/ Begin
  BY <1>2, <1>6 DEF RepairNothing, Begin, AfterSettled, Goes, records, TypeInv, ProcType, Replaces, Swapping, Kinds
<1>7. CASE CommandEnds \/ FinishStart \/ Replaced \/ Failed \/ SupervisorStops \/ ProcessDies
  <2>1. proc' = Nobody
    BY <1>7 DEF CommandEnds, FinishStart, Replaced, Failed, SupervisorStops, ProcessDies, Ends
  <2>2. UNCHANGED <<record, held>>
    BY <1>7 DEF CommandEnds, FinishStart, Replaced, Failed, SupervisorStops, ProcessDies, records
  <2> QED BY <1>2, <2>1, <2>2 DEF Nobody, None, Replaces, Swapping
<1>8. CASE Fails
  BY <1>2, <1>8 DEF Fails, BeforeRetiring, Replaces, Swapping, records, Nobody, None
<1>9. CASE Start \/ Retry \/ Confirm \/ UNCHANGED vars
  BY <1>2, <1>9 DEF Start, Retry, Confirm, vars, records, Nobody, Replaces, Swapping, None
<1>10. ASSUME NEW e \in Environments, Resume(e) \/ ResumeRefuses(e) \/ Fence(e) \/ StudioWrites(e) \/ ByHand(e)
       PROVE  UNCHANGED <<record, held>> /\ proc'.kind \notin {"roll", "swap", "undo"} /\ proc'.at \notin Replaces
  <2>1. UNCHANGED <<record, held>>
    BY <1>10 DEF Resume, ResumeRefuses, Refuses, Fence, StudioWrites, ByHand, records
  <2>2. CASE Resume(e)
    <3>1. proc'.kind = proc.kind /\ proc'.at = proc.at
      BY <1>2, <2>2 DEF Resume, TypeInv, ProcType
    <3> QED BY <1>2, <2>1, <3>1
  <2>3. CASE ~ Resume(e)
    <3>1. proc' = Nobody \/ proc' = proc
      BY <1>10, <2>3 DEF ResumeRefuses, Refuses, Ends, Fence, StudioWrites, ByHand
    <3> QED BY <1>2, <2>1, <3>1 DEF Nobody, None, Replaces, Swapping
  <2> QED BY <2>2, <2>3
<1>11. ASSUME NEW e \in Environments PROVE ~ ForceCommand(e)
  BY <1>2, RollingConstants DEF ForceCommand, Held, NoRecord
<1> QED BY <1>2, <1>3, <1>4, <1>5, <1>6, <1>7, <1>8, <1>9, <1>10, <1>11 DEF Next

LEMMA RollMaps == ASSUME LedgerInv, [Next]_vars PROVE LedgerStep
<1>1. CASE UNCHANGED <<canonical, next, record, touched, intent>>
  BY <1>1, RecordMoves DEF LedgerInv
<1>2. CASE Confirm
  <2>1. Ledger' = Ledger
    BY <1>2 DEF Confirm, containers, records, Ledger, Place
  <2>2. Replacement!Confirm
    BY <1>2, <2>1 DEF Confirm, Replacement!Confirm, Ledger
  <2> QED BY <2>2 DEF LedgerStep, Replacement!Next
<1>3. CASE Repair \/ Rename \/ RepairForces \/ LaunchNext \/ Retire \/ \E e \in Environments : ByHand(e)
  BY <1>3, RepairMaps, RenameMaps, ForceMaps, LaunchMaps, RetireMaps, HandMaps DEF LedgerInv
<1>4. CASE Settle \/ HoldSettles \/ Hold \/ WriteRecord \/ NoteNew \/ Boots \/ \E e \in Environments : ForceCommand(e)
  BY <1>4, RecordsMap DEF LedgerInv
<1>5. CASE RemoveOld
  <2>1. /\ Env \in Environments /\ record.phase = "retiring" /\ next[Env] # None
        /\ DropCanonical /\ UNCHANGED <<touched, record, intent>>
    BY <1>5 DEF RemoveOld, records, outside, LedgerInv, IInv, StepInv, At, Swapping, None
  <2>2. canonical[Env] # "new" \/ Env \in touched
    BY <2>1 DEF LedgerInv, IInv, WholeInv, Replacing
  <2> QED BY <2>1, <2>2, CanonicalGoes DEF LedgerInv
<1>6. CASE RepairNothing \/ TakeSettings \/ Publish \/ Narrow \/ RepairStops \/ CommandEnds \/ Begin \/ FinishStart
           \/ Pick \/ Skip \/ Already \/ NotAdmitted \/ Unexpected \/ Widen \/ Point
           \/ Fails \/ Replaced \/ Failed \/ StartRoll \/ Retry \/ RepairCommand \/ SupervisorStops \/ ProcessDies \/ Start
  BY <1>1, <1>6 DEF RepairNothing, TakeSettings, Publish, Narrow, RepairStops, CommandEnds, Begin, FinishStart, Pick, Skip,
     Already, NotAdmitted, Unexpected, Widen, Point, Fails, Replaced, Failed, StartRoll, Retry, RepairCommand,
     SupervisorStops, ProcessDies, Start, containers, records, outside
<1>7. CASE \E e \in Environments : Resume(e) \/ ResumeRefuses(e) \/ Fence(e) \/ StudioWrites(e)
  BY <1>1, <1>7 DEF Resume, ResumeRefuses, Refuses, Fence, StudioWrites, containers, records, outside
<1>8. CASE UNCHANGED vars
  BY <1>1, <1>8 DEF vars, containers, records, outside
<1> QED BY <1>2, <1>3, <1>4, <1>5, <1>6, <1>7, <1>8 DEF Next

\* A roll keeps the ledger of its replacements, whatever dies, fails, is stopped, fenced, repaired or forced: nothing
\* before the confirmation, one environment at a time, and a decision is final (replace, repair, roll_once).
THEOREM ReplacementsKeepLedger == Spec => RollKeepsLedger
<1>1. Init => ConfirmedInv /\ Replacement!Init
  <2> SUFFICES ASSUME Init PROVE ConfirmedInv /\ Replacement!Init
    OBVIOUS
  <2>1. ConfirmedInv
    BY DEF Init, ConfirmedInv, Held, Nobody, Replaces, Swapping
  <2>2. ASSUME NEW e \in Environments PROVE Place(e) = "old"
    <3>1. (record.phase = "retiring") \in BOOLEAN /\ canonical[e] = "old" /\ next[e] = None /\ e \notin touched
      BY DEF Init
    <3> QED BY <3>1, PlaceValues DEF Place
  <2>3. intent
    BY DEF Init
  <2> QED BY <2>1, <2>2, <2>3 DEF Replacement!Init
<1>2. LedgerInv /\ [Next]_vars => ConfirmedInv'
  BY ConfirmedKeeps
<1>3. LedgerInv /\ [Next]_vars => [Replacement!Next]_<<[e \in Environments |-> Place(e)], ~ intent>>
  BY RollMaps DEF LedgerStep, Ledger
<1>4. LedgerInv /\ [Next]_vars => [Replacement!Next]_(Replacement!ledgerVars)
  BY <1>3 DEF Replacement!ledgerVars
<1> QED BY <1>1, <1>2, <1>4, Inductive, PTL DEF Spec, LedgerInv, RollKeepsLedger, Replacement!Spec

===============================================================================
