------------------------------- MODULE Rolling -------------------------------
(***************************************************************************)
(* REST replaced side by side, environment by environment, after an upgrade *)
(* changed its pin (lab/rolling.py), and the starts before and after        *)
(* (lab/durable_runtime.py start, resume, launch).                          *)
(*                                                                         *)
(* One process at a time holds the operation lock: a start, a roll of one   *)
(* environment, or the operator's repair.  Each docker command, each record *)
(* and each statement is a step, after which the process may fail or die.   *)
(* Everything else the model has is durable: containers, settings files,    *)
(* published addresses, connection limits, the swap record, the records     *)
(* held aside and the plan.  Studio writes an environment's limit meanwhile,*)
(* under the limit lock alone.                                              *)
(*                                                                         *)
(* A container is named by what it is: "old" runs the previous image,       *)
(* "new" the pinned one, "other" was made by hand under the temporary name. *)
(***************************************************************************)
EXTENDS Naturals, FiniteSets

CONSTANTS
    Environments,
    MaxFaults,     \* bound on failing commands and deaths
    MaxHands,      \* bound on containers removed, made or stopped by hand
    MaxStops,      \* bound on stops of the supervisor
    MaxFences,     \* bound on fences
    MaxStudio,     \* bound on Studio's writes of a limit
    MaxRetries     \* bound on the operator's retry and repair commands

None == "none"

ASSUME RollingConstants ==
    /\ None \notin Environments
    /\ {MaxFaults, MaxHands, MaxStops, MaxFences, MaxStudio, MaxRetries} \subseteq Nat

NoRecord == [env |-> None, phase |-> None, old |-> None, new |-> None]
Nobody == [kind |-> None, at |-> None, env |-> None, todo |-> {}, deferred |-> {}]

VARIABLES
    canonical,   \* [Environments -> container under the canonical name, or None]
    next,        \* [Environments -> container under the name with the suffix -next, or None]
    up,          \* [Environments -> whether the canonical container runs]
    files,       \* [Environments -> whose settings the canonical file holds, and whether a -next file is left]
    address,     \* [Environments -> the container the published address leads to]
    wide,        \* environments whose connection limits are raised
    record,      \* rolling.json, or NoRecord
    held,        \* rolling-held.json: [Environments -> record or NoRecord]
    plan,        \* rolling-plan.json: [Environments -> state of its entry, or None]
    stopped,     \* the plan stopped at a failure
    fenced,      \* environments whose database is fenced (being moved or restored)
    intent,      \* the upgrade is recorded and not confirmed yet
    serving,     \* the supervisor and the gateway run
    refused,     \* why the last start refused, or None
    proc,        \* the process under the operation lock, with its program counter
    promised,    \* environments repair --force was run for to its end (history)
    touched,     \* environments whose containers a hand removed or made (history)
    counts       \* of the bounds

containers == <<canonical, next, up, files>>
records == <<record, held, plan, stopped>>
outside == <<fenced, intent, serving, refused, promised, touched, counts>>
vars == <<containers, address, wide, records, proc, outside>>

CountNames == {"faults", "hands", "stops", "fences", "studio", "retries"}
Count(c, bound) == counts[c] < bound /\ counts' = [counts EXCEPT ![c] = @ + 1]

Init ==
    /\ canonical = [e \in Environments |-> "old"]
    /\ next = [e \in Environments |-> None]
    /\ up = [e \in Environments |-> TRUE]
    /\ files = [e \in Environments |-> [canonical |-> "old", next |-> FALSE]]
    /\ address = [e \in Environments |-> "old"]
    /\ wide = {} /\ record = NoRecord
    /\ held = [e \in Environments |-> NoRecord]
    /\ plan = [e \in Environments |-> None] /\ stopped = FALSE
    /\ fenced = {}
    /\ intent = TRUE /\ serving = FALSE /\ refused = None
    /\ proc = [Nobody EXCEPT !.kind = "start", !.at = "repair"]
    /\ promised = {} /\ touched = {} /\ counts = [c \in CountNames |-> 0]

At(pc) == proc.at = pc
Goes(pc) == proc' = [proc EXCEPT !.at = pc]
Held(e) == held[e] # NoRecord
Env == record.env

-------------------------------------------------------------------------------
(* The repair: by every start and roll, by a failing replacement, by hand.   *)

\* Where the process goes on once the record is settled: a failed replacement marks its entry, a finished one too.
AfterSettled == CASE proc.kind = "start" -> "begin"
                  [] proc.kind = "roll"  -> "pick"
                  [] proc.kind = "swap"  -> "replaced"
                  [] proc.kind = "undo"  -> "failed"
                  [] OTHER               -> "end"

RepairNothing ==
    /\ At("repair") /\ record = NoRecord
    /\ Goes(AfterSettled)
    /\ UNCHANGED <<containers, address, wide, records, outside>>

Foreign == next[Env] # None /\ record.new # None /\ next[Env] # record.new
IsOld == canonical[Env] # None /\ canonical[Env] = record.old
Early == record.phase \in {"starting", "switched"}

RepairUndoes_Any == ~Foreign /\ record.phase # None /\ IsOld
RepairUndoes == ~Foreign /\ Early /\ IsOld
RepairRetires == ~Foreign /\ record.phase = "retiring" /\ IsOld /\ next[Env] # None
RepairKeepsOld == ~Foreign /\ record.phase = "retiring" /\ IsOld /\ next[Env] = None
RepairKeepsNew == ~Foreign /\ record.phase # "starting" /\ record.new # None
                  /\ canonical[Env] = record.new /\ next[Env] = None
RepairRenames == ~Foreign /\ record.phase # "starting" /\ canonical[Env] = None /\ next[Env] # None
Recognised == RepairUndoes \/ RepairRetires \/ RepairKeepsOld \/ RepairKeepsNew \/ RepairRenames

\* The container and the settings file under the temporary name go.
DropNext == /\ next' = [next EXCEPT ![Env] = None]
            /\ files' = [files EXCEPT ![Env].next = FALSE]
            /\ UNCHANGED <<canonical, up>>
DropCanonical == /\ canonical' = [canonical EXCEPT ![Env] = None]
                 /\ up' = [up EXCEPT ![Env] = FALSE]
                 /\ UNCHANGED <<next, files>>

Repair ==
    /\ At("repair") /\ record # NoRecord
    /\ \/ RepairUndoes /\ DropNext /\ Goes("publish")
       \/ RepairRetires /\ DropCanonical /\ Goes("rename")
       \/ RepairKeepsOld /\ UNCHANGED containers /\ Goes("publish")
       \/ RepairKeepsNew /\ UNCHANGED containers /\ Goes("take")
       \/ RepairRenames /\ UNCHANGED containers /\ Goes("rename")
    /\ UNCHANGED <<address, wide, records, outside>>

Rename ==
    /\ At("rename")
    /\ canonical' = [canonical EXCEPT ![Env] = next[Env]]
    /\ up' = [up EXCEPT ![Env] = TRUE]
    /\ next' = [next EXCEPT ![Env] = None]
    /\ Goes("take")
    /\ UNCHANGED <<files, address, wide, records, outside>>

\* The settings file, if one is left under the temporary name.
TakenFiles_Left(f) == [f EXCEPT !.canonical = "new"]
TakenFiles(f) == IF f.next THEN [canonical |-> "new", next |-> FALSE] ELSE f
TakeSettings ==
    /\ At("take")
    /\ files' = [files EXCEPT ![Env] = TakenFiles(@)]
    /\ Goes("publish")
    /\ UNCHANGED <<canonical, next, up, address, wide, records, outside>>

Publish ==
    /\ At("publish")
    /\ address' = [address EXCEPT ![Env] = IF canonical[Env] # None /\ up[Env] THEN canonical[Env] ELSE @]
    /\ Goes("narrow")
    /\ UNCHANGED <<containers, wide, records, outside>>

\* The limits go back and the record goes, one after the other under the limit lock.
Narrow ==
    /\ At("narrow")
    /\ wide' = wide \ {Env}
    /\ Goes("settle")
    /\ UNCHANGED <<containers, address, records, outside>>

Settle ==
    /\ At("settle")
    /\ record' = NoRecord
    /\ Goes(AfterSettled)
    /\ UNCHANGED <<containers, address, wide, held, plan, stopped, outside>>

Ends == proc' = Nobody

\* A record nothing explains: a start and a roll move it aside (the file first, then the record) and go on.
HoldsAside_AtStart == proc.kind = "start"
HoldsAside == proc.kind \in {"start", "roll"}
Hold ==
    /\ At("repair") /\ record # NoRecord /\ ~Recognised
    /\ HoldsAside
    /\ held' = [held EXCEPT ![Env] = record]
    /\ Goes("heldAside")
    /\ UNCHANGED <<containers, address, wide, record, plan, stopped, outside>>

HoldSettles ==
    /\ At("heldAside")
    /\ record' = NoRecord
    /\ Goes(AfterSettled)
    /\ UNCHANGED <<containers, address, wide, held, plan, stopped, outside>>

\* A failing replacement and the operator's repair stop there; the record stays.
RepairStops ==
    /\ At("repair") /\ record # NoRecord /\ ~Recognised
    /\ ~HoldsAside /\ proc.kind # "force"
    /\ Ends
    /\ UNCHANGED <<containers, address, wide, records, outside>>

\* repair --force: the canonical container is kept, and only the container of the record is removed or renamed.
RepairForces ==
    /\ At("repair") /\ record # NoRecord /\ ~Recognised
    /\ proc.kind = "force"
    /\ LET created == next[Env] # None /\ next[Env] = record.new IN
       \/ /\ next[Env] # None /\ ~created
          /\ Ends /\ UNCHANGED containers
       \/ /\ canonical[Env] # None /\ created
          /\ DropNext /\ Goes("publish")
       \/ /\ canonical[Env] # None /\ next[Env] = None
          /\ UNCHANGED containers
          /\ Goes(IF canonical[Env] = record.new THEN "take" ELSE "publish")
       \/ /\ canonical[Env] = None /\ created /\ record.phase = "starting"
          /\ DropNext /\ Goes("publish")
       \/ /\ canonical[Env] = None /\ next[Env] = None
          /\ UNCHANGED containers /\ Goes("publish")
    /\ UNCHANGED <<address, wide, records, outside>>

-------------------------------------------------------------------------------
(* A start.                                                                  *)

\* The start of an upgrade begins a new plan.
Begin ==
    /\ At("begin")
    /\ IF intent THEN plan' = [e \in Environments |-> None] /\ stopped' = FALSE ELSE UNCHANGED <<plan, stopped>>
    /\ proc' = [proc EXCEPT !.at = "resume", !.todo = {e \in Environments : ~Held(e) /\ e \notin fenced}]
    /\ UNCHANGED <<containers, address, wide, record, held, outside>>

Refuses(why) == /\ refused' = why /\ Ends
                /\ UNCHANGED <<containers, address, wide, records, fenced, intent, serving, promised, touched, counts>>

\* launch: the container of the pinned image starts; one of the previous image is kept for the roll when the
\* upgrade names the pin or the plan already holds its replacement.
Planned(e) == plan[e] \in {"old", "failed", "skipped"}
Deferred(e) == canonical[e] = "old" /\ (intent \/ Planned(e))

Resume(e) ==
    /\ At("resume") /\ e \in proc.todo
    /\ canonical[e] = "new" \/ Deferred(e)
    /\ plan' = [plan EXCEPT ![e] = IF canonical[e] = "old" /\ ~Planned(e) THEN "old" ELSE @]
    /\ up' = [up EXCEPT ![e] = TRUE]
    /\ address' = [address EXCEPT ![e] = canonical[e]]
    /\ proc' = [proc EXCEPT !.todo = @ \ {e}, !.deferred = IF Deferred(e) THEN @ \cup {e} ELSE @]
    /\ UNCHANGED <<canonical, next, files, wide, record, held, stopped, outside>>

\* Resume needs the retained container; a container of another image than the pin is drift.  Both refuse the start.
ResumeRefuses(e) ==
    /\ At("resume") /\ e \in proc.todo
    /\ \/ canonical[e] = None /\ Refuses("missing")
       \/ canonical[e] # None /\ canonical[e] # "new" /\ ~Deferred(e) /\ Refuses("drift")

\* The plan keeps only what this start deferred, and goes with nothing left.
FinishStart ==
    /\ At("resume") /\ proc.todo = {}
    /\ plan' = [e \in Environments |-> IF e \in proc.deferred THEN plan[e] ELSE None]
    /\ stopped' = (stopped /\ proc.deferred # {})
    /\ serving' = TRUE /\ refused' = None
    /\ Ends
    /\ UNCHANGED <<containers, address, wide, record, held, fenced, intent, promised, touched, counts>>

-------------------------------------------------------------------------------
(* A roll.                                                                   *)

Ready(e) == plan[e] = "old" /\ ~Held(e) /\ e \notin fenced
Revivable(e) == plan[e] = "skipped" /\ ~Held(e) /\ canonical[e] # None /\ up[e]
Due == record # NoRecord \/ (~stopped /\ \E e \in Environments : Ready(e) \/ (Revivable(e) /\ e \notin fenced))

\* The supervisor starts a roll once the upgrade is confirmed.
StartRoll ==
    /\ serving /\ ~intent /\ proc = Nobody /\ Due
    /\ proc' = [Nobody EXCEPT !.kind = "roll", !.at = "repair"]
    /\ UNCHANGED <<containers, address, wide, records, outside>>

\* Skipped entries whose container runs again wait again.
Revived(e) == IF plan[e] = "skipped" /\ canonical[e] # None /\ up[e] THEN "old" ELSE plan[e]
Candidates == {e \in Environments : Revived(e) = "old" /\ ~Held(e) /\ e \notin fenced}

Pick ==
    /\ At("pick")
    /\ IF stopped \/ Candidates = {}
       THEN /\ plan' = IF stopped THEN plan ELSE [e \in Environments |-> Revived(e)]
            /\ Ends
       ELSE /\ plan' = [e \in Environments |-> Revived(e)]
            /\ \E e \in Candidates : proc' = [proc EXCEPT !.at = "swap", !.env = e]
    /\ UNCHANGED <<containers, address, wide, record, held, stopped, outside>>

E == proc.env

\* The container to replace does not run: skipped.  It runs the pin already: done.
Skip ==
    /\ At("swap") /\ (canonical[E] = None \/ ~up[E])
    /\ plan' = [plan EXCEPT ![E] = "skipped"]
    /\ Ends
    /\ UNCHANGED <<containers, address, wide, record, held, stopped, outside>>
Already ==
    /\ At("swap") /\ canonical[E] = "new" /\ up[E]
    /\ Goes("replaced")
    /\ UNCHANGED <<containers, address, wide, records, outside>>
\* No room for a second container, or settings that cannot be read.
NotAdmitted ==
    /\ At("swap") /\ canonical[E] = "old" /\ up[E]
    /\ Count("faults", MaxFaults)
    /\ Goes("failed")
    /\ UNCHANGED <<containers, address, wide, records, fenced, intent, serving, refused, promised, touched>>
\* A container of the temporary name without a record: the roll stops, the plan as it is.
Unexpected ==
    /\ At("swap") /\ canonical[E] = "old" /\ up[E] /\ next[E] # None
    /\ Ends
    /\ UNCHANGED <<containers, address, wide, records, outside>>

WriteRecord ==
    /\ At("swap") /\ canonical[E] = "old" /\ up[E] /\ next[E] = None
    /\ record' = [env |-> E, phase |-> "starting", old |-> canonical[E], new |-> None]
    /\ proc' = [proc EXCEPT !.kind = "swap", !.at = "widen"]
    /\ UNCHANGED <<containers, address, wide, held, plan, stopped, outside>>
Widen ==
    /\ At("widen")
    /\ wide' = wide \cup {E}
    /\ Goes("launch")
    /\ UNCHANGED <<containers, address, records, outside>>
LaunchNext ==
    /\ At("launch")
    /\ next' = [next EXCEPT ![E] = "new"]
    /\ files' = [files EXCEPT ![E].next = TRUE]
    /\ Goes("note")
    /\ UNCHANGED <<canonical, up, address, wide, records, outside>>
NoteNew ==
    /\ At("note")
    /\ record' = [record EXCEPT !.new = "new"]
    /\ Goes("boot")
    /\ UNCHANGED <<containers, address, wide, held, plan, stopped, outside>>

\* It answers its health, the role settings are written and read back, and it answers again.
Boots ==
    /\ At("boot")
    /\ record' = [record EXCEPT !.phase = "switched"]
    /\ Goes("point")
    /\ UNCHANGED <<containers, address, wide, held, plan, stopped, outside>>
Point ==
    /\ At("point")
    /\ address' = [address EXCEPT ![E] = "new"]
    /\ Goes("watch")
    /\ UNCHANGED <<containers, wide, records, outside>>

\* The watch window went by with every answer: the old one may go.  Otherwise Fails, below.
Retire ==
    /\ At("watch")
    /\ record' = [record EXCEPT !.phase = "retiring"]
    /\ Goes("retire")
    /\ UNCHANGED <<containers, address, wide, held, plan, stopped, outside>>
RemoveOld ==
    /\ At("retire")
    /\ DropCanonical
    /\ Goes("rename")
    /\ UNCHANGED <<address, wide, records, outside>>

\* What each step up to the end of the watch does when it fails: repair, then the entry is failed and the plan stops.
\* Later, and in any other process, a failing command ends the process: what is recorded is repaired next time.
BeforeRetiring == {"widen", "launch", "note", "boot", "point", "watch"}
Fails ==
    /\ proc.at \in BeforeRetiring \cup {"repair", "retire", "rename", "take", "publish", "narrow", "settle", "begin", "resume"}
    /\ Count("faults", MaxFaults)
    /\ proc' = IF proc.at \in BeforeRetiring THEN [proc EXCEPT !.kind = "undo", !.at = "repair"] ELSE Nobody
    /\ refused' = IF proc.kind = "start" THEN "failed" ELSE refused
    /\ UNCHANGED <<containers, address, wide, records, fenced, intent, serving, promised, touched>>

Replaced ==
    /\ At("replaced")
    /\ plan' = LET done == [plan EXCEPT ![E] = "new"] IN
               IF \A e \in Environments : done[e] \in {"new", None} THEN [e \in Environments |-> None] ELSE done
    /\ Ends
    /\ UNCHANGED <<containers, address, wide, record, held, stopped, outside>>
Failed ==
    /\ At("failed")
    /\ plan' = [plan EXCEPT ![E] = "failed"]
    /\ stopped' = TRUE
    /\ Ends
    /\ UNCHANGED <<containers, address, wide, record, held, outside>>

-------------------------------------------------------------------------------
(* The operator, the supervisor and what happens to them.                    *)

\* retry: failed and skipped entries wait again.
Retry ==
    /\ proc = Nobody /\ Count("retries", MaxRetries)
    /\ plan' = [e \in Environments |-> IF plan[e] \in {"failed", "skipped"} THEN "old" ELSE plan[e]]
    /\ stopped' = FALSE
    /\ UNCHANGED <<containers, address, wide, record, held, fenced, intent, serving, refused, promised, proc, touched>>

RepairCommand ==
    /\ proc = Nobody /\ record # NoRecord /\ Count("retries", MaxRetries)
    /\ proc' = [Nobody EXCEPT !.kind = "repair", !.at = "repair"]
    /\ UNCHANGED <<containers, address, wide, records, fenced, intent, serving, refused, promised, touched>>

\* repair --force ENVIRONMENT: a held record is put back in its slot first.
ForceCommand(e) ==
    /\ proc = Nobody /\ Count("retries", MaxRetries)
    /\ \/ Held(e) /\ record = NoRecord /\ record' = held[e] /\ held' = [held EXCEPT ![e] = NoRecord]
       \/ ~Held(e) /\ record.env = e /\ UNCHANGED <<record, held>>
    /\ proc' = [Nobody EXCEPT !.kind = "force", !.at = "repair", !.env = e]
    /\ UNCHANGED <<containers, address, wide, plan, stopped, fenced, intent, serving, refused, promised, touched>>

CommandEnds ==
    /\ At("end") /\ Ends
    /\ promised' = IF proc.kind = "force" THEN promised \cup {E} ELSE promised
    /\ UNCHANGED <<containers, address, wide, records, fenced, intent, serving, refused, touched, counts>>

Confirm ==
    /\ serving /\ intent /\ intent' = FALSE
    /\ UNCHANGED <<containers, address, wide, records, proc, fenced, serving, refused, promised, touched, counts>>

\* The supervisor stops, taking the containers and a roll with it, or dies, leaving the containers.
SupervisorStops ==
    /\ serving /\ Count("stops", MaxStops)
    /\ serving' = FALSE /\ proc' = Nobody
    /\ up' = [e \in Environments |-> FALSE]
    /\ UNCHANGED <<canonical, next, files, address, wide, records, fenced, intent, refused, promised, touched>>
ProcessDies ==
    /\ proc # Nobody /\ Count("faults", MaxFaults)
    /\ proc' = Nobody
    /\ serving' \in {FALSE, serving}
    /\ UNCHANGED <<containers, address, wide, records, fenced, intent, refused, promised, touched>>
Start ==
    /\ ~serving /\ proc = Nobody
    /\ proc' = [Nobody EXCEPT !.kind = "start", !.at = "repair"]
    /\ UNCHANGED <<containers, address, wide, records, fenced, intent, serving, refused, promised, touched, counts>>

\* A fence is put on a database that is moved or restored, and released.
Fence(e) ==
    /\ proc = Nobody
    /\ \/ e \notin fenced /\ Count("fences", MaxFences) /\ fenced' = fenced \cup {e}
       \/ e \in fenced /\ fenced' = fenced \ {e} /\ counts' = counts
    /\ UNCHANGED <<containers, address, wide, records, intent, serving, refused, promised, proc, touched>>

\* Studio opens or closes: the limit of what runs now, and the allowance of a recorded swap, under the limit lock.
LimitLockHeld_Never(e) == FALSE
LimitLockHeld(e) == (At("widen") /\ E = e) \/ (At("settle") /\ Env = e)
StudioWrites(e) ==
    /\ ~LimitLockHeld(e) /\ Count("studio", MaxStudio)
    /\ wide' = IF Env = e THEN wide \cup {e} ELSE wide \ {e}
    /\ UNCHANGED <<containers, address, records, proc, fenced, intent, serving, refused, promised, touched>>

\* By hand, while no process works: a container goes, one is made under the temporary name, or the canonical one stops or starts.
ByHand(e) ==
    /\ proc = Nobody /\ Count("hands", MaxHands)
    /\ touched' = touched \cup {e}
    /\ \/ /\ canonical[e] # None
          /\ canonical' = [canonical EXCEPT ![e] = None] /\ up' = [up EXCEPT ![e] = FALSE] /\ UNCHANGED next
       \/ next[e] # None /\ next' = [next EXCEPT ![e] = None] /\ UNCHANGED <<canonical, up>>
       \/ next[e] = None /\ next' = [next EXCEPT ![e] = "other"] /\ UNCHANGED <<canonical, up>>
       \/ canonical[e] # None /\ up' = [up EXCEPT ![e] = ~@] /\ UNCHANGED <<canonical, next>>
    /\ UNCHANGED <<files, address, wide, records, fenced, intent, serving, refused, promised, proc>>

-------------------------------------------------------------------------------

\* The steps of the process under the operation lock.
RepairWorks ==
    \/ RepairNothing \/ Repair \/ Rename \/ TakeSettings \/ Publish \/ Narrow \/ Settle
    \/ Hold \/ HoldSettles \/ RepairStops \/ RepairForces \/ CommandEnds
StartWorks == Begin \/ FinishStart \/ \E e \in Environments : Resume(e) \/ ResumeRefuses(e)
RollWorks ==
    \/ Pick \/ Skip \/ Already \/ Unexpected \/ WriteRecord \/ Widen \/ LaunchNext \/ NoteNew \/ Boots \/ Point
    \/ Retire \/ RemoveOld \/ Replaced \/ Failed
Works == RepairWorks \/ StartWorks \/ RollWorks

Next ==
    \/ RepairNothing \/ Repair \/ Rename \/ TakeSettings \/ Publish \/ Narrow \/ Settle
    \/ Hold \/ HoldSettles \/ RepairStops \/ RepairForces \/ CommandEnds
    \/ Begin \/ FinishStart
    \/ Pick \/ Skip \/ Already \/ NotAdmitted \/ Unexpected
    \/ WriteRecord \/ Widen \/ LaunchNext \/ NoteNew \/ Boots \/ Point \/ Retire \/ RemoveOld
    \/ Fails \/ Replaced \/ Failed
    \/ StartRoll \/ Retry \/ RepairCommand \/ Confirm \/ SupervisorStops \/ ProcessDies \/ Start
    \/ \E e \in Environments :
         Resume(e) \/ ResumeRefuses(e) \/ ForceCommand(e) \/ Fence(e) \/ StudioWrites(e) \/ ByHand(e)

Spec == Init /\ [][Next]_vars

\* A process under the lock goes on, the supervisor polls, an upgrade is confirmed, and a stopped
\* supervisor is started again by its service manager.
FairSpec == Spec /\ WF_vars(Works \/ Fails) /\ WF_vars(StartRoll) /\ WF_vars(Confirm) /\ WF_vars(Start)

-------------------------------------------------------------------------------
(* Properties.                                                              *)

Containers == {None, "old", "new", "other"}
Phases == {"starting", "switched", "retiring"}
IsRecord(r) == r = NoRecord \/ (r.env \in Environments /\ r.phase \in Phases /\ r.old # None /\ r.new \in {None, "new"})

\* The shape of the state; a record past `starting` names the new container.
TypeOK ==
    /\ \A e \in Environments : /\ canonical[e] \in Containers /\ next[e] \in Containers \ {"old"}
                               /\ address[e] \in Containers \ {None}
                               /\ IsRecord(held[e]) /\ (Held(e) => held[e].env = e)
                               /\ plan[e] \in {None, "old", "new", "failed", "skipped"}
                               /\ up[e] => canonical[e] # None
    /\ IsRecord(record) /\ (record.phase \in {"switched", "retiring"} => record.new = "new")
    /\ wide \subseteq Environments /\ fenced \subseteq Environments
    /\ refused \in {None, "missing", "drift", "failed"}

\* The connection limits of an environment are raised only while a swap of it is recorded: no failure, death, repair
\* or Studio session in between leaves the raise behind (replace, repair, Studio's limit lock and allowance).
LimitsGoBack == \A e \in wide : Env = e \/ Held(e)

\* With nothing recorded of it and no hand in it, an environment has one container under its own name with its own
\* settings file, none of the temporary name, and while it runs the published address leads to it (replace, repair).
SettledIsWhole ==
    \A e \in Environments :
        Env # e /\ ~Held(e) /\ e \notin touched =>
            /\ canonical[e] \in {"old", "new"} /\ next[e] = None
            /\ files[e] = [canonical |-> canonical[e], next |-> FALSE]
            /\ up[e] => address[e] = canonical[e]

\* The container that serves goes only when the one that replaces it is there and was watched: a repair after any
\* crash, or a hand in it, never removes the last container (repair, repair --force, replace).
OldGoesLast ==
    [][\A e \in Environments :
        canonical[e] # None /\ canonical'[e] = None =>
            counts'.hands > counts.hands \/ (record.phase = "retiring" /\ record.env = e /\ next[e] # None)]_vars

\* What a roll promises of an environment, seen from outside: whatever dies, fails or is repaired, it is tried after the
\* upgrade is confirmed and alone, a trial is given up or decided, and what is decided ends with the new container
\* (replace, repair, roll_once).
PlaceOf(its, temporary, retiring) ==
    LET there == {its, temporary} \ {None} IN
    CASE there = {"old"} -> "old"
      [] there = {"new"} -> "new"
      [] there = {"old", "new"} -> IF retiring THEN "decided" ELSE "trial"
      [] OTHER -> "broken"
Place(e) == IF e \in touched THEN "byhand" ELSE PlaceOf(canonical[e], next[e], record.phase = "retiring")
Replacement == INSTANCE ReplacementLedger WITH
    Environment <- Environments, place <- [e \in Environments |-> Place(e)], confirmed <- ~intent
RollKeepsLedger == Replacement!Spec

\* A record is settled or held in the end, whatever died over it (repair_or_hold, due).
RecordSettles == (record # NoRecord) ~> (record = NoRecord)

\* The roll ends unless a hand was in it or an environment was fenced meanwhile: no entry waits, or the plan stopped at
\* a failure (schedule_rolling, roll_once).
RollEnds == <>[](stopped \/ touched # {} \/ counts.fences > 0 \/ \A e \in Environments : plan[e] # "old")

\* lab/rolling.py:26: "the address goes back to the old one and the new one is removed": the published address
\* leads to a container that exists, whatever is undone.
AddressIsServed ==
    \A e \in Environments : e \notin touched => address[e] \in {canonical[e], next[e]}

\* lab/rolling.py:33: "A paused, fenced or unpublished environment keeps waiting as `old`", across a start too.
FencedKeepsWaiting ==
    [][\A e \in Environments : ~intent /\ e \in fenced \cap fenced' /\ plan[e] = "old" => plan'[e] = "old"]_vars

\* lab/rolling.py:762 and :768, repair --force: "the next start creates" the container that is missing.
MissingIsCreated == refused = "missing" => promised = {}

\* lab/rolling.py:43: after repair --force "the environment resumes at the next supervisor start".
ForcedResumes == refused = "drift" => promised = {}
===============================================================================
