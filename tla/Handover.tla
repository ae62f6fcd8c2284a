------------------------------- MODULE Handover -------------------------------
(***************************************************************************)
(* The in-place handover of the console process during an upgrade          *)
(* (lab/handover.py, lab/dev.py, src/http/handover.ts,                     *)
(* lab/upstream-server.ts).  The supervisor replaces its own program with  *)
(* the new version's (execve, same process id).  The old console process   *)
(* keeps serving; the new version's process, the candidate, serves         *)
(* privately, joins the shared ports, steers every new connection to       *)
(* itself, and only then does the old process retire.                      *)
(*                                                                         *)
(* The supervisor's program counter `sup` uses the step names of the       *)
(* source's comments: A5 to A7 in the old program, B1 to B9 in the new     *)
(* one, then "watch", the supervisor's loop, where `phase` is that of      *)
(* handover.Promotion.  Any failure goes to "ending" with a verdict:       *)
(*   "back"     the version failed: both processes end, then the control   *)
(*              state is restored (W2),                                    *)
(*   "restart"  the handover failed: the same version starts the old way   *)
(*              (W3, W5),                                                  *)
(*   "stop"     a stop was asked for (W4),                                 *)
(*   "refused"  another runner holds the lock (B6),                        *)
(*   "ordinary" the record was not this start's: it goes on alone (B2).    *)
(***************************************************************************)
EXTENDS Naturals, Sequences, FiniteSets

CONSTANTS Late,       \* fixed listeners beside the console: Studio's internal route, Functions Storage
          MaxFaults   \* bound on process deaths and failed promotions in a behaviour

ASSUME HandoverConstants == "console" \notin Late /\ MaxFaults \in Nat

Procs == {"old", "cand"}
Listeners == {"console"} \cup Late

VARIABLES
  sup, phase, verdict,  \* the supervisor: its step, Promotion.phase, why it is ending
  stop,                 \* a stop of the service: "no", "pending" (masked) or "asked"
  lock,                 \* supervisor.lock: "sup", "free" or "other"
  named,                \* handover.json exists and names the old process
  upgrade, attempt,     \* the upgrade's state and whether the guard's attempt is open
  oldSeen,              \* old_record's listeners, read at H2
  st, termed, usr,      \* the two processes, SIGTERM delivered, SIGUSR2s sent to the candidate
  wanted,               \* the late listeners the published endpoints ask for
  frozen, opening,      \* the old process: its record says frozen; binds in flight
  group,                \* the sockets of each listener's SO_REUSEPORT group, in joining order
  steer, said,          \* groups with the program attached; what the candidate's record says of it
  published,            \* the candidate's record and its promoted server.json
  faults

supv == <<sup, phase, verdict, oldSeen>>
files == <<lock, named, upgrade, attempt>>
procv == <<st, termed, usr>>
oldv == <<wanted, frozen, opening>>
net == <<group, steer, said, published>>
vars == <<supv, stop, files, procv, oldv, net, faults>>

Live(p) == st[p] \in {"starting", "up", "grace", "closed"}
Accepts(p) == st[p] \in {"up", "grace"}
Held(p) == {l \in Listeners : \E i \in DOMAIN group[l] : group[l][i] = p}

\* Where the kernel sends a new connection: the program names the group's second member; without a
\* program, or with no such member, the connection is hashed over all of them.
Target(l) == IF l \in steer /\ Len(group[l]) > 1 THEN {group[l][2]}
             ELSE {group[l][i] : i \in DOMAIN group[l]}

Init ==
  /\ sup = "A1" /\ phase = "probe" /\ verdict = "none" /\ oldSeen = {}
  /\ stop = "no"
  /\ lock = "sup" /\ named = FALSE /\ upgrade = "applied" /\ attempt = FALSE
  /\ st = [old |-> "up", cand |-> "none"]
  /\ termed = [p \in Procs |-> FALSE] /\ usr = 0
  /\ wanted \in SUBSET Late
  /\ frozen = FALSE /\ opening = {}
  /\ \E open \in SUBSET wanted :
       group = [l \in Listeners |-> IF l \in {"console"} \cup open THEN <<"old">> ELSE <<>>]
  /\ steer = {} /\ said = {} /\ published = FALSE
  /\ faults = 0

-----------------------------------------------------------------------------
(* Ending: both processes get SIGTERM at once, one grace for both, SIGKILL   *)
(* to what still runs, both reaped, the records removed.                     *)

\* A process has at most one socket in a group, and there are two processes.
Without(s, p) ==
  IF s # <<>> /\ Head(s) = p THEN Tail(s) ELSE IF Len(s) = 2 /\ s[2] = p THEN <<s[1]>> ELSE s

Leaves(p) ==
  /\ group' = [l \in Listeners |-> Without(group[l], p)]
  /\ steer' = {l \in steer : \E i \in DOMAIN group[l] : group[l][i] # p}
  /\ UNCHANGED <<said, published>>

Signalled(P) == termed' = [p \in Procs |-> termed[p] \/ p \in P]

End(why) ==
  /\ sup' = "ending" /\ verdict' = why
  /\ Signalled({p \in Procs : Live(p)})
  /\ UNCHANGED <<phase, oldSeen, stop, files, st, usr, oldv, net, faults>>

EndKills(p) ==
  /\ sup = "ending" /\ Live(p)
  /\ st' = [st EXCEPT ![p] = "zombie"]
  /\ Leaves(p)
  /\ UNCHANGED <<supv, stop, files, termed, usr, oldv, faults>>

\* Mutant: the candidate is not ended with the old process.
Ended_OldOnly == ~Live("old")

Ended == \A p \in Procs : ~Live(p)

EndReaps ==
  /\ sup = "ending" /\ Ended
  /\ sup' = "settle"
  /\ st' = [p \in Procs |-> IF st[p] = "zombie" THEN "reaped" ELSE st[p]]
  /\ named' = FALSE
  /\ UNCHANGED <<phase, verdict, oldSeen, stop, lock, upgrade, attempt, termed, usr, oldv, net, faults>>

\* main's except and finally clauses, once every process is gone.
Settle ==
  /\ sup = "settle"
  /\ sup' = IF verdict = "ordinary" THEN "ordinary" ELSE "exited"
  /\ upgrade' = IF verdict = "back" /\ upgrade = "applied" THEN "back" ELSE upgrade
  /\ attempt' = (attempt /\ verdict = "refused")
  /\ lock' = IF lock = "sup" THEN "free" ELSE lock
  /\ UNCHANGED <<phase, verdict, oldSeen, stop, named, procv, oldv, net, faults>>

-----------------------------------------------------------------------------
(* The old program: A1 to A9.                                                *)

\* The runtime is left for the next start and the locks are released; when it cannot be left, or a
\* stop was asked for, the console process ends here.
\* Mutant: the supervisor's end stops the console process although a plan keeps it.
LeaveRuntime_Stops ==
  /\ sup = "A1" /\ stop = "no"
  /\ sup' = "A5" /\ lock' = "free" /\ Signalled({"old"})
  /\ UNCHANGED <<phase, verdict, oldSeen, stop, named, upgrade, attempt, st, usr, oldv, net, faults>>

LeaveRuntime ==
  /\ sup = "A1"
  /\ \/ /\ stop = "no"
        /\ sup' = "A5" /\ lock' = "free"
        /\ UNCHANGED <<phase, verdict, oldSeen, stop, named, upgrade, attempt, procv, oldv, net, faults>>
     \/ End("restart")

Mask ==
  /\ sup = "A5"
  /\ \/ /\ stop = "no" /\ Live("old")
        /\ sup' = "A7"
        /\ UNCHANGED <<phase, verdict, oldSeen, stop, files, procv, oldv, net, faults>>
     \/ /\ stop # "no" \/ ~Live("old")
        /\ End("restart")

WriteRecord ==
  /\ sup = "A7" /\ ~named
  /\ \/ /\ named' = TRUE
        /\ UNCHANGED <<supv, stop, lock, upgrade, attempt, procv, oldv, net, faults>>
     \/ End("restart")

Exec ==
  /\ sup = "A7" /\ named
  /\ \/ /\ sup' = "B1"
        /\ UNCHANGED <<phase, verdict, oldSeen, stop, files, procv, oldv, net, faults>>
     \/ End("restart")

-----------------------------------------------------------------------------
(* The new program: B1 to B9.                                                *)

\* The handlers first, then the signals they serve: a stop that waited across the exec arrives.
Enter ==
  /\ sup = "B1"
  /\ sup' = "B2"
  /\ stop' = IF stop = "pending" THEN "asked" ELSE stop
  /\ UNCHANGED <<phase, verdict, oldSeen, files, procv, oldv, net, faults>>

Goes(from, to) ==
  /\ sup = from /\ sup' = to
  /\ UNCHANGED <<phase, verdict, oldSeen, stop, procv, oldv, net, faults>>

\* The record is this start's only while HEAD is still the commit it names.
Adopt ==
  \/ upgrade = "applied" /\ Goes("B2", "B4") /\ UNCHANGED files
  \/ sup = "B2" /\ upgrade # "applied" /\ End("ordinary")

\* B4, host admission: a stage that sees a stop ends the start, a refusal restarts it the old way.
HostAdmission ==
  \/ stop = "no" /\ Goes("B4", "B5") /\ UNCHANGED files
  \/ sup = "B4" /\ End(IF stop = "no" THEN "restart" ELSE "stop")

\* B5: the guard is not interrupted by a stop; it opens the attempt of a pending upgrade.
Guard ==
  \/ Goes("B5", "B6") /\ attempt' = (upgrade = "applied") /\ UNCHANGED <<lock, named, upgrade>>
  \/ sup = "B5" /\ End("refused")

TakeLocks ==
  \/ lock = "free" /\ Goes("B6", "B7") /\ lock' = "sup" /\ UNCHANGED <<named, upgrade, attempt>>
  \/ sup = "B6" /\ lock = "other" /\ End("refused")

\* B7 and B8: the start gates, then the hold and the snapshot of a pending upgrade.
Prepare ==
  \/ stop = "no" /\ upgrade = "applied" /\ Goes("B7", "B9") /\ UNCHANGED files
  \/ /\ sup = "B7"
     /\ \/ stop # "no" /\ End("stop")
        \/ stop = "no" /\ \E why \in {"restart", "back"} : End(why)

\* B9 to B11: the settle stage, the console build and the runtime start, which may change what the
\* endpoints ask for; then the candidate.
StartRuntime ==
  /\ sup = "B9"
  /\ \/ stop # "no" /\ End("stop")
     \/ stop = "no" /\ \E why \in {"restart", "back"} : End(why)
     \/ /\ stop = "no"
        /\ sup' = "watch"
        /\ wanted' \in SUBSET Late
        /\ st' = [st EXCEPT !.cand = "starting"]
        /\ UNCHANGED <<phase, verdict, oldSeen, stop, files, termed, usr, frozen, opening, net, faults>>

-----------------------------------------------------------------------------
(* The supervisor's loop: Supervisor.check, then Promotion.poll.             *)

StopSeen == sup \in {"watch", "done"} /\ stop = "asked" /\ End("stop")

\* A candidate that exits is the version's failure, except while the promotion is awaited.
CandidateExited ==
  /\ sup \in {"watch", "done"} /\ stop = "no"
  /\ st["cand"] = "zombie" /\ phase # "promoting"
  /\ End("back")

CheckReapsOld ==
  /\ sup = "watch" /\ st["old"] = "zombie" /\ phase \notin {"retire", "confirm"}
  /\ st' = [st EXCEPT !["old"] = "reaped"]
  /\ UNCHANGED <<supv, stop, files, termed, usr, oldv, net, faults>>

\* A turn that reaches Promotion.poll in this phase: check found nothing to do.
Turn(in) ==
  /\ sup = "watch" /\ stop = "no" /\ phase = in
  /\ st["cand"] = "zombie" => in = "promoting"
  /\ st["old"] = "zombie" => in \in {"retire", "confirm"}

Next_(to) == phase' = to /\ UNCHANGED <<sup, verdict, oldSeen, stop, files, procv, oldv, net, faults>>

\* H2 and H3: the old process is frozen and alone on each of its listeners; then the promote signal.
Freeze ==
  \/ /\ frozen /\ Live("old") /\ \A l \in Held("old") : group[l] = <<"old">>
     /\ oldSeen' = Held("old")
     /\ phase' = "promoting" /\ usr' = 1
     /\ UNCHANGED <<sup, verdict, stop, files, st, termed, oldv, net, faults>>
  \/ End("restart")

StepProbe ==
  /\ Turn("probe")
  /\ \/ st["cand"] = "up" /\ (Freeze \/ (~frozen /\ Next_("freeze")))
     \/ End("back")

StepFreeze == Turn("freeze") /\ Freeze

StepPromoting ==
  /\ Turn("promoting")
  /\ \/ st["cand"] # "zombie" /\ published /\ Next_("check")
     \/ End("restart")

\* H4 and H6: two sockets on every shared listener, one on those only the candidate has.
GroupsAsRequired ==
  LET new == Held("cand") IN
  /\ published
  /\ \A l \in oldSeen \cap new : Live("old") /\ Len(group[l]) = 2 /\ l \in Held("old")
  /\ \A l \in new \ oldSeen : group[l] = <<"cand">>

StepCheck ==
  /\ Turn("check")
  /\ IF GroupsAsRequired THEN Next_("recheck") ELSE End("restart")

StepRecheck ==
  /\ Turn("recheck")
  /\ IF oldSeen \cap Held("cand") \subseteq said /\ GroupsAsRequired THEN Next_("verify") ELSE End("restart")

\* Mutant: SIGTERM without looking whether the old process was reaped.
StepVerify_Blind ==
  /\ Turn("verify")
  /\ "cand" \in Target("console") /\ st["cand"] = "up"
  /\ Signalled({"old"})
  /\ phase' = "retire"
  /\ UNCHANGED <<sup, verdict, oldSeen, stop, files, st, usr, oldv, net, faults>>

\* H7 and H8: fresh connections answered by the candidate; then SIGTERM to an unreaped old process.
StepVerify ==
  /\ Turn("verify")
  /\ \/ /\ "cand" \in Target("console") /\ st["cand"] = "up"
        /\ Signalled({"old"} \ {p \in Procs : st[p] = "reaped"})
        /\ phase' = "retire"
        /\ UNCHANGED <<sup, verdict, oldSeen, stop, files, st, usr, oldv, net, faults>>
     \/ End("restart")

\* Mutant: confirmed without waiting for the old process.
StepRetire_AtOnce ==
  /\ Turn("retire")
  /\ named' = FALSE /\ phase' = "confirm" /\ usr' = 2
  /\ UNCHANGED <<sup, verdict, oldSeen, stop, lock, upgrade, attempt, st, termed, oldv, net, faults>>

\* H9 and H9a: the old process is reaped, or killed when its drain takes too long.
StepRetire ==
  /\ Turn("retire")
  /\ st' = [st EXCEPT !["old"] = "reaped"]
  /\ Leaves("old")
  /\ named' = FALSE /\ phase' = "confirm" /\ usr' = 2
  /\ UNCHANGED <<sup, verdict, oldSeen, stop, lock, upgrade, attempt, termed, oldv, faults>>

StepConfirm ==
  /\ Turn("confirm")
  /\ upgrade' = "confirmed" /\ attempt' = FALSE
  /\ sup' = "done" /\ phase' = "done"
  /\ UNCHANGED <<verdict, oldSeen, stop, lock, named, procv, oldv, net, faults>>

\* The 90 s limit that starts with the first healthy round.
LimitPassed ==
  /\ \E in \in {"freeze", "promoting", "check", "recheck", "verify", "retire", "confirm"} : Turn(in)
  /\ End("back")

-----------------------------------------------------------------------------
(* The console processes.                                                    *)

\* The timers of the old process: a tick freezes once it is named; before that it opens and closes
\* the late listeners, and a bind it has begun ends whenever it does.
OldTick ==
  /\ st["old"] = "up" /\ ~frozen
  /\ \/ /\ named
        /\ frozen' = TRUE
        /\ UNCHANGED <<opening, group, steer>>
     \/ /\ ~named
        /\ \E l \in wanted \ (Held("old") \cup opening) : opening' = opening \cup {l}
        /\ UNCHANGED <<frozen, group, steer>>
     \/ /\ ~named
        /\ \E l \in (Held("old") \cap Late) \ wanted :
             /\ group' = [group EXCEPT ![l] = Without(@, "old")]
             /\ steer' = IF group'[l] = <<>> THEN steer \ {l} ELSE steer
        /\ UNCHANGED <<frozen, opening>>
  /\ UNCHANGED <<supv, stop, files, procv, wanted, said, published, faults>>

OldBindEnds ==
  \E l \in opening :
    /\ opening' = opening \ {l}
    /\ group' = IF st["old"] = "up" THEN [group EXCEPT ![l] = Append(@, "old")] ELSE group
    /\ UNCHANGED <<supv, stop, files, procv, wanted, frozen, steer, said, published, faults>>

\* The gateway is up and candidate.json written; the handlers were installed before.
CandidateReady ==
  /\ st["cand"] = "starting"
  /\ st' = [st EXCEPT !["cand"] = "up"]
  /\ UNCHANGED <<supv, stop, files, termed, usr, oldv, net, faults>>

Promoting == st["cand"] = "up" /\ usr > 0 /\ ~published

\* promote: the console is bound and steered first; the Functions listeners are all bound before any of
\* them is steered.
PromoteBinds(l) ==
  /\ Promoting
  /\ l \in (wanted \cup {"console"}) \ Held("cand")
  /\ l # "console" => "console" \in said
  /\ group' = [group EXCEPT ![l] = Append(@, "cand")]
  /\ UNCHANGED <<supv, stop, files, procv, oldv, steer, said, published, faults>>

PromoteSteers(l) ==
  /\ Promoting
  /\ l \in Held("cand") \ said
  /\ steer' = steer \cup {l} /\ said' = said \cup {l}
  /\ UNCHANGED <<supv, stop, files, procv, oldv, group, published, faults>>

PromotePublishes ==
  /\ Promoting
  /\ wanted \cup {"console"} \subseteq said
  /\ published' = TRUE
  /\ UNCHANGED <<supv, stop, files, procv, oldv, group, steer, said, faults>>

\* Mutant: a release is only remembered for a promotion still running.
Release_Later ==
  /\ usr = 2 /\ ~published /\ st["cand"] \in {"up", "grace"}
  /\ steer' = steer \ said /\ said' = {}
  /\ UNCHANGED <<supv, stop, files, procv, oldv, group, published, faults>>

Release ==
  /\ usr = 2 /\ published /\ st["cand"] \in {"up", "grace"} /\ said # {}
  /\ steer' = steer \ said /\ said' = {}
  /\ UNCHANGED <<supv, stop, files, procv, oldv, group, published, faults>>

\* SIGTERM: accept for the grace, then close every listener, then exit.
Drain(p) ==
  /\ termed[p]
  /\ \/ /\ st[p] = "up"
        /\ st' = [st EXCEPT ![p] = "grace"]
        /\ UNCHANGED net
     \/ /\ st[p] = "grace"
        /\ st' = [st EXCEPT ![p] = "closed"]
        /\ Leaves(p)
     \/ /\ st[p] = "closed"
        /\ st' = [st EXCEPT ![p] = "zombie"]
        /\ UNCHANGED net
  /\ UNCHANGED <<supv, stop, files, termed, usr, oldv, faults>>

-----------------------------------------------------------------------------
(* What happens around them.                                                 *)

\* A process dies: a crash, a gateway that could not start, a promotion that failed (exit 75).
Dies(p) ==
  /\ faults < MaxFaults /\ Live(p)
  /\ faults' = faults + 1
  /\ st' = [st EXCEPT ![p] = "zombie"]
  /\ Leaves(p)
  /\ UNCHANGED <<supv, stop, files, termed, usr, oldv>>

Over == sup \in {"exited", "crashed", "ordinary"}

\* The supervisor dies: each child gets SIGTERM from the kernel (lab/parent_bound.py).
SupervisorDies ==
  /\ faults < MaxFaults /\ ~Over
  /\ faults' = faults + 1
  /\ sup' = "crashed"
  /\ lock' = IF lock = "sup" THEN "free" ELSE lock
  /\ Signalled({p \in Procs : Live(p)})
  /\ UNCHANGED <<phase, verdict, oldSeen, stop, named, upgrade, attempt, st, usr, oldv, net>>

\* The service manager stops the service: pending while the supervisor's mask holds.
ServiceStops ==
  /\ stop = "no" /\ ~Over
  /\ stop' = IF sup \in {"A7", "B1"} THEN "pending" ELSE "asked"
  /\ UNCHANGED <<supv, files, procv, oldv, net, faults>>

\* The service manager starts the version of the checkout, once everything of the last run is gone.
\* The record is removed; an attempt still open reads as a crash and may cost the upgrade its way back.
ServiceRestarts ==
  /\ sup \in {"exited", "crashed"} /\ stop = "no" /\ verdict # "stop" /\ Ended
  /\ sup' = "ordinary" /\ named' = FALSE
  /\ upgrade' \in {upgrade} \cup (IF attempt THEN {"back"} ELSE {})
  /\ attempt' = FALSE
  /\ UNCHANGED <<phase, verdict, oldSeen, stop, lock, procv, oldv, net, faults>>

\* From A4 to B6 no program of this handover holds the lock.  A start from a terminal refuses when the
\* record names a live process; a rollback command takes the lock and moves the checkout back.
Unlocked == lock = "free" /\ sup \in {"A5", "A7", "B1", "B2", "B4", "B5", "B6"}

TerminalStarts ==
  /\ Unlocked /\ ~(named /\ Live("old"))
  /\ lock' = "other"
  /\ UNCHANGED <<supv, stop, named, upgrade, attempt, procv, oldv, net, faults>>

RollbackCommand ==
  /\ Unlocked /\ upgrade = "applied" /\ ~attempt
  /\ upgrade' = "rolled"
  /\ UNCHANGED <<supv, stop, lock, named, attempt, procv, oldv, net, faults>>

Terminated == Over /\ Ended /\ UNCHANGED vars

SupervisorStep ==
  \/ EndReaps \/ Settle \/ (\E p \in Procs : EndKills(p))
  \/ LeaveRuntime \/ Mask \/ WriteRecord \/ Exec
  \/ Enter \/ Adopt \/ HostAdmission \/ Guard \/ TakeLocks \/ Prepare \/ StartRuntime
  \/ StopSeen \/ CandidateExited \/ CheckReapsOld
  \/ StepProbe \/ StepFreeze \/ StepPromoting \/ StepCheck \/ StepRecheck
  \/ StepVerify \/ StepRetire \/ StepConfirm \/ LimitPassed

CandidateStep ==
  \/ CandidateReady \/ PromotePublishes \/ Release
  \/ \E l \in Listeners : PromoteBinds(l) \/ PromoteSteers(l)

Next ==
  \/ SupervisorStep \/ CandidateStep \/ OldTick \/ OldBindEnds
  \/ \E p \in Procs : Drain(p) \/ Dies(p)
  \/ SupervisorDies \/ ServiceStops \/ ServiceRestarts \/ TerminalStarts \/ RollbackCommand
  \/ Terminated

Spec == Init /\ [][Next]_vars

\* The supervisor's loop turns, its deadlines pass, the processes' event loops run; nothing is assumed of
\* faults, of the operator or of a restart.
FairSpec ==
  /\ Spec
  /\ WF_vars(SupervisorStep) /\ WF_vars(CandidateStep) /\ WF_vars(OldTick) /\ WF_vars(OldBindEnds)
  /\ \A p \in Procs : WF_vars(Drain(p))

-----------------------------------------------------------------------------
(* Properties.                                                               *)

TypeOK ==
  /\ sup \in {"A1", "A5", "A7", "B1", "B2", "B4", "B5", "B6", "B7", "B9", "watch", "done",
             "ending", "settle", "exited", "crashed", "ordinary"}
  /\ phase \in {"probe", "freeze", "promoting", "check", "recheck", "verify", "retire", "confirm", "done"}
  /\ verdict \in {"none", "back", "restart", "stop", "refused", "ordinary"}
  /\ stop \in {"no", "pending", "asked"} /\ lock \in {"sup", "free", "other"}
  /\ upgrade \in {"applied", "confirmed", "back", "rolled"}
  /\ {named, attempt, frozen, published} \subseteq BOOLEAN
  /\ st \in [Procs -> {"none", "starting", "up", "grace", "closed", "zombie", "reaped"}]
  /\ termed \in [Procs -> BOOLEAN] /\ usr \in 0..2
  /\ wanted \subseteq Late /\ opening \subseteq Late /\ oldSeen \subseteq Listeners
  /\ DOMAIN group = Listeners /\ \A l \in Listeners : group[l] \in UNION {[1..n -> Procs] : n \in 0..2}
  /\ steer \subseteq Listeners /\ said \subseteq Listeners
  /\ faults \in 0..MaxFaults

HandingOver == sup \in {"A1", "A5", "A7", "B1", "B2", "B4", "B5", "B6", "B7", "B9", "watch", "done"}

\* While a handover goes on without a death, whatever process the kernel picks for a new connection to
\* the console accepts it: across the exec, the candidate's binds, the steering and the old one's exit.
ServedThroughout ==
  HandingOver /\ faults = 0 => Target("console") # {} /\ \A p \in Target("console") : Accepts(p)

\* The old process closes a listener only when new connections of that port already go to a candidate
\* that is up: a close would reset what the kernel queued (H8, src/http/local-server.ts ACCEPT_GRACE_MS).
ClosesOnlyUnsteered ==
  [][\A l \in oldSeen \cap Held("cand") :
       sup = "watch" /\ st["cand"] = "up" /\ l \in Held("old") \ Held("old")' /\ st'["old"] = "closed"
       => Target(l) = {"cand"}]_vars

\* The control state is never restored while a console process of either version still runs (W1).
WayBackAlone == [][upgrade # "back" /\ upgrade' = "back" => \A p \in Procs : ~Live(p)]_vars

\* A saved confirmation, which lifts the hold, follows the old process's reaping (H9, H10): two
\* versions never accept control changes side by side.
ConfirmedAlone == upgrade = "confirmed" => ~Live("old")

\* A process id that was reaped, or that no process of the handover has, is never signalled: it may be
\* another program's by then (B13).
NeverSignalsReaped ==
  [][/\ \A p \in Procs : termed'[p] # termed[p] => st[p] \notin {"none", "reaped"}
     /\ usr' # usr => st["cand"] \notin {"none", "reaped"}]_vars

\* A stop of the service, even one that arrives while the exec masks it, ends the run and every process.
StopHonoured == (stop # "no") ~> (Over /\ Ended)

\* A handover never hangs: it is confirmed and the steering released with only the candidate left, or
\* the run is over with no process left.
Settles ==
  <>(\/ Over /\ Ended
     \/ sup = "done" /\ st = [old |-> "reaped", cand |-> "up"] /\ steer = {})

\* What lab/upstream-server.ts:157 says of a process the supervisor has named: from the freeze on it
\* opens no fixed listener.
FrozenOpensNothing == [][frozen => Held("old")' \subseteq Held("old")]_vars

\* What docs/engineering/HANDOVER.md:226 says of the gap from A4 to B6: a start from a terminal refuses
\* on the live record.
GapIsGuarded == ~(lock = "other" /\ Live("old") /\ HandingOver)

=============================================================================
