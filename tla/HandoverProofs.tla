---------------------------- MODULE HandoverProofs ----------------------------
(***************************************************************************)
(* Handover for any set of late listeners and any number of deaths.        *)
(*                                                                         *)
(* ServedThroughout and ConfirmedAlone are not inductive: that the kernel  *)
(* finds a process that accepts depends on which processes have a socket   *)
(* at each step of the supervisor, and a death may come at any of them.    *)
(* IInv adds that a process with a socket accepts (GroupInv), which        *)
(* processes there are at each step (StageInv) and, while nothing has      *)
(* died, who has the console (ServedInv).                                  *)
(***************************************************************************)
EXTENDS Handover, TLAPS

In(p, s) == \E i \in DOMAIN s : s[i] = p
Groups == {s \in Seq(Procs) : Len(s) <= 2 /\ (Len(s) = 2 => s[1] # s[2])}

\* Only a process that accepts has a socket, and one for each listener.
GroupInv ==
  /\ group \in [Listeners -> Groups]
  /\ \A l \in Listeners, p \in Procs : In(p, group[l]) => Accepts(p)
  /\ \A l \in opening : ~ In("old", group[l])

Before == {"A1", "A5", "A7", "B1", "B2", "B4", "B5", "B6", "B7", "B9"}
Retired == {"retire", "confirm", "done"}

\* Which processes there are at each step of the supervisor.
StageInv ==
  /\ sup \in Before => st["cand"] = "none" /\ phase = "probe"
  /\ sup = "watch" => st["cand"] \notin {"none", "reaped"}
  /\ sup = "settle" => Ended
  /\ st["old"] # "none"
  /\ phase \in {"confirm", "done"} \/ upgrade = "confirmed" => st["old"] = "reaped"

\* Who has the console while nothing has died.
ServedInv ==
  HandingOver /\ faults = 0 =>
    /\ ~ termed["cand"]
    /\ IF phase \in Retired THEN In("cand", group["console"])
                            ELSE ~ termed["old"] /\ In("old", group["console"])

\* The types of the variables other than the groups, which GroupInv has.
TypeInv ==
  /\ sup \in Before \cup {"watch", "done", "ending", "settle", "exited", "crashed", "ordinary"}
  /\ phase \in {"probe", "freeze", "promoting", "check", "recheck", "verify"} \cup Retired
  /\ verdict \in {"none", "back", "restart", "stop", "refused", "ordinary"}
  /\ stop \in {"no", "pending", "asked"} /\ lock \in {"sup", "free", "other"}
  /\ upgrade \in {"applied", "confirmed", "back", "rolled"}
  /\ named \in BOOLEAN /\ attempt \in BOOLEAN /\ frozen \in BOOLEAN /\ published \in BOOLEAN
  /\ st \in [Procs -> {"none", "starting", "up", "grace", "closed", "zombie", "reaped"}]
  /\ termed \in [Procs -> BOOLEAN] /\ usr \in 0..2
  /\ wanted \subseteq Late /\ opening \subseteq Late /\ oldSeen \subseteq Listeners
  /\ steer \subseteq Listeners /\ said \subseteq Listeners
  /\ faults \in 0..MaxFaults

IInv == TypeInv /\ GroupInv /\ StageInv /\ ServedInv

-------------------------------------------------------------------------------
(* The groups. *)

\* Sequences of at most two processes.
LEMMA GroupFacts ==
  ASSUME NEW s \in Groups
  PROVE  /\ s \in Seq(Procs) /\ Len(s) \in 0 .. 2 /\ (Len(s) = 2 => s[1] # s[2])
         /\ DOMAIN s = 1 .. Len(s) /\ s \in [1 .. Len(s) -> Procs]
<1>1. s \in Seq(Procs) /\ Len(s) <= 2 /\ (Len(s) = 2 => s[1] # s[2])
  BY DEF Groups
<1>2. Len(s) \in Nat /\ DOMAIN s = 1 .. Len(s) /\ s \in [1 .. Len(s) -> Procs]
  BY <1>1
<1>3. Len(s) \in 0 .. 2
  BY <1>1, <1>2
<1> QED
  BY <1>1, <1>2, <1>3

LEMMA Joined ==
  ASSUME NEW s \in Groups, NEW p \in Procs, ~ In(p, s)
  PROVE  Append(s, p) \in Groups /\ In(p, Append(s, p)) /\ \A q \in Procs \ {p} : In(q, Append(s, p)) <=> In(q, s)
<1> DEFINE t == Append(s, p)
<1>1. s \in Seq(Procs) /\ Len(s) \in 0 .. 2 /\ (Len(s) = 2 => s[1] # s[2])
  BY GroupFacts
<1>2. t \in Seq(Procs) /\ Len(t) = Len(s) + 1 /\ t[Len(s) + 1] = p /\ \A i \in 1 .. Len(s) : t[i] = s[i]
  BY <1>1
<1>3. DOMAIN s = 1 .. Len(s) /\ DOMAIN t = 1 .. Len(t)
  BY <1>1, <1>2
<1>4. Len(s) # 2
  <2> SUFFICES ASSUME Len(s) = 2 PROVE FALSE
    BY <1>1
  <2>1. s[1] \in Procs /\ s[2] \in Procs /\ 1 \in DOMAIN s /\ 2 \in DOMAIN s
    BY <1>1
  <2> QED
    BY <2>1, <1>1 DEF In, Procs
<1> HIDE DEF t
<1>5. t \in Groups
  BY <1>1, <1>2, <1>3, <1>4 DEF Groups, In
<1>6. In(p, t) /\ \A q \in Procs \ {p} : In(q, t) <=> In(q, s)
  BY <1>1, <1>2, <1>3, <1>4 DEF In
<1> QED
  BY <1>5, <1>6 DEF t

LEMMA Left ==
  ASSUME NEW s \in Groups, NEW p \in Procs
  PROVE  Without(s, p) \in Groups /\ ~ In(p, Without(s, p)) /\ \A q \in Procs \ {p} : In(q, Without(s, p)) <=> In(q, s)
<1> DEFINE t == Without(s, p)
<1>1. s \in Seq(Procs) /\ Len(s) \in 0 .. 2 /\ (Len(s) = 2 => s[1] # s[2]) /\ DOMAIN s = 1 .. Len(s)
  BY GroupFacts
<1>2. CASE s # <<>> /\ Head(s) = p
  <2>1. t = Tail(s) /\ t \in Seq(Procs) /\ Len(t) = Len(s) - 1 /\ Len(s) \in 1 .. 2 /\ s[1] = p
        /\ DOMAIN t = 1 .. Len(t) /\ (Len(s) = 2 => t[1] = s[2])
    BY <1>1, <1>2 DEF Without
  <2> HIDE DEF t
  <2>2. t \in Groups
    BY <2>1 DEF Groups
  <2>3. ~ In(p, t) /\ \A q \in Procs \ {p} : In(q, t) <=> In(q, s)
    BY <1>1, <2>1 DEF In
  <2> QED
    BY <2>2, <2>3 DEF t
<1>3. CASE ~ (s # <<>> /\ Head(s) = p) /\ Len(s) = 2 /\ s[2] = p
  <2>1. t = <<s[1]>> /\ t \in Seq(Procs) /\ Len(t) = 1 /\ t[1] = s[1] /\ s[1] # p /\ DOMAIN t = 1 .. 1
    BY <1>1, <1>3 DEF Without
  <2> HIDE DEF t
  <2>2. t \in Groups
    BY <2>1 DEF Groups
  <2>3. ~ In(p, t) /\ \A q \in Procs \ {p} : In(q, t) <=> In(q, s)
    BY <1>1, <1>3, <2>1 DEF In
  <2> QED
    BY <2>2, <2>3 DEF t
<1>4. CASE ~ (s # <<>> /\ Head(s) = p) /\ ~ (Len(s) = 2 /\ s[2] = p)
  <2>1. t = s
    BY <1>4 DEF Without
  <2>2. \A i \in 1 .. Len(s) : s[i] # p
    BY <1>1, <1>4
  <2> QED
    BY <1>1, <2>1, <2>2 DEF In
<1> QED
  BY <1>2, <1>3, <1>4

LEMMA GroupType ==
  ASSUME NEW s \in Groups
  PROVE  s \in UNION {[1..n -> Procs] : n \in 0..2} /\ Len(s) \in 0..2 /\ DOMAIN s = 1 .. Len(s)
BY GroupFacts

LEMMA Alone == /\ <<>> \in Groups /\ \A p \in Procs : ~ In(p, <<>>)
               /\ <<"old">> \in Groups /\ \A p \in Procs : In(p, <<"old">>) <=> p = "old"
BY DEF Groups, In, Procs

LEMMA InitIInv == Init => IInv
<1> SUFFICES ASSUME Init PROVE IInv
  OBVIOUS
<1>1. "console" \notin Late /\ MaxFaults \in Nat
  BY HandoverConstants
<1>2. TypeInv
  <2>1. st \in [Procs -> {"none", "starting", "up", "grace", "closed", "zombie", "reaped"}]
    BY DEF Init, Procs
  <2>2. termed \in [Procs -> BOOLEAN] /\ faults \in 0 .. MaxFaults
    BY <1>1 DEF Init
  <2>3. /\ sup = "A1" /\ phase = "probe" /\ verdict = "none" /\ oldSeen = {} /\ stop = "no" /\ lock = "sup"
        /\ named = FALSE /\ attempt = FALSE /\ frozen = FALSE /\ published = FALSE /\ upgrade = "applied" /\ usr = 0
        /\ wanted \subseteq Late /\ opening = {} /\ steer = {} /\ said = {}
    BY DEF Init
  <2>4. named \in BOOLEAN /\ attempt \in BOOLEAN /\ frozen \in BOOLEAN /\ published \in BOOLEAN
    BY <2>3
  <2>7. usr \in 0 .. 2
    BY <2>3
  <2>5. opening \subseteq Late /\ oldSeen \subseteq Listeners /\ steer \subseteq Listeners /\ said \subseteq Listeners
    BY <2>3
  <2>6. /\ sup \in Before \cup {"watch", "done", "ending", "settle", "exited", "crashed", "ordinary"}
        /\ phase \in {"probe", "freeze", "promoting", "check", "recheck", "verify"} \cup Retired
    BY <2>3 DEF Before
  <2> QED
    BY <2>1, <2>2, <2>3, <2>4, <2>5, <2>6, <2>7 DEF TypeInv
<1>3. \A l \in Listeners : group[l] \in {<<>>, <<"old">>} /\ (l = "console" => group[l] = <<"old">>)
  BY DEF Init
<1>4. GroupInv
  BY <1>3, Alone DEF Init, GroupInv, Procs, Accepts
<1>5. StageInv
  BY DEF Init, StageInv
<1>6. ServedInv
  BY <1>1, <1>3, Alone DEF Init, ServedInv, Procs, Retired, Listeners
<1> QED
  BY <1>2, <1>4, <1>5, <1>6 DEF IInv


USE HandoverConstants DEF Procs, Listeners, supv, files, procv, oldv, net, Live, Accepts

-------------------------------------------------------------------------------
(* Every way out goes through End, which leaves processes and sockets as they are. *)

Verdicts == {"back", "restart", "stop", "refused", "ordinary"}

LEMMA EndKeeps == ASSUME IInv, NEW why \in Verdicts, End(why) PROVE IInv'
<1>1. TypeInv'
  BY DEF IInv, TypeInv, End, Signalled, Verdicts, Before
<1>2. GroupInv'
  BY DEF IInv, GroupInv, End
<1>3. StageInv' /\ ServedInv'
  BY DEF IInv, StageInv, ServedInv, End, HandingOver, Before
<1> QED
  BY <1>1, <1>2, <1>3 DEF IInv


\* What the kernel picks is in the group, and it picks something when there is anything to pick.
LEMMA TargetIn ==
  ASSUME IInv, NEW l \in Listeners
  PROVE  /\ \A p \in Target(l) : In(p, group[l]) /\ p \in Procs
         /\ (\E p \in Procs : In(p, group[l])) => Target(l) # {}
<1>1. /\ group[l] \in Seq(Procs) /\ Len(group[l]) \in 0 .. 2 /\ DOMAIN group[l] = 1 .. Len(group[l])
      /\ group[l] \in [1 .. Len(group[l]) -> Procs]
  BY GroupFacts DEF IInv, GroupInv
<1>2. CASE l \in steer /\ Len(group[l]) > 1
  <2>1. Target(l) = {group[l][2]} /\ 2 \in DOMAIN group[l]
    BY <1>1, <1>2 DEF Target
  <2> QED
    BY <1>1, <2>1 DEF In
<1>3. CASE ~ (l \in steer /\ Len(group[l]) > 1)
  <2>1. Target(l) = {group[l][i] : i \in DOMAIN group[l]}
    BY <1>3 DEF Target
  <2> QED
    BY <1>1, <2>1 DEF In
<1> QED
  BY <1>2, <1>3

LEMMA EndReapsKeeps == ASSUME IInv, EndReaps PROVE IInv'
<1>1. TypeInv'
  <2>1. st' \in [Procs -> {"none", "starting", "up", "grace", "closed", "zombie", "reaped"}]
    BY DEF IInv, EndReaps, TypeInv
  <2>2. named' \in BOOLEAN /\ sup' = "settle"
    BY DEF EndReaps
  <2> QED
    BY <2>1, <2>2 DEF IInv, EndReaps, TypeInv
<1>2. GroupInv'
  BY DEF IInv, EndReaps, TypeInv, GroupInv
<1>3. StageInv'
  BY DEF IInv, EndReaps, TypeInv, StageInv, Before, Ended
<1>4. ServedInv'
  BY DEF IInv, EndReaps, TypeInv, ServedInv, HandingOver, Retired, StageInv
<1> QED
  BY <1>1, <1>2, <1>3, <1>4 DEF IInv

LEMMA SettleKeeps == ASSUME IInv, Settle PROVE IInv'
<1>1. TypeInv'
  BY DEF IInv, Settle, TypeInv, Before, Retired
<1>2. GroupInv'
  BY DEF IInv, Settle, TypeInv, GroupInv
<1>3. StageInv'
  BY DEF IInv, Settle, TypeInv, StageInv, Before, Ended
<1>4. ServedInv'
  BY DEF IInv, Settle, TypeInv, ServedInv, HandingOver, Retired, StageInv
<1> QED
  BY <1>1, <1>2, <1>3, <1>4 DEF IInv

LEMMA LeaveRuntimeKeeps == ASSUME IInv, LeaveRuntime PROVE IInv'
<1>1. CASE \E why \in Verdicts : End(why)
  BY <1>1, EndKeeps
<1>2. CASE ~ \E why \in Verdicts : End(why)
  <2>1. sup = "A1" /\ sup' = "A5" /\ lock' = "free" /\ UNCHANGED <<phase, verdict, oldSeen, stop, named, upgrade, attempt, procv, oldv, net, faults>>
    BY <1>2 DEF LeaveRuntime, Verdicts
  <2>2. TypeInv'
    BY <2>1 DEF IInv, TypeInv, Before, Retired
  <2>3. GroupInv'
    BY <2>1 DEF IInv, TypeInv, GroupInv
  <2>4. StageInv'
    BY <2>1 DEF IInv, TypeInv, StageInv, Before
  <2>5. ServedInv'
    BY <2>1 DEF IInv, TypeInv, ServedInv, HandingOver, Retired
  <2> QED
    BY <2>2, <2>3, <2>4, <2>5 DEF IInv
<1> QED
  BY <1>1, <1>2

LEMMA MaskKeeps == ASSUME IInv, Mask PROVE IInv'
<1>1. CASE \E why \in Verdicts : End(why)
  BY <1>1, EndKeeps
<1>2. CASE ~ \E why \in Verdicts : End(why)
  <2>1. sup = "A5" /\ sup' = "A7" /\ UNCHANGED <<phase, verdict, oldSeen, stop, files, procv, oldv, net, faults>>
    BY <1>2 DEF Mask, Verdicts
  <2>2. TypeInv'
    BY <2>1 DEF IInv, TypeInv, Before, Retired
  <2>3. GroupInv'
    BY <2>1 DEF IInv, TypeInv, GroupInv
  <2>4. StageInv'
    BY <2>1 DEF IInv, TypeInv, StageInv, Before
  <2>5. ServedInv'
    BY <2>1 DEF IInv, TypeInv, ServedInv, HandingOver, Retired
  <2> QED
    BY <2>2, <2>3, <2>4, <2>5 DEF IInv
<1> QED
  BY <1>1, <1>2

LEMMA WriteRecordKeeps == ASSUME IInv, WriteRecord PROVE IInv'
<1>1. CASE \E why \in Verdicts : End(why)
  BY <1>1, EndKeeps
<1>2. CASE ~ \E why \in Verdicts : End(why)
  <2>1. sup = "A7" /\ named' = TRUE /\ UNCHANGED <<supv, stop, lock, upgrade, attempt, procv, oldv, net, faults>>
    BY <1>2 DEF WriteRecord, Verdicts
  <2>2. TypeInv'
    BY <2>1 DEF IInv, TypeInv, Before, Retired
  <2>3. GroupInv'
    BY <2>1 DEF IInv, TypeInv, GroupInv
  <2>4. StageInv'
    BY <2>1 DEF IInv, TypeInv, StageInv, Before
  <2>5. ServedInv'
    BY <2>1 DEF IInv, TypeInv, ServedInv, HandingOver, Retired
  <2> QED
    BY <2>2, <2>3, <2>4, <2>5 DEF IInv
<1> QED
  BY <1>1, <1>2

LEMMA ExecKeeps == ASSUME IInv, Exec PROVE IInv'
<1>1. CASE \E why \in Verdicts : End(why)
  BY <1>1, EndKeeps
<1>2. CASE ~ \E why \in Verdicts : End(why)
  <2>1. sup = "A7" /\ sup' = "B1" /\ UNCHANGED <<phase, verdict, oldSeen, stop, files, procv, oldv, net, faults>>
    BY <1>2 DEF Exec, Verdicts
  <2>2. TypeInv'
    BY <2>1 DEF IInv, TypeInv, Before, Retired
  <2>3. GroupInv'
    BY <2>1 DEF IInv, TypeInv, GroupInv
  <2>4. StageInv'
    BY <2>1 DEF IInv, TypeInv, StageInv, Before
  <2>5. ServedInv'
    BY <2>1 DEF IInv, TypeInv, ServedInv, HandingOver, Retired
  <2> QED
    BY <2>2, <2>3, <2>4, <2>5 DEF IInv
<1> QED
  BY <1>1, <1>2

LEMMA EnterKeeps == ASSUME IInv, Enter PROVE IInv'
<1>1. TypeInv'
  BY DEF IInv, Enter, TypeInv, Before, Retired
<1>2. GroupInv'
  BY DEF IInv, Enter, TypeInv, GroupInv
<1>3. StageInv'
  BY DEF IInv, Enter, TypeInv, StageInv, Before, Ended
<1>4. ServedInv'
  BY DEF IInv, Enter, TypeInv, ServedInv, HandingOver, Retired, StageInv
<1> QED
  BY <1>1, <1>2, <1>3, <1>4 DEF IInv

LEMMA AdoptKeeps == ASSUME IInv, Adopt PROVE IInv'
<1>1. CASE \E why \in Verdicts : End(why)
  BY <1>1, EndKeeps
<1>2. CASE ~ \E why \in Verdicts : End(why)
  <2>1. Goes("B2", "B4") /\ UNCHANGED files
    BY <1>2 DEF Adopt, Goes, Verdicts
  <2>2. TypeInv'
    BY <2>1 DEF IInv, Goes, TypeInv, Before, Retired
  <2>3. GroupInv'
    BY <2>1 DEF IInv, Goes, TypeInv, GroupInv
  <2>4. StageInv'
    BY <2>1 DEF IInv, Goes, TypeInv, StageInv, Before
  <2>5. ServedInv'
    BY <2>1 DEF IInv, Goes, TypeInv, ServedInv, HandingOver, Retired
  <2> QED
    BY <2>2, <2>3, <2>4, <2>5 DEF IInv
<1> QED
  BY <1>1, <1>2

LEMMA HostAdmissionKeeps == ASSUME IInv, HostAdmission PROVE IInv'
<1>1. CASE \E why \in Verdicts : End(why)
  BY <1>1, EndKeeps
<1>2. CASE ~ \E why \in Verdicts : End(why)
  <2>1. Goes("B4", "B5") /\ UNCHANGED files
    BY <1>2 DEF HostAdmission, Goes, Verdicts
  <2>2. TypeInv'
    BY <2>1 DEF IInv, Goes, TypeInv, Before, Retired
  <2>3. GroupInv'
    BY <2>1 DEF IInv, Goes, TypeInv, GroupInv
  <2>4. StageInv'
    BY <2>1 DEF IInv, Goes, TypeInv, StageInv, Before
  <2>5. ServedInv'
    BY <2>1 DEF IInv, Goes, TypeInv, ServedInv, HandingOver, Retired
  <2> QED
    BY <2>2, <2>3, <2>4, <2>5 DEF IInv
<1> QED
  BY <1>1, <1>2

LEMMA GuardKeeps == ASSUME IInv, Guard PROVE IInv'
<1>1. CASE \E why \in Verdicts : End(why)
  BY <1>1, EndKeeps
<1>2. CASE ~ \E why \in Verdicts : End(why)
  <2>1. Goes("B5", "B6") /\ attempt' = (upgrade = "applied") /\ UNCHANGED <<lock, named, upgrade>>
    BY <1>2 DEF Guard, Goes, Verdicts
  <2>2. TypeInv'
    BY <2>1 DEF IInv, Goes, TypeInv, Before, Retired
  <2>3. GroupInv'
    BY <2>1 DEF IInv, Goes, TypeInv, GroupInv
  <2>4. StageInv'
    BY <2>1 DEF IInv, Goes, TypeInv, StageInv, Before
  <2>5. ServedInv'
    BY <2>1 DEF IInv, Goes, TypeInv, ServedInv, HandingOver, Retired
  <2> QED
    BY <2>2, <2>3, <2>4, <2>5 DEF IInv
<1> QED
  BY <1>1, <1>2

LEMMA TakeLocksKeeps == ASSUME IInv, TakeLocks PROVE IInv'
<1>1. CASE \E why \in Verdicts : End(why)
  BY <1>1, EndKeeps
<1>2. CASE ~ \E why \in Verdicts : End(why)
  <2>1. Goes("B6", "B7") /\ lock' = "sup" /\ UNCHANGED <<named, upgrade, attempt>>
    BY <1>2 DEF TakeLocks, Goes, Verdicts
  <2>2. TypeInv'
    BY <2>1 DEF IInv, Goes, TypeInv, Before, Retired
  <2>3. GroupInv'
    BY <2>1 DEF IInv, Goes, TypeInv, GroupInv
  <2>4. StageInv'
    BY <2>1 DEF IInv, Goes, TypeInv, StageInv, Before
  <2>5. ServedInv'
    BY <2>1 DEF IInv, Goes, TypeInv, ServedInv, HandingOver, Retired
  <2> QED
    BY <2>2, <2>3, <2>4, <2>5 DEF IInv
<1> QED
  BY <1>1, <1>2

LEMMA PrepareKeeps == ASSUME IInv, Prepare PROVE IInv'
<1>1. CASE \E why \in Verdicts : End(why)
  BY <1>1, EndKeeps
<1>2. CASE ~ \E why \in Verdicts : End(why)
  <2>1. Goes("B7", "B9") /\ UNCHANGED files
    BY <1>2 DEF Prepare, Goes, Verdicts
  <2>2. TypeInv'
    BY <2>1 DEF IInv, Goes, TypeInv, Before, Retired
  <2>3. GroupInv'
    BY <2>1 DEF IInv, Goes, TypeInv, GroupInv
  <2>4. StageInv'
    BY <2>1 DEF IInv, Goes, TypeInv, StageInv, Before
  <2>5. ServedInv'
    BY <2>1 DEF IInv, Goes, TypeInv, ServedInv, HandingOver, Retired
  <2> QED
    BY <2>2, <2>3, <2>4, <2>5 DEF IInv
<1> QED
  BY <1>1, <1>2

LEMMA StartRuntimeKeeps == ASSUME IInv, StartRuntime PROVE IInv'
<1>1. CASE \E why \in Verdicts : End(why)
  BY <1>1, EndKeeps
<1>2. CASE ~ \E why \in Verdicts : End(why)
  <2>1. /\ sup = "B9" /\ sup' = "watch" /\ wanted' \in SUBSET Late /\ st' = [st EXCEPT !.cand = "starting"]
        /\ UNCHANGED <<phase, verdict, oldSeen, stop, files, termed, usr, frozen, opening, net, faults>>
    BY <1>2 DEF StartRuntime, Verdicts
  <2>2. TypeInv'
    BY <2>1 DEF IInv, TypeInv, Before, Retired
  <2>3. GroupInv'
    BY <2>1 DEF IInv, TypeInv, GroupInv, StageInv, Before
  <2>4. StageInv'
    BY <2>1 DEF IInv, TypeInv, StageInv, Before
  <2>5. ServedInv'
    BY <2>1 DEF IInv, TypeInv, ServedInv, HandingOver, Retired
  <2> QED
    BY <2>2, <2>3, <2>4, <2>5 DEF IInv
<1> QED
  BY <1>1, <1>2

LEMMA CheckReapsOldKeeps == ASSUME IInv, CheckReapsOld PROVE IInv'
<1>1. TypeInv'
  BY DEF IInv, CheckReapsOld, TypeInv, Before, Retired
<1>2. GroupInv'
  BY DEF IInv, CheckReapsOld, TypeInv, GroupInv
<1>3. StageInv'
  BY DEF IInv, CheckReapsOld, TypeInv, StageInv, Before, Ended
<1>4. ServedInv'
  BY DEF IInv, CheckReapsOld, TypeInv, ServedInv, HandingOver, Retired, StageInv
<1> QED
  BY <1>1, <1>2, <1>3, <1>4 DEF IInv

LEMMA StepProbeKeeps == ASSUME IInv, StepProbe PROVE IInv'
<1>1. CASE \E why \in Verdicts : End(why)
  BY <1>1, EndKeeps
<1>2. CASE ~ \E why \in Verdicts : End(why)
  <2>1. /\ sup = "watch" /\ phase = "probe" /\ phase' \in {"freeze", "promoting"}
        /\ oldSeen' \subseteq Listeners /\ usr' \in {usr, 1}
        /\ UNCHANGED <<sup, verdict, stop, files, st, termed, oldv, net, faults>>
    BY <1>2 DEF StepProbe, Turn, Freeze, Next_, Verdicts, Held, IInv, TypeInv
  <2>2. TypeInv'
    BY <2>1 DEF IInv, TypeInv, Before, Retired
  <2>3. GroupInv'
    BY <2>1 DEF IInv, TypeInv, GroupInv
  <2>4. StageInv'
    BY <2>1 DEF IInv, TypeInv, StageInv, Before
  <2>5. ServedInv'
    BY <2>1 DEF IInv, TypeInv, ServedInv, HandingOver, Retired
  <2> QED
    BY <2>2, <2>3, <2>4, <2>5 DEF IInv
<1> QED
  BY <1>1, <1>2

LEMMA StepFreezeKeeps == ASSUME IInv, StepFreeze PROVE IInv'
<1>1. CASE \E why \in Verdicts : End(why)
  BY <1>1, EndKeeps
<1>2. CASE ~ \E why \in Verdicts : End(why)
  <2>1. /\ sup = "watch" /\ phase = "freeze" /\ phase' = "promoting"
        /\ oldSeen' \subseteq Listeners /\ usr' = 1
        /\ UNCHANGED <<sup, verdict, stop, files, st, termed, oldv, net, faults>>
    BY <1>2 DEF StepFreeze, Turn, Freeze, Verdicts, Held
  <2>2. TypeInv'
    BY <2>1 DEF IInv, TypeInv, Before, Retired
  <2>3. GroupInv'
    BY <2>1 DEF IInv, TypeInv, GroupInv
  <2>4. StageInv'
    BY <2>1 DEF IInv, TypeInv, StageInv, Before
  <2>5. ServedInv'
    BY <2>1 DEF IInv, TypeInv, ServedInv, HandingOver, Retired
  <2> QED
    BY <2>2, <2>3, <2>4, <2>5 DEF IInv
<1> QED
  BY <1>1, <1>2

LEMMA StepPromotingKeeps == ASSUME IInv, StepPromoting PROVE IInv'
<1>1. CASE \E why \in Verdicts : End(why)
  BY <1>1, EndKeeps
<1>2. CASE ~ \E why \in Verdicts : End(why)
  <2>1. TypeInv'
    BY <1>2 DEF IInv, StepPromoting, Turn, Next_, Verdicts, TypeInv, Before, Retired
  <2>2. GroupInv'
    BY <1>2 DEF IInv, StepPromoting, Turn, Next_, Verdicts, TypeInv, GroupInv
  <2>3. StageInv'
    BY <1>2 DEF IInv, StepPromoting, Turn, Next_, Verdicts, TypeInv, StageInv, Before
  <2>4. ServedInv'
    BY <1>2 DEF IInv, StepPromoting, Turn, Next_, Verdicts, TypeInv, ServedInv, HandingOver, Retired
  <2> QED
    BY <2>1, <2>2, <2>3, <2>4 DEF IInv
<1> QED
  BY <1>1, <1>2

LEMMA StepCheckKeeps == ASSUME IInv, StepCheck PROVE IInv'
<1>1. CASE \E why \in Verdicts : End(why)
  BY <1>1, EndKeeps
<1>2. CASE ~ \E why \in Verdicts : End(why)
  <2>1. TypeInv'
    BY ZenonT(60), <1>2 DEF IInv, StepCheck, Turn, Next_, Verdicts, TypeInv, Before, Retired
  <2>2. GroupInv'
    BY <1>2 DEF IInv, StepCheck, Turn, Next_, Verdicts, TypeInv, GroupInv
  <2>3. StageInv'
    BY <1>2 DEF IInv, StepCheck, Turn, Next_, Verdicts, TypeInv, StageInv, Before
  <2>4. ServedInv'
    BY <1>2 DEF IInv, StepCheck, Turn, Next_, Verdicts, TypeInv, ServedInv, HandingOver, Retired
  <2> QED
    BY <2>1, <2>2, <2>3, <2>4 DEF IInv
<1> QED
  BY <1>1, <1>2

LEMMA StepRecheckKeeps == ASSUME IInv, StepRecheck PROVE IInv'
<1>1. CASE \E why \in Verdicts : End(why)
  BY <1>1, EndKeeps
<1>2. CASE ~ \E why \in Verdicts : End(why)
  <2>1. TypeInv'
    BY ZenonT(60), <1>2 DEF IInv, StepRecheck, Turn, Next_, Verdicts, TypeInv, Before, Retired
  <2>2. GroupInv'
    BY <1>2 DEF IInv, StepRecheck, Turn, Next_, Verdicts, TypeInv, GroupInv
  <2>3. StageInv'
    BY <1>2 DEF IInv, StepRecheck, Turn, Next_, Verdicts, TypeInv, StageInv, Before
  <2>4. ServedInv'
    BY <1>2 DEF IInv, StepRecheck, Turn, Next_, Verdicts, TypeInv, ServedInv, HandingOver, Retired
  <2> QED
    BY <2>1, <2>2, <2>3, <2>4 DEF IInv
<1> QED
  BY <1>1, <1>2

LEMMA StepVerifyKeeps == ASSUME IInv, StepVerify PROVE IInv'
<1>1. CASE \E why \in Verdicts : End(why)
  BY <1>1, EndKeeps
<1>2. CASE ~ \E why \in Verdicts : End(why)
  <2>1. TypeInv'
    BY ZenonT(60), <1>2 DEF IInv, StepVerify, Turn, Signalled, Verdicts, TypeInv, Before, Retired
  <2>2. GroupInv'
    BY <1>2 DEF IInv, StepVerify, Turn, Signalled, Verdicts, TypeInv, GroupInv
  <2>3. StageInv'
    BY <1>2 DEF IInv, StepVerify, Turn, Signalled, Verdicts, TypeInv, StageInv, Before
  <2>4. ServedInv'
    <3>1. /\ sup = "watch" /\ phase' = "retire" /\ In("cand", group["console"])
          /\ termed'["cand"] = termed["cand"] /\ UNCHANGED <<sup, group, faults>>
      BY <1>2, TargetIn DEF IInv, TypeInv, StepVerify, Turn, Signalled, Verdicts
    <3> QED
      BY <1>2, <3>1 DEF IInv, StepVerify, Turn, Verdicts, ServedInv, HandingOver, Retired
  <2> QED
    BY <2>1, <2>2, <2>3, <2>4 DEF IInv
<1> QED
  BY <1>1, <1>2

LEMMA StepConfirmKeeps == ASSUME IInv, StepConfirm PROVE IInv'
<1>1. TypeInv'
  BY DEF IInv, StepConfirm, Turn, TypeInv, Before, Retired
<1>2. GroupInv'
  BY DEF IInv, StepConfirm, Turn, TypeInv, GroupInv
<1>3. StageInv'
  BY DEF IInv, StepConfirm, Turn, TypeInv, StageInv, Before, Ended
<1>4. ServedInv'
  BY DEF IInv, StepConfirm, Turn, TypeInv, ServedInv, HandingOver, Retired, StageInv
<1> QED
  BY <1>1, <1>2, <1>3, <1>4 DEF IInv

LEMMA CandidateReadyKeeps == ASSUME IInv, CandidateReady PROVE IInv'
<1>1. TypeInv'
  BY DEF IInv, CandidateReady, TypeInv, Before, Retired
<1>2. GroupInv'
  BY DEF IInv, CandidateReady, TypeInv, GroupInv
<1>3. StageInv'
  BY DEF IInv, CandidateReady, TypeInv, StageInv, Before, Ended
<1>4. ServedInv'
  BY DEF IInv, CandidateReady, TypeInv, ServedInv, HandingOver, Retired, StageInv
<1> QED
  BY <1>1, <1>2, <1>3, <1>4 DEF IInv

LEMMA PromotePublishesKeeps == ASSUME IInv, PromotePublishes PROVE IInv'
<1>1. TypeInv'
  BY DEF IInv, PromotePublishes, Promoting, TypeInv, Before, Retired
<1>2. GroupInv'
  BY DEF IInv, PromotePublishes, Promoting, TypeInv, GroupInv
<1>3. StageInv'
  BY DEF IInv, PromotePublishes, Promoting, TypeInv, StageInv, Before, Ended
<1>4. ServedInv'
  BY DEF IInv, PromotePublishes, Promoting, TypeInv, ServedInv, HandingOver, Retired, StageInv
<1> QED
  BY <1>1, <1>2, <1>3, <1>4 DEF IInv

LEMMA ReleaseKeeps == ASSUME IInv, Release PROVE IInv'
<1>1. TypeInv'
  BY DEF IInv, Release, TypeInv, Before, Retired
<1>2. GroupInv'
  BY DEF IInv, Release, TypeInv, GroupInv
<1>3. StageInv'
  BY DEF IInv, Release, TypeInv, StageInv, Before, Ended
<1>4. ServedInv'
  BY DEF IInv, Release, TypeInv, ServedInv, HandingOver, Retired, StageInv
<1> QED
  BY <1>1, <1>2, <1>3, <1>4 DEF IInv

LEMMA PromoteSteersKeeps == ASSUME IInv, NEW l \in Listeners, PromoteSteers(l) PROVE IInv'
<1>1. TypeInv'
  BY DEF IInv, PromoteSteers, Promoting, TypeInv, Before, Retired
<1>2. GroupInv'
  BY DEF IInv, PromoteSteers, Promoting, TypeInv, GroupInv
<1>3. StageInv'
  BY DEF IInv, PromoteSteers, Promoting, TypeInv, StageInv, Before, Ended
<1>4. ServedInv'
  BY DEF IInv, PromoteSteers, Promoting, TypeInv, ServedInv, HandingOver, Retired, StageInv
<1> QED
  BY <1>1, <1>2, <1>3, <1>4 DEF IInv

LEMMA SupervisorDiesKeeps == ASSUME IInv, SupervisorDies PROVE IInv'
<1>1. TypeInv'
  BY DEF IInv, SupervisorDies, Signalled, Over, TypeInv, Before, Retired
<1>2. GroupInv'
  BY DEF IInv, SupervisorDies, Signalled, Over, TypeInv, GroupInv
<1>3. StageInv'
  BY DEF IInv, SupervisorDies, Signalled, Over, TypeInv, StageInv, Before, Ended
<1>4. ServedInv'
  BY DEF IInv, SupervisorDies, Signalled, Over, TypeInv, ServedInv, HandingOver, Retired, StageInv
<1> QED
  BY <1>1, <1>2, <1>3, <1>4 DEF IInv

LEMMA ServiceStopsKeeps == ASSUME IInv, ServiceStops PROVE IInv'
<1>1. TypeInv'
  BY DEF IInv, ServiceStops, Over, TypeInv, Before, Retired
<1>2. GroupInv'
  BY DEF IInv, ServiceStops, Over, TypeInv, GroupInv
<1>3. StageInv'
  BY DEF IInv, ServiceStops, Over, TypeInv, StageInv, Before, Ended
<1>4. ServedInv'
  BY DEF IInv, ServiceStops, Over, TypeInv, ServedInv, HandingOver, Retired, StageInv
<1> QED
  BY <1>1, <1>2, <1>3, <1>4 DEF IInv

LEMMA ServiceRestartsKeeps == ASSUME IInv, ServiceRestarts PROVE IInv'
<1>1. TypeInv'
  BY ZenonT(60) DEF IInv, ServiceRestarts, TypeInv, Before, Retired
<1>2. GroupInv'
  BY DEF IInv, ServiceRestarts, TypeInv, GroupInv
<1>3. StageInv'
  BY DEF IInv, ServiceRestarts, TypeInv, StageInv, Before, Ended
<1>4. ServedInv'
  BY DEF IInv, ServiceRestarts, TypeInv, ServedInv, HandingOver, Retired, StageInv
<1> QED
  BY <1>1, <1>2, <1>3, <1>4 DEF IInv

LEMMA TerminalStartsKeeps == ASSUME IInv, TerminalStarts PROVE IInv'
<1>1. TypeInv'
  BY DEF IInv, TerminalStarts, Unlocked, TypeInv, Before, Retired
<1>2. GroupInv'
  BY DEF IInv, TerminalStarts, Unlocked, TypeInv, GroupInv
<1>3. StageInv'
  BY DEF IInv, TerminalStarts, Unlocked, TypeInv, StageInv, Before, Ended
<1>4. ServedInv'
  BY DEF IInv, TerminalStarts, Unlocked, TypeInv, ServedInv, HandingOver, Retired, StageInv
<1> QED
  BY <1>1, <1>2, <1>3, <1>4 DEF IInv

LEMMA RollbackCommandKeeps == ASSUME IInv, RollbackCommand PROVE IInv'
<1>1. TypeInv'
  BY DEF IInv, RollbackCommand, Unlocked, TypeInv, Before, Retired
<1>2. GroupInv'
  BY DEF IInv, RollbackCommand, Unlocked, TypeInv, GroupInv
<1>3. StageInv'
  BY DEF IInv, RollbackCommand, Unlocked, TypeInv, StageInv, Before, Ended
<1>4. ServedInv'
  BY DEF IInv, RollbackCommand, Unlocked, TypeInv, ServedInv, HandingOver, Retired, StageInv
<1> QED
  BY <1>1, <1>2, <1>3, <1>4 DEF IInv

LEMMA TerminatedKeeps == ASSUME IInv, Terminated PROVE IInv'
<1>1. TypeInv'
  BY DEF IInv, Terminated, vars, TypeInv, Before, Retired
<1>2. GroupInv'
  BY DEF IInv, Terminated, vars, TypeInv, GroupInv
<1>3. StageInv'
  BY DEF IInv, Terminated, vars, TypeInv, StageInv, Before, Ended
<1>4. ServedInv'
  BY DEF IInv, Terminated, vars, TypeInv, ServedInv, HandingOver, Retired, StageInv
<1> QED
  BY <1>1, <1>2, <1>3, <1>4 DEF IInv

LEMMA StopSeenKeeps == ASSUME IInv, StopSeen \/ CandidateExited \/ LimitPassed PROVE IInv'
BY EndKeeps DEF StopSeen, CandidateExited, LimitPassed, Verdicts

-------------------------------------------------------------------------------
(* The steps that change a group. *)

\* A process that leaves every group, because its state no longer lets it accept.
LEMMA LeavesGroup ==
  ASSUME IInv, NEW p \in Procs, Leaves(p), UNCHANGED opening, NEW to, st' = [st EXCEPT ![p] = to]
  PROVE  /\ GroupInv' /\ steer' \subseteq Listeners
         /\ \A q \in Procs \ {p} : In(q, group'["console"]) <=> In(q, group["console"])
<1>1. ASSUME NEW l \in Listeners
      PROVE  /\ group'[l] \in Groups /\ ~ In(p, group'[l])
             /\ \A q \in Procs \ {p} : In(q, group'[l]) <=> In(q, group[l])
  <2>1. group'[l] = Without(group[l], p) /\ group[l] \in Groups
    BY DEF Leaves, IInv, GroupInv
  <2>2. /\ Without(group[l], p) \in Groups /\ ~ In(p, Without(group[l], p))
        /\ \A q \in Procs \ {p} : In(q, Without(group[l], p)) <=> In(q, group[l])
    BY <2>1, Left
  <2> QED
    BY <2>1, <2>2
<1>2. \A l \in Listeners : /\ group'[l] \in Groups /\ ~ In(p, group'[l])
                           /\ \A q \in Procs \ {p} : In(q, group'[l]) <=> In(q, group[l])
  BY <1>1
<1>3. group' \in [Listeners -> Groups]
  BY <1>2 DEF Leaves
<1>4. \A l \in Listeners, q \in Procs : In(q, group'[l]) => q # p /\ Accepts(q)'
  BY <1>2 DEF IInv, TypeInv, GroupInv
<1>5. \A l \in opening : ~ In("old", group'[l])
  BY <1>2 DEF IInv, TypeInv, GroupInv
<1>6. steer' \subseteq Listeners
  BY DEF Leaves, IInv, TypeInv
<1> QED
  BY <1>2, <1>3, <1>4, <1>5, <1>6 DEF GroupInv

LEMMA EndKillsKeeps == ASSUME IInv, NEW p \in Procs, EndKills(p) PROVE IInv'
<1>1. GroupInv' /\ steer' \subseteq Listeners
  BY LeavesGroup DEF EndKills
<1>2. TypeInv'
  BY <1>1 DEF IInv, TypeInv, EndKills, Leaves
<1>3. StageInv' /\ ServedInv'
  BY DEF IInv, TypeInv, StageInv, ServedInv, EndKills, HandingOver, Before
<1> QED
  BY <1>1, <1>2, <1>3 DEF IInv

LEMMA DiesKeeps == ASSUME IInv, NEW p \in Procs, Dies(p) PROVE IInv'
<1>1. GroupInv' /\ steer' \subseteq Listeners
  BY LeavesGroup DEF Dies
<1>2. TypeInv'
  BY <1>1 DEF IInv, TypeInv, Dies, Leaves
<1>3. StageInv' /\ ServedInv'
  BY DEF IInv, TypeInv, StageInv, ServedInv, Dies, HandingOver, Before, Ended
<1> QED
  BY <1>1, <1>2, <1>3 DEF IInv

LEMMA StepRetireKeeps == ASSUME IInv, StepRetire PROVE IInv'
<1>1. /\ GroupInv' /\ steer' \subseteq Listeners
      /\ In("cand", group'["console"]) <=> In("cand", group["console"])
  BY LeavesGroup DEF StepRetire
<1>2. TypeInv'
  <2>1. st' \in [Procs -> {"none", "starting", "up", "grace", "closed", "zombie", "reaped"}]
    BY DEF IInv, StepRetire, TypeInv
  <2>2. named' = FALSE /\ phase' = "confirm" /\ usr' = 2
    BY DEF StepRetire
  <2>4. named' \in BOOLEAN
    BY <2>2
  <2>5. phase' \in Retired /\ usr' \in 0..2
    BY <2>2 DEF Retired
  <2>3. UNCHANGED <<sup, verdict, stop, lock, upgrade, attempt, frozen, published, termed, wanted, opening, oldSeen, said, faults>>
    BY DEF StepRetire, Leaves, oldv
  <2> QED
    BY <1>1, <2>1, <2>3, <2>4, <2>5 DEF IInv, TypeInv
<1>3. StageInv' /\ ServedInv'
  BY <1>1 DEF IInv, TypeInv, StageInv, ServedInv, StepRetire, Turn, HandingOver, Before, Retired
<1> QED
  BY <1>1, <1>2, <1>3 DEF IInv

LEMMA DrainKeeps == ASSUME IInv, NEW p \in Procs, Drain(p) PROVE IInv'
<1>1. TypeInv /\ GroupInv /\ StageInv /\ ServedInv
  BY DEF IInv
<1>2. /\ termed[p] /\ UNCHANGED <<supv, stop, files, termed, usr, oldv, faults, said, published>>
      /\ st' = [st EXCEPT ![p] = IF st[p] = "up" THEN "grace" ELSE IF st[p] = "grace" THEN "closed" ELSE "zombie"]
      /\ st[p] \in {"up", "grace", "closed"}
      /\ st[p] # "grace" => UNCHANGED net
      /\ st[p] = "grace" => Leaves(p)
  BY <1>1 DEF Drain, Leaves
<1>3. /\ GroupInv' /\ steer' \subseteq Listeners
      /\ \A q \in Procs \ {p} : In(q, group'["console"]) <=> In(q, group["console"])
  <2>1. CASE st[p] = "grace"
    BY <1>2, <2>1, LeavesGroup
  <2>2. CASE st[p] # "grace"
    BY <1>1, <1>2, <2>2 DEF TypeInv, GroupInv
  <2> QED
    BY <2>1, <2>2
<1>4. TypeInv'
  BY <1>1, <1>2, <1>3 DEF TypeInv
<1>5. StageInv'
  BY <1>1, <1>2 DEF TypeInv, StageInv, Ended
<1>6. ServedInv'
  BY <1>1, <1>2, <1>3 DEF TypeInv, ServedInv, HandingOver
<1> QED
  BY <1>3, <1>4, <1>5, <1>6 DEF IInv

LEMMA OldTickKeeps == ASSUME IInv, OldTick PROVE IInv'
<1>1. TypeInv /\ GroupInv /\ StageInv /\ ServedInv
  BY DEF IInv
<1>2. UNCHANGED <<supv, stop, files, procv, wanted, said, published, faults>>
  BY DEF OldTick
<1>3. CASE frozen' \in BOOLEAN /\ UNCHANGED <<opening, group, steer>>
  <2>1. TypeInv'
    BY <1>1, <1>2, <1>3 DEF TypeInv
  <2> QED
    BY <1>1, <1>2, <1>3, <2>1 DEF IInv, GroupInv, StageInv, ServedInv, HandingOver, Ended
<1>4. ASSUME NEW l \in wanted \ (Held("old") \cup opening), opening' = opening \cup {l}, UNCHANGED <<frozen, group, steer>>
      PROVE  IInv'
  <2>1. TypeInv'
    BY <1>1, <1>2, <1>4 DEF TypeInv
  <2>2. ~ In("old", group[l])
    BY <1>1, <1>4 DEF Held, In, TypeInv
  <2>3. GroupInv'
    BY <1>1, <1>2, <1>4, <2>2 DEF GroupInv
  <2> QED
    BY <1>1, <1>2, <1>4, <2>1, <2>3 DEF IInv, StageInv, ServedInv, HandingOver, Ended
<1>5. ASSUME NEW l \in (Held("old") \cap Late) \ wanted, group' = [group EXCEPT ![l] = Without(@, "old")],
             steer' \subseteq steer, UNCHANGED <<opening, frozen>>
      PROVE  IInv'
  <2>1. TypeInv'
    BY <1>1, <1>2, <1>5 DEF TypeInv
  <2>2. /\ l \in Listeners /\ l # "console" /\ group[l] \in Groups /\ group'[l] = Without(group[l], "old")
        /\ \A k \in Listeners \ {l} : group'[k] = group[k]
    BY <1>1, <1>5 DEF GroupInv
  <2>3. /\ group'[l] \in Groups /\ ~ In("old", group'[l])
        /\ \A q \in Procs \ {"old"} : In(q, group'[l]) <=> In(q, group[l])
    BY <2>2, Left
  <2>4. GroupInv'
    <3>1. group' \in [Listeners -> Groups]
      BY <1>1, <1>5, <2>2, <2>3 DEF GroupInv
    <3>2. \A k \in Listeners, p \in Procs : In(p, group'[k]) => In(p, group[k])
      BY <2>2, <2>3
    <3> QED
      BY ZenonT(60), <1>1, <1>2, <1>5, <3>1, <3>2 DEF GroupInv, TypeInv
  <2> QED
    BY <1>1, <1>2, <1>5, <2>1, <2>2, <2>4 DEF IInv, StageInv, ServedInv, HandingOver, Ended
<1> QED
  BY <1>1, <1>3, <1>4, <1>5 DEF OldTick, TypeInv

\* A bind of one process ends: the group of l has one socket more.
LEMMA JoinsGroup ==
  ASSUME IInv, NEW p \in Procs, NEW l \in Listeners, group' = [group EXCEPT ![l] = Append(@, p)], ~ In(p, group[l]),
         UNCHANGED st, st[p] = "up", opening' \subseteq opening, p = "old" => l \notin opening'
  PROVE  GroupInv' /\ \A q \in Procs : In(q, group["console"]) => In(q, group'["console"])
<1>1. /\ group[l] \in Groups /\ group'[l] = Append(group[l], p) /\ \A k \in Listeners \ {l} : group'[k] = group[k]
  BY DEF IInv, GroupInv
<1>2. /\ group'[l] \in Groups /\ In(p, group'[l])
      /\ \A q \in Procs \ {p} : In(q, group'[l]) <=> In(q, group[l])
  BY <1>1, Joined
<1>3. group' \in [Listeners -> Groups]
  BY <1>1, <1>2 DEF IInv, GroupInv
<1>4. \A k \in Listeners, q \in Procs : In(q, group'[k]) => Accepts(q)'
  BY <1>1, <1>2 DEF IInv, GroupInv
<1>5. \A k \in opening' : ~ In("old", group'[k])
  BY <1>1, <1>2 DEF IInv, TypeInv, GroupInv
<1>6. \A q \in Procs : In(q, group["console"]) => In(q, group'["console"])
  BY <1>1, <1>2
<1> QED
  BY <1>3, <1>4, <1>5, <1>6 DEF GroupInv

LEMMA OldBindEndsKeeps == ASSUME IInv, OldBindEnds PROVE IInv'
<1>1. TypeInv /\ GroupInv /\ StageInv /\ ServedInv
  BY DEF IInv
<1>2. PICK l \in opening :
        /\ opening' = opening \ {l}
        /\ group' = IF st["old"] = "up" THEN [group EXCEPT ![l] = Append(@, "old")] ELSE group
        /\ UNCHANGED <<supv, stop, files, procv, wanted, frozen, steer, said, published, faults>>
  BY DEF OldBindEnds
<1>3. l \in Listeners /\ ~ In("old", group[l])
  BY <1>1 DEF TypeInv, GroupInv
<1>4. GroupInv' /\ \A q \in Procs : In(q, group["console"]) => In(q, group'["console"])
  <2>1. CASE st["old"] = "up"
    BY <1>2, <1>3, <2>1, JoinsGroup
  <2>2. CASE st["old"] # "up"
    BY <1>1, <1>2, <2>2 DEF GroupInv
  <2> QED
    BY <2>1, <2>2
<1>5. TypeInv'
  BY <1>1, <1>2 DEF TypeInv
<1> QED
  BY <1>1, <1>2, <1>4, <1>5 DEF IInv, StageInv, ServedInv, HandingOver, Ended

LEMMA PromoteBindsKeeps == ASSUME IInv, NEW l \in Listeners, PromoteBinds(l) PROVE IInv'
<1>1. TypeInv /\ GroupInv /\ StageInv /\ ServedInv
  BY DEF IInv
<1>2. /\ group' = [group EXCEPT ![l] = Append(@, "cand")] /\ st["cand"] = "up" /\ l \notin Held("cand")
      /\ UNCHANGED <<supv, stop, files, procv, oldv, steer, said, published, faults>>
  BY DEF PromoteBinds, Promoting
<1>3. ~ In("cand", group[l])
  BY <1>2 DEF Held, In
<1>4. GroupInv' /\ \A q \in Procs : In(q, group["console"]) => In(q, group'["console"])
  BY <1>2, <1>3, JoinsGroup
<1>5. TypeInv'
  BY <1>1, <1>2 DEF TypeInv
<1> QED
  BY <1>1, <1>2, <1>4, <1>5 DEF IInv, StageInv, ServedInv, HandingOver, Ended

-------------------------------------------------------------------------------
LEMMA StutterKeeps == ASSUME IInv, UNCHANGED vars PROVE IInv'
<1>1. UNCHANGED <<sup, phase, verdict, oldSeen, stop, lock, named, upgrade, attempt, st, termed, usr, wanted, frozen,
                 opening, group, steer, said, published, faults>>
  BY DEF vars
<1> QED
  BY <1>1 DEF IInv, TypeInv, GroupInv, StageInv, ServedInv, HandingOver, Ended

LEMMA StepKeeps == IInv /\ [Next]_vars => IInv'
<1> SUFFICES ASSUME IInv, [Next]_vars PROVE IInv'
  OBVIOUS
<1>1. CASE UNCHANGED vars
  BY <1>1, StutterKeeps
<1>2. CASE SupervisorStep
  BY <1>2, EndReapsKeeps, SettleKeeps, EndKillsKeeps, LeaveRuntimeKeeps, MaskKeeps, WriteRecordKeeps,
     ExecKeeps, EnterKeeps, AdoptKeeps, HostAdmissionKeeps, GuardKeeps, TakeLocksKeeps, PrepareKeeps,
     StartRuntimeKeeps, StopSeenKeeps, CheckReapsOldKeeps, StepProbeKeeps, StepFreezeKeeps,
     StepPromotingKeeps, StepCheckKeeps, StepRecheckKeeps, StepVerifyKeeps, StepRetireKeeps,
     StepConfirmKeeps DEF SupervisorStep
<1>3. CASE CandidateStep
  BY <1>3, CandidateReadyKeeps, PromotePublishesKeeps, ReleaseKeeps, PromoteBindsKeeps, PromoteSteersKeeps
     DEF CandidateStep
<1>4. CASE OldTick \/ OldBindEnds \/ \E p \in Procs : Drain(p) \/ Dies(p)
  BY <1>4, OldTickKeeps, OldBindEndsKeeps, DrainKeeps, DiesKeeps
<1>5. CASE SupervisorDies \/ ServiceStops \/ ServiceRestarts \/ TerminalStarts \/ RollbackCommand \/ Terminated
  BY <1>5, SupervisorDiesKeeps, ServiceStopsKeeps, ServiceRestartsKeeps, TerminalStartsKeeps,
     RollbackCommandKeeps, TerminatedKeeps
<1> QED
  BY <1>1, <1>2, <1>3, <1>4, <1>5 DEF Next

\* The invariant the properties below are read from.
THEOREM Inductive == Spec => []IInv
BY InitIInv, StepKeeps, PTL DEF Spec

\* Every variable keeps its type; no group has a third socket.
THEOREM TypeCorrect == Spec => []TypeOK
<1>1. IInv => TypeOK
  <2> SUFFICES ASSUME IInv PROVE TypeOK
    OBVIOUS
  <2>1. DOMAIN group = Listeners /\ \A l \in Listeners : group[l] \in UNION {[1..n -> Procs] : n \in 0..2}
    BY GroupType DEF IInv, GroupInv
  <2> QED
    BY <2>1 DEF IInv, TypeInv, TypeOK, Before, Retired
<1> QED
  BY <1>1, Inductive, PTL

\* While nothing dies, whatever process the kernel picks for the console accepts (HANDOVER.md, H1 to H10).
THEOREM ConsoleServed == Spec => []ServedThroughout
<1>1. IInv => ServedThroughout
  <2> SUFFICES ASSUME IInv, HandingOver, faults = 0
               PROVE  Target("console") # {} /\ \A p \in Target("console") : Accepts(p)
    BY DEF ServedThroughout
  <2>1. \E p \in Procs : In(p, group["console"])
    BY DEF IInv, ServedInv
  <2> QED
    BY <2>1, TargetIn DEF IInv, GroupInv
<1> QED
  BY <1>1, Inductive, PTL

\* A saved confirmation follows the old process's reaping (lab/handover.py Promotion, H9 and H10).
THEOREM OneVersionConfirmed == Spec => []ConfirmedAlone
<1>1. IInv => ConfirmedAlone
  BY DEF IInv, StageInv, ConfirmedAlone
<1> QED
  BY <1>1, Inductive, PTL

\* The control state is restored only when no console process is left (W1).
THEOREM RestoredAlone == Spec => WayBackAlone
<1>1. ASSUME IInv, [Next]_vars
      PROVE  [upgrade # "back" /\ upgrade' = "back" => \A p \in Procs : ~Live(p)]_vars
  <2>1. upgrade' = upgrade \/ upgrade' = "confirmed" \/ upgrade' = "rolled" \/ Settle \/ ServiceRestarts
    BY <1>1 DEF Next, vars, SupervisorStep, CandidateStep, EndReaps, Settle, EndKills, LeaveRuntime, Mask,
       WriteRecord, Exec, Enter, Adopt, HostAdmission, Guard, TakeLocks, Prepare, StartRuntime, StopSeen,
       CandidateExited, CheckReapsOld, StepProbe, StepFreeze, StepPromoting, StepCheck, StepRecheck,
       StepVerify, StepRetire, StepConfirm, LimitPassed, CandidateReady, PromotePublishes, Release,
       PromoteBinds, PromoteSteers, OldTick, OldBindEnds, Drain, Dies, SupervisorDies, ServiceStops,
       ServiceRestarts, TerminalStarts, RollbackCommand, Terminated, Goes, End, Freeze, Next_
  <2> QED
    BY <1>1, <2>1 DEF IInv, StageInv, Settle, ServiceRestarts, Ended
<1> QED
  BY <1>1, Inductive, PTL DEF Spec, WayBackAlone

\* A process id that was reaped, or that never was one of the handover's, is not signalled (B13).
THEOREM SignalsOnlyItsOwn == Spec => NeverSignalsReaped
<1> DEFINE Owned == /\ \A p \in Procs : termed'[p] # termed[p] => st[p] \notin {"none", "reaped"}
                    /\ usr' # usr => st["cand"] \notin {"none", "reaped"}
<1>1. ASSUME IInv, [Next]_vars
      PROVE  [Owned]_vars
  <2>1. \/ UNCHANGED <<termed, usr>> \/ \E why \in Verdicts : End(why)
        \/ StepProbe \/ StepFreeze \/ StepVerify \/ StepRetire \/ SupervisorDies
    BY <1>1 DEF Next, vars, SupervisorStep, CandidateStep, EndReaps, Settle, EndKills, LeaveRuntime, Mask,
       WriteRecord, Exec, Enter, Adopt, HostAdmission, Guard, TakeLocks, Prepare, StartRuntime, StopSeen,
       CandidateExited, CheckReapsOld, StepPromoting, StepCheck, StepRecheck, StepConfirm, LimitPassed,
       CandidateReady, PromotePublishes, Release, PromoteBinds, PromoteSteers, OldTick, OldBindEnds,
       Drain, Dies, ServiceStops, ServiceRestarts, TerminalStarts, RollbackCommand, Terminated, Goes,
       Next_, Verdicts
  <2>2. ASSUME NEW P \in SUBSET Procs, Signalled(P)
        PROVE  \A p \in Procs : termed'[p] # termed[p] => p \in P
    <3>1. termed \in [Procs -> BOOLEAN]
      BY <1>1 DEF IInv, TypeInv
    <3> SUFFICES ASSUME NEW p \in Procs, p \notin P PROVE termed'[p] = termed[p]
      OBVIOUS
    <3>2. termed'[p] = (termed[p] \/ p \in P) /\ termed[p] \in BOOLEAN
      BY <2>2, <3>1 DEF Signalled
    <3> QED
      BY <3>2
  <2>3. ASSUME Signalled({p \in Procs : Live(p)}), UNCHANGED usr
        PROVE  Owned
    <3>1. \A p \in Procs : termed'[p] # termed[p] => p \in {q \in Procs : Live(q)}
      BY <2>2, <2>3
    <3> QED
      BY <3>1, <2>3 DEF Live
  <2>4. ASSUME NEW why \in Verdicts, End(why) PROVE Owned
    BY <2>3, <2>4 DEF End
  <2>5. CASE SupervisorDies
    BY <2>3, <2>5 DEF SupervisorDies
  <2>6. CASE StepProbe \/ StepFreeze
    <3>1. CASE \E why \in Verdicts : End(why)
      BY <3>1, <2>4
    <3>2. CASE ~ \E why \in Verdicts : End(why)
      <4>1. sup = "watch" /\ UNCHANGED termed
        BY <3>2, <2>6 DEF StepProbe, StepFreeze, Freeze, Next_, Turn, Verdicts
      <4> QED
        BY <4>1, <1>1 DEF IInv, StageInv
    <3> QED
      BY <3>1, <3>2
  <2>7. CASE StepVerify
    <3>1. CASE \E why \in Verdicts : End(why)
      BY <3>1, <2>4
    <3>2. CASE ~ \E why \in Verdicts : End(why)
      <4>1. Signalled({"old"} \ {p \in Procs : st[p] = "reaped"}) /\ UNCHANGED usr
        BY <3>2, <2>7 DEF StepVerify, Verdicts
      <4>2. \A p \in Procs : termed'[p] # termed[p] => p \in {"old"} \ {q \in Procs : st[q] = "reaped"}
        BY <4>1, <2>2 DEF Procs
      <4> QED
        BY <4>1, <4>2, <1>1 DEF IInv, StageInv
    <3> QED
      BY <3>1, <3>2
  <2>8. CASE StepRetire
    <3>1. sup = "watch" /\ UNCHANGED termed
      BY <2>8 DEF StepRetire, Turn
    <3> QED
      BY <3>1, <1>1 DEF IInv, StageInv
  <2> QED
    BY <2>1, <2>4, <2>5, <2>6, <2>7, <2>8
<1> QED
  BY <1>1, Inductive, PTL DEF Spec, NeverSignalsReaped

===============================================================================
