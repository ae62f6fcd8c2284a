---------------------------- MODULE ConcurrencyGate ----------------------------
(***************************************************************************)
(* Admission of requests to the gateway: a guaranteed share per            *)
(* environment, borrowing above it, per-service budgets, and the pause and *)
(* drain of one environment (src/gateway/concurrency.ts), with the shares  *)
(* the catalog holds (setGatewayShare of src/control/catalog.ts).          *)
(*                                                                         *)
(* The gate runs in one JavaScript thread: what it does between two awaits *)
(* is one action.  Calls of one service of one environment that wait for   *)
(* the same thing are counted, not named.  Answers, the pressure samples   *)
(* and a share lookup that throws are left out.                            *)
(*                                                                         *)
(* A definition whose name ends in _<Word> is not part of the program: it  *)
(* is the definition that follows it with one plausible bug, kept to show  *)
(* that a property would notice.                                           *)
(***************************************************************************)
EXTENDS Integers, FiniteSets

CONSTANTS
  Env,
  Service,
  Drains,       \* services whose abandoned answers are drained (drainOnCancel)
  Budget,       \* calls of one service an environment may hold
  DefaultShare, Maximum, Ceiling, Headroom,   \* the GATEWAY policy
  Pausable,     \* environments an operator may pause
  Share,        \* shares an operator may set
  MaxLingering  \* bound: released calls whose drain loop has not seen it yet

ASSUME FiniteAssumption == IsFiniteSet(Env) /\ IsFiniteSet(Service)
ASSUME DrainsAssumption == Drains \subseteq Service
ASSUME BudgetAssumption == Budget \in [Service -> Nat \ {0}]
ASSUME PolicyAssumption ==
  /\ {DefaultShare, Maximum, Ceiling} \subseteq Nat \ {0} /\ Headroom \in Nat
  /\ DefaultShare <= Ceiling /\ Ceiling <= Maximum /\ Headroom < Maximum
ASSUME ShareAssumption == Share \subseteq 1 .. Ceiling
ASSUME LingeringAssumption == MaxLingering \in Nat

\* Slots and calls are units: a sum is how many pairs of a member and one of its units there are.
Units(f, S) == UNION {{x} \X (1 .. f[x]) : x \in S}
Total(f, S) == Cardinality(Units(f, S))

VARIABLES
  share,     \* gateway_shares of the catalog
  total, active, services,   \* the gate's counters
  seen,      \* environments that asked for a slot in the last recentMs
  paused,    \* environments under a pause lease
  drain,     \* waitForDrain of the lease: none, waiting, drained, late
  calls      \* calls of each environment and service by what they wait for

counterVars == <<total, active, services, seen>>
pauseVars == <<paused, drain>>
gateVars == <<share, counterVars, pauseVars, calls>>

\* forward: the upstream's answer; stream: its body; drain: an abandoned body;
\* lingering: a drain loop whose call the deadline has already released.
HeldPhase == {"forward", "stream", "drain"}
Phase == HeldPhase \cup {"lingering"}

GateInit ==
  /\ share = [e \in Env |-> DefaultShare]
  /\ total = 0 /\ active = [e \in Env |-> 0]
  /\ services = [e \in Env |-> [s \in Service |-> 0]]
  /\ seen = {} /\ paused = {} /\ drain = [e \in Env |-> "none"]
  /\ calls = [e \in Env |-> [s \in Service |-> [p \in Phase |-> 0]]]

-----------------------------------------------------------------------------
(* Admission. *)

Unused(e) == IF active[e] < share[e] THEN share[e] - active[e] ELSE 0
UnusedShares(S) == Total([e \in S |-> Unused(e)], S)
Larger(a, b) == IF a > b THEN a ELSE b

\* What a borrow must leave free: the headroom, or the unused share of every
\* other environment seen recently.
Reserve_HeadroomOnly(e) == Headroom
Reserve(e) == Larger(Headroom, UnusedShares(seen \ {e}))

MayEnter_NoReserve(e) ==
  /\ active[e] < Larger(Ceiling, share[e])
  /\ total < Maximum
MayEnter(e) ==
  IF active[e] < share[e]
  THEN total < Maximum
  ELSE active[e] < Larger(Ceiling, share[e]) /\ Maximum - total > Reserve(e)

\* run up to the forward: the environment is seen whether or not it is admitted.
Admitted(e, s) == services[e][s] < Budget[s] /\ MayEnter(e)
Unpaused_Ignored(e) == TRUE
Unpaused(e) == e \notin paused
run(e, s) ==
  /\ Unpaused(e)
  /\ seen' = seen \cup {e}
  /\ IF Admitted(e, s)
     THEN /\ total' = total + 1
          /\ active' = [active EXCEPT ![e] = @ + 1]
          /\ services' = [services EXCEPT ![e][s] = @ + 1]
          /\ calls' = [calls EXCEPT ![e][s]["forward"] = @ + 1]
     ELSE UNCHANGED <<total, active, services, calls>>
  /\ UNCHANGED <<share, pauseVars>>

-----------------------------------------------------------------------------
(* The end of a call. *)

\* A counter that would go below zero is dropped from its map instead.
Less(n) == IF n = 0 THEN 0 ELSE n - 1

\* release: the slot goes back, and the last call of an environment answers
\* whoever waits for its drain.
GiveBack(e, s) ==
  /\ total' = total - 1
  /\ active' = [active EXCEPT ![e] = Less(@)]
  /\ services' = [services EXCEPT ![e][s] = Less(@)]
  /\ drain' = IF active'[e] = 0 /\ drain[e] = "waiting"
              THEN [drain EXCEPT ![e] = "drained"] ELSE drain
  /\ UNCHANGED <<share, seen, paused>>

\* finish and release act once for each call, whoever comes second.
Finish_Twice(e, s, p) == GiveBack(e, s)
Finish(e, s, p) ==
  IF p \in HeldPhase THEN GiveBack(e, s)
  ELSE UNCHANGED <<share, counterVars, pauseVars>>

Waits(e, s, p) == calls[e][s][p] > 0
GoesAway(e, s, p) == calls' = [calls EXCEPT ![e][s][p] = @ - 1]
Moves(e, s, p, q) == calls' = [calls EXCEPT ![e][s][p] = @ - 1, ![e][s][q] = @ + 1]

\* The upstream answers with a body.
Respond(e, s) ==
  /\ Waits(e, s, "forward")
  /\ Moves(e, s, "forward", "stream")
  /\ UNCHANGED <<share, counterVars, pauseVars>>

\* An answer without a body, an upstream error, a deadline or a cancelled
\* request; the end or the failure of a body, or its cancellation.
Ends(e, s, p) ==
  /\ p \in {"forward", "stream"} /\ Waits(e, s, p)
  /\ GoesAway(e, s, p)
  /\ Finish(e, s, p)

\* The reader of a REST answer leaves: the slot is kept while the rest drains.
Cancel(e, s) ==
  /\ s \in Drains /\ Waits(e, s, "stream")
  /\ Moves(e, s, "stream", "drain")
  /\ UNCHANGED <<share, counterVars, pauseVars>>

Drained(e, s) ==
  /\ Waits(e, s, "drain")
  /\ GoesAway(e, s, "drain")
  /\ Finish(e, s, "drain")

\* The response deadline while a body drains: the slot goes back at once, and
\* the loop calls finish again when its read returns.
DrainDeadline(e, s) ==
  /\ Waits(e, s, "drain")
  /\ calls[e][s]["lingering"] < MaxLingering
  /\ Moves(e, s, "drain", "lingering")
  /\ Finish(e, s, "drain")

LoopEnds(e, s) ==
  /\ Waits(e, s, "lingering")
  /\ GoesAway(e, s, "lingering")
  /\ Finish(e, s, "lingering")

-----------------------------------------------------------------------------
(* Time, the operator and the catalog. *)

\* recentMs without a request.
Forget(e) ==
  /\ e \in seen
  /\ seen' = seen \ {e}
  /\ UNCHANGED <<share, total, active, services, pauseVars, calls>>

Pause(e) ==
  /\ e \in Pausable \ paused
  /\ paused' = paused \cup {e}
  /\ UNCHANGED <<share, counterVars, drain, calls>>

\* waitForDrain, one at a time.
WaitForDrain(e) ==
  /\ e \in paused /\ drain[e] # "waiting"
  /\ drain' = [drain EXCEPT ![e] = IF active[e] = 0 THEN "drained" ELSE "waiting"]
  /\ UNCHANGED <<share, counterVars, paused, calls>>

DrainTimeout(e) ==
  /\ drain[e] = "waiting"
  /\ drain' = [drain EXCEPT ![e] = "late"]
  /\ UNCHANGED <<share, counterVars, paused, calls>>

\* resume: a waiter is answered no, and the lease is over.
Resume(e) ==
  /\ e \in paused
  /\ paused' = paused \ {e}
  /\ drain' = [drain EXCEPT ![e] = "none"]
  /\ UNCHANGED <<share, counterVars, calls>>

\* A share is raised only while the shares of all fit in the gateway.
MayRaise_Alone(e, n) == n <= Maximum
MayRaise(e, n) == n <= share[e] \/ Total(share, Env) - share[e] + n <= Maximum
setGatewayShare(e, n) ==
  /\ n # share[e] /\ MayRaise(e, n)
  /\ share' = [share EXCEPT ![e] = n]
  /\ UNCHANGED <<counterVars, pauseVars, calls>>

-----------------------------------------------------------------------------
\* What the deadlines and the runtime bring about without anybody's help.
CallEnds(e, s) ==
  \/ \E p \in {"forward", "stream"} : Ends(e, s, p)
  \/ Drained(e, s) \/ DrainDeadline(e, s) \/ LoopEnds(e, s)

GateNext ==
  \/ \E e \in Env, s \in Service : run(e, s) \/ Respond(e, s) \/ Cancel(e, s) \/ CallEnds(e, s)
  \/ \E e \in Env :
       \/ Forget(e) \/ Pause(e) \/ WaitForDrain(e) \/ DrainTimeout(e) \/ Resume(e)
       \/ \E n \in Share : setGatewayShare(e, n)

GateSpec == GateInit /\ [][GateNext]_gateVars

\* Every call has a deadline for the answer and one for the body (30 s, 150 s
\* for a function), so each kind of waiting call goes on ending.  A drain the
\* upstream never finishes ends by its deadline.
Deadlines ==
  \A e \in Env, s \in Service :
    /\ \A p \in {"forward", "stream"} : WF_gateVars(Ends(e, s, p))
    /\ WF_gateVars(DrainDeadline(e, s)) /\ WF_gateVars(LoopEnds(e, s))
GateFairSpec == GateSpec /\ Deadlines

-----------------------------------------------------------------------------
(* Properties. *)

GateTypeOK ==
  /\ share \in [Env -> 1 .. Ceiling]
  /\ total \in 0 .. Maximum
  /\ active \in [Env -> 0 .. Maximum]
  /\ services \in [Env -> [Service -> 0 .. Maximum]]
  /\ seen \subseteq Env /\ paused \subseteq Pausable
  /\ drain \in [Env -> {"none", "waiting", "drained", "late"}]
  /\ calls \in [Env -> [Service -> [Phase -> Nat]]]

HeldCalls(e, s) == Total(calls[e][s], HeldPhase)

\* The counters are exactly the calls that are still held, however each ended
\* and whatever came late: a slot is neither lost nor given back twice.
CountersAgree ==
  /\ total = Total(active, Env)
  /\ \A e \in Env :
       /\ active[e] = Total([s \in Service |-> HeldCalls(e, s)], Service)
       /\ \A s \in Service : services[e][s] = HeldCalls(e, s) /\ services[e][s] <= Budget[s]

\* An environment whose drain was answered yes is idle until it is resumed.
DrainedIsIdle ==
  \A e \in Env : drain[e] = "drained" =>
    e \in paused /\ \A s \in Service : HeldCalls(e, s) = 0

\* An environment within its share is turned away from a full gateway only
\* when a neighbour holds more than its own share
\* (docs/engineering/FAIR-SHARE-ADMISSION.md: so every guarantee can hold at once).
Borrowing(e) == active[e] > share[e]
FullOnlyByBorrowing ==
  total >= Maximum => \A e \in Env : active[e] < share[e] => \E f \in Env \ {e} : Borrowing(f)

\* Room for the whole share of every recently active environment.  Only an
\* environment that wakes, or an operator who raises a share, may break into
\* it; requests, borrows, ends of calls and forgotten environments may not.
Reserved == UnusedShares(seen) <= Maximum - total
BorrowersKeepReserve ==
  [][Reserved /\ ~ Reserved' =>
       seen' \ seen # {} \/ \E e \in Env : share'[e] > share[e]]_gateVars

\* What a waking environment found taken comes back: once nobody new wakes or
\* is forgotten and the shares stay, every recent environment has room for its
\* whole share from then on.
Steady == <>[][UNCHANGED <<seen, share>>]_gateVars
ShareComesBack == Steady => <>[]Reserved

\* README.md:18: every project that was active in the last minute keeps its
\* whole share.  So the last free slot goes only to a request that leaves
\* none of them short.
RecentKeepsShare ==
  [][total < Maximum /\ total' = Maximum => \A e \in seen' : active'[e] >= share'[e]]_gateVars
=============================================================================
