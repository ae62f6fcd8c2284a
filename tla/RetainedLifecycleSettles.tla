----------------------- MODULE RetainedLifecycleSettles -----------------------
(***************************************************************************)
(* Liveness of RetainedLifecycle.  calm becomes true at a moment of no     *)
(* step of the system, and from then on nothing dies, fails or is revoked. *)
(* A fault and an ordinary refusal can be the same change of state, so     *)
(* this moment is a variable and not a formula about steps.                *)
(***************************************************************************)
EXTENDS RetainedLifecycle

VARIABLE calm

CalmInit == Init /\ calm = FALSE
FaultsStop == ~ calm /\ calm' = TRUE /\ UNCHANGED vars
CalmNext ==
  \/ Step /\ UNCHANGED calm
  \/ ~ calm /\ Fault /\ UNCHANGED calm
  \/ FaultsStop

\* The supervisor restarts the worker, the worker retries a blocked operation
\* about once a minute, and a started python run goes on unless a fault ends it.
Fairness ==
  /\ WF_vars(WorkerStep) /\ WF_vars(Start)
  /\ \A a \in Adapter : WF_vars(RunStep(a))
UnattendedSpec == CalmInit /\ [][CalmNext]_<<vars, calm>> /\ Fairness

\* With an operator who does what docs/reference/api.md says of an operation
\* that does not finish: stop a container that should not be running.
AttendedSpec == UnattendedSpec /\ \A c \in Container : WF_vars(OperatorStop(c))

\* Once faults have stopped, a delete or a restore whose owner is authorized
\* settles, whatever state the faults left it in.
OperationSettles == calm /\ authorized /\ state \in Pending ~> state \notin Pending

\* What lab/durable_lifecycle.py:11-13 says of an interrupted delete: a replay
\* of the same operation reads the journal and finishes.
ReplayFinishes == calm /\ authorized /\ state = "deleting" ~> state = "deleted"
=============================================================================
