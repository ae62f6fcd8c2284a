-------------------------- MODULE ProvisioningSettles --------------------------
(***************************************************************************)
(* Liveness of Provisioning.  calm becomes true between two steps of the   *)
(* system, and from then on nothing dies, fails or passes its deadline.  A *)
(* death and an ordinary exit can be the same change of state, so this     *)
(* moment is a variable and not a formula about steps.                     *)
(***************************************************************************)
EXTENDS Provisioning

VARIABLE calm

CalmInit == Init /\ calm = FALSE
FaultsStop == ~ calm /\ calm' = TRUE /\ UNCHANGED vars
CalmNext ==
  \/ Step /\ UNCHANGED calm
  \/ ~ calm /\ Fault /\ UNCHANGED calm
  \/ FaultsStop

\* The supervisor restarts the worker (lab/dev.py) and the system runs its
\* processes: each one that can step does, unless a fault ends it.
Fairness ==
  /\ \A w \in Worker : WF_vars(WorkerStep(w))
  /\ \A t \in Token : WF_vars(GuardianStep(t)) /\ WF_vars(NativeStep(t))
FairSpec == CalmInit /\ [][CalmNext]_<<vars, calm>> /\ Fairness

\* Once faults have stopped every accepted job settles, unless a receipt that
\* nothing can decide any more stops the worker for good, for an operator (the
\* failures of settleWorkerReceipt), or the bound on claims is reached.
Unresolved == Verdict(TRUE) = "blocked" /\ \A t \in Token : ~ Live(t)
BoundReached == \E e \in Env : attempt[e] = MaxAttempt /\ jobState[e] = "queued"
JobSettles ==
  \A e \in Env :
    calm /\ jobState[e] \in {"queued", "running"} ~>
      \/ jobState[e] \in {"succeeded", "failed", "cancelled"}
      \/ []Unresolved \/ BoundReached
=============================================================================
