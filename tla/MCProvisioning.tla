--------------------------- MODULE MCProvisioning ---------------------------
(* Small instances of Provisioning for TLC. *)
EXTENDS Provisioning, TLC

\* Every environment in one project, so that a transfer touches them all.
OneProject == [e \in Env |-> CHOOSE p \in Project : TRUE]

\* Workers are interchangeable: nothing in the model orders them.
WorkerSymmetry == Permutations(Worker)
=============================================================================
