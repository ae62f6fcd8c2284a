--------------------------- MODULE MCConcurrencyGate ---------------------------
\* Instances of ConcurrencyGate for TLC.
EXTENDS ConcurrencyGate

CONSTANTS a, b, c

\* REST's budget of the larger instances; the other services have none that binds.
SmallRestBudget == [s \in Service |-> IF s = "rest" THEN 2 ELSE Maximum]
=============================================================================
