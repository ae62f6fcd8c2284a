-------------------------- MODULE ReplacementLedger --------------------------
(***************************************************************************)
(* What a roll promises of an environment's containers, with no command,    *)
(* crash or repair in sight: nothing is tried before the upgrade is         *)
(* confirmed, one environment is tried at a time, a trial is given up or    *)
(* decided, what is decided is finished, and what is new stays new.  An     *)
(* environment whose containers somebody removed or made is left out.       *)
(***************************************************************************)
CONSTANT Environment

VARIABLES
  place,      \* per environment: old, trial (both are there), decided, new, byhand
  confirmed   \* the upgrade is confirmed

ledgerVars == <<place, confirmed>>
Moves(e, from, to) == place[e] = from /\ place' = [place EXCEPT ![e] = to] /\ UNCHANGED confirmed

Init == place = [e \in Environment |-> "old"] /\ confirmed = FALSE

Confirm == ~ confirmed /\ confirmed' = TRUE /\ UNCHANGED place
Try(e) ==
  /\ confirmed
  /\ \A f \in Environment : place[f] \notin {"trial", "decided"}
  /\ Moves(e, "old", "trial")
GiveUp(e) == Moves(e, "trial", "old")
Decide(e) == Moves(e, "trial", "decided")
Finish(e) == Moves(e, "decided", "new")
Leave(e) == place' = [place EXCEPT ![e] = "byhand"] /\ UNCHANGED confirmed

Next == Confirm \/ \E e \in Environment : Try(e) \/ GiveUp(e) \/ Decide(e) \/ Finish(e) \/ Leave(e)
Spec == Init /\ [][Next]_ledgerVars
===============================================================================
