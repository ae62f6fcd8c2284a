-------------------------- MODULE AllocationLedger --------------------------
(***************************************************************************)
(* What provisioning promises of an environment's allocation, with no      *)
(* worker, file or crash in sight: one builder is committed before         *)
(* anything exists outside, it is never replaced, it alone takes the       *)
(* allocation from absent over partial to built, and the environment is    *)
(* announced ready only once it is built.  A builder may also stop half    *)
(* way: the allocation then stays partial until an operator acts.          *)
(***************************************************************************)
CONSTANTS Env, Token

VARIABLES
  builder,   \* per environment, the attempts committed to change the world: at most one
  world,     \* per environment, what exists outside
  ready      \* per environment, whether it is announced ready

ledgerVars == <<builder, world, ready>>

Init ==
  /\ builder = [e \in Env |-> {}]
  /\ world = [e \in Env |-> "absent"]
  /\ ready = [e \in Env |-> FALSE]

CommitBuilder(e) ==
  /\ builder[e] = {} /\ world[e] = "absent" /\ ~ ready[e]
  /\ \E t \in Token : builder' = [builder EXCEPT ![e] = {t}]
  /\ UNCHANGED <<world, ready>>

Start(e) ==
  /\ builder[e] # {} /\ world[e] = "absent"
  /\ world' = [world EXCEPT ![e] = "partial"]
  /\ UNCHANGED <<builder, ready>>

Finish(e) ==
  /\ world[e] = "partial"
  /\ world' = [world EXCEPT ![e] = "built"]
  /\ UNCHANGED <<builder, ready>>

Announce(e) ==
  /\ world[e] = "built" /\ ~ ready[e]
  /\ ready' = [ready EXCEPT ![e] = TRUE]
  /\ UNCHANGED <<builder, world>>

Next == \E e \in Env : CommitBuilder(e) \/ Start(e) \/ Finish(e) \/ Announce(e)
Spec == Init /\ [][Next]_ledgerVars
=============================================================================
