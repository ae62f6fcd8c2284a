------------------------- MODULE ProvisioningProofs -------------------------
(***************************************************************************)
(* Provisioning for any number of environments, workers and attempts.      *)
(*                                                                         *)
(* None of the safety properties is inductive: whether a job may be taken  *)
(* again depends on what is on disk, that depends on how far a process     *)
(* came, and that on who may run at all.  IInv ties the four together:     *)
(* the lease (who may run), the files (what each program counter implies   *)
(* of receipt, stage and witness), the claims (which token the catalog and *)
(* the receipt agree on) and the world (an allocation that is more than    *)
(* absent has exactly one attempt that answers for it).                    *)
(***************************************************************************)
EXTENDS Provisioning, FiniteSetTheorems, TLAPS

Busy(w) == wpc[w] # "down"

\* Who may run.
LeaseInv ==
  /\ \A v, w \in Worker : Busy(v) /\ Busy(w) => v = w
  /\ \A s, t \in Token : Live(s) /\ Live(t) => s = t
  /\ \A w \in Worker, t \in Token : Busy(w) /\ Live(t) => wpc[w] = "wait" /\ wtoken[w] = t

\* The claim behind each dispatch and each running effect.
ClaimInv ==
  /\ \A t \in Token : Live(t) => HoldsClaim(t)
  /\ \A t \in Token : HoldsClaim(t) => ~ Recorded(t)
  /\ \A w \in Worker : wpc[w] \in {"spawn", "wait"} => wtoken[w] \in Token /\ HoldsClaim(wtoken[w])

\* An attempt that was not dispatched yet left no trace.
Untouched(t) ==
  /\ guardian[t] = "none" /\ native[t] = "none" /\ stage[t] = "none" /\ witness[t] = "none"
  /\ ~ Recorded(t) /\ receipt.token # t
FreshInv ==
  /\ \A t \in Token : AttemptOf(t) > attempt[EnvOf(t)] => Untouched(t)
  /\ \A w \in Worker : wpc[w] = "spawn" => Untouched(wtoken[w])

\* What the receipt says, seen from the worker, the guardian and the native process.
ReceiptInv ==
  /\ receipt.phase = "absent" <=> receipt.token = NoToken
  /\ receipt.phase # "absent" => HoldsClaim(receipt.token) \/ Recorded(receipt.token)
  /\ receipt.phase = "completed" => receipt.exit = witness[receipt.token] /\ receipt.exit \in Outcome
  /\ \A w \in Worker :
       /\ wpc[w] \in {"recover", "loop", "spawn"} => receipt.phase = "absent"
       /\ wpc[w] \in {"startup_consume", "consume"} =>
            receipt.phase # "absent" /\ Recorded(receipt.token)
  /\ \A t \in Token :
       /\ guardian[t] = "publish" => receipt.phase = "absent"
       /\ guardian[t] = "opened" => receipt.phase = "partial" /\ receipt.token = t
       /\ guardian[t] \in {"launch", "watch", "cleanup", "finish"} =>
            receipt.phase = "pending" /\ receipt.token = t
       /\ native[t] \in NativeLive => receipt.phase = "pending" /\ receipt.token = t
       /\ guardian[t] = "finish" => native[t] \in {"exit_ok", "exit_refused"}

\* What stage and witness say of the native process.
StageInv ==
  \A t \in Token :
    /\ guardian[t] \in {"none", "publish", "opened", "launch"} => native[t] = "none"
    /\ native[t] \in {"none", "boot"} => stage[t] = "none" /\ witness[t] = "none"
    /\ native[t] = "staging" => stage[t] = "partial" /\ witness[t] = "none"
    /\ native[t] \in {"preflight", "cleared", "refusing"} => stage[t] = "preflight" /\ witness[t] = "none"
    /\ native[t] = "writing_refused" => stage[t] = "preflight" /\ witness[t] = "partial"
    /\ native[t] = "exit_refused" => stage[t] = "preflight" /\ witness[t] = "refused"
    /\ native[t] \in Mutating => stage[t] = native[t] /\ witness[t] = "none"
    /\ native[t] = "built" => stage[t] = "publication" /\ witness[t] = "none"
    /\ native[t] = "writing_ok" => stage[t] = "publication" /\ witness[t] = "partial"
    /\ native[t] = "exit_ok" => stage[t] = "publication" /\ witness[t] = "ok"
    /\ witness[t] = "refused" => stage[t] = "preflight"
    /\ witness[t] = "ok" => stage[t] = "publication"

\* What exists outside, and who answers for it.
WorldInv ==
  /\ \A s, t \in Token : PastPreflight(s) /\ PastPreflight(t) /\ EnvOf(s) = EnvOf(t) => s = t
  /\ \A e \in Env : world[e] # "absent" => \E t \in Token : EnvOf(t) = e /\ PastPreflight(t)
  /\ \A e \in Env : jobState[e] = "succeeded" => world[e] = "built"
  /\ \A t \in Token :
       /\ PastPreflight(t) => \/ jobState[EnvOf(t)] = "succeeded"
                              \/ /\ HoldsClaim(t) /\ ~ Recorded(t)
                                 /\ receipt.token = t /\ receipt.phase \in {"pending", "completed"}
       /\ native[t] \in Mutating => world[EnvOf(t)] # "built"
       /\ native[t] \in {"built", "writing_ok", "exit_ok"} => world[EnvOf(t)] = "built"
       /\ witness[t] = "ok" => world[EnvOf(t)] = "built"

IInv ==
  /\ TypeOK
  /\ LeaseInv /\ ClaimInv /\ FreshInv /\ ReceiptInv /\ StageInv /\ WorldInv

-----------------------------------------------------------------------------
(* Tokens are pairs; everything below treats them through these facts. *)

LEMMA TokenFacts ==
  /\ \A t \in Token : EnvOf(t) \in Env /\ AttemptOf(t) \in 1 .. MaxAttempt
  /\ \A s, t \in Token : EnvOf(s) = EnvOf(t) /\ AttemptOf(s) = AttemptOf(t) => s = t
  /\ \A e \in Env, n \in 1 .. MaxAttempt :
       <<e, n>> \in Token /\ EnvOf(<<e, n>>) = e /\ AttemptOf(<<e, n>>) = n
  /\ NoToken \notin Token
BY NoTokenAssumption DEF Token, EnvOf, AttemptOf

LEMMA InitIInv == Init => IInv
BY TokenFacts, BoundAssumption
DEF Init, IInv, TypeOK, LeaseInv, ClaimInv, FreshInv, ReceiptInv, StageInv, WorldInv, Busy, Live,
    Untouched, Recorded, PastPreflight, NoReceipt, GuardianLive, NativeLive, Mutating, Outcome,
    Failure, JobState, HoldsClaim


CatalogType ==
  /\ jobState \in [Env -> JobState]
  /\ attempt \in [Env -> 0 .. MaxAttempt]
  /\ claim \in [Env -> 0 .. MaxAttempt]
  /\ failure \in [Env -> Failure]
  /\ results \in [Token -> {"none"} \cup Outcome]
  /\ decisions \in [Token -> {"none", "retry", "failed"}]
  /\ authority \in [Env -> BOOLEAN]

LEMMA TokenOfVerdict ==
  ASSUME IInv
  PROVE  receipt.phase # "absent" => receipt.token \in Token
BY DEF IInv, TypeOK, ReceiptInv

LEMMA CommitCatalog ==
  ASSUME TypeOK, NEW w, NEW pc, NEW fresh \in BOOLEAN, Commit(w, Verdict(fresh), pc),
         receipt.phase # "absent" => receipt.token \in Token
  PROVE  CatalogType'
<1> USE TokenFacts, BoundAssumption
<1>1. CASE UNCHANGED catalogVars
  BY <1>1 DEF TypeOK, CatalogType, catalogVars
<1>2. CASE ~ UNCHANGED catalogVars
  <2>1. receipt.token \in Token
    BY <1>2 DEF Commit, Verdict, TypeOK, Outcome
  <2>2. \/ \E exit \in Outcome : applyProvisionReceipt(receipt.token, exit)
        \/ recoverPreflightReceipt(receipt.token)
    BY <1>2 DEF Commit
  <2>3. ASSUME NEW exit \in Outcome, applyProvisionReceipt(receipt.token, exit)
        PROVE  CatalogType'
    <3>1. /\ \E s \in {"succeeded", "failed"} : jobState' = [jobState EXCEPT ![EnvOf(receipt.token)] = s]
          /\ \E f \in {"none", "capacity_exceeded"} : failure' = [failure EXCEPT ![EnvOf(receipt.token)] = f]
          /\ results' = [results EXCEPT ![receipt.token] = exit]
          /\ claim' = [claim EXCEPT ![EnvOf(receipt.token)] = 0]
          /\ UNCHANGED <<attempt, decisions, authority>>
      BY <1>2, <2>3 DEF applyProvisionReceipt, finishProvision
    <3> QED
      BY <2>1, <3>1 DEF TypeOK, CatalogType, JobState, Failure
  <2>4. CASE recoverPreflightReceipt(receipt.token)
    <3>1. /\ \E s \in {"queued", "failed"} : jobState' = [jobState EXCEPT ![EnvOf(receipt.token)] = s]
          /\ \E f \in {"none", "runtime_failed"} : failure' = [failure EXCEPT ![EnvOf(receipt.token)] = f]
          /\ \E d \in {"retry", "failed"} : decisions' = [decisions EXCEPT ![receipt.token] = d]
          /\ claim' = [claim EXCEPT ![EnvOf(receipt.token)] = 0]
          /\ UNCHANGED <<attempt, results, authority>>
      BY <1>2, <2>4 DEF recoverPreflightReceipt
    <3> QED
      BY <2>1, <3>1 DEF TypeOK, CatalogType, JobState, Failure
  <2> QED
    BY <2>2, <2>3, <2>4
<1> QED
  BY <1>1, <1>2

LEMMA createEnvironmentInv ==
  ASSUME IInv, NEW e \in Env, createEnvironment(e)
  PROVE  IInv'
<1> USE TokenFacts DEF IInv, createEnvironment,
       HoldsClaim, Live, Busy, Recorded, PastPreflight, GuardianLive, NativeLive, Mutating,
       Outcome, catalogVars, fileVars, workerVars, effectVars
<1>1. TypeOK'
  BY DEF TypeOK, JobState, Failure
<1>2. LeaseInv'
  BY DEF TypeOK, LeaseInv
<1>3. ClaimInv'
  BY DEF TypeOK, ClaimInv, LeaseInv, FreshInv, Untouched
<1>4. FreshInv'
  BY DEF TypeOK, LeaseInv, ClaimInv, FreshInv, Untouched
<1>5. ReceiptInv'
  BY DEF TypeOK, LeaseInv, ClaimInv, FreshInv, Untouched, ReceiptInv, StageInv
<1>6. StageInv'
  BY DEF TypeOK, FreshInv, Untouched, ReceiptInv, StageInv
<1>7. WorldInv'
  BY DEF TypeOK, LeaseInv, ClaimInv, FreshInv, Untouched, ReceiptInv, StageInv, WorldInv
<1> QED
  BY <1>1, <1>2, <1>3, <1>4, <1>5, <1>6, <1>7

LEMMA retryProvisionInv ==
  ASSUME IInv, NEW e \in Env, retryProvision(e)
  PROVE  IInv'
<1> USE TokenFacts DEF IInv, retryProvision, Retryable,
       HoldsClaim, Live, Busy, Recorded, PastPreflight, GuardianLive, NativeLive, Mutating,
       Outcome, catalogVars, fileVars, workerVars, effectVars
<1>1. TypeOK'
  BY BoundAssumption DEF TypeOK, JobState, Failure
<1>2. LeaseInv'
  BY DEF TypeOK, LeaseInv
<1>3. ClaimInv'
  BY DEF TypeOK, ClaimInv, LeaseInv, FreshInv, Untouched
<1>4. FreshInv'
  BY DEF TypeOK, LeaseInv, ClaimInv, FreshInv, Untouched
<1>5. ReceiptInv'
  BY DEF TypeOK, LeaseInv, ClaimInv, FreshInv, Untouched, ReceiptInv, StageInv
<1>6. StageInv'
  BY DEF TypeOK, FreshInv, Untouched, ReceiptInv, StageInv
<1>7. WorldInv'
  BY DEF TypeOK, LeaseInv, ClaimInv, FreshInv, Untouched, ReceiptInv, StageInv, WorldInv
<1> QED
  BY <1>1, <1>2, <1>3, <1>4, <1>5, <1>6, <1>7

LEMMA MembershipChangeInv ==
  ASSUME IInv, NEW e \in Env, MembershipChange(e)
  PROVE  IInv'
<1> USE TokenFacts DEF IInv, MembershipChange,
       HoldsClaim, Live, Busy, Recorded, PastPreflight, GuardianLive, NativeLive, Mutating,
       Outcome, catalogVars, fileVars, workerVars, effectVars
<1>1. TypeOK'
  BY DEF TypeOK, JobState, Failure
<1>2. LeaseInv'
  BY DEF TypeOK, LeaseInv
<1>3. ClaimInv'
  BY DEF TypeOK, ClaimInv, LeaseInv, FreshInv, Untouched
<1>4. FreshInv'
  BY DEF TypeOK, LeaseInv, ClaimInv, FreshInv, Untouched
<1>5. ReceiptInv'
  BY DEF TypeOK, LeaseInv, ClaimInv, FreshInv, Untouched, ReceiptInv, StageInv
<1>6. StageInv'
  BY DEF TypeOK, FreshInv, Untouched, ReceiptInv, StageInv
<1>7. WorldInv'
  BY DEF TypeOK, LeaseInv, ClaimInv, FreshInv, Untouched, ReceiptInv, StageInv, WorldInv
<1> QED
  BY <1>1, <1>2, <1>3, <1>4, <1>5, <1>6, <1>7

LEMMA transferProjectInv ==
  ASSUME IInv, NEW p \in Project, transferProject(p)
  PROVE  IInv'
<1> USE TokenFacts DEF IInv, transferProject,
       HoldsClaim, Live, Busy, Recorded, PastPreflight, GuardianLive, NativeLive, Mutating,
       Outcome, catalogVars, fileVars, workerVars, effectVars
<1>1. TypeOK'
  BY BoundAssumption DEF TypeOK, JobState, Failure
<1>2. LeaseInv'
  BY DEF TypeOK, LeaseInv
<1>3. ClaimInv'
  BY DEF TypeOK, ClaimInv, LeaseInv, FreshInv, Untouched
<1>4. FreshInv'
  BY DEF TypeOK, LeaseInv, ClaimInv, FreshInv, Untouched
<1>5. ReceiptInv'
  BY DEF TypeOK, LeaseInv, ClaimInv, FreshInv, Untouched, ReceiptInv, StageInv
<1>6. StageInv'
  BY DEF TypeOK, FreshInv, Untouched, ReceiptInv, StageInv
<1>7. WorldInv'
  BY DEF TypeOK, LeaseInv, ClaimInv, FreshInv, Untouched, ReceiptInv, StageInv, WorldInv
<1> QED
  BY <1>1, <1>2, <1>3, <1>4, <1>5, <1>6, <1>7

LEMMA AcquireInv ==
  ASSUME IInv, NEW w \in Worker, Acquire(w)
  PROVE  IInv'
<1> USE TokenFacts DEF IInv, Acquire, LeaseFree,
       HoldsClaim, Live, Busy, Recorded, PastPreflight, GuardianLive, NativeLive, Mutating,
       Outcome, catalogVars, fileVars, workerVars, effectVars
<1>1. TypeOK'
  BY DEF TypeOK, JobState, Failure
<1>2. LeaseInv'
  BY DEF TypeOK, LeaseInv
<1>3. ClaimInv'
  BY DEF TypeOK, ClaimInv, LeaseInv, FreshInv, Untouched
<1>4. FreshInv'
  BY DEF TypeOK, LeaseInv, ClaimInv, FreshInv, Untouched
<1>5. ReceiptInv'
  BY DEF TypeOK, LeaseInv, ClaimInv, FreshInv, Untouched, ReceiptInv, StageInv
<1>6. StageInv'
  BY DEF TypeOK, FreshInv, Untouched, ReceiptInv, StageInv
<1>7. WorldInv'
  BY DEF TypeOK, LeaseInv, ClaimInv, FreshInv, Untouched, ReceiptInv, StageInv, WorldInv
<1> QED
  BY <1>1, <1>2, <1>3, <1>4, <1>5, <1>6, <1>7

LEMMA StartupSettleInv ==
  ASSUME IInv, NEW w \in Worker, StartupSettle(w)
  PROVE  IInv'
<1> USE TokenFacts DEF IInv, StartupSettle, WorkerGoes, WorkerExits, Commit, MayApply, MayRecover, applyProvisionReceipt, recoverPreflightReceipt, finishProvision, Verdict,
       HoldsClaim, Live, Busy, Recorded, PastPreflight, GuardianLive, NativeLive, Mutating,
       Outcome, catalogVars, fileVars, workerVars, effectVars
<1>1. TypeOK'
  <2>1. wpc' \in [Worker -> {"down", "startup", "startup_consume", "recover", "loop", "spawn", "wait", "consume"}]
    <3>1. \E pc \in {"recover", "startup_consume", "down"} : wpc' = [wpc EXCEPT ![w] = pc]
      OBVIOUS
    <3> QED BY <3>1 DEF TypeOK
  <2>2. wtoken' \in [Worker -> Token \cup {NoToken}]
    BY DEF TypeOK
  <2>3. CatalogType'
    <3>1. CASE UNCHANGED catalogVars
      BY <3>1 DEF TypeOK, CatalogType
    <3>2. CASE Commit(w, Verdict(TRUE), "startup_consume")
      <4> HIDE DEF Commit
      <4> QED BY <3>2, CommitCatalog, TokenOfVerdict
    <3> QED BY <3>1, <3>2
  <2> QED
    BY <2>1, <2>2, <2>3 DEF TypeOK, CatalogType
<1>2. LeaseInv'
  <2>1. wpc[w] = "startup" /\ \E pc \in {"recover", "startup_consume", "down"} : wpc' = [wpc EXCEPT ![w] = pc]
    OBVIOUS
  <2>2. \A s \in Token : ~ Live(s) /\ ~ Live(s)'
    BY <2>1 DEF LeaseInv
  <2> HIDE DEF StartupSettle, Live
  <2> QED
    BY <2>1, <2>2 DEF TypeOK, LeaseInv
<1>3. ClaimInv'
  <2>1. \A s \in Token : ~ Live(s)
    BY DEF LeaseInv
  <2>2. \A v \in Worker : wpc'[v] \notin {"spawn", "wait"}
    <3>1. wpc[w] = "startup" /\ \E pc \in {"recover", "startup_consume", "down"} : wpc' = [wpc EXCEPT ![w] = pc]
      OBVIOUS
    <3>2. \A v \in Worker : v # w => wpc[v] = "down"
      BY <3>1 DEF LeaseInv
    <3> HIDE DEF StartupSettle, IInv
    <3> QED
      BY <3>1, <3>2
  <2>3. \A s \in Token : HoldsClaim(s)' => ~ Recorded(s)'
    <3>1. \A s \in Token : HoldsClaim(s)' => HoldsClaim(s)
      BY TokenOfVerdict DEF TypeOK
    <3>2. \A s \in Token : Recorded(s)' /\ ~ Recorded(s) => s = receipt.token /\ jobState'[EnvOf(s)] # "running"
      BY TokenOfVerdict DEF TypeOK
    <3> QED
      BY <3>1, <3>2 DEF ClaimInv
  <2> QED
    BY <2>1, <2>2, <2>3 DEF ClaimInv
<1>4. FreshInv'
  BY DEF TypeOK, LeaseInv, ClaimInv, FreshInv, Untouched
<1>5. ReceiptInv'
  <2>1. /\ wpc[w] = "startup"
        /\ \/ receipt.phase = "absent" /\ wpc' = [wpc EXCEPT ![w] = "recover"]
           \/ /\ receipt.phase # "absent" /\ Recorded(receipt.token)'
              /\ wpc' = [wpc EXCEPT ![w] = "startup_consume"]
           \/ wpc' = [wpc EXCEPT ![w] = "down"]
    BY TokenOfVerdict DEF TypeOK
  <2>2. UNCHANGED <<receipt, witness, guardian, native>>
    OBVIOUS
  <2>3. \A s \in Token : ~ Live(s)'
    BY <2>1, <2>2 DEF LeaseInv
  <2>4. receipt.phase # "absent" => (HoldsClaim(receipt.token) \/ Recorded(receipt.token))'
    BY TokenOfVerdict DEF TypeOK, ReceiptInv
  <2>5. \A v \in Worker : wpc'[v] # "down" => v = w
    BY <2>1 DEF TypeOK, LeaseInv
  <2> HIDE DEF StartupSettle, HoldsClaim, Recorded
  <2> QED
    BY <2>1, <2>2, <2>3, <2>4, <2>5 DEF TypeOK, ReceiptInv
<1>6. StageInv'
  BY DEF TypeOK, FreshInv, Untouched, ReceiptInv, StageInv
<1>7. WorldInv'
  <2>1. UNCHANGED <<receipt, stage, witness, native, world>>
    OBVIOUS
  <2>2. \A e \in Env : jobState'[e] = "succeeded" => world[e] = "built"
    BY TokenOfVerdict DEF TypeOK, ReceiptInv, StageInv, WorldInv
  <2>3. \A s \in Token : PastPreflight(s) =>
          \/ jobState'[EnvOf(s)] = "succeeded"
          \/ /\ (HoldsClaim(s) /\ ~ Recorded(s))'
             /\ receipt.token = s /\ receipt.phase \in {"pending", "completed"}
    BY TokenOfVerdict DEF TypeOK, ReceiptInv, StageInv, WorldInv
  <2> HIDE DEF StartupSettle, HoldsClaim, Recorded
  <2> QED
    BY <2>1, <2>2, <2>3 DEF WorldInv
<1> QED
  BY <1>1, <1>2, <1>3, <1>4, <1>5, <1>6, <1>7

LEMMA ConsumeInv ==
  ASSUME IInv, NEW w \in Worker, Consume(w)
  PROVE  IInv'
<1> USE TokenFacts DEF IInv, Consume, WorkerGoes, WorkerExits, NoReceipt,
       HoldsClaim, Live, Busy, Recorded, PastPreflight, GuardianLive, NativeLive, Mutating,
       Outcome, catalogVars, fileVars, workerVars, effectVars
<1>1. TypeOK'
  BY DEF TypeOK, JobState, Failure
<1>2. LeaseInv'
  BY DEF TypeOK, LeaseInv
<1>3. ClaimInv'
  BY DEF TypeOK, ClaimInv, LeaseInv, FreshInv, Untouched
<1>4. FreshInv'
  BY DEF TypeOK, LeaseInv, ClaimInv, FreshInv, Untouched
<1>5. ReceiptInv'
  <2>1. receipt' = NoReceipt
    OBVIOUS
  <2>2. \A s \in Token : ~ Live(s)
    BY DEF LeaseInv
  <2>3. \A v \in Worker : v # w => wpc[v] = "down"
    BY DEF LeaseInv
  <2>4. \A s \in Token : receipt'.token # s
    BY <2>1
  <2>5. \A v \in Worker : wpc'[v] \notin {"startup_consume", "consume"}
    BY <2>3 DEF TypeOK
  <2> QED
    BY <2>1, <2>2, <2>4, <2>5 DEF TypeOK, ReceiptInv, StageInv
<1>6. StageInv'
  BY DEF TypeOK, FreshInv, Untouched, ReceiptInv, StageInv
<1>7. WorldInv'
  BY DEF TypeOK, LeaseInv, ClaimInv, FreshInv, Untouched, ReceiptInv, StageInv, WorldInv
<1> QED
  BY <1>1, <1>2, <1>3, <1>4, <1>5, <1>6, <1>7

LEMMA recoverProvisioningInv ==
  ASSUME IInv, NEW w \in Worker, recoverProvisioning(w)
  PROVE  IInv'
<1> USE TokenFacts DEF IInv, recoverProvisioning, WorkerGoes, WorkerExits,
       HoldsClaim, Live, Busy, Recorded, PastPreflight, GuardianLive, NativeLive, Mutating,
       Outcome, catalogVars, fileVars, workerVars, effectVars
<1>1. TypeOK'
  BY BoundAssumption DEF TypeOK, JobState, Failure
<1>2. LeaseInv'
  BY DEF TypeOK, LeaseInv
<1>3. ClaimInv'
  <2>1. \A s \in Token : ~ Live(s)
    BY DEF LeaseInv
  <2>2. \A v \in Worker : wpc'[v] \notin {"spawn", "wait"}
    <3>1. \A v \in Worker : v # w => wpc[v] = "down"
      BY DEF LeaseInv
    <3>2. wpc' = [wpc EXCEPT ![w] = "loop"]
      OBVIOUS
    <3> QED
      BY <3>1, <3>2 DEF TypeOK
  <2>3. \A e \in Env : jobState'[e] # "running"
    OBVIOUS
  <2> QED
    BY <2>1, <2>2, <2>3 DEF ClaimInv
<1>4. FreshInv'
  BY DEF TypeOK, LeaseInv, ClaimInv, FreshInv, Untouched
<1>5. ReceiptInv'
  BY DEF TypeOK, LeaseInv, ClaimInv, FreshInv, Untouched, ReceiptInv, StageInv
<1>6. StageInv'
  BY DEF TypeOK, FreshInv, Untouched, ReceiptInv, StageInv
<1>7. WorldInv'
  BY DEF TypeOK, LeaseInv, ClaimInv, FreshInv, Untouched, ReceiptInv, StageInv, WorldInv
<1> QED
  BY <1>1, <1>2, <1>3, <1>4, <1>5, <1>6, <1>7

LEMMA claimProvisionInv ==
  ASSUME IInv, NEW w \in Worker, claimProvision(w)
  PROVE  IInv'
<1> USE TokenFacts DEF IInv, HoldsClaim, Live, Busy, Recorded, PastPreflight, GuardianLive, NativeLive, Mutating,
       Outcome, catalogVars, fileVars, workerVars, effectVars
<1>1. /\ wpc[w] = "loop" /\ receipt.phase = "absent"
      /\ \A s \in Token : ~ Live(s)
      /\ \A v \in Worker : v # w => wpc[v] = "down"
      /\ \A s \in Token : receipt.token # s
      /\ UNCHANGED <<failure, results, decisions, authority, fileVars, effectVars>>
  BY DEF claimProvision, LeaseInv, ReceiptInv
<1>2. CASE \E e \in Claimable :
          LET passed == Refusable({e}) IN
          /\ \A f \in Claimable : e <= f
          /\ attempt[e] < MaxAttempt
          /\ jobState' = [f \in Env |-> IF f = e THEN "running"
                                        ELSE IF f \in passed THEN "cancelled" ELSE jobState[f]]
          /\ attempt' = [attempt EXCEPT ![e] = @ + 1]
          /\ claim' = [claim EXCEPT ![e] = attempt[e] + 1]
          /\ wpc' = [wpc EXCEPT ![w] = "spawn"]
          /\ wtoken' = [wtoken EXCEPT ![w] = <<e, attempt[e] + 1>>]
  <2>1. PICK e \in Claimable :
          /\ attempt[e] < MaxAttempt
          /\ jobState' = [f \in Env |-> IF f = e THEN "running"
                                        ELSE IF f \in Refusable({e}) THEN "cancelled" ELSE jobState[f]]
          /\ attempt' = [attempt EXCEPT ![e] = @ + 1]
          /\ claim' = [claim EXCEPT ![e] = attempt[e] + 1]
          /\ wpc' = [wpc EXCEPT ![w] = "spawn"]
          /\ wtoken' = [wtoken EXCEPT ![w] = <<e, attempt[e] + 1>>]
    BY <1>2
  <2> DEFINE n == attempt[e] + 1
             t == <<e, n>>
  <2>2. e \in Env /\ jobState[e] = "queued"
    BY DEF Claimable
  <2>3. n \in 1 .. MaxAttempt /\ n > attempt[e]
    BY <2>1, <2>2, BoundAssumption DEF TypeOK
  <2>4. t \in Token /\ EnvOf(t) = e /\ AttemptOf(t) = n
    BY <2>2, <2>3
  <2> HIDE DEF n, t
  <2>5. Untouched(t)
    BY <2>3, <2>4 DEF FreshInv
  <2>6. /\ attempt' = [attempt EXCEPT ![e] = n]
        /\ claim' = [claim EXCEPT ![e] = n]
        /\ wtoken' = [wtoken EXCEPT ![w] = t]
    BY <2>1 DEF n, t
  <2>7. /\ jobState'[e] = "running"
        /\ \A f \in Env : f # e => jobState'[f] \in {jobState[f], "cancelled"}
        /\ \A f \in Env : f # e /\ jobState'[f] # jobState[f] => jobState[f] = "queued"
    BY <2>1, <2>2 DEF Refusable
  <2>8. \A s \in Token : HoldsClaim(s)' <=> HoldsClaim(s) \/ s = t
    BY <2>2, <2>3, <2>4, <2>6, <2>7, BoundAssumption DEF TypeOK
  <2>9. TypeOK'
    <3>1. jobState' \in [Env -> JobState]
      BY <2>1 DEF TypeOK, JobState
    <3>2. attempt' \in [Env -> 0 .. MaxAttempt] /\ claim' \in [Env -> 0 .. MaxAttempt]
      BY <2>2, <2>3, <2>6, BoundAssumption DEF TypeOK
    <3>3. wpc' \in [Worker -> {"down", "startup", "startup_consume", "recover", "loop", "spawn", "wait", "consume"}]
      BY <2>1 DEF TypeOK
    <3>4. wtoken' \in [Worker -> Token \cup {NoToken}]
      BY <2>4, <2>6 DEF TypeOK
    <3> QED
      BY <1>1, <3>1, <3>2, <3>3, <3>4 DEF TypeOK
  <2>10. LeaseInv'
    BY <1>1, <2>1 DEF TypeOK, LeaseInv
  <2>11. ClaimInv'
    <3>1. \A s \in Token : HoldsClaim(s)' => ~ Recorded(s)'
      BY <1>1, <2>5, <2>8 DEF ClaimInv, Untouched
    <3>2. \A v \in Worker : wpc'[v] \in {"spawn", "wait"} => wtoken'[v] = t
      BY <1>1, <2>1, <2>6 DEF TypeOK
    <3> QED
      BY <1>1, <2>4, <2>8, <3>1, <3>2 DEF ClaimInv
  <2>12. FreshInv'
    <3>1. \A s \in Token : Untouched(s)' <=> Untouched(s)
      BY <1>1 DEF Untouched
    <3>2. \A f \in Env : attempt'[f] >= attempt[f]
      BY <2>2, <2>3, <2>6 DEF TypeOK
    <3>3. \A s \in Token : AttemptOf(s) > attempt'[EnvOf(s)] => AttemptOf(s) > attempt[EnvOf(s)]
      BY <2>9, <3>2 DEF TypeOK
    <3>4. \A v \in Worker : wpc'[v] = "spawn" => wtoken'[v] = t
      BY <1>1, <2>1, <2>6 DEF TypeOK
    <3>5. \A s \in Token : AttemptOf(s) > attempt'[EnvOf(s)] => Untouched(s)'
      BY <3>1, <3>3 DEF FreshInv
    <3>6. \A v \in Worker : wpc'[v] = "spawn" => Untouched(wtoken[v])'
      BY <1>1, <2>5, <3>4 DEF Untouched
    <3> QED
      BY <3>5, <3>6 DEF FreshInv
  <2>13. ReceiptInv'
    BY <1>1, <2>1 DEF TypeOK, ReceiptInv
  <2>14. StageInv'
    BY <1>1 DEF StageInv
  <2>15. WorldInv'
    <3>1. \A s \in Token : PastPreflight(s)' <=> PastPreflight(s)
      BY <1>1
    <3>2. \A s \in Token : PastPreflight(s) => jobState[EnvOf(s)] = "succeeded"
      BY <1>1 DEF WorldInv
    <3>3. \A f \in Env : jobState[f] = "succeeded" <=> jobState'[f] = "succeeded"
      BY <2>2, <2>7
    <3> HIDE DEF PastPreflight
    <3> QED
      BY <1>1, <3>1, <3>2, <3>3 DEF WorldInv
  <2> QED
    BY <2>9, <2>10, <2>11, <2>12, <2>13, <2>14, <2>15
<1>3. CASE /\ jobState' = [f \in Env |-> IF f \in Refusable({}) THEN "cancelled" ELSE jobState[f]]
           /\ UNCHANGED <<attempt, claim, workerVars>>
  <2>1. \A f \in Env : jobState'[f] # jobState[f] => jobState[f] = "queued" /\ jobState'[f] = "cancelled"
    BY <1>3 DEF Refusable
  <2>2. \A s \in Token : HoldsClaim(s)' <=> HoldsClaim(s)
    BY <1>3, <2>1 DEF TypeOK
  <2>3. TypeOK'
    BY <1>1, <1>3 DEF TypeOK, JobState
  <2>4. LeaseInv'
    BY <1>1, <1>3 DEF LeaseInv
  <2>5. ClaimInv'
    BY <1>1, <1>3, <2>2 DEF ClaimInv
  <2>6. FreshInv'
    BY <1>1, <1>3 DEF FreshInv, Untouched
  <2>7. ReceiptInv'
    BY <1>1, <1>3 DEF ReceiptInv
  <2>8. StageInv'
    BY <1>1 DEF StageInv
  <2>9. WorldInv'
    <3>1. \A s \in Token : PastPreflight(s)' <=> PastPreflight(s)
      BY <1>1
    <3> HIDE DEF PastPreflight
    <3> QED
      BY <1>1, <2>1, <2>2, <3>1 DEF WorldInv
  <2> QED
    BY <2>3, <2>4, <2>5, <2>6, <2>7, <2>8, <2>9
<1> QED
  BY <1>2, <1>3 DEF claimProvision

LEMMA spawnWorkerEffectInv ==
  ASSUME IInv, NEW w \in Worker, spawnWorkerEffect(w)
  PROVE  IInv'
<1> USE TokenFacts DEF IInv, spawnWorkerEffect, WorkerGoes, WorkerExits,
       HoldsClaim, Live, Busy, Recorded, PastPreflight, GuardianLive, NativeLive, Mutating,
       Outcome, catalogVars, fileVars, workerVars, effectVars
<1>1. TypeOK'
  BY DEF TypeOK, JobState, Failure
<1>2. LeaseInv'
  BY DEF TypeOK, LeaseInv
<1>3. ClaimInv'
  BY DEF TypeOK, ClaimInv, LeaseInv, FreshInv, Untouched
<1>4. FreshInv'
  BY DEF TypeOK, LeaseInv, ClaimInv, FreshInv, Untouched
<1>5. ReceiptInv'
  BY DEF TypeOK, LeaseInv, ClaimInv, FreshInv, Untouched, ReceiptInv, StageInv
<1>6. StageInv'
  BY DEF TypeOK, FreshInv, Untouched, ReceiptInv, StageInv
<1>7. WorldInv'
  BY DEF TypeOK, LeaseInv, ClaimInv, FreshInv, Untouched, ReceiptInv, StageInv, WorldInv
<1> QED
  BY <1>1, <1>2, <1>3, <1>4, <1>5, <1>6, <1>7

LEMMA SettleEffectInv ==
  ASSUME IInv, NEW w \in Worker, SettleEffect(w)
  PROVE  IInv'
<1> USE TokenFacts DEF IInv, SettleEffect, WorkerGoes, WorkerExits, Commit, MayApply, MayRecover, applyProvisionReceipt, recoverPreflightReceipt, finishProvision, Verdict,
       HoldsClaim, Live, Busy, Recorded, PastPreflight, GuardianLive, NativeLive, Mutating,
       Outcome, catalogVars, fileVars, workerVars, effectVars
<1>1. TypeOK'
  <2>1. wpc' \in [Worker -> {"down", "startup", "startup_consume", "recover", "loop", "spawn", "wait", "consume"}]
    <3>1. \E pc \in {"loop", "consume", "down"} : wpc' = [wpc EXCEPT ![w] = pc]
      OBVIOUS
    <3> QED BY <3>1 DEF TypeOK
  <2>2. wtoken' \in [Worker -> Token \cup {NoToken}]
    BY DEF TypeOK
  <2>3. CatalogType'
    <3>1. CASE UNCHANGED catalogVars
      BY <3>1 DEF TypeOK, CatalogType
    <3>2. CASE Commit(w, Verdict(FALSE), "consume")
      <4> HIDE DEF Commit
      <4> QED BY <3>2, CommitCatalog, TokenOfVerdict
    <3>3. CASE finishProvision(wtoken[w], FALSE, "runtime_failed") /\ UNCHANGED <<results, decisions>>
      BY <3>3, BoundAssumption DEF TypeOK, CatalogType, JobState, Failure, ClaimInv
    <3> QED BY <3>1, <3>2, <3>3
  <2> QED
    BY <2>1, <2>2, <2>3 DEF TypeOK, CatalogType
<1>2. LeaseInv'
  <2>1. \A v \in Worker : wpc'[v] # "down" => v = w
    BY DEF TypeOK, LeaseInv
  <2>2. wpc'[w] \in {"loop", "consume"} => \A s \in Token : ~ Live(s)
    BY DEF TypeOK, LeaseInv, ReceiptInv
  <2> QED
    BY <2>1, <2>2 DEF TypeOK, LeaseInv
<1>3. ClaimInv'
  <2>1. \A s \in Token : Live(s) => UNCHANGED catalogVars
    BY DEF TypeOK, LeaseInv, ReceiptInv
  <2>2. \A v \in Worker : wpc'[v] \notin {"spawn", "wait"}
    BY DEF TypeOK, LeaseInv
  <2>3. \A s \in Token : HoldsClaim(s)' => ~ Recorded(s)'
    <3>1. \A s \in Token : HoldsClaim(s)' => HoldsClaim(s)
      BY TokenOfVerdict DEF TypeOK, ClaimInv
    <3>2. \A s \in Token : Recorded(s)' /\ ~ Recorded(s) => s = receipt.token /\ jobState'[EnvOf(s)] # "running"
      BY TokenOfVerdict DEF TypeOK, ClaimInv
    <3> QED
      BY <3>1, <3>2 DEF ClaimInv
  <2> QED
    BY <2>1, <2>2, <2>3 DEF ClaimInv
<1>4. FreshInv'
  <2>1. \A v \in Worker : wpc'[v] # "spawn"
    <3>1. wpc[w] = "wait" /\ \E pc \in {"loop", "consume", "down"} : wpc' = [wpc EXCEPT ![w] = pc]
      OBVIOUS
    <3>2. \A v \in Worker : v # w => wpc[v] = "down"
      BY <3>1 DEF LeaseInv
    <3> HIDE DEF SettleEffect, IInv
    <3> QED
      BY <3>1, <3>2
  <2>2. \A s \in Token : Recorded(s)' => Recorded(s) \/ s = receipt.token
    BY TokenOfVerdict DEF TypeOK
  <2>3. UNCHANGED <<attempt, receipt, stage, witness, guardian, native>>
    OBVIOUS
  <2> HIDE DEF SettleEffect, Recorded
  <2> QED
    BY <2>1, <2>2, <2>3 DEF FreshInv, Untouched
<1>5. ReceiptInv'
  BY DEF TypeOK, LeaseInv, ClaimInv, FreshInv, Untouched, ReceiptInv, StageInv
<1>6. StageInv'
  BY DEF TypeOK, FreshInv, Untouched, ReceiptInv, StageInv
<1>7. WorldInv'
  BY DEF TypeOK, LeaseInv, ClaimInv, FreshInv, Untouched, ReceiptInv, StageInv, WorldInv
<1> QED
  BY <1>1, <1>2, <1>3, <1>4, <1>5, <1>6, <1>7

LEMMA WorkerCrashInv ==
  ASSUME IInv, NEW w \in Worker, WorkerCrash(w)
  PROVE  IInv'
<1> USE TokenFacts DEF IInv, WorkerCrash, WorkerGoes, WorkerExits,
       HoldsClaim, Live, Busy, Recorded, PastPreflight, GuardianLive, NativeLive, Mutating,
       Outcome, catalogVars, fileVars, workerVars, effectVars
<1>1. TypeOK'
  BY DEF TypeOK, JobState, Failure
<1>2. LeaseInv'
  BY DEF TypeOK, LeaseInv
<1>3. ClaimInv'
  BY DEF TypeOK, ClaimInv, LeaseInv, FreshInv, Untouched
<1>4. FreshInv'
  BY DEF TypeOK, LeaseInv, ClaimInv, FreshInv, Untouched
<1>5. ReceiptInv'
  BY DEF TypeOK, LeaseInv, ClaimInv, FreshInv, Untouched, ReceiptInv, StageInv
<1>6. StageInv'
  BY DEF TypeOK, FreshInv, Untouched, ReceiptInv, StageInv
<1>7. WorldInv'
  BY DEF TypeOK, LeaseInv, ClaimInv, FreshInv, Untouched, ReceiptInv, StageInv, WorldInv
<1> QED
  BY <1>1, <1>2, <1>3, <1>4, <1>5, <1>6, <1>7

LEMMA GuardianOpenInv ==
  ASSUME IInv, NEW t \in Token, GuardianOpen(t)
  PROVE  IInv'
<1> USE TokenFacts DEF IInv, GuardianOpen, GuardianGoes,
       HoldsClaim, Live, Busy, Recorded, PastPreflight, GuardianLive, NativeLive, Mutating,
       Outcome, catalogVars, fileVars, workerVars, effectVars
<1>1. TypeOK'
  <2>1. receipt' = receipt \/ receipt' = [phase |-> "partial", token |-> t, exit |-> "none"]
    OBVIOUS
  <2>2. guardian' = [guardian EXCEPT ![t] = "opened"] \/ guardian' = [guardian EXCEPT ![t] = "dead"]
    OBVIOUS
  <2>3. guardian' \in [Token -> {"none", "dead"} \cup GuardianLive]
    BY <2>2 DEF TypeOK
  <2> QED
    BY <2>1, <2>3 DEF TypeOK
<1>2. LeaseInv'
  BY DEF TypeOK, LeaseInv
<1>3. ClaimInv'
  BY DEF TypeOK, ClaimInv, LeaseInv, FreshInv, Untouched
<1>4. FreshInv'
  BY DEF TypeOK, LeaseInv, ClaimInv, FreshInv, Untouched
<1>5. ReceiptInv'
  <2>1. receipt.phase = "absent"
    BY DEF ReceiptInv
  <2>2. receipt' = [phase |-> "partial", token |-> t, exit |-> "none"]
    BY <2>1
  <2>3. guardian' = [guardian EXCEPT ![t] = "opened"]
    BY <2>1
  <2>4. \A s \in Token : Live(s) => s = t
    BY DEF LeaseInv
  <2>5. \A w \in Worker : wpc[w] \notin {"recover", "loop", "spawn", "startup_consume", "consume"}
    BY DEF LeaseInv
  <2>6. HoldsClaim(t) /\ native[t] = "none"
    BY DEF ClaimInv, StageInv
  <2> QED
    BY <2>2, <2>3, <2>4, <2>5, <2>6 DEF TypeOK, ReceiptInv
<1>6. StageInv'
  BY DEF TypeOK, FreshInv, Untouched, ReceiptInv, StageInv
<1>7. WorldInv'
  BY DEF TypeOK, LeaseInv, ClaimInv, FreshInv, Untouched, ReceiptInv, StageInv, WorldInv
<1> QED
  BY <1>1, <1>2, <1>3, <1>4, <1>5, <1>6, <1>7

LEMMA GuardianPublishInv ==
  ASSUME IInv, NEW t \in Token, GuardianPublish(t)
  PROVE  IInv'
<1> USE TokenFacts DEF IInv, GuardianPublish, GuardianGoes,
       HoldsClaim, Live, Busy, Recorded, PastPreflight, GuardianLive, NativeLive, Mutating,
       Outcome, catalogVars, fileVars, workerVars, effectVars
<1>1. TypeOK'
  BY DEF TypeOK, JobState, Failure
<1>2. LeaseInv'
  BY DEF TypeOK, LeaseInv
<1>3. ClaimInv'
  BY DEF TypeOK, ClaimInv, LeaseInv, FreshInv, Untouched
<1>4. FreshInv'
  BY DEF TypeOK, LeaseInv, ClaimInv, FreshInv, Untouched
<1>5. ReceiptInv'
  BY DEF TypeOK, LeaseInv, ClaimInv, FreshInv, Untouched, ReceiptInv, StageInv
<1>6. StageInv'
  BY DEF TypeOK, FreshInv, Untouched, ReceiptInv, StageInv
<1>7. WorldInv'
  BY DEF TypeOK, LeaseInv, ClaimInv, FreshInv, Untouched, ReceiptInv, StageInv, WorldInv
<1> QED
  BY <1>1, <1>2, <1>3, <1>4, <1>5, <1>6, <1>7

LEMMA GuardianLaunchInv ==
  ASSUME IInv, NEW t \in Token, GuardianLaunch(t)
  PROVE  IInv'
<1> USE TokenFacts DEF IInv, GuardianLaunch, GuardianGoes,
       HoldsClaim, Live, Busy, Recorded, PastPreflight, GuardianLive, NativeLive, Mutating,
       Outcome, catalogVars, fileVars, workerVars, effectVars
<1>1. TypeOK'
  BY DEF TypeOK, JobState, Failure
<1>2. LeaseInv'
  BY DEF TypeOK, LeaseInv
<1>3. ClaimInv'
  BY DEF TypeOK, ClaimInv, LeaseInv, FreshInv, Untouched
<1>4. FreshInv'
  BY DEF TypeOK, LeaseInv, ClaimInv, FreshInv, Untouched
<1>5. ReceiptInv'
  BY DEF TypeOK, LeaseInv, ClaimInv, FreshInv, Untouched, ReceiptInv, StageInv
<1>6. StageInv'
  BY DEF TypeOK, FreshInv, Untouched, ReceiptInv, StageInv
<1>7. WorldInv'
  BY DEF TypeOK, LeaseInv, ClaimInv, FreshInv, Untouched, ReceiptInv, StageInv, WorldInv
<1> QED
  BY <1>1, <1>2, <1>3, <1>4, <1>5, <1>6, <1>7

LEMMA GuardianInterruptInv ==
  ASSUME IInv, NEW t \in Token, GuardianInterrupt(t)
  PROVE  IInv'
<1> USE TokenFacts DEF IInv, GuardianInterrupt, GuardianGoes,
       HoldsClaim, Live, Busy, Recorded, PastPreflight, GuardianLive, NativeLive, Mutating,
       Outcome, catalogVars, fileVars, workerVars, effectVars
<1>1. TypeOK'
  BY DEF TypeOK, JobState, Failure
<1>2. LeaseInv'
  BY DEF TypeOK, LeaseInv
<1>3. ClaimInv'
  BY DEF TypeOK, ClaimInv, LeaseInv, FreshInv, Untouched
<1>4. FreshInv'
  BY DEF TypeOK, LeaseInv, ClaimInv, FreshInv, Untouched
<1>5. ReceiptInv'
  BY DEF TypeOK, LeaseInv, ClaimInv, FreshInv, Untouched, ReceiptInv, StageInv
<1>6. StageInv'
  BY DEF TypeOK, FreshInv, Untouched, ReceiptInv, StageInv
<1>7. WorldInv'
  BY DEF TypeOK, LeaseInv, ClaimInv, FreshInv, Untouched, ReceiptInv, StageInv, WorldInv
<1> QED
  BY <1>1, <1>2, <1>3, <1>4, <1>5, <1>6, <1>7

LEMMA GuardianCleanupInv ==
  ASSUME IInv, NEW t \in Token, GuardianCleanup(t)
  PROVE  IInv'
<1> USE TokenFacts DEF IInv, GuardianCleanup, GuardianGoes,
       HoldsClaim, Live, Busy, Recorded, PastPreflight, GuardianLive, NativeLive, Mutating,
       Outcome, catalogVars, fileVars, workerVars, effectVars
<1>1. TypeOK'
  BY DEF TypeOK, JobState, Failure
<1>2. LeaseInv'
  BY DEF TypeOK, LeaseInv
<1>3. ClaimInv'
  BY DEF TypeOK, ClaimInv, LeaseInv, FreshInv, Untouched
<1>4. FreshInv'
  BY DEF TypeOK, LeaseInv, ClaimInv, FreshInv, Untouched
<1>5. ReceiptInv'
  BY DEF TypeOK, LeaseInv, ClaimInv, FreshInv, Untouched, ReceiptInv, StageInv
<1>6. StageInv'
  BY DEF TypeOK, FreshInv, Untouched, ReceiptInv, StageInv
<1>7. WorldInv'
  BY DEF TypeOK, LeaseInv, ClaimInv, FreshInv, Untouched, ReceiptInv, StageInv, WorldInv
<1> QED
  BY <1>1, <1>2, <1>3, <1>4, <1>5, <1>6, <1>7

LEMMA GuardianReapInv ==
  ASSUME IInv, NEW t \in Token, GuardianReap(t)
  PROVE  IInv'
<1> USE TokenFacts DEF IInv, GuardianReap, GuardianGoes,
       HoldsClaim, Live, Busy, Recorded, PastPreflight, GuardianLive, NativeLive, Mutating,
       Outcome, catalogVars, fileVars, workerVars, effectVars
<1>1. TypeOK'
  BY DEF TypeOK, JobState, Failure
<1>2. LeaseInv'
  BY DEF TypeOK, LeaseInv
<1>3. ClaimInv'
  BY DEF TypeOK, ClaimInv, LeaseInv, FreshInv, Untouched
<1>4. FreshInv'
  BY DEF TypeOK, LeaseInv, ClaimInv, FreshInv, Untouched
<1>5. ReceiptInv'
  BY DEF TypeOK, LeaseInv, ClaimInv, FreshInv, Untouched, ReceiptInv, StageInv
<1>6. StageInv'
  BY DEF TypeOK, FreshInv, Untouched, ReceiptInv, StageInv
<1>7. WorldInv'
  BY DEF TypeOK, LeaseInv, ClaimInv, FreshInv, Untouched, ReceiptInv, StageInv, WorldInv
<1> QED
  BY <1>1, <1>2, <1>3, <1>4, <1>5, <1>6, <1>7

LEMMA GuardianCompleteInv ==
  ASSUME IInv, NEW t \in Token, GuardianComplete(t)
  PROVE  IInv'
<1> USE TokenFacts DEF IInv, GuardianComplete, GuardianGoes,
       HoldsClaim, Live, Busy, Recorded, PastPreflight, GuardianLive, NativeLive, Mutating,
       Outcome, catalogVars, fileVars, workerVars, effectVars
<1>1. TypeOK'
  BY DEF TypeOK, JobState, Failure
<1>2. LeaseInv'
  BY DEF TypeOK, LeaseInv
<1>3. ClaimInv'
  BY DEF TypeOK, ClaimInv, LeaseInv, FreshInv, Untouched
<1>4. FreshInv'
  BY DEF TypeOK, LeaseInv, ClaimInv, FreshInv, Untouched
<1>5. ReceiptInv'
  BY DEF TypeOK, LeaseInv, ClaimInv, FreshInv, Untouched, ReceiptInv, StageInv
<1>6. StageInv'
  BY DEF TypeOK, FreshInv, Untouched, ReceiptInv, StageInv
<1>7. WorldInv'
  BY DEF TypeOK, LeaseInv, ClaimInv, FreshInv, Untouched, ReceiptInv, StageInv, WorldInv
<1> QED
  BY <1>1, <1>2, <1>3, <1>4, <1>5, <1>6, <1>7

LEMMA GuardianDieInv ==
  ASSUME IInv, NEW t \in Token, GuardianDie(t)
  PROVE  IInv'
<1> USE TokenFacts DEF IInv, GuardianDie, GuardianGoes,
       HoldsClaim, Live, Busy, Recorded, PastPreflight, GuardianLive, NativeLive, Mutating,
       Outcome, catalogVars, fileVars, workerVars, effectVars
<1>1. TypeOK'
  BY DEF TypeOK, JobState, Failure
<1>2. LeaseInv'
  BY DEF TypeOK, LeaseInv
<1>3. ClaimInv'
  BY DEF TypeOK, ClaimInv, LeaseInv, FreshInv, Untouched
<1>4. FreshInv'
  BY DEF TypeOK, LeaseInv, ClaimInv, FreshInv, Untouched
<1>5. ReceiptInv'
  BY DEF TypeOK, LeaseInv, ClaimInv, FreshInv, Untouched, ReceiptInv, StageInv
<1>6. StageInv'
  BY DEF TypeOK, FreshInv, Untouched, ReceiptInv, StageInv
<1>7. WorldInv'
  BY DEF TypeOK, LeaseInv, ClaimInv, FreshInv, Untouched, ReceiptInv, StageInv, WorldInv
<1> QED
  BY <1>1, <1>2, <1>3, <1>4, <1>5, <1>6, <1>7

LEMMA NativeOpenStageInv ==
  ASSUME IInv, NEW t \in Token, NativeOpenStage(t)
  PROVE  IInv'
<1> USE TokenFacts DEF IInv, NativeOpenStage, NativeGoes, WriteStage, Permission,
       HoldsClaim, Live, Busy, Recorded, PastPreflight, GuardianLive, NativeLive, Mutating,
       Outcome, catalogVars, fileVars, workerVars, effectVars
<1>1. TypeOK'
  BY DEF TypeOK, JobState, Failure
<1>2. LeaseInv'
  BY DEF TypeOK, LeaseInv
<1>3. ClaimInv'
  BY DEF TypeOK, ClaimInv, LeaseInv, FreshInv, Untouched
<1>4. FreshInv'
  BY DEF TypeOK, LeaseInv, ClaimInv, FreshInv, Untouched
<1>5. ReceiptInv'
  BY DEF TypeOK, LeaseInv, ClaimInv, FreshInv, Untouched, ReceiptInv, StageInv
<1>6. StageInv'
  BY DEF TypeOK, FreshInv, Untouched, ReceiptInv, StageInv
<1>7. WorldInv'
  <2>1. \A s \in Token : PastPreflight(s)' <=> PastPreflight(s)
    BY DEF TypeOK, StageInv
  <2> HIDE DEF PastPreflight
  <2>2. \A e \in Env : world'[e] # "absent" => \E s \in Token : EnvOf(s) = e /\ PastPreflight(s)'
    BY <2>1 DEF WorldInv
  <2> QED
    BY <2>1, <2>2 DEF TypeOK, ReceiptInv, StageInv, WorldInv
<1> QED
  BY <1>1, <1>2, <1>3, <1>4, <1>5, <1>6, <1>7

LEMMA NativePreflightInv ==
  ASSUME IInv, NEW t \in Token, NativePreflight(t)
  PROVE  IInv'
<1> USE TokenFacts DEF IInv, NativePreflight, NativeGoes, WriteStage,
       HoldsClaim, Live, Busy, Recorded, PastPreflight, GuardianLive, NativeLive, Mutating,
       Outcome, catalogVars, fileVars, workerVars, effectVars
<1>1. TypeOK'
  BY DEF TypeOK, JobState, Failure
<1>2. LeaseInv'
  BY DEF TypeOK, LeaseInv
<1>3. ClaimInv'
  BY DEF TypeOK, ClaimInv, LeaseInv, FreshInv, Untouched
<1>4. FreshInv'
  BY DEF TypeOK, LeaseInv, ClaimInv, FreshInv, Untouched
<1>5. ReceiptInv'
  BY DEF TypeOK, LeaseInv, ClaimInv, FreshInv, Untouched, ReceiptInv, StageInv
<1>6. StageInv'
  BY DEF TypeOK, FreshInv, Untouched, ReceiptInv, StageInv
<1>7. WorldInv'
  <2>1. \A s \in Token : PastPreflight(s)' <=> PastPreflight(s)
    BY DEF TypeOK, StageInv
  <2> HIDE DEF PastPreflight
  <2>2. \A e \in Env : world'[e] # "absent" => \E s \in Token : EnvOf(s) = e /\ PastPreflight(s)'
    BY <2>1 DEF WorldInv
  <2> QED
    BY <2>1, <2>2 DEF TypeOK, ReceiptInv, StageInv, WorldInv
<1> QED
  BY <1>1, <1>2, <1>3, <1>4, <1>5, <1>6, <1>7

LEMMA NativeRefuseInv ==
  ASSUME IInv, NEW t \in Token, NativeRefuse(t)
  PROVE  IInv'
<1> USE TokenFacts DEF IInv, NativeRefuse, NativeGoes,
       HoldsClaim, Live, Busy, Recorded, PastPreflight, GuardianLive, NativeLive, Mutating,
       Outcome, catalogVars, fileVars, workerVars, effectVars
<1>1. TypeOK'
  BY DEF TypeOK, JobState, Failure
<1>2. LeaseInv'
  BY DEF TypeOK, LeaseInv
<1>3. ClaimInv'
  BY DEF TypeOK, ClaimInv, LeaseInv, FreshInv, Untouched
<1>4. FreshInv'
  BY DEF TypeOK, LeaseInv, ClaimInv, FreshInv, Untouched
<1>5. ReceiptInv'
  BY DEF TypeOK, LeaseInv, ClaimInv, FreshInv, Untouched, ReceiptInv, StageInv
<1>6. StageInv'
  BY DEF TypeOK, FreshInv, Untouched, ReceiptInv, StageInv
<1>7. WorldInv'
  BY DEF TypeOK, LeaseInv, ClaimInv, FreshInv, Untouched, ReceiptInv, StageInv, WorldInv
<1> QED
  BY <1>1, <1>2, <1>3, <1>4, <1>5, <1>6, <1>7

LEMMA NativeClearInv ==
  ASSUME IInv, NEW t \in Token, NativeClear(t)
  PROVE  IInv'
<1> USE TokenFacts DEF IInv, NativeClear, NativeGoes, Permission,
       HoldsClaim, Live, Busy, Recorded, PastPreflight, GuardianLive, NativeLive, Mutating,
       Outcome, catalogVars, fileVars, workerVars, effectVars
<1>1. TypeOK'
  BY DEF TypeOK, JobState, Failure
<1>2. LeaseInv'
  BY DEF TypeOK, LeaseInv
<1>3. ClaimInv'
  BY DEF TypeOK, ClaimInv, LeaseInv, FreshInv, Untouched
<1>4. FreshInv'
  BY DEF TypeOK, LeaseInv, ClaimInv, FreshInv, Untouched
<1>5. ReceiptInv'
  BY DEF TypeOK, LeaseInv, ClaimInv, FreshInv, Untouched, ReceiptInv, StageInv
<1>6. StageInv'
  BY DEF TypeOK, FreshInv, Untouched, ReceiptInv, StageInv
<1>7. WorldInv'
  BY DEF TypeOK, LeaseInv, ClaimInv, FreshInv, Untouched, ReceiptInv, StageInv, WorldInv
<1> QED
  BY <1>1, <1>2, <1>3, <1>4, <1>5, <1>6, <1>7

LEMMA NativeMarkInv ==
  ASSUME IInv, NEW t \in Token, NativeMark(t)
  PROVE  IInv'
<1> USE TokenFacts DEF IInv, NativeMark, NativeGoes, WriteStage,
       HoldsClaim, Live, Busy, Recorded, PastPreflight, GuardianLive, NativeLive, Mutating,
       Outcome, catalogVars, fileVars, workerVars, effectVars
<1>1. TypeOK'
  BY DEF TypeOK, JobState, Failure
<1>2. LeaseInv'
  BY DEF TypeOK, LeaseInv
<1>3. ClaimInv'
  BY DEF TypeOK, ClaimInv, LeaseInv, FreshInv, Untouched
<1>4. FreshInv'
  BY DEF TypeOK, LeaseInv, ClaimInv, FreshInv, Untouched
<1>5. ReceiptInv'
  BY DEF TypeOK, LeaseInv, ClaimInv, FreshInv, Untouched, ReceiptInv, StageInv
<1>6. StageInv'
  BY DEF TypeOK, FreshInv, Untouched, ReceiptInv, StageInv
<1>7. WorldInv'
  <2>1. HoldsClaim(t) /\ ~ Recorded(t) /\ receipt.phase = "pending" /\ receipt.token = t
    BY DEF ClaimInv, ReceiptInv
  <2>2. \A s \in Token : PastPreflight(s) => EnvOf(s) # EnvOf(t)
    BY <2>1 DEF WorldInv, StageInv
  <2>3. \A s \in Token : PastPreflight(s)' <=> PastPreflight(s) \/ s = t
    BY DEF TypeOK
  <2>4. world[EnvOf(t)] = "absent"
    BY <2>2 DEF TypeOK, WorldInv
  <2>5. \A e \in Env : world'[e] # "absent" => \E s \in Token : EnvOf(s) = e /\ PastPreflight(s)'
    <3> HIDE DEF PastPreflight
    <3> QED BY <2>3 DEF WorldInv
  <2> QED
    BY <2>1, <2>2, <2>3, <2>4, <2>5 DEF TypeOK, StageInv, WorldInv
<1> QED
  BY <1>1, <1>2, <1>3, <1>4, <1>5, <1>6, <1>7

LEMMA NativeMutateInv ==
  ASSUME IInv, NEW t \in Token, NativeMutate(t)
  PROVE  IInv'
<1> USE TokenFacts DEF IInv, NativeMutate,
       HoldsClaim, Live, Busy, Recorded, PastPreflight, GuardianLive, NativeLive, Mutating,
       Outcome, catalogVars, fileVars, workerVars, effectVars
<1>1. TypeOK'
  BY DEF TypeOK, JobState, Failure
<1>2. LeaseInv'
  BY DEF TypeOK, LeaseInv
<1>3. ClaimInv'
  BY DEF TypeOK, ClaimInv, LeaseInv, FreshInv, Untouched
<1>4. FreshInv'
  BY DEF TypeOK, LeaseInv, ClaimInv, FreshInv, Untouched
<1>5. ReceiptInv'
  BY DEF TypeOK, LeaseInv, ClaimInv, FreshInv, Untouched, ReceiptInv, StageInv
<1>6. StageInv'
  BY DEF TypeOK, FreshInv, Untouched, ReceiptInv, StageInv
<1>7. WorldInv'
  BY DEF TypeOK, LeaseInv, ClaimInv, FreshInv, Untouched, ReceiptInv, StageInv, WorldInv
<1> QED
  BY <1>1, <1>2, <1>3, <1>4, <1>5, <1>6, <1>7

LEMMA NativeAdvanceInv ==
  ASSUME IInv, NEW t \in Token, NativeAdvance(t)
  PROVE  IInv'
<1> USE TokenFacts DEF IInv, NativeAdvance, NativeGoes, WriteStage, NextStage, Permission,
       HoldsClaim, Live, Busy, Recorded, PastPreflight, GuardianLive, NativeLive, Mutating,
       Outcome, catalogVars, fileVars, workerVars, effectVars
<1>1. TypeOK'
  BY DEF TypeOK, JobState, Failure
<1>2. LeaseInv'
  BY DEF TypeOK, LeaseInv
<1>3. ClaimInv'
  BY DEF TypeOK, ClaimInv, LeaseInv, FreshInv, Untouched
<1>4. FreshInv'
  BY DEF TypeOK, LeaseInv, ClaimInv, FreshInv, Untouched
<1>5. ReceiptInv'
  BY DEF TypeOK, LeaseInv, ClaimInv, FreshInv, Untouched, ReceiptInv, StageInv
<1>6. StageInv'
  BY DEF TypeOK, FreshInv, Untouched, ReceiptInv, StageInv
<1>7. WorldInv'
  BY DEF TypeOK, LeaseInv, ClaimInv, FreshInv, Untouched, ReceiptInv, StageInv, WorldInv
<1> QED
  BY <1>1, <1>2, <1>3, <1>4, <1>5, <1>6, <1>7

LEMMA NativePublishInv ==
  ASSUME IInv, NEW t \in Token, NativePublish(t)
  PROVE  IInv'
<1> USE TokenFacts DEF IInv, NativePublish, NativeGoes,
       HoldsClaim, Live, Busy, Recorded, PastPreflight, GuardianLive, NativeLive, Mutating,
       Outcome, catalogVars, fileVars, workerVars, effectVars
<1>1. TypeOK'
  BY DEF TypeOK, JobState, Failure
<1>2. LeaseInv'
  BY DEF TypeOK, LeaseInv
<1>3. ClaimInv'
  BY DEF TypeOK, ClaimInv, LeaseInv, FreshInv, Untouched
<1>4. FreshInv'
  BY DEF TypeOK, LeaseInv, ClaimInv, FreshInv, Untouched
<1>5. ReceiptInv'
  BY DEF TypeOK, LeaseInv, ClaimInv, FreshInv, Untouched, ReceiptInv, StageInv
<1>6. StageInv'
  BY DEF TypeOK, FreshInv, Untouched, ReceiptInv, StageInv
<1>7. WorldInv'
  BY DEF TypeOK, LeaseInv, ClaimInv, FreshInv, Untouched, ReceiptInv, StageInv, WorldInv
<1> QED
  BY <1>1, <1>2, <1>3, <1>4, <1>5, <1>6, <1>7

LEMMA NativeOpenWitnessInv ==
  ASSUME IInv, NEW t \in Token, NativeOpenWitness(t)
  PROVE  IInv'
<1> USE TokenFacts DEF IInv, NativeOpenWitness, NativeGoes, WriteWitness, Permission,
       HoldsClaim, Live, Busy, Recorded, PastPreflight, GuardianLive, NativeLive, Mutating,
       Outcome, catalogVars, fileVars, workerVars, effectVars
<1>1. TypeOK'
  <2>1. native' = [native EXCEPT ![t] = "writing_refused"] \/ native' = [native EXCEPT ![t] = "writing_ok"]
    OBVIOUS
  <2>2. native' \in [Token -> {"none", "dead", "exit_ok", "exit_refused"} \cup NativeLive]
    BY <2>1 DEF TypeOK
  <2>3. witness' \in [Token -> {"none", "partial"} \cup Outcome]
    BY DEF TypeOK
  <2> QED
    BY <2>2, <2>3 DEF TypeOK
<1>2. LeaseInv'
  BY DEF TypeOK, LeaseInv
<1>3. ClaimInv'
  BY DEF TypeOK, ClaimInv, LeaseInv, FreshInv, Untouched
<1>4. FreshInv'
  BY DEF TypeOK, LeaseInv, ClaimInv, FreshInv, Untouched
<1>5. ReceiptInv'
  BY DEF TypeOK, LeaseInv, ClaimInv, FreshInv, Untouched, ReceiptInv, StageInv
<1>6. StageInv'
  BY DEF TypeOK, FreshInv, Untouched, ReceiptInv, StageInv
<1>7. WorldInv'
  BY DEF TypeOK, LeaseInv, ClaimInv, FreshInv, Untouched, ReceiptInv, StageInv, WorldInv
<1> QED
  BY <1>1, <1>2, <1>3, <1>4, <1>5, <1>6, <1>7

LEMMA NativeWitnessInv ==
  ASSUME IInv, NEW t \in Token, NativeWitness(t)
  PROVE  IInv'
<1> USE TokenFacts DEF IInv, NativeWitness, NativeGoes, WriteWitness,
       HoldsClaim, Live, Busy, Recorded, PastPreflight, GuardianLive, NativeLive, Mutating,
       Outcome, catalogVars, fileVars, workerVars, effectVars
<1>1. TypeOK'
  <2>1. \E pc \in {"exit_refused", "exit_ok"} : native' = [native EXCEPT ![t] = pc]
    OBVIOUS
  <2>2. \E v \in Outcome : witness' = [witness EXCEPT ![t] = v]
    OBVIOUS
  <2>3. UNCHANGED <<receipt, stage, guardian, world, catalogVars, workerVars>>
    OBVIOUS
  <2> HIDE DEF NativeWitness
  <2>4. native' \in [Token -> {"none", "dead", "exit_ok", "exit_refused"} \cup NativeLive]
    BY <2>1 DEF TypeOK
  <2>5. witness' \in [Token -> {"none", "partial"} \cup Outcome]
    BY <2>2 DEF TypeOK
  <2> QED
    BY <2>3, <2>4, <2>5 DEF TypeOK
<1>2. LeaseInv'
  BY DEF TypeOK, LeaseInv
<1>3. ClaimInv'
  BY DEF TypeOK, ClaimInv, LeaseInv, FreshInv, Untouched
<1>4. FreshInv'
  BY DEF TypeOK, LeaseInv, ClaimInv, FreshInv, Untouched
<1>5. ReceiptInv'
  BY DEF TypeOK, LeaseInv, ClaimInv, FreshInv, Untouched, ReceiptInv, StageInv
<1>6. StageInv'
  BY DEF TypeOK, FreshInv, Untouched, ReceiptInv, StageInv
<1>7. WorldInv'
  BY DEF TypeOK, LeaseInv, ClaimInv, FreshInv, Untouched, ReceiptInv, StageInv, WorldInv
<1> QED
  BY <1>1, <1>2, <1>3, <1>4, <1>5, <1>6, <1>7

LEMMA NativeFailInv ==
  ASSUME IInv, NEW t \in Token, NativeFail(t)
  PROVE  IInv'
<1> USE TokenFacts DEF IInv, NativeFail, NativeGoes,
       HoldsClaim, Live, Busy, Recorded, PastPreflight, GuardianLive, NativeLive, Mutating,
       Outcome, catalogVars, fileVars, workerVars, effectVars
<1>1. TypeOK'
  BY DEF TypeOK, JobState, Failure
<1>2. LeaseInv'
  BY DEF TypeOK, LeaseInv
<1>3. ClaimInv'
  BY DEF TypeOK, ClaimInv, LeaseInv, FreshInv, Untouched
<1>4. FreshInv'
  BY DEF TypeOK, LeaseInv, ClaimInv, FreshInv, Untouched
<1>5. ReceiptInv'
  BY DEF TypeOK, LeaseInv, ClaimInv, FreshInv, Untouched, ReceiptInv, StageInv
<1>6. StageInv'
  BY DEF TypeOK, FreshInv, Untouched, ReceiptInv, StageInv
<1>7. WorldInv'
  BY DEF TypeOK, LeaseInv, ClaimInv, FreshInv, Untouched, ReceiptInv, StageInv, WorldInv
<1> QED
  BY <1>1, <1>2, <1>3, <1>4, <1>5, <1>6, <1>7

-----------------------------------------------------------------------------
(* The invariant over every step, and what follows from it. *)

LEMMA NextIInv == IInv /\ [Next]_vars => IInv'
<1> SUFFICES ASSUME IInv, [Next]_vars PROVE IInv'
  OBVIOUS
<1>1. CASE Request
  BY <1>1, createEnvironmentInv, retryProvisionInv, MembershipChangeInv, transferProjectInv DEF Request
<1>2. ASSUME NEW w \in Worker, WorkerStep(w) PROVE IInv'
  BY <1>2, AcquireInv, StartupSettleInv, ConsumeInv, recoverProvisioningInv, claimProvisionInv,
     spawnWorkerEffectInv, SettleEffectInv DEF WorkerStep
<1>3. ASSUME NEW t \in Token, GuardianStep(t) PROVE IInv'
  BY <1>3, GuardianOpenInv, GuardianPublishInv, GuardianLaunchInv, GuardianCleanupInv,
     GuardianReapInv, GuardianCompleteInv DEF GuardianStep
<1>4. ASSUME NEW t \in Token, NativeStep(t) PROVE IInv'
  BY <1>4, NativeOpenStageInv, NativePreflightInv, NativeRefuseInv, NativeClearInv, NativeMarkInv,
     NativeMutateInv, NativeAdvanceInv, NativePublishInv, NativeOpenWitnessInv, NativeWitnessInv
  DEF NativeStep
<1>5. CASE Fault
  BY <1>5, WorkerCrashInv, GuardianInterruptInv, GuardianDieInv, NativeFailInv DEF Fault
<1>6. CASE UNCHANGED vars
  BY <1>6 DEF vars, catalogVars, fileVars, workerVars, effectVars, IInv, TypeOK, LeaseInv, ClaimInv, FreshInv,
     ReceiptInv, StageInv, WorldInv, Untouched, HoldsClaim, Live, Busy, Recorded, PastPreflight
<1> QED
  BY <1>1, <1>2, <1>3, <1>4, <1>5, <1>6 DEF Next, Step

\* IInv holds throughout, whatever dies between whichever two steps.
THEOREM Inductive == Spec => []IInv
<1>1. Init => IInv
  BY InitIInv
<1>2. IInv /\ [Next]_vars => IInv'
  BY NextIInv
<1> QED
  BY <1>1, <1>2, PTL DEF Spec

\* Every row, file and program counter stays in its domain.
THEOREM TypeCorrect == Spec => []TypeOK
<1>1. IInv => TypeOK
  BY DEF IInv
<1> QED
  BY <1>1, Inductive, PTL

\* The lease serialises effects over any number of worker restarts.
THEOREM EffectsNeverOverlap == Spec => []NoOverlap
<1>1. IInv => NoOverlap
  BY DEF IInv, LeaseInv, NoOverlap
<1> QED
  BY <1>1, Inductive, PTL

\* No request and no restart takes the claim from under a running effect.
THEOREM EffectKeepsClaim == Spec => []LiveEffectHoldsClaim
<1>1. IInv => LiveEffectHoldsClaim
  BY DEF IInv, ClaimInv, LiveEffectHoldsClaim
<1> QED
  BY <1>1, Inductive, PTL

\* An unknown outcome never runs twice: one attempt passes the database marker.
THEOREM OneAllocation == Spec => []AllocatedOnce
<1>1. IInv => AllocatedOnce
  BY DEF IInv, WorldInv, AllocatedOnce
<1> QED
  BY <1>1, Inductive, PTL

\* Whatever may be claimed or retried has changed nothing outside.
THEOREM RetryIsSafe == Spec => []RetryableIsClean
<1>1. IInv => RetryableIsClean
  BY DEF IInv, WorldInv, HoldsClaim, RetryableIsClean
<1> QED
  BY <1>1, Inductive, PTL

\* Success is reported for complete environments only.
THEOREM SuccessIsTrue == Spec => []SucceededIsBuilt
<1>1. IInv => SucceededIsBuilt
  BY DEF IInv, WorldInv, SucceededIsBuilt
<1> QED
  BY <1>1, Inductive, PTL

\* A receipt can always be traced to a running claim or a recorded outcome.
THEOREM ReceiptTraceable == Spec => []ReceiptIsAccountable
<1>1. IInv => ReceiptIsAccountable
  BY DEF IInv, ReceiptInv, ReceiptIsAccountable
<1> QED
  BY <1>1, Inductive, PTL

\* Only consume removes a receipt, and only behind the commit.
THEOREM CommitBeforeConsume == Spec => ConsumedOnlyWhenRecorded
<1>1. IInv /\ [Next]_vars =>
        [receipt.phase # "absent" /\ receipt'.phase = "absent" => Recorded(receipt.token)]_vars
  <2> SUFFICES ASSUME IInv, Next, receipt.phase # "absent", receipt'.phase = "absent"
               PROVE  Recorded(receipt.token)
    OBVIOUS
  <2> USE DEF catalogVars, fileVars, workerVars, effectVars
  <2>1. ASSUME NEW w \in Worker, Consume(w) PROVE Recorded(receipt.token)
    BY <2>1 DEF Consume, IInv, ReceiptInv
  <2>2. CASE Request
    BY <2>2 DEF Request, createEnvironment, retryProvision, MembershipChange, transferProject
  <2>3. ASSUME NEW w \in Worker, WorkerStep(w), ~ Consume(w) PROVE FALSE
    BY <2>3 DEF WorkerStep, Acquire, StartupSettle, recoverProvisioning, claimProvision,
       spawnWorkerEffect, SettleEffect
  <2>4. ASSUME NEW t \in Token, GuardianStep(t) PROVE FALSE
    BY <2>4 DEF GuardianStep, GuardianOpen, GuardianPublish, GuardianLaunch, GuardianCleanup,
       GuardianReap, GuardianComplete
  <2>5. ASSUME NEW t \in Token, NativeStep(t) PROVE FALSE
    BY <2>5 DEF NativeStep, NativeOpenStage, NativePreflight, NativeRefuse, NativeClear, NativeMark,
       NativeMutate, NativeAdvance, NativePublish, NativeOpenWitness, NativeWitness
  <2>6. CASE Fault
    BY <2>6 DEF Fault, WorkerCrash, GuardianInterrupt, GuardianDie, NativeFail
  <2> QED
    BY <2>1, <2>2, <2>3, <2>4, <2>5, <2>6 DEF Next, Step
<1> QED
  BY <1>1, Inductive, PTL DEF Spec, ConsumedOnlyWhenRecorded

-----------------------------------------------------------------------------
(***************************************************************************)
(* The two budgets.  Each counts a set that only a guarded step lets grow, *)
(* by one element.  That the set is finite is part of what is kept: Env    *)
(* need not be.                                                            *)
(***************************************************************************)

LEMMA GrowsWithin ==
  ASSUME NEW S, NEW n \in Nat, IsFiniteSet(S), Cardinality(S) <= n, NEW T,
         T \subseteq S \/ (Cardinality(S) < n /\ \E x : T \subseteq S \cup {x})
  PROVE  IsFiniteSet(T) /\ Cardinality(T) <= n
<1>1. CASE T \subseteq S
  BY <1>1, FS_Subset, FS_CardinalityType
<1>2. ASSUME Cardinality(S) < n, NEW x, T \subseteq S \cup {x}
      PROVE  IsFiniteSet(T) /\ Cardinality(T) <= n
  <2>1. IsFiniteSet(S \cup {x}) /\ Cardinality(S \cup {x}) <= n
    <3>1. Cardinality(S \cup {x}) \in {Cardinality(S), Cardinality(S) + 1} /\ IsFiniteSet(S \cup {x})
      BY FS_AddElement
    <3>2. Cardinality(S) \in Nat
      BY FS_CardinalityType
    <3> QED
      BY <1>2, <3>1, <3>2
  <2> QED
    BY <1>2, <2>1, FS_Subset, FS_CardinalityType
<1> QED
  BY <1>1, <1>2

\* A settlement that changes the row or decides is of an attempt that holds its claim.
LEMMA SettlesAClaim ==
  ASSUME IInv, NEW w, NEW pc, NEW fresh \in BOOLEAN, Commit(w, Verdict(fresh), pc),
         ~ UNCHANGED <<jobState, decisions>>
  PROVE  receipt.token \in Token /\ HoldsClaim(receipt.token)
<1>1. receipt.phase # "absent"
  BY DEF Commit, Verdict, Outcome, catalogVars
<1>2. HoldsClaim(receipt.token)
  BY DEF Commit, MayApply, MayRecover, applyProvisionReceipt, recoverPreflightReceipt, catalogVars
<1> QED
  BY <1>1, <1>2, TokenOfVerdict

\* No step but a creation or a retry, which asked for room, adds to the
\* environments that hold a slot.
LEMMA HeldGrowsByRequests ==
  ASSUME IInv, [Next]_vars
  PROVE  Held' \subseteq Held \/ (HasCapacity /\ \E e \in Env : Held' \subseteq Held \cup {e})
<1> USE DEF catalogVars
<1>1. ASSUME UNCHANGED jobState PROVE Held' \subseteq Held
  BY <1>1 DEF Held
<1>2. ASSUME NEW e \in Env, createEnvironment(e) \/ retryProvision(e)
      PROVE  HasCapacity /\ Held' \subseteq Held \cup {e}
  BY <1>2 DEF createEnvironment, retryProvision, Held, IInv, TypeOK
<1>3. ASSUME NEW p \in Project, transferProject(p) PROVE Held' \subseteq Held
  BY <1>3 DEF transferProject, Held
<1>4. ASSUME NEW w \in Worker, recoverProvisioning(w) \/ claimProvision(w) PROVE Held' \subseteq Held
  BY <1>4 DEF recoverProvisioning, claimProvision, Claimable, Refusable, Held
<1>5. ASSUME NEW t \in Token, NEW v, HoldsClaim(t), jobState' = [jobState EXCEPT ![EnvOf(t)] = v]
      PROVE  Held' \subseteq Held
  BY <1>5 DEF HoldsClaim, Held, IInv, TypeOK
<1>6. ASSUME NEW w \in Worker, StartupSettle(w) \/ SettleEffect(w) PROVE Held' \subseteq Held
  <2>1. ASSUME NEW pc, NEW fresh \in BOOLEAN, Commit(w, Verdict(fresh), pc) PROVE Held' \subseteq Held
    <3>1. UNCHANGED jobState \/ \E s : jobState' = [jobState EXCEPT ![EnvOf(receipt.token)] = s]
      BY <2>1 DEF Commit, applyProvisionReceipt, finishProvision, recoverPreflightReceipt
    <3>2. CASE jobState' # jobState
      <4>1. receipt.token \in Token /\ HoldsClaim(receipt.token)
        BY <2>1, <3>2, SettlesAClaim
      <4> QED
        BY <1>5, <3>1, <3>2, <4>1
    <3> QED
      BY <1>1, <3>2
  <2>2. CASE wpc[w] = "wait" /\ HoldsClaim(wtoken[w]) /\ finishProvision(wtoken[w], FALSE, "runtime_failed")
    BY <1>5, <2>2 DEF finishProvision, IInv, ClaimInv
  <2>3. \/ UNCHANGED jobState
        \/ \E pc : \E fresh \in BOOLEAN : Commit(w, Verdict(fresh), pc)
        \/ wpc[w] = "wait" /\ HoldsClaim(wtoken[w]) /\ finishProvision(wtoken[w], FALSE, "runtime_failed")
    BY <1>6 DEF StartupSettle, SettleEffect
  <2> QED
    BY <1>1, <2>1, <2>2, <2>3
<1>7. \/ UNCHANGED jobState
      \/ \E e \in Env : createEnvironment(e) \/ retryProvision(e)
      \/ \E p \in Project : transferProject(p)
      \/ \E w \in Worker : recoverProvisioning(w) \/ claimProvision(w) \/ StartupSettle(w) \/ SettleEffect(w)
  BY DEF vars, Next, Step, Request, MembershipChange, Fault, WorkerStep, Acquire, Consume, spawnWorkerEffect,
     WorkerCrash, GuardianStep, GuardianOpen, GuardianPublish, GuardianLaunch, GuardianCleanup, GuardianReap,
     GuardianComplete, GuardianInterrupt, GuardianDie, NativeStep, NativeOpenStage, NativePreflight, NativeRefuse,
     NativeClear, NativeMark, NativeMutate, NativeAdvance, NativePublish, NativeOpenWitness, NativeWitness,
     NativeFail
<1> QED
  BY <1>1, <1>2, <1>3, <1>4, <1>6, <1>7

\* The environments that hold or may take a runtime slot never exceed the limit,
\* whatever order creations, retries, cancellations, requeues and settlements take.
THEOREM CapacityHolds == Spec => []CapacityRespected
<1>1. Init => IsFiniteSet(Held) /\ Cardinality(Held) <= EnvironmentLimit
  <2>1. Init => Held = {}
    BY DEF Init, Held
  <2> QED
    BY <2>1, FS_EmptySet, BoundAssumption
<1>2. IInv /\ (IsFiniteSet(Held) /\ Cardinality(Held) <= EnvironmentLimit) /\ [Next]_vars
        => (IsFiniteSet(Held) /\ Cardinality(Held) <= EnvironmentLimit)'
  BY HeldGrowsByRequests, GrowsWithin, BoundAssumption DEF HasCapacity
<1> QED
  BY <1>1, <1>2, Inductive, PTL DEF Spec, CapacityRespected

\* The attempts of an environment that were requeued by a decision.
Requeued(e) == {t \in Token : EnvOf(t) = e /\ decisions[t] = "retry"}
BudgetInv == \A e \in Env : IsFiniteSet(Requeued(e)) /\ Cardinality(Requeued(e)) <= RetryLimit

\* Only recoverPreflightReceipt decides, for an attempt that had no decision and
\* for a requeue only below the limit.
LEMMA DecisionsGrow ==
  ASSUME IInv, [Next]_vars
  PROVE  \/ UNCHANGED decisions
         \/ \E t \in Token, d \in {"retry", "failed"} :
              /\ decisions' = [decisions EXCEPT ![t] = d]
              /\ d = "retry" => RetriesSpent(EnvOf(t)) < RetryLimit
<1> USE DEF catalogVars
<1>1. ASSUME NEW w \in Worker, NEW pc, NEW fresh \in BOOLEAN, Commit(w, Verdict(fresh), pc)
      PROVE  \/ UNCHANGED decisions
             \/ \E t \in Token, d \in {"retry", "failed"} :
                  /\ decisions' = [decisions EXCEPT ![t] = d]
                  /\ d = "retry" => RetriesSpent(EnvOf(t)) < RetryLimit
  <2>1. \/ UNCHANGED decisions
        \/ \E d \in {"retry", "failed"} :
             /\ decisions' = [decisions EXCEPT ![receipt.token] = d]
             /\ d = "retry" => RetriesSpent(EnvOf(receipt.token)) < RetryLimit
    BY <1>1 DEF Commit, applyProvisionReceipt, recoverPreflightReceipt
  <2> QED
    BY <1>1, <2>1, SettlesAClaim
<1>2. \/ UNCHANGED decisions
      \/ \E w \in Worker, fresh \in BOOLEAN : \E pc : Commit(w, Verdict(fresh), pc)
  BY DEF vars, Next, Step, Request, createEnvironment, retryProvision, transferProject, MembershipChange, Fault,
     WorkerStep, Acquire, StartupSettle, Consume, recoverProvisioning, claimProvision, spawnWorkerEffect,
     SettleEffect, WorkerCrash, GuardianStep, GuardianOpen, GuardianPublish, GuardianLaunch, GuardianCleanup,
     GuardianReap, GuardianComplete, GuardianInterrupt, GuardianDie, NativeStep, NativeOpenStage, NativePreflight,
     NativeRefuse, NativeClear, NativeMark, NativeMutate, NativeAdvance, NativePublish, NativeOpenWitness,
     NativeWitness, NativeFail
<1> QED
  BY <1>1, <1>2

\* At most two automatic requeues in an environment's whole life; neither an
\* explicit retry nor a replayed decision gives more.
THEOREM RequeuesAreBounded == Spec => []RequeueBudget
<1>1. Init => BudgetInv
  <2>1. Init => \A e \in Env : Requeued(e) = {}
    BY DEF Init, Requeued
  <2> QED
    BY <2>1, FS_EmptySet DEF BudgetInv, RetryLimit
<1>2. IInv /\ BudgetInv /\ [Next]_vars => BudgetInv'
  <2> SUFFICES ASSUME IInv, BudgetInv, [Next]_vars, NEW e \in Env
               PROVE  IsFiniteSet(Requeued(e)') /\ Cardinality(Requeued(e)') <= RetryLimit
    BY DEF BudgetInv
  <2>1. Requeued(e)' \subseteq Requeued(e)
        \/ (Cardinality(Requeued(e)) < RetryLimit /\ \E t : Requeued(e)' \subseteq Requeued(e) \cup {t})
    <3>1. CASE UNCHANGED decisions
      BY <3>1 DEF Requeued
    <3>2. ASSUME NEW t \in Token, NEW d \in {"retry", "failed"}, decisions' = [decisions EXCEPT ![t] = d],
                 d = "retry" => RetriesSpent(EnvOf(t)) < RetryLimit
          PROVE  Requeued(e)' \subseteq Requeued(e)
                 \/ (Cardinality(Requeued(e)) < RetryLimit /\ \E x : Requeued(e)' \subseteq Requeued(e) \cup {x})
      <4>1. Requeued(e)' \subseteq Requeued(e) \cup {t}
        BY <3>2 DEF Requeued, IInv, TypeOK
      <4>2. EnvOf(t) # e \/ d = "failed" => Requeued(e)' \subseteq Requeued(e)
        BY <3>2 DEF Requeued, IInv, TypeOK
      <4>3. RetriesSpent(e) = Cardinality(Requeued(e))
        BY DEF RetriesSpent, Requeued
      <4> QED
        BY <3>2, <4>1, <4>2, <4>3
    <3> QED
      BY <3>1, <3>2, DecisionsGrow
  <2>2. IsFiniteSet(Requeued(e)) /\ Cardinality(Requeued(e)) <= RetryLimit /\ RetryLimit \in Nat
    BY DEF BudgetInv, RetryLimit
  <2> QED
    BY <2>1, <2>2, GrowsWithin
<1>3. BudgetInv => RequeueBudget
  BY DEF BudgetInv, RequeueBudget, Requeued, RetryLimit
<1> QED
  BY <1>1, <1>2, <1>3, Inductive, PTL DEF Spec

-----------------------------------------------------------------------------
(***************************************************************************)
(* Provisioning implements AllocationLedger.  Five steps of the system are *)
(* seen in the ledger: the database marker commits the builder, the first  *)
(* external change starts it, publication finishes it, and a settlement,   *)
(* at startup or after the effect, announces it.  Everything else, every   *)
(* death included, is a stutter.                                           *)
(***************************************************************************)

\* The variables of the ledger, as Provisioning maps them.
Builder == [e \in Env |-> {t \in Token : EnvOf(t) = e /\ PastPreflight(t)}]
ReadyOf == [e \in Env |-> jobState[e] = "succeeded"]
SamePast == \A t \in Token : PastPreflight(t)' <=> PastPreflight(t)
SameReady == \A e \in Env : (jobState'[e] = "succeeded") <=> (jobState[e] = "succeeded")

LEMMA SameBuilder ==
  ASSUME SamePast
  PROVE  Builder' = Builder
BY DEF SamePast, Builder

LEMMA SameReadyOf ==
  ASSUME SameReady
  PROVE  ReadyOf' = ReadyOf
BY DEF SameReady, ReadyOf

LEMMA Stutter ==
  ASSUME SamePast, SameReady, world' = world
  PROVE  UNCHANGED Ledger!ledgerVars
BY SameBuilder, SameReadyOf DEF Ledger!ledgerVars, Builder, ReadyOf

-----------------------------------------------------------------------------
(* The catalog's steps.  Only a settlement makes a job succeed. *)

LEMMA RequestStutters ==
  ASSUME IInv, Request
  PROVE  UNCHANGED Ledger!ledgerVars
<1>1. UNCHANGED <<fileVars, effectVars>>
  BY DEF Request, createEnvironment, retryProvision, MembershipChange, transferProject
<1>2. SamePast /\ world' = world
  BY <1>1 DEF SamePast, PastPreflight, fileVars, effectVars
<1>3. SameReady
  BY DEF IInv, TypeOK, SameReady, Request, createEnvironment, retryProvision, Retryable,
         MembershipChange, transferProject
<1> QED
  BY <1>2, <1>3, Stutter

\* A commit announces an environment that is complete, or changes nothing the ledger shows.
LEMMA CommitMaps ==
  ASSUME IInv, NEW w \in Worker, NEW pc, NEW fresh \in BOOLEAN,
         receipt.phase # "absent", Commit(w, Verdict(fresh), pc), UNCHANGED <<fileVars, effectVars>>
  PROVE  [Ledger!Next]_Ledger!ledgerVars
<1> DEFINE t == receipt.token  e == EnvOf(t)
<1>1. t \in Token /\ e \in Env
  BY TokenOfVerdict, TokenFacts
<1>2. SamePast /\ world' = world
  BY DEF SamePast, PastPreflight, fileVars, effectVars
<1>3. CASE SameReady
  BY <1>2, <1>3, Stutter
<1>4. CASE ~ SameReady
  <2>1. /\ HoldsClaim(t) /\ Verdict(fresh) = "ok"
        /\ jobState' = [jobState EXCEPT ![e] = "succeeded"]
    <3>1. CASE UNCHANGED catalogVars
      BY <1>4, <3>1 DEF SameReady, catalogVars
    <3>2. CASE \E exit \in Outcome : /\ Verdict(fresh) = exit /\ HoldsClaim(t)
                                     /\ finishProvision(t, exit = "ok", "capacity_exceeded")
      <4>1. PICK exit \in Outcome : /\ Verdict(fresh) = exit /\ HoldsClaim(t)
                                    /\ finishProvision(t, exit = "ok", "capacity_exceeded")
        BY <3>2
      <4>2. exit = "ok"
        BY <1>1, <1>4, <4>1 DEF SameReady, finishProvision, HoldsClaim, IInv, TypeOK
      <4> QED
        BY <4>1, <4>2 DEF finishProvision
    <3>3. CASE HoldsClaim(t) /\ \E s \in {"queued", "failed"} : jobState' = [jobState EXCEPT ![e] = s]
      BY <1>1, <1>4, <3>3 DEF SameReady, HoldsClaim, IInv, TypeOK
    <3>4. CASE \E exit \in Outcome :
                 Verdict(fresh) = exit /\ MayApply(t, exit) /\ applyProvisionReceipt(t, exit)
      BY <3>1, <3>2, <3>4 DEF MayApply, applyProvisionReceipt
    <3>5. CASE MayRecover(t) /\ recoverPreflightReceipt(t)
      BY <3>1, <3>3, <3>5 DEF MayRecover, recoverPreflightReceipt
    <3> QED
      BY <3>1, <3>4, <3>5 DEF Commit
  <2>2. world[e] = "built"
    BY <1>1, <2>1 DEF Verdict, Outcome, IInv, TypeOK, ReceiptInv, WorldInv
  <2>3. ReadyOf' = [ReadyOf EXCEPT ![e] = TRUE] /\ ~ ReadyOf[e]
    BY <1>1, <2>1 DEF ReadyOf, HoldsClaim, IInv, TypeOK
  <2>4. PICK f \in Env : f = e
    BY <1>1
  <2>5. Ledger!Announce(f)
    BY <1>1, <1>2, <2>2, <2>3, <2>4, SameBuilder DEF Ledger!Announce, Builder, ReadyOf
  <2> QED
    BY <2>5 DEF Ledger!Next
<1> QED
  BY <1>3, <1>4

LEMMA StartupSettleMaps ==
  ASSUME IInv, NEW w \in Worker, StartupSettle(w)
  PROVE  [Ledger!Next]_Ledger!ledgerVars
<1>1. UNCHANGED <<fileVars, effectVars>>
  BY DEF StartupSettle
<1>2. CASE UNCHANGED catalogVars
  <2>1. SamePast /\ SameReady /\ world' = world
    BY <1>1, <1>2 DEF SamePast, SameReady, PastPreflight, catalogVars, fileVars, effectVars
  <2> QED
    BY <2>1, Stutter
<1>3. CASE ~ UNCHANGED catalogVars
  <2>1. Commit(w, Verdict(TRUE), "startup_consume")
    BY <1>3 DEF StartupSettle
  <2>2. receipt.phase # "absent"
    BY <1>3, <2>1 DEF Commit, Verdict, Outcome
  <2> QED
    BY <1>1, <2>1, <2>2, CommitMaps
<1> QED
  BY <1>2, <1>3

LEMMA SettleEffectMaps ==
  ASSUME IInv, NEW w \in Worker, SettleEffect(w)
  PROVE  [Ledger!Next]_Ledger!ledgerVars
<1>1. UNCHANGED <<fileVars, effectVars>>
  BY DEF SettleEffect
<1>2. SamePast /\ world' = world
  BY <1>1 DEF SamePast, PastPreflight, fileVars, effectVars
<1>3. wtoken[w] \in Token /\ EnvOf(wtoken[w]) \in Env
  BY TokenFacts DEF SettleEffect, IInv, ClaimInv
<1>4. CASE UNCHANGED catalogVars
  BY <1>2, <1>4, Stutter DEF SameReady, catalogVars
<1>5. CASE HoldsClaim(wtoken[w]) /\ finishProvision(wtoken[w], FALSE, "runtime_failed")
  <2>1. SameReady
    BY <1>3, <1>5 DEF SameReady, finishProvision, HoldsClaim, IInv, TypeOK
  <2> QED
    BY <1>2, <2>1, Stutter
<1>6. CASE ~ UNCHANGED catalogVars /\ Commit(w, Verdict(FALSE), "consume")
  <2>1. receipt.phase # "absent"
    BY <1>6 DEF Commit, Verdict, Outcome
  <2> QED
    BY <1>1, <1>6, <2>1, CommitMaps
<1> QED
  BY <1>4, <1>5, <1>6 DEF SettleEffect

LEMMA WorkerMaps ==
  ASSUME IInv, NEW w \in Worker, WorkerStep(w) \/ WorkerCrash(w)
  PROVE  [Ledger!Next]_Ledger!ledgerVars
<1>1. CASE StartupSettle(w)
  BY <1>1, StartupSettleMaps
<1>2. CASE SettleEffect(w)
  BY <1>2, SettleEffectMaps
<1>3. CASE ~ StartupSettle(w) /\ ~ SettleEffect(w)
  <2>1. SamePast /\ world' = world
    BY <1>3 DEF SamePast, PastPreflight, fileVars, effectVars, WorkerStep, WorkerCrash, Acquire,
                Consume, recoverProvisioning, claimProvision, spawnWorkerEffect
  <2>2. SameReady
    <3>1. CASE claimProvision(w)
      BY <3>1 DEF SameReady, IInv, TypeOK, claimProvision, Claimable, Refusable
    <3>2. CASE recoverProvisioning(w)
      BY <3>2 DEF SameReady, IInv, TypeOK, recoverProvisioning
    <3> QED
      BY <1>3, <3>1, <3>2 DEF SameReady, catalogVars, WorkerStep, WorkerCrash, Acquire, Consume,
                              spawnWorkerEffect
  <2> QED
    BY <2>1, <2>2, Stutter
<1> QED
  BY <1>1, <1>2, <1>3

-----------------------------------------------------------------------------
(* The effect's steps. *)

\* Whatever leaves the stage, the world and the catalog alone is a stutter.
LEMMA GuardianStutters ==
  ASSUME IInv, NEW t \in Token, GuardianStep(t) \/ GuardianInterrupt(t) \/ GuardianDie(t) \/ NativeFail(t)
  PROVE  UNCHANGED Ledger!ledgerVars
<1>1. UNCHANGED <<stage, world, jobState>>
  BY DEF GuardianStep, GuardianInterrupt, GuardianDie, NativeFail, GuardianOpen, GuardianPublish,
         GuardianLaunch, GuardianCleanup, GuardianReap, GuardianComplete, fileVars, catalogVars
<1> QED
  BY <1>1, Stutter DEF SamePast, SameReady, PastPreflight

LEMMA NativeMarkMaps ==
  ASSUME IInv, NEW t \in Token, NativeMark(t)
  PROVE  Ledger!CommitBuilder(EnvOf(t))
<1> DEFINE e == EnvOf(t)
<1>1. e \in Env /\ t \in Token
  BY TokenFacts
<1>2. stage' = [stage EXCEPT ![t] = "database"] /\ UNCHANGED <<world, jobState>>
  BY DEF NativeMark, WriteStage, catalogVars
<1>3. HoldsClaim(t) /\ ~ PastPreflight(t)
  BY DEF NativeMark, IInv, ClaimInv, StageInv, Live, NativeLive, PastPreflight, Mutating
<1>4. \A s \in Token : PastPreflight(s) => EnvOf(s) # e
  BY <1>1, <1>3, TokenFacts DEF IInv, WorldInv, HoldsClaim
<1>5. world[e] = "absent" /\ jobState[e] # "succeeded"
  BY <1>1, <1>3, <1>4 DEF IInv, WorldInv, HoldsClaim, TypeOK
<1>6. \A s \in Token : PastPreflight(s)' <=> PastPreflight(s) \/ s = t
  BY <1>2 DEF PastPreflight, Mutating, IInv, TypeOK
<1>7. Builder[e] = {} /\ Builder' = [Builder EXCEPT ![e] = {t}]
  <2>1. Builder[e] = {}
    BY <1>1, <1>4 DEF Builder
  <2>2. \A f \in Env : Builder'[f] = IF f = e THEN {t} ELSE Builder[f]
    BY <1>1, <1>4, <1>6 DEF Builder
  <2> QED
    BY <1>1, <2>1, <2>2 DEF Builder
<1>8. ReadyOf' = ReadyOf /\ ~ ReadyOf[e]
  BY <1>1, <1>2, <1>5 DEF ReadyOf
<1> QED
  BY <1>1, <1>2, <1>5, <1>7, <1>8 DEF Ledger!CommitBuilder, Builder, ReadyOf

LEMMA NativeMutateMaps ==
  ASSUME IInv, NEW t \in Token, NativeMutate(t)
  PROVE  Ledger!Start(EnvOf(t))
<1> DEFINE e == EnvOf(t)
<1>1. e \in Env
  BY TokenFacts
<1>2. SamePast /\ SameReady
  BY DEF NativeMutate, SamePast, SameReady, PastPreflight, fileVars, catalogVars
<1>3. PastPreflight(t) /\ world[e] = "absent"
  BY <1>1 DEF NativeMutate, IInv, TypeOK, StageInv, WorldInv, PastPreflight
<1>4. Builder[e] # {}
  BY <1>1, <1>3 DEF Builder
<1> QED
  BY <1>1, <1>2, <1>3, <1>4, SameBuilder, SameReadyOf
  DEF NativeMutate, Ledger!Start, Builder, ReadyOf

LEMMA NativePublishMaps ==
  ASSUME IInv, NEW t \in Token, NativePublish(t)
  PROVE  Ledger!Finish(EnvOf(t))
<1>1. SamePast /\ SameReady
  BY DEF NativePublish, SamePast, SameReady, PastPreflight, fileVars, catalogVars
<1> QED
  BY <1>1, SameBuilder, SameReadyOf DEF NativePublish, Ledger!Finish, Builder, ReadyOf

LEMMA NativeMaps ==
  ASSUME IInv, NEW t \in Token, NativeStep(t)
  PROVE  [Ledger!Next]_Ledger!ledgerVars
<1>1. CASE NativeMark(t)
  BY <1>1, NativeMarkMaps, TokenFacts DEF Ledger!Next
<1>2. CASE NativeMutate(t)
  BY <1>2, NativeMutateMaps, TokenFacts DEF Ledger!Next
<1>3. CASE NativePublish(t)
  BY <1>3, NativePublishMaps, TokenFacts DEF Ledger!Next
<1>4. CASE NativeOpenStage(t) \/ NativePreflight(t) \/ NativeAdvance(t)
  <2>1. /\ UNCHANGED <<world, jobState>>
        /\ \E v \in {"partial", "preflight"} \cup Mutating :
             stage' = [stage EXCEPT ![t] = v] /\ (v \in Mutating <=> stage[t] \in Mutating)
    BY <1>4 DEF NativeOpenStage, NativePreflight, NativeAdvance, WriteStage, NextStage, Mutating,
                catalogVars, IInv, StageInv
  <2>2. SamePast /\ SameReady
    BY <2>1 DEF SamePast, SameReady, PastPreflight, IInv, TypeOK
  <2> QED
    BY <2>1, <2>2, Stutter
<1>5. CASE NativeRefuse(t) \/ NativeClear(t) \/ NativeOpenWitness(t) \/ NativeWitness(t)
  <2>1. UNCHANGED <<stage, world, jobState>>
    BY <1>5 DEF NativeRefuse, NativeClear, NativeOpenWitness, NativeWitness, fileVars, catalogVars
  <2> QED
    BY <2>1, Stutter DEF SamePast, SameReady, PastPreflight
<1> QED
  BY <1>1, <1>2, <1>3, <1>4, <1>5 DEF NativeStep

-----------------------------------------------------------------------------
LEMMA InitMaps == Init => Ledger!Init
<1> SUFFICES ASSUME Init
             PROVE  Ledger!Init
  OBVIOUS
<1>1. Builder = [e \in Env |-> {}]
  BY DEF Init, Builder, PastPreflight, Mutating
<1>2. \A e \in Env : (jobState[e] = "succeeded") = FALSE
  BY DEF Init
<1>3. ReadyOf = [e \in Env |-> FALSE]
  BY <1>2, Zenon DEF ReadyOf
<1> QED
  BY <1>1, <1>3 DEF Init, Ledger!Init, Builder, ReadyOf

LEMMA NextMaps == IInv /\ [Next]_vars => [Ledger!Next]_Ledger!ledgerVars
<1> SUFFICES ASSUME IInv, [Next]_vars
             PROVE  [Ledger!Next]_Ledger!ledgerVars
  OBVIOUS
<1>1. CASE Request
  BY <1>1, RequestStutters
<1>2. CASE \E w \in Worker : WorkerStep(w) \/ WorkerCrash(w)
  BY <1>2, WorkerMaps
<1>3. CASE \E t \in Token : GuardianStep(t) \/ GuardianInterrupt(t) \/ GuardianDie(t) \/ NativeFail(t)
  BY <1>3, GuardianStutters
<1>4. CASE \E t \in Token : NativeStep(t)
  BY <1>4, NativeMaps
<1>5. CASE UNCHANGED vars
  BY <1>5, Stutter DEF vars, catalogVars, fileVars, effectVars, SamePast, SameReady, PastPreflight
<1> QED
  BY <1>1, <1>2, <1>3, <1>4, <1>5 DEF Next, Step, Fault

\* Seen from outside, provisioning commits one builder per environment before
\* anything exists, never replaces it, and announces what is complete, whatever
\* dies between any two steps of the catalog, the worker, the guardian and the
\* native run.
THEOREM ImplementsLedger == Spec => LedgerSpec
<1>1. Init => Ledger!Init
  BY InitMaps
<1>2. IInv /\ [Next]_vars => [Ledger!Next]_Ledger!ledgerVars
  BY NextMaps
<1> QED
  BY <1>1, <1>2, Inductive, PTL DEF Spec, LedgerSpec, Ledger!Spec
=============================================================================
