---------------------------- MODULE GatewayProofs ----------------------------
(*******************************************************************************)
(* Proofs about the two things the gateway keeps for its environments: the      *)
(* slots of ConcurrencyGate and the on demand services of OnDemand.             *)
(*                                                                             *)
(* ConcurrencyGate, for any finite sets of environments and services and any    *)
(* policy.  Its counters are sums over calls, so the first lemmas say what a    *)
(* sum is when one of its numbers changes, by the cardinality of a set of       *)
(* units: no induction is needed.  GateInv is CountersAgree with the types and  *)
(* DrainInv: who waits for a drain or was answered is paused, so nothing new    *)
(* enters.  BorrowersKeepReserve follows step by step from how an admission     *)
(* changes the one unused share it is about.                                    *)
(*                                                                             *)
(* OnDemand: the row and the host agree whenever nothing is being applied, and  *)
(* a stop for idleness cuts off nobody whom ensure let in, for any services,    *)
(* any number of requests and any limits.  RowTellsTruth is about services      *)
(* nobody works at, so what it rests on is about those somebody works at        *)
(* (ChildInv): a child works at a pending row and has read what the row still   *)
(* says, and the container and the endpoints follow its steps; and about what   *)
(* may be published without a container (NamedInv), which is what makes calling *)
(* a sleep off safe.  NobodyIsCutOff rests on the requests (RequestInv): who is *)
(* on the way counts as use, and nobody is let in while a stop for idleness is  *)
(* pending.                                                                     *)
(*******************************************************************************)
EXTENDS OnDemand, ConcurrencyGate, SequenceTheorems, FiniteSetTheorems, TLAPS

-------------------------------------------------------------------------------
(* Sums. *)

\* What f counts for the members of S.
Counts(f, S) == \A x \in S : f[x] \in Nat

\* The units of finitely many numbers are finitely many.
LEMMA UnitsFinite ==
  ASSUME NEW S, NEW f, IsFiniteSet(S), Counts(f, S)
  PROVE  IsFiniteSet(Units(f, S)) /\ Total(f, S) \in Nat
<1> DEFINE Of(x) == {x} \X (1 .. f[x])
           Many == {Of(x) : x \in S}
<1>1. IsFiniteSet(Many)
  <2>1. [x \in S |-> Of(x)] \in Surjection(S, Many)
    BY DEF Surjection
  <2> QED BY <2>1, FS_Surjection
<1>2. \A T \in Many : IsFiniteSet(T)
  <2>1. ASSUME NEW x \in S PROVE IsFiniteSet(Of(x))
    <3>1. IsFiniteSet({x})
      BY FS_Singleton
    <3>2. IsFiniteSet(1 .. f[x])
      BY FS_Interval DEF Counts
    <3> QED BY <3>1, <3>2, FS_Product
  <2> QED BY <2>1
<1>3. IsFiniteSet(UNION Many)
  BY <1>1, <1>2, FS_UNION
<1> QED BY <1>3, FS_CardinalityType DEF Units, Total

LEMMA TotalEmpty == ASSUME NEW f PROVE Total(f, {}) = 0
BY FS_EmptySet DEF Total, Units

\* A sum depends on the numbers of its members only.
LEMMA TotalAgree ==
  ASSUME NEW S, NEW f, NEW g, \A x \in S : f[x] = g[x]
  PROVE  Total(f, S) = Total(g, S)
BY DEF Total, Units

\* One member more.
LEMMA TotalAdd ==
  ASSUME NEW S, NEW x, NEW f, IsFiniteSet(S), x \notin S, Counts(f, S \cup {x})
  PROVE  Total(f, S \cup {x}) = Total(f, S) + f[x]
<1> DEFINE Of == {x} \X (1 .. f[x])
<1>0. f[x] \in Nat /\ Counts(f, S)
  BY DEF Counts
<1>1. IsFiniteSet(Units(f, S)) /\ Total(f, S) \in Nat
  BY <1>0, UnitsFinite
<1>2. IsFiniteSet(Of) /\ Cardinality(Of) = f[x]
  <2>1. IsFiniteSet({x}) /\ Cardinality({x}) = 1
    BY FS_Singleton
  <2>2. IsFiniteSet(1 .. f[x])
        /\ Cardinality(1 .. f[x]) = f[x]
    <3>1. IsFiniteSet(1 .. f[x])
          /\ Cardinality(1 .. f[x]) = IF 1 > f[x] THEN 0 ELSE f[x] - 1 + 1
      BY <1>0, FS_Interval
    <3> QED BY <1>0, <3>1
  <2>3. IsFiniteSet(Of) /\ Cardinality(Of) = Cardinality({x}) * Cardinality(1 .. f[x])
    BY <2>1, <2>2, FS_Product
  <2> HIDE DEF Of
  <2> QED BY <1>0, <2>1, <2>2, <2>3
<1>3. Units(f, S \cup {x}) = Units(f, S) \cup Of
  BY DEF Units
<1>4. Units(f, S) \cap Of = {}
  BY DEF Units
<1> HIDE DEF Of
<1>5. Cardinality(Units(f, S) \cup Of)
        = Cardinality(Units(f, S)) + Cardinality(Of) - Cardinality(Units(f, S) \cap Of)
  BY <1>1, <1>2, FS_Union
<1>6. Cardinality(Units(f, S) \cap Of) = 0
  BY <1>4, FS_EmptySet
<1>7. Cardinality(Units(f, S \cup {x})) = Cardinality(Units(f, S) \cup Of)
  BY <1>3, Zenon
<1> QED BY <1>0, <1>1, <1>2, <1>5, <1>6, <1>7 DEF Total

\* One member less.
LEMMA TotalWithout ==
  ASSUME NEW S, NEW x \in S, NEW f, IsFiniteSet(S), Counts(f, S)
  PROVE  Total(f, S) = Total(f, S \ {x}) + f[x]
<1>1. IsFiniteSet(S \ {x}) /\ x \notin S \ {x} /\ (S \ {x}) \cup {x} = S
  BY FS_RemoveElement
<1> QED BY <1>1, TotalAdd

\* Another number at one member.
LEMMA TotalChange ==
  ASSUME NEW S, NEW x \in S, NEW f, NEW g, IsFiniteSet(S), Counts(f, S), Counts(g, S),
         \A y \in S \ {x} : g[y] = f[y]
  PROVE  Total(g, S) = Total(f, S) - f[x] + g[x]
<1>1. Total(f, S) = Total(f, S \ {x}) + f[x] /\ Total(g, S) = Total(g, S \ {x}) + g[x]
  BY TotalWithout
<1>2. Total(f, S \ {x}) = Total(g, S \ {x})
  BY TotalAgree
<1>3. Total(f, S \ {x}) \in Nat
  BY FS_RemoveElement, UnitsFinite DEF Counts
<1> QED BY <1>1, <1>2, <1>3 DEF Counts

\* Fewer members with smaller numbers.
LEMMA TotalMonotone ==
  ASSUME NEW S, NEW T, NEW f, NEW g, IsFiniteSet(T), S \subseteq T, Counts(f, S), Counts(g, T),
         \A x \in S : f[x] <= g[x]
  PROVE  Total(f, S) <= Total(g, T)
<1>1. Units(f, S) \subseteq Units(g, T)
  BY DEF Units, Counts
<1>2. IsFiniteSet(Units(g, T))
  BY UnitsFinite
<1> QED BY <1>1, <1>2, FS_Subset DEF Total

\* No number is above its sum.
LEMMA TotalBounds ==
  ASSUME NEW S, NEW x \in S, NEW f, IsFiniteSet(S), Counts(f, S)
  PROVE  f[x] <= Total(f, S)
<1>1. Total(f, S) = Total(f, S \ {x}) + f[x]
  BY TotalWithout
<1>2. Total(f, S \ {x}) \in Nat
  BY FS_RemoveElement, UnitsFinite DEF Counts
<1> QED BY <1>1, <1>2 DEF Counts

\* Nothing is counted where there is nothing.
LEMMA TotalZero ==
  ASSUME NEW S, NEW f, \A x \in S : f[x] = 0
  PROVE  Total(f, S) = 0
<1>1. Units(f, S) = {}
  BY DEF Units
<1> QED BY <1>1, FS_EmptySet DEF Total

\* Members that count nothing can be left out.
LEMMA TotalIdle ==
  ASSUME NEW S, NEW x, NEW f, f[x] = 0
  PROVE  Total(f, S \ {x}) = Total(f, S)
<1>1. Units(f, S \ {x}) = Units(f, S)
  BY DEF Units
<1> QED BY <1>1 DEF Total

-----------------------------------------------------------------------------
(* What is true of the gate in every state. *)

CallsType == calls \in [Env -> [Service -> [Phase -> Nat]]]
GateTypeInv ==
  /\ share \in [Env -> 1 .. Ceiling]
  /\ total \in Nat /\ active \in [Env -> Nat] /\ services \in [Env -> [Service -> Nat]]
  /\ seen \subseteq Env /\ paused \subseteq Pausable
  /\ drain \in [Env -> {"none", "waiting", "drained", "late"}]
  /\ CallsType

\* Whose drain is asked for or answered yes is paused, and who was answered yes holds no slot.
DrainInv ==
  \A e \in Env :
    /\ drain[e] \in {"waiting", "drained"} => e \in paused
    /\ drain[e] = "drained" => active[e] = 0

GateInv == GateTypeInv /\ CountersAgree /\ DrainInv /\ total <= Maximum

LEMMA HeldSum ==
  ASSUME NEW f \in [Phase -> Nat]
  PROVE  /\ Total(f, HeldPhase) = f["forward"] + f["stream"] + f["drain"]
         /\ Total(f, HeldPhase) \in Nat
<1> DEFINE One == {"forward"}
           Two == {"forward", "stream"}
<1>1. IsFiniteSet(One) /\ IsFiniteSet(Two)
  BY FS_EmptySet, FS_Singleton, FS_AddElement
<1>2. Total(f, {} \cup {"forward"}) = Total(f, {}) + f["forward"]
  BY FS_EmptySet, TotalAdd DEF Counts, Phase, HeldPhase
<1>3. Total(f, One \cup {"stream"}) = Total(f, One) + f["stream"]
  BY <1>1, TotalAdd DEF Counts, Phase, HeldPhase
<1>4. Total(f, Two \cup {"drain"}) = Total(f, Two) + f["drain"]
  BY <1>1, TotalAdd DEF Counts, Phase, HeldPhase
<1>5. Total(f, {}) = 0
  BY TotalEmpty
<1>6. {} \cup {"forward"} = One /\ One \cup {"stream"} = Two /\ Two \cup {"drain"} = HeldPhase
  BY DEF HeldPhase
<1>7. f["forward"] \in Nat /\ f["stream"] \in Nat /\ f["drain"] \in Nat
  BY DEF Phase, HeldPhase
<1> HIDE DEF One, Two
<1> QED BY <1>2, <1>3, <1>4, <1>5, <1>6, <1>7

LEMMA HeldType ==
  ASSUME CallsType, NEW e \in Env, NEW s \in Service
  PROVE  /\ HeldCalls(e, s) \in Nat
         /\ HeldCalls(e, s) = calls[e][s]["forward"] + calls[e][s]["stream"] + calls[e][s]["drain"]
<1>1. calls[e][s] \in [Phase -> Nat]
  BY DEF CallsType
<1> QED BY <1>1, HeldSum DEF HeldCalls

LEMMA HeldTypeNext ==
  ASSUME CallsType', NEW e \in Env, NEW s \in Service
  PROVE  /\ HeldCalls(e, s)' \in Nat
         /\ HeldCalls(e, s)' = calls'[e][s]["forward"] + calls'[e][s]["stream"] + calls'[e][s]["drain"]
<1>1. calls'[e][s] \in [Phase -> Nat]
  BY DEF CallsType
<1> QED BY <1>1, HeldSum DEF HeldCalls

\* A step that moves the calls of one service of one environment, and the counters with them.
LEMMA CountersMove ==
  ASSUME GateTypeInv, CountersAgree, CallsType', NEW e \in Env, NEW s \in Service, NEW k \in Int,
         HeldCalls(e, s)' = HeldCalls(e, s) + k,
         \A d \in Env, t \in Service : d # e \/ t # s => calls'[d][t] = calls[d][t],
         total' = total + k,
         active' = [active EXCEPT ![e] = @ + k],
         services' = [services EXCEPT ![e][s] = @ + k],
         services'[e][s] <= Budget[s]
  PROVE  /\ CountersAgree'
         /\ total' \in Nat /\ active' \in [Env -> Nat] /\ services' \in [Env -> [Service -> Nat]]
<1> DEFINE InHand(d) == [t \in Service |-> HeldCalls(d, t)]
           InHandNext(d) == [t \in Service |-> HeldCalls(d, t)']
<1>1. \A d \in Env, t \in Service : HeldCalls(d, t) \in Nat /\ HeldCalls(d, t)' \in Nat
  BY HeldType, HeldTypeNext DEF GateTypeInv
<1>2. \A d \in Env, t \in Service : d # e \/ t # s => HeldCalls(d, t)' = HeldCalls(d, t)
  BY DEF HeldCalls
<1>3. \A d \in Env : Counts(InHand(d), Service) /\ Counts(InHandNext(d), Service)
  BY <1>1 DEF Counts
<1>4. \A d \in Env : Total(InHand(d), Service) \in Nat /\ Total(InHandNext(d), Service) \in Nat
  BY <1>3, FiniteAssumption, UnitsFinite
<1>5. \A d \in Env : active[d] = Total(InHand(d), Service)
  BY DEF CountersAgree
<1>6. Total(InHandNext(e), Service) = Total(InHand(e), Service) - InHand(e)[s] + InHandNext(e)[s]
  BY <1>2, <1>3, FiniteAssumption, TotalChange
<1>7. ASSUME NEW d \in Env PROVE active'[d] = Total(InHandNext(d), Service)
  <2>1. CASE d = e
    <3>1. active'[e] = active[e] + k
      BY DEF GateTypeInv
    <3>2. InHandNext(e)[s] = InHand(e)[s] + k /\ InHand(e)[s] \in Nat
      BY <1>1
    <3> HIDE DEF InHand, InHandNext
    <3> QED BY <1>4, <1>5, <1>6, <2>1, <3>1, <3>2
  <2>2. CASE d # e
    <3>1. Total(InHandNext(d), Service) = Total(InHand(d), Service)
      BY <1>2, <2>2
    <3> QED BY <1>5, <2>2, <3>1 DEF GateTypeInv
  <2> QED BY <2>1, <2>2
<1>8. active' \in [Env -> Nat]
  <2> HIDE DEF InHandNext
  <2> QED BY <1>4, <1>7 DEF GateTypeInv
<1>9. total' = Total(active', Env) /\ total' \in Nat
  <2>1. Counts(active, Env) /\ Counts(active', Env)
    BY <1>8 DEF GateTypeInv, Counts
  <2>2. Total(active', Env) = Total(active, Env) - active[e] + active'[e]
    <3>1. \A d \in Env \ {e} : active'[d] = active[d]
      BY DEF GateTypeInv
    <3>2. IsFiniteSet(Env)
      BY FiniteAssumption
    <3>3. ASSUME NEW g, Counts(g, Env), \A d \in Env \ {e} : g[d] = active[d]
          PROVE  Total(g, Env) = Total(active, Env) - active[e] + g[e]
      BY <2>1, <3>2, <3>3, TotalChange
    <3> QED BY <2>1, <3>1, <3>3
  <2>3. active'[e] = active[e] + k /\ active[e] \in Nat /\ total \in Nat
    BY DEF GateTypeInv
  <2>4. total = Total(active, Env)
    BY DEF CountersAgree
  <2>5. Total(active', Env) \in Nat
    BY <2>1, FiniteAssumption, UnitsFinite
  <2> QED BY <2>2, <2>3, <2>4, <2>5
<1>10. ASSUME NEW d \in Env, NEW t \in Service
       PROVE  services'[d][t] = HeldCalls(d, t)' /\ services'[d][t] <= Budget[t]
  <2>1. services[d][t] = HeldCalls(d, t) /\ services[d][t] <= Budget[t]
    BY DEF CountersAgree
  <2>2. CASE d = e /\ t = s
    <3>1. services'[e][s] = services[e][s] + k
      BY DEF GateTypeInv
    <3> QED BY <2>1, <2>2, <3>1
  <2>3. CASE d # e \/ t # s
    <3>1. services'[d][t] = services[d][t]
      BY <2>3 DEF GateTypeInv
    <3> QED BY <1>2, <2>1, <2>3, <3>1
  <2> QED BY <2>2, <2>3
<1>11. services' \in [Env -> [Service -> Nat]]
  BY <1>1, <1>10 DEF GateTypeInv
<1>12. CountersAgree'
  BY <1>7, <1>9, <1>10 DEF CountersAgree
<1> QED BY <1>8, <1>9, <1>11, <1>12

LEMMA GateInitInv == GateInit => GateInv
<1> SUFFICES ASSUME GateInit PROVE GateInv
  OBVIOUS
<1>1. GateTypeInv
  BY PolicyAssumption DEF GateInit, GateTypeInv, CallsType
<1>2. \A e \in Env, s \in Service : HeldCalls(e, s) = 0
  <2>1. \A e \in Env, s \in Service, p \in HeldPhase : calls[e][s][p] = 0
    BY DEF GateInit, Phase
  <2> QED BY <2>1, TotalZero DEF HeldCalls
<1>3. CountersAgree
  <2>1. total = Total(active, Env)
    BY TotalZero DEF GateInit
  <2>2. ASSUME NEW e \in Env PROVE active[e] = Total([s \in Service |-> HeldCalls(e, s)], Service)
    <3>1. Total([s \in Service |-> HeldCalls(e, s)], Service) = 0
      BY <1>2, TotalZero
    <3> QED BY <3>1 DEF GateInit
  <2>3. ASSUME NEW e \in Env, NEW s \in Service
        PROVE  services[e][s] = HeldCalls(e, s) /\ services[e][s] <= Budget[s]
    BY <1>2, BudgetAssumption DEF GateInit
  <2> QED BY <2>1, <2>2, <2>3 DEF CountersAgree
<1>4. DrainInv /\ total <= Maximum
  BY PolicyAssumption DEF GateInit, DrainInv
<1> QED BY <1>1, <1>3, <1>4 DEF GateInv

\* What an environment has not used of its share.
LEMMA UnusedType ==
  ASSUME GateTypeInv, NEW S \in SUBSET Env
  PROVE  /\ \A e \in Env : Unused(e) \in Nat
         /\ IsFiniteSet(S) /\ UnusedShares(S) \in Nat
<1>1. \A e \in Env : Unused(e) \in Nat
  BY PolicyAssumption DEF GateTypeInv, Unused
<1>2. IsFiniteSet(S)
  BY FiniteAssumption, FS_Subset
<1>3. Counts([e \in S |-> Unused(e)], S)
  BY <1>1 DEF Counts
<1> QED BY <1>1, <1>2, <1>3, UnitsFinite DEF UnusedShares

\* A gateway with no free slot lets nobody in, and a borrow leaves the reserve.
LEMMA EnterBounds ==
  ASSUME GateTypeInv, NEW e \in Env, MayEnter(e)
  PROVE  /\ total < Maximum
         /\ active[e] >= share[e] => Maximum - total > UnusedShares(seen \ {e})
<1>1. UnusedShares(seen \ {e}) \in Nat
  BY UnusedType DEF GateTypeInv
<1> QED BY <1>1, PolicyAssumption DEF GateTypeInv, MayEnter, Reserve, Larger

\* Whoever gives a slot back has one.
LEMMA GiveBackCounts ==
  ASSUME GateInv, NEW e \in Env, NEW s \in Service, HeldCalls(e, s) > 0, GiveBack(e, s)
  PROVE  /\ total' = total + (-1)
         /\ active' = [active EXCEPT ![e] = @ + (-1)]
         /\ services' = [services EXCEPT ![e][s] = @ + (-1)]
         /\ services'[e][s] <= Budget[s]
<1> DEFINE InHand == [t \in Service |-> HeldCalls(e, t)]
<1>1. Counts(InHand, Service)
  BY HeldType DEF Counts, GateInv, GateTypeInv
<1>2. InHand[s] <= Total(InHand, Service)
  BY <1>1, FiniteAssumption, TotalBounds
<1>3. active[e] >= HeldCalls(e, s) /\ HeldCalls(e, s) \in Nat /\ active[e] \in Nat
  BY <1>1, <1>2 DEF GateInv, GateTypeInv, CountersAgree, Counts
<1>4. services[e][s] = HeldCalls(e, s) /\ services[e][s] <= Budget[s] /\ Budget[s] \in Nat
  BY BudgetAssumption DEF GateInv, CountersAgree
<1>0. Less(active[e]) = active[e] + (-1) /\ Less(services[e][s]) = services[e][s] + (-1)
  BY <1>3, <1>4 DEF Less
<1>5. active' = [active EXCEPT ![e] = @ + (-1)]
  BY <1>0 DEF GiveBack
<1>6. services' = [services EXCEPT ![e][s] = @ + (-1)]
  BY <1>0 DEF GiveBack
<1>7. services'[e][s] <= Budget[s]
  BY <1>3, <1>4, <1>6 DEF GateInv, GateTypeInv
<1> QED BY <1>5, <1>6, <1>7 DEF GiveBack, GateInv, GateTypeInv

\* The steps that move no call and no counter.
Outside(e) == Forget(e) \/ Pause(e) \/ WaitForDrain(e) \/ DrainTimeout(e) \/ Resume(e)
              \/ \E n \in Share : setGatewayShare(e, n)

LEMMA OutsideStep ==
  ASSUME GateInv, NEW e \in Env, Outside(e)
  PROVE  GateInv'
<1>1. UNCHANGED <<total, active, services, calls>>
  BY DEF Outside, Forget, Pause, WaitForDrain, DrainTimeout, Resume, setGatewayShare, counterVars, pauseVars
<1>2. CountersAgree'
  BY <1>1 DEF GateInv, CountersAgree, HeldCalls
<1>3. GateTypeInv'
  BY <1>1, ShareAssumption
     DEF GateInv, GateTypeInv, CallsType, Outside, Forget, Pause, WaitForDrain, DrainTimeout, Resume,
         setGatewayShare, counterVars, pauseVars
<1>4. DrainInv'
  BY <1>1
     DEF GateInv, GateTypeInv, DrainInv, Outside, Forget, Pause, WaitForDrain, DrainTimeout, Resume,
         setGatewayShare, counterVars, pauseVars
<1> QED BY <1>1, <1>2, <1>3, <1>4 DEF GateInv

\* A call goes from one phase to another, or away.
LEMMA CallMoves ==
  ASSUME GateTypeInv, NEW e \in Env, NEW s \in Service, NEW p \in Phase, NEW q \in Phase, p # q,
         Waits(e, s, p), Moves(e, s, p, q)
  PROVE  /\ CallsType'
         /\ \A d \in Env, t \in Service : d # e \/ t # s => calls'[d][t] = calls[d][t]
         /\ calls'[e][s] = [calls[e][s] EXCEPT ![p] = @ - 1, ![q] = @ + 1]
<1> DEFINE new == [calls[e][s] EXCEPT ![p] = @ - 1, ![q] = @ + 1]
<1>1. calls[e][s] \in [Phase -> Nat] /\ calls[e][s][p] > 0
  BY DEF GateTypeInv, CallsType, Waits
<1>2. new \in [Phase -> Nat]
  BY <1>1
<1>3. calls' = [calls EXCEPT ![e][s] = new]
  BY DEF GateTypeInv, CallsType, Moves
<1> HIDE DEF new
<1>4. CallsType'
  BY <1>2, <1>3 DEF GateTypeInv, CallsType
<1>5. \A d \in Env, t \in Service : d # e \/ t # s => calls'[d][t] = calls[d][t]
  BY <1>3 DEF GateTypeInv, CallsType
<1>6. calls'[e][s] = new
  BY <1>3 DEF GateTypeInv, CallsType
<1> QED BY <1>4, <1>5, <1>6 DEF new

LEMMA CallGoesAway ==
  ASSUME GateTypeInv, NEW e \in Env, NEW s \in Service, NEW p \in Phase,
         Waits(e, s, p), GoesAway(e, s, p)
  PROVE  /\ CallsType'
         /\ \A d \in Env, t \in Service : d # e \/ t # s => calls'[d][t] = calls[d][t]
         /\ calls'[e][s] = [calls[e][s] EXCEPT ![p] = @ - 1]
<1> DEFINE new == [calls[e][s] EXCEPT ![p] = @ - 1]
<1>1. calls[e][s] \in [Phase -> Nat] /\ calls[e][s][p] > 0
  BY DEF GateTypeInv, CallsType, Waits
<1>2. new \in [Phase -> Nat]
  BY <1>1
<1>3. calls' = [calls EXCEPT ![e][s] = new]
  BY DEF GateTypeInv, CallsType, GoesAway
<1> HIDE DEF new
<1>4. CallsType'
  BY <1>2, <1>3 DEF GateTypeInv, CallsType
<1>5. \A d \in Env, t \in Service : d # e \/ t # s => calls'[d][t] = calls[d][t]
  BY <1>3 DEF GateTypeInv, CallsType
<1>6. calls'[e][s] = new
  BY <1>3 DEF GateTypeInv, CallsType
<1> QED BY <1>4, <1>5, <1>6 DEF new

\* A held call that ends gives its slot back.
LEMMA HeldCallEnds ==
  ASSUME GateInv, NEW e \in Env, NEW s \in Service, CallsType', HeldCalls(e, s) > 0,
         HeldCalls(e, s)' = HeldCalls(e, s) + (-1),
         \A d \in Env, t \in Service : d # e \/ t # s => calls'[d][t] = calls[d][t],
         GiveBack(e, s)
  PROVE  GateInv'
<1>1. /\ total' = total + (-1)
      /\ active' = [active EXCEPT ![e] = @ + (-1)]
      /\ services' = [services EXCEPT ![e][s] = @ + (-1)]
      /\ services'[e][s] <= Budget[s]
  BY GiveBackCounts
<1>2. CountersAgree' /\ total' \in Nat /\ active' \in [Env -> Nat] /\ services' \in [Env -> [Service -> Nat]]
  <2>1. GateTypeInv /\ CountersAgree /\ -1 \in Int
    BY DEF GateInv
  <2> QED BY <1>1, <2>1, CountersMove
<1>3. GateTypeInv'
  BY <1>2 DEF GateInv, GateTypeInv, GiveBack
<1>4. DrainInv'
  <2>1. active[e] # 0
    BY <1>1, <1>2 DEF GateInv, GateTypeInv
  <2>2. \A d \in Env : drain'[d] = "drained" /\ drain[d] # "drained" => drain[d] = "waiting" /\ active'[d] = 0
    BY DEF GiveBack, GateInv, GateTypeInv
  <2>3. \A d \in Env : drain'[d] = "waiting" => drain[d] = "waiting"
    BY DEF GiveBack, GateInv, GateTypeInv
  <2>4. \A d \in Env : drain[d] = "drained" => d # e /\ active'[d] = 0
    BY <1>1, <2>1 DEF GateInv, GateTypeInv, DrainInv
  <2> QED BY <2>2, <2>3, <2>4 DEF DrainInv, GiveBack, GateInv
<1>5. total' <= Maximum
  BY <1>1, PolicyAssumption DEF GateInv, GateTypeInv
<1> QED BY <1>2, <1>3, <1>4, <1>5 DEF GateInv

\* A call that moves without giving anything back.
LEMMA CallGoesOn ==
  ASSUME GateInv, NEW e \in Env, NEW s \in Service, CallsType',
         HeldCalls(e, s)' = HeldCalls(e, s),
         \A d \in Env, t \in Service : d # e \/ t # s => calls'[d][t] = calls[d][t],
         UNCHANGED <<share, counterVars, pauseVars>>
  PROVE  GateInv'
<1>1. UNCHANGED <<share, total, active, services, seen, paused, drain>>
  BY DEF counterVars, pauseVars
<1>2. \A d \in Env, t \in Service : HeldCalls(d, t)' = HeldCalls(d, t)
  BY DEF HeldCalls
<1>3. CountersAgree'
  BY <1>1, <1>2 DEF GateInv, CountersAgree
<1> QED BY <1>1, <1>3 DEF GateInv, GateTypeInv, DrainInv

LEMMA RunStep ==
  ASSUME GateInv, NEW e \in Env, NEW s \in Service, run(e, s)
  PROVE  GateInv'
<1>1. UNCHANGED <<share, paused, drain>> /\ seen' = seen \cup {e} /\ e \notin paused
  BY DEF run, pauseVars, Unpaused
<1>2. CASE ~ Admitted(e, s)
  <2>1. UNCHANGED <<total, active, services, calls>>
    BY <1>2 DEF run
  <2>2. CountersAgree'
    BY <2>1 DEF GateInv, CountersAgree, HeldCalls
  <2> QED BY <1>1, <2>1, <2>2 DEF GateInv, GateTypeInv, CallsType, DrainInv
<1>3. CASE Admitted(e, s)
  <2>1. /\ total' = total + 1
        /\ active' = [active EXCEPT ![e] = @ + 1]
        /\ services' = [services EXCEPT ![e][s] = @ + 1]
        /\ calls' = [calls EXCEPT ![e][s]["forward"] = @ + 1]
    BY <1>3 DEF run
  <2> DEFINE new == [calls[e][s] EXCEPT !["forward"] = @ + 1]
  <2>2. calls[e][s] \in [Phase -> Nat] /\ "forward" \in Phase
    BY DEF GateInv, GateTypeInv, CallsType, Phase, HeldPhase
  <2>3. new \in [Phase -> Nat]
    BY <2>2
  <2>4. calls' = [calls EXCEPT ![e][s] = new]
    BY <2>1 DEF GateInv, GateTypeInv, CallsType
  <2>5. /\ CallsType'
        /\ \A d \in Env, t \in Service : d # e \/ t # s => calls'[d][t] = calls[d][t]
        /\ calls'[e][s] = new
    <3> HIDE DEF new
    <3> QED BY <2>3, <2>4 DEF GateInv, GateTypeInv, CallsType
  <2>6. HeldCalls(e, s)' = HeldCalls(e, s) + 1
    <3>1. CallsType
      BY DEF GateInv, GateTypeInv
    <3>2. /\ HeldCalls(e, s) = calls[e][s]["forward"] + calls[e][s]["stream"] + calls[e][s]["drain"]
          /\ HeldCalls(e, s)' = calls'[e][s]["forward"] + calls'[e][s]["stream"] + calls'[e][s]["drain"]
      BY <2>5, <3>1, HeldType, HeldTypeNext
    <3>3. /\ new["forward"] = calls[e][s]["forward"] + 1
          /\ new["stream"] = calls[e][s]["stream"] /\ new["drain"] = calls[e][s]["drain"]
          /\ {"forward", "stream", "drain"} \subseteq Phase
      BY <2>2 DEF Phase, HeldPhase
    <3> HIDE DEF new
    <3> QED BY <2>2, <2>5, <3>2, <3>3
  <2>7. services'[e][s] <= Budget[s]
    BY <1>3, <2>1, BudgetAssumption DEF GateInv, GateTypeInv, Admitted
  <2>8. CountersAgree' /\ total' \in Nat /\ active' \in [Env -> Nat] /\ services' \in [Env -> [Service -> Nat]]
    <3>1. GateTypeInv /\ CountersAgree /\ 1 \in Int
      BY DEF GateInv
    <3> HIDE DEF new
    <3> QED BY <2>1, <2>5, <2>6, <2>7, <3>1, CountersMove
  <2>9. GateTypeInv'
    BY <1>1, <2>5, <2>8 DEF GateInv, GateTypeInv
  <2>10. DrainInv'
    BY <1>1, <2>1 DEF GateInv, GateTypeInv, DrainInv
  <2>11. total' <= Maximum
    <3>1. total < Maximum
      BY <1>3, EnterBounds DEF Admitted, GateInv
    <3> QED BY <2>1, <3>1, PolicyAssumption DEF GateInv, GateTypeInv
  <2> QED BY <2>8, <2>9, <2>10, <2>11 DEF GateInv
<1> QED BY <1>2, <1>3

\* The end of a call in one of the phases of a held call.
LEMMA EndStep ==
  ASSUME GateInv, NEW e \in Env, NEW s \in Service, NEW p \in HeldPhase,
         Waits(e, s, p), Finish(e, s, p), GoesAway(e, s, p) \/ Moves(e, s, p, "lingering")
  PROVE  GateInv'
<1>0. GateTypeInv /\ CallsType /\ p \in Phase /\ "lingering" \in Phase /\ p # "lingering"
  BY DEF GateInv, GateTypeInv, Phase, HeldPhase
<1>1. GiveBack(e, s)
  BY DEF Finish
<1>2. /\ CallsType'
      /\ \A d \in Env, t \in Service : d # e \/ t # s => calls'[d][t] = calls[d][t]
      /\ \/ calls'[e][s] = [calls[e][s] EXCEPT ![p] = @ - 1]
         \/ calls'[e][s] = [calls[e][s] EXCEPT ![p] = @ - 1, !["lingering"] = @ + 1]
  BY <1>0, CallMoves, CallGoesAway
<1>3. /\ HeldCalls(e, s) = calls[e][s]["forward"] + calls[e][s]["stream"] + calls[e][s]["drain"]
      /\ HeldCalls(e, s)' = calls'[e][s]["forward"] + calls'[e][s]["stream"] + calls'[e][s]["drain"]
  BY <1>0, <1>2, HeldType, HeldTypeNext
<1>4. calls[e][s] \in [Phase -> Nat] /\ calls[e][s][p] > 0
  BY <1>0 DEF CallsType, Waits
<1>5. HeldCalls(e, s) > 0 /\ HeldCalls(e, s)' = HeldCalls(e, s) + (-1)
  <2>1. /\ calls'[e][s][p] = calls[e][s][p] - 1
        /\ \A x \in HeldPhase \ {p} : calls'[e][s][x] = calls[e][s][x]
    BY <1>0, <1>2, <1>4 DEF Phase, HeldPhase
  <2>2. \A x \in HeldPhase : calls[e][s][x] \in Nat
    BY <1>4 DEF Phase
  <2> QED BY <1>3, <1>4, <2>1, <2>2 DEF HeldPhase
<1> QED BY <1>1, <1>2, <1>5, HeldCallEnds

\* An answer with a body, or a reader who leaves: the slot is kept.
LEMMA KeepStep ==
  ASSUME GateInv, NEW e \in Env, NEW s \in Service, Respond(e, s) \/ Cancel(e, s) \/ LoopEnds(e, s)
  PROVE  GateInv'
<1>0. GateTypeInv /\ CallsType /\ {"forward", "stream", "drain", "lingering"} \subseteq Phase
  BY DEF GateInv, GateTypeInv, Phase, HeldPhase
<1>1. UNCHANGED <<share, counterVars, pauseVars>>
  BY DEF Respond, Cancel, LoopEnds, Finish, HeldPhase
<1>2. /\ CallsType'
      /\ \A d \in Env, t \in Service : d # e \/ t # s => calls'[d][t] = calls[d][t]
      /\ \/ calls'[e][s] = [calls[e][s] EXCEPT !["forward"] = @ - 1, !["stream"] = @ + 1]
         \/ calls'[e][s] = [calls[e][s] EXCEPT !["stream"] = @ - 1, !["drain"] = @ + 1]
         \/ calls'[e][s] = [calls[e][s] EXCEPT !["lingering"] = @ - 1]
  <2>1. CASE Respond(e, s)
    BY <1>0, <2>1, CallMoves DEF Respond
  <2>2. CASE Cancel(e, s)
    BY <1>0, <2>2, CallMoves DEF Cancel
  <2>3. CASE LoopEnds(e, s)
    <3>1. Waits(e, s, "lingering") /\ GoesAway(e, s, "lingering") /\ "lingering" \in Phase
      BY <1>0, <2>3 DEF LoopEnds
    <3>2. /\ CallsType'
          /\ \A d \in Env, t \in Service : d # e \/ t # s => calls'[d][t] = calls[d][t]
          /\ calls'[e][s] = [calls[e][s] EXCEPT !["lingering"] = @ - 1]
      BY <1>0, <3>1, CallGoesAway
    <3> QED BY <3>2
  <2> QED BY <2>1, <2>2, <2>3
<1>3. /\ HeldCalls(e, s) = calls[e][s]["forward"] + calls[e][s]["stream"] + calls[e][s]["drain"]
      /\ HeldCalls(e, s)' = calls'[e][s]["forward"] + calls'[e][s]["stream"] + calls'[e][s]["drain"]
  BY <1>0, <1>2, HeldType, HeldTypeNext
<1>4. calls[e][s] \in [Phase -> Nat]
  BY <1>0 DEF CallsType
<1>5. HeldCalls(e, s)' = HeldCalls(e, s)
  BY <1>0, <1>2, <1>3, <1>4
<1> QED BY <1>1, <1>2, <1>5, CallGoesOn

LEMMA GateStepInv == GateInv /\ [GateNext]_gateVars => GateInv'
<1> SUFFICES ASSUME GateInv, [GateNext]_gateVars PROVE GateInv'
  OBVIOUS
<1>1. CASE UNCHANGED gateVars
  <2>1. UNCHANGED <<share, total, active, services, seen, paused, drain, calls>>
    BY <1>1 DEF gateVars, counterVars, pauseVars
  <2>2. CountersAgree'
    BY <2>1 DEF GateInv, CountersAgree, HeldCalls
  <2> QED BY <2>1, <2>2 DEF GateInv, GateTypeInv, CallsType, DrainInv
<1>2. ASSUME NEW e \in Env, NEW s \in Service, run(e, s) PROVE GateInv'
  BY <1>2, RunStep
<1>3. ASSUME NEW e \in Env, NEW s \in Service, Respond(e, s) \/ Cancel(e, s) PROVE GateInv'
  BY <1>3, KeepStep
<1>4. ASSUME NEW e \in Env, NEW s \in Service, CallEnds(e, s) PROVE GateInv'
  <2>1. ASSUME NEW p \in {"forward", "stream"}, Ends(e, s, p) PROVE GateInv'
    <3>1. p \in HeldPhase
      BY DEF HeldPhase
    <3> QED BY <2>1, <3>1, EndStep DEF Ends
  <2>2. CASE Drained(e, s) \/ DrainDeadline(e, s)
    <3>1. "drain" \in HeldPhase
      BY DEF HeldPhase
    <3> QED BY <2>2, <3>1, EndStep DEF Drained, DrainDeadline
  <2>3. CASE LoopEnds(e, s)
    BY <2>3, KeepStep
  <2> QED BY <1>4, <2>1, <2>2, <2>3 DEF CallEnds
<1>5. ASSUME NEW e \in Env, Outside(e) PROVE GateInv'
  BY <1>5, OutsideStep
<1> QED BY <1>1, <1>2, <1>3, <1>4, <1>5 DEF GateNext, Outside

\* The inductive invariant.
THEOREM GateInvariance == GateSpec => []GateInv
<1>1. GateInit => GateInv
  BY GateInitInv
<1>2. GateInv /\ [GateNext]_gateVars => GateInv'
  BY GateStepInv
<1> QED BY <1>1, <1>2, PTL DEF GateSpec

LEMMA CountersBounded ==
  ASSUME GateInv, NEW e \in Env
  PROVE  /\ active[e] <= total
         /\ \A s \in Service : services[e][s] <= active[e]
<1>1. active[e] <= Total(active, Env)
  BY FiniteAssumption, TotalBounds DEF GateInv, GateTypeInv, Counts
<1>2. ASSUME NEW s \in Service PROVE services[e][s] <= active[e]
  <2> DEFINE InHand == [t \in Service |-> HeldCalls(e, t)]
  <2>1. Counts(InHand, Service)
    BY HeldType DEF GateInv, GateTypeInv, Counts
  <2>2. InHand[s] <= Total(InHand, Service)
    BY <2>1, FiniteAssumption, TotalBounds
  <2>3. InHand[s] = services[e][s] /\ Total(InHand, Service) = active[e]
    BY DEF GateInv, CountersAgree
  <2> QED BY <2>2, <2>3
<1> QED BY <1>1, <1>2 DEF GateInv, CountersAgree

\* The types, with every counter within the gateway's maximum.
THEOREM GateTypeCorrect == GateSpec => []GateTypeOK
<1>1. GateInv => GateTypeOK
  <2> SUFFICES ASSUME GateInv PROVE GateTypeOK
    OBVIOUS
  <2>1. total \in 0 .. Maximum
    BY PolicyAssumption DEF GateInv, GateTypeInv
  <2>2. active \in [Env -> 0 .. Maximum]
    BY CountersBounded, PolicyAssumption DEF GateInv, GateTypeInv
  <2>3. ASSUME NEW e \in Env, NEW s \in Service PROVE services[e][s] \in 0 .. Maximum
    BY CountersBounded, PolicyAssumption DEF GateInv, GateTypeInv
  <2> QED BY <2>1, <2>2, <2>3 DEF GateInv, GateTypeInv, GateTypeOK, CallsType
<1> QED BY <1>1, GateInvariance, PTL

THEOREM SlotsAreCounted == GateSpec => []CountersAgree
<1>1. GateInv => CountersAgree
  BY DEF GateInv
<1> QED BY <1>1, GateInvariance, PTL

THEOREM DrainAnswersTruly == GateSpec => []DrainedIsIdle
<1>1. GateInv => DrainedIsIdle
  <2> SUFFICES ASSUME GateInv, NEW e \in Env, drain[e] = "drained"
               PROVE  e \in paused /\ \A s \in Service : HeldCalls(e, s) = 0
    BY DEF DrainedIsIdle
  <2>1. active[e] = 0 /\ e \in paused
    BY DEF GateInv, DrainInv
  <2>2. \A s \in Service : services[e][s] \in Nat /\ services[e][s] <= 0
    BY <2>1, CountersBounded DEF GateInv, GateTypeInv
  <2>3. \A s \in Service : services[e][s] = 0
    BY <2>2
  <2> QED BY <2>1, <2>3 DEF GateInv, CountersAgree
<1> QED BY <1>1, GateInvariance, PTL

\* Room kept: the unused shares of fewer environments, or smaller ones, fit where the others fitted.
LEMMA UnusedMonotone ==
  ASSUME GateTypeInv, GateTypeInv', NEW S \in SUBSET Env, NEW T \in SUBSET Env, T \subseteq S,
         \A x \in T : Unused(x)' <= Unused(x)
  PROVE  UnusedShares(T)' <= UnusedShares(S) /\ UnusedShares(T)' \in Nat
<1> DEFINE f == [x \in S |-> Unused(x)]
           g == [x \in T |-> Unused(x)']
<1>1. \A x \in Env : Unused(x) \in Nat /\ Unused(x)' \in Nat
  BY PolicyAssumption DEF GateTypeInv, Unused
<1>2. Counts(f, S) /\ Counts(g, T) /\ \A x \in T : g[x] <= f[x]
  BY <1>1 DEF Counts
<1>3. IsFiniteSet(S) /\ IsFiniteSet(T)
  BY FiniteAssumption, FS_Subset
<1>4. Total(g, T) <= Total(f, S) /\ Total(g, T) \in Nat
  <2> HIDE DEF f, g
  <2> QED BY <1>2, <1>3, TotalMonotone, UnitsFinite
<1> QED BY <1>4 DEF UnusedShares

\* One environment's unused share changes by a slot.
LEMMA UnusedChange ==
  ASSUME GateTypeInv, GateTypeInv', NEW S \in SUBSET Env, NEW e \in Env,
         \A x \in S \ {e} : Unused(x)' = Unused(x)
  PROVE  UnusedShares(S)' = IF e \in S THEN UnusedShares(S) - Unused(e) + Unused(e)' ELSE UnusedShares(S)
<1> DEFINE f == [x \in S |-> Unused(x)]
           g == [x \in S |-> Unused(x)']
<1>1. \A x \in Env : Unused(x) \in Nat /\ Unused(x)' \in Nat
  BY PolicyAssumption DEF GateTypeInv, Unused
<1>2. Counts(f, S) /\ Counts(g, S) /\ (\A x \in S \ {e} : g[x] = f[x])
      /\ (e \in S => f[e] = Unused(e) /\ g[e] = Unused(e)')
  BY <1>1 DEF Counts
<1>3. IsFiniteSet(S)
  BY FiniteAssumption, FS_Subset
<1>4. Total(g, S) = IF e \in S THEN Total(f, S) - f[e] + g[e] ELSE Total(f, S)
  <2> HIDE DEF f, g
  <2>1. CASE e \in S
    BY <1>2, <1>3, <2>1, TotalChange
  <2>2. CASE e \notin S
    BY <1>2, <2>2, TotalAgree
  <2> QED BY <2>1, <2>2
<1> QED BY <1>2, <1>4 DEF UnusedShares

\* A borrow: the borrower's own share is used up, so the reserve is what all the others need.
LEMMA BorrowerCountsNothing ==
  ASSUME GateTypeInv, NEW e \in Env, Unused(e) = 0
  PROVE  UnusedShares(seen \ {e}) = UnusedShares(seen)
<1> DEFINE f == [x \in seen |-> Unused(x)]
           g == [x \in seen \ {e} |-> Unused(x)]
<1>1. Total(g, seen \ {e}) = Total(f, seen \ {e})
  BY TotalAgree
<1>2. CASE e \in seen
  BY <1>1, <1>2, TotalIdle DEF UnusedShares
<1>3. CASE e \notin seen
  BY <1>3
<1> QED BY <1>2, <1>3

\* An admitted request leaves the reserve: within its share it takes what was kept for it, and a
\* borrow leaves more than the others need.
LEMMA RunKeepsReserve ==
  ASSUME GateInv, GateInv', NEW e \in Env, NEW s \in Service, run(e, s), Reserved, seen' = seen
  PROVE  Reserved'
<1>0. GateTypeInv /\ GateTypeInv' /\ seen \subseteq Env /\ UNCHANGED share
  BY DEF GateInv, GateTypeInv, run
<1>1. UnusedShares(seen) \in Nat /\ UnusedShares(seen) <= Maximum - total /\ total \in Nat
  BY <1>0, UnusedType DEF Reserved, GateTypeInv
<1>2. CASE ~ Admitted(e, s)
  BY <1>0, <1>2 DEF run, Reserved, UnusedShares, Unused
<1>3. CASE Admitted(e, s)
  <2>1. total' = total + 1 /\ active' = [active EXCEPT ![e] = @ + 1] /\ MayEnter(e)
    BY <1>3 DEF run, Admitted
  <2>2. \A x \in seen \ {e} : Unused(x)' = Unused(x)
    BY <1>0, <2>1 DEF GateTypeInv, Unused
  <2>3. e \in seen
    BY DEF run
  <2>4. UnusedShares(seen)' = UnusedShares(seen) - Unused(e) + Unused(e)'
    BY <1>0, <2>2, <2>3, UnusedChange
  <2>5. CASE active[e] < share[e]
    <3>0. active[e] \in Nat /\ share[e] \in Nat /\ active'[e] = active[e] + 1 /\ share'[e] = share[e]
      BY <1>0, <2>1, PolicyAssumption DEF GateTypeInv
    <3>1. Unused(e)' = Unused(e) - 1 /\ Unused(e) \in Nat
      BY <2>5, <3>0 DEF Unused
    <3> QED BY <1>1, <2>1, <2>4, <3>1, PolicyAssumption DEF Reserved
  <2>6. CASE ~ active[e] < share[e]
    <3>1. Unused(e)' = 0 /\ Unused(e) = 0
      BY <1>0, <2>1, <2>6, PolicyAssumption DEF GateTypeInv, Unused
    <3>2. Maximum - total > UnusedShares(seen \ {e})
      BY <1>0, <2>1, <2>6, EnterBounds, PolicyAssumption DEF GateTypeInv
    <3>3. Maximum - total > UnusedShares(seen)
      BY <1>0, <3>1, <3>2, BorrowerCountsNothing
    <3> QED BY <1>1, <2>1, <2>4, <3>1, <3>3, PolicyAssumption DEF Reserved
  <2> QED BY <2>5, <2>6
<1> QED BY <1>2, <1>3

\* The end of a call gives back the slot it may have taken from its environment's share.
LEMMA GiveBackKeepsReserve ==
  ASSUME GateInv, GateInv', NEW e \in Env, NEW s \in Service, GiveBack(e, s), Reserved
  PROVE  Reserved'
<1>0. GateTypeInv /\ GateTypeInv' /\ seen \subseteq Env /\ UNCHANGED <<share, seen>>
  BY DEF GateInv, GateTypeInv, GiveBack
<1>1. UnusedShares(seen) \in Nat /\ UnusedShares(seen) <= Maximum - total /\ total \in Nat
  BY <1>0, UnusedType DEF Reserved, GateTypeInv
<1>2. active[e] \in Nat /\ share[e] \in Nat /\ active'[e] = Less(active[e]) /\ share'[e] = share[e]
  BY <1>0, PolicyAssumption DEF GateTypeInv, GiveBack
<1>3. Unused(e) \in Nat /\ Unused(e)' \in Nat /\ Unused(e)' <= Unused(e) + 1
  BY <1>2 DEF Unused, Less
<1>4. \A x \in seen \ {e} : Unused(x)' = Unused(x)
  BY <1>0 DEF GateTypeInv, GiveBack, Unused
<1>5. UnusedShares(seen)' = IF e \in seen THEN UnusedShares(seen) - Unused(e) + Unused(e)' ELSE UnusedShares(seen)
  BY <1>0, <1>4, UnusedChange
<1>6. total' = total - 1
  BY DEF GiveBack
<1> QED BY <1>1, <1>3, <1>5, <1>6, PolicyAssumption DEF Reserved

\* A forgotten environment asks for no room, and a lowered share for less.
LEMMA OutsideKeepsReserve ==
  ASSUME GateInv, GateInv', NEW e \in Env, Outside(e), Reserved, \A x \in Env : ~ share'[x] > share[x]
  PROVE  Reserved'
<1>0. GateTypeInv /\ GateTypeInv' /\ seen \subseteq Env /\ seen' \subseteq seen /\ UNCHANGED <<total, active>>
  BY DEF GateInv, GateTypeInv, Outside, Forget, Pause, WaitForDrain, DrainTimeout, Resume, setGatewayShare,
         counterVars, pauseVars
<1>1. UnusedShares(seen) \in Nat /\ UnusedShares(seen) <= Maximum - total
  BY <1>0, UnusedType DEF Reserved, GateTypeInv
<1>2. ASSUME NEW x \in Env PROVE Unused(x)' <= Unused(x)
  <2>1. active[x] \in Nat /\ share[x] \in Nat /\ share'[x] \in Nat /\ share'[x] <= share[x] /\ active'[x] = active[x]
    BY <1>0, PolicyAssumption DEF GateTypeInv
  <2> QED BY <2>1 DEF Unused
<1>3. ASSUME NEW T \in SUBSET Env, T = seen'
      PROVE  UnusedShares(T)' <= UnusedShares(seen) /\ UnusedShares(T)' \in Nat
  BY <1>0, <1>2, <1>3, UnusedMonotone
<1>4. UnusedShares(seen)' \in Nat /\ UnusedShares(seen)' <= UnusedShares(seen)
  BY <1>0, <1>3 DEF UnusedShares, Unused
<1> QED BY <1>0, <1>1, <1>4, PolicyAssumption DEF Reserved, GateTypeInv

LEMMA GateStepKeepsReserve ==
  GateInv /\ GateInv' /\ [GateNext]_gateVars =>
    (Reserved /\ ~ Reserved' => seen' \ seen # {} \/ \E e \in Env : share'[e] > share[e])
<1> SUFFICES ASSUME GateInv, GateInv', [GateNext]_gateVars, Reserved,
                    seen' \subseteq seen, \A e \in Env : ~ share'[e] > share[e]
             PROVE  Reserved'
  OBVIOUS
<1>0. UNCHANGED <<share, counterVars, pauseVars>> => Reserved'
  BY DEF counterVars, pauseVars, Reserved, UnusedShares, Unused
<1>1. CASE UNCHANGED gateVars
  BY <1>0, <1>1 DEF gateVars
<1>2. ASSUME NEW e \in Env, NEW s \in Service, run(e, s) PROVE Reserved'
  <2>1. seen' = seen
    BY <1>2 DEF run
  <2> QED BY <1>2, <2>1, RunKeepsReserve
<1>3. ASSUME NEW e \in Env, NEW s \in Service, Respond(e, s) \/ Cancel(e, s) PROVE Reserved'
  BY <1>0, <1>3 DEF Respond, Cancel
<1>4. ASSUME NEW e \in Env, NEW s \in Service, CallEnds(e, s) PROVE Reserved'
  <2>1. ASSUME NEW p \in Phase, Finish(e, s, p) PROVE Reserved'
    BY <1>0, <2>1, GiveBackKeepsReserve DEF Finish
  <2> QED BY <1>4, <2>1 DEF CallEnds, Ends, Drained, DrainDeadline, LoopEnds, Phase, HeldPhase
<1>5. ASSUME NEW e \in Env, Outside(e) PROVE Reserved'
  BY <1>5, OutsideKeepsReserve
<1> QED BY <1>1, <1>2, <1>3, <1>4, <1>5 DEF GateNext, Outside

THEOREM BorrowersLeaveReserve == GateSpec => BorrowersKeepReserve
<1>1. GateInv /\ GateInv' /\ [GateNext]_gateVars =>
        [Reserved /\ ~ Reserved' => seen' \ seen # {} \/ \E e \in Env : share'[e] > share[e]]_gateVars
  BY GateStepKeepsReserve
<1> QED BY <1>1, GateInvariance, PTL DEF GateSpec, BorrowersKeepReserve

\* The shares of all environments fit in the gateway.
SharesFit == Total(share, Env) <= Maximum

LEMMA SharesKeepFitting == GateInv /\ SharesFit /\ [GateNext]_gateVars => SharesFit'
<1> SUFFICES ASSUME GateInv, SharesFit, [GateNext]_gateVars, share' # share PROVE SharesFit'
  BY DEF SharesFit
<1>1. PICK e \in Env, n \in Share : setGatewayShare(e, n)
  BY DEF GateNext, gateVars, counterVars, pauseVars, run, Respond, Cancel, CallEnds, Ends, Drained, DrainDeadline,
         LoopEnds, Finish, GiveBack, Forget, Pause, WaitForDrain, DrainTimeout, Resume
<1>2. /\ share \in [Env -> Nat] /\ share' = [share EXCEPT ![e] = n] /\ n \in Nat
      /\ n <= share[e] \/ Total(share, Env) - share[e] + n <= Maximum
  BY <1>1, PolicyAssumption, ShareAssumption DEF GateInv, GateTypeInv, setGatewayShare, MayRaise
<1>3. Counts(share, Env) /\ Counts(share', Env) /\ share'[e] = n /\ \A d \in Env \ {e} : share'[d] = share[d]
  BY <1>2 DEF Counts
<1>4. Total(share, Env) \in Nat
  BY <1>3, FiniteAssumption, UnitsFinite
<1>5. ASSUME NEW g, Counts(g, Env), \A d \in Env \ {e} : g[d] = share[d]
      PROVE  Total(g, Env) = Total(share, Env) - share[e] + g[e]
  BY <1>3, <1>5, FiniteAssumption, TotalChange
<1>6. Total(share', Env) = Total(share, Env) - share[e] + n
  BY <1>3, <1>5
<1> QED BY <1>2, <1>4, <1>6, PolicyAssumption DEF SharesFit

\* Where all the default shares fit in the gateway, a full gateway without a borrower has all of its
\* environments at their shares.
THEOREM GuaranteesHoldTogether ==
  ASSUME Total([e \in Env |-> DefaultShare], Env) <= Maximum
  PROVE  GateSpec => []FullOnlyByBorrowing
<1>1. GateInit => SharesFit
  BY DEF GateInit, SharesFit
<1>2. GateInv /\ SharesFit => FullOnlyByBorrowing
  <2> SUFFICES ASSUME GateInv, SharesFit, total >= Maximum, NEW e \in Env, active[e] < share[e],
                      \A f \in Env \ {e} : ~ Borrowing(f)
               PROVE  FALSE
    BY DEF FullOnlyByBorrowing
  <2> DEFINE g == [active EXCEPT ![e] = share[e]]
  <2>1. active \in [Env -> Nat] /\ share \in [Env -> Nat] /\ total \in Nat /\ total = Total(active, Env)
    BY PolicyAssumption DEF GateInv, GateTypeInv, CountersAgree
  <2>2. Counts(active, Env) /\ Counts(share, Env) /\ Counts(g, Env)
    BY <2>1 DEF Counts
  <2>3. Total(g, Env) = Total(active, Env) - active[e] + g[e]
    <3>1. \A d \in Env \ {e} : g[d] = active[d]
      BY <2>1
    <3> HIDE DEF g
    <3> QED BY <2>2, <3>1, FiniteAssumption, TotalChange
  <2>4. Total(g, Env) <= Total(share, Env)
    <3>1. \A d \in Env : g[d] <= share[d]
      BY <2>1 DEF Borrowing
    <3> HIDE DEF g
    <3> QED BY <2>2, <3>1, FiniteAssumption, TotalMonotone
  <2>5. g[e] = share[e] /\ Total(active, Env) \in Nat /\ Total(share, Env) \in Nat /\ Total(g, Env) \in Nat
    <3>1. g[e] = share[e]
      BY <2>1
    <3> HIDE DEF g
    <3> QED BY <2>2, <3>1, FiniteAssumption, UnitsFinite
  <2> HIDE DEF g
  <2> QED BY <2>1, <2>3, <2>4, <2>5, PolicyAssumption DEF SharesFit
<1> QED BY <1>1, <1>2, GateInvariance, SharesKeepFitting, PTL DEF GateSpec

-------------------------------------------------------------------------------
(* On demand services: what is true in every state. *)

Wants == {"off", "on"}
Askers == {"user", "wake", "idle", "kill"}
Modes == {"off", "on", "on_demand"}
RowType == [desired : Wants, state : RowStates, by : Askers]
ReqType == [at : {None, "held", "go", "use"}, service : Services \cup {None}, let : BOOLEAN]
WakeType == [service : Services, asked : BOOLEAN]
ChildType == [at : {None, "asked", "read", "run", "changed", "published", "broke"},
              want : {None} \cup Wants, by : {None} \cup Askers]

\* The catalog's rows.
CatalogType ==
    /\ row \in [Services -> RowType] /\ mode \in [Services -> Modes]
    /\ wakes \in [Services -> 0..WakesPerHour] /\ killed \in BOOLEAN

\* What the gateway and the console hold in memory.
UseType ==
    /\ recent \in [Services -> BOOLEAN] /\ known \in [Services -> BOOLEAN] /\ young \in BOOLEAN
    /\ req \in [Requests -> ReqType] /\ queue \in Seq(WakeType)

\* The host, the children and the bounds' counts.
HostType ==
    /\ box \in [Services -> BOOLEAN] /\ entry \in [Services -> BOOLEAN] /\ child \in [Services -> ChildType]
    /\ sup \in BOOLEAN /\ other \in BOOLEAN
    /\ calm \in [Services -> BOOLEAN] /\ calledOff \in [Services -> BOOLEAN]
TypeInv == CatalogType /\ UseType /\ HostType

\* A child runs under the supervisor.  Unless a sleep was called off under it, its row is pending and says what it
\* read, and for whom; and the container and the endpoints are as its steps leave them.
ChildInv ==
    \A s \in Services :
        LET c == child[s] IN
        /\ c # NoChild => sup /\ c.at # None
        /\ c # NoChild /\ ~calledOff[s] =>
             /\ row[s].state = "pending"
             /\ c.want # None => c.want = row[s].desired
             /\ c.by # None => c.by = row[s].by
        /\ c.at \in {"read", "run", "changed", "published"} => c.want # None
        /\ c.at \in {"changed", "published"} => (box[s] <=> c.want = "on")
        /\ c.at = "published" => (entry[s] <=> c.want = "on")

\* The endpoints name a container that is not there only after a change broke, until a person, a wake or the kill
\* switch has it applied again.
NamedInv ==
    \A s \in Services :
        sup /\ child[s].at \in {None, "asked", "read"} /\ entry[s] /\ ~box[s] =>
            row[s].state = "failed" \/ (row[s].state = "pending" /\ row[s].by # "idle")

\* RowTellsTruth as it stands while the supervisor is down: its start brings the containers back.
RowInv ==
    \A s \in Services :
        child[s] = NoChild /\ ~calledOff[s] =>
            /\ row[s].state = "on" => entry[s]
            /\ row[s].state = "off" => ~entry[s] /\ ~box[s]

\* Who was let go and has not arrived is a use the sleeper sees; while a stop for idleness is pending, nobody whom
\* ensure let in is on the way or at the service.
RequestInv ==
    \A r \in Requests :
        /\ req[r].at = None => req[r] = NoRequest
        /\ req[r].at # None => req[r].service \in Services
        /\ \A s \in Services : req[r].service = s =>
             /\ req[r].at = "go" => recent[s]
             /\ req[r].at = "held" => req[r].let
             /\ row[s].state = "pending" /\ row[s].by = "idle" /\ req[r].let => req[r].at = "held"

IInv == TypeInv /\ ChildInv /\ NamedInv /\ RowInv /\ RequestInv

-------------------------------------------------------------------------------
(* Every step keeps IInv. *)

\* What the writes of a row, a request and a child give.
LEMMA Shapes ==
  /\ NoRequest \in ReqType /\ NoChild \in ChildType
  /\ \A r \in RowType, x \in RowStates : [r EXCEPT !.state = x] \in RowType
                                        /\ [r EXCEPT !.state = x] = [desired |-> r.desired, state |-> x, by |-> r.by]
  /\ \A q \in ReqType : /\ [q EXCEPT !.at = "use"] = [at |-> "use", service |-> q.service, let |-> q.let]
                        /\ [q EXCEPT !.at = "go"] = [at |-> "go", service |-> q.service, let |-> q.let]
  /\ \A c \in ChildType, b \in Askers :
        [c EXCEPT !.at = "run", !.by = b] = [at |-> "run", want |-> c.want, by |-> b]
<1>1. NoRequest \in ReqType /\ NoChild \in ChildType
  BY DEF ReqType, ChildType, NoRequest, NoChild
<1>2. ASSUME NEW r \in RowType, NEW x \in RowStates
      PROVE  /\ [r EXCEPT !.state = x] \in RowType
             /\ [r EXCEPT !.state = x] = [desired |-> r.desired, state |-> x, by |-> r.by]
  BY DEF RowType
<1>3. ASSUME NEW q \in ReqType
      PROVE  /\ [q EXCEPT !.at = "use"] = [at |-> "use", service |-> q.service, let |-> q.let]
             /\ [q EXCEPT !.at = "go"] = [at |-> "go", service |-> q.service, let |-> q.let]
  BY DEF ReqType
<1>4. ASSUME NEW c \in ChildType, NEW b \in Askers
      PROVE  [c EXCEPT !.at = "run", !.by = b] = [at |-> "run", want |-> c.want, by |-> b]
  <2>1. [c EXCEPT !.at = "run"] = [at |-> "run", want |-> c.want, by |-> c.by]
    BY DEF ChildType
  <2>2. [c EXCEPT !.at = "run", !.by = b] = [[c EXCEPT !.at = "run"] EXCEPT !.by = b]
    OBVIOUS
  <2>3. [[at |-> "run", want |-> c.want, by |-> c.by] EXCEPT !.by = b] = [at |-> "run", want |-> c.want, by |-> b]
    OBVIOUS
  <2> QED
    BY <2>1, <2>2, <2>3
<1> QED
  BY <1>1, <1>2, <1>3, <1>4

\* What the writes of the queue of wakes keep.
LEMMA Queues ==
  ASSUME queue \in Seq(WakeType)
  PROVE  /\ \A s \in Services : Append(queue, [service |-> s, asked |-> FALSE]) \in Seq(WakeType)
         /\ queue # <<>> => Tail(queue) \in Seq(WakeType) /\ First.service \in Services
         /\ queue # <<>> => [queue EXCEPT ![1].asked = TRUE] \in Seq(WakeType)
<1>1. ASSUME NEW s \in Services PROVE Append(queue, [service |-> s, asked |-> FALSE]) \in Seq(WakeType)
  <2>1. [service |-> s, asked |-> FALSE] \in WakeType
    BY DEF WakeType
  <2> QED
    BY <2>1, AppendProperties
<1>2. ASSUME queue # <<>> PROVE Tail(queue) \in Seq(WakeType) /\ First.service \in Services
  <2>1. Tail(queue) \in Seq(WakeType) /\ Head(queue) \in WakeType
    BY <1>2, HeadTailProperties
  <2> QED
    BY <2>1 DEF First, WakeType
<1>3. ASSUME queue # <<>> PROVE [queue EXCEPT ![1].asked = TRUE] \in Seq(WakeType)
  <2>1. 1 \in 1..Len(queue) /\ queue[1] \in WakeType
    BY <1>3, EmptySeq, LenProperties
  <2>2. [queue[1] EXCEPT !.asked = TRUE] \in WakeType
    BY <2>1 DEF WakeType
  <2>3. [queue EXCEPT ![1] = [queue[1] EXCEPT !.asked = TRUE]] \in Seq(WakeType)
    BY <2>1, <2>2, ExceptSeq
  <2> QED
    BY <2>3
<1> QED
  BY <1>1, <1>2, <1>3

\* A wake's answer: who waited is on the way, and counts as use, or is gone.
LEMMA Answer ==
  ASSUME TypeInv, NEW ok \in BOOLEAN, queue # <<>>, WakeAnswers(ok)
  PROVE  /\ UseType'
         /\ First.service \in Services
         /\ \A s \in Services : (recent[s] => recent'[s]) /\ (ok /\ s = First.service => recent'[s])
         /\ \A r \in Requests :
              \/ req'[r] = req[r]
              \/ req[r].service = First.service /\ req'[r] = NoRequest
              \/ /\ ok /\ req[r].at = "held" /\ req[r].service = First.service
                 /\ req'[r] = [at |-> "go", service |-> First.service, let |-> req[r].let]
<1>1. queue' \in Seq(WakeType) /\ First.service \in Services
  BY Queues DEF TypeInv, UseType, WakeAnswers
<1>2. recent' \in [Services -> BOOLEAN] /\ \A s \in Services : (recent[s] => recent'[s]) /\ (ok /\ s = First.service => recent'[s])
  BY <1>1 DEF TypeInv, UseType, WakeAnswers
<1>3. \A r \in Requests :
        \/ req'[r] = req[r]
        \/ req[r].service = First.service /\ req'[r] = NoRequest
        \/ /\ ok /\ req[r].at = "held" /\ req[r].service = First.service
           /\ req'[r] = [at |-> "go", service |-> First.service, let |-> req[r].let]
  <2>1. req \in [Requests -> ReqType]
    BY DEF TypeInv, UseType
  <2>2. \A r \in Requests : [req[r] EXCEPT !.at = "go"] = [at |-> "go", service |-> req[r].service, let |-> req[r].let]
    BY <2>1, Shapes
  <2> QED
    BY <2>2 DEF WakeAnswers
<1>4. req' \in [Requests -> ReqType]
  <2>1. req' = [r \in Requests |-> req'[r]]
    BY DEF WakeAnswers
  <2>2. ASSUME NEW r \in Requests PROVE req'[r] \in ReqType
    <3>1. req[r] \in ReqType /\ req[r].let \in BOOLEAN
      BY DEF TypeInv, UseType, ReqType
    <3>2. ASSUME NEW x \in BOOLEAN PROVE [at |-> "go", service |-> First.service, let |-> x] \in ReqType
      BY <1>1 DEF ReqType
    <3> QED
      BY <3>1, <3>2, <1>3, Shapes
  <2> QED
    BY <2>1, <2>2
<1> QED
  BY <1>1, <1>2, <1>3, <1>4 DEF TypeInv, UseType, WakeAnswers

LEMMA InitHolds == ASSUME Init PROVE IInv
<1>1. CatalogType
  <2>1. 0 \in 0..WakesPerHour
    BY LimitsAssumption
  <2>2. [desired |-> "off", state |-> "off", by |-> "user"] \in RowType
    BY DEF RowType, RowStates, Wants, Askers
  <2> QED
    BY <2>1, <2>2 DEF Init, CatalogType, Modes
<1>2. UseType /\ HostType
  BY Shapes, EmptySeq DEF Init, UseType, HostType
<1>3. ChildInv /\ NamedInv /\ RowInv /\ RequestInv
  BY DEF Init, ChildInv, NamedInv, RowInv, RequestInv, NoChild, NoRequest, None
<1> QED
  BY <1>1, <1>2, <1>3 DEF IInv, TypeInv

LEMMA setServiceModeKeeps == ASSUME IInv, NEW s \in Services, NEW m \in Modes, setServiceMode(s, m) PROVE IInv'
<1>1. UseType'
  BY DEF IInv, setServiceMode, useVars, hostVars, TypeInv, UseType
<1>2. CatalogType'
  BY DEF IInv, TypeInv, CatalogType, RowType, RowStates, Wants, Askers, Modes, setServiceMode, useVars,
     hostVars, Asks
<1>3. HostType'
  BY DEF IInv, TypeInv, HostType, ChildType, Wants, Askers, None, setServiceMode, useVars, hostVars, Asks
<1>4. ChildInv'
  BY DEF IInv, TypeInv, CatalogType, HostType, RowType, ChildType, Wants, Askers, RowStates, ChildInv,
     NoChild, None, setServiceMode, useVars, hostVars, Asks
<1>5. NamedInv'
  BY DEF IInv, TypeInv, CatalogType, HostType, RowType, ChildType, Wants, Askers, RowStates, NamedInv,
     NoChild, None, setServiceMode, useVars, hostVars, Asks
<1>6. RowInv'
  <2>1. \A t \in Services : row'[t].state = "pending" \/ row'[t] = row[t]
    BY DEF IInv, TypeInv, CatalogType, setServiceMode, Asks
  <2>2. child' = child /\ calledOff' = calledOff /\ entry' = entry /\ box' = box
    BY DEF setServiceMode, hostVars
  <2> QED
    BY <2>1, <2>2 DEF IInv, RowInv
<1>7. RequestInv'
  <2>1. \A t \in Services : row'[t].state = "pending" /\ row'[t].by = "idle" => row[t].state = "pending" /\ row[t].by = "idle"
    BY DEF IInv, TypeInv, CatalogType, setServiceMode, Asks
  <2> QED
    BY <2>1 DEF IInv, RequestInv, setServiceMode, useVars
<1> QED
  BY <1>1, <1>2, <1>3, <1>4, <1>5, <1>6, <1>7 DEF IInv, TypeInv

LEMMA setKillSwitchKeeps == ASSUME IInv, setKillSwitch PROVE IInv'
<1>1. UseType' /\ HostType' /\ ChildInv' /\ NamedInv' /\ RowInv' /\ RequestInv'
  BY DEF IInv, setKillSwitch, useVars, hostVars, TypeInv, UseType, HostType, ChildInv, NamedInv, RowInv,
     RequestInv
<1>2. CatalogType'
  BY DEF IInv, TypeInv, CatalogType, RowType, RowStates, Wants, Askers, Modes, setKillSwitch, useVars, hostVars
<1> QED
  BY <1>1, <1>2 DEF IInv, TypeInv

LEMMA StraightKeeps == ASSUME IInv, NEW r \in Requests, NEW s \in Services, Straight(r, s) PROVE IInv'
<1>1. CatalogType' /\ HostType' /\ ChildInv' /\ NamedInv' /\ RowInv'
  BY DEF IInv, Straight, catalogVars, hostVars, TypeInv, CatalogType, HostType, ChildInv, NamedInv, RowInv
<1>2. UseType'
  BY DEF IInv, TypeInv, UseType, ReqType, WakeType, None, Straight, catalogVars, hostVars, Goes, Touch
<1>3. RequestInv'
  BY DEF IInv, TypeInv, CatalogType, UseType, RowType, ReqType, Wants, Askers, RowStates, RequestInv,
     NoRequest, None, Straight, catalogVars, hostVars, Goes, Touch
<1> QED
  BY <1>1, <1>2, <1>3 DEF IInv, TypeInv

LEMMA EnsureRefusesKeeps == ASSUME IInv, NEW r \in Requests, NEW s \in Services, EnsureRefuses(r, s) PROVE IInv'
<1>1. CatalogType' /\ HostType' /\ ChildInv' /\ NamedInv' /\ RowInv' /\ RequestInv'
  BY DEF IInv, EnsureRefuses, catalogVars, hostVars, TypeInv, CatalogType, HostType, ChildInv, NamedInv,
     RowInv, RequestInv
<1>2. UseType'
  BY DEF IInv, TypeInv, UseType, ReqType, WakeType, None, EnsureRefuses, catalogVars, hostVars, Learn
<1> QED
  BY <1>1, <1>2 DEF IInv, TypeInv

LEMMA EnsureUpKeeps == ASSUME IInv, NEW r \in Requests, NEW s \in Services, EnsureUp(r, s) PROVE IInv'
<1>1. CatalogType' /\ HostType' /\ ChildInv' /\ NamedInv' /\ RowInv'
  BY DEF IInv, EnsureUp, catalogVars, hostVars, TypeInv, CatalogType, HostType, ChildInv, NamedInv, RowInv
<1>2. UseType'
  BY DEF IInv, TypeInv, UseType, ReqType, WakeType, None, EnsureUp, catalogVars, hostVars, Asked, Learn,
     Goes, Touch, Up
<1>3. RequestInv'
  BY DEF IInv, TypeInv, CatalogType, UseType, RowType, ReqType, Wants, Askers, RowStates, RequestInv,
     NoRequest, None, EnsureUp, catalogVars, hostVars, Asked, Learn, Goes, Touch, Up
<1> QED
  BY <1>1, <1>2, <1>3 DEF IInv, TypeInv

LEMMA EnsureCallsOffKeeps == ASSUME IInv, NEW r \in Requests, NEW s \in Services, EnsureCallsOff(r, s) PROVE IInv'
<1>1. CatalogType'
  BY DEF IInv, TypeInv, CatalogType, RowType, RowStates, Wants, Askers, Modes, EnsureCallsOff, hostVars,
     Asked, MayCancel, cancelSleep, Learn, Goes, Touch
<1>2. UseType'
  BY DEF IInv, TypeInv, UseType, ReqType, WakeType, None, EnsureCallsOff, hostVars, Asked, MayCancel,
     cancelSleep, Learn, Goes, Touch
<1>3. HostType'
  BY DEF IInv, TypeInv, HostType, ChildType, Wants, Askers, None, EnsureCallsOff, hostVars, Asked,
     MayCancel, cancelSleep, Learn, Goes, Touch
<1>4. ChildInv'
  BY DEF IInv, TypeInv, CatalogType, HostType, RowType, ChildType, Wants, Askers, RowStates, ChildInv,
     NoChild, None, EnsureCallsOff, hostVars, Asked, MayCancel, cancelSleep, Learn, Goes, Touch
<1>5. NamedInv'
  BY DEF IInv, TypeInv, CatalogType, HostType, RowType, ChildType, Wants, Askers, RowStates, NamedInv,
     NoChild, None, EnsureCallsOff, hostVars, Asked, MayCancel, cancelSleep, Learn, Goes, Touch
<1>6. RowInv'
  BY DEF IInv, TypeInv, CatalogType, HostType, RowType, ChildType, Wants, Askers, RowStates, RowInv,
     NoChild, None, EnsureCallsOff, hostVars, Asked, MayCancel, cancelSleep, Learn, Goes, Touch
<1>7. RequestInv'
  BY DEF IInv, TypeInv, CatalogType, UseType, RowType, ReqType, Wants, Askers, RowStates, RequestInv,
     NoRequest, None, EnsureCallsOff, hostVars, Asked, MayCancel, cancelSleep, Learn, Goes, Touch
<1> QED
  BY <1>1, <1>2, <1>3, <1>4, <1>5, <1>6, <1>7 DEF IInv, TypeInv

LEMMA EnsureHoldsKeeps == ASSUME IInv, NEW r \in Requests, NEW s \in Services, EnsureHolds(r, s) PROVE IInv'
<1>1. CatalogType' /\ HostType' /\ ChildInv' /\ NamedInv' /\ RowInv'
  BY DEF IInv, EnsureHolds, catalogVars, hostVars, TypeInv, CatalogType, HostType, ChildInv, NamedInv, RowInv
<1>2. UseType'
  BY Queues DEF IInv, TypeInv, UseType, ReqType, WakeType, None, EnsureHolds, catalogVars, hostVars, Asked,
     Learn, Goes
<1>3. RequestInv'
  BY DEF IInv, TypeInv, CatalogType, UseType, RowType, ReqType, Wants, Askers, RowStates, RequestInv,
     NoRequest, None, EnsureHolds, catalogVars, hostVars, Asked, Learn, Goes
<1> QED
  BY <1>1, <1>2, <1>3 DEF IInv, TypeInv

LEMMA HoldEndsKeeps == ASSUME IInv, NEW r \in Requests, HoldEnds(r) PROVE IInv'
<1>1. CatalogType' /\ HostType' /\ ChildInv' /\ NamedInv' /\ RowInv'
  BY DEF IInv, HoldEnds, catalogVars, hostVars, TypeInv, CatalogType, HostType, ChildInv, NamedInv, RowInv
<1>2. UseType'
  BY Shapes DEF IInv, TypeInv, UseType, ReqType, WakeType, None, HoldEnds, catalogVars, hostVars
<1>3. RequestInv'
  BY DEF IInv, TypeInv, CatalogType, UseType, RowType, ReqType, Wants, Askers, RowStates, RequestInv,
     NoRequest, None, HoldEnds, catalogVars, hostVars
<1> QED
  BY <1>1, <1>2, <1>3 DEF IInv, TypeInv

LEMMA ReachesKeeps == ASSUME IInv, NEW r \in Requests, Reaches(r) PROVE IInv'
<1>1. CatalogType' /\ HostType' /\ ChildInv' /\ NamedInv' /\ RowInv'
  BY DEF IInv, Reaches, catalogVars, hostVars, TypeInv, CatalogType, HostType, ChildInv, NamedInv, RowInv
<1>2. PICK q : /\ req' = [req EXCEPT ![r] = q]
               /\ q = NoRequest \/ q = [req[r] EXCEPT !.at = "use"]
  BY DEF Reaches
<1>3. req[r] \in ReqType
  BY DEF IInv, TypeInv, UseType
<1>4. /\ q \in ReqType
      /\ q = NoRequest \/ q = [at |-> "use", service |-> req[r].service, let |-> req[r].let]
  BY <1>2, <1>3, Shapes DEF ReqType
<1>5. UseType'
  BY <1>2, <1>4 DEF IInv, TypeInv, UseType, Reaches, catalogVars, hostVars
<1>6. RequestInv'
  <2>1. SUFFICES ASSUME NEW x \in Requests
                 PROVE  /\ req'[x].at = None => req'[x] = NoRequest
                        /\ req'[x].at # None => req'[x].service \in Services
                        /\ \A s \in Services : req'[x].service = s =>
                             /\ req'[x].at = "go" => recent[s]
                             /\ req'[x].at = "held" => req'[x].let
                             /\ row[s].state = "pending" /\ row[s].by = "idle" /\ req'[x].let => req'[x].at = "held"
    BY DEF RequestInv, Reaches, catalogVars, hostVars
  <2>2. CASE x # r
    <3>1. req'[x] = req[x]
      BY <1>2, <2>2 DEF IInv, TypeInv, UseType
    <3> QED BY <3>1 DEF IInv, RequestInv
  <2>3. CASE x = r
    <3>1. req'[x] = q
      BY <1>2, <2>3 DEF IInv, TypeInv, UseType
    <3>2. req[r].at = "go"
      BY DEF Reaches
    <3> QED BY <1>3, <1>4, <3>1, <3>2 DEF IInv, RequestInv, NoRequest, None
  <2> QED BY <2>2, <2>3
<1> QED
  BY <1>1, <1>5, <1>6 DEF IInv, TypeInv

LEMMA LeavesKeeps == ASSUME IInv, NEW r \in Requests, Leaves(r) PROVE IInv'
<1>1. CatalogType' /\ HostType' /\ ChildInv' /\ NamedInv' /\ RowInv'
  BY DEF IInv, Leaves, catalogVars, hostVars, TypeInv, CatalogType, HostType, ChildInv, NamedInv, RowInv
<1>2. UseType'
  BY Shapes DEF IInv, TypeInv, UseType, ReqType, WakeType, None, Leaves, catalogVars, hostVars
<1>3. RequestInv'
  BY DEF IInv, TypeInv, CatalogType, UseType, RowType, ReqType, Wants, Askers, RowStates, RequestInv,
     NoRequest, None, Leaves, catalogVars, hostVars
<1> QED
  BY <1>1, <1>2, <1>3 DEF IInv, TypeInv

LEMMA WakeUpKeeps == ASSUME IInv, WakeUp PROVE IInv'
<1>1. CatalogType' /\ HostType' /\ ChildInv' /\ NamedInv' /\ RowInv'
  BY DEF IInv, WakeUp, catalogVars, hostVars, TypeInv, CatalogType, HostType, ChildInv, NamedInv, RowInv
<1>2. UseType'
  BY Answer DEF IInv, WakeUp
<1>3. RequestInv'
  <2>1. queue # <<>> /\ WakeAnswers(TRUE) /\ UNCHANGED row /\ row[First.service].state = "on"
    BY DEF WakeUp, catalogVars, Up
  <2>2. \A s \in Services : (recent[s] => recent'[s]) /\ (TRUE /\ s = First.service => recent'[s])
    BY <2>1, Answer DEF IInv
  <2>3. First.service \in Services
    BY <2>1, Answer DEF IInv
  <2>4. ASSUME NEW r \in Requests
        PROVE  \/ req'[r] = req[r]
               \/ req'[r] = NoRequest
               \/ /\ TRUE /\ req[r].at = "held" /\ req[r].service = First.service
                  /\ req'[r] = [at |-> "go", service |-> First.service, let |-> req[r].let]
    BY <2>1, Answer DEF IInv
  <2> SUFFICES ASSUME NEW r \in Requests PROVE RequestInv!(r)'
    BY DEF RequestInv
  <2>5. CASE req'[r] = req[r]
    BY <2>1, <2>2, <2>5 DEF IInv, RequestInv
  <2>6. CASE req'[r] = NoRequest
    BY <2>6 DEF NoRequest, None
  <2>7. CASE /\ req[r].at = "held" /\ req[r].service = First.service
             /\ req'[r] = [at |-> "go", service |-> First.service, let |-> req[r].let]
    BY <2>1, <2>2, <2>3, <2>7 DEF None
  <2> QED
    BY <2>4, <2>5, <2>6, <2>7
<1> QED
  BY <1>1, <1>2, <1>3 DEF IInv, TypeInv

LEMMA WakeFailsKeeps == ASSUME IInv, WakeFails PROVE IInv'
<1>1. CatalogType' /\ HostType' /\ ChildInv' /\ NamedInv' /\ RowInv'
  BY DEF IInv, WakeFails, catalogVars, hostVars, TypeInv, CatalogType, HostType, ChildInv, NamedInv, RowInv
<1>2. UseType'
  <2>1. queue # <<>> /\ WakeAnswers(FALSE)
    BY DEF WakeFails
  <2> QED
    BY <2>1, Answer DEF IInv
<1>3. RequestInv'
  <2>1. queue # <<>> /\ WakeAnswers(FALSE) /\ UNCHANGED row
    BY DEF WakeFails, catalogVars
  <2>2. \A s \in Services : (recent[s] => recent'[s]) /\ (FALSE /\ s = First.service => recent'[s])
    BY <2>1, Answer DEF IInv
  <2>3. First.service \in Services
    BY <2>1, Answer DEF IInv
  <2>4. ASSUME NEW r \in Requests
        PROVE  \/ req'[r] = req[r]
               \/ req'[r] = NoRequest
               \/ /\ FALSE /\ req[r].at = "held" /\ req[r].service = First.service
                  /\ req'[r] = [at |-> "go", service |-> First.service, let |-> req[r].let]
    BY <2>1, Answer DEF IInv
  <2> QED
    BY <2>1, <2>2, <2>4 DEF IInv, RequestInv, NoRequest, None
<1> QED
  BY <1>1, <1>2, <1>3 DEF IInv, TypeInv

LEMMA WakeAsksKeeps == ASSUME IInv, WakeAsks PROVE IInv'
<1>1. queue # <<>> /\ First.service \in Services /\ UNCHANGED <<mode, killed, hostVars, calledOff>>
      /\ (\/ WakeAnswers(FALSE) /\ UNCHANGED row /\ UNCHANGED wakes
          \/ /\ row' = [row EXCEPT ![First.service] = [desired |-> "on", state |-> "pending", by |-> "wake"]]
             /\ row[First.service].state # "pending"
             /\ wakes[First.service] < WakesPerHour /\ wakes' = [wakes EXCEPT ![First.service] = @ + 1]
             /\ queue' = [queue EXCEPT ![1].asked = TRUE] /\ UNCHANGED <<recent, young, known, req>>)
  <2>1. queue # <<>> /\ First.service \in Services
    BY Queues DEF IInv, TypeInv, UseType, WakeAsks
  <2>2. wakes[First.service] \in Nat /\ WakesPerHour \in Nat
    BY <2>1, LimitsAssumption DEF IInv, TypeInv, CatalogType
  <2>3. CASE Spent(First.service)
    BY <2>1, <2>3 DEF WakeAsks, catalogVars
  <2>4. CASE ~Spent(First.service)
    <3>1. wakes[First.service] < WakesPerHour
      BY <2>2, <2>4 DEF Spent
    <3> QED
      BY <2>1, <2>4, <3>1 DEF WakeAsks, Asks
  <2> QED
    BY <2>3, <2>4
<1>2. CatalogType'
  <2>1. CASE WakeAnswers(FALSE) /\ UNCHANGED row /\ UNCHANGED wakes
    BY <1>1, <2>1 DEF IInv, TypeInv, CatalogType
  <2>2. CASE /\ row' = [row EXCEPT ![First.service] = [desired |-> "on", state |-> "pending", by |-> "wake"]]
             /\ row[First.service].state # "pending"
             /\ wakes[First.service] < WakesPerHour /\ wakes' = [wakes EXCEPT ![First.service] = @ + 1]
             /\ queue' = [queue EXCEPT ![1].asked = TRUE] /\ UNCHANGED <<recent, young, known, req>>
    <3>1. [desired |-> "on", state |-> "pending", by |-> "wake"] \in RowType
      BY DEF RowType, RowStates, Wants, Askers
    <3>2. wakes[First.service] + 1 \in 0..WakesPerHour
      BY <1>1, <2>2, LimitsAssumption DEF IInv, TypeInv, CatalogType
    <3> QED
      BY <1>1, <2>2, <3>1, <3>2 DEF IInv, TypeInv, CatalogType, WakeAsks
  <2> QED
    BY <1>1, <2>1, <2>2
<1>3. UseType'
  <2>1. CASE WakeAnswers(FALSE) /\ UNCHANGED row /\ UNCHANGED wakes
    BY <1>1, <2>1, Answer DEF IInv
  <2>2. CASE /\ row' = [row EXCEPT ![First.service] = [desired |-> "on", state |-> "pending", by |-> "wake"]]
             /\ row[First.service].state # "pending"
             /\ wakes[First.service] < WakesPerHour /\ wakes' = [wakes EXCEPT ![First.service] = @ + 1]
             /\ queue' = [queue EXCEPT ![1].asked = TRUE] /\ UNCHANGED <<recent, young, known, req>>
    BY <1>1, <2>2, Queues DEF IInv, TypeInv, UseType
  <2> QED
    BY <1>1, <2>1, <2>2
<1>4. HostType'
  BY DEF IInv, TypeInv, HostType, ChildType, Wants, Askers, None, WakeAsks, catalogVars, hostVars,
     WakeAnswers, First, Spent, MayAsk, Asks
<1>5. ChildInv'
  <2>1. CASE WakeAnswers(FALSE) /\ UNCHANGED row /\ UNCHANGED wakes
    BY <1>1, <2>1 DEF IInv, hostVars, ChildInv
  <2>2. CASE /\ row' = [row EXCEPT ![First.service] = [desired |-> "on", state |-> "pending", by |-> "wake"]]
             /\ row[First.service].state # "pending"
             /\ wakes[First.service] < WakesPerHour /\ wakes' = [wakes EXCEPT ![First.service] = @ + 1]
             /\ queue' = [queue EXCEPT ![1].asked = TRUE] /\ UNCHANGED <<recent, young, known, req>>
    BY <1>1, <2>2 DEF IInv, TypeInv, CatalogType, hostVars, ChildInv
  <2> QED
    BY <1>1, <2>1, <2>2
<1>6. NamedInv'
  <2>1. CASE WakeAnswers(FALSE) /\ UNCHANGED row /\ UNCHANGED wakes
    BY <1>1, <2>1 DEF IInv, hostVars, NamedInv
  <2>2. CASE /\ row' = [row EXCEPT ![First.service] = [desired |-> "on", state |-> "pending", by |-> "wake"]]
             /\ row[First.service].state # "pending"
             /\ wakes[First.service] < WakesPerHour /\ wakes' = [wakes EXCEPT ![First.service] = @ + 1]
             /\ queue' = [queue EXCEPT ![1].asked = TRUE] /\ UNCHANGED <<recent, young, known, req>>
    BY <1>1, <2>2 DEF IInv, TypeInv, CatalogType, hostVars, NamedInv
  <2> QED
    BY <1>1, <2>1, <2>2
<1>7. RowInv'
  <2>1. CASE WakeAnswers(FALSE) /\ UNCHANGED row /\ UNCHANGED wakes
    BY <1>1, <2>1 DEF IInv, hostVars, RowInv
  <2>2. CASE /\ row' = [row EXCEPT ![First.service] = [desired |-> "on", state |-> "pending", by |-> "wake"]]
             /\ row[First.service].state # "pending"
             /\ wakes[First.service] < WakesPerHour /\ wakes' = [wakes EXCEPT ![First.service] = @ + 1]
             /\ queue' = [queue EXCEPT ![1].asked = TRUE] /\ UNCHANGED <<recent, young, known, req>>
    BY <1>1, <2>2 DEF IInv, TypeInv, CatalogType, hostVars, RowInv
  <2> QED
    BY <1>1, <2>1, <2>2
<1>8. RequestInv'
  <2>1. CASE WakeAnswers(FALSE) /\ UNCHANGED row /\ UNCHANGED wakes
    <3>1. \A s \in Services : recent[s] => recent'[s]
      BY <1>1, <2>1, Answer DEF IInv
    <3>2. \A r \in Requests : req'[r] = req[r] \/ req'[r] = NoRequest
      BY <1>1, <2>1, Answer DEF IInv
    <3> QED
      BY <2>1, <3>1, <3>2 DEF IInv, RequestInv, NoRequest, None
  <2>2. CASE /\ row' = [row EXCEPT ![First.service] = [desired |-> "on", state |-> "pending", by |-> "wake"]]
             /\ row[First.service].state # "pending"
             /\ wakes[First.service] < WakesPerHour /\ wakes' = [wakes EXCEPT ![First.service] = @ + 1]
             /\ queue' = [queue EXCEPT ![1].asked = TRUE] /\ UNCHANGED <<recent, young, known, req>>
    BY <1>1, <2>2 DEF IInv, TypeInv, CatalogType, RequestInv
  <2> QED
    BY <1>1, <2>1, <2>2
<1> QED
  BY <1>2, <1>3, <1>4, <1>5, <1>6, <1>7, <1>8 DEF IInv, TypeInv

LEMMA WakeDeadlineKeeps == ASSUME IInv, WakeDeadline PROVE IInv'
<1>1. CatalogType' /\ HostType' /\ ChildInv' /\ NamedInv' /\ RowInv'
  BY DEF IInv, WakeDeadline, catalogVars, hostVars, TypeInv, CatalogType, HostType, ChildInv, NamedInv, RowInv
<1>2. UseType'
  BY Answer DEF IInv, WakeDeadline
<1>3. RequestInv'
  <2>1. queue # <<>> /\ WakeAnswers(FALSE) /\ UNCHANGED row
    BY DEF WakeDeadline, catalogVars
  <2>2. \A s \in Services : (recent[s] => recent'[s]) /\ (FALSE /\ s = First.service => recent'[s])
    BY <2>1, Answer DEF IInv
  <2>3. First.service \in Services
    BY <2>1, Answer DEF IInv
  <2>4. ASSUME NEW r \in Requests
        PROVE  \/ req'[r] = req[r]
               \/ req'[r] = NoRequest
               \/ /\ FALSE /\ req[r].at = "held" /\ req[r].service = First.service
                  /\ req'[r] = [at |-> "go", service |-> First.service, let |-> req[r].let]
    BY <2>1, Answer DEF IInv
  <2> QED
    BY <2>1, <2>2, <2>4 DEF IInv, RequestInv, NoRequest, None
<1> QED
  BY <1>1, <1>2, <1>3 DEF IInv, TypeInv

LEMMA KillSweepKeeps == ASSUME IInv, NEW s \in Services, KillSweep(s) PROVE IInv'
<1>1. UseType'
  BY DEF IInv, KillSweep, useVars, hostVars, TypeInv, UseType
<1>2. CatalogType'
  BY DEF IInv, TypeInv, CatalogType, RowType, RowStates, Wants, Askers, Modes, KillSweep, useVars, hostVars,
     MayAsk, Asks
<1>3. HostType'
  BY DEF IInv, TypeInv, HostType, ChildType, Wants, Askers, None, KillSweep, useVars, hostVars, MayAsk, Asks
<1>4. ChildInv'
  BY DEF IInv, TypeInv, CatalogType, HostType, RowType, ChildType, Wants, Askers, RowStates, ChildInv,
     NoChild, None, KillSweep, useVars, hostVars, MayAsk, Asks
<1>5. NamedInv'
  BY DEF IInv, TypeInv, CatalogType, HostType, RowType, ChildType, Wants, Askers, RowStates, NamedInv,
     NoChild, None, KillSweep, useVars, hostVars, MayAsk, Asks
<1>6. RowInv'
  BY DEF IInv, TypeInv, CatalogType, HostType, RowType, ChildType, Wants, Askers, RowStates, RowInv,
     NoChild, None, KillSweep, useVars, hostVars, MayAsk, Asks
<1>7. RequestInv'
  BY DEF IInv, TypeInv, CatalogType, UseType, RowType, ReqType, Wants, Askers, RowStates, RequestInv,
     NoRequest, None, KillSweep, useVars, hostVars, MayAsk, Asks
<1> QED
  BY <1>1, <1>2, <1>3, <1>4, <1>5, <1>6, <1>7 DEF IInv, TypeInv

LEMMA IdleSweepKeeps == ASSUME IInv, NEW s \in Services, IdleSweep(s) PROVE IInv'
<1>1. UseType'
  BY DEF IInv, IdleSweep, useVars, hostVars, TypeInv, UseType
<1>2. CatalogType'
  BY DEF IInv, TypeInv, CatalogType, RowType, RowStates, Wants, Askers, Modes, IdleSweep, useVars, hostVars,
     MayAsk, Asks, Up, quietFor, InUse
<1>3. HostType'
  BY DEF IInv, TypeInv, HostType, ChildType, Wants, Askers, None, IdleSweep, useVars, hostVars, MayAsk,
     Asks, Up, quietFor, InUse
<1>4. ChildInv'
  BY DEF IInv, TypeInv, CatalogType, HostType, RowType, ChildType, Wants, Askers, RowStates, ChildInv,
     NoChild, None, IdleSweep, useVars, hostVars, MayAsk, Asks, Up, quietFor, InUse
<1>5. NamedInv'
  BY DEF IInv, TypeInv, CatalogType, HostType, RowType, ChildType, Wants, Askers, RowStates, NamedInv,
     NoChild, None, IdleSweep, useVars, hostVars, MayAsk, Asks, Up, quietFor, InUse
<1>6. RowInv'
  BY DEF IInv, TypeInv, CatalogType, HostType, RowType, ChildType, Wants, Askers, RowStates, RowInv,
     NoChild, None, IdleSweep, useVars, hostVars, MayAsk, Asks, Up, quietFor, InUse
<1>7. RequestInv'
  BY DEF IInv, TypeInv, CatalogType, UseType, RowType, ReqType, Wants, Askers, RowStates, RequestInv,
     NoRequest, None, IdleSweep, useVars, hostVars, MayAsk, Asks, Up, quietFor, InUse
<1> QED
  BY <1>1, <1>2, <1>3, <1>4, <1>5, <1>6, <1>7 DEF IInv, TypeInv

LEMMA ElapseKeeps == ASSUME IInv, NEW s \in Services, Elapse(s) PROVE IInv'
<1>1. CatalogType' /\ ChildInv' /\ NamedInv' /\ RowInv'
  BY DEF IInv, Elapse, catalogVars, hostVars, TypeInv, CatalogType, ChildInv, NamedInv, RowInv
<1>2. UseType'
  BY DEF IInv, TypeInv, UseType, ReqType, WakeType, None, Elapse, catalogVars, hostVars
<1>3. HostType'
  BY DEF IInv, TypeInv, HostType, ChildType, Wants, Askers, None, Elapse, catalogVars, hostVars
<1>4. RequestInv'
  BY DEF IInv, TypeInv, CatalogType, UseType, RowType, ReqType, Wants, Askers, RowStates, RequestInv,
     NoRequest, None, Elapse, catalogVars, hostVars
<1> QED
  BY <1>1, <1>2, <1>3, <1>4 DEF IInv, TypeInv

LEMMA HourPassesKeeps == ASSUME IInv, HourPasses PROVE IInv'
<1>1. UseType' /\ HostType' /\ ChildInv' /\ NamedInv' /\ RowInv' /\ RequestInv'
  BY DEF IInv, HourPasses, useVars, hostVars, TypeInv, UseType, HostType, ChildInv, NamedInv, RowInv, RequestInv
<1>2. CatalogType'
  <2>1. 0 \in 0..WakesPerHour
    BY LimitsAssumption
  <2> QED
    BY <2>1 DEF IInv, TypeInv, CatalogType, HourPasses
<1> QED
  BY <1>1, <1>2 DEF IInv, TypeInv

LEMMA SpawnKeeps == ASSUME IInv, NEW s \in Services, Spawn(s) PROVE IInv'
<1>1. CatalogType' /\ UseType' /\ RequestInv'
  BY DEF IInv, Spawn, catalogVars, useVars, TypeInv, CatalogType, UseType, RequestInv
<1>2. HostType'
  BY DEF IInv, TypeInv, HostType, ChildType, Wants, Askers, None, Spawn, catalogVars, useVars, ChildGoes
<1>3. ChildInv'
  BY DEF IInv, TypeInv, CatalogType, HostType, RowType, ChildType, Wants, Askers, RowStates, ChildInv,
     NoChild, None, Spawn, catalogVars, useVars, ChildGoes
<1>4. NamedInv'
  BY DEF IInv, TypeInv, CatalogType, HostType, RowType, ChildType, Wants, Askers, RowStates, NamedInv,
     NoChild, None, Spawn, catalogVars, useVars, ChildGoes
<1>5. RowInv'
  BY DEF IInv, TypeInv, CatalogType, HostType, RowType, ChildType, Wants, Askers, RowStates, RowInv,
     NoChild, None, Spawn, catalogVars, useVars, ChildGoes
<1> QED
  BY <1>1, <1>2, <1>3, <1>4, <1>5 DEF IInv, TypeInv

LEMMA ReadKeeps == ASSUME IInv, NEW s \in Services, Read(s) PROVE IInv'
<1>1. child' \in [Services -> ChildType] /\ (\A t \in Services : t # s => child'[t] = child[t])
      /\ child'[s] = [at |-> "read", want |-> row[s].desired, by |-> None]
  <2>1. [at |-> "read", want |-> row[s].desired, by |-> None] \in ChildType
    <3>1. row[s].desired \in Wants
      BY DEF IInv, TypeInv, CatalogType, RowType
    <3> QED
      BY <3>1 DEF ChildType
  <2> QED
    BY <2>1 DEF IInv, TypeInv, HostType, Read
<1>2. CatalogType' /\ UseType' /\ RequestInv'
  BY DEF IInv, Read, catalogVars, useVars, TypeInv, CatalogType, UseType, RequestInv
<1>3. HostType'
  BY <1>1 DEF IInv, TypeInv, HostType, Read
<1>4. ChildInv'
  <2>1. row[s].desired \in Wants /\ UNCHANGED <<row, box, entry, calledOff, sup>> /\ child[s].at = "asked"
    BY DEF IInv, TypeInv, CatalogType, RowType, Read, catalogVars
  <2> QED
    BY <1>1, <2>1 DEF IInv, ChildInv, NoChild, None, Wants
<1>5. NamedInv'
  BY <1>1 DEF IInv, TypeInv, HostType, NamedInv, Read, catalogVars, NoChild, None
<1>6. RowInv'
  BY <1>1 DEF IInv, TypeInv, HostType, RowInv, Read, catalogVars, NoChild, None
<1> QED
  BY <1>2, <1>3, <1>4, <1>5, <1>6 DEF IInv, TypeInv

LEMMA BeginKeeps == ASSUME IInv, NEW s \in Services, Begin(s) PROVE IInv'
<1>1. child' \in [Services -> ChildType] /\ (\A t \in Services : t # s => child'[t] = child[t])
      /\ (child'[s] = NoChild \/ child'[s] = [at |-> "run", want |-> child[s].want, by |-> row[s].by])
  <2>1. child[s] \in ChildType /\ row[s].by \in Askers
    BY DEF IInv, TypeInv, CatalogType, HostType, RowType
  <2>2. [at |-> "run", want |-> child[s].want, by |-> row[s].by] \in ChildType
    BY <2>1 DEF ChildType
  <2>3. child' = [child EXCEPT ![s] = IF LockFree THEN [at |-> "run", want |-> child[s].want, by |-> row[s].by]
                                      ELSE NoChild]
    BY <2>1, Shapes DEF Begin
  <2> QED
    BY <2>2, <2>3, Shapes DEF IInv, TypeInv, HostType
<1>2. CatalogType' /\ UseType' /\ RequestInv'
  BY DEF IInv, Begin, catalogVars, useVars, TypeInv, CatalogType, UseType, RequestInv
<1>3. HostType'
  BY <1>1 DEF IInv, TypeInv, HostType, Begin
<1>4. ChildInv'
  <2>1. child[s] # NoChild /\ child[s].at = "read" /\ UNCHANGED <<row, box, entry, calledOff, sup>> /\ row[s].by \in Askers
    BY DEF Begin, catalogVars, NoChild, None, IInv, TypeInv, CatalogType, RowType
  <2> QED
    BY <1>1, <2>1 DEF IInv, ChildInv, NoChild, None, Askers
<1>5. NamedInv'
  BY <1>1 DEF IInv, TypeInv, HostType, ChildType, NamedInv, Begin, catalogVars, NoChild, None
<1>6. RowInv'
  <2>1. child[s] # NoChild /\ child[s].at = "read" /\ UNCHANGED <<row, box, entry, calledOff, sup>> /\ row[s].by \in Askers
    BY DEF Begin, catalogVars, NoChild, None, IInv, TypeInv, CatalogType, RowType
  <2> QED
    BY <1>1, <2>1 DEF IInv, ChildInv, RowInv, NoChild, None, Askers
<1> QED
  BY <1>2, <1>3, <1>4, <1>5, <1>6 DEF IInv, TypeInv

LEMMA RunKeeps == ASSUME IInv, NEW s \in Services, Run(s) PROVE IInv'
<1>1. /\ req' \in [Requests -> ReqType]
      /\ \A r \in Requests : req'[r] = NoRequest \/ req'[r] = req[r]
      /\ box' \in [Services -> BOOLEAN] /\ (\A t \in Services : t # s => box'[t] = box[t])
      /\ (box'[s] <=> child[s].want = "on")
      /\ child' \in [Services -> ChildType] /\ (\A t \in Services : t # s => child'[t] = child[t])
      /\ child'[s] = [at |-> "changed", want |-> child[s].want, by |-> child[s].by]
  <2>1. req' \in [Requests -> ReqType] /\ \A r \in Requests : req'[r] = NoRequest \/ req'[r] = req[r]
    BY Shapes DEF IInv, TypeInv, UseType, Run, Cut
  <2>2. box' \in [Services -> BOOLEAN] /\ (\A t \in Services : t # s => box'[t] = box[t])
        /\ (box'[s] <=> child[s].want = "on")
    BY DEF IInv, TypeInv, HostType, Run
  <2>3. child[s] \in ChildType
    BY DEF IInv, TypeInv, HostType
  <2>4. [child[s] EXCEPT !.at = "changed"] = [at |-> "changed", want |-> child[s].want, by |-> child[s].by]
        /\ [child[s] EXCEPT !.at = "changed"] \in ChildType
    BY <2>3 DEF ChildType
  <2>5. child' = [child EXCEPT ![s] = [child[s] EXCEPT !.at = "changed"]]
    BY DEF Run, ChildGoes
  <2>6. child' \in [Services -> ChildType] /\ (\A t \in Services : t # s => child'[t] = child[t])
        /\ child'[s] = [at |-> "changed", want |-> child[s].want, by |-> child[s].by]
    BY <2>4, <2>5 DEF IInv, TypeInv, HostType
  <2> QED
    BY <2>1, <2>2, <2>6
<1>2. CatalogType'
  BY DEF IInv, Run, catalogVars, TypeInv, CatalogType
<1>3. UseType'
  BY <1>1 DEF IInv, TypeInv, UseType, Run
<1>4. HostType'
  BY <1>1 DEF IInv, TypeInv, HostType, Run
<1>5. ChildInv'
  BY <1>1 DEF IInv, TypeInv, HostType, ChildInv, Run, Stops, Starts, catalogVars, NoChild, None
<1>6. NamedInv'
  BY <1>1 DEF IInv, TypeInv, HostType, ChildInv, NamedInv, Run, Stops, Starts, catalogVars, NoChild, None
<1>7. RowInv'
  BY <1>1 DEF IInv, TypeInv, HostType, ChildInv, RowInv, Run, Stops, Starts, catalogVars, NoChild, None
<1>8. RequestInv'
  BY <1>1 DEF IInv, RequestInv, Run, catalogVars, NoRequest, None
<1> QED
  BY <1>2, <1>3, <1>4, <1>5, <1>6, <1>7, <1>8 DEF IInv, TypeInv

LEMMA PublishKeeps == ASSUME IInv, NEW s \in Services, Publish(s) PROVE IInv'
<1>1. CatalogType' /\ UseType' /\ RequestInv'
  BY DEF IInv, Publish, catalogVars, useVars, TypeInv, CatalogType, UseType, RequestInv
<1>2. HostType'
  BY DEF IInv, TypeInv, HostType, ChildType, Wants, Askers, None, Publish, catalogVars, useVars, ChildGoes
<1>3. ChildInv'
  BY DEF IInv, TypeInv, CatalogType, HostType, RowType, ChildType, Wants, Askers, RowStates, ChildInv,
     NoChild, None, Publish, catalogVars, useVars, ChildGoes
<1>4. NamedInv'
  BY DEF IInv, TypeInv, CatalogType, HostType, RowType, ChildType, Wants, Askers, RowStates, NamedInv,
     NoChild, None, Publish, catalogVars, useVars, ChildGoes
<1>5. RowInv'
  BY DEF IInv, TypeInv, CatalogType, HostType, RowType, ChildType, Wants, Askers, RowStates, RowInv,
     NoChild, None, Publish, catalogVars, useVars, ChildGoes
<1> QED
  BY <1>1, <1>2, <1>3, <1>4, <1>5 DEF IInv, TypeInv

LEMMA BreaksKeeps == ASSUME IInv, NEW s \in Services, Breaks(s) PROVE IInv'
<1>1. CatalogType' /\ UseType' /\ RequestInv'
  BY DEF IInv, Breaks, catalogVars, useVars, TypeInv, CatalogType, UseType, RequestInv
<1>2. HostType'
  BY DEF IInv, TypeInv, HostType, ChildType, Wants, Askers, None, Breaks, catalogVars, useVars, ChildGoes
<1>3. ChildInv'
  BY DEF IInv, TypeInv, CatalogType, HostType, RowType, ChildType, Wants, Askers, RowStates, ChildInv,
     NoChild, None, Breaks, catalogVars, useVars, ChildGoes
<1>4. NamedInv'
  BY DEF IInv, TypeInv, CatalogType, HostType, RowType, ChildType, Wants, Askers, RowStates, NamedInv,
     NoChild, None, Breaks, catalogVars, useVars, ChildGoes
<1>5. RowInv'
  BY DEF IInv, TypeInv, CatalogType, HostType, RowType, ChildType, Wants, Askers, RowStates, RowInv,
     NoChild, None, Breaks, catalogVars, useVars, ChildGoes
<1> QED
  BY <1>1, <1>2, <1>3, <1>4, <1>5 DEF IInv, TypeInv

LEMMA RecordKeeps == ASSUME IInv, NEW s \in Services, Record(s) PROVE IInv'
<1>1. /\ child[s].at = "broke" \/ (child[s].at = "published" /\ child[s].want \in Wants)
      /\ row' \in [Services -> RowType] /\ (\A t \in Services : t # s => row'[t] = row[t])
      /\ row'[s] = [desired |-> row[s].desired, by |-> row[s].by,
                    state |-> IF child[s].at = "broke" THEN "failed" ELSE child[s].want]
      /\ child' \in [Services -> ChildType] /\ (\A t \in Services : t # s => child'[t] = child[t])
      /\ child'[s] = NoChild
  <2>1. child[s].at = "broke" \/ (child[s].at = "published" /\ child[s].want \in Wants)
    BY DEF IInv, TypeInv, HostType, ChildType, ChildInv, Record
  <2>2. (IF child[s].at = "broke" THEN "failed" ELSE child[s].want) \in RowStates /\ row[s] \in RowType
    BY <2>1 DEF IInv, TypeInv, CatalogType, RowStates, Wants
  <2>3. row' = [row EXCEPT ![s] = [row[s] EXCEPT !.state = IF child[s].at = "broke" THEN "failed" ELSE child[s].want]]
    BY DEF Record
  <2>4. row' \in [Services -> RowType] /\ (\A t \in Services : t # s => row'[t] = row[t])
        /\ row'[s] = [desired |-> row[s].desired, by |-> row[s].by,
                      state |-> IF child[s].at = "broke" THEN "failed" ELSE child[s].want]
    BY <2>2, <2>3, Shapes DEF IInv, TypeInv, CatalogType
  <2>5. child' \in [Services -> ChildType] /\ (\A t \in Services : t # s => child'[t] = child[t]) /\ child'[s] = NoChild
    BY Shapes DEF IInv, TypeInv, HostType, Record
  <2> QED
    BY <2>1, <2>4, <2>5
<1>2. UseType'
  BY DEF IInv, Record, useVars, TypeInv, UseType
<1>3. CatalogType'
  BY <1>1 DEF IInv, TypeInv, CatalogType, Record
<1>4. HostType'
  BY <1>1 DEF IInv, TypeInv, HostType, Record
<1>5. ChildInv'
  BY <1>1 DEF IInv, ChildInv, Record, NoChild, None, Wants
<1>6. NamedInv'
  BY <1>1 DEF IInv, ChildInv, NamedInv, Record, NoChild, None, Wants
<1>7. RowInv'
  BY <1>1 DEF IInv, ChildInv, RowInv, Record, NoChild, None, Wants
<1>8. RequestInv'
  BY <1>1 DEF IInv, RequestInv, Record, useVars, Wants
<1> QED
  BY <1>2, <1>3, <1>4, <1>5, <1>6, <1>7, <1>8 DEF IInv, TypeInv

LEMMA OtherBeginsKeeps == ASSUME IInv, OtherBegins PROVE IInv'
<1>1. CatalogType' /\ UseType' /\ ChildInv' /\ NamedInv' /\ RowInv' /\ RequestInv'
  BY DEF IInv, OtherBegins, catalogVars, useVars, TypeInv, CatalogType, UseType, ChildInv, NamedInv, RowInv,
     RequestInv
<1>2. HostType'
  BY DEF IInv, TypeInv, HostType, ChildType, Wants, Askers, None, OtherBegins, catalogVars, useVars
<1> QED
  BY <1>1, <1>2 DEF IInv, TypeInv

LEMMA OtherEndsKeeps == ASSUME IInv, OtherEnds PROVE IInv'
<1>1. CatalogType' /\ UseType' /\ ChildInv' /\ NamedInv' /\ RowInv' /\ RequestInv'
  BY DEF IInv, OtherEnds, catalogVars, useVars, TypeInv, CatalogType, UseType, ChildInv, NamedInv, RowInv,
     RequestInv
<1>2. HostType'
  BY DEF IInv, TypeInv, HostType, ChildType, Wants, Askers, None, OtherEnds, catalogVars, useVars
<1> QED
  BY <1>1, <1>2 DEF IInv, TypeInv

LEMMA SupervisorDiesKeeps == ASSUME IInv, SupervisorDies PROVE IInv'
<1>1. req' \in [Requests -> ReqType] /\ (\A r \in Requests : req'[r] = NoRequest)
      /\ child' \in [Services -> ChildType] /\ (\A s \in Services : child'[s] = NoChild)
      /\ queue' \in Seq(WakeType) /\ known' \in [Services -> BOOLEAN]
  BY Shapes, EmptySeq DEF SupervisorDies
<1>2. CatalogType'
  BY DEF IInv, SupervisorDies, catalogVars, TypeInv, CatalogType
<1>3. UseType'
  BY <1>1 DEF IInv, TypeInv, UseType, SupervisorDies
<1>4. HostType'
  BY <1>1 DEF IInv, TypeInv, HostType, SupervisorDies
<1>5. ChildInv'
  BY DEF IInv, TypeInv, CatalogType, HostType, RowType, ChildType, Wants, Askers, RowStates, ChildInv,
     NoChild, None, SupervisorDies, catalogVars
<1>6. NamedInv'
  BY DEF IInv, TypeInv, CatalogType, HostType, RowType, ChildType, Wants, Askers, RowStates, NamedInv,
     NoChild, None, SupervisorDies, catalogVars
<1>7. RowInv'
  <2>1. \A s \in Services : child[s] # NoChild /\ ~calledOff[s] => row[s].state = "pending"
    BY DEF IInv, ChildInv
  <2> QED
    BY <2>1 DEF IInv, RowInv, SupervisorDies, catalogVars
<1>8. RequestInv'
  BY DEF IInv, TypeInv, CatalogType, UseType, RowType, ReqType, Wants, Askers, RowStates, RequestInv,
     NoRequest, None, SupervisorDies, catalogVars
<1> QED
  BY <1>2, <1>3, <1>4, <1>5, <1>6, <1>7, <1>8 DEF IInv, TypeInv

LEMMA SupervisorStartsKeeps == ASSUME IInv, SupervisorStarts PROVE IInv'
<1>1. CatalogType' /\ UseType' /\ RowInv' /\ RequestInv'
  BY DEF IInv, SupervisorStarts, catalogVars, useVars, TypeInv, CatalogType, UseType, RowInv, RequestInv
<1>2. HostType'
  BY DEF IInv, TypeInv, HostType, ChildType, Wants, Askers, None, SupervisorStarts, catalogVars, useVars
<1>3. ChildInv'
  BY DEF IInv, TypeInv, CatalogType, HostType, RowType, ChildType, Wants, Askers, RowStates, ChildInv,
     NoChild, None, SupervisorStarts, catalogVars, useVars
<1>4. NamedInv'
  BY DEF IInv, TypeInv, CatalogType, HostType, RowType, ChildType, Wants, Askers, RowStates, NamedInv,
     NoChild, None, SupervisorStarts, catalogVars, useVars
<1> QED
  BY <1>1, <1>2, <1>3, <1>4 DEF IInv, TypeInv

-------------------------------------------------------------------------------
(* The theorems. *)

LEMMA NextKeeps == ASSUME IInv, [Next]_vars PROVE IInv'
<1>1. CASE UNCHANGED vars
  BY <1>1 DEF vars, catalogVars, useVars, hostVars, IInv, TypeInv, CatalogType, UseType, HostType, ChildInv,
     NamedInv, RowInv, RequestInv
<1>2. ASSUME NEW r \in Requests, HoldEnds(r) \/ Reaches(r) \/ Leaves(r) \/ \E s \in Services : Gateway(r, s) PROVE IInv'
  BY <1>2, HoldEndsKeeps, ReachesKeeps, LeavesKeeps, StraightKeeps, EnsureRefusesKeeps, EnsureUpKeeps,
     EnsureCallsOffKeeps, EnsureHoldsKeeps DEF Gateway
<1>3. CASE Wake \/ setKillSwitch \/ HourPasses \/ OtherBegins \/ OtherEnds \/ SupervisorDies \/ SupervisorStarts
  BY <1>3, WakeUpKeeps, WakeFailsKeeps, WakeAsksKeeps, WakeDeadlineKeeps, setKillSwitchKeeps,
     HourPassesKeeps, OtherBeginsKeeps, OtherEndsKeeps, SupervisorDiesKeeps, SupervisorStartsKeeps DEF Wake
<1>4. ASSUME NEW s \in Services, Apply(s) \/ Breaks(s) \/ KillSweep(s) \/ IdleSweep(s) \/ Elapse(s) PROVE IInv'
  BY <1>4, SpawnKeeps, ReadKeeps, BeginKeeps, RunKeeps, PublishKeeps, RecordKeeps, BreaksKeeps,
     KillSweepKeeps, IdleSweepKeeps, ElapseKeeps DEF Apply
<1>5. ASSUME NEW s \in Services, NEW m \in Modes, setServiceMode(s, m) PROVE IInv'
  BY <1>5, setServiceModeKeeps
<1> QED
  BY <1>1, <1>2, <1>3, <1>4, <1>5 DEF Next, Modes

\* IInv holds in every state: what is published, what a child has read, and who is counted as use.
THEOREM Inductive == Spec => []IInv
<1>1. Init => IInv
  BY InitHolds
<1>2. IInv /\ [Next]_vars => IInv'
  BY NextKeeps
<1> QED
  BY <1>1, <1>2, PTL DEF Spec

\* The rows, the requests, the queue of wakes and the children keep their shape, and the wakes of an hour their limit
\* (WAKES_PER_HOUR).
THEOREM TypeCorrect == Spec => []TypeOK
<1>1. IInv => TypeOK
  <2>1. ASSUME UseType PROVE \A i \in DOMAIN queue : queue[i] \in [service : Services, asked : BOOLEAN]
    BY <2>1, LenProperties, ElementOfSeq DEF UseType, WakeType
  <2> QED
    BY <2>1 DEF IInv, TypeInv, CatalogType, UseType, HostType, RowType, ReqType, ChildType, Wants, Askers,
       Modes, TypeOK
<1> QED
  BY <1>1, Inductive, PTL

\* Whenever nothing is being applied, on means that the container runs and the endpoints name it, and off that neither
\* is there, whoever asked for what in between, whatever broke and whenever the supervisor died; a service whose sleep
\* was called off under way is left out (record, apply, cancelSleep).
THEOREM RowAgreesWithHost == Spec => []RowTellsTruth
<1>1. IInv => RowTellsTruth
  BY DEF IInv, TypeInv, HostType, NamedInv, RowInv, RowTellsTruth, NoChild, None
<1> QED
  BY <1>1, Inductive, PTL

\* A stop for idleness reaches nobody whom ensure let in, for any number of requests and any order of a sweep, a wake,
\* a person and the supervisor (sweep, quietFor, apply).
THEOREM IdleStopsReachNobody == Spec => NobodyIsCutOff
<1> DEFINE Spared == \A s \in Services :
        Stops(s) /\ child'[s].at = "changed" /\ child[s].by = "idle" /\ ~calledOff[s] =>
            \A r \in InUse(s) : ~req[r].let
<1>1. IInv => Spared
  BY DEF IInv, ChildInv, RequestInv, Stops, InUse, NoChild, None
<1> QED
  BY <1>1, Inductive, PTL DEF Spec, NobodyIsCutOff
===============================================================================
