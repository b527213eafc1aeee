---------------------------- MODULE FleetDayProofs ----------------------------
(***************************************************************************)
(* Which vehicle is where: the calendar answers as the direct test of      *)
(* every window would (FleetCalendar), the matchings of a period keep to   *)
(* their budgets and lose no service unaccounted (BalancedMatch), and the  *)
(* empty movements of a day are counted once, end in time and follow the   *)
(* quotas (IdleMovement), for any fleet, windows, requests, stress, shares,*)
(* nodes and drives.                                                       *)
(***************************************************************************)
EXTENDS FleetCalendar, BalancedMatch, IdleMovement,
        FiniteSetTheorems, TLAPS

(* The calendar of the windows.                                            *)

(* What the cursors have passed never lies ahead of the clock, and what    *)
(* they keep is the difference; windows are not of negative length, which  *)
(* is why taking the ends off after putting the starts on loses nothing.   *)
Cursors ==
  /\ start \in [Vehicles -> Times] /\ end \in [Vehicles -> Times]
  /\ \A v \in Vehicles : start[v] <= end[v]
  /\ clock \in Times
  /\ started \subseteq StartedBy(clock) /\ ended \subseteq EndedBy(clock)
  /\ active = started \ ended /\ ended \subseteq started

LEMMA TimesAreNaturals == \A t \in Times : t \in Nat
BY CalendarAssumption DEF Times

(* One advance of the cursors leaves exactly the open windows.             *)
LEMMA AdvanceExact ==
  ASSUME Cursors, NEW t \in Times, Advance(t)
  PROVE  /\ active' = StartedBy(t) \ EndedBy(t)
         /\ EndedBy(t) \subseteq StartedBy(t)
<1>1. \A v \in Vehicles : start[v] \in Nat /\ end[v] \in Nat /\ start[v] <= end[v]
  BY TimesAreNaturals DEF Cursors
<1>2. t \in Nat /\ clock \in Nat /\ clock <= t
  BY TimesAreNaturals DEF Cursors, Advance
<1>3. started \subseteq StartedBy(t) /\ ended \subseteq EndedBy(t)
  BY <1>1, <1>2 DEF Cursors, StartedBy, EndedBy
<1>4. EndedBy(t) \subseteq StartedBy(t)
  BY <1>1, <1>2 DEF StartedBy, EndedBy
<1>5. active' = (active \cup (StartedBy(t) \ started)) \ (EndedBy(t) \ ended)
  BY DEF Advance, StartsFirst
<1>6. active = started \ ended /\ ended \subseteq started
  BY DEF Cursors
<1>7. active' = StartedBy(t) \ EndedBy(t)
  BY <1>3, <1>4, <1>5, <1>6, Zenon
<1> QED BY <1>4, <1>7

(* Every call moves the cursors up to its time.                            *)
LEMMA NextAdvances ==
  ASSUME Next
  PROVE  \E t \in Times : Advance(t)
BY DEF Next, ActiveIds, HorizonIds

LEMMA CursorsHold == Spec => []Cursors
<1>1. Init => Cursors
  BY CalendarAssumption DEF Init, Cursors, Times, StartedBy, EndedBy
<1>2. Cursors /\ [Next]_vars => Cursors'
  <2> SUFFICES ASSUME Cursors, [Next]_vars PROVE Cursors'
    OBVIOUS
  <2>1. CASE UNCHANGED vars
    BY <2>1 DEF Cursors, vars, StartedBy, EndedBy
  <2>2. CASE Next
    <3>1. PICK t \in Times : Advance(t)
      BY <2>2, NextAdvances
    <3>2. /\ start' = start /\ end' = end /\ clock' = t
          /\ started' = StartedBy(t) /\ ended' = EndedBy(t)
      BY <3>1 DEF Advance
    <3>3. /\ active' = StartedBy(t) \ EndedBy(t)
          /\ EndedBy(t) \subseteq StartedBy(t)
      BY <3>1, AdvanceExact
    <3>4. StartedBy(clock)' = StartedBy(t) /\ EndedBy(clock)' = EndedBy(t)
      BY <3>2 DEF StartedBy, EndedBy
    <3> QED BY <3>2, <3>3, <3>4 DEF Cursors
  <2> QED BY <2>1, <2>2 DEF vars
<1> QED BY <1>1, <1>2, PTL DEF Spec

(* A call returns exactly the vehicles whose window is open, or opens      *)
(* within the horizon (FleetEventCalendar.active_ids, horizon_ids).        *)
THEOREM CalendarIsExact == Spec => AnswersTheWindows
<1>1. ASSUME Cursors, Next
      PROVE  answer' = {v \in Vehicles : start[v] <= clock' + horizon' /\ end[v] > clock'}
  <2>1. \A v \in Vehicles : start[v] \in Nat /\ end[v] \in Nat
    BY <1>1, TimesAreNaturals DEF Cursors
  <2>2. CASE ActiveIds
    <3>1. PICK t \in Times : Advance(t) /\ answer' = active' /\ horizon' = 0
      BY <2>2 DEF ActiveIds
    <3>2. active' = StartedBy(t) \ EndedBy(t)
      BY <1>1, <3>1, AdvanceExact
    <3>3. clock' = t /\ t \in Nat
      BY <3>1, TimesAreNaturals DEF Advance
    <3>4. ASSUME NEW v \in Vehicles
          PROVE  v \in active' <=> start[v] <= clock' + horizon' /\ end[v] > clock'
      BY <2>1, <3>1, <3>2, <3>3 DEF StartedBy, EndedBy
    <3>5. active' \subseteq Vehicles
      BY <3>2 DEF StartedBy
    <3> QED BY <3>1, <3>4, <3>5
  <2>3. CASE HorizonIds
    <3>1. PICK t \in Times, h \in Times :
            Advance(t) /\ answer' = active' \cup Forthcoming(t, h) /\ horizon' = h
      BY <2>3 DEF HorizonIds
    <3>2. active' = StartedBy(t) \ EndedBy(t)
      BY <1>1, <3>1, AdvanceExact
    <3>3. clock' = t /\ t \in Nat /\ h \in Nat /\ started' = StartedBy(t)
      BY <3>1, TimesAreNaturals DEF Advance
    <3>4. ASSUME NEW v \in Vehicles
          PROVE  v \in answer' <=> start[v] <= clock' + horizon' /\ end[v] > clock'
      <4>1. v \in answer' <=> (start[v] <= t /\ ~(end[v] <= t))
                               \/ (~(start[v] <= t) /\ start[v] <= t + h /\ end[v] > t)
        BY <3>1, <3>2, <3>3 DEF StartedBy, EndedBy, Forthcoming
      <4> QED BY <2>1, <3>1, <3>3, <4>1
    <3>5. answer' \subseteq Vehicles
      BY <3>1, <3>2 DEF StartedBy, Forthcoming
    <3> QED BY <3>4, <3>5
  <2> QED BY <1>1, <2>2, <2>3 DEF Next
<1>2. Cursors /\ [Next]_vars =>
        [answer' = {v \in Vehicles : start[v] <= clock' + horizon' /\ end[v] > clock'}]_vars
  BY <1>1
<1> QED BY <1>2, CursorsHold, PTL DEF Spec, AnswersTheWindows

-----------------------------------------------------------------------------
(* The balanced matchings of a period.                                     *)

(* There are finitely many edges.                                          *)
LEMMA EdgesFinite == IsFiniteSet(Edge) /\ \A S \in SUBSET Edge : IsFiniteSet(S)
<1> DEFINE f == [e \in Edge |-> <<e.request, e.vehicle>>]
<1>1. IsFiniteSet(Requests \X Cars)
  BY FS_Product, MatchingAssumption
<1>2. f \in [Edge -> Requests \X Cars]
  BY DEF Edge
<1>3. ASSUME NEW d \in Edge, NEW e \in Edge, f[d] = f[e]
      PROVE  d = e
  <2>1. d.request = e.request /\ d.vehicle = e.vehicle
    BY <1>3
  <2>2. d = [request |-> d.request, vehicle |-> d.vehicle] /\ e = [request |-> e.request, vehicle |-> e.vehicle]
    BY DEF Edge
  <2>3. QED
    BY <2>1, <2>2
<1>4. f \in Injection(Edge, Requests \X Cars)
  BY <1>2, <1>3 DEF Injection, IsInjective
<1>5. IsFiniteSet(Edge)
  BY <1>1, <1>4, FS_Injection
<1>6. QED
  BY <1>5, FS_Subset

(* A matching gives no request and no vehicle twice.                       *)
Apart(edges) ==
  \A d, e \in edges : d.request = e.request \/ d.vehicle = e.vehicle => d = e

LEMMA MatchingsAreApart ==
  ASSUME NEW S \in SUBSET Edge
  PROVE  IsMatching(S) <=> Apart(S)
<1> DEFINE f == [e \in S |-> e.request]
           g == [e \in S |-> e.vehicle]
<1>1. IsFiniteSet(S)
  BY EdgesFinite
<1>2. f \in Surjection(S, RequestsOf(S)) /\ g \in Surjection(S, VehiclesOf(S))
  BY DEF Surjection, RequestsOf, VehiclesOf
<1>3. IsMatching(S) <=> f \in Injection(S, RequestsOf(S)) /\ g \in Injection(S, VehiclesOf(S))
  BY <1>1, <1>2, FS_Surjection DEF IsMatching
<1>4. f \in [S -> RequestsOf(S)] /\ g \in [S -> VehiclesOf(S)]
  BY <1>2 DEF Surjection
<1>5. f \in Injection(S, RequestsOf(S)) <=> \A d, e \in S : d.request = e.request => d = e
  BY <1>4 DEF Injection, IsInjective
<1>6. g \in Injection(S, VehiclesOf(S)) <=> \A d, e \in S : d.vehicle = e.vehicle => d = e
  BY <1>4 DEF Injection, IsInjective
<1>7. QED
  BY <1>3, <1>5, <1>6 DEF Apart

(* Loads are natural numbers, and nothing weighs nothing.                  *)
LEMMA UnitsFinite ==
  ASSUME NEW S, IsFiniteSet(S), NEW of, \A x \in S : of[x] \in Nat
  PROVE  IsFiniteSet(Units(of, S)) /\ Load(of, S) \in Nat
<1> DEFINE T == {{x} \X (1..of[x]) : x \in S}
           f == [x \in S |-> {x} \X (1..of[x])]
<1>1. f \in Surjection(S, T)
  BY DEF Surjection
<1>2. IsFiniteSet(T)
  BY <1>1, FS_Surjection
<1>3. \A U \in T : IsFiniteSet(U)
  <2> SUFFICES ASSUME NEW x \in S PROVE IsFiniteSet({x} \X (1..of[x]))
    OBVIOUS
  <2>1. IsFiniteSet({x}) /\ IsFiniteSet(1..of[x])
    <3>1. of[x] \in Int
      OBVIOUS
    <3>2. IsFiniteSet({x})
      BY FS_Singleton
    <3>3. IsFiniteSet(1..of[x])
      <4> DEFINE n == of[x]
      <4>1. n \in Int /\ 1 \in Int
        BY <3>1
      <4> HIDE DEF n
      <4>2. IsFiniteSet(1..n)
        BY <4>1, FS_Interval
      <4>3. QED
        BY <4>2 DEF n
    <3>4. QED
      BY <3>2, <3>3
  <2>2. QED
    BY <2>1, FS_Product
<1>4. IsFiniteSet(UNION T)
  BY <1>2, <1>3, FS_UNION
<1>5. QED
  BY <1>4, FS_CardinalityType DEF Units, Load

LEMMA NothingWeighsNothing == \A of : Load(of, {}) = 0
BY FS_EmptySet DEF Load, Units

LEMMA SwapKeepsSize ==
  ASSUME NEW S, IsFiniteSet(S), NEW x \in S, NEW y, y \notin S \ {x}
  PROVE  Cardinality((S \ {x}) \cup {y}) = Cardinality(S)
<1>1. IsFiniteSet(S \ {x}) /\ Cardinality(S \ {x}) = Cardinality(S) - 1
  BY FS_RemoveElement
<1>2. Cardinality((S \ {x}) \cup {y}) = Cardinality(S \ {x}) + 1
  BY <1>1, FS_AddElement
<1>3. QED
  BY <1>1, <1>2, FS_CardinalityType

LEMMA SwapStaysApart ==
  ASSUME NEW S \in SUBSET Edge, Apart(S), NEW x \in S, NEW y \in Edge,
         y.request \notin RequestsOf(S \ {x}), y.vehicle \notin VehiclesOf(S \ {x})
  PROVE  Apart((S \ {x}) \cup {y})
BY DEF Apart, RequestsOf, VehiclesOf

LEMMA StressNatural ==
  ASSUME NEW S \in SUBSET Edge, NEW z
  PROVE  /\ HVStress(S, z) \in Nat /\ Count(S, z) \in Nat
         /\ HVStress(S, z) > 0 => \E e \in S : IsHV(e) /\ ZoneOf(e) = z
<1> DEFINE T == {e \in S : IsHV(e) /\ ZoneOf(e) = z}
           of == [e \in S |-> Stress[e.request]]
<1>1. IsFiniteSet(T) /\ IsFiniteSet({e \in S : ZoneOf(e) = z})
  BY EdgesFinite
<1>2. \A e \in T : of[e] \in Nat
  BY MatchingAssumption DEF Edge
<1>3. Load(of, T) \in Nat
  BY <1>1, <1>2, UnitsFinite
<1>4. T = {} => Load(of, T) = 0
  BY NothingWeighsNothing
<1>5. HVStress(S, z) = 100 * Load(of, T)
  BY DEF HVStress
<1>6. Count(S, z) \in Nat
  BY <1>1, FS_CardinalityType DEF Count
<1> HIDE DEF of
<1>7. QED
  BY <1>3, <1>4, <1>5, <1>6

(* A unit less for one of them is a unit less in all.                      *)
LEMMA LoadStep ==
  ASSUME NEW S, IsFiniteSet(S), NEW of, \A x \in S : of[x] \in Nat,
         NEW a \in S, of[a] > 0, NEW less, less[a] = of[a] - 1,
         \A x \in S \ {a} : less[x] = of[x]
  PROVE  Load(less, S) = Load(of, S) - 1
<1> DEFINE u == <<a, of[a]>>
<1>1. Units(less, S) = Units(of, S) \ {u}
  <2>1. ASSUME NEW w \in Units(less, S)
        PROVE  w \in Units(of, S) /\ w # u
    <3>1. PICK x \in S : w \in {x} \X (1..less[x])
      BY <2>1 DEF Units
    <3>2. w[1] = x /\ w[2] \in 1..less[x] /\ w = <<x, w[2]>>
      BY <3>1
    <3>3. less[x] \in Int /\ less[x] <= of[x] /\ of[x] \in Nat
      OBVIOUS
    <3>4. w[2] \in 1..of[x] /\ w \in {x} \X (1..of[x])
      BY <3>2, <3>3
    <3>5. w # u
      BY <3>2
    <3>6. QED
      BY <3>4, <3>5 DEF Units
  <2>2. ASSUME NEW w \in Units(of, S), w # u
        PROVE  w \in Units(less, S)
    <3>1. PICK x \in S : w \in {x} \X (1..of[x])
      BY <2>2 DEF Units
    <3>2. w[2] \in 1..of[x] /\ w = <<x, w[2]>> /\ of[x] \in Nat
      BY <3>1
    <3>3. w[2] \in 1..less[x]
      BY <2>2, <3>2
    <3>4. QED
      BY <3>2, <3>3 DEF Units
  <2>3. QED
    BY <2>1, <2>2
<1>2. u \in Units(of, S)
  <2>1. u \in {a} \X (1..of[a])
    OBVIOUS
  <2>2. QED
    BY <2>1 DEF Units
<1>3. IsFiniteSet(Units(of, S)) /\ Load(of, S) \in Nat
  BY UnitsFinite
<1> HIDE DEF u
<1>4. QED
  BY <1>1, <1>2, <1>3, FS_RemoveElement DEF Load

(* What a swap of one edge for one of another zone does to the counts.     *)
LEMMA CountsOfSwap ==
  ASSUME NEW S \in SUBSET Edge, NEW x \in S, NEW y \in Edge, y \notin S,
         ZoneOf(x) # ZoneOf(y), NEW z
  PROVE  Count((S \ {x}) \cup {y}, z) =
           IF z = ZoneOf(y) THEN Count(S, z) + 1
           ELSE IF z = ZoneOf(x) THEN Count(S, z) - 1 ELSE Count(S, z)
<1> DEFINE In(E) == {e \in E : ZoneOf(e) = z}
           W == (S \ {x}) \cup {y}
<1>1. IsFiniteSet(In(S)) /\ Cardinality(In(S)) \in Nat
  BY EdgesFinite, FS_CardinalityType
<1>2. CASE z = ZoneOf(y)
  <2>1. In(W) = In(S) \cup {y} /\ y \notin In(S)
    BY <1>2
  <2> HIDE DEF In
  <2>2. Cardinality(In(W)) = Cardinality(In(S)) + 1
    BY <1>1, <2>1, FS_AddElement
  <2>3. QED
    BY <1>2, <2>2 DEF Count, In
<1>3. CASE z = ZoneOf(x)
  <2>1. In(W) = In(S) \ {x} /\ x \in In(S)
    BY <1>3
  <2> HIDE DEF In
  <2>2. Cardinality(In(S) \ {x}) = Cardinality(In(S)) - 1
    BY <1>1, <2>1, FS_RemoveElement
  <2>3. QED
    BY <1>3, <2>1, <2>2 DEF Count, In
<1>4. CASE z # ZoneOf(x) /\ z # ZoneOf(y)
  <2>1. In(W) = In(S)
    BY <1>4
  <2>2. QED
    BY <1>4, <2>1 DEF Count
<1>5. QED
  BY <1>2, <1>3, <1>4

-----------------------------------------------------------------------------
(* What the loops have left to do: only an edge of a surplus zone is ever  *)
(* replaced, only an HV edge ever moved or dropped.                        *)
SurplusEdges == {e \in chosen : Surplus(e)}
HVEdges == {e \in chosen : IsHV(e)}

RoundsEnough ==
  /\ stage = "fairness" => Cardinality(SurplusEdges) < rounds
  /\ stage = "stress" => Cardinality(HVEdges) < rounds

TablesCurrent == stage # "idle" => budgets = remaining

MatchingInv ==
  /\ BMTypeOK /\ Apart(chosen) /\ ServiceAccounted /\ BudgetHeld /\ BudgetLedger
  /\ RoundsEnough /\ TablesCurrent

LEMMA ChosenFinite ==
  ASSUME BMTypeOK
  PROVE  /\ chosen \in SUBSET Edge /\ IsFiniteSet(chosen) /\ Cardinality(chosen) \in Nat
         /\ IsFiniteSet(SurplusEdges) /\ Cardinality(SurplusEdges) \in Nat
         /\ Cardinality(SurplusEdges) <= Cardinality(chosen)
         /\ IsFiniteSet(HVEdges) /\ Cardinality(HVEdges) \in Nat
         /\ Cardinality(HVEdges) <= Cardinality(chosen)
<1>1. chosen \in SUBSET Edge /\ IsFiniteSet(chosen)
  BY EdgesFinite DEF BMTypeOK
<1>2. SurplusEdges \in SUBSET chosen /\ HVEdges \in SUBSET chosen
  BY DEF SurplusEdges, HVEdges
<1>3. QED
  BY <1>1, <1>2, FS_Subset, FS_CardinalityType

LEMMA MatchingInit == BMInit => MatchingInv
<1> SUFFICES ASSUME BMInit PROVE MatchingInv
  OBVIOUS
<1> USE DEF BMInit
<1>1. BMTypeOK
  BY MatchingAssumption DEF BMTypeOK
<1>2. Cardinality({}) = 0
  BY FS_EmptySet
<1>3. ServiceAccounted
  BY <1>2 DEF ServiceAccounted
<1>4. QED
  BY <1>1, <1>3 DEF MatchingInv, Apart, BudgetHeld, BudgetLedger, RoundsEnough, TablesCurrent

(* An epoch begins with a maximum matching and full tables.                *)
LEMMA BudgetsNatural ==
  ASSUME NEW pending \in SUBSET Requests, NEW z
  PROVE  Budget(pending, z) \in Nat /\ Target(pending, z) \in Nat
<1> DEFINE R == {r \in pending : Zone[r] = z}
<1>1. IsFiniteSet(R)
  BY MatchingAssumption, FS_Subset
<1>2. Load(Stress, R) \in Nat
  BY <1>1, MatchingAssumption, UnitsFinite
<1>3. Cardinality(R) \in Nat
  BY <1>1, FS_CardinalityType
<1> HIDE DEF R
<1>4. StressShare \in Nat /\ MinServiceRate \in Nat /\ MaxTarget \in Nat
  BY MatchingAssumption
<1>5. StressShare * Load(Stress, R) \in Nat
  BY <1>2, <1>4
<1>6. Smaller(MaxTarget, CeilPercent(MinServiceRate, Cardinality(R))) \in Nat
  <2>1. MinServiceRate * Cardinality(R) \in Nat
    BY <1>3, <1>4
  <2>2. CeilPercent(MinServiceRate, Cardinality(R)) \in Nat
    BY <2>1 DEF CeilPercent
  <2>3. QED
    BY <1>4, <2>2 DEF Smaller
<1>7. QED
  BY <1>5, <1>6 DEF Budget, Target, R

LEMMA PrepareKeeps == MatchingInv /\ Prepare => MatchingInv'
<1> SUFFICES ASSUME MatchingInv, Prepare PROVE MatchingInv'
  OBVIOUS
<1> USE DEF MatchingInv
<1>1. PICK pending \in SUBSET Requests, k \in 0..MaxEdges :
      \E edges \in kSubset(k, [request : pending, vehicle : Cars]) :
       /\ total' = [z \in Zones |-> Larger(total[z], Budget(pending, z))]
       /\ remaining' = [z \in Zones |-> RaisedBudget(pending, z)]
       /\ target' = [z \in Zones |-> Larger(target[z], Target(pending, z))]
       /\ budgets' = remaining'
       /\ targets' = [z \in Zones |-> Minus(target'[z], served[z])]
       /\ admissible' = Admissible(edges, budgets')
  BY DEF Prepare
<1>2. admissible' \in SUBSET Edge
  BY <1>1 DEF kSubset, Admissible, Edge
<1>3. /\ {total, remaining, target, served, consumed} \subseteq [Zones -> Nat]
      /\ epochs \in 0..MaxEpochs /\ MaxEpochs \in Nat
  BY MatchingAssumption DEF BMTypeOK
<1>4. ASSUME NEW z \in Zones
      PROVE  /\ total'[z] \in Nat /\ remaining'[z] \in Nat /\ target'[z] \in Nat
             /\ targets'[z] \in Nat /\ remaining'[z] + consumed[z] = total'[z]
  <2>1. Budget(pending, z) \in Nat /\ Target(pending, z) \in Nat
    BY BudgetsNatural
  <2>2. /\ total[z] \in Nat /\ remaining[z] \in Nat /\ target[z] \in Nat /\ served[z] \in Nat
        /\ consumed[z] \in Nat
    BY <1>3
  <2>3. remaining[z] + consumed[z] = total[z]
    BY DEF BudgetLedger
  <2>4. /\ total'[z] = Larger(total[z], Budget(pending, z))
        /\ remaining'[z] = remaining[z] + Minus(Budget(pending, z), total[z])
        /\ target'[z] = Larger(target[z], Target(pending, z))
        /\ targets'[z] = Minus(target'[z], served[z])
    BY <1>1 DEF RaisedBudget
  <2>5. QED
    BY <2>1, <2>2, <2>3, <2>4 DEF Larger, Minus
<1>5. {total', remaining', target', targets', budgets'} \subseteq [Zones -> Nat]
  BY <1>1, <1>4
<1>6. /\ stage' = "fairness" /\ epochs' = epochs + 1 /\ epochs < MaxEpochs /\ drops' = 0
      /\ served' = served /\ consumed' = consumed /\ budgets' = remaining'
      /\ maximum' = Cardinality(chosen') /\ rounds' = maximum' + 1
  BY <1>1 DEF Prepare, FairnessRounds
<1>7. chosen' \in SUBSET admissible' /\ IsMatching(chosen')
  BY DEF Prepare, MaximumMatchings
<1>8. Apart(chosen') /\ IsFiniteSet(chosen') /\ Cardinality(chosen') \in Nat
  BY <1>2, <1>7, MatchingsAreApart, EdgesFinite, FS_CardinalityType
<1>9. BMTypeOK'
  <2>1. {total, remaining, target, served, budgets, targets, consumed}'
          \subseteq [Zones -> Nat]
    BY <1>3, <1>5, <1>6
  <2>2. epochs' \in 0..MaxEpochs
    BY <1>3, <1>6
  <2>3. {rounds', maximum', drops'} \subseteq Nat
    BY <1>6, <1>8
  <2>4. QED
    BY <1>2, <1>6, <1>7, <2>1, <2>2, <2>3 DEF BMTypeOK
<1>10. RoundsEnough'
  <2>1. Cardinality(SurplusEdges') <= Cardinality(chosen') /\ Cardinality(SurplusEdges') \in Nat
    <3>1. SurplusEdges' \in SUBSET chosen'
      BY DEF SurplusEdges
    <3>2. QED
      BY <1>8, <3>1, FS_Subset, FS_CardinalityType
  <2>2. QED
    BY <1>6, <1>8, <2>1 DEF RoundsEnough
<1>11. ServiceAccounted'
  BY <1>6, <1>8 DEF ServiceAccounted
<1>12. BudgetLedger'
  BY <1>4, <1>6 DEF BudgetLedger
<1>13. BudgetHeld' /\ TablesCurrent'
  BY <1>6 DEF BudgetHeld, TablesCurrent
<1>14. QED
  BY <1>8, <1>9, <1>10, <1>11, <1>12, <1>13 DEF Apart

-----------------------------------------------------------------------------
(* A fairness swap is between two zones: one whose count is below its      *)
(* target and one whose count is above it.                                 *)
LEMMA FairnessSwapIs ==
  ASSUME MatchingInv, FairnessSwap
  PROVE  \E x \in chosen, y \in admissible :
           /\ chosen' = (chosen \ {x}) \cup {y}
           /\ y \notin chosen /\ ZoneOf(x) # ZoneOf(y)
           /\ y.request \notin RequestsOf(chosen \ {x})
           /\ y.vehicle \notin VehiclesOf(chosen \ {x})
           /\ Count(chosen, ZoneOf(y)) < targets[ZoneOf(y)]
           /\ Count(chosen, ZoneOf(x)) > targets[ZoneOf(x)]
           /\ {ZoneOf(x), ZoneOf(y)} \subseteq Zones
<1> USE DEF MatchingInv
<1>1. PICK swap \in Replacements : chosen' = (chosen \ {swap[1]}) \cup {swap[2]}
  BY DEF FairnessSwap
<1> DEFINE x == swap[1]
           y == swap[2]
<1>2. x \in chosen /\ y \in admissible /\ Replaces(y, x)
  BY <1>1 DEF Replacements
<1>3. chosen \in SUBSET Edge /\ admissible \in SUBSET Edge /\ targets \in [Zones -> Nat]
  BY DEF BMTypeOK
<1>4. ZoneOf(x) \in Zones /\ ZoneOf(y) \in Zones
  BY <1>2, <1>3, MatchingAssumption DEF Edge, ZoneOf
<1>5. y.request \notin RequestsOf(chosen) /\ x.vehicle = y.vehicle
  BY <1>2 DEF Replaces
<1>6. y \notin chosen /\ y.request \notin RequestsOf(chosen \ {x})
  BY <1>5 DEF RequestsOf
<1>7. y.vehicle \notin VehiclesOf(chosen \ {x})
  BY <1>2, <1>5 DEF VehiclesOf, Apart
<1>8. /\ Minus(targets[ZoneOf(y)], Count(chosen, ZoneOf(y))) > 0
      /\ Count(chosen, ZoneOf(x)) > targets[ZoneOf(x)]
  BY <1>2 DEF Replaces, Deficit, Surplus
<1>9. Count(chosen, ZoneOf(y)) \in Nat /\ Count(chosen, ZoneOf(x)) \in Nat
  BY <1>3, StressNatural
<1>10. targets[ZoneOf(x)] \in Nat /\ targets[ZoneOf(y)] \in Nat
  BY <1>3, <1>4
<1>11. Count(chosen, ZoneOf(y)) < targets[ZoneOf(y)]
  BY <1>8, <1>9, <1>10 DEF Minus
<1>12. ZoneOf(x) # ZoneOf(y)
  BY <1>8, <1>9, <1>10, <1>11
<1>13. QED
  BY <1>1, <1>2, <1>4, <1>6, <1>7, <1>8, <1>11, <1>12

LEMMA FairnessSwapKeeps == MatchingInv /\ FairnessSwap => MatchingInv'
<1> SUFFICES ASSUME MatchingInv, FairnessSwap PROVE MatchingInv'
  OBVIOUS
<1> USE DEF MatchingInv
<1>1. PICK x \in chosen, y \in admissible :
        /\ chosen' = (chosen \ {x}) \cup {y}
        /\ y \notin chosen /\ ZoneOf(x) # ZoneOf(y)
        /\ y.request \notin RequestsOf(chosen \ {x})
        /\ y.vehicle \notin VehiclesOf(chosen \ {x})
        /\ Count(chosen, ZoneOf(y)) < targets[ZoneOf(y)]
        /\ Count(chosen, ZoneOf(x)) > targets[ZoneOf(x)]
        /\ {ZoneOf(x), ZoneOf(y)} \subseteq Zones
  BY FairnessSwapIs
<1>2. /\ stage = "fairness" /\ stage' = "fairness" /\ rounds > 0 /\ rounds' = rounds - 1
      /\ UNCHANGED <<total, remaining, target, served, epochs, budgets, targets,
                     admissible, maximum, drops, consumed>>
  BY DEF FairnessSwap, state, tables
<1>3. /\ chosen \in SUBSET Edge /\ IsFiniteSet(chosen) /\ y \in Edge
      /\ targets \in [Zones -> Nat] /\ rounds \in Nat
  BY ChosenFinite DEF BMTypeOK
<1>4. BMTypeOK'
  BY <1>1, <1>2, <1>3 DEF BMTypeOK
<1>5. Apart(chosen')
  BY <1>1, <1>3, SwapStaysApart
<1>6. Cardinality(chosen') = Cardinality(chosen)
  BY <1>1, <1>3, SwapKeepsSize
<1>7. ServiceAccounted' /\ BudgetHeld' /\ BudgetLedger' /\ TablesCurrent'
  BY <1>2, <1>6 DEF ServiceAccounted, BudgetHeld, BudgetLedger, TablesCurrent
<1>8. SurplusEdges' \subseteq SurplusEdges \ {x}
  <2> SUFFICES ASSUME NEW e \in chosen', Count(chosen', ZoneOf(e)) > targets[ZoneOf(e)]
               PROVE  e \in chosen /\ e # x /\ Count(chosen, ZoneOf(e)) > targets[ZoneOf(e)]
    BY <1>2 DEF SurplusEdges, Surplus
  <2>1. Count(chosen', ZoneOf(e)) =
          IF ZoneOf(e) = ZoneOf(y) THEN Count(chosen, ZoneOf(e)) + 1
          ELSE IF ZoneOf(e) = ZoneOf(x) THEN Count(chosen, ZoneOf(e)) - 1
          ELSE Count(chosen, ZoneOf(e))
    BY <1>1, <1>3, CountsOfSwap
  <2>2. Count(chosen, ZoneOf(e)) \in Nat
    BY <1>3, StressNatural
  <2>3. targets[ZoneOf(y)] \in Nat /\ targets[ZoneOf(x)] \in Nat
    BY <1>1, <1>3
  <2>4. ZoneOf(e) # ZoneOf(y)
    BY <1>1, <2>1, <2>2, <2>3
  <2>5. e \in chosen /\ e # x
    BY <1>1, <2>4
  <2>6. CASE ZoneOf(e) = ZoneOf(x)
    BY <1>1, <2>5, <2>6
  <2>7. CASE ZoneOf(e) # ZoneOf(x)
    BY <2>1, <2>4, <2>5, <2>7
  <2>8. QED
    BY <2>6, <2>7
<1>9. x \in SurplusEdges
  BY <1>1 DEF SurplusEdges, Surplus
<1>10. Cardinality(SurplusEdges') < rounds'
  <2>1. IsFiniteSet(SurplusEdges) /\ Cardinality(SurplusEdges) \in Nat
    BY ChosenFinite
  <2>2. Cardinality(SurplusEdges \ {x}) = Cardinality(SurplusEdges) - 1 /\ IsFiniteSet(SurplusEdges \ {x})
    BY <1>9, <2>1, FS_RemoveElement
  <2>3. Cardinality(SurplusEdges') <= Cardinality(SurplusEdges \ {x}) /\ Cardinality(SurplusEdges') \in Nat
    BY <1>8, <2>2, FS_Subset, FS_CardinalityType
  <2>4. Cardinality(SurplusEdges) < rounds
    BY <1>2 DEF RoundsEnough
  <2>5. QED
    BY <1>2, <1>3, <2>1, <2>2, <2>3, <2>4
<1>11. QED
  BY <1>2, <1>4, <1>5, <1>7, <1>10 DEF RoundsEnough, Apart

LEMMA FairnessDoneKeeps == MatchingInv /\ FairnessDone => MatchingInv'
<1> SUFFICES ASSUME MatchingInv, FairnessDone PROVE MatchingInv'
  OBVIOUS
<1> USE DEF MatchingInv
<1>1. /\ stage = "fairness" /\ stage' = "stress" /\ rounds' = maximum + 1
      /\ UNCHANGED <<total, remaining, target, served, epochs, budgets, targets,
                     admissible, chosen, maximum, drops, consumed>>
  BY DEF FairnessDone, state, tables, RepairRounds
<1>2. maximum \in Nat /\ drops \in Nat /\ Cardinality(chosen) + drops = maximum
  BY DEF BMTypeOK, ServiceAccounted
<1>3. BMTypeOK'
  BY <1>1, <1>2 DEF BMTypeOK
<1>4. HVEdges' = HVEdges
  BY <1>1 DEF HVEdges
<1>5. Cardinality(HVEdges) <= Cardinality(chosen) /\ Cardinality(chosen) \in Nat /\ Cardinality(HVEdges) \in Nat
  BY ChosenFinite
<1>6. RoundsEnough'
  BY <1>1, <1>2, <1>4, <1>5 DEF RoundsEnough
<1>7. QED
  BY <1>1, <1>3, <1>6 DEF Apart, ServiceAccounted, BudgetHeld, BudgetLedger, TablesCurrent

(* A round of the repair has one HV edge less: an alternative for the same *)
(* request carries the same stress, so that it can only be an AV's.        *)
LEMMA RepairKeeps ==
  ASSUME MatchingInv, NEW x \in HVEdges, stage = "stress", stage' = "stress",
         rounds > 0, rounds' = rounds - 1, BMTypeOK', Apart(chosen'), ServiceAccounted',
         HVEdges' \subseteq HVEdges \ {x},
         UNCHANGED <<total, remaining, budgets, consumed>>
  PROVE  MatchingInv'
<1> USE DEF MatchingInv
<1>1. IsFiniteSet(HVEdges) /\ Cardinality(HVEdges) \in Nat
  BY ChosenFinite
<1>2. Cardinality(HVEdges \ {x}) = Cardinality(HVEdges) - 1 /\ IsFiniteSet(HVEdges \ {x})
  BY <1>1, FS_RemoveElement
<1>3. Cardinality(HVEdges') <= Cardinality(HVEdges \ {x}) /\ Cardinality(HVEdges') \in Nat
  BY <1>2, FS_Subset, FS_CardinalityType
<1>4. Cardinality(HVEdges) < rounds /\ rounds \in Nat
  BY DEF RoundsEnough, BMTypeOK
<1>5. RoundsEnough'
  BY <1>1, <1>2, <1>3, <1>4 DEF RoundsEnough
<1>6. QED
  BY <1>5 DEF BudgetHeld, BudgetLedger, TablesCurrent, Apart

LEMMA StressSwapKeeps == MatchingInv /\ StressSwap => MatchingInv'
<1> SUFFICES ASSUME MatchingInv, StressSwap PROVE MatchingInv'
  OBVIOUS
<1> USE DEF MatchingInv
<1>1. PICK x \in Victims : \E e \in Alternatives(x) : chosen' = (chosen \ {x}) \cup {e}
  BY DEF StressSwap
<1>2. PICK y \in Alternatives(x) : chosen' = (chosen \ {x}) \cup {y}
  BY <1>1
<1>3. x \in chosen /\ IsHV(x)
  BY DEF Victims
<1>4. /\ y \in admissible /\ y.request = x.request /\ y.vehicle \notin VehiclesOf(chosen \ {x})
      /\ IsHV(y) => StressOf(y) < StressOf(x)
  BY DEF Alternatives
<1>5. /\ chosen \in SUBSET Edge /\ IsFiniteSet(chosen) /\ x \in Edge /\ y \in Edge
      /\ rounds \in Nat
  BY <1>3, <1>4, ChosenFinite DEF BMTypeOK
<1>6. ~IsHV(y)
  <2>1. StressOf(y) = StressOf(x) /\ StressOf(x) \in Nat
    BY <1>4, <1>5, MatchingAssumption DEF StressOf, Edge
  <2>2. QED
    BY <1>4, <2>1
<1>7. y.request \notin RequestsOf(chosen \ {x})
  BY <1>3, <1>4 DEF RequestsOf, Apart
<1>8. y \notin chosen \ {x}
  BY <1>4 DEF VehiclesOf
<1>9. /\ stage = "stress" /\ stage' = "stress" /\ rounds > 0 /\ rounds' = rounds - 1
      /\ UNCHANGED <<total, remaining, target, served, epochs, budgets, targets,
                     admissible, maximum, drops, consumed>>
  BY DEF StressSwap, state, tables
<1>10. BMTypeOK'
  BY <1>2, <1>4, <1>5, <1>9 DEF BMTypeOK
<1>11. Apart(chosen')
  BY <1>2, <1>3, <1>4, <1>5, <1>7, SwapStaysApart
<1>12. ServiceAccounted'
  <2>1. Cardinality(chosen') = Cardinality(chosen)
    BY <1>2, <1>3, <1>5, <1>8, SwapKeepsSize
  <2>2. QED
    BY <1>9, <2>1 DEF ServiceAccounted
<1>13. x \in HVEdges /\ HVEdges' \subseteq HVEdges \ {x}
  BY <1>2, <1>3, <1>6 DEF HVEdges
<1>14. QED
  BY <1>9, <1>10, <1>11, <1>12, <1>13, RepairKeeps

LEMMA StressDropKeeps == MatchingInv /\ StressDrop => MatchingInv'
<1> SUFFICES ASSUME MatchingInv, StressDrop PROVE MatchingInv'
  OBVIOUS
<1> USE DEF MatchingInv
<1>1. PICK x \in Victims : chosen' = chosen \ {x}
  BY DEF StressDrop
<1>2. x \in chosen /\ IsHV(x)
  BY DEF Victims
<1>3. /\ IsFiniteSet(chosen) /\ Cardinality(chosen) \in Nat
      /\ rounds \in Nat /\ drops \in Nat
  BY ChosenFinite DEF BMTypeOK
<1>4. /\ stage = "stress" /\ stage' = "stress" /\ rounds > 0 /\ rounds' = rounds - 1
      /\ drops' = drops + 1
      /\ UNCHANGED <<total, remaining, target, served, epochs, budgets, targets,
                     admissible, maximum, consumed>>
  BY DEF StressDrop, state, tables
<1>5. BMTypeOK'
  BY <1>1, <1>3, <1>4 DEF BMTypeOK
<1>6. Apart(chosen')
  BY <1>1 DEF Apart
<1>7. ServiceAccounted'
  <2>1. Cardinality(chosen') = Cardinality(chosen) - 1
    BY <1>1, <1>2, <1>3, FS_RemoveElement
  <2>2. QED
    BY <1>3, <1>4, <2>1 DEF ServiceAccounted
<1>8. x \in HVEdges /\ HVEdges' \subseteq HVEdges \ {x}
  BY <1>1, <1>2 DEF HVEdges
<1>9. QED
  BY <1>4, <1>5, <1>6, <1>7, <1>8, RepairKeeps

LEMMA StressDoneKeeps == MatchingInv /\ StressDone => MatchingInv'
<1> SUFFICES ASSUME MatchingInv, StressDone PROVE MatchingInv'
  OBVIOUS
<1> USE DEF MatchingInv
<1>1. /\ stage = "stress" /\ stage' = "solved" /\ (rounds = 0 \/ Violating = {})
      /\ UNCHANGED <<total, remaining, target, served, epochs, budgets, targets,
                     admissible, chosen, rounds, maximum, drops, consumed>>
  BY DEF StressDone, state, tables
<1>2. Violating = {}
  BY <1>1, ChosenFinite DEF RoundsEnough
<1>3. Violating' = Violating
  BY <1>1 DEF Violating, Excess
<1>4. BMTypeOK'
  BY <1>1 DEF BMTypeOK
<1>5. QED
  BY <1>1, <1>2, <1>3, <1>4
     DEF Apart, ServiceAccounted, BudgetHeld, BudgetLedger, RoundsEnough, TablesCurrent

(* What is consumed was in the budget, so that nothing is cut off at zero. *)
LEMMA ConsumeKeeps == MatchingInv /\ Consume => MatchingInv'
<1> SUFFICES ASSUME MatchingInv, Consume PROVE MatchingInv'
  OBVIOUS
<1> USE DEF MatchingInv
<1>1. /\ stage = "solved" /\ stage' = "idle"
      /\ served' = [z \in Zones |-> served[z] + Count(chosen, z)]
      /\ remaining' = [z \in Zones |-> Minus(remaining[z], HVStress(chosen, z))]
      /\ consumed' = [z \in Zones |-> consumed[z] + HVStress(chosen, z)]
      /\ budgets' = [z \in Zones |-> 0] /\ targets' = [z \in Zones |-> 0]
      /\ admissible' = {} /\ chosen' = {} /\ rounds' = 0 /\ maximum' = 0 /\ drops' = 0
      /\ UNCHANGED <<total, target, epochs>>
  BY DEF Consume
<1>2. {total, remaining, target, served, budgets, targets, consumed} \subseteq [Zones -> Nat]
  BY DEF BMTypeOK
<1>3. ASSUME NEW z \in Zones
      PROVE  /\ served'[z] \in Nat /\ remaining'[z] \in Nat /\ consumed'[z] \in Nat
             /\ remaining'[z] + consumed'[z] = total[z]
  <2>1. HVStress(chosen, z) \in Nat /\ Count(chosen, z) \in Nat
    BY ChosenFinite, StressNatural
  <2>2. /\ served[z] \in Nat /\ remaining[z] \in Nat /\ consumed[z] \in Nat /\ total[z] \in Nat
    BY <1>2
  <2>3. budgets = remaining /\ Violating = {}
    BY <1>1 DEF TablesCurrent, BudgetHeld
  <2>4. ~(Minus(HVStress(chosen, z), remaining[z]) > 0)
    BY <2>3 DEF Violating, Excess
  <2>5. HVStress(chosen, z) <= remaining[z]
    BY <2>1, <2>2, <2>4 DEF Minus
  <2>6. remaining[z] + consumed[z] = total[z]
    BY DEF BudgetLedger
  <2>7. /\ served'[z] = served[z] + Count(chosen, z)
        /\ remaining'[z] = Minus(remaining[z], HVStress(chosen, z))
        /\ consumed'[z] = consumed[z] + HVStress(chosen, z)
    BY <1>1
  <2>8. QED
    BY <2>1, <2>2, <2>5, <2>6, <2>7 DEF Minus
<1>4. {served', remaining', consumed', budgets', targets'} \subseteq [Zones -> Nat]
  BY <1>1, <1>3
<1>5. BMTypeOK'
  BY <1>1, <1>2, <1>4 DEF BMTypeOK
<1>6. ServiceAccounted'
  BY <1>1, FS_EmptySet DEF ServiceAccounted
<1>7. BudgetLedger'
  BY <1>1, <1>3 DEF BudgetLedger
<1>8. QED
  BY <1>1, <1>5, <1>6, <1>7 DEF Apart, BudgetHeld, RoundsEnough, TablesCurrent

LEMMA MatchingStep == MatchingInv /\ [BMNext]_bmVars => MatchingInv'
<1> SUFFICES ASSUME MatchingInv, [BMNext]_bmVars PROVE MatchingInv'
  OBVIOUS
<1>1. CASE UNCHANGED bmVars
  <2>1. UNCHANGED <<total, remaining, target, served, stage, epochs, budgets, targets,
                    admissible, chosen, rounds, maximum, drops, consumed>>
    BY <1>1 DEF bmVars, state, tables
  <2>2. SurplusEdges' = SurplusEdges /\ HVEdges' = HVEdges /\ Violating' = Violating
    BY <2>1 DEF SurplusEdges, Surplus, HVEdges, Violating, Excess
  <2>3. QED
    BY <2>1, <2>2 DEF MatchingInv, BMTypeOK, Apart, ServiceAccounted, BudgetHeld,
                      BudgetLedger, RoundsEnough, TablesCurrent
<1>2. QED
  BY <1>1, PrepareKeeps, FairnessSwapKeeps, FairnessDoneKeeps, StressSwapKeeps,
     StressDropKeeps, StressDoneKeeps, ConsumeKeeps DEF BMNext

LEMMA MatchingHolds == BMSpec => []MatchingInv
BY MatchingInit, MatchingStep, PTL DEF BMSpec

-----------------------------------------------------------------------------
(* A swap takes one unit of deficit from the zone it serves and adds none  *)
(* to the zone it takes from.                                              *)
LEMMA SwapHelps ==
  MatchingInv /\ [BMNext]_bmVars =>
    [stage = "fairness" /\ chosen' # chosen /\ stage' = stage =>
       TotalDeficit' < TotalDeficit]_bmVars
<1> SUFFICES ASSUME MatchingInv, [BMNext]_bmVars,
                    stage = "fairness", chosen' # chosen, stage' = stage
             PROVE  TotalDeficit' < TotalDeficit
  OBVIOUS
<1>1. FairnessSwap
  BY DEF BMNext, bmVars, Prepare, FairnessDone, StressSwap, StressDrop, StressDone, Consume
<1>2. PICK x \in chosen, y \in admissible :
        /\ chosen' = (chosen \ {x}) \cup {y}
        /\ y \notin chosen /\ ZoneOf(x) # ZoneOf(y)
        /\ y.request \notin RequestsOf(chosen \ {x})
        /\ y.vehicle \notin VehiclesOf(chosen \ {x})
        /\ Count(chosen, ZoneOf(y)) < targets[ZoneOf(y)]
        /\ Count(chosen, ZoneOf(x)) > targets[ZoneOf(x)]
        /\ {ZoneOf(x), ZoneOf(y)} \subseteq Zones
  BY <1>1, FairnessSwapIs
<1>3. targets' = targets
  BY <1>1 DEF FairnessSwap, tables
<1>4. /\ chosen \in SUBSET Edge /\ y \in Edge /\ chosen' \in SUBSET Edge
      /\ targets \in [Zones -> Nat] /\ IsFiniteSet(Zones)
  BY <1>2, MatchingAssumption DEF BMTypeOK, MatchingInv
<1> DEFINE before == [z \in Zones |-> Deficit(z)]
           after == [z \in Zones |-> Minus(targets[z], Count(chosen', z))]
           a == ZoneOf(y)
<1>5. \A z \in Zones : /\ Count(chosen, z) \in Nat /\ targets[z] \in Nat
                       /\ before[z] = Minus(targets[z], Count(chosen, z))
  BY <1>4, StressNatural DEF Deficit
<1>6. \A z \in Zones : before[z] \in Nat
  BY <1>5 DEF Minus
<1>7. ASSUME NEW z \in Zones
      PROVE  Count(chosen', z) = IF z = ZoneOf(y) THEN Count(chosen, z) + 1
                                 ELSE IF z = ZoneOf(x) THEN Count(chosen, z) - 1
                                 ELSE Count(chosen, z)
  BY <1>2, <1>4, CountsOfSwap
<1>8. a \in Zones /\ before[a] > 0 /\ after[a] = before[a] - 1
  <2>1. a \in Zones /\ Count(chosen', a) = Count(chosen, a) + 1
    BY <1>2, <1>7
  <2>2. after[a] = Minus(targets[a], Count(chosen', a))
    BY <2>1
  <2>3. Count(chosen, a) \in Nat /\ targets[a] \in Nat /\ before[a] = Minus(targets[a], Count(chosen, a))
    BY <1>5, <2>1
  <2>4. Count(chosen, a) < targets[a]
    BY <1>2
  <2> HIDE DEF before, after, a
  <2>5. QED
    BY <2>1, <2>2, <2>3, <2>4 DEF Minus
<1>9. ASSUME NEW z \in Zones \ {a}
      PROVE  after[z] = before[z]
  <2>1. Count(chosen', z) = IF z = ZoneOf(x) THEN Count(chosen, z) - 1 ELSE Count(chosen, z)
    BY <1>7
  <2>2. after[z] = Minus(targets[z], Count(chosen', z))
    OBVIOUS
  <2>3. Count(chosen, z) \in Nat /\ targets[z] \in Nat /\ before[z] = Minus(targets[z], Count(chosen, z))
    BY <1>5
  <2>4. z = ZoneOf(x) => Count(chosen, z) > targets[z]
    BY <1>2
  <2> HIDE DEF before, after, a
  <2>5. QED
    BY <2>1, <2>2, <2>3, <2>4 DEF Minus
<1>10. TotalDeficit = Load(before, Zones)
  BY DEF TotalDeficit
<1>11. TotalDeficit' = Load(after, Zones)
  BY <1>3 DEF TotalDeficit, Deficit
<1> HIDE DEF before, after, a
<1>12. Load(after, Zones) = Load(before, Zones) - 1
  BY <1>4, <1>6, <1>8, <1>9, LoadStep
<1>13. Load(before, Zones) \in Nat
  BY <1>4, <1>6, UnitsFinite
<1>14. QED
  BY <1>10, <1>11, <1>12, <1>13

(* Over a period of balanced matchings: whatever the requests, their       *)
(* stress and the configured rates are, the swaps keep a matching, both    *)
(* loops have rounds enough, no zone exceeds its stress budget, every swap *)
(* helps, and the budgets are a ledger.                                    *)
THEOREM MatchingIsSoundHolds == BMSpec => MatchingIsSound
<1>1. MatchingInv => /\ BMTypeOK /\ StaysMatching /\ ServiceAccounted
                     /\ BudgetHeld /\ FairnessComplete /\ BudgetLedger
  <2> SUFFICES ASSUME MatchingInv
               PROVE  StaysMatching /\ FairnessComplete
    BY DEF MatchingInv
  <2>1. chosen \in SUBSET Edge
    BY ChosenFinite DEF MatchingInv
  <2>2. StaysMatching
    BY <2>1, MatchingsAreApart DEF MatchingInv, StaysMatching
  <2>3. FairnessComplete
    BY ChosenFinite DEF FairnessComplete, MatchingInv, RoundsEnough
  <2>4. QED
    BY <2>2, <2>3
<1>2. QED
  BY <1>1, MatchingHolds, SwapHelps, PTL DEF BMSpec, MatchingIsSound, FairnessHelps

-----------------------------------------------------------------------------
(* The empty movements of a day.                                           *)

(* The inductive invariant.  A row of the records fits the clock, the      *)
(* epochs, the shift of its vehicle and, while open, the vehicle itself.   *)
RowFits(i) ==
  /\ rows[i].start <= now /\ rows[i].start < DayEnd /\ rows[i].start % Every = 0
  /\ rows[i].planned \in Etas /\ rows[i].start + rows[i].planned <= End[rows[i].vehicle]
  /\ Finished(i) => rows[i].end <= now /\ rows[i].end <= End[rows[i].vehicle]
  /\ ~Finished(i) => moving[rows[i].vehicle] = i
  /\ rows[i].status = "COMPLETED" => rows[i].end = rows[i].start + rows[i].planned
  /\ rows[i].status = "INTERRUPTED_BY_CUSTOMER" =>
       rows[i].start <= rows[i].end /\ rows[i].end < rows[i].start + rows[i].planned

RowsFit == \A i \in DOMAIN rows : RowFits(i)

RowsFollow ==
  \A i, j \in DOMAIN rows : i < j /\ rows[i].vehicle = rows[j].vehicle =>
    Finished(i) /\ rows[i].end <= rows[j].start

LegFits(v) ==
  /\ moving[v] # 0 <=> route[v] # None
  /\ moving[v] # 0 =>
       /\ customer[v] = None
       /\ rows[moving[v]].vehicle = v /\ rows[moving[v]].status = "IN_PROGRESS"
       /\ route[v] = [target |-> rows[moving[v]].target,
                      arrival |-> rows[moving[v]].start + rows[moving[v]].planned]

LegsFit == \A v \in Fleet : LegFits(v)

(* Between two moves of the clock every leg under way ends in the future.  *)
LegsAhead ==
  phase \in {"dispatch", "reposition", "tick"} =>
    \A v \in Fleet : route[v] # None => route[v].arrival > now

MovementInv ==
  IMTypeOK /\ RowsFit /\ RowsFollow /\ LegsFit /\ LegsAhead /\ DrainComplete

LEMMA InvIsAgreed == MovementInv => MovementsAgree /\ MovementsConserved /\ NoneAfterShift
BY DEF MovementInv, LegsFit, LegFits, MovementsAgree, RowsFit, RowFits, RowsFollow,
       MovementsConserved, NoneAfterShift

LEMMA MovementInit == IMInit => MovementInv
<1> SUFFICES ASSUME IMInit PROVE MovementInv
  OBVIOUS
<1> USE DEF IMInit
<1>1. IMTypeOK
  <2>1. rows \in Seq(Row) /\ Len(rows) = 0
    OBVIOUS
  <2>2. quotas \in [Nodes -> Nat]
    BY DEF NoQuotas
  <2>3. route \in [Fleet -> [target : Nodes, arrival : Nat] \cup {None}]
        /\ customer \in [Fleet -> Nat \cup {None}]
    OBVIOUS
  <2>4. moving \in [Fleet -> 0..Len(rows)]
    BY <2>1
  <2>5. QED
    BY <2>1, <2>2, <2>3, <2>4 DEF IMTypeOK
<1>2. DOMAIN rows = {}
  OBVIOUS
<1>3. QED
  BY <1>1, <1>2 DEF MovementInv, RowsFit, RowsFollow, LegsFit, LegFits, LegsAhead, DrainComplete

-----------------------------------------------------------------------------
LEMMA RowKinds ==
  ASSUME MovementInv, NEW i \in DOMAIN rows
  PROVE  /\ rows[i] \in Row /\ rows[i].vehicle \in Fleet /\ rows[i].target \in Nodes
         /\ rows[i].start \in Nat /\ rows[i].planned \in Nat /\ rows[i].end \in Nat
         /\ End[rows[i].vehicle] \in Nat /\ now \in Nat
         /\ i \in Nat /\ i # 0 /\ i <= Len(rows)
<1>1. rows \in Seq(Row) /\ now \in Nat
  BY DEF MovementInv, IMTypeOK
<1>2. rows[i] \in Row /\ i \in Nat /\ i # 0 /\ i <= Len(rows)
  BY <1>1
<1>3. rows[i].vehicle \in Fleet
  BY <1>2 DEF Row
<1>4. End[rows[i].vehicle] \in Nat
  BY <1>3, MovementAssumption
<1>5. QED
  BY <1>1, <1>2, <1>3, <1>4 DEF Row

LEMMA MovingKinds ==
  ASSUME MovementInv, NEW v \in Fleet
  PROVE  /\ moving[v] \in 0..Len(rows)
         /\ moving[v] # 0 => moving[v] \in DOMAIN rows
         /\ End[v] \in Nat /\ Start[v] \in Nat
<1>1. rows \in Seq(Row) /\ moving \in [Fleet -> 0..Len(rows)]
  BY DEF MovementInv, IMTypeOK
<1>2. DOMAIN rows = 1..Len(rows) /\ Len(rows) \in Nat
  BY <1>1
<1>3. moving[v] \in 0..Len(rows)
  BY <1>1
<1>4. QED
  BY <1>2, <1>3, MovementAssumption

(* No row is the movement of two vehicles.                                 *)
LEMMA OneEach ==
  ASSUME MovementInv, NEW v \in Fleet, NEW w \in Fleet, moving[v] = moving[w], moving[v] # 0
  PROVE  v = w
BY DEF MovementInv, LegsFit, LegFits

(* Movements closed, by arrival or by an interruption.                     *)
LEMMA ClosingKeeps ==
  ASSUME MovementInv, NEW closed \in SUBSET Fleet, \A v \in closed : moving[v] # 0,
         NEW ends, DOMAIN ends = {moving[v] : v \in closed},
         NEW how \in {"COMPLETED", "INTERRUPTED_BY_CUSTOMER"},
         \A v \in closed :
           /\ ends[moving[v]] \in Nat /\ ends[moving[v]] <= now /\ ends[moving[v]] <= End[v]
           /\ how = "COMPLETED" =>
                ends[moving[v]] = rows[moving[v]].start + rows[moving[v]].planned
           /\ how # "COMPLETED" =>
                /\ rows[moving[v]].start <= ends[moving[v]]
                /\ ends[moving[v]] < rows[moving[v]].start + rows[moving[v]].planned,
         rows' = RecordEnd(ends, how), now' = now,
         moving' = [v \in Fleet |-> IF v \in closed THEN 0 ELSE moving[v]]
  PROVE  /\ rows' \in Seq(Row) /\ moving' \in [Fleet -> 0..Len(rows')]
         /\ RowsFit' /\ RowsFollow'
         /\ \A v \in Fleet : moving'[v] # 0 =>
              v \notin closed /\ moving'[v] = moving[v] /\ rows'[moving'[v]] = rows[moving[v]]
<1>1. rows \in Seq(Row) /\ moving \in [Fleet -> 0..Len(rows)]
  BY DEF MovementInv, IMTypeOK
<1>2. DOMAIN rows' = DOMAIN rows /\ DOMAIN rows = 1..Len(rows) /\ Len(rows) \in Nat
  <2>1. DOMAIN rows' = DOMAIN rows
    BY DEF RecordEnd
  <2>2. QED
    BY <1>1, <2>1
<1>3. ASSUME NEW i \in DOMAIN rows
      PROVE  /\ rows'[i] \in Row
             /\ rows'[i].vehicle = rows[i].vehicle /\ rows'[i].target = rows[i].target
             /\ rows'[i].start = rows[i].start /\ rows'[i].planned = rows[i].planned
             /\ i \notin DOMAIN ends => rows'[i] = rows[i]
             /\ i \in DOMAIN ends => rows'[i].end = ends[i] /\ rows'[i].status = how
  <2>1. rows[i] \in Row
    BY RowKinds
  <2>2. CASE i \in DOMAIN ends
    <3>1. ends[i] \in Nat
      BY <2>2
    <3>2. rows'[i] = [rows[i] EXCEPT !.end = ends[i], !.status = how]
      BY <2>2 DEF RecordEnd
    <3>3. QED
      BY <2>1, <2>2, <3>1, <3>2 DEF Row
  <2>3. CASE i \notin DOMAIN ends
    BY <2>1, <2>3 DEF RecordEnd
  <2>4. QED
    BY <2>2, <2>3
<1>4. rows' \in Seq(Row) /\ Len(rows') = Len(rows)
  <2>1. rows' \in [1..Len(rows) -> Row]
    BY <1>2, <1>3 DEF RecordEnd
  <2>2. rows' \in Seq(Row)
    BY <1>2, <2>1
  <2>3. QED
    BY <1>2, <2>2
<1>5. moving' \in [Fleet -> 0..Len(rows')]
  BY <1>1, <1>2, <1>4
<1>6. ASSUME NEW i \in DOMAIN ends
      PROVE  i \in DOMAIN rows /\ ~Finished(i) /\ rows[i].vehicle \in closed
             /\ i = moving[rows[i].vehicle]
  <2>1. PICK v \in closed : i = moving[v]
    OBVIOUS
  <2>2. LegFits(v) /\ moving[v] # 0 /\ v \in Fleet
    BY DEF MovementInv, LegsFit
  <2>3. i \in DOMAIN rows
    BY <2>1, <2>2, MovingKinds
  <2>4. QED
    BY <2>1, <2>2, <2>3 DEF LegFits, Finished
<1>7. ASSUME NEW v \in Fleet, moving'[v] # 0
      PROVE  v \notin closed /\ moving'[v] = moving[v] /\ rows'[moving'[v]] = rows[moving[v]]
  <2>1. v \notin closed /\ moving'[v] = moving[v]
    BY <1>7
  <2>2. moving[v] \notin DOMAIN ends
    BY <1>7, <2>1, OneEach
  <2>3. moving[v] \in DOMAIN rows
    <3>1. moving[v] # 0 /\ v \in Fleet
      BY <1>7, <2>1
    <3>2. QED
      BY <3>1, MovingKinds
  <2>4. QED
    BY <1>3, <2>1, <2>2, <2>3
<1>8. RowsFit'
  <2> SUFFICES ASSUME NEW i \in DOMAIN rows
               PROVE  RowFits(i)'
    BY <1>2 DEF RowsFit
  <2>1. RowFits(i)
    BY DEF MovementInv, RowsFit
  <2>2. CASE i \in DOMAIN ends
    <3>1. /\ rows[i].vehicle \in closed /\ i = moving[rows[i].vehicle] /\ rows[i].vehicle \in Fleet
      BY <1>6, <2>2
    <3>2. /\ ends[i] <= now /\ ends[i] <= End[rows[i].vehicle]
          /\ how = "COMPLETED" => ends[i] = rows[i].start + rows[i].planned
          /\ how # "COMPLETED" =>
                rows[i].start <= ends[i] /\ ends[i] < rows[i].start + rows[i].planned
      BY <3>1
    <3>3. rows'[i].end = ends[i] /\ rows'[i].status = how
      BY <1>3, <2>2
    <3>4. /\ rows'[i].vehicle = rows[i].vehicle
          /\ rows'[i].start = rows[i].start /\ rows'[i].planned = rows[i].planned
      BY <1>3
    <3>5. Finished(i)'
      BY <3>3 DEF Finished
    <3>6. QED
      BY <2>1, <3>2, <3>3, <3>4, <3>5 DEF RowFits
  <2>3. CASE i \notin DOMAIN ends
    <3>1. rows'[i] = rows[i]
      BY <1>3, <2>3
    <3>2. ~Finished(i) => moving'[rows[i].vehicle] = i
      <4>1. SUFFICES ASSUME ~Finished(i) PROVE moving'[rows[i].vehicle] = i
        OBVIOUS
      <4>2. moving[rows[i].vehicle] = i /\ rows[i].vehicle \in Fleet
        BY <2>1, <4>1, RowKinds DEF RowFits
      <4>3. rows[i].vehicle \notin closed
        BY <2>3, <4>2
      <4>4. QED
        BY <4>2, <4>3
    <3>3. QED
      BY <2>1, <3>1, <3>2 DEF RowFits, Finished
  <2>4. QED
    BY <2>2, <2>3
<1>9. RowsFollow'
  <2> SUFFICES ASSUME NEW i \in DOMAIN rows, NEW j \in DOMAIN rows, i < j,
                      rows'[i].vehicle = rows'[j].vehicle
               PROVE  Finished(i)' /\ rows'[i].end <= rows'[j].start
    BY <1>2 DEF RowsFollow
  <2>1. Finished(i) /\ rows[i].end <= rows[j].start
    BY <1>3 DEF MovementInv, RowsFollow
  <2>2. rows'[i] = rows[i]
    BY <1>3, <1>6, <2>1
  <2>3. QED
    BY <1>3, <2>1, <2>2 DEF Finished
<1>10. QED
  BY <1>4, <1>5, <1>7, <1>8, <1>9

(* The leg of a vehicle under way, as its row has it.                      *)
LEMMA LegKinds ==
  ASSUME MovementInv, NEW v \in Fleet, moving[v] # 0
  PROVE  /\ moving[v] \in DOMAIN rows /\ RowFits(moving[v]) /\ ~Finished(moving[v])
         /\ rows[moving[v]].vehicle = v /\ customer[v] = None /\ route[v] # None
         /\ route[v].arrival = rows[moving[v]].start + rows[moving[v]].planned
         /\ route[v].arrival \in Nat /\ route[v].target \in Nodes
         /\ route[v].arrival <= End[v]
<1>1. moving[v] \in DOMAIN rows
  BY MovingKinds
<1>2. LegFits(v) /\ RowFits(moving[v])
  BY <1>1 DEF MovementInv, LegsFit, RowsFit
<1>3. rows[moving[v]].start \in Nat /\ rows[moving[v]].planned \in Nat /\ rows[moving[v]].target \in Nodes
  BY <1>1, RowKinds
<1>4. rows[moving[v]].vehicle = v /\ customer[v] = None /\ route[v] # None
  BY <1>2 DEF LegFits
<1>5. route[v] = [target |-> rows[moving[v]].target,
                  arrival |-> rows[moving[v]].start + rows[moving[v]].planned]
  BY <1>2 DEF LegFits
<1>6. rows[moving[v]].start + rows[moving[v]].planned <= End[v]
  BY <1>2, <1>4 DEF RowFits
<1>7. ~Finished(moving[v])
  BY <1>2 DEF LegFits, Finished
<1>8. QED
  BY <1>1, <1>2, <1>3, <1>4, <1>5, <1>6, <1>7

LEMMA MoveKeeps == MovementInv /\ Move => MovementInv'
<1> SUFFICES ASSUME MovementInv, Move PROVE MovementInv'
  OBVIOUS
<1>1. PICK at \in [Delivered -> Nodes] :
        place' = [v \in Fleet |-> IF v \in Delivered THEN at[v]
                                  ELSE IF v \in Arrived THEN route[v].target
                                  ELSE place[v]]
  BY DEF Move
<1> DEFINE done == {v \in Arrived : moving[v] # 0}
           ends == [i \in {moving[v] : v \in done} |->
                      EndOfLeg(CHOOSE v \in done : moving[v] = i)]
<1>2. /\ phase = "move" /\ phase' = "dispatch" /\ now' = now /\ quotas' = quotas
      /\ rows' = RecordEnd(ends, "COMPLETED")
      /\ moving' = [v \in Fleet |-> IF v \in done THEN 0 ELSE moving[v]]
      /\ route' = [v \in Fleet |-> IF v \in Arrived THEN None ELSE route[v]]
      /\ customer' = [v \in Fleet |-> IF v \in Delivered THEN None ELSE customer[v]]
  BY DEF Move
<1>3. done \in SUBSET Fleet /\ \A v \in done : moving[v] # 0 /\ v \in Arrived /\ v \in Fleet
  BY DEF Arrived
<1>4. ASSUME NEW v \in done
      PROVE  ends[moving[v]] = route[v].arrival
  <2>1. (CHOOSE w \in done : moving[w] = moving[v]) = v
    <3>1. \A w \in done : moving[w] = moving[v] => w = v
      BY <1>3, OneEach
    <3> HIDE DEF done
    <3>2. QED
      BY <3>1
  <2>2. QED
    BY <2>1 DEF EndOfLeg
<1>5. ASSUME NEW v \in done
      PROVE  /\ ends[moving[v]] \in Nat /\ ends[moving[v]] <= now /\ ends[moving[v]] <= End[v]
             /\ ends[moving[v]] = rows[moving[v]].start + rows[moving[v]].planned
  <2>1. v \in Fleet /\ moving[v] # 0 /\ route[v].arrival <= now
    BY <1>3 DEF Arrived
  <2>2. QED
    BY <1>4, <2>1, LegKinds
<1>6. DOMAIN ends = {moving[v] : v \in done}
  OBVIOUS
<1>7. \A v \in Fleet : v \in Arrived => v \in done
  BY DEF Arrived, MovementInv, LegsFit, LegFits
<1>8. \A v \in done : v \in Arrived
  OBVIOUS
<1> HIDE DEF done, ends
<1>9. /\ rows' \in Seq(Row) /\ moving' \in [Fleet -> 0..Len(rows')]
      /\ RowsFit' /\ RowsFollow'
      /\ \A v \in Fleet : moving'[v] # 0 =>
           v \notin done /\ moving'[v] = moving[v] /\ rows'[moving'[v]] = rows[moving[v]]
  BY <1>2, <1>3, <1>5, <1>6, ClosingKeeps
<1>10. /\ now \in Nat /\ place \in [Fleet -> Nodes] /\ quotas \in [Nodes -> Nat]
       /\ route \in [Fleet -> [target : Nodes, arrival : Nat] \cup {None}]
       /\ customer \in [Fleet -> Nat \cup {None}]
  BY DEF MovementInv, IMTypeOK
<1>11. place' \in [Fleet -> Nodes]
  <2>1. \A v \in Arrived : route[v].target \in Nodes
    BY <1>3, <1>7, LegKinds DEF Arrived
  <2>2. QED
    BY <1>1, <1>10, <2>1
<1>12. /\ route' \in [Fleet -> [target : Nodes, arrival : Nat] \cup {None}]
       /\ customer' \in [Fleet -> Nat \cup {None}]
  BY <1>2, <1>10
<1>13. IMTypeOK'
  BY <1>2, <1>9, <1>10, <1>11, <1>12 DEF IMTypeOK
<1>14. LegsFit'
  <2> SUFFICES ASSUME NEW v \in Fleet PROVE LegFits(v)'
    BY DEF LegsFit
  <2>1. LegFits(v)
    BY DEF MovementInv, LegsFit
  <2>2. CASE v \in done
    BY <1>2, <1>8, <2>2 DEF LegFits
  <2>3. CASE v \notin done
    <3>1. v \notin Arrived /\ moving'[v] = moving[v] /\ route'[v] = route[v]
      BY <1>2, <1>7, <2>3
    <3>2. customer[v] = None => customer'[v] = None
      BY <1>2
    <3>3. moving[v] # 0 => rows'[moving'[v]] = rows[moving[v]]
      BY <1>9, <3>1
    <3>4. QED
      BY <2>1, <3>1, <3>2, <3>3 DEF LegFits
  <2>4. QED
    BY <2>2, <2>3
<1>15. LegsAhead'
  <2> SUFFICES ASSUME NEW v \in Fleet, route'[v] # None PROVE route'[v].arrival > now
    BY <1>2 DEF LegsAhead
  <2>1. v \notin Arrived /\ route'[v] = route[v]
    BY <1>2
  <2>2. route[v].arrival \in Nat
    BY <1>10, <2>1
  <2>3. ~(route[v].arrival <= now)
    BY <2>1 DEF Arrived
  <2>4. QED
    BY <1>10, <2>1, <2>2, <2>3
<1>16. DrainComplete'
  BY <1>2 DEF DrainComplete
<1>17. QED
  BY <1>9, <1>13, <1>14, <1>15, <1>16 DEF MovementInv

LEMMA DispatchKeeps == MovementInv /\ Dispatch => MovementInv'
<1> SUFFICES ASSUME MovementInv, Dispatch PROVE MovementInv'
  OBVIOUS
<1>1. PICK taken \in SUBSET {v \in Fleet : Available(v)} :
       /\ rows' = RecordEnd([i \in {moving[v] : v \in Interrupted(taken)} |-> now],
                            "INTERRUPTED_BY_CUSTOMER")
       /\ moving' = [v \in Fleet |-> IF v \in Interrupted(taken) THEN 0 ELSE moving[v]]
       /\ route' = [v \in Fleet |-> IF v \in Interrupted(taken) THEN None ELSE route[v]]
       /\ \E length \in [taken -> Services] :
            customer' = [v \in Fleet |-> IF v \in taken THEN now + length[v] ELSE customer[v]]
  BY DEF Dispatch
<1>2. PICK length \in [taken -> Services] :
        customer' = [v \in Fleet |-> IF v \in taken THEN now + length[v] ELSE customer[v]]
  BY <1>1
<1> DEFINE stopped == Interrupted(taken)
           ends == [i \in {moving[v] : v \in stopped} |-> now]
<1>3. /\ phase = "dispatch" /\ phase' = "reposition" /\ now' = now
      /\ place' = place /\ quotas' = quotas
  BY DEF Dispatch
<1>4. /\ now \in Nat /\ place \in [Fleet -> Nodes] /\ quotas \in [Nodes -> Nat]
      /\ route \in [Fleet -> [target : Nodes, arrival : Nat] \cup {None}]
      /\ customer \in [Fleet -> Nat \cup {None}]
  BY DEF MovementInv, IMTypeOK
<1>5. stopped \in SUBSET Fleet /\ \A v \in stopped : moving[v] # 0 /\ v \in Fleet /\ Online(v)
  BY DEF Interrupted, IsInterruptible
<1>6. ASSUME NEW v \in stopped
      PROVE  /\ ends[moving[v]] \in Nat /\ ends[moving[v]] <= now /\ ends[moving[v]] <= End[v]
             /\ rows[moving[v]].start <= ends[moving[v]]
             /\ ends[moving[v]] < rows[moving[v]].start + rows[moving[v]].planned
  <2>1. ends[moving[v]] = now
    OBVIOUS
  <2>2. v \in Fleet /\ moving[v] # 0 /\ now < End[v] /\ End[v] \in Nat
    BY <1>5, MovingKinds DEF Online
  <2>3. /\ RowFits(moving[v]) /\ route[v] # None
        /\ route[v].arrival = rows[moving[v]].start + rows[moving[v]].planned
    BY <2>2, LegKinds
  <2>4. route[v].arrival > now
    BY <1>3, <2>2, <2>3 DEF MovementInv, LegsAhead
  <2>5. rows[moving[v]].start <= now
    BY <2>3 DEF RowFits
  <2> HIDE DEF ends
  <2>6. QED
    BY <1>4, <2>1, <2>2, <2>3, <2>4, <2>5
<1>7. DOMAIN ends = {moving[v] : v \in stopped}
  OBVIOUS
<1>8. /\ rows' = RecordEnd(ends, "INTERRUPTED_BY_CUSTOMER")
      /\ moving' = [v \in Fleet |-> IF v \in stopped THEN 0 ELSE moving[v]]
      /\ route' = [v \in Fleet |-> IF v \in stopped THEN None ELSE route[v]]
  BY <1>1
<1>9. \A v \in taken : moving[v] # 0 => v \in stopped
  BY DEF Interrupted, Available, MovementInv, LegsFit, LegFits
<1> HIDE DEF ends, stopped
<1>10. /\ rows' \in Seq(Row) /\ moving' \in [Fleet -> 0..Len(rows')]
       /\ RowsFit' /\ RowsFollow'
       /\ \A v \in Fleet : moving'[v] # 0 =>
            v \notin stopped /\ moving'[v] = moving[v] /\ rows'[moving'[v]] = rows[moving[v]]
  BY <1>3, <1>5, <1>6, <1>7, <1>8, ClosingKeeps
<1>11. customer' \in [Fleet -> Nat \cup {None}]
  <2>1. ASSUME NEW v \in taken PROVE now + length[v] \in Nat
    <3>1. length[v] \in Services
      BY <1>2
    <3>2. length[v] \in Nat
      BY <3>1, MovementAssumption
    <3>3. QED
      BY <1>4, <3>2
  <2>2. QED
    BY <1>2, <1>4, <2>1
<1>12. IMTypeOK'
  BY <1>3, <1>4, <1>8, <1>10, <1>11 DEF IMTypeOK
<1>13. LegsFit'
  <2> SUFFICES ASSUME NEW v \in Fleet PROVE LegFits(v)'
    BY DEF LegsFit
  <2>1. LegFits(v)
    BY DEF MovementInv, LegsFit
  <2>2. CASE v \in stopped
    BY <1>8, <2>2 DEF LegFits
  <2>3. CASE v \notin stopped
    <3>1. moving'[v] = moving[v] /\ route'[v] = route[v]
      BY <1>8, <2>3
    <3>2. moving[v] # 0 => customer'[v] = customer[v]
      BY <1>2, <1>9, <2>3
    <3>3. moving[v] # 0 => rows'[moving'[v]] = rows[moving[v]]
      BY <1>10, <3>1
    <3>4. QED
      BY <2>1, <3>1, <3>2, <3>3 DEF LegFits
  <2>4. QED
    BY <2>2, <2>3
<1>14. LegsAhead'
  BY <1>3, <1>8 DEF LegsAhead, MovementInv
<1>15. DrainComplete'
  BY <1>3 DEF DrainComplete
<1>16. QED
  BY <1>10, <1>12, <1>13, <1>14, <1>15 DEF MovementInv

LEMMA OtherPhasesKeep ==
  ASSUME MovementInv, DispatchAfterMatching \/ NoEpoch
  PROVE  MovementInv'
<1>1. /\ phase \in {"dispatch", "reposition"} /\ phase' = "tick"
      /\ UNCHANGED <<now, place, route, customer, moving, rows, quotas>>
  BY DEF DispatchAfterMatching, NoEpoch
<1>2. RowsFit' /\ RowsFollow' /\ LegsFit'
  BY <1>1 DEF MovementInv, RowsFit, RowFits, RowsFollow, LegsFit, LegFits, Finished
<1>3. IMTypeOK'
  BY <1>1 DEF MovementInv, IMTypeOK
<1>4. LegsAhead' /\ DrainComplete'
  BY <1>1 DEF MovementInv, LegsAhead, DrainComplete
<1>5. QED
  BY <1>2, <1>3, <1>4 DEF MovementInv

(* The replay ends when nothing is outstanding, or at its limit, which no  *)
(* leg outlasts.                                                           *)
LEMMA TickKeeps == MovementInv /\ Tick => MovementInv'
<1> SUFFICES ASSUME MovementInv, Tick PROVE MovementInv'
  OBVIOUS
<1>1. /\ phase = "tick" /\ quotas' = NoQuotas
      /\ UNCHANGED <<place, route, customer, moving, rows>>
      /\ IF Drained \/ now + Interval > DrainLimit
         THEN phase' = "ended" /\ now' = now
         ELSE phase' = "move" /\ now' = now + Interval
  BY DEF Tick
<1>2. now \in Nat /\ Interval \in Nat /\ DrainLimit \in Nat /\ Every \in Nat /\ DayEnd \in Nat
  BY MovementAssumption DEF MovementInv, IMTypeOK
<1>3. now' \in Nat /\ now <= now' /\ phase' \in {"move", "ended"}
  BY <1>1, <1>2
<1>4. IMTypeOK'
  BY <1>1, <1>3 DEF MovementInv, IMTypeOK, NoQuotas
<1>5. RowsFit'
  <2> SUFFICES ASSUME NEW i \in DOMAIN rows PROVE RowFits(i)'
    BY <1>1 DEF RowsFit
  <2>1. RowFits(i) /\ rows[i].start \in Nat /\ rows[i].end \in Nat
    BY RowKinds DEF MovementInv, RowsFit
  <2>2. rows[i].start <= now => rows[i].start <= now'
    BY <1>2, <1>3, <2>1
  <2>3. rows[i].end <= now => rows[i].end <= now'
    BY <1>2, <1>3, <2>1
  <2>4. QED
    BY <1>1, <2>1, <2>2, <2>3 DEF RowFits, Finished
<1>6. RowsFollow' /\ LegsFit'
  BY <1>1 DEF MovementInv, RowsFollow, LegsFit, LegFits, Finished
<1>7. LegsAhead'
  BY <1>3 DEF LegsAhead
<1>8. DrainComplete'
  <2> SUFFICES ASSUME phase' = "ended" PROVE \A v \in Fleet : moving[v] = 0
    BY <1>1 DEF DrainComplete, UnderWay
  <2>1. CASE Drained
    BY <2>1 DEF Drained, UnderWay
  <2>2. CASE ~Drained
    <3>1. now + Interval > DrainLimit
      BY <1>1, <2>2
    <3>2. SUFFICES ASSUME NEW v \in Fleet, moving[v] # 0 PROVE FALSE
      OBVIOUS
    <3>3. PICK i \in DOMAIN rows : i = moving[v]
      BY <3>2, LegKinds
    <3>4. /\ RowFits(i) /\ route[v] # None /\ route[v].arrival = rows[i].start + rows[i].planned
      BY <3>2, <3>3, LegKinds
    <3>5. rows[i].start + rows[i].planned > now
      BY <1>1, <3>4 DEF MovementInv, LegsAhead
    <3>6. rows[i].start \in Nat /\ rows[i].planned \in Nat
      BY RowKinds
    <3>7. /\ rows[i].start \in 0..DayEnd /\ rows[i].planned \in Etas
          /\ rows[i].start < DayEnd /\ rows[i].start % Every = 0
      BY <1>2, <3>4, <3>6 DEF RowFits
    <3>8. rows[i].start + rows[i].planned + Interval <= DrainLimit + 1
      BY <3>7, DrainAssumption
    <3>9. QED
      BY <1>2, <3>1, <3>5, <3>6, <3>8
  <2>3. QED
    BY <2>1, <2>2
<1>9. QED
  BY <1>4, <1>5, <1>6, <1>7, <1>8 DEF MovementInv

-----------------------------------------------------------------------------
(* SetToSeq lists every element of a finite set once.                      *)
LEMMA SetToSeqLists ==
  ASSUME NEW S, IsFiniteSet(S)
  PROVE  /\ SetToSeq(S) \in [1..Cardinality(S) -> S] /\ Cardinality(S) \in Nat
         /\ \A i, j \in 1..Cardinality(S) : SetToSeq(S)[i] = SetToSeq(S)[j] => i = j
         /\ \A x \in S : \E i \in 1..Cardinality(S) : SetToSeq(S)[i] = x
<1>1. Cardinality(S) \in Nat /\ ExistsBijection(1..Cardinality(S), S)
  BY FS_CardinalityType
<1> DEFINE D == 1..Cardinality(S)
<1>2. PICK g : g \in Bijection(D, S)
  BY <1>1 DEF ExistsBijection
<1>3. g \in [D -> S] /\ IsInjective(g)
  BY <1>2 DEF Bijection, Injection, IsInjective
<1>4. SetToSeq(S) \in [D -> S] /\ IsInjective(SetToSeq(S))
  BY <1>3 DEF SetToSeq
<1>5. \A i, j \in D : SetToSeq(S)[i] = SetToSeq(S)[j] => i = j
  BY <1>4 DEF IsInjective
<1>6. SetToSeq(S) \in Injection(D, S)
  BY <1>4, <1>5 DEF Injection, IsInjective
<1>7. IsFiniteSet(D) /\ Cardinality(D) = Cardinality(S)
  BY <1>1, FS_Interval
<1>8. SetToSeq(S) \in Surjection(D, S)
  BY <1>6, <1>7, FS_Injection
<1>9. QED
  BY <1>1, <1>4, <1>5, <1>8 DEF Surjection

LEMMA SupplyFinite ==
  ASSUME NEW n
  PROVE  /\ IsFiniteSet(IdleAt(n)) /\ Cardinality(IdleAt(n)) \in Nat
         /\ IsFiniteSet(Inflight(n)) /\ Cardinality(Inflight(n)) \in Nat
         /\ Supply(n) \in Nat
<1>1. IdleAt(n) \in SUBSET Fleet /\ Inflight(n) \in SUBSET Fleet
  BY DEF IdleAt, Inflight
<1>2. IsFiniteSet(IdleAt(n)) /\ IsFiniteSet(Inflight(n))
  BY <1>1, MovementAssumption, FS_Subset
<1>3. QED
  BY <1>2, FS_CardinalityType DEF Supply

(* What an epoch starts: a row for each mover of its surplus.              *)
EpochIs(q, S, m) ==
  /\ quotas' = q /\ \E T \in Surpluses(q) : S \subseteq T
  /\ \A v \in S : \E n \in Nodes : v \in IdleAt(n)
  /\ \A v \in S : EndsInShift(v, m[v][2])
  /\ \A v \in S : Shortage(q, m[v][1]) > 0
  /\ \A n \in Nodes : Shortage(q, n) > 0 =>
       Cardinality({v \in S : m[v][1] = n}) <= Shortage(q, n)
  /\ rows' \in Seq(Row) /\ Len(rows') \in Nat /\ Len(rows) <= Len(rows')
  /\ \A i \in 1..Len(rows) : rows'[i] = rows[i]
  /\ moving' \in [Fleet -> 0..Len(rows')]
  /\ \A v \in Fleet \ S : moving'[v] = moving[v]
  /\ \A v \in S : moving'[v] > Len(rows) /\ rows'[moving'[v]] = NewRow(v, m[v])
  /\ \A i \in 1..Len(rows') : i > Len(rows) => \E v \in S : i = moving'[v]
  /\ route' = [v \in Fleet |-> IF v \in S
                 THEN [target |-> m[v][1], arrival |-> now + m[v][2]] ELSE route[v]]

LEMMA EpochStarts ==
  ASSUME MovementInv, Reposition
  PROVE  \E q \in [Nodes -> Nat], S \in SUBSET Fleet :
           \E m \in [S -> Nodes \X Etas] : EpochIs(q, S, m)
<1> DEFINE Starts(q, m) ==
       LET movers == SetToSeq(DOMAIN m)
       IN /\ quotas' = q
          /\ rows' = rows \o [i \in DOMAIN movers |-> NewRow(movers[i], m[movers[i]])]
          /\ moving' = [v \in Fleet |->
                          IF v \in DOMAIN m
                          THEN Len(rows) + (CHOOSE i \in DOMAIN movers : movers[i] = v)
                          ELSE moving[v]]
          /\ route' = [v \in Fleet |->
                         IF v \in DOMAIN m
                         THEN [target |-> m[v][1], arrival |-> now + m[v][2]]
                         ELSE route[v]]
<1>0. PICK q \in Quotas : \E m \in Moves(q) : Starts(q, m)
  BY DEF Reposition
<1>1. PICK m \in Moves(q) : Starts(q, m)
  BY <1>0
<1>2. q \in [Nodes -> Nat]
  <2>1. q \in [Nodes -> 0..Total]
    BY DEF Quotas
  <2>2. Total \in Nat
    <3>1. /\ {v \in Fleet : Online(v) /\ moving[v] # 0} \in SUBSET Fleet
          /\ {v \in Fleet : moving[v] = 0 /\ Available(v)} \in SUBSET Fleet
      OBVIOUS
    <3>2. \A U \in SUBSET Fleet : Cardinality(U) \in Nat
      BY MovementAssumption, FS_Subset, FS_CardinalityType
    <3>3. QED
      BY <3>1, <3>2 DEF Total
  <2>3. QED
    BY <2>1, <2>2
<1> DEFINE need == {n \in Nodes : Shortage(q, n) > 0}
           S == DOMAIN m
<1>3. /\ m \in UNION {[U -> need \X Etas] : U \in UNION {SUBSET T : T \in Surpluses(q)}}
      /\ \A v \in DOMAIN m : m[v][1] # place[v] /\ EndsInShift(v, m[v][2])
      /\ \A n \in need : Cardinality({v \in DOMAIN m : m[v][1] = n}) <= Shortage(q, n)
  BY DEF Moves
<1>4. PICK T \in Surpluses(q) : S \in SUBSET T /\ m \in [S -> need \X Etas]
  BY <1>3
<1>5. \A v \in S : \E n \in Nodes : v \in IdleAt(n)
  BY <1>4 DEF Surpluses
<1>6. S \in SUBSET Fleet
  BY <1>5 DEF IdleAt
<1>7. m \in [S -> Nodes \X Etas] /\ \A v \in S : m[v][1] \in need
  BY <1>4
<1> DEFINE movers == SetToSeq(S)
           k == Cardinality(S)
           new == [i \in DOMAIN movers |-> NewRow(movers[i], m[movers[i]])]
           pos(v) == CHOOSE i \in DOMAIN movers : movers[i] = v
<1>8. /\ movers \in [1..k -> S] /\ k \in Nat
      /\ \A i, j \in 1..k : movers[i] = movers[j] => i = j
      /\ \A x \in S : \E i \in 1..k : movers[i] = x
  <2>1. IsFiniteSet(S)
    BY <1>6, MovementAssumption, FS_Subset
  <2>2. QED
    BY <2>1, SetToSeqLists
<1>9. /\ quotas' = q /\ rows' = rows \o new
      /\ moving' = [v \in Fleet |-> IF v \in S THEN Len(rows) + pos(v) ELSE moving[v]]
      /\ route' = [v \in Fleet |-> IF v \in S
                     THEN [target |-> m[v][1], arrival |-> now + m[v][2]] ELSE route[v]]
  BY <1>1
<1>10. DOMAIN movers = 1..k
  BY <1>8
<1>11. \A v \in S : NewRow(v, m[v]) \in Row
  <2> SUFFICES ASSUME NEW v \in S PROVE NewRow(v, m[v]) \in Row
    OBVIOUS
  <2>1. v \in Fleet /\ m[v] \in Nodes \X Etas
    BY <1>6, <1>7
  <2>2. m[v][1] \in Nodes /\ m[v][2] \in Nat /\ now \in Nat
    BY <2>1, MovementAssumption DEF MovementInv, IMTypeOK
  <2>3. QED
    BY <2>1, <2>2 DEF NewRow, Row
<1>12. rows \in Seq(Row) /\ moving \in [Fleet -> 0..Len(rows)] /\ Len(rows) \in Nat
  BY DEF MovementInv, IMTypeOK
<1> HIDE DEF S, need, movers, k, pos
<1>13. new \in Seq(Row) /\ Len(new) = k /\ \A i \in 1..k : new[i] = NewRow(movers[i], m[movers[i]])
  <2>1. \A i \in 1..k : NewRow(movers[i], m[movers[i]]) \in Row
    BY <1>8, <1>11
  <2>2. new \in [1..k -> Row]
    BY <1>10, <2>1
  <2>3. new \in Seq(Row) /\ Len(new) = k
    BY <1>8, <2>2
  <2>4. QED
    BY <1>10, <2>3
<1> HIDE DEF new
<1>14. /\ rows' \in Seq(Row) /\ Len(rows') = Len(rows) + k
       /\ \A i \in 1..Len(rows) : rows'[i] = rows[i]
       /\ \A i \in 1..k : rows'[Len(rows) + i] = new[i]
  BY <1>8, <1>9, <1>12, <1>13
<1>15. \A v \in S : pos(v) \in 1..k /\ movers[pos(v)] = v
  BY <1>8, <1>10 DEF pos
<1>16. \A i \in 1..k : movers[i] \in S /\ pos(movers[i]) = i
  <2> SUFFICES ASSUME NEW i \in 1..k PROVE movers[i] \in S /\ pos(movers[i]) = i
    OBVIOUS
  <2>1. movers[i] \in S
    BY <1>8
  <2>2. pos(movers[i]) \in 1..k /\ movers[pos(movers[i])] = movers[i]
    BY <1>15, <2>1
  <2>3. QED
    BY <1>8, <2>1, <2>2
<1>17. \A v \in S : moving'[v] = Len(rows) + pos(v)
  BY <1>6, <1>9
<1>18. \A v \in S : moving'[v] > Len(rows) /\ moving'[v] \in 0..Len(rows')
                    /\ rows'[moving'[v]] = NewRow(v, m[v])
  <2> SUFFICES ASSUME NEW v \in S
               PROVE  /\ moving'[v] > Len(rows) /\ moving'[v] \in 0..Len(rows')
                      /\ rows'[moving'[v]] = NewRow(v, m[v])
    OBVIOUS
  <2>1. pos(v) \in 1..k /\ movers[pos(v)] = v /\ moving'[v] = Len(rows) + pos(v)
    BY <1>15, <1>17
  <2>2. rows'[moving'[v]] = new[pos(v)]
    BY <1>14, <2>1
  <2>3. new[pos(v)] = NewRow(v, m[v])
    BY <1>13, <2>1
  <2>4. QED
    BY <1>8, <1>12, <1>14, <2>1, <2>2, <2>3
<1>19. \A v \in Fleet \ S : moving'[v] = moving[v]
  BY <1>9
<1>20. moving' \in [Fleet -> 0..Len(rows')]
  <2>1. ASSUME NEW v \in Fleet PROVE moving'[v] \in 0..Len(rows')
    <3>1. CASE v \in S
      BY <1>18, <3>1
    <3>2. CASE v \notin S
      <4>1. moving'[v] = moving[v] /\ moving[v] \in 0..Len(rows)
        BY <1>12, <1>19, <3>2
      <4>2. QED
        BY <1>8, <1>12, <1>14, <4>1
    <3>3. QED
      BY <3>1, <3>2
  <2>2. QED
    BY <1>9, <2>1
<1>21. ASSUME NEW i \in 1..Len(rows'), i > Len(rows)
       PROVE  \E v \in S : i = moving'[v]
  <2>1. i - Len(rows) \in 1..k
    BY <1>8, <1>12, <1>14, <1>21
  <2>2. movers[i - Len(rows)] \in S /\ pos(movers[i - Len(rows)]) = i - Len(rows)
    BY <1>16, <2>1
  <2>3. moving'[movers[i - Len(rows)]] = i
    BY <1>12, <1>17, <2>1, <2>2
  <2>4. QED
    BY <2>2, <2>3
<1>22. \A v \in S : Shortage(q, m[v][1]) > 0
  BY <1>7 DEF need
<1>23. \A n \in Nodes : Shortage(q, n) > 0 => Cardinality({v \in S : m[v][1] = n}) <= Shortage(q, n)
  BY <1>3 DEF need, S
<1>24. \A v \in S : EndsInShift(v, m[v][2])
  BY <1>3 DEF S
<1>25. Len(rows') \in Nat /\ Len(rows) <= Len(rows')
  BY <1>8, <1>12, <1>14
<1>26. \E U \in Surpluses(q) : S \subseteq U
  BY <1>4
<1>27. EpochIs(q, S, m)
  BY <1>5, <1>9, <1>14, <1>18, <1>19, <1>20, <1>21, <1>22, <1>23, <1>24, <1>25, <1>26 DEF EpochIs
<1>28. QED
  BY <1>2, <1>6, <1>7, <1>27

LEMMA IdleKinds ==
  ASSUME MovementInv, NEW n, NEW v \in IdleAt(n)
  PROVE  v \in Fleet /\ moving[v] = 0 /\ Online(v) /\ customer[v] = None /\ route[v] = None
BY DEF IdleAt, Available, IsInterruptible

LEMMA RepositionKeeps == MovementInv /\ Reposition => MovementInv'
<1> SUFFICES ASSUME MovementInv, Reposition PROVE MovementInv'
  OBVIOUS
<1>1. PICK q \in [Nodes -> Nat], S \in SUBSET Fleet : \E m \in [S -> Nodes \X Etas] : EpochIs(q, S, m)
  BY EpochStarts
<1>2. PICK m \in [S -> Nodes \X Etas] : EpochIs(q, S, m)
  BY <1>1
<1>3. /\ phase' = "tick" /\ phase = "reposition" /\ now' = now /\ place' = place /\ customer' = customer
      /\ now % Every = 0 /\ now < DayEnd
  BY DEF Reposition, IsEpoch
<1>4. /\ rows' \in Seq(Row) /\ Len(rows') \in Nat /\ Len(rows) <= Len(rows')
      /\ \A i \in 1..Len(rows) : rows'[i] = rows[i]
      /\ moving' \in [Fleet -> 0..Len(rows')]
      /\ \A v \in Fleet \ S : moving'[v] = moving[v]
      /\ \A v \in S : moving'[v] > Len(rows) /\ rows'[moving'[v]] = NewRow(v, m[v])
      /\ \A i \in 1..Len(rows') : i > Len(rows) => \E v \in S : i = moving'[v]
      /\ route' = [v \in Fleet |-> IF v \in S
                     THEN [target |-> m[v][1], arrival |-> now + m[v][2]] ELSE route[v]]
      /\ quotas' = q
  BY <1>2 DEF EpochIs
<1>5. /\ rows \in Seq(Row) /\ moving \in [Fleet -> 0..Len(rows)] /\ Len(rows) \in Nat
      /\ now \in Nat /\ place \in [Fleet -> Nodes]
      /\ route \in [Fleet -> [target : Nodes, arrival : Nat] \cup {None}]
      /\ customer \in [Fleet -> Nat \cup {None}]
      /\ DOMAIN rows = 1..Len(rows)
  BY DEF MovementInv, IMTypeOK
<1>6. DOMAIN rows' = 1..Len(rows')
  BY <1>4
<1>7. ASSUME NEW v \in S
      PROVE  /\ v \in Fleet /\ moving[v] = 0 /\ customer[v] = None
             /\ m[v] \in Nodes \X Etas /\ m[v][1] \in Nodes /\ m[v][2] \in Nat /\ m[v][2] \in Etas
             /\ m[v][2] > 0 /\ now + m[v][2] <= End[v]
  <2>1. PICK n \in Nodes : v \in IdleAt(n)
    BY <1>2 DEF EpochIs
  <2>2. m[v] \in Nodes \X Etas
    BY <1>2
  <2>3. m[v][1] \in Nodes /\ m[v][2] \in Etas
    BY <2>2
  <2>4. m[v][2] \in Nat /\ m[v][2] # 0
    BY <2>3, MovementAssumption
  <2>5. EndsInShift(v, m[v][2])
    BY <1>2 DEF EpochIs
  <2>6. v \in Fleet /\ moving[v] = 0 /\ customer[v] = None
    BY <2>1, IdleKinds
  <2>7. QED
    BY <2>2, <2>3, <2>4, <2>5, <2>6 DEF EndsInShift
<1>8. ASSUME NEW i \in DOMAIN rows', ~(i <= Len(rows))
      PROVE  \E v \in S : i = moving'[v] /\ rows'[i] = NewRow(v, m[v])
  <2>0. i \in 1..Len(rows') /\ i > Len(rows)
    BY <1>4, <1>5, <1>6, <1>8
  <2>1. PICK v \in S : i = moving'[v]
    BY <1>4, <2>0
  <2>2. QED
    BY <1>4, <2>1
<1>9. ASSUME NEW i \in DOMAIN rows', i <= Len(rows)
      PROVE  i \in DOMAIN rows /\ rows'[i] = rows[i] /\ RowFits(i)
  <2>1. i \in 1..Len(rows)
    BY <1>4, <1>5, <1>6, <1>9
  <2>2. QED
    BY <1>4, <1>5, <2>1 DEF MovementInv, RowsFit
<1>10. IMTypeOK'
  <2>1. route' \in [Fleet -> [target : Nodes, arrival : Nat] \cup {None}]
    <3>1. ASSUME NEW v \in S
          PROVE  [target |-> m[v][1], arrival |-> now + m[v][2]] \in [target : Nodes, arrival : Nat]
      BY <1>5, <1>7
    <3>2. QED
      BY <1>4, <1>5, <3>1
  <2>2. QED
    BY <1>3, <1>4, <1>5, <2>1 DEF IMTypeOK
<1>11. RowsFit'
  <2> SUFFICES ASSUME NEW i \in DOMAIN rows' PROVE RowFits(i)'
    BY DEF RowsFit
  <2>1. CASE i <= Len(rows)
    <3>1. rows'[i] = rows[i] /\ RowFits(i) /\ i \in DOMAIN rows
      BY <1>9, <2>1
    <3>2. ~Finished(i) => moving'[rows[i].vehicle] = i
      <4>1. SUFFICES ASSUME ~Finished(i) PROVE moving'[rows[i].vehicle] = i
        OBVIOUS
      <4>2. moving[rows[i].vehicle] = i /\ rows[i].vehicle \in Fleet /\ i # 0
        BY <3>1, <4>1, RowKinds DEF RowFits
      <4>3. QED
        BY <1>4, <1>7, <4>2
    <3>3. QED
      BY <1>3, <3>1, <3>2 DEF RowFits, Finished
  <2>2. CASE ~(i <= Len(rows))
    <3>1. PICK v \in S : i = moving'[v] /\ rows'[i] = NewRow(v, m[v])
      BY <1>8, <2>2
    <3>2. /\ rows'[i].vehicle = v /\ rows'[i].start = now /\ rows'[i].planned = m[v][2]
          /\ rows'[i].status = "IN_PROGRESS"
      BY <3>1 DEF NewRow
    <3>3. rows'[i].start <= now
      BY <1>5, <3>2
    <3>4. QED
      BY <1>3, <1>7, <3>1, <3>2, <3>3 DEF RowFits, Finished
  <2>3. QED
    BY <2>1, <2>2
<1>12. RowsFollow'
  <2> SUFFICES ASSUME NEW i \in DOMAIN rows', NEW j \in DOMAIN rows', i < j,
                      rows'[i].vehicle = rows'[j].vehicle
               PROVE  Finished(i)' /\ rows'[i].end <= rows'[j].start
    BY DEF RowsFollow
  <2>1. CASE j <= Len(rows)
    <3>1. i <= Len(rows)
      BY <1>4, <1>5, <1>6, <2>1
    <3>2. rows'[i] = rows[i] /\ rows'[j] = rows[j] /\ i \in DOMAIN rows /\ j \in DOMAIN rows
      BY <1>9, <2>1, <3>1
    <3>3. QED
      BY <3>2 DEF MovementInv, RowsFollow, Finished
  <2>2. CASE ~(j <= Len(rows)) /\ i <= Len(rows)
    <3>1. PICK v \in S : j = moving'[v] /\ rows'[j] = NewRow(v, m[v])
      BY <1>8, <2>2
    <3>2. rows'[i] = rows[i] /\ i \in DOMAIN rows /\ RowFits(i) /\ i # 0
      BY <1>9, <2>2, RowKinds
    <3>3. rows'[j].vehicle = v /\ rows'[j].start = now /\ moving[v] = 0
      BY <1>7, <3>1 DEF NewRow
    <3>4. rows[i].vehicle = v
      BY <3>2, <3>3
    <3>5. Finished(i)
      BY <3>2, <3>3, <3>4 DEF RowFits
    <3>6. rows[i].end <= now
      BY <3>2, <3>5 DEF RowFits
    <3>7. QED
      BY <3>2, <3>3, <3>5, <3>6 DEF Finished
  <2>3. CASE ~(j <= Len(rows)) /\ ~(i <= Len(rows))
    <3>1. PICK v \in S : j = moving'[v] /\ rows'[j] = NewRow(v, m[v])
      BY <1>8, <2>3
    <3>2. PICK w \in S : i = moving'[w] /\ rows'[i] = NewRow(w, m[w])
      BY <1>8, <2>3
    <3>3. v = w
      BY <3>1, <3>2 DEF NewRow
    <3>4. i = j
      BY <3>1, <3>2, <3>3
    <3>5. QED
      BY <1>4, <1>6, <3>4
  <2>4. QED
    BY <2>1, <2>2, <2>3
<1>13. LegsFit'
  <2> SUFFICES ASSUME NEW v \in Fleet PROVE LegFits(v)'
    BY DEF LegsFit
  <2>1. LegFits(v)
    BY DEF MovementInv, LegsFit
  <2>2. CASE v \in S
    <3>1. rows'[moving'[v]] = NewRow(v, m[v]) /\ moving'[v] # 0 /\ customer'[v] = None
      BY <1>3, <1>4, <1>5, <1>7, <2>2
    <3>2. route'[v] = [target |-> m[v][1], arrival |-> now + m[v][2]]
      BY <1>4, <2>2
    <3>3. route'[v] # None
      <4>1. route'[v] \in [target : Nodes, arrival : Nat]
        BY <1>5, <1>7, <2>2, <3>2
      <4>2. QED
        BY <4>1, MovementAssumption
    <3>4. QED
      BY <3>1, <3>2, <3>3 DEF LegFits, NewRow
  <2>3. CASE v \notin S
    <3>1. moving'[v] = moving[v] /\ route'[v] = route[v] /\ customer'[v] = customer[v]
      BY <1>3, <1>4, <2>3
    <3>2. moving[v] # 0 => rows'[moving[v]] = rows[moving[v]]
      <4>1. moving[v] # 0 => moving[v] \in 1..Len(rows)
        BY <1>5, MovingKinds
      <4>2. QED
        BY <1>4, <4>1
    <3>3. QED
      BY <2>1, <3>1, <3>2 DEF LegFits
  <2>4. QED
    BY <2>2, <2>3
<1>14. LegsAhead'
  <2> SUFFICES ASSUME NEW v \in Fleet, route'[v] # None PROVE route'[v].arrival > now
    BY <1>3 DEF LegsAhead
  <2>1. CASE v \in S
    <3>1. route'[v].arrival = now + m[v][2]
      BY <1>4, <2>1
    <3>2. QED
      BY <1>5, <1>7, <2>1, <3>1
  <2>2. CASE v \notin S
    <3>1. route'[v] = route[v]
      BY <1>4, <2>2
    <3>2. QED
      BY <1>3, <3>1 DEF MovementInv, LegsAhead
  <2>3. QED
    BY <2>1, <2>2
<1>15. DrainComplete'
  BY <1>3 DEF DrainComplete
<1>16. QED
  BY <1>10, <1>11, <1>12, <1>13, <1>14, <1>15 DEF MovementInv

LEMMA MovementStep == MovementInv /\ [IMNext]_imVars => MovementInv'
<1> SUFFICES ASSUME MovementInv, [IMNext]_imVars PROVE MovementInv'
  OBVIOUS
<1>1. CASE UNCHANGED imVars
  BY <1>1 DEF imVars, MovementInv, IMTypeOK, RowsFit, RowFits, RowsFollow, LegsFit, LegFits,
              LegsAhead, DrainComplete, UnderWay, Finished
<1>2. QED
  BY <1>1, MoveKeeps, DispatchKeeps, OtherPhasesKeep, RepositionKeeps, TickKeeps DEF IMNext

LEMMA MovementHolds == IMSpec => []MovementInv
BY MovementInit, MovementStep, PTL DEF IMSpec

-----------------------------------------------------------------------------
(* A node short of its quota keeps its idle vehicles and gets no more than *)
(* it lacks; another gets none and keeps what its quota retains.           *)
LEMMA EpochHelps ==
  MovementInv /\ [IMNext]_imVars =>
    [Reposition => \A n \in Nodes : Between(Supply(n)', Supply(n), quotas'[n])]_imVars
<1> SUFFICES ASSUME MovementInv, Reposition, NEW n \in Nodes
             PROVE  Between(Supply(n)', Supply(n), quotas'[n])
  OBVIOUS
<1>1. PICK q \in [Nodes -> Nat], S \in SUBSET Fleet : \E m \in [S -> Nodes \X Etas] : EpochIs(q, S, m)
  BY EpochStarts
<1>2. PICK m \in [S -> Nodes \X Etas] : EpochIs(q, S, m)
  BY <1>1
<1>3. now' = now /\ place' = place /\ customer' = customer
  BY DEF Reposition
<1>4. /\ rows \in Seq(Row) /\ moving \in [Fleet -> 0..Len(rows)] /\ Len(rows) \in Nat
      /\ \A i \in 1..Len(rows) : rows'[i] = rows[i]
      /\ \A v \in Fleet \ S : moving'[v] = moving[v] /\ route'[v] = route[v]
      /\ \A v \in S : moving'[v] > Len(rows) /\ rows'[moving'[v]] = NewRow(v, m[v])
      /\ quotas' = q
  BY <1>2 DEF EpochIs, MovementInv, IMTypeOK
<1>5. \A v \in S : v \in Fleet /\ moving[v] = 0 /\ moving'[v] # 0 /\ Online(v)
  <2> SUFFICES ASSUME NEW v \in S PROVE v \in Fleet /\ moving[v] = 0 /\ moving'[v] # 0 /\ Online(v)
    OBVIOUS
  <2>1. PICK k \in Nodes : v \in IdleAt(k)
    BY <1>2 DEF EpochIs
  <2>2. moving'[v] # 0
    BY <1>4
  <2>3. QED
    BY <2>1, <2>2, IdleKinds
<1> DEFINE Leaving == S \cap IdleAt(n)
           Coming == {v \in S : m[v][1] = n}
<1>6. IdleAt(n)' = IdleAt(n) \ S
  <2>1. ASSUME NEW v \in Fleet \ S
        PROVE  v \in IdleAt(n)' <=> v \in IdleAt(n)
    BY <1>3, <1>4 DEF IdleAt, Available, IsInterruptible, Online
  <2>2. ASSUME NEW v \in S
        PROVE  v \notin IdleAt(n)'
    BY <1>5 DEF IdleAt
  <2>3. IdleAt(n)' \subseteq Fleet /\ IdleAt(n) \subseteq Fleet
    BY DEF IdleAt
  <2>4. QED
    BY <2>1, <2>2, <2>3
<1>7. Inflight(n)' = Inflight(n) \cup Coming /\ Inflight(n) \cap Coming = {}
  <2>1. ASSUME NEW v \in Fleet \ S
        PROVE  v \in Inflight(n)' <=> v \in Inflight(n)
    <3>1. moving'[v] = moving[v]
      BY <1>4
    <3>2. moving[v] # 0 => rows'[moving[v]] = rows[moving[v]]
      <4>1. moving[v] # 0 => moving[v] \in 1..Len(rows)
        BY <1>4
      <4>2. QED
        BY <1>4, <4>1
    <3>3. QED
      BY <1>3, <3>1, <3>2 DEF Inflight, Online
  <2>2. ASSUME NEW v \in S
        PROVE  v \in Inflight(n)' <=> v \in Coming
    <3>1. rows'[moving'[v]].target = m[v][1]
      <4>1. rows'[moving'[v]] = NewRow(v, m[v])
        BY <1>4
      <4>2. NewRow(v, m[v]).target = m[v][1]
        BY DEF NewRow
      <4>3. QED
        BY <4>1, <4>2
    <3>2. v \in Fleet /\ moving'[v] # 0 /\ Online(v)
      BY <1>5
    <3>3. QED
      BY <1>3, <3>1, <3>2 DEF Inflight, Online
  <2>3. \A v \in S : v \notin Inflight(n)
    BY <1>5 DEF Inflight
  <2>4. Inflight(n)' \subseteq Fleet /\ Inflight(n) \subseteq Fleet
    BY DEF Inflight
  <2>5. QED
    BY <2>1, <2>2, <2>3, <2>4
<1> DEFINE idle == Cardinality(IdleAt(n))
           inflight == Cardinality(Inflight(n))
           leaving == Cardinality(Leaving)
           coming == Cardinality(Coming)
<1>8. idle \in Nat /\ inflight \in Nat /\ IsFiniteSet(IdleAt(n)) /\ IsFiniteSet(Inflight(n))
  BY SupplyFinite
<1>9. IsFiniteSet(S) /\ IsFiniteSet(Coming) /\ coming \in Nat
  <2>1. IsFiniteSet(S) /\ Coming \in SUBSET S
    BY MovementAssumption, FS_Subset
  <2>2. QED
    BY <2>1, FS_Subset, FS_CardinalityType
<1>10. leaving \in Nat /\ Cardinality(IdleAt(n)') = idle - leaving
  <2>1. IsFiniteSet(Leaving)
    BY <1>9, FS_Intersection
  <2>2. IdleAt(n) \cap S = Leaving
    OBVIOUS
  <2>3. Cardinality(IdleAt(n) \ S) = idle - Cardinality(IdleAt(n) \cap S)
    BY <1>8, FS_Difference
  <2>4. QED
    BY <1>6, <2>1, <2>2, <2>3, FS_CardinalityType
<1>11. Cardinality(Inflight(n)') = inflight + coming
  <2>1. Cardinality(Inflight(n) \cup Coming) = inflight + coming - Cardinality(Inflight(n) \cap Coming)
    BY <1>8, <1>9, FS_Union
  <2>2. Cardinality(Inflight(n) \cap Coming) = 0
    BY <1>7, FS_EmptySet
  <2> HIDE DEF Coming, inflight, coming
  <2>3. QED
    BY <1>7, <1>8, <1>9, <2>1, <2>2
<1>12. leaving <= Less(idle, Less(q[n], inflight))
  <2>1. PICK T \in Surpluses(q) : S \subseteq T
    BY <1>2 DEF EpochIs
  <2>2. Cardinality(T \cap IdleAt(n)) = Less(idle, Less(q[n], inflight))
    BY DEF Surpluses, Retained
  <2>3. IsFiniteSet(T \cap IdleAt(n)) /\ Leaving \in SUBSET (T \cap IdleAt(n))
    BY <1>8, <2>1, FS_Intersection
  <2>4. QED
    BY <2>2, <2>3, FS_Subset
<1>13. coming <= Less(q[n], idle + inflight)
  <2>1. Shortage(q, n) = Less(q[n], idle + inflight)
    BY DEF Shortage, Supply
  <2>2. CASE Shortage(q, n) > 0
    BY <1>2, <2>1, <2>2 DEF EpochIs
  <2>3. CASE ~(Shortage(q, n) > 0)
    <3>1. Coming = {}
      BY <1>2, <2>3 DEF EpochIs
    <3>2. coming = 0
      BY <3>1, FS_EmptySet
    <3>3. Less(q[n], idle + inflight) >= 0
      <4>1. q[n] \in Nat
        OBVIOUS
      <4> HIDE DEF idle, inflight
      <4>2. QED
        BY <1>8, <4>1 DEF Less
    <3>4. QED
      BY <3>2, <3>3
  <2>4. QED
    BY <2>2, <2>3
<1>14. /\ Supply(n) = idle + inflight
       /\ Supply(n)' = (idle - leaving) + (inflight + coming)
  <2>1. Supply(n)' = Cardinality(IdleAt(n)') + Cardinality(Inflight(n)')
    BY DEF Supply
  <2>2. QED
    BY <1>10, <1>11, <2>1 DEF Supply
<1>15. q[n] \in Nat /\ quotas'[n] = q[n]
  BY <1>4
<1> HIDE DEF idle, inflight, leaving, coming
<1>16. QED
  BY <1>8, <1>9, <1>10, <1>12, <1>13, <1>14, <1>15 DEF Less, Between

(* The empty movements of a day, for any fleet, nodes, shifts and drives:  *)
(* records and vehicles agree, no empty second is counted twice or after a *)
(* shift, the day ends with none under way, and every epoch moves every    *)
(* node towards its quota.                                                 *)
THEOREM MovementsAreSoundHolds == IMSpec => MovementsAreSound
<1>1. MovementInv => /\ IMTypeOK /\ MovementsAgree /\ MovementsConserved /\ NoneAfterShift
                     /\ DrainComplete
  BY InvIsAgreed DEF MovementInv
<1>2. QED
  BY <1>1, MovementHolds, EpochHelps, PTL DEF IMSpec, MovementsAreSound, MovesTowardsQuota
=============================================================================
