----------------------- MODULE RollingDispatchProofs ------------------------
(***************************************************************************)
(* The rolling dispatch run, for any demand, fleet, routing estimates and  *)
(* intervals: the budget of exposure, the records of a ride, and what      *)
(* becomes of every request.                                               *)
(***************************************************************************)
EXTENDS RollingDispatch, FiniteSetTheorems, TLAPS

Phases == {"move", "activate", "trigger", "tick", "ended", "aborted"}

LEMMA Parameters ==
  /\ Interval \in Nat \ {0} /\ MaxWait \in Nat /\ DemandEnd \in Nat /\ Overhead \in Nat
  /\ Gamma \in Nat /\ Interval <= MaxWait
BY DispatchAssumption

LEMMA Times ==
  ASSUME NEW r \in Requests
  PROVE  /\ RequestTime[r] \in Nat /\ RequestTime[r] <= DemandEnd
         /\ Deadline(r) = RequestTime[r] + MaxWait /\ Deadline(r) \in Nat
         /\ Deadline(r) <= MatchingEnd /\ MatchingEnd \in Nat
<1>1. RequestTime[r] \in 0..DemandEnd
  BY DispatchAssumption
<1>2. QED
  BY <1>1, Parameters DEF Deadline, MatchingEnd

LEMMA NoneIsNothing ==
  None \notin Requests /\ None \notin Vehicles /\ None \notin Ride
BY DispatchAssumption

-----------------------------------------------------------------------------
(* The solver selects a matching of the arcs within the budget.            *)
LEMMA Solutions ==
  ASSUME NEW A, NEW S \in Solve(A)
  PROVE  S \in SUBSET A /\ IsMatching(S) /\ WithinBudget(S)
BY Zenon DEF Solve, Most, Least, Selections

-----------------------------------------------------------------------------
(* What a round hands over, arc by arc: a vehicle that has nothing to do   *)
(* and a request that waits and has patience left, each at most once.      *)
Handover(S) ==
  /\ \A a \in S : /\ a.vehicle \in Vehicles /\ a.request \in waiting \ Expiring
                  /\ a.eta \in Nat
                  /\ route[a.vehicle] = None /\ active[a.vehicle] = None
  /\ \A a, b \in S : a.vehicle = b.vehicle \/ a.request = b.request => a = b

LEMMA ArcsAreFeasible ==
  ASSUME NEW eta \in [{v \in Vehicles : Available(v)} \X (waiting \ Expiring)
                         -> Etas \cup {None}],
         NEW a \in ArcsOf(eta)
  PROVE  /\ a.vehicle \in Vehicles /\ Available(a.vehicle)
         /\ a.request \in waiting \ Expiring /\ a.eta \in Nat
         /\ a.vehicle \in AV => exposure[a.request] # None
<1> DEFINE Free == {v \in Vehicles : Available(v)}
<1>1. DOMAIN eta = Free \X (waiting \ Expiring)
  OBVIOUS
<1>2. PICK p \in DOMAIN eta :
        eta[p] # None /\ a = [vehicle |-> p[1], request |-> p[2], eta |-> eta[p]]
  BY DEF ArcsOf
<1>3. p[1] \in Free /\ p[2] \in waiting \ Expiring
  BY <1>1, <1>2
<1>4. eta[p] \in Etas \cup {None}
  BY <1>1, <1>2
<1>5. eta[p] \in Nat
  BY <1>2, <1>4, DispatchAssumption
<1>6. a.vehicle = p[1] /\ a.request = p[2] /\ a.eta = eta[p]
  BY <1>2
<1>7. a.vehicle \in AV => exposure[a.request] # None
  BY DEF ArcsOf, Feasible
<1>8. QED
  BY <1>3, <1>5, <1>6, <1>7

LEMMA RoundHandsOver ==
  ASSUME Trigger
  PROVE  \E S : /\ Handover(S) /\ Dispatch(S)
               /\ WithinBudget(S) /\ Expose(S)
               /\ \A a \in AVArcs(S) : exposure[a.request] # None
<1>1. PICK eta \in [{v \in Vehicles : Available(v)} \X (waiting \ Expiring)
                       -> Etas \cup {None}] :
        arcs' = ArcsOf(eta) /\ \E S \in Solve(arcs') : Dispatch(S) /\ Expose(S)
  BY DEF Trigger
<1>2. PICK S \in Solve(arcs') : Dispatch(S) /\ Expose(S)
  BY <1>1
<1>3. S \in SUBSET arcs' /\ IsMatching(S) /\ WithinBudget(S)
  BY <1>2, Solutions
<1>4. \A a \in S : a \in ArcsOf(eta)
  BY <1>1, <1>3
<1>5. \A a \in S : /\ a.vehicle \in Vehicles /\ Available(a.vehicle)
                   /\ a.request \in waiting \ Expiring /\ a.eta \in Nat
                   /\ a.vehicle \in AV => exposure[a.request] # None
  BY <1>4, ArcsAreFeasible
<1>6. \A a, b \in S : a.vehicle = b.vehicle \/ a.request = b.request => a = b
  BY <1>3 DEF IsMatching
<1>7. Handover(S)
  BY <1>5, <1>6 DEF Handover, Available
<1>8. \A a \in AVArcs(S) : exposure[a.request] # None
  BY <1>5 DEF AVArcs
<1>9. QED
  BY <1>2, <1>3, <1>7, <1>8

Typing ==
  /\ now \in Nat /\ phase \in Phases
  /\ waiting \subseteq Requests /\ expired \subseteq Requests /\ completed \subseteq Requests
  /\ assigned \in [Requests -> Vehicles \cup {None}]
  /\ route \in [Vehicles -> Ride \cup {None}]
  /\ active \in [Vehicles -> Requests \cup {None}]

(* What the round leaves, pointwise.                                       *)
Recorded(S) ==
  /\ \A a \in S : /\ active'[a.vehicle] = a.request /\ assigned'[a.request] = a.vehicle
                  /\ route'[a.vehicle] \in Ride /\ route'[a.vehicle].request = a.request
  /\ \A v \in Vehicles : (\A a \in S : a.vehicle # v) =>
                            active'[v] = active[v] /\ route'[v] = route[v]
  /\ \A r \in Requests : (\A a \in S : a.request # r) => assigned'[r] = assigned[r]
  /\ waiting' = Left(S)

LEMMA DispatchRecords ==
  ASSUME Typing, NEW S, Handover(S), Dispatch(S)
  PROVE  Recorded(S)
<1>1. PICK realized \in [{a.request : a \in S} -> Services] : route' = Assigned(S, realized)
  BY DEF Dispatch
<1>2. ASSUME NEW a \in S
      PROVE  /\ active'[a.vehicle] = a.request /\ assigned'[a.request] = a.vehicle
             /\ route'[a.vehicle] \in Ride /\ route'[a.vehicle].request = a.request
  <2>1. a.vehicle \in Vehicles /\ a.request \in Requests /\ a.eta \in Nat
    BY DEF Handover, Typing
  <2>2. (CHOOSE b \in S : b.vehicle = a.vehicle) = a
    BY DEF Handover
  <2>3. (CHOOSE b \in S : b.request = a.request) = a
    BY DEF Handover
  <2>4. active'[a.vehicle] = a.request
    BY <2>1, <2>2 DEF Dispatch
  <2>5. assigned'[a.request] = a.vehicle
    BY <2>1, <2>3 DEF Dispatch
  <2>6. route'[a.vehicle] = [request |-> a.request, pickup |-> now + a.eta,
                             dropoff |-> now + a.eta + Overhead + realized[a.request]]
    BY <1>1, <2>1, <2>2 DEF Assigned
  <2>7. realized[a.request] \in Nat
    <3>1. realized[a.request] \in Services
      BY <1>1
    <3>2. QED
      BY <3>1, DispatchAssumption
  <2>8. now + a.eta \in Nat /\ now + a.eta + Overhead + realized[a.request] \in Nat
    BY <2>1, <2>7, Parameters DEF Typing
  <2>9. QED
    BY <2>1, <2>4, <2>5, <2>6, <2>8 DEF Ride
<1>3. ASSUME NEW v \in Vehicles, \A a \in S : a.vehicle # v
      PROVE  active'[v] = active[v] /\ route'[v] = route[v]
  BY <1>1, <1>3 DEF Dispatch, Assigned
<1>4. ASSUME NEW r \in Requests, \A a \in S : a.request # r
      PROVE  assigned'[r] = assigned[r]
  BY <1>4 DEF Dispatch
<1>5. QED
  BY <1>2, <1>3, <1>4 DEF Recorded, Dispatch

-----------------------------------------------------------------------------
(* Where a request can be, and the records of the rides.                   *)
Places ==
  /\ \A r \in waiting : assigned[r] = None /\ r \notin expired
  /\ \A r \in expired : assigned[r] = None
  /\ \A r \in completed : assigned[r] # None
  /\ RidesAgree

LEMMA MoveKeepsPlaces ==
  ASSUME Typing, Places, Move
  PROVE  Typing' /\ Places'
<1>1. /\ UNCHANGED <<now, waiting, expired, assigned>> /\ phase' = "activate"
      /\ completed' = completed \cup {route[v].request : v \in Alighting}
      /\ route' = [v \in Vehicles |-> IF v \in Alighting THEN None ELSE route[v]]
      /\ active' = [v \in Vehicles |-> IF v \in Alighting THEN None ELSE active[v]]
  BY DEF Move, AfterAlighting
<1>2. \A v \in Alighting : v \in Vehicles /\ route[v] # None /\ route[v] \in Ride
                          /\ active[v] = route[v].request /\ active[v] \in Requests
                          /\ active[v] # None
  <2> TAKE v \in Alighting
  <2>1. v \in Vehicles /\ route[v] # None
    BY DEF Alighting
  <2>2. route[v] \in Ride
    BY <2>1 DEF Typing
  <2>3. route[v].request \in Requests
    BY <2>2 DEF Ride
  <2>4. active[v] = route[v].request
    BY <2>1 DEF Places, RidesAgree
  <2>5. QED
    BY <2>1, <2>2, <2>3, <2>4, NoneIsNothing
<1>3. Typing'
  <2>1. completed' \subseteq Requests
    BY <1>1, <1>2 DEF Typing
  <2>2. QED
    BY <1>1, <2>1 DEF Typing, Phases
<1>4. \A r \in completed' : assigned'[r] # None
  <2> SUFFICES ASSUME NEW r \in completed', r \notin completed PROVE assigned[r] # None
    BY <1>1 DEF Places
  <2>1. PICK v \in Alighting : r = active[v]
    BY <1>1, <1>2
  <2>2. assigned[r] = v
    BY <1>2, <2>1 DEF Places, RidesAgree
  <2>3. QED
    BY <1>2, <2>2, NoneIsNothing
<1>5. RidesAgree'
  <2>1. \A v \in Vehicles : active'[v] = IF route'[v] = None THEN None ELSE route'[v].request
    BY <1>1 DEF Places, RidesAgree
  <2>2. \A v \in Vehicles : active'[v] # None => assigned'[active'[v]] = v
    BY <1>1 DEF Places, RidesAgree
  <2>3. ASSUME NEW r \in Requests, r \in completed' \/ assigned'[r] = None, NEW v \in Vehicles
        PROVE  active'[v] # r
    <3> SUFFICES ASSUME active'[v] = r PROVE FALSE
      OBVIOUS
    <3>1. v \notin Alighting /\ active[v] = r /\ r # None
      BY <1>1, NoneIsNothing
    <3>2. assigned[r] = v /\ v # None /\ r \notin completed
      BY <3>1, NoneIsNothing DEF Places, RidesAgree
    <3>3. PICK w \in Alighting : r = active[w]
      BY <1>1, <1>2, <2>3, <3>2
    <3>4. w = v
      BY <1>2, <3>2, <3>3 DEF Places, RidesAgree
    <3>5. QED
      BY <3>1, <3>3, <3>4
  <2>4. ASSUME NEW r \in Requests, \A v \in Vehicles : active'[v] # r
        PROVE  r \in completed' \/ assigned'[r] = None
    <3>1. CASE \E v \in Vehicles : active[v] = r
      <4>1. PICK v \in Vehicles : active[v] = r
        BY <3>1
      <4>2. v \in Alighting
        BY <1>1, <2>4, <4>1
      <4>3. QED
        BY <1>1, <1>2, <4>1, <4>2
    <3>2. CASE \A v \in Vehicles : active[v] # r
      BY <1>1, <3>2 DEF Places, RidesAgree
    <3>3. QED
      BY <3>1, <3>2
  <2>5. \A r \in Requests : r \in completed' \/ assigned'[r] = None
                             <=> \A v \in Vehicles : active'[v] # r
    BY <2>3, <2>4
  <2>6. QED
    BY <2>1, <2>2, <2>5 DEF RidesAgree
<1>6. QED
  BY <1>1, <1>3, <1>4, <1>5 DEF Places

LEMMA TriggerKeepsPlaces ==
  ASSUME Typing, Places, Trigger
  PROVE  Typing' /\ Places'
<1>1. PICK S : Handover(S) /\ Dispatch(S)
  BY RoundHandsOver
<1>2. Recorded(S)
  BY <1>1, DispatchRecords
<1>3. /\ UNCHANGED <<now, completed>> /\ phase' = "tick" /\ expired' = expired \cup Expiring
  BY DEF Trigger, Expire, service
<1>4. \A a \in S :
        /\ a.vehicle \in Vehicles /\ a.request \in Requests
        /\ a.request \in waiting /\ a.request \notin Expiring
        /\ route[a.vehicle] = None /\ active[a.vehicle] = None
        /\ assigned[a.request] = None /\ a.request \notin expired
  BY <1>1 DEF Handover, Places, Typing
<1>5. /\ waiting' \subseteq waiting /\ \A r \in waiting' : r \notin Expiring
      /\ \A r \in waiting' : \A a \in S : a.request # r
  BY <1>2 DEF Recorded, Left
<1>6. Typing'
  <2>1. expired' \subseteq Requests /\ waiting' \subseteq Requests
    BY <1>3, <1>5 DEF Expiring, Typing
  <2>2. assigned' \in [Requests -> Vehicles \cup {None}]
    <3>1. assigned' = [r \in Requests |-> assigned'[r]]
      BY <1>1 DEF Dispatch
    <3>2. \A r \in Requests : assigned'[r] \in Vehicles \cup {None}
      BY <1>2, <1>4 DEF Recorded, Typing
    <3>3. QED
      BY <3>1, <3>2
  <2>3. active' \in [Vehicles -> Requests \cup {None}]
    <3>1. active' = [v \in Vehicles |-> active'[v]]
      BY <1>1 DEF Dispatch
    <3>2. \A v \in Vehicles : active'[v] \in Requests \cup {None}
      BY <1>2, <1>4 DEF Recorded, Typing
    <3>3. QED
      BY <3>1, <3>2
  <2>4. route' \in [Vehicles -> Ride \cup {None}]
    <3>1. route' = [v \in Vehicles |-> route'[v]]
      BY <1>1 DEF Dispatch, Assigned
    <3>2. \A v \in Vehicles : route'[v] \in Ride \cup {None}
      BY <1>2, <1>4 DEF Recorded, Typing
    <3>3. QED
      BY <3>1, <3>2
  <2>5. QED
    BY <1>3, <2>1, <2>2, <2>3, <2>4 DEF Typing, Phases
<1>7. /\ \A r \in waiting' : assigned'[r] = None /\ r \notin expired'
      /\ \A r \in expired' : assigned'[r] = None
      /\ \A r \in completed' : assigned'[r] # None
  <2>1. \A r \in waiting' : assigned'[r] = None /\ r \notin expired'
    BY <1>2, <1>3, <1>5 DEF Recorded, Places, Typing
  <2>2. \A r \in expired' : r \in Requests /\ assigned[r] = None /\ \A a \in S : a.request # r
    BY <1>3, <1>4 DEF Places, Typing, Expiring
  <2>3. \A r \in completed : r \in Requests /\ assigned[r] # None /\ \A a \in S : a.request # r
    BY <1>4 DEF Places, Typing
  <2>4. QED
    BY <1>2, <1>3, <2>1, <2>2, <2>3 DEF Recorded
<1>8. RidesAgree'
  <2>1. ASSUME NEW v \in Vehicles
        PROVE  /\ active'[v] = IF route'[v] = None THEN None ELSE route'[v].request
               /\ active'[v] # None => assigned'[active'[v]] = v
    <3>1. CASE \E a \in S : a.vehicle = v
      BY <1>2, <3>1, NoneIsNothing DEF Recorded
    <3>2. CASE \A a \in S : a.vehicle # v
      <4>1. active'[v] = active[v] /\ route'[v] = route[v]
        BY <1>2, <3>2 DEF Recorded
      <4>2. ASSUME active[v] # None
            PROVE  assigned'[active[v]] = v
        <5>1. active[v] \in Requests /\ assigned[active[v]] = v
          BY <4>2 DEF Typing, Places, RidesAgree
        <5>2. \A a \in S : a.request # active[v]
          BY <1>4, <5>1, NoneIsNothing
        <5>3. QED
          BY <1>2, <5>1, <5>2 DEF Recorded
      <4>3. QED
        BY <4>1, <4>2 DEF Places, RidesAgree
    <3>3. QED
      BY <3>1, <3>2
  <2>2. ASSUME NEW r \in Requests
        PROVE  r \in completed' \/ assigned'[r] = None <=> \A v \in Vehicles : active'[v] # r
    <3>1. CASE \E a \in S : a.request = r
      <4>1. PICK a \in S : a.request = r
        BY <3>1
      <4>2. active'[a.vehicle] = r /\ assigned'[r] = a.vehicle /\ a.vehicle \in Vehicles
        BY <1>2, <1>4, <4>1 DEF Recorded
      <4>3. r \notin completed'
        BY <1>3, <1>4, <4>1 DEF Places
      <4>4. QED
        BY <4>2, <4>3, NoneIsNothing
    <3>2. CASE \A a \in S : a.request # r
      <4>1. assigned'[r] = assigned[r] /\ (r \in completed' <=> r \in completed)
        BY <1>2, <1>3, <3>2 DEF Recorded
      <4>2. \A v \in Vehicles : active'[v] = r <=> active[v] = r
        <5> TAKE v \in Vehicles
        <5>1. CASE \E a \in S : a.vehicle = v
          BY <1>2, <1>4, <3>2, <5>1, NoneIsNothing DEF Recorded
        <5>2. CASE \A a \in S : a.vehicle # v
          BY <1>2, <5>2 DEF Recorded
        <5>3. QED
          BY <5>1, <5>2
      <4>3. QED
        BY <4>1, <4>2 DEF Places, RidesAgree
    <3>3. QED
      BY <3>1, <3>2
  <2>3. QED
    BY <2>1, <2>2 DEF RidesAgree
<1>9. QED
  BY <1>6, <1>7, <1>8 DEF Places

LEMMA PlacesHold == Spec => [](Typing /\ Places)
<1>1. Init => Typing /\ Places
  BY NoneIsNothing DEF Init, Typing, Places, RidesAgree, Phases
<1>2. Typing /\ Places /\ [Next]_vars => Typing' /\ Places'
  <2> SUFFICES ASSUME Typing, Places, [Next]_vars PROVE Typing' /\ Places'
    OBVIOUS
  <2>1. CASE Move
    BY <2>1, MoveKeepsPlaces
  <2>2. CASE Activate
    <3>1. /\ UNCHANGED <<now, expired, assigned, route, active, completed>> /\ phase' = "trigger"
          /\ waiting' \subseteq waiting \cup (Requests \ Known)
      BY <2>2 DEF Activate, service
    <3>2. \A r \in Requests \ Known : assigned[r] = None /\ r \notin expired
      BY DEF Known
    <3>3. QED
      BY <3>1, <3>2 DEF Typing, Places, RidesAgree, Phases
  <2>3. CASE Trigger
    BY <2>3, TriggerKeepsPlaces
  <2>4. CASE UNCHANGED <<waiting, expired, assigned, route, active, service>>
    <3>1. now' \in Nat /\ phase' \in Phases
      BY <2>4, Parameters DEF Next, vars, Move, Activate, Trigger, TriggerAfterMatching,
         GuardExceeded, Tick, Typing, Phases
    <3>2. QED
      BY <2>4, <3>1 DEF service, Typing, Places, RidesAgree
  <2>5. QED
    BY <2>1, <2>2, <2>3, <2>4
       DEF Next, vars, TriggerAfterMatching, GuardExceeded, Tick
<1>3. QED
  BY <1>1, <1>2, PTL DEF Spec

(* FleetPy's route, the vehicle's active order and the request's vehicle   *)
(* agree, so that no reconciliation fails (native_fleet_control.py).       *)
THEOREM RecordsAgree == Spec => []RidesAgree
<1>1. Places => RidesAgree
  BY DEF Places
<1>2. QED
  BY <1>1, PlacesHold, PTL

-----------------------------------------------------------------------------
(* The exposure of a finite set of requests is a number, and that of two   *)
(* sets with no request in common the sum of theirs.                       *)
LEMMA BurdenIsANumber ==
  ASSUME NEW R, IsFiniteSet(R), \A r \in R : exposure[r] \in Nat
  PROVE  IsFiniteSet(Points(R)) /\ Burden(R) \in Nat
<1> DEFINE T == {{r} \X (1..exposure[r]) : r \in R}
           f == [r \in R |-> {r} \X (1..exposure[r])]
<1>1. f \in Surjection(R, T)
  BY DEF Surjection
<1>2. IsFiniteSet(T)
  BY <1>1, FS_Surjection
<1>3. \A U \in T : IsFiniteSet(U)
  <2> SUFFICES ASSUME NEW r \in R PROVE IsFiniteSet({r} \X (1..exposure[r]))
    OBVIOUS
  <2>1. PICK n \in Nat : n = exposure[r]
    OBVIOUS
  <2>2. n \in Int /\ 1 \in Int
    OBVIOUS
  <2>3. IsFiniteSet(1..n) /\ IsFiniteSet({r})
    BY <2>2, FS_Interval, FS_Singleton
  <2>4. QED
    BY <2>1, <2>3, FS_Product
<1>4. IsFiniteSet(UNION T)
  BY <1>2, <1>3, FS_UNION
<1>5. QED
  BY <1>4, FS_CardinalityType DEF Points, Burden

LEMMA BurdenOfBoth ==
  ASSUME NEW R, NEW T, IsFiniteSet(R), IsFiniteSet(T), R \cap T = {},
         \A r \in R \cup T : exposure[r] \in Nat
  PROVE  Burden(R \cup T) = Burden(R) + Burden(T)
<1>1. /\ IsFiniteSet(Points(R)) /\ Burden(R) \in Nat
      /\ IsFiniteSet(Points(T)) /\ Burden(T) \in Nat
  BY BurdenIsANumber
<1>2. Points(R \cup T) = Points(R) \cup Points(T)
  BY DEF Points
<1>3. Points(R) \cap Points(T) = {}
  BY DEF Points
<1>4. Cardinality(Points(R) \cup Points(T))
        = Cardinality(Points(R)) + Cardinality(Points(T)) - Cardinality(Points(R) \cap Points(T))
  BY <1>1, FS_Union
<1>5. Cardinality(Points(R) \cap Points(T)) = 0
  BY <1>3, FS_EmptySet
<1>6. PICK m, n \in Nat : m = Burden(R) /\ n = Burden(T)
  BY <1>1
<1>7. Burden(R \cup T) = m + n - 0
  BY <1>2, <1>4, <1>5, <1>6 DEF Burden
<1>8. QED
  BY <1>6, <1>7

(* Only requests whose exposure is known are given to an AV, and the       *)
(* totals have counted them.                                               *)
Accounts ==
  /\ exposure \in [Requests -> Nat \cup {None}]
  /\ \A r \in ByAV : exposure[r] # None
  /\ ExposureWithinBudget

(* What a round adds to the requests given to an AV.                       *)
LEMMA RoundGivesToAV ==
  ASSUME Typing, Places, NEW S, Handover(S), Recorded(S)
  PROVE  LET T == {a.request : a \in AVArcs(S)}
         IN  /\ ByAV' = ByAV \cup T /\ ByAV \cap T = {} /\ T \subseteq Requests
             /\ IsFiniteSet(ByAV) /\ IsFiniteSet(T) /\ Cardinality(AVArcs(S)) = Cardinality(T)
<1> DEFINE T == {a.request : a \in AVArcs(S)}
           f == [a \in AVArcs(S) |-> a.request]
<1>1. None \notin AV
  BY DispatchAssumption
<1>2. \A a \in S : a.request \in Requests /\ assigned[a.request] = None
                /\ assigned'[a.request] = a.vehicle
  BY DEF Handover, Typing, Places, Recorded
<1>3. T \subseteq Requests /\ ByAV \cap T = {}
  BY <1>1, <1>2 DEF AVArcs, ByAV
<1>4. ByAV' = ByAV \cup T
  <2>1. ASSUME NEW r \in Requests
        PROVE  assigned'[r] \in AV <=> assigned[r] \in AV \/ r \in T
    <3>1. CASE \E a \in S : a.request = r
      <4>1. PICK a \in S : a.request = r
        BY <3>1
      <4>2. r \in T <=> a.vehicle \in AV
        BY <4>1 DEF AVArcs, Handover
      <4>3. QED
        BY <1>1, <1>2, <4>1, <4>2
    <3>2. CASE \A a \in S : a.request # r
      <4>1. assigned'[r] = assigned[r] /\ r \notin T
        BY <3>2 DEF Recorded, AVArcs
      <4>2. QED
        BY <4>1
    <3>3. QED
      BY <3>1, <3>2
  <2>2. QED
    BY <1>3, <2>1 DEF ByAV
<1>5. IsFiniteSet(T) /\ IsFiniteSet(ByAV)
  BY <1>3, FS_Subset, DispatchAssumption DEF ByAV
<1>6. Cardinality(AVArcs(S)) = Cardinality(T)
  <2>1. f \in Injection(AVArcs(S), T)
    BY DEF Injection, IsInjective, AVArcs, Handover
  <2>2. f \in Surjection(AVArcs(S), T)
    BY DEF Surjection
  <2>3. QED
    BY <1>5, <2>1, <2>2, FS_Injection
<1>7. QED
  BY <1>3, <1>4, <1>5, <1>6

LEMMA TriggerKeepsAccounts ==
  ASSUME Typing, Places, Accounts, Trigger
  PROVE  Accounts'
<1>1. PICK S : /\ Handover(S) /\ Dispatch(S) /\ WithinBudget(S) /\ Expose(S)
               /\ \A a \in AVArcs(S) : exposure[a.request] # None
  BY RoundHandsOver
<1>2. PICK T : T = {a.request : a \in AVArcs(S)}
  OBVIOUS
<1>3. /\ ByAV' = ByAV \cup T /\ ByAV \cap T = {} /\ T \subseteq Requests
      /\ IsFiniteSet(ByAV) /\ IsFiniteSet(T) /\ Cardinality(AVArcs(S)) = Cardinality(T)
  BY <1>1, <1>2, DispatchRecords, RoundGivesToAV
<1>4. exposure' = exposure
  BY DEF Trigger
<1>5. \A r \in ByAV \cup T : r \in Requests /\ exposure[r] # None
  BY <1>1, <1>2, <1>3 DEF Accounts, ByAV
<1>6. \A r \in ByAV \cup T : exposure[r] \in Nat
  BY <1>5 DEF Accounts
<1>7. Burden(ByAV)' = Burden(ByAV) + Burden(T)
  <2>1. Burden(ByAV)' = Burden(ByAV \cup T)
    BY <1>3, <1>4 DEF Burden, Points
  <2>2. QED
    BY <1>3, <1>6, <2>1, BurdenOfBoth
<1>8. /\ Burden(ByAV) \in Nat /\ Burden(T) \in Nat
      /\ Cardinality(ByAV) \in Nat /\ Cardinality(T) \in Nat
  BY <1>3, <1>6, BurdenIsANumber, FS_CardinalityType
<1>9. Cardinality(ByAV)' = Cardinality(ByAV) + Cardinality(T)
  <2>1. Cardinality(ByAV \cup T)
          = Cardinality(ByAV) + Cardinality(T) - Cardinality(ByAV \cap T)
    BY <1>3, FS_Union
  <2>2. Cardinality(ByAV \cap T) = 0
    BY <1>3, FS_EmptySet
  <2>3. QED
    BY <1>3, <1>8, <2>1, <2>2
<1>10. avs' = avs + Cardinality(T) /\ excess' = excess + Burden(T)
  BY <1>1, <1>2, <1>3 DEF Expose, ExcessOf
<1>11. excess + Burden(T) <= Gamma * (avs + Cardinality(T))
  BY <1>1, <1>2, <1>3 DEF WithinBudget, ExcessOf
<1>12. ExposureWithinBudget'
  <2>1. avs = Cardinality(ByAV) /\ excess = Burden(ByAV)
    BY DEF Accounts, ExposureWithinBudget
  <2>2. avs' = Cardinality(ByAV)' /\ excess' = Burden(ByAV)'
    BY <1>7, <1>9, <1>10, <2>1
  <2>3. excess' <= Gamma * avs'
    BY <1>10, <1>11
  <2>4. QED
    BY <2>2, <2>3 DEF ExposureWithinBudget
<1>13. QED
  BY <1>3, <1>4, <1>5, <1>12 DEF Accounts

(* The totals count every request given to an AV once, and their mean      *)
(* stays within the allowance (exposure.py:53, 79).                        *)
THEOREM BudgetIsKept == Spec => []ExposureWithinBudget
<1>1. Init => Accounts
  <2> SUFFICES ASSUME Init PROVE Accounts
    OBVIOUS
  <2>1. exposure \in [Requests -> Nat \cup {None}]
    BY DispatchAssumption DEF Init
  <2>2. ByAV = {}
    BY DispatchAssumption DEF Init, ByAV
  <2>3. Points(ByAV) = {}
    BY <2>2 DEF Points
  <2>4. Cardinality(ByAV) = 0 /\ Burden(ByAV) = 0
    BY <2>2, <2>3, FS_EmptySet DEF Burden
  <2>5. QED
    BY <2>1, <2>2, <2>4, Parameters DEF Init, Accounts, ExposureWithinBudget
<1>2. Typing /\ Places /\ Accounts /\ [Next]_vars => Accounts'
  <2> SUFFICES ASSUME Typing, Places, Accounts, [Next]_vars PROVE Accounts'
    OBVIOUS
  <2>1. CASE Trigger
    BY <2>1, TriggerKeepsAccounts
  <2>2. CASE UNCHANGED <<exposure, assigned, exposureState>>
    BY <2>2 DEF exposureState, Accounts, ExposureWithinBudget, ByAV, Burden, Points
  <2>3. QED
    BY <2>1, <2>2 DEF Next, vars, Move, Activate, TriggerAfterMatching, GuardExceeded, Tick
<1>3. Accounts => ExposureWithinBudget
  BY DEF Accounts
<1>4. QED
  BY <1>1, <1>2, <1>3, PlacesHold, PTL DEF Spec

-----------------------------------------------------------------------------
(* The dispatch rounds are whole intervals apart, and so is the last one.  *)
Rounds == {n \in Nat : \E k \in Nat : n = k * Interval}

LEMMA RoundAfter ==
  ASSUME NEW m \in Rounds
  PROVE  m + Interval \in Rounds
<1>1. PICK i \in Nat : m = i * Interval
  BY DEF Rounds
<1>2. (i + 1) * Interval = m + Interval /\ i + 1 \in Nat
  BY <1>1, Parameters
<1>3. QED
  BY <1>1, <1>2, Parameters DEF Rounds

LEMMA NextRound ==
  ASSUME NEW m \in Rounds, NEW n \in Rounds, m < n
  PROVE  m + Interval <= n
<1>1. PICK i \in Nat : m = i * Interval
  BY DEF Rounds
<1>2. PICK k \in Nat : n = k * Interval
  BY DEF Rounds
<1>3. i < k
  <2>1. ASSUME k <= i PROVE FALSE
    <3>1. k * Interval <= i * Interval
      BY <2>1, Parameters
    <3>2. QED
      BY <1>1, <1>2, <3>1, Parameters
  <2>2. QED
    BY <2>1
<1>4. (i + 1) * Interval <= k * Interval
  BY <1>3, Parameters
<1>5. (i + 1) * Interval = m + Interval
  BY <1>1, Parameters
<1>6. QED
  BY <1>2, <1>4, <1>5

LEMMA Multiples ==
  ASSUME NEW n \in Nat, n % Interval = 0
  PROVE  \E k \in Nat : n = k * Interval
<1>1. n = Interval * (n \div Interval) + (n % Interval) /\ n \div Interval \in Nat
  BY Parameters
<1>2. n = (n \div Interval) * Interval
  BY <1>1, Parameters
<1>3. QED
  BY <1>1, <1>2

LEMMA LastRound == MatchingEnd \in Rounds
<1>1. PICK i \in Nat : DemandEnd = i * Interval
  BY Parameters, Multiples, DispatchAssumption
<1>2. PICK k \in Nat : MaxWait = k * Interval
  BY Parameters, Multiples, DispatchAssumption
<1>3. MatchingEnd = (i + k) * Interval /\ i + k \in Nat
  BY <1>1, <1>2, Parameters DEF MatchingEnd
<1>4. QED
  BY <1>3, Parameters DEF MatchingEnd, Rounds

-----------------------------------------------------------------------------
(* A request is handed over in the first step after it is made, so with at *)
(* least one round before its deadline; one that waits and has not been    *)
(* critical has more than an interval left, and one that waits beyond the  *)
(* end of the matching does not exist.                                     *)
Early == phase \in {"move", "activate"}
BeforeRound == phase \in {"move", "activate", "trigger"}

Timing ==
  /\ now \in Rounds
  /\ \A r \in Requests \ Known :
       /\ Early => now < RequestTime[r] + Interval
       /\ phase \in {"trigger", "tick"} => now < RequestTime[r]
  /\ \A r \in waiting :
       /\ phase = "tick" => now < Deadline(r)
       /\ BeforeRound => now <= MatchingEnd
       /\ r \notin critical /\ BeforeRound => now < Deadline(r)
       /\ r \notin critical /\ phase = "tick" => now + Interval < Deadline(r)
  /\ LastChance

LEMMA TriggerKeepsTiming ==
  ASSUME Typing, Places, Timing, Trigger
  PROVE  Timing'
<1>1. PICK S : Handover(S) /\ Dispatch(S)
  BY RoundHandsOver
<1>2. Recorded(S)
  BY <1>1, DispatchRecords
<1>3. /\ phase = "trigger" /\ phase' = "tick" /\ now' = now /\ expired' = expired \cup Expiring
      /\ critical' = critical \cup {r \in waiting \ Expiring : Critical(r)}
      /\ waiting' = (waiting \ Expiring) \ {a.request : a \in S}
  BY <1>2, Zenon DEF Trigger, Expire, Recorded, Left
<1>4. ASSUME NEW r \in Requests, r \notin Known'
      PROVE  r \notin Known
  <2>1. r \notin waiting' /\ r \notin expired' /\ assigned'[r] = None
    BY <1>4 DEF Known
  <2>2. \A a \in S : a.vehicle # None
    BY <1>1, NoneIsNothing DEF Handover
  <2>3. \A a \in S : a.request # r
    BY <1>2, <2>1, <2>2 DEF Recorded
  <2>4. assigned[r] = None
    BY <1>2, <2>1, <2>3 DEF Recorded
  <2>5. r \notin waiting /\ r \notin expired
    BY <1>3, <2>1, <2>3
  <2>6. QED
    BY <2>4, <2>5 DEF Known
<1>5. \A r \in Requests \ Known' : now' < RequestTime[r]
  BY <1>3, <1>4 DEF Timing
<1>6. ASSUME NEW r \in waiting'
      PROVE  /\ now' < Deadline(r)
             /\ r \in critical' \/ now' + Interval < Deadline(r)
  <2>1. r \in waiting /\ r \notin Expiring /\ r \in Requests
    BY <1>3 DEF Typing
  <2>2. now < Deadline(r)
    BY <2>1, Times DEF Expiring, PatienceExpired, Typing
  <2>3. Critical(r) \/ now + Interval < Deadline(r)
    BY <2>1, <2>2, Times, Parameters DEF Critical, Typing
  <2>4. QED
    BY <1>3, <2>1, <2>2, <2>3
<1>7. LastChance'
  <2>1. \A r \in Expiring : r \in critical
    BY <1>3, Times DEF Timing, BeforeRound, Expiring, PatienceExpired, Typing
  <2>2. QED
    BY <1>3, <2>1 DEF Timing, LastChance
<1>8. now' \in Rounds /\ phase' = "tick"
  BY <1>3 DEF Timing
<1>9. QED
  BY <1>5, <1>6, <1>7, <1>8 DEF Timing, Early, BeforeRound

LEMMA ActivateKeepsTiming ==
  ASSUME Typing, Places, Timing, Activate
  PROVE  Timing'
<1>1. /\ UNCHANGED <<now, expired, assigned, critical>> /\ phase = "activate" /\ phase' = "trigger"
      /\ waiting' = waiting \cup {r \in Requests \ Known : RequestTime[r] <= now}
  BY DEF Activate, meta
<1>2. ASSUME NEW r \in Requests \ Known'
      PROVE  r \notin Known /\ now' < RequestTime[r]
  <2>1. r \notin Known /\ ~(RequestTime[r] <= now)
    BY <1>1 DEF Known
  <2>2. QED
    BY <1>1, <2>1, Times DEF Typing
<1>3. ASSUME NEW r \in waiting', r \notin waiting
      PROVE  now' < Deadline(r) /\ now' <= MatchingEnd
  <2>1. r \in Requests \ Known /\ now < RequestTime[r] + Interval /\ now' = now
    BY <1>1, <1>3 DEF Timing, Early
  <2>2. QED
    BY <2>1, Times, Parameters DEF Typing
<1>4. \A r \in waiting' :
        /\ now' <= MatchingEnd
        /\ r \notin critical' => now' < Deadline(r)
  BY <1>1, <1>3 DEF Timing, BeforeRound
<1>5. now' \in Rounds /\ phase' = "trigger" /\ LastChance'
  BY <1>1 DEF Timing, LastChance
<1>6. QED
  BY <1>2, <1>4, <1>5 DEF Timing, Early, BeforeRound

LEMMA TickKeepsTiming ==
  ASSUME Typing, Timing, Tick
  PROVE  Timing'
<1>1. UNCHANGED <<waiting, expired, assigned, critical, Known>> /\ phase = "tick"
  BY DEF Tick, meta, Known
<1>2. CASE now' = now /\ phase' = "ended"
  BY <1>1, <1>2 DEF Timing, Early, BeforeRound, LastChance
<1>3. CASE now' = now + Interval /\ phase' = "move"
  <2>1. now' \in Rounds
    BY <1>3, RoundAfter DEF Timing
  <2>2. \A r \in Requests \ Known' : now' < RequestTime[r] + Interval
    BY <1>1, <1>3, Times, Parameters DEF Timing, Typing
  <2>3. ASSUME NEW r \in waiting'
        PROVE  now' <= MatchingEnd /\ (r \notin critical' => now' < Deadline(r))
    <3>1. r \in waiting /\ r \in Requests /\ now < Deadline(r)
      BY <1>1, <2>3 DEF Typing, Timing
    <3>2. now < MatchingEnd
      BY <3>1, Times DEF Typing
    <3>3. now + Interval <= MatchingEnd
      BY <3>2, NextRound, LastRound DEF Timing
    <3>4. QED
      BY <1>1, <1>3, <3>1, <3>3 DEF Timing
  <2>4. QED
    BY <1>1, <1>3, <2>1, <2>2, <2>3 DEF Timing, Early, BeforeRound, LastChance
<1>4. QED
  BY <1>2, <1>3 DEF Tick

LEMMA TimingHolds == Spec => []Timing
<1>1. Init => Timing
  <2>1. 0 \in Rounds
    BY Parameters DEF Rounds
  <2>2. QED
    BY <2>1, Times, Parameters DEF Init, Timing, Early, BeforeRound, LastChance
<1>2. Typing /\ Places /\ Timing /\ [Next]_vars => Timing'
  <2> SUFFICES ASSUME Typing, Places, Timing, [Next]_vars PROVE Timing'
    OBVIOUS
  <2>1. CASE UNCHANGED vars
    BY <2>1 DEF vars, meta, Timing, Early, BeforeRound, LastChance, Known
  <2>2. CASE Move
    BY <2>2 DEF Move, meta, Timing, Early, BeforeRound, LastChance, Known
  <2>3. CASE Activate
    BY <2>3, ActivateKeepsTiming
  <2>4. CASE Trigger
    BY <2>4, TriggerKeepsTiming
  <2>5. CASE TriggerAfterMatching
    <3>1. waiting = {}
      BY <2>5 DEF TriggerAfterMatching, MatchingRuns, Timing, BeforeRound, Typing, MatchingEnd
    <3>2. QED
      BY <2>5, <3>1 DEF TriggerAfterMatching, meta, Timing, Early, BeforeRound, LastChance, Known
  <2>6. CASE GuardExceeded
    BY <2>6 DEF GuardExceeded, meta, Timing, Early, BeforeRound, LastChance, Known
  <2>7. CASE Tick
    BY <2>7, TickKeepsTiming
  <2>8. QED
    BY <2>1, <2>2, <2>3, <2>4, <2>5, <2>6, <2>7 DEF Next
<1>3. QED
  BY <1>1, <1>2, PlacesHold, PTL DEF Spec

(* Nobody expires without having been first in the solver's order once.    *)
THEOREM NobodyExpiresUnseen == Spec => []LastChance
<1>1. Timing => LastChance
  BY DEF Timing
<1>2. QED
  BY <1>1, TimingHolds, PTL

(* When matching is over every request has been assigned or has expired,   *)
(* and never both.                                                         *)
THEOREM OutcomesAreComplete == Spec => []EveryRequestHasAnOutcome
<1>1. Typing /\ Places /\ Timing => EveryRequestHasAnOutcome
  <2> SUFFICES ASSUME Typing, Places, Timing, phase = "tick", now >= MatchingEnd,
                      NEW r \in Requests
               PROVE  assigned[r] # None \/ r \in expired
    BY DEF EveryRequestHasAnOutcome, Places
  <2>1. r \in Known
    BY Times, Parameters DEF Timing, Typing, MatchingEnd
  <2>2. r \notin waiting
    BY Times DEF Timing, Typing
  <2>3. QED
    BY <2>1, <2>2 DEF Known
<1>2. QED
  BY <1>1, PlacesHold, TimingHolds, PTL

(* Nobody expires unseen, and nobody is left without an outcome.           *)
THEOREM PatienceIsKept == Spec => []PatienceIsFair
<1>1. LastChance /\ EveryRequestHasAnOutcome => PatienceIsFair
  BY DEF PatienceIsFair
<1>2. QED
  BY <1>1, NobodyExpiresUnseen, OutcomesAreComplete, PTL
=============================================================================
