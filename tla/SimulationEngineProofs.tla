----------------------- MODULE SimulationEngineProofs -----------------------
(***************************************************************************)
(* The engine, for every fleet, demand, calendar and delay.  Its types and *)
(* the order of its events hold as they are.  The rest follows from one    *)
(* inductive invariant, RecordsFit: what request, vehicle, offer, book,    *)
(* index and queue say of each other between two handlers of a run that    *)
(* goes on; Agreed is the part of it that outlives an exception and the    *)
(* end of the day.  PatienceFits, Timely and SessionsFit add the times.    *)
(* A theorem assumes of the configuration only what it needs, and says so: *)
(* AnswersPrecedeEpochs (10 s against 30 s in the formal runs),            *)
(* PickupsTakeTime, RevealedInTime, RidesOutlastAnswers,                   *)
(* SessionsHaveLength, DayOutlastsRides.                                   *)
(***************************************************************************)
EXTENDS SimulationEngine, SequenceTheorems, WellFoundedInduction, TLAPS

-----------------------------------------------------------------------------
(* The lifecycle operators keep request records.                           *)
LEMMA StatusNames ==
  {"UNREVEALED", "PENDING", "OFFERED", "RESERVED", "ASSIGNED", "PICKUP_STARTED",
   "BOARDED", "IN_SERVICE", "COMPLETED", "CANCELLED", "RAISED"} \subseteq RequestStatus
  BY DEF RequestStatus, LegalTransitions

LEMMA TransitionType ==
  ASSUME NEW q \in RequestRecord, NEW s \in RequestStatus
  PROVE  Transition(q, s) \in RequestRecord
<1> DEFINE status == IF s \in LegalTransitions[q.status] THEN s ELSE "RAISED"
<1>1. status \in RequestStatus
  BY StatusNames
<1>2. Transition(q, s) = [q EXCEPT !.status = status]
  BY DEF Transition
<1>3. QED
  BY <1>1, <1>2 DEF RequestRecord

LEMMA PointerType ==
  ASSUME NEW q \in RequestRecord, NEW v \in Vehicles \cup {NoVehicle}
  PROVE  /\ [q EXCEPT !.assigned = v] \in RequestRecord
         /\ [q EXCEPT !.reserved = v] \in RequestRecord
         /\ [q EXCEPT !.econ = v] \in RequestRecord
  BY DEF RequestRecord

(* offer, reject_offer, reserve and assign return request records.         *)
LEMMA LifecycleType ==
  ASSUME NEW q \in RequestRecord, NEW v \in Vehicles
  PROVE  /\ Offer(q) \in RequestRecord
         /\ RejectOffer(q) \in RequestRecord
         /\ Reserve(q, v) \in RequestRecord
         /\ Assign(q, v) \in RequestRecord
<1>1. Offer(q) \in RequestRecord /\ RejectOffer(q) \in RequestRecord
  BY StatusNames, TransitionType DEF Offer, RejectOffer
<1>2. (IF q.status = "PENDING" THEN Transition(q, "OFFERED") ELSE q) \in RequestRecord
  BY StatusNames, TransitionType
<1>3. ASSUME NEW p \in RequestRecord
      PROVE  /\ (IF p.status = "OFFERED" THEN Transition(p, "RESERVED") ELSE p)
                  \in RequestRecord
             /\ (IF p.status = "ASSIGNED" THEN p ELSE Transition(p, "ASSIGNED"))
                  \in RequestRecord
  BY StatusNames, TransitionType
<1>4. Reserve(q, v) \in RequestRecord
  BY <1>2, <1>3, PointerType DEF Reserve
<1>5. Assign(q, v) \in RequestRecord
  BY <1>2, <1>3, PointerType DEF Assign
<1>6. QED
  BY <1>1, <1>4, <1>5

(* Starting and finishing a leg return request records.                    *)
LEMMA RideType ==
  ASSUME NEW q \in RequestRecord, NEW v \in Vehicles, NEW stop, NEW leg
  PROVE  StartRequest(q, v, stop) \in RequestRecord /\ FinishRequest(q, v, leg) \in RequestRecord
<1>1. [Transition(q, "ASSIGNED") EXCEPT !.assigned = v, !.reserved = NoVehicle] \in RequestRecord
  <2> DEFINE t == Transition(q, "ASSIGNED")
  <2>1. t \in RequestRecord
    BY StatusNames, TransitionType
  <2> HIDE DEF t
  <2>2. [t EXCEPT !.assigned = v, !.reserved = NoVehicle] \in RequestRecord
    BY <2>1 DEF RequestRecord
  <2>3. QED
    BY <2>2 DEF t
<1>2. StartRequest(q, v, stop) \in RequestRecord
  BY <1>1, StatusNames, TransitionType DEF StartRequest
<1>3. [Transition(q, "COMPLETED") EXCEPT !.assigned = v] \in RequestRecord
  BY StatusNames, TransitionType, PointerType
<1>4. FinishRequest(q, v, leg) \in RequestRecord
  BY <1>3, StatusNames, TransitionType DEF FinishRequest
<1>5. QED
  BY <1>2, <1>4

-----------------------------------------------------------------------------
(* The numbers the engine computes with.                                   *)
LEMMA NumbersAreNatural ==
  /\ \A r \in Requests : RequestTime[r] \in Nat /\ LatestPickup[r] \in Nat
                           /\ RealizedService[r] \in Nat
  /\ \A v \in Vehicles : OnlineStart[v] \in Nat /\ OnlineEnd[v] \in Nat
  /\ PickupEtas \subseteq Nat /\ MoveTimes \subseteq Nat
  /\ End \in Nat /\ ResponseDelay \in Nat /\ ResponseDelay > 0 /\ MinLeg \in Nat /\ MinLeg > 0
  BY TimesAssumption, DelaysAssumption

LEMMA PlanType ==
  ASSUME NEW r \in Requests
  PROVE  /\ AssignmentPlan(r) \in Seq(PlanStop)
         /\ AssignmentPlan(r) # <<>>
         /\ Head(AssignmentPlan(r)) = Stop("PICKUP", r)
<1>1. Stop("PICKUP", r) \in PlanStop /\ Stop("DROP_OFF", r) \in PlanStop
  BY DEF Stop, PlanStop
<1>2. QED
  BY <1>1 DEF AssignmentPlan

LEMMA InsertionPlanType ==
  ASSUME NEW r \in Requests, NEW plan \in Seq(PlanStop)
  PROVE  InsertAfterLockedStops(plan, r) \in Seq(PlanStop)
  BY PlanType DEF InsertAfterLockedStops

LEMMA MovementPlanType ==
  ASSUME NEW v \in Vehicles
  PROVE  MovementPlan(v) \in Seq(PlanStop) /\ MovementPlan(v) # <<>>
           /\ Head(MovementPlan(v)).kind \in {"HV_REPOSITION", "AV_REBALANCE"}
<1> DEFINE kind == IF v \in HVs THEN "HV_REPOSITION" ELSE "AV_REBALANCE"
<1>1. Stop(kind, NoRequest) \in PlanStop /\ Stop(kind, NoRequest).kind = kind
  BY DEF Stop, PlanStop
<1>2. kind \in {"HV_REPOSITION", "AV_REBALANCE"}
  OBVIOUS
<1>3. MovementPlan(v) = <<Stop(kind, NoRequest)>>
  BY DEF MovementPlan
<1> HIDE DEF kind
<1>4. QED
  BY <1>1, <1>2, <1>3

(* Every nonempty set of naturals has a least element: the induction of    *)
(* the next two lemmas.                                                    *)
Below == {mn \in Nat \X Nat : mn[1] < mn[2]}

LEMMA LeastElement ==
  ASSUME NEW S \in SUBSET Nat, S # {}
  PROVE  \E m \in S : \A n \in S : ~(n < m)
<1>1. Below = OpToRel(<, Nat)
  BY DEF Below, OpToRel
<1>2. IsWellFoundedOn(Below, Nat)
  BY <1>1, NatLessThanWellFounded
<1>3. \E m \in S : \A n \in S : ~(<<n, m>> \in Below)
  BY <1>2, WFMin
<1>4. QED
  BY <1>3 DEF Below

(* KeptStops is the function its recursive definition describes.           *)
KeepsStops(kept, plan, r, m) ==
  kept = [n \in 0..m |->
            IF n = 0 THEN <<>>
            ELSE IF plan[n].request = r THEN kept[n - 1] ELSE Append(kept[n - 1], plan[n])]

LEMMA KeptStopsUnfolds ==
  ASSUME NEW plan \in Seq(PlanStop), NEW r
  PROVE  KeepsStops(KeptStops(plan, r), plan, r, Len(plan))
<1> DEFINE undefined == {m \in 0..Len(plan) : ~ \E kept : KeepsStops(kept, plan, r, m)}
<1>1. undefined = {}
  <2> SUFFICES ASSUME undefined # {} PROVE FALSE
    OBVIOUS
  <2>1. Len(plan) \in Nat /\ undefined \in SUBSET Nat
    OBVIOUS
  <2>2. PICK m \in undefined : \A n \in undefined : ~(n < m)
    BY <2>1, LeastElement
  <2>3. CASE m = 0
    <3>1. KeepsStops([n \in 0..0 |-> <<>>], plan, r, 0)
      BY DEF KeepsStops
    <3>2. QED
      BY <2>2, <2>3, <3>1
  <2>4. CASE m # 0
    <3> DEFINE next(f, n) == IF n = 0 THEN <<>>
                             ELSE IF plan[n].request = r THEN f[n - 1]
                             ELSE Append(f[n - 1], plan[n])
    <3>1. m \in Nat /\ m - 1 \in 0..Len(plan) /\ m - 1 < m
      BY <2>1, <2>2, <2>4
    <3>2. PICK f : KeepsStops(f, plan, r, m - 1)
      BY <2>2, <3>1
    <3>3. f = [n \in 0..(m - 1) |-> next(f, n)]
      BY <3>2 DEF KeepsStops
    <3> DEFINE g == [n \in 0..m |-> next(f, n)]
    <3>4. \A n \in 0..m : n # 0 => g[n - 1] = f[n - 1]
      <4> HIDE DEF next
      <4>1. QED
        BY <3>1, <3>3
    <3>5. \A n \in 0..m : next(g, n) = next(f, n)
      <4> HIDE DEF g
      <4>1. QED
        BY <3>4
    <3>6. g = [n \in 0..m |-> next(g, n)]
      <4> HIDE DEF next
      <4>1. QED
        BY <3>5, Zenon
    <3>7. KeepsStops(g, plan, r, m)
      BY <3>6 DEF KeepsStops
    <3>8. QED
      BY <2>2, <3>7
  <2>5. QED
    BY <2>3, <2>4
<1>2. Len(plan) \in 0..Len(plan)
  OBVIOUS
<1>3. \E kept : KeepsStops(kept, plan, r, Len(plan))
  BY <1>1, <1>2
<1>4. KeptStops(plan, r) = CHOOSE kept : KeepsStops(kept, plan, r, Len(plan))
  BY Zenon DEF KeptStops, KeepsStops
<1>5. QED
  BY <1>3, <1>4

(* Dropping the stops of a request leaves a plan.                          *)
LEMMA WithoutStopsType ==
  ASSUME NEW plan \in Seq(PlanStop), NEW r
  PROVE  WithoutStops(plan, r) \in Seq(PlanStop)
<1> DEFINE kept == KeptStops(plan, r)
           bad == {n \in 0..Len(plan) : kept[n] \notin Seq(PlanStop)}
<1>1. KeepsStops(kept, plan, r, Len(plan))
  BY KeptStopsUnfolds
<1> HIDE DEF kept
<1>2. \A n \in 0..Len(plan) :
        kept[n] = IF n = 0 THEN <<>>
                  ELSE IF plan[n].request = r THEN kept[n - 1]
                  ELSE Append(kept[n - 1], plan[n])
  BY <1>1 DEF KeepsStops
<1>3. bad = {}
  <2> SUFFICES ASSUME bad # {} PROVE FALSE
    OBVIOUS
  <2>1. Len(plan) \in Nat /\ bad \in SUBSET Nat
    OBVIOUS
  <2>2. PICK m \in bad : \A n \in bad : ~(n < m)
    BY <2>1, LeastElement
  <2>3. m # 0
    <3>1. 0 \in 0..Len(plan)
      BY <2>1
    <3>2. kept[0] = <<>> /\ <<>> \in Seq(PlanStop)
      BY <1>2, <3>1
    <3>3. kept[m] \notin Seq(PlanStop)
      BY <2>2
    <3>4. QED
      BY <3>2, <3>3
  <2>4. m - 1 \in 0..Len(plan) /\ m - 1 < m /\ m \in 1..Len(plan)
    BY <2>1, <2>2, <2>3
  <2>5. kept[m - 1] \in Seq(PlanStop) /\ plan[m] \in PlanStop
    BY <2>2, <2>4
  <2>6. kept[m] = kept[m - 1] \/ kept[m] = Append(kept[m - 1], plan[m])
    BY <1>2, <2>3, <2>2
  <2>7. Append(kept[m - 1], plan[m]) \in Seq(PlanStop)
    BY <2>5, AppendProperties
  <2>8. QED
    BY <2>2, <2>5, <2>6, <2>7
<1>4. Len(plan) \in 0..Len(plan)
  OBVIOUS
<1>5. kept[Len(plan)] \in Seq(PlanStop)
  BY <1>3, <1>4
<1>6. QED
  BY <1>5 DEF WithoutStops, kept

LEMMA ParkedType ==
  ASSUME NEW v, NEW t
  PROVE  Parked(v, t) \in {"IDLE", "OFFLINE"}
  BY DEF Parked

(* A leg that starts ends later: _start_next_leg keeps vehicle records,    *)
(* and pushes no completion for the instant it runs at.                    *)
LEMMA StartNextLegType ==
  ASSUME NEW v \in Vehicles, NEW vehicle \in VehicleRecord, NEW t \in Nat, NEW ride \in Nat
  PROVE  /\ StartNextLeg(v, vehicle, t, ride) \in VehicleRecord
         /\ vehicle.plan # <<>> => StartNextLeg(v, vehicle, t, ride).leg.end > t
         /\ vehicle.plan = <<>> => StartNextLeg(v, vehicle, t, ride).leg = vehicle.leg
<1>1. CASE vehicle.plan = <<>>
  <2>1. StartNextLeg(v, vehicle, t, ride) = [vehicle EXCEPT !.status = Parked(v, t)]
    BY <1>1 DEF StartNextLeg
  <2>2. QED
    BY <1>1, <2>1, ParkedType DEF VehicleRecord
<1>2. CASE vehicle.plan # <<>>
  <2> DEFINE stop == Head(vehicle.plan)
             duration == IF stop.kind = "DROP_OFF" THEN RealizedService[stop.request] ELSE ride
             leg == [kind |-> LegKind(stop), request |-> stop.request,
                     end |-> t + Larger(MinLeg, duration)]
             reserved == IF stop.kind = "PICKUP" /\ requests[stop.request].status = "RESERVED"
                         THEN NoRequest ELSE vehicle.reserved
  <2>1. vehicle.plan \in Seq(PlanStop) /\ vehicle.reserved \in Requests \cup {NoRequest}
    BY DEF VehicleRecord
  <2>2. stop \in PlanStop /\ Tail(vehicle.plan) \in Seq(PlanStop)
    BY <1>2, <2>1, HeadTailProperties
  <2>3. duration \in Nat
    BY <2>2, NumbersAreNatural DEF PlanStop
  <2>4. t + Larger(MinLeg, duration) \in Nat /\ t + Larger(MinLeg, duration) > t
    <3> HIDE DEF duration
    <3>1. QED
      BY <2>3, NumbersAreNatural DEF Larger
  <2>5. leg \in LegRecord
    <3> HIDE DEF duration
    <3>1. QED
      BY <2>2, <2>4 DEF LegRecord, LegKind, PlanStop
  <2>6. ExecutionStatus(stop) \in {"OFFLINE", "IDLE", "WAITING", "PICKUP", "SERVICE", "REPOSITIONING", "REBALANCING"}
    BY <2>2 DEF PlanStop, ExecutionStatus
  <2>7. StartNextLeg(v, vehicle, t, ride) =
          [status |-> ExecutionStatus(stop), leg |-> leg, plan |-> Tail(vehicle.plan),
           reserved |-> reserved]
    BY <1>2 DEF StartNextLeg
  <2>8. leg.end > t
    BY <2>4
  <2>9. reserved \in Requests \cup {NoRequest}
    BY <2>1
  <2> HIDE DEF leg, reserved, stop
  <2>10. QED
    BY <1>2, <2>2, <2>5, <2>6, <2>7, <2>8, <2>9 DEF VehicleRecord
<1>3. QED
  BY <1>1, <1>2
-----------------------------------------------------------------------------
(* Types are kept by every event.                                          *)
IndexRecord ==
  [pending : SUBSET Requests, offered : SUBSET Requests, reserved : SUBSET Requests,
   completed : SUBSET Requests, cancelled : SUBSET Requests]

LEMMA IndexType ==
  ASSUME NEW i \in IndexRecord, NEW S \in SUBSET Requests
  PROVE  /\ IndexReveal(i, S) \in IndexRecord
         /\ IndexOffer(i, S) \in IndexRecord
         /\ IndexReject(i, S) \in IndexRecord
         /\ IndexReserve(i, S) \in IndexRecord
         /\ IndexAssign(i, S) \in IndexRecord
         /\ IndexExpire(i, S) \in IndexRecord
  BY DEF IndexRecord, IndexReveal, IndexOffer, IndexReject, IndexReserve, IndexAssign,
         IndexExpire

LEMMA PriorityType ==
  \A kind \in EventType : EventPriority[kind] \in 1..9
  BY DEF EventType, EventPriority

LEMMA EventNames ==
  {"LEG_COMPLETED", "HV_SESSION_END", "HV_SESSION_START", "REQUEST_REVEALED",
   "DRIVER_RESPONSE", "RESERVATION_EXPIRED", "PLAN_INVALIDATED", "DECISION_EPOCH"}
     \subseteq EventType
  BY DEF EventType, EventPriority

(* A queue entry the engine can hold.                                      *)
Timed(e) == e.at \in Nat /\ e.kind \in EventType

LEMMA EventIsTimed ==
  ASSUME NEW t \in Nat, NEW kind \in EventType, NEW id
  PROVE  Timed(SimulationEvent(t, kind, id))
  BY DEF Timed, SimulationEvent

(* The loop's pop: the clock and the priority of the event handled, and    *)
(* the events it leaves.                                                   *)
LEMMA PopType ==
  ASSUME TypeOK, NEW kind, NEW id, Pop(kind, id)
  PROVE  /\ clock' \in Nat
         /\ priority' \in 0..9
         /\ kind \in EventType
         /\ \A e \in Rest(kind, id) : Timed(e)
<1>1. \A e \in NextEvents(events) : e \in events /\ Timed(e)
  BY DEF NextEvents, TypeOK, Timed
<1>2. clock' \in Nat
  BY <1>1 DEF Pop, Timed
<1>3. kind \in EventType
  BY <1>1 DEF Pop, Timed, SimulationEvent
<1>4. priority' \in 0..9
  BY <1>3, PriorityType DEF Pop
<1>5. \A e \in Rest(kind, id) : Timed(e)
  BY DEF Rest, TypeOK, Timed
<1>6. QED
  BY <1>2, <1>3, <1>4, <1>5

(* TypeOK as the conjuncts an event can disturb.                           *)
QueueType == \A e \in events : Timed(e)

LEMMA TypeParts ==
  TypeOK <=> /\ clock \in Nat /\ priority \in 0..9
             /\ QueueType
             /\ requests \in [Requests -> RequestRecord]
             /\ vehicles \in [Vehicles -> VehicleRecord]
             /\ index \in IndexRecord
             /\ offers \subseteq OfferRecord
             /\ book \in [Requests -> Vehicles \cup {NoVehicle}]
             /\ idleSince \in [HVs -> Nat \cup {NoTime}]
             /\ finalized \in BOOLEAN
  BY DEF TypeOK, QueueType, Timed, IndexRecord

LEMMA TypePartsNext ==
  (/\ clock \in Nat /\ priority \in 0..9
   /\ QueueType
   /\ requests \in [Requests -> RequestRecord]
   /\ vehicles \in [Vehicles -> VehicleRecord]
   /\ index \in IndexRecord
   /\ offers \subseteq OfferRecord
   /\ book \in [Requests -> Vehicles \cup {NoVehicle}]
   /\ idleSince \in [HVs -> Nat \cup {NoTime}]
   /\ finalized \in BOOLEAN)' => TypeOK'
  BY DEF TypeOK, QueueType, Timed, IndexRecord

LEMMA RequestRevealedType ==
  ASSUME TypeOK, NEW r \in Requests, RequestRevealed(r)
  PROVE  TypeOK'
<1>1. clock' \in Nat /\ priority' \in 0..9
        /\ \A e \in Rest("REQUEST_REVEALED", r) : Timed(e)
  BY PopType DEF RequestRevealed
<1>2. requests' \in [Requests -> RequestRecord]
  BY TypeParts, TransitionType, StatusNames DEF RequestRevealed
<1>3. index' \in IndexRecord
  BY TypeParts, IndexType DEF RequestRevealed
<1>4. QueueType'
  BY <1>1 DEF RequestRevealed, QueueType
<1>5. QED
  BY <1>1, <1>2, <1>3, <1>4, TypeParts, TypePartsNext DEF RequestRevealed

LEMMA SessionEventType ==
  ASSUME TypeOK, NEW v \in Vehicles, NEW kind, NEW status \in {"IDLE", "OFFLINE"},
         SessionEvent(v, kind, status)
  PROVE  TypeOK'
<1>1. clock' \in Nat /\ priority' \in 0..9 /\ \A e \in Rest(kind, v) : Timed(e)
  BY PopType DEF SessionEvent
<1>2. [vehicles[v] EXCEPT !.status = status] \in VehicleRecord
  BY TypeParts DEF VehicleRecord
<1>3. vehicles' \in [Vehicles -> VehicleRecord]
  BY <1>2, TypeParts DEF SessionEvent
<1>4. QueueType'
  BY <1>1 DEF SessionEvent, QueueType
<1>5. QED
  BY <1>1, <1>3, <1>4, TypeParts, TypePartsNext DEF SessionEvent
(* LEG_COMPLETED: the vehicle parks, the requests advance.                 *)
LEMMA ReleasedType ==
  ASSUME TypeOK, NEW v \in Vehicles
  PROVE  /\ Released(v) \in VehicleRecord
         /\ Released(v).leg = NoLeg
         /\ Released(v).plan = vehicles[v].plan
<1>1. NoLeg \in LegRecord
  BY DEF NoLeg, LegRecord
<1>2. Parked(v, clock') \in {"OFFLINE", "IDLE", "WAITING", "PICKUP", "SERVICE",
                              "REPOSITIONING", "REBALANCING"}
  BY ParkedType
<1>3. vehicles[v] \in VehicleRecord
  BY TypeParts
<1>4. QED
  BY <1>1, <1>2, <1>3 DEF Released, VehicleRecord

LEMMA AdvanceType ==
  ASSUME TypeOK, NEW v \in Vehicles, NEW starts
  PROVE  Advance(v, starts) \in [Requests -> RequestRecord]
<1> DEFINE finished(r) == IF r = vehicles[v].leg.request
                          THEN FinishRequest(requests[r], v, vehicles[v].leg) ELSE requests[r]
           advanced(r) == IF starts /\ Head(vehicles[v].plan).request = r
                          THEN StartRequest(finished(r), v, Head(vehicles[v].plan))
                          ELSE finished(r)
<1>1. ASSUME NEW r \in Requests PROVE advanced(r) \in RequestRecord
  <2>1. requests[r] \in RequestRecord
    BY TypeParts
  <2>2. finished(r) \in RequestRecord
    BY <2>1, RideType
  <2> HIDE DEF finished
  <2>3. QED
    BY <2>2, RideType
<1>2. Advance(v, starts) = [r \in Requests |-> advanced(r)]
  BY DEF Advance
<1> HIDE DEF advanced
<1>3. QED
  BY <1>1, <1>2

LEMMA ServedByType ==
  ASSUME TypeOK, NEW v \in Vehicles
  PROVE  ServedBy(v) \in SUBSET Requests
<1>1. vehicles[v].leg \in LegRecord
  BY TypeParts DEF VehicleRecord
<1>2. QED
  BY <1>1 DEF ServedBy, LegRecord

LEMMA LegEventType ==
  ASSUME NEW v, NEW vehicle \in VehicleRecord
  PROVE  Timed(LegEvent(v, vehicle))
<1>1. vehicle.leg.end \in Nat
  BY DEF VehicleRecord, LegRecord
<1>2. QED
  BY <1>1, EventIsTimed, EventNames DEF LegEvent

(* The two outcomes in which the next leg may start.                       *)
LEMMA NextLegType ==
  ASSUME TypeOK, NEW v \in Vehicles, Pop("LEG_COMPLETED", v),
         NEW ride \in Nat,
         vehicles' = [vehicles EXCEPT ![v] = StartNextLeg(v, Released(v), clock', ride)]
  PROVE  /\ vehicles' \in [Vehicles -> VehicleRecord]
         /\ \A e \in NextLegEvent(v) : Timed(e) /\ e.at > clock'
<1>1. clock' \in Nat
  BY PopType
<1>2. Released(v) \in VehicleRecord /\ Released(v).leg = NoLeg
  BY ReleasedType
<1> DEFINE started == StartNextLeg(v, Released(v), clock', ride)
<1>3. started \in VehicleRecord /\ (started.leg # NoLeg => started.leg.end > clock')
  BY <1>1, <1>2, StartNextLegType
<1> HIDE DEF started
<1>4. vehicles \in [Vehicles -> VehicleRecord] /\ vehicles' = [vehicles EXCEPT ![v] = started]
  BY TypeParts DEF started
<1>5. vehicles' \in [Vehicles -> VehicleRecord] /\ vehicles'[v] = started
  BY <1>3, <1>4
<1>6. \A e \in NextLegEvent(v) : started.leg # NoLeg /\ e = LegEvent(v, started)
  BY <1>5 DEF NextLegEvent
<1>7. Timed(LegEvent(v, started)) /\ LegEvent(v, started).at = started.leg.end
  BY <1>3, LegEventType DEF LegEvent, SimulationEvent
<1>8. QED
  BY <1>3, <1>5, <1>6, <1>7

LEMMA LegCompletedType ==
  ASSUME TypeOK, NEW v \in Vehicles, LegCompleted(v)
  PROVE  TypeOK'
<1>1. Pop("LEG_COMPLETED", v) /\ UNCHANGED <<offers, idleSince, finalized>>
  BY DEF LegCompleted, LegEnds
<1>2. clock' \in Nat /\ priority' \in 0..9 /\ \A e \in Rest("LEG_COMPLETED", v) : Timed(e)
  BY <1>1, PopType
<1>3. vehicles' \in [Vehicles -> VehicleRecord] /\ \A e \in NextLegEvent(v) : Timed(e)
  <2>1. PICK ride \in PickupEtas :
          vehicles' = [vehicles EXCEPT ![v] = StartNextLeg(v, Released(v), clock', ride)]
    BY DEF LegCompleted
  <2>2. ride \in Nat
    BY NumbersAreNatural
  <2>3. QED
    BY <1>1, <2>1, <2>2, NextLegType
<1>4. requests' \in [Requests -> RequestRecord]
  BY AdvanceType DEF LegCompleted
<1>5. index' \in IndexRecord
  BY ServedByType, TypeParts DEF LegCompleted, IndexRecord
<1>6. book' \in [Requests -> Vehicles \cup {NoVehicle}]
  BY TypeParts DEF LegCompleted
<1>7. QueueType'
  BY <1>2, <1>3 DEF LegCompleted, QueueType
<1>8. QED
  BY <1>1, <1>2, <1>3, <1>4, <1>5, <1>6, <1>7, TypeParts, TypePartsNext

LEMMA LegCompletedPromoteType ==
  ASSUME TypeOK, NEW v \in Vehicles, LegCompletedPromote(v)
  PROVE  TypeOK'
<1>1. Pop("LEG_COMPLETED", v) /\ UNCHANGED <<offers, idleSince, finalized>>
  BY DEF LegCompletedPromote, LegEnds
<1>2. clock' \in Nat /\ priority' \in 0..9 /\ \A e \in Rest("LEG_COMPLETED", v) : Timed(e)
  BY <1>1, PopType
<1>3. vehicles' \in [Vehicles -> VehicleRecord] /\ \A e \in NextLegEvent(v) : Timed(e)
  <2>1. PICK eta \in PickupEtas :
          vehicles' = [vehicles EXCEPT ![v] = StartNextLeg(v, Released(v), clock', eta)]
    BY DEF LegCompletedPromote
  <2>2. eta \in Nat
    BY NumbersAreNatural
  <2>3. QED
    BY <1>1, <2>1, <2>2, NextLegType
<1>4. requests' \in [Requests -> RequestRecord]
  BY AdvanceType DEF LegCompletedPromote
<1>5. index' \in IndexRecord
  BY ServedByType, TypeParts DEF LegCompletedPromote, IndexRecord
<1>6. book' \in [Requests -> Vehicles \cup {NoVehicle}]
  BY TypeParts DEF LegCompletedPromote
<1>7. QueueType'
  BY <1>2, <1>3 DEF LegCompletedPromote, QueueType
<1>8. QED
  BY <1>1, <1>2, <1>3, <1>4, <1>5, <1>6, <1>7, TypeParts, TypePartsNext

LEMMA LegCompletedInvalidateType ==
  ASSUME TypeOK, NEW v \in Vehicles, LegCompletedInvalidate(v)
  PROVE  TypeOK'
<1>1. Pop("LEG_COMPLETED", v) /\ UNCHANGED <<offers, idleSince, finalized>>
  BY DEF LegCompletedInvalidate, LegEnds
<1>2. clock' \in Nat /\ priority' \in 0..9 /\ \A e \in Rest("LEG_COMPLETED", v) : Timed(e)
  BY <1>1, PopType
<1>3. vehicles' \in [Vehicles -> VehicleRecord]
  BY ReleasedType, TypeParts DEF LegCompletedInvalidate
<1>4. requests' \in [Requests -> RequestRecord]
  BY AdvanceType DEF LegCompletedInvalidate
<1>5. index' \in IndexRecord
  BY ServedByType, TypeParts DEF LegCompletedInvalidate, IndexRecord
<1>6. book' \in [Requests -> Vehicles \cup {NoVehicle}]
  BY TypeParts DEF LegCompletedInvalidate
<1>7. QueueType'
  BY <1>2, EventIsTimed, EventNames DEF LegCompletedInvalidate, QueueType
<1>8. QED
  BY <1>1, <1>2, <1>3, <1>4, <1>5, <1>6, <1>7, TypeParts, TypePartsNext

(* A reservation is released: the plan loses its stops.                    *)
LEMMA ReleaseReservationStateType ==
  ASSUME TypeOK, NEW r \in Requests, ReleaseReservationState(r)
  PROVE  /\ vehicles' \in [Vehicles -> VehicleRecord]
         /\ requests' \in [Requests -> RequestRecord]
         /\ index' \in IndexRecord
         /\ book' \in [Requests -> Vehicles \cup {NoVehicle}]
<1> DEFINE v == requests[r].reserved
           back == IF requests[r].status = "RESERVED" THEN {r} ELSE {}
           freed == IF back = {} THEN requests[r] ELSE Transition(requests[r], "PENDING")
<1>1. requests[r] \in RequestRecord /\ v \in Vehicles \cup {NoVehicle}
  BY TypeParts DEF RequestRecord
<1>2. vehicles' \in [Vehicles -> VehicleRecord]
  <2>1. CASE v = NoVehicle
    BY <2>1, TypeParts DEF ReleaseReservationState
  <2>2. CASE v # NoVehicle
    <3>1. v \in Vehicles /\ vehicles[v] \in VehicleRecord
      BY <1>1, <2>2, TypeParts
    <3>2. vehicles[v].plan \in Seq(PlanStop)
      BY <3>1 DEF VehicleRecord
    <3>3. WithoutStops(vehicles[v].plan, r) \in Seq(PlanStop)
      BY <3>2, WithoutStopsType
    <3> DEFINE plan == WithoutStops(vehicles[v].plan, r)
    <3>4. vehicles' = [vehicles EXCEPT ![v].plan = plan, ![v].reserved = NoRequest]
      BY <2>2 DEF ReleaseReservationState
    <3> HIDE DEF plan, v
    <3>5. [vehicles[v] EXCEPT !.plan = plan, !.reserved = NoRequest] \in VehicleRecord
      BY <3>1, <3>3 DEF plan, VehicleRecord
    <3>6. vehicles \in [Vehicles -> VehicleRecord]
      BY TypeParts
    <3>7. vehicles' = [vehicles EXCEPT ![v] =
                         [vehicles[v] EXCEPT !.plan = plan, !.reserved = NoRequest]]
      BY <3>1, <3>4, <3>6
    <3>8. QED
      BY <3>5, <3>6, <3>7
  <2>3. QED
    BY <2>1, <2>2
<1>3. requests' \in [Requests -> RequestRecord]
  <2>1. freed \in RequestRecord
    BY <1>1, TransitionType, StatusNames
  <2>2. [freed EXCEPT !.reserved = NoVehicle] \in RequestRecord
    BY <2>1, PointerType
  <2>3. requests' = [requests EXCEPT ![r] = [freed EXCEPT !.reserved = NoVehicle]]
    BY DEF ReleaseReservationState
  <2> HIDE DEF freed
  <2>4. QED
    BY <2>2, <2>3, TypeParts
<1>4. index' \in IndexRecord
  BY TypeParts DEF ReleaseReservationState, IndexRelease, IndexRecord
<1>5. book' \in [Requests -> Vehicles \cup {NoVehicle}]
  BY TypeParts DEF ReleaseReservationState
<1>6. QED
  BY <1>2, <1>3, <1>4, <1>5

LEMMA ReservationEventType ==
  ASSUME TypeOK, NEW r \in Requests,
         ReservationExpired(r) \/ StaleReservationExpiry(r) \/ PlanInvalidated(r)
  PROVE  TypeOK'
<1>1. PICK kind \in {"RESERVATION_EXPIRED", "PLAN_INVALIDATED"} :
        Pop(kind, r) /\ events' = Rest(kind, r)
  BY DEF ReservationExpired, StaleReservationExpiry, PlanInvalidated
<1>2. clock' \in Nat /\ priority' \in 0..9 /\ QueueType'
  BY <1>1, PopType DEF QueueType
<1>3. UNCHANGED <<offers, idleSince, finalized>>
  BY DEF ReservationExpired, StaleReservationExpiry, PlanInvalidated
<1>4. /\ vehicles' \in [Vehicles -> VehicleRecord]
      /\ requests' \in [Requests -> RequestRecord]
      /\ index' \in IndexRecord
      /\ book' \in [Requests -> Vehicles \cup {NoVehicle}]
  BY ReleaseReservationStateType, TypeParts
     DEF ReservationExpired, StaleReservationExpiry, PlanInvalidated
<1>5. QED
  BY <1>2, <1>3, <1>4, TypeParts, TypePartsNext
(* DRIVER_RESPONSE.                                                        *)
LEMMA RespondType ==
  ASSUME TypeOK, NEW o \in offers, Respond(o)
  PROVE  /\ o \in OfferRecord /\ o.request \in Requests /\ o.vehicle \in Vehicles
         /\ vehicles[o.vehicle] \in VehicleRecord
         /\ clock' \in Nat /\ priority' \in 0..9
         /\ \A e \in Rest("DRIVER_RESPONSE", <<o.request, o.vehicle>>) : Timed(e)
         /\ offers' \subseteq OfferRecord
         /\ UNCHANGED <<idleSince, finalized>>
<1>1. o \in OfferRecord /\ offers' \subseteq OfferRecord
  BY TypeParts DEF Respond
<1>2. o.request \in Requests /\ o.vehicle \in Vehicles
  BY <1>1 DEF OfferRecord, Vehicles
<1>3. clock' \in Nat /\ priority' \in 0..9
        /\ \A e \in Rest("DRIVER_RESPONSE", <<o.request, o.vehicle>>) : Timed(e)
  BY PopType DEF Respond
<1>4. QED
  BY <1>1, <1>2, <1>3, TypeParts DEF Respond

LEMMA BackToPendingType ==
  ASSUME TypeOK, NEW o \in offers, Respond(o), BackToPending(o),
         vehicles' \in [Vehicles -> VehicleRecord]
  PROVE  TypeOK'
<1>1. requests' \in [Requests -> RequestRecord]
  BY RespondType, LifecycleType, TypeParts, StatusNames, TransitionType
     DEF BackToPending, RejectOffer
<1>2. index' \in IndexRecord
  BY RespondType, IndexType, TypeParts DEF BackToPending
<1>3. QueueType'
  BY RespondType DEF BackToPending, OnlyResponse, QueueType
<1>4. QED
  BY <1>1, <1>2, <1>3, RespondType, TypeParts, TypePartsNext DEF BackToPending

LEMMA StopsWaitingType ==
  ASSUME TypeOK, NEW o \in offers, Respond(o), StopsWaiting(o)
  PROVE  vehicles' \in [Vehicles -> VehicleRecord]
<1>1. o.vehicle \in Vehicles /\ vehicles[o.vehicle] \in VehicleRecord
  BY RespondType
<1>2. [vehicles[o.vehicle] EXCEPT !.status = Parked(o.vehicle, clock')] \in VehicleRecord
  BY <1>1, ParkedType DEF VehicleRecord
<1>3. QED
  BY <1>1, <1>2, TypeParts DEF StopsWaiting

LEMMA RejectionType ==
  ASSUME TypeOK, NEW o \in offers,
         ResponseTimeout(o) \/ VehicleNotWaiting(o) \/ DriverRejects(o) \/ InsertsTooLate(o)
  PROVE  TypeOK'
<1>1. Respond(o) /\ BackToPending(o)
  BY DEF ResponseTimeout, VehicleNotWaiting, DriverRejects, InsertsTooLate
<1>2. StopsWaiting(o) \/ UNCHANGED vehicles
  BY DEF ResponseTimeout, VehicleNotWaiting, DriverRejects, InsertsTooLate
<1>3. vehicles' \in [Vehicles -> VehicleRecord]
  BY <1>1, <1>2, StopsWaitingType, TypeParts
<1>4. QED
  BY <1>1, <1>3, BackToPendingType

LEMMA AcceptsReservationType ==
  ASSUME TypeOK, NEW o \in offers, AcceptsReservation(o)
  PROVE  TypeOK'
<1>1. Respond(o)
  BY DEF AcceptsReservation
<1>2. requests' \in [Requests -> RequestRecord]
  <2>1. Reserve(requests[o.request], o.vehicle) \in RequestRecord
    BY <1>1, RespondType, LifecycleType, TypeParts
  <2>2. QED
    BY <2>1, <1>1, RespondType, TypeParts DEF AcceptsReservation
<1>3. vehicles' \in [Vehicles -> VehicleRecord]
  <2>1. o.plan \in Seq(PlanStop)
    BY <1>1, RespondType DEF OfferRecord
  <2>2. [vehicles[o.vehicle] EXCEPT !.reserved = o.request, !.plan = o.plan] \in VehicleRecord
    BY <1>1, <2>1, RespondType DEF VehicleRecord
  <2>3. vehicles' = [vehicles EXCEPT ![o.vehicle] =
                       [vehicles[o.vehicle] EXCEPT !.reserved = o.request, !.plan = o.plan]]
    BY <1>1, RespondType, TypeParts DEF AcceptsReservation
  <2>4. QED
    BY <2>2, <2>3, <1>1, RespondType, TypeParts
<1>4. index' \in IndexRecord /\ book' \in [Requests -> Vehicles \cup {NoVehicle}]
  BY <1>1, RespondType, IndexType, TypeParts DEF AcceptsReservation
<1>5. QueueType'
  BY <1>1, RespondType, EventIsTimed, EventNames, NumbersAreNatural
     DEF AcceptsReservation, QueueType
<1>6. QED
  BY <1>1, <1>2, <1>3, <1>4, <1>5, RespondType, TypeParts, TypePartsNext

(* An accepted plan starts with the pickup of its request.                 *)
LEMMA AcceptedLeg ==
  ASSUME TypeOK, NEW o \in offers, AcceptsAssignment(o)
  PROVE  /\ vehicles' \in [Vehicles -> VehicleRecord]
         /\ vehicles'[o.vehicle].leg.end > clock'
<1>1. Respond(o) /\ ~o.preassigned
  BY DEF AcceptsAssignment
<1>2. o.plan = AssignmentPlan(o.request) /\ o.eta \in Nat
  BY <1>1, RespondType DEF OfferRecord
<1>3. o.plan \in Seq(PlanStop) /\ o.plan # <<>>
  BY <1>1, <1>2, RespondType, PlanType
<1> DEFINE planned == [vehicles[o.vehicle] EXCEPT !.plan = o.plan]
           started == StartNextLeg(o.vehicle, planned, clock', o.eta)
<1>4. planned \in VehicleRecord /\ planned.plan = o.plan
  BY <1>1, <1>3, RespondType DEF VehicleRecord
<1>5. started \in VehicleRecord /\ started.leg.end > clock'
  <2> HIDE DEF planned
  <2>1. QED
    BY <1>1, <1>2, <1>3, <1>4, RespondType, StartNextLegType
<1>6. vehicles' = [vehicles EXCEPT ![o.vehicle] = started]
  BY DEF AcceptsAssignment
<1> HIDE DEF started
<1>7. QED
  BY <1>1, <1>5, <1>6, RespondType, TypeParts

LEMMA AcceptsAssignmentType ==
  ASSUME TypeOK, NEW o \in offers, AcceptsAssignment(o)
  PROVE  TypeOK'
<1>1. Respond(o)
  BY DEF AcceptsAssignment
<1>2. vehicles' \in [Vehicles -> VehicleRecord] /\ vehicles'[o.vehicle] \in VehicleRecord
  BY <1>1, AcceptedLeg, RespondType
<1>3. requests' \in [Requests -> RequestRecord]
  <2>1. Assign(requests[o.request], o.vehicle) \in RequestRecord
    BY <1>1, RespondType, LifecycleType, TypeParts
  <2>2. StartRequest(Assign(requests[o.request], o.vehicle), o.vehicle, Head(o.plan))
          \in RequestRecord
    BY <1>1, <2>1, RespondType, RideType
  <2>3. QED
    BY <2>2, <1>1, RespondType, TypeParts DEF AcceptsAssignment
<1>4. index' \in IndexRecord
  BY <1>1, RespondType, IndexType, TypeParts DEF AcceptsAssignment
<1>5. QueueType'
  BY <1>1, <1>2, RespondType, LegEventType DEF AcceptsAssignment, QueueType
<1>6. QED
  BY <1>1, <1>2, <1>3, <1>4, <1>5, RespondType, TypeParts, TypePartsNext DEF AcceptsAssignment
(* DECISION_EPOCH: what an epoch may choose.                               *)
LEMMA EpochChoices ==
  ASSUME TypeOK, NEW moved \in IdleMovements, NEW M \in Matchings(moved),
         NEW P \in Preassignments(M)
  PROVE  /\ moved \subseteq Vehicles
         /\ OutOfPatience \subseteq Requests
         /\ \A e \in M : /\ e.request \in Requests \ OutOfPatience
                         /\ e.vehicle \in Vehicles \ moved
                         /\ e.eta \in Nat
         /\ \A e, f \in M : e.request = f.request \/ e.vehicle = f.vehicle => e = f
         /\ \A e \in P : /\ e.request \in Requests \ OutOfPatience
                         /\ e.vehicle \in Vehicles \ moved
                         /\ \A m \in M : m.request # e.request /\ m.vehicle # e.vehicle
         /\ \A e, f \in P : e.request = f.request => e = f
<1>1. index.pending \subseteq Requests
  BY TypeParts DEF IndexRecord
<1>2. Waiting \subseteq Requests /\ OutOfPatience \subseteq Requests
  BY <1>1 DEF Waiting, OutOfPatience
<1>3. moved \subseteq IdleVehicles /\ IdleVehicles \subseteq Vehicles
  BY DEF IdleMovements, IdleVehicles, Rested
<1>4. \A e \in MatchEdges(moved) : /\ e.request \in Requests \ OutOfPatience
                                  /\ e.vehicle \in IdleVehicles \ moved
                                  /\ e.eta \in Nat
  BY <1>2, NumbersAreNatural DEF MatchEdges
<1>5. \A e \in PreassignEdges(M) : /\ e.request \in Requests \ OutOfPatience
                                  /\ e.vehicle \in Vehicles \ IdleVehicles
                                  /\ \A m \in M : m.request # e.request
  BY <1>2 DEF PreassignEdges, Releasing, IdleVehicles
<1>6. M \subseteq MatchEdges(moved)
        /\ \A e, f \in M : e.request = f.request \/ e.vehicle = f.vehicle => e = f
  BY DEF Matchings
<1>7. P \subseteq PreassignEdges(M) /\ \A e, f \in P : e.request = f.request => e = f
  BY DEF Preassignments
<1>8. QED
  BY <1>2, <1>3, <1>4, <1>5, <1>6, <1>7

LEMMA EdgeChosen ==
  ASSUME NEW S, NEW e \in S
  PROVE  /\ EdgeOf(S, e.request) \in S /\ EdgeOf(S, e.request).request = e.request
         /\ EdgeTo(S, e.vehicle) \in S /\ EdgeTo(S, e.vehicle).vehicle = e.vehicle
  BY DEF EdgeOf, EdgeTo

LEMMA EpochRequestType ==
  ASSUME TypeOK, NEW moved \in IdleMovements, NEW M \in Matchings(moved),
         NEW P \in Preassignments(M), NEW r \in Requests
  PROVE  EpochRequest(r, M, P) \in RequestRecord
<1>1. requests[r] \in RequestRecord
  BY TypeParts
<1>2. CASE r \in OutOfPatience
  <2>1. r \notin RequestsOf(M) /\ r \notin RequestsOf(P)
    BY <1>2, EpochChoices DEF RequestsOf
  <2>2. EpochRequest(r, M, P) = Transition(requests[r], "CANCELLED")
    BY <1>2, <2>1, Zenon DEF EpochRequest
  <2>3. QED
    BY <1>1, <2>2, TransitionType, StatusNames
<1>3. CASE r \notin OutOfPatience /\ r \in RequestsOf(M)
  <2> DEFINE e == EdgeOf(M, r)
             chosen == [requests[r] EXCEPT !.econ = e.vehicle]
  <2>1. e \in M /\ e.vehicle \in Vehicles
    BY <1>3, EdgeChosen, EpochChoices DEF RequestsOf
  <2> HIDE DEF e
  <2>2. chosen \in RequestRecord
    BY <1>1, <2>1, PointerType
  <2> HIDE DEF chosen
  <2>3. Offer(chosen) \in RequestRecord /\ Assign(chosen, e.vehicle) \in RequestRecord
    BY <2>1, <2>2, LifecycleType
  <2>4. StartRequest(Assign(chosen, e.vehicle), e.vehicle, Stop("PICKUP", e.request))
          \in RequestRecord
    BY <2>1, <2>3, RideType
  <2>5. Matched(requests[r], e) \in RequestRecord
    BY <2>3, <2>4 DEF Matched, chosen
  <2>6. r \notin RequestsOf(P)
    BY <1>3, EpochChoices DEF RequestsOf
  <2>7. EpochRequest(r, M, P) = Matched(requests[r], e)
    BY <1>3, <2>6, Zenon DEF EpochRequest, e
  <2>8. QED
    BY <2>5, <2>7
<1>4. CASE r \notin OutOfPatience /\ r \notin RequestsOf(M) /\ r \in RequestsOf(P)
  <2> DEFINE e == EdgeOf(P, r)
             chosen == [requests[r] EXCEPT !.econ = e.vehicle]
  <2>1. e \in P /\ e.vehicle \in Vehicles
    BY <1>4, EdgeChosen, EpochChoices DEF RequestsOf
  <2> HIDE DEF e
  <2>2. chosen \in RequestRecord
    BY <1>1, <2>1, PointerType
  <2> HIDE DEF chosen
  <2>3. Offer(chosen) \in RequestRecord /\ Reserve(chosen, e.vehicle) \in RequestRecord
    BY <2>1, <2>2, LifecycleType
  <2>4. RejectOffer(Offer(chosen)) \in RequestRecord
    BY <2>3, TransitionType, StatusNames DEF RejectOffer
  <2>5. [chosen EXCEPT !.status = "RAISED"] \in RequestRecord
    BY <2>2, StatusNames DEF RequestRecord
  <2>6. Preassigned(requests[r], e)
          \in {RejectOffer(Offer(chosen)), Offer(chosen), Reserve(chosen, e.vehicle),
               [chosen EXCEPT !.status = "RAISED"]}
    <3>1. ~(e.vehicle \in HVs /\ e.vehicle \in AVs) /\ (TooLate(e) => e.vehicle \in HVs)
      BY KindsAssumption DEF TooLate
    <3>2. QED
      BY <3>1, Zenon DEF Preassigned, chosen
  <2>7. EpochRequest(r, M, P) = Preassigned(requests[r], e)
    BY <1>4, Zenon DEF EpochRequest, e
  <2>8. QED
    BY <2>3, <2>4, <2>5, <2>6, <2>7
<1>5. CASE r \notin OutOfPatience /\ r \notin RequestsOf(M) /\ r \notin RequestsOf(P)
  <2>1. EpochRequest(r, M, P) = requests[r]
    BY <1>5, Zenon DEF EpochRequest
  <2>2. QED
    BY <1>1, <2>1
<1>6. QED
  BY <1>2, <1>3, <1>4, <1>5

(* The vehicles of an epoch: those that are moved, and the AVs that are    *)
(* matched, get a leg that ends later.                                     *)
LEMMA EpochVehicleType ==
  ASSUME TypeOK, clock' \in Nat, NEW moved \in IdleMovements,
         NEW ride \in [moved -> MoveTimes], NEW M \in Matchings(moved),
         NEW P \in Preassignments(M), NEW v \in Vehicles
  PROVE  /\ EpochVehicle(v, moved, ride, M, P) \in VehicleRecord
         /\ v \in moved \cup {e.vehicle : e \in OfAVs(M)} =>
              EpochVehicle(v, moved, ride, M, P).leg.end > clock'
<1> DEFINE offered == \E e \in OfHVs(M) : e.vehicle = v
           assigned == \E e \in OfAVs(M) : e.vehicle = v
           queued == \E e \in OfAVs(P) : e.vehicle = v
<1>1. vehicles[v] \in VehicleRecord
  BY TypeParts
<1>a. v \in moved => ~offered /\ ~assigned /\ ~queued
  BY EpochChoices DEF OfHVs, OfAVs
<1>b. offered => ~assigned /\ ~queued
  BY EpochChoices, KindsAssumption DEF OfHVs, OfAVs
<1>c. assigned => ~queued
  BY EpochChoices DEF OfHVs, OfAVs
<1>2. CASE v \in moved
  <2> DEFINE planned == [vehicles[v] EXCEPT !.plan = MovementPlan(v)]
  <2>1. planned \in VehicleRecord /\ planned.plan # <<>>
    BY <1>1, MovementPlanType DEF VehicleRecord
  <2>2. ride[v] \in Nat
    BY <1>2, NumbersAreNatural
  <2>3. EpochVehicle(v, moved, ride, M, P) = StartNextLeg(v, planned, clock', ride[v])
    BY <1>2, <1>a, Zenon DEF EpochVehicle
  <2> HIDE DEF planned
  <2>4. QED
    BY <2>1, <2>2, <2>3, StartNextLegType
<1>3. CASE v \notin moved /\ offered
  <2>1. EpochVehicle(v, moved, ride, M, P) = [vehicles[v] EXCEPT !.status = "WAITING"]
    BY <1>3, <1>b, Zenon DEF EpochVehicle
  <2>2. EpochVehicle(v, moved, ride, M, P) \in VehicleRecord
    BY <1>1, <2>1 DEF VehicleRecord
  <2>3. v \notin {e.vehicle : e \in OfAVs(M)}
    BY <1>3, <1>b
  <2>4. QED
    BY <1>3, <2>2, <2>3
<1>4. CASE v \notin moved /\ ~offered /\ assigned
  <2> DEFINE e == EdgeTo(M, v)
             planned == [vehicles[v] EXCEPT !.plan = AssignmentPlan(e.request)]
  <2>1. e \in M
    BY <1>4, EdgeChosen DEF OfAVs
  <2>2. e.request \in Requests /\ e.eta \in Nat
    BY <2>1, EpochChoices
  <2> HIDE DEF e
  <2>3. AssignmentPlan(e.request) \in Seq(PlanStop) /\ AssignmentPlan(e.request) # <<>>
    BY <2>2, PlanType
  <2>4. planned \in VehicleRecord /\ planned.plan # <<>>
    BY <1>1, <2>3 DEF VehicleRecord
  <2>5. EpochVehicle(v, moved, ride, M, P) = StartNextLeg(v, planned, clock', e.eta)
    BY <1>4, <1>c, Zenon DEF EpochVehicle, e
  <2> HIDE DEF planned
  <2>6. QED
    BY <2>2, <2>4, <2>5, StartNextLegType
<1>5. CASE v \notin moved /\ ~offered /\ ~assigned
  <2>1. v \notin moved \cup {e.vehicle : e \in OfAVs(M)}
    BY <1>5
  <2>2. CASE queued
    <3> DEFINE e == EdgeTo(OfAVs(P), v)
    <3>1. e \in OfAVs(P)
      BY <2>2, EdgeChosen
    <3>2. e.request \in Requests
      BY <3>1, EpochChoices DEF OfAVs
    <3> HIDE DEF e
    <3>3. vehicles[v].plan \in Seq(PlanStop)
      BY <1>1 DEF VehicleRecord
    <3> DEFINE plan == InsertAfterLockedStops(vehicles[v].plan, e.request)
    <3>4. plan \in Seq(PlanStop)
      BY <3>2, <3>3, InsertionPlanType
    <3>5. EpochVehicle(v, moved, ride, M, P)
            = [vehicles[v] EXCEPT !.reserved = e.request, !.plan = plan]
      BY <1>5, <2>2, Zenon DEF EpochVehicle, e
    <3> HIDE DEF plan
    <3>6. [vehicles[v] EXCEPT !.reserved = e.request, !.plan = plan] \in VehicleRecord
      BY <1>1, <3>2, <3>4 DEF VehicleRecord
    <3>7. QED
      BY <2>1, <3>5, <3>6
  <2>3. CASE ~queued
    <3>1. EpochVehicle(v, moved, ride, M, P) = vehicles[v]
      BY <1>5, <2>3, Zenon DEF EpochVehicle
    <3>2. QED
      BY <1>1, <2>1, <3>1
  <2>4. QED
    BY <2>2, <2>3
<1>6. QED
  BY <1>2, <1>3, <1>4, <1>5
LEMMA NewOffersType ==
  ASSUME TypeOK, NEW moved \in IdleMovements, NEW M \in Matchings(moved),
         NEW P \in Preassignments(M)
  PROVE  NewOffers(M, P) \subseteq OfferRecord
<1> DEFINE ordinary(e) == [request |-> e.request, vehicle |-> e.vehicle,
                           preassigned |-> FALSE, eta |-> e.eta,
                           plan |-> AssignmentPlan(e.request)]
           queued(e) == [request |-> e.request, vehicle |-> e.vehicle,
                         preassigned |-> TRUE, eta |-> 0,
                         plan |-> InsertAfterLockedStops(vehicles[e.vehicle].plan, e.request)]
<1>1. ASSUME NEW e \in OfHVs(M) PROVE ordinary(e) \in OfferRecord
  <2>1. e.request \in Requests /\ e.vehicle \in HVs /\ e.eta \in Nat
    BY EpochChoices DEF OfHVs
  <2>2. AssignmentPlan(e.request) \in Seq(PlanStop)
    BY <2>1, PlanType
  <2>3. QED
    BY <2>1, <2>2 DEF OfferRecord
<1>2. ASSUME NEW e \in OfHVs(Queued(P)) PROVE queued(e) \in OfferRecord
  <2>1. e.request \in Requests /\ e.vehicle \in HVs /\ e.vehicle \in Vehicles
    BY EpochChoices DEF OfHVs, Queued
  <2>2. vehicles[e.vehicle].plan \in Seq(PlanStop)
    BY <2>1, TypeParts DEF VehicleRecord
  <2>3. InsertAfterLockedStops(vehicles[e.vehicle].plan, e.request) \in Seq(PlanStop)
    BY <2>1, <2>2, InsertionPlanType
  <2>4. QED
    BY <2>1, <2>3 DEF OfferRecord
<1>3. NewOffers(M, P) = {ordinary(e) : e \in OfHVs(M)} \cup {queued(e) : e \in OfHVs(Queued(P))}
  BY DEF NewOffers
<1> HIDE DEF ordinary, queued
<1>4. QED
  BY <1>1, <1>2, <1>3

(* The events an epoch pushes.                                             *)
LEMMA EpochEventsType ==
  ASSUME TypeOK, clock' \in Nat, NEW moved \in IdleMovements, NEW M \in Matchings(moved),
         NEW P \in Preassignments(M), vehicles' \in [Vehicles -> VehicleRecord]
  PROVE  \A e \in EpochEvents(moved, M, P) : Timed(e)
<1>1. ASSUME NEW v \in moved \cup {e.vehicle : e \in OfAVs(M)}
      PROVE  Timed(LegEvent(v, vehicles'[v]))
  <2>1. v \in Vehicles
    BY EpochChoices DEF OfAVs
  <2>2. QED
    BY <2>1, LegEventType
<1>2. ASSUME NEW o
      PROVE  Timed(SimulationEvent(clock' + ResponseDelay, "DRIVER_RESPONSE",
                                   <<o.request, o.vehicle>>))
  <2>1. clock' + ResponseDelay \in Nat
    BY NumbersAreNatural
  <2>2. QED
    BY <2>1, EventIsTimed, EventNames
<1>3. ASSUME NEW r \in RequestsOf(OfAVs(P))
      PROVE  Timed(SimulationEvent(LatestPickup[r], "RESERVATION_EXPIRED", r))
  <2>1. r \in Requests
    BY EpochChoices DEF OfAVs, RequestsOf
  <2>2. QED
    BY <2>1, EventIsTimed, EventNames, NumbersAreNatural
<1>4. QED
  BY <1>1, <1>2, <1>3 DEF EpochEvents

LEMMA DecisionEpochType ==
  ASSUME TypeOK, DecisionEpoch
  PROVE  TypeOK'
<1>1. PICK moved \in IdleMovements :
        \E ride \in [moved -> MoveTimes], M \in Matchings(moved) :
        \E P \in Preassignments(M) : Decide(moved, ride, M, P)
  BY DEF DecisionEpoch
<1>2. PICK ride \in [moved -> MoveTimes], M \in Matchings(moved) :
        \E P \in Preassignments(M) : Decide(moved, ride, M, P)
  BY <1>1
<1>3. PICK P \in Preassignments(M) : Decide(moved, ride, M, P)
  BY <1>2
<1>4. /\ clock' \in Nat /\ priority' \in 0..9 /\ UNCHANGED finalized
      /\ \A e \in Rest("DECISION_EPOCH", FleetController) : Timed(e)
  BY PopType DEF DecisionEpoch
<1>5. requests' \in [Requests -> RequestRecord]
  <2>1. \A r \in Requests : EpochRequest(r, M, P) \in RequestRecord
    BY EpochRequestType
  <2>2. QED
    BY <1>3, <2>1 DEF Decide
<1>6. vehicles' \in [Vehicles -> VehicleRecord]
  <2>1. \A v \in Vehicles : EpochVehicle(v, moved, ride, M, P) \in VehicleRecord
    BY <1>4, EpochVehicleType
  <2>2. QED
    BY <1>3, <2>1 DEF Decide
<1>7. index' \in IndexRecord
  <2> DEFINE offered == RequestsOf(OfHVs(M) \cup OfHVs(Queued(P)))
             assigned == RequestsOf(OfAVs(M))
             held == RequestsOf(OfAVs(P))
  <2>1. offered \subseteq Requests /\ assigned \subseteq Requests
          /\ held \subseteq Requests /\ OutOfPatience \subseteq Requests
    BY EpochChoices DEF RequestsOf, OfHVs, OfAVs, Queued
  <2>2. index' = IndexReserve(IndexAssign(IndexOffer(IndexExpire(index, OutOfPatience),
                                                     offered), assigned), held)
    BY <1>3 DEF Decide
  <2> HIDE DEF offered, assigned, held
  <2>3. index \in IndexRecord
    BY TypeParts
  <2>4. IndexExpire(index, OutOfPatience) \in IndexRecord
    BY <2>1, <2>3, IndexType
  <2>5. IndexOffer(IndexExpire(index, OutOfPatience), offered) \in IndexRecord
    BY <2>1, <2>4, IndexType
  <2>6. IndexAssign(IndexOffer(IndexExpire(index, OutOfPatience), offered), assigned)
          \in IndexRecord
    BY <2>1, <2>5, IndexType
  <2>7. QED
    BY <2>1, <2>2, <2>6, IndexType
<1>8. offers' \subseteq OfferRecord
  BY <1>3, NewOffersType, TypeParts DEF Decide
<1>9. book' \in [Requests -> Vehicles \cup {NoVehicle}]
  <2>1. \A r \in RequestsOf(OfAVs(P)) : EdgeOf(P, r).vehicle \in Vehicles
    <3>1. \A r \in RequestsOf(OfAVs(P)) : EdgeOf(P, r) \in P
      BY EdgeChosen DEF RequestsOf, OfAVs
    <3>2. QED
      BY <3>1, EpochChoices
  <2>2. QED
    BY <1>3, <2>1, TypeParts DEF Decide
<1>10. QueueType'
  <2>1. \A e \in EpochEvents(moved, M, P) : Timed(e)
    BY <1>4, <1>6, EpochEventsType
  <2>2. QED
    BY <1>3, <1>4, <2>1 DEF Decide, QueueType
<1>11. idleSince' \in [HVs -> Nat \cup {NoTime}]
  <2>1. \A v \in HVs : IdleClock(v) \in Nat \cup {NoTime}
    BY <1>4, TypeParts DEF IdleClock
  <2>2. QED
    BY <1>3, <2>1, TypeParts DEF Decide
<1>12. QED
  BY <1>4, <1>5, <1>6, <1>7, <1>8, <1>9, <1>10, <1>11, TypeParts, TypePartsNext

(* The end of the day.                                                     *)
LEMMA FinalizeType ==
  ASSUME TypeOK, Finalize
  PROVE  TypeOK'
<1>1. requests' \in [Requests -> RequestRecord]
  <2>1. \A r \in Requests : requests[r] \in RequestRecord
                              /\ Transition(requests[r], "CANCELLED") \in RequestRecord
    BY TypeParts, TransitionType, StatusNames
  <2>2. QED
    BY <2>1 DEF Finalize
<1>2. index' \in IndexRecord
  BY TypeParts DEF Finalize, IndexRecord
<1>3. book' \in [Requests -> Vehicles \cup {NoVehicle}]
  BY TypeParts DEF Finalize
<1>4. finalized' \in BOOLEAN /\ UNCHANGED <<clock, priority, events, vehicles, offers, idleSince>>
  BY DEF Finalize
<1>5. QueueType'
  BY <1>4, TypeParts DEF QueueType
<1>6. QED
  BY <1>1, <1>2, <1>3, <1>4, <1>5, TypeParts, TypePartsNext

LEMMA InitType ==
  ASSUME Init
  PROVE  TypeOK
<1>1. \A e \in events : Timed(e)
  BY EventIsTimed, EventNames, NumbersAreNatural DEF Init
<1>2. requests \in [Requests -> RequestRecord]
  BY StatusNames DEF Init, RequestRecord
<1>3. vehicles \in [Vehicles -> VehicleRecord]
  <2>1. NoLeg \in LegRecord
    BY DEF NoLeg, LegRecord
  <2>2. <<>> \in Seq(PlanStop)
    OBVIOUS
  <2>3. QED
    BY <2>1, <2>2 DEF Init, VehicleRecord
<1>4. index \in IndexRecord
  BY DEF Init, IndexRecord
<1>5. /\ clock \in Nat /\ priority \in 0..9 /\ offers \subseteq OfferRecord
      /\ book \in [Requests -> Vehicles \cup {NoVehicle}]
      /\ idleSince \in [HVs -> Nat \cup {NoTime}] /\ finalized \in BOOLEAN
  <2>1. clock = 0 /\ priority = 0 /\ offers = {} /\ finalized = FALSE
    BY DEF Init
  <2>2. book = [r \in Requests |-> NoVehicle] /\ idleSince = [v \in HVs |-> NoTime]
    BY DEF Init
  <2>3. finalized \in BOOLEAN
    BY <2>1, Zenon
  <2>4. QED
    BY <2>1, <2>2, <2>3
<1>6. QED
  BY <1>1, <1>2, <1>3, <1>4, <1>5, TypeParts DEF QueueType

LEMMA StutterType ==
  ASSUME TypeOK, UNCHANGED vars
  PROVE  TypeOK'
  BY TypeParts, TypePartsNext DEF vars, QueueType

(* One step per action.                                                    *)
LEMMA NextType ==
  ASSUME TypeOK, [Next]_vars
  PROVE  TypeOK'
<1>1. CASE \E r \in Requests : RequestRevealed(r)
  BY <1>1, RequestRevealedType
<1>2. CASE \E v \in Vehicles : SessionStart(v) \/ SessionEnd(v)
  BY <1>2, SessionEventType DEF SessionStart, SessionEnd
<1>3. CASE \E v \in Vehicles : LegCompleted(v) \/ LegCompletedPromote(v)
                                                \/ LegCompletedInvalidate(v)
  BY <1>3, LegCompletedType, LegCompletedPromoteType, LegCompletedInvalidateType
<1>4. CASE \E r \in Requests : ReservationExpired(r) \/ StaleReservationExpiry(r)
                                                     \/ PlanInvalidated(r)
  BY <1>4, ReservationEventType
<1>5. CASE \E o \in offers : ResponseTimeout(o) \/ VehicleNotWaiting(o) \/ DriverRejects(o)
                               \/ InsertsTooLate(o)
  BY <1>5, RejectionType
<1>6. CASE \E o \in offers : AcceptsReservation(o) \/ AcceptsAssignment(o)
  BY <1>6, AcceptsReservationType, AcceptsAssignmentType
<1>7. CASE DecisionEpoch
  BY <1>7, DecisionEpochType
<1>8. CASE Finalize
  BY <1>8, FinalizeType
<1>9. CASE Returned \/ UNCHANGED vars
  BY <1>9, StutterType DEF Returned
<1>10. QED
  BY <1>1, <1>2, <1>3, <1>4, <1>5, <1>6, <1>7, <1>8, <1>9 DEF Next

(* The engine's state keeps its types in every run of every fleet: the     *)
(* handlers of run() never leave a record, plan, offer or index malformed. *)
THEOREM TypeCorrectness == Spec => []TypeOK
<1>1. Init => TypeOK
  BY InitType
<1>2. TypeOK /\ [Next]_vars => TypeOK'
  BY NextType
<1>3. QED
  BY <1>1, <1>2, PTL DEF Spec
-----------------------------------------------------------------------------
(* Events are handled in order.  The strengthening: nothing in the queue   *)
(* should have been handled before the last event, unless the run is over. *)
Follows(e, t, p) == NoLaterThan(t, p, e.at, EventPriority[e.kind])
Ordered == ~finalized /\ ~Raised => \A e \in events : Follows(e, clock, priority)

(* A step that handles an event of this kind and pushes nothing overdue.   *)
Handles(kind, id) ==
  /\ Pop(kind, id)
  /\ ~Raised' => \A e \in events' : e \in Rest(kind, id) \/ Follows(e, clock', priority')

LEMMA RidesEndLater ==
  ASSUME NEW v, vehicles'[v].leg.end > clock'
  PROVE  Follows(LegEvent(v, vehicles'[v]), clock', priority')
  BY DEF Follows, LegEvent, SimulationEvent, NoLaterThan

LEMMA LegCompletedHandles ==
  ASSUME TypeOK, NEW v \in Vehicles,
         LegCompleted(v) \/ LegCompletedPromote(v) \/ LegCompletedInvalidate(v)
  PROVE  Handles("LEG_COMPLETED", v)
<1>1. Pop("LEG_COMPLETED", v)
  BY DEF LegCompleted, LegCompletedPromote, LegCompletedInvalidate, LegEnds
<1>2. CASE LegCompletedInvalidate(v)
  <2> DEFINE cleanup == SimulationEvent(clock', "PLAN_INVALIDATED", vehicles[v].reserved)
  <2>1. priority' = 1
    BY <1>1 DEF Pop, EventPriority
  <2>2. Follows(cleanup, clock', priority')
    BY <2>1, <1>1, PopType DEF Follows, NoLaterThan, SimulationEvent, EventPriority
  <2>3. events' = Rest("LEG_COMPLETED", v) \cup {cleanup}
    BY <1>2 DEF LegCompletedInvalidate
  <2> HIDE DEF cleanup
  <2>4. \A e \in events' : e \in Rest("LEG_COMPLETED", v) \/ e = cleanup
    BY <2>3
  <2>5. \A e \in events' : e \in Rest("LEG_COMPLETED", v) \/ Follows(e, clock', priority')
    BY <2>2, <2>4
  <2>6. QED
    BY <1>1, <2>5 DEF Handles
<1>3. CASE LegCompleted(v) \/ LegCompletedPromote(v)
  <2>1. PICK ride \in PickupEtas :
          vehicles' = [vehicles EXCEPT ![v] = StartNextLeg(v, Released(v), clock', ride)]
    BY <1>3 DEF LegCompleted, LegCompletedPromote
  <2>2. ride \in Nat
    BY NumbersAreNatural
  <2>3. \A e \in NextLegEvent(v) : Timed(e) /\ e.at > clock'
    BY <1>1, <2>1, <2>2, NextLegType
  <2>4. \A e \in NextLegEvent(v) : Follows(e, clock', priority')
    BY <1>1, <2>3, PopType DEF Timed, Follows, NoLaterThan
  <2>5. events' = Rest("LEG_COMPLETED", v) \cup NextLegEvent(v)
    BY <1>3 DEF LegCompleted, LegCompletedPromote
  <2>6. QED
    BY <1>1, <2>4, <2>5 DEF Handles
<1>4. QED
  BY <1>2, <1>3

LEMMA ResponseHandles ==
  ASSUME TypeOK, NEW o \in offers,
         \/ ResponseTimeout(o) \/ VehicleNotWaiting(o) \/ DriverRejects(o)
         \/ InsertsTooLate(o) \/ AcceptsReservation(o) \/ AcceptsAssignment(o)
  PROVE  Handles("DRIVER_RESPONSE", <<o.request, o.vehicle>>)
<1> DEFINE id == <<o.request, o.vehicle>>
<1>1. Respond(o) /\ Pop("DRIVER_RESPONSE", id)
  BY DEF ResponseTimeout, VehicleNotWaiting, DriverRejects, InsertsTooLate,
         AcceptsReservation, AcceptsAssignment, Respond
<1>2. CASE ResponseTimeout(o) \/ VehicleNotWaiting(o) \/ DriverRejects(o) \/ InsertsTooLate(o)
  <2>1. events' = Rest("DRIVER_RESPONSE", id)
    BY <1>2 DEF ResponseTimeout, VehicleNotWaiting, DriverRejects, InsertsTooLate,
                BackToPending, OnlyResponse
  <2>2. QED
    BY <1>1, <2>1 DEF Handles
<1>3. CASE AcceptsReservation(o)
  <2> DEFINE expiry == SimulationEvent(LatestPickup[o.request], "RESERVATION_EXPIRED", o.request)
  <2>1. clock' < LatestPickup[o.request]
    BY <1>3 DEF AcceptsReservation, InTime
  <2>2. Follows(expiry, clock', priority')
    BY <2>1 DEF Follows, NoLaterThan, SimulationEvent
  <2>3. events' = Rest("DRIVER_RESPONSE", id) \cup {expiry}
    BY <1>3 DEF AcceptsReservation
  <2> HIDE DEF expiry
  <2>4. \A e \in events' : e \in Rest("DRIVER_RESPONSE", id) \/ e = expiry
    BY <2>3
  <2>5. \A e \in events' : e \in Rest("DRIVER_RESPONSE", id) \/ Follows(e, clock', priority')
    BY <2>2, <2>4
  <2>6. QED
    BY <1>1, <2>5 DEF Handles
<1>4. CASE AcceptsAssignment(o)
  <2> DEFINE arrival == LegEvent(o.vehicle, vehicles'[o.vehicle])
  <2>1. Follows(arrival, clock', priority')
    BY <1>4, AcceptedLeg, RidesEndLater
  <2>2. events' = Rest("DRIVER_RESPONSE", id) \cup {arrival}
    BY <1>4 DEF AcceptsAssignment
  <2> HIDE DEF arrival
  <2>3. \A e \in events' : e \in Rest("DRIVER_RESPONSE", id) \/ e = arrival
    BY <2>2
  <2>4. \A e \in events' : e \in Rest("DRIVER_RESPONSE", id) \/ Follows(e, clock', priority')
    BY <2>1, <2>3
  <2>5. QED
    BY <1>1, <2>4 DEF Handles
<1>5. QED
  BY <1>2, <1>3, <1>4

(* An AV is reserved only before the deadline: later, create raises.       *)
LEMMA ReservedInTime ==
  ASSUME TypeOK, NEW moved \in IdleMovements, NEW M \in Matchings(moved),
         NEW P \in Preassignments(M), NEW r \in RequestsOf(OfAVs(P)),
         requests' = [s \in Requests |-> EpochRequest(s, M, P)], ~Raised'
  PROVE  clock' < LatestPickup[r]
<1>1. PICK e \in P : e.request = r /\ e.vehicle \in AVs
  BY DEF RequestsOf, OfAVs
<1>2. r \in Requests /\ r \notin OutOfPatience /\ r \notin RequestsOf(M) /\ r \in RequestsOf(P)
  BY <1>1, EpochChoices DEF RequestsOf
<1>3. EdgeOf(P, r) = e
  BY <1>1, EdgeChosen, EpochChoices
<1>4. EpochRequest(r, M, P) = Preassigned(requests[r], e)
  BY <1>2, <1>3, Zenon DEF EpochRequest
<1>5. SUFFICES ASSUME ~(clock' < LatestPickup[r]) PROVE FALSE
  OBVIOUS
<1> DEFINE chosen == [requests[r] EXCEPT !.econ = e.vehicle]
<1>6. e.vehicle \notin HVs /\ ~TooLate(e)
  BY <1>1, KindsAssumption DEF TooLate
<1>7. ~(e.vehicle \in AVs /\ clock' < LatestPickup[e.request])
  BY <1>1, <1>5
<1>8. Preassigned(requests[r], e) = [chosen EXCEPT !.status = "RAISED"]
  BY <1>6, <1>7, Zenon DEF Preassigned
<1>9. chosen \in RequestRecord
  <2>1. requests[r] \in RequestRecord /\ e.vehicle \in Vehicles
    BY <1>1, <1>2, TypeParts DEF Vehicles
  <2>2. QED
    BY <2>1, PointerType
<1>10. [chosen EXCEPT !.status = "RAISED"].status = "RAISED"
  <2> HIDE DEF chosen
  <2>1. QED
    BY <1>9 DEF RequestRecord
<1>11. requests'[r].status = "RAISED"
  BY <1>2, <1>4, <1>8, <1>10
<1>12. QED
  BY <1>2, <1>11 DEF Raised

LEMMA AnswersTakeTime ==
  ASSUME NEW t \in Nat
  PROVE  t < t + ResponseDelay
  BY NumbersAreNatural

LEMMA DecisionEpochHandles ==
  ASSUME TypeOK, DecisionEpoch
  PROVE  Handles("DECISION_EPOCH", FleetController)
<1>1. PICK moved \in IdleMovements :
        \E ride \in [moved -> MoveTimes], M \in Matchings(moved) :
        \E P \in Preassignments(M) : Decide(moved, ride, M, P)
  BY DEF DecisionEpoch
<1>2. PICK ride \in [moved -> MoveTimes], M \in Matchings(moved) :
        \E P \in Preassignments(M) : Decide(moved, ride, M, P)
  BY <1>1
<1>3. PICK P \in Preassignments(M) : Decide(moved, ride, M, P)
  BY <1>2
<1>4. Pop("DECISION_EPOCH", FleetController) /\ clock' \in Nat
  BY PopType DEF DecisionEpoch
<1>5. SUFFICES ASSUME ~Raised', NEW e \in EpochEvents(moved, M, P)
               PROVE  Follows(e, clock', priority')
  BY <1>3, <1>4 DEF Decide, Handles
<1>6. ASSUME NEW v \in moved \cup {m.vehicle : m \in OfAVs(M)}, e = LegEvent(v, vehicles'[v])
      PROVE  Follows(e, clock', priority')
  <2>1. v \in Vehicles
    BY EpochChoices DEF OfAVs
  <2>2. vehicles'[v] = EpochVehicle(v, moved, ride, M, P)
    BY <1>3, <2>1 DEF Decide
  <2>3. vehicles'[v].leg.end > clock'
    BY <1>4, <2>1, <2>2, EpochVehicleType
  <2>4. QED
    BY <1>6, <2>3, RidesEndLater
<1>7. ASSUME NEW o \in NewOffers(M, P),
             e = SimulationEvent(clock' + ResponseDelay, "DRIVER_RESPONSE",
                                 <<o.request, o.vehicle>>)
      PROVE  Follows(e, clock', priority')
  <2>1. clock' < clock' + ResponseDelay
    BY <1>4, AnswersTakeTime
  <2>2. QED
    BY <1>7, <2>1 DEF Follows, NoLaterThan, SimulationEvent
<1>8. ASSUME NEW r \in RequestsOf(OfAVs(P)),
             e = SimulationEvent(LatestPickup[r], "RESERVATION_EXPIRED", r)
      PROVE  Follows(e, clock', priority')
  <2>1. clock' < LatestPickup[r]
    BY <1>3, <1>5, ReservedInTime DEF Decide
  <2>2. QED
    BY <1>8, <2>1 DEF Follows, NoLaterThan, SimulationEvent
<1>9. QED
  BY <1>5, <1>6, <1>7, <1>8 DEF EpochEvents
(* The other events push nothing.                                          *)
LEMMA QuietHandles ==
  ASSUME NEW kind, NEW id, Pop(kind, id), events' = Rest(kind, id)
  PROVE  Handles(kind, id)
  BY DEF Handles

(* A step handles an event, ends the day or changes nothing.               *)
LEMMA NextHandles ==
  ASSUME TypeOK, [Next]_vars
  PROVE  \/ \E kind, id : Handles(kind, id)
         \/ finalized' /\ UNCHANGED <<clock, priority>>
         \/ UNCHANGED vars
<1>1. CASE \E r \in Requests : RequestRevealed(r)
  BY <1>1, QuietHandles DEF RequestRevealed
<1>2. CASE \E v \in Vehicles : SessionStart(v) \/ SessionEnd(v)
  BY <1>2, QuietHandles DEF SessionStart, SessionEnd, SessionEvent
<1>3. CASE \E v \in Vehicles : LegCompleted(v) \/ LegCompletedPromote(v)
                                                \/ LegCompletedInvalidate(v)
  BY <1>3, LegCompletedHandles
<1>4. CASE \E r \in Requests : ReservationExpired(r) \/ StaleReservationExpiry(r)
                                                     \/ PlanInvalidated(r)
  BY <1>4, QuietHandles DEF ReservationExpired, StaleReservationExpiry, PlanInvalidated
<1>5. CASE \E o \in offers :
        \/ ResponseTimeout(o) \/ VehicleNotWaiting(o) \/ DriverRejects(o)
        \/ InsertsTooLate(o) \/ AcceptsReservation(o) \/ AcceptsAssignment(o)
  BY <1>5, ResponseHandles
<1>6. CASE DecisionEpoch
  BY <1>6, DecisionEpochHandles
<1>7. CASE Finalize
  BY <1>7 DEF Finalize
<1>8. CASE Returned \/ UNCHANGED vars
  BY <1>8 DEF Returned
<1>9. QED
  BY <1>1, <1>2, <1>3, <1>4, <1>5, <1>6, <1>7, <1>8 DEF Next

(* The event popped is the least of the queue.                             *)
LEMMA HandlesKeepsOrder ==
  ASSUME Ordered, NEW kind, NEW id, Handles(kind, id)
  PROVE  Ordered' /\ NoLaterThan(clock, priority, clock', priority')
<1> DEFINE popped == SimulationEvent(clock', kind, id)
<1>1. /\ ~finalized /\ ~Raised /\ popped \in NextEvents(events)
      /\ priority' = EventPriority[kind]
  BY DEF Handles, Pop
<1>2. popped.at = clock' /\ popped.kind = kind
  BY DEF SimulationEvent
<1> HIDE DEF popped
<1>3. popped \in events
        /\ \A f \in events : NoLaterThan(popped.at, EventPriority[popped.kind],
                                         f.at, EventPriority[f.kind])
  BY <1>1 DEF NextEvents
<1>4. NoLaterThan(clock, priority, clock', priority')
  BY <1>1, <1>2, <1>3 DEF Ordered, Follows
<1>5. \A f \in Rest(kind, id) : Follows(f, clock', priority')
  BY <1>1, <1>2, <1>3 DEF Follows, Rest
<1>6. Ordered'
  BY <1>5 DEF Ordered, Follows, Handles
<1>7. QED
  BY <1>4, <1>6

LEMMA InitOrdered ==
  ASSUME Init
  PROVE  Ordered
<1>1. TypeOK
  BY InitType
<1>2. clock = 0 /\ priority = 0
  BY DEF Init
<1>3. \A e \in events : e.at \in Nat /\ EventPriority[e.kind] \in 1..9
  BY <1>1, PriorityType DEF TypeOK
<1>4. \A e \in events : Follows(e, clock, priority)
  BY <1>2, <1>3 DEF Follows, NoLaterThan
<1>5. QED
  BY <1>4 DEF Ordered

LEMMA NextOrdered ==
  ASSUME TypeOK, Ordered, [Next]_vars
  PROVE  /\ Ordered'
         /\ clock' # clock \/ priority' # priority =>
              NoLaterThan(clock, priority, clock', priority')
<1>1. CASE \E kind, id : Handles(kind, id)
  BY <1>1, HandlesKeepsOrder
<1>2. CASE finalized' /\ UNCHANGED <<clock, priority>>
  BY <1>2 DEF Ordered
<1>3. CASE UNCHANGED vars
  BY <1>3 DEF vars, Ordered, Follows, Raised
<1>4. QED
  BY <1>1, <1>2, <1>3, NextHandles

(* The order the event audit checks holds in every run: no handler pushes  *)
(* an event that should have been handled before its own, because a leg    *)
(* and an answer take time, an expiry lies ahead of the clock unless the   *)
(* run raises, and a cleanup has a later priority than the leg's end.      *)
THEOREM EventOrderHolds == Spec => EventOrder
<1>1. Init => TypeOK /\ Ordered
  BY InitType, InitOrdered
<1>2. TypeOK /\ Ordered /\ [Next]_vars => (TypeOK /\ Ordered)'
  BY NextType, NextOrdered
<1>3. TypeOK /\ Ordered /\ [Next]_vars =>
        [clock' # clock \/ priority' # priority =>
           NoLaterThan(clock, priority, clock', priority')]_vars
  BY NextOrdered
<1>4. QED
  BY <1>1, <1>2, <1>3, PTL DEF Spec, EventOrder

-----------------------------------------------------------------------------
(* What the lifecycle operators return, field by field, for the requests   *)
(* the handlers apply them to.                                             *)
Row(status, assigned, reserved, econ) ==
  [status |-> status, assigned |-> assigned, reserved |-> reserved, econ |-> econ]

LEMMA RowOf ==
  ASSUME NEW q \in RequestRecord
  PROVE  q = Row(q.status, q.assigned, q.reserved, q.econ)
  BY DEF RequestRecord, Row

LEMMA RowFields ==
  ASSUME NEW s, NEW a, NEW h, NEW e
  PROVE  /\ Row(s, a, h, e).status = s /\ Row(s, a, h, e).assigned = a
         /\ Row(s, a, h, e).reserved = h /\ Row(s, a, h, e).econ = e
  BY DEF Row

LEMMA RowUpdates ==
  ASSUME NEW s, NEW a, NEW h, NEW e, NEW x
  PROVE  /\ [Row(s, a, h, e) EXCEPT !.status = x] = Row(x, a, h, e)
         /\ [Row(s, a, h, e) EXCEPT !.assigned = x] = Row(s, x, h, e)
         /\ [Row(s, a, h, e) EXCEPT !.reserved = x] = Row(s, a, x, e)
         /\ [Row(s, a, h, e) EXCEPT !.econ = x] = Row(s, a, h, x)
  BY DEF Row

LEMMA LegalSteps ==
  /\ {"PENDING", "CANCELLED"} \subseteq LegalTransitions["UNREVEALED"]
  /\ {"OFFERED", "CANCELLED"} \subseteq LegalTransitions["PENDING"]
  /\ {"ASSIGNED", "RESERVED", "PENDING", "CANCELLED"} \subseteq LegalTransitions["OFFERED"]
  /\ {"ASSIGNED", "PENDING", "CANCELLED"} \subseteq LegalTransitions["RESERVED"]
  /\ "PICKUP_STARTED" \in LegalTransitions["ASSIGNED"]
  /\ "BOARDED" \in LegalTransitions["PICKUP_STARTED"]
  /\ "IN_SERVICE" \in LegalTransitions["BOARDED"]
  /\ "COMPLETED" \in LegalTransitions["IN_SERVICE"]
  BY DEF LegalTransitions

LEMMA Steps ==
  ASSUME NEW s, NEW a, NEW h, NEW e, NEW x \in LegalTransitions[s]
  PROVE  Transition(Row(s, a, h, e), x) = Row(x, a, h, e)
  BY RowFields, RowUpdates DEF Transition

(* Offered, rejected, reserved, assigned: from the statuses in which the   *)
(* engine asks for it.                                                     *)
LEMMA Waits ==
  ASSUME NEW a, NEW h, NEW e, NEW v
  PROVE  /\ Offer(Row("PENDING", a, h, e)) = Row("OFFERED", a, h, e)
         /\ RejectOffer(Row("OFFERED", a, h, e)) = Row("PENDING", a, h, e)
         /\ Reserve(Row("PENDING", a, h, e), v) = Row("RESERVED", a, v, e)
         /\ Reserve(Row("OFFERED", a, h, e), v) = Row("RESERVED", a, v, e)
         /\ Assign(Row("PENDING", a, h, e), v) = Row("ASSIGNED", v, h, e)
         /\ Assign(Row("OFFERED", a, h, e), v) = Row("ASSIGNED", v, h, e)
<1>1. /\ Transition(Row("PENDING", a, h, e), "OFFERED") = Row("OFFERED", a, h, e)
      /\ Transition(Row("OFFERED", a, h, e), "PENDING") = Row("PENDING", a, h, e)
      /\ Transition(Row("OFFERED", a, h, e), "RESERVED") = Row("RESERVED", a, h, e)
      /\ Transition(Row("OFFERED", a, h, e), "ASSIGNED") = Row("ASSIGNED", a, h, e)
  BY Steps, LegalSteps
<1>2. Offer(Row("PENDING", a, h, e)) = Row("OFFERED", a, h, e)
        /\ RejectOffer(Row("OFFERED", a, h, e)) = Row("PENDING", a, h, e)
  BY <1>1 DEF Offer, RejectOffer
<1>a. /\ Row("PENDING", a, h, e).status = "PENDING" /\ Row("OFFERED", a, h, e).status = "OFFERED"
      /\ [Row("RESERVED", a, h, e) EXCEPT !.reserved = v] = Row("RESERVED", a, v, e)
      /\ [Row("ASSIGNED", a, h, e) EXCEPT !.assigned = v] = Row("ASSIGNED", v, h, e)
  BY RowFields, RowUpdates
<1>3. /\ Reserve(Row("PENDING", a, h, e), v) = Row("RESERVED", a, v, e)
      /\ Reserve(Row("OFFERED", a, h, e), v) = Row("RESERVED", a, v, e)
  BY <1>1, <1>a, Zenon DEF Reserve
<1>4. /\ Assign(Row("PENDING", a, h, e), v) = Row("ASSIGNED", v, h, e)
      /\ Assign(Row("OFFERED", a, h, e), v) = Row("ASSIGNED", v, h, e)
  BY <1>1, <1>a, Zenon DEF Assign
<1>5. QED
  BY <1>2, <1>3, <1>4

(* A ride: the pickup starts from an assignment or from a reservation, the *)
(* passenger boards, is served and arrives.                                *)
LEMMA Rides ==
  ASSUME NEW a, NEW h, NEW e, NEW v, NEW r, NEW leg
  PROVE  /\ StartRequest(Row("ASSIGNED", a, h, e), v, Stop("PICKUP", r))
              = Row("PICKUP_STARTED", a, h, e)
         /\ StartRequest(Row("RESERVED", a, h, e), v, Stop("PICKUP", r))
              = Row("PICKUP_STARTED", v, NoVehicle, e)
         /\ StartRequest(Row("BOARDED", a, h, e), v, Stop("DROP_OFF", r))
              = Row("IN_SERVICE", a, h, e)
         /\ leg.kind = "PICKUP" => FinishRequest(Row("PICKUP_STARTED", a, h, e), v, leg)
                                     = Row("BOARDED", a, h, e)
         /\ leg.kind = "SERVICE" => FinishRequest(Row("IN_SERVICE", a, h, e), v, leg)
                                      = Row("COMPLETED", v, h, e)
<1>1. /\ \A b, g : Transition(Row("ASSIGNED", b, g, e), "PICKUP_STARTED")
                     = Row("PICKUP_STARTED", b, g, e)
      /\ Transition(Row("RESERVED", a, h, e), "ASSIGNED") = Row("ASSIGNED", a, h, e)
      /\ Transition(Row("BOARDED", a, h, e), "IN_SERVICE") = Row("IN_SERVICE", a, h, e)
      /\ Transition(Row("PICKUP_STARTED", a, h, e), "BOARDED") = Row("BOARDED", a, h, e)
      /\ Transition(Row("IN_SERVICE", a, h, e), "COMPLETED") = Row("COMPLETED", a, h, e)
  BY Steps, LegalSteps
<1>2. [Row("ASSIGNED", a, h, e) EXCEPT !.assigned = v, !.reserved = NoVehicle]
        = Row("ASSIGNED", v, NoVehicle, e)
  <2>1. [Row("ASSIGNED", a, h, e) EXCEPT !.assigned = v, !.reserved = NoVehicle]
          = [[Row("ASSIGNED", a, h, e) EXCEPT !.assigned = v] EXCEPT !.reserved = NoVehicle]
    OBVIOUS
  <2>2. [Row("ASSIGNED", a, h, e) EXCEPT !.assigned = v] = Row("ASSIGNED", v, h, e)
          /\ [Row("ASSIGNED", v, h, e) EXCEPT !.reserved = NoVehicle]
               = Row("ASSIGNED", v, NoVehicle, e)
    BY DEF Row
  <2>3. QED
    BY <2>1, <2>2
<1>3. Stop("PICKUP", r).kind = "PICKUP" /\ Stop("DROP_OFF", r).kind = "DROP_OFF"
  BY DEF Stop
<1>4. /\ StartRequest(Row("ASSIGNED", a, h, e), v, Stop("PICKUP", r))
              = Row("PICKUP_STARTED", a, h, e)
      /\ StartRequest(Row("RESERVED", a, h, e), v, Stop("PICKUP", r))
              = Row("PICKUP_STARTED", v, NoVehicle, e)
  <2>1. Row("ASSIGNED", a, h, e).status = "ASSIGNED" /\ Row("RESERVED", a, h, e).status = "RESERVED"
    BY RowFields
  <2>2. "ASSIGNED" # "RESERVED"
    OBVIOUS
  <2>3. StartRequest(Row("ASSIGNED", a, h, e), v, Stop("PICKUP", r))
          = Transition(Row("ASSIGNED", a, h, e), "PICKUP_STARTED")
    BY <1>3, <2>1, <2>2, Zenon DEF StartRequest
  <2>4. StartRequest(Row("RESERVED", a, h, e), v, Stop("PICKUP", r))
          = Transition([Transition(Row("RESERVED", a, h, e), "ASSIGNED")
                          EXCEPT !.assigned = v, !.reserved = NoVehicle], "PICKUP_STARTED")
    BY <1>3, <2>1, Zenon DEF StartRequest
  <2>5. QED
    BY <1>1, <1>2, <2>3, <2>4
<1>5. StartRequest(Row("BOARDED", a, h, e), v, Stop("DROP_OFF", r)) = Row("IN_SERVICE", a, h, e)
  BY <1>1, <1>3, RowFields DEF StartRequest
<1>6. leg.kind = "PICKUP" => FinishRequest(Row("PICKUP_STARTED", a, h, e), v, leg)
                               = Row("BOARDED", a, h, e)
  BY <1>1 DEF FinishRequest
<1>7. leg.kind = "SERVICE" => FinishRequest(Row("IN_SERVICE", a, h, e), v, leg)
                                = Row("COMPLETED", v, h, e)
  <2>1. [Row("COMPLETED", a, h, e) EXCEPT !.assigned = v] = Row("COMPLETED", v, h, e)
    BY DEF Row
  <2>2. "SERVICE" # "PICKUP"
    OBVIOUS
  <2>3. QED
    BY <1>1, <2>1, <2>2, Zenon DEF FinishRequest
<1>8. QED
  BY <1>4, <1>5, <1>6, <1>7

-----------------------------------------------------------------------------
(* The same for vehicles.                                                  *)
Driving(status, kind, r, end, plan, reserved) ==
  [status |-> status, leg |-> [kind |-> kind, request |-> r, end |-> end],
   plan |-> plan, reserved |-> reserved]

LEMMA Stops ==
  ASSUME NEW r \in Requests, NEW v
  PROVE  /\ AssignmentPlan(r) # <<>> /\ Head(AssignmentPlan(r)) = Stop("PICKUP", r)
         /\ Tail(AssignmentPlan(r)) = <<Stop("DROP_OFF", r)>>
         /\ <<Stop("DROP_OFF", r)>> # <<>>
         /\ Head(<<Stop("DROP_OFF", r)>>) = Stop("DROP_OFF", r)
         /\ Tail(<<Stop("DROP_OFF", r)>>) = <<>>
         /\ MovementPlan(v) # <<>> /\ Tail(MovementPlan(v)) = <<>>
         /\ Head(MovementPlan(v)) = Stop(IF v \in HVs THEN "HV_REPOSITION"
                                         ELSE "AV_REBALANCE", NoRequest)
         /\ InsertAfterLockedStops(<<>>, r) = AssignmentPlan(r)
<1> DEFINE a == Stop("PICKUP", r)
           b == Stop("DROP_OFF", r)
           m == Stop(IF v \in HVs THEN "HV_REPOSITION" ELSE "AV_REBALANCE", NoRequest)
<1>1. AssignmentPlan(r) = <<a, b>> /\ MovementPlan(v) = <<m>>
        /\ InsertAfterLockedStops(<<>>, r) = <<>> \o AssignmentPlan(r)
  BY DEF AssignmentPlan, MovementPlan, InsertAfterLockedStops
<1> HIDE DEF a, b, m
<1>2. /\ <<a, b>> # <<>> /\ Head(<<a, b>>) = a /\ Tail(<<a, b>>) = <<b>>
      /\ <<b>> # <<>> /\ Head(<<b>>) = b /\ Tail(<<b>>) = <<>>
      /\ <<m>> # <<>> /\ Head(<<m>>) = m /\ Tail(<<m>>) = <<>>
  OBVIOUS
<1>3. <<>> \o <<a, b>> = <<a, b>>
  OBVIOUS
<1>4. QED
  BY <1>1, <1>2, <1>3 DEF a, b, m

LEMMA StartedLeg ==
  ASSUME NEW v, NEW vehicle, NEW t, NEW ride, NEW r \in Requests
  PROVE  /\ vehicle.plan = AssignmentPlan(r) =>
              StartNextLeg(v, vehicle, t, ride) =
                Driving("PICKUP", "PICKUP", r, t + Larger(MinLeg, ride), <<Stop("DROP_OFF", r)>>,
                        IF requests[r].status = "RESERVED" THEN NoRequest ELSE vehicle.reserved)
         /\ vehicle.plan = <<Stop("DROP_OFF", r)>> =>
              StartNextLeg(v, vehicle, t, ride) =
                Driving("SERVICE", "SERVICE", r, t + Larger(MinLeg, RealizedService[r]), <<>>,
                        vehicle.reserved)
<1> DEFINE stop == Head(vehicle.plan)
           duration == IF stop.kind = "DROP_OFF" THEN RealizedService[stop.request] ELSE ride
<1>0. vehicle.plan # <<>> =>
        StartNextLeg(v, vehicle, t, ride) =
          [status |-> ExecutionStatus(stop),
           leg |-> [kind |-> LegKind(stop), request |-> stop.request,
                    end |-> t + Larger(MinLeg, duration)],
           plan |-> Tail(vehicle.plan),
           reserved |-> IF stop.kind = "PICKUP" /\ requests[stop.request].status = "RESERVED"
                         THEN NoRequest ELSE vehicle.reserved]
  BY DEF StartNextLeg
<1>1. /\ Stop("PICKUP", r).kind = "PICKUP" /\ Stop("DROP_OFF", r).kind = "DROP_OFF"
      /\ Stop("PICKUP", r).request = r /\ Stop("DROP_OFF", r).request = r
  BY DEF Stop
<1>2. ExecutionStatus(Stop("PICKUP", r)) = "PICKUP"
        /\ ExecutionStatus(Stop("DROP_OFF", r)) = "SERVICE"
  BY <1>1 DEF ExecutionStatus
<1>3. LegKind(Stop("PICKUP", r)) = "PICKUP" /\ LegKind(Stop("DROP_OFF", r)) = "SERVICE"
  BY <1>1 DEF LegKind
<1>4. CASE vehicle.plan = AssignmentPlan(r)
  BY <1>0, <1>1, <1>2, <1>3, <1>4, Stops DEF Driving
<1>5. CASE vehicle.plan = <<Stop("DROP_OFF", r)>>
  BY <1>0, <1>1, <1>2, <1>3, <1>5, Stops DEF Driving
<1>6. QED
  BY <1>4, <1>5

LEMMA StartedMovement ==
  ASSUME NEW v \in Vehicles, NEW vehicle, NEW t, NEW ride, vehicle.plan = MovementPlan(v)
  PROVE  \E kind \in {"HV_REPOSITION", "AV_REBALANCE"} :
           StartNextLeg(v, vehicle, t, ride) =
             Driving(IF kind = "HV_REPOSITION" THEN "REPOSITIONING" ELSE "REBALANCING",
                     kind, NoRequest, t + Larger(MinLeg, ride), <<>>, vehicle.reserved)
<1> DEFINE kind == IF v \in HVs THEN "HV_REPOSITION" ELSE "AV_REBALANCE"
           stop == Stop(kind, NoRequest)
<1>1. kind \in {"HV_REPOSITION", "AV_REBALANCE"}
  OBVIOUS
<1>2. MovementPlan(v) = <<stop>>
  BY DEF MovementPlan
<1> HIDE DEF kind
<1>3. stop.kind = kind /\ stop.request = NoRequest
  BY DEF Stop
<1> HIDE DEF stop
<1>4. <<stop>> # <<>> /\ Head(<<stop>>) = stop /\ Tail(<<stop>>) = <<>>
  OBVIOUS
<1>5. ExecutionStatus(stop) = IF kind = "HV_REPOSITION" THEN "REPOSITIONING" ELSE "REBALANCING"
  BY <1>1, <1>3 DEF ExecutionStatus
<1>6. LegKind(stop) = kind
  BY <1>1, <1>3 DEF LegKind
<1>7. StartNextLeg(v, vehicle, t, ride) =
        Driving(IF kind = "HV_REPOSITION" THEN "REPOSITIONING" ELSE "REBALANCING",
                kind, NoRequest, t + Larger(MinLeg, ride), <<>>, vehicle.reserved)
  BY <1>1, <1>2, <1>3, <1>4, <1>5, <1>6 DEF StartNextLeg, Driving
<1>8. QED
  BY <1>1, <1>7

(* Dropping the stops of the reserved request leaves nothing.              *)
LEMMA NothingLeft ==
  ASSUME NEW r \in Requests
  PROVE  WithoutStops(AssignmentPlan(r), r) = <<>>
<1> DEFINE a == Stop("PICKUP", r)
           b == Stop("DROP_OFF", r)
           plan == AssignmentPlan(r)
           kept == KeptStops(plan, r)
<1>1. plan \in Seq(PlanStop)
  BY PlanType
<1>2. KeepsStops(kept, plan, r, Len(plan))
  BY <1>1, KeptStopsUnfolds
<1>3. plan = <<a, b>>
  BY DEF AssignmentPlan
<1>4. a.request = r /\ b.request = r
  BY DEF Stop
<1> HIDE DEF a, b
<1>5. Len(plan) = 2 /\ plan[1].request = r /\ plan[2].request = r
  BY <1>3, <1>4
<1> HIDE DEF kept, plan
<1>6. \A n \in 0..2 : kept[n] = IF n = 0 THEN <<>>
                                ELSE IF plan[n].request = r THEN kept[n - 1]
                                ELSE Append(kept[n - 1], plan[n])
  BY <1>2, <1>5 DEF KeepsStops
<1>7. kept[0] = <<>> /\ kept[1] = kept[0] /\ kept[2] = kept[1]
  BY <1>5, <1>6
<1>8. WithoutStops(plan, r) = kept[2]
  BY <1>5 DEF WithoutStops, kept
<1>9. QED
  BY <1>7, <1>8 DEF plan

-----------------------------------------------------------------------------
(* What the engine's records say of each other between two events of a     *)
(* run that goes on.                                                       *)
Live == ~finalized /\ ~Raised

RestingStatus ==
  {"UNREVEALED", "PENDING", "OFFERED", "RESERVED", "PICKUP_STARTED", "IN_SERVICE",
   "COMPLETED", "CANCELLED"}

BusyStatus ==
  [PICKUP |-> "PICKUP", SERVICE |-> "SERVICE", HV_REPOSITION |-> "REPOSITIONING",
   AV_REBALANCE |-> "REBALANCING"]

(* A vehicle's status is that of its leg, its plan that of its state, and  *)
(* it is held only during the ride it is held behind.                      *)
PlanOf(v) ==
  IF vehicles[v].leg.kind = "PICKUP" THEN <<Stop("DROP_OFF", vehicles[v].leg.request)>>
  ELSE IF vehicles[v].reserved = NoRequest THEN <<>>
  ELSE AssignmentPlan(vehicles[v].reserved)

VehicleFits(v) ==
  /\ vehicles[v].leg.kind = "NONE" => vehicles[v].leg = NoLeg
  /\ vehicles[v].leg = NoLeg => vehicles[v].status \in {"OFFLINE", "IDLE", "WAITING"}
  /\ vehicles[v].leg # NoLeg => vehicles[v].status = BusyStatus[vehicles[v].leg.kind]
  /\ vehicles[v].plan = PlanOf(v)
  /\ vehicles[v].reserved # NoRequest =>
       \/ vehicles[v].leg.kind = "SERVICE" /\ vehicles[v].reserved \notin Stranded
       \/ vehicles[v].leg = NoLeg /\ vehicles[v].reserved \in Stranded

(* The four records of a reservation.                                      *)
HoldFits(r) ==
  /\ requests[r].status \in RestingStatus
  /\ requests[r].status = "RESERVED" <=> requests[r].reserved # NoVehicle
  /\ book[r] = IF r \in Stranded THEN NoVehicle ELSE requests[r].reserved
  /\ \A v \in Vehicles : requests[r].reserved = v <=> vehicles[v].reserved = r

StrandedFits ==
  \A e \in events : e.kind = "PLAN_INVALIDATED" =>
    /\ e = SimulationEvent(clock, "PLAN_INVALIDATED", e.id)
    /\ e.id \in Requests /\ requests[e.id].status = "RESERVED"

(* What an open offer stands for, and that its answer is queued.           *)
OfferFits(o) ==
  /\ requests[o.request].status = "OFFERED"
  /\ requests[o.request].econ = o.vehicle
  /\ o.plan = AssignmentPlan(o.request)
  /\ vehicles[o.vehicle].reserved = NoRequest
  /\ vehicles[o.vehicle].leg.kind \in {"NONE", "SERVICE"}
  /\ ~o.preassigned => /\ vehicles[o.vehicle].leg = NoLeg
                       /\ vehicles[o.vehicle].status \in {"WAITING", "OFFLINE"}
                       /\ SimulationEvent(OnlineStart[o.vehicle], "HV_SESSION_START", o.vehicle)
                            \notin events
  /\ \E e \in events : e.kind = "DRIVER_RESPONSE" /\ e.id = <<o.request, o.vehicle>>

OffersFit ==
  /\ \A o \in offers : OfferFits(o)
  /\ \A o, p \in offers : o.request = p.request \/ o.vehicle = p.vehicle => o = p
  /\ \A r \in Requests : requests[r].status = "OFFERED" => \E o \in offers : o.request = r
  /\ \A v \in Vehicles : vehicles[v].status = "WAITING" =>
       \E o \in offers : o.vehicle = v /\ ~o.preassigned

(* Every answer queued answers an open offer, once, and before the next    *)
(* epoch.                                                                  *)
AnswersFit ==
  /\ \A e \in events : e.kind = "DRIVER_RESPONSE" =>
       \E o \in offers : e.id = <<o.request, o.vehicle>>
  /\ \A e, f \in events :
       e.kind = "DRIVER_RESPONSE" /\ f.kind = "DRIVER_RESPONSE" /\ e.id = f.id => e = f
  /\ \A e, f \in events : e.kind = "DRIVER_RESPONSE" /\ f.kind = "DECISION_EPOCH" => e.at <= f.at

(* The events queued from the start, and the expiries.                     *)
QueueFits ==
  /\ \A e \in events :
       /\ e.kind = "DECISION_EPOCH" =>
            e = SimulationEvent(e.at, "DECISION_EPOCH", FleetController) /\ e.at % EpochSec = 0
       /\ e.kind = "REQUEST_REVEALED" => e.id \in Requests /\ e.at = RequestTime[e.id]
       /\ e.kind = "HV_SESSION_START" => e.id \in Vehicles /\ e.at = OnlineStart[e.id]
       /\ e.kind = "HV_SESSION_END" => e.id \in Vehicles /\ e.at = OnlineEnd[e.id]

RevealFits(r) ==
  requests[r].status = "UNREVEALED" <=>
    SimulationEvent(RequestTime[r], "REQUEST_REVEALED", r) \in events

ExpiryFits(r) ==
  requests[r].status = "RESERVED" /\ r \notin Stranded =>
    SimulationEvent(LatestPickup[r], "RESERVATION_EXPIRED", r) \in events

EconomicsFit(r) ==
  /\ requests[r].status = "RESERVED" => requests[r].econ = requests[r].reserved
  /\ requests[r].status \in {"PICKUP_STARTED", "IN_SERVICE", "COMPLETED"}
        => requests[r].econ = requests[r].assigned

(* The epochs after the deadline of a request that waits are all to come.  *)
EpochsAhead(r) ==
  requests[r].status \in {"UNREVEALED", "PENDING", "OFFERED", "RESERVED"} =>
    \A t \in 0..End : t % EpochSec = 0 /\ t > LatestPickup[r] =>
      SimulationEvent(t, "DECISION_EPOCH", FleetController) \in events

RecordsFit ==
  /\ \A v \in Vehicles : VehicleFits(v)
  /\ OneVehiclePerRide
  /\ \A r \in Requests : HoldFits(r)
  /\ StrandedFits
  /\ OffersFit
  /\ AnswersFit
  /\ QueueFits
  /\ \A r \in Requests : RevealFits(r) /\ ExpiryFits(r) /\ EconomicsFit(r)
  /\ IndexAgreement
  /\ EveryLegWillEnd

-----------------------------------------------------------------------------
LEMMA Priorities ==
  /\ EventPriority["LEG_COMPLETED"] = 1 /\ EventPriority["HV_SESSION_END"] = 3
  /\ EventPriority["HV_SESSION_START"] = 4 /\ EventPriority["REQUEST_REVEALED"] = 5
  /\ EventPriority["DRIVER_RESPONSE"] = 6 /\ EventPriority["RESERVATION_EXPIRED"] = 7
  /\ EventPriority["PLAN_INVALIDATED"] = 8 /\ EventPriority["DECISION_EPOCH"] = 9
  BY DEF EventPriority

LEMMA EventFields ==
  ASSUME NEW t, NEW kind, NEW id
  PROVE  /\ SimulationEvent(t, kind, id).at = t
         /\ SimulationEvent(t, kind, id).kind = kind
         /\ SimulationEvent(t, kind, id).id = id
  BY DEF SimulationEvent

(* The event handled is in the queue and nothing in the queue precedes it. *)
LEMMA Popped ==
  ASSUME TypeOK, Ordered, NEW kind, NEW id, Pop(kind, id)
  PROVE  /\ Live
         /\ clock \in Nat /\ clock' \in Nat /\ clock <= clock' /\ clock' <= End
         /\ kind \in EventType
         /\ SimulationEvent(clock', kind, id) \in events
         /\ \A f \in events : /\ f.at \in Nat /\ clock' <= f.at
                              /\ f.at = clock' => EventPriority[kind] <= EventPriority[f.kind]
         /\ Rest(kind, id) \subseteq events
         /\ \A f \in events : f \in Rest(kind, id) \/ f = SimulationEvent(clock', kind, id)
         /\ SimulationEvent(clock', kind, id) \notin Rest(kind, id)
<1> DEFINE e == SimulationEvent(clock', kind, id)
<1>1. Live /\ e \in NextEvents(events) /\ clock' <= End
  BY DEF Pop, Live
<1>2. e.at = clock' /\ e.kind = kind
  BY EventFields
<1> HIDE DEF e
<1>3. clock' \in Nat /\ kind \in EventType /\ clock \in Nat /\ priority \in 0..9
  BY PopType DEF TypeOK
<1>4. \A f \in events : f.at \in Nat /\ EventPriority[f.kind] \in 1..9
  BY PriorityType DEF TypeOK
<1>5. e \in events /\ \A f \in events : NoLaterThan(clock', EventPriority[kind], f.at, EventPriority[f.kind])
  BY <1>1, <1>2 DEF NextEvents
<1>6. NoLaterThan(clock, priority, clock', EventPriority[kind])
  BY <1>1, <1>2, <1>5 DEF Ordered, Follows, Live
<1>7. clock <= clock'
  BY <1>3, <1>6 DEF NoLaterThan
<1>8. \A f \in events : clock' <= f.at /\ (f.at = clock' => EventPriority[kind] <= EventPriority[f.kind])
  BY <1>3, <1>4, <1>5 DEF NoLaterThan
<1>9. Rest(kind, id) = events \ {e}
  BY DEF Rest, e
<1>10. QED
  BY <1>1, <1>3, <1>4, <1>5, <1>7, <1>8, <1>9 DEF e

(* While a plan waits to be cleaned up the clock stands still.             *)
LEMMA StrandedNow ==
  ASSUME TypeOK, Ordered, StrandedFits, NEW kind, NEW id, Pop(kind, id)
  PROVE  /\ Stranded # {} => clock' = clock /\ EventPriority[kind] <= 8
         /\ kind = "DECISION_EPOCH" => Stranded = {}
<1>1. ASSUME NEW r \in Stranded
      PROVE  clock' = clock /\ EventPriority[kind] <= 8
  <2>1. PICK e \in events : e.kind = "PLAN_INVALIDATED"
    BY <1>1 DEF Stranded
  <2>2. e.at = clock
    BY <2>1, EventFields DEF StrandedFits
  <2>3. QED
    BY <2>1, <2>2, Popped, Priorities
<1>2. kind = "DECISION_EPOCH" => EventPriority[kind] = 9
  BY Priorities
<1>3. QED
  BY <1>1, <1>2

(* The queue after a handler that pushes events of the given kinds only.   *)
Leaves(kind, id, kinds) ==
  /\ Rest(kind, id) \subseteq events'
  /\ \A e \in events' : e \in Rest(kind, id) \/ e.kind \in kinds

LEMMA LeavesRest ==
  ASSUME NEW kind, NEW id, events' = Rest(kind, id)
  PROVE  Leaves(kind, id, {})
  BY DEF Leaves

(* A handler that neither invalidates a plan nor cleans one up.            *)
LEMMA StrandedSame ==
  ASSUME NEW kind, NEW id, NEW kinds, Leaves(kind, id, kinds),
         kind # "PLAN_INVALIDATED", "PLAN_INVALIDATED" \notin kinds
  PROVE  Stranded' = Stranded
<1> DEFINE popped == SimulationEvent(clock', kind, id)
<1>1. popped.kind = kind
  BY EventFields
<1> HIDE DEF popped
<1>2. \A e : e.kind = "PLAN_INVALIDATED" => (e \in events <=> e \in events')
  BY <1>1 DEF Rest, Leaves, popped
<1>3. QED
  BY <1>2 DEF Stranded

(* The queue from the start: what a handler pushes is of other kinds.      *)
PushedKinds == {"LEG_COMPLETED", "DRIVER_RESPONSE", "RESERVATION_EXPIRED", "PLAN_INVALIDATED"}

LEMMA QueueKept ==
  ASSUME QueueFits, NEW kind, NEW id, NEW kinds, Leaves(kind, id, kinds),
         kinds \subseteq PushedKinds
  PROVE  QueueFits'
  BY DEF QueueFits, Leaves, Rest, PushedKinds

(* What is in the queue before and after.                                  *)
LEMMA StillQueued ==
  ASSUME NEW kind, NEW id, NEW kinds, Leaves(kind, id, kinds),
         kinds \subseteq PushedKinds
  PROVE  /\ \A t, k, i : SimulationEvent(t, k, i) \in events /\ (k # kind \/ i # id)
                            => SimulationEvent(t, k, i) \in events'
         /\ \A t, k, i : SimulationEvent(t, k, i) \in events' /\ k \notin PushedKinds
                            => SimulationEvent(t, k, i) \in events
<1>1. \A t, k, i : /\ SimulationEvent(t, k, i).kind = k
                   /\ SimulationEvent(t, k, i).id = i
  BY EventFields
<1>2. ASSUME NEW t, NEW k, NEW i, SimulationEvent(t, k, i) \in events, k # kind \/ i # id
      PROVE  SimulationEvent(t, k, i) \in events'
  BY <1>1, <1>2 DEF Rest, Leaves
<1>3. ASSUME NEW t, NEW k, NEW i, SimulationEvent(t, k, i) \in events', k \notin PushedKinds
      PROVE  SimulationEvent(t, k, i) \in events
  BY <1>1, <1>3 DEF Rest, Leaves
<1>4. QED
  BY <1>2, <1>3

LEMMA RevealKept ==
  ASSUME NEW kind, NEW id, NEW kinds, Leaves(kind, id, kinds),
         kinds \subseteq PushedKinds,
         kind # "REQUEST_REVEALED", NEW r \in Requests, RevealFits(r),
         requests[r].status = "UNREVEALED" <=> requests'[r].status = "UNREVEALED"
  PROVE  RevealFits(r)'
<1>1. "REQUEST_REVEALED" \notin PushedKinds
  BY DEF PushedKinds
<1>2. SimulationEvent(RequestTime[r], "REQUEST_REVEALED", r) \in events <=>
      SimulationEvent(RequestTime[r], "REQUEST_REVEALED", r) \in events'
  BY <1>1, StillQueued
<1>3. QED
  BY <1>2 DEF RevealFits

(* Answers, when the handler of another event pushes none.                 *)
LEMMA AnswersKept ==
  ASSUME AnswersFit, NEW kind, NEW id, NEW kinds, Leaves(kind, id, kinds),
         kinds \subseteq PushedKinds, "DRIVER_RESPONSE" \notin kinds,
         UNCHANGED offers
  PROVE  AnswersFit'
<1>1. \A e \in events' : e.kind \in {"DRIVER_RESPONSE", "DECISION_EPOCH"} => e \in events
  BY DEF Rest, Leaves, PushedKinds
<1>2. QED
  BY <1>1 DEF AnswersFit

-----------------------------------------------------------------------------
(* LEG_COMPLETED: what the vehicle and its passenger look like.            *)
LEMMA LegEnding ==
  ASSUME TypeOK, Ordered, RecordsFit, NEW v \in Vehicles, LegEnds(v)
  PROVE  /\ Pop("LEG_COMPLETED", v)
         /\ vehicles[v].leg # NoLeg /\ vehicles[v].leg.end = clock'
         /\ vehicles[v].leg.kind \in {"PICKUP", "SERVICE", "HV_REPOSITION", "AV_REBALANCE"}
         /\ vehicles[v].leg.kind = "PICKUP" =>
              /\ vehicles[v].leg.request \in Requests
              /\ requests[vehicles[v].leg.request] = Row("PICKUP_STARTED", v, NoVehicle, v)
              /\ vehicles[v].reserved = NoRequest
              /\ vehicles[v].plan = <<Stop("DROP_OFF", vehicles[v].leg.request)>>
         /\ vehicles[v].leg.kind = "SERVICE" =>
              /\ vehicles[v].leg.request \in Requests
              /\ requests[vehicles[v].leg.request] = Row("IN_SERVICE", v, NoVehicle, v)
         /\ vehicles[v].leg.kind # "PICKUP" =>
              vehicles[v].plan = IF vehicles[v].reserved = NoRequest THEN <<>>
                                 ELSE AssignmentPlan(vehicles[v].reserved)
         /\ vehicles[v].reserved # NoRequest =>
              /\ vehicles[v].leg.kind = "SERVICE"
              /\ vehicles[v].reserved \in Requests \ Stranded
<1> DEFINE r == vehicles[v].leg.request
<1>1. Pop("LEG_COMPLETED", v) /\ vehicles[v].leg # NoLeg
  BY DEF LegEnds
<1>2. vehicles[v] \in VehicleRecord /\ VehicleFits(v)
  BY TypeParts DEF RecordsFit
<1>3. vehicles[v].leg.kind \in {"PICKUP", "SERVICE", "HV_REPOSITION", "AV_REBALANCE"}
  BY <1>1, <1>2 DEF VehicleRecord, LegRecord, VehicleFits
<1>4. vehicles[v].leg.end = clock'
  <2> DEFINE e == SimulationEvent(clock', "LEG_COMPLETED", v)
  <2>1. e \in events /\ e.at = clock' /\ e.kind = "LEG_COMPLETED" /\ e.id = v
    BY <1>1, Popped, EventFields
  <2> HIDE DEF e
  <2>2. {f \in events : f.kind = "LEG_COMPLETED" /\ f.id = v} = {LegEvent(v, vehicles[v])}
    BY <1>1 DEF RecordsFit, EveryLegWillEnd
  <2>3. e = LegEvent(v, vehicles[v])
    BY <2>1, <2>2
  <2>4. QED
    BY <2>1, <2>3, EventFields DEF LegEvent
<1>5. vehicles[v].leg.kind \in {"PICKUP", "SERVICE"} =>
        /\ r \in Requests /\ OnLeg(r, v)
        /\ requests[r].status = LegStatus[vehicles[v].leg.kind] /\ requests[r].assigned = v
  BY <1>2 DEF VehicleRecord, LegRecord, OnLeg, LegStatus, RecordsFit, OneVehiclePerRide
<1>6. ASSUME NEW kind \in {"PICKUP", "SERVICE"}, vehicles[v].leg.kind = kind
      PROVE  r \in Requests /\ requests[r] = Row(LegStatus[kind], v, NoVehicle, v)
  <2>1. requests[r] \in RequestRecord /\ HoldFits(r) /\ EconomicsFit(r)
    BY <1>5, <1>6, TypeParts DEF RecordsFit
  <2>2. LegStatus[kind] \in {"PICKUP_STARTED", "IN_SERVICE"} /\ requests[r].status = LegStatus[kind]
    BY <1>5, <1>6 DEF LegStatus
  <2>3. requests[r].reserved = NoVehicle
    BY <2>1, <2>2 DEF HoldFits
  <2>4. requests[r].econ = v
    BY <1>5, <1>6, <2>1, <2>2 DEF EconomicsFit
  <2>5. QED
    BY <1>5, <1>6, <2>1, <2>2, <2>3, <2>4, RowOf
<1>7. LegStatus["PICKUP"] = "PICKUP_STARTED" /\ LegStatus["SERVICE"] = "IN_SERVICE"
  BY DEF LegStatus
<1>8. NoLeg.kind = "NONE"
  BY DEF NoLeg
<1>9. vehicles[v].reserved # NoRequest =>
        vehicles[v].leg.kind = "SERVICE" /\ vehicles[v].reserved \in Requests \ Stranded
  BY <1>1, <1>2 DEF VehicleFits, VehicleRecord
<1>10. vehicles[v].plan = PlanOf(v)
  BY <1>2 DEF VehicleFits
<1>11. QED
  BY <1>1, <1>3, <1>4, <1>6, <1>7, <1>9, <1>10 DEF PlanOf

LEMMA ReleasedFields ==
  ASSUME TypeOK, NEW v \in Vehicles
  PROVE  /\ Released(v).leg = NoLeg /\ Released(v).plan = vehicles[v].plan
         /\ Released(v).reserved = vehicles[v].reserved
         /\ Released(v).status = Parked(v, clock')
         /\ Released(v) \in VehicleRecord
<1>1. vehicles[v] \in VehicleRecord
  BY TypeParts
<1>2. QED
  BY <1>1, ReleasedType DEF Released, VehicleRecord

(* Advance, when no leg starts and when one does.                          *)
LEMMA Advances ==
  ASSUME NEW v \in Vehicles, NEW r \in Requests
  PROVE  /\ Advance(v, FALSE)[r] = IF r = vehicles[v].leg.request
                                   THEN FinishRequest(requests[r], v, vehicles[v].leg)
                                   ELSE requests[r]
         /\ Head(vehicles[v].plan).request # r => Advance(v, TRUE)[r] = Advance(v, FALSE)[r]
         /\ Head(vehicles[v].plan).request = r =>
              Advance(v, TRUE)[r] = StartRequest(Advance(v, FALSE)[r], v, Head(vehicles[v].plan))
<1> DEFINE finished == IF r = vehicles[v].leg.request
                       THEN FinishRequest(requests[r], v, vehicles[v].leg) ELSE requests[r]
<1>1. Advance(v, FALSE)[r] = finished
  BY Zenon DEF Advance
<1>2. Advance(v, TRUE)[r] = IF Head(vehicles[v].plan).request = r
                            THEN StartRequest(finished, v, Head(vehicles[v].plan)) ELSE finished
  BY Zenon DEF Advance
<1>3. QED
  BY <1>1, <1>2

(* The passenger is picked up: the ride starts.                            *)
LEMMA PickedUp ==
  ASSUME TypeOK, Ordered, RecordsFit, NEW v \in Vehicles, LegCompleted(v),
         vehicles[v].leg.kind = "PICKUP"
  PROVE  LET r == vehicles[v].leg.request
             started == Driving("SERVICE", "SERVICE", r,
                          clock' + Larger(MinLeg, RealizedService[r]), <<>>, NoRequest)
         IN  /\ requests' = [requests EXCEPT ![r] = Row("IN_SERVICE", v, NoVehicle, v)]
             /\ vehicles' = [vehicles EXCEPT ![v] = started]
             /\ events' = Rest("LEG_COMPLETED", v) \cup {LegEvent(v, started)}
             /\ UNCHANGED <<index, book>>
<1> DEFINE r == vehicles[v].leg.request
           started == Driving("SERVICE", "SERVICE", r,
                        clock' + Larger(MinLeg, RealizedService[r]), <<>>, NoRequest)
<1>1. /\ LegEnds(v) /\ r \in Requests
      /\ requests[r] = Row("PICKUP_STARTED", v, NoVehicle, v)
      /\ vehicles[v].reserved = NoRequest /\ vehicles[v].plan = <<Stop("DROP_OFF", r)>>
  BY LegEnding DEF LegCompleted
<1>2. vehicles' = [vehicles EXCEPT ![v] = started]
  <2>1. PICK ride \in PickupEtas :
          vehicles' = [vehicles EXCEPT ![v] = StartNextLeg(v, Released(v), clock', ride)]
    BY DEF LegCompleted
  <2>2. Released(v).plan = <<Stop("DROP_OFF", r)>> /\ Released(v).reserved = NoRequest
    BY <1>1, ReleasedFields
  <2>0. r \in Requests
    BY <1>1
  <2> DEFINE x == Released(v)
  <2> HIDE DEF x, r
  <2>3. x.plan = <<Stop("DROP_OFF", r)>> =>
          StartNextLeg(v, x, clock', ride) =
            Driving("SERVICE", "SERVICE", r, clock' + Larger(MinLeg, RealizedService[r]), <<>>,
                    x.reserved)
    BY <2>0, StartedLeg
  <2>4. QED
    BY <2>1, <2>2, <2>3 DEF x, r
<1>3. requests' = [requests EXCEPT ![r] = Row("IN_SERVICE", v, NoVehicle, v)]
  <2>0. FinishRequest(Row("PICKUP_STARTED", v, NoVehicle, v), v, vehicles[v].leg)
          = Row("BOARDED", v, NoVehicle, v)
    BY Rides
  <2>01. StartRequest(Row("BOARDED", v, NoVehicle, v), v, Stop("DROP_OFF", r))
           = Row("IN_SERVICE", v, NoVehicle, v)
    BY Rides
  <2>1. Advance(v, FALSE)[r] = Row("BOARDED", v, NoVehicle, v)
    BY <1>1, <2>0, Advances
  <2>2. vehicles[v].plan # <<>> /\ Head(vehicles[v].plan) = Stop("DROP_OFF", r)
          /\ Head(vehicles[v].plan).request = r
    BY <1>1, Stops DEF Stop
  <2>3. Advance(v, TRUE)[r] = Row("IN_SERVICE", v, NoVehicle, v)
    BY <1>1, <2>01, <2>1, <2>2, Advances
  <2>4. \A s \in Requests : s # r => Advance(v, TRUE)[s] = requests[s]
    BY <2>2, Advances
  <2>5. requests' = Advance(v, TRUE)
    BY <2>2 DEF LegCompleted
  <2>6. Advance(v, TRUE) = [s \in Requests |-> Advance(v, TRUE)[s]]
    BY Zenon DEF Advance
  <2>7. requests \in [Requests -> RequestRecord]
    BY TypeParts
  <2> DEFINE new == Advance(v, TRUE)
  <2> HIDE DEF new
  <2>8. new = [requests EXCEPT ![r] = Row("IN_SERVICE", v, NoVehicle, v)]
    BY <1>1, <2>3, <2>4, <2>6, <2>7 DEF new
  <2>9. QED
    BY <2>5, <2>8 DEF new
<1>4. events' = Rest("LEG_COMPLETED", v) \cup {LegEvent(v, started)}
  <2>1. vehicles'[v] = started
    BY <1>2, TypeParts
  <2>2. started.leg # NoLeg
    BY DEF Driving, NoLeg
  <2> HIDE DEF started
  <2>3. QED
    BY <2>1, <2>2 DEF LegCompleted, NextLegEvent
<1>5. ServedBy(v) = {}
  BY DEF ServedBy
<1>6. index' = index
  <2>1. {s \in Requests : requests[s].status = "RESERVED" /\ requests'[s].status # "RESERVED"} = {}
    <3>1. requests[r].status = "PICKUP_STARTED"
      BY <1>1, RowFields
    <3>2. \A s \in Requests : s # r => requests'[s] = requests[s]
      BY <1>3
    <3>3. QED
      BY <3>1, <3>2
  <2>2. index' = [index EXCEPT !.completed = @ \cup {}, !.reserved = @ \ {}]
    BY <1>5, <2>1 DEF LegCompleted
  <2>3. QED
    BY <2>2, TypeParts DEF IndexRecord
<1>7. book' = book
  BY <1>5, TypeParts DEF LegCompleted
<1>8. QED
  BY <1>2, <1>3, <1>4, <1>6, <1>7

(* The passenger arrives: what every outcome of the end of a ride shares.  *)
LEMMA Arrives ==
  ASSUME TypeOK, Ordered, RecordsFit, NEW v \in Vehicles, LegEnds(v),
         vehicles[v].leg.kind = "SERVICE"
  PROVE  LET r == vehicles[v].leg.request
         IN  /\ r \in Requests /\ ServedBy(v) = {r}
             /\ requests[r] = Row("IN_SERVICE", v, NoVehicle, v)
             /\ requests[r].status = "IN_SERVICE" /\ vehicles[v].reserved # r
             /\ Advance(v, FALSE) = [requests EXCEPT ![r] = Row("COMPLETED", v, NoVehicle, v)]
             /\ r \notin index.reserved /\ book[r] = NoVehicle
<1> DEFINE r == vehicles[v].leg.request
<1>1. r \in Requests /\ requests[r] = Row("IN_SERVICE", v, NoVehicle, v)
  BY LegEnding
<1>2. requests[r].status = "IN_SERVICE" /\ requests[r].reserved = NoVehicle
  BY <1>1, RowFields
<1>3. r \notin index.reserved
  BY <1>1, <1>2 DEF RecordsFit, IndexAgreement
<1>4. book[r] = NoVehicle
  BY <1>1, <1>2 DEF RecordsFit, HoldFits
<1>5. vehicles[v].reserved # r
  BY <1>1, <1>2, KindsAssumption DEF RecordsFit, HoldFits
<1>6. Advance(v, FALSE) = [requests EXCEPT ![r] = Row("COMPLETED", v, NoVehicle, v)]
  <2>1. FinishRequest(Row("IN_SERVICE", v, NoVehicle, v), v, vehicles[v].leg)
          = Row("COMPLETED", v, NoVehicle, v)
    BY Rides
  <2>2. Advance(v, FALSE)[r] = Row("COMPLETED", v, NoVehicle, v)
    BY <1>1, <2>1, Advances
  <2>3. \A s \in Requests : s # r => Advance(v, FALSE)[s] = requests[s]
    BY Advances
  <2>4. Advance(v, FALSE) = [s \in Requests |-> Advance(v, FALSE)[s]]
    BY Zenon DEF Advance
  <2>5. requests \in [Requests -> RequestRecord]
    BY TypeParts
  <2> DEFINE new == Advance(v, FALSE)
  <2> HIDE DEF new
  <2>6. new = [requests EXCEPT ![r] = Row("COMPLETED", v, NoVehicle, v)]
    BY <1>1, <2>2, <2>3, <2>4, <2>5 DEF new
  <2>7. QED
    BY <2>6 DEF new
<1>7. ServedBy(v) = {r}
  BY DEF ServedBy
<1>8. QED
  BY <1>1, <1>2, <1>3, <1>4, <1>5, <1>6, <1>7

(* A vehicle without further stops parks.                                  *)
LEMMA ParksAfter ==
  ASSUME TypeOK, NEW v \in Vehicles, vehicles[v].plan = <<>>, NEW ride
  PROVE  StartNextLeg(v, Released(v), clock', ride) = Released(v)
<1> DEFINE x == Released(v)
<1>1. x \in VehicleRecord /\ x.status = Parked(v, clock') /\ x.plan = <<>>
  BY ReleasedFields
<1>2. StartNextLeg(v, x, clock', ride) = [x EXCEPT !.status = Parked(v, clock')]
  BY <1>1 DEF StartNextLeg
<1> HIDE DEF x
<1>3. [x EXCEPT !.status = Parked(v, clock')] = x
  BY <1>1 DEF VehicleRecord
<1>4. QED
  BY <1>2, <1>3 DEF x

(* The passenger arrives and no reservation waits: the vehicle parks.      *)
LEMMA DroppedOff ==
  ASSUME TypeOK, Ordered, RecordsFit, NEW v \in Vehicles, LegCompleted(v),
         vehicles[v].leg.kind = "SERVICE"
  PROVE  LET r == vehicles[v].leg.request
         IN  /\ requests' = [requests EXCEPT ![r] = Row("COMPLETED", v, NoVehicle, v)]
             /\ vehicles' = [vehicles EXCEPT ![v] = Released(v)]
             /\ vehicles[v].plan = <<>> /\ vehicles[v].reserved = NoRequest
             /\ events' = Rest("LEG_COMPLETED", v)
             /\ index' = [index EXCEPT !.completed = @ \cup {r}]
             /\ UNCHANGED book
<1> DEFINE r == vehicles[v].leg.request
<1>1. LegEnds(v) /\ vehicles[v].reserved = NoRequest /\ vehicles[v].plan = <<>>
  BY LegEnding DEF LegCompleted, AwaitsRevalidation
<1>2. vehicles' = [vehicles EXCEPT ![v] = Released(v)]
  BY <1>1, ParksAfter DEF LegCompleted
<1>3. requests' = [requests EXCEPT ![r] = Row("COMPLETED", v, NoVehicle, v)]
  BY <1>1, Arrives DEF LegCompleted
<1>4. events' = Rest("LEG_COMPLETED", v)
  <2>1. vehicles'[v].leg = NoLeg
    BY <1>2, ReleasedFields, TypeParts
  <2>2. QED
    BY <2>1 DEF LegCompleted, NextLegEvent
<1>5. index' = [index EXCEPT !.completed = @ \cup {r}]
  <2>1. {s \in Requests : requests[s].status = "RESERVED" /\ requests'[s].status # "RESERVED"} = {}
    <3>1. \A s \in Requests : s # r => requests'[s] = requests[s]
      BY <1>3
    <3>2. requests[r].status = "IN_SERVICE"
      BY <1>1, Arrives
    <3>3. QED
      BY <3>1, <3>2
  <2>2. index' = [index EXCEPT !.completed = @ \cup {r}, !.reserved = @ \ ({r} \cup {})]
    BY <1>1, <2>1, Arrives DEF LegCompleted
  <2>3. r \notin index.reserved
    BY <1>1, Arrives
  <2>4. QED
    BY <2>2, <2>3, TypeParts DEF IndexRecord
<1>6. book' = book
  <2>1. book[r] = NoVehicle /\ ServedBy(v) = {r}
    BY <1>1, Arrives
  <2>2. book' = [s \in Requests |-> IF s \in {r} THEN NoVehicle ELSE book[s]]
    BY <2>1 DEF LegCompleted
  <2>3. QED
    BY <2>1, <2>2, TypeParts
<1>7. QED
  BY <1>1, <1>2, <1>3, <1>4, <1>5, <1>6

(* The passenger arrives and the reserved ride starts.                     *)
LEMMA Promoted ==
  ASSUME TypeOK, Ordered, RecordsFit, NEW v \in Vehicles, LegCompletedPromote(v)
  PROVE  LET q == vehicles[v].leg.request
             r == vehicles[v].reserved
         IN  /\ vehicles[v].leg.kind = "SERVICE" /\ q \in Requests /\ r \in Requests /\ q # r
             /\ r \notin Stranded /\ requests[r].status = "RESERVED" /\ requests[r].reserved = v
             /\ requests' = [requests EXCEPT ![q] = Row("COMPLETED", v, NoVehicle, v),
                                             ![r] = Row("PICKUP_STARTED", v, NoVehicle, v)]
             /\ \E off \in SafeOffsets, eta \in PickupEtas :
                  LET started == Driving("PICKUP", "PICKUP", r, clock' + Larger(MinLeg, eta),
                                         <<Stop("DROP_OFF", r)>>, NoRequest)
                  IN  /\ Revalidates(v, Larger(clock', clock' + off) + eta)
                      /\ vehicles' = [vehicles EXCEPT ![v] = started]
                      /\ events' = Rest("LEG_COMPLETED", v) \cup {LegEvent(v, started)}
             /\ index' = [index EXCEPT !.completed = @ \cup {q}, !.reserved = @ \ {r}]
             /\ book' = [book EXCEPT ![r] = NoVehicle]
<1> DEFINE q == vehicles[v].leg.request
           r == vehicles[v].reserved
<1>1. LegEnds(v) /\ vehicles[v].leg.kind = "SERVICE" /\ r # NoRequest
  BY DEF LegCompletedPromote, AwaitsRevalidation
<1>2. r \in Requests /\ r \notin Stranded /\ vehicles[v].plan = AssignmentPlan(r)
  BY <1>1, LegEnding
<1>3. /\ q \in Requests /\ ServedBy(v) = {q} /\ r # q /\ q \notin index.reserved
      /\ book[q] = NoVehicle
      /\ Advance(v, FALSE) = [requests EXCEPT ![q] = Row("COMPLETED", v, NoVehicle, v)]
  BY <1>1, Arrives
<1>4. requests[r].reserved = v /\ requests[r].status = "RESERVED" /\ requests[r].econ = v
        /\ requests[r] \in RequestRecord
  BY <1>2, KindsAssumption, TypeParts DEF RecordsFit, HoldFits, EconomicsFit
<1>5. requests[r] = Row("RESERVED", requests[r].assigned, v, v)
  BY <1>4, RowOf
<1>6. vehicles[v].plan # <<>> /\ Head(vehicles[v].plan) = Stop("PICKUP", r)
        /\ Head(vehicles[v].plan).request = r
  BY <1>2, Stops DEF Stop
<1>7. requests' = [requests EXCEPT ![q] = Row("COMPLETED", v, NoVehicle, v),
                                   ![r] = Row("PICKUP_STARTED", v, NoVehicle, v)]
  <2>1. StartRequest(Row("RESERVED", requests[r].assigned, v, v), v, Stop("PICKUP", r))
          = Row("PICKUP_STARTED", v, NoVehicle, v)
    BY Rides
  <2> DEFINE new == Advance(v, TRUE)
             old == Advance(v, FALSE)
  <2>2. requests' = new
    BY <1>6 DEF LegCompletedPromote
  <2>3. old[r] = requests[r]
    BY <1>2, <1>3, Advances
  <2>4. new[r] = Row("PICKUP_STARTED", v, NoVehicle, v)
    <3>1. new[r] = StartRequest(old[r], v, Head(vehicles[v].plan))
      BY <1>2, <1>6, Advances
    <3> HIDE DEF new, old
    <3>2. QED
      BY <1>5, <1>6, <2>1, <2>3, <3>1
  <2>5. \A s \in Requests : s # r => new[s] = old[s]
    BY <1>6, Advances
  <2>6. new = [s \in Requests |-> new[s]]
    BY Zenon DEF Advance
  <2>7. requests \in [Requests -> RequestRecord]
    BY TypeParts
  <2>8. old = [requests EXCEPT ![q] = Row("COMPLETED", v, NoVehicle, v)]
    BY <1>3
  <2> HIDE DEF new, old
  <2>9. new = [requests EXCEPT ![q] = Row("COMPLETED", v, NoVehicle, v),
                               ![r] = Row("PICKUP_STARTED", v, NoVehicle, v)]
    BY <1>2, <1>3, <2>4, <2>5, <2>6, <2>7, <2>8
  <2>10. QED
    BY <2>2, <2>9
<1>8. \E off \in SafeOffsets, eta \in PickupEtas :
        LET started == Driving("PICKUP", "PICKUP", r, clock' + Larger(MinLeg, eta),
                               <<Stop("DROP_OFF", r)>>, NoRequest)
        IN  /\ Revalidates(v, Larger(clock', clock' + off) + eta)
            /\ vehicles' = [vehicles EXCEPT ![v] = started]
            /\ events' = Rest("LEG_COMPLETED", v) \cup {LegEvent(v, started)}
  <2>1. PICK off \in SafeOffsets, eta \in PickupEtas :
          /\ Revalidates(v, Larger(clock', clock' + off) + eta)
          /\ vehicles' = [vehicles EXCEPT ![v] = StartNextLeg(v, Released(v), clock', eta)]
    BY DEF LegCompletedPromote
  <2> DEFINE started == Driving("PICKUP", "PICKUP", r, clock' + Larger(MinLeg, eta),
                                <<Stop("DROP_OFF", r)>>, NoRequest)
             x == Released(v)
             s == r
  <2>2. x.plan = AssignmentPlan(s) /\ s \in Requests
    BY <1>2, ReleasedFields
  <2>3. requests[s].status = "RESERVED"
    BY <1>4
  <2> HIDE DEF x, s
  <2>4. StartNextLeg(v, x, clock', eta)
          = Driving("PICKUP", "PICKUP", s, clock' + Larger(MinLeg, eta),
                    <<Stop("DROP_OFF", s)>>, NoRequest)
    BY <2>2, <2>3, StartedLeg
  <2>5. StartNextLeg(v, Released(v), clock', eta) = started
    BY <2>4 DEF x, s
  <2>6. vehicles' = [vehicles EXCEPT ![v] = started]
    BY <2>1, <2>5
  <2>7. vehicles'[v] = started
    BY <2>6, TypeParts
  <2>8. started.leg # NoLeg
    BY DEF Driving, NoLeg
  <2>9. events' = Rest("LEG_COMPLETED", v) \cup {LegEvent(v, started)}
    <3> HIDE DEF started
    <3>1. QED
      BY <2>7, <2>8 DEF LegCompletedPromote, NextLegEvent
  <2>10. QED
    BY <2>1, <2>6, <2>9
<1>9. index' = [index EXCEPT !.completed = @ \cup {q}, !.reserved = @ \ {r}]
  <2>1. index' = [index EXCEPT !.completed = @ \cup {q}, !.reserved = @ \ ({q} \cup {r})]
    BY <1>3 DEF LegCompletedPromote
  <2>2. q \notin index.reserved
    BY <1>3
  <2> HIDE DEF q, r
  <2>3. QED
    BY <2>1, <2>2, TypeParts DEF IndexRecord
<1>10. book' = [book EXCEPT ![r] = NoVehicle]
  <2>1. book' = [s \in Requests |-> IF s \in {q} \cup {r} THEN NoVehicle ELSE book[s]]
    BY <1>3 DEF LegCompletedPromote
  <2>2. QED
    BY <1>2, <1>3, <2>1, TypeParts
<1>11. QED
  BY <1>1, <1>2, <1>3, <1>4, <1>7, <1>8, <1>9, <1>10

(* The passenger arrives and the reserved ride cannot be kept.             *)
LEMMA Invalidated ==
  ASSUME TypeOK, Ordered, RecordsFit, NEW v \in Vehicles, LegCompletedInvalidate(v)
  PROVE  LET q == vehicles[v].leg.request
             r == vehicles[v].reserved
         IN  /\ vehicles[v].leg.kind = "SERVICE" /\ q \in Requests /\ r \in Requests /\ q # r
             /\ r \notin Stranded /\ requests[r].status = "RESERVED" /\ requests[r].reserved = v
             /\ requests' = [requests EXCEPT ![q] = Row("COMPLETED", v, NoVehicle, v)]
             /\ vehicles' = [vehicles EXCEPT ![v] = Released(v)]
             /\ events' = Rest("LEG_COMPLETED", v) \cup
                            {SimulationEvent(clock', "PLAN_INVALIDATED", r)}
             /\ index' = [index EXCEPT !.completed = @ \cup {q}]
             /\ book' = [book EXCEPT ![r] = NoVehicle]
<1> DEFINE q == vehicles[v].leg.request
           r == vehicles[v].reserved
<1>1. LegEnds(v) /\ vehicles[v].leg.kind = "SERVICE" /\ r # NoRequest
  BY DEF LegCompletedInvalidate, AwaitsRevalidation
<1>2. r \in Requests /\ r \notin Stranded
  BY <1>1, LegEnding
<1>3. /\ q \in Requests /\ ServedBy(v) = {q} /\ r # q /\ q \notin index.reserved
      /\ book[q] = NoVehicle
      /\ Advance(v, FALSE) = [requests EXCEPT ![q] = Row("COMPLETED", v, NoVehicle, v)]
  BY <1>1, Arrives
<1>4. requests[r].reserved = v /\ requests[r].status = "RESERVED"
  BY <1>2, KindsAssumption DEF RecordsFit, HoldFits
<1>5. index' = [index EXCEPT !.completed = @ \cup {q}]
  <2>1. index' = [index EXCEPT !.completed = @ \cup {q}, !.reserved = @ \ {q}]
    BY <1>3 DEF LegCompletedInvalidate
  <2>2. index.reserved \ {q} = index.reserved
    BY <1>3
  <2> HIDE DEF q, r
  <2>3. QED
    BY <2>1, <2>2, TypeParts DEF IndexRecord
<1>6. book' = [book EXCEPT ![r] = NoVehicle]
  <2>1. book' = [s \in Requests |-> IF s \in {q} \cup {r} THEN NoVehicle ELSE book[s]]
    BY <1>3 DEF LegCompletedInvalidate
  <2>2. QED
    BY <1>2, <1>3, <2>1, TypeParts
<1>7. /\ requests' = Advance(v, FALSE)
      /\ vehicles' = [vehicles EXCEPT ![v] = Released(v)]
      /\ events' = Rest("LEG_COMPLETED", v) \cup {SimulationEvent(clock', "PLAN_INVALIDATED", r)}
  BY DEF LegCompletedInvalidate
<1>8. QED
  BY <1>1, <1>2, <1>3, <1>4, <1>5, <1>6, <1>7

(* An idle movement ends: the vehicle parks and nothing else happens.      *)
LEMMA MovementOver ==
  ASSUME TypeOK, Ordered, RecordsFit, NEW v \in Vehicles, LegCompleted(v),
         vehicles[v].leg.kind \notin {"PICKUP", "SERVICE"}
  PROVE  /\ vehicles' = [vehicles EXCEPT ![v] = Released(v)]
         /\ vehicles[v].plan = <<>> /\ vehicles[v].reserved = NoRequest
         /\ events' = Rest("LEG_COMPLETED", v)
         /\ UNCHANGED <<requests, index, book>>
<1>1. LegEnds(v) /\ vehicles[v].reserved = NoRequest /\ vehicles[v].plan = <<>>
  BY LegEnding DEF LegCompleted
<1>2. vehicles' = [vehicles EXCEPT ![v] = Released(v)]
  BY <1>1, ParksAfter DEF LegCompleted
<1>3. requests' = requests
  <2>1. \A s \in Requests : FinishRequest(requests[s], v, vehicles[v].leg) = requests[s]
    BY DEF FinishRequest
  <2>2. ASSUME NEW s \in Requests PROVE Advance(v, FALSE)[s] = requests[s]
    BY <2>1, Advances
  <2>3. Advance(v, FALSE) = [s \in Requests |-> Advance(v, FALSE)[s]]
    BY Zenon DEF Advance
  <2>4. requests' = Advance(v, FALSE)
    BY <1>1 DEF LegCompleted
  <2> DEFINE new == Advance(v, FALSE)
  <2> HIDE DEF new
  <2>5. new = requests
    BY <2>2, <2>3, TypeParts DEF new
  <2>6. QED
    BY <2>4, <2>5 DEF new
<1>4. events' = Rest("LEG_COMPLETED", v)
  <2>1. vehicles'[v].leg = NoLeg
    BY <1>2, ReleasedFields, TypeParts
  <2>2. QED
    BY <2>1 DEF LegCompleted, NextLegEvent
<1>5. ServedBy(v) = {}
  BY DEF ServedBy
<1>6. index' = index /\ book' = book
  <2>1. {s \in Requests : requests[s].status = "RESERVED" /\ requests'[s].status # "RESERVED"} = {}
    BY <1>3
  <2>2. index' = [index EXCEPT !.completed = @ \cup {}, !.reserved = @ \ {}]
    BY <1>5, <2>1 DEF LegCompleted
  <2>3. book' = [s \in Requests |-> IF s \in {} THEN NoVehicle ELSE book[s]]
    BY <1>5 DEF LegCompleted
  <2>4. QED
    BY <2>2, <2>3, TypeParts DEF IndexRecord
<1>7. QED
  BY <1>1, <1>2, <1>3, <1>4, <1>6

-----------------------------------------------------------------------------
(* What a handler leaves as it was, part by part.                          *)
LEMMA StrandedKept ==
  ASSUME TypeOK, Ordered, StrandedFits, NEW kind, NEW id, NEW kinds, Pop(kind, id), Leaves(kind, id, kinds),
         kind # "PLAN_INVALIDATED", "PLAN_INVALIDATED" \notin kinds,
         \A r \in Stranded : requests'[r].status = "RESERVED"
  PROVE  StrandedFits' /\ Stranded' = Stranded
<1>1. Stranded' = Stranded
  BY StrandedSame
<1>2. ASSUME NEW e \in events', e.kind = "PLAN_INVALIDATED"
      PROVE  /\ e = SimulationEvent(clock', "PLAN_INVALIDATED", e.id)
             /\ e.id \in Requests /\ requests'[e.id].status = "RESERVED"
  <2>1. e \in events
    BY <1>2 DEF Rest, Leaves
  <2>2. e = SimulationEvent(clock, "PLAN_INVALIDATED", e.id) /\ e.id \in Requests
          /\ e.id \in Stranded
    BY <1>2, <2>1 DEF StrandedFits, Stranded
  <2>3. clock' = clock
    BY <2>2, StrandedNow
  <2>4. QED
    BY <2>2, <2>3 DEF Stranded
<1>3. QED
  BY <1>1, <1>2 DEF StrandedFits

LEMMA LegsKept ==
  ASSUME EveryLegWillEnd, NEW kind, NEW id, NEW kinds, Leaves(kind, id, kinds),
         kind # "LEG_COMPLETED", "LEG_COMPLETED" \notin kinds,
         \A v \in Vehicles : vehicles'[v].leg = vehicles[v].leg
  PROVE  EveryLegWillEnd'
<1> DEFINE popped == SimulationEvent(clock', kind, id)
<1>1. popped.kind = kind
  BY EventFields
<1> HIDE DEF popped
<1>2. ASSUME NEW v \in Vehicles
      PROVE  {e \in events' : e.kind = "LEG_COMPLETED" /\ e.id = v}
               = {e \in events : e.kind = "LEG_COMPLETED" /\ e.id = v}
  BY <1>1 DEF Rest, Leaves, popped
<1>3. ASSUME NEW v \in Vehicles
      PROVE  LegEvent(v, vehicles'[v]) = LegEvent(v, vehicles[v])
  BY DEF LegEvent
<1>4. QED
  BY <1>2, <1>3 DEF EveryLegWillEnd

(* The leg of one vehicle ends, and another may start.                     *)
LEMMA LegReplaced ==
  ASSUME EveryLegWillEnd, NEW v \in Vehicles, NEW vehicle, NEW pushed,
         Pop("LEG_COMPLETED", v), vehicles[v].leg.end = clock',
         vehicles' = [vehicles EXCEPT ![v] = vehicle], DOMAIN vehicles = Vehicles,
         events' = Rest("LEG_COMPLETED", v) \cup pushed,
         {e \in pushed : e.kind = "LEG_COMPLETED"} =
           IF vehicle.leg = NoLeg THEN {} ELSE {LegEvent(v, vehicle)}
  PROVE  EveryLegWillEnd'
<1> DEFINE popped == SimulationEvent(clock', "LEG_COMPLETED", v)
           ends(w) == {e \in events : e.kind = "LEG_COMPLETED" /\ e.id = w}
           new(w) == {e \in events' : e.kind = "LEG_COMPLETED" /\ e.id = w}
<1>1. popped.kind = "LEG_COMPLETED" /\ popped.id = v /\ popped = LegEvent(v, vehicles[v])
  BY EventFields DEF LegEvent
<1>2. LegEvent(v, vehicle).id = v /\ LegEvent(v, vehicle).kind = "LEG_COMPLETED"
  BY EventFields DEF LegEvent
<1>3. \A w \in Vehicles : ends(w) = IF vehicles[w].leg = NoLeg THEN {} ELSE {LegEvent(w, vehicles[w])}
  BY DEF EveryLegWillEnd
<1> HIDE DEF popped
<1>4. \A w \in Vehicles : w # v => vehicles'[w] = vehicles[w]
  OBVIOUS
<1>5. vehicles'[v] = vehicle
  OBVIOUS
<1>6. events' = (events \ {popped}) \cup pushed
  BY DEF Rest, popped
<1>7. \A w \in Vehicles : w # v => new(w) = ends(w)
  BY <1>1, <1>2, <1>6
<1>8. new(v) = IF vehicle.leg = NoLeg THEN {} ELSE {LegEvent(v, vehicle)}
  <2>1. ends(v) \subseteq {popped}
    BY <1>1, <1>3
  <2>2. new(v) = {e \in pushed : e.kind = "LEG_COMPLETED" /\ e.id = v}
    BY <1>6, <2>1
  <2>3. {e \in pushed : e.kind = "LEG_COMPLETED" /\ e.id = v}
          = {e \in {e \in pushed : e.kind = "LEG_COMPLETED"} : e.id = v}
    OBVIOUS
  <2>4. QED
    BY <1>2, <2>2, <2>3
<1>9. ASSUME NEW w \in Vehicles
      PROVE  new(w) = IF vehicles'[w].leg = NoLeg THEN {} ELSE {LegEvent(w, vehicles'[w])}
  BY <1>3, <1>4, <1>5, <1>7, <1>8
<1>10. QED
  BY <1>9 DEF EveryLegWillEnd

LEMMA ExpiryKept ==
  ASSUME NEW kind, NEW id, NEW kinds, Leaves(kind, id, kinds),
         kinds \subseteq PushedKinds,
         kind # "RESERVATION_EXPIRED", Stranded' = Stranded,
         NEW r \in Requests, ExpiryFits(r),
         requests'[r].status = "RESERVED" => requests[r].status = "RESERVED"
  PROVE  ExpiryFits(r)'
  BY StillQueued DEF ExpiryFits

(* The offers, by an event that is not an answer.                          *)
LEMMA OffersKept ==
  ASSUME OffersFit, NEW kind, NEW id, NEW kinds, Leaves(kind, id, kinds),
         kinds \subseteq PushedKinds,
         kind # "DRIVER_RESPONSE", UNCHANGED offers,
         offers \subseteq OfferRecord,
         \A r \in Requests : requests'[r].status = "OFFERED" <=> requests[r].status = "OFFERED",
         \A r \in Requests : requests[r].status = "OFFERED" => requests'[r].econ = requests[r].econ,
         \A o \in offers :
           /\ vehicles'[o.vehicle].reserved = NoRequest
           /\ vehicles'[o.vehicle].leg.kind \in {"NONE", "SERVICE"}
           /\ ~o.preassigned => /\ vehicles'[o.vehicle].leg = NoLeg
                                /\ vehicles'[o.vehicle].status \in {"WAITING", "OFFLINE"},
         \A v \in Vehicles : vehicles'[v].status = "WAITING" => vehicles[v].status = "WAITING"
  PROVE  OffersFit'
<1>1. ASSUME NEW o \in offers
      PROVE  OfferFits(o)'
  <2>1. o.request \in Requests /\ OfferFits(o)
    BY DEF OfferRecord, OffersFit
  <2>2. \E e \in events' : e.kind = "DRIVER_RESPONSE" /\ e.id = <<o.request, o.vehicle>>
    <3> DEFINE popped == SimulationEvent(clock', kind, id)
    <3>1. popped.kind = kind
      BY EventFields
    <3> HIDE DEF popped
    <3>2. PICK e \in events : e.kind = "DRIVER_RESPONSE" /\ e.id = <<o.request, o.vehicle>>
      BY <2>1 DEF OfferFits
    <3>3. e \in events'
      BY <3>1, <3>2 DEF Rest, Leaves, popped
    <3>4. QED
      BY <3>2, <3>3
  <2> DEFINE start == SimulationEvent(OnlineStart[o.vehicle], "HV_SESSION_START", o.vehicle)
  <2>3. start \notin events => start \notin events'
    <3>1. start.kind = "HV_SESSION_START"
      BY EventFields
    <3> HIDE DEF start
    <3>2. QED
      BY <3>1 DEF Rest, Leaves, PushedKinds
  <2>4. QED
    BY <2>1, <2>2, <2>3 DEF OfferFits
<1>2. QED
  BY <1>1 DEF OffersFit

LEMMA VehicleKept ==
  ASSUME NEW v \in Vehicles, VehicleFits(v), vehicles'[v] = vehicles[v],
         vehicles[v].reserved \in Stranded' <=> vehicles[v].reserved \in Stranded
  PROVE  VehicleFits(v)'
  BY DEF VehicleFits, PlanOf

LEMMA VehicleParks ==
  ASSUME TypeOK, NEW v \in Vehicles, vehicles'[v] = Released(v),
         vehicles[v].plan = IF vehicles[v].reserved = NoRequest THEN <<>>
                            ELSE AssignmentPlan(vehicles[v].reserved),
         vehicles[v].reserved # NoRequest => vehicles[v].reserved \in Stranded'
  PROVE  VehicleFits(v)'
<1>1. /\ vehicles'[v].leg = NoLeg /\ vehicles'[v].plan = vehicles[v].plan
      /\ vehicles'[v].reserved = vehicles[v].reserved
      /\ vehicles'[v].status \in {"IDLE", "OFFLINE"}
  BY ReleasedFields, ParkedType
<1>2. NoLeg.kind = "NONE"
  BY DEF NoLeg
<1>3. QED
  BY <1>1, <1>2 DEF VehicleFits, PlanOf

-----------------------------------------------------------------------------
(* REQUEST_REVEALED.                                                       *)
LEMMA Revealed ==
  ASSUME TypeOK, Ordered, RecordsFit, NEW r \in Requests, RequestRevealed(r)
  PROVE  /\ SimulationEvent(clock', "REQUEST_REVEALED", r) \in events
         /\ SimulationEvent(clock', "REQUEST_REVEALED", r) \notin Rest("REQUEST_REVEALED", r)
         /\ RequestTime[r] = clock'
         /\ requests[r].status = "UNREVEALED" /\ requests'[r].status = "PENDING"
         /\ requests'[r].assigned = requests[r].assigned
         /\ requests'[r].reserved = requests[r].reserved
         /\ requests'[r].econ = requests[r].econ
         /\ \A s \in Requests : s # r => requests'[s] = requests[s]
<1> DEFINE e == SimulationEvent(clock', "REQUEST_REVEALED", r)
<1>1. /\ Pop("REQUEST_REVEALED", r) /\ Leaves("REQUEST_REVEALED", r, {})
      /\ UNCHANGED <<vehicles, offers, book>>
  BY LeavesRest DEF RequestRevealed
<1>2. e \in events /\ RequestTime[r] = clock' /\ e \notin Rest("REQUEST_REVEALED", r)
  <2>1. e \in events /\ e \notin Rest("REQUEST_REVEALED", r)
    BY <1>1, Popped
  <2>2. e.kind = "REQUEST_REVEALED" /\ e.at = clock' /\ e.id = r
    BY EventFields
  <2> HIDE DEF e
  <2>3. QED
    BY <2>1, <2>2 DEF RecordsFit, QueueFits
<1>3. requests[r].status = "UNREVEALED"
  BY <1>2 DEF RecordsFit, RevealFits
<1> HIDE DEF e
<1>4. /\ requests'[r].status = "PENDING" /\ requests'[r].assigned = requests[r].assigned
      /\ requests'[r].reserved = requests[r].reserved /\ requests'[r].econ = requests[r].econ
  <2>1. requests[r] \in RequestRecord
    BY TypeParts
  <2>2. requests[r] = Row("UNREVEALED", requests[r].assigned, requests[r].reserved, requests[r].econ)
    BY <1>3, <2>1, RowOf
  <2>3. Transition(requests[r], "PENDING")
          = Row("PENDING", requests[r].assigned, requests[r].reserved, requests[r].econ)
    BY <2>2, Steps, LegalSteps
  <2>4. requests'[r] = Transition(requests[r], "PENDING")
    BY TypeParts DEF RequestRevealed
  <2>5. QED
    BY <2>3, <2>4, RowFields
<1>5. \A s \in Requests : s # r => requests'[s] = requests[s]
  BY TypeParts DEF RequestRevealed
<1>6. QED
  BY <1>2, <1>3, <1>4, <1>5 DEF e

LEMMA RevealedFits ==
  ASSUME TypeOK, TypeOK', Ordered, RecordsFit, NEW r \in Requests, RequestRevealed(r)
  PROVE  RecordsFit'
<1> DEFINE e == SimulationEvent(clock', "REQUEST_REVEALED", r)
<1>1. /\ Pop("REQUEST_REVEALED", r) /\ Leaves("REQUEST_REVEALED", r, {})
      /\ UNCHANGED <<vehicles, offers, book>>
  BY LeavesRest DEF RequestRevealed
<1>2. e \in events /\ RequestTime[r] = clock' /\ e \notin Rest("REQUEST_REVEALED", r)
  BY Revealed
<1> HIDE DEF e
<1>3. requests[r].status = "UNREVEALED"
  BY Revealed
<1>4. /\ requests'[r].status = "PENDING" /\ requests'[r].assigned = requests[r].assigned
      /\ requests'[r].reserved = requests[r].reserved /\ requests'[r].econ = requests[r].econ
  BY Revealed
<1>5. \A s \in Requests : s # r => requests'[s] = requests[s]
  BY Revealed
<1>6. StrandedFits' /\ Stranded' = Stranded
  <2>1. \A s \in Stranded : requests[s].status = "RESERVED" /\ s \in Requests
    BY DEF RecordsFit, StrandedFits, Stranded
  <2>2. QED
    BY <1>1, <1>3, <1>5, <2>1, StrandedKept DEF RecordsFit
<1>7. \A v \in Vehicles : VehicleFits(v)'
  BY <1>1, <1>6, VehicleKept DEF RecordsFit
<1>8. OneVehiclePerRide'
  BY <1>1, <1>3, <1>4, <1>5 DEF RecordsFit, OneVehiclePerRide, OnLeg, LegStatus
<1>9. ASSUME NEW s \in Requests PROVE HoldFits(s)'
  BY <1>1, <1>3, <1>4, <1>5, <1>6 DEF RecordsFit, HoldFits, RestingStatus
<1>10. OffersFit'
  <2>1. \A o \in offers : OfferFits(o)
    BY DEF RecordsFit, OffersFit
  <2>2. QED
    BY <1>1, <1>3, <1>4, <1>5, <2>1, OffersKept, TypeParts DEF RecordsFit, OfferFits
<1>11. AnswersFit' /\ QueueFits'
  BY <1>1, AnswersKept, QueueKept DEF RecordsFit
<1>12. ASSUME NEW s \in Requests PROVE RevealFits(s)'
  <2>1. CASE s = r
    <3>1. SimulationEvent(RequestTime[r], "REQUEST_REVEALED", r) \notin events'
      BY <1>2 DEF e, RequestRevealed
    <3>2. QED
      BY <1>4, <2>1, <3>1 DEF RevealFits
  <2>2. CASE s # r
    <3>1. SimulationEvent(RequestTime[s], "REQUEST_REVEALED", s) \in events <=>
          SimulationEvent(RequestTime[s], "REQUEST_REVEALED", s) \in events'
      BY <1>1, <2>2, StillQueued DEF PushedKinds
    <3>2. QED
      BY <1>5, <2>2, <3>1 DEF RevealFits, RecordsFit
  <2>3. QED
    BY <2>1, <2>2
<1>13. ASSUME NEW s \in Requests PROVE ExpiryFits(s)'
  BY <1>1, <1>4, <1>5, <1>6, ExpiryKept DEF RecordsFit
<1>14. ASSUME NEW s \in Requests PROVE EconomicsFit(s)'
  BY <1>4, <1>5 DEF EconomicsFit, RecordsFit
<1>15. IndexAgreement'
  <2>1. index' = [index EXCEPT !.pending = @ \cup {r}] /\ index \in IndexRecord
    BY TypeParts DEF RequestRevealed, IndexReveal
  <2>2. QED
    BY <1>3, <1>4, <1>5, <2>1 DEF IndexRecord, IndexAgreement, RecordsFit
<1>16. EveryLegWillEnd'
  BY <1>1, LegsKept DEF RecordsFit
<1>17. QED
  BY <1>6, <1>7, <1>8, <1>9, <1>10, <1>11, <1>12, <1>13, <1>14, <1>15, <1>16 DEF RecordsFit

(* HV_SESSION_START and HV_SESSION_END.                                    *)
LEMMA SessionEventFits ==
  ASSUME TypeOK, TypeOK', Ordered, RecordsFit, NEW v \in Vehicles, SessionStart(v) \/ SessionEnd(v)
  PROVE  RecordsFit'
<1>1. PICK kind \in {"HV_SESSION_START", "HV_SESSION_END"} :
        /\ Pop(kind, v) /\ Leaves(kind, v, {})
        /\ UNCHANGED <<requests, index, offers, book>>
        /\ \E status \in {"IDLE", "OFFLINE"} :
             /\ kind = "HV_SESSION_END" => status = "OFFLINE"
             /\ vehicles' = IF vehicles[v].leg = NoLeg THEN [vehicles EXCEPT ![v].status = status]
                                                       ELSE vehicles
  <2>1. CASE SessionStart(v)
    BY <2>1, LeavesRest DEF SessionStart, SessionEvent
  <2>2. CASE SessionEnd(v)
    BY <2>2, LeavesRest DEF SessionEnd, SessionEvent
  <2>3. QED
    BY <2>1, <2>2
<1>2. ASSUME NEW w \in Vehicles
      PROVE  /\ vehicles'[w].leg = vehicles[w].leg /\ vehicles'[w].plan = vehicles[w].plan
             /\ vehicles'[w].reserved = vehicles[w].reserved
             /\ w # v \/ vehicles[w].leg # NoLeg => vehicles'[w] = vehicles[w]
             /\ vehicles[w].leg = NoLeg /\ w = v => vehicles'[w].status \in {"IDLE", "OFFLINE"}
             /\ vehicles[w].leg = NoLeg /\ w = v /\ kind = "HV_SESSION_END"
                  => vehicles'[w].status = "OFFLINE"
  <2>1. vehicles \in [Vehicles -> VehicleRecord] /\ vehicles[w] \in VehicleRecord
    BY TypeParts
  <2>2. PICK status \in {"IDLE", "OFFLINE"} :
             /\ kind = "HV_SESSION_END" => status = "OFFLINE"
             /\ vehicles' = IF vehicles[v].leg = NoLeg THEN [vehicles EXCEPT ![v].status = status]
                                                       ELSE vehicles
    BY <1>1
  <2>3. QED
    BY <2>1, <2>2 DEF VehicleRecord
<1>3. StrandedFits' /\ Stranded' = Stranded
  <2>1. \A s \in Stranded : requests[s].status = "RESERVED" /\ s \in Requests
    BY DEF RecordsFit, StrandedFits, Stranded
  <2>2. QED
    BY <1>1, <2>1, StrandedKept DEF RecordsFit
<1>4. ASSUME NEW w \in Vehicles PROVE VehicleFits(w)'
  BY <1>2, <1>3 DEF VehicleFits, RecordsFit, PlanOf
<1>5. OneVehiclePerRide'
  BY <1>1, <1>2 DEF RecordsFit, OneVehiclePerRide, OnLeg
<1>6. ASSUME NEW s \in Requests PROVE HoldFits(s)'
  BY <1>1, <1>2, <1>3 DEF RecordsFit, HoldFits
<1>7. OffersFit'
  <2>1. ASSUME NEW o \in offers
        PROVE  /\ vehicles'[o.vehicle].reserved = NoRequest
               /\ vehicles'[o.vehicle].leg.kind \in {"NONE", "SERVICE"}
               /\ ~o.preassigned => /\ vehicles'[o.vehicle].leg = NoLeg
                                    /\ vehicles'[o.vehicle].status \in {"WAITING", "OFFLINE"}
    <3>1. OfferFits(o) /\ o.vehicle \in Vehicles
      BY TypeParts DEF RecordsFit, OffersFit, OfferRecord, Vehicles
    <3>2. o.vehicle = v /\ ~o.preassigned => kind # "HV_SESSION_START"
      <4> SUFFICES ASSUME o.vehicle = v, ~o.preassigned, kind = "HV_SESSION_START" PROVE FALSE
        OBVIOUS
      <4> DEFINE e == SimulationEvent(clock', "HV_SESSION_START", v)
      <4>1. e \in events
        BY <1>1, Popped
      <4>2. e.kind = "HV_SESSION_START" /\ e.at = clock' /\ e.id = v
        BY EventFields
      <4>3. OnlineStart[v] = clock'
        <5> HIDE DEF e
        <5>1. QED
          BY <4>1, <4>2 DEF RecordsFit, QueueFits
      <4>4. QED
        BY <3>1, <4>1, <4>3 DEF OfferFits
    <3>3. QED
      BY <1>2, <3>1, <3>2 DEF OfferFits
  <2>2. ASSUME NEW w \in Vehicles, vehicles'[w].status = "WAITING"
        PROVE  vehicles[w].status = "WAITING"
    BY <1>2, <2>2
  <2>3. QED
    BY <1>1, <2>1, <2>2, OffersKept, TypeParts DEF RecordsFit
<1>8. AnswersFit' /\ QueueFits'
  BY <1>1, AnswersKept, QueueKept DEF RecordsFit
<1>9. ASSUME NEW s \in Requests PROVE RevealFits(s)' /\ ExpiryFits(s)' /\ EconomicsFit(s)'
  BY <1>1, <1>3, RevealKept, ExpiryKept DEF RecordsFit, EconomicsFit
<1>10. IndexAgreement'
  BY <1>1 DEF IndexAgreement, RecordsFit
<1>11. EveryLegWillEnd'
  BY <1>1, <1>2, LegsKept DEF RecordsFit
<1>12. QED
  BY <1>3, <1>4, <1>5, <1>6, <1>7, <1>8, <1>9, <1>10, <1>11 DEF RecordsFit

-----------------------------------------------------------------------------
(* A reservation is given up.                                              *)
LEMMA GivenUp ==
  ASSUME TypeOK, RecordsFit, NEW r \in Requests, requests[r].status = "RESERVED",
         ReleaseReservationState(r)
  PROVE  LET v == requests[r].reserved
         IN  /\ v \in Vehicles /\ vehicles[v].reserved = r /\ vehicles[v].leg.kind # "PICKUP"
             /\ requests' = [requests EXCEPT ![r] =
                               Row("PENDING", requests[r].assigned, NoVehicle, requests[r].econ)]
             /\ \A w \in Vehicles : w # v => vehicles'[w] = vehicles[w]
             /\ vehicles'[v].status = vehicles[v].status /\ vehicles'[v].leg = vehicles[v].leg
             /\ vehicles'[v].plan = <<>> /\ vehicles'[v].reserved = NoRequest
             /\ index' = IndexRelease({r})
             /\ book' = [book EXCEPT ![r] = NoVehicle]
<1> DEFINE v == requests[r].reserved
<1>1. requests[r] \in RequestRecord /\ HoldFits(r)
  BY TypeParts DEF RecordsFit
<1>2. v \in Vehicles /\ v # NoVehicle
  BY <1>1, KindsAssumption DEF HoldFits, RequestRecord
<1>3. vehicles[v].reserved = r /\ vehicles[v] \in VehicleRecord /\ VehicleFits(v)
  BY <1>1, <1>2, TypeParts DEF HoldFits, RecordsFit
<1>4. vehicles[v].leg.kind # "PICKUP"
  BY <1>3, KindsAssumption DEF VehicleFits, NoLeg
<1>5. vehicles[v].plan = AssignmentPlan(r)
  BY <1>3, <1>4, KindsAssumption DEF VehicleFits, PlanOf
<1>6. WithoutStops(vehicles[v].plan, r) = <<>>
  BY <1>5, NothingLeft
<1>7. vehicles' = [vehicles EXCEPT ![v].plan = <<>>, ![v].reserved = NoRequest]
  BY <1>2, <1>6 DEF ReleaseReservationState
<1>8. requests' = [requests EXCEPT ![r] = [Transition(requests[r], "PENDING") EXCEPT !.reserved = NoVehicle]]
  BY DEF ReleaseReservationState
<1>9. requests[r] = Row("RESERVED", requests[r].assigned, v, requests[r].econ)
  BY <1>1, RowOf
<1>10. Transition(requests[r], "PENDING") = Row("PENDING", requests[r].assigned, v, requests[r].econ)
  BY <1>9, Steps, LegalSteps
<1>11. [Row("PENDING", requests[r].assigned, v, requests[r].econ) EXCEPT !.reserved = NoVehicle]
         = Row("PENDING", requests[r].assigned, NoVehicle, requests[r].econ)
  BY DEF Row
<1>12. requests' = [requests EXCEPT ![r] =
                      Row("PENDING", requests[r].assigned, NoVehicle, requests[r].econ)]
  BY <1>8, <1>10, <1>11
<1>13. index' = IndexRelease({r}) /\ book' = [book EXCEPT ![r] = NoVehicle]
  BY DEF ReleaseReservationState
<1>14. /\ \A w \in Vehicles : w # v => vehicles'[w] = vehicles[w]
       /\ vehicles'[v].status = vehicles[v].status /\ vehicles'[v].leg = vehicles[v].leg
       /\ vehicles'[v].plan = <<>> /\ vehicles'[v].reserved = NoRequest
  <2> HIDE DEF v
  <2>1. vehicles \in [Vehicles -> VehicleRecord]
    BY TypeParts
  <2>2. QED
    BY <1>2, <1>3, <1>7, <2>1 DEF VehicleRecord
<1>15. QED
  BY <1>2, <1>3, <1>4, <1>12, <1>13, <1>14

LEMMA GivenUpFits ==
  ASSUME TypeOK, TypeOK', Ordered, RecordsFit, NEW r \in Requests,
         requests[r].status = "RESERVED", ReleaseReservationState(r), UNCHANGED offers,
         NEW kind \in {"RESERVATION_EXPIRED", "PLAN_INVALIDATED"},
         Pop(kind, r), Leaves(kind, r, {}), Stranded' = Stranded \ {r}, StrandedFits'
  PROVE  RecordsFit'
<1> DEFINE v == requests[r].reserved
<1>1. /\ v \in Vehicles /\ vehicles[v].reserved = r
      /\ requests' = [requests EXCEPT ![r] =
                        Row("PENDING", requests[r].assigned, NoVehicle, requests[r].econ)]
      /\ \A w \in Vehicles : w # v => vehicles'[w] = vehicles[w]
      /\ vehicles'[v].status = vehicles[v].status /\ vehicles'[v].leg = vehicles[v].leg
      /\ vehicles'[v].plan = <<>> /\ vehicles'[v].reserved = NoRequest
      /\ index' = IndexRelease({r})
      /\ book' = [book EXCEPT ![r] = NoVehicle]
      /\ vehicles[v].leg.kind # "PICKUP"
  BY GivenUp
<1>2. /\ requests'[r].status = "PENDING" /\ requests'[r].assigned = requests[r].assigned
      /\ requests'[r].reserved = NoVehicle /\ requests'[r].econ = requests[r].econ
      /\ \A s \in Requests : s # r => requests'[s] = requests[s]
  BY <1>1, TypeParts, RowFields
<1>3. \A w \in Vehicles : vehicles'[w].leg = vehicles[w].leg
                            /\ vehicles'[w].status = vehicles[w].status
  BY <1>1
<1>4. \A w \in Vehicles : vehicles[w].reserved = r => w = v
  <2>1. HoldFits(r)
    BY DEF RecordsFit
  <2>2. QED
    BY <2>1 DEF HoldFits
<1>5. r # NoRequest /\ v # NoVehicle
  BY <1>1, KindsAssumption
<1> HIDE DEF v
<1>6. ASSUME NEW w \in Vehicles PROVE VehicleFits(w)'
  <2>1. CASE w = v
    BY <1>1, <2>1 DEF VehicleFits, RecordsFit, PlanOf
  <2>2. CASE w # v
    BY <1>1, <1>4, <2>2, VehicleKept DEF RecordsFit
  <2>3. QED
    BY <2>1, <2>2
<1>7. OneVehiclePerRide'
  BY <1>2, <1>3 DEF RecordsFit, OneVehiclePerRide, OnLeg, LegStatus
<1>8. ASSUME NEW s \in Requests PROVE HoldFits(s)'
  <2>1. HoldFits(s) /\ HoldFits(r)
    BY DEF RecordsFit
  <2>2. book'[r] = NoVehicle /\ (s # r => book'[s] = book[s])
    BY <1>1, TypeParts
  <2>3. CASE s = r
    <3>1. \A w \in Vehicles : vehicles'[w].reserved # r
      BY <1>1, <1>4, <1>5
    <3>2. NoVehicle \notin Vehicles
      BY KindsAssumption
    <3>3. QED
      BY <1>2, <2>2, <2>3, <3>1, <3>2 DEF HoldFits, RestingStatus
  <2>4. CASE s # r
    <3>1. \A w \in Vehicles : vehicles'[w].reserved = s <=> vehicles[w].reserved = s
      BY <1>1, <2>4, KindsAssumption
    <3>2. QED
      BY <1>2, <2>1, <2>2, <2>4, <3>1 DEF HoldFits
  <2>5. QED
    BY <2>3, <2>4
<1>9. OffersFit'
  <2>1. \A o \in offers : OfferFits(o) /\ o.vehicle \in Vehicles
    BY TypeParts DEF RecordsFit, OffersFit, OfferRecord, Vehicles
  <2>2. \A o \in offers : o.vehicle # v
    BY <1>1, <1>5, <2>1 DEF OfferFits
  <2>3. \A o \in offers : vehicles'[o.vehicle] = vehicles[o.vehicle]
    BY <1>1, <2>1, <2>2
  <2>4. kind # "DRIVER_RESPONSE"
    OBVIOUS
  <2>5. QED
    BY <1>2, <1>3, <2>1, <2>3, <2>4, OffersKept, TypeParts DEF RecordsFit, OfferFits
<1>10. AnswersFit' /\ QueueFits'
  BY AnswersKept, QueueKept DEF RecordsFit
<1>11. ASSUME NEW s \in Requests PROVE RevealFits(s)' /\ ExpiryFits(s)' /\ EconomicsFit(s)'
  <2>1. RevealFits(s)'
    BY <1>2, RevealKept DEF RecordsFit
  <2>2. ExpiryFits(s)'
    <3>1. CASE s = r
      BY <1>2, <3>1 DEF ExpiryFits
    <3>2. CASE s # r
      <4>1. SimulationEvent(LatestPickup[s], "RESERVATION_EXPIRED", s) \in events
              => SimulationEvent(LatestPickup[s], "RESERVATION_EXPIRED", s) \in events'
        BY <3>2, StillQueued
      <4>2. QED
        BY <1>2, <3>2, <4>1 DEF ExpiryFits, RecordsFit
    <3>3. QED
      BY <3>1, <3>2
  <2>3. EconomicsFit(s)'
    BY <1>2 DEF EconomicsFit, RecordsFit
  <2>4. QED
    BY <2>1, <2>2, <2>3
<1>12. IndexAgreement'
  <2>1. index \in IndexRecord
    BY TypeParts
  <2>2. QED
    BY <1>1, <1>2, <2>1 DEF IndexRecord, IndexRelease, IndexAgreement, RecordsFit
<1>13. EveryLegWillEnd'
  BY <1>3, LegsKept DEF RecordsFit
<1>14. QED
  BY <1>6, <1>7, <1>8, <1>9, <1>10, <1>11, <1>12, <1>13 DEF RecordsFit

LEMMA ExpiredFits ==
  ASSUME TypeOK, TypeOK', Ordered, RecordsFit, NEW r \in Requests, ReservationExpired(r)
  PROVE  RecordsFit'
<1>1. /\ Pop("RESERVATION_EXPIRED", r) /\ Leaves("RESERVATION_EXPIRED", r, {})
      /\ ReleaseReservationState(r) /\ UNCHANGED offers /\ book[r] # NoVehicle
  BY LeavesRest DEF ReservationExpired
<1>2. HoldFits(r)
  BY DEF RecordsFit
<1>3. requests[r].status = "RESERVED" /\ r \notin Stranded
  BY <1>1, <1>2 DEF HoldFits
<1>4. \A s \in Requests : s # r => requests'[s] = requests[s]
  <2>1. requests' = [requests EXCEPT ![r] =
                       Row("PENDING", requests[r].assigned, NoVehicle, requests[r].econ)]
    BY <1>1, <1>3, GivenUp
  <2>2. QED
    BY <2>1, TypeParts
<1>5. StrandedFits' /\ Stranded' = Stranded
  <2>1. \A s \in Stranded : requests[s].status = "RESERVED" /\ s \in Requests /\ s # r
    BY <1>3 DEF RecordsFit, StrandedFits, Stranded
  <2>2. QED
    BY <1>1, <1>4, <2>1, StrandedKept DEF RecordsFit
<1>6. Stranded' = Stranded \ {r}
  BY <1>3, <1>5
<1>7. QED
  BY <1>1, <1>3, <1>5, <1>6, GivenUpFits

LEMMA PlanInvalidatedFits ==
  ASSUME TypeOK, TypeOK', Ordered, RecordsFit, NEW r \in Requests, PlanInvalidated(r)
  PROVE  RecordsFit'
<1> DEFINE popped == SimulationEvent(clock', "PLAN_INVALIDATED", r)
<1>1. /\ Pop("PLAN_INVALIDATED", r) /\ Leaves("PLAN_INVALIDATED", r, {})
      /\ ReleaseReservationState(r) /\ UNCHANGED offers
  BY LeavesRest DEF PlanInvalidated
<1>2. popped \in events /\ events' = events \ {popped}
  BY <1>1, Popped DEF PlanInvalidated, Rest
<1>3. popped.kind = "PLAN_INVALIDATED" /\ popped.id = r /\ popped.at = clock'
  BY EventFields
<1> HIDE DEF popped
<1>4. clock' = clock /\ requests[r].status = "RESERVED"
  <2>1. popped = SimulationEvent(clock, "PLAN_INVALIDATED", r) /\ requests[r].status = "RESERVED"
    BY <1>2, <1>3 DEF RecordsFit, StrandedFits
  <2>2. SimulationEvent(clock, "PLAN_INVALIDATED", r).at = clock
    BY EventFields
  <2>3. QED
    BY <1>3, <2>1, <2>2
<1>5. \A e \in events : e.kind = "PLAN_INVALIDATED" /\ e.id = r => e = popped
  BY <1>4 DEF RecordsFit, StrandedFits, popped
<1>6. Stranded' = Stranded \ {r}
  BY <1>2, <1>3, <1>5 DEF Stranded
<1>7. \A s \in Requests : s # r => requests'[s] = requests[s]
  <2>1. requests' = [requests EXCEPT ![r] =
                       Row("PENDING", requests[r].assigned, NoVehicle, requests[r].econ)]
    BY <1>1, <1>4, GivenUp
  <2>2. QED
    BY <2>1, TypeParts
<1>8. StrandedFits'
  BY <1>2, <1>3, <1>4, <1>5, <1>7 DEF StrandedFits, RecordsFit
<1>9. QED
  BY <1>1, <1>4, <1>6, <1>8, GivenUpFits

(* The expiry of a reservation already closed.                             *)
LEMMA StaleExpiryFits ==
  ASSUME TypeOK, TypeOK', Ordered, RecordsFit, NEW r \in Requests, StaleReservationExpiry(r)
  PROVE  RecordsFit'
<1>1. /\ Pop("RESERVATION_EXPIRED", r) /\ Leaves("RESERVATION_EXPIRED", r, {})
      /\ UNCHANGED <<requests, vehicles, index, offers, book>> /\ book[r] = NoVehicle
  BY LeavesRest DEF StaleReservationExpiry
<1>2. StrandedFits' /\ Stranded' = Stranded
  <2>1. \A s \in Stranded : requests[s].status = "RESERVED" /\ s \in Requests
    BY DEF RecordsFit, StrandedFits, Stranded
  <2>2. QED
    BY <1>1, <2>1, StrandedKept DEF RecordsFit
<1>3. \A w \in Vehicles : VehicleFits(w)'
  BY <1>1, <1>2, VehicleKept DEF RecordsFit
<1>4. OneVehiclePerRide' /\ IndexAgreement'
  BY <1>1 DEF RecordsFit, OneVehiclePerRide, OnLeg, IndexAgreement
<1>5. \A s \in Requests : HoldFits(s)'
  BY <1>1, <1>2 DEF HoldFits, RecordsFit
<1>6. OffersFit'
  <2>1. \A o \in offers : OfferFits(o)
    BY DEF RecordsFit, OffersFit
  <2>2. QED
    BY <1>1, <2>1, OffersKept, TypeParts DEF RecordsFit, OfferFits
<1>7. AnswersFit' /\ QueueFits'
  BY <1>1, AnswersKept, QueueKept DEF RecordsFit
<1>8. ASSUME NEW s \in Requests PROVE RevealFits(s)' /\ ExpiryFits(s)' /\ EconomicsFit(s)'
  <2>1. RevealFits(s)'
    BY <1>1, RevealKept DEF RecordsFit
  <2>2. ExpiryFits(s)'
    <3>1. CASE s = r
      <4>1. requests[r].status = "RESERVED" => r \in Stranded
        BY <1>1 DEF HoldFits, RecordsFit
      <4>2. QED
        BY <1>1, <1>2, <3>1, <4>1 DEF ExpiryFits
    <3>2. CASE s # r
      <4>1. SimulationEvent(LatestPickup[s], "RESERVATION_EXPIRED", s) \in events
              => SimulationEvent(LatestPickup[s], "RESERVATION_EXPIRED", s) \in events'
        BY <1>1, <3>2, StillQueued
      <4>2. QED
        BY <1>1, <1>2, <3>2, <4>1 DEF ExpiryFits, RecordsFit
    <3>3. QED
      BY <3>1, <3>2
  <2>3. EconomicsFit(s)'
    BY <1>1 DEF EconomicsFit, RecordsFit
  <2>4. QED
    BY <2>1, <2>2, <2>3
<1>9. EveryLegWillEnd'
  BY <1>1, LegsKept DEF RecordsFit
<1>10. QED
  BY <1>2, <1>3, <1>4, <1>5, <1>6, <1>7, <1>8, <1>9 DEF RecordsFit

-----------------------------------------------------------------------------
LEMMA DrivingFields ==
  ASSUME NEW status, NEW kind, NEW r, NEW end, NEW plan, NEW reserved, kind # "NONE"
  PROVE  LET x == Driving(status, kind, r, end, plan, reserved)
         IN  /\ x.status = status /\ x.leg.kind = kind /\ x.leg.request = r /\ x.leg.end = end
             /\ x.plan = plan /\ x.reserved = reserved /\ x.leg # NoLeg
  BY DEF Driving, NoLeg

LEMMA DrivingFits ==
  ASSUME NEW v \in Vehicles, NEW kind \in DOMAIN BusyStatus, NEW r, NEW end, NEW plan, NEW reserved,
         vehicles'[v] = Driving(BusyStatus[kind], kind, r, end, plan, reserved),
         plan = IF kind = "PICKUP" THEN <<Stop("DROP_OFF", r)>> ELSE <<>>,
         reserved = NoRequest
  PROVE  VehicleFits(v)'
<1>1. kind # "NONE"
  BY DEF BusyStatus
<1>2. /\ vehicles'[v].status = BusyStatus[kind] /\ vehicles'[v].leg.kind = kind
      /\ vehicles'[v].leg.request = r /\ vehicles'[v].plan = plan
      /\ vehicles'[v].reserved = reserved /\ vehicles'[v].leg # NoLeg
  BY <1>1, DrivingFields
<1>3. QED
  BY <1>1, <1>2 DEF VehicleFits, PlanOf

(* Nothing is stranded or freed.                                           *)
LEMMA NothingStranded ==
  ASSUME TypeOK, Ordered, RecordsFit, NEW kind, NEW id, NEW kinds,
         Pop(kind, id), Leaves(kind, id, kinds),
         kind # "PLAN_INVALIDATED", "PLAN_INVALIDATED" \notin kinds,
         \A s \in Stranded : requests'[s].status = requests[s].status
  PROVE  StrandedFits' /\ Stranded' = Stranded
<1>1. \A s \in Stranded : requests[s].status = "RESERVED" /\ s \in Requests
  BY DEF RecordsFit, StrandedFits, Stranded
<1>2. QED
  BY <1>1, StrandedKept DEF RecordsFit

(* LEG_COMPLETED leaves alone the rest of the queue.                       *)
LEMMA LegEndQueue ==
  ASSUME TypeOK, Ordered, RecordsFit, NEW v \in Vehicles, NEW kinds,
         Leaves("LEG_COMPLETED", v, kinds), kinds \subseteq {"LEG_COMPLETED", "PLAN_INVALIDATED"},
         UNCHANGED offers
  PROVE  /\ AnswersFit' /\ QueueFits'
         /\ \A s \in Requests :
              (requests[s].status = "UNREVEALED" <=> requests'[s].status = "UNREVEALED")
                => RevealFits(s)'
  BY AnswersKept, QueueKept, RevealKept DEF RecordsFit, PushedKinds

(* The offers, when a leg of v ends: v may only have one to be held.       *)
LEMMA LegEndOffers ==
  ASSUME TypeOK, TypeOK', Ordered, RecordsFit, NEW v \in Vehicles, NEW kinds,
         vehicles[v].leg # NoLeg, NEW x, vehicles' = [vehicles EXCEPT ![v] = x],
         Leaves("LEG_COMPLETED", v, kinds), kinds \subseteq {"LEG_COMPLETED", "PLAN_INVALIDATED"},
         UNCHANGED offers,
         \A s \in Requests : requests'[s].status = "OFFERED" <=> requests[s].status = "OFFERED",
         \A s \in Requests : requests[s].status = "OFFERED" => requests'[s].econ = requests[s].econ,
         vehicles[v].leg.kind = "SERVICE" /\ vehicles[v].reserved = NoRequest
           => x.reserved = NoRequest /\ x.leg = NoLeg,
         x.status # "WAITING"
  PROVE  OffersFit'
<1>1. \A w \in Vehicles : vehicles'[w] = IF w = v THEN x ELSE vehicles[w]
  BY TypeParts
<1>2. NoLeg.kind = "NONE"
  BY DEF NoLeg
<1>3. ASSUME NEW o \in offers
      PROVE  /\ vehicles'[o.vehicle].reserved = NoRequest
             /\ vehicles'[o.vehicle].leg.kind \in {"NONE", "SERVICE"}
             /\ ~o.preassigned => /\ vehicles'[o.vehicle].leg = NoLeg
                                  /\ vehicles'[o.vehicle].status \in {"WAITING", "OFFLINE"}
  <2>1. OfferFits(o) /\ o.vehicle \in Vehicles /\ VehicleFits(v)
    BY TypeParts DEF RecordsFit, OffersFit, OfferRecord, Vehicles
  <2>2. CASE o.vehicle # v
    BY <1>1, <2>1, <2>2 DEF OfferFits
  <2>3. CASE o.vehicle = v
    <3>1. vehicles[v].leg.kind = "SERVICE" /\ vehicles[v].reserved = NoRequest /\ o.preassigned
      BY <2>1, <2>3 DEF OfferFits, VehicleFits
    <3>2. QED
      BY <1>1, <1>2, <2>3, <3>1
  <2>4. QED
    BY <2>2, <2>3
<1>4. \A w \in Vehicles : vehicles'[w].status = "WAITING" => vehicles[w].status = "WAITING"
  BY <1>1
<1>5. kinds \subseteq PushedKinds
  BY DEF PushedKinds
<1>6. QED
  BY <1>3, <1>4, <1>5, OffersKept, TypeParts DEF RecordsFit

LEMMA MovementOverFits ==
  ASSUME TypeOK, TypeOK', Ordered, RecordsFit, NEW v \in Vehicles, LegCompleted(v),
         vehicles[v].leg.kind \notin {"PICKUP", "SERVICE"}
  PROVE  RecordsFit'
<1>1. /\ vehicles' = [vehicles EXCEPT ![v] = Released(v)]
      /\ vehicles[v].plan = <<>> /\ vehicles[v].reserved = NoRequest
      /\ events' = Rest("LEG_COMPLETED", v)
      /\ UNCHANGED <<requests, index, book>>
  BY MovementOver
<1>2. Pop("LEG_COMPLETED", v) /\ UNCHANGED offers /\ LegEnds(v)
  BY DEF LegCompleted, LegEnds
<1>3. Leaves("LEG_COMPLETED", v, {})
  BY <1>1, LeavesRest
<1>4. \A w \in Vehicles : vehicles'[w] = IF w = v THEN Released(v) ELSE vehicles[w]
  BY <1>1, TypeParts
<1>5. vehicles[v].leg # NoLeg /\ vehicles[v].leg.end = clock'
  BY <1>2, LegEnding
<1>6. /\ Released(v).leg = NoLeg /\ Released(v).plan = <<>> /\ Released(v).reserved = NoRequest
      /\ Released(v).status \in {"IDLE", "OFFLINE"} /\ NoLeg.kind = "NONE"
  BY <1>1, ReleasedFields, ParkedType DEF NoLeg
<1>7. StrandedFits' /\ Stranded' = Stranded
  BY <1>1, <1>2, <1>3, NothingStranded
<1>8. ASSUME NEW w \in Vehicles PROVE VehicleFits(w)'
  <2>1. CASE w = v
    BY <1>1, <1>4, <2>1, VehicleParks
  <2>2. CASE w # v
    BY <1>4, <1>7, <2>2, VehicleKept DEF RecordsFit
  <2>3. QED
    BY <2>1, <2>2
<1>9. OneVehiclePerRide'
  BY <1>1, <1>4, <1>6 DEF RecordsFit, OneVehiclePerRide, OnLeg, LegStatus
<1>10. ASSUME NEW s \in Requests PROVE HoldFits(s)'
  BY <1>1, <1>4, <1>6, <1>7 DEF RecordsFit, HoldFits
<1>11. OffersFit'
  BY <1>1, <1>2, <1>3, <1>5, <1>6, LegEndOffers
<1>12. AnswersFit' /\ QueueFits' /\ \A s \in Requests : RevealFits(s)'
  BY <1>1, <1>2, <1>3, LegEndQueue
<1>13. ASSUME NEW s \in Requests PROVE ExpiryFits(s)' /\ EconomicsFit(s)'
  BY <1>1, <1>3, <1>7, ExpiryKept DEF RecordsFit, EconomicsFit
<1>14. IndexAgreement'
  BY <1>1 DEF IndexAgreement, RecordsFit
<1>15. EveryLegWillEnd'
  <2> DEFINE x == Released(v)
             none == {}
  <2>1. events' = Rest("LEG_COMPLETED", v) \cup none
    BY <1>1
  <2>2. {e \in none : e.kind = "LEG_COMPLETED"} = IF x.leg = NoLeg THEN {} ELSE {LegEvent(v, x)}
    BY <1>6
  <2> HIDE DEF x, none
  <2>3. QED
    BY <1>1, <1>2, <1>5, <2>1, <2>2, LegReplaced, TypeParts DEF RecordsFit, x
<1>16. QED
  BY <1>7, <1>8, <1>9, <1>10, <1>11, <1>12, <1>13, <1>14, <1>15 DEF RecordsFit

-----------------------------------------------------------------------------
LEMMA DroppedOffFits ==
  ASSUME TypeOK, TypeOK', Ordered, RecordsFit, NEW v \in Vehicles, LegCompleted(v),
         vehicles[v].leg.kind = "SERVICE"
  PROVE  RecordsFit'
<1> DEFINE r == vehicles[v].leg.request
<1>1. /\ requests' = [requests EXCEPT ![r] = Row("COMPLETED", v, NoVehicle, v)]
      /\ vehicles' = [vehicles EXCEPT ![v] = Released(v)]
      /\ vehicles[v].plan = <<>> /\ vehicles[v].reserved = NoRequest
      /\ events' = Rest("LEG_COMPLETED", v)
      /\ index' = [index EXCEPT !.completed = @ \cup {r}]
      /\ UNCHANGED book
  BY DroppedOff
<1>2. Pop("LEG_COMPLETED", v) /\ UNCHANGED offers /\ LegEnds(v)
  BY DEF LegCompleted, LegEnds
<1>3. Leaves("LEG_COMPLETED", v, {})
  BY <1>1, LeavesRest
<1>4. \A w \in Vehicles : vehicles'[w] = IF w = v THEN Released(v) ELSE vehicles[w]
  BY <1>1, TypeParts
<1>5. vehicles[v].leg # NoLeg /\ vehicles[v].leg.end = clock'
  BY <1>2, LegEnding
<1>6. /\ Released(v).leg = NoLeg /\ Released(v).plan = <<>> /\ Released(v).reserved = NoRequest
      /\ Released(v).status \in {"IDLE", "OFFLINE"} /\ NoLeg.kind = "NONE"
  BY <1>1, ReleasedFields, ParkedType DEF NoLeg
<1>a. r \in Requests /\ requests[r] = Row("IN_SERVICE", v, NoVehicle, v)
  BY <1>2, Arrives
<1>b. /\ requests[r].status = "IN_SERVICE" /\ requests[r].assigned = v
      /\ requests[r].reserved = NoVehicle /\ requests[r].econ = v
  BY <1>a, RowFields
<1>c. /\ requests'[r].status = "COMPLETED" /\ requests'[r].assigned = v
      /\ requests'[r].reserved = NoVehicle /\ requests'[r].econ = v
      /\ \A s \in Requests : s # r => requests'[s] = requests[s]
  BY <1>1, <1>a, TypeParts, RowFields
<1>d. vehicles[v].leg.request = r
  OBVIOUS
<1> HIDE DEF r
<1>7. StrandedFits' /\ Stranded' = Stranded
  <2>1. \A s \in Stranded : s \in Requests /\ requests[s].status = "RESERVED"
    BY DEF RecordsFit, StrandedFits, Stranded
  <2>2. QED
    BY <1>b, <1>c, <1>2, <1>3, <2>1, NothingStranded
<1>8. ASSUME NEW w \in Vehicles PROVE VehicleFits(w)'
  <2>1. CASE w = v
    BY <1>1, <1>4, <2>1, VehicleParks
  <2>2. CASE w # v
    BY <1>4, <1>7, <2>2, VehicleKept DEF RecordsFit
  <2>3. QED
    BY <2>1, <2>2
<1>9. OneVehiclePerRide'
  BY <1>a, <1>b, <1>c, <1>d, <1>4, <1>6 DEF RecordsFit, OneVehiclePerRide, OnLeg, LegStatus
<1>10. ASSUME NEW s \in Requests PROVE HoldFits(s)'
  <2>1. HoldFits(s) /\ HoldFits(r)
    BY <1>a DEF RecordsFit
  <2>2. \A w \in Vehicles : vehicles'[w].reserved = vehicles[w].reserved
    BY <1>1, <1>4, <1>6
  <2>3. requests'[s].reserved = requests[s].reserved
    BY <1>b, <1>c
  <2>4. /\ requests'[s].status \in RestingStatus
        /\ requests'[s].status = "RESERVED" <=> requests[s].status = "RESERVED"
    BY <1>b, <1>c, <2>1 DEF HoldFits, RestingStatus
  <2>5. QED
    BY <1>1, <1>7, <2>1, <2>2, <2>3, <2>4 DEF HoldFits
<1>11. OffersFit'
  BY <1>1, <1>b, <1>c, <1>2, <1>3, <1>5, <1>6, LegEndOffers
<1>12. AnswersFit' /\ QueueFits' /\ \A s \in Requests : RevealFits(s)'
  BY <1>b, <1>c, <1>2, <1>3, LegEndQueue
<1>13. ASSUME NEW s \in Requests PROVE ExpiryFits(s)' /\ EconomicsFit(s)'
  <2>1. ExpiryFits(s)'
    BY <1>b, <1>c, <1>3, <1>7, ExpiryKept DEF RecordsFit
  <2>2. EconomicsFit(s)'
    BY <1>b, <1>c DEF RecordsFit, EconomicsFit
  <2>3. QED
    BY <2>1, <2>2
<1>14. IndexAgreement'
  <2>1. index \in IndexRecord
    BY TypeParts
  <2>2. QED
    BY <1>1, <1>a, <1>b, <1>c, <2>1 DEF IndexAgreement, RecordsFit, IndexRecord
<1>15. EveryLegWillEnd'
  <2> DEFINE x == Released(v)
             none == {}
  <2>1. events' = Rest("LEG_COMPLETED", v) \cup none
    BY <1>1
  <2>2. {e \in none : e.kind = "LEG_COMPLETED"} = IF x.leg = NoLeg THEN {} ELSE {LegEvent(v, x)}
    BY <1>6
  <2> HIDE DEF x, none
  <2>3. QED
    BY <1>1, <1>2, <1>5, <2>1, <2>2, LegReplaced, TypeParts DEF RecordsFit, x
<1>16. QED
  BY <1>7, <1>8, <1>9, <1>10, <1>11, <1>12, <1>13, <1>14, <1>15 DEF RecordsFit

LEMMA PickedUpFits ==
  ASSUME TypeOK, TypeOK', Ordered, RecordsFit, NEW v \in Vehicles, LegCompleted(v),
         vehicles[v].leg.kind = "PICKUP"
  PROVE  RecordsFit'
<1> DEFINE r == vehicles[v].leg.request
           end == clock' + Larger(MinLeg, RealizedService[r])
           started == Driving("SERVICE", "SERVICE", r, end, <<>>, NoRequest)
<1>1. /\ requests' = [requests EXCEPT ![r] = Row("IN_SERVICE", v, NoVehicle, v)]
      /\ vehicles' = [vehicles EXCEPT ![v] = started]
      /\ events' = Rest("LEG_COMPLETED", v) \cup {LegEvent(v, started)}
      /\ UNCHANGED <<index, book>>
  BY PickedUp
<1>2. Pop("LEG_COMPLETED", v) /\ UNCHANGED offers /\ LegEnds(v)
  BY DEF LegCompleted, LegEnds
<1>3. Leaves("LEG_COMPLETED", v, {"LEG_COMPLETED"})
  BY <1>1, EventFields DEF Leaves, LegEvent
<1>4. \A w \in Vehicles : vehicles'[w] = IF w = v THEN started ELSE vehicles[w]
  BY <1>1, TypeParts
<1>5. vehicles[v].leg # NoLeg /\ vehicles[v].leg.end = clock' /\ vehicles[v].reserved = NoRequest
  BY <1>2, LegEnding
<1>6. /\ started.leg # NoLeg /\ started.plan = <<>> /\ started.reserved = NoRequest
      /\ started.status = "SERVICE" /\ started.leg.kind = "SERVICE" /\ started.leg.request = r
  BY DrivingFields
<1>a. r \in Requests /\ requests[r] = Row("PICKUP_STARTED", v, NoVehicle, v)
  BY <1>2, LegEnding
<1>b. /\ requests[r].status = "PICKUP_STARTED" /\ requests[r].assigned = v
      /\ requests[r].reserved = NoVehicle /\ requests[r].econ = v
  BY <1>a, RowFields
<1>c. /\ requests'[r].status = "IN_SERVICE" /\ requests'[r].assigned = v
      /\ requests'[r].reserved = NoVehicle /\ requests'[r].econ = v
      /\ \A s \in Requests : s # r => requests'[s] = requests[s]
  BY <1>1, <1>a, TypeParts, RowFields
<1>d. vehicles[v].leg.request = r /\ started = Driving("SERVICE", "SERVICE", r, end, <<>>, NoRequest)
  OBVIOUS
<1> HIDE DEF r, started, end
<1>7. StrandedFits' /\ Stranded' = Stranded
  <2>1. \A s \in Stranded : s \in Requests /\ requests[s].status = "RESERVED"
    BY DEF RecordsFit, StrandedFits, Stranded
  <2>2. QED
    BY <1>b, <1>c, <1>2, <1>3, <2>1, NothingStranded
<1>8. ASSUME NEW w \in Vehicles PROVE VehicleFits(w)'
  <2>1. CASE w = v
    <3>1. vehicles'[v] = Driving("SERVICE", "SERVICE", r, end, <<>>, NoRequest)
      BY <1>d, <1>4
    <3>2. BusyStatus["SERVICE"] = "SERVICE" /\ "SERVICE" \in DOMAIN BusyStatus
      BY DEF BusyStatus
    <3>3. VehicleFits(v)'
      BY <3>1, <3>2, DrivingFits
    <3>4. QED
      BY <2>1, <3>3
  <2>2. CASE w # v
    BY <1>4, <1>7, <2>2, VehicleKept DEF RecordsFit
  <2>3. QED
    BY <2>1, <2>2
<1>9. OneVehiclePerRide'
  BY <1>a, <1>b, <1>c, <1>d, <1>4, <1>6 DEF RecordsFit, OneVehiclePerRide, OnLeg, LegStatus
<1>10. ASSUME NEW s \in Requests PROVE HoldFits(s)'
  <2>1. HoldFits(s) /\ HoldFits(r)
    BY <1>a DEF RecordsFit
  <2>2. \A w \in Vehicles : vehicles'[w].reserved = vehicles[w].reserved
    BY <1>4, <1>5, <1>6
  <2>3. requests'[s].reserved = requests[s].reserved
    BY <1>b, <1>c
  <2>4. /\ requests'[s].status \in RestingStatus
        /\ requests'[s].status = "RESERVED" <=> requests[s].status = "RESERVED"
    BY <1>b, <1>c, <2>1 DEF HoldFits, RestingStatus
  <2>5. QED
    BY <1>1, <1>7, <2>1, <2>2, <2>3, <2>4 DEF HoldFits
<1>11. OffersFit'
  <2>1. vehicles[v].leg.kind # "SERVICE"
    OBVIOUS
  <2>2. QED
    BY <1>1, <1>b, <1>c, <1>2, <1>3, <1>5, <1>6, <2>1, LegEndOffers
<1>12. AnswersFit' /\ QueueFits' /\ \A s \in Requests : RevealFits(s)'
  BY <1>b, <1>c, <1>2, <1>3, LegEndQueue
<1>13. ASSUME NEW s \in Requests PROVE ExpiryFits(s)' /\ EconomicsFit(s)'
  <2>1. ExpiryFits(s)'
    BY <1>b, <1>c, <1>3, <1>7, ExpiryKept DEF RecordsFit, PushedKinds
  <2>2. EconomicsFit(s)'
    BY <1>b, <1>c DEF RecordsFit, EconomicsFit
  <2>3. QED
    BY <2>1, <2>2
<1>14. IndexAgreement'
  BY <1>1, <1>a, <1>b, <1>c DEF IndexAgreement, RecordsFit
<1>15. EveryLegWillEnd'
  <2>1. LegEvent(v, started).kind = "LEG_COMPLETED"
    BY EventFields DEF LegEvent
  <2> DEFINE new == {LegEvent(v, started)}
  <2>2. {e \in new : e.kind = "LEG_COMPLETED"} = IF started.leg = NoLeg THEN {} ELSE {LegEvent(v, started)}
    BY <1>6, <2>1
  <2>3. events' = Rest("LEG_COMPLETED", v) \cup new
    BY <1>1
  <2> HIDE DEF new
  <2>4. QED
    BY <1>1, <1>2, <1>5, <2>2, <2>3, LegReplaced, TypeParts DEF RecordsFit
<1>16. QED
  BY <1>7, <1>8, <1>9, <1>10, <1>11, <1>12, <1>13, <1>14, <1>15 DEF RecordsFit

-----------------------------------------------------------------------------
LEMMA PromotedFits ==
  ASSUME TypeOK, TypeOK', Ordered, RecordsFit, NEW v \in Vehicles, LegCompletedPromote(v)
  PROVE  RecordsFit'
<1> DEFINE q == vehicles[v].leg.request
           r == vehicles[v].reserved
<1>1. /\ vehicles[v].leg.kind = "SERVICE" /\ q \in Requests /\ r \in Requests /\ q # r
      /\ r \notin Stranded /\ requests[r].status = "RESERVED" /\ requests[r].reserved = v
      /\ requests' = [requests EXCEPT ![q] = Row("COMPLETED", v, NoVehicle, v),
                                      ![r] = Row("PICKUP_STARTED", v, NoVehicle, v)]
      /\ index' = [index EXCEPT !.completed = @ \cup {q}, !.reserved = @ \ {r}]
      /\ book' = [book EXCEPT ![r] = NoVehicle]
  BY Promoted
<1>p. PICK eta \in PickupEtas :
        LET x == Driving("PICKUP", "PICKUP", r, clock' + Larger(MinLeg, eta),
                         <<Stop("DROP_OFF", r)>>, NoRequest)
        IN  /\ vehicles' = [vehicles EXCEPT ![v] = x]
            /\ events' = Rest("LEG_COMPLETED", v) \cup {LegEvent(v, x)}
  BY Promoted
<1> DEFINE end == clock' + Larger(MinLeg, eta)
           started == Driving("PICKUP", "PICKUP", r, end, <<Stop("DROP_OFF", r)>>, NoRequest)
<1>e. /\ vehicles' = [vehicles EXCEPT ![v] = started]
      /\ events' = Rest("LEG_COMPLETED", v) \cup {LegEvent(v, started)}
  BY <1>p
<1>2. Pop("LEG_COMPLETED", v) /\ UNCHANGED offers /\ LegEnds(v)
  BY DEF LegCompletedPromote, LegEnds
<1>3. Leaves("LEG_COMPLETED", v, {"LEG_COMPLETED"})
  BY <1>e, EventFields DEF Leaves, LegEvent
<1>4. \A w \in Vehicles : vehicles'[w] = IF w = v THEN started ELSE vehicles[w]
  BY <1>e, TypeParts
<1>5. vehicles[v].leg # NoLeg /\ vehicles[v].leg.end = clock'
  BY <1>2, LegEnding
<1>6. /\ started.leg # NoLeg /\ started.plan = <<Stop("DROP_OFF", r)>>
      /\ started.reserved = NoRequest
      /\ started.status = "PICKUP" /\ started.leg.kind = "PICKUP" /\ started.leg.request = r
  BY DrivingFields
<1>a. requests[q] = Row("IN_SERVICE", v, NoVehicle, v)
  BY <1>1, <1>2, Arrives
<1>b. /\ requests[q].status = "IN_SERVICE" /\ requests[q].assigned = v
      /\ requests[q].reserved = NoVehicle /\ requests[q].econ = v
  BY <1>a, RowFields
<1>f. /\ requests'[q] = Row("COMPLETED", v, NoVehicle, v)
      /\ requests'[r] = Row("PICKUP_STARTED", v, NoVehicle, v)
      /\ \A s \in Requests : s # r /\ s # q => requests'[s] = requests[s]
  <2> HIDE DEF q, r
  <2>1. QED
    BY <1>1, TypeParts
<1>c. /\ requests'[q].status = "COMPLETED" /\ requests'[q].assigned = v
      /\ requests'[q].reserved = NoVehicle /\ requests'[q].econ = v
      /\ requests'[r].status = "PICKUP_STARTED" /\ requests'[r].assigned = v
      /\ requests'[r].reserved = NoVehicle /\ requests'[r].econ = v
  BY <1>f, RowFields
<1>d. /\ vehicles[v].leg.request = q /\ vehicles[v].reserved = r
      /\ started = Driving("PICKUP", "PICKUP", r, end, <<Stop("DROP_OFF", r)>>, NoRequest)
  OBVIOUS
<1>g. r # NoRequest /\ v # NoVehicle
  BY <1>1, KindsAssumption
<1> HIDE DEF q, r, started, end
<1>h. \A w \in Vehicles : vehicles[w].reserved = r => w = v
  <2>1. HoldFits(r)
    BY <1>1 DEF RecordsFit
  <2>2. QED
    BY <1>1, <2>1 DEF HoldFits
<1>7. StrandedFits' /\ Stranded' = Stranded
  <2>1. \A s \in Stranded : s \in Requests /\ requests[s].status = "RESERVED"
    BY DEF RecordsFit, StrandedFits, Stranded
  <2>2. QED
    BY <1>1, <1>b, <1>f, <1>2, <1>3, <2>1, NothingStranded
<1>8. ASSUME NEW w \in Vehicles PROVE VehicleFits(w)'
  <2>1. CASE w = v
    <3>1. vehicles'[v] = Driving("PICKUP", "PICKUP", r, end, <<Stop("DROP_OFF", r)>>, NoRequest)
      BY <1>d, <1>4
    <3>2. BusyStatus["PICKUP"] = "PICKUP" /\ "PICKUP" \in DOMAIN BusyStatus
      BY DEF BusyStatus
    <3>3. VehicleFits(v)'
      BY <3>1, <3>2, DrivingFits
    <3>4. QED
      BY <2>1, <3>3
  <2>2. CASE w # v
    BY <1>4, <1>7, <2>2, VehicleKept DEF RecordsFit
  <2>3. QED
    BY <2>1, <2>2
<1>9. OneVehiclePerRide'
  <2>1. ASSUME NEW s \in Requests, NEW w \in Vehicles
        PROVE  /\ OnLeg(s, w)' <=> (w = v /\ s = r) \/ (w # v /\ OnLeg(s, w))
               /\ OnLeg(q, w) <=> w = v
               /\ ~OnLeg(r, w)
    <3>1. OnLeg(s, w)' <=> (w = v /\ s = r) \/ (w # v /\ OnLeg(s, w))
      BY <1>4, <1>6 DEF OnLeg, LegStatus
    <3>2. OnLeg(q, w) <=> w = v
      BY <1>1, <1>b, <1>d DEF OnLeg, LegStatus, RecordsFit, OneVehiclePerRide
    <3>3. ~OnLeg(r, w)
      BY <1>1 DEF RecordsFit, OneVehiclePerRide
    <3>4. QED
      BY <3>1, <3>2, <3>3
  <2>2. ASSUME NEW s \in Requests
        PROVE  /\ requests'[s].status \notin {"ASSIGNED", "BOARDED"}
               /\ requests'[s].status \in {"PICKUP_STARTED", "IN_SERVICE"} <=>
                    \E w \in Vehicles : OnLeg(s, w)'
               /\ \A w \in Vehicles :
                    OnLeg(s, w)' => /\ requests'[s].status = LegStatus[vehicles'[w].leg.kind]
                                    /\ requests'[s].assigned = w
    <3>0. OneVehiclePerRide
      BY DEF RecordsFit
    <3>1. CASE s = q
      BY <1>1, <1>c, <2>1, <3>1
    <3>2. CASE s = r
      <4>1. LegStatus["PICKUP"] = "PICKUP_STARTED"
        BY DEF LegStatus
      <4>2. \A w \in Vehicles : OnLeg(s, w)' <=> w = v
        BY <1>1, <2>1, <3>2
      <4>3. vehicles'[v].leg.kind = "PICKUP"
        BY <1>4, <1>6
      <4>4. QED
        BY <1>c, <3>2, <4>1, <4>2, <4>3
    <3>3. CASE s # q /\ s # r
      <4>1. requests'[s] = requests[s]
        BY <1>f, <3>3
      <4>2. ~OnLeg(s, v)
        BY <1>d, <3>3 DEF OnLeg
      <4>3. \A w \in Vehicles : OnLeg(s, w)' <=> OnLeg(s, w)
        BY <2>1, <3>3, <4>2
      <4>4. \A w \in Vehicles : OnLeg(s, w) => vehicles'[w] = vehicles[w]
        BY <1>4, <4>2
      <4>5. QED
        BY <3>0, <4>1, <4>3, <4>4 DEF OneVehiclePerRide
    <3>4. QED
      BY <3>1, <3>2, <3>3
  <2>3. QED
    BY <2>2 DEF OneVehiclePerRide
<1>10. ASSUME NEW s \in Requests PROVE HoldFits(s)'
  <2>1. HoldFits(s) /\ HoldFits(r)
    BY <1>1 DEF RecordsFit
  <2>2. book'[r] = NoVehicle /\ (s # r => book'[s] = book[s])
    BY <1>1, TypeParts
  <2>3. CASE s = r
    <3>1. \A w \in Vehicles : vehicles'[w].reserved # r
      BY <1>4, <1>6, <1>g, <1>h
    <3>2. NoVehicle \notin Vehicles
      BY KindsAssumption
    <3>3. QED
      BY <1>c, <2>2, <2>3, <3>1, <3>2 DEF HoldFits, RestingStatus
  <2>4. CASE s # r
    <3>1. \A w \in Vehicles : vehicles'[w].reserved = s <=> vehicles[w].reserved = s
      BY <1>4, <1>6, <1>d, <2>4, KindsAssumption
    <3>2. requests'[s].reserved = requests[s].reserved
      BY <1>b, <1>c, <1>f, <2>4
    <3>3. /\ requests'[s].status \in RestingStatus
          /\ requests'[s].status = "RESERVED" <=> requests[s].status = "RESERVED"
      BY <1>b, <1>c, <1>f, <2>1, <2>4 DEF HoldFits, RestingStatus
    <3>4. QED
      BY <1>7, <2>1, <2>2, <2>4, <3>1, <3>2, <3>3 DEF HoldFits
  <2>5. QED
    BY <2>3, <2>4
<1>11. OffersFit'
  <2>1. ASSUME NEW s \in Requests
        PROVE  /\ requests'[s].status = "OFFERED" <=> requests[s].status = "OFFERED"
               /\ requests[s].status = "OFFERED" => requests'[s].econ = requests[s].econ
    BY <1>1, <1>b, <1>c, <1>f
  <2>2. vehicles[v].reserved # NoRequest /\ started.status # "WAITING"
    BY <1>d, <1>g, <1>6
  <2>3. QED
    BY <1>e, <1>2, <1>3, <1>5, <2>1, <2>2, LegEndOffers
<1>12. AnswersFit' /\ QueueFits' /\ \A s \in Requests : RevealFits(s)'
  BY <1>1, <1>b, <1>c, <1>f, <1>2, <1>3, LegEndQueue
<1>13. ASSUME NEW s \in Requests PROVE ExpiryFits(s)' /\ EconomicsFit(s)'
  <2>1. ExpiryFits(s)'
    BY <1>b, <1>c, <1>f, <1>3, <1>7, ExpiryKept DEF RecordsFit, PushedKinds
  <2>2. EconomicsFit(s)'
    BY <1>b, <1>c, <1>f DEF RecordsFit, EconomicsFit
  <2>3. QED
    BY <2>1, <2>2
<1>14. IndexAgreement'
  <2>1. index \in IndexRecord
    BY TypeParts
  <2>2. QED
    <3>1. /\ index'.pending = index.pending /\ index'.offered = index.offered
          /\ index'.reserved = index.reserved \ {r} /\ index'.cancelled = index.cancelled
          /\ index'.completed = index.completed \cup {q}
      BY <1>1, <2>1 DEF IndexRecord
    <3>2. ASSUME NEW s \in Requests
          PROVE  /\ s \in index'.pending <=> requests'[s].status = "PENDING"
                 /\ s \in index'.offered <=> requests'[s].status = "OFFERED"
                 /\ s \in index'.reserved <=> requests'[s].status = "RESERVED"
                 /\ s \in index'.completed <=> requests'[s].status = "COMPLETED"
                 /\ s \in index'.cancelled <=> requests'[s].status = "CANCELLED"
      <4>1. IndexAgreement
        BY DEF RecordsFit
      <4>2. CASE s = q
        BY <1>1, <1>b, <1>c, <3>1, <4>1, <4>2 DEF IndexAgreement
      <4>3. CASE s = r
        BY <1>1, <1>b, <1>c, <3>1, <4>1, <4>3 DEF IndexAgreement
      <4>4. CASE s # q /\ s # r
        BY <1>f, <3>1, <4>1, <4>4 DEF IndexAgreement
      <4>5. QED
        BY <4>2, <4>3, <4>4
    <3>3. QED
      BY <3>2 DEF IndexAgreement
<1>15. EveryLegWillEnd'
  <2>1. LegEvent(v, started).kind = "LEG_COMPLETED"
    BY EventFields DEF LegEvent
  <2> DEFINE new == {LegEvent(v, started)}
  <2>2. {e \in new : e.kind = "LEG_COMPLETED"} = IF started.leg = NoLeg THEN {} ELSE {LegEvent(v, started)}
    BY <1>6, <2>1
  <2>3. events' = Rest("LEG_COMPLETED", v) \cup new
    BY <1>e
  <2> HIDE DEF new
  <2>4. QED
    BY <1>e, <1>2, <1>5, <2>2, <2>3, LegReplaced, TypeParts DEF RecordsFit
<1>16. QED
  BY <1>7, <1>8, <1>9, <1>10, <1>11, <1>12, <1>13, <1>14, <1>15 DEF RecordsFit

LEMMA InvalidatedFits ==
  ASSUME TypeOK, TypeOK', Ordered, RecordsFit, NEW v \in Vehicles, LegCompletedInvalidate(v)
  PROVE  RecordsFit'
<1> DEFINE q == vehicles[v].leg.request
           r == vehicles[v].reserved
           cleanup == SimulationEvent(clock', "PLAN_INVALIDATED", r)
<1>1. /\ vehicles[v].leg.kind = "SERVICE" /\ q \in Requests /\ r \in Requests /\ q # r
      /\ r \notin Stranded /\ requests[r].status = "RESERVED" /\ requests[r].reserved = v
      /\ requests' = [requests EXCEPT ![q] = Row("COMPLETED", v, NoVehicle, v)]
      /\ vehicles' = [vehicles EXCEPT ![v] = Released(v)]
      /\ events' = Rest("LEG_COMPLETED", v) \cup {cleanup}
      /\ index' = [index EXCEPT !.completed = @ \cup {q}]
      /\ book' = [book EXCEPT ![r] = NoVehicle]
  BY Invalidated
<1>2. Pop("LEG_COMPLETED", v) /\ UNCHANGED offers /\ LegEnds(v)
  BY DEF LegCompletedInvalidate, LegEnds
<1>i. cleanup.kind = "PLAN_INVALIDATED" /\ cleanup.id = r /\ cleanup.at = clock'
  BY EventFields
<1>3. Leaves("LEG_COMPLETED", v, {"PLAN_INVALIDATED"})
  BY <1>1, <1>i DEF Leaves
<1>4. \A w \in Vehicles : vehicles'[w] = IF w = v THEN Released(v) ELSE vehicles[w]
  BY <1>1, TypeParts
<1>5. vehicles[v].leg # NoLeg /\ vehicles[v].leg.end = clock' /\ vehicles[v].plan = AssignmentPlan(r)
  BY <1>1, <1>2, LegEnding, KindsAssumption
<1>6. /\ Released(v).leg = NoLeg /\ Released(v).plan = vehicles[v].plan /\ Released(v).reserved = r
      /\ Released(v).status \in {"IDLE", "OFFLINE"} /\ NoLeg.kind = "NONE"
  BY <1>1, ReleasedFields, ParkedType DEF NoLeg
<1>b. /\ requests[q].status = "IN_SERVICE" /\ requests[q].assigned = v
      /\ requests[q].reserved = NoVehicle /\ requests[q].econ = v
  <2>1. requests[q] = Row("IN_SERVICE", v, NoVehicle, v)
    BY <1>1, <1>2, Arrives
  <2>2. QED
    BY <2>1, RowFields
<1>c. /\ requests'[q].status = "COMPLETED" /\ requests'[q].assigned = v
      /\ requests'[q].reserved = NoVehicle /\ requests'[q].econ = v
      /\ \A s \in Requests : s # q => requests'[s] = requests[s]
  BY <1>1, TypeParts, RowFields
<1>d. vehicles[v].leg.request = q /\ vehicles[v].reserved = r /\ r # NoRequest /\ v # NoVehicle
        /\ cleanup = SimulationEvent(clock', "PLAN_INVALIDATED", r)
  BY <1>1, KindsAssumption
<1> HIDE DEF q, r, cleanup
<1>h. \A w \in Vehicles : vehicles[w].reserved = r => w = v
  <2>1. HoldFits(r)
    BY <1>1 DEF RecordsFit
  <2>2. QED
    BY <1>1, <2>1 DEF HoldFits
<1>j. \A e \in events' : e.kind = "PLAN_INVALIDATED" => e \in events \/ e = cleanup
  BY <1>1 DEF Rest
<1>k. \A e \in events : e.kind = "PLAN_INVALIDATED" => e \in events'
  <2>1. SimulationEvent(clock', "LEG_COMPLETED", v).kind = "LEG_COMPLETED"
    BY EventFields
  <2>2. QED
    BY <1>1, <2>1 DEF Rest
<1>7. Stranded' = Stranded \cup {r}
  BY <1>1, <1>i, <1>j, <1>k DEF Stranded
<1>l. StrandedFits'
  <2>1. ASSUME NEW e \in events', e.kind = "PLAN_INVALIDATED"
        PROVE  /\ e = SimulationEvent(clock', "PLAN_INVALIDATED", e.id)
               /\ e.id \in Requests /\ requests'[e.id].status = "RESERVED"
    <3>1. CASE e \in events
      <4>1. /\ e = SimulationEvent(clock, "PLAN_INVALIDATED", e.id)
            /\ e.id \in Requests /\ requests[e.id].status = "RESERVED"
        BY <2>1, <3>1 DEF RecordsFit, StrandedFits
      <4>2. e.id \in Stranded
        BY <2>1, <3>1, <4>1 DEF Stranded
      <4>3. clock' = clock
        BY <1>2, <4>2, StrandedNow DEF RecordsFit
      <4>4. QED
        BY <1>b, <1>c, <4>1, <4>3
    <3>2. CASE e = cleanup
      BY <1>1, <1>c, <1>d, <1>i, <3>2
    <3>3. QED
      BY <1>j, <2>1, <3>1, <3>2
  <2>2. QED
    BY <2>1 DEF StrandedFits
<1>8. ASSUME NEW w \in Vehicles PROVE VehicleFits(w)'
  <2>1. CASE w = v
    BY <1>1, <1>4, <1>5, <1>7, <1>d, <2>1, VehicleParks
  <2>2. CASE w # v
    BY <1>4, <1>7, <1>h, <2>2, VehicleKept DEF RecordsFit
  <2>3. QED
    BY <2>1, <2>2
<1>9. OneVehiclePerRide'
  BY <1>1, <1>b, <1>c, <1>d, <1>4, <1>6 DEF RecordsFit, OneVehiclePerRide, OnLeg, LegStatus
<1>10. ASSUME NEW s \in Requests PROVE HoldFits(s)'
  <2>1. HoldFits(s)
    BY DEF RecordsFit
  <2>2. \A w \in Vehicles : vehicles'[w].reserved = vehicles[w].reserved
    BY <1>1, <1>d, <1>4, <1>6
  <2>3. requests'[s].reserved = requests[s].reserved
    BY <1>b, <1>c
  <2>4. /\ requests'[s].status \in RestingStatus
        /\ requests'[s].status = "RESERVED" <=> requests[s].status = "RESERVED"
    BY <1>b, <1>c, <2>1 DEF HoldFits, RestingStatus
  <2>5. book'[r] = NoVehicle /\ (s # r => book'[s] = book[s])
    BY <1>1, TypeParts
  <2>6. QED
    BY <1>7, <2>1, <2>2, <2>3, <2>4, <2>5 DEF HoldFits
<1>11. OffersFit'
  BY <1>1, <1>b, <1>c, <1>d, <1>2, <1>3, <1>5, <1>6, LegEndOffers
<1>12. AnswersFit' /\ QueueFits' /\ \A s \in Requests : RevealFits(s)'
  BY <1>b, <1>c, <1>2, <1>3, LegEndQueue
<1>13. ASSUME NEW s \in Requests PROVE ExpiryFits(s)' /\ EconomicsFit(s)'
  <2>1. ExpiryFits(s)'
    BY <1>b, <1>c, <1>3, <1>7, StillQueued DEF RecordsFit, PushedKinds, ExpiryFits
  <2>2. EconomicsFit(s)'
    BY <1>b, <1>c DEF RecordsFit, EconomicsFit
  <2>3. QED
    BY <2>1, <2>2
<1>14. IndexAgreement'
  <2>1. index \in IndexRecord
    BY TypeParts
  <2>2. QED
    BY <1>1, <1>b, <1>c, <2>1 DEF IndexAgreement, RecordsFit, IndexRecord
<1>15. EveryLegWillEnd'
  <2> DEFINE x == Released(v)
             new == {cleanup}
  <2>1. events' = Rest("LEG_COMPLETED", v) \cup new
    BY <1>1
  <2>2. {e \in new : e.kind = "LEG_COMPLETED"} = IF x.leg = NoLeg THEN {} ELSE {LegEvent(v, x)}
    BY <1>i, <1>6
  <2> HIDE DEF x, new
  <2>3. QED
    BY <1>1, <1>2, <1>5, <2>1, <2>2, LegReplaced, TypeParts DEF RecordsFit, x
<1>16. QED
  BY <1>8, <1>9, <1>10, <1>11, <1>12, <1>13, <1>14, <1>15, <1>l DEF RecordsFit

LEMMA LegEndFits ==
  ASSUME TypeOK, TypeOK', Ordered, RecordsFit, NEW v \in Vehicles,
         LegCompleted(v) \/ LegCompletedPromote(v) \/ LegCompletedInvalidate(v)
  PROVE  RecordsFit'
  BY PromotedFits, InvalidatedFits, PickedUpFits, DroppedOffFits, MovementOverFits

-----------------------------------------------------------------------------
(* DRIVER_RESPONSE.                                                        *)
LegsBegin(kind, id, pushed, S) ==
  /\ events' = Rest(kind, id) \cup pushed
  /\ {e \in pushed : e.kind = "LEG_COMPLETED"} = {LegEvent(v, vehicles'[v]) : v \in S}
  /\ \A v \in S : vehicles[v].leg = NoLeg /\ vehicles'[v].leg # NoLeg
  /\ \A v \in Vehicles \ S : vehicles'[v].leg = vehicles[v].leg

LEMMA LegsStarted ==
  ASSUME EveryLegWillEnd, NEW kind, NEW id, NEW pushed, kind # "LEG_COMPLETED",
         NEW S \in SUBSET Vehicles, LegsBegin(kind, id, pushed, S)
  PROVE  EveryLegWillEnd'
<1> DEFINE popped == SimulationEvent(clock', kind, id)
           ends(w) == {e \in events : e.kind = "LEG_COMPLETED" /\ e.id = w}
           new(w) == {e \in events' : e.kind = "LEG_COMPLETED" /\ e.id = w}
           begun == {LegEvent(v, vehicles'[v]) : v \in S}
<1>1. popped.kind = kind
  BY EventFields
<1>2. \A w : LegEvent(w, vehicles'[w]).id = w /\ LegEvent(w, vehicles'[w]).kind = "LEG_COMPLETED"
  BY EventFields DEF LegEvent
<1>a. /\ {e \in pushed : e.kind = "LEG_COMPLETED"} = begun
      /\ \A v \in S : vehicles[v].leg = NoLeg /\ vehicles'[v].leg # NoLeg
      /\ \A v \in Vehicles \ S : vehicles'[v].leg = vehicles[v].leg
  BY DEF LegsBegin
<1> HIDE DEF popped
<1>3. events' = (events \ {popped}) \cup pushed
  BY DEF Rest, LegsBegin, popped
<1>4. \A e : e \in pushed /\ e.kind = "LEG_COMPLETED" <=> e \in begun
  BY <1>a
<1>5. ASSUME NEW w \in Vehicles
      PROVE  new(w) = IF vehicles'[w].leg = NoLeg THEN {} ELSE {LegEvent(w, vehicles'[w])}
  <2>1. ends(w) = IF vehicles[w].leg = NoLeg THEN {} ELSE {LegEvent(w, vehicles[w])}
    BY DEF EveryLegWillEnd
  <2>2. new(w) = ends(w) \cup {e \in begun : e.id = w}
    <3>1. \A e : e \in new(w) <=> e \in ends(w) \/ (e \in begun /\ e.id = w)
      BY <1>1, <1>3, <1>4
    <3>2. QED
      BY <3>1
  <2>3. CASE w \in S
    <3>1. {e \in begun : e.id = w} = {LegEvent(w, vehicles'[w])}
      BY <1>2, <2>3
    <3>2. QED
      BY <1>a, <2>1, <2>2, <2>3, <3>1
  <2>4. CASE w \notin S
    <3>1. {e \in begun : e.id = w} = {}
      BY <1>2, <2>4
    <3>2. LegEvent(w, vehicles'[w]) = LegEvent(w, vehicles[w])
      BY <1>a, <2>4 DEF LegEvent
    <3>3. QED
      BY <1>a, <2>1, <2>2, <2>4, <3>1, <3>2
  <2>5. QED
    BY <2>3, <2>4
<1>6. QED
  BY <1>5 DEF EveryLegWillEnd

(* The offer that is answered.                                             *)
LEMMA Answered ==
  ASSUME TypeOK, Ordered, RecordsFit, NEW o \in offers, Respond(o)
  PROVE  LET r == o.request
             v == o.vehicle
         IN  /\ Pop("DRIVER_RESPONSE", <<r, v>>) /\ offers' = offers \ {o}
             /\ r \in Requests /\ v \in Vehicles /\ v # NoVehicle /\ r \notin Stranded
             /\ OfferFits(o) /\ o.eta \in Nat
             /\ requests[r] = Row("OFFERED", requests[r].assigned, NoVehicle, v)
             /\ requests[r].status = "OFFERED" /\ requests[r].reserved = NoVehicle
             /\ requests[r].econ = v
             /\ vehicles[v].reserved = NoRequest
             /\ \A p \in offers' : p \in offers /\ p # o /\ p.request # r /\ p.vehicle # v
<1> DEFINE r == o.request
           v == o.vehicle
<1>1. Pop("DRIVER_RESPONSE", <<r, v>>) /\ offers' = offers \ {o}
  BY DEF Respond
<1>2. r \in Requests /\ v \in Vehicles /\ v # NoVehicle /\ o.eta \in Nat
  BY TypeParts, KindsAssumption DEF OfferRecord, Vehicles
<1>3. OfferFits(o) /\ \A p \in offers : p.request = r \/ p.vehicle = v => p = o
  BY DEF RecordsFit, OffersFit
<1>4. requests[r] \in RequestRecord /\ HoldFits(r)
  BY <1>2, TypeParts DEF RecordsFit
<1>5. requests[r].status = "OFFERED" /\ requests[r].econ = v /\ vehicles[v].reserved = NoRequest
  BY <1>3 DEF OfferFits
<1>6. requests[r].reserved = NoVehicle
  BY <1>4, <1>5 DEF HoldFits
<1>7. requests[r] = Row("OFFERED", requests[r].assigned, NoVehicle, v)
  BY <1>4, <1>5, <1>6, RowOf
<1>8. r \notin Stranded
  BY <1>5 DEF RecordsFit, StrandedFits, Stranded
<1>9. QED
  BY <1>1, <1>2, <1>3, <1>5, <1>6, <1>7, <1>8

LEMMA AnsweredOnce ==
  ASSUME TypeOK, Ordered, RecordsFit, NEW o \in offers, Respond(o),
         NEW kinds, Leaves("DRIVER_RESPONSE", <<o.request, o.vehicle>>, kinds),
         kinds \subseteq {"LEG_COMPLETED", "RESERVATION_EXPIRED"}
  PROVE  AnswersFit' /\ QueueFits'
<1> DEFINE popped == SimulationEvent(clock', "DRIVER_RESPONSE", <<o.request, o.vehicle>>)
<1>1. popped \in events /\ popped.kind = "DRIVER_RESPONSE" /\ popped.id = <<o.request, o.vehicle>>
        /\ offers' = offers \ {o}
  BY Answered, Popped, EventFields
<1>2. \A e \in events' : e.kind \in {"DRIVER_RESPONSE", "DECISION_EPOCH"}
                           => e \in events /\ e # popped
  BY DEF Leaves, Rest
<1> HIDE DEF popped
<1>3. AnswersFit
  BY DEF RecordsFit
<1>4. ASSUME NEW e \in events', e.kind = "DRIVER_RESPONSE"
      PROVE  \E p \in offers' : e.id = <<p.request, p.vehicle>>
  <2>1. e \in events /\ e # popped
    BY <1>2, <1>4
  <2>2. e.id # popped.id
    BY <1>1, <1>3, <1>4, <2>1 DEF AnswersFit
  <2>3. PICK p \in offers : e.id = <<p.request, p.vehicle>>
    BY <1>3, <1>4, <2>1 DEF AnswersFit
  <2>4. QED
    BY <1>1, <2>2, <2>3
<1>5. AnswersFit'
  BY <1>2, <1>3, <1>4 DEF AnswersFit
<1>6. QueueFits'
  BY QueueKept DEF RecordsFit, PushedKinds
<1>7. QED
  BY <1>5, <1>6

(* The other offers stay open.                                             *)
LEMMA OthersStayOpen ==
  ASSUME TypeOK, TypeOK', Ordered, RecordsFit, NEW o \in offers, Respond(o),
         NEW kinds, Leaves("DRIVER_RESPONSE", <<o.request, o.vehicle>>, kinds),
         kinds \subseteq {"LEG_COMPLETED", "RESERVATION_EXPIRED"},
         \A s \in Requests : s # o.request => requests'[s] = requests[s],
         \A w \in Vehicles : w # o.vehicle => vehicles'[w] = vehicles[w],
         requests'[o.request].status # "OFFERED", vehicles'[o.vehicle].status # "WAITING"
  PROVE  OffersFit'
<1> DEFINE popped == SimulationEvent(clock', "DRIVER_RESPONSE", <<o.request, o.vehicle>>)
<1>1. /\ popped.kind = "DRIVER_RESPONSE" /\ popped.id = <<o.request, o.vehicle>>
      /\ offers' = offers \ {o}
      /\ \A p \in offers' : p \in offers /\ p # o /\ p.request # o.request /\ p.vehicle # o.vehicle
  BY Answered, EventFields
<1> HIDE DEF popped
<1>2. \A e \in events : e # popped => e \in events'
  BY DEF Leaves, Rest, popped
<1>3. ASSUME NEW p \in offers' PROVE OfferFits(p)'
  <2>1. p \in offers /\ OfferFits(p) /\ p.request \in Requests /\ p.vehicle \in Vehicles
    BY <1>1, TypeParts DEF RecordsFit, OffersFit, OfferRecord, Vehicles
  <2>2. requests'[p.request] = requests[p.request] /\ vehicles'[p.vehicle] = vehicles[p.vehicle]
    BY <1>1, <2>1
  <2>3. \E e \in events' : e.kind = "DRIVER_RESPONSE" /\ e.id = <<p.request, p.vehicle>>
    <3>1. PICK e \in events : e.kind = "DRIVER_RESPONSE" /\ e.id = <<p.request, p.vehicle>>
      BY <2>1 DEF OfferFits
    <3>2. e # popped
      BY <1>1, <3>1
    <3>3. QED
      BY <1>2, <3>1, <3>2
  <2> DEFINE start == SimulationEvent(OnlineStart[p.vehicle], "HV_SESSION_START", p.vehicle)
  <2>4. start \notin events => start \notin events'
    <3>1. start.kind = "HV_SESSION_START"
      BY EventFields
    <3> HIDE DEF start
    <3>2. QED
      BY <3>1 DEF Rest, Leaves
  <2>5. QED
    BY <2>1, <2>2, <2>3, <2>4 DEF OfferFits
<1>4. \A p, t \in offers' : p.request = t.request \/ p.vehicle = t.vehicle => p = t
  BY <1>1 DEF RecordsFit, OffersFit
<1>5. ASSUME NEW s \in Requests, requests'[s].status = "OFFERED"
      PROVE  \E p \in offers' : p.request = s
  <2>1. s # o.request /\ requests[s].status = "OFFERED"
    BY <1>5
  <2>2. PICK p \in offers : p.request = s
    BY <2>1 DEF RecordsFit, OffersFit
  <2>3. QED
    BY <1>1, <2>1, <2>2
<1>6. ASSUME NEW w \in Vehicles, vehicles'[w].status = "WAITING"
      PROVE  \E p \in offers' : p.vehicle = w /\ ~p.preassigned
  <2>1. w # o.vehicle /\ vehicles[w].status = "WAITING"
    BY <1>6
  <2>2. PICK p \in offers : p.vehicle = w /\ ~p.preassigned
    BY <2>1 DEF RecordsFit, OffersFit
  <2>3. QED
    BY <1>1, <2>1, <2>2
<1>7. QED
  BY <1>3, <1>4, <1>5, <1>6 DEF OffersFit

LEMMA TurnedDown ==
  ASSUME TypeOK, Ordered, RecordsFit, NEW o \in offers, Respond(o), BackToPending(o)
  PROVE  LET r == o.request
         IN  /\ requests'[r].status = "PENDING" /\ requests'[r].assigned = requests[r].assigned
             /\ requests'[r].reserved = NoVehicle
             /\ \A s \in Requests : s # r => requests'[s] = requests[s]
             /\ index' = IndexReject(index, {r}) /\ book' = book
<1> DEFINE r == o.request
           v == o.vehicle
<1>2. r \in Requests /\ requests[r] = Row("OFFERED", requests[r].assigned, NoVehicle, v)
  BY Answered
<1>3. /\ requests'[r].status = "PENDING" /\ requests'[r].assigned = requests[r].assigned
      /\ requests'[r].reserved = NoVehicle
      /\ \A s \in Requests : s # r => requests'[s] = requests[s]
      /\ index' = IndexReject(index, {r}) /\ book' = book
  <2>1. requests' = [requests EXCEPT ![r] = RejectOffer(requests[r])]
          /\ index' = IndexReject(index, {r}) /\ book' = book
    BY DEF BackToPending
  <2>2. RejectOffer(requests[r]) = Row("PENDING", requests[r].assigned, NoVehicle, v)
    <3>1. RejectOffer(Row("OFFERED", requests[r].assigned, NoVehicle, v))
            = Row("PENDING", requests[r].assigned, NoVehicle, v)
      BY Waits
    <3>2. QED
      BY <1>2, <3>1
  <2>3. requests'[r] = Row("PENDING", requests[r].assigned, NoVehicle, v)
    BY <1>2, <2>1, <2>2, TypeParts
  <2>4. \A s \in Requests : s # r => requests'[s] = requests[s]
    BY <2>1, TypeParts
  <2>5. QED
    BY <2>1, <2>3, <2>4, RowFields
<1>4. QED
  BY <1>3

LEMMA RejectionFits ==
  ASSUME TypeOK, TypeOK', Ordered, RecordsFit, NEW o \in offers,
         ResponseTimeout(o) \/ VehicleNotWaiting(o) \/ DriverRejects(o) \/ InsertsTooLate(o)
  PROVE  RecordsFit'
<1> DEFINE r == o.request
           v == o.vehicle
<1>1. Respond(o) /\ BackToPending(o) /\ Leaves("DRIVER_RESPONSE", <<r, v>>, {})
  BY LeavesRest DEF ResponseTimeout, VehicleNotWaiting, DriverRejects, InsertsTooLate,
                    BackToPending, OnlyResponse
<1>2. /\ Pop("DRIVER_RESPONSE", <<r, v>>) /\ r \in Requests /\ v \in Vehicles /\ r \notin Stranded
      /\ requests[r] = Row("OFFERED", requests[r].assigned, NoVehicle, v)
      /\ requests[r].status = "OFFERED" /\ requests[r].reserved = NoVehicle
      /\ OfferFits(o) /\ VehicleFits(v)
  BY <1>1, Answered DEF RecordsFit
<1>3. /\ requests'[r].status = "PENDING" /\ requests'[r].assigned = requests[r].assigned
      /\ requests'[r].reserved = NoVehicle
      /\ \A s \in Requests : s # r => requests'[s] = requests[s]
      /\ index' = IndexReject(index, {r}) /\ book' = book
  BY <1>1, TurnedDown
<1>4. /\ \A w \in Vehicles : w # v => vehicles'[w] = vehicles[w]
      /\ vehicles'[v].leg = vehicles[v].leg /\ vehicles'[v].plan = vehicles[v].plan
      /\ vehicles'[v].reserved = vehicles[v].reserved
      /\ vehicles'[v].status # "WAITING"
      /\ vehicles[v].leg = NoLeg => vehicles'[v].status \in {"IDLE", "OFFLINE"}
      /\ vehicles[v].leg # NoLeg => vehicles'[v].status = vehicles[v].status
  <2> HIDE DEF r, v
  <2>1. vehicles \in [Vehicles -> VehicleRecord] /\ v \in Vehicles /\ vehicles[v] \in VehicleRecord
    BY <1>2, TypeParts
  <2>2. vehicles[v].status = "WAITING" => ~o.preassigned /\ vehicles[v].leg = NoLeg
    <3>1. ASSUME vehicles[v].status = "WAITING" PROVE ~o.preassigned
      <4>1. PICK p \in offers : p.vehicle = v /\ ~p.preassigned
        BY <1>2, <3>1 DEF RecordsFit, OffersFit
      <4>2. p = o
        BY <4>1 DEF RecordsFit, OffersFit, v
      <4>3. QED
        BY <4>1, <4>2
    <3>2. QED
      BY <1>2, <3>1 DEF OfferFits, v
  <2>3. CASE StopsWaiting(o) /\ ~o.preassigned
    <3>1. vehicles' = [vehicles EXCEPT ![v].status = Parked(v, clock')]
      BY <2>3 DEF StopsWaiting, v
    <3>2. Parked(v, clock') \in {"IDLE", "OFFLINE"}
      BY ParkedType
    <3>3. vehicles[v].leg = NoLeg
      BY <1>2, <2>3 DEF OfferFits, v
    <3>4. QED
      BY <2>1, <3>1, <3>2, <3>3 DEF VehicleRecord
  <2>4. CASE vehicles' = vehicles /\ vehicles[v].status # "WAITING"
    BY <1>2, <2>4 DEF VehicleFits
  <2>5. CASE ResponseTimeout(o) \/ DriverRejects(o)
    <3>1. StopsWaiting(o)
      BY <2>5 DEF ResponseTimeout, DriverRejects
    <3>2. o.preassigned => vehicles' = vehicles /\ vehicles[v].status # "WAITING"
      BY <2>2, <3>1 DEF StopsWaiting
    <3>3. QED
      BY <2>3, <2>4, <3>1, <3>2
  <2>6. CASE VehicleNotWaiting(o)
    <3>1. vehicles' = vehicles /\ ~(vehicles[v].leg = NoLeg /\ vehicles[v].status = "WAITING")
      BY <2>6 DEF VehicleNotWaiting, NoLongerWaiting, v
    <3>2. QED
      BY <2>2, <2>4, <3>1
  <2>7. CASE InsertsTooLate(o)
    <3>1. vehicles' = vehicles /\ o.preassigned
      BY <2>7 DEF InsertsTooLate
    <3>2. QED
      BY <2>2, <2>4, <3>1
  <2>8. QED
    BY <2>5, <2>6, <2>7
<1> HIDE DEF r, v
<1>5. StrandedFits' /\ Stranded' = Stranded
  <2>1. \A s \in Stranded : s \in Requests /\ s # r
    BY <1>2 DEF RecordsFit, StrandedFits, Stranded
  <2>2. QED
    BY <1>1, <1>2, <1>3, <2>1, NothingStranded
<1>6. ASSUME NEW w \in Vehicles PROVE VehicleFits(w)'
  <2>1. CASE w = v
    BY <1>2, <1>4, <1>5, <2>1 DEF VehicleFits, PlanOf
  <2>2. CASE w # v
    BY <1>4, <1>5, <2>2, VehicleKept DEF RecordsFit
  <2>3. QED
    BY <2>1, <2>2
<1>7. \A w \in Vehicles : /\ vehicles'[w].leg = vehicles[w].leg
                          /\ vehicles'[w].reserved = vehicles[w].reserved
  BY <1>4
<1>8. OneVehiclePerRide'
  BY <1>2, <1>3, <1>7 DEF RecordsFit, OneVehiclePerRide, OnLeg, LegStatus
<1>9. ASSUME NEW s \in Requests PROVE HoldFits(s)'
  <2>1. HoldFits(s)
    BY DEF RecordsFit
  <2>2. requests'[s].reserved = requests[s].reserved
    BY <1>2, <1>3
  <2>3. /\ requests'[s].status \in RestingStatus
        /\ requests'[s].status = "RESERVED" <=> requests[s].status = "RESERVED"
    BY <1>2, <1>3, <2>1 DEF HoldFits, RestingStatus
  <2>4. QED
    BY <1>3, <1>5, <1>7, <2>1, <2>2, <2>3 DEF HoldFits
<1>10. OffersFit'
  BY <1>1, <1>3, <1>4, OthersStayOpen DEF r, v
<1>11. AnswersFit' /\ QueueFits'
  BY <1>1, AnsweredOnce DEF r, v
<1>12. ASSUME NEW s \in Requests PROVE RevealFits(s)' /\ ExpiryFits(s)' /\ EconomicsFit(s)'
  <2>1. RevealFits(s)'
    BY <1>1, <1>2, <1>3, RevealKept DEF RecordsFit
  <2>2. ExpiryFits(s)'
    BY <1>1, <1>2, <1>3, <1>5, ExpiryKept DEF RecordsFit
  <2>3. EconomicsFit(s)'
    BY <1>3 DEF RecordsFit, EconomicsFit
  <2>4. QED
    BY <2>1, <2>2, <2>3
<1>13. IndexAgreement'
  <2>1. index \in IndexRecord
    BY TypeParts
  <2>2. QED
    BY <1>2, <1>3, <2>1 DEF IndexAgreement, RecordsFit, IndexRecord, IndexReject
<1>14. EveryLegWillEnd'
  BY <1>1, <1>7, LegsKept DEF RecordsFit
<1>15. QED
  BY <1>5, <1>6, <1>8, <1>9, <1>10, <1>11, <1>12, <1>13, <1>14 DEF RecordsFit

-----------------------------------------------------------------------------
(* The driver agrees to be held behind the ride that is still under way.   *)
LEMMA AgreesToBeHeld ==
  ASSUME TypeOK, Ordered, RecordsFit, NEW o \in offers, AcceptsReservation(o)
  PROVE  LET r == o.request
             v == o.vehicle
         IN  /\ requests'[r].status = "RESERVED" /\ requests'[r].assigned = requests[r].assigned
             /\ requests'[r].reserved = v /\ requests'[r].econ = v
             /\ \A s \in Requests : s # r => requests'[s] = requests[s]
             /\ index' = IndexReserve(index, {r}) /\ book' = [book EXCEPT ![r] = v]
<1> DEFINE r == o.request
           v == o.vehicle
<1>2. r \in Requests /\ requests[r] = Row("OFFERED", requests[r].assigned, NoVehicle, v)
  BY Answered DEF AcceptsReservation
<1>4. /\ requests'[r].status = "RESERVED" /\ requests'[r].assigned = requests[r].assigned
      /\ requests'[r].reserved = v /\ requests'[r].econ = v
      /\ \A s \in Requests : s # r => requests'[s] = requests[s]
      /\ index' = IndexReserve(index, {r}) /\ book' = [book EXCEPT ![r] = v]
  <2>1. requests' = [requests EXCEPT ![r] = Reserve(requests[r], v)]
          /\ index' = IndexReserve(index, {r}) /\ book' = [book EXCEPT ![r] = v]
    BY DEF AcceptsReservation
  <2>2. Reserve(requests[r], v) = Row("RESERVED", requests[r].assigned, v, v)
    <3>1. Reserve(Row("OFFERED", requests[r].assigned, NoVehicle, v), v)
            = Row("RESERVED", requests[r].assigned, v, v)
      BY Waits
    <3>2. QED
      BY <1>2, <3>1
  <2>3. requests'[r] = Row("RESERVED", requests[r].assigned, v, v)
    BY <1>2, <2>1, <2>2, TypeParts
  <2>4. \A s \in Requests : s # r => requests'[s] = requests[s]
    BY <2>1, TypeParts
  <2>5. QED
    BY <2>1, <2>3, <2>4, RowFields
<1>5. QED
  BY <1>4

LEMMA AcceptsReservationFits ==
  ASSUME TypeOK, TypeOK', Ordered, RecordsFit, NEW o \in offers, AcceptsReservation(o)
  PROVE  RecordsFit'
<1> DEFINE r == o.request
           v == o.vehicle
           expiry == SimulationEvent(LatestPickup[r], "RESERVATION_EXPIRED", r)
<1>1. Respond(o) /\ o.preassigned /\ ~Uninstallable(o)
        /\ events' = Rest("DRIVER_RESPONSE", <<r, v>>) \cup {expiry}
  BY DEF AcceptsReservation
<1>2. /\ Pop("DRIVER_RESPONSE", <<r, v>>) /\ r \in Requests /\ v \in Vehicles /\ r \notin Stranded
      /\ requests[r] = Row("OFFERED", requests[r].assigned, NoVehicle, v)
      /\ requests[r].status = "OFFERED" /\ requests[r].reserved = NoVehicle
      /\ OfferFits(o) /\ VehicleFits(v) /\ vehicles[v].reserved = NoRequest /\ v # NoVehicle
  BY <1>1, Answered DEF RecordsFit
<1>3. Leaves("DRIVER_RESPONSE", <<r, v>>, {"RESERVATION_EXPIRED"}) /\ expiry \in events'
  BY <1>1, EventFields DEF Leaves
<1>4. /\ requests'[r].status = "RESERVED" /\ requests'[r].assigned = requests[r].assigned
      /\ requests'[r].reserved = v /\ requests'[r].econ = v
      /\ \A s \in Requests : s # r => requests'[s] = requests[s]
      /\ index' = IndexReserve(index, {r}) /\ book' = [book EXCEPT ![r] = v]
  BY AgreesToBeHeld
<1>5. vehicles[v].leg.kind = "SERVICE" /\ vehicles[v].status = "SERVICE"
  <2>1. vehicles[v].leg # NoLeg
    BY <1>1 DEF Uninstallable
  <2>2. QED
    BY <1>2, <2>1 DEF OfferFits, VehicleFits, BusyStatus
<1>6. /\ \A w \in Vehicles : w # v => vehicles'[w] = vehicles[w]
      /\ vehicles'[v].leg = vehicles[v].leg /\ vehicles'[v].plan = AssignmentPlan(r)
      /\ vehicles'[v].reserved = r /\ vehicles'[v].status = vehicles[v].status
  <2>1. vehicles' = [vehicles EXCEPT ![v].reserved = r, ![v].plan = o.plan]
    BY DEF AcceptsReservation
  <2>2. o.plan = AssignmentPlan(r)
    BY <1>2 DEF OfferFits
  <2> HIDE DEF r, v
  <2>3. vehicles \in [Vehicles -> VehicleRecord] /\ vehicles[v] \in VehicleRecord
    BY <1>2, TypeParts
  <2>4. QED
    BY <1>2, <2>1, <2>2, <2>3 DEF VehicleRecord
<1>d. expiry = SimulationEvent(LatestPickup[r], "RESERVATION_EXPIRED", r) /\ r # NoRequest
  BY <1>2, KindsAssumption
<1> HIDE DEF r, v, expiry
<1>7. StrandedFits' /\ Stranded' = Stranded
  <2>1. \A s \in Stranded : s \in Requests /\ s # r
    BY <1>2 DEF RecordsFit, StrandedFits, Stranded
  <2>2. QED
    BY <1>2, <1>3, <1>4, <2>1, NothingStranded
<1>8. ASSUME NEW w \in Vehicles PROVE VehicleFits(w)'
  <2>1. CASE w = v
    BY <1>2, <1>5, <1>6, <1>7, <1>d, <2>1 DEF VehicleFits, PlanOf, BusyStatus, NoLeg
  <2>2. CASE w # v
    BY <1>6, <1>7, <2>2, VehicleKept DEF RecordsFit
  <2>3. QED
    BY <2>1, <2>2
<1>9. \A w \in Vehicles : vehicles'[w].leg = vehicles[w].leg
  BY <1>6
<1>10. OneVehiclePerRide'
  BY <1>2, <1>4, <1>9 DEF RecordsFit, OneVehiclePerRide, OnLeg, LegStatus
<1>11. ASSUME NEW s \in Requests PROVE HoldFits(s)'
  <2>1. HoldFits(s) /\ HoldFits(r)
    BY <1>2 DEF RecordsFit
  <2>2. book'[r] = v /\ (s # r => book'[s] = book[s])
    BY <1>2, <1>4, TypeParts
  <2>3. CASE s = r
    <3>1. \A w \in Vehicles : vehicles[w].reserved # r
      BY <1>2, <2>1, KindsAssumption DEF HoldFits
    <3>2. \A w \in Vehicles : vehicles'[w].reserved = r <=> w = v
      BY <1>6, <3>1
    <3>3. QED
      BY <1>2, <1>4, <1>7, <2>2, <2>3, <3>2 DEF HoldFits, RestingStatus
  <2>4. CASE s # r
    <3>1. \A w \in Vehicles : vehicles'[w].reserved = s <=> vehicles[w].reserved = s
      BY <1>2, <1>6, <2>4, KindsAssumption
    <3>2. QED
      BY <1>4, <1>7, <2>1, <2>2, <2>4, <3>1 DEF HoldFits
  <2>5. QED
    BY <2>3, <2>4
<1>12. OffersFit'
  <2>1. requests'[r].status # "OFFERED" /\ vehicles'[v].status # "WAITING"
    BY <1>4, <1>5, <1>6
  <2>2. QED
    BY <1>1, <1>3, <1>4, <1>6, <2>1, OthersStayOpen DEF r, v
<1>13. AnswersFit' /\ QueueFits'
  BY <1>1, <1>3, AnsweredOnce DEF r, v
<1>14. ASSUME NEW s \in Requests PROVE RevealFits(s)' /\ ExpiryFits(s)' /\ EconomicsFit(s)'
  <2>1. RevealFits(s)'
    BY <1>3, <1>2, <1>4, RevealKept DEF RecordsFit, PushedKinds
  <2>2. ExpiryFits(s)'
    <3>1. CASE s = r
      BY <1>3, <1>d, <3>1 DEF ExpiryFits
    <3>2. CASE s # r
      BY <1>3, <1>4, <1>7, <3>2, ExpiryKept DEF RecordsFit, PushedKinds
    <3>3. QED
      BY <3>1, <3>2
  <2>3. EconomicsFit(s)'
    BY <1>4 DEF RecordsFit, EconomicsFit
  <2>4. QED
    BY <2>1, <2>2, <2>3
<1>15. IndexAgreement'
  <2>1. index \in IndexRecord
    BY TypeParts
  <2>2. QED
    BY <1>2, <1>4, <2>1 DEF IndexAgreement, RecordsFit, IndexRecord, IndexReserve
<1>16. EveryLegWillEnd'
  BY <1>3, <1>9, LegsKept DEF RecordsFit
<1>17. QED
  BY <1>7, <1>8, <1>10, <1>11, <1>12, <1>13, <1>14, <1>15, <1>16 DEF RecordsFit

(* The driver accepts and starts at once.                                  *)
LEMMA Accepted ==
  ASSUME TypeOK, Ordered, RecordsFit, NEW o \in offers, AcceptsAssignment(o)
  PROVE  LET r == o.request
             v == o.vehicle
             started == Driving("PICKUP", "PICKUP", r, clock' + Larger(MinLeg, o.eta),
                                <<Stop("DROP_OFF", r)>>, NoRequest)
         IN  /\ vehicles[v].leg = NoLeg /\ vehicles[v].status = "WAITING"
             /\ requests' = [requests EXCEPT ![r] = Row("PICKUP_STARTED", v, NoVehicle, v)]
             /\ vehicles' = [vehicles EXCEPT ![v] = started]
             /\ events' = Rest("DRIVER_RESPONSE", <<r, v>>) \cup {LegEvent(v, started)}
             /\ index' = IndexAssign(index, {r}) /\ UNCHANGED book
<1> DEFINE r == o.request
           v == o.vehicle
           end == clock' + Larger(MinLeg, o.eta)
           started == Driving("PICKUP", "PICKUP", r, end, <<Stop("DROP_OFF", r)>>, NoRequest)
<1>1. Respond(o) /\ ~NoLongerWaiting(o) /\ ~o.preassigned
  BY DEF AcceptsAssignment
<1>2. /\ r \in Requests /\ v \in Vehicles
      /\ requests[r] = Row("OFFERED", requests[r].assigned, NoVehicle, v)
      /\ requests[r].status = "OFFERED"
      /\ OfferFits(o) /\ vehicles[v].reserved = NoRequest
  BY <1>1, Answered
<1>3. vehicles[v].leg = NoLeg /\ vehicles[v].status = "WAITING"
  BY <1>1 DEF NoLongerWaiting
<1>4. o.plan = AssignmentPlan(r)
  BY <1>2 DEF OfferFits
<1>5. requests' = [requests EXCEPT ![r] = Row("PICKUP_STARTED", v, NoVehicle, v)]
  <2>1. requests' = [requests EXCEPT ![r] = StartRequest(Assign(requests[r], v), v, Head(o.plan))]
    BY DEF AcceptsAssignment
  <2>2. Head(o.plan) = Stop("PICKUP", r)
    BY <1>2, <1>4, Stops
  <2>3. Assign(Row("OFFERED", requests[r].assigned, NoVehicle, v), v)
          = Row("ASSIGNED", v, NoVehicle, v)
    BY Waits
  <2>4. StartRequest(Row("ASSIGNED", v, NoVehicle, v), v, Stop("PICKUP", r))
          = Row("PICKUP_STARTED", v, NoVehicle, v)
    BY Rides
  <2>5. QED
    BY <1>2, <2>1, <2>2, <2>3, <2>4
<1>6. vehicles' = [vehicles EXCEPT ![v] = started]
  <2> DEFINE x == [vehicles[v] EXCEPT !.plan = o.plan]
  <2>1. vehicles' = [vehicles EXCEPT ![v] = StartNextLeg(v, x, clock', o.eta)]
    BY DEF AcceptsAssignment
  <2>2. x.plan = AssignmentPlan(r) /\ x.reserved = NoRequest
    <3>1. vehicles[v] \in VehicleRecord
      BY <1>2, TypeParts
    <3>2. QED
      BY <1>2, <1>4, <3>1 DEF VehicleRecord
  <2>3. requests[r].status # "RESERVED" /\ r \in Requests
    BY <1>2
  <2> HIDE DEF x, r
  <2>4. StartNextLeg(v, x, clock', o.eta)
          = Driving("PICKUP", "PICKUP", r, clock' + Larger(MinLeg, o.eta),
                    <<Stop("DROP_OFF", r)>>, NoRequest)
    BY <2>2, <2>3, StartedLeg
  <2>5. QED
    BY <2>1, <2>4
<1>7. events' = Rest("DRIVER_RESPONSE", <<r, v>>) \cup {LegEvent(v, started)}
  <2>1. vehicles'[v] = started
    BY <1>2, <1>6, TypeParts
  <2>2. events' = Rest("DRIVER_RESPONSE", <<r, v>>) \cup {LegEvent(v, vehicles'[v])}
    BY DEF AcceptsAssignment
  <2> HIDE DEF started
  <2>3. QED
    BY <2>1, <2>2
<1>8. index' = IndexAssign(index, {r}) /\ UNCHANGED book
  BY DEF AcceptsAssignment
<1>9. QED
  BY <1>3, <1>5, <1>6, <1>7, <1>8

LEMMA AcceptsAssignmentFits ==
  ASSUME TypeOK, TypeOK', Ordered, RecordsFit, NEW o \in offers, AcceptsAssignment(o)
  PROVE  RecordsFit'
<1> DEFINE r == o.request
           v == o.vehicle
           end == clock' + Larger(MinLeg, o.eta)
           started == Driving("PICKUP", "PICKUP", r, end, <<Stop("DROP_OFF", r)>>, NoRequest)
<1>1. Respond(o)
  BY DEF AcceptsAssignment
<1>2. /\ Pop("DRIVER_RESPONSE", <<r, v>>) /\ r \in Requests /\ v \in Vehicles /\ r \notin Stranded
      /\ requests[r].status = "OFFERED" /\ requests[r].reserved = NoVehicle
      /\ VehicleFits(v) /\ vehicles[v].reserved = NoRequest /\ v # NoVehicle
  BY <1>1, Answered DEF RecordsFit
<1>3. /\ vehicles[v].leg = NoLeg /\ vehicles[v].status = "WAITING"
      /\ requests' = [requests EXCEPT ![r] = Row("PICKUP_STARTED", v, NoVehicle, v)]
      /\ vehicles' = [vehicles EXCEPT ![v] = started]
      /\ events' = Rest("DRIVER_RESPONSE", <<r, v>>) \cup {LegEvent(v, started)}
      /\ index' = IndexAssign(index, {r}) /\ book' = book
  BY Accepted
<1>4. Leaves("DRIVER_RESPONSE", <<r, v>>, {"LEG_COMPLETED"})
  BY <1>3, EventFields DEF Leaves, LegEvent
<1>5. \A w \in Vehicles : vehicles'[w] = IF w = v THEN started ELSE vehicles[w]
  BY <1>3, TypeParts
<1>6. /\ started.leg # NoLeg /\ started.plan = <<Stop("DROP_OFF", r)>>
      /\ started.reserved = NoRequest
      /\ started.status = "PICKUP" /\ started.leg.kind = "PICKUP" /\ started.leg.request = r
  BY DrivingFields
<1>7. /\ requests'[r].status = "PICKUP_STARTED" /\ requests'[r].assigned = v
      /\ requests'[r].reserved = NoVehicle /\ requests'[r].econ = v
      /\ \A s \in Requests : s # r => requests'[s] = requests[s]
  BY <1>2, <1>3, TypeParts, RowFields
<1>d. /\ started = Driving("PICKUP", "PICKUP", r, end, <<Stop("DROP_OFF", r)>>, NoRequest)
      /\ r # NoRequest /\ NoLeg.kind = "NONE"
  BY <1>2, KindsAssumption DEF NoLeg
<1> HIDE DEF r, v, started, end
<1>8. StrandedFits' /\ Stranded' = Stranded
  <2>1. \A s \in Stranded : s \in Requests /\ s # r
    BY <1>2 DEF RecordsFit, StrandedFits, Stranded
  <2>2. QED
    BY <1>2, <1>4, <1>7, <2>1, NothingStranded
<1>9. ASSUME NEW w \in Vehicles PROVE VehicleFits(w)'
  <2>1. CASE w = v
    <3>1. vehicles'[v] = Driving("PICKUP", "PICKUP", r, end, <<Stop("DROP_OFF", r)>>, NoRequest)
      BY <1>2, <1>d, <1>5
    <3>2. BusyStatus["PICKUP"] = "PICKUP" /\ "PICKUP" \in DOMAIN BusyStatus
      BY DEF BusyStatus
    <3>3. VehicleFits(v)'
      BY <1>2, <3>1, <3>2, DrivingFits
    <3>4. QED
      BY <2>1, <3>3
  <2>2. CASE w # v
    BY <1>5, <1>8, <2>2, VehicleKept DEF RecordsFit
  <2>3. QED
    BY <2>1, <2>2
<1>10. OneVehiclePerRide'
  <2>0. OneVehiclePerRide /\ LegStatus["PICKUP"] = "PICKUP_STARTED"
    BY DEF RecordsFit, LegStatus
  <2>1. ASSUME NEW s \in Requests, NEW w \in Vehicles
        PROVE  /\ OnLeg(s, w)' <=> (w = v /\ s = r) \/ (w # v /\ OnLeg(s, w))
               /\ ~OnLeg(r, w) /\ ~OnLeg(s, v)
    <3>1. OnLeg(s, w)' <=> (w = v /\ s = r) \/ (w # v /\ OnLeg(s, w))
      BY <1>5, <1>6 DEF OnLeg, LegStatus
    <3>2. ~OnLeg(r, w)
      BY <1>2, <2>0 DEF OneVehiclePerRide
    <3>3. ~OnLeg(s, v)
      BY <1>3, <1>d DEF OnLeg, LegStatus
    <3>4. QED
      BY <3>1, <3>2, <3>3
  <2>2. ASSUME NEW s \in Requests
        PROVE  /\ requests'[s].status \notin {"ASSIGNED", "BOARDED"}
               /\ requests'[s].status \in {"PICKUP_STARTED", "IN_SERVICE"} <=>
                    \E w \in Vehicles : OnLeg(s, w)'
               /\ \A w \in Vehicles :
                    OnLeg(s, w)' => /\ requests'[s].status = LegStatus[vehicles'[w].leg.kind]
                                    /\ requests'[s].assigned = w
    <3>1. CASE s = r
      <4>1. \A w \in Vehicles : OnLeg(s, w)' <=> w = v
        BY <1>2, <2>1, <3>1
      <4>2. vehicles'[v].leg.kind = "PICKUP"
        BY <1>2, <1>5, <1>6
      <4>3. QED
        BY <1>2, <1>7, <2>0, <3>1, <4>1, <4>2
    <3>2. CASE s # r
      <4>1. requests'[s] = requests[s]
        BY <1>7, <3>2
      <4>2. \A w \in Vehicles : OnLeg(s, w)' <=> OnLeg(s, w)
        BY <2>1, <3>2
      <4>3. \A w \in Vehicles : OnLeg(s, w) => vehicles'[w] = vehicles[w]
        BY <1>5, <2>1
      <4>4. QED
        BY <2>0, <4>1, <4>2, <4>3 DEF OneVehiclePerRide
    <3>3. QED
      BY <3>1, <3>2
  <2>3. QED
    BY <2>2 DEF OneVehiclePerRide
<1>11. ASSUME NEW s \in Requests PROVE HoldFits(s)'
  <2>1. HoldFits(s)
    BY DEF RecordsFit
  <2>2. \A w \in Vehicles : vehicles'[w].reserved = vehicles[w].reserved
    BY <1>2, <1>5, <1>6
  <2>3. requests'[s].reserved = requests[s].reserved
    BY <1>2, <1>7
  <2>4. /\ requests'[s].status \in RestingStatus
        /\ requests'[s].status = "RESERVED" <=> requests[s].status = "RESERVED"
    BY <1>2, <1>7, <2>1 DEF HoldFits, RestingStatus
  <2>5. QED
    BY <1>3, <1>8, <2>1, <2>2, <2>3, <2>4 DEF HoldFits
<1>12. OffersFit'
  <2>1. requests'[r].status # "OFFERED" /\ vehicles'[v].status # "WAITING"
    BY <1>2, <1>5, <1>6, <1>7
  <2>2. QED
    BY <1>1, <1>4, <1>5, <1>7, <2>1, OthersStayOpen DEF r, v
<1>13. AnswersFit' /\ QueueFits'
  BY <1>1, <1>4, AnsweredOnce DEF r, v
<1>14. ASSUME NEW s \in Requests PROVE RevealFits(s)' /\ ExpiryFits(s)' /\ EconomicsFit(s)'
  <2>1. RevealFits(s)'
    BY <1>2, <1>4, <1>7, RevealKept DEF RecordsFit, PushedKinds
  <2>2. ExpiryFits(s)'
    BY <1>4, <1>7, <1>8, ExpiryKept DEF RecordsFit, PushedKinds
  <2>3. EconomicsFit(s)'
    BY <1>7 DEF RecordsFit, EconomicsFit
  <2>4. QED
    BY <2>1, <2>2, <2>3
<1>15. IndexAgreement'
  <2>1. index \in IndexRecord
    BY TypeParts
  <2>2. QED
    BY <1>2, <1>3, <1>7, <2>1 DEF IndexAgreement, RecordsFit, IndexRecord, IndexAssign
<1>16. EveryLegWillEnd'
  <2>1. LegEvent(v, started).kind = "LEG_COMPLETED" /\ vehicles'[v] = started
    BY <1>2, <1>5, EventFields DEF LegEvent
  <2> DEFINE new == {LegEvent(v, started)}
             S == {v}
  <2>2. {e \in new : e.kind = "LEG_COMPLETED"} = {LegEvent(w, vehicles'[w]) : w \in S}
    BY <2>1
  <2>3. events' = Rest("DRIVER_RESPONSE", <<r, v>>) \cup new
    BY <1>3
  <2>4. S \in SUBSET Vehicles
    BY <1>2
  <2>5. \A w \in S : vehicles[w].leg = NoLeg /\ vehicles'[w].leg # NoLeg
    BY <1>3, <1>6, <2>1
  <2>6. \A w \in Vehicles \ S : vehicles'[w].leg = vehicles[w].leg
    BY <1>5
  <2>6a. LegsBegin("DRIVER_RESPONSE", <<r, v>>, new, S)
    BY <2>2, <2>3, <2>5, <2>6 DEF LegsBegin
  <2>6b. EveryLegWillEnd /\ "DRIVER_RESPONSE" # "LEG_COMPLETED"
    BY DEF RecordsFit
  <2> HIDE DEF new, S
  <2>7. QED
    BY <2>4, <2>6a, <2>6b, LegsStarted
<1>17. QED
  BY <1>8, <1>9, <1>10, <1>11, <1>12, <1>13, <1>14, <1>15, <1>16 DEF RecordsFit

-----------------------------------------------------------------------------
(* DECISION_EPOCH.  A decision is what the matcher and the movements of an *)
(* epoch choose.                                                           *)
Decision(moved, ride, M, P) ==
  /\ Pop("DECISION_EPOCH", FleetController)
  /\ moved \in IdleMovements /\ ride \in [moved -> MoveTimes]
  /\ M \in Matchings(moved) /\ P \in Preassignments(M)
  /\ Decide(moved, ride, M, P)
  /\ UNCHANGED finalized

LEMMA EpochDecides ==
  ASSUME DecisionEpoch
  PROVE  \E moved, ride, M, P : Decision(moved, ride, M, P)
<1>1. PICK moved \in IdleMovements :
        \E ride \in [moved -> MoveTimes], M \in Matchings(moved) :
        \E P \in Preassignments(M) : Decide(moved, ride, M, P)
  BY DEF DecisionEpoch
<1>2. PICK ride \in [moved -> MoveTimes], M \in Matchings(moved) :
        \E P \in Preassignments(M) : Decide(moved, ride, M, P)
  BY <1>1
<1>3. PICK P \in Preassignments(M) : Decide(moved, ride, M, P)
  BY <1>2
<1>4. Decision(moved, ride, M, P)
  BY <1>3 DEF Decision, DecisionEpoch
<1>5. QED
  BY <1>4

(* An epoch finds every answer given and every cleanup done.               *)
LEMMA NothingOutstanding ==
  ASSUME TypeOK, Ordered, RecordsFit, Pop("DECISION_EPOCH", FleetController)
  PROVE  offers = {} /\ Stranded = {}
<1>1. Stranded = {}
  BY StrandedNow DEF RecordsFit
<1>2. ASSUME NEW o \in offers PROVE FALSE
  <2>1. PICK e \in events : e.kind = "DRIVER_RESPONSE" /\ e.id = <<o.request, o.vehicle>>
    BY DEF RecordsFit, OffersFit, OfferFits
  <2> DEFINE epoch == SimulationEvent(clock', "DECISION_EPOCH", FleetController)
  <2>2. epoch \in events /\ epoch.at = clock' /\ epoch.kind = "DECISION_EPOCH"
    BY Popped, EventFields
  <2> HIDE DEF epoch
  <2>3. e.at <= clock'
    BY <2>1, <2>2 DEF RecordsFit, AnswersFit
  <2>4. /\ clock' \in Nat /\ e.at \in Nat /\ clock' <= e.at
        /\ e.at = clock' => EventPriority["DECISION_EPOCH"] <= EventPriority[e.kind]
    BY Popped
  <2>5. EventPriority["DECISION_EPOCH"] <= EventPriority["DRIVER_RESPONSE"]
    BY <2>1, <2>3, <2>4
  <2>6. QED
    BY <2>5, Priorities
<1>3. QED
  BY <1>1, <1>2

(* A vehicle without a leg, when nothing is stranded, has no plan.         *)
LEMMA Unengaged ==
  ASSUME TypeOK, RecordsFit, Stranded = {}, NEW v \in Vehicles
  PROVE  /\ vehicles[v].leg = NoLeg => vehicles[v].reserved = NoRequest
         /\ vehicles[v].reserved = NoRequest /\ vehicles[v].leg.kind # "PICKUP"
              => vehicles[v].plan = <<>>
         /\ vehicles[v].status = "IDLE" => vehicles[v].leg = NoLeg
         /\ vehicles[v].status = "SERVICE" => vehicles[v].leg.kind = "SERVICE"
<1>1. VehicleFits(v) /\ NoLeg.kind = "NONE"
  BY DEF RecordsFit, NoLeg
<1>2. vehicles[v].leg = NoLeg => vehicles[v].reserved = NoRequest
  BY <1>1 DEF VehicleFits
<1>3. vehicles[v].reserved = NoRequest /\ vehicles[v].leg.kind # "PICKUP"
              => vehicles[v].plan = <<>>
  BY <1>1 DEF VehicleFits, PlanOf
<1>4. vehicles[v].leg.kind \in {"NONE", "PICKUP", "SERVICE", "HV_REPOSITION", "AV_REBALANCE"}
  BY TypeParts DEF VehicleRecord, LegRecord
<1>5. /\ vehicles[v].leg # NoLeg => vehicles[v].status = BusyStatus[vehicles[v].leg.kind]
                                    /\ vehicles[v].leg.kind # "NONE"
      /\ vehicles[v].leg = NoLeg => vehicles[v].status \in {"OFFLINE", "IDLE", "WAITING"}
  BY <1>1 DEF VehicleFits
<1>6. QED
  BY <1>2, <1>3, <1>4, <1>5 DEF BusyStatus

(* What the edges of a decision connect.                                   *)
LEMMA EpochEdges ==
  ASSUME TypeOK, Ordered, RecordsFit, NEW moved, NEW ride, NEW M, NEW P,
         Decision(moved, ride, M, P)
  PROVE  /\ \A r \in OutOfPatience : r \in Requests /\ requests[r].status = "PENDING"
         /\ \A e \in M \cup P :
              /\ e.request \in Requests \ OutOfPatience
              /\ requests[e.request].status = "PENDING"
              /\ e.vehicle \in Vehicles \ moved
              /\ vehicles[e.vehicle].reserved = NoRequest
              /\ vehicles[e.vehicle].plan = <<>>
         /\ \A e \in M : /\ vehicles[e.vehicle].leg = NoLeg
                         /\ e.eta \in PickupEtas
                         /\ Validate(e.vehicle, e.request, clock', clock' + e.eta)
         /\ \A e \in P : /\ vehicles[e.vehicle].leg.kind = "SERVICE"
                         /\ vehicles[e.vehicle].status = "SERVICE"
         /\ \A v \in moved : /\ v \in Vehicles /\ vehicles[v].leg = NoLeg
                             /\ vehicles[v].reserved = NoRequest
         /\ \A e, f \in M : e.request = f.request \/ e.vehicle = f.vehicle => e = f
         /\ \A e, f \in P : e.request = f.request => e = f
         /\ \A e, f \in Queued(P) : e.vehicle = f.vehicle => e = f
         /\ \A e \in M, f \in P : e.request # f.request /\ e.vehicle # f.vehicle
<1>1. /\ moved \in IdleMovements /\ M \in Matchings(moved) /\ P \in Preassignments(M)
      /\ offers = {} /\ Stranded = {}
  BY NothingOutstanding DEF Decision
<1>2. \A r \in OutOfPatience : r \in Requests /\ requests[r].status = "PENDING"
  <2>1. \A r \in OutOfPatience : r \in Requests /\ r \in index.pending
    BY <1>1, EpochChoices DEF OutOfPatience
  <2>2. QED
    BY <2>1 DEF RecordsFit, IndexAgreement
<1>3. /\ M \subseteq MatchEdges(moved) /\ P \subseteq PreassignEdges(M)
      /\ \A e, f \in Queued(P) : e.vehicle = f.vehicle => e = f
  <2>1. M \subseteq MatchEdges(moved)
    BY <1>1 DEF Matchings
  <2>2. P = {} \/ (/\ P \subseteq PreassignEdges(M)
                   /\ \A e, f \in Queued(P) : e.vehicle = f.vehicle => e = f)
    BY <1>1 DEF Preassignments
  <2>3. P = {} => Queued(P) = {}
    BY DEF Queued
  <2>4. QED
    BY <2>1, <2>2, <2>3
<1>4. ASSUME NEW e \in M
      PROVE  /\ requests[e.request].status = "PENDING" /\ vehicles[e.vehicle].leg = NoLeg
             /\ vehicles[e.vehicle].reserved = NoRequest /\ vehicles[e.vehicle].plan = <<>>
             /\ e.eta \in PickupEtas /\ Validate(e.vehicle, e.request, clock', clock' + e.eta)
  <2>1. /\ e.request \in Waiting /\ e.vehicle \in IdleVehicles /\ e.eta \in PickupEtas
        /\ Validate(e.vehicle, e.request, clock', clock' + e.eta)
    BY <1>3 DEF MatchEdges
  <2>2. e.vehicle \in Vehicles /\ vehicles[e.vehicle].status = "IDLE"
    BY <2>1 DEF IdleVehicles
  <2>3. vehicles[e.vehicle].leg = NoLeg /\ NoLeg.kind = "NONE"
    BY <1>1, <2>2, Unengaged DEF NoLeg
  <2>4. vehicles[e.vehicle].reserved = NoRequest /\ vehicles[e.vehicle].plan = <<>>
    BY <1>1, <2>2, <2>3, Unengaged
  <2>5. QED
    BY <2>1, <2>3, <2>4 DEF Waiting
<1>5. ASSUME NEW e \in P
      PROVE  /\ requests[e.request].status = "PENDING"
             /\ vehicles[e.vehicle].leg.kind = "SERVICE" /\ vehicles[e.vehicle].status = "SERVICE"
             /\ vehicles[e.vehicle].reserved = NoRequest /\ vehicles[e.vehicle].plan = <<>>
             /\ \A m \in M : m.vehicle # e.vehicle
  <2>1. /\ e.request \in Waiting /\ e.vehicle \in Releasing
    BY <1>3 DEF PreassignEdges
  <2>2. /\ e.vehicle \in Vehicles /\ vehicles[e.vehicle].status = "SERVICE"
        /\ vehicles[e.vehicle].reserved = NoRequest
    BY <2>1 DEF Releasing
  <2>3. vehicles[e.vehicle].leg.kind = "SERVICE"
    BY <1>1, <2>2, Unengaged
  <2>4. vehicles[e.vehicle].plan = <<>>
    BY <1>1, <2>2, <2>3, Unengaged
  <2>5. QED
    BY <1>1, <2>1, <2>2, <2>3, <2>4, EpochChoices DEF Waiting
<1>6. ASSUME NEW v \in moved
      PROVE  v \in Vehicles /\ vehicles[v].leg = NoLeg /\ vehicles[v].reserved = NoRequest
  <2>1. v \in Vehicles /\ vehicles[v].status = "IDLE"
    BY <1>1 DEF IdleMovements, IdleVehicles, Rested
  <2>2. QED
    BY <1>1, <2>1, Unengaged
<1>7. /\ \A e, f \in M : e.request = f.request \/ e.vehicle = f.vehicle => e = f
      /\ \A e, f \in P : e.request = f.request => e = f
      /\ \A e \in M, f \in P : e.request # f.request /\ e.vehicle # f.vehicle
      /\ \A e \in M \cup P : /\ e.request \in Requests \ OutOfPatience
                            /\ e.vehicle \in Vehicles \ moved
  BY <1>1, EpochChoices
<1>8. QED
  BY <1>2, <1>3, <1>4, <1>5, <1>6, <1>7

-----------------------------------------------------------------------------
(* What an epoch makes of a request.                                       *)
LEMMA PendingRow ==
  ASSUME TypeOK, RecordsFit, NEW r \in Requests, requests[r].status = "PENDING"
  PROVE  requests[r] = Row("PENDING", requests[r].assigned, NoVehicle, requests[r].econ)
<1>1. requests[r] \in RequestRecord
  BY TypeParts
<1>2. requests[r].reserved = NoVehicle
  BY DEF RecordsFit, HoldFits
<1>3. QED
  BY <1>1, <1>2, RowOf

LEMMA ChosenRow ==
  ASSUME NEW a, NEW h, NEW e, NEW v
  PROVE  [Row("PENDING", a, h, e) EXCEPT !.econ = v] = Row("PENDING", a, h, v)
  BY DEF Row

LEMMA MatchedRow ==
  ASSUME NEW q, NEW a, NEW x, q = Row("PENDING", a, NoVehicle, x), NEW e,
         e.vehicle \in Vehicles
  PROVE  /\ e.vehicle \in HVs => Matched(q, e) = Row("OFFERED", a, NoVehicle, e.vehicle)
         /\ e.vehicle \in AVs =>
              Matched(q, e) = Row("PICKUP_STARTED", e.vehicle, NoVehicle, e.vehicle)
<1> DEFINE chosen == [q EXCEPT !.econ = e.vehicle]
<1>1. chosen = Row("PENDING", a, NoVehicle, e.vehicle)
  BY ChosenRow
<1>2. Matched(q, e) = IF e.vehicle \in HVs THEN Offer(chosen)
        ELSE StartRequest(Assign(chosen, e.vehicle), e.vehicle, Stop("PICKUP", e.request))
  BY Zenon DEF Matched
<1> HIDE DEF chosen
<1>3. Offer(Row("PENDING", a, NoVehicle, e.vehicle)) = Row("OFFERED", a, NoVehicle, e.vehicle)
  BY Waits
<1>4. Assign(Row("PENDING", a, NoVehicle, e.vehicle), e.vehicle)
        = Row("ASSIGNED", e.vehicle, NoVehicle, e.vehicle)
  BY Waits
<1>5. StartRequest(Row("ASSIGNED", e.vehicle, NoVehicle, e.vehicle), e.vehicle,
                   Stop("PICKUP", e.request))
        = Row("PICKUP_STARTED", e.vehicle, NoVehicle, e.vehicle)
  BY Rides
<1>6. ~(e.vehicle \in HVs /\ e.vehicle \in AVs)
  BY KindsAssumption
<1>7. QED
  BY <1>1, <1>2, <1>3, <1>4, <1>5, <1>6

LEMMA PreassignedRow ==
  ASSUME NEW q, NEW a, NEW x, q = Row("PENDING", a, NoVehicle, x), NEW e,
         e.vehicle \in Vehicles
  PROVE  /\ TooLate(e) => Preassigned(q, e) = Row("PENDING", a, NoVehicle, e.vehicle)
         /\ ~TooLate(e) /\ e.vehicle \in HVs =>
              Preassigned(q, e) = Row("OFFERED", a, NoVehicle, e.vehicle)
         /\ e.vehicle \in AVs /\ clock' < LatestPickup[e.request] =>
              Preassigned(q, e) = Row("RESERVED", a, e.vehicle, e.vehicle)
         /\ e.vehicle \in AVs /\ ~(clock' < LatestPickup[e.request]) =>
              Preassigned(q, e) = Row("RAISED", a, NoVehicle, e.vehicle)
<1> DEFINE chosen == [q EXCEPT !.econ = e.vehicle]
<1>1. chosen = Row("PENDING", a, NoVehicle, e.vehicle)
  BY ChosenRow
<1>2. /\ TooLate(e) => Preassigned(q, e) = RejectOffer(Offer(chosen))
      /\ ~TooLate(e) /\ e.vehicle \in HVs => Preassigned(q, e) = Offer(chosen)
      /\ e.vehicle \in AVs /\ clock' < LatestPickup[e.request] =>
           Preassigned(q, e) = Reserve(chosen, e.vehicle)
      /\ e.vehicle \in AVs /\ ~(clock' < LatestPickup[e.request]) =>
           Preassigned(q, e) = [chosen EXCEPT !.status = "RAISED"]
  <2>1. ~(e.vehicle \in HVs /\ e.vehicle \in AVs) /\ (TooLate(e) => e.vehicle \in HVs)
    BY KindsAssumption DEF TooLate
  <2>2. QED
    BY <2>1, Zenon DEF Preassigned
<1> HIDE DEF chosen
<1>3. Offer(Row("PENDING", a, NoVehicle, e.vehicle)) = Row("OFFERED", a, NoVehicle, e.vehicle)
  BY Waits
<1>4. RejectOffer(Row("OFFERED", a, NoVehicle, e.vehicle)) = Row("PENDING", a, NoVehicle, e.vehicle)
  BY Waits
<1>5. Reserve(Row("PENDING", a, NoVehicle, e.vehicle), e.vehicle)
        = Row("RESERVED", a, e.vehicle, e.vehicle)
  BY Waits
<1>6. [Row("PENDING", a, NoVehicle, e.vehicle) EXCEPT !.status = "RAISED"]
        = Row("RAISED", a, NoVehicle, e.vehicle)
  BY DEF Row
<1>7. [chosen EXCEPT !.status = "RAISED"] = Row("RAISED", a, NoVehicle, e.vehicle)
  BY <1>1, <1>6
<1>8. QED
  BY <1>1, <1>2, <1>3, <1>4, <1>5, <1>7

LEMMA EpochRequests ==
  ASSUME TypeOK, Ordered, RecordsFit, NEW moved, NEW ride, NEW M, NEW P,
         Decision(moved, ride, M, P)
  PROVE  /\ \A r \in OutOfPatience :
              requests'[r] = Row("CANCELLED", requests[r].assigned, NoVehicle, requests[r].econ)
         /\ \A e \in OfHVs(M) \cup OfHVs(Queued(P)) :
              requests'[e.request]
                = Row("OFFERED", requests[e.request].assigned, NoVehicle, e.vehicle)
         /\ \A e \in OfAVs(M) :
              requests'[e.request] = Row("PICKUP_STARTED", e.vehicle, NoVehicle, e.vehicle)
         /\ \A e \in P \ Queued(P) :
              requests'[e.request]
                = Row("PENDING", requests[e.request].assigned, NoVehicle, e.vehicle)
         /\ \A e \in OfAVs(P) :
              requests'[e.request]
                = IF clock' < LatestPickup[e.request]
                  THEN Row("RESERVED", requests[e.request].assigned, e.vehicle, e.vehicle)
                  ELSE Row("RAISED", requests[e.request].assigned, NoVehicle, e.vehicle)
         /\ \A r \in Requests :
              r \notin OutOfPatience \cup RequestsOf(M) \cup RequestsOf(P)
                => requests'[r] = requests[r]
<1>1. \A r \in Requests : requests'[r] = EpochRequest(r, M, P)
  BY DEF Decision, Decide
<1>2. ASSUME NEW r \in OutOfPatience
      PROVE  requests'[r] = Row("CANCELLED", requests[r].assigned, NoVehicle, requests[r].econ)
  <2>1. /\ r \in Requests /\ requests[r].status = "PENDING"
        /\ r \notin RequestsOf(M) /\ r \notin RequestsOf(P)
    BY EpochEdges DEF RequestsOf
  <2>2. EpochRequest(r, M, P) = Transition(requests[r], "CANCELLED")
    BY <2>1, Zenon DEF EpochRequest
  <2>3. Transition(Row("PENDING", requests[r].assigned, NoVehicle, requests[r].econ), "CANCELLED")
          = Row("CANCELLED", requests[r].assigned, NoVehicle, requests[r].econ)
    BY Steps, LegalSteps
  <2>4. requests[r] = Row("PENDING", requests[r].assigned, NoVehicle, requests[r].econ)
    BY <2>1, PendingRow
  <2>5. QED
    BY <1>1, <2>1, <2>2, <2>3, <2>4
<1>3. ASSUME NEW e \in M
      PROVE  /\ e.vehicle \in Vehicles
             /\ requests'[e.request] = Matched(requests[e.request], e)
             /\ requests[e.request] = Row("PENDING", requests[e.request].assigned, NoVehicle,
                                          requests[e.request].econ)
  <2>1. /\ e.request \in Requests \ OutOfPatience /\ requests[e.request].status = "PENDING"
        /\ e.vehicle \in Vehicles
    BY EpochEdges
  <2>2. e.request \in RequestsOf(M) /\ e.request \notin RequestsOf(P)
    BY EpochEdges DEF RequestsOf
  <2>3. EdgeOf(M, e.request) = e
    BY EdgeChosen, EpochEdges
  <2>4. EpochRequest(e.request, M, P) = Matched(requests[e.request], EdgeOf(M, e.request))
    BY <2>1, <2>2, Zenon DEF EpochRequest
  <2>5. QED
    BY <1>1, <2>1, <2>3, <2>4, PendingRow
<1>4. ASSUME NEW e \in P
      PROVE  /\ e.vehicle \in Vehicles
             /\ requests'[e.request] = Preassigned(requests[e.request], e)
             /\ requests[e.request] = Row("PENDING", requests[e.request].assigned, NoVehicle,
                                          requests[e.request].econ)
  <2>1. /\ e.request \in Requests \ OutOfPatience /\ requests[e.request].status = "PENDING"
        /\ e.vehicle \in Vehicles
    BY EpochEdges
  <2>2. e.request \in RequestsOf(P) /\ e.request \notin RequestsOf(M)
    BY EpochEdges DEF RequestsOf
  <2>3. EdgeOf(P, e.request) = e
    BY EdgeChosen, EpochEdges
  <2>4. EpochRequest(e.request, M, P) = Preassigned(requests[e.request], EdgeOf(P, e.request))
    BY <2>1, <2>2, Zenon DEF EpochRequest
  <2>5. QED
    BY <1>1, <2>1, <2>3, <2>4, PendingRow
<1>5. ASSUME NEW e \in OfHVs(M)
      PROVE  requests'[e.request]
               = Row("OFFERED", requests[e.request].assigned, NoVehicle, e.vehicle)
  BY <1>3, MatchedRow DEF OfHVs
<1>6. ASSUME NEW e \in OfAVs(M)
      PROVE  requests'[e.request] = Row("PICKUP_STARTED", e.vehicle, NoVehicle, e.vehicle)
  BY <1>3, MatchedRow DEF OfAVs
<1>7. ASSUME NEW e \in OfHVs(Queued(P))
      PROVE  requests'[e.request]
               = Row("OFFERED", requests[e.request].assigned, NoVehicle, e.vehicle)
  BY <1>4, PreassignedRow DEF OfHVs, Queued
<1>8. ASSUME NEW e \in P \ Queued(P)
      PROVE  requests'[e.request]
               = Row("PENDING", requests[e.request].assigned, NoVehicle, e.vehicle)
  BY <1>4, PreassignedRow DEF Queued
<1>9. ASSUME NEW e \in OfAVs(P)
      PROVE  requests'[e.request]
                = IF clock' < LatestPickup[e.request]
                  THEN Row("RESERVED", requests[e.request].assigned, e.vehicle, e.vehicle)
                  ELSE Row("RAISED", requests[e.request].assigned, NoVehicle, e.vehicle)
  BY <1>4, PreassignedRow DEF OfAVs
<1>10. ASSUME NEW r \in Requests, r \notin OutOfPatience \cup RequestsOf(M) \cup RequestsOf(P)
       PROVE  requests'[r] = requests[r]
  <2>1. EpochRequest(r, M, P) = requests[r]
    BY <1>10, Zenon DEF EpochRequest
  <2>2. QED
    BY <1>1, <2>1
<1>11. QED
  BY <1>2, <1>5, <1>6, <1>7, <1>8, <1>9, <1>10

(* What it makes of a vehicle.                                             *)
LEMMA EpochVehicles ==
  ASSUME TypeOK, Ordered, RecordsFit, NEW moved, NEW ride, NEW M, NEW P,
         Decision(moved, ride, M, P)
  PROVE  /\ \A v \in moved : \E kind \in {"HV_REPOSITION", "AV_REBALANCE"} :
              vehicles'[v] =
                Driving(IF kind = "HV_REPOSITION" THEN "REPOSITIONING" ELSE "REBALANCING",
                        kind, NoRequest, clock' + Larger(MinLeg, ride[v]), <<>>, NoRequest)
         /\ \A e \in OfHVs(M) :
              /\ vehicles'[e.vehicle].status = "WAITING" /\ vehicles'[e.vehicle].leg = NoLeg
              /\ vehicles'[e.vehicle].plan = <<>> /\ vehicles'[e.vehicle].reserved = NoRequest
         /\ \A e \in OfAVs(M) :
              vehicles'[e.vehicle] =
                Driving("PICKUP", "PICKUP", e.request, clock' + Larger(MinLeg, e.eta),
                        <<Stop("DROP_OFF", e.request)>>, NoRequest)
         /\ \A e \in OfAVs(P) :
              /\ vehicles'[e.vehicle].status = "SERVICE"
              /\ vehicles'[e.vehicle].leg = vehicles[e.vehicle].leg
              /\ vehicles'[e.vehicle].plan = AssignmentPlan(e.request)
              /\ vehicles'[e.vehicle].reserved = e.request
         /\ \A v \in Vehicles :
              v \notin moved \cup {e.vehicle : e \in M} \cup {e.vehicle : e \in OfAVs(P)}
                => vehicles'[v] = vehicles[v]
<1>1. \A v \in Vehicles : vehicles'[v] = EpochVehicle(v, moved, ride, M, P)
  BY DEF Decision, Decide
<1>2. \A v \in Vehicles : vehicles[v] \in VehicleRecord
  BY TypeParts
<1>3. ASSUME NEW v \in moved
      PROVE  \E kind \in {"HV_REPOSITION", "AV_REBALANCE"} :
              vehicles'[v] =
                Driving(IF kind = "HV_REPOSITION" THEN "REPOSITIONING" ELSE "REBALANCING",
                        kind, NoRequest, clock' + Larger(MinLeg, ride[v]), <<>>, NoRequest)
  <2> DEFINE planned == [vehicles[v] EXCEPT !.plan = MovementPlan(v)]
  <2>1. v \in Vehicles /\ vehicles[v].reserved = NoRequest
    BY EpochEdges
  <2>a. /\ ~\E f \in OfAVs(P) : f.vehicle = v
        /\ ~\E f \in OfHVs(M) : f.vehicle = v
        /\ ~\E f \in OfAVs(M) : f.vehicle = v
    BY EpochEdges DEF OfAVs, OfHVs
  <2>2. EpochVehicle(v, moved, ride, M, P) = StartNextLeg(v, planned, clock', ride[v])
    BY <1>3, <2>a, Zenon DEF EpochVehicle
  <2>3. planned.plan = MovementPlan(v) /\ planned.reserved = NoRequest
    BY <1>2, <2>1 DEF VehicleRecord
  <2> HIDE DEF planned
  <2>4. QED
    BY <1>1, <2>1, <2>2, <2>3, StartedMovement
<1>4. ASSUME NEW e \in OfHVs(M)
      PROVE  /\ vehicles'[e.vehicle].status = "WAITING" /\ vehicles'[e.vehicle].leg = NoLeg
             /\ vehicles'[e.vehicle].plan = <<>> /\ vehicles'[e.vehicle].reserved = NoRequest
  <2> DEFINE v == e.vehicle
  <2>1. /\ v \in Vehicles /\ v \notin moved /\ vehicles[v].leg = NoLeg
        /\ vehicles[v].plan = <<>> /\ vehicles[v].reserved = NoRequest
    BY EpochEdges DEF OfHVs
  <2>2. /\ \E f \in OfHVs(M) : f.vehicle = v
        /\ ~\E f \in OfAVs(M) : f.vehicle = v
        /\ ~\E f \in OfAVs(P) : f.vehicle = v
    BY KindsAssumption DEF OfHVs, OfAVs
  <2>3. EpochVehicle(v, moved, ride, M, P) = [vehicles[v] EXCEPT !.status = "WAITING"]
    BY <2>1, <2>2, Zenon DEF EpochVehicle
  <2>4. vehicles'[v] = [vehicles[v] EXCEPT !.status = "WAITING"]
    BY <1>1, <2>1, <2>3
  <2> HIDE DEF v
  <2>5. vehicles'[v].status = "WAITING" /\ vehicles'[v].leg = NoLeg
             /\ vehicles'[v].plan = <<>> /\ vehicles'[v].reserved = NoRequest
    BY <1>2, <2>1, <2>4 DEF VehicleRecord
  <2>6. QED
    BY <2>5 DEF v
<1>5. ASSUME NEW e \in OfAVs(M)
      PROVE  vehicles'[e.vehicle] =
                Driving("PICKUP", "PICKUP", e.request, clock' + Larger(MinLeg, e.eta),
                        <<Stop("DROP_OFF", e.request)>>, NoRequest)
  <2> DEFINE v == e.vehicle
             planned == [vehicles[v] EXCEPT !.plan = AssignmentPlan(e.request)]
  <2>1. /\ v \in Vehicles /\ v \notin moved /\ vehicles[v].reserved = NoRequest
        /\ e.request \in Requests /\ requests[e.request].status = "PENDING"
    BY EpochEdges DEF OfAVs
  <2>2. /\ \E f \in OfAVs(M) : f.vehicle = v
        /\ ~\E f \in OfHVs(M) : f.vehicle = v
        /\ ~\E f \in OfAVs(P) : f.vehicle = v
    <3>1. ~\E f \in OfHVs(M) : f.vehicle = v
      BY KindsAssumption DEF OfHVs, OfAVs
    <3>2. ~\E f \in OfAVs(P) : f.vehicle = v
      BY EpochEdges DEF OfAVs
    <3>3. QED
      BY <3>1, <3>2
  <2>3. EdgeTo(M, v) = e
    BY EdgeChosen, EpochEdges DEF OfAVs
  <2>4. EpochVehicle(v, moved, ride, M, P)
          = StartNextLeg(v, [vehicles[v] EXCEPT !.plan = AssignmentPlan(EdgeTo(M, v).request)],
                         clock', EdgeTo(M, v).eta)
    BY <2>1, <2>2, Zenon DEF EpochVehicle
  <2>5. vehicles'[v] = StartNextLeg(v, planned, clock', e.eta)
    BY <1>1, <2>1, <2>3, <2>4
  <2>6. planned.plan = AssignmentPlan(e.request) /\ planned.reserved = NoRequest
    BY <1>2, <2>1 DEF VehicleRecord
  <2> HIDE DEF planned, v
  <2>7. StartNextLeg(v, planned, clock', e.eta) =
          Driving("PICKUP", "PICKUP", e.request, clock' + Larger(MinLeg, e.eta),
                  <<Stop("DROP_OFF", e.request)>>,
                  IF requests[e.request].status = "RESERVED" THEN NoRequest ELSE planned.reserved)
    BY <2>1, <2>6, StartedLeg
  <2>8. QED
    BY <2>1, <2>5, <2>6, <2>7 DEF v
<1>6. ASSUME NEW e \in OfAVs(P)
      PROVE  /\ vehicles'[e.vehicle].status = "SERVICE"
             /\ vehicles'[e.vehicle].leg = vehicles[e.vehicle].leg
             /\ vehicles'[e.vehicle].plan = AssignmentPlan(e.request)
             /\ vehicles'[e.vehicle].reserved = e.request
  <2> DEFINE v == e.vehicle
  <2>1. /\ v \in Vehicles /\ v \notin moved /\ vehicles[v].plan = <<>>
        /\ e.request \in Requests /\ vehicles[v].status = "SERVICE"
    BY EpochEdges DEF OfAVs
  <2>2. /\ \E f \in OfAVs(P) : f.vehicle = v
        /\ ~\E f \in OfHVs(M) : f.vehicle = v
        /\ ~\E f \in OfAVs(M) : f.vehicle = v
    BY EpochEdges DEF OfAVs, OfHVs
  <2>3. OfAVs(P) \subseteq Queued(P)
    BY KindsAssumption DEF OfAVs, Queued, TooLate
  <2>4. EdgeTo(OfAVs(P), v) = e
    BY <2>3, EdgeChosen, EpochEdges
  <2> DEFINE new == [vehicles[v] EXCEPT !.reserved = EdgeTo(OfAVs(P), v).request,
                       !.plan = InsertAfterLockedStops(vehicles[v].plan, EdgeTo(OfAVs(P), v).request)]
  <2>5. EpochVehicle(v, moved, ride, M, P) = new
    BY <2>1, <2>2, Zenon DEF EpochVehicle
  <2>6. InsertAfterLockedStops(vehicles[v].plan, e.request) = AssignmentPlan(e.request)
    BY <2>1, Stops
  <2>7. vehicles'[v] = [vehicles[v] EXCEPT !.reserved = e.request, !.plan = AssignmentPlan(e.request)]
    BY <1>1, <2>1, <2>4, <2>5, <2>6
  <2> HIDE DEF v
  <2>8. /\ vehicles'[v].status = "SERVICE" /\ vehicles'[v].leg = vehicles[v].leg
        /\ vehicles'[v].plan = AssignmentPlan(e.request) /\ vehicles'[v].reserved = e.request
    BY <1>2, <2>1, <2>7 DEF VehicleRecord
  <2>9. QED
    BY <2>8 DEF v
<1>7. ASSUME NEW v \in Vehicles,
             v \notin moved \cup {e.vehicle : e \in M} \cup {e.vehicle : e \in OfAVs(P)}
      PROVE  vehicles'[v] = vehicles[v]
  <2>1. /\ v \notin moved
        /\ ~\E f \in OfAVs(P) : f.vehicle = v
        /\ ~\E f \in OfHVs(M) : f.vehicle = v
        /\ ~\E f \in OfAVs(M) : f.vehicle = v
    BY <1>7 DEF OfAVs, OfHVs
  <2>2. EpochVehicle(v, moved, ride, M, P) = vehicles[v]
    BY <2>1, Zenon DEF EpochVehicle
  <2>3. QED
    BY <1>1, <2>2
<1>8. QED
  BY <1>3, <1>4, <1>5, <1>6, <1>7

-----------------------------------------------------------------------------
(* The cases of EpochRequests for one request, field by field.             *)
Decided(r, status, assigned, reserved, econ) ==
  /\ requests'[r].status = status /\ requests'[r].assigned = assigned
  /\ requests'[r].reserved = reserved /\ requests'[r].econ = econ

LEMMA DecidedRow ==
  ASSUME NEW r, NEW s, NEW a, NEW h, NEW x, requests'[r] = Row(s, a, h, x)
  PROVE  Decided(r, s, a, h, x)
  BY RowFields DEF Decided

Offering(M, P) == OfHVs(M) \cup OfHVs(Queued(P))

LEMMA RequestCases ==
  ASSUME TypeOK, Ordered, RecordsFit, NEW moved, NEW ride, NEW M, NEW P,
         Decision(moved, ride, M, P), NEW r \in Requests
  PROVE  \/ /\ requests'[r] = requests[r]
            /\ r \notin OutOfPatience /\ \A e \in M \cup P : e.request # r
         \/ /\ requests[r].status = "PENDING" /\ requests[r].reserved = NoVehicle
            /\ \/ /\ r \in OutOfPatience
                  /\ \A e \in M \cup P : e.request # r
                  /\ Decided(r, "CANCELLED", requests[r].assigned, NoVehicle, requests[r].econ)
               \/ /\ r \notin OutOfPatience
                  /\ \E e \in M \cup P :
                       /\ e.request = r
                       /\ \/ /\ e \in Offering(M, P)
                             /\ Decided(r, "OFFERED", requests[r].assigned, NoVehicle, e.vehicle)
                          \/ /\ e \in OfAVs(M)
                             /\ Decided(r, "PICKUP_STARTED", e.vehicle, NoVehicle, e.vehicle)
                          \/ /\ e \in P \ Queued(P)
                             /\ Decided(r, "PENDING", requests[r].assigned, NoVehicle, e.vehicle)
                          \/ /\ e \in OfAVs(P) /\ clock' < LatestPickup[r]
                             /\ Decided(r, "RESERVED", requests[r].assigned, e.vehicle, e.vehicle)
                          \/ /\ e \in OfAVs(P) /\ ~(clock' < LatestPickup[r])
                             /\ Decided(r, "RAISED", requests[r].assigned, NoVehicle, e.vehicle)
<1>1. requests[r].status = "PENDING" => requests[r].reserved = NoVehicle
  BY DEF RecordsFit, HoldFits
<1>2. CASE r \in OutOfPatience
  <2>1. requests[r].status = "PENDING" /\ \A e \in M \cup P : e.request # r
    BY <1>2, EpochEdges
  <2>2. requests'[r] = Row("CANCELLED", requests[r].assigned, NoVehicle, requests[r].econ)
    BY <1>2, EpochRequests
  <2>3. QED
    BY <1>1, <1>2, <2>1, <2>2, DecidedRow
<1>3. ASSUME NEW e \in M \cup P, e.request = r
      PROVE  /\ requests[r].status = "PENDING" /\ r \notin OutOfPatience
             /\ \/ /\ e \in Offering(M, P)
                   /\ Decided(r, "OFFERED", requests[r].assigned, NoVehicle, e.vehicle)
                \/ /\ e \in OfAVs(M)
                   /\ Decided(r, "PICKUP_STARTED", e.vehicle, NoVehicle, e.vehicle)
                \/ /\ e \in P \ Queued(P)
                   /\ Decided(r, "PENDING", requests[r].assigned, NoVehicle, e.vehicle)
                \/ /\ e \in OfAVs(P) /\ clock' < LatestPickup[r]
                   /\ Decided(r, "RESERVED", requests[r].assigned, e.vehicle, e.vehicle)
                \/ /\ e \in OfAVs(P) /\ ~(clock' < LatestPickup[r])
                   /\ Decided(r, "RAISED", requests[r].assigned, NoVehicle, e.vehicle)
  <2>1. requests[r].status = "PENDING" /\ r \notin OutOfPatience /\ e.vehicle \in Vehicles
    BY <1>3, EpochEdges
  <2>2. e \in OfHVs(M) \cup OfAVs(M) \cup OfHVs(Queued(P)) \cup OfAVs(P) \cup (P \ Queued(P))
    BY <2>1 DEF OfHVs, OfAVs, Queued, Vehicles
  <2>3. CASE e \in Offering(M, P)
    <3>1. requests'[r] = Row("OFFERED", requests[r].assigned, NoVehicle, e.vehicle)
      BY <1>3, <2>3, EpochRequests DEF Offering
    <3>2. QED
      BY <2>1, <2>3, <3>1, DecidedRow
  <2>4. CASE e \in OfAVs(M)
    <3>1. requests'[r] = Row("PICKUP_STARTED", e.vehicle, NoVehicle, e.vehicle)
      BY <1>3, <2>4, EpochRequests
    <3>2. QED
      BY <2>1, <2>4, <3>1, DecidedRow
  <2>5. CASE e \in P \ Queued(P)
    <3>1. requests'[r] = Row("PENDING", requests[r].assigned, NoVehicle, e.vehicle)
      BY <1>3, <2>5, EpochRequests
    <3>2. QED
      BY <2>1, <2>5, <3>1, DecidedRow
  <2>6. CASE e \in OfAVs(P)
    <3>1. requests'[r] = IF clock' < LatestPickup[r]
                  THEN Row("RESERVED", requests[r].assigned, e.vehicle, e.vehicle)
                  ELSE Row("RAISED", requests[r].assigned, NoVehicle, e.vehicle)
      BY <1>3, <2>6, EpochRequests
    <3>2. QED
      BY <2>1, <2>6, <3>1, DecidedRow
  <2>7. QED
    BY <2>2, <2>3, <2>4, <2>5, <2>6 DEF Offering
<1>4. CASE r \notin OutOfPatience /\ \A e \in M \cup P : e.request # r
  <2>1. r \notin OutOfPatience \cup RequestsOf(M) \cup RequestsOf(P)
    BY <1>4 DEF RequestsOf
  <2>2. QED
    BY <1>4, <2>1, EpochRequests
<1>5. QED
  BY <1>1, <1>2, <1>3, <1>4

(* The legs an epoch starts.                                               *)
Departing(moved, M) == moved \cup {e.vehicle : e \in OfAVs(M)}

LEMMA EpochLegs ==
  ASSUME TypeOK, Ordered, RecordsFit, NEW moved, NEW ride, NEW M, NEW P,
         Decision(moved, ride, M, P)
  PROVE  /\ \A v \in Departing(moved, M) :
              v \in Vehicles /\ vehicles[v].leg = NoLeg /\ vehicles'[v].leg # NoLeg
         /\ \A v \in Vehicles \ Departing(moved, M) : vehicles'[v].leg = vehicles[v].leg
         /\ \A v \in Vehicles : \A r \in Requests :
              OnLeg(r, v)' <=> \/ OnLeg(r, v) /\ vehicles'[v].leg = vehicles[v].leg
                               \/ \E e \in OfAVs(M) : e.request = r /\ e.vehicle = v
         /\ \A e \in OfAVs(M) : vehicles'[e.vehicle].leg.kind = "PICKUP"
<1>0. NoLeg.kind = "NONE"
  BY DEF NoLeg
<1>1. ASSUME NEW v \in moved
      PROVE  /\ v \in Vehicles /\ vehicles[v].leg = NoLeg
             /\ vehicles'[v].leg.kind \in {"HV_REPOSITION", "AV_REBALANCE"}
             /\ \A e \in M : e.vehicle # v
  <2>1. PICK kind \in {"HV_REPOSITION", "AV_REBALANCE"} :
          vehicles'[v] = Driving(IF kind = "HV_REPOSITION" THEN "REPOSITIONING" ELSE "REBALANCING",
                                 kind, NoRequest, clock' + Larger(MinLeg, ride[v]), <<>>, NoRequest)
    BY EpochVehicles
  <2>2. vehicles'[v].leg.kind = kind
    BY <2>1 DEF Driving
  <2>3. QED
    BY <2>2, EpochEdges
<1>2. ASSUME NEW e \in OfAVs(M)
      PROVE  /\ e.vehicle \in Vehicles /\ vehicles[e.vehicle].leg = NoLeg
             /\ vehicles'[e.vehicle].leg.kind = "PICKUP"
             /\ vehicles'[e.vehicle].leg.request = e.request
  <2>1. vehicles'[e.vehicle] =
                Driving("PICKUP", "PICKUP", e.request, clock' + Larger(MinLeg, e.eta),
                        <<Stop("DROP_OFF", e.request)>>, NoRequest)
    BY EpochVehicles
  <2>2. e \in M
    BY DEF OfAVs
  <2>3. QED
    BY <2>1, <2>2, EpochEdges DEF Driving
<1>3. ASSUME NEW v \in Vehicles \ Departing(moved, M)
      PROVE  vehicles'[v].leg = vehicles[v].leg
  <2>1. CASE \E e \in OfHVs(M) : e.vehicle = v
    <3>1. PICK e \in OfHVs(M) : e.vehicle = v
      BY <2>1
    <3>2. e \in M
      BY DEF OfHVs
    <3>3. QED
      BY <3>1, <3>2, EpochVehicles, EpochEdges
  <2>2. CASE \E e \in OfAVs(P) : e.vehicle = v
    BY <2>2, EpochVehicles
  <2>3. CASE ~(\E e \in OfHVs(M) : e.vehicle = v) /\ ~(\E e \in OfAVs(P) : e.vehicle = v)
    <3>1. v \notin moved \cup {e.vehicle : e \in M} \cup {e.vehicle : e \in OfAVs(P)}
      BY <2>3 DEF Departing, OfHVs, OfAVs, Vehicles
    <3>2. QED
      BY <3>1, EpochVehicles
  <2>4. QED
    BY <2>1, <2>2, <2>3
<1>4. ASSUME NEW v \in Vehicles, NEW r \in Requests
      PROVE  OnLeg(r, v)' <=> \/ OnLeg(r, v) /\ vehicles'[v].leg = vehicles[v].leg
                              \/ \E e \in OfAVs(M) : e.request = r /\ e.vehicle = v
  <2>1. CASE v \in moved
    BY <1>0, <1>1, <2>1 DEF OnLeg, LegStatus, OfAVs
  <2>2. CASE \E e \in OfAVs(M) : e.vehicle = v
    <3>1. PICK e \in OfAVs(M) : e.vehicle = v
      BY <2>2
    <3>2. \A f \in OfAVs(M) : f.vehicle = v => f = e
      BY <3>1, EpochEdges DEF OfAVs
    <3>3. ~OnLeg(r, v) /\ (OnLeg(r, v)' <=> e.request = r)
      BY <1>0, <1>2, <3>1 DEF OnLeg, LegStatus
    <3>4. QED
      BY <3>1, <3>2, <3>3
  <2>3. CASE v \notin Departing(moved, M)
    <3>1. vehicles'[v].leg = vehicles[v].leg
      BY <1>3, <2>3
    <3>2. ~\E e \in OfAVs(M) : e.vehicle = v
      BY <2>3 DEF Departing
    <3>3. QED
      BY <3>1, <3>2 DEF OnLeg
  <2>4. QED
    BY <2>1, <2>2, <2>3 DEF Departing
<1>5. ASSUME NEW v \in Departing(moved, M)
      PROVE  v \in Vehicles /\ vehicles[v].leg = NoLeg /\ vehicles'[v].leg # NoLeg
  BY <1>0, <1>1, <1>2 DEF Departing
<1>6. QED
  BY <1>2, <1>3, <1>4, <1>5

-----------------------------------------------------------------------------
(* The rides an epoch starts: the passenger is with one vehicle, the leg   *)
(* will end and its economics are the driver's, even if the epoch raises.  *)
LEMMA EpochRides ==
  ASSUME TypeOK, Ordered, RecordsFit, NEW moved, NEW ride, NEW M, NEW P,
         Decision(moved, ride, M, P)
  PROVE  OneVehiclePerRide'
<1>1. ASSUME NEW r \in Requests
      PROVE  /\ requests'[r].status \notin {"ASSIGNED", "BOARDED"}
             /\ requests'[r].status \in {"PICKUP_STARTED", "IN_SERVICE"} <=>
                  \E v \in Vehicles : OnLeg(r, v)'
             /\ \A v \in Vehicles :
                  OnLeg(r, v)' => /\ requests'[r].status = LegStatus[vehicles'[v].leg.kind]
                                  /\ requests'[r].assigned = v
  <2>1. /\ requests[r].status \notin {"ASSIGNED", "BOARDED"}
        /\ requests[r].status \in {"PICKUP_STARTED", "IN_SERVICE"} <=>
                  \E v \in Vehicles : OnLeg(r, v)
        /\ \A v \in Vehicles :
             OnLeg(r, v) => /\ requests[r].status = LegStatus[vehicles[v].leg.kind]
                            /\ requests[r].assigned = v
    BY DEF RecordsFit, OneVehiclePerRide
  <2>2. \A v \in Vehicles : OnLeg(r, v) => vehicles'[v].leg = vehicles[v].leg
    <3>1. NoLeg.kind \notin DOMAIN LegStatus
      BY DEF NoLeg, LegStatus
    <3>2. QED
      BY <3>1, EpochLegs DEF OnLeg
  <2>3. \A v \in Vehicles :
          OnLeg(r, v)' <=> OnLeg(r, v) \/ \E e \in OfAVs(M) : e.request = r /\ e.vehicle = v
    BY <2>2, EpochLegs
  <2>4. CASE requests'[r] = requests[r] /\ \A e \in M \cup P : e.request # r
    <3>1. \A v \in Vehicles : OnLeg(r, v)' <=> OnLeg(r, v)
      BY <2>3, <2>4 DEF OfAVs
    <3>2. QED
      BY <2>1, <2>2, <2>4, <3>1
  <2>5. CASE requests[r].status = "PENDING" /\ \A e \in OfAVs(M) : e.request # r
    <3>1. requests'[r].status \notin {"ASSIGNED", "BOARDED", "PICKUP_STARTED", "IN_SERVICE"}
      BY <2>5, RequestCases DEF Decided
    <3>2. \A v \in Vehicles : ~OnLeg(r, v)'
      BY <2>1, <2>3, <2>5
    <3>3. QED
      BY <3>1, <3>2
  <2>6. ASSUME NEW e \in OfAVs(M), e.request = r
        PROVE  /\ requests'[r].status = "PICKUP_STARTED" /\ requests'[r].assigned = e.vehicle
               /\ requests[r].status = "PENDING"
               /\ \A v \in Vehicles : OnLeg(r, v)' <=> v = e.vehicle
               /\ e.vehicle \in Vehicles /\ vehicles'[e.vehicle].leg.kind = "PICKUP"
    <3>1. e \in M /\ requests[r].status = "PENDING" /\ e.vehicle \in Vehicles
      BY <2>6, EpochEdges DEF OfAVs
    <3>2. requests'[r] = Row("PICKUP_STARTED", e.vehicle, NoVehicle, e.vehicle)
      BY <2>6, EpochRequests
    <3>3. \A f \in OfAVs(M) : f.request = r => f = e
      BY <2>6, EpochEdges DEF OfAVs
    <3>4. \A v \in Vehicles : OnLeg(r, v)' <=> v = e.vehicle
      BY <2>1, <2>3, <2>6, <3>1, <3>3
    <3>5. QED
      BY <3>1, <3>2, <3>4, RowFields, EpochLegs
  <2>7. CASE \E e \in OfAVs(M) : e.request = r
    <3>1. PICK e \in OfAVs(M) : e.request = r
      BY <2>7
    <3>2. QED
      BY <2>6, <3>1 DEF LegStatus
  <2>8. QED
    BY <2>4, <2>5, <2>7, RequestCases
<1>2. QED
  BY <1>1 DEF OneVehiclePerRide

LEMMA EpochLegsEnd ==
  ASSUME TypeOK, Ordered, RecordsFit, NEW moved, NEW ride, NEW M, NEW P,
         Decision(moved, ride, M, P)
  PROVE  EveryLegWillEnd'
<1> DEFINE pushed == EpochEvents(moved, M, P)
           S == Departing(moved, M)
           legs == {LegEvent(v, vehicles'[v]) : v \in S}
           answers == {SimulationEvent(clock' + ResponseDelay, "DRIVER_RESPONSE",
                                       <<o.request, o.vehicle>>) : o \in NewOffers(M, P)}
           expiries == {SimulationEvent(LatestPickup[r], "RESERVATION_EXPIRED", r) :
                          r \in RequestsOf(OfAVs(P))}
<1>1. pushed = legs \cup answers \cup expiries
  BY DEF EpochEvents, Departing
<1>2. /\ \A e \in legs : e.kind = "LEG_COMPLETED"
      /\ \A e \in answers : e.kind = "DRIVER_RESPONSE"
      /\ \A e \in expiries : e.kind = "RESERVATION_EXPIRED"
  <2>1. \A v : LegEvent(v, vehicles'[v]).kind = "LEG_COMPLETED"
    BY EventFields DEF LegEvent
  <2>2. \A o : SimulationEvent(clock' + ResponseDelay, "DRIVER_RESPONSE",
                              <<o.request, o.vehicle>>).kind = "DRIVER_RESPONSE"
    BY EventFields
  <2>3. \A r : SimulationEvent(LatestPickup[r], "RESERVATION_EXPIRED", r).kind
                = "RESERVATION_EXPIRED"
    BY EventFields
  <2>4. QED
    BY <2>1, <2>2, <2>3
<1>3. events' = Rest("DECISION_EPOCH", FleetController) \cup pushed
  BY DEF Decision, Decide
<1> HIDE DEF pushed, legs, answers, expiries
<1>4. {e \in pushed : e.kind = "LEG_COMPLETED"} = legs
  BY <1>1, <1>2
<1>5. S \in SUBSET Vehicles
  BY EpochLegs
<1>6. LegsBegin("DECISION_EPOCH", FleetController, pushed, S)
  BY <1>3, <1>4, EpochLegs DEF LegsBegin, legs
<1>7. EveryLegWillEnd /\ "DECISION_EPOCH" # "LEG_COMPLETED"
  BY DEF RecordsFit
<1> HIDE DEF S
<1>8. QED
  BY <1>5, <1>6, <1>7, LegsStarted

LEMMA EpochEconomics ==
  ASSUME TypeOK, Ordered, RecordsFit, NEW moved, NEW ride, NEW M, NEW P,
         Decision(moved, ride, M, P), NEW r \in Requests
  PROVE  EconomicsFit(r)'
<1>1. EconomicsFit(r)
  BY DEF RecordsFit
<1>2. QED
  BY <1>1, RequestCases DEF EconomicsFit, Decided

(* The vehicles after an epoch.                                            *)
LEMMA EpochVehiclesFit ==
  ASSUME TypeOK, TypeOK', Ordered, RecordsFit, NEW moved, NEW ride, NEW M, NEW P,
         Decision(moved, ride, M, P), Stranded' = {}, NEW v \in Vehicles
  PROVE  VehicleFits(v)'
<1>0. NoLeg.kind = "NONE"
  BY DEF NoLeg
<1>1. CASE v \in moved
  <2>1. PICK kind \in {"HV_REPOSITION", "AV_REBALANCE"} :
          vehicles'[v] = Driving(IF kind = "HV_REPOSITION" THEN "REPOSITIONING" ELSE "REBALANCING",
                                 kind, NoRequest, clock' + Larger(MinLeg, ride[v]), <<>>, NoRequest)
    BY <1>1, EpochVehicles
  <2>2. /\ vehicles'[v].leg.kind = kind /\ vehicles'[v].plan = <<>>
        /\ vehicles'[v].reserved = NoRequest
        /\ vehicles'[v].status = IF kind = "HV_REPOSITION" THEN "REPOSITIONING" ELSE "REBALANCING"
    BY <2>1 DEF Driving
  <2>3. QED
    BY <1>0, <2>2 DEF VehicleFits, PlanOf, BusyStatus
<1>2. CASE \E e \in OfHVs(M) : e.vehicle = v
  <2>1. /\ vehicles'[v].status = "WAITING" /\ vehicles'[v].leg = NoLeg
        /\ vehicles'[v].plan = <<>> /\ vehicles'[v].reserved = NoRequest
    BY <1>2, EpochVehicles
  <2>2. QED
    BY <1>0, <2>1 DEF VehicleFits, PlanOf
<1>3. CASE \E e \in OfAVs(M) : e.vehicle = v
  <2>1. PICK e \in OfAVs(M) : e.vehicle = v
    BY <1>3
  <2>2. vehicles'[v] =
                Driving("PICKUP", "PICKUP", e.request, clock' + Larger(MinLeg, e.eta),
                        <<Stop("DROP_OFF", e.request)>>, NoRequest)
    BY <2>1, EpochVehicles
  <2>3. /\ vehicles'[v].leg.kind = "PICKUP" /\ vehicles'[v].leg.request = e.request
        /\ vehicles'[v].plan = <<Stop("DROP_OFF", e.request)>>
        /\ vehicles'[v].reserved = NoRequest /\ vehicles'[v].status = "PICKUP"
    BY <2>2 DEF Driving
  <2>4. QED
    BY <1>0, <2>3 DEF VehicleFits, PlanOf, BusyStatus
<1>4. CASE \E e \in OfAVs(P) : e.vehicle = v
  <2>1. PICK e \in OfAVs(P) : e.vehicle = v
    BY <1>4
  <2>2. /\ vehicles'[v].status = "SERVICE" /\ vehicles'[v].leg = vehicles[v].leg
        /\ vehicles'[v].plan = AssignmentPlan(e.request) /\ vehicles'[v].reserved = e.request
    BY <2>1, EpochVehicles
  <2>3. vehicles[v].leg.kind = "SERVICE" /\ e.request \in Requests
    BY <2>1, EpochEdges DEF OfAVs
  <2>4. e.request # NoRequest
    BY <2>3, KindsAssumption
  <2>5. QED
    BY <1>0, <2>2, <2>3, <2>4 DEF VehicleFits, PlanOf, BusyStatus
<1>5. CASE v \notin moved \cup {e.vehicle : e \in M} \cup {e.vehicle : e \in OfAVs(P)}
  <2>1. vehicles'[v] = vehicles[v] /\ VehicleFits(v) /\ Stranded = {}
    BY <1>5, EpochVehicles, NothingOutstanding DEF RecordsFit, Decision
  <2>2. QED
    BY <2>1, VehicleKept
<1>6. v \in moved \cup {e.vehicle : e \in M} \cup {e.vehicle : e \in OfAVs(P)} =>
        \/ v \in moved
        \/ \E e \in OfHVs(M) : e.vehicle = v
        \/ \E e \in OfAVs(M) : e.vehicle = v
        \/ \E e \in OfAVs(P) : e.vehicle = v
  BY DEF OfHVs, OfAVs, Vehicles
<1>7. QED
  BY <1>1, <1>2, <1>3, <1>4, <1>5, <1>6 DEF OfHVs, OfAVs, Vehicles

-----------------------------------------------------------------------------
(* The formal runs answer an offer within the epoch that made it.          *)
AnswersPrecedeEpochs == ResponseDelay <= EpochSec

LEMMA NextMultiple ==
  ASSUME NEW n \in Nat, n > 0, NEW a \in Nat, NEW b \in Nat,
         a % n = 0, b % n = 0, a < b
  PROVE  a + n <= b
<1>1. a = n * (a \div n) /\ b = n * (b \div n)
  OBVIOUS
<1> DEFINE j == a \div n
           k == b \div n
<1>2. j \in Int /\ k \in Int
  OBVIOUS
<1> HIDE DEF j, k
<1>3. a = n * j /\ b = n * k
  BY <1>1 DEF j, k
<1>4. n * (k - j) = b - a
  BY <1>2, <1>3
<1>5. k - j >= 1
  BY <1>2, <1>3, <1>4
<1>6. n * (k - j) >= n
  BY <1>2, <1>5
<1>7. QED
  BY <1>4, <1>6

(* The queue an epoch leaves.                                              *)
EpochKinds == {"LEG_COMPLETED", "DRIVER_RESPONSE", "RESERVATION_EXPIRED"}

LEMMA EpochLeaves ==
  ASSUME NEW moved, NEW ride, NEW M, NEW P, Decision(moved, ride, M, P)
  PROVE  /\ Leaves("DECISION_EPOCH", FleetController, EpochKinds)
         /\ EpochKinds \subseteq PushedKinds /\ "PLAN_INVALIDATED" \notin EpochKinds
         /\ \A e \in events' : e.kind = "DRIVER_RESPONSE" /\ e \notin events =>
              \E o \in NewOffers(M, P) :
                e = SimulationEvent(clock' + ResponseDelay, "DRIVER_RESPONSE",
                                    <<o.request, o.vehicle>>)
         /\ \A o \in NewOffers(M, P) :
              SimulationEvent(clock' + ResponseDelay, "DRIVER_RESPONSE",
                              <<o.request, o.vehicle>>) \in events'
         /\ \A r \in RequestsOf(OfAVs(P)) :
              SimulationEvent(LatestPickup[r], "RESERVATION_EXPIRED", r) \in events'
<1> DEFINE legs == {LegEvent(v, vehicles'[v]) : v \in moved \cup {e.vehicle : e \in OfAVs(M)}}
           answers == {SimulationEvent(clock' + ResponseDelay, "DRIVER_RESPONSE",
                                       <<o.request, o.vehicle>>) : o \in NewOffers(M, P)}
           expiries == {SimulationEvent(LatestPickup[r], "RESERVATION_EXPIRED", r) :
                          r \in RequestsOf(OfAVs(P))}
<1>1. events' = Rest("DECISION_EPOCH", FleetController) \cup (legs \cup answers \cup expiries)
  BY DEF Decision, Decide, EpochEvents
<1>2. /\ \A e \in legs : e.kind = "LEG_COMPLETED"
      /\ \A e \in answers : e.kind = "DRIVER_RESPONSE"
      /\ \A e \in expiries : e.kind = "RESERVATION_EXPIRED"
  <2>1. \A v : LegEvent(v, vehicles'[v]).kind = "LEG_COMPLETED"
    BY EventFields DEF LegEvent
  <2>2. \A o : SimulationEvent(clock' + ResponseDelay, "DRIVER_RESPONSE",
                              <<o.request, o.vehicle>>).kind = "DRIVER_RESPONSE"
    BY EventFields
  <2>3. \A r : SimulationEvent(LatestPickup[r], "RESERVATION_EXPIRED", r).kind
                = "RESERVATION_EXPIRED"
    BY EventFields
  <2>4. QED
    BY <2>1, <2>2, <2>3
<1>3. /\ \A o \in NewOffers(M, P) :
            SimulationEvent(clock' + ResponseDelay, "DRIVER_RESPONSE",
                              <<o.request, o.vehicle>>) \in answers
      /\ \A r \in RequestsOf(OfAVs(P)) :
            SimulationEvent(LatestPickup[r], "RESERVATION_EXPIRED", r) \in expiries
      /\ \A e \in answers : \E o \in NewOffers(M, P) :
            e = SimulationEvent(clock' + ResponseDelay, "DRIVER_RESPONSE",
                                    <<o.request, o.vehicle>>)
  OBVIOUS
<1> HIDE DEF legs, answers, expiries
<1>4. Leaves("DECISION_EPOCH", FleetController, EpochKinds)
  BY <1>1, <1>2 DEF Leaves, EpochKinds
<1>5. \A e \in events' : e.kind = "DRIVER_RESPONSE" /\ e \notin events => e \in answers
  BY <1>1, <1>2 DEF Rest
<1>6. EpochKinds \subseteq PushedKinds /\ "PLAN_INVALIDATED" \notin EpochKinds
  BY DEF EpochKinds, PushedKinds
<1>7. QED
  BY <1>1, <1>3, <1>4, <1>5, <1>6

LEMMA EpochStrands ==
  ASSUME TypeOK, Ordered, RecordsFit, NEW moved, NEW ride, NEW M, NEW P,
         Decision(moved, ride, M, P)
  PROVE  Stranded' = {} /\ StrandedFits'
<1>1. Stranded = {} /\ Pop("DECISION_EPOCH", FleetController)
  BY NothingOutstanding DEF Decision
<1>2. Leaves("DECISION_EPOCH", FleetController, EpochKinds) /\ "PLAN_INVALIDATED" \notin EpochKinds
  BY EpochLeaves
<1>3. \A r \in Stranded : requests'[r].status = "RESERVED"
  BY <1>1
<1>4. QED
  BY <1>1, <1>2, <1>3, StrandedKept DEF RecordsFit

(* The offers an epoch makes.                                              *)
LEMMA OffersMade ==
  ASSUME TypeOK, Ordered, RecordsFit, NEW moved, NEW ride, NEW M, NEW P,
         Decision(moved, ride, M, P)
  PROVE  /\ \A o \in NewOffers(M, P) : \E e \in Offering(M, P) :
              /\ o.request = e.request /\ o.vehicle = e.vehicle
              /\ o.preassigned = (e \notin OfHVs(M))
              /\ o.plan = AssignmentPlan(e.request)
              /\ o.eta = IF e \in OfHVs(M) THEN e.eta ELSE 0
         /\ \A e \in Offering(M, P) : \E o \in NewOffers(M, P) :
              o.request = e.request /\ o.vehicle = e.vehicle /\ o.preassigned = (e \notin OfHVs(M))
         /\ \A o, p \in NewOffers(M, P) :
              o.request = p.request \/ o.vehicle = p.vehicle => o = p
<1> DEFINE ordinary(e) == [request |-> e.request, vehicle |-> e.vehicle,
                           preassigned |-> FALSE, eta |-> e.eta,
                           plan |-> AssignmentPlan(e.request)]
           queued(e) == [request |-> e.request, vehicle |-> e.vehicle,
                         preassigned |-> TRUE, eta |-> 0,
                         plan |-> InsertAfterLockedStops(vehicles[e.vehicle].plan, e.request)]
<1>1. NewOffers(M, P) = {ordinary(e) : e \in OfHVs(M)} \cup {queued(e) : e \in OfHVs(Queued(P))}
  BY DEF NewOffers
<1>2. ASSUME NEW e \in OfHVs(M)
      PROVE  /\ ordinary(e).request = e.request /\ ordinary(e).vehicle = e.vehicle
             /\ ordinary(e).preassigned = FALSE /\ ordinary(e).eta = e.eta
             /\ ordinary(e).plan = AssignmentPlan(e.request)
  OBVIOUS
<1>3. ASSUME NEW e \in OfHVs(Queued(P))
      PROVE  /\ queued(e).request = e.request /\ queued(e).vehicle = e.vehicle
             /\ queued(e).preassigned = TRUE /\ queued(e).eta = 0
             /\ queued(e).plan = AssignmentPlan(e.request)
  <2>1. vehicles[e.vehicle].plan = <<>> /\ e.request \in Requests
    BY EpochEdges DEF OfHVs, Queued
  <2>2. InsertAfterLockedStops(vehicles[e.vehicle].plan, e.request) = AssignmentPlan(e.request)
    BY <2>1, Stops
  <2>3. QED
    BY <2>2
<1> HIDE DEF ordinary, queued
<1>4. \A e \in OfHVs(M), f \in OfHVs(Queued(P)) : e.request # f.request /\ e.vehicle # f.vehicle
  BY EpochEdges DEF OfHVs, Queued
<1>5. \A e \in OfHVs(Queued(P)) : e \notin OfHVs(M)
  BY <1>4
<1>6. /\ \A e, f \in OfHVs(M) : e.request = f.request \/ e.vehicle = f.vehicle => e = f
      /\ \A e, f \in OfHVs(Queued(P)) : e.request = f.request \/ e.vehicle = f.vehicle => e = f
  BY EpochEdges DEF OfHVs, Queued
<1>7. ASSUME NEW o \in NewOffers(M, P)
      PROVE  \E e \in Offering(M, P) :
               /\ o.request = e.request /\ o.vehicle = e.vehicle
               /\ o.preassigned = (e \notin OfHVs(M))
               /\ o.plan = AssignmentPlan(e.request)
               /\ o.eta = IF e \in OfHVs(M) THEN e.eta ELSE 0
  <2>1. CASE \E e \in OfHVs(M) : o = ordinary(e)
    BY <1>2, <2>1 DEF Offering
  <2>2. CASE \E e \in OfHVs(Queued(P)) : o = queued(e)
    BY <1>3, <1>5, <2>2 DEF Offering
  <2>3. QED
    BY <1>1, <2>1, <2>2
<1>8. ASSUME NEW e \in Offering(M, P)
      PROVE  \E o \in NewOffers(M, P) :
              o.request = e.request /\ o.vehicle = e.vehicle /\ o.preassigned = (e \notin OfHVs(M))
  <2>1. CASE e \in OfHVs(M)
    <3>1. ordinary(e) \in NewOffers(M, P)
      BY <1>1, <2>1
    <3>2. QED
      BY <1>2, <2>1, <3>1
  <2>2. CASE e \in OfHVs(Queued(P))
    <3>1. queued(e) \in NewOffers(M, P)
      BY <1>1, <2>2
    <3>2. QED
      BY <1>3, <1>5, <2>2, <3>1
  <2>3. QED
    BY <2>1, <2>2 DEF Offering
<1>9. ASSUME NEW o \in NewOffers(M, P), NEW p \in NewOffers(M, P),
             o.request = p.request \/ o.vehicle = p.vehicle
      PROVE  o = p
  <2>1. CASE \E e, f \in OfHVs(M) : o = ordinary(e) /\ p = ordinary(f)
    <3>1. PICK e \in OfHVs(M), f \in OfHVs(M) : o = ordinary(e) /\ p = ordinary(f)
      BY <2>1
    <3>2. e.request = f.request \/ e.vehicle = f.vehicle
      BY <1>2, <1>9, <3>1
    <3>3. e = f
      BY <1>6, <3>2
    <3>4. QED
      BY <3>1, <3>3
  <2>2. CASE \E e, f \in OfHVs(Queued(P)) : o = queued(e) /\ p = queued(f)
    <3>1. PICK e \in OfHVs(Queued(P)), f \in OfHVs(Queued(P)) : o = queued(e) /\ p = queued(f)
      BY <2>2
    <3>2. e.request = f.request \/ e.vehicle = f.vehicle
      BY <1>3, <1>9, <3>1
    <3>3. e = f
      BY <1>6, <3>2
    <3>4. QED
      BY <3>1, <3>3
  <2>3. CASE \E e \in OfHVs(M), f \in OfHVs(Queued(P)) :
               (o = ordinary(e) /\ p = queued(f)) \/ (p = ordinary(e) /\ o = queued(f))
    <3>1. PICK e \in OfHVs(M), f \in OfHVs(Queued(P)) :
               (o = ordinary(e) /\ p = queued(f)) \/ (p = ordinary(e) /\ o = queued(f))
      BY <2>3
    <3>2. e.request = f.request \/ e.vehicle = f.vehicle
      BY <1>2, <1>3, <1>9, <3>1
    <3>3. QED
      BY <1>4, <3>2
  <2>4. /\ (\E e \in OfHVs(M) : o = ordinary(e)) \/ (\E e \in OfHVs(Queued(P)) : o = queued(e))
        /\ (\E e \in OfHVs(M) : p = ordinary(e)) \/ (\E e \in OfHVs(Queued(P)) : p = queued(e))
    BY <1>1
  <2>5. QED
    BY <2>1, <2>2, <2>3, <2>4
<1>10. QED
  BY <1>7, <1>8, <1>9

-----------------------------------------------------------------------------
(* The parts of the records that an epoch keeps if it does not raise.      *)
AnswersAhead == \A e \in events : e.kind = "DRIVER_RESPONSE" => e.at >= clock

LEMMA NoEarlier ==
  ASSUME NEW t \in Nat
  PROVE  t + ResponseDelay >= t
  BY NumbersAreNatural

LEMMA EpochAnswers ==
  ASSUME TypeOK, Ordered, RecordsFit, AnswersPrecedeEpochs, NEW moved, NEW ride, NEW M, NEW P,
         Decision(moved, ride, M, P)
  PROVE  AnswersFit' /\ QueueFits' /\ AnswersAhead'
<1>1. /\ Leaves("DECISION_EPOCH", FleetController, EpochKinds) /\ EpochKinds \subseteq PushedKinds
      /\ \A e \in events' : e.kind = "DRIVER_RESPONSE" /\ e \notin events =>
              \E o \in NewOffers(M, P) :
                e = SimulationEvent(clock' + ResponseDelay, "DRIVER_RESPONSE",
                                    <<o.request, o.vehicle>>)
  BY EpochLeaves
<1>2. QueueFits'
  BY <1>1, QueueKept DEF RecordsFit
<1>3. Pop("DECISION_EPOCH", FleetController) /\ offers = {} /\ offers' = offers \cup NewOffers(M, P)
  BY NothingOutstanding DEF Decision, Decide
<1>4. \A e \in events : e.kind # "DRIVER_RESPONSE"
  BY <1>3 DEF RecordsFit, AnswersFit
<1>5. \A e \in events' : e.kind = "DRIVER_RESPONSE" =>
        /\ e = SimulationEvent(clock' + ResponseDelay, "DRIVER_RESPONSE", e.id)
        /\ e.at = clock' + ResponseDelay
        /\ \E o \in offers' : e.id = <<o.request, o.vehicle>>
  <2>1. ASSUME NEW e \in events', e.kind = "DRIVER_RESPONSE"
        PROVE  /\ e = SimulationEvent(clock' + ResponseDelay, "DRIVER_RESPONSE", e.id)
               /\ e.at = clock' + ResponseDelay
               /\ \E o \in offers' : e.id = <<o.request, o.vehicle>>
    <3>1. PICK o \in NewOffers(M, P) :
            e = SimulationEvent(clock' + ResponseDelay, "DRIVER_RESPONSE",
                                <<o.request, o.vehicle>>)
      BY <1>1, <1>4, <2>1
    <3>2. e.id = <<o.request, o.vehicle>> /\ e.at = clock' + ResponseDelay
      BY <3>1, EventFields
    <3>3. QED
      BY <1>3, <3>1, <3>2
  <2>2. QED
    BY <2>1
<1>6. ASSUME NEW f \in events', f.kind = "DECISION_EPOCH"
      PROVE  clock' + ResponseDelay <= f.at
  <2> DEFINE popped == SimulationEvent(clock', "DECISION_EPOCH", FleetController)
  <2>1. popped \in events /\ popped.at = clock' /\ popped.kind = "DECISION_EPOCH"
    BY <1>3, Popped, EventFields
  <2>2. f \in Rest("DECISION_EPOCH", FleetController)
    BY <1>1, <1>6 DEF Leaves, EpochKinds
  <2>3. f \in events /\ f # popped
    BY <2>2 DEF Rest
  <2>4. f = SimulationEvent(f.at, "DECISION_EPOCH", FleetController) /\ f.at % EpochSec = 0
    BY <1>6, <2>3 DEF RecordsFit, QueueFits
  <2>5. popped.at % EpochSec = 0
    BY <2>1 DEF RecordsFit, QueueFits
  <2>6. f.at # clock'
    BY <2>3, <2>4
  <2> HIDE DEF popped
  <2>7. clock' \in Nat /\ f.at \in Nat /\ clock' <= f.at
    BY <1>3, <2>3, Popped
  <2>8. EpochSec \in Nat /\ EpochSec > 0 /\ ResponseDelay \in Nat
    BY TimesAssumption
  <2>9. clock' + EpochSec <= f.at
    <3>1. clock' < f.at /\ clock' % EpochSec = 0
      BY <2>1, <2>5, <2>6, <2>7
    <3>2. QED
      BY <2>4, <2>7, <2>8, <3>1, NextMultiple
  <2>10. QED
    BY <2>7, <2>8, <2>9 DEF AnswersPrecedeEpochs
<1>7. AnswersFit'
  <2>1. \A e, f \in events' :
          e.kind = "DRIVER_RESPONSE" /\ f.kind = "DRIVER_RESPONSE" /\ e.id = f.id => e = f
    BY <1>5
  <2>2. \A e, f \in events' : e.kind = "DRIVER_RESPONSE" /\ f.kind = "DECISION_EPOCH"
                                => e.at <= f.at
    BY <1>5, <1>6
  <2>3. QED
    BY <1>5, <2>1, <2>2 DEF AnswersFit
<1>8. AnswersAhead'
  <2>1. clock' \in Nat
    BY <1>3, Popped
  <2>2. clock' + ResponseDelay >= clock'
    BY <2>1, NoEarlier
  <2>3. QED
    BY <1>5, <2>2 DEF AnswersAhead
<1>9. QED
  BY <1>2, <1>7, <1>8

LEMMA EpochOffers ==
  ASSUME TypeOK, TypeOK', Ordered, RecordsFit, NEW moved, NEW ride, NEW M, NEW P,
         Decision(moved, ride, M, P)
  PROVE  OffersFit'
<1>1. Pop("DECISION_EPOCH", FleetController) /\ offers = {} /\ offers' = NewOffers(M, P)
  BY NothingOutstanding DEF Decision, Decide
<1>2. ASSUME NEW e \in OfHVs(M)
      PROVE  /\ e \in M /\ e \in Offering(M, P) /\ e.vehicle \in Vehicles
             /\ vehicles'[e.vehicle].leg = NoLeg /\ vehicles'[e.vehicle].status = "WAITING"
             /\ vehicles'[e.vehicle].reserved = NoRequest
             /\ SimulationEvent(OnlineStart[e.vehicle], "HV_SESSION_START", e.vehicle) \notin events'
  <2>1. e \in M /\ e \in Offering(M, P)
    BY DEF OfHVs, Offering
  <2>2. e.vehicle \in Vehicles /\ Validate(e.vehicle, e.request, clock', clock' + e.eta)
    BY <2>1, EpochEdges
  <2>3. OnlineStart[e.vehicle] <= clock' /\ OnlineStart[e.vehicle] \in Nat
    BY <2>2, NumbersAreNatural DEF Validate
  <2> DEFINE start == SimulationEvent(OnlineStart[e.vehicle], "HV_SESSION_START", e.vehicle)
  <2>4. start.at = OnlineStart[e.vehicle] /\ start.kind = "HV_SESSION_START"
    BY EventFields
  <2> HIDE DEF start
  <2>5. start \notin events
    <3>1. /\ clock' \in Nat
          /\ \A f \in events : /\ f.at \in Nat /\ clock' <= f.at
                               /\ f.at = clock' =>
                                    EventPriority["DECISION_EPOCH"] <= EventPriority[f.kind]
      BY <1>1, Popped
    <3>2. start \in events => EventPriority["DECISION_EPOCH"] <= EventPriority["HV_SESSION_START"]
      BY <2>3, <2>4, <3>1
    <3>3. QED
      BY <3>2, Priorities
  <2>6. start \notin events'
    BY <2>4, <2>5, EpochLeaves DEF Leaves, EpochKinds, Rest
  <2>7. QED
    BY <2>1, <2>2, <2>6, EpochVehicles DEF start
<1>3. ASSUME NEW e \in OfHVs(Queued(P))
      PROVE  /\ e \notin OfHVs(M) /\ e.vehicle \in Vehicles
             /\ vehicles'[e.vehicle].leg.kind = "SERVICE"
             /\ vehicles'[e.vehicle].reserved = NoRequest
  <2>1. e \in Queued(P) /\ e \in P /\ e.vehicle \in HVs
    BY DEF OfHVs, Queued
  <2>2. /\ e.vehicle \in Vehicles /\ e.vehicle \notin moved
        /\ \A m \in M : m.vehicle # e.vehicle
        /\ vehicles[e.vehicle].leg.kind = "SERVICE" /\ vehicles[e.vehicle].reserved = NoRequest
    BY <2>1, EpochEdges
  <2>3. \A f \in OfAVs(P) : f.vehicle # e.vehicle
    BY <2>1, KindsAssumption DEF OfAVs
  <2>4. vehicles'[e.vehicle] = vehicles[e.vehicle]
    BY <2>2, <2>3, EpochVehicles
  <2>5. QED
    BY <2>2, <2>4 DEF OfHVs
<1>4. ASSUME NEW o \in offers'
      PROVE  OfferFits(o)'
  <2>1. PICK e \in Offering(M, P) :
              /\ o.request = e.request /\ o.vehicle = e.vehicle
              /\ o.preassigned = (e \notin OfHVs(M))
              /\ o.plan = AssignmentPlan(e.request)
    BY <1>1, OffersMade
  <2>2. requests'[o.request] = Row("OFFERED", requests[o.request].assigned, NoVehicle, o.vehicle)
    BY <2>1, EpochRequests DEF Offering
  <2>3. requests'[o.request].status = "OFFERED" /\ requests'[o.request].econ = o.vehicle
    BY <2>2, RowFields
  <2>4. \E f \in events' : f.kind = "DRIVER_RESPONSE" /\ f.id = <<o.request, o.vehicle>>
    <3>1. SimulationEvent(clock' + ResponseDelay, "DRIVER_RESPONSE",
                              <<o.request, o.vehicle>>) \in events'
      BY <1>1, EpochLeaves
    <3>2. QED
      BY <3>1, EventFields
  <2>5. CASE e \in OfHVs(M)
    <3>1. NoLeg.kind = "NONE"
      BY DEF NoLeg
    <3>2. QED
      BY <1>2, <2>1, <2>3, <2>4, <2>5, <3>1 DEF OfferFits
  <2>6. CASE e \in OfHVs(Queued(P))
    <3>1. o.preassigned = TRUE
      BY <1>3, <2>1, <2>6
    <3>2. QED
      BY <1>3, <2>1, <2>3, <2>4, <2>6, <3>1 DEF OfferFits
  <2>7. QED
    BY <2>5, <2>6 DEF Offering
<1>5. ASSUME NEW r \in Requests, requests'[r].status = "OFFERED"
      PROVE  \E o \in offers' : o.request = r
  <2>1. requests[r].status # "OFFERED"
    BY <1>1 DEF RecordsFit, OffersFit
  <2>2. PICK e \in Offering(M, P) : e.request = r
    BY <1>5, <2>1, RequestCases DEF Decided
  <2>3. QED
    BY <1>1, <2>2, OffersMade
<1>6. ASSUME NEW v \in Vehicles, vehicles'[v].status = "WAITING"
      PROVE  \E o \in offers' : o.vehicle = v /\ ~o.preassigned
  <2>1. vehicles[v].status # "WAITING"
    BY <1>1 DEF RecordsFit, OffersFit
  <2>2. v \notin moved
    <3>1. ASSUME v \in moved PROVE FALSE
      <4>1. PICK kind \in {"HV_REPOSITION", "AV_REBALANCE"} :
          vehicles'[v] = Driving(IF kind = "HV_REPOSITION" THEN "REPOSITIONING" ELSE "REBALANCING",
                                 kind, NoRequest, clock' + Larger(MinLeg, ride[v]), <<>>, NoRequest)
        BY <3>1, EpochVehicles
      <4>2. vehicles'[v].status # "WAITING"
        BY <4>1 DEF Driving
      <4>3. QED
        BY <1>6, <4>2
    <3>2. QED
      BY <3>1
  <2>3. \A e \in OfAVs(M) : e.vehicle # v
    <3>1. ASSUME NEW e \in OfAVs(M) PROVE vehicles'[e.vehicle].status = "PICKUP"
      <4>1. vehicles'[e.vehicle] =
                Driving("PICKUP", "PICKUP", e.request, clock' + Larger(MinLeg, e.eta),
                        <<Stop("DROP_OFF", e.request)>>, NoRequest)
        BY EpochVehicles
      <4>2. QED
        BY <4>1 DEF Driving
    <3>2. QED
      BY <1>6, <3>1
  <2>4. \A e \in OfAVs(P) : e.vehicle # v
    BY <1>6, EpochVehicles
  <2>5. PICK e \in M : e.vehicle = v
    BY <1>6, <2>1, <2>2, <2>4, EpochVehicles
  <2>6. e \in OfHVs(M) /\ e \in Offering(M, P)
    BY <2>3, <2>5 DEF OfHVs, OfAVs, Vehicles, Offering
  <2>7. PICK o \in NewOffers(M, P) : o.vehicle = e.vehicle /\ o.preassigned = (e \notin OfHVs(M))
    BY <2>6, OffersMade
  <2>8. o.preassigned = FALSE
    BY <2>6, <2>7
  <2>9. QED
    BY <1>1, <2>5, <2>7, <2>8
<1>7. QED
  BY <1>1, <1>4, <1>5, <1>6, OffersMade DEF OffersFit

-----------------------------------------------------------------------------
(* The reservations an epoch makes, each in time because it did not raise. *)
LEMMA EpochHolds ==
  ASSUME TypeOK, TypeOK', Ordered, RecordsFit, NEW moved, NEW ride, NEW M, NEW P,
         Decision(moved, ride, M, P), ~Raised', NEW r \in Requests
  PROVE  HoldFits(r)' /\ ExpiryFits(r)'
<1>1. Stranded' = {} /\ Stranded = {} /\ HoldFits(r) /\ ExpiryFits(r)
  BY EpochStrands, NothingOutstanding DEF RecordsFit, Decision
<1>2. book'[r] = IF r \in RequestsOf(OfAVs(P)) THEN EdgeOf(P, r).vehicle ELSE book[r]
  BY DEF Decision, Decide
<1>3. ASSUME NEW v \in Vehicles
      PROVE  vehicles'[v].reserved = r <=>
               vehicles[v].reserved = r \/ \E e \in OfAVs(P) : e.vehicle = v /\ e.request = r
  <2>0. r # NoRequest
    BY KindsAssumption
  <2>1. CASE v \in moved
    <3>1. PICK kind \in {"HV_REPOSITION", "AV_REBALANCE"} :
          vehicles'[v] = Driving(IF kind = "HV_REPOSITION" THEN "REPOSITIONING" ELSE "REBALANCING",
                                 kind, NoRequest, clock' + Larger(MinLeg, ride[v]), <<>>, NoRequest)
      BY <2>1, EpochVehicles
    <3>2. vehicles'[v].reserved = NoRequest
      BY <3>1 DEF Driving
    <3>3. QED
      BY <2>0, <2>1, <3>2, EpochEdges DEF OfAVs
  <2>2. CASE \E e \in M : e.vehicle = v
    <3>1. PICK e \in M : e.vehicle = v
      BY <2>2
    <3>2. vehicles[v].reserved = NoRequest /\ \A f \in OfAVs(P) : f.vehicle # v
      BY <3>1, EpochEdges DEF OfAVs
    <3>3. CASE e \in OfAVs(M)
      <4>1. vehicles'[e.vehicle] =
                Driving("PICKUP", "PICKUP", e.request, clock' + Larger(MinLeg, e.eta),
                        <<Stop("DROP_OFF", e.request)>>, NoRequest)
        BY <3>3, EpochVehicles
      <4>2. vehicles'[v].reserved = NoRequest
        BY <3>1, <4>1 DEF Driving
      <4>3. QED
        BY <2>0, <3>2, <4>2
    <3>4. CASE e \in OfHVs(M)
      <4>1. vehicles'[v].reserved = NoRequest
        BY <3>1, <3>4, EpochVehicles
      <4>2. QED
        BY <2>0, <3>2, <4>1
    <3>5. QED
      BY <3>1, <3>3, <3>4 DEF OfHVs, OfAVs, Vehicles
  <2>3. CASE \E e \in OfAVs(P) : e.vehicle = v
    <3>1. PICK e \in OfAVs(P) : e.vehicle = v
      BY <2>3
    <3>2. vehicles'[v].reserved = e.request
      BY <3>1, EpochVehicles
    <3>3. vehicles[v].reserved = NoRequest
      BY <3>1, EpochEdges DEF OfAVs
    <3>4. \A f \in OfAVs(P) : f.vehicle = v => f = e
      <4>1. OfAVs(P) \subseteq Queued(P)
        BY KindsAssumption DEF OfAVs, Queued, TooLate
      <4>2. QED
        BY <3>1, <4>1, EpochEdges
    <3>5. QED
      BY <2>0, <3>1, <3>2, <3>3, <3>4
  <2>4. CASE v \notin moved \cup {e.vehicle : e \in M} \cup {e.vehicle : e \in OfAVs(P)}
    <3>1. vehicles'[v] = vehicles[v]
      BY <2>4, EpochVehicles
    <3>2. QED
      BY <2>4, <3>1
  <2>5. QED
    BY <2>1, <2>2, <2>3, <2>4
<1>4. \A e \in OfAVs(P) : e.request = r => clock' < LatestPickup[r]
  <2>1. \A e \in OfAVs(P) : e.request \in RequestsOf(OfAVs(P))
    BY DEF RequestsOf
  <2>2. /\ moved \in IdleMovements /\ M \in Matchings(moved) /\ P \in Preassignments(M)
        /\ requests' = [s \in Requests |-> EpochRequest(s, M, P)]
    BY DEF Decision, Decide
  <2>3. \A s \in RequestsOf(OfAVs(P)) : clock' < LatestPickup[s]
    BY <2>2, ReservedInTime
  <2>4. QED
    BY <2>1, <2>3
<1>5. CASE \E e \in OfAVs(P) : e.request = r
  <2>1. PICK e \in OfAVs(P) : e.request = r
    BY <1>5
  <2>2. requests'[r] = Row("RESERVED", requests[r].assigned, e.vehicle, e.vehicle)
    BY <1>4, <2>1, EpochRequests
  <2>3. requests'[r].status = "RESERVED" /\ requests'[r].reserved = e.vehicle
    BY <2>2, RowFields
  <2>4. /\ e.vehicle \in Vehicles /\ e.vehicle # NoVehicle /\ requests[r].status = "PENDING"
        /\ \A f \in OfAVs(P) : f.request = r => f = e
    BY <2>1, EpochEdges, KindsAssumption DEF OfAVs
  <2>5. \A v \in Vehicles : vehicles[v].reserved # r
    <3>1. requests[r].reserved = NoVehicle
      BY <1>1, <2>4 DEF HoldFits
    <3>2. QED
      BY <1>1, <3>1, KindsAssumption DEF HoldFits
  <2>6. book'[r] = e.vehicle
    <3>1. r \in RequestsOf(OfAVs(P)) /\ EdgeOf(P, r) = e
      <4>1. e \in P
        BY DEF OfAVs
      <4>2. EdgeOf(P, r) = e
        BY <2>1, <4>1, EdgeChosen, EpochEdges
      <4>3. QED
        BY <2>1, <4>2 DEF RequestsOf
    <3>2. QED
      BY <1>2, <3>1
  <2>7. HoldFits(r)'
    <3>1. \A v \in Vehicles : e.vehicle = v <=> vehicles'[v].reserved = r
      BY <1>3, <2>1, <2>4, <2>5
    <3>2. QED
      BY <1>1, <2>3, <2>4, <2>6, <3>1 DEF HoldFits, RestingStatus
  <2>8. ExpiryFits(r)'
    <3>1. r \in RequestsOf(OfAVs(P))
      BY <2>1 DEF RequestsOf
    <3>2. QED
      BY <3>1, EpochLeaves DEF ExpiryFits
  <2>9. QED
    BY <2>7, <2>8
<1>6. CASE \A e \in OfAVs(P) : e.request # r
  <2>1. /\ requests'[r].reserved = requests[r].reserved
        /\ requests'[r].status \in RestingStatus
        /\ requests'[r].status = "RESERVED" <=> requests[r].status = "RESERVED"
    BY <1>1, <1>6, RequestCases DEF Decided, HoldFits, RestingStatus
  <2>2. book'[r] = book[r]
    BY <1>2, <1>6 DEF RequestsOf
  <2>3. HoldFits(r)'
    BY <1>1, <1>3, <1>6, <2>1, <2>2 DEF HoldFits
  <2>4. ExpiryFits(r)'
    <3>1. Leaves("DECISION_EPOCH", FleetController, EpochKinds) /\ EpochKinds \subseteq PushedKinds
      BY EpochLeaves
    <3>2. Stranded' = Stranded /\ "DECISION_EPOCH" # "RESERVATION_EXPIRED"
      BY <1>1
    <3>3. QED
      BY <1>1, <2>1, <3>1, <3>2, ExpiryKept
  <2>5. QED
    BY <2>3, <2>4
<1>7. QED
  BY <1>5, <1>6

LEMMA EpochIndex ==
  ASSUME TypeOK, Ordered, RecordsFit, NEW moved, NEW ride, NEW M, NEW P,
         Decision(moved, ride, M, P), ~Raised'
  PROVE  IndexAgreement'
<1> DEFINE offered == RequestsOf(Offering(M, P))
           assigned == RequestsOf(OfAVs(M))
           held == RequestsOf(OfAVs(P))
<1>1. index' = IndexReserve(IndexAssign(IndexOffer(IndexExpire(index, OutOfPatience),
                                                     offered), assigned), held)
  BY DEF Decision, Decide, Offering
<1> HIDE DEF offered, assigned, held
<1>2. index \in IndexRecord
  BY TypeParts
<1>3. /\ index'.pending = index.pending \ (OutOfPatience \cup offered \cup assigned \cup held)
      /\ index'.offered = ((index.offered \cup offered) \ assigned) \ held
      /\ index'.reserved = index.reserved \cup held
      /\ index'.completed = index.completed
      /\ index'.cancelled = index.cancelled \cup OutOfPatience
  BY <1>1, <1>2 DEF IndexRecord, IndexReserve, IndexAssign, IndexOffer, IndexExpire
<1>4. \A r \in Requests :
        /\ r \in index.pending <=> requests[r].status = "PENDING"
        /\ r \in index.offered <=> requests[r].status = "OFFERED"
        /\ r \in index.reserved <=> requests[r].status = "RESERVED"
        /\ r \in index.completed <=> requests[r].status = "COMPLETED"
        /\ r \in index.cancelled <=> requests[r].status = "CANCELLED"
  BY DEF RecordsFit, IndexAgreement
<1>5. ASSUME NEW r \in Requests
      PROVE  /\ r \in index'.pending <=> requests'[r].status = "PENDING"
             /\ r \in index'.offered <=> requests'[r].status = "OFFERED"
             /\ r \in index'.reserved <=> requests'[r].status = "RESERVED"
             /\ r \in index'.completed <=> requests'[r].status = "COMPLETED"
             /\ r \in index'.cancelled <=> requests'[r].status = "CANCELLED"
  <2>1. /\ r \in offered <=> \E e \in Offering(M, P) : e.request = r
        /\ r \in assigned <=> \E e \in OfAVs(M) : e.request = r
        /\ r \in held <=> \E e \in OfAVs(P) : e.request = r
    BY DEF offered, assigned, held, RequestsOf
  <2>2. requests'[r].status # "RAISED"
    BY DEF Raised
  <2>3. CASE requests'[r] = requests[r] /\ r \notin OutOfPatience /\ \A e \in M \cup P : e.request # r
    <3>1. r \notin offered \cup assigned \cup held
      BY <2>1, <2>3 DEF Offering, OfHVs, OfAVs, Queued
    <3>2. QED
      BY <1>3, <1>4, <2>3, <3>1
  <2>4. CASE /\ requests[r].status = "PENDING" /\ r \in OutOfPatience
             /\ \A e \in M \cup P : e.request # r
    <3>1. r \notin offered \cup assigned \cup held
      BY <2>1, <2>4 DEF Offering, OfHVs, OfAVs, Queued
    <3>2. requests'[r].status = "CANCELLED"
      BY <2>4, EpochRequests, RowFields
    <3>3. QED
      BY <1>3, <1>4, <2>4, <3>1, <3>2
  <2>5. ASSUME requests[r].status = "PENDING", r \notin OutOfPatience,
               NEW e \in M \cup P, e.request = r
        PROVE  /\ r \in index'.pending <=> requests'[r].status = "PENDING"
               /\ r \in index'.offered <=> requests'[r].status = "OFFERED"
               /\ r \in index'.reserved <=> requests'[r].status = "RESERVED"
               /\ r \in index'.completed <=> requests'[r].status = "COMPLETED"
               /\ r \in index'.cancelled <=> requests'[r].status = "CANCELLED"
    <3>1. \A f \in M \cup P : f.request = r => f = e
      BY <2>5, EpochEdges
    <3>2. /\ r \in offered <=> e \in Offering(M, P)
          /\ r \in assigned <=> e \in OfAVs(M)
          /\ r \in held <=> e \in OfAVs(P)
      BY <2>1, <2>5, <3>1 DEF Offering, OfHVs, OfAVs, Queued
    <3>3. CASE e \in Offering(M, P)
      <4>1. e \notin OfAVs(M) /\ e \notin OfAVs(P)
        BY <3>3, KindsAssumption DEF Offering, OfHVs, OfAVs, Queued
      <4>2. requests'[r].status = "OFFERED"
        BY <2>5, <3>3, EpochRequests, RowFields DEF Offering
      <4>3. QED
        BY <1>3, <1>4, <2>5, <3>2, <3>3, <4>1, <4>2
    <3>4. CASE e \in OfAVs(M)
      <4>1. e \notin Offering(M, P) /\ e \notin OfAVs(P)
        <5>1. e \notin OfAVs(P) /\ e \notin P
          BY <3>4, EpochEdges DEF OfAVs
        <5>2. QED
          BY <3>4, <5>1, KindsAssumption DEF Offering, OfHVs, OfAVs, Queued
      <4>2. requests'[r].status = "PICKUP_STARTED"
        BY <2>5, <3>4, EpochRequests, RowFields
      <4>3. QED
        BY <1>3, <1>4, <2>5, <3>2, <3>4, <4>1, <4>2
    <3>5. CASE e \in OfAVs(P)
      <4>1. e \notin Offering(M, P) /\ e \notin OfAVs(M)
        <5>1. e \notin OfAVs(M) /\ e \notin M
          BY <3>5, EpochEdges DEF OfAVs
        <5>2. QED
          BY <3>5, <5>1, KindsAssumption DEF Offering, OfHVs, OfAVs, Queued
      <4>2. requests'[r].status \in {"RESERVED", "RAISED"}
        BY <2>5, <3>5, EpochRequests, RowFields
      <4>3. QED
        BY <1>3, <1>4, <2>2, <2>5, <3>2, <3>5, <4>1, <4>2
    <3>6. CASE e \in P \ Queued(P)
      <4>1. e \notin Offering(M, P) /\ e \notin OfAVs(M) /\ e \notin OfAVs(P)
        <5>1. e \notin M
          BY <3>6, EpochEdges
        <5>2. e.vehicle \in HVs
          BY <3>6 DEF Queued, TooLate
        <5>3. QED
          BY <3>6, <5>1, <5>2, KindsAssumption DEF Offering, OfHVs, OfAVs, Queued
      <4>2. requests'[r].status = "PENDING"
        BY <2>5, <3>6, EpochRequests, RowFields
      <4>3. QED
        BY <1>3, <1>4, <2>5, <3>2, <4>1, <4>2
    <3>7. e \in Offering(M, P) \cup OfAVs(M) \cup OfAVs(P) \cup (P \ Queued(P))
      <4>1. e.vehicle \in Vehicles
        BY EpochEdges
      <4>2. QED
        BY <4>1 DEF Offering, OfHVs, OfAVs, Queued, Vehicles
    <3>8. QED
      BY <3>3, <3>4, <3>5, <3>6, <3>7
  <2>6. CASE requests[r].status = "PENDING" /\ r \in OutOfPatience
    <3>1. \A e \in M \cup P : e.request # r
      BY <2>6, EpochEdges
    <3>2. QED
      BY <2>4, <2>6, <3>1
  <2>7. QED
    BY <2>3, <2>5, <2>6, RequestCases
<1>6. QED
  BY <1>5 DEF IndexAgreement

-----------------------------------------------------------------------------
(* A drive to a pickup takes its time, MIN_LEG at least.                   *)
PickupsTakeTime == \A eta \in PickupEtas : eta >= MinLeg

(* An epoch raises only if a ride behind which an AV is queued would be    *)
(* picked up at once.                                                      *)
LEMMA EpochRaises ==
  ASSUME TypeOK, Ordered, RecordsFit, PickupsTakeTime, NEW moved, NEW ride, NEW M, NEW P,
         Decision(moved, ride, M, P)
  PROVE  ~Raised'
<1>1. Pop("DECISION_EPOCH", FleetController) /\ P \in Preassignments(M)
  BY DEF Decision
<1>2. clock' \in Nat
  BY <1>1, Popped
<1>3. ASSUME NEW e \in OfAVs(P) PROVE clock' < LatestPickup[e.request]
  <2>1. e \in P /\ P \subseteq PreassignEdges(M)
    BY <1>1 DEF OfAVs, Preassignments
  <2>2. PICK arrival \in ProjectedPickups(vehicles[e.vehicle].leg.end, clock') :
          Validate(e.vehicle, e.request, clock', arrival)
    BY <2>1 DEF PreassignEdges
  <2>3. PICK off \in SafeOffsets, eta \in PickupEtas :
          arrival = Larger(clock', vehicles[e.vehicle].leg.end + off) + eta
    BY <2>2 DEF ProjectedPickups
  <2>4. e.request \in Requests /\ e.vehicle \in Vehicles
    BY <2>1, EpochEdges
  <2>5. /\ vehicles[e.vehicle].leg.end \in Nat /\ off \in Int /\ eta \in Nat
        /\ LatestPickup[e.request] \in Nat /\ MinLeg \in Nat /\ MinLeg > 0
    <3>1. vehicles[e.vehicle] \in VehicleRecord
      BY <2>4, TypeParts
    <3>2. QED
      BY <2>4, <3>1, TimesAssumption, DelaysAssumption DEF VehicleRecord, LegRecord
  <2> DEFINE release == vehicles[e.vehicle].leg.end
  <2> HIDE DEF release
  <2>6. Larger(clock', release + off) \in Int /\ Larger(clock', release + off) >= clock'
    BY <1>2, <2>5 DEF Larger, release
  <2>7. arrival <= LatestPickup[e.request] /\ arrival = Larger(clock', release + off) + eta
    BY <2>2, <2>3 DEF Validate, release
  <2>8. eta > 0
    BY <2>5 DEF PickupsTakeTime
  <2>9. QED
    BY <1>2, <2>5, <2>6, <2>7, <2>8
<1>4. ASSUME NEW r \in Requests PROVE requests'[r].status # "RAISED"
  <2>1. requests[r].status # "RAISED"
    BY DEF RecordsFit, HoldFits, RestingStatus
  <2>2. QED
    BY <1>3, <2>1, RequestCases DEF Decided
<1>5. QED
  BY <1>4 DEF Raised

LEMMA EpochFits ==
  ASSUME TypeOK, TypeOK', Ordered, RecordsFit, AnswersPrecedeEpochs, DecisionEpoch
  PROVE  /\ OneVehiclePerRide' /\ EveryLegWillEnd'
         /\ \A r \in Requests : EconomicsFit(r)'
         /\ \A v \in Vehicles : VehicleFits(v)'
         /\ OffersFit' /\ AnswersFit' /\ AnswersAhead'
         /\ ~Raised' => RecordsFit'
         /\ PickupsTakeTime => ~Raised'
<1>1. PICK moved, ride, M, P : Decision(moved, ride, M, P)
  BY EpochDecides
<1>2. OneVehiclePerRide' /\ EveryLegWillEnd' /\ \A r \in Requests : EconomicsFit(r)'
  BY <1>1, EpochRides, EpochLegsEnd, EpochEconomics
<1>3. StrandedFits' /\ Stranded' = {}
  BY <1>1, EpochStrands
<1>4. \A v \in Vehicles : VehicleFits(v)'
  BY <1>1, <1>3, EpochVehiclesFit
<1>5. AnswersFit' /\ QueueFits' /\ AnswersAhead'
  BY <1>1, EpochAnswers
<1>6. OffersFit'
  BY <1>1, EpochOffers
<1>7. ASSUME NEW r \in Requests PROVE RevealFits(r)'
  <2>1. requests[r].status = "UNREVEALED" <=> requests'[r].status = "UNREVEALED"
    BY <1>1, RequestCases DEF Decided
  <2>2. Leaves("DECISION_EPOCH", FleetController, EpochKinds) /\ EpochKinds \subseteq PushedKinds
    BY <1>1, EpochLeaves
  <2>3. RevealFits(r) /\ "DECISION_EPOCH" # "REQUEST_REVEALED"
    BY DEF RecordsFit
  <2>4. QED
    BY <2>1, <2>2, <2>3, RevealKept
<1>8. ~Raised' => IndexAgreement' /\ \A r \in Requests : HoldFits(r)' /\ ExpiryFits(r)'
  BY <1>1, EpochHolds, EpochIndex
<1>9. PickupsTakeTime => ~Raised'
  BY <1>1, EpochRaises
<1>10. QED
  BY <1>2, <1>3, <1>4, <1>5, <1>6, <1>7, <1>8, <1>9 DEF RecordsFit

(* One step per action: every handler but the epoch keeps the records, the *)
(* epoch keeps them unless it raises.                                      *)
LEMMA StepFits ==
  ASSUME TypeOK, TypeOK', Ordered, RecordsFit, AnswersPrecedeEpochs, Next
  PROVE  RecordsFit' \/ DecisionEpoch \/ Finalize \/ UNCHANGED vars
<1>1. CASE \E r \in Requests : RequestRevealed(r)
  BY <1>1, RevealedFits
<1>2. CASE \E v \in Vehicles : SessionStart(v) \/ SessionEnd(v)
  BY <1>2, SessionEventFits
<1>3. CASE \E v \in Vehicles : LegCompleted(v) \/ LegCompletedPromote(v)
                                                \/ LegCompletedInvalidate(v)
  BY <1>3, LegEndFits
<1>4. CASE \E r \in Requests : ReservationExpired(r) \/ StaleReservationExpiry(r)
                                                     \/ PlanInvalidated(r)
  BY <1>4, ExpiredFits, StaleExpiryFits, PlanInvalidatedFits
<1>5. CASE \E o \in offers :
        \/ ResponseTimeout(o) \/ VehicleNotWaiting(o) \/ DriverRejects(o)
        \/ InsertsTooLate(o) \/ AcceptsReservation(o) \/ AcceptsAssignment(o)
  BY <1>5, RejectionFits, AcceptsReservationFits, AcceptsAssignmentFits
<1>6. CASE DecisionEpoch \/ Finalize \/ Returned
  BY <1>6 DEF Returned
<1>7. QED
  BY <1>1, <1>2, <1>3, <1>4, <1>5, <1>6 DEF Next

(* A run that does not go on only stutters.                                *)
LEMMA StoppedStays ==
  ASSUME Next, ~Live
  PROVE  UNCHANGED vars
<1>1. ~\E kind, id : Pop(kind, id)
  BY DEF Pop, Live
<1>2. ~Finalize
  BY DEF Finalize, Live
<1>3. QED
  BY <1>1, <1>2 DEF Next, RequestRevealed, SessionStart, SessionEnd, SessionEvent, LegCompleted,
        LegCompletedPromote, LegCompletedInvalidate, LegEnds, ReservationExpired,
        StaleReservationExpiry, PlanInvalidated, ResponseTimeout, VehicleNotWaiting,
        DriverRejects, InsertsTooLate, AcceptsReservation, AcceptsAssignment, Respond,
        DecisionEpoch, Returned

-----------------------------------------------------------------------------
(* The end of the day: what waits is cancelled, rides go on in the books.  *)
LEMMA FinalizeRequests ==
  ASSUME TypeOK, RecordsFit, Finalize, NEW r \in Requests
  PROVE  IF requests[r].status \in {"PENDING", "OFFERED", "RESERVED"}
         THEN /\ requests'[r].status = "CANCELLED"
              /\ requests'[r].assigned = requests[r].assigned
              /\ requests'[r].reserved = requests[r].reserved
              /\ requests'[r].econ = requests[r].econ
         ELSE requests'[r] = requests[r]
<1> DEFINE open == {s \in index.pending \cup index.offered \cup index.reserved :
                      requests[s].status \notin TerminalStatus}
<1>1. requests'[r] = IF r \in open THEN Transition(requests[r], "CANCELLED") ELSE requests[r]
  BY DEF Finalize
<1>2. r \in open <=> requests[r].status \in {"PENDING", "OFFERED", "RESERVED"}
  BY DEF RecordsFit, IndexAgreement, TerminalStatus
<1> HIDE DEF open
<1>3. CASE requests[r].status \in {"PENDING", "OFFERED", "RESERVED"}
  <2>1. requests[r] = Row(requests[r].status, requests[r].assigned, requests[r].reserved,
                          requests[r].econ)
    BY RowOf, TypeParts
  <2>2. "CANCELLED" \in LegalTransitions[requests[r].status]
    BY <1>3, LegalSteps
  <2>3. Transition(Row(requests[r].status, requests[r].assigned, requests[r].reserved,
                       requests[r].econ), "CANCELLED")
          = Row("CANCELLED", requests[r].assigned, requests[r].reserved, requests[r].econ)
    BY <2>2, Steps
  <2>4. requests'[r] = Row("CANCELLED", requests[r].assigned, requests[r].reserved, requests[r].econ)
    BY <1>1, <1>2, <1>3, <2>1, <2>3
  <2>5. QED
    BY <1>3, <2>4, RowFields
<1>4. CASE requests[r].status \notin {"PENDING", "OFFERED", "RESERVED"}
  BY <1>1, <1>2, <1>4
<1>5. QED
  BY <1>3, <1>4

LEMMA FinalizeFits ==
  ASSUME TypeOK, RecordsFit, Finalize
  PROVE  /\ OneVehiclePerRide' /\ EveryLegWillEnd'
         /\ \A r \in Requests : EconomicsFit(r)'
         /\ IndexAgreement' /\ ~Raised'
<1>1. UNCHANGED <<vehicles, events>>
  BY DEF Finalize
<1>2. EveryLegWillEnd'
  BY <1>1 DEF RecordsFit, EveryLegWillEnd, LegEvent
<1>3. OneVehiclePerRide'
  BY <1>1, FinalizeRequests DEF RecordsFit, OneVehiclePerRide, OnLeg, LegStatus
<1>4. \A r \in Requests : EconomicsFit(r)'
  BY FinalizeRequests DEF RecordsFit, EconomicsFit
<1>5. ~Raised'
  BY FinalizeRequests DEF RecordsFit, HoldFits, RestingStatus, Raised
<1>6. IndexAgreement'
  <2> DEFINE open == {s \in index.pending \cup index.offered \cup index.reserved :
                        requests[s].status \notin TerminalStatus}
  <2>1. index' = [index EXCEPT !.pending = @ \ open, !.offered = @ \ open,
                               !.reserved = @ \ open, !.cancelled = @ \cup open]
    BY DEF Finalize
  <2>2. \A r \in Requests : r \in open <=> requests[r].status \in {"PENDING", "OFFERED", "RESERVED"}
    BY DEF RecordsFit, IndexAgreement, TerminalStatus
  <2> HIDE DEF open
  <2>3. /\ index'.pending = index.pending \ open /\ index'.offered = index.offered \ open
        /\ index'.reserved = index.reserved \ open /\ index'.completed = index.completed
        /\ index'.cancelled = index.cancelled \cup open
    BY <2>1, TypeParts DEF IndexRecord
  <2>4. QED
    BY <2>2, <2>3, FinalizeRequests DEF RecordsFit, IndexAgreement
<1>7. QED
  BY <1>2, <1>3, <1>4, <1>5, <1>6

(* The first state.                                                        *)
LEMMA InitFits ==
  ASSUME Init
  PROVE  RecordsFit /\ AnswersAhead
<1>1. /\ requests = [r \in Requests |-> Row("UNREVEALED", NoVehicle, NoVehicle, NoVehicle)]
      /\ vehicles = [v \in Vehicles |-> [status |-> "OFFLINE", leg |-> NoLeg, plan |-> <<>>,
                                         reserved |-> NoRequest]]
      /\ index = [pending |-> {}, offered |-> {}, reserved |-> {}, completed |-> {},
                  cancelled |-> {}]
      /\ offers = {} /\ book = [r \in Requests |-> NoVehicle]
  BY DEF Init, Row
<1>2. \A r \in Requests : /\ requests[r].status = "UNREVEALED" /\ requests[r].assigned = NoVehicle
                          /\ requests[r].reserved = NoVehicle
  BY <1>1, RowFields
<1>3. \A v \in Vehicles : /\ vehicles[v].status = "OFFLINE" /\ vehicles[v].leg = NoLeg
                          /\ vehicles[v].plan = <<>> /\ vehicles[v].reserved = NoRequest
  BY <1>1
<1>4. NoLeg.kind = "NONE" /\ NoVehicle \notin Vehicles /\ NoRequest \notin Requests
  BY KindsAssumption DEF NoLeg
<1>5. ASSUME NEW e \in events
      PROVE  \/ \E r \in Requests : e = SimulationEvent(RequestTime[r], "REQUEST_REVEALED", r)
             \/ \E v \in Vehicles : e = SimulationEvent(OnlineStart[v], "HV_SESSION_START", v)
             \/ \E v \in Vehicles : e = SimulationEvent(OnlineEnd[v], "HV_SESSION_END", v)
             \/ \E t \in 0..End : /\ e = SimulationEvent(t, "DECISION_EPOCH", FleetController)
                                  /\ t % EpochSec = 0
  BY DEF Init
<1>6. \A e \in events : e.kind \in {"REQUEST_REVEALED", "HV_SESSION_START", "HV_SESSION_END",
                                    "DECISION_EPOCH"}
  BY <1>5, EventFields
<1>7. Stranded = {}
  BY <1>6 DEF Stranded
<1>8. \A v \in Vehicles : VehicleFits(v)
  BY <1>3, <1>4 DEF VehicleFits, PlanOf
<1>9. OneVehiclePerRide
  BY <1>2, <1>3, <1>4 DEF OneVehiclePerRide, OnLeg, LegStatus
<1>10. \A r \in Requests : HoldFits(r)
  BY <1>1, <1>2, <1>3, <1>4, <1>7 DEF HoldFits, RestingStatus
<1>11. StrandedFits /\ AnswersFit /\ AnswersAhead
  BY <1>6 DEF StrandedFits, AnswersFit, AnswersAhead
<1>12. OffersFit
  BY <1>1, <1>2, <1>3 DEF OffersFit
<1>13. QueueFits
  BY <1>5, EventFields DEF QueueFits
<1>14. ASSUME NEW r \in Requests PROVE RevealFits(r) /\ ExpiryFits(r) /\ EconomicsFit(r)
  <2>1. SimulationEvent(RequestTime[r], "REQUEST_REVEALED", r) \in events
    BY DEF Init
  <2>2. QED
    BY <1>2, <2>1 DEF RevealFits, ExpiryFits, EconomicsFit
<1>15. IndexAgreement
  BY <1>1, <1>2 DEF IndexAgreement
<1>16. EveryLegWillEnd
  BY <1>3, <1>6 DEF EveryLegWillEnd
<1>17. QED
  BY <1>8, <1>9, <1>10, <1>11, <1>12, <1>13, <1>14, <1>15, <1>16 DEF RecordsFit

-----------------------------------------------------------------------------
(* The inductive invariant.  A raise or the end of the day stops the run;  *)
(* what holds of the records then is stated apart.                         *)
Agreed ==
  /\ Live => RecordsFit
  /\ ~finalized => /\ \A v \in Vehicles : VehicleFits(v)
                   /\ OffersFit /\ AnswersFit /\ AnswersAhead
  /\ OneVehiclePerRide /\ EveryLegWillEnd
  /\ \A r \in Requests : EconomicsFit(r)

LEMMA InitAgrees ==
  ASSUME Init
  PROVE  Agreed
  BY InitFits DEF Agreed, RecordsFit

LEMMA UnchangedAgrees ==
  ASSUME Agreed, UNCHANGED vars
  PROVE  Agreed'
<1>1. UNCHANGED <<clock, events, requests, vehicles, index, offers, book, finalized>>
  BY DEF vars
<1>2. Live' = Live /\ Stranded' = Stranded /\ AnswersAhead' = AnswersAhead
  BY <1>1 DEF Live, Raised, Stranded, AnswersAhead
<1>3. \A v \in Vehicles : VehicleFits(v)' = VehicleFits(v)
  BY <1>1, <1>2 DEF VehicleFits, PlanOf
<1>4. OffersFit' = OffersFit /\ AnswersFit' = AnswersFit
  BY <1>1 DEF OffersFit, OfferFits, AnswersFit
<1>5. OneVehiclePerRide' = OneVehiclePerRide /\ EveryLegWillEnd' = EveryLegWillEnd
  BY <1>1 DEF OneVehiclePerRide, OnLeg, EveryLegWillEnd, LegEvent
<1>6. \A r \in Requests : /\ EconomicsFit(r)' = EconomicsFit(r)
                          /\ HoldFits(r)' = HoldFits(r)
                          /\ RevealFits(r)' = RevealFits(r)
                          /\ ExpiryFits(r)' = ExpiryFits(r)
  BY <1>1, <1>2 DEF EconomicsFit, HoldFits, RevealFits, ExpiryFits
<1>7. StrandedFits' = StrandedFits /\ QueueFits' = QueueFits /\ IndexAgreement' = IndexAgreement
  BY <1>1 DEF StrandedFits, QueueFits, IndexAgreement
<1>8. RecordsFit => RecordsFit'
  BY <1>3, <1>4, <1>5, <1>6, <1>7 DEF RecordsFit
<1>9. QED
  BY <1>1, <1>2, <1>3, <1>4, <1>5, <1>6, <1>8 DEF Agreed

LEMMA NextAgrees ==
  ASSUME TypeOK, TypeOK', Ordered, Ordered', Agreed, AnswersPrecedeEpochs, [Next]_vars
  PROVE  Agreed'
<1>1. CASE UNCHANGED vars
  BY <1>1, UnchangedAgrees
<1>2. CASE Next /\ ~Live
  BY <1>2, StoppedStays, UnchangedAgrees
<1>3. CASE Next /\ Live
  <2>1. RecordsFit
    BY <1>3 DEF Agreed
  <2>2. CASE RecordsFit'
    <3>1. ~finalized' => AnswersAhead'
      <4>1. ~Raised'
        BY <2>2 DEF RecordsFit, HoldFits, RestingStatus, Raised
      <4>2. SUFFICES ASSUME ~finalized', NEW e \in events', e.kind = "DRIVER_RESPONSE"
                     PROVE  e.at >= clock'
        BY DEF AnswersAhead
      <4>3. NoLaterThan(clock', priority', e.at, EventPriority[e.kind])
        BY <4>1, <4>2 DEF Ordered, Follows
      <4>4. clock' \in Nat /\ e.at \in Nat
        BY DEF TypeOK
      <4>5. QED
        BY <4>3, <4>4 DEF NoLaterThan
    <3>2. QED
      BY <2>2, <3>1 DEF Agreed, RecordsFit
  <2>3. CASE DecisionEpoch
    <3>1. AnswersFit' /\ AnswersAhead' /\ OffersFit' /\ \A v \in Vehicles : VehicleFits(v)'
      BY <2>1, <2>3, EpochFits
    <3>2. OneVehiclePerRide' /\ EveryLegWillEnd' /\ \A r \in Requests : EconomicsFit(r)'
      BY <2>1, <2>3, EpochFits
    <3>3. Live' => RecordsFit'
      BY <2>1, <2>3, EpochFits DEF Live
    <3>4. QED
      BY <3>1, <3>2, <3>3 DEF Agreed
  <2>4. CASE Finalize
    <3>1. finalized' /\ ~Live'
      BY <2>4 DEF Finalize, Live
    <3>2. QED
      BY <2>1, <2>4, <3>1, FinalizeFits DEF Agreed
  <2>5. QED
    BY <1>1, <1>3, <2>1, <2>2, <2>3, <2>4, StepFits
<1>4. QED
  BY <1>1, <1>2, <1>3

(* A passenger is with exactly one vehicle and its leg will end: request,  *)
(* vehicle and queue never disagree about a ride, even if a handler raises *)
(* or the day ends meanwhile.                                              *)
THEOREM RideRecordsHold ==
  ASSUME AnswersPrecedeEpochs
  PROVE  Spec => []RideRecordsAgree
<1>1. Init => TypeOK /\ Ordered /\ Agreed
  BY InitType, InitOrdered, InitAgrees
<1>2. TypeOK /\ Ordered /\ Agreed /\ [Next]_vars => (TypeOK /\ Ordered /\ Agreed)'
  BY NextType, NextOrdered, NextAgrees
<1>3. Agreed => RideRecordsAgree
  BY DEF Agreed, RideRecordsAgree
<1>4. QED
  BY <1>1, <1>2, <1>3, PTL DEF Spec

-----------------------------------------------------------------------------
(* The revenue of a ride is booked with the economics of the vehicle that  *)
(* drives it (the metadata of request_manager and _commit_match).          *)
THEOREM EconomicsHold ==
  ASSUME AnswersPrecedeEpochs
  PROVE  Spec => []EconomicsOfTheDriver
<1>1. Init => TypeOK /\ Ordered /\ Agreed
  BY InitType, InitOrdered, InitAgrees
<1>2. TypeOK /\ Ordered /\ Agreed /\ [Next]_vars => (TypeOK /\ Ordered /\ Agreed)'
  BY NextType, NextOrdered, NextAgrees
<1>3. Agreed => EconomicsOfTheDriver
  BY DEF Agreed, EconomicsFit, EconomicsOfTheDriver
<1>4. QED
  BY <1>1, <1>2, <1>3, PTL DEF Spec

(* A held vehicle is still on the ride it was held behind: the insertion   *)
(* check of _handle_driver_response and the revalidation at the end of the *)
(* leg leave no vehicle with a reservation and another leg.                *)
THEOREM HeldBehindItsRideHolds ==
  ASSUME AnswersPrecedeEpochs
  PROVE  Spec => []HeldBehindItsRide
<1>1. Init => TypeOK /\ Ordered /\ Agreed
  BY InitType, InitOrdered, InitAgrees
<1>2. TypeOK /\ Ordered /\ Agreed /\ [Next]_vars => (TypeOK /\ Ordered /\ Agreed)'
  BY NextType, NextOrdered, NextAgrees
<1>3. Agreed => HeldBehindItsRide
  BY DEF Agreed, VehicleFits, HeldBehindItsRide
<1>4. QED
  BY <1>1, <1>2, <1>3, PTL DEF Spec

(* One open offer per offered request and per driver, its answer queued    *)
(* and not overdue: pending_offers, the offered id set and the queue name  *)
(* the same offers.                                                        *)
LEMMA AgreedOffers ==
  ASSUME TypeOK, Agreed
  PROVE  OfferDiscipline
<1> SUFFICES ASSUME ~finalized PROVE OfferDiscipline
  BY DEF OfferDiscipline
<1>1. OffersFit /\ AnswersFit /\ AnswersAhead
  BY DEF Agreed
<1>2. ASSUME NEW o \in offers
      PROVE  \E e \in events : e.kind = "DRIVER_RESPONSE" /\ e.id = <<o.request, o.vehicle>>
                                 /\ e.at >= clock
  <2>1. OfferFits(o)
    BY <1>1 DEF OffersFit
  <2>2. PICK e \in events : e.kind = "DRIVER_RESPONSE" /\ e.id = <<o.request, o.vehicle>>
    BY <2>1 DEF OfferFits
  <2>3. e.at >= clock
    BY <1>1, <2>2 DEF AnswersAhead
  <2>4. QED
    BY <2>2, <2>3
<1>3. \A e \in events :
        e.kind = "DRIVER_RESPONSE" => \E o \in offers : e.id = <<o.request, o.vehicle>>
  BY <1>1 DEF AnswersFit
<1>4. ASSUME NEW o \in offers
      PROVE  /\ requests[o.request].status = "OFFERED" /\ o.request \in Requests
             /\ ~o.preassigned => vehicles[o.vehicle].leg = NoLeg
                                    /\ vehicles[o.vehicle].status \in {"WAITING", "OFFLINE"}
  <2>1. OfferFits(o)
    BY <1>1 DEF OffersFit
  <2>2. o.request \in Requests
    BY TypeParts DEF OfferRecord
  <2>3. QED
    BY <2>1, <2>2 DEF OfferFits
<1>5. \A r \in Requests : requests[r].status = "OFFERED" => \E o \in offers : o.request = r
  BY <1>1 DEF OffersFit
<1>6. \A o, p \in offers : o.request = p.request \/ o.vehicle = p.vehicle => o = p
  BY <1>1 DEF OffersFit
<1>7. \A v \in Vehicles :
        vehicles[v].status = "WAITING" => \E o \in offers : o.vehicle = v /\ ~o.preassigned
  BY <1>1 DEF OffersFit
<1>8. \A r \in Requests : requests[r].status = "OFFERED" <=> \E o \in offers : o.request = r
  BY <1>4, <1>5
<1>9. QED
  BY <1>2, <1>3, <1>4, <1>6, <1>7, <1>8 DEF OfferDiscipline

(* Offers are open exactly where the requests and the drivers say so.      *)
THEOREM OffersHold ==
  ASSUME AnswersPrecedeEpochs
  PROVE  Spec => []OfferDiscipline
<1>1. Init => TypeOK /\ Ordered /\ Agreed
  BY InitType, InitOrdered, InitAgrees
<1>2. TypeOK /\ Ordered /\ Agreed /\ [Next]_vars => (TypeOK /\ Ordered /\ Agreed)'
  BY NextType, NextOrdered, NextAgrees
<1>3. TypeOK /\ Agreed => OfferDiscipline
  BY AgreedOffers
<1>4. QED
  BY <1>1, <1>2, <1>3, PTL DEF Spec

-----------------------------------------------------------------------------
(* If a pickup takes its time no handler raises, and the copies of the     *)
(* requests' state agree to the end of the day.                            *)
Unraised == ~Raised /\ IndexAgreement

LEMMA InitUnraised ==
  ASSUME Init
  PROVE  Unraised
<1>1. RecordsFit
  BY InitFits
<1>2. QED
  BY <1>1 DEF Unraised, RecordsFit, HoldFits, RestingStatus, Raised

LEMMA NextUnraised ==
  ASSUME TypeOK, TypeOK', Ordered, Agreed, Unraised, AnswersPrecedeEpochs, PickupsTakeTime,
         [Next]_vars
  PROVE  Unraised'
<1>1. CASE UNCHANGED vars
  BY <1>1 DEF vars, Unraised, Raised, IndexAgreement
<1>2. CASE Next /\ ~Live
  <2>1. UNCHANGED vars
    BY <1>2, StoppedStays
  <2>2. QED
    BY <2>1 DEF vars, Unraised, Raised, IndexAgreement
<1>3. CASE Next /\ Live
  <2>1. RecordsFit
    BY <1>3 DEF Agreed
  <2>2. RecordsFit' => Unraised'
    BY DEF Unraised, RecordsFit, HoldFits, RestingStatus, Raised
  <2>3. CASE DecisionEpoch
    BY <2>1, <2>2, <2>3, EpochFits
  <2>4. CASE Finalize
    BY <2>1, <2>4, FinalizeFits DEF Unraised
  <2>5. QED
    BY <1>1, <1>3, <2>1, <2>2, <2>3, <2>4, StepFits
<1>4. QED
  BY <1>1, <1>2, <1>3

(* Every lifecycle transition asked for is legal and every reservation     *)
(* made is open: unhandled_event_count is zero.                            *)
THEOREM NoHandlerRaisesHolds ==
  ASSUME AnswersPrecedeEpochs, PickupsTakeTime
  PROVE  Spec => []NoHandlerRaises
<1>1. Init => TypeOK /\ Ordered /\ Agreed /\ Unraised
  BY InitType, InitOrdered, InitAgrees, InitUnraised
<1>2. TypeOK /\ Ordered /\ Agreed /\ Unraised /\ [Next]_vars
        => (TypeOK /\ Ordered /\ Agreed /\ Unraised)'
  BY NextType, NextOrdered, NextAgrees, NextUnraised
<1>3. Unraised => NoHandlerRaises
  BY DEF Unraised, NoHandlerRaises
<1>4. QED
  BY <1>1, <1>2, <1>3, PTL DEF Spec

LEMMA NothingBefore ==
  ASSUME NEW plan \in Seq(PlanStop)
  PROVE  <<>> \o plan = plan /\ plan \o <<>> = plan
  OBVIOUS

(* A vehicle's plan is the drop-off it is fetching for, then the ride it   *)
(* is held for: a vehicle held has no pickup leg.                          *)
LEMMA FittingPlan ==
  ASSUME TypeOK, NEW v \in Vehicles, VehicleFits(v)
  PROVE  vehicles[v].plan =
           (IF vehicles[v].leg.kind = "PICKUP" THEN <<Stop("DROP_OFF", vehicles[v].leg.request)>>
                                               ELSE <<>>)
           \o (IF vehicles[v].reserved = NoRequest THEN <<>>
               ELSE AssignmentPlan(vehicles[v].reserved))
<1> DEFINE fetched == <<Stop("DROP_OFF", vehicles[v].leg.request)>>
           held == AssignmentPlan(vehicles[v].reserved)
<1>1. vehicles[v] \in VehicleRecord
  BY TypeParts
<1>2. <<>> \in Seq(PlanStop)
  OBVIOUS
<1>3. CASE vehicles[v].leg.kind = "PICKUP"
  <2>1. vehicles[v].leg # NoLeg /\ vehicles[v].leg.kind # "SERVICE"
    BY <1>3 DEF NoLeg
  <2>2. vehicles[v].reserved = NoRequest
    BY <2>1 DEF VehicleFits
  <2>3. vehicles[v].plan = fetched /\ vehicles[v].plan \in Seq(PlanStop)
    BY <1>1, <1>3 DEF VehicleFits, PlanOf, VehicleRecord
  <2> HIDE DEF fetched
  <2>4. fetched \o <<>> = fetched
    BY <2>3, NothingBefore
  <2>5. QED
    BY <1>3, <2>2, <2>3, <2>4 DEF fetched
<1>4. CASE vehicles[v].leg.kind # "PICKUP" /\ vehicles[v].reserved = NoRequest
  <2>1. vehicles[v].plan = <<>>
    BY <1>4 DEF VehicleFits, PlanOf
  <2>2. <<>> \o <<>> = <<>>
    BY <1>2, NothingBefore
  <2>3. QED
    BY <1>4, <2>1, <2>2
<1>5. CASE vehicles[v].leg.kind # "PICKUP" /\ vehicles[v].reserved # NoRequest
  <2>1. vehicles[v].plan = held /\ vehicles[v].plan \in Seq(PlanStop)
    BY <1>1, <1>5 DEF VehicleFits, PlanOf, VehicleRecord
  <2> HIDE DEF held
  <2>2. <<>> \o held = held
    BY <2>1, NothingBefore
  <2>3. QED
    BY <1>5, <2>1, <2>2 DEF held
<1>6. QED
  BY <1>3, <1>4, <1>5

LEMMA UnraisedCopies ==
  ASSUME TypeOK, Agreed, Unraised
  PROVE  CopiesAgree
<1>1. IndexAgreement
  BY DEF Unraised
<1>2. ~finalized => RecordsFit
  BY DEF Agreed, Unraised, Live
<1>3. ReservationAgreement
  <2> SUFFICES ASSUME ~finalized PROVE ReservationAgreement
    BY DEF ReservationAgreement
  <2>1. \A r \in Requests : HoldFits(r)
    BY <1>2 DEF RecordsFit
  <2>2. ASSUME NEW e \in events, e.kind = "PLAN_INVALIDATED" PROVE e.at = clock
    <3>1. e = SimulationEvent(clock, "PLAN_INVALIDATED", e.id)
      BY <1>2, <2>2 DEF RecordsFit, StrandedFits
    <3>2. QED
      BY <3>1, EventFields
  <2>3. QED
    BY <2>1, <2>2 DEF ReservationAgreement, HoldFits
<1>4. PlanMatchesState
  BY <1>2, FittingPlan DEF RecordsFit, PlanMatchesState
<1>5. QED
  BY <1>1, <1>3, <1>4 DEF CopiesAgree

(* The four records of a reservation, the plans and the id sets agree.     *)
THEOREM CopiesHold ==
  ASSUME AnswersPrecedeEpochs, PickupsTakeTime
  PROVE  Spec => []CopiesAgree
<1>1. Init => TypeOK /\ Ordered /\ Agreed /\ Unraised
  BY InitType, InitOrdered, InitAgrees, InitUnraised
<1>2. TypeOK /\ Ordered /\ Agreed /\ Unraised /\ [Next]_vars
        => (TypeOK /\ Ordered /\ Agreed /\ Unraised)'
  BY NextType, NextOrdered, NextAgrees, NextUnraised
<1>3. TypeOK /\ Agreed /\ Unraised => CopiesAgree
  BY UnraisedCopies
<1>4. QED
  BY <1>1, <1>2, <1>3, PTL DEF Spec

-----------------------------------------------------------------------------
(* What one event may do to a request: the steps of its ride, and how its  *)
(* reservation pointer changes meanwhile.                                  *)
WaitingStatus == {"PENDING", "OFFERED", "RESERVED"}

KeepsVehicles(r) ==
  /\ requests'[r].assigned = requests[r].assigned
  /\ requests'[r].reserved = requests[r].reserved

Goes(r, from, to) == requests[r].status = from /\ requests'[r].status = to

(* A free vehicle is held, the one held is let go, or nothing changes.     *)
HoldStep(r) ==
  \/ requests'[r].reserved \in {requests[r].reserved, NoVehicle}
  \/ /\ requests[r].reserved = NoVehicle
     /\ requests'[r].reserved \in Vehicles
     /\ vehicles[requests'[r].reserved].reserved = NoRequest

WaitStep(r) ==
  /\ requests[r].status \in WaitingStatus
  /\ requests'[r].status \in WaitingStatus \cup {"CANCELLED", "RAISED"}
  /\ requests'[r].assigned = requests[r].assigned
  /\ HoldStep(r)

CommitStep(r) ==
  /\ requests[r].status \in WaitingStatus
  /\ requests'[r].status = "PICKUP_STARTED"
  /\ requests'[r].assigned \in Vehicles
  /\ requests'[r].reserved = NoVehicle

RideStep(r) ==
  /\ \/ Goes(r, "UNREVEALED", "PENDING")
     \/ Goes(r, "PICKUP_STARTED", "IN_SERVICE")
     \/ Goes(r, "IN_SERVICE", "COMPLETED")
     \/ Goes(r, requests[r].status, requests[r].status)
  /\ KeepsVehicles(r)

RequestSteps == \A r \in Requests : WaitStep(r) \/ CommitStep(r) \/ RideStep(r)

LEMMA OneSteps ==
  ASSUME NEW r \in Requests, WaitStep(r) \/ CommitStep(r) \/ RideStep(r),
         \A s \in Requests : s # r => requests'[s] = requests[s]
  PROVE  RequestSteps
<1>1. \A s \in Requests : s # r => RideStep(s)
  BY DEF RideStep, Goes, KeepsVehicles
<1>2. QED
  BY <1>1 DEF RequestSteps

LEMMA NoneSteps ==
  ASSUME UNCHANGED requests
  PROVE  RequestSteps
  BY DEF RequestSteps, RideStep, Goes, KeepsVehicles

LEMMA LegEndSteps ==
  ASSUME TypeOK, Ordered, RecordsFit, NEW v \in Vehicles,
         LegCompleted(v) \/ LegCompletedPromote(v) \/ LegCompletedInvalidate(v)
  PROVE  RequestSteps
<1> DEFINE q == vehicles[v].leg.request
           r == vehicles[v].reserved
<1>1. LegEnds(v)
  BY DEF LegCompleted, LegCompletedPromote, LegCompletedInvalidate
<1>2. CASE LegCompleted(v) /\ vehicles[v].leg.kind = "PICKUP"
  <2>1. /\ q \in Requests /\ requests[q] = Row("PICKUP_STARTED", v, NoVehicle, v)
        /\ requests' = [requests EXCEPT ![q] = Row("IN_SERVICE", v, NoVehicle, v)]
    BY <1>1, <1>2, LegEnding, PickedUp
  <2> HIDE DEF q
  <2>2. requests'[q] = Row("IN_SERVICE", v, NoVehicle, v)
          /\ \A s \in Requests : s # q => requests'[s] = requests[s]
    BY <2>1, TypeParts
  <2>3. RideStep(q)
    BY <2>1, <2>2, RowFields DEF RideStep, Goes, KeepsVehicles
  <2>4. QED
    BY <2>1, <2>2, <2>3, OneSteps
<1>3. CASE vehicles[v].leg.kind = "SERVICE" /\ ~LegCompletedPromote(v)
  <2>1. /\ q \in Requests /\ requests[q] = Row("IN_SERVICE", v, NoVehicle, v)
        /\ requests' = [requests EXCEPT ![q] = Row("COMPLETED", v, NoVehicle, v)]
    BY <1>1, <1>3, LegEnding, DroppedOff, Invalidated
  <2> HIDE DEF q
  <2>2. requests'[q] = Row("COMPLETED", v, NoVehicle, v)
          /\ \A s \in Requests : s # q => requests'[s] = requests[s]
    BY <2>1, TypeParts
  <2>3. RideStep(q)
    BY <2>1, <2>2, RowFields DEF RideStep, Goes, KeepsVehicles
  <2>4. QED
    BY <2>1, <2>2, <2>3, OneSteps
<1>4. CASE LegCompletedPromote(v)
  <2>1. /\ q \in Requests /\ r \in Requests /\ q # r /\ vehicles[v].leg.kind = "SERVICE"
        /\ requests[r].status = "RESERVED"
        /\ requests' = [requests EXCEPT ![q] = Row("COMPLETED", v, NoVehicle, v),
                                        ![r] = Row("PICKUP_STARTED", v, NoVehicle, v)]
    BY <1>4, Promoted
  <2>2. requests[q] = Row("IN_SERVICE", v, NoVehicle, v)
    BY <1>1, <2>1, LegEnding
  <2> HIDE DEF q, r
  <2>3. /\ requests'[q] = Row("COMPLETED", v, NoVehicle, v)
        /\ requests'[r] = Row("PICKUP_STARTED", v, NoVehicle, v)
        /\ \A s \in Requests : s # q /\ s # r => requests'[s] = requests[s]
    BY <2>1, TypeParts
  <2>4. RideStep(q)
    BY <2>2, <2>3, RowFields DEF RideStep, Goes, KeepsVehicles
  <2>5. CommitStep(r)
    BY <2>1, <2>3, RowFields DEF CommitStep, WaitingStatus
  <2>6. \A s \in Requests : s # q /\ s # r => RideStep(s)
    BY <2>3 DEF RideStep, Goes, KeepsVehicles
  <2>7. QED
    BY <2>4, <2>5, <2>6 DEF RequestSteps
<1>5. CASE LegCompleted(v) /\ vehicles[v].leg.kind \notin {"PICKUP", "SERVICE"}
  BY <1>5, MovementOver, NoneSteps
<1>6. LegCompletedInvalidate(v) => vehicles[v].leg.kind = "SERVICE"
  BY Invalidated
<1>7. QED
  BY <1>2, <1>3, <1>4, <1>5, <1>6

LEMMA GivenUpSteps ==
  ASSUME TypeOK, RecordsFit, NEW r \in Requests, requests[r].status = "RESERVED",
         ReleaseReservationState(r)
  PROVE  RequestSteps
<1>1. requests' = [requests EXCEPT ![r] =
                     Row("PENDING", requests[r].assigned, NoVehicle, requests[r].econ)]
  BY GivenUp
<1>2. requests'[r] = Row("PENDING", requests[r].assigned, NoVehicle, requests[r].econ)
        /\ \A s \in Requests : s # r => requests'[s] = requests[s]
  BY <1>1, TypeParts
<1>3. WaitStep(r)
  BY <1>2, RowFields DEF WaitStep, WaitingStatus, HoldStep
<1>4. QED
  BY <1>2, <1>3, OneSteps

LEMMA AnswerSteps ==
  ASSUME TypeOK, Ordered, RecordsFit, NEW o \in offers,
         \/ ResponseTimeout(o) \/ VehicleNotWaiting(o) \/ DriverRejects(o)
         \/ InsertsTooLate(o) \/ AcceptsReservation(o) \/ AcceptsAssignment(o)
  PROVE  RequestSteps
<1> DEFINE r == o.request
           v == o.vehicle
<1>1. Respond(o)
  BY DEF ResponseTimeout, VehicleNotWaiting, DriverRejects, InsertsTooLate,
         AcceptsReservation, AcceptsAssignment
<1>2. /\ r \in Requests /\ v \in Vehicles /\ requests[r].status = "OFFERED"
      /\ requests[r].reserved = NoVehicle /\ vehicles[v].reserved = NoRequest
  BY <1>1, Answered
<1>3. CASE ResponseTimeout(o) \/ VehicleNotWaiting(o) \/ DriverRejects(o) \/ InsertsTooLate(o)
  <2>1. BackToPending(o)
    BY <1>3 DEF ResponseTimeout, VehicleNotWaiting, DriverRejects, InsertsTooLate
  <2>2. /\ requests'[r].status = "PENDING" /\ requests'[r].assigned = requests[r].assigned
        /\ requests'[r].reserved = NoVehicle
        /\ \A s \in Requests : s # r => requests'[s] = requests[s]
    BY <1>1, <2>1, TurnedDown
  <2> HIDE DEF r, v
  <2>3. WaitStep(r)
    BY <1>2, <2>2 DEF WaitStep, WaitingStatus, HoldStep
  <2>4. QED
    BY <1>2, <2>2, <2>3, OneSteps
<1>4. CASE AcceptsReservation(o)
  <2>1. /\ requests'[r].status = "RESERVED" /\ requests'[r].assigned = requests[r].assigned
        /\ requests'[r].reserved = v
        /\ \A s \in Requests : s # r => requests'[s] = requests[s]
    BY <1>4, AgreesToBeHeld
  <2> HIDE DEF r, v
  <2>2. WaitStep(r)
    BY <1>2, <2>1 DEF WaitStep, WaitingStatus, HoldStep
  <2>3. QED
    BY <1>2, <2>1, <2>2, OneSteps
<1>5. CASE AcceptsAssignment(o)
  <2>1. requests' = [requests EXCEPT ![r] = Row("PICKUP_STARTED", v, NoVehicle, v)]
    BY <1>5, Accepted
  <2> HIDE DEF r, v
  <2>2. requests'[r] = Row("PICKUP_STARTED", v, NoVehicle, v)
          /\ \A s \in Requests : s # r => requests'[s] = requests[s]
    BY <1>2, <2>1, TypeParts
  <2>3. CommitStep(r)
    BY <1>2, <2>2, RowFields DEF CommitStep, WaitingStatus
  <2>4. QED
    BY <1>2, <2>2, <2>3, OneSteps
<1>6. QED
  BY <1>3, <1>4, <1>5

LEMMA EpochSteps ==
  ASSUME TypeOK, Ordered, RecordsFit, NEW moved, NEW ride, NEW M, NEW P,
         Decision(moved, ride, M, P)
  PROVE  RequestSteps
<1> SUFFICES ASSUME NEW r \in Requests PROVE WaitStep(r) \/ CommitStep(r) \/ RideStep(r)
  BY DEF RequestSteps
<1>1. CASE requests'[r] = requests[r]
  BY <1>1 DEF RideStep, Goes, KeepsVehicles
<1>2. CASE /\ requests[r].status = "PENDING" /\ requests[r].reserved = NoVehicle
           /\ Decided(r, "CANCELLED", requests[r].assigned, NoVehicle, requests[r].econ)
  BY <1>2 DEF Decided, WaitStep, WaitingStatus, HoldStep
<1>3. ASSUME NEW e \in M \cup P, e.request = r,
             requests[r].status = "PENDING", requests[r].reserved = NoVehicle,
             \/ Decided(r, "OFFERED", requests[r].assigned, NoVehicle, e.vehicle)
             \/ Decided(r, "PENDING", requests[r].assigned, NoVehicle, e.vehicle)
             \/ Decided(r, "RAISED", requests[r].assigned, NoVehicle, e.vehicle)
             \/ Decided(r, "PICKUP_STARTED", e.vehicle, NoVehicle, e.vehicle)
             \/ Decided(r, "RESERVED", requests[r].assigned, e.vehicle, e.vehicle)
      PROVE  WaitStep(r) \/ CommitStep(r)
  <2>1. e.vehicle \in Vehicles /\ vehicles[e.vehicle].reserved = NoRequest
    BY <1>3, EpochEdges
  <2>2. CASE Decided(r, "PICKUP_STARTED", e.vehicle, NoVehicle, e.vehicle)
    BY <1>3, <2>1, <2>2 DEF Decided, CommitStep, WaitingStatus
  <2>3. CASE Decided(r, "RESERVED", requests[r].assigned, e.vehicle, e.vehicle)
    BY <1>3, <2>1, <2>3 DEF Decided, WaitStep, WaitingStatus, HoldStep
  <2>4. QED
    BY <1>3, <2>2, <2>3 DEF Decided, WaitStep, WaitingStatus, HoldStep
<1>4. QED
  BY <1>1, <1>2, <1>3, RequestCases

LEMMA FinalizeSteps ==
  ASSUME TypeOK, RecordsFit, Finalize
  PROVE  RequestSteps
<1> SUFFICES ASSUME NEW r \in Requests PROVE WaitStep(r) \/ CommitStep(r) \/ RideStep(r)
  BY DEF RequestSteps
<1>1. CASE requests[r].status \in WaitingStatus
  BY <1>1, FinalizeRequests DEF WaitStep, WaitingStatus, HoldStep
<1>2. CASE requests[r].status \notin WaitingStatus
  BY <1>2, FinalizeRequests DEF WaitingStatus, RideStep, Goes, KeepsVehicles
<1>3. QED
  BY <1>1, <1>2

LEMMA NextSteps ==
  ASSUME TypeOK, Ordered, RecordsFit, Next
  PROVE  RequestSteps
<1>1. ASSUME NEW r \in Requests, RequestRevealed(r) PROVE RequestSteps
  <2>1. /\ Goes(r, "UNREVEALED", "PENDING") /\ KeepsVehicles(r)
        /\ \A s \in Requests : s # r => requests'[s] = requests[s]
    BY <1>1, Revealed DEF Goes, KeepsVehicles
  <2>2. QED
    BY <2>1, OneSteps DEF RideStep
<1>2. ASSUME NEW v \in Vehicles, SessionStart(v) \/ SessionEnd(v) PROVE RequestSteps
  BY <1>2, NoneSteps DEF SessionStart, SessionEnd, SessionEvent
<1>3. ASSUME NEW r \in Requests, ReservationExpired(r) PROVE RequestSteps
  <2>1. HoldFits(r) /\ book[r] # NoVehicle
    BY <1>3 DEF RecordsFit, ReservationExpired
  <2>2. requests[r].status = "RESERVED"
    BY <2>1 DEF HoldFits
  <2>3. QED
    BY <1>3, <2>2, GivenUpSteps DEF ReservationExpired
<1>4. ASSUME NEW r \in Requests, StaleReservationExpiry(r) PROVE RequestSteps
  BY <1>4, NoneSteps DEF StaleReservationExpiry
<1>5. ASSUME NEW r \in Requests, PlanInvalidated(r) PROVE RequestSteps
  <2>1. SimulationEvent(clock', "PLAN_INVALIDATED", r) \in events
    BY <1>5, Popped DEF PlanInvalidated
  <2>2. requests[r].status = "RESERVED"
    BY <2>1, EventFields DEF RecordsFit, StrandedFits
  <2>3. QED
    BY <1>5, <2>2, GivenUpSteps DEF PlanInvalidated
<1>6. CASE DecisionEpoch
  BY <1>6, EpochDecides, EpochSteps
<1>7. CASE Finalize \/ Returned
  BY <1>7, FinalizeSteps, NoneSteps DEF Returned, vars
<1>8. CASE \E v \in Vehicles : LegCompleted(v) \/ LegCompletedPromote(v)
                                                \/ LegCompletedInvalidate(v)
  BY <1>8, LegEndSteps
<1>9. CASE \E o \in offers :
        \/ ResponseTimeout(o) \/ VehicleNotWaiting(o) \/ DriverRejects(o)
        \/ InsertsTooLate(o) \/ AcceptsReservation(o) \/ AcceptsAssignment(o)
  BY <1>9, AnswerSteps
<1>10. QED
  BY <1>1, <1>2, <1>3, <1>4, <1>5, <1>6, <1>7, <1>8, <1>9 DEF Next

-----------------------------------------------------------------------------
(* The reservation pointers: a vehicle is held for one request.            *)
HeldOnce ==
  \A r, s \in Requests :
    requests[r].reserved = requests[s].reserved /\ requests[r].reserved # NoVehicle => r = s

LEMMA PointerTypes ==
  ASSUME TypeOK, NEW r \in Requests
  PROVE  /\ requests[r].status \in RequestStatus
         /\ requests[r].assigned \in Vehicles \cup {NoVehicle}
         /\ requests[r].reserved \in Vehicles \cup {NoVehicle}
<1>1. requests[r] \in RequestRecord
  BY TypeParts
<1>2. QED
  BY <1>1 DEF RequestRecord

LEMMA HoldsOnce ==
  ASSUME TypeOK, RecordsFit
  PROVE  HeldOnce
<1> SUFFICES ASSUME NEW r \in Requests, NEW s \in Requests,
                    requests[r].reserved = requests[s].reserved, requests[r].reserved # NoVehicle
             PROVE  r = s
  BY DEF HeldOnce
<1>1. requests[r].reserved \in Vehicles
  BY PointerTypes
<1>2. HoldFits(r) /\ HoldFits(s)
  BY DEF RecordsFit
<1>3. QED
  BY <1>1, <1>2 DEF HoldFits

LEMMA EpochHoldsOnce ==
  ASSUME TypeOK, Ordered, RecordsFit, NEW moved, NEW ride, NEW M, NEW P,
         Decision(moved, ride, M, P)
  PROVE  HeldOnce'
<1>1. ASSUME NEW r \in Requests, requests'[r].reserved # NoVehicle
      PROVE  \/ requests'[r].reserved = requests[r].reserved
             \/ \E e \in OfAVs(P) : e.request = r /\ e.vehicle = requests'[r].reserved
  BY <1>1, RequestCases DEF Decided
<1>2. \A e \in OfAVs(P) : /\ e.vehicle \in Vehicles /\ vehicles[e.vehicle].reserved = NoRequest
                          /\ \A f \in OfAVs(P) : e.vehicle = f.vehicle => e = f
  <2>1. OfAVs(P) \subseteq P /\ OfAVs(P) \subseteq Queued(P)
    BY KindsAssumption DEF OfAVs, Queued, TooLate
  <2>2. QED
    BY <2>1, EpochEdges
<1>3. \A r \in Requests : \A v \in Vehicles :
        requests[r].reserved = v => vehicles[v].reserved = r /\ r # NoRequest
  BY KindsAssumption DEF RecordsFit, HoldFits
<1>4. HeldOnce
  BY HoldsOnce
<1>5. SUFFICES ASSUME NEW r \in Requests, NEW s \in Requests, requests'[r].reserved # NoVehicle,
                      requests'[r].reserved = requests'[s].reserved
               PROVE  r = s
  BY DEF HeldOnce
<1>6. CASE requests'[r].reserved = requests[r].reserved /\ requests'[s].reserved = requests[s].reserved
  BY <1>4, <1>5, <1>6 DEF HeldOnce
<1>7. CASE /\ \E e \in OfAVs(P) : e.request = r /\ e.vehicle = requests'[r].reserved
           /\ \E e \in OfAVs(P) : e.request = s /\ e.vehicle = requests'[s].reserved
  BY <1>2, <1>5, <1>7
<1>8. CASE /\ requests'[r].reserved = requests[r].reserved
           /\ \E e \in OfAVs(P) : e.request = s /\ e.vehicle = requests'[s].reserved
  BY <1>2, <1>3, <1>5, <1>8
<1>9. CASE /\ requests'[s].reserved = requests[s].reserved
           /\ \E e \in OfAVs(P) : e.request = r /\ e.vehicle = requests'[r].reserved
  BY <1>2, <1>3, <1>5, <1>9
<1>10. QED
  BY <1>1, <1>5, <1>6, <1>7, <1>8, <1>9

LEMMA NextHoldsOnce ==
  ASSUME TypeOK, TypeOK', Ordered, RecordsFit, AnswersPrecedeEpochs, Next
  PROVE  HeldOnce'
<1>1. CASE RecordsFit'
  <2>1. ASSUME NEW r \in Requests, NEW s \in Requests,
               requests'[r].reserved = requests'[s].reserved, requests'[r].reserved # NoVehicle
        PROVE  r = s
    <3>1. requests'[r].reserved \in Vehicles
      <4>1. requests'[r] \in RequestRecord
        BY DEF TypeOK
      <4>2. QED
        BY <2>1, <4>1 DEF RequestRecord
    <3>2. HoldFits(r)' /\ HoldFits(s)'
      BY <1>1 DEF RecordsFit
    <3>3. QED
      BY <2>1, <3>1, <3>2 DEF HoldFits
  <2>2. QED
    BY <2>1 DEF HeldOnce
<1>2. CASE DecisionEpoch
  BY <1>2, EpochDecides, EpochHoldsOnce
<1>3. CASE Finalize
  <2>1. \A r \in Requests : requests'[r].reserved = requests[r].reserved
    BY <1>3, FinalizeRequests
  <2>2. QED
    BY <2>1, HoldsOnce DEF HeldOnce
<1>4. CASE UNCHANGED vars
  BY <1>4, HoldsOnce DEF HeldOnce, vars
<1>5. QED
  BY <1>1, <1>2, <1>3, <1>4, StepFits

(* One event on the book: a vehicle that is given to a request was held    *)
(* for none.                                                               *)
LEMMA PointersStep ==
  ASSUME TypeOK, TypeOK', Ordered, Agreed, AnswersPrecedeEpochs, [Next]_vars
  PROVE  [Pointers!Next]_([r \in Requests |-> requests[r].reserved])
<1> DEFINE h == [r \in Requests |-> requests[r].reserved]
           g == [r \in Requests |-> requests'[r].reserved]
<1>1. h' = g
  OBVIOUS
<1>2. CASE UNCHANGED vars
  BY <1>2 DEF vars
<1>3. CASE Next /\ ~Live
  BY <1>3, StoppedStays DEF vars
<1>4. CASE Next /\ Live
  <2>1. RecordsFit
    BY <1>4 DEF Agreed
  <2>2. \A r \in Requests : h[r] = requests[r].reserved /\ g[r] = requests'[r].reserved
    OBVIOUS
  <2>3. g \in [Requests -> Vehicles \cup {NoVehicle}]
    <3>1. \A r \in Requests : requests'[r] \in RequestRecord
      BY DEF TypeOK
    <3>2. QED
      BY <3>1 DEF RequestRecord
  <2>4. \A r, s \in Requests : g[r] = g[s] /\ g[r] # NoVehicle => r = s
    <3>1. HeldOnce'
      BY <1>4, <2>1, NextHoldsOnce
    <3>2. QED
      BY <2>2, <3>1 DEF HeldOnce
  <2>5. RequestSteps
    BY <1>4, <2>1, NextSteps
  <2>6. ASSUME NEW r \in Requests
        PROVE  \/ g[r] = h[r] \/ g[r] = NoVehicle
               \/ /\ h[r] = NoVehicle /\ g[r] \in Vehicles
                  /\ vehicles[g[r]].reserved = NoRequest
    BY <2>2, <2>5 DEF RequestSteps, WaitStep, CommitStep, RideStep, KeepsVehicles, HoldStep
  <2>7. ASSUME NEW r \in Requests, NEW s \in Requests, g[r] = h[s], g[r] # NoVehicle
        PROVE  r = s
    <3>1. g[r] \in Vehicles
      BY <2>3, <2>7
    <3>2. vehicles[g[r]].reserved = s /\ s # NoRequest
      BY <2>1, <2>2, <2>7, <3>1, KindsAssumption DEF RecordsFit, HoldFits
    <3>3. g[r] = h[r]
      BY <2>6, <2>7, <3>2
    <3>4. HeldOnce
      BY <2>1, HoldsOnce
    <3>5. QED
      BY <2>2, <2>7, <3>3, <3>4 DEF HeldOnce
  <2> HIDE DEF g, h
  <2>8. /\ g \in [Requests -> Vehicles \cup {NoVehicle}]
        /\ \A r, s \in Requests : g[r] = g[s] /\ g[r] # NoVehicle => r = s
        /\ \A r \in Requests : g[r] = h[r] \/ g[r] = NoVehicle \/ h[r] = NoVehicle
        /\ \A r, s \in Requests : g[r] = h[s] /\ g[r] # NoVehicle => r = s
        /\ h' = g
    BY <1>1, <2>3, <2>4, <2>6, <2>7
  <2>9. Pointers!Next
    BY <2>8 DEF Pointers!Next, Pointers!Exclusive, h
  <2>10. QED
    BY <2>9
<1>5. QED
  BY <1>2, <1>3, <1>4

(* The vehicle pointers of the requests implement the reservation book: no *)
(* event gives a vehicle to one request before the request that held it    *)
(* has let it go.                                                          *)
THEOREM PointersImplementBook ==
  ASSUME AnswersPrecedeEpochs
  PROVE  Spec => PointersSpec
<1>1. Init => TypeOK /\ Ordered /\ Agreed
  BY InitType, InitOrdered, InitAgrees
<1>2. TypeOK /\ Ordered /\ Agreed /\ [Next]_vars => (TypeOK /\ Ordered /\ Agreed)'
  BY NextType, NextOrdered, NextAgrees
<1>3. Init => Pointers!Init
  BY DEF Init, Pointers!Init
<1>4. TypeOK /\ TypeOK' /\ Ordered /\ Agreed /\ [Next]_vars => [Pointers!Next]_([r \in Requests |-> requests[r].reserved])
  BY PointersStep
<1>5. QED
  BY <1>1, <1>2, <1>3, <1>4, PTL DEF Spec, PointersSpec, Pointers!Spec

-----------------------------------------------------------------------------
(* The passenger's view: the phase a request is in, by its status.         *)
PhaseOf(q) ==
  CASE q.status = "UNREVEALED" -> "hidden"
    [] q.status \in {"PENDING", "OFFERED", "RESERVED"} -> "waiting"
    [] q.status \in {"ASSIGNED", "PICKUP_STARTED"} -> "committed"
    [] q.status \in {"BOARDED", "IN_SERVICE"} -> "aboard"
    [] q.status = "COMPLETED" -> "served"
    [] OTHER -> "lost"

LEMMA Phases ==
  ASSUME NEW q
  PROVE  /\ q.status = "UNREVEALED" => PhaseOf(q) = "hidden"
         /\ q.status \in WaitingStatus => PhaseOf(q) = "waiting"
         /\ q.status = "PICKUP_STARTED" => PhaseOf(q) = "committed"
         /\ q.status = "IN_SERVICE" => PhaseOf(q) = "aboard"
         /\ q.status = "COMPLETED" => PhaseOf(q) = "served"
         /\ q.status \in {"CANCELLED", "RAISED"} => PhaseOf(q) = "lost"
         /\ PhaseOf(q) \in {"hidden", "waiting", "committed", "aboard", "served", "lost"}
         /\ PhaseOf(q) \in {"committed", "aboard"} =>
              q.status \in {"ASSIGNED", "PICKUP_STARTED", "BOARDED", "IN_SERVICE"}
  BY DEF PhaseOf, WaitingStatus

(* The step the service sees of a request, by the phase and the vehicle    *)
(* before and after: the actions of RideService.                           *)
Serves(p, q, a, b) ==
  \/ p = "hidden" /\ q = "waiting" /\ b = a
  \/ p = "waiting" /\ q = "committed" /\ b \in Vehicles
  \/ p = "waiting" /\ q = "lost" /\ b = a
  \/ p = "committed" /\ q = "aboard" /\ b = a
  \/ p = "aboard" /\ q = "served" /\ b = a
  \/ q = p /\ b = a

LEMMA ServedStep ==
  ASSUME NEW r \in Requests, WaitStep(r) \/ CommitStep(r) \/ RideStep(r)
  PROVE  Serves(PhaseOf(requests[r]), PhaseOf(requests'[r]),
                requests[r].assigned, requests'[r].assigned)
<1> DEFINE x == requests[r]
           y == requests'[r]
<1> HIDE DEF x, y
<1>1. CASE WaitStep(r)
  <2>1. x.status \in WaitingStatus /\ y.status \in WaitingStatus \cup {"CANCELLED", "RAISED"}
          /\ y.assigned = x.assigned
    BY <1>1 DEF WaitStep, x, y
  <2>2. PhaseOf(x) = "waiting" /\ PhaseOf(y) \in {"waiting", "lost"}
    BY <2>1, Phases
  <2>3. QED
    BY <2>1, <2>2 DEF Serves, x, y
<1>2. CASE CommitStep(r)
  <2>1. x.status \in WaitingStatus /\ y.status = "PICKUP_STARTED" /\ y.assigned \in Vehicles
    BY <1>2 DEF CommitStep, x, y
  <2>2. PhaseOf(x) = "waiting" /\ PhaseOf(y) = "committed"
    BY <2>1, Phases
  <2>3. QED
    BY <2>1, <2>2 DEF Serves, x, y
<1>3. CASE RideStep(r)
  <2>1. /\ y.assigned = x.assigned
        /\ \/ x.status = "UNREVEALED" /\ y.status = "PENDING"
           \/ x.status = "PICKUP_STARTED" /\ y.status = "IN_SERVICE"
           \/ x.status = "IN_SERVICE" /\ y.status = "COMPLETED"
           \/ y.status = x.status
    BY <1>3 DEF RideStep, Goes, KeepsVehicles, x, y
  <2>2. "PENDING" \in WaitingStatus
    BY DEF WaitingStatus
  <2>3. \/ PhaseOf(x) = "hidden" /\ PhaseOf(y) = "waiting"
        \/ PhaseOf(x) = "committed" /\ PhaseOf(y) = "aboard"
        \/ PhaseOf(x) = "aboard" /\ PhaseOf(y) = "served"
        \/ PhaseOf(y) = PhaseOf(x)
    <3>1. y.status = x.status => PhaseOf(y) = PhaseOf(x)
      BY DEF PhaseOf
    <3>2. QED
      BY <2>1, <2>2, <3>1, Phases
  <2>4. QED
    BY <2>1, <2>3 DEF Serves, x, y
<1>4. QED
  BY <1>1, <1>2, <1>3

(* No vehicle carries two passengers at once.                              *)
LEMMA CarriesOne ==
  ASSUME OneVehiclePerRide', NEW r \in Requests, NEW s \in Requests,
         PhaseOf(requests'[r]) \in {"committed", "aboard"},
         PhaseOf(requests'[s]) \in {"committed", "aboard"},
         requests'[r].assigned = requests'[s].assigned
  PROVE  r = s
<1>1. ASSUME NEW q \in Requests, PhaseOf(requests'[q]) \in {"committed", "aboard"}
      PROVE  \E v \in Vehicles : /\ vehicles'[v].leg.request = q
                                 /\ requests'[q].assigned = v
  <2>1. requests'[q].status \in {"PICKUP_STARTED", "IN_SERVICE"}
    BY <1>1, Phases DEF OneVehiclePerRide
  <2>2. QED
    BY <2>1 DEF OneVehiclePerRide, OnLeg
<1>2. QED
  BY <1>1

LEMMA ServiceStep ==
  ASSUME TypeOK, TypeOK', Ordered, Ordered', Agreed, AnswersPrecedeEpochs, [Next]_vars
  PROVE  [Service!Next]_(<<[r \in Requests |->
                              CASE requests[r].status = "UNREVEALED" -> "hidden"
                                [] requests[r].status \in {"PENDING", "OFFERED", "RESERVED"} -> "waiting"
                                [] requests[r].status \in {"ASSIGNED", "PICKUP_STARTED"} -> "committed"
                                [] requests[r].status \in {"BOARDED", "IN_SERVICE"} -> "aboard"
                                [] requests[r].status = "COMPLETED" -> "served"
                                [] OTHER -> "lost"],
                           [r \in Requests |-> requests[r].assigned]>>)
<1>1. CASE UNCHANGED vars
  BY <1>1 DEF vars
<1>2. CASE Next /\ ~Live
  BY <1>2, StoppedStays DEF vars
<1>3. CASE Next /\ Live
  <2> DEFINE p == [r \in Requests |-> PhaseOf(requests[r])]
             q == [r \in Requests |-> PhaseOf(requests'[r])]
             a == [r \in Requests |-> requests[r].assigned]
             b == [r \in Requests |-> requests'[r].assigned]
  <2>1. RequestSteps
    BY <1>3, NextSteps DEF Agreed
  <2>2. OneVehiclePerRide'
    <3>1. Agreed'
      BY NextAgrees
    <3>2. QED
      BY <3>1 DEF Agreed
  <2>3. q \in [Requests -> Service!Phase]
    BY Phases DEF Service!Phase
  <2>4. b \in [Requests -> Vehicles \cup {NoVehicle}]
    <3>1. \A r \in Requests : requests'[r] \in RequestRecord
      BY DEF TypeOK
    <3>2. QED
      BY <3>1 DEF RequestRecord
  <2>5. \A r \in Requests : Serves(p[r], q[r], a[r], b[r])
    BY <2>1, ServedStep DEF RequestSteps
  <2>6. ASSUME NEW r \in Requests, NEW s \in Requests, q[r] \in {"committed", "aboard"},
               q[s] \in {"committed", "aboard"}, b[r] = b[s]
        PROVE  r = s
    BY <2>2, <2>6, CarriesOne
  <2>7. Service!Next
    BY <2>3, <2>4, <2>5, <2>6 DEF PhaseOf, Serves, Service!Next, Service!Riding, Service!Reveal,
          Service!Commit, Service!Lose, Service!Board, Service!Deliver, Service!Rest, Service!Keeps
  <2>8. QED
    BY <2>7
<1>4. QED
  BY <1>1, <1>2, <1>3

(* The engine implements the ride service: whatever offers, rejections and *)
(* reservations come and go, a passenger waits until one vehicle commits,  *)
(* is carried by that vehicle and no other, and is delivered.              *)
THEOREM EngineImplementsService ==
  ASSUME AnswersPrecedeEpochs
  PROVE  Spec => ServiceSpec
<1>1. Init => TypeOK /\ Ordered /\ Agreed
  BY InitType, InitOrdered, InitAgrees
<1>2. TypeOK /\ Ordered /\ Agreed /\ [Next]_vars => (TypeOK /\ Ordered /\ Agreed)'
  BY NextType, NextOrdered, NextAgrees
<1>3. Init => Service!Init
  <2>1. Init => \A r \in Requests : requests[r].status = "UNREVEALED"
                                     /\ requests[r].assigned = NoVehicle
    BY DEF Init
  <2>2. QED
    BY <2>1, Zenon DEF Service!Init
<1>4. TypeOK /\ TypeOK' /\ Ordered /\ Ordered' /\ Agreed /\ [Next]_vars =>
        [Service!Next]_(<<[r \in Requests |->
                            CASE requests[r].status = "UNREVEALED" -> "hidden"
                              [] requests[r].status \in {"PENDING", "OFFERED", "RESERVED"} -> "waiting"
                              [] requests[r].status \in {"ASSIGNED", "PICKUP_STARTED"} -> "committed"
                              [] requests[r].status \in {"BOARDED", "IN_SERVICE"} -> "aboard"
                              [] requests[r].status = "COMPLETED" -> "served"
                              [] OTHER -> "lost"],
                         [r \in Requests |-> requests[r].assigned]>>)
  BY ServiceStep
<1>5. QED
  BY <1>1, <1>2, <1>3, <1>4, PTL DEF Spec, ServiceSpec, Service!Spec

-----------------------------------------------------------------------------
(* The event a step handles, and what it leaves of the queue and of the    *)
(* open offers: only an epoch makes offers.                                *)
Handled(kind, id) ==
  /\ Pop(kind, id) /\ Leaves(kind, id, PushedKinds)
  /\ \/ DecisionEpoch /\ kind = "DECISION_EPOCH"
     \/ /\ kind # "DECISION_EPOCH" /\ offers' \subseteq offers
        /\ \A e \in events' : e.kind = "DRIVER_RESPONSE" => e \in events

LEMMA PushHandled ==
  ASSUME NEW kind, NEW id, Pop(kind, id), kind # "DECISION_EPOCH", offers' \subseteq offers,
         NEW S, events' = Rest(kind, id) \cup S,
         \A e \in S : e.kind \in {"LEG_COMPLETED", "RESERVATION_EXPIRED", "PLAN_INVALIDATED"}
  PROVE  Handled(kind, id)
<1>1. Rest(kind, id) \subseteq events
  BY DEF Rest
<1>2. QED
  BY <1>1 DEF Handled, Leaves, PushedKinds

LEMMA NoPushHandled ==
  ASSUME NEW kind, NEW id, Pop(kind, id), kind # "DECISION_EPOCH", offers' \subseteq offers,
         events' = Rest(kind, id)
  PROVE  Handled(kind, id)
  BY DEF Handled, Leaves, Rest

Completes(v) == LegCompleted(v) \/ LegCompletedPromote(v) \/ LegCompletedInvalidate(v)

Answers(o) ==
  \/ ResponseTimeout(o) \/ VehicleNotWaiting(o) \/ DriverRejects(o)
  \/ InsertsTooLate(o) \/ AcceptsReservation(o) \/ AcceptsAssignment(o)

(* The handler of each event.                                              *)
LEMMA HandlersHandle ==
  /\ \A r \in Requests : RequestRevealed(r) => Handled("REQUEST_REVEALED", r)
  /\ \A v \in Vehicles : SessionStart(v) => Handled("HV_SESSION_START", v)
  /\ \A v \in Vehicles : SessionEnd(v) => Handled("HV_SESSION_END", v)
  /\ \A v \in Vehicles : Completes(v) => Handled("LEG_COMPLETED", v)
  /\ \A r \in Requests : ReservationExpired(r) \/ StaleReservationExpiry(r)
                           => Handled("RESERVATION_EXPIRED", r)
  /\ \A r \in Requests : PlanInvalidated(r) => Handled("PLAN_INVALIDATED", r)
  /\ \A o \in offers : Answers(o) => Handled("DRIVER_RESPONSE", <<o.request, o.vehicle>>)
  /\ DecisionEpoch => Handled("DECISION_EPOCH", FleetController)
<1>1. ASSUME NEW r \in Requests, RequestRevealed(r) PROVE Handled("REQUEST_REVEALED", r)
  BY <1>1, NoPushHandled DEF RequestRevealed
<1>2. ASSUME NEW v \in Vehicles, SessionStart(v) PROVE Handled("HV_SESSION_START", v)
  BY <1>2, NoPushHandled DEF SessionStart, SessionEvent
<1>3. ASSUME NEW v \in Vehicles, SessionEnd(v) PROVE Handled("HV_SESSION_END", v)
  BY <1>3, NoPushHandled DEF SessionEnd, SessionEvent
<1>4. ASSUME NEW v \in Vehicles,
             LegCompleted(v) \/ LegCompletedPromote(v) \/ LegCompletedInvalidate(v)
      PROVE  Handled("LEG_COMPLETED", v)
  <2>1. Pop("LEG_COMPLETED", v) /\ offers' \subseteq offers
    BY <1>4 DEF LegCompleted, LegCompletedPromote, LegCompletedInvalidate, LegEnds
  <2>2. CASE LegCompletedInvalidate(v)
    <3> DEFINE cleanup == SimulationEvent(clock', "PLAN_INVALIDATED", vehicles[v].reserved)
    <3>1. events' = Rest("LEG_COMPLETED", v) \cup {cleanup}
      BY <2>2 DEF LegCompletedInvalidate
    <3>2. cleanup.kind = "PLAN_INVALIDATED"
      BY EventFields
    <3> HIDE DEF cleanup
    <3>3. QED
      BY <2>1, <3>1, <3>2, PushHandled
  <2>3. CASE LegCompleted(v) \/ LegCompletedPromote(v)
    <3>1. events' = Rest("LEG_COMPLETED", v) \cup NextLegEvent(v)
      BY <2>3 DEF LegCompleted, LegCompletedPromote
    <3>2. \A e \in NextLegEvent(v) : e.kind = "LEG_COMPLETED"
      BY EventFields DEF NextLegEvent, LegEvent
    <3>3. QED
      BY <2>1, <3>1, <3>2, PushHandled
  <2>4. QED
    BY <1>4, <2>2, <2>3
<1>5. ASSUME NEW r \in Requests, ReservationExpired(r) \/ StaleReservationExpiry(r)
      PROVE  Handled("RESERVATION_EXPIRED", r)
  BY <1>5, NoPushHandled DEF ReservationExpired, StaleReservationExpiry
<1>6. ASSUME NEW r \in Requests, PlanInvalidated(r) PROVE Handled("PLAN_INVALIDATED", r)
  BY <1>6, NoPushHandled DEF PlanInvalidated
<1>7. ASSUME NEW o \in offers,
             \/ ResponseTimeout(o) \/ VehicleNotWaiting(o) \/ DriverRejects(o)
             \/ InsertsTooLate(o) \/ AcceptsReservation(o) \/ AcceptsAssignment(o)
      PROVE  Handled("DRIVER_RESPONSE", <<o.request, o.vehicle>>)
  <2> DEFINE id == <<o.request, o.vehicle>>
  <2>1. Respond(o)
    BY <1>7 DEF ResponseTimeout, VehicleNotWaiting, DriverRejects, InsertsTooLate,
           AcceptsReservation, AcceptsAssignment
  <2>2. Pop("DRIVER_RESPONSE", id) /\ offers' \subseteq offers
    BY <2>1 DEF Respond
  <2>3. CASE ResponseTimeout(o) \/ VehicleNotWaiting(o) \/ DriverRejects(o) \/ InsertsTooLate(o)
    <3>1. events' = Rest("DRIVER_RESPONSE", id)
      BY <2>3 DEF ResponseTimeout, VehicleNotWaiting, DriverRejects, InsertsTooLate,
             BackToPending, OnlyResponse
    <3> HIDE DEF id
    <3>2. QED
      BY <2>2, <3>1, NoPushHandled DEF id
  <2>4. CASE AcceptsReservation(o)
    <3> DEFINE expiry == SimulationEvent(LatestPickup[o.request], "RESERVATION_EXPIRED", o.request)
    <3>1. events' = Rest("DRIVER_RESPONSE", id) \cup {expiry}
      BY <2>4 DEF AcceptsReservation
    <3>2. expiry.kind = "RESERVATION_EXPIRED"
      BY EventFields
    <3> HIDE DEF expiry, id
    <3>3. QED
      BY <2>2, <3>1, <3>2, PushHandled DEF id
  <2>5. CASE AcceptsAssignment(o)
    <3> DEFINE begun == LegEvent(o.vehicle, vehicles'[o.vehicle])
    <3>1. events' = Rest("DRIVER_RESPONSE", id) \cup {begun}
      BY <2>5 DEF AcceptsAssignment
    <3>2. begun.kind = "LEG_COMPLETED"
      BY EventFields DEF LegEvent
    <3> HIDE DEF begun, id
    <3>3. QED
      BY <2>2, <3>1, <3>2, PushHandled DEF id
  <2>6. QED
    BY <1>7, <2>3, <2>4, <2>5
<1>8. ASSUME DecisionEpoch PROVE Handled("DECISION_EPOCH", FleetController)
  <2>1. PICK moved, ride, M, P : Decision(moved, ride, M, P)
    BY <1>8, EpochDecides
  <2>2. /\ Leaves("DECISION_EPOCH", FleetController, EpochKinds) /\ EpochKinds \subseteq PushedKinds
        /\ Pop("DECISION_EPOCH", FleetController)
    BY <2>1, EpochLeaves DEF Decision
  <2>3. QED
    BY <1>8, <2>2 DEF Handled, Leaves
<1>9. QED
  BY <1>1, <1>2, <1>3, <1>4, <1>5, <1>6, <1>7, <1>8 DEF Completes, Answers

LEMMA NextHandlesOne ==
  ASSUME Next
  PROVE  \/ \E kind, id : Handled(kind, id)
         \/ Finalize
         \/ UNCHANGED vars
<1>1. CASE Returned
  BY <1>1 DEF Returned
<1>2. QED
  BY <1>1, HandlersHandle DEF Next, Completes, Answers

-----------------------------------------------------------------------------
(* How a vehicle comes to its leg in one step: it keeps it, ends it, rides *)
(* on with the passenger it has reached, is sent to a passenger, or moves  *)
(* idle.  A vehicle is sent by its own epoch, by the answer to an ordinary *)
(* offer, or by the end of the ride it was held behind.                    *)
RidesOn(v) ==
  /\ vehicles[v].leg.kind = "PICKUP" /\ vehicles[v].leg.end = clock'
  /\ vehicles[v].leg.request \in Requests
  /\ vehicles'[v].leg.kind = "SERVICE"
  /\ vehicles'[v].leg.request = vehicles[v].leg.request
  /\ vehicles'[v].leg.end = clock' + Larger(MinLeg, RealizedService[vehicles[v].leg.request])

SentBy(v, r, eta) ==
  \/ v \in AVs /\ eta \in PickupEtas /\ Validate(v, r, clock', clock' + eta)
  \/ /\ v \in HVs /\ vehicles[v].status = "WAITING"
     /\ \E o \in offers : \E e \in events :
          /\ ~o.preassigned /\ o.request = r /\ o.vehicle = v /\ o.eta = eta
          /\ e.kind = "DRIVER_RESPONSE" /\ e.id = <<o.request, o.vehicle>> /\ e.at = clock'
  \/ /\ vehicles[v].leg.kind = "SERVICE" /\ eta \in PickupEtas
     /\ \E off \in SafeOffsets :
          /\ Larger(clock', clock' + off) + eta <= LatestPickup[r]
          /\ Larger(clock', clock' + off) + eta + PredictedService[r] <= OnlineEnd[v]

IsSent(v) ==
  \E r \in Requests, eta \in Nat :
    /\ vehicles'[v].leg.kind = "PICKUP" /\ vehicles'[v].leg.request = r
    /\ vehicles'[v].leg.end = clock' + Larger(MinLeg, eta)
    /\ SentBy(v, r, eta)

MovesIdle(v) ==
  /\ vehicles[v].status = "IDLE"
  /\ vehicles'[v].leg.kind \in {"HV_REPOSITION", "AV_REBALANCE"}

LegStep(v) ==
  \/ vehicles'[v].leg = vehicles[v].leg
  \/ vehicles'[v].leg = NoLeg
  \/ RidesOn(v)
  \/ IsSent(v)
  \/ MovesIdle(v)

LegSteps == \A v \in Vehicles : LegStep(v)

LEMMA OneLegSteps ==
  ASSUME TypeOK, NEW v \in Vehicles, NEW x, vehicles' = [vehicles EXCEPT ![v] = x],
         LegStep(v)
  PROVE  LegSteps
<1>1. \A w \in Vehicles : w # v => vehicles'[w] = vehicles[w]
  BY TypeParts
<1>2. QED
  BY <1>1 DEF LegSteps, LegStep

LEMMA SameLegSteps ==
  ASSUME \A v \in Vehicles : vehicles'[v].leg = vehicles[v].leg
  PROVE  LegSteps
  BY DEF LegSteps, LegStep

-----------------------------------------------------------------------------
LEMMA LegEndLegs ==
  ASSUME TypeOK, Ordered, RecordsFit, NEW v \in Vehicles,
         LegCompleted(v) \/ LegCompletedPromote(v) \/ LegCompletedInvalidate(v)
  PROVE  LegSteps
<1>1. LegEnds(v)
  BY DEF LegCompleted, LegCompletedPromote, LegCompletedInvalidate
<1>2. Released(v).leg = NoLeg
  BY ReleasedFields
<1>3. ASSUME vehicles' = [vehicles EXCEPT ![v] = Released(v)] PROVE LegSteps
  <2>1. vehicles'[v].leg = NoLeg
    BY <1>2, <1>3, TypeParts
  <2>2. QED
    BY <1>3, <2>1, OneLegSteps DEF LegStep
<1>4. CASE LegCompleted(v) /\ vehicles[v].leg.kind = "PICKUP"
  <2> DEFINE r == vehicles[v].leg.request
             started == Driving("SERVICE", "SERVICE", r,
                          clock' + Larger(MinLeg, RealizedService[r]), <<>>, NoRequest)
  <2>1. vehicles' = [vehicles EXCEPT ![v] = started] /\ r \in Requests
          /\ vehicles[v].leg.end = clock'
    BY <1>1, <1>4, LegEnding, PickedUp
  <2>2. /\ started.leg.kind = "SERVICE" /\ started.leg.request = r
        /\ started.leg.end = clock' + Larger(MinLeg, RealizedService[r])
    BY DrivingFields
  <2> HIDE DEF started
  <2>3. vehicles'[v] = started
    BY <2>1, TypeParts
  <2>4. RidesOn(v)
    BY <1>4, <2>1, <2>2, <2>3 DEF RidesOn
  <2>5. QED
    BY <2>1, <2>4, OneLegSteps DEF LegStep
<1>5. CASE LegCompleted(v) /\ vehicles[v].leg.kind # "PICKUP"
  BY <1>3, <1>5, DroppedOff, MovementOver
<1>6. CASE LegCompletedInvalidate(v)
  BY <1>3, <1>6, Invalidated
<1>7. CASE LegCompletedPromote(v)
  <2> DEFINE r == vehicles[v].reserved
  <2>1. r \in Requests /\ vehicles[v].leg.kind = "SERVICE"
    BY <1>7, Promoted
  <2>2. PICK off \in SafeOffsets, eta \in PickupEtas :
          LET x == Driving("PICKUP", "PICKUP", r, clock' + Larger(MinLeg, eta),
                           <<Stop("DROP_OFF", r)>>, NoRequest)
          IN  /\ Revalidates(v, Larger(clock', clock' + off) + eta)
              /\ vehicles' = [vehicles EXCEPT ![v] = x]
              /\ events' = Rest("LEG_COMPLETED", v) \cup {LegEvent(v, x)}
    BY <1>7, Promoted, Zenon
  <2> DEFINE started == Driving("PICKUP", "PICKUP", r, clock' + Larger(MinLeg, eta),
                                <<Stop("DROP_OFF", r)>>, NoRequest)
  <2>3. /\ started.leg.kind = "PICKUP" /\ started.leg.request = r
        /\ started.leg.end = clock' + Larger(MinLeg, eta)
    BY DrivingFields
  <2> HIDE DEF started
  <2>4. vehicles'[v] = started
    BY <2>2, TypeParts DEF started
  <2>5. SentBy(v, r, eta)
    BY <2>1, <2>2 DEF SentBy, Revalidates
  <2>6. eta \in Nat
    BY NumbersAreNatural
  <2>7. IsSent(v)
    BY <2>1, <2>3, <2>4, <2>5, <2>6 DEF IsSent
  <2>8. QED
    BY <2>2, <2>7, OneLegSteps DEF LegStep
<1>8. QED
  BY <1>4, <1>5, <1>6, <1>7

LEMMA AnswerLegs ==
  ASSUME TypeOK, Ordered, RecordsFit, NEW o \in offers,
         \/ ResponseTimeout(o) \/ VehicleNotWaiting(o) \/ DriverRejects(o)
         \/ InsertsTooLate(o) \/ AcceptsReservation(o) \/ AcceptsAssignment(o)
  PROVE  LegSteps
<1> DEFINE r == o.request
           v == o.vehicle
<1>1. Respond(o)
  BY DEF ResponseTimeout, VehicleNotWaiting, DriverRejects, InsertsTooLate,
         AcceptsReservation, AcceptsAssignment
<1>2. r \in Requests /\ v \in Vehicles /\ v \in HVs
  BY <1>1, Answered, TypeParts DEF OfferRecord
<1>3. vehicles \in [Vehicles -> VehicleRecord] /\ vehicles[v] \in VehicleRecord
  BY <1>2, TypeParts
<1>4. CASE \/ ResponseTimeout(o) \/ VehicleNotWaiting(o) \/ DriverRejects(o)
           \/ InsertsTooLate(o) \/ AcceptsReservation(o)
  <2> HIDE DEF v
  <2>1. \/ UNCHANGED vehicles
        \/ vehicles' = [vehicles EXCEPT ![v].status = Parked(v, clock')]
        \/ vehicles' = [vehicles EXCEPT ![v].reserved = r, ![v].plan = o.plan]
    BY <1>4 DEF ResponseTimeout, VehicleNotWaiting, DriverRejects, InsertsTooLate,
         AcceptsReservation, StopsWaiting, v
  <2> HIDE DEF r
  <2>2. \A w \in Vehicles : w # v => vehicles'[w] = vehicles[w]
    BY <1>2, <1>3, <2>1
  <2>3. vehicles'[v].leg = vehicles[v].leg
    BY <1>2, <1>3, <2>1 DEF VehicleRecord
  <2>4. \A w \in Vehicles : vehicles'[w].leg = vehicles[w].leg
    BY <2>2, <2>3
  <2>5. QED
    BY <2>4, SameLegSteps
<1>5. CASE AcceptsAssignment(o)
  <2> DEFINE started == Driving("PICKUP", "PICKUP", r, clock' + Larger(MinLeg, o.eta),
                                <<Stop("DROP_OFF", r)>>, NoRequest)
             e == SimulationEvent(clock', "DRIVER_RESPONSE", <<o.request, o.vehicle>>)
  <2>1. vehicles[v].status = "WAITING" /\ vehicles' = [vehicles EXCEPT ![v] = started]
    BY <1>5, Accepted
  <2>2. /\ started.leg.kind = "PICKUP" /\ started.leg.request = r
        /\ started.leg.end = clock' + Larger(MinLeg, o.eta)
    BY DrivingFields
  <2>3. ~o.preassigned /\ o.eta \in Nat /\ Pop("DRIVER_RESPONSE", <<o.request, o.vehicle>>)
    BY <1>1, <1>5, Answered DEF AcceptsAssignment, Respond
  <2>4. e \in events
    BY <2>3, Popped
  <2>5. e.kind = "DRIVER_RESPONSE" /\ e.id = <<o.request, o.vehicle>> /\ e.at = clock'
    BY EventFields
  <2> HIDE DEF started, e
  <2>6. vehicles'[v] = started
    BY <1>2, <2>1, TypeParts
  <2>7. SentBy(v, r, o.eta)
    BY <1>2, <2>1, <2>3, <2>4, <2>5 DEF SentBy
  <2>8. IsSent(v)
    BY <1>2, <2>2, <2>3, <2>6, <2>7 DEF IsSent
  <2>9. QED
    BY <1>2, <2>1, <2>8, OneLegSteps DEF LegStep
<1>6. QED
  BY <1>4, <1>5

LEMMA IdleMove ==
  ASSUME NEW moved, NEW ride, NEW M, NEW P, Decision(moved, ride, M, P)
  PROVE  /\ \A v \in moved : vehicles[v].status = "IDLE"
         /\ \A e \in M : vehicles[e.vehicle].status = "IDLE"
<1>1. moved \in IdleMovements /\ M \in Matchings(moved)
  BY DEF Decision
<1>2. \A v \in moved : v \in IdleVehicles
  BY <1>1 DEF IdleMovements, Rested
<1>3. \A e \in M : e.vehicle \in IdleVehicles
  BY <1>1 DEF Matchings, MatchEdges
<1>4. QED
  BY <1>2, <1>3 DEF IdleVehicles

LEMMA EpochLegSteps ==
  ASSUME TypeOK, Ordered, RecordsFit, NEW moved, NEW ride, NEW M, NEW P,
         Decision(moved, ride, M, P)
  PROVE  LegSteps
<1> SUFFICES ASSUME NEW v \in Vehicles PROVE LegStep(v)
  BY DEF LegSteps
<1>1. CASE v \in moved
  <2>1. PICK kind \in {"HV_REPOSITION", "AV_REBALANCE"} :
          vehicles'[v] =
            Driving(IF kind = "HV_REPOSITION" THEN "REPOSITIONING" ELSE "REBALANCING",
                    kind, NoRequest, clock' + Larger(MinLeg, ride[v]), <<>>, NoRequest)
    BY <1>1, EpochVehicles
  <2>2. vehicles'[v].leg.kind = kind
    BY <2>1, DrivingFields
  <2>3. QED
    BY <1>1, <2>2, IdleMove DEF LegStep, MovesIdle
<1>2. ASSUME NEW e \in OfAVs(M), e.vehicle = v PROVE LegStep(v)
  <2> DEFINE started == Driving("PICKUP", "PICKUP", e.request, clock' + Larger(MinLeg, e.eta),
                                <<Stop("DROP_OFF", e.request)>>, NoRequest)
  <2>1. vehicles'[v] = started
    BY <1>2, EpochVehicles
  <2>2. /\ started.leg.kind = "PICKUP" /\ started.leg.request = e.request
        /\ started.leg.end = clock' + Larger(MinLeg, e.eta)
    BY DrivingFields
  <2> HIDE DEF started
  <2>3. e \in M /\ v \in AVs
    BY <1>2 DEF OfAVs
  <2>4. /\ e.request \in Requests /\ e.eta \in PickupEtas
        /\ Validate(v, e.request, clock', clock' + e.eta)
    BY <1>2, <2>3, EpochEdges
  <2>5. e.eta \in Nat
    BY <2>4, NumbersAreNatural
  <2>6. SentBy(v, e.request, e.eta)
    BY <2>3, <2>4 DEF SentBy
  <2>7. IsSent(v)
    BY <2>1, <2>2, <2>4, <2>5, <2>6 DEF IsSent
  <2>8. QED
    BY <2>7 DEF LegStep
<1>3. CASE v \notin Departing(moved, M)
  BY <1>3, EpochLegs DEF LegStep
<1>4. QED
  BY <1>1, <1>2, <1>3 DEF Departing

LEMMA NextLegSteps ==
  ASSUME TypeOK, Ordered, RecordsFit, Next
  PROVE  LegSteps
<1>1. ASSUME NEW v \in Vehicles, SessionStart(v) \/ SessionEnd(v) PROVE LegSteps
  <2>1. PICK kind, status : SessionEvent(v, kind, status)
    BY <1>1 DEF SessionStart, SessionEnd
  <2>2. \A w \in Vehicles : vehicles[w] \in VehicleRecord
    BY TypeParts
  <2>3. \A w \in Vehicles : vehicles'[w].leg = vehicles[w].leg
    BY <2>1, <2>2, TypeParts DEF SessionEvent, VehicleRecord
  <2>4. QED
    BY <2>3, SameLegSteps
<1>2. ASSUME NEW r \in Requests, ReservationExpired(r) \/ PlanInvalidated(r) PROVE LegSteps
  <2>1. ReleaseReservationState(r)
    BY <1>2 DEF ReservationExpired, PlanInvalidated
  <2>2. \A w \in Vehicles : vehicles[w] \in VehicleRecord
    BY TypeParts
  <2>3. \A w \in Vehicles : vehicles'[w].leg = vehicles[w].leg
    BY <2>1, <2>2, TypeParts DEF ReleaseReservationState, VehicleRecord
  <2>4. QED
    BY <2>3, SameLegSteps
<1>3. ASSUME UNCHANGED vehicles PROVE LegSteps
  BY <1>3, SameLegSteps
<1>4. CASE \/ \E r \in Requests : RequestRevealed(r) \/ StaleReservationExpiry(r)
           \/ Finalize
           \/ Returned
  BY <1>3, <1>4 DEF RequestRevealed, StaleReservationExpiry, Finalize, Returned, vars
<1>5. CASE DecisionEpoch
  BY <1>5, EpochDecides, EpochLegSteps
<1>6. CASE \E v \in Vehicles : LegCompleted(v) \/ LegCompletedPromote(v)
                                                \/ LegCompletedInvalidate(v)
  BY <1>6, LegEndLegs
<1>7. CASE \E o \in offers :
        \/ ResponseTimeout(o) \/ VehicleNotWaiting(o) \/ DriverRejects(o)
        \/ InsertsTooLate(o) \/ AcceptsReservation(o) \/ AcceptsAssignment(o)
  BY <1>7, AnswerLegs
<1>8. QED
  BY <1>1, <1>2, <1>4, <1>5, <1>6, <1>7 DEF Next

-----------------------------------------------------------------------------
(* The scenarios reveal a request while it can still be picked up.         *)
RevealedInTime == \A r \in Requests : RequestTime[r] <= LatestPickup[r]

OpenStatus == {"UNREVEALED", "PENDING", "OFFERED", "RESERVED"}

LEMMA OpenBefore ==
  ASSUME RequestSteps, NEW r \in Requests, requests'[r].status \in OpenStatus
  PROVE  requests[r].status \in OpenStatus
<1>1. WaitStep(r) \/ CommitStep(r) \/ RideStep(r)
  BY DEF RequestSteps
<1>2. QED
  BY <1>1 DEF WaitStep, CommitStep, RideStep, Goes, WaitingStatus, OpenStatus

(* An epoch after the deadline of a request leaves it closed: its reveal   *)
(* and its expiry are behind, no offer is open, and patience is over.      *)
LEMMA PatienceEnds ==
  ASSUME TypeOK, Ordered, RecordsFit, RevealedInTime, NEW moved, NEW ride, NEW M, NEW P,
         Decision(moved, ride, M, P), NEW r \in Requests, clock' > LatestPickup[r]
  PROVE  requests'[r].status \notin OpenStatus
<1>1. RequestSteps
  BY EpochSteps
<1>2. Pop("DECISION_EPOCH", FleetController)
  BY DEF Decision
<1>3. offers = {} /\ Stranded = {}
  BY <1>2, NothingOutstanding
<1>4. LatestPickup[r] \in Nat /\ RequestTime[r] \in Nat /\ clock' \in Nat
  BY <1>2, NumbersAreNatural, Popped
<1>5. requests[r].status # "UNREVEALED"
  <2>1. SimulationEvent(RequestTime[r], "REQUEST_REVEALED", r) \notin events
    BY <1>2, <1>4, Popped, EventFields DEF RevealedInTime
  <2>2. RevealFits(r)
    BY DEF RecordsFit
  <2>3. QED
    BY <2>1, <2>2 DEF RevealFits
<1>6. requests[r].status # "RESERVED"
  <2>1. SimulationEvent(LatestPickup[r], "RESERVATION_EXPIRED", r) \notin events
    BY <1>2, <1>4, Popped, EventFields
  <2>2. ExpiryFits(r)
    BY DEF RecordsFit
  <2>3. QED
    BY <1>3, <2>1, <2>2 DEF ExpiryFits
<1>7. requests[r].status # "OFFERED"
  BY <1>3 DEF RecordsFit, OffersFit
<1>8. requests[r].status = "PENDING" => r \in OutOfPatience
  BY DEF RecordsFit, IndexAgreement, OutOfPatience
<1>9. r \in OutOfPatience => requests'[r].status = "CANCELLED"
  BY EpochRequests, RowFields
<1>10. QED
  BY <1>1, <1>5, <1>6, <1>7, <1>8, <1>9, OpenBefore DEF OpenStatus

LEMMA EpochsKept ==
  ASSUME TypeOK, Ordered, RecordsFit, RevealedInTime, Next, ~finalized',
         \A r \in Requests : EpochsAhead(r)
  PROVE  \A r \in Requests : EpochsAhead(r)'
<1> SUFFICES ASSUME NEW r \in Requests, requests'[r].status \in OpenStatus,
                    NEW t \in 0..End, t % EpochSec = 0, t > LatestPickup[r]
             PROVE  SimulationEvent(t, "DECISION_EPOCH", FleetController) \in events'
  BY DEF EpochsAhead, OpenStatus
<1> DEFINE epoch == SimulationEvent(t, "DECISION_EPOCH", FleetController)
<1>1. epoch \in events
  <2>1. requests[r].status \in OpenStatus
    BY NextSteps, OpenBefore
  <2>2. QED
    BY <2>1 DEF EpochsAhead, OpenStatus
<1>2. ASSUME NEW kind, NEW id, Handled(kind, id), kind # "DECISION_EPOCH"
      PROVE  epoch \in events'
  BY <1>1, <1>2, StillQueued DEF Handled
<1>3. CASE DecisionEpoch
  <2>1. PICK moved, ride, M, P : Decision(moved, ride, M, P)
    BY <1>3, EpochDecides
  <2>2. Leaves("DECISION_EPOCH", FleetController, EpochKinds)
    BY <2>1, EpochLeaves
  <2>3. t # clock'
    BY <2>1, PatienceEnds
  <2>4. epoch # SimulationEvent(clock', "DECISION_EPOCH", FleetController)
    BY <2>3, EventFields
  <2>5. QED
    BY <1>1, <2>2, <2>4 DEF Leaves, Rest
<1>4. CASE Finalize \/ UNCHANGED vars
  BY <1>1, <1>4 DEF Finalize, vars
<1>5. QED
  BY <1>2, <1>3, <1>4, NextHandlesOne DEF Handled

(* There is an epoch within EpochSec after any time.                       *)
LEMMA MultipleAhead ==
  ASSUME NEW n \in Nat, n > 0, NEW a \in Nat
  PROVE  \E t \in Nat : t % n = 0 /\ a < t /\ t <= a + n
<1> DEFINE k == a \div n
           t == n * (k + 1)
<1>1. k \in Nat /\ a % n \in Nat /\ a = n * k + (a % n) /\ a % n < n
  OBVIOUS
<1> HIDE DEF k
<1>2. t = n * k + n /\ n * k \in Nat
  BY <1>1
<1>3. t \in Nat /\ a < t /\ t <= a + n
  BY <1>1, <1>2
<1>4. t % n = 0
  <2> DEFINE j == t \div n
  <2>1. j \in Int /\ t % n \in Nat /\ t = n * j + (t % n) /\ t % n < n
    BY <1>3
  <2> HIDE DEF j
  <2>2. n * (k + 1 - j) = t % n
    BY <1>1, <2>1
  <2>3. k + 1 - j < 1
    <3>1. k + 1 - j >= 1 => n * (k + 1 - j) >= n
      BY <1>1, <2>1
    <3>2. QED
      BY <1>1, <2>1, <2>2, <3>1
  <2>4. k + 1 - j > -1
    <3>1. k + 1 - j <= -1 => n * (k + 1 - j) <= -n
      BY <1>1, <2>1
    <3>2. QED
      BY <1>1, <2>1, <2>2, <3>1
  <2>5. k + 1 - j = 0
    BY <1>1, <2>1, <2>3, <2>4
  <2>6. QED
    BY <2>2, <2>5
<1>5. QED
  BY <1>3, <1>4

LEMMA OnlyFinalizeCloses ==
  ASSUME Next, ~finalized, finalized'
  PROVE  Finalize
  BY DEF Next, RequestRevealed, SessionStart, SessionEnd, SessionEvent, LegCompleted,
         LegCompletedPromote, LegCompletedInvalidate, LegEnds, ReservationExpired,
         StaleReservationExpiry, PlanInvalidated, ResponseTimeout, VehicleNotWaiting,
         DriverRejects, InsertsTooLate, AcceptsReservation, AcceptsAssignment, Respond,
         DecisionEpoch, Returned, vars

(* What the run keeps of its epochs and its end.                           *)
PatienceFits ==
  /\ clock <= End
  /\ ~finalized => \A r \in Requests : EpochsAhead(r)
  /\ finalized => \A r \in Requests : requests[r].status \notin WaitingStatus

LEMMA InitPatience ==
  ASSUME Init
  PROVE  PatienceFits
<1>1. clock <= End /\ ~finalized
  BY NumbersAreNatural DEF Init
<1>2. \A t \in 0..End : t % EpochSec = 0 =>
        SimulationEvent(t, "DECISION_EPOCH", FleetController) \in events
  BY DEF Init
<1>3. QED
  BY <1>1, <1>2 DEF PatienceFits, EpochsAhead

LEMMA NextPatience ==
  ASSUME TypeOK, Ordered, Agreed, Unraised, RevealedInTime, PatienceFits, [Next]_vars
  PROVE  PatienceFits'
<1>1. CASE UNCHANGED vars \/ ~Live
  <2>1. UNCHANGED vars
    BY <1>1, StoppedStays
  <2>2. QED
    BY <2>1 DEF vars, PatienceFits, EpochsAhead
<1>2. CASE Next /\ Live
  <2>1. RecordsFit
    BY <1>2 DEF Agreed
  <2>2. ASSUME NEW kind, NEW id, Pop(kind, id) PROVE clock' <= End
    BY <2>2 DEF Pop
  <2>3. clock' <= End
    BY <1>2, <2>2, NextHandlesOne DEF Handled, Finalize, PatienceFits, vars
  <2>4. ~finalized' => \A r \in Requests : EpochsAhead(r)'
    BY <1>2, <2>1, EpochsKept DEF Live, PatienceFits
  <2>5. ASSUME finalized' PROVE \A r \in Requests : requests'[r].status \notin WaitingStatus
    <3>1. Finalize
      BY <1>2, <2>5, OnlyFinalizeCloses DEF Live
    <3>2. QED
      BY <2>1, <3>1, FinalizeRequests DEF WaitingStatus
  <2>6. QED
    BY <2>3, <2>4, <2>5 DEF PatienceFits
<1>3. QED
  BY <1>1, <1>2

LEMMA EpochsAheadKeepPatience ==
  ASSUME TypeOK, Ordered, Unraised, PatienceFits
  PROVE  PatienceHonoured
<1> SUFFICES ASSUME NEW r \in Requests, requests[r].status \in WaitingStatus
             PROVE  clock <= LatestPickup[r] + EpochSec
  BY DEF PatienceHonoured, WaitingStatus
<1>1. /\ LatestPickup[r] \in Nat /\ EpochSec \in Nat /\ EpochSec > 0
      /\ clock \in Nat /\ End \in Nat /\ clock <= End
  BY TimesAssumption, NumbersAreNatural DEF TypeOK, PatienceFits
<1>2. PICK t \in Nat : t % EpochSec = 0 /\ LatestPickup[r] < t /\ t <= LatestPickup[r] + EpochSec
  BY <1>1, MultipleAhead
<1>3. ~finalized /\ ~Raised
  BY DEF PatienceFits, Unraised
<1>4. CASE t <= End
  <2>1. SimulationEvent(t, "DECISION_EPOCH", FleetController) \in events
    BY <1>1, <1>2, <1>3, <1>4 DEF PatienceFits, EpochsAhead, WaitingStatus
  <2>2. NoLaterThan(clock, priority, t, EventPriority["DECISION_EPOCH"])
    BY <1>3, <2>1, EventFields DEF Ordered, Follows
  <2>3. QED
    BY <1>1, <1>2, <2>2 DEF NoLaterThan
<1>5. QED
  BY <1>1, <1>2, <1>4

-----------------------------------------------------------------------------
(* The answer to an ordinary offer comes ResponseDelay after the decision  *)
(* that validated it.                                                      *)
AnswerInTime(o, e) ==
  /\ o.eta \in PickupEtas
  /\ OnlineStart[o.vehicle] <= e.at
  /\ e.at + o.eta <= LatestPickup[o.request] + ResponseDelay
  /\ e.at + o.eta + PredictedService[o.request] <= OnlineEnd[o.vehicle] + ResponseDelay

AnswersInTime ==
  \A o \in offers : \A e \in events :
    ~o.preassigned /\ e.kind = "DRIVER_RESPONSE" /\ e.id = <<o.request, o.vehicle>>
      => AnswerInTime(o, e)

(* The times of a decision and of the answer to it.                        *)
LEMMA DelayedAnswer ==
  ASSUME NEW t \in Nat, NEW eta \in Nat, NEW r \in Requests, NEW v \in Vehicles,
         Validate(v, r, t, t + eta)
  PROVE  /\ OnlineStart[v] <= t + ResponseDelay
         /\ t + ResponseDelay + eta <= LatestPickup[r] + ResponseDelay
         /\ t + ResponseDelay + eta + PredictedService[r] <= OnlineEnd[v] + ResponseDelay
<1>1. /\ LatestPickup[r] \in Nat /\ PredictedService[r] \in Nat
      /\ OnlineStart[v] \in Nat /\ OnlineEnd[v] \in Nat /\ ResponseDelay \in Nat
  BY TimesAssumption
<1>2. /\ OnlineStart[v] <= t /\ t + eta <= LatestPickup[r]
      /\ t + eta + PredictedService[r] <= OnlineEnd[v]
  BY DEF Validate
<1>3. QED
  BY <1>1, <1>2

LEMMA EpochAnswersInTime ==
  ASSUME TypeOK, Ordered, RecordsFit, NEW moved, NEW ride, NEW M, NEW P,
         Decision(moved, ride, M, P)
  PROVE  AnswersInTime'
<1> SUFFICES ASSUME NEW o \in offers', NEW e \in events', ~o.preassigned,
                    e.kind = "DRIVER_RESPONSE"
             PROVE  AnswerInTime(o, e)
  BY DEF AnswersInTime, AnswerInTime
<1>1. Pop("DECISION_EPOCH", FleetController)
  BY DEF Decision
<1>2. offers = {} /\ clock' \in Nat
  BY <1>1, NothingOutstanding, Popped
<1>3. o \in NewOffers(M, P)
  BY <1>2 DEF Decision, Decide
<1>4. e \notin events
  BY <1>2 DEF RecordsFit, AnswersFit
<1>5. e.at = clock' + ResponseDelay
  <2>1. PICK p \in NewOffers(M, P) :
          e = SimulationEvent(clock' + ResponseDelay, "DRIVER_RESPONSE",
                              <<p.request, p.vehicle>>)
    BY <1>4, EpochLeaves
  <2>2. QED
    BY <2>1, EventFields
<1>6. PICK f \in Offering(M, P) :
        /\ o.request = f.request /\ o.vehicle = f.vehicle
        /\ o.preassigned = (f \notin OfHVs(M))
        /\ o.eta = IF f \in OfHVs(M) THEN f.eta ELSE 0
  BY <1>3, OffersMade
<1>7. f \in OfHVs(M) /\ f \in M /\ o.eta = f.eta
  BY <1>6 DEF OfHVs
<1>8. /\ f.request \in Requests /\ f.vehicle \in Vehicles /\ f.eta \in PickupEtas
      /\ Validate(f.vehicle, f.request, clock', clock' + f.eta)
  BY <1>7, EpochEdges
<1>9. f.eta \in Nat
  BY <1>8, NumbersAreNatural
<1>10. /\ OnlineStart[f.vehicle] <= clock' + ResponseDelay
       /\ clock' + ResponseDelay + f.eta <= LatestPickup[f.request] + ResponseDelay
       /\ clock' + ResponseDelay + f.eta + PredictedService[f.request]
            <= OnlineEnd[f.vehicle] + ResponseDelay
  BY <1>2, <1>8, <1>9, DelayedAnswer
<1>11. QED
  BY <1>5, <1>6, <1>7, <1>8, <1>10 DEF AnswerInTime

LEMMA NextAnswersInTime ==
  ASSUME TypeOK, Ordered, RecordsFit, Next, AnswersInTime
  PROVE  AnswersInTime'
<1>1. ASSUME NEW kind, NEW id, Handled(kind, id), kind # "DECISION_EPOCH"
      PROVE  AnswersInTime'
  BY <1>1 DEF Handled, AnswersInTime, AnswerInTime
<1>2. CASE DecisionEpoch
  BY <1>2, EpochDecides, EpochAnswersInTime
<1>3. CASE Finalize \/ UNCHANGED vars
  BY <1>3 DEF Finalize, vars, AnswersInTime, AnswerInTime
<1>4. QED
  BY <1>1, <1>2, <1>3, NextHandlesOne DEF Handled

-----------------------------------------------------------------------------
(* A pickup takes its driving time: MIN_LEG_DURATION does not prolong it.  *)
LEMMA PickupDuration ==
  ASSUME PickupsTakeTime, NEW eta \in PickupEtas
  PROVE  eta \in Nat /\ Larger(MinLeg, eta) = eta
  BY NumbersAreNatural DEF PickupsTakeTime, Larger

LEMMA LargerIsLarger ==
  ASSUME NEW a \in Int, NEW b \in Int
  PROVE  Larger(a, b) \in Int /\ a <= Larger(a, b) /\ b <= Larger(a, b)
  BY DEF Larger

(* What the sender of a vehicle has checked, in time.                      *)
Grace(v) == IF v \in HVs THEN ResponseDelay ELSE 0

LEMMA SentInTime ==
  ASSUME TypeOK, AnswersInTime, PickupsTakeTime, clock' \in Nat,
         NEW v \in Vehicles, NEW r \in Requests, NEW eta \in Nat, SentBy(v, r, eta)
  PROVE  /\ Larger(MinLeg, eta) = eta
         /\ clock' + eta <= LatestPickup[r] + Grace(v)
         /\ clock' + eta + PredictedService[r] <= OnlineEnd[v] + Grace(v)
<1>1. /\ LatestPickup[r] \in Nat /\ PredictedService[r] \in Nat
      /\ OnlineEnd[v] \in Nat /\ ResponseDelay \in Nat
  BY TimesAssumption
<1>2. Grace(v) \in Nat
  BY <1>1 DEF Grace
<1>3. CASE v \in AVs /\ eta \in PickupEtas /\ Validate(v, r, clock', clock' + eta)
  <2>1. clock' + eta <= LatestPickup[r] /\ clock' + eta + PredictedService[r] <= OnlineEnd[v]
    BY <1>3 DEF Validate
  <2>2. QED
    BY <1>1, <1>2, <1>3, <2>1, PickupDuration
<1>4. CASE /\ v \in HVs
           /\ \E o \in offers : \E e \in events :
                /\ ~o.preassigned /\ o.request = r /\ o.vehicle = v /\ o.eta = eta
                /\ e.kind = "DRIVER_RESPONSE" /\ e.id = <<o.request, o.vehicle>> /\ e.at = clock'
  <2>1. PICK o \in offers, e \in events :
          /\ ~o.preassigned /\ o.request = r /\ o.vehicle = v /\ o.eta = eta
          /\ e.kind = "DRIVER_RESPONSE" /\ e.id = <<o.request, o.vehicle>> /\ e.at = clock'
    BY <1>4
  <2>2. AnswerInTime(o, e)
    BY <2>1 DEF AnswersInTime
  <2>3. /\ eta \in PickupEtas /\ clock' + eta <= LatestPickup[r] + ResponseDelay
        /\ clock' + eta + PredictedService[r] <= OnlineEnd[v] + ResponseDelay
    BY <2>1, <2>2 DEF AnswerInTime
  <2>4. Grace(v) = ResponseDelay
    BY <1>4 DEF Grace
  <2>5. QED
    BY <2>3, <2>4, PickupDuration
<1>5. CASE /\ eta \in PickupEtas
           /\ \E off \in SafeOffsets :
                /\ Larger(clock', clock' + off) + eta <= LatestPickup[r]
                /\ Larger(clock', clock' + off) + eta + PredictedService[r] <= OnlineEnd[v]
  <2>1. PICK off \in SafeOffsets :
          /\ Larger(clock', clock' + off) + eta <= LatestPickup[r]
          /\ Larger(clock', clock' + off) + eta + PredictedService[r] <= OnlineEnd[v]
    BY <1>5
  <2>2. clock' + off \in Int /\ clock' \in Int
    BY TimesAssumption
  <2> DEFINE safe == Larger(clock', clock' + off)
  <2>3. safe \in Int /\ clock' <= safe
    BY <2>2, LargerIsLarger
  <2>4. safe + eta <= LatestPickup[r] /\ safe + eta + PredictedService[r] <= OnlineEnd[v]
    BY <2>1
  <2> HIDE DEF safe
  <2>5. QED
    BY <1>1, <1>2, <1>5, <2>3, <2>4, PickupDuration
<1>6. QED
  BY <1>3, <1>4, <1>5 DEF SentBy

(* How late a vehicle on its way, and then its ride, may end.              *)
LegInTime(v) ==
  /\ vehicles[v].leg.kind = "PICKUP" =>
       /\ vehicles[v].leg.end <= LatestPickup[vehicles[v].leg.request] + Grace(v)
       /\ vehicles[v].leg.end + PredictedService[vehicles[v].leg.request]
            <= OnlineEnd[v] + Grace(v)
  /\ vehicles[v].leg.kind = "SERVICE" =>
       vehicles[v].leg.end <= LatestPickup[vehicles[v].leg.request] + Grace(v)
         + Larger(MinLeg, RealizedService[vehicles[v].leg.request])

LegsInTime == \A v \in Vehicles : LegInTime(v)

LEMMA NextLegsInTime ==
  ASSUME TypeOK, TypeOK', Ordered, RecordsFit, Next, AnswersInTime, PickupsTakeTime, LegsInTime
  PROVE  LegsInTime'
<1> SUFFICES ASSUME NEW v \in Vehicles PROVE LegInTime(v)'
  BY DEF LegsInTime
<1>1. LegInTime(v) /\ LegStep(v) /\ clock' \in Nat
  BY NextLegSteps DEF LegsInTime, LegSteps, TypeOK
<1>2. CASE vehicles'[v].leg = vehicles[v].leg
  BY <1>1, <1>2 DEF LegInTime, Grace
<1>3. CASE vehicles'[v].leg.kind \in {"NONE", "HV_REPOSITION", "AV_REBALANCE"}
  BY <1>3 DEF LegInTime
<1>4. CASE RidesOn(v)
  <2> DEFINE r == vehicles[v].leg.request
             long == Larger(MinLeg, RealizedService[r])
  <2>1. /\ vehicles[v].leg.end = clock' /\ r \in Requests /\ vehicles'[v].leg.kind = "SERVICE"
        /\ vehicles'[v].leg.request = r /\ vehicles'[v].leg.end = clock' + long
    BY <1>4 DEF RidesOn
  <2>2. clock' <= LatestPickup[r] + Grace(v)
    BY <1>1, <1>4, <2>1 DEF LegInTime, RidesOn
  <2>3. LatestPickup[r] \in Nat /\ RealizedService[r] \in Nat /\ MinLeg \in Nat
          /\ ResponseDelay \in Nat
    BY <2>1, NumbersAreNatural
  <2>4. long \in Int /\ Grace(v) \in Nat
    BY <2>3 DEF Larger, Grace
  <2> HIDE DEF r, long
  <2>5. vehicles'[v].leg.end <= LatestPickup[r] + Grace(v) + long
    BY <1>1, <2>1, <2>2, <2>3, <2>4
  <2>6. QED
    BY <2>1, <2>5 DEF LegInTime, Grace, r, long
<1>5. CASE IsSent(v)
  <2>1. PICK r \in Requests, eta \in Nat :
          /\ vehicles'[v].leg.kind = "PICKUP" /\ vehicles'[v].leg.request = r
          /\ vehicles'[v].leg.end = clock' + Larger(MinLeg, eta)
          /\ SentBy(v, r, eta)
    BY <1>5 DEF IsSent
  <2>2. /\ Larger(MinLeg, eta) = eta
        /\ clock' + eta <= LatestPickup[r] + Grace(v)
        /\ clock' + eta + PredictedService[r] <= OnlineEnd[v] + Grace(v)
    BY <1>1, <2>1, SentInTime
  <2>3. QED
    BY <2>1, <2>2 DEF LegInTime, Grace
<1>6. NoLeg.kind = "NONE"
  BY DEF NoLeg
<1>7. QED
  BY <1>1, <1>2, <1>3, <1>4, <1>5, <1>6 DEF LegStep, MovesIdle

-----------------------------------------------------------------------------
Timely == AnswersInTime /\ LegsInTime

LEMMA InitTimely ==
  ASSUME Init
  PROVE  Timely
<1>1. \A v \in Vehicles : vehicles[v].leg.kind = "NONE"
  BY DEF Init, NoLeg
<1>2. QED
  BY <1>1 DEF Init, Timely, AnswersInTime, LegsInTime, LegInTime

LEMMA NextTimely ==
  ASSUME TypeOK, TypeOK', Ordered, Agreed, Unraised, PickupsTakeTime, Timely, [Next]_vars
  PROVE  Timely'
<1>1. CASE UNCHANGED vars \/ ~Live
  <2>1. UNCHANGED vars
    BY <1>1, StoppedStays
  <2>2. QED
    BY <2>1 DEF vars, Timely, AnswersInTime, AnswerInTime, LegsInTime, LegInTime, Grace
<1>2. CASE Next /\ Live
  <2>1. RecordsFit
    BY <1>2 DEF Agreed
  <2>2. QED
    BY <1>2, <2>1, NextAnswersInTime, NextLegsInTime DEF Timely
<1>3. QED
  BY <1>1, <1>2

(* latest_pickup_time is kept towards every request: patience ends with    *)
(* it, and every vehicle sent to a passenger reaches it in time, but for   *)
(* the response delay the plan validator does not count.                   *)
THEOREM DeadlinesHold ==
  ASSUME AnswersPrecedeEpochs, PickupsTakeTime, RevealedInTime
  PROVE  Spec => []DeadlinesHonoured
<1>1. Init => TypeOK /\ Ordered /\ Agreed /\ Unraised /\ PatienceFits /\ Timely
  BY InitType, InitOrdered, InitAgrees, InitUnraised, InitPatience, InitTimely
<1>2. TypeOK /\ Ordered /\ Agreed /\ Unraised /\ PatienceFits /\ Timely /\ [Next]_vars
        => (TypeOK /\ Ordered /\ Agreed /\ Unraised /\ PatienceFits /\ Timely)'
  BY NextType, NextOrdered, NextAgrees, NextUnraised, NextPatience, NextTimely
<1>3. Timely => PickupOnTime
  BY DEF Timely, LegsInTime, LegInTime, PickupOnTime, Grace
<1>4. TypeOK /\ Ordered /\ Agreed /\ Unraised /\ PatienceFits /\ Timely => DeadlinesHonoured
  BY <1>3, EpochsAheadKeepPatience DEF DeadlinesHonoured
<1>5. QED
  BY <1>1, <1>2, <1>4, PTL DEF Spec

-----------------------------------------------------------------------------
(* How a vehicle comes to be idle in one event: it was, its session        *)
(* starts, its leg ends, or it has waited for the answer to an offer.      *)
StaysOnline(v, kind, id) == vehicles[v].status = "IDLE" /\ ~(kind = "HV_SESSION_END" /\ id = v)

AfterItsLeg(v, kind) ==
  kind = "LEG_COMPLETED" /\ OnlineStart[v] <= clock' /\ clock' <= OnlineEnd[v]

AfterItsAnswer(v, kind, id) ==
  /\ kind = "DRIVER_RESPONSE" /\ OnlineStart[v] <= clock'
  /\ \E o \in offers : ~o.preassigned /\ o.vehicle = v /\ id = <<o.request, o.vehicle>>

IdleStep(v, kind, id) ==
  vehicles'[v].status = "IDLE" =>
    \/ StaysOnline(v, kind, id)
    \/ kind = "HV_SESSION_START" /\ id = v
    \/ AfterItsLeg(v, kind)
    \/ AfterItsAnswer(v, kind, id)

IdleSteps(kind, id) == \A v \in Vehicles : IdleStep(v, kind, id)

LEMMA OneIdleStep ==
  ASSUME TypeOK, NEW v \in Vehicles, NEW x, vehicles' = [vehicles EXCEPT ![v] = x],
         NEW kind, NEW id, kind # "HV_SESSION_END", IdleStep(v, kind, id)
  PROVE  IdleSteps(kind, id)
<1>1. \A w \in Vehicles : w # v => vehicles'[w] = vehicles[w]
  BY TypeParts
<1>2. QED
  BY <1>1 DEF IdleSteps, IdleStep, StaysOnline

LEMMA SameIdleSteps ==
  ASSUME \A v \in Vehicles : vehicles'[v].status = vehicles[v].status,
         NEW kind, NEW id, kind # "HV_SESSION_END"
  PROVE  IdleSteps(kind, id)
  BY DEF IdleSteps, IdleStep, StaysOnline

LEMMA ParkedIdle ==
  ASSUME NEW v, NEW t, Parked(v, t) = "IDLE"
  PROVE  OnlineStart[v] <= t /\ t <= OnlineEnd[v]
  BY DEF Parked

LEMMA SessionIdle ==
  ASSUME TypeOK, RecordsFit, NEW v \in Vehicles
  PROVE  /\ SessionStart(v) => IdleSteps("HV_SESSION_START", v)
         /\ SessionEnd(v) => IdleSteps("HV_SESSION_END", v)
<1>1. vehicles \in [Vehicles -> VehicleRecord]
  BY TypeParts
<1>2. ASSUME SessionStart(v) PROVE IdleSteps("HV_SESSION_START", v)
  <2>1. \A w \in Vehicles : w # v => vehicles'[w] = vehicles[w]
    BY <1>1, <1>2 DEF SessionStart, SessionEvent
  <2>2. QED
    BY <2>1 DEF IdleSteps, IdleStep, StaysOnline
<1>3. ASSUME SessionEnd(v) PROVE IdleSteps("HV_SESSION_END", v)
  <2>1. \A w \in Vehicles : w # v => vehicles'[w] = vehicles[w]
    BY <1>1, <1>3 DEF SessionEnd, SessionEvent
  <2>2. vehicles'[v].status # "IDLE"
    <3>1. CASE vehicles[v].leg = NoLeg
      <4>1. vehicles' = [vehicles EXCEPT ![v].status = "OFFLINE"]
        BY <1>3, <3>1 DEF SessionEnd, SessionEvent
      <4>2. vehicles'[v].status = "OFFLINE"
        BY <1>1, <4>1 DEF VehicleRecord
      <4>3. QED
        BY <4>2
    <3>2. CASE vehicles[v].leg # NoLeg
      <4>1. vehicles' = vehicles
        BY <1>3, <3>2 DEF SessionEnd, SessionEvent
      <4>2. vehicles[v].leg.kind \in DOMAIN BusyStatus
              /\ vehicles[v].status = BusyStatus[vehicles[v].leg.kind]
        <5>1. vehicles[v].leg \in LegRecord /\ VehicleFits(v)
          BY <1>1 DEF RecordsFit, VehicleRecord
        <5>2. QED
          BY <3>2, <5>1 DEF VehicleFits, LegRecord, BusyStatus
      <4>3. QED
        BY <4>1, <4>2 DEF BusyStatus
    <3>3. QED
      BY <3>1, <3>2
  <2>3. QED
    BY <2>1, <2>2 DEF IdleSteps, IdleStep, StaysOnline
<1>4. QED
  BY <1>2, <1>3

LEMMA LegEndIdle ==
  ASSUME TypeOK, Ordered, RecordsFit, NEW v \in Vehicles, Completes(v)
  PROVE  IdleSteps("LEG_COMPLETED", v)
<1>1. ASSUME vehicles' = [vehicles EXCEPT ![v] = Released(v)]
      PROVE  IdleSteps("LEG_COMPLETED", v)
  <2>1. vehicles'[v].status = Parked(v, clock')
    BY <1>1, ReleasedFields, TypeParts
  <2>2. IdleStep(v, "LEG_COMPLETED", v)
    BY <2>1, ParkedIdle DEF IdleStep, AfterItsLeg
  <2>3. QED
    BY <1>1, <2>2, OneIdleStep
<1>2. ASSUME NEW x, x.status # "IDLE", vehicles' = [vehicles EXCEPT ![v] = x]
      PROVE  IdleSteps("LEG_COMPLETED", v)
  <2>1. vehicles'[v] = x
    BY <1>2, TypeParts
  <2>2. IdleStep(v, "LEG_COMPLETED", v)
    BY <1>2, <2>1 DEF IdleStep
  <2>3. QED
    BY <1>2, <2>2, OneIdleStep
<1>3. CASE LegCompleted(v) /\ vehicles[v].leg.kind = "PICKUP"
  <2> DEFINE r == vehicles[v].leg.request
             started == Driving("SERVICE", "SERVICE", r,
                          clock' + Larger(MinLeg, RealizedService[r]), <<>>, NoRequest)
  <2>1. vehicles' = [vehicles EXCEPT ![v] = started]
    BY <1>3, PickedUp
  <2>2. started.status = "SERVICE"
    BY DrivingFields
  <2> HIDE DEF started
  <2>3. QED
    BY <1>2, <2>1, <2>2
<1>4. CASE LegCompleted(v) /\ vehicles[v].leg.kind # "PICKUP"
  BY <1>1, <1>4, DroppedOff, MovementOver
<1>5. CASE LegCompletedInvalidate(v)
  BY <1>1, <1>5, Invalidated
<1>6. CASE LegCompletedPromote(v)
  <2> DEFINE r == vehicles[v].reserved
  <2>1. PICK off \in SafeOffsets, eta \in PickupEtas :
          LET x == Driving("PICKUP", "PICKUP", r, clock' + Larger(MinLeg, eta),
                           <<Stop("DROP_OFF", r)>>, NoRequest)
          IN  /\ Revalidates(v, Larger(clock', clock' + off) + eta)
              /\ vehicles' = [vehicles EXCEPT ![v] = x]
              /\ events' = Rest("LEG_COMPLETED", v) \cup {LegEvent(v, x)}
    BY <1>6, Promoted, Zenon
  <2> DEFINE started == Driving("PICKUP", "PICKUP", r, clock' + Larger(MinLeg, eta),
                                <<Stop("DROP_OFF", r)>>, NoRequest)
  <2>2. vehicles' = [vehicles EXCEPT ![v] = started]
    BY <2>1
  <2>3. started.status = "PICKUP"
    BY DrivingFields
  <2> HIDE DEF started
  <2>4. QED
    BY <1>2, <2>2, <2>3
<1>7. QED
  BY <1>3, <1>4, <1>5, <1>6 DEF Completes

LEMMA HeldStatus ==
  ASSUME NEW x \in VehicleRecord, NEW r, NEW plan
  PROVE  [x EXCEPT !.reserved = r, !.plan = plan].status = x.status
  BY DEF VehicleRecord

LEMMA AnswerIdle ==
  ASSUME TypeOK, Ordered, RecordsFit, NEW o \in offers, Answers(o)
  PROVE  IdleSteps("DRIVER_RESPONSE", <<o.request, o.vehicle>>)
<1> DEFINE r == o.request
           v == o.vehicle
           id == <<o.request, o.vehicle>>
<1>1. r \in Requests /\ v \in Vehicles
  BY Answered DEF Answers, ResponseTimeout, VehicleNotWaiting, DriverRejects,
     InsertsTooLate, AcceptsReservation, AcceptsAssignment
<1>2. vehicles \in [Vehicles -> VehicleRecord] /\ vehicles[v] \in VehicleRecord
  BY <1>1, TypeParts
<1>3. CASE ~AcceptsAssignment(o)
  <2> HIDE DEF v
  <2>1. \/ UNCHANGED vehicles
        \/ ~o.preassigned /\ vehicles' = [vehicles EXCEPT ![v].status = Parked(v, clock')]
        \/ vehicles' = [vehicles EXCEPT ![v].reserved = r, ![v].plan = o.plan]
    BY <1>3 DEF Answers, ResponseTimeout, VehicleNotWaiting, DriverRejects, InsertsTooLate,
         AcceptsReservation, StopsWaiting, v
  <2> HIDE DEF r, id
  <2>2. \A w \in Vehicles : w # v => vehicles'[w] = vehicles[w]
    BY <1>1, <1>2, <2>1
  <2>3. \/ vehicles'[v].status = vehicles[v].status
        \/ ~o.preassigned /\ vehicles'[v].status = Parked(v, clock')
    <3>1. CASE vehicles' = [vehicles EXCEPT ![v].status = Parked(v, clock')] /\ ~o.preassigned
      BY <1>1, <1>2, <3>1 DEF VehicleRecord
    <3>2. CASE vehicles' = [vehicles EXCEPT ![v].reserved = r, ![v].plan = o.plan]
      <4>1. vehicles'[v] = [vehicles[v] EXCEPT !.reserved = r, !.plan = o.plan]
        BY <1>1, <1>2, <3>2
      <4>2. QED
        BY <1>2, <4>1, HeldStatus
    <3>3. CASE UNCHANGED vehicles
      BY <3>3
    <3>4. QED
      BY <2>1, <3>1, <3>2, <3>3
  <2>4. IdleStep(v, "DRIVER_RESPONSE", id)
    BY <2>3, ParkedIdle DEF IdleStep, StaysOnline, AfterItsAnswer, v, id
  <2>5. \A w \in Vehicles : w # v => IdleStep(w, "DRIVER_RESPONSE", id)
    BY <2>2 DEF IdleStep, StaysOnline
  <2>6. QED
    BY <2>4, <2>5 DEF IdleSteps, id
<1>4. CASE AcceptsAssignment(o)
  <2> DEFINE started == Driving("PICKUP", "PICKUP", r, clock' + Larger(MinLeg, o.eta),
                                <<Stop("DROP_OFF", r)>>, NoRequest)
  <2>1. vehicles' = [vehicles EXCEPT ![v] = started]
    BY <1>4, Accepted
  <2>2. started.status = "PICKUP"
    BY DrivingFields
  <2> HIDE DEF started
  <2>3. vehicles'[v] = started
    BY <1>1, <2>1, TypeParts
  <2>4. IdleStep(v, "DRIVER_RESPONSE", id)
    BY <2>2, <2>3 DEF IdleStep
  <2>5. QED
    BY <1>1, <2>1, <2>4, OneIdleStep
<1>5. QED
  BY <1>3, <1>4

LEMMA EpochIdle ==
  ASSUME TypeOK, Ordered, RecordsFit, NEW moved, NEW ride, NEW M, NEW P,
         Decision(moved, ride, M, P)
  PROVE  IdleSteps("DECISION_EPOCH", FleetController)
<1> SUFFICES ASSUME NEW v \in Vehicles, vehicles'[v].status = "IDLE"
             PROVE  vehicles[v].status = "IDLE"
  BY DEF IdleSteps, IdleStep, StaysOnline
<1>1. v \notin moved
  <2>1. ASSUME v \in moved PROVE FALSE
    <3>1. PICK kind \in {"HV_REPOSITION", "AV_REBALANCE"} :
            vehicles'[v] =
              Driving(IF kind = "HV_REPOSITION" THEN "REPOSITIONING" ELSE "REBALANCING",
                      kind, NoRequest, clock' + Larger(MinLeg, ride[v]), <<>>, NoRequest)
      BY <2>1, EpochVehicles
    <3>2. vehicles'[v].status = IF kind = "HV_REPOSITION" THEN "REPOSITIONING" ELSE "REBALANCING"
      BY <3>1, DrivingFields
    <3>3. QED
      BY <3>2
  <2>2. QED
    BY <2>1
<1>2. ASSUME NEW e \in M, e.vehicle = v PROVE FALSE
  <2>1. e \in OfHVs(M) \/ e \in OfAVs(M)
    BY <1>2 DEF OfHVs, OfAVs, Vehicles
  <2>2. e \in OfAVs(M) => vehicles'[v].status = "PICKUP"
    <3> DEFINE started == Driving("PICKUP", "PICKUP", e.request, clock' + Larger(MinLeg, e.eta),
                                  <<Stop("DROP_OFF", e.request)>>, NoRequest)
    <3>1. e \in OfAVs(M) => vehicles'[v] = started
      BY <1>2, EpochVehicles
    <3>2. started.status = "PICKUP"
      BY DrivingFields
    <3> HIDE DEF started
    <3>3. QED
      BY <3>1, <3>2
  <2>3. e \in OfHVs(M) => vehicles'[v].status = "WAITING"
    BY <1>2, EpochVehicles
  <2>4. QED
    BY <2>1, <2>2, <2>3
<1>3. ASSUME NEW e \in OfAVs(P), e.vehicle = v PROVE FALSE
  BY <1>3, EpochVehicles
<1>4. v \notin moved \cup {e.vehicle : e \in M} \cup {e.vehicle : e \in OfAVs(P)}
  BY <1>1, <1>2, <1>3
<1>5. vehicles'[v] = vehicles[v]
  BY <1>4, EpochVehicles
<1>6. QED
  BY <1>5

LEMMA NextIdleSteps ==
  ASSUME TypeOK, Ordered, RecordsFit, Next
  PROVE  \/ \E kind, id : Handled(kind, id) /\ IdleSteps(kind, id)
         \/ Finalize
         \/ UNCHANGED vars
<1>1. ASSUME NEW r \in Requests, RequestRevealed(r) PROVE IdleSteps("REQUEST_REVEALED", r)
  BY <1>1, SameIdleSteps DEF RequestRevealed
<1>2. ASSUME NEW r \in Requests, StaleReservationExpiry(r)
      PROVE  IdleSteps("RESERVATION_EXPIRED", r)
  BY <1>2, SameIdleSteps DEF StaleReservationExpiry
<1>3. ASSUME NEW r \in Requests, ReservationExpired(r) \/ PlanInvalidated(r),
             NEW kind, kind # "HV_SESSION_END"
      PROVE  IdleSteps(kind, r)
  <2>1. ReleaseReservationState(r)
    BY <1>3 DEF ReservationExpired, PlanInvalidated
  <2>2. \A w \in Vehicles : vehicles[w] \in VehicleRecord
    BY TypeParts
  <2>3. \A w \in Vehicles : vehicles'[w].status = vehicles[w].status
    BY <2>1, <2>2, TypeParts DEF ReleaseReservationState, VehicleRecord
  <2>4. QED
    BY <1>3, <2>3, SameIdleSteps
<1>4. CASE \E v \in Vehicles : SessionStart(v) \/ SessionEnd(v)
  BY <1>4, HandlersHandle, SessionIdle
<1>5. CASE \E v \in Vehicles : Completes(v)
  BY <1>5, HandlersHandle, LegEndIdle
<1>6. CASE \E o \in offers : Answers(o)
  BY <1>6, HandlersHandle, AnswerIdle
<1>7. CASE DecisionEpoch
  BY <1>7, HandlersHandle, EpochDecides, EpochIdle
<1>8. CASE \E r \in Requests : \/ RequestRevealed(r) \/ StaleReservationExpiry(r)
                               \/ ReservationExpired(r) \/ PlanInvalidated(r)
  BY <1>1, <1>2, <1>3, <1>8, HandlersHandle
<1>9. CASE Finalize \/ Returned
  BY <1>9 DEF Returned
<1>10. QED
  BY <1>4, <1>5, <1>6, <1>7, <1>8, <1>9 DEF Next, Completes, Answers

-----------------------------------------------------------------------------
(* A ride takes longer than the answer to an offer, and a session has an   *)
(* extent: HV_SESSION_END comes before HV_SESSION_START at one instant.    *)
RidesOutlastAnswers == \A r \in Requests : ResponseDelay <= PredictedService[r]
SessionsHaveLength == \A v \in Vehicles : OnlineStart[v] < OnlineEnd[v]

SessionEndEvent(v) == SimulationEvent(OnlineEnd[v], "HV_SESSION_END", v)

(* The end of the session is queued until it has been handled.             *)
EndFits(v) ==
  SessionEndEvent(v) \in events
    \/ NoLaterThan(OnlineEnd[v], EventPriority["HV_SESSION_END"], clock, priority)

(* A vehicle is idle in its session, and on a leg after its start.         *)
SessionFits(v) ==
  /\ EndFits(v)
  /\ vehicles[v].status = "IDLE" => OnlineStart[v] <= clock /\ SessionEndEvent(v) \in events
  /\ vehicles[v].leg # NoLeg => OnlineStart[v] <= clock

SessionsFit == \A v \in Vehicles : SessionFits(v)

(* What pops is the earliest event, and its priority is noted.             *)
LEMMA PopOrder ==
  ASSUME TypeOK, Ordered, NEW kind, NEW id, Pop(kind, id)
  PROVE  /\ NoLaterThan(clock, priority, clock', priority')
         /\ priority' = EventPriority[kind] /\ priority \in 0..9 /\ priority' \in 0..9
         /\ clock \in Nat /\ clock' \in Nat
<1> DEFINE e == SimulationEvent(clock', kind, id)
<1>1. e \in events /\ Live /\ clock' \in Nat
  BY Popped
<1>2. e.at = clock' /\ e.kind = kind
  BY EventFields
<1> HIDE DEF e
<1>3. Follows(e, clock, priority)
  BY <1>1 DEF Ordered, Live
<1>4. priority' = EventPriority[kind]
  BY DEF Pop
<1>5. priority' \in 0..9
  BY PopType
<1>6. QED
  BY <1>1, <1>2, <1>3, <1>4, <1>5 DEF Follows, TypeOK

(* The end of its session is yet to come for a vehicle that has it.        *)
LEMMA EndStillQueued ==
  ASSUME TypeOK, Ordered, NEW kind, NEW id, Pop(kind, id), NEW v \in Vehicles, EndFits(v),
         \/ clock' < OnlineEnd[v]
         \/ clock' = OnlineEnd[v] /\ EventPriority[kind] < EventPriority["HV_SESSION_END"]
  PROVE  SessionEndEvent(v) \in events
<1>1. EventPriority["HV_SESSION_END"] = 3
  BY Priorities
<1>2. OnlineEnd[v] \in Nat
  BY NumbersAreNatural
<1>3. ~NoLaterThan(OnlineEnd[v], 3, clock, priority)
  BY <1>1, <1>2, PopOrder DEF NoLaterThan
<1>4. QED
  BY <1>1, <1>3 DEF EndFits

LEMMA EndFitsKept ==
  ASSUME TypeOK, Ordered, QueueFits, NEW kind, NEW id, Handled(kind, id), NEW v \in Vehicles,
         EndFits(v)
  PROVE  EndFits(v)'
<1>1. Pop(kind, id) /\ Leaves(kind, id, PushedKinds)
  BY DEF Handled
<1>2. OnlineEnd[v] \in Nat /\ EventPriority["HV_SESSION_END"] = 3
  BY NumbersAreNatural, Priorities
<1>3. CASE NoLaterThan(OnlineEnd[v], EventPriority["HV_SESSION_END"], clock, priority)
  <2>1. NoLaterThan(OnlineEnd[v], 3, clock', priority')
    BY <1>1, <1>2, <1>3, PopOrder DEF NoLaterThan
  <2>2. QED
    BY <1>2, <2>1 DEF EndFits
<1>4. CASE SessionEndEvent(v) \in events /\ (kind # "HV_SESSION_END" \/ id # v)
  <2>1. SessionEndEvent(v) \in events'
    BY <1>1, <1>4, StillQueued DEF SessionEndEvent
  <2>2. QED
    BY <2>1 DEF EndFits, SessionEndEvent
<1>5. CASE kind = "HV_SESSION_END" /\ id = v
  <2> DEFINE e == SimulationEvent(clock', kind, id)
  <2>1. e \in events
    BY <1>1, Popped
  <2>2. e.at = clock' /\ e.kind = "HV_SESSION_END" /\ e.id = v
    BY <1>5, EventFields
  <2>3. clock' = OnlineEnd[v]
    BY <2>1, <2>2 DEF QueueFits
  <2>4. priority' = 3
    BY <1>1, <1>2, <1>5, PopOrder
  <2>5. NoLaterThan(OnlineEnd[v], 3, clock', priority')
    BY <1>2, <2>3, <2>4 DEF NoLaterThan
  <2>6. QED
    BY <1>2, <2>5 DEF EndFits
<1>6. QED
  BY <1>3, <1>4, <1>5 DEF EndFits

(* The answer to an ordinary offer comes in the session, and before its    *)
(* end: the ride it accepts still fits.                                    *)
LEMMA AnsweredInSession ==
  ASSUME TypeOK, AnswersInTime, RidesOutlastAnswers, PickupsTakeTime, NEW o \in offers,
         NEW e \in events, ~o.preassigned, e.kind = "DRIVER_RESPONSE",
         e.id = <<o.request, o.vehicle>>
  PROVE  OnlineStart[o.vehicle] <= e.at /\ e.at < OnlineEnd[o.vehicle]
<1>1. AnswerInTime(o, e)
  BY DEF AnswersInTime
<1>2. o.request \in Requests /\ o.vehicle \in Vehicles /\ e.at \in Nat
  BY DEF TypeOK, OfferRecord, Vehicles
<1>3. /\ OnlineEnd[o.vehicle] \in Nat /\ ResponseDelay \in Nat
      /\ PredictedService[o.request] \in Nat /\ MinLeg \in Nat /\ MinLeg > 0
  BY <1>2, TimesAssumption, DelaysAssumption
<1>4. o.eta \in Nat /\ o.eta >= MinLeg
  BY <1>1, NumbersAreNatural DEF AnswerInTime, PickupsTakeTime
<1>5. ResponseDelay <= PredictedService[o.request]
  BY <1>2 DEF RidesOutlastAnswers
<1>6. QED
  BY <1>1, <1>2, <1>3, <1>4, <1>5 DEF AnswerInTime

(* Who becomes idle is in its session, whose end is still queued.          *)
LEMMA IdleInSession ==
  ASSUME TypeOK, Ordered, RecordsFit, SessionsFit, AnswersInTime, RidesOutlastAnswers,
         PickupsTakeTime, SessionsHaveLength, NEW kind, NEW id, Handled(kind, id),
         IdleSteps(kind, id), NEW v \in Vehicles, vehicles'[v].status = "IDLE"
  PROVE  OnlineStart[v] <= clock' /\ SessionEndEvent(v) \in events'
<1>1. Pop(kind, id) /\ Leaves(kind, id, PushedKinds) /\ SessionFits(v) /\ IdleStep(v, kind, id)
  BY DEF Handled, SessionsFit, IdleSteps
<1>2. /\ OnlineStart[v] \in Nat /\ OnlineEnd[v] \in Nat /\ clock \in Nat /\ clock' \in Nat
      /\ clock <= clock'
  BY <1>1, NumbersAreNatural, Popped
<1>3. ASSUME SessionEndEvent(v) \in events, kind # "HV_SESSION_END" \/ id # v
      PROVE  SessionEndEvent(v) \in events'
  BY <1>1, <1>3, StillQueued DEF SessionEndEvent
<1>4. EndFits(v)
  BY <1>1 DEF SessionFits
<1> DEFINE e == SimulationEvent(clock', kind, id)
<1>5. e \in events
  BY <1>1, Popped
<1>6. e.at = clock' /\ e.kind = kind /\ e.id = id
  BY EventFields
<1> HIDE DEF e
<1>7. CASE StaysOnline(v, kind, id)
  BY <1>1, <1>2, <1>3, <1>7 DEF StaysOnline, SessionFits
<1>8. CASE kind = "HV_SESSION_START" /\ id = v
  <2>1. clock' = OnlineStart[v]
    BY <1>5, <1>6, <1>8 DEF RecordsFit, QueueFits
  <2>2. clock' < OnlineEnd[v]
    BY <2>1 DEF SessionsHaveLength
  <2>3. QED
    BY <1>1, <1>2, <1>3, <1>4, <1>8, <2>1, <2>2, EndStillQueued
<1>9. CASE AfterItsLeg(v, kind)
  <2>1. kind = "LEG_COMPLETED" /\ OnlineStart[v] <= clock' /\ clock' <= OnlineEnd[v]
    BY <1>9 DEF AfterItsLeg
  <2>2. EventPriority[kind] < EventPriority["HV_SESSION_END"]
    BY <2>1, Priorities
  <2>3. clock' < OnlineEnd[v] \/ clock' = OnlineEnd[v]
    BY <1>2, <2>1
  <2>4. SessionEndEvent(v) \in events
    BY <1>1, <1>4, <2>2, <2>3, EndStillQueued
  <2>5. QED
    BY <1>3, <2>1, <2>4
<1>10. CASE AfterItsAnswer(v, kind, id)
  <2>1. PICK o \in offers : ~o.preassigned /\ o.vehicle = v /\ id = <<o.request, o.vehicle>>
    BY <1>10 DEF AfterItsAnswer
  <2>2. kind = "DRIVER_RESPONSE" /\ OnlineStart[v] <= clock'
    BY <1>10 DEF AfterItsAnswer
  <2>3. clock' < OnlineEnd[v]
    BY <1>5, <1>6, <2>1, <2>2, AnsweredInSession
  <2>4. SessionEndEvent(v) \in events
    BY <1>1, <1>4, <2>3, EndStillQueued
  <2>5. QED
    BY <1>3, <2>2, <2>4
<1>11. QED
  BY <1>1, <1>7, <1>8, <1>9, <1>10 DEF IdleStep

(* A leg starts inside its vehicle's session.                              *)
LEMMA LegsStartOnline ==
  ASSUME TypeOK, Ordered, RecordsFit, SessionsFit, Timely, RidesOutlastAnswers,
         PickupsTakeTime, NEW kind, NEW id, Pop(kind, id), LegSteps, NEW v \in Vehicles,
         vehicles'[v].leg # vehicles[v].leg, vehicles'[v].leg # NoLeg
  PROVE  OnlineStart[v] <= clock' /\ clock' <= OnlineEnd[v]
<1>1. SessionFits(v) /\ LegStep(v) /\ LegInTime(v)
  BY DEF SessionsFit, LegSteps, Timely, LegsInTime
<1>2. /\ OnlineStart[v] \in Nat /\ OnlineEnd[v] \in Nat /\ clock \in Nat /\ clock' \in Nat
      /\ clock <= clock'
  BY NumbersAreNatural, Popped
<1>3. NoLeg.kind = "NONE"
  BY DEF NoLeg
<1>4. CASE RidesOn(v)
  <2> DEFINE r == vehicles[v].leg.request
  <2>1. vehicles[v].leg.kind = "PICKUP" /\ vehicles[v].leg.end = clock' /\ r \in Requests
    BY <1>4 DEF RidesOn
  <2>2. clock' + PredictedService[r] <= OnlineEnd[v] + Grace(v)
    BY <1>1, <2>1 DEF LegInTime
  <2>3. /\ PredictedService[r] \in Nat /\ ResponseDelay <= PredictedService[r]
        /\ Grace(v) \in Nat /\ Grace(v) <= ResponseDelay /\ ResponseDelay \in Nat
    BY <2>1, TimesAssumption DEF RidesOutlastAnswers, Grace
  <2> HIDE DEF r
  <2>4. clock' <= OnlineEnd[v]
    BY <1>2, <2>2, <2>3
  <2>5. OnlineStart[v] <= clock
    BY <1>1, <1>3, <2>1 DEF SessionFits
  <2>6. QED
    BY <1>2, <2>4, <2>5
<1>5. CASE IsSent(v)
  <2>1. PICK r \in Requests, eta \in Nat : SentBy(v, r, eta)
    BY <1>5 DEF IsSent
  <2>2. PredictedService[r] \in Nat
    BY TimesAssumption
  <2>3. CASE v \in AVs /\ eta \in PickupEtas /\ Validate(v, r, clock', clock' + eta)
    BY <2>3 DEF Validate
  <2>4. CASE \E o \in offers : \E e \in events :
               /\ ~o.preassigned /\ o.request = r /\ o.vehicle = v /\ o.eta = eta
               /\ e.kind = "DRIVER_RESPONSE" /\ e.id = <<o.request, o.vehicle>> /\ e.at = clock'
    <3>1. OnlineStart[v] <= clock' /\ clock' < OnlineEnd[v]
      BY <2>4, AnsweredInSession DEF Timely
    <3>2. QED
      BY <1>2, <3>1
  <2>5. CASE /\ vehicles[v].leg.kind = "SERVICE" /\ eta \in PickupEtas
             /\ \E off \in SafeOffsets :
                  /\ Larger(clock', clock' + off) + eta <= LatestPickup[r]
                  /\ Larger(clock', clock' + off) + eta + PredictedService[r] <= OnlineEnd[v]
    <3>1. PICK off \in SafeOffsets :
            Larger(clock', clock' + off) + eta + PredictedService[r] <= OnlineEnd[v]
      BY <2>5
    <3>2. clock' + off \in Int /\ clock' \in Int
      BY <1>2, TimesAssumption
    <3> DEFINE safe == Larger(clock', clock' + off)
    <3>3. safe \in Int /\ clock' <= safe
      BY <3>2, LargerIsLarger
    <3>4. safe + eta + PredictedService[r] <= OnlineEnd[v]
      BY <3>1
    <3> HIDE DEF safe
    <3>5. clock' <= OnlineEnd[v]
      BY <1>2, <2>2, <3>3, <3>4
    <3>6. OnlineStart[v] <= clock
      BY <1>1, <1>3, <2>5 DEF SessionFits
    <3>7. QED
      BY <1>2, <3>5, <3>6
  <2>6. QED
    BY <2>1, <2>3, <2>4, <2>5 DEF SentBy
<1>6. CASE MovesIdle(v)
  <2>1. OnlineStart[v] <= clock /\ SessionEndEvent(v) \in events
    BY <1>1, <1>6 DEF MovesIdle, SessionFits
  <2>2. SessionEndEvent(v).at = OnlineEnd[v]
    BY EventFields DEF SessionEndEvent
  <2>3. clock' <= OnlineEnd[v]
    BY <2>1, <2>2, Popped
  <2>4. QED
    BY <1>2, <2>1, <2>3
<1>7. QED
  BY <1>1, <1>4, <1>5, <1>6 DEF LegStep

-----------------------------------------------------------------------------
LEMMA InitSessions ==
  ASSUME Init
  PROVE  SessionsFit
<1>1. \A v \in Vehicles : SessionEndEvent(v) \in events
  BY DEF Init, SessionEndEvent
<1>2. \A v \in Vehicles : vehicles[v].leg = NoLeg /\ vehicles[v].status = "OFFLINE"
  BY DEF Init
<1>3. QED
  BY <1>1, <1>2 DEF SessionsFit, SessionFits, EndFits

LEMMA NextSessions ==
  ASSUME TypeOK, TypeOK', Ordered, Agreed, Unraised, Timely, AnswersPrecedeEpochs,
         PickupsTakeTime, RidesOutlastAnswers, SessionsHaveLength, SessionsFit, [Next]_vars
  PROVE  SessionsFit'
<1>1. CASE UNCHANGED vars \/ ~Live
  <2>1. UNCHANGED vars
    BY <1>1, StoppedStays
  <2>2. QED
    BY <2>1 DEF vars, SessionsFit, SessionFits, EndFits, SessionEndEvent
<1>2. CASE Next /\ Live /\ Finalize
  BY <1>2 DEF Finalize, SessionsFit, SessionFits, EndFits, SessionEndEvent
<1>3. ASSUME NEW kind, NEW id, Next, Live, Handled(kind, id), IdleSteps(kind, id)
      PROVE  SessionsFit'
  <2> SUFFICES ASSUME NEW v \in Vehicles PROVE SessionFits(v)'
    BY DEF SessionsFit
  <2>1. RecordsFit /\ AnswersInTime /\ LegSteps /\ Pop(kind, id) /\ SessionFits(v)
    BY <1>3, NextLegSteps DEF Agreed, Timely, Handled, SessionsFit
  <2>2. EndFits(v)'
    BY <1>3, <2>1, EndFitsKept DEF RecordsFit, SessionFits
  <2>3. vehicles'[v].status = "IDLE" => OnlineStart[v] <= clock' /\ SessionEndEvent(v) \in events'
    BY <1>3, <2>1, IdleInSession
  <2>4. ASSUME vehicles'[v].leg # NoLeg PROVE OnlineStart[v] <= clock'
    <3>1. CASE vehicles'[v].leg = vehicles[v].leg
      <4>1. OnlineStart[v] <= clock
        BY <2>1, <2>4, <3>1 DEF SessionFits
      <4>2. QED
        BY <2>1, <4>1, Popped, NumbersAreNatural
    <3>2. CASE vehicles'[v].leg # vehicles[v].leg
      BY <2>1, <2>4, <3>2, LegsStartOnline
    <3>3. QED
      BY <3>1, <3>2
  <2>5. QED
    BY <2>2, <2>3, <2>4 DEF SessionFits, SessionEndEvent
<1>4. QED
  BY <1>1, <1>2, <1>3, NextIdleSteps DEF Agreed

(* A leg starts only inside its vehicle's session, as the audit checks     *)
(* (leg_started_before_online, leg_started_after_online_end): of a         *)
(* follow-up leg, which no handler checks against the session, this is due *)
(* to the plan validator's margin for the whole ride.                      *)
THEOREM LegsStartInSessionHolds ==
  ASSUME AnswersPrecedeEpochs, PickupsTakeTime, RidesOutlastAnswers, SessionsHaveLength
  PROVE  Spec => LegsStartInSession
<1>1. Init => TypeOK /\ Ordered /\ Agreed /\ Unraised /\ Timely /\ SessionsFit
  BY InitType, InitOrdered, InitAgrees, InitUnraised, InitTimely, InitSessions
<1>2. TypeOK /\ Ordered /\ Agreed /\ Unraised /\ Timely /\ SessionsFit /\ [Next]_vars
        => (TypeOK /\ Ordered /\ Agreed /\ Unraised /\ Timely /\ SessionsFit)'
  BY NextType, NextOrdered, NextAgrees, NextUnraised, NextTimely, NextSessions
<1>3. ASSUME TypeOK, Ordered, Agreed, Unraised, Timely, SessionsFit, [Next]_vars
      PROVE  [\A v \in Vehicles :
                vehicles'[v].leg # vehicles[v].leg /\ vehicles'[v].leg # NoLeg
                  => OnlineStart[v] <= clock' /\ clock' <= OnlineEnd[v]]_vars
  <2>1. CASE UNCHANGED vars \/ ~Live
    BY <1>3, <2>1, StoppedStays
  <2>2. CASE Next /\ Finalize
    BY <2>2 DEF Finalize
  <2>3. ASSUME NEW kind, NEW id, Next, Live, Pop(kind, id)
        PROVE  \A v \in Vehicles :
                 vehicles'[v].leg # vehicles[v].leg /\ vehicles'[v].leg # NoLeg
                   => OnlineStart[v] <= clock' /\ clock' <= OnlineEnd[v]
    BY <1>3, <2>3, NextLegSteps, LegsStartOnline DEF Agreed
  <2>4. QED
    BY <1>3, <2>1, <2>2, <2>3, NextHandlesOne DEF Handled
<1>4. QED
  BY <1>1, <1>2, <1>3, PTL DEF Spec, LegsStartInSession

-----------------------------------------------------------------------------
(* The day is long enough for every ride that can be promised.             *)
DayOutlastsRides ==
  \A r \in Requests :
    /\ RequestTime[r] <= End
    /\ LatestPickup[r] + ResponseDelay + Larger(MinLeg, RealizedService[r]) <= End

LEMMA RideOver ==
  ASSUME TypeOK, RecordsFit, Timely, DayOutlastsRides, Finalize, NEW r \in Requests
  PROVE  requests[r].status \notin {"PICKUP_STARTED", "IN_SERVICE"}
<1> SUFFICES ASSUME requests[r].status \in {"PICKUP_STARTED", "IN_SERVICE"} PROVE FALSE
  OBVIOUS
<1>1. PICK v \in Vehicles : OnLeg(r, v)
  BY DEF RecordsFit, OneVehiclePerRide
<1> DEFINE leg == vehicles[v].leg
           long == Larger(MinLeg, RealizedService[r])
<1>2. leg.kind \in {"PICKUP", "SERVICE"} /\ leg.request = r /\ leg # NoLeg
  BY <1>1 DEF OnLeg, LegStatus, NoLeg
<1>3. LegEvent(v, vehicles[v]) \in events
  BY <1>2 DEF RecordsFit, EveryLegWillEnd
<1>4. leg.end > End
  BY <1>3, EventFields DEF Finalize, LegEvent
<1>5. /\ LatestPickup[r] \in Nat /\ ResponseDelay \in Nat /\ MinLeg \in Nat
      /\ RealizedService[r] \in Nat /\ End \in Nat
  BY NumbersAreNatural
<1>6. long \in Nat /\ Grace(v) \in Nat /\ Grace(v) <= ResponseDelay
  BY <1>5 DEF Larger, Grace
<1>7. LegInTime(v) /\ vehicles[v] \in VehicleRecord
  BY TypeParts DEF Timely, LegsInTime
<1>8. leg.end \in Nat
  BY <1>7 DEF VehicleRecord, LegRecord
<1>9. leg.end <= LatestPickup[r] + Grace(v) \/ leg.end <= LatestPickup[r] + Grace(v) + long
  BY <1>2, <1>7 DEF LegInTime
<1>10. LatestPickup[r] + ResponseDelay + long <= End
  BY DEF DayOutlastsRides
<1> HIDE DEF leg, long
<1>11. QED
  BY <1>4, <1>5, <1>6, <1>8, <1>9, <1>10

LEMMA FinalizeCloses ==
  ASSUME TypeOK, RecordsFit, Timely, DayOutlastsRides, Finalize, NEW r \in Requests
  PROVE  requests'[r].status \in TerminalStatus /\ book'[r] = NoVehicle
<1>1. requests[r].status # "UNREVEALED"
  <2>1. SimulationEvent(RequestTime[r], "REQUEST_REVEALED", r) \notin events
    <3>1. RequestTime[r] <= End /\ RequestTime[r] \in Nat /\ End \in Nat
      BY NumbersAreNatural DEF DayOutlastsRides
    <3>2. QED
      BY <3>1, EventFields DEF Finalize
  <2>2. QED
    BY <2>1 DEF RecordsFit, RevealFits
<1>2. requests[r].status \notin {"PICKUP_STARTED", "IN_SERVICE"}
  BY RideOver
<1>3. requests[r].status \in {"PENDING", "OFFERED", "RESERVED", "COMPLETED", "CANCELLED"}
  BY <1>1, <1>2 DEF RecordsFit, HoldFits, RestingStatus
<1>4. requests'[r].status \in TerminalStatus
  BY <1>3, FinalizeRequests DEF TerminalStatus
<1> DEFINE open == {s \in index.pending \cup index.offered \cup index.reserved :
                      requests[s].status \notin TerminalStatus}
<1>5. book'[r] = IF r \in open /\ requests[r].reserved # NoVehicle THEN NoVehicle ELSE book[r]
  BY DEF Finalize
<1>6. ASSUME book[r] # NoVehicle PROVE r \in open /\ requests[r].reserved # NoVehicle
  <2>1. requests[r].reserved # NoVehicle /\ requests[r].status = "RESERVED"
    BY <1>6 DEF RecordsFit, HoldFits
  <2>2. QED
    BY <2>1 DEF RecordsFit, IndexAgreement, TerminalStatus
<1> HIDE DEF open
<1>7. QED
  BY <1>4, <1>5, <1>6

LEMMA NextCloses ==
  ASSUME TypeOK, Agreed, Unraised, Timely, DayOutlastsRides, DayIsClosed, [Next]_vars
  PROVE  DayIsClosed'
<1>1. CASE UNCHANGED vars \/ ~Live
  <2>1. UNCHANGED vars
    BY <1>1, StoppedStays
  <2>2. QED
    BY <2>1 DEF vars, DayIsClosed
<1>2. CASE Next /\ Live /\ Finalize
  <2>1. RecordsFit
    BY <1>2 DEF Agreed
  <2>2. QED
    BY <1>2, <2>1, FinalizeCloses DEF DayIsClosed
<1>3. CASE Next /\ Live /\ ~Finalize
  BY <1>3, OnlyFinalizeCloses DEF DayIsClosed, Live
<1>4. QED
  BY <1>1, <1>2, <1>3

(* At the end of the day every request is completed or cancelled and no    *)
(* reservation is open (completed_plus_cancelled, reservation_cycle).      *)
THEOREM DayIsClosedHolds ==
  ASSUME AnswersPrecedeEpochs, PickupsTakeTime, DayOutlastsRides
  PROVE  Spec => []DayIsClosed
<1>1. Init => TypeOK /\ Ordered /\ Agreed /\ Unraised /\ Timely /\ DayIsClosed
  <2>1. Init => DayIsClosed
    BY DEF Init, DayIsClosed
  <2>2. QED
    BY <2>1, InitType, InitOrdered, InitAgrees, InitUnraised, InitTimely
<1>2. TypeOK /\ Ordered /\ Agreed /\ Unraised /\ Timely /\ DayIsClosed /\ [Next]_vars
        => (TypeOK /\ Ordered /\ Agreed /\ Unraised /\ Timely /\ DayIsClosed)'
  BY NextType, NextOrdered, NextAgrees, NextUnraised, NextTimely, NextCloses
<1>3. QED
  BY <1>1, <1>2, PTL DEF Spec
=============================================================================
