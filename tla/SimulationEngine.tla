-------------------------- MODULE SimulationEngine --------------------------
(***************************************************************************)
(* The event-driven ride-hailing simulator of stage4/simulator_v3: one     *)
(* thread pops the earliest event and runs its handler to the end, so each *)
(* handler is one action.  Human-driven vehicles (HVs) answer an offer     *)
(* after ResponseDelay; automated ones (AVs) are assigned at once.  A      *)
(* vehicle finishing a ride soon may be held for a waiting request         *)
(* (preassignment): its future stops are queued behind the locked leg and  *)
(* revalidated when that leg ends.                                         *)
(*                                                                         *)
(* Prices, routes, zones and utilities are abstracted: the matcher picks   *)
(* any injective set of feasible edges, a driver may accept or reject, and *)
(* a driving time is any of a small set.                                   *)
(***************************************************************************)
EXTENDS Integers, Sequences, FiniteSets, EventQueue, RequestManager

CONSTANTS
  Requests,
  HVs,
  AVs,
  NoRequest,
  NoTime,
  FleetController,     (* entity_id of DECISION_EPOCH.                     *)
  RequestTime,         (* Per request: when it is revealed.                *)
  LatestPickup,        (* Per request: latest_pickup_time.                 *)
  PredictedService,    (* Per request: predicted_service_time_sec.         *)
  RealizedService,     (* Per request: realized_service_time_sec.          *)
  OddFeasible,         (* Requests an AV may serve.                        *)
  OnlineStart,         (* Per vehicle.                                     *)
  OnlineEnd,           (* Per vehicle.                                     *)
  End,                 (* end_time of the run.                             *)
  EpochSec,            (* decision_epoch_sec.                              *)
  PreassignSec,        (* Preassignment runs on whole minutes.             *)
  PreassignmentEnabled,
  PreassignHorizon,    (* preassignment_horizon_sec.                       *)
  MaxOffers,           (* max_offers of one preassignment epoch.           *)
  SafeOffsets,         (* safe_release_time minus the expected release.    *)
  ResponseDelay,       (* response_delay_sec.                              *)
  IdleEnabled,
  IdleSec,             (* interval_sec of idle movements.                  *)
  MinHvIdleSec,        (* min_hv_idle_sec.                                 *)
  MaxSharePercent,     (* max_share_per_epoch.                             *)
  PickupEtas,          (* Driving times to a pickup.                       *)
  MoveTimes,           (* Driving times of an idle movement.               *)
  MinLeg               (* SIMULATOR_V3_MIN_LEG_DURATION_SEC.               *)

Vehicles == HVs \cup AVs

ASSUME KindsAssumption ==
  HVs \cap AVs = {} /\ NoVehicle \notin Vehicles /\ NoRequest \notin Requests
ASSUME TimesAssumption ==
  /\ \A r \in Requests : {RequestTime[r], LatestPickup[r], PredictedService[r],
                          RealizedService[r]} \subseteq Nat
  /\ \A v \in Vehicles : {OnlineStart[v], OnlineEnd[v]} \subseteq Nat
  /\ PickupEtas \subseteq Nat /\ MoveTimes \subseteq Nat /\ SafeOffsets \subseteq Int
  /\ {End, EpochSec, PreassignSec, IdleSec, ResponseDelay, MinLeg} \subseteq Nat
  /\ EpochSec > 0 /\ PreassignSec > 0 /\ IdleSec > 0 /\ NoTime \notin Nat
(* The formal runs; the cross-validation control sets both to zero.        *)
ASSUME DelaysAssumption == ResponseDelay > 0 /\ MinLeg > 0

VARIABLES
  clock,      (* current_time: the time of the last event handled.         *)
  priority,   (* The priority of the last event handled.                   *)
  events,     (* The queue.                                                *)
  requests,   (* RequestState: status, assigned and reserved vehicle, and  *)
              (* the vehicle whose economics its metadata holds.           *)
  vehicles,   (* VehicleState: execution status, current leg, the future   *)
              (* stops of the active plan, the reserved request.           *)
  index,      (* The request id sets of SystemState.                       *)
  offers,     (* pending_offers.                                           *)
  book,       (* request_to_vehicle of the reservation manager.            *)
  idleSince,  (* _idle_since of the idle movement manager.                 *)
  finalized   (* run() has finalized the day.                              *)

vars == <<clock, priority, events, requests, vehicles, index, offers, book,
          idleSince, finalized>>

Larger(a, b) == IF a > b THEN a ELSE b

-----------------------------------------------------------------------------
(* Plans and legs.                                                         *)
Stop(kind, r) == [kind |-> kind, request |-> r]
AssignmentPlan(r) == <<Stop("PICKUP", r), Stop("DROP_OFF", r)>>
InsertAfterLockedStops(plan, r) == plan \o AssignmentPlan(r)

NoLeg == [kind |-> "NONE", request |-> NoRequest, end |-> 0]
LegKind(stop) == IF stop.kind = "DROP_OFF" THEN "SERVICE" ELSE stop.kind

ExecutionStatus(stop) ==
  CASE stop.kind = "PICKUP" -> "PICKUP"
    [] stop.kind = "DROP_OFF" -> "SERVICE"
    [] stop.kind = "HV_REPOSITION" -> "REPOSITIONING"
    [] stop.kind = "AV_REBALANCE" -> "REBALANCING"

(* A vehicle without a leg: idle inside its session, both ends included.   *)
Parked(v, t) == IF OnlineStart[v] <= t /\ t <= OnlineEnd[v] THEN "IDLE" ELSE "OFFLINE"

(* _start_next_leg on the vehicle: ride is the driving time to a pickup or *)
(* of an idle movement; a ride with a passenger takes its realized time.   *)
StartNextLeg(v, vehicle, t, ride) ==
  IF vehicle.plan = <<>>
  THEN [vehicle EXCEPT !.status = Parked(v, t)]
  ELSE LET stop == Head(vehicle.plan)
           duration == IF stop.kind = "DROP_OFF" THEN RealizedService[stop.request] ELSE ride
       IN  [status |-> ExecutionStatus(stop),
            leg |-> [kind |-> LegKind(stop), request |-> stop.request,
                     end |-> t + Larger(MinLeg, duration)],
            plan |-> Tail(vehicle.plan),
            reserved |-> IF stop.kind = "PICKUP" /\ requests[stop.request].status = "RESERVED"
                         THEN NoRequest ELSE vehicle.reserved]

(* Mutant: a promoted request keeps its reservation pointer.               *)
StartRequestKeepsPointer(q, v, stop) ==
  IF stop.kind = "PICKUP"
  THEN Transition(IF q.status = "RESERVED"
                  THEN [Transition(q, "ASSIGNED") EXCEPT !.assigned = v] ELSE q,
                  "PICKUP_STARTED")
  ELSE IF q.status = "BOARDED" THEN Transition(q, "IN_SERVICE") ELSE q

(* _start_next_leg on the request of the stop.                             *)
StartRequest(q, v, stop) ==
  IF stop.kind = "PICKUP"
  THEN Transition(IF q.status = "RESERVED"
                  THEN [Transition(q, "ASSIGNED") EXCEPT !.assigned = v,
                                                         !.reserved = NoVehicle]
                  ELSE q, "PICKUP_STARTED")
  ELSE IF q.status = "BOARDED" THEN Transition(q, "IN_SERVICE") ELSE q

LegEvent(v, vehicle) == SimulationEvent(vehicle.leg.end, "LEG_COMPLETED", v)

(* complete_current_leg on the request of the leg.                         *)
FinishRequest(q, v, leg) ==
  CASE leg.kind = "PICKUP" -> Transition(q, "BOARDED")
    [] leg.kind = "SERVICE" -> [Transition(q, "COMPLETED") EXCEPT !.assigned = v]
    [] OTHER -> q

-----------------------------------------------------------------------------
(* Mutant: the plan validator does not look at the end of the session.     *)
ValidateAnyEnd(v, r, t, arrival) ==
  /\ OnlineStart[v] <= t /\ t <= OnlineEnd[v]
  /\ arrival <= LatestPickup[r]
  /\ v \in AVs => r \in OddFeasible

(* Feasibility of serving r with v, decided at t for a pickup at arrival.  *)
Validate(v, r, t, arrival) ==
  /\ OnlineStart[v] <= t /\ t <= OnlineEnd[v]
  /\ arrival <= LatestPickup[r]
  /\ arrival + PredictedService[r] <= OnlineEnd[v]
  /\ v \in AVs => r \in OddFeasible

(* The projected pickup behind a leg that ends at release: safe_release is *)
(* never in the past, but may precede the expected release.                *)
ProjectedPickups(release, t) ==
  {Larger(t, release + off) + eta : off \in SafeOffsets, eta \in PickupEtas}

IdleVehicles == {v \in Vehicles : vehicles[v].status = "IDLE"}
BookHolds(v) == \E r \in Requests : book[r] = v
Waiting == {r \in index.pending : requests[r].status = "PENDING"}

-----------------------------------------------------------------------------
(* The next event of the loop in run(); a handler that raises ends it.     *)
Raised == \E r \in Requests : requests[r].status = "RAISED"

Pop(kind, id) ==
  LET e == SimulationEvent(clock', kind, id)
  IN  /\ ~finalized /\ ~Raised
      /\ clock' \in {f.at : f \in NextEvents(events)}
      /\ clock' <= End
      /\ e \in NextEvents(events)
      /\ priority' = EventPriority[kind]

Rest(kind, id) == events \ {SimulationEvent(clock', kind, id)}

RequestRevealed(r) ==
  /\ Pop("REQUEST_REVEALED", r)
  /\ events' = Rest("REQUEST_REVEALED", r)
  /\ requests' = [requests EXCEPT ![r] = Transition(@, "PENDING")]
  /\ index' = IndexReveal(index, {r})
  /\ UNCHANGED <<vehicles, offers, book, idleSince, finalized>>

(* Mutant: a session event during a leg drops the leg.                     *)
SessionEventDropsLeg(v, kind, status) ==
  /\ Pop(kind, v)
  /\ events' = Rest(kind, v)
  /\ vehicles' = [vehicles EXCEPT ![v].status = status, ![v].leg = NoLeg]
  /\ UNCHANGED <<requests, index, offers, book, idleSince, finalized>>

SessionEvent(v, kind, status) ==
  /\ Pop(kind, v)
  /\ events' = Rest(kind, v)
  /\ vehicles' = IF vehicles[v].leg = NoLeg THEN [vehicles EXCEPT ![v].status = status]
                                            ELSE vehicles
  /\ UNCHANGED <<requests, index, offers, book, idleSince, finalized>>

SessionStart(v) == SessionEvent(v, "HV_SESSION_START", "IDLE")
SessionEnd(v) == SessionEvent(v, "HV_SESSION_END", "OFFLINE")

-----------------------------------------------------------------------------
(* LEG_COMPLETED.  What the three outcomes share: the request of the leg   *)
(* advances, and if it is completed its reservation is closed too.         *)
LegEnds(v) ==
  /\ Pop("LEG_COMPLETED", v)
  /\ vehicles[v].leg # NoLeg
  /\ UNCHANGED <<offers, idleSince, finalized>>

Released(v) == [vehicles[v] EXCEPT !.leg = NoLeg, !.status = Parked(v, clock')]
AwaitsRevalidation(v) == vehicles[v].leg.kind = "SERVICE" /\ vehicles[v].reserved # NoRequest

(* Mutant: every leg that ends completes a request.                        *)
ServedByAnyLeg(v) == {vehicles[v].leg.request}

ServedBy(v) == IF vehicles[v].leg.kind = "SERVICE" THEN {vehicles[v].leg.request} ELSE {}

(* The request of the finished leg advances; so does that of the next stop *)
(* if the next leg starts in the same event (starts).                      *)
Advance(v, starts) ==
  [r \in Requests |->
     LET finished == IF r = vehicles[v].leg.request
                     THEN FinishRequest(requests[r], v, vehicles[v].leg) ELSE requests[r]
     IN  IF starts /\ Head(vehicles[v].plan).request = r
         THEN StartRequest(finished, v, Head(vehicles[v].plan)) ELSE finished]

(* The completion pushed if a next leg has started.                        *)
NextLegEvent(v) == IF vehicles'[v].leg = NoLeg THEN {} ELSE {LegEvent(v, vehicles'[v])}

LegCompleted(v) ==
  /\ LegEnds(v)
  /\ ~AwaitsRevalidation(v)
  /\ \E ride \in PickupEtas :
       vehicles' = [vehicles EXCEPT ![v] = StartNextLeg(v, Released(v), clock', ride)]
  /\ requests' = Advance(v, vehicles[v].plan # <<>>)
  /\ events' = Rest("LEG_COMPLETED", v) \cup NextLegEvent(v)
  /\ index' = [index EXCEPT !.completed = @ \cup ServedBy(v),
                            !.reserved = @ \ (ServedBy(v) \cup {r \in Requests :
                               requests[r].status = "RESERVED"
                                 /\ requests'[r].status # "RESERVED"})]
  /\ book' = [r \in Requests |-> IF r \in ServedBy(v) THEN NoVehicle ELSE book[r]]

(* A vehicle held for a request revalidates when its ride ends: against    *)
(* the expiry, the pickup deadline and its own session.                    *)
Revalidates(v, projected) ==
  LET r == vehicles[v].reserved
  IN  /\ clock' < LatestPickup[r]
      /\ projected <= LatestPickup[r]
      /\ projected + PredictedService[r] <= OnlineEnd[v]

LegCompletedPromote(v) ==
  LET r == vehicles[v].reserved
  IN  /\ LegEnds(v)
      /\ AwaitsRevalidation(v)
      /\ book[r] # NoVehicle
      /\ \E off \in SafeOffsets, eta \in PickupEtas :
           /\ Revalidates(v, Larger(clock', clock' + off) + eta)
           /\ vehicles' = [vehicles EXCEPT ![v] = StartNextLeg(v, Released(v), clock', eta)]
      /\ requests' = Advance(v, vehicles[v].plan # <<>>)
      /\ events' = Rest("LEG_COMPLETED", v) \cup NextLegEvent(v)
      /\ index' = [index EXCEPT !.completed = @ \cup ServedBy(v),
                                !.reserved = @ \ (ServedBy(v) \cup {r})]
      /\ book' = [s \in Requests |-> IF s \in ServedBy(v) \cup {r} THEN NoVehicle
                                                                   ELSE book[s]]

LegCompletedInvalidate(v) ==
  LET r == vehicles[v].reserved
  IN  /\ LegEnds(v)
      /\ AwaitsRevalidation(v)
      /\ book[r] # NoVehicle
      /\ \E projected \in ProjectedPickups(clock', clock') : ~Revalidates(v, projected)
      /\ vehicles' = [vehicles EXCEPT ![v] = Released(v)]
      /\ requests' = Advance(v, FALSE)
      /\ events' = Rest("LEG_COMPLETED", v) \cup
                     {SimulationEvent(clock', "PLAN_INVALIDATED", r)}
      /\ index' = [index EXCEPT !.completed = @ \cup ServedBy(v),
                                !.reserved = @ \ ServedBy(v)]
      /\ book' = [s \in Requests |-> IF s \in ServedBy(v) \cup {r} THEN NoVehicle
                                                                   ELSE book[s]]

-----------------------------------------------------------------------------
(* The first n stops of the plan that are not for r, as a function of n:   *)
(* unlike SelectSeq it can be unfolded in a proof.                         *)
KeptStops(plan, r) ==
  LET kept[n \in 0..Len(plan)] ==
        IF n = 0 THEN <<>>
        ELSE IF plan[n].request = r THEN kept[n - 1] ELSE Append(kept[n - 1], plan[n])
  IN  kept

WithoutStops(plan, r) == KeptStops(plan, r)[Len(plan)]

(* Mutant: a released request does not become matchable again.             *)
IndexReleaseForgets(S) == [index EXCEPT !.reserved = @ \ S]

IndexRelease(S) == [index EXCEPT !.reserved = @ \ S, !.pending = @ \cup S]

(* _release_reservation_state: the vehicle drops the stops of the request  *)
(* and its pointer; a request still RESERVED is pending again.             *)
ReleaseReservationState(r) ==
  LET v == requests[r].reserved
      back == IF requests[r].status = "RESERVED" THEN {r} ELSE {}
  IN  /\ vehicles' = IF v = NoVehicle THEN vehicles
                     ELSE [vehicles EXCEPT ![v].plan = WithoutStops(@, r),
                                           ![v].reserved = NoRequest]
      /\ requests' = [requests EXCEPT ![r] =
           [(IF back = {} THEN @ ELSE Transition(@, "PENDING")) EXCEPT !.reserved = NoVehicle]]
      /\ index' = IndexRelease(back)
      /\ book' = [book EXCEPT ![r] = NoVehicle]

ReservationExpired(r) ==
  /\ Pop("RESERVATION_EXPIRED", r)
  /\ events' = Rest("RESERVATION_EXPIRED", r)
  /\ book[r] # NoVehicle
  /\ ReleaseReservationState(r)
  /\ UNCHANGED <<offers, idleSince, finalized>>

StaleReservationExpiry(r) ==
  /\ Pop("RESERVATION_EXPIRED", r)
  /\ events' = Rest("RESERVATION_EXPIRED", r)
  /\ book[r] = NoVehicle
  /\ UNCHANGED <<requests, vehicles, index, offers, book, idleSince, finalized>>

PlanInvalidated(r) ==
  /\ Pop("PLAN_INVALIDATED", r)
  /\ events' = Rest("PLAN_INVALIDATED", r)
  /\ ReleaseReservationState(r)
  /\ UNCHANGED <<offers, idleSince, finalized>>

-----------------------------------------------------------------------------
(* DRIVER_RESPONSE: the answer to the offer o, ResponseDelay after it.     *)
Respond(o) ==
  /\ Pop("DRIVER_RESPONSE", <<o.request, o.vehicle>>)
  /\ offers' = offers \ {o}
  /\ UNCHANGED <<idleSince, finalized>>

OnlyResponse(o) == events' = Rest("DRIVER_RESPONSE", <<o.request, o.vehicle>>)

BackToPending(o) ==
  /\ OnlyResponse(o)
  /\ requests' = [requests EXCEPT ![o.request] = RejectOffer(@)]
  /\ index' = IndexReject(index, {o.request})
  /\ UNCHANGED book

(* Mutant: the vehicle goes on waiting after a rejection.                  *)
GoesOnWaiting(o) == UNCHANGED vehicles

(* The vehicle of an ordinary offer has been waiting for the answer.       *)
StopsWaiting(o) ==
  vehicles' = IF o.preassigned THEN vehicles
              ELSE [vehicles EXCEPT ![o.vehicle].status = Parked(o.vehicle, clock')]

NoLongerWaiting(o) ==
  /\ ~o.preassigned
  /\ vehicles[o.vehicle].leg # NoLeg \/ vehicles[o.vehicle].status # "WAITING"

InTime(o) == clock' < LatestPickup[o.request]

ResponseTimeout(o) ==
  /\ Respond(o)
  /\ ~InTime(o)
  /\ BackToPending(o)
  /\ StopsWaiting(o)

VehicleNotWaiting(o) ==
  /\ Respond(o)
  /\ InTime(o)
  /\ NoLongerWaiting(o)
  /\ BackToPending(o)
  /\ UNCHANGED vehicles

DriverRejects(o) ==
  /\ Respond(o)
  /\ InTime(o)
  /\ ~NoLongerWaiting(o)
  /\ BackToPending(o)
  /\ StopsWaiting(o)

(* Mutant: the insertion plan is installed although its leg is gone.       *)
UninstallableIfHeld(o) == BookHolds(o.vehicle)

(* The driver accepts to be held, but the locked leg has already ended, or *)
(* the vehicle has been reserved meanwhile: the plan cannot be installed.  *)
Uninstallable(o) == vehicles[o.vehicle].leg = NoLeg \/ BookHolds(o.vehicle)

InsertsTooLate(o) ==
  /\ Respond(o)
  /\ InTime(o)
  /\ o.preassigned
  /\ Uninstallable(o)
  /\ BackToPending(o)
  /\ UNCHANGED vehicles

AcceptsReservation(o) ==
  /\ Respond(o)
  /\ InTime(o)
  /\ o.preassigned
  /\ ~Uninstallable(o)
  /\ requests' = [requests EXCEPT ![o.request] = Reserve(@, o.vehicle)]
  /\ index' = IndexReserve(index, {o.request})
  /\ vehicles' = [vehicles EXCEPT ![o.vehicle].reserved = o.request,
                                  ![o.vehicle].plan = o.plan]
  /\ book' = [book EXCEPT ![o.request] = o.vehicle]
  /\ events' = Rest("DRIVER_RESPONSE", <<o.request, o.vehicle>>) \cup
       {SimulationEvent(LatestPickup[o.request], "RESERVATION_EXPIRED", o.request)}

AcceptsAssignment(o) ==
  /\ Respond(o)
  /\ InTime(o)
  /\ ~o.preassigned
  /\ ~NoLongerWaiting(o)
  /\ vehicles' = [vehicles EXCEPT ![o.vehicle] =
                    StartNextLeg(o.vehicle, [@ EXCEPT !.plan = o.plan], clock', o.eta)]
  /\ requests' = [requests EXCEPT ![o.request] =
                    StartRequest(Assign(@, o.vehicle), o.vehicle, Head(o.plan))]
  /\ index' = IndexAssign(index, {o.request})
  /\ events' = Rest("DRIVER_RESPONSE", <<o.request, o.vehicle>>) \cup
                 {LegEvent(o.vehicle, vehicles'[o.vehicle])}
  /\ UNCHANGED book

-----------------------------------------------------------------------------
(* DECISION_EPOCH: cancel what has waited too long, move idle vehicles,    *)
(* match the waiting requests with the idle vehicles that remain, then     *)
(* queue waiting requests behind rides that end soon.                      *)
(* Mutant: a request is granted one more epoch.                            *)
OutOfGrace == {r \in index.pending : clock' > LatestPickup[r] + EpochSec}

OutOfPatience == {r \in index.pending : clock' > LatestPickup[r]}

IdleRuns == IdleEnabled /\ clock' % IdleSec = 0

(* The duration clock of an HV at a run: dropped if it is not idle now,    *)
(* kept if it has one, started otherwise.                                  *)
IdleClock(v) ==
  IF v \notin IdleVehicles THEN NoTime
  ELSE IF idleSince[v] = NoTime THEN clock' ELSE idleSince[v]

Rested == {v \in HVs \cap IdleVehicles : clock' - IdleClock(v) >= MinHvIdleSec}

EligibleLimit(n) ==
  LET share == Larger(1, (n * MaxSharePercent + 99) \div 100)
  IN  IF n = 0 THEN 0 ELSE IF n < share THEN n ELSE share

(* Which vehicles a run moves: those whose sampled or demanded zone is     *)
(* another one, within the share limit of each kind.                       *)
IdleMovements ==
  IF ~IdleRuns THEN {{}}
  ELSE {S \in SUBSET (Rested \cup (AVs \cap IdleVehicles)) :
          /\ Cardinality(S \cap HVs) <= EligibleLimit(Cardinality(Rested))
          /\ Cardinality(S \cap AVs) <= EligibleLimit(Cardinality(AVs \cap IdleVehicles))}

MatchEdges(moved) ==
  {e \in [request : Waiting \ OutOfPatience, vehicle : IdleVehicles \ moved,
          eta : PickupEtas] :
     /\ vehicles[e.vehicle].reserved = NoRequest
     /\ Validate(e.vehicle, e.request, clock', clock' + e.eta)}

(* Mutant: a vehicle may be matched with several requests.                 *)
SharedMatchings(moved) ==
  {M \in SUBSET MatchEdges(moved) : \A e, f \in M : e.request = f.request => e = f}

Matchings(moved) ==
  {M \in SUBSET MatchEdges(moved) :
     \A e, f \in M : e.request = f.request \/ e.vehicle = f.vehicle => e = f}

Releasing ==
  {v \in Vehicles :
     /\ vehicles[v].status = "SERVICE"
     /\ vehicles[v].leg # NoLeg
     /\ vehicles[v].leg.end <= clock' + PreassignHorizon
     /\ vehicles[v].reserved = NoRequest
     /\ ~BookHolds(v)
     /\ \A o \in offers : o.vehicle # v}

PreassignEdges(M) ==
  {e \in [request : (Waiting \ OutOfPatience) \ {m.request : m \in M},
          vehicle : Releasing] :
     \E arrival \in ProjectedPickups(vehicles[e.vehicle].leg.end, clock') :
       Validate(e.vehicle, e.request, clock', arrival)}

(* An HV could not answer before the deadline: the request is offered and  *)
(* taken back at once, and may still go to another vehicle.                *)
TooLate(e) == e.vehicle \in HVs /\ clock' + ResponseDelay >= LatestPickup[e.request]
Queued(P) == {e \in P : ~TooLate(e)}

(* Mutant: a vehicle goes on to the next request after its offer.          *)
SharedPreassignments(M) ==
  IF ~(PreassignmentEnabled /\ clock' % PreassignSec = 0) THEN {{}}
  ELSE {P \in SUBSET PreassignEdges(M) :
          /\ \A e, f \in P : e.request = f.request => e = f
          /\ Cardinality(Queued(P)) <= MaxOffers}

Preassignments(M) ==
  IF ~(PreassignmentEnabled /\ clock' % PreassignSec = 0) THEN {{}}
  ELSE {P \in SUBSET PreassignEdges(M) :
          /\ \A e, f \in P : e.request = f.request => e = f
          /\ \A e, f \in Queued(P) : e.vehicle = f.vehicle => e = f
          /\ Cardinality(Queued(P)) <= MaxOffers}

(* Mutant: an ordinary match keeps the metadata of an earlier edge.        *)
MatchedKeepsEconomics(q, e) ==
  IF e.vehicle \in HVs THEN Offer(q)
  ELSE StartRequest(Assign(q, e.vehicle), e.vehicle, Stop("PICKUP", e.request))

(* The edge's economics go into the request's metadata when it is chosen.  *)
Matched(q, e) ==
  LET chosen == [q EXCEPT !.econ = e.vehicle]
  IN  IF e.vehicle \in HVs THEN Offer(chosen)
      ELSE StartRequest(Assign(chosen, e.vehicle), e.vehicle, Stop("PICKUP", e.request))

Preassigned(q, e) ==
  LET chosen == [q EXCEPT !.econ = e.vehicle]
  IN  CASE TooLate(e) -> RejectOffer(Offer(chosen))
        [] ~TooLate(e) /\ e.vehicle \in HVs -> Offer(chosen)
        [] e.vehicle \in AVs /\ clock' < LatestPickup[e.request] -> Reserve(chosen, e.vehicle)
        [] OTHER -> [chosen EXCEPT !.status = "RAISED"]

RequestsOf(S) == {e.request : e \in S}
OfHVs(S) == {e \in S : e.vehicle \in HVs}
OfAVs(S) == {e \in S : e.vehicle \in AVs}
EdgeOf(S, r) == CHOOSE e \in S : e.request = r
EdgeTo(S, v) == CHOOSE e \in S : e.vehicle = v

MovementPlan(v) == <<Stop(IF v \in HVs THEN "HV_REPOSITION" ELSE "AV_REBALANCE", NoRequest)>>

NewOffers(M, P) ==
  {[request |-> e.request, vehicle |-> e.vehicle, preassigned |-> FALSE, eta |-> e.eta,
    plan |-> AssignmentPlan(e.request)] : e \in OfHVs(M)}
  \cup
  {[request |-> e.request, vehicle |-> e.vehicle, preassigned |-> TRUE, eta |-> 0,
    plan |-> InsertAfterLockedStops(vehicles[e.vehicle].plan, e.request)] :
      e \in OfHVs(Queued(P))}

EpochVehicle(v, moved, ride, M, P) ==
  CASE v \in moved ->
         StartNextLeg(v, [vehicles[v] EXCEPT !.plan = MovementPlan(v)], clock', ride[v])
    [] \E e \in OfHVs(M) : e.vehicle = v -> [vehicles[v] EXCEPT !.status = "WAITING"]
    [] \E e \in OfAVs(M) : e.vehicle = v ->
         StartNextLeg(v, [vehicles[v] EXCEPT !.plan = AssignmentPlan(EdgeTo(M, v).request)],
                      clock', EdgeTo(M, v).eta)
    [] \E e \in OfAVs(P) : e.vehicle = v ->
         LET r == EdgeTo(OfAVs(P), v).request
         IN  [vehicles[v] EXCEPT !.reserved = r, !.plan = InsertAfterLockedStops(@, r)]
    [] OTHER -> vehicles[v]

EpochRequest(r, M, P) ==
  CASE r \in OutOfPatience -> Transition(requests[r], "CANCELLED")
    [] r \in RequestsOf(M) -> Matched(requests[r], EdgeOf(M, r))
    [] r \in RequestsOf(P) -> Preassigned(requests[r], EdgeOf(P, r))
    [] OTHER -> requests[r]

EpochEvents(moved, M, P) ==
  {LegEvent(v, vehicles'[v]) : v \in moved \cup {e.vehicle : e \in OfAVs(M)}}
  \cup {SimulationEvent(clock' + ResponseDelay, "DRIVER_RESPONSE", <<o.request, o.vehicle>>) :
          o \in NewOffers(M, P)}
  \cup {SimulationEvent(LatestPickup[r], "RESERVATION_EXPIRED", r) :
          r \in RequestsOf(OfAVs(P))}

(* The epoch that makes these movements, matches and preassignments.       *)
Decide(moved, ride, M, P) ==
  /\ requests' = [r \in Requests |-> EpochRequest(r, M, P)]
  /\ vehicles' = [v \in Vehicles |-> EpochVehicle(v, moved, ride, M, P)]
  /\ index' = IndexReserve(IndexAssign(IndexOffer(IndexExpire(index, OutOfPatience),
                  RequestsOf(OfHVs(M) \cup OfHVs(Queued(P)))),
                RequestsOf(OfAVs(M))), RequestsOf(OfAVs(P)))
  /\ offers' = offers \cup NewOffers(M, P)
  /\ book' = [r \in Requests |-> IF r \in RequestsOf(OfAVs(P)) THEN EdgeOf(P, r).vehicle
                                                            ELSE book[r]]
  /\ events' = Rest("DECISION_EPOCH", FleetController) \cup EpochEvents(moved, M, P)
  /\ idleSince' = IF ~IdleRuns THEN idleSince
                  ELSE [v \in HVs |-> IF v \in moved THEN NoTime ELSE IdleClock(v)]

DecisionEpoch ==
  /\ Pop("DECISION_EPOCH", FleetController)
  /\ \E moved \in IdleMovements :
     \E ride \in [moved -> MoveTimes], M \in Matchings(moved) :
     \E P \in Preassignments(M) : Decide(moved, ride, M, P)
  /\ UNCHANGED finalized

-----------------------------------------------------------------------------
(* The loop has handled every event up to End: run() cancels the requests  *)
(* still pending, offered or reserved.                                     *)
Finalize ==
  LET open == {r \in index.pending \cup index.offered \cup index.reserved :
                 requests[r].status \notin TerminalStatus}
  IN  /\ ~finalized /\ ~Raised
      /\ \A e \in events : e.at > End
      /\ finalized' = TRUE
      /\ requests' = [r \in Requests |-> IF r \in open THEN Transition(requests[r], "CANCELLED")
                                                       ELSE requests[r]]
      /\ index' = [index EXCEPT !.pending = @ \ open, !.offered = @ \ open,
                                !.reserved = @ \ open, !.cancelled = @ \cup open]
      /\ book' = [r \in Requests |-> IF r \in open /\ requests[r].reserved # NoVehicle
                                     THEN NoVehicle ELSE book[r]]
      /\ UNCHANGED <<clock, priority, events, vehicles, offers, idleSince>>

(* run() has returned, or an exception has ended it.                       *)
Returned == (finalized \/ Raised) /\ UNCHANGED vars

Init ==
  /\ clock = 0
  /\ priority = 0
  /\ events = {SimulationEvent(RequestTime[r], "REQUEST_REVEALED", r) : r \in Requests}
         \cup {SimulationEvent(OnlineStart[v], "HV_SESSION_START", v) : v \in Vehicles}
         \cup {SimulationEvent(OnlineEnd[v], "HV_SESSION_END", v) : v \in Vehicles}
         \cup {SimulationEvent(t, "DECISION_EPOCH", FleetController) :
                 t \in {n \in 0..End : n % EpochSec = 0}}
  /\ requests = [r \in Requests |-> [status |-> "UNREVEALED", assigned |-> NoVehicle,
                                     reserved |-> NoVehicle, econ |-> NoVehicle]]
  /\ vehicles = [v \in Vehicles |-> [status |-> "OFFLINE", leg |-> NoLeg, plan |-> <<>>,
                                     reserved |-> NoRequest]]
  /\ index = [pending |-> {}, offered |-> {}, reserved |-> {}, completed |-> {},
              cancelled |-> {}]
  /\ offers = {}
  /\ book = [r \in Requests |-> NoVehicle]
  /\ idleSince = [v \in HVs |-> NoTime]
  /\ finalized = FALSE

Next ==
  \/ \E r \in Requests : RequestRevealed(r)
  \/ \E v \in Vehicles : SessionStart(v)
  \/ \E v \in Vehicles : SessionEnd(v)
  \/ \E v \in Vehicles : LegCompleted(v)
  \/ \E v \in Vehicles : LegCompletedPromote(v)
  \/ \E v \in Vehicles : LegCompletedInvalidate(v)
  \/ \E r \in Requests : ReservationExpired(r)
  \/ \E r \in Requests : StaleReservationExpiry(r)
  \/ \E r \in Requests : PlanInvalidated(r)
  \/ \E o \in offers : ResponseTimeout(o)
  \/ \E o \in offers : VehicleNotWaiting(o)
  \/ \E o \in offers : DriverRejects(o)
  \/ \E o \in offers : InsertsTooLate(o)
  \/ \E o \in offers : AcceptsReservation(o)
  \/ \E o \in offers : AcceptsAssignment(o)
  \/ DecisionEpoch
  \/ Finalize
  \/ Returned

(* One thread runs the loop until the queue holds nothing up to End.       *)
Spec == Init /\ [][Next]_vars /\ WF_vars(Next)
-----------------------------------------------------------------------------
RequestRecord ==
  [status : RequestStatus, assigned : Vehicles \cup {NoVehicle},
   reserved : Vehicles \cup {NoVehicle}, econ : Vehicles \cup {NoVehicle}]

LegRecord ==
  {leg \in [kind : {"NONE", "PICKUP", "SERVICE", "HV_REPOSITION", "AV_REBALANCE"},
            request : Requests \cup {NoRequest}, end : Nat] :
     leg.kind \in {"PICKUP", "SERVICE"} => leg.request \in Requests}

PlanStop ==
  {stop \in [kind : {"PICKUP", "DROP_OFF", "HV_REPOSITION", "AV_REBALANCE"},
             request : Requests \cup {NoRequest}] :
     stop.kind \in {"PICKUP", "DROP_OFF"} => stop.request \in Requests}

VehicleRecord ==
  [status : {"OFFLINE", "IDLE", "WAITING", "PICKUP", "SERVICE", "REPOSITIONING",
             "REBALANCING"},
   leg : LegRecord, plan : Seq(PlanStop), reserved : Requests \cup {NoRequest}]

OfferRecord ==
  {o \in [request : Requests, vehicle : HVs, preassigned : BOOLEAN, eta : Nat,
          plan : Seq(PlanStop)] :
     ~o.preassigned => o.plan = AssignmentPlan(o.request)}

(* Types of the engine's state; an offer is made to a human driver, and an *)
(* ordinary one carries the plan of its own request.                       *)
TypeOK ==
  /\ clock \in Nat /\ priority \in 0..9
  /\ \A e \in events : e.at \in Nat /\ e.kind \in EventType
  /\ requests \in [Requests -> RequestRecord]
  /\ vehicles \in [Vehicles -> VehicleRecord]
  /\ index \in [pending : SUBSET Requests, offered : SUBSET Requests,
                reserved : SUBSET Requests, completed : SUBSET Requests,
                cancelled : SUBSET Requests]
  /\ offers \subseteq OfferRecord
  /\ book \in [Requests -> Vehicles \cup {NoVehicle}]
  /\ idleSince \in [HVs -> Nat \cup {NoTime}]
  /\ finalized \in BOOLEAN

(* No handler raises: every lifecycle transition asked for is in           *)
(* LEGAL_TRANSITIONS and every reservation created is open, so that the    *)
(* audit's unhandled_event_count is zero.                                  *)
NoHandlerRaises == ~Raised

(* A passenger is with exactly one vehicle: PICKUP_STARTED and IN_SERVICE  *)
(* requests are each the leg of their assigned vehicle and of no other,    *)
(* no other status has a leg, and between two events no request rests in   *)
(* ASSIGNED or BOARDED, where no event would ever move it on.              *)
LegStatus == [PICKUP |-> "PICKUP_STARTED", SERVICE |-> "IN_SERVICE"]
OnLeg(r, v) == vehicles[v].leg.kind \in DOMAIN LegStatus /\ vehicles[v].leg.request = r

OneVehiclePerRide ==
  \A r \in Requests :
    /\ requests[r].status \notin {"ASSIGNED", "BOARDED"}
    /\ requests[r].status \in {"PICKUP_STARTED", "IN_SERVICE"} <=>
         \E v \in Vehicles : OnLeg(r, v)
    /\ \A v \in Vehicles :
         OnLeg(r, v) => /\ requests[r].status = LegStatus[vehicles[v].leg.kind]
                        /\ requests[r].assigned = v

(* Every leg will end: a vehicle has a leg exactly when its LEG_COMPLETED  *)
(* is queued, once, at the leg's end; a completion never finds no leg.     *)
EveryLegWillEnd ==
  \A v \in Vehicles :
    {e \in events : e.kind = "LEG_COMPLETED" /\ e.id = v} =
      IF vehicles[v].leg = NoLeg THEN {} ELSE {LegEvent(v, vehicles[v])}

(* What a request, its vehicle and the event queue say of a ride agree:    *)
(* the passenger is with exactly one vehicle, and its leg will end.        *)
RideRecordsAgree == OneVehiclePerRide /\ EveryLegWillEnd

(* The reservation whose failed revalidation waits for PLAN_INVALIDATED.   *)
Stranded == {r \in Requests : \E e \in events : e.kind = "PLAN_INVALIDATED" /\ e.id = r}

(* The four places that record a reservation agree: request status and     *)
(* pointer, the vehicle's pointer, the reserved id set, and the manager's  *)
(* map -- except for a reservation the revalidation has just closed, whose *)
(* other three are cleaned up by an event due at this very instant.        *)
ReservationAgreement ==
  ~finalized =>
    /\ \A r \in Requests :
         /\ requests[r].status = "RESERVED" <=> requests[r].reserved # NoVehicle
         /\ book[r] = IF r \in Stranded THEN NoVehicle ELSE requests[r].reserved
         /\ \A v \in Vehicles : requests[r].reserved = v <=> vehicles[v].reserved = r
    /\ \A e \in events : e.kind = "PLAN_INVALIDATED" => e.at = clock

(* The future stops of a vehicle are what its state says: the drop-off of  *)
(* the passenger being fetched, then the reserved ride; nothing that was   *)
(* released, expired or overwritten lingers in a plan.                     *)
PlanMatchesState ==
  ~finalized =>
    \A v \in Vehicles :
      vehicles[v].plan =
        (IF vehicles[v].leg.kind = "PICKUP" THEN <<Stop("DROP_OFF", vehicles[v].leg.request)>>
                                            ELSE <<>>)
        \o (IF vehicles[v].reserved = NoRequest THEN <<>>
            ELSE AssignmentPlan(vehicles[v].reserved))

(* A held vehicle is still on the ride it was held behind: an insertion    *)
(* plan "was built against the old locked leg and must not be installed    *)
(* after that leg disappears".                                             *)
HeldBehindItsRide ==
  \A v \in Vehicles :
    vehicles[v].reserved # NoRequest /\ vehicles[v].reserved \notin Stranded /\ ~finalized
      => vehicles[v].leg.kind = "SERVICE"

(* One open offer per offered request and per driver; its answer is        *)
(* queued and not overdue; a driver waits exactly for an ordinary offer,   *)
(* without a leg, so an accepted plan can start at once.                   *)
OfferDiscipline ==
  ~finalized =>
    /\ \A r \in Requests :
         requests[r].status = "OFFERED" <=> \E o \in offers : o.request = r
    /\ \A o, p \in offers : o.request = p.request \/ o.vehicle = p.vehicle => o = p
    /\ \A o \in offers :
         \E e \in events : e.kind = "DRIVER_RESPONSE" /\ e.id = <<o.request, o.vehicle>>
                             /\ e.at >= clock
    /\ \A e \in events :
         e.kind = "DRIVER_RESPONSE" => \E o \in offers : e.id = <<o.request, o.vehicle>>
    /\ \A v \in Vehicles :
         vehicles[v].status = "WAITING" => \E o \in offers : o.vehicle = v /\ ~o.preassigned
    /\ \A o \in offers :
         ~o.preassigned => vehicles[o.vehicle].leg = NoLeg
                             /\ vehicles[o.vehicle].status \in {"WAITING", "OFFLINE"}

(* The id sets the engine iterates over name exactly the requests in the   *)
(* corresponding status: a request missing from one would never be matched *)
(* or cancelled, and one left behind would be treated twice.               *)
IndexAgreement ==
  \A r \in Requests :
    /\ r \in index.pending <=> requests[r].status = "PENDING"
    /\ r \in index.offered <=> requests[r].status = "OFFERED"
    /\ r \in index.reserved <=> requests[r].status = "RESERVED"
    /\ r \in index.completed <=> requests[r].status = "COMPLETED"
    /\ r \in index.cancelled <=> requests[r].status = "CANCELLED"

(* Every copy of the requests' state agrees: the reservation pointers, the *)
(* plans of the vehicles and the id sets the engine iterates over.         *)
CopiesAgree == ReservationAgreement /\ PlanMatchesState /\ IndexAgreement

(* No request waits past its patience: by the first epoch after            *)
(* latest_pickup_time it is cancelled or a vehicle is under way, even if   *)
(* an offer or a reservation was open when the deadline passed.            *)
PatienceHonoured ==
  \A r \in Requests :
    requests[r].status \in {"PENDING", "OFFERED", "RESERVED"}
      => clock <= LatestPickup[r] + EpochSec

(* A vehicle on its way reaches the passenger by latest_pickup_time; only  *)
(* an HV that accepted an ordinary offer may be late, by the response      *)
(* delay the plan did not count.                                           *)
PickupOnTime ==
  \A v \in Vehicles :
    vehicles[v].leg.kind = "PICKUP" =>
      vehicles[v].leg.end <=
        LatestPickup[vehicles[v].leg.request] + IF v \in HVs THEN ResponseDelay ELSE 0

(* latest_pickup_time is kept towards every request: nobody is left        *)
(* waiting past it, and no vehicle is sent that arrives after it.          *)
DeadlinesHonoured == PatienceHonoured /\ PickupOnTime

(* The revenue of a completed ride is booked with the economics of the     *)
(* vehicle that drove it: request metadata are overwritten by every edge   *)
(* chosen for the request, also by those that lead nowhere.                *)
EconomicsOfTheDriver ==
  \A r \in Requests :
    requests[r].status \in {"PICKUP_STARTED", "IN_SERVICE", "COMPLETED"}
      => requests[r].econ = requests[r].assigned

(* At the end of the day every request is completed or cancelled and every *)
(* reservation is closed (completed_plus_cancelled, reservation_cycle).    *)
DayIsClosed ==
  finalized => /\ \A r \in Requests : requests[r].status \in TerminalStatus
               /\ \A r \in Requests : book[r] = NoVehicle

(* Events are handled in time order and, at one instant, in priority       *)
(* order, as the audit checks: no handler pushes an event that should have *)
(* been handled before it.                                                 *)
EventOrder ==
  [][clock' # clock \/ priority' # priority =>
       NoLaterThan(clock, priority, clock', priority')]_vars

(* A leg starts only inside its vehicle's session                          *)
(* (leg_started_before_online, leg_started_after_online_end).              *)
LegsStartInSession ==
  [][\A v \in Vehicles :
       vehicles'[v].leg # vehicles[v].leg /\ vehicles'[v].leg # NoLeg
         => OnlineStart[v] <= clock' /\ clock' <= OnlineEnd[v]]_vars

(* A revealed request is eventually completed or cancelled: no offer,      *)
(* reservation or leg can hold it for ever.                                *)
EveryRequestCloses ==
  \A r \in Requests :
    requests[r].status = "PENDING" ~> requests[r].status \in TerminalStatus

(* The engine implements the ride service of the passenger's view.         *)
Service == INSTANCE RideService WITH
  phase <- [r \in Requests |->
    CASE requests[r].status = "UNREVEALED" -> "hidden"
      [] requests[r].status \in {"PENDING", "OFFERED", "RESERVED"} -> "waiting"
      [] requests[r].status \in {"ASSIGNED", "PICKUP_STARTED"} -> "committed"
      [] requests[r].status \in {"BOARDED", "IN_SERVICE"} -> "aboard"
      [] requests[r].status = "COMPLETED" -> "served"
      [] OTHER -> "lost"],
  carrier <- [r \in Requests |-> requests[r].assigned]

ServiceSpec == Service!Spec

(* The vehicle pointers of the requests implement the reservation book:    *)
(* no vehicle is held for two requests and none changes hands in an event. *)
Pointers == INSTANCE ReservationBook WITH
  holder <- [r \in Requests |-> requests[r].reserved]

PointersSpec == Pointers!Spec
=============================================================================
