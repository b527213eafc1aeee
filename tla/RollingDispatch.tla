--------------------------- MODULE RollingDispatch --------------------------
(***************************************************************************)
(* The Stage 4 rolling dispatch run: FleetPy's clock steps by the dispatch *)
(* interval, and at every step moves the vehicles (native_fleet_control),  *)
(* hands over the new requests and calls time_trigger                      *)
(* (dispatch/rolling_or_control), which expires requests out of patience,  *)
(* builds the feasible arcs and assigns the arcs the lexicographic solver  *)
(* (dispatch/solver) selects under the cumulative budget of AV exposure    *)
(* (dispatch/exposure).  Pickup ETAs are open at every step; exposure is   *)
(* one family of excesses, in integral units.                              *)
(***************************************************************************)
EXTENDS Naturals, FiniteSets, FiniteSetsExt

CONSTANTS Requests, Vehicles, None,
  AV, Session,        \* sets of vehicles: AVs, and those of policy
                      \* EMPIRICAL_SESSION; the others finish what they took
  Start, End,         \* [Vehicles -> Nat]: the availability windows
  RequestTime,        \* [Requests -> Nat]: sim_time_s
  Excesses, Gamma,    \* exposures an order may have, and the mean allowed
  Predicted, Services,\* service time predicted, and those realized
  Etas, Overhead,     \* pickup ETAs, and additional_pickup_overhead_s
  Interval, MaxWait, DemandEnd

MatchingEnd == DemandEnd + MaxWait
RoundedUp(s) == ((s + Interval - 1) \div Interval) * Interval

(* drain_seconds: the last rides have the longest service time to finish.  *)
SimulationEnd == MatchingEnd + RoundedUp(Max(Services)) + Interval

Ride == [request : Requests, pickup : Nat, dropoff : Nat]
Arc == [vehicle : Vehicles, request : Requests, eta : Nat]

(* The configurations: intervals divide the waiting time and the demand    *)
(* period, and boarding takes at most an interval.                         *)
ASSUME DispatchAssumption ==
  /\ Interval \in Nat \ {0} /\ {MaxWait, DemandEnd, Overhead, Gamma, Predicted} \subseteq Nat
  /\ MaxWait >= Interval /\ DemandEnd % Interval = 0 /\ MaxWait % Interval = 0
  /\ Overhead <= Interval
  /\ Excesses \subseteq Nat /\ Etas \subseteq Nat /\ Services \subseteq Nat /\ Services # {}
  /\ Start \in [Vehicles -> Nat] /\ End \in [Vehicles -> Nat]
  /\ RequestTime \in [Requests -> 0..DemandEnd]
  /\ AV \subseteq Vehicles /\ Session \subseteq Vehicles /\ IsFiniteSet(Requests)
  /\ None \notin Requests \cup Vehicles \cup Nat \cup Ride

VARIABLES
  now, phase,         \* sim_time, and what FleetPy calls next
  exposure,           \* [Requests -> excess, or None: no AV may take it]
  waiting,            \* demand.waiting_rq that are not assigned
  critical, carried,  \* request_meta: entered_critical, carry_over_flag
  expired,            \* expired_rids
  assigned,           \* rid_to_assigned_vid
  route,              \* [Vehicles -> the plan FleetPy drives, or None]
  active,             \* [Vehicles -> active_order_id, or None]
  boarded, completed, \* requests with a pickup_time, completed_rids
  avs, excess,        \* exposure_state
  arcs                \* the arcs of the last time_trigger

meta == <<critical, carried>>
service == <<boarded, completed>>
exposureState == <<avs, excess>>
vars == <<now, phase, exposure, waiting, meta, expired, assigned, route, active,
          service, exposureState, arcs>>

Deadline(r) == RequestTime[r] + MaxWait

Init ==
  /\ now = 0 /\ phase = "move"
  /\ exposure \in [Requests -> Excesses \cup {None}]
  /\ waiting = {} /\ critical = {} /\ carried = {} /\ expired = {}
  /\ assigned = [r \in Requests |-> None]
  /\ route = [v \in Vehicles |-> None] /\ active = [v \in Vehicles |-> None]
  /\ boarded = {} /\ completed = {}
  /\ avs = 0 /\ excess = 0 /\ arcs = {}

-----------------------------------------------------------------------------
(* FleetPy moves the vehicles up to now: acknowledge_boarding at the       *)
(* pickup, acknowledge_alighting at the end of the ride.                   *)
Boarding == {v \in Vehicles : route[v] # None /\ route[v].pickup <= now}
Alighting == {v \in Vehicles : route[v] # None /\ route[v].dropoff <= now}

(* Mutant: the order stays with the vehicle that delivered it.             *)
StaysActive == active

AfterAlighting == [v \in Vehicles |-> IF v \in Alighting THEN None ELSE active[v]]

Move ==
  /\ phase = "move" /\ phase' = "activate"
  /\ boarded' = boarded \cup {route[v].request : v \in Boarding}
  /\ completed' = completed \cup {route[v].request : v \in Alighting}
  /\ route' = [v \in Vehicles |-> IF v \in Alighting THEN None ELSE route[v]]
  /\ active' = AfterAlighting
  /\ UNCHANGED <<now, exposure, waiting, meta, expired, assigned, exposureState, arcs>>

(* user_request, for every request that FleetPy's demand has come to.      *)
Known == waiting \cup expired \cup {r \in Requests : assigned[r] # None}

Activate ==
  /\ phase = "activate" /\ phase' = "trigger"
  /\ waiting' = waiting \cup {r \in Requests \ Known : RequestTime[r] <= now}
  /\ UNCHANGED <<now, exposure, meta, expired, assigned, route, active, service,
                 exposureState, arcs>>

-----------------------------------------------------------------------------
(* Mutant: patience runs out one round before the deadline.                *)
ExpiresEarly(r) == now + Interval >= Deadline(r)

(* Mutant: patience lasts beyond the deadline.                             *)
ExpiresLate(r) == now > Deadline(r)

PatienceExpired(r) == now >= Deadline(r)

Expiring == {r \in waiting : PatienceExpired(r)}

Critical(r) == Deadline(r) - now <= Interval

Available(v) == route[v] = None /\ active[v] = None /\ Start[v] <= now /\ now < End[v]

(* An arc is feasible when the pickup is within the patience left and,     *)
(* for a session vehicle, the service is predicted to end in its session.  *)
Feasible(a) ==
  /\ Available(a.vehicle)
  /\ now + a.eta <= Deadline(a.request)
  /\ a.vehicle \in AV => exposure[a.request] # None
  /\ a.vehicle \in Session => now + a.eta + Predicted + Overhead <= End[a.vehicle]

(* The routing estimates of a round: at most one ETA for every pair.       *)
ArcsOf(eta) ==
  {a \in {[vehicle |-> p[1], request |-> p[2], eta |-> eta[p]] :
            p \in {q \in DOMAIN eta : eta[q] # None}} : Feasible(a)}

IsMatching(S) ==
  \A a, b \in S : a # b => a.vehicle # b.vehicle /\ a.request # b.request

(* The exposure of a set of requests, a point for each unit of it.         *)
Points(R) == UNION {{r} \X (1..exposure[r]) : r \in R}
Burden(R) == Cardinality(Points(R))

(* A matching has one arc for each of its requests.                        *)
AVArcs(S) == {a \in S : a.vehicle \in AV}
ExcessOf(S) == Burden({a.request : a \in AVArcs(S)})

WithinBudget(S) == excess + ExcessOf(S) <= Gamma * (avs + Cardinality(AVArcs(S)))

Selections(A) == {S \in SUBSET A : IsMatching(S) /\ WithinBudget(S)}

CriticalCount(S) == Cardinality({a \in S : Critical(a.request)})
CarriedCount(S) == Cardinality({a \in S : a.request \in carried})
EtaSum(S) == MapThenSumSet(LAMBDA a : a.eta, S)

Most(F, Measure(_)) ==
  LET best == Max({Measure(S) : S \in F}) IN {S \in F : Measure(S) = best}
Least(F, Measure(_)) ==
  LET best == Min({Measure(S) : S \in F}) IN {S \in F : Measure(S) = best}

(* solve_lexicographic: critical requests, then matches, then requests     *)
(* carried over, then the least total pickup ETA.                          *)
Solve(A) ==
  Least(Most(Most(Most(Selections(A), CriticalCount), Cardinality), CarriedCount), EtaSum)

(* _assign: the vehicle drives to the pickup, boards, and serves for the   *)
(* time that is realized, whatever was predicted.                          *)
Assigned(S, realized) ==
  [v \in Vehicles |->
     IF \E a \in S : a.vehicle = v
     THEN LET a == CHOOSE b \in S : b.vehicle = v
          IN [request |-> a.request, pickup |-> now + a.eta,
              dropoff |-> now + a.eta + Overhead + realized[a.request]]
     ELSE route[v]]

Expire ==
  /\ expired' = expired \cup Expiring
  /\ critical' = critical \cup {r \in waiting \ Expiring : Critical(r)}

Left(S) == (waiting \ Expiring) \ {a.request : a \in S}

Dispatch(S) ==
  /\ \E realized \in [{a.request : a \in S} -> Services] : route' = Assigned(S, realized)
  /\ active' = [v \in Vehicles |-> IF \E a \in S : a.vehicle = v
                                   THEN (CHOOSE a \in S : a.vehicle = v).request
                                   ELSE active[v]]
  /\ assigned' = [r \in Requests |-> IF \E a \in S : a.request = r
                                     THEN (CHOOSE a \in S : a.request = r).vehicle
                                     ELSE assigned[r]]
  /\ waiting' = Left(S)
  /\ carried' = carried \cup waiting'

(* Mutant: what is dispatched is recorded as it is assigned, and again.    *)
ExposeTwice(S) ==
  /\ avs' = avs + 2 * Cardinality(AVArcs(S))
  /\ excess' = excess + 2 * ExcessOf(S)

(* exposure_state.update, validated against gamma in the code.             *)
Expose(S) ==
  /\ avs' = avs + Cardinality(AVArcs(S))
  /\ excess' = excess + ExcessOf(S)

MatchingRuns == now <= MatchingEnd

Trigger ==
  /\ phase = "trigger" /\ MatchingRuns /\ phase' = "tick"
  /\ Expire
  /\ \E eta \in [{v \in Vehicles : Available(v)} \X (waiting \ Expiring)
                   -> Etas \cup {None}] :
       /\ arcs' = ArcsOf(eta)
       /\ \E S \in Solve(arcs') : Dispatch(S) /\ Expose(S)
  /\ UNCHANGED <<now, exposure, service>>

TriggerAfterMatching ==
  /\ phase = "trigger" /\ ~MatchingRuns /\ phase' = "tick"
  /\ arcs' = {}
  /\ UNCHANGED <<now, exposure, waiting, meta, expired, assigned, route, active,
                 service, exposureState>>

(* RollingRuntimeGuardExceeded ends the run at a dispatch boundary.        *)
GuardExceeded ==
  /\ phase = "trigger" /\ phase' = "aborted"
  /\ UNCHANGED <<now, exposure, waiting, meta, expired, assigned, route, active,
                 service, exposureState, arcs>>

Tick ==
  /\ phase = "tick"
  /\ \/ now < SimulationEnd /\ now' = now + Interval /\ phase' = "move"
     \/ now >= SimulationEnd /\ now' = now /\ phase' = "ended"
  /\ arcs' = {}
  /\ UNCHANGED <<exposure, waiting, meta, expired, assigned, route, active,
                 service, exposureState>>

Next == Move \/ Activate \/ Trigger \/ TriggerAfterMatching \/ GuardExceeded \/ Tick

Spec == Init /\ [][Next]_vars
(* FleetPy's run loop calls the next thing as long as nothing is raised.   *)
FairSpec == Spec /\ WF_vars(Next)

-----------------------------------------------------------------------------
(* A request is in one place only, and the clock stays on the steps.       *)
TypeOK ==
  /\ now \in Nat /\ phase \in {"move", "activate", "trigger", "tick", "ended", "aborted"}
  /\ exposure \in [Requests -> Nat \cup {None}]
  /\ {waiting, critical, carried, expired, boarded, completed} \subseteq SUBSET Requests
  /\ assigned \in [Requests -> Vehicles \cup {None}]
  /\ route \in [Vehicles -> Ride \cup {None}]
  /\ active \in [Vehicles -> Requests \cup {None}]
  /\ avs \in Nat /\ excess \in Nat /\ arcs \subseteq Arc
  /\ waiting \cap (expired \cup {r \in Requests : assigned[r] # None}) = {}

(* The mean exposure of the requests that were really given to an AV, over *)
(* the whole run, is within the allowance, and the running totals from     *)
(* which each round takes what is left of it have counted every one of     *)
(* them once: none twice, none late, none that was not dispatched          *)
(* (exposure.py:53), so that validate() never raises (exposure.py:79).     *)
ByAV == {r \in Requests : assigned[r] \in AV}
ExposureWithinBudget ==
  /\ avs = Cardinality(ByAV) /\ excess = Burden(ByAV)
  /\ Burden(ByAV) <= Gamma * Cardinality(ByAV)

(* The three records of a ride agree at every tick: FleetPy's route, the   *)
(* active order of the vehicle and the vehicle of the request              *)
(* (the *_reconciliation_failures of native_fleet_control.py stay zero).   *)
RidesAgree ==
  /\ \A v \in Vehicles : active[v] = IF route[v] = None THEN None ELSE route[v].request
  /\ \A r \in Requests : r \in completed \/ assigned[r] = None
                           <=> \A v \in Vehicles : active[v] # r
  /\ \A v \in Vehicles : active[v] # None => assigned[active[v]] = v

(* No request runs out of patience without a round in which it was         *)
(* critical, and so first in the solver's order.                           *)
LastChance == expired \subseteq critical

(* An HV that could have taken a request nobody took went to another one   *)
(* in this round, and to a critical one when the request was critical.     *)
NoVehicleWithheld ==
  phase = "tick" =>
    \A a \in arcs : a.vehicle \notin AV /\ assigned[a.request] = None =>
      LET taken == active[a.vehicle]
      IN taken # None /\ (a.request \in critical => taken \in critical)

(* When matching is over every request is either matched or expired, and   *)
(* not both (terminal_outcome_mismatch, rolling_or_runner.py:180).         *)
EveryRequestHasAnOutcome ==
  /\ \A r \in expired : assigned[r] = None
  /\ phase = "tick" /\ now >= MatchingEnd =>
       \A r \in Requests : assigned[r] # None \/ r \in expired

(* Patience is kept towards everybody: no request expires unseen, and none *)
(* is left without an outcome.                                             *)
PatienceIsFair == LastChance /\ EveryRequestHasAnOutcome

(* The simulation goes on long enough for every ride to end.               *)
EveryRideEnds ==
  phase = "ended" => \A r \in Requests : assigned[r] # None => r \in boarded /\ r \in completed

(* Unless the run is aborted, whoever waits is taken or told in the end,   *)
(* no vehicle that could help is kept back on the way, and the run ends    *)
(* with every ride delivered.                                              *)
EveryoneIsAnswered ==
  /\ [](TypeOK /\ NoVehicleWithheld /\ EveryRideEnds)
  /\ \A r \in Requests : r \in waiting ~> (r \notin waiting \/ phase = "aborted")
  /\ <>(phase \in {"ended", "aborted"})
=============================================================================
