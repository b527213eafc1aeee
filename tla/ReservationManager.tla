------------------------- MODULE ReservationManager -------------------------
(***************************************************************************)
(* The reservation ledger of simulator_v3/preassignment: two dictionaries  *)
(* that must stay inverse to each other, the append-only log of records    *)
(* they must agree with, and the failure log.  The actions are the calls   *)
(* the event engine makes; a call that raises changes nothing and is no    *)
(* action.  Timestamps are raw event times (nanoseconds in the code); what *)
(* is stored is floored to the microsecond, as _event_timestamp does.      *)
(***************************************************************************)
EXTENDS Integers, Sequences

CONSTANTS
  Requests,
  Vehicles,
  NoVehicle,
  NoRequest,
  NoTime,       (* close_time of a record that is still open (None).       *)
  Microsecond,  (* Clock ticks in one persisted microsecond.               *)
  MaxTime,      (* Bound: the last clock tick.                             *)
  MaxRecords    (* Bound: the length of the record log.                    *)

ASSUME NoVehicleAssumption == NoVehicle \notin Vehicles
ASSUME NoRequestAssumption == NoRequest \notin Requests
ASSUME NoTimeAssumption == NoTime \notin Nat
ASSUME BoundsAssumption == MaxTime \in Nat /\ MaxRecords \in Nat
ASSUME MicrosecondAssumption == Microsecond \in Nat \ {0}

VARIABLES
  requestToVehicle,
  vehicleToRequest,
  records,          (* Log of ReservationRecords, in creation order.       *)
  failureRecords,   (* Failure entries, one per record closed by release.  *)
  now               (* The event time handed to the calls.                 *)

vars == <<requestToVehicle, vehicleToRequest, records, failureRecords, now>>

FailureStatus == {"RELEASED", "EXPIRED", "INVALIDATED"}
RecordStatus == FailureStatus \cup {"ACTIVE", "COMPLETED"}
Record == [request : Requests, vehicle : Vehicles, create : Nat, expiry : Nat,
           status : RecordStatus, close : Nat \cup {NoTime}]
Failure == [record : Nat, request : Requests, vehicle : Vehicles,
            time : Nat, event : FailureStatus]

EventTimestamp(t) == (t \div Microsecond) * Microsecond

(* Mutant: the search does not look at the status.                         *)
AnyRecords(r) == {i \in DOMAIN records : records[i].request = r}

(* The open records of a request; the code searches them from the newest.  *)
OpenRecords(r) ==
  {i \in DOMAIN records : records[i].request = r /\ records[i].status = "ACTIVE"}

Newest(r) == CHOOSE i \in OpenRecords(r) : \A j \in OpenRecords(r) : j <= i

(* active_for_request returns a record.                                    *)
ActiveForRequest(r) == requestToVehicle[r] # NoVehicle /\ OpenRecords(r) # {}

Init ==
  /\ requestToVehicle = [r \in Requests |-> NoVehicle]
  /\ vehicleToRequest = [v \in Vehicles |-> NoRequest]
  /\ records = <<>>
  /\ failureRecords = {}
  /\ now = 0

-----------------------------------------------------------------------------
(* Mutant: only the vehicle is checked to be free.                         *)
CreateForHolder(r, v, expiryTime) ==
  /\ Len(records) < MaxRecords
  /\ vehicleToRequest[v] = NoRequest
  /\ EventTimestamp(expiryTime) > EventTimestamp(now)
  /\ requestToVehicle' = [requestToVehicle EXCEPT ![r] = v]
  /\ vehicleToRequest' = [vehicleToRequest EXCEPT ![v] = r]
  /\ records' = Append(records, [request |-> r, vehicle |-> v,
                  create |-> EventTimestamp(now), expiry |-> EventTimestamp(expiryTime),
                  status |-> "ACTIVE", close |-> NoTime])
  /\ UNCHANGED <<failureRecords, now>>

Create(r, v, expiryTime) ==
  LET record == [request |-> r, vehicle |-> v,
                 create |-> EventTimestamp(now),
                 expiry |-> EventTimestamp(expiryTime),
                 status |-> "ACTIVE", close |-> NoTime]
  IN  /\ Len(records) < MaxRecords
      /\ requestToVehicle[r] = NoVehicle
      /\ vehicleToRequest[v] = NoRequest
      /\ record.expiry > record.create
      /\ requestToVehicle' = [requestToVehicle EXCEPT ![r] = v]
      /\ vehicleToRequest' = [vehicleToRequest EXCEPT ![v] = r]
      /\ records' = Append(records, record)
      /\ UNCHANGED <<failureRecords, now>>

(* Mutant: one of the two dictionaries is forgotten.                       *)
PopRequestOnly(r) ==
  /\ requestToVehicle' = [requestToVehicle EXCEPT ![r] = NoVehicle]
  /\ UNCHANGED vehicleToRequest

(* Both release and complete pop the two dictionaries and close the newest *)
(* open record of the request.                                             *)
Pop(r) ==
  /\ requestToVehicle' = [requestToVehicle EXCEPT ![r] = NoVehicle]
  /\ vehicleToRequest' =
       [v \in Vehicles |-> IF v = requestToVehicle[r] THEN NoRequest
                                                      ELSE vehicleToRequest[v]]

(* Mutant: the close time is not floored to the microsecond.               *)
ClosedRaw(record, status) == [record EXCEPT !.status = status, !.close = now]

Closed(record, status) ==
  [record EXCEPT !.status = status, !.close = EventTimestamp(now)]

(* Mutant: the vehicle is looked up after the dictionary was popped.       *)
FailureAfterPop(i, status) ==
  [record |-> i, request |-> records[i].request,
   vehicle |-> requestToVehicle'[records[i].request],
   time |-> EventTimestamp(now), event |-> status]

(* Mutant: the failure is stamped with the raw event time.                 *)
FailureRaw(i, status) ==
  [record |-> i, request |-> records[i].request, vehicle |-> records[i].vehicle,
   time |-> now, event |-> status]

FailureOf(i, status) ==
  [record |-> i, request |-> records[i].request,
   vehicle |-> records[i].vehicle,
   time |-> EventTimestamp(now), event |-> status]

Release(r, status) ==
  /\ Pop(r)
  /\ IF OpenRecords(r) = {}
     THEN UNCHANGED <<records, failureRecords>>
     ELSE /\ records' = [records EXCEPT ![Newest(r)] = Closed(@, status)]
          /\ failureRecords' = failureRecords \cup {FailureOf(Newest(r), status)}
  /\ UNCHANGED now

Complete(r) ==
  /\ Pop(r)
  /\ records' = IF OpenRecords(r) = {} THEN records
                ELSE [records EXCEPT ![Newest(r)] = Closed(@, "COMPLETED")]
  /\ UNCHANGED <<failureRecords, now>>

(* Mutant: an early expiry event is not dropped.                           *)
ExpireEarly(r) == ActiveForRequest(r) /\ Release(r, "EXPIRED")

(* RESERVATION_EXPIRED: the handler drops a stale or an early event.       *)
Expire(r) ==
  /\ ActiveForRequest(r)
  /\ now >= records[Newest(r)].expiry
  /\ Release(r, "EXPIRED")

(* PLAN_INVALIDATED: the handler drops the event of a closed reservation.  *)
Invalidate(r) ==
  /\ ActiveForRequest(r)
  /\ Release(r, "INVALIDATED")

(* The three outcomes of revalidate at the end of the locked service: the  *)
(* expiry is tested first; missing the pickup deadline or the end of the   *)
(* session invalidates; passing changes nothing that is modelled here.     *)
Revalidate(r) ==
  /\ ActiveForRequest(r)
  /\ IF EventTimestamp(now) >= records[Newest(r)].expiry
     THEN Release(r, "EXPIRED")
     ELSE Release(r, "INVALIDATED")

ExpireDue ==
  LET due == {i \in DOMAIN records :
                /\ ActiveForRequest(records[i].request)
                /\ i = Newest(records[i].request)
                /\ records[i].expiry <= EventTimestamp(now)}
      freed == {records[i].request : i \in due}
  IN  /\ due # {}
      /\ requestToVehicle' =
           [r \in Requests |-> IF r \in freed THEN NoVehicle ELSE requestToVehicle[r]]
      /\ vehicleToRequest' =
           [v \in Vehicles |-> IF \E r \in freed : requestToVehicle[r] = v
                               THEN NoRequest ELSE vehicleToRequest[v]]
      /\ records' =
           [i \in DOMAIN records |-> IF i \in due THEN Closed(records[i], "EXPIRED")
                                                  ELSE records[i]]
      /\ failureRecords' = failureRecords \cup {FailureOf(i, "EXPIRED") : i \in due}
      /\ UNCHANGED now

(* The engine moves on to its next event.                                  *)
Tick ==
  /\ now < MaxTime
  /\ now' = now + 1
  /\ UNCHANGED <<requestToVehicle, vehicleToRequest, records, failureRecords>>

Next ==
  \/ \E r \in Requests, v \in Vehicles, expiryTime \in 0..MaxTime : Create(r, v, expiryTime)
  \/ \E r \in Requests : Expire(r)
  \/ \E r \in Requests : Invalidate(r)
  \/ \E r \in Requests : Revalidate(r)
  \/ \E r \in Requests : Release(r, "RELEASED")
  \/ \E r \in Requests : Complete(r)
  \/ ExpireDue
  \/ Tick

Spec == Init /\ [][Next]_vars
-----------------------------------------------------------------------------
(* Type correctness of the ledger's five variables.                        *)
TypeOK ==
  /\ requestToVehicle \in [Requests -> Vehicles \cup {NoVehicle}]
  /\ vehicleToRequest \in [Vehicles -> Requests \cup {NoRequest}]
  /\ records \in Seq(Record)
  /\ failureRecords \subseteq Failure
  /\ now \in Nat

(* The two dictionaries are inverse to each other (inverse_map_pass).      *)
InverseMaps ==
  \A r \in Requests, v \in Vehicles :
    requestToVehicle[r] = v <=> vehicleToRequest[v] = r

(* The open records are exactly the items of request_to_vehicle            *)
(* (active_records_match_maps), and a request has at most one of them.     *)
ActiveRecordsMatchMaps ==
  /\ \A r \in Requests, v \in Vehicles :
       requestToVehicle[r] = v <=>
         \E i \in DOMAIN records :
           /\ records[i].request = r /\ records[i].vehicle = v
           /\ records[i].status = "ACTIVE"
  /\ \A i, j \in DOMAIN records :
       records[i].status = "ACTIVE" /\ records[j].status = "ACTIVE"
         /\ records[i].request = records[j].request => i = j

(* What ReservationManager.audit computes: it never reports FAIL, whatever *)
(* calls the engine made and in whatever order.                            *)
Audit == InverseMaps /\ ActiveRecordsMatchMaps

(* The lifetimes of the reservations of one vehicle, and those of one      *)
(* request, follow each other: the earlier record was closed, and not      *)
(* after the later one was created, whatever the flooring of timestamps.   *)
LifetimesDisjoint ==
  \A i, j \in DOMAIN records :
    i < j /\ (records[i].request = records[j].request
                \/ records[i].vehicle = records[j].vehicle)
      => /\ records[i].status # "ACTIVE"
         /\ records[i].close <= records[j].create

(* A record is marked EXPIRED only when its persisted close time has       *)
(* reached its persisted expiry, and a reservation outlives its creation:  *)
(* the raw event time of RESERVATION_EXPIRED is compared with a floored    *)
(* expiry, and the close time is floored again.                            *)
ExpiredIsDue ==
  \A i \in DOMAIN records :
    /\ records[i].create < records[i].expiry
    /\ records[i].status = "EXPIRED" => records[i].expiry <= records[i].close

(* The failure log holds one entry for every record that was released,     *)
(* expired or invalidated, with that record's vehicle, time and event, and *)
(* no entry for any other record.                                          *)
FailureLedger ==
  failureRecords =
    {[record |-> i, request |-> records[i].request, vehicle |-> records[i].vehicle,
      time |-> records[i].close, event |-> records[i].status] :
        i \in {k \in DOMAIN records : records[k].status \in FailureStatus}}

(* The log is append-only and a closed record is never touched again: a    *)
(* late expiry, invalidation or completion cannot rewrite how an earlier   *)
(* reservation of the same request ended.                                  *)
ClosedForever ==
  [][ /\ DOMAIN records \subseteq DOMAIN records'
      /\ \A i \in DOMAIN records :
           IF records[i].status = "ACTIVE"
           THEN records'[i].request = records[i].request
                  /\ records'[i].vehicle = records[i].vehicle
                  /\ records'[i].expiry = records[i].expiry
           ELSE records'[i] = records[i] ]_vars

(* The request-to-vehicle dictionary implements the reservation book.      *)
Book == INSTANCE ReservationBook WITH holder <- requestToVehicle

BookSpec == Book!Spec
=============================================================================
