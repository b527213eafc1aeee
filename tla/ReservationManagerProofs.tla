---------------------- MODULE ReservationManagerProofs ----------------------
(***************************************************************************)
(* The reservation ledger, for every number of requests, vehicles, records *)
(* and clock ticks: its safety invariants, that a closed record is never   *)
(* rewritten, and that the dictionaries implement the reservation book.    *)
(***************************************************************************)
EXTENDS ReservationManager, SequenceTheorems, TLAPS

-----------------------------------------------------------------------------
(* Flooring to the microsecond stays in Nat, never moves an event time     *)
(* forward, keeps order, and does nothing to a time already floored.       *)
LEMMA QuotientRemainder ==
  ASSUME NEW t \in Nat
  PROVE  /\ t \div Microsecond \in Nat
         /\ t % Microsecond \in 0..(Microsecond - 1)
         /\ t = EventTimestamp(t) + (t % Microsecond)
  BY MicrosecondAssumption, SMTT(30) DEF EventTimestamp

LEMMA ProductMonotone ==
  ASSUME NEW a \in Nat, NEW b \in Nat, a < b
  PROVE  a * Microsecond + Microsecond <= b * Microsecond
  BY MicrosecondAssumption, SMTT(30)

(* _event_timestamp returns a time, not later than the event, and is       *)
(* monotone and idempotent.                                                *)
LEMMA EventTimestampFloors ==
  ASSUME NEW t \in Nat
  PROVE  EventTimestamp(t) \in Nat /\ EventTimestamp(t) <= t
  BY QuotientRemainder, MicrosecondAssumption DEF EventTimestamp

LEMMA EventTimestampMonotone ==
  ASSUME NEW t \in Nat, NEW u \in Nat, t <= u
  PROVE  EventTimestamp(t) <= EventTimestamp(u)
<1>1. CASE (u \div Microsecond) < (t \div Microsecond)
  <2>1. EventTimestamp(u) + Microsecond <= EventTimestamp(t)
    BY <1>1, QuotientRemainder, ProductMonotone DEF EventTimestamp
  <2>2. QED
    BY <2>1, QuotientRemainder, EventTimestampFloors, MicrosecondAssumption
<1>2. CASE (u \div Microsecond) = (t \div Microsecond)
  BY <1>2, EventTimestampFloors DEF EventTimestamp
<1>3. CASE (t \div Microsecond) < (u \div Microsecond)
  <2>1. EventTimestamp(t) + Microsecond <= EventTimestamp(u)
    BY <1>3, QuotientRemainder, ProductMonotone DEF EventTimestamp
  <2>2. QED
    BY <2>1, EventTimestampFloors, MicrosecondAssumption
<1>4. QED
  BY <1>1, <1>2, <1>3, QuotientRemainder

LEMMA EventTimestampIdempotent ==
  ASSUME NEW t \in Nat
  PROVE  EventTimestamp(EventTimestamp(t)) = EventTimestamp(t)
<1> DEFINE f == EventTimestamp(t)
<1>1. f \in Nat
  BY EventTimestampFloors
<1>2. f = (t \div Microsecond) * Microsecond /\ t \div Microsecond \in Nat
  BY QuotientRemainder DEF EventTimestamp
<1>3. f = EventTimestamp(f) + (f % Microsecond)
      /\ f % Microsecond \in 0..(Microsecond - 1) /\ f \div Microsecond \in Nat
  BY <1>1, QuotientRemainder
<1>4. EventTimestamp(f) = (f \div Microsecond) * Microsecond
  BY DEF EventTimestamp
<1> HIDE DEF f
<1>5. ~ ((f \div Microsecond) < (t \div Microsecond))
  BY <1>1, <1>2, <1>3, <1>4, ProductMonotone, EventTimestampFloors, MicrosecondAssumption
<1>6. ~ ((t \div Microsecond) < (f \div Microsecond))
  BY <1>1, <1>2, <1>3, <1>4, ProductMonotone, EventTimestampFloors, MicrosecondAssumption
<1>7. f \div Microsecond = t \div Microsecond
  BY <1>2, <1>3, <1>5, <1>6
<1>8. QED
  BY <1>2, <1>4, <1>7 DEF f

-----------------------------------------------------------------------------
(* The inductive invariant.  Stamped is what the audited invariants do not *)
(* say: every persisted time is floored and lies in the past, so a record  *)
(* created now cannot precede the close of an earlier one, and the raw     *)
(* time of an expiry event that passes its guard floors past the expiry.   *)
Stamped ==
  \A i \in DOMAIN records :
    /\ records[i].create <= EventTimestamp(now)
    /\ EventTimestamp(records[i].expiry) = records[i].expiry
    /\ records[i].status # "ACTIVE" =>
         records[i].close \in Nat /\ records[i].close <= EventTimestamp(now)

IInv ==
  /\ TypeOK
  /\ Audit
  /\ Stamped
  /\ LifetimesDisjoint
  /\ ExpiredIsDue
  /\ FailureLedger

(* What release, complete and expire_due have in common: they close the    *)
(* open records D with one status and free what these records held.        *)
CloseStep(D, status) ==
  /\ D \subseteq {i \in DOMAIN records : records[i].status = "ACTIVE"}
  /\ status \in FailureStatus \cup {"COMPLETED"}
  /\ status = "EXPIRED" => \A i \in D : records[i].expiry <= EventTimestamp(now)
  /\ requestToVehicle' =
       [r \in Requests |-> IF \E i \in D : records[i].request = r
                           THEN NoVehicle ELSE requestToVehicle[r]]
  /\ vehicleToRequest' =
       [v \in Vehicles |-> IF \E i \in D : records[i].vehicle = v
                           THEN NoRequest ELSE vehicleToRequest[v]]
  /\ records' = [i \in DOMAIN records |-> IF i \in D THEN Closed(records[i], status)
                                                     ELSE records[i]]
  /\ failureRecords' = IF status = "COMPLETED" THEN failureRecords
                       ELSE failureRecords \cup {FailureOf(i, status) : i \in D}
  /\ UNCHANGED now

(* A record is read by its type.                                           *)
LEMMA RecordTypes ==
  ASSUME TypeOK, NEW i \in DOMAIN records
  PROVE  /\ records[i] \in Record
         /\ i \in Nat
         /\ records[i].request \in Requests
         /\ records[i].vehicle \in Vehicles
         /\ records[i].create \in Nat
         /\ records[i].expiry \in Nat
<1>1. i \in 1..Len(records) /\ Len(records) \in Nat
  BY LenProperties DEF TypeOK
<1>2. records[i] \in Record
  BY <1>1, ElementOfSeq DEF TypeOK
<1>3. QED
  BY <1>1, <1>2 DEF Record

(* An open record is unique to its request, so that the search from the    *)
(* newest record finds the only one, and to its vehicle.                   *)
LEMMA OpenRecordUnique ==
  ASSUME TypeOK, Audit, NEW i \in DOMAIN records, NEW j \in DOMAIN records,
         records[i].status = "ACTIVE", records[j].status = "ACTIVE",
         records[i].request = records[j].request \/ records[i].vehicle = records[j].vehicle
  PROVE  i = j
<1>1. requestToVehicle[records[i].request] = records[i].vehicle
      /\ requestToVehicle[records[j].request] = records[j].vehicle
  BY RecordTypes DEF Audit, ActiveRecordsMatchMaps
<1>2. vehicleToRequest[records[i].vehicle] = records[i].request
      /\ vehicleToRequest[records[j].vehicle] = records[j].request
  BY <1>1, RecordTypes DEF Audit, InverseMaps
<1>3. records[i].request = records[j].request
  BY <1>2
<1>4. QED
  BY <1>3 DEF Audit, ActiveRecordsMatchMaps

LEMMA NewestIsTheOne ==
  ASSUME TypeOK, Audit, NEW r \in Requests, OpenRecords(r) # {}
  PROVE  OpenRecords(r) = {Newest(r)}
<1>1. PICK i \in OpenRecords(r) : TRUE
  OBVIOUS
<1>2. OpenRecords(r) = {i}
  BY <1>1, OpenRecordUnique DEF OpenRecords
<1>3. i \in Nat
  BY <1>1, RecordTypes DEF OpenRecords
<1>4. Newest(r) = i
  BY <1>2, <1>3 DEF Newest
<1>5. QED
  BY <1>2, <1>4

(* A request that holds a vehicle holds it by its open record.             *)
LEMMA HolderHasRecord ==
  ASSUME TypeOK, Audit, NEW r \in Requests
  PROVE  /\ requestToVehicle[r] = NoVehicle <=> OpenRecords(r) = {}
         /\ \A i \in OpenRecords(r) : requestToVehicle[r] = records[i].vehicle
<1>1. ASSUME NEW i \in OpenRecords(r)
      PROVE  requestToVehicle[r] = records[i].vehicle /\ records[i].vehicle \in Vehicles
  BY <1>1, RecordTypes DEF Audit, ActiveRecordsMatchMaps, OpenRecords
<1>2. ASSUME requestToVehicle[r] # NoVehicle
      PROVE  OpenRecords(r) # {}
  BY <1>2 DEF TypeOK, Audit, ActiveRecordsMatchMaps, OpenRecords
<1>3. QED
  BY <1>1, <1>2, NoVehicleAssumption

-----------------------------------------------------------------------------
(* Popping the dictionaries frees exactly what the open record held.       *)
LEMMA PopFrees ==
  ASSUME TypeOK, Audit, NEW r \in Requests, Pop(r)
  PROVE  LET D == OpenRecords(r)
         IN  /\ requestToVehicle' =
                  [q \in Requests |-> IF \E i \in D : records[i].request = q
                                      THEN NoVehicle ELSE requestToVehicle[q]]
             /\ vehicleToRequest' =
                  [v \in Vehicles |-> IF \E i \in D : records[i].vehicle = v
                                      THEN NoRequest ELSE vehicleToRequest[v]]
<1> DEFINE D == OpenRecords(r)
<1>1. \A q \in Requests : (\E i \in D : records[i].request = q) <=> (q = r /\ D # {})
  BY DEF OpenRecords
<1>2. \A q \in Requests :
        requestToVehicle'[q] = IF \E i \in D : records[i].request = q
                               THEN NoVehicle ELSE requestToVehicle[q]
  BY <1>1, HolderHasRecord DEF Pop, TypeOK
<1>3. \A v \in Vehicles : (\E i \in D : records[i].vehicle = v) <=> v = requestToVehicle[r]
  BY HolderHasRecord, NoVehicleAssumption
<1>4. requestToVehicle' = [q \in Requests |-> requestToVehicle'[q]]
  BY DEF Pop, TypeOK
<1>5. QED
  BY <1>2, <1>3, <1>4 DEF Pop

LEMMA ReleaseCloses ==
  ASSUME TypeOK, Audit, NEW r \in Requests, NEW status \in FailureStatus,
         Release(r, status),
         status = "EXPIRED" =>
           \A i \in OpenRecords(r) : records[i].expiry <= EventTimestamp(now)
  PROVE  CloseStep(OpenRecords(r), status)
<1> DEFINE D == OpenRecords(r)
<1>0. status # "COMPLETED" /\ D \subseteq {i \in DOMAIN records : records[i].status = "ACTIVE"}
  BY DEF FailureStatus, OpenRecords
<1>1. records' = [i \in DOMAIN records |-> IF i \in D THEN Closed(records[i], status)
                                                      ELSE records[i]]
  <2>1. CASE D = {}
    <3>1. records' = records
      BY <2>1 DEF Release
    <3>2. records = [i \in DOMAIN records |-> records[i]]
      BY LenProperties DEF TypeOK
    <3>3. QED
      BY <2>1, <3>1, <3>2
  <2>2. CASE D # {}
    <3>1. records' = [records EXCEPT ![Newest(r)] = Closed(@, status)]
      BY <2>2 DEF Release
    <3>2. D = {Newest(r)} /\ Newest(r) \in DOMAIN records
      BY <2>2, NewestIsTheOne DEF OpenRecords
    <3>3. QED
      BY <3>1, <3>2
  <2>3. QED
    BY <2>1, <2>2
<1>2. failureRecords' = failureRecords \cup {FailureOf(i, status) : i \in D}
  BY NewestIsTheOne DEF Release
<1>3. QED
  BY <1>0, <1>1, <1>2, PopFrees DEF Release, CloseStep

LEMMA CompleteCloses ==
  ASSUME TypeOK, Audit, NEW r \in Requests, Complete(r)
  PROVE  CloseStep(OpenRecords(r), "COMPLETED")
<1> DEFINE D == OpenRecords(r)
<1>1. records' = [i \in DOMAIN records |-> IF i \in D THEN Closed(records[i], "COMPLETED")
                                                      ELSE records[i]]
  <2>1. CASE D = {}
    <3>1. records' = records
      BY <2>1 DEF Complete
    <3>2. records = [i \in DOMAIN records |-> records[i]]
      BY LenProperties DEF TypeOK
    <3>3. QED
      BY <2>1, <3>1, <3>2
  <2>2. CASE D # {}
    <3>1. records' = [records EXCEPT ![Newest(r)] = Closed(@, "COMPLETED")]
      BY <2>2 DEF Complete
    <3>2. D = {Newest(r)} /\ Newest(r) \in DOMAIN records
      BY <2>2, NewestIsTheOne DEF OpenRecords
    <3>3. QED
      BY <3>1, <3>2
  <2>3. QED
    BY <2>1, <2>2
<1>2. D \subseteq {i \in DOMAIN records : records[i].status = "ACTIVE"}
  BY DEF OpenRecords
<1>3. QED
  BY <1>1, <1>2, PopFrees DEF Complete, CloseStep

LEMMA ExpireDueCloses ==
  ASSUME TypeOK, Audit, ExpireDue
  PROVE  \E D : CloseStep(D, "EXPIRED")
<1> DEFINE due == {i \in DOMAIN records :
                     /\ ActiveForRequest(records[i].request)
                     /\ i = Newest(records[i].request)
                     /\ records[i].expiry <= EventTimestamp(now)}
           freed == {records[i].request : i \in due}
<1>1. \A i \in due : /\ records[i].status = "ACTIVE"
                     /\ requestToVehicle[records[i].request] = records[i].vehicle
                     /\ records[i].request \in Requests
  <2>1. ASSUME NEW i \in due
        PROVE  i \in OpenRecords(records[i].request) /\ records[i].request \in Requests
    BY RecordTypes, NewestIsTheOne DEF ActiveForRequest
  <2>2. QED
    BY <2>1, HolderHasRecord DEF OpenRecords
<1>2. \A r : r \in freed <=> \E i \in due : records[i].request = r
  OBVIOUS
<1>3. \A v : (\E r \in freed : requestToVehicle[r] = v)
               <=> (\E i \in due : records[i].vehicle = v)
  BY <1>1
<1>4. CloseStep(due, "EXPIRED")
  BY <1>1, <1>2, <1>3 DEF ExpireDue, CloseStep, FailureStatus
<1>5. QED
  BY <1>4

(* Every call that ends a reservation is a CloseStep.                      *)
LEMMA EndingCloses ==
  ASSUME TypeOK, Audit, Stamped,
         \/ \E r \in Requests : Expire(r)
         \/ \E r \in Requests : Invalidate(r)
         \/ \E r \in Requests : Revalidate(r)
         \/ \E r \in Requests : Release(r, "RELEASED")
         \/ \E r \in Requests : Complete(r)
         \/ ExpireDue
  PROVE  \E D, status : CloseStep(D, status)
<1>1. ASSUME NEW r \in Requests, Expire(r)
      PROVE  \E D, status : CloseStep(D, status)
  <2>1. OpenRecords(r) = {Newest(r)}
    BY <1>1, NewestIsTheOne DEF Expire, ActiveForRequest
  <2>2. Newest(r) \in DOMAIN records
    BY <2>1 DEF OpenRecords
  <2>3. records[Newest(r)].expiry \in Nat /\ records[Newest(r)].expiry <= now /\ now \in Nat
    BY <1>1, <2>2, RecordTypes DEF Expire, TypeOK
  <2>4. EventTimestamp(records[Newest(r)].expiry) <= EventTimestamp(now)
    BY <2>3, EventTimestampMonotone
  <2>5. \A i \in OpenRecords(r) : records[i].expiry <= EventTimestamp(now)
    BY <2>1, <2>2, <2>4 DEF Stamped
  <2>6. CloseStep(OpenRecords(r), "EXPIRED")
    BY <1>1, <2>5, ReleaseCloses DEF Expire, FailureStatus
  <2>7. QED
    BY <2>6
<1>2. ASSUME NEW r \in Requests, Invalidate(r)
      PROVE  \E D, status : CloseStep(D, status)
  <2>1. CloseStep(OpenRecords(r), "INVALIDATED")
    BY <1>2, ReleaseCloses DEF Invalidate, FailureStatus
  <2>2. QED
    BY <2>1
<1>3. ASSUME NEW r \in Requests, Revalidate(r)
      PROVE  \E D, status : CloseStep(D, status)
  <2>1. CASE EventTimestamp(now) >= records[Newest(r)].expiry
    <3>1. OpenRecords(r) = {Newest(r)}
      BY <1>3, NewestIsTheOne DEF Revalidate, ActiveForRequest
    <3>2. records[Newest(r)].expiry \in Nat /\ EventTimestamp(now) \in Nat
      BY <3>1, RecordTypes, EventTimestampFloors DEF OpenRecords, TypeOK
    <3>3. \A i \in OpenRecords(r) : records[i].expiry <= EventTimestamp(now)
      BY <2>1, <3>1, <3>2
    <3>4. CloseStep(OpenRecords(r), "EXPIRED")
      BY <1>3, <2>1, <3>3, ReleaseCloses DEF Revalidate, FailureStatus
    <3>5. QED
      BY <3>4
  <2>2. CASE ~ (EventTimestamp(now) >= records[Newest(r)].expiry)
    <3>1. CloseStep(OpenRecords(r), "INVALIDATED")
      BY <1>3, <2>2, ReleaseCloses DEF Revalidate, FailureStatus
    <3>2. QED
      BY <3>1
  <2>3. QED
    BY <2>1, <2>2
<1>4. ASSUME NEW r \in Requests, Release(r, "RELEASED")
      PROVE  \E D, status : CloseStep(D, status)
  <2>1. CloseStep(OpenRecords(r), "RELEASED")
    BY <1>4, ReleaseCloses DEF FailureStatus
  <2>2. QED
    BY <2>1
<1>5. ASSUME NEW r \in Requests, Complete(r)
      PROVE  \E D, status : CloseStep(D, status)
  BY <1>5, CompleteCloses
<1>6. ASSUME ExpireDue
      PROVE  \E D, status : CloseStep(D, status)
  BY <1>6, ExpireDueCloses
<1>7. QED
  BY <1>1, <1>2, <1>3, <1>4, <1>5, <1>6

-----------------------------------------------------------------------------
(* What a CloseStep leaves of each record.                                 *)
LEMMA CloseStepRecords ==
  ASSUME TypeOK, NEW D, NEW status, CloseStep(D, status)
  PROVE  /\ DOMAIN records' = DOMAIN records
         /\ \A i \in DOMAIN records :
              /\ records'[i].request = records[i].request
              /\ records'[i].vehicle = records[i].vehicle
              /\ records'[i].create = records[i].create
              /\ records'[i].expiry = records[i].expiry
              /\ i \in D => /\ records'[i].status = status
                            /\ records'[i].close = EventTimestamp(now)
              /\ i \notin D => records'[i] = records[i]
<1>1. ASSUME NEW i \in DOMAIN records, i \in D
      PROVE  records'[i] = [records[i] EXCEPT !.status = status,
                                              !.close = EventTimestamp(now)]
  BY <1>1 DEF CloseStep, Closed
<1>2. ASSUME NEW i \in DOMAIN records, i \notin D
      PROVE  records'[i] = records[i]
  BY <1>2 DEF CloseStep
<1>3. DOMAIN records' = DOMAIN records
  BY DEF CloseStep
<1>4. QED
  BY <1>1, <1>2, <1>3, RecordTypes DEF Record

LEMMA CloseStepTypes ==
  ASSUME TypeOK, NEW D, NEW status, CloseStep(D, status)
  PROVE  TypeOK'
<1>1. EventTimestamp(now) \in Nat
  BY EventTimestampFloors DEF TypeOK
<1>2. status \in RecordStatus
  BY DEF CloseStep, RecordStatus
<1>3. ASSUME NEW i \in DOMAIN records
      PROVE  records'[i] \in Record
  BY <1>1, <1>2, RecordTypes DEF CloseStep, Closed, Record
<1>4. records' \in Seq(Record)
  <2>1. DOMAIN records = 1..Len(records) /\ Len(records) \in Nat
    BY LenProperties DEF TypeOK
  <2>2. records' \in [1..Len(records) -> Record]
    BY <1>3, <2>1 DEF CloseStep
  <2>3. QED
    BY <2>1, <2>2, SeqDef
<1>5. failureRecords' \subseteq Failure
  <2>1. ASSUME NEW i \in D, status # "COMPLETED"
        PROVE  FailureOf(i, status) \in Failure
    BY <1>1, <2>1, RecordTypes DEF CloseStep, FailureOf, Failure
  <2>2. QED
    BY <2>1 DEF CloseStep, TypeOK
<1>6. QED
  BY <1>4, <1>5 DEF CloseStep, TypeOK

LEMMA CloseStepAudit ==
  ASSUME TypeOK, Audit, NEW D, NEW status, CloseStep(D, status)
  PROVE  Audit'
<1>1. \A i \in D : /\ requestToVehicle[records[i].request] = records[i].vehicle
                   /\ vehicleToRequest[records[i].vehicle] = records[i].request
  BY RecordTypes DEF CloseStep, Audit, ActiveRecordsMatchMaps, InverseMaps
<1>2. InverseMaps'
  BY <1>1, NoVehicleAssumption, NoRequestAssumption DEF CloseStep, Audit, InverseMaps
<1>3. status # "ACTIVE"
  BY DEF CloseStep, FailureStatus
<1>4. \A i \in DOMAIN records :
        records'[i].status = "ACTIVE" <=> records[i].status = "ACTIVE" /\ i \notin D
  BY <1>3, CloseStepRecords
<1>5. ASSUME NEW r \in Requests, NEW v \in Vehicles
      PROVE  requestToVehicle'[r] = v <=>
               \E i \in DOMAIN records' :
                 /\ records'[i].request = r /\ records'[i].vehicle = v
                 /\ records'[i].status = "ACTIVE"
  <2>1. requestToVehicle'[r] = v <=>
          requestToVehicle[r] = v /\ ~ \E i \in D : records[i].request = r
    BY NoVehicleAssumption DEF CloseStep
  <2>2. requestToVehicle[r] = v <=>
          \E i \in DOMAIN records :
            /\ records[i].request = r /\ records[i].vehicle = v
            /\ records[i].status = "ACTIVE"
    BY DEF Audit, ActiveRecordsMatchMaps
  <2>3. \A i, j \in DOMAIN records :
          /\ i \in D /\ records[j].status = "ACTIVE"
          /\ records[i].request = records[j].request
          => i = j
    BY OpenRecordUnique DEF CloseStep
  <2>4. QED
    BY <1>4, <2>1, <2>2, <2>3, CloseStepRecords DEF CloseStep
<1>6. \A i, j \in DOMAIN records' :
        records'[i].status = "ACTIVE" /\ records'[j].status = "ACTIVE"
          /\ records'[i].request = records'[j].request => i = j
  BY <1>4, CloseStepRecords DEF Audit, ActiveRecordsMatchMaps
<1>7. QED
  BY <1>2, <1>5, <1>6 DEF Audit, ActiveRecordsMatchMaps

LEMMA CloseStepTimes ==
  ASSUME IInv, NEW D, NEW status, CloseStep(D, status)
  PROVE  Stamped' /\ LifetimesDisjoint' /\ ExpiredIsDue'
<1> USE DEF IInv
<1>1. EventTimestamp(now) \in Nat /\ now' = now
  BY EventTimestampFloors DEF TypeOK, CloseStep
<1>2. EventTimestamp(now') = EventTimestamp(now)
  BY <1>1
<1>3. \A i \in D : i \in DOMAIN records /\ records[i].status = "ACTIVE"
  BY DEF CloseStep
<1>4. Stamped'
  BY <1>1, <1>2, CloseStepRecords DEF Stamped, EventTimestamp
<1>5. LifetimesDisjoint'
  <2>1. ASSUME NEW i \in DOMAIN records, NEW j \in DOMAIN records, i < j,
               records[i].request = records[j].request
                 \/ records[i].vehicle = records[j].vehicle
        PROVE  i \notin D /\ records[i].status # "ACTIVE"
                 /\ records[i].close <= records[j].create
    BY <1>3, <2>1 DEF LifetimesDisjoint
  <2>2. QED
    BY <2>1, CloseStepRecords DEF LifetimesDisjoint
<1>6. ExpiredIsDue'
  <2>1. DOMAIN records' = DOMAIN records
    BY CloseStepRecords
  <2>2. ASSUME NEW i \in DOMAIN records
        PROVE  /\ records'[i].create < records'[i].expiry
               /\ records'[i].status = "EXPIRED" => records'[i].expiry <= records'[i].close
    <3>1. CASE i \in D
      <4>1. records'[i].status = status /\ records'[i].close = EventTimestamp(now)
            /\ records'[i].create = records[i].create
            /\ records'[i].expiry = records[i].expiry
        BY <3>1, CloseStepRecords
      <4>2. status = "EXPIRED" => records[i].expiry <= EventTimestamp(now)
        BY <3>1 DEF CloseStep
      <4>3. QED
        BY <4>1, <4>2 DEF ExpiredIsDue
    <3>2. CASE i \notin D
      <4>1. records'[i] = records[i]
        BY <3>2, CloseStepRecords
      <4>2. QED
        BY <4>1 DEF ExpiredIsDue
    <3>3. QED
      BY <3>1, <3>2
  <2>3. QED
    BY <2>1, <2>2 DEF ExpiredIsDue
<1>7. QED
  BY <1>4, <1>5, <1>6

LEMMA CloseStepLedger ==
  ASSUME IInv, NEW D, NEW status, CloseStep(D, status)
  PROVE  FailureLedger'
<1> USE DEF IInv
<1> DEFINE Failed == {k \in DOMAIN records : records[k].status \in FailureStatus}
           Entry(i) == [record |-> i, request |-> records[i].request,
                        vehicle |-> records[i].vehicle, time |-> records[i].close,
                        event |-> records[i].status]
           FailedNext == {k \in DOMAIN records' : records'[k].status \in FailureStatus}
           EntryNext(i) == [record |-> i, request |-> records'[i].request,
                            vehicle |-> records'[i].vehicle, time |-> records'[i].close,
                            event |-> records'[i].status]
           added == IF status = "COMPLETED" THEN {} ELSE D
<1>1. D \subseteq DOMAIN records /\ \A i \in D : records[i].status \notin FailureStatus
  BY DEF CloseStep, FailureStatus
<1>2. failureRecords = {Entry(i) : i \in Failed}
  BY DEF FailureLedger
<1>3. FailedNext = Failed \cup added
  <2>1. ASSUME NEW i \in DOMAIN records, i \notin D
        PROVE  i \in FailedNext <=> i \in Failed \cup added
    BY <2>1, CloseStepRecords
  <2>2. ASSUME NEW i \in D
        PROVE  i \in FailedNext <=> i \in Failed \cup added
    <3>1. records'[i].status = status /\ i \in DOMAIN records'
      BY <1>1, CloseStepRecords
    <3>2. status \in FailureStatus <=> status # "COMPLETED"
      BY DEF CloseStep, FailureStatus
    <3>3. QED
      BY <1>1, <3>1, <3>2
  <2>3. DOMAIN records' = DOMAIN records
    BY CloseStepRecords
  <2>4. QED
    BY <1>1, <2>1, <2>2, <2>3
<1>4. \A i \in Failed : EntryNext(i) = Entry(i)
  BY <1>1, CloseStepRecords
<1>5. \A i \in D : EntryNext(i) = FailureOf(i, status)
  BY <1>1, CloseStepRecords DEF FailureOf
<1>6. failureRecords' = failureRecords \cup {FailureOf(i, status) : i \in added}
  BY DEF CloseStep
<1> HIDE DEF Failed, Entry, FailedNext, EntryNext
<1>7. failureRecords' = {EntryNext(i) : i \in FailedNext}
  BY <1>2, <1>3, <1>4, <1>5, <1>6
<1>8. QED
  BY <1>7 DEF FailureLedger, FailedNext, EntryNext

-----------------------------------------------------------------------------
(* create appends a record for a request and a vehicle without one.        *)
LEMMA CreateRecords ==
  ASSUME TypeOK, NEW r \in Requests, NEW v \in Vehicles, NEW expiryTime \in 0..MaxTime,
         Create(r, v, expiryTime)
  PROVE  LET n == Len(records) + 1
         IN  /\ DOMAIN records' = DOMAIN records \cup {n}
             /\ n \in Nat
             /\ \A i \in DOMAIN records : i < n /\ records'[i] = records[i]
             /\ records'[n] = [request |-> r, vehicle |-> v,
                               create |-> EventTimestamp(now),
                               expiry |-> EventTimestamp(expiryTime),
                               status |-> "ACTIVE", close |-> NoTime]
             /\ records' \in Seq(Record)
<1> DEFINE record == [request |-> r, vehicle |-> v, create |-> EventTimestamp(now),
                      expiry |-> EventTimestamp(expiryTime),
                      status |-> "ACTIVE", close |-> NoTime]
<1>1. records' = Append(records, record)
  BY DEF Create
<1>2. expiryTime \in Nat
  BY BoundsAssumption
<1>3. record \in Record
  BY <1>2, EventTimestampFloors DEF TypeOK, Record, RecordStatus
<1> HIDE DEF record
<1>4. /\ records' \in Seq(Record)
      /\ Len(records') = Len(records) + 1
      /\ records'[Len(records) + 1] = record
      /\ \A i \in 1..Len(records) : records'[i] = records[i]
  BY <1>1, <1>3, AppendProperties DEF TypeOK
<1>5. /\ DOMAIN records = 1..Len(records)
      /\ DOMAIN records' = 1..(Len(records) + 1)
      /\ Len(records) \in Nat
  BY <1>4, LenProperties DEF TypeOK
<1>6. QED
  BY <1>4, <1>5 DEF record

(* Neither of the two has an open record before.                           *)
LEMMA CreateFindsBothFree ==
  ASSUME TypeOK, Audit, NEW r \in Requests, NEW v \in Vehicles,
         requestToVehicle[r] = NoVehicle, vehicleToRequest[v] = NoRequest,
         NEW i \in DOMAIN records, records[i].status = "ACTIVE"
  PROVE  records[i].request # r /\ records[i].vehicle # v
<1>1. requestToVehicle[records[i].request] = records[i].vehicle
  BY RecordTypes DEF Audit, ActiveRecordsMatchMaps
<1>2. vehicleToRequest[records[i].vehicle] = records[i].request
  BY <1>1, RecordTypes DEF Audit, InverseMaps
<1>3. QED
  BY <1>1, <1>2, RecordTypes, NoVehicleAssumption, NoRequestAssumption

LEMMA CreateAudit ==
  ASSUME TypeOK, Audit, NEW r \in Requests, NEW v \in Vehicles,
         NEW expiryTime \in 0..MaxTime, Create(r, v, expiryTime)
  PROVE  Audit'
<1> DEFINE n == Len(records) + 1
<1>1. /\ requestToVehicle[r] = NoVehicle
      /\ vehicleToRequest[v] = NoRequest
      /\ requestToVehicle' = [requestToVehicle EXCEPT ![r] = v]
      /\ vehicleToRequest' = [vehicleToRequest EXCEPT ![v] = r]
  BY DEF Create
<1>2. InverseMaps'
  BY <1>1, NoVehicleAssumption, NoRequestAssumption DEF TypeOK, Audit, InverseMaps
<1>3. \A i \in DOMAIN records :
        records[i].status = "ACTIVE" => records[i].request # r /\ records[i].vehicle # v
  BY <1>1, CreateFindsBothFree
<1>4. /\ DOMAIN records' = DOMAIN records \cup {n}
      /\ \A i \in DOMAIN records : records'[i] = records[i]
      /\ records'[n].request = r /\ records'[n].vehicle = v
      /\ records'[n].status = "ACTIVE"
  <2>1. /\ DOMAIN records' = DOMAIN records \cup {n}
        /\ \A i \in DOMAIN records : records'[i] = records[i]
    BY CreateRecords
  <2>2. records'[n] = [request |-> r, vehicle |-> v,
                       create |-> EventTimestamp(now),
                       expiry |-> EventTimestamp(expiryTime),
                       status |-> "ACTIVE", close |-> NoTime]
    BY CreateRecords
  <2>3. QED
    BY <2>1, <2>2
<1> HIDE DEF n
<1>5. ASSUME NEW q \in Requests, NEW w \in Vehicles
      PROVE  requestToVehicle'[q] = w <=>
               \E i \in DOMAIN records' :
                 /\ records'[i].request = q /\ records'[i].vehicle = w
                 /\ records'[i].status = "ACTIVE"
  <2>1. requestToVehicle[q] = w <=>
          \E i \in DOMAIN records :
            /\ records[i].request = q /\ records[i].vehicle = w
            /\ records[i].status = "ACTIVE"
    BY DEF Audit, ActiveRecordsMatchMaps
  <2>2. CASE q = r
    <3>1. requestToVehicle'[q] = v
      BY <1>1, <2>2 DEF TypeOK
    <3>2. QED
      BY <1>3, <1>4, <2>2, <3>1
  <2>3. CASE q # r
    <3>1. requestToVehicle'[q] = requestToVehicle[q]
      BY <1>1, <2>3 DEF TypeOK
    <3>2. QED
      BY <1>4, <2>1, <2>3, <3>1
  <2>4. QED
    BY <2>2, <2>3
<1>6. \A i, j \in DOMAIN records' :
        records'[i].status = "ACTIVE" /\ records'[j].status = "ACTIVE"
          /\ records'[i].request = records'[j].request => i = j
  BY <1>3, <1>4 DEF Audit, ActiveRecordsMatchMaps
<1>7. QED
  BY <1>2, <1>5, <1>6 DEF Audit, ActiveRecordsMatchMaps

LEMMA CreateInv ==
  ASSUME IInv, NEW r \in Requests, NEW v \in Vehicles,
         NEW expiryTime \in 0..MaxTime, Create(r, v, expiryTime)
  PROVE  IInv'
<1> USE DEF IInv
<1> DEFINE n == Len(records) + 1
<1>1. /\ requestToVehicle[r] = NoVehicle
      /\ vehicleToRequest[v] = NoRequest
      /\ EventTimestamp(expiryTime) > EventTimestamp(now)
      /\ failureRecords' = failureRecords /\ now' = now
  BY DEF Create
<1>2. /\ DOMAIN records' = DOMAIN records \cup {n}
      /\ n \in Nat
      /\ \A i \in DOMAIN records : i < n /\ records'[i] = records[i]
      /\ records'[n] = [request |-> r, vehicle |-> v,
                        create |-> EventTimestamp(now),
                        expiry |-> EventTimestamp(expiryTime),
                        status |-> "ACTIVE", close |-> NoTime]
      /\ records' \in Seq(Record)
  BY CreateRecords
<1>3. expiryTime \in Nat /\ EventTimestamp(expiryTime) \in Nat /\ EventTimestamp(now) \in Nat
      /\ EventTimestamp(EventTimestamp(expiryTime)) = EventTimestamp(expiryTime)
  BY BoundsAssumption, EventTimestampFloors, EventTimestampIdempotent DEF TypeOK
<1>4. \A i \in DOMAIN records :
        records[i].status = "ACTIVE" => records[i].request # r /\ records[i].vehicle # v
  BY <1>1, CreateFindsBothFree
<1>5. \A i \in DOMAIN records : i \in Nat /\ i # n
  BY <1>2, RecordTypes
<1> HIDE DEF n
<1>6. TypeOK'
  BY <1>1, <1>2 DEF TypeOK, Create
<1>7. Audit'
  BY CreateAudit
<1>8. Stamped'
  <2>1. ASSUME NEW i \in DOMAIN records'
        PROVE  /\ records'[i].create <= EventTimestamp(now)
               /\ EventTimestamp(records'[i].expiry) = records'[i].expiry
               /\ records'[i].status # "ACTIVE" =>
                    records'[i].close \in Nat /\ records'[i].close <= EventTimestamp(now)
    <3>1. CASE i = n
      BY <1>2, <1>3, <3>1
    <3>2. CASE i \in DOMAIN records
      BY <1>2, <3>2 DEF Stamped
    <3>3. QED
      BY <1>2, <3>1, <3>2
  <2>2. QED
    BY <1>1, <2>1 DEF Stamped, EventTimestamp
<1>9. LifetimesDisjoint'
  <2>1. ASSUME NEW i \in DOMAIN records, records[i].request = r \/ records[i].vehicle = v
        PROVE  records[i].status # "ACTIVE" /\ records[i].close <= EventTimestamp(now)
    BY <1>4, <2>1 DEF Stamped
  <2>2. QED
    BY <1>2, <1>5, <2>1 DEF LifetimesDisjoint
<1>10. ExpiredIsDue'
  BY <1>1, <1>2, <1>3 DEF ExpiredIsDue
<1>11. FailureLedger'
  <2>1. {k \in DOMAIN records' : records'[k].status \in FailureStatus}
          = {k \in DOMAIN records : records[k].status \in FailureStatus}
    BY <1>2, <1>5 DEF FailureStatus
  <2>2. QED
    BY <1>1, <1>2, <2>1 DEF FailureLedger
<1>12. QED
  BY <1>6, <1>7, <1>8, <1>9, <1>10, <1>11

LEMMA CloseStepInv ==
  ASSUME IInv, NEW D, NEW status, CloseStep(D, status)
  PROVE  IInv'
  BY CloseStepTypes, CloseStepAudit, CloseStepTimes, CloseStepLedger DEF IInv

LEMMA TickInv ==
  ASSUME IInv, Tick
  PROVE  IInv'
<1> USE DEF IInv
<1>1. /\ now \in Nat /\ now' = now + 1
      /\ UNCHANGED <<requestToVehicle, vehicleToRequest, records, failureRecords>>
  BY DEF Tick, TypeOK
<1>2. EventTimestamp(now) <= EventTimestamp(now')
      /\ EventTimestamp(now) \in Nat /\ EventTimestamp(now') \in Nat
  BY <1>1, EventTimestampMonotone, EventTimestampFloors
<1>3. Stamped'
  <2>1. ASSUME NEW i \in DOMAIN records
        PROVE  /\ records[i].create <= EventTimestamp(now')
               /\ records[i].status # "ACTIVE" =>
                    records[i].close \in Nat /\ records[i].close <= EventTimestamp(now')
    BY <1>2, RecordTypes DEF Stamped
  <2>2. QED
    BY <1>1, <2>1 DEF Stamped, EventTimestamp
<1>4. QED
  BY <1>1, <1>3 DEF TypeOK, Audit, InverseMaps, ActiveRecordsMatchMaps,
                    LifetimesDisjoint, ExpiredIsDue, FailureLedger

LEMMA InitInv == Init => IInv
<1> SUFFICES ASSUME Init PROVE IInv
  OBVIOUS
<1>1. DOMAIN records = {} /\ records \in Seq(Record)
  BY DEF Init
<1>2. QED
  BY <1>1, NoVehicleAssumption, NoRequestAssumption
     DEF Init, IInv, TypeOK, Audit, InverseMaps, ActiveRecordsMatchMaps, Stamped,
         LifetimesDisjoint, ExpiredIsDue, FailureLedger

LEMMA NextInv == IInv /\ [Next]_vars => IInv'
<1> SUFFICES ASSUME IInv, [Next]_vars PROVE IInv'
  OBVIOUS
<1>1. ASSUME NEW r \in Requests, NEW v \in Vehicles, NEW expiryTime \in 0..MaxTime,
             Create(r, v, expiryTime)
      PROVE  IInv'
  BY <1>1, CreateInv
<1>2. ASSUME \/ \E r \in Requests : Expire(r)
             \/ \E r \in Requests : Invalidate(r)
             \/ \E r \in Requests : Revalidate(r)
             \/ \E r \in Requests : Release(r, "RELEASED")
             \/ \E r \in Requests : Complete(r)
             \/ ExpireDue
      PROVE  IInv'
  BY <1>2, EndingCloses, CloseStepInv DEF IInv
<1>3. ASSUME Tick PROVE IInv'
  BY <1>3, TickInv
<1>4. ASSUME UNCHANGED vars PROVE IInv'
  BY <1>4 DEF vars, IInv, TypeOK, Audit, InverseMaps, ActiveRecordsMatchMaps, Stamped,
              LifetimesDisjoint, ExpiredIsDue, FailureLedger, EventTimestamp
<1>5. QED
  BY <1>1, <1>2, <1>3, <1>4 DEF Next

-----------------------------------------------------------------------------
(* The inductive invariant holds in every reachable state of the ledger.   *)
THEOREM Invariance == Spec => []IInv
  BY InitInv, NextInv, PTL DEF Spec

(* The ledger's five variables keep their types, for any fleet.            *)
THEOREM TypeCorrectness == Spec => []TypeOK
<1>1. IInv => TypeOK
  BY DEF IInv
<1>2. QED
  BY <1>1, Invariance, PTL

(* ReservationManager.audit never reports FAIL: the dictionaries stay      *)
(* inverse to each other and agree with the open records.                  *)
THEOREM AuditPasses == Spec => []Audit
<1>1. IInv => Audit
  BY DEF IInv
<1>2. QED
  BY <1>1, Invariance, PTL

(* Reservations of one vehicle, or of one request, never overlap in their  *)
(* persisted create and close times, for any clock resolution.             *)
THEOREM ReservationsFollowEachOther == Spec => []LifetimesDisjoint
<1>1. IInv => LifetimesDisjoint
  BY DEF IInv
<1>2. QED
  BY <1>1, Invariance, PTL

(* Comparing a raw event time with a floored expiry never marks a record   *)
(* EXPIRED before its persisted expiry.                                    *)
THEOREM NothingExpiresEarly == Spec => []ExpiredIsDue
<1>1. IInv => ExpiredIsDue
  BY DEF IInv
<1>2. QED
  BY <1>1, Invariance, PTL

(* The failure log matches the records released, expired or invalidated,   *)
(* entry by entry.                                                         *)
THEOREM FailuresAreLogged == Spec => []FailureLedger
<1>1. IInv => FailureLedger
  BY DEF IInv
<1>2. QED
  BY <1>1, Invariance, PTL

-----------------------------------------------------------------------------
(* A late expiry, invalidation or completion cannot rewrite how an earlier *)
(* reservation of the same request ended.                                  *)
THEOREM RecordsAreFinal == Spec => ClosedForever
<1> DEFINE Final == /\ DOMAIN records \subseteq DOMAIN records'
                    /\ \A i \in DOMAIN records :
                         IF records[i].status = "ACTIVE"
                         THEN records'[i].request = records[i].request
                                /\ records'[i].vehicle = records[i].vehicle
                                /\ records'[i].expiry = records[i].expiry
                         ELSE records'[i] = records[i]
<1>1. IInv /\ Next => Final
  <2> SUFFICES ASSUME IInv, Next PROVE Final
    OBVIOUS
  <2>1. ASSUME NEW r \in Requests, NEW v \in Vehicles, NEW expiryTime \in 0..MaxTime,
               Create(r, v, expiryTime)
        PROVE  Final
    BY <2>1, CreateRecords DEF IInv
  <2>2. ASSUME NEW D, NEW status, CloseStep(D, status)
        PROVE  Final
    <3>1. D \subseteq {i \in DOMAIN records : records[i].status = "ACTIVE"}
      BY <2>2 DEF CloseStep
    <3>2. QED
      BY <2>2, <3>1, CloseStepRecords DEF IInv
  <2>3. ASSUME Tick PROVE Final
    BY <2>3 DEF Tick
  <2>4. QED
    BY <2>1, <2>2, <2>3, EndingCloses DEF Next, IInv
<1>2. IInv /\ [Next]_vars => [Final]_vars
  BY <1>1
<1>3. QED
  BY <1>2, Invariance, PTL DEF Spec, ClosedForever

(* Two requests never hold the same vehicle.                               *)
LEMMA HoldersExclusive ==
  ASSUME TypeOK, Audit
  PROVE  Book!Exclusive(requestToVehicle)
  BY DEF TypeOK, Audit, InverseMaps, Book!Exclusive

(* The dictionaries implement the reservation book: a vehicle is held by   *)
(* one request at a time, and no call hands it from one to another.        *)
THEOREM ImplementsBook == Spec => BookSpec
<1>1. Init => Book!Init
  BY DEF Init, Book!Init
<1>2. IInv /\ IInv' /\ [Next]_vars => [Book!Next]_requestToVehicle
  <2> SUFFICES ASSUME IInv, IInv', Next, requestToVehicle' # requestToVehicle
               PROVE  Book!Next
    BY DEF vars
  <2>1. /\ requestToVehicle' \in [Requests -> Vehicles \cup {NoVehicle}]
        /\ Book!Exclusive(requestToVehicle)
        /\ Book!Exclusive(requestToVehicle')
    BY HoldersExclusive DEF IInv, TypeOK, Audit, InverseMaps, Book!Exclusive
  <2>2. ASSUME NEW r \in Requests, NEW v \in Vehicles, NEW expiryTime \in 0..MaxTime,
               Create(r, v, expiryTime)
        PROVE  Book!Next
    <3>1. /\ requestToVehicle[r] = NoVehicle
          /\ vehicleToRequest[v] = NoRequest
          /\ requestToVehicle' = [requestToVehicle EXCEPT ![r] = v]
      BY <2>2 DEF Create
    <3>2. \A q \in Requests : requestToVehicle[q] # v
      BY <3>1, NoRequestAssumption DEF IInv, Audit, InverseMaps
    <3>3. QED
      BY <2>1, <3>1, <3>2 DEF IInv, TypeOK, Book!Next, Book!Exclusive
  <2>3. ASSUME NEW D, NEW status, CloseStep(D, status)
        PROVE  Book!Next
    <3>1. \A r \in Requests : requestToVehicle'[r] \in {requestToVehicle[r], NoVehicle}
      BY <2>3 DEF CloseStep
    <3>2. QED
      BY <2>1, <3>1 DEF Book!Next, Book!Exclusive
  <2>4. ~ Tick
    BY DEF Tick
  <2>5. QED
    BY <2>2, <2>3, <2>4, EndingCloses DEF Next, IInv
<1>3. QED
  BY <1>1, <1>2, Invariance, PTL DEF Spec, BookSpec, Book!Spec
=============================================================================
