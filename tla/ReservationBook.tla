--------------------------- MODULE ReservationBook ---------------------------
(***************************************************************************)
(* What the preassignment reservations of simulator_v3 promise, whoever    *)
(* keeps them: a vehicle is held for at most one request, a request holds  *)
(* at most one vehicle, and a vehicle never changes hands in one event --  *)
(* the old holder lets go first, so that its plan is cleaned up before     *)
(* another request is queued behind the vehicle's current leg.             *)
(*                                                                         *)
(* ReservationManager (the two dictionaries and the record log) and        *)
(* SimulationEngine (the request/vehicle pointers) both implement it.      *)
(***************************************************************************)
CONSTANTS
  Requests,   (* Request ids.                                              *)
  Vehicles,   (* Vehicle ids.                                              *)
  NoVehicle   (* The holder of a request that holds none.                  *)

VARIABLE
  holder      (* The vehicle each request holds, or NoVehicle.             *)

Exclusive(h) ==
  \A r, s \in Requests : h[r] = h[s] /\ h[r] # NoVehicle => r = s

TypeOK == holder \in [Requests -> Vehicles \cup {NoVehicle}]

Init == holder = [r \in Requests |-> NoVehicle]

(* Several requests may change in one event: an epoch reserves vehicles    *)
(* for many requests, and the end of the day releases them all.            *)
Next ==
  \E h \in [Requests -> Vehicles \cup {NoVehicle}] :
    /\ Exclusive(h)
    /\ \A r \in Requests : h[r] = holder[r] \/ h[r] = NoVehicle \/ holder[r] = NoVehicle
    /\ \A r, s \in Requests : h[r] = holder[s] /\ h[r] # NoVehicle => r = s
    /\ holder' = h

Spec == Init /\ [][Next]_holder
=============================================================================
