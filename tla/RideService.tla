----------------------------- MODULE RideService -----------------------------
(***************************************************************************)
(* What the simulator promises a passenger, whichever way a vehicle is     *)
(* found: a revealed request waits until one vehicle commits to it or it   *)
(* is lost; a vehicle that has committed drives to the passenger, carries  *)
(* the passenger and no other, and delivers.  Offers, rejections and       *)
(* reservations are all part of the waiting.                               *)
(***************************************************************************)
CONSTANTS
  Requests,
  Vehicles,
  NoVehicle

VARIABLES
  phase,    (* Per request.                                                *)
  carrier   (* The vehicle committed to the request, once there is one.    *)

Phase == {"hidden", "waiting", "committed", "aboard", "served", "lost"}
Riding == {"committed", "aboard"}

TypeOK ==
  /\ phase \in [Requests -> Phase]
  /\ carrier \in [Requests -> Vehicles \cup {NoVehicle}]

Init ==
  /\ phase = [r \in Requests |-> "hidden"]
  /\ carrier = [r \in Requests |-> NoVehicle]

Keeps(r) == carrier'[r] = carrier[r]

Reveal(r) == phase[r] = "hidden" /\ phase'[r] = "waiting" /\ Keeps(r)
Commit(r) == phase[r] = "waiting" /\ phase'[r] = "committed" /\ carrier'[r] \in Vehicles
Lose(r) == phase[r] = "waiting" /\ phase'[r] = "lost" /\ Keeps(r)
Board(r) == phase[r] = "committed" /\ phase'[r] = "aboard" /\ Keeps(r)
Deliver(r) == phase[r] = "aboard" /\ phase'[r] = "served" /\ Keeps(r)
Rest(r) == phase'[r] = phase[r] /\ Keeps(r)

(* In one event a vehicle may deliver one passenger and commit to the      *)
(* next, and an epoch commits several vehicles at once.                    *)
Next ==
  /\ phase' \in [Requests -> Phase]
  /\ carrier' \in [Requests -> Vehicles \cup {NoVehicle}]
  /\ \A r \in Requests : Reveal(r) \/ Commit(r) \/ Lose(r) \/ Board(r) \/ Deliver(r) \/ Rest(r)
  /\ \A r, s \in Requests :
       phase'[r] \in Riding /\ phase'[s] \in Riding /\ carrier'[r] = carrier'[s] => r = s

Spec == Init /\ [][Next]_<<phase, carrier>>
=============================================================================
