----------------------------- MODULE MCFleetDay -----------------------------
(***************************************************************************)
(* What decides which vehicle is where: the calendar of the windows, the   *)
(* balanced matching of a period, and the empty movements of a day.  Each  *)
(* is explored on its own: part says which, and the others stay where they *)
(* began.                                                                  *)
(***************************************************************************)
EXTENDS FleetCalendar, BalancedMatch, IdleMovement, TLC

CONSTANTS v1, v2, v3, h1, h2, r1, r2, r3, r4, n1, n2, n3, north, south

VARIABLE part

(* Two zones, the second with a request twice as stressful; a third        *)
(* vehicle is an AV.                                                       *)
OriginZone == [r \in Requests |-> IF r \in {r1, r2} THEN north ELSE south]
StressValue == [r \in Requests |-> IF r = r4 THEN 2 ELSE 1]

(* One vehicle ends its shift early and one starts late; two epochs, the   *)
(* second with movements of the first under way.                           *)
ShiftStart == v1 :> 0 @@ v2 :> 0 @@ v3 :> 4
ShiftEnd == v1 :> 20 @@ v2 :> 5 @@ v3 :> 20

(* Nothing tells these requests, or the nodes, apart.                      *)
Symmetry == Permutations({r1, r2}) \cup Permutations({n1, n2, n3})

fleetVars == <<part, vars, bmVars, imVars>>

FleetInit ==
  /\ part \in {"calendar", "matching", "movement"}
  /\ Init /\ (part # "calendar" => \A v \in Vehicles : end[v] = 0)
  /\ BMInit
  /\ IMInit /\ (part # "movement" => place = [v \in Fleet |-> n1])

FleetNext ==
  \/ part = "calendar" /\ Next /\ UNCHANGED <<part, bmVars, imVars>>
  \/ part = "matching" /\ BMNext /\ UNCHANGED <<part, vars, imVars>>
  \/ part = "movement" /\ IMNext /\ UNCHANGED <<part, vars, bmVars>>

FleetSpec == FleetInit /\ [][FleetNext]_fleetVars
=============================================================================
