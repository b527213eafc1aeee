------------------------- MODULE MCSimulationEngine -------------------------
(***************************************************************************)
(* Instances of the engine: up to three requests, two human drivers and an *)
(* automated vehicle.  One unit of time stands for ten seconds: an epoch   *)
(* is three units, a minute six, the driver's answer takes one.            *)
(***************************************************************************)
EXTENDS SimulationEngine, TLC

CONSTANTS r1, r2, r3, h1, h2, a1

NoTimeValue == -1

(* Fleet: r1 is served long enough for r2 to be queued behind it, and r3   *)
(* cannot wait for a late release; every request suits the AV.  The        *)
(* validation residual moves the safe release forward, as it usually does. *)
FleetRequestTime == r1 :> 1 @@ r2 :> 4 @@ r3 :> 5
FleetLatestPickup == r1 :> 7 @@ r2 :> 13 @@ r3 :> 11
FleetPredicted == r1 :> 3 @@ r2 :> 3 @@ r3 :> 2
FleetRealized == r1 :> 7 @@ r2 :> 2 @@ r3 :> 3
FleetOnlineStart == h1 :> 0 @@ h2 :> 3 @@ a1 :> 2
FleetOnlineEnd == h1 :> 20 @@ h2 :> 11 @@ a1 :> 19
FleetSafeOffsets == {-3, 0}

(* Slow drivers: the answer takes two units, longer than the shortest ride,*)
(* so that a session or a locked leg can end before the answer.            *)
SlowRequestTime == r1 :> 1 @@ r2 :> 4
SlowLatestPickup == r1 :> 16 @@ r2 :> 13
SlowPredicted == r1 :> 1 @@ r2 :> 2
SlowRealized == r1 :> 2 @@ r2 :> 5
SlowOnlineStart == h1 :> 0 @@ h2 :> 0 @@ a1 :> 2
SlowOnlineEnd == h1 :> 21 @@ h2 :> 5 @@ a1 :> 19
SlowSafeOffsets == {-1, 2}

(* A request that is still waiting, at its deadline, where a ride ends.    *)
EdgeLatestPickup == r1 :> 7 @@ r2 :> 12 @@ r3 :> 11

(* Drivers who answer later than the next idle-movement run.               *)
LateLatestPickup == r1 :> 14 @@ r2 :> 24
LateRealized == r1 :> 3 @@ r2 :> 2
LateOnlineEnd == h1 :> 30 @@ a1 :> 19
=============================================================================
