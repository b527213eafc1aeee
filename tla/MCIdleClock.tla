----------------------------- MODULE MCIdleClock -----------------------------
(***************************************************************************)
(* The engine with a history variable: since when each human driver has    *)
(* been idle without interruption.                                         *)
(***************************************************************************)
EXTENDS MCSimulationEngine

VARIABLE idleFrom   (* Start of the driver's current idle spell.           *)

HistoryInit == Init /\ idleFrom = [v \in HVs |-> NoTime]

HistoryNext ==
  /\ Next
  /\ idleFrom' = [v \in HVs |->
       CASE vehicles'[v].status # "IDLE" -> NoTime
         [] vehicles[v].status = "IDLE" /\ vehicles'[v].status = "IDLE" -> idleFrom[v]
         [] OTHER -> clock']

HistorySpec == HistoryInit /\ [][HistoryNext]_<<vars, idleFrom>>

(* "A vehicle disappearing from the incremental idle index has either      *)
(* started a task/movement or gone offline. Its next idle spell must       *)
(* therefore start a fresh duration clock": a driver sent to another zone  *)
(* has then been idle for min_hv_idle_sec without a break.                 *)
MovedAfterIdling ==
  [][\A v \in HVs :
       vehicles'[v].leg.kind = "HV_REPOSITION" /\ vehicles[v].leg = NoLeg
         => clock' - idleFrom[v] >= MinHvIdleSec]_<<vars, idleFrom>>
=============================================================================
