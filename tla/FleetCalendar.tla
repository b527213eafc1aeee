---------------------------- MODULE FleetCalendar ---------------------------
(***************************************************************************)
(* FleetEventCalendar (stage4/dispatch/runtime_calendar.py): instead of    *)
(* testing every vehicle's availability window at every dispatch step, two *)
(* cursors run over the sorted starts and ends and keep the set of the     *)
(* vehicles whose window is open.                                          *)
(***************************************************************************)
EXTENDS Naturals

CONSTANTS Vehicles,
          MaxTime    \* bound: times of windows and calls

ASSUME CalendarAssumption == MaxTime \in Nat

Times == 0..MaxTime

VARIABLES
  start, end,  \* windows: [Vehicles -> Times]
  started,     \* vehicles of starts[:_start_cursor]
  ended,       \* vehicles of ends[:_end_cursor]
  active,      \* _active
  clock,       \* _now
  answer,      \* what the last call returned
  horizon      \* the horizon it was asked for; 0 when it was active_ids

vars == <<start, end, started, ended, active, clock, answer, horizon>>

(* A session that ends before it starts is no availability window.         *)
Init ==
  /\ start \in [Vehicles -> Times] /\ end \in [Vehicles -> Times]
  /\ \A v \in Vehicles : start[v] <= end[v]
  /\ started = {} /\ ended = {} /\ active = {} /\ clock = 0
  /\ answer = {} /\ horizon = 0

StartedBy(now) == {v \in Vehicles : start[v] <= now}

(* Mutant: a window is still open at its end.                              *)
EndedBefore(now) == {v \in Vehicles : end[v] < now}

EndedBy(now) == {v \in Vehicles : end[v] <= now}

(* The cursors only go forward: a vehicle is put on once and taken off     *)
(* once, starts before ends.                                               *)
StartsFirst(now) ==
  active' = (active \cup (StartedBy(now) \ started)) \ (EndedBy(now) \ ended)

Advance(now) ==
  /\ clock <= now
  /\ StartsFirst(now)
  /\ started' = StartedBy(now) /\ ended' = EndedBy(now) /\ clock' = now
  /\ UNCHANGED <<start, end>>

ActiveIds ==
  \E now \in Times : Advance(now) /\ answer' = active' /\ horizon' = 0

Forthcoming(now, h) == {v \in Vehicles \ started' : start[v] <= now + h /\ end[v] > now}

HorizonIds ==
  \E now \in Times, h \in Times :
    Advance(now) /\ answer' = active' \cup Forthcoming(now, h) /\ horizon' = h

Next == ActiveIds \/ HorizonIds

Spec == Init /\ [][Next]_vars

-----------------------------------------------------------------------------
(* What the cursors have passed, and what they keep.                       *)
TypeOK ==
  /\ start \in [Vehicles -> Times] /\ end \in [Vehicles -> Times]
  /\ {started, ended, active, answer} \subseteq SUBSET Vehicles
  /\ clock \in Times /\ horizon \in Times
  /\ active \subseteq started \ ended

(* However the calls jump over starts and ends, a call returns exactly the *)
(* vehicles whose window is open now or, with a horizon, that open it in   *)
(* the horizon (test_acceleration_v2.py:38-39).                            *)
AnswersTheWindows ==
  [][answer' = {v \in Vehicles : start[v] <= clock' + horizon' /\ end[v] > clock'}]_vars
=============================================================================
