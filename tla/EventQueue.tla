----------------------------- MODULE EventQueue -----------------------------
(***************************************************************************)
(* The heap of simulator_v3/event_queue.py.  Events are ordered by time    *)
(* and then by the priority of their type; the heap's third key, the       *)
(* insertion sequence, is left open, so that two events with equal time    *)
(* and type are handled in either order.  The queue is a set: the only     *)
(* events ever pushed twice are expiries of one request's reservations,    *)
(* and of two equal ones the second is always stale.                       *)
(***************************************************************************)
EXTENDS Integers

(* Mutant: the cleanup of a plan comes before the completion of a leg.     *)
CleanupFirst ==
  [LEG_COMPLETED |-> 8, SERVICE_COMPLETED |-> 2, HV_SESSION_END |-> 3,
   HV_SESSION_START |-> 4, REQUEST_REVEALED |-> 5, DRIVER_RESPONSE |-> 6,
   RESERVATION_EXPIRED |-> 7, PLAN_INVALIDATED |-> 1, DECISION_EPOCH |-> 9]

EventPriority ==
  [LEG_COMPLETED |-> 1, SERVICE_COMPLETED |-> 2, HV_SESSION_END |-> 3,
   HV_SESSION_START |-> 4, REQUEST_REVEALED |-> 5, DRIVER_RESPONSE |-> 6,
   RESERVATION_EXPIRED |-> 7, PLAN_INVALIDATED |-> 8, DECISION_EPOCH |-> 9]

EventType == DOMAIN EventPriority

SimulationEvent(at, kind, id) == [at |-> at, kind |-> kind, id |-> id]

(* (t, p) comes no later than (u, q) in the order events are handled.      *)
NoLaterThan(t, p, u, q) == t < u \/ (t = u /\ p <= q)

(* The events the next pop may return.                                     *)
NextEvents(queue) ==
  {e \in queue : \A f \in queue :
     NoLaterThan(e.at, EventPriority[e.kind], f.at, EventPriority[f.kind])}
=============================================================================
