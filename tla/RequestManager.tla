--------------------------- MODULE RequestManager ---------------------------
(***************************************************************************)
(* The request lifecycle of simulator_v3/request_manager.py: operators on  *)
(* a request record [status, assigned, reserved, ...] and on the index of  *)
(* request ids the engine iterates over.  An illegal transition raises in  *)
(* the code and ends the run: here it leaves the request at RAISED.        *)
(***************************************************************************)
CONSTANT NoVehicle   (* assigned_vehicle_id / reserved_vehicle_id is None. *)

LegalTransitions ==
  [UNREVEALED         |-> {"PENDING", "CANCELLED"},
   PENDING            |-> {"CANDIDATE_SELECTED", "OFFERED", "RESERVED", "ASSIGNED",
                           "CANCELLED", "PICKUP_STARTED"},
   CANDIDATE_SELECTED |-> {"OFFERED", "ASSIGNED", "PENDING", "CANCELLED"},
   OFFERED            |-> {"ASSIGNED", "RESERVED", "PENDING", "CANCELLED"},
   RESERVED           |-> {"ASSIGNED", "PENDING", "CANCELLED"},
   ASSIGNED           |-> {"PICKUP_PENDING", "PICKUP_STARTED", "CANCELLED"},
   PICKUP_PENDING     |-> {"PICKUP_STARTED", "CANCELLED"},
   PICKUP_STARTED     |-> {"BOARDED", "CANCELLED"},
   BOARDED            |-> {"IN_SERVICE"},
   IN_SERVICE         |-> {"COMPLETED"},
   COMPLETED          |-> {},
   CANCELLED          |-> {},
   RAISED             |-> {}]

RequestStatus == DOMAIN LegalTransitions
TerminalStatus == {"COMPLETED", "CANCELLED"}

Transition(q, status) ==
  [q EXCEPT !.status = IF status \in LegalTransitions[q.status] THEN status ELSE "RAISED"]

Offer(q) == Transition(q, "OFFERED")
RejectOffer(q) == Transition(q, "PENDING")

Reserve(q, v) ==
  LET offered == IF q.status = "PENDING" THEN Transition(q, "OFFERED") ELSE q
      reserved == IF offered.status = "OFFERED" THEN Transition(offered, "RESERVED")
                                                ELSE offered
  IN  [reserved EXCEPT !.reserved = v]

Assign(q, v) ==
  LET offered == IF q.status = "PENDING" THEN Transition(q, "OFFERED") ELSE q
      assigned == IF offered.status = "ASSIGNED" THEN offered
                                                 ELSE Transition(offered, "ASSIGNED")
  IN  [assigned EXCEPT !.assigned = v]

-----------------------------------------------------------------------------
(* What each call does to the id sets of SystemState, for the requests S.  *)
IndexReveal(index, S) == [index EXCEPT !.pending = @ \cup S]
IndexOffer(index, S) == [index EXCEPT !.pending = @ \ S, !.offered = @ \cup S]

(* Mutant: a rejected request does not become matchable again.             *)
IndexRejectForgets(index, S) == [index EXCEPT !.offered = @ \ S]

IndexReject(index, S) == [index EXCEPT !.offered = @ \ S, !.pending = @ \cup S]

IndexReserve(index, S) ==
  [index EXCEPT !.pending = @ \ S, !.offered = @ \ S, !.reserved = @ \cup S]
IndexAssign(index, S) == [index EXCEPT !.pending = @ \ S, !.offered = @ \ S]

(* Mutant: a request out of patience stays among the pending ones.         *)
IndexExpireKeeps(index, S) == [index EXCEPT !.cancelled = @ \cup S]

IndexExpire(index, S) == [index EXCEPT !.pending = @ \ S, !.cancelled = @ \cup S]
=============================================================================
