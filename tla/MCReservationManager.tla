------------------------ MODULE MCReservationManager ------------------------
(***************************************************************************)
(* The ledger on two requests and two vehicles.  A microsecond is two      *)
(* ticks, so that a raw event time and its persisted value differ.         *)
(***************************************************************************)
EXTENDS ReservationManager, TLC

NoTimeValue == -1
Symmetry == Permutations(Requests) \cup Permutations(Vehicles)
=============================================================================
