------------------------------ MODULE MCRoutes ------------------------------
(***************************************************************************)
(* The caches between the dispatch and the routing back end: the bank with *)
(* its writer thread, an epoch of queries with and without flaky answers,  *)
(* the simulated LRU, and the cache of simulator v3.  Each is explored on  *)
(* its own: part says which, and the others stay where they began.         *)
(***************************************************************************)
EXTENDS RouteBank, RouteCaches, RouteEpoch

CONSTANTS a1, a2, a3, x, y, p1, p2, q1, s1

VARIABLE part

(* Three arcs, two of which are the same after rounding; one or two        *)
(* batches of one or two arcs, three in all.                               *)
DispatchArcs == {a1, a2, a3}
ArcAlias == [a \in DispatchArcs |-> IF a = a3 THEN y ELSE x]
BatchLists == {list \in SeqOf(SeqOf(DispatchArcs, 2) \ {<<>>}, 2) :
                 list # <<>> /\ Len(FlattenSeq(list)) <= 3}
EpochBounds == [f \in BOOLEAN |-> IF f THEN 1 ELSE 2]

RouteArcs == {a1, a2, a3, x}
Points == {p1, p2, q1, s1}
CellOf == [p \in Points |-> IF p = q1 THEN "q" ELSE IF p = s1 THEN "s" ELSE "p"]

lruVars == <<shadow, real>>
routesVars == <<part, vars, epochVars, lruVars, cellVars>>

RoutesInit ==
  /\ part \in {"bank", "epoch", "lru", "cells"}
  /\ Init /\ CellsInit /\ EpochInit
  /\ ShadowInit /\ (part # "lru" => shadow.capacity = 0)
  /\ part # "epoch" => mode = "queue" /\ broken = {} /\ disk = {} /\ ~flaky

RoutesNext ==
  \/ part = "bank" /\ Next /\ UNCHANGED <<part, epochVars, lruVars, cellVars>>
  \/ part = "epoch" /\ EpochNext /\ UNCHANGED <<part, vars, lruVars, cellVars>>
  \/ part = "lru" /\ ShadowNext /\ UNCHANGED <<part, vars, epochVars, cellVars>>
  \/ part = "cells" /\ CellsNext /\ UNCHANGED <<part, vars, epochVars, lruVars>>

(* The dispatching thread goes on with a call it has begun.  Nothing is    *)
(* assumed of the writer.                                                  *)
CallerGoesOn ==
  part = "bank" /\ CallerStep /\ UNCHANGED <<part, epochVars, lruVars, cellVars>>

RoutesSpec == RoutesInit /\ [][RoutesNext]_routesVars /\ WF_routesVars(CallerGoesOn)

=============================================================================
