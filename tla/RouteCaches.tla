----------------------------- MODULE RouteCaches ----------------------------
(***************************************************************************)
(* The two bounded caches of routes: the exact one of the dispatch with    *)
(* its simulation, and the one of simulator v3.  They share nothing.       *)
(***************************************************************************)
EXTENDS ShadowLRU, RouteCache

(* The caches keep what was asked for last, the simulated one as the real  *)
(* one, and answer with a route of the cell that was asked for             *)
(* (routing_v3.py:15-51, routing_engine.py:67-110).                        *)
CachesAreFaithful == Simulates /\ CacheIsFaithful
=============================================================================
