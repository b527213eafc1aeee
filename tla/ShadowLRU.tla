----------------------------- MODULE ShadowLRU -----------------------------
(***************************************************************************)
(* The simulated cache beside a real one that starts from the same data    *)
(* and sees the same calls.                                                *)
(***************************************************************************)
EXTENDS RouteLru

CONSTANT MaxCapacity  \* bound: capacities of the cache

ASSUME ShadowAssumption == MaxCapacity \in Nat

VARIABLES shadow, real

ShadowInit == \E capacity \in 0..MaxCapacity, data \in SeqOf(RouteKeys, MaxCapacity) :
                /\ IsInjective(data) /\ Len(data) <= capacity
                /\ shadow = Shadow(data, capacity)
                /\ real = data

Looked(key) == /\ shadow' = ShadowGet(shadow, key)
               /\ real' = Touch(real, key)

Filled(key) == /\ shadow' = ShadowPut(shadow, key)
               /\ real' = KeepLast(real, shadow.capacity, key)

ShadowNext == \E key \in RouteKeys : Looked(key) \/ Filled(key)

ShadowSpec == ShadowInit /\ [][ShadowNext]_<<shadow, real>>

(* Whatever was asked and stored, the simulation answers as the real cache *)
(* and would evict the same key next: what it has not touched, in the old  *)
(* order, followed by its tail, is the real cache (routing_v3.py:27-51).   *)
Simulates ==
  /\ real = Without(shadow.data, shadow.removed \cup ToSet(shadow.tail)) \o shadow.tail
  /\ shadow.count = Len(real)
=============================================================================
