------------------------------ MODULE RouteLru ------------------------------
(***************************************************************************)
(* The bounded cache of exact routes and its simulation.  The real cache   *)
(* is an OrderedDict, here the sequence of its keys, oldest first          *)
(* (deterministic_routing.py).  _ShadowLRU (routing_v3.py) simulates it    *)
(* without copying it: it remembers which keys moved to the end (tail),    *)
(* which were evicted (removed), and how far an iterator over the          *)
(* untouched keys has come (oldest).                                       *)
(***************************************************************************)
EXTENDS Naturals, Sequences, SequencesExt

CONSTANT RouteKeys  \* the keys of exact routes

(* What a loop has made of start after each element of a sequence: a step  *)
(* is, for every element, a function of what there is so far.              *)
Run(step, start, seq) ==
  LET run[n \in 0..Len(seq)] == IF n = 0 THEN start ELSE step[seq[n]][run[n - 1]]
  IN  run

After(step, start, seq) == Run(step, start, seq)[Len(seq)]

-----------------------------------------------------------------------------
(* The keys that are not gone, in their order, as a function of how many   *)
(* of them have been looked at: unlike SelectSeq it can be unfolded in a   *)
(* proof.                                                                  *)
Left(keys, gone) ==
  LET left[n \in 0..Len(keys)] ==
        IF n = 0 THEN <<>>
        ELSE IF keys[n] \in gone THEN left[n - 1] ELSE Append(left[n - 1], keys[n])
  IN  left

Without(keys, gone) == Left(keys, gone)[Len(keys)]
MoveToEnd(keys, key) == Append(Without(keys, {key}), key)

(* get() and move_to_end(), _remember().                                   *)
Touch(keys, key) == IF key \in ToSet(keys) THEN MoveToEnd(keys, key) ELSE keys

Evict(keys, capacity) ==
  IF Len(keys) > capacity THEN Tail(keys) ELSE keys

KeepLast(keys, capacity, key) ==
  IF capacity = 0 THEN keys ELSE Evict(MoveToEnd(keys, key), capacity)

-----------------------------------------------------------------------------
Shadows == [data : Seq(RouteKeys), capacity : Nat, tail : Seq(RouteKeys),
            removed : SUBSET RouteKeys, oldest : Nat \ {0}, count : Nat]

Shadow(data, capacity) ==
  [data |-> data, capacity |-> capacity, tail |-> <<>>, removed |-> {},
   oldest |-> 1, count |-> Len(data)]

Untouched(shadow, key) == key \in ToSet(shadow.data) /\ key \notin shadow.removed

Holds(shadow, key) == key \in ToSet(shadow.tail) \/ Untouched(shadow, key)

(* Mutant: a key found in the data is not moved behind the tail.           *)
ShadowPeek(shadow, key) == shadow

ShadowGet(shadow, key) ==
  IF Holds(shadow, key) THEN [shadow EXCEPT !.tail = MoveToEnd(@, key)] ELSE shadow

(* The victim: the next key of the iterator that is still where it was,    *)
(* or else the oldest of the tail.  The iterator never goes back.          *)
ShadowEvict(shadow) ==
  LET left == {i \in shadow.oldest..Len(shadow.data) :
                 shadow.data[i] \notin shadow.removed \cup ToSet(shadow.tail)}
      next == CHOOSE i \in left : \A j \in left : i <= j
  IN IF left # {}
       THEN [shadow EXCEPT !.removed = @ \cup {shadow.data[next]},
                           !.oldest = next + 1, !.count = @ - 1]
       ELSE [shadow EXCEPT !.removed = @ \cup {Head(shadow.tail)},
                           !.tail = Tail(@),
                           !.oldest = Len(shadow.data) + 1, !.count = @ - 1]

ShadowPut(shadow, key) ==
  LET put == [shadow EXCEPT !.count = @ + (IF Holds(shadow, key) THEN 0 ELSE 1),
                            !.tail = MoveToEnd(@, key),
                            !.removed = @ \ {key}]
  IN IF shadow.capacity = 0 THEN shadow
     ELSE IF put.count > shadow.capacity THEN ShadowEvict(put) ELSE put
=============================================================================
