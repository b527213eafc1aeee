----------------------------- MODULE RouteEpoch -----------------------------
(***************************************************************************)
(* One dispatching epoch of route queries.  The batches (one per request,  *)
(* its candidate vehicles in order) used to be answered one after another  *)
(* (estimate_many, deterministic_routing.py).  The epoch adapters plan     *)
(* first, ask the back end for all missing routes at once, and replay the  *)
(* batches in their order: ArcDeterministicValhallaAdapter.estimate_epoch  *)
(* ("queue") and DemandRoutingAdapter.estimate_epoch (routing_v3.py,       *)
(* "demand").  An arc is an exact pair of points in one minute.  Arcs that *)
(* agree after rounding share an alias, whose cache entry is the estimate  *)
(* of the arc that filled it last: an estimate is modelled by its arc.     *)
(***************************************************************************)
EXTENDS RouteLru, FiniteSets

CONSTANTS Arcs,        \* the routes the dispatch may ask for
          Aliases,
          Alias,       \* [Arcs -> Aliases]: _matrix_key
          NoArc,
          CacheSize,   \* persistent_cache_size
          Batches,     \* the lists of batches of an epoch
          Modes,       \* the adapters checked
          Breakable,   \* the arcs the back end may be unable to route
          MaxEpochs    \* bound: epochs, by whether queries are flaky

ASSUME EpochAssumption ==
  /\ Arcs \subseteq RouteKeys /\ NoArc \notin Arcs /\ Alias \in [Arcs -> Aliases]
  /\ CacheSize \in Nat /\ Batches \subseteq Seq(Seq(Arcs)) /\ Breakable \subseteq Arcs
  /\ Modes \subseteq {"queue", "demand"} /\ MaxEpochs \in [BOOLEAN -> Nat]

VARIABLES
  mode, broken,  \* the adapter; the arcs the back end cannot route
  flaky,         \* whether any query may fail, and succeed the next time
  cache,         \* [Aliases -> the arc whose estimate is stored, or NoArc]
  lru,           \* _persistent_cache, oldest first
  disk,          \* the arcs the disk cache or bank answers
  pc, epochs,
  batches, number,  \* the batches of the epoch; the one being replayed
  needed,        \* the arcs still to be asked for
  answers,       \* [Arcs -> "none", "ok" or "error"]
  computed, consumed,
  rows,          \* what is left of the batch being replayed
  found,         \* what the replay has answered: <<batch, arc, estimate>>
  queries,       \* history: [Arcs -> queries that failed in this epoch]
  failures,      \* history: [Arcs -> failed lookups reported in this epoch]
  unplanned,     \* history: an arc had to be resolved outside the plan
  before         \* history: what the epoch began with

caches == <<cache, lru>>
replay == <<number, rows>>
work == <<needed, computed>>
fixed == <<mode, broken, flaky, epochs, batches, before>>
epochVars == <<caches, disk, replay, work, fixed, pc, answers, consumed, found, queries,
               failures, unplanned>>

Pc == {"idle", "busy", "ended"}
Zero == [a \in Arcs |-> 0]

-----------------------------------------------------------------------------
(* estimate_many: aliases first, as they were before the batch, then exact *)
(* hits, which fill their alias, and then the misses, asked one after      *)
(* another.                                                                *)
AliasCache == [Aliases -> Arcs \cup {NoArc}]
ExactCache == {l \in Seq(Arcs) : IsInjective(l) /\ Len(l) <= CacheSize}
Replay == [cache : AliasCache, lru : ExactCache, number : Nat,
           found : SUBSET (Nat \X Arcs \X Arcs), uncached : Seq(Arcs), queried : SUBSET Arcs]

Aliased(c) == {a \in Arcs : c[Alias[a]] # NoArc}
Misses(c, batch) == Without(batch, Aliased(c))
Hits(n, c, batch) == {<<n, a, c[Alias[a]]>> : a \in ToSet(batch) \cap Aliased(c)}

Fill(c, a) == [c EXCEPT ![Alias[a]] = a]

ExactHit == [a \in Arcs |-> [s \in Replay |->
  IF a \in ToSet(s.lru)
    THEN [s EXCEPT !.cache = Fill(@, a), !.lru = MoveToEnd(@, a),
                   !.found = @ \cup {<<s.number, a, a>>}]
    ELSE [s EXCEPT !.uncached = Append(@, a)]]]

Asked(unroutable) == [a \in Arcs |-> [s \in Replay |->
  IF a \in unroutable
    THEN [s EXCEPT !.queried = @ \cup {a}]
    ELSE [s EXCEPT !.queried = @ \cup {a}, !.cache = Fill(@, a),
                   !.lru = KeepLast(@, CacheSize, a),
                   !.found = @ \cup {<<s.number, a, a>>}]]]

Opened(s, batch) ==
  [s EXCEPT !.number = @ + 1, !.uncached = <<>>,
            !.found = @ \cup Hits(s.number + 1, s.cache, batch)]

LookedUp(s, batch) == After(ExactHit, Opened(s, batch), Misses(s.cache, batch))

Settled(s) == [s EXCEPT !.uncached = <<>>]

Sequentially(unroutable) == [batch \in Seq(Arcs) |-> [s \in Replay |->
  LET hit == LookedUp(s, batch)
  IN  After(Asked(unroutable), Settled(hit), hit.uncached)]]

(* What sequential calls make of the caches the epoch began with.          *)
Reference == After(Sequentially(broken), before, batches)

-----------------------------------------------------------------------------
(* The plan of the demand adapter: the sequential rule run on a simulated  *)
(* alias cache and LRU, as if every route could be computed.               *)
Plan == [cache : AliasCache, shadow : Shadows, uncached : Seq(Arcs), needed : SUBSET Arcs]

PlanHit == [a \in Arcs |-> [p \in Plan |->
  IF Holds(p.shadow, a)
    THEN [p EXCEPT !.shadow = ShadowGet(@, a), !.cache = Fill(@, a)]
    ELSE [p EXCEPT !.uncached = Append(@, a)]]]

PlanMiss == [a \in Arcs |-> [p \in Plan |->
  [p EXCEPT !.shadow = ShadowPut(@, a), !.cache = Fill(@, a), !.needed = @ \cup {a}]]]

PlanBatch == [batch \in Seq(Arcs) |-> [p \in Plan |->
  LET hit == After(PlanHit, [p EXCEPT !.uncached = <<>>], Misses(p.cache, batch))
  IN  After(PlanMiss, [hit EXCEPT !.uncached = <<>>], hit.uncached)]]

DemandPlan(c, l, list) ==
  After(PlanBatch, [cache |-> c, shadow |-> Shadow(l, CacheSize),
                    uncached |-> <<>>, needed |-> {}], list).needed

(* The plan of the queue adapter: every arc whose alias is not resolved.   *)
QueuePlan(c, list) == {a \in Arcs \ Aliased(c) : \E n \in DOMAIN list : a \in ToSet(list[n])}

-----------------------------------------------------------------------------
(* How far the replay has come, as sequential calls would see it.          *)
Now == [cache |-> cache, lru |-> lru, number |-> number, found |-> found,
        uncached |-> <<>>, queried |-> consumed]

EpochInit ==
  /\ mode \in Modes /\ broken \in SUBSET Breakable
  /\ flaky \in BOOLEAN /\ (flaky => broken = {})
  /\ cache = [x \in Aliases |-> NoArc] /\ lru = <<>>
  /\ disk \in SUBSET (Arcs \ broken)
  /\ pc = "idle" /\ epochs = 0 /\ batches = <<>> /\ number = 0 /\ needed = {}
  /\ answers = [a \in Arcs |-> "none"] /\ computed = {} /\ consumed = {}
  /\ rows = <<>> /\ found = {} /\ queries = Zero /\ failures = Zero
  /\ unplanned = FALSE /\ before = Now

(* The caches answer part of the plan; what the disk still knows is left   *)
(* open, since its writes may be dropped.                                  *)
Start ==
  /\ pc # "busy" /\ epochs < MaxEpochs[flaky]
  /\ \E list \in Batches, onDisk \in SUBSET disk :
       LET wanted == IF mode = "demand" THEN DemandPlan(cache, lru, list)
                     ELSE QueuePlan(cache, list)
           inMemory == IF mode = "queue" THEN ToSet(lru) ELSE {}
           known == wanted \cap (onDisk \cup inMemory)
       IN /\ batches' = list
          /\ needed' = wanted \ known
          /\ answers' = [a \in Arcs |-> IF a \in known THEN "ok" ELSE "none"]
  /\ pc' = "busy" /\ epochs' = epochs + 1 /\ number' = 0
  /\ computed' = {} /\ consumed' = {} /\ rows' = <<>> /\ found' = {}
  /\ queries' = Zero /\ failures' = Zero /\ unplanned' = FALSE
  /\ UNCHANGED <<mode, broken, flaky, caches, disk>>
  /\ before' = Now'

(* A query of the back end: what may come of it.                           *)
Outcomes(a) == IF flaky THEN {"ok", "error"}
               ELSE IF a \in broken THEN {"error"} ELSE {"ok"}

Counted(counter, a, outcome) ==
  IF outcome = "error" THEN [counter EXCEPT ![a] = @ + 1] ELSE counter

(* The workers answer in any order.                                        *)
Evaluate ==
  /\ pc = "busy"
  /\ \E a \in needed : \E outcome \in Outcomes(a) :
       /\ answers' = [answers EXCEPT ![a] = outcome]
       /\ queries' = Counted(queries, a, outcome)
       /\ disk' = IF outcome = "ok" THEN disk \cup {a} ELSE disk
       /\ computed' = computed \cup {a}
       /\ needed' = needed \ {a}
  /\ UNCHANGED <<caches, replay, fixed, pc, consumed, found, failures, unplanned>>

(* The next batch: the aliases as they are now, then the exact hits.       *)
NextBatch ==
  /\ pc = "busy" /\ needed = {} /\ rows = <<>> /\ number < Len(batches)
  /\ LET hit == LookedUp(Now, batches[number + 1])
     IN /\ cache' = hit.cache /\ lru' = hit.lru /\ number' = hit.number
        /\ found' = hit.found /\ rows' = hit.uncached
  /\ UNCHANGED <<disk, work, fixed, pc, answers, consumed, queries, failures,
                 unplanned>>

(* A missing row, whose answer was not planned or has failed before: it is *)
(* asked for again.                                                        *)
Unanswered(a) == answers[a] = "none"
(* Mutant: an error is as good as an answer.                               *)
NeverAgain(a) == FALSE

UsedError(a) == answers[a] = "error" /\ a \in consumed
NeedsQuery(a) == Unanswered(a) \/ UsedError(a)

(* The answer of a row: estimates fill the alias and the exact cache,      *)
(* a failure is reported and stored nowhere.                               *)
Answer(a, outcome) ==
  /\ answers' = [answers EXCEPT ![a] = outcome]
  /\ consumed' = consumed \cup {a} /\ rows' = Tail(rows)
  /\ failures' = Counted(failures, a, outcome)
  /\ IF outcome = "ok"
       THEN /\ found' = found \cup {<<number, a, a>>}
            /\ cache' = Fill(cache, a)
            /\ lru' = KeepLast(lru, CacheSize, a)
       ELSE UNCHANGED <<found, caches>>
  /\ UNCHANGED <<number, work, fixed, pc>>

Row ==
  /\ pc = "busy" /\ needed = {} /\ rows # <<>>
  /\ ~NeedsQuery(Head(rows))
  /\ Answer(Head(rows), answers[Head(rows)])
  /\ UNCHANGED <<disk, queries, unplanned>>

QueriedRow ==
  /\ pc = "busy" /\ needed = {} /\ rows # <<>>
  /\ LET a == Head(rows) IN
       /\ NeedsQuery(a) /\ (mode = "queue" => ~Unanswered(a))
       /\ \E outcome \in Outcomes(a) :
            /\ Answer(a, outcome)
            /\ queries' = Counted(queries, a, outcome)
            /\ disk' = IF mode = "queue" /\ outcome = "ok" THEN disk \cup {a} ELSE disk
       /\ unplanned' = (unplanned \/ Unanswered(a))

End ==
  /\ pc = "busy" /\ needed = {} /\ rows = <<>> /\ number = Len(batches)
  /\ pc' = "ended"
  /\ UNCHANGED <<caches, disk, replay, work, fixed, answers, consumed, found, queries,
                 failures, unplanned>>

(* The aliases are forgotten between epochs, the exact cache is kept: what *)
(* a caller does who compares adapters (tests/test_routing_v4.py:72).      *)
ClearAliases ==
  /\ pc = "ended"
  /\ cache' = [x \in Aliases |-> NoArc] /\ pc' = "idle"
  /\ UNCHANGED <<lru, disk, replay, work, fixed, answers, consumed, found, queries,
                 failures, unplanned>>

EpochNext == \/ Start \/ Evaluate \/ NextBatch \/ Row \/ QueriedRow \/ End
             \/ ClearAliases

EpochSpec == EpochInit /\ [][EpochNext]_epochVars

-----------------------------------------------------------------------------
(* The pieces of state are of their kinds; the exact cache keeps to its    *)
(* bound and holds no arc twice.                                           *)
EpochTypeOK ==
  /\ mode \in Modes /\ broken \subseteq Arcs /\ flaky \in BOOLEAN
  /\ cache \in AliasCache /\ lru \in ExactCache /\ disk \subseteq Arcs
  /\ pc \in Pc /\ batches \in Seq(Seq(Arcs)) /\ number \in 0..Len(batches)
  /\ needed \subseteq Arcs /\ answers \in [Arcs -> {"none", "ok", "error"}]
  /\ computed \subseteq Arcs /\ consumed \subseteq Arcs /\ rows \in Seq(Arcs)
  /\ found \subseteq Nat \X Arcs \X Arcs
  /\ queries \in [Arcs -> Nat] /\ failures \in [Arcs -> Nat]
  /\ unplanned \in BOOLEAN /\ before \in Replay

Ended == pc = "ended"

(* Planning changes no answer: an epoch finds what the calls one after     *)
(* another would have found, by rounded aliases filled in the same order,  *)
(* and leaves the same caches behind, with or without a warm disk          *)
(* (deterministic_routing.py:160-165, 230-233, routing_v3.py:1).           *)
ReplaysInOrder ==
  Ended /\ ~flaky => /\ found = Reference.found
                     /\ cache = Reference.cache /\ lru = Reference.lru

(* When every route can be computed, the demand adapter asks for exactly   *)
(* the routes the replay consumes: the simulated caches are those of the   *)
(* replay (routing_v3.py:125-157, 226).                                    *)
PlanIsExact ==
  Ended /\ mode = "demand" /\ broken = {} /\ ~flaky =>
    ~unplanned /\ computed \subseteq consumed

(* The queue adapter has asked for whatever a replayed row may need,       *)
(* whatever failed: the answers are a dict (deterministic_routing.py:260). *)
AnswersArePlanned ==
  pc = "busy" /\ needed = {} /\ mode = "queue" =>
    \A a \in ToSet(rows) : ~Unanswered(a)

(* A failure is never reused: every failed lookup that is reported has had *)
(* a failed query of its own, also when an arc occurs twice                *)
(* (deterministic_routing.py:268-270, routing_v3.py:203-205).              *)
FailuresAreOwn == \A a \in Arcs : failures[a] <= queries[a]

(* No candidate is omitted: when an epoch ends, every arc of the batches   *)
(* was found or reported as failed.                                        *)
NothingOmitted ==
  Ended => \A n \in DOMAIN batches : \A a \in ToSet(batches[n]) :
    failures[a] > 0 \/ \E e \in Arcs : <<n, a, e>> \in found

(* Planning the routes of an epoch ahead changes no answer and no cache,   *)
(* asks for nothing in vain and omits nothing, and reuses no failure, also *)
(* when a query may fail once and then succeed.                            *)
EpochIsFaithful ==
  /\ EpochTypeOK /\ ReplaysInOrder /\ PlanIsExact
  /\ AnswersArePlanned /\ FailuresAreOwn /\ NothingOmitted
=============================================================================
