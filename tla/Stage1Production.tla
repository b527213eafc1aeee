-------------------------- MODULE Stage1Production --------------------------
(***************************************************************************)
(* The production of the Stage 1 input for one date                        *)
(* (stage0/v6/stage1_production.py): candidates in a stable order, cut     *)
(* into buckets, are matched until the date's quota is met.  A bucket's    *)
(* products, then its manifest, then its rejections go to disk, each file  *)
(* by an atomic replace; the process may die between any two and be run    *)
(* again, and matching an order may raise, this time or every time.        *)
(* Orders are numbered in their stable order.                              *)
(***************************************************************************)
EXTENDS Integers, FiniteSets, FiniteSetsExt

CONSTANTS Orders,       \* number of candidates
          BucketSize, Target,
          MaxFailures,  \* bound: orders whose processing raises
          Resumes,      \* values of resume that runs are started with
          MaxDeaths     \* bound: crashes

ASSUME ProductionAssumption ==
  /\ {Orders, Target, MaxFailures, MaxDeaths} \subseteq Nat
  /\ BucketSize \in Nat \ {0} /\ Resumes \subseteq BOOLEAN

Order == 1..Orders
BucketOf(o) == ((o - 1) \div BucketSize) + 1
Bucket == {BucketOf(o) : o \in Order}
OrdersOf(b) == {o \in Order : BucketOf(o) = b}

VARIABLES
  eligible,    \* orders that qualify for the core: prefilter and quality
  phase, resume,
  bucket,      \* the bucket at hand
  soFar, exceptions,   \* accepted_so_far, exceptions_so_far
  batch,       \* [accepted, rejected, failed] of the bucket at hand
  cache,       \* candidate_cache: "absent", "partial", "whole"
  products,    \* disk: [Bucket -> orders in its products]
  manifests,   \* disk: [Bucket -> "none" or a status]
  accepted,    \* disk: [Bucket -> accepted_core_count of the manifests]
  rejections,  \* disk: [Bucket -> orders in its rejections file]
  daily,       \* disk: [completed, accepted, exceptions] of the date
  failures, deaths

production == <<phase, resume, bucket, soFar, exceptions, batch>>
disk == <<cache, products, manifests, accepted, rejections, daily>>
s1Vars == <<eligible, production, disk, failures, deaths>>

NoBatch == [accepted |-> {}, rejected |-> {}, failed |-> {}]

S1Init ==
  /\ eligible \in SUBSET Order
  /\ phase = "stopped" /\ resume = FALSE /\ bucket = 1 /\ soFar = 0 /\ exceptions = 0
  /\ batch = NoBatch
  /\ cache = "absent"
  /\ products = [b \in Bucket |-> {}] /\ manifests = [b \in Bucket |-> "none"]
  /\ accepted = [b \in Bucket |-> 0] /\ rejections = [b \in Bucket |-> {}]
  /\ daily = [completed |-> FALSE, accepted |-> 0, exceptions |-> 0]
  /\ failures = 0 /\ deaths = 0

Passed(b) == manifests[b] = "PASS"

(* accepted_core_count of the PASS manifests, added up.                    *)
Counts == [b \in Order |-> IF b \in Bucket /\ Passed(b) THEN accepted[b] ELSE 0]

Total(counts) ==
  LET upTo[n \in 0..Orders] == IF n = 0 THEN 0 ELSE upTo[n - 1] + counts[n]
  IN upTo[Orders]

(* The date is skipped when it is complete; otherwise what passed counts,  *)
(* wherever it lies in the order.                                          *)
Start ==
  /\ phase = "stopped" /\ resume' \in Resumes
  /\ IF resume' /\ daily.completed
     THEN phase' = "done" /\ soFar' = daily.accepted /\ exceptions' = daily.exceptions
     ELSE /\ phase' = "cache" /\ exceptions' = 0
          /\ soFar' = IF resume' THEN Total(Counts) ELSE 0
  /\ bucket' = 1 /\ batch' = NoBatch
  /\ UNCHANGED <<eligible, disk, failures, deaths>>

(* _prepare_day_cache: fragments first, _SUCCESS.json last.                *)
BeginCache ==
  /\ phase = "cache" /\ cache = "absent" /\ cache' = "partial"
  /\ UNCHANGED <<eligible, production, products, manifests, accepted, rejections, daily,
                 failures, deaths>>

Materialised == cache # "absent"

EndCache ==
  /\ phase = "cache" /\ Materialised /\ cache' = "whole" /\ phase' = "bucket"
  /\ UNCHANGED <<eligible, resume, bucket, soFar, exceptions, batch, products, manifests,
                 accepted, rejections, daily, failures, deaths>>

-----------------------------------------------------------------------------
Finished == bucket \notin Bucket \/ soFar >= Target

Skips == resume /\ Passed(bucket)

SkipBucket ==
  /\ phase = "bucket" /\ ~Finished /\ Skips /\ bucket' = bucket + 1
  /\ UNCHANGED <<eligible, phase, resume, soFar, exceptions, batch, disk, failures, deaths>>

(* Orders are taken in order until the quota is met; those in raising      *)
(* raise when their turn comes.                                            *)
Good(o, raising) == o \in eligible /\ o \notin raising

TakenBefore(o, raising) ==
  Cardinality({p \in OrdersOf(bucket) : p < o /\ Good(p, raising)})

Processed(raising) ==
  {o \in OrdersOf(bucket) : soFar + TakenBefore(o, raising) < Target}

ProcessBucket ==
  /\ phase = "bucket" /\ ~Finished /\ ~Skips
  /\ \E raising \in SUBSET OrdersOf(bucket) :
       LET processed == Processed(raising)
       IN /\ raising \subseteq processed
          /\ failures + Cardinality(raising) <= MaxFailures
          /\ failures' = failures + Cardinality(raising)
          /\ batch' = [accepted |-> {o \in processed : Good(o, raising)},
                       rejected |-> processed \ (eligible \cup raising),
                       failed |-> raising]
  /\ phase' = "products"
  /\ UNCHANGED <<eligible, resume, bucket, soFar, exceptions, disk, deaths>>

(* _write_stage1_bucket and the rejections after it.                       *)
WriteProducts ==
  /\ phase = "products" /\ phase' = "manifest"
  /\ products' = [products EXCEPT ![bucket] = batch.accepted]
  /\ UNCHANGED <<eligible, resume, bucket, soFar, exceptions, batch, cache, manifests,
                 accepted, rejections, daily, failures, deaths>>

WriteManifest ==
  /\ phase = "manifest" /\ phase' = "rejections"
  /\ manifests' = [manifests EXCEPT ![bucket] = IF batch.failed = {} THEN "PASS" ELSE "FAIL"]
  /\ accepted' = [accepted EXCEPT ![bucket] = Cardinality(batch.accepted)]
  /\ UNCHANGED <<eligible, resume, bucket, soFar, exceptions, batch, cache, products,
                 rejections, daily, failures, deaths>>

WriteRejections ==
  /\ phase = "rejections" /\ phase' = "bucket" /\ bucket' = bucket + 1
  /\ rejections' = [rejections EXCEPT ![bucket] = batch.rejected \cup batch.failed]
  /\ soFar' = soFar + Cardinality(batch.accepted)
  /\ exceptions' = exceptions + Cardinality(batch.failed)
  /\ batch' = NoBatch
  /\ UNCHANGED <<eligible, resume, cache, products, manifests, accepted, daily,
                 failures, deaths>>

-----------------------------------------------------------------------------
(* Mutant: the date is closed when its last bucket is reached.             *)
AtLastBucket == bucket >= Max(Bucket)

DayOver == Finished

EndDay ==
  /\ phase = "bucket" /\ DayOver /\ phase' = "remove"
  /\ daily' = [completed |-> TRUE, accepted |-> soFar, exceptions |-> exceptions]
  /\ UNCHANGED <<eligible, resume, bucket, soFar, exceptions, batch, cache, products,
                 manifests, accepted, rejections, failures, deaths>>

(* rmtree; the cache of a date that is complete is not looked at again.    *)
RemoveCache ==
  /\ phase = "remove" /\ phase' = "done" /\ cache' = "absent"
  /\ UNCHANGED <<eligible, resume, bucket, soFar, exceptions, batch, products, manifests,
                 accepted, rejections, daily, failures, deaths>>

ProductionDies ==
  /\ phase \notin {"stopped", "done"} /\ deaths < MaxDeaths
  /\ phase' = "stopped" /\ deaths' = deaths + 1
  /\ UNCHANGED <<eligible, resume, bucket, soFar, exceptions, batch, disk, failures>>

Work == \/ Start \/ BeginCache \/ EndCache \/ SkipBucket \/ ProcessBucket
        \/ WriteProducts \/ WriteManifest \/ WriteRejections \/ EndDay \/ RemoveCache
S1Next == Work \/ ProductionDies

S1Spec == S1Init /\ [][S1Next]_s1Vars

-----------------------------------------------------------------------------
(* What was accepted never exceeds the quota.                              *)
S1TypeOK ==
  /\ eligible \subseteq Order
  /\ phase \in {"stopped", "cache", "bucket", "products", "manifest", "rejections", "remove", "done"}
  /\ resume \in BOOLEAN /\ bucket \in Nat /\ soFar \in 0..Target /\ exceptions \in Nat
  /\ batch \in [accepted : SUBSET Order, rejected : SUBSET Order, failed : SUBSET Order]
  /\ cache \in {"absent", "partial", "whole"}
  /\ products \in [Bucket -> SUBSET Order] /\ rejections \in [Bucket -> SUBSET Order]
  /\ manifests \in [Bucket -> {"none", "PASS", "FAIL"}] /\ accepted \in [Bucket -> Nat]
  /\ daily \in [completed : BOOLEAN, accepted : Nat, exceptions : Nat]
  /\ failures \in 0..MaxFailures /\ deaths \in 0..MaxDeaths

Published == UNION {products[b] : b \in {c \in Bucket : manifests[c] # "none"}}

(* What the manifests publish is, at every moment and whatever crashes,    *)
(* the first eligible candidates in the stable order, and no more than the *)
(* quota ("Process candidates in stable order until each frozen quota is   *)
(* met", stage1_production.py:396).                                        *)
InOrder == \A o \in Published : \A p \in eligible : p < o => p \in Published

PublishedInOrder == Cardinality(Published) <= Target /\ InOrder

(* A manifest that says PASS counts the orders of its products and had no  *)
(* failure: verify_stage1_input finds nothing wrong with it.               *)
PassMeansWhole ==
  \A b \in Bucket : Passed(b) => accepted[b] = Cardinality(products[b])
                                 /\ products[b] \subseteq eligible

(* A date falls short of its quota only when every bucket was processed.   *)
ShortfallIsReal ==
  daily.completed =>
    /\ daily.accepted <= Target
    /\ daily.accepted < Target => \A b \in Bucket : manifests[b] # "none"

(* A date that never raised is complete with its quota, or with every      *)
(* eligible candidate there is.                                            *)
QuotaMet ==
  daily.completed /\ failures = 0 =>
    daily.accepted = Min({Target, Cardinality(eligible)})
    /\ Cardinality(Published) = daily.accepted

(* What a date leaves on disk can be believed, after any crashes.          *)
DateIsSound ==
  /\ S1TypeOK /\ PassMeansWhole /\ ShortfallIsReal /\ QuotaMet
  /\ failures = 0 => PublishedInOrder
=============================================================================
