------------------------------ MODULE JobsProofs ------------------------------
(***************************************************************************)
(* The jobs that outlive their process: a training publishes the model it  *)
(* reports (TrainWorker), smoke runs keep what is on record of a registry  *)
(* that has its header (RunRegistry), a day cut at checkpoints, killed and *)
(* resumed handles the events of the uncut day in their order              *)
(* (CheckpointResume), and what is on disk of a date can be believed       *)
(* (Stage1Production), for any scores, epochs, launches, runs,             *)
(* configurations, events, cuts, orders, buckets and quotas.               *)
(***************************************************************************)
EXTENDS TrainWorker, RunRegistry, CheckpointResume, Stage1Production,
        SequenceTheorems, FiniteSetTheorems, WellFoundedInduction, TLAPS

(* Every nonempty set of naturals has a least element.                     *)
Below == {p \in Nat \X Nat : p[1] < p[2]}

LEMMA LeastElement ==
  ASSUME NEW S \in SUBSET Nat, S # {}
  PROVE  \E m \in S : \A n \in S : m <= n
<1>1. Below = OpToRel(<, Nat)
  BY DEF Below, OpToRel
<1>2. IsWellFoundedOn(Below, Nat)
  BY <1>1, NatLessThanWellFounded
<1>3. PICK m \in S : \A n \in S : ~(<<n, m>> \in Below)
  BY <1>2, WFMin
<1>4. ASSUME NEW n \in S PROVE m <= n
  <2>1. m \in Nat /\ n \in Nat /\ ~(<<n, m>> \in Below)
    BY <1>3
  <2>2. ~(n < m)
    BY <2>1 DEF Below
  <2>3. QED
    BY <2>1, <2>2
<1>5. QED
  BY <1>4

-----------------------------------------------------------------------------
(* TrainWorker.                                                            *)
Outcome == Scores \cup {Unstable}

-----------------------------------------------------------------------------
(* The selection of _select_checkpoint.                                    *)
LEMMA LeastOf ==
  ASSUME NEW S \in SUBSET Nat, S # {}
  PROVE  Min(S) \in S /\ \A y \in S : Min(S) <= y
BY LeastElement DEF Min

LEMMA Parameters ==
  MaximumEpochs \in Nat \ {0} /\ Patience \in Nat \ {0} /\ Unstable \notin Nat
BY TrainAssumption

LEMMA StableScores ==
  ASSUME NEW scores \in Seq(Outcome), NEW i \in Stable(scores)
  PROVE  i \in 1..Len(scores) /\ i \in Nat /\ scores[i] \in Nat
<1>1. i \in 1..Len(scores) /\ scores[i] \in Outcome /\ scores[i] # Unstable
  BY DEF Stable
<1>2. scores[i] \in Scores /\ Scores \subseteq Nat
  BY <1>1, TrainAssumption, Zenon DEF Outcome
<1>3. Len(scores) \in Nat
  OBVIOUS
<1>4. i \in Nat
  BY <1>1, <1>3
<1>5. scores[i] \in Nat
  BY <1>2, Zenon
<1>6. QED
  BY <1>1, <1>4, <1>5, Zenon

(* It is an epoch with the least score, the earliest of those.             *)
Best(scores, i) ==
  /\ i \in Stable(scores)
  /\ \A j \in Stable(scores) : scores[i] <= scores[j]
  /\ \A j \in Stable(scores) : scores[j] = scores[i] => i <= j

LEMMA SelectedIsBest ==
  ASSUME NEW scores \in Seq(Outcome)
  PROVE  IF Stable(scores) = {} THEN Selected(scores) = 0 ELSE Best(scores, Selected(scores))
<1>1. CASE Stable(scores) = {}
  BY <1>1 DEF Selected
<1>2. CASE Stable(scores) # {}
  <2> DEFINE values == {scores[i] : i \in Stable(scores)}
             least == Min(values)
             firsts == {i \in Stable(scores) : scores[i] = least}
  <2>1. \A i \in Stable(scores) : scores[i] \in Nat /\ i \in Nat
    BY StableScores
  <2>2. values \in SUBSET Nat /\ values # {}
    BY <1>2, <2>1
  <2>3. least \in values /\ \A y \in values : least <= y
    BY <2>2, LeastOf
  <2>4. firsts \in SUBSET Nat /\ firsts # {}
    BY <2>1, <2>3
  <2>5. Min(firsts) \in firsts /\ \A y \in firsts : Min(firsts) <= y
    BY <2>4, LeastOf
  <2>6. Selected(scores) = Min(firsts)
    BY <1>2 DEF Selected
  <2>7. QED
    BY <1>2, <2>3, <2>5, <2>6 DEF Best
<1>3. QED
  BY <1>1, <1>2

(* An epoch that is not selected leaves the selection as it was.           *)
LEMMA SelectedStays ==
  ASSUME NEW scores \in Seq(Outcome), NEW x \in Outcome,
         Selected(Append(scores, x)) # Len(scores) + 1
  PROVE  Selected(Append(scores, x)) = Selected(scores)
<1> DEFINE more == Append(scores, x)
           n == Len(scores)
<1>1. more \in Seq(Outcome) /\ Len(more) = n + 1 /\ n \in Nat
      /\ \A i \in 1..n : more[i] = scores[i]
  OBVIOUS
<1>2. Stable(scores) = Stable(more) \ {n + 1} /\ Stable(more) \subseteq 1..(n + 1)
  BY <1>1 DEF Stable
<1>3. \A i \in Stable(more) : more[i] \in Nat
  BY <1>1, StableScores
<1>4. CASE Stable(more) = {}
  BY <1>1, <1>2, <1>4, SelectedIsBest
<1>5. CASE Stable(more) # {}
  <2> DEFINE s == Selected(more)
             t == Selected(scores)
  <2>1. Best(more, s) /\ s # n + 1
    BY <1>1, <1>5, SelectedIsBest
  <2>2. s \in Stable(scores)
    BY <1>2, <2>1 DEF Best
  <2>3. Best(scores, t)
    BY <2>2, SelectedIsBest
  <2>4. t \in Stable(more) /\ s \in 1..n /\ t \in 1..n /\ more[s] = scores[s] /\ more[t] = scores[t]
    BY <1>1, <1>2, <2>2, <2>3 DEF Best
  <2>5. more[s] <= more[t] /\ scores[t] <= scores[s]
    BY <2>1, <2>2, <2>3, <2>4 DEF Best
  <2>6. scores[s] = scores[t]
    BY <1>3, <2>1, <2>4, <2>5 DEF Best
  <2>7. s <= t /\ t <= s
    BY <2>1, <2>2, <2>3, <2>4, <2>6 DEF Best
  <2> HIDE DEF s, t
  <2>8. s = t
    BY <2>4, <2>7
  <2>9. QED
    BY <2>8 DEF s, t
<1>6. QED
  BY <1>4, <1>5

-----------------------------------------------------------------------------
(* The state of a training: the best epoch is the selected one, patience   *)
(* counts the epochs since, and training stops when it runs out.           *)
Course ==
  /\ pc \in {"idle", "epoch", "trained", "predict"}
  /\ history \in Seq(Outcome) /\ outcome \in Outcomes
  /\ Len(history) <= MaximumEpochs
  /\ bestEpoch = Selected(history) /\ bestEpoch \in 0..Len(history)
  /\ patience = Len(history) - bestEpoch
  /\ pc = "epoch" => patience < Patience
  /\ pc \in {"trained", "predict"} => Len(history) = MaximumEpochs \/ patience = Patience

LEMMA SelectedRange ==
  ASSUME NEW scores \in Seq(Outcome)
  PROVE  /\ Selected(scores) \in 0..Len(scores)
         /\ Selected(scores) = 0 <=> Stable(scores) = {}
BY SelectedIsBest DEF Best, Stable

(* What one epoch does.                                                    *)
LEMMA EpochCourse ==
  ASSUME Course, Epoch
  PROVE  /\ Course'
         /\ bestEpoch' = IF Selected(history') = Len(history) + 1
                         THEN Len(history) + 1 ELSE bestEpoch
<1> DEFINE n == Len(history)
           x == outcome[n + 1]
<1>1. /\ history \in Seq(Outcome) /\ n \in Nat /\ n + 1 \in 1..MaximumEpochs
      /\ MaximumEpochs \in Nat \ {0} /\ Patience \in Nat \ {0}
      /\ bestEpoch = Selected(history) /\ bestEpoch \in 0..n
      /\ patience = n - bestEpoch /\ patience < Patience
  BY Parameters DEF Course, Epoch
<1>2. x \in Outcome
  BY <1>1 DEF Course, Outcomes, Outcome
<1>3. /\ history' = Append(history, x)
      /\ bestEpoch' = IF Selected(history') = n + 1 THEN n + 1 ELSE bestEpoch
      /\ patience' = IF Selected(history') = n + 1 THEN 0 ELSE patience + 1
      /\ pc' = IF n + 1 = MaximumEpochs \/ (Selected(history') # n + 1 /\ patience' >= Patience)
               THEN "trained" ELSE "epoch"
      /\ outcome' = outcome
  BY Zenon DEF Epoch, WornBy
<1>4. history' \in Seq(Outcome) /\ Len(history') = n + 1
  BY <1>1, <1>2, <1>3
<1>5. bestEpoch' = Selected(history')
  BY <1>1, <1>2, <1>3, SelectedStays
<1>6. bestEpoch' \in 0..(n + 1) /\ patience' = (n + 1) - bestEpoch'
  BY <1>1, <1>3
<1>7. /\ pc' \in {"idle", "epoch", "trained", "predict"}
      /\ pc' = "epoch" => patience' < Patience
      /\ pc' \in {"trained", "predict"} => n + 1 = MaximumEpochs \/ patience' = Patience
  <2>1. CASE n + 1 = MaximumEpochs
    BY <1>3, <2>1
  <2>2. CASE n + 1 # MaximumEpochs /\ Selected(history') = n + 1
    BY <1>1, <1>3, <2>2
  <2>3. CASE n + 1 # MaximumEpochs /\ Selected(history') # n + 1
    BY <1>1, <1>3, <2>3
  <2>4. QED
    BY <2>1, <2>2, <2>3
<1>8. outcome' \in Outcomes /\ n + 1 <= MaximumEpochs
  BY <1>1, <1>3 DEF Course
<1>9. Course'
  BY <1>4, <1>5, <1>6, <1>7, <1>8 DEF Course
<1>10. QED
  BY <1>3, <1>9

LEMMA EmptyCourse ==
  /\ << >> \in Seq(Outcome) /\ Len(<< >>) = 0 /\ Selected(<< >>) = 0
BY DEF Selected, Stable

LEMMA CourseHolds == TWSpec => []Course
<1>1. TWInit => Course
  BY EmptyCourse, Parameters DEF TWInit, Course
<1>2. Course /\ [TWNext]_twVars => Course'
  <2> SUFFICES ASSUME Course, [TWNext]_twVars PROVE Course'
    OBVIOUS
  <2>1. CASE UNCHANGED twVars
    BY <2>1 DEF Course, twVars
  <2>2. CASE LaunchTraining
    <3>1. /\ history' = << >> /\ bestEpoch' = 0 /\ patience' = 0
          /\ pc' \in {"idle", "epoch"} /\ outcome' \in Outcomes
      BY <2>2 DEF LaunchTraining, Course
    <3>2. QED
      BY <3>1, EmptyCourse, Parameters DEF Course
  <2>3. CASE Epoch
    BY <2>3, EpochCourse
  <2>4. CASE Load
    BY <2>4 DEF Load, Course
  <2>5. CASE Predict
    BY <2>5 DEF Predict, Course
  <2>6. CASE Finish
    BY <2>6 DEF Finish, Course
  <2>7. CASE Crash
    BY <2>7 DEF Crash, Course
  <2>8. QED
    BY <2>1, <2>2, <2>3, <2>4, <2>5, <2>6, <2>7 DEF TWNext
<1>3. QED
  BY <1>1, <1>2, PTL DEF TWSpec

(* Training stops early only on patience.                                  *)
THEOREM EarlyStopping == TWSpec => []StopsOnPatience
<1>1. Course => StopsOnPatience
  BY DEF Course, StopsOnPatience
<1>2. QED
  BY <1>1, CourseHolds, PTL

-----------------------------------------------------------------------------
(* The types of the worker's state: a model that is reported has a history *)
(* and an epoch of it.                                                     *)
Typed ==
  /\ TWTypeOK
  /\ pc # "idle" => launches \in 1..MaxLaunches
  /\ pc = "predict" => checkpoint # None

LEMMA TypedStep ==
  ASSUME Course, Course', Typed, [TWNext]_twVars
  PROVE  Typed'
<1>0. /\ MaxLaunches \in Nat \ {0} /\ MaximumEpochs \in Nat \ {0} /\ Patience \in Nat \ {0}
      /\ launches \in Nat /\ launches <= MaxLaunches
  BY TrainAssumption DEF Typed, TWTypeOK
<1>1. /\ pc' \in {"idle", "epoch", "trained", "predict"} /\ outcome' \in Outcomes
      /\ history' \in Seq(Scores \cup {Unstable}) /\ Len(history') <= MaximumEpochs
      /\ bestEpoch' \in 0..Len(history')
  BY DEF Course, Outcome
<1>2. patience' \in 0..Patience
  <2>1. CASE Epoch
    <3>1. patience \in Nat /\ patience < Patience /\ patience' \in {0, patience + 1}
      BY <1>0, <2>1 DEF Epoch, WornBy, Course, Typed, TWTypeOK
    <3>2. QED
      BY <1>0, <3>1
  <2>2. CASE ~Epoch
    <3>1. patience' \in {0, patience}
      BY <2>2 DEF TWNext, twVars, LaunchTraining, Load, Predict, Finish, Crash
    <3>2. QED
      BY <1>0, <3>1 DEF Typed, TWTypeOK
  <2>3. QED
    BY <2>1, <2>2
<1>3. launches' \in 0..MaxLaunches /\ (pc' # "idle" => launches' \in 1..MaxLaunches)
  <2>1. CASE LaunchTraining
    BY <1>0, <2>1 DEF LaunchTraining
  <2>2. CASE ~LaunchTraining
    <3>1. launches' = launches /\ (pc' # "idle" => pc # "idle")
      BY <2>2 DEF TWNext, twVars, Epoch, Load, Predict, Finish, Crash
    <3>2. QED
      BY <1>0, <3>1 DEF Typed, TWTypeOK
  <2>3. QED
    BY <2>1, <2>2
<1>4. checkpoint' \in Checkpoint \cup {None}
  <2>1. CASE Epoch
    <3>1. PICK epoch \in Nat : epoch = Len(history) + 1
      BY <2>1 DEF Typed, TWTypeOK
    <3>2. epoch \in 1..MaximumEpochs /\ launches \in 1..MaxLaunches
      BY <1>0, <2>1, <3>1 DEF Epoch, Typed, TWTypeOK
    <3>3. checkpoint' \in {[launch |-> launches, epoch |-> epoch], checkpoint}
      BY <2>1, <3>1 DEF Epoch
    <3>4. [launch |-> launches, epoch |-> epoch] \in Checkpoint
      BY <3>2 DEF Checkpoint
    <3>5. QED
      BY <3>3, <3>4 DEF Typed, TWTypeOK
  <2>2. CASE ~Epoch
    BY <2>2 DEF TWNext, twVars, LaunchTraining, Load, Predict, Finish, Crash, Typed, TWTypeOK
  <2>3. QED
    BY <2>1, <2>2
<1>5. predicted' \in [Splits -> Checkpoint \cup {None}]
  <2>1. CASE Predict
    BY <2>1 DEF Predict, Typed, TWTypeOK
  <2>2. CASE ~Predict
    BY <2>2 DEF TWNext, twVars, LaunchTraining, Epoch, Load, Finish, Crash, Typed, TWTypeOK
  <2>3. QED
    BY <2>1, <2>2
<1>6. manifest' \in Model \cup {None}
  <2>1. CASE Finish
    <3>1. PICK n \in Nat : n = Len(history) /\ n <= MaximumEpochs
      BY DEF Course
    <3>2. n >= 1
      BY <1>0, <2>1, <3>1 DEF Finish, Course
    <3>3. history \in [1..n -> Scores \cup {Unstable}]
      BY <3>1 DEF Typed, TWTypeOK
    <3>4. history \in UNION {[1..k -> Scores \cup {Unstable}] : k \in 1..MaximumEpochs}
      BY <1>0, <3>1, <3>2, <3>3
    <3>5. PICK best \in 1..MaximumEpochs : best = IF bestEpoch = 0 THEN Len(history) ELSE bestEpoch
      BY <1>0, <3>1, <3>2 DEF Course
    <3>6. checkpoint \in Checkpoint
      BY <2>1 DEF Finish, Typed, TWTypeOK
    <3>7. manifest' = [checkpoint |-> checkpoint, history |-> history, best |-> best]
      BY <2>1, <3>5 DEF Finish
    <3>8. QED
      BY <3>4, <3>5, <3>6, <3>7 DEF Model
  <2>2. CASE ~Finish
    BY <2>2 DEF TWNext, twVars, LaunchTraining, Epoch, Load, Predict, Crash, Typed, TWTypeOK
  <2>3. QED
    BY <2>1, <2>2
<1>7. pc' = "predict" => checkpoint' # None
  BY DEF TWNext, twVars, LaunchTraining, Epoch, Load, NoCheckpoint, Predict, Finish, Crash, Typed
<1>8. QED
  BY <1>1, <1>2, <1>3, <1>4, <1>5, <1>6, <1>7 DEF Typed, TWTypeOK

LEMMA TypedHolds == TWSpec => []Typed
<1>1. TWInit => Typed
  <2> SUFFICES ASSUME TWInit PROVE Typed
    OBVIOUS
  <2>1. /\ launches \in 0..MaxLaunches /\ patience \in 0..Patience /\ bestEpoch \in 0..Len(history)
        /\ history \in Seq(Scores \cup {Unstable}) /\ Len(history) <= MaximumEpochs
    BY TrainAssumption DEF TWInit
  <2>2. QED
    BY <2>1 DEF TWInit, Typed, TWTypeOK
<1>2. Course /\ Course' /\ Typed /\ [TWNext]_twVars => Typed'
  BY TypedStep
<1>3. QED
  BY <1>1, <1>2, CourseHolds, PTL DEF TWSpec

-----------------------------------------------------------------------------
(* A manifest is only written when its checkpoint is on disk, and from     *)
(* then on the flags of run_protocol do not start a training any more.     *)
ManifestKept ==
  /\ pc = "predict" => checkpoint # None
  /\ manifest # None =>
       /\ pc = "idle" /\ checkpoint # None /\ checkpoint = manifest.checkpoint
       /\ \A s \in Splits : predicted[s] = manifest.checkpoint

LEMMA NoRestart ==
  ASSUME ~ByHand, ManifestKept, manifest # None, LaunchTraining
  PROVE  pc' = "idle"
<1>1. checkpoint # None /\ ~Partial
  BY DEF ManifestKept, Partial
<1>2. PICK flag \in Flags : pc' = IF Done(flag) \/ Refuses(flag) THEN "idle" ELSE "epoch"
  BY DEF LaunchTraining
<1>3. flag \in {"none", "resume"}
  BY <1>1 DEF Flags
<1>4. Done(flag) \/ Refuses(flag)
  BY <1>1, <1>3 DEF Done, Refuses
<1>5. QED
  BY <1>2, <1>4

LEMMA ManifestKeptHolds == ASSUME ~ByHand PROVE TWSpec => []ManifestKept
<1>1. TWInit => ManifestKept
  BY DEF TWInit, ManifestKept
<1>2. ManifestKept /\ [TWNext]_twVars => ManifestKept'
  <2> SUFFICES ASSUME ManifestKept, [TWNext]_twVars PROVE ManifestKept'
    OBVIOUS
  <2>1. CASE UNCHANGED twVars
    BY <2>1 DEF ManifestKept, twVars
  <2>2. CASE LaunchTraining
    <3>1. pc' \in {"idle", "epoch"} /\ UNCHANGED <<checkpoint, predicted, manifest>>
      BY <2>2 DEF LaunchTraining
    <3>2. manifest # None => pc' = "idle"
      BY <2>2, NoRestart
    <3>3. QED
      BY <3>1, <3>2 DEF ManifestKept
  <2>3. CASE Epoch
    <3>1. pc = "epoch" /\ pc' \in {"trained", "epoch"} /\ manifest' = manifest
      BY <2>3 DEF Epoch
    <3>2. manifest = None
      BY <3>1 DEF ManifestKept
    <3>3. QED
      BY <3>1, <3>2 DEF ManifestKept
  <2>4. CASE Load
    BY <2>4 DEF Load, NoCheckpoint, ManifestKept
  <2>5. CASE Predict
    <3>1. pc = "predict" /\ UNCHANGED <<pc, checkpoint, manifest>>
      BY <2>5 DEF Predict
    <3>2. manifest = None
      BY <3>1 DEF ManifestKept
    <3>3. QED
      BY <3>1, <3>2 DEF ManifestKept
  <2>6. CASE Finish
    <3>1. pc = "predict" /\ pc' = "idle" /\ UNCHANGED <<checkpoint, predicted>>
          /\ manifest'.checkpoint = checkpoint /\ \A s \in Splits : predicted[s] = checkpoint
      BY <2>6 DEF Finish, AllPredicted
    <3>2. QED
      BY <3>1 DEF ManifestKept
  <2>7. CASE Crash
    BY <2>7 DEF Crash, ManifestKept
  <2>8. QED
    BY <2>1, <2>2, <2>3, <2>4, <2>5, <2>6, <2>7 DEF TWNext
<1>3. QED
  BY <1>1, <1>2, PTL DEF TWSpec

(* Under protocol_runner the manifest on disk describes the checkpoint and *)
(* the predictions on disk, also when the score of an epoch changes from   *)
(* one launch to the next.                                                 *)
THEOREM ManifestIsTrue == ASSUME ~ByHand PROVE TWSpec => []ManifestDescribesDisk
<1>1. ManifestKept => ManifestDescribesDisk
  BY DEF ManifestKept, ManifestDescribesDisk
<1>2. QED
  BY <1>1, ManifestKeptHolds, PTL

-----------------------------------------------------------------------------
(* When a training can be repeated, a checkpoint on disk means that one of *)
(* the first Patience epochs is stable, so that every training finds it.   *)
Repeatable ==
  /\ \A i \in 1..Len(history) : history[i] = outcome[i]
  /\ checkpoint # None \/ bestEpoch # 0 =>
       \E i \in 1..MaximumEpochs : i <= Patience /\ outcome[i] # Unstable
  /\ pc # "idle" /\ bestEpoch # 0 => checkpoint.epoch = bestEpoch
  /\ ReportsTheBest

(* A training that stops with a checkpoint on disk has found its own.      *)
LEMMA FoundItsOwn ==
  ASSUME Course, Repeatable, pc \in {"trained", "predict"}, checkpoint # None
  PROVE  bestEpoch # 0
<1> SUFFICES ASSUME bestEpoch = 0 PROVE FALSE
  OBVIOUS
<1>1. PICK i \in 1..MaximumEpochs : i <= Patience /\ outcome[i] # Unstable
  BY DEF Repeatable
<1>2. history \in Seq(Outcome) /\ Len(history) \in Nat /\ Stable(history) = {}
  <2>1. history \in Seq(Outcome) /\ Selected(history) = 0
    BY DEF Course
  <2>2. Stable(history) = {}
    BY <2>1, SelectedRange
  <2>3. QED
    BY <2>1, <2>2
<1>3. i \in 1..Len(history)
  BY <1>1, <1>2, Parameters DEF Course
<1>4. history[i] # Unstable
  BY <1>1, <1>3 DEF Repeatable
<1>5. QED
  BY <1>2, <1>3, <1>4 DEF Stable

LEMMA RepeatableHolds == ASSUME ~ByHand, Reproducible PROVE TWSpec => []Repeatable
<1>1. TWInit => Repeatable
  BY EmptyCourse DEF TWInit, Repeatable, ReportsTheBest
<1>2. Course /\ ManifestKept /\ Repeatable /\ [TWNext]_twVars => Repeatable'
  <2> SUFFICES ASSUME Course, ManifestKept, Repeatable, [TWNext]_twVars PROVE Repeatable'
    OBVIOUS
  <2>1. CASE UNCHANGED twVars
    BY <2>1 DEF Repeatable, ReportsTheBest, twVars
  <2>2. CASE LaunchTraining
    <3>1. /\ history' = << >> /\ bestEpoch' = 0 /\ outcome' = outcome
          /\ checkpoint' = checkpoint /\ manifest' = manifest
      BY <2>2 DEF LaunchTraining
    <3>2. \A i \in 1..Len(history') : history'[i] = outcome'[i]
      BY <3>1, EmptyCourse
    <3>3. QED
      BY <3>1, <3>2 DEF Repeatable, ReportsTheBest
  <2>3. CASE Epoch
    <3> DEFINE n == Len(history)
               better == Selected(history') = n + 1
    <3>1. /\ history' = Append(history, outcome[n + 1]) /\ outcome' = outcome
          /\ bestEpoch' = IF better THEN n + 1 ELSE bestEpoch
          /\ checkpoint' = IF better THEN [launch |-> launches, epoch |-> n + 1]
                           ELSE checkpoint
          /\ manifest' = manifest /\ pc = "epoch" /\ n < MaximumEpochs
      BY <2>3, Zenon DEF Epoch
    <3>2. /\ history \in Seq(Outcome) /\ n \in Nat /\ n + 1 \in 1..MaximumEpochs
          /\ outcome[n + 1] \in Outcome
          /\ bestEpoch \in 0..n /\ patience = n - bestEpoch /\ patience < Patience
      BY <3>1, Parameters DEF Course, Outcomes, Outcome
    <3>3. /\ Len(history') = n + 1 /\ history' \in Seq(Outcome)
          /\ \A i \in 1..(n + 1) : history'[i] = outcome'[i]
      BY <3>1, <3>2 DEF Repeatable
    <3>4. CASE better
      <4>1. bestEpoch' = n + 1 /\ checkpoint'.epoch = n + 1
        BY <3>1, <3>4
      <4>2. n + 1 \in Stable(history')
        BY <3>2, <3>3, <3>4, SelectedIsBest DEF Best
      <4>3. outcome[n + 1] # Unstable
        BY <3>1, <3>2, <4>2 DEF Stable
      <4>4. \E i \in 1..MaximumEpochs : i <= Patience /\ outcome[i] # Unstable
        <5>1. CASE bestEpoch = 0
          BY <3>2, <4>3, <5>1, Parameters
        <5>2. CASE bestEpoch # 0
          BY <5>2 DEF Repeatable
        <5>3. QED
          BY <5>1, <5>2
      <4>5. QED
        BY <3>1, <3>3, <4>1, <4>4 DEF Repeatable, ReportsTheBest
    <3>5. CASE ~better
      <4>1. bestEpoch' = bestEpoch /\ checkpoint' = checkpoint
        BY <3>1, <3>5
      <4>2. QED
        BY <3>1, <3>3, <4>1 DEF Repeatable, ReportsTheBest
    <3>6. QED
      BY <3>4, <3>5
  <2>4. CASE Load
    BY <2>4 DEF Load, Repeatable, ReportsTheBest
  <2>5. CASE Predict
    BY <2>5 DEF Predict, Repeatable, ReportsTheBest
  <2>6. CASE Finish
    <3>1. /\ pc = "predict" /\ pc' = "idle"
          /\ UNCHANGED <<outcome, history, bestEpoch, checkpoint>>
          /\ manifest' = [checkpoint |-> checkpoint, history |-> history,
                          best |-> IF bestEpoch = 0 THEN Len(history) ELSE bestEpoch]
      BY <2>6, Zenon DEF Finish
    <3>2. bestEpoch # 0
      BY <3>1, FoundItsOwn DEF ManifestKept
    <3>3. /\ manifest'.checkpoint = checkpoint /\ manifest'.history = history
          /\ manifest'.best = bestEpoch
      BY <3>1, <3>2
    <3>4. Best(history, bestEpoch)
      BY <3>2, SelectedIsBest DEF Course, Selected
    <3>5. checkpoint.epoch = bestEpoch
      BY <3>1, <3>2 DEF Repeatable
    <3>6. ReportsTheBest'
      BY <3>3, <3>4, <3>5 DEF ReportsTheBest, Best, Stable
    <3>7. QED
      BY <3>1, <3>6 DEF Repeatable
  <2>7. CASE Crash
    BY <2>7 DEF Crash, Repeatable, ReportsTheBest
  <2>8. QED
    BY <2>1, <2>2, <2>3, <2>4, <2>5, <2>6, <2>7 DEF TWNext
<1>3. QED
  BY <1>1, <1>2, CourseHolds, ManifestKeptHolds, PTL DEF TWSpec

(* Under protocol_runner, with repeatable training, the epoch a manifest   *)
(* reports has the best score of its history and is the one of the         *)
(* checkpoint, however often the worker was killed.                        *)
THEOREM BestIsReported == ASSUME ~ByHand, Reproducible PROVE TWSpec => []ReportsTheBest
<1>1. Repeatable => ReportsTheBest
  BY DEF Repeatable
<1>2. QED
  BY <1>1, RepeatableHolds, PTL

(* A training that is only started by the protocol runner, and repeats its *)
(* scores when it is started again, keeps all of it.                       *)
THEOREM TrainingKeepsItsWord ==
  ASSUME ~ByHand, Reproducible PROVE TWSpec => []TrainingIsSound
<1>1. Typed /\ ManifestDescribesDisk /\ ReportsTheBest /\ StopsOnPatience => TrainingIsSound
  BY DEF TrainingIsSound, Typed
<1>2. QED
  BY <1>1, TypedHolds, EarlyStopping, ManifestIsTrue, BestIsReported, PTL

-----------------------------------------------------------------------------
(* RunRegistry.                                                            *)
Active(r) == step[r] \notin {"new", "done"}

LEMMA LinesAreSeq == ASSUME RRTypeOK PROVE Lines \in Seq(Line)
<1>1. << >> \in Seq(Line)
  OBVIOUS
<1>2. QED
  BY <1>1, Zenon DEF RRTypeOK, Lines

(* What the lines are once a row has been added.                           *)
LEMMA OneMoreRow ==
  ASSUME RRTypeOK, NEW r \in Runs, file' = Append(Lines, r), config' = config
  PROVE  /\ file' \in Seq(Line) /\ file' # Absent /\ Len(Lines)' = Len(Lines) + 1
         /\ HasHeader' <=> HasHeader
         /\ \A c : \A i : i \in Listed(c)' =>
              i \in Listed(c) \/ (i = Len(Lines) + 1 /\ config[r] = c)
         /\ \A c : Listed(c) \subseteq Listed(c)'
<1>1. Lines \in Seq(Line) /\ r \in Line /\ r # Header
  BY LinesAreSeq, RegistryAssumption DEF Line
<1>2. file' \in Seq(Line) /\ file' # Absent
  BY <1>1, RegistryAssumption
<1>3. Lines' = Append(Lines, r)
  BY <1>2 DEF Lines
<1>4. PICK L, n : L = Lines /\ n = Len(Lines)
  OBVIOUS
<1>5. L \in Seq(Line) /\ n = Len(L) /\ n \in Nat /\ Lines' = Append(L, r)
  BY <1>1, <1>3, <1>4
<1>6. /\ Len(Append(L, r)) = n + 1 /\ DOMAIN Append(L, r) = 1..(n + 1) /\ DOMAIN L = 1..n
      /\ \A i \in 1..n : Append(L, r)[i] = L[i]
      /\ Append(L, r)[n + 1] = r /\ Append(L, r) # << >>
  BY <1>1, <1>5
<1>7. HasHeader' <=> HasHeader
  <2>1. HasHeader' <=> Append(L, r)[1] = Header
    BY <1>5, <1>6 DEF HasHeader
  <2>2. CASE L = << >>
    <3>1. n = 0
      BY <1>5, <2>2
    <3>2. Append(L, r)[1] = r
      BY <1>6, <3>1
    <3>3. QED
      BY <1>1, <1>4, <2>1, <2>2, <3>2 DEF HasHeader
  <2>3. CASE L # << >>
    <3>1. 1 \in 1..n
      BY <1>5, <2>3
    <3>2. Append(L, r)[1] = L[1]
      BY <1>6, <3>1
    <3>3. QED
      BY <1>4, <2>1, <2>3, <3>2 DEF HasHeader
  <2>4. QED
    BY <2>2, <2>3
<1>8. ASSUME NEW c, NEW i, i \in Listed(c)'
      PROVE  i \in Listed(c) \/ (i = Len(Lines) + 1 /\ config[r] = c)
  <2>1. i \in 1..(n + 1) /\ Append(L, r)[i] \in Runs /\ config[Append(L, r)[i]] = c
    BY <1>5, <1>6, <1>8 DEF Listed
  <2>2. CASE i = n + 1
    BY <1>4, <1>6, <2>1, <2>2
  <2>3. CASE i \in 1..n
    BY <1>4, <1>6, <2>1, <2>3 DEF Listed
  <2>4. QED
    BY <1>5, <2>1, <2>2, <2>3
<1>9. ASSUME NEW c, NEW i, i \in Listed(c)
      PROVE  i \in Listed(c)'
  <2>1. i \in 1..n /\ L[i] \in Runs /\ config[L[i]] = c
    BY <1>4, <1>6, <1>9 DEF Listed
  <2>2. i \in 1..(n + 1) /\ Append(L, r)[i] = L[i]
    BY <1>5, <1>6, <2>1
  <2>3. QED
    BY <1>5, <1>6, <2>1, <2>2 DEF Listed
<1>10. Len(Lines)' = Len(Lines) + 1
  BY <1>4, <1>5, <1>6
<1>11. QED
  BY <1>2, <1>7, <1>8, <1>9, <1>10

(* What the lines are once the header is written over them.                *)
LEMMA HeaderWritten ==
  ASSUME RRTypeOK, file' = <<Header>> \o Overwritten, config' = config
  PROVE  /\ file' \in Seq(Line) /\ file' # Absent /\ HasHeader'
         /\ Lines = << >> => \A c : Listed(c)' = {}
<1>1. Lines \in Seq(Line) /\ Torn \in Line /\ Header \in Line /\ Header \notin Runs
  BY LinesAreSeq, RegistryAssumption DEF Line
<1>2. Overwritten \in Seq(Line)
  <2>1. CASE Lines = << >>
    BY <2>1 DEF Overwritten
  <2>2. CASE Lines # << >>
    <3>1. Tail(Lines) \in Seq(Line) /\ <<Torn>> \in Seq(Line)
      BY <1>1, <2>2
    <3>2. <<Torn>> \o Tail(Lines) \in Seq(Line)
      BY <3>1
    <3>3. QED
      BY <2>2, <3>2 DEF Overwritten
  <2>3. QED
    BY <2>1, <2>2
<1>3. PICK O : O = Overwritten
  OBVIOUS
<1>4. <<Header>> \o O \in Seq(Line) /\ (<<Header>> \o O)[1] = Header /\ <<Header>> \o O # << >>
  BY <1>1, <1>2, <1>3
<1>5. file' \in Seq(Line) /\ file' # Absent
  BY <1>3, <1>4, RegistryAssumption
<1>6. Lines' = <<Header>> \o O
  BY <1>3, <1>5 DEF Lines
<1>7. HasHeader'
  BY <1>4, <1>6 DEF HasHeader
<1>8. ASSUME Lines = << >>
      PROVE  \A c : Listed(c)' = {}
  <2>1. O = << >>
    BY <1>3, <1>8 DEF Overwritten
  <2>2. DOMAIN (<<Header>> \o O) = {1}
    BY <1>1, <2>1
  <2>3. QED
    BY <1>1, <1>4, <1>6, <2>2 DEF Listed
<1>9. QED
  BY <1>5, <1>7, <1>8

(* Without a change of the file nothing else changes.                      *)
LEMMA SameLines ==
  ASSUME UNCHANGED <<config, file>>
  PROVE  /\ Lines' = Lines /\ (HasHeader' <=> HasHeader) /\ \A c : Listed(c)' = Listed(c)
BY DEF Lines, HasHeader, Listed

(* A run that goes on: the others stay where they are.                     *)
LEMMA GoesOn ==
  ASSUME RRTypeOK, NEW r \in Runs, NEW from, NEW to \in Stages, Goes(r, from, to)
  PROVE  /\ step' \in [Runs -> Stages] /\ step'[r] = to /\ step[r] = from
         /\ \A s \in Runs \ {r} : step'[s] = step[s]
         /\ serial' = serial /\ config' = config
BY DEF RRTypeOK, Goes

(* What a step of a run does to its stage and to the file.                 *)
StepOf(r, from, to) ==
  /\ step[r] = from /\ step'[r] = to /\ step' \in [Runs -> Stages]
  /\ \A s \in Runs \ {r} : step'[s] = step[s]
  /\ serial' = serial /\ config' = config

LEMMA StepOfRun ==
  ASSUME RRTypeOK, NEW r \in Runs,
         Open(r) \/ Create(r) \/ WriteHeader(r) \/ Audit(r) \/ LookUp(r) \/ AddRow(r) \/ Kill(r)
  PROVE  \/ StepOf(r, "new", "create") /\ file' = file /\ file = Absent /\ MayStart
         \/ StepOf(r, "new", "audit") /\ file' = file /\ file # Absent /\ MayStart
         \/ StepOf(r, "create", "header") /\ file' = << >>
         \/ StepOf(r, "header", "audit") /\ HasHeader /\ file' = file
         \/ StepOf(r, "header", "audit") /\ ~HasHeader /\ file' = <<Header>> \o Overwritten
         \/ StepOf(r, "audit", "check") /\ file' = file
         \/ StepOf(r, "check", "append") /\ file' = file /\ ~Misread /\ ~Reuses(r)
         \/ StepOf(r, "append", "done") /\ file' = Append(Lines, r)
         \/ Active(r) /\ StepOf(r, step[r], "done") /\ file' = file
<1>1. CASE Open(r)
  <2>1. CASE Creates
    <3>1. Goes(r, "new", "create")
      BY <1>1, <2>1 DEF Open
    <3>2. StepOf(r, "new", "create")
      BY <3>1, GoesOn DEF StepOf, Stages
    <3>3. QED
      BY <1>1, <2>1, <3>2 DEF Open, Creates
  <2>2. CASE ~Creates
    <3>1. Goes(r, "new", "audit")
      BY <1>1, <2>2 DEF Open
    <3>2. StepOf(r, "new", "audit")
      BY <3>1, GoesOn DEF StepOf, Stages
    <3>3. QED
      BY <1>1, <2>2, <3>2 DEF Open, Creates
  <2>3. QED
    BY <2>1, <2>2
<1>2. CASE Create(r)
  <2>1. StepOf(r, "create", "header")
    BY <1>2, GoesOn DEF Create, StepOf, Stages
  <2>2. QED
    BY <1>2, <2>1 DEF Create
<1>3. CASE WriteHeader(r)
  <2>1. StepOf(r, "header", "audit")
    BY <1>3, GoesOn DEF WriteHeader, StepOf, Stages
  <2>2. QED
    BY <1>3, <2>1 DEF WriteHeader
<1>4. CASE Audit(r)
  <2>1. PICK to \in {"check", "done"} : Goes(r, "audit", to)
    BY <1>4 DEF Audit
  <2>2. to \in Stages
    BY DEF Stages
  <2>3. StepOf(r, "audit", to)
    BY <2>1, <2>2, GoesOn DEF StepOf
  <2>4. step[r] = "audit"
    BY <2>3 DEF StepOf
  <2>5. Active(r)
    BY <2>4 DEF Active
  <2>6. QED
    BY <1>4, <2>3, <2>4, <2>5 DEF Audit
<1>5. CASE LookUp(r)
  <2>1. CASE Misread \/ Reuses(r)
    <3>1. Goes(r, "check", "done")
      BY <1>5, <2>1 DEF LookUp
    <3>2. StepOf(r, "check", "done")
      BY <3>1, GoesOn DEF StepOf, Stages
    <3>3. step[r] = "check"
      BY <3>2 DEF StepOf
    <3>4. Active(r)
      BY <3>3 DEF Active
    <3>5. QED
      BY <1>5, <3>2, <3>3, <3>4 DEF LookUp
  <2>2. CASE ~(Misread \/ Reuses(r))
    <3>1. Goes(r, "check", "append")
      BY <1>5, <2>2 DEF LookUp
    <3>2. StepOf(r, "check", "append")
      BY <3>1, GoesOn DEF StepOf, Stages
    <3>3. QED
      BY <1>5, <2>2, <3>2 DEF LookUp
  <2>3. QED
    BY <2>1, <2>2
<1>6. CASE AddRow(r)
  <2>1. StepOf(r, "append", "done")
    BY <1>6, GoesOn DEF AddRow, StepOf, Stages
  <2>2. QED
    BY <1>6, <2>1 DEF AddRow
<1>7. CASE Kill(r)
  <2>1. StepOf(r, step[r], "done")
    BY <1>7, GoesOn DEF Kill, StepOf, Stages
  <2>2. QED
    BY <1>7, <2>1 DEF Kill, Active
<1>8. QED
  BY <1>1, <1>2, <1>3, <1>4, <1>5, <1>6, <1>7

(* Whoever reads or writes the registry has found or created it, whether   *)
(* runs take turns or not.                                                 *)
LEMMA RegistryTypes == RRSpec => []RRTypeOK
<1>1. RRInit => RRTypeOK
  BY DEF RRInit, RRTypeOK, Stages
<1>2. RRTypeOK /\ [RRNext]_rrVars => RRTypeOK'
  <2> SUFFICES ASSUME RRTypeOK, [RRNext]_rrVars PROVE RRTypeOK'
    OBVIOUS
  <2>1. CASE UNCHANGED rrVars
    BY <2>1 DEF RRTypeOK, rrVars
  <2>2. CASE RRNext
    <3>1. PICK r \in Runs : \/ Open(r) \/ Create(r) \/ WriteHeader(r) \/ Audit(r)
                            \/ LookUp(r) \/ AddRow(r) \/ Kill(r)
      BY <2>2 DEF RRNext
    <3>2. PICK from, to : StepOf(r, from, to)
      BY <3>1, StepOfRun
    <3>3. serial' \in BOOLEAN /\ config' \in [Runs -> Configs] /\ step' \in [Runs -> Stages]
      BY <3>2 DEF StepOf, RRTypeOK
    <3>4. \/ file' = file /\ (to \in Stages \ {"new", "create", "done"} => file # Absent)
          \/ file' \in Seq(Line) /\ file' # Absent
      <4>1. << >> \in Seq(Line) /\ << >> # Absent
        <5>1. << >> \in Seq(Line)
          OBVIOUS
        <5>2. QED
          BY <5>1, RegistryAssumption
      <4>2. CASE file' = file
        <5>1. step'[r] = to
          BY <3>2 DEF StepOf
        <5>2. ASSUME to \in Stages \ {"new", "create", "done"}, file = Absent
              PROVE  FALSE
          <6>1. step[r] \notin {"header", "audit", "check", "append"}
            BY <5>2 DEF RRTypeOK, Stages
          <6>2. step'[r] \in {"header", "audit", "check", "append"}
            BY <5>1, <5>2 DEF Stages
          <6>3. file' = << >> \/ file # Absent
            BY <3>1, <6>1, <6>2, StepOfRun DEF StepOf
          <6>4. QED
            BY <4>1, <4>2, <5>2, <6>3
        <5>3. QED
          BY <4>2, <5>2
      <4>3. CASE file' # file
        <5>1. \/ file' = << >>
              \/ file' = <<Header>> \o Overwritten /\ config' = config
              \/ file' = Append(Lines, r) /\ config' = config
          BY <3>1, <3>2, <4>3, StepOfRun DEF StepOf
        <5>2. QED
          BY <4>1, <5>1, OneMoreRow, HeaderWritten
      <4>4. QED
        BY <4>2, <4>3
    <3>5. ASSUME NEW s \in Runs, step'[s] \in Stages \ {"new", "create", "done"}
          PROVE  file' # Absent
      <4>1. CASE s = r
        BY <3>2, <3>4, <3>5, <4>1 DEF StepOf, RRTypeOK
      <4>2. CASE s # r
        BY <3>2, <3>4, <3>5, <4>2 DEF StepOf, RRTypeOK
      <4>3. QED
        BY <4>1, <4>2
    <3>6. file' = Absent \/ file' \in Seq(Line)
      BY <3>4 DEF RRTypeOK
    <3>7. QED
      BY <3>3, <3>5, <3>6 DEF RRTypeOK
  <2>3. QED
    BY <2>1, <2>2
<1>3. QED
  BY <1>1, <1>2, PTL DEF RRSpec

(* While runs take turns: only one is under way, the one that creates the  *)
(* file has seen that there is none, the one that writes the header finds  *)
(* it empty, and the one that adds its row has seen that its configuration *)
(* is not listed, or that there was no header and nothing after a first    *)
(* line.                                                                   *)
Turns ==
  serial =>
    /\ \A r, s \in Runs : Active(r) /\ Active(s) => r = s
    /\ \A r \in Runs : step[r] = "create" => file = Absent
    /\ \A r \in Runs : step[r] = "header" => Lines = << >>
    /\ \A r \in Runs : step[r] = "append" =>
          IF HasHeader THEN Listed(config[r]) = {} ELSE Len(Lines) <= 1
    /\ UniqueUnderAHeader

(* The run that goes on is the only one under way, and stays so.           *)
LEMMA TurnTaken ==
  ASSUME RRTypeOK, Turns, serial, NEW r \in Runs, NEW from, NEW to, StepOf(r, from, to),
         Active(r) \/ MayStart
  PROVE  /\ \A s \in Runs \ {r} : ~Active(s) /\ step'[s] \in {"new", "done"}
         /\ \A s, t \in Runs : Active(s)' /\ Active(t)' => s = t
<1>1. \A s \in Runs \ {r} : step[s] \in {"new", "done"}
  BY DEF Turns, Active, MayStart
<1>2. \A s \in Runs \ {r} : ~Active(s) /\ step'[s] \in {"new", "done"} /\ ~Active(s)'
  BY <1>1 DEF StepOf, Active
<1>3. QED
  BY <1>2

LEMMA RowAddedInTurn ==
  ASSUME RRTypeOK, Turns, serial, serial', NEW r \in Runs,
         step[r] = "append", file' = Append(Lines, r), config' = config
  PROVE  UniqueUnderAHeader'
<1>1. PICK n \in Nat : n = Len(Lines)
  BY LinesAreSeq
<1>2. Len(Lines)' = n + 1 /\ (HasHeader' <=> HasHeader)
  BY <1>1, OneMoreRow
<1>3. CASE HasHeader
  <2>1. Listed(config[r]) = {} /\ \A c \in Configs : AtMostOne(c)
    BY <1>3 DEF Turns, UniqueUnderAHeader
  <2>2. ASSUME NEW c \in Configs, NEW i \in Listed(c)', NEW j \in Listed(c)'
        PROVE  i = j
    <3>1. /\ i \in Listed(c) \/ (i = n + 1 /\ config[r] = c)
          /\ j \in Listed(c) \/ (j = n + 1 /\ config[r] = c)
      BY <1>1, OneMoreRow
    <3>2. CASE config[r] = c
      BY <2>1, <3>1, <3>2
    <3>3. CASE config[r] # c
      BY <2>1, <3>1, <3>3 DEF AtMostOne
    <3>4. QED
      BY <3>2, <3>3
  <2>3. \A c \in Configs : AtMostOne(c)'
    BY <2>2 DEF AtMostOne
  <2>4. QED
    BY <1>2, <1>3, <2>3 DEF UniqueUnderAHeader
<1>4. CASE ~HasHeader
  <2>1. n <= 1
    BY <1>1, <1>4 DEF Turns
  <2>2. QED
    BY <1>2, <1>4, <2>1 DEF UniqueUnderAHeader
<1>5. QED
  BY <1>3, <1>4

LEMMA TurnsHold == RRSpec => []Turns
<1>1. RRInit => Turns
  BY DEF RRInit, Turns, Active, UniqueUnderAHeader, HasHeader, Lines
<1>2. RRTypeOK /\ Turns /\ [RRNext]_rrVars => Turns'
  <2> SUFFICES ASSUME RRTypeOK, Turns, [RRNext]_rrVars, serial' PROVE Turns'
    BY DEF Turns
  <2>1. CASE UNCHANGED rrVars
    <3>1. serial /\ UNCHANGED <<step, config, file>>
      BY <2>1 DEF rrVars
    <3>2. QED
      BY <3>1, SameLines DEF Turns, Active, UniqueUnderAHeader, AtMostOne
  <2>2. CASE RRNext
    <3>1. PICK r \in Runs : \/ Open(r) \/ Create(r) \/ WriteHeader(r) \/ Audit(r)
                            \/ LookUp(r) \/ AddRow(r) \/ Kill(r)
      BY <2>2 DEF RRNext
    <3>2. PICK from, to : StepOf(r, from, to) /\ (Active(r) \/ MayStart)
      BY <3>1, StepOfRun DEF Active, StepOf
    <3>3. serial /\ config' = config
      BY <3>2 DEF StepOf
    <3>4. /\ \A s \in Runs \ {r} : ~Active(s) /\ step'[s] \in {"new", "done"}
          /\ \A s, t \in Runs : Active(s)' /\ Active(t)' => s = t
      BY <3>2, <3>3, TurnTaken
    <3>5. /\ step'[r] = "create" => file' = Absent
          /\ step'[r] = "header" => Lines' = << >>
          /\ step'[r] = "append" =>
               IF HasHeader' THEN Listed(config[r])' = {} ELSE Len(Lines)' <= 1
      <4>1. CASE step'[r] = "create"
        BY <3>1, <4>1, StepOfRun DEF StepOf
      <4>2. CASE step'[r] = "header"
        <5>1. file' = << >>
          BY <3>1, <4>2, StepOfRun DEF StepOf
        <5>2. QED
          BY <4>2, <5>1 DEF Lines
      <4>3. CASE step'[r] = "append"
        <5>1. file' = file /\ ~Misread /\ ~Reuses(r)
          BY <3>1, <4>3, StepOfRun DEF StepOf
        <5>2. PICK n \in Nat : n = Len(Lines)
          BY LinesAreSeq
        <5>3. IF HasHeader THEN Listed(config[r]) = {} ELSE n <= 1
          BY <5>1, <5>2 DEF Misread, Reuses
        <5>4. QED
          BY <3>3, <4>3, <5>1, <5>2, <5>3, SameLines
      <4>4. QED
        BY <4>1, <4>2, <4>3
    <3>6. UniqueUnderAHeader'
      <4>1. CASE file' = file
        BY <3>3, <4>1, SameLines DEF Turns, UniqueUnderAHeader, AtMostOne
      <4>2. CASE file' = << >>
        <5>1. Lines' = << >>
          BY <4>2 DEF Lines
        <5>2. QED
          BY <5>1 DEF UniqueUnderAHeader, HasHeader
      <4>3. CASE step[r] = "header" /\ file' = <<Header>> \o Overwritten
        <5>1. Lines = << >>
          BY <3>3, <4>3 DEF Turns
        <5>2. HasHeader' /\ \A c : Listed(c)' = {}
          BY <3>3, <4>3, <5>1, HeaderWritten
        <5>3. QED
          BY <5>2 DEF UniqueUnderAHeader, AtMostOne
      <4>4. CASE step[r] = "append" /\ file' = Append(Lines, r)
        BY <3>3, <4>4, RowAddedInTurn
      <4>5. QED
        BY <3>1, <4>1, <4>2, <4>3, <4>4, StepOfRun DEF StepOf
    <3>7. QED
      BY <3>3, <3>4, <3>5, <3>6 DEF Turns
  <2>3. QED
    BY <2>1, <2>2
<1>3. QED
  BY <1>1, <1>2, RegistryTypes, PTL DEF RRSpec

(* Smoke runs that follow each other list no configuration twice under a   *)
(* header, and stop adding rows once the header is lost, whoever is killed *)
(* (registry.py:44-50).                                                    *)
THEOREM SerialRunsAreUnique == RRSpec => []UniqueUnderAHeader
<1>1. Turns => UniqueUnderAHeader
  BY DEF Turns, UniqueUnderAHeader
<1>2. QED
  BY <1>1, TurnsHold, PTL

(* A success on record stays, and whoever looks for it finds it, however   *)
(* many runs are under way and whoever is killed.                          *)
LEMMA SettledStays ==
  ASSUME RRTypeOK, [RRNext]_rrVars
  PROVE  SettledIsSettled
<1> SUFFICES ASSUME NEW c \in Configs, Settled(c)
             PROVE  /\ Settled(c)'
                    /\ \A r \in Runs : config[r] = c /\ step'[r] = "append" => step[r] = "append"
  BY DEF SettledIsSettled
<1>1. HasHeader /\ Listed(c) # {} /\ \A r \in Runs : step[r] # "create"
  BY DEF Settled
<1>2. CASE UNCHANGED rrVars
  <2>1. UNCHANGED <<step, config, file>>
    BY <1>2 DEF rrVars
  <2>2. QED
    BY <1>1, <2>1, SameLines DEF Settled
<1>3. CASE RRNext
  <2>1. PICK r \in Runs : \/ Open(r) \/ Create(r) \/ WriteHeader(r) \/ Audit(r)
                          \/ LookUp(r) \/ AddRow(r) \/ Kill(r)
    BY <1>3 DEF RRNext
  <2>2. PICK from, to : StepOf(r, from, to)
    BY <2>1, StepOfRun
  <2>3. file # Absent
    BY <1>1 DEF HasHeader, Lines
  <2>4. step'[r] # "create" /\ step[r] # "create"
    BY <1>1, <2>1, <2>3, StepOfRun DEF StepOf
  <2>5. step'[r] = "append" => config[r] # c
    BY <1>1, <2>1, StepOfRun DEF StepOf, Reuses
  <2>6. file' = file \/ file' = Append(Lines, r)
    BY <1>1, <2>1, <2>4, StepOfRun DEF StepOf
  <2>7. HasHeader' /\ Listed(c)' # {}
    <3>1. config' = config
      BY <2>2 DEF StepOf
    <3>2. CASE file' = file
      BY <1>1, <3>1, <3>2, SameLines
    <3>3. CASE file' = Append(Lines, r)
      BY <1>1, <3>1, <3>3, OneMoreRow
    <3>4. QED
      BY <2>6, <3>2, <3>3
  <2>8. \A s \in Runs \ {r} : step'[s] = step[s]
    BY <2>2 DEF StepOf
  <2>9. QED
    BY <1>1, <2>4, <2>5, <2>7, <2>8 DEF Settled
<1>4. QED
  BY <1>2, <1>3

(* What the registry promises: runs that take turns list no configuration  *)
(* twice under a header and never lose a row, and any runs at all find a   *)
(* success that is on record.                                              *)
THEOREM RegistryIsKept == RRSpec => RegistryIsSound
<1>1. ASSUME RRTypeOK, Turns, [RRNext]_rrVars PROVE KeepsItsRows
  <2> SUFFICES ASSUME serial, file # Absent PROVE file' # Absent /\ IsPrefix(file, file')
    BY DEF KeepsItsRows
  <2>1. file \in Seq(Line) /\ Lines = file
    BY <1>1 DEF RRTypeOK, Lines
  <2>2. CASE file' = file
    BY <2>1, <2>2 DEF IsPrefix
  <2>3. CASE file' # file
    <3>1. PICK r \in Runs : \/ Open(r) \/ Create(r) \/ WriteHeader(r) \/ Audit(r)
                            \/ LookUp(r) \/ AddRow(r) \/ Kill(r)
      BY <1>1, <2>3 DEF RRNext, rrVars
    <3>2. step[r] # "create"
      BY <1>1 DEF Turns
    <3>3. PICK t \in Seq(Line) : file' = file \o t
      <4>1. CASE file' = Append(Lines, r)
        <5>1. <<r>> \in Seq(Line) /\ Append(file, r) = file \o <<r>>
          BY <2>1 DEF Line
        <5>2. QED
          BY <2>1, <4>1, <5>1
      <4>2. CASE step[r] = "header" /\ file' = <<Header>> \o Overwritten /\ config' = config
        <5>1. file = << >>
          BY <1>1, <2>1, <4>2 DEF Turns
        <5>2. file' \in Seq(Line)
          BY <1>1, <4>2, HeaderWritten
        <5>3. file' = << >> \o file'
          BY <5>2
        <5>4. QED
          BY <5>1, <5>2, <5>3
      <4>3. QED
        BY <1>1, <2>3, <3>1, <3>2, <4>1, <4>2, StepOfRun DEF StepOf
    <3>4. file' \in Seq(Line)
      BY <2>1, <3>3
    <3>5. file' # Absent
      BY <3>4, RegistryAssumption
    <3>6. IsPrefix(file, file')
      BY <2>1, <3>3 DEF IsPrefix
    <3>7. QED
      BY <3>5, <3>6
  <2>4. QED
    BY <2>2, <2>3
<1>2. Turns' => UniqueUnderAHeader'
  BY DEF Turns, UniqueUnderAHeader
<1>3. RRTypeOK /\ RRTypeOK' /\ Turns /\ Turns' /\ [RRNext]_rrVars
        => [RRTypeOK' /\ UniqueUnderAHeader' /\ KeepsItsRows /\ SettledIsSettled]_rrVars
  BY <1>1, <1>2, SettledStays
<1>4. QED
  BY <1>3, RegistryTypes, TurnsHold, PTL DEF RRSpec, RegistryIsSound

-----------------------------------------------------------------------------
(* CheckpointResume.                                                       *)
(* An engine whose entries it numbered itself.                             *)
Fits(en) == en \in Engine /\ \A x \in en.queue : x.sequence <= en.seq

LEMMA PushFits ==
  ASSUME NEW en, Fits(en), NEW e \in Events
  PROVE  Fits(Push(en, e)) /\ Push(en, e).log = en.log
<1> DEFINE entry == [time |-> Time[e], sequence |-> en.seq + 1, event |-> e]
<1>1. en.queue \in SUBSET Entry /\ en.seq \in Nat /\ en.log \in Seq(Events) /\ en \in Engine
  BY DEF Fits, Engine
<1>2. Time[e] \in Nat
  BY ResumeAssumption
<1>3. entry \in Entry /\ entry.sequence = en.seq + 1
  BY <1>1, <1>2 DEF Entry
<1> HIDE DEF entry
<1>4. /\ Push(en, e) \in Engine /\ Push(en, e).queue = en.queue \cup {entry}
      /\ Push(en, e).seq = en.seq + 1 /\ Push(en, e).log = en.log
  <2>1. en.queue \cup {entry} \in SUBSET Entry /\ en.seq + 1 \in Nat
    BY <1>1, <1>3
  <2>2. Push(en, e) = [en EXCEPT !.queue = @ \cup {entry}, !.seq = @ + 1]
    BY Zenon DEF Push, entry
  <2>3. QED
    BY <1>1, <2>1, <2>2 DEF Engine
<1>5. \A x \in en.queue : x.sequence \in Nat /\ x.sequence <= en.seq
  BY <1>1 DEF Fits, Entry
<1>6. QED
  BY <1>1, <1>3, <1>4, <1>5 DEF Fits

(* Pushes is the function its recursive definition describes.              *)
IsPushes(f, en, es, m) ==
  f = [i \in 0..m |-> IF i = 0 THEN en ELSE Push(f[i - 1], es[i])]

LEMMA PushesUnfolds ==
  ASSUME NEW en, NEW es \in Seq(Events)
  PROVE  IsPushes(Pushes(en, es), en, es, Len(es))
<1> DEFINE undefined == {m \in 0..Len(es) : ~ \E f : IsPushes(f, en, es, m)}
<1>0. Len(es) \in Nat
  OBVIOUS
<1>1. undefined = {}
  <2> SUFFICES ASSUME undefined # {} PROVE FALSE
    OBVIOUS
  <2>1. undefined \in SUBSET Nat
    OBVIOUS
  <2>2. PICK m \in undefined : \A n \in undefined : m <= n
    BY <2>1, LeastElement
  <2>3. CASE m = 0
    <3>1. IsPushes([i \in 0..0 |-> en], en, es, 0)
      BY DEF IsPushes
    <3>2. QED
      BY <2>2, <2>3, <3>1
  <2>4. CASE m # 0
    <3> DEFINE next(f, i) == IF i = 0 THEN en ELSE Push(f[i - 1], es[i])
    <3>1. m \in Nat /\ m - 1 \in 0..Len(es) /\ ~(m <= m - 1)
      BY <1>0, <2>1, <2>2, <2>4
    <3>2. PICK f : IsPushes(f, en, es, m - 1)
      BY <2>2, <3>1
    <3>3. f = [i \in 0..(m - 1) |-> next(f, i)]
      BY <3>2 DEF IsPushes
    <3> DEFINE g == [i \in 0..m |-> next(f, i)]
    <3>4. \A i \in 0..m : i # 0 => g[i - 1] = f[i - 1]
      <4> HIDE DEF next
      <4>1. QED
        BY <3>1, <3>3
    <3>5. \A i \in 0..m : next(g, i) = next(f, i)
      <4> HIDE DEF g
      <4>1. QED
        BY <3>4
    <3>6. g = [i \in 0..m |-> next(g, i)]
      <4> HIDE DEF next
      <4>1. QED
        BY <3>5, Zenon
    <3>7. IsPushes(g, en, es, m)
      BY <3>6 DEF IsPushes
    <3>8. QED
      BY <2>2, <3>7
  <2>5. QED
    BY <2>3, <2>4
<1>2. Len(es) \in 0..Len(es)
  BY <1>0
<1>3. \E f : IsPushes(f, en, es, Len(es))
  BY <1>1, <1>2
<1>4. Pushes(en, es) = CHOOSE f : IsPushes(f, en, es, Len(es))
  BY Zenon DEF Pushes, IsPushes
<1>5. QED
  BY <1>3, <1>4

LEMMA PushAllFits ==
  ASSUME NEW en, Fits(en), NEW es \in Seq(Events)
  PROVE  Fits(PushAll(en, es)) /\ PushAll(en, es).log = en.log
<1> DEFINE f == Pushes(en, es)
           bad == {i \in 0..Len(es) : ~(Fits(f[i]) /\ f[i].log = en.log)}
<1>0. Len(es) \in Nat
  OBVIOUS
<1>1. IsPushes(f, en, es, Len(es))
  BY PushesUnfolds
<1> HIDE DEF f
<1>2. \A i \in 0..Len(es) : f[i] = IF i = 0 THEN en ELSE Push(f[i - 1], es[i])
  BY <1>1 DEF IsPushes
<1>3. bad = {}
  <2> SUFFICES ASSUME bad # {} PROVE FALSE
    OBVIOUS
  <2>1. bad \in SUBSET Nat
    OBVIOUS
  <2>2. PICK m \in bad : \A n \in bad : m <= n
    BY <2>1, LeastElement
  <2>3. m # 0
    BY <1>0, <1>2, <2>2
  <2>4. m - 1 \in 0..Len(es) /\ ~(m <= m - 1) /\ m \in 1..Len(es)
    BY <1>0, <2>1, <2>2, <2>3
  <2>5. Fits(f[m - 1]) /\ f[m - 1].log = en.log
    BY <2>2, <2>4
  <2>6. f[m] = Push(f[m - 1], es[m]) /\ es[m] \in Events
    BY <1>2, <2>2, <2>3, <2>4
  <2>7. Fits(f[m]) /\ f[m].log = en.log
    BY <2>5, <2>6, PushFits
  <2>8. QED
    BY <2>2, <2>7
<1>4. Len(es) \in 0..Len(es)
  BY <1>0
<1>5. Fits(f[Len(es)]) /\ f[Len(es)].log = en.log
  BY <1>3, <1>4
<1>6. QED
  BY <1>5 DEF PushAll, f

LEMMA NewEngineFits == Fits(NewEngine) /\ NewEngine.log = <<>>
<1> DEFINE en == [queue |-> {}, seq |-> 0, log |-> <<>>]
<1>1. Fits(en) /\ en.log = <<>>
  BY DEF Fits, Engine
<1>2. Initial \in Seq(Events)
  BY ResumeAssumption
<1> HIDE DEF en
<1>3. Fits(PushAll(en, Initial)) /\ PushAll(en, Initial).log = en.log
  BY <1>1, <1>2, PushAllFits
<1>4. QED
  BY <1>1, <1>3 DEF NewEngine, en

(* A queue that is not empty has a first entry.                            *)
LEMMA FirstOfQueue ==
  ASSUME NEW queue \in SUBSET Entry, queue # {}
  PROVE  First(queue) \in queue
<1> DEFINE times == {x.time : x \in queue}
<1>1. \A x \in queue : x.time \in Nat /\ x.sequence \in Nat
  BY DEF Entry
<1>2. times \in SUBSET Nat /\ times # {}
  BY <1>1
<1>3. PICK t \in times : \A u \in times : t <= u
  BY <1>2, LeastElement
<1> DEFINE numbers == {x.sequence : x \in {y \in queue : y.time = t}}
<1>4. numbers \in SUBSET Nat /\ numbers # {}
  BY <1>1, <1>3
<1>5. PICK n \in numbers : \A m \in numbers : n <= m
  BY <1>4, LeastElement
<1>6. PICK x \in queue : x.time = t /\ x.sequence = n
  BY <1>5
<1>7. ASSUME NEW y \in queue PROVE Before(x, y)
  <2>1. t <= y.time /\ t \in Nat /\ y.time \in Nat
    BY <1>1, <1>2, <1>3
  <2>2. y.time = t => n <= y.sequence
    BY <1>5
  <2>3. QED
    BY <1>6, <2>1, <2>2 DEF Before
<1>8. QED
  BY <1>6, <1>7 DEF First

LEMMA HandleFits ==
  ASSUME NEW en, Fits(en), en.queue # {}
  PROVE  Fits(Handle(en)) /\ Len(Handle(en).log) = Len(en.log) + 1
<1> DEFINE x == First(en.queue)
           left == [en EXCEPT !.queue = @ \ {x}, !.log = Append(@, x.event)]
<1>1. en \in Engine /\ en.queue \in SUBSET Entry /\ en.seq \in Nat /\ en.log \in Seq(Events)
  BY DEF Fits, Engine
<1>2. x \in en.queue /\ x.event \in Events
  <2>1. x \in en.queue
    BY <1>1, FirstOfQueue
  <2>2. QED
    BY <1>1, <2>1 DEF Entry
<1>4. Spawns[x.event] \in Seq(Events)
  BY <1>2, ResumeAssumption
<1> HIDE DEF x
<1>3. en.queue \ {x} \in SUBSET Entry /\ Append(en.log, x.event) \in Seq(Events)
  BY <1>1, <1>2
<1>5. /\ left \in Engine /\ left.queue \subseteq en.queue /\ left.seq = en.seq
      /\ left.log = Append(en.log, x.event)
  BY <1>1, <1>3 DEF Engine
<1>6. Fits(left) /\ Len(left.log) = Len(en.log) + 1
  BY <1>1, <1>2, <1>5 DEF Fits
<1>7. Handle(en) = PushAll(left, Spawns[x.event])
  BY Zenon DEF Handle, x
<1> HIDE DEF left
<1>8. QED
  BY <1>4, <1>6, <1>7, PushAllFits

-----------------------------------------------------------------------------
(* The uncut run, as the function its recursive definition describes: the  *)
(* finite runs agree with one another, and so with the infinite one.       *)
IsRun(f, m) == f = [n \in 0..m |-> IF n = 0 THEN NewEngine ELSE Handle(f[n - 1])]
IsWholeRun(f) == f = [n \in Nat |-> IF n = 0 THEN NewEngine ELSE Handle(f[n - 1])]

LEMMA RunExists ==
  ASSUME NEW k \in Nat
  PROVE  \E f : IsRun(f, k)
<1> DEFINE undefined == {m \in Nat : ~ \E f : IsRun(f, m)}
<1>1. undefined = {}
  <2> SUFFICES ASSUME undefined # {} PROVE FALSE
    OBVIOUS
  <2>1. PICK m \in undefined : \A n \in undefined : m <= n
    BY LeastElement
  <2>2. CASE m = 0
    <3>1. IsRun([n \in 0..0 |-> NewEngine], 0)
      BY DEF IsRun
    <3>2. QED
      BY <2>1, <2>2, <3>1
  <2>3. CASE m # 0
    <3> DEFINE next(f, n) == IF n = 0 THEN NewEngine ELSE Handle(f[n - 1])
    <3>1. m \in Nat /\ m - 1 \in Nat /\ ~(m <= m - 1)
      BY <2>1, <2>3
    <3>2. PICK f : IsRun(f, m - 1)
      BY <2>1, <3>1
    <3>3. f = [n \in 0..(m - 1) |-> next(f, n)]
      BY <3>2 DEF IsRun
    <3> DEFINE g == [n \in 0..m |-> next(f, n)]
    <3>4. \A n \in 0..m : n # 0 => g[n - 1] = f[n - 1]
      <4> HIDE DEF next
      <4>1. QED
        BY <3>1, <3>3
    <3>5. \A n \in 0..m : next(g, n) = next(f, n)
      <4> HIDE DEF g
      <4>1. QED
        BY <3>4
    <3>6. g = [n \in 0..m |-> next(g, n)]
      <4> HIDE DEF next
      <4>1. QED
        BY <3>5, Zenon
    <3>7. IsRun(g, m)
      BY <3>6 DEF IsRun
    <3>8. QED
      BY <2>1, <3>7
  <2>4. QED
    BY <2>2, <2>3
<1>2. QED
  BY <1>1

LEMMA RunsAgree ==
  ASSUME NEW j \in Nat, NEW k \in Nat, NEW f, NEW g, IsRun(f, j), IsRun(g, k),
         NEW i \in Nat, i <= j, i <= k
  PROVE  f[i] = g[i]
<1> DEFINE differ == {n \in Nat : n <= j /\ n <= k /\ f[n] # g[n]}
<1>1. \A n \in Nat : n <= j => f[n] = IF n = 0 THEN NewEngine ELSE Handle(f[n - 1])
  BY DEF IsRun
<1>2. \A n \in Nat : n <= k => g[n] = IF n = 0 THEN NewEngine ELSE Handle(g[n - 1])
  BY DEF IsRun
<1>3. differ = {}
  <2> SUFFICES ASSUME differ # {} PROVE FALSE
    OBVIOUS
  <2>1. PICK m \in differ : \A n \in differ : m <= n
    BY LeastElement
  <2>2. m \in Nat /\ m <= j /\ m <= k /\ f[m] # g[m]
    BY <2>1
  <2>3. m # 0
    BY <1>1, <1>2, <2>2
  <2>4. m - 1 \in Nat /\ m - 1 <= j /\ m - 1 <= k /\ ~(m <= m - 1)
    BY <2>2, <2>3
  <2>5. f[m - 1] = g[m - 1]
    BY <2>1, <2>4
  <2>6. f[m] = Handle(f[m - 1]) /\ g[m] = Handle(g[m - 1])
    BY <1>1, <1>2, <2>2, <2>3
  <2>7. QED
    BY <2>2, <2>5, <2>6
<1>4. QED
  BY <1>3

LEMMA UncutUnfolds == IsWholeRun(Uncut)
<1> DEFINE run(n) == CHOOSE f : IsRun(f, n)
           next(f, n) == IF n = 0 THEN NewEngine ELSE Handle(f[n - 1])
           whole == [n \in Nat |-> run(n)[n]]
<1>1. \A n \in Nat : IsRun(run(n), n)
  BY RunExists
<1> HIDE DEF run
<1>2. ASSUME NEW n \in Nat
      PROVE  run(n)[n] = next(whole, n)
  <2>1. run(n)[n] = IF n = 0 THEN NewEngine ELSE Handle(run(n)[n - 1])
    BY <1>1 DEF IsRun
  <2>2. CASE n = 0
    BY <2>1, <2>2
  <2>3. CASE n # 0
    <3>1. n - 1 \in Nat /\ n - 1 <= n /\ n - 1 <= n - 1
      BY <2>3
    <3>2. IsRun(run(n), n) /\ IsRun(run(n - 1), n - 1)
      BY <1>1, <3>1
    <3>3. run(n)[n - 1] = run(n - 1)[n - 1]
      BY <3>1, <3>2, RunsAgree
    <3>4. whole[n - 1] = run(n - 1)[n - 1]
      BY <3>1
    <3>5. QED
      BY <2>1, <2>3, <3>3, <3>4
  <2>4. QED
    BY <2>2, <2>3
<1>3. whole = [n \in Nat |-> next(whole, n)]
  <2> HIDE DEF next
  <2>1. QED
    BY <1>2, Zenon
<1>4. IsWholeRun(whole)
  BY <1>3 DEF IsWholeRun
<1> HIDE DEF whole
<1>5. Uncut = CHOOSE f : IsWholeRun(f)
  BY Zenon DEF Uncut, IsWholeRun
<1>6. QED
  BY <1>4, <1>5

LEMMA UncutSteps ==
  /\ Uncut[0] = NewEngine
  /\ \A n \in Nat : Uncut[n + 1] = Handle(Uncut[n])
<1>1. \A n \in Nat : Uncut[n] = IF n = 0 THEN NewEngine ELSE Handle(Uncut[n - 1])
  BY UncutUnfolds DEF IsWholeRun
<1>2. \A n \in Nat : n + 1 \in Nat /\ n + 1 # 0 /\ (n + 1) - 1 = n
  OBVIOUS
<1>3. QED
  BY <1>1, <1>2

-----------------------------------------------------------------------------
(* The engine, and the one in the file, are states of the uncut run.       *)
OnTheRun(en) == Fits(en) /\ en = Uncut[Len(en.log)]

Resumable == CRTypeOK /\ OnTheRun(engine) /\ OnTheRun(saved)

LEMMA NewIsOnTheRun == OnTheRun(NewEngine)
BY NewEngineFits, UncutSteps DEF OnTheRun

LEMMA HandledIsOnTheRun ==
  ASSUME NEW en, OnTheRun(en), en.queue # {}
  PROVE  OnTheRun(Handle(en))
<1>1. Fits(Handle(en)) /\ Len(Handle(en).log) = Len(en.log) + 1
  BY HandleFits DEF OnTheRun
<1>2. Len(en.log) \in Nat
  BY DEF OnTheRun, Fits, Engine
<1>3. Uncut[Len(en.log) + 1] = Handle(Uncut[Len(en.log)])
  BY <1>2, UncutSteps
<1>4. QED
  BY <1>1, <1>3 DEF OnTheRun

LEMMA ResumableHolds == CRSpec => []Resumable
<1>1. CRInit => Resumable
  <2> SUFFICES ASSUME CRInit PROVE Resumable
    OBVIOUS
  <2>1. OnTheRun(engine) /\ OnTheRun(saved)
    BY NewIsOnTheRun DEF CRInit
  <2>2. CRTypeOK
    BY <2>1, ResumeAssumption DEF CRInit, CRTypeOK, OnTheRun, Fits
  <2>3. QED
    BY <2>1, <2>2 DEF Resumable
<1>2. Resumable /\ [CRNext]_crVars => Resumable'
  <2> SUFFICES ASSUME Resumable, [CRNext]_crVars PROVE Resumable'
    OBVIOUS
  <2> USE ResumeAssumption
  <2>1. /\ CRTypeOK /\ OnTheRun(engine) /\ OnTheRun(saved)
        /\ engine \in Engine /\ saved \in Engine /\ saves \in Nat /\ crashes \in Nat
    BY DEF Resumable, CRTypeOK
  <2>2. CASE UNCHANGED crVars
    BY <2>1, <2>2 DEF crVars, Resumable, CRTypeOK, OnTheRun, Fits
  <2>3. CASE Run
    BY <2>1, <2>3 DEF Run, Resumable, CRTypeOK, OnTheRun, Fits
  <2>4. CASE HandleEvent
    <3>1. OnTheRun(engine')
      BY <2>1, <2>4, HandledIsOnTheRun DEF HandleEvent, Due
    <3>2. CRTypeOK'
      BY <2>1, <2>4, <3>1 DEF HandleEvent, CRTypeOK, OnTheRun, Fits
    <3>3. QED
      BY <2>1, <2>4, <3>1, <3>2 DEF HandleEvent, Resumable, OnTheRun, Fits
  <2>5. CASE RunReturns
    BY <2>1, <2>5 DEF RunReturns, Resumable, CRTypeOK, OnTheRun, Fits
  <2>6. CASE OpenCheckpoint
    BY <2>1, <2>6 DEF OpenCheckpoint, Resumable, CRTypeOK, OnTheRun, Fits
  <2>7. CASE DumpCheckpoint
    BY <2>1, <2>7 DEF DumpCheckpoint, Dumped, Resumable, CRTypeOK, OnTheRun, Fits
  <2>8. CASE ProcessDies
    BY <2>1, <2>8 DEF ProcessDies, Resumable, CRTypeOK, OnTheRun, Fits
  <2>9. CASE LoadCheckpoint
    BY <2>1, <2>9 DEF LoadCheckpoint, Resumable, CRTypeOK, OnTheRun, Fits
  <2>10. CASE Rebuild
    BY <2>1, <2>10, NewIsOnTheRun DEF Rebuild, Resumable, CRTypeOK, OnTheRun, Fits
  <2>11. QED
    BY <2>2, <2>3, <2>4, <2>5, <2>6, <2>7, <2>8, <2>9, <2>10 DEF CRNext
<1>3. QED
  BY <1>1, <1>2, PTL DEF CRSpec

(* However often a day is cut, saved, killed and resumed, the engine is in *)
(* the state the uncut day is in after as many events: for any events,     *)
(* whatever they spawn, any midpoints and any number of saves and crashes  *)
(* (simulation_engine.py:175-183).                                         *)
THEOREM ResumedDayIsUncut == CRSpec => []ResumedIsUncut
<1>1. Resumable => ResumedIsUncut
  BY DEF Resumable, OnTheRun, ResumedIsUncut
<1>2. QED
  BY <1>1, ResumableHolds, PTL

-----------------------------------------------------------------------------
(* Stage1Production.                                                       *)
LEMMA ProductionConstants ==
  /\ Orders \in Nat /\ Target \in Nat /\ MaxFailures \in Nat /\ MaxDeaths \in Nat
  /\ BucketSize \in Nat /\ BucketSize > 0
BY ProductionAssumption

(* Buckets are numbered from 1 without a gap, in the order of the orders.  *)
LEMMA BucketsAscend ==
  ASSUME NEW o \in Order, NEW p \in Order
  PROVE  /\ BucketOf(o) \in Nat /\ 1 <= BucketOf(o) /\ BucketOf(o) <= o
         /\ o <= p => BucketOf(o) <= BucketOf(p)
<1> DEFINE x == o - 1
           y == p - 1
<1>1. o \in Nat /\ p \in Nat /\ x \in Nat /\ y \in Nat /\ BucketSize \in Nat /\ BucketSize > 0
  BY ProductionConstants DEF Order
<1> HIDE DEF x, y
<1>2. PICK q \in Nat : q = x \div BucketSize /\ BucketSize * q <= x /\ x < BucketSize * q + BucketSize
  BY <1>1
<1>3. PICK r \in Nat : r = y \div BucketSize /\ BucketSize * r <= y /\ y < BucketSize * r + BucketSize
  BY <1>1
<1>4. BucketOf(o) = q + 1 /\ BucketOf(p) = r + 1
  BY <1>2, <1>3 DEF BucketOf, x, y
<1>5. x <= y => q <= r
  BY <1>1, <1>2, <1>3
<1>6. q <= x
  <2>1. q <= BucketSize * q
    BY <1>1
  <2>2. BucketSize * q \in Nat
    BY <1>1
  <2>3. QED
    BY <1>1, <1>2, <2>1, <2>2
<1>7. x = o - 1 /\ y = p - 1
  BY DEF x, y
<1>8. QED
  BY <1>1, <1>2, <1>3, <1>4, <1>5, <1>6, <1>7

LEMMA BucketType ==
  /\ Bucket \subseteq Order
  /\ \A b \in Bucket : b \in Nat /\ 1 <= b /\ b <= Orders
<1>1. ASSUME NEW b \in Bucket PROVE b \in Nat /\ 1 <= b /\ b <= Orders
  <2>1. PICK o \in Order : b = BucketOf(o)
    BY DEF Bucket
  <2>2. o \in Nat /\ o <= Orders /\ Orders \in Nat
    BY ProductionConstants DEF Order
  <2>3. QED
    BY <2>1, <2>2, BucketsAscend
<1>2. Orders \in Nat
  BY ProductionConstants
<1>3. QED
  BY <1>1, <1>2 DEF Order

LEMMA BucketsAreAnInterval ==
  ASSUME NEW b \in Bucket, NEW c \in Nat, 1 <= c, c <= b
  PROVE  c \in Bucket
<1>1. PICK o \in Order : b = BucketOf(o)
  BY DEF Bucket
<1> DEFINE x == o - 1
<1>2. o \in Nat /\ 1 <= o /\ o <= Orders /\ Orders \in Nat /\ x \in Nat
      /\ BucketSize \in Nat /\ BucketSize > 0
  BY ProductionConstants DEF Order
<1> HIDE DEF x
<1>3. PICK q \in Nat : q = x \div BucketSize /\ BucketSize * q <= x
  BY <1>2
<1>4. b = q + 1
  BY <1>1, <1>3 DEF BucketOf, x
<1>5. PICK k \in Nat : k = c - 1 /\ k <= q
  BY <1>4
<1>6. PICK y \in Nat : y = BucketSize * k
  BY <1>2
<1>7. y <= BucketSize * q
  BY <1>2, <1>5, <1>6
<1>8. BucketSize * q \in Nat
  BY <1>2
<1>9. y + 1 \in Order
  <2>1. y <= x
    BY <1>2, <1>3, <1>7, <1>8
  <2>2. x = o - 1
    BY DEF x
  <2>3. QED
    BY <1>2, <2>1, <2>2 DEF Order
<1>10. y \div BucketSize = k
  BY <1>2, <1>6
<1>11. (y + 1) - 1 = y
  OBVIOUS
<1>12. BucketOf(y + 1) = k + 1
  BY <1>10, <1>11 DEF BucketOf
<1>13. k + 1 = c
  BY <1>5
<1>14. QED
  BY <1>9, <1>12, <1>13 DEF Bucket

-----------------------------------------------------------------------------
(* Total adds up.                                                          *)
Accumulates(f, w) ==
  f = [n \in 0..Orders |-> IF n = 0 THEN 0 ELSE f[n - 1] + w[n]]

(* The recursive definition of Total has a solution.                       *)
LEMMA TotalUnfolds ==
  ASSUME NEW w \in [Order -> Nat]
  PROVE  \E f \in [0..Orders -> Nat] : Accumulates(f, w) /\ Total(w) = f[Orders]
<1>0. Orders \in Nat
  BY ProductionConstants
<1> DEFINE Is(f, m) == f = [n \in 0..m |-> IF n = 0 THEN 0 ELSE f[n - 1] + w[n]]
           undefined == {m \in 0..Orders : ~ \E f \in [0..m -> Nat] : Is(f, m)}
<1>1. undefined = {}
  <2>1. SUFFICES ASSUME undefined # {} PROVE FALSE
    OBVIOUS
  <2>11. undefined \subseteq Nat
    BY <1>0
  <2>2. PICK m \in undefined : \A n \in undefined : m <= n
    BY <2>1, <2>11, LeastElement
  <2>3. m \in Nat /\ m <= Orders /\ ~ \E f \in [0..m -> Nat] : Is(f, m)
    BY <1>0, <2>2
  <2>4. CASE m = 0
    <3>1. [n \in 0..0 |-> 0] \in [0..0 -> Nat] /\ Is([n \in 0..0 |-> 0], 0)
      OBVIOUS
    <3>2. QED
      BY <2>3, <2>4, <3>1
  <2>5. CASE m # 0
    <3>1. PICK k \in Nat : m = k + 1
      BY <2>3, <2>5
    <3>2. k \notin undefined /\ k \in 0..Orders
      <4>1. k \in undefined => m <= k
        BY <2>2
      <4>2. QED
        BY <1>0, <2>3, <3>1, <4>1
    <3>3. PICK f \in [0..k -> Nat] : Is(f, k)
      BY <3>2
    <3>4. w[m] \in Nat /\ f[k] \in Nat
      BY <1>0, <2>3, <3>1 DEF Order
    <3>5. PICK g : g = [n \in 0..m |-> IF n = m THEN f[k] + w[m] ELSE f[n]]
      OBVIOUS
    <3>6. g \in [0..m -> Nat]
      BY <3>1, <3>4, <3>5
    <3>7. ASSUME NEW n \in 0..m
          PROVE  g[n] = IF n = 0 THEN 0 ELSE g[n - 1] + w[n]
      <4>1. CASE n = m
        <5>1. g[n] = f[k] + w[m] /\ n # 0 /\ n - 1 = k /\ k \in 0..m /\ k # m
          BY <3>1, <3>5, <4>1
        <5>2. g[k] = f[k]
          BY <3>5, <5>1
        <5>3. QED
          BY <4>1, <5>1, <5>2
      <4>2. CASE n # m
        <5>1. n \in 0..k /\ g[n] = f[n]
          BY <3>1, <3>5, <4>2
        <5>2. f[n] = IF n = 0 THEN 0 ELSE f[n - 1] + w[n]
          BY <3>3, <5>1
        <5>3. n # 0 => n - 1 \in 0..m /\ n - 1 # m /\ g[n - 1] = f[n - 1]
          BY <3>1, <3>5, <5>1
        <5>4. QED
          BY <5>1, <5>2, <5>3
      <4>3. QED
        BY <4>1, <4>2
    <3>8. Is(g, m)
      BY <3>6, <3>7
    <3>9. QED
      BY <2>3, <3>6, <3>8
  <2>6. QED
    BY <2>4, <2>5
<1>2. PICK f \in [0..Orders -> Nat] : Is(f, Orders)
  BY <1>0, <1>1
<1>3. Accumulates(f, w)
  BY <1>2 DEF Accumulates
<1>4. PICK g : Accumulates(g, w) /\ Total(w) = g[Orders]
  <2>1. \E g : Accumulates(g, w)
    BY <1>3
  <2>2. Total(w) = (CHOOSE g : Accumulates(g, w))[Orders]
    BY Zenon DEF Total, Accumulates
  <2>3. QED
    BY <2>1, <2>2, Zenon
<1>5. g = f
  <2> DEFINE wrong == {n \in 0..Orders : g[n] # f[n]}
  <2>1. wrong = {}
    <3>1. SUFFICES ASSUME wrong # {} PROVE FALSE
      OBVIOUS
    <3>11. wrong \subseteq Nat
      BY <1>0
    <3>2. PICK n \in wrong : \A k \in wrong : n <= k
      BY <3>1, <3>11, LeastElement
    <3>3. n \in 0..Orders /\ g[n] # f[n] /\ n \in Nat
      BY <1>0, <3>2
    <3>4. g[n] = (IF n = 0 THEN 0 ELSE g[n - 1] + w[n]) /\ f[n] = IF n = 0 THEN 0 ELSE f[n - 1] + w[n]
      BY <1>3, <1>4, <3>3 DEF Accumulates
    <3>5. n # 0 => n - 1 \in 0..Orders /\ n - 1 \notin wrong
      BY <1>0, <3>2, <3>3
    <3>6. QED
      BY <3>3, <3>4, <3>5
  <2>2. g = [n \in 0..Orders |-> g[n]] /\ f = [n \in 0..Orders |-> f[n]]
    BY <1>3, <1>4 DEF Accumulates
  <2>3. QED
    BY <2>1, <2>2
<1>6. QED
  BY <1>3, <1>4, <1>5

(* One count changes by delta: so does the total.                          *)
LEMMA TotalMoves ==
  ASSUME NEW v \in [Order -> Nat], NEW w \in [Order -> Nat], NEW b \in Order,
         \A n \in Order : n # b => v[n] = w[n]
  PROVE  /\ Total(v) \in Nat /\ Total(w) \in Nat
         /\ Total(w) = Total(v) - v[b] + w[b]
<1>0. Orders \in Nat /\ b \in Nat /\ 1 <= b /\ b <= Orders /\ v[b] \in Nat /\ w[b] \in Nat
  BY ProductionConstants DEF Order
<1>1. PICK f \in [0..Orders -> Nat] : Accumulates(f, v) /\ Total(v) = f[Orders]
  BY TotalUnfolds
<1>2. PICK g \in [0..Orders -> Nat] : Accumulates(g, w) /\ Total(w) = g[Orders]
  BY TotalUnfolds
<1> DEFINE Moved(n) == g[n] = IF n < b THEN f[n] ELSE f[n] - v[b] + w[b]
           wrong == {n \in 0..Orders : ~Moved(n)}
<1>3. wrong = {}
  <2>1. SUFFICES ASSUME wrong # {} PROVE FALSE
    OBVIOUS
  <2>11. wrong \subseteq Nat
    BY <1>0
  <2>2. PICK n \in wrong : \A k \in wrong : n <= k
    BY <2>1, <2>11, LeastElement
  <2>3. n \in 0..Orders /\ ~Moved(n) /\ n \in Nat
    BY <1>0, <2>2
  <2>4. g[n] = (IF n = 0 THEN 0 ELSE g[n - 1] + w[n]) /\ f[n] = IF n = 0 THEN 0 ELSE f[n - 1] + v[n]
    BY <1>1, <1>2, <2>3 DEF Accumulates
  <2>5. n # 0
    BY <1>0, <2>3, <2>4
  <2>6. n - 1 \in 0..Orders /\ Moved(n - 1)
    BY <1>0, <2>2, <2>3, <2>5
  <2>7. n \in Order /\ v[n] \in Nat /\ w[n] \in Nat /\ f[n - 1] \in Nat /\ g[n - 1] \in Nat
    BY <1>0, <2>3, <2>5, <2>6 DEF Order
  <2>8. n = b \/ v[n] = w[n]
    BY <2>7
  <2>9. CASE n = b
    <3>1. g[n - 1] = f[n - 1]
      BY <2>3, <2>6, <2>9, <1>0
    <3>2. QED
      BY <1>0, <2>3, <2>4, <2>5, <2>7, <2>9, <3>1
  <2>10. CASE n # b
    <3>1. v[n] = w[n] /\ (n < b <=> n - 1 < b)
      BY <1>0, <2>3, <2>8, <2>10
    <3>2. g[n - 1] = IF n < b THEN f[n - 1] ELSE f[n - 1] - v[b] + w[b]
      BY <2>6, <3>1
    <3>3. g[n] = g[n - 1] + w[n] /\ f[n] = f[n - 1] + v[n]
      BY <2>4, <2>5
    <3>4. PICK x \in Nat, y \in Nat, z \in Nat :
            x = f[n - 1] /\ y = g[n - 1] /\ z = w[n] /\ z = v[n]
      BY <2>7, <3>1
    <3>5. CASE n < b
      BY <2>3, <3>2, <3>3, <3>4, <3>5
    <3>6. CASE ~(n < b)
      <4>1. y = x - v[b] + w[b] /\ g[n] = y + z /\ f[n] = x + z
        BY <3>2, <3>3, <3>4, <3>6
      <4>2. PICK d \in Nat, e \in Nat : d = v[b] /\ e = w[b]
        BY <1>0
      <4>3. y = x - d + e
        BY <4>1, <4>2
      <4>4. y + z = (x + z) - d + e
        BY <4>3
      <4>5. g[n] = f[n] - v[b] + w[b]
        BY <4>1, <4>2, <4>4, Zenon
      <4>6. QED
        BY <2>3, <3>6, <4>5
    <3>7. QED
      BY <3>5, <3>6
  <2>12. QED
    BY <2>9, <2>10
<1>4. Moved(Orders)
  BY <1>0, <1>3
<1>5. QED
  BY <1>0, <1>1, <1>2, <1>4

LEMMA TotalOfNothing ==
  ASSUME NEW w \in [Order -> Nat], \A n \in Order : w[n] = 0
  PROVE  Total(w) = 0
<1>0. Orders \in Nat
  BY ProductionConstants
<1>1. PICK f \in [0..Orders -> Nat] : Accumulates(f, w) /\ Total(w) = f[Orders]
  BY TotalUnfolds
<1> DEFINE wrong == {n \in 0..Orders : f[n] # 0}
<1>2. wrong = {}
  <2>1. SUFFICES ASSUME wrong # {} PROVE FALSE
    OBVIOUS
  <2>11. wrong \subseteq Nat
    BY <1>0
  <2>2. PICK n \in wrong : \A k \in wrong : n <= k
    BY <2>1, <2>11, LeastElement
  <2>3. n \in 0..Orders /\ n \in Nat /\ f[n] # 0 /\ f[n] = IF n = 0 THEN 0 ELSE f[n - 1] + w[n]
    BY <1>0, <1>1, <2>2 DEF Accumulates
  <2>4. n # 0 => n \in Order /\ w[n] = 0 /\ n - 1 \in 0..Orders /\ f[n - 1] = 0
    BY <1>0, <2>2, <2>3 DEF Order
  <2>5. QED
    BY <2>3, <2>4
<1>3. QED
  BY <1>0, <1>1, <1>2

-----------------------------------------------------------------------------
InHand == {"products", "manifest", "rejections"}
Working == {"cache", "bucket"} \cup InHand

(* Where a run is: it resumes, it has the buckets behind it on disk, and   *)
(* the bucket in its hands did not pass before.                            *)
RunFits ==
  /\ phase # "stopped" => resume
  /\ bucket >= 1
  /\ phase \in Working => \A b \in Bucket : b < bucket => manifests[b] # "none"
  /\ phase \in {"products", "manifest"} => ~Passed(bucket)
  /\ phase = "manifest" => products[bucket] = batch.accepted
  /\ phase = "rejections" => manifests[bucket] # "none"
  /\ daily.completed => phase \in {"stopped", "remove", "done"}

BatchFits ==
  phase \in InHand =>
    /\ bucket \in Bucket /\ soFar < Target
    /\ batch.accepted \subseteq eligible \cap OrdersOf(bucket)
    /\ soFar + Cardinality(batch.accepted) <= Target

(* What the PASS manifests add up to is within the quota, and part of what *)
(* the run has counted.                                                    *)
CountFits ==
  /\ \A b \in Bucket : products[b] \subseteq OrdersOf(b)
  /\ Total(Counts) <= Target
  /\ phase \in {"cache", "bucket", "products", "manifest"} => Total(Counts) <= soFar
  /\ phase = "rejections" => Total(Counts) <= soFar + Cardinality(batch.accepted)

(* When no order has raised: the run has counted exactly what is           *)
(* published; while that falls short of the quota, nothing was left out of *)
(* a bucket that passed.                                                   *)
NoneLeftOut ==
  Cardinality(Published) < Target =>
    \A o \in eligible : Passed(BucketOf(o)) => o \in Published

BatchInOrder ==
  /\ batch.failed = {}
  /\ \A o \in batch.accepted, p \in eligible \cap OrdersOf(bucket) :
       p < o => p \in batch.accepted
  /\ soFar + Cardinality(batch.accepted) < Target =>
       eligible \cap OrdersOf(bucket) \subseteq batch.accepted

DiskInOrder ==
  /\ \A b \in Bucket : manifests[b] # "FAIL"
  /\ Published \subseteq eligible /\ PublishedInOrder /\ NoneLeftOut
  /\ Total(Counts) = Cardinality(Published)

OrderFits ==
  failures = 0 =>
    /\ DiskInOrder
    /\ phase \in {"cache", "bucket", "products", "manifest"} => soFar = Cardinality(Published)
    /\ phase = "rejections" => soFar + Cardinality(batch.accepted) = Cardinality(Published)
    /\ phase \in {"products", "manifest"} => BatchInOrder

S1IInv ==
  /\ S1TypeOK /\ RunFits /\ BatchFits /\ CountFits /\ PassMeansWhole
  /\ OrderFits /\ ShortfallIsReal /\ QuotaMet

AlwaysResumed == Resumes \subseteq {TRUE}

LEMMA OrdersFinite ==
  ASSUME NEW S \in SUBSET Order
  PROVE  IsFiniteSet(S) /\ Cardinality(S) \in Nat
<1>1. Orders \in Nat
  BY ProductionConstants
<1>2. IsFiniteSet(Order)
  BY <1>1, FS_Interval DEF Order
<1>3. IsFiniteSet(S)
  BY <1>2, FS_Subset
<1>4. QED
  BY <1>3, FS_CardinalityType

(* Those of G that have fewer than room of G before them: they are the     *)
(* first of G, no more than room, and all of G or exactly room.            *)
FirstOf(G, room) == {o \in G : Cardinality({p \in G : p < o}) < room}

LEMMA TheFirstOnes ==
  ASSUME NEW G \in SUBSET Order, NEW room \in Nat, room > 0
  PROVE  /\ FirstOf(G, room) \subseteq G
         /\ Cardinality(FirstOf(G, room)) \in Nat /\ Cardinality(FirstOf(G, room)) <= room
         /\ FirstOf(G, room) # G => Cardinality(FirstOf(G, room)) = room
         /\ \A o \in FirstOf(G, room), p \in G : p < o => p \in FirstOf(G, room)
<1> PICK H : H = FirstOf(G, room)
  OBVIOUS
<1> DEFINE Ahead(o) == {p \in G : p < o}
<1>0. Orders \in Nat /\ \A o \in G : o \in Nat /\ o <= Orders
  BY ProductionConstants DEF Order
<1>1. H \in SUBSET Order /\ H \subseteq G /\ IsFiniteSet(G) /\ IsFiniteSet(H) /\ Cardinality(H) \in Nat
  <2>1. H \in SUBSET Order /\ H \subseteq G
    BY DEF FirstOf
  <2>2. QED
    BY <2>1, OrdersFinite
<1>2. ASSUME NEW o \in G
      PROVE  IsFiniteSet(Ahead(o)) /\ Cardinality(Ahead(o)) \in Nat
  <2>1. Ahead(o) \in SUBSET Order
    OBVIOUS
  <2>2. QED
    BY <2>1, OrdersFinite
<1>3. ASSUME NEW o \in G PROVE o \in H <=> Cardinality(Ahead(o)) < room
  BY DEF FirstOf
<1>4. ASSUME NEW o \in H, NEW p \in G, p < o PROVE p \in H
  <2>1. Ahead(p) \in SUBSET Ahead(o)
    BY <1>0, <1>1, <1>4
  <2>2. Cardinality(Ahead(p)) <= Cardinality(Ahead(o))
    BY <1>1, <1>2, <2>1, FS_Subset
  <2>3. o \in G /\ Cardinality(Ahead(o)) < room
    BY <1>1, <1>3
  <2>4. Cardinality(Ahead(o)) \in Nat /\ Cardinality(Ahead(p)) \in Nat
    BY <1>2, <2>3
  <2> HIDE DEF Ahead
  <2>5. Cardinality(Ahead(p)) < room
    BY <2>2, <2>3, <2>4
  <2>6. QED
    BY <1>3, <2>5
<1>5. Cardinality(H) <= room
  <2>1. CASE H = {}
    <3>1. Cardinality(H) = 0
      BY <1>1, <2>1, FS_EmptySet, Zenon
    <3>2. QED
      BY <3>1
  <2>2. CASE H # {}
    <3> DEFINE backwards == {Orders - o : o \in H}
    <3>1. backwards \in SUBSET Nat /\ backwards # {}
      <4>1. ASSUME NEW o \in H PROVE Orders - o \in Nat
        BY <1>0, <1>1
      <4>2. QED
        BY <2>2, <4>1
    <3>2. PICK least \in backwards : \A x \in backwards : least <= x
      BY <3>1, LeastElement
    <3>3. PICK m \in H : least = Orders - m
      BY <3>2
    <3>4. ASSUME NEW o \in H PROVE o <= m
      <4>1. Orders - o \in backwards
        OBVIOUS
      <4>2. Orders - m <= Orders - o
        BY <3>2, <3>3, <4>1
      <4>3. QED
        BY <1>0, <1>1, <4>2
    <3>5. H \ {m} \in SUBSET Ahead(m)
      <4>1. ASSUME NEW o \in H, o # m PROVE o \in G /\ o < m
        <5>1. o \in G /\ m \in G /\ o <= m
          BY <1>1, <3>4
        <5>2. QED
          BY <1>0, <4>1, <5>1
      <4>2. QED
        BY <4>1
    <3>6. Cardinality(H \ {m}) = Cardinality(H) - 1
      BY <1>1, FS_RemoveElement
    <3>7. Cardinality(H \ {m}) <= Cardinality(Ahead(m)) /\ Cardinality(Ahead(m)) \in Nat
      BY <1>1, <1>2, <3>5, FS_Subset
    <3>8. Cardinality(Ahead(m)) < room
      BY <1>1, <1>3
    <3> HIDE DEF Ahead
    <3>9. QED
      BY <1>1, <3>6, <3>7, <3>8
  <2>3. QED
    BY <2>1, <2>2
<1>6. ASSUME H # G PROVE Cardinality(H) = room
  <2>1. G \ H \in SUBSET Nat /\ G \ H # {}
    BY <1>0, <1>1, <1>6
  <2>2. PICK o \in G \ H : \A x \in G \ H : o <= x
    BY <2>1, LeastElement
  <2>3. Ahead(o) \in SUBSET H
    <3>1. ASSUME NEW p \in G, p < o PROVE p \in H
      <4>1. p \in G \ H => o <= p
        BY <2>2
      <4>2. p \in Nat /\ o \in Nat
        BY <1>0, <2>2
      <4>3. QED
        BY <3>1, <4>1, <4>2
    <3>2. QED
      BY <3>1
  <2>4. Cardinality(Ahead(o)) <= Cardinality(H)
    BY <1>1, <2>3, FS_Subset
  <2>5. ~(Cardinality(Ahead(o)) < room) /\ Cardinality(Ahead(o)) \in Nat
    BY <1>2, <1>3, <2>2
  <2> HIDE DEF Ahead
  <2>6. QED
    BY <1>1, <1>5, <2>4, <2>5
<1>7. QED
  BY <1>1, <1>4, <1>5, <1>6

LEMMA PublishedType ==
  ASSUME S1TypeOK
  PROVE  Published \in SUBSET Order /\ Cardinality(Published) \in Nat
         /\ Counts \in [Order -> Nat] /\ Total(Counts) \in Nat
<1>1. Published \in SUBSET Order
  BY DEF Published, S1TypeOK
<1>2. Counts \in [Order -> Nat]
  BY DEF Counts, S1TypeOK
<1>3. Total(Counts) \in Nat
  <2>1. PICK f \in [0..Orders -> Nat] : Total(Counts) = f[Orders]
    BY <1>2, TotalUnfolds
  <2>2. Orders \in 0..Orders
    BY ProductionConstants
  <2>3. QED
    BY <2>1, <2>2
<1>4. QED
  BY <1>1, <1>2, <1>3, OrdersFinite

LEMMA InitS1 == S1Init => S1IInv
<1> SUFFICES ASSUME S1Init PROVE S1IInv
  OBVIOUS
<1>0. Target \in Nat /\ MaxFailures \in Nat /\ MaxDeaths \in Nat
  BY ProductionConstants
<1>1. S1TypeOK
  <2>1. batch \in [accepted : SUBSET Order, rejected : SUBSET Order, failed : SUBSET Order]
    BY DEF S1Init, NoBatch
  <2>2. daily \in [completed : BOOLEAN, accepted : Nat, exceptions : Nat]
    BY DEF S1Init
  <2>3. eligible \subseteq Order /\ products \in [Bucket -> SUBSET Order] /\ rejections \in [Bucket -> SUBSET Order]
    BY DEF S1Init
  <2>4. manifests \in [Bucket -> {"none", "PASS", "FAIL"}] /\ accepted \in [Bucket -> Nat]
    BY DEF S1Init
  <2>5. bucket \in Nat /\ exceptions \in Nat /\ soFar \in 0..Target
        /\ failures \in 0..MaxFailures /\ deaths \in 0..MaxDeaths
    BY <1>0 DEF S1Init
  <2>6. /\ phase \in {"stopped", "cache", "bucket", "products", "manifest", "rejections", "remove", "done"}
        /\ resume \in BOOLEAN /\ cache \in {"absent", "partial", "whole"}
    BY DEF S1Init
  <2>7. QED
    BY <2>1, <2>2, <2>3, <2>4, <2>5, <2>6 DEF S1TypeOK
<1>2. \A b \in Bucket : manifests[b] = "none" /\ products[b] = {}
  BY DEF S1Init
<1>3. Published = {}
  BY <1>2 DEF Published
<1>4. Total(Counts) = 0
  <2>1. Counts \in [Order -> Nat]
    BY <1>1, PublishedType
  <2>2. \A n \in Order : Counts[n] = 0
    BY <1>2 DEF Counts, Passed
  <2>3. QED
    BY <2>1, <2>2, TotalOfNothing
<1>5. Cardinality(Published) = 0
  BY <1>3, FS_EmptySet
<1>6. RunFits /\ BatchFits
  BY DEF S1Init, RunFits, BatchFits, InHand, Working
<1>7. CountFits
  BY <1>0, <1>2, <1>4 DEF S1Init, CountFits
<1>8. PassMeansWhole
  BY <1>2 DEF PassMeansWhole, Passed
<1>9. OrderFits
  <2>1. NoneLeftOut
    <3>1. \A o \in eligible : BucketOf(o) \in Bucket
      BY <1>1 DEF S1TypeOK, Bucket
    <3>2. QED
      BY <1>2, <3>1 DEF NoneLeftOut, Passed
  <2>2. PublishedInOrder
    BY <1>0, <1>3, <1>5 DEF PublishedInOrder, InOrder
  <2>3. QED
    BY <1>2, <1>3, <1>4, <1>5, <2>1, <2>2 DEF S1Init, OrderFits, DiskInOrder
<1>10. ShortfallIsReal /\ QuotaMet
  BY DEF S1Init, ShortfallIsReal, QuotaMet
<1>11. QED
  BY <1>1, <1>6, <1>7, <1>8, <1>9, <1>10 DEF S1IInv

-----------------------------------------------------------------------------
(* What the disk says changes only with products, manifests and counts.    *)
LEMMA QuietDisk ==
  ASSUME S1IInv, UNCHANGED <<eligible, products, manifests, accepted>>
  PROVE  /\ Published' = Published /\ Total(Counts)' = Total(Counts)
         /\ PassMeansWhole' /\ \A b \in Bucket : products'[b] \subseteq OrdersOf(b)
         /\ failures = 0 => DiskInOrder'
<1>1. Published' = Published
  BY DEF Published
<1>2. Total(Counts)' = Total(Counts)
  <2>1. Counts' = Counts
    BY DEF Counts, Passed
  <2>2. QED
    BY <2>1, Zenon
<1>3. PassMeansWhole' /\ \A b \in Bucket : products'[b] \subseteq OrdersOf(b)
  BY DEF S1IInv, CountFits, PassMeansWhole, Passed
<1>4. ASSUME failures = 0 PROVE DiskInOrder'
  <2>1. DiskInOrder
    BY <1>4 DEF S1IInv, OrderFits, DiskInOrder
  <2>2. PublishedInOrder'
    BY <1>1, <2>1 DEF DiskInOrder, PublishedInOrder, InOrder
  <2>3. NoneLeftOut'
    BY <1>1, <2>1 DEF DiskInOrder, NoneLeftOut, Passed
  <2>4. QED
    BY <1>1, <1>2, <2>1, <2>2, <2>3 DEF DiskInOrder
<1>5. QED
  BY <1>1, <1>2, <1>3, <1>4

LEMMA QuietDay ==
  ASSUME S1IInv, UNCHANGED <<eligible, products, manifests, accepted, daily>>,
         failures' = 0 => failures = 0
  PROVE  ShortfallIsReal' /\ QuotaMet'
<1>1. Published' = Published
  BY DEF Published
<1>2. ShortfallIsReal'
  BY DEF S1IInv, ShortfallIsReal
<1>3. QuotaMet'
  BY <1>1 DEF S1IInv, QuotaMet
<1>4. QED
  BY <1>2, <1>3

LEMMA StartFits ==
  ASSUME AlwaysResumed, S1IInv, Start
  PROVE  S1IInv'
<1>0. /\ phase = "stopped" /\ resume' = TRUE /\ bucket' = 1 /\ batch' = NoBatch
      /\ UNCHANGED <<eligible, cache, products, manifests, accepted, rejections, daily,
                      failures, deaths>>
  BY DEF Start, AlwaysResumed, disk
<1>1. /\ Published' = Published /\ Total(Counts)' = Total(Counts)
      /\ PassMeansWhole' /\ \A b \in Bucket : products'[b] \subseteq OrdersOf(b)
      /\ failures = 0 => DiskInOrder'
  BY <1>0, QuietDisk
<1>2. ShortfallIsReal' /\ QuotaMet'
  BY <1>0, QuietDay
<1>3. S1TypeOK /\ CountFits /\ Target \in Nat
      /\ Total(Counts) \in Nat /\ daily.accepted \in Nat /\ daily.exceptions \in Nat
  BY PublishedType, ProductionConstants DEF S1IInv, S1TypeOK
<1>4. \/ daily.completed /\ phase' = "done" /\ soFar' = daily.accepted /\ exceptions' = daily.exceptions
      \/ ~daily.completed /\ phase' = "cache" /\ exceptions' = 0 /\ soFar' = Total(Counts)
  BY <1>0 DEF Start
<1>5. phase' \in {"done", "cache"} /\ soFar' \in 0..Target /\ exceptions' \in Nat
  <2>1. daily.completed => daily.accepted <= Target
    BY DEF S1IInv, ShortfallIsReal
  <2>2. Total(Counts) <= Target
    BY <1>3 DEF CountFits
  <2>3. QED
    BY <1>3, <1>4, <2>1, <2>2
<1>6. S1TypeOK'
  <2>1. batch' \in [accepted : SUBSET Order, rejected : SUBSET Order, failed : SUBSET Order]
    BY <1>0 DEF NoBatch
  <2>2. phase' \in {"stopped", "cache", "bucket", "products", "manifest", "rejections", "remove", "done"}
    BY <1>5
  <2>3. QED
    BY <1>0, <1>3, <1>5, <2>1, <2>2 DEF S1TypeOK
<1>7. RunFits'
  <2>1. \A b \in Bucket : ~(b < bucket')
    BY <1>0, BucketType
  <2>2. QED
    BY <1>0, <1>4, <1>5, <2>1 DEF RunFits, InHand, Working
<1>8. BatchFits'
  BY <1>5 DEF BatchFits, InHand
<1>9. CountFits'
  BY <1>1, <1>3, <1>4, <1>5 DEF CountFits
<1>10. OrderFits'
  BY <1>0, <1>1, <1>4, <1>5 DEF OrderFits, DiskInOrder
<1>11. QED
  BY <1>1, <1>2, <1>6, <1>7, <1>8, <1>9, <1>10 DEF S1IInv

(* Steps that only move on.                                                *)
LEMMA MovesOnFits ==
  ASSUME S1IInv,
         UNCHANGED <<eligible, resume, soFar, batch, products, manifests, accepted, daily,
                     failures>>,
         S1TypeOK', RunFits',
         \/ phase' = phase /\ bucket' = bucket
         \/ phase = "cache" /\ phase' = "bucket"
         \/ phase = "bucket" /\ phase' = "bucket"
         \/ phase' \in {"stopped", "done"}
  PROVE  S1IInv'
<1>1. /\ Published' = Published /\ Total(Counts)' = Total(Counts)
      /\ PassMeansWhole' /\ \A b \in Bucket : products'[b] \subseteq OrdersOf(b)
      /\ failures = 0 => DiskInOrder'
  BY QuietDisk
<1>2. ShortfallIsReal' /\ QuotaMet'
  BY QuietDay
<1>3. BatchFits'
  BY DEF S1IInv, BatchFits, InHand
<1>4. CountFits'
  BY <1>1 DEF S1IInv, CountFits
<1>5. OrderFits'
  BY <1>1 DEF S1IInv, OrderFits, DiskInOrder, BatchInOrder
<1>6. QED
  BY <1>1, <1>2, <1>3, <1>4, <1>5 DEF S1IInv

LEMMA MovesOn ==
  ASSUME S1IInv,
         BeginCache \/ EndCache \/ SkipBucket \/ RemoveCache \/ ProductionDies \/ UNCHANGED s1Vars
  PROVE  S1IInv'
<1>0. S1TypeOK /\ RunFits /\ MaxDeaths \in Nat
  BY ProductionConstants DEF S1IInv
<1>1. CASE BeginCache
  <2>1. S1TypeOK'
    BY <1>0, <1>1 DEF BeginCache, production, S1TypeOK
  <2>2. RunFits'
    BY <1>0, <1>1 DEF BeginCache, production, RunFits, Passed, InHand, Working
  <2>3. QED
    BY <1>1, <2>1, <2>2, MovesOnFits DEF BeginCache, production
<1>2. CASE EndCache
  <2>1. S1TypeOK'
    BY <1>0, <1>2 DEF EndCache, S1TypeOK
  <2>2. RunFits'
    BY <1>0, <1>2 DEF EndCache, RunFits, Passed, InHand, Working
  <2>3. QED
    BY <1>2, <2>1, <2>2, MovesOnFits DEF EndCache
<1>3. CASE SkipBucket
  <2>1. S1TypeOK'
    BY <1>0, <1>3 DEF SkipBucket, S1TypeOK, disk
  <2>2. RunFits'
    <3>1. phase = "bucket" /\ phase' = "bucket" /\ bucket' = bucket + 1 /\ manifests[bucket] = "PASS"
          /\ UNCHANGED <<resume, manifests, daily>> /\ bucket \in Nat
      BY <1>0, <1>3 DEF SkipBucket, Skips, Passed, S1TypeOK, disk
    <3>2. ASSUME NEW b \in Bucket, b < bucket' PROVE manifests[b] # "none"
      <4>1. b < bucket \/ b = bucket
        BY <3>1, <3>2, BucketType
      <4>2. QED
        BY <1>0, <3>1, <4>1 DEF RunFits, Working
    <3>3. bucket' >= 1
      BY <3>1
    <3>4. QED
      BY <1>0, <3>1, <3>2, <3>3 DEF RunFits
  <2>3. QED
    BY <1>3, <2>1, <2>2, MovesOnFits DEF SkipBucket, disk
<1>4. CASE RemoveCache
  <2>1. S1TypeOK'
    BY <1>0, <1>4 DEF RemoveCache, S1TypeOK
  <2>2. RunFits'
    BY <1>0, <1>4 DEF RemoveCache, RunFits, Passed, InHand, Working
  <2>3. QED
    BY <1>4, <2>1, <2>2, MovesOnFits DEF RemoveCache
<1>5. CASE ProductionDies
  <2>1. S1TypeOK'
    <3>1. deaths' \in 0..MaxDeaths
      BY <1>0, <1>5 DEF ProductionDies, S1TypeOK
    <3>2. phase' \in {"stopped", "cache", "bucket", "products", "manifest", "rejections", "remove", "done"}
      BY <1>5 DEF ProductionDies
    <3>3. QED
      BY <1>0, <1>5, <3>1, <3>2 DEF ProductionDies, S1TypeOK, disk
  <2>2. RunFits'
    BY <1>0, <1>5 DEF ProductionDies, RunFits, InHand, Working, disk
  <2>3. QED
    BY <1>5, <2>1, <2>2, MovesOnFits DEF ProductionDies, disk
<1>6. CASE UNCHANGED s1Vars
  <2>1. S1TypeOK'
    BY <1>0, <1>6 DEF s1Vars, production, disk, S1TypeOK
  <2>2. RunFits'
    BY <1>0, <1>6 DEF s1Vars, production, disk, RunFits, Passed, InHand, Working
  <2>3. QED
    BY <1>6, <2>1, <2>2, MovesOnFits DEF s1Vars, production, disk
<1>7. QED
  BY <1>1, <1>2, <1>3, <1>4, <1>5, <1>6

LEMMA ProcessBucketFits ==
  ASSUME S1IInv, ProcessBucket
  PROVE  S1IInv'
<1>0. /\ phase = "bucket" /\ phase' = "products" /\ ~Finished /\ ~Skips
      /\ UNCHANGED <<eligible, resume, bucket, soFar, exceptions, cache, products, manifests,
                      accepted, rejections, daily, deaths>>
  BY DEF ProcessBucket, disk
<1>1. PICK raising \in SUBSET OrdersOf(bucket) :
        /\ raising \subseteq Processed(raising)
        /\ failures + Cardinality(raising) <= MaxFailures
        /\ failures' = failures + Cardinality(raising)
        /\ batch' = [accepted |-> {o \in Processed(raising) : Good(o, raising)},
                     rejected |-> Processed(raising) \ (eligible \cup raising),
                     failed |-> raising]
  BY DEF ProcessBucket
<1>2. /\ S1TypeOK /\ RunFits /\ CountFits /\ soFar \in Nat /\ Target \in Nat /\ MaxFailures \in Nat
      /\ failures \in Nat /\ eligible \subseteq Order /\ resume
      /\ bucket \in Bucket /\ soFar < Target
  BY <1>0, ProductionConstants DEF S1IInv, S1TypeOK, RunFits, Finished
<1>3. /\ Published' = Published /\ Total(Counts)' = Total(Counts)
      /\ PassMeansWhole' /\ \A b \in Bucket : products'[b] \subseteq OrdersOf(b)
      /\ failures = 0 => DiskInOrder'
  BY <1>0, QuietDisk
<1>4. OrdersOf(bucket) \subseteq Order /\ Cardinality(raising) \in Nat
  <2>1. OrdersOf(bucket) \subseteq Order /\ raising \in SUBSET Order
    BY DEF OrdersOf
  <2>2. QED
    BY <2>1, OrdersFinite
<1>5. failures' = 0 => failures = 0 /\ raising = {}
  <2>1. IsFiniteSet(raising)
    <3>1. raising \in SUBSET Order
      BY <1>4
    <3>2. QED
      BY <3>1, OrdersFinite
  <2>2. failures' = 0 => failures = 0 /\ Cardinality(raising) = 0
    BY <1>1, <1>2, <1>4
  <2>3. QED
    BY <2>1, <2>2, FS_EmptySet
<1> DEFINE G == {o \in OrdersOf(bucket) : Good(o, raising)}
           room == Target - soFar
           H == FirstOf(G, room)
<1>6. room \in Nat /\ room > 0 /\ G \in SUBSET Order
  BY <1>2, <1>4
<1>7. batch'.accepted = H
  <2>1. ASSUME NEW o \in OrdersOf(bucket)
        PROVE  o \in Processed(raising) <=> Cardinality({p \in G : p < o}) < room
    <3>1. {p \in OrdersOf(bucket) : p < o /\ Good(p, raising)} = {p \in G : p < o}
      OBVIOUS
    <3>2. {p \in G : p < o} \in SUBSET Order
      BY <1>4
    <3>3. Cardinality({p \in G : p < o}) \in Nat
      BY <3>2, OrdersFinite
    <3>4. TakenBefore(o, raising) = Cardinality({p \in G : p < o})
      BY <3>1, Zenon DEF TakenBefore
    <3> HIDE DEF G
    <3>5. soFar + Cardinality({p \in G : p < o}) < Target <=> Cardinality({p \in G : p < o}) < room
      BY <1>2, <3>3
    <3>6. QED
      BY <3>4, <3>5 DEF Processed
  <2>2. batch'.accepted = {o \in Processed(raising) : Good(o, raising)}
    BY <1>1
  <2>3. Processed(raising) \subseteq OrdersOf(bucket)
    BY DEF Processed
  <2>4. QED
    BY <2>1, <2>2, <2>3 DEF FirstOf
<1>8. /\ H \subseteq G
      /\ Cardinality(H) \in Nat /\ Cardinality(H) <= room
      /\ H # G => Cardinality(H) = room
      /\ \A o \in H, p \in G : p < o => p \in H
  <2> HIDE DEF G, room
  <2>1. QED
    BY <1>6, TheFirstOnes
<1> HIDE DEF H
<1>9. H \subseteq eligible \cap OrdersOf(bucket)
  BY <1>8 DEF Good
<1>10. soFar + Cardinality(H) <= Target
  BY <1>2, <1>8
<1>11. S1TypeOK'
  <2>1. batch' \in [accepted : SUBSET Order, rejected : SUBSET Order, failed : SUBSET Order]
    <3>1. Processed(raising) \subseteq Order
      BY <1>4 DEF Processed
    <3>2. QED
      BY <1>1, <1>4, <3>1
  <2>2. failures' \in 0..MaxFailures
    BY <1>1, <1>2, <1>4
  <2>3. phase' \in {"stopped", "cache", "bucket", "products", "manifest", "rejections", "remove", "done"}
    BY <1>0
  <2>4. QED
    BY <1>0, <1>2, <2>1, <2>2, <2>3 DEF S1TypeOK
<1>12. RunFits'
  <2>1. ~Passed(bucket)
    BY <1>0, <1>2 DEF Skips
  <2>2. QED
    BY <1>0, <1>2, <2>1 DEF RunFits, Passed, InHand, Working
<1>13. BatchFits'
  <2>1. batch'.accepted \subseteq eligible \cap OrdersOf(bucket) /\ soFar + Cardinality(batch'.accepted) <= Target
    BY <1>7, <1>9, <1>10
  <2>2. QED
    BY <1>0, <1>2, <2>1 DEF BatchFits, InHand
<1>14. CountFits'
  BY <1>0, <1>2, <1>3 DEF CountFits
<1>15. OrderFits'
  <2>1. SUFFICES ASSUME failures' = 0 PROVE OrderFits'
    BY DEF OrderFits
  <2>2. failures = 0 /\ raising = {} /\ DiskInOrder' /\ soFar = Cardinality(Published)
    BY <1>0, <1>3, <1>5, <2>1 DEF S1IInv, OrderFits
  <2>3. G = eligible \cap OrdersOf(bucket)
    BY <2>2 DEF Good
  <2>4. soFar + Cardinality(H) < Target => H = G
    BY <1>2, <1>8
  <2>5. BatchInOrder'
    <3>1. batch'.failed = {}
      BY <1>1, <2>2
    <3>2. \A o \in batch'.accepted, p \in eligible \cap OrdersOf(bucket) : p < o => p \in batch'.accepted
      BY <1>7, <1>8, <2>3
    <3>3. soFar + Cardinality(batch'.accepted) < Target
            => eligible \cap OrdersOf(bucket) \subseteq batch'.accepted
      BY <1>7, <2>3, <2>4
    <3>4. QED
      BY <1>0, <3>1, <3>2, <3>3 DEF BatchInOrder
  <2>6. QED
    BY <1>0, <1>3, <2>2, <2>5 DEF OrderFits
<1>16. ShortfallIsReal' /\ QuotaMet'
  BY <1>0, <1>5, QuietDay
<1>17. QED
  BY <1>3, <1>11, <1>12, <1>13, <1>14, <1>15, <1>16 DEF S1IInv

(* The products of a bucket that did not pass are replaced: no manifest    *)
(* that says PASS is about them.                                           *)
LEMMA WriteProductsFits ==
  ASSUME S1IInv, WriteProducts
  PROVE  S1IInv'
<1>0. /\ phase = "products" /\ phase' = "manifest"
      /\ products' = [products EXCEPT ![bucket] = batch.accepted]
      /\ UNCHANGED <<eligible, resume, bucket, soFar, exceptions, batch, cache, manifests,
                      accepted, rejections, daily, failures, deaths>>
  BY DEF WriteProducts
<1>1. /\ S1TypeOK /\ RunFits /\ CountFits /\ BatchFits
      /\ bucket \in Bucket /\ batch.accepted \subseteq eligible \cap OrdersOf(bucket)
      /\ manifests[bucket] # "PASS" /\ batch.accepted \in SUBSET Order
  BY <1>0 DEF S1IInv, S1TypeOK, BatchFits, RunFits, InHand, Passed
<1>2. products' \in [Bucket -> SUBSET Order] /\ products'[bucket] = batch.accepted
      /\ \A b \in Bucket : b # bucket => products'[b] = products[b]
  BY <1>0, <1>1 DEF S1TypeOK
<1>3. Total(Counts)' = Total(Counts)
  <2>1. Counts' = Counts
    BY <1>0 DEF Counts, Passed
  <2>2. QED
    BY <2>1, Zenon
<1>4. PassMeansWhole'
  <2>1. ASSUME NEW b \in Bucket, manifests'[b] = "PASS"
        PROVE  accepted'[b] = Cardinality(products'[b]) /\ products'[b] \subseteq eligible'
    <3>1. b # bucket /\ manifests[b] = "PASS"
      BY <1>0, <1>1, <2>1
    <3>2. accepted[b] = Cardinality(products[b]) /\ products[b] \subseteq eligible
      BY <3>1 DEF S1IInv, PassMeansWhole, Passed
    <3>3. QED
      BY <1>0, <1>2, <3>1, <3>2
  <2>2. QED
    BY <2>1 DEF PassMeansWhole, Passed
<1>5. ASSUME failures = 0 PROVE Published' = Published /\ DiskInOrder'
  <2>1. DiskInOrder /\ manifests[bucket] = "none"
    BY <1>1, <1>5 DEF S1IInv, OrderFits, DiskInOrder, S1TypeOK
  <2>2. Published' = Published
    <3>1. \A b \in {c \in Bucket : manifests[c] # "none"} : products'[b] = products[b]
      BY <1>2, <2>1
    <3>2. Published' = UNION {products'[b] : b \in {c \in Bucket : manifests[c] # "none"}}
      BY <1>0 DEF Published
    <3>3. QED
      BY <3>1, <3>2 DEF Published
  <2>3. PublishedInOrder'
    BY <1>0, <2>1, <2>2 DEF DiskInOrder, PublishedInOrder, InOrder
  <2>4. NoneLeftOut'
    BY <1>0, <2>1, <2>2 DEF DiskInOrder, NoneLeftOut, Passed
  <2>5. QED
    BY <1>0, <1>3, <2>1, <2>2, <2>3, <2>4 DEF DiskInOrder
<1>6. S1TypeOK'
  BY <1>0, <1>1, <1>2 DEF S1TypeOK
<1>7. RunFits'
  BY <1>0, <1>1, <1>2 DEF RunFits, InHand, Working, Passed
<1>8. BatchFits'
  BY <1>0, <1>1 DEF BatchFits, InHand
<1>9. CountFits'
  <2>1. \A b \in Bucket : products'[b] \subseteq OrdersOf(b)
    BY <1>1, <1>2 DEF CountFits
  <2>2. QED
    BY <1>0, <1>1, <1>3, <2>1 DEF CountFits
<1>10. OrderFits'
  BY <1>0, <1>5 DEF S1IInv, OrderFits, BatchInOrder
<1>11. ShortfallIsReal'
  BY <1>0 DEF S1IInv, ShortfallIsReal
<1>12. QuotaMet'
  BY <1>0, <1>5 DEF S1IInv, QuotaMet
<1>13. QED
  BY <1>4, <1>6, <1>7, <1>8, <1>9, <1>10, <1>11, <1>12 DEF S1IInv

(* The manifest of the bucket at hand: what it publishes is added to what  *)
(* was published and counted.                                              *)
LEMMA WriteManifestFits ==
  ASSUME S1IInv, WriteManifest
  PROVE  S1IInv'
<1> DEFINE A == batch.accepted
           size == Cardinality(batch.accepted)
<1>0. /\ phase = "manifest" /\ phase' = "rejections"
      /\ manifests' = [manifests EXCEPT ![bucket] = IF batch.failed = {} THEN "PASS" ELSE "FAIL"]
      /\ accepted' = [accepted EXCEPT ![bucket] = size]
      /\ UNCHANGED <<eligible, resume, bucket, soFar, exceptions, batch, cache, products,
                      rejections, daily, failures, deaths>>
  BY DEF WriteManifest
<1>1. /\ S1TypeOK /\ RunFits /\ CountFits /\ BatchFits /\ soFar < Target
      /\ bucket \in Bucket /\ A \subseteq eligible \cap OrdersOf(bucket)
      /\ manifests[bucket] # "PASS" /\ A \in SUBSET Order /\ soFar + size <= Target
      /\ products[bucket] = A /\ soFar \in Nat /\ Target \in Nat /\ Total(Counts) <= soFar
      /\ ~daily.completed
  BY <1>0, ProductionConstants
     DEF S1IInv, S1TypeOK, BatchFits, RunFits, CountFits, InHand, Passed
<1>2. IsFiniteSet(A) /\ size \in Nat
  BY <1>1, OrdersFinite
<1> HIDE DEF A, size
<1>3. /\ manifests' \in [Bucket -> {"none", "PASS", "FAIL"}] /\ accepted' \in [Bucket -> Nat]
      /\ manifests'[bucket] = IF batch.failed = {} THEN "PASS" ELSE "FAIL"
      /\ accepted'[bucket] = size
      /\ \A b \in Bucket : b # bucket => manifests'[b] = manifests[b] /\ accepted'[b] = accepted[b]
  BY <1>0, <1>1, <1>2 DEF S1TypeOK
<1>4. S1TypeOK'
  <2>1. phase' \in {"stopped", "cache", "bucket", "products", "manifest", "rejections", "remove", "done"}
    BY <1>0
  <2>2. QED
    BY <1>0, <1>1, <1>3, <2>1 DEF S1TypeOK
<1>5. /\ Total(Counts)' = Total(Counts) + (IF batch.failed = {} THEN size ELSE 0)
      /\ Total(Counts) \in Nat
  <2>1. Counts \in [Order -> Nat] /\ Counts' \in [Order -> Nat] /\ Total(Counts) \in Nat
    BY <1>1, <1>4, PublishedType DEF Counts, S1TypeOK
  <2>2. \A n \in Order : n # bucket => Counts'[n] = Counts[n]
    BY <1>3 DEF Counts, Passed
  <2>3. bucket \in Order
    BY <1>1, BucketType
  <2>4. Counts[bucket] = 0 /\ Counts'[bucket] = IF batch.failed = {} THEN size ELSE 0
    BY <1>1, <1>3, <2>3 DEF Counts, Passed
  <2>5. Total(Counts') = Total(Counts) - Counts[bucket] + Counts'[bucket]
    BY <2>1, <2>2, <2>3, TotalMoves
  <2>6. QED
    BY <1>2, <2>1, <2>4, <2>5
<1>6. PassMeansWhole'
  <2>1. ASSUME NEW b \in Bucket, manifests'[b] = "PASS"
        PROVE  accepted'[b] = Cardinality(products'[b]) /\ products'[b] \subseteq eligible'
    <3>1. CASE b = bucket
      BY <1>0, <1>1, <1>3, <3>1 DEF A, size
    <3>2. CASE b # bucket
      <4>1. accepted[b] = Cardinality(products[b]) /\ products[b] \subseteq eligible
        BY <1>3, <2>1, <3>2 DEF S1IInv, PassMeansWhole, Passed
      <4>2. QED
        BY <1>0, <1>3, <3>2, <4>1
    <3>3. QED
      BY <3>1, <3>2
  <2>2. QED
    BY <2>1 DEF PassMeansWhole, Passed
<1>7. ASSUME failures = 0
      PROVE  DiskInOrder' /\ Cardinality(Published') = soFar + size
  <2>1. /\ DiskInOrder /\ manifests[bucket] = "none" /\ soFar = Cardinality(Published)
        /\ batch.failed = {} /\ manifests'[bucket] = "PASS"
        /\ \A o \in A, p \in eligible \cap OrdersOf(bucket) : p < o => p \in A
        /\ soFar + size < Target => eligible \cap OrdersOf(bucket) \subseteq A
    BY <1>0, <1>1, <1>3, <1>7
       DEF S1IInv, OrderFits, DiskInOrder, BatchInOrder, S1TypeOK, A, size
  <2>2. Published' = Published \cup A
    <3>1. ASSUME NEW o PROVE o \in Published' <=> o \in Published \cup A
      <4>1. o \in Published' <=> \E b \in Bucket : manifests'[b] # "none" /\ o \in products[b]
        BY <1>0 DEF Published
      <4>2. o \in Published <=> \E b \in Bucket : manifests[b] # "none" /\ o \in products[b]
        BY DEF Published
      <4>3. QED
        BY <1>1, <1>3, <2>1, <4>1, <4>2
    <3>2. QED
      BY <3>1
  <2>3. Published \cap A = {}
    <3>1. ASSUME NEW o \in Published PROVE o \notin A
      <4>1. PICK b \in Bucket : manifests[b] # "none" /\ o \in products[b]
        BY DEF Published
      <4>2. b # bucket /\ o \in OrdersOf(b)
        BY <1>1, <2>1, <4>1 DEF CountFits
      <4>3. BucketOf(o) # bucket
        BY <4>2 DEF OrdersOf
      <4>4. QED
        BY <1>1, <4>3 DEF OrdersOf
    <3>2. QED
      BY <3>1
  <2>4. Published \in SUBSET Order /\ IsFiniteSet(Published) /\ Cardinality(Published) \in Nat
    BY <1>1, PublishedType, OrdersFinite
  <2>5. Cardinality(Published') = soFar + size
    <3>1. Cardinality(Published \cup A)
            = Cardinality(Published) + Cardinality(A) - Cardinality(Published \cap A)
      BY <1>2, <2>4, FS_Union
    <3>2. Cardinality(Published \cap A) = 0
      BY <2>3, FS_EmptySet
    <3>3. Cardinality(A) = size
      BY DEF A, size
    <3>4. QED
      BY <1>2, <2>1, <2>2, <2>4, <3>1, <3>2, <3>3
  <2>6. ASSUME NEW o \in Published', NEW p \in eligible, p < o
        PROVE  p \in Published'
    <3>1. CASE o \in Published
      BY <2>1, <2>2, <2>6, <3>1 DEF DiskInOrder, PublishedInOrder, InOrder
    <3>2. CASE o \in A
      <4>1. o \in Order /\ p \in Order /\ BucketOf(o) = bucket /\ o \in Nat /\ p \in Nat
        BY <1>1, <3>2 DEF OrdersOf, S1TypeOK, Order
      <4>2. BucketOf(p) <= bucket /\ BucketOf(p) \in Nat /\ BucketOf(p) \in Bucket
        BY <2>6, <4>1, BucketsAscend DEF Bucket
      <4>3. CASE BucketOf(p) = bucket
        BY <2>1, <2>2, <2>6, <3>2, <4>1, <4>3 DEF OrdersOf
      <4>4. CASE BucketOf(p) # bucket
        <5>1. BucketOf(p) < bucket
          BY <1>1, <4>2, <4>4, BucketType
        <5>2. manifests[BucketOf(p)] # "none"
          BY <1>0, <1>1, <4>2, <5>1 DEF RunFits, Working, InHand
        <5>3. Passed(BucketOf(p))
          BY <1>1, <2>1, <4>2, <5>2 DEF DiskInOrder, Passed, S1TypeOK
        <5>4. p \in Published
          BY <1>1, <2>1, <5>3 DEF DiskInOrder, NoneLeftOut
        <5>5. QED
          BY <2>2, <5>4
      <4>5. QED
        BY <4>3, <4>4
    <3>3. QED
      BY <2>2, <3>1, <3>2
  <2>7. NoneLeftOut'
    <3>1. SUFFICES ASSUME soFar + size < Target, NEW o \in eligible, Passed(BucketOf(o))'
                   PROVE  o \in Published'
      BY <1>0, <2>5 DEF NoneLeftOut
    <3>2. o \in Order /\ BucketOf(o) \in Bucket
      BY <1>1 DEF S1TypeOK, Bucket
    <3>3. CASE BucketOf(o) = bucket
      BY <2>1, <2>2, <3>1, <3>2, <3>3 DEF OrdersOf
    <3>4. CASE BucketOf(o) # bucket
      <4>1. Passed(BucketOf(o))
        BY <1>3, <3>1, <3>2, <3>4 DEF Passed
      <4>2. QED
        BY <1>1, <2>1, <2>2, <4>1 DEF DiskInOrder, NoneLeftOut
    <3>5. QED
      BY <3>3, <3>4
  <2>8. PublishedInOrder'
    BY <1>0, <1>1, <2>5, <2>6 DEF PublishedInOrder, InOrder
  <2>9. (\A b \in Bucket : manifests[b] # "FAIL")'
    BY <1>3, <2>1 DEF DiskInOrder
  <2>10. (Published \subseteq eligible)'
    BY <1>0, <1>1, <2>1, <2>2 DEF DiskInOrder
  <2>11. Total(Counts)' = Cardinality(Published')
    BY <1>5, <2>1, <2>5 DEF DiskInOrder
  <2>12. QED
    BY <2>5, <2>7, <2>8, <2>9, <2>10, <2>11 DEF DiskInOrder
<1>8. RunFits'
  <2>1. \A b \in Bucket : b < bucket => manifests'[b] # "none"
    BY <1>0, <1>1, <1>3 DEF RunFits, Working, InHand
  <2>2. QED
    BY <1>0, <1>1, <1>3, <2>1 DEF RunFits, InHand, Working
<1>9. BatchFits'
  BY <1>0, <1>1 DEF BatchFits, InHand, A, size
<1>10. CountFits'
  <2>1. Total(Counts)' <= soFar + size /\ Total(Counts)' <= Target
    BY <1>1, <1>2, <1>5
  <2>2. QED
    BY <1>0, <1>1, <2>1 DEF CountFits, size
<1>11. OrderFits'
  BY <1>0, <1>7 DEF OrderFits, size
<1>12. ShortfallIsReal' /\ QuotaMet'
  BY <1>0, <1>1 DEF ShortfallIsReal, QuotaMet
<1>13. QED
  BY <1>4, <1>6, <1>8, <1>9, <1>10, <1>11, <1>12 DEF S1IInv

LEMMA WriteRejectionsFits ==
  ASSUME S1IInv, WriteRejections
  PROVE  S1IInv'
<1>0. /\ phase = "rejections" /\ phase' = "bucket" /\ bucket' = bucket + 1
      /\ rejections' = [rejections EXCEPT ![bucket] = batch.rejected \cup batch.failed]
      /\ soFar' = soFar + Cardinality(batch.accepted)
      /\ exceptions' = exceptions + Cardinality(batch.failed)
      /\ batch' = NoBatch
      /\ UNCHANGED <<eligible, resume, cache, products, manifests, accepted, daily,
                      failures, deaths>>
  BY DEF WriteRejections
<1>1. /\ S1TypeOK /\ RunFits /\ CountFits /\ bucket \in Bucket /\ bucket \in Nat
      /\ soFar + Cardinality(batch.accepted) <= Target
      /\ soFar \in Nat /\ exceptions \in Nat /\ Target \in Nat
      /\ batch.accepted \in SUBSET Order /\ batch.failed \in SUBSET Order
      /\ batch.rejected \in SUBSET Order
  BY <1>0, ProductionConstants DEF S1IInv, S1TypeOK, BatchFits, InHand
<1>2. Cardinality(batch.accepted) \in Nat /\ Cardinality(batch.failed) \in Nat
  BY <1>1, OrdersFinite
<1>3. /\ Published' = Published /\ Total(Counts)' = Total(Counts)
      /\ PassMeansWhole' /\ \A b \in Bucket : products'[b] \subseteq OrdersOf(b)
      /\ failures = 0 => DiskInOrder'
  BY <1>0, QuietDisk
<1>4. ShortfallIsReal' /\ QuotaMet'
  BY <1>0, QuietDay
<1>5. S1TypeOK'
  <2>1. soFar' \in 0..Target /\ exceptions' \in Nat /\ bucket' \in Nat
    BY <1>0, <1>1, <1>2
  <2>2. batch' \in [accepted : SUBSET Order, rejected : SUBSET Order, failed : SUBSET Order]
    BY <1>0 DEF NoBatch
  <2>3. rejections' \in [Bucket -> SUBSET Order]
    BY <1>0, <1>1 DEF S1TypeOK
  <2>4. phase' \in {"stopped", "cache", "bucket", "products", "manifest", "rejections", "remove", "done"}
    BY <1>0
  <2>5. QED
    BY <1>0, <1>1, <2>1, <2>2, <2>3, <2>4 DEF S1TypeOK
<1>6. RunFits'
  <2>1. ASSUME NEW b \in Bucket, b < bucket' PROVE manifests[b] # "none"
    <3>1. b < bucket \/ b = bucket
      BY <1>0, <1>1, <2>1, BucketType
    <3>2. QED
      BY <1>0, <1>1, <3>1 DEF RunFits, Working, InHand
  <2>2. bucket' >= 1
    BY <1>0, <1>1
  <2>3. QED
    BY <1>0, <1>1, <2>1, <2>2 DEF RunFits
<1>7. BatchFits'
  BY <1>0 DEF BatchFits, InHand
<1>8. CountFits'
  BY <1>0, <1>1, <1>3 DEF CountFits
<1>9. OrderFits'
  BY <1>0, <1>3 DEF S1IInv, OrderFits
<1>10. QED
  BY <1>3, <1>4, <1>5, <1>6, <1>7, <1>8, <1>9 DEF S1IInv

(* The date is over: its quota is met, or every bucket was processed, and  *)
(* then nothing was left out.                                              *)
LEMMA EndDayFits ==
  ASSUME S1IInv, EndDay
  PROVE  S1IInv'
<1>0. /\ phase = "bucket" /\ Finished /\ phase' = "remove"
      /\ daily' = [completed |-> TRUE, accepted |-> soFar, exceptions |-> exceptions]
      /\ UNCHANGED <<eligible, resume, bucket, soFar, exceptions, batch, cache, products,
                      manifests, accepted, rejections, failures, deaths>>
  BY DEF EndDay, DayOver
<1>1. /\ S1TypeOK /\ RunFits /\ CountFits /\ soFar \in Nat /\ Target \in Nat /\ soFar <= Target
      /\ exceptions \in Nat /\ bucket \in Nat /\ eligible \in SUBSET Order
  BY ProductionConstants DEF S1IInv, S1TypeOK
<1>2. /\ Published' = Published /\ Total(Counts)' = Total(Counts)
      /\ PassMeansWhole' /\ \A b \in Bucket : products'[b] \subseteq OrdersOf(b)
      /\ failures = 0 => DiskInOrder'
  BY <1>0, QuietDisk
<1>3. daily' \in [completed : BOOLEAN, accepted : Nat, exceptions : Nat]
      /\ daily'.accepted = soFar
  BY <1>0, <1>1
<1>4. S1TypeOK'
  <2>1. phase' \in {"stopped", "cache", "bucket", "products", "manifest", "rejections", "remove", "done"}
    BY <1>0
  <2>2. QED
    BY <1>0, <1>1, <1>3, <2>1 DEF S1TypeOK
<1>5. RunFits'
  BY <1>0, <1>1 DEF RunFits, InHand, Working
<1>6. BatchFits'
  BY <1>0 DEF BatchFits, InHand
<1>7. CountFits'
  BY <1>0, <1>1, <1>2 DEF CountFits
<1>8. OrderFits'
  BY <1>0, <1>2 DEF OrderFits
<1>9. ASSUME soFar < Target, NEW b \in Bucket PROVE manifests[b] # "none"
  <2>1. bucket \notin Bucket /\ b \in Nat /\ bucket >= 1
    BY <1>0, <1>1, <1>9, BucketType DEF Finished, RunFits
  <2>2. ~(bucket <= b)
    BY <1>1, <2>1, BucketsAreAnInterval
  <2>3. b < bucket
    BY <1>1, <2>1, <2>2
  <2>4. QED
    BY <1>0, <1>1, <2>3 DEF RunFits, Working
<1>10. ShortfallIsReal'
  BY <1>0, <1>1, <1>3, <1>9 DEF ShortfallIsReal
<1>11. QuotaMet'
  <2>1. SUFFICES ASSUME failures = 0
                 PROVE  soFar = Min({Target, Cardinality(eligible)}) /\ Cardinality(Published) = soFar
    BY <1>0, <1>2, <1>3 DEF QuotaMet
  <2>2. DiskInOrder /\ soFar = Cardinality(Published)
    BY <1>0, <2>1 DEF S1IInv, OrderFits
  <2>3. IsFiniteSet(eligible) /\ Cardinality(eligible) \in Nat
    BY <1>1, OrdersFinite
  <2>4. soFar <= Cardinality(eligible)
    <3>1. Published \in SUBSET eligible
      BY <2>2 DEF DiskInOrder
    <3>2. QED
      BY <2>2, <2>3, <3>1, FS_Subset
  <2>5. soFar < Target => soFar = Cardinality(eligible)
    <3>1. SUFFICES ASSUME soFar < Target PROVE Published = eligible
      BY <2>2
    <3>2. ASSUME NEW o \in eligible PROVE o \in Published
      <4>1. BucketOf(o) \in Bucket
        BY <1>1 DEF Bucket
      <4>2. Passed(BucketOf(o))
        BY <1>1, <1>9, <2>2, <3>1, <4>1 DEF Passed, DiskInOrder, S1TypeOK
      <4>3. QED
        BY <2>2, <3>1, <4>2 DEF DiskInOrder, NoneLeftOut
    <3>3. QED
      BY <2>2, <3>2 DEF DiskInOrder
  <2>6. Min({Target, Cardinality(eligible)}) = soFar
    <3>1. soFar \in {Target, Cardinality(eligible)}
          /\ \A y \in {Target, Cardinality(eligible)} : soFar <= y
      BY <1>1, <2>4, <2>5
    <3>2. \A x \in {Target, Cardinality(eligible)} :
            (\A y \in {Target, Cardinality(eligible)} : x <= y) => x = soFar
      BY <1>1, <2>3, <3>1
    <3>3. QED
      BY <3>1, <3>2 DEF Min
  <2>7. QED
    BY <2>2, <2>6
<1>12. QED
  BY <1>2, <1>4, <1>5, <1>6, <1>7, <1>8, <1>10, <1>11 DEF S1IInv

(* Whenever and however often the production of a date dies, if it is      *)
(* started again to resume, a PASS manifest describes its products, the    *)
(* quota is never exceeded and met unless every bucket was processed, and, *)
(* if no order raised, exactly the first eligible ones are published.      *)
THEOREM DateIsSoundHolds ==
  ASSUME AlwaysResumed
  PROVE  S1Spec => []DateIsSound
<1>1. S1IInv /\ [S1Next]_s1Vars => S1IInv'
  <2>1. SUFFICES ASSUME S1IInv, [S1Next]_s1Vars PROVE S1IInv'
    OBVIOUS
  <2>2. CASE Start
    BY <2>1, <2>2, StartFits
  <2>3. CASE ProcessBucket
    BY <2>1, <2>3, ProcessBucketFits
  <2>4. CASE WriteProducts
    BY <2>1, <2>4, WriteProductsFits
  <2>5. CASE WriteManifest
    BY <2>1, <2>5, WriteManifestFits
  <2>6. CASE WriteRejections
    BY <2>1, <2>6, WriteRejectionsFits
  <2>7. CASE EndDay
    BY <2>1, <2>7, EndDayFits
  <2>8. CASE \/ BeginCache \/ EndCache \/ SkipBucket \/ RemoveCache \/ ProductionDies
             \/ UNCHANGED s1Vars
    BY <2>1, <2>8, MovesOn
  <2>9. QED
    BY <2>1, <2>2, <2>3, <2>4, <2>5, <2>6, <2>7, <2>8 DEF S1Next, Work
<1>2. S1IInv => DateIsSound
  BY DEF S1IInv, DateIsSound, OrderFits, DiskInOrder
<1>3. QED
  BY <1>1, <1>2, InitS1, PTL DEF S1Spec
=============================================================================
