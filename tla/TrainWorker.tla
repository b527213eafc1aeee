----------------------------- MODULE TrainWorker ----------------------------
(***************************************************************************)
(* Training of the stage 2 model: train_worker, launched by                *)
(* protocol_runner or by hand, trains epoch by epoch, keeps the best       *)
(* checkpoint, predicts every split with it and writes the manifest; it    *)
(* can be killed anywhere and launched again.  An epoch is its validation  *)
(* score, or Unstable when a hard gate fails or the loss is not a number.  *)
(***************************************************************************)
EXTENDS Integers, Sequences, FiniteSets, FiniteSetsExt

CONSTANTS Scores, Unstable, None, Splits,
  MaximumEpochs, Patience,  \* maximum_epochs, early_stopping_patience
  Reproducible,             \* nothing changes between two launches
  ByHand,                   \* launched with any flag, not by protocol_runner
  MaxLaunches               \* bound: launches explored

ASSUME TrainAssumption ==
  /\ Scores \subseteq Nat /\ {MaximumEpochs, Patience, MaxLaunches} \subseteq Nat \ {0}
  /\ {Reproducible, ByHand} \subseteq BOOLEAN /\ Unstable \notin Int /\ None \notin Int

VARIABLES
  launches, outcome,        \* launches so far; what the epochs of a launch score
  pc,                       \* where the worker is
  history, bestEpoch, patience,
  checkpoint,               \* best_model.pt: the launch and the epoch, or None
  predicted,                \* [Splits -> the checkpoint its chunks are made with]
  manifest                  \* model_manifest.json, status PASS, or None

twVars == <<launches, outcome, pc, history, bestEpoch, patience, checkpoint, predicted, manifest>>

Outcomes == [1..MaximumEpochs -> Scores \cup {Unstable}]
Checkpoint == [launch : 1..MaxLaunches, epoch : 1..MaximumEpochs]

TWInit ==
  /\ launches = 0 /\ outcome \in Outcomes
  /\ pc = "idle" /\ history = << >> /\ bestEpoch = 0 /\ patience = 0
  /\ checkpoint = None /\ predicted = [s \in Splits |-> None] /\ manifest = None

-----------------------------------------------------------------------------
(* run_protocol: resume asks to go on, and forces when only one of the two *)
(* files is there.                                                         *)
Partial == (checkpoint = None) # (manifest = None)
Flags == IF ByHand THEN {"none", "resume", "force"}
         ELSE {"none", IF Partial THEN "force" ELSE "resume"}

Done(flag) == flag = "resume" /\ checkpoint # None /\ manifest # None

(* Mutant: existing outputs are overwritten whatever the flag.             *)
RefusesNever(flag) == FALSE

Refuses(flag) == (checkpoint # None \/ manifest # None) /\ flag # "force"

(* The start of train(): a finished model is returned, outputs that exist  *)
(* are an error without --force.                                           *)
LaunchTraining ==
  /\ pc = "idle" /\ launches < MaxLaunches
  /\ launches' = launches + 1
  /\ \E flag \in Flags :
       pc' = IF Done(flag) \/ Refuses(flag) THEN "idle" ELSE "epoch"
  /\ outcome' \in IF Reproducible THEN {outcome} ELSE Outcomes
  /\ history' = << >> /\ bestEpoch' = 0 /\ patience' = 0
  /\ UNCHANGED <<checkpoint, predicted, manifest>>

-----------------------------------------------------------------------------
Stable(scores) == {i \in DOMAIN scores : scores[i] # Unstable}

(* _select_checkpoint: the least score, the earliest on a tie; 0 if none.  *)
Selected(scores) ==
  IF Stable(scores) = {} THEN 0
  ELSE LET least == Min({scores[i] : i \in Stable(scores)})
       IN Min({i \in Stable(scores) : scores[i] = least})

WornBy(improved) == IF improved THEN 0 ELSE patience + 1

(* One epoch: train, validate, select; a new best replaces the checkpoint  *)
(* (an atomic rename).                                                     *)
Epoch ==
  /\ pc = "epoch" /\ Len(history) < MaximumEpochs
  /\ LET epoch == Len(history) + 1
         improved == Selected(history') = epoch
     IN /\ history' = Append(history, outcome[epoch])
        /\ bestEpoch' = IF improved THEN epoch ELSE bestEpoch
        /\ checkpoint' = IF improved THEN [launch |-> launches, epoch |-> epoch]
                         ELSE checkpoint
        /\ patience' = WornBy(improved)
        /\ pc' = IF epoch = MaximumEpochs \/ (~improved /\ patience' >= Patience)
                 THEN "trained" ELSE "epoch"
  /\ UNCHANGED <<launches, outcome, predicted, manifest>>

NoCheckpoint == checkpoint = None

(* "training completed without a stable checkpoint", or it is loaded.      *)
Load ==
  /\ pc = "trained" /\ pc' = IF NoCheckpoint THEN "idle" ELSE "predict"
  /\ UNCHANGED <<launches, outcome, history, bestEpoch, patience, checkpoint,
                 predicted, manifest>>

(* _predict: the splits in turn; all the chunks of one are written before  *)
(* those of the next.                                                      *)
Predict ==
  /\ pc = "predict"
  /\ \E s \in Splits :
       /\ predicted[s] # checkpoint
       /\ predicted' = [predicted EXCEPT ![s] = checkpoint]
  /\ UNCHANGED <<launches, outcome, pc, history, bestEpoch, patience, checkpoint, manifest>>

AllPredicted == \A s \in Splits : predicted[s] = checkpoint

(* The manifest: history[best_epoch] is the epoch it reports, the last one *)
(* when best_epoch was never set (-1).                                     *)
Finish ==
  /\ pc = "predict" /\ AllPredicted /\ pc' = "idle"
  /\ manifest' = [checkpoint |-> checkpoint, history |-> history,
                  best |-> IF bestEpoch = 0 THEN Len(history) ELSE bestEpoch]
  /\ UNCHANGED <<launches, outcome, history, bestEpoch, patience, checkpoint, predicted>>

(* The worker is killed.                                                   *)
Crash ==
  /\ pc # "idle" /\ pc' = "idle"
  /\ UNCHANGED <<launches, outcome, history, bestEpoch, patience, checkpoint,
                 predicted, manifest>>

TWNext == LaunchTraining \/ Epoch \/ Load \/ Predict \/ Finish \/ Crash

TWSpec == TWInit /\ [][TWNext]_twVars

-----------------------------------------------------------------------------
Model == [checkpoint : Checkpoint, best : 1..MaximumEpochs,
          history : UNION {[1..n -> Scores \cup {Unstable}] : n \in 1..MaximumEpochs}]

TWTypeOK ==
  /\ launches \in 0..MaxLaunches /\ outcome \in Outcomes
  /\ pc \in {"idle", "epoch", "trained", "predict"}
  /\ history \in Seq(Scores \cup {Unstable}) /\ Len(history) <= MaximumEpochs
  /\ bestEpoch \in 0..Len(history) /\ patience \in 0..Patience
  /\ checkpoint \in Checkpoint \cup {None}
  /\ predicted \in [Splits -> Checkpoint \cup {None}]
  /\ manifest \in Model \cup {None}

(* Once the manifest is there, the checkpoint on disk is the one it names  *)
(* and every prediction was made with it, however often the worker was     *)
(* killed before and launched since (train_worker.py:533, 537).            *)
ManifestDescribesDisk ==
  manifest # None =>
    /\ checkpoint = manifest.checkpoint
    /\ \A s \in Splits : predicted[s] = manifest.checkpoint

(* The epoch the manifest reports has the best score of all the stable     *)
(* ones, and its weights are those of the checkpoint.                      *)
ReportsTheBest ==
  manifest # None =>
    /\ manifest.history[manifest.best] # Unstable
    /\ \A i \in Stable(manifest.history) :
         manifest.history[manifest.best] <= manifest.history[i]
    /\ manifest.checkpoint.epoch = manifest.best

(* Training stops before the last epoch only after Patience epochs without *)
(* a better one.                                                           *)
StopsOnPatience ==
  pc = "trained" /\ Len(history) < MaximumEpochs => Len(history) - bestEpoch = Patience

(* What a reader of the manifest and of the log may rely on.               *)
TrainingIsSound ==
  TWTypeOK /\ ManifestDescribesDisk /\ ReportsTheBest /\ StopsOnPatience
=============================================================================
