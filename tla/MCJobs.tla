------------------------------- MODULE MCJobs -------------------------------
(***************************************************************************)
(* The jobs that are killed and started again: batches of scenarios,       *)
(* training, the registry of runs, the production of a date, and a         *)
(* simulation cut by checkpoints.  They share no state, so that each is    *)
(* explored on its own: part says which, and the others stay where they    *)
(* began.                                                                  *)
(***************************************************************************)
EXTENDS MCExperimentRunner, TrainWorker, RunRegistry, CheckpointResume, Stage1Production

CONSTANTS a, b, c, d, e

VARIABLE part

(* Three events wait at first; two of the five are spawned.                *)
CutTime == [x \in Events |-> IF x \in {a, b} THEN 1 ELSE IF x = e THEN 3 ELSE 2]
CutInitial == <<b, c, a>>
CutSpawns == [x \in Events |-> IF x = a THEN <<d>> ELSE IF x = d THEN <<e>> ELSE << >>]
CutTimes == 0..3

jobsVars == <<part, vars, twVars, rrVars, s1Vars, crVars>>

JobsInit ==
  /\ part \in {"batch", "training", "registry", "production", "resume"}
  /\ Init
  /\ TWInit /\ (part # "training" => \A n \in 1..MaximumEpochs : outcome[n] = Unstable)
  /\ RRInit /\ (part # "registry" => ~serial /\ \A r \in Runs : config[r] = CHOOSE x \in Configs : TRUE)
  /\ S1Init /\ (part # "production" => eligible = {})
  /\ CRInit

JobsNext ==
  \/ part = "batch" /\ Next /\ UNCHANGED <<part, twVars, rrVars, s1Vars, crVars>>
  \/ part = "training" /\ TWNext /\ UNCHANGED <<part, vars, rrVars, s1Vars, crVars>>
  \/ part = "registry" /\ RRNext /\ UNCHANGED <<part, vars, twVars, s1Vars, crVars>>
  \/ part = "production" /\ S1Next /\ UNCHANGED <<part, vars, twVars, rrVars, crVars>>
  \/ part = "resume" /\ CRNext /\ UNCHANGED <<part, vars, twVars, rrVars, s1Vars>>

JobsSpec == JobsInit /\ [][JobsNext]_jobsVars /\ Fairness
=============================================================================
