--------------------------- MODULE CheckpointResume -------------------------
(***************************************************************************)
(* Cutting a simulator v3 run in two (simulation_engine.py): run() until a *)
(* midpoint without closing the day, save_checkpoint, and, in this process *)
(* or a later one, load_checkpoint and run() on.  The engine is its queue, *)
(* the counter that orders ties, and the log of the events it handled;     *)
(* what an event does is to push the events it spawns.  The file is        *)
(* written in place, and the process may die at any moment.                *)
(***************************************************************************)
EXTENDS Naturals, Sequences

CONSTANTS Events,         \* the events of the day
          Time,           \* [Events -> Nat]: time, and priority within it
          Initial,        \* those in the queue when the day starts
          Spawns,         \* [Events -> sequence of the events it pushes]
          Cuts, MaxSaves, \* the midpoints, and a bound: saves
          MaxCrashes      \* bound: crashes

ASSUME ResumeAssumption ==
  /\ Time \in [Events -> Nat] /\ Initial \in Seq(Events)
  /\ Spawns \in [Events -> Seq(Events)]
  /\ Cuts \subseteq Nat /\ {MaxSaves, MaxCrashes} \subseteq Nat

VARIABLES
  engine,   \* [queue, seq, log]: self, what pickle dumps and loads
  process,  \* "ready", "running", "saving", "dead", "failed"
  until,    \* end_time of the run() in progress
  checkpointFile,  \* what is on disk: "absent", "partial" or "whole"
  saved,    \* and the engine it holds when it is whole
  saves, crashes

crVars == <<engine, process, until, checkpointFile, saved, saves, crashes>>

(* push: one more entry, numbered.                                         *)
Push(en, e) ==
  [en EXCEPT !.queue = @ \cup {[time |-> Time[e], sequence |-> en.seq + 1, event |-> e]},
             !.seq = @ + 1]

(* The engine after the first i of the events, as a function of i.         *)
Pushes(en, es) ==
  LET after[i \in 0..Len(es)] == IF i = 0 THEN en ELSE Push(after[i - 1], es[i])
  IN after

PushAll(en, es) == Pushes(en, es)[Len(es)]

(* initialize_events.                                                      *)
NewEngine == PushAll([queue |-> {}, seq |-> 0, log |-> <<>>], Initial)

Before(x, y) == x.time < y.time \/ (x.time = y.time /\ x.sequence <= y.sequence)
First(queue) == CHOOSE x \in queue : \A y \in queue : Before(x, y)

Handle(en) ==
  LET x == First(en.queue)
  IN PushAll([en EXCEPT !.queue = @ \ {x}, !.log = Append(@, x.event)], Spawns[x.event])

CRInit ==
  /\ engine = NewEngine /\ process = "ready" /\ until = 0
  /\ checkpointFile = "absent" /\ saved = engine /\ saves = 0 /\ crashes = 0

-----------------------------------------------------------------------------
Run == /\ process = "ready" /\ process' = "running"
       /\ until' \in Cuts
       /\ UNCHANGED <<engine, checkpointFile, saved, saves, crashes>>

Due == engine.queue # {} /\ First(engine.queue).time <= until

HandleEvent == /\ process = "running" /\ Due
               /\ engine' = Handle(engine)
               /\ UNCHANGED <<process, until, checkpointFile, saved, saves, crashes>>

(* Mutant: the event is taken before its time is looked at.                *)
RunReturnsTooLate ==
  /\ process = "running" /\ ~Due /\ process' = "ready"
  /\ engine' = IF engine.queue = {} THEN engine
               ELSE [engine EXCEPT !.queue = @ \ {First(@)}]
  /\ UNCHANGED <<until, checkpointFile, saved, saves, crashes>>

(* run() returns with finalize=False and leaves later events in the queue. *)
RunReturns == /\ process = "running" /\ ~Due /\ process' = "ready"
              /\ UNCHANGED <<engine, until, checkpointFile, saved, saves, crashes>>

(* save_checkpoint: open("wb") empties the file, pickle.dump fills it.     *)
OpenCheckpoint == /\ process = "ready" /\ saves < MaxSaves
                  /\ process' = "saving" /\ checkpointFile' = "partial" /\ saves' = saves + 1
                  /\ UNCHANGED <<engine, until, saved, crashes>>

Dumped == engine

DumpCheckpoint == /\ process = "saving" /\ process' = "ready"
                  /\ checkpointFile' = "whole" /\ saved' = Dumped
                  /\ UNCHANGED <<engine, until, saves, crashes>>

ProcessDies ==
  /\ process \in {"ready", "running", "saving"} /\ crashes < MaxCrashes
  /\ process' = "dead" /\ crashes' = crashes + 1
  /\ UNCHANGED <<engine, until, checkpointFile, saved, saves>>

(* pickle.load raises on a file that is not whole.                         *)
Loadable == checkpointFile = "whole"

(* load_checkpoint, of the same process or of the next.                    *)
LoadCheckpoint ==
  /\ process \in {"ready", "dead"} /\ checkpointFile # "absent"
  /\ \/ Loadable /\ engine' = saved /\ process' = "ready"
     \/ ~Loadable /\ engine' = engine /\ process' = "failed"
  /\ UNCHANGED <<until, checkpointFile, saved, saves, crashes>>

(* Without a checkpoint the next process builds the engine again.          *)
Rebuild == /\ process = "dead" /\ checkpointFile = "absent"
           /\ engine' = NewEngine /\ process' = "ready"
           /\ UNCHANGED <<until, checkpointFile, saved, saves, crashes>>

CRNext == \/ Run \/ HandleEvent \/ RunReturns \/ OpenCheckpoint \/ DumpCheckpoint
          \/ ProcessDies \/ LoadCheckpoint \/ Rebuild

CRSpec == CRInit /\ [][CRNext]_crVars

-----------------------------------------------------------------------------
Entry == [time : Nat, sequence : Nat, event : Events]
Engine == [queue : SUBSET Entry, seq : Nat, log : Seq(Events)]

(* Every entry that waits was numbered by this engine.                     *)
CRTypeOK ==
  /\ engine \in Engine /\ \A x \in engine.queue : x.sequence <= engine.seq
  /\ process \in {"ready", "running", "saving", "dead", "failed"} /\ until \in Cuts \cup {0}
  /\ checkpointFile \in {"absent", "partial", "whole"} /\ saved \in Engine
  /\ saves \in 0..MaxSaves /\ crashes \in 0..MaxCrashes

(* However a run is cut, saved, lost and resumed, the engine is in the     *)
(* state an uncut run is in after as many events: a resumed day is the     *)
(* same day (audit_simulator_v3_checkpoint_resume.py:84-93).               *)
Uncut[n \in Nat] == IF n = 0 THEN NewEngine ELSE Handle(Uncut[n - 1])

ResumedIsUncut == CRTypeOK /\ engine = Uncut[Len(engine.log)]
=============================================================================
