-------------------------- MODULE ExperimentRunner --------------------------
(***************************************************************************)
(* The batch driver of the final experiments and its worker processes      *)
(* (dispatch/final_experiment_runner.py).  They share nothing but the      *)
(* output directory of each scenario: run_status.json, replaced            *)
(* atomically, and the products, which are written one after another.      *)
(* Any process may be killed between two steps, and the driver may be      *)
(* started again with --resume; whether its workers die with it depends on *)
(* how it was killed.                                                      *)
(***************************************************************************)
EXTENDS Naturals, Sequences, FiniteSets, SequencesExt

CONSTANTS Scenarios,        \* scenario ids
          Registry,         \* the rows in the order of the registry
          Phases,           \* the selections --phase offers: sets of scenarios
          MaxParallel,      \* max_parallel_scenarios
          Products,         \* 1..n: the OUTPUT_FILES, in the order written
          MaxHead,          \* bound: commits the work tree goes through
          MaxStarts,        \* bound: how often the driver is started
          MaxWorkers,       \* bound: worker processes ever launched
          OrphansSurvive    \* whether workers outlive a driver that is killed

ASSUME RunnerAssumption ==
  /\ Registry \in Seq(Scenarios) /\ IsInjective(Registry)
  /\ Phases \subseteq SUBSET ToSet(Registry)
  /\ IsFiniteSet(Products) /\ Products = 1..Cardinality(Products)
  /\ MaxParallel \in Nat \ {0} /\ MaxHead \in Nat \ {0}
  /\ MaxStarts \in Nat /\ MaxWorkers = MaxStarts * Len(Registry)
  /\ OrphansSurvive \in BOOLEAN

VARIABLES
  head,      \* what git rev-parse HEAD answers
  status,    \* [Scenarios -> contents of run_status.json]
  product,   \* [Scenarios -> [Products -> the worker that wrote it last, or 0]]
  worker,    \* the worker processes launched so far
  driver,    \* the driver process
  starts     \* how often the driver has been started

vars == <<head, status, product, worker, driver, starts>>

Pids == 1..MaxWorkers
NoPid == 0

State == {"ABSENT", "PENDING", "RUNNING", "COMPLETED", "FAILED"}
Status == [state : State, commit : 0..MaxHead, pid : Pids \cup {NoPid}]
NoStatus == [state |-> "ABSENT", commit |-> 0, pid |-> NoPid]
StatusTemplate(c, st, p) == [state |-> st, commit |-> c, pid |-> p]

WorkerPc == {"check", "claim", "execute", "exited"}
Worker == [scenario : Scenarios, pc : WorkerPc, commit : 0..MaxHead,
           retry : BOOLEAN, written : Nat]

DriverPc == {"idle", "partition", "loop", "launch", "done", "refused"}
Idle == [pc |-> "idle", commit |-> 0, retry |-> FALSE, selected |-> {},
         rows |-> <<>>, pending |-> <<>>, running |-> {}]

Alive(p) == p # NoPid /\ worker[p].pc # "exited"

-----------------------------------------------------------------------------
(* resume_action: what may be done with a scenario whose directory is found *)
(* as it is, under commit c.                                               *)

RequiredOutputsExist(s) == \A i \in Products : product[s][i] # NoPid

CompletedIsReusable(s, c) ==
  /\ RequiredOutputsExist(s)
  /\ status[s].commit = c

(* Mutant: a result of another commit is simply computed again.            *)
ResumeActionReruns(s, c, retry) ==
  CASE status[s].state \in {"ABSENT", "PENDING"} -> "RUN"
    [] status[s].state = "COMPLETED" ->
         IF CompletedIsReusable(s, c) THEN "SKIP" ELSE "RUN"
    [] status[s].state = "RUNNING" ->
         IF Alive(status[s].pid) THEN "ACTIVE" ELSE "STALE"
    [] status[s].state = "FAILED"  -> IF retry THEN "RUN" ELSE "FAILED"

ResumeAction(s, c, retry) ==
  CASE status[s].state = "ABSENT"    -> "RUN"
    [] status[s].state = "COMPLETED" ->
         IF CompletedIsReusable(s, c) THEN "SKIP" ELSE "STALE"
    [] status[s].state = "RUNNING"   ->
         IF Alive(status[s].pid) THEN "ACTIVE" ELSE "STALE"
    [] status[s].state = "FAILED"    -> IF retry THEN "RUN" ELSE "FAILED"
    [] status[s].state = "PENDING"   -> "RUN"

-----------------------------------------------------------------------------
Init ==
  /\ head = 1
  /\ status = [s \in Scenarios |-> NoStatus]
  /\ product = [s \in Scenarios |-> [i \in Products |-> NoPid]]
  /\ worker = <<>>
  /\ driver = Idle
  /\ starts = 0

(* phase_rows: the rows of a phase among the first n of the registry, as a *)
(* function of n: unlike SelectSeq it can be unfolded in a proof.          *)
PhaseRows(phase) ==
  LET rows[n \in 0..Len(Registry)] ==
        IF n = 0 THEN <<>>
        ELSE IF Registry[n] \in phase THEN Append(rows[n - 1], Registry[n])
        ELSE rows[n - 1]
  IN  rows

Selection(phase) == PhaseRows(phase)[Len(Registry)]

(* run_batch up to the partition.  Without --resume it refuses to go on    *)
(* where a status file exists already.                                     *)
StartBatch ==
  /\ driver.pc \in {"idle", "done", "refused"}
  /\ starts < MaxStarts
  /\ starts' = starts + 1
  /\ \E phase \in Phases, resume, retry \in BOOLEAN :
       LET existing == \E s \in phase : status[s].state # "ABSENT"
       IN driver' = [Idle EXCEPT !.pc = IF existing /\ ~resume THEN "refused"
                                        ELSE "partition",
                                 !.commit = head, !.retry = retry,
                                 !.selected = phase, !.rows = Selection(phase)]
  /\ UNCHANGED <<head, status, product, worker>>

(* batch_partition, one row per step: the other processes go on meanwhile.  *)
(* A row that is ACTIVE or STALE makes run_batch raise.                     *)
Partition ==
  /\ driver.pc = "partition"
  /\ IF driver.rows = <<>>
       THEN driver' = [driver EXCEPT !.pc = "loop"]
       ELSE LET s == Head(driver.rows)
                action == ResumeAction(s, driver.commit, driver.retry)
                rest == [driver EXCEPT !.rows = Tail(driver.rows)]
            IN driver' = CASE action \in {"ACTIVE", "STALE"} ->
                                [rest EXCEPT !.pc = "refused", !.pending = <<>>]
                           [] action = "RUN" ->
                                [rest EXCEPT !.pending = Append(@, s)]
                           [] OTHER -> rest
  /\ UNCHANGED <<head, status, product, worker, starts>>

(* The next row of the launch loop, when a slot is free and memory is      *)
(* there: PENDING is written whatever the file says by now ...             *)
WritePending ==
  /\ driver.pc = "loop"
  /\ driver.pending # <<>> /\ Cardinality(driver.running) < MaxParallel
  /\ status' = [status EXCEPT ![Head(driver.pending)] =
                  StatusTemplate(driver.commit, "PENDING", NoPid)]
  /\ driver' = [driver EXCEPT !.pc = "launch"]
  /\ UNCHANGED <<head, product, worker, starts>>

(* ... and then the worker process is created.                             *)
Launch ==
  /\ driver.pc = "launch"
  /\ Len(worker) < MaxWorkers
  /\ worker' = Append(worker, [scenario |-> Head(driver.pending), pc |-> "check",
                               commit |-> 0, retry |-> driver.retry, written |-> 0])
  /\ driver' = [driver EXCEPT !.pc = "loop", !.pending = Tail(@),
                              !.running = @ \cup {Len(worker) + 1}]
  /\ UNCHANGED <<head, status, product, starts>>

(* A worker has exited: it leaves the running table, and a status it did   *)
(* not bring to an end becomes FAILED with WorkerExitError.                *)
StatusAfterExit(s) ==
  IF status[s].state \in {"COMPLETED", "FAILED"} THEN status[s]
  ELSE StatusTemplate(driver.commit, "FAILED", NoPid)

(* Mutant: only workers that brought their status to an end are collected. *)
PollTerminal(p) ==
  /\ driver.pc = "loop" /\ p \in driver.running /\ ~Alive(p)
  /\ status[worker[p].scenario].state \in {"COMPLETED", "FAILED"}
  /\ driver' = [driver EXCEPT !.running = @ \ {p}]
  /\ UNCHANGED <<head, status, product, worker, starts>>

Poll(p) ==
  /\ driver.pc = "loop" /\ p \in driver.running /\ ~Alive(p)
  /\ status' = [status EXCEPT ![worker[p].scenario] =
                  StatusAfterExit(worker[p].scenario)]
  /\ driver' = [driver EXCEPT !.running = @ \ {p}]
  /\ UNCHANGED <<head, product, worker, starts>>

EndBatch ==
  /\ driver.pc = "loop" /\ driver.pending = <<>> /\ driver.running = {}
  /\ driver' = [driver EXCEPT !.pc = "done"]
  /\ UNCHANGED <<head, status, product, worker, starts>>

(* The driver is killed: alone, or with its process group.                 *)
CrashDriver ==
  /\ driver.pc \in {"partition", "loop", "launch"}
  /\ driver' = Idle
  /\ worker' = IF OrphansSurvive THEN worker
               ELSE [p \in DOMAIN worker |-> [worker[p] EXCEPT !.pc = "exited"]]
  /\ UNCHANGED <<head, status, product, starts>>

-----------------------------------------------------------------------------
(* run_one, in its process: look at the directory, claim it, execute.      *)

Advance(p, pc) == worker' = [worker EXCEPT ![p].pc = pc]

Check(p) ==
  /\ worker[p].pc = "check"
  /\ LET action == ResumeAction(worker[p].scenario, head, worker[p].retry)
     IN worker' = [worker EXCEPT ![p].commit = head,
                     ![p].pc = IF action = "RUN" THEN "claim" ELSE "exited"]
  /\ UNCHANGED <<head, status, product, driver, starts>>

Claim(p) ==
  /\ worker[p].pc = "claim"
  /\ status' = [status EXCEPT ![worker[p].scenario] =
                  StatusTemplate(worker[p].commit, "RUNNING", p)]
  /\ Advance(p, "execute")
  /\ UNCHANGED <<head, product, driver, starts>>

(* execute_scenario: the simulation, and then its products in their order. *)
WriteProduct(p) ==
  /\ worker[p].pc = "execute" /\ worker[p].written < Cardinality(Products)
  /\ product' = [product EXCEPT ![worker[p].scenario][worker[p].written + 1] = p]
  /\ worker' = [worker EXCEPT ![p].written = @ + 1]
  /\ UNCHANGED <<head, status, driver, starts>>

FailScenario(p) ==
  /\ worker[p].pc = "execute"
  /\ status' = [status EXCEPT ![worker[p].scenario] =
                  StatusTemplate(worker[p].commit, "FAILED", p)]
  /\ Advance(p, "exited")
  /\ UNCHANGED <<head, product, driver, starts>>

(* Mutant: COMPLETED is written before the last product.                   *)
MayCompleteEarly(p) == worker[p].written > 0

MayComplete(p) == worker[p].written = Cardinality(Products)

Complete(p) ==
  /\ worker[p].pc = "execute" /\ MayComplete(p)
  /\ status' = [status EXCEPT ![worker[p].scenario] =
                  StatusTemplate(worker[p].commit, "COMPLETED", p)]
  /\ Advance(p, "exited")
  /\ UNCHANGED <<head, product, driver, starts>>

KillWorker(p) ==
  /\ Alive(p)
  /\ Advance(p, "exited")
  /\ UNCHANGED <<head, status, product, driver, starts>>

(* The work tree moves to another commit.                                  *)
Commit ==
  /\ head < MaxHead
  /\ head' = head + 1
  /\ UNCHANGED <<status, product, worker, driver, starts>>

DriverStep == \/ Partition \/ WritePending \/ Launch \/ EndBatch
              \/ \E p \in DOMAIN worker : Poll(p)

WorkerStep(p) == p \in DOMAIN worker /\ ( \/ Check(p) \/ Claim(p) \/ WriteProduct(p)
                                          \/ FailScenario(p) \/ Complete(p) )

Next == \/ StartBatch \/ DriverStep \/ CrashDriver \/ Commit
        \/ \E p \in Pids : WorkerStep(p)
        \/ \E p \in DOMAIN worker : KillWorker(p)

Spec == Init /\ [][Next]_vars

(* The driver polls for ever (with memory free whenever a launch is due),  *)
(* and a simulation ends: every scenario is executed under a runtime guard. *)
Fairness == WF_vars(DriverStep) /\ \A p \in Pids : WF_vars(WorkerStep(p))
FairSpec == Spec /\ Fairness

-----------------------------------------------------------------------------
(* The pieces of state are of their kinds: a row is launched or waiting in *)
(* the driver's tables, never both, and no row waits twice                 *)
(* (final_experiment_runner.py:900-937).                                   *)
TypeOK ==
  /\ head \in 1..MaxHead /\ starts \in 0..MaxStarts
  /\ status \in [Scenarios -> Status]
  /\ product \in [Scenarios -> [Products -> Pids \cup {NoPid}]]
  /\ worker \in Seq(Worker) /\ Len(worker) <= MaxWorkers
  /\ driver.pc \in DriverPc /\ driver.commit \in 0..MaxHead
  /\ driver.retry \in BOOLEAN /\ driver.selected \subseteq Scenarios
  /\ driver.rows \in Seq(Scenarios)
  /\ driver.running \subseteq DOMAIN worker
  /\ driver.pending \in Seq(Scenarios) /\ IsInjective(driver.pending)
  /\ \A p \in driver.running : worker[p].scenario \notin ToSet(driver.pending)

(* At no time do two processes work on one scenario: they would write the  *)
(* same files (final_experiment_runner.py:890, 786).                       *)
Working(p) == worker[p].pc \in {"claim", "execute"}
OneWorkerPerScenario ==
  \A p, q \in DOMAIN worker :
    Working(p) /\ Working(q) /\ worker[p].scenario = worker[q].scenario => p = q

(* A scenario that is COMPLETED, and so skipped by later batches of its    *)
(* commit, has all its products, from the one worker that reported it, and *)
(* that worker ran the commit the status names: a retry after a failure    *)
(* leaves no product of the failed attempt behind.                         *)
CompletedIsWhole ==
  \A s \in Scenarios : status[s].state = "COMPLETED" =>
    \A i \in Products :
      /\ product[s][i] = status[s].pid
      /\ worker[product[s][i]].commit = status[s].commit

(* When a batch has ended, completed + failed accounts for every scenario  *)
(* it selected: none is left PENDING or RUNNING, whatever its worker died  *)
(* of (final_experiment_runner.py:945-970).                                *)
BatchAccounted ==
  driver.pc = "done" =>
    \A s \in driver.selected : status[s].state \in {"COMPLETED", "FAILED"}

(* What the batch leaves on disk can be believed, and what it reports.     *)
BatchIsSound == TypeOK /\ OneWorkerPerScenario /\ CompletedIsWhole /\ BatchAccounted

(* The status files follow the life cycle of ScenarioLifecycle: a worker   *)
(* starts only on what was submitted, and completion is final, under every *)
(* interleaving of the driver with its workers.                            *)
Lifecycle == INSTANCE ScenarioLifecycle WITH
  Workers <- Pids, NoWorker <- NoPid,
  state <- [s \in Scenarios |-> status[s].state],
  owner <- [s \in Scenarios |-> status[s].pid]
LifecycleSpec == Lifecycle!Spec

(* A batch that has begun to launch comes to its end: a worker that dies,  *)
(* refuses to start or fails never keeps its slot.                         *)
BatchEnds == driver.pc = "loop" ~> driver.pc \in {"done", "idle"}
=============================================================================
