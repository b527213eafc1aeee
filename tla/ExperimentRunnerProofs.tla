----------------------- MODULE ExperimentRunnerProofs ------------------------
(***************************************************************************)
(* What the batch driver and its workers leave on disk, for any registry,  *)
(* phases, number of products, parallelism and number of batches, as long  *)
(* as workers do not outlive their driver.                                 *)
(***************************************************************************)
EXTENDS ExperimentRunner, TLAPS, FiniteSetTheorems, SequenceTheorems, WellFoundedInduction

(* The driver runs in a process group that is killed as a whole.  The run  *)
(* driver_crash shows that the theorems need it.                           *)
WorkersDieWithDriver == ~OrphansSurvive

Driver == [pc : DriverPc, commit : 0..MaxHead, retry : BOOLEAN,
           selected : SUBSET Scenarios, rows : Seq(Scenarios),
           pending : Seq(Scenarios), running : SUBSET Pids]

Types ==
  /\ head \in 1..MaxHead /\ starts \in 0..MaxStarts
  /\ status \in [Scenarios -> Status]
  /\ product \in [Scenarios -> [Products -> Pids \cup {NoPid}]]
  /\ worker \in Seq(Worker) /\ Len(worker) <= MaxWorkers
  /\ driver \in Driver /\ driver.running \subseteq DOMAIN worker

(* The tables of the driver: what waits and what runs are disjoint, and    *)
(* only a driver that is launching has any of it running.                  *)
TablesFit ==
  /\ IsInjective(driver.rows) /\ IsInjective(driver.pending)
  /\ ToSet(driver.rows) \cap ToSet(driver.pending) = {}
  /\ driver.pc # "partition" => driver.rows = <<>> \/ driver.pc = "refused"
  /\ driver.pc \in {"idle", "done", "refused"} =>
       driver.pending = <<>> /\ driver.running = {}
  /\ driver.pc = "partition" => driver.running = {}
  /\ driver.pc = "launch" =>
       driver.pending # <<>> /\ status[Head(driver.pending)].state = "PENDING"
  /\ \A p \in driver.running : worker[p].scenario \notin ToSet(driver.pending)
  /\ \A p, q \in driver.running : worker[p].scenario = worker[q].scenario => p = q

(* What waits to be launched may be run.                                   *)
PendingFits ==
  \A s \in ToSet(driver.pending) : status[s].state \in {"ABSENT", "PENDING", "FAILED"}

(* A process that lives is in the running table, and the status of its     *)
(* scenario is where its own step has brought it.                          *)
WorkerFits(p) ==
  /\ worker[p].pc # "exited" => p \in driver.running
  /\ worker[p].pc \in {"check", "claim"} =>
       status[worker[p].scenario].state = "PENDING" /\ worker[p].written = 0
  /\ worker[p].pc = "execute" =>
       /\ status[worker[p].scenario] =
            StatusTemplate(worker[p].commit, "RUNNING", p)
       /\ worker[p].written <= Cardinality(Products)
       /\ \A i \in Products : i <= worker[p].written => product[worker[p].scenario][i] = p

RunningFits == \A p \in driver.running : status[worker[p].scenario].state # "ABSENT"

(* A completed scenario is the work of one process that has ended.         *)
CompletedFits(s) ==
  status[s].state = "COMPLETED" =>
    /\ status[s].pid \in DOMAIN worker /\ worker[status[s].pid].pc = "exited"
    /\ worker[status[s].pid].commit = status[s].commit
    /\ \A i \in Products : product[s][i] = status[s].pid

(* Nothing that a batch selected is lost from its tables before it ends.   *)
Accounted(s) ==
  \/ s \in ToSet(driver.rows) \/ s \in ToSet(driver.pending)
  \/ \E p \in driver.running : worker[p].scenario = s
  \/ status[s].state \in {"COMPLETED", "FAILED"}

NothingLost ==
  driver.pc \in {"partition", "loop", "launch", "done"} =>
    \A s \in driver.selected : Accounted(s)

IInv ==
  /\ Types /\ TablesFit /\ PendingFits /\ RunningFits /\ NothingLost
  /\ \A p \in DOMAIN worker : WorkerFits(p)
  /\ \A s \in Scenarios : CompletedFits(s)

-----------------------------------------------------------------------------
(* Sequences as tables: what Append and Tail do to their rows.             *)

LEMMA AppendRows ==
  ASSUME NEW S, NEW rows \in Seq(S), NEW e \in S
  PROVE  /\ Append(rows, e) \in Seq(S)
         /\ ToSet(Append(rows, e)) = ToSet(rows) \cup {e}
         /\ IsInjective(rows) /\ e \notin ToSet(rows) => IsInjective(Append(rows, e))
<1>1. /\ Append(rows, e) \in Seq(S) /\ Len(rows) \in Nat
      /\ DOMAIN rows = 1..Len(rows) /\ DOMAIN Append(rows, e) = 1..(Len(rows) + 1)
      /\ \A i \in 1..Len(rows) : Append(rows, e)[i] = rows[i]
      /\ Append(rows, e)[Len(rows) + 1] = e
  OBVIOUS
<1>2. ToSet(Append(rows, e)) = ToSet(rows) \cup {e}
  BY <1>1 DEF ToSet
<1>3. ASSUME IsInjective(rows), e \notin ToSet(rows)
      PROVE  IsInjective(Append(rows, e))
  BY <1>1, <1>3 DEF ToSet, IsInjective
<1>4. QED
  BY <1>1, <1>2, <1>3

LEMMA TailRows ==
  ASSUME NEW S, NEW rows \in Seq(S), rows # <<>>
  PROVE  /\ Head(rows) \in S /\ Head(rows) \in ToSet(rows) /\ Tail(rows) \in Seq(S)
         /\ ToSet(rows) = ToSet(Tail(rows)) \cup {Head(rows)}
         /\ IsInjective(rows) => IsInjective(Tail(rows)) /\ Head(rows) \notin ToSet(Tail(rows))
<1>1. /\ Len(rows) \in Nat /\ Len(rows) # 0 /\ Head(rows) = rows[1] /\ Tail(rows) \in Seq(S)
      /\ DOMAIN rows = 1..Len(rows) /\ DOMAIN Tail(rows) = 1..(Len(rows) - 1)
      /\ \A i \in 1..(Len(rows) - 1) : Tail(rows)[i] = rows[i + 1]
  OBVIOUS
<1>2. Head(rows) \in S /\ Head(rows) \in ToSet(rows)
  BY <1>1 DEF ToSet
<1>3. ToSet(Tail(rows)) \subseteq ToSet(rows)
  BY <1>1 DEF ToSet
<1>4. ASSUME NEW x \in ToSet(rows), x # Head(rows)
      PROVE  x \in ToSet(Tail(rows))
  <2>1. PICK i \in 1..Len(rows) : x = rows[i]
    BY <1>1 DEF ToSet
  <2>2. i - 1 \in 1..(Len(rows) - 1) /\ (i - 1) + 1 = i
    BY <1>1, <1>4, <2>1
  <2>3. x = Tail(rows)[i - 1]
    BY <1>1, <2>1, <2>2
  <2>4. QED
    BY <1>1, <2>2, <2>3 DEF ToSet
<1>5. ASSUME IsInjective(rows)
      PROVE  IsInjective(Tail(rows)) /\ Head(rows) \notin ToSet(Tail(rows))
  <2>1. \A i, j \in 1..Len(rows) : rows[i] = rows[j] => i = j
    BY <1>1, <1>5 DEF IsInjective
  <2>2. IsInjective(Tail(rows))
    BY <1>1, <2>1 DEF IsInjective
  <2>3. \A i \in 1..(Len(rows) - 1) : Tail(rows)[i] # rows[1]
    BY <1>1, <2>1
  <2>4. QED
    BY <1>1, <2>2, <2>3 DEF ToSet
<1>6. QED
  BY <1>1, <1>2, <1>3, <1>4, <1>5

LEMMA NoRows == ToSet(<<>>) = {} /\ IsInjective(<<>>)
BY DEF ToSet, IsInjective

-----------------------------------------------------------------------------
(* The selection of a phase.                                               *)

(* Every nonempty set of naturals has a least element.                     *)
Below == {mn \in Nat \X Nat : mn[1] < mn[2]}

LEMMA LeastElement ==
  ASSUME NEW S \in SUBSET Nat, S # {}
  PROVE  \E m \in S : \A n \in S : ~(n < m)
<1>1. Below = OpToRel(<, Nat)
  BY DEF Below, OpToRel
<1>2. IsWellFoundedOn(Below, Nat)
  BY <1>1, NatLessThanWellFounded
<1>3. \E m \in S : \A n \in S : ~(<<n, m>> \in Below)
  BY <1>2, WFMin
<1>4. QED
  BY <1>3 DEF Below

(* PhaseRows is the function its recursive definition describes.           *)
Selects(rows, phase, m) ==
  rows = [n \in 0..m |->
            IF n = 0 THEN <<>>
            ELSE IF Registry[n] \in phase THEN Append(rows[n - 1], Registry[n])
            ELSE rows[n - 1]]

LEMMA PhaseRowsUnfolds ==
  ASSUME NEW phase
  PROVE  Selects(PhaseRows(phase), phase, Len(Registry))
<1> DEFINE undefined == {m \in 0..Len(Registry) : ~ \E rows : Selects(rows, phase, m)}
<1>0. Len(Registry) \in Nat
  BY RunnerAssumption
<1>1. undefined = {}
  <2> SUFFICES ASSUME undefined # {} PROVE FALSE
    OBVIOUS
  <2>1. undefined \in SUBSET Nat
    OBVIOUS
  <2>2. PICK m \in undefined : \A n \in undefined : ~(n < m)
    BY <2>1, LeastElement
  <2>3. CASE m = 0
    <3>1. Selects([n \in 0..0 |-> <<>>], phase, 0)
      BY DEF Selects
    <3>2. QED
      BY <2>2, <2>3, <3>1
  <2>4. CASE m # 0
    <3> DEFINE next(f, n) == IF n = 0 THEN <<>>
                             ELSE IF Registry[n] \in phase THEN Append(f[n - 1], Registry[n])
                             ELSE f[n - 1]
    <3>1. m \in Nat /\ m - 1 \in 0..Len(Registry) /\ m - 1 < m
      BY <1>0, <2>1, <2>2, <2>4
    <3>2. PICK f : Selects(f, phase, m - 1)
      BY <2>2, <3>1
    <3>3. f = [n \in 0..(m - 1) |-> next(f, n)]
      BY <3>2 DEF Selects
    <3> DEFINE g == [n \in 0..m |-> next(f, n)]
    <3>4. \A n \in 0..m : n # 0 => g[n - 1] = f[n - 1]
      <4> HIDE DEF next
      <4>1. QED
        BY <3>1, <3>3
    <3>5. \A n \in 0..m : next(g, n) = next(f, n)
      <4> HIDE DEF g
      <4>1. QED
        BY <3>4
    <3>6. g = [n \in 0..m |-> next(g, n)]
      <4> HIDE DEF next
      <4>1. QED
        BY <3>5, Zenon
    <3>7. Selects(g, phase, m)
      BY <3>6 DEF Selects
    <3>8. QED
      BY <2>2, <3>7
  <2>5. QED
    BY <2>3, <2>4
<1>2. Len(Registry) \in 0..Len(Registry)
  BY <1>0
<1>3. \E rows : Selects(rows, phase, Len(Registry))
  BY <1>1, <1>2
<1>4. PhaseRows(phase) = CHOOSE rows : Selects(rows, phase, Len(Registry))
  BY Zenon DEF PhaseRows, Selects
<1>5. QED
  BY <1>3, <1>4

(* A batch works on exactly the rows of its phase, each once.              *)
RowsBelow(n) == {Registry[i] : i \in 1..n}

SelectsRows(rows, phase, n) ==
  /\ rows \in Seq(Scenarios) /\ IsInjective(rows)
  /\ ToSet(rows) = RowsBelow(n) \cap phase

LEMMA SelectionIsPhase ==
  ASSUME NEW phase \in Phases
  PROVE  /\ Selection(phase) \in Seq(Scenarios) /\ IsInjective(Selection(phase))
         /\ ToSet(Selection(phase)) = phase /\ phase \in SUBSET Scenarios
<1> DEFINE rows == PhaseRows(phase)
           bad == {n \in 0..Len(Registry) : ~SelectsRows(rows[n], phase, n)}
<1>0. /\ Registry \in Seq(Scenarios) /\ Len(Registry) \in Nat
      /\ DOMAIN Registry = 1..Len(Registry)
      /\ \A i \in 1..Len(Registry) : Registry[i] \in Scenarios
      /\ \A i, j \in 1..Len(Registry) : Registry[i] = Registry[j] => i = j
  BY RunnerAssumption DEF IsInjective
<1>1. Selects(rows, phase, Len(Registry))
  BY PhaseRowsUnfolds
<1> HIDE DEF rows
<1>2. \A n \in 0..Len(Registry) :
        rows[n] = IF n = 0 THEN <<>>
                  ELSE IF Registry[n] \in phase THEN Append(rows[n - 1], Registry[n])
                  ELSE rows[n - 1]
  BY <1>1 DEF Selects
<1>3. bad = {}
  <2> SUFFICES ASSUME bad # {} PROVE FALSE
    OBVIOUS
  <2>1. bad \in SUBSET Nat
    OBVIOUS
  <2>2. PICK m \in bad : \A n \in bad : ~(n < m)
    BY <2>1, LeastElement
  <2>3. m # 0
    <3>1. rows[0] = <<>> /\ <<>> \in Seq(Scenarios) /\ RowsBelow(0) = {}
      BY <1>0, <1>2 DEF RowsBelow
    <3>2. SelectsRows(rows[0], phase, 0)
      BY <3>1, NoRows DEF SelectsRows
    <3>3. QED
      BY <2>2, <3>2
  <2>4. m - 1 \in 0..Len(Registry) /\ m - 1 < m /\ m \in 1..Len(Registry)
    BY <1>0, <2>1, <2>2, <2>3
  <2>5. SelectsRows(rows[m - 1], phase, m - 1)
    BY <2>2, <2>4
  <2>6. RowsBelow(m) = RowsBelow(m - 1) \cup {Registry[m]}
    BY <2>4 DEF RowsBelow
  <2>7. Registry[m] \notin RowsBelow(m - 1)
    BY <1>0, <2>4 DEF RowsBelow
  <2>8. CASE Registry[m] \in phase
    <3>1. rows[m] = Append(rows[m - 1], Registry[m]) /\ Registry[m] \in Scenarios
      BY <1>0, <1>2, <2>2, <2>3, <2>4, <2>8
    <3>2. SelectsRows(rows[m], phase, m)
      BY <2>5, <2>6, <2>7, <2>8, <3>1, AppendRows DEF SelectsRows
    <3>3. QED
      BY <2>2, <3>2
  <2>9. CASE Registry[m] \notin phase
    <3>1. rows[m] = rows[m - 1]
      BY <1>0, <1>2, <2>4, <2>9
    <3>2. SelectsRows(rows[m], phase, m)
      BY <2>5, <2>6, <2>9, <3>1 DEF SelectsRows
    <3>3. QED
      BY <2>2, <3>2
  <2>10. QED
    BY <2>8, <2>9
<1>4. SelectsRows(rows[Len(Registry)], phase, Len(Registry))
  BY <1>0, <1>3
<1>5. ToSet(Registry) = RowsBelow(Len(Registry)) /\ phase \subseteq ToSet(Registry)
  BY <1>0, RunnerAssumption DEF ToSet, RowsBelow
<1>6. phase \subseteq Scenarios
  BY <1>0, <1>5 DEF RowsBelow
<1>7. QED
  BY <1>4, <1>5, <1>6 DEF Selection, SelectsRows, rows

-----------------------------------------------------------------------------
(* The kinds of state, written out.                                        *)

LEMMA Bounds == MaxWorkers \in Nat /\ NoPid \notin Pids
<1>1. Len(Registry) \in Nat /\ MaxStarts \in Nat
  BY RunnerAssumption
<1>2. MaxStarts * Len(Registry) \in Nat
  BY <1>1
<1>3. QED
  BY <1>2, RunnerAssumption DEF NoPid, Pids

LEMMA DriverKinds ==
  ASSUME Types
  PROVE  /\ driver.pc \in DriverPc /\ driver.commit \in 0..MaxHead /\ driver.retry \in BOOLEAN
         /\ driver.selected \in SUBSET Scenarios
         /\ driver.rows \in Seq(Scenarios) /\ driver.pending \in Seq(Scenarios)
         /\ driver.running \in SUBSET Pids /\ driver.running \subseteq DOMAIN worker
BY DEF Types, Driver

LEMMA WorkerKinds ==
  ASSUME Types
  PROVE  /\ Len(worker) \in Nat /\ DOMAIN worker = 1..Len(worker) /\ DOMAIN worker \subseteq Pids
         /\ \A p \in DOMAIN worker :
              /\ worker[p] \in Worker /\ worker[p].scenario \in Scenarios
              /\ worker[p].pc \in WorkerPc /\ worker[p].commit \in 0..MaxHead
              /\ worker[p].retry \in BOOLEAN /\ worker[p].written \in Nat
<1>1. /\ worker \in Seq(Worker) /\ Len(worker) <= MaxWorkers /\ Len(worker) \in Nat
      /\ DOMAIN worker = 1..Len(worker)
  BY DEF Types
<1>2. \A p \in DOMAIN worker : worker[p] \in Worker
  BY <1>1
<1>3. DOMAIN worker \subseteq Pids
  BY <1>1, Bounds DEF Pids
<1>4. QED
  BY <1>1, <1>2, <1>3 DEF Worker

(* One process changes: the others, and the number of them, stay.          *)
LEMMA WorkerBecomes ==
  ASSUME Types, NEW p \in DOMAIN worker, NEW w \in Worker,
         worker' = [worker EXCEPT ![p] = w]
  PROVE  /\ worker' \in Seq(Worker) /\ Len(worker') = Len(worker)
         /\ DOMAIN worker' = DOMAIN worker /\ worker'[p] = w
         /\ \A q \in DOMAIN worker : q # p => worker'[q] = worker[q]
BY DEF Types

LEMMA Advances ==
  ASSUME Types, NEW p \in DOMAIN worker, NEW pc \in WorkerPc, Advance(p, pc)
  PROVE  /\ worker' \in Seq(Worker) /\ Len(worker') = Len(worker)
         /\ DOMAIN worker' = DOMAIN worker
         /\ worker'[p].pc = pc /\ worker'[p].scenario = worker[p].scenario
         /\ worker'[p].commit = worker[p].commit /\ worker'[p].written = worker[p].written
         /\ \A q \in DOMAIN worker : q # p => worker'[q] = worker[q]
<1> DEFINE w == [worker[p] EXCEPT !.pc = pc]
<1>1. worker[p] \in Worker
  BY WorkerKinds
<1>2. /\ w \in Worker /\ w.pc = pc /\ w.scenario = worker[p].scenario
      /\ w.commit = worker[p].commit /\ w.written = worker[p].written
  BY <1>1 DEF Worker
<1>3. worker' = [worker EXCEPT ![p] = w]
  BY DEF Advance
<1> HIDE DEF w
<1>4. QED
  BY <1>2, <1>3, WorkerBecomes

-----------------------------------------------------------------------------
LEMMA InitFits == Init => IInv
<1> SUFFICES ASSUME Init PROVE IInv
  OBVIOUS
<1>1. head \in 1..MaxHead /\ starts \in 0..MaxStarts
  BY RunnerAssumption DEF Init
<1>2. NoStatus \in Status
  BY RunnerAssumption DEF NoStatus, Status, State
<1>3. status \in [Scenarios -> Status] /\ \A s \in Scenarios : status[s] = NoStatus
  BY <1>2 DEF Init
<1>4. product \in [Scenarios -> [Products -> Pids \cup {NoPid}]]
  BY DEF Init
<1>5. worker = <<>> /\ worker \in Seq(Worker) /\ Len(worker) = 0 /\ DOMAIN worker = {}
  BY DEF Init
<1>6. /\ driver.pc = "idle" /\ driver.rows = <<>> /\ driver.pending = <<>>
      /\ driver.running = {} /\ driver.selected = {}
  BY DEF Init, Idle
<1>7. driver \in Driver
  BY RunnerAssumption DEF Init, Idle, Driver, DriverPc
<1>8. Types
  BY <1>1, <1>3, <1>4, <1>5, <1>6, <1>7, Bounds DEF Types
<1>9. TablesFit /\ PendingFits /\ RunningFits /\ NothingLost
  BY <1>6, NoRows DEF TablesFit, PendingFits, RunningFits, NothingLost
<1>10. \A p \in DOMAIN worker : WorkerFits(p)
  BY <1>5
<1>11. \A s \in Scenarios : CompletedFits(s)
  BY <1>3 DEF CompletedFits, NoStatus
<1>12. QED
  BY <1>8, <1>9, <1>10, <1>11 DEF IInv

-----------------------------------------------------------------------------
(* The steps of a worker.  A process that lives is alone with its          *)
(* scenario: what it writes there concerns no other process, and no row    *)
(* that waits.                                                             *)
LEMMA WorkerActs ==
  ASSUME IInv, Types', UNCHANGED driver, NEW p \in DOMAIN worker,
         NEW s \in Scenarios, worker[p].scenario = s,
         worker[p].pc # "exited", DOMAIN worker' = DOMAIN worker,
         worker'[p].scenario = s,
         \A q \in DOMAIN worker : q # p => worker'[q] = worker[q],
         \A t \in Scenarios : t # s => status'[t] = status[t] /\ product'[t] = product[t],
         status'[s].state # "ABSENT", WorkerFits(p)', CompletedFits(s)'
  PROVE  IInv'
<1>1. /\ Types /\ TablesFit /\ PendingFits /\ RunningFits /\ NothingLost
      /\ \A q \in DOMAIN worker : WorkerFits(q)
      /\ \A t \in Scenarios : CompletedFits(t)
  BY DEF IInv
<1>2. p \in driver.running
  BY <1>1 DEF WorkerFits
<1>3. \A q \in DOMAIN worker : worker'[q].scenario = worker[q].scenario
  OBVIOUS
<1>4. driver.running \subseteq DOMAIN worker /\ driver.pending \in Seq(Scenarios)
  BY <1>1, DriverKinds
<1>5. ToSet(driver.pending) \subseteq Scenarios /\ worker[p].scenario \notin ToSet(driver.pending)
  BY <1>1, <1>2, <1>4 DEF ToSet, TablesFit
<1>6. \A t \in ToSet(driver.pending) : status'[t] = status[t]
  BY <1>5
<1>7. driver.pending # <<>> => Head(driver.pending) \in ToSet(driver.pending)
  BY <1>4, TailRows
<1>8. TablesFit'
  BY <1>1, <1>3, <1>4, <1>6, <1>7 DEF TablesFit
<1>9. PendingFits'
  BY <1>1, <1>6 DEF PendingFits
<1>10. RunningFits'
  <2> SUFFICES ASSUME NEW q \in driver.running
               PROVE  status'[worker'[q].scenario].state # "ABSENT"
    BY DEF RunningFits
  <2>1. worker[q].scenario \in Scenarios
    BY <1>1, <1>4, WorkerKinds
  <2>2. QED
    BY <1>1, <1>3, <1>4, <2>1 DEF RunningFits
<1>11. NothingLost'
  <2> SUFFICES ASSUME driver.pc \in {"partition", "loop", "launch", "done"},
                      NEW t \in driver.selected
               PROVE  Accounted(t)'
    BY DEF NothingLost
  <2>1. Accounted(t) /\ t \in Scenarios
    BY <1>1, DriverKinds DEF NothingLost
  <2>2. CASE t = s
    BY <1>2, <1>3, <1>4, <2>2 DEF Accounted
  <2>3. CASE t # s
    BY <1>3, <1>4, <2>1, <2>3 DEF Accounted
  <2>4. QED
    BY <2>2, <2>3
<1>12. ASSUME NEW q \in DOMAIN worker, q # p
       PROVE  WorkerFits(q)'
  <2>1. WorkerFits(q) /\ worker'[q] = worker[q] /\ worker[q].scenario \in Scenarios
    BY <1>1, <1>12, WorkerKinds
  <2>2. CASE worker[q].pc = "exited"
    BY <2>1, <2>2 DEF WorkerFits
  <2>3. CASE worker[q].pc # "exited"
    <3>1. q \in driver.running
      BY <2>1, <2>3 DEF WorkerFits
    <3>2. worker[q].scenario # worker[p].scenario
      BY <1>1, <1>2, <1>12, <3>1 DEF TablesFit
    <3>3. /\ status'[worker[q].scenario] = status[worker[q].scenario]
          /\ product'[worker[q].scenario] = product[worker[q].scenario]
      BY <2>1, <3>2
    <3>4. QED
      BY <2>1, <3>1, <3>3 DEF WorkerFits
  <2>4. QED
    BY <2>2, <2>3
<1>13. ASSUME NEW t \in Scenarios, t # s
       PROVE  CompletedFits(t)'
  <2>1. CompletedFits(t) /\ status'[t] = status[t] /\ product'[t] = product[t]
    BY <1>1, <1>13
  <2>2. QED
    BY <2>1 DEF CompletedFits
<1>14. QED
  BY <1>8, <1>9, <1>10, <1>11, <1>12, <1>13 DEF IInv

LEMMA CheckKeeps ==
  ASSUME IInv, NEW p \in DOMAIN worker, Check(p)
  PROVE  IInv'
<1> DEFINE next == IF ResumeAction(worker[p].scenario, head, worker[p].retry) = "RUN"
                   THEN "claim" ELSE "exited"
           w == [worker[p] EXCEPT !.commit = head, !.pc = next]
<1>0. PICK s \in Scenarios : s = worker[p].scenario
  BY WorkerKinds DEF IInv
<1>1. Types /\ WorkerFits(p) /\ CompletedFits(s) /\ worker[p] \in Worker
  BY WorkerKinds DEF IInv
<1>2. worker[p].pc = "check" /\ UNCHANGED <<head, status, product, driver, starts>>
  BY DEF Check
<1>3. worker' = [worker EXCEPT ![p] = w]
  BY DEF Check
<1>4. next \in {"claim", "exited"} /\ head \in 0..MaxHead
  BY <1>1 DEF Types
<1> HIDE DEF next
<1>5. /\ w \in Worker /\ w.pc = next /\ w.scenario = s
      /\ w.written = worker[p].written
  BY <1>0, <1>1, <1>4 DEF Worker, WorkerPc
<1> HIDE DEF w
<1>6. /\ worker' \in Seq(Worker) /\ Len(worker') = Len(worker)
      /\ DOMAIN worker' = DOMAIN worker /\ worker'[p] = w
      /\ \A q \in DOMAIN worker : q # p => worker'[q] = worker[q]
  BY <1>1, <1>3, <1>5, WorkerBecomes
<1>7. Types'
  BY <1>1, <1>2, <1>6 DEF Types
<1>8. status[s].state = "PENDING"
  BY <1>0, <1>1, <1>2 DEF WorkerFits
<1>9. WorkerFits(p)'
  BY <1>1, <1>2, <1>4, <1>5, <1>6, <1>8 DEF WorkerFits
<1>10. CompletedFits(s)'
  BY <1>2, <1>8 DEF CompletedFits
<1>11. QED
  BY <1>0, <1>1, <1>2, <1>5, <1>6, <1>7, <1>8, <1>9, <1>10, WorkerActs

(* A worker writes the status file of its scenario and goes on.            *)
LEMMA WritesStatus ==
  ASSUME Types, NEW s \in Scenarios, NEW c \in 0..MaxHead, NEW st \in State,
         NEW p \in Pids \cup {NoPid},
         status' = [status EXCEPT ![s] = StatusTemplate(c, st, p)]
  PROVE  /\ status' \in [Scenarios -> Status]
         /\ status'[s] = StatusTemplate(c, st, p)
         /\ status'[s].state = st /\ status'[s].commit = c /\ status'[s].pid = p
         /\ \A t \in Scenarios : t # s => status'[t] = status[t]
<1>1. StatusTemplate(c, st, p) \in Status
  BY DEF StatusTemplate, Status
<1>2. status' \in [Scenarios -> Status] /\ status'[s] = StatusTemplate(c, st, p)
      /\ \A t \in Scenarios : t # s => status'[t] = status[t]
  BY <1>1 DEF Types
<1>3. QED
  BY <1>2 DEF StatusTemplate

LEMMA ClaimKeeps ==
  ASSUME IInv, NEW p \in DOMAIN worker, Claim(p)
  PROVE  IInv'
<1>0. PICK s \in Scenarios : s = worker[p].scenario
  BY WorkerKinds DEF IInv
<1>1. /\ Types /\ WorkerFits(p) /\ worker[p].commit \in 0..MaxHead
      /\ p \in Pids
  BY WorkerKinds DEF IInv
<1>2. /\ worker[p].pc = "claim" /\ UNCHANGED <<head, product, driver, starts>>
      /\ status' = [status EXCEPT ![s] = StatusTemplate(worker[p].commit, "RUNNING", p)]
      /\ Advance(p, "execute")
  BY <1>0 DEF Claim
<1>3. /\ status' \in [Scenarios -> Status]
      /\ status'[s] = StatusTemplate(worker[p].commit, "RUNNING", p)
      /\ status'[s].state = "RUNNING"
      /\ \A t \in Scenarios : t # s => status'[t] = status[t]
  BY <1>0, <1>1, <1>2, WritesStatus DEF State
<1>4. /\ worker' \in Seq(Worker) /\ Len(worker') = Len(worker) /\ DOMAIN worker' = DOMAIN worker
      /\ worker'[p].pc = "execute" /\ worker'[p].scenario = worker[p].scenario
      /\ worker'[p].commit = worker[p].commit /\ worker'[p].written = worker[p].written
      /\ \A q \in DOMAIN worker : q # p => worker'[q] = worker[q]
  BY <1>0, <1>1, <1>2, Advances DEF WorkerPc
<1>5. Types'
  BY <1>0, <1>1, <1>2, <1>3, <1>4 DEF Types
<1>6. worker[p].written = 0
  BY <1>0, <1>1, <1>2 DEF WorkerFits
<1>7. WorkerFits(p)'
  <2>1. Cardinality(Products) \in Nat /\ \A i \in Products : ~(i <= 0)
    BY RunnerAssumption, FS_CardinalityType
  <2>2. QED
    BY <1>0, <1>1, <1>2, <1>3, <1>4, <1>6, <2>1 DEF WorkerFits
<1>8. CompletedFits(s)'
  BY <1>3 DEF CompletedFits
<1>9. QED
  BY <1>0, <1>1, <1>2, <1>3, <1>4, <1>5, <1>7, <1>8, WorkerActs

LEMMA WriteProductKeeps ==
  ASSUME IInv, NEW p \in DOMAIN worker, WriteProduct(p)
  PROVE  IInv'
<1>0. PICK s \in Scenarios : s = worker[p].scenario
  BY WorkerKinds DEF IInv
<1> DEFINE n == worker[p].written + 1
           w == [worker[p] EXCEPT !.written = n]
           outputs == [product[s] EXCEPT ![n] = p]
<1>1. /\ Types /\ WorkerFits(p) /\ worker[p] \in Worker
      /\ worker[p].written \in Nat /\ p \in Pids
  BY WorkerKinds DEF IInv
<1>2. /\ worker[p].pc = "execute" /\ worker[p].written < Cardinality(Products)
      /\ UNCHANGED <<head, status, driver, starts>>
      /\ product' = [product EXCEPT ![s] = outputs]
      /\ worker' = [worker EXCEPT ![p] = w]
  BY <1>0 DEF WriteProduct
<1>3. Cardinality(Products) \in Nat /\ Products = 1..Cardinality(Products)
  BY RunnerAssumption, FS_CardinalityType
<1>4. n \in Products /\ n <= Cardinality(Products) /\ n \in Nat
  BY <1>0, <1>1, <1>2, <1>3
<1>5. /\ product[s] \in [Products -> Pids \cup {NoPid}]
      /\ outputs \in [Products -> Pids \cup {NoPid}]
      /\ \A i \in Products : outputs[i] = IF i = n THEN p ELSE product[s][i]
  BY <1>1, <1>4 DEF Types
<1>6. /\ w \in Worker /\ w.pc = "execute" /\ w.scenario = s /\ w.written = n
      /\ w.commit = worker[p].commit
  BY <1>0, <1>1, <1>2, <1>4 DEF Worker
<1> HIDE DEF w, outputs
<1>7. /\ product' \in [Scenarios -> [Products -> Pids \cup {NoPid}]] /\ product'[s] = outputs
      /\ \A t \in Scenarios : t # s => product'[t] = product[t]
  BY <1>0, <1>1, <1>2, <1>5 DEF Types
<1>8. /\ worker' \in Seq(Worker) /\ Len(worker') = Len(worker)
      /\ DOMAIN worker' = DOMAIN worker /\ worker'[p] = w
      /\ \A q \in DOMAIN worker : q # p => worker'[q] = worker[q]
  BY <1>0, <1>1, <1>2, <1>6, WorkerBecomes
<1>9. Types'
  BY <1>0, <1>1, <1>2, <1>7, <1>8 DEF Types
<1>10. /\ p \in driver.running /\ status[s] = StatusTemplate(worker[p].commit, "RUNNING", p)
       /\ \A i \in Products : i <= worker[p].written => product[s][i] = p
  BY <1>0, <1>1, <1>2 DEF WorkerFits
<1>11. status'[s].state = "RUNNING"
  BY <1>2, <1>10 DEF StatusTemplate
<1>12. WorkerFits(p)'
  <2>1. \A i \in Products : i <= n => outputs[i] = p
    BY <1>1, <1>3, <1>5, <1>10
  <2>2. QED
    BY <1>2, <1>4, <1>6, <1>7, <1>8, <1>10, <2>1 DEF WorkerFits
<1>13. CompletedFits(s)'
  BY <1>11 DEF CompletedFits
<1>15. QED
  BY <1>0, <1>2, <1>6, <1>7, <1>8, <1>9, <1>11, <1>12, <1>13, WorkerActs

LEMMA FailScenarioKeeps ==
  ASSUME IInv, NEW p \in DOMAIN worker, FailScenario(p)
  PROVE  IInv'
<1>0. PICK s \in Scenarios : s = worker[p].scenario
  BY WorkerKinds DEF IInv
<1>1. /\ Types /\ WorkerFits(p) /\ worker[p].commit \in 0..MaxHead
      /\ p \in Pids
  BY WorkerKinds DEF IInv
<1>2. /\ worker[p].pc = "execute" /\ UNCHANGED <<head, product, driver, starts>>
      /\ status' = [status EXCEPT ![s] = StatusTemplate(worker[p].commit, "FAILED", p)]
      /\ Advance(p, "exited")
  BY <1>0 DEF FailScenario
<1>3. /\ status' \in [Scenarios -> Status] /\ status'[s].state = "FAILED"
      /\ \A t \in Scenarios : t # s => status'[t] = status[t]
  BY <1>0, <1>1, <1>2, WritesStatus DEF State
<1>4. /\ worker' \in Seq(Worker) /\ Len(worker') = Len(worker) /\ DOMAIN worker' = DOMAIN worker
      /\ worker'[p].pc = "exited" /\ worker'[p].scenario = worker[p].scenario
      /\ \A q \in DOMAIN worker : q # p => worker'[q] = worker[q]
  BY <1>0, <1>1, <1>2, Advances DEF WorkerPc
<1>5. Types'
  BY <1>0, <1>1, <1>2, <1>3, <1>4 DEF Types
<1>6. WorkerFits(p)' /\ CompletedFits(s)'
  BY <1>3, <1>4 DEF WorkerFits, CompletedFits
<1>8. QED
  BY <1>0, <1>1, <1>2, <1>3, <1>4, <1>5, <1>6, WorkerActs

LEMMA CompleteKeeps ==
  ASSUME IInv, NEW p \in DOMAIN worker, Complete(p)
  PROVE  IInv'
<1>0. PICK s \in Scenarios : s = worker[p].scenario
  BY WorkerKinds DEF IInv
<1>1. /\ Types /\ WorkerFits(p) /\ worker[p].commit \in 0..MaxHead
      /\ p \in Pids
  BY WorkerKinds DEF IInv
<1>2. /\ worker[p].pc = "execute" /\ worker[p].written = Cardinality(Products)
      /\ UNCHANGED <<head, product, driver, starts>>
      /\ status' = [status EXCEPT ![s] = StatusTemplate(worker[p].commit, "COMPLETED", p)]
      /\ Advance(p, "exited")
  BY <1>0 DEF Complete, MayComplete
<1>3. \A i \in Products : product[s][i] = p
  <2>1. \A i \in Products : i <= worker[p].written => product[s][i] = p
    BY <1>0, <1>1, <1>2 DEF WorkerFits
  <2>2. \A i \in Products : i <= Cardinality(Products)
    BY RunnerAssumption, FS_CardinalityType
  <2>3. QED
    BY <1>2, <2>1, <2>2
<1>4. /\ status' \in [Scenarios -> Status] /\ status'[s].state = "COMPLETED"
      /\ status'[s].pid = p /\ status'[s].commit = worker[p].commit
      /\ \A t \in Scenarios : t # s => status'[t] = status[t]
  <2>1. "COMPLETED" \in State /\ p \in Pids \cup {NoPid}
    BY <1>1 DEF State
  <2>2. PICK c \in 0..MaxHead : c = worker[p].commit
    BY <1>1
  <2>3. status' = [status EXCEPT ![s] = StatusTemplate(c, "COMPLETED", p)]
    BY <1>2, <2>2
  <2>4. QED
    BY <1>1, <2>1, <2>2, <2>3, WritesStatus
<1>5. /\ worker' \in Seq(Worker) /\ Len(worker') = Len(worker) /\ DOMAIN worker' = DOMAIN worker
      /\ worker'[p].pc = "exited" /\ worker'[p].scenario = worker[p].scenario
      /\ worker'[p].commit = worker[p].commit
      /\ \A q \in DOMAIN worker : q # p => worker'[q] = worker[q]
  BY <1>0, <1>1, <1>2, Advances DEF WorkerPc
<1>6. Types'
  BY <1>0, <1>1, <1>2, <1>4, <1>5 DEF Types
<1>7. WorkerFits(p)'
  BY <1>5 DEF WorkerFits
<1>8. CompletedFits(s)'
  BY <1>2, <1>3, <1>4, <1>5 DEF CompletedFits
<1>10. QED
  BY <1>0, <1>1, <1>2, <1>4, <1>5, <1>6, <1>7, <1>8, WorkerActs

LEMMA KillWorkerKeeps ==
  ASSUME IInv, NEW p \in DOMAIN worker, KillWorker(p)
  PROVE  IInv'
<1>0. PICK s \in Scenarios : s = worker[p].scenario
  BY WorkerKinds DEF IInv
<1>1. Types /\ WorkerFits(p) 
  BY WorkerKinds DEF IInv
<1>2. worker[p].pc # "exited" /\ UNCHANGED <<head, status, product, driver, starts>>
      /\ Advance(p, "exited")
  BY <1>0 DEF KillWorker, Alive
<1>3. worker[p].pc \in {"check", "claim", "execute"}
  BY <1>0, <1>1, <1>2, WorkerKinds DEF WorkerPc
<1>4. status[s].state \in {"PENDING", "RUNNING"}
  BY <1>0, <1>1, <1>3 DEF WorkerFits, StatusTemplate
<1>5. /\ worker' \in Seq(Worker) /\ Len(worker') = Len(worker) /\ DOMAIN worker' = DOMAIN worker
      /\ worker'[p].pc = "exited" /\ worker'[p].scenario = worker[p].scenario
      /\ \A q \in DOMAIN worker : q # p => worker'[q] = worker[q]
  BY <1>0, <1>1, <1>2, Advances DEF WorkerPc
<1>6. Types'
  BY <1>0, <1>1, <1>2, <1>5 DEF Types
<1>7. WorkerFits(p)' /\ CompletedFits(s)'
  BY <1>2, <1>4, <1>5 DEF WorkerFits, CompletedFits
<1>9. QED
  BY <1>0, <1>1, <1>2, <1>4, <1>5, <1>6, <1>7, WorkerActs

-----------------------------------------------------------------------------
(* The steps of the driver.                                                *)

(* A new batch begins with empty tables, when no process lives.            *)
LEMMA StartBatchKeeps ==
  ASSUME IInv, StartBatch
  PROVE  IInv'
<1>1. /\ Types /\ TablesFit /\ (\A p \in DOMAIN worker : WorkerFits(p))
      /\ (\A s \in Scenarios : CompletedFits(s))
  BY DEF IInv
<1>2. PICK phase \in Phases, resume \in BOOLEAN, retry \in BOOLEAN :
        driver' = [Idle EXCEPT !.pc = IF (\E s \in phase : status[s].state # "ABSENT") /\ ~resume
                                        THEN "refused" ELSE "partition",
                               !.commit = head, !.retry = retry,
                               !.selected = phase, !.rows = Selection(phase)]
  BY DEF StartBatch
<1>3. /\ UNCHANGED <<head, status, product, worker>>
      /\ starts' \in 0..MaxStarts
      /\ driver.running = {}
  BY <1>1, RunnerAssumption DEF StartBatch, Types, TablesFit
<1>4. /\ Selection(phase) \in Seq(Scenarios) /\ IsInjective(Selection(phase))
      /\ ToSet(Selection(phase)) = phase /\ phase \in SUBSET Scenarios
  BY SelectionIsPhase
<1>5. /\ driver'.pc \in {"refused", "partition"} /\ driver'.commit = head
      /\ driver'.retry = retry /\ driver'.selected = phase /\ driver'.rows = Selection(phase)
      /\ driver'.pending = <<>> /\ driver'.running = {}
  BY <1>2 DEF Idle
<1>6. head \in 0..MaxHead
  BY <1>1 DEF Types
<1>7. driver' \in Driver
  <2>1. PICK pc \in {"refused", "partition"} :
          driver' = [pc |-> pc, commit |-> head, retry |-> retry, selected |-> phase,
                     rows |-> Selection(phase), pending |-> <<>>, running |-> {}]
    BY <1>2 DEF Idle
  <2>2. pc \in DriverPc /\ <<>> \in Seq(Scenarios)
    BY DEF DriverPc
  <2>3. QED
    BY <1>4, <1>6, <2>1, <2>2 DEF Driver
<1>8. Types'
  BY <1>1, <1>3, <1>5, <1>7 DEF Types
<1>9. TablesFit'
  BY <1>4, <1>5, NoRows DEF TablesFit
<1>10. PendingFits' /\ RunningFits'
  BY <1>5, NoRows DEF PendingFits, RunningFits
<1>11. NothingLost'
  BY <1>4, <1>5 DEF NothingLost, Accounted
<1>12. \A p \in DOMAIN worker : WorkerFits(p)'
  BY <1>1, <1>3 DEF WorkerFits
<1>13. \A s \in Scenarios : CompletedFits(s)'
  BY <1>1, <1>3 DEF CompletedFits
<1>14. QED
  BY <1>3, <1>8, <1>9, <1>10, <1>11, <1>12, <1>13 DEF IInv

(* A step of the driver that changes no file and no process.               *)
LEMMA OnlyTables ==
  ASSUME IInv, UNCHANGED <<head, status, product, worker, starts>>,
         driver' \in Driver, driver'.running = driver.running,
         TablesFit', PendingFits', NothingLost'
  PROVE  IInv'
<1>1. /\ Types /\ RunningFits /\ (\A p \in DOMAIN worker : WorkerFits(p))
      /\ (\A s \in Scenarios : CompletedFits(s))
  BY DEF IInv
<1>2. Types'
  BY <1>1 DEF Types
<1>3. RunningFits'
  BY <1>1 DEF RunningFits
<1>4. \A p \in DOMAIN worker : WorkerFits(p)'
  BY <1>1 DEF WorkerFits
<1>5. \A s \in Scenarios : CompletedFits(s)'
  BY <1>1 DEF CompletedFits
<1>6. QED
  BY <1>2, <1>3, <1>4, <1>5 DEF IInv

(* The rows are looked at one after another: what is to run waits, what is *)
(* finished is done with, and anything else ends the batch.                *)
LEMMA PartitionKeeps ==
  ASSUME IInv, Partition
  PROVE  IInv'
<1>1. /\ Types /\ TablesFit /\ PendingFits /\ NothingLost
      /\ driver.pc = "partition" /\ UNCHANGED <<head, status, product, worker, starts>>
      /\ driver.running = {}
  BY DEF IInv, Partition, TablesFit
<1>2. /\ driver \in Driver /\ driver.rows \in Seq(Scenarios) /\ driver.pending \in Seq(Scenarios)
      /\ driver.selected \subseteq Scenarios
  BY <1>1, DriverKinds DEF Types
<1>3. CASE driver.rows = <<>>
  <2>1. driver' = [driver EXCEPT !.pc = "loop"]
    BY <1>3 DEF Partition
  <2>2. /\ driver' \in Driver /\ driver'.pc = "loop" /\ driver'.rows = driver.rows
        /\ driver'.pending = driver.pending /\ driver'.running = driver.running
        /\ driver'.selected = driver.selected
    BY <1>2, <2>1 DEF Driver, DriverPc
  <2>3. TablesFit'
    BY <1>1, <1>3, <2>2 DEF TablesFit
  <2>4. PendingFits' /\ NothingLost'
    BY <1>1, <2>2 DEF PendingFits, NothingLost, Accounted
  <2>5. QED
    BY <1>1, <2>2, <2>3, <2>4, OnlyTables
<1>4. CASE driver.rows # <<>>
  <2> DEFINE s == Head(driver.rows)
             action == ResumeAction(s, driver.commit, driver.retry)
             rest == [driver EXCEPT !.rows = Tail(driver.rows)]
  <2>1. /\ s \in Scenarios /\ s \in ToSet(driver.rows) /\ Tail(driver.rows) \in Seq(Scenarios)
        /\ ToSet(driver.rows) = ToSet(Tail(driver.rows)) \cup {s}
        /\ IsInjective(Tail(driver.rows)) /\ s \notin ToSet(Tail(driver.rows))
    BY <1>1, <1>2, <1>4, TailRows DEF TablesFit
  <2>2. driver' = CASE action \in {"ACTIVE", "STALE"} -> [rest EXCEPT !.pc = "refused", !.pending = <<>>]
                    [] action = "RUN" -> [rest EXCEPT !.pending = Append(@, s)]
                    [] OTHER -> rest
    BY <1>4 DEF Partition
  <2>3. status[s].state \in State
    BY <1>1, <2>1 DEF Types, Status
  <2>4. /\ rest \in Driver /\ rest.rows = Tail(driver.rows) /\ rest.pc = "partition"
        /\ rest.pending = driver.pending /\ rest.running = {} /\ rest.selected = driver.selected
    BY <1>1, <1>2, <2>1 DEF Driver
  <2>5. s \notin ToSet(driver.pending)
    BY <1>1, <2>1 DEF TablesFit
  <2>6. action \in {"RUN", "SKIP", "STALE", "ACTIVE", "FAILED"}
    BY <2>3 DEF ResumeAction, State
  <2>7. action = "RUN" => status[s].state \in {"ABSENT", "PENDING", "FAILED"}
    BY <2>3 DEF ResumeAction, State
  <2>8. action \in {"SKIP", "FAILED"} => status[s].state \in {"COMPLETED", "FAILED"}
    BY <2>3 DEF ResumeAction, State
  <2> HIDE DEF action, rest, s
  <2>9. CASE action \in {"ACTIVE", "STALE"}
    <3>1. driver' = [rest EXCEPT !.pc = "refused", !.pending = <<>>]
      BY <2>2, <2>9
    <3>2. /\ driver' \in Driver /\ driver'.pc = "refused" /\ driver'.rows = rest.rows
          /\ driver'.pending = <<>> /\ driver'.running = {}
      <4>1. "refused" \in DriverPc /\ <<>> \in Seq(Scenarios)
        BY DEF DriverPc
      <4>2. driver' \in Driver
        BY <2>4, <3>1, <4>1 DEF Driver
      <4>3. QED
        BY <2>4, <3>1, <4>2 DEF Driver
    <3>3. TablesFit' /\ PendingFits' /\ NothingLost'
      BY <2>1, <2>4, <3>2, NoRows DEF TablesFit, PendingFits, NothingLost
    <3>4. QED
      BY <1>1, <3>2, <3>3, OnlyTables
  <2>10. CASE action = "RUN"
    <3>1. driver' = [rest EXCEPT !.pending = Append(driver.pending, s)]
      BY <2>2, <2>4, <2>10
    <3>2. /\ Append(driver.pending, s) \in Seq(Scenarios)
          /\ ToSet(Append(driver.pending, s)) = ToSet(driver.pending) \cup {s}
          /\ IsInjective(Append(driver.pending, s))
      BY <1>1, <1>2, <2>1, <2>5, AppendRows DEF TablesFit
    <3>3. /\ driver' \in Driver /\ driver'.pc = "partition" /\ driver'.rows = rest.rows
          /\ driver'.pending = Append(driver.pending, s) /\ driver'.running = {}
          /\ driver'.selected = driver.selected
      BY <2>4, <3>1, <3>2 DEF Driver
    <3>4. TablesFit'
      BY <1>1, <2>1, <2>4, <3>2, <3>3 DEF TablesFit
    <3>5. PendingFits'
      BY <1>1, <2>7, <2>10, <3>2, <3>3 DEF PendingFits
    <3>6. NothingLost'
      BY <1>1, <2>1, <2>4, <3>2, <3>3 DEF NothingLost, Accounted
    <3>7. QED
      BY <1>1, <3>3, <3>4, <3>5, <3>6, OnlyTables
  <2>11. CASE action \in {"SKIP", "FAILED"}
    <3>1. driver' = rest
      BY <2>2, <2>11
    <3>2. TablesFit'
      BY <1>1, <2>1, <2>4, <3>1 DEF TablesFit
    <3>3. PendingFits'
      BY <1>1, <2>4, <3>1 DEF PendingFits
    <3>4. NothingLost'
      BY <1>1, <2>1, <2>4, <2>8, <2>11, <3>1 DEF NothingLost, Accounted
    <3>5. QED
      BY <1>1, <2>4, <3>1, <3>2, <3>3, <3>4, OnlyTables
  <2>12. QED
    BY <2>6, <2>9, <2>10, <2>11
<1>5. QED
  BY <1>3, <1>4

LEMMA EndBatchKeeps ==
  ASSUME IInv, EndBatch
  PROVE  IInv'
<1>1. /\ Types /\ TablesFit /\ PendingFits /\ NothingLost
      /\ driver.pc = "loop" /\ driver.pending = <<>> /\ driver.running = {}
      /\ driver' = [driver EXCEPT !.pc = "done"]
      /\ UNCHANGED <<head, status, product, worker, starts>>
  BY DEF IInv, EndBatch
<1>2. /\ driver' \in Driver /\ driver'.pc = "done" /\ driver'.rows = driver.rows
      /\ driver'.pending = driver.pending /\ driver'.running = driver.running
      /\ driver'.selected = driver.selected
  BY <1>1 DEF Types, Driver, DriverPc
<1>3. TablesFit'
  BY <1>1, <1>2 DEF TablesFit
<1>4. PendingFits' /\ NothingLost'
  BY <1>1, <1>2 DEF PendingFits, NothingLost, Accounted
<1>5. QED
  BY <1>1, <1>2, <1>3, <1>4, OnlyTables

(* PENDING is written for the row that is launched next: no process that   *)
(* lives works on it.                                                      *)
LEMMA WritePendingKeeps ==
  ASSUME IInv, WritePending
  PROVE  IInv'
<1> DEFINE s == Head(driver.pending)
<1>1. /\ Types /\ TablesFit /\ PendingFits /\ RunningFits /\ NothingLost
      /\ (\A p \in DOMAIN worker : WorkerFits(p)) /\ (\A t \in Scenarios : CompletedFits(t))
  BY DEF IInv
<1>2. /\ driver.pc = "loop" /\ driver.pending # <<>>
      /\ status' = [status EXCEPT ![s] = StatusTemplate(driver.commit, "PENDING", NoPid)]
      /\ driver' = [driver EXCEPT !.pc = "launch"]
      /\ UNCHANGED <<head, product, worker, starts>>
  BY DEF WritePending
<1>3. /\ driver \in Driver /\ driver.commit \in 0..MaxHead
      /\ driver.pending \in Seq(Scenarios) /\ driver.selected \subseteq Scenarios
      /\ driver.running \subseteq DOMAIN worker
  BY <1>1, DriverKinds DEF Types
<1>4. s \in Scenarios /\ s \in ToSet(driver.pending)
  BY <1>2, <1>3, TailRows
<1>5. PICK row \in Scenarios : row = s
  BY <1>4
<1>6. /\ driver' \in Driver /\ driver'.pc = "launch" /\ driver'.rows = driver.rows
      /\ driver'.pending = driver.pending /\ driver'.running = driver.running
      /\ driver'.selected = driver.selected
  BY <1>2, <1>3 DEF Driver, DriverPc
<1>7. /\ status' \in [Scenarios -> Status] /\ status'[row].state = "PENDING"
      /\ \A t \in Scenarios : t # row => status'[t] = status[t]
  <2>1. "PENDING" \in State
    BY DEF State
  <2>2. PICK c \in 0..MaxHead : c = driver.commit
    BY <1>3
  <2>3. status' = [status EXCEPT ![row] = StatusTemplate(c, "PENDING", NoPid)]
    BY <1>2, <1>5, <2>2
  <2>4. QED
    BY <1>1, <2>1, <2>2, <2>3, WritesStatus
<1>8. /\ row = Head(driver.pending) /\ row \in ToSet(driver.pending)
      /\ \A p \in driver.running : worker[p].scenario # row
  BY <1>1, <1>4, <1>5 DEF TablesFit
<1> HIDE DEF s
<1>9. Types'
  BY <1>1, <1>2, <1>6, <1>7 DEF Types
<1>10. TablesFit'
  BY <1>1, <1>2, <1>6, <1>7, <1>8 DEF TablesFit
<1>11. PendingFits'
  <2>1. ToSet(driver.pending) \subseteq Scenarios
    BY <1>3 DEF ToSet
  <2>2. QED
    BY <1>1, <1>6, <1>7, <2>1 DEF PendingFits
<1>12. \A p \in driver.running : /\ worker[p].scenario \in Scenarios
                                /\ status'[worker[p].scenario] = status[worker[p].scenario]
  BY <1>1, <1>3, <1>7, <1>8, WorkerKinds
<1>13. RunningFits'
  BY <1>1, <1>2, <1>6, <1>12 DEF RunningFits
<1>14. NothingLost'
  <2> SUFFICES ASSUME NEW t \in driver.selected
               PROVE  Accounted(t)'
    BY <1>6 DEF NothingLost
  <2>1. Accounted(t) /\ t \in Scenarios
    BY <1>1, <1>2, <1>3 DEF NothingLost
  <2>2. QED
    BY <1>2, <1>6, <1>7, <1>8, <2>1 DEF Accounted
<1>15. ASSUME NEW p \in DOMAIN worker
       PROVE  WorkerFits(p)'
  BY <1>1, <1>2, <1>6, <1>12 DEF WorkerFits
<1>16. ASSUME NEW t \in Scenarios
       PROVE  CompletedFits(t)'
  BY <1>1, <1>2, <1>7 DEF CompletedFits
<1>17. QED
  BY <1>2, <1>9, <1>10, <1>11, <1>13, <1>14, <1>15, <1>16 DEF IInv

(* The new process is the only one for its row, and the row waits no more. *)
LEMMA LaunchKeeps ==
  ASSUME IInv, Launch
  PROVE  IInv'
<1> DEFINE new == Len(worker) + 1
           w == [scenario |-> Head(driver.pending), pc |-> "check",
                 commit |-> 0, retry |-> driver.retry, written |-> 0]
<1>1. /\ Types /\ TablesFit /\ PendingFits /\ RunningFits /\ NothingLost
      /\ (\A p \in DOMAIN worker : WorkerFits(p)) /\ (\A t \in Scenarios : CompletedFits(t))
  BY DEF IInv
<1>2. /\ driver.pc = "launch" /\ Len(worker) < MaxWorkers
      /\ worker' = Append(worker, w)
      /\ driver' = [driver EXCEPT !.pc = "loop", !.pending = Tail(@),
                                  !.running = @ \cup {new}]
      /\ UNCHANGED <<head, status, product, starts>>
  BY DEF Launch
<1>3. /\ driver \in Driver /\ driver.retry \in BOOLEAN
      /\ driver.pending \in Seq(Scenarios) /\ driver.selected \subseteq Scenarios
      /\ driver.running \subseteq DOMAIN worker /\ driver.running \in SUBSET Pids
  BY <1>1, DriverKinds DEF Types
<1>4. /\ driver.pending # <<>> /\ status[Head(driver.pending)].state = "PENDING"
      /\ IsInjective(driver.pending)
      /\ \A p \in driver.running : worker[p].scenario \notin ToSet(driver.pending)
  BY <1>1, <1>2 DEF TablesFit
<1>5. PICK row \in Scenarios : row = Head(driver.pending)
  BY <1>3, <1>4, TailRows
<1>6. /\ Tail(driver.pending) \in Seq(Scenarios) /\ IsInjective(Tail(driver.pending))
      /\ ToSet(driver.pending) = ToSet(Tail(driver.pending)) \cup {row}
      /\ row \notin ToSet(Tail(driver.pending))
  BY <1>3, <1>4, <1>5, TailRows
<1>7. /\ Len(worker) \in Nat /\ DOMAIN worker = 1..Len(worker) /\ DOMAIN worker \subseteq Pids
      /\ \A p \in DOMAIN worker : worker[p].scenario \in Scenarios
      /\ worker \in Seq(Worker) /\ MaxWorkers \in Nat
  BY <1>1, WorkerKinds, Bounds DEF Types
<1>8. w \in Worker /\ w.scenario = row /\ w.pc = "check" /\ w.written = 0
  <2>1. 0 \in 0..MaxHead /\ "check" \in WorkerPc
    BY RunnerAssumption DEF WorkerPc
  <2>2. QED
    BY <1>3, <1>5, <2>1 DEF Worker
<1> HIDE DEF w
<1>9. /\ worker' \in Seq(Worker) /\ Len(worker') = Len(worker) + 1
      /\ DOMAIN worker' = DOMAIN worker \cup {new} /\ worker'[new] = w
      /\ \A p \in DOMAIN worker : worker'[p] = worker[p]
      /\ new \notin DOMAIN worker
  BY <1>2, <1>7, <1>8
<1>10. new \in Pids
  BY <1>2, <1>7 DEF Pids
<1> HIDE DEF new
<1>11. /\ driver' \in Driver /\ driver'.pc = "loop" /\ driver'.rows = driver.rows
       /\ driver'.pending = Tail(driver.pending)
       /\ driver'.running = driver.running \cup {new}
       /\ driver'.selected = driver.selected
  <2>1. "loop" \in DriverPc
    BY DEF DriverPc
  <2>2. driver.running \cup {new} \in SUBSET Pids
    BY <1>3, <1>10
  <2>3. driver' = [[[driver EXCEPT !.pc = "loop"] EXCEPT !.pending = Tail(driver.pending)]
                     EXCEPT !.running = driver.running \cup {new}]
    BY <1>2, <1>3 DEF Driver
  <2>4. QED
    BY <1>3, <1>6, <2>1, <2>2, <2>3 DEF Driver
<1>12. Types'
  BY <1>1, <1>2, <1>3, <1>7, <1>9, <1>11 DEF Types
<1>13. TablesFit'
  <2>1. \A p \in driver.running : worker'[p].scenario \notin ToSet(driver.pending)
    BY <1>3, <1>4, <1>9
  <2>2. \A p \in driver'.running : worker'[p].scenario \notin ToSet(driver'.pending)
    BY <1>6, <1>8, <1>9, <1>11, <2>1
  <2>3. row \in ToSet(driver.pending)
    BY <1>6
  <2>4. \A p, q \in driver'.running : worker'[p].scenario = worker'[q].scenario => p = q
    BY <1>1, <1>3, <1>8, <1>9, <1>11, <2>1, <2>3 DEF TablesFit
  <2>5. QED
    BY <1>1, <1>2, <1>6, <1>11, <2>2, <2>4 DEF TablesFit
<1>14. PendingFits'
  BY <1>1, <1>2, <1>6, <1>11 DEF PendingFits
<1>15. RunningFits'
  BY <1>1, <1>2, <1>3, <1>4, <1>5, <1>8, <1>9, <1>11 DEF RunningFits
<1>16. NothingLost'
  <2> SUFFICES ASSUME NEW t \in driver.selected
               PROVE  Accounted(t)'
    BY <1>11 DEF NothingLost
  <2>1. Accounted(t)
    BY <1>1, <1>2 DEF NothingLost
  <2>2. CASE t = row
    BY <1>8, <1>9, <1>11, <2>2 DEF Accounted
  <2>3. CASE t # row
    BY <1>2, <1>3, <1>6, <1>9, <1>11, <2>1, <2>3 DEF Accounted
  <2>4. QED
    BY <2>2, <2>3
<1>17. ASSUME NEW p \in DOMAIN worker'
       PROVE  WorkerFits(p)'
  <2>1. CASE p = new
    BY <1>2, <1>4, <1>5, <1>8, <1>9, <1>11, <2>1 DEF WorkerFits
  <2>2. CASE p \in DOMAIN worker
    <3>1. WorkerFits(p) /\ worker'[p] = worker[p]
      BY <1>1, <1>9, <2>2
    <3>2. QED
      BY <1>2, <1>11, <3>1 DEF WorkerFits
  <2>3. QED
    BY <1>9, <2>1, <2>2
<1>18. ASSUME NEW t \in Scenarios
       PROVE  CompletedFits(t)'
  <2>1. CompletedFits(t)
    BY <1>1
  <2>2. QED
    BY <1>2, <1>9, <2>1 DEF CompletedFits
<1>19. QED
  BY <1>12, <1>13, <1>14, <1>15, <1>16, <1>17, <1>18 DEF IInv

(* A process that has ended leaves the table; its scenario is terminal     *)
(* then.                                                                   *)
LEMMA PollKeeps ==
  ASSUME IInv, NEW p \in DOMAIN worker, Poll(p)
  PROVE  IInv'
<1>0. PICK s \in Scenarios : s = worker[p].scenario
  BY WorkerKinds DEF IInv
<1>1. /\ Types /\ TablesFit /\ PendingFits /\ RunningFits /\ NothingLost
      /\ (\A q \in DOMAIN worker : WorkerFits(q)) /\ (\A t \in Scenarios : CompletedFits(t))
  BY DEF IInv
<1>2. /\ driver.pc = "loop" /\ p \in driver.running
      /\ status' = [status EXCEPT ![s] = StatusAfterExit(s)]
      /\ driver' = [driver EXCEPT !.running = @ \ {p}]
      /\ UNCHANGED <<head, product, worker, starts>>
  BY <1>0 DEF Poll
<1>3. /\ driver \in Driver /\ driver.commit \in 0..MaxHead
      /\ driver.pending \in Seq(Scenarios) /\ driver.selected \subseteq Scenarios
      /\ driver.running \subseteq DOMAIN worker /\ driver.running \in SUBSET Pids
  BY <1>1, DriverKinds DEF Types
<1>4. /\ p \notin {NoPid} /\ worker[p].pc = "exited"
  <2>1. p \in Pids
    BY <1>1, WorkerKinds
  <2>2. ~Alive(p)
    BY DEF Poll
  <2>3. QED
    BY <2>1, <2>2, Bounds DEF Alive
<1>5. /\ status' \in [Scenarios -> Status] /\ status'[s].state \in {"COMPLETED", "FAILED"}
      /\ status'[s].state = "COMPLETED" => status'[s] = status[s]
      /\ \A t \in Scenarios : t # s => status'[t] = status[t]
  <2>1. CASE status[s].state \in {"COMPLETED", "FAILED"}
    <3>1. StatusAfterExit(s) = status[s]
      BY <2>1 DEF StatusAfterExit
    <3>2. status' = status
      BY <1>1, <1>2, <3>1 DEF Types
    <3>3. QED
      BY <1>1, <2>1, <3>2 DEF Types
  <2>2. CASE status[s].state \notin {"COMPLETED", "FAILED"}
    <3>1. "FAILED" \in State
      BY DEF State
    <3>2. PICK c \in 0..MaxHead : c = driver.commit
      BY <1>3
    <3>3. status' = [status EXCEPT ![s] = StatusTemplate(c, "FAILED", NoPid)]
      BY <1>2, <2>2, <3>2 DEF StatusAfterExit
    <3>4. /\ status' \in [Scenarios -> Status] /\ status'[s].state = "FAILED"
          /\ \A t \in Scenarios : t # s => status'[t] = status[t]
      BY <1>1, <3>1, <3>3, WritesStatus
    <3>5. QED
      BY <3>4
  <2>3. QED
    BY <2>1, <2>2
<1>6. /\ driver' \in Driver /\ driver'.pc = "loop" /\ driver'.rows = driver.rows
      /\ driver'.pending = driver.pending /\ driver'.running = driver.running \ {p}
      /\ driver'.selected = driver.selected
  BY <1>2, <1>3 DEF Driver
<1>7. Types'
  BY <1>1, <1>2, <1>3, <1>5, <1>6 DEF Types
<1>8. TablesFit'
  BY <1>1, <1>2, <1>6 DEF TablesFit
<1>9. PendingFits'
  <2>1. s \notin ToSet(driver.pending) /\ ToSet(driver.pending) \subseteq Scenarios
    BY <1>0, <1>1, <1>2, <1>3 DEF TablesFit, ToSet
  <2>2. QED
    BY <1>1, <1>5, <1>6, <2>1 DEF PendingFits
<1>10. \A q \in driver.running \ {p} :
         /\ worker[q].scenario \in Scenarios
         /\ status'[worker[q].scenario] = status[worker[q].scenario]
  BY <1>0, <1>1, <1>2, <1>3, <1>5, WorkerKinds DEF TablesFit
<1>11. RunningFits'
  BY <1>1, <1>2, <1>6, <1>10 DEF RunningFits
<1>12. NothingLost'
  <2> SUFFICES ASSUME NEW t \in driver.selected
               PROVE  Accounted(t)'
    BY <1>6 DEF NothingLost
  <2>1. Accounted(t) /\ t \in Scenarios
    BY <1>1, <1>2, <1>3 DEF NothingLost
  <2>2. CASE t = s
    BY <1>5, <2>2 DEF Accounted
  <2>3. CASE t # s
    BY <1>0, <1>2, <1>5, <1>6, <2>1, <2>3 DEF Accounted
  <2>4. QED
    BY <2>2, <2>3
<1>13. ASSUME NEW q \in DOMAIN worker
       PROVE  WorkerFits(q)'
  <2>1. WorkerFits(q)
    BY <1>1
  <2>2. CASE worker[q].pc = "exited"
    BY <1>2, <2>2 DEF WorkerFits
  <2>3. CASE worker[q].pc # "exited"
    <3>1. q \in driver.running \ {p}
      BY <1>4, <2>1, <2>3 DEF WorkerFits
    <3>2. QED
      BY <1>2, <1>6, <1>10, <2>1, <3>1 DEF WorkerFits
  <2>4. QED
    BY <2>2, <2>3
<1>14. ASSUME NEW t \in Scenarios
       PROVE  CompletedFits(t)'
  <2>1. CompletedFits(t)
    BY <1>1
  <2>2. CASE t = s
    BY <1>2, <1>5, <2>1, <2>2 DEF CompletedFits
  <2>3. CASE t # s
    BY <1>2, <1>5, <2>1, <2>3 DEF CompletedFits
  <2>4. QED
    BY <2>2, <2>3
<1>15. QED
  BY <1>2, <1>7, <1>8, <1>9, <1>11, <1>12, <1>13, <1>14 DEF IInv

(* A driver that is killed takes its workers with it: the next one finds   *)
(* nobody at work.                                                         *)
LEMMA CrashDriverKeeps ==
  ASSUME IInv, WorkersDieWithDriver, CrashDriver
  PROVE  IInv'
<1>1. /\ Types /\ (\A t \in Scenarios : CompletedFits(t))
  BY DEF IInv
<1>2. /\ worker' = [p \in DOMAIN worker |-> [worker[p] EXCEPT !.pc = "exited"]]
      /\ driver' = Idle /\ UNCHANGED <<head, status, product, starts>>
  BY DEF CrashDriver, WorkersDieWithDriver
<1>3. /\ Len(worker) \in Nat /\ DOMAIN worker = 1..Len(worker)
      /\ \A p \in DOMAIN worker : worker[p] \in Worker
  BY <1>1, WorkerKinds
<1>4. \A p \in DOMAIN worker : /\ [worker[p] EXCEPT !.pc = "exited"] \in Worker
                               /\ [worker[p] EXCEPT !.pc = "exited"].pc = "exited"
                               /\ [worker[p] EXCEPT !.pc = "exited"].commit = worker[p].commit
  BY <1>3 DEF Worker, WorkerPc
<1>5. /\ DOMAIN worker' = DOMAIN worker
      /\ \A p \in DOMAIN worker : /\ worker'[p] \in Worker /\ worker'[p].pc = "exited"
                                  /\ worker'[p].commit = worker[p].commit
  BY <1>2, <1>4
<1>6. worker' \in Seq(Worker) /\ Len(worker') = Len(worker)
  <2>1. worker' = [p \in 1..Len(worker) |-> worker'[p]]
    BY <1>2, <1>3
  <2>2. QED
    BY <1>3, <1>5, <2>1
<1>7. /\ driver'.pc = "idle" /\ driver'.rows = <<>> /\ driver'.pending = <<>>
      /\ driver'.running = {}
  BY <1>2 DEF Idle
<1>8. driver' \in Driver
  <2>1. 0 \in 0..MaxHead /\ "idle" \in DriverPc /\ <<>> \in Seq(Scenarios)
    BY RunnerAssumption DEF DriverPc
  <2>2. QED
    BY <1>2, <2>1 DEF Idle, Driver
<1>9. Types'
  BY <1>1, <1>2, <1>6, <1>7, <1>8 DEF Types
<1>10. TablesFit' /\ PendingFits' /\ RunningFits' /\ NothingLost'
  BY <1>7, NoRows DEF TablesFit, PendingFits, RunningFits, NothingLost
<1>11. \A p \in DOMAIN worker : WorkerFits(p)'
  BY <1>5 DEF WorkerFits
<1>12. ASSUME NEW t \in Scenarios
       PROVE  CompletedFits(t)'
  <2>1. CompletedFits(t)
    BY <1>1
  <2>2. QED
    BY <1>2, <1>5, <2>1 DEF CompletedFits
<1>13. QED
  BY <1>5, <1>9, <1>10, <1>11, <1>12 DEF IInv

LEMMA StutterKeeps ==
  ASSUME IInv, UNCHANGED <<status, product, worker, driver, starts>>, head' \in 1..MaxHead
  PROVE  IInv'
<1>1. Types /\ TablesFit /\ PendingFits /\ RunningFits /\ NothingLost
  BY DEF IInv
<1>2. Types'
  BY <1>1 DEF Types
<1>3. TablesFit' /\ PendingFits' /\ RunningFits'
  BY <1>1 DEF TablesFit, PendingFits, RunningFits
<1>4. NothingLost'
  BY <1>1 DEF NothingLost, Accounted
<1>5. \A p \in DOMAIN worker : WorkerFits(p)'
  BY DEF IInv, WorkerFits
<1>6. \A t \in Scenarios : CompletedFits(t)'
  BY DEF IInv, CompletedFits
<1>7. QED
  BY <1>2, <1>3, <1>4, <1>5, <1>6 DEF IInv

LEMMA NextKeeps ==
  ASSUME IInv, WorkersDieWithDriver, [Next]_vars
  PROVE  IInv'
<1>1. CASE UNCHANGED vars
  BY <1>1, StutterKeeps DEF vars, IInv, Types
<1>2. CASE StartBatch
  BY <1>2, StartBatchKeeps
<1>3. CASE DriverStep
  BY <1>3, PartitionKeeps, WritePendingKeeps, LaunchKeeps, EndBatchKeeps, PollKeeps DEF DriverStep
<1>4. CASE CrashDriver
  BY <1>4, CrashDriverKeeps
<1>5. CASE Commit
  <2>1. head' \in 1..MaxHead
    BY <1>5, RunnerAssumption DEF Commit, IInv, Types
  <2>2. QED
    BY <1>5, <2>1, StutterKeeps DEF Commit
<1>6. ASSUME NEW p \in Pids, WorkerStep(p)
      PROVE  IInv'
  BY <1>6, CheckKeeps, ClaimKeeps, WriteProductKeeps, FailScenarioKeeps, CompleteKeeps
     DEF WorkerStep
<1>7. ASSUME NEW p \in DOMAIN worker, KillWorker(p)
      PROVE  IInv'
  BY <1>7, KillWorkerKeeps
<1>8. QED
  BY <1>1, <1>2, <1>3, <1>4, <1>5, <1>6, <1>7 DEF Next

-----------------------------------------------------------------------------
(* The invariant says what a batch may believe of the files it finds.      *)

LEMMA SoundWhenFits == ASSUME IInv PROVE BatchIsSound
<1>1. /\ Types /\ TablesFit /\ NothingLost
      /\ (\A p \in DOMAIN worker : WorkerFits(p)) /\ (\A s \in Scenarios : CompletedFits(s))
  BY DEF IInv
<1>2. TypeOK
  BY <1>1, DriverKinds DEF TypeOK, Types, TablesFit
<1>3. OneWorkerPerScenario
  BY <1>1 DEF OneWorkerPerScenario, Working, WorkerFits, TablesFit
<1>4. CompletedIsWhole
  BY <1>1 DEF CompletedIsWhole, CompletedFits
<1>5. BatchAccounted
  <2> SUFFICES ASSUME driver.pc = "done", NEW s \in driver.selected
               PROVE  status[s].state \in {"COMPLETED", "FAILED"}
    BY DEF BatchAccounted
  <2>1. driver.rows = <<>> /\ driver.pending = <<>> /\ driver.running = {}
    BY <1>1 DEF TablesFit
  <2>2. Accounted(s)
    BY <1>1 DEF NothingLost
  <2>3. QED
    BY <2>1, <2>2, NoRows DEF Accounted
<1>6. QED
  BY <1>2, <1>3, <1>4, <1>5 DEF BatchIsSound

(* No two processes ever work on one scenario, a COMPLETED scenario has    *)
(* all its products from the one process that reported it, and a batch     *)
(* that has ended accounts for all it selected - for every registry,       *)
(* phase, parallelism and number of batches, crashes of driver and         *)
(* workers, moving commits and retries included                            *)
(* (final_experiment_runner.py:761-978).                                   *)
THEOREM BatchIsSoundHolds ==
  ASSUME WorkersDieWithDriver
  PROVE  Spec => []BatchIsSound
<1>1. Init => IInv
  BY InitFits
<1>2. IInv /\ [Next]_vars => IInv'
  BY NextKeeps
<1>3. IInv => BatchIsSound
  BY SoundWhenFits
<1>4. QED
  BY <1>1, <1>2, <1>3, PTL DEF Spec

-----------------------------------------------------------------------------
(* The status files follow the life cycle of a scenario.                   *)

States == [s \in Scenarios |-> status[s].state]
Owners == [s \in Scenarios |-> status[s].pid]

(* One status file is written: one scenario of the life cycle moves.       *)
LEMMA StatusMoves ==
  ASSUME Types, Types', NEW s \in Scenarios, NEW from, NEW to, NEW p,
         status[s].state \in from, status'[s].state = to, status'[s].pid = p,
         \A t \in Scenarios : t # s => status'[t] = status[t]
  PROVE  Lifecycle!Move(s, from, to, p)
<1>1. States' = [States EXCEPT ![s] = to]
  BY DEF States
<1>2. Owners' = [Owners EXCEPT ![s] = p]
  BY DEF Owners
<1>3. States[s] \in from
  BY DEF States
<1>4. QED
  BY <1>1, <1>2, <1>3 DEF States, Owners, Lifecycle!Move

LEMMA LifecycleStep ==
  ASSUME IInv, IInv', [Next]_vars
  PROVE  Lifecycle!Next \/ UNCHANGED status
<1>1. /\ Types /\ Types' /\ TablesFit /\ PendingFits /\ RunningFits
      /\ (\A p \in DOMAIN worker : WorkerFits(p))
  BY DEF IInv
<1>2. CASE WritePending
  <2>1. /\ driver.pending # <<>> /\ driver.pending \in Seq(Scenarios)
        /\ driver.commit \in 0..MaxHead
    BY <1>1, <1>2, DriverKinds DEF WritePending
  <2>2. PICK s \in Scenarios : s = Head(driver.pending) /\ s \in ToSet(driver.pending)
    BY <2>1, TailRows
  <2>3. PICK c \in 0..MaxHead : c = driver.commit
    BY <2>1
  <2>4. status' = [status EXCEPT ![s] = StatusTemplate(c, "PENDING", NoPid)]
    BY <1>2, <2>2, <2>3 DEF WritePending
  <2>5. "PENDING" \in State
    BY DEF State
  <2>6. /\ status'[s].state = "PENDING" /\ status'[s].pid = NoPid
        /\ \A t \in Scenarios : t # s => status'[t] = status[t]
    BY <1>1, <2>4, <2>5, WritesStatus
  <2>7. status[s].state \in {"ABSENT", "PENDING", "FAILED"}
    BY <1>1, <2>2 DEF PendingFits
  <2>8. Lifecycle!Submit(s)
    BY <1>1, <2>6, <2>7, StatusMoves DEF Lifecycle!Submit
  <2>9. QED
    BY <2>8 DEF Lifecycle!Next
<1>3. ASSUME NEW p \in DOMAIN worker, Poll(p)
      PROVE  Lifecycle!Next \/ UNCHANGED status
  <2>1. p \in driver.running /\ driver.commit \in 0..MaxHead
    BY <1>1, <1>3, DriverKinds DEF Poll
  <2>2. PICK s \in Scenarios : s = worker[p].scenario
    BY <1>1, WorkerKinds
  <2>3. status' = [status EXCEPT ![s] = StatusAfterExit(s)]
    BY <1>3, <2>2 DEF Poll
  <2>4. CASE status[s].state \in {"COMPLETED", "FAILED"}
    BY <1>1, <2>3, <2>4 DEF StatusAfterExit, Types
  <2>5. CASE status[s].state \notin {"COMPLETED", "FAILED"}
    <3>1. status[s].state \in {"PENDING", "RUNNING"}
      BY <1>1, <2>1, <2>2, <2>5 DEF RunningFits, Types, Status, State
    <3>2. PICK c \in 0..MaxHead : c = driver.commit
      BY <2>1
    <3>3. status' = [status EXCEPT ![s] = StatusTemplate(c, "FAILED", NoPid)]
      BY <2>3, <2>5, <3>2 DEF StatusAfterExit
    <3>4. "FAILED" \in State
      BY DEF State
    <3>5. /\ status'[s].state = "FAILED" /\ status'[s].pid = NoPid
          /\ \A t \in Scenarios : t # s => status'[t] = status[t]
      BY <1>1, <3>3, <3>4, WritesStatus
    <3>6. Lifecycle!Fail(s)
      BY <1>1, <3>1, <3>5, StatusMoves DEF Lifecycle!Fail
    <3>7. QED
      BY <3>6 DEF Lifecycle!Next
  <2>6. QED
    BY <2>4, <2>5
<1>4. ASSUME NEW p \in DOMAIN worker, NEW st \in {"RUNNING", "FAILED", "COMPLETED"},
             worker[p].pc = IF st = "RUNNING" THEN "claim" ELSE "execute",
             status' = [status EXCEPT ![worker[p].scenario] =
                          StatusTemplate(worker[p].commit, st, p)]
      PROVE  Lifecycle!Next
  <2>1. PICK s \in Scenarios, c \in 0..MaxHead : s = worker[p].scenario /\ c = worker[p].commit
    BY <1>1, WorkerKinds
  <2>2. p \in Pids /\ st \in State
    BY <1>1, WorkerKinds DEF State
  <2>3. status' = [status EXCEPT ![s] = StatusTemplate(c, st, p)]
    BY <1>4, <2>1
  <2>4. /\ status'[s].state = st /\ status'[s].pid = p
        /\ \A t \in Scenarios : t # s => status'[t] = status[t]
    BY <1>1, <2>2, <2>3, WritesStatus
  <2>5. CASE st = "RUNNING"
    <3>1. status[s].state = "PENDING"
      BY <1>1, <1>4, <2>1, <2>5 DEF WorkerFits
    <3>2. Lifecycle!Work(s, p)
      BY <1>1, <2>4, <2>5, <3>1, StatusMoves DEF Lifecycle!Work
    <3>3. QED
      BY <2>2, <3>2 DEF Lifecycle!Next
  <2>6. CASE st # "RUNNING"
    <3>1. status[s] = StatusTemplate(worker[p].commit, "RUNNING", p)
      BY <1>1, <1>4, <2>1, <2>6 DEF WorkerFits
    <3>2. status[s].state = "RUNNING" /\ status[s].pid = p
      BY <3>1 DEF StatusTemplate
    <3>3. Lifecycle!Move(s, {"RUNNING"}, st, p)
      BY <1>1, <2>4, <3>2, StatusMoves
    <3>4. [t \in Scenarios |-> status[t].pid][s] = p
      BY <3>2
    <3>5. CASE st = "FAILED"
      <4>1. Lifecycle!FailAtWork(s)
        BY <3>3, <3>4, <3>5 DEF Lifecycle!FailAtWork, Lifecycle!Move
      <4>2. QED
        BY <4>1 DEF Lifecycle!Next
    <3>6. CASE st = "COMPLETED"
      <4>1. Lifecycle!Finish(s)
        BY <3>3, <3>4, <3>6 DEF Lifecycle!Finish, Lifecycle!Move
      <4>2. QED
        BY <4>1 DEF Lifecycle!Next
    <3>7. QED
      BY <2>6, <3>5, <3>6
  <2>7. QED
    BY <2>5, <2>6
<1>5. ASSUME NEW p \in Pids, WorkerStep(p)
      PROVE  Lifecycle!Next \/ UNCHANGED status
  <2>1. CASE Check(p) \/ WriteProduct(p)
    BY <2>1 DEF Check, WriteProduct
  <2>2. CASE Claim(p)
    BY <1>4, <1>5, <2>2 DEF Claim, WorkerStep
  <2>3. CASE FailScenario(p)
    BY <1>4, <1>5, <2>3 DEF FailScenario, WorkerStep
  <2>4. CASE Complete(p)
    BY <1>4, <1>5, <2>4 DEF Complete, WorkerStep
  <2>5. QED
    BY <1>5, <2>1, <2>2, <2>3, <2>4 DEF WorkerStep
<1>6. CASE StartBatch \/ CrashDriver \/ Commit \/ Partition \/ Launch \/ EndBatch \/ UNCHANGED vars
  BY <1>6 DEF StartBatch, CrashDriver, Commit, Partition, Launch, EndBatch, vars
<1>7. ASSUME NEW p \in DOMAIN worker, KillWorker(p)
      PROVE  UNCHANGED status
  BY <1>7 DEF KillWorker
<1>8. QED
  BY <1>2, <1>3, <1>5, <1>6, <1>7 DEF Next, DriverStep

(* A status file only ever moves as the life cycle of its scenario allows: *)
(* a worker claims what was submitted, and what is COMPLETED is never      *)
(* submitted, claimed or failed again, under every interleaving of the     *)
(* driver with its workers (final_experiment_runner.py:245-273, 761-956).  *)
THEOREM RunnerImplementsLifecycle ==
  ASSUME WorkersDieWithDriver
  PROVE  Spec => LifecycleSpec
<1>1. Init => IInv
  BY InitFits
<1>2. IInv /\ [Next]_vars => IInv'
  BY NextKeeps
<1>3. Init => Lifecycle!Init
  BY DEF Init, NoStatus, Lifecycle!Init
<1>4. IInv /\ IInv' /\ [Next]_vars =>
        [Lifecycle!Next]_(<<[s \in Scenarios |-> status[s].state],
                            [s \in Scenarios |-> status[s].pid]>>)
  BY LifecycleStep
<1>5. QED
  BY <1>1, <1>2, <1>3, <1>4, PTL DEF Spec, LifecycleSpec, Lifecycle!Spec, Lifecycle!lifecycle
=============================================================================
