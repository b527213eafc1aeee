# The ride-hailing platform in TLA+

A verification project for the parts of the repository that have control logic: the event-driven
simulator v3, the rolling dispatch with its route caches, the batch runner of the experiments, and
the jobs that are killed and started again. Most of their hard cases need several steps in an
unlucky order: an answer that arrives after the ride it was made for, a worker that outlives its
driver, a planned cache that replays differently. What the other parts compute is batch numerical work.

## 1. Inventory

| Part | What it does | State | Here |
|---|---|---|---|
| `stage4/simulator_v3` | event-driven simulator | queue, requests, vehicles, reservations, checkpoint | `SimulationEngine`, `EventQueue`, `RequestManager`, `ReservationManager`, `CheckpointResume` |
| its balanced matching | swaps towards zone targets and budgets | budgets over a period | `BalancedMatch` |
| its routing facade | bounded cache under rounded coordinates | the cache | `RouteCache` |
| `stage4/dispatch`: rolling control, with `fleetpy_adapter` | expiry, arcs, lexicographic solution, rides | waiting and active orders, exposure | `RollingDispatch` |
| `stage4/dispatch`: fleet calendar | incremental windows | two cursors, a set | `FleetCalendar` |
| `stage4/dispatch`: controlled movement | empty trips of idle vehicles | movements, quotas | `IdleMovement` |
| `stage4/dispatch`: routing v2 and v3 | an epoch planned ahead and replayed | caches, shadow caches | `RouteEpoch`, `RouteLru`, `ShadowLRU` |
| `stage4/dispatch`: route bank | write-behind table | buffer, queue, two threads, a file | `RouteBank` |
| `stage4/dispatch`: experiment runner | scenarios in worker processes | status files, products | `ExperimentRunner`, `ScenarioLifecycle` |
| `stage0/v6`: Stage 1 production | a quota of matched orders per day | buckets, manifests, cache | `Stage1Production` |
| `stage2/v5`: training | epochs, checkpoint, early stopping | history, files | `TrainWorker` |
| `run_pipeline.py`, `canonical_pipeline` | smoke run, registry of runs | a CSV file | `RunRegistry` |
| `stage0` matching, `stage1`, `stage2` models, `stage3`, `stage35`, replay foundation, economics, logging | batch numerical work and output | tables, weights | not modelled (section 6) |

### The simulator

One thread runs `SimulationEngine.run`: it pops the earliest event and runs its
handler to the end. There is no other concurrency, so a handler is one atomic
step; the difficulty is the order of events and the state that is kept from one
event to a later one.

How they interact. A request is revealed and pending. Every `decision_epoch_sec` the
engine cancels requests out of patience, moves some idle vehicles, matches
pending requests with idle vehicles, and on whole minutes queues pending
requests behind rides that end soon (*preassignment*). An automated vehicle
(AV) obeys at once. A human driver (HV) gets an offer and a `DRIVER_RESPONSE` is queued
`response_delay_sec` later; until then the request is OFFERED and an idle
driver WAITING. An accepted preassignment reserves the vehicle: the reservation
manager holds the pair, the pickup and the drop-off are appended to the vehicle's
plan, and `RESERVATION_EXPIRED` is queued for the pickup deadline. When the ride in front
ends, the reservation is revalidated: it is promoted to a pickup leg, or it is
closed and `PLAN_INVALIDATED` is queued for the same instant. When the queue has nothing up to the end
time, whatever is open is cancelled.

### The dispatch

FleetPy's clock (FleetPy is not in the repository) steps by the dispatch interval: vehicles move, new requests are handed over, and
`time_trigger` expires, matches and assigns. What an AV may take is limited by a budget of excess
exposure that accumulates over the day. Three records describe a ride: FleetPy's route, the
vehicle's active order, the request's vehicle. Routes come from a back end through several caches; an epoch asks for all it
will need at once and then replays its queries in the old order. The bank of routes is the one place with two
threads; they share a flag and a counter without a lock.

### The jobs

The batch driver launches one process per scenario and talks to it through files only. Training, the
production of a date and a checkpointed simulation write several files, each of which may be
the last before a kill. The registry of runs is a CSV file that is emptied, given its header
and appended to, and that nobody locks.

### What is hard here

Each hazard is in `PROJECT.json`, at its line. By kind:

- *order*: several events at one instant, handlers that push events of the
  instant being handled, answers after the ride, the session or the deadline they were meant for, replayed queries;
- *stale state*: offers, plans, expiries, economics, idle clocks, cached routes, products of an earlier attempt;
- *agreement*: a reservation lives in four places, a ride in three, a leg in the vehicle and in the queue, a manifest beside its files;
- *interleaving*: the bank's threads, the driver and its workers, two pipeline runs;
- *crashes*: between any two writes of a job, during the dump of a checkpoint;
- *edges*: the deadline itself, zero driving times, floored timestamps, delays longer than an epoch, the end of a window, full queues;
- *progress*: no request stays open for ever, every batch and every call returns, swap loops stop.

## 2. Modules

### Simulator v3

`EventQueue`, `RequestManager` - operators the engine is built from. The queue is a
set of events; the next one is any of least (time, priority). The code breaks
ties by insertion order; leaving the tie open covers that order and every other.

`SimulationEngine` - the engine; one action per handler outcome.

| Action | Code |
|---|---|
| `RequestRevealed`, `SessionStart`, `SessionEnd` | branches of `run` |
| `LegCompleted` | `complete_current_leg`, followed by `_start_next_leg` |
| `LegCompletedPromote`, `LegCompletedInvalidate` | the same with a reservation waiting: `_revalidate_vehicle_reservation` |
| `ReservationExpired`, `StaleReservationExpiry`, `PlanInvalidated` | `_reservation_expired`, `_plan_invalidated`, `_release_reservation_state` |
| `ResponseTimeout`, `VehicleNotWaiting`, `DriverRejects`, `InsertsTooLate`, `AcceptsReservation`, `AcceptsAssignment` | the returns of `_driver_response` |
| `DecisionEpoch` | `_decision_epoch`, with `cancel_expired`, `build_plans`, the matching, `_preassignment_epoch` |
| `Finalize` | the end of `run` |
| `Returned` | stuttering once `run` is over, so that a deadlock is an error everywhere else |

`ReservationManager` - the ledger in the detail the engine does not need: both
dictionaries, every record with its floored timestamps, the failure log. Its
actions are the calls, at any time and in any order; the engine's `book` is its
`request_to_vehicle`.

`ReservationBook` - abstract: a vehicle is held for at most one request, and a
request changes vehicles only through being free. Both `ReservationManager`
(`BookSpec`) and the engine's request pointers (`PointersSpec`) implement it.

`RideService` - abstract, the passenger's view: hidden, waiting, committed, aboard,
served or lost, with one carrier from the commitment on. The engine implements
it (`ServiceSpec`); an AV's request may go from waiting to committed in one epoch, and
one event may deliver one passenger and commit to the next.

`MCIdleClock` adds a history variable: since when a driver has really been idle.

`BalancedMatch` - `prepare_epoch` grants each zone its service target and stress budget (`Prepare`); the loops of
`solve` replace edges until no zone lacks service that a swap could give (`FairnessSwap`, `FairnessDone`), then until no zone exceeds its
stress budget (`StressSwap`, `StressDrop`, `StressDone`); `Consume` books the result. The sparse matching it starts from is any maximum matching.

`CheckpointResume` - a run cut at midpoints: the engine is its queue, the sequence counter and the log of handled events.
`OpenCheckpoint` empties the file in place, `DumpCheckpoint` fills it, `ProcessDies` may come anywhere, `LoadCheckpoint` fails on half a file.

`RouteCache` - a query is answered from the entry of its cell or computed and stored; a hit moves the entry to the end. `RouteCaches`
puts it beside the exact cache of the dispatch below, to state what both promise.

What is abstracted: prices, utilities, routes, zones and ODD details. The
matcher may choose any set of feasible edges that shares no request and no
vehicle (so every strategy, and every candidate cap, is covered); a driver may
accept or reject; a driving time is any of `PickupEtas`, drawn again when a
reservation is revalidated because the route is queried from other coordinates.
A conversion that matters is kept: `_event_timestamp` floors.

Returns that no reachable state takes are not actions, and the runs would show
it if one became reachable: a response whose offer is gone or whose request is
no longer offered, a leg completion without a leg, a revalidation without an
open record would all leave the queue with an event no action handles, which TLC
reports as a deadlock. An illegal transition or a `ValueError` leaves the request
RAISED, which `NoHandlerRaises` excludes.

### Dispatch

`RollingDispatch` - one tick is four phases: `Move` (vehicles, boarding, alighting), activation of new requests, `Trigger`
(expiry, arcs, the lexicographic solution under the budget, assignment), `Tick`; then the drain. The solver is a definition, not an
algorithm: the solutions that are best in the order critical requests, served requests, among those that
keep the budget; the later cost levels are left open.

`FleetCalendar` - `ActiveIds` and `HorizonIds` move two cursors over sorted starts and ends.

`IdleMovement` - `Reposition` sends surplus vehicles towards quotas, `Move` lets them arrive, a dispatch may interrupt them
for a customer, the drain of the day ends them.

`RouteLru` (operators), `ShadowLRU`, `RouteEpoch` - the exact cache; the simulation of it that planning uses; an epoch planned (`DemandPlan`, `QueuePlan`),
evaluated by workers that answer in any order (`needed` is a set) and replayed (`NextBatch`, `Row`, `QueriedRow`) by either adapter. `before` is what the epoch began with, and `Reference` what the calls one
after another make of it: the loops of `estimate_many` as `After(step, start, sequence)`, a fold by a recursive function, the steps being functions of the state. `flaky` says whether a query that fails may succeed the next time.

`RouteBank` - the caller and the writer, step by step: `remember`, `flush`, `put`, `close` and the writer's loop, the unlocked `+=` in its
load and its store. A statement of SQLite may fail at any time, and the writer may hang.

`ExperimentRunner` - the driver (`partition`, `loop`, `launch`) and up to `MaxWorkers` workers (`check`, `claim`, `execute`), the status files, kills of either and commits in between.
`ScenarioLifecycle` - abstract: what a status file may go through; the runner implements it (`LifecycleSpec`).

### Jobs

`TrainWorker` - `LaunchTraining` (with `--resume` as the protocol runner does, or by hand with any flags), `Epoch`, `Load`, `Predict` one split, `Finish`, `Crash`.
`Stage1Production` - the buckets of a date, each with products, manifest and rejections written in this order, the quota, the cache.
`RunRegistry` - per run `Open`, `Create` (which empties the file), `WriteHeader` (when the file is closed), `Audit`, `LookUp`, `AddRow`, and `Kill` between any two. `serial`,
chosen at the start, says whether runs take turns or overlap; nothing in the code makes them take turns.

### Instances

`MCReservationManager`, `MCSimulationEngine`, `MCRollingDispatch` and `MCExperimentRunner` give the constants values; `RunRegistry` is also checked as it is. `MCRoutes`,
`MCFleetDay` and `MCJobs` put together components that share no state: a variable `part`, chosen
at the start, says which of them runs, and the others stay in one of their initial states.
So a run explores each component by itself, with no product of their state spaces, and its properties hold of all of them.
They extend the components, so what a run checks is the very definition a theorem names.

## 3. Runs

| Run | Instance | Question |
|---|---|---|
| `ledger` | 2 requests, 2 vehicles, unaligned times, 3 records | is the ledger consistent for every sequence of calls? |
| `fleet` | 3 requests, 2 HVs, 1 AV | lifecycle, plans, indexes, reservations, order, deadlines, both refinements, and does every request close? |
| `slow_driver` | 2 requests, 2 HVs, 1 AV, answers after 2 units | answers that come after the ride or the session |
| `rolling` | 3 requests, 1 HV whose window ends, 1 AV, ticks of 2, patience 6 | exposure budget, records, patience, an outcome for everyone |
| `routes` | bank: 3 keys for a table of 2 rows, 2 banks on one file; epochs: 2 in a row, 3 arcs of which 2 agree after rounding; caches of 2 and 3 | is any route lost, does planning change an answer, do calls return? |
| `fleet_day` | calendar: 3 vehicles; matching: 4 requests, 2 HVs, 1 AV, 2 epochs; movements: 3 vehicles, 3 nodes | windows, budgets, movements |
| `jobs` | batch: 2 scenarios, 2 at a time, 2 starts, 2 commits; 3 launches of 4 epochs; 4 pipeline runs, one at a time or side by side; 6 orders in 3 buckets; 5 events, 3 saves | what the files say after any crash, with workers that die with their driver; does a batch return? |
| `delay_beyond_epoch` | answers later than the next idle run | violation |
| `zero_eta` | a driving time of zero, at the deadline | violation |
| `idle_clock` | with the history variable | violation |
| `driver_crash` | the batch of `jobs`, with workers that outlive their driver | violation |
| `registry_kill` | the pipeline runs of `jobs` | violation |

What the properties say. A property with a list is the conjunction of named parts, each stated above its definition.

- `fleet`: `EventOrder`, `RideRecordsAgree` (`OneVehiclePerRide`, `EveryLegWillEnd`: one carrier per passenger, a leg and its completion
  event exist together), `CopiesAgree` (`ReservationAgreement`, `PlanMatchesState`, `IndexAgreement`: the copies of a reservation, plan
  and state, id sets and statuses agree at every event boundary), `DeadlinesHonoured` (`PatienceHonoured`, `PickupOnTime`; only an HV's ordinary pickup may
  be late, by the response delay its plan does not count), `LegsStartInSession`, `EconomicsOfTheDriver`, `DayIsClosed`, `NoHandlerRaises` (no illegal
  transition, no `ValueError`), the refinements `ServiceSpec` and `PointersSpec`, and `EveryRequestCloses`.
- `slow_driver`: `HeldBehindItsRide` (no plan survives the ride it was made behind), `OfferDiscipline` (offer, status, queued answer and
  waiting driver go together).
- `ledger`: `Audit`, `LifetimesDisjoint`, `ExpiredIsDue`, `FailureLedger`, `ClosedForever`, `BookSpec`.
- `rolling`: `ExposureWithinBudget` (the running totals count every request really given to an AV, once, and the mean over those requests is within the allowance); `RidesAgree`; `PatienceIsFair` (`LastChance`: nobody expires without a round in which
  they were critical; `EveryRequestHasAnOutcome`); `EveryoneIsAnswered` (whoever waits is answered in the end, no HV is withheld on the way,
  the run ends with every ride delivered).
- `routes`: `CountsTheRows`; `BankIsAccounted` (`NothingVanishes`, `ClosedIsEmpty`; `NeverOvercounted`: racing additions to the drop counter only ever lose); `CallsReturn`; `EpochIsFaithful` (`ReplaysInOrder`: answers and caches of
  the calls one after another; `PlanIsExact`, `AnswersArePlanned`, `FailuresAreOwn`, `NothingOmitted`); `CachesAreFaithful` (the shadow simulates the cache, a hit is
  of the cell asked for, recent cells are held).
- `fleet_day`: `AnswersTheWindows`; `MatchingIsSound` (`StaysMatching`, `ServiceAccounted`, `BudgetHeld`, `FairnessComplete`, `FairnessHelps`, `BudgetLedger`: the bounded loops have
  rounds enough); `MovementsAreSound` (`MovementsAgree`, `MovementsConserved`, `NoneAfterShift`, `DrainComplete`, `MovesTowardsQuota`).
- `jobs`: `BatchIsSound` (`OneWorkerPerScenario`; `CompletedIsWhole`: COMPLETED means all products, by one worker, of
  the commit named; `BatchAccounted`), `LifecycleSpec`, `BatchEnds`; `TrainingIsSound` (`ManifestDescribesDisk`, `ReportsTheBest`, `StopsOnPatience`); `ResumedIsUncut` (at every event a resumed
  simulation is where an uncut one would be; a dump cut short is no resumption, and leaves no checkpoint at all, which no property forbids);
  `DateIsSound` (`PassMeansWhole`, `ShortfallIsReal`, `QuotaMet`, `PublishedInOrder` when no order raised);
  `RegistryIsSound`: runs that take turns list no configuration twice in a registry that has its header (`UniqueUnderAHeader`) and never lose a row (`KeepsItsRows`); for runs that overlap, a success on record under a
  header is reused by every run that has not looked for it yet, once nobody is about to empty the file (`SettledIsSettled`).

### Bounds, and why they are enough

Simulator v3. One unit of time is ten seconds: an epoch is 3, a minute 6, an answer takes 1
(the default), the run ends at `End`. Two requests are needed for a reservation
behind a ride, the third competes for the vehicles; two HVs and an AV let every
kind of vehicle compete with another. `SafeOffsets` holds a release before the expected one and one
at it (or after it, in `slow_driver`), so that revalidation both passes and fails. Deadlines and session
ends fall on epochs, rides and answers, where events coincide. In `ledger`, a microsecond is two clock ticks, so that half of the times are
unaligned; `MaxRecords` and `MaxTime` bound the log and the clock, and the theorems
do without them.

Dispatch. In `rolling`, one vehicle's window ends while rides are possible, rides are shorter and
longer than a tick, and excesses lie below, at and above the mean allowed. In `routes`, a queue of one block and a table of two rows are
full at once; the table has fewer rows than there are keys, so the limit is what keeps the third out; `MaxOpens` lets a second bank restart on the rows of the first and meet its keys again. Two arcs with one alias and a third are what rounding needs to
matter; a cache of two evicts. The epochs have one or two batches of up to two arcs, three arcs in all, and follow each other on the caches left behind: two of them with lasting failures (`broken`), one with
transient ones (`flaky`; `MaxEpochs` depends on it). In `fleet_day`, `MaxTime` bounds
windows and calls, `MaxEpochs` and `MaxEdges` the matching; a request of twice the stress makes a swap and a drop differ. Its
symmetry permutes requests of one zone and stress, and the nodes, which nothing else tells apart. No liveness is checked there.

Jobs. Patience 2 in 4 epochs lets training stop early, late and on an unstable epoch; three launches allow a crash in a retry. Three
buckets of two orders and a quota of three let the quota fall inside a bucket; `MaxFailures`, `MaxDeaths` and `MaxCrashes` bound the faults.
In `resume`, two events of one instant, of which one spawns others of that or a later instant, make the sequence counter matter.
In the batch, `MaxStarts` 2 gives one resume, `MaxHead` 2 one commit in between. Four pipeline runs are one more than `registry_kill` needs.

Deadlock is checked where the system runs on or says that it is done; `rolling`, `routes`, `fleet_day`, `jobs` and the two instances taken from it end, and allow it.

### Fairness

Simulator v3: `WF_vars(Next)`: the program is one thread in a `while` loop, so if an event is
due it is handled. Nothing is assumed about which choice a driver or the matcher
makes. `EveryRequestCloses` needs no more, because the queue holds all epochs from the start and
`Finalize` closes what is left. `rolling`: the same, FleetPy's loop goes on. `jobs`: the driver of the batch and each worker go on unless killed; the crashes
and the other jobs have no fairness. `routes`: only the dispatching thread goes on with a call it has begun; nothing is assumed of the writer, and `CallsReturn` must hold although
it may hang for ever.

### Violations

1. `delay_beyond_epoch` - a preassignment offer is answered when the ride it was built behind has ended *and the vehicle
   has a new leg*: the guard at `simulation_engine.py:383` looks only for a missing leg, and the
   stale plan is installed, against the comment above it. It takes a response delay longer
   than the time to the next run that moves the vehicle; the default is shorter.
2. `zero_eta` - an AV whose driving time is zero is reserved exactly at the pickup
   deadline; the reservation would expire as it is created and `create` raises, which ends the
   run. The epoch compares with `>` where the manager requires a positive lifetime.
3. `idle_clock` - the idle clock is dropped only if an idle run finds the driver
   busy; a ride between two runs goes unnoticed, and the driver is moved before having idled for
   `min_hv_idle_sec`. The comment at `idle_management.py:241` says a fresh clock starts.
4. `driver_crash` - a driver that is killed may leave a worker that has not yet claimed its scenario: the status still says
   PENDING without a process id, and `--resume` starts a second worker in the same directory (`final_experiment_runner.py:912`).

5. `registry_kill` - a pipeline run opens the registry with mode `w`, which empties it at once, and its header is on disk only when the file
   is closed (`registry.py:45-46`). A run killed in between leaves an empty registry. The next run finds the file there and appends its row; the run after takes that row for the header
   (`csv.DictReader`), finds no success (`run_pipeline.py:76`) and adds a second one for the same configuration, though `reproduction_commands.md:33` calls
   the entry point idempotent. Every later run fails with a `KeyError`. It takes no overlap: `serial` is `TRUE` in the trace.

Three more disagreements are conditions under which the passing properties are stated; changing the constant, or dropping the condition, shows each.

- *Production order.* When matching an order raises, its bucket ends as FAIL, and the orders behind it are published all the same; a later
  run matches the bucket again, whose orders a resumed run no longer counts (`stage1_production.py:486`). So the published orders are not the first eligible ones
  ("Process candidates in stable order until each frozen quota is met", `:396`). `DateIsSound` states `PublishedInOrder` for `failures = 0`.
- *Training by hand.* `ByHand = TRUE` lets the worker be launched with `--force` beside a finished model. The old files stay: a crash after the
  first new checkpoint leaves a PASS manifest that describes another one, and a training that finds no stable epoch does not stop with "training completed without a stable
  checkpoint" but loads the old checkpoint (`stage2/v5/train_worker.py:616-617`). The protocol runner forces only when one of the two files is missing.
  `Reproducible` says that a repeated training gets the scores it got before; only `ReportsTheBest` needs it.
- *Concurrent pipeline runs.* `UniqueUnderAHeader` and `KeepsItsRows` are stated for `serial`. Without that condition two runs may find no registry, and one empties the file over the rows of the
  other (`registry.py:44-46`), against "Append-only run registry" (`registry.py:1`); or both find their configuration unlisted (`run_pipeline.py:76`) and add it. `jobs` explores these overlaps, for `SettledIsSettled`.

`IdleMovement` takes for granted that the last dispatch plus the longest drive allowed is within the drain limit (`DrainAssumption`), as in the frozen
experiment settings; otherwise `finalize` would raise.

## 4. Proofs

Eight modules hold proofs. Every theorem is for any values of the constants that satisfy the assumptions its component's module names; the
bounds of section 3 are only numbers.

### Simulator v3

`ReservationManagerProofs` proves, for any sets of requests and vehicles, any
length of a microsecond and any bounds:

| Theorem | |
|---|---|
| `TypeCorrectness` | `Spec => []TypeOK` |
| `AuditPasses` | `Spec => []Audit` |
| `ReservationsFollowEachOther` | `Spec => []LifetimesDisjoint` |
| `NothingExpiresEarly` | `Spec => []ExpiredIsDue` |
| `FailuresAreLogged` | `Spec => []FailureLedger` |
| `RecordsAreFinal` | `Spec => ClosedForever` |
| `ImplementsBook` | `Spec => BookSpec` |

They rest on the assumptions `NoVehicleAssumption`, `NoRequestAssumption`, `NoTimeAssumption`, `BoundsAssumption` and
`MicrosecondAssumption` of the module (a null value is no vehicle, request or time; a
microsecond is a positive number of ticks). The argument is one inductive invariant,

    IInv == TypeOK /\ Audit /\ Stamped /\ LifetimesDisjoint /\ ExpiredIsDue /\ FailureLedger

`Audit` is needed by almost every step: because the open records of a request
are at most one, "the newest open record" that the code searches for is *the* open record, and closing it is what makes the
dictionaries and the log agree again. `Stamped` is the strengthening no run asks for: no stored
time is later than the floored current time, and a closed record has a close time. Without it, a new record could be stamped before the close of
an earlier one, and `LifetimesDisjoint` would not be inductive. Flooring enters through two
lemmas: `EventTimestamp` is monotone and idempotent. All calls that close records go
through lemma `CloseStep`; `Create` and `Tick` have their own.

`SimulationEngineProofs` proves, for any fleet, demand, calendar and delays:

| Theorem | | under |
|---|---|---|
| `TypeCorrectness` | `Spec => []TypeOK` | |
| `EventOrderHolds` | `Spec => EventOrder` | |
| `RideRecordsHold` | `Spec => []RideRecordsAgree` | E |
| `EconomicsHold` | `Spec => []EconomicsOfTheDriver` | E |
| `HeldBehindItsRideHolds` | `Spec => []HeldBehindItsRide` | E |
| `OffersHold` | `Spec => []OfferDiscipline` | E |
| `PointersImplementBook` | `Spec => PointersSpec` | E |
| `EngineImplementsService` | `Spec => ServiceSpec` | E |
| `NoHandlerRaisesHolds` | `Spec => []NoHandlerRaises` | E, P |
| `CopiesHold` | `Spec => []CopiesAgree` | E, P |
| `DeadlinesHold` | `Spec => []DeadlinesHonoured` | E, P, V |
| `LegsStartInSessionHolds` | `Spec => LegsStartInSession` | E, P, R, S |
| `DayIsClosedHolds` | `Spec => []DayIsClosed` | E, P, D |

All rest on `KindsAssumption` (no vehicle is both human-driven and automated), `TimesAssumption` and
`DelaysAssumption` (the driver's answer and every leg take time). The hypotheses are named in the module and stand in each theorem that needs them; the
instance of `fleet` satisfies all of them:

- E, `AnswersPrecedeEpochs`: an answer comes no later than the next epoch (10 s against 30 s in the configuration). Needed: `delay_beyond_epoch` violates what follows without it.
- P, `PickupsTakeTime`: the driving time to a pickup is at least the least duration of a leg. Needed: see `zero_eta`.
- V, `RevealedInTime`: a request is revealed before its latest pickup (`stage4/scripts/run_simulator_v3.py:93` adds 480 s to its time).
- R, `RidesOutlastAnswers`: a ride is predicted to take at least as long as an answer. A fact about the demand: the code compares neither with the other.
- S, `SessionsHaveLength`: a session ends after it starts. The code does not check it; an empty session would be ended before it starts (`simulation_engine.py:71`).
- D, `DayOutlastsRides`: the run ends after the last ride that may be promised (`run_simulator_v3.py:204`).

`TypeOK` is inductive: it types plans as sequences of stops, and an ordinary offer
carries the plan of its own request, without which an accepted offer might start no leg. `EventOrder` needs

    Ordered == ~finalized /\ ~Raised => \A e \in events : Follows(e, clock, priority)

so that whatever is in the queue may still be handled in order. Lemma `NextHandles` reduces a step to
`Handles(kind, id)`: it pops an event of this kind and pushes nothing overdue. A leg that starts ends later (`StartNextLegType`), an answer
takes time, `PLAN_INVALIDATED` has a later priority than the `LEG_COMPLETED` that pushes it, and an expiry lies ahead
because an accepted reservation is in time and the creation of a late one raises (`ReservedInTime`). That the cases of
`EpochRequest` and `EpochVehicle` exclude each other is proved on the way (`EpochChoices`): no vehicle of an epoch is both moved and matched, or matched
and queued behind its own ride.

The records need one invariant for all of them, because none of the properties is inductive: a leg that ends, an answer and an epoch each rely on
what another handler left behind. `RecordsFit` says it vehicle by vehicle (`VehicleFits`: status, leg, plan, offer and reservation of one vehicle go together) and
request by request (`HoldFits`: the status of a request, its vehicle, the ledger and that vehicle's reservation), with what waits in the queue
for them (`QueueFits`, `RevealFits`, `ExpiryFits`, `AnswersFit`: each offer has its answer ahead, and the answer comes before the next epoch). `Agreed` keeps it while the run is
live, and the part of it that survives a raise or the end of the day after that. The two refinements then look only at how far a request goes
in one step (`WaitStep`, `CommitStep`, `RideStep`). On top of `Agreed`:

- `Unraised`, by the guards that make `create` and `transition` legal;
- `PatienceFits` (`EpochsAhead`: while a request is open, every epoch after its deadline is still queued) and `Timely` (`AnswersInTime`, `LegsInTime`: a leg to a pickup, and an answer that will
  start one, is in time, by the margin the plan validator left);
- `SessionsFit` (an idle vehicle is in its session, whose end is queued). A follow-up leg is not checked against the session by any handler: it is in time because the validator counted the whole ride.

Dropping the stops of a request from a plan is a recursive function. What its proof needs is
induction, which is done by the least element of the set of counterexamples (`LeastElement`, from the library's
`WFMin`), since induction theorems that take a predicate cannot be used.

### Dispatch and jobs

| Module | Theorem | |
|---|---|---|
| `FleetDayProofs` | `CalendarIsExact` | `Spec => AnswersTheWindows` |
| | `MatchingIsSoundHolds` | `BMSpec => MatchingIsSound` |
| | `MovementsAreSoundHolds` | `DrainAssumption`: `IMSpec => MovementsAreSound` |
| `RollingDispatchProofs` | `BudgetIsKept` | `Spec => []ExposureWithinBudget` |
| | `RecordsAgree` | `Spec => []RidesAgree` |
| | `PatienceIsKept` | `Spec => []PatienceIsFair` |
| `RouteBankProofs` | `BankAccounts` | `Spec => []BankIsAccounted` |
| | `NeverTooMany` | `Spec => [](TypeOK /\ NeverOvercounted)` |
| | `RowsAreCounted` | `Spec => []CountsTheRows` |
| `RouteCachesProofs` | `ShadowSimulates` | `ShadowSpec => []Simulates` |
| | `CacheHolds` | `CellsSpec => []CacheIsFaithful` |
| | `CachesAreFaithfulHolds` | `ShadowSpec /\ CellsSpec => []CachesAreFaithful` |
| | `PlanIsQueried` | `DemandPlan(s.cache, s.lru, list) = After(Sequentially({}), s, list).queried` |
| | `EpochIsFaithfulHolds` | `EpochSpec => []EpochIsFaithful` |
| `ExperimentRunnerProofs` | `BatchIsSoundHolds` | `WorkersDieWithDriver`: `Spec => []BatchIsSound` |
| | `RunnerImplementsLifecycle` | `WorkersDieWithDriver`: `Spec => LifecycleSpec` |
| `JobsProofs` | `TrainingKeepsItsWord` | `~ByHand, Reproducible`: `TWSpec => []TrainingIsSound` |
| | `SerialRunsAreUnique` | `RRSpec => []UniqueUnderAHeader` |
| | `RegistryIsKept` | `RRSpec => RegistryIsSound` |
| | `ResumedDayIsUncut` | `CRSpec => []ResumedIsUncut` |
| | `DateIsSoundHolds` | `AlwaysResumed`: `S1Spec => []DateIsSound` |

- `FleetDayProofs`, calendar. `Cursors`: what the cursors passed lies behind the clock, and `active = started \ ended`. `ended \subseteq started`
  needs windows of no negative length; that is why taking the ends off after putting the starts on loses nothing.
- Matching (from `MatchingAssumption`). `MatchingInv`: the chosen edges share no request and no vehicle (`Apart`), the swap table is that of the budgets at hand
  (`TablesCurrent`), and the rounds left are at least as many as the edges a round can still move (`RoundsEnough`). Each fairness swap takes one edge away from those of a zone with a surplus
  (`SurplusEdges`), and each repair one HV edge (`HVEdges`): a replacement that lowers the stress of a zone for the same request can only be an AV's. So
  a bounded loop that runs out of rounds has nothing left to do, and `FairnessComplete` and `BudgetHeld` do not depend on the bound.
  Counts and stress are cardinalities (`Units`, one unit for each point of weight), so one lemma about finite sets says what a swap does to both (`CountsOfSwap`).
- Movements (from `MovementAssumption` and `DrainAssumption`). `MovementInv`: an open row of the log and the leg of its vehicle are one movement (`RowsFit`, `LegsFit`), the rows of a vehicle follow
  each other (`RowsFollow`), and between two moves of the clock every leg under way ends in the future (`LegsAhead`). `DrainAssumption` says that what an epoch starts ends before the drain
  limit: the last epoch is at 85500 s, no drive is longer than 300 s, and the drain lasts until at least 86400 s. A duration of zero is
  refused by the code, which is why `Etas` has no zero. That an epoch moves towards its quotas (`EpochHelps`) comes from the number of vehicles that go to a node, counted against its shortage.
- `RollingDispatchProofs` (from `DispatchAssumption`: demand is finite, patience is at least an interval, and patience and the end of demand are multiples of it). `Accounts`: the totals are the number and the burden of the requests given to an AV. A round hands over only requests that nobody has, so what it
  adds is disjoint from what was counted (`RoundGivesToAV`) and the sums are cardinalities of a union (`BurdenOfBoth`); no other step assigns a request. The budget then follows for the sums over those requests. `Places` relates `assigned`, `waiting`, `expired` and the rides; `RidesAgree` alone is
  not inductive, because a request may be assigned only if it waits unassigned. `Timing` says what has been
  handed over by which phase, and that `now` is a multiple of the interval (`Rounds`): so the last round before a deadline is less than an interval
  before it, and there the request is critical. Without the alignment of `now` a request could expire between two rounds.
- `RouteBankProofs` (from `BankAssumption`). `Bank` says in whose hands each block is, by program counter (`Hands`), and what a caller that leaves has emptied (`Leaving`); one lemma, `Kept`, serves all steps that only move entries. `Counting` extends the count to every place at which the writer may still write.
  `Overcounts`: neither the counter nor a value that a thread has loaded and not yet stored is more than the entries lost (`Losses`, one pair for each); a store of a stale value then adds no more to the counter than to the losses (`AdditionKeeps`).
  It needs that no thread comes back to the middle of an addition (`Going`).
- `RouteCachesProofs`, the simulated cache. `Fits`: the keys that are not evicted nor in the tail (`Gone`), in their old order, followed by the tail, are the real cache; no key is both evicted and in the tail; and what the iterator has passed is gone for good.
  Without the last an eviction might overlook the oldest key; with it the victim is the head of the real cache (`EvictFits`). What is left of a sequence without some keys (`Without`) is a recursive function, unfolded by `LeftUnfolds`; its
  lemmas come from one induction over sequences, stated for a set of sequences and not for an operator (`AppendInduction`).
- The epochs of routes (from `EpochAssumption`: the arcs are keys of the exact cache, batches are lists of them, `NoArc` is none). `InStep`: the replay, followed by what asking for the rows it still has would do, is where sequential calls
  are after as many batches (`After(Asked(broken), Now, rows) = Sequence[number]`). So when nothing is left the two are equal, answers, aliases and the order of the exact cache alike (`ReplaysInOrder`); it holds because an answer, from wherever, is
  what a query would give (`AnswersAreTrue`). `QueuesAhead` and `DemandsAsPlanned`: what may still be looked up was planned, and stays answered. For the queue adapter, because an alias once filled stays filled; for the demand
  adapter, because its plan is a run of the same loops on simulated caches: `PlansFor` relates the two states, alias by alias and by `Fits` of the shadow, and every loop keeps it (`RunTogether`). That is `PlanIsQueried`.
  `FailuresAreBacked`: a failed query that no row has used yet is one more than the failures reported, which makes `FailuresAreOwn` inductive, also when queries are flaky. `NothingLeftOut` is
  `NothingOmitted` for the batches begun. TLC checked this invariant (`EpochInv`) on the instance of `routes` before it was proved.
  The loops need induction over the length of a sequence. It is done once, for a set of pairs of an index and a state that every step keeps (`RunKeeps`, by the least counterexample); each loop then names its own set.
- The cache of simulator v3 (from `CellAssumption`). `CellsInv`: the entries are in the order in which their cells were asked for last (`InOrder`), and a cell that was asked for and is not held was asked for before every cell that is, with the cache full
  (`Forgotten`). `RecentCellsAreHeld` alone says nothing about the order, and so not which entry the next miss evicts. From both, a cell that is missing though asked for since question `i` makes one cell more than the capacity since then (`RecentAreHeld`).
- `ExperimentRunnerProofs` (from `RunnerAssumption`). `WorkersDieWithDriver` is `~OrphansSurvive`; `driver_crash` shows what happens without it. The invariant relates three tables: the driver's
  rows, pending and running (`TablesFit`, `PendingFits`, `RunningFits`), the status files, and the workers. `WorkerFits`: a process that lives is in the running table, and the status of its
  scenario is where its own last step left it; so two live workers never share a scenario, and the driver's write of PENDING or FAILED never hits one that works. `CompletedFits`: a completed scenario is the work of one process that has ended.
  `NothingLost`: what a batch selected is in one of its tables or has an outcome. The selection of a phase is a recursive function over the registry (`PhaseRows`), proved to keep its rows distinct.
- `JobsProofs`, training (from `TrainAssumption`). `Course` (patience is the distance to the best epoch), `ManifestKept` (a manifest is written only beside its checkpoint, and the protocol
  runner does not start over it), `Repeatable` (what a repeated training will find again), `Typed` (a worker at work has been launched).
- Registry (from `RegistryAssumption`: the header, a torn line and the absence of a file are no rows of runs). `RegistryTypes` holds for any overlap: whoever is past opening has a file. `Turns`, for runs that take turns: one is under way; the one that creates saw no
  file and the one that writes the header has it empty; under a header the one that appends has seen that its configuration is not listed, and a registry without a header has at most two rows, and at most one while a run is about to append
  (with two, the look-up raises). `SettledStays` looks at one step of any overlap: a header, once there, is moved only by emptying the file.
- Checkpoints (from `ResumeAssumption`). `Resumable`: the engine at hand, and the one in a whole file, are states of the uncut day. The order of ties is in them, because the counter that numbers the entries is saved with the queue.
  The uncut day is a recursive function, unfolded by `UncutUnfolds`.
- Stage 1 production (from `ProductionAssumption`). `AlwaysResumed` is `Resumes \subseteq {TRUE}`, as `stage0/tools/run_stage1_production_shard.py:91` starts it; a run without `--resume` replaces products under a PASS manifest. `CountFits`: the PASS manifests add
  up to no more than the quota, and the run has counted them all; failed buckets, which a run counts and a resumed one does not, make it an inequality. When no order raised it is an equality (`DiskInOrder`, `OrderFits`), and `NoneLeftOut` says that while the quota is
  not reached a bucket that passed has all its eligible orders: without it the next bucket might publish an order before one that was left out. `TheFirstOnes` proves that a bucket takes the first eligible ones, no more than the quota has room for, and all
  or exactly so many; `TotalMoves` that one manifest changes the sum by its own count.

Model-checked only:

- Liveness: `EveryRequestCloses`, `EveryoneIsAnswered`, `BatchEnds`, `CallsReturn`. The prover handles neither fairness nor `ENABLED`.

Every invariant and every action property of a passing run is stated by a theorem, some under the hypotheses given beside it above.

## 5. Plan

1. Safe release (fallback over table levels), the apportionment of AV targets, generic deferral and driver acceptance of the dispatch.
2. The shell runner and the promotion of canonical manifests.

## 6. Not modelled

Most of the repository's lines are batch processing: `stage0` map matching (geometry, hidden Markov models), `stage1` labels, `stage2` features, losses and metrics,
`stage3` and `stage35` operational design domain tables, the replay foundation, audits and reports. They read tables and write tables, one after the other, without state
between records; what is correct about them is numerical. Where they do have
control, around crashes and quotas, it is modelled (`Stage1Production`, `TrainWorker`).

In the simulator: prices and utilities (real arithmetic without control), ODD predicates (the constant `OddFeasible`), logging. In the
dispatch: the cost levels of the solver, generic deferral, driver acceptance, the older repositioning policy, the older synchronous disk cache and the grouped sources of `routing_v4`. FleetPy's core is external: the repository uses it but does not contain it. The precise coverage of
each part is in the notes of `PROJECT.json`.
