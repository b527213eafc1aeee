---------------------------- MODULE IdleMovement ----------------------------
(***************************************************************************)
(* The empty movements of idle vehicles in the controlled replay           *)
(* (dispatch/controlled_movement): after the dispatch of every Every-th    *)
(* second the surplus of a node is sent to nodes short of their quota, a   *)
(* vehicle under way can be interrupted for a customer, and FleetPy's      *)
(* callback closes the movement on arrival.  Which customers a vehicle     *)
(* gets, which nodes the router accepts and how long a drive takes are     *)
(* open; nodes stand for coordinates.                                      *)
(***************************************************************************)
EXTENDS Naturals, Sequences, FiniteSets, FiniteSetsExt, SequencesExt

CONSTANTS Fleet, Nodes, None,
  Start, End,             \* [Fleet -> Nat]: fixture_windows_s
  Interval, Every,        \* the time step, and the 900 s of an epoch
  MaxMoves, Etas,         \* max_moves, and the drives within max_eta_s
  Services,               \* lengths a customer's ride can have
  DayEnd, LastDispatch, DrainLimit

ASSUME MovementAssumption ==
  /\ IsFiniteSet(Fleet)
  /\ Start \in [Fleet -> Nat] /\ End \in [Fleet -> Nat]
  /\ Etas \subseteq Nat \ {0} /\ Services \subseteq Nat
  /\ {Interval, Every} \subseteq Nat \ {0}
  /\ {MaxMoves, DayEnd, LastDispatch, DrainLimit} \subseteq Nat
  /\ None \notin Nat /\ None \notin [target : Nodes, arrival : Nat]

(* physical_drain_limit_s lies beyond the arrival of every movement: the   *)
(* last epoch of the day and reposition_max_eta_s.                         *)
ASSUME DrainAssumption ==
  \A t \in 0..DayEnd, eta \in Etas :
    t < DayEnd /\ t % Every = 0 => t + eta + Interval <= DrainLimit + 1

VARIABLES
  now, phase,
  place,                  \* the node nearest to an idle vehicle
  route,                  \* FleetPy's empty leg: target and arrival, or None
  customer,               \* when the active order is delivered, or None
  moving,                 \* [Fleet -> the row of its movement, or 0]
  rows,                   \* the movements ever started
  quotas                  \* of the last epoch

imVars == <<now, phase, place, route, customer, moving, rows, quotas>>

Row == [vehicle : Fleet, target : Nodes, start : Nat, planned : Nat,
        end : Nat, status : {"IN_PROGRESS", "COMPLETED", "INTERRUPTED_BY_CUSTOMER"}]

NoQuotas == [n \in Nodes |-> 0]

IMInit ==
  /\ now = 0 /\ phase = "move"
  /\ place \in [Fleet -> Nodes]
  /\ route = [v \in Fleet |-> None] /\ customer = [v \in Fleet |-> None]
  /\ moving = [v \in Fleet |-> 0] /\ rows = << >>
  /\ quotas = NoQuotas

-----------------------------------------------------------------------------
Online(v) == Start[v] <= now /\ now < End[v]

IsInterruptible(v) == moving[v] # 0 /\ customer[v] = None /\ Online(v)

(* _available, for the finish-committed fixtures of the controlled replay. *)
Available(v) ==
  /\ Online(v) /\ customer[v] = None
  /\ route[v] = None \/ IsInterruptible(v)

(* _record_end: ends holds the rows that end now, and when.                *)
RecordEnd(ends, status) ==
  [i \in DOMAIN rows |->
     IF i \in DOMAIN ends THEN [rows[i] EXCEPT !.end = ends[i], !.status = status]
     ELSE rows[i]]

-----------------------------------------------------------------------------
(* The vehicles drive; receive_status_update closes finished movements     *)
(* (_completed), acknowledge_alighting frees the vehicles of finished      *)
(* orders.                                                                 *)
Arrived == {v \in Fleet : route[v] # None /\ route[v].arrival <= now}
Delivered == {v \in Fleet : customer[v] # None /\ customer[v] <= now}

EndOfLeg(v) == route[v].arrival

Move ==
  /\ phase = "move" /\ phase' = "dispatch"
  /\ LET done == {v \in Arrived : moving[v] # 0}
     IN /\ rows' = RecordEnd([i \in {moving[v] : v \in done} |->
                                EndOfLeg(CHOOSE v \in done : moving[v] = i)], "COMPLETED")
        /\ moving' = [v \in Fleet |-> IF v \in done THEN 0 ELSE moving[v]]
  /\ route' = [v \in Fleet |-> IF v \in Arrived THEN None ELSE route[v]]
  /\ customer' = [v \in Fleet |-> IF v \in Delivered THEN None ELSE customer[v]]
  /\ \E at \in [Delivered -> Nodes] :
       place' = [v \in Fleet |-> IF v \in Delivered THEN at[v]
                                    ELSE IF v \in Arrived THEN route[v].target
                                    ELSE place[v]]
  /\ UNCHANGED <<now, quotas>>

-----------------------------------------------------------------------------
(* interrupt_for_assignment, for the vehicles under way that are assigned. *)
Interrupted(taken) == {v \in taken : IsInterruptible(v)}

Dispatch ==
  /\ phase = "dispatch" /\ now <= LastDispatch /\ phase' = "reposition"
  /\ \E taken \in SUBSET {v \in Fleet : Available(v)} :
       LET stopped == Interrupted(taken)
       IN /\ rows' = RecordEnd([i \in {moving[v] : v \in stopped} |-> now],
                               "INTERRUPTED_BY_CUSTOMER")
          /\ moving' = [v \in Fleet |-> IF v \in stopped THEN 0 ELSE moving[v]]
          /\ route' = [v \in Fleet |-> IF v \in stopped THEN None ELSE route[v]]
          /\ \E length \in [taken -> Services] :
               customer' = [v \in Fleet |->
                              IF v \in taken THEN now + length[v] ELSE customer[v]]
  /\ UNCHANGED <<now, place, quotas>>

DispatchAfterMatching ==
  /\ phase = "dispatch" /\ now > LastDispatch /\ phase' = "tick"
  /\ UNCHANGED <<now, place, route, customer, moving, rows, quotas>>

-----------------------------------------------------------------------------
(* after_normal_dispatch.                                                  *)

IdleAt(n) == {v \in Fleet : moving[v] = 0 /\ Available(v) /\ place[v] = n}

Inflight(n) == {v \in Fleet : Online(v) /\ moving[v] # 0 /\ rows[moving[v]].target = n}

Supply(n) == Cardinality(IdleAt(n)) + Cardinality(Inflight(n))
Total ==
  Cardinality({v \in Fleet : Online(v) /\ moving[v] # 0})
    + Cardinality({v \in Fleet : moving[v] = 0 /\ Available(v)})

(* largest_remainder_quotas: whatever the shares of demand are, the quotas *)
(* of the nodes add up to the vehicles there are.                          *)
Quotas ==
  LET total == Total
  IN {q \in [Nodes -> 0..total] : MapThenSumSet(LAMBDA n : q[n], Nodes) = total}

Less(a, b) == IF a > b THEN a - b ELSE 0

(* Mutant: vehicles on their way to the node are forgotten.                *)
ShortageOfIdle(q, n) == Less(q[n], Cardinality(IdleAt(n)))

Shortage(q, n) == Less(q[n], Supply(n))

Retained(q, n) == Less(q[n], Cardinality(Inflight(n)))

(* The surplus vehicles: what is left of a node's idle ones beyond those   *)
(* retained (by vehicle id in the code, whichever they are here).          *)
Surpluses(q) ==
  {S \in SUBSET UNION {IdleAt(n) : n \in Nodes} :
     \A n \in Nodes : Cardinality(S \cap IdleAt(n)) = Less(Cardinality(IdleAt(n)), Retained(q, n))}

EndsInShift(v, eta) == now + eta <= End[v]

(* Vehicles of the surplus take nodes in need, a vehicle the first one the *)
(* router accepts, until MaxMoves have started.                            *)
Moves(q) ==
  LET deficit == [n \in Nodes |-> Shortage(q, n)]
      need == {n \in Nodes : deficit[n] > 0}
  IN {m \in UNION {[S -> need \X Etas] : S \in UNION {SUBSET T : T \in Surpluses(q)}} :
        /\ Cardinality(DOMAIN m) <= MaxMoves
        /\ \A v \in DOMAIN m : m[v][1] # place[v] /\ EndsInShift(v, m[v][2])
        /\ \A n \in need : Cardinality({v \in DOMAIN m : m[v][1] = n}) <= deficit[n]}

NewRow(v, move) ==
  [vehicle |-> v, target |-> move[1], start |-> now, planned |-> move[2],
   end |-> 0, status |-> "IN_PROGRESS"]

IsEpoch == now % Every = 0 /\ now < DayEnd

Reposition ==
  /\ phase = "reposition" /\ IsEpoch /\ phase' = "tick"
  /\ \E q \in Quotas : \E m \in Moves(q) :
       LET movers == SetToSeq(DOMAIN m)
       IN /\ quotas' = q
          /\ rows' = rows \o [i \in DOMAIN movers |-> NewRow(movers[i], m[movers[i]])]
          /\ moving' = [v \in Fleet |->
                          IF v \in DOMAIN m
                          THEN Len(rows) + (CHOOSE i \in DOMAIN movers : movers[i] = v)
                          ELSE moving[v]]
          /\ route' = [v \in Fleet |->
                         IF v \in DOMAIN m
                         THEN [target |-> m[v][1], arrival |-> now + m[v][2]]
                         ELSE route[v]]
  /\ UNCHANGED <<now, place, customer>>

NoEpoch ==
  /\ phase = "reposition" /\ ~IsEpoch /\ phase' = "tick"
  /\ UNCHANGED <<now, place, route, customer, moving, rows, quotas>>

-----------------------------------------------------------------------------
Outstanding == {v \in Fleet : customer[v] # None}
UnderWay == {v \in Fleet : moving[v] # 0}

Drained == now > LastDispatch /\ Outstanding = {} /\ UnderWay = {}

(* The loop of the replay: finalize raises on a movement not ended.        *)
Tick ==
  /\ phase = "tick"
  /\ IF Drained \/ now + Interval > DrainLimit
     THEN phase' = "ended" /\ now' = now
     ELSE phase' = "move" /\ now' = now + Interval
  /\ quotas' = NoQuotas
  /\ UNCHANGED <<place, route, customer, moving, rows>>

IMNext == Move \/ Dispatch \/ DispatchAfterMatching \/ Reposition \/ NoEpoch \/ Tick

IMSpec == IMInit /\ [][IMNext]_imVars

-----------------------------------------------------------------------------
IMTypeOK ==
  /\ now \in Nat /\ phase \in {"move", "dispatch", "reposition", "tick", "ended"}
  /\ place \in [Fleet -> Nodes]
  /\ route \in [Fleet -> [target : Nodes, arrival : Nat] \cup {None}]
  /\ customer \in [Fleet -> Nat \cup {None}]
  /\ rows \in Seq(Row) /\ moving \in [Fleet -> 0..Len(rows)]
  /\ quotas \in [Nodes -> Nat]

(* The manager's record and FleetPy's agree: a vehicle has an open row     *)
(* exactly while it drives that row's leg, and never with a customer       *)
(* aboard (controlled_movement.py:142-152).                                *)
MovementsAgree ==
  \A v \in Fleet :
    /\ moving[v] # 0 <=> route[v] # None
    /\ moving[v] # 0 =>
         /\ customer[v] = None
         /\ LET row == rows[moving[v]]
            IN /\ row.vehicle = v /\ row.status = "IN_PROGRESS"
               /\ route[v] = [target |-> row.target, arrival |-> row.start + row.planned]

Finished(i) == rows[i].status # "IN_PROGRESS"

(* A completed movement took exactly the time planned, an interrupted one  *)
(* less, and a vehicle's movements follow one another (finalize's          *)
(* "empty physical conservation failure" and "duplicated empty distance",  *)
(* controlled_movement.py:224-230).                                        *)
MovementsConserved ==
  \A i \in DOMAIN rows :
    /\ rows[i].status = "COMPLETED" => rows[i].end = rows[i].start + rows[i].planned
    /\ rows[i].status = "INTERRUPTED_BY_CUSTOMER" =>
         rows[i].start <= rows[i].end /\ rows[i].end < rows[i].start + rows[i].planned
    /\ \A j \in DOMAIN rows : i < j /\ rows[i].vehicle = rows[j].vehicle =>
         Finished(i) /\ rows[i].end <= rows[j].start

(* No empty second falls after the end of a shift (after_shift_time_s).    *)
NoneAfterShift ==
  \A i \in DOMAIN rows : Finished(i) => rows[i].end <= End[rows[i].vehicle]

(* finalize finds every movement ended ("empty physical drain incomplete", *)
(* controlled_movement.py:222).                                            *)
DrainComplete == phase = "ended" => UnderWay = {}

(* An epoch moves every node towards its quota: none is drained below it,  *)
(* none is filled beyond it, whatever is already under way.                *)
Between(x, a, b) == (a <= x /\ x <= b) \/ (b <= x /\ x <= a)
MovesTowardsQuota ==
  [][Reposition => \A n \in Nodes : Between(Supply(n)', Supply(n), quotas'[n])]_imVars

(* What the day's empty movements must satisfy together.                   *)
MovementsAreSound ==
  /\ [](IMTypeOK /\ MovementsAgree /\ MovementsConserved /\ NoneAfterShift /\ DrainComplete)
  /\ MovesTowardsQuota
=============================================================================
