---------------------------- MODULE BalancedMatch ---------------------------
(***************************************************************************)
(* The Three-Stakeholder Balanced matching of simulator v3                 *)
(* (matching/balanced_match.py, called by fleet_controller.choose_edges):  *)
(* a maximum matching of an epoch's edges, bent by bounded loops of swaps  *)
(* to zone service targets and then to zone budgets of HV stress, which    *)
(* persist over the epochs of a period (one time bin).                     *)
(* Stress is integral and budgets are in hundredths of it; which of two    *)
(* equally stressed edges is taken, a matter of contribution, is open.     *)
(***************************************************************************)
EXTENDS Integers, FiniteSets, FiniteSetsExt

CONSTANTS Requests,
          Cars, HV,                \* the vehicles, and those human driven
          Zones, Zone, Stress,     \* origin_zone and stress_value of requests
          StressShare,             \* stress_budget_share_of_pending_load, in %
          MinServiceRate,          \* minimum_zone_service_rate, in %
          MaxTarget,               \* maximum_zone_service_target_per_epoch
          MaxEdges, MaxEpochs      \* bounds: edges of an epoch, epochs of the period

(* A stress is a mean of probabilities, the rates are configured shares.   *)
ASSUME MatchingAssumption ==
  /\ IsFiniteSet(Requests) /\ IsFiniteSet(Cars) /\ IsFiniteSet(Zones)
  /\ Zone \in [Requests -> Zones] /\ Stress \in [Requests -> Nat]
  /\ {StressShare, MinServiceRate, MaxTarget, MaxEdges, MaxEpochs} \subseteq Nat

VARIABLES
  total, remaining,   \* [Zones -> stress budgets of the period]
  target, served,     \* [Zones -> service target and requests served]
  stage, epochs,
  budgets, targets,   \* the tables of this epoch, as solve() sees them
  admissible, chosen, \* edges: [request, vehicle]
  rounds,             \* rounds the running loop has left
  maximum, drops,     \* maximum_cardinality, stress_drops
  consumed            \* history: [Zones -> HV stress consumed in the period]

state == <<total, remaining, target, served>>
tables == <<budgets, targets, admissible, maximum>>
bmVars == <<state, stage, epochs, tables, chosen, rounds, drops, consumed>>

Edge == [request : Requests, vehicle : Cars]
IsHV(e) == e.vehicle \in HV
ZoneOf(e) == Zone[e.request]
StressOf(e) == 100 * Stress[e.request]

(* The sum of of[x] over the x in S, as the number of the units it counts. *)
Units(of, S) == UNION {{x} \X (1..of[x]) : x \in S}
Load(of, S) == Cardinality(Units(of, S))

Count(edges, z) == Cardinality({e \in edges : ZoneOf(e) = z})
HVStress(edges, z) ==
  100 * Load([e \in edges |-> Stress[e.request]], {e \in edges : IsHV(e) /\ ZoneOf(e) = z})

RequestsOf(edges) == {e.request : e \in edges}
VehiclesOf(edges) == {e.vehicle : e \in edges}

IsMatching(edges) == /\ Cardinality(RequestsOf(edges)) = Cardinality(edges)
                     /\ Cardinality(VehiclesOf(edges)) = Cardinality(edges)

(* sparse_max_cardinality_match: by whatever weights, of maximum size.     *)
MaximumMatchings(edges) ==
  LET matchings == {m \in SUBSET edges : IsMatching(m)}
  IN {m \in matchings : \A n \in matchings : Cardinality(n) <= Cardinality(m)}

CeilPercent(rate, n) == (rate * n + 99) \div 100
Larger(a, b) == IF a > b THEN a ELSE b
Smaller(a, b) == IF a < b THEN a ELSE b

Minus(a, b) == IF a > b THEN a - b ELSE 0

-----------------------------------------------------------------------------
BMInit ==
  /\ total = [z \in Zones |-> 0] /\ remaining = [z \in Zones |-> 0]
  /\ target = [z \in Zones |-> 0] /\ served = [z \in Zones |-> 0]
  /\ stage = "idle" /\ epochs = 0
  /\ budgets = remaining /\ targets = target
  /\ admissible = {} /\ chosen = {} /\ rounds = 0 /\ maximum = 0 /\ drops = 0
  /\ consumed = [z \in Zones |-> 0]

(* prepare_epoch: the budget of a zone follows the largest pending load    *)
(* seen, and what was consumed stays consumed.                             *)
Budget(pending, z) ==
  StressShare * Load(Stress, {r \in pending : Zone[r] = z})

Target(pending, z) ==
  Smaller(MaxTarget,
          CeilPercent(MinServiceRate, Cardinality({r \in pending : Zone[r] = z})))

RaisedBudget(pending, z) == remaining[z] + Minus(Budget(pending, z), total[z])

(* The edges solve() is given: those that passed the filters, less the HV  *)
(* edges whose stress alone is beyond the budget.                          *)
Admissible(edges, b) == {e \in edges : IsHV(e) => StressOf(e) <= b[ZoneOf(e)]}

(* Mutant: the loop tries one swap.                                        *)
OneRound(m) == 1

FairnessRounds(m) == m + 1

Prepare ==
  /\ stage = "idle" /\ epochs < MaxEpochs /\ epochs' = epochs + 1
  /\ \E pending \in SUBSET Requests, k \in 0..MaxEdges :
     \E edges \in kSubset(k, [request : pending, vehicle : Cars]) :
       /\ total' = [z \in Zones |-> Larger(total[z], Budget(pending, z))]
       /\ remaining' = [z \in Zones |-> RaisedBudget(pending, z)]
       /\ target' = [z \in Zones |-> Larger(target[z], Target(pending, z))]
       /\ budgets' = remaining'
       /\ targets' = [z \in Zones |-> Minus(target'[z], served[z])]
       /\ admissible' = Admissible(edges, budgets')
  /\ chosen' \in MaximumMatchings(admissible')
  /\ maximum' = Cardinality(chosen')
  /\ stage' = "fairness" /\ rounds' = FairnessRounds(maximum') /\ drops' = 0
  /\ UNCHANGED <<served, consumed>>

-----------------------------------------------------------------------------
(* A round of the fairness loop: a request of a zone that lacks service    *)
(* takes the vehicle of one whose zone has more than its target.           *)
Deficit(z) == Minus(targets[z], Count(chosen, z))

Surplus(e) == Count(chosen, ZoneOf(e)) > targets[ZoneOf(e)]

Replaces(e, incumbent) ==
  /\ Deficit(ZoneOf(e)) > 0 /\ e.request \notin RequestsOf(chosen)
  /\ incumbent.vehicle = e.vehicle /\ Surplus(incumbent)

Replacements == {swap \in chosen \X admissible : Replaces(swap[2], swap[1])}

FairnessSwap ==
  /\ stage = "fairness" /\ rounds > 0
  /\ \E swap \in Replacements : chosen' = (chosen \ {swap[1]}) \cup {swap[2]}
  /\ rounds' = rounds - 1
  /\ UNCHANGED <<state, stage, epochs, tables, drops, consumed>>

RepairRounds == maximum + 1

FairnessDone ==
  /\ stage = "fairness" /\ (rounds = 0 \/ Replacements = {})
  /\ stage' = "stress" /\ rounds' = RepairRounds
  /\ UNCHANGED <<state, epochs, tables, chosen, drops, consumed>>

(* A round of the stress loop: the most stressful HV edge of the zone most *)
(* in excess goes to a vehicle that is free, an AV first, or is dropped.   *)
Excess(z) == Minus(HVStress(chosen, z), budgets[z])

Violating == {z \in Zones : Excess(z) > 0}

Victims ==
  LET worst == {z \in Violating : \A y \in Violating : Excess(y) <= Excess(z)}
      stressed == {e \in chosen : IsHV(e) /\ ZoneOf(e) \in worst}
  IN {e \in stressed : \A f \in stressed :
        ZoneOf(f) = ZoneOf(e) => StressOf(f) <= StressOf(e)}

Alternatives(victim) ==
  {e \in admissible : /\ e.request = victim.request
                      /\ e.vehicle \notin VehiclesOf(chosen \ {victim})
                      /\ IsHV(e) => StressOf(e) < StressOf(victim)}

StressSwap ==
  /\ stage = "stress" /\ rounds > 0
  /\ \E victim \in Victims : \E e \in Alternatives(victim) :
       chosen' = (chosen \ {victim}) \cup {e}
  /\ rounds' = rounds - 1
  /\ UNCHANGED <<state, stage, epochs, tables, drops, consumed>>

StressDrop ==
  /\ stage = "stress" /\ rounds > 0
  /\ \E victim \in Victims : /\ Alternatives(victim) = {}
                             /\ chosen' = chosen \ {victim}
  /\ rounds' = rounds - 1 /\ drops' = drops + 1
  /\ UNCHANGED <<state, stage, epochs, tables, consumed>>

StressDone ==
  /\ stage = "stress" /\ (rounds = 0 \/ Violating = {})
  /\ stage' = "solved"
  /\ UNCHANGED <<state, epochs, tables, chosen, rounds, drops, consumed>>

(* consume: the chosen edges count as served, also when a driver refuses   *)
(* later; the HV edges take from the budget of their zone.  What solve()   *)
(* kept in its local variables is gone.                                    *)
Consume ==
  /\ stage = "solved" /\ stage' = "idle"
  /\ served' = [z \in Zones |-> served[z] + Count(chosen, z)]
  /\ remaining' = [z \in Zones |-> Minus(remaining[z], HVStress(chosen, z))]
  /\ consumed' = [z \in Zones |-> consumed[z] + HVStress(chosen, z)]
  /\ budgets' = [z \in Zones |-> 0] /\ targets' = [z \in Zones |-> 0]
  /\ admissible' = {} /\ chosen' = {} /\ rounds' = 0 /\ maximum' = 0 /\ drops' = 0
  /\ UNCHANGED <<total, target, epochs>>

BMNext == \/ Prepare \/ FairnessSwap \/ FairnessDone
        \/ StressSwap \/ StressDrop \/ StressDone \/ Consume

BMSpec == BMInit /\ [][BMNext]_bmVars

-----------------------------------------------------------------------------
(* Budgets, targets and stress are never negative; only edges that passed  *)
(* the filters are ever chosen.                                            *)
BMTypeOK ==
  /\ {total, remaining, target, served, budgets, targets, consumed}
       \subseteq [Zones -> Nat]
  /\ stage \in {"idle", "fairness", "stress", "solved"} /\ epochs \in 0..MaxEpochs
  /\ admissible \subseteq Edge /\ chosen \subseteq admissible
  /\ {rounds, maximum, drops} \subseteq Nat

(* The swaps keep a matching a matching: no vehicle is given to two        *)
(* requests and no request two vehicles (balanced_match.py:176-233).       *)
StaysMatching == IsMatching(chosen)

(* Service is given up only one request at a time for a stress budget:     *)
(* what solve() reports as reductions is all that is lost of the maximum.  *)
ServiceAccounted == Cardinality(chosen) + drops = maximum

(* The repair loop has rounds enough: when solve() returns, no zone is     *)
(* beyond its budget of HV stress (balanced_match.py:203-233).             *)
BudgetHeld == stage = "solved" => Violating = {}

(* Nor does the fairness loop stop early: it ends when no swap is left.    *)
FairnessComplete == stage = "fairness" /\ rounds = 0 => Replacements = {}

(* A fairness swap serves a zone that lacked service and makes no other    *)
(* zone lack it.                                                           *)
TotalDeficit == Load([z \in Zones |-> Deficit(z)], Zones)
FairnessHelps == [][stage = "fairness" /\ chosen' # chosen /\ stage' = stage =>
                      TotalDeficit' < TotalDeficit]_bmVars

(* Over all epochs of a period the budget is a ledger: what remains and    *)
(* what was consumed make up the total, which the largest load has granted *)
(* ("previously consumed stress is never reset", balanced_match.py:53-66). *)
BudgetLedger == \A z \in Zones : remaining[z] + consumed[z] = total[z]

(* What the epochs of a period rely on.                                    *)
MatchingIsSound ==
  /\ [](/\ BMTypeOK /\ StaysMatching /\ ServiceAccounted
        /\ BudgetHeld /\ FairnessComplete /\ BudgetLedger)
  /\ FairnessHelps
=============================================================================
