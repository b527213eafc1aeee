------------------------------ MODULE RouteCache ----------------------------
(***************************************************************************)
(* The routing facade of simulator v3 (routing_engine.py): pickup routes   *)
(* are computed from exact positions and kept in a bounded LRU cache under *)
(* positions rounded to cells, so a hit answers with the route of another  *)
(* position of the same cell.  A query is the position it asks about; what *)
(* a route says depends on it alone.                                       *)
(***************************************************************************)
EXTENDS Naturals, Sequences, SequencesExt, FiniteSets

CONSTANTS Positions, Cells,
          Cell,       \* [Positions -> Cells]: key, the rounded coordinates
          Capacity,   \* max_cache_entries
          MaxQueries  \* bound: queries

ASSUME CellAssumption ==
  Cell \in [Positions -> Cells] /\ Capacity \in Nat /\ MaxQueries \in Nat

VARIABLES
  cells,              \* _cache: entries [cell, position], oldest first
  cellQueries, hits,  \* query_count, cache_hit_count
  asked,              \* history: every position asked for
  answer              \* the position whose route the last query returned

cellVars == <<cells, cellQueries, hits, asked, answer>>

Entry == [cell : Cells, position : Positions]

CellsInit == cells = <<>> /\ cellQueries = 0 /\ hits = 0 /\ asked = <<>> /\ answer = {}

Cached(cell) == {i \in DOMAIN cells : cells[i].cell = cell}

(* A hit moves the entry to the end.                                       *)
MovedToEnd(i) == Append(RemoveAt(cells, i), cells[i])

(* A miss stores the route and evicts the oldest entry beyond the bound.   *)
Kept(e) ==
  IF Capacity = 0 THEN cells
  ELSE IF Len(cells) < Capacity THEN Append(cells, e) ELSE Tail(Append(cells, e))

Hit(p) == \E i \in Cached(Cell[p]) :
            /\ cells' = MovedToEnd(i) /\ hits' = hits + 1 /\ answer' = {cells[i].position}

Miss(p) == /\ Cached(Cell[p]) = {}
           /\ cells' = Kept([cell |-> Cell[p], position |-> p])
           /\ hits' = hits /\ answer' = {p}

Query(p) == /\ cellQueries < MaxQueries /\ cellQueries' = cellQueries + 1
            /\ asked' = Append(asked, p)
            /\ Hit(p) \/ Miss(p)

CellsNext == \E p \in Positions : Query(p)

CellsSpec == CellsInit /\ [][CellsNext]_cellVars

-----------------------------------------------------------------------------
(* No key is stored twice, and the cache keeps to its bound.               *)
CellsTypeOK ==
  /\ cells \in Seq(Entry) /\ Len(cells) <= Capacity
  /\ \A i, j \in DOMAIN cells : cells[i].cell = cells[j].cell => i = j
  /\ cellQueries \in Nat /\ hits \in 0..cellQueries /\ asked \in Seq(Positions)
  /\ answer \subseteq Positions

(* The cells asked for last are in the cache, up to its bound: a vehicle   *)
(* that is asked about again and again is never recomputed, whatever else  *)
(* is asked.                                                               *)
CellsSince(i) == {Cell[asked[j]] : j \in i..Len(asked)}

RecentCellsAreHeld ==
  \A i \in DOMAIN asked :
    Cardinality(CellsSince(i)) <= Capacity =>
      CellsSince(i) \subseteq {e.cell : e \in ToSet(cells)}

(* A route is of the cell that was asked for, and of the very position     *)
(* unless that cell was asked for before: what a query answers depends on  *)
(* the order of the queries only within a cell (routing_engine.py:67).     *)
AnswersTheCell ==
  \A p \in answer :
    /\ Cell[p] = Cell[Last(asked)]
    /\ p # Last(asked) => \E i \in 1..(Len(asked) - 1) : asked[i] = p

CacheIsFaithful == CellsTypeOK /\ RecentCellsAreHeld /\ AnswersTheCell
=============================================================================
