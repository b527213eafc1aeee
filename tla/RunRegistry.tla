----------------------------- MODULE RunRegistry ----------------------------
(***************************************************************************)
(* The run registry of the canonical pipeline, a CSV file: every smoke run *)
(* (run_pipeline.main) opens it, has the end-to-end audit done, and adds   *)
(* its row unless a canonical success of its configuration is listed.      *)
(* Nothing is locked: runs may be started one at a time or side by side.   *)
(***************************************************************************)
EXTENDS Naturals, Sequences, SequencesExt

CONSTANTS Runs, Configs, Absent,
  Header, Torn              \* lines that are not the row of a run

Line == Runs \cup {Header, Torn}

ASSUME RegistryAssumption ==
  Absent \notin Seq(Line) /\ Header \notin Runs /\ Torn \notin Runs /\ Header # Torn

VARIABLES
  serial,                   \* whether runs are started one at a time
  config,                   \* [Runs -> the configuration, config_hash]
  step,                     \* where each run is
  file                      \* the lines of the registry, or Absent

rrVars == <<serial, config, step, file>>

Stages == {"new", "create", "header", "audit", "check", "append", "done"}

RRInit ==
  /\ serial \in BOOLEAN /\ config \in [Runs -> Configs]
  /\ step = [r \in Runs |-> "new"] /\ file = Absent

Goes(r, from, to) ==
  /\ step[r] = from /\ step' = [step EXCEPT ![r] = to]
  /\ UNCHANGED <<serial, config>>

Lines == IF file = Absent THEN << >> ELSE file

(* The csv.DictReader takes the first line for the names of the fields.    *)
HasHeader == Lines # << >> /\ Lines[1] = Header

(* The rows of canonical successes of a configuration.                     *)
Listed(c) == {i \in DOMAIN Lines : Lines[i] \in Runs /\ config[Lines[i]] = c}

MayStart == serial => \A r \in Runs : step[r] \in {"new", "done"}

Creates == file = Absent

(* RunRegistry.__init__ looks whether the file is there, ...               *)
Open(r) ==
  /\ MayStart
  /\ Goes(r, "new", IF Creates THEN "create" ELSE "audit")
  /\ UNCHANGED file

(* ... opens it with mode "w", which empties it, whatever is in it, ...    *)
Create(r) == Goes(r, "create", "header") /\ file' = << >>

(* ... and writes the header when it closes it, from the start of the      *)
(* file: over what another run has added to the empty file meanwhile.      *)
Overwritten == IF Lines = << >> THEN << >> ELSE <<Torn>> \o Tail(Lines)

WriteHeader(r) ==
  /\ Goes(r, "header", "audit")
  /\ file' = IF HasHeader THEN file ELSE <<Header>> \o Overwritten

(* The audit script, and the checks of its manifest.                       *)
Audit(r) == (\E to \in {"check", "done"} : Goes(r, "audit", to)) /\ UNCHANGED file

(* A row without the field names raises KeyError.                          *)
Misread == ~HasHeader /\ Len(Lines) > 1

(* Mutant: the rows are searched for the run's id.                         *)
ReusesOwn(r) == HasHeader /\ \E i \in DOMAIN Lines : Lines[i] = r

Reuses(r) == HasHeader /\ Listed(config[r]) # {}

(* An existing success is reused.                                          *)
LookUp(r) ==
  /\ Goes(r, "check", IF Misread \/ Reuses(r) THEN "done" ELSE "append")
  /\ UNCHANGED file

AddRow(r) == Goes(r, "append", "done") /\ file' = Append(Lines, r)

(* The process is killed.                                                  *)
Kill(r) == step[r] \notin {"new", "done"} /\ Goes(r, step[r], "done") /\ UNCHANGED file

RRNext ==
  \E r \in Runs : \/ Open(r) \/ Create(r) \/ WriteHeader(r) \/ Audit(r)
                  \/ LookUp(r) \/ AddRow(r) \/ Kill(r)

RRSpec == RRInit /\ [][RRNext]_rrVars

-----------------------------------------------------------------------------
(* Only a registry that is there is read and written.                      *)
RRTypeOK ==
  /\ serial \in BOOLEAN /\ config \in [Runs -> Configs] /\ step \in [Runs -> Stages]
  /\ file = Absent \/ file \in Seq(Line)
  /\ (\E r \in Runs : step[r] \in Stages \ {"new", "create", "done"}) => file # Absent

AtMostOne(c) == \A i, j \in Listed(c) : i = j

(* "The entrypoint is intentionally idempotent for the same config hash.   *)
(* It does not silently retrain or replace a successful canonical run."    *)
(* (reproduction_commands.md:33): runs started one after the other add at  *)
(* most one canonical success of a configuration.  They do not: a run that *)
(* is killed before it has written the header leaves an empty registry,    *)
(* and the row of the next run is taken for the header by the one after.   *)
UniqueCanonicalSuccess == serial => \A c \in Configs : AtMostOne(c)

(* What is true of runs started one after the other: a registry that has   *)
(* its header lists no configuration twice, and one that lost its header   *)
(* takes in two rows at most, after which every run fails.                 *)
UniqueUnderAHeader ==
  serial => IF HasHeader THEN \A c \in Configs : AtMostOne(c) ELSE Len(Lines) <= 2

(* Nor do they ever lose a row ("Append-only run registry", registry.py:1).*)
KeepsItsRows == serial /\ file # Absent => file' # Absent /\ IsPrefix(file, file')

(* Side by side, and whoever is killed: once a success is listed under a   *)
(* header and nobody is about to empty the file, this stays so, and only   *)
(* runs that have looked it up already still add a row of that             *)
(* configuration.                                                          *)
Settled(c) == HasHeader /\ Listed(c) # {} /\ \A r \in Runs : step[r] # "create"
SettledIsSettled ==
  \A c \in Configs : Settled(c) =>
    /\ Settled(c)'
    /\ \A r \in Runs : config[r] = c /\ step'[r] = "append" => step[r] = "append"

(* What the registry does promise: no step lists a configuration twice     *)
(* under a header or takes a row away while runs take turns, and a success *)
(* on record is reused by every run that looks for it.                     *)
RegistryIsSound ==
  [][RRTypeOK' /\ UniqueUnderAHeader' /\ KeepsItsRows /\ SettledIsSettled]_rrVars
=============================================================================
