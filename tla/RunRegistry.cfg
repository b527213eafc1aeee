SPECIFICATION RRSpec
CONSTANTS
  Runs = {r1, r2, r3, r4}
  Configs = {c1, c2}
  Absent = Absent
  Header = Header
  Torn = Torn
INVARIANTS UniqueCanonicalSuccess
CHECK_DEADLOCK FALSE
