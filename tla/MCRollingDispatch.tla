-------------------------- MODULE MCRollingDispatch -------------------------
EXTENDS RollingDispatch, TLC

CONSTANTS r1, r2, r3, hv, av

MCRequests == {r1, r2, r3}
MCVehicles == {hv, av}
MCAV == {av}
MCSession == {hv}
MCStart == [v \in MCVehicles |-> 0]
MCEnd == [v \in MCVehicles |-> IF v = hv THEN 9 ELSE 20]
MCRequestTime == [r \in MCRequests |-> IF r = r1 THEN 0 ELSE IF r = r2 THEN 1 ELSE 2]
=============================================================================
