------------------------- MODULE ScenarioLifecycle --------------------------
(***************************************************************************)
(* What the experiment runner promises about one scenario: it is waiting,  *)
(* worked on by exactly one worker, completed for good, or failed and      *)
(* perhaps tried again.                                                    *)
(***************************************************************************)
EXTENDS Naturals

CONSTANTS Scenarios, Workers, NoWorker

VARIABLES state,   \* [Scenarios -> the state its status file tells]
          owner    \* [Scenarios -> the worker named there, or NoWorker]

lifecycle == <<state, owner>>

States == {"ABSENT", "PENDING", "RUNNING", "COMPLETED", "FAILED"}

Init == /\ state = [s \in Scenarios |-> "ABSENT"]
        /\ owner = [s \in Scenarios |-> NoWorker]

Move(s, from, to, w) == /\ state[s] \in from
                        /\ state' = [state EXCEPT ![s] = to]
                        /\ owner' = [owner EXCEPT ![s] = w]

Submit(s) == Move(s, {"ABSENT", "PENDING", "FAILED"}, "PENDING", NoWorker)

Work(s, w) == Move(s, {"PENDING"}, "RUNNING", w)

Finish(s) == Move(s, {"RUNNING"}, "COMPLETED", owner[s])

Fail(s) == Move(s, {"PENDING", "RUNNING"}, "FAILED", NoWorker)

FailAtWork(s) == Move(s, {"RUNNING"}, "FAILED", owner[s])

Next == \E s \in Scenarios : \/ Submit(s) \/ Finish(s) \/ Fail(s) \/ FailAtWork(s)
                             \/ \E w \in Workers : Work(s, w)

Spec == Init /\ [][Next]_lifecycle
=============================================================================
