------------------------ MODULE MCExperimentRunner --------------------------
EXTENDS ExperimentRunner

CONSTANTS s1, s2

MCScenarios == {s1, s2}
MCRegistry == <<s1, s2>>
MCPhases == {{s1}, {s1, s2}}
MCProducts == 1..2

=============================================================================
