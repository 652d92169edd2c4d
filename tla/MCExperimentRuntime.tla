------------------------ MODULE MCExperimentRuntime -------------------------
EXTENDS ExperimentRuntime, TLC

Symmetry == Permutations(Request)
=============================================================================
