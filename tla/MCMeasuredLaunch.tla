-------------------------- MODULE MCMeasuredLaunch --------------------------
EXTENDS MeasuredLaunch, TLC

\* The model only compares manifests for equality.
Symmetry == Permutations(Measurable)
=============================================================================
