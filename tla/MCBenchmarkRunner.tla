-------------------------- MODULE MCBenchmarkRunner --------------------------
EXTENDS BenchmarkRunner, TLC

Symmetry == Permutations(Runs)
=============================================================================
