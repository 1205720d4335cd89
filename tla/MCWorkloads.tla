----------------------------- MODULE MCWorkloads -----------------------------
EXTENDS Workloads, TLC

Interchangeable == Permutations(Servers)

=============================================================================
