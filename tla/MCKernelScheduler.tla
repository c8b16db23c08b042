-------------------------- MODULE MCKernelScheduler --------------------------
(* Model-checking instances of KernelScheduler.                            *)
EXTENDS KernelScheduler

\* Processes are interchangeable: no property names one.
Symmetry == Permutations(Procs)
=============================================================================
