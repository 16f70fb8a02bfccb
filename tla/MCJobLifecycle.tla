-------------------------- MODULE MCJobLifecycle --------------------------
(* Instances of JobLifecycle for TLC.                                      *)
EXTENDS JobLifecycle, TLC

\* Job ids and process instances are interchangeable.
Symmetry == Permutations(Instances) \cup Permutations(Jobs)
===========================================================================
