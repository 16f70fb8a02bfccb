-------------------------- MODULE MCSourceImport --------------------------
(* Instances of SourceImport for TLC.                                      *)
EXTENDS SourceImport, TLC

\* The properties do not tell channels apart.
Symmetry == Permutations(Channels)
===========================================================================
