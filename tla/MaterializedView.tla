-------------------------- MODULE MaterializedView --------------------------
(***************************************************************************)
(* What the rollup tables promise to the analytics that read them in place *)
(* of the measurements: they count rows of the table and no others, a row  *)
(* they count they never forget, and the finer one counts no row that the  *)
(* coarser one leaves out, however refreshes interleave with imports.      *)
(***************************************************************************)
CONSTANT Rows

VARIABLES
  table,    \* the measurements
  fine,     \* the measurements counted in a bucket of the finer rollup
  coarse    \* the measurements counted in a bucket of the coarser one

Init == table \in SUBSET Rows /\ fine = {} /\ coarse = {}

Import ==
  /\ table \subseteq table' /\ table' \subseteq Rows
  /\ UNCHANGED <<fine, coarse>>

Refresh ==
  /\ fine \subseteq fine' /\ coarse \subseteq coarse'
  /\ fine' \subseteq coarse' /\ coarse' \subseteq table
  /\ UNCHANGED table

Next == Import \/ Refresh

Spec == Init /\ [][Next]_<<table, fine, coarse>>
=============================================================================
