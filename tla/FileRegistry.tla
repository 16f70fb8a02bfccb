---------------------------- MODULE FileRegistry ----------------------------
(***************************************************************************)
(* What the registry of published files promises to those who download     *)
(* them: a file is registered once and for good, when its period is over,  *)
(* and it is generated from measurements there are, all of that period     *)
(* and never none.                                                         *)
(***************************************************************************)
CONSTANTS
  Files,
  Rows,       \* the measurements there may be
  RowsFor     \* the measurements that belong into each file

VARIABLES
  rows,       \* the measurements there are
  closed,     \* the files whose period is over
  registry    \* the content of each registered file, as {content}

Init ==
  /\ rows \in SUBSET Rows
  /\ closed \in SUBSET Files
  /\ registry = [k \in Files |-> {}]

Measure ==
  /\ rows \subseteq rows' /\ rows' \subseteq Rows
  /\ UNCHANGED <<closed, registry>>

Pass ==
  /\ closed \subseteq closed' /\ closed' \subseteq Files
  /\ UNCHANGED <<rows, registry>>

Register(k) ==
  /\ k \in closed
  /\ registry[k] = {}
  /\ \E content \in (SUBSET (rows \cap RowsFor[k])) \ {{}} :
       registry' = [registry EXCEPT ![k] = {content}]
  /\ UNCHANGED <<rows, closed>>

Next == Measure \/ Pass \/ \E k \in Files : Register(k)

registryVars == <<rows, closed, registry>>

Spec == Init /\ [][Next]_registryVars
=============================================================================
