----------------------------- MODULE ImportFeed -----------------------------
(***************************************************************************)
(* What the import of a data source promises to those who read its table   *)
(* and its row: the table gains only records that the provider serves, and *)
(* the watermark moves to the time of such a record, past the anchor from  *)
(* which the run that stores it set out, or is reset.                      *)
(***************************************************************************)
EXTENDS Naturals

CONSTANTS
  Importers,    \* who may have a run of the source
  Records,      \* pairs of a channel and a timestamp
  NoTime        \* the watermark of a source that was never imported

VARIABLES
  served,       \* the records the provider has
  table,        \* the records imported
  watermark,
  running,      \* the importers with a run
  anchors       \* the watermark each run set out from

Init ==
  /\ served \in SUBSET Records
  /\ table \in SUBSET Records
  /\ watermark = NoTime
  /\ running = {}
  /\ anchors = [i \in Importers |-> NoTime]

Serve ==
  /\ UNCHANGED <<table, watermark, running, anchors>>
  /\ served \subseteq served' /\ served' \subseteq Records

Begin(i) ==
  /\ i \in Importers \ running
  /\ running' = running \cup {i}
  /\ anchors' = [anchors EXCEPT ![i] = watermark]
  /\ UNCHANGED <<served, table, watermark>>

\* The run goes on, or it ends.
End(ended) ==
  /\ running' = running \ ended
  /\ anchors' = [i \in Importers |-> IF i \in ended THEN NoTime ELSE anchors[i]]

MovesOn(i) == \E r \in served : r[2] > anchors[i] /\ watermark' = r[2]

\* A run saves records, stores a watermark, ends (also with its process), or some
\* of these at once.
Import(i) ==
  /\ i \in running
  /\ table \subseteq table' /\ table' \subseteq table \cup served
  /\ watermark' = watermark \/ MovesOn(i)
  /\ End({}) \/ End({i})
  /\ UNCHANGED served

Reset ==
  /\ watermark' = NoTime
  /\ UNCHANGED <<served, table, running, anchors>>

Next ==
  \/ \E i \in Importers : Begin(i) \/ Import(i)
  \/ Reset \/ Serve

feedVars == <<served, table, watermark, running, anchors>>

Spec == Init /\ [][Next]_feedVars
=============================================================================
