---- MODULE MCImportCycle ----
\* One source of two stations in two time zones, ticks of half a day.
EXTENDS ImportCycle, TLC

CONSTANTS a, b, A, B, s

MCStationOf == a :> A @@ b :> B
MCSourceOf == A :> s @@ B :> s
MCRefreshers == {s, RollupJob}
MCHistory == {<<b, 0>>}
MCPublished == {<<a, 4>>, <<a, 5>>}

MCCalendar ==
  [c \in Channels |-> [t \in Span |-> (t + (IF c = a THEN 10 ELSE 11)) \div 2]]
====
