-------------------------- MODULE MeasurementStore --------------------------
(***************************************************************************)
(* The measurements, the hourly and daily rollups, the bounds of each      *)
(* channel and the readiness flag, as PostgresMeasurementRepository keeps  *)
(* them.  save_batch is one transaction.  refresh_rollups is one           *)
(* transaction of several statements: each statement reads the             *)
(* measurements committed when it starts (READ COMMITTED), an advisory     *)
(* lock taken first serialises the refreshes, and what they wrote shows at *)
(* the commit.                                                             *)
(*                                                                         *)
(* A measurement is its channel and its timestamp (the natural key; a row  *)
(* is never rewritten, so its value adds nothing).  A bucket of a rollup   *)
(* is told by the measurements its total counts: `hourly` and `daily` are  *)
(* the unions of their buckets.                                            *)
(***************************************************************************)
EXTENDS Integers, FiniteSets

CONSTANTS
  Channels,
  MaxTime,      \* bound: timestamps are 0 .. MaxTime
  Margin,       \* ROLLUP_REFRESH_MARGIN_HOURS
  Reach,        \* how far outside the timestamps a caller's range may lie
  Calendar,     \* the local day of a timestamp, for each channel's station
  Refreshers,   \* the threads that may refresh
  Nobody

Times == 0 .. MaxTime
Rows == Channels \X Times

Asked == (0 - Reach) .. (MaxTime + Reach)
Span == (0 - Reach - Margin) .. (MaxTime + Reach + Margin)

ASSUME MaxTimeAssumption == MaxTime \in Nat
ASSUME MarginAssumption == Margin \in Nat
ASSUME ReachAssumption == Reach \in Nat
ASSUME NobodyAssumption == Nobody \notin Refreshers

\* Local days follow each other, and the margin reaches into another one.
ASSUME CalendarAssumption ==
  /\ Calendar \in [Channels -> [Span -> Int]]
  /\ \A c \in Channels : \A t, u \in Span :
       t <= u => Calendar[c][t] <= Calendar[c][u]
  /\ \A c \in Channels : \A t \in Span :
       t + Margin \in Span => Calendar[c][t] < Calendar[c][t + Margin]

VARIABLES
  raw,          \* the rows of measurements
  hourly,       \* the rows counted in measurement_hourly
  daily,        \* the rows counted in measurement_daily
  bounds,       \* measurement_channel_bounds
  ready,        \* measurement_rollup_state.backfilled
  lock,         \* who holds the advisory lock
  stage,        \* how far each thread's refresh transaction is
  range,        \*   the range it was asked for
  hour_rows,    \*   the rows its hourly statement wrote
  day_rows      \*   the rows its daily statement wrote

tx == <<lock, stage, range, hour_rows, day_rows>>
storeVars == <<raw, hourly, daily, bounds, ready, tx>>

-----------------------------------------------------------------------------

LocalDay(r) == Calendar[r[1]][r[2]]

SameDay(r, s) == r[1] = s[1] /\ LocalDay(r) = LocalDay(s)

\* Mutation: the range is not expanded.
CoveredExact(from, to) == {r \in raw : from <= r[2] /\ r[2] < to}

\* A range as refresh_rollups expands it: the rows its raw scan covers.
Covered(from, to) ==
  {r \in raw : from - Margin <= r[2] /\ r[2] < to + Margin}

\* The rows of the local days strictly inside the expanded range.
Interior(from, to) ==
  {r \in Covered(from, to) :
     /\ Calendar[r[1]][from - Margin] < LocalDay(r)
     /\ LocalDay(r) < Calendar[r[1]][to + Margin]}

\* ON CONFLICT DO UPDATE: a bucket that has rows is overwritten, another one
\* is left as it is.  An hour is one timestamp here, so its bucket is full.
UpsertHours(rows) == hourly \cup rows

UpsertDays(rows) ==
  {r \in daily : ~\E s \in rows : SameDay(r, s)} \cup rows

-----------------------------------------------------------------------------
(* The bounds of a channel: the neutral pair stands for a missing row.      *)

Earliest(S) == CHOOSE t \in S : \A u \in S : t <= u
Latest(S) == CHOOSE t \in S : \A u \in S : t >= u

NoBounds == [first |-> MaxTime + 1, last |-> 0 - 1]

TimesOf(c, rows) == {t \in Times : <<c, t>> \in rows}

BoundsOf(c, rows) ==
  IF TimesOf(c, rows) = {} THEN NoBounds
  ELSE [first |-> Earliest(TimesOf(c, rows)), last |-> Latest(TimesOf(c, rows))]

\* LEAST and GREATEST of the stored and the scanned bounds.
Wider(a, b) ==
  [first |-> IF a.first <= b.first THEN a.first ELSE b.first,
   last |-> IF a.last >= b.last THEN a.last ELSE b.last]

\* Mutation: the newest scan replaces the stored bounds.
MergedBoundsReplace(rows) ==
  [c \in Channels |->
     IF TimesOf(c, rows) = {} THEN bounds[c] ELSE BoundsOf(c, rows)]

MergedBounds(rows) == [c \in Channels |-> Wider(bounds[c], BoundsOf(c, rows))]

\* channel_bounds: the stored row, or the raw table for a channel without one.
ChannelBounds(c) == IF bounds[c] = NoBounds THEN BoundsOf(c, raw) ELSE bounds[c]

\* measurement_bounds: over the stored rows as soon as there is one.
MeasurementBounds ==
  LET stored == {c \in Channels : bounds[c] # NoBounds}
      times == {r[2] : r \in raw}
  IN  CASE stored # {} -> [first |-> Earliest({bounds[c].first : c \in stored}),
                           last |-> Latest({bounds[c].last : c \in stored})]
        [] stored = {} /\ times # {} -> [first |-> Earliest(times),
                                         last |-> Latest(times)]
        [] OTHER -> NoBounds

-----------------------------------------------------------------------------

StoreInit ==
  /\ raw \in SUBSET Rows
  /\ hourly = {} /\ daily = {}
  /\ bounds = [c \in Channels |-> NoBounds]
  /\ ready = FALSE
  /\ lock = Nobody
  /\ stage = [p \in Refreshers |-> "none"]
  /\ range = [p \in Refreshers |-> <<0, 0>>]
  /\ hour_rows = [p \in Refreshers |-> {}]
  /\ day_rows = [p \in Refreshers |-> {}]

\* A multi-row insert; a row whose key exists is skipped.
SaveBatch(rows) ==
  /\ raw' = raw \cup rows
  /\ UNCHANGED <<hourly, daily, bounds, ready, tx>>

\* Mutation: the refresh does not wait for the advisory lock.
RefreshUnlocked(p, from, to) ==
  /\ stage[p] = "none"
  /\ lock' = p
  /\ stage' = [stage EXCEPT ![p] = "hourly"]
  /\ range' = [range EXCEPT ![p] = <<from, to>>]
  /\ hour_rows' = [hour_rows EXCEPT ![p] = Interior(from, to)]
  /\ UNCHANGED <<raw, hourly, daily, bounds, ready, day_rows>>

\* The transaction begins, takes the lock and writes the hourly buckets.
RefreshHours(p, from, to) ==
  /\ stage[p] = "none"
  /\ lock = Nobody
  /\ lock' = p
  /\ stage' = [stage EXCEPT ![p] = "hourly"]
  /\ range' = [range EXCEPT ![p] = <<from, to>>]
  /\ hour_rows' = [hour_rows EXCEPT ![p] = Interior(from, to)]
  /\ UNCHANGED <<raw, hourly, daily, bounds, ready, day_rows>>

\* The daily statement: rows committed in the meantime are in its snapshot.
RefreshDays(p) ==
  /\ stage[p] = "hourly"
  /\ stage' = [stage EXCEPT ![p] = "daily"]
  /\ day_rows' = [day_rows EXCEPT ![p] = Interior(range[p][1], range[p][2])]
  /\ UNCHANGED <<raw, hourly, daily, bounds, ready, lock, range, hour_rows>>

Released(p) ==
  /\ lock' = Nobody
  /\ stage' = [stage EXCEPT ![p] = "none"]
  /\ range' = [range EXCEPT ![p] = <<0, 0>>]
  /\ hour_rows' = [hour_rows EXCEPT ![p] = {}]
  /\ day_rows' = [day_rows EXCEPT ![p] = {}]

\* The bounds statement and the commit.
RefreshCommit(p) ==
  /\ stage[p] = "daily"
  /\ hourly' = UpsertHours(hour_rows[p])
  /\ daily' = UpsertDays(day_rows[p])
  /\ bounds' = MergedBounds(Covered(range[p][1], range[p][2]))
  /\ Released(p)
  /\ UNCHANGED <<raw, ready>>

\* A statement fails, or the connection is lost.
RefreshRollback(p) ==
  /\ stage[p] # "none"
  /\ Released(p)
  /\ UNCHANGED <<raw, hourly, daily, bounds, ready>>

MarkReady ==
  /\ ready' = TRUE
  /\ UNCHANGED <<raw, hourly, daily, bounds, tx>>

StoreNext ==
  \/ \E rows \in SUBSET Rows : SaveBatch(rows)
  \/ MarkReady
  \/ \E p \in Refreshers :
       \/ \E from, to \in Asked : RefreshHours(p, from, to)
       \/ RefreshDays(p)
       \/ RefreshCommit(p)
       \/ RefreshRollback(p)

StoreSpec == StoreInit /\ [][StoreNext]_storeVars

-----------------------------------------------------------------------------

StoreTypeOK ==
  /\ raw \subseteq Rows
  /\ hourly \subseteq raw /\ daily \subseteq raw
  /\ bounds \in [Channels -> [first : Times \cup {MaxTime + 1},
                              last : Times \cup {0 - 1}]]
  /\ ready \in BOOLEAN
  /\ lock \in Refreshers \cup {Nobody}
  /\ stage \in [Refreshers -> {"none", "hourly", "daily"}]
  /\ range \in [Refreshers -> Asked \X Asked]
  /\ hour_rows \in [Refreshers -> SUBSET raw]
  /\ day_rows \in [Refreshers -> SUBSET raw]

\* The two rollups are views of the measurements: refreshes of overlapping
\* ranges, imports that commit between two statements of a refresh and
\* transactions that roll back never make a rollup count a row that is not
\* there, nor lose one it counted (refresh_rollups upserts whole local days
\* under the advisory lock), nor let the hour-of-day charts count a row the
\* daily totals leave out (the daily statement runs last).
Views == INSTANCE MaterializedView WITH
  table <- raw, fine <- hourly, coarse <- daily

RollupViews == Views!Spec

\* The bounds of a channel are timestamps of its rows, and enclose every row
\* a rollup counts: the two are written by one transaction, and the bounds
\* from the whole expanded range.
BoundsEncloseRollups ==
  \A c \in Channels :
    /\ bounds[c] # NoBounds =>
         {<<c, bounds[c].first>>, <<c, bounds[c].last>>} \subseteq raw
    /\ \A t \in Times :
         <<c, t>> \in daily => bounds[c].first <= t /\ t <= bounds[c].last
=============================================================================
