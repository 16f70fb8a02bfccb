----------------------- MODULE MeasurementStoreProofs -----------------------
(***************************************************************************)
(* Theorems about MeasurementStore, for every set of channels and threads, *)
(* every margin and calendar: the rollups implement MaterializedView, and  *)
(* the bounds of the channels enclose what they count.                     *)
(***************************************************************************)
EXTENDS MeasurementStore, WellFoundedInduction, TLAPS

-----------------------------------------------------------------------------
(* Least and greatest timestamps                                            *)

Before == {tt \in Nat \X Nat : tt[1] < tt[2]}

LEMMA BeforeWellFounded == IsWellFoundedOn(Before, Nat)
  <1>1. Before = OpToRel(<, Nat)
    BY Zenon DEF Before, OpToRel
  <1> QED
    BY <1>1, NatLessThanWellFounded, Zenon

\* A nonempty set of naturals has a least element.
LEMMA LeastNat ==
  ASSUME NEW S \in SUBSET Nat, S # {}
  PROVE  \E t \in S : \A u \in S : t <= u
  <1>1. PICK t \in S : \A u \in S : ~ (<<u, t>> \in Before)
    BY BeforeWellFounded, WFMin, Zenon
  <1>2. \A u \in S : ~ (u < t)
    BY <1>1 DEF Before
  <1> QED
    BY <1>2

LEMMA EarliestOf ==
  ASSUME NEW S \in SUBSET Times, S # {}
  PROVE  Earliest(S) \in S /\ \A u \in S : Earliest(S) <= u
  <1>1. S \in SUBSET Nat
    BY MaxTimeAssumption DEF Times
  <1>2. \E t \in S : \A u \in S : t <= u
    BY <1>1, LeastNat
  <1> QED
    BY <1>2 DEF Earliest

LEMMA LatestOf ==
  ASSUME NEW S \in SUBSET Times, S # {}
  PROVE  Latest(S) \in S /\ \A u \in S : Latest(S) >= u
  <1> DEFINE Mirror == {MaxTime - t : t \in S}
  <1>1. \A t \in S : t \in Nat /\ t <= MaxTime /\ MaxTime - t \in Nat
    BY MaxTimeAssumption DEF Times
  <1>2. Mirror \in SUBSET Nat /\ Mirror # {}
    BY <1>1
  <1>3. PICK m \in Mirror : \A n \in Mirror : m <= n
    <2> HIDE DEF Mirror
    <2> QED BY <1>2, LeastNat
  <1>4. PICK t \in S : m = MaxTime - t
    BY <1>3
  <1>5. \A u \in S : MaxTime - t <= MaxTime - u
    BY <1>3, <1>4
  <1>6. \A u \in S : t >= u
    BY <1>1, <1>5, MaxTimeAssumption
  <1> QED
    BY <1>6 DEF Latest

-----------------------------------------------------------------------------
(* Whole days                                                               *)

\* The refresh of a range takes in every measured row of a local day it touches.
LEMMA WholeDays ==
  ASSUME raw \subseteq Rows,
         NEW from \in Asked, NEW to \in Asked,
         NEW s \in Interior(from, to), NEW r \in raw, SameDay(r, s)
  PROVE  r \in Interior(from, to)
  <1>1. s \in raw /\ s \in Rows /\ r \in Rows
    BY DEF Interior, Covered
  <1>2. PICK c \in Channels, t \in Times : r = <<c, t>>
    BY <1>1 DEF Rows
  <1>3. s[1] = c /\ LocalDay(s) = LocalDay(r)
    BY <1>2 DEF SameDay
  <1>4. /\ t \in Span /\ t \in Int
        /\ from - Margin \in Span /\ from - Margin \in Int
        /\ to + Margin \in Span /\ to + Margin \in Int
    BY MaxTimeAssumption, MarginAssumption, ReachAssumption DEF Times, Asked, Span
  <1>5. /\ Calendar[c][from - Margin] < Calendar[c][t]
        /\ Calendar[c][t] < Calendar[c][to + Margin]
    BY <1>2, <1>3 DEF Interior, LocalDay
  <1>6. \A v, w \in Span : Calendar[c][v] \in Int /\ Calendar[c][w] \in Int
                           /\ (v <= w => Calendar[c][v] <= Calendar[c][w])
    BY CalendarAssumption
  <1>7. from - Margin <= t
    <2>1. t <= from - Margin => Calendar[c][t] <= Calendar[c][from - Margin]
      BY <1>4, <1>6
    <2>2. Calendar[c][t] \in Int /\ Calendar[c][from - Margin] \in Int
      BY <1>4, <1>6
    <2> QED BY <1>4, <1>5, <2>1, <2>2
  <1>8. t < to + Margin
    <2>1. to + Margin <= t => Calendar[c][to + Margin] <= Calendar[c][t]
      BY <1>4, <1>6
    <2>2. Calendar[c][t] \in Int /\ Calendar[c][to + Margin] \in Int
      BY <1>4, <1>6
    <2> QED BY <1>4, <1>5, <2>1, <2>2
  <1>9. r \in Covered(from, to)
    BY <1>2, <1>7, <1>8 DEF Covered
  <1> QED
    BY <1>2, <1>5, <1>9 DEF Interior, LocalDay

-----------------------------------------------------------------------------
(* Types                                                                    *)

Sound(b) == b \in [first : Times \cup {MaxTime + 1}, last : Times \cup {0 - 1}]

LEMMA BoundsSound ==
  ASSUME NEW c \in Channels, NEW rows
  PROVE  Sound(BoundsOf(c, rows))
  <1>1. CASE TimesOf(c, rows) = {}
    BY <1>1 DEF BoundsOf, NoBounds, Sound
  <1>2. CASE TimesOf(c, rows) # {}
    <2>1. TimesOf(c, rows) \in SUBSET Times
      BY DEF TimesOf
    <2>2. Earliest(TimesOf(c, rows)) \in Times /\ Latest(TimesOf(c, rows)) \in Times
      BY <1>2, <2>1, EarliestOf, LatestOf
    <2> QED
      BY <1>2, <2>2 DEF BoundsOf, Sound
  <1> QED
    BY <1>1, <1>2

LEMMA StoreInitType == StoreInit => StoreTypeOK
  <1> SUFFICES ASSUME StoreInit PROVE StoreTypeOK
    OBVIOUS
  <1>1. \A c \in Channels : bounds[c] = NoBounds
    BY DEF StoreInit
  <1>2. <<0, 0>> \in Asked \X Asked
    BY MaxTimeAssumption, ReachAssumption DEF Asked
  <1> QED
    BY <1>1, <1>2 DEF StoreInit, StoreTypeOK, NoBounds

LEMMA StoreTypeStep == StoreTypeOK /\ [StoreNext]_storeVars => StoreTypeOK'
  <1> SUFFICES ASSUME StoreTypeOK, [StoreNext]_storeVars PROVE StoreTypeOK'
    OBVIOUS
  <1> USE DEF StoreTypeOK
  <1>1. ASSUME NEW rows \in SUBSET Rows, SaveBatch(rows) PROVE StoreTypeOK'
    <2>1. raw \subseteq raw' /\ raw' \subseteq Rows
      BY <1>1 DEF SaveBatch
    <2> QED
      BY <1>1, <2>1 DEF SaveBatch, tx
  <1>2. CASE MarkReady
    BY <1>2 DEF MarkReady, tx
  <1>3. ASSUME NEW p \in Refreshers, NEW from \in Asked, NEW to \in Asked,
               RefreshHours(p, from, to)
        PROVE  StoreTypeOK'
    <2>1. Interior(from, to) \in SUBSET raw
      BY DEF Interior, Covered
    <2>2. hour_rows' \in [Refreshers -> SUBSET raw]
      BY <1>3, <2>1 DEF RefreshHours
    <2> QED
      BY <1>3, <2>2 DEF RefreshHours
  <1>4. ASSUME NEW p \in Refreshers, RefreshDays(p) PROVE StoreTypeOK'
    <2>1. Interior(range[p][1], range[p][2]) \in SUBSET raw
      BY DEF Interior, Covered
    <2>2. day_rows' \in [Refreshers -> SUBSET raw]
      BY <1>4, <2>1 DEF RefreshDays
    <2> QED
      BY <1>4, <2>2 DEF RefreshDays
  <1>5. ASSUME NEW p \in Refreshers, Released(p)
        PROVE  /\ lock' \in Refreshers \cup {Nobody}
               /\ stage' \in [Refreshers -> {"none", "hourly", "daily"}]
               /\ range' \in [Refreshers -> Asked \X Asked]
               /\ hour_rows' \in [Refreshers -> SUBSET raw]
               /\ day_rows' \in [Refreshers -> SUBSET raw]
    <2>1. <<0, 0>> \in Asked \X Asked
      BY MaxTimeAssumption, ReachAssumption DEF Asked
    <2> QED
      BY <1>5, <2>1 DEF Released
  <1>6. ASSUME NEW p \in Refreshers, RefreshCommit(p) PROVE StoreTypeOK'
    <2>1. hourly' \subseteq raw /\ daily' \subseteq raw /\ raw' = raw /\ ready' = ready
      BY <1>6 DEF RefreshCommit, UpsertHours, UpsertDays
    <2>2. ASSUME NEW c \in Channels, NEW rows
          PROVE  Sound(Wider(bounds[c], BoundsOf(c, rows)))
      <3>1. Sound(bounds[c]) /\ Sound(BoundsOf(c, rows))
        BY BoundsSound DEF Sound
      <3> QED
        BY <3>1 DEF Sound, Wider
    <2>3. bounds' \in [Channels -> [first : Times \cup {MaxTime + 1},
                                    last : Times \cup {0 - 1}]]
      BY <1>6, <2>2 DEF RefreshCommit, MergedBounds, Sound
    <2>4. Released(p)
      BY <1>6 DEF RefreshCommit
    <2> QED
      BY <1>5, <2>1, <2>3, <2>4
  <1>7. ASSUME NEW p \in Refreshers, RefreshRollback(p) PROVE StoreTypeOK'
    <2>1. Released(p) /\ UNCHANGED <<raw, hourly, daily, bounds, ready>>
      BY <1>7 DEF RefreshRollback
    <2> QED
      BY <1>5, <2>1
  <1>8. CASE UNCHANGED storeVars
    BY <1>8 DEF storeVars, tx
  <1> QED
    BY <1>1, <1>2, <1>3, <1>4, <1>6, <1>7, <1>8 DEF StoreNext

\* Rows, buckets and scans keep their types.
THEOREM StoreTypes == StoreSpec => []StoreTypeOK
  <1> QED
    BY StoreInitType, StoreTypeStep, PTL DEF StoreSpec

-----------------------------------------------------------------------------
(* The invariant of the refreshes                                           *)

\* A refresh under way holds the advisory lock.
LockHeld == \A p \in Refreshers : stage[p] # "none" => lock = p

\* What a statement wrote is in the range, and the daily statement saw what the
\* hourly one had seen.
ScansNested ==
  \A p \in Refreshers :
    /\ stage[p] # "none" => hour_rows[p] \subseteq Interior(range[p][1], range[p][2])
    /\ stage[p] = "daily" => /\ hour_rows[p] \subseteq day_rows[p]
                             /\ day_rows[p] \subseteq Interior(range[p][1], range[p][2])

\* The daily statement took in all that is counted of a day it writes.
DaysWhole ==
  \A p \in Refreshers : stage[p] = "daily" =>
    \A r \in daily : \A s \in day_rows[p] : SameDay(r, s) => r \in day_rows[p]

\* The daily statement of a refresh runs after the hourly one.
HourlyWithinDaily == hourly \subseteq daily

RefreshInv == StoreTypeOK /\ LockHeld /\ ScansNested /\ DaysWhole /\ HourlyWithinDaily

LEMMA InitRefresh == StoreInit => RefreshInv
  BY StoreInitType
     DEF StoreInit, RefreshInv, LockHeld, ScansNested, DaysWhole, HourlyWithinDaily

\* The commit counts what was counted and what was scanned.
LEMMA CommitGrows ==
  ASSUME RefreshInv, NEW p \in Refreshers, RefreshCommit(p)
  PROVE  /\ daily' = daily \cup day_rows[p] /\ hourly' = hourly \cup hour_rows[p]
         /\ hour_rows[p] \subseteq day_rows[p] /\ day_rows[p] \subseteq raw
  <1>1. hour_rows[p] \subseteq day_rows[p] /\ day_rows[p] \subseteq raw
    BY DEF RefreshInv, ScansNested, RefreshCommit, StoreTypeOK
  <1>2. \A r \in daily : \A s \in day_rows[p] : SameDay(r, s) => r \in day_rows[p]
    BY DEF RefreshInv, DaysWhole, RefreshCommit
  <1>3. daily' = {r \in daily : ~\E s \in day_rows[p] : SameDay(r, s)} \cup day_rows[p]
    BY DEF RefreshCommit, UpsertDays
  <1>4. hourly' = hourly \cup hour_rows[p]
    BY DEF RefreshCommit, UpsertHours
  <1>5. daily' = daily \cup day_rows[p]
    BY <1>2, <1>3
  <1> QED
    BY <1>1, <1>4, <1>5

\* What a thread that gives the lock back leaves behind.
LEMMA ReleasedKeeps ==
  ASSUME RefreshInv, NEW p \in Refreshers, stage[p] # "none", Released(p)
  PROVE  \A q \in Refreshers : stage'[q] = "none"
  <1>1. \A q \in Refreshers : q # p => stage[q] = "none"
    BY DEF RefreshInv, LockHeld
  <1>2. \A q \in Refreshers : stage'[q] = IF q = p THEN "none" ELSE stage[q]
    BY DEF RefreshInv, StoreTypeOK, Released
  <1> QED
    BY <1>1, <1>2

LEMMA RefreshStep == RefreshInv /\ [StoreNext]_storeVars => RefreshInv'
  <1> SUFFICES ASSUME RefreshInv, [StoreNext]_storeVars
               PROVE  LockHeld' /\ ScansNested' /\ DaysWhole' /\ HourlyWithinDaily'
    BY StoreTypeStep DEF RefreshInv
  <1> USE DEF RefreshInv
  <1>1. ASSUME NEW rows \in SUBSET Rows, SaveBatch(rows)
        PROVE  LockHeld' /\ ScansNested' /\ DaysWhole' /\ HourlyWithinDaily'
    <2>1. raw \subseteq raw' /\ UNCHANGED <<hourly, daily, tx>>
      BY <1>1 DEF SaveBatch
    <2>2. UNCHANGED <<lock, stage, range, hour_rows, day_rows>>
      BY <2>1 DEF tx
    <2>3. LockHeld' /\ HourlyWithinDaily'
      BY <2>1, <2>2 DEF LockHeld, HourlyWithinDaily
    <2>4. DaysWhole'
      BY <2>1, <2>2 DEF DaysWhole, SameDay, LocalDay
    <2>5. \A p \in Refreshers :
            Interior(range[p][1], range[p][2]) \subseteq
              Interior(range[p][1], range[p][2])'
      BY <2>1, <2>2 DEF Interior, Covered, LocalDay
    <2>6. ScansNested'
      BY <2>2, <2>5 DEF ScansNested
    <2> QED BY <2>3, <2>4, <2>6
  <1>2. CASE MarkReady
    BY <1>2 DEF MarkReady, tx, LockHeld, ScansNested, DaysWhole, HourlyWithinDaily,
                Interior, Covered, LocalDay, SameDay
  <1>3. ASSUME NEW p \in Refreshers, NEW from \in Asked, NEW to \in Asked,
               RefreshHours(p, from, to)
        PROVE  LockHeld' /\ ScansNested' /\ DaysWhole' /\ HourlyWithinDaily'
    <2>1. \A q \in Refreshers : stage[q] = "none"
      BY <1>3, NobodyAssumption DEF RefreshHours, LockHeld
    <2>2. /\ stage' = [stage EXCEPT ![p] = "hourly"] /\ lock' = p
          /\ range' = [range EXCEPT ![p] = <<from, to>>]
          /\ hour_rows' = [hour_rows EXCEPT ![p] = Interior(from, to)]
          /\ UNCHANGED <<raw, hourly, daily>>
      BY <1>3 DEF RefreshHours
    <2>3. \A q \in Refreshers : stage'[q] = IF q = p THEN "hourly" ELSE "none"
      BY <2>1, <2>2 DEF StoreTypeOK
    <2>4. LockHeld' /\ DaysWhole' /\ HourlyWithinDaily'
      BY <2>2, <2>3 DEF LockHeld, DaysWhole, HourlyWithinDaily
    <2>5. hour_rows'[p] = Interior(range'[p][1], range'[p][2])
      BY <2>2 DEF StoreTypeOK
    <2>6. Interior(range'[p][1], range'[p][2]) = Interior(range[p][1], range[p][2])'
      BY <2>2 DEF Interior, Covered, LocalDay
    <2>7. ScansNested'
      BY <2>3, <2>5, <2>6 DEF ScansNested
    <2> QED BY <2>4, <2>7
  <1>4. ASSUME NEW p \in Refreshers, RefreshDays(p)
        PROVE  LockHeld' /\ ScansNested' /\ DaysWhole' /\ HourlyWithinDaily'
    <2>1. /\ stage[p] = "hourly" /\ stage' = [stage EXCEPT ![p] = "daily"]
          /\ day_rows' = [day_rows EXCEPT ![p] = Interior(range[p][1], range[p][2])]
          /\ UNCHANGED <<raw, hourly, daily, lock, range, hour_rows>>
      BY <1>4 DEF RefreshDays
    <2>2. \A q \in Refreshers : stage'[q] = IF q = p THEN "daily" ELSE "none"
      BY <2>1 DEF StoreTypeOK, LockHeld
    <2>3. LockHeld' /\ HourlyWithinDaily'
      BY <2>1, <2>2 DEF LockHeld, HourlyWithinDaily
    <2>4. /\ day_rows'[p] = Interior(range[p][1], range[p][2])
          /\ hour_rows'[p] \subseteq day_rows'[p]
      BY <2>1 DEF StoreTypeOK, ScansNested
    <2>5. Interior(range[p][1], range[p][2]) = Interior(range[p][1], range[p][2])'
      BY <2>1 DEF Interior, Covered, LocalDay
    <2>6. ScansNested'
      BY <2>2, <2>4, <2>5 DEF ScansNested
    <2>7. range[p][1] \in Asked /\ range[p][2] \in Asked /\ raw \subseteq Rows
          /\ daily \subseteq raw
      BY DEF StoreTypeOK
    <2>8. \A r \in daily : \A s \in day_rows'[p] : SameDay(r, s) => r \in day_rows'[p]
      BY <2>4, <2>7, WholeDays
    <2>9. DaysWhole'
      BY <2>1, <2>2, <2>8 DEF DaysWhole, SameDay, LocalDay
    <2> QED BY <2>3, <2>6, <2>9
  <1>5. ASSUME NEW p \in Refreshers, stage[p] # "none", Released(p),
               hourly' \subseteq daily'
        PROVE  LockHeld' /\ ScansNested' /\ DaysWhole' /\ HourlyWithinDaily'
    <2>1. \A q \in Refreshers : stage'[q] = "none"
      BY <1>5, ReleasedKeeps
    <2> QED
      BY <1>5, <2>1 DEF LockHeld, ScansNested, DaysWhole, HourlyWithinDaily
  <1>6. ASSUME NEW p \in Refreshers, RefreshCommit(p)
        PROVE  LockHeld' /\ ScansNested' /\ DaysWhole' /\ HourlyWithinDaily'
    <2>1. hourly' \subseteq daily'
      BY <1>6, CommitGrows DEF HourlyWithinDaily
    <2>2. stage[p] # "none" /\ Released(p)
      BY <1>6 DEF RefreshCommit
    <2> QED BY <1>5, <2>1, <2>2
  <1>7. ASSUME NEW p \in Refreshers, RefreshRollback(p)
        PROVE  LockHeld' /\ ScansNested' /\ DaysWhole' /\ HourlyWithinDaily'
    <2>1. hourly' \subseteq daily'
      BY <1>7 DEF RefreshRollback, HourlyWithinDaily
    <2>2. stage[p] # "none" /\ Released(p)
      BY <1>7 DEF RefreshRollback
    <2> QED BY <1>5, <2>1, <2>2
  <1>8. CASE UNCHANGED storeVars
    BY <1>8 DEF storeVars, tx, LockHeld, ScansNested, DaysWhole, HourlyWithinDaily,
                Interior, Covered, LocalDay, SameDay
  <1> QED
    BY <1>1, <1>2, <1>3, <1>4, <1>6, <1>7, <1>8 DEF StoreNext

-----------------------------------------------------------------------------
(* The rollups as views                                                     *)

\* A step of the store is an import, a refresh or nothing to the views.
LEMMA ViewStep ==
  ASSUME RefreshInv, [StoreNext]_storeVars
  PROVE  [Views!Next]_<<raw, hourly, daily>>
  <1> USE DEF Views!Next, Views!Import, Views!Refresh
  <1>1. ASSUME NEW rows \in SUBSET Rows, SaveBatch(rows)
        PROVE  Views!Next
    BY <1>1 DEF SaveBatch, RefreshInv, StoreTypeOK
  <1>2. ASSUME NEW p \in Refreshers, RefreshCommit(p)
        PROVE  Views!Next
    <2>1. raw' = raw /\ hourly \subseteq raw /\ daily \subseteq raw
      BY <1>2 DEF RefreshCommit, RefreshInv, StoreTypeOK
    <2>2. hourly \subseteq daily
      BY DEF RefreshInv, HourlyWithinDaily
    <2> QED
      BY <1>2, <2>1, <2>2, CommitGrows
  <1>3. CASE UNCHANGED <<raw, hourly, daily>>
    BY <1>3
  <1>4. \/ \E rows \in SUBSET Rows : SaveBatch(rows)
        \/ \E p \in Refreshers : RefreshCommit(p)
        \/ UNCHANGED <<raw, hourly, daily>>
    BY DEF StoreNext, storeVars, MarkReady, RefreshHours, RefreshDays, RefreshRollback
  <1> QED
    BY <1>1, <1>2, <1>3, <1>4

\* The two rollups implement MaterializedView: whatever refreshes overlap, imports
\* commit between their statements or transactions roll back, a rollup counts
\* only rows of the table and loses none it counted, and the hourly one counts
\* none that the daily one leaves out.
THEOREM RollupsAreViews == StoreSpec => RollupViews
  <1>1. StoreInit => Views!Init
    BY DEF StoreInit, Views!Init
  <1>2. RefreshInv /\ [StoreNext]_storeVars => [Views!Next]_<<raw, hourly, daily>>
    BY ViewStep
  <1> QED
    BY <1>1, <1>2, InitRefresh, RefreshStep, PTL DEF StoreSpec, RollupViews, Views!Spec

-----------------------------------------------------------------------------
(* The bounds                                                               *)

\* Bounds that are not the neutral pair are timestamps of the channel's rows.
RealBounds(c, b) == b # NoBounds => {<<c, b.first>>, <<c, b.last>>} \subseteq raw

Encloses(b, t) == b.first <= t /\ t <= b.last

LEMMA BoundsOfRows ==
  ASSUME NEW c \in Channels, NEW rows \in SUBSET raw, raw \subseteq Rows
  PROVE  /\ RealBounds(c, BoundsOf(c, rows))
         /\ \A t \in Times : <<c, t>> \in rows => Encloses(BoundsOf(c, rows), t)
  <1>1. CASE TimesOf(c, rows) = {}
    <2>1. \A t \in Times : <<c, t>> \notin rows
      BY <1>1 DEF TimesOf
    <2> QED
      BY <1>1, <2>1 DEF BoundsOf, RealBounds
  <1>2. CASE TimesOf(c, rows) # {}
    <2>1. TimesOf(c, rows) \in SUBSET Times
      BY DEF TimesOf
    <2>2. /\ Earliest(TimesOf(c, rows)) \in TimesOf(c, rows)
          /\ Latest(TimesOf(c, rows)) \in TimesOf(c, rows)
          /\ \A t \in TimesOf(c, rows) : /\ Earliest(TimesOf(c, rows)) <= t
                                         /\ Latest(TimesOf(c, rows)) >= t
      BY <1>2, <2>1, EarliestOf, LatestOf
    <2>3. /\ BoundsOf(c, rows).first = Earliest(TimesOf(c, rows))
          /\ BoundsOf(c, rows).last = Latest(TimesOf(c, rows))
      BY <1>2 DEF BoundsOf
    <2>4. RealBounds(c, BoundsOf(c, rows))
      BY <2>2, <2>3 DEF RealBounds, TimesOf
    <2>5. \A t \in Times : <<c, t>> \in rows => Encloses(BoundsOf(c, rows), t)
      <3> SUFFICES ASSUME NEW t \in Times, <<c, t>> \in rows
                   PROVE  Encloses(BoundsOf(c, rows), t)
        OBVIOUS
      <3>1. t \in TimesOf(c, rows)
        BY DEF TimesOf
      <3>2. t \in Int /\ Latest(TimesOf(c, rows)) \in Int
        BY <2>1, <2>2, MaxTimeAssumption DEF Times
      <3> QED
        BY <2>2, <2>3, <3>1, <3>2 DEF Encloses
    <2> QED BY <2>4, <2>5
  <1> QED
    BY <1>1, <1>2

LEMMA WiderOf ==
  ASSUME NEW c \in Channels, NEW a, NEW b, Sound(a), Sound(b), raw \subseteq Rows,
         RealBounds(c, a), RealBounds(c, b)
  PROVE  /\ RealBounds(c, Wider(a, b))
         /\ \A t \in Times : Encloses(a, t) \/ Encloses(b, t) => Encloses(Wider(a, b), t)
  <1>1. /\ a.first \in Int /\ a.last \in Int /\ b.first \in Int /\ b.last \in Int
        /\ \A t \in Times : t \in Int
    BY MaxTimeAssumption DEF Sound, Times
  <1>2. /\ Wider(a, b).first = IF a.first <= b.first THEN a.first ELSE b.first
        /\ Wider(a, b).last = IF a.last >= b.last THEN a.last ELSE b.last
    BY DEF Wider
  <1>3. \A t \in Times : Encloses(a, t) \/ Encloses(b, t) => Encloses(Wider(a, b), t)
    BY <1>1, <1>2 DEF Encloses
  <1>4. ASSUME NEW d, Sound(d), RealBounds(c, d), d # NoBounds
        PROVE  d.first \in Times /\ d.last \in Times
    BY <1>4 DEF RealBounds, Rows
  <1>5. CASE a = NoBounds /\ b = NoBounds
    <2>1. Wider(a, b) = NoBounds
      BY <1>5, MaxTimeAssumption DEF Wider, NoBounds
    <2> QED BY <1>3, <2>1 DEF RealBounds
  <1>6. CASE a = NoBounds /\ b # NoBounds
    <2>1. b.first \in Times /\ b.last \in Times
      BY <1>4, <1>6
    <2>2. Wider(a, b).first = b.first /\ Wider(a, b).last = b.last
      BY <1>2, <1>6, <2>1, MaxTimeAssumption DEF NoBounds, Times
    <2> QED BY <1>3, <1>6, <2>2 DEF RealBounds
  <1>7. CASE a # NoBounds /\ b = NoBounds
    <2>1. a.first \in Times /\ a.last \in Times
      BY <1>4, <1>7
    <2>2. Wider(a, b).first = a.first /\ Wider(a, b).last = a.last
      BY <1>2, <1>7, <2>1, MaxTimeAssumption DEF NoBounds, Times
    <2> QED BY <1>3, <1>7, <2>2 DEF RealBounds
  <1>8. CASE a # NoBounds /\ b # NoBounds
    BY <1>2, <1>3, <1>8 DEF RealBounds
  <1> QED
    BY <1>5, <1>6, <1>7, <1>8

LEMMA InitBounds == StoreInit => BoundsEncloseRollups
  BY DEF StoreInit, BoundsEncloseRollups

LEMMA BoundsStep ==
  RefreshInv /\ BoundsEncloseRollups /\ [StoreNext]_storeVars => BoundsEncloseRollups'
  <1> SUFFICES ASSUME RefreshInv, BoundsEncloseRollups, [StoreNext]_storeVars
               PROVE  BoundsEncloseRollups'
    OBVIOUS
  <1>1. ASSUME raw \subseteq raw', UNCHANGED <<daily, bounds>> PROVE BoundsEncloseRollups'
    BY <1>1 DEF BoundsEncloseRollups
  <1>2. ASSUME NEW p \in Refreshers, RefreshCommit(p) PROVE BoundsEncloseRollups'
    <2> DEFINE scan == Covered(range[p][1], range[p][2])
    <2>1. /\ scan \in SUBSET raw /\ raw \subseteq Rows /\ raw' = raw
          /\ \A c \in Channels : Sound(bounds[c])
      BY <1>2 DEF Covered, RefreshCommit, RefreshInv, StoreTypeOK, Sound
    <2>2. daily' = daily \cup day_rows[p] /\ day_rows[p] \subseteq scan
      <3>1. day_rows[p] \subseteq Interior(range[p][1], range[p][2])
        BY <1>2 DEF RefreshInv, ScansNested, RefreshCommit
      <3> QED
        BY <1>2, <3>1, CommitGrows DEF Interior
    <2>3. \A c \in Channels : bounds'[c] = Wider(bounds[c], BoundsOf(c, scan))
      BY <1>2 DEF RefreshCommit, MergedBounds
    <2> HIDE DEF scan
    <2>4. ASSUME NEW c \in Channels
          PROVE  /\ RealBounds(c, bounds'[c])
                 /\ \A t \in Times : <<c, t>> \in daily' => Encloses(bounds'[c], t)
      <3>1. /\ RealBounds(c, bounds[c])
            /\ \A t \in Times : <<c, t>> \in daily => Encloses(bounds[c], t)
        BY DEF BoundsEncloseRollups, RealBounds, Encloses
      <3>2. /\ RealBounds(c, BoundsOf(c, scan)) /\ Sound(BoundsOf(c, scan))
            /\ \A t \in Times : <<c, t>> \in scan => Encloses(BoundsOf(c, scan), t)
        BY <2>1, BoundsOfRows, BoundsSound
      <3>3. /\ RealBounds(c, Wider(bounds[c], BoundsOf(c, scan)))
            /\ \A t \in Times :
                 Encloses(bounds[c], t) \/ Encloses(BoundsOf(c, scan), t) =>
                   Encloses(Wider(bounds[c], BoundsOf(c, scan)), t)
        BY <2>1, <3>1, <3>2, WiderOf
      <3> QED
        BY <2>2, <2>3, <3>1, <3>2, <3>3
    <2> QED
      BY <2>1, <2>4 DEF BoundsEncloseRollups, RealBounds, Encloses
  <1>3. \/ raw \subseteq raw' /\ UNCHANGED <<daily, bounds>>
        \/ \E p \in Refreshers : RefreshCommit(p)
    BY DEF StoreNext, storeVars, SaveBatch, MarkReady, RefreshHours, RefreshDays,
           RefreshRollback
  <1> QED
    BY <1>1, <1>2, <1>3

\* The bounds of a channel are timestamps of its rows and enclose every row a
\* rollup counts: they are written by the transaction that writes the rollups.
THEOREM BoundsAreReal == StoreSpec => []BoundsEncloseRollups
  <1> QED
    BY InitBounds, BoundsStep, InitRefresh, RefreshStep, PTL DEF StoreSpec

-----------------------------------------------------------------------------
(* Transactions                                                             *)

\* The lock is held by a refresh, and a thread without one holds nothing.
TxShut ==
  /\ lock # Nobody => stage[lock] # "none"
  /\ \A p \in Refreshers : stage[p] = "none" =>
       range[p] = <<0, 0>> /\ hour_rows[p] = {} /\ day_rows[p] = {}

LEMMA InitTx == StoreInit => TxShut
  BY DEF StoreInit, TxShut

LEMMA TxStep == StoreTypeOK /\ TxShut /\ [StoreNext]_storeVars => TxShut'
  <1> SUFFICES ASSUME StoreTypeOK, TxShut, [StoreNext]_storeVars PROVE TxShut'
    OBVIOUS
  <1> USE DEF StoreTypeOK, TxShut
  <1>1. CASE UNCHANGED tx
    BY <1>1 DEF tx
  <1>2. ASSUME NEW p \in Refreshers, NEW from \in Asked, NEW to \in Asked,
               RefreshHours(p, from, to)
        PROVE  TxShut'
    BY <1>2 DEF RefreshHours
  <1>3. ASSUME NEW p \in Refreshers, RefreshDays(p) PROVE TxShut'
    BY <1>3 DEF RefreshDays
  <1>4. ASSUME NEW p \in Refreshers, Released(p) PROVE TxShut'
    BY <1>4 DEF Released
  <1> QED
    BY <1>1, <1>2, <1>3, <1>4
       DEF StoreNext, storeVars, SaveBatch, MarkReady, RefreshCommit, RefreshRollback
=============================================================================
