------------------------ MODULE OpenDataExportProofs ------------------------
(***************************************************************************)
(* Theorems about OpenDataExport, for every number of exporters, formats,  *)
(* stations and days and every calendar of months.                         *)
(***************************************************************************)
EXTENDS OpenDataExport, NaturalsInduction, WellFoundedInduction, TLAPS

-----------------------------------------------------------------------------
(* Periods                                                                  *)

LEMMA PeriodsAreNumbers ==
  \A g \in Granularities :
    /\ \A d \in Days : PeriodOf(g, d) \in Nat \ {0} /\ PeriodOf(g, d) \in Periods(g)
    /\ Periods(g) \subseteq AllPeriods
    /\ Periods(g) \subseteq Nat \ {0}
    /\ \A d, e \in Days : d <= e => PeriodOf(g, d) <= PeriodOf(g, e)
  BY ExportAssumption DEF PeriodOf, Periods, AllPeriods, Days

LEMMA SeriesParts ==
  \A s \in Series : s = <<s[1], s[2]>> /\ s[1] \in Granularities /\ s[2] \in Scopes
  BY DEF Series

Before == {tt \in Nat \X Nat : tt[1] < tt[2]}

LEMMA BeforeWellFounded == IsWellFoundedOn(Before, Nat)
  <1>1. Before = OpToRel(<, Nat)
    BY Zenon DEF Before, OpToRel
  <1> QED
    BY <1>1, NatLessThanWellFounded, Zenon

LEMMA LeastNumber ==
  ASSUME NEW S \in SUBSET Nat, S # {}
  PROVE  \E t \in S : \A u \in S : t <= u
  <1>1. PICK t \in S : \A u \in S : ~ (<<u, t>> \in Before)
    BY BeforeWellFounded, WFMin, Zenon
  <1>2. \A u \in S : ~ (u < t)
    BY <1>1 DEF Before
  <1> QED
    BY <1>2

\* A set of periods of one granularity has a last one: none is after that of
\* the last day.
LEMMA LastPeriod ==
  ASSUME NEW g \in Granularities, NEW S \in SUBSET Periods(g), S # {}
  PROVE  \E p \in S : \A q \in S : q <= p
  <1> DEFINE top == PeriodOf(g, MaxDay)
             Mirror == {top - p : p \in S}
  <1>1. MaxDay \in Days /\ \A d \in Days : d <= MaxDay
    BY ExportAssumption DEF Days
  <1>2. top \in Nat /\ \A p \in Periods(g) : p \in Nat /\ p <= top
    BY <1>1, PeriodsAreNumbers DEF Periods
  <1> HIDE DEF top
  <1>3. Mirror \in SUBSET Nat /\ Mirror # {}
    BY <1>2
  <1>4. PICK m \in Mirror : \A n \in Mirror : m <= n
    <2> HIDE DEF Mirror
    <2> QED BY <1>3, LeastNumber
  <1>5. PICK p \in S : m = top - p
    BY <1>4
  <1>6. \A q \in S : top - p <= top - q
    BY <1>4, <1>5
  <1> QED
    BY <1>2, <1>5, <1>6

\* max_period is 0 or a period of the series that has a file.
LEMMA MaxPeriodIsPublished ==
  ASSUME NEW s \in Series
  PROVE  \/ MaxPeriod(s) = 0
         \/ MaxPeriod(s) \in Periods(s[1]) /\ Registered(s, MaxPeriod(s))
  <1> DEFINE published == {p \in Periods(s[1]) : Registered(s, p)}
  <1>1. published # {} => \E p \in published : \A q \in published : q <= p
    <2> SUFFICES ASSUME published # {}
                 PROVE  \E p \in published : \A q \in published : q <= p
      OBVIOUS
    <2>1. published \in SUBSET Periods(s[1]) /\ s[1] \in Granularities
      BY SeriesParts
    <2> HIDE DEF published
    <2> QED BY <2>1, LastPeriod
  <1> QED
    BY <1>1, Zenon DEF MaxPeriod

-----------------------------------------------------------------------------
(* Types and places                                                         *)

AtFiles(e) == xpc[e] \in {"look", "put", "insert"}

\* An exporter in a scope is at a series and its periods.
Places ==
  \A e \in Exporters :
    /\ xpc[e] \notin {"idle", "series"} =>
         series[e] \in Series /\ pending[e] \subseteq Periods(series[e][1])
    /\ AtFiles(e) => period[e] \in Periods(series[e][1])

PlacesOK == ExportTypeOK /\ Places

LEMMA InitPlaces == ExportInit => PlacesOK
  <1> SUFFICES ASSUME ExportInit PROVE PlacesOK
    OBVIOUS
  <1>1. overlapped \in BOOLEAN
    BY Zenon DEF ExportInit
  <1> QED
    BY <1>1, ExportAssumption
       DEF ExportInit, PlacesOK, ExportTypeOK, Places, AtFiles, Contents, Days, Formats

LEMMA RowsAreMeasurements ==
  ExportTypeOK => \A s, p : RowsOf(s, p) \subseteq Sites \X Days
  BY DEF ExportTypeOK, RowsOf

LEMMA FileOfExporter ==
  ASSUME PlacesOK, NEW e \in Exporters, AtFiles(e)
  PROVE  /\ series[e] \in Series /\ period[e] \in AllPeriods /\ format[e] \in Formats
         /\ File(e) \in Files
  BY PeriodsAreNumbers, SeriesParts
     DEF PlacesOK, ExportTypeOK, Places, AtFiles, File, Files

LEMMA EnterPlaces ==
  ASSUME PlacesOK, NEW e \in Exporters, xpc[e] = "scope",
         NEW p \in Periods(series[e][1]), ExportPeriod(e, p),
         pending' = pending \/ pending' = [pending EXCEPT ![e] = @ \ {p}],
         newest' \in [Exporters -> BOOLEAN],
         UNCHANGED <<today, measured, active, files, bucket, todo_series, with_sites,
                     series, asof, cut, shared, overlapped>>
  PROVE  PlacesOK'
  <1>1. series[e] \in Series /\ p \in AllPeriods /\ RowsOf(series[e], p) \subseteq Sites \X Days
    BY PeriodsAreNumbers, SeriesParts, RowsAreMeasurements DEF PlacesOK, ExportTypeOK, Places
  <1>2. /\ period' = [period EXCEPT ![e] = p]
        /\ content' = [content EXCEPT ![e] = RowsOf(series[e], p)]
        /\ format' = [format EXCEPT ![e] = 1]
        /\ xpc' = [xpc EXCEPT ![e] = "scope"] \/ xpc' = [xpc EXCEPT ![e] = "look"]
        /\ crowded' = crowded \/ crowded' = crowded \cup {<<series[e], p>>}
    BY DEF ExportPeriod, GoExport
  <1>3. 1 \in Formats
    BY ExportAssumption DEF Formats
  <1>4. ExportTypeOK'
    <2>1. overlapped' \in BOOLEAN
      BY Zenon DEF PlacesOK, ExportTypeOK
    <2> QED
      BY <1>1, <1>2, <1>3, <2>1, SMTT(60) DEF PlacesOK, ExportTypeOK, Files, Contents
  <1>5. Places'
    BY <1>1, <1>2 DEF PlacesOK, ExportTypeOK, Places, AtFiles
  <1> QED
    BY <1>4, <1>5 DEF PlacesOK

LEMMA AdvancePlaces ==
  ASSUME PlacesOK, NEW e \in Exporters, AtFiles(e), Advance(e)
  PROVE  /\ format' \in [Exporters -> Formats]
         /\ xpc' = [xpc EXCEPT ![e] = "scope"] \/ xpc' = [xpc EXCEPT ![e] = "look"]
  <1>1. /\ format' = [format EXCEPT ![e] = IF @ = MaxFormat THEN 1 ELSE @ + 1]
        /\ format[e] \in Formats
    BY DEF Advance, PlacesOK, ExportTypeOK
  <1>2. 1 \in Formats /\ (format[e] # MaxFormat => format[e] + 1 \in Formats)
    BY <1>1, ExportAssumption DEF Formats
  <1> QED
    BY <1>1, <1>2 DEF Advance, GoExport, PlacesOK, ExportTypeOK

LEMMA UnsetTypes ==
  ASSUME PlacesOK, NEW e \in Exporters, Unset(e)
  PROVE  /\ series' \in [Exporters -> Series \cup {NoSeries}]
         /\ pending' \in [Exporters -> SUBSET AllPeriods]
         /\ newest' \in [Exporters -> BOOLEAN]
         /\ asof' \in [Exporters -> Days]
         /\ period' \in [Exporters -> AllPeriods \cup {0}]
         /\ content' \in [Exporters -> SUBSET (Sites \X Days)]
         /\ format' \in [Exporters -> Formats]
         /\ \A d \in Exporters \ {e} :
              series'[d] = series[d] /\ pending'[d] = pending[d] /\ period'[d] = period[d]
  <1>1. 1 \in Days /\ 1 \in Formats
    BY ExportAssumption DEF Days, Formats
  <1> QED
    BY <1>1 DEF Unset, PlacesOK, ExportTypeOK

\* An exporter that narrows its candidates down changes nothing else.
LEMMA NarrowFacts ==
  ASSUME NEW e \in Exporters, AvailablePeriods(e) \/ SkipPublished(e), PlacesOK
  PROVE  /\ xpc[e] \in {"window", "available"} /\ xpc'[e] \in {"available", "scope"}
         /\ xpc' = [xpc EXCEPT ![e] = "available"] \/ xpc' = [xpc EXCEPT ![e] = "scope"]
         /\ pending' \in [Exporters -> SUBSET AllPeriods]
         /\ \A d \in Exporters : pending'[d] \subseteq pending[d]
         /\ UNCHANGED <<today, measured, active, files, bucket, todo_series, with_sites,
                        series, newest, asof, period, content, format, cut, shared, crowded,
                        overlapped>>
  <1>1. /\ xpc[e] \in {"window", "available"}
        /\ xpc' = [xpc EXCEPT ![e] = "available"] \/ xpc' = [xpc EXCEPT ![e] = "scope"]
        /\ UNCHANGED <<today, measured, active, files, bucket, todo_series, with_sites,
                       series, newest, asof, period, content, format, cut, shared, crowded,
                       overlapped>>
    BY DEF AvailablePeriods, SkipPublished, Narrow, GoExport
  <1>2. PICK candidates :
          /\ candidates \subseteq pending[e]
          /\ pending' = [pending EXCEPT ![e] = candidates]
    BY DEF AvailablePeriods, SkipPublished, Narrow
  <1> QED
    BY <1>1, <1>2 DEF PlacesOK, ExportTypeOK

LEMMA PlacesStep == PlacesOK /\ [ExportNext]_exportVars => PlacesOK'
  <1> SUFFICES ASSUME PlacesOK, [ExportNext]_exportVars PROVE PlacesOK'
    OBVIOUS
  <1> USE DEF PlacesOK
  <1>1. ASSUME NEW e \in Exporters, StartExport(e) \/ ListSites(e) \/ ExportEnds(e)
        PROVE  PlacesOK'
    <2>1. /\ UNCHANGED <<today, measured, active, files, bucket, series, pending, newest,
                         asof, period, content, format, cut, shared, crowded>>
          /\ overlapped' \in BOOLEAN
          /\ \/ xpc' = xpc \/ xpc' = [xpc EXCEPT ![e] = "series"]
             \/ xpc' = [xpc EXCEPT ![e] = "idle"]
          /\ \/ todo_series' = [todo_series EXCEPT ![e] = Granularities \X {Everywhere}]
             \/ todo_series' = [todo_series EXCEPT ![e] = Granularities \X active]
             \/ todo_series' = todo_series
          /\ \E b \in BOOLEAN : with_sites' = [with_sites EXCEPT ![e] = b]
      BY <1>1 DEF StartExport, ListSites, ExportEnds, GoExport, ExportTypeOK
    <2>2. todo_series' \in [Exporters -> SUBSET Series]
      BY <2>1 DEF ExportTypeOK, Series, Scopes
    <2>3. ExportTypeOK'
      BY <2>1, <2>2 DEF ExportTypeOK, Contents
    <2>4. Places'
      BY <2>1 DEF ExportTypeOK, Places, AtFiles
    <2> QED
      BY <2>3, <2>4
  <1>2. ASSUME NEW e \in Exporters, ExportScope(e) PROVE PlacesOK'
    <2>1. PICK s \in todo_series[e] :
            /\ series' = [series EXCEPT ![e] = s]
            /\ pending' = [pending EXCEPT ![e] = Window(s)]
            /\ todo_series' = [todo_series EXCEPT ![e] = @ \ {s}]
      BY <1>2 DEF ExportScope
    <2>2. s \in Series /\ Window(s) \subseteq Periods(s[1]) /\ Window(s) \subseteq AllPeriods
      BY PeriodsAreNumbers, SeriesParts DEF ExportTypeOK, Window
    <2>3. /\ UNCHANGED <<today, measured, active, files, bucket, with_sites, period,
                         content, format, cut, shared, crowded, overlapped>>
          /\ newest' = [newest EXCEPT ![e] = FALSE]
          /\ asof' = [asof EXCEPT ![e] = today]
          /\ \E l \in {"scope", "window"} : xpc' = [xpc EXCEPT ![e] = l]
      BY <1>2 DEF ExportScope, GoExport
    <2>4. ExportTypeOK'
      BY <2>1, <2>2, <2>3 DEF ExportTypeOK, Contents
    <2>5. Places'
      BY <2>1, <2>2, <2>3 DEF ExportTypeOK, Places, AtFiles
    <2> QED
      BY <2>4, <2>5
  <1>3. ASSUME NEW e \in Exporters, NextPeriod(e) PROVE PlacesOK'
    <2>1. PICK p \in pending[e] :
            ExportPeriod(e, p) /\ pending' = [pending EXCEPT ![e] = @ \ {p}]
      BY <1>3 DEF NextPeriod
    <2>2. xpc[e] = "scope" /\ p \in Periods(series[e][1])
      BY <1>3 DEF NextPeriod, Places
    <2> QED
      BY <1>3, <2>1, <2>2, EnterPlaces DEF NextPeriod, ExportTypeOK
  <1>4. ASSUME NEW e \in Exporters, CompleteNewest(e) PROVE PlacesOK'
    <2>1. xpc[e] = "scope" /\ series[e] \in Series
      BY <1>4 DEF CompleteNewest, Places
    <2>2. newest' \in [Exporters -> BOOLEAN]
      BY <1>4 DEF CompleteNewest, ExportTypeOK
    <2>3. UNCHANGED <<today, measured, active, files, bucket, todo_series, with_sites,
                      series, pending, asof, cut, shared, overlapped>>
      BY <1>4 DEF CompleteNewest
    <2>4. CASE MaxPeriod(series[e]) # 0 /\ Complete(series[e][1], MaxPeriod(series[e]), asof[e])
      <3>1. MaxPeriod(series[e]) \in Periods(series[e][1])
        BY <2>1, <2>4, MaxPeriodIsPublished
      <3>2. ExportPeriod(e, MaxPeriod(series[e]))
        BY <1>4, <2>4 DEF CompleteNewest
      <3> QED
        BY <2>1, <2>2, <2>3, <3>1, <3>2, EnterPlaces
    <2>5. CASE ~(MaxPeriod(series[e]) # 0
                 /\ Complete(series[e][1], MaxPeriod(series[e]), asof[e]))
      <3>1. UNCHANGED <<xpc, period, content, format, crowded>>
        BY <1>4, <2>5 DEF CompleteNewest
      <3> QED
        BY <2>2, <2>3, <3>1 DEF ExportTypeOK, Places, AtFiles, Contents
    <2> QED
      BY <2>4, <2>5
  <1>5. ASSUME NEW e \in Exporters, ScopeEnds(e) \/ ExportStops(e) PROVE PlacesOK'
    <2>1. /\ Unset(e)
          /\ xpc' = [xpc EXCEPT ![e] = "series"] \/ xpc' = [xpc EXCEPT ![e] = "idle"]
          /\ todo_series' = todo_series \/ todo_series' = [todo_series EXCEPT ![e] = {}]
          /\ with_sites' = with_sites \/ with_sites' = [with_sites EXCEPT ![e] = FALSE]
          /\ UNCHANGED <<today, measured, active, files, bucket, shared, crowded, overlapped>>
          /\ cut' = cut \/ (AtFiles(e) /\ cut' = cut \cup {<<series[e], period[e]>>})
      BY <1>5 DEF ScopeEnds, ExportStops, GoExport, AtFiles
    <2>2. cut' \subseteq Series \X AllPeriods
      BY <2>1, FileOfExporter DEF ExportTypeOK
    <2>3. ExportTypeOK'
      BY <2>1, <2>2, UnsetTypes DEF ExportTypeOK, Contents
    <2>4. Places'
      BY <2>1, UnsetTypes DEF ExportTypeOK, Places, AtFiles
    <2> QED
      BY <2>3, <2>4
  <1>6. ASSUME NEW e \in Exporters, FileLook(e) PROVE PlacesOK'
    <2>1. AtFiles(e) /\ File(e) \in Files
      BY <1>6, FileOfExporter DEF FileLook, AtFiles
    <2>2. /\ format' \in [Exporters -> Formats]
          /\ \E l \in {"scope", "look", "put"} : xpc' = [xpc EXCEPT ![e] = l]
          /\ shared' \subseteq Files
          /\ UNCHANGED <<today, measured, active, files, bucket, todo_series, with_sites,
                         series, pending, newest, asof, period, content, cut, crowded, overlapped>>
      BY <1>6, <2>1, AdvancePlaces DEF FileLook, GoExport, ExportTypeOK
    <2>3. ExportTypeOK'
      BY <2>2 DEF ExportTypeOK, Contents
    <2>4. Places'
      BY <2>1, <2>2 DEF ExportTypeOK, Places, AtFiles
    <2> QED
      BY <2>3, <2>4
  <1>7. ASSUME NEW e \in Exporters, FilePut(e) PROVE PlacesOK'
    <2>1. AtFiles(e) /\ File(e) \in Files
      BY <1>7, FileOfExporter DEF FilePut, AtFiles
    <2>2. /\ bucket' = [bucket EXCEPT ![File(e)] = {content[e]}]
          /\ content' = [content EXCEPT ![e] = content[e]]
          /\ xpc' = [xpc EXCEPT ![e] = "insert"]
          /\ UNCHANGED <<today, measured, active, files, todo_series, with_sites,
                         series, pending, newest, asof, period, format, cut, shared,
                         crowded, overlapped>>
      BY <1>7 DEF FilePut, GoExport, Generated
    <2>3. bucket' \in [Files -> Contents]
      BY <2>1, <2>2 DEF ExportTypeOK, Contents
    <2>4. ExportTypeOK'
      BY <2>2, <2>3 DEF ExportTypeOK, Contents
    <2>5. Places'
      BY <2>1, <2>2 DEF ExportTypeOK, Places, AtFiles
    <2> QED
      BY <2>4, <2>5
  <1>8. ASSUME NEW e \in Exporters, FileInsert(e) PROVE PlacesOK'
    <2>1. AtFiles(e) /\ File(e) \in Files
      BY <1>8, FileOfExporter DEF FileInsert, AtFiles
    <2>2. /\ format' \in [Exporters -> Formats]
          /\ \E l \in {"scope", "look"} : xpc' = [xpc EXCEPT ![e] = l]
          /\ files' = [files EXCEPT ![File(e)] = {content[e]}]
          /\ UNCHANGED <<today, measured, active, bucket, todo_series, with_sites,
                         series, pending, newest, asof, period, content, cut, shared,
                         crowded, overlapped>>
      BY <1>8, <2>1, AdvancePlaces DEF FileInsert
    <2>3. files' \in [Files -> Contents]
      BY <2>1, <2>2 DEF ExportTypeOK, Contents
    <2>4. ExportTypeOK'
      BY <2>2, <2>3 DEF ExportTypeOK, Contents
    <2>5. Places'
      BY <2>1, <2>2 DEF ExportTypeOK, Places, AtFiles
    <2> QED
      BY <2>4, <2>5
  <1>9. CASE Measure \/ SetStatus \/ NextDay
    <2>0. /\ today \in Days /\ measured \subseteq Sites \X Days /\ active \subseteq Sites
          /\ 1 .. today \subseteq Days
      BY ExportAssumption DEF ExportTypeOK, Days
    <2>1. measured' \subseteq Sites \X Days
      <3>1. CASE Measure
        <4>1. PICK st \in Sites, d \in 1 .. today : measured' = measured \cup {<<st, d>>}
          BY <3>1 DEF Measure
        <4>2. <<st, d>> \in Sites \X Days
          BY <2>0
        <4> QED BY <2>0, <4>1, <4>2
      <3>2. CASE SetStatus \/ NextDay
        BY <2>0, <3>2 DEF SetStatus, NextDay
      <3> QED BY <1>9, <3>1, <3>2
    <2>2. active' \subseteq Sites
      BY <1>9, <2>0 DEF Measure, SetStatus, NextDay
    <2>3. today' \in Days
      BY <1>9, <2>0, ExportAssumption DEF Measure, SetStatus, NextDay, Days
    <2>4. UNCHANGED <<files, bucket, exporterVars, cut, shared, crowded, overlapped>>
      BY <1>9 DEF Measure, SetStatus, NextDay
    <2> QED
      BY <2>1, <2>2, <2>3, <2>4 DEF exporterVars, ExportTypeOK, Places, AtFiles, Contents
  <1>10. CASE UNCHANGED exportVars
    BY <1>10 DEF exportVars, exporterVars, ExportTypeOK, Places, AtFiles, Contents
  <1>11. ASSUME NEW e \in Exporters, AvailablePeriods(e) \/ SkipPublished(e) PROVE PlacesOK'
    <2>1. ExportTypeOK'
      BY <1>11, NarrowFacts DEF ExportTypeOK, Contents
    <2>2. Places'
      BY <1>11, NarrowFacts DEF ExportTypeOK, Places, AtFiles
    <2> QED
      BY <2>1, <2>2
  <1> QED
    BY <1>1, <1>2, <1>3, <1>4, <1>5, <1>6, <1>7, <1>8, <1>9, <1>10, <1>11
       DEF ExportNext, Export

\* The registry, the bucket and the places of the exporters keep their types:
\* an exporter never goes past the last format.
THEOREM ExportTypes == ExportSpec => []ExportTypeOK
  <1>1. PlacesOK => ExportTypeOK
    BY DEF PlacesOK
  <1> QED
    BY <1>1, InitPlaces, PlacesStep, PTL DEF ExportSpec

-----------------------------------------------------------------------------
(* What a step does to the files                                            *)

\* An exporter does not move.
Stays(e) ==
  /\ xpc'[e] = xpc[e] /\ series'[e] = series[e] /\ period'[e] = period[e]
  /\ content'[e] = content[e] /\ format'[e] = format[e]

OthersStay(e) == \A d \in Exporters \ {e} : Stays(d)

SamePeriod(e) ==
  series'[e] = series[e] /\ period'[e] = period[e] /\ content'[e] = content[e]

\* On to the next format, or the period is done.
Advances(e) ==
  /\ SamePeriod(e)
  /\ \/ format[e] = MaxFormat /\ xpc'[e] = "scope"
     \/ format[e] # MaxFormat /\ xpc'[e] = "look" /\ format'[e] = format[e] + 1

\* A step away from the files, or away from a period before its end.
Elsewhere ==
  /\ UNCHANGED <<files, bucket, shared, crowded>>
  /\ cut \subseteq cut'
  /\ \A e \in Exporters :
       /\ AtFiles(e)' => Stays(e)
       /\ AtFiles(e) => Stays(e) \/ <<series[e], period[e]>> \in cut'

Enters(e, p) ==
  /\ xpc[e] = "scope" /\ OthersStay(e)
  /\ series'[e] = series[e] /\ period'[e] = p /\ format'[e] = 1
  /\ xpc'[e] \in {"scope", "look"}
  /\ crowded \subseteq crowded'
  /\ (\E d \in Exporters \ {e} : At(d, series[e], p)) => <<series[e], p>> \in crowded'
  /\ UNCHANGED <<files, bucket, cut, shared>>

Finds(e) ==
  /\ xpc[e] = "look" /\ Published(File(e)) /\ Advances(e) /\ OthersStay(e)
  /\ UNCHANGED <<files, bucket, cut, shared, crowded>>

Misses(e) ==
  /\ xpc[e] = "look" /\ ~Published(File(e))
  /\ SamePeriod(e) /\ xpc'[e] = "put" /\ format'[e] = format[e] /\ OthersStay(e)
  /\ shared \subseteq shared'
  /\ (\E d \in Exporters \ {e} : Publishing(d, File(e))) => File(e) \in shared'
  /\ UNCHANGED <<files, bucket, cut, crowded>>

Uploads(e) ==
  /\ xpc[e] = "put" /\ xpc'[e] = "insert"
  /\ SamePeriod(e) /\ format'[e] = format[e] /\ OthersStay(e)
  /\ \A k \in Files : bucket'[k] = IF k = File(e) THEN {content[e]} ELSE bucket[k]
  /\ UNCHANGED <<files, cut, shared, crowded>>

Registers(e) ==
  /\ xpc[e] = "insert" /\ ~Published(File(e)) /\ Advances(e) /\ OthersStay(e)
  /\ \A k \in Files : files'[k] = IF k = File(e) THEN {content[e]} ELSE files[k]
  /\ UNCHANGED <<bucket, cut, shared, crowded>>

FileStep ==
  \/ Elsewhere
  \/ \E e \in Exporters :
       \/ series[e] \in Series /\ \E p \in Periods(series[e][1]) : Enters(e, p)
       \/ Finds(e) \/ Misses(e) \/ Uploads(e) \/ Registers(e)

LEMMA ExportPeriodEnters ==
  ASSUME PlacesOK, NEW e \in Exporters, NEW p, xpc[e] = "scope", ExportPeriod(e, p),
         UNCHANGED <<files, bucket, series, cut, shared>>
  PROVE  Enters(e, p)
  BY DEF PlacesOK, ExportTypeOK, ExportPeriod, GoExport, Enters, OthersStay, Stays

LEMMA AdvanceAdvances ==
  ASSUME PlacesOK, NEW e \in Exporters, Advance(e), UNCHANGED <<series, period, content>>
  PROVE  Advances(e) /\ OthersStay(e)
  BY DEF PlacesOK, ExportTypeOK, Advance, GoExport, Advances, SamePeriod, OthersStay, Stays

\* Every step is one of these.
LEMMA FileSteps == PlacesOK /\ [ExportNext]_exportVars => FileStep
  <1> SUFFICES ASSUME PlacesOK, [ExportNext]_exportVars PROVE FileStep
    OBVIOUS
  <1>0. /\ xpc \in [Exporters -> {"idle", "series", "window", "available", "scope", "look", "put",
                              "insert"}]
        /\ DOMAIN series = Exporters /\ DOMAIN period = Exporters
        /\ DOMAIN content = Exporters /\ DOMAIN format = Exporters
        /\ DOMAIN files = Files /\ DOMAIN bucket = Files
    BY DEF PlacesOK, ExportTypeOK
  <1>1. ASSUME NEW e \in Exporters, StartExport(e) \/ ListSites(e) \/ ExportEnds(e)
        PROVE  Elsewhere
    BY <1>0, <1>1 DEF StartExport, ListSites, ExportEnds, GoExport, Elsewhere, Stays, AtFiles
  <1>2. ASSUME NEW e \in Exporters, ExportScope(e) PROVE Elsewhere
    <2>1. /\ xpc[e] = "series"
          /\ \E l \in {"scope", "window"} : xpc' = [xpc EXCEPT ![e] = l]
          /\ \A d \in Exporters \ {e} : series'[d] = series[d]
          /\ UNCHANGED <<files, bucket, period, content, format, cut, shared, crowded>>
      BY <1>0, <1>2 DEF ExportScope, GoExport
    <2> QED
      BY <1>0, <2>1 DEF Elsewhere, Stays, AtFiles
  <1>3. ASSUME NEW e \in Exporters, ScopeEnds(e) \/ ExportStops(e) PROVE Elsewhere
    <2>1. /\ Unset(e)
          /\ xpc' = [xpc EXCEPT ![e] = "series"] \/ xpc' = [xpc EXCEPT ![e] = "idle"]
          /\ UNCHANGED <<files, bucket, shared, crowded>>
          /\ cut \subseteq cut'
          /\ AtFiles(e) => <<series[e], period[e]>> \in cut'
      BY <1>3 DEF ScopeEnds, ExportStops, GoExport, AtFiles
    <2>2. ~AtFiles(e)' /\ OthersStay(e)
      BY <1>0, <2>1 DEF Unset, OthersStay, Stays, AtFiles
    <2> QED
      BY <2>1, <2>2 DEF Elsewhere, OthersStay
  <1>4. ASSUME NEW e \in Exporters, NextPeriod(e)
        PROVE  series[e] \in Series /\ \E p \in Periods(series[e][1]) : Enters(e, p)
    <2>1. PICK p \in pending[e] : ExportPeriod(e, p)
      BY <1>4 DEF NextPeriod
    <2>2. /\ xpc[e] = "scope" /\ series[e] \in Series /\ p \in Periods(series[e][1])
          /\ UNCHANGED <<files, bucket, series, cut, shared>>
      BY <1>4 DEF NextPeriod, PlacesOK, Places
    <2> QED
      BY <2>1, <2>2, ExportPeriodEnters
  <1>5. ASSUME NEW e \in Exporters, CompleteNewest(e)
        PROVE  \/ Elsewhere
               \/ series[e] \in Series /\ \E p \in Periods(series[e][1]) : Enters(e, p)
    <2>1. /\ xpc[e] = "scope" /\ series[e] \in Series
          /\ UNCHANGED <<files, bucket, series, cut, shared>>
      BY <1>5 DEF CompleteNewest, PlacesOK, Places
    <2>2. CASE MaxPeriod(series[e]) # 0 /\ Complete(series[e][1], MaxPeriod(series[e]), asof[e])
      <3>1. MaxPeriod(series[e]) \in Periods(series[e][1])
        BY <2>1, <2>2, MaxPeriodIsPublished
      <3>2. ExportPeriod(e, MaxPeriod(series[e]))
        BY <1>5, <2>2 DEF CompleteNewest
      <3> QED
        BY <2>1, <3>1, <3>2, ExportPeriodEnters
    <2>3. CASE ~(MaxPeriod(series[e]) # 0
                 /\ Complete(series[e][1], MaxPeriod(series[e]), asof[e]))
      <3>1. UNCHANGED <<xpc, period, content, format, crowded>>
        BY <1>5, <2>3 DEF CompleteNewest
      <3> QED
        BY <2>1, <3>1 DEF Elsewhere, Stays, AtFiles
    <2> QED
      BY <2>2, <2>3
  <1>6. ASSUME NEW e \in Exporters, FileLook(e) PROVE Finds(e) \/ Misses(e)
    <2>1. CASE Found(e)
      BY <1>6, <2>1, AdvanceAdvances DEF FileLook, Found, Finds
    <2>2. CASE ~Found(e)
      <3>1. /\ xpc[e] = "look" /\ ~Published(File(e))
            /\ xpc' = [xpc EXCEPT ![e] = "put"]
            /\ shared \subseteq shared'
            /\ (\E d \in Exporters \ {e} : Publishing(d, File(e))) => File(e) \in shared'
            /\ UNCHANGED <<files, bucket, series, period, content, format, cut, crowded>>
        BY <1>6, <2>2 DEF FileLook, Found, GoExport
      <3>2. SamePeriod(e) /\ OthersStay(e) /\ xpc'[e] = "put" /\ format'[e] = format[e]
        BY <1>0, <3>1 DEF SamePeriod, OthersStay, Stays
      <3> QED BY <3>1, <3>2 DEF Misses
    <2> QED
      BY <2>1, <2>2
  <1>7. ASSUME NEW e \in Exporters, FilePut(e) PROVE Uploads(e)
    <2>1. /\ xpc[e] = "put" /\ xpc' = [xpc EXCEPT ![e] = "insert"]
          /\ bucket' = [bucket EXCEPT ![File(e)] = {content[e]}]
          /\ content' = [content EXCEPT ![e] = content[e]]
          /\ UNCHANGED <<files, series, period, format, cut, shared, crowded>>
      BY <1>7 DEF FilePut, Generated, GoExport
    <2>2. /\ SamePeriod(e) /\ OthersStay(e) /\ xpc'[e] = "insert" /\ format'[e] = format[e]
          /\ \A k \in Files : bucket'[k] = IF k = File(e) THEN {content[e]} ELSE bucket[k]
      BY <1>0, <2>1 DEF SamePeriod, OthersStay, Stays
    <2> QED BY <2>1, <2>2 DEF Uploads
  <1>8. ASSUME NEW e \in Exporters, FileInsert(e) PROVE Registers(e)
    BY <1>0, <1>8, AdvanceAdvances DEF FileInsert, Registers
  <1>9. CASE Measure \/ SetStatus \/ NextDay
    BY <1>9 DEF Measure, SetStatus, NextDay, exporterVars, Elsewhere, Stays, AtFiles, FileStep
  <1>10. CASE UNCHANGED exportVars
    BY <1>10 DEF exportVars, exporterVars, Elsewhere, Stays, AtFiles, FileStep
  <1>11. ASSUME NEW e \in Exporters, AvailablePeriods(e) \/ SkipPublished(e) PROVE Elsewhere
    BY <1>0, <1>11, NarrowFacts DEF Elsewhere, Stays, AtFiles
  <1> QED
    BY <1>1, <1>2, <1>3, <1>4, <1>5, <1>6, <1>7, <1>8, <1>9, <1>10, <1>11
       DEF ExportNext, Export, FileStep

-----------------------------------------------------------------------------
(* Periods have all their formats                                           *)

\* The formats before the one an exporter is at are published.
WholeInv ==
  /\ WholePeriods
  /\ \A e \in Exporters : AtFiles(e) =>
       \A f \in Formats : f < format[e] => Published(<<series[e], period[e], f>>)

LEMMA InitWhole == ExportInit => WholeInv
  BY ExportAssumption, PeriodsAreNumbers, SeriesParts
     DEF ExportInit, WholeInv, WholePeriods, Registered, AtFiles, Files

\* Published in the next state.
PublishedNext(k) == files'[k] # {}

\* A file once published stays published.
LEMMA FilesStay ==
  ASSUME PlacesOK, FileStep, NEW k \in Files, Published(k)
  PROVE  PublishedNext(k)
  BY DEF PublishedNext, FileStep, Elsewhere, Enters, Finds, Misses, Uploads, Registers, Published

LEMMA FileOfPeriod ==
  \A s \in Series, p \in AllPeriods, f \in Formats : <<s, p, f>> \in Files
  BY DEF Files

\* A step that publishes nothing keeps the periods whole if those under way
\* stay so, are whole or are cut short.
LEMMA QuietKeepsWhole ==
  ASSUME WholeInv, UNCHANGED files, cut \subseteq cut',
         \A e \in Exporters : AtFiles(e) =>
           \/ AtFiles(e)' /\ series'[e] = series[e] /\ period'[e] = period[e]
           \/ <<series[e], period[e]>> \in cut'
           \/ \A f \in Formats : Published(<<series[e], period[e], f>>)
  PROVE  WholePeriods'
  <1> SUFFICES ASSUME NEW s \in Series, NEW p \in AllPeriods,
                      Registered(s, p), <<s, p>> \notin cut',
                      ~ \A f \in Formats : Published(<<s, p, f>>)
               PROVE  \E e \in Exporters : AtFiles(e)' /\ series'[e] = s /\ period'[e] = p
    BY DEF WholePeriods, Registered, Published, AtFiles
  <1>1. PICK e \in Exporters : AtFiles(e) /\ series[e] = s /\ period[e] = p
    BY DEF WholeInv, WholePeriods, AtFiles
  <1> QED
    BY <1>1

LEMMA WholeNext ==
  ASSUME WholePeriods',
         \A e \in Exporters : AtFiles(e)' =>
           \A f \in Formats : f < format'[e] => PublishedNext(<<series'[e], period'[e], f>>)
  PROVE  WholeInv'
  BY DEF WholeInv, PublishedNext, Published

LEMMA WholeStep == PlacesOK /\ WholeInv /\ FileStep /\ PlacesOK' => WholeInv'
  <1> SUFFICES ASSUME PlacesOK, WholeInv, FileStep, PlacesOK' PROVE WholeInv'
    OBVIOUS
  <1>0. \A e \in Exporters : AtFiles(e) =>
          /\ format[e] \in Nat /\ series[e] \in Series /\ period[e] \in AllPeriods
          /\ File(e) \in Files
    BY FileOfExporter DEF Formats
  <1>1. ASSUME NEW e \in Exporters, Stays(e), AtFiles(e)', NEW f \in Formats, f < format'[e]
        PROVE  PublishedNext(<<series'[e], period'[e], f>>)
    <2>1. AtFiles(e) /\ f < format[e] /\ Published(<<series[e], period[e], f>>)
      BY <1>1 DEF Stays, AtFiles, WholeInv
    <2>2. <<series[e], period[e], f>> \in Files
      BY <1>0, <2>1, FileOfPeriod
    <2> QED
      BY <1>1, <2>1, <2>2, FilesStay DEF Stays
  <1>2. ASSUME NEW e \in Exporters, AtFiles(e), NEW f \in Formats,
               \/ f < format[e]
               \/ f = format[e] /\ PublishedNext(File(e))
        PROVE  PublishedNext(<<series[e], period[e], f>>)
    <2>1. <<series[e], period[e], f>> \in Files
      BY <1>0, <1>2, FileOfPeriod
    <2> QED
      BY <1>2, <2>1, FilesStay DEF WholeInv, File, Published
  <1>3. CASE Elsewhere
    <2>1. WholePeriods'
      BY <1>3, QuietKeepsWhole DEF Elsewhere, Stays, AtFiles
    <2> QED
      BY <1>1, <1>3, <2>1, WholeNext DEF Elsewhere
  <1>4. ASSUME NEW e \in Exporters, NEW p, Enters(e, p) PROVE WholeInv'
    <2>1. WholePeriods'
      BY <1>4, QuietKeepsWhole DEF Enters, OthersStay, Stays, AtFiles
    <2>2. format'[e] = 1 /\ \A f \in Formats : ~ (f < 1)
      BY <1>4 DEF Enters, Formats
    <2> QED
      BY <1>1, <1>4, <2>1, <2>2, WholeNext DEF Enters, OthersStay
  <1>5. ASSUME NEW e \in Exporters, AtFiles(e), Advances(e), OthersStay(e),
               PublishedNext(File(e)), UNCHANGED cut
        PROVE  /\ \/ AtFiles(e)' /\ series'[e] = series[e] /\ period'[e] = period[e]
                  \/ \A f \in Formats : PublishedNext(<<series[e], period[e], f>>)
               /\ AtFiles(e)' => \A f \in Formats : f < format'[e] =>
                                   PublishedNext(<<series'[e], period'[e], f>>)
    <2>1. format[e] \in Nat
      BY <1>0, <1>5
    <2>2. CASE format[e] = MaxFormat /\ xpc'[e] = "scope"
      <3>1. \A f \in Formats : f < format[e] \/ f = format[e]
        BY <2>1, <2>2, ExportAssumption DEF Formats
      <3> QED
        BY <1>2, <1>5, <2>2, <3>1 DEF AtFiles
    <2>3. CASE xpc'[e] = "look" /\ format'[e] = format[e] + 1
      <3>1. \A f \in Formats : f < format'[e] => f < format[e] \/ f = format[e]
        BY <2>1, <2>3 DEF Formats
      <3> QED
        BY <1>2, <1>5, <2>3, <3>1 DEF AtFiles, Advances, SamePeriod
    <2> QED
      BY <1>5, <2>2, <2>3 DEF Advances
  <1>6. ASSUME NEW e \in Exporters, Finds(e) PROVE WholeInv'
    <2>1. AtFiles(e) /\ PublishedNext(File(e)) /\ UNCHANGED <<files, cut>> /\ Advances(e) /\ OthersStay(e)
      BY <1>6, <1>0, FilesStay DEF Finds, AtFiles
    <2>2. WholePeriods'
      BY <1>5, <2>1, QuietKeepsWhole DEF OthersStay, Stays, AtFiles, Published, PublishedNext
    <2> QED
      BY <1>1, <1>5, <2>1, <2>2, WholeNext DEF OthersStay
  <1>7. ASSUME NEW e \in Exporters, Misses(e) \/ Uploads(e) PROVE WholeInv'
    <2>1. /\ AtFiles(e) /\ AtFiles(e)' /\ SamePeriod(e) /\ format'[e] = format[e] /\ OthersStay(e)
          /\ UNCHANGED <<files, cut>>
      BY <1>7 DEF Misses, Uploads, AtFiles
    <2>2. WholePeriods'
      BY <2>1, QuietKeepsWhole DEF OthersStay, Stays, SamePeriod, AtFiles
    <2>3. \A f \in Formats : f < format'[e] => PublishedNext(<<series'[e], period'[e], f>>)
      BY <1>2, <2>1 DEF SamePeriod
    <2> QED
      BY <1>1, <2>1, <2>2, <2>3, WholeNext DEF OthersStay
  <1>8. ASSUME NEW e \in Exporters, Registers(e) PROVE WholeInv'
    <2>1. /\ AtFiles(e) /\ File(e) \in Files /\ UNCHANGED cut /\ Advances(e) /\ OthersStay(e)
          /\ files'[File(e)] = {content[e]}
          /\ \A k \in Files : k # File(e) => files'[k] = files[k]
      BY <1>0, <1>8 DEF Registers, AtFiles
    <2>2. PublishedNext(File(e))
      BY <2>1 DEF PublishedNext
    <2>3. ASSUME NEW s \in Series, NEW p \in AllPeriods, Registered(s, p)', <<s, p>> \notin cut',
                 ~ \A f \in Formats : PublishedNext(<<s, p, f>>)
          PROVE  \E d \in Exporters : AtFiles(d)' /\ series'[d] = s /\ period'[d] = p
      <3>1. CASE s = series[e] /\ p = period[e]
        BY <1>5, <2>1, <2>2, <2>3, <3>1
      <3>2. CASE s # series[e] \/ p # period[e]
        <4>1. \A f \in Formats : files'[<<s, p, f>>] = files[<<s, p, f>>]
          BY <2>1, <3>2, FileOfPeriod DEF File
        <4>2. PICK d \in Exporters : AtFiles(d) /\ series[d] = s /\ period[d] = p
          BY <2>1, <2>3, <4>1 DEF WholeInv, WholePeriods, AtFiles, Registered, Published,
             PublishedNext
        <4> QED
          BY <2>1, <3>2, <4>2 DEF OthersStay, Stays, AtFiles
      <3> QED
        BY <3>1, <3>2
    <2>4. WholePeriods'
      BY <2>3 DEF WholePeriods, AtFiles, Registered, Published, PublishedNext
    <2> QED
      BY <1>1, <1>5, <2>1, <2>2, <2>4, WholeNext DEF OthersStay
  <1> QED
    BY <1>3, <1>4, <1>6, <1>7, <1>8 DEF FileStep

\* No period is left with some of its formats but by a run that stopped in the
\* middle of it.
THEOREM PeriodsAreWhole == ExportSpec => []WholePeriods
  <1>1. PlacesOK /\ WholeInv /\ [ExportNext]_exportVars => (PlacesOK /\ WholeInv)'
    BY PlacesStep, FileSteps, WholeStep
  <1>2. WholeInv => WholePeriods
    BY DEF WholeInv
  <1> QED
    BY <1>1, <1>2, InitPlaces, InitWhole, PTL DEF ExportSpec

-----------------------------------------------------------------------------
(* The bytes behind the registry                                            *)

\* What an exporter has uploaded is still there when it registers it; a file
\* registered under an upload, or uploaded twice, is shared.
ServedInv ==
  /\ ServedAsRegistered
  /\ \A e \in Exporters :
       xpc[e] = "insert" => bucket[File(e)] = {content[e]} \/ File(e) \in shared
  /\ \A e \in Exporters : xpc[e] \in {"put", "insert"} =>
       /\ Published(File(e)) => File(e) \in shared
       /\ \A d \in Exporters \ {e} : Publishing(d, File(e)) => File(e) \in shared

LEMMA InitServed == ExportInit => ServedInv
  BY DEF ExportInit, ServedInv, ServedAsRegistered, Published, Publishing

\* An exporter that does not move keeps its file.
LEMMA SameFile ==
  ASSUME NEW e, SamePeriod(e), format'[e] = format[e]
  PROVE  File(e)' = File(e)
  BY DEF SamePeriod, File

LEMMA ServedStep == PlacesOK /\ ServedInv /\ FileStep => ServedInv'
  <1> SUFFICES ASSUME PlacesOK, ServedInv, FileStep PROVE ServedInv'
    OBVIOUS
  <1>0. \A e \in Exporters : xpc[e] \in {"put", "insert"} => File(e) \in Files
    BY FileOfExporter DEF AtFiles
  <1>1. \A d \in Exporters : Stays(d) => /\ File(d)' = File(d) /\ xpc'[d] = xpc[d]
                                         /\ content'[d] = content[d]
    BY DEF Stays, File
  <1>2. ASSUME UNCHANGED <<files, bucket>>, shared \subseteq shared',
               \A d \in Exporters : xpc'[d] \in {"put", "insert"} => Stays(d)
        PROVE  ServedInv'
    <2>1. \A d \in Exporters : xpc'[d] \in {"put", "insert"} =>
            /\ File(d)' = File(d) /\ xpc'[d] = xpc[d] /\ content'[d] = content[d]
      BY <1>1, <1>2
    <2> QED
      BY <1>2, <2>1 DEF ServedInv, ServedAsRegistered, Published, Publishing
  <1>3. CASE Elsewhere
    BY <1>2, <1>3 DEF Elsewhere, AtFiles
  <1>4. ASSUME NEW e \in Exporters, NEW p, Enters(e, p) PROVE ServedInv'
    BY <1>2, <1>4 DEF Enters, OthersStay
  <1>5. ASSUME NEW e \in Exporters, Finds(e) PROVE ServedInv'
    BY <1>2, <1>5 DEF Finds, Advances, OthersStay
  <1>6. ASSUME NEW e \in Exporters, Misses(e) PROVE ServedInv'
    <2>1. /\ File(e)' = File(e) /\ xpc'[e] = "put" /\ ~Published(File(e))
          /\ UNCHANGED <<files, bucket>> /\ shared \subseteq shared'
          /\ (\E d \in Exporters \ {e} : Publishing(d, File(e))) => File(e) \in shared'
      BY <1>6, SameFile DEF Misses
    <2>2. \A d \in Exporters \ {e} :
            /\ File(d)' = File(d) /\ xpc'[d] = xpc[d] /\ content'[d] = content[d]
      BY <1>1, <1>6 DEF Misses, OthersStay
    <2> QED
      BY <2>1, <2>2 DEF ServedInv, ServedAsRegistered, Published, Publishing
  <1>7. ASSUME NEW e \in Exporters, Uploads(e) PROVE ServedInv'
    <2>1. /\ File(e)' = File(e) /\ xpc[e] = "put" /\ xpc'[e] = "insert"
          /\ content'[e] = content[e]
          /\ File(e) \in Files
          /\ bucket'[File(e)] = {content[e]}
          /\ \A k \in Files : k # File(e) => bucket'[k] = bucket[k]
          /\ UNCHANGED <<files, shared>>
      BY <1>0, <1>7, SameFile DEF Uploads, SamePeriod
    <2>2. \A d \in Exporters \ {e} :
            /\ File(d)' = File(d) /\ xpc'[d] = xpc[d] /\ content'[d] = content[d]
      BY <1>1, <1>7 DEF Uploads, OthersStay
    <2>3. ServedAsRegistered'
      BY <2>1 DEF ServedInv, ServedAsRegistered, Published
    <2>4. \A d \in Exporters : xpc'[d] = "insert" =>
            bucket'[File(d)'] = {content'[d]} \/ File(d)' \in shared'
      <3>1. ASSUME NEW d \in Exporters \ {e}, xpc'[d] = "insert"
            PROVE  bucket'[File(d)] = {content'[d]} \/ File(d) \in shared'
        <4>1. xpc[d] = "insert" /\ File(d) \in Files
          BY <1>0, <2>2, <3>1
        <4>2. CASE File(d) = File(e)
          BY <2>1, <4>1, <4>2 DEF ServedInv, Publishing
        <4>3. CASE File(d) # File(e)
          BY <2>1, <2>2, <4>1, <4>3 DEF ServedInv
        <4> QED BY <4>2, <4>3
      <3> QED
        BY <2>1, <2>2, <3>1
    <2>5. \A d \in Exporters : xpc'[d] \in {"put", "insert"} =>
            /\ files'[File(d)'] # {} => File(d)' \in shared'
            /\ \A g \in Exporters \ {d} : Publishing(g, File(d))' => File(d)' \in shared'
      BY <2>1, <2>2 DEF ServedInv, Published, Publishing
    <2> QED
      BY <2>3, <2>4, <2>5 DEF ServedInv, Published
  <1>8. ASSUME NEW e \in Exporters, Registers(e) PROVE ServedInv'
    <2>1. /\ xpc[e] = "insert" /\ xpc'[e] \notin {"put", "insert"}
          /\ File(e) \in Files
          /\ files'[File(e)] = {content[e]}
          /\ \A k \in Files : k # File(e) => files'[k] = files[k]
          /\ UNCHANGED <<bucket, shared>>
      BY <1>0, <1>8 DEF Registers, Advances
    <2>2. \A d \in Exporters \ {e} :
            /\ File(d)' = File(d) /\ xpc'[d] = xpc[d] /\ content'[d] = content[d]
      BY <1>1, <1>8 DEF Registers, OthersStay
    <2>3. ServedAsRegistered'
      BY <2>1 DEF ServedInv, ServedAsRegistered, Published
    <2>4. \A d \in Exporters \ {e} : xpc'[d] \in {"put", "insert"} =>
            (files'[File(d)] # {} => File(d) \in shared)
      <3> SUFFICES ASSUME NEW d \in Exporters \ {e}, xpc[d] \in {"put", "insert"},
                          files'[File(d)] # {}
                   PROVE  File(d) \in shared
        BY <2>2
      <3>1. File(d) \in Files
        BY <1>0
      <3>2. CASE File(d) = File(e)
        BY <2>1, <3>2 DEF ServedInv, Publishing
      <3>3. CASE File(d) # File(e)
        BY <2>1, <3>1, <3>3 DEF ServedInv, Published
      <3> QED BY <3>2, <3>3
    <2>5. \A d \in Exporters : xpc'[d] \in {"put", "insert"} =>
            \A g \in Exporters \ {d} : Publishing(g, File(d))' => File(d)' \in shared'
      BY <2>1, <2>2 DEF ServedInv, Publishing
    <2>6. \A d \in Exporters : xpc'[d] = "insert" =>
            bucket'[File(d)'] = {content'[d]} \/ File(d)' \in shared'
      BY <2>1, <2>2 DEF ServedInv
    <2> QED
      BY <2>1, <2>2, <2>3, <2>4, <2>5, <2>6 DEF ServedInv, Published
  <1> QED
    BY <1>3, <1>4, <1>5, <1>6, <1>7, <1>8 DEF FileStep

\* A published file is served with the bytes it was registered with, unless two
\* exporters uploaded it at the same time.
THEOREM FilesAreServed == ExportSpec => []ServedAsRegistered
  <1>1. PlacesOK /\ ServedInv /\ [ExportNext]_exportVars => (PlacesOK /\ ServedInv)'
    BY PlacesStep, FileSteps, ServedStep
  <1>2. ServedInv => ServedAsRegistered
    BY DEF ServedInv
  <1> QED
    BY <1>1, <1>2, InitPlaces, InitServed, PTL DEF ExportSpec

-----------------------------------------------------------------------------
(* The formats of a period                                                  *)

Clear(s, p) == <<s, p>> \notin cut \cup crowded

AllOf(s, p) == \A f \in Formats : Published(<<s, p, f>>)
NoneBut(s, p, c) == \A f \in Formats : Published(<<s, p, f>>) => files[<<s, p, f>>] = {c}

\* At a period that is nobody else's an exporter finds all formats, or has
\* registered those there are from the rows it read.
FormatsInv ==
  /\ FormatsAgree
  /\ \A e \in Exporters : AtFiles(e) /\ Clear(series[e], period[e]) =>
       AllOf(series[e], period[e]) \/ NoneBut(series[e], period[e], content[e])
  /\ \A e, d \in Exporters :
       /\ e # d /\ AtFiles(e) /\ AtFiles(d)
       /\ series[e] = series[d] /\ period[e] = period[d]
       => <<series[e], period[e]>> \in crowded

LEMMA InitFormats == ExportInit => FormatsInv
  BY FileOfPeriod DEF ExportInit, FormatsInv, FormatsAgree, AtFiles, Published

\* While the files stay as they are.
LEMMA QuietKeepsFormats ==
  ASSUME FormatsInv, UNCHANGED files, cut \subseteq cut', crowded \subseteq crowded',
         \A e \in Exporters : AtFiles(e)' =>
           /\ AtFiles(e)
           /\ series'[e] = series[e] /\ period'[e] = period[e] /\ content'[e] = content[e]
  PROVE  FormatsInv'
  BY DEF FormatsInv, FormatsAgree, Clear, AllOf, NoneBut, Published

LEMMA FormatsStep == PlacesOK /\ WholeInv /\ FormatsInv /\ FileStep => FormatsInv'
  <1> SUFFICES ASSUME PlacesOK, WholeInv, FormatsInv, FileStep PROVE FormatsInv'
    OBVIOUS
  <1>0. \A e \in Exporters : AtFiles(e) =>
          /\ series[e] \in Series /\ period[e] \in AllPeriods /\ format[e] \in Formats
          /\ File(e) \in Files
    BY FileOfExporter
  <1>1. CASE Elsewhere
    BY <1>1, QuietKeepsFormats DEF Elsewhere, Stays, AtFiles
  <1>2. ASSUME NEW e \in Exporters, series[e] \in Series,
               NEW p \in Periods(series[e][1]), Enters(e, p)
        PROVE  FormatsInv'
    <2>1. /\ ~AtFiles(e) /\ series'[e] = series[e] /\ period'[e] = p
          /\ UNCHANGED <<files, cut>> /\ crowded \subseteq crowded'
          /\ \A d \in Exporters \ {e} : AtFiles(d) /\ series[d] = series[e] /\ period[d] = p =>
               <<series[e], p>> \in crowded'
      BY <1>2 DEF Enters, AtFiles, At
    <2>2. \A d \in Exporters \ {e} :
            /\ AtFiles(d)' <=> AtFiles(d)
            /\ series'[d] = series[d] /\ period'[d] = period[d] /\ content'[d] = content[d]
      BY <1>2 DEF Enters, OthersStay, Stays, AtFiles
    <2>3. p \in AllPeriods
      BY <1>2, SeriesParts, PeriodsAreNumbers
    <2>4. ASSUME <<series[e], p>> \notin cut \cup crowded'
          PROVE  AllOf(series[e], p) \/ NoneBut(series[e], p, content'[e])
      <3>1. CASE Registered(series[e], p)
        <4>1. ~ \E d \in Exporters : AtFiles(d) /\ series[d] = series[e] /\ period[d] = p
          BY <2>1, <2>4
        <4> QED
          BY <1>2, <2>3, <2>4, <3>1, <4>1 DEF WholeInv, WholePeriods, AtFiles, AllOf
      <3>2. CASE ~Registered(series[e], p)
        BY <3>2 DEF Registered, NoneBut, Published
      <3> QED BY <3>1, <3>2
    <2>5. FormatsAgree'
      BY <2>1 DEF FormatsInv, FormatsAgree, Published
    <2>6. ASSUME NEW d \in Exporters, AtFiles(d)',
                 <<series'[d], period'[d]>> \notin cut \cup crowded'
          PROVE  \/ AllOf(series'[d], period'[d])
                 \/ NoneBut(series'[d], period'[d], content'[d])
      <3>1. CASE d = e
        BY <2>1, <2>4, <2>6, <3>1 DEF Clear
      <3>2. CASE d # e
        BY <2>1, <2>2, <2>6, <3>2 DEF Clear, FormatsInv
      <3> QED BY <3>1, <3>2
    <2>7. ASSUME NEW d \in Exporters, NEW g \in Exporters, d # g, AtFiles(d)', AtFiles(g)',
                 series'[d] = series'[g], period'[d] = period'[g]
          PROVE  <<series'[d], period'[d]>> \in crowded'
      BY <2>1, <2>2, <2>7 DEF FormatsInv
    <2> QED
      BY <2>1, <2>5, <2>6, <2>7 DEF FormatsInv, Clear, AllOf, NoneBut, Published
  <1>3. ASSUME NEW e \in Exporters, Finds(e) \/ Misses(e) \/ Uploads(e) PROVE FormatsInv'
    BY <1>3, QuietKeepsFormats
       DEF Finds, Misses, Uploads, Advances, SamePeriod, OthersStay, Stays, AtFiles
  <1>4. ASSUME NEW e \in Exporters, Registers(e) PROVE FormatsInv'
    <2>1. /\ AtFiles(e) /\ File(e) \in Files /\ ~Published(File(e))
          /\ files'[File(e)] = {content[e]}
          /\ \A k \in Files : k # File(e) => files'[k] = files[k]
          /\ UNCHANGED <<cut, crowded>>
      BY <1>0, <1>4 DEF Registers, AtFiles
    <2>2. \A d \in Exporters :
            /\ AtFiles(d)' => AtFiles(d)
            /\ AtFiles(d)' => series'[d] = series[d] /\ period'[d] = period[d]
                              /\ content'[d] = content[d]
      BY <1>4, <2>1 DEF Registers, Advances, SamePeriod, OthersStay, Stays, AtFiles
    <2>3. Clear(series[e], period[e]) => NoneBut(series[e], period[e], content[e])
      BY <1>0, <2>1 DEF FormatsInv, AllOf, File
    <2>4. Clear(series[e], period[e]) =>
            \A f \in Formats : files'[<<series[e], period[e], f>>] # {} =>
              files'[<<series[e], period[e], f>>] = {content[e]}
      <3> SUFFICES ASSUME Clear(series[e], period[e]), NEW f \in Formats,
                          files'[<<series[e], period[e], f>>] # {}
                   PROVE  files'[<<series[e], period[e], f>>] = {content[e]}
        OBVIOUS
      <3>1. <<series[e], period[e], f>> \in Files
        BY <1>0, <2>1, FileOfPeriod
      <3> QED
        BY <2>1, <2>3, <3>1 DEF NoneBut, Published
    <2>5. ASSUME NEW s \in Series, NEW p \in AllPeriods, s # series[e] \/ p # period[e],
                 NEW f \in Formats
          PROVE  files'[<<s, p, f>>] = files[<<s, p, f>>]
      BY <2>1, <2>5, FileOfPeriod DEF File
    <2>6. FormatsAgree'
      <3> SUFFICES ASSUME NEW s \in Series, NEW p \in AllPeriods,
                          NEW f \in Formats, NEW g \in Formats,
                          files'[<<s, p, f>>] # {}, files'[<<s, p, g>>] # {}, Clear(s, p)
                   PROVE  files'[<<s, p, f>>] = files'[<<s, p, g>>]
        BY <2>1 DEF FormatsAgree, Published, Clear
      <3>1. CASE s = series[e] /\ p = period[e]
        BY <2>4, <3>1
      <3>2. CASE s # series[e] \/ p # period[e]
        BY <2>5, <3>2 DEF FormatsInv, FormatsAgree, Published, Clear
      <3> QED BY <3>1, <3>2
    <2>7. ASSUME NEW d \in Exporters, AtFiles(d), Clear(series[d], period[d])
          PROVE  \/ \A f \in Formats : files'[<<series[d], period[d], f>>] # {}
                 \/ \A f \in Formats : files'[<<series[d], period[d], f>>] # {} =>
                      files'[<<series[d], period[d], f>>] = {content[d]}
      <3>1. CASE d = e
        BY <2>4, <2>7, <3>1
      <3>2. CASE d # e
        <4>1. series[d] # series[e] \/ period[d] # period[e]
          BY <2>1, <2>7, <3>2 DEF FormatsInv, Clear
        <4>2. \A f \in Formats :
                files'[<<series[d], period[d], f>>] = files[<<series[d], period[d], f>>]
          BY <1>0, <2>5, <2>7, <4>1
        <4> QED
          BY <2>7, <4>2 DEF FormatsInv, AllOf, NoneBut, Published
      <3> QED BY <3>1, <3>2
    <2>8. \A d \in Exporters : AtFiles(d)' /\ Clear(series'[d], period'[d]) =>
            \/ \A f \in Formats : files'[<<series'[d], period'[d], f>>] # {}
            \/ \A f \in Formats : files'[<<series'[d], period'[d], f>>] # {} =>
                 files'[<<series'[d], period'[d], f>>] = {content'[d]}
      BY <2>2, <2>7
    <2>9. ASSUME NEW d \in Exporters, NEW g \in Exporters, d # g, AtFiles(d)', AtFiles(g)',
                 series'[d] = series'[g], period'[d] = period'[g]
          PROVE  <<series'[d], period'[d]>> \in crowded'
      BY <2>1, <2>2, <2>9 DEF FormatsInv
    <2> QED
      BY <2>1, <2>6, <2>8, <2>9 DEF FormatsInv, Clear, AllOf, NoneBut, Published
  <1> QED
    BY <1>1, <1>2, <1>3, <1>4 DEF FileStep

\* The formats of a published period are generated from the same rows, unless
\* the export was cut short or two exporters were at the period.
THEOREM FormatsSayTheSame == ExportSpec => []FormatsAgree
  <1>1. PlacesOK /\ WholeInv /\ FormatsInv /\ [ExportNext]_exportVars
        => (PlacesOK /\ WholeInv /\ FormatsInv)'
    BY PlacesStep, FileSteps, WholeStep, FormatsStep
  <1>2. FormatsInv => FormatsAgree
    BY DEF FormatsInv
  <1> QED
    BY <1>1, <1>2, InitPlaces, InitWhole, InitFormats, PTL DEF ExportSpec

-----------------------------------------------------------------------------
(* Periods that are over                                                    *)

\* What exporters are at, or are to export, was over when they came to it, and
\* still is.
ClosedInv ==
  /\ \A s \in Series, p \in AllPeriods : Registered(s, p) => Complete(s[1], p, today)
  /\ \A e \in Exporters :
       /\ asof[e] <= today
       /\ xpc[e] \notin {"idle", "series"} =>
            \A p \in pending[e] : Complete(series[e][1], p, today)
       /\ AtFiles(e) => Complete(series[e][1], period[e], today)

LEMMA InitClosed == ExportInit => ClosedInv
  <1> SUFFICES ASSUME ExportInit PROVE ClosedInv
    OBVIOUS
  <1>1. 1 <= today
    BY ExportAssumption DEF ExportInit, Days
  <1> QED
    BY <1>1, FileOfPeriod DEF ExportInit, ClosedInv, Registered, AtFiles

LEMMA StaysComplete ==
  \A g \in Granularities, p \in Nat, d, e \in Days :
    d <= e /\ Complete(g, p, d) => Complete(g, p, e)
  <1> SUFFICES ASSUME NEW g \in Granularities, NEW p \in Nat, NEW d \in Days, NEW e \in Days,
                      d <= e, Complete(g, p, d)
               PROVE  Complete(g, p, e)
    OBVIOUS
  <1>1. PeriodOf(g, d) <= PeriodOf(g, e) /\ PeriodOf(g, d) \in Nat /\ PeriodOf(g, e) \in Nat
    BY PeriodsAreNumbers
  <1> QED
    BY <1>1 DEF Complete

\* Days pass: what was over stays so.
LEMMA DaysKeepClosed ==
  ASSUME PlacesOK, ClosedInv, today' \in Days, today <= today',
         UNCHANGED <<files, xpc, series, pending, asof, period>>
  PROVE  ClosedInv'
  <1>1. \A s \in Series, p \in AllPeriods :
          s[1] \in Granularities /\ p \in Nat
          /\ (Complete(s[1], p, today) => Complete(s[1], p, today'))
    <2>1. \A p \in AllPeriods : p \in Nat
      BY PeriodsAreNumbers DEF AllPeriods
    <2> QED
      BY <2>1, SeriesParts, StaysComplete DEF PlacesOK, ExportTypeOK
  <1>2. \A s \in Series, p \in AllPeriods : Registered(s, p)' => Complete(s[1], p, today')
    BY <1>1 DEF ClosedInv, Registered
  <1>3. \A e \in Exporters : asof'[e] <= today'
    BY DEF ClosedInv, PlacesOK, ExportTypeOK, Days
  <1>4. \A e \in Exporters :
          /\ xpc'[e] \notin {"idle", "series"} =>
               \A p \in pending'[e] : Complete(series'[e][1], p, today')
          /\ AtFiles(e)' => Complete(series'[e][1], period'[e], today')
    <2> SUFFICES ASSUME NEW e \in Exporters
                 PROVE  /\ xpc[e] \notin {"idle", "series"} =>
                             \A p \in pending[e] : Complete(series[e][1], p, today')
                        /\ AtFiles(e) => Complete(series[e][1], period[e], today')
      BY DEF AtFiles
    <2>1. ASSUME xpc[e] \notin {"idle", "series"}, NEW p \in pending[e]
          PROVE  Complete(series[e][1], p, today')
      <3>1. series[e] \in Series /\ p \in AllPeriods
        BY <2>1 DEF PlacesOK, ExportTypeOK, Places
      <3> QED BY <1>1, <2>1, <3>1 DEF ClosedInv
    <2>2. ASSUME AtFiles(e) PROVE Complete(series[e][1], period[e], today')
      BY <1>1, <2>2, FileOfExporter DEF ClosedInv
    <2> QED BY <2>1, <2>2
  <1> QED
    BY <1>2, <1>3, <1>4 DEF ClosedInv, AtFiles

\* A step of an exporter that registers nothing and comes to nothing new.
LEMMA QuietKeepsClosed ==
  ASSUME ClosedInv, UNCHANGED <<today, files>>,
         \A e \in Exporters :
           /\ asof'[e] <= today
           /\ xpc'[e] \notin {"idle", "series"} =>
                \/ \A p \in pending'[e] : Complete(series'[e][1], p, today)
                \/ /\ xpc[e] \notin {"idle", "series"} /\ series'[e] = series[e]
                   /\ pending'[e] \subseteq pending[e]
           /\ AtFiles(e)' =>
                \/ Complete(series'[e][1], period'[e], today)
                \/ AtFiles(e) /\ series'[e] = series[e] /\ period'[e] = period[e]
  PROVE  ClosedInv'
  BY DEF ClosedInv, Registered, AtFiles

LEMMA ClosedStep == PlacesOK /\ ClosedInv /\ [ExportNext]_exportVars => ClosedInv'
  <1> SUFFICES ASSUME PlacesOK, ClosedInv, [ExportNext]_exportVars PROVE ClosedInv'
    OBVIOUS
  <1>0. /\ xpc \in [Exporters -> {"idle", "series", "window", "available", "scope", "look", "put",
                              "insert"}]
        /\ DOMAIN series = Exporters /\ DOMAIN period = Exporters
        /\ DOMAIN pending = Exporters /\ asof \in [Exporters -> Days] /\ today \in Days
        /\ \A e \in Exporters : asof[e] <= today
    BY DEF PlacesOK, ExportTypeOK, ClosedInv
  <1>1. ASSUME NEW e \in Exporters, StartExport(e) \/ ListSites(e) \/ ExportEnds(e)
        PROVE  ClosedInv'
    <2>1. /\ UNCHANGED <<today, files, series, pending, asof, period>>
          /\ \/ xpc' = xpc \/ xpc' = [xpc EXCEPT ![e] = "series"]
             \/ xpc' = [xpc EXCEPT ![e] = "idle"]
      BY <1>1 DEF StartExport, ListSites, ExportEnds, GoExport
    <2>2. \A d \in Exporters : xpc'[d] = xpc[d] \/ xpc'[d] \in {"idle", "series"}
      BY <1>0, <2>1
    <2> QED
      BY <1>0, <2>1, <2>2, QuietKeepsClosed DEF AtFiles
  <1>2. ASSUME NEW e \in Exporters, ExportScope(e) PROVE ClosedInv'
    <2>1. PICK s \in todo_series[e] :
            /\ series' = [series EXCEPT ![e] = s]
            /\ pending' = [pending EXCEPT ![e] = Window(s)]
      BY <1>2 DEF ExportScope
    <2>2. /\ \E l \in {"scope", "window"} : xpc' = [xpc EXCEPT ![e] = l]
          /\ asof' = [asof EXCEPT ![e] = today]
          /\ UNCHANGED <<today, files, period>>
      BY <1>2 DEF ExportScope, GoExport
    <2>3. /\ series'[e] = s /\ \A p \in pending'[e] : Complete(s[1], p, today)
          /\ xpc'[e] \in {"scope", "window"} /\ asof'[e] = today
      BY <1>0, <2>1, <2>2 DEF Window
    <2>4. \A d \in Exporters \ {e} :
            /\ series'[d] = series[d] /\ pending'[d] = pending[d]
            /\ xpc'[d] = xpc[d] /\ asof'[d] = asof[d]
      BY <1>0, <2>1, <2>2
    <2>5. today <= today
      BY <1>0 DEF Days
    <2> QED
      BY <1>0, <2>2, <2>3, <2>4, <2>5, QuietKeepsClosed DEF AtFiles
  <1>3. ASSUME NEW e \in Exporters, NEW p, xpc[e] = "scope", ExportPeriod(e, p),
               Complete(series[e][1], p, today), UNCHANGED <<today, files, series, asof>>,
               pending' = pending \/ pending' = [pending EXCEPT ![e] = @ \ {p}]
        PROVE  ClosedInv'
    <2>1. /\ period'[e] = p /\ series'[e] = series[e]
          /\ \A d \in Exporters \ {e} : xpc'[d] = xpc[d] /\ period'[d] = period[d]
          /\ \A d \in Exporters : pending'[d] \subseteq pending[d]
      BY <1>0, <1>3 DEF ExportPeriod, GoExport
    <2> QED
      BY <1>0, <1>3, <2>1, QuietKeepsClosed DEF AtFiles
  <1>4. ASSUME NEW e \in Exporters, NextPeriod(e) PROVE ClosedInv'
    <2>1. PICK p \in pending[e] :
            ExportPeriod(e, p) /\ pending' = [pending EXCEPT ![e] = @ \ {p}]
      BY <1>4 DEF NextPeriod
    <2>2. /\ xpc[e] = "scope" /\ Complete(series[e][1], p, today)
          /\ UNCHANGED <<today, files, series, asof>>
      BY <1>4 DEF NextPeriod, ClosedInv
    <2> QED
      BY <1>3, <2>1, <2>2
  <1>5. ASSUME NEW e \in Exporters, CompleteNewest(e) PROVE ClosedInv'
    <2>1. /\ xpc[e] = "scope" /\ series[e] \in Series /\ series[e][1] \in Granularities
          /\ UNCHANGED <<today, files, series, pending, asof>>
      BY <1>5, SeriesParts DEF CompleteNewest, PlacesOK, Places
    <2>2. CASE MaxPeriod(series[e]) # 0 /\ Complete(series[e][1], MaxPeriod(series[e]), asof[e])
      <3>1. ExportPeriod(e, MaxPeriod(series[e]))
        BY <1>5, <2>2 DEF CompleteNewest
      <3>2. MaxPeriod(series[e]) \in Nat
        BY <2>1, <2>2, MaxPeriodIsPublished, PeriodsAreNumbers
      <3>3. Complete(series[e][1], MaxPeriod(series[e]), today)
        BY <1>0, <2>1, <2>2, <3>2, StaysComplete
      <3> QED
        BY <1>3, <2>1, <3>1, <3>3
    <2>3. CASE ~(MaxPeriod(series[e]) # 0
                 /\ Complete(series[e][1], MaxPeriod(series[e]), asof[e]))
      <3>1. UNCHANGED <<xpc, period>>
        BY <1>5, <2>3 DEF CompleteNewest
      <3> QED
        BY <1>0, <2>1, <3>1, QuietKeepsClosed DEF AtFiles
    <2> QED
      BY <2>2, <2>3
  <1>6. ASSUME NEW e \in Exporters, ScopeEnds(e) \/ ExportStops(e) PROVE ClosedInv'
    <2>1. /\ Unset(e) /\ UNCHANGED <<today, files>>
          /\ xpc' = [xpc EXCEPT ![e] = "series"] \/ xpc' = [xpc EXCEPT ![e] = "idle"]
      BY <1>6 DEF ScopeEnds, ExportStops, GoExport
    <2>2. /\ xpc'[e] \in {"idle", "series"} /\ asof'[e] = 1
          /\ \A d \in Exporters \ {e} :
               /\ xpc'[d] = xpc[d] /\ series'[d] = series[d] /\ pending'[d] = pending[d]
               /\ asof'[d] = asof[d] /\ period'[d] = period[d]
      BY <1>0, <2>1 DEF Unset
    <2>3. 1 <= today
      BY <1>0 DEF Days
    <2> QED
      BY <1>0, <2>1, <2>2, <2>3, QuietKeepsClosed DEF AtFiles
  <1>7. ASSUME NEW e \in Exporters, FileLook(e) \/ FilePut(e) PROVE ClosedInv'
    <2>1. /\ AtFiles(e) /\ xpc[e] \notin {"idle", "series"}
          /\ \E l : xpc' = [xpc EXCEPT ![e] = l]
          /\ UNCHANGED <<today, files, series, pending, asof, period>>
      BY <1>7 DEF FileLook, FilePut, Advance, GoExport, AtFiles
    <2>2. \A d \in Exporters \ {e} : xpc'[d] = xpc[d]
      BY <1>0, <2>1
    <2> QED
      BY <1>0, <2>1, <2>2, QuietKeepsClosed DEF AtFiles
  <1>8. ASSUME NEW e \in Exporters, FileInsert(e) PROVE ClosedInv'
    <2>1. /\ AtFiles(e) /\ xpc[e] \notin {"idle", "series"}
          /\ \E l : xpc' = [xpc EXCEPT ![e] = l]
          /\ files' = [files EXCEPT ![File(e)] = {content[e]}]
          /\ UNCHANGED <<today, series, pending, asof, period>>
      BY <1>8 DEF FileInsert, Advance, GoExport, AtFiles
    <2>2. \A d \in Exporters \ {e} : xpc'[d] = xpc[d]
      BY <1>0, <2>1
    <2>3. ASSUME NEW s \in Series, NEW p \in AllPeriods, Registered(s, p)'
          PROVE  Complete(s[1], p, today)
      <3>1. CASE s = series[e] /\ p = period[e]
        BY <2>1, <3>1 DEF ClosedInv
      <3>2. CASE s # series[e] \/ p # period[e]
        <4>1. PICK f \in Formats : files'[<<s, p, f>>] # {}
          BY <2>3 DEF Registered
        <4>2. <<s, p, f>> \in Files /\ <<s, p, f>> # File(e)
          BY <3>2, FileOfPeriod DEF File
        <4>3. files'[<<s, p, f>>] = files[<<s, p, f>>]
          BY <2>1, <4>2 DEF PlacesOK, ExportTypeOK
        <4> QED
          BY <4>1, <4>3 DEF ClosedInv, Registered
      <3> QED BY <3>1, <3>2
    <2>4. \A d \in Exporters :
            /\ asof'[d] <= today'
            /\ xpc'[d] \notin {"idle", "series"} =>
                 \A p \in pending'[d] : Complete(series'[d][1], p, today')
            /\ AtFiles(d)' => Complete(series'[d][1], period'[d], today')
      BY <1>0, <2>1, <2>2 DEF ClosedInv, AtFiles
    <2> QED
      BY <2>1, <2>3, <2>4 DEF ClosedInv
  <1>9. CASE Measure \/ SetStatus \/ NextDay
    <2>1. today' \in Days /\ today <= today'
      <3>1. CASE Measure \/ SetStatus
        BY <1>0, <3>1 DEF Measure, SetStatus, Days
      <3>2. CASE NextDay
        BY <1>0, <3>2, ExportAssumption DEF NextDay, Days
      <3> QED BY <1>9, <3>1, <3>2
    <2>2. UNCHANGED <<files, xpc, series, pending, asof, period>>
      BY <1>9 DEF Measure, SetStatus, NextDay, exporterVars
    <2> QED
      BY <2>1, <2>2, DaysKeepClosed
  <1>10. CASE UNCHANGED exportVars
    <2>1. today' \in Days /\ today <= today'
      BY <1>0, <1>10 DEF exportVars, Days
    <2>2. UNCHANGED <<files, xpc, series, pending, asof, period>>
      BY <1>10 DEF exportVars, exporterVars
    <2> QED
      BY <2>1, <2>2, DaysKeepClosed
  <1>11. ASSUME NEW e \in Exporters, AvailablePeriods(e) \/ SkipPublished(e) PROVE ClosedInv'
    <2>1. \A d \in Exporters :
            /\ xpc'[d] \notin {"idle", "series"} => xpc[d] \notin {"idle", "series"}
            /\ AtFiles(d)' => AtFiles(d)
            /\ pending'[d] \subseteq pending[d]
      BY <1>0, <1>11, NarrowFacts DEF AtFiles
    <2>2. UNCHANGED <<today, files, series, asof, period>>
      BY <1>11, NarrowFacts
    <2> QED
      BY <1>0, <2>1, <2>2, QuietKeepsClosed
  <1> QED
    BY <1>1, <1>2, <1>4, <1>5, <1>6, <1>7, <1>8, <1>9, <1>10, <1>11 DEF ExportNext, Export

\* A file is published only when its period is over.
OnlyClosedPeriods ==
  \A s \in Series, p \in AllPeriods :
    Registered(s, p) => \A d \in Days : PeriodOf(s[1], d) = p => d < today

LEMMA ClosedPeriods == PlacesOK /\ ClosedInv => OnlyClosedPeriods
  <1> SUFFICES ASSUME PlacesOK, ClosedInv, NEW s \in Series, NEW p \in AllPeriods,
                      Registered(s, p), NEW d \in Days, PeriodOf(s[1], d) = p
               PROVE  d < today
    BY DEF OnlyClosedPeriods
  <1>1. /\ p < PeriodOf(s[1], today) /\ today \in Days /\ s[1] \in Granularities
        /\ \A q \in Days : q \in Nat
    BY SeriesParts DEF ClosedInv, Complete, PlacesOK, ExportTypeOK, Days
  <1>2. today <= d => PeriodOf(s[1], today) <= p
    BY <1>1, PeriodsAreNumbers
  <1>3. p \in Nat /\ PeriodOf(s[1], today) \in Nat
    BY <1>1, PeriodsAreNumbers
  <1> QED
    BY <1>1, <1>2, <1>3

\* Nothing is published of a day or a month that is not over.
THEOREM PublishedIsOver == ExportSpec => []OnlyClosedPeriods
  <1>1. PlacesOK /\ ClosedInv /\ [ExportNext]_exportVars => (PlacesOK /\ ClosedInv)'
    BY PlacesStep, ClosedStep
  <1> QED
    BY <1>1, ClosedPeriods, InitPlaces, InitClosed, PTL DEF ExportSpec

-----------------------------------------------------------------------------
(* The promise of the registry                                              *)

\* The measurements of a period, whether they have arrived or not.
RowsIn(s, p) == {m \in Sites \X Days : PeriodHas(s, p, m)}

\* The rows an exporter read are still among the measurements, and there are
\* some.
ContentInv ==
  \A e \in Exporters : AtFiles(e) =>
    content[e] # {} /\ content[e] \subseteq measured \cap RowsIn(series[e], period[e])

LEMMA InitContent == ExportInit => ContentInv
  BY DEF ExportInit, ContentInv, AtFiles

LEMMA EnterContent ==
  ASSUME PlacesOK, ContentInv, NEW e \in Exporters, NEW p, ExportPeriod(e, p),
         UNCHANGED <<measured, series>>
  PROVE  ContentInv'
  <1>1. /\ period' = [period EXCEPT ![e] = p]
        /\ content' = [content EXCEPT ![e] = RowsOf(series[e], p)]
        /\ xpc' = [xpc EXCEPT ![e] = IF RowsOf(series[e], p) = {} THEN "scope" ELSE "look"]
    BY DEF ExportPeriod, GoExport
  <1>2. RowsOf(series[e], p) \subseteq measured \cap RowsIn(series[e], p)
    BY DEF RowsOf, RowsIn, PlacesOK, ExportTypeOK
  <1>3. AtFiles(e)' =>
          /\ content'[e] # {}
          /\ content'[e] \subseteq measured \cap RowsIn(series[e], period'[e])
    BY <1>1, <1>2 DEF AtFiles, PlacesOK, ExportTypeOK
  <1>4. \A d \in Exporters \ {e} :
          /\ AtFiles(d)' => AtFiles(d)
          /\ content'[d] = content[d] /\ period'[d] = period[d]
    BY <1>1 DEF AtFiles, PlacesOK, ExportTypeOK
  <1> QED
    BY <1>3, <1>4 DEF ContentInv, RowsIn

\* Away from the files of its period an exporter may be anywhere.
LEMMA QuietKeepsContent ==
  ASSUME ContentInv, measured \subseteq measured',
         \A e \in Exporters : AtFiles(e)' =>
           /\ AtFiles(e)
           /\ series'[e] = series[e] /\ period'[e] = period[e] /\ content'[e] = content[e]
  PROVE  ContentInv'
  BY DEF ContentInv, RowsIn

LEMMA ContentStep == PlacesOK /\ ContentInv /\ [ExportNext]_exportVars => ContentInv'
  <1> SUFFICES ASSUME PlacesOK, ContentInv, [ExportNext]_exportVars PROVE ContentInv'
    OBVIOUS
  <1>0. /\ xpc \in [Exporters -> {"idle", "series", "window", "available", "scope", "look", "put",
                              "insert"}]
        /\ DOMAIN series = Exporters /\ DOMAIN period = Exporters
        /\ DOMAIN content = Exporters
    BY DEF PlacesOK, ExportTypeOK
  <1>1. ASSUME NEW e \in Exporters, StartExport(e) \/ ListSites(e) \/ ExportEnds(e)
        PROVE  ContentInv'
    BY <1>0, <1>1, QuietKeepsContent DEF StartExport, ListSites, ExportEnds, GoExport, AtFiles
  <1>2. ASSUME NEW e \in Exporters, ExportScope(e) PROVE ContentInv'
    <2>1. /\ \E l \in {"scope", "window"} : xpc' = [xpc EXCEPT ![e] = l]
          /\ \A d \in Exporters \ {e} : series'[d] = series[d]
          /\ UNCHANGED <<measured, period, content>>
      BY <1>0, <1>2 DEF ExportScope, GoExport
    <2> QED
      BY <1>0, <2>1, QuietKeepsContent DEF AtFiles
  <1>3. ASSUME NEW e \in Exporters, NextPeriod(e) PROVE ContentInv'
    BY <1>3, EnterContent DEF NextPeriod
  <1>4. ASSUME NEW e \in Exporters, CompleteNewest(e) PROVE ContentInv'
    <2>1. UNCHANGED <<measured, series>>
      BY <1>4 DEF CompleteNewest
    <2>2. CASE ExportPeriod(e, MaxPeriod(series[e]))
      BY <2>1, <2>2, EnterContent
    <2>3. CASE UNCHANGED <<xpc, period, content>>
      BY <2>1, <2>3, QuietKeepsContent DEF AtFiles
    <2> QED
      BY <1>4, <2>2, <2>3 DEF CompleteNewest
  <1>5. ASSUME NEW e \in Exporters, ScopeEnds(e) \/ ExportStops(e) PROVE ContentInv'
    <2>1. /\ Unset(e) /\ UNCHANGED measured
          /\ xpc' = [xpc EXCEPT ![e] = "series"] \/ xpc' = [xpc EXCEPT ![e] = "idle"]
      BY <1>5 DEF ScopeEnds, ExportStops, GoExport
    <2>2. /\ ~AtFiles(e)'
          /\ \A d \in Exporters \ {e} :
               /\ AtFiles(d)' => AtFiles(d)
               /\ series'[d] = series[d] /\ period'[d] = period[d] /\ content'[d] = content[d]
      BY <1>0, <2>1 DEF Unset, AtFiles
    <2> QED
      BY <2>1, <2>2, QuietKeepsContent
  <1>6. ASSUME NEW e \in Exporters, FileLook(e) \/ FilePut(e) \/ FileInsert(e) PROVE ContentInv'
    <2>1. /\ AtFiles(e) /\ \E l : xpc' = [xpc EXCEPT ![e] = l]
          /\ content' = content \/ content' = [content EXCEPT ![e] = content[e]]
          /\ UNCHANGED <<measured, series, period>>
      BY <1>6 DEF FileLook, FilePut, FileInsert, Advance, GoExport, Generated, AtFiles
    <2> QED
      BY <1>0, <2>1, QuietKeepsContent DEF AtFiles
  <1>7. CASE Measure \/ SetStatus \/ NextDay
    BY <1>7, QuietKeepsContent DEF Measure, SetStatus, NextDay, exporterVars, AtFiles
  <1>8. CASE UNCHANGED exportVars
    BY <1>8, QuietKeepsContent DEF exportVars, exporterVars, AtFiles
  <1>9. ASSUME NEW e \in Exporters, AvailablePeriods(e) \/ SkipPublished(e) PROVE ContentInv'
    BY <1>0, <1>9, NarrowFacts, QuietKeepsContent DEF AtFiles
  <1> QED
    BY <1>1, <1>2, <1>3, <1>4, <1>5, <1>6, <1>7, <1>8, <1>9 DEF ExportNext, Export

\* What is over stays over, and only NextDay adds to it.
LEMMA ClosedGrows ==
  ASSUME today \in Days, today' \in Days, today <= today'
  PROVE  Closed \subseteq Closed' /\ Closed' \subseteq Files
  BY DEF Closed, Days

LEMMA RegistryInit == ExportInit => Registry!Init
  BY DEF ExportInit, Registry!Init, Closed

LEMMA RegistryStep ==
  ASSUME PlacesOK, PlacesOK', ClosedInv, ContentInv, [ExportNext]_exportVars
  PROVE  [Registry!Next]_(Registry!registryVars)
  <1> USE DEF Registry!registryVars
  <1>0. today \in Days /\ today' \in Days /\ measured' \subseteq Sites \X Days
    BY DEF PlacesOK, ExportTypeOK
  <1>1. UNCHANGED today => UNCHANGED Closed
    BY DEF Closed
  <1>2. ASSUME NEW e \in Exporters, FileInsert(e) PROVE Registry!Register(File(e))
    <2>1. /\ AtFiles(e) /\ File(e) \in Files /\ UNCHANGED <<today, measured>>
          /\ files[File(e)] = {} /\ files' = [files EXCEPT ![File(e)] = {content[e]}]
      BY <1>2, FileOfExporter DEF FileInsert, AtFiles, Published
    <2>2. series[e] \in Series /\ period[e] \in AllPeriods /\ format[e] \in Formats
      BY <2>1, FileOfExporter
    <2>3. File(e) \in Closed
      <3>1. /\ period[e] < PeriodOf(series[e][1], today) /\ series[e][1] \in Granularities
            /\ period[e] \in Nat
        BY <2>1, <2>2, SeriesParts, PeriodsAreNumbers DEF ClosedInv, Complete, AllPeriods
      <3>2. ASSUME NEW d \in Days, PeriodOf(series[e][1], d) = period[e] PROVE d < today
        <4>1. d \in Nat /\ today \in Nat /\ PeriodOf(series[e][1], today) \in Nat
          BY <1>0, <3>1, PeriodsAreNumbers DEF Days
        <4>2. today <= d => PeriodOf(series[e][1], today) <= period[e]
          BY <1>0, <3>1, <3>2, PeriodsAreNumbers
        <4> QED
          BY <3>1, <4>1, <4>2
      <3> QED
        BY <2>1, <3>2 DEF Closed, File
    <2>4. /\ content[e] # {}
          /\ content[e] \subseteq measured \cap RowsFor[File(e)]
      <3>1. RowsFor[File(e)] = RowsIn(series[e], period[e])
        BY <2>1 DEF RowsFor, RowsIn, File
      <3> QED
        BY <2>1, <3>1 DEF ContentInv
    <2>5. content[e] \in (SUBSET (measured \cap RowsFor[File(e)])) \ {{}}
      BY <2>4
    <2>6. UNCHANGED <<measured, Closed>>
      BY <1>1, <2>1
    <2> QED
      BY <2>1, <2>3, <2>5, <2>6 DEF Registry!Register
  <1>3. ASSUME NEW e \in Exporters, Export(e), ~FileInsert(e)
        PROVE  UNCHANGED <<measured, Closed, files>>
    <2>1. UNCHANGED <<today, measured, files>>
      BY <1>3 DEF Export, StartExport, ListSites, ExportEnds, ExportScope,
         AvailablePeriods, SkipPublished, Narrow, NextPeriod, CompleteNewest, ScopeEnds,
         FileLook, FilePut, ExportStops
    <2> QED
      BY <1>1, <2>1
  <1>4. CASE Measure
    BY <1>0, <1>1, <1>4 DEF Measure, Registry!Next, Registry!Measure
  <1>5. CASE SetStatus
    BY <1>1, <1>5 DEF SetStatus
  <1>6. CASE NextDay
    <2>1. today <= today'
      BY <1>0, <1>6 DEF NextDay, Days
    <2> QED
      BY <1>0, <1>6, <2>1, ClosedGrows DEF NextDay, Registry!Next, Registry!Pass
  <1>7. CASE UNCHANGED exportVars
    BY <1>1, <1>7 DEF exportVars
  <1>8. ASSUME NEW e \in Exporters, FileInsert(e) PROVE Registry!Next
    <2>1. File(e) \in Files
      BY <1>8, FileOfExporter DEF FileInsert, AtFiles
    <2> QED
      BY <1>2, <1>8, <2>1 DEF Registry!Next
  <1> QED
    BY <1>3, <1>4, <1>5, <1>6, <1>7, <1>8 DEF ExportNext

\* The export keeps the promise of the registry, however many processes run it
\* and wherever they stop: a file is registered once, after its period, from
\* measurements of that period alone.
THEOREM RegistryRefinement == ExportSpec => RegistryProtocol
  <1>1. PlacesOK /\ ClosedInv /\ ContentInv /\ [ExportNext]_exportVars
        => (PlacesOK /\ ClosedInv /\ ContentInv)'
    BY PlacesStep, ClosedStep, ContentStep
  <1>2. PlacesOK /\ PlacesOK' /\ ClosedInv /\ ContentInv /\ [ExportNext]_exportVars
        => [Registry!Next]_(Registry!registryVars)
    BY RegistryStep
  <1> QED
    BY <1>1, <1>2, InitPlaces, InitClosed, InitContent, RegistryInit, PTL
       DEF ExportSpec, RegistryProtocol, Registry!Spec

-----------------------------------------------------------------------------
(* What a run repairs                                                       *)

\* A registered file was generated from measurements, and they are kept.
FilledInv == \A k \in Files : Published(k) => RowsOf(k[1], k[2]) # {}

LEMMA InitFilled == ExportInit => FilledInv
  BY DEF ExportInit, FilledInv, Published

LEMMA FilledStep == PlacesOK /\ ContentInv /\ FilledInv /\ [ExportNext]_exportVars => FilledInv'
  <1> SUFFICES ASSUME PlacesOK, ContentInv, FilledInv, [ExportNext]_exportVars,
                      NEW k \in Files, files'[k] # {}
               PROVE  RowsOf(k[1], k[2])' # {}
    BY DEF FilledInv, Published
  <1>1. measured \subseteq measured'
    BY DEF ExportNext, Export, StartExport, ListSites, ExportEnds, ExportScope,
       AvailablePeriods, SkipPublished, Narrow, NextPeriod, CompleteNewest, ScopeEnds,
       FileLook, FilePut, FileInsert, ExportStops, Measure, SetStatus, NextDay, exportVars
  <1>2. CASE files[k] # {}
    BY <1>1, <1>2 DEF FilledInv, Published, RowsOf
  <1>3. CASE files[k] = {}
    <2>1. PICK e \in Exporters : Registers(e) /\ k = File(e)
      BY <1>3, FileSteps DEF FileStep, Elsewhere, Enters, Finds, Misses, Uploads, Registers
    <2>2. /\ content[e] # {} /\ content[e] \subseteq measured \cap RowsIn(k[1], k[2])
      BY <2>1 DEF ContentInv, Registers, AtFiles, File
    <2> QED
      BY <1>1, <2>2 DEF RowsOf, RowsIn
  <1> QED
    BY <1>2, <1>3

\* An exporter is at a series.
InScope(e) == xpc[e] \notin {"idle", "series"}

\* The series is still to be exported, or being so.
Left(e, s) == s \in todo_series[e] \/ (InScope(e) /\ series[e] = s)

\* What the exporter meets at its series was over when it came to it, so it
\* comes to complete the newest period whatever that is.
AtScope(e) ==
  /\ \A p \in AllPeriods :
       Registered(series[e], p) => Complete(series[e][1], p, asof[e])
  /\ \A p \in pending[e] : Complete(series[e][1], p, asof[e])
  /\ AtFiles(e) => Complete(series[e][1], period[e], asof[e])
  /\ xpc[e] \in {"window", "available"} => ~newest[e]
  /\ newest[e] =>
       /\ pending[e] = {}
       /\ AtFiles(e) => period[e] = MaxPeriod(series[e])
       /\ xpc[e] = "scope" => NewestWhole(series[e])

Others(e) == \A d \in Exporters \ {e} : xpc[d] = "idle"

\* A global series the run has left behind is whole, and none is left for it
\* when it is at those of the stations.
Behind(e) ==
  \A g \in Granularities :
    /\ Left(e, <<g, Everywhere>>) \/ NewestWhole(<<g, Everywhere>>)
    /\ with_sites[e] => ~Left(e, <<g, Everywhere>>)

Healing(e) == Others(e) /\ Behind(e) /\ (InScope(e) => AtScope(e))

HealInv ==
  \A e \in Exporters :
    IF xpc[e] = "idle" THEN ~with_sites[e] ELSE overlapped \/ Healing(e)

LEMMA InitHeal == ExportInit => HealInv
  <1> SUFFICES ASSUME ExportInit, NEW e \in Exporters PROVE xpc[e] = "idle" /\ ~with_sites[e]
    BY DEF HealInv
  <1> QED
    BY Zenon DEF ExportInit

LEMMA GlobalSeries == \A g \in Granularities : <<g, Everywhere>> \in Series
  BY DEF Series, Scopes

\* max_period depends on the periods that have a file, and on nothing else.
LEMMA NewestKept ==
  ASSUME NEW s \in Series,
         \A p \in AllPeriods : Registered(s, p)' <=> Registered(s, p)
  PROVE  MaxPeriod(s)' = MaxPeriod(s)
  <1> DEFINE published == {p \in Periods(s[1]) : Registered(s, p)}
             Last(S) == IF S = {} THEN 0 ELSE CHOOSE p \in S : \A q \in S : q <= p
  <1>1. \A p \in Periods(s[1]) : Registered(s, p)' <=> Registered(s, p)
    BY SeriesParts, PeriodsAreNumbers
  <1>2. published' = published
    BY <1>1
  <1>3. MaxPeriod(s) = Last(published) /\ MaxPeriod(s)' = Last(published')
    BY Zenon DEF MaxPeriod
  <1> HIDE DEF Last
  <1>4. Last(published') = Last(published)
    BY <1>2, Zenon
  <1> QED
    BY <1>3, <1>4, Zenon

\* While the files of a series stay, so does its newest period.
LEMMA NewestStays ==
  ASSUME NEW s \in Series,
         \A p \in AllPeriods, f \in Formats : files'[<<s, p, f>>] = files[<<s, p, f>>]
  PROVE  /\ MaxPeriod(s)' = MaxPeriod(s)
         /\ NewestWhole(s) => NewestWhole(s)'
  <1>1. MaxPeriod(s)' = MaxPeriod(s)
    BY NewestKept DEF Registered
  <1>2. MaxPeriod(s) # 0 => MaxPeriod(s) \in AllPeriods
    BY SeriesParts, PeriodsAreNumbers, MaxPeriodIsPublished
  <1> QED
    BY <1>1, <1>2 DEF NewestWhole, Published

\* When an exporter moves, either the others are idle or the runs overlap.
LEMMA OthersIdle ==
  ASSUME PlacesOK, HealInv, NEW e \in Exporters, Export(e)
  PROVE  /\ \A d \in Exporters \ {e} : xpc'[d] = xpc[d] /\ with_sites'[d] = with_sites[d]
         /\ ~overlapped' => Others(e) /\ Others(e)'
  <1>0. /\ xpc \in [Exporters -> {"idle", "series", "window", "available", "scope", "look", "put",
                              "insert"}]
        /\ DOMAIN with_sites = Exporters
    BY DEF PlacesOK, ExportTypeOK
  <1>1. /\ xpc' = xpc \/ \E l : xpc' = [xpc EXCEPT ![e] = l]
        /\ with_sites' = with_sites \/ \E b : with_sites' = [with_sites EXCEPT ![e] = b]
    BY Zenon DEF Export, StartExport, ListSites, ExportEnds, ExportScope, AvailablePeriods,
       SkipPublished, Narrow, NextPeriod, CompleteNewest, ExportPeriod, ScopeEnds,
       FileLook, Advance, FilePut, FileInsert, ExportStops, GoExport
  <1>2. \A d \in Exporters \ {e} : xpc'[d] = xpc[d] /\ with_sites'[d] = with_sites[d]
    BY <1>0, <1>1
  <1>3. CASE StartExport(e)
    BY <1>2, <1>3 DEF StartExport, Others
  <1>4. CASE ~StartExport(e)
    <2>1. xpc[e] # "idle" /\ (overlapped' = overlapped)
      BY <1>4 DEF Export, ListSites, ExportEnds, ExportScope, AvailablePeriods,
         SkipPublished, Narrow, NextPeriod, CompleteNewest, ScopeEnds, FileLook, FilePut,
         FileInsert, ExportStops
    <2>2. ~overlapped => Others(e)
      BY <2>1 DEF HealInv, Healing
    <2> QED
      BY <1>2, <2>1, <2>2 DEF Others
  <1> QED
    BY <1>2, <1>3, <1>4

\* It is then enough to look at the exporter that moves.
LEMMA HealNext ==
  ASSUME PlacesOK, HealInv, NEW e \in Exporters, Export(e),
         xpc'[e] = "idle" => ~with_sites'[e],
         xpc'[e] # "idle" /\ ~overlapped' => (Behind(e) /\ (InScope(e) => AtScope(e)))'
  PROVE  HealInv'
  <1> SUFFICES ASSUME NEW d \in Exporters
               PROVE  IF xpc'[d] = "idle" THEN ~with_sites'[d] ELSE overlapped' \/ Healing(d)'
    BY DEF HealInv
  <1>1. CASE d = e
    BY <1>1, OthersIdle DEF Healing
  <1>2. CASE d # e
    BY <1>2, OthersIdle DEF HealInv, Others
  <1> QED
    BY <1>1, <1>2
\* What a run that is alone, and is not idle, has.
LEMMA RunsAlone ==
  ASSUME HealInv, NEW e \in Exporters, xpc[e] # "idle", ~overlapped
  PROVE  Behind(e) /\ (InScope(e) => AtScope(e))
  BY DEF HealInv, Healing

\* A step that leaves the files as they are, and nothing more behind.
LEMMA BehindStays ==
  ASSUME NEW e \in Exporters, Behind(e), UNCHANGED files, with_sites'[e] = with_sites[e],
         \A g \in Granularities : Left(e, <<g, Everywhere>>)' <=> Left(e, <<g, Everywhere>>)
  PROVE  Behind(e)'
  BY GlobalSeries, NewestStays DEF Behind

LEMMA HealBegin ==
  ASSUME PlacesOK, NEW e \in Exporters, StartExport(e)
  PROVE  (Behind(e) /\ (InScope(e) => AtScope(e)))'
  <1>1. /\ xpc' = [xpc EXCEPT ![e] = "series"]
        /\ todo_series' = [todo_series EXCEPT ![e] = Granularities \X {Everywhere}]
        /\ with_sites' = [with_sites EXCEPT ![e] = FALSE]
    BY DEF StartExport, GoExport
  <1>2. xpc'[e] = "series" /\ todo_series'[e] = Granularities \X {Everywhere}
    BY <1>1 DEF PlacesOK, ExportTypeOK
  <1>3. ~with_sites'[e]
    BY <1>1, Zenon DEF PlacesOK, ExportTypeOK
  <1> QED
    BY <1>2, <1>3 DEF Behind, Left, InScope

LEMMA HealListSites ==
  ASSUME PlacesOK, NEW e \in Exporters, Behind(e), ListSites(e)
  PROVE  (Behind(e) /\ (InScope(e) => AtScope(e)))'
  <1>1. /\ xpc[e] = "series" /\ todo_series[e] = {} /\ UNCHANGED <<xpc, series, files>>
        /\ todo_series' = [todo_series EXCEPT ![e] = Granularities \X active]
    BY DEF ListSites
  <1>2. todo_series'[e] = Granularities \X active /\ Everywhere \notin active
    BY <1>1, ExportAssumption DEF PlacesOK, ExportTypeOK
  <1>3. \A g \in Granularities :
          /\ ~Left(e, <<g, Everywhere>>) /\ ~Left(e, <<g, Everywhere>>)'
          /\ NewestWhole(<<g, Everywhere>>)'
    BY <1>1, <1>2, GlobalSeries, NewestStays DEF Left, InScope, Behind
  <1> QED
    BY <1>1, <1>3 DEF Behind, InScope

LEMMA HealScope ==
  ASSUME PlacesOK, ClosedInv, NEW e \in Exporters, Behind(e), ExportScope(e)
  PROVE  (Behind(e) /\ (InScope(e) => AtScope(e)))'
  <1>1. PICK s \in todo_series[e] :
          /\ series' = [series EXCEPT ![e] = s]
          /\ pending' = [pending EXCEPT ![e] = Window(s)]
          /\ todo_series' = [todo_series EXCEPT ![e] = @ \ {s}]
    BY DEF ExportScope
  <1>2. /\ xpc[e] = "series"
        /\ \E l \in {"scope", "window"} : xpc' = [xpc EXCEPT ![e] = l]
        /\ newest' = [newest EXCEPT ![e] = FALSE]
        /\ asof' = [asof EXCEPT ![e] = today]
        /\ UNCHANGED <<files, with_sites>>
    BY DEF ExportScope, GoExport
  <1>3. /\ series'[e] = s /\ pending'[e] = Window(s)
        /\ todo_series'[e] = todo_series[e] \ {s}
        /\ xpc'[e] \in {"scope", "window"} /\ asof'[e] = today /\ s \in Series
    BY <1>1, <1>2 DEF PlacesOK, ExportTypeOK
  <1>4. ~newest'[e]
    BY <1>2, Zenon DEF PlacesOK, ExportTypeOK
  <1>5. \A t : Left(e, t)' <=> Left(e, t)
    BY <1>2, <1>3 DEF Left, InScope
  <1>6. Behind(e)'
    BY <1>2, <1>5, BehindStays
  <1>7. \A p \in AllPeriods : Registered(s, p)' => Complete(s[1], p, today)
    BY <1>2, <1>3 DEF ClosedInv, Registered
  <1>8. \A p \in Window(s) : Complete(s[1], p, today)
    BY DEF Window
  <1>9. AtScope(e)'
    BY <1>3, <1>4, <1>7, <1>8 DEF AtScope, AtFiles
  <1> QED
    BY <1>6, <1>9

LEMMA HealNarrow ==
  ASSUME PlacesOK, NEW e \in Exporters, Behind(e), AtScope(e),
         AvailablePeriods(e) \/ SkipPublished(e)
  PROVE  (Behind(e) /\ (InScope(e) => AtScope(e)))'
  <1>1. /\ xpc[e] \in {"window", "available"} /\ xpc'[e] \in {"available", "scope"}
        /\ pending'[e] \subseteq pending[e]
        /\ UNCHANGED <<files, todo_series, with_sites, series, newest, asof>>
    BY NarrowFacts
  <1>2. ~newest'[e]
    BY <1>1 DEF AtScope
  <1>3. \A t : Left(e, t)' <=> Left(e, t)
    BY <1>1 DEF Left, InScope
  <1>4. Behind(e)'
    BY <1>1, <1>3, BehindStays
  <1>5. AtScope(e)'
    BY <1>1, <1>2 DEF AtScope, AtFiles, Registered
  <1> QED
    BY <1>4, <1>5

LEMMA HealNextPeriod ==
  ASSUME PlacesOK, NEW e \in Exporters, Behind(e), AtScope(e), NextPeriod(e)
  PROVE  (Behind(e) /\ (InScope(e) => AtScope(e)))'
  <1>1. PICK p \in pending[e] :
          ExportPeriod(e, p) /\ pending' = [pending EXCEPT ![e] = @ \ {p}]
    BY DEF NextPeriod
  <1>2. /\ xpc[e] = "scope"
        /\ UNCHANGED <<files, todo_series, with_sites, series, newest, asof>>
    BY DEF NextPeriod
  <1>3. /\ period'[e] = p /\ xpc'[e] \in {"scope", "look"}
        /\ pending'[e] \subseteq pending[e]
    BY <1>1 DEF ExportPeriod, GoExport, PlacesOK, ExportTypeOK
  <1>4. ~newest'[e]
    BY <1>1, <1>2 DEF AtScope
  <1>5. \A t : Left(e, t)' <=> Left(e, t)
    BY <1>2, <1>3 DEF Left, InScope
  <1>6. Behind(e)'
    BY <1>2, <1>5, BehindStays
  <1>7. AtScope(e)'
    BY <1>1, <1>2, <1>3, <1>4 DEF AtScope, Registered
  <1> QED
    BY <1>6, <1>7

\* The newest period is found complete, with measurements: it is gone through
\* again, so that what is missing is added.
LEMMA HealCompleteNewest ==
  ASSUME PlacesOK, FilledInv, NEW e \in Exporters, Behind(e), AtScope(e), CompleteNewest(e)
  PROVE  (Behind(e) /\ (InScope(e) => AtScope(e)))'
  <1> DEFINE s == series[e]
             p == MaxPeriod(s)
  <1>1. /\ xpc[e] = "scope" /\ pending[e] = {} /\ s \in Series
        /\ newest' = [newest EXCEPT ![e] = TRUE]
        /\ UNCHANGED <<files, todo_series, with_sites, series, pending, asof>>
    BY DEF CompleteNewest, PlacesOK, Places
  <1>2. MaxPeriod(s)' = p
    BY <1>1, NewestStays
  <1>3. CASE p = 0
    <2>1. xpc'[e] = "scope" /\ UNCHANGED period
      BY <1>1, <1>3 DEF CompleteNewest
    <2>2. \A t : Left(e, t)' <=> Left(e, t)
      BY <1>1, <2>1 DEF Left, InScope
    <2>3. NewestWhole(series[e])'
      BY <1>1, <1>2, <1>3 DEF NewestWhole
    <2>4. AtScope(e)'
      BY <1>1, <2>1, <2>3 DEF AtScope, AtFiles, Registered
    <2> QED
      BY <1>1, <2>2, <2>4, BehindStays
  <1>4. CASE p # 0
    <2>1. p \in Periods(s[1]) /\ p \in AllPeriods /\ Registered(s, p)
      BY <1>1, <1>4, MaxPeriodIsPublished, SeriesParts, PeriodsAreNumbers
    <2>2. Complete(s[1], p, asof[e])
      BY <2>1 DEF AtScope
    <2>3. ExportPeriod(e, p)
      BY <1>4, <2>2 DEF CompleteNewest
    <2>4. RowsOf(s, p) # {}
      <3>1. PICK f \in Formats : Published(<<s, p, f>>)
        BY <2>1 DEF Registered, Published
      <3> QED
        BY <1>1, <2>1, <3>1, FileOfPeriod DEF FilledInv
    <2>5. xpc'[e] = "look" /\ period'[e] = p
      BY <2>3, <2>4 DEF ExportPeriod, GoExport, PlacesOK, ExportTypeOK
    <2>6. \A t : Left(e, t)' <=> Left(e, t)
      BY <1>1, <2>5 DEF Left, InScope
    <2>7. AtScope(e)'
      BY <1>1, <1>2, <2>2, <2>5 DEF AtScope, AtFiles, Registered
    <2> QED
      BY <1>1, <2>6, <2>7, BehindStays
  <1> QED
    BY <1>3, <1>4

LEMMA HealScopeEnds ==
  ASSUME PlacesOK, NEW e \in Exporters, Behind(e), AtScope(e), ScopeEnds(e)
  PROVE  (Behind(e) /\ (InScope(e) => AtScope(e)))'
  <1>1. /\ xpc[e] = "scope" /\ newest[e] /\ xpc'[e] = "series"
        /\ UNCHANGED <<files, todo_series, with_sites>>
    BY DEF ScopeEnds, GoExport, PlacesOK, ExportTypeOK
  <1>2. NewestWhole(series[e])
    BY <1>1 DEF AtScope
  <1>3. \A t : Left(e, t)' => Left(e, t)
    BY <1>1 DEF Left, InScope
  <1>4. \A t : Left(e, t) => Left(e, t)' \/ t = series[e]
    BY <1>1 DEF Left, InScope
  <1>5. \A g \in Granularities :
          Left(e, <<g, Everywhere>>)' \/ NewestWhole(<<g, Everywhere>>)'
    BY <1>1, <1>2, <1>4, GlobalSeries, NewestStays DEF Behind
  <1> QED
    BY <1>1, <1>3, <1>5 DEF Behind, InScope

\* Past the last format, the period is whole.
LEMMA LastFormat ==
  ASSUME PlacesOK, WholeInv, NEW e \in Exporters, AtFiles(e), FileStep,
         format[e] = MaxFormat, PublishedNext(File(e))
  PROVE  \A f \in Formats : PublishedNext(<<series[e], period[e], f>>)
  <1> SUFFICES ASSUME NEW f \in Formats PROVE PublishedNext(<<series[e], period[e], f>>)
    OBVIOUS
  <1>1. <<series[e], period[e], f>> \in Files
    BY FileOfExporter, FileOfPeriod
  <1>2. f < format[e] \/ f = format[e]
    BY ExportAssumption DEF Formats
  <1> QED
    BY <1>1, <1>2, FilesStay DEF WholeInv, File

\* A step at the files of the newest period keeps it the newest; at its end it
\* is whole.
LEMMA HealAtFiles ==
  ASSUME PlacesOK, PlacesOK', WholeInv, FileStep, NEW e \in Exporters, Behind(e),
         AtFiles(e), AtScope(e),
         UNCHANGED <<series, todo_series, with_sites, pending, newest, asof, period>>,
         xpc'[e] \in {"scope", "look", "put", "insert"},
         xpc'[e] = "scope" => format[e] = MaxFormat /\ PublishedNext(File(e)),
         \A k \in Files : k # File(e) => files'[k] = files[k]
  PROVE  (Behind(e) /\ AtScope(e))'
  <1> DEFINE s == series[e]
  <1>1. s \in Series /\ period[e] \in AllPeriods /\ format[e] \in Formats /\ File(e) \in Files
    BY FileOfExporter
  <1>2. \A t \in Series : t # s =>
          \A p \in AllPeriods, f \in Formats : files'[<<t, p, f>>] = files[<<t, p, f>>]
    BY FileOfPeriod DEF File
  <1>3. \A t \in Series : t # s => (NewestWhole(t) => NewestWhole(t)')
    <2> SUFFICES ASSUME NEW t \in Series, t # s PROVE NewestWhole(t) => NewestWhole(t)'
      OBVIOUS
    <2>1. \A p \in AllPeriods, f \in Formats : files'[<<t, p, f>>] = files[<<t, p, f>>]
      BY <1>2
    <2> QED
      BY <2>1, NewestStays
  <1>4. \A t : Left(e, t)' <=> Left(e, t)
    BY DEF Left, InScope, AtFiles
  <1>5. Left(e, s)
    BY DEF Left, InScope, AtFiles
  <1>6. Behind(e)'
    BY <1>3, <1>4, <1>5, GlobalSeries DEF Behind
  <1>7. \A p \in AllPeriods : p # period[e] => (Registered(s, p)' <=> Registered(s, p))
    BY <1>1, FileOfPeriod DEF Registered, File
  <1>8. \A p \in AllPeriods : Registered(s, p)' => Complete(s[1], p, asof[e])
    BY <1>7 DEF AtScope
  <1>9. ASSUME newest[e]
        PROVE  /\ period[e] = MaxPeriod(s)'
               /\ xpc'[e] = "scope" => NewestWhole(s)'
    <2>1. period[e] = MaxPeriod(s)
      BY <1>9 DEF AtScope
    <2>2. Registered(s, period[e])
      <3>1. period[e] # 0
        BY <1>1, SeriesParts, PeriodsAreNumbers DEF AllPeriods
      <3> QED
        BY <1>1, <2>1, <3>1, MaxPeriodIsPublished
    <2>3. Registered(s, period[e])'
      BY <1>1, <2>2, FilesStay, FileOfPeriod DEF Registered, Published, PublishedNext
    <2>4. MaxPeriod(s)' = MaxPeriod(s)
      BY <1>1, <1>7, <2>2, <2>3, NewestKept
    <2>5. xpc'[e] = "scope" => \A f \in Formats : PublishedNext(<<s, period[e], f>>)
      BY LastFormat
    <2> QED
      BY <2>1, <2>4, <2>5 DEF NewestWhole, Published, PublishedNext
  <1>10. AtScope(e)'
    BY <1>8, <1>9 DEF AtScope, AtFiles
  <1> QED
    BY <1>6, <1>10

LEMMA HealFiles ==
  ASSUME PlacesOK, PlacesOK', WholeInv, NEW e \in Exporters, Behind(e), AtScope(e),
         [ExportNext]_exportVars, FileLook(e) \/ FilePut(e) \/ FileInsert(e)
  PROVE  (Behind(e) /\ (InScope(e) => AtScope(e)))'
  <1>1. /\ AtFiles(e) /\ FileStep /\ File(e) \in Files
        /\ UNCHANGED <<series, todo_series, with_sites, pending, newest, asof, period>>
    BY FileSteps, FileOfExporter DEF FileLook, FilePut, FileInsert, AtFiles
  <1>2. CASE FileLook(e)
    <2>1. /\ UNCHANGED files
          /\ \/ Found(e) /\ xpc' = [xpc EXCEPT ![e] = IF format[e] = MaxFormat THEN "scope"
                                                                              ELSE "look"]
             \/ xpc' = [xpc EXCEPT ![e] = "put"]
      BY <1>2 DEF FileLook, Advance, GoExport
    <2>2. /\ xpc'[e] \in {"scope", "look", "put", "insert"}
          /\ xpc'[e] = "scope" => format[e] = MaxFormat /\ PublishedNext(File(e))
      BY <2>1 DEF Found, Published, PublishedNext, PlacesOK, ExportTypeOK
    <2> QED
      BY <1>1, <2>1, <2>2, HealAtFiles
  <1>3. CASE FilePut(e)
    <2>1. UNCHANGED files /\ xpc'[e] = "insert"
      BY <1>3 DEF FilePut, GoExport, PlacesOK, ExportTypeOK
    <2> QED
      BY <1>1, <2>1, HealAtFiles
  <1>4. CASE FileInsert(e)
    <2>1. /\ files' = [files EXCEPT ![File(e)] = {content[e]}]
          /\ xpc' = [xpc EXCEPT ![e] = IF format[e] = MaxFormat THEN "scope" ELSE "look"]
      BY <1>4 DEF FileInsert, Advance, GoExport
    <2>2. /\ PublishedNext(File(e))
          /\ \A k \in Files : k # File(e) => files'[k] = files[k]
          /\ xpc'[e] \in {"scope", "look", "put", "insert"}
          /\ xpc'[e] = "scope" => format[e] = MaxFormat
      BY <1>1, <2>1 DEF PublishedNext, PlacesOK, ExportTypeOK
    <2> QED
      BY <1>1, <2>2, HealAtFiles
  <1> QED
    BY <1>2, <1>3, <1>4

LEMMA HealStep ==
  PlacesOK /\ PlacesOK' /\ WholeInv /\ ClosedInv /\ FilledInv /\ HealInv
  /\ [ExportNext]_exportVars => HealInv'
  <1> SUFFICES ASSUME PlacesOK, PlacesOK', WholeInv, ClosedInv, FilledInv, HealInv,
                      [ExportNext]_exportVars
               PROVE  HealInv'
    OBVIOUS
  <1>1. ASSUME NEW e \in Exporters, Export(e) PROVE HealInv'
    <2>1. xpc'[e] = "idle" => ~with_sites'[e]
      <3>1. CASE ExportEnds(e) \/ ExportStops(e)
        BY <3>1, Zenon DEF ExportEnds, ExportStops, PlacesOK, ExportTypeOK
      <3>2. CASE StartExport(e) \/ ListSites(e) \/ ExportScope(e) \/ ScopeEnds(e)
        BY <3>2 DEF StartExport, ListSites, ExportScope, ScopeEnds, GoExport, PlacesOK,
           ExportTypeOK
      <3>3. CASE NextPeriod(e) \/ CompleteNewest(e)
        BY <3>3 DEF NextPeriod, CompleteNewest, ExportPeriod, GoExport, PlacesOK, ExportTypeOK
      <3>4. CASE FileLook(e) \/ FilePut(e) \/ FileInsert(e)
        BY <3>4 DEF FileLook, FilePut, FileInsert, Advance, GoExport, PlacesOK, ExportTypeOK
      <3>5. CASE AvailablePeriods(e) \/ SkipPublished(e)
        BY <3>5, NarrowFacts
      <3> QED
        BY <1>1, <3>1, <3>2, <3>3, <3>4, <3>5 DEF Export
    <2>2. ASSUME xpc'[e] # "idle", ~overlapped'
          PROVE  (Behind(e) /\ (InScope(e) => AtScope(e)))'
      <3>1. CASE StartExport(e)
        BY <3>1, HealBegin
      <3>2. ASSUME ~StartExport(e)
            PROVE  Behind(e) /\ (InScope(e) => AtScope(e))
        <4>1. xpc[e] # "idle" /\ (overlapped' = overlapped)
          BY <1>1, <3>2 DEF Export, ListSites, ExportEnds, ExportScope, AvailablePeriods,
             SkipPublished, Narrow, NextPeriod, CompleteNewest, ScopeEnds, FileLook,
             FilePut, FileInsert, ExportStops
        <4> QED
          BY <2>2, <4>1, RunsAlone
      <3>3. CASE ListSites(e)
        BY <3>2, <3>3, <3>1, HealListSites
      <3>4. CASE ExportScope(e)
        BY <3>2, <3>4, <3>1, HealScope
      <3>5. xpc[e] \in {"window", "available", "scope", "look", "put", "insert"} => InScope(e)
        BY DEF InScope
      <3>6. CASE NextPeriod(e)
        BY <3>1, <3>2, <3>5, <3>6, HealNextPeriod DEF NextPeriod
      <3>7. CASE CompleteNewest(e)
        BY <3>1, <3>2, <3>5, <3>7, HealCompleteNewest DEF CompleteNewest
      <3>8. CASE ScopeEnds(e)
        BY <3>1, <3>2, <3>5, <3>8, HealScopeEnds DEF ScopeEnds
      <3>9. CASE FileLook(e) \/ FilePut(e) \/ FileInsert(e)
        BY <3>1, <3>2, <3>5, <3>9, HealFiles DEF FileLook, FilePut, FileInsert
      <3>10. ~ExportEnds(e) /\ ~ExportStops(e)
        BY <2>2 DEF ExportEnds, ExportStops, GoExport, PlacesOK, ExportTypeOK
      <3>11. CASE AvailablePeriods(e) \/ SkipPublished(e)
        BY <3>1, <3>2, <3>5, <3>11, NarrowFacts, HealNarrow
      <3> QED
        BY <1>1, <3>1, <3>3, <3>4, <3>6, <3>7, <3>8, <3>9, <3>10, <3>11 DEF Export
    <2> QED
      BY <1>1, <2>1, <2>2, HealNext
  <1>2. CASE Measure \/ SetStatus \/ NextDay \/ UNCHANGED exportVars
    <2>1. UNCHANGED <<files, xpc, todo_series, with_sites, series, pending, newest, asof,
                      period, overlapped>>
      BY <1>2 DEF Measure, SetStatus, NextDay, exportVars, exporterVars
    <2>2. \A s \in Series :
            MaxPeriod(s)' = MaxPeriod(s) /\ (NewestWhole(s) => NewestWhole(s)')
      BY <2>1, NewestStays
    <2>3. ASSUME NEW e \in Exporters, Healing(e) PROVE Healing(e)'
      <3>1. Others(e)' /\ Behind(e)'
        BY <2>1, <2>2, <2>3, GlobalSeries DEF Healing, Others, Behind, Left, InScope
      <3>2. ASSUME InScope(e)' PROVE AtScope(e)'
        <4>1. series[e] \in Series /\ AtScope(e)
          BY <2>1, <2>3, <3>2 DEF InScope, Healing, PlacesOK, Places
        <4> QED
          BY <2>1, <2>2, <4>1 DEF AtScope, AtFiles, Registered
      <3> QED
        BY <3>1, <3>2 DEF Healing
    <2> QED
      BY <2>1, <2>3 DEF HealInv
  <1> QED
    BY <1>1, <1>2 DEF ExportNext

\* A run that is alone repairs the newest period of every series of all
\* stations, in whatever state earlier runs left it.
THEOREM NewestIsHealed == ExportSpec => []RunHealsNewest
  <1> DEFINE Inv == PlacesOK /\ WholeInv /\ ClosedInv /\ ContentInv /\ FilledInv /\ HealInv
  <1>1. ExportInit => Inv
    BY InitPlaces, InitWhole, InitClosed, InitContent, InitFilled, InitHeal
  <1>2. Inv /\ [ExportNext]_exportVars => Inv'
    BY PlacesStep, FileSteps, WholeStep, ClosedStep, ContentStep, FilledStep, HealStep
  <1>3. Inv => RunHealsNewest
    BY DEF HealInv, Healing, Behind, RunHealsNewest
  <1> QED
    BY <1>1, <1>2, <1>3, PTL DEF ExportSpec

\* Without runs cut short and runs beside one another a run that comes to its
\* end leaves no period of the files of all stations partially published.
THEOREM UndisturbedRuns ==
  ExportSpec /\ [](cut = {} /\ ~overlapped) => RunCompletesPeriods
  <1> DEFINE Inv == PlacesOK /\ WholeInv /\ ClosedInv /\ ContentInv /\ FilledInv /\ HealInv
             Ends == \A e \in Exporters, g \in Granularities, p \in AllPeriods :
                       /\ xpc[e] = "series" /\ xpc'[e] = "idle" /\ with_sites[e] /\ todo_series[e] = {}
                       /\ Registered(<<g, Everywhere>>, p)
                       => \A f \in Formats : Published(<<<<g, Everywhere>>, p, f>>)
  <1>1. ExportInit => Inv
    BY InitPlaces, InitWhole, InitClosed, InitContent, InitFilled, InitHeal
  <1>2. Inv /\ [ExportNext]_exportVars => Inv'
    BY PlacesStep, FileSteps, WholeStep, ClosedStep, ContentStep, FilledStep, HealStep
  <1>3. Inv /\ cut = {} /\ ~overlapped => Ends
    <2> SUFFICES ASSUME WholeInv, HealInv, cut = {}, ~overlapped,
                        NEW e \in Exporters, NEW g \in Granularities, NEW p \in AllPeriods,
                        xpc[e] = "series", Registered(<<g, Everywhere>>, p)
                 PROVE  \A f \in Formats : Published(<<<<g, Everywhere>>, p, f>>)
      OBVIOUS
    <2>1. \A d \in Exporters : xpc[d] \in {"idle", "series"}
      BY DEF HealInv, Healing, Others
    <2> QED
      BY <2>1, GlobalSeries DEF WholeInv, WholePeriods
  <1>4. Inv /\ cut = {} /\ ~overlapped => [Ends]_exportVars
    BY <1>3
  <1> QED
    BY <1>1, <1>2, <1>4, PTL DEF ExportSpec, RunCompletesPeriods
=============================================================================
