--------------------------- MODULE OpenDataExport ---------------------------
(***************************************************************************)
(* The OpenData export: for every series (a granularity, and all stations  *)
(* or one) the job appends the files of the periods after the newest       *)
(* registered one, one file per format, then completes the newest period.  *)
(* The bytes go to the bucket, their hash to the registry opendata_files,  *)
(* without a transaction around the two.  Imports go on meanwhile, also of *)
(* measurements of days long past.  The job lock is not assumed: after a   *)
(* force-cancellation, or when a lease ran out, two processes export.      *)
(*                                                                         *)
(* A measurement is its station and its day; the content of a file, and    *)
(* its hash, is the set of measurements it was generated from; a place     *)
(* that may hold one is {} or {content}.                                   *)
(***************************************************************************)
EXTENDS Naturals

CONSTANTS
  Exporters,
  Granularities,    \* "daily", "monthly"
  Sites,            \* the counting stations
  Everywhere,       \* the scope of the files of all stations
  MaxDay,           \* bound: days are 1 .. MaxDay
  Month,            \* the month of a day
  MaxFormat         \* Format::ALL, numbered in its order

Days == 1 .. MaxDay

ASSUME ExportAssumption ==
  /\ "daily" \in Granularities /\ Granularities \subseteq {"daily", "monthly"}
  /\ Everywhere \notin Sites
  /\ {MaxDay, MaxFormat} \subseteq Nat \ {0}
  /\ Month \in [Days -> Nat \ {0}]
  /\ \A d, e \in Days : d <= e => Month[d] <= Month[e]

Formats == 1 .. MaxFormat
Scopes == Sites \cup {Everywhere}
Series == Granularities \X Scopes

PeriodOf(granularity, day) == IF granularity = "daily" THEN day ELSE Month[day]
Periods(granularity) == {PeriodOf(granularity, d) : d \in Days}
AllPeriods == UNION {Periods(g) : g \in Granularities}
Files == Series \X AllPeriods \X Formats

NoSeries == <<"none", Everywhere>>

VARIABLES
  today,
  measured,     \* the measurements table
  active,       \* the stations whose status is active
  files,        \* opendata_files: the sha256 of each file
  bucket,       \* the bytes of each object
  xpc,          \* where each exporter is
  todo_series,  \*   the series its run has still to export
  with_sites,   \*   whether they include those of the stations
  series,       \*   the series it is at
  pending,      \*   the candidate periods
  newest,       \*   whether it completes the newest period
  asof,         \*   the day it came to the series
  period,       \*   the period it is at
  content,      \*   the rows it read for it
  format,       \*   the format it is at
  cut,          \* history: periods whose export did not come to its end
  shared,       \* history: files two exporters uploaded at the same time
  crowded,      \* history: periods two exporters were at at the same time
  overlapped    \* history: whether the latest run began beside another

exporterVars == <<xpc, todo_series, with_sites, series, pending, newest, asof,
                  period, content, format>>
exportVars == <<today, measured, active, files, bucket, exporterVars, cut, shared, crowded,
                overlapped>>

-----------------------------------------------------------------------------

PeriodHas(s, p, m) ==
  PeriodOf(s[1], m[2]) = p /\ (s[2] = Everywhere \/ s[2] = m[1])

RowsOf(s, p) == {m \in measured : PeriodHas(s, p, m)}

\* Mutation: the current period counts as complete.
CompleteToday(granularity, p, day) == p <= PeriodOf(granularity, day)

\* Periods up to latest_complete: the day before, or the month before.
Complete(granularity, p, day) == p < PeriodOf(granularity, day)

Registered(s, p) == \E f \in Formats : files[<<s, p, f>>] # {}

\* max_period: 0 when the series has no file.
MaxPeriod(s) ==
  LET published == {p \in Periods(s[1]) : Registered(s, p)}
  IN  IF published = {} THEN 0
      ELSE CHOOSE p \in published : \A q \in published : q <= p

File(e) == <<series[e], period[e], format[e]>>

\* Between the look into the registry and the insert.
Publishing(e, k) == xpc[e] \in {"put", "insert"} /\ File(e) = k

ExportInit ==
  /\ today \in Days
  /\ measured = {}
  /\ active \in SUBSET Sites
  /\ files = [k \in Files |-> {}]
  /\ bucket = [k \in Files |-> {}]
  /\ xpc = [e \in Exporters |-> "idle"]
  /\ todo_series = [e \in Exporters |-> {}]
  /\ with_sites = [e \in Exporters |-> FALSE]
  /\ series = [e \in Exporters |-> NoSeries]
  /\ pending = [e \in Exporters |-> {}]
  /\ newest = [e \in Exporters |-> FALSE]
  /\ asof = [e \in Exporters |-> 1]
  /\ period = [e \in Exporters |-> 0]
  /\ content = [e \in Exporters |-> {}]
  /\ format = [e \in Exporters |-> 1]
  /\ cut = {} /\ shared = {} /\ crowded = {} /\ overlapped = FALSE

\* An exporter is at the files of a period.
At(e, s, p) == xpc[e] \in {"look", "put", "insert"} /\ series[e] = s /\ period[e] = p

GoExport(e, label) == xpc' = [xpc EXCEPT ![e] = label]

-----------------------------------------------------------------------------
(* run_export                                                               *)

StartExport(e) ==
  /\ xpc[e] = "idle"
  /\ GoExport(e, "series")
  /\ overlapped' = \E d \in Exporters \ {e} : xpc[d] # "idle"
  /\ todo_series' = [todo_series EXCEPT ![e] = Granularities \X {Everywhere}]
  /\ with_sites' = [with_sites EXCEPT ![e] = FALSE]
  /\ UNCHANGED <<today, measured, active, files, bucket, series, pending,
                 newest, asof, period, content, format, cut, shared, crowded>>

\* The global files are done: the stations that are active now.
ListSites(e) ==
  /\ xpc[e] = "series" /\ todo_series[e] = {} /\ ~with_sites[e]
  /\ todo_series' = [todo_series EXCEPT ![e] = Granularities \X active]
  /\ with_sites' = [with_sites EXCEPT ![e] = TRUE]
  /\ UNCHANGED <<today, measured, active, files, bucket, xpc, series, pending,
                 newest, asof, period, content, format, cut, shared, crowded, overlapped>>

\* scope_window: the complete periods after the newest registered one.
Window(s) == {p \in Periods(s[1]) : Complete(s[1], p, today) /\ MaxPeriod(s) < p}

\* A scope's daily files, then its monthly ones, then another scope.
InTurn(e, s) ==
  \A t \in todo_series[e] :
    IF t[2] = s[2] THEN s[1] = "daily" \/ t = s
                   ELSE t[1] = "monthly" => <<"daily", t[2]>> \in todo_series[e]

\* A scope whose window is empty has no candidates.
ExportScope(e) ==
  /\ xpc[e] = "series"
  /\ \E s \in todo_series[e] :
       /\ InTurn(e, s)
       /\ series' = [series EXCEPT ![e] = s]
       /\ pending' = [pending EXCEPT ![e] = Window(s)]
       /\ todo_series' = [todo_series EXCEPT ![e] = @ \ {s}]
       /\ GoExport(e, IF Window(s) = {} THEN "scope" ELSE "window")
  /\ newest' = [newest EXCEPT ![e] = FALSE]
  /\ asof' = [asof EXCEPT ![e] = today]
  /\ UNCHANGED <<today, measured, active, files, bucket, with_sites, period,
                 content, format, cut, shared, crowded, overlapped>>

\* The candidates are narrowed down before the first one is exported.
Narrow(e, label, next_label, candidates) ==
  /\ xpc[e] = label
  /\ pending' = [pending EXCEPT ![e] = candidates]
  /\ GoExport(e, next_label)
  /\ UNCHANGED <<today, measured, active, files, bucket, todo_series, with_sites,
                 series, newest, asof, period, content, format, cut, shared, crowded,
                 overlapped>>

\* available_periods: those with measurements.
AvailablePeriods(e) ==
  Narrow(e, "window", "available", {p \in pending[e] : RowsOf(series[e], p) # {}})

\* max_period, read once more: those another exporter has not reached by now.
SkipPublished(e) ==
  Narrow(e, "available", "scope", {p \in pending[e] : MaxPeriod(series[e]) < p})

\* The period's rows are read once; without any the period is skipped.
ExportPeriod(e, p) ==
  /\ period' = [period EXCEPT ![e] = p]
  /\ content' = [content EXCEPT ![e] = RowsOf(series[e], p)]
  /\ format' = [format EXCEPT ![e] = 1]
  /\ GoExport(e, IF RowsOf(series[e], p) = {} THEN "scope" ELSE "look")
  /\ crowded' = IF \E d \in Exporters \ {e} : At(d, series[e], p)
                THEN crowded \cup {<<series[e], p>>} ELSE crowded

NextPeriod(e) ==
  /\ xpc[e] = "scope"
  /\ \E p \in pending[e] :
       /\ \A q \in pending[e] : p <= q
       /\ ExportPeriod(e, p)
       /\ pending' = [pending EXCEPT ![e] = @ \ {p}]
  /\ UNCHANGED <<today, measured, active, files, bucket, todo_series,
                 with_sites, series, newest, asof, cut, shared, overlapped>>

\* Mutation: the newest period is taken for complete.
CompleteNewestNever(e) ==
  /\ xpc[e] = "scope" /\ pending[e] = {} /\ ~newest[e]
  /\ newest' = [newest EXCEPT ![e] = TRUE]
  /\ UNCHANGED <<today, measured, active, files, bucket, xpc, todo_series,
                 with_sites, series, pending, asof, period, content, format,
                 cut, shared, crowded, overlapped>>

\* complete_newest_period, for a newest period that is over.
CompleteNewest(e) ==
  /\ xpc[e] = "scope" /\ pending[e] = {} /\ ~newest[e]
  /\ newest' = [newest EXCEPT ![e] = TRUE]
  /\ LET p == MaxPeriod(series[e])
     IN  IF p # 0 /\ Complete(series[e][1], p, asof[e])
         THEN ExportPeriod(e, p)
         ELSE UNCHANGED <<xpc, period, content, format, crowded>>
  /\ UNCHANGED <<today, measured, active, files, bucket, todo_series,
                 with_sites, series, pending, asof, cut, shared, overlapped>>

Unset(e) ==
  /\ series' = [series EXCEPT ![e] = NoSeries]
  /\ pending' = [pending EXCEPT ![e] = {}]
  /\ newest' = [newest EXCEPT ![e] = FALSE]
  /\ asof' = [asof EXCEPT ![e] = 1]
  /\ period' = [period EXCEPT ![e] = 0]
  /\ content' = [content EXCEPT ![e] = {}]
  /\ format' = [format EXCEPT ![e] = 1]

ScopeEnds(e) ==
  /\ xpc[e] = "scope" /\ pending[e] = {} /\ newest[e]
  /\ GoExport(e, "series")
  /\ Unset(e)
  /\ UNCHANGED <<today, measured, active, files, bucket, todo_series,
                 with_sites, cut, shared, crowded, overlapped>>

-----------------------------------------------------------------------------
(* export_period                                                            *)

Published(k) == files[k] # {}

\* Mutation: the export of a period goes one format too far.
AdvanceLate(e) ==
  /\ format' = [format EXCEPT ![e] = IF @ > MaxFormat THEN 1 ELSE @ + 1]
  /\ GoExport(e, IF format[e] > MaxFormat THEN "scope" ELSE "look")

\* Mutation: the export of a period ends one format early.
AdvanceEarly(e) ==
  /\ format' = [format EXCEPT ![e] = IF @ + 1 >= MaxFormat THEN 1 ELSE @ + 1]
  /\ GoExport(e, IF format[e] + 1 >= MaxFormat THEN "scope" ELSE "look")

Advance(e) ==
  /\ format' = [format EXCEPT ![e] = IF @ = MaxFormat THEN 1 ELSE @ + 1]
  /\ GoExport(e, IF format[e] = MaxFormat THEN "scope" ELSE "look")

\* Mutation: a file is uploaded whether it is registered or not.
FoundNever(e) == FALSE

\* find_by_object_key: a registered file is left alone.
Found(e) == Published(File(e))

FileLook(e) ==
  /\ xpc[e] = "look"
  /\ IF Found(e)
     THEN Advance(e) /\ UNCHANGED shared
     ELSE /\ GoExport(e, "put")
          /\ shared' = IF \E d \in Exporters \ {e} : Publishing(d, File(e))
                       THEN shared \cup {File(e)} ELSE shared
          /\ UNCHANGED format
  /\ UNCHANGED <<today, measured, active, files, bucket, todo_series,
                 with_sites, series, pending, newest, asof, period, content,
                 cut, crowded, overlapped>>

\* Mutation: each format is generated from rows of its own.
GeneratedAnew(e) == RowsOf(series[e], period[e])

Generated(e) == content[e]

FilePut(e) ==
  /\ xpc[e] = "put"
  /\ bucket' = [bucket EXCEPT ![File(e)] = {Generated(e)}]
  /\ content' = [content EXCEPT ![e] = Generated(e)]
  /\ GoExport(e, "insert")
  /\ UNCHANGED <<today, measured, active, files, todo_series, with_sites,
                 series, pending, newest, asof, period, format, cut,
                 shared, crowded, overlapped>>

\* The object key is unique.
FileInsert(e) ==
  /\ xpc[e] = "insert"
  /\ ~Published(File(e))
  /\ files' = [files EXCEPT ![File(e)] = {content[e]}]
  /\ Advance(e)
  /\ UNCHANGED <<today, measured, active, bucket, todo_series, with_sites,
                 series, pending, newest, asof, period, content,
                 cut, shared, crowded, overlapped>>

ExportEnds(e) ==
  /\ xpc[e] = "series" /\ todo_series[e] = {} /\ with_sites[e]
  /\ GoExport(e, "idle")
  /\ with_sites' = [with_sites EXCEPT ![e] = FALSE]
  /\ UNCHANGED <<today, measured, active, files, bucket, todo_series, series,
                 pending, newest, asof, period, content, format, cut, shared, crowded, overlapped>>

\* Cancelled, failed, crashed, or met by an insert of the same key.
ExportStops(e) ==
  /\ xpc[e] # "idle"
  /\ GoExport(e, "idle")
  /\ cut' = IF xpc[e] \in {"look", "put", "insert"}
            THEN cut \cup {<<series[e], period[e]>>} ELSE cut
  /\ todo_series' = [todo_series EXCEPT ![e] = {}]
  /\ with_sites' = [with_sites EXCEPT ![e] = FALSE]
  /\ Unset(e)
  /\ UNCHANGED <<today, measured, active, files, bucket, shared, crowded, overlapped>>

-----------------------------------------------------------------------------
(* The rest of the system: measurements arrive, stations come and go        *)

Measure ==
  /\ \E st \in Sites, d \in 1 .. today :
       <<st, d>> \notin measured /\ measured' = measured \cup {<<st, d>>}
  /\ UNCHANGED <<today, active, files, bucket, exporterVars, cut, shared, crowded, overlapped>>

SetStatus ==
  /\ \E st \in Sites :
       active' = IF st \in active THEN active \ {st} ELSE active \cup {st}
  /\ UNCHANGED <<today, measured, files, bucket, exporterVars, cut, shared, crowded, overlapped>>

NextDay ==
  /\ today < MaxDay
  /\ today' = today + 1
  /\ UNCHANGED <<measured, active, files, bucket, exporterVars, cut, shared, crowded, overlapped>>

Export(e) ==
  \/ StartExport(e) \/ ListSites(e) \/ ExportEnds(e)
  \/ ExportScope(e) \/ AvailablePeriods(e) \/ SkipPublished(e)
  \/ NextPeriod(e) \/ CompleteNewest(e) \/ ScopeEnds(e)
  \/ FileLook(e) \/ FilePut(e) \/ FileInsert(e)
  \/ ExportStops(e)

ExportNext ==
  \/ \E e \in Exporters : Export(e)
  \/ Measure \/ SetStatus \/ NextDay

ExportSpec == ExportInit /\ [][ExportNext]_exportVars

-----------------------------------------------------------------------------

Contents == SUBSET SUBSET (Sites \X Days)

ExportTypeOK ==
  /\ today \in Days
  /\ measured \subseteq Sites \X Days
  /\ active \subseteq Sites
  /\ files \in [Files -> Contents]
  /\ bucket \in [Files -> Contents]
  /\ xpc \in [Exporters -> {"idle", "series", "window", "available", "scope", "look", "put",
                           "insert"}]
  /\ todo_series \in [Exporters -> SUBSET Series]
  /\ with_sites \in [Exporters -> BOOLEAN]
  /\ series \in [Exporters -> Series \cup {NoSeries}]
  /\ pending \in [Exporters -> SUBSET AllPeriods]
  /\ newest \in [Exporters -> BOOLEAN]
  /\ asof \in [Exporters -> Days]
  /\ period \in [Exporters -> AllPeriods \cup {0}]
  /\ content \in [Exporters -> SUBSET (Sites \X Days)]
  /\ format \in [Exporters -> Formats]
  /\ cut \subseteq Series \X AllPeriods
  /\ shared \subseteq Files
  /\ crowded \subseteq Series \X AllPeriods
  /\ overlapped \in BOOLEAN

\* A published file is served as it was registered (its sha256 is the ETag):
\* no later run, crash or retry touches its bytes, unless two exporters looked
\* for the file, found it missing and uploaded it at the same time.
ServedAsRegistered ==
  \A k \in Files : Published(k) => bucket[k] = files[k] \/ k \in shared

\* The formats of a published period say the same, though measurements arrive
\* while it is exported, unless its export was cut short and taken up again or
\* two exporters were at it at the same time.
FormatsAgree ==
  \A s \in Series, p \in AllPeriods : \A f, g \in Formats :
    /\ Published(<<s, p, f>>) /\ Published(<<s, p, g>>)
    /\ <<s, p>> \notin cut \cup crowded
    => files[<<s, p, f>>] = files[<<s, p, g>>]

RowsFor == [k \in Files |-> {m \in Sites \X Days : PeriodHas(k[1], k[2], m)}]

\* The files whose period is over.
Closed == {k \in Files : \A d \in Days : PeriodOf(k[1][1], d) = k[2] => d < today}

Registry == INSTANCE FileRegistry
  WITH Rows <- Sites \X Days, rows <- measured, closed <- Closed, registry <- files

\* The registry is append-only, so a file registered early would stay
\* incomplete: the exporters, together with the days that pass and the
\* measurements that arrive, keep the promise of FileRegistry.
RegistryProtocol == Registry!Spec

\* A period has all its formats or none, unless its export is under way or was
\* cut short.
WholePeriods ==
  \A s \in Series, p \in AllPeriods :
    Registered(s, p) /\ <<s, p>> \notin cut =>
      \/ \A f \in Formats : Published(<<s, p, f>>)
      \/ \E e \in Exporters :
           series[e] = s /\ period[e] = p /\ xpc[e] \in {"look", "put", "insert"}

\* The newest period of the series, if it has one, has all its formats.
NewestWhole(s) ==
  MaxPeriod(s) # 0 => \A f \in Formats : Published(<<s, MaxPeriod(s), f>>)

\* Whatever earlier runs left behind, those that were cut short and those that
\* ran beside one another included: a run that is alone has completed the newest
\* period of every series of all stations when it comes to the single stations.
RunHealsNewest ==
  \A e \in Exporters, g \in Granularities :
    ~overlapped /\ with_sites[e] => NewestWhole(<<g, Everywhere>>)

\* The promise of export_scope: a run that comes to its end leaves no period
\* of the files of all stations partially published.
RunCompletesPeriods ==
  [][\A e \in Exporters, g \in Granularities, p \in AllPeriods :
       /\ xpc[e] = "series" /\ xpc'[e] = "idle" /\ with_sites[e] /\ todo_series[e] = {}
       /\ Registered(<<g, Everywhere>>, p)
       => \A f \in Formats : Published(<<<<g, Everywhere>>, p, f>>)]_exportVars
=============================================================================
