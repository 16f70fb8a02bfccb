------------------------------ MODULE MCFiles ------------------------------
\* The files the jobs publish: the OpenData export and the basemap.  They share
\* nothing, so each is explored with the other at rest, and of each the actors
\* that can disturb one another.
EXTENDS OpenDataExport, TileArchive, TLC

CONSTANTS e1, e2, a1, a2, u, v, c

VARIABLE part

fileVars == <<part, exportVars, tileVars>>

MCMonth == 1 :> 1 @@ 2 :> 1 @@ 3 :> 2

-----------------------------------------------------------------------------
\* One exporter while days pass, the month ends and measurements arrive; one
\* while stations come and go; two at once, while measurements of the day before
\* arrive.

MeasureAt(sites, last) == Measure /\ measured' \subseteq sites \X (1 .. last)

Alone == part = "alone" /\ (Export(e1) \/ NextDay \/ MeasureAt({a1}, today))

Stations ==
  /\ part = "stations"
  /\ Export(e1) \/ MeasureAt(Sites, today - 1) \/ SetStatus

Two ==
  /\ part = "two"
  /\ (\E e \in Exporters : Export(e)) \/ MeasureAt(Sites, today - 1)

ExportPart == (Alone \/ Stations \/ Two) /\ UNCHANGED <<part, tileVars>>

-----------------------------------------------------------------------------
\* The job alone, with failures, crashes and upstream builds that come and go;
\* the job and the command; two processes that both run the job.

Job ==
  /\ part = "job"
  /\ Build(u) \/ BuildFails(u) \/ BuilderDies(u) \/ Upstream

JobAndCommand ==
  /\ part = "job and command"
  /\ \E b \in {u, c} : Build(b) \/ BuildFails(b) \/ BuilderDies(b)

TwoJobs == part = "two jobs" /\ \E b \in {u, v} : Build(b)

TilePart == (Job \/ JobAndCommand \/ TwoJobs) /\ UNCHANGED <<part, exportVars>>

Update == Build(u) /\ UNCHANGED <<part, exportVars>>

-----------------------------------------------------------------------------

TileParts == {"job", "job and command", "two jobs"}

Init ==
  /\ ExportInit /\ TileInit
  /\ active = {}
  /\ part \in {"alone", "stations", "two"} \cup TileParts
  /\ today = 2

Next == ExportPart \/ TilePart

\* The scheduler runs the job again and again, and at once when there is no
\* basemap.
Spec == Init /\ [][Next]_fileVars /\ WF_fileVars(Update /\ part \in TileParts)

\* The job gets a missing basemap built in the end, whatever failed or died
\* before.
BasemapBuilt == part \in TileParts => BasemapComes
=============================================================================
