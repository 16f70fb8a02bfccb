---------------------------- MODULE TileArchive ----------------------------
(***************************************************************************)
(* The basemap tiles/map.pmtiles.  The tiles_update job extracts three     *)
(* zoom bands from the newest (or the pinned) Protomaps build, merges them *)
(* into map.pmtiles.tmp and renames that over the archive nginx serves;    *)
(* the command `bike_counter tiles` does the same straight into the        *)
(* archive when there is none.  All builders share one directory: the      *)
(* bands, the temporary archive and the cached CLI.  The job lock is not   *)
(* assumed, and the command takes none.                                    *)
(*                                                                         *)
(* A file is the set of the upstream builds its tiles are from, {} when    *)
(* there is no file, and whether it is whole.                              *)
(***************************************************************************)
EXTENDS Naturals

CONSTANTS
  Updaters,         \* processes running the tiles_update job
  Commands,         \* runs of `bike_counter tiles`
  Pin,              \* maps.protomaps_build_url: 0 for "latest"
  MaxBuild,         \* bound: upstream builds are 1 .. MaxBuild
  MaxTileFaults     \* bound: failed builds and crashes

EXTRACT_ATTEMPTS == 3
Bands == 1 .. 3     \* world, surroundings, germany
Builders == Updaters \cup Commands

ASSUME TileAssumption ==
  /\ Updaters \cap Commands = {}
  /\ MaxBuild \in Nat \ {0} /\ Pin \in 0 .. MaxBuild /\ MaxTileFaults \in Nat

TileFile == [of : SUBSET (1 .. MaxBuild), whole : BOOLEAN]
NoTiles == [of |-> {}, whole |-> FALSE]
Exists(file) == file.of # {}

VARIABLES
  oldest, upstream, \* upstream keeps the builds oldest .. upstream
  cli,              \* the cached pmtiles binary
  bands,            \* the intermediate extracts
  tmp, archive,     \* map.pmtiles.tmp, map.pmtiles
  bpc, band, attempt, source,   \* of each builder
  tile_faults,
  met,              \* history: two builders have been at work at the same time
  in_place          \* history: the last to write to the archive was a command,
                    \* which is still at it or was stopped

upstreamVars == <<oldest, upstream>>
tileVars == <<upstreamVars, cli, bands, tmp, archive, bpc, band, attempt,
              source, tile_faults, met, in_place>>

TileInit ==
  /\ oldest = 1 /\ upstream = 1
  /\ cli = "absent"
  /\ bands = [i \in Bands |-> NoTiles]
  /\ tmp = NoTiles /\ archive = NoTiles
  /\ bpc = [b \in Builders |-> "idle"]
  /\ band = [b \in Builders |-> 1]
  /\ attempt = [b \in Builders |-> 1]
  /\ source = [b \in Builders |-> 0]
  /\ tile_faults = 0
  /\ met = FALSE /\ in_place = FALSE

GoBuild(b, label) == bpc' = [bpc EXCEPT ![b] = label]

Rest(b) ==
  /\ GoBuild(b, "idle")
  /\ band' = [band EXCEPT ![b] = 1]
  /\ attempt' = [attempt EXCEPT ![b] = 1]
  /\ source' = [source EXCEPT ![b] = 0]

NoBands == [i \in Bands |-> NoTiles]

-----------------------------------------------------------------------------

\* The job is due, or the archive is missing.
StartUpdate(b) ==
  /\ b \in Updaters

\* ensure_available
StartCommand(b) ==
  /\ b \in Commands
  /\ ~Exists(archive)

StartBuild(b) ==
  /\ bpc[b] = "idle"
  /\ StartUpdate(b) \/ StartCommand(b)
  /\ GoBuild(b, "cli")
  /\ met' = (met \/ \E c \in Builders : bpc[c] # "idle")
  /\ UNCHANGED <<upstreamVars, cli, bands, tmp, archive, band, attempt, source,
                 tile_faults, in_place>>

\* ensure_cli: a binary that is there is taken as it is; unpacking creates it
\* and fills it.
EnsureCli(b) ==
  /\ bpc[b] = "cli"
  /\ IF cli = "absent"
     THEN cli' = "partial" /\ GoBuild(b, "unpack")
     ELSE GoBuild(b, "source") /\ UNCHANGED cli
  /\ UNCHANGED <<upstreamVars, bands, tmp, archive, band, attempt, source,
                 tile_faults, met, in_place>>

Unpack(b) ==
  /\ bpc[b] = "unpack"
  /\ cli' = "whole"
  /\ GoBuild(b, "source")
  /\ UNCHANGED <<upstreamVars, bands, tmp, archive, band, attempt, source,
                 tile_faults, met, in_place>>

\* resolve_source_from: the pin while it is available, or the newest build.
Resolved == IF Pin \in oldest .. upstream THEN Pin ELSE upstream

ResolveSource(b) ==
  /\ bpc[b] = "source"
  /\ source' = [source EXCEPT ![b] = Resolved]
  /\ band' = [band EXCEPT ![b] = 1]
  /\ attempt' = [attempt EXCEPT ![b] = 1]
  /\ bands' = NoBands
  /\ GoBuild(b, "extract")
  /\ UNCHANGED <<upstreamVars, cli, tmp, archive, tile_faults, met, in_place>>

\* Mutation: the source is resolved for each extract.
SourceAnew(b) == Resolved

SourceOf(b) == source[b]

\* `pmtiles extract` creates its file and fills it.
ExtractStarts(b) ==
  /\ bpc[b] = "extract" /\ cli = "whole"
  /\ bands' = [bands EXCEPT ![band[b]] = [of |-> {SourceOf(b)}, whole |-> FALSE]]
  /\ GoBuild(b, "extracting")
  /\ UNCHANGED <<upstreamVars, cli, tmp, archive, band, attempt, source,
                 tile_faults, met, in_place>>

\* A file removed meanwhile stays removed.
ExtractEnds(b) ==
  /\ bpc[b] = "extracting"
  /\ bands' = IF Exists(bands[band[b]])
              THEN [bands EXCEPT ![band[b]].whole = TRUE] ELSE bands
  /\ IF band[b] = 3
     THEN GoBuild(b, "merge") /\ UNCHANGED <<band, attempt>>
     ELSE /\ band' = [band EXCEPT ![b] = @ + 1]
          /\ attempt' = [attempt EXCEPT ![b] = 1]
          /\ GoBuild(b, "extract")
  /\ UNCHANGED <<upstreamVars, cli, tmp, archive, source, tile_faults, met, in_place>>

\* Mutation: attempts that are not counted.
NextAttemptSame(n) == n

\* An extract is started EXTRACT_ATTEMPTS times.
Again(b) == attempt[b] < EXTRACT_ATTEMPTS
NextAttempt(n) == n + 1

ExtractAgain(b) ==
  /\ bpc[b] = "extracting" /\ Again(b)
  /\ attempt' = [attempt EXCEPT ![b] = NextAttempt(@)]
  /\ GoBuild(b, "extract")
  /\ UNCHANGED <<upstreamVars, cli, bands, tmp, archive, band, source,
                 tile_faults, met, in_place>>

\* Mutation: the job merges into the archive itself.
WritesTmpNever(b) == FALSE

\* The target of build_to.
WritesTmp(b) == b \in Updaters

Write(b, file) ==
  IF WritesTmp(b)
  THEN tmp' = file /\ UNCHANGED archive
  ELSE archive' = file /\ UNCHANGED tmp

Merged(complete) ==
  [of |-> UNION {bands[i].of : i \in Bands},
   whole |-> complete /\ \A i \in Bands : bands[i].whole]

\* `pmtiles merge` creates its file and fills it.
MergeStarts(b) ==
  /\ bpc[b] = "merge"
  /\ \A i \in Bands : Exists(bands[i])
  /\ Write(b, Merged(FALSE))
  /\ in_place' = (in_place \/ b \in Commands)
  /\ GoBuild(b, "merging")
  /\ UNCHANGED <<upstreamVars, cli, bands, band, attempt, source, tile_faults, met>>

MergeEnds(b) ==
  /\ bpc[b] = "merging"
  /\ \A i \in Bands : Exists(bands[i])
  /\ Write(b, Merged(TRUE))
  /\ bands' = NoBands
  /\ IF b \in Updaters
     THEN GoBuild(b, "swap") /\ UNCHANGED <<band, attempt, source>>
     ELSE Rest(b)
  /\ in_place' = (in_place /\ b \notin Commands)
  /\ UNCHANGED <<upstreamVars, cli, tile_faults, met>>

\* fs::rename
Swap(b) ==
  /\ bpc[b] = "swap" /\ Exists(tmp)
  /\ archive' = tmp /\ tmp' = NoTiles
  /\ Rest(b)
  /\ in_place' = FALSE
  /\ UNCHANGED <<upstreamVars, cli, bands, tile_faults, met>>

-----------------------------------------------------------------------------
(* Failure                                                                  *)

\* What update removes; the command removes nothing.
AfterFailure(b) ==
  /\ IF b \in Updaters
     THEN tmp' = NoTiles /\ bands' = NoBands
     ELSE UNCHANGED <<tmp, bands>>
  /\ UNCHANGED archive

\* The binary does not run, or a band is gone.
Broken(b) ==
  \/ bpc[b] = "extract" /\ cli # "whole"
  \/ bpc[b] \in {"merge", "merging"} /\ \E i \in Bands : ~Exists(bands[i])

GiveUp(b) ==
  /\ AfterFailure(b)
  /\ Rest(b)
  /\ UNCHANGED <<upstreamVars, cli, met, in_place>>

BuildBreaks(b) ==
  /\ Broken(b) /\ GiveUp(b)
  /\ UNCHANGED tile_faults

\* The third attempt of an extract, the download, the catalog or the merge
\* failed.
BuildFails(b) ==
  /\ tile_faults < MaxTileFaults
  /\ \/ bpc[b] \in {"cli", "unpack", "source", "merging"}
     \/ bpc[b] = "extracting" /\ ~Again(b)
  /\ tile_faults' = tile_faults + 1
  /\ GiveUp(b)

\* Nothing to rename: update returns without its clean-up.
SwapFails(b) ==
  /\ bpc[b] = "swap" /\ ~Exists(tmp)
  /\ Rest(b)
  /\ UNCHANGED <<upstreamVars, cli, bands, tmp, archive, tile_faults, met, in_place>>

BuilderDies(b) ==
  /\ tile_faults < MaxTileFaults /\ bpc[b] # "idle"
  /\ tile_faults' = tile_faults + 1
  /\ Rest(b)
  /\ UNCHANGED <<upstreamVars, cli, bands, tmp, archive, met, in_place>>

\* Protomaps publishes a build a day and keeps about a month of them.
Upstream ==
  /\ \/ upstream < MaxBuild /\ upstream' = upstream + 1 /\ UNCHANGED oldest
     \/ oldest < upstream /\ oldest' = oldest + 1 /\ UNCHANGED upstream
  /\ UNCHANGED <<cli, bands, tmp, archive, bpc, band, attempt, source,
                 tile_faults, met, in_place>>

Build(b) ==
  \/ StartBuild(b) \/ EnsureCli(b) \/ Unpack(b) \/ ResolveSource(b)
  \/ ExtractStarts(b) \/ ExtractEnds(b) \/ ExtractAgain(b)
  \/ MergeStarts(b) \/ MergeEnds(b) \/ Swap(b)
  \/ BuildBreaks(b) \/ SwapFails(b)

TileNext ==
  \/ \E b \in Builders : Build(b) \/ BuildFails(b) \/ BuilderDies(b)
  \/ Upstream

TileSpec == TileInit /\ [][TileNext]_tileVars
TileFairSpec == TileSpec /\ \A b \in Updaters : WF_tileVars(Build(b))

-----------------------------------------------------------------------------

TileTypeOK ==
  /\ oldest \in 1 .. upstream /\ upstream \in 1 .. MaxBuild
  /\ cli \in {"absent", "partial", "whole"}
  /\ bands \in [Bands -> TileFile]
  /\ tmp \in TileFile /\ archive \in TileFile
  /\ bpc \in [Builders -> {"idle", "cli", "unpack", "source", "extract",
                           "extracting", "merge", "merging", "swap"}]
  /\ band \in [Builders -> Bands]
  /\ attempt \in [Builders -> 1 .. EXTRACT_ATTEMPTS]
  /\ source \in [Builders -> 0 .. MaxBuild]
  /\ tile_faults \in 0 .. MaxTileFaults
  /\ met \in BOOLEAN /\ in_place \in BOOLEAN

\* nginx never serves half an archive: whatever failed or died on the way, the
\* archive is whole, unless a command has yet to finish it in place, or was stopped
\* before it did and no build has come to its end since, or two builders met.
ServedWhole == Exists(archive) => archive.whole \/ in_place \/ met

\* The tiles of an archive are from one upstream build, also when upstream
\* published another one, pruned the pin or a crash left bands behind.
OneSource ==
  ~met => \A v, w \in archive.of : v = w

\* A missing basemap is built by the job, after failures and crashes too,
\* unless a crash left half a binary in the cache or two builders met.
BasemapComes ==
  ~Exists(archive) ~> (Exists(archive) \/ cli = "partial" \/ met)
=============================================================================
