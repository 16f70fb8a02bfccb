------------------------- MODULE TileArchiveProofs -------------------------
(***************************************************************************)
(* Theorems about TileArchive, for every number of jobs, commands and      *)
(* upstream builds, every pin and every number of faults.                  *)
(***************************************************************************)
EXTENDS TileArchive, TLAPS

-----------------------------------------------------------------------------
(* Types                                                                    *)

\* A builder that extracts has resolved its source.
Sourced ==
  \A b \in Builders :
    bpc[b] \in {"extract", "extracting", "merge", "merging"} => source[b] \in 1 .. MaxBuild

TileOK == TileTypeOK /\ Sourced

LEMMA NoTilesOK ==
  NoTiles \in TileFile /\ NoBands \in [Bands -> TileFile]
  BY DEF NoTiles, TileFile, NoBands

LEMMA InitTileOK == TileInit => TileOK
  <1> SUFFICES ASSUME TileInit PROVE TileOK
    OBVIOUS
  <1>1. oldest \in 1 .. upstream /\ upstream \in 1 .. MaxBuild /\ tile_faults \in 0 .. MaxTileFaults
    BY TileAssumption DEF TileInit
  <1>2. bands \in [Bands -> TileFile] /\ tmp \in TileFile /\ archive \in TileFile
    BY NoTilesOK DEF TileInit, NoBands
  <1>3. /\ band \in [Builders -> Bands] /\ attempt \in [Builders -> 1 .. EXTRACT_ATTEMPTS]
        /\ source \in [Builders -> 0 .. MaxBuild]
    BY TileAssumption DEF TileInit, Bands, EXTRACT_ATTEMPTS
  <1> QED
    BY <1>1, <1>2, <1>3 DEF TileInit, TileOK, TileTypeOK, Sourced

LEMMA RestTypes ==
  ASSUME TileOK, NEW b \in Builders, Rest(b)
  PROVE  /\ bpc' \in [Builders -> {"idle", "cli", "unpack", "source", "extract",
                                   "extracting", "merge", "merging", "swap"}]
         /\ band' \in [Builders -> Bands]
         /\ attempt' \in [Builders -> 1 .. EXTRACT_ATTEMPTS]
         /\ source' \in [Builders -> 0 .. MaxBuild]
         /\ bpc'[b] = "idle"
         /\ \A c \in Builders \ {b} : bpc'[c] = bpc[c] /\ source'[c] = source[c]
  BY TileAssumption DEF TileOK, TileTypeOK, Rest, GoBuild, Bands, EXTRACT_ATTEMPTS

LEMMA ResolvedOK == TileTypeOK => Resolved \in 1 .. MaxBuild
  BY TileAssumption DEF TileTypeOK, Resolved

LEMMA MergedOK ==
  ASSUME TileTypeOK, NEW complete \in BOOLEAN
  PROVE  Merged(complete) \in TileFile
  BY DEF TileTypeOK, TileFile, Merged

LEMMA BuildTypes ==
  ASSUME TileOK, NEW b \in Builders, Build(b)
  PROVE  TileOK'
  <1> USE DEF TileOK, GoBuild, upstreamVars
  <1>1. CASE StartBuild(b)
    <2>1. met' \in BOOLEAN
      BY <1>1 DEF StartBuild, TileTypeOK
    <2> QED
      BY <1>1, <2>1 DEF StartBuild, TileTypeOK, Sourced
  <1>2. CASE EnsureCli(b)
    BY <1>2 DEF EnsureCli, TileTypeOK, Sourced
  <1>3. CASE Unpack(b)
    BY <1>3 DEF Unpack, TileTypeOK, Sourced
  <1>4. CASE ResolveSource(b)
    <2>1. Resolved \in 1 .. MaxBuild /\ 1 \in Bands /\ 1 \in 1 .. EXTRACT_ATTEMPTS
      BY ResolvedOK DEF Bands, EXTRACT_ATTEMPTS
    <2>2. Resolved \in 0 .. MaxBuild
      BY <2>1, TileAssumption
    <2> QED
      BY <1>4, <2>1, <2>2, NoTilesOK DEF ResolveSource, TileTypeOK, Sourced
  <1>5. CASE ExtractStarts(b)
    <2>1. bpc[b] = "extract" /\ source[b] \in 1 .. MaxBuild /\ band[b] \in Bands
      BY <1>5 DEF ExtractStarts, TileTypeOK, Sourced
    <2>2. [of |-> {source[b]}, whole |-> FALSE] \in TileFile
      BY <2>1 DEF TileFile
    <2> QED
      BY <1>5, <2>1, <2>2 DEF ExtractStarts, SourceOf, TileTypeOK, Sourced
  <1>6. CASE ExtractEnds(b)
    <2>1. bpc[b] = "extracting" /\ source[b] \in 1 .. MaxBuild /\ band[b] \in Bands
      BY <1>6 DEF ExtractEnds, TileTypeOK, Sourced
    <2>2. bands' \in [Bands -> TileFile]
      BY <1>6, <2>1 DEF ExtractEnds, TileTypeOK, TileFile
    <2>3. /\ band' \in [Builders -> Bands]
          /\ attempt' \in [Builders -> 1 .. EXTRACT_ATTEMPTS]
      BY <1>6, <2>1 DEF ExtractEnds, TileTypeOK, Bands, EXTRACT_ATTEMPTS
    <2>4. bpc' = [bpc EXCEPT ![b] = "merge"] \/ bpc' = [bpc EXCEPT ![b] = "extract"]
      BY <1>6 DEF ExtractEnds
    <2>5. UNCHANGED <<upstreamVars, cli, tmp, archive, source, tile_faults, met, in_place>>
      BY <1>6 DEF ExtractEnds
    <2> QED
      BY <2>1, <2>2, <2>3, <2>4, <2>5 DEF TileTypeOK, Sourced
  <1>7. CASE ExtractAgain(b)
    <2>1. attempt' \in [Builders -> 1 .. EXTRACT_ATTEMPTS]
      BY <1>7 DEF ExtractAgain, Again, NextAttempt, TileTypeOK, EXTRACT_ATTEMPTS
    <2> QED
      BY <1>7, <2>1 DEF ExtractAgain, TileTypeOK, Sourced
  <1>8. CASE MergeStarts(b)
    <2>1. tmp' \in TileFile /\ archive' \in TileFile
      BY <1>8, MergedOK DEF MergeStarts, Write, TileTypeOK
    <2>2. in_place' \in BOOLEAN
      BY <1>8 DEF MergeStarts, TileTypeOK
    <2> QED
      BY <1>8, <2>1, <2>2 DEF MergeStarts, TileTypeOK, Sourced
  <1>9. CASE MergeEnds(b)
    <2>1. tmp' \in TileFile /\ archive' \in TileFile
      BY <1>9, MergedOK DEF MergeEnds, Write, TileTypeOK
    <2>2. bands' \in [Bands -> TileFile]
      BY <1>9, NoTilesOK DEF MergeEnds
    <2>3. in_place' \in BOOLEAN /\ UNCHANGED <<upstreamVars, cli, tile_faults, met>>
      BY <1>9 DEF MergeEnds
    <2>4. CASE b \in Updaters
      BY <1>9, <2>1, <2>2, <2>3, <2>4 DEF MergeEnds, TileTypeOK, Sourced
    <2>5. CASE b \notin Updaters
      <3>1. Rest(b)
        BY <1>9, <2>5 DEF MergeEnds
      <3> QED
        BY <2>1, <2>2, <2>3, <3>1, RestTypes DEF TileTypeOK, Sourced
    <2> QED
      BY <2>4, <2>5
  <1>10. CASE Swap(b)
    <2>1. /\ Rest(b) /\ archive' = tmp /\ tmp' = NoTiles
          /\ ~in_place' /\ in_place' \in BOOLEAN
          /\ UNCHANGED <<upstreamVars, cli, bands, tile_faults, met>>
      BY <1>10 DEF Swap
    <2> QED
      BY <2>1, RestTypes, NoTilesOK DEF TileTypeOK, Sourced
  <1>11. CASE BuildBreaks(b)
    <2>1. /\ Rest(b) /\ tmp' \in {tmp, NoTiles} /\ bands' \in {bands, NoBands}
          /\ UNCHANGED <<upstreamVars, cli, archive, tile_faults, met, in_place>>
      BY <1>11 DEF BuildBreaks, GiveUp, AfterFailure
    <2> QED
      BY <2>1, RestTypes, NoTilesOK DEF TileTypeOK, Sourced
  <1>12. CASE SwapFails(b)
    <2>1. /\ Rest(b)
          /\ UNCHANGED <<upstreamVars, cli, bands, tmp, archive, tile_faults, met, in_place>>
      BY <1>12 DEF SwapFails
    <2> QED
      BY <2>1, RestTypes DEF TileTypeOK, Sourced
  <1> QED
    BY <1>1, <1>2, <1>3, <1>4, <1>5, <1>6, <1>7, <1>8, <1>9, <1>10, <1>11, <1>12 DEF Build

LEMMA TileOKStep == TileOK /\ [TileNext]_tileVars => TileOK'
  <1> SUFFICES ASSUME TileOK, [TileNext]_tileVars PROVE TileOK'
    OBVIOUS
  <1>1. ASSUME NEW b \in Builders, BuildFails(b) \/ BuilderDies(b) PROVE TileOK'
    <2>1. /\ Rest(b) /\ tmp' \in {tmp, NoTiles} /\ bands' \in {bands, NoBands}
          /\ UNCHANGED <<upstreamVars, cli, archive, met, in_place>>
          /\ tile_faults < MaxTileFaults /\ tile_faults' = tile_faults + 1
      BY <1>1 DEF BuildFails, BuilderDies, GiveUp, AfterFailure
    <2>2. tile_faults' \in 0 .. MaxTileFaults
      BY <2>1, TileAssumption DEF TileOK, TileTypeOK
    <2> QED
      BY <2>1, <2>2, RestTypes, NoTilesOK DEF TileOK, TileTypeOK, Sourced, upstreamVars
  <1>2. CASE Upstream
    <2>1. oldest' \in 1 .. upstream' /\ upstream' \in 1 .. MaxBuild
      BY <1>2, TileAssumption DEF Upstream, TileOK, TileTypeOK
    <2> QED
      BY <1>2, <2>1 DEF Upstream, TileOK, TileTypeOK, Sourced
  <1>3. CASE UNCHANGED tileVars
    BY <1>3 DEF tileVars, upstreamVars, TileOK, TileTypeOK, Sourced
  <1> QED
    BY <1>1, <1>2, <1>3, BuildTypes DEF TileNext

\* Files, builders and attempts keep their types: no extract is started more
\* than EXTRACT_ATTEMPTS times.
THEOREM TileTypes == TileSpec => []TileTypeOK
  <1>1. TileOK => TileTypeOK
    BY DEF TileOK
  <1> QED
    BY <1>1, InitTileOK, TileOKStep, PTL DEF TileSpec

-----------------------------------------------------------------------------
(* What is served                                                           *)

AtWork(b) == bpc[b] # "idle"

From(file, s) == file.of \subseteq {s}

\* While two builders have not met there is one at work at a time, the bands
\* before the one it is at are whole, and all bands are from its source.
Alone ==
  \A b, c \in Builders : AtWork(b) /\ AtWork(c) => b = c

BandsOf(b) ==
  /\ bpc[b] \in {"extract", "extracting", "merge", "merging"} =>
       \A i \in Bands : From(bands[i], source[b])
  /\ bpc[b] \in {"extract", "extracting"} =>
       \A i \in Bands : i < band[b] => bands[i].whole
  /\ bpc[b] = "extracting" => Exists(bands[band[b]])
  /\ bpc[b] \in {"merge", "merging"} => \A i \in Bands : bands[i].whole

OneBuild(file) == \A v, w \in file.of : v = w

SoloInv ==
  ~met => /\ Alone
          /\ \A b \in Builders : BandsOf(b)
          /\ \A b \in Builders : bpc[b] = "swap" => tmp.whole /\ OneBuild(tmp)
          /\ OneBuild(archive)

ServedInv == SoloInv /\ ServedWhole

LEMMA InitServed == TileInit => ServedInv
  BY DEF TileInit, ServedInv, SoloInv, Alone, AtWork, BandsOf, OneBuild, ServedWhole, Exists,
     NoTiles

LEMMA NoTilesServed ==
  /\ NoTiles.of = {} /\ ~Exists(NoTiles)
  /\ \A i \in Bands : NoBands[i].of = {}
  BY DEF NoTiles, NoBands, Exists

\* What a merge of whole bands of one source makes.
LEMMA MergedFile ==
  ASSUME NEW complete \in BOOLEAN, NEW s, \A i \in Bands : From(bands[i], s)
  PROVE  /\ OneBuild(Merged(complete))
         /\ complete /\ (\A i \in Bands : bands[i].whole) => Merged(complete).whole
  <1>1. Merged(complete).of = UNION {bands[i].of : i \in Bands}
    BY DEF Merged
  <1>2. \A v \in Merged(complete).of : v = s
    BY <1>1 DEF From
  <1>3. complete /\ (\A i \in Bands : bands[i].whole) => Merged(complete).whole
    BY DEF Merged
  <1> QED
    BY <1>2, <1>3 DEF OneBuild

\* Only the builder at work matters to the invariant.
LEMMA OneAtWork ==
  ASSUME ServedInv, NEW b \in Builders, ~met',
         ~met /\ \A c \in Builders \ {b} : bpc[c] = "idle" /\ bpc'[c] = "idle",
         BandsOf(b)',
         bpc'[b] = "swap" => tmp'.whole /\ OneBuild(tmp'),
         OneBuild(archive'),
         Exists(archive') => archive'.whole \/ in_place'
  PROVE  ServedInv'
  <1>1. \A c \in Builders \ {b} : BandsOf(c)'
    BY DEF BandsOf
  <1>2. Alone'
    BY DEF Alone, AtWork
  <1> QED
    BY <1>1, <1>2 DEF ServedInv, SoloInv, ServedWhole, OneBuild

\* A builder comes to rest; the archive is what it was or whole.
LEMMA AtRest ==
  ASSUME ServedInv, NEW b \in Builders, ~met',
         ~met /\ \A c \in Builders \ {b} : bpc[c] = "idle" /\ bpc'[c] = "idle",
         bpc'[b] = "idle",
         \/ archive' = archive /\ (in_place' <=> in_place)
         \/ archive'.whole /\ OneBuild(archive')
  PROVE  ServedInv'
  <1>1. BandsOf(b)'
    BY DEF BandsOf
  <1>2. OneBuild(archive') /\ (Exists(archive') => archive'.whole \/ in_place')
    BY DEF ServedInv, SoloInv, ServedWhole
  <1> QED
    BY <1>1, <1>2, OneAtWork

LEMMA BuildServed ==
  ASSUME TileOK, ServedInv, NEW b \in Builders, Build(b), ~met'
  PROVE  ServedInv'
  <1>0. /\ bpc \in [Builders -> {"idle", "cli", "unpack", "source", "extract",
                                 "extracting", "merge", "merging", "swap"}]
        /\ source \in [Builders -> 0 .. MaxBuild] /\ band \in [Builders -> Bands]
        /\ bands \in [Bands -> TileFile]
    BY DEF TileOK, TileTypeOK
  <1>m. ~met
    BY DEF Build, StartBuild, EnsureCli, Unpack, ResolveSource, ExtractStarts, ExtractEnds,
           ExtractAgain, MergeStarts, MergeEnds, Swap, BuildBreaks, GiveUp, SwapFails
  <1>s. /\ BandsOf(b) /\ Alone /\ OneBuild(archive)
        /\ bpc[b] = "swap" => tmp.whole /\ OneBuild(tmp)
        /\ Exists(archive) => archive.whole \/ in_place
    BY <1>m DEF ServedInv, SoloInv, ServedWhole
  <1>a. ASSUME bpc[b] # "idle" PROVE \A c \in Builders \ {b} : bpc[c] = "idle"
    BY <1>s, <1>a DEF Alone, AtWork
  <1> USE DEF GoBuild
  <1>1. CASE StartBuild(b)
    <2>1. /\ \A c \in Builders : bpc[c] = "idle"
          /\ bpc' = [bpc EXCEPT ![b] = "cli"]
          /\ UNCHANGED <<tmp, archive, in_place>>
      BY <1>1, <1>m DEF StartBuild
    <2>2. bpc'[b] = "cli" /\ \A c \in Builders \ {b} : bpc'[c] = "idle"
      BY <1>0, <2>1
    <2>3. BandsOf(b)'
      BY <2>2 DEF BandsOf
    <2> QED
      BY <1>m, <1>s, <2>1, <2>2, <2>3, OneAtWork
  <1>2. CASE EnsureCli(b) \/ Unpack(b)
    <2>1. /\ bpc[b] # "idle"
          /\ \E l \in {"unpack", "source"} : bpc' = [bpc EXCEPT ![b] = l]
          /\ UNCHANGED <<tmp, archive, in_place>>
      BY <1>2 DEF EnsureCli, Unpack
    <2>2. bpc'[b] \in {"unpack", "source"} /\ \A c \in Builders \ {b} : bpc'[c] = "idle"
      BY <1>0, <1>a, <2>1
    <2>3. BandsOf(b)'
      BY <2>2 DEF BandsOf
    <2> QED
      BY <1>m, <1>s, <1>a, <2>1, <2>2, <2>3, OneAtWork
  <1>3. CASE ResolveSource(b)
    <2>1. /\ bpc[b] # "idle" /\ bpc' = [bpc EXCEPT ![b] = "extract"]
          /\ band' = [band EXCEPT ![b] = 1] /\ bands' = NoBands
          /\ UNCHANGED <<tmp, archive, in_place>>
      BY <1>3 DEF ResolveSource
    <2>2. /\ bpc'[b] = "extract" /\ band'[b] = 1
          /\ \A c \in Builders \ {b} : bpc'[c] = "idle"
      BY <1>0, <1>a, <2>1
    <2>3. \A i \in Bands : bands'[i].of = {} /\ ~ (i < 1)
      BY <2>1, NoTilesServed DEF Bands
    <2>4. BandsOf(b)'
      BY <2>2, <2>3 DEF BandsOf, From
    <2> QED
      BY <1>m, <1>s, <1>a, <2>1, <2>2, <2>4, OneAtWork
  <1>4. CASE ExtractStarts(b)
    <2>1. /\ bpc[b] = "extract" /\ bpc' = [bpc EXCEPT ![b] = "extracting"]
          /\ bands' = [bands EXCEPT ![band[b]] = [of |-> {source[b]}, whole |-> FALSE]]
          /\ UNCHANGED <<tmp, archive, band, source, in_place>>
      BY <1>4 DEF ExtractStarts, SourceOf
    <2>2. bpc'[b] = "extracting" /\ \A c \in Builders \ {b} : bpc'[c] = "idle"
      BY <1>0, <1>a, <2>1
    <2>3. /\ bands'[band[b]].of = {source[b]}
          /\ \A i \in Bands : i # band[b] => bands'[i] = bands[i]
      BY <1>0, <2>1
    <2>4. \A i \in Bands : i < band[b] => i # band[b]
      BY <1>0 DEF Bands
    <2>5. BandsOf(b)'
      BY <1>s, <2>1, <2>2, <2>3, <2>4 DEF BandsOf, From, Exists
    <2> QED
      BY <1>m, <1>s, <1>a, <2>1, <2>2, <2>5, OneAtWork
  <1>5. CASE ExtractEnds(b)
    <2>1. /\ bpc[b] = "extracting" /\ Exists(bands[band[b]])
          /\ \A i \in Bands : From(bands[i], source[b])
          /\ \A i \in Bands : i < band[b] => bands[i].whole
      BY <1>5, <1>s DEF ExtractEnds, BandsOf
    <2>2. /\ bands' = [bands EXCEPT ![band[b]].whole = TRUE]
          /\ UNCHANGED <<tmp, archive, source, in_place>>
      BY <1>5, <2>1 DEF ExtractEnds
    <2>3. /\ bands'[band[b]].whole /\ bands'[band[b]].of = bands[band[b]].of
          /\ \A i \in Bands : i # band[b] => bands'[i] = bands[i]
      BY <1>0, <2>2 DEF TileFile
    <2>4. \A i \in Bands : From(bands'[i], source'[b])
      BY <2>1, <2>2, <2>3 DEF From
    <2>5. CASE band[b] = 3
      <3>1. bpc'[b] = "merge" /\ \A c \in Builders \ {b} : bpc'[c] = "idle"
        BY <1>0, <1>5, <1>a, <2>1, <2>5 DEF ExtractEnds
      <3>2. \A i \in Bands : i < band[b] \/ i = band[b]
        BY <2>5 DEF Bands
      <3>3. \A i \in Bands : bands'[i].whole
        BY <2>1, <2>3, <3>2
      <3>4. BandsOf(b)'
        BY <2>4, <3>1, <3>3 DEF BandsOf
      <3> QED
        BY <1>m, <1>s, <1>a, <2>1, <2>2, <3>1, <3>4, OneAtWork
    <2>6. CASE band[b] # 3
      <3>1. /\ bpc'[b] = "extract" /\ band'[b] = band[b] + 1
            /\ \A c \in Builders \ {b} : bpc'[c] = "idle"
        BY <1>0, <1>5, <1>a, <2>1, <2>6 DEF ExtractEnds
      <3>2. \A i \in Bands : i < band[b] + 1 => i < band[b] \/ i = band[b]
        BY <1>0 DEF Bands
      <3>3. \A i \in Bands : i < band'[b] => bands'[i].whole
        BY <2>1, <2>3, <3>1, <3>2
      <3>4. BandsOf(b)'
        BY <2>4, <3>1, <3>3 DEF BandsOf
      <3> QED
        BY <1>m, <1>s, <1>a, <2>1, <2>2, <3>1, <3>4, OneAtWork
    <2> QED
      BY <2>5, <2>6
  <1>6. CASE ExtractAgain(b)
    <2>1. /\ bpc[b] = "extracting" /\ bpc' = [bpc EXCEPT ![b] = "extract"]
          /\ UNCHANGED <<bands, tmp, archive, band, source, in_place>>
      BY <1>6 DEF ExtractAgain
    <2>2. bpc'[b] = "extract" /\ \A c \in Builders \ {b} : bpc'[c] = "idle"
      BY <1>0, <1>a, <2>1
    <2>3. BandsOf(b)'
      BY <1>s, <2>1, <2>2 DEF BandsOf, From
    <2> QED
      BY <1>m, <1>s, <1>a, <2>1, <2>2, <2>3, OneAtWork
  <1>7. CASE MergeStarts(b)
    <2>1. /\ bpc[b] = "merge" /\ \A i \in Bands : From(bands[i], source[b])
          /\ \A i \in Bands : bands[i].whole
      BY <1>7, <1>s DEF MergeStarts, BandsOf
    <2>2. /\ bpc' = [bpc EXCEPT ![b] = "merging"] /\ UNCHANGED <<bands, source>>
          /\ \/ b \in Updaters /\ UNCHANGED <<archive>>
             \/ b \notin Updaters /\ archive' = Merged(FALSE)
          /\ in_place' = (in_place \/ b \in Commands)
      BY <1>7 DEF MergeStarts, Write, WritesTmp
    <2>3. bpc'[b] = "merging" /\ \A c \in Builders \ {b} : bpc'[c] = "idle"
      BY <1>0, <1>a, <2>1, <2>2
    <2>4. BandsOf(b)'
      BY <2>1, <2>2, <2>3 DEF BandsOf, From
    <2>5. OneBuild(archive')
      BY <1>s, <2>1, <2>2, MergedFile
    <2>6. Exists(archive') => archive'.whole \/ in_place'
      BY <1>s, <2>2 DEF Builders
    <2> QED
      BY <1>m, <1>a, <2>1, <2>3, <2>4, <2>5, <2>6, OneAtWork
  <1>8. CASE MergeEnds(b)
    <2>1. /\ bpc[b] = "merging" /\ \A i \in Bands : From(bands[i], source[b])
          /\ \A i \in Bands : bands[i].whole
      BY <1>8, <1>s DEF MergeEnds, BandsOf
    <2>2. OneBuild(Merged(TRUE)) /\ Merged(TRUE).whole
      BY <2>1, MergedFile
    <2>3. b \in Updaters => b \notin Commands
      BY TileAssumption
    <2>4. CASE b \in Updaters
      <3>1. /\ bpc' = [bpc EXCEPT ![b] = "swap"] /\ tmp' = Merged(TRUE) /\ archive' = archive
            /\ in_place' <=> in_place
        BY <1>8, <2>3, <2>4 DEF MergeEnds, Write, WritesTmp
      <3>2. bpc'[b] = "swap" /\ \A c \in Builders \ {b} : bpc'[c] = "idle"
        BY <1>0, <1>a, <2>1, <3>1
      <3>3. BandsOf(b)'
        BY <3>2 DEF BandsOf
      <3> QED
        BY <1>m, <1>s, <1>a, <2>1, <2>2, <3>1, <3>2, <3>3, OneAtWork
    <2>5. CASE b \notin Updaters
      <3>1. Rest(b) /\ archive' = Merged(TRUE)
        BY <1>8, <2>5 DEF MergeEnds, Write, WritesTmp
      <3>2. bpc'[b] = "idle" /\ \A c \in Builders \ {b} : bpc'[c] = "idle"
        BY <1>a, <2>1, <3>1, RestTypes
      <3> QED
        BY <1>m, <1>a, <2>1, <2>2, <3>1, <3>2, AtRest
    <2> QED
      BY <2>4, <2>5
  <1>9. CASE Swap(b)
    <2>1. /\ bpc[b] = "swap" /\ Rest(b) /\ archive' = tmp
      BY <1>9 DEF Swap
    <2>2. bpc'[b] = "idle" /\ \A c \in Builders \ {b} : bpc'[c] = "idle"
      BY <1>a, <2>1, RestTypes
    <2> QED
      BY <1>m, <1>s, <1>a, <2>1, <2>2, AtRest
  <1>10. CASE BuildBreaks(b) \/ SwapFails(b)
    <2>1. /\ bpc[b] # "idle" /\ Rest(b) /\ archive' = archive /\ in_place' = in_place
      BY <1>10 DEF BuildBreaks, Broken, GiveUp, AfterFailure, SwapFails
    <2>2. bpc'[b] = "idle" /\ \A c \in Builders \ {b} : bpc'[c] = "idle"
      BY <1>a, <2>1, RestTypes
    <2> QED
      BY <1>m, <1>a, <2>1, <2>2, AtRest
  <1> QED
    BY <1>1, <1>2, <1>3, <1>4, <1>5, <1>6, <1>7, <1>8, <1>9, <1>10 DEF Build

LEMMA ServedStep == TileOK /\ ServedInv /\ [TileNext]_tileVars => ServedInv'
  <1> SUFFICES ASSUME TileOK, ServedInv, [TileNext]_tileVars PROVE ServedInv'
    OBVIOUS
  <1>1. CASE met'
    BY <1>1 DEF ServedInv, SoloInv, ServedWhole
  <1>2. CASE ~met'
    <2>1. ASSUME NEW b \in Builders, BuildFails(b) \/ BuilderDies(b) PROVE ServedInv'
      <3>1. /\ bpc[b] # "idle" /\ Rest(b) /\ archive' = archive
            /\ in_place' = in_place /\ met' = met
        BY <2>1 DEF BuildFails, BuilderDies, GiveUp, AfterFailure
      <3>2. \A c \in Builders \ {b} : bpc[c] = "idle"
        BY <1>2, <3>1 DEF ServedInv, SoloInv, Alone, AtWork
      <3>3. bpc'[b] = "idle" /\ \A c \in Builders \ {b} : bpc'[c] = "idle"
        BY <3>1, <3>2, RestTypes
      <3> QED
        BY <1>2, <3>1, <3>2, <3>3, AtRest
    <2>2. CASE Upstream \/ UNCHANGED tileVars
      <3>1. UNCHANGED <<bands, tmp, archive, bpc, band, source, met, in_place>>
        BY <2>2 DEF Upstream, tileVars
      <3> QED
        BY <3>1 DEF ServedInv, SoloInv, Alone, AtWork, BandsOf, From, OneBuild, ServedWhole,
           Exists
    <2> QED
      BY <1>2, <2>1, <2>2, BuildServed DEF TileNext
  <1> QED
    BY <1>1, <1>2

LEMMA ServedAlways == TileSpec => [](TileOK /\ ServedInv)
  <1>1. TileOK /\ ServedInv /\ [TileNext]_tileVars => (TileOK /\ ServedInv)'
    BY TileOKStep, ServedStep
  <1> QED
    BY <1>1, InitTileOK, InitServed, PTL DEF TileSpec

\* The archive nginx serves is whole, whatever failed or died, unless a
\* command has yet to finish it in place, or was stopped before it did and no build
\* has come to its end since, or two builders were at work at the same time.
THEOREM ArchivesAreWhole == TileSpec => []ServedWhole
  <1>1. TileOK /\ ServedInv => ServedWhole
    BY DEF ServedInv
  <1> QED
    BY <1>1, ServedAlways, PTL

\* The tiles of an archive are from one upstream build.
THEOREM ArchivesHaveOneSource == TileSpec => []OneSource
  <1>1. TileOK /\ ServedInv => OneSource
    BY DEF ServedInv, SoloInv, OneBuild, OneSource
  <1> QED
    BY <1>1, ServedAlways, PTL
=============================================================================
