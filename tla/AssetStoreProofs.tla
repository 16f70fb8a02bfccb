-------------------------- MODULE AssetStoreProofs --------------------------
(***************************************************************************)
(* Theorems about AssetStore, for every set of processes with any builds,  *)
(* of importers, images and stations.                                      *)
(***************************************************************************)
EXTENDS AssetStore, TLAPS

-----------------------------------------------------------------------------
(* Types and places                                                         *)

\* A process syncs images its build bundles and removes builtin ones; an import
\* stores a provider's image and links that or the default.
Places ==
  /\ \A p \in Processes :
       /\ todo[p] \subseteq Bundled(p) /\ listed[p] \subseteq Builtins
       /\ sync[p] \in {"put", "save"} => key[p] \in Bundled(p)
       /\ sync[p] = "object" => key[p] \in Builtins
  /\ \A i \in Importers :
       /\ ipc[i] \in {"put", "save"} => image[i] \in ImageStations \X Images
       /\ ipc[i] = "link" => image[i] \in ImageStations \X (Images \cup {Default})

PlacesOK == AssetTypeOK /\ Places

LEMMA BundledImages ==
  \A p \in Processes : \A k \in Bundled(p) :
    k \in Builtins /\ k \in Keys /\ Bundle[p][k] \in Hashes /\ Bundle[p][k] # Nothing
  BY AssetAssumption DEF Bundled, Keys

LEMMA InitPlaces == AssetInit => PlacesOK
  BY AssetAssumption DEF AssetInit, PlacesOK, AssetTypeOK, Places

LEMMA SyncPlaces ==
  ASSUME PlacesOK, NEW p \in Processes, Sync(p)
  PROVE  PlacesOK'
  <1> USE DEF PlacesOK, AssetTypeOK, Places, GoSync, importVars, cleanupVars, Bundled, Keys
  <1>1. CASE StartProcess(p)
    BY <1>1 DEF StartProcess
  <1>2. CASE SyncLook(p)
    <2>1. PICK k \in todo[p] :
            /\ todo' = [todo EXCEPT ![p] = @ \ {k}]
            /\ \/ UNCHANGED <<sync, key>>
               \/ sync' = [sync EXCEPT ![p] = "put"] /\ key' = [key EXCEPT ![p] = k]
      BY <1>2 DEF SyncLook
    <2>2. UNCHANGED <<object, row, link, image_sha256, listed, importVars, cleanupVars,
                      raced, torn>>
      BY <1>2 DEF SyncLook
    <2>3. k \in Bundled(p) /\ k \in Builtins
      OBVIOUS
    <2>4. CASE UNCHANGED <<sync, key>>
      BY <2>1, <2>2, <2>4
    <2>5. CASE sync' = [sync EXCEPT ![p] = "put"] /\ key' = [key EXCEPT ![p] = k]
      BY <2>1, <2>2, <2>3, <2>5
    <2> QED
      BY <2>1, <2>4, <2>5
  <1>3. CASE SyncPut(p)
    <2>1. key[p] \in Bundled(p) /\ key[p] \in Builtins /\ Bundle[p][key[p]] \in Hashes
      <3>1. key[p] \in Bundled(p)
        BY <1>3 DEF SyncPut
      <3> QED BY <3>1, BundledImages
    <2>2. /\ object' = [object EXCEPT ![key[p]] = Bundle[p][key[p]]]
          /\ torn' = torn \/ torn' = torn \cup {key[p]}
          /\ sync' = [sync EXCEPT ![p] = "save"]
          /\ UNCHANGED <<row, link, image_sha256, todo, listed, key, importVars,
                         cleanupVars, raced>>
      BY <1>3 DEF SyncPut, Put, Uploading
    <2>3. object' \in [Keys -> Hashes \cup {Nothing}] /\ torn' \subseteq Builtins
      BY <2>1, <2>2
    <2>4. sync[p] = "put"
      BY <1>3 DEF SyncPut
    <2>5. Places'
      BY <2>2, <2>4
    <2> QED
      BY <2>2, <2>3, <2>5
  <1>4. CASE SyncSave(p)
    <2>1. key[p] \in Bundled(p) /\ key[p] \in Builtins /\ Bundle[p][key[p]] \in Hashes
      <3>1. key[p] \in Bundled(p)
        BY <1>4 DEF SyncSave
      <3> QED BY <3>1, BundledImages
    <2>2. /\ row' = [row EXCEPT ![key[p]] = Bundle[p][key[p]]]
          /\ raced' = raced \/ raced' = raced \cup {key[p]}
          /\ sync' = [sync EXCEPT ![p] = "look"]
          /\ key' = [key EXCEPT ![p] = Nothing]
          /\ UNCHANGED <<object, link, image_sha256, todo, listed, importVars,
                         cleanupVars, torn>>
      BY <1>4 DEF SyncSave, Save, SavedRow, Condemned
    <2>3. row' \in [Keys -> Hashes \cup {Nothing}] /\ raced' \subseteq Keys
      BY <2>1, <2>2
    <2>4. Places'
      BY <2>2
    <2> QED
      BY <2>2, <2>3, <2>4
  <1>5. CASE SyncList(p)
    BY <1>5 DEF SyncList, NotBundled
  <1>6. CASE SyncRemoveRow(p)
    BY <1>6 DEF SyncRemoveRow, Unlinked
  <1>7. CASE SyncRemoveObject(p)
    BY <1>7 DEF SyncRemoveObject, DeleteObject
  <1>8. CASE SyncEnds(p)
    BY <1>8 DEF SyncEnds
  <1>9. CASE SyncStops(p)
    BY <1>9 DEF SyncStops
  <1> QED
    BY <1>1, <1>2, <1>3, <1>4, <1>5, <1>6, <1>7, <1>8, <1>9 DEF Sync

LEMMA ImportPlaces ==
  ASSUME PlacesOK, NEW i \in Importers, Import(i)
  PROVE  PlacesOK'
  <1> USE DEF PlacesOK, AssetTypeOK, Places, GoImport, syncVars, cleanupVars, Bundled, Keys
  <1>1. CASE ImportLook(i)
    <2>1. PICK st \in ImageStations, k \in Images \cup {Default} :
            /\ image' = [image EXCEPT ![i] = <<st, k>>]
            /\ \/ ipc' = [ipc EXCEPT ![i] = "link"]
               \/ k \in Images /\ ipc' = [ipc EXCEPT ![i] = "put"]
      <3>1. PICK st \in ImageStations :
              \/ image' = [image EXCEPT ![i] = <<st, Default>>] /\ GoImport(i, "link")
              \/ \E h \in Images \ {image_sha256[st]} :
                   /\ image' = [image EXCEPT ![i] = <<st, h>>]
                   /\ GoImport(i, IF row[h] # Nothing THEN "link" ELSE "put")
        BY <1>1 DEF ImportLook
      <3> QED BY <3>1
    <2>2. UNCHANGED <<object, row, link, image_sha256, syncVars, cleanupVars, raced, torn>>
      BY <1>1 DEF ImportLook
    <2>3. k \in Keys /\ <<st, k>> \in ImageStations \X (Images \cup {Default})
      BY AssetAssumption
    <2> QED
      BY <2>1, <2>2, <2>3
  <1>2. CASE ImportPut(i)
    BY <1>2, AssetAssumption DEF ImportPut, Put
  <1>3. CASE ImportSave(i)
    BY <1>3, AssetAssumption DEF ImportSave, Save, SavedRow
  <1>4. CASE ImportLink(i)
    BY <1>4, AssetAssumption DEF ImportLink
  <1>5. CASE ImportStops(i)
    BY <1>5 DEF ImportStops
  <1> QED
    BY <1>1, <1>2, <1>3, <1>4, <1>5 DEF Import

LEMMA CleanupPlaces ==
  ASSUME PlacesOK, CleanupStep \/ CleanupStops
  PROVE  PlacesOK'
  <1> USE DEF PlacesOK, AssetTypeOK, Places, syncVars, importVars, Bundled, Keys
  <1>1. CASE CleanupObjects
    BY <1>1 DEF CleanupObjects, ObjectKeys
  <1>2. CASE CleanupRows
    BY <1>2 DEF CleanupRows, Orphans
  <1>3. CASE CleanupDelete
    BY <1>3 DEF CleanupDelete, DeleteObject
  <1>4. CASE CleanupEnds
    BY <1>4 DEF CleanupEnds
  <1>5. CASE CleanupStops
    BY <1>5, AssetAssumption DEF CleanupStops
  <1> QED
    BY <1>1, <1>2, <1>3, <1>4, <1>5 DEF CleanupStep

LEMMA PlacesStep == PlacesOK /\ [AssetNext]_assetVars => PlacesOK'
  <1> SUFFICES ASSUME PlacesOK, [AssetNext]_assetVars PROVE PlacesOK'
    OBVIOUS
  <1>1. ASSUME UNCHANGED assetVars PROVE PlacesOK'
    BY <1>1 DEF assetVars, syncVars, importVars, cleanupVars, PlacesOK, AssetTypeOK,
       Places, Bundled
  <1> QED
    BY <1>1, SyncPlaces, ImportPlaces, CleanupPlaces DEF AssetNext

\* The bucket, the table, the links and what the processes are at keep their
\* types.
THEOREM AssetTypes == AssetSpec => []AssetTypeOK
  <1>1. PlacesOK => AssetTypeOK
    BY DEF PlacesOK
  <1> QED
    BY <1>1, InitPlaces, PlacesStep, PTL DEF AssetSpec

-----------------------------------------------------------------------------
(* Rows without content                                                     *)

\* An object deleted under an upload, or a row saved for an object that is
\* about to go, is a race.
RaceInv ==
  /\ DanglingOnlyByRace
  /\ \A k \in Keys : Uploading(k) /\ object[k] = Nothing => k \in raced
  /\ \A k \in Keys : Condemned(k) /\ row[k] # Nothing => k \in raced

LEMMA InitRace == AssetInit => RaceInv
  BY DEF AssetInit, RaceInv, DanglingOnlyByRace, Uploading, Saving, ImportSaving, Condemned

\* What an upload, a saved row and a deletion do to the invariant.
LEMMA PutKeepsRace ==
  ASSUME PlacesOK, RaceInv, NEW k \in Keys, NEW h \in Hashes, Put(k, h),
         UNCHANGED <<row, raced>>,
         \A l \in Keys : l # k => (Uploading(l)' => Uploading(l)),
         \A l \in Keys : Condemned(l)' => Condemned(l)
  PROVE  RaceInv'
  <1>1. /\ h # Nothing
        /\ \A l \in Keys : object'[l] = IF l = k THEN h ELSE object[l]
    BY AssetAssumption DEF Put, PlacesOK, AssetTypeOK
  <1> QED
    BY <1>1 DEF RaceInv, DanglingOnlyByRace

LEMMA SaveKeepsRace ==
  ASSUME PlacesOK, RaceInv, NEW k \in Keys, NEW h \in Hashes, Save(k, h),
         UNCHANGED object, Uploading(k),
         \A l \in Keys : Uploading(l)' => Uploading(l),
         \A l \in Keys : Condemned(l)' => Condemned(l)
  PROVE  RaceInv'
  <1>1. /\ \A l \in Keys : row'[l] = IF l = k THEN h ELSE row[l]
        /\ Condemned(k) => k \in raced'
        /\ raced \subseteq raced'
    BY DEF Save, SavedRow, PlacesOK, AssetTypeOK, Condemned
  <1> QED
    BY <1>1 DEF RaceInv, DanglingOnlyByRace

LEMMA DeleteKeepsRace ==
  ASSUME PlacesOK, RaceInv, NEW k \in Keys, DeleteObject(k), Condemned(k),
         UNCHANGED row,
         \A l \in Keys : Uploading(l)' => Uploading(l),
         \A l \in Keys : Condemned(l)' => Condemned(l)
  PROVE  RaceInv'
  <1>1. /\ \A l \in Keys : object'[l] = IF l = k THEN Nothing ELSE object[l]
        /\ Uploading(k) => k \in raced'
        /\ raced \subseteq raced'
    BY DEF DeleteObject, PlacesOK, AssetTypeOK, Uploading, Saving, ImportSaving
  <1> QED
    BY <1>1 DEF RaceInv, DanglingOnlyByRace

LEMMA QuietKeepsRace ==
  ASSUME RaceInv, UNCHANGED <<object, row, raced>>,
         \A l \in Keys : Uploading(l)' => Uploading(l),
         \A l \in Keys : Condemned(l)' => Condemned(l) \/ row[l] = Nothing
  PROVE  RaceInv'
  BY DEF RaceInv, DanglingOnlyByRace

LEMMA RaceStep == PlacesOK /\ RaceInv /\ [AssetNext]_assetVars => RaceInv'
  <1> SUFFICES ASSUME PlacesOK, RaceInv, [AssetNext]_assetVars PROVE RaceInv'
    OBVIOUS
  <1>0. /\ sync \in [Processes -> {"idle", "look", "put", "save", "row", "object"}]
        /\ key \in [Processes -> Keys \cup {Nothing}]
        /\ ipc \in [Importers -> {"idle", "put", "save", "link"}]
        /\ DOMAIN image = Importers
    BY DEF PlacesOK, AssetTypeOK
  <1> USE DEF GoSync, GoImport, syncVars, importVars, cleanupVars
  <1>1. ASSUME NEW p \in Processes,
               StartProcess(p) \/ SyncLook(p) \/ SyncList(p) \/ SyncEnds(p) \/ SyncStops(p)
        PROVE  RaceInv'
    <2>1. UNCHANGED <<object, row, raced, orphans, ipc, image>>
      BY <1>1 DEF StartProcess, SyncLook, SyncList, SyncEnds, SyncStops
    <2>2. \A q \in Processes : /\ sync'[q] \in {"save", "object"} => sync[q] = sync'[q]
                               /\ sync'[q] \in {"save", "object"} => key'[q] = key[q]
      BY <1>0, <1>1 DEF StartProcess, SyncLook, SyncList, SyncEnds, SyncStops
    <2>3. \A l \in Keys : Uploading(l)' => Uploading(l)
      BY <2>1, <2>2 DEF Uploading, Saving, ImportSaving
    <2>4. \A l \in Keys : Condemned(l)' => Condemned(l)
      BY <2>1, <2>2 DEF Condemned
    <2> QED
      BY <2>1, <2>3, <2>4, QuietKeepsRace
  <1>2. ASSUME NEW p \in Processes, SyncPut(p) PROVE RaceInv'
    <2>1. /\ key[p] \in Keys /\ Bundle[p][key[p]] \in Hashes
          /\ Put(key[p], Bundle[p][key[p]])
          /\ UNCHANGED <<row, raced, orphans, ipc, image, key>>
          /\ sync' = [sync EXCEPT ![p] = "save"]
      <3>1. sync[p] = "put" /\ key[p] \in Bundled(p)
        BY <1>2 DEF SyncPut, PlacesOK, Places
      <3> QED BY <1>2, <3>1, BundledImages DEF SyncPut
    <2>2. \A l \in Keys : l # key[p] => (Uploading(l)' => Uploading(l))
      BY <1>0, <2>1 DEF Uploading, Saving, ImportSaving
    <2>3. \A l \in Keys : Condemned(l)' => Condemned(l)
      BY <1>0, <2>1 DEF Condemned
    <2> QED
      BY <2>1, <2>2, <2>3, PutKeepsRace
  <1>3. ASSUME NEW p \in Processes, SyncSave(p) PROVE RaceInv'
    <2>1. /\ key[p] \in Keys /\ Bundle[p][key[p]] \in Hashes /\ sync[p] = "save"
          /\ Save(key[p], Bundle[p][key[p]])
          /\ UNCHANGED <<object, orphans, ipc, image>>
          /\ sync' = [sync EXCEPT ![p] = "look"] /\ key' = [key EXCEPT ![p] = Nothing]
      <3>1. sync[p] = "save" /\ key[p] \in Bundled(p)
        BY <1>3 DEF SyncSave, PlacesOK, Places
      <3> QED BY <1>3, <3>1, BundledImages DEF SyncSave
    <2>2. Uploading(key[p]) /\ \A l \in Keys : Uploading(l)' => Uploading(l)
      BY <1>0, <2>1 DEF Uploading, Saving, ImportSaving
    <2>3. \A l \in Keys : Condemned(l)' => Condemned(l)
      BY <1>0, <2>1 DEF Condemned
    <2> QED
      BY <2>1, <2>2, <2>3, SaveKeepsRace
  <1>4. ASSUME NEW p \in Processes, SyncRemoveRow(p) PROVE RaceInv'
    <2>1. PICK k \in listed[p] : /\ row' = [row EXCEPT ![k] = Nothing]
                                 /\ key' = [key EXCEPT ![p] = k]
      BY <1>4 DEF SyncRemoveRow
    <2>2. /\ UNCHANGED <<object, raced, orphans, ipc, image>>
          /\ sync' = [sync EXCEPT ![p] = "object"]
      BY <1>4 DEF SyncRemoveRow
    <2>3. \A l \in Keys : Uploading(l)' => Uploading(l)
      BY <1>0, <2>1, <2>2 DEF Uploading, Saving, ImportSaving
    <2>4. \A l \in Keys : Condemned(l)' => Condemned(l) \/ l = k
      BY <1>0, <2>1, <2>2 DEF Condemned
    <2>5. \A l \in Keys : row'[l] # Nothing => row[l] # Nothing /\ l # k
      BY <2>1 DEF PlacesOK, AssetTypeOK
    <2> QED
      BY <2>2, <2>3, <2>4, <2>5 DEF RaceInv, DanglingOnlyByRace
  <1>5. ASSUME NEW p \in Processes, SyncRemoveObject(p) PROVE RaceInv'
    <2>1. /\ sync[p] = "object" /\ key[p] \in Keys /\ DeleteObject(key[p])
          /\ UNCHANGED <<row, orphans, ipc, image>>
          /\ sync' = [sync EXCEPT ![p] = "row"] /\ key' = [key EXCEPT ![p] = Nothing]
      BY <1>5 DEF SyncRemoveObject, PlacesOK, Places, Keys
    <2>2. \A l \in Keys : Uploading(l)' => Uploading(l)
      BY <1>0, <2>1 DEF Uploading, Saving, ImportSaving
    <2>3. Condemned(key[p]) /\ \A l \in Keys : Condemned(l)' => Condemned(l)
      BY <1>0, <2>1 DEF Condemned
    <2> QED
      BY <2>1, <2>2, <2>3, DeleteKeepsRace
  <1>6. ASSUME NEW i \in Importers, ImportLook(i) \/ ImportLink(i) \/ ImportStops(i)
        PROVE  RaceInv'
    <2>1. UNCHANGED <<object, row, raced, orphans, sync, key>>
      BY <1>6 DEF ImportLook, ImportLink, ImportStops
    <2>2. \A j \in Importers : ipc'[j] = "save" => ipc[j] = "save" /\ image'[j] = image[j]
      BY <1>0, <1>6 DEF ImportLook, ImportLink, ImportStops
    <2>3. \A l \in Keys : Uploading(l)' => Uploading(l)
      BY <2>1, <2>2 DEF Uploading, Saving, ImportSaving
    <2>4. \A l \in Keys : Condemned(l)' => Condemned(l)
      BY <2>1 DEF Condemned
    <2> QED
      BY <2>1, <2>3, <2>4, QuietKeepsRace
  <1>7. ASSUME NEW i \in Importers, ImportPut(i) PROVE RaceInv'
    <2>1. /\ image[i][2] \in Keys /\ image[i][2] \in Hashes /\ Put(image[i][2], image[i][2])
          /\ UNCHANGED <<row, raced, orphans, sync, key, image>>
          /\ ipc' = [ipc EXCEPT ![i] = "save"]
      <3>1. image[i] \in ImageStations \X Images
        BY <1>7 DEF ImportPut, PlacesOK, Places
      <3> QED BY <1>7, <3>1, AssetAssumption DEF ImportPut, Keys
    <2>2. \A l \in Keys : l # image[i][2] => (Uploading(l)' => Uploading(l))
      BY <1>0, <2>1 DEF Uploading, Saving, ImportSaving
    <2>3. \A l \in Keys : Condemned(l)' => Condemned(l)
      BY <2>1 DEF Condemned
    <2> QED
      BY <2>1, <2>2, <2>3, PutKeepsRace
  <1>8. ASSUME NEW i \in Importers, ImportSave(i) PROVE RaceInv'
    <2>1. /\ image[i][2] \in Keys /\ image[i][2] \in Hashes /\ ipc[i] = "save"
          /\ Save(image[i][2], image[i][2])
          /\ UNCHANGED <<object, orphans, sync, key, image>>
          /\ ipc' = [ipc EXCEPT ![i] = "link"]
      <3>1. image[i] \in ImageStations \X Images
        BY <1>8 DEF ImportSave, PlacesOK, Places
      <3> QED BY <1>8, <3>1, AssetAssumption DEF ImportSave, Keys
    <2>2. Uploading(image[i][2]) /\ \A l \in Keys : Uploading(l)' => Uploading(l)
      BY <1>0, <2>1 DEF Uploading, Saving, ImportSaving
    <2>3. \A l \in Keys : Condemned(l)' => Condemned(l)
      BY <2>1 DEF Condemned
    <2> QED
      BY <2>1, <2>2, <2>3, SaveKeepsRace
  <1>9. CASE CleanupObjects \/ CleanupEnds \/ CleanupStops
    <2>1. UNCHANGED <<object, row, raced, sync, key, ipc, image>> /\ orphans' \subseteq orphans
      BY <1>9 DEF CleanupObjects, CleanupEnds, CleanupStops
    <2>2. \A l \in Keys : Uploading(l)' => Uploading(l)
      BY <2>1 DEF Uploading, Saving, ImportSaving
    <2>3. \A l \in Keys : Condemned(l)' => Condemned(l)
      BY <2>1 DEF Condemned
    <2> QED
      BY <2>1, <2>2, <2>3, QuietKeepsRace
  <1>10. CASE CleanupRows
    <2>1. UNCHANGED <<object, row, raced, sync, key, ipc, image>>
          /\ \A k \in orphans' : row[k] = Nothing \/ k \notin Keys
      BY <1>10 DEF CleanupRows, Orphans, RowKeys
    <2>2. \A l \in Keys : Uploading(l)' => Uploading(l)
      BY <2>1 DEF Uploading, Saving, ImportSaving
    <2>3. \A l \in Keys : Condemned(l)' => Condemned(l) \/ row[l] = Nothing
      BY <2>1 DEF Condemned
    <2> QED
      BY <2>1, <2>2, <2>3, QuietKeepsRace
  <1>11. CASE CleanupDelete
    <2>1. PICK k \in orphans : DeleteObject(k) /\ orphans' = orphans \ {k}
      BY <1>11 DEF CleanupDelete
    <2>2. UNCHANGED <<row, sync, key, ipc, image>> /\ k \in Keys
      BY <1>11 DEF CleanupDelete, PlacesOK, AssetTypeOK
    <2>3. \A l \in Keys : Uploading(l)' => Uploading(l)
      BY <2>2 DEF Uploading, Saving, ImportSaving
    <2>4. Condemned(k) /\ \A l \in Keys : Condemned(l)' => Condemned(l)
      BY <2>1, <2>2 DEF Condemned
    <2> QED
      BY <2>1, <2>2, <2>3, <2>4, DeleteKeepsRace
  <1>12. CASE UNCHANGED assetVars
    BY <1>12 DEF assetVars, RaceInv, DanglingOnlyByRace, Uploading, Saving, ImportSaving,
       Condemned
  <1> QED
    BY <1>1, <1>2, <1>3, <1>4, <1>5, <1>6, <1>7, <1>8, <1>9, <1>10, <1>11, <1>12
       DEF AssetNext, Sync, Import, CleanupStep

\* A row is left without its object only by an upload and a deletion of the same
\* key at the same time: no crash between two steps of either does it.
THEOREM RowsKeepTheirObjects == AssetSpec => []DanglingOnlyByRace
  <1>1. RaceInv => DanglingOnlyByRace
    BY DEF RaceInv
  <1> QED
    BY <1>1, InitPlaces, PlacesStep, InitRace, RaceStep, PTL DEF AssetSpec

-----------------------------------------------------------------------------
(* The bytes behind a row                                                   *)

\* A provider's image is stored under its hash.
ImageBytes ==
  \A k \in Images : object[k] \in {k, Nothing} /\ row[k] \in {k, Nothing}

\* What a process has uploaded is still there when it saves the row.
BuiltinUploads ==
  \A p \in Processes, k \in Builtins :
    Saving(p, k) => object[k] \in {Bundle[p][k], Nothing} \/ k \in torn

BuiltinRows ==
  \A k \in Builtins :
    row[k] # Nothing /\ object[k] # Nothing /\ object[k] # row[k] =>
      (\E p \in Processes : Saving(p, k)) \/ k \in torn

ContentInv == ImageBytes /\ BuiltinUploads /\ BuiltinRows

LEMMA InitContent == AssetInit => ContentInv
  BY AssetAssumption
     DEF AssetInit, ContentInv, ImageBytes, BuiltinUploads, BuiltinRows, Saving, Keys

\* Steps that are not of a process that syncs.
LEMMA OthersKeepContent ==
  ASSUME ContentInv, UNCHANGED <<sync, key, torn>>,
         \A k \in Builtins : row'[k] = row[k] /\ object'[k] \in {object[k], Nothing},
         \A k \in Images : /\ row'[k] \in {row[k], k, Nothing}
                           /\ object'[k] \in {object[k], k, Nothing}
  PROVE  ContentInv'
  BY DEF ContentInv, ImageBytes, BuiltinUploads, BuiltinRows, Saving

LEMMA ContentStep == PlacesOK /\ ContentInv /\ [AssetNext]_assetVars => ContentInv'
  <1> SUFFICES ASSUME PlacesOK, ContentInv, [AssetNext]_assetVars PROVE ContentInv'
    OBVIOUS
  <1>0. /\ sync \in [Processes -> {"idle", "look", "put", "save", "row", "object"}]
        /\ key \in [Processes -> Keys \cup {Nothing}]
        /\ object \in [Keys -> Hashes \cup {Nothing}]
        /\ row \in [Keys -> Hashes \cup {Nothing}]
        /\ Builtins \subseteq Keys /\ Images \subseteq Keys
        /\ \A k \in Images : k \notin Builtins
    BY AssetAssumption DEF PlacesOK, AssetTypeOK, Keys
  <1> USE DEF GoSync, GoImport, syncVars, importVars, cleanupVars
  <1>1. ASSUME NEW p \in Processes,
               StartProcess(p) \/ SyncLook(p) \/ SyncList(p) \/ SyncEnds(p)
        PROVE  ContentInv'
    <2>1. UNCHANGED <<object, row, torn>>
      BY <1>1 DEF StartProcess, SyncLook, SyncList, SyncEnds
    <2>2. \A q \in Processes : sync[q] = "save" \/ sync'[q] = "save" =>
            sync'[q] = sync[q] /\ key'[q] = key[q]
      BY <1>0, <1>1 DEF StartProcess, SyncLook, SyncList, SyncEnds
    <2> QED
      BY <2>1, <2>2 DEF ContentInv, ImageBytes, BuiltinUploads, BuiltinRows, Saving
  <1>2. ASSUME NEW p \in Processes, SyncStops(p) PROVE ContentInv'
    <2>1. UNCHANGED <<object, row>> /\ torn' = torn \cup {k \in Builtins : Saving(p, k)}
      BY <1>2 DEF SyncStops
    <2>2. \A q \in Processes \ {p} : sync'[q] = sync[q] /\ key'[q] = key[q]
      BY <1>0, <1>2 DEF SyncStops
    <2>3. sync'[p] = "idle"
      BY <1>0, <1>2 DEF SyncStops
    <2> QED
      BY <2>1, <2>2, <2>3 DEF ContentInv, ImageBytes, BuiltinUploads, BuiltinRows, Saving
  <1>3. ASSUME NEW p \in Processes, SyncPut(p) PROVE ContentInv'
    <2>1. key[p] \in Builtins /\ Bundle[p][key[p]] \in Hashes
      <3>1. sync[p] = "put" /\ key[p] \in Bundled(p)
        BY <1>3 DEF SyncPut, PlacesOK, Places
      <3> QED BY <3>1, BundledImages
    <2>2. /\ object' = [object EXCEPT ![key[p]] = Bundle[p][key[p]]]
          /\ sync' = [sync EXCEPT ![p] = "save"] /\ UNCHANGED <<row, key>>
          /\ sync[p] = "put"
      BY <1>3 DEF SyncPut, Put
    <2>3. torn \subseteq torn' /\ (Uploading(key[p]) => key[p] \in torn')
      BY <1>3 DEF SyncPut, Uploading, Saving, ImportSaving
    <2>4. \A q \in Processes, k \in Builtins :
            Saving(q, k)' <=> Saving(q, k) \/ (q = p /\ k = key[p])
      BY <1>0, <2>2 DEF Saving
    <2>5. \A k \in Keys : object'[k] = IF k = key[p] THEN Bundle[p][k] ELSE object[k]
      BY <1>0, <2>2
    <2>6. BuiltinUploads'
      <3> SUFFICES ASSUME NEW q \in Processes, NEW k \in Builtins, Saving(q, k)'
                   PROVE  object'[k] \in {Bundle[q][k], Nothing} \/ k \in torn'
        BY DEF BuiltinUploads
      <3>1. CASE k # key[p]
        BY <1>0, <2>3, <2>4, <2>5, <3>1 DEF ContentInv, BuiltinUploads
      <3>2. CASE k = key[p] /\ q = p
        BY <1>0, <2>5, <3>2
      <3>3. CASE k = key[p] /\ q # p
        <4>1. Saving(q, k)
          BY <2>4, <3>3
        <4>2. Uploading(k)
          BY <4>1 DEF Uploading
        <4> QED BY <2>3, <3>3, <4>2
      <3> QED BY <3>1, <3>2, <3>3
    <2>7. BuiltinRows'
      BY <1>0, <2>1, <2>2, <2>3, <2>4, <2>5 DEF ContentInv, BuiltinRows
    <2>8. ImageBytes'
      BY <1>0, <2>1, <2>2, <2>5 DEF ContentInv, ImageBytes
    <2> QED BY <2>6, <2>7, <2>8 DEF ContentInv
  <1>4. ASSUME NEW p \in Processes, SyncSave(p) PROVE ContentInv'
    <2>1. key[p] \in Builtins
      <3>1. sync[p] = "save" /\ key[p] \in Bundled(p)
        BY <1>4 DEF SyncSave, PlacesOK, Places
      <3> QED BY <3>1, BundledImages
    <2>2. /\ row' = [row EXCEPT ![key[p]] = Bundle[p][key[p]]]
          /\ sync' = [sync EXCEPT ![p] = "look"] /\ key' = [key EXCEPT ![p] = Nothing]
          /\ UNCHANGED <<object, torn>> /\ sync[p] = "save"
      BY <1>4 DEF SyncSave, Save, SavedRow
    <2>3. Saving(p, key[p])
      BY <2>2 DEF Saving
    <2>4. \A q \in Processes, k \in Builtins :
            Saving(q, k)' <=> Saving(q, k) /\ q # p
      BY <1>0, <2>2 DEF Saving
    <2>5. \A k \in Keys : row'[k] = IF k = key[p] THEN Bundle[p][k] ELSE row[k]
      BY <1>0, <2>2
    <2>6. BuiltinRows'
      <3> SUFFICES ASSUME NEW k \in Builtins, row'[k] # Nothing, object[k] # Nothing,
                          object[k] # row'[k], k \notin torn
                   PROVE  \E q \in Processes : Saving(q, k)'
        BY <2>2 DEF BuiltinRows
      <3>1. CASE k = key[p]
        BY <1>0, <2>3, <2>5, <3>1 DEF ContentInv, BuiltinUploads
      <3>2. CASE k # key[p]
        <4>1. PICK q \in Processes : Saving(q, k)
          BY <1>0, <2>5, <3>2 DEF ContentInv, BuiltinRows
        <4>2. q # p
          BY <3>2, <4>1 DEF Saving
        <4> QED BY <2>4, <4>1, <4>2
      <3> QED BY <3>1, <3>2
    <2>7. BuiltinUploads'
      BY <2>2, <2>4 DEF ContentInv, BuiltinUploads
    <2>8. ImageBytes'
      BY <1>0, <2>1, <2>2, <2>5 DEF ContentInv, ImageBytes
    <2> QED BY <2>6, <2>7, <2>8 DEF ContentInv
  <1>5. ASSUME NEW p \in Processes, SyncRemoveRow(p) PROVE ContentInv'
    <2>1. PICK k \in listed[p] : /\ row' = [row EXCEPT ![k] = Nothing]
                                 /\ key' = [key EXCEPT ![p] = k]
      BY <1>5 DEF SyncRemoveRow
    <2>2. UNCHANGED <<object, torn>> /\ sync[p] = "row" /\ sync' = [sync EXCEPT ![p] = "object"]
      BY <1>5 DEF SyncRemoveRow
    <2>3. \A q \in Processes, l \in Builtins : Saving(q, l)' <=> Saving(q, l)
      BY <1>0, <2>1, <2>2 DEF Saving
    <2>4. \A l \in Keys : row'[l] \in {row[l], Nothing}
      BY <1>0, <2>1
    <2> QED
      BY <1>0, <2>2, <2>3, <2>4 DEF ContentInv, ImageBytes, BuiltinUploads, BuiltinRows
  <1>6. ASSUME NEW p \in Processes, SyncRemoveObject(p) PROVE ContentInv'
    <2>1. /\ object' = [object EXCEPT ![key[p]] = Nothing] /\ UNCHANGED <<row, torn>>
          /\ sync[p] = "object"
          /\ sync' = [sync EXCEPT ![p] = "row"] /\ key' = [key EXCEPT ![p] = Nothing]
      BY <1>6 DEF SyncRemoveObject, DeleteObject
    <2>2. \A q \in Processes, l \in Builtins : Saving(q, l)' <=> Saving(q, l)
      BY <1>0, <2>1 DEF Saving
    <2>3. \A l \in Keys : object'[l] \in {object[l], Nothing}
      BY <1>0, <2>1
    <2> QED
      BY <1>0, <2>1, <2>2, <2>3 DEF ContentInv, ImageBytes, BuiltinUploads, BuiltinRows
  <1>7. ASSUME NEW i \in Importers, Import(i) PROVE ContentInv'
    <2>1. ASSUME ipc[i] \in {"put", "save"} PROVE image[i][2] \in Images
      BY <2>1 DEF PlacesOK, Places
    <2>2. UNCHANGED <<sync, key, torn>>
      BY <1>7 DEF Import, ImportLook, ImportPut, ImportSave, ImportLink, ImportStops
    <2>3. \/ UNCHANGED <<object, row>>
          \/ \E k \in Images : \/ object' = [object EXCEPT ![k] = k] /\ row' = row
                               \/ row' = [row EXCEPT ![k] = k] /\ object' = object
      BY <1>7, <2>1 DEF Import, ImportLook, ImportPut, Put, ImportSave, Save, SavedRow,
         ImportLink, ImportStops
    <2> QED
      BY <1>0, <2>2, <2>3, OthersKeepContent
  <1>8. CASE CleanupStep \/ CleanupStops
    <2>1. UNCHANGED <<row, sync, key, torn>>
      BY <1>8 DEF CleanupStep, CleanupObjects, CleanupRows, CleanupDelete, CleanupEnds,
         CleanupStops
    <2>2. object' = object \/ \E k \in orphans : object' = [object EXCEPT ![k] = Nothing]
      BY <1>8 DEF CleanupStep, CleanupObjects, CleanupRows, CleanupDelete, DeleteObject,
         CleanupEnds, CleanupStops
    <2> QED
      BY <1>0, <2>1, <2>2, OthersKeepContent
  <1>9. CASE UNCHANGED assetVars
    BY <1>0, <1>9, OthersKeepContent DEF assetVars
  <1> QED
    BY <1>1, <1>2, <1>3, <1>4, <1>5, <1>6, <1>7, <1>8, <1>9 DEF AssetNext, Sync

\* The bytes behind a row are those of its hash, whatever was cut short, except
\* for builtin images with an upload under way, cut short or shared by two builds.
THEOREM RowsMatchBytes == AssetSpec => []BytesMatchRow
  <1>1. ContentInv => BytesMatchRow
    BY DEF ContentInv, ImageBytes, BuiltinRows, BytesMatchRow, Uploading, Keys
  <1> QED
    BY <1>1, InitPlaces, PlacesStep, InitContent, ContentStep, PTL DEF AssetSpec

-----------------------------------------------------------------------------
(* The images of the stations                                               *)

LEMMA LinkStep ==
  PlacesOK /\ ContentInv /\ HashHasLink /\ [AssetNext]_assetVars => HashHasLink'
  <1> SUFFICES ASSUME PlacesOK, ContentInv, HashHasLink, [AssetNext]_assetVars
               PROVE  HashHasLink'
    OBVIOUS
  <1>0. /\ row \in [Keys -> Hashes \cup {Nothing}]
        /\ link \in [ImageStations -> Keys \cup {Nothing}]
        /\ image_sha256 \in [ImageStations -> Images \cup {Nothing}]
        /\ Builtins \subseteq Keys /\ Images \subseteq Keys /\ Default \in Builtins
        /\ \A k \in Images : k \notin Builtins /\ k # Nothing
    BY AssetAssumption DEF PlacesOK, AssetTypeOK, Keys
  <1>1. \A st \in ImageStations : image_sha256[st] # Nothing =>
          link[st] = image_sha256[st] /\ link[st] \in Images /\ row[link[st]] = link[st]
    BY <1>0 DEF HashHasLink
  <1>2. ASSUME UNCHANGED <<link, image_sha256>>,
               \A k \in Images : row[k] = k => row'[k] = k
        PROVE  HashHasLink'
    BY <1>1, <1>2 DEF HashHasLink
  <1>3. ASSUME NEW p \in Processes, SyncSave(p) PROVE HashHasLink'
    <2>1. key[p] \in Builtins
      <3>1. sync[p] = "save" /\ key[p] \in Bundled(p)
        BY <1>3 DEF SyncSave, PlacesOK, Places
      <3> QED BY <3>1, BundledImages
    <2>2. row' = [row EXCEPT ![key[p]] = Bundle[p][key[p]]] /\ UNCHANGED <<link, image_sha256>>
      BY <1>3 DEF SyncSave, Save, SavedRow
    <2> QED
      BY <1>0, <1>2, <2>1, <2>2
  <1>4. ASSUME NEW p \in Processes, SyncRemoveRow(p) PROVE HashHasLink'
    <2>1. PICK k \in listed[p] : /\ row' = [row EXCEPT ![k] = Nothing]
                                 /\ link' = Unlinked(k)
      BY <1>4 DEF SyncRemoveRow
    <2>2. k \in Builtins /\ image_sha256' = image_sha256
      BY <1>4 DEF SyncRemoveRow, PlacesOK, Places
    <2>3. \A st \in ImageStations : image_sha256[st] # Nothing => link'[st] = link[st]
      BY <1>0, <1>1, <2>1, <2>2 DEF Unlinked
    <2> QED
      BY <1>0, <1>1, <2>1, <2>2, <2>3 DEF HashHasLink
  <1>5. ASSUME NEW i \in Importers, ImportSave(i) PROVE HashHasLink'
    <2>1. row' = [row EXCEPT ![image[i][2]] = image[i][2]] /\ UNCHANGED <<link, image_sha256>>
      BY <1>5 DEF ImportSave, Save, SavedRow
    <2> QED
      BY <1>0, <1>2, <2>1
  <1>6. ASSUME NEW i \in Importers, ImportLink(i) PROVE HashHasLink'
    <2> DEFINE st == image[i][1]
               k == image[i][2]
    <2>1. st \in ImageStations /\ k \in Images \cup {Default}
      <3>1. image[i] \in ImageStations \X (Images \cup {Default})
        BY <1>6 DEF ImportLink, PlacesOK, Places
      <3> QED BY <3>1
    <2>2. /\ row[k] # Nothing /\ row' = row
          /\ link' = [link EXCEPT ![st] = k]
          /\ image_sha256' =
               [image_sha256 EXCEPT ![st] = IF k = Default THEN Nothing ELSE k]
      BY <1>6 DEF ImportLink
    <2>3. k \in Images => row[k] = k
      BY <2>2 DEF ContentInv, ImageBytes
    <2> HIDE DEF st, k
    <2>4. /\ \A x \in ImageStations : link'[x] = IF x = st THEN k ELSE link[x]
          /\ \A x \in ImageStations :
               image_sha256'[x] = IF x # st THEN image_sha256[x]
                                  ELSE IF k = Default THEN Nothing ELSE k
      BY <1>0, <2>2
    <2> QED
      BY <1>0, <1>1, <2>1, <2>2, <2>3, <2>4 DEF HashHasLink
  <1>7. \/ UNCHANGED <<row, link, image_sha256>>
        \/ \E p \in Processes : SyncSave(p) \/ SyncRemoveRow(p)
        \/ \E i \in Importers : ImportSave(i) \/ ImportLink(i)
    BY DEF AssetNext, assetVars, Sync, Import, CleanupStep, StartProcess, SyncLook, SyncPut,
       SyncList, SyncRemoveObject, SyncEnds, SyncStops, ImportLook, ImportPut, ImportStops,
       CleanupObjects, CleanupRows, CleanupDelete, CleanupEnds, CleanupStops
  <1> QED
    BY <1>2, <1>3, <1>4, <1>5, <1>6, <1>7

\* A station that remembers the hash of a provider's image is linked to that
\* image, so the unchanged hash is a reason not to fetch it again.
THEOREM HashesHaveLinks == AssetSpec => []HashHasLink
  <1>1. AssetInit => HashHasLink
    BY DEF AssetInit, HashHasLink
  <1> QED
    BY <1>1, InitPlaces, PlacesStep, InitContent, ContentStep, LinkStep, PTL DEF AssetSpec
=============================================================================
