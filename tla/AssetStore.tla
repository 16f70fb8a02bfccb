----------------------------- MODULE AssetStore -----------------------------
(***************************************************************************)
(* The images: objects in the bucket, their rows in the assets table and   *)
(* the links of the stations.  No transaction spans the bucket and the     *)
(* table.  Every process syncs the images its build bundles when it starts *)
(* (sync_builtin_images), imports store provider images under the hash of  *)
(* their bytes (sync_station_image, store_provider_image), and the cleanup *)
(* job deletes objects that have no row.                                   *)
(*                                                                         *)
(* An object and a row are told by their key and by the hash of the bytes; *)
(* a provider image's key is its hash.                                     *)
(***************************************************************************)
EXTENDS Naturals

CONSTANTS
  Processes,      \* starting processes; each has a build
  Bundle,         \* the images of its build: builtin keys to hashes
  Builtins,       \* keys builtin/...
  Default,        \* DEFAULT_IMAGE_OBJECT_KEY
  Images,         \* hashes of provider images, and their keys provider/...
  Hashes,
  Importers,      \* the workers that sync stations
  ImageStations,
  MaxStops,       \* bound: cleanups cancelled, failed or crashed
  Nothing

ASSUME AssetAssumption ==
  /\ Default \in Builtins
  /\ Images \subseteq Hashes
  /\ MaxStops \in Nat
  /\ Builtins \cap Hashes = {} /\ Nothing \notin Builtins \cup Hashes
  /\ Bundle \in [Processes -> [Builtins -> Hashes \cup {Nothing}]]

Keys == Builtins \cup Images

VARIABLES
  object,         \* the bucket: hash of the bytes at a key
  row,            \* assets.sha256 at a key
  link,           \* counting_stations.image_asset_id, as the asset's key
  image_sha256,   \* counting_stations.image_sha256
  sync,           \* where each process' sync is
  todo,           \*   the bundled images it has not looked at
  listed,         \*   the rows it found bundled no more
  key,            \*   the image it is at
  ipc,            \* where each importer's station is
  image,          \*   the station and the image it is at
  cleanup,        \* where the cleanup job is
  found,          \*   the objects it listed
  orphans,        \*   those it will delete
  stops,          \*   how often it was cut short
  raced,          \* history: keys uploaded and deleted at the same time
  torn            \* history: builtin keys with an upload cut short or shared

syncVars == <<sync, todo, listed, key>>
importVars == <<ipc, image>>
cleanupVars == <<cleanup, found, orphans, stops>>
assetVars == <<object, row, link, image_sha256, syncVars, importVars,
               cleanupVars, raced, torn>>

-----------------------------------------------------------------------------

AssetInit ==
  /\ object = [k \in Keys |-> Nothing]
  /\ row = [k \in Keys |-> Nothing]
  /\ link = [st \in ImageStations |-> Nothing]
  /\ image_sha256 = [st \in ImageStations |-> Nothing]
  /\ sync = [p \in Processes |-> "idle"]
  /\ todo = [p \in Processes |-> {}]
  /\ listed = [p \in Processes |-> {}]
  /\ key = [p \in Processes |-> Nothing]
  /\ ipc = [i \in Importers |-> "idle"]
  /\ image = [i \in Importers |-> <<Nothing, Nothing>>]
  /\ cleanup = "idle" /\ found = {} /\ orphans = {} /\ stops = 0
  /\ raced = {} /\ torn = {}

ObjectKeys == {k \in Keys : object[k] # Nothing}

\* Mutation: only the images of stations are asked for.
RowKeysOfProviders == {k \in Images : row[k] # Nothing}

RowKeys == {k \in Keys : row[k] # Nothing}

\* Who is between the upload of an object and its row.
Saving(p, k) == sync[p] = "save" /\ key[p] = k
ImportSaving(i, k) == ipc[i] = "save" /\ image[i][2] = k

Uploading(k) ==
  (\E p \in Processes : Saving(p, k)) \/ (\E i \in Importers : ImportSaving(i, k))

\* Who is going to delete the object of a key.
Condemned(k) ==
  k \in orphans \/ \E p \in Processes : sync[p] = "object" /\ key[p] = k

\* Mutation: the arguments are swapped.
PutSwapped(k, hash) == object' = [object EXCEPT ![k] = k]

Put(k, hash) == object' = [object EXCEPT ![k] = hash]

\* Mutation: the conflict on the key keeps the row as it is.
SavedRowKept(k, hash) == IF row[k] = Nothing THEN hash ELSE row[k]

SavedRow(k, hash) == hash

\* ON CONFLICT (object_key) DO UPDATE.
Save(k, hash) ==
  /\ row' = [row EXCEPT ![k] = SavedRow(k, hash)]
  /\ raced' = IF Condemned(k) THEN raced \cup {k} ELSE raced

DeleteObject(k) ==
  /\ object' = [object EXCEPT ![k] = Nothing]
  /\ raced' = IF Uploading(k) THEN raced \cup {k} ELSE raced

\* ON DELETE SET NULL.
Unlinked(k) == [st \in ImageStations |-> IF link[st] = k THEN Nothing ELSE link[st]]

-----------------------------------------------------------------------------
(* A process starts and syncs the images of its build                       *)

GoSync(p, label) == sync' = [sync EXCEPT ![p] = label]

Bundled(p) == {k \in Builtins : Bundle[p][k] # Nothing}

StartProcess(p) ==
  /\ sync[p] = "idle"
  /\ GoSync(p, "look")
  /\ todo' = [todo EXCEPT ![p] = Bundled(p)]
  /\ UNCHANGED <<object, row, link, image_sha256, listed, key, importVars,
                 cleanupVars, raced, torn>>

\* The row of the next image: up to date, or to be stored.
SyncLook(p) ==
  /\ sync[p] = "look"
  /\ \E k \in todo[p] :
       /\ todo' = [todo EXCEPT ![p] = @ \ {k}]
       /\ IF row[k] = Bundle[p][k]
          THEN UNCHANGED <<sync, key>>
          ELSE GoSync(p, "put") /\ key' = [key EXCEPT ![p] = k]
  /\ UNCHANGED <<object, row, link, image_sha256, listed, importVars,
                 cleanupVars, raced, torn>>

SyncPut(p) ==
  /\ sync[p] = "put"
  /\ Put(key[p], Bundle[p][key[p]])
  /\ torn' = IF Uploading(key[p]) THEN torn \cup {key[p]} ELSE torn
  /\ GoSync(p, "save")
  /\ UNCHANGED <<row, link, image_sha256, todo, listed, key, importVars,
                 cleanupVars, raced>>

SyncSave(p) ==
  /\ sync[p] = "save"
  /\ Save(key[p], Bundle[p][key[p]])
  /\ GoSync(p, "look")
  /\ key' = [key EXCEPT ![p] = Nothing]
  /\ UNCHANGED <<object, link, image_sha256, todo, listed, importVars,
                 cleanupVars, torn>>

\* Mutation: every asset that is not bundled is removed.
NotBundledAny(p) == RowKeys \ Bundled(p)

NotBundled(p) == (RowKeys \cap Builtins) \ Bundled(p)

\* repository.list.
SyncList(p) ==
  /\ sync[p] = "look" /\ todo[p] = {}
  /\ listed' = [listed EXCEPT ![p] = NotBundled(p)]
  /\ GoSync(p, "row")
  /\ UNCHANGED <<object, row, link, image_sha256, todo, key, importVars,
                 cleanupVars, raced, torn>>

\* The row goes first, the object in a step of its own.
SyncRemoveRow(p) ==
  /\ sync[p] = "row"
  /\ \E k \in listed[p] :
       /\ row' = [row EXCEPT ![k] = Nothing]
       /\ link' = Unlinked(k)
       /\ listed' = [listed EXCEPT ![p] = @ \ {k}]
       /\ key' = [key EXCEPT ![p] = k]
  /\ GoSync(p, "object")
  /\ UNCHANGED <<object, image_sha256, todo, importVars, cleanupVars, raced, torn>>

SyncRemoveObject(p) ==
  /\ sync[p] = "object"
  /\ DeleteObject(key[p])
  /\ key' = [key EXCEPT ![p] = Nothing]
  /\ GoSync(p, "row")
  /\ UNCHANGED <<row, link, image_sha256, todo, listed, importVars,
                 cleanupVars, torn>>

SyncEnds(p) ==
  /\ sync[p] = "row" /\ listed[p] = {}
  /\ GoSync(p, "idle")
  /\ UNCHANGED <<object, row, link, image_sha256, todo, listed, key,
                 importVars, cleanupVars, raced, torn>>

\* A failing call ends the sync, which is only logged; or the process dies.
SyncStops(p) ==
  /\ sync[p] # "idle"
  /\ torn' = torn \cup {k \in Builtins : Saving(p, k)}
  /\ GoSync(p, "idle")
  /\ todo' = [todo EXCEPT ![p] = {}]
  /\ listed' = [listed EXCEPT ![p] = {}]
  /\ key' = [key EXCEPT ![p] = Nothing]
  /\ UNCHANGED <<object, row, link, image_sha256, importVars, cleanupVars, raced>>

-----------------------------------------------------------------------------
(* An import syncs the image of a station                                   *)

GoImport(i, label) == ipc' = [ipc EXCEPT ![i] = label]

\* No image: the default.  A hash the station has already: nothing to do.
\* Another hash: the image is fetched, and its row looked up.
ImportLook(i) ==
  /\ ipc[i] = "idle"
  /\ row[Default] # Nothing
  /\ \E st \in ImageStations :
       \/ image' = [image EXCEPT ![i] = <<st, Default>>] /\ GoImport(i, "link")
       \/ \E h \in Images \ {image_sha256[st]} :
            /\ image' = [image EXCEPT ![i] = <<st, h>>]
            /\ GoImport(i, IF row[h] # Nothing THEN "link" ELSE "put")
  /\ UNCHANGED <<object, row, link, image_sha256, syncVars, cleanupVars, raced, torn>>

ImportPut(i) ==
  /\ ipc[i] = "put"
  /\ Put(image[i][2], image[i][2])
  /\ GoImport(i, "save")
  /\ UNCHANGED <<row, link, image_sha256, syncVars, image, cleanupVars, raced, torn>>

ImportSave(i) ==
  /\ ipc[i] = "save"
  /\ Save(image[i][2], image[i][2])
  /\ GoImport(i, "link")
  /\ UNCHANGED <<object, link, image_sha256, syncVars, image, cleanupVars, torn>>

\* The station's row is saved: the link is a foreign key.
ImportLink(i) ==
  /\ ipc[i] = "link"
  /\ LET st == image[i][1]
         k == image[i][2]
     IN  /\ row[k] # Nothing
         /\ link' = [link EXCEPT ![st] = k]
         /\ image_sha256' = [image_sha256 EXCEPT ![st] = IF k = Default THEN Nothing ELSE k]
  /\ GoImport(i, "idle")
  /\ image' = [image EXCEPT ![i] = <<Nothing, Nothing>>]
  /\ UNCHANGED <<object, row, syncVars, cleanupVars, raced, torn>>

\* A failing call, or a crash: the import ends.
ImportStops(i) ==
  /\ ipc[i] # "idle"
  /\ GoImport(i, "idle")
  /\ image' = [image EXCEPT ![i] = <<Nothing, Nothing>>]
  /\ UNCHANGED <<object, row, link, image_sha256, syncVars, cleanupVars, raced, torn>>

-----------------------------------------------------------------------------
(* The cleanup job (run_cleanup)                                            *)

\* The objects are listed first.
CleanupObjects ==
  /\ cleanup = "idle"
  /\ cleanup' = "rows"
  /\ found' = ObjectKeys
  /\ UNCHANGED <<object, row, link, image_sha256, syncVars, importVars,
                 orphans, stops, raced, torn>>

\* Mutation: the rows without an object, instead of the reverse.
OrphansReversed == RowKeys \ found

Orphans == found \ RowKeys

CleanupRows ==
  /\ cleanup = "rows"
  /\ cleanup' = "delete"
  /\ orphans' = Orphans
  /\ found' = {}
  /\ UNCHANGED <<object, row, link, image_sha256, syncVars, importVars, stops,
                 raced, torn>>

CleanupDelete ==
  /\ cleanup = "delete"
  /\ \E k \in orphans :
       /\ DeleteObject(k)
       /\ orphans' = orphans \ {k}
  /\ UNCHANGED <<row, link, image_sha256, syncVars, importVars, cleanup, found,
                 stops, torn>>

CleanupEnds ==
  /\ cleanup = "delete" /\ orphans = {}
  /\ cleanup' = "idle"
  /\ UNCHANGED <<object, row, link, image_sha256, syncVars, importVars,
                 found, orphans, stops, raced, torn>>

\* Cancelled, failed or crashed.
CleanupStops ==
  /\ cleanup # "idle"
  /\ stops < MaxStops /\ stops' = stops + 1
  /\ cleanup' = "idle" /\ found' = {} /\ orphans' = {}
  /\ UNCHANGED <<object, row, link, image_sha256, syncVars, importVars, raced, torn>>

-----------------------------------------------------------------------------

Sync(p) ==
  \/ StartProcess(p)
  \/ SyncLook(p) \/ SyncPut(p) \/ SyncSave(p)
  \/ SyncList(p) \/ SyncRemoveRow(p) \/ SyncRemoveObject(p) \/ SyncEnds(p)
  \/ SyncStops(p)

Import(i) ==
  \/ ImportLook(i) \/ ImportPut(i) \/ ImportSave(i) \/ ImportLink(i)
  \/ ImportStops(i)

CleanupStep == CleanupObjects \/ CleanupRows \/ CleanupDelete \/ CleanupEnds

AssetNext ==
  \/ \E p \in Processes : Sync(p)
  \/ \E i \in Importers : Import(i)
  \/ CleanupStep \/ CleanupStops

AssetSpec == AssetInit /\ [][AssetNext]_assetVars

\* The cleanup job is scheduled again and again.
AssetFairSpec == AssetSpec /\ WF_assetVars(CleanupStep)

-----------------------------------------------------------------------------

AssetTypeOK ==
  /\ object \in [Keys -> Hashes \cup {Nothing}]
  /\ row \in [Keys -> Hashes \cup {Nothing}]
  /\ link \in [ImageStations -> Keys \cup {Nothing}]
  /\ image_sha256 \in [ImageStations -> Images \cup {Nothing}]
  /\ sync \in [Processes -> {"idle", "look", "put", "save", "row", "object"}]
  /\ todo \in [Processes -> SUBSET Builtins]
  /\ listed \in [Processes -> SUBSET Keys]
  /\ key \in [Processes -> Keys \cup {Nothing}]
  /\ ipc \in [Importers -> {"idle", "put", "save", "link"}]
  /\ image \in [Importers -> (ImageStations \cup {Nothing}) \X (Keys \cup {Nothing})]
  /\ cleanup \in {"idle", "rows", "delete"}
  /\ found \subseteq Keys /\ orphans \subseteq Keys /\ stops \in 0 .. MaxStops
  /\ raced \subseteq Keys /\ torn \subseteq Builtins

\* A row has its object: whatever crashes between an upload and its row or
\* between the two deletions, a row is left without content only if an upload
\* and a deletion of that key ran at the same time.
DanglingOnlyByRace ==
  \A k \in Keys : row[k] # Nothing /\ object[k] = Nothing => k \in raced

\* What is served under an asset's hash (its ETag) are the bytes of that hash,
\* unless an upload of a builtin image is under way, was cut short before its
\* row, or met another build's upload of the same key.
BytesMatchRow ==
  \A k \in Keys :
    row[k] # Nothing /\ object[k] # Nothing /\ object[k] # row[k] =>
      Uploading(k) \/ k \in torn

\* A station that remembers a provider image shows one.  Were its asset gone,
\* the unchanged hash would keep every later import from fetching it again.
HashHasLink ==
  \A st \in ImageStations :
    image_sha256[st] # Nothing =>
      link[st] = image_sha256[st] /\ row[link[st]] = image_sha256[st]

\* An object without a row is deleted or gets one, however often imports,
\* starting processes and the cleanup itself are cut short.
OrphansGo ==
  \A k \in Keys :
    object[k] # Nothing /\ row[k] = Nothing ~> object[k] = Nothing \/ row[k] # Nothing
=============================================================================
