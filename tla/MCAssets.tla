------------------------------ MODULE MCAssets -----------------------------
\* The assets, explored with the actors that can disturb one another.
EXTENDS AssetStore, TLC

CONSTANTS p, q, icon, logo, h1, h2, img, site, i1

VARIABLE part

fileVars == <<part, assetVars>>

MCBundle == p :> (icon :> h1 @@ logo :> h1) @@ q :> (icon :> h2 @@ logo :> Nothing)

\* Two processes of different builds, on one database.
Builds ==
  /\ part = "builds"
  /\ (\E x \in Processes : Sync(x)) \/ CleanupStep \/ CleanupStops

ImagesOfStations ==
  /\ part = "images"
  /\ \/ Sync(p)
     \/ \E i \in Importers : Import(i)
     \/ CleanupStep \/ CleanupStops

Init == AssetInit /\ part \in {"builds", "images"}
Next == (Builds \/ ImagesOfStations) /\ UNCHANGED part
Spec == Init /\ [][Next]_fileVars /\ WF_fileVars(CleanupStep /\ UNCHANGED part)
=============================================================================
