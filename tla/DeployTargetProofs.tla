-------------------------- MODULE DeployTargetProofs --------------------------
(***************************************************************************)
(* Proofs about DeployTarget for every set of recipes and paths, whatever  *)
(* is on the target, and for any number of sessions that are cut.          *)
(***************************************************************************)
EXTENDS DeployTarget, TLAPS

Entries(r) == manifest[r].entries

(* The parts of the type invariant. *)
SessionType ==
  /\ dpPc \in {"idle", "remove", "removed", "preserve", "extract", "restore"}
  /\ dpRecipe \in Recipe \cup {NoRecipe}
  /\ rest \subseteq Recipe /\ dpList \subseteq Path /\ dpTodo \subseteq Path
  /\ cuts \in 0..MaxCuts /\ spoiled \subseteq Recipe
FlagType == deploying \in BOOLEAN
TargetType == target \in [Path -> Content]
ManifestType == manifest \in [Recipe -> [entries : SUBSET Path,
                                        form : {"none", "relative", "absolute"}]]
PreserveType == preserve \in [Recipe -> [Path -> Content]]

(* What a session and the manifests speak of: paths of their own recipe. *)
SessionInv ==
  /\ dpPc # "idle" => dpRecipe \in Recipe /\ dpList \subseteq Delivers[dpRecipe]
  /\ \A r \in Recipe :
       /\ Entries(r) \subseteq Delivers[r]
       /\ manifest[r].form = "none" => Entries(r) = {}
       /\ manifest[r].form = "relative" =>
            r \in spoiled \/ (dpPc = "extract" /\ dpRecipe = r)
       /\ \A p \in Path : preserve[r][p] # "none" => p \in Delivers[r]
  /\ dpPc = "remove" => dpTodo \subseteq Entries(dpRecipe)
  /\ dpPc \in {"removed", "preserve", "restore"} => manifest[dpRecipe].form = "none"
  /\ dpPc \in {"preserve", "extract"} => dpTodo \subseteq dpList
  /\ dpPc = "restore" => ~deploying
  /\ dpPc # "idle" /\ ~deploying => dpList = {}
  /\ dpPc = "extract" => /\ manifest[dpRecipe].form = "relative"
                         /\ Entries(dpRecipe) \subseteq dpList

(* Where the content of one path can be: what a recipe has installed is in  *)
(* its manifest, what was there before is not, and is moved away before     *)
(* anything is unpacked over it.                                            *)
PathInv(p) ==
  /\ target[p] = "orig" => Before[p] = "file"
  /\ \A r \in Recipe :
       /\ preserve[r][p] \in {"none", "orig"}
       /\ preserve[r][p] = "orig" => Before[p] = "file"
       /\ p \in Entries(r) => target[p] # "orig"
       /\ target[p] = r => /\ p \in Entries(r)
                           /\ dpPc = "remove" /\ dpRecipe = r => p \in dpTodo
  /\ dpPc = "preserve" /\ p \in dpList \ dpTodo => target[p] # "orig"
  /\ dpPc = "extract" /\ p \in dpList => target[p] # "orig"
  /\ dpPc = "restore" => (p \in dpTodo <=> preserve[dpRecipe][p] = "orig")
  /\ Before[p] = "file" => target[p] = "orig" \/ \E r \in Recipe : preserve[r][p] = "orig"

Followed(p) == Ordinary(p) /\ Before[p] \in {"none", "file"}
PlaceInv == \A p \in Path : Followed(p) => PathInv(p)

Types == SessionType /\ FlagType /\ TargetType /\ ManifestType /\ PreserveType
DInv == Types /\ SessionInv /\ PlaceInv

USE DeployAssumption

(* In the initial state nothing is deployed. *)
LEMMA InitDInv == DpInit => DInv
<1> SUFFICES ASSUME DpInit PROVE DInv
  OBVIOUS
<1> USE DEF DpInit, Entries, Content, NoManifest, Kinds
<1>1. Types
  <2>1. SessionType
    BY DEF SessionType
  <2>4. FlagType
    BY DEF FlagType
  <2>2. TargetType /\ ManifestType
    BY DEF TargetType, ManifestType
  <2>3. PreserveType
    BY DEF PreserveType
  <2> QED BY <2>1, <2>2, <2>3, <2>4 DEF Types
<1>2. SessionInv
  BY DEF SessionInv
<1>3. PlaceInv
  BY DEF PlaceInv, PathInv, Followed
<1> QED BY <1>1, <1>2, <1>3 DEF DInv

(* Paths are not followed any more once their session was cut. *)
LEMMA FollowedBefore ==
  ASSUME NEW p \in Path, spoiled \subseteq spoiled', Followed(p)'
  PROVE  Followed(p)
BY DEF Followed, Ordinary, Exclusive, Spoiled

(* Every step of a session preserves the type and SessionInv. *)
LEMMA NextSession == DInv /\ [DpNext]_dpVars => Types' /\ SessionInv' /\ spoiled \subseteq spoiled'
<1> SUFFICES ASSUME DInv, [DpNext]_dpVars
             PROVE  Types' /\ SessionInv' /\ spoiled \subseteq spoiled'
  OBVIOUS
<1> DEFINE Goal == Types' /\ SessionInv' /\ spoiled \subseteq spoiled'
<1> USE DEF DInv, Types, SessionType, FlagType, TargetType, ManifestType, PreserveType,
            SessionInv, Entries, Content, NoManifest, session, dpHistory,
            Finished, Enter
<1>1. ASSUME NEW r \in Recipe, Deploy(r) PROVE Goal
  BY <1>1 DEF Deploy
<1>2. ASSUME NEW r \in Recipe, Undeploy(r) PROVE Goal
  BY <1>2 DEF Undeploy
<1>3. CASE UndeployAll
  <2>1. Types'
    <3>1. SessionType'
      BY <1>3 DEF UndeployAll
    <3>2. TargetType'
      BY <1>3 DEF UndeployAll
    <3>5. FlagType'
      BY <1>3 DEF UndeployAll
    <3>3. ManifestType'
      BY <1>3 DEF UndeployAll
    <3>4. PreserveType'
      BY <1>3 DEF UndeployAll
    <3> QED BY <3>1, <3>2, <3>3, <3>4, <3>5
  <2>2. SessionInv'
    BY <1>3 DEF UndeployAll
  <2>3. spoiled \subseteq spoiled'
    BY <1>3 DEF UndeployAll
  <2> QED BY <2>1, <2>2, <2>3
<1>4. CASE ForgetManifest
  BY <1>4 DEF ForgetManifest
<1>5. CASE CheckSpace
  BY <1>5 DEF CheckSpace
<1>6. CASE StartExtract
  BY <1>6 DEF StartExtract
<1>7. CASE Absolute
  <2>1. Types'
    <3>1. SessionType'
      BY <1>7 DEF Absolute
    <3>2. TargetType'
      BY <1>7 DEF Absolute
    <3>5. FlagType'
      BY <1>7 DEF Absolute
    <3>3. ManifestType'
      BY <1>7 DEF Absolute
    <3>4. PreserveType'
      BY <1>7 DEF Absolute
    <3> QED BY <3>1, <3>2, <3>3, <3>4, <3>5
  <2>2. SessionInv'
    BY <1>7 DEF Absolute
  <2>3. spoiled \subseteq spoiled'
    BY <1>7 DEF Absolute
  <2> QED BY <2>1, <2>2, <2>3
<1>8. CASE StartRestore
  BY <1>8 DEF StartRestore
<1>9. CASE Purge
  <2>1. Types'
    <3>1. SessionType'
      BY <1>9 DEF Purge
    <3>2. TargetType'
      BY <1>9 DEF Purge
    <3>5. FlagType'
      BY <1>9 DEF Purge
    <3>3. ManifestType'
      BY <1>9 DEF Purge
    <3>4. PreserveType'
      BY <1>9 DEF Purge
    <3> QED BY <3>1, <3>2, <3>3, <3>4, <3>5
  <2>2. CASE rest = {}
    BY <1>9, <2>1, <2>2 DEF Purge
  <2>3. ASSUME rest # {}, NEW r \in rest, Enter(r) PROVE Goal
    BY <1>9, <2>1, <2>3 DEF Purge
  <2> QED BY <1>9, <2>2, <2>3 DEF Purge
<1>10. CASE Cut
  <2>1. Types'
    <3>1. SessionType'
      BY <1>10 DEF Cut
    <3>2. TargetType'
      BY <1>10 DEF Cut
    <3>5. FlagType'
      BY <1>10 DEF Cut
    <3>3. ManifestType'
      BY <1>10 DEF Cut
    <3>4. PreserveType'
      BY <1>10 DEF Cut
    <3> QED BY <3>1, <3>2, <3>3, <3>4, <3>5
  <2>2. SessionInv'
    BY <1>10 DEF Cut
  <2>3. spoiled \subseteq spoiled'
    BY <1>10 DEF Cut
  <2> QED BY <2>1, <2>2, <2>3
<1>11. ASSUME NEW p \in Path, RemoveEntry(p) PROVE Goal
  BY <1>11 DEF RemoveEntry
<1>12. ASSUME NEW p \in Path, Preserve(p) PROVE Goal
  <2>1. CASE Exists(p)
    <3>0. /\ dpRecipe \in Recipe /\ p \in Delivers[dpRecipe] /\ target[p] \in Content
          /\ preserve' = [preserve EXCEPT ![dpRecipe][p] = target[p]]
      BY <1>12, <2>1 DEF Preserve
    <3>4. \A r \in Recipe, q \in Path :
            preserve'[r][q] = IF r = dpRecipe /\ q = p THEN target[p] ELSE preserve[r][q]
      BY <3>0
    <3>1. PreserveType'
      BY <3>0
    <3>2. SessionType' /\ FlagType' /\ TargetType' /\ ManifestType'
      BY <1>12, <2>1 DEF Preserve
    <3>3. SessionInv' /\ spoiled \subseteq spoiled'
      BY <1>12, <2>1, <3>0, <3>4 DEF Preserve
    <3> QED BY <3>1, <3>2, <3>3
  <2>2. CASE ~Exists(p)
    BY <1>12, <2>2 DEF Preserve
  <2> QED BY <2>1, <2>2
<1>13. ASSUME NEW p \in Path, Extract(p) PROVE Goal
  <2>1. SessionType' /\ FlagType' /\ TargetType' /\ PreserveType'
    BY <1>13 DEF Extract
  <2>2. ManifestType'
    BY <1>13 DEF Extract
  <2>3. /\ \A r \in Recipe : manifest'[r].form = manifest[r].form
        /\ \A r \in Recipe \ {dpRecipe} : manifest'[r] = manifest[r]
        /\ manifest'[dpRecipe].entries = Entries(dpRecipe) \cup {p}
    BY <1>13 DEF Extract
  <2>4. /\ dpPc = "extract" /\ dpRecipe \in Recipe
        /\ p \in dpTodo /\ p \in dpList /\ p \in Delivers[dpRecipe]
        /\ UNCHANGED <<dpPc, dpRecipe, deploying, dpList, preserve, spoiled>>
        /\ dpTodo' = dpTodo \ {p}
    BY <1>13 DEF Extract
  <2>5. SessionInv' /\ spoiled \subseteq spoiled'
    <3>1. ASSUME NEW r \in Recipe
          PROVE  /\ manifest'[r].entries \subseteq Delivers[r]
                 /\ manifest'[r].form = "none" => manifest'[r].entries = {}
                 /\ manifest'[r].form = "relative" =>
                      r \in spoiled' \/ (dpPc' = "extract" /\ dpRecipe' = r)
                 /\ \A q \in Path : preserve'[r][q] # "none" => q \in Delivers[r]
      <4>1. CASE r = dpRecipe
        BY <2>3, <2>4, <4>1
      <4>2. CASE r # dpRecipe
        BY <2>3, <2>4, <4>2
      <4> QED BY <4>1, <4>2
    <3>2. manifest'[dpRecipe].entries \subseteq dpList
      BY <2>3, <2>4
    <3>3. /\ dpRecipe' \in Recipe /\ dpList' \subseteq Delivers[dpRecipe]
          /\ dpTodo' \subseteq dpList' /\ dpPc' = "extract"
          /\ manifest'[dpRecipe].form = "relative"
          /\ ~deploying' => dpList' = {}
      BY <2>3, <2>4
    <3> QED BY <2>4, <3>1, <3>2, <3>3
  <2> QED BY <2>1, <2>2, <2>5
<1>14. ASSUME NEW p \in Path, Restore(p) PROVE Goal
  BY <1>14 DEF Restore
<1>15. CASE UNCHANGED dpVars
  BY <1>15 DEF dpVars
<1> QED
  BY <1>1, <1>2, <1>3, <1>4, <1>5, <1>6, <1>7, <1>8, <1>9, <1>10, <1>11, <1>12, <1>13,
     <1>14, <1>15 DEF DpNext

(* Every step of a session preserves PathInv for the paths it follows. *)
LEMMA NextPlace ==
  ASSUME DInv, [DpNext]_dpVars, NEW f \in Path, Followed(f)
  PROVE  PathInv(f)'
<1> USE DEF DInv, Types, SessionType, FlagType, TargetType, ManifestType, PreserveType,
            SessionInv, PlaceInv, PathInv, Entries, Content, NoManifest,
            session, dpHistory, Finished, Enter
<1>0. PathInv(f) /\ Exclusive(f) /\ ~Spoiled(f) /\ Delivered[f] # "dirlink"
      /\ Before[f] \in {"none", "file"}
  BY DEF Followed, Ordinary
<1>1. ASSUME NEW r \in Recipe, Deploy(r) PROVE PathInv(f)'
  BY <1>0, <1>1 DEF Deploy
<1>2. ASSUME NEW r \in Recipe, Undeploy(r) PROVE PathInv(f)'
  BY <1>0, <1>2 DEF Undeploy
<1>3. CASE UndeployAll
  BY <1>0, <1>3 DEF UndeployAll
<1>4. CASE ForgetManifest
  BY <1>0, <1>4 DEF ForgetManifest
<1>5. CASE CheckSpace
  BY <1>0, <1>5 DEF CheckSpace
<1>6. CASE StartExtract
  BY <1>0, <1>6 DEF StartExtract
<1>7. CASE Absolute
  BY <1>0, <1>7 DEF Absolute
<1>8. CASE StartRestore
  BY <1>0, <1>8 DEF StartRestore, KindOf
<1>9. CASE Purge
  BY <1>0, <1>9 DEF Purge
<1>10. CASE Cut
  BY <1>0, <1>10 DEF Cut
<1>11. ASSUME NEW p \in Path, RemoveEntry(p) PROVE PathInv(f)'
  BY <1>0, <1>11 DEF RemoveEntry, IsDir, KindOf, Spoiled
<1>12. ASSUME NEW p \in Path, Preserve(p) PROVE PathInv(f)'
  <2>1. p \in Delivers[dpRecipe] /\ Entries(dpRecipe) = {} /\ dpRecipe \in Recipe
    BY <1>12 DEF Preserve
  <2>2. p = f => target[f] \in {"none", "orig"}
    BY <1>0, <2>1 DEF Exclusive
  <2>3. p = f => (Exists(f) <=> target[f] = "orig")
    BY <1>0, <2>2 DEF Exists, KindOf
  <2>4. ASSUME NEW r \in Recipe
        PROVE  preserve'[r][f] = IF r = dpRecipe /\ p = f /\ Exists(f) THEN target[f]
                                 ELSE preserve[r][f]
    BY <1>12, <2>1 DEF Preserve
  <2>5. target'[f] = IF p = f /\ Exists(f) THEN "none" ELSE target[f]
    BY <1>12 DEF Preserve
  <2>6. dpPc' = "preserve" /\ dpTodo' = dpTodo \ {p} /\ UNCHANGED <<dpList, dpRecipe, manifest>>
    BY <1>12 DEF Preserve
  <2>7. CASE p = f /\ target[f] = "orig"
    <3>1. preserve'[dpRecipe][f] = "orig" /\ target'[f] = "none" /\ dpPc = "preserve"
      BY <1>12, <2>1, <2>3, <2>4, <2>5, <2>7 DEF Preserve
    <3>2. \A r \in Recipe : preserve'[r][f] \in {"none", "orig"}
      BY <1>0, <2>1, <2>3, <2>4, <2>7
    <3> QED BY <1>0, <2>1, <2>6, <2>7, <3>1, <3>2
  <2>8. CASE p = f /\ target[f] = "none"
    <3>1. target'[f] = target[f] /\ dpPc = "preserve"
      BY <1>12, <2>3, <2>5, <2>8 DEF Preserve
    <3>2. \A r \in Recipe : preserve'[r][f] = preserve[r][f]
      BY <2>3, <2>4, <2>8
    <3>3. target'[f] = "none" /\ \A r \in Recipe : target'[f] # r
      BY <2>8, <3>1
    <3>4. Before[f] = "file" => \E r \in Recipe : preserve'[r][f] = "orig"
      BY <1>0, <2>8, <3>2
    <3> QED BY <1>0, <2>1, <2>6, <3>2, <3>3, <3>4
  <2>9. CASE p # f
    <3>1. target'[f] = target[f] /\ dpPc = "preserve"
      BY <1>12, <2>5, <2>9 DEF Preserve
    <3>2. \A r \in Recipe : preserve'[r][f] = preserve[r][f]
      BY <2>4, <2>9
    <3> QED BY <1>0, <2>1, <2>6, <2>9, <3>1, <3>2, SMTT(20)
  <2> QED BY <2>2, <2>7, <2>8, <2>9
<1>13. ASSUME NEW p \in Path, Extract(p) PROVE PathInv(f)'
  BY <1>0, <1>13 DEF Extract
<1>14. ASSUME NEW p \in Path, Restore(p) PROVE PathInv(f)'
  BY <1>0, <1>14 DEF Restore, Exclusive
<1>15. CASE UNCHANGED dpVars
  BY <1>0, <1>15 DEF dpVars
<1> QED
  BY <1>1, <1>2, <1>3, <1>4, <1>5, <1>6, <1>7, <1>8, <1>9, <1>10, <1>11, <1>12, <1>13,
     <1>14, <1>15 DEF DpNext

(* DInv holds in every reachable state. *)
THEOREM DeployInvariance == DpSpec => []DInv
<1>1. DInv /\ [DpNext]_dpVars => DInv'
  <2> SUFFICES ASSUME DInv, [DpNext]_dpVars PROVE DInv'
    OBVIOUS
  <2>1. Types' /\ SessionInv' /\ spoiled \subseteq spoiled'
    BY NextSession
  <2>2. ASSUME NEW p \in Path, Followed(p)' PROVE PathInv(p)'
    BY <2>1, <2>2, FollowedBefore, NextPlace
  <2> QED BY <2>1, <2>2 DEF DInv, PlaceInv
<1> QED BY <1>1, InitDInv, PTL DEF DpSpec

(* Type correctness of the target, the manifests and the preserved files. *)
THEOREM DeployTypeCorrect == DpSpec => []DpTypeOK
<1>1. DInv => DpTypeOK
  BY DEF DInv, DpTypeOK, Types, SessionType, FlagType, TargetType, ManifestType, PreserveType
<1> QED BY <1>1, DeployInvariance, PTL

(* A file that was there before is never overwritten. *)
THEOREM OriginalsAreKept == DpSpec => []OriginalKept
<1>1. DInv => OriginalKept
  BY DEF DInv, PlaceInv, PathInv, Followed, OriginalKept
<1> QED BY <1>1, DeployInvariance, PTL

(* The last step of undeploying a recipe leaves the target as it was.       *)
THEOREM UndeployingRestores == DpSpec => UndeployRestores
<1>1. DInv /\ [DpNext]_dpVars =>
        [dpPc = "restore" /\ dpTodo = {} =>
           \A p \in Delivers[dpRecipe] :
             Ordinary(p) /\ Before[p] \in {"none", "file"} =>
               target'[p] = IF Before[p] = "none" THEN "none" ELSE "orig"]_dpVars
  <2> SUFFICES ASSUME DInv, [DpNext]_dpVars, dpPc = "restore", dpTodo = {},
                      NEW p \in Delivers[dpRecipe], Followed(p)
               PROVE  target'[p] = (IF Before[p] = "none" THEN "none" ELSE "orig")
                      \/ UNCHANGED dpVars
    BY DEF Followed
  <2>1. p \in Path /\ dpRecipe \in Recipe /\ manifest[dpRecipe].form = "none"
    BY DEF DInv, SessionInv
  <2>2. PathInv(p) /\ Exclusive(p)
    BY <2>1 DEF DInv, PlaceInv, Followed, Ordinary
  <2>3. target[p] = (IF Before[p] = "none" THEN "none" ELSE "orig")
    BY <2>1, <2>2 DEF DInv, Types, TargetType, SessionInv, PathInv, Exclusive, Content, Followed,
                      Entries
  <2>4. target' = target
    BY DEF DpNext, Deploy, Undeploy, UndeployAll, ForgetManifest, CheckSpace, StartExtract,
           Absolute, StartRestore, Purge, Cut, RemoveEntry, Preserve, Extract, Restore,
           dpVars
  <2> QED BY <2>3, <2>4
<1> QED BY <1>1, DeployInvariance, PTL DEF DpSpec, UndeployRestores
===============================================================================
