------------------------- MODULE RecipeSysrootProofs -------------------------
(***************************************************************************)
(* Proofs about RecipeSysroot, for every set of tasks, dependencies, files *)
(* and configurations: that its variables keep their types, that a later   *)
(* prefunc can clean up whatever an earlier one left, although a prefunc   *)
(* can raise at any of its checks, and that the bodies of tasks see their  *)
(* dependencies.                                                           *)
(***************************************************************************)
EXTENDS RecipeSysroot, TLAPS

FilesSteps == {"dangling_files", "unneeded_files", "stale_files"}
UnneededSteps == {"unneeded", "unneeded_files", "unneeded_link", "unneeded_complete"}
GoneSteps  == {"dangling_complete", "dangling_link", "unneeded_link", "stale_link"}
AboutSteps == {"check", "pool", "pool_write", "tman"}
CopySteps  == {"install", "copy", "bin"} \cup AboutSteps

(* The prefunc and its lock; where it is about a dependency, and with files *)
(* left to look at.                                                        *)
Shape ==
  /\ stamp = [t \in Task |-> stamp[t]]
  /\ (holder = None) <=> (step = "none")
  /\ holder # None => building
  /\ step \in FilesSteps \cup GoneSteps \cup {"unneeded_complete", "stale_complete"} \cup AboutSteps
       => cur \in Dep
  /\ step \in FilesSteps => link[cur] # None
  /\ step \in UnneededSteps => \A c \in todo : link[c] # None /\ (step # "unneeded" => c # cur)
  /\ step \in AboutSteps => link[cur] = Want(cur)
  /\ step \in RemoveSteps \ FilesSteps => left = {}

Listing ==
  \A f \in File : area[f] # None =>
    /\ link[area[f][1]] = area[f][2]
    /\ tman[area[f]] = "whole"
    /\ f \in Files[area[f][1]][area[f][2]]

(* The files of the dependency that is removed are all in left until they  *)
(* are gone, and gone when its manifest and its link go.                   *)
Removing ==
  /\ step \in FilesSteps =>
       \A f \in File : area[f] # None /\ area[f][1] = cur => <<cur, f>> \in left
  /\ step \in GoneSteps => \A f \in File : area[f] # None => area[f][1] # cur

(* Only the prefunc at work has a shared manifest that is not yet whole,   *)
(* and what is left to install is listed already.                          *)
Installing ==
  /\ \A d \in Dep \X Hash :
       pool[d] = "cut" => step = "pool_write" /\ d = <<cur, Want(cur)>>
  /\ step = "tman" => pool[<<cur, Want(cur)>>] # "none"
  /\ step \in CopySteps =>
       \A p \in left : /\ link[p[1]] = Want(p[1])
                       /\ tman[<<p[1], Want(p[1])>>] = "whole"
                       /\ p[2] \in Files[p[1]][Want(p[1])]

Sound == kills = 0 => Listing /\ Removing /\ Installing

IInv == TypeOK /\ Shape /\ Sound

USE ConstantsAssumption

(* A hash that a task wants is a hash, and manifests list files.           *)
LEMMA WantType == ASSUME TypeOK, NEW c \in Dep PROVE Want(c) \in Hash
BY DEF TypeOK, Want

LEMMA FilesType == ASSUME NEW c \in Dep, NEW h \in Hash PROVE Files[c][h] \subseteq File
<1>1. Files[c] \in [Hash -> SUBSET File]
  OBVIOUS
<1> QED BY <1>1

LEMMA ListedType ==
  ASSUME NEW c \in Dep, NEW h \in Hash
  PROVE  /\ Listed(<<c, h>>) \subseteq File
         /\ Listed(<<c, h>>) = IF tman[<<c, h>>] = "whole" THEN Files[c][h] ELSE {}
BY FilesType DEF Listed

LEMMA OpenType ==
  ASSUME TypeOK, NEW c \in Dep, link[c] \in Hash, NEW s, Open(c, s)
  PROVE  /\ left' \subseteq Dep \X File
         /\ cur' = c /\ step' = s /\ UNCHANGED <<holder, status>>
<1> DEFINE L == Listed(<<c, link[c]>>)
<1>1. L \subseteq File
  BY ListedType
<1>2. left' = {c} \X L
  BY DEF Open
<1> HIDE DEF L
<1>3. left' \subseteq Dep \X File
  BY <1>1, <1>2
<1> QED BY <1>3 DEF Open, Goto

(* A prefunc that raises leaves everything on disk, and no step behind.    *)
LEMMA RaiseType ==
  ASSUME TypeOK, Raise, UNCHANGED <<disk, sched, fails, kills>>
  PROVE  TypeOK'
BY DEF TypeOK, Raise, disk, sched

LEMMA TypeStep ==
  ASSUME TypeOK, Shape, [Next]_vars
  PROVE  TypeOK'
<1> USE DEF TypeOK, Shape, sched, local, disk, RemoveSteps, InstallSteps, FilesSteps,
            GoneSteps, AboutSteps
<1>1. CASE DanglingOpen
  <2> PICK c \in Dangling :
        IF Exists(c)
          THEN Open(c, "dangling_files") /\ UNCHANGED <<todo, fileset, new, invalid>>
          ELSE Raise
    BY <1>1 DEF DanglingOpen
  <2>1. CASE ~Exists(c)
    BY <1>1, <2>1, RaiseType DEF DanglingOpen
  <2>2. CASE Exists(c)
    <3>1. c \in Dep /\ link[c] \in Hash
      BY <2>2 DEF Exists, Dangling
    <3>2. left' \subseteq Dep \X File /\ cur' = c /\ UNCHANGED <<holder, status>>
      BY <2>2, <3>1, OpenType
    <3> QED BY <1>1, <2>2, <3>1, <3>2 DEF DanglingOpen, Open, Goto
  <2> QED BY <2>1, <2>2
<1>2. CASE RemoveFile
  BY <1>2 DEF RemoveFile
<1>3. CASE RemoveManifest
  BY <1>3 DEF RemoveManifest, Goto
<1>4. CASE UnlinkLink
  BY <1>4 DEF UnlinkLink, Goto
<1>5. CASE UnlinkComplete
  BY <1>5 DEF UnlinkComplete, Goto, Raise
<1>6. CASE DanglingDone
  BY <1>6 DEF DanglingDone, Goto
<1>7. CASE Invalidate
  <2>1. \A u \in Task : stamp'[u] \subseteq stamp[u]
    BY <1>7 DEF Invalidate
  <2>2. \A u \in Task : stamp'[u] \subseteq UNION {[D -> Hash] : D \in SUBSET Dep}
    BY <2>1, Zenon
  <2>3. todo' \subseteq Dep /\ invalid' \subseteq Task /\ step' \in {step, "unneeded"}
    BY <1>7 DEF Invalidate, Goto, Unneeded
  <2>4. UNCHANGED <<main, pool, tman, link, complete, index, area, holder, status, cur, left,
                    fileset, new, sched, fails, kills>>
    BY <1>7 DEF Invalidate, Goto
  <2> QED BY <2>2, <2>3, <2>4
<1>8. CASE UnneededOpen
  <2> PICK c \in todo : todo' = todo \ {c} /\ Open(c, "unneeded_files")
    BY <1>8 DEF UnneededOpen
  <2>1. c \in Dep /\ link[c] \in Hash
    BY <1>8 DEF UnneededOpen, UnneededSteps
  <2>2. left' \subseteq Dep \X File /\ cur' = c /\ UNCHANGED <<holder, status>>
    BY <2>1, OpenType
  <2> QED BY <1>8, <2>1, <2>2 DEF UnneededOpen, Open, Goto
<1>9. CASE UnneededDone
  BY <1>9 DEF UnneededDone, Goto, Deps
<1>10. CASE StaleOpen
  <2> PICK c \in todo :
        /\ todo' = todo \ {c}
        /\ IF Exists(c) /\ ~Current(c)
             THEN Open(c, "stale_files") /\ UNCHANGED link
             ELSE /\ link' = IF Exists(c) THEN link ELSE [link EXCEPT ![c] = None]
                  /\ UNCHANGED <<cur, left, step, holder, status>>
    BY <1>10 DEF StaleOpen
  <2>1. CASE ~(Exists(c) /\ ~Current(c))
    BY <1>10, <2>1 DEF StaleOpen
  <2>2. CASE Exists(c) /\ ~Current(c)
    <3>1. c \in Dep /\ link[c] \in Hash
      BY <2>2 DEF Exists
    <3>2. left' \subseteq Dep \X File /\ cur' = c /\ UNCHANGED <<holder, status>>
      BY <2>2, <3>1, OpenType
    <3> QED BY <1>10, <2>2, <3>1, <3>2 DEF StaleOpen, Open, Goto
  <2> QED BY <2>1, <2>2
<1>11. CASE StaleDone
  BY <1>11 DEF StaleDone, Goto, Deps
<1>12. CASE Install
  <2> PICK c \in todo :
        /\ todo' = todo \ {c}
        /\ IF Current(c)
             THEN UNCHANGED <<link, step, cur, holder, status>>
             ELSE /\ link[c] = None
                  /\ link' = [link EXCEPT ![c] = Want(c)]
                  /\ cur' = c /\ Goto("check")
    BY <1>12 DEF Install
  <2>1. c \in Dep /\ Want(c) \in Hash
    BY WantType
  <2>2. /\ link' = link \/ link' = [link EXCEPT ![c] = Want(c)]
        /\ cur' = cur \/ cur' = c
    OBVIOUS
  <2>3. step' \in {step, "check"} /\ UNCHANGED <<holder, status>> /\ todo' \subseteq Dep
    BY <1>12 DEF Goto
  <2>4. link' \in [Dep -> Hash \cup {None}]
    <3>1. link \in [Dep -> Hash \cup {None}]
      OBVIOUS
    <3>2. [link EXCEPT ![c] = Want(c)] \in [Dep -> Hash \cup {None}]
      BY <2>1, <3>1
    <3> QED BY <2>2, <3>1, <3>2, Zenon
  <2>5. cur' \in Dep \cup {None}
    BY <2>1, <2>2
  <2> QED BY <1>12, <2>3, <2>4, <2>5 DEF Install
<1>13. CASE CheckFiles
  <2>1. CASE Raise
    BY <1>13, <2>1, RaiseType DEF CheckFiles
  <2>2. CASE ~Raise
    <3>1. cur \in Dep /\ Want(cur) \in Hash
      BY <1>13, WantType DEF CheckFiles
    <3>2. Files[cur][Want(cur)] \subseteq File
      BY <3>1, FilesType
    <3> QED BY <1>13, <2>2, <3>1, <3>2 DEF CheckFiles, Goto
  <2> QED BY <2>1, <2>2
<1>14. CASE OpenPool
  BY <1>14 DEF OpenPool, Goto, Want
<1>15. CASE WritePool
  BY <1>15 DEF WritePool, Goto, Want
<1>16. CASE LinkManifest
  <2>1. cur \in Dep /\ Want(cur) \in Hash
    BY <1>16, WantType DEF LinkManifest
  <2>2. Files[cur][Want(cur)] \subseteq File
    BY <2>1, FilesType
  <2>3. CASE tman[<<cur, Want(cur)>>] # "none"
    BY <1>16, <2>3, RaiseType DEF LinkManifest
  <2>4. CASE tman[<<cur, Want(cur)>>] = "none"
    <3>1. {cur} \X Files[cur][Want(cur)] \subseteq Dep \X File
      BY <2>1, <2>2
    <3>2. tman' = [tman EXCEPT ![<<cur, Want(cur)>>] = pool[<<cur, Want(cur)>>]]
      BY <1>16, <2>4 DEF LinkManifest
    <3>3. tman' \in [Dep \X Hash -> {"none", "cut", "whole"}]
      BY <2>1, <3>2
    <3>4. left' \subseteq Dep \X File
      BY <1>16, <2>4, <3>1 DEF LinkManifest
    <3> QED BY <1>16, <2>4, <3>3, <3>4 DEF LinkManifest, Goto
  <2> QED BY <2>3, <2>4
<1>17. CASE CopyFile
  <2> PICK p \in left :
        /\ step = "copy" => p[2] \notin Bin
        /\ IF area[p[2]] # None
             THEN Raise /\ UNCHANGED area
             ELSE /\ area' = [area EXCEPT ![p[2]] = <<p[1], Want(p[1])>>]
                  /\ left' = left \ {p}
                  /\ UNCHANGED <<step, cur, todo, fileset, new, invalid, holder, status>>
    BY <1>17 DEF CopyFile
  <2>1. CASE area[p[2]] # None
    BY <1>17, <2>1, RaiseType DEF CopyFile
  <2>2. CASE area[p[2]] = None
    <3>1. p[1] \in Dep /\ p[2] \in File /\ Want(p[1]) \in Hash
      BY WantType
    <3>2. <<p[1], Want(p[1])>> \in Dep \X Hash
      BY <3>1
    <3>3. area' = [area EXCEPT ![p[2]] = <<p[1], Want(p[1])>>]
      BY <2>2
    <3>4. area' \in [File -> (Dep \X Hash) \cup {None}]
      BY <3>1, <3>2, <3>3
    <3> QED BY <1>17, <2>2, <3>4 DEF CopyFile
  <2> QED BY <2>1, <2>2
<1>18. CASE CopyDone
  BY <1>18 DEF CopyDone, Goto
<1>19. CASE InstallDone
  BY <1>19 DEF InstallDone, Goto
<1>20. CASE Postinst
  BY <1>20 DEF Postinst, Goto
<1>21. CASE LinkComplete
  <2>1. CASE Raise
    BY <1>21, <2>1, RaiseType DEF LinkComplete
  <2>2. CASE ~Raise
    BY <1>21, <2>2 DEF LinkComplete
  <2> QED BY <2>1, <2>2
<1>22. CASE OpenIndex
  BY <1>22 DEF OpenIndex, Goto
<1>23. CASE WriteIndex
  BY <1>23 DEF WriteIndex, Deps
<1>30. ASSUME NEW g \in Config, NEW tasks \in SUBSET Task, StartBuild(g, tasks) PROVE TypeOK'
  BY <1>30 DEF StartBuild, ToRun
<1>31. ASSUME NEW t \in Task, Lock(t) PROVE TypeOK'
  BY <1>31 DEF Lock
<1>32. ASSUME NEW t \in Task, BodyEnds(t) PROVE TypeOK'
  <2>1. Deps(t) \in SUBSET Dep
    <3>1. Need[cfg] \in [Task -> SUBSET Dep]
      OBVIOUS
    <3> QED BY <3>1 DEF Deps
  <2>2. Inputs(t) \in [Deps(t) -> Hash]
    BY <2>1, WantType DEF Inputs
  <2>3. Inputs(t) \in UNION {[D -> Hash] : D \in SUBSET Dep}
    BY <2>1, <2>2
  <2>4. \A u \in Task : stamp'[u] \subseteq stamp[u] \cup {Inputs(t)}
    BY <1>32 DEF BodyEnds
  <2>5. \A u \in Task : stamp'[u] \subseteq UNION {[D -> Hash] : D \in SUBSET Dep}
    BY <2>3, <2>4
  <2>6. fails' \in 0 .. MaxFails
    BY <1>32 DEF BodyEnds
  <2>7. status' \in [Task -> {"idle", "extending", "running", "done", "failed"}]
    BY <1>32 DEF BodyEnds
  <2> QED BY <1>32, <2>5, <2>6, <2>7 DEF BodyEnds
<1>33. CASE Kill
  BY <1>33 DEF Kill, Raise
<1>34. CASE EndBuild
  BY <1>34 DEF EndBuild
<1>35. CASE UNCHANGED vars
  BY <1>35 DEF vars
<1> QED
  BY <1>1, <1>2, <1>3, <1>4, <1>5, <1>6, <1>7, <1>8, <1>9, <1>10, <1>11, <1>12, <1>13, <1>14,
     <1>15, <1>16, <1>17, <1>18, <1>19, <1>20, <1>21, <1>22, <1>23, <1>30, <1>31, <1>32,
     <1>33, <1>34, <1>35
     DEF Next, Prefunc, Rest

(* The lock, the step and what the prefunc is about fit together.          *)
LEMMA ShapeStep ==
  ASSUME TypeOK, Shape, [Next]_vars
  PROVE  Shape'
<1> USE DEF TypeOK, Shape, sched, local, disk, RemoveSteps, InstallSteps, FilesSteps,
            GoneSteps, AboutSteps, UnneededSteps, Want
<1>1. CASE DanglingOpen
  BY <1>1 DEF DanglingOpen, Raise, Open, Goto, Exists, Dangling
<1>2. CASE RemoveFile
  BY <1>2 DEF RemoveFile
<1>3. CASE RemoveManifest
  BY <1>3 DEF RemoveManifest, Goto
<1>4. CASE UnlinkLink
  BY <1>4 DEF UnlinkLink, Goto
<1>5. CASE UnlinkComplete
  BY <1>5 DEF UnlinkComplete, Goto, Raise
<1>6. CASE DanglingDone
  BY <1>6 DEF DanglingDone, Goto
<1>7. CASE Invalidate
  <2>1. CASE invalid # {}
    BY <1>7, <2>1 DEF Invalidate
  <2>2. CASE invalid = {}
    <3>1. todo' = Unneeded /\ step' = "unneeded"
      BY <1>7, <2>2 DEF Invalidate, Goto
    <3>2. \A c \in Unneeded : link[c] # None
      BY DEF Unneeded, Exists
    <3> QED BY <1>7, <2>2, <3>1, <3>2 DEF Invalidate, Goto
  <2> QED BY <2>1, <2>2
<1>8. CASE UnneededOpen
  BY <1>8 DEF UnneededOpen, Goto, Open
<1>9. CASE UnneededDone
  BY <1>9 DEF UnneededDone, Goto
<1>10. CASE StaleOpen
  BY <1>10 DEF StaleOpen, Goto, Open, Exists
<1>11. CASE StaleDone
  BY <1>11 DEF StaleDone, Goto
<1>12. CASE Install
  BY <1>12 DEF Install, Goto, Want
<1>13. CASE CheckFiles
  BY <1>13 DEF CheckFiles, Goto, Raise, Want
<1>14. CASE OpenPool
  BY <1>14 DEF OpenPool, Goto, Want
<1>15. CASE WritePool
  BY <1>15 DEF WritePool, Goto, Want
<1>16. CASE LinkManifest
  BY <1>16 DEF LinkManifest, Goto, Raise, Want
<1>17. CASE CopyFile
  BY <1>17 DEF CopyFile, Raise, Want
<1>18. CASE CopyDone
  BY <1>18 DEF CopyDone, Goto
<1>19. CASE InstallDone
  BY <1>19 DEF InstallDone, Goto
<1>20. CASE Postinst
  BY <1>20 DEF Postinst, Goto
<1>21. CASE LinkComplete
  BY <1>21 DEF LinkComplete, Raise, Want
<1>22. CASE OpenIndex
  BY <1>22 DEF OpenIndex, Goto
<1>23. CASE WriteIndex
  BY <1>23 DEF WriteIndex
<1>30. ASSUME NEW g \in Config, NEW tasks \in SUBSET Task, StartBuild(g, tasks) PROVE Shape'
  BY <1>30 DEF StartBuild
<1>31. ASSUME NEW t \in Task, Lock(t) PROVE Shape'
  BY <1>31 DEF Lock
<1>32. ASSUME NEW t \in Task, BodyEnds(t) PROVE Shape'
  BY <1>32 DEF BodyEnds
<1>33. CASE Kill
  BY <1>33 DEF Kill, Raise
<1>34. CASE EndBuild
  BY <1>34 DEF EndBuild
<1>35. CASE UNCHANGED vars
  BY <1>35 DEF vars
<1> QED
  BY <1>1, <1>2, <1>3, <1>4, <1>5, <1>6, <1>7, <1>8, <1>9, <1>10, <1>11, <1>12, <1>13, <1>14,
     <1>15, <1>16, <1>17, <1>18, <1>19, <1>20, <1>21, <1>22, <1>23, <1>30, <1>31, <1>32,
     <1>33, <1>34, <1>35
     DEF Next, Prefunc, Rest

(* A removal starts with every file of the dependency in left.             *)
LEMMA OpenRemoving ==
  ASSUME TypeOK, Listing, NEW c \in Dep, link[c] \in Hash, NEW s \in FilesSteps, Open(c, s),
         UNCHANGED area
  PROVE  Removing'
<1>1. cur' = c /\ step' = s /\ left' = {c} \X Listed(<<c, link[c]>>)
  BY DEF Open, Goto
<1>2. ASSUME NEW f \in File, area[f] # None, area[f][1] = c PROVE f \in Listed(<<c, link[c]>>)
  <2>1. area[f] = <<c, link[c]>>
    BY <1>2 DEF TypeOK, Listing
  <2>2. tman[<<c, link[c]>>] = "whole" /\ f \in Files[c][link[c]]
    BY <1>2, <2>1 DEF Listing
  <2> QED BY <2>2, ListedType
<1>3. step' \notin GoneSteps
  BY <1>1 DEF FilesSteps, GoneSteps
<1> QED BY <1>1, <1>2, <1>3 DEF Removing

(* What is in the sysroot stays listed.                                    *)
LEMMA ListingStep ==
  ASSUME TypeOK, TypeOK', Shape, Listing, Removing, Installing, kills = kills', [Next]_vars
  PROVE  Listing'
<1> USE DEF TypeOK, Shape, Listing, sched, local, disk, RemoveSteps, InstallSteps, FilesSteps,
            GoneSteps, AboutSteps, UnneededSteps
<1>1. CASE DanglingOpen
  BY <1>1 DEF DanglingOpen, Raise, Open, Goto, Exists, Dangling
<1>2. CASE RemoveFile
  BY <1>2 DEF RemoveFile, Removing
<1>3. CASE RemoveManifest
  BY <1>3 DEF RemoveManifest, Goto, Removing
<1>4. CASE UnlinkLink
  BY <1>4 DEF UnlinkLink, Goto, Removing
<1>5. CASE UnlinkComplete
  BY <1>5 DEF UnlinkComplete, Goto, Raise
<1>6. CASE DanglingDone
  BY <1>6 DEF DanglingDone, Goto
<1>7. CASE Invalidate
  BY <1>7 DEF Invalidate, Goto
<1>8. CASE UnneededOpen
  BY <1>8 DEF UnneededOpen, Goto, Open
<1>9. CASE UnneededDone
  BY <1>9 DEF UnneededDone, Goto
<1>10. CASE StaleOpen
  <2> PICK c \in todo :
        /\ todo' = todo \ {c}
        /\ IF Exists(c) /\ ~Current(c)
             THEN Open(c, "stale_files") /\ UNCHANGED link
             ELSE /\ link' = IF Exists(c) THEN link ELSE [link EXCEPT ![c] = None]
                  /\ UNCHANGED <<cur, left, step, holder, status>>
    BY <1>10 DEF StaleOpen
  <2>1. UNCHANGED <<area, tman>>
    BY <1>10 DEF StaleOpen
  <2>2. CASE link' = link
    BY <2>1, <2>2
  <2>3. CASE ~Exists(c)
    <3>1. \A f \in File : area[f] # None => area[f][1] # c
      <4> SUFFICES ASSUME NEW f \in File, area[f] # None, area[f][1] = c PROVE FALSE
        OBVIOUS
      <4>1. area[f] \in Dep \X Hash
        OBVIOUS
      <4>2. area[f] = <<c, link[c]>> /\ link[c] \in Hash
        BY <4>1
      <4> QED BY <4>2, <2>3 DEF Exists
    <3>2. link' = [link EXCEPT ![c] = None]
      BY <2>3
    <3>3. ASSUME NEW f \in File, area[f] # None PROVE link'[area[f][1]] = link[area[f][1]]
      BY <3>1, <3>2, <3>3
    <3> QED BY <2>1, <3>3
  <2> QED BY <2>2, <2>3
<1>11. CASE StaleDone
  BY <1>11 DEF StaleDone, Goto
<1>12. CASE Install
  BY <1>12 DEF Install, Goto, Want
<1>13. CASE CheckFiles
  BY <1>13 DEF CheckFiles, Goto, Raise, Want
<1>14. CASE OpenPool
  BY <1>14 DEF OpenPool, Goto, Want
<1>15. CASE WritePool
  BY <1>15 DEF WritePool, Goto, Want
<1>16. CASE LinkManifest
  <2>1. UNCHANGED <<area, link>>
    BY <1>16 DEF LinkManifest
  <2>2. ASSUME NEW f \in File, area[f] # None PROVE tman'[area[f]] = tman[area[f]]
    <3>1. CASE tman' = tman
      BY <3>1
    <3>2. CASE tman' # tman
      <4> DEFINE d == <<cur, Want(cur)>>
      <4>1. tman[d] = "none" /\ tman' = [tman EXCEPT ![d] = pool[d]]
        BY <1>16, <3>2 DEF LinkManifest
      <4>2. area[f] \in Dep \X Hash /\ tman[area[f]] = "whole"
        BY <2>2
      <4>3. area[f] # d
        BY <4>1, <4>2
      <4> HIDE DEF d
      <4> QED BY <4>1, <4>2, <4>3
    <3> QED BY <3>1, <3>2
  <2> QED BY <2>1, <2>2
<1>17. CASE CopyFile
  BY <1>17 DEF CopyFile, Raise, Want, Installing, CopySteps
<1>18. CASE CopyDone
  BY <1>18 DEF CopyDone, Goto
<1>19. CASE InstallDone
  BY <1>19 DEF InstallDone, Goto
<1>20. CASE Postinst
  BY <1>20 DEF Postinst, Goto
<1>21. CASE LinkComplete
  BY <1>21 DEF LinkComplete, Raise
<1>22. CASE OpenIndex
  BY <1>22 DEF OpenIndex, Goto
<1>23. CASE WriteIndex
  BY <1>23 DEF WriteIndex
<1>30. ASSUME NEW g \in Config, NEW tasks \in SUBSET Task, StartBuild(g, tasks) PROVE Listing'
  BY <1>30 DEF StartBuild
<1>31. ASSUME NEW t \in Task, Lock(t) PROVE Listing'
  BY <1>31 DEF Lock
<1>32. ASSUME NEW t \in Task, BodyEnds(t) PROVE Listing'
  BY <1>32 DEF BodyEnds, Want
<1>33. CASE Kill
  BY <1>33 DEF Kill
<1>34. CASE EndBuild
  BY <1>34 DEF EndBuild
<1>35. CASE UNCHANGED vars
  BY <1>35 DEF vars, Want
<1> QED
  BY <1>1, <1>2, <1>3, <1>4, <1>5, <1>6, <1>7, <1>8, <1>9, <1>10, <1>11, <1>12, <1>13, <1>14,
     <1>15, <1>16, <1>17, <1>18, <1>19, <1>20, <1>21, <1>22, <1>23, <1>30, <1>31, <1>32,
     <1>33, <1>34, <1>35
     DEF Next, Prefunc, Rest


(* A removal takes all the files before the manifest and the link.          *)
LEMMA RemovingStep ==
  ASSUME TypeOK, TypeOK', Shape, Listing, Removing, Installing, kills = kills', [Next]_vars
  PROVE  Removing'
<1> USE DEF TypeOK, Shape, Listing, sched, local, disk, RemoveSteps, InstallSteps, FilesSteps,
            GoneSteps, AboutSteps, UnneededSteps, Removing
<1>1. CASE DanglingOpen
  <2> PICK c \in Dangling :
        IF Exists(c)
          THEN Open(c, "dangling_files") /\ UNCHANGED <<todo, fileset, new, invalid>>
          ELSE Raise
    BY <1>1 DEF DanglingOpen
  <2>1. CASE Raise
    BY <2>1 DEF Raise
  <2>2. CASE Exists(c) /\ Open(c, "dangling_files")
    <3>1. c \in Dep /\ link[c] \in Hash /\ UNCHANGED area
      BY <1>1, <2>2 DEF DanglingOpen, Exists, Dangling
    <3> QED BY <2>2, <3>1, OpenRemoving
  <2> QED BY <2>1, <2>2
<1>2. CASE RemoveFile
  BY <1>2 DEF RemoveFile
<1>3. CASE RemoveManifest
  BY <1>3 DEF RemoveManifest, Goto
<1>4. CASE UnlinkLink
  BY <1>4 DEF UnlinkLink, Goto
<1>5. CASE UnlinkComplete
  BY <1>5 DEF UnlinkComplete, Goto, Raise
<1>6. CASE DanglingDone
  BY <1>6 DEF DanglingDone, Goto
<1>7. CASE Invalidate
  BY <1>7 DEF Invalidate, Goto
<1>8. CASE UnneededOpen
  <2> PICK c \in todo : todo' = todo \ {c} /\ Open(c, "unneeded_files")
    BY <1>8 DEF UnneededOpen
  <2>1. c \in Dep /\ link[c] \in Hash /\ UNCHANGED area
    BY <1>8 DEF UnneededOpen
  <2> QED BY <2>1, OpenRemoving
<1>9. CASE UnneededDone
  BY <1>9 DEF UnneededDone, Goto
<1>10. CASE StaleOpen
  <2> PICK c \in todo :
        /\ todo' = todo \ {c}
        /\ IF Exists(c) /\ ~Current(c)
             THEN Open(c, "stale_files") /\ UNCHANGED link
             ELSE /\ link' = IF Exists(c) THEN link ELSE [link EXCEPT ![c] = None]
                  /\ UNCHANGED <<cur, left, step, holder, status>>
    BY <1>10 DEF StaleOpen
  <2>1. UNCHANGED area
    BY <1>10 DEF StaleOpen
  <2>2. CASE UNCHANGED <<cur, left, step>>
    BY <2>1, <2>2
  <2>3. CASE Exists(c) /\ Open(c, "stale_files")
    <3>1. c \in Dep /\ link[c] \in Hash
      BY <2>3 DEF Exists
    <3> QED BY <2>1, <2>3, <3>1, OpenRemoving
  <2> QED BY <2>2, <2>3
<1>11. CASE StaleDone
  BY <1>11 DEF StaleDone, Goto
<1>12. CASE Install
  BY <1>12 DEF Install, Goto, Want
<1>13. CASE CheckFiles
  BY <1>13 DEF CheckFiles, Goto, Raise, Want
<1>14. CASE OpenPool
  BY <1>14 DEF OpenPool, Goto, Want
<1>15. CASE WritePool
  BY <1>15 DEF WritePool, Goto, Want
<1>16. CASE LinkManifest
  BY <1>16 DEF LinkManifest, Goto, Raise, Want
<1>17. CASE CopyFile
  BY <1>17 DEF CopyFile, Raise, Want
<1>18. CASE CopyDone
  BY <1>18 DEF CopyDone, Goto
<1>19. CASE InstallDone
  BY <1>19 DEF InstallDone, Goto
<1>20. CASE Postinst
  BY <1>20 DEF Postinst, Goto
<1>21. CASE LinkComplete
  BY <1>21 DEF LinkComplete, Raise
<1>22. CASE OpenIndex
  BY <1>22 DEF OpenIndex, Goto
<1>23. CASE WriteIndex
  BY <1>23 DEF WriteIndex
<1>30. ASSUME NEW g \in Config, NEW tasks \in SUBSET Task, StartBuild(g, tasks) PROVE Removing'
  BY <1>30 DEF StartBuild
<1>31. ASSUME NEW t \in Task, Lock(t) PROVE Removing'
  BY <1>31 DEF Lock
<1>32. ASSUME NEW t \in Task, BodyEnds(t) PROVE Removing'
  BY <1>32 DEF BodyEnds, Want
<1>33. CASE Kill
  BY <1>33 DEF Kill
<1>34. CASE EndBuild
  BY <1>34 DEF EndBuild
<1>35. CASE UNCHANGED vars
  BY <1>35 DEF vars, Want
<1> QED
  BY <1>1, <1>2, <1>3, <1>4, <1>5, <1>6, <1>7, <1>8, <1>9, <1>10, <1>11, <1>12, <1>13, <1>14,
     <1>15, <1>16, <1>17, <1>18, <1>19, <1>20, <1>21, <1>22, <1>23, <1>30, <1>31, <1>32,
     <1>33, <1>34, <1>35
     DEF Next, Prefunc, Rest


(* An install lists a file before it links it.                             *)
LEMMA InstallingStep ==
  ASSUME TypeOK, TypeOK', Shape, Listing, Removing, Installing, kills = kills', [Next]_vars
  PROVE  Installing'
<1> USE DEF TypeOK, Shape, Listing, sched, local, disk, RemoveSteps, InstallSteps, FilesSteps,
            GoneSteps, AboutSteps, UnneededSteps, CopySteps, Installing
<1>1. CASE DanglingOpen
  BY <1>1 DEF DanglingOpen, Raise, Open, Goto, Exists, Dangling
<1>2. CASE RemoveFile
  BY <1>2 DEF RemoveFile
<1>3. CASE RemoveManifest
  BY <1>3 DEF RemoveManifest, Goto
<1>4. CASE UnlinkLink
  BY <1>4 DEF UnlinkLink, Goto
<1>5. CASE UnlinkComplete
  BY <1>5 DEF UnlinkComplete, Goto, Raise
<1>6. CASE DanglingDone
  BY <1>6 DEF DanglingDone, Goto
<1>7. CASE Invalidate
  BY <1>7 DEF Invalidate, Goto
<1>8. CASE UnneededOpen
  BY <1>8 DEF UnneededOpen, Goto, Open
<1>9. CASE UnneededDone
  BY <1>9 DEF UnneededDone, Goto
<1>10. CASE StaleOpen
  BY <1>10 DEF StaleOpen, Goto, Open, Exists
<1>11. CASE StaleDone
  BY <1>11 DEF StaleDone, Goto
<1>12. CASE Install
  BY <1>12 DEF Install, Goto, Want
<1>13. CASE CheckFiles
  BY <1>13 DEF CheckFiles, Goto, Raise, Want
<1>14. CASE OpenPool
  BY <1>14 DEF OpenPool, Goto, Want
<1>15. CASE WritePool
  BY <1>15 DEF WritePool, Goto, Want
<1>16. CASE LinkManifest
  <2> DEFINE d == <<cur, Want(cur)>>
  <2>1. cur \in Dep /\ Want(cur) \in Hash /\ step = "tman"
    BY <1>16, WantType DEF LinkManifest
  <2>2. UNCHANGED <<pool, link, cfg>>
    BY <1>16 DEF LinkManifest
  <2>3. \A e \in Dep \X Hash : pool[e] # "cut"
    BY <2>1
  <2>4. pool[d] = "whole"
    BY <2>1, <2>3
  <2>5. CASE tman[d] # "none"
    BY <1>16, <2>2, <2>3, <2>5 DEF LinkManifest, Raise
  <2>6. CASE tman[d] = "none"
    <3>1. /\ tman' = [tman EXCEPT ![d] = pool[d]]
          /\ left' = left \cup {cur} \X Files[cur][Want(cur)]
          /\ step' = "copy"
      BY <1>16, <2>6 DEF LinkManifest, Goto
    <3>2. tman'[d] = "whole" /\ \A e \in Dep \X Hash : tman[e] = "whole" => tman'[e] = "whole"
      BY <2>1, <2>4, <2>6, <3>1
    <3>3. \A c \in Dep : Want(c)' = Want(c)
      BY <2>2 DEF Want
    <3>4. ASSUME NEW p \in left' PROVE /\ link'[p[1]] = Want(p[1])'
                                       /\ tman'[<<p[1], Want(p[1])'>>] = "whole"
                                       /\ p[2] \in Files[p[1]][Want(p[1])']
      <4>1. CASE p \in left
        <5>1. p[1] \in Dep /\ Want(p[1]) \in Hash
          BY <4>1, WantType
        <5> QED BY <2>1, <2>2, <3>2, <3>3, <4>1, <5>1
      <4>2. CASE p \in {cur} \X Files[cur][Want(cur)]
        <5>1. p[1] = cur /\ p[2] \in Files[cur][Want(cur)]
          BY <4>2
        <5> QED BY <2>1, <2>2, <3>2, <3>3, <5>1
      <4> QED BY <3>1, <4>1, <4>2
    <3> QED BY <2>2, <2>3, <3>1, <3>4
  <2> QED BY <2>5, <2>6
<1>17. CASE CopyFile
  BY <1>17 DEF CopyFile, Raise, Want
<1>18. CASE CopyDone
  BY <1>18 DEF CopyDone, Goto, Want
<1>19. CASE InstallDone
  BY <1>19 DEF InstallDone, Goto, Want
<1>20. CASE Postinst
  BY <1>20 DEF Postinst, Goto
<1>21. CASE LinkComplete
  BY <1>21 DEF LinkComplete, Raise
<1>22. CASE OpenIndex
  BY <1>22 DEF OpenIndex, Goto
<1>23. CASE WriteIndex
  BY <1>23 DEF WriteIndex
<1>30. ASSUME NEW g \in Config, NEW tasks \in SUBSET Task, StartBuild(g, tasks) PROVE Installing'
  BY <1>30 DEF StartBuild
<1>31. ASSUME NEW t \in Task, Lock(t) PROVE Installing'
  BY <1>31 DEF Lock
<1>32. ASSUME NEW t \in Task, BodyEnds(t) PROVE Installing'
  BY <1>32 DEF BodyEnds, Want
<1>33. CASE Kill
  BY <1>33 DEF Kill
<1>34. CASE EndBuild
  BY <1>34 DEF EndBuild
<1>35. CASE UNCHANGED vars
  BY <1>35 DEF vars, Want
<1> QED
  BY <1>1, <1>2, <1>3, <1>4, <1>5, <1>6, <1>7, <1>8, <1>9, <1>10, <1>11, <1>12, <1>13, <1>14,
     <1>15, <1>16, <1>17, <1>18, <1>19, <1>20, <1>21, <1>22, <1>23, <1>30, <1>31, <1>32,
     <1>33, <1>34, <1>35
     DEF Next, Prefunc, Rest

LEMMA InitIInv == Init => IInv
<1> USE DEF Init
<1>1. ASSUME Init PROVE TypeOK
  <2>1. fails \in 0 .. MaxFails /\ kills \in 0 .. MaxKills /\ builds \in 0 .. MaxBuilds
    BY <1>1
  <2>2. step \in RemoveSteps \cup InstallSteps \cup {"none"}
    BY <1>1
  <2>3. /\ main \in [Dep -> Hash \cup {None}] /\ link \in [Dep -> Hash \cup {None}]
        /\ area \in [File -> (Dep \X Hash) \cup {None}] /\ index \in [Task -> SUBSET Dep]
    BY <1>1
  <2>4. /\ pool \in [Dep \X Hash -> {"none", "cut", "whole"}]
        /\ tman \in [Dep \X Hash -> {"none", "cut", "whole"}]
    BY <1>1
  <2>5. status \in [Task -> {"idle", "extending", "running", "done", "failed"}]
    BY <1>1
  <2> QED BY <1>1, <2>1, <2>2, <2>3, <2>4, <2>5 DEF TypeOK
<1>2. Init => Shape
  BY DEF Shape, FilesSteps, GoneSteps, AboutSteps, RemoveSteps, UnneededSteps
<1>3. Init => Sound
  BY DEF Sound, Listing, Removing, Installing, FilesSteps, GoneSteps, CopySteps, AboutSteps
<1> QED BY <1>1, <1>2, <1>3 DEF IInv

(* A prefunc that is cut short and a body that fails are counted for good,  *)
(* and the recipe keeps its version.                                       *)
LEMMA KillsGrow ==
  ASSUME TypeOK, [Next]_vars
  PROVE  (kills' = 0 => kills = 0) /\ (fails' = 0 => fails = 0) /\ dashed' = dashed
BY DEF TypeOK, Next, vars, sched, StartBuild, Lock, BodyEnds, Kill, EndBuild, Rest, Prefunc,
   DanglingOpen, RemoveFile, RemoveManifest, UnlinkLink, UnlinkComplete, DanglingDone, Invalidate,
   UnneededOpen, UnneededDone, StaleOpen, StaleDone, Install, CheckFiles, OpenPool, WritePool,
   LinkManifest, CopyFile, CopyDone, InstallDone, Postinst, LinkComplete, OpenIndex, WriteIndex

LEMMA StepIInv == IInv /\ [Next]_vars => IInv'
<1> SUFFICES ASSUME IInv, [Next]_vars PROVE IInv'
  OBVIOUS
<1>1. TypeOK' /\ Shape'
  BY TypeStep, ShapeStep DEF IInv
<1>2. ASSUME kills' = 0 PROVE Listing' /\ Removing' /\ Installing'
  <2>1. kills = 0 /\ Listing /\ Removing /\ Installing
    BY <1>2, KillsGrow DEF IInv, Sound
  <2> QED BY <1>1, <1>2, <2>1, ListingStep, RemovingStep, InstallingStep DEF IInv
<1> QED BY <1>1, <1>2 DEF IInv, Sound

LEMMA Inductive == Spec => []IInv
BY InitIInv, StepIInv, PTL DEF Spec

(* Every variable keeps its type, whatever is built, fails or is cut short. *)
THEOREM TypeCorrect == Spec => []TypeOK
BY Inductive, PTL DEF IInv

(* Whatever a prefunc leaves, raised or not, the next one can clean up: a   *)
(* file is listed in the manifest that the link of its dependency leads to, *)
(* unless a prefunc was cut short between two of its steps.                *)
THEOREM AlwaysCleanable == Spec => []Cleanable
<1>1. IInv => Cleanable
  <2> SUFFICES ASSUME IInv, kills = 0, NEW f \in File, area[f] # None
               PROVE  link[area[f][1]] = area[f][2] /\ f \in Listed(area[f])
    BY DEF Cleanable
  <2> QED BY DEF IInv, Sound, Listing, Listed
<1> QED BY <1>1, Inductive, PTL

-----------------------------------------------------------------------------
RemovalSteps == RemoveSteps \ {"dangling", "invalidate", "unneeded", "stale"}
LastSteps    == {"bin", "postinst", "complete", "index_write"}
InstallRun   == CopySteps \cup LastSteps

(* What BitBake promises the prefuncs, and the index of a running task.    *)
TaskInv ==
  /\ \A t \in torun : \A c \in Deps(t) : main[c] = Want(c)
  /\ holder # None => /\ holder \in torun /\ status[holder] = "extending"
                      /\ \A u \in Own[holder] \cap torun : status[u] = "done"
  /\ \A t \in Task : status[t] \in {"running", "done"} =>
       /\ t \in torun
       /\ \A u \in Own[t] \cap torun : status[u] = "done"
       /\ index[t] = Deps(t)
  /\ ~building => \A t \in Task : status[t] # "running"

Whole(c) ==
  /\ link[c] # None /\ tman[<<c, link[c]>>] = "whole"
  /\ \A f \in Files[c][link[c]] : area[f] = <<c, link[c]>>

(* A complete link tells the truth, but for the dependency being removed.  *)
CompleteInv ==
  /\ \A c \in complete : Whole(c) \/ (step \in RemovalSteps /\ cur = c)
  /\ step = "dangling_link" => cur \notin complete

(* What this run has installed is listed, and in the sysroot or in left.   *)
NewInv ==
  /\ step \in FilesSteps => \A p \in left : p[1] = cur /\ p[2] \in Files[cur][link[cur]]
  /\ step \in RemoveSteps => new = {}
  /\ step \in {"postinst", "complete", "index_write"} => left = {}
  /\ step \in InstallRun => \A c \in new :
       \/ step \in {"pool", "pool_write", "tman"} /\ c = cur
       \/ /\ link[c] = Want(c) /\ tman[<<c, Want(c)>>] = "whole"
          /\ \A f \in Files[c][Want(c)] : area[f] = <<c, Want(c)>> \/ <<c, f>> \in left

(* Each dependency the install loop has passed is new or was complete.     *)
PassedInv ==
  /\ step \in LastSteps => todo = {}
  /\ step = "index_write" => new = {}
  /\ step \in InstallRun => \A c \in Deps(holder) \ todo :
       c \in new \/ (c \in complete /\ link[c] = Want(c)) \/ (step = "check" /\ c = cur)

(* No prefunc takes a dependency from a task that runs or is done.         *)
SafeInv ==
  \A t \in Task : status[t] \in {"running", "done"} => \A c \in Deps(t) :
    /\ c \in complete /\ link[c] = Want(c)
    /\ step \in RemovalSteps => cur # c
    /\ step \in UnneededSteps => c \notin todo

(* A manifest has its link and a link its complete link, but for the       *)
(* dependency that is removed or installed; what is left to remove is of   *)
(* that dependency.                                                        *)
LinkInv ==
  /\ \A c \in Dep, h \in Hash : tman[<<c, h>>] # "none" => link[c] = h
  /\ \A c \in Dep : link[c] # None =>
       \/ c \in complete
       \/ step \in InstallRun /\ c \in new
       \/ step \in {"check", "dangling_link"} /\ c = cur
  /\ step \in GoneSteps => \A h \in Hash : tman[<<cur, h>>] = "none"
  /\ step \in {"unneeded_complete", "stale_complete"} => link[cur] = None
  /\ step \in {"unneeded_files", "unneeded_link", "unneeded_complete"} => cur \in complete
  /\ step \in UnneededSteps => todo \subseteq complete
  /\ step \in FilesSteps => \A p \in left : area[p[2]] = <<cur, link[cur]>>

(* What is about to be installed is not there yet in any form.             *)
FreshInv ==
  /\ step \in RemoveSteps => fileset = {}
  /\ step \in InstallRun => /\ new \cap complete = {}
                            /\ new \subseteq Deps(holder) /\ todo \subseteq Deps(holder)
  /\ step = "check" => cur \notin complete /\ cur \notin new
  /\ step \in AboutSteps => cur \in Deps(holder) /\ tman[<<cur, Want(cur)>>] = "none"
  /\ step \in AboutSteps \ {"check"} => cur \in new
  /\ step \in CopySteps => \A f \in fileset : \E c \in new : f \in Files[c][Want(c)]
  /\ step \in CopySteps \cup {"bin"} => \A p \in left : p[1] \in new /\ area[p[2]] = None

(* The stale dependencies the loop has passed are gone.                    *)
StaleInv ==
  /\ step \in {"stale", "stale_files", "stale_link", "stale_complete"} =>
       \A e \in Deps(holder) \ todo :
         \/ link[e] \in {None, Want(e)}
         \/ step \in {"stale_files", "stale_link"} /\ e = cur
  /\ step \in InstallRun => \A e \in Deps(holder) : link[e] \in {None, Want(e)}

(* What is installed is listed in the index of a task, and will be when    *)
(* the task at work replaces its index.                                    *)
Dropped(c) == c \in index[holder] \ Deps(holder) /\ link[c] # None

IndexInv ==
  /\ \A c \in Dep : link[c] # None =>
       (\E t \in Task : c \in index[t]) \/ (step \in InstallRun /\ c \in Deps(holder))
  /\ step \in UnneededSteps \cup {"stale", "stale_files", "stale_link", "stale_complete"}
               \cup InstallRun =>
       \A c \in Dep : Dropped(c) =>
         \/ \E t \in Task \ {holder} : c \in index[t]
         \/ step \in UnneededSteps /\ c \in todo
         \/ step \in {"unneeded_files", "unneeded_link"} /\ c = cur

BInv == kills = 0 => /\ CompleteInv /\ NewInv /\ PassedInv /\ SafeInv
                     /\ LinkInv /\ FreshInv /\ StaleInv /\ IndexInv

(* If no body failed and old stamps are cleaned, the index of a task lists  *)
(* the inputs of its stamp.                                                *)
StampInv ==
  /\ \A t \in Task : \/ \A s \in stamp[t] : DOMAIN s = index[t]
                     \/ status[t] = "running"
                     \/ holder = t /\ step = "index_write"
  /\ \A t \in goal \ torun : index[t] = Deps(t)

FInv == kills = 0 /\ fails = 0 /\ dashed => StampInv

(* What the tasks and BitBake do.                                          *)
LEMMA TaskStep ==
  ASSUME TypeOK, TypeOK', Shape, TaskInv, [Next]_vars
  PROVE  TaskInv'
<1> USE DEF TypeOK, Shape, sched, local, disk, RemoveSteps, InstallSteps, FilesSteps,
            GoneSteps, AboutSteps, UnneededSteps, RemovalSteps, LastSteps, InstallRun, CopySteps, Want,
            Deps, TaskInv
<1>1. CASE DanglingOpen
  BY <1>1 DEF DanglingOpen, Raise, Open, Goto, Exists, Dangling
<1>2. CASE RemoveFile
  BY <1>2 DEF RemoveFile
<1>3. CASE RemoveManifest
  BY <1>3 DEF RemoveManifest, Goto
<1>4. CASE UnlinkLink
  BY <1>4 DEF UnlinkLink, Goto
<1>5. CASE UnlinkComplete
  BY <1>5 DEF UnlinkComplete, Goto, Raise
<1>6. CASE DanglingDone
  BY <1>6 DEF DanglingDone, Goto
<1>7. CASE Invalidate
  BY <1>7 DEF Invalidate, Goto
<1>8. CASE UnneededOpen
  BY <1>8 DEF UnneededOpen, Goto, Open
<1>9. CASE UnneededDone
  BY <1>9 DEF UnneededDone, Goto
<1>10. CASE StaleOpen
  BY <1>10 DEF StaleOpen, Goto, Open, Exists
<1>11. CASE StaleDone
  BY <1>11 DEF StaleDone, Goto
<1>12. CASE Install
  BY <1>12 DEF Install, Goto
<1>13. CASE CheckFiles
  BY <1>13 DEF CheckFiles, Goto, Raise
<1>14. CASE OpenPool
  BY <1>14 DEF OpenPool, Goto
<1>15. CASE WritePool
  BY <1>15 DEF WritePool, Goto
<1>16. CASE LinkManifest
  BY <1>16 DEF LinkManifest, Goto, Raise
<1>17. CASE CopyFile
  BY <1>17 DEF CopyFile, Raise
<1>18. CASE CopyDone
  BY <1>18 DEF CopyDone, Goto
<1>19. CASE InstallDone
  BY <1>19 DEF InstallDone, Goto
<1>20. CASE Postinst
  BY <1>20 DEF Postinst, Goto
<1>21. CASE LinkComplete
  BY <1>21 DEF LinkComplete, Raise
<1>22. CASE OpenIndex
  BY <1>22 DEF OpenIndex, Goto
<1>23. CASE WriteIndex
  BY <1>23 DEF WriteIndex
<1>30. ASSUME NEW g \in Config, NEW tasks \in SUBSET Task, StartBuild(g, tasks) PROVE TaskInv'
  BY <1>30 DEF StartBuild, ToRun
<1>31. ASSUME NEW t \in Task, Lock(t) PROVE TaskInv'
  BY <1>31 DEF Lock
<1>32. ASSUME NEW t \in Task, BodyEnds(t) PROVE TaskInv'
  BY <1>32 DEF BodyEnds
<1>33. CASE Kill
  BY <1>33 DEF Kill, Raise
<1>34. CASE EndBuild
  BY <1>34 DEF EndBuild
<1>35. CASE UNCHANGED vars
  BY <1>35 DEF vars
<1> QED
  BY <1>1, <1>2, <1>3, <1>4, <1>5, <1>6, <1>7, <1>8, <1>9, <1>10, <1>11, <1>12, <1>13, <1>14,
     <1>15, <1>16, <1>17, <1>18, <1>19, <1>20, <1>21, <1>22, <1>23, <1>30, <1>31, <1>32,
     <1>33, <1>34, <1>35
     DEF Next, Prefunc, Rest


(* A removal looks at files of its dependency only.                        *)
LEMMA OpenLeft ==
  ASSUME NEW c \in Dep, link[c] \in Hash, NEW s, Open(c, s)
  PROVE  cur' = c /\ step' = s /\ \A p \in left' : p[1] = c /\ p[2] \in Files[c][link[c]]
<1>1. left' = {c} \X Listed(<<c, link[c]>>)
  BY DEF Open
<1>2. Listed(<<c, link[c]>>) \subseteq Files[c][link[c]]
  BY ListedType
<1> QED BY <1>1, <1>2 DEF Open, Goto

(* A complete link is made for what is installed, and kept true.            *)
LEMMA CompleteStep ==
  ASSUME TypeOK, TypeOK', Shape, Installing, TaskInv, CompleteInv, NewInv, PassedInv, SafeInv,
         LinkInv, kills' = kills, [Next]_vars
  PROVE  CompleteInv'
<1> USE DEF TypeOK, Shape, sched, local, disk, RemoveSteps, InstallSteps, FilesSteps,
            GoneSteps, AboutSteps, UnneededSteps, RemovalSteps, LastSteps, InstallRun, CopySteps, Want,
            CompleteInv, Whole
<1>1. CASE DanglingOpen
  BY <1>1 DEF DanglingOpen, Raise, Open, Goto, Exists, Dangling
<1>2. CASE RemoveFile
  BY <1>2 DEF RemoveFile, NewInv, LinkInv
<1>3. CASE RemoveManifest
  BY <1>3 DEF RemoveManifest, Goto, NewInv
<1>4. CASE UnlinkLink
  BY <1>4 DEF UnlinkLink, Goto
<1>5. CASE UnlinkComplete
  BY <1>5 DEF UnlinkComplete, Goto, Raise
<1>6. CASE DanglingDone
  BY <1>6 DEF DanglingDone, Goto
<1>7. CASE Invalidate
  BY <1>7 DEF Invalidate, Goto
<1>8. CASE UnneededOpen
  BY <1>8 DEF UnneededOpen, Goto, Open
<1>9. CASE UnneededDone
  BY <1>9 DEF UnneededDone, Goto
<1>10. CASE StaleOpen
  BY <1>10 DEF StaleOpen, Goto, Open, Exists
<1>11. CASE StaleDone
  BY <1>11 DEF StaleDone, Goto
<1>12. CASE Install
  <2> PICK c \in todo :
        /\ todo' = todo \ {c}
        /\ IF Current(c)
             THEN UNCHANGED <<link, step, cur, holder, status>>
             ELSE /\ link[c] = None
                  /\ link' = [link EXCEPT ![c] = Want(c)]
                  /\ cur' = c /\ Goto("check")
    BY <1>12 DEF Install
  <2>1. step = "install" /\ UNCHANGED <<complete, tman, area>>
    BY <1>12 DEF Install
  <2>2. CASE Current(c)
    BY <2>1, <2>2
  <2>3. CASE ~Current(c)
    <3>1. c \notin complete
      BY <2>1, <2>3
    <3>2. \A e \in complete : link'[e] = link[e]
      BY <2>3, <3>1
    <3>3. step' = "check"
      BY <2>3 DEF Goto
    <3> QED BY <2>1, <3>2, <3>3
  <2> QED BY <2>2, <2>3
<1>13. CASE CheckFiles
  BY <1>13 DEF CheckFiles, Goto, Raise
<1>14. CASE OpenPool
  BY <1>14 DEF OpenPool, Goto
<1>15. CASE WritePool
  BY <1>15 DEF WritePool, Goto
<1>16. CASE LinkManifest
  BY <1>16 DEF LinkManifest, Goto, Raise
<1>17. CASE CopyFile
  <2> PICK p \in left :
        /\ step = "copy" => p[2] \notin Bin
        /\ IF area[p[2]] # None
             THEN Raise /\ UNCHANGED area
             ELSE /\ area' = [area EXCEPT ![p[2]] = <<p[1], Want(p[1])>>]
                  /\ left' = left \ {p}
                  /\ UNCHANGED <<step, cur, todo, fileset, new, invalid, holder, status>>
    BY <1>17 DEF CopyFile
  <2>1. step \in {"copy", "bin"} /\ UNCHANGED <<complete, tman, link>>
    BY <1>17 DEF CopyFile
  <2>2. \A c \in complete : Whole(c)
    BY <2>1
  <2>3. \A f \in File : area[f] # None => area'[f] = area[f]
    OBVIOUS
  <2>4. \A c \in complete : Whole(c)'
    <3> SUFFICES ASSUME NEW c \in complete PROVE Whole(c)'
      OBVIOUS
    <3>1. Whole(c)
      BY <2>2
    <3>2. c \in Dep /\ link[c] \in Hash
      BY <3>1
    <3>3. <<c, link[c]>> \in Dep \X Hash
      BY <3>2
    <3>4. ASSUME NEW f \in Files[c][link[c]] PROVE area'[f] = <<c, link[c]>>
      <4>1. f \in File /\ area[f] = <<c, link[c]>>
        BY <3>1, <3>2, FilesType
      <4> QED BY <2>3, <3>3, <4>1
    <3> QED BY <2>1, <3>1, <3>4
  <2>5. step' \in {"copy", "bin", "none"}
    BY <2>1 DEF Raise
  <2> QED BY <2>1, <2>4, <2>5
<1>18. CASE CopyDone
  BY <1>18 DEF CopyDone, Goto
<1>19. CASE InstallDone
  BY <1>19 DEF InstallDone, Goto
<1>20. CASE Postinst
  BY <1>20 DEF Postinst, Goto
<1>21. CASE LinkComplete
  <2> PICK c \in new :
        IF c \in complete
          THEN Raise /\ UNCHANGED complete
          ELSE /\ complete' = complete \cup {c}
               /\ new' = new \ {c}
               /\ UNCHANGED <<step, cur, todo, left, fileset, invalid, holder, status>>
    BY <1>21 DEF LinkComplete
  <2>1. step = "complete" /\ UNCHANGED <<tman, link, area>>
    BY <1>21 DEF LinkComplete
  <2>2. step' \in {"complete", "none"}
    BY <2>1 DEF Raise
  <2>3. CASE complete' = complete
    BY <2>1, <2>2, <2>3
  <2>4. CASE complete' = complete \cup {c}
    <3>1. /\ link[c] = Want(c) /\ tman[<<c, Want(c)>>] = "whole"
          /\ \A f \in Files[c][Want(c)] : area[f] = <<c, Want(c)>>
      BY <2>1 DEF NewInv
    <3>2. Whole(c)
      BY <3>1, WantType
    <3> QED BY <2>1, <2>2, <2>4, <3>2
  <2> QED BY <2>3, <2>4
<1>22. CASE OpenIndex
  BY <1>22 DEF OpenIndex, Goto
<1>23. CASE WriteIndex
  BY <1>23 DEF WriteIndex
<1>30. ASSUME NEW g \in Config, NEW tasks \in SUBSET Task, StartBuild(g, tasks) PROVE CompleteInv'
  BY <1>30 DEF StartBuild
<1>31. ASSUME NEW t \in Task, Lock(t) PROVE CompleteInv'
  BY <1>31 DEF Lock
<1>32. ASSUME NEW t \in Task, BodyEnds(t) PROVE CompleteInv'
  BY <1>32 DEF BodyEnds
<1>33. CASE Kill
  BY <1>33 DEF Kill
<1>34. CASE EndBuild
  BY <1>34 DEF EndBuild
<1>35. CASE UNCHANGED vars
  BY <1>35 DEF vars
<1> QED
  BY <1>1, <1>2, <1>3, <1>4, <1>5, <1>6, <1>7, <1>8, <1>9, <1>10, <1>11, <1>12, <1>13, <1>14,
     <1>15, <1>16, <1>17, <1>18, <1>19, <1>20, <1>21, <1>22, <1>23, <1>30, <1>31, <1>32,
     <1>33, <1>34, <1>35
     DEF Next, Prefunc, Rest


(* What is installed is not lost before the run is complete.                *)
LEMMA NewStep ==
  ASSUME TypeOK, TypeOK', Shape, Installing, TaskInv, CompleteInv, NewInv, PassedInv, SafeInv,
         kills' = kills, [Next]_vars
  PROVE  NewInv'
<1> USE DEF TypeOK, Shape, sched, local, disk, RemoveSteps, InstallSteps, FilesSteps,
            GoneSteps, AboutSteps, UnneededSteps, RemovalSteps, LastSteps, InstallRun, CopySteps, Want,
            NewInv
<1>1. CASE DanglingOpen
  <2> PICK c \in Dangling :
        IF Exists(c)
          THEN Open(c, "dangling_files") /\ UNCHANGED <<todo, fileset, new, invalid>>
          ELSE Raise
    BY <1>1 DEF DanglingOpen
  <2>1. step = "dangling" /\ UNCHANGED link
    BY <1>1 DEF DanglingOpen
  <2>2. CASE Raise
    BY <2>2 DEF Raise
  <2>3. CASE Exists(c) /\ Open(c, "dangling_files") /\ UNCHANGED new
    <3>1. c \in Dep /\ link[c] \in Hash
      BY <2>3 DEF Exists, Dangling
    <3> QED BY <2>1, <2>3, <3>1, OpenLeft
  <2> QED BY <2>2, <2>3
<1>2. CASE RemoveFile
  BY <1>2 DEF RemoveFile
<1>3. CASE RemoveManifest
  BY <1>3 DEF RemoveManifest, Goto
<1>4. CASE UnlinkLink
  BY <1>4 DEF UnlinkLink, Goto
<1>5. CASE UnlinkComplete
  BY <1>5 DEF UnlinkComplete, Goto, Raise
<1>6. CASE DanglingDone
  BY <1>6 DEF DanglingDone, Goto
<1>7. CASE Invalidate
  BY <1>7 DEF Invalidate, Goto
<1>8. CASE UnneededOpen
  <2> PICK c \in todo : todo' = todo \ {c} /\ Open(c, "unneeded_files")
    BY <1>8 DEF UnneededOpen
  <2>1. c \in Dep /\ link[c] \in Hash /\ step = "unneeded" /\ UNCHANGED <<link, new>>
    BY <1>8 DEF UnneededOpen
  <2> QED BY <2>1, OpenLeft
<1>9. CASE UnneededDone
  BY <1>9 DEF UnneededDone, Goto
<1>10. CASE StaleOpen
  <2> PICK c \in todo :
        /\ todo' = todo \ {c}
        /\ IF Exists(c) /\ ~Current(c)
             THEN Open(c, "stale_files") /\ UNCHANGED link
             ELSE /\ link' = IF Exists(c) THEN link ELSE [link EXCEPT ![c] = None]
                  /\ UNCHANGED <<cur, left, step, holder, status>>
    BY <1>10 DEF StaleOpen
  <2>1. step = "stale" /\ UNCHANGED new
    BY <1>10 DEF StaleOpen
  <2>2. CASE UNCHANGED <<cur, left, step>>
    BY <2>1, <2>2
  <2>3. CASE Exists(c) /\ Open(c, "stale_files") /\ UNCHANGED link
    <3>1. c \in Dep /\ link[c] \in Hash
      BY <2>3 DEF Exists
    <3> QED BY <2>1, <2>3, <3>1, OpenLeft
  <2> QED BY <2>2, <2>3
<1>11. CASE StaleDone
  BY <1>11 DEF StaleDone, Goto
<1>12. CASE Install
  BY <1>12 DEF Install, Goto
<1>13. CASE CheckFiles
  BY <1>13 DEF CheckFiles, Goto, Raise
<1>14. CASE OpenPool
  BY <1>14 DEF OpenPool, Goto
<1>15. CASE WritePool
  BY <1>15 DEF WritePool, Goto
<1>16. CASE LinkManifest
  <2> DEFINE d == <<cur, Want(cur)>>
  <2>1. cur \in Dep /\ Want(cur) \in Hash /\ step = "tman" /\ link[cur] = Want(cur)
    BY <1>16, WantType DEF LinkManifest
  <2>2. UNCHANGED <<link, area, cfg>>
    BY <1>16 DEF LinkManifest
  <2>3. pool[d] = "whole"
    BY <2>1 DEF Installing
  <2>4. CASE tman[d] # "none"
    <3>1. step' = "none"
      BY <1>16, <2>4 DEF LinkManifest, Raise
    <3> QED BY <3>1
  <2>5. CASE tman[d] = "none"
    <3>1. /\ tman' = [tman EXCEPT ![d] = pool[d]] /\ new' = new
          /\ left' = left \cup {cur} \X Files[cur][Want(cur)]
          /\ step' = "copy"
      BY <1>16, <2>5 DEF LinkManifest, Goto
    <3>2. tman'[d] = "whole" /\ \A e \in Dep \X Hash : tman[e] = "whole" => tman'[e] = "whole"
      BY <2>1, <2>3, <2>5, <3>1
    <3>3. \A c \in Dep : Want(c)' = Want(c)
      BY <2>2 DEF Want
    <3>4. \A f \in Files[cur][Want(cur)] : <<cur, f>> \in left'
      BY <3>1
    <3>5. ASSUME NEW c \in new'
          PROVE  /\ link'[c] = Want(c)' /\ tman'[<<c, Want(c)'>>] = "whole"
                 /\ \A f \in Files[c][Want(c)'] : area'[f] = <<c, Want(c)'>> \/ <<c, f>> \in left'
      <4>1. c \in Dep /\ Want(c) \in Hash /\ <<c, Want(c)>> \in Dep \X Hash
        BY <3>1, WantType
      <4>2. CASE c = cur
        BY <2>1, <2>2, <3>2, <3>3, <3>4, <4>2
      <4>3. CASE c # cur
        <5>1. /\ link[c] = Want(c) /\ tman[<<c, Want(c)>>] = "whole"
              /\ \A f \in Files[c][Want(c)] : area[f] = <<c, Want(c)>> \/ <<c, f>> \in left
          BY <2>1, <3>1, <4>3
        <5> QED BY <2>2, <3>1, <3>2, <3>3, <4>1, <5>1
      <4> QED BY <4>2, <4>3
    <3> QED BY <3>1, <3>5
  <2> QED BY <2>4, <2>5
<1>17. CASE CopyFile
  <2> PICK p \in left :
        /\ step = "copy" => p[2] \notin Bin
        /\ IF area[p[2]] # None
             THEN Raise /\ UNCHANGED area
             ELSE /\ area' = [area EXCEPT ![p[2]] = <<p[1], Want(p[1])>>]
                  /\ left' = left \ {p}
                  /\ UNCHANGED <<step, cur, todo, fileset, new, invalid, holder, status>>
    BY <1>17 DEF CopyFile
  <2>1. step \in {"copy", "bin"} /\ UNCHANGED <<tman, link, cfg>>
    BY <1>17 DEF CopyFile
  <2>2. CASE Raise
    BY <2>2 DEF Raise
  <2>3. CASE area[p[2]] = None
    <3>1. /\ area' = [area EXCEPT ![p[2]] = <<p[1], Want(p[1])>>]
          /\ left' = left \ {p} /\ UNCHANGED <<step, new>>
      BY <2>3
    <3>2. p[1] \in Dep /\ p[2] \in File /\ p = <<p[1], p[2]>>
      OBVIOUS
    <3>3. ASSUME NEW c \in new, NEW f \in Files[c][Want(c)]
          PROVE  area'[f] = <<c, Want(c)>> \/ <<c, f>> \in left'
      <4>1. c \in Dep /\ f \in File
        BY WantType, FilesType
      <4>2. area[f] = <<c, Want(c)>> \/ <<c, f>> \in left
        BY <2>1
      <4>3. CASE area[f] = <<c, Want(c)>>
        <5>1. area[f] # None
          BY <4>1, <4>3, WantType
        <5>2. area[p[2]] = None
          BY <2>3
        <5>3. area'[f] = area[f]
          BY <3>1, <3>2, <4>1, <5>1, <5>2
        <5> QED BY <4>3, <5>3
      <4>4. CASE <<c, f>> = p
        BY <3>1, <3>2, <4>1, <4>4
      <4>5. CASE <<c, f>> \in left /\ <<c, f>> # p
        BY <3>1, <4>5
      <4> QED BY <4>2, <4>3, <4>4, <4>5
    <3>4. \A c \in Dep : Want(c)' = Want(c)
      BY <2>1 DEF Want
    <3>5. \A c \in new : link[c] = Want(c) /\ tman[<<c, Want(c)>>] = "whole"
      BY <2>1
    <3> HIDE DEF Want
    <3>6. step' \in {"copy", "bin"} /\ new' = new /\ new \subseteq Dep
      BY <2>1, <3>1
    <3> QED BY <2>1, <3>3, <3>4, <3>5, <3>6
  <2> QED BY <2>2, <2>3
<1>18. CASE CopyDone
  BY <1>18 DEF CopyDone, Goto
<1>19. CASE InstallDone
  BY <1>19 DEF InstallDone, Goto
<1>20. CASE Postinst
  BY <1>20 DEF Postinst, Goto
<1>21. CASE LinkComplete
  BY <1>21 DEF LinkComplete, Raise
<1>22. CASE OpenIndex
  BY <1>22 DEF OpenIndex, Goto
<1>23. CASE WriteIndex
  BY <1>23 DEF WriteIndex
<1>30. ASSUME NEW g \in Config, NEW tasks \in SUBSET Task, StartBuild(g, tasks) PROVE NewInv'
  BY <1>30 DEF StartBuild
<1>31. ASSUME NEW t \in Task, Lock(t) PROVE NewInv'
  BY <1>31 DEF Lock
<1>32. ASSUME NEW t \in Task, BodyEnds(t) PROVE NewInv'
  BY <1>32 DEF BodyEnds
<1>33. CASE Kill
  BY <1>33 DEF Kill
<1>34. CASE EndBuild
  BY <1>34 DEF EndBuild
<1>35. CASE UNCHANGED vars
  BY <1>35 DEF vars
<1> QED
  BY <1>1, <1>2, <1>3, <1>4, <1>5, <1>6, <1>7, <1>8, <1>9, <1>10, <1>11, <1>12, <1>13, <1>14,
     <1>15, <1>16, <1>17, <1>18, <1>19, <1>20, <1>21, <1>22, <1>23, <1>30, <1>31, <1>32,
     <1>33, <1>34, <1>35
     DEF Next, Prefunc, Rest


(* The install loop skips only what is complete.                           *)
LEMMA PassedStep ==
  ASSUME TypeOK, TypeOK', Shape, Installing, TaskInv, CompleteInv, NewInv, PassedInv, SafeInv,
         kills' = kills, [Next]_vars
  PROVE  PassedInv'
<1> USE DEF TypeOK, Shape, sched, local, disk, RemoveSteps, InstallSteps, FilesSteps,
            GoneSteps, AboutSteps, UnneededSteps, RemovalSteps, LastSteps, InstallRun, CopySteps, Want,
            PassedInv, Deps
<1>1. CASE DanglingOpen
  BY <1>1 DEF DanglingOpen, Raise, Open, Goto, Exists, Dangling
<1>2. CASE RemoveFile
  BY <1>2 DEF RemoveFile
<1>3. CASE RemoveManifest
  BY <1>3 DEF RemoveManifest, Goto
<1>4. CASE UnlinkLink
  BY <1>4 DEF UnlinkLink, Goto
<1>5. CASE UnlinkComplete
  BY <1>5 DEF UnlinkComplete, Goto, Raise
<1>6. CASE DanglingDone
  BY <1>6 DEF DanglingDone, Goto
<1>7. CASE Invalidate
  BY <1>7 DEF Invalidate, Goto
<1>8. CASE UnneededOpen
  BY <1>8 DEF UnneededOpen, Goto, Open
<1>9. CASE UnneededDone
  BY <1>9 DEF UnneededDone, Goto
<1>10. CASE StaleOpen
  BY <1>10 DEF StaleOpen, Goto, Open, Exists
<1>11. CASE StaleDone
  BY <1>11 DEF StaleDone, Goto
<1>12. CASE Install
  BY <1>12 DEF Install, Goto, Current, Completed, Exists
<1>13. CASE CheckFiles
  BY <1>13 DEF CheckFiles, Goto, Raise
<1>14. CASE OpenPool
  BY <1>14 DEF OpenPool, Goto
<1>15. CASE WritePool
  BY <1>15 DEF WritePool, Goto
<1>16. CASE LinkManifest
  BY <1>16 DEF LinkManifest, Goto, Raise
<1>17. CASE CopyFile
  BY <1>17 DEF CopyFile, Raise
<1>18. CASE CopyDone
  BY <1>18 DEF CopyDone, Goto
<1>19. CASE InstallDone
  BY <1>19 DEF InstallDone, Goto
<1>20. CASE Postinst
  BY <1>20 DEF Postinst, Goto
<1>21. CASE LinkComplete
  <2> PICK c \in new :
        IF c \in complete
          THEN Raise /\ UNCHANGED complete
          ELSE /\ complete' = complete \cup {c}
               /\ new' = new \ {c}
               /\ UNCHANGED <<step, cur, todo, left, fileset, invalid, holder, status>>
    BY <1>21 DEF LinkComplete
  <2>1. step = "complete" /\ UNCHANGED <<link, cfg>>
    BY <1>21 DEF LinkComplete
  <2>2. CASE Raise
    BY <2>2 DEF Raise
  <2>3. CASE /\ complete' = complete \cup {c} /\ new' = new \ {c}
             /\ UNCHANGED <<step, cur, todo, holder>>
    <3>1. link[c] = Want(c)
      BY <2>1 DEF NewInv
    <3> QED BY <2>1, <2>3, <3>1
  <2> QED BY <2>2, <2>3
<1>22. CASE OpenIndex
  BY <1>22 DEF OpenIndex, Goto
<1>23. CASE WriteIndex
  BY <1>23 DEF WriteIndex
<1>30. ASSUME NEW g \in Config, NEW tasks \in SUBSET Task, StartBuild(g, tasks) PROVE PassedInv'
  BY <1>30 DEF StartBuild
<1>31. ASSUME NEW t \in Task, Lock(t) PROVE PassedInv'
  BY <1>31 DEF Lock
<1>32. ASSUME NEW t \in Task, BodyEnds(t) PROVE PassedInv'
  BY <1>32 DEF BodyEnds
<1>33. CASE Kill
  BY <1>33 DEF Kill
<1>34. CASE EndBuild
  BY <1>34 DEF EndBuild
<1>35. CASE UNCHANGED vars
  BY <1>35 DEF vars
<1> QED
  BY <1>1, <1>2, <1>3, <1>4, <1>5, <1>6, <1>7, <1>8, <1>9, <1>10, <1>11, <1>12, <1>13, <1>14,
     <1>15, <1>16, <1>17, <1>18, <1>19, <1>20, <1>21, <1>22, <1>23, <1>30, <1>31, <1>32,
     <1>33, <1>34, <1>35
     DEF Next, Prefunc, Rest


(* Removals spare what a task that runs or is done needs.                  *)
AtWork(t) == status[t] \in {"running", "done"}

LEMMA SafeKept ==
  ASSUME SafeInv, UNCHANGED <<complete, link, cfg>>,
         step' \notin RemovalSteps \cup UnneededSteps,
         \A t \in Task : AtWork(t)' => AtWork(t)
  PROVE  SafeInv'
BY DEF SafeInv, Deps, Want, RemovalSteps, UnneededSteps, AtWork

LEMMA SafeStep ==
  ASSUME TypeOK, TypeOK', Shape, Installing, TaskInv, CompleteInv, NewInv, PassedInv, SafeInv,
         kills' = kills, [Next]_vars
  PROVE  SafeInv'
<1> USE DEF TypeOK, Shape, sched, local, disk, RemoveSteps, InstallSteps, FilesSteps,
            GoneSteps, AboutSteps, UnneededSteps, RemovalSteps, LastSteps, InstallRun, CopySteps, Want,
            SafeInv, Deps, AtWork
<1>1. CASE DanglingOpen
  BY <1>1 DEF DanglingOpen, Raise, Open, Goto, Exists, Dangling, TaskInv
<1>2. CASE RemoveFile
  BY <1>2 DEF RemoveFile
<1>3. CASE RemoveManifest
  BY <1>3 DEF RemoveManifest, Goto
<1>4. CASE UnlinkLink
  BY <1>4 DEF UnlinkLink, Goto
<1>5. CASE UnlinkComplete
  <2>1. CASE Raise
    <3>1. UNCHANGED <<complete, link, cfg>>
      BY <1>5, <2>1 DEF UnlinkComplete, Goto, Raise
    <3> QED BY <2>1, <3>1, SafeKept DEF Raise
  <2>2. CASE complete' = complete \ {cur} /\ UNCHANGED <<cur, todo, status>>
    <3>1. UNCHANGED <<link, cfg>>
      BY <1>5 DEF UnlinkComplete
    <3>2. step \in RemovalSteps /\ step' \in {"dangling_link", "unneeded", "stale"}
      BY <1>5, <2>2 DEF UnlinkComplete, Goto, Raise
    <3>3. step' = "unneeded" => step \in UnneededSteps
      BY <1>5, <2>2 DEF UnlinkComplete, Goto, Raise
    <3> QED BY <2>2, <3>1, <3>2, <3>3
  <2> QED BY <1>5, <2>1, <2>2 DEF UnlinkComplete, Goto
<1>6. CASE DanglingDone
  BY <1>6 DEF DanglingDone, Goto
<1>7. CASE Invalidate
  <2>1. UNCHANGED <<complete, link, cfg, cur, status>> /\ step = "invalidate"
    BY <1>7 DEF Invalidate, Goto
  <2>2. CASE step' = step
    BY <2>1, <2>2, SafeKept
  <2>3. CASE step' = "unneeded" /\ todo' = Unneeded
    <3>1. ASSUME NEW t \in Task, AtWork(t), NEW c \in Deps(t) PROVE c \notin Unneeded
      <4>1. holder \in torun /\ status[holder] # "done" /\ t # holder
        BY <2>1, <3>1 DEF TaskInv
      <4>2. c \in index[t] /\ holder \notin Own[t]
        BY <3>1, <4>1 DEF TaskInv
      <4> QED BY <4>1, <4>2 DEF Unneeded
    <3> QED BY <2>1, <2>3, <3>1
  <2> QED BY <1>7, <2>1, <2>2, <2>3 DEF Invalidate, Goto
<1>8. CASE UnneededOpen
  BY <1>8 DEF UnneededOpen, Goto, Open
<1>9. CASE UnneededDone
  BY <1>9 DEF UnneededDone, Goto
<1>10. CASE StaleOpen
  BY <1>10 DEF StaleOpen, Goto, Open, Exists, Current, Completed, CompleteInv, Whole, TaskInv
<1>11. CASE StaleDone
  BY <1>11 DEF StaleDone, Goto
<1>12. CASE Install
  BY <1>12 DEF Install, Goto, Current, Completed, CompleteInv, Whole, Exists
<1>13. CASE CheckFiles
  <2>1. UNCHANGED <<complete, link, cfg>>
    BY <1>13 DEF CheckFiles
  <2>2. step' \notin RemovalSteps \cup UnneededSteps
    BY <1>13 DEF CheckFiles, Goto, Raise
  <2>3. \A t \in Task : AtWork(t)' => AtWork(t)
    BY <1>13 DEF CheckFiles, Goto, Raise
  <2> QED BY <2>1, <2>2, <2>3, SafeKept
<1>14. CASE OpenPool
  BY <1>14 DEF OpenPool, Goto
<1>15. CASE WritePool
  BY <1>15 DEF WritePool, Goto
<1>16. CASE LinkManifest
  <2>1. UNCHANGED <<complete, link, cfg>>
    BY <1>16 DEF LinkManifest
  <2>2. step' \notin RemovalSteps \cup UnneededSteps
    BY <1>16 DEF LinkManifest, Goto, Raise
  <2>3. \A t \in Task : AtWork(t)' => AtWork(t)
    BY <1>16 DEF LinkManifest, Goto, Raise
  <2> QED BY <2>1, <2>2, <2>3, SafeKept
<1>17. CASE CopyFile
  <2>1. UNCHANGED <<complete, link, cfg>>
    BY <1>17 DEF CopyFile
  <2>2. step' \notin RemovalSteps \cup UnneededSteps
    BY <1>17 DEF CopyFile, Raise
  <2>3. \A t \in Task : AtWork(t)' => AtWork(t)
    BY <1>17 DEF CopyFile, Raise
  <2> QED BY <2>1, <2>2, <2>3, SafeKept
<1>18. CASE CopyDone
  BY <1>18 DEF CopyDone, Goto
<1>19. CASE InstallDone
  BY <1>19 DEF InstallDone, Goto
<1>20. CASE Postinst
  BY <1>20 DEF Postinst, Goto
<1>21. CASE LinkComplete
  <2>1. UNCHANGED <<link, cfg>> /\ step' \notin RemovalSteps \cup UnneededSteps
    BY <1>21 DEF LinkComplete, Raise
  <2>2. \A t \in Task : AtWork(t)' => AtWork(t)
    BY <1>21 DEF LinkComplete, Raise
  <2>3. \A c \in complete : c \in complete'
    BY <1>21 DEF LinkComplete
  <2> QED BY <2>1, <2>2, <2>3
<1>22. CASE OpenIndex
  BY <1>22 DEF OpenIndex, Goto
<1>23. CASE WriteIndex
  <2>1. UNCHANGED <<complete, link, cfg>> /\ step' = "none" /\ step = "index_write"
    BY <1>23 DEF WriteIndex
  <2>2. \A t \in Task : AtWork(t)' => t = holder \/ AtWork(t)
    BY <1>23 DEF WriteIndex
  <2>3. \A c \in Deps(holder) : c \in complete /\ link[c] = Want(c)
    BY <2>1 DEF PassedInv
  <2> QED BY <2>1, <2>2, <2>3
<1>30. ASSUME NEW g \in Config, NEW tasks \in SUBSET Task, StartBuild(g, tasks) PROVE SafeInv'
  BY <1>30 DEF StartBuild
<1>31. ASSUME NEW t \in Task, Lock(t) PROVE SafeInv'
  BY <1>31 DEF Lock
<1>32. ASSUME NEW t \in Task, BodyEnds(t) PROVE SafeInv'
  <2>1. UNCHANGED <<complete, link, cfg, step, cur, todo>>
    BY <1>32 DEF BodyEnds
  <2>2. \A u \in Task : AtWork(u)' => AtWork(u)
    BY <1>32 DEF BodyEnds
  <2> QED BY <2>1, <2>2
<1>33. CASE Kill
  BY <1>33 DEF Kill
<1>34. CASE EndBuild
  BY <1>34 DEF EndBuild
<1>35. CASE UNCHANGED vars
  BY <1>35 DEF vars
<1> QED
  BY <1>1, <1>2, <1>3, <1>4, <1>5, <1>6, <1>7, <1>8, <1>9, <1>10, <1>11, <1>12, <1>13, <1>14,
     <1>15, <1>16, <1>17, <1>18, <1>19, <1>20, <1>21, <1>22, <1>23, <1>30, <1>31, <1>32,
     <1>33, <1>34, <1>35
     DEF Next, Prefunc, Rest

(* No check of the prefunc can raise.                                      *)
Clear ==
  /\ step = "dangling" => \A c \in Dangling : Exists(c)
  /\ step = "unneeded_complete" => cur \in complete
  /\ step = "check" => Files[cur][Want(cur)] \cap fileset = {}
  /\ step = "tman" => tman[<<cur, Want(cur)>>] = "none"
  /\ step \in {"copy", "bin"} => \A p \in left : area[p[2]] = None
  /\ step = "complete" => new \cap complete = {}

LEMMA NoRaise ==
  ASSUME TypeOK, Shape, CompleteInv, LinkInv, FreshInv, MovesCovered
  PROVE  Clear
<1> USE DEF TypeOK, Shape
<1>1. ASSUME step = "dangling", NEW c \in Dangling PROVE Exists(c)
  <2>1. c \in complete /\ Whole(c)
    BY <1>1 DEF Dangling, CompleteInv, RemovalSteps
  <2> QED BY <2>1 DEF Whole, Exists
<1>2. step = "unneeded_complete" => cur \in complete
  BY DEF LinkInv
<1>3. ASSUME step = "check", NEW f \in Files[cur][Want(cur)], f \in fileset PROVE FALSE
  <2>1. cur \in Deps(holder) /\ cur \notin new /\ new \subseteq Deps(holder)
    BY <1>3 DEF FreshInv, AboutSteps, InstallRun, CopySteps
  <2>2. PICK c \in new : f \in Files[c][Want(c)]
    BY <1>3 DEF FreshInv, AboutSteps, CopySteps
  <2>3. c \in Deps(holder) /\ c # cur /\ c \in Dep /\ Want(c) \in Hash
    BY <2>1, <2>2, WantType
  <2>4. holder \in Task /\ cfg \in Config
    BY <1>3
  <2>5. Files[cur][Want(cur)] \cap Files[c][Want(c)] # {} => Want(c) # HashOf[cfg][c]
    BY <2>1, <2>3, <2>4 DEF MovesCovered, Deps, Want
  <2> QED BY <1>3, <2>2, <2>5 DEF Want
<1>4. step = "tman" => tman[<<cur, Want(cur)>>] = "none"
  BY DEF FreshInv, AboutSteps
<1>5. step \in {"copy", "bin"} => \A p \in left : area[p[2]] = None
  BY DEF FreshInv, CopySteps
<1>6. step = "complete" => new \cap complete = {}
  BY DEF FreshInv, InstallRun, LastSteps
<1> QED BY <1>1, <1>2, <1>3, <1>4, <1>5, <1>6 DEF Clear

(* What a removal of a complete dependency looks at belongs to it.         *)
LEMMA OpenWhole ==
  ASSUME TypeOK, NEW c \in Dep, Whole(c), NEW s, Open(c, s)
  PROVE  /\ cur' = c /\ step' = s /\ UNCHANGED <<holder, status>>
         /\ \A p \in left' : area[p[2]] = <<c, link[c]>>
<1>1. link[c] \in Hash
  BY DEF TypeOK, Whole
<1>2. \A p \in left' : p[2] \in Files[c][link[c]]
  BY <1>1, OpenLeft
<1> QED BY <1>2 DEF Whole, Open, Goto

(* Links and manifests come and go together.                               *)
LEMMA LinkStep ==
  ASSUME TypeOK, TypeOK', Shape, Listing, Clear, CompleteInv, NewInv, PassedInv, LinkInv,
         kills' = kills, [Next]_vars
  PROVE  LinkInv'
<1> USE DEF TypeOK, Shape, sched, local, disk, RemoveSteps, InstallSteps, FilesSteps,
            GoneSteps, AboutSteps, UnneededSteps, RemovalSteps, LastSteps, InstallRun, CopySteps,
            Want, LinkInv, Clear
<1>1. CASE DanglingOpen
  <2> PICK c \in Dangling : IF Exists(c) THEN Open(c, "dangling_files") /\ UNCHANGED <<todo, fileset, new, invalid>>
                            ELSE Raise
    BY <1>1 DEF DanglingOpen
  <2>1. step = "dangling" /\ c \in Dep /\ UNCHANGED <<area, link, tman, complete>>
    BY <1>1 DEF DanglingOpen, Dangling
  <2>2. Whole(c) /\ Open(c, "dangling_files")
    BY <2>1 DEF CompleteInv, Dangling
  <2> QED BY <2>1, <2>2, OpenWhole
<1>2. CASE RemoveFile
  <2> PICK p \in left : area' = [area EXCEPT ![p[2]] = None] /\ left' = left \ {p}
    BY <1>2 DEF RemoveFile
  <2>1. step \in FilesSteps /\ UNCHANGED <<tman, link, complete, step, cur, new, todo>>
    BY <1>2 DEF RemoveFile
  <2>2. ASSUME NEW q \in left' PROVE area'[q[2]] = <<cur, link[cur]>>
    <3>1. q[1] = cur /\ p[1] = cur /\ q = <<q[1], q[2]>> /\ p = <<p[1], p[2]>> /\ q # p
      BY <2>1 DEF NewInv
    <3>2. q[2] # p[2]
      BY <3>1
    <3> QED BY <2>1, <3>2
  <2> QED BY <2>1, <2>2
<1>3. CASE RemoveManifest
  BY <1>3 DEF RemoveManifest, Goto
<1>4. CASE UnlinkLink
  BY <1>4 DEF UnlinkLink, Goto
<1>5. CASE UnlinkComplete
  BY <1>5 DEF UnlinkComplete, Goto, Raise
<1>6. CASE DanglingDone
  BY <1>6 DEF DanglingDone, Goto
<1>7. CASE Invalidate
  <2>1. UNCHANGED <<tman, link, complete, cur, left, new, area>> /\ step = "invalidate"
    BY <1>7 DEF Invalidate
  <2>2. CASE step' = step
    BY <2>1, <2>2
  <2>3. CASE step' = "unneeded" /\ todo' = Unneeded
    <3>1. \A c \in Unneeded : c \in complete
      BY <2>1 DEF Unneeded, Exists
    <3> QED BY <2>1, <2>3, <3>1
  <2> QED BY <1>7, <2>2, <2>3 DEF Invalidate, Goto
<1>8. CASE UnneededOpen
  <2> PICK c \in todo : todo' = todo \ {c} /\ Open(c, "unneeded_files")
    BY <1>8 DEF UnneededOpen
  <2>1. step = "unneeded" /\ c \in Dep /\ UNCHANGED <<area, link, tman, complete>>
    BY <1>8 DEF UnneededOpen
  <2>2. c \in complete /\ Whole(c)
    BY <2>1 DEF CompleteInv
  <2> QED BY <2>1, <2>2, OpenWhole
<1>9. CASE UnneededDone
  BY <1>9 DEF UnneededDone, Goto
<1>10. CASE StaleOpen
  <2> PICK c \in todo :
        /\ todo' = todo \ {c}
        /\ IF Exists(c) /\ ~Current(c)
             THEN Open(c, "stale_files") /\ UNCHANGED link
             ELSE /\ link' = IF Exists(c) THEN link ELSE [link EXCEPT ![c] = None]
                  /\ UNCHANGED <<cur, left, step, holder, status>>
    BY <1>10 DEF StaleOpen
  <2>1. step = "stale" /\ c \in Dep /\ UNCHANGED <<area, tman, complete>>
    BY <1>10 DEF StaleOpen
  <2>2. CASE ~(Exists(c) /\ ~Current(c))
    <3>1. UNCHANGED <<cur, left, step, holder, status>> /\ todo' = todo \ {c} /\ new' = new
      BY <1>10, <2>2 DEF StaleOpen
    <3>2. CASE Exists(c)
      BY <2>1, <2>2, <3>1, <3>2
    <3>3. CASE ~Exists(c)
      <4>1. link' = [link EXCEPT ![c] = None]
        BY <2>2, <3>3
      <4>2. ASSUME NEW h \in Hash, tman[<<c, h>>] # "none" PROVE FALSE
        <5>1. link[c] = h /\ h # None
          BY <2>1, <4>2
        <5> QED BY <3>3, <4>2, <5>1 DEF Exists
      <4> QED BY <2>1, <3>1, <4>1, <4>2
    <3> QED BY <3>2, <3>3
  <2>3. CASE Exists(c) /\ ~Current(c)
    <3>1. c \in complete /\ Whole(c)
      BY <2>1, <2>3 DEF CompleteInv, Exists
    <3> QED BY <2>1, <2>3, <3>1, OpenWhole
  <2> QED BY <2>2, <2>3
<1>11. CASE StaleDone
  BY <1>11 DEF StaleDone, Goto
<1>12. CASE Install
  BY <1>12 DEF Install, Goto
<1>13. CASE CheckFiles
  BY <1>13 DEF CheckFiles, Goto, Raise
<1>14. CASE OpenPool
  BY <1>14 DEF OpenPool, Goto
<1>15. CASE WritePool
  BY <1>15 DEF WritePool, Goto
<1>16. CASE LinkManifest
  BY <1>16 DEF LinkManifest, Goto, Raise
<1>17. CASE CopyFile
  BY <1>17 DEF CopyFile, Raise
<1>18. CASE CopyDone
  BY <1>18 DEF CopyDone, Goto
<1>19. CASE InstallDone
  BY <1>19 DEF InstallDone, Goto
<1>20. CASE Postinst
  BY <1>20 DEF Postinst, Goto
<1>21. CASE LinkComplete
  BY <1>21 DEF LinkComplete, Raise
<1>22. CASE OpenIndex
  BY <1>22 DEF OpenIndex, Goto
<1>23. CASE WriteIndex
  BY <1>23 DEF WriteIndex, PassedInv
<1>30. ASSUME NEW g \in Config, NEW tasks \in SUBSET Task, StartBuild(g, tasks) PROVE LinkInv'
  BY <1>30 DEF StartBuild
<1>31. ASSUME NEW t \in Task, Lock(t) PROVE LinkInv'
  BY <1>31 DEF Lock
<1>32. ASSUME NEW t \in Task, BodyEnds(t) PROVE LinkInv'
  BY <1>32 DEF BodyEnds
<1>33. CASE Kill
  BY <1>33 DEF Kill
<1>34. CASE EndBuild
  BY <1>34 DEF EndBuild
<1>35. CASE UNCHANGED vars
  BY <1>35 DEF vars
<1> QED
  BY <1>1, <1>2, <1>3, <1>4, <1>5, <1>6, <1>7, <1>8, <1>9, <1>10, <1>11, <1>12, <1>13, <1>14,
     <1>15, <1>16, <1>17, <1>18, <1>19, <1>20, <1>21, <1>22, <1>23, <1>30, <1>31, <1>32,
     <1>33, <1>34, <1>35
     DEF Next, Prefunc, Rest

(* Nothing is installed twice.                                             *)
LEMMA FreshStep ==
  ASSUME TypeOK, TypeOK', Shape, Listing, Installing, Clear, CompleteInv, NewInv, PassedInv,
         LinkInv, FreshInv, StaleInv, MovesCovered, kills' = kills, [Next]_vars
  PROVE  FreshInv'
<1> USE DEF TypeOK, Shape, sched, local, disk, RemoveSteps, InstallSteps, FilesSteps,
            GoneSteps, AboutSteps, UnneededSteps, RemovalSteps, LastSteps, InstallRun, CopySteps,
            Want, Deps, FreshInv, Clear
<1>1. CASE DanglingOpen
  BY <1>1 DEF DanglingOpen, Goto, Open, Exists, Dangling, Raise
<1>2. CASE RemoveFile
  BY <1>2 DEF RemoveFile
<1>3. CASE RemoveManifest
  BY <1>3 DEF RemoveManifest, Goto
<1>4. CASE UnlinkLink
  BY <1>4 DEF UnlinkLink, Goto
<1>5. CASE UnlinkComplete
  BY <1>5 DEF UnlinkComplete, Goto, Raise
<1>6. CASE DanglingDone
  BY <1>6 DEF DanglingDone, Goto
<1>7. CASE Invalidate
  BY <1>7 DEF Invalidate, Goto
<1>8. CASE UnneededOpen
  BY <1>8 DEF UnneededOpen, Goto, Open
<1>9. CASE UnneededDone
  BY <1>9 DEF UnneededDone, Goto
<1>10. CASE StaleOpen
  BY <1>10 DEF StaleOpen, Goto, Open, Exists
<1>11. CASE StaleDone
  BY <1>11 DEF StaleDone, Goto, NewInv
<1>12. CASE Install
  <2> PICK c \in todo :
        /\ todo' = todo \ {c}
        /\ IF Current(c)
             THEN UNCHANGED <<link, step, cur, holder, status>>
             ELSE /\ link[c] = None
                  /\ link' = [link EXCEPT ![c] = Want(c)]
                  /\ cur' = c /\ Goto("check")
    BY <1>12 DEF Install
  <2>1. step = "install" /\ UNCHANGED <<complete, new, area, left, fileset, tman, cfg>> /\ c \in Dep
    BY <1>12 DEF Install
  <2>2. CASE Current(c)
    BY <2>1, <2>2
  <2>3. CASE ~Current(c)
    <3>1. link[c] = None /\ cur' = c /\ step' = "check" /\ holder' = holder
      BY <2>3 DEF Goto
    <3>2. c \notin complete
      BY <2>1, <3>1 DEF CompleteInv, Whole
    <3>3. Want(c) \in Hash
      BY WantType
    <3>4. c \notin new
      BY <2>1, <3>1, <3>3 DEF NewInv
    <3>5. tman[<<c, Want(c)>>] = "none"
      BY <3>1, <3>3 DEF LinkInv
    <3> QED BY <2>1, <2>3, <3>1, <3>2, <3>4, <3>5
  <2> QED BY <2>2, <2>3
<1>13. CASE CheckFiles
  <2>1. /\ step = "check" /\ step' = "pool" /\ new' = new \cup {cur}
        /\ fileset' = fileset \cup Files[cur][Want(cur)]
        /\ UNCHANGED <<complete, area, left, tman, cfg, cur, todo, holder>>
    BY <1>13 DEF CheckFiles, Goto
  <2>2. \A c \in Dep : Want(c)' = Want(c)
    BY <2>1 DEF Want
  <2>3. \A f \in fileset' : \E c \in new' : f \in Files[c][Want(c)]
    BY <2>1
  <2>4. /\ new' \cap complete' = {} /\ new' \subseteq Deps(holder) /\ todo' \subseteq Deps(holder)
        /\ cur \in new' /\ \A p \in left' : p[1] \in new' /\ area'[p[2]] = None
    BY <2>1
  <2>5. Deps(holder)' = Deps(holder) /\ new' \subseteq Dep
    BY <2>1
  <2>6. cur \in Deps(holder) /\ cur \in Dep /\ tman[<<cur, Want(cur)>>] = "none"
    BY <2>1
  <2> HIDE DEF Want, Deps
  <2>7. \A f \in fileset' : \E c \in new' : f \in Files[c][Want(c)']
    BY <2>2, <2>3, <2>5
  <2>8. cur' \in Deps(holder)' /\ tman'[<<cur', Want(cur)'>>] = "none"
    BY <2>1, <2>2, <2>5, <2>6
  <2> QED BY <2>1, <2>4, <2>5, <2>7, <2>8
<1>14. CASE OpenPool
  BY <1>14 DEF OpenPool, Goto
<1>15. CASE WritePool
  BY <1>15 DEF WritePool, Goto
<1>16. CASE LinkManifest
  <2>1. /\ step = "tman" /\ step' = "copy" /\ left' = left \cup {cur} \X Files[cur][Want(cur)]
        /\ tman[<<cur, Want(cur)>>] = "none"
        /\ UNCHANGED <<complete, area, cfg, cur, todo, holder, new, fileset>>
    BY <1>16 DEF LinkManifest, Goto
  <2>2. cur \in Deps(holder) /\ cur \in Dep /\ Want(cur) \in Hash /\ link[cur] = Want(cur)
        /\ holder \in Task
    BY <2>1, WantType
  <2>3. cur \in new
    BY <2>1
  <2>4. ASSUME NEW f \in Files[cur][Want(cur)], area[f] # None PROVE FALSE
    <3>1. f \in File
      BY <2>2, <2>4, FilesType
    <3>2. PICK e \in Dep, h \in Hash : area[f] = <<e, h>>
      BY <2>4, <3>1
    <3>3. link[e] = h /\ tman[<<e, h>>] = "whole" /\ f \in Files[e][h]
      <4>1. area[f][1] = e /\ area[f][2] = h
        BY <3>2
      <4> QED BY <2>4, <3>1, <3>2, <4>1 DEF Listing
    <3>4. e # cur
      BY <2>1, <2>2, <3>3
    <3>5. Files[cur][HashOf[cfg][cur]] \cap Files[e][h] # {}
      BY <2>4, <3>3 DEF Want
    <3>6. e \in Need[cfg][holder] /\ h # HashOf[cfg][e]
      BY <2>2, <3>4, <3>5 DEF MovesCovered, Deps
    <3>7. link[e] \in {None, Want(e)}
      BY <2>1, <3>6 DEF StaleInv, Deps
    <3> QED BY <3>3, <3>6, <3>7 DEF Want
  <2>5. \A c \in Dep : Want(c)' = Want(c)
    BY <2>1 DEF Want
  <2>6. \A p \in left' : p[1] \in new /\ area[p[2]] = None
    BY <2>1, <2>3, <2>4
  <2>7. Deps(holder)' = Deps(holder) /\ new \subseteq Dep
    BY <2>1
  <2>8. \A f \in fileset : \E c \in new : f \in Files[c][Want(c)]
    BY <2>1
  <2>9. new \cap complete = {} /\ new \subseteq Deps(holder) /\ todo \subseteq Deps(holder)
    BY <2>1
  <2> HIDE DEF Want, Deps
  <2>10. \A f \in fileset' : \E c \in new' : f \in Files[c][Want(c)']
    BY <2>1, <2>5, <2>7, <2>8
  <2> QED BY <2>1, <2>6, <2>7, <2>9, <2>10
<1>17. CASE CopyFile
  <2> PICK p \in left :
        /\ area[p[2]] = None
        /\ area' = [area EXCEPT ![p[2]] = <<p[1], Want(p[1])>>]
        /\ left' = left \ {p}
        /\ UNCHANGED <<step, cur, todo, fileset, new, invalid, holder, status>>
    BY <1>17 DEF CopyFile
  <2>1. step \in {"copy", "bin"} /\ UNCHANGED <<complete, cfg, tman>>
    BY <1>17 DEF CopyFile
  <2>2. ASSUME NEW q \in left' PROVE q[1] \in new /\ area'[q[2]] = None
    <3>1. q[1] \in new /\ p[1] \in new /\ area[q[2]] = None
      BY <2>1
    <3>2. q = <<q[1], q[2]>> /\ p = <<p[1], p[2]>> /\ q # p
      OBVIOUS
    <3>3. q[2] \in Files[q[1]][Want(q[1])] /\ p[2] \in Files[p[1]][Want(p[1])]
      BY <2>1 DEF Installing
    <3>4. q[1] \in Deps(holder) /\ p[1] \in Deps(holder) /\ q[1] \in Dep /\ p[1] \in Dep
          /\ holder \in Task /\ Want(p[1]) \in Hash
      BY <2>1, <3>1, WantType
    <3>5. q[2] # p[2]
      <4>1. CASE q[1] = p[1]
        BY <3>2, <4>1
      <4>2. CASE q[1] # p[1]
        <5>1. Files[q[1]][HashOf[cfg][q[1]]] \cap Files[p[1]][Want(p[1])] # {}
                => Want(p[1]) # HashOf[cfg][p[1]]
          BY <3>4, <4>2 DEF MovesCovered, Deps
        <5> QED BY <3>3, <5>1 DEF Want
      <4> QED BY <4>1, <4>2
    <3> QED BY <3>1, <3>5
  <2>3. \A c \in Dep : Want(c)' = Want(c)
    BY <2>1 DEF Want
  <2> HIDE DEF Want
  <2> QED BY <2>1, <2>2, <2>3
<1>18. CASE CopyDone
  BY <1>18 DEF CopyDone, Goto
<1>19. CASE InstallDone
  BY <1>19 DEF InstallDone, Goto
<1>20. CASE Postinst
  BY <1>20 DEF Postinst, Goto
<1>21. CASE LinkComplete
  BY <1>21 DEF LinkComplete, Raise
<1>22. CASE OpenIndex
  BY <1>22 DEF OpenIndex, Goto
<1>23. CASE WriteIndex
  BY <1>23 DEF WriteIndex
<1>30. ASSUME NEW g \in Config, NEW tasks \in SUBSET Task, StartBuild(g, tasks) PROVE FreshInv'
  BY <1>30 DEF StartBuild
<1>31. ASSUME NEW t \in Task, Lock(t) PROVE FreshInv'
  BY <1>31 DEF Lock
<1>32. ASSUME NEW t \in Task, BodyEnds(t) PROVE FreshInv'
  BY <1>32 DEF BodyEnds
<1>33. CASE Kill
  BY <1>33 DEF Kill
<1>34. CASE EndBuild
  BY <1>34 DEF EndBuild
<1>35. CASE UNCHANGED vars
  BY <1>35 DEF vars
<1> QED
  BY <1>1, <1>2, <1>3, <1>4, <1>5, <1>6, <1>7, <1>8, <1>9, <1>10, <1>11, <1>12, <1>13, <1>14,
     <1>15, <1>16, <1>17, <1>18, <1>19, <1>20, <1>21, <1>22, <1>23, <1>30, <1>31, <1>32,
     <1>33, <1>34, <1>35
     DEF Next, Prefunc, Rest

(* The loop over stale dependencies leaves none.                           *)
LEMMA StaleStep ==
  ASSUME TypeOK, TypeOK', Shape, Clear, StaleInv, FreshInv, kills' = kills, [Next]_vars
  PROVE  StaleInv'
<1> USE DEF TypeOK, Shape, sched, local, disk, RemoveSteps, InstallSteps, FilesSteps,
            GoneSteps, AboutSteps, UnneededSteps, RemovalSteps, LastSteps, InstallRun, CopySteps,
            Want, Deps, StaleInv, FreshInv, Clear
<1>1. CASE DanglingOpen
  BY <1>1 DEF DanglingOpen, Goto, Open, Exists, Dangling, Raise
<1>2. CASE RemoveFile
  BY <1>2 DEF RemoveFile
<1>3. CASE RemoveManifest
  BY <1>3 DEF RemoveManifest, Goto
<1>4. CASE UnlinkLink
  BY <1>4 DEF UnlinkLink, Goto
<1>5. CASE UnlinkComplete
  BY <1>5 DEF UnlinkComplete, Goto, Raise
<1>6. CASE DanglingDone
  BY <1>6 DEF DanglingDone, Goto
<1>7. CASE Invalidate
  BY <1>7 DEF Invalidate, Goto
<1>8. CASE UnneededOpen
  BY <1>8 DEF UnneededOpen, Goto, Open
<1>9. CASE UnneededDone
  BY <1>9 DEF UnneededDone, Goto
<1>10. CASE StaleOpen
  <2> PICK c \in todo :
        /\ todo' = todo \ {c}
        /\ IF Exists(c) /\ ~Current(c)
             THEN Open(c, "stale_files") /\ UNCHANGED link
             ELSE /\ link' = IF Exists(c) THEN link ELSE [link EXCEPT ![c] = None]
                  /\ UNCHANGED <<cur, left, step, holder, status>>
    BY <1>10 DEF StaleOpen
  <2>1. step = "stale" /\ c \in Dep /\ cfg' = cfg
    BY <1>10 DEF StaleOpen
  <2>2. CASE ~(Exists(c) /\ ~Current(c))
    <3>1. link'[c] \in {None, Want(c)} /\ \A e \in Dep \ {c} : link'[e] = link[e]
      BY <2>2 DEF Current
    <3>2. \A e \in Deps(holder) \ todo' : link'[e] \in {None, Want(e)}
      BY <2>1, <3>1
    <3> QED BY <2>1, <2>2, <3>2
  <2>3. CASE Exists(c) /\ ~Current(c)
    BY <2>1, <2>3 DEF Open, Goto
  <2> QED BY <2>2, <2>3
<1>11. CASE StaleDone
  BY <1>11 DEF StaleDone, Goto
<1>12. CASE Install
  <2> PICK c \in todo :
        /\ todo' = todo \ {c}
        /\ IF Current(c)
             THEN UNCHANGED <<link, step, cur, holder, status>>
             ELSE /\ link[c] = None
                  /\ link' = [link EXCEPT ![c] = Want(c)]
                  /\ cur' = c /\ Goto("check")
    BY <1>12 DEF Install
  <2>1. step = "install" /\ cfg' = cfg /\ c \in Dep
    BY <1>12 DEF Install
  <2>2. /\ link'[c] \in {link[c], Want(c)} /\ \A e \in Dep \ {c} : link'[e] = link[e]
        /\ holder' = holder /\ step' \in {"install", "check"}
    BY <2>1 DEF Goto
  <2>3. \A e \in Deps(holder) : link'[e] \in {None, Want(e)}
    BY <2>1, <2>2
  <2>4. Deps(holder)' = Deps(holder) /\ \A e \in Dep : Want(e)' = Want(e)
    BY <2>1, <2>2
  <2>5. Deps(holder) \subseteq Dep
    BY <2>1
  <2> HIDE DEF Want, Deps
  <2> QED BY <2>1, <2>2, <2>3, <2>4, <2>5
<1>13. CASE CheckFiles
  BY <1>13 DEF CheckFiles, Goto, Raise
<1>14. CASE OpenPool
  BY <1>14 DEF OpenPool, Goto
<1>15. CASE WritePool
  BY <1>15 DEF WritePool, Goto
<1>16. CASE LinkManifest
  BY <1>16 DEF LinkManifest, Goto, Raise
<1>17. CASE CopyFile
  BY <1>17 DEF CopyFile, Raise
<1>18. CASE CopyDone
  BY <1>18 DEF CopyDone, Goto
<1>19. CASE InstallDone
  BY <1>19 DEF InstallDone, Goto
<1>20. CASE Postinst
  BY <1>20 DEF Postinst, Goto
<1>21. CASE LinkComplete
  BY <1>21 DEF LinkComplete, Raise
<1>22. CASE OpenIndex
  BY <1>22 DEF OpenIndex, Goto
<1>23. CASE WriteIndex
  BY <1>23 DEF WriteIndex
<1>30. ASSUME NEW g \in Config, NEW tasks \in SUBSET Task, StartBuild(g, tasks) PROVE StaleInv'
  BY <1>30 DEF StartBuild
<1>31. ASSUME NEW t \in Task, Lock(t) PROVE StaleInv'
  BY <1>31 DEF Lock
<1>32. ASSUME NEW t \in Task, BodyEnds(t) PROVE StaleInv'
  BY <1>32 DEF BodyEnds
<1>33. CASE Kill
  BY <1>33 DEF Kill
<1>34. CASE EndBuild
  BY <1>34 DEF EndBuild
<1>35. CASE UNCHANGED vars
  BY <1>35 DEF vars
<1> QED
  BY <1>1, <1>2, <1>3, <1>4, <1>5, <1>6, <1>7, <1>8, <1>9, <1>10, <1>11, <1>12, <1>13, <1>14,
     <1>15, <1>16, <1>17, <1>18, <1>19, <1>20, <1>21, <1>22, <1>23, <1>30, <1>31, <1>32,
     <1>33, <1>34, <1>35
     DEF Next, Prefunc, Rest

(* No dependency drops out of all indexes while it is installed.           *)
LEMMA IndexStep ==
  ASSUME TypeOK, TypeOK', Shape, Clear, TaskInv, CompleteInv, LinkInv, FreshInv, IndexInv,
         kills' = kills, [Next]_vars
  PROVE  IndexInv'
<1> USE DEF TypeOK, Shape, sched, local, disk, RemoveSteps, InstallSteps, FilesSteps,
            GoneSteps, AboutSteps, UnneededSteps, RemovalSteps, LastSteps, InstallRun, CopySteps,
            Want, Deps, IndexInv, Dropped, Clear
<1>1. CASE DanglingOpen
  BY <1>1 DEF DanglingOpen, Goto, Open, Exists, Dangling, Raise
<1>2. CASE RemoveFile
  BY <1>2 DEF RemoveFile
<1>3. CASE RemoveManifest
  BY <1>3 DEF RemoveManifest, Goto
<1>4. CASE UnlinkLink
  <2>1. /\ link' = [link EXCEPT ![cur] = None] /\ cur \in Dep /\ cur' = cur
        /\ UNCHANGED <<index, holder, cfg, todo>>
        /\ step \in {"dangling_link", "unneeded_link", "stale_link"}
    BY <1>4 DEF UnlinkLink, Goto
  <2>2. /\ step = "dangling_link" => step' = "dangling"
        /\ step = "unneeded_link" => step' = "unneeded_complete"
        /\ step = "stale_link" => step' = "stale_complete"
    BY <1>4 DEF UnlinkLink, Goto
  <2>3. \A c \in Dep : link'[c] # None => c # cur /\ link[c] # None
    BY <2>1
  <2>4. step' \notin InstallRun /\ step \notin InstallRun
    BY <2>1, <2>2
  <2>5. \A c \in Dep : link'[c] # None => \E t \in Task : c \in index[t]
    BY <2>3, <2>4
  <2>6. \A c \in Dep : Dropped(c)' => Dropped(c) /\ c # cur
    BY <2>1, <2>3
  <2> HIDE DEF Dropped
  <2> QED BY <2>1, <2>2, <2>5, <2>6
<1>5. CASE UnlinkComplete
  BY <1>5 DEF UnlinkComplete, Goto, Raise
<1>6. CASE DanglingDone
  BY <1>6 DEF DanglingDone, Goto
<1>7. CASE Invalidate
  <2>1. UNCHANGED <<link, index, holder, cfg, cur>> /\ step = "invalidate"
    BY <1>7 DEF Invalidate, Goto
  <2>2. CASE step' = step
    BY <2>1, <2>2
  <2>3. CASE step' = "unneeded" /\ todo' = Unneeded
    <3>1. ASSUME NEW c \in Dep, Dropped(c), c \notin Unneeded
          PROVE  \E t \in Task \ {holder} : c \in index[t]
      <4>1. c \in complete
        BY <2>1, <3>1 DEF LinkInv
      <4>2. Whole(c)
        BY <2>1, <4>1 DEF CompleteInv
      <4>3. Exists(c)
        BY <4>2 DEF Whole, Exists
      <4> QED BY <3>1, <4>3 DEF Unneeded
    <3>2. \A c \in Dep : Dropped(c)' <=> Dropped(c)
      BY <2>1
    <3>3. \A c \in Dep : link'[c] # None => \E t \in Task : c \in index'[t]
      BY <2>1
    <3> HIDE DEF Dropped
    <3> QED BY <2>1, <2>3, <3>1, <3>2, <3>3
  <2> QED BY <1>7, <2>2, <2>3 DEF Invalidate, Goto
<1>8. CASE UnneededOpen
  BY <1>8 DEF UnneededOpen, Goto, Open
<1>9. CASE UnneededDone
  BY <1>9 DEF UnneededDone, Goto
<1>10. CASE StaleOpen
  BY <1>10 DEF StaleOpen, Goto, Open, Exists
<1>11. CASE StaleDone
  BY <1>11 DEF StaleDone, Goto
<1>12. CASE Install
  <2> PICK c \in todo :
        /\ todo' = todo \ {c}
        /\ IF Current(c)
             THEN UNCHANGED <<link, step, cur, holder, status>>
             ELSE /\ link[c] = None
                  /\ link' = [link EXCEPT ![c] = Want(c)]
                  /\ cur' = c /\ Goto("check")
    BY <1>12 DEF Install
  <2>1. step = "install" /\ UNCHANGED <<index, cfg>> /\ c \in Dep /\ c \in Deps(holder)
    BY <1>12 DEF Install, FreshInv
  <2>2. /\ holder' = holder /\ step' \in {"install", "check"}
        /\ \A e \in Dep \ {c} : link'[e] = link[e]
    BY <2>1 DEF Goto
  <2>3. \A e \in Dep : Dropped(e)' => Dropped(e)
    BY <2>1, <2>2
  <2>4. \A e \in Dep : link'[e] # None => e = c \/ link[e] # None
    BY <2>2
  <2> HIDE DEF Dropped
  <2> QED BY <2>1, <2>2, <2>3, <2>4
<1>13. CASE CheckFiles
  BY <1>13 DEF CheckFiles, Goto, Raise
<1>14. CASE OpenPool
  BY <1>14 DEF OpenPool, Goto
<1>15. CASE WritePool
  BY <1>15 DEF WritePool, Goto
<1>16. CASE LinkManifest
  BY <1>16 DEF LinkManifest, Goto, Raise
<1>17. CASE CopyFile
  BY <1>17 DEF CopyFile, Raise
<1>18. CASE CopyDone
  BY <1>18 DEF CopyDone, Goto
<1>19. CASE InstallDone
  BY <1>19 DEF InstallDone, Goto
<1>20. CASE Postinst
  BY <1>20 DEF Postinst, Goto
<1>21. CASE LinkComplete
  BY <1>21 DEF LinkComplete, Raise
<1>22. CASE OpenIndex
  BY <1>22 DEF OpenIndex, Goto
<1>23. CASE WriteIndex
  BY <1>23 DEF WriteIndex
<1>30. ASSUME NEW g \in Config, NEW tasks \in SUBSET Task, StartBuild(g, tasks) PROVE IndexInv'
  BY <1>30 DEF StartBuild
<1>31. ASSUME NEW t \in Task, Lock(t) PROVE IndexInv'
  BY <1>31 DEF Lock
<1>32. ASSUME NEW t \in Task, BodyEnds(t) PROVE IndexInv'
  BY <1>32 DEF BodyEnds
<1>33. CASE Kill
  BY <1>33 DEF Kill
<1>34. CASE EndBuild
  BY <1>34 DEF EndBuild
<1>35. CASE UNCHANGED vars
  BY <1>35 DEF vars
<1> QED
  BY <1>1, <1>2, <1>3, <1>4, <1>5, <1>6, <1>7, <1>8, <1>9, <1>10, <1>11, <1>12, <1>13, <1>14,
     <1>15, <1>16, <1>17, <1>18, <1>19, <1>20, <1>21, <1>22, <1>23, <1>30, <1>31, <1>32,
     <1>33, <1>34, <1>35
     DEF Next, Prefunc, Rest

(* A step of the prefunc that leaves indexes and stamps alone. *)
LEMMA StampKept ==
  ASSUME StampInv, UNCHANGED <<stamp, index, goal, torun, cfg>>,
         \A t \in Task : status[t] = "running" => status'[t] = "running",
         step # "index_write"
  PROVE  StampInv'
BY DEF StampInv, Deps

(* A stamp is written for the dependencies that the index lists.           *)
LEMMA StampStep ==
  ASSUME TypeOK, TypeOK', Shape, TaskInv, TaskInv', StampInv, dashed,
         kills' = kills, fails' = fails, [Next]_vars
  PROVE  StampInv'
<1> USE DEF TypeOK, Shape, TaskInv, sched, local, disk, RemoveSteps, InstallSteps, Deps, StampInv
<1>1. CASE DanglingOpen
  BY <1>1 DEF DanglingOpen, Goto, Open, Exists, Dangling, Raise
<1>2. CASE RemoveFile
  BY <1>2 DEF RemoveFile
<1>3. CASE RemoveManifest
  BY <1>3 DEF RemoveManifest, Goto
<1>4. CASE UnlinkLink
  BY <1>4 DEF UnlinkLink, Goto
<1>5. CASE UnlinkComplete
  <2>1. \A t \in Task : status[t] = "running" => status'[t] = "running"
    BY <1>5 DEF UnlinkComplete, Goto, Raise
  <2> QED BY <1>5, <2>1, StampKept DEF UnlinkComplete
<1>6. CASE DanglingDone
  BY <1>6 DEF DanglingDone, Goto
<1>7. CASE Invalidate
  <2>1. UNCHANGED <<index, status>> /\ \A t \in Task : stamp'[t] = stamp[t] \/ stamp'[t] = {}
    BY <1>7 DEF Invalidate, Goto
  <2>2. step # "index_write" /\ UNCHANGED <<goal, torun, cfg>>
    BY <1>7 DEF Invalidate
  <2>3. \A t \in Task : (\A s \in stamp[t] : DOMAIN s = index[t]) \/ status[t] = "running"
    BY <2>2
  <2>4. \A t \in Task : (\A s \in stamp'[t] : DOMAIN s = index'[t]) \/ status'[t] = "running"
    BY <2>1, <2>3
  <2> QED BY <2>2, <2>4, <2>1
<1>8. CASE UnneededOpen
  BY <1>8 DEF UnneededOpen, Goto, Open
<1>9. CASE UnneededDone
  BY <1>9 DEF UnneededDone, Goto
<1>10. CASE StaleOpen
  BY <1>10 DEF StaleOpen, Goto, Open, Exists
<1>11. CASE StaleDone
  BY <1>11 DEF StaleDone, Goto
<1>12. CASE Install
  BY <1>12 DEF Install, Goto
<1>13. CASE CheckFiles
  <2>1. \A t \in Task : status[t] = "running" => status'[t] = "running"
    BY <1>13 DEF CheckFiles, Goto, Raise
  <2> QED BY <1>13, <2>1, StampKept DEF CheckFiles
<1>14. CASE OpenPool
  BY <1>14 DEF OpenPool, Goto
<1>15. CASE WritePool
  BY <1>15 DEF WritePool, Goto
<1>16. CASE LinkManifest
  <2>1. \A t \in Task : status[t] = "running" => status'[t] = "running"
    BY <1>16 DEF LinkManifest, Goto, Raise
  <2> QED BY <1>16, <2>1, StampKept DEF LinkManifest
<1>17. CASE CopyFile
  <2>1. \A t \in Task : status[t] = "running" => status'[t] = "running"
    BY <1>17 DEF CopyFile, Raise
  <2> QED BY <1>17, <2>1, StampKept DEF CopyFile
<1>18. CASE CopyDone
  BY <1>18 DEF CopyDone, Goto
<1>19. CASE InstallDone
  BY <1>19 DEF InstallDone, Goto
<1>20. CASE Postinst
  BY <1>20 DEF Postinst, Goto
<1>21. CASE LinkComplete
  BY <1>21 DEF LinkComplete, Raise
<1>22. CASE OpenIndex
  BY <1>22 DEF OpenIndex, Goto
<1>23. CASE WriteIndex
  BY <1>23 DEF WriteIndex
<1>30. ASSUME NEW g \in Config, NEW tasks \in SUBSET Task, StartBuild(g, tasks) PROVE StampInv'
  <2>1. /\ cfg' = g /\ goal' = tasks /\ torun' = ToRun(g, tasks, Need[g])
        /\ UNCHANGED <<stamp, index, holder, step>> /\ holder = None
        /\ \A t \in Task : status[t] # "running"
    BY <1>30 DEF StartBuild
  <2>2. \A t \in Task : \A s \in stamp[t] : DOMAIN s = index[t]
    BY <2>1
  <2>3. ASSUME NEW t \in tasks \ torun' PROVE index[t] = Need[g][t]
    <3>1. [c \in Need[g][t] |-> HashOf[g][c]] \in stamp[t]
      BY <2>1, <2>3 DEF ToRun
    <3> QED BY <2>2, <3>1
  <2> QED BY <2>1, <2>2, <2>3
<1>31. ASSUME NEW t \in Task, Lock(t) PROVE StampInv'
  BY <1>31 DEF Lock
<1>32. ASSUME NEW t \in Task, BodyEnds(t) PROVE StampInv'
  <2>1. /\ stamp' = [stamp EXCEPT ![t] = {Inputs(t)}] /\ status[t] = "running"
        /\ status' = [status EXCEPT ![t] = "done"]
        /\ UNCHANGED <<index, holder, step, goal, torun, cfg>>
    BY <1>32 DEF BodyEnds
  <2>2. \A s \in stamp'[t] : DOMAIN s = index[t]
    BY <2>1 DEF Inputs
  <2> QED BY <2>1, <2>2
<1>33. CASE Kill
  BY <1>33 DEF Kill
<1>34. CASE EndBuild
  BY <1>34 DEF EndBuild
<1>35. CASE UNCHANGED vars
  BY <1>35 DEF vars
<1> QED
  BY <1>1, <1>2, <1>3, <1>4, <1>5, <1>6, <1>7, <1>8, <1>9, <1>10, <1>11, <1>12, <1>13, <1>14,
     <1>15, <1>16, <1>17, <1>18, <1>19, <1>20, <1>21, <1>22, <1>23, <1>30, <1>31, <1>32,
     <1>33, <1>34, <1>35
     DEF Next, Prefunc, Rest

(* The whole invariant.                                                    *)
BodyInv == IInv /\ TaskInv /\ BInv /\ FInv

LEMMA InitBodyInv == Init => BodyInv
<1>1. Init => TaskInv
  BY DEF Init, TaskInv
<1>2. Init => BInv
  BY DEF Init, BInv, CompleteInv, NewInv, PassedInv, SafeInv, LinkInv, FreshInv, StaleInv, IndexInv,
         InstallRun, CopySteps, AboutSteps, LastSteps, FilesSteps, GoneSteps, UnneededSteps,
         RemoveSteps
<1>3. Init => FInv
  BY DEF Init, FInv, StampInv
<1> QED BY <1>1, <1>2, <1>3, InitIInv DEF BodyInv

LEMMA BodyClear == MovesCovered /\ BodyInv /\ kills = 0 => Clear
BY NoRaise DEF BodyInv, IInv, BInv

LEMMA StepBodyInv == MovesCovered /\ BodyInv /\ [Next]_vars => BodyInv'
<1> SUFFICES ASSUME MovesCovered, BodyInv, [Next]_vars PROVE BodyInv'
  OBVIOUS
<1>1. IInv'
  BY StepIInv DEF BodyInv
<1>2. TaskInv'
  BY <1>1, TaskStep DEF BodyInv, IInv
<1>3. ASSUME kills' = 0
      PROVE  /\ CompleteInv' /\ NewInv' /\ PassedInv' /\ SafeInv'
             /\ LinkInv' /\ FreshInv' /\ StaleInv' /\ IndexInv'
  <2>1. kills = 0 /\ kills' = kills
    BY <1>3, KillsGrow DEF BodyInv, IInv
  <2>2. /\ TypeOK /\ TypeOK' /\ Shape /\ TaskInv
        /\ Listing /\ Installing /\ CompleteInv /\ NewInv /\ PassedInv /\ SafeInv
        /\ LinkInv /\ FreshInv /\ StaleInv /\ IndexInv
    BY <1>1, <2>1 DEF BodyInv, IInv, Sound, BInv
  <2>3. Clear
    BY <2>1, BodyClear
  <2>4. CompleteInv' /\ NewInv' /\ PassedInv' /\ SafeInv'
    BY <2>1, <2>2, CompleteStep, NewStep, PassedStep, SafeStep
  <2>5. LinkInv' /\ FreshInv'
    BY <2>1, <2>2, <2>3, LinkStep, FreshStep
  <2>6. StaleInv' /\ IndexInv'
    BY <2>1, <2>2, <2>3, StaleStep, IndexStep
  <2> QED BY <2>4, <2>5, <2>6
<1>4. ASSUME kills' = 0, fails' = 0, dashed' PROVE StampInv'
  <2>1. kills = 0 /\ fails = 0 /\ dashed
    BY <1>4, KillsGrow DEF BodyInv, IInv
  <2>2. StampInv
    BY <2>1 DEF BodyInv, FInv
  <2> QED BY <1>1, <1>2, <1>4, <2>1, <2>2, StampStep DEF BodyInv, IInv
<1> QED BY <1>1, <1>2, <1>3, <1>4 DEF BodyInv, BInv, FInv

(* BodyInv is invariant, if files move as the stale loop expects.          *)
LEMMA BodyInductive == ASSUME MovesCovered PROVE Spec => []BodyInv
<1>1. BodyInv /\ [Next]_vars => BodyInv'
  BY StepBodyInv
<1> QED BY <1>1, InitBodyInv, PTL DEF Spec

(* While the body of a task runs, every file of each of its dependencies is *)
(* in the sysroot with the hash of this build, whatever the prefuncs of    *)
(* other tasks install and remove next to it and whatever files moved      *)
(* between dependencies before, if no prefunc was cut short.               *)
THEOREM BodiesSeeDeps ==
  ASSUME MovesCovered
  PROVE  Spec => []BodySeesDeps
<1>1. BodyInv => BodySeesDeps
  <2> SUFFICES ASSUME BodyInv, kills = 0, NEW t \in Task, status[t] = "running", NEW c \in Deps(t)
               PROVE  Provided(c)
    BY DEF BodySeesDeps, InputsPresent
  <2>1. c \in complete /\ link[c] = Want(c) /\ (step \in RemovalSteps => cur # c)
    BY DEF BodyInv, BInv, SafeInv
  <2>2. Whole(c)
    BY <2>1 DEF BodyInv, BInv, CompleteInv
  <2> QED BY <2>1, <2>2 DEF Whole, Provided
<1> QED BY <1>1, BodyInductive, PTL

(* No prefunc raises at any of its checks before one was cut short: the    *)
(* manifests, links and files it meets are always those it expects,        *)
(* although bodies fail, configurations change and files move between      *)
(* dependencies.                                                           *)
THEOREM PrefuncsSucceed ==
  ASSUME MovesCovered
  PROVE  Spec => PrefuncSucceeds
<1> DEFINE Succeeds == \A t \in Task : status[t] = "extending" /\ status'[t] = "failed" => kills' > 0
<1>1. BodyInv /\ [Next]_vars => [Succeeds]_vars
  <2> SUFFICES ASSUME BodyInv, Next, NEW t \in Task, status[t] = "extending", status'[t] = "failed"
               PROVE  kills' > 0
    OBVIOUS
  <2>1. CASE kills = 0
    <3>1. Clear
      BY <2>1, BodyClear
    <3> USE DEF Clear
    <3>2. ~(DanglingOpen \/ UnlinkComplete \/ CheckFiles)
      BY <3>1 DEF DanglingOpen, UnlinkComplete, CheckFiles, Open, Goto
    <3>3. ~(LinkManifest \/ CopyFile \/ LinkComplete)
      BY <3>1 DEF LinkManifest, CopyFile, LinkComplete, Goto
    <3>4. ~(RemoveFile \/ RemoveManifest \/ UnlinkLink \/ DanglingDone \/ Invalidate)
      BY DEF RemoveFile, RemoveManifest, UnlinkLink, DanglingDone, Invalidate, Goto
    <3>5. ~(UnneededOpen \/ UnneededDone \/ StaleOpen \/ StaleDone \/ Install)
      BY DEF UnneededOpen, UnneededDone, StaleOpen, StaleDone, Install, Open, Goto
    <3>6. ~(OpenPool \/ WritePool \/ CopyDone \/ InstallDone \/ Postinst \/ OpenIndex)
      BY DEF OpenPool, WritePool, CopyDone, InstallDone, Postinst, OpenIndex, Goto
    <3>7. ~WriteIndex
      BY DEF WriteIndex, BodyInv, IInv, TypeOK
    <3>8. ~Prefunc
      BY <3>2, <3>3, <3>4, <3>5, <3>6, <3>7 DEF Prefunc
    <3>9. ASSUME NEW g \in Config, NEW tasks \in SUBSET Task, StartBuild(g, tasks) PROVE FALSE
      BY <3>9 DEF StartBuild
    <3>10. ASSUME NEW u \in Task, Lock(u) \/ BodyEnds(u) PROVE FALSE
      BY <3>10 DEF Lock, BodyEnds, BodyInv, IInv, TypeOK
    <3>11. Kill => kills' > 0
      BY <2>1 DEF Kill
    <3>12. ~EndBuild /\ ~Rest
      BY DEF EndBuild, Rest, vars
    <3> QED BY <3>8, <3>9, <3>10, <3>11, <3>12 DEF Next
  <2>2. CASE kills # 0
    <3>1. kills \in Nat /\ kills' \in Nat /\ (kills' = 0 => kills = 0)
      BY StepIInv, KillsGrow DEF BodyInv, IInv, TypeOK
    <3> QED BY <2>2, <3>1
  <2> QED BY <2>1, <2>2
<1> QED BY <1>1, BodyInductive, PTL DEF Spec, PrefuncSucceeds

(* Whatever is in the sysroot when no prefunc is at work belongs to a      *)
(* dependency that the index of a task lists.                              *)
LEMMA InstalledIsIndexed ==
  ASSUME BodyInv, kills = 0, holder = None, NEW f \in File, area[f] # None
  PROVE  \E t \in Task : area[f][1] \in index[t]
<1>1. step = "none" /\ area[f][1] \in Dep /\ link[area[f][1]] = area[f][2] /\ area[f][2] # None
  BY DEF BodyInv, IInv, Shape, Sound, Listing, TypeOK
<1> QED
  BY <1>1 DEF BodyInv, BInv, IndexInv, InstallRun, CopySteps, AboutSteps, LastSteps

(* A build that runs all tasks leaves nothing but what they need, at the   *)
(* hash they need, whatever earlier builds of other configurations left;   *)
(* while no body fails and STAMPCLEAN matches the stamps of the recipe, a  *)
(* build of all tasks leaves no dependency that none of them needs, also   *)
(* when it ran only those whose inputs changed.                            *)
THEOREM BuildsAreClean ==
  ASSUME MovesCovered
  PROVE  Spec => []SuccessIsClean
<1>1. ASSUME BodyInv, ~building, Succeeded, kills = 0, torun = Task PROVE NothingForeign
  <2> SUFFICES ASSUME NEW f \in File, area[f] # None
               PROVE  \E t \in Task : area[f][1] \in Deps(t) /\ area[f][2] = Want(area[f][1])
    BY DEF NothingForeign
  <2>1. holder = None
    BY <1>1 DEF BodyInv, IInv, Shape
  <2>2. PICK t \in Task : area[f][1] \in index[t]
    BY <1>1, <2>1, InstalledIsIndexed
  <2>3. status[t] = "done"
    BY <1>1 DEF Succeeded
  <2>4. area[f][1] \in Deps(t)
    BY <1>1, <2>2, <2>3 DEF BodyInv, TaskInv
  <2>5. link[area[f][1]] = Want(area[f][1])
    BY <1>1, <2>3, <2>4 DEF BodyInv, BInv, SafeInv
  <2>6. link[area[f][1]] = area[f][2]
    BY <1>1 DEF BodyInv, IInv, Sound, Listing
  <2> QED BY <2>4, <2>5, <2>6
<1>2. ASSUME BodyInv, ~building, goal = Task, Succeeded, kills = 0, fails = 0, dashed
      PROVE  NothingUnneeded
  <2> SUFFICES ASSUME NEW f \in File, area[f] # None PROVE \E t \in Task : area[f][1] \in Deps(t)
    BY DEF NothingUnneeded
  <2>1. holder = None
    BY <1>2 DEF BodyInv, IInv, Shape
  <2>2. PICK t \in Task : area[f][1] \in index[t]
    BY <1>2, <2>1, InstalledIsIndexed
  <2>3. CASE t \in torun
    BY <1>2, <2>2, <2>3 DEF BodyInv, TaskInv, Succeeded
  <2>4. CASE t \notin torun
    BY <1>2, <2>2, <2>4 DEF BodyInv, FInv, StampInv
  <2> QED BY <2>3, <2>4
<1>3. BodyInv => SuccessIsClean
  BY <1>1, <1>2 DEF SuccessIsClean
<1> QED BY <1>3, BodyInductive, PTL
=============================================================================
