------------------------- MODULE SstateInstallProofs -------------------------
(***************************************************************************)
(* Proofs about SstateInstall for every set of tasks, files, signatures,   *)
(* configurations and locks, and for any number of builds and failures.    *)
(***************************************************************************)
EXTENDS SstateInstall, TLAPS

(* Before sstate_install opens the manifest there is none, and the stamps  *)
(* STAMPCLEAN matches are gone: sstate_clean has removed both.             *)
CleanedInv ==
  \A t \in Task :
    /\ pc[t] \in {"clean_stamps", "body", "lock", "check"} => t \notin staged
    /\ pc[t] \in {"body", "lock", "check", "write", "index", "copy", "make_stamp"} =>
         stamp[t] \cap Matched(t) = {}

(* The manifest is complete before the first file is copied. *)
ManifestInv ==
  \A t \in Task :
    /\ pc[t] = "write" => t \in staged /\ Output(t) \subseteq manifest[t] \cup todo[t]
    /\ pc[t] = "index" => t \in staged /\ Output(t) \subseteq manifest[t]
    /\ pc[t] = "copy"  => t \in staged /\ todo[t] \subseteq manifest[t]

(* A file is listed by its writer, and while the writer is being           *)
(* uninstalled it is still among the entries to remove.                    *)
WriterInv ==
  \A f \in File : area[f] # None =>
    /\ area[f][1] \in staged
    /\ f \in manifest[area[f][1]]
    /\ pc[area[f][1]] \in {"clean_files", "stale_files"} => f \in todo[area[f][1]]

(* The index entry precedes the copy and so the stamp. *)
IndexInv ==
  /\ \A t \in Task : pc[t] \in {"copy", "make_stamp"} => Line(t, Sig(t)) \in indexed
  /\ StampedIsIndexed

IInv == TypeOK /\ CleanedInv /\ ManifestInv /\ WriterInv /\ IndexInv /\ NeverStagedTwice

USE ConstantsAssumption, NoneAssumption

(* The constants have the types that the type invariant needs. *)
LEMMA OutputType ==
  ASSUME TypeOK, NEW t \in Task
  PROVE  Sig(t) \in Version /\ Output(t) \subseteq File
<1> QED BY DEF TypeOK, Sig, Output

(* The initial state has the type and no file, manifest or worker. *)
LEMMA InitIInv == Init => IInv
<1> SUFFICES ASSUME Init PROVE IInv
  OBVIOUS
<1>1. TypeOK
  BY DEF Init, TypeOK, EndSteps
<1>2. CleanedInv /\ ManifestInv /\ WriterInv /\ IndexInv /\ NeverStagedTwice
  BY DEF Init, CleanedInv, ManifestInv, WriterInv, IndexInv, StampedIsIndexed,
         NeverStagedTwice
<1> QED BY <1>1, <1>2 DEF IInv

(* Every step of BitBake, of the handler and of a worker preserves IInv. *)
LEMMA NextIInv == IInv /\ [Next]_vars => IInv'
<1> SUFFICES ASSUME IInv, [Next]_vars PROVE IInv'
  OBVIOUS
<1> USE DEF IInv, TypeOK, CleanedInv, ManifestInv, WriterInv, IndexInv, StampedIsIndexed,
            NeverStagedTwice, RunSteps, StaleSteps, EndSteps, CleanSteps, InstallSteps,
            disk, worker, build, Goto, Release, Acquire, Output, Sig
<1>1. ASSUME NEW c \in Config, NEW g \in SUBSET Task, StartBuild(c, g) PROVE IInv'
  BY <1>1 DEF StartBuild, StaleTasks
<1>2. ASSUME NEW t \in Task, StaleOpen(t) PROVE IInv'
  BY <1>2 DEF StaleOpen
<1>3. ASSUME NEW t \in Task, LockForClean(t) PROVE IInv'
  BY <1>3 DEF LockForClean
<1>4. ASSUME NEW t \in Task, RemoveFile(t) PROVE IInv'
  BY <1>4 DEF RemoveFile
<1>5. ASSUME NEW t \in Task, RemoveManifest(t) PROVE IInv'
  BY <1>5 DEF RemoveManifest
<1>6. ASSUME NEW t \in Task, RemoveStamps(t) PROVE IInv'
  BY <1>6 DEF RemoveStamps
<1>7. ASSUME NEW t \in Task, Body(t) PROVE IInv'
  <2>1. CASE pc' = [pc EXCEPT ![t] = "failed"]
    BY <1>7, <2>1 DEF Body
  <2>2. CASE pc' = [pc EXCEPT ![t] = "lock"]
    BY <1>7, <2>2 DEF Body
  <2> QED BY <1>7, <2>1, <2>2 DEF Body
<1>8. ASSUME NEW t \in Task, LockForInstall(t) PROVE IInv'
  BY <1>8 DEF LockForInstall
<1>9. ASSUME NEW t \in Task, CheckFile(t) PROVE IInv'
  BY <1>9 DEF CheckFile
<1>10. ASSUME NEW t \in Task, OverlapFatal(t) PROVE IInv'
  BY <1>10 DEF OverlapFatal
<1>11. ASSUME NEW t \in Task, OpenManifest(t) PROVE IInv'
  BY <1>11 DEF OpenManifest
<1>12. ASSUME NEW t \in Task, WriteEntry(t) PROVE IInv'
  BY <1>12 DEF WriteEntry
<1>13. ASSUME NEW t \in Task, CloseManifest(t) PROVE IInv'
  BY <1>13 DEF CloseManifest
<1>14. ASSUME NEW t \in Task, AppendIndex(t) PROVE IInv'
  BY <1>14 DEF AppendIndex
<1>15. ASSUME NEW t \in Task, CopyFile(t) PROVE IInv'
  BY <1>15 DEF CopyFile
<1>16. ASSUME NEW t \in Task, CopyDone(t) PROVE IInv'
  BY <1>16 DEF CopyDone
<1>17. ASSUME NEW t \in Task, MakeStamp(t) PROVE IInv'
  BY <1>17 DEF MakeStamp
<1>18. ASSUME NEW t \in Task, Fail(t) PROVE IInv'
  BY <1>18 DEF Fail
<1>19. ASSUME NEW t \in Task, NEW m \in {"setscene", "real"}, Start(t, m) PROVE IInv'
  BY <1>19 DEF Start, CleanFrom
<1>20. CASE StaleDone
  BY <1>20 DEF StaleDone
<1>21. CASE HandlerDies
  BY <1>21 DEF HandlerDies
<1>22. CASE EndBuild
  BY <1>22 DEF EndBuild
<1>23. CASE UNCHANGED vars
  BY <1>23 DEF vars
<1>24. ASSUME NEW t \in Task, CleanAll(t) PROVE IInv'
  BY <1>24 DEF CleanAll, CleanFrom
<1>25. ASSUME NEW t \in Task, Fetch(t) PROVE IInv'
  <2>1. CASE pc' = [pc EXCEPT ![t] = "failed"]
    BY <1>25, <2>1 DEF Fetch
  <2>2. CASE pc' = [pc EXCEPT ![t] = CleanFrom(t)]
    BY <1>25, <2>2 DEF Fetch, CleanFrom
  <2> QED BY <1>25, <2>1, <2>2 DEF Fetch
<1> HIDE DEF IInv, TypeOK, CleanedInv, ManifestInv, WriterInv, IndexInv, StampedIsIndexed,
             NeverStagedTwice, RunSteps, StaleSteps, EndSteps, CleanSteps, InstallSteps,
             disk, worker, build, Goto, Release, Acquire, Output, Sig
<1> QED
  BY <1>1, <1>2, <1>3, <1>4, <1>5, <1>6, <1>7, <1>8, <1>9, <1>10, <1>11, <1>12, <1>13, <1>14, <1>15, <1>16, <1>17, <1>18, <1>19, <1>20, <1>21, <1>22, <1>23, <1>24, <1>25
     DEF Next, WorkerStep, Rest

(* IInv holds in every reachable state. *)
THEOREM Invariance == Spec => []IInv
<1> QED BY InitIInv, NextIInv, PTL DEF Spec

(* Type correctness of the shared area, the manifests and the workers. *)
THEOREM TypeCorrect == Spec => []TypeOK
<1>1. IInv => TypeOK
  BY DEF IInv
<1> QED BY <1>1, Invariance, PTL

(* Every file of the shared area is listed in the manifest of the task     *)
(* that wrote it, wherever a worker or the handler died.                   *)
THEOREM EveryFileAttributed == Spec => []Attributed
<1>1. IInv => Attributed
  BY DEF IInv, WriterInv, Attributed
<1> QED BY <1>1, Invariance, PTL

(* sstate_install never finds a manifest of its own task. *)
THEOREM NoPackageStagedTwice == Spec => []NeverStagedTwice
<1>1. IInv => NeverStagedTwice
  BY DEF IInv
<1> QED BY <1>1, Invariance, PTL

(* The index knows every task that has a stamp and a manifest. *)
THEOREM StampedTasksIndexed == Spec => []StampedIsIndexed
<1>1. IInv => StampedIsIndexed
  BY DEF IInv, IndexInv
<1> QED BY <1>1, Invariance, PTL

-----------------------------------------------------------------------------
(* The handler and the workers do not run at the same time. *)
PhaseInv ==
  \A t \in Task : /\ pc[t] \in RunSteps => phase = "run"
                  /\ pc[t] \in StaleSteps => phase = "stale" /\ t \in stale

(* Nothing runs before the first build. *)
LEMMA InitPhaseInv == Init => PhaseInv
BY DEF Init, PhaseInv, RunSteps, StaleSteps, CleanSteps, InstallSteps

(* A build enters its second phase when no stale task is left, and ends    *)
(* when no worker runs.                                                    *)
LEMMA NextPhaseInv == IInv /\ PhaseInv /\ [Next]_vars => PhaseInv'
<1> SUFFICES ASSUME TypeOK, PhaseInv, [Next]_vars PROVE PhaseInv'
  BY DEF IInv
<1> USE DEF TypeOK, PhaseInv, RunSteps, StaleSteps, EndSteps, CleanSteps, InstallSteps,
            disk, worker, build, Goto
<1>1. ASSUME NEW c \in Config, NEW g \in SUBSET Task, StartBuild(c, g) PROVE PhaseInv'
  BY <1>1 DEF StartBuild
<1>2. ASSUME NEW t \in Task, StaleOpen(t) PROVE PhaseInv'
  BY <1>2 DEF StaleOpen
<1>3. ASSUME NEW t \in Task, WorkerStep(t) PROVE PhaseInv'
  <2>1. CASE Fetch(t) \/ LockForClean(t)
    BY <2>1 DEF Fetch, CleanFrom, LockForClean
  <2>2. CASE RemoveFile(t) \/ RemoveManifest(t) \/ RemoveStamps(t)
    BY <2>2 DEF RemoveFile, RemoveManifest, RemoveStamps
  <2>3. CASE Body(t)
    <3>1. PICK p \in {"failed", "lock", "already_staged"} : pc' = [pc EXCEPT ![t] = p]
      BY <2>3 DEF Body
    <3> QED BY <2>3, <3>1 DEF Body
  <2>4. CASE LockForInstall(t) \/ CheckFile(t) \/ OverlapFatal(t) \/ OpenManifest(t)
    BY <2>4 DEF LockForInstall, CheckFile, OverlapFatal, OpenManifest
  <2>5. CASE WriteEntry(t) \/ CloseManifest(t) \/ AppendIndex(t) \/ CopyFile(t)
    BY <2>5 DEF WriteEntry, CloseManifest, AppendIndex, CopyFile
  <2>6. CASE CopyDone(t) \/ MakeStamp(t)
    BY <2>6 DEF CopyDone, MakeStamp
  <2> QED BY <1>3, <2>1, <2>2, <2>3, <2>4, <2>5, <2>6 DEF WorkerStep
<1>4. ASSUME NEW t \in Task, Fail(t) PROVE PhaseInv'
  BY <1>4 DEF Fail
<1>5. ASSUME NEW t \in Task, NEW m \in {"setscene", "real"}, Start(t, m) PROVE PhaseInv'
  BY <1>5 DEF Start, CleanFrom
<1>6. ASSUME NEW t \in Task, CleanAll(t) PROVE PhaseInv'
  BY <1>6 DEF CleanAll, CleanFrom
<1>7. CASE StaleDone \/ HandlerDies \/ EndBuild \/ UNCHANGED vars
  BY <1>7 DEF StaleDone, HandlerDies, EndBuild, vars
<1> HIDE DEF TypeOK, PhaseInv, RunSteps, StaleSteps, EndSteps, CleanSteps, InstallSteps,
             disk, worker, build, Goto
<1> QED BY <1>1, <1>2, <1>3, <1>4, <1>5, <1>6, <1>7 DEF Next, Rest

-----------------------------------------------------------------------------
(***************************************************************************)
(* Locks: when all tasks name a common lock.                               *)
(***************************************************************************)
CommonLock == \E l \in Lock : \A t \in Task : l \in Locks(t)

(* A worker holds its locks for what it is doing, and nobody installs while *)
(* another cleans.                                                          *)
HeldInv ==
  /\ \A t \in Task : /\ pc[t] = "clean_files" => held[t] = "clean"
                     /\ pc[t] \in InstallSteps => held[t] = "install"
  /\ \A t, u \in Task : t # u /\ held[t] = "clean" => held[u] = "none"

LInv == IInv /\ PhaseInv /\ HeldInv /\ CopiedStays

(* No worker runs in the initial state. *)
LEMMA InitLInv == Init => LInv
<1> SUFFICES ASSUME Init PROVE LInv
  OBVIOUS
<1>1. IInv
  BY InitIInv
<1> QED
  BY <1>1 DEF Init, LInv, PhaseInv, HeldInv, CopiedStays, RunSteps, StaleSteps,
              CleanSteps, InstallSteps

(* With a common lock, every step preserves LInv. *)
LEMMA NextLInv ==
  ASSUME CommonLock
  PROVE  LInv /\ [Next]_vars => LInv'
<1> SUFFICES ASSUME LInv, [Next]_vars PROVE LInv'
  OBVIOUS
<1>0. IInv'
  BY NextIInv DEF LInv
<1>01. PhaseInv'
  BY NextPhaseInv DEF LInv
<1> SUFFICES (HeldInv /\ CopiedStays)'
  BY <1>0, <1>01 DEF LInv
<1> USE DEF LInv, IInv, TypeOK, PhaseInv, HeldInv, CopiedStays, RunSteps, StaleSteps,
            EndSteps, CleanSteps, InstallSteps, disk, worker, build, Goto, Release,
            Acquire, Conflict, Locks, CommonLock, Output, Sig
<1>1. ASSUME NEW c \in Config, NEW g \in SUBSET Task, StartBuild(c, g) PROVE (HeldInv /\ CopiedStays)'
  BY <1>1 DEF StartBuild, StaleTasks
<1>2. ASSUME NEW t \in Task, StaleOpen(t) PROVE (HeldInv /\ CopiedStays)'
  BY <1>2 DEF StaleOpen
<1>3. ASSUME NEW t \in Task, LockForClean(t) PROVE (HeldInv /\ CopiedStays)'
  <2>1. \A u \in Task \ {t} : held[u] = "none"
    BY <1>3 DEF LockForClean
  <2>2. \A u \in Task \ {t} : pc[u] \notin InstallSteps \cup {"clean_files"}
    BY <2>1
  <2> QED BY <1>3, <2>1, <2>2 DEF LockForClean
<1>4. ASSUME NEW t \in Task, RemoveFile(t) PROVE (HeldInv /\ CopiedStays)'
  BY <1>4 DEF RemoveFile
<1>5. ASSUME NEW t \in Task, RemoveManifest(t) PROVE (HeldInv /\ CopiedStays)'
  BY <1>5 DEF RemoveManifest
<1>6. ASSUME NEW t \in Task, RemoveStamps(t) PROVE (HeldInv /\ CopiedStays)'
  BY <1>6 DEF RemoveStamps
<1>7. ASSUME NEW t \in Task, Body(t) PROVE (HeldInv /\ CopiedStays)'
  <2>1. PICK p \in {"failed", "lock", "already_staged"} : pc' = [pc EXCEPT ![t] = p]
    BY <1>7 DEF Body
  <2> QED BY <1>7, <2>1 DEF Body
<1>8. ASSUME NEW t \in Task, LockForInstall(t) PROVE (HeldInv /\ CopiedStays)'
  <2>1. \A u \in Task \ {t} : held[u] # "clean"
    BY <1>8 DEF LockForInstall
  <2>2. /\ held' = [held EXCEPT ![t] = "install"] /\ pc' = [pc EXCEPT ![t] = "check"]
        /\ phase = "run" /\ UNCHANGED <<area, phase, stale, cfg>>
        /\ todo' = [todo EXCEPT ![t] = Output(t)]
    BY <1>8 DEF LockForInstall
  <2> QED BY <2>1, <2>2
<1>9. ASSUME NEW t \in Task, CheckFile(t) PROVE (HeldInv /\ CopiedStays)'
  BY <1>9 DEF CheckFile
<1>10. ASSUME NEW t \in Task, OverlapFatal(t) PROVE (HeldInv /\ CopiedStays)'
  BY <1>10 DEF OverlapFatal
<1>11. ASSUME NEW t \in Task, OpenManifest(t) PROVE (HeldInv /\ CopiedStays)'
  BY <1>11 DEF OpenManifest
<1>12. ASSUME NEW t \in Task, WriteEntry(t) PROVE (HeldInv /\ CopiedStays)'
  BY <1>12 DEF WriteEntry
<1>13. ASSUME NEW t \in Task, CloseManifest(t) PROVE (HeldInv /\ CopiedStays)'
  BY <1>13 DEF CloseManifest
<1>14. ASSUME NEW t \in Task, AppendIndex(t) PROVE (HeldInv /\ CopiedStays)'
  BY <1>14 DEF AppendIndex
<1>15. ASSUME NEW t \in Task, CopyFile(t) PROVE (HeldInv /\ CopiedStays)'
  BY <1>15 DEF CopyFile
<1>16. ASSUME NEW t \in Task, CopyDone(t) PROVE (HeldInv /\ CopiedStays)'
  BY <1>16 DEF CopyDone
<1>17. ASSUME NEW t \in Task, MakeStamp(t) PROVE (HeldInv /\ CopiedStays)'
  BY <1>17 DEF MakeStamp
<1>18. ASSUME NEW t \in Task, Fail(t) PROVE (HeldInv /\ CopiedStays)'
  BY <1>18 DEF Fail
<1>19. ASSUME NEW t \in Task, NEW m \in {"setscene", "real"}, Start(t, m) PROVE (HeldInv /\ CopiedStays)'
  BY <1>19 DEF Start, CleanFrom
<1>20. CASE StaleDone
  BY <1>20 DEF StaleDone
<1>21. CASE HandlerDies
  BY <1>21 DEF HandlerDies
<1>22. CASE EndBuild
  BY <1>22 DEF EndBuild
<1>23. CASE UNCHANGED vars
  BY <1>23 DEF vars
<1>24. ASSUME NEW t \in Task, CleanAll(t) PROVE (HeldInv /\ CopiedStays)'
  BY <1>24 DEF CleanAll, CleanFrom
<1>25. ASSUME NEW t \in Task, Fetch(t) PROVE (HeldInv /\ CopiedStays)'
  <2>1. CASE pc' = [pc EXCEPT ![t] = "failed"]
    BY <1>25, <2>1 DEF Fetch
  <2>2. CASE pc' = [pc EXCEPT ![t] = CleanFrom(t)]
    BY <1>25, <2>2 DEF Fetch, CleanFrom
  <2> QED BY <1>25, <2>1, <2>2 DEF Fetch
<1> QED
  BY <1>1, <1>2, <1>3, <1>4, <1>5, <1>6, <1>7, <1>8, <1>9, <1>10, <1>11, <1>12, <1>13, <1>14, <1>15, <1>16, <1>17, <1>18, <1>19, <1>20, <1>21, <1>22, <1>23, <1>24, <1>25
     DEF Next, WorkerStep, Rest

(* Copied files stay until the locks are dropped, whatever the manifests   *)
(* of the other tasks list.                                                *)
THEOREM CopiedFilesStay ==
  ASSUME CommonLock
  PROVE  Spec => []CopiedStays
<1>1. LInv => CopiedStays
  BY DEF LInv
<1> QED BY <1>1, InitLInv, NextLInv, PTL DEF Spec

-----------------------------------------------------------------------------
(***************************************************************************)
(* Builds in which nothing dies, when no configuration gives a file to two *)
(* tasks.                                                                  *)
(***************************************************************************)
DisjointConfigs ==
  \A c \in Config : \A t, u \in Task : t # u =>
    Out[t][Want[c][t]] \cap Out[u][Want[c][u]] \subseteq AllowOverlap

(* The output of signature v is what the task has in the area. *)
InstalledAs(t, v) ==
  /\ manifest[t] \subseteq Out[t][v]
  /\ \A f \in Out[t][v] \ AllowOverlap : area[f] = <<t, v>>

(* A task that has a manifest when no worker runs on it is installed       *)
(* completely, as one of its stamps says, and as any stamp says that       *)
(* STAMPCLEAN matches; of these there is at most one.                      *)
Resting == EndSteps \cup {"fetch", "clean"}

RestingAt(t) ==
  /\ pc[t] \in Resting =>
       /\ t \in staged =>
            \E v \in Version : InstalledAs(t, v) /\ (pc[t] # "clean" => v \in stamp[t])
       /\ \A v \in stamp[t] \cap Matched(t) : t \in staged /\ InstalledAs(t, v)
  /\ \A v, w \in stamp[t] \cap Matched(t) : v = w

RestingInv == \A t \in Task : RestingAt(t)

(* While the files of a task are removed, those left are its own. *)
UninstallInv ==
  \A t \in Task :
    /\ pc[t] \in {"clean_files", "stale_files"} =>
         \A f \in todo[t] \ AllowOverlap : area[f] # None /\ area[f][1] = t
    /\ pc[t] = "clean" => t \in staged
    /\ pc[t] = "stale_stamps" => t \notin staged
    /\ t \in stale => /\ t \in staged \/ pc[t] = "stale_stamps"
                      /\ \E v \in stamp[t] \cap Matched(t) : v # Sig(t)

(* An output file that passed the check is absent until it is copied, and  *)
(* belongs to the task from then on.                                       *)
InstallInv ==
  \A t \in Task :
    /\ pc[t] \in InstallSteps => todo[t] \subseteq Output(t)
    /\ pc[t] \in {"write", "index", "copy", "make_stamp"} => manifest[t] \subseteq Output(t)
    /\ pc[t] = "make_stamp" => t \in staged
    /\ \A f \in Output(t) \ AllowOverlap :
         /\ pc[t] = "check" => f \in todo[t] \/ f \in match[t] \/ area[f] = None
         /\ pc[t] \in {"write", "index"} => area[f] = None
         /\ pc[t] = "copy" => IF f \in todo[t] THEN area[f] = None ELSE area[f] = <<t, Sig(t)>>
         /\ pc[t] = "make_stamp" => area[f] = <<t, Sig(t)>>
         /\ pc[t] = "done" /\ mode[t] # "cleanall" => area[f] = <<t, Sig(t)>>

(* What a task of this build has installed and will not have uninstalled   *)
(* belongs to its signature, or to one whose stamp STAMPCLEAN misses.      *)
Excused(t, v) == v = Sig(t) \/ v \notin Matched(t)

CurrentAt(t) == \E v \in Version : manifest[t] \subseteq Out[t][v] /\ Excused(t, v)

CurrentInv ==
  /\ phase # "stale" => stale = {}
  /\ phase # "off" =>
       \A t \in goal : /\ t \in staged /\ t \notin stale
                       /\ pc[t] \in EndSteps \cup {"fetch", "clean", "clean_files"}
                       => CurrentAt(t)

ClashInv ==
  goal = Task => \A t \in Task : pc[t] \in InstallSteps \cup {"clash"} =>
                                  match[t] \subseteq LeftByOthers(t)

FInv == RestingInv /\ UninstallInv /\ InstallInv /\ CurrentInv /\ ClashInv

(* Nothing is known of the area once something has died. *)
Alive == fails = 0 => FInv

(* Nothing is installed and nothing runs in the initial state. *)
LEMMA InitAlive == Init => Alive
<1> SUFFICES ASSUME Init PROVE FInv
  BY DEF Alive
<1> QED
  BY DEF Init, FInv, RestingInv, UninstallInv, InstallInv, CurrentInv, ClashInv,
         RestingAt, InstalledAs, InstallSteps

(* In a build, the manifest of a task of the goal lists files of one        *)
(* signature, and the task is excused for it.                              *)
LEMMA CurrentManifest ==
  ASSUME IInv, PhaseInv, FInv, phase = "run", NEW w \in goal, w \in staged
  PROVE  CurrentAt(w)
<1> USE DEF FInv, IInv, TypeOK, CleanedInv, ManifestInv, PhaseInv, InstallInv, CurrentInv,
            Output, Sig
<1>1. CASE pc[w] \in EndSteps \cup {"fetch", "clean", "clean_files"}
  BY <1>1
<1>2. CASE pc[w] \in {"write", "index", "copy", "make_stamp"}
  <2>1. Sig(w) \in Version /\ manifest[w] \subseteq Out[w][Sig(w)]
    BY <1>2
  <2> QED BY <2>1 DEF CurrentAt, Excused
<1>3. CASE pc[w] \in {"clean_stamps", "body", "lock", "check"} \cup StaleSteps
  BY <1>3 DEF StaleSteps
<1> QED BY <1>1, <1>2, <1>3 DEF RunSteps, CleanSteps, InstallSteps

(* The files of a task that is installed as one of its signatures are its  *)
(* own.                                                                    *)
LEMMA InstalledOwns ==
  ASSUME NEW t \in Task, NEW v \in Version, InstalledAs(t, v)
  PROVE  \A f \in manifest[t] \ AllowOverlap : area[f] # None /\ area[f][1] = t
<1>1. None # <<t, v>> /\ <<t, v>>[1] = t
  OBVIOUS
<1> QED BY <1>1 DEF InstalledAs

(* A task stays at rest when its manifest and stamps and what is in the    *)
(* area of it stay.                                                        *)
LEMMA RestingKept ==
  ASSUME NEW u \in Task, RestingAt(u), stamp'[u] = stamp[u],
         pc'[u] \in Resting =>
           /\ pc[u] \in Resting /\ (pc'[u] = "clean" \/ pc[u] # "clean")
           /\ u \in staged <=> u \in staged'
           /\ manifest'[u] = manifest[u]
           /\ \A f \in File \ AllowOverlap : \A v \in Version :
                area[f] = <<u, v>> => area'[f] = area[f]
  PROVE  RestingAt(u)'
<1>1. ASSUME pc'[u] \in Resting, NEW v \in Version, InstalledAs(u, v) PROVE InstalledAs(u, v)'
  BY <1>1 DEF InstalledAs
<1> QED BY <1>1 DEF RestingAt, Matched

(* What rests stays installed as its stamps say, and a task comes to rest  *)
(* with nothing installed or with its own output.                          *)
LEMMA NextResting ==
  ASSUME IInv, PhaseInv, FInv, [Next]_vars, fails' = fails
  PROVE  RestingInv'
<1> USE DEF FInv, IInv, TypeOK, CleanedInv, ManifestInv, WriterInv, PhaseInv, RestingInv,
            UninstallInv, InstallInv, CurrentInv, ClashInv, RunSteps, StaleSteps,
            EndSteps, CleanSteps, InstallSteps, disk, worker, build, Goto, Release,
            Acquire, Output, Sig
<1>0. /\ \A u \in Task : RestingAt(u)
      /\ Resting = {"idle", "done", "failed", "clash", "already_staged", "fetch", "clean"}
  BY DEF Resting
<1> HIDE DEF RestingInv
<1>1. ASSUME NEW c \in Config, NEW g \in SUBSET Task, StartBuild(c, g) PROVE RestingInv'
  <2>1. ASSUME NEW u \in Task PROVE RestingAt(u)'
    BY <1>0, <1>1, RestingKept DEF StartBuild, StaleTasks
  <2> QED BY <2>1 DEF RestingInv
<1>2. ASSUME NEW t \in Task, StaleOpen(t) PROVE RestingInv'
  <2>1. ASSUME NEW u \in Task PROVE RestingAt(u)'
    BY <1>0, <1>2, RestingKept DEF StaleOpen
  <2> QED BY <2>1 DEF RestingInv
<1>3. ASSUME NEW t \in Task, LockForClean(t) PROVE RestingInv'
  <2>1. ASSUME NEW u \in Task PROVE RestingAt(u)'
    BY <1>0, <1>3, RestingKept DEF LockForClean
  <2> QED BY <2>1 DEF RestingInv
<1>4. ASSUME NEW t \in Task, RemoveFile(t) PROVE RestingInv'
  <2>1. ASSUME NEW u \in Task PROVE RestingAt(u)'
    <3>1. PICK f \in todo[t] : area' = [area EXCEPT ![f] = None]
      BY <1>4 DEF RemoveFile
    <3>2. /\ pc[t] \in {"clean_files", "stale_files"}
          /\ UNCHANGED <<pc, staged, manifest, stamp>>
      BY <1>4 DEF RemoveFile
    <3>3. u # t => \A g \in File \ AllowOverlap, v \in Version :
                     area[g] = <<u, v>> => area'[g] = area[g]
      BY <3>1, <3>2
    <3> HIDE DEF FInv, IInv, PhaseInv, UninstallInv, InstallInv, CurrentInv, ClashInv
    <3> QED BY <1>0, <3>2, <3>3, RestingKept
  <2> QED BY <2>1 DEF RestingInv
<1>5. ASSUME NEW t \in Task, RemoveManifest(t) PROVE RestingInv'
  <2>1. ASSUME NEW u \in Task PROVE RestingAt(u)'
    BY <1>0, <1>5, RestingKept DEF RemoveManifest
  <2> QED BY <2>1 DEF RestingInv
<1>6. ASSUME NEW t \in Task, RemoveStamps(t) PROVE RestingInv'
  <2>1. ASSUME NEW u \in Task \ {t} PROVE RestingAt(u)'
    BY <1>0, <1>6, RestingKept DEF RemoveStamps
  <2>2. RestingAt(t)'
    BY <1>0, <1>6 DEF RemoveStamps, RestingAt, InstalledAs, Matched
  <2> QED BY <2>1, <2>2 DEF RestingInv
<1>7. ASSUME NEW t \in Task, Body(t) PROVE RestingInv'
  <2>1. ASSUME NEW u \in Task \ {t} PROVE RestingAt(u)'
    <3>1. UNCHANGED <<staged, manifest, area, stamp>> /\ pc'[u] = pc[u]
      BY <1>7 DEF Body
    <3> HIDE DEF FInv, IInv, PhaseInv, UninstallInv, InstallInv, CurrentInv, ClashInv, CleanedInv,
                 ManifestInv, WriterInv
    <3> QED BY <1>0, <3>1, RestingKept
  <2>2. RestingAt(t)'
    BY <1>0, <1>7 DEF Body, RestingAt, InstalledAs, Matched
  <2> QED BY <2>1, <2>2 DEF RestingInv
<1>8. ASSUME NEW t \in Task, LockForInstall(t) PROVE RestingInv'
  <2>1. ASSUME NEW u \in Task PROVE RestingAt(u)'
    BY <1>0, <1>8, RestingKept DEF LockForInstall
  <2> QED BY <2>1 DEF RestingInv
<1>9. ASSUME NEW t \in Task, CheckFile(t) PROVE RestingInv'
  <2>1. ASSUME NEW u \in Task PROVE RestingAt(u)'
    BY <1>0, <1>9, RestingKept DEF CheckFile
  <2> QED BY <2>1 DEF RestingInv
<1>10. ASSUME NEW t \in Task, OverlapFatal(t) PROVE RestingInv'
  <2>1. ASSUME NEW u \in Task \ {t} PROVE RestingAt(u)'
    BY <1>0, <1>10, RestingKept DEF OverlapFatal
  <2>2. RestingAt(t)'
    BY <1>0, <1>10 DEF OverlapFatal, RestingAt, InstalledAs, Matched
  <2> QED BY <2>1, <2>2 DEF RestingInv
<1>11. ASSUME NEW t \in Task, OpenManifest(t) PROVE RestingInv'
  <2>1. ASSUME NEW u \in Task PROVE RestingAt(u)'
    <3>1. /\ pc[t] = "check" /\ pc' = [pc EXCEPT ![t] = "write"]
          /\ staged' = staged \cup {t} /\ manifest' = [manifest EXCEPT ![t] = {}]
          /\ UNCHANGED <<area, stamp>>
      BY <1>11 DEF OpenManifest
    <3> HIDE DEF FInv, IInv, PhaseInv, UninstallInv, InstallInv, CurrentInv, ClashInv, CleanedInv,
                 ManifestInv, WriterInv
    <3> QED BY <1>0, <3>1, RestingKept
  <2> QED BY <2>1 DEF RestingInv
<1>12. ASSUME NEW t \in Task, WriteEntry(t) PROVE RestingInv'
  <2>1. ASSUME NEW u \in Task PROVE RestingAt(u)'
    <3>1. PICK f \in todo[t] : manifest' = [manifest EXCEPT ![t] = @ \cup {f}]
      BY <1>12 DEF WriteEntry
    <3>2. pc[t] = "write" /\ UNCHANGED <<pc, staged, area, stamp>>
      BY <1>12 DEF WriteEntry
    <3> HIDE DEF FInv, IInv, PhaseInv, UninstallInv, InstallInv, CurrentInv, ClashInv, CleanedInv,
                 ManifestInv, WriterInv
    <3> QED BY <1>0, <3>1, <3>2, RestingKept
  <2> QED BY <2>1 DEF RestingInv
<1>13. ASSUME NEW t \in Task, CloseManifest(t) PROVE RestingInv'
  <2>1. ASSUME NEW u \in Task PROVE RestingAt(u)'
    BY <1>0, <1>13, RestingKept DEF CloseManifest
  <2> QED BY <2>1 DEF RestingInv
<1>14. ASSUME NEW t \in Task, AppendIndex(t) PROVE RestingInv'
  <2>1. ASSUME NEW u \in Task PROVE RestingAt(u)'
    BY <1>0, <1>14, RestingKept DEF AppendIndex
  <2> QED BY <2>1 DEF RestingInv
<1>15. ASSUME NEW t \in Task, CopyFile(t) PROVE RestingInv'
  <2>1. ASSUME NEW u \in Task PROVE RestingAt(u)'
    <3>1. PICK f \in todo[t] : area' = [area EXCEPT ![f] = <<t, Sig(t)>>]
      BY <1>15 DEF CopyFile
    <3>2. pc[t] = "copy" /\ UNCHANGED <<pc, staged, manifest, stamp>>
      BY <1>15 DEF CopyFile
    <3>3. f \in Output(t) /\ (f \in AllowOverlap \/ area[f] = None)
      BY <3>2
    <3>4. \A g \in File \ AllowOverlap, v \in Version : area[g] = <<u, v>> => area'[g] = area[g]
      BY <3>1, <3>3
    <3> HIDE DEF FInv, IInv, PhaseInv, UninstallInv, InstallInv, CurrentInv, ClashInv
    <3> QED BY <1>0, <3>2, <3>4, RestingKept
  <2> QED BY <2>1 DEF RestingInv
<1>16. ASSUME NEW t \in Task, CopyDone(t) PROVE RestingInv'
  <2>1. ASSUME NEW u \in Task PROVE RestingAt(u)'
    BY <1>0, <1>16, RestingKept DEF CopyDone
  <2> QED BY <2>1 DEF RestingInv
<1>17. ASSUME NEW t \in Task, MakeStamp(t) PROVE RestingInv'
  <2>1. ASSUME NEW u \in Task \ {t} PROVE RestingAt(u)'
    BY <1>0, <1>17, RestingKept DEF MakeStamp
  <2>2. RestingAt(t)'
    <3>1. Sig(t) \in Version /\ t \in staged /\ InstalledAs(t, Sig(t))
      BY <1>17 DEF MakeStamp, InstalledAs
    <3>2. /\ pc' = [pc EXCEPT ![t] = "done"] /\ UNCHANGED <<staged, manifest, area>>
          /\ stamp' = [stamp EXCEPT ![t] = (@ \ Matched(t)) \cup {Sig(t)}]
      BY <1>17 DEF MakeStamp
    <3>4. \A v \in Version : v = Sig(t) => InstalledAs(t, v)'
      BY <3>1, <3>2 DEF InstalledAs
    <3>5. stamp'[t] = (stamp[t] \ Matched(t)) \cup {Sig(t)} /\ Sig(t) \in stamp'[t]
      BY <3>2
    <3> HIDE DEF FInv, IInv, PhaseInv, UninstallInv, InstallInv, CurrentInv, ClashInv, CleanedInv,
                 ManifestInv, WriterInv
    <3> QED BY <1>0, <3>1, <3>2, <3>4, <3>5 DEF RestingAt, Matched
  <2> QED BY <2>1, <2>2 DEF RestingInv
<1>18. ASSUME NEW t \in Task, Fail(t) PROVE RestingInv'
  <2>1. ASSUME NEW u \in Task PROVE RestingAt(u)'
    BY <1>0, <1>18, RestingKept DEF Fail
  <2> QED BY <2>1 DEF RestingInv
<1>19. ASSUME NEW t \in Task, NEW m \in {"setscene", "real"}, Start(t, m) PROVE RestingInv'
  <2>1. ASSUME NEW u \in Task PROVE RestingAt(u)'
    <3>1. PICK p \in {"fetch", "clean", "clean_stamps"} : pc' = [pc EXCEPT ![t] = p]
      BY <1>19 DEF Start, CleanFrom
    <3>2. pc[t] \in EndSteps /\ UNCHANGED <<staged, manifest, area, stamp>>
      BY <1>19 DEF Start
    <3> HIDE DEF FInv, IInv, PhaseInv, UninstallInv, InstallInv, CurrentInv, ClashInv, CleanedInv,
                 ManifestInv, WriterInv
    <3> QED BY <1>0, <3>1, <3>2, RestingKept
  <2> QED BY <2>1 DEF RestingInv
<1>20. ASSUME NEW t \in Task, CleanAll(t) PROVE RestingInv'
  <2>1. ASSUME NEW u \in Task \ {t} PROVE RestingAt(u)'
    BY <1>0, <1>20, RestingKept DEF CleanAll, CleanFrom
  <2>2. RestingAt(t)'
    <3>1. /\ pc[t] = "idle" /\ UNCHANGED <<staged, manifest, area>>
          /\ stamp'[t] \subseteq stamp[t]
          /\ pc'[t] = CleanFrom(t)
      BY <1>20 DEF CleanAll
    <3>2. \A v \in Version : InstalledAs(t, v) => InstalledAs(t, v)'
      BY <3>1 DEF InstalledAs
    <3>3. stamp[t] \subseteq Version
      OBVIOUS
    <3> HIDE DEF FInv, IInv, PhaseInv, UninstallInv, InstallInv, CurrentInv, ClashInv, CleanedInv,
                 ManifestInv, WriterInv
    <3> QED BY <1>0, <3>1, <3>2, <3>3 DEF RestingAt, CleanFrom, Matched
  <2> QED BY <2>1, <2>2 DEF RestingInv
<1>21. ASSUME NEW t \in Task, Fetch(t) PROVE RestingInv'
  <2>1. ASSUME NEW u \in Task PROVE RestingAt(u)'
    <3>1. PICK p \in {"failed", "clean", "clean_stamps"} : pc' = [pc EXCEPT ![t] = p]
      BY <1>21 DEF Fetch, CleanFrom
    <3>2. pc[t] = "fetch" /\ UNCHANGED <<staged, manifest, area, stamp>>
      BY <1>21 DEF Fetch
    <3> HIDE DEF FInv, IInv, PhaseInv, UninstallInv, InstallInv, CurrentInv, ClashInv, CleanedInv,
                 ManifestInv, WriterInv
    <3> QED BY <1>0, <3>1, <3>2, RestingKept
  <2> QED BY <2>1 DEF RestingInv
<1>22. CASE StaleDone
  <2>1. ASSUME NEW u \in Task PROVE RestingAt(u)'
    BY <1>0, <1>22, RestingKept DEF StaleDone
  <2> QED BY <2>1 DEF RestingInv
<1>23. CASE HandlerDies
  <2>1. ASSUME NEW u \in Task PROVE RestingAt(u)'
    BY <1>0, <1>23, RestingKept DEF HandlerDies
  <2> QED BY <2>1 DEF RestingInv
<1>24. CASE EndBuild
  <2>1. ASSUME NEW u \in Task PROVE RestingAt(u)'
    BY <1>0, <1>24, RestingKept DEF EndBuild
  <2> QED BY <2>1 DEF RestingInv
<1>25. CASE UNCHANGED vars
  <2>1. ASSUME NEW u \in Task PROVE RestingAt(u)'
    BY <1>0, <1>25, RestingKept DEF vars
  <2> QED BY <2>1 DEF RestingInv
<1> HIDE DEF FInv, IInv, PhaseInv, RestingInv, UninstallInv, InstallInv, CurrentInv,
             ClashInv, Acquire, Goto, Release, disk, worker, build
<1> QED
  BY <1>1, <1>2, <1>3, <1>4, <1>5, <1>6, <1>7, <1>8, <1>9, <1>10, <1>11, <1>12, <1>13, <1>14, <1>15, <1>16, <1>17, <1>18, <1>19, <1>20, <1>21, <1>22, <1>23, <1>24, <1>25
     DEF Next, WorkerStep, Rest

(* Without deaths every step preserves FInv. *)
LEMMA NextFInv ==
  ASSUME DisjointConfigs, IInv, PhaseInv, FInv, [Next]_vars, fails' = fails
  PROVE  FInv'
<1>0. RestingInv'
  BY NextResting
<1> DEFINE Goal == UninstallInv /\ InstallInv /\ CurrentInv /\ ClashInv
<1> SUFFICES Goal'
  BY <1>0 DEF FInv
<1> USE DEF FInv, IInv, TypeOK, CleanedInv, ManifestInv, WriterInv, PhaseInv, RestingInv,
            UninstallInv, InstallInv, CurrentInv, ClashInv, RunSteps, StaleSteps,
            EndSteps, CleanSteps, InstallSteps, disk, worker, build, Goto, Release,
            Acquire, Output, Sig
<1>01. \A t \in Task : /\ t \in staged /\ pc[t] \in Resting =>
                           \A f \in manifest[t] \ AllowOverlap : area[f] # None /\ area[f][1] = t
  BY InstalledOwns DEF RestingAt
<1>02. Resting = {"idle", "done", "failed", "clash", "already_staged", "fetch", "clean"}
  BY DEF Resting
<1>03. \A t \in Task : CurrentAt(t) /\ manifest'[t] = manifest[t] /\ cfg' = cfg => CurrentAt(t)'
  BY DEF CurrentAt, Excused, Matched
<1> HIDE DEF RestingInv
<1>1. ASSUME NEW c \in Config, NEW g \in SUBSET Task, StartBuild(c, g) PROVE Goal'
  <2>1. UninstallInv'
    BY <1>1 DEF StartBuild, StaleTasks, IndexInv, StampedIsIndexed
  <2>2. InstallInv'
    BY <1>1 DEF StartBuild, StaleTasks, IndexInv, StampedIsIndexed
  <2>3. CurrentInv'
    <3>1. ASSUME NEW t \in g, t \in staged, t \notin StaleTasks(c, g), phase = "off", cfg' = c,
                 UNCHANGED manifest
          PROVE  CurrentAt(t)'
      <4>1. PICK v \in Version : InstalledAs(t, v) /\ v \in stamp[t]
        BY <1>02, <3>1 DEF RestingInv, RestingAt
      <4>2. v = Want[c][t] \/ v \notin Matched(t)
        BY <3>1, <4>1 DEF StaleTasks, IndexInv, StampedIsIndexed
      <4> QED BY <3>1, <4>1, <4>2 DEF CurrentAt, Excused, InstalledAs, Matched
    <3> QED BY <1>1, <3>1 DEF StartBuild
  <2>4. ClashInv'
    BY <1>1 DEF StartBuild, StaleTasks, IndexInv, StampedIsIndexed
  <2> QED BY <2>1, <2>2, <2>3, <2>4
<1>2. ASSUME NEW t \in Task, StaleOpen(t) PROVE Goal'
  <2>1. UninstallInv'
    BY <1>01, <1>02, <1>2 DEF StaleOpen
  <2>2. InstallInv'
    BY <1>2 DEF StaleOpen
  <2>3. CurrentInv'
    BY <1>03, <1>2 DEF StaleOpen
  <2>4. ClashInv'
    BY <1>2 DEF StaleOpen
  <2> QED BY <2>1, <2>2, <2>3, <2>4
<1>3. ASSUME NEW t \in Task, LockForClean(t) PROVE Goal'
  <2>1. UninstallInv'
    BY <1>01, <1>02, <1>3 DEF LockForClean
  <2>2. InstallInv'
    BY <1>3 DEF LockForClean
  <2>3. CurrentInv'
    BY <1>03, <1>3 DEF LockForClean
  <2>4. ClashInv'
    BY <1>3 DEF LockForClean
  <2> QED BY <2>1, <2>2, <2>3, <2>4
<1>4. ASSUME NEW t \in Task, RemoveFile(t) PROVE Goal'
  <2>1. UninstallInv'
    BY <1>4 DEF RemoveFile
  <2>2. InstallInv'
    BY <1>4 DEF RemoveFile
  <2>3. CurrentInv'
    BY <1>03, <1>4 DEF RemoveFile
  <2>4. ClashInv'
    BY <1>4 DEF RemoveFile
  <2> QED BY <2>1, <2>2, <2>3, <2>4
<1>5. ASSUME NEW t \in Task, RemoveManifest(t) PROVE Goal'
  <2>1. UninstallInv'
    BY <1>5 DEF RemoveManifest
  <2>2. InstallInv'
    BY <1>5 DEF RemoveManifest
  <2>3. CurrentInv'
    BY <1>03, <1>5 DEF RemoveManifest
  <2>4. ClashInv'
    BY <1>5 DEF RemoveManifest
  <2> QED BY <2>1, <2>2, <2>3, <2>4
<1>6. ASSUME NEW t \in Task, RemoveStamps(t) PROVE Goal'
  <2>1. UninstallInv'
    BY <1>6 DEF RemoveStamps
  <2>2. InstallInv'
    BY <1>6 DEF RemoveStamps
  <2>3. CurrentInv'
    BY <1>03, <1>6 DEF RemoveStamps
  <2>4. ClashInv'
    BY <1>6 DEF RemoveStamps
  <2> QED BY <2>1, <2>2, <2>3, <2>4
<1>7. ASSUME NEW t \in Task, Body(t) PROVE Goal'
  <2>1. UninstallInv'
    BY <1>7 DEF Body
  <2>2. InstallInv'
    BY <1>7 DEF Body
  <2>3. CurrentInv'
    BY <1>03, <1>7 DEF Body
  <2>4. ClashInv'
    BY <1>7 DEF Body
  <2> QED BY <2>1, <2>2, <2>3, <2>4
<1>8. ASSUME NEW t \in Task, LockForInstall(t) PROVE Goal'
  <2>1. UninstallInv'
    BY <1>8 DEF LockForInstall
  <2>2. InstallInv'
    BY <1>8 DEF LockForInstall
  <2>3. CurrentInv'
    BY <1>03, <1>8 DEF LockForInstall
  <2>4. ClashInv'
    BY <1>8 DEF LockForInstall
  <2> QED BY <2>1, <2>2, <2>3, <2>4
<1>9. ASSUME NEW t \in Task, CheckFile(t) PROVE Goal'
  <2>1. UninstallInv'
    BY <1>9 DEF CheckFile
  <2>2. InstallInv'
    BY <1>9 DEF CheckFile
  <2>3. CurrentInv'
    BY <1>03, <1>9 DEF CheckFile
  <2>4. ClashInv'
    <3>1. PICK f \in todo[t] :
            match' = [match EXCEPT ![t] =
                        IF area[f] # None /\ f \notin AllowOverlap THEN @ \cup {f} ELSE @]
      BY <1>9 DEF CheckFile
    <3>2. pc[t] = "check" /\ phase = "run" /\ UNCHANGED <<pc, goal>>
      BY <1>9 DEF CheckFile
    <3>3. ASSUME goal = Task, area[f] # None, f \notin AllowOverlap PROVE f \in LeftByOthers(t)
      <4>1. f \in File /\ f \in Output(t) /\ t \notin staged
        BY <3>2
      <4>2. PICK w \in Task : w \in staged /\ f \in manifest[w]
        BY <3>3, <4>1
      <4>3. PICK v \in Version : manifest[w] \subseteq Out[w][v] /\ Excused(w, v)
        BY <3>2, <3>3, <4>2, CurrentManifest DEF CurrentAt
      <4>4. w # t /\ f \in Out[w][v]
        BY <4>1, <4>2, <4>3
      <4>5. v # Sig(w)
        BY <3>3, <4>1, <4>4 DEF DisjointConfigs
      <4> QED BY <4>1, <4>3, <4>4, <4>5 DEF Excused, LeftByOthers
    <3> QED BY <3>1, <3>2, <3>3 DEF LeftByOthers
  <2> QED BY <2>1, <2>2, <2>3, <2>4
<1>10. ASSUME NEW t \in Task, OverlapFatal(t) PROVE Goal'
  <2>1. UninstallInv'
    BY <1>10 DEF OverlapFatal
  <2>2. InstallInv'
    BY <1>10 DEF OverlapFatal
  <2>3. CurrentInv'
    BY <1>03, <1>10 DEF OverlapFatal
  <2>4. ClashInv'
    BY <1>10 DEF OverlapFatal
  <2> QED BY <2>1, <2>2, <2>3, <2>4
<1>11. ASSUME NEW t \in Task, OpenManifest(t) PROVE Goal'
  <2>1. UninstallInv'
    BY <1>11 DEF OpenManifest
  <2>2. InstallInv'
    BY <1>11 DEF OpenManifest
  <2>3. CurrentInv'
    BY <1>03, <1>11 DEF OpenManifest
  <2>4. ClashInv'
    BY <1>11 DEF OpenManifest
  <2> QED BY <2>1, <2>2, <2>3, <2>4
<1>12. ASSUME NEW t \in Task, WriteEntry(t) PROVE Goal'
  <2>1. UninstallInv'
    BY <1>12 DEF WriteEntry
  <2>2. InstallInv'
    BY <1>12 DEF WriteEntry
  <2>3. CurrentInv'
    BY <1>03, <1>12 DEF WriteEntry
  <2>4. ClashInv'
    BY <1>12 DEF WriteEntry
  <2> QED BY <2>1, <2>2, <2>3, <2>4
<1>13. ASSUME NEW t \in Task, CloseManifest(t) PROVE Goal'
  <2>1. UninstallInv'
    BY <1>13 DEF CloseManifest
  <2>2. InstallInv'
    BY <1>13 DEF CloseManifest
  <2>3. CurrentInv'
    BY <1>03, <1>13 DEF CloseManifest
  <2>4. ClashInv'
    BY <1>13 DEF CloseManifest
  <2> QED BY <2>1, <2>2, <2>3, <2>4
<1>14. ASSUME NEW t \in Task, AppendIndex(t) PROVE Goal'
  <2>1. UninstallInv'
    BY <1>14 DEF AppendIndex
  <2>2. InstallInv'
    BY <1>14 DEF AppendIndex
  <2>3. CurrentInv'
    BY <1>03, <1>14 DEF AppendIndex
  <2>4. ClashInv'
    BY <1>14 DEF AppendIndex
  <2> QED BY <2>1, <2>2, <2>3, <2>4
<1>15. ASSUME NEW t \in Task, CopyFile(t) PROVE Goal'
  <2>1. UninstallInv'
    BY <1>15 DEF CopyFile
  <2>2. InstallInv'
    <3>1. PICK f \in todo[t] : /\ area' = [area EXCEPT ![f] = <<t, Sig(t)>>]
                              /\ todo' = [todo EXCEPT ![t] = @ \ {f}]
      BY <1>15 DEF CopyFile
    <3>2. pc[t] = "copy" /\ UNCHANGED <<pc, match, manifest, staged, cfg, mode>>
      BY <1>15 DEF CopyFile
    <3>3. f \in File /\ f \in Output(t) /\ (f \in AllowOverlap \/ area[f] = None)
      BY <3>2
    <3>4. ASSUME NEW u \in Task, u # t, NEW g \in Output(u) \ AllowOverlap
          PROVE  /\ todo'[u] = todo[u]
                 /\ area'[g] = area[g] \/ /\ area[g] = None /\ area'[g] = <<t, Sig(t)>>
                                          /\ g \in Output(t)
      <4>1. todo'[u] = todo[u] /\ g \in File
        BY <3>1, <3>4
      <4>2. CASE g = f
        BY <3>1, <3>3, <4>1, <4>2
      <4>3. CASE g # f
        BY <3>1, <4>1, <4>3
      <4> QED BY <4>1, <4>2, <4>3
    <3>5. ASSUME NEW g \in Output(t) \ AllowOverlap
          PROVE  IF g \in todo'[t] THEN area'[g] = None ELSE area'[g] = <<t, Sig(t)>>
      BY <3>1, <3>2, <3>3
    <3>6. ASSUME NEW u \in Task, u # t, NEW g \in Output(u) \ AllowOverlap
          PROVE  g \notin Output(t)
      BY <3>6 DEF DisjointConfigs
    <3> QED BY <3>1, <3>2, <3>4, <3>5, <3>6
  <2>3. CurrentInv'
    BY <1>03, <1>15 DEF CopyFile
  <2>4. ClashInv'
    BY <1>15 DEF CopyFile
  <2> QED BY <2>1, <2>2, <2>3, <2>4
<1>16. ASSUME NEW t \in Task, CopyDone(t) PROVE Goal'
  <2>1. UninstallInv'
    BY <1>16 DEF CopyDone
  <2>2. InstallInv'
    BY <1>16 DEF CopyDone
  <2>3. CurrentInv'
    BY <1>03, <1>16 DEF CopyDone
  <2>4. ClashInv'
    BY <1>16 DEF CopyDone
  <2> QED BY <2>1, <2>2, <2>3, <2>4
<1>17. ASSUME NEW t \in Task, MakeStamp(t) PROVE Goal'
  <2>1. UninstallInv'
    BY <1>17 DEF MakeStamp
  <2>2. InstallInv'
    BY <1>17 DEF MakeStamp
  <2>3. CurrentInv'
    <3>1. CurrentAt(t)'
      <4>1. Sig(t) \in Version /\ manifest[t] \subseteq Out[t][Sig(t)]
        BY <1>17 DEF MakeStamp
      <4> QED BY <4>1, <1>17 DEF MakeStamp, CurrentAt, Excused
    <3> QED BY <1>03, <1>17, <3>1 DEF MakeStamp
  <2>4. ClashInv'
    BY <1>17 DEF MakeStamp
  <2> QED BY <2>1, <2>2, <2>3, <2>4
<1>18. ASSUME NEW t \in Task, Fail(t) PROVE Goal'
  <2>1. UninstallInv'
    BY <1>18 DEF Fail
  <2>2. InstallInv'
    BY <1>18 DEF Fail
  <2>3. CurrentInv'
    BY <1>03, <1>18 DEF Fail
  <2>4. ClashInv'
    BY <1>18 DEF Fail
  <2> QED BY <2>1, <2>2, <2>3, <2>4
<1>19. ASSUME NEW t \in Task, NEW m \in {"setscene", "real"}, Start(t, m) PROVE Goal'
  <2>1. UninstallInv'
    BY <1>19 DEF Start, CleanFrom
  <2>2. InstallInv'
    BY <1>19 DEF Start, CleanFrom
  <2>3. CurrentInv'
    BY <1>03, <1>19 DEF Start, CleanFrom
  <2>4. ClashInv'
    BY <1>19 DEF Start, CleanFrom
  <2> QED BY <2>1, <2>2, <2>3, <2>4
<1>20. ASSUME NEW t \in Task, CleanAll(t) PROVE Goal'
  <2>1. UninstallInv'
    BY <1>20 DEF CleanAll, CleanFrom
  <2>2. InstallInv'
    BY <1>20 DEF CleanAll, CleanFrom
  <2>3. CurrentInv'
    BY <1>03, <1>20 DEF CleanAll, CleanFrom
  <2>4. ClashInv'
    BY <1>20 DEF CleanAll, CleanFrom
  <2> QED BY <2>1, <2>2, <2>3, <2>4
<1>21. ASSUME NEW t \in Task, Fetch(t) PROVE Goal'
  <2>1. UninstallInv'
    BY <1>21 DEF Fetch, CleanFrom
  <2>2. InstallInv'
    BY <1>21 DEF Fetch, CleanFrom
  <2>3. CurrentInv'
    BY <1>03, <1>21 DEF Fetch, CleanFrom
  <2>4. ClashInv'
    BY <1>21 DEF Fetch, CleanFrom
  <2> QED BY <2>1, <2>2, <2>3, <2>4
<1>22. CASE StaleDone
  BY <1>03, <1>22 DEF StaleDone
<1>23. CASE HandlerDies
  BY <1>23 DEF HandlerDies
<1>24. CASE EndBuild
  BY <1>03, <1>24 DEF EndBuild
<1>25. CASE UNCHANGED vars
  BY <1>03, <1>25 DEF vars, LeftByOthers, Matched
<1> HIDE DEF Goal, FInv, IInv, PhaseInv, RestingInv, UninstallInv, InstallInv, CurrentInv,
             ClashInv, Acquire, Goto, Release, disk, worker, build
<1> QED
  BY <1>1, <1>2, <1>3, <1>4, <1>5, <1>6, <1>7, <1>8, <1>9, <1>10, <1>11, <1>12, <1>13, <1>14, <1>15, <1>16, <1>17, <1>18, <1>19, <1>20, <1>21, <1>22, <1>23, <1>24, <1>25
     DEF Next, WorkerStep, Rest

(* A death ends what FInv says, every other step preserves it.             *)
LEMMA NextAlive ==
  ASSUME DisjointConfigs
  PROVE  IInv /\ PhaseInv /\ Alive /\ [Next]_vars => Alive'
<1> SUFFICES ASSUME IInv, PhaseInv, Alive, [Next]_vars, fails' = 0 PROVE FInv'
  BY DEF Alive
<1>1. fails' = fails \/ fails' = fails + 1
  BY DEF Next, WorkerStep, Rest, vars, disk, build, worker, StartBuild, StaleOpen, StaleDone,
         Start, CleanAll, Fetch, LockForClean, RemoveFile, RemoveManifest, RemoveStamps, Body,
         LockForInstall, CheckFile, OverlapFatal, OpenManifest, WriteEntry, CloseManifest,
         AppendIndex, CopyFile, CopyDone, MakeStamp, Fail, HandlerDies, EndBuild
<1>2. fails \in Nat
  BY DEF IInv, TypeOK
<1>3. fails = 0 /\ fails' = fails
  BY <1>1, <1>2
<1> QED BY <1>3, NextFInv DEF Alive

(* While nothing dies, a stamp that STAMPCLEAN matches means that the files *)
(* are there, for any mixture of versions with and without a "-".          *)
THEOREM StampsTellTheTruth ==
  ASSUME DisjointConfigs
  PROVE  Spec => []StampedIsInstalled
<1>1. Alive => StampedIsInstalled
  BY DEF Alive, FInv, RestingInv, RestingAt, Resting, InstalledAs, StampedIsInstalled
<1> QED
  BY <1>1, InitIInv, NextIInv, InitPhaseInv, NextPhaseInv, InitAlive, NextAlive, PTL DEF Spec

(* While nothing dies, what a build has installed stays until it ends,     *)
(* whatever other builds left behind.                                      *)
THEOREM BuiltStaysInstalled ==
  ASSUME DisjointConfigs
  PROVE  Spec => []DoneIsInstalled
<1>1. Alive => DoneIsInstalled
  BY DEF Alive, FInv, InstallInv, DoneIsInstalled
<1> QED
  BY <1>1, InitIInv, NextIInv, InitPhaseInv, NextPhaseInv, InitAlive, NextAlive, PTL DEF Spec

(* While nothing dies, a build of every task meets the overlap error only  *)
(* over files of tasks with stamps that STAMPCLEAN misses, however the     *)
(* files moved between tasks since earlier builds.                         *)
THEOREM FullBuildsDoNotClash ==
  ASSUME DisjointConfigs
  PROVE  Spec => []NoSpuriousClash
<1>1. Alive => NoSpuriousClash
  BY DEF Alive, FInv, ClashInv, NoSpuriousClash
<1> QED
  BY <1>1, InitIInv, NextIInv, InitPhaseInv, NextPhaseInv, InitAlive, NextAlive, PTL DEF Spec

=============================================================================
