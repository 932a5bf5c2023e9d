---------------------------- MODULE SstateInstall ----------------------------
(***************************************************************************)
(* The shared area of a build directory and the manifests that say which   *)
(* sstate task put which file there (classes-global/sstate.bbclass).       *)
(*                                                                         *)
(* A task t of the current configuration cfg has the signature             *)
(* Want[cfg][t]; its output of that signature is the set of shared files   *)
(* Out[t][Want[cfg][t]].  A worker process runs one task:                  *)
(*                                                                         *)
(*    sstate_clean   take the locks, remove the files the manifest lists,  *)
(*                   remove the manifest, remove the stamps that           *)
(*                   STAMPCLEAN matches                                    *)
(*    body           the task itself, or unpacking its sstate archive      *)
(*    sstate_install refuse an existing manifest, take the locks, check    *)
(*                   that no output file exists, write the manifest, add   *)
(*                   it to the index, copy the files, drop the locks       *)
(*                                                                         *)
(* and BitBake writes the stamp when the worker succeeds.  Before it runs  *)
(* any task, BitBake fires StaleSetSceneTasks and the handler uninstalls   *)
(* the tasks that have a stamp of another signature.                       *)
(*                                                                         *)
(* A stamp is named after the version of the recipe (STAMP, bitbake.conf   *)
(* 404) and the signature.  Old stamps are found by STAMPCLEAN (405),      *)
(* which asks for a "-" in the version: those of other versions stay, and  *)
(* a task can have several.                                                *)
(*                                                                         *)
(* A worker (or the handler) can die between any two steps: a failing      *)
(* command, a signal, the OOM killer.  Directories and file contents other than "which task and       *)
(* signature wrote this" are left out.                                     *)
(***************************************************************************)
EXTENDS Naturals

CONSTANTS
  Task,          \* sstate tasks (a recipe and one of its SSTATETASKS)
  File,          \* paths of the shared area
  Version,       \* task signatures (BB_UNIHASH)
  Config,        \* configurations the user builds: metadata and local.conf
  Want,          \* Want[c][t]: signature of t under configuration c
  Out,           \* Out[t][v]: shared files task t produces under signature v
  Pv,            \* Pv[t][v]: version of the recipe (PV) in a stamp of t
  Dashed,        \* the versions with a "-"
  Lock,          \* lock files
  Shared,        \* Shared[t]: the sstate-lockfile-shared flag of t
  Exclusive,     \* Exclusive[t]: the sstate-lockfile flag of t
  AllowOverlap,  \* files below SSTATE_ALLOW_OVERLAP_FILES
  None,          \* no file
  MaxBuilds,     \* bound: builds started
  MaxFails       \* bound: workers or handlers that die

ASSUME ConstantsAssumption ==
  /\ Want \in [Config -> [Task -> Version]]
  /\ Out \in [Task -> [Version -> SUBSET File]]
  /\ Shared \in [Task -> SUBSET Lock]
  /\ Exclusive \in [Task -> SUBSET Lock]
  /\ AllowOverlap \subseteq File
  /\ MaxBuilds \in Nat
  /\ MaxFails \in Nat

ASSUME NoneAssumption == \A t \in Task, v \in Version : None # <<t, v>>

VARIABLES
  area,      \* area[f]: the <<task, signature>> that wrote f, or None
  staged,    \* tasks whose manifest exists
  manifest,  \* manifest[t]: the files the manifest of t lists
  indexed,   \* lines of the index of t's architecture: <<t, PV>>
  stamp,     \* stamp[t]: the signatures of the stamps of t
  held,      \* held[t]: "none", or what t holds its locks for
  pc,        \* pc[t]: the next step of the worker of t
  todo,      \* todo[t]: the entries the current loop of t has still to do
  match,     \* match[t]: output files of t found in place by the check
  mode,      \* mode[t]: how t last ran in this build
  phase,     \* "off", or what BitBake is doing
  cfg, goal, \* the configuration being built and the tasks it needs
  stale,     \* tasks the StaleSetSceneTasks handler has still to uninstall
  builds, fails

disk     == <<area, staged, manifest, indexed, stamp>>
worker   == <<held, pc, todo, match, mode>>
build    == <<phase, cfg, goal, stale, builds, fails>>
vars     == <<disk, worker, build>>

CleanSteps   == {"clean", "clean_files", "clean_stamps"}
InstallSteps == {"check", "write", "index", "copy"}
StaleSteps   == {"stale_files", "stale_stamps"}
RunSteps     == CleanSteps \cup {"fetch", "body", "lock"} \cup InstallSteps \cup {"make_stamp"}
EndSteps     == {"idle", "done", "failed", "clash", "already_staged"}

Sig(t)    == Want[cfg][t]
Output(t) == Out[t][Sig(t)]
Line(t, v) == <<t, Pv[t][v]>>

(* The stamps of t that STAMPCLEAN matches, of whatever version. *)
Matched(t) == {v \in Version : Pv[t][v] \in Dashed}

-----------------------------------------------------------------------------
(***************************************************************************)
(* Locks.  sstate_install takes the first list shared and the second       *)
(* exclusive; sstate_clean takes both exclusive.  No task of the layers    *)
(* names more than one lock, so a task takes all of its locks in one step. *)
(***************************************************************************)
Locks(t) == Shared[t] \cup Exclusive[t]

(* Mutant of Conflict: a clean that takes no locks. *)
ConflictOfInstallsOnly(t, m, u) ==
  /\ held[u] = "install" /\ m = "install"
  /\ Locks(t) \cap Locks(u) \cap (Exclusive[t] \cup Exclusive[u]) # {}

Conflict(t, m, u) ==
  /\ held[u] # "none"
  /\ \E l \in Locks(t) \cap Locks(u) :
       m = "clean" \/ held[u] = "clean" \/ l \in Exclusive[t] \cup Exclusive[u]

Acquire(t, m) ==
  /\ \A u \in Task \ {t} : ~Conflict(t, m, u)
  /\ held' = [held EXCEPT ![t] = m]

(* Mutant of Release: the lock is kept as shared. *)
ReleaseToShared(t) == held' = [held EXCEPT ![t] = "shared"]

Release(t) == held' = [held EXCEPT ![t] = "none"]

Goto(t, p) == pc' = [pc EXCEPT ![t] = p]

-----------------------------------------------------------------------------
Init ==
  /\ area = [f \in File |-> None]
  /\ staged = {}
  /\ manifest = [t \in Task |-> {}]
  /\ indexed = {}
  /\ stamp = [t \in Task |-> {}]
  /\ held = [t \in Task |-> "none"]
  /\ pc = [t \in Task |-> "idle"]
  /\ todo = [t \in Task |-> {}]
  /\ match = [t \in Task |-> {}]
  /\ mode = [t \in Task |-> "none"]
  /\ phase = "off"
  /\ cfg \in Config
  /\ goal = {}
  /\ stale = {}
  /\ builds = 0
  /\ fails = 0

(* Mutant of StaleTasks: the handler is not registered. *)
NoStaleTasks(c, g) == {}

(***************************************************************************)
(* BitBake starts a build of the tasks g under configuration c and fires   *)
(* StaleSetSceneTasks: a task of g is stale if STAMPCLEAN finds a stamp of *)
(* another signature.  The handler finds the manifest through the line of  *)
(* that stamp's version in the index.                                      *)
(***************************************************************************)
StaleTasks(c, g) ==
  {t \in g : /\ \E v \in (stamp[t] \cap Matched(t)) \ {Want[c][t]} : Line(t, v) \in indexed
             /\ t \in staged}

StartBuild(c, g) ==
  /\ phase = "off"
  /\ builds < MaxBuilds
  /\ builds' = builds + 1
  /\ cfg' = c
  /\ goal' = g
  /\ stale' = StaleTasks(c, g)
  /\ phase' = "stale"
  /\ pc' = [t \in Task |-> "idle"]
  /\ mode' = [t \in Task |-> "none"]
  /\ UNCHANGED <<disk, held, todo, match, fails>>

(* The handler opens the manifest of one stale task: it is one loop, no   *)
(* two tasks are uninstalled at the same time.                             *)
StaleOpen(t) ==
  /\ phase = "stale"
  /\ t \in stale
  /\ \A u \in Task : pc[u] = "idle"
  /\ todo' = [todo EXCEPT ![t] = manifest[t]]
  /\ Goto(t, "stale_files")
  /\ UNCHANGED <<disk, held, match, mode, build>>

StaleDone ==
  /\ phase = "stale"
  /\ stale = {}
  /\ phase' = "run"
  /\ UNCHANGED <<disk, worker, cfg, goal, stale, builds, fails>>

(***************************************************************************)
(* sstate_clean and sstate_clean_manifest: files, manifest, stamps.        *)
(***************************************************************************)
RemoveFile(t) ==
  /\ pc[t] \in {"clean_files", "stale_files"}
  /\ \E f \in todo[t] :
       /\ area' = [area EXCEPT ![f] = None]
       /\ todo' = [todo EXCEPT ![t] = @ \ {f}]
  /\ UNCHANGED <<staged, manifest, indexed, stamp, held, pc, match, mode, build>>

(* Mutant of RemoveManifest: the manifest goes before the files are gone. *)
RemoveManifestEarly(t) ==
  /\ pc[t] \in {"clean_files", "stale_files"}
  /\ staged' = staged \ {t}
  /\ manifest' = [manifest EXCEPT ![t] = {}]
  /\ Release(t)
  /\ Goto(t, IF pc[t] = "clean_files" THEN "clean_stamps" ELSE "stale_stamps")
  /\ UNCHANGED <<area, indexed, stamp, todo, match, mode, build>>

RemoveManifest(t) ==
  /\ pc[t] \in {"clean_files", "stale_files"}
  /\ todo[t] = {}
  /\ staged' = staged \ {t}
  /\ manifest' = [manifest EXCEPT ![t] = {}]
  /\ Release(t)
  /\ Goto(t, IF pc[t] = "clean_files" THEN "clean_stamps" ELSE "stale_stamps")
  /\ UNCHANGED <<area, indexed, stamp, todo, match, mode, build>>

(* Mutant of RemoveStamps: the handler leaves the stale stamps. *)
KeepStaleStamps(t) ==
  /\ pc[t] \in {"clean_stamps", "stale_stamps"}
  /\ stamp' = [stamp EXCEPT ![t] = IF pc[t] = "stale_stamps" THEN @ ELSE @ \ Matched(t)]
  /\ Goto(t, CASE pc[t] = "stale_stamps" -> "idle"
               [] pc[t] = "clean_stamps" /\ mode[t] = "cleanall" -> "done"
               [] OTHER -> "body")
  /\ stale' = stale \ {t}
  /\ UNCHANGED <<area, staged, manifest, indexed, held, todo, match, mode,
                 phase, cfg, goal, builds, fails>>

(* sstate_clean removes every stamp that STAMPCLEAN matches, the handler    *)
(* those BitBake listed: the current one is not among them.                *)
RemoveStamps(t) ==
  /\ pc[t] \in {"clean_stamps", "stale_stamps"}
  /\ stamp' = [stamp EXCEPT ![t] =
                 @ \ IF pc[t] = "stale_stamps" THEN Matched(t) \ {Sig(t)} ELSE Matched(t)]
  /\ Goto(t, CASE pc[t] = "stale_stamps" -> "idle"
               [] pc[t] = "clean_stamps" /\ mode[t] = "cleanall" -> "done"
               [] OTHER -> "body")
  /\ stale' = stale \ {t}
  /\ UNCHANGED <<area, staged, manifest, indexed, held, todo, match, mode,
                 phase, cfg, goal, builds, fails>>

(* Mutant of CleanFrom: the manifest of an earlier attempt is not cleaned. *)
CleanStampsOnly(t) == "clean_stamps"

(* sstate_clean looks for the manifest before it takes any lock. *)
CleanFrom(t) == IF t \in staged THEN "clean" ELSE "clean_stamps"

(***************************************************************************)
(* BitBake gives a task to a worker unless the stamp of its signature is   *)
(* there.  A task runs first as its setscene variant if an sstate object   *)
(* was found, and for real if that fails.  Both begin with sstate_clean, the   *)
(* setscene variant after it has fetched its archive, and end with         *)
(* sstate_installpkgdir.                                                   *)
(***************************************************************************)
Start(t, m) ==
  /\ phase = "run"
  /\ t \in goal
  /\ Sig(t) \notin stamp[t]
  /\ \/ pc[t] = "idle" /\ m \in {"setscene", "real"}
     \/ pc[t] \in {"failed", "clash", "already_staged"}
          /\ mode[t] = "setscene" /\ m = "real"
  /\ mode' = [mode EXCEPT ![t] = m]
  /\ Goto(t, IF m = "setscene" THEN "fetch" ELSE CleanFrom(t))
  /\ UNCHANGED <<disk, held, todo, match, build>>

(* sstate_installpkg: without an archive the setscene task fails before    *)
(* it has cleaned anything.                                                *)
Fetch(t) ==
  /\ pc[t] = "fetch"
  /\ \/ Goto(t, CleanFrom(t))
     \/ Goto(t, "failed")
  /\ UNCHANGED <<disk, held, todo, match, mode, build>>

(* do_clean of a recipe that is not being built: STAMP.*, the stamps of the *)
(* current version, then sstate_cleanall.                                  *)
CleanAll(t) ==
  /\ phase = "run"
  /\ t \notin goal
  /\ pc[t] = "idle"
  /\ mode' = [mode EXCEPT ![t] = "cleanall"]
  /\ stamp' = [stamp EXCEPT ![t] = {v \in @ : Pv[t][v] # Pv[t][Sig(t)]}]
  /\ Goto(t, CleanFrom(t))
  /\ UNCHANGED <<area, staged, manifest, indexed, held, todo, match, build>>

LockForClean(t) ==
  /\ pc[t] = "clean"
  /\ Acquire(t, "clean")
  /\ todo' = [todo EXCEPT ![t] = manifest[t]]
  /\ Goto(t, "clean_files")
  /\ UNCHANGED <<disk, match, mode, build>>

(* The task body or the unpacking is private to the worker; then           *)
(* sstate_install calls bb.fatal if the manifest exists.  An archive that   *)
(* cannot be verified fails the setscene task after its clean.             *)
Body(t) ==
  /\ pc[t] = "body"
  /\ \/ Goto(t, IF t \in staged THEN "already_staged" ELSE "lock")
     \/ mode[t] = "setscene" /\ Goto(t, "failed")
  /\ UNCHANGED <<disk, held, todo, match, mode, build>>

LockForInstall(t) ==
  /\ pc[t] = "lock"
  /\ Acquire(t, "install")
  /\ todo' = [todo EXCEPT ![t] = Output(t)]
  /\ match' = [match EXCEPT ![t] = {}]
  /\ Goto(t, "check")
  /\ UNCHANGED <<disk, mode, build>>

(* Mutant of CheckFile: only files of the task itself count. *)
CheckOwnFile(t) ==
  /\ pc[t] = "check"
  /\ \E f \in todo[t] :
       /\ match' = [match EXCEPT ![t] =
                      IF \E v \in Version : area[f] = <<t, v>> THEN @ \cup {f} ELSE @]
       /\ todo' = [todo EXCEPT ![t] = @ \ {f}]
  /\ UNCHANGED <<disk, held, pc, mode, build>>

(* One os.path.exists of the overlap check. *)
CheckFile(t) ==
  /\ pc[t] = "check"
  /\ \E f \in todo[t] :
       /\ match' = [match EXCEPT ![t] =
                      IF area[f] # None /\ f \notin AllowOverlap THEN @ \cup {f} ELSE @]
       /\ todo' = [todo EXCEPT ![t] = @ \ {f}]
  /\ UNCHANGED <<disk, held, pc, mode, build>>

(* bb.fatal ends the worker, which drops its locks. *)
OverlapFatal(t) ==
  /\ pc[t] = "check" /\ todo[t] = {} /\ match[t] # {}
  /\ Release(t)
  /\ Goto(t, "clash")
  /\ UNCHANGED <<disk, todo, match, mode, build>>

(* open(manifest, "w"), then one line per file. *)
OpenManifest(t) ==
  /\ pc[t] = "check" /\ todo[t] = {} /\ match[t] = {}
  /\ staged' = staged \cup {t}
  /\ manifest' = [manifest EXCEPT ![t] = {}]
  /\ todo' = [todo EXCEPT ![t] = Output(t)]
  /\ Goto(t, "write")
  /\ UNCHANGED <<area, indexed, stamp, held, match, mode, build>>

WriteEntry(t) ==
  /\ pc[t] = "write"
  /\ \E f \in todo[t] :
       /\ manifest' = [manifest EXCEPT ![t] = @ \cup {f}]
       /\ todo' = [todo EXCEPT ![t] = @ \ {f}]
  /\ UNCHANGED <<area, staged, indexed, stamp, held, pc, match, mode, build>>

CloseManifest(t) ==
  /\ pc[t] = "write" /\ todo[t] = {}
  /\ Goto(t, "index")
  /\ UNCHANGED <<disk, held, todo, match, mode, build>>

(* Mutant of AppendIndex: a setscene task is not added. *)
AppendIndexIfReal(t) ==
  /\ pc[t] = "index"
  /\ indexed' = IF mode[t] = "real" THEN indexed \cup {Line(t, Sig(t))} ELSE indexed
  /\ todo' = [todo EXCEPT ![t] = Output(t)]
  /\ Goto(t, "copy")
  /\ UNCHANGED <<area, staged, manifest, stamp, held, match, mode, build>>

(* The index is read and appended to under its own lock: one step. *)
AppendIndex(t) ==
  /\ pc[t] = "index"
  /\ indexed' = indexed \cup {Line(t, Sig(t))}
  /\ todo' = [todo EXCEPT ![t] = Output(t)]
  /\ Goto(t, "copy")
  /\ UNCHANGED <<area, staged, manifest, stamp, held, match, mode, build>>

CopyFile(t) ==
  /\ pc[t] = "copy"
  /\ \E f \in todo[t] :
       /\ area' = [area EXCEPT ![f] = <<t, Sig(t)>>]
       /\ todo' = [todo EXCEPT ![t] = @ \ {f}]
  /\ UNCHANGED <<staged, manifest, indexed, stamp, held, pc, match, mode, build>>

CopyDone(t) ==
  /\ pc[t] = "copy" /\ todo[t] = {}
  /\ Release(t)
  /\ Goto(t, "make_stamp")
  /\ UNCHANGED <<disk, todo, match, mode, build>>

(* BitBake, when the worker has succeeded: it removes what STAMPCLEAN      *)
(* matches, too, before it makes the stamp.                                *)
MakeStamp(t) ==
  /\ pc[t] = "make_stamp"
  /\ stamp' = [stamp EXCEPT ![t] = (@ \ Matched(t)) \cup {Sig(t)}]
  /\ Goto(t, "done")
  /\ UNCHANGED <<area, staged, manifest, indexed, held, todo, match, mode, build>>

-----------------------------------------------------------------------------
(* A worker dies; its locks go with it.  A setscene task is then run for   *)
(* real (Start), a real task has failed.                                   *)
Fail(t) ==
  /\ fails < MaxFails
  /\ pc[t] \in RunSteps
  /\ fails' = fails + 1
  /\ Release(t)
  /\ Goto(t, "failed")
  /\ UNCHANGED <<disk, todo, match, mode, phase, cfg, goal, stale, builds>>

(* The server dies in the event handler: the build is over. *)
HandlerDies ==
  /\ fails < MaxFails
  /\ \E t \in Task : pc[t] \in StaleSteps
  /\ fails' = fails + 1
  /\ pc' = [t \in Task |-> "idle"]
  /\ phase' = "off"
  /\ stale' = {}
  /\ UNCHANGED <<disk, held, todo, match, mode, cfg, goal, builds>>

Lost(t) == mode[t] # "setscene" /\ pc[t] \in {"failed", "clash", "already_staged"}

(* BitBake lets running tasks end; it stops when a task has failed or when *)
(* every task of the goal has its stamp.                                   *)
EndBuild ==
  /\ phase = "run"
  /\ \A t \in Task : pc[t] \notin RunSteps
  /\ (\E t \in Task : Lost(t)) \/ (\A t \in goal : Sig(t) \in stamp[t])
  /\ phase' = "off"
  /\ UNCHANGED <<disk, worker, cfg, goal, stale, builds, fails>>

(* No more builds are asked for. *)
Rest ==
  /\ phase = "off" /\ builds = MaxBuilds
  /\ UNCHANGED vars

WorkerStep(t) ==
  \/ Fetch(t) \/ LockForClean(t) \/ RemoveFile(t) \/ RemoveManifest(t) \/ RemoveStamps(t)
  \/ Body(t) \/ LockForInstall(t) \/ CheckFile(t) \/ OverlapFatal(t)
  \/ OpenManifest(t) \/ WriteEntry(t) \/ CloseManifest(t) \/ AppendIndex(t)
  \/ CopyFile(t) \/ CopyDone(t) \/ MakeStamp(t)

Next ==
  \/ \E c \in Config, g \in SUBSET Task : StartBuild(c, g)
  \/ \E t \in Task : StaleOpen(t)
  \/ StaleDone
  \/ \E t \in Task, m \in {"setscene", "real"} : Start(t, m)
  \/ \E t \in Task : CleanAll(t)
  \/ \E t \in Task : WorkerStep(t)
  \/ \E t \in Task : Fail(t)
  \/ HandlerDies
  \/ EndBuild
  \/ Rest

Spec == Init /\ [][Next]_vars

(* BitBake runs its event handlers to their end and hands out every task   *)
(* that is ready; the kernel schedules every worker.                       *)
FairSpec ==
  /\ Spec
  /\ WF_vars(StaleDone) /\ WF_vars(EndBuild)
  /\ \A t \in Task : /\ WF_vars(StaleOpen(t))
                     /\ WF_vars(\E m \in {"setscene", "real"} : Start(t, m))
                     /\ WF_vars(WorkerStep(t))

-----------------------------------------------------------------------------
(* Every variable has its type. *)
TypeOK ==
  /\ area \in [File -> (Task \X Version) \cup {None}]
  /\ staged \subseteq Task
  /\ manifest \in [Task -> SUBSET File]
  /\ indexed \subseteq {Line(t, v) : t \in Task, v \in Version}
  /\ stamp \in [Task -> SUBSET Version]
  /\ held \in [Task -> {"none", "clean", "install"}]
  /\ pc \in [Task -> EndSteps \cup RunSteps \cup StaleSteps]
  /\ todo \in [Task -> SUBSET File]
  /\ match \in [Task -> SUBSET File]
  /\ mode \in [Task -> {"none", "setscene", "real", "cleanall"}]
  /\ phase \in {"off", "stale", "run"}
  /\ cfg \in Config
  /\ goal \subseteq Task /\ stale \subseteq Task
  /\ builds \in 0 .. MaxBuilds /\ fails \in 0 .. MaxFails

(* Whatever dies and whenever, a file of the shared area is listed in the  *)
(* manifest of the task that wrote it: the manifest is complete before the *)
(* first file is copied and is removed after the last file is, so the next *)
(* sstate_clean of that task finds every file it left behind.              *)
Attributed ==
  \A f \in File : area[f] # None =>
    /\ area[f][1] \in staged
    /\ f \in manifest[area[f][1]]

(* No history of builds, failures and setscene fallbacks leads to "Package *)
(* already staged": a worker that reaches sstate_install has removed the   *)
(* manifest an earlier attempt left.                                       *)
NeverStagedTwice == \A t \in Task : pc[t] # "already_staged"

(* A task the index does not know is invisible to the handlers that prune  *)
(* and uninstall: the version of every stamp has its line in the index,    *)
(* also when a worker died between the manifest and the index.             *)
StampedIsIndexed == \A t \in Task : \A v \in stamp[t] : Line(t, v) \in indexed

(* A stamp is a promise to every task that depends on this one: all files  *)
(* of that signature are in the shared area, written by that task with     *)
(* that signature.  While nothing dies, a stamp that STAMPCLEAN matches    *)
(* keeps it, from the end of the task until it is cleaned again, whatever  *)
(* stamps of other versions of the recipe lie beside it.  The others do    *)
(* not: EveryStampHasOutput of SstateIndex.                                *)
StampedIsInstalled ==
  fails = 0 =>
    \A t \in Task : pc[t] \in EndSteps =>
      \A v \in stamp[t] \cap Matched(t) :
        \A f \in Out[t][v] \ AllowOverlap : area[f] = <<t, v>>

(* A task that ran in this build stays installed as it was built until the *)
(* build ends: the manifests that others remove, from whatever build they  *)
(* are and whether a stamp still speaks of them or not, do not list its    *)
(* files, for the overlap check lets nobody install over what is there.    *)
(* Without deaths, and when no configuration gives a file to two tasks.    *)
DoneIsInstalled ==
  fails = 0 =>
    \A t \in Task : pc[t] = "done" /\ mode[t] # "cleanall" =>
      \A f \in Output(t) \ AllowOverlap : area[f] = <<t, Sig(t)>>

(* Files that a task other than t may have left installed because          *)
(* STAMPCLEAN misses its stamps.                                           *)
LeftByOthers(t) ==
  {f \in File : \E u \in Task \ {t} : \E v \in Version \ Matched(u) : f \in Out[u][v]}

(* A build of every task ends in an overlap error only over files that a   *)
(* task with stamps STAMPCLEAN misses had before: what any other task had, *)
(* the handler has uninstalled before any task runs.                       *)
NoSpuriousClash ==
  fails = 0 /\ goal = Task =>
    \A t \in Task : pc[t] = "clash" => match[t] \subseteq LeftByOthers(t)

(* What a task has copied stays in place until it drops its locks, however *)
(* manifests overlap: removal takes the locks exclusively and the handler  *)
(* runs before any worker.                                                 *)
CopiedStays ==
  \A t \in Task : pc[t] = "copy" =>
    \A f \in Output(t) \ todo[t] : area[f] # None

(* Without deaths a build of every task ends, and with the stamps of all   *)
(* of them, although the signatures and the distribution of files changed  *)
(* since the last build and setscene tasks fail; only a file that a missed *)
(* stamp left to another task can stop it.                                 *)
FullBuildSucceeds ==
  phase = "stale" /\ goal = Task
    ~> /\ phase = "off"
       /\ \/ \A t \in Task : Sig(t) \in stamp[t]
          \/ \E t \in Task : pc[t] = "clash" /\ match[t] \subseteq LeftByOthers(t)

=============================================================================
