---------------------------- MODULE RecipeSysroot ----------------------------
(***************************************************************************)
(* The recipe specific sysroot: extend_recipe_sysroot of                   *)
(* classes-global/staging.bbclass, the prefunc with which each task of one *)
(* recipe installs the files of its dependencies into the sysroot that all *)
(* tasks of the recipe share.                                              *)
(*                                                                         *)
(* For a dependency c at hash h, installeddeps/ holds the manifest c.h,    *)
(* a link c -> c.h and a link c.complete -> the manifest of c in the main  *)
(* sysroot, which dangles when c was uninstalled there.  index.<task>      *)
(* lists the dependencies of the task's last run.  A file of the sysroot   *)
(* is a hard link that os.link creates and that never replaces another.    *)
(*                                                                         *)
(* A stamp is named after the recipe's version and the task's inputs.  Old *)
(* stamps are found by STAMPCLEAN (bitbake.conf:405), which asks for a "-" *)
(* in the version: in a recipe without one they all stay.                  *)
(*                                                                         *)
(* The prefunc holds sysroot.lock from its first look at installeddeps to  *)
(* the new index; the task then runs its body without the lock, next to    *)
(* the prefuncs of other tasks.  It can be cut short at any step.          *)
(***************************************************************************)
EXTENDS Naturals

CONSTANTS
  Task,       \* tasks of the recipe that have the prefunc
  Dep,        \* recipes whose do_populate_sysroot they depend on
  Hash,       \* task hashes
  File,       \* paths of the recipe sysroot
  Config,     \* configurations the user builds
  Need,       \* Need[g][t]: dependencies of t under configuration g
  HashOf,     \* HashOf[g][c]: hash of c under g
  Files,      \* Files[c][h]: files of c at hash h
  Bin,        \* files below a bin or sbin directory
  Own,        \* Own[t]: tasks of the recipe that run before t
  None,
  MaxBuilds,  \* bound: builds
  MaxFails,   \* bound: task bodies that fail
  MaxKills    \* bound: prefuncs that are cut short

ASSUME ConstantsAssumption ==
  /\ Need \in [Config -> [Task -> SUBSET Dep]]
  /\ HashOf \in [Config -> [Dep -> Hash]]
  /\ Files \in [Dep -> [Hash -> SUBSET File]]
  /\ Bin \subseteq File
  /\ Own \in [Task -> SUBSET Task]
  /\ None \notin Hash /\ None \notin Task /\ None \notin Dep
  /\ None \notin Dep \X Hash
  /\ MaxBuilds \in Nat /\ MaxFails \in Nat /\ MaxKills \in Nat

(* Files may move between dependencies, "A file may have moved from one    *)
(* recipe to another" (staging.bbclass:501): a task that needs the new     *)
(* owner at its hash needs the old one too, at a hash without the file.    *)
(* Then the loop over stale dependencies removes the file before the loop  *)
(* that installs puts it back.  BodySeesDeps, SuccessIsClean and           *)
(* PrefuncSucceeds are about such files.                                   *)
MovesCovered ==
  \A g \in Config, t \in Task : \A c \in Need[g][t] : \A e \in Dep \ {c}, h \in Hash :
    Files[c][HashOf[g][c]] \cap Files[e][h] # {} => e \in Need[g][t] /\ h # HashOf[g][e]

VARIABLES
  (* the main sysroot and installeddeps *)
  main,      \* main[c]: the hash of c that is installed there, or None
  pool,      \* pool[d]: the shared manifest of d: "none", "cut", "whole"
  tman,      \* tman[d]: the manifest c.h of d = <<c, h>>, likewise
  link,      \* link[c]: the hash that the link c names, or None
  complete,  \* dependencies with a link c.complete
  index,     \* index[t]: dependencies listed in index.<t>
  area,      \* area[f]: the <<c, h>> whose file f is, or None
  stamp,     \* stamp[t]: inputs that t has succeeded with and has a stamp for
  (* the prefunc that holds the lock *)
  holder,    \* its task, or None
  step, cur, \* its next step, and the dependency that is about
  todo,      \* dependencies the current loop has still to look at
  left,      \* <<c, f>>: files still to remove or to install
  fileset,   \* files of the dependencies installed by this run
  new,       \* dependencies installed by this run
  invalid,   \* tasks whose stamps are to go
  (* the build *)
  dashed,    \* whether the version of the recipe has a "-"
  building, cfg, goal,
  torun,     \* tasks BitBake has still to run
  status,    \* status[t]
  builds, fails, kills

disk  == <<main, pool, tman, link, complete, index, area, stamp>>
local == <<step, cur, todo, left, fileset, new, invalid>>
sched == <<dashed, building, cfg, goal, torun, builds>>
vars  == <<disk, holder, local, sched, status, fails, kills>>

RemoveSteps  == {"dangling", "dangling_files", "dangling_complete", "dangling_link",
                 "invalidate", "unneeded", "unneeded_files", "unneeded_link",
                 "unneeded_complete", "stale", "stale_files", "stale_link",
                 "stale_complete"}
InstallSteps == {"install", "check", "pool", "pool_write", "tman", "copy", "bin",
                 "postinst", "complete", "index", "index_write"}

Want(c)   == HashOf[cfg][c]
Deps(t)   == Need[cfg][t]
Inputs(t) == [c \in Deps(t) |-> Want(c)]

(* A manifest that was cut short lists nothing. *)
Listed(d) == IF tman[d] = "whole" THEN Files[d[1]][d[2]] ELSE {}

(* os.path.exists follows links. *)
Exists(c)    == link[c] # None /\ tman[<<c, link[c]>>] # "none"
Completed(c) == c \in complete /\ main[c] # None
Dangling     == {c \in complete : main[c] = None}

Current(c) == Exists(c) /\ link[c] = Want(c) /\ Completed(c)

-----------------------------------------------------------------------------
Init ==
  /\ main = [c \in Dep |-> None]
  /\ pool = [d \in Dep \X Hash |-> "none"]
  /\ tman = [d \in Dep \X Hash |-> "none"]
  /\ link = [c \in Dep |-> None]
  /\ complete = {}
  /\ index = [t \in Task |-> {}]
  /\ area = [f \in File |-> None]
  /\ stamp = [t \in Task |-> {}]
  /\ holder = None /\ step = "none" /\ cur = None
  /\ todo = {} /\ left = {} /\ fileset = {} /\ new = {} /\ invalid = {}
  /\ dashed \in BOOLEAN /\ building = FALSE /\ cfg \in Config /\ goal = {} /\ torun = {}
  /\ status = [t \in Task |-> "idle"]
  /\ builds = 0 /\ fails = 0 /\ kills = 0

(***************************************************************************)
(* BitBake.  A task runs if there is no stamp of its inputs or a task of   *)
(* the recipe before it runs.  The dependencies of the goal are installed  *)
(* in the main sysroot first; others may have been uninstalled there.      *)
(***************************************************************************)
ToRun(g, tasks, needed) ==
  LET changed == {t \in tasks : [c \in needed[t] |-> HashOf[g][c]] \notin stamp[t]}
  IN {t \in tasks : t \in changed \/ Own[t] \cap changed # {}}

StartBuild(g, tasks) ==
  /\ ~building /\ builds < MaxBuilds
  /\ \A t \in tasks : Own[t] \subseteq tasks
  /\ builds' = builds + 1
  /\ building' = TRUE /\ cfg' = g /\ goal' = tasks
  /\ torun' = ToRun(g, tasks, Need[g])
  /\ main' \in [Dep -> Hash \cup {None}]
  /\ \A c \in Dep : IF \E t \in tasks : c \in Need[g][t]
                      THEN main'[c] = HashOf[g][c]
                      ELSE main'[c] \in {main[c], None}
  /\ status' = [t \in Task |-> "idle"]
  /\ UNCHANGED <<pool, tman, link, complete, index, area, stamp, holder, local,
                 dashed, fails, kills>>

(* The prefunc takes sysroot.lock and starts with the dangling links. *)
Lock(t) ==
  /\ building /\ holder = None
  /\ t \in torun /\ status[t] = "idle"
  /\ \A u \in Own[t] \cap torun : status[u] = "done"
  /\ \A u \in Task : status[u] # "failed"
  /\ holder' = t
  /\ status' = [status EXCEPT ![t] = "extending"]
  /\ step' = "dangling"
  /\ todo' = {} /\ left' = {} /\ fileset' = {} /\ new' = {} /\ invalid' = {} /\ cur' = None
  /\ UNCHANGED <<disk, sched, fails, kills>>

(* An exception ends the prefunc and with it the task. *)
Raise ==
  /\ status' = [status EXCEPT ![holder] = "failed"]
  /\ holder' = None /\ step' = "none" /\ cur' = None
  /\ todo' = {} /\ left' = {} /\ fileset' = {} /\ new' = {} /\ invalid' = {}

Goto(s) == step' = s /\ UNCHANGED <<holder, status>>

-----------------------------------------------------------------------------
(***************************************************************************)
(* Removals: sstate_clean_manifest, then the links, in the order of each   *)
(* of the three loops.                                                     *)
(***************************************************************************)
Open(c, s) ==
  /\ cur' = c
  /\ left' = {c} \X Listed(<<c, link[c]>>)
  /\ Goto(s)

(* A dangling c.complete.  Without the link or its manifest, readlink or   *)
(* open raises.                                                            *)
DanglingOpen ==
  /\ step = "dangling"
  /\ \E c \in Dangling :
       IF Exists(c)
         THEN Open(c, "dangling_files") /\ UNCHANGED <<todo, fileset, new, invalid>>
         ELSE Raise
  /\ UNCHANGED <<disk, sched, fails, kills>>

RemoveFile ==
  /\ step \in {"dangling_files", "unneeded_files", "stale_files"}
  /\ \E p \in left :
       /\ area' = [area EXCEPT ![p[2]] = None]
       /\ left' = left \ {p}
  /\ UNCHANGED <<main, pool, tman, link, complete, index, stamp, holder, step, cur, todo,
                 fileset, new, invalid, sched, status, fails, kills>>

RemoveManifest ==
  /\ step \in {"dangling_files", "unneeded_files", "stale_files"} /\ left = {}
  /\ tman' = [tman EXCEPT ![<<cur, link[cur]>>] = "none"]
  /\ Goto(CASE step = "dangling_files" -> "dangling_complete"
            [] step = "unneeded_files" -> "unneeded_link"
            [] step = "stale_files"    -> "stale_link")
  /\ UNCHANGED <<main, pool, link, complete, index, area, stamp, cur, todo, left, fileset,
                 new, invalid, sched, fails, kills>>

(* Mutant: the dependency is noted in the place of the task that lists it. *)
UnlinkLinkNotingDep ==
  /\ step \in {"dangling_link", "unneeded_link", "stale_link"}
  /\ link' = [link EXCEPT ![cur] = None]
  /\ invalid' = IF step = "dangling_link" THEN invalid \cup {cur} ELSE invalid
  /\ Goto(CASE step = "dangling_link" -> "dangling"
            [] step = "unneeded_link" -> "unneeded_complete"
            [] step = "stale_link"    -> "stale_complete")
  /\ UNCHANGED <<main, pool, tman, complete, index, area, stamp, cur, todo, left, fileset,
                 new, sched, fails, kills>>

UnlinkLink ==
  /\ step \in {"dangling_link", "unneeded_link", "stale_link"}
  /\ link' = [link EXCEPT ![cur] = None]
  /\ invalid' = IF step = "dangling_link"
                  THEN invalid \cup {u \in Task \ {holder} : cur \in index[u]}
                  ELSE invalid
  /\ Goto(CASE step = "dangling_link" -> "dangling"
            [] step = "unneeded_link" -> "unneeded_complete"
            [] step = "stale_link"    -> "stale_complete")
  /\ UNCHANGED <<main, pool, tman, complete, index, area, stamp, cur, todo, left, fileset,
                 new, sched, fails, kills>>

(* Only the loop over the unneeded dependencies raises without c.complete. *)
UnlinkComplete ==
  /\ step \in {"dangling_complete", "unneeded_complete", "stale_complete"}
  /\ IF step = "unneeded_complete" /\ cur \notin complete
       THEN Raise /\ UNCHANGED complete
       ELSE /\ complete' = complete \ {cur}
            /\ Goto(CASE step = "dangling_complete" -> "dangling_link"
                      [] step = "unneeded_complete" -> "unneeded"
                      [] step = "stale_complete"    -> "stale")
            /\ UNCHANGED <<cur, todo, left, fileset, new, invalid>>
  /\ UNCHANGED <<main, pool, tman, link, index, area, stamp, sched, fails, kills>>

DanglingDone ==
  /\ step = "dangling" /\ Dangling = {}
  /\ Goto("invalidate")
  /\ UNCHANGED <<disk, cur, todo, left, fileset, new, invalid, sched, fails, kills>>

(* Mutant: the indexes of other tasks are not searched. *)
UnneededByItself == {c \in index[holder] \ Deps(holder) : Exists(c)}

(* Mutant: the task's own index is searched with the others. *)
UnneededByAll ==
  {c \in index[holder] \ Deps(holder) :
     /\ Exists(c)
     /\ \A u \in Task : c \in index[u] => holder \in Own[u]}

(* What the last run of the task installed and no other task's index       *)
(* lists; a task that runs after this one does not count.                  *)
Unneeded ==
  {c \in index[holder] \ Deps(holder) :
     /\ Exists(c)
     /\ \A u \in Task \ {holder} : c \in index[u] => holder \in Own[u]}

(* bb.build.clean_stamp removes what STAMPCLEAN matches. *)
Invalidate ==
  /\ step = "invalidate"
  /\ IF invalid = {}
       THEN Goto("unneeded") /\ todo' = Unneeded /\ UNCHANGED <<stamp, invalid>>
       ELSE /\ \E u \in invalid : /\ stamp' = [stamp EXCEPT ![u] = IF dashed THEN {} ELSE @]
                                  /\ invalid' = invalid \ {u}
            /\ UNCHANGED <<todo, step, holder, status>>
  /\ UNCHANGED <<main, pool, tman, link, complete, index, area, cur, left, fileset, new,
                 sched, fails, kills>>

UnneededOpen ==
  /\ step = "unneeded"
  /\ \E c \in todo : todo' = todo \ {c} /\ Open(c, "unneeded_files")
  /\ UNCHANGED <<disk, fileset, new, invalid, sched, fails, kills>>

UnneededDone ==
  /\ step = "unneeded" /\ todo = {}
  /\ todo' = Deps(holder)
  /\ Goto("stale")
  /\ UNCHANGED <<disk, cur, left, fileset, new, invalid, sched, fails, kills>>

(* Mutant: the link of a stale dependency goes without its files. *)
StaleUnlinked ==
  /\ step = "stale"
  /\ \E c \in todo :
       /\ todo' = todo \ {c}
       /\ link' = IF Current(c) THEN link ELSE [link EXCEPT ![c] = None]
  /\ UNCHANGED <<main, pool, tman, complete, index, area, stamp, cur, left, step, holder,
                 status, fileset, new, invalid, sched, fails, kills>>

(* "Handle all removals first since files may move between recipes". *)
StaleOpen ==
  /\ step = "stale"
  /\ \E c \in todo :
       /\ todo' = todo \ {c}
       /\ IF Exists(c) /\ ~Current(c)
            THEN Open(c, "stale_files") /\ UNCHANGED link
            ELSE /\ link' = IF Exists(c) THEN link ELSE [link EXCEPT ![c] = None]
                 /\ UNCHANGED <<cur, left, step, holder, status>>
  /\ UNCHANGED <<main, pool, tman, complete, index, area, stamp, fileset, new, invalid,
                 sched, fails, kills>>

(* Mutant: installs begin while there are removals left. *)
StaleLeft ==
  /\ step = "stale"
  /\ todo' = Deps(holder)
  /\ Goto("install")
  /\ UNCHANGED <<disk, cur, left, fileset, new, invalid, sched, fails, kills>>

StaleDone ==
  /\ step = "stale" /\ todo = {}
  /\ todo' = Deps(holder)
  /\ Goto("install")
  /\ UNCHANGED <<disk, cur, left, fileset, new, invalid, sched, fails, kills>>

-----------------------------------------------------------------------------
(***************************************************************************)
(* Installs.                                                               *)
(***************************************************************************)
Install ==
  /\ step = "install"
  /\ \E c \in todo :
       /\ todo' = todo \ {c}
       /\ IF Current(c)
            THEN UNCHANGED <<link, step, cur, holder, status>>
            ELSE /\ link[c] = None  \* all removals come first
                 /\ link' = [link EXCEPT ![c] = Want(c)]
                 /\ cur' = c /\ Goto("check")
  /\ UNCHANGED <<main, pool, tman, complete, index, area, stamp, left, fileset, new,
                 invalid, sched, fails, kills>>

(* Two dependencies with the same file are fatal. *)
CheckFiles ==
  /\ step = "check"
  /\ IF Files[cur][Want(cur)] \cap fileset # {}
       THEN Raise
       ELSE /\ fileset' = fileset \cup Files[cur][Want(cur)]
            /\ new' = new \cup {cur}
            /\ Goto("pool")
            /\ UNCHANGED <<cur, todo, left, invalid>>
  /\ UNCHANGED <<disk, sched, fails, kills>>

(* The shared manifest is written unless it exists. *)
OpenPool ==
  /\ step = "pool"
  /\ LET d == <<cur, Want(cur)>> IN
       IF pool[d] = "none"
         THEN pool' = [pool EXCEPT ![d] = "cut"] /\ Goto("pool_write")
         ELSE UNCHANGED pool /\ Goto("tman")
  /\ UNCHANGED <<main, tman, link, complete, index, area, stamp, cur, todo, left, fileset,
                 new, invalid, sched, fails, kills>>

WritePool ==
  /\ step = "pool_write"
  /\ pool' = [pool EXCEPT ![<<cur, Want(cur)>>] = "whole"]
  /\ Goto("tman")
  /\ UNCHANGED <<main, tman, link, complete, index, area, stamp, cur, todo, left, fileset,
                 new, invalid, sched, fails, kills>>

LinkManifest ==
  /\ step = "tman"
  /\ LET d == <<cur, Want(cur)>> IN
       IF tman[d] # "none"
         THEN Raise /\ UNCHANGED tman
         ELSE /\ tman' = [tman EXCEPT ![d] = pool[d]]
              /\ left' = left \cup {cur} \X Files[cur][Want(cur)]
              /\ Goto("copy")
              /\ UNCHANGED <<cur, todo, fileset, new, invalid>>
  /\ UNCHANGED <<main, pool, link, complete, index, area, stamp, sched, fails, kills>>

(* os.link raises when the file is there.  Files of bin directories wait   *)
(* until everything else is installed.                                     *)
CopyFile ==
  /\ step \in {"copy", "bin"}
  /\ \E p \in left :
       /\ step = "copy" => p[2] \notin Bin
       /\ IF area[p[2]] # None
            THEN Raise /\ UNCHANGED area
            ELSE /\ area' = [area EXCEPT ![p[2]] = <<p[1], Want(p[1])>>]
                 /\ left' = left \ {p}
                 /\ UNCHANGED <<step, cur, todo, fileset, new, invalid, holder, status>>
  /\ UNCHANGED <<main, pool, tman, link, complete, index, stamp, sched, fails, kills>>

CopyDone ==
  /\ step = "copy" /\ \A p \in left : p[2] \in Bin
  /\ Goto("install")
  /\ UNCHANGED <<disk, cur, todo, left, fileset, new, invalid, sched, fails, kills>>

InstallDone ==
  /\ \/ step = "install" /\ todo = {} /\ Goto("bin")
     \/ step = "bin" /\ left = {} /\ Goto("postinst")
  /\ UNCHANGED <<disk, cur, todo, left, fileset, new, invalid, sched, fails, kills>>

(* The fixmes and the postinsts, which change no file of a dependency; one  *)
(* that fails is a Kill here.                                              *)
Postinst ==
  /\ step = "postinst"
  /\ Goto("complete")
  /\ UNCHANGED <<disk, cur, todo, left, fileset, new, invalid, sched, fails, kills>>

LinkComplete ==
  /\ step = "complete"
  /\ \E c \in new :
       IF c \in complete
         THEN Raise /\ UNCHANGED complete
         ELSE /\ complete' = complete \cup {c}
              /\ new' = new \ {c}
              /\ UNCHANGED <<step, cur, todo, left, fileset, invalid, holder, status>>
  /\ UNCHANGED <<main, pool, tman, link, index, area, stamp, sched, fails, kills>>

(* open(taskindex, "w") empties the index. *)
OpenIndex ==
  /\ step = "complete" /\ new = {}
  /\ index' = [index EXCEPT ![holder] = {}]
  /\ Goto("index_write")
  /\ UNCHANGED <<main, pool, tman, link, complete, area, stamp, cur, todo, left, fileset,
                 new, invalid, sched, fails, kills>>

(* The index is written, the lock dropped, and the body of the task runs. *)
WriteIndex ==
  /\ step = "index_write"
  /\ index' = [index EXCEPT ![holder] = Deps(holder)]
  /\ holder' = None /\ step' = "none" /\ cur' = None
  /\ status' = [status EXCEPT ![holder] = "running"]
  /\ UNCHANGED <<main, pool, tman, link, complete, area, stamp, todo, left, fileset, new,
                 invalid, sched, fails, kills>>

-----------------------------------------------------------------------------
(* BitBake cleans the stamps of t, in the same way, and makes the new one.  *)
BodyEnds(t) ==
  /\ status[t] = "running"
  /\ \/ /\ status' = [status EXCEPT ![t] = "done"]
        /\ stamp' = [stamp EXCEPT ![t] = (IF dashed THEN {} ELSE @) \cup {Inputs(t)}]
        /\ UNCHANGED fails
     \/ /\ fails < MaxFails /\ fails' = fails + 1
        /\ status' = [status EXCEPT ![t] = "failed"]
        /\ UNCHANGED stamp
  /\ UNCHANGED <<main, pool, tman, link, complete, index, area, holder, local, sched, kills>>

(* The prefunc is cut short: its process is killed and the kernel drops the *)
(* lock, or something it calls, a postinst say, raises.                    *)
Kill ==
  /\ kills < MaxKills /\ holder # None
  /\ kills' = kills + 1
  /\ Raise
  /\ UNCHANGED <<disk, sched, fails>>

Succeeded == \A t \in torun : status[t] = "done"

EndBuild ==
  /\ building /\ holder = None
  /\ \A t \in Task : status[t] # "running"
  /\ Succeeded \/ \E t \in Task : status[t] = "failed"
  /\ building' = FALSE
  /\ UNCHANGED <<disk, holder, local, dashed, cfg, goal, torun, builds, status, fails, kills>>

(* No more builds are asked for. *)
Rest == ~building /\ builds = MaxBuilds /\ UNCHANGED vars

Prefunc ==
  \/ DanglingOpen \/ RemoveFile \/ RemoveManifest \/ UnlinkLink \/ UnlinkComplete
  \/ DanglingDone \/ Invalidate \/ UnneededOpen \/ UnneededDone \/ StaleOpen \/ StaleDone
  \/ Install \/ CheckFiles \/ OpenPool \/ WritePool \/ LinkManifest \/ CopyFile \/ CopyDone
  \/ InstallDone \/ Postinst \/ LinkComplete \/ OpenIndex \/ WriteIndex

Next ==
  \/ \E g \in Config, tasks \in SUBSET Task : StartBuild(g, tasks)
  \/ \E t \in Task : Lock(t)
  \/ Prefunc
  \/ \E t \in Task : BodyEnds(t)
  \/ Kill
  \/ EndBuild
  \/ Rest

Spec == Init /\ [][Next]_vars

-----------------------------------------------------------------------------
(* Every variable has its type. *)
TypeOK ==
  /\ main \in [Dep -> Hash \cup {None}]
  /\ pool \in [Dep \X Hash -> {"none", "cut", "whole"}]
  /\ tman \in [Dep \X Hash -> {"none", "cut", "whole"}]
  /\ link \in [Dep -> Hash \cup {None}]
  /\ complete \subseteq Dep
  /\ index \in [Task -> SUBSET Dep]
  /\ area \in [File -> (Dep \X Hash) \cup {None}]
  /\ \A t \in Task : stamp[t] \subseteq UNION {[D -> Hash] : D \in SUBSET Dep}
  /\ holder \in Task \cup {None}
  /\ step \in RemoveSteps \cup InstallSteps \cup {"none"}
  /\ cur \in Dep \cup {None}
  /\ todo \subseteq Dep /\ new \subseteq Dep
  /\ left \subseteq Dep \X File /\ fileset \subseteq File
  /\ invalid \subseteq Task /\ goal \subseteq Task /\ torun \subseteq Task
  /\ dashed \in BOOLEAN /\ building \in BOOLEAN /\ cfg \in Config
  /\ status \in [Task -> {"idle", "extending", "running", "done", "failed"}]
  /\ builds \in 0 .. MaxBuilds /\ fails \in 0 .. MaxFails /\ kills \in 0 .. MaxKills

Provided(c) == \A f \in Files[c][Want(c)] : area[f] = <<c, Want(c)>>

(* The complete link "is used to mark if installation completed"           *)
(* (staging.bbclass:257): while the body of a task runs, every file of     *)
(* every dependency is in the sysroot with the hash of this build.         *)
InputsPresent ==
  \A t \in Task : status[t] = "running" => \A c \in Deps(t) : Provided(c)

(* So it is, although the prefuncs of other tasks remove and install next  *)
(* to the body and configurations come and go, as long as no prefunc was   *)
(* cut short.                                                              *)
BodySeesDeps == kills = 0 => InputsPresent

(* "exeuction can cleanup" (staging.bbclass:590): a file of the sysroot is *)
(* listed in the manifest that the link of its dependency leads to, between*)
(* any two steps, as long as no prefunc was cut short.                     *)
Cleanable ==
  kills = 0 => \A f \in File : area[f] # None =>
    /\ link[area[f][1]] = area[f][2]
    /\ f \in Listed(area[f])

NothingForeign ==
  \A f \in File : area[f] # None =>
    \E t \in Task : area[f][1] \in Deps(t) /\ area[f][2] = Want(area[f][1])

NothingUnneeded ==
  \A f \in File : area[f] # None => \E t \in Task : area[f][1] \in Deps(t)

(* A build that runs all tasks leaves a sysroot that holds nothing a build *)
(* from scratch would not hold, at no other hash: what configure finds     *)
(* there does not depend on earlier configurations.  If no body ever       *)
(* failed and STAMPCLEAN matches the stamps of the recipe, a build of all  *)
(* tasks leaves no dependency that none of them needs, also when most      *)
(* tasks had not to run again.  (After a failure it may: the index is      *)
(* written before the body runs, the stamp after it.  So it may where old  *)
(* stamps stay: on the way back to an old configuration no task runs.)     *)
SuccessIsClean ==
  ~building /\ goal = Task /\ Succeeded /\ kills = 0 =>
    /\ torun = Task => NothingForeign
    /\ fails = 0 /\ dashed => NothingUnneeded

(* No prefunc raises before one was cut short, although files move between *)
(* dependencies (staging.bbclass:501) and dependencies go and come.        *)
PrefuncSucceeds ==
  [][\A t \in Task : status[t] = "extending" /\ status'[t] = "failed" => kills' > 0]_vars
=============================================================================
