----------------------------- MODULE SstateIndex -----------------------------
(***************************************************************************)
(* The index of shared state of one architecture, and the handler of       *)
(* ReachableStamps in sstate.bbclass that prunes what a machine no longer  *)
(* reaches.  Machines of the same architecture share a build directory and *)
(* take turns in it (bitbake.lock).                                        *)
(*                                                                         *)
(* A stamp stands for a version of a recipe (the directory and PV of its   *)
(* stamp files), and for the one sstate task it has here; versions of one  *)
(* recipe share a manifest.  The steps of installing are SstateInstall's;  *)
(* here an installation is one step.                                       *)
(***************************************************************************)
EXTENDS Selections

CONSTANTS Stamp, Machine,
          NoStamp,
          ManifestOf,  \* the manifest of a stamp's recipe
          Begins,      \* Begins[s]: the stamps whose name begins with that of s
          Cleanable,   \* the stamps STAMPCLEAN matches: those with a "-" in PV
          MaxBuilds,   \* bound: builds
          MaxDeaths    \* bound: builds that are interrupted

Manifests == {ManifestOf[s] : s \in Stamp}

ASSUME IndexAssumption ==
  /\ NoStamp \notin Stamp
  /\ DOMAIN ManifestOf = Stamp
  /\ Begins \in [Stamp -> SUBSET Stamp] /\ \A s \in Stamp : s \in Begins[s]
  /\ \A s \in Stamp : \A r \in Begins[s] : ManifestOf[r] = ManifestOf[s]
  /\ Cleanable \subseteq Stamp
  /\ MaxBuilds \in Nat /\ MaxDeaths \in Nat

VARIABLES
  ixPc,         \* idle, prune, unstamp, index, machine, forget, stale, tasks,
                \* install or stamp
  machine,      \* MACHINE of the build
  parsed,       \* the stamps of the recipes it parses
  toBuild,      \* those whose task it wants and has not run
  current,      \* the stamp whose manifest or task is at work
  toRemove, lines, ignored,  \* toremove, lines and ignore of the handler
  index,        \* index-<arch>
  machineIndex, \* index-machine-<machine>
  preserveStamps, \* preserve-stamps
  installed,    \* whose output a manifest lists
  stamped,      \* the stamps there are
  builds, deaths,
  lost          \* history: an index was cut off in the middle of its writing

ixVars == <<ixPc, machine, parsed, toBuild, current, toRemove, lines, ignored,
            index, machineIndex, preserveStamps, installed, stamped, builds, deaths,
            lost>>
build   == <<machine, parsed, toBuild>>
reading == <<toRemove, lines, ignored>>
files   == <<index, machineIndex, preserveStamps>>
area    == <<installed, stamped>>
limits  == <<builds, deaths, lost>>

Entries(seq) == {seq[k] : k \in 1..Len(seq)}
SameRecipe(s) == {r \in Stamp : ManifestOf[r] = ManifestOf[s]}

SupersededBug(seq) ==
  {seq[j] : j \in {i \in 1..Len(seq) :
                     \E k \in 1..(i - 1) : ManifestOf[seq[k]] = ManifestOf[seq[i]]}}

(* Lines with a later line for the same manifest. *)
Superseded(seq) ==
  {seq[j] : j \in {i \in 1..Len(seq) :
                     \E k \in (i + 1)..Len(seq) : ManifestOf[seq[k]] = ManifestOf[seq[i]]}}
-----------------------------------------------------------------------------
IxInit ==
  /\ ixPc = "idle" /\ machine \in Machine /\ parsed = {} /\ toBuild = {}
  /\ current = NoStamp
  /\ toRemove = {} /\ lines = <<>> /\ ignored = {}
  /\ index = <<>> /\ machineIndex = [m \in Machine |-> {}] /\ preserveStamps = {}
  /\ installed = [f \in Manifests |-> NoStamp] /\ stamped = {}
  /\ builds = 0 /\ deaths = 0 /\ lost = FALSE

(* devtool keeps the stamp of a recipe whose source it is about to extract  *)
(* with a temporary configuration.                                          *)
PreserveStamp ==
  /\ ixPc = "idle" /\ builds < MaxBuilds
  /\ \E s \in Stamp : preserveStamps' = {s}
  /\ UNCHANGED <<ixPc, build, current, reading, index, machineIndex, area, limits>>

ToRemove(m, reach) ==
  {s \in Entries(index) \ Superseded(index) :
     s \notin reach \cup preserveStamps /\ s \in machineIndex[m]}

(* A build of some versions, one of each recipe, and the first half of the  *)
(* handler: what to remove and what to ignore.                              *)
ReachableStamps ==
  /\ ixPc = "idle" /\ builds < MaxBuilds
  /\ builds' = builds + 1
  /\ machine' \in Machine
  /\ parsed' \in SUBSET Stamp
  /\ toBuild' \in SUBSET parsed'
  /\ \A r, s \in toBuild' : ManifestOf[r] = ManifestOf[s] => r = s
  /\ lines' = index
  /\ ignored' = Superseded(index)
  /\ toRemove' = ToRemove(machine', parsed')
  /\ ixPc' = "prune"
  /\ UNCHANGED <<current, files, area, deaths, lost>>

(* The manifests of an unreachable stamp. *)
PruneManifest(r) ==
  /\ ixPc = "prune" /\ r \in toRemove
  /\ current' = r
  /\ installed' = [installed EXCEPT ![ManifestOf[r]] = NoStamp]
  /\ ixPc' = "unstamp"
  /\ UNCHANGED <<build, reading, files, stamped, limits>>

PruneStampsBug ==
  /\ ixPc = "unstamp"
  /\ lines' \in LeftOf(lines, {current})
  /\ toRemove' = toRemove \ {current}
  /\ current' = NoStamp
  /\ ixPc' = "prune"
  /\ UNCHANGED <<build, ignored, files, area, limits>>

(* Its stamps, and those of any version whose name begins with its own. *)
PruneStamps ==
  /\ ixPc = "unstamp"
  /\ stamped' = stamped \ Begins[current]
  /\ lines' \in LeftOf(lines, {current})
  /\ toRemove' = toRemove \ {current}
  /\ current' = NoStamp
  /\ ixPc' = "prune"
  /\ UNCHANGED <<build, ignored, files, installed, limits>>

PruneDone ==
  /\ ixPc = "prune" /\ toRemove = {}
  /\ ixPc' = "index"
  /\ UNCHANGED <<build, current, reading, files, area, limits>>

WriteIndexBug ==
  /\ ixPc = "index"
  /\ index' = lines
  /\ ixPc' = "machine"
  /\ UNCHANGED <<build, current, reading, machineIndex, preserveStamps, area, limits>>

(* The index is written anew, without the lines that were superseded. *)
WriteIndex ==
  /\ ixPc = "index"
  /\ index' \in LeftOf(lines, ignored)
  /\ ixPc' = "machine"
  /\ UNCHANGED <<build, current, reading, machineIndex, preserveStamps, area, limits>>

WriteMachineIndex ==
  /\ ixPc = "machine"
  /\ machineIndex' = [machineIndex EXCEPT ![machine] = @ \cup parsed]
  /\ ixPc' = "forget"
  /\ UNCHANGED <<build, current, reading, index, preserveStamps, area, limits>>

ForgetPreserved ==
  /\ ixPc = "forget"
  /\ preserveStamps' = {}
  /\ toRemove' = {} /\ lines' = <<>> /\ ignored' = {}
  /\ ixPc' = "stale"
  /\ UNCHANGED <<build, current, index, machineIndex, area, limits>>
-----------------------------------------------------------------------------
(* What BitBake reports stale for s: other stamps that STAMPCLEAN matches.  *)
StaleStamps(s) == {r \in stamped \cap Cleanable \cap SameRecipe(s) : r # s}

(* The tasks whose stale stamps begin with the stamp of a line. *)
StaleHits ==
  {s \in toBuild : \E l \in Entries(index) :
     StaleStamps(s) \cap Begins[l] # {} /\ installed[ManifestOf[l]] # NoStamp}

(* The handler of StaleSetSceneTasks uninstalls them. *)
UninstallStale ==
  /\ ixPc = "stale"
  /\ installed' = [f \in Manifests |->
                     IF \E s \in StaleHits : ManifestOf[s] = f THEN NoStamp
                     ELSE installed[f]]
  /\ stamped' = stamped \ UNION {StaleStamps(s) : s \in StaleHits}
  /\ ixPc' = "tasks"
  /\ UNCHANGED <<build, current, reading, files, limits>>

(* A task that has its stamp does not run. *)
Skip(s) ==
  /\ ixPc = "tasks" /\ s \in toBuild \cap stamped
  /\ toBuild' = toBuild \ {s}
  /\ UNCHANGED <<ixPc, machine, parsed, current, reading, files, area, limits>>

(* sstate_clean: the manifest, and the stamps STAMPCLEAN matches. *)
Clean(s) ==
  /\ ixPc = "tasks" /\ s \in toBuild \ stamped
  /\ current' = s
  /\ installed' = [installed EXCEPT ![ManifestOf[s]] = NoStamp]
  /\ stamped' = stamped \ (Cleanable \cap SameRecipe(s))
  /\ ixPc' = "install"
  /\ UNCHANGED <<build, reading, files, limits>>

(* sstate_install: the manifest and the files, and a line in the index      *)
(* unless there is one.                                                     *)
Install ==
  /\ ixPc = "install"
  /\ installed' = [installed EXCEPT ![ManifestOf[current]] = current]
  /\ index' = IF current \in Entries(index) THEN index ELSE Append(index, current)
  /\ ixPc' = "stamp"
  /\ UNCHANGED <<build, current, reading, machineIndex, preserveStamps, stamped, limits>>

MakeStamp ==
  /\ ixPc = "stamp"
  /\ stamped' = stamped \cup {current}
  /\ toBuild' = toBuild \ {current}
  /\ current' = NoStamp
  /\ ixPc' = "tasks"
  /\ UNCHANGED <<machine, parsed, reading, files, installed, limits>>

EndOfBuild ==
  /\ ixPc' = "idle" /\ toBuild' = {} /\ current' = NoStamp
  /\ toRemove' = {} /\ lines' = <<>> /\ ignored' = {} /\ parsed' = {}
  /\ UNCHANGED <<machine, preserveStamps, area, builds>>

EndBuild ==
  /\ ixPc = "tasks" /\ toBuild = {}
  /\ EndOfBuild
  /\ UNCHANGED <<index, machineIndex, deaths, lost>>

(* The build dies.  A file it was writing is left empty. *)
Interrupt ==
  /\ ixPc # "idle" /\ deaths < MaxDeaths
  /\ deaths' = deaths + 1
  /\ \/ UNCHANGED <<index, machineIndex, lost>>
     \/ /\ ixPc = "index" /\ index' = <<>> /\ lost' = TRUE
        /\ UNCHANGED machineIndex
     \/ /\ ixPc = "machine" /\ lost' = TRUE
        /\ machineIndex' = [machineIndex EXCEPT ![machine] = {}]
        /\ UNCHANGED index
  /\ EndOfBuild

IxNext ==
  \/ PreserveStamp \/ ReachableStamps \/ PruneStamps \/ PruneDone \/ WriteIndex
  \/ WriteMachineIndex \/ ForgetPreserved \/ UninstallStale \/ Install
  \/ MakeStamp \/ EndBuild \/ Interrupt
  \/ \E s \in Stamp : PruneManifest(s) \/ Skip(s) \/ Clean(s)

IxSpec == IxInit /\ [][IxNext]_ixVars
-----------------------------------------------------------------------------
(* Pruning never removes the output of a version this machine still parses  *)
(* or devtool wants preserved: the last line of a manifest tells whose      *)
(* output it lists, after version changes back and forth and after builds   *)
(* of the other machine.  [sstate.bbclass 1266-1283, 324-328]               *)
ReachedKept ==
  [][ \A f \in Manifests :
        ixPc = "prune" /\ installed'[f] # installed[f] =>
          installed[f] \notin parsed \cup preserveStamps ]_ixVars

(* Once the handler is through, no output is left of a version that this    *)
(* machine has seen and no longer reaches, unless an index was cut off      *)
(* while it was written.  [sstate.bbclass 1266-1316]                        *)
UnreachedGone ==
  ixPc = "machine" /\ ~lost =>
    \A f \in Manifests :
      installed[f] \in machineIndex[machine] => installed[f] \in parsed \cup preserveStamps

(* STAMPCLEAN matches the stamp, or its recipe has no other version. *)
Cleaned(s) == s \in Cleanable \/ SameRecipe(s) = {s}

(* Between tasks and between builds, such a stamp stands for output that is *)
(* there, whatever other versions of its recipe were built, pruned or       *)
(* skipped meanwhile: a version that is built again after another one is    *)
(* installed again.  It is so for builds that are not interrupted.          *)
(* [sstate.bbclass 526-569, bitbake.conf 404-405]                           *)
StampHasOutput ==
  ixPc \in {"idle", "tasks"} /\ deaths = 0 =>
    \A s \in stamped : Cleaned(s) => installed[ManifestOf[s]] = s

(* The same of every stamp: "Remove the current and previous stamps"        *)
(* (sstate.bbclass:551).                                                    *)
EveryStampHasOutput ==
  ixPc \in {"idle", "tasks"} /\ deaths = 0 =>
    \A s \in stamped : installed[ManifestOf[s]] = s
=============================================================================
