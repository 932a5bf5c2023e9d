# Shared state, sysroots and tools of the Colibri iMX7D build: a TLA+ development

The repository is a Yocto Project build of a Linux image with Qt 6 for the
Toradex Colibri iMX7D: one `local.conf`, one small product layer
(`layers/meta-my-layer`) and the layers they stand on, of which
`layers/openembedded-core` holds nearly all program logic. BitBake itself is
not in the repository. Where this text says "BitBake", it means what the code
in the repository relies on, and the model marks it external.

A build runs thousands of tasks in parallel worker processes that share three
things: the staging and deploy areas of the build directory, the cache of
shared state ("sstate") that several builds may use at the same time, and, per
recipe, a sysroot into which every task of the recipe installs what it depends
on. All three are kept consistent by files (manifests, indexes, stamps,
symbolic links, lock files), and every worker may be interrupted anywhere.
That is the core of the system and what unit tests hardly reach. Beside the
tasks stand tools with hard control of their own: the process pool of the
packaging tasks, the handlers that prune the index of shared state, the image
creator wic, devtool, and the runner that boots images under qemu for the
runtime tests. This development models both.

Paths below are relative to `layers/openembedded-core/` unless they begin with
`layers/` or `build/`.

## 1. Inventory

| Component | State it keeps | Operations | Talks to | Hard behaviour | What makes it correct |
|---|---|---|---|---|---|
| **Staging of task output** `meta/classes-global/sstate.bbclass` 226-569, 763-795, 1324-1377 | shared area, one manifest per task, index per architecture, stamps, lock files | `sstate_clean`, `sstate_install`, `sstate_installpkg`, `sstate_cleanall`, handler of `StaleSetSceneTasks` | BitBake (stamps, setscene before real), every other task through the shared area | workers that die between two steps; files that move between tasks over configurations; overlap check and copy are two steps | every file has an owner that will remove it; a stamp that a clean can find tells the truth; what a build installed stays; no task is stuck on its own leftovers; no false overlap error |
| **Objects of the cache** `sstate.bbclass` 345-386, 473-486, 720-761, 799-885 | archive, `.sig`, links into a mirror | create and sign, fetch, verify, unpack, clean | other builds, mirrors, `scripts/sstate-cache-management.py` | two renames that are not atomic together, signing and non-signing builds in one cache, a mirror that drops files | write once; what is unpacked is what was verified; a loser leaves the winner's object alone |
| **Recipe sysroots** `meta/classes-global/staging.bbclass` 144-171, 263-645 | `recipe-sysroot`, `installeddeps/` (manifest, link, `.complete`, `index.<task>`), pool of shared manifests | `extend_recipe_sysroot` as prefunc of each task | main sysroot (component 1), stamps | prefuncs beside running task bodies, dependencies that change hash, vanish or swap files, prefuncs that are cut short | a body sees all its dependencies; nothing stale stays; a prefunc does not fail over what an earlier one left |
| **Index and pruning** `sstate.bbclass` 1236-1377 | index files, machine index, `preserve-stamps` | handlers of `ReachableStamps` and `StaleSetSceneTasks` | component 1, devtool | append-only lines of several versions, files rewritten in place, machines that take turns, stamps matched by prefix | never prunes what the machine still reaches, prunes what it no longer does; a stamp stands for output |
| **Availability and dependencies of setscene tasks** `sstate.bbclass` 945-1203 | sets `found`, `missed` | `sstate_checkhashes` (thread pool), `setscene_depvalid` | fetcher, BitBake | threads that share sets | a task is in one of the two sets; the sysroot has what the decision skips |
| **Cache management** `scripts/sstate-cache-management.py` | list of archives | by stamps, duplicates, orphans | running builds | snapshot of archives older than the stamps it is compared with | never removes what a given stamps directory uses |
| **rm_work** `meta/classes/rm_work.bbclass` | stamps, work directory | `do_rm_work` | component 1 | stamps renamed one at a time | a setscene stamp only where the output is staged |
| **multiprocess_launch** `meta/lib/oe/utils.py` 240-350 | children and pipes | start, poll, reap | packaging classes | pipes that fill, children that die silently, a list changed while it is iterated over | every item gives a result or an error; no more children than threads; the call returns |
| **wic** `scripts/lib/wic/partition.py`, `plugins/imager/direct.py` | partitions with sizes, numbers and sectors | prepare, lay out, create, assemble | parted, source plugins | three counts of the same partitions, EBRs, alignment, offsets, sizes that grow | no partition overwrites another or the table; parted accepts the layout; fstab names the right device |
| **deploy-target** `scripts/lib/devtool/deploy.py` | files of the target, a manifest and preserved files per recipe | deploy, undeploy, undeploy all | the target over ssh | sessions that are cut off, redeployments with other files, links | an original file is never lost; undeploying restores it |
| **modify, update-recipe** `scripts/lib/devtool/standard.py` | `SRC_URI`, patch files, commits, the bbappend's list of them | `modify`, `update-recipe`, `reset` | git, the user | updates from the first changed commit only, interrupted updates | recipe and commits agree; no entry without a file |
| **qemu runner** `meta/lib/oeqa/utils/qemurunner.py` | processes, sockets, logging thread, serial lock | launch, run_serial, stop, restart | runqemu, qemu, the guest, tests | a signal handler that calls `stop()` anywhere, a thread that closes the pipe it is stopped by, two readers of one socket, timeouts, a restart that passes over a live guest | nothing left after `stop()`; answers reach their command; `stop()` ends |
| Signatures, packaging, package managers, PR service, patching, licences and SBOM, CVE data, recipetool, runqemu, first boot scripts, the vendor layers, the product layer | see `PROJECT.json` | | | | |

`PROJECT.json` lists every component with the reason where it is not modelled:
either its logic is data transformation without control worth checking, or it
drives external programs (section 6).

How the modelled components interact: a real task runs `sstate_clean`, its
body, then `sstate_package` (component 2 publishes the object) and
`sstate_install` (component 1 stages the output); a setscene task fetches,
cleans, verifies and unpacks the object, then stages it. What component 1
stages for `do_populate_sysroot` is what component 3 links into the sysroots
of other recipes, with the main manifest as the target of `c.complete`. Before any task runs,
the handlers of `SstateIndex` uninstall what the machine no longer reaches and
what is stale, by the index lines that component 1 appends. The other tools
share no state with these or with each other.

## 2. Modules

| Module | What it is |
|---|---|
| `SstateInstall` | component 1: tasks, files, signatures, configurations and locks are constants |
| `MCSstateInstall` | its instances |
| `SstateInstallProofs` | its theorems |
| `SstateStore` | abstract specification of one signed object: a write-once store |
| `SstateObject` | component 2: one object, any builders, readers and mirror; refines `SstateStore` |
| `MCSstateObject` | its instances |
| `SstateObjectProofs` | its theorems |
| `RecipeSysroot` | component 3: one recipe, its tasks and dependencies |
| `MCRecipeSysroot` | its instance |
| `RecipeSysrootProofs` | its theorems |
| `Selections` | lists with entries taken out, for `SstateIndex` and `DevtoolPatches` |
| `SstateIndex` | index, machine index and stamps over builds of several machines and versions |
| `MultiprocessLaunch`, `MultiprocessLaunchProofs` | the process pool, its theorems |
| `WicLayout`, `WicLayoutProofs` | wic's direct imager, its theorems |
| `DeployTarget`, `DeployTargetProofs` | deploy-target and undeploy-target, their theorems |
| `DevtoolPatches` | devtool modify and update-recipe |
| `IndexAndPatchesProofs` | the theorems of the index and of devtool's patches |
| `QemuRunner`, `QemuRunnerProofs` | the qemu runner, its theorems |
| `MCTools` | one instance of each of these six, side by side |

Operators whose comment begins with "Mutant", or whose name ends in `Bug`, are
plausible bugs of the code. They are used by nothing; each property is known to fail when the definition
it names is replaced by its mutant.

### SstateInstall

State: `area[f]` names the task and signature that wrote a shared file,
`staged`/`manifest` are the manifest files, `indexed` the lines of the index
(task and version), `stamp[t]` the signatures of all stamps of `t` that lie
there, `held` what a worker holds its
locks for, `pc`, `todo`, `match` its place in the code. One action is one
system call that other processes can see: unlinking a file (`RemoveFile`), the
manifest (`RemoveManifest`) or the stamps, one `os.path.exists` of the overlap
check (`CheckFile`), opening the manifest, writing a line, the index (under
its own lock, so one step), copying a file. `Start` is BitBake giving a task
to a worker, first as setscene if an object was found, for real if that
failed. `CleanAll` is `do_clean` of a recipe that is not being built:
`sstate_cleanall`, then all stamps. `StaleOpen` and the `stale_` steps are the
handler that uninstalls stale tasks before any task runs. `Fail` and `HandlerDies`
are deaths at any step.

Stamps are found by `STAMPCLEAN`, `${PN}/*-*`, while a stamp is named
`${PN}/${PV}` (`bitbake.conf` 404-405): only versions with a "-" match
(`Dashed`, `Matched`), as those of `linux-toradex` do. `RemoveStamps`, `StaleTasks` and the
cleaning before `MakeStamp` go by it, so a task can have stamps of several
signatures, and a stale one that is missed is neither reported nor removed.
What a property claims for matched stamps only, it says.

Abstracted: contents, directories, postrm scripts, fixmes, `SSTATEPOSTINSTFUNCS`.
Of the files of a stale task only those in its manifest matter. All locks of a
task are taken in one step because no task of the layers names more than one.

### SstateStore and SstateObject

Two archives of the same object differ in time stamps, so an archive is named
by the builder that made it; a signature is named by the archive it signs.
`update_file` is split where it decides (`DecideSig`, `DecidePkg`) and where it
acts (`LinkSig`, `LinkPkg`: `os.link`, which fails over anything that is there;
`ForceSig`, `ForcePkg`: rename). `ForceStr` is the forced branch with a `str`.
A fetch from a file mirror leaves a symbolic link, `Mirror`, which breaks when
the mirror drops the file. `Manage` is the cache manager, whose list of
suffixes lacks `.sig`; `CleanSstate` is `do_cleansstate`.

The refinement maps the store's object to the archive when archive and
signature match and to nothing otherwise, and its users to the readers that
verify. Placing the archive is the step that publishes.

### RecipeSysroot

State: `main[c]` is what the main sysroot has of dependency `c`; `pool`,
`tman`, `link`, `complete`, `index` are the shared manifest, the manifest
`c.<hash>`, the links `c` and `c.complete` and `index.<task>`; `area[f]` names
the dependency and hash whose file is in the sysroot. `holder` is the task
whose prefunc has `sysroot.lock`, `step`, `cur`, `todo`, `left`, `fileset`,
`new`, `invalid` are its local variables. The actions follow the function from
top to bottom: dangling `.complete` links, stamps to invalidate, what the task
no longer needs, what is stale, the installs with their conflict check, files
of `bin` directories last, postinsts, `.complete`, the index. The bodies of
tasks run between `WriteIndex` and `BodyEnds`, without the lock, beside the
prefuncs of other tasks. `stamp[t]` holds the inputs of all stamps of `t`:
`Invalidate` and `BodyEnds` remove the old ones only if `dashed`, that is if
STAMPCLEAN matches the version of the recipe. `StartBuild` changes the configuration and the main
sysroot. `Kill` cuts a prefunc short at any step; a failing postinst is the
same at its step.

Abstracted: the walk that computes the dependencies (`Need` is a constant), the
split into target and native sysroot, fixmes, symbolic links among the files
(which `staging_copyfile` accepts when they are equal), `bitbake -b`.

### SstateIndex

A stamp stands for one version of a recipe and its one sstate task; versions of
a recipe share a manifest. `index` is a sequence, since later lines supersede
earlier ones. `ReachableStamps` picks a machine and what it parses, computes
`lines`, `ignored`, `toRemove` as the handler does and starts its loop;
`PruneManifest` and `PruneStamps` are the two removals of one line,
`WriteIndex`, `WriteMachineIndex`, `ForgetPreserved` the three writes,
`UninstallStale` the second handler, `Clean`, `Install`, `MakeStamp` a task.
`Interrupt` is a death anywhere; one that hits a file being written leaves it
empty (`lost`). `Begins` is `stamp + "*"`, `Cleanable` is what STAMPCLEAN
matches: STAMPCLEAN asks for a "-" in the version, which STAMP has not had
since it lost the revision. A stamp is `Cleaned` if it is matched or its recipe has
no other version.

Taking a line out of the list and writing what is not ignored are members of
`LeftOf`, a set of one sequence; `lines.remove` takes one line, `LeftOf` all that
are equal to it, which is the same since no line is there twice (`IxInv`).

Abstracted: several architectures (each has an index of its own), work
directories, one task per recipe instead of several.

### MultiprocessLaunch

`child[i]` is the process of item `i`, `pipe[i]` what is in its pipe. An answer
that does not fit leaves its sender blocked until `Poll` or `Collect` reads.
`Loop`, `Poll`, `IsAlive`, `Collect`, `ScanEnd`, `Return` are the parent line
by line; `Collect` also skips one child of the scan, as Python does when a
list shrinks under a loop. The order of `items.pop()` is left open. The parent
keeps its copy of the writing end, so `recv()` of an answer that was cut short
never returns: that state (`CutShort`) is reachable with a killed child and
excepted from `LaunchReturns`.

### WicLayout

A partition is a record of the options of its kickstart line that sizes and
places depend on. `Prepare` decides size and content (`Prepared` has one
disjunct per case of `Partition.prepare`, and none where it raises), `Layout`
numbers and places one partition (`Number`, `Place`), `MakeDisk` fixes the size
of the image, `Create` makes one partition and, before the first logical one,
the extended one, `Protect` adds the protective entry of a hybrid MBR and
assembles. `Accepts` says what parted refuses; it is external. Names, types,
UUIDs, flags and boot loaders are left out, and the even size that line 595
gives to a boot partition after the layout.

### DeployTarget

`target[p]` says whose file is at a path, `manifest[r]` and `preserve[r]` are
what the target keeps of recipe `r` below `/.devtool`. The actions are the
commands of the generated shell script, one path per step: `RemoveEntry`,
`ForgetManifest`, `CheckSpace`, `Preserve`, `Extract`, `Absolute`, and for
undeploying `StartRestore`, `Restore`, `Purge`. A manifest is "relative" from
the first line tar prints until sed; a script that finds such a manifest
removes nothing. `Cut` ends the session at any step. `spoiled` remembers
sessions cut before sed. Directories and their permissions are left out.

### DevtoolPatches

`history` is the list of commits on top of the initial revision, each with the
file it is exported to; `noted` is the list in the bbappend and `untouched` how
much of it is still the beginning of `history`. The user's git commands are
external: new commits from some position on, or a reset to the list
(`GoBack`). `ordered` remembers whether the order of `SRC_URI` can be that of the
commits: a reorder is never written back, and of several new patches only
`os.walk` knows the order. `UpdateRecipe` plans as `_update_recipe_patch` does, from
`FirstChanged` on; `WritePatch`, `WriteRecipe`, `RemoveSource` are its effects
in their order, and `InterruptUpdate` stops between two of them. New patches
are appended in any order, for `os.walk` has none.

### QemuRunner

`qPc` is the main thread: the phases of `launch()`, `run_serial`, and the steps
of `stop()`. `HandleSIGCHLD` is a step of the main thread between any two
others: it starts `stop()` again, from within `stop()` too, and `after` says
where things go on, which for an interrupted `start()` is its failure. Launches
are numbered. `restart()` calls `stop()` only while runqemu is live, so a launch
may begin beside a live guest of the one before (`olds`), whose pid is still
`qemupid` until `is_alive()` puts the new one there, whose thread is still
`self.thread` until `Monitor` starts another (`orphans`), and whose signal handler
is then what `stop()` "restores" (`orig`): a `stop()` whose handler stays may be
interrupted in `communicate()` and raise. `logger`
is the thread with its `running` flag and its pipe `wakeup`; `LogTeardown`
closes the pipe before it resets the flag, as the code does, so `StopWrite` may
find a closed pipe and raise. `serial` holds answers and noise that wait at the
socket both threads read. Processes fail when they like within `MaxFaults`;
timeouts may elapse at any time. The QMP dialogue and the search for the
address are one step (`Monitor`), and signals reach processes at once. Left
out are the process that waits for the runner's death (`monitorpid`) and the
locks of the logging handlers.

### MCTools

The six tools share no state, so `focus` picks one at the start and the others
keep their initial state: TLC checks the sum of six state spaces in one run,
not their product. That is sound for properties of one tool each, which all of
these are.

## 3. Runs

Bounds are constants of the modules (`MaxBuilds`, `MaxFails`, `MaxKills`,
`MaxDrops`, `MaxDeaths`, `MaxCleanups`, `MaxVersion`, `MaxInterrupts`,
`MaxCuts`, `MaxCommands`, `MaxFaults`, `MaxRestarts`). Builds, deaths and the
like are the only unbounded counters of the models.

| Run | Instance | Shows |
|---|---|---|
| `install_fail` | 2 tasks, one with versions STAMPCLEAN matches, 3 files, file `m` moves; 3 builds, 1 death | `TypeOK`, `Attributed`, `NeverStagedTwice`, `StampedIsIndexed` |
| `install_move` | the same, no deaths, with fairness | `StampedIsInstalled`, `DoneIsInstalled`, `NoSpuriousClash`, `FullBuildSucceeds` |
| `install_locked` | 2 providers of the file `m` that both name one lock as shared, as all tasks that write rpm packages do; 2 builds | `CopiedStays` |
| `object_quiet` | 2 signing builders, 1 not, 2 readers, mirror, 2 deaths | `SignedHasSignature`, `UnpackedIsVerified`, `ImplementsStore` |
| `object_local` | 3 builders, 1 reader, a local cache: nothing to fetch, no deaths; with fairness | `PairMatches`, `GivesUpForAnother`, `EventuallyAvailable` |
| `object_all` | everything: 2 drops, 1 death, 2 clean-ups | `TypeOK`, `ExchangedBySigners` |
| `object_unsigned` | 1 builder, mirror, 1 drop | `ForcedMoveHappens` is **violated** |
| `recipe_extend` | 3 tasks, 2 dependencies, 2 hashes, 3 configurations, 3 builds, 1 failing body, 1 prefunc cut short | `TypeOK`, `BodySeesDeps`, `Cleanable`, `SuccessIsClean`, `PrefuncSucceeds` |
| `recipe_killed` | the same, no failing body | `InputsPresent` is **violated** |
| `tools` | 3 items, 2 processes, 1 killed child | `AnswersCollected`, `ChildrenBounded`, `LaunchReturns` |
| | 2 versions, one a prefix of the other, of which STAMPCLEAN matches the longer, 2 machines, 4 builds, 1 death | `ReachedKept`, `UnreachedGone`, `StampHasOutput` |
| | tables of up to 6 partitions in 3 formats | `WicDisjoint`, `ContentFits`, `DeviceNamesHold`, `LayoutAccepted` |
| | 2 recipes, 3 paths (one of both recipes, one a link to a directory), 1 cut | `OriginalKept`, `UndeployRestores` |
| | 2 patches, a name for a third, 4 versions, 1 interrupt | `RoundTrip`, `EntriesHaveFiles` |
| | 2 commands, 1 failure, 1 restart | `NothingLeft`, `AnswersDelivered`, `StopReturns` |
| `qemu_restart` | 1 command, no failure, 1 restart | `AliveIsSeen` is **violated** |
| `index_stampclean` | as `tools`, no death | `EveryStampHasOutput` is **violated** |

`tools` says `CHECK_DEADLOCK FALSE` because calls, images, builds and sessions
end: a pool that has returned, an image that is done, a runner that is down
have nothing more to do.
Why the bounds are enough: every property relates at most two tasks (or
builders, or dependencies) and one file; a third build allows a change of
configuration and the way back; the failures the properties speak of need one
death, and `object_quiet` allows two because builders that die leave files to
each other. Two configurations already let a file move in both directions. Of
the two tasks of `install_move` one has stamps STAMPCLEAN matches and one has
not, so that each stands beside the leftovers of the other. The
instance of `RecipeSysroot` has a task that runs before two others, two that
run side by side, a file that moves, and a configuration that drops
dependencies of some tasks; what a task needs, the tasks after it need too, as
in the real graph, where the dependencies of `do_configure` reach every later
task. Files move as `MovesCovered` says, which `MCRecipeSysroot` assumes and TLC
evaluates; section 4 says what happens otherwise, and the theorems hold for any
number of builds.

For `tools`: three items with two processes let one child wait for a place,
one be skipped and one be reaped. Four builds let each machine see both
versions and lose one. The tables have every combination of a plain or hybrid
partition with aligned, placed, left-out, logical, fixed and empty ones, on both
sides of the fourth entry, where logical partitions begin. Four versions are
three edits by the user, enough for two updates with a change before and after
an interrupted one. Two commands let a late answer meet the next command. One
failure and one restart suffice for a launch beside a live guest of the one
before; more of either only add guests to the list of those left.

### What the violations say

* `object_unsigned`: `update_file(tmp_pkg, sstate_pkg)` in the unsigned branch
  passes a `str`; `src.rename` raises and a bare `except` hides it. A link
  into a mirror that dropped the file is never repaired.
* `recipe_killed`: files are removed before the `.complete` link. A kill in
  between leaves a link that says "complete"; when a later build wants the
  same hash, the task body runs without the files. Only `InputsPresent`
  without its condition fails; `BodySeesDeps` holds as long as no prefunc was
  cut short.

* `qemu_restart`: `stop()` sets `runqemu_exited`, only the constructor resets
  it, and `is_alive()` is false while it is set. `restart()` of a live qemu thus
  waits `runqemutime` for a qemu that runs, and fails.
* `index_stampclean`: a version without "-", then another one, then the first
  again. `sstate_clean` looks for stamps that match `*-*` and misses that of the
  first build. In the third build it is still there, and its task is skipped
  although the area has the files of the other version.

`PROJECT.json` ("hazards") lists more places where a property holds only under
its condition, each with the source line: a cut shared manifest that every
later prefunc trusts (`staging.bbclass` 592), the missing `.complete` after a
failed postinst (496), an orphan `.sig` after a death (`sstate.bbclass` 869)
or a clean-up (`sstate-cache-management.py` 25).

### Fairness

`SstateInstall!FairSpec`: weak fairness of the steps of each worker (the
kernel schedules processes), of handing out a ready task, of the handler's
loop and of the end of a build (BitBake's own loop). None of starting a build,
of `do_clean`, of deaths. `install_move`, the run with liveness, has no locks,
as most tasks have none: nothing is claimed about waiting for one. `SstateObject!FairSpec`: weak fairness of each
builder and reader. Nothing is assumed of the mirror and of clean-ups.
`RecipeSysroot` has no liveness property. `MCTools!ToolsSpec`: weak fairness
of the parent and of each child of a pool (the kernel schedules processes, a
target comes to an end), and for the qemu runner of the steps of `stop()` and of
the logging thread's start, its way out and its teardown, which wait for nothing
but each other. None of qemu, of the guest, of tests, of the signal handler.

## 4. Proofs

The theorems hold for all values of the constants that satisfy the named
assumptions of the modules. TLAPS checks every leaf.

`SstateInstallProofs`

* `Invariance`: the inductive invariant `IInv` is `TypeOK`, `Attributed` and
  three facts about workers. `CleanedInv`: a worker past its clean has no
  manifest. `ManifestInv`: while a worker removes files, what is in `area` of
  its own is still in `todo`, and it is listed. `WriterInv`: a worker that
  copies has listed its whole output. `IndexInv`: past the index step the task
  is in the index. `Attributed` alone is not inductive, since removing the
  manifest is only safe when the loop before it has removed every file.
  From it: `TypeCorrect`, `EveryFileAttributed`, `NoPackageStagedTwice`,
  `StampedTasksIndexed`, with deaths and without a bound on them.
  A stamp's line is in the index for each version that has a stamp.
* `CopiedFilesStay`: assumes that all tasks have a lock in common
  (`CommonLock`). The invariant `LInv` adds that no worker runs while the
  handler does, and that a worker between its lock and its release holds it.
* `StampsTellTheTruth`, `BuiltStaysInstalled`, `FullBuildsDoNotClash`: assume
  `DisjointConfigs` (no configuration gives one file to two tasks), and say
  nothing once something died. The versions may or may not have a "-". `FInv`
  follows a file through resting, uninstalling and installing tasks; its heart is
  that a task with a matched stamp of another signature is in the stale set until
  it has been uninstalled, that a manifest no stale stamp speaks of belongs to the
  task's signature or to a missed stamp, and that of matched stamps a task has at
  most one. With a death the first and the third are false: a worker
  that dies between its manifest and its stamp is invisible to the stale handler
  (TLC finds the trace with `MaxFails = 1`), and the next owner of its file ends
  in the error the handler was written to prevent (1324-1331). For missed stamps
  the first is false without any death (`index_stampclean`), and the next owner of a
  file may meet it, which the third excepts (`LeftByOthers`).

`SstateObjectProofs`

* `Invariance` under `Quiet` (the mirror keeps its files, nobody cleans up;
  builders may die): a builder between its signature and its archive owns the
  signature, the archive of a signing builder has its signature, a reader that
  has verified still sees the archive it verified. From it `TypeCorrect`,
  `SignedArchivesAreSigned`, `ReadersUnpackWhatTheyVerified`.
* `Implementation`: `Spec => SstateStore!Spec` for the mapping above; each
  step publishes, uses, or stutters.
* `PairsMatch` under `Local` (also no mirror and no deaths), and
  `NothingGivenUpForNothing`, the action property `GivesUpForAnother`: a builder
  only finds a signature in its way whose owner is about to place its archive.
* `OnlySignersExchange`, the action property `ExchangedBySigners`, assumes
  nothing: mirror, deaths and both clean-ups included.

`MultiprocessLaunchProofs`: the invariant `LInv` relates a child, its pipe and
what the parent holds of it: an answer is in the pipe, in `got`, or with a
child that has not sent it, and a child the parent has dropped is gone and its
answer counted. `AnswersCollected` alone says nothing before the end. From it
`LaunchTypeCorrect`, `NoAnswerLost`, `ChildrenStayBounded`, for any finite set
of items.

`QemuRunnerProofs`: `QInv` says what each step of `stop()` has taken away
(past `StopJoin` there is no thread, past `StopGroup` no process, and nothing
brings them back), which earlier guests a stop still reaches (`PidInv`: a guest of an
earlier launch is the one `qemupid` names, or a later launch has found its own),
that the main thread waits for an answer with the lock in
its hand, and which answers may be on their way as long as no command has timed
out. It holds wherever the handler begins a `stop()`. From it `StopLeavesNothing` and
`AnswersAreDelivered`, for any number of failures, restarts and commands. Of
the type invariant it carries `Ranges`; the flags need none.

`DeployTargetProofs`: `DInv` says what a session and the manifests speak of
(`SessionInv`) and follows one ordinary path (`PathInv`): what a recipe has
installed there is in its manifest, what was there before is not, and is moved
away before anything is unpacked over it. From it `DeployTypeCorrect`, `OriginalsAreKept`,
`UndeployingRestores`, for any recipes, paths and number of cuts, with the
exceptions the properties name.

`RecipeSysrootProofs`

* `TypeCorrect`, `AlwaysCleanable`: `IInv` adds to the type which steps are
  about a dependency (`Shape`), that every file of a dependency under removal is
  in `left` until it is gone (`Removing`), and that only the prefunc at work has
  a shared manifest that is not whole and what it has left to install is listed
  (`Installing`). `Cleanable` alone is not inductive: removing the manifest or
  the link is safe only because the loop before removed every file. The theorem
  covers prefuncs that raise at a check and says nothing once one was cut short.
* `BodiesSeeDeps`, `PrefuncsSucceed`, `BuildsAreClean`: assume `MovesCovered`. A
  file may move between dependencies, but a task that needs its new owner needs
  the old one too, at a hash without the file. Disjoint dependencies satisfy it.
  `BodyInv` is one
  invariant for the three, since a body can be robbed of a file only by a prefunc
  that meets a manifest it does not expect, and a prefunc raises only over what
  another one left:
  - `CompleteInv`: a `.complete` link tells the truth except for the dependency
    under removal; `PassedInv`, `NewInv`: the install loop passes over what is
    complete only, and an installation is in `area` or in `left` until its
    `.complete`;
  - `SafeInv`: no removal is about a dependency of a running body, which rests on
    the index of that task and on BitBake's order (`TaskInv`);
  - `LinkInv`, `FreshInv`, `StaleInv`: manifest, link and `.complete` come and go
    together but for the dependency at work, nothing of what is about to be
    installed is there, and what the stale loop has passed is gone;
  - `IndexInv`: an installed dependency is in some task's index until a prefunc
    has it in its hands; `StampInv`: without failures, and if STAMPCLEAN matches,
    the index of a task lists the inputs of its stamp.

  Without the assumption `BodySeesDeps` is false. Say a file moves from dependency
  `a` of one task to `b` of another that is not ordered with it. The second task
  raises at `os.link`; run again, it removes what the manifest of `b` lists, the
  file of `a` with it, and installs its own; the prefunc of the first task then
  removes that file as a stale one of `a`, while the body of the second runs.
  Nor is it enough that a task which runs before all others gives `b` up in the
  prefunc that installs `a`: if its body then fails, its old stamp is valid again
  in the old configuration, so that a later task alone installs `b`; at the next
  change the first task's index lacks `b`, nobody removes it, and `os.link` meets
  its file. TLC needs four builds for that trace, which is why the instance
  satisfies the assumption instead of resting on its three.

  `SuccessIsClean` has two halves. Where all tasks ran, nothing is left at
  another hash (`NothingForeign`). Where only some had to, that cannot be said: a
  build of some tasks in another configuration exchanges the hash of a dependency of
  a task whose stamp stays valid, and a build of all in the first one does not run
  it. No body that needs the dependency can see that hash. But without
  failures, in a recipe whose stamps STAMPCLEAN matches, no dependency is left that
  none of the tasks needs (`NothingUnneeded`). In any other recipe the stamps of an
  old configuration stay: on the way back to it every task is skipped, and what the
  configuration in between needed stays too.

`WicLayoutProofs`

* `PartitionsDisjoint`, `ContentsFit`: `WInv` says that the partitions laid out
  so far end before `offset` and in order, and that a prepared content is no
  larger than its partition; arithmetic on sectors is done in lemmas about
  products and quotients.
* `DevicesKeepTheirNames`: `Counted` relates the two counts, `realnum` and `num`,
  to the number of partitions in the table so far, on both sides of the extended
  one; its lemma `RealCount` says what one more line does to the count.
* `LayoutsAreAccepted`: `AcceptInv` follows the extended partition, whose size is
  the sum of what the layout has counted: it reaches to `offset` unless
  something between logical partitions was not counted (`Uncounted`). `PlaceExtended`
  is one placement, `NextAccepted` the other steps, with `Made` for the disk.

All four hold for all tables of all lengths.

`IndexAndPatchesProofs` begins with lemmas about `LeftOf`: its members keep the
order, lose nothing else and name nothing twice if the list did not. The library
has no facts about `SelectSeq`, which is a recursive definition, so the two
modules say the same with places that stay; TLC finds both equal on all sequences of
up to four entries.

* `PruningKeepsReached`, `PruningRemovesUnreached`: `IxInv` says that no line is
  in the index twice and the last line of a manifest is that of the version that
  is installed (`LineInv`), that the lines the handler works on are those of the
  index with some taken out, and that what the loop has passed is gone
  (`GoneInv`). The first is an action property; that the handler skips lines which
  a later one supersedes is needed exactly where two versions share a manifest.
* `StampsHaveOutput`: says of each stamp that is `Cleaned` that it stands for
  output; of the others `index_stampclean` shows the opposite. `OutputInv` says it in the course of a build: a version that is about
  to be installed finds nothing of its manifest there, and a stamp without output
  is one whose line the handler is taking out.
* `EntriesKeepFiles`, `UpdatesRoundTrip`: `DtInv` says which commits are still
  those of the bbappend's list (`TreeInv`), what an update in progress has still to
  write, add and drop (`UpdateInv`), and that the recipe has the commits which no
  update exports, however many were interrupted before (`AgreeInv`). `OrderInv` says
  that, as long as the user kept the order, `SRC_URI` names the commits in their
  order and misses at most one, the last. `RoundTrip`
  alone says nothing while an update is under way. They hold for any number of
  patches, edits and interruptions.

Only model-checked: the liveness properties (`FullBuildSucceeds`,
`EventuallyAvailable`, `LaunchReturns`, `StopReturns`), which are out of the
prover's reach. Every other property of a passing run is a theorem, under the
assumptions named here.

## 5. Plan

1. The theorems of `RecipeSysroot` without failing bodies for a weaker
   `MovesCovered`: a task that runs before all others may give the old owner up.
2. `SstateIndex` composed with the steps of `SstateInstall`, whose `indexed` it
   refines; here an installation is one step.
3. Two providers of one file: which of the properties of a single one survive
   beside a second, with and without the shared lock.

Abstract specifications worth stating: for `SstateInstall`, an owner map from
files to tasks that install and uninstall atomically; for `RecipeSysroot`, a
set of installed dependencies that `extend` replaces in one step.

## 6. Not modelled

* `sstate_checkhashes`, `setscene_depvalid`, the selections of
  `sstate-cache-management.py`: decisions over data (names of recipes and
  archives, fetch results) whose control is a loop.
* `rm_work`, signatures, PR service: their meaning is in BitBake, which is not
  in the repository.
* Packaging, package managers, root file systems, licences, SBOM, CVE data:
  transformations of file trees and texts, or drivers of opkg, rpm and dpkg.
* The rest of devtool and recipetool, runqemu: sequential drivers of git, tinfoil
  and qemu.
* The selftests (`meta/lib/oeqa`) apart from the qemu runner: they are the
  repository's tests, not its program.
* The vendor layers and this product's layer: metadata without state of their
  own.
