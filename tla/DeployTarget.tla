----------------------------- MODULE DeployTarget -----------------------------
(***************************************************************************)
(* devtool deploy-target and undeploy-target: the shell script that        *)
(* scripts/lib/devtool/deploy.py writes and runs on the target.  It removes *)
(* what the recipe deployed before, moves files that are in the way to the *)
(* recipe's preserve directory, unpacks the recipe's files while their     *)
(* names go to a manifest, and makes the names in the manifest absolute.   *)
(* Undeploying removes the files of the manifest and moves the preserved   *)
(* ones back.                                                              *)
(*                                                                         *)
(* Sessions run one at a time; the connection may be cut at any step.      *)
(* Directories are left out, and the options --no-preserve and --dry-run.  *)
(***************************************************************************)
EXTENDS Naturals

CONSTANTS Recipe, Path,
          NoRecipe,
          Delivers,     \* Delivers[r]: the paths recipe r may install
          Before,       \* kind of what is at a path before any deploying
          Delivered,    \* kind of what a recipe installs at a path
          MaxCuts       \* bound: sessions cut

(* A regular file, a link to one, a link to nothing, a link that leads to a *)
(* directory on the target (and to nothing on the build host).              *)
Kinds == {"file", "link", "dangling", "dirlink"}

ASSUME DeployAssumption ==
  /\ NoRecipe \notin Recipe /\ "none" \notin Recipe /\ "orig" \notin Recipe
  /\ Delivers \in [Recipe -> SUBSET Path]
  /\ Before \in [Path -> Kinds \cup {"none"}]
  /\ Delivered \in [Path -> Kinds]
  /\ MaxCuts \in Nat

Content == Recipe \cup {"none", "orig"}

VARIABLES
  dpPc,        \* the step of the script, or idle
  dpRecipe,    \* $1
  deploying,   \* deploy, or undeploy
  rest,        \* recipes undeploy --all has yet to do
  dpList,      \* the file list of the session
  dpTodo,      \* paths the current loop has yet to do
  target,      \* what is at each path
  manifest,    \* per recipe: its entries, and whether they are absolute
  preserve,    \* per recipe: what is in its preserve directory
  cuts,
  spoiled      \* history: recipes whose session was cut with a manifest
               \* of relative names

dpVars == <<dpPc, dpRecipe, deploying, rest, dpList, dpTodo, target, manifest,
            preserve, cuts, spoiled>>
session == <<dpRecipe, deploying, rest, dpList>>
dpHistory == <<cuts, spoiled>>

NoManifest == [entries |-> {}, form |-> "none"]

KindOf(c, p) == IF c = "orig" THEN Before[p]
                ELSE IF c \in Recipe THEN Delivered[p] ELSE "none"

(* The shell's [ -e ] and [ -d ], which follow links. *)
Exists(p) == KindOf(target[p], p) \in {"file", "link", "dirlink"}
IsDir(p)  == KindOf(target[p], p) = "dirlink"
-----------------------------------------------------------------------------
DpInit ==
  /\ dpPc = "idle" /\ dpRecipe = NoRecipe /\ deploying = FALSE
  /\ rest = {} /\ dpList = {} /\ dpTodo = {}
  /\ target = [p \in Path |-> IF Before[p] = "none" THEN "none" ELSE "orig"]
  /\ manifest = [r \in Recipe |-> NoManifest]
  /\ preserve = [r \in Recipe |-> [p \in Path |-> "none"]]
  /\ cuts = 0 /\ spoiled = {}

(* The script starts on recipe r: it goes through its manifest if it has one.*)
Enter(r) ==
  /\ dpRecipe' = r
  /\ IF manifest[r].form = "none"
     THEN dpPc' = "removed" /\ dpTodo' = {}
     ELSE dpPc' = "remove" /\ dpTodo' = manifest[r].entries

(* The script has ended. *)
Finished ==
  /\ dpPc' = "idle" /\ dpRecipe' = NoRecipe /\ deploying' = FALSE
  /\ rest' = {} /\ dpList' = {} /\ dpTodo' = {}

Deploy(r) ==
  /\ dpPc = "idle"
  /\ \E files \in SUBSET Delivers[r] : files # {} /\ dpList' = files
  /\ deploying' = TRUE /\ rest' = {}
  /\ Enter(r)
  /\ UNCHANGED <<target, manifest, preserve, dpHistory>>

Undeploy(r) ==
  /\ dpPc = "idle"
  /\ deploying' = FALSE /\ rest' = {} /\ dpList' = {}
  /\ Enter(r)
  /\ UNCHANGED <<target, manifest, preserve, dpHistory>>

(* undeploy --all goes by the manifests. *)
UndeployAll ==
  /\ dpPc = "idle"
  /\ \E r \in Recipe :
       /\ manifest[r].form # "none"
       /\ rest' = {q \in Recipe \ {r} : manifest[q].form # "none"}
       /\ Enter(r)
  /\ deploying' = FALSE /\ dpList' = {}
  /\ UNCHANGED <<target, manifest, preserve, dpHistory>>

RemoveEntryBug(p) ==
  /\ dpPc = "remove" /\ p \in dpTodo
  /\ dpTodo' = dpTodo \ {p}
  /\ UNCHANGED <<dpPc, session, target, manifest, preserve, dpHistory>>

(* rm -f, for what is not a directory.  A relative name is looked up below  *)
(* the home directory, where there is nothing.                              *)
RemoveEntry(p) ==
  /\ dpPc = "remove" /\ p \in dpTodo
  /\ dpTodo' = dpTodo \ {p}
  /\ target' = IF manifest[dpRecipe].form = "relative" \/ IsDir(p) THEN target
               ELSE [target EXCEPT ![p] = "none"]
  /\ UNCHANGED <<dpPc, session, manifest, preserve, dpHistory>>

ForgetManifest ==
  /\ dpPc = "remove" /\ dpTodo = {}
  /\ manifest' = [manifest EXCEPT ![dpRecipe] = NoManifest]
  /\ dpPc' = "removed"
  /\ UNCHANGED <<session, dpTodo, target, preserve, dpHistory>>

(* The check for space, which may end the script. *)
CheckSpace ==
  /\ dpPc = "removed" /\ deploying
  /\ \/ dpPc' = "preserve" /\ dpTodo' = dpList /\ UNCHANGED session
     \/ Finished
  /\ UNCHANGED <<target, manifest, preserve, dpHistory>>

PreserveBug(p) ==
  /\ dpPc = "preserve" /\ p \in dpTodo
  /\ dpTodo' = dpTodo \ {p}
  /\ target' = IF Exists(p) THEN [target EXCEPT ![p] = "none"] ELSE target
  /\ UNCHANGED <<dpPc, session, manifest, preserve, dpHistory>>

(* Files in the way are moved, over what an earlier session preserved.      *)
Preserve(p) ==
  /\ dpPc = "preserve" /\ p \in dpTodo
  /\ dpTodo' = dpTodo \ {p}
  /\ IF Exists(p)
     THEN /\ preserve' = [preserve EXCEPT ![dpRecipe][p] = target[p]]
          /\ target' = [target EXCEPT ![p] = "none"]
     ELSE UNCHANGED <<target, preserve>>
  /\ UNCHANGED <<dpPc, session, manifest, dpHistory>>

StartExtract ==
  /\ dpPc = "preserve" /\ dpTodo = {}
  /\ manifest' = [manifest EXCEPT ![dpRecipe] =
                    [entries |-> {}, form |-> "relative"]]
  /\ dpPc' = "extract" /\ dpTodo' = dpList
  /\ UNCHANGED <<session, target, preserve, dpHistory>>

(* tar unpacks a file and prints its name into the manifest. *)
Extract(p) ==
  /\ dpPc = "extract" /\ p \in dpTodo
  /\ dpTodo' = dpTodo \ {p}
  /\ target' = [target EXCEPT ![p] = dpRecipe]
  /\ manifest' = [manifest EXCEPT ![dpRecipe].entries = @ \cup {p}]
  /\ UNCHANGED <<dpPc, session, preserve, dpHistory>>

(* sed makes the names absolute. *)
Absolute ==
  /\ dpPc = "extract" /\ dpTodo = {}
  /\ manifest' = [manifest EXCEPT ![dpRecipe].form = "absolute"]
  /\ Finished
  /\ UNCHANGED <<target, preserve, dpHistory>>

(* find -type f, below the preserve directory. *)
StartRestore ==
  /\ dpPc = "removed" /\ ~deploying
  /\ dpPc' = "restore"
  /\ dpTodo' = {p \in Path : KindOf(preserve[dpRecipe][p], p) = "file"}
  /\ UNCHANGED <<session, target, manifest, preserve, dpHistory>>

Restore(p) ==
  /\ dpPc = "restore" /\ p \in dpTodo
  /\ dpTodo' = dpTodo \ {p}
  /\ target' = [target EXCEPT ![p] = preserve[dpRecipe][p]]
  /\ preserve' = [preserve EXCEPT ![dpRecipe][p] = "none"]
  /\ UNCHANGED <<dpPc, session, manifest, dpHistory>>

(* rm -rf of the preserve directory; undeploy --all goes on. *)
Purge ==
  /\ dpPc = "restore" /\ dpTodo = {}
  /\ preserve' = [preserve EXCEPT ![dpRecipe] = [p \in Path |-> "none"]]
  /\ IF rest = {}
     THEN Finished
     ELSE /\ \E r \in rest : Enter(r) /\ rest' = rest \ {r}
          /\ UNCHANGED <<deploying, dpList>>
  /\ UNCHANGED <<target, manifest, dpHistory>>

(* The session is cut: network, power, or the user. *)
Cut ==
  /\ dpPc # "idle" /\ cuts < MaxCuts
  /\ cuts' = cuts + 1
  /\ spoiled' = IF dpPc = "extract" THEN spoiled \cup {dpRecipe} ELSE spoiled
  /\ Finished
  /\ UNCHANGED <<target, manifest, preserve>>

DpNext ==
  \/ \E r \in Recipe : Deploy(r) \/ Undeploy(r)
  \/ UndeployAll \/ ForgetManifest \/ CheckSpace \/ StartExtract \/ Absolute
  \/ StartRestore \/ Purge \/ Cut
  \/ \E p \in Path : RemoveEntry(p) \/ Preserve(p) \/ Extract(p) \/ Restore(p)

DpSpec == DpInit /\ [][DpNext]_dpVars
-----------------------------------------------------------------------------
DpTypeOK ==
  /\ dpPc \in {"idle", "remove", "removed", "preserve", "extract", "restore"}
  /\ dpRecipe \in Recipe \cup {NoRecipe} /\ deploying \in BOOLEAN
  /\ rest \subseteq Recipe /\ dpList \subseteq Path /\ dpTodo \subseteq Path
  /\ target \in [Path -> Content]
  /\ manifest \in [Recipe -> [entries : SUBSET Path,
                              form : {"none", "relative", "absolute"}]]
  /\ preserve \in [Recipe -> [Path -> Content]]
  /\ cuts \in 0..MaxCuts /\ spoiled \subseteq Recipe

(* Paths only one recipe installs, and nothing whose removal the script     *)
(* leaves out; none of a session cut between tar and sed.                   *)
Exclusive(p) ==
  \A q, r \in Recipe : p \in Delivers[q] /\ p \in Delivers[r] => q = r
Spoiled(p) == \E r \in spoiled : p \in Delivers[r]
Ordinary(p) == Exclusive(p) /\ ~Spoiled(p) /\ Delivered[p] # "dirlink"

(* A regular file that was on the target before any deploying is at its     *)
(* place or in a preserve directory, through redeployments with other       *)
(* files, failures for want of space and interrupted sessions: nothing is   *)
(* overwritten, unless two recipes install the path, a session was cut      *)
(* between tar and sed, or the recipe has a link to a directory there, which*)
(* the next deployment takes for something to preserve.  [deploy.py 49-111] *)
OriginalKept ==
  \A p \in Path :
    Before[p] = "file" /\ Ordinary(p) =>
      target[p] = "orig" \/ \E r \in Recipe : preserve[r][p] = "orig"

(* Once a recipe is undeployed to the end, its paths are as they were       *)
(* before any deploying, with the same exceptions; and but for links that   *)
(* were preserved, which the script does not move back.                     *)
(* [deploy.py 49-69, 112-128]                                               *)
UndeployRestores ==
  [][ dpPc = "restore" /\ dpTodo = {} =>
        \A p \in Delivers[dpRecipe] :
          Ordinary(p) /\ Before[p] \in {"none", "file"} =>
            target'[p] = IF Before[p] = "none" THEN "none" ELSE "orig" ]_dpVars
=============================================================================
