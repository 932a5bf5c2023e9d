---------------------------- MODULE DevtoolPatches ----------------------------
(***************************************************************************)
(* devtool modify and update-recipe in patch mode, for one recipe          *)
(* (scripts/lib/devtool/standard.py).  modify turns the patches of SRC_URI  *)
(* into commits and notes them in the workspace's bbappend; the user works  *)
(* on the commits; update-recipe turns the commits that changed back into   *)
(* patch files beside the recipe and rewrites SRC_URI.                      *)
(*                                                                         *)
(* A patch file is named without the number git gives it, and the user      *)
(* gives commits unique shortlogs, as the comment in _export_patches asks.  *)
(* Patch contents are versions.  Left out: local files, override branches,  *)
(* submodules, --append, --no-remove, --dry-run, and remote patches.        *)
(***************************************************************************)
EXTENDS Selections

CONSTANTS Patch,          \* names of patch files
          Shipped,        \* the patches of the recipe at first, a sequence
          MaxVersion,     \* bound: edits of the user
          MaxInterrupts   \* bound: updates that are interrupted

Named(seq) == {seq[k] : k \in 1..Len(seq)}

ASSUME PatchesAssumption ==
  /\ Shipped \in Seq(Patch)
  /\ \A j, k \in 1..Len(Shipped) : Shipped[j] = Shipped[k] => j = k
  /\ MaxVersion \in Nat \ {0} /\ MaxInterrupts \in Nat

VARIABLES
  dtPc,       \* out of the workspace, tree, write, recipe or remove
  srcUri,     \* the patches in SRC_URI, in order
  patchFile,  \* the version in each patch file, 0 if there is no file
  history,    \* the commits on top of the initial revision: the file each is
              \* exported to, its version, and whether a note gives the name
  noted,      \* the commits the bbappend lists ("# commit")
  untouched,  \* how many commits are still the first ones of that list
  toWrite, toAdd, toDrop, \* upd_p and new_p, new_p, del_p of an update
  version,    \* versions so far
  interrupts,
  synced,     \* history: the last update is complete, no edit since
  restored,   \* history: the user has gone back to a commit of the list
  ordered     \* history: the user has moved no commit, and all that SRC_URI did
              \* not name yet were new ones, one at a time, behind the others

dtVars == <<dtPc, srcUri, patchFile, history, noted, untouched, toWrite, toAdd,
            toDrop, version, interrupts, synced, restored, ordered>>
recipe == <<srcUri, patchFile>>
tree   == <<history, noted, untouched>>
plan   == <<toWrite, toAdd, toDrop>>
notes  == <<synced, restored, ordered>>

Files(commits) == {commits[k].file : k \in 1..Len(commits)}
Without(seq, k) == SubSeq(seq, 1, k - 1) \o SubSeq(seq, k + 1, Len(seq))
Least(a, b) == IF a <= b THEN a ELSE b
-----------------------------------------------------------------------------
DtInit ==
  /\ dtPc = "out"
  /\ srcUri = Shipped
  /\ patchFile = [p \in Patch |-> IF p \in Named(Shipped) THEN 1 ELSE 0]
  /\ history = <<>> /\ noted = <<>> /\ untouched = 0
  /\ toWrite = {} /\ toAdd = {} /\ toDrop = {}
  /\ version = 1 /\ interrupts = 0
  /\ synced = FALSE /\ restored = FALSE /\ ordered = TRUE

(* modify: a commit for each patch, with a note of its name. *)
Modify ==
  /\ dtPc = "out"
  /\ history' = [k \in 1..Len(srcUri) |->
                   [file |-> srcUri[k], version |-> patchFile[srcUri[k]],
                    note |-> TRUE]]
  /\ noted' = history' /\ untouched' = Len(srcUri)
  /\ dtPc' = "tree"
  /\ synced' = TRUE /\ restored' = FALSE /\ ordered' = TRUE
  /\ UNCHANGED <<recipe, plan, version, interrupts>>

(* reset: the recipe leaves the workspace. *)
Leave ==
  /\ dtPc = "tree"
  /\ dtPc' = "out"
  /\ history' = <<>> /\ noted' = <<>> /\ untouched' = 0
  /\ synced' = FALSE /\ restored' = FALSE /\ ordered' = TRUE
  /\ UNCHANGED <<recipe, plan, version, interrupts>>

(* The user makes new commits of all from k on. *)
Edit(k, commits, inOrder) ==
  /\ dtPc = "tree" /\ version < MaxVersion
  /\ version' = version + 1
  /\ history' = commits
  /\ untouched' = Least(untouched, k - 1)
  /\ synced' = FALSE
  /\ ordered' = (ordered /\ inOrder)
  /\ UNCHANGED <<dtPc, recipe, noted, plan, interrupts, restored>>

Amend(k) == Edit(k, [history EXCEPT ![k].version = version + 1], TRUE)
Drop(k)  == Edit(k, Without(history, k), TRUE)
Swap(k)  == /\ k < Len(history)
            /\ Edit(k, [history EXCEPT ![k] = history[k + 1], ![k + 1] = history[k]], FALSE)

(* The file p would be the only one that SRC_URI does not name, and that of *)
(* the k-th commit, which is the last.                                      *)
OneNew(k, p) ==
  /\ p \notin Named(srcUri)
  /\ \A j \in 1..Len(history) \ {k} : j < k /\ history[j].file \in Named(srcUri)

Commit(p) ==
  /\ p \notin Files(history)
  /\ Edit(Len(history) + 1,
          Append(history, [file |-> p, version |-> version + 1, note |-> FALSE]),
          OneNew(Len(history) + 1, p))

(* A new shortlog; a commit with a note is exported under its old name. *)
Reword(k, p) ==
  /\ p \notin Files(history)
  /\ Edit(k, [history EXCEPT ![k].version = version + 1,
                             ![k].file = IF history[k].note THEN @ ELSE p],
          history[k].note \/ OneNew(k, p))

(* The user goes back to the commits modify has made. *)
GoBack ==
  /\ dtPc = "tree" /\ history # noted
  /\ history' = noted /\ untouched' = Len(noted)
  /\ synced' = FALSE /\ restored' = TRUE
  /\ UNCHANGED <<dtPc, recipe, noted, plan, version, interrupts, ordered>>
-----------------------------------------------------------------------------
FirstChangedBug == untouched + 2

(* The first commit after the last one the bbappend still agrees with. *)
FirstChanged == untouched + 1

Exported == {history[k] : k \in FirstChanged..Len(history)}
VersionIn(p) == (CHOOSE c \in Exported : c.file = p).version

(* update-recipe: the patches that changed or are new, from the commits     *)
(* after the last unchanged one, and those without a commit, from all.      *)
UpdateRecipe ==
  /\ dtPc = "tree"
  /\ toWrite' = {c.file : c \in Exported}
  /\ toAdd' = toWrite' \ Named(srcUri)
  /\ toDrop' = Named(srcUri) \ Files(history)
  /\ IF toWrite' \cup toDrop' = {} THEN synced' = TRUE /\ UNCHANGED dtPc
     ELSE dtPc' = "write" /\ UNCHANGED synced
  /\ UNCHANGED <<recipe, tree, version, interrupts, restored, ordered>>

(* A patch file is moved to its place: those in SRC_URI first. *)
WritePatch(p) ==
  /\ dtPc = "write" /\ p \in toWrite
  /\ p \in toAdd => toWrite \subseteq toAdd
  /\ patchFile' = [patchFile EXCEPT ![p] = VersionIn(p)]
  /\ toWrite' = toWrite \ {p}
  /\ UNCHANGED <<dtPc, srcUri, tree, toAdd, toDrop, version, interrupts, notes>>

Written ==
  /\ dtPc = "write" /\ toWrite = {}
  /\ dtPc' = "recipe"
  /\ UNCHANGED <<recipe, tree, plan, version, interrupts, notes>>

(* The sequences of the new patches: os.walk lists them in any order. *)
Orders(set) ==
  {seq \in UNION {[1..n -> set] : n \in 0..Len(history)} :
     Named(seq) = set /\ \A j, k \in DOMAIN seq : seq[j] = seq[k] => j = k}

WriteRecipeBug ==
  /\ dtPc = "recipe"
  /\ \E seq \in Orders(toAdd) : srcUri' = srcUri \o seq
  /\ dtPc' = "remove"
  /\ UNCHANGED <<patchFile, tree, plan, version, interrupts, notes>>

(* New entries at the end of SRC_URI, dropped ones taken out.               *)
WriteRecipe ==
  /\ dtPc = "recipe"
  /\ \E seq \in Orders(toAdd) :
       srcUri' \in LeftOf(srcUri \o seq, toDrop)
  /\ dtPc' = "remove"
  /\ UNCHANGED <<patchFile, tree, plan, version, interrupts, notes>>

(* _remove_source_files *)
RemoveSource(p) ==
  /\ dtPc = "remove" /\ p \in toDrop
  /\ patchFile' = [patchFile EXCEPT ![p] = 0]
  /\ toDrop' = toDrop \ {p}
  /\ UNCHANGED <<dtPc, srcUri, tree, toWrite, toAdd, version, interrupts, notes>>

Back == dtPc' = "tree" /\ toWrite' = {} /\ toAdd' = {} /\ toDrop' = {}

Updated ==
  /\ dtPc = "remove" /\ toDrop = {}
  /\ Back
  /\ synced' = TRUE
  /\ UNCHANGED <<recipe, tree, version, interrupts, restored, ordered>>

InterruptUpdate ==
  /\ dtPc \in {"write", "recipe", "remove"} /\ interrupts < MaxInterrupts
  /\ interrupts' = interrupts + 1
  /\ Back
  /\ UNCHANGED <<recipe, tree, version, notes>>

DtNext ==
  \/ Modify \/ Leave \/ GoBack \/ UpdateRecipe \/ Written \/ WriteRecipe \/ Updated
  \/ InterruptUpdate
  \/ \E k \in 1..Len(history) :
       Amend(k) \/ Drop(k) \/ Swap(k) \/ \E p \in Patch : Reword(k, p)
  \/ \E p \in Patch : Commit(p) \/ WritePatch(p) \/ RemoveSource(p)

DtSpec == DtInit /\ [][DtNext]_dtVars
-----------------------------------------------------------------------------
(* After an update the recipe's patches are the commits, each in the file   *)
(* that SRC_URI names: nothing the user did is left out, and nothing is     *)
(* left that the user dropped, over several updates and after interrupted   *)
(* ones.  They are applied in the order of the commits while the user moves *)
(* no commit and adds at most one between two updates, behind the others,   *)
(* with a name that SRC_URI has not: entries of SRC_URI never move, and new *)
(* ones come in the order in which os.walk lists them.                      *)
(* Not so when the user goes back to a commit from before an update: the    *)
(* list in the bbappend takes it for unchanged.                             *)
(* [standard.py 1274-1284, 1357-1435, 1736-1871]                            *)
RoundTrip ==
  synced /\ ~restored /\ dtPc = "tree" =>
    /\ {[file |-> p, version |-> patchFile[p]] : p \in Named(srcUri)}
         = {[file |-> c.file, version |-> c.version] : c \in Named(history)}
    /\ ordered => \A i, j \in 1..Len(srcUri), k, l \in 1..Len(history) :
         srcUri[i] = history[k].file /\ srcUri[j] = history[l].file => (i < j <=> k < l)

(* SRC_URI names no patch twice, and none that has no file: a build of the  *)
(* recipe can fetch all of them, whenever an update is interrupted.         *)
(* [standard.py 1829-1871]                                                  *)
EntriesHaveFiles ==
  /\ \A p \in Named(srcUri) : patchFile[p] # 0
  /\ \A j, k \in 1..Len(srcUri) : srcUri[j] = srcUri[k] => j = k
=============================================================================
