------------------------------- MODULE MCTools -------------------------------
(***************************************************************************)
(* Instances of what works beside the tasks of a build: the process pool   *)
(* of the packaging tasks, the pruning of the sstate index, wic, devtool's  *)
(* patches and deployments, and the qemu runner of the tests.              *)
(* They share nothing, so in every behaviour one of them runs and the      *)
(* others stay where they begin: the states are the sum of the six         *)
(* instances, not their product.                                           *)
(***************************************************************************)
EXTENDS MultiprocessLaunch, SstateIndex, WicLayout, DevtoolPatches,
        DeployTarget, QemuRunner

VARIABLE focus   \* the tool that runs

-----------------------------------------------------------------------------
(* wic: partitions without content, aligned, placed, outside the table,     *)
(* logical, of fixed size, in a hybrid MBR, without a sector.               *)
Plain   == [source |-> "none", content |-> 0, size |-> 3, fixed |-> 0,
            extra |-> 2, hasFs |-> TRUE, noTable |-> FALSE, logical |-> FALSE,
            align |-> 0, at |-> -1, mbr |-> FALSE]
Aligns  == [Plain EXCEPT !.align = 4]
Placed  == [Plain EXCEPT !.at = 64 * 512]
Outside == [Plain EXCEPT !.noTable = TRUE, !.source = "raw", !.content = 5]
AsksFor == [Plain EXCEPT !.logical = TRUE]
Fixed   == [Plain EXCEPT !.size = 0, !.fixed = 5, !.source = "rootfs", !.content = 4]
Hybrid  == [Plain EXCEPT !.mbr = TRUE, !.source = "rootfs", !.content = 2, !.align = 1]
Void    == [Plain EXCEPT !.size = 0, !.hasFs = FALSE]

Few     == {<<>>} \cup {<<d>> : d \in {Plain, AsksFor, Hybrid, Void}}
Three   == {<<d, e, f>> : d \in {Plain, Fixed, Hybrid},
                          e \in {Plain, Aligns, Placed, Outside},
                          f \in {Aligns, AsksFor, Placed}}
MCTables ==
  {<<a, b, c>> \o t : a \in {Plain, Hybrid}, b \in {Plain, Aligns, Outside},
                      c \in {Plain, Hybrid}, t \in Few \cup Three}
  \cup {<<Hybrid, Hybrid, Hybrid, Hybrid, Hybrid>>, <<AsksFor, Plain>>,
         <<AsksFor, Plain, AsksFor>>, <<AsksFor, Outside, Aligns, AsksFor>>}
MCPTables == {"msdos", "gpt", "gpt-hybrid"}

(* The index: two versions of one recipe, of which STAMPCLEAN matches the   *)
(* one with a "-".                                                          *)
MCStamp      == {"1", "1-a"}
MCCleanable  == {"1-a"}
MCManifestOf == [s \in MCStamp |-> "manifest"]
MCBegins     == [s \in MCStamp |-> IF s = "1" THEN MCStamp ELSE {s}]

(* update-recipe: two patches at first, a name for a third. *)
MCShipped == <<"p", "q">>

(* deploy-target: "f" was there before, "d" is a link to a directory; "g"   *)
(* was there and both recipes install it.                                   *)
MCPath      == {"f", "g", "d"}
MCDelivers  == [r \in {"a", "b"} |-> IF r = "a" THEN {"f", "g"} ELSE {"d", "g"}]
MCBefore    == [p \in MCPath |-> IF p = "d" THEN "none" ELSE "file"]
MCDelivered == [p \in MCPath |-> IF p = "d" THEN "dirlink" ELSE "file"]
-----------------------------------------------------------------------------
(* Only wic and the index need more than one of their initial states. *)
ToolsInit ==
  /\ focus \in {"launch", "index", "wic", "patches", "deploy", "qemu"}
  /\ MpInit /\ IxInit /\ WicInit /\ DtInit /\ DpInit /\ QemuInit
  /\ focus # "wic" => ptable = "gpt" /\ table = <<AsksFor, Plain>>
  /\ focus # "index" => machine = CHOOSE m \in Machine : TRUE

Launches == focus = "launch" /\ MpNext
Prunes   == focus = "index" /\ IxNext
Lays     == focus = "wic" /\ WicNext
Patches  == focus = "patches" /\ DtNext
Deploys  == focus = "deploy" /\ DpNext
Tests    == focus = "qemu" /\ QemuNext

ToolsNext ==
  \/ Launches /\ UNCHANGED <<focus, ixVars, wicVars, dtVars, dpVars, qemuVars>>
  \/ Prunes   /\ UNCHANGED <<focus, mpVars, wicVars, dtVars, dpVars, qemuVars>>
  \/ Lays     /\ UNCHANGED <<focus, mpVars, ixVars, dtVars, dpVars, qemuVars>>
  \/ Patches  /\ UNCHANGED <<focus, mpVars, ixVars, wicVars, dpVars, qemuVars>>
  \/ Deploys  /\ UNCHANGED <<focus, mpVars, ixVars, wicVars, dtVars, qemuVars>>
  \/ Tests    /\ UNCHANGED <<focus, mpVars, ixVars, wicVars, dtVars, dpVars>>

ToolsVars == <<focus, mpVars, ixVars, wicVars, dtVars, dpVars, qemuVars>>

(* The kernel schedules processes and threads, and a child that is not      *)
(* killed ends; stop() and the logging thread's way out do not wait for     *)
(* anything but each other.                                                 *)
ToolsSpec ==
  /\ ToolsInit /\ [][ToolsNext]_ToolsVars
  /\ WF_mpVars(focus = "launch" /\ MpParent)
  /\ \A i \in Item : WF_mpVars(focus = "launch" /\ MpChild(i))
  /\ WF_qemuVars(focus = "qemu" /\ StopStep)
  /\ WF_qemuVars(focus = "qemu" /\ LogBegin)
  /\ WF_qemuVars(focus = "qemu" /\ LogLeave)
  /\ WF_qemuVars(focus = "qemu" /\ LogTeardown)
=============================================================================
