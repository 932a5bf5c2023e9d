--------------------------- MODULE MCRecipeSysroot ---------------------------
(***************************************************************************)
(* An instance of RecipeSysroot: do_configure runs before do_package_qa    *)
(* and do_package_write_ipk, which run side by side; the file "m" moves    *)
(* from the first dependency to the second.                                *)
(***************************************************************************)
EXTENDS RecipeSysroot

MCTask == {"configure", "qa", "ipk"}
MCDep  == {"zlib", "tool"}
MCHash == {1, 2}
MCFile == {"z", "m", "t"}
MCConfig == {1, 2, 3}

(* Configuration 2 changes all hashes and a dependency of configure,        *)
(* configuration 3 only dependencies.                                       *)
MCHashOf == [g \in MCConfig |-> [c \in MCDep |-> IF g = 2 THEN 2 ELSE 1]]

MCFiles ==
  [c \in MCDep |-> [h \in MCHash |->
     IF c = "zlib" THEN IF h = 1 THEN {"z", "m"} ELSE {"z"}
                   ELSE IF h = 1 THEN {"t"} ELSE {"t", "m"}]]

(* What a task needs, the tasks after it need. *)
MCNeed ==
  [g \in MCConfig |-> [t \in MCTask |->
     CASE g = 1 -> {"zlib", "tool"}
       [] g = 2 -> IF t = "configure" THEN {"zlib"} ELSE {"zlib", "tool"}
       [] g = 3 -> IF t = "qa" THEN {"tool"} ELSE {}]]

MCOwn == [t \in MCTask |-> IF t = "configure" THEN {} ELSE {"configure"}]

ASSUME InstanceAssumption == MovesCovered
=============================================================================
