--------------------------- MODULE MCSstateInstall ---------------------------
(***************************************************************************)
(* Instances of SstateInstall.  "base" has three files and two tasks; the  *)
(* file "m" belongs to the first task under configuration 1 and to the     *)
(* second under configuration 2.  The versions of the kernel have a "-",   *)
(* as those of linux-toradex do; the image has one without.                *)
(***************************************************************************)
EXTENDS SstateInstall

MCTask == {"kernel", "image"}
MCFile == {"k", "i", "m"}
MCVersion == {1, 2}
MCConfig == {1, 2}
MCLock == {"deploy"}

(* Both tasks change signature with the configuration. *)
MCWant == [c \in MCConfig |-> [t \in MCTask |-> c]]

(* "m" moves from one task to the other. *)
MovingOut ==
  [t \in MCTask |-> [v \in MCVersion |->
     IF t = "kernel" THEN IF v = 1 THEN {"k", "m"} ELSE {"k"}
                     ELSE IF v = 1 THEN {"i"} ELSE {"i", "m"}]]

(* The stamps of the two kernels have different versions, those of the      *)
(* image differ in the signature only.                                     *)
MCPv ==
  [t \in MCTask |-> [v \in MCVersion |->
     IF t = "image" THEN "1.0" ELSE IF v = 1 THEN "5.4-2.3" ELSE "6.6-2.2"]]
MCDashed == {"5.4-2.3", "6.6-2.2"}

(* Two recipes that both provide "m" and, allowed to overlap, "k". *)
SharedOut ==
  [t \in MCTask |-> [v \in MCVersion |->
     IF t = "kernel" THEN {"k", "m"} ELSE {"k", "m", "i"}]]

(* Both name the lock as shared, as all tasks that write rpm packages do. *)
NoLocks   == [t \in MCTask |-> {}]
LockedAll == [t \in MCTask |-> MCLock]
=============================================================================
