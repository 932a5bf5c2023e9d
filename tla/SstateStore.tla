----------------------------- MODULE SstateStore -----------------------------
(***************************************************************************)
(* What a signed sstate cache promises about one object (one SSTATE_PKG    *)
(* path) to the builds that share it: nothing is there, or one archive     *)
(* with its signature; once published it is never exchanged for another,   *)
(* and everybody who uses the object uses that archive.                    *)
(***************************************************************************)
CONSTANTS Content,  \* the archives that builders or the mirror may publish
          User,     \* setscene tasks that verify signatures
          Nothing

VARIABLES obj,      \* the published archive, or Nothing
          used      \* used[u]: the archive u unpacked, or Nothing

Init ==
  /\ obj = Nothing
  /\ used = [u \in User |-> Nothing]

Publish(c) ==
  /\ obj = Nothing
  /\ obj' = c
  /\ UNCHANGED used

Use(u) ==
  /\ obj # Nothing
  /\ used[u] = Nothing
  /\ used' = [used EXCEPT ![u] = obj]
  /\ UNCHANGED obj

Next == (\E c \in Content : Publish(c)) \/ (\E u \in User : Use(u))

Spec == Init /\ [][Next]_<<obj, used>>
=============================================================================
