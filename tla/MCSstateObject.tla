--------------------------- MODULE MCSstateObject ----------------------------
(***************************************************************************)
(* Instances of SstateObject: builds with and without signing share the    *)
(* cache, as when a CI server signs and a developer's build does not.      *)
(***************************************************************************)
EXTENDS SstateObject

MCBuilder == {"ci1", "ci2", "dev"}
MCSigns   == {"ci1", "ci2"}

(* One reader verifies, the other does not. *)
MCReader   == {"strict", "lax"}
MCVerifies == {"strict"}

(* A single build without signatures. *)
OneBuilder == {"dev"}
OneReader  == {"lax"}
Nobody     == {}
=============================================================================
