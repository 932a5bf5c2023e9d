----------------------------- MODULE Selections -----------------------------
(***************************************************************************)
(* Lists with some of their entries taken out.  It is said by the places   *)
(* that stay, and not with SelectSeq, so that it can be reasoned about.    *)
(***************************************************************************)
EXTENDS Naturals, Sequences

(* The places of seq that hold no member of out, in order. *)
Places(seq, out) ==
  {f \in UNION {[1..n -> 1..Len(seq)] : n \in 0..Len(seq)} :
     /\ \A i, j \in DOMAIN f : i < j => f[i] < f[j]
     /\ \A k \in 1..Len(seq) : seq[k] \notin out <=> \E i \in DOMAIN f : f[i] = k}

(* What is left of seq without the members of out: a set of one sequence. *)
LeftOf(seq, out) == {[i \in DOMAIN f |-> seq[f[i]]] : f \in Places(seq, out)}
=============================================================================
