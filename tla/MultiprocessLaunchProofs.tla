----------------------- MODULE MultiprocessLaunchProofs -----------------------
(***************************************************************************)
(* Proofs about MultiprocessLaunch for every set of items, every number of *)
(* processes and any number of killed children.                            *)
(***************************************************************************)
EXTENDS MultiprocessLaunch, FiniteSetTheorems, TLAPS

(* A child is launched once, and is watched as long as it is a process. *)
WatchInv ==
  /\ \A i \in Item : i \in items <=> child[i] = "none"
  /\ launched \cap items = {}
  /\ \A i \in Item : Alive(i) => i \in launched
  /\ visit \subseteq launched
  /\ mpPc \in {"alive", "collect"} => at \in launched \ visit
  /\ mpPc = "collect" => ~Alive(at)
  /\ mpPc \in {"idle", "done", "fatal"} => launched = {}
  /\ mpPc = "done" => items = {} /\ errors = {}

(* Where an answer is: not sent, cut short, in the pipe, or received. *)
AnswerInv ==
  \A i \in Item :
    /\ child[i] \in {"none", "running"} =>
         pipe[i] = "empty" /\ answer[i] = "none" /\ got[i] = "none"
    /\ child[i] = "blocked" => pipe[i] = "part" /\ answer[i] # "none" /\ got[i] = "none"
    /\ child[i] \in {"sent", "exited"} =>
         /\ answer[i] # "none"
         /\ \/ pipe[i] = "whole" /\ got[i] = "none"
            \/ pipe[i] = "empty" /\ got[i] = answer[i]
    /\ child[i] = "killed" => pipe[i] # "whole" /\ got[i] = "none"

(* What the parent has kept of the children it no longer watches. *)
ReapedInv ==
  \A i \in Item :
    IF i \in items \cup launched
    THEN i \notin results \cup errors
    ELSE /\ i \in results <=> got[i] = "value"
         /\ i \in errors <=> got[i] = "error"
         /\ child[i] = "exited" => pipe[i] = "empty"

(* Room for one more child is tested before each launch. *)
RoomInv == Cardinality(launched) <= MaxProcess

LInv == MpTypeOK /\ WatchInv /\ AnswerInv /\ ReapedInv

USE LaunchAssumption

(* Nothing is launched in the initial state. *)
LEMMA InitLInv == MpInit => LInv
BY DEF MpInit, LInv, MpTypeOK, WatchInv, AnswerInv, ReapedInv, Alive, Answers

(* Receiving leaves the process of a child alone, but for one in send(). *)
LEMMA UpdateReceives ==
  ASSUME LInv, NEW i \in Item, Update(i)
  PROVE  /\ pipe' \in [Item -> {"empty", "part", "whole"}]
         /\ child' \in [Item -> {"none", "running", "blocked", "sent", "exited", "killed"}]
         /\ got' \in [Item -> Answers \cup {"none"}]
         /\ \A j \in Item : Alive(j)' <=> Alive(j)
         /\ \A j \in Item : child'[j] = "none" <=> child[j] = "none"
         /\ \A j \in Item \ {i} : /\ child'[j] = child[j] /\ pipe'[j] = pipe[j]
                                  /\ got'[j] = got[j]
         /\ child'[i] # child[i] => child[i] = "blocked" /\ child'[i] = "sent"
         /\ child'[i] = "exited" => pipe'[i] = "empty"
         /\ child[i] = "killed" => UNCHANGED <<pipe, child, got>>
         /\ answer' = answer => AnswerInv'
BY DEF LInv, MpTypeOK, AnswerInv, Update, CanReceive, Alive, Answers

(* Every step of the parent and of a child preserves LInv. *)
LEMMA NextLInv == LInv /\ [MpNext]_mpVars => LInv'
<1> SUFFICES ASSUME LInv, [MpNext]_mpVars PROVE LInv'
  OBVIOUS
<1> USE DEF LInv, MpTypeOK, WatchInv, AnswerInv, ReapedInv, Alive, Answers
<1>1. CASE Call
  BY <1>1 DEF Call
<1>2. CASE Loop
  BY <1>2 DEF Loop, MayLaunch, LoopAgain
<1>3. ASSUME NEW i \in Item, Poll(i) PROVE LInv'
  <2>1. i \in launched /\ Update(i) /\ answer' = answer
    BY <1>3 DEF Poll, NextChild
  <2>2. MpTypeOK' /\ WatchInv'
    BY <1>3, <2>1, UpdateReceives DEF Poll, NextChild
  <2>3. AnswerInv'
    BY <2>1, UpdateReceives
  <2>4. ReapedInv'
    BY <1>3, <2>1, UpdateReceives DEF Poll, NextChild
  <2> QED BY <2>2, <2>3, <2>4
<1>4. CASE IsAlive
  BY <1>4 DEF IsAlive
<1>5. CASE Collect
  <2>1. at \in Item /\ at \in launched /\ Update(at) /\ answer' = answer /\ ~Alive(at)
    BY <1>5 DEF Collect
  <2>2. MpTypeOK' /\ WatchInv'
    BY <1>5, <2>1, UpdateReceives DEF Collect, Skipped
  <2>3. AnswerInv'
    BY <2>1, UpdateReceives
  <2>4. ReapedInv'
    BY <1>5, <2>1, UpdateReceives DEF Collect
  <2> QED BY <2>2, <2>3, <2>4
<1>6. CASE ScanEnd
  BY <1>6 DEF ScanEnd
<1>7. CASE Return
  BY <1>7 DEF Return, LoopAgain
<1>8. ASSUME NEW i \in Item, Answer(i) PROVE LInv'
  BY <1>8 DEF Answer
<1>9. ASSUME NEW i \in Item, Exit(i) PROVE LInv'
  BY <1>9 DEF Exit
<1>10. ASSUME NEW i \in Item, Kill(i) PROVE LInv'
  BY <1>10 DEF Kill
<1>11. CASE UNCHANGED mpVars
  BY <1>11 DEF mpVars
<1> QED
  BY <1>1, <1>2, <1>3, <1>4, <1>5, <1>6, <1>7, <1>8, <1>9, <1>10, <1>11
     DEF MpNext, MpParent, MpChild

(* LInv holds in every reachable state. *)
THEOREM LaunchInvariance == MpSpec => []LInv
<1> QED BY InitLInv, NextLInv, PTL DEF MpSpec

(* Type correctness of the parent, the children and the pipes. *)
THEOREM LaunchTypeCorrect == MpSpec => []MpTypeOK
<1>1. LInv => MpTypeOK
  BY DEF LInv
<1> QED BY <1>1, LaunchInvariance, PTL

(* A call that returns has the answer of every child that was not killed.  *)
THEOREM NoAnswerLost == MpSpec => []AnswersCollected
<1>1. LInv => AnswersCollected
  BY DEF LInv, MpTypeOK, WatchInv, AnswerInv, ReapedInv, Alive, Answers, AnswersCollected
<1> QED BY <1>1, LaunchInvariance, PTL

(* The list of children never grows past the number of processes. *)
LEMMA RoomKept == LInv /\ RoomInv /\ [MpNext]_mpVars => RoomInv'
<1> SUFFICES ASSUME LInv, RoomInv, [MpNext]_mpVars PROVE RoomInv'
  OBVIOUS
<1>1. IsFiniteSet(launched) /\ Cardinality(launched) \in Nat
  BY FS_Subset, FS_CardinalityType DEF LInv, MpTypeOK
<1>2. CASE launched' \subseteq launched
  BY <1>1, <1>2, FS_Subset, FS_CardinalityType DEF RoomInv
<1>3. ASSUME NEW i \in items, MayLaunch, launched' = launched \cup {i} PROVE RoomInv'
  <2>1. Cardinality(launched \cup {i}) \in {Cardinality(launched), Cardinality(launched) + 1}
    BY <1>1, FS_AddElement
  <2>2. Cardinality(launched) < MaxProcess
    BY <1>3 DEF MayLaunch
  <2>3. Cardinality(launched') <= MaxProcess
    BY <1>1, <1>3, <2>1, <2>2
  <2> QED BY <2>3 DEF RoomInv
<1>4. \/ launched' \subseteq launched
      \/ MayLaunch /\ \E i \in items : launched' = launched \cup {i}
  BY DEF MpNext, MpParent, MpChild, Call, Loop, Poll, IsAlive, Collect, ScanEnd, Return,
         Answer, Exit, Kill, mpVars
<1> QED BY <1>2, <1>3, <1>4

(* No more children run than there are processes, and none outlives the    *)
(* call.                                                                   *)
THEOREM ChildrenStayBounded == MpSpec => []ChildrenBounded
<1>1. MpInit => RoomInv
  BY FS_EmptySet DEF MpInit, RoomInv
<1>2. LInv /\ RoomInv => ChildrenBounded
  <2> SUFFICES ASSUME LInv, RoomInv PROVE ChildrenBounded
    OBVIOUS
  <2>1. IsFiniteSet(launched)
    BY FS_Subset DEF LInv, MpTypeOK
  <2>2. {i \in Item : Alive(i)} \subseteq launched
    BY DEF LInv, WatchInv
  <2>3. Cardinality({i \in Item : Alive(i)}) <= Cardinality(launched)
    BY <2>1, <2>2, FS_Subset
  <2>4. Cardinality({i \in Item : Alive(i)}) \in Nat /\ Cardinality(launched) \in Nat
    BY <2>1, <2>2, FS_Subset, FS_CardinalityType
  <2>5. Returned => \A i \in Item : ~Alive(i)
    BY DEF LInv, WatchInv, Returned
  <2> QED BY <2>3, <2>4, <2>5 DEF RoomInv, ChildrenBounded
<1> QED BY <1>1, <1>2, RoomKept, LaunchInvariance, PTL DEF MpSpec
===============================================================================
