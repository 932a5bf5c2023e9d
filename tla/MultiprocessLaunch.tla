-------------------------- MODULE MultiprocessLaunch --------------------------
(***************************************************************************)
(* oe.utils.multiprocess_launch_mp: a parent runs a target over a list of  *)
(* items in child processes, at most a given number at a time, and         *)
(* collects what they answer over one pipe per child.  The packaging tasks *)
(* strip binaries, split debug data and look for shared libraries with it. *)
(*                                                                         *)
(* A child answers with a value, with an empty value, with an exception,   *)
(* or is killed before or in the middle of its answer.  An answer that     *)
(* does not fit the pipe ("part") keeps its child in send() until the      *)
(* parent reads.  An item names its child: no item is launched twice.      *)
(***************************************************************************)
EXTENDS Naturals, FiniteSets

CONSTANTS Item,       \* the items, the targets' first argument
          NoItem,     \* no item
          MaxProcess, \* BB_NUMBER_THREADS
          MaxKills    \* bound: children killed by the environment

ASSUME LaunchAssumption ==
  /\ IsFiniteSet(Item)
  /\ NoItem \notin Item
  /\ MaxProcess \in Nat \ {0}
  /\ MaxKills \in Nat

Answers == {"value", "empty", "error"}

VARIABLES
  mpPc,      \* the parent: idle, loop, scan, alive, collect, done or fatal
  items,     \* items not launched yet
  launched,  \* the parent's list of children it still watches
  visit,     \* the children the scan of that list has yet to reach
  at,        \* the child the scan is at
  child,     \* none, running, blocked in send(), sent, exited, killed
  pipe,      \* nothing, part of an answer, or a whole answer
  answer,    \* what the child sends
  got,       \* _exception and _result of the ProcessLaunch object
  results,   \* children whose result the parent appended
  errors,    \* children whose exception the parent appended
  kills

mpVars == <<mpPc, items, launched, visit, at, child, pipe, answer, got,
            results, errors, kills>>

-----------------------------------------------------------------------------
MpInit ==
  /\ mpPc = "idle"
  /\ items = Item
  /\ launched = {} /\ visit = {} /\ at = NoItem
  /\ child = [i \in Item |-> "none"]
  /\ pipe = [i \in Item |-> "empty"]
  /\ answer = [i \in Item |-> "none"]
  /\ got = [i \in Item |-> "none"]
  /\ results = {} /\ errors = {} /\ kills = 0

(* A child that still is a process. *)
Alive(i) == child[i] \in {"running", "blocked", "sent"}

(* A recv() that returns: the answer is in the pipe, or its sender goes on  *)
(* writing.  The parent keeps its copy of the writing end, so a pipe whose  *)
(* sender died in the middle never reports an end of file.                  *)
CanReceive(i) == pipe[i] = "whole" \/ (pipe[i] = "part" /\ child[i] = "blocked")

(* update(): receive if poll() says there is something. *)
Update(i) ==
  \/ /\ pipe[i] = "empty"
     /\ UNCHANGED <<pipe, child, got>>
  \/ /\ CanReceive(i)
     /\ pipe' = [pipe EXCEPT ![i] = "empty"]
     /\ child' = [child EXCEPT ![i] = IF @ = "blocked" THEN "sent" ELSE @]
     /\ got' = [got EXCEPT ![i] = answer[i]]
-----------------------------------------------------------------------------
(* The caller calls multiprocess_launch. *)
Call ==
  /\ mpPc = "idle"
  /\ mpPc' = "loop"
  /\ UNCHANGED <<items, launched, visit, at, child, pipe, answer, got,
                 results, errors, kills>>

MayLaunchBug == errors = {} /\ items # {} /\ Cardinality(launched) <= MaxProcess
MayLaunch == errors = {} /\ items # {} /\ Cardinality(launched) < MaxProcess

LoopAgain == (items # {} /\ errors = {}) \/ launched # {}

(* The head of the loop: launch one more child if there is room and no      *)
(* error yet, then scan the children.                                       *)
Loop ==
  /\ mpPc = "loop"
  /\ LoopAgain
  /\ mpPc' = "scan"
  /\ at' = NoItem
  /\ \/ /\ MayLaunch
        /\ \E i \in items :
             /\ items' = items \ {i}
             /\ launched' = launched \cup {i}
             /\ child' = [child EXCEPT ![i] = "running"]
     \/ ~MayLaunch /\ UNCHANGED <<items, launched, child>>
  /\ visit' = launched'
  /\ UNCHANGED <<pipe, answer, got, results, errors, kills>>

NextChild(i) == mpPc = "scan" /\ i \in visit

PollBug(i) ==
  /\ NextChild(i)
  /\ UNCHANGED <<pipe, child, got>>
  /\ mpPc' = "alive" /\ at' = i
  /\ visit' = visit \ {i}
  /\ UNCHANGED <<items, launched, answer, results, errors, kills>>

(* q.update(), for a pipe that is full would keep the child from exiting. *)
Poll(i) ==
  /\ NextChild(i)
  /\ Update(i)
  /\ mpPc' = "alive" /\ at' = i
  /\ visit' = visit \ {i}
  /\ UNCHANGED <<items, launched, answer, results, errors, kills>>

(* q.is_alive(), which also joins a child that is gone. *)
IsAlive ==
  /\ mpPc = "alive"
  /\ mpPc' = IF Alive(at) THEN "scan" ELSE "collect"
  /\ UNCHANGED <<items, launched, visit, at, child, pipe, answer, got,
                 results, errors, kills>>

(* Removing an element from the list being iterated over makes the loop     *)
(* skip the one that follows it.                                            *)
Skipped == IF visit = {} THEN {{}} ELSE {{s} : s \in visit}

CollectBug ==
  /\ mpPc = "collect"
  /\ UNCHANGED <<pipe, child, got>>
  /\ errors' = IF got[at] = "error" THEN errors \cup {at} ELSE errors
  /\ results' = IF got[at] = "value" THEN results \cup {at} ELSE results
  /\ launched' = launched \ {at}
  /\ \E s \in Skipped : visit' = visit \ s
  /\ mpPc' = "scan"
  /\ UNCHANGED <<items, at, answer, kills>>

(* A child that is gone: q.exception and q.result update once more, for the *)
(* child may have answered between the update and is_alive().  An empty     *)
(* result is not kept.                                                      *)
Collect ==
  /\ mpPc = "collect"
  /\ Update(at)
  /\ errors' = IF got'[at] = "error" THEN errors \cup {at} ELSE errors
  /\ results' = IF got'[at] = "value" THEN results \cup {at} ELSE results
  /\ launched' = launched \ {at}
  /\ \E s \in Skipped : visit' = visit \ s
  /\ mpPc' = "scan"
  /\ UNCHANGED <<items, at, answer, kills>>

ScanEnd ==
  /\ mpPc = "scan" /\ visit = {}
  /\ mpPc' = "loop"
  /\ UNCHANGED <<items, launched, visit, at, child, pipe, answer, got,
                 results, errors, kills>>

(* Out of the loop: bb.fatal if there were errors, else the results. *)
Return ==
  /\ mpPc = "loop"
  /\ ~LoopAgain
  /\ \A i \in launched : ~Alive(i)           \* p.join()
  /\ mpPc' = IF errors # {} THEN "fatal" ELSE "done"
  /\ UNCHANGED <<items, launched, visit, at, child, pipe, answer, got,
                 results, errors, kills>>
-----------------------------------------------------------------------------
(* run(): the target returns or raises, and the child sends that. *)
Answer(i) ==
  /\ child[i] = "running"
  /\ \E a \in Answers, fits \in BOOLEAN :
       /\ answer' = [answer EXCEPT ![i] = a]
       /\ pipe' = [pipe EXCEPT ![i] = IF fits THEN "whole" ELSE "part"]
       /\ child' = [child EXCEPT ![i] = IF fits THEN "sent" ELSE "blocked"]
  /\ UNCHANGED <<mpPc, items, launched, visit, at, got, results, errors, kills>>

Exit(i) ==
  /\ child[i] = "sent"
  /\ child' = [child EXCEPT ![i] = "exited"]
  /\ UNCHANGED <<mpPc, items, launched, visit, at, pipe, answer, got,
                 results, errors, kills>>

(* The kernel or the user kills a child before it has answered. *)
Kill(i) ==
  /\ kills < MaxKills
  /\ child[i] \in {"running", "blocked"}
  /\ child' = [child EXCEPT ![i] = "killed"]
  /\ kills' = kills + 1
  /\ UNCHANGED <<mpPc, items, launched, visit, at, pipe, answer, got,
                 results, errors>>

MpParent == Call \/ Loop \/ (\E i \in Item : Poll(i)) \/ IsAlive \/ Collect
            \/ ScanEnd \/ Return
MpChild(i) == Answer(i) \/ Exit(i)
MpNext == MpParent \/ \E i \in Item : MpChild(i) \/ Kill(i)

MpSpec == MpInit /\ [][MpNext]_mpVars
-----------------------------------------------------------------------------
Returned == mpPc \in {"done", "fatal"}

MpTypeOK ==
  /\ mpPc \in {"idle", "loop", "scan", "alive", "collect", "done", "fatal"}
  /\ items \subseteq Item /\ launched \subseteq Item /\ visit \subseteq Item
  /\ at \in Item \cup {NoItem}
  /\ child \in [Item -> {"none", "running", "blocked", "sent", "exited",
                         "killed"}]
  /\ pipe \in [Item -> {"empty", "part", "whole"}]
  /\ answer \in [Item -> Answers \cup {"none"}]
  /\ got \in [Item -> Answers \cup {"none"}]
  /\ results \subseteq Item /\ errors \subseteq Item
  /\ kills \in 0..MaxKills

(* A call that returns without an error has run the target over every item,*)
(* and has every value a child sent: no answer is lost between a poll and   *)
(* the child's exit, whichever child the scan skipped.                      *)
(* [utils.py 315-336]                                                       *)
AnswersCollected ==
  mpPc = "done" =>
    \A i \in Item : \/ child[i] = "killed"
                    \/ /\ child[i] = "exited"
                       /\ answer[i] # "error"
                       /\ i \in results <=> answer[i] = "value"

(* No child outlives the call, and never more run than the number of        *)
(* threads: the jobs of a build stay within BB_NUMBER_THREADS.              *)
(* [utils.py 315-334]                                                       *)
ChildrenBounded ==
  /\ Cardinality({i \in Item : Alive(i)}) <= MaxProcess
  /\ Returned => \A i \in Item : ~Alive(i)

(* A pipe that no one will ever finish writing: its child was killed in     *)
(* send().                                                                  *)
CutShort == \E i \in Item : pipe[i] = "part" /\ child[i] = "killed"

(* A call returns, large answers included, unless a child was killed in the *)
(* middle of one.  [utils.py 325-329: "Have to manually call update() to    *)
(* avoid deadlocks."]                                                       *)
LaunchReturns == mpPc = "loop" ~> (Returned \/ CutShort)
=============================================================================
