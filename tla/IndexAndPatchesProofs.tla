------------------------- MODULE IndexAndPatchesProofs -------------------------
(***************************************************************************)
(* Proofs about the index of shared state (SstateIndex) and about devtool's*)
(* patches (DevtoolPatches).  They have nothing in common but the lists    *)
(* that entries are taken out of, whose lemmas come first.                 *)
(***************************************************************************)
EXTENDS SstateIndex, DevtoolPatches, TLAPS

NoTwice(seq) == \A j, k \in 1..Len(seq) : seq[j] = seq[k] => j = k

(* Taking entries out of a list leaves the others, each as often as before  *)
(* and in their order.                                                      *)
LEMMA LeftOfList ==
  ASSUME NEW S, NEW seq \in Seq(S), NEW out, NEW left \in LeftOf(seq, out)
  PROVE  /\ left \in Seq(S)
         /\ \A i \in 1..Len(left) : \E k \in 1..Len(seq) : left[i] = seq[k] /\ seq[k] \notin out
         /\ \A k \in 1..Len(seq) : seq[k] \notin out => \E i \in 1..Len(left) : left[i] = seq[k]
         /\ NoTwice(seq) => NoTwice(left)
         /\ NoTwice(seq) => \A i, j \in 1..Len(left), k, l \in 1..Len(seq) :
              left[i] = seq[k] /\ left[j] = seq[l] /\ i < j => k < l
<1>1. PICK f \in Places(seq, out) : left = [i \in DOMAIN f |-> seq[f[i]]]
  BY DEF LeftOf
<1>2. PICK n \in Nat : f \in [1..n -> 1..Len(seq)]
  <2>1. f \in UNION {[1..n -> 1..Len(seq)] : n \in 0..Len(seq)}
    BY <1>1 DEF Places
  <2>2. \E n \in 0..Len(seq) : f \in [1..n -> 1..Len(seq)]
    BY <2>1, Zenon
  <2>3. 0..Len(seq) \subseteq Nat
    OBVIOUS
  <2> QED BY <2>2, <2>3, Zenon
<1>3. /\ \A i, j \in 1..n : i < j => f[i] < f[j]
      /\ \A k \in 1..Len(seq) : seq[k] \notin out <=> \E i \in 1..n : f[i] = k
  BY <1>1, <1>2 DEF Places
<1>4. left = [i \in 1..n |-> seq[f[i]]]
  BY <1>1, <1>2
<1>5. left \in Seq(S) /\ Len(left) = n
  BY <1>2, <1>4
<1>6. ASSUME NEW i \in 1..n PROVE f[i] \in 1..Len(seq) /\ left[i] = seq[f[i]] /\ seq[f[i]] \notin out
  BY <1>2, <1>3, <1>4
<1>7. ASSUME NoTwice(seq) PROVE NoTwice(left)
  <2> SUFFICES ASSUME NEW i \in 1..n, NEW j \in 1..n, left[i] = left[j] PROVE i = j
    BY <1>5 DEF NoTwice
  <2>1. f[i] = f[j]
    BY <1>6, <1>7 DEF NoTwice
  <2>2. ~(i < j) /\ ~(j < i)
    BY <1>2, <1>3, <2>1
  <2> QED BY <2>2
<1>8. ASSUME NEW k \in 1..Len(seq), seq[k] \notin out PROVE \E i \in 1..n : left[i] = seq[k]
  BY <1>3, <1>6, <1>8
<1>9. ASSUME NoTwice(seq), NEW i \in 1..n, NEW j \in 1..n, i < j,
             NEW k \in 1..Len(seq), NEW l \in 1..Len(seq), left[i] = seq[k], left[j] = seq[l]
      PROVE  k < l
  <2>1. f[i] = k /\ f[j] = l
    BY <1>6, <1>9 DEF NoTwice
  <2> QED BY <1>3, <1>9, <2>1
<1> QED BY <1>5, <1>6, <1>7, <1>8, <1>9

(* Two lists, one behind the other. *)
LEMMA LenOfBoth ==
  ASSUME NEW S, NEW a \in Seq(S), NEW b \in Seq(S)
  PROVE  Len(a \o b) = Len(a) + Len(b)
OBVIOUS

(* A function on 1..n is a list. *)
LEMMA ListOf ==
  ASSUME NEW S, NEW n \in Nat, NEW f \in [1..n -> S]
  PROVE  f \in Seq(S)
OBVIOUS

(* One more entry at the end of a list. *)
LEMMA OneMore ==
  ASSUME NEW S, NEW seq \in Seq(S), NEW e \in S
  PROVE  /\ Append(seq, e) \in Seq(S) /\ Len(Append(seq, e)) = Len(seq) + 1
         /\ \A k \in 1..Len(seq) : Append(seq, e)[k] = seq[k]
         /\ Append(seq, e)[Len(seq) + 1] = e
OBVIOUS

-----------------------------------------------------------------------------
(***************************************************************************)
(* The index, for any recipes, versions, machines and numbers of builds.   *)
(***************************************************************************)
Handler == {"prune", "unstamp", "index"}
Building == {"machine", "forget", "stale", "tasks", "install", "stamp"}

IxTypes ==
  /\ ixPc \in {"idle"} \cup Handler \cup Building
  /\ machine \in Machine /\ machineIndex \in [Machine -> SUBSET Stamp]
  /\ parsed \in SUBSET Stamp /\ toBuild \in SUBSET Stamp /\ toRemove \in SUBSET Stamp
  /\ preserveStamps \in SUBSET Stamp /\ stamped \in SUBSET Stamp
  /\ current \in Stamp \cup {NoStamp}
  /\ ixPc \in {"unstamp", "install", "stamp"} => current \in Stamp
  /\ index \in Seq(Stamp) /\ lines \in Seq(Stamp)
  /\ installed \in [Manifests -> Stamp \cup {NoStamp}]
  /\ \A f \in Manifests : installed[f] # NoStamp => ManifestOf[installed[f]] = f
  /\ deaths \in Nat /\ lost \in BOOLEAN

(* If the index has a line for a manifest with output, the last one says    *)
(* whose output it is.                                                      *)
LastLine ==
  \A f \in Manifests :
    \/ installed[f] = NoStamp
    \/ \A k \in 1..Len(index) : ManifestOf[index[k]] # f
    \/ \E k \in 1..Len(index) :
         /\ index[k] = installed[f]
         /\ \A j \in 1..Len(index) : k < j => ManifestOf[index[j]] # f

(* What the handler works with agrees with the index it has read. *)
ReadInv ==
  ixPc \in Handler =>
    /\ Entries(lines) \subseteq Entries(index)
    /\ ignored = Superseded(index)
    /\ toRemove \subseteq Entries(index) \ Superseded(index)
    /\ toRemove \cap (parsed \cup preserveStamps) = {}

(* Once the index is written anew, a manifest that no task of this build    *)
(* has installed has one line.                                              *)
OneLine ==
  /\ \A r, s \in toBuild : ManifestOf[r] = ManifestOf[s] => r = s
  /\ ixPc \in {"install", "stamp"} => current \in toBuild
  /\ ixPc \in Building =>
       \A s \in toBuild : \A l, m \in Entries(index) :
         ManifestOf[l] = ManifestOf[s] /\ ManifestOf[m] = ManifestOf[s]
           => l = m \/ (ixPc = "stamp" /\ s = current)

LineInv == NoTwice(index) /\ NoTwice(lines) /\ LastLine /\ ReadInv /\ OneLine

(* As long as no index was cut off, output has its line, and what is to be  *)
(* pruned is among what the handler still has to remove.                    *)
GoneInv ==
  /\ ixPc \in {"index", "machine"} => toRemove = {}
  /\ ixPc = "unstamp" => installed[ManifestOf[current]] = NoStamp
  /\ ~lost =>
       /\ \A f \in Manifests : installed[f] # NoStamp =>
            /\ installed[f] \in Entries(index)
            /\ ixPc \in Handler => installed[f] \in Entries(lines)
       /\ ixPc \in Handler \cup {"machine"} =>
            \A f \in Manifests :
              installed[f] \in machineIndex[machine] \ (parsed \cup preserveStamps)
                => installed[f] \in toRemove

(* Stamps in the course of a build. *)
OutputInv ==
  /\ ixPc = "install" => installed[ManifestOf[current]] = NoStamp
  /\ ixPc = "stamp" => installed[ManifestOf[current]] = current
  /\ deaths = 0 =>
       \A s \in stamped : Cleaned(s) => \/ installed[ManifestOf[s]] = s
                                        \/ ixPc = "unstamp" /\ s \in Begins[current]

IxInv == IxTypes /\ LineInv /\ GoneInv
USE IndexAssumption

(* The entries of a list that others are taken out of. *)
LEMMA LeftEntries ==
  ASSUME NEW seq \in Seq(Stamp), NEW out, NEW left \in LeftOf(seq, out)
  PROVE  left \in Seq(Stamp) /\ Entries(left) = Entries(seq) \ out /\ (NoTwice(seq) => NoTwice(left))
<1>1. /\ left \in Seq(Stamp)
      /\ \A i \in 1..Len(left) : \E k \in 1..Len(seq) : left[i] = seq[k] /\ seq[k] \notin out
      /\ \A k \in 1..Len(seq) : seq[k] \notin out => \E i \in 1..Len(left) : left[i] = seq[k]
      /\ NoTwice(seq) => NoTwice(left)
  BY LeftOfList
<1>2. ASSUME NEW e \in Entries(left) PROVE e \in Entries(seq) \ out
  BY <1>1, <1>2 DEF Entries
<1>3. ASSUME NEW e \in Entries(seq) \ out PROVE e \in Entries(left)
  <2>1. PICK k \in 1..Len(seq) : e = seq[k] /\ seq[k] \notin out
    BY <1>3 DEF Entries
  <2>2. PICK i \in 1..Len(left) : left[i] = seq[k]
    BY <1>1, <2>1
  <2> QED BY <2>1, <2>2 DEF Entries
<1> QED BY <1>1, <1>2, <1>3

(* Nothing is built or installed in the initial state. *)
LEMMA InitIx == IxInit => IxInv /\ OutputInv
<1> SUFFICES ASSUME IxInit PROVE IxInv /\ OutputInv
  OBVIOUS
<1>1. IxTypes
  <2>1. installed = [f \in Manifests |-> NoStamp] /\ machineIndex = [m \in Machine |-> {}]
        /\ index = <<>> /\ lines = <<>>
    BY DEF IxInit
  <2>2. installed \in [Manifests -> Stamp \cup {NoStamp}] /\ machineIndex \in [Machine -> SUBSET Stamp]
        /\ index \in Seq(Stamp) /\ lines \in Seq(Stamp)
    BY <2>1
  <2>3. \A f \in Manifests : installed[f] = NoStamp
    BY <2>1
  <2> QED BY <2>2, <2>3 DEF IxInit, IxTypes, Handler, Building
<1>2. LineInv
  BY DEF IxInit, LineInv, NoTwice, LastLine, ReadInv, OneLine, Handler, Building
<1>3. GoneInv /\ OutputInv
  BY DEF IxInit, GoneInv, OutputInv, Handler
<1> QED BY <1>1, <1>2, <1>3 DEF IxInv

(* Every step keeps the types. *)
LEMMA NextIxTypes == IxTypes /\ [IxNext]_ixVars => IxTypes'
<1> SUFFICES ASSUME IxTypes, [IxNext]_ixVars PROVE IxTypes'
  OBVIOUS
<1> USE DEF IxTypes, Handler, Building, build, reading, files, area, limits
<1>1. CASE PreserveStamp
  BY <1>1 DEF PreserveStamp
<1>2. CASE ReachableStamps
  <2>1. Entries(index) \subseteq Stamp
    BY DEF Entries
  <2> QED BY <1>2, <2>1 DEF ReachableStamps, ToRemove
<1>3. CASE PruneStamps
  BY <1>3, LeftEntries DEF PruneStamps
<1>4. CASE PruneDone
  BY <1>4 DEF PruneDone
<1>5. CASE WriteIndex
  BY <1>5, LeftEntries DEF WriteIndex
<1>6. CASE WriteMachineIndex
  BY <1>6 DEF WriteMachineIndex
<1>7. CASE ForgetPreserved
  BY <1>7 DEF ForgetPreserved
<1>8. CASE UninstallStale
  BY <1>8 DEF UninstallStale
<1>9. CASE Install
  BY <1>9, OneMore DEF Install, Manifests
<1>10. CASE MakeStamp
  BY <1>10 DEF MakeStamp
<1>11. CASE EndBuild
  BY <1>11 DEF EndBuild, EndOfBuild
<1>12. CASE Interrupt
  <2>1. index' \in Seq(Stamp) /\ machineIndex' \in [Machine -> SUBSET Stamp] /\ lost' \in BOOLEAN
    <3>1. CASE UNCHANGED <<index, machineIndex, lost>>
      BY <3>1
    <3>2. CASE index' = <<>> /\ lost' = TRUE /\ UNCHANGED machineIndex
      <4>1. <<>> \in Seq(Stamp)
        OBVIOUS
      <4> QED BY <3>2, <4>1
    <3>3. CASE /\ machineIndex' = [machineIndex EXCEPT ![machine] = {}] /\ lost' = TRUE
               /\ UNCHANGED index
      BY <3>3
    <3> QED BY <1>12, <3>1, <3>2, <3>3 DEF Interrupt
  <2>2. ixPc' = "idle" /\ toBuild' = {} /\ current' = NoStamp /\ toRemove' = {} /\ lines' = <<>>
        /\ parsed' = {} /\ UNCHANGED <<machine, preserveStamps, area>> /\ deaths' = deaths + 1
    BY <1>12 DEF Interrupt, EndOfBuild
  <2> QED BY <2>1, <2>2
<1>13. ASSUME NEW s \in Stamp, PruneManifest(s) PROVE IxTypes'
  BY <1>13 DEF PruneManifest
<1>14. ASSUME NEW s \in Stamp, Skip(s) PROVE IxTypes'
  BY <1>14 DEF Skip
<1>15. ASSUME NEW s \in Stamp, Clean(s) PROVE IxTypes'
  BY <1>15 DEF Clean
<1>16. CASE UNCHANGED ixVars
  BY <1>16 DEF ixVars
<1> QED BY <1>1, <1>2, <1>3, <1>4, <1>5, <1>6, <1>7, <1>8, <1>9, <1>10, <1>11, <1>12, <1>13, <1>14,
           <1>15, <1>16 DEF IxNext

(* While the handler works, what it removes from a manifest is the output   *)
(* of the stamp it has found unreachable.                                   *)
LEMMA PrunedIsUnreached ==
  ASSUME IxTypes, LineInv, ixPc = "prune", NEW r \in toRemove
  PROVE  /\ r \in Stamp /\ ManifestOf[r] \in Manifests /\ r \notin parsed \cup preserveStamps
         /\ installed[ManifestOf[r]] \in {NoStamp, r}
<1>1. r \in Stamp /\ ManifestOf[r] \in Manifests
  BY DEF IxTypes, Manifests
<1>2. r \in Entries(index) /\ r \notin Superseded(index) /\ r \notin parsed \cup preserveStamps
  BY DEF LineInv, ReadInv, Handler
<1>3. PICK k \in 1..Len(index) : index[k] = r
  BY <1>2 DEF Entries
<1>4. ASSUME installed[ManifestOf[r]] # NoStamp PROVE installed[ManifestOf[r]] = r
  <2>1. PICK m \in 1..Len(index) :
          /\ index[m] = installed[ManifestOf[r]]
          /\ \A j \in 1..Len(index) : m < j => ManifestOf[index[j]] # ManifestOf[r]
    BY <1>1, <1>3, <1>4 DEF LineInv, LastLine
  <2>2. ManifestOf[index[m]] = ManifestOf[index[k]]
    BY <1>1, <1>3, <1>4, <2>1 DEF IxTypes
  <2>3. ~(m < k)
    BY <1>3, <2>1
  <2>4. ASSUME k < m PROVE FALSE
    <3>1. Len(index) \in Nat /\ m \in (k + 1)..Len(index)
      BY <2>4 DEF IxTypes
    <3>2. r \in Superseded(index)
      BY <1>3, <2>2, <3>1 DEF Superseded
    <3> QED BY <1>2, <3>2
  <2>5. k = m
    BY <2>3, <2>4
  <2> QED BY <1>3, <2>1, <2>5
<1> QED BY <1>1, <1>2, <1>4

(* The line of what is installed is not superseded. *)
LEMMA InstalledIsLast ==
  ASSUME IxTypes, LineInv, NEW f \in Manifests, installed[f] \in Entries(index)
  PROVE  installed[f] \notin Superseded(index)
<1>1. installed[f] # NoStamp /\ ManifestOf[installed[f]] = f /\ Len(index) \in Nat
  BY DEF IxTypes, Entries
<1>2. \E k \in 1..Len(index) : ManifestOf[index[k]] = f
  BY <1>1 DEF Entries
<1>3. PICK k \in 1..Len(index) :
        index[k] = installed[f] /\ \A j \in 1..Len(index) : k < j => ManifestOf[index[j]] # f
  BY <1>1, <1>2 DEF LineInv, LastLine
<1> SUFFICES ASSUME installed[f] \in Superseded(index) PROVE FALSE
  OBVIOUS
<1>4. PICK i \in 1..Len(index) :
        index[i] = installed[f] /\ \E j \in (i + 1)..Len(index) : ManifestOf[index[j]] = ManifestOf[index[i]]
  BY DEF Superseded
<1>5. i = k
  BY <1>3, <1>4 DEF LineInv, NoTwice
<1>6. PICK j \in (k + 1)..Len(index) : ManifestOf[index[j]] = f
  BY <1>1, <1>4, <1>5
<1> QED BY <1>1, <1>3, <1>6

(* Of the entries that are not superseded a manifest has one. *)
LEMMA OneNotSuperseded ==
  ASSUME NEW seq \in Seq(Stamp), NEW l \in Entries(seq) \ Superseded(seq),
         NEW m \in Entries(seq) \ Superseded(seq), ManifestOf[l] = ManifestOf[m]
  PROVE  l = m
<1>1. PICK i \in 1..Len(seq) : seq[i] = l
  BY DEF Entries
<1>2. PICK j \in 1..Len(seq) : seq[j] = m
  BY DEF Entries
<1>3. ~(i < j)
  <2> SUFFICES ASSUME i < j PROVE l \in Superseded(seq)
    OBVIOUS
  <2>1. j \in (i + 1)..Len(seq)
    OBVIOUS
  <2> QED BY <1>1, <1>2, <2>1 DEF Superseded
<1>4. ~(j < i)
  <2> SUFFICES ASSUME j < i PROVE m \in Superseded(seq)
    OBVIOUS
  <2>1. i \in (j + 1)..Len(seq)
    OBVIOUS
  <2> QED BY <1>1, <1>2, <2>1 DEF Superseded
<1> QED BY <1>1, <1>2, <1>3, <1>4

(* Every step preserves LineInv. *)
LEMMA NextLineInv == IxTypes /\ LineInv /\ [IxNext]_ixVars => LineInv'
<1> SUFFICES ASSUME IxTypes, LineInv, [IxNext]_ixVars PROVE LineInv'
  OBVIOUS
<1> USE DEF IxTypes, LineInv, ReadInv, OneLine, Handler, Building, build, reading, files, area, limits
<1>0. UNCHANGED <<index, installed>> => LastLine' = LastLine
  BY DEF LastLine
<1>a. ASSUME index' = index, \A f \in Manifests : installed'[f] \in {installed[f], NoStamp} PROVE LastLine'
  BY <1>a DEF LastLine
<1>b. NoTwice(<<>>) /\ Entries(<<>>) = {}
  BY DEF NoTwice, Entries
<1>1. CASE PreserveStamp
  BY <1>0, <1>1 DEF PreserveStamp
<1>2. CASE ReachableStamps
  BY <1>0, <1>2 DEF ReachableStamps, ToRemove
<1>3. CASE PruneStamps
  <2>1. Entries(lines') = Entries(lines) \ {current} /\ NoTwice(lines')
    BY <1>3, LeftEntries DEF PruneStamps
  <2> QED BY <1>0, <1>3, <2>1 DEF PruneStamps
<1>4. CASE PruneDone
  BY <1>0, <1>4 DEF PruneDone
<1>5. CASE WriteIndex
  <2>1. ixPc = "index" /\ ixPc' = "machine" /\ UNCHANGED <<lines, installed, toBuild, current>>
        /\ index' \in LeftOf(lines, Superseded(index))
    BY <1>5 DEF WriteIndex
  <2>2. index' \in Seq(Stamp) /\ NoTwice(index') /\ Entries(index') = Entries(lines) \ Superseded(index)
    BY <2>1, LeftEntries
  <2>3. Entries(index') \subseteq Entries(index) \ Superseded(index)
    BY <2>1, <2>2
  <2>4. ASSUME NEW l \in Entries(index'), NEW m \in Entries(index'), ManifestOf[l] = ManifestOf[m]
        PROVE  l = m
    BY <2>3, <2>4, OneNotSuperseded
  <2>5. ASSUME NEW f \in Manifests, installed[f] # NoStamp, installed[f] \in Entries(index')
        PROVE  \E k \in 1..Len(index') :
                 /\ index'[k] = installed[f]
                 /\ \A i \in 1..Len(index') : k < i => ManifestOf[index'[i]] # f
    <3>1. PICK k \in 1..Len(index') : index'[k] = installed[f]
      BY <2>5 DEF Entries
    <3>2. ASSUME NEW i \in 1..Len(index'), k < i, ManifestOf[index'[i]] = f PROVE FALSE
      <4>1. index'[i] \in Entries(index') /\ ManifestOf[installed[f]] = f
        BY <2>5 DEF Entries
      <4>2. index'[i] = index'[k]
        BY <2>4, <2>5, <3>1, <3>2, <4>1
      <4>3. i = k
        BY <2>2, <4>2 DEF NoTwice
      <4> QED BY <3>2, <4>3
    <3> QED BY <3>1, <3>2
  <2>6. ASSUME NEW f \in Manifests, installed[f] # NoStamp, installed[f] \notin Entries(index'),
               NEW k \in 1..Len(index'), ManifestOf[index'[k]] = f
        PROVE  FALSE
    <3>1. index'[k] \in Entries(index') /\ index'[k] \in Entries(index) \ Superseded(index)
      BY <2>3 DEF Entries
    <3>2. installed[f] \in Entries(index)
      BY <2>6, <3>1 DEF LastLine, Entries
    <3>3. installed[f] \notin Superseded(index)
      BY <3>2, InstalledIsLast
    <3>4. ManifestOf[installed[f]] = f
      BY <2>6
    <3>5. installed[f] = index'[k]
      BY <2>6, <3>1, <3>2, <3>3, <3>4, OneNotSuperseded
    <3> QED BY <2>6, <3>1, <3>5
  <2>7. LastLine'
    BY <2>1, <2>5, <2>6 DEF LastLine
  <2> QED BY <2>1, <2>2, <2>4, <2>7
<1>6. CASE WriteMachineIndex
  BY <1>0, <1>6 DEF WriteMachineIndex
<1>7. CASE ForgetPreserved
  BY <1>0, <1>7, <1>b DEF ForgetPreserved
<1>8. CASE UninstallStale
  <2>1. LastLine'
    BY <1>8, <1>a DEF UninstallStale
  <2> QED BY <1>8, <2>1 DEF UninstallStale
<1>9. CASE Install
  <2>1. /\ ixPc = "install" /\ ixPc' = "stamp" /\ current \in Stamp /\ current \in toBuild
        /\ ManifestOf[current] \in Manifests /\ installed \in [Manifests -> Stamp \cup {NoStamp}]
        /\ installed' = [installed EXCEPT ![ManifestOf[current]] = current]
        /\ UNCHANGED <<lines, toBuild, current>>
    BY <1>9 DEF Install, Manifests
  <2>2. CASE current \in Entries(index)
    <3>1. index' = index
      BY <1>9, <2>2 DEF Install
    <3>2. PICK k \in 1..Len(index) : index[k] = current
      BY <2>2 DEF Entries
    <3>3. ASSUME NEW i \in 1..Len(index), k < i, ManifestOf[index[i]] = ManifestOf[current] PROVE FALSE
      <4>1. index[i] = current
        BY <2>1, <2>2, <3>3 DEF Entries
      <4>2. i = k
        BY <3>2, <4>1, SMTT(20) DEF NoTwice
      <4> QED BY <3>3, <4>2
    <3>4. LastLine'
      <4>1. installed'[ManifestOf[current]] = current
        BY <2>1
      <4>2. \A f \in Manifests : f # ManifestOf[current] => installed'[f] = installed[f]
        BY <2>1
      <4>3. \A i \in 1..Len(index) : k < i => ManifestOf[index[i]] # ManifestOf[current]
        BY <3>3
      <4>4. ASSUME NEW f \in Manifests, f # ManifestOf[current]
            PROVE  \/ installed'[f] = NoStamp
                   \/ \A i \in 1..Len(index) : ManifestOf[index[i]] # f
                   \/ \E i \in 1..Len(index) :
                        /\ index[i] = installed'[f]
                        /\ \A j \in 1..Len(index) : i < j => ManifestOf[index[j]] # f
        BY <4>2, <4>4, SMTT(20) DEF LastLine
      <4>5. \E i \in 1..Len(index) :
              /\ index[i] = installed'[ManifestOf[current]]
              /\ \A j \in 1..Len(index) : i < j => ManifestOf[index[j]] # ManifestOf[current]
        BY <3>2, <4>1, <4>3
      <4> QED BY <3>1, <4>4, <4>5, SMTT(20) DEF LastLine
    <3> QED BY <2>1, <3>1, <3>4
  <2>3. CASE current \notin Entries(index)
    <3>1. index' = Append(index, current)
      BY <1>9, <2>3 DEF Install
    <3>2. /\ Len(index') = Len(index) + 1 /\ Len(index) \in Nat
          /\ \A k \in 1..Len(index) : index'[k] = index[k]
          /\ index'[Len(index) + 1] = current
      BY <2>1, <3>1, OneMore
    <3>3. \A k \in 1..Len(index') : k \in 1..Len(index) \/ k = Len(index) + 1
      BY <3>2
    <3>4. NoTwice(index')
      BY <2>3, <3>2, <3>3 DEF NoTwice, Entries
    <3>5. Entries(index') \subseteq Entries(index) \cup {current}
      BY <3>2, <3>3 DEF Entries
    <3>6. LastLine'
      <4> SUFFICES ASSUME NEW f \in Manifests, installed'[f] # NoStamp
                   PROVE  \/ \A k \in 1..Len(index') : ManifestOf[index'[k]] # f
                          \/ \E k \in 1..Len(index') :
                               /\ index'[k] = installed'[f]
                               /\ \A i \in 1..Len(index') : k < i => ManifestOf[index'[i]] # f
        BY DEF LastLine
      <4>1. CASE f = ManifestOf[current]
        <5>1. installed'[f] = current /\ Len(index) + 1 \in 1..Len(index')
              /\ \A i \in 1..Len(index') : ~(Len(index) + 1 < i)
          BY <2>1, <3>2, <4>1
        <5> QED BY <3>2, <5>1
      <4>2. CASE f # ManifestOf[current]
        <5>1. installed'[f] = installed[f]
          BY <2>1, <4>2
        <5>2. CASE \A k \in 1..Len(index) : ManifestOf[index[k]] # f
          BY <3>2, <3>3, <4>2, <5>2
        <5>3. CASE \E k \in 1..Len(index) :
                     /\ index[k] = installed[f]
                     /\ \A i \in 1..Len(index) : k < i => ManifestOf[index[i]] # f
          <6>1. PICK k \in 1..Len(index) :
                     /\ index[k] = installed[f]
                     /\ \A i \in 1..Len(index) : k < i => ManifestOf[index[i]] # f
            BY <5>3
          <6>2. k \in 1..Len(index') /\ index'[k] = installed'[f]
            BY <3>2, <5>1, <6>1
          <6>3. \A i \in 1..Len(index') : k < i => ManifestOf[index'[i]] # f
            BY <3>2, <3>3, <4>2, <6>1
          <6> QED BY <6>2, <6>3
        <5> QED BY <5>1, <5>2, <5>3 DEF LastLine
      <4> QED BY <4>1, <4>2
    <3> QED BY <2>1, <3>4, <3>5, <3>6
  <2> QED BY <2>2, <2>3
<1>10. CASE MakeStamp
  BY <1>0, <1>10 DEF MakeStamp
<1>11. CASE EndBuild
  BY <1>0, <1>11, <1>b DEF EndBuild, EndOfBuild
<1>12. CASE Interrupt
  <2>1. CASE index' = index
    BY <1>0, <1>12, <1>b, <2>1 DEF Interrupt, EndOfBuild
  <2>2. CASE index' = <<>>
    <3>1. LastLine'
      BY <2>2 DEF LastLine
    <3> QED BY <1>12, <1>b, <2>2, <3>1 DEF Interrupt, EndOfBuild
  <2> QED BY <1>12, <2>1, <2>2 DEF Interrupt
<1>13. ASSUME NEW s \in Stamp, PruneManifest(s) PROVE LineInv'
  <2>1. LastLine'
    BY <1>13, <1>a DEF PruneManifest
  <2> QED BY <1>13, <2>1 DEF PruneManifest
<1>14. ASSUME NEW s \in Stamp, Skip(s) PROVE LineInv'
  BY <1>0, <1>14 DEF Skip
<1>15. ASSUME NEW s \in Stamp, Clean(s) PROVE LineInv'
  <2>1. LastLine'
    BY <1>15, <1>a DEF Clean
  <2> QED BY <1>15, <2>1 DEF Clean
<1>16. CASE UNCHANGED ixVars
  BY <1>0, <1>16 DEF ixVars
<1> QED BY <1>1, <1>2, <1>3, <1>4, <1>5, <1>6, <1>7, <1>8, <1>9, <1>10, <1>11, <1>12, <1>13, <1>14, <1>15, <1>16 DEF IxNext

(* Every step preserves GoneInv. *)
LEMMA NextGoneInv == IxTypes /\ LineInv /\ GoneInv /\ [IxNext]_ixVars => GoneInv'
<1> SUFFICES ASSUME IxTypes, LineInv, GoneInv, [IxNext]_ixVars PROVE GoneInv'
  OBVIOUS
<1> USE DEF IxTypes, GoneInv, Handler, build, reading, files, area, limits
<1>1. CASE PreserveStamp
  BY <1>1 DEF PreserveStamp
<1>2. CASE ReachableStamps
  <2>1. \A f \in Manifests : installed[f] \in Entries(index) => installed[f] \notin Superseded(index)
    BY InstalledIsLast
  <2> QED BY <1>2, <2>1 DEF ReachableStamps, ToRemove
<1>3. CASE PruneStamps
  <2>1. Entries(lines') = Entries(lines) \ {current}
    BY <1>3, LeftEntries DEF PruneStamps
  <2>2. \A f \in Manifests : installed[f] # NoStamp => installed[f] # current
    BY <1>3 DEF PruneStamps
  <2> QED BY <1>3, <2>1, <2>2 DEF PruneStamps
<1>4. CASE PruneDone
  BY <1>4 DEF PruneDone
<1>5. CASE WriteIndex
  <2>1. Entries(index') = Entries(lines) \ ignored
    BY <1>5, LeftEntries DEF WriteIndex
  <2>2. ignored = Superseded(index) /\ Entries(lines) \subseteq Entries(index)
    BY <1>5 DEF WriteIndex, LineInv, ReadInv
  <2>3. \A f \in Manifests : installed[f] \in Entries(index) => installed[f] \notin Superseded(index)
    BY InstalledIsLast
  <2> QED BY <1>5, <2>1, <2>2, <2>3 DEF WriteIndex
<1>6. CASE WriteMachineIndex
  BY <1>6 DEF WriteMachineIndex
<1>7. CASE ForgetPreserved
  BY <1>7 DEF ForgetPreserved
<1>8. CASE UninstallStale
  BY <1>8 DEF UninstallStale
<1>9. CASE Install
  <2>1. Entries(index') = Entries(index) \cup {current}
    <3>1. CASE current \in Entries(index)
      BY <1>9, <3>1 DEF Install
    <3>2. CASE current \notin Entries(index)
      <4>1. /\ index' = Append(index, current) /\ current \in Stamp
        BY <1>9, <3>2 DEF Install
      <4>2. /\ Len(index') = Len(index) + 1 /\ Len(index) \in Nat
            /\ \A k \in 1..Len(index) : index'[k] = index[k]
            /\ index'[Len(index) + 1] = current
        BY <4>1, OneMore
      <4>3. \A x : x \in Entries(index) => x \in Entries(index')
        BY <4>2 DEF Entries
      <4>4. current \in Entries(index')
        BY <4>2 DEF Entries
      <4>5. ASSUME NEW k \in 1..Len(index') PROVE index'[k] \in Entries(index) \cup {current}
        <5>1. k \in 1..Len(index) \/ k = Len(index) + 1
          BY <4>2
        <5> QED BY <4>2, <5>1 DEF Entries
      <4>6. Entries(index') \subseteq Entries(index) \cup {current}
        BY <4>5 DEF Entries
      <4> QED BY <4>3, <4>4, <4>6
    <3> QED BY <3>1, <3>2
  <2>2. \A f \in Manifests : installed'[f] = installed[f] \/ installed'[f] = current
    BY <1>9 DEF Install
  <2> QED BY <1>9, <2>1, <2>2 DEF Install
<1>10. CASE MakeStamp
  BY <1>10 DEF MakeStamp
<1>11. CASE EndBuild
  BY <1>11 DEF EndBuild, EndOfBuild
<1>12. CASE Interrupt
  BY <1>12 DEF Interrupt, EndOfBuild
<1>13. ASSUME NEW s \in Stamp, PruneManifest(s) PROVE GoneInv'
  <2>1. ManifestOf[s] \in Manifests
    BY DEF Manifests
  <2>2. /\ ixPc = "prune" /\ ixPc' = "unstamp" /\ current' = s
        /\ installed' = [installed EXCEPT ![ManifestOf[s]] = NoStamp]
        /\ UNCHANGED <<build, reading, files, stamped, limits>>
    BY <1>13 DEF PruneManifest
  <2>3. installed'[ManifestOf[s]] = NoStamp
        /\ \A f \in Manifests : installed'[f] = installed[f] \/ installed'[f] = NoStamp
    BY <2>1, <2>2
  <2>4. NoStamp \notin machineIndex[machine]
    OBVIOUS
  <2> QED BY <2>2, <2>3, <2>4
<1>14. ASSUME NEW s \in Stamp, Skip(s) PROVE GoneInv'
  BY <1>14 DEF Skip
<1>15. ASSUME NEW s \in Stamp, Clean(s) PROVE GoneInv'
  BY <1>15 DEF Clean
<1>16. CASE UNCHANGED ixVars
  BY <1>16 DEF ixVars
<1> QED BY <1>1, <1>2, <1>3, <1>4, <1>5, <1>6, <1>7, <1>8, <1>9, <1>10, <1>11, <1>12, <1>13, <1>14, <1>15, <1>16 DEF IxNext

(* IxInv holds in every reachable state. *)
THEOREM IndexInvariance == IxSpec => []IxInv
<1>1. IxInv /\ [IxNext]_ixVars => IxInv'
  BY NextIxTypes, NextLineInv, NextGoneInv DEF IxInv
<1> QED BY <1>1, InitIx, PTL DEF IxSpec

(* Pruning never removes the output of a version this machine still parses. *)
THEOREM PruningKeepsReached == IxSpec => ReachedKept
<1>1. IxInv /\ [IxNext]_ixVars =>
        \A f \in Manifests : ixPc = "prune" /\ installed'[f] # installed[f] =>
          installed[f] \notin parsed \cup preserveStamps
  <2> SUFFICES ASSUME IxTypes, LineInv, [IxNext]_ixVars, NEW f \in Manifests,
                      ixPc = "prune", installed'[f] # installed[f]
               PROVE  installed[f] \notin parsed \cup preserveStamps
    BY DEF IxInv
  <2>1. PICK r \in Stamp : PruneManifest(r)
    BY DEF IxNext, ixVars, area, PreserveStamp, ReachableStamps, PruneStamps, PruneDone, WriteIndex,
           WriteMachineIndex, ForgetPreserved, UninstallStale, Install, MakeStamp, EndBuild,
           Interrupt, EndOfBuild, Skip, Clean
  <2>2. r \in toRemove /\ installed' = [installed EXCEPT ![ManifestOf[r]] = NoStamp]
    BY <2>1 DEF PruneManifest
  <2>3. f = ManifestOf[r]
    BY <2>2 DEF IxTypes
  <2>4. installed[f] # NoStamp
    BY <2>2, <2>3 DEF IxTypes
  <2> QED BY <2>2, <2>3, <2>4, PrunedIsUnreached
<1> QED BY <1>1, IndexInvariance, PTL DEF IxSpec, ReachedKept

(* Once the handler is through, the output of what this machine no longer   *)
(* reaches is gone, as long as no index was cut off.                        *)
THEOREM PruningRemovesUnreached == IxSpec => []UnreachedGone
<1>1. IxInv => UnreachedGone
  BY DEF IxInv, GoneInv, UnreachedGone
<1> QED BY <1>1, IndexInvariance, PTL

(* A stamp that outlives the cleaning for another version of its recipe is  *)
(* not one of those that StampHasOutput is about.                          *)
LEMMA CleanedOrSame ==
  ASSUME NEW r \in Stamp, NEW s \in Stamp, ManifestOf[r] = ManifestOf[s], Cleaned(r), r # s
  PROVE  r \in Cleanable \cap SameRecipe(s)
BY DEF Cleaned, SameRecipe

(* Every step preserves OutputInv. *)
LEMMA NextOutputInv == IxInv /\ OutputInv /\ [IxNext]_ixVars => OutputInv'
<1> SUFFICES ASSUME IxInv, OutputInv, [IxNext]_ixVars PROVE OutputInv'
  OBVIOUS
<1> USE DEF IxInv, IxTypes, OutputInv, build, reading, files, area, limits
<1>1. CASE PreserveStamp
  BY <1>1 DEF PreserveStamp
<1>2. CASE ReachableStamps
  BY <1>2 DEF ReachableStamps, ToRemove
<1>3. CASE PruneStamps
  BY <1>3 DEF PruneStamps
<1>4. CASE PruneDone
  BY <1>4 DEF PruneDone
<1>5. CASE WriteIndex
  BY <1>5 DEF WriteIndex
<1>6. CASE WriteMachineIndex
  BY <1>6 DEF WriteMachineIndex
<1>7. CASE ForgetPreserved
  BY <1>7 DEF ForgetPreserved
<1>8. CASE UninstallStale
  <2> SUFFICES ASSUME deaths = 0, NEW r \in stamped', Cleaned(r)
               PROVE  installed'[ManifestOf[r]] = r
    BY <1>8 DEF UninstallStale
  <2>1. r \in stamped /\ r \in Stamp /\ installed[ManifestOf[r]] = r /\ ManifestOf[r] \in Manifests
    BY <1>8 DEF UninstallStale, Manifests
  <2>2. ASSUME NEW s \in StaleHits, ManifestOf[s] = ManifestOf[r] PROVE FALSE
    <3>1. s \in Stamp /\ r \notin StaleStamps(s)
      BY <1>8, <2>2 DEF UninstallStale, StaleHits
    <3>2. r = s
      BY <2>1, <2>2, <3>1, CleanedOrSame DEF StaleStamps
    <3>3. StaleStamps(s) # {}
      BY <2>2 DEF StaleHits
    <3>4. PICK t \in stamped : t # s /\ ManifestOf[t] = ManifestOf[s] /\ Cleaned(t)
      BY <3>3 DEF StaleStamps, SameRecipe, Cleaned
    <3>5. installed[ManifestOf[t]] = t
      BY <1>8, <3>4 DEF UninstallStale
    <3> QED BY <2>1, <3>2, <3>4, <3>5
  <2> QED BY <1>8, <2>1, <2>2 DEF UninstallStale
<1>9. CASE Install
  <2>1. /\ ixPc = "install" /\ ixPc' = "stamp" /\ current \in Stamp /\ current' = current
        /\ ManifestOf[current] \in Manifests
        /\ installed' = [installed EXCEPT ![ManifestOf[current]] = current]
        /\ UNCHANGED <<stamped, deaths>>
    BY <1>9 DEF Install, Manifests
  <2>2. installed'[ManifestOf[current]] = current
    BY <2>1
  <2>3. ASSUME deaths = 0, NEW s \in stamped, Cleaned(s) PROVE installed'[ManifestOf[s]] = s
    <3>1. installed[ManifestOf[s]] = s /\ s # NoStamp
      BY <2>1, <2>3
    <3>2. ManifestOf[s] # ManifestOf[current]
      BY <2>1, <3>1
    <3> QED BY <2>1, <3>1, <3>2
  <2> QED BY <2>1, <2>2, <2>3
<1>10. CASE MakeStamp
  BY <1>10 DEF MakeStamp
<1>11. CASE EndBuild
  BY <1>11 DEF EndBuild, EndOfBuild
<1>12. CASE Interrupt
  BY <1>12 DEF Interrupt, EndOfBuild
<1>13. ASSUME NEW s \in Stamp, PruneManifest(s) PROVE OutputInv'
  <2>1. /\ ixPc = "prune" /\ ixPc' = "unstamp" /\ s \in toRemove /\ current' = s
        /\ installed' = [installed EXCEPT ![ManifestOf[s]] = NoStamp]
        /\ UNCHANGED <<stamped, deaths>>
    BY <1>13 DEF PruneManifest
  <2>2. installed[ManifestOf[s]] \in {NoStamp, s}
    BY <2>1, PrunedIsUnreached
  <2>3. ASSUME deaths = 0, NEW r \in stamped, Cleaned(r)
        PROVE  installed'[ManifestOf[r]] = r \/ r \in Begins[s]
    <3>1. installed[ManifestOf[r]] = r /\ r # NoStamp
      BY <2>1, <2>3
    <3>2. CASE ManifestOf[r] = ManifestOf[s]
      <4>1. r = s /\ s \in Begins[s]
        BY <2>2, <3>1, <3>2
      <4> QED BY <4>1
    <3>3. CASE ManifestOf[r] # ManifestOf[s]
      BY <2>1, <3>1, <3>3 DEF Manifests
    <3> QED BY <3>2, <3>3
  <2> QED BY <2>1, <2>3
<1>14. ASSUME NEW s \in Stamp, Skip(s) PROVE OutputInv'
  BY <1>14 DEF Skip
<1>15. ASSUME NEW s \in Stamp, Clean(s) PROVE OutputInv'
  <2>1. /\ ixPc = "tasks" /\ ixPc' = "install" /\ s \notin stamped /\ current' = s
        /\ installed' = [installed EXCEPT ![ManifestOf[s]] = NoStamp]
        /\ stamped' = stamped \ (Cleanable \cap SameRecipe(s)) /\ deaths' = deaths
        /\ ManifestOf[s] \in Manifests
    BY <1>15 DEF Clean, Manifests
  <2>2. ASSUME deaths = 0, NEW r \in stamped', Cleaned(r) PROVE installed'[ManifestOf[r]] = r
    <3>1. r \in stamped /\ r # s /\ installed[ManifestOf[r]] = r
      BY <2>1, <2>2
    <3>2. ManifestOf[r] # ManifestOf[s]
      BY <2>1, <2>2, <3>1, CleanedOrSame
    <3> QED BY <2>1, <3>1, <3>2 DEF Manifests
  <2> QED BY <2>1, <2>2
<1>16. CASE UNCHANGED ixVars
  BY <1>16 DEF ixVars
<1> QED BY <1>1, <1>2, <1>3, <1>4, <1>5, <1>6, <1>7, <1>8, <1>9, <1>10, <1>11, <1>12, <1>13, <1>14, <1>15, <1>16 DEF IxNext

(* A stamp that STAMPCLEAN matches, or whose recipe has no other version,   *)
(* stands for output that is there, next to any other stamps.               *)
THEOREM StampsHaveOutput == IxSpec => []StampHasOutput
<1>1. IxInv /\ OutputInv /\ [IxNext]_ixVars => OutputInv'
  BY NextOutputInv
<1>2. OutputInv => StampHasOutput
  BY DEF OutputInv, StampHasOutput
<1>3. IxInit => OutputInv
  BY InitIx
<1> QED BY <1>1, <1>2, <1>3, IndexInvariance, PTL DEF IxSpec
-----------------------------------------------------------------------------
(***************************************************************************)
(* The patches, for any recipe, user and number of updates.                *)
(***************************************************************************)
Commits == [file : Patch, version : Nat \ {0}, note : BOOLEAN]

Updating == {"write", "recipe", "remove"}

DtTypes ==
  /\ dtPc \in {"out", "tree"} \cup Updating
  /\ srcUri \in Seq(Patch) /\ patchFile \in [Patch -> Nat]
  /\ history \in Seq(Commits) /\ noted \in Seq(Commits)
  /\ untouched \in Nat /\ untouched <= Len(history) /\ untouched <= Len(noted)
  /\ version \in Nat /\ synced \in BOOLEAN /\ restored \in BOOLEAN /\ ordered \in BOOLEAN
  /\ toWrite \in SUBSET Patch /\ toAdd \in SUBSET Patch /\ toDrop \in SUBSET Patch

(* The commits of a list are exported to different files. *)
OneEach(commits) ==
  \A j, k \in 1..Len(commits) : commits[j].file = commits[k].file => j = k

(* Which commits are still those the bbappend lists. *)
TreeInv ==
  /\ OneEach(history) /\ OneEach(noted)
  /\ \A k \in 1..untouched : history[k] = noted[k]
  /\ dtPc = "out" => ~synced /\ history = <<>> /\ noted = <<>>

(* An update in progress. *)
UpdateInv ==
  /\ dtPc \in {"write", "recipe"} =>
       /\ toWrite \subseteq {c.file : c \in Exported}
       /\ toAdd = {c.file : c \in Exported} \ Named(srcUri)
       /\ toDrop = Named(srcUri) \ Files(history)
       /\ \A c \in Exported : c.file \in toWrite \/ patchFile[c.file] = c.version
  /\ dtPc \in {"recipe", "remove"} => toWrite = {}
  /\ dtPc = "remove" =>
       /\ toDrop \cap Files(history) = {} /\ Named(srcUri) \subseteq Files(history)
       /\ \A c \in Exported : c.file \in Named(srcUri) /\ patchFile[c.file] = c.version

(* Commit k is in the recipe. *)
InRecipe(k) ==
  history[k].file \in Named(srcUri) /\ patchFile[history[k].file] = history[k].version

(* The recipe has the commits that no update exports, and all of them when  *)
(* it is in step with the tree.                                             *)
AgreeInv ==
  ~restored =>
    /\ \A k \in 1..untouched : InRecipe(k)
    /\ synced => Named(srcUri) \subseteq Files(history) /\ \A k \in 1..Len(history) : InRecipe(k)

(* The commits in SRC_URI are in its order, and at most the last is not.    *)
InOrder(commits) ==
  /\ \A i, j \in 1..Len(srcUri), k, l \in 1..Len(commits) :
       srcUri[i] = commits[k].file /\ srcUri[j] = commits[l].file /\ i < j => k < l
  /\ \A k \in 1..Len(commits) : commits[k].file \in Named(srcUri) \/ k = Len(commits)

OrderInv == ordered /\ ~restored => InOrder(history)

DtInv == DtTypes /\ EntriesHaveFiles /\ TreeInv /\ UpdateInv /\ AgreeInv /\ OrderInv

-----------------------------------------------------------------------------
HIDE IndexAssumption
USE PatchesAssumption

(* The patches of a list that others are taken out of. *)
LEMMA LeftNamed ==
  ASSUME NEW seq \in Seq(Patch), NEW out, NEW left \in LeftOf(seq, out)
  PROVE  /\ left \in Seq(Patch) /\ Named(left) = Named(seq) \ out
         /\ NoTwice(seq) => NoTwice(left)
         /\ NoTwice(seq) => \A i, j \in 1..Len(left), k, l \in 1..Len(seq) :
              left[i] = seq[k] /\ left[j] = seq[l] /\ i < j => k < l
<1>1. /\ left \in Seq(Patch)
      /\ \A i \in 1..Len(left) : \E k \in 1..Len(seq) : left[i] = seq[k] /\ seq[k] \notin out
      /\ \A k \in 1..Len(seq) : seq[k] \notin out => \E i \in 1..Len(left) : left[i] = seq[k]
      /\ NoTwice(seq) => NoTwice(left)
      /\ NoTwice(seq) => \A i, j \in 1..Len(left), k, l \in 1..Len(seq) :
           left[i] = seq[k] /\ left[j] = seq[l] /\ i < j => k < l
  BY LeftOfList
<1>2. ASSUME NEW e \in Named(left) PROVE e \in Named(seq) \ out
  <2>1. PICK i \in 1..Len(left) : e = left[i]
    BY <1>2 DEF Named
  <2>2. PICK k \in 1..Len(seq) : left[i] = seq[k] /\ seq[k] \notin out
    BY <1>1
  <2> QED BY <2>1, <2>2 DEF Named
<1>3. ASSUME NEW e \in Named(seq) \ out PROVE e \in Named(left)
  <2>1. PICK k \in 1..Len(seq) : e = seq[k] /\ seq[k] \notin out
    BY <1>3 DEF Named
  <2>2. PICK i \in 1..Len(left) : left[i] = seq[k]
    BY <1>1, <2>1
  <2> QED BY <2>1, <2>2 DEF Named
<1> QED BY <1>1, <1>2, <1>3

(* The new patches come behind the others. *)
LEMMA AddedNamed ==
  ASSUME NEW seq \in Seq(Patch), NEW add \in SUBSET Patch, NEW new \in Orders(add)
  PROVE  /\ seq \o new \in Seq(Patch) /\ Named(seq \o new) = Named(seq) \cup add
         /\ NoTwice(seq) /\ Named(seq) \cap add = {} => NoTwice(seq \o new)
         /\ \A k \in 1..Len(seq \o new) : \/ k \in 1..Len(seq) /\ (seq \o new)[k] = seq[k]
                                          \/ k > Len(seq) /\ (seq \o new)[k] \in add
<1>1. PICK n \in 0..Len(history) : new \in [1..n -> add]
  <2>1. new \in UNION {[1..n -> add] : n \in 0..Len(history)}
    BY DEF Orders
  <2>2. \E n \in 0..Len(history) : new \in [1..n -> add]
    BY <2>1, Zenon
  <2> QED BY <2>2, Zenon
<1>2. Named(new) = add /\ \A j, k \in DOMAIN new : new[j] = new[k] => j = k
  BY DEF Orders
<1>3. n \in Nat
  OBVIOUS
<1>4. new \in Seq(Patch) /\ Len(new) = n
  BY <1>1, <1>3
<1>5. /\ seq \o new \in Seq(Patch) /\ Len(seq \o new) = Len(seq) + n /\ Len(seq) \in Nat
      /\ \A k \in 1..Len(seq) : (seq \o new)[k] = seq[k]
      /\ \A k \in 1..n : (seq \o new)[Len(seq) + k] = new[k]
  <2>1. Len(seq) \in Nat /\ seq \in Seq(Patch) /\ seq \o new \in Seq(Patch)
    BY <1>4
  <2>2. Len(seq \o new) = Len(seq) + n
    <3>1. Len(seq \o new) = Len(seq) + Len(new)
      BY <1>4, LenOfBoth
    <3> QED BY <1>4, <3>1
  <2>3. ASSUME NEW k \in 1..Len(seq) PROVE (seq \o new)[k] = seq[k]
    BY <1>4
  <2>4. ASSUME NEW k \in 1..n PROVE (seq \o new)[Len(seq) + k] = new[k]
    BY <1>3, <1>4, <2>1
  <2> QED BY <2>1, <2>2, <2>3, <2>4
<1>6. ASSUME NEW k \in 1..Len(seq \o new)
      PROVE  \/ k \in 1..Len(seq) /\ (seq \o new)[k] = seq[k]
             \/ k - Len(seq) \in 1..n /\ (seq \o new)[k] = new[k - Len(seq)]
  <2>1. CASE k \in 1..Len(seq)
    BY <1>5, <2>1
  <2>2. CASE k \notin 1..Len(seq)
    <3>1. k - Len(seq) \in 1..n /\ k = Len(seq) + (k - Len(seq))
      BY <1>3, <1>5, <2>2
    <3> QED BY <1>5, <3>1
  <2> QED BY <2>1, <2>2
<1>7. Named(seq \o new) = Named(seq) \cup add
  <2>1. ASSUME NEW k \in 1..Len(seq \o new) PROVE (seq \o new)[k] \in Named(seq) \cup Named(new)
    BY <1>4, <1>6 DEF Named
  <2>2. ASSUME NEW k \in 1..Len(seq) PROVE seq[k] \in Named(seq \o new)
    <3>1. k \in 1..Len(seq \o new)
      BY <1>3, <1>5
    <3> QED BY <1>5, <3>1 DEF Named
  <2>3. ASSUME NEW k \in 1..Len(new) PROVE new[k] \in Named(seq \o new)
    <3>1. Len(seq) + k \in 1..Len(seq \o new)
      BY <1>3, <1>4, <1>5
    <3> QED BY <1>4, <1>5, <3>1 DEF Named
  <2>4. Named(seq \o new) \subseteq Named(seq) \cup add
    BY <1>2, <2>1 DEF Named
  <2>5. Named(seq) \subseteq Named(seq \o new)
    BY <2>2 DEF Named
  <2>6. Named(new) \subseteq Named(seq \o new)
    BY <2>3 DEF Named
  <2> QED BY <1>2, <2>4, <2>5, <2>6
<1>8. ASSUME NoTwice(seq), Named(seq) \cap add = {} PROVE NoTwice(seq \o new)
  <2> SUFFICES ASSUME NEW j \in 1..Len(seq \o new), NEW k \in 1..Len(seq \o new),
                      (seq \o new)[j] = (seq \o new)[k]
               PROVE  j = k
    BY DEF NoTwice
  <2>1. \A i \in 1..Len(seq) : seq[i] \notin add
    BY <1>8 DEF Named
  <2>2. \A i \in 1..n : new[i] \in add
    BY <1>1
  <2>3. CASE j \in 1..Len(seq) /\ (seq \o new)[j] = seq[j] /\ k \in 1..Len(seq) /\ (seq \o new)[k] = seq[k]
    BY <1>8, <2>3 DEF NoTwice
  <2>4. CASE /\ j - Len(seq) \in 1..n /\ (seq \o new)[j] = new[j - Len(seq)]
             /\ k - Len(seq) \in 1..n /\ (seq \o new)[k] = new[k - Len(seq)]
    <3> DEFINE a == j - Len(seq)
               b == k - Len(seq)
    <3>1. a \in DOMAIN new /\ b \in DOMAIN new /\ new[a] = new[b]
      BY <1>1, <2>4
    <3>2. a = b
      <4> HIDE DEF a, b
      <4> QED BY <1>2, <3>1
    <3>3. j - Len(seq) = k - Len(seq)
      BY <3>2
    <3> QED BY <1>5, <3>3
  <2> QED BY <1>6, <2>1, <2>2, <2>3, <2>4
<1>9. ASSUME NEW k \in 1..Len(seq \o new)
      PROVE  \/ k \in 1..Len(seq) /\ (seq \o new)[k] = seq[k]
             \/ k > Len(seq) /\ (seq \o new)[k] \in add
  <2>1. CASE k - Len(seq) \in 1..n /\ (seq \o new)[k] = new[k - Len(seq)]
    BY <1>1, <1>5, <2>1
  <2> QED BY <1>6, <2>1
<1> QED BY <1>5, <1>7, <1>8, <1>9

(* A patch file is exported from one commit. *)
LEMMA ExportedOnce ==
  ASSUME DtTypes, TreeInv
  PROVE  /\ Exported \subseteq Named(history) /\ Exported \subseteq Commits
         /\ Named(history) = {history[k] : k \in 1..untouched} \cup Exported
         /\ \A c, d \in Named(history) : c.file = d.file => c = d
         /\ \A k \in 1..untouched : \A c \in Exported : c.file # history[k].file
         /\ \A c \in Exported : VersionIn(c.file) = c.version
<1>1. /\ untouched \in Nat /\ Len(history) \in Nat /\ untouched <= Len(history)
      /\ \A k \in 1..Len(history) : history[k] \in Commits
  BY DEF DtTypes
<1>2. Exported = {history[k] : k \in (untouched + 1)..Len(history)}
  BY DEF Exported, FirstChanged
<1>3. /\ Exported \subseteq Named(history) /\ Exported \subseteq Commits
      /\ Named(history) = {history[k] : k \in 1..untouched} \cup Exported
  <2>1. \A k : k \in 1..Len(history) <=> k \in 1..untouched \/ k \in (untouched + 1)..Len(history)
    BY <1>1
  <2> QED BY <1>1, <1>2, <2>1 DEF Named
<1>4. \A c, d \in Named(history) : c.file = d.file => c = d
  BY DEF TreeInv, OneEach, Named
<1>5. ASSUME NEW k \in 1..untouched, NEW c \in Exported PROVE c.file # history[k].file
  <2>1. PICK i \in (untouched + 1)..Len(history) : c = history[i]
    BY <1>2
  <2>2. i \in 1..Len(history) /\ k \in 1..Len(history) /\ i # k
    BY <1>1
  <2> QED BY <2>1, <2>2 DEF TreeInv, OneEach
<1>6. ASSUME NEW c \in Exported PROVE VersionIn(c.file) = c.version
  <2> DEFINE d == CHOOSE x \in Exported : x.file = c.file
  <2>1. d \in Exported /\ d.file = c.file
    OBVIOUS
  <2>2. d = c
    BY <1>3, <1>4, <2>1
  <2> QED BY <2>2 DEF VersionIn
<1> QED BY <1>3, <1>4, <1>5, <1>6

(* The recipe is not in the workspace in the initial state. *)
LEMMA InitDt == DtInit => DtInv
<1> SUFFICES ASSUME DtInit PROVE DtInv
  OBVIOUS
<1>1. DtTypes
  <2>1. patchFile \in [Patch -> Nat]
    BY DEF DtInit
  <2>2. srcUri \in Seq(Patch) /\ history \in Seq(Commits) /\ noted \in Seq(Commits)
        /\ Len(history) = 0 /\ Len(noted) = 0
    BY DEF DtInit
  <2>3. synced \in BOOLEAN /\ restored \in BOOLEAN /\ ordered \in BOOLEAN
    BY Zenon DEF DtInit
  <2>4. /\ dtPc \in {"out", "tree"} \cup Updating
        /\ untouched \in Nat /\ untouched = 0 /\ version \in Nat
        /\ toWrite \in SUBSET Patch /\ toAdd \in SUBSET Patch /\ toDrop \in SUBSET Patch
    BY DEF DtInit
  <2> QED BY <2>1, <2>2, <2>3, <2>4 DEF DtTypes
<1>2. EntriesHaveFiles
  BY DEF DtInit, EntriesHaveFiles, Named
<1>3. TreeInv /\ UpdateInv /\ AgreeInv /\ OrderInv
  BY DEF DtInit, TreeInv, OneEach, UpdateInv, AgreeInv, OrderInv, InOrder
<1> QED BY <1>1, <1>2, <1>3 DEF DtInv

(* New commits from k on, the others as they were. *)
FromOn(k, commits, inOrder) ==
  /\ inOrder /\ InOrder(history) => InOrder(commits)
  /\ commits \in Seq(Commits) /\ OneEach(commits)
  /\ k - 1 <= Len(commits) /\ \A i \in 1..(k - 1) : commits[i] = history[i]

(* What the user makes of the commits. *)
LEMMA UserCommits ==
  ASSUME DtTypes, TreeInv
  PROVE  /\ \A k \in 1..Len(history) : FromOn(k, [history EXCEPT ![k].version = version + 1], TRUE)
         /\ \A k \in 1..Len(history) : FromOn(k, Without(history, k), TRUE)
         /\ \A k \in 1..Len(history) : k < Len(history) =>
              FromOn(k, [history EXCEPT ![k] = history[k + 1], ![k + 1] = history[k]], FALSE)
         /\ \A p \in Patch : p \notin Files(history) =>
              /\ FromOn(Len(history) + 1, Append(history,
                   [file |-> p, version |-> version + 1, note |-> FALSE]),
                   OneNew(Len(history) + 1, p))
              /\ \A k \in 1..Len(history) :
                   FromOn(k, [history EXCEPT ![k].version = version + 1,
                                             ![k].file = IF history[k].note THEN @ ELSE p],
                          history[k].note \/ OneNew(k, p))
<1>1. /\ history \in Seq(Commits) /\ Len(history) \in Nat /\ version + 1 \in Nat \ {0}
      /\ \A i \in 1..Len(history) :
           /\ history[i] \in Commits /\ history[i].file \in Patch
           /\ history[i].version \in Nat \ {0} /\ history[i].note \in BOOLEAN
  <2>1. history \in Seq(Commits) /\ version \in Nat
    BY DEF DtTypes
  <2>2. Len(history) \in Nat /\ \A i \in 1..Len(history) : history[i] \in Commits
    BY <2>1
  <2>3. \A c \in Commits : c.file \in Patch /\ c.version \in Nat \ {0} /\ c.note \in BOOLEAN
    BY DEF Commits
  <2> QED BY <2>1, <2>2, <2>3
<1>2. \A i, j \in 1..Len(history) : history[i].file = history[j].file => i = j
  BY DEF TreeInv, OneEach
<1>3. ASSUME NEW p \in Patch, p \notin Files(history), NEW i \in 1..Len(history)
      PROVE  history[i].file # p
  BY <1>3 DEF Files
<1>4. ASSUME NEW k \in 1..Len(history) PROVE FromOn(k, [history EXCEPT ![k].version = version + 1], TRUE)
  <2> DEFINE c == [history EXCEPT ![k].version = version + 1]
  <2>1. /\ Len(c) = Len(history) /\ c \in Seq(Commits)
        /\ \A i \in 1..Len(history) : c[i].file = history[i].file /\ (i # k => c[i] = history[i])
    <3>1. [history[k] EXCEPT !.version = version + 1] \in Commits
          /\ [history[k] EXCEPT !.version = version + 1].file = history[k].file
      BY <1>1 DEF Commits
    <3>2. c = [history EXCEPT ![k] = [history[k] EXCEPT !.version = version + 1]]
      OBVIOUS
    <3> QED BY <1>1, <3>1, <3>2
  <2> HIDE DEF c
  <2>2. InOrder(history) => InOrder(c)
    BY <2>1 DEF InOrder
  <2>3. FromOn(k, c, TRUE)
    BY <1>1, <1>2, <2>1, <2>2 DEF FromOn, OneEach
  <2> QED BY <2>3 DEF c
<1>5. ASSUME NEW k \in 1..Len(history) PROVE FromOn(k, Without(history, k), TRUE)
  <2> DEFINE c == Without(history, k)
  <2>1. /\ c \in Seq(Commits) /\ Len(c) = Len(history) - 1
        /\ \A i \in 1..Len(c) : c[i] = IF i < k THEN history[i] ELSE history[i + 1]
    <3> DEFINE a == SubSeq(history, 1, k - 1)
               b == SubSeq(history, k + 1, Len(history))
    <3>1. /\ a \in Seq(Commits) /\ Len(a) = k - 1 /\ \A i \in 1..(k - 1) : a[i] = history[i]
      BY <1>1
    <3>2. /\ b \in Seq(Commits) /\ Len(b) = Len(history) - k
          /\ \A i \in 1..(Len(history) - k) : b[i] = history[k + i]
      BY <1>1
    <3>3. c = a \o b
      BY DEF Without
    <3> HIDE DEF a, b, c
    <3>4. c \in Seq(Commits) /\ Len(c) = Len(history) - 1
      <4>1. c \in Seq(Commits) /\ Len(c) = Len(a) + Len(b)
        <5>1. a \in Seq(Commits) /\ b \in Seq(Commits)
          BY <3>1, <3>2
        <5>2. a \o b \in Seq(Commits) /\ Len(a \o b) = Len(a) + Len(b)
          BY <5>1
        <5> QED BY <3>3, <5>2
      <4>2. k \in Nat
        OBVIOUS
      <4> QED BY <1>1, <3>1, <3>2, <4>1, <4>2
    <3>5. ASSUME NEW i \in 1..(Len(history) - 1), i < k PROVE c[i] = history[i]
      BY <1>1, <3>1, <3>2, <3>3, <3>5
    <3>6. ASSUME NEW i \in 1..(Len(history) - 1), ~(i < k) PROVE c[i] = history[i + 1]
      <4>1. i - (k - 1) \in 1..(Len(history) - k) /\ k + (i - (k - 1)) = i + 1
        BY <1>1, <3>6
      <4>2. c[i] = b[i - (k - 1)]
        BY <1>1, <3>1, <3>2, <3>3, <3>6, <4>1
      <4> QED BY <3>2, <4>1, <4>2
    <3> QED BY <3>4, <3>5, <3>6
  <2> HIDE DEF c
  <2>2. ASSUME NEW i \in 1..Len(c), NEW m \in 1..Len(c), c[i].file = c[m].file PROVE i = m
    <3>1. i \in 1..Len(history) /\ i + 1 \in 1..Len(history)
          /\ m \in 1..Len(history) /\ m + 1 \in 1..Len(history)
      BY <1>1, <2>1
    <3>2. CASE i < k /\ m < k
      BY <1>2, <2>1, <2>2, <3>1, <3>2
    <3>3. CASE i < k /\ ~(m < k)
      <4>1. i = m + 1
        BY <1>2, <2>1, <2>2, <3>1, <3>3
      <4> QED BY <3>3, <4>1
    <3>4. CASE ~(i < k) /\ m < k
      <4>1. i + 1 = m
        BY <1>2, <2>1, <2>2, <3>1, <3>4
      <4> QED BY <3>4, <4>1
    <3>5. CASE ~(i < k) /\ ~(m < k)
      <4>1. i + 1 = m + 1
        BY <1>2, <2>1, <2>2, <3>1, <3>5
      <4> QED BY <4>1
    <3> QED BY <3>2, <3>3, <3>4, <3>5
  <2>3. OneEach(c)
    BY <2>2 DEF OneEach
  <2>4. k - 1 <= Len(c)
    BY <1>1, <2>1
  <2>5. \A i \in 1..(k - 1) : c[i] = history[i]
    <3> SUFFICES ASSUME NEW i \in 1..(k - 1) PROVE c[i] = history[i]
      OBVIOUS
    <3>1. i \in 1..Len(c) /\ i < k
      BY <1>1, <2>1
    <3> QED BY <2>1, <3>1
  <2>6. ASSUME InOrder(history) PROVE InOrder(c)
    <3> DEFINE was(i) == IF i < k THEN i ELSE i + 1
    <3>1. ASSUME NEW i \in 1..Len(c) PROVE was(i) \in 1..Len(history) /\ c[i] = history[was(i)]
      BY <1>1, <2>1
    <3>2. ASSUME NEW i \in 1..Len(c), NEW m \in 1..Len(c), was(i) < was(m) PROVE i < m
      BY <3>2
    <3>3. ASSUME NEW i \in 1..Len(c), was(i) = Len(history) PROVE i = Len(c)
      BY <1>1, <2>1, <3>3
    <3> HIDE DEF was
    <3> QED BY <2>6, <3>1, <3>2, <3>3 DEF InOrder
  <2>7. FromOn(k, c, TRUE)
    BY <2>1, <2>3, <2>4, <2>5, <2>6 DEF FromOn
  <2> QED BY <2>7 DEF c
<1>6. ASSUME NEW k \in 1..Len(history), k < Len(history)
      PROVE  FromOn(k, [history EXCEPT ![k] = history[k + 1], ![k + 1] = history[k]], FALSE)
  <2> DEFINE c == [history EXCEPT ![k] = history[k + 1], ![k + 1] = history[k]]
  <2>1. k + 1 \in 1..Len(history)
    BY <1>1, <1>6
  <2>2. /\ c \in Seq(Commits) /\ Len(c) = Len(history)
        /\ \A i \in 1..Len(history) : c[i] = IF i = k + 1 THEN history[k]
                                             ELSE IF i = k THEN history[k + 1] ELSE history[i]
    BY <1>1, <2>1
  <2> HIDE DEF c
  <2>3. ASSUME NEW i \in 1..Len(c), NEW m \in 1..Len(c), c[i].file = c[m].file PROVE i = m
    BY <1>1, <1>2, <2>1, <2>2, <2>3
  <2> QED BY <1>1, <2>2, <2>3 DEF FromOn, OneEach, c
<1>7. ASSUME NEW p \in Patch, p \notin Files(history)
      PROVE  FromOn(Len(history) + 1, Append(history,
                      [file |-> p, version |-> version + 1, note |-> FALSE]),
                    OneNew(Len(history) + 1, p))
  <2> DEFINE new == [file |-> p, version |-> version + 1, note |-> FALSE]
             c == Append(history, new)
  <2>1. new \in Commits /\ new.file = p
    BY <1>1 DEF Commits
  <2> HIDE DEF new
  <2>2. /\ c \in Seq(Commits) /\ Len(c) = Len(history) + 1
        /\ \A i \in 1..Len(history) : c[i] = history[i]
        /\ c[Len(history) + 1] = new
    BY <1>1, <2>1
  <2> HIDE DEF c
  <2>3. ASSUME NEW i \in 1..Len(c), NEW m \in 1..Len(c), c[i].file = c[m].file PROVE i = m
    <3>1. i \in 1..Len(history) \/ i = Len(history) + 1
      BY <1>1, <2>2
    <3>2. m \in 1..Len(history) \/ m = Len(history) + 1
      BY <1>1, <2>2
    <3> QED BY <1>2, <1>3, <1>7, <2>1, <2>2, <2>3, <3>1, <3>2
  <2>4. ASSUME OneNew(Len(history) + 1, p), InOrder(history) PROVE InOrder(c)
    <3>1. \A i \in 1..Len(srcUri) : srcUri[i] # p
      BY <2>4 DEF OneNew, Named
    <3>2. \A i \in 1..Len(c) : i \in 1..Len(history) \/ i = Len(c)
      BY <1>1, <2>2
    <3>3. \A i \in 1..Len(history) : history[i].file \in Named(srcUri)
      BY <1>1, <2>4 DEF OneNew
    <3> QED BY <1>1, <2>1, <2>2, <2>4, <3>1, <3>2, <3>3 DEF InOrder
  <2>5. FromOn(Len(history) + 1, c, OneNew(Len(history) + 1, p))
    BY <1>1, <2>2, <2>3, <2>4 DEF FromOn, OneEach
  <2> QED BY <2>5 DEF c, new
<1>8. ASSUME NEW p \in Patch, p \notin Files(history), NEW k \in 1..Len(history)
      PROVE  FromOn(k, [history EXCEPT ![k].version = version + 1,
                                       ![k].file = IF history[k].note THEN @ ELSE p],
                    history[k].note \/ OneNew(k, p))
  <2> DEFINE new == [history[k] EXCEPT !.version = version + 1,
                                       !.file = IF history[k].note THEN history[k].file ELSE p]
             c == [history EXCEPT ![k].version = version + 1,
                                  ![k].file = IF history[k].note THEN @ ELSE p]
  <2>1. new \in Commits /\ new.file \in {history[k].file, p}
    BY <1>1 DEF Commits
  <2>2. c = [history EXCEPT ![k] = new]
    BY <1>1
  <2> HIDE DEF new
  <2>3. /\ c \in Seq(Commits) /\ Len(c) = Len(history)
        /\ \A i \in 1..Len(history) : c[i] = IF i = k THEN new ELSE history[i]
    <3>1. Len(c) = Len(history) /\ \A i \in 1..Len(history) : c[i] = IF i = k THEN new ELSE history[i]
      BY <1>1, <2>2
    <3>2. c \in Seq(Commits)
      <4>1. history \in [1..Len(history) -> Commits]
        BY <1>1
      <4>2. c \in [1..Len(history) -> Commits]
        BY <2>1, <2>2, <4>1
      <4>3. Len(history) \in Nat
        BY <1>1
      <4> HIDE DEF c
      <4> QED BY <4>2, <4>3, ListOf
    <3> QED BY <3>1, <3>2
  <2> HIDE DEF c
  <2>4. ASSUME NEW i \in 1..Len(c), NEW m \in 1..Len(c), c[i].file = c[m].file PROVE i = m
    BY <1>1, <1>2, <1>3, <1>8, <2>1, <2>3, <2>4
  <2>5. ASSUME history[k].note, InOrder(history) PROVE InOrder(c)
    <3>1. new.file = history[k].file
      BY <1>1, <2>5 DEF new
    <3>2. \A i \in 1..Len(history) : c[i].file = history[i].file
      BY <2>3, <3>1
    <3> QED BY <2>3, <2>5, <3>2 DEF InOrder
  <2>6. ASSUME OneNew(k, p), ~history[k].note, InOrder(history) PROVE InOrder(c)
    <3>1. \A i \in 1..Len(srcUri) : srcUri[i] # p
      BY <2>6 DEF OneNew, Named
    <3>2. new.file = p
      BY <1>1, <2>6 DEF new
    <3>3. \A i \in 1..Len(history) : i # k => i < k /\ history[i].file \in Named(srcUri)
      BY <2>6 DEF OneNew
    <3>4. k = Len(history)
      BY <1>1, <3>3
    <3> QED BY <1>1, <2>3, <2>6, <3>1, <3>2, <3>3, <3>4 DEF InOrder
  <2>7. FromOn(k, c, history[k].note \/ OneNew(k, p))
    BY <1>1, <2>3, <2>4, <2>5, <2>6 DEF FromOn, OneEach
  <2> QED BY <2>7 DEF c
<1> QED BY <1>4, <1>5, <1>6, <1>7, <1>8

(* The user's work leaves in step what it does not touch. *)
LEMMA EditKeeps ==
  ASSUME DtInv, NEW k \in 1..(Len(history) + 1), NEW commits, NEW inOrder,
         FromOn(k, commits, inOrder), Edit(k, commits, inOrder)
  PROVE  DtInv'
<1> USE DEF DtInv, DtTypes, Updating, recipe, plan
<1>1. /\ dtPc = "tree" /\ history' = commits /\ untouched' = Least(untouched, k - 1)
      /\ UNCHANGED <<dtPc, recipe, noted, plan, interrupts, restored>> /\ synced' = FALSE
      /\ version' = version + 1 /\ ordered' = (ordered /\ inOrder)
  BY DEF Edit
<1>2. /\ untouched' \in Nat /\ untouched' <= untouched /\ untouched' <= k - 1 /\ k - 1 \in Nat
      /\ Len(commits) \in Nat /\ Len(noted) \in Nat
  BY <1>1 DEF Least, FromOn
<1>3. DtTypes'
  <2>1. /\ commits \in Seq(Commits) /\ k - 1 <= Len(commits) /\ version' \in Nat
        /\ untouched' <= Len(commits) /\ untouched' <= Len(noted)
    BY <1>1, <1>2 DEF FromOn
  <2> QED BY <1>1, <1>2, <2>1
<1>4. EntriesHaveFiles'
  BY <1>1 DEF EntriesHaveFiles
<1>5. \A i \in 1..untouched' : history'[i] = history[i] /\ i \in 1..untouched
  BY <1>1, <1>2 DEF FromOn
<1>6. TreeInv'
  BY <1>1, <1>5 DEF TreeInv, FromOn
<1>7. UpdateInv'
  BY <1>1 DEF UpdateInv
<1>8. AgreeInv'
  BY <1>1, <1>5 DEF AgreeInv, InRecipe
<1>9. ASSUME ordered', ~restored' PROVE InOrder(history)'
  <2>1. ordered /\ ~restored /\ inOrder
    BY <1>1, <1>9
  <2>2. InOrder(commits)
    BY <2>1 DEF OrderInv, FromOn
  <2>3. history' = commits /\ srcUri' = srcUri
    BY <1>1
  <2> HIDE DEF DtInv, DtTypes, Updating, recipe, plan
  <2>4. Named(srcUri') = Named(srcUri)
    BY <2>3
  <2>5. \A i, j \in 1..Len(srcUri'), m, n \in 1..Len(history') :
          srcUri'[i] = history'[m].file /\ srcUri'[j] = history'[n].file /\ i < j => m < n
    <3>1. \A i, j \in 1..Len(srcUri), m, n \in 1..Len(commits) :
            srcUri[i] = commits[m].file /\ srcUri[j] = commits[n].file /\ i < j => m < n
      BY <2>2 DEF InOrder
    <3> QED BY <2>3, <3>1
  <2>6. \A m \in 1..Len(history') : history'[m].file \in Named(srcUri') \/ m = Len(history')
    <3>1. \A m \in 1..Len(commits) : commits[m].file \in Named(srcUri) \/ m = Len(commits)
      BY <2>2 DEF InOrder
    <3> QED BY <2>3, <2>4, <3>1
  <2> QED BY <2>5, <2>6, Zenon DEF InOrder, Named
<1> QED BY <1>3, <1>4, <1>6, <1>7, <1>8, <1>9 DEF OrderInv

(* Every step preserves DtInv. *)
LEMMA NextDtInv == DtInv /\ [DtNext]_dtVars => DtInv'
<1> SUFFICES ASSUME DtInv, [DtNext]_dtVars PROVE DtInv'
  OBVIOUS
<1> USE DEF recipe, tree, plan, notes
<1>0. DtTypes /\ TreeInv /\ EntriesHaveFiles /\ UpdateInv /\ AgreeInv /\ OrderInv
  BY DEF DtInv
<1>a. /\ Exported \subseteq Named(history) /\ Exported \subseteq Commits
      /\ Named(history) = {history[k] : k \in 1..untouched} \cup Exported
      /\ \A c, d \in Named(history) : c.file = d.file => c = d
      /\ \A k \in 1..untouched : \A c \in Exported : c.file # history[k].file
      /\ \A c \in Exported : VersionIn(c.file) = c.version
  BY <1>0, ExportedOnce
<1>b. Files(history) = {c.file : c \in Named(history)}
  BY DEF Files, Named
<1>c. UNCHANGED <<history, untouched>> => Exported' = Exported
  BY DEF Exported, FirstChanged
<1>d. UNCHANGED tree /\ dtPc' # "out" => TreeInv'
  BY <1>0 DEF TreeInv, OneEach
<1>e. UNCHANGED srcUri /\ UNCHANGED patchFile => EntriesHaveFiles'
  BY <1>0 DEF EntriesHaveFiles
<1>h. UNCHANGED <<srcUri, history, restored, ordered>> => OrderInv'
  BY <1>0 DEF OrderInv, InOrder
<1>f. \A c \in Named(history) : c \in Commits /\ c.file \in Patch
  <2>1. \A c \in Commits : c.file \in Patch
    BY DEF Commits
  <2>2. \A k \in 1..Len(history) : history[k] \in Commits
    BY <1>0 DEF DtTypes
  <2> QED BY <2>1, <2>2 DEF Named
<1>g. \A k \in 1..Len(history) : history[k] \in Named(history)
  BY DEF Named
<1>1. CASE Modify
  <2>1. /\ dtPc' = "tree" /\ UNCHANGED <<recipe, plan, version>> /\ synced' = TRUE
        /\ restored' = FALSE /\ ordered' = TRUE
        /\ history' = [k \in 1..Len(srcUri) |->
                         [file |-> srcUri[k], version |-> patchFile[srcUri[k]], note |-> TRUE]]
        /\ noted' = history' /\ untouched' = Len(srcUri)
    BY <1>1 DEF Modify
  <2>2. /\ Len(srcUri) \in Nat /\ \A k \in 1..Len(srcUri) : srcUri[k] \in Patch
        /\ \A k \in 1..Len(srcUri) : patchFile[srcUri[k]] \in Nat \ {0}
    <3>1. /\ Len(srcUri) \in Nat /\ patchFile \in [Patch -> Nat]
          /\ \A k \in 1..Len(srcUri) : srcUri[k] \in Patch
      BY <1>0 DEF DtTypes
    <3>2. \A k \in 1..Len(srcUri) : patchFile[srcUri[k]] # 0
      BY <1>0 DEF EntriesHaveFiles, Named
    <3> QED BY <3>1, <3>2
  <2>3. history' \in Seq(Commits) /\ Len(history') = Len(srcUri)
    <3>1. history' \in [1..Len(srcUri) -> Commits]
      BY <2>1, <2>2 DEF Commits
    <3>2. Len(srcUri) \in Nat
      BY <2>2
    <3>3. history' \in Seq(Commits)
      BY <3>1, <3>2, ListOf
    <3> QED BY <3>1, <3>2, <3>3
  <2>4. \A k \in 1..Len(srcUri) : /\ history'[k].file = srcUri[k]
                                 /\ history'[k].version = patchFile[srcUri[k]]
    BY <2>1
  <2>5. DtTypes'
    <3>1. synced' \in BOOLEAN /\ restored' \in BOOLEAN /\ ordered' \in BOOLEAN
      BY <2>1, Zenon
    <3>2. noted' \in Seq(Commits) /\ untouched' \in Nat
          /\ untouched' <= Len(history') /\ untouched' <= Len(noted')
      BY <2>1, <2>2, <2>3
    <3> QED BY <1>0, <2>1, <2>3, <3>1, <3>2 DEF DtTypes, Updating
  <2>6. OneEach(history') /\ TreeInv'
    BY <1>0, <2>1, <2>3, <2>4 DEF TreeInv, OneEach, EntriesHaveFiles
  <2>7. UpdateInv'
    BY <2>1 DEF UpdateInv
  <2>8. AgreeInv'
    BY <2>1, <2>2, <2>3, <2>4 DEF AgreeInv, InRecipe, Named, Files
  <2>9. OrderInv'
    <3>1. \A k, l \in 1..Len(srcUri) : srcUri[k] = srcUri[l] => k = l
      BY <1>0 DEF EntriesHaveFiles
    <3>2. InOrder(history)'
      BY <2>1, <2>2, <2>3, <2>4, <3>1 DEF InOrder, Named
    <3> QED BY <3>2 DEF OrderInv
  <2> QED BY <1>e, <2>1, <2>5, <2>6, <2>7, <2>8, <2>9 DEF DtInv
<1>2. CASE Leave
  <2>1. /\ dtPc' = "out" /\ history' = <<>> /\ noted' = <<>> /\ untouched' = 0
        /\ synced' = FALSE /\ restored' = FALSE /\ ordered' = TRUE
        /\ UNCHANGED <<recipe, plan, version>>
    BY <1>2 DEF Leave
  <2>2. DtTypes'
    <3>1. synced' \in BOOLEAN /\ restored' \in BOOLEAN /\ ordered' \in BOOLEAN
      BY <2>1, Zenon
    <3>2. history' \in Seq(Commits) /\ noted' \in Seq(Commits) /\ untouched' \in Nat
          /\ untouched' <= Len(history') /\ untouched' <= Len(noted')
      BY <2>1
    <3> QED BY <1>0, <2>1, <3>1, <3>2 DEF DtTypes, Updating
  <2>3. TreeInv' /\ UpdateInv' /\ AgreeInv' /\ OrderInv'
    BY <2>1 DEF TreeInv, OneEach, UpdateInv, AgreeInv, OrderInv, InOrder
  <2> QED BY <1>e, <2>1, <2>2, <2>3 DEF DtInv
<1>3. CASE GoBack
  <2>1. /\ dtPc = "tree" /\ dtPc' = "tree" /\ history' = noted /\ untouched' = Len(noted)
        /\ synced' = FALSE /\ restored' = TRUE /\ UNCHANGED <<recipe, noted, plan, version, ordered>>
    BY <1>3 DEF GoBack
  <2>2. DtTypes'
    <3>1. synced' \in BOOLEAN /\ restored' \in BOOLEAN
      BY <2>1, Zenon
    <3>2. history' \in Seq(Commits) /\ untouched' \in Nat
          /\ untouched' <= Len(history') /\ untouched' <= Len(noted')
      BY <1>0, <2>1 DEF DtTypes
    <3> QED BY <1>0, <2>1, <3>1, <3>2 DEF DtTypes, Updating
  <2>3. TreeInv' /\ UpdateInv' /\ AgreeInv' /\ OrderInv'
    BY <1>0, <2>1 DEF TreeInv, OneEach, UpdateInv, AgreeInv, OrderInv
  <2> QED BY <1>e, <2>1, <2>2, <2>3 DEF DtInv
<1>4. CASE UpdateRecipe
  <2>1. /\ dtPc = "tree" /\ toWrite' = {c.file : c \in Exported}
        /\ toAdd' = toWrite' \ Named(srcUri) /\ toDrop' = Named(srcUri) \ Files(history)
        /\ UNCHANGED <<recipe, tree, version, restored, ordered>>
        /\ \/ /\ toWrite' \cup toDrop' = {} /\ synced' = TRUE /\ dtPc' = "tree"
           \/ /\ toWrite' \cup toDrop' # {} /\ synced' = synced /\ dtPc' = "write"
    BY <1>4 DEF UpdateRecipe
  <2>2. toWrite' \in SUBSET Patch /\ toDrop' \in SUBSET Patch
    <3>1. \A k \in 1..Len(srcUri) : srcUri[k] \in Patch
      BY <1>0 DEF DtTypes
    <3>2. Named(srcUri) \in SUBSET Patch
      BY <3>1 DEF Named
    <3>3. \A c \in Exported : c.file \in Patch
      BY <1>a, <1>f
    <3> QED BY <2>1, <3>2, <3>3
  <2>3. DtTypes'
    BY <1>0, <2>1, <2>2 DEF DtTypes, Updating
  <2>4. UpdateInv'
    BY <1>c, <2>1 DEF UpdateInv
  <2>5. AgreeInv'
    <3> SUFFICES ASSUME ~restored
                 PROVE  /\ \A k \in 1..untouched : InRecipe(k)
                        /\ synced' => /\ Named(srcUri) \subseteq Files(history)
                                      /\ \A k \in 1..Len(history) : InRecipe(k)
      BY <2>1 DEF AgreeInv, InRecipe
    <3>1. \A k \in 1..untouched : InRecipe(k)
      BY <1>0 DEF AgreeInv
    <3>2. CASE synced' = synced
      BY <1>0, <3>1, <3>2 DEF AgreeInv
    <3>3. CASE toWrite' \cup toDrop' = {}
      <4>1. Exported = {} /\ Named(srcUri) \subseteq Files(history)
        <5>1. ASSUME NEW c \in Exported PROVE FALSE
          <6>1. c.file \in toWrite'
            BY <2>1
          <6> QED BY <3>3, <6>1
        <5>2. Named(srcUri) \subseteq Files(history)
          BY <2>1, <3>3
        <5> QED BY <5>1, <5>2
      <4>2. ASSUME NEW k \in 1..Len(history) PROVE k \in 1..untouched
        <5>1. history[k] \notin Exported /\ Len(history) \in Nat /\ untouched \in Nat
          BY <1>0, <4>1 DEF DtTypes
        <5> QED BY <5>1 DEF Exported, FirstChanged
      <4> QED BY <3>1, <4>1, <4>2
    <3> QED BY <2>1, <3>1, <3>2, <3>3
  <2> QED BY <1>d, <1>h, <1>e, <2>1, <2>3, <2>4, <2>5 DEF DtInv
<1>5. CASE Written
  <2>1. dtPc = "write" /\ toWrite = {} /\ dtPc' = "recipe" /\ UNCHANGED <<recipe, tree, plan, version, notes>>
    BY <1>5 DEF Written
  <2>2. DtTypes'
    BY <1>0, <2>1 DEF DtTypes, Updating
  <2>3. UpdateInv' /\ AgreeInv'
    BY <1>0, <1>c, <2>1 DEF UpdateInv, AgreeInv, InRecipe
  <2> QED BY <1>d, <1>h, <1>e, <2>1, <2>2, <2>3 DEF DtInv
<1>6. CASE WriteRecipe
  <2>1. /\ dtPc = "recipe" /\ dtPc' = "remove"
        /\ UNCHANGED <<patchFile, tree, plan, version, notes>>
    BY <1>6 DEF WriteRecipe
  <2>2. PICK new \in Orders(toAdd) : srcUri' \in LeftOf(srcUri \o new, toDrop)
    BY <1>6 DEF WriteRecipe
  <2>3. /\ toWrite = {} /\ toAdd = {c.file : c \in Exported} \ Named(srcUri)
        /\ toDrop = Named(srcUri) \ Files(history)
        /\ \A c \in Exported : patchFile[c.file] = c.version
    BY <1>0, <2>1 DEF UpdateInv
  <2>4. /\ srcUri' \in Seq(Patch) /\ Named(srcUri') = (Named(srcUri) \cup toAdd) \ toDrop
        /\ NoTwice(srcUri')
    <3>1. /\ srcUri \in Seq(Patch) /\ toAdd \in SUBSET Patch /\ NoTwice(srcUri)
          /\ Named(srcUri) \cap toAdd = {}
      BY <1>0, <2>3 DEF DtTypes, EntriesHaveFiles, NoTwice
    <3>2. /\ srcUri \o new \in Seq(Patch) /\ Named(srcUri \o new) = Named(srcUri) \cup toAdd
          /\ NoTwice(srcUri \o new)
      BY <2>2, <3>1, AddedNamed
    <3> QED BY <2>2, <3>2, LeftNamed
  <2>5. DtTypes'
    BY <1>0, <2>1, <2>4 DEF DtTypes, Updating
  <2>6. \A c \in Exported : c \in Commits /\ c.version # 0 /\ c.file \in Files(history)
    BY <1>a, <1>b DEF Commits
  <2>7. EntriesHaveFiles'
    <3>1. ASSUME NEW q \in Named(srcUri') PROVE patchFile[q] # 0
      BY <1>0, <2>3, <2>4, <2>6 DEF EntriesHaveFiles
    <3> QED BY <2>1, <2>4, <3>1 DEF EntriesHaveFiles, NoTwice
  <2>8. Named(srcUri') \subseteq Files(history)
    BY <2>3, <2>4, <2>6
  <2>9. UpdateInv'
    BY <1>c, <2>1, <2>3, <2>4, <2>6, <2>8 DEF UpdateInv
  <2>10. ASSUME NEW k \in 1..Len(history), InRecipe(k) PROVE InRecipe(k)'
    <3>1. history[k].file \in Files(history)
      BY DEF Files
    <3> QED BY <2>1, <2>3, <2>4, <2>10, <3>1 DEF InRecipe
  <2>11. AgreeInv'
    <3>1. \A k \in 1..untouched : k \in 1..Len(history)
      BY <1>0 DEF DtTypes
    <3> QED BY <1>0, <2>1, <2>8, <2>10, <3>1 DEF AgreeInv
  <2>12. ASSUME ordered, ~restored PROVE InOrder(history)'
    <3> DEFINE both == srcUri \o new
    <3>1. /\ toAdd \in SUBSET Patch /\ srcUri \in Seq(Patch) /\ NoTwice(srcUri)
          /\ Named(srcUri) \cap toAdd = {}
      BY <1>0, <2>3 DEF DtTypes, EntriesHaveFiles, NoTwice
    <3>2. /\ both \in Seq(Patch) /\ NoTwice(both)
          /\ \A k \in 1..Len(both) : \/ k \in 1..Len(srcUri) /\ both[k] = srcUri[k]
                                     \/ k > Len(srcUri) /\ both[k] \in toAdd
      BY <2>2, <3>1, AddedNamed
    <3> HIDE DEF both
    <3>3. srcUri' \in LeftOf(both, toDrop)
      BY <2>2 DEF both
    <3>4. \A i, j \in 1..Len(srcUri'), k, l \in 1..Len(both) :
            srcUri'[i] = both[k] /\ srcUri'[j] = both[l] /\ i < j => k < l
      BY <3>2, <3>3, LeftNamed
    <3>5. \A i \in 1..Len(srcUri') : \E k \in 1..Len(both) : srcUri'[i] = both[k]
      BY <3>2, <3>3, LeftOfList
    <3>6. InOrder(history) /\ Len(history) \in Nat /\ Len(srcUri) \in Nat
      BY <1>0, <2>12 DEF OrderInv, DtTypes
    <3>7. ASSUME NEW k \in 1..Len(history), history[k].file \in toAdd PROVE k = Len(history)
      BY <2>3, <3>6, <3>7 DEF InOrder
    <3>8. ASSUME NEW i \in 1..Len(srcUri'), NEW j \in 1..Len(srcUri'), i < j,
                 NEW k \in 1..Len(history), NEW l \in 1..Len(history),
                 srcUri'[i] = history[k].file, srcUri'[j] = history[l].file
          PROVE  k < l
      <4>1. PICK m \in 1..Len(both) : srcUri'[i] = both[m]
        BY <3>5
      <4>2. PICK n \in 1..Len(both) : srcUri'[j] = both[n]
        BY <3>5
      <4>3. m < n
        BY <3>4, <3>8, <4>1, <4>2
      <4>4. CASE n \in 1..Len(srcUri) /\ both[n] = srcUri[n]
        <5>1. m \in 1..Len(srcUri) /\ both[m] = srcUri[m]
          BY <3>2, <3>6, <4>3, <4>4
        <5> QED BY <3>6, <3>8, <4>1, <4>2, <4>3, <4>4, <5>1 DEF InOrder
      <4>5. CASE both[n] \in toAdd
        <5>1. history[l].file \in toAdd
          BY <3>8, <4>2, <4>5
        <5>2. l = Len(history)
          BY <3>7, <5>1
        <5>3. both[m] # both[n]
          BY <3>2, <4>3 DEF NoTwice
        <5>4. k # l
          BY <3>8, <4>1, <4>2, <5>3
        <5> QED BY <3>6, <5>2, <5>4
      <4> QED BY <3>2, <4>4, <4>5
    <3>9. ASSUME NEW k \in 1..Len(history), k # Len(history)
          PROVE  history[k].file \in Named(srcUri')
      <4>1. history[k].file \in Named(srcUri)
        BY <3>6, <3>9 DEF InOrder
      <4>2. history[k].file \notin toDrop
        BY <2>3 DEF Files
      <4> QED BY <2>4, <4>1, <4>2
    <3>10. history' = history
      BY <2>1
    <3>11. \A i, j \in 1..Len(srcUri'), k, l \in 1..Len(history) :
             srcUri'[i] = history[k].file /\ srcUri'[j] = history[l].file /\ i < j => k < l
      BY <3>8, Zenon
    <3>12. \A k \in 1..Len(history) : history[k].file \in Named(srcUri') \/ k = Len(history)
      BY <3>9, Zenon
    <3> QED BY <3>10, <3>11, <3>12 DEF InOrder
  <2>13. OrderInv'
    BY <2>1, <2>12 DEF OrderInv
  <2> QED BY <1>d, <2>1, <2>5, <2>7, <2>9, <2>11, <2>13 DEF DtInv
<1>7. CASE Updated
  <2>1. /\ dtPc = "remove" /\ dtPc' = "tree" /\ toWrite' = {} /\ toAdd' = {} /\ toDrop' = {}
        /\ synced' = TRUE /\ UNCHANGED <<recipe, tree, version, restored, ordered>>
    BY <1>7 DEF Updated, Back
  <2>2. DtTypes' /\ UpdateInv'
    BY <1>0, <2>1 DEF DtTypes, Updating, UpdateInv
  <2>3. AgreeInv'
    <3>1. Named(srcUri) \subseteq Files(history)
      BY <1>0, <2>1 DEF UpdateInv
    <3>2. ASSUME ~restored, NEW k \in 1..Len(history) PROVE InRecipe(k)
      <4>1. CASE k \in 1..untouched
        BY <1>0, <3>2, <4>1 DEF AgreeInv
      <4>2. CASE k \notin 1..untouched
        <5>1. history[k] \in Exported
          BY <1>0, <4>2 DEF DtTypes, Exported, FirstChanged
        <5> QED BY <1>0, <2>1, <5>1 DEF UpdateInv, InRecipe
      <4> QED BY <4>1, <4>2
    <3>3. \A k \in 1..untouched : ~restored => InRecipe(k)
      BY <1>0 DEF AgreeInv
    <3> QED BY <2>1, <3>1, <3>2, <3>3 DEF AgreeInv, InRecipe
  <2> QED BY <1>d, <1>h, <1>e, <2>1, <2>2, <2>3 DEF DtInv
<1>8. CASE InterruptUpdate
  <2>1. /\ dtPc' = "tree" /\ toWrite' = {} /\ toAdd' = {} /\ toDrop' = {}
        /\ UNCHANGED <<recipe, tree, version, notes>>
    BY <1>8 DEF InterruptUpdate, Back
  <2>2. DtTypes' /\ UpdateInv'
    BY <1>0, <2>1 DEF DtTypes, Updating, UpdateInv
  <2>3. AgreeInv'
    BY <1>0, <2>1 DEF AgreeInv, InRecipe
  <2> QED BY <1>d, <1>h, <1>e, <2>1, <2>2, <2>3 DEF DtInv
<1>9. ASSUME NEW k \in 1..Len(history), NEW commits, NEW inOrder,
             Edit(k, commits, inOrder), FromOn(k, commits, inOrder)
      PROVE  DtInv'
  <2>1. k \in 1..(Len(history) + 1)
    BY <1>0 DEF DtTypes
  <2> QED BY <1>9, <2>1, EditKeeps
<1>10. ASSUME NEW k \in 1..Len(history), Amend(k) \/ Drop(k) \/ Swap(k) \/ \E p \in Patch : Reword(k, p)
       PROVE  DtInv'
  <2>1. CASE Amend(k)
    BY <1>0, <1>9, <2>1, UserCommits DEF Amend
  <2>2. CASE Drop(k)
    BY <1>0, <1>9, <2>2, UserCommits DEF Drop
  <2>3. CASE Swap(k)
    BY <1>0, <1>9, <2>3, UserCommits DEF Swap
  <2>4. ASSUME NEW p \in Patch, Reword(k, p) PROVE DtInv'
    <3> DEFINE c == [history EXCEPT ![k].version = version + 1,
                                    ![k].file = IF history[k].note THEN @ ELSE p]
               last == history[k].note \/ OneNew(k, p)
    <3>1. p \notin Files(history) /\ Edit(k, c, last)
      BY <2>4 DEF Reword
    <3>2. FromOn(k, c, last)
      BY <1>0, <3>1, UserCommits
    <3> HIDE DEF c, last
    <3> QED BY <1>9, <3>1, <3>2
  <2> QED BY <1>10, <2>1, <2>2, <2>3, <2>4
<1>11. ASSUME NEW p \in Patch, Commit(p) PROVE DtInv'
  <2>1. Len(history) + 1 \in 1..(Len(history) + 1)
    BY <1>0 DEF DtTypes
  <2> QED BY <1>0, <1>11, <2>1, UserCommits, EditKeeps DEF Commit
<1>12. ASSUME NEW p \in Patch, WritePatch(p) PROVE DtInv'
  <2>1. /\ dtPc = "write" /\ dtPc' = "write" /\ p \in toWrite /\ toWrite' = toWrite \ {p}
        /\ patchFile' = [patchFile EXCEPT ![p] = VersionIn(p)]
        /\ UNCHANGED <<srcUri, tree, toAdd, toDrop, version, notes>>
    BY <1>12 DEF WritePatch
  <2>2. PICK c \in Exported : c.file = p
    BY <1>0, <2>1 DEF UpdateInv
  <2>3. VersionIn(p) = c.version /\ c.version \in Nat \ {0} /\ patchFile \in [Patch -> Nat]
    BY <1>0, <1>a, <2>2 DEF Commits, DtTypes
  <2>4. patchFile' = [patchFile EXCEPT ![p] = c.version]
    BY <2>1, <2>3
  <2>5. \A d \in Named(history) : d.file = p => d = c
    BY <1>a, <2>2
  <2>6. \A q \in Patch : patchFile'[q] = IF q = p THEN c.version ELSE patchFile[q]
    BY <2>3, <2>4
  <2>7. DtTypes'
    BY <1>0, <2>1, <2>3, <2>4 DEF DtTypes, Updating
  <2>8. EntriesHaveFiles'
    BY <1>0, <2>1, <2>3, <2>6 DEF EntriesHaveFiles, Named, DtTypes
  <2>9. UpdateInv'
    <3>1. ASSUME NEW d \in Exported PROVE d.file \in toWrite' \/ patchFile'[d.file] = d.version
      <4>1. d \in Commits /\ d.file \in Patch /\ d \in Named(history)
        BY <1>a DEF Commits
      <4>2. d.file \in toWrite \/ patchFile[d.file] = d.version
        BY <1>0, <2>1 DEF UpdateInv
      <4> QED BY <2>1, <2>5, <2>6, <4>1, <4>2
    <3> QED BY <1>0, <1>c, <2>1, <3>1 DEF UpdateInv
  <2>10. ASSUME NEW k \in 1..Len(history), InRecipe(k) PROVE InRecipe(k)'
    <3>1. history[k] \in Named(history) /\ history[k].file \in Patch
      BY <1>f, <1>g
    <3> QED BY <2>1, <2>5, <2>6, <2>10, <3>1 DEF InRecipe
  <2>11. AgreeInv'
    <3>1. \A k \in 1..untouched : k \in 1..Len(history)
      BY <1>0 DEF DtTypes
    <3> QED BY <1>0, <2>1, <2>10, <3>1 DEF AgreeInv
  <2> QED BY <1>d, <1>h, <2>1, <2>7, <2>8, <2>9, <2>11 DEF DtInv
<1>13. ASSUME NEW p \in Patch, RemoveSource(p) PROVE DtInv'
  <2>1. /\ dtPc = "remove" /\ dtPc' = "remove" /\ p \in toDrop /\ toDrop' = toDrop \ {p}
        /\ patchFile' = [patchFile EXCEPT ![p] = 0]
        /\ UNCHANGED <<srcUri, tree, toWrite, toAdd, version, notes>>
    BY <1>13 DEF RemoveSource
  <2>2. p \notin Files(history) /\ p \notin Named(srcUri)
    BY <1>0, <2>1 DEF UpdateInv
  <2>3. \A q \in Patch : q # p => patchFile'[q] = patchFile[q]
    BY <1>0, <2>1 DEF DtTypes
  <2>4. DtTypes'
    BY <1>0, <2>1 DEF DtTypes, Updating
  <2>5. EntriesHaveFiles'
    BY <1>0, <2>1, <2>2, <2>3 DEF EntriesHaveFiles, Named, DtTypes
  <2>6. \A c \in Named(history) : c.file # p /\ c.file \in Patch
    BY <1>b, <1>f, <2>2
  <2>7. UpdateInv'
    BY <1>0, <1>a, <1>c, <2>1, <2>3, <2>6 DEF UpdateInv
  <2>8. ASSUME NEW k \in 1..Len(history), InRecipe(k) PROVE InRecipe(k)'
    BY <2>1, <2>3, <2>6, <2>8 DEF InRecipe, Named
  <2>9. AgreeInv'
    <3>1. \A k \in 1..untouched : k \in 1..Len(history)
      BY <1>0 DEF DtTypes
    <3> QED BY <1>0, <2>1, <2>8, <3>1 DEF AgreeInv
  <2> QED BY <1>d, <1>h, <2>1, <2>4, <2>5, <2>7, <2>9 DEF DtInv
<1>14. CASE UNCHANGED dtVars
  <2>1. /\ UNCHANGED <<dtPc, srcUri, patchFile, history, noted, untouched>>
        /\ UNCHANGED <<toWrite, toAdd, toDrop, version, synced, restored, ordered>>
    BY <1>14 DEF dtVars
  <2>2. DtTypes'
    BY <1>0, <2>1 DEF DtTypes
  <2>3. EntriesHaveFiles'
    BY <1>0, <2>1 DEF EntriesHaveFiles, Named
  <2>4. TreeInv'
    BY <1>0, <2>1 DEF TreeInv, OneEach
  <2>5. UpdateInv'
    BY <1>0, <2>1 DEF UpdateInv, Exported, FirstChanged
  <2>6. AgreeInv'
    BY <1>0, <2>1 DEF AgreeInv, InRecipe
  <2>7. OrderInv'
    BY <1>0, <2>1 DEF OrderInv, InOrder, Named
  <2> QED BY <2>2, <2>3, <2>4, <2>5, <2>6, <2>7 DEF DtInv
<1> QED BY <1>1, <1>2, <1>3, <1>4, <1>5, <1>6, <1>7, <1>8, <1>10, <1>11, <1>12, <1>13, <1>14 DEF DtNext

(* DtInv holds in every reachable state. *)
THEOREM PatchesInvariance == DtSpec => []DtInv
<1> QED BY InitDt, NextDtInv, PTL DEF DtSpec

(* SRC_URI names every patch once and none without a file, at every moment  *)
(* of an update.                                                            *)
THEOREM EntriesKeepFiles == DtSpec => []EntriesHaveFiles
<1>1. DtInv => EntriesHaveFiles
  BY DEF DtInv
<1> QED BY <1>1, PatchesInvariance, PTL

(* After an update the recipe has the user's commits and nothing else,      *)
(* unless the user has gone back to those modify made; it applies them in   *)
(* their order, if the user moved none and each that SRC_URI did not name   *)
(* was a new one behind the others and the only one.                        *)
THEOREM UpdatesRoundTrip == DtSpec => []RoundTrip
<1>1. DtInv => RoundTrip
  <2> SUFFICES ASSUME DtInv, synced, ~restored
               PROVE  /\ {[file |-> p, version |-> patchFile[p]] : p \in Named(srcUri)}
                          = {[file |-> c.file, version |-> c.version] : c \in Named(history)}
                      /\ ordered => \A i, j \in 1..Len(srcUri), k, l \in 1..Len(history) :
                           srcUri[i] = history[k].file /\ srcUri[j] = history[l].file
                             => (i < j <=> k < l)
    BY DEF RoundTrip
  <2>1. /\ Named(srcUri) \subseteq Files(history)
        /\ \A k \in 1..Len(history) : InRecipe(k)
    BY DEF DtInv, AgreeInv
  <2>2. \A c \in Named(history) : c.file \in Named(srcUri) /\ patchFile[c.file] = c.version
    BY <2>1 DEF InRecipe, Named
  <2>3. \A p \in Named(srcUri) : \E c \in Named(history) : c.file = p
    BY <2>1 DEF Files, Named
  <2>4. ASSUME ordered, NEW i \in 1..Len(srcUri), NEW j \in 1..Len(srcUri),
               NEW k \in 1..Len(history), NEW l \in 1..Len(history),
               srcUri[i] = history[k].file, srcUri[j] = history[l].file
        PROVE  i < j <=> k < l
    <3>1. i < j => k < l
      BY <2>4 DEF DtInv, OrderInv, InOrder
    <3>2. j < i => l < k
      BY <2>4 DEF DtInv, OrderInv, InOrder
    <3>3. i = j => k = l
      BY <2>4 DEF DtInv, TreeInv, OneEach
    <3> QED BY <3>1, <3>2, <3>3
  <2> QED BY <2>2, <2>3, <2>4
<1> QED BY <1>1, PatchesInvariance, PTL
================================================================================
