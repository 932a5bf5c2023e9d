---------------------------- MODULE WicLayoutProofs ----------------------------
(***************************************************************************)
(* Proofs about WicLayout for every kickstart file: any number of          *)
(* partitions of any size, alignment and offset.                           *)
(***************************************************************************)
EXTENDS WicLayout, FiniteSetTheorems, TLAPS

Past == {"layout", "create", "done", "refused"}

WTypes ==
  /\ wicPc \in Past \cup {"idle", "prepare", "error"}
  /\ table \in Seq(Part) /\ ptable \in {"msdos", "gpt", "gpt-hybrid"}
  /\ this \in Nat
  /\ kB \in [WicParts -> Nat] /\ file \in [WicParts -> Nat]
  /\ start \in [WicParts -> Nat]
  /\ offset \in Nat

(* The first sector the partition table leaves free. *)
Low == IF Gpt THEN GptOverhead ELSE MbrOverhead

Fits(i) == file[i] <= DiskSize(table[i], kB[i])

(* The contents of partitions that are prepared fit. *)
FitInv ==
  \A i \in WicParts : wicPc \in Past \/ (wicPc = "prepare" /\ i < this) => Fits(i)

(* The partitions laid out so far lie one after the other, between the      *)
(* table and the next free sector.                                          *)
InOrder(n, end) ==
  /\ \A i \in WicParts : i < n => Low <= start[i] /\ start[i] + Sectors(i) <= end
  /\ \A i, j \in WicParts : i < j /\ j < n => start[i] + Sectors(i) <= start[j]

OrderInv ==
  /\ wicPc \in {"idle", "prepare"} => offset = 0
  /\ wicPc = "idle" => this = 1
  /\ wicPc = "prepare" => this >= 1
  /\ wicPc = "layout" => this >= 1 /\ InOrder(this, offset)
                         /\ (this = 1 \/ offset >= Low)
  /\ LaidOut => /\ InOrder(Len(table) + 1, offset)
                /\ image = offset + (IF Gpt THEN GptOverhead ELSE 0)

WInv == WTypes /\ FitInv /\ OrderInv

USE WicAssumption DEF SectorSize, MbrOverhead, GptOverhead

(* Rounding up to a unit goes forward. *)
LEMMA RestOfUnit ==
  ASSUME NEW o \in Nat, NEW u \in Nat \ {0}
  PROVE  o % u \in Nat /\ o % u < u
OBVIOUS

(* Kilobytes are two sectors each. *)
LEMMA TwoSectors ==
  ASSUME NEW k \in Nat
  PROVE  (k * 1024) \div 512 = 2 * k
OBVIOUS

(* The partitions of a kickstart file have their types. *)
LEMMA PartType ==
  ASSUME WTypes, NEW i \in WicParts
  PROVE  /\ table[i] \in Part /\ i \in Nat
         /\ table[i].size \in Nat /\ table[i].fixed \in Nat /\ table[i].content \in Nat
         /\ table[i].extra \in Nat /\ table[i].align \in Nat
         /\ table[i].at \in Nat \cup {-1}
         /\ Sectors(i) \in Nat /\ Sectors(i) = 2 * DiskSize(table[i], kB[i])
<1>1. table[i] \in Part /\ i \in Nat
  BY DEF WTypes, WicParts
<1>2. DiskSize(table[i], kB[i]) \in Nat
  BY <1>1 DEF WTypes, Part, DiskSize
<1>3. Sectors(i) \in Nat /\ Sectors(i) = 2 * DiskSize(table[i], kB[i])
  BY <1>2, TwoSectors DEF Sectors
<1> QED BY <1>1, <1>3 DEF Part

(* Rounding up to the alignment, behind the table and the EBR, goes forward.*)
LEMMA AlignedAhead ==
  ASSUME WTypes, NEW i \in WicParts
  PROVE  /\ Ebr(i) \in Nat /\ Ebr(i) >= offset /\ (this = 1 => Ebr(i) >= Low)
         /\ Align(table[i], Ebr(i)) \in Nat
         /\ Aligned(i) \in Nat /\ Aligned(i) = Ebr(i) + Align(table[i], Ebr(i))
<1>1. Ebr(i) \in Nat /\ Ebr(i) >= offset /\ (this = 1 => Ebr(i) >= Low)
  BY DEF Ebr, Overhead, Low, Gpt, Msdos, WTypes
<1>2. Align(table[i], Ebr(i)) \in Nat
  <2>1. (table[i].align * 1024) \div 512 = 2 * table[i].align /\ table[i].align \in Nat
    BY PartType, TwoSectors
  <2>2. CASE table[i].align = 0
    BY <2>2 DEF Align
  <2>3. CASE table[i].align # 0
    <3> DEFINE u == 2 * table[i].align
    <3>1. u \in Nat \ {0}
      BY <2>1, <2>3
    <3>2. Ebr(i) % u \in Nat /\ Ebr(i) % u < u
      BY <1>1, <3>1, RestOfUnit
    <3>3. Align(table[i], Ebr(i)) \in {0, u - (Ebr(i) % u)}
      BY <2>1, <2>3 DEF Align
    <3> HIDE DEF u
    <3> QED BY <3>1, <3>2, <3>3
  <2> QED BY <2>2, <2>3
<1> QED BY <1>1, <1>2 DEF Aligned

(* A partition starts at or behind the next free sector. *)
LEMMA PositionAhead ==
  ASSUME WTypes, NEW i \in WicParts, ~Misplaced(i), i = this
  PROVE  /\ Position(i) \in Nat /\ Position(i) >= offset /\ Position(i) >= Aligned(i)
         /\ this = 1 => Position(i) >= Low
<1>1. Position(i) \in Nat /\ Position(i) >= Aligned(i)
  BY AlignedAhead, PartType DEF Position, Misplaced
<1>2. Low \in Nat /\ offset \in Nat
  BY DEF Low, WTypes
<1> QED BY <1>1, <1>2, AlignedAhead

(* What prepare() makes of a partition fits. *)
LEMMA PreparedFits ==
  ASSUME WTypes, NEW i \in WicParts, NEW r \in Preparations(i)
  PROVE  r[1] \in Nat /\ r[2] \in Nat /\ r[2] <= DiskSize(table[i], r[1])
<1>1. table[i].size \in Nat /\ table[i].fixed \in Nat /\ table[i].content \in Nat
      /\ table[i].extra \in Nat /\ kB[i] \in Nat
  BY PartType DEF WTypes
<1>2. ExtraBlocks(table[i]) \in Nat
  BY <1>1 DEF ExtraBlocks
<1>3. Larger(ExtraBlocks(table[i]), table[i].extra) \in Nat
  BY <1>1, <1>2 DEF Larger
<1>4. RootfsSize(table[i]) \in Nat
  BY <1>1, <1>3, SMTT(20) DEF RootfsSize
<1>5. r[1] \in Nat /\ r[2] \in Nat /\ Prepared(i, r[1], r[2])
  BY <1>1, <1>4 DEF Preparations
<1>6. r[2] <= DiskSize(table[i], r[1])
  BY <1>1, <1>4, <1>5 DEF Prepared, DiskSize, RawSize, Larger
<1> QED BY <1>5, <1>6

(* Nothing is laid out in the initial state. *)
LEMMA InitWInv == WicInit => WInv
<1> SUFFICES ASSUME WicInit PROVE WInv
  OBVIOUS
<1>1. table \in Seq(Part) /\ ptable \in {"msdos", "gpt", "gpt-hybrid"}
  BY DEF WicInit
<1>2. ASSUME NEW i \in WicParts PROVE table[i].size \in Nat
  <2>1. table[i] \in Part
    BY <1>1 DEF WicParts
  <2> QED BY <2>1 DEF Part
<1>3. WTypes
  BY <1>1, <1>2 DEF WicInit, WTypes, Past
<1>4. FitInv /\ OrderInv
  BY DEF WicInit, FitInv, OrderInv, Past, LaidOut
<1> QED BY <1>3, <1>4 DEF WInv

(* Every step preserves WInv. *)
LEMMA NextWInv == WInv /\ [WicNext]_wicVars => WInv'
<1> SUFFICES ASSUME WInv, [WicNext]_wicVars PROVE WInv'
  OBVIOUS
<1> USE DEF WInv, WTypes, FitInv, OrderInv, Past, LaidOut, inputs, contents, counters, places
<1>1. CASE WicStart
  BY <1>1 DEF WicStart, WicParts
<1>2. CASE Prepare
  <2>1. ASSUME this \in WicParts, NEW r \in Preparations(this),
               kB' = [kB EXCEPT ![this] = r[1]], file' = [file EXCEPT ![this] = r[2]],
               this' = this + 1
        PROVE  WInv'
    <3>1. r[1] \in Nat /\ r[2] \in Nat /\ r[2] <= DiskSize(table[this], r[1])
      BY <2>1, PreparedFits
    <3>2. wicPc = "prepare" /\ UNCHANGED <<wicPc, table, ptable, start, offset>>
      BY <1>2, <2>1 DEF Prepare
    <3>3. WTypes'
      BY <2>1, <3>1, <3>2 DEF WicParts
    <3>4. FitInv'
      BY <2>1, <3>1, <3>2, SMTT(20) DEF Fits, DiskSize, WicParts
    <3> QED BY <2>1, <3>2, <3>3, <3>4
  <2>2. CASE wicPc' = "error" /\ UNCHANGED <<this, contents>>
    BY <1>2, <2>2 DEF Prepare, WicParts
  <2>3. CASE this \notin WicParts /\ wicPc' = "layout" /\ this' = 1 /\ UNCHANGED contents
    <3>1. \A i \in WicParts : i < this
      BY <1>2, <2>3 DEF Prepare, WicParts
    <3> QED BY <1>2, <2>3, <3>1 DEF Prepare, WicParts, Fits, InOrder, DiskSize
  <2> QED BY <1>2, <2>1, <2>2, <2>3 DEF Prepare
<1>3. CASE Layout
  <2>1. CASE wicPc' = "error" /\ UNCHANGED <<this, counters, places>>
    BY <1>3, <2>1 DEF Layout, WicParts
  <2>2. ASSUME Place(this), ~Misplaced(this), this' = this + 1, wicPc' = wicPc PROVE WInv'
    <3>1. /\ this \in WicParts /\ wicPc = "layout" /\ this \in Nat
          /\ UNCHANGED <<inputs, contents, image>>
          /\ start' = [start EXCEPT ![this] = Position(this)]
          /\ offset' = Position(this) + Sectors(this)
      BY <1>3, <2>2 DEF Layout, Place
    <3>2. Position(this) \in Nat /\ Position(this) >= offset /\ (this = 1 => Position(this) >= Low)
      BY <2>2, <3>1, PositionAhead
    <3>3. ASSUME NEW i \in WicParts PROVE Sectors(i) \in Nat /\ i \in Nat
      <4>1. WTypes
        OBVIOUS
      <4> QED BY <4>1, PartType
    <3>4. WTypes' /\ FitInv'
      BY <2>2, <3>1, <3>2, <3>3 DEF WicParts, Fits, DiskSize
    <3>5. Low' = Low /\ WicParts' = WicParts /\ \A i \in WicParts : Sectors(i)' = Sectors(i)
      BY <3>1 DEF Low, Gpt, WicParts, Sectors, DiskSize
    <3>6. Position(this) >= Low /\ offset' >= Low /\ offset' >= offset
      BY <3>1, <3>2, <3>3 DEF Low
    <3>7. ASSUME NEW i \in WicParts, i < this + 1
          PROVE  Low <= start'[i] /\ start'[i] + Sectors(i) <= offset'
      <4>1. CASE i = this
        BY <3>1, <3>2, <3>3, <3>6, <4>1
      <4>2. CASE i # this
        <5>1. i < this /\ start'[i] = start[i] /\ Sectors(i) \in Nat /\ start[i] \in Nat
          BY <3>1, <3>3, <3>7, <4>2
        <5>2. Low <= start[i] /\ start[i] + Sectors(i) <= offset
          BY <3>1, <5>1 DEF InOrder
        <5>3. offset <= offset' /\ offset \in Nat /\ offset' \in Nat
          BY <3>1, <3>2, <3>3, <3>6
        <5> QED BY <5>1, <5>2, <5>3
      <4> QED BY <4>1, <4>2
    <3>8. ASSUME NEW i \in WicParts, NEW j \in WicParts, i < j, j < this + 1
          PROVE  start'[i] + Sectors(i) <= start'[j]
      <4>1. i < this /\ start'[i] = start[i] /\ Sectors(i) \in Nat /\ start[i] \in Nat
        <5>1. i \in Nat /\ j \in Nat /\ Sectors(i) \in Nat /\ i < this
          BY <3>1, <3>3, <3>8
        <5>2. start[i] \in Nat /\ start'[i] = start[i]
          BY <3>1, <5>1
        <5> QED BY <5>1, <5>2
      <4>2. CASE j = this
        <5>1. start[i] + Sectors(i) <= offset
          BY <3>1, <4>1 DEF InOrder
        <5> QED BY <3>1, <3>2, <4>1, <4>2, <5>1
      <4>3. CASE j # this
        <5>1. j < this /\ start'[j] = start[j]
          BY <3>1, <3>3, <3>8, <4>3
        <5> QED BY <3>1, <3>8, <4>1, <5>1 DEF InOrder
      <4> QED BY <4>2, <4>3
    <3>9. InOrder(this, offset)'
      <4> HIDE DEF WInv, WTypes, FitInv, OrderInv
      <4> QED BY <2>2, <3>5, <3>7, <3>8 DEF InOrder
    <3> QED BY <2>2, <3>1, <3>4, <3>5, <3>6, <3>9
  <2> QED BY <1>3, <2>1, <2>2 DEF Layout
<1>4. CASE MakeDisk
  <2>1. \A i \in WicParts : i \in Nat /\ i < this
    BY <1>4 DEF MakeDisk, WicParts
  <2>2. UNCHANGED <<ptable, table, kB, file, start, offset>> /\ wicPc = "layout"
        /\ wicPc' = "create" /\ this' = 1
        /\ image' = offset + (IF Gpt THEN GptOverhead ELSE 0)
    BY <1>4 DEF MakeDisk
  <2>3. InOrder(Len(table) + 1, offset)
    BY <2>1, <2>2 DEF InOrder
  <2> QED BY <2>2, <2>3 DEF InOrder, Low, Gpt, WicParts, Sectors, DiskSize, Fits
<1>5. CASE Create
  <2>1. wicPc = "create" /\ wicPc' \in {"create", "error", "refused"}
        /\ UNCHANGED <<ptable, table, kB, file, start, offset, image>> /\ this' \in Nat
    BY <1>5 DEF Create
  <2> QED BY <2>1 DEF InOrder, Low, Gpt, WicParts, Sectors, DiskSize, Fits
<1>6. CASE Protect
  BY <1>6 DEF Protect, InOrder, Low, Gpt, WicParts, Sectors, DiskSize, Fits
<1>7. CASE UNCHANGED wicVars
  BY <1>7 DEF wicVars, InOrder, Low, Gpt, WicParts, Sectors, DiskSize, Fits
<1> QED BY <1>1, <1>2, <1>3, <1>4, <1>5, <1>6, <1>7 DEF WicNext

(* WInv holds in every reachable state. *)
THEOREM LayoutInvariance == WicSpec => []WInv
<1> QED BY InitWInv, NextWInv, PTL DEF WicSpec

(* No two partitions of a finished layout share a sector, and none has a    *)
(* sector of the partition table.                                           *)
THEOREM PartitionsDisjoint == WicSpec => []WicDisjoint
<1>1. WInv => WicDisjoint
  <2> SUFFICES ASSUME WInv, LaidOut PROVE WicDisjoint
    BY DEF WicDisjoint
  <2>1. \A i \in WicParts : i \in Nat /\ i < Len(table) + 1 /\ Sectors(i) \in Nat
    BY PartType DEF WInv, WTypes, WicParts
  <2> QED BY <2>1 DEF WInv, WTypes, OrderInv, InOrder, Low, WicDisjoint
<1> QED BY <1>1, LayoutInvariance, PTL

(* What is copied into a partition stays inside it. *)
THEOREM ContentsFit == WicSpec => []ContentFits
<1>1. WInv => ContentFits
  <2> SUFFICES ASSUME WInv, LaidOut, NEW i \in WicParts PROVE Copied(i) \subseteq Own(i)
    BY DEF ContentFits
  <2>1. file[i] \in Nat /\ start[i] \in Nat /\ file[i] <= DiskSize(table[i], kB[i])
    BY DEF WInv, WTypes, FitInv, Fits, LaidOut, Past
  <2>2. (file[i] * 1024) \div 512 = 2 * file[i]
    BY <2>1, TwoSectors
  <2>3. Sectors(i) \in Nat /\ Sectors(i) = 2 * DiskSize(table[i], kB[i])
    BY PartType DEF WInv
  <2>4. DiskSize(table[i], kB[i]) \in Nat
    BY PartType DEF WInv, WTypes, DiskSize
  <2> DEFINE d == DiskSize(table[i], kB[i])
  <2>5. Copied(i) = start[i]..(start[i] + 2 * file[i] - 1)
    BY <2>2 DEF Copied
  <2>6. Own(i) = start[i]..(start[i] + 2 * d - 1)
    BY <2>3 DEF Own
  <2> HIDE DEF d
  <2>7. d \in Nat /\ file[i] <= d
    BY <2>1, <2>4 DEF d
  <2> QED BY <2>1, <2>5, <2>6, <2>7
<1> QED BY <1>1, LayoutInvariance, PTL
-----------------------------------------------------------------------------
(***************************************************************************)
(* The numbers partitions have in the table.                               *)
(***************************************************************************)
CountTypes ==
  /\ type \in [WicParts -> {"primary", "logical"}]
  /\ num \in [WicParts -> Nat]
  /\ primaries \in Nat /\ logicals \in Nat /\ extendedPart \in Nat /\ extendedSize \in Nat

NoneAsked == \A i \in WicParts : ~table[i].logical

(* With n - 1 partitions placed, wic has made the extended partition in the *)
(* place of the fourth primary one, if there are more than four.           *)
Named(n) ==
  NoneAsked =>
    /\ \A i \in WicParts : IF i < n THEN num[i] = RealNum(i) ELSE type[i] = "primary"
    /\ Msdos =>
         IF RealAmong(n - 1) <= 3 \/ NumReal <= 4
         THEN primaries = RealAmong(n - 1) /\ extendedPart = 0 /\ logicals = 0
         ELSE primaries = 4 /\ logicals = RealAmong(n - 1) - 3 /\ extendedPart = 5

Counted ==
  /\ CountTypes
  /\ wicPc \in {"idle", "prepare"} =>
       /\ num = [i \in WicParts |-> 0]
       /\ type = [i \in WicParts |-> IF table[i].logical THEN "logical" ELSE "primary"]
       /\ primaries = 0 /\ logicals = 0 /\ extendedPart = 0 /\ extendedSize = 0
  /\ wicPc = "layout" => Named(this) /\ this <= Len(table) + 1
  /\ LaidOut => Named(Len(table) + 1)

(* How many partitions of the first n are in the table. *)
LEMMA RealCount ==
  ASSUME WTypes
  PROVE  /\ RealAmong(0) = 0 /\ NumReal \in Nat
         /\ \A n \in 0..Len(table) : RealAmong(n) \in Nat /\ RealAmong(n) <= NumReal
         /\ \A n \in WicParts :
              RealAmong(n) = RealAmong(n - 1) + (IF table[n].noTable THEN 0 ELSE 1)
<1> DEFINE R(n) == {i \in 1..n : ~table[i].noTable}
<1>1. Len(table) \in Nat
  BY DEF WTypes
<1>2. ASSUME NEW n \in Nat PROVE IsFiniteSet(R(n)) /\ Cardinality(R(n)) \in Nat
  <2>1. IsFiniteSet(1..n) /\ R(n) \subseteq 1..n
    BY FS_Interval
  <2> QED BY <2>1, FS_Subset, FS_CardinalityType
<1>3. \A n \in Nat : RealAmong(n) = Cardinality(R(n))
  BY DEF RealAmong
<1> HIDE DEF R
<1>4. RealAmong(0) = 0
  <2>1. R(0) = {}
    BY DEF R
  <2> QED BY <2>1, <1>3, FS_EmptySet
<1>5. ASSUME NEW n \in 0..Len(table) PROVE RealAmong(n) \in Nat /\ RealAmong(n) <= NumReal
  <2>1. n \in Nat /\ R(n) \subseteq R(Len(table))
    BY <1>1 DEF R
  <2>2. Cardinality(R(n)) <= Cardinality(R(Len(table)))
    BY <1>1, <1>2, <2>1, FS_Subset
  <2> QED BY <1>1, <1>2, <1>3, <2>1, <2>2 DEF NumReal
<1>6. ASSUME NEW n \in WicParts
      PROVE  RealAmong(n) = RealAmong(n - 1) + (IF table[n].noTable THEN 0 ELSE 1)
  <2>1. n \in Nat /\ n - 1 \in Nat
    BY <1>1 DEF WicParts
  <2>2. CASE table[n].noTable
    <3>1. R(n) = R(n - 1)
      <4>1. ASSUME NEW i \in R(n) PROVE i \in R(n - 1)
        BY <2>1, <2>2, <4>1 DEF R
      <4>2. ASSUME NEW i \in R(n - 1) PROVE i \in R(n)
        BY <2>1, <2>2, <4>2 DEF R
      <4> QED BY <4>1, <4>2
    <3> QED BY <1>2, <1>3, <2>1, <2>2, <3>1
  <2>3. CASE ~table[n].noTable
    <3>1. R(n) = R(n - 1) \cup {n} /\ n \notin R(n - 1)
      BY <2>1, <2>3 DEF R
    <3>2. Cardinality(R(n - 1) \cup {n}) = Cardinality(R(n - 1)) + 1
      BY <1>2, <2>1, <3>1, FS_AddElement
    <3> QED BY <1>3, <2>1, <2>3, <3>1, <3>2
  <2> QED BY <2>2, <2>3
<1>7. NumReal \in Nat
  BY <1>1, <1>5 DEF NumReal
<1> QED BY <1>4, <1>5, <1>6, <1>7

(* No partition has a number in the initial state. *)
LEMMA InitCounted == WicInit => Counted
<1> SUFFICES ASSUME WicInit PROVE Counted
  OBVIOUS
<1> QED BY DEF WicInit, Counted, CountTypes, LaidOut

(* Placing a partition keeps the numbers within their types. *)
LEMMA PlaceTypes ==
  ASSUME WTypes, CountTypes, this \in WicParts, Place(this), UNCHANGED <<inputs, contents>>
  PROVE  CountTypes'
<1>1. Sectors(this) \in Nat /\ Align(table[this], Ebr(this)) \in Nat /\ Len(table) \in Nat
  <2>1. Sectors(this) \in Nat
    BY PartType
  <2>2. Align(table[this], Ebr(this)) \in Nat
    BY AlignedAhead
  <2> QED BY <2>1, <2>2 DEF WTypes
<1>2. RealAmong(this) \in Nat
  BY <1>1, RealCount DEF WicParts
<1>3. WicParts' = WicParts
  BY DEF WicParts, inputs
<1>4. type' \in [WicParts -> {"primary", "logical"}]
  BY DEF Place, CountTypes
<1>5. /\ num' \in [WicParts -> Nat] /\ primaries' \in Nat /\ logicals' \in Nat
      /\ extendedPart' \in Nat /\ extendedSize' \in Nat
  <2>1. CASE table[this].noTable
    BY <2>1 DEF Place, CountTypes, Number
  <2>2. CASE ~table[this].noTable /\ ~Msdos
    BY <1>2, <2>2 DEF Place, CountTypes, Number
  <2>3. CASE ~table[this].noTable /\ Msdos /\ Logical(this)
    <3> DEFINE s == Sectors(this)
               a == Align(table[this], Ebr(this))
    <3>1. /\ num' = [num EXCEPT ![this] = logicals + 5] /\ logicals' = logicals + 1
          /\ primaries' = primaries + (IF extendedPart = 0 THEN 1 ELSE 0)
          /\ extendedPart' = IF extendedPart = 0 THEN num'[this] ELSE extendedPart
          /\ extendedSize' = extendedSize + s + 2 + (IF extendedPart = 0 THEN 0 ELSE a)
      BY <2>3 DEF Place, Number
    <3>2. s \in Nat /\ a \in Nat
      BY <1>1
    <3> HIDE DEF s, a
    <3>3. num'[this] \in Nat
      BY <3>1 DEF CountTypes
    <3> QED BY <3>1, <3>2, <3>3 DEF CountTypes
  <2>4. CASE ~table[this].noTable /\ Msdos /\ ~Logical(this)
    BY <2>4 DEF Place, CountTypes, Number
  <2> QED BY <2>1, <2>2, <2>3, <2>4
<1> QED BY <1>3, <1>4, <1>5 DEF CountTypes

(* The next partition gets the number that was written into fstab.          *)
LEMMA PlaceNamed ==
  ASSUME WTypes, CountTypes, this \in WicParts, Named(this), Place(this), NoneAsked
  PROVE  /\ \A i \in WicParts : IF i < this + 1 THEN num'[i] = RealNum(i) ELSE type'[i] = "primary"
         /\ Msdos =>
              IF RealAmong(this) <= 3 \/ NumReal <= 4
              THEN primaries' = RealAmong(this) /\ extendedPart' = 0 /\ logicals' = 0
              ELSE primaries' = 4 /\ logicals' = RealAmong(this) - 3 /\ extendedPart' = 5
<1> DEFINE r == RealAmong(this)
           q == RealAmong(this - 1)
<1>1. /\ this \in Nat /\ Len(table) \in Nat /\ type[this] = "primary"
      /\ \A i \in WicParts : i \in Nat
  BY DEF Named, WTypes, WicParts
<1>2. /\ r \in Nat /\ q \in Nat /\ NumReal \in Nat /\ r <= NumReal
      /\ r = q + (IF table[this].noTable THEN 0 ELSE 1)
  BY <1>1, RealCount DEF WicParts
<1>3. Msdos =>
        IF q <= 3 \/ NumReal <= 4
        THEN primaries = q /\ extendedPart = 0 /\ logicals = 0
        ELSE primaries = 4 /\ logicals = q - 3 /\ extendedPart = 5
  BY DEF Named
<1>4. Logical(this) <=>
        Msdos /\ (primaries > 3 \/ (extendedPart = 0 /\ primaries >= 3 /\ NumReal > 4))
  BY <1>1 DEF Logical
<1>5. RealNum(this) = IF table[this].noTable THEN 0
                      ELSE IF Msdos /\ r > 3 /\ NumReal > 4 THEN r + 1 ELSE r
  BY DEF RealNum
<1> HIDE DEF r, q
<1>6. /\ num'[this] = RealNum(this)
      /\ Msdos =>
           IF r <= 3 \/ NumReal <= 4
           THEN primaries' = r /\ extendedPart' = 0 /\ logicals' = 0
           ELSE primaries' = 4 /\ logicals' = r - 3 /\ extendedPart' = 5
  <2>1. CASE table[this].noTable
    BY <1>2, <1>3, <1>5, <2>1 DEF Place, Number, CountTypes
  <2>2. CASE ~table[this].noTable /\ ~Msdos
    BY <1>2, <1>5, <2>2 DEF Place, Number, CountTypes, r
  <2>3. CASE ~table[this].noTable /\ Msdos
    <3>1. r = q + 1
      BY <1>2, <2>3
    <3>2. CASE Logical(this)
      BY <1>2, <1>3, <1>4, <1>5, <2>3, <3>1, <3>2 DEF Place, Number, CountTypes
    <3>3. CASE ~Logical(this)
      BY <1>2, <1>3, <1>4, <1>5, <2>3, <3>1, <3>3 DEF Place, Number, CountTypes
    <3> QED BY <3>2, <3>3
  <2> QED BY <2>1, <2>2, <2>3
<1>7. ASSUME NEW i \in WicParts, i # this
      PROVE  /\ num'[i] = num[i] /\ type'[i] = type[i]
             /\ IF i < this THEN num[i] = RealNum(i) ELSE type[i] = "primary"
  BY <1>7 DEF Place, Number, CountTypes, Named
<1>8. ASSUME NEW i \in WicParts
      PROVE  IF i < this + 1 THEN num'[i] = RealNum(i) ELSE type'[i] = "primary"
  <2>1. i \in Nat /\ this \in Nat
    BY <1>1
  <2>2. CASE i = this
    BY <1>6, <2>1, <2>2
  <2>3. CASE i # this
    BY <1>7, <2>1, <2>3
  <2> QED BY <2>2, <2>3
<1> QED BY <1>6, <1>8 DEF r

(* Every step preserves Counted. *)
LEMMA NextCounted == WInv /\ Counted /\ [WicNext]_wicVars => Counted'
<1> SUFFICES ASSUME WInv, Counted, [WicNext]_wicVars PROVE Counted'
  OBVIOUS
<1>0. WTypes /\ Len(table) \in Nat
  BY DEF WInv, WTypes
<1>1. ASSUME UNCHANGED <<inputs, counters, places>>,
             LaidOut' => LaidOut,
             wicPc' = "layout" => this' = 1 /\ wicPc \in {"idle", "prepare"},
             wicPc' \in {"idle", "prepare"} => wicPc \in {"idle", "prepare"}
      PROVE  Counted'
  <2>1. CountTypes' /\ WicParts' = WicParts
    BY <1>1 DEF Counted, CountTypes, WicParts, inputs, counters, places
  <2>2. wicPc' = "layout" => Named(1)
    BY <1>0, <1>1, RealCount DEF Counted, Named, NoneAsked, WicParts
  <2>3. \A n : Named(n) => Named(n)'
    BY <1>1 DEF Named, NoneAsked, RealNum, RealAmong, NumReal, Msdos, WicParts, inputs, counters, places
  <2> QED BY <1>0, <1>1, <2>1, <2>2, <2>3 DEF Counted, inputs, counters, places, WicParts
<1>2. CASE WicStart
  BY <1>1, <1>2 DEF WicStart, LaidOut
<1>3. CASE Prepare
  BY <1>1, <1>3 DEF Prepare, LaidOut
<1>4. CASE Layout
  <2>1. this \in WicParts /\ wicPc = "layout" /\ UNCHANGED <<inputs, contents>>
    BY <1>4 DEF Layout
  <2>2. CASE wicPc' = "error" /\ UNCHANGED <<this, counters, places>>
    BY <1>1, <2>1, <2>2 DEF LaidOut
  <2>3. CASE Place(this) /\ this' = this + 1 /\ UNCHANGED wicPc
    <3>1. CountTypes' /\ Named(this)
      BY <1>0, <2>1, <2>3, PlaceTypes DEF Counted
    <3>2. NoneAsked' = NoneAsked /\ Msdos' = Msdos /\ WicParts' = WicParts /\ NumReal' = NumReal
          /\ (\A i : RealNum(i)' = RealNum(i)) /\ (\A n : RealAmong(n)' = RealAmong(n))
      BY <2>1 DEF NoneAsked, Msdos, WicParts, NumReal, RealNum, RealAmong, inputs
    <3>3. this' - 1 = this /\ this' <= Len(table)' + 1
      BY <1>0, <2>1, <2>3 DEF WTypes, WicParts, inputs
    <3>4. NoneAsked => Named(this)'
      BY <1>0, <2>1, <2>3, <3>1, <3>2, <3>3, PlaceNamed DEF Named, Counted
    <3>5. Named(this)'
      BY <3>2, <3>4 DEF Named
    <3> QED BY <2>1, <2>3, <3>1, <3>3, <3>5 DEF Counted, LaidOut
  <2> QED BY <1>4, <2>2, <2>3 DEF Layout
<1>5. CASE MakeDisk
  <2>1. this = Len(table) + 1
    BY <1>0, <1>5 DEF MakeDisk, Counted, WInv, WTypes, OrderInv, WicParts
  <2>2. Named(Len(table) + 1)
    BY <1>5, <2>1 DEF MakeDisk, Counted
  <2>3. (Named(Len(table) + 1))'
    BY <1>5, <2>2 DEF MakeDisk, Named, NoneAsked, RealNum, RealAmong, NumReal, Msdos, WicParts,
                      inputs, counters, places
  <2> QED BY <1>5, <2>3 DEF MakeDisk, Counted, CountTypes, WicParts, inputs, counters, places, LaidOut
<1>6. CASE Create
  BY <1>1, <1>6 DEF Create, LaidOut
<1>7. CASE Protect
  BY <1>1, <1>7 DEF Protect, LaidOut
<1>8. CASE UNCHANGED wicVars
  <2>1. UNCHANGED <<inputs, counters, places, this, wicPc>>
    BY <1>8 DEF wicVars, inputs, counters, places
  <2>2. \A n : Named(n) => Named(n)'
    BY <2>1 DEF Named, NoneAsked, RealNum, RealAmong, NumReal, Msdos, WicParts, inputs, counters, places
  <2> QED BY <2>1, <2>2 DEF Counted, CountTypes, LaidOut, WicParts, inputs, counters, places
<1> QED BY <1>2, <1>3, <1>4, <1>5, <1>6, <1>7, <1>8 DEF WicNext

(* Counted holds in every reachable state. *)
LEMMA CountInvariance == WicSpec => []Counted
<1> QED BY InitCounted, NextCounted, LayoutInvariance, PTL DEF WicSpec

(* fstab and the kernel's command line name the devices the partitions get. *)
THEOREM DevicesKeepTheirNames == WicSpec => []DeviceNamesHold
<1>1. WInv /\ Counted => DeviceNamesHold
  BY DEF Counted, Named, NoneAsked, DeviceNamesHold, WInv, WTypes, WicParts
<1> QED BY <1>1, LayoutInvariance, CountInvariance, PTL

-----------------------------------------------------------------------------
(***************************************************************************)
(* The extended partition and what parted has made.                        *)
(***************************************************************************)
RealLogical(i) == ~table[i].noTable /\ type[i] = "logical"
RealPrimary(i) == ~table[i].noTable /\ type[i] = "primary"
End(i) == start[i] + Sectors(i)

(* The sector behind the extended partition, if it is made for x. *)
ExtEnd(x) == start[x] - 2 + extendedSize

(* Between x and n the extended partition counts every sector. *)
NoGap(x, n) ==
  \A j \in WicParts : x < j /\ j < n => RealLogical(j) /\ table[j].at = -1

(* x is the first logical partition of those before n. *)
First(x, n) ==
  /\ RealLogical(x) /\ num[x] = 5
  /\ start[x] >= 3
  /\ End(x) <= ExtEnd(x) /\ ExtEnd(x) <= offset
  /\ \A j \in WicParts : j < x => ~RealLogical(j) /\ End(j) + 2 <= start[x]
  /\ \A j \in WicParts : x < j /\ j < n /\ RealLogical(j) => num[j] > 5
  /\ NoGap(x, n) => ExtEnd(x) = offset
  /\ \A k \in WicParts : x < k /\ k < n /\ RealLogical(k) /\ NoGap(x, k + 1) => End(k) <= ExtEnd(x)
  /\ \A p \in WicParts : x < p /\ p < n /\ RealPrimary(p) /\ start[p] < ExtEnd(x) =>
       \E k \in WicParts : p < k /\ k < n /\ RealLogical(k)

Extended(n) ==
  Msdos =>
    /\ \A i \in WicParts : i < n =>
         /\ table[i].noTable => num[i] = 0
         /\ RealPrimary(i) => num[i] \in 1..4
         /\ RealLogical(i) => num[i] >= 5
    /\ extendedPart = 0 =>
         logicals = 0 /\ extendedSize = 0 /\ \A i \in WicParts : i < n => ~RealLogical(i)
    /\ extendedPart # 0 =>
         extendedPart = 5 /\ logicals >= 1 /\ \E x \in WicParts : x < n /\ First(x, n)

(* The regions of the partitions before n. *)
Made(n) ==
  /\ \A r \in regions :
       \/ \E j \in WicParts : j < n /\ num[j] # 0 /\ r = Region(type[j], start[j], Sectors(j))
       \/ \E x \in WicParts : /\ x < n /\ num[x] # 0 /\ num[x] = extendedPart /\ Msdos
                              /\ r = Region("extended", start[x] - 2, extendedSize)
  /\ \A x \in WicParts : x < n /\ num[x] # 0 /\ num[x] = extendedPart /\ Msdos =>
       Region("extended", start[x] - 2, extendedSize) \in regions

AcceptInv ==
  /\ wicPc = "layout" => Extended(this)
  /\ LaidOut => Extended(Len(table) + 1)
  /\ wicPc \in {"idle", "prepare", "layout"} => regions = {}
  /\ wicPc = "create" => Made(this) /\ this >= 1
  /\ LayoutAccepted

(* Two regions one behind the other do not meet. *)
LEMMA Behind ==
  ASSUME NEW k, NEW f \in Int, NEW n \in Int, NEW l, NEW g \in Int, NEW m \in Int, g + m <= f
  PROVE  ~Meet(Region(k, f, n), Region(l, g, m))
BY DEF Meet, Region

(* What Extended and Made say does not change with what they do not mention.*)
LEMMA ExtendedFrame ==
  ASSUME UNCHANGED <<inputs, contents, counters, places>>
  PROVE  \A n : Extended(n)' = Extended(n)
<1> USE DEF inputs, contents, counters, places
<1>1. /\ WicParts' = WicParts /\ Msdos' = Msdos
      /\ \A i : /\ RealLogical(i)' = RealLogical(i) /\ RealPrimary(i)' = RealPrimary(i)
                /\ Sectors(i)' = Sectors(i) /\ End(i)' = End(i) /\ ExtEnd(i)' = ExtEnd(i)
  BY DEF WicParts, Msdos, RealLogical, RealPrimary, End, ExtEnd, Sectors, DiskSize
<1>2. \A x, n : NoGap(x, n)' = NoGap(x, n)
  BY <1>1 DEF NoGap
<1>3. \A x, n : First(x, n)' = First(x, n)
  BY <1>1, <1>2 DEF First
<1> QED BY <1>1, <1>3 DEF Extended

(* Placing one more partition, in the sectors behind the others, keeps what *)
(* the extended partition must hold.                                        *)
LEMMA PlaceExtended ==
  ASSUME WInv, CountTypes, wicPc = "layout", NEW n \in WicParts, n = this, Extended(n), Msdos,
         ~Misplaced(n), Place(n), UNCHANGED <<inputs, contents>>
  PROVE  Extended(n + 1)'
<1> DEFINE P == Position(n)
           S == Sectors(n)
           a == Align(table[n], Ebr(n))
           log == Logical(n)
<1>1. WTypes /\ n \in Nat /\ Len(table) \in Nat /\ offset \in Nat /\ \A i \in WicParts : i \in Nat
  BY DEF WInv, WTypes, WicParts
<1>2. S \in Nat /\ a \in Nat /\ P \in Nat /\ P >= Aligned(n) /\ Aligned(n) = Ebr(n) + a
      /\ Ebr(n) \in Nat
  BY <1>1, PartType, AlignedAhead, PositionAhead
<1>3. /\ P >= offset + a
      /\ log => P >= offset + 2 + a
      /\ log => P >= 3
      /\ log /\ n # 1 /\ table[n].at = -1 => P = offset + 2 + a
  <2>1. Ebr(n) = offset + Overhead + (IF log THEN 2 ELSE 0)
    BY DEF Ebr
  <2>2. Overhead \in Nat /\ (n = 1 => Overhead = 1) /\ (n # 1 => Overhead = 0)
    BY DEF Overhead
  <2>3. n = 1 \/ offset >= 1
    BY DEF WInv, OrderInv, Low, Gpt, Msdos
  <2>4. table[n].at = -1 => P = Aligned(n)
    BY DEF Position
  <2> HIDE DEF P, S, a, log
  <2> QED BY <1>1, <1>2, <2>1, <2>2, <2>3, <2>4
<1>4. /\ start' = [start EXCEPT ![n] = P] /\ offset' = P + S
      /\ type' = [type EXCEPT ![n] = IF log THEN "logical" ELSE @]
      /\ start \in [WicParts -> Nat] /\ type \in [WicParts -> {"primary", "logical"}]
      /\ num \in [WicParts -> Nat]
      /\ primaries \in Nat /\ logicals \in Nat /\ extendedPart \in Nat /\ extendedSize \in Nat
  BY <1>1 DEF Place, CountTypes, WTypes
<1>5. ~log => type[n] = "primary" /\ primaries <= 3
  BY <1>4 DEF Logical
<1>6. /\ WicParts' = WicParts /\ Msdos' /\ table' = table
      /\ \A i : Sectors(i)' = Sectors(i)
      /\ \A i \in WicParts : Sectors(i) \in Nat /\ start[i] \in Nat
  <2>1. WicParts' = WicParts /\ Msdos' /\ table' = table /\ \A i : Sectors(i)' = Sectors(i)
    BY DEF WicParts, Msdos, Sectors, DiskSize, inputs, contents
  <2>2. \A i \in WicParts : Sectors(i) \in Nat
    BY <1>1, PartType
  <2> QED BY <1>4, <2>1, <2>2
<1>7. ASSUME NEW i \in WicParts, i # n
      PROVE  /\ start'[i] = start[i] /\ num'[i] = num[i] /\ RealLogical(i)' = RealLogical(i)
             /\ RealPrimary(i)' = RealPrimary(i) /\ End(i)' = End(i)
  BY <1>4, <1>6, <1>7 DEF Place, Number, RealLogical, RealPrimary, End
<1>8. /\ start'[n] = P /\ End(n)' = P + S
      /\ RealLogical(n)' <=> ~table[n].noTable /\ log
      /\ RealPrimary(n)' <=> ~table[n].noTable /\ ~log
  <2>1. start'[n] = P /\ End(n)' = P + S
    BY <1>4, <1>6 DEF End
  <2>2. type'[n] = IF log THEN "logical" ELSE "primary"
    BY <1>4, <1>5
  <2> QED BY <1>6, <2>1, <2>2 DEF RealLogical, RealPrimary
<1>9. ASSUME NEW i \in WicParts, i < n PROVE End(i) <= offset /\ End(i) \in Nat /\ start[i] <= End(i)
  <2>1. start[i] + Sectors(i) <= offset
    BY <1>9 DEF WInv, OrderInv, InOrder
  <2> QED BY <2>1, <1>6 DEF End
<1>10. ExtEnd(n) \in Int /\ \A x \in WicParts : ExtEnd(x) \in Int /\ End(x) \in Nat
  BY <1>4, <1>6 DEF ExtEnd, End
<1> HIDE DEF P, S, a, log
<1>11. CASE table[n].noTable \/ ~log
  <2>1. /\ UNCHANGED <<logicals, extendedPart, extendedSize>>
        /\ table[n].noTable => num'[n] = 0
        /\ ~table[n].noTable => num'[n] \in 1..4
    BY <1>4, <1>5, <1>11 DEF Place, Number
  <2>2. offset' >= offset /\ P >= offset
    BY <1>1, <1>2, <1>3, <1>4
  <2>3. ~RealLogical(n)'
    BY <1>8, <1>11
  <2>4. \A i \in WicParts : i < n + 1 =>
          /\ table'[i].noTable => num'[i] = 0
          /\ RealPrimary(i)' => num'[i] \in 1..4
          /\ RealLogical(i)' => num'[i] >= 5
    BY <1>1, <1>6, <1>7, <1>8, <2>1, <2>3 DEF Extended
  <2>5. extendedPart' = 0 =>
          logicals' = 0 /\ extendedSize' = 0 /\ \A i \in WicParts : i < n + 1 => ~RealLogical(i)'
    BY <1>1, <1>7, <2>1, <2>3 DEF Extended
  <2>6. ASSUME extendedPart # 0
        PROVE  extendedPart' = 5 /\ logicals' >= 1 /\ \E x \in WicParts : x < n + 1 /\ First(x, n + 1)'
    <3>1. PICK x \in WicParts : x < n /\ First(x, n)
      BY <2>6 DEF Extended
    <3>2. x # n /\ x < n + 1 /\ x \in Nat
      BY <1>1, <3>1
    <3>3. ExtEnd(x)' = ExtEnd(x)
      BY <1>7, <2>1, <3>2 DEF ExtEnd
    <3>4. /\ RealLogical(x)' /\ num'[x] = 5 /\ start'[x] >= 3
          /\ End(x)' <= ExtEnd(x)' /\ ExtEnd(x)' <= offset'
      <4>1. End(x) <= ExtEnd(x) /\ ExtEnd(x) <= offset /\ ExtEnd(x) \in Int
        BY <1>10, <3>1 DEF First
      <4>2. ExtEnd(x) <= offset'
        <5>1. offset \in Nat /\ offset' \in Nat
          BY <1>1, <1>2, <1>4
        <5> QED BY <2>2, <4>1, <5>1
      <4>3. End(x)' = End(x) /\ RealLogical(x) /\ num[x] = 5 /\ start[x] >= 3
        BY <1>7, <3>1, <3>2 DEF First
      <4> QED BY <1>7, <3>2, <3>3, <4>1, <4>2, <4>3
    <3>5. \A j \in WicParts : j < x => ~RealLogical(j)' /\ End(j)' + 2 <= start'[x]
      <4> SUFFICES ASSUME NEW j \in WicParts, j < x PROVE ~RealLogical(j)' /\ End(j)' + 2 <= start'[x]
        OBVIOUS
      <4>1. j # n
        BY <1>1, <3>1
      <4> QED BY <1>7, <3>1, <3>2, <4>1 DEF First
    <3>6. \A j \in WicParts : x < j /\ j < n + 1 /\ RealLogical(j)' => num'[j] > 5
      BY <1>1, <1>7, <2>3, <3>1 DEF First
    <3>7. ~NoGap(x, n + 1)'
      BY <1>1, <1>6, <2>3, <3>1 DEF NoGap
    <3>8. ASSUME NEW k \in WicParts, x < k, k < n + 1, RealLogical(k)', NoGap(x, k + 1)'
          PROVE  End(k)' <= ExtEnd(x)'
      <4>1. k # n /\ k < n /\ k \in Nat
        BY <1>1, <2>3, <3>8
      <4>2. NoGap(x, k + 1)
        BY <1>1, <1>6, <1>7, <3>8, <4>1 DEF NoGap
      <4> QED BY <1>7, <3>1, <3>3, <3>8, <4>1, <4>2 DEF First
    <3>9. ASSUME NEW q \in WicParts, x < q, q < n + 1, RealPrimary(q)', start'[q] < ExtEnd(x)'
          PROVE  \E k \in WicParts : q < k /\ k < n + 1 /\ RealLogical(k)'
      <4>1. q # n
        BY <1>1, <1>2, <1>8, <1>10, <2>2, <3>1, <3>3, <3>9 DEF First
      <4>2. q < n /\ RealPrimary(q) /\ start[q] < ExtEnd(x)
        BY <1>1, <1>7, <3>3, <3>9, <4>1
      <4>3. PICK k \in WicParts : q < k /\ k < n /\ RealLogical(k)
        BY <3>1, <3>9, <4>2 DEF First
      <4>4. k # n /\ k < n + 1
        BY <1>1, <4>3
      <4> QED BY <1>7, <4>3, <4>4
    <3>10. First(x, n + 1)'
      BY <1>6, <3>4, <3>5, <3>6, <3>7, <3>8, <3>9 DEF First
    <3> QED BY <2>1, <2>6, <3>2, <3>10 DEF Extended
  <2> QED BY <1>6, <2>1, <2>4, <2>5, <2>6 DEF Extended
<1>12. CASE ~table[n].noTable /\ log /\ extendedPart = 0
  <2>1. /\ logicals = 0 /\ extendedSize = 0 /\ \A i \in WicParts : i < n => ~RealLogical(i)
    BY <1>12 DEF Extended
  <2>2. /\ num' = [num EXCEPT ![n] = 5] /\ logicals' = 1 /\ extendedPart' = 5
        /\ extendedSize' = S + 2
    BY <1>2, <1>4, <1>12, <2>1 DEF Place, Number, S, log
  <2>3. RealLogical(n)' /\ ~RealPrimary(n)' /\ num'[n] = 5
    BY <1>4, <1>8, <1>12, <2>2
  <2>4. ExtEnd(n)' = offset' /\ End(n)' = offset' /\ offset' \in Nat
    BY <1>2, <1>4, <1>8, <2>2 DEF ExtEnd
  <2>5. \A i \in WicParts : i < n + 1 =>
          /\ table'[i].noTable => num'[i] = 0
          /\ RealPrimary(i)' => num'[i] \in 1..4
          /\ RealLogical(i)' => num'[i] >= 5
    BY <1>1, <1>6, <1>7, <1>8, <1>12, <2>3 DEF Extended
  <2>6. \A j \in WicParts : j < n => ~RealLogical(j)' /\ End(j)' + 2 <= start'[n]
    <3> SUFFICES ASSUME NEW j \in WicParts, j < n PROVE ~RealLogical(j)' /\ End(j)' + 2 <= start'[n]
      OBVIOUS
    <3>1. j # n /\ End(j) <= offset /\ End(j) \in Nat
      BY <1>1, <1>9
    <3>2. ~RealLogical(j)' /\ End(j)' = End(j) /\ start'[n] = P
      BY <1>7, <1>8, <2>1, <3>1
    <3>3. P >= offset + 2 + a
      BY <1>3, <1>12
    <3> QED BY <1>1, <1>2, <3>1, <3>2, <3>3
  <2>7. \A j \in WicParts : ~(n < j /\ j < n + 1)
    BY <1>1
  <2>8. First(n, n + 1)'
    BY <1>3, <1>6, <1>8, <1>12, <2>3, <2>4, <2>6, <2>7 DEF First
  <2> QED BY <1>1, <1>6, <2>2, <2>5, <2>8 DEF Extended
<1>13. CASE ~table[n].noTable /\ log /\ extendedPart # 0
  <2>1. PICK x \in WicParts : x < n /\ First(x, n)
    BY <1>13 DEF Extended
  <2>2. extendedPart = 5 /\ logicals >= 1
    BY <1>13 DEF Extended
  <2>3. /\ num' = [num EXCEPT ![n] = logicals + 5] /\ logicals' = logicals + 1
        /\ extendedPart' = 5 /\ extendedSize' = extendedSize + S + 2 + a
    BY <1>13, <2>2 DEF Place, Number, S, a, log
  <2>4. RealLogical(n)' /\ ~RealPrimary(n)' /\ num'[n] > 5
    BY <1>4, <1>8, <1>13, <2>2, <2>3
  <2>5. \A i \in WicParts : i < n + 1 =>
          /\ table'[i].noTable => num'[i] = 0
          /\ RealPrimary(i)' => num'[i] \in 1..4
          /\ RealLogical(i)' => num'[i] >= 5
    <3> SUFFICES ASSUME NEW i \in WicParts, i < n + 1
                 PROVE  /\ table'[i].noTable => num'[i] = 0
                        /\ RealPrimary(i)' => num'[i] \in 1..4
                        /\ RealLogical(i)' => num'[i] >= 5
      OBVIOUS
    <3>1. CASE i = n
      BY <1>1, <1>4, <1>6, <1>13, <2>2, <2>3, <2>4, <3>1
    <3>2. CASE i # n
      <4>1. i < n
        BY <1>1, <3>2
      <4> QED BY <1>6, <1>7, <3>2, <4>1 DEF Extended
    <3> QED BY <3>1, <3>2
  <2>6. x # n /\ x < n + 1 /\ x \in Nat /\ n # 1
    BY <1>1, <2>1 DEF WicParts
  <2>7. /\ ExtEnd(x)' = ExtEnd(x) + S + 2 + a /\ ExtEnd(x) <= offset /\ ExtEnd(x) \in Int
        /\ ExtEnd(x)' \in Int /\ ExtEnd(x)' >= ExtEnd(x) /\ ExtEnd(x)' <= offset'
    <3>1. ExtEnd(x)' = start[x] - 2 + (extendedSize + S + 2 + a)
      BY <1>7, <2>3, <2>6 DEF ExtEnd
    <3>2. ExtEnd(x) = start[x] - 2 + extendedSize /\ ExtEnd(x) <= offset
      BY <2>1 DEF ExtEnd, First
    <3>3. start[x] \in Nat
      BY <1>6
    <3>4. extendedSize \in Nat /\ offset' = P + S /\ P >= offset + 2 + a
      BY <1>3, <1>4, <1>13
    <3>5. S \in Nat /\ a \in Nat /\ P \in Nat /\ offset \in Nat
      BY <1>1, <1>2
    <3>6. ExtEnd(x)' = ExtEnd(x) + S + 2 + a /\ ExtEnd(x) \in Int
      BY <3>1, <3>2, <3>3, <3>4, <3>5
    <3> QED BY <3>2, <3>4, <3>5, <3>6
  <2>8. /\ RealLogical(x)' /\ num'[x] = 5 /\ start'[x] >= 3
        /\ End(x)' <= ExtEnd(x)'
    BY <1>7, <1>10, <2>1, <2>6, <2>7 DEF First
  <2>9. \A j \in WicParts : j < x => ~RealLogical(j)' /\ End(j)' + 2 <= start'[x]
    <3> SUFFICES ASSUME NEW j \in WicParts, j < x PROVE ~RealLogical(j)' /\ End(j)' + 2 <= start'[x]
      OBVIOUS
    <3>1. j # n
      BY <1>1, <2>1
    <3> QED BY <1>7, <2>1, <2>6, <3>1 DEF First
  <2>10. \A j \in WicParts : x < j /\ j < n + 1 /\ RealLogical(j)' => num'[j] > 5
    BY <1>1, <1>7, <2>1, <2>4 DEF First
  <2>11. ASSUME NoGap(x, n + 1)' PROVE ExtEnd(x)' = offset' /\ End(n)' = offset'
    <3>1. table[n].at = -1
      BY <1>1, <1>6, <2>1, <2>11 DEF NoGap
    <3>2. NoGap(x, n)
      <4> SUFFICES ASSUME NEW j \in WicParts, x < j, j < n PROVE RealLogical(j) /\ table[j].at = -1
        BY DEF NoGap
      <4>1. j # n /\ j < n + 1
        BY <1>1
      <4>2. RealLogical(j)' /\ table'[j].at = -1
        BY <1>6, <2>11, <4>1 DEF NoGap
      <4> QED BY <1>6, <1>7, <4>1, <4>2
    <3>3. ExtEnd(x) = offset
      BY <2>1, <3>2 DEF First
    <3> QED BY <1>1, <1>2, <1>3, <1>4, <1>8, <1>13, <2>6, <2>7, <3>1, <3>3
  <2>12. ASSUME NEW k \in WicParts, x < k, k < n + 1, RealLogical(k)', NoGap(x, k + 1)'
         PROVE  End(k)' <= ExtEnd(x)'
    <3>1. CASE k = n
      BY <1>2, <1>4, <2>11, <2>12, <3>1
    <3>2. CASE k # n
      <4>1. k < n /\ k \in Nat
        BY <1>1, <2>12, <3>2
      <4>2. NoGap(x, k + 1)
        <5> SUFFICES ASSUME NEW j \in WicParts, x < j, j < k + 1
                     PROVE  RealLogical(j) /\ table[j].at = -1
          BY DEF NoGap
        <5>1. j # n
          BY <1>1, <4>1
        <5>2. RealLogical(j)' /\ table'[j].at = -1
          BY <1>6, <2>12 DEF NoGap
        <5> QED BY <1>6, <1>7, <5>1, <5>2
      <4>3. End(k) <= ExtEnd(x)
        BY <1>7, <2>1, <2>12, <3>2, <4>1, <4>2 DEF First
      <4> QED BY <1>7, <1>10, <2>7, <3>2, <4>3
    <3> QED BY <3>1, <3>2
  <2>13. ASSUME NEW q \in WicParts, x < q, q < n + 1, RealPrimary(q)'
         PROVE  \E k \in WicParts : q < k /\ k < n + 1 /\ RealLogical(k)'
    <3>1. q # n
      BY <2>4, <2>13
    <3> QED BY <1>1, <2>4, <2>13, <3>1
  <2>14. First(x, n + 1)'
    BY <1>6, <2>7, <2>8, <2>9, <2>10, <2>11, <2>12, <2>13 DEF First
  <2> QED BY <1>1, <1>4, <1>6, <2>2, <2>3, <2>5, <2>6, <2>14 DEF Extended
<1> QED BY <1>11, <1>12, <1>13

(* parted accepts the next partition, and the extended one in front of it,  *)
(* when there is a sector in it and no gap the extended one does not count. *)
LEMMA NextAccepted ==
  ASSUME WInv, Counted, AcceptInv, wicPc = "create", NEW n \in WicParts, n = this,
         num[n] # 0, Sectors(n) # 0, ~Uncounted
  PROVE  /\ \A e \in ExtendedOf(n) : Accepts(e, regions)
         /\ Accepts(Region(type[n], start[n], Sectors(n)), regions \cup ExtendedOf(n))
<1> DEFINE r == Region(type[n], start[n], Sectors(n))
           N == Len(table) + 1
<1>1. /\ WTypes /\ n \in Nat /\ \A i \in WicParts : i \in Nat /\ i < N
      /\ type \in [WicParts -> {"primary", "logical"}]
      /\ Made(n) /\ Extended(N) /\ (Gpt <=> ~Msdos)
      /\ extendedSize \in Nat
  BY DEF WInv, WTypes, WicParts, Counted, CountTypes, AcceptInv, LaidOut, Gpt, Msdos
<1>2. /\ offset \in Nat /\ image = offset + (IF Gpt THEN GptOverhead ELSE 0)
      /\ \A i \in WicParts : Low <= start[i] /\ End(i) <= offset
      /\ \A i, j \in WicParts : i < j => End(i) <= start[j]
  BY <1>1 DEF WInv, WTypes, OrderInv, LaidOut, InOrder, End
<1>3. ASSUME NEW i \in WicParts
      PROVE  Sectors(i) \in Nat /\ start[i] \in Nat /\ End(i) \in Nat /\ End(i) = start[i] + Sectors(i)
  <2>1. Sectors(i) \in Nat /\ start[i] \in Nat
    BY <1>1, PartType DEF WTypes
  <2> QED BY <2>1 DEF End
<1>4. Sectors(n) >= 1
  BY <1>3
<1>5. /\ r.kind = type[n] /\ r.first = start[n] /\ r.last = End(n) - 1
      /\ r.first <= r.last
      /\ r.first >= (IF Gpt THEN GptOverhead ELSE MbrOverhead)
      /\ r.last <= image - (IF Gpt THEN GptOverhead ELSE 1)
  <2>1. r.kind = type[n] /\ r.first = start[n] /\ r.last = start[n] + Sectors(n) - 1
    BY DEF Region
  <2> HIDE DEF r
  <2>2. start[n] >= (IF Gpt THEN GptOverhead ELSE MbrOverhead) /\ End(n) <= offset
    BY <1>2 DEF Low
  <2> QED BY <1>2, <1>3, <1>4, <2>1, <2>2
(* The partitions before this one lie before it. *)
<1>6. ASSUME NEW j \in WicParts, j < n PROVE ~Meet(r, Region(type[j], start[j], Sectors(j)))
  <2>1. start[j] + Sectors(j) <= start[n]
    BY <1>2, <1>3, <1>6
  <2> QED BY <1>3, <2>1, Behind
<1>7. ASSUME NEW old \in regions
      PROVE  \/ \E j \in WicParts : j < n /\ num[j] # 0 /\ old = Region(type[j], start[j], Sectors(j))
             \/ \E x \in WicParts : /\ x < n /\ num[x] # 0 /\ num[x] = extendedPart /\ Msdos
                                    /\ old = Region("extended", start[x] - 2, extendedSize)
  BY <1>1 DEF Made
<1>8. CASE ~Msdos
  <2>1. ExtendedOf(n) = {}
    BY <1>8 DEF ExtendedOf
  <2>2. \A old \in regions : ~Meet(r, old)
    BY <1>6, <1>7, <1>8
  <2> QED BY <1>5, <1>8, <2>1, <2>2 DEF Accepts
<1>9. CASE Msdos
  (* The extended partition, when there is one. *)
  <2>1. /\ \A i \in WicParts : /\ table[i].noTable => num[i] = 0
                               /\ RealPrimary(i) => num[i] \in 1..4
                               /\ RealLogical(i) => num[i] >= 5
        /\ \A i \in WicParts : ~table[i].noTable => RealPrimary(i) \/ RealLogical(i)
        /\ \A i \in WicParts : ~(RealPrimary(i) /\ RealLogical(i))
    BY <1>1, <1>9 DEF Extended, RealPrimary, RealLogical
  <2>2. ASSUME NEW y \in WicParts, num[y] # 0, num[y] = extendedPart
        PROVE  extendedPart = 5 /\ First(y, N)
    <3>1. extendedPart = 5
      BY <1>1, <1>9, <2>2 DEF Extended
    <3>2. PICK x \in WicParts : x < N /\ First(x, N)
      BY <1>1, <1>9, <2>2 DEF Extended
    <3>3. RealLogical(y)
      BY <2>1, <2>2, <3>1
    <3>4. ~(y < x) /\ ~(x < y)
      BY <1>1, <2>2, <3>1, <3>2, <3>3 DEF First
    <3> QED BY <1>1, <3>1, <3>2, <3>4
  <2>3. CASE num[n] = extendedPart
    <3> DEFINE X == Region("extended", start[n] - 2, extendedSize)
    <3>1. ExtendedOf(n) = {X} /\ First(n, N) /\ type[n] = "logical"
      BY <1>9, <2>2, <2>3 DEF ExtendedOf, First, RealLogical
    <3>2. X.kind = "extended" /\ X.first = start[n] - 2 /\ X.last = ExtEnd(n) - 1
      <4>1. /\ X.kind = "extended" /\ X.first = start[n] - 2
            /\ X.last = (start[n] - 2) + (extendedSize - 1)
        BY DEF Region
      <4>2. start[n] \in Nat /\ extendedSize \in Nat
        BY <1>1, <1>3
      <4>3. (start[n] - 2) + (extendedSize - 1) = ExtEnd(n) - 1
        BY <4>2 DEF ExtEnd
      <4> HIDE DEF X
      <4> QED BY <4>1, <4>3
    <3>3. start[n] >= 3 /\ End(n) <= ExtEnd(n) /\ ExtEnd(n) <= offset /\ ExtEnd(n) \in Int
      BY <1>1, <1>3, <3>1 DEF First, ExtEnd
    <3>4. ASSUME NEW old \in regions, old.kind # "logical" PROVE ~Meet(X, old)
      <4>1. CASE \E j \in WicParts : j < n /\ num[j] # 0
                                     /\ old = Region(type[j], start[j], Sectors(j))
        <5>1. PICK j \in WicParts : j < n /\ old = Region(type[j], start[j], Sectors(j))
          BY <4>1
        <5>2. start[j] + Sectors(j) <= start[n] - 2
          BY <1>3, <3>1, <5>1 DEF First
        <5>3. start[j] \in Int /\ Sectors(j) \in Int /\ start[n] - 2 \in Int /\ extendedSize \in Int
          BY <1>1, <1>3
        <5> QED BY <5>1, <5>2, <5>3, Behind
      <4>2. CASE \E x \in WicParts : /\ x < n /\ num[x] # 0 /\ num[x] = extendedPart /\ Msdos
                                     /\ old = Region("extended", start[x] - 2, extendedSize)
        <5>1. PICK x \in WicParts : x < n /\ num[x] # 0 /\ num[x] = extendedPart
          BY <4>2
        <5>2. RealLogical(x) /\ ~RealLogical(x)
          BY <2>2, <3>1, <5>1 DEF First
        <5> QED BY <5>2
      <4> QED BY <1>7, <4>1, <4>2
    <3>5. ASSUME NEW old \in regions, old.kind = "logical" PROVE ~Meet(r, old)
      <4>1. PICK j \in WicParts : j < n /\ old = Region(type[j], start[j], Sectors(j))
        BY <1>7, <3>5 DEF Region
      <4> QED BY <1>6, <4>1
    <3> HIDE DEF X, r
    <3>6. Accepts(X, regions)
      <4>1. image = offset /\ offset \in Nat
        BY <1>1, <1>2, <1>9
      <4>2. start[n] \in Nat /\ End(n) \in Nat /\ start[n] < End(n)
        BY <1>3, <1>4
      <4>3. X.first <= X.last /\ X.first >= 1 /\ X.last <= image - 1
        BY <3>2, <3>3, <4>1, <4>2
      <4> QED BY <1>1, <1>9, <3>2, <3>4, <4>3 DEF Accepts
    <3>7. Accepts(r, regions \cup {X})
      <4>1. X.first <= r.first - 1 /\ r.last <= X.last
        BY <1>3, <1>5, <3>2, <3>3
      <4> QED BY <1>5, <1>9, <3>1, <3>2, <3>5, <4>1 DEF Accepts
    <3> QED BY <3>1, <3>6, <3>7 DEF r
  <2>4. CASE RealLogical(n) /\ num[n] # extendedPart
    <3>1. ExtendedOf(n) = {} /\ type[n] = "logical"
      BY <2>4 DEF ExtendedOf, RealLogical
    <3>2. extendedPart # 0
      BY <1>1, <1>9, <2>4 DEF Extended
    <3>3. PICK x \in WicParts : First(x, N) /\ num[x] = extendedPart /\ num[x] # 0
      BY <1>1, <1>9, <3>2 DEF Extended, First
    <3>4. x < n
      BY <1>1, <2>4, <3>3 DEF First
    <3>5. NoGap(x, n + 1)
      <4> SUFFICES ASSUME NEW j \in WicParts, x < j, j < n + 1 PROVE RealLogical(j) /\ table[j].at = -1
        BY DEF NoGap
      <4>1. j <= n /\ n <= this
        BY <1>1
      <4>2. ~(table[j].noTable \/ table[j].at # -1 \/ type[j] = "primary")
        BY <1>9, <3>1, <3>3, <4>1 DEF Uncounted
      <4> QED BY <1>1, <4>2 DEF RealLogical
    <3>6. End(n) <= ExtEnd(x) /\ End(x) <= start[n] /\ ExtEnd(x) \in Int /\ End(x) \in Nat
      <4>1. End(n) <= ExtEnd(x)
        BY <1>1, <2>4, <3>3, <3>4, <3>5 DEF First
      <4> QED BY <1>1, <1>2, <1>3, <3>4, <4>1 DEF ExtEnd
    <3> DEFINE X == Region("extended", start[x] - 2, extendedSize)
    <3>7. X \in regions
      BY <1>1, <1>9, <3>3, <3>4 DEF Made
    <3>8. X.kind = "extended" /\ X.first = start[x] - 2 /\ X.last = ExtEnd(x) - 1
      <4>1. /\ X.kind = "extended" /\ X.first = start[x] - 2
            /\ X.last = (start[x] - 2) + (extendedSize - 1)
        BY DEF Region
      <4>2. start[x] \in Nat /\ extendedSize \in Nat
        BY <1>1, <1>3
      <4>3. (start[x] - 2) + (extendedSize - 1) = ExtEnd(x) - 1
        BY <4>2 DEF ExtEnd
      <4> HIDE DEF X
      <4> QED BY <4>1, <4>3
    <3>9. ASSUME NEW old \in regions, old.kind = "logical" PROVE ~Meet(r, old)
      <4>1. PICK j \in WicParts : j < n /\ old = Region(type[j], start[j], Sectors(j))
        BY <1>7, <3>9 DEF Region
      <4> QED BY <1>6, <4>1
    <3> HIDE DEF X, r
    <3>10. X.first <= r.first - 1 /\ r.last <= X.last
      <4>1. start[n] \in Nat /\ start[x] \in Nat /\ End(n) \in Nat /\ End(x) = start[x] + Sectors(x)
            /\ Sectors(x) \in Nat
        BY <1>3
      <4> QED BY <1>5, <3>6, <3>8, <4>1
    <3>11. Accepts(r, regions)
      BY <1>5, <1>9, <3>1, <3>7, <3>8, <3>9, <3>10 DEF Accepts
    <3> QED BY <3>1, <3>11 DEF r
  <2>5. CASE RealPrimary(n)
    <3>1. num[n] # extendedPart
      BY <2>1, <2>2, <2>5 DEF First
    <3>2. ExtendedOf(n) = {} /\ type[n] = "primary"
      BY <2>5, <3>1 DEF ExtendedOf, RealPrimary
    <3>3. ASSUME NEW x \in WicParts, x < n, num[x] # 0, num[x] = extendedPart
          PROVE  ~Meet(r, Region("extended", start[x] - 2, extendedSize))
      <4>1. First(x, N) /\ start[x] - 2 + extendedSize = ExtEnd(x) /\ ExtEnd(x) \in Int
        <5>1. First(x, N)
          BY <2>2, <3>3
        <5>2. start[x] \in Nat /\ extendedSize \in Nat
          BY <1>1, <1>3
        <5> QED BY <5>1, <5>2 DEF ExtEnd
      <4>2. CASE start[n] < ExtEnd(x)
        <5>1. PICK k \in WicParts : n < k /\ k < N /\ RealLogical(k)
          BY <1>1, <2>5, <3>3, <4>1, <4>2 DEF First
        <5>2. num[k] # 0 /\ type[k] = "logical" /\ n <= k /\ n <= this
          BY <1>1, <2>1, <5>1 DEF RealLogical
        <5>3. Uncounted
          BY <1>9, <3>2, <3>3, <5>2 DEF Uncounted
        <5> QED BY <5>3
      <4>3. CASE ExtEnd(x) <= start[n]
        <5>1. /\ start[n] \in Int /\ Sectors(n) \in Int /\ start[x] - 2 \in Int /\ extendedSize \in Int
          BY <1>1, <1>3
        <5>2. (start[x] - 2) + extendedSize <= start[n]
          BY <4>1, <4>3
        <5> QED BY <5>1, <5>2, Behind
      <4>4. start[n] \in Int
        BY <1>3
      <4> QED BY <4>1, <4>2, <4>3, <4>4
    <3>4. \A old \in regions : ~Meet(r, old)
      BY <1>6, <1>7, <3>3
    <3> HIDE DEF r
    <3>5. Accepts(r, regions)
      BY <1>5, <3>2, <3>4 DEF Accepts
    <3> QED BY <3>2, <3>5 DEF r
  <2> QED BY <2>1, <2>3, <2>4, <2>5
<1> QED BY <1>8, <1>9

(* parted has made nothing in the initial state. *)
LEMMA InitAccept == WicInit => AcceptInv
<1> SUFFICES ASSUME WicInit PROVE AcceptInv
  OBVIOUS
<1> QED BY DEF WicInit, AcceptInv, LaidOut, LayoutAccepted

(* Every step preserves AcceptInv. *)
LEMMA NextAccept ==
  WInv /\ Counted /\ AcceptInv /\ [WicNext]_wicVars => AcceptInv'
<1> SUFFICES ASSUME WInv, Counted, AcceptInv, [WicNext]_wicVars PROVE AcceptInv'
  OBVIOUS
<1>0. WTypes /\ Len(table) \in Nat /\ this \in Nat
  BY DEF WInv, WTypes
<1>1. CASE WicStart
  BY <1>1 DEF WicStart, AcceptInv, LaidOut, LayoutAccepted
<1>2. CASE Prepare
  <2>1. wicPc = "prepare" /\ wicPc' \in {"prepare", "error", "layout"} /\ regions' = regions
        /\ UNCHANGED <<inputs, counters, places>> /\ (wicPc' = "layout" => this' = 1)
    BY <1>2 DEF Prepare
  <2>2. /\ num = [i \in WicParts |-> 0] /\ extendedPart = 0 /\ logicals = 0 /\ extendedSize = 0
    BY <2>1 DEF Counted
  <2>3. wicPc' = "layout" => Extended(this)'
    <3> SUFFICES ASSUME wicPc' = "layout" PROVE Extended(this)'
      OBVIOUS
    <3>1. this' = 1 /\ extendedPart' = 0 /\ logicals' = 0 /\ extendedSize' = 0
      BY <2>1, <2>2 DEF counters
    <3>2. \A i \in WicParts' : ~(i < 1)
      BY <1>0, <2>1 DEF WicParts, inputs
    <3> QED BY <3>1, <3>2 DEF Extended
  <2> QED BY <2>1, <2>3 DEF AcceptInv, LaidOut, LayoutAccepted
<1>3. CASE Layout
  <2>1. CASE wicPc' = "error"
    BY <1>3, <2>1 DEF Layout, AcceptInv, LaidOut, LayoutAccepted
  <2>2. CASE Place(this) /\ ~Misplaced(this) /\ this' = this + 1 /\ wicPc' = wicPc
    <3>1. wicPc = "layout" /\ this \in WicParts /\ UNCHANGED <<inputs, contents, regions>>
      BY <1>3 DEF Layout
    <3>2. CountTypes /\ Extended(this) /\ regions = {}
      BY <3>1 DEF Counted, AcceptInv
    <3>3. ASSUME Msdos PROVE Extended(this)'
      <4>1. PICK n \in WicParts : n = this
        BY <3>1
      <4>2. Extended(n + 1)'
        BY <2>2, <3>1, <3>2, <3>3, <4>1, PlaceExtended
      <4>3. n + 1 = this'
        BY <2>2, <4>1
      <4> QED BY <4>2, <4>3
    <3>4. ~Msdos => Extended(this)'
      BY <3>1 DEF Extended, Msdos, inputs
    <3> QED BY <2>2, <3>1, <3>2, <3>3, <3>4 DEF AcceptInv, LaidOut, LayoutAccepted
  <2> QED BY <1>3, <2>1, <2>2 DEF Layout
<1>4. CASE MakeDisk
  <2>1. this = Len(table) + 1 /\ UNCHANGED <<inputs, contents, counters, places, regions>>
        /\ wicPc = "layout" /\ wicPc' = "create" /\ this' = 1
    BY <1>0, <1>4 DEF MakeDisk, Counted, WInv, OrderInv, WicParts
  <2>2. Extended(Len(table) + 1) /\ regions = {}
    BY <2>1 DEF AcceptInv
  <2>3. (Extended(Len(table) + 1))'
    BY <2>1, <2>2, ExtendedFrame DEF inputs
  <2>4. Made(this)'
    <3>1. \A i \in WicParts' : ~(i < 1)
      BY <1>0, <2>1 DEF WicParts, inputs
    <3> QED BY <2>1, <2>2, <3>1 DEF Made
  <2> QED BY <2>1, <2>3, <2>4 DEF AcceptInv, LaidOut, LayoutAccepted
<1>5. CASE Create
  <2>1. wicPc = "create" /\ this \in WicParts /\ UNCHANGED <<inputs, contents, counters, places>>
        /\ wicPc' \in {"create", "error", "refused"}
    BY <1>5 DEF Create
  <2>2. Made(this) /\ this >= 1 /\ Extended(Len(table) + 1)
    BY <2>1 DEF AcceptInv, LaidOut
  <2>3. (Extended(Len(table) + 1))'
    BY <2>1, <2>2, ExtendedFrame DEF inputs
  <2>4. WicParts' = WicParts /\ Msdos' = Msdos /\ \A i : Sectors(i)' = Sectors(i)
    BY <2>1 DEF WicParts, Msdos, Sectors, DiskSize, inputs, contents
  <2>5. wicPc' # "refused" => Made(this)' /\ this' >= 1
    <3>1. CASE wicPc' # "refused" /\ num[this] = 0
      <4>1. this' = this + 1 /\ regions' = regions
        BY <1>5, <3>1 DEF Create
      <4>2. \A j \in WicParts : num[j] # 0 /\ j < this + 1 => j < this
        BY <1>0, <3>1 DEF WicParts
      <4>3. Made(this)'
        <5>1. ASSUME NEW r \in regions
              PROVE  \/ \E j \in WicParts : /\ j < this + 1 /\ num[j] # 0
                                           /\ r = Region(type[j], start[j], Sectors(j))
                     \/ \E x \in WicParts : /\ x < this + 1 /\ num[x] # 0 /\ num[x] = extendedPart
                                           /\ Msdos /\ r = Region("extended", start[x] - 2, extendedSize)
          BY <1>0, <2>2 DEF Made, WicParts
        <5> QED BY <2>1, <2>2, <2>4, <4>1, <4>2, <5>1 DEF Made, counters, places
      <4> QED BY <1>0, <2>2, <4>1, <4>3
    <3>2. CASE wicPc' # "refused" /\ num[this] # 0
      <4>1. /\ this' = this + 1
            /\ regions' = regions \cup ExtendedOf(this) \cup {Region(type[this], start[this], Sectors(this))}
        BY <1>5, <3>2 DEF Create
      <4>2. \A j \in WicParts : j < this + 1 <=> j < this \/ j = this
        BY <1>0 DEF WicParts
      <4>3. ExtendedOf(this) = IF Msdos /\ num[this] = extendedPart
                               THEN {Region("extended", start[this] - 2, extendedSize)} ELSE {}
        BY DEF ExtendedOf
      <4>4. ASSUME NEW r \in regions'
            PROVE  \/ \E j \in WicParts : /\ j < this + 1 /\ num[j] # 0
                                         /\ r = Region(type[j], start[j], Sectors(j))
                   \/ \E x \in WicParts : /\ x < this + 1 /\ num[x] # 0 /\ num[x] = extendedPart
                                         /\ Msdos /\ r = Region("extended", start[x] - 2, extendedSize)
        <5>1. CASE r \in regions
          BY <2>2, <4>2, <5>1 DEF Made
        <5>2. CASE r \in ExtendedOf(this)
          BY <2>1, <3>2, <4>2, <4>3, <5>2
        <5>3. CASE r = Region(type[this], start[this], Sectors(this))
          BY <2>1, <3>2, <4>2, <5>3
        <5> QED BY <4>1, <5>1, <5>2, <5>3
      <4>5. ASSUME NEW x \in WicParts, x < this + 1, num[x] # 0, num[x] = extendedPart, Msdos
            PROVE  Region("extended", start[x] - 2, extendedSize) \in regions'
        BY <2>2, <4>1, <4>2, <4>3, <4>5 DEF Made
      <4>6. Made(this)'
        BY <2>1, <2>4, <4>1, <4>4, <4>5 DEF Made, counters, places
      <4> QED BY <1>0, <2>2, <4>1, <4>6
    <3> QED BY <3>1, <3>2
  <2>6. wicPc' = "refused" => LayoutAccepted'
    <3> SUFFICES ASSUME wicPc' = "refused" PROVE LayoutAccepted'
      OBVIOUS
    <3>1. PICK n \in WicParts : n = this
      BY <2>1
    <3>2. /\ num[n] # 0 /\ this' = this
          /\ ~((\A e \in ExtendedOf(n) : Accepts(e, regions))
               /\ Accepts(Region(type[n], start[n], Sectors(n)), regions \cup ExtendedOf(n)))
      BY <1>5, <2>1, <3>1 DEF Create
    <3>3. Sectors(n) = 0 \/ Uncounted
      BY <2>1, <3>1, <3>2, NextAccepted
    <3>4. this' \in WicParts' /\ (Sectors(this)' = 0 <=> Sectors(n) = 0)
      BY <2>1, <2>4, <3>1, <3>2 DEF Sectors, DiskSize, inputs, contents
    <3>5. Uncounted' <=> Uncounted
      BY <2>1, <2>4, <3>2 DEF Uncounted, inputs, counters, places
    <3> QED BY <3>3, <3>4, <3>5 DEF LayoutAccepted
  <2> QED BY <2>1, <2>3, <2>5, <2>6 DEF AcceptInv, LaidOut, LayoutAccepted
<1>6. CASE Protect
  <2>1. UNCHANGED <<inputs, contents, counters, places, regions, this>> /\ wicPc = "create"
    BY <1>6 DEF Protect
  <2>2. (Extended(Len(table) + 1))'
    BY <2>1, ExtendedFrame DEF AcceptInv, LaidOut, inputs
  <2>3. wicPc' = "refused" => ~ProtectiveFits'
    BY <1>6, <2>1 DEF Protect, ProtectiveFits, WicParts, inputs, places
  <2>4. wicPc' # "create" /\ wicPc' # "layout" /\ wicPc' \notin {"idle", "prepare"}
    BY <1>6 DEF Protect
  <2> QED BY <2>2, <2>3, <2>4 DEF AcceptInv, LayoutAccepted
<1>7. CASE UNCHANGED wicVars
  <2>1. UNCHANGED <<wicPc, inputs, contents, counters, places, this, regions>>
    BY <1>7 DEF wicVars, inputs, contents, counters, places
  <2>2. /\ WicParts' = WicParts /\ Msdos' = Msdos /\ \A i : Sectors(i)' = Sectors(i)
    BY <2>1 DEF WicParts, Msdos, Sectors, DiskSize, inputs, contents
  <2>3. Made(this)' = Made(this)
    BY <2>1, <2>2 DEF Made, inputs, counters, places
  <2>4. Extended(this)' = Extended(this)
    BY <2>1, ExtendedFrame
  <2>5. (Extended(Len(table) + 1))' = Extended(Len(table) + 1)
    BY <2>1, ExtendedFrame DEF inputs
  <2>6. Uncounted' = Uncounted /\ ProtectiveFits' = ProtectiveFits
    BY <2>1, <2>2 DEF Uncounted, ProtectiveFits, inputs, counters, places
  <2>7. Sectors(this)' = Sectors(this)
    BY <2>1 DEF Sectors, DiskSize, inputs, contents
  <2> QED BY <2>1, <2>2, <2>3, <2>4, <2>5, <2>6, <2>7 DEF AcceptInv, LaidOut, LayoutAccepted
<1> QED BY <1>1, <1>2, <1>3, <1>4, <1>5, <1>6, <1>7 DEF WicNext

(* Once the contents are prepared, parted makes every partition of the      *)
(* layout, with the exceptions that LayoutAccepted names and no other.      *)
THEOREM LayoutsAreAccepted == WicSpec => []LayoutAccepted
<1>1. WicSpec => []AcceptInv
  BY InitAccept, NextAccept, LayoutInvariance, CountInvariance, PTL DEF WicSpec
<1>2. AcceptInv => LayoutAccepted
  BY DEF AcceptInv
<1> QED BY <1>1, <1>2, PTL
================================================================================
