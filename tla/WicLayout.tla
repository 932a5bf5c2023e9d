------------------------------ MODULE WicLayout ------------------------------
(***************************************************************************)
(* wic: how the direct imager turns the partitions of a kickstart file     *)
(* into a disk image (scripts/lib/wic).  The partitions are numbered, their *)
(* contents prepared, their sectors laid out, the partition table written  *)
(* with parted and the contents copied to their place.                     *)
(*                                                                         *)
(* A partition is a record: the source of its content ("none", a "raw"     *)
(* file or a "rootfs"), content (kB), size and fixed (--size, --fixed-size *)
(* in kB, 0 if not given), extra (--extra-space), hasFs (--fstype is not   *)
(* none), noTable, logical (--type logical), align (kB, 0 if not given),   *)
(* at (--offset in bytes, -1 if not given) and mbr.                        *)
(***************************************************************************)
EXTENDS Integers, FiniteSets, Sequences

CONSTANTS Tables,    \* the sequences of partitions of a kickstart file
          PTables,   \* partition table formats
          Percent    \* --overhead-factor, in percent

Part == [source : {"none", "raw", "rootfs"}, content : Nat, size : Nat,
         fixed : Nat, extra : Nat, hasFs : BOOLEAN, noTable : BOOLEAN,
         logical : BOOLEAN, align : Nat, at : Nat \cup {-1}, mbr : BOOLEAN]

ASSUME WicAssumption ==
  /\ Tables \subseteq Seq(Part)
  /\ PTables \subseteq {"msdos", "gpt", "gpt-hybrid"}
  /\ Percent \in Nat /\ Percent >= 100

SectorSize == 512
MbrOverhead == 1
GptOverhead == 34

VARIABLES
  wicPc,       \* idle, prepare, layout, create, protect, done, error, refused
  ptable, table,
  this,        \* the partition a loop is at
  kB,          \* size of each partition, after prepare()
  file,        \* kB of the content prepared for each partition
  offset,      \* next free sector
  primaries, logicals,          \* primary_part_num, logical_part_cnt
  extendedPart, extendedSize,   \* extendedpart, extended_size_sec
  type, start, num,             \* per partition
  hybrid,      \* partitions in the hybrid MBR
  regions,     \* what parted has created
  image        \* sectors of the image

wicVars == <<wicPc, ptable, table, this, kB, file, offset, primaries, logicals,
             extendedPart, extendedSize, type, start, num, hybrid, regions,
             image>>

inputs   == <<ptable, table>>
contents == <<kB, file>>
counters == <<offset, primaries, logicals, extendedPart, extendedSize>>
places   == <<type, start, num>>

WicParts == 1..Len(table)
Gpt == ptable \in {"gpt", "gpt-hybrid"}
Msdos == ptable = "msdos"

RealAmong(n) == Cardinality({i \in 1..n : ~table[i].noTable})
NumReal == RealAmong(Len(table))

RealNumBug(i) ==
  IF table[i].noTable THEN 0
  ELSE IF Msdos /\ RealAmong(i) > 3 THEN RealAmong(i) + 1
  ELSE RealAmong(i)

(* part.realnum, fixed before any layout: fstab and the root device use it. *)
RealNum(i) ==
  IF table[i].noTable THEN 0
  ELSE IF Msdos /\ RealAmong(i) > 3 /\ NumReal > 4 THEN RealAmong(i) + 1
  ELSE RealAmong(i)

Larger(a, b) == IF a >= b THEN a ELSE b

(* get_extra_block_count and get_rootfs_size, without --fixed-size. *)
ExtraBlocks(p) == IF p.size > p.content THEN p.size - p.content ELSE 0
RootfsSize(p) == ((p.content + Larger(ExtraBlocks(p), p.extra)) * Percent) \div 100

(* The raw copy plugin: --size, or the file if that is larger. *)
RawSizeBug(p, k) == k
RawSize(p, k) == Larger(p.content, k)

DiskSize(p, k) == IF p.fixed # 0 THEN p.fixed ELSE k
Sectors(i) == (DiskSize(table[i], kB[i]) * 1024) \div SectorSize
-----------------------------------------------------------------------------
WicInit ==
  /\ wicPc = "idle"
  /\ ptable \in PTables /\ table \in Tables
  /\ this = 1
  /\ kB = [i \in WicParts |-> table[i].size]
  /\ file = [i \in WicParts |-> 0]
  /\ offset = 0 /\ primaries = 0 /\ logicals = 0
  /\ extendedPart = 0 /\ extendedSize = 0
  /\ type = [i \in WicParts |-> IF table[i].logical THEN "logical" ELSE "primary"]
  /\ start = [i \in WicParts |-> 0]
  /\ num = [i \in WicParts |-> 0]
  /\ hybrid = 0 /\ regions = {} /\ image = 0

WicStart ==
  /\ wicPc = "idle"
  /\ wicPc' = "prepare"
  /\ UNCHANGED <<inputs, this, contents, counters, places, hybrid, regions, image>>

(* The content of partition i, with the error the code raises for it. *)
Prepared(i, k, f) ==
  LET p == table[i] IN
  \/ /\ p.source = "none" /\ (~p.hasFs \/ p.noTable)
     /\ k = kB[i] /\ f = 0
  \/ /\ p.source = "none" /\ p.hasFs /\ ~p.noTable
     /\ DiskSize(p, kB[i]) # 0
     /\ k = kB[i] /\ f = DiskSize(p, kB[i])
  \/ /\ p.source = "raw"
     /\ k = RawSize(p, kB[i]) /\ f = p.content
     /\ p.fixed = 0 \/ k <= p.fixed
  \/ /\ p.source = "rootfs" /\ p.fixed = 0
     /\ k = RootfsSize(p) /\ f = k
  \/ /\ p.source = "rootfs" /\ p.fixed # 0 /\ p.content <= p.fixed
     /\ k = p.fixed /\ f = k

(* What prepare() may make of a partition: at most one size and file.       *)
Preparations(i) ==
  LET p == table[i]
      sizes == {kB[i], p.content, RootfsSize(p), p.fixed}
  IN {r \in sizes \X (sizes \cup {0}) : Prepared(i, r[1], r[2])}

(* Partition.prepare: one partition, or the WicError.                       *)
Prepare ==
  /\ wicPc = "prepare"
  /\ \/ /\ this \in WicParts
        /\ \E r \in Preparations(this) :
             /\ kB' = [kB EXCEPT ![this] = r[1]]
             /\ file' = [file EXCEPT ![this] = r[2]]
        /\ this' = this + 1
        /\ UNCHANGED wicPc
     \/ /\ this \in WicParts
        /\ Preparations(this) = {}
        /\ wicPc' = "error"
        /\ UNCHANGED <<this, contents>>
     \/ /\ this \notin WicParts
        /\ wicPc' = "layout" /\ this' = 1
        /\ UNCHANGED contents
  /\ UNCHANGED <<inputs, counters, places, hybrid, regions, image>>
-----------------------------------------------------------------------------
Overhead == IF this # 1 THEN 0 ELSE IF Msdos THEN MbrOverhead ELSE GptOverhead

(* The partition becomes, or stays, logical. *)
Logical(i) ==
  \/ type[i] = "logical"
  \/ /\ Msdos
     /\ primaries > 3 \/ (extendedPart = 0 /\ primaries >= 3 /\ NumReal > 4)

(* The sectors to skip to the next alignment point. *)
Align(p, o) ==
  LET unit == (p.align * 1024) \div SectorSize
  IN IF p.align = 0 \/ o % unit = 0 THEN 0 ELSE unit - (o % unit)

(* Where the free space starts once the table or the EBR has its sectors. *)
EbrBug(i) == offset + Overhead
Ebr(i) == offset + Overhead + (IF Msdos /\ Logical(i) THEN 2 ELSE 0)

Aligned(i) == Ebr(i) + Align(table[i], Ebr(i))

(* --offset must be a sector that is still free. *)
Misplaced(i) ==
  /\ table[i].at # -1
  /\ \/ table[i].at % SectorSize # 0
     \/ table[i].at \div SectorSize < Aligned(i)

Position(i) == IF table[i].at = -1 THEN Aligned(i)
               ELSE table[i].at \div SectorSize

(* An entry of the MBR of its own: primary, or logical with the number 5 on;*)
(* the first logical partition creates the extended one as a primary.       *)
Number(i) ==
  IF table[i].noTable
  THEN /\ num' = [num EXCEPT ![i] = 0]
       /\ UNCHANGED <<primaries, logicals, extendedPart, extendedSize>>
  ELSE IF ~Msdos
  THEN /\ num' = [num EXCEPT ![i] = RealAmong(i)]
       /\ UNCHANGED <<primaries, logicals, extendedPart, extendedSize>>
  ELSE IF Logical(i)
  THEN /\ logicals' = logicals + 1
       /\ num' = [num EXCEPT ![i] = logicals + 5]
       /\ primaries' = primaries + (IF extendedPart = 0 THEN 1 ELSE 0)
       /\ extendedPart' = IF extendedPart = 0 THEN num'[i] ELSE extendedPart
       /\ extendedSize' = extendedSize + Sectors(i) + 2
            + (IF extendedPart = 0 THEN 0 ELSE Align(table[i], Ebr(i)))
  ELSE /\ primaries' = primaries + 1
       /\ num' = [num EXCEPT ![i] = primaries + 1]
       /\ UNCHANGED <<logicals, extendedPart, extendedSize>>

PlaceBug(i) ==
  /\ type' = [type EXCEPT ![i] = IF Msdos /\ Logical(i) THEN "logical" ELSE @]
  /\ start' = [start EXCEPT ![i] = Position(i)]
  /\ offset' = Aligned(i) + Sectors(i)
  /\ Number(i)

Place(i) ==
  /\ type' = [type EXCEPT ![i] = IF Msdos /\ Logical(i) THEN "logical" ELSE @]
  /\ start' = [start EXCEPT ![i] = Position(i)]
  /\ offset' = Position(i) + Sectors(i)
  /\ Number(i)

(* layout_partitions: one partition, or the WicError. *)
Layout ==
  /\ wicPc = "layout"
  /\ this \in WicParts
  /\ IF (table[this].mbr /\ ptable # "gpt-hybrid") \/ Misplaced(this)
     THEN /\ wicPc' = "error"
          /\ UNCHANGED <<this, counters, places>>
     ELSE /\ Place(this)
          /\ this' = this + 1
          /\ UNCHANGED wicPc
  /\ UNCHANGED <<inputs, contents, hybrid, regions, image>>

(* The end of the layout, and _make_disk: min_size is known. *)
MakeDisk ==
  /\ wicPc = "layout"
  /\ this \notin WicParts
  /\ image' = offset + (IF Gpt THEN GptOverhead ELSE 0)
  /\ this' = 1
  /\ wicPc' = "create"
  /\ UNCHANGED <<inputs, contents, counters, places, hybrid, regions>>
-----------------------------------------------------------------------------
Region(kind, first, size) == [kind |-> kind, first |-> first,
                              last |-> first + size - 1]
Meet(r, s) == r.first <= s.last /\ s.first <= r.last

(* parted's conditions for a new partition: sectors the table leaves free,  *)
(* no overlap, and a logical one, with the sector of its EBR, inside the    *)
(* extended one.                                                            *)
Accepts(r, old) ==
  /\ r.first <= r.last
  /\ r.first >= (IF Gpt THEN GptOverhead ELSE MbrOverhead)
  /\ r.last <= image - (IF Gpt THEN GptOverhead ELSE 1)
  /\ IF r.kind = "logical" /\ Msdos
     THEN /\ \E e \in old : /\ e.kind = "extended"
                            /\ e.first <= r.first - 1 /\ r.last <= e.last
          /\ \A s \in old : s.kind = "logical" => ~Meet(r, s)
     ELSE \A s \in old : (s.kind # "logical" \/ ~Msdos) => ~Meet(r, s)

(* The extended partition that goes in front of the first logical one. *)
ExtendedOf(i) ==
  IF Msdos /\ num[i] = extendedPart
  THEN {Region("extended", start[i] - 2, extendedSize)}
  ELSE {}

(* create(): one partition; parted may refuse what the layout made.         *)
Create ==
  /\ wicPc = "create"
  /\ this \in WicParts
  /\ LET i == this
         ext == ExtendedOf(i)
         r == Region(type[i], start[i], Sectors(i))
         inMbr == ptable = "gpt-hybrid" /\ table[i].mbr
     IN \/ /\ num[i] = 0
           /\ this' = this + 1
           /\ UNCHANGED <<wicPc, hybrid, regions>>
        \/ /\ num[i] # 0
           /\ (\A e \in ext : Accepts(e, regions)) /\ Accepts(r, regions \cup ext)
           /\ regions' = regions \cup ext \cup {r}
           /\ hybrid' = hybrid + (IF inMbr THEN 1 ELSE 0)
           /\ wicPc' = IF hybrid' > 4 THEN "error" ELSE "create"
           /\ this' = this + 1
        \/ /\ num[i] # 0
           /\ ~((\A e \in ext : Accepts(e, regions)) /\ Accepts(r, regions \cup ext))
           /\ wicPc' = "refused"
           /\ UNCHANGED <<this, hybrid, regions>>
  /\ UNCHANGED <<inputs, contents, counters, places, image>>

(* The protective entry of a hybrid MBR is made last and takes the sectors  *)
(* 1 to 34, one more than the GPT leaves free.                             *)
ProtectiveFits ==
  \A i \in WicParts : ptable = "gpt-hybrid" /\ table[i].mbr /\ num[i] # 0 =>
    start[i] > GptOverhead

(* That entry, then assemble(). *)
Protect ==
  /\ wicPc = "create"
  /\ this \notin WicParts
  /\ hybrid' = hybrid + (IF ptable = "gpt-hybrid" THEN 1 ELSE 0)
  /\ wicPc' = IF hybrid' > 4 THEN "error"
              ELSE IF ProtectiveFits THEN "done" ELSE "refused"
  /\ UNCHANGED <<inputs, this, contents, counters, places, regions, image>>

WicNext == WicStart \/ Prepare \/ Layout \/ MakeDisk \/ Create \/ Protect
WicSpec == WicInit /\ [][WicNext]_wicVars
-----------------------------------------------------------------------------
(* The layout is over. *)
LaidOut == wicPc \in {"create", "done", "refused"}

(* The sectors sparse_copy writes in assemble(). *)
Copied(i) == start[i]..(start[i] + ((file[i] * 1024) \div SectorSize) - 1)
Own(i) == start[i]..(start[i] + Sectors(i) - 1)

(* Once laid out, partitions follow each other in the order of the kickstart*)
(* file and share no sector, they leave the partition table's alone, and    *)
(* the image holds them: none of them overwrites another, those left out of *)
(* the table included.  [direct.py 375-492]                                 *)
WicDisjoint ==
  LaidOut =>
    /\ \A i, j \in WicParts : i < j => start[i] + Sectors(i) <= start[j]
    /\ \A i \in WicParts :
         /\ start[i] >= (IF Gpt THEN GptOverhead ELSE MbrOverhead)
         /\ start[i] + Sectors(i) + (IF Gpt THEN GptOverhead ELSE 0) <= image

(* What is copied into a partition stays inside it: the sizes decided when  *)
(* its content was prepared are those the layout used.                      *)
(* [partition.py 91-205, direct.py 372-373, 679-694]                        *)
ContentFits == LaidOut => \A i \in WicParts : Copied(i) \subseteq Own(i)

(* The device a partition has in the table is the one that was written into *)
(* fstab and the kernel's command line before the layout was made, as long  *)
(* as the kickstart file leaves the choice of logical partitions to wic.    *)
(* [direct.py 329-340, 466-487]                                             *)
DeviceNamesHold ==
  LaidOut /\ (\A i \in WicParts : ~table[i].logical) =>
    \A i \in WicParts : num[i] = RealNum(i)

(* Sectors between two logical partitions that the size of the extended     *)
(* partition does not count: an --offset that may skip some, or a partition *)
(* between them that is primary or in no table.                             *)
Uncounted ==
  \E i, j, k \in WicParts :
     /\ i < j /\ j <= k /\ j <= this /\ Msdos
     /\ num[i] = extendedPart
     /\ num[k] # 0 /\ type[k] = "logical"
     /\ table[j].noTable \/ table[j].at # -1 \/ type[j] = "primary"

(* parted accepts what the layout made: nothing fails once the contents are *)
(* prepared, unless a partition has no sector, such a gap is there, or a    *)
(* partition of a hybrid MBR begins where the GPT ends.                     *)
(* [direct.py 544-668]                                                      *)
LayoutAccepted ==
  wicPc = "refused" =>
    \/ Uncounted
    \/ this \in WicParts /\ Sectors(this) = 0
    \/ ~ProtectiveFits
=============================================================================
