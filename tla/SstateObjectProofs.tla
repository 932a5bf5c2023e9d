-------------------------- MODULE SstateObjectProofs --------------------------
(***************************************************************************)
(* Proofs about SstateObject for every set of builders and readers.  Most  *)
(* hold while the mirror keeps its files and nobody cleans the cache up;   *)
(* builders may die, and the theorems that need living builders say so.    *)
(* The last section is about a cache in which anything happens.            *)
(***************************************************************************)
EXTENDS SstateObject, TLAPS

Quiet == MaxDrops = 0 /\ MaxCleanups = 0

(* The mirror and the clean-ups stand still, so no link is broken. *)
QuietInv ==
  /\ served = Served /\ listed = {}
  /\ pkg = Mirror => "pkg" \in served
  /\ sig = Mirror => "sig" \in served
  /\ \A b \in Builder : pc[b] \notin {"force_sig", "force_str"}

(* Who signs and who does not take different steps. *)
RoleInv ==
  /\ \A b \in Builder :
       /\ pc[b] \in {"move_sig", "link_sig", "force_pkg"} => b \in Signs
       /\ pc[b] \in {"move_pkg", "link_pkg"} => b \notin Signs
       /\ pc[b] \in BuildSteps \cup BuildEnds
  /\ \A r \in Reader : pc[r] \in ReadSteps \cup ReadEnds

(* A signature is placed once; the archive of a signing builder follows    *)
(* its own signature.                                                      *)
SignatureInv ==
  /\ \A b \in Builder : pc[b] = "force_pkg" => sig = b
  /\ SignedHasSignature

(* Between verification and unpacking the pair stays as verified. *)
ReaderInv ==
  \A r \in Verifies :
    /\ pc[r] = "unpack" => verified[r] = pkg /\ sig = pkg /\ pkg # Absent
    /\ pc[r] = "hit" => got[r] = verified[r]
    /\ pc[r] \in ReadSteps => got[r] = Absent

IInv == TypeOK /\ QuietInv /\ RoleInv /\ SignatureInv /\ ReaderInv

USE ConstantsAssumption, NamesAssumption

(* Nothing is there in the initial state. *)
LEMMA InitIInv == Quiet /\ Init => IInv
<1> SUFFICES ASSUME Quiet, Init PROVE IInv
  OBVIOUS
<1>1. TypeOK
  BY DEF Init, TypeOK, Entry, BuildSteps, ReadSteps, Quiet
<1>2. QuietInv /\ RoleInv /\ SignatureInv /\ ReaderInv
  BY DEF Init, QuietInv, RoleInv, SignatureInv, SignedHasSignature, ReaderInv, BuildSteps,
         BuildEnds, ReadSteps, ReadEnds
<1> QED BY <1>1, <1>2 DEF IInv

(* Every step preserves IInv. *)
LEMMA NextIInv ==
  ASSUME Quiet
  PROVE  IInv /\ [Next]_vars => IInv'
<1> SUFFICES ASSUME IInv, [Next]_vars PROVE IInv'
  OBVIOUS
<1> USE DEF IInv, TypeOK, QuietInv, RoleInv, SignatureInv, SignedHasSignature, ReaderInv,
            Entry, BuildSteps, BuildEnds, ReadSteps, ReadEnds, Goto, PkgExists, SigExists,
            PkgBroken, SigBroken, Quiet
<1>1. ASSUME NEW b \in Builder, Begin(b) PROVE IInv'
  BY <1>1 DEF Begin
<1>2. ASSUME NEW b \in Builder, DecideSig(b) PROVE IInv'
  BY <1>2 DEF DecideSig
<1>3. ASSUME NEW b \in Builder, LinkSig(b) PROVE IInv'
  BY <1>3 DEF LinkSig
<1>4. ASSUME NEW b \in Builder, ForceSig(b) PROVE IInv'
  BY <1>4 DEF ForceSig
<1>5. ASSUME NEW b \in Builder, ForcePkg(b) PROVE IInv'
  BY <1>5 DEF ForcePkg
<1>6. ASSUME NEW b \in Builder, DecidePkg(b) PROVE IInv'
  BY <1>6 DEF DecidePkg
<1>7. ASSUME NEW b \in Builder, LinkPkg(b) PROVE IInv'
  BY <1>7 DEF LinkPkg
<1>8. ASSUME NEW b \in Builder, ForceStr(b) PROVE IInv'
  BY <1>8 DEF ForceStr
<1>9. ASSUME NEW b \in Builder, Die(b) PROVE IInv'
  BY <1>9 DEF Die
<1>10. ASSUME NEW r \in Reader, Probe(r) PROVE IInv'
  BY <1>10 DEF Probe
<1>11. ASSUME NEW r \in Reader, FetchPkg(r) PROVE IInv'
  BY <1>11 DEF FetchPkg
<1>12. ASSUME NEW r \in Reader, FetchSig(r) PROVE IInv'
  BY <1>12 DEF FetchSig
<1>13. ASSUME NEW r \in Reader, IsFile(r) PROVE IInv'
  BY <1>13 DEF IsFile
<1>14. ASSUME NEW r \in Reader, Verify(r) PROVE IInv'
  BY <1>14 DEF Verify
<1>15. ASSUME NEW r \in Reader, Unpack(r) PROVE IInv'
  BY <1>15 DEF Unpack
<1>16. CASE MirrorDrops
  BY <1>16 DEF MirrorDrops
<1>17. CASE Manage
  BY <1>17 DEF Manage
<1>18. CASE CleanSstate
  BY <1>18 DEF CleanSstate
<1>19. CASE Unlink
  BY <1>19 DEF Unlink
<1>20. CASE UNCHANGED vars
  BY <1>20 DEF vars
<1> QED
  BY <1>1, <1>2, <1>3, <1>4, <1>5, <1>6, <1>7, <1>8, <1>9, <1>10, <1>11, <1>12, <1>13, <1>14, <1>15, <1>16, <1>17, <1>18, <1>19, <1>20
     DEF Next, BuilderStep, ReaderStep, Rest

(* IInv is invariant. *)
THEOREM Invariance == ASSUME Quiet PROVE Spec => []IInv
<1>1. Init => IInv
  BY InitIInv
<1>2. IInv /\ [Next]_vars => IInv'
  BY NextIInv
<1> QED BY <1>1, <1>2, PTL DEF Spec

(* Every variable keeps its type. *)
THEOREM TypeCorrect == ASSUME Quiet PROVE Spec => []TypeOK
<1>1. IInv => TypeOK
  BY DEF IInv
<1> QED BY <1>1, Invariance, PTL

(* However many builders die, the archive of a signing builder always has  *)
(* the signature of that builder beside it.                                *)
THEOREM SignedArchivesAreSigned == ASSUME Quiet PROVE Spec => []SignedHasSignature
<1>1. IInv => SignedHasSignature
  BY DEF IInv, SignatureInv
<1> QED BY <1>1, Invariance, PTL

(* However many builders move files in between, a verifying reader unpacks *)
(* the archive it verified.                                                *)
THEOREM ReadersUnpackWhatTheyVerified == ASSUME Quiet PROVE Spec => []UnpackedIsVerified
<1>1. IInv => UnpackedIsVerified
  BY DEF IInv, ReaderInv, UnpackedIsVerified
<1> QED BY <1>1, Invariance, PTL

-----------------------------------------------------------------------------
(* The protocol starts as an empty store. *)
LEMMA InitStore == Init => Store!Init
BY DEF Init, Store!Init, Object, PkgExists

(* A step that places a file leaves a published object alone, and publishes *)
(* at most the object that is then in place.                               *)
LEMMA PlacePublishes ==
  ASSUME Object' # Object => Object = Absent, Object' \in Entry,
         UNCHANGED got
  PROVE  [Store!Next]_<<Object, [r \in Verifies |-> got[r]]>>
<1>1. CASE Object' = Object
  BY <1>1
<1>2. CASE Object' # Object
  <2>1. Object' \in Builder \cup {Mirror}
    BY <1>2 DEF Entry
  <2>2. Store!Publish(Object')
    BY <1>2 DEF Store!Publish
  <2> QED BY <2>1, <2>2 DEF Store!Next
<1> QED BY <1>1, <1>2

(* Every step is a step of the store or leaves the store alone. *)
LEMMA NextStore ==
  ASSUME Quiet, IInv, IInv', [Next]_vars
  PROVE  [Store!Next]_<<Object, [r \in Verifies |-> got[r]]>>
<1> USE DEF IInv, TypeOK, QuietInv, Entry, PkgExists, SigExists, Object
<1> DEFINE Stutters == UNCHANGED <<pkg, sig, served, got>>
<1>1. CASE Stutters
  BY <1>1
<1>2. ASSUME NEW b \in Builder, LinkSig(b) \/ ForcePkg(b) \/ LinkPkg(b)
      PROVE  [Store!Next]_<<Object, [r \in Verifies |-> got[r]]>>
  <2>1. UNCHANGED got /\ Object' \in Entry
    BY <1>2 DEF LinkSig, ForcePkg, LinkPkg
  <2>2. Object' # Object => Object = Absent
    BY <1>2 DEF LinkSig, ForcePkg, LinkPkg, SignatureInv
  <2> QED BY <2>1, <2>2, PlacePublishes
<1>3. ASSUME NEW r \in Reader, FetchPkg(r) \/ FetchSig(r)
      PROVE  [Store!Next]_<<Object, [u \in Verifies |-> got[u]]>>
  <2>1. UNCHANGED got /\ Object' \in Entry
    BY <1>3 DEF FetchPkg, FetchSig
  <2>2. Object' # Object => Object = Absent
    BY <1>3 DEF FetchPkg, FetchSig
  <2> QED BY <2>1, <2>2, PlacePublishes
<1>4. ASSUME NEW r \in Reader, Unpack(r), r \in Verifies
      PROVE  [Store!Next]_<<Object, [u \in Verifies |-> got[u]]>>
  <2>1. Object = pkg /\ pkg # Absent /\ got[r] = Absent /\ got' = [got EXCEPT ![r] = pkg]
    BY <1>4 DEF Unpack, ReaderInv, ReadSteps
  <2>2. Object' = Object
    BY <1>4 DEF Unpack
  <2>3. [u \in Verifies |-> got[u]]' = [[u \in Verifies |-> got[u]] EXCEPT ![r] = Object]
    BY <2>1
  <2>4. Store!Use(r)
    BY <1>4, <2>1, <2>2, <2>3 DEF Store!Use
  <2> QED BY <1>4, <2>4 DEF Store!Next
<1>5. ASSUME NEW r \in Reader, Unpack(r), r \notin Verifies
      PROVE  [Store!Next]_<<Object, [u \in Verifies |-> got[u]]>>
  BY <1>5 DEF Unpack
<1>6. ASSUME NEW b \in Builder, Begin(b) \/ DecideSig(b) \/ DecidePkg(b) \/ ForceStr(b) \/ Die(b)
      PROVE  Stutters
  BY <1>6 DEF Begin, DecideSig, DecidePkg, ForceStr, Die
<1>7. ASSUME NEW r \in Reader, Probe(r) \/ IsFile(r) \/ Verify(r) PROVE Stutters
  BY <1>7 DEF Probe, IsFile, Verify
<1>8. ~MirrorDrops /\ ~Manage /\ ~CleanSstate /\ ~Unlink
  BY DEF Quiet, MirrorDrops, Manage, CleanSstate, Unlink
<1>9. ~(\E b \in Builder : ForceSig(b))
  BY DEF ForceSig
<1>10. CASE UNCHANGED vars
  BY <1>10 DEF vars
<1> QED
  BY <1>1, <1>2, <1>3, <1>4, <1>5, <1>6, <1>7, <1>8, <1>9, <1>10
     DEF Next, BuilderStep, ReaderStep, Rest

(* The protocol implements the write-once store, whoever dies, for any     *)
(* number of builders that sign or do not, readers, and with or without a  *)
(* mirror: a signed pair that is in place is never exchanged.              *)
THEOREM Implementation == ASSUME Quiet PROVE Spec => ImplementsStore
<1>1. Init => Store!Init
  BY InitStore
<1>2. IInv /\ IInv' /\ [Next]_vars => [Store!Next]_<<Object, [r \in Verifies |-> got[r]]>>
  BY NextStore
<1> QED BY <1>1, <1>2, Invariance, PTL DEF Spec, ImplementsStore, Store!Spec

-----------------------------------------------------------------------------
(* Without a mirror nothing but the builders writes, and a signature in    *)
(* place is on its way to a matching pair.                                 *)
Local == Quiet /\ Served = {} /\ MaxDeaths = 0

PairInv ==
  /\ \A b \in Builder : pc[b] # "dead"
  /\ pkg # Mirror /\ sig # Mirror
  /\ \A b \in Builder : sig = b => pc[b] = "force_pkg" \/ pkg = b

(* Every step preserves PairInv. *)
LEMMA NextPairInv ==
  ASSUME Local, IInv, PairInv, [Next]_vars
  PROVE  PairInv'
<1> USE DEF IInv, TypeOK, QuietInv, RoleInv, SignatureInv, PairInv, Local, Quiet, Goto, Entry,
            PkgExists, SigExists, PkgBroken, SigBroken
<1>1. ASSUME NEW b \in Builder, BuilderStep(b) PROVE PairInv'
  <2>1. CASE Begin(b) \/ DecideSig(b) \/ DecidePkg(b) \/ ForceStr(b)
    BY <2>1 DEF Begin, DecideSig, DecidePkg, ForceStr
  <2>2. CASE LinkSig(b)
    BY <2>2 DEF LinkSig
  <2>3. CASE ForceSig(b)
    BY <2>3 DEF ForceSig
  <2>4. CASE ForcePkg(b)
    BY <2>4 DEF ForcePkg
  <2>5. CASE LinkPkg(b)
    BY <2>5 DEF LinkPkg
  <2> QED BY <1>1, <2>1, <2>2, <2>3, <2>4, <2>5 DEF BuilderStep
<1>2. ASSUME NEW b \in Builder, Die(b) PROVE PairInv'
  BY <1>2 DEF Die
<1>3. ASSUME NEW r \in Reader, ReaderStep(r) PROVE PairInv'
  BY <1>3 DEF ReaderStep, Probe, FetchPkg, FetchSig, IsFile, Verify, Unpack
<1>4. ~MirrorDrops /\ ~Manage /\ ~CleanSstate /\ ~Unlink
  BY DEF MirrorDrops, Manage, CleanSstate, Unlink
<1>5. CASE UNCHANGED vars
  BY <1>5 DEF vars
<1> QED BY <1>1, <1>2, <1>3, <1>4, <1>5 DEF Next, Rest

(* In a cache without a mirror the signature beside an archive is the      *)
(* archive's own whenever no builder is at work, however builders that     *)
(* sign and builders that do not race.                                     *)
THEOREM PairsMatch == ASSUME Local PROVE Spec => []PairMatches
<1>1. Init => PairInv
  BY DEF Init, PairInv
<1>2. IInv /\ PairInv /\ [Next]_vars => PairInv'
  BY NextPairInv
<1>3. IInv /\ PairInv => PairMatches
  BY DEF IInv, TypeOK, Entry, PairInv, PairMatches, Busy, BuildSteps, PkgExists, SigExists
<1>4. Spec => []IInv
  BY Invariance DEF Local
<1> QED BY <1>1, <1>2, <1>3, <1>4, PTL DEF Spec

(* In such a cache a builder gives its archive up only when an archive is  *)
(* in place or the builder whose signature it found is about to place one, *)
(* so nobody's work is lost for nothing.                                   *)
THEOREM NothingGivenUpForNothing == ASSUME Local PROVE Spec => GivesUpForAnother
<1> DEFINE Another == \A b \in Builder : pc[b] # "gave_up" /\ pc'[b] = "gave_up" =>
                        PkgExists \/ \E a \in Builder : pc[a] = "force_pkg"
<1>1. Init => PairInv
  BY DEF Init, PairInv
<1>2. IInv /\ PairInv /\ [Next]_vars => PairInv'
  BY NextPairInv
<1>3. IInv /\ PairInv /\ [Next]_vars => [Another]_vars
  <2> SUFFICES ASSUME IInv, PairInv, Next PROVE Another
    OBVIOUS
  <2> SUFFICES ASSUME NEW b \in Builder, pc[b] # "gave_up", pc'[b] = "gave_up"
               PROVE  PkgExists \/ \E a \in Builder : pc[a] = "force_pkg"
    OBVIOUS
  <2> USE DEF IInv, TypeOK, Entry, QuietInv, PairInv, PkgExists, Goto
  <2>1. ASSUME NEW a \in Builder, Begin(a) \/ DecideSig(a) \/ ForceSig(a) \/ ForcePkg(a)
                                     \/ DecidePkg(a) \/ ForceStr(a) \/ Die(a)
        PROVE  FALSE
    BY <2>1 DEF Begin, DecideSig, ForceSig, ForcePkg, DecidePkg, ForceStr, Die
  <2>2. ASSUME NEW a \in Builder, LinkSig(a)
        PROVE  PkgExists \/ \E o \in Builder : pc[o] = "force_pkg"
    <3>1. sig \in Builder
      BY <2>2 DEF LinkSig
    <3> QED BY <3>1
  <2>3. ASSUME NEW a \in Builder, LinkPkg(a) PROVE PkgExists
    BY <2>3 DEF LinkPkg
  <2>4. ASSUME NEW r \in Reader, ReaderStep(r) PROVE FALSE
    BY <2>4 DEF ReaderStep, Probe, FetchPkg, FetchSig, IsFile, Verify, Unpack
  <2>5. CASE MirrorDrops \/ Manage \/ CleanSstate \/ Unlink \/ Rest
    BY <2>5 DEF MirrorDrops, Manage, CleanSstate, Unlink, Rest, vars
  <2> QED BY <2>1, <2>2, <2>3, <2>4, <2>5 DEF Next, BuilderStep
<1>4. Spec => []IInv
  BY Invariance DEF Local
<1> QED BY <1>1, <1>2, <1>3, <1>4, PTL DEF Spec, GivesUpForAnother

-----------------------------------------------------------------------------
(* A cache in which the mirror drops files, builders die and clean-ups run *)
(* at any step.                                                            *)
AnyInv ==
  /\ TypeOK
  /\ \A b \in Builder : pc[b] \in {"move_sig", "link_sig", "force_sig", "force_pkg"} => b \in Signs

(* AnyInv is invariant, whatever happens. *)
LEMMA AnyInvariance == Spec => []AnyInv
<1>1. Init => AnyInv
  BY DEF Init, AnyInv, TypeOK, Entry, BuildSteps, ReadSteps
<1>2. AnyInv /\ [Next]_vars => AnyInv'
  <2> SUFFICES ASSUME AnyInv, [Next]_vars PROVE AnyInv'
    OBVIOUS
  <2> USE DEF AnyInv, TypeOK, Entry, BuildSteps, BuildEnds, ReadSteps, ReadEnds, Goto
  <2>1. ASSUME NEW b \in Builder, Begin(b) \/ DecideSig(b) \/ DecidePkg(b) \/ ForceStr(b)
        PROVE  AnyInv'
    BY <2>1 DEF Begin, DecideSig, DecidePkg, ForceStr
  <2>2. ASSUME NEW b \in Builder, LinkSig(b) \/ ForceSig(b) \/ ForcePkg(b) \/ LinkPkg(b)
        PROVE  AnyInv'
    BY <2>2 DEF LinkSig, ForceSig, ForcePkg, LinkPkg
  <2>3. ASSUME NEW b \in Builder, Die(b) PROVE AnyInv'
    BY <2>3 DEF Die
  <2>4. ASSUME NEW r \in Reader, Probe(r) \/ FetchPkg(r) \/ FetchSig(r) \/ IsFile(r)
        PROVE  AnyInv'
    BY <2>4 DEF Probe, FetchPkg, FetchSig, IsFile
  <2>5. ASSUME NEW r \in Reader, Verify(r) PROVE AnyInv'
    BY <2>5 DEF Verify
  <2>6. ASSUME NEW r \in Reader, Unpack(r) PROVE AnyInv'
    BY <2>6 DEF Unpack
  <2>7. CASE MirrorDrops
    BY <2>7 DEF MirrorDrops
  <2>8. CASE Manage
    BY <2>8 DEF Manage
  <2>9. CASE CleanSstate
    BY <2>9 DEF CleanSstate
  <2>10. CASE Unlink
    BY <2>10 DEF Unlink
  <2>11. CASE UNCHANGED vars
    BY <2>11 DEF vars
  <2> QED
    BY <2>1, <2>2, <2>3, <2>4, <2>5, <2>6, <2>7, <2>8, <2>9, <2>10, <2>11
       DEF Next, BuilderStep, ReaderStep, Rest
<1> QED BY <1>1, <1>2, PTL DEF Spec

(* Whatever dies, breaks or is cleaned, an archive a builder has put in    *)
(* place is exchanged by nobody but a builder that signs: neither a        *)
(* builder that does not, nor a fetch from the mirror.                     *)
THEOREM OnlySignersExchange == Spec => ExchangedBySigners
<1> DEFINE Exchange == pkg' # pkg /\ pkg \in Builder => pkg' \in Signs \cup {Absent}
<1>1. AnyInv /\ [Next]_vars => [Exchange]_vars
  <2> SUFFICES ASSUME AnyInv, Next PROVE Exchange
    OBVIOUS
  <2>1. ASSUME NEW b \in Builder, BuilderStep(b) \/ Die(b) PROVE Exchange
    BY <2>1 DEF AnyInv, BuilderStep, Begin, DecideSig, LinkSig, ForceSig, ForcePkg, DecidePkg,
                LinkPkg, ForceStr, Die
  <2>2. ASSUME NEW r \in Reader, ReaderStep(r) PROVE Exchange
    BY <2>2 DEF ReaderStep, Probe, FetchPkg, FetchSig, IsFile, Verify, Unpack
  <2>3. CASE MirrorDrops \/ Manage \/ CleanSstate \/ Unlink \/ Rest
    BY <2>3 DEF MirrorDrops, Manage, CleanSstate, Unlink, Rest, vars
  <2> QED BY <2>1, <2>2, <2>3 DEF Next
<1> QED BY <1>1, AnyInvariance, PTL DEF Spec, ExchangedBySigners
=============================================================================
