---------------------------- MODULE SstateObject -----------------------------
(***************************************************************************)
(* One object of an sstate cache that several builds share: the archive    *)
(* SSTATE_PKG and its signature SSTATE_PKG.sig.                            *)
(*                                                                         *)
(* A builder runs sstate_create_and_sign_package: it looks whether the     *)
(* object exists, archives into a temporary file and moves that into place *)
(* with update_file (os.link, or rename by force over a broken symbolic    *)
(* link).  A signing builder moves the signature first and the archive     *)
(* after it.  A reader runs sstate_installpkg: it fetches what is missing  *)
(* from the mirror, checks, verifies and unpacks.  A mirror on a file      *)
(* system is fetched as a symbolic link, which breaks when the mirror      *)
(* drops the file.  sstate-cache-management.py removes archives but no     *)
(* .sig; do_cleansstate removes both.                                      *)
(*                                                                         *)
(* Two archives of one object differ (time stamps, compression), so an     *)
(* archive is named by the builder that made it, and the signature too.    *)
(***************************************************************************)
EXTENDS Naturals

CONSTANTS
  Builder, Reader,
  Signs,       \* builders with SSTATE_VERIFY_SIG and SSTATE_SIG_KEY
  Verifies,    \* readers with SSTATE_VERIFY_SIG
  Absent,      \* no such file
  Mirror,      \* a symbolic link to the file of the mirror
  Served,      \* what the mirror has at first: "pkg", "sig"
  MaxDrops,    \* bound: files the mirror drops
  MaxDeaths,   \* bound: builders that die
  MaxCleanups  \* bound: runs of the cache manager and of do_cleansstate

ASSUME ConstantsAssumption ==
  /\ Signs \subseteq Builder /\ Verifies \subseteq Reader
  /\ Served \subseteq {"pkg", "sig"}
  /\ MaxDrops \in Nat /\ MaxDeaths \in Nat /\ MaxCleanups \in Nat

ASSUME NamesAssumption ==
  /\ Absent \notin Builder /\ Mirror \notin Builder /\ Absent # Mirror
  /\ Builder \cap Reader = {}

VARIABLES
  pkg, sig,  \* the two directory entries
  served,    \* what the mirror still has
  pc,        \* pc[p]: the next step of builder or reader p
  verified,  \* verified[r]: the archive r has verified
  got,       \* got[r]: the archive r has unpacked
  listed,    \* the entries a clean-up has still to unlink
  drops, deaths, cleanups

vars == <<pkg, sig, served, pc, verified, got, listed, drops, deaths, cleanups>>

BuildSteps == {"begin", "move_sig", "link_sig", "force_sig", "force_pkg",
               "move_pkg", "link_pkg", "force_str"}
BuildEnds  == {"reused", "published", "gave_up", "dead"}
ReadSteps  == {"probe", "fetch_pkg", "fetch_sig", "isfile", "verify", "unpack"}
ReadEnds   == {"hit", "miss", "failed"}
Entry      == Builder \cup {Absent, Mirror}

(* os.path.exists follows links, os.link does not. *)
PkgExists == pkg # Absent /\ (pkg = Mirror => "pkg" \in served)
SigExists == sig # Absent /\ (sig = Mirror => "sig" \in served)
PkgBroken == pkg = Mirror /\ "pkg" \notin served
SigBroken == sig = Mirror /\ "sig" \notin served

Goto(p, s) == pc' = [pc EXCEPT ![p] = s]

-----------------------------------------------------------------------------
Init ==
  /\ pkg = Absent /\ sig = Absent
  /\ served = Served
  /\ pc = [p \in Builder \cup Reader |-> IF p \in Builder THEN "begin" ELSE "probe"]
  /\ verified = [r \in Reader |-> Absent]
  /\ got = [r \in Reader |-> Absent]
  /\ listed = {}
  /\ drops = 0 /\ deaths = 0 /\ cleanups = 0

(***************************************************************************)
(* Builders.                                                               *)
(***************************************************************************)
Begin(b) ==
  /\ pc[b] = "begin"
  /\ Goto(b, IF PkgExists /\ (b \in Signs => SigExists) THEN "reused"
             ELSE IF b \in Signs THEN "move_sig" ELSE "move_pkg")
  /\ UNCHANGED <<pkg, sig, served, verified, got, listed, drops, deaths, cleanups>>

(* update_file decides first whether it moves by force. *)
DecideSig(b) ==
  /\ pc[b] = "move_sig"
  /\ Goto(b, IF SigBroken THEN "force_sig" ELSE "link_sig")
  /\ UNCHANGED <<pkg, sig, served, verified, got, listed, drops, deaths, cleanups>>

(* Mutants of LinkSig: the result of the link is ignored, or negated. *)
LinkSigUnchecked(b) ==
  /\ pc[b] = "link_sig"
  /\ sig' = IF sig = Absent THEN b ELSE sig
  /\ Goto(b, "force_pkg")
  /\ UNCHANGED <<pkg, served, verified, got, listed, drops, deaths, cleanups>>

LinkSigNegated(b) ==
  /\ pc[b] = "link_sig"
  /\ sig' = IF sig = Absent THEN b ELSE sig
  /\ Goto(b, IF sig = Absent THEN "gave_up" ELSE "force_pkg")
  /\ UNCHANGED <<pkg, served, verified, got, listed, drops, deaths, cleanups>>

LinkSig(b) ==
  /\ pc[b] = "link_sig"
  /\ sig' = IF sig = Absent THEN b ELSE sig
  /\ Goto(b, IF sig = Absent THEN "force_pkg" ELSE "gave_up")
  /\ UNCHANGED <<pkg, served, verified, got, listed, drops, deaths, cleanups>>

ForceSig(b) ==
  /\ pc[b] = "force_sig"
  /\ sig' = b
  /\ Goto(b, "force_pkg")
  /\ UNCHANGED <<pkg, served, verified, got, listed, drops, deaths, cleanups>>

ForcePkg(b) ==
  /\ pc[b] = "force_pkg"
  /\ pkg' = b
  /\ Goto(b, "published")
  /\ UNCHANGED <<sig, served, verified, got, listed, drops, deaths, cleanups>>

DecidePkg(b) ==
  /\ pc[b] = "move_pkg"
  /\ Goto(b, IF PkgBroken THEN "force_str" ELSE "link_pkg")
  /\ UNCHANGED <<pkg, sig, served, verified, got, listed, drops, deaths, cleanups>>

(* Mutants of LinkPkg: an archive in place is overwritten; a failed link   *)
(* removes its destination.                                                *)
RenamePkg(b) ==
  /\ pc[b] = "link_pkg"
  /\ pkg' = b
  /\ Goto(b, "published")
  /\ UNCHANGED <<sig, served, verified, got, listed, drops, deaths, cleanups>>

LinkPkgCleansUp(b) ==
  /\ pc[b] = "link_pkg"
  /\ pkg' = IF pkg = Absent THEN b ELSE Absent
  /\ Goto(b, IF pkg = Absent THEN "published" ELSE "gave_up")
  /\ UNCHANGED <<sig, served, verified, got, listed, drops, deaths, cleanups>>

LinkPkg(b) ==
  /\ pc[b] = "link_pkg"
  /\ pkg' = IF pkg = Absent THEN b ELSE pkg
  /\ Goto(b, IF pkg = Absent THEN "published"
             ELSE IF PkgExists THEN "reused" ELSE "gave_up")
  /\ UNCHANGED <<sig, served, verified, got, listed, drops, deaths, cleanups>>

(* The unsigned branch passes a str: src.rename raises AttributeError,     *)
(* which update_file swallows.                                             *)
ForceStr(b) ==
  /\ pc[b] = "force_str"
  /\ Goto(b, IF PkgExists THEN "reused" ELSE "gave_up")
  /\ UNCHANGED <<pkg, sig, served, verified, got, listed, drops, deaths, cleanups>>

Die(b) ==
  /\ deaths < MaxDeaths
  /\ pc[b] \in BuildSteps
  /\ deaths' = deaths + 1
  /\ Goto(b, "dead")
  /\ UNCHANGED <<pkg, sig, served, verified, got, listed, drops, cleanups>>

(***************************************************************************)
(* Readers.                                                                *)
(***************************************************************************)
Probe(r) ==
  /\ pc[r] = "probe"
  /\ Goto(r, IF PkgExists /\ (r \in Verifies => SigExists) THEN "isfile" ELSE "fetch_pkg")
  /\ UNCHANGED <<pkg, sig, served, verified, got, listed, drops, deaths, cleanups>>

(* Mutant of FetchPkg: the archive is fetched under the name of the reader. *)
FetchPkgAs(r) ==
  /\ pc[r] = "fetch_pkg"
  /\ pkg' = IF pkg = Absent /\ "pkg" \in served THEN r ELSE pkg
  /\ Goto(r, IF r \in Verifies THEN "fetch_sig" ELSE "isfile")
  /\ UNCHANGED <<sig, served, verified, got, listed, drops, deaths, cleanups>>

FetchPkg(r) ==
  /\ pc[r] = "fetch_pkg"
  /\ pkg' = IF pkg = Absent /\ "pkg" \in served THEN Mirror ELSE pkg
  /\ Goto(r, IF r \in Verifies THEN "fetch_sig" ELSE "isfile")
  /\ UNCHANGED <<sig, served, verified, got, listed, drops, deaths, cleanups>>

FetchSig(r) ==
  /\ pc[r] = "fetch_sig"
  /\ sig' = IF sig = Absent /\ "sig" \in served THEN Mirror ELSE sig
  /\ Goto(r, "isfile")
  /\ UNCHANGED <<pkg, served, verified, got, listed, drops, deaths, cleanups>>

IsFile(r) ==
  /\ pc[r] = "isfile"
  /\ Goto(r, IF ~PkgExists THEN "miss" ELSE IF r \in Verifies THEN "verify" ELSE "unpack")
  /\ UNCHANGED <<pkg, sig, served, verified, got, listed, drops, deaths, cleanups>>

Verify(r) ==
  /\ pc[r] = "verify"
  /\ IF PkgExists /\ SigExists /\ sig = pkg
       THEN verified' = [verified EXCEPT ![r] = pkg] /\ Goto(r, "unpack")
       ELSE UNCHANGED verified /\ Goto(r, "miss")
  /\ UNCHANGED <<pkg, sig, served, got, listed, drops, deaths, cleanups>>

Unpack(r) ==
  /\ pc[r] = "unpack"
  /\ IF PkgExists
       THEN got' = [got EXCEPT ![r] = pkg] /\ Goto(r, "hit")
       ELSE UNCHANGED got /\ Goto(r, "failed")
  /\ UNCHANGED <<pkg, sig, served, verified, listed, drops, deaths, cleanups>>

(***************************************************************************)
(* The mirror and the clean-ups.                                           *)
(***************************************************************************)
MirrorDrops ==
  /\ drops < MaxDrops
  /\ \E f \in served : served' = served \ {f}
  /\ drops' = drops + 1
  /\ UNCHANGED <<pkg, sig, pc, verified, got, listed, deaths, cleanups>>

(* SSTATE_SUFFIXES does not name .sig. *)
Manage ==
  /\ cleanups < MaxCleanups /\ listed = {}
  /\ pkg # Absent
  /\ listed' = {"pkg"}
  /\ cleanups' = cleanups + 1
  /\ UNCHANGED <<pkg, sig, served, pc, verified, got, drops, deaths>>

CleanSstate ==
  /\ cleanups < MaxCleanups /\ listed = {}
  /\ listed' = {f \in {"pkg", "sig"} : \/ f = "pkg" /\ pkg # Absent
                                       \/ f = "sig" /\ sig # Absent}
  /\ cleanups' = cleanups + 1
  /\ UNCHANGED <<pkg, sig, served, pc, verified, got, drops, deaths>>

Unlink ==
  /\ \E f \in listed :
       /\ listed' = listed \ {f}
       /\ pkg' = IF f = "pkg" THEN Absent ELSE pkg
       /\ sig' = IF f = "sig" THEN Absent ELSE sig
  /\ UNCHANGED <<served, pc, verified, got, drops, deaths, cleanups>>

(* Every build has ended. *)
Rest ==
  /\ \A p \in Builder \cup Reader : pc[p] \in BuildEnds \cup ReadEnds
  /\ UNCHANGED vars

BuilderStep(b) ==
  \/ Begin(b) \/ DecideSig(b) \/ LinkSig(b) \/ ForceSig(b) \/ ForcePkg(b)
  \/ DecidePkg(b) \/ LinkPkg(b) \/ ForceStr(b)

ReaderStep(r) ==
  Probe(r) \/ FetchPkg(r) \/ FetchSig(r) \/ IsFile(r) \/ Verify(r) \/ Unpack(r)

Next ==
  \/ \E b \in Builder : BuilderStep(b)
  \/ \E b \in Builder : Die(b)
  \/ \E r \in Reader : ReaderStep(r)
  \/ MirrorDrops
  \/ Manage \/ CleanSstate \/ Unlink
  \/ Rest

Spec == Init /\ [][Next]_vars

(* Every process is scheduled. *)
FairSpec ==
  /\ Spec
  /\ \A b \in Builder : WF_vars(BuilderStep(b))
  /\ \A r \in Reader : WF_vars(ReaderStep(r))

-----------------------------------------------------------------------------
(* Every variable has its type. *)
TypeOK ==
  /\ pkg \in Entry /\ sig \in Entry
  /\ served \subseteq Served
  /\ pc \in [Builder \cup Reader -> BuildSteps \cup BuildEnds \cup ReadSteps \cup ReadEnds]
  /\ verified \in [Reader -> Entry]
  /\ got \in [Reader -> Entry]
  /\ listed \subseteq {"pkg", "sig"}
  /\ drops \in 0 .. MaxDrops /\ deaths \in 0 .. MaxDeaths /\ cleanups \in 0 .. MaxCleanups

Busy(b) == pc[b] \in BuildSteps

(* "If the .sig file was updated, then the sstate package must also be     *)
(* updated": in a local cache without mirror and without deaths, when no   *)
(* builder is at work, a signature next to an archive is the signature of   *)
(* that archive, whether builders that sign or that do not raced for the   *)
(* object.  A mismatch would stay: every later builder finds both files     *)
(* and leaves them.  With a mirror it is false: a builder that does not     *)
(* sign places its archive between a reader's fetches of archive and .sig. *)
PairMatches ==
  (\A b \in Builder : ~Busy(b)) /\ PkgExists /\ SigExists => sig = pkg

(* A builder gives its archive up only because another archive is in       *)
(* place or a builder at work has placed its signature and will place the  *)
(* archive.                                                                *)
GivesUpForAnother ==
  [][\A b \in Builder : pc[b] # "gave_up" /\ pc'[b] = "gave_up" =>
       PkgExists \/ \E a \in Builder : pc[a] = "force_pkg"]_vars

(* update_file moves by force over a broken link: "update_file() may have  *)
(* renamed tmp_pkg".                                                       *)
ForcedMoveHappens ==
  [][\A b \in Builder :
       pc[b] \in {"force_sig", "force_pkg", "force_str"} /\ pc'[b] \notin {pc[b], "dead"} =>
         sig' = b \/ pkg' = b]_vars

(* A builder that dies never leaves a signed archive without its own       *)
(* signature beside it, because the signature is moved first and nobody    *)
(* replaces it.                                                            *)
SignedHasSignature == pkg \in Signs => sig = pkg

(* An archive that a builder has put in place can be cleaned away, and a   *)
(* builder that signs can exchange it; nobody else ever does, whatever     *)
(* dies, breaks or is cleaned.                                             *)
ExchangedBySigners ==
  [][pkg' # pkg /\ pkg \in Builder => pkg' \in Signs \cup {Absent}]_vars

(* What a verifying reader unpacks is the archive it verified, although    *)
(* the two steps read the file twice and builders move files in between.   *)
UnpackedIsVerified ==
  \A r \in Verifies : pc[r] = "hit" => got[r] = verified[r]

(* The object is eventually there when every builder ends. *)
EventuallyAvailable == Builder # {} => <>[](PkgExists)

(* The signed object is the write-once store of SstateStore: the object is *)
(* there when its archive and signature match.                             *)
Object == IF PkgExists /\ SigExists /\ sig = pkg THEN pkg ELSE Absent

Store == INSTANCE SstateStore WITH
  Content <- Builder \cup {Mirror}, User <- Verifies, Nothing <- Absent,
  obj <- Object, used <- [r \in Verifies |-> got[r]]

(* The protocol implements the store. *)
ImplementsStore == Store!Spec
=============================================================================
