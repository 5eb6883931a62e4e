---------------------------- MODULE AppxRemoval ----------------------------
(***************************************************************************)
(* Removing provisioned packages from an image (src/appx): the provisioning  *)
(* list, the Applications and Deprovisioned keys of the SOFTWARE hive, the    *)
(* directories under WindowsApps.  A caller may leave any of the last three    *)
(* out.  A full name is a family and a variant; the list compares families as  *)
(* they are spelled, registry and tree up to case.                             *)
(***************************************************************************)
EXTENDS SequencesExt

CONSTANTS
    Factory,            \* images to begin with
    Families,           \* families a caller may name; "" is none
    FoldFamily,         \* the families up to case
    MaxRemovals         \* bound: calls made

VARIABLES
    factory,            \* the image to begin with
    Provisioned,        \* the list: full names
    EndOfLife,          \* the list of blocked families
    applications,       \* the Applications subkeys, up to case
    deprovisioned,      \* the Deprovisioned subkeys, up to case
    folders,            \* the directories under WindowsApps, up to case
    removals            \* the calls made

appxVars == <<factory, Provisioned, EndOfLife, applications, deprovisioned, folders, removals>>

Parts == {"applications", "deprovisioned", "root"}

\* A full name has a publisher in its family, so no family is empty.
ASSUME AppxAssumption ==
    \A f \in Factory :
        /\ f.listed \in Seq(ToSet(f.listed))
        /\ \A n \in ToSet(f.listed) : n.wellFormed \in BOOLEAN /\ n.family # ""
        /\ f.endOfLife \in Seq(ToSet(f.endOfLife))

Folded(n) == [n EXCEPT !.family = FoldFamily[@]]

\* FamilyNameFromFullName fails on a name that has not five parts.
Belongs(n, family) == n.wellFormed /\ n.family = family

\* The entries of a list that are in a set.
Kept(list, S) ==
    LET upTo[i \in 0 .. Len(list)] ==
          IF i = 0 THEN <<>>
          ELSE IF list[i] \in S THEN Append(upTo[i - 1], list[i]) ELSE upTo[i - 1]
    IN  upTo[Len(list)]

AppxInit ==
    /\ factory \in Factory
    /\ Provisioned = factory.listed
    /\ EndOfLife = factory.endOfLife
    /\ applications = factory.applications
    /\ deprovisioned = {}
    /\ folders = factory.folders
    /\ removals = <<>>

\* Mutant: nothing marks a family of which nothing is listed.
MarkIfListed(family, given, listed) ==
    deprovisioned' = IF "deprovisioned" \in given /\ listed # {}
                     THEN deprovisioned \cup {FoldFamily[family]} ELSE deprovisioned

Mark(family, given, listed) ==
    deprovisioned' = IF "deprovisioned" \in given
                     THEN deprovisioned \cup {FoldFamily[family]} ELSE deprovisioned

\* appx.Remove.
RemoveFamily(family, addEndOfLife, given) ==
    LET found   == {n \in ToSet(Provisioned) : Belongs(n, family)}
        removed == {Folded(n) : n \in found}
    IN  /\ Len(removals) < MaxRemovals
        /\ IF family = "" THEN UNCHANGED <<Provisioned, EndOfLife, applications, deprovisioned, folders>>
           ELSE /\ Provisioned' = Kept(Provisioned, ToSet(Provisioned) \ found)
                /\ EndOfLife' = IF addEndOfLife /\ ~Contains(EndOfLife, family)
                                THEN Append(EndOfLife, family) ELSE EndOfLife
                /\ applications' = IF "applications" \in given THEN applications \ removed ELSE applications
                /\ Mark(family, given, removed)
                /\ folders' = IF "root" \in given THEN folders \ removed ELSE folders
        /\ removals' = Append(removals, [family |-> family, endOfLife |-> addEndOfLife, given |-> given])
        /\ UNCHANGED factory

AppxNext ==
    \E family \in Families, addEndOfLife \in BOOLEAN, given \in SUBSET Parts :
        RemoveFamily(family, addEndOfLife, given)

-----------------------------------------------------------------------------
(* Properties *)

FirstRemoval(n) == SelectInSeq(removals, LAMBDA r : Belongs(n, r.family))

\* Those of some names that were listed under a spelling whose first removal was given
\* a part of the image.
Reached(names, part) ==
    {m \in names : \E n \in ToSet(factory.listed) :
        Folded(n) = m /\ FirstRemoval(n) # 0 /\ part \in removals[FirstRemoval(n)].given}

\* What is left of a provisioned package is decided by the first call that names its
\* family: the package is off the list for good, and gone from the parts that call was
\* given and from no other; no later call brings anything back, finds anything to
\* remove, or touches another family, one that differs in case included.  Every family
\* named is marked wherever the marker was asked for, once, and stays so: a list of
\* blocked families without repetitions never gets any
\* (src/appx/remove.go:86, provisioning.go).
FirstRemovalDecides ==
    /\ Provisioned = Kept(factory.listed, {n \in ToSet(factory.listed) : FirstRemoval(n) = 0})
    /\ applications = factory.applications \ Reached(factory.applications, "applications")
    /\ folders = factory.folders \ Reached(factory.folders, "root")
    /\ LET named(f) == f # ""
           marked == {i \in DOMAIN removals : named(removals[i].family)}
       IN  /\ deprovisioned = {FoldFamily[removals[i].family] :
                                 i \in {j \in marked : "deprovisioned" \in removals[j].given}}
           /\ IsPrefix(factory.endOfLife, EndOfLife)
           /\ IsInjective(factory.endOfLife) => IsInjective(EndOfLife)
           /\ ToSet(EndOfLife) = ToSet(factory.endOfLife)
                \cup {removals[i].family : i \in {j \in marked : removals[j].endOfLife}}
=============================================================================
