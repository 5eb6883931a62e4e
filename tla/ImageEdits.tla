---------------------------- MODULE ImageEdits ----------------------------
(***************************************************************************)
(* Editing an image, seen twice: what the calls do to the counts of its      *)
(* blobs (ImageRefs), and where the bytes of each blob are found when the    *)
(* result is written (BlobSources).  The two have only the caller in common: *)
(* a count decides nothing in WriteTo, which writes every entry it is given. *)
(***************************************************************************)
EXTENDS ImageRefs, BlobSources

VARIABLE view      \* which of the two is looked at

editVars == <<view, vars, sourceVars>>

EditInit ==
    /\ Init /\ SourcesInit
    /\ \/ view = "counts" /\ images = <<{}>> /\ cur = 1
       \/ view = "bytes" /\ tree = [p \in {Hive} |-> <<>>]

EditNext ==
    \/ view = "counts" /\ Next /\ UNCHANGED <<view, sourceVars>>
    \/ view = "bytes" /\ SourcesNext /\ UNCHANGED <<view, vars>>

EditSpec == EditInit /\ [][EditNext]_editVars
=============================================================================
