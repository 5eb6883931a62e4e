---------------------------- MODULE SerialEncode ----------------------------
(***************************************************************************)
(* What wim.WriteTo promises about the content blobs of a blob table: the  *)
(* observable behaviour of the plain loop "for each entry, fetch it, encode *)
(* it, write it", which stops at the first entry that cannot be fetched,   *)
(* encoded or written.  There are no goroutines and no channels here; the  *)
(* module BlobPipeline is shown to implement this specification.           *)
(***************************************************************************)
EXTENDS Naturals

CONSTANT NumBlobs   \* len(bt.Entries) when WriteTo is called

Blob == 1 .. NumBlobs

VARIABLES
  fault,      \* fault[i]: what goes wrong with blob i, or "none"
  taken,      \* the blobs written so far, always a prefix of the table
  failedAt    \* the blob WriteTo returned an error for, or 0

serialVars == <<fault, taken, failedAt>>

Faults == {"none", "fetch", "encode"}

Init ==
  /\ fault \in [Blob -> Faults]
  /\ taken = 0
  /\ failedAt = 0

\* The next blob is fetched, encoded and written.
WriteNext ==
  /\ failedAt = 0
  /\ taken < NumBlobs
  /\ fault[taken + 1] = "none"
  /\ taken' = taken + 1
  /\ UNCHANGED <<fault, failedAt>>

\* The loop returns an error for the next blob: its own fault, or a failed write.
FailNext ==
  /\ failedAt = 0
  /\ taken < NumBlobs
  /\ failedAt' = taken + 1
  /\ UNCHANGED <<fault, taken>>

Next == WriteNext \/ FailNext

Spec == Init /\ [][Next]_serialVars
=============================================================================
