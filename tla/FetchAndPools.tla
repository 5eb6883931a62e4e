--------------------------- MODULE FetchAndPools ---------------------------
(***************************************************************************)
(* The calls that go on outside an image's own data: the downloads           *)
(* (Downloads), and the calls that share out one list of work among          *)
(* goroutines (ManifestStore, with ChunkPool).  None reads what another      *)
(* writes: one of them is made, and the variables of the others stay as they *)
(* were set up.                                                              *)
(***************************************************************************)
EXTENDS Downloads, ManifestStore

callVars == <<downloadVars, poolVars>>

CallInit ==
    \/ /\ DownloadsInit
       /\ view = "none" /\ kind = "compress" /\ numChunks = 1 /\ bad = {} /\ Init
       /\ found = (CHOOSE d \in StoreDirectories : TRUE) /\ ManifestInit
    \/ /\ PoolsInit
       /\ call = "none" /\ FidoInit /\ CapInit
       /\ cfg = (CHOOSE c \in Configs : TRUE) /\ want = CHOOSE w \in Requests : TRUE

CallNext ==
    \/ DownloadsNext /\ UNCHANGED poolVars
    \/ PoolsNext /\ UNCHANGED downloadVars

CallSpec == CallInit /\ [][CallNext]_callVars /\ DownloadsFairness /\ PoolsFairness
=============================================================================
