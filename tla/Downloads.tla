----------------------------- MODULE Downloads -----------------------------
(***************************************************************************)
(* The two packages that fetch what an image is built from, each behind one  *)
(* call: fido.FetchDownloadURL, and wufetch's FindBuild followed by          *)
(* DownloadCapability.  They differ in what makes a request end: fido's      *)
(* client has a timeout (httpTimeout), wufetch takes http.DefaultClient,     *)
(* which has none, so that only an answer or the caller's context ends one.  *)
(***************************************************************************)
EXTENDS FidoFetch, CapabilityFetch

VARIABLE call       \* which of the two is called

downloadVars == <<call, fidoVars, capVars>>

DownloadsInit ==
    /\ FidoInit /\ CapInit
    /\ \/ call = "iso" /\ want = CHOOSE w \in Requests : TRUE
       \/ call = "capability" /\ cfg = CHOOSE c \in Configs : TRUE

FetchIso == call = "iso" /\ FidoStep /\ UNCHANGED <<call, capVars>>
FetchCapability == call = "capability" /\ CapStep /\ UNCHANGED <<call, fidoVars>>
Cancel ==
    \/ call = "iso" /\ CancelFido /\ UNCHANGED <<call, capVars>>
    \/ call = "capability" /\ CancelCap /\ UNCHANGED <<call, fidoVars>>

DownloadsNext == FetchIso \/ FetchCapability \/ Cancel

DownloadsFairness == WF_downloadVars(FetchIso) /\ WF_downloadVars(gone /\ FetchCapability)
DownloadsSpec == DownloadsInit /\ [][DownloadsNext]_downloadVars /\ DownloadsFairness

\* FetchDownloadURL returns, whatever the services answer and however often an
\* attempt has to be repeated; DownloadCapability returns once its context is done.
Ends == (call = "iso" ~> FidoEnded) /\ (gone ~> CapEnded)
=============================================================================
