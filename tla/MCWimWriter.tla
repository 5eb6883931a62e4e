----------------------------- MODULE MCWimWriter -----------------------------
EXTENDS WimWriter

\* Payload sizes that put an empty blob between others and let the integrity
\* chunks (2 units) begin and end inside payloads.
MCBlobLen == [i \in Blob |-> (i + 1) % 3]
MCMetaLen == [j \in Image |-> j]
=============================================================================
