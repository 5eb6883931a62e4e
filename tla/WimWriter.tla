------------------------------ MODULE WimWriter ------------------------------
(***************************************************************************)
(* wim.WriteTo: one pass over a seekable file that lays down a zero-filled *)
(* header, the content blobs (through BlobPipeline), one metadata resource *)
(* per image, the blob table, the XML data and the integrity table, and    *)
(* patches the real header in last.                                        *)
(*                                                                         *)
(* A file is its header and, after it, a sequence of units: unit k of the  *)
(* payload of resource r is <<r, k>>.  Offsets are counted in units from   *)
(* the end of the header.  A SHA-1 digest stands for the units it covers.  *)
(***************************************************************************)
EXTENDS BlobPipeline

CONSTANTS
  NumImages,    \* len(images)
  BlobLen,      \* BlobLen[i]: units of blob i's encoded payload
  MetaLen,      \* MetaLen[j]: units of image j's encoded metadata
  ChunkLen      \* opts.IntegrityChunkSize, in units

ASSUME WriterAssumption ==
  /\ NumImages \in Nat \ {0}
  /\ BlobLen \in [Blob -> Nat]
  /\ MetaLen \in [1 .. NumImages -> Nat \ {0}]
  /\ ChunkLen \in Nat \ {0}

Image == 1 .. NumImages

VARIABLES
  bootIndex,    \* opts.BootIndex
  wantTable,    \* opts.ComputeIntegrityTable
  stage,        \* where WriteTo is
  launched,     \* encodeBlobsPipeline has been called
  imageIdx,     \* images written so far
  entries,      \* bt.Entries
  header,       \* its state -- "absent", "zero" (the placeholder), "torn" by a
                \* failed write, or "patched" -- and its fields
  body,         \* the units of the file after the header
  offset,       \* WriteTo's running offset
  integ,        \* the integrityAccumulator: current chunk, finished digests
  draft         \* the resource headers WriteTo collects for the header

inputVars == <<bootIndex, wantTable>>
writerVars == <<inputVars, stage, launched, imageIdx, entries, header, body, offset, integ, draft>>
vars == <<pipelineVars, writerVars>>

Stages == {"start", "blobs", "images", "table", "xml", "integrity", "header", "seekEnd",
           "done", "failed"}

HeaderStates == {"absent", "zero", "torn", "patched"}

NoRes == [off |-> 0, len |-> 0]
NoDraft == [boot |-> NoRes, table |-> NoRes, xml |-> NoRes, integrity |-> NoRes]
Res(len) == [off |-> offset, len |-> len]

\* Payloads, unit by unit.
Units(r, len) == [k \in 1 .. len |-> <<r, k>>]
BlobPayload(i) == Units(<<"blob", i>>, BlobLen[i])
MetaPayload(j) == Units(<<"meta", j>>, MetaLen[j])
TablePayload(ents) == <<<<"table", ents>>>>
XMLPayload == <<<<"xml">>>>
IntegrityPayload(hashes) == <<<<"integrity", hashes>>>>

\* integrityAccumulator.write: a full chunk's digest is recorded at once.
AccUnit(acc, u) ==
  LET cur == Append(acc.cur, u)
  IN  IF Len(cur) = ChunkLen
        THEN [cur |-> <<>>, hashes |-> Append(acc.hashes, cur)]
        ELSE [acc EXCEPT !.cur = cur]

\* The accumulator after each unit of a write, beginning with none.
AccAfter(acc, p) ==
  LET after[k \in 0 .. Len(p)] == IF k = 0 THEN acc ELSE AccUnit(after[k - 1], p[k])
  IN  after

AccWrite(acc, p) == IF wantTable THEN AccAfter(acc, p)[Len(p)] ELSE acc

\* Mutant: the partial last chunk is forgotten.
AccFinishFullOnly(acc) == acc

\* integrityAccumulator.finish: a partial last chunk is recorded too.
AccFinish(acc) ==
  IF acc.cur = <<>> THEN acc ELSE [cur |-> <<>>, hashes |-> Append(acc.hashes, acc.cur)]

Init ==
  /\ PipelineInit
  /\ bootIndex \in 0 .. NumImages + 1
  /\ wantTable \in BOOLEAN
  /\ stage = "start"
  /\ launched = FALSE
  /\ imageIdx = 0
  /\ entries = [i \in Blob |-> [hash |-> <<"blob", i>>, meta |-> FALSE, res |-> NoRes]]
  /\ header = [state |-> "absent", images |-> 0, bootIndex |-> 0, res |-> NoDraft]
  /\ body = <<>>
  /\ offset = 0
  /\ integ = [cur |-> <<>>, hashes |-> <<>>]
  /\ draft = NoDraft
-----------------------------------------------------------------------------
(* Steps of WriteTo.  A write of p either appends all of it or fails after *)
(* any proper prefix; on any error WriteTo returns and its locals die.     *)

WriteAll(p) ==
  /\ body' = body \o p
  /\ offset' = offset + Len(p)

\* writeBytes(p) fails (it does not touch the file when p is empty).
WriteFails(p) ==
  /\ p # <<>>
  /\ \E k \in 0 .. Len(p) - 1 : body' = body \o SubSeq(p, 1, k)
  /\ stage' = "failed"
  /\ UNCHANGED <<inputVars, launched, imageIdx, entries, header, offset, integ, draft>>

\* An error that is returned before anything is written.
Return ==
  /\ stage' = "failed"
  /\ UNCHANGED <<inputVars, launched, imageIdx, entries, header, body, offset, integ, draft>>

\* The argument checks; an out-of-range boot index stands for all of them.
RejectArguments ==
  /\ stage = "start"
  /\ bootIndex > NumImages
  /\ Return
  /\ UNCHANGED pipelineVars

\* The header placeholder, then encodeBlobsPipeline.
WritePlaceholder ==
  /\ stage = "start"
  /\ bootIndex <= NumImages
  /\ header' = [header EXCEPT !.state = "zero"]
  /\ stage' = "blobs"
  /\ launched' = TRUE
  /\ UNCHANGED <<pipelineVars, inputVars, imageIdx, entries, body, offset, integ, draft>>

PlaceholderFails ==
  /\ stage = "start"
  /\ bootIndex <= NumImages
  /\ \E s \in {"absent", "torn"} : header' = [header EXCEPT !.state = s]
  /\ stage' = "failed"
  /\ UNCHANGED <<pipelineVars, inputVars, launched, imageIdx, entries, body, offset, integ, draft>>

\* Mutant: the resource offset is taken after the payload has been written.
WriteBlobLateOffset ==
  LET i == taken + 1
  IN  /\ stage = "blobs"
      /\ Take
      /\ WriteAll(BlobPayload(i))
      /\ integ' = AccWrite(integ, BlobPayload(i))
      /\ entries' = [entries EXCEPT ![i].res = [off |-> offset', len |-> BlobLen[i]]]
      /\ UNCHANGED <<inputVars, stage, launched, imageIdx, header, draft>>

\* One turn of the drain loop: receive, hash, write, record the resource.
WriteBlob ==
  LET i == taken + 1
  IN  /\ stage = "blobs"
      /\ Take
      /\ WriteAll(BlobPayload(i))
      /\ integ' = AccWrite(integ, BlobPayload(i))
      /\ entries' = [entries EXCEPT ![i].res = Res(BlobLen[i])]
      /\ UNCHANGED <<inputVars, stage, launched, imageIdx, header, draft>>

BlobFails ==
  /\ stage = "blobs"
  /\ GiveUp
  /\ IF result[taken + 1] = "ok" THEN WriteFails(BlobPayload(taken + 1)) ELSE Return

\* Mutant: the drain loop stops one blob short.
BlobsDoneShort ==
  /\ stage = "blobs"
  /\ taken + 1 >= NumBlobs
  /\ stage' = "images"
  /\ UNCHANGED <<pipelineVars, inputVars, launched, imageIdx, entries, header, body, offset,
                 integ, draft>>

BlobsDone ==
  /\ stage = "blobs"
  /\ taken = NumBlobs
  /\ stage' = "images"
  /\ UNCHANGED <<pipelineVars, inputVars, launched, imageIdx, entries, header, body, offset,
                 integ, draft>>

\* One turn of the image loop: the metadata resource and its table entry.
WriteImage ==
  LET j == imageIdx + 1
  IN  /\ stage = "images"
      /\ j <= NumImages
      /\ WriteAll(MetaPayload(j))
      /\ integ' = AccWrite(integ, MetaPayload(j))
      /\ entries' = Append(entries, [hash |-> <<"meta", j>>, meta |-> TRUE, res |-> Res(MetaLen[j])])
      /\ draft' = IF bootIndex = j THEN [draft EXCEPT !.boot = Res(MetaLen[j])] ELSE draft
      /\ imageIdx' = j
      /\ UNCHANGED <<pipelineVars, inputVars, stage, launched, header>>

\* The image is nil, cannot be serialised or encoded, or its write fails.
ImageFails ==
  LET j == imageIdx + 1
  IN  /\ stage = "images"
      /\ j <= NumImages
      /\ Return \/ WriteFails(MetaPayload(j))
      /\ UNCHANGED pipelineVars

ImagesDone ==
  /\ stage = "images"
  /\ imageIdx = NumImages
  /\ stage' = "table"
  /\ UNCHANGED <<pipelineVars, inputVars, launched, imageIdx, entries, header, body, offset,
                 integ, draft>>

\* The blob table closes the range the integrity table covers.
WriteTable ==
  /\ stage = "table"
  /\ WriteAll(TablePayload(entries))
  /\ integ' = AccFinish(AccWrite(integ, TablePayload(entries)))
  /\ draft' = [draft EXCEPT !.table = Res(1)]
  /\ stage' = "xml"
  /\ UNCHANGED <<pipelineVars, inputVars, launched, imageIdx, entries, header>>

WriteXML ==
  /\ stage = "xml"
  /\ WriteAll(XMLPayload)
  /\ draft' = [draft EXCEPT !.xml = Res(1)]
  /\ stage' = "integrity"
  /\ UNCHANGED <<pipelineVars, inputVars, launched, imageIdx, entries, header, integ>>

WriteIntegrity ==
  /\ stage = "integrity"
  /\ wantTable
  /\ WriteAll(IntegrityPayload(integ.hashes))
  /\ draft' = [draft EXCEPT !.integrity = Res(1)]
  /\ stage' = "header"
  /\ UNCHANGED <<pipelineVars, inputVars, launched, imageIdx, entries, header, integ>>

SkipIntegrity ==
  /\ stage = "integrity"
  /\ ~wantTable
  /\ stage' = "header"
  /\ UNCHANGED <<pipelineVars, inputVars, launched, imageIdx, entries, header, body, offset,
                 integ, draft>>

TailFails ==
  /\ \/ stage = "table" /\ WriteFails(TablePayload(entries))
     \/ stage = "xml" /\ WriteFails(XMLPayload)
     \/ stage = "integrity" /\ wantTable /\ WriteFails(IntegrityPayload(integ.hashes))
  /\ UNCHANGED pipelineVars

\* Seek to 0 and overwrite the placeholder.
PatchHeader ==
  /\ stage = "header"
  /\ header' = [state |-> "patched", images |-> NumImages, bootIndex |-> bootIndex, res |-> draft]
  /\ stage' = "seekEnd"
  /\ UNCHANGED <<pipelineVars, inputVars, launched, imageIdx, entries, body, offset, integ, draft>>

\* The seek fails, or the write of the header does.
PatchFails ==
  /\ stage = "header"
  /\ \E s \in {"zero", "torn"} : header' = [header EXCEPT !.state = s]
  /\ stage' = "failed"
  /\ UNCHANGED <<pipelineVars, inputVars, launched, imageIdx, entries, body, offset, integ, draft>>

\* Seek back to the end; an error here is returned although the file is whole.
SeekEnd ==
  /\ stage = "seekEnd"
  /\ stage' \in {"done", "failed"}
  /\ UNCHANGED <<pipelineVars, inputVars, launched, imageIdx, entries, header, body, offset,
                 integ, draft>>

WriterStep ==
  \/ RejectArguments \/ WritePlaceholder \/ PlaceholderFails
  \/ WriteBlob \/ BlobFails \/ BlobsDone
  \/ WriteImage \/ ImageFails \/ ImagesDone
  \/ WriteTable \/ WriteXML \/ WriteIntegrity \/ SkipIntegrity \/ TailFails
  \/ PatchHeader \/ PatchFails \/ SeekEnd

\* The goroutines run on, whatever WriteTo has returned.
Feed == launched /\ (Dispatch \/ CloseJobs) /\ UNCHANGED writerVars
Labour(w) == launched /\ Work(w) /\ UNCHANGED writerVars

Next == Feed \/ (\E w \in Workers : Labour(w)) \/ WriterStep

Spec == Init /\ [][Next]_vars

FairSpec ==
  Spec /\ WF_vars(Feed) /\ (\A w \in Workers : WF_vars(Labour(w))) /\ WF_vars(WriterStep)
-----------------------------------------------------------------------------
Extents == [off : Nat, len : Nat]
Drafts == [boot : Extents, table : Extents, xml : Extents, integrity : Extents]
Entries == [hash : {"blob", "meta"} \X Nat, meta : BOOLEAN, res : Extents]
Headers == [state : HeaderStates, images : 0 .. NumImages, bootIndex : 0 .. NumImages + 1,
            res : Drafts]

TypeOK ==
  /\ PipelineTypeOK
  /\ bootIndex \in 0 .. NumImages + 1
  /\ wantTable \in BOOLEAN
  /\ stage \in Stages
  /\ launched \in BOOLEAN
  /\ imageIdx \in 0 .. NumImages
  /\ entries \in Seq(Entries)
  /\ header \in Headers
  /\ offset \in Nat
  /\ draft \in Drafts

\* WriteTo leaves the drain loop only when it has drained every blob, and until
\* then bt.Entries has the length it was called with.
PastDrain == {"images", "table", "xml", "integrity", "header", "seekEnd", "done"}
DrainsFirst ==
  /\ stage \in PastDrain => taken = NumBlobs
  /\ stage \in {"start", "blobs"} => Len(entries) = NumBlobs

\* What wim.NewReader finds in a file with a patched header: the bytes a
\* resource header points at, and the table and digests they decode to.
Extent(res) == SubSeq(body, res.off + 1, res.off + res.len)
Patched == header.state = "patched"
ReadTable == Extent(header.res.table)[1][2]

\* The header goes in last: from the moment a reader accepts it, and through
\* any crash after that, every resource the file names is all there and is the
\* one it should be -- each blob under its own hash, image j's metadata as the
\* j-th metadata entry, the boot image's metadata in the header.
HeaderMeansComplete ==
  Patched =>
    /\ Len(ReadTable) = NumBlobs + NumImages
    /\ \A i \in Blob : /\ ReadTable[i].hash = <<"blob", i>> /\ ~ReadTable[i].meta
                       /\ Extent(ReadTable[i].res) = BlobPayload(i)
    /\ header.images = NumImages
    /\ \A j \in Image : /\ ReadTable[NumBlobs + j].meta
                        /\ Extent(ReadTable[NumBlobs + j].res) = MetaPayload(j)
    /\ header.bootIndex # 0 => Extent(header.res.boot) = MetaPayload(header.bootIndex)
    /\ Extent(header.res.xml) = XMLPayload

\* Reader.VerifyIntegrity accepts what WriteTo wrote: the digests, one for each
\* ChunkLen units from the end of the header to the end of the blob table.
ChunkAt(end, k) ==
  SubSeq(body, (k - 1) * ChunkLen + 1, IF k * ChunkLen < end THEN k * ChunkLen ELSE end)

IntegrityVerifies ==
  Patched /\ header.res.integrity # NoRes =>
    LET end    == header.res.table.off + header.res.table.len
        hashes == Extent(header.res.integrity)[1][2]
    IN  /\ Len(hashes) = (end + ChunkLen - 1) \div ChunkLen
        /\ \A k \in 1 .. Len(hashes) : hashes[k] = ChunkAt(end, k)

\* WriteTo grows bt.Entries only when no goroutine it started can still read
\* the slice: the append replaces the slice header without a lock.
GrowsOnlyWhenQuiescent == [][Len(entries') # Len(entries) => Quiescent]_vars

\* WriteTo returns, and every goroutine it started ends, also after an error.
Returns == <>(stage \in {"done", "failed"} /\ (launched => PoolDone))
=============================================================================
