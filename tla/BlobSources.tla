---------------------------- MODULE BlobSources ----------------------------
(***************************************************************************)
(* Where the bytes of a blob come from when an edited image is written: the  *)
(* table read from a file and the lazily extended index over it (ByHash), a  *)
(* source that answers from that file (NewReaderBlobSource) in front of or   *)
(* behind one that holds new blobs (MapBlobSource), and the table WriteTo is *)
(* given, whose Resource fields it overwrites while its workers still ask    *)
(* the source.  The two tables may be one.                                   *)
(*                                                                           *)
(* A resource is the place of its bytes in some file; which file, it does    *)
(* not say: read from another, it gives other bytes, or nothing beyond the    *)
(* end, and nobody notices, as ReadResource compares no digest.  Apart from  *)
(* the place, it records how long the bytes are, in the file (len) and once  *)
(* unpacked (size), of which the model keeps whether there are any: an entry *)
(* that has no place yet has the size of its blob, and the empty file none.  *)
(* A payload has one unit or two, turn about from one WriteTo to the next,   *)
(* which is asked for another compression, so that offsets differ between    *)
(* files.  Image metadata hashes to the image it holds.                      *)
(***************************************************************************)
EXTENDS Naturals, Sequences, FiniteSets, SequencesExt

CONSTANTS
    Blob,        \* the hashes of file contents; each is its own content
    NoBytes,     \* no bytes, and no error: what a zero Resource gives, and, if it is
                 \* in Blob, the empty file
    Refused,     \* an error instead of bytes
    Rest,        \* the second unit of a blob that compresses to two
    MaxImages,   \* bound: images of a file
    MaxEdits,    \* bound: files placed and removed
    MaxWrites    \* bound: calls of WriteTo

ASSUME SourcesAssumption ==
    /\ IsFiniteSet(Blob)
    /\ NoBytes # Refused /\ Rest \notin {NoBytes, Refused}
    /\ \A image \in SUBSET Blob : image \notin Blob \cup {NoBytes, Refused, Rest}
    /\ {Refused, Rest} \cap Blob = {}
    /\ MaxImages \in Nat \ {0} /\ MaxEdits \in Nat /\ MaxWrites \in Nat

VARIABLES
    file,      \* the open file: its bytes, and its blob table
    tables,    \* 1: the source's; 2: another the caller has; 3: ExportImage's own
    cur,       \* the table the caller edits: the source's or its other one
    images,    \* the trees in memory, each the set of hashes it refers to
    given,     \* the new blobs whose bytes the caller holds
    job,       \* the WriteTo in progress, or how the last one ended
    fetched,   \* what the workers have been answered for the first entries
    out,       \* the file being written
    edits,     \* files placed and removed so far
    writes     \* calls of WriteTo so far

sourceVars == <<file, tables, cur, images, given, job, fetched, out, edits, writes>>
callerVars == <<file, cur, images, given, edits>>

Image == SUBSET Blob
Zero == [at |-> 0, len |-> 0, size |-> 0, meta |-> FALSE]
Descriptor(h, res) == [hash |-> h, res |-> res]

\* The Resource Install and its like give a new blob: its size, and no place.
Unplaced(h) == [Zero EXCEPT !.size = IF h = NoBytes THEN 0 ELSE 1]

\* A table has an index over its first `indexed' entries; `used' records that
\* WriteTo has been given it.
Table(es) == [entries |-> es, index |-> <<>>, indexed |-> 0, used |-> FALSE]

\* ensureIndexLocked: index the new tail; a hash that is there stays where it is.
Indexed(t) ==
    LET n    == Len(t.entries)
        tail == t.indexed + 1 .. n
    IN  [t EXCEPT !.indexed = n,
           !.index = [h \in DOMAIN t.index \cup {t.entries[k].hash : k \in tail} |->
                        IF h \in DOMAIN t.index THEN t.index[h]
                        ELSE Min({k \in tail : t.entries[k].hash = h})]]

\* Reader.resourceData, of whatever file the offset was meant for; a resource with
\* a size and no bytes in the file is refused.
ReadResource(f, res) ==
    IF res.len = 0 THEN (IF res.size = 0 THEN NoBytes ELSE Refused)
    ELSE IF res.at \in DOMAIN f.bytes THEN f.bytes[res.at] ELSE Refused

\* readerBlobSource.Blob, on the source's table t with its index up to date.
FromReader(t, h) ==
    IF h \in DOMAIN t.index THEN ReadResource(file, t.entries[t.index[h]].res) ELSE Refused

\* The caller's source: the map of new blobs and the reader, in either order.
Answer(t, h) ==
    IF h \in job.new /\ (job.mapFirst \/ FromReader(t, h) = Refused) THEN h ELSE FromReader(t, h)

\* ParseImageMetadata fails on anything but an image.
IsImage(bytes) == bytes \notin Blob \cup {NoBytes, Refused, Rest}

\* BlobTable.MetadataResources: the i-th is the entry up to which there are i of them.
Metadata(es) == {k \in DOMAIN es : es[k].res.meta}
MetadataResources(es) ==
    [i \in 1 .. Cardinality(Metadata(es)) |->
        es[CHOOSE k \in Metadata(es) : Cardinality({j \in Metadata(es) : j <= k}) = i]]

\* RebuildBlobTable: one entry for each hash the trees refer to, resources zero.
Rebuilt(trees) ==
    LET order == SetToSeq(UNION {trees[i] : i \in DOMAIN trees})
    IN  Table([k \in DOMAIN order |-> Descriptor(order[k], Zero)])

\* A file as WriteTo leaves it, with each blob once and one metadata resource
\* per image.
FileOf(trees) ==
    LET blobs == SetToSeq(UNION {trees[i] : i \in DOMAIN trees})
        n     == Len(blobs)
        bytes == blobs \o trees
    IN  [bytes |-> bytes,
         table |-> [k \in DOMAIN bytes |->
                      Descriptor(bytes[k], [at |-> k, len |-> 1, size |-> 1, meta |-> k > n])]]

\* Between two calls of WriteTo; after the last the caller does no more.
Ready == job.stage \in {"idle", "written", "refused", "failed"} /\ writes < MaxWrites
NoJob == [stage |-> "idle", slot |-> 1, images |-> <<>>, new |-> {}, mapFirst |-> TRUE,
          next |-> 1, last |-> 0, covered |-> FALSE, followed |-> FALSE, table |-> <<>>]

\* Reader.BlobTable: parsed for the source, and once more for the caller if it
\* does not edit that one.
Parsed(f, c) == [s \in 1 .. 3 |-> Table(IF s \in {1, c} THEN f.table ELSE <<>>)]

\* A file has been opened to be edited; whoever wrote it gave an empty file no blob.
SourcesInit ==
    /\ \E n \in 1 .. MaxImages : images \in [1 .. n -> SUBSET (Blob \ {NoBytes})]
    /\ file = FileOf(images)
    /\ cur \in {1, 2}
    /\ tables = Parsed(file, cur)
    /\ given = {}
    /\ job = NoJob
    /\ fetched = <<>>
    /\ out = <<>>
    /\ edits = 0 /\ writes = 0
-----------------------------------------------------------------------------
\* Mutant: the appended entry has a zero Resource, as RebuildBlobTable's have.
InstallBlobUnsized(i, h) ==
    /\ Ready /\ h \notin images[i] /\ edits < MaxEdits
    /\ edits' = edits + 1
    /\ images' = [images EXCEPT ![i] = @ \cup {h}]
    /\ IF h \in {tables[cur].entries[k].hash : k \in DOMAIN tables[cur].entries}
         THEN UNCHANGED <<tables, given>>
         ELSE /\ tables' = [tables EXCEPT ![cur].entries = Append(@, Descriptor(h, Zero))]
              /\ given' = given \cup {h}
    /\ UNCHANGED <<file, cur, job, fetched, out, writes>>

\* A package's Install: a file of image i now has content h; a hash the table
\* does not list is appended with its size, and its bytes go to the caller.
InstallBlob(i, h) ==
    /\ Ready /\ h \notin images[i] /\ edits < MaxEdits
    /\ edits' = edits + 1
    /\ images' = [images EXCEPT ![i] = @ \cup {h}]
    /\ IF h \in {tables[cur].entries[k].hash : k \in DOMAIN tables[cur].entries}
         THEN UNCHANGED <<tables, given>>
         ELSE /\ tables' = [tables EXCEPT ![cur].entries = Append(@, Descriptor(h, Unplaced(h)))]
              /\ given' = given \cup {h}
    /\ UNCHANGED <<file, cur, job, fetched, out, writes>>

\* A removal leaves the entry where it is, with a lower count.
RemoveBlob(i, h) ==
    /\ Ready /\ h \in images[i] /\ edits < MaxEdits
    /\ edits' = edits + 1
    /\ images' = [images EXCEPT ![i] = @ \ {h}]
    /\ UNCHANGED <<file, tables, cur, given, job, fetched, out, writes>>

\* ReadFile, ComputeTreeStats: any lookup brings the index up to date.
LookUp ==
    /\ Ready
    /\ tables' = [tables EXCEPT ![cur] = Indexed(@)]
    /\ UNCHANGED <<callerVars, job, fetched, out, writes>>

\* RebuildBlobTable over the edited table; the caller goes on with its result.
RebuildTable ==
    /\ Ready
    /\ LET old == Indexed(tables[cur])
       IN  /\ \A i \in DOMAIN images : images[i] \subseteq DOMAIN old.index
           /\ tables' = [tables EXCEPT ![cur] = old, ![2] = Rebuilt(images)]
    /\ cur' = 2
    /\ UNCHANGED <<file, images, given, job, fetched, out, edits, writes>>
-----------------------------------------------------------------------------
True(f) == \A e \in Range(f.table) : ReadResource(f, e.res) = e.hash

Distinct(es) == \A j, k \in DOMAIN es : es[j].hash = es[k].hash => j = k

\* What a caller has to see to, at the start of a call with table s: the file
\* is as it should be, the source's table has not been given to WriteTo before,
\* and if WriteTo is now given the source's own table, no hash is in it twice.
\* The map of new blobs may be asked first or last: the reader refuses them.
Followed(s) ==
    /\ True(file)
    /\ ~tables[1].used
    /\ s = 1 => Distinct(tables[1].entries)

\* WriteTo starts its pipeline over the entries the table has now.
Start(s, table, trees, new, mapFirst) ==
    /\ job' = [stage |-> "blobs", slot |-> s, images |-> trees, new |-> new, mapFirst |-> mapFirst,
               next |-> 1, last |-> Len(table.entries), covered |-> ~table.used,
               followed |-> Followed(s), table |-> <<>>]
    /\ fetched' = <<>>
    /\ out' = <<>>
    /\ writes' = writes + 1

Write(mapFirst) ==
    /\ Ready
    /\ mapFirst \/ given # {}
    /\ Start(cur, tables[cur], images, given, mapFirst)
    /\ tables' = [tables EXCEPT ![cur].used = TRUE]
    /\ UNCHANGED callerVars

\* ExportImage: the trees are read from the file by its table's metadata
\* resources, and written with a fresh table from the file alone.
Export(which) ==
    LET metas == MetadataResources(tables[1].entries)
        trees == [i \in DOMAIN which |-> ReadResource(file, metas[which[i]].res)]
        old   == Indexed(tables[1])
    IN  /\ Ready
        /\ \A i \in DOMAIN which : which[i] \in DOMAIN metas
        /\ \A i \in DOMAIN which : IsImage(trees[i]) /\ trees[i] \subseteq DOMAIN old.index
        /\ Start(3, Rebuilt(trees), trees, {}, TRUE)
        /\ tables' = [tables EXCEPT ![1] = old, ![3] = [Rebuilt(trees) EXCEPT !.used = TRUE]]
        /\ UNCHANGED callerVars

\* A worker asks the source for the next entry, at any time before its turn.
Fetch ==
    /\ job.stage = "blobs" /\ Len(fetched) < job.last
    /\ LET source == Indexed(tables[1])
           h      == tables[job.slot].entries[Len(fetched) + 1].hash
       IN  /\ tables' = [tables EXCEPT ![1] = source]
           /\ fetched' = Append(fetched, Answer(source, h))
    /\ UNCHANGED <<callerVars, job, out, writes>>

Placed(b, meta) == [at |-> Len(out) + 1, meta |-> meta, len |-> IF b = NoBytes THEN 0 ELSE 1,
                    size |-> IF b = NoBytes THEN 0 ELSE 1]
Written(b) ==
    IF b = NoBytes THEN out ELSE IF writes % 2 = 0 THEN Append(out, b) ELSE out \o <<b, Rest>>

\* One turn of WriteTo's loop: write the payload, then say where it is.
WriteBlob ==
    LET b == fetched[job.next]
    IN  /\ job.stage = "blobs" /\ job.next <= Len(fetched)
        /\ b # Refused
        /\ out' = Written(b)
        /\ tables' = [tables EXCEPT ![job.slot].entries[job.next].res = Placed(b, FALSE)]
        /\ job' = [job EXCEPT !.next = @ + 1]
        /\ UNCHANGED <<callerVars, fetched, writes>>

\* ExportImage's own table goes when it returns.
Dismiss == tables' = [tables EXCEPT ![3] = Table(<<>>)]

Ends(stage) ==
    /\ job' = [NoJob EXCEPT !.stage = stage, !.covered = job.covered, !.followed = job.followed]
    /\ fetched' = <<>>
    /\ out' = <<>>
    /\ Dismiss
    /\ UNCHANGED <<callerVars, writes>>

\* The source has refused an entry,
BlobRefused ==
    /\ job.stage = "blobs" /\ job.next <= Len(fetched)
    /\ fetched[job.next] = Refused
    /\ Ends("refused")

\* ... or the destination fails, here or later.
WriteFails ==
    /\ \/ job.stage = "blobs" /\ job.next <= Len(fetched) /\ fetched[job.next] # Refused
       \/ job.stage = "images"
    /\ Ends("failed")

BlobsWritten ==
    /\ job.stage = "blobs" /\ job.next > job.last
    /\ job' = [job EXCEPT !.stage = "images", !.next = 1]
    /\ UNCHANGED <<callerVars, tables, fetched, out, edits, writes>>

\* An image's metadata, and its new entry at the end of the table.
WriteImage ==
    LET im == job.images[job.next]
    IN  /\ job.stage = "images" /\ job.next <= Len(job.images)
        /\ out' = Written(im)
        /\ tables' = [tables EXCEPT ![job.slot].entries = Append(@, Descriptor(im, Placed(im, TRUE)))]
        /\ job' = [job EXCEPT !.next = @ + 1]
        /\ UNCHANGED <<callerVars, fetched, writes>>

\* The table as it now is and the header complete the file.
Finish ==
    /\ job.stage = "images" /\ job.next > Len(job.images)
    /\ job' = [NoJob EXCEPT !.stage = "written", !.followed = job.followed, !.images = job.images,
                            !.table = tables[job.slot].entries]
    /\ fetched' = <<>>
    /\ Dismiss
    /\ UNCHANGED <<callerVars, out, writes>>

NewFile == [bytes |-> out, table |-> job.table]

\* The caller opens what has been written, and edits its images.
Reopen(c) ==
    LET metas == MetadataResources(NewFile.table)
        trees == [i \in DOMAIN metas |-> ReadResource(NewFile, metas[i].res)]
    IN  /\ job.stage = "written" /\ writes < MaxWrites
        /\ \A i \in DOMAIN metas : IsImage(trees[i])
        /\ file' = NewFile
        /\ tables' = Parsed(file', c)
        /\ cur' = c
        /\ images' = trees
        /\ given' = {}
        /\ job' = NoJob
        /\ fetched' = <<>>
        /\ out' = <<>>
        /\ UNCHANGED <<edits, writes>>

SourcesNext ==
    \/ \E h \in Blob : \E i \in DOMAIN images : InstallBlob(i, h) \/ RemoveBlob(i, h)
    \/ LookUp
    \/ RebuildTable
    \/ \E mapFirst \in BOOLEAN : Write(mapFirst)
    \/ \E which \in {<<1>>, <<2, 1>>, <<1, 1>>} : Export(which)
    \/ Fetch
    \/ WriteBlob \/ BlobRefused \/ WriteFails \/ BlobsWritten \/ WriteImage \/ Finish
    \/ \E c \in {1, 2} : Reopen(c)

SourcesSpec == SourcesInit /\ [][SourcesNext]_sourceVars
-----------------------------------------------------------------------------
\* A WriteTo whose caller has kept to the rules (Followed) and that returns no
\* error has written under every hash that blob's bytes, and its metadata
\* resources are the images it was given, in their order; and unless the table
\* is left from an earlier attempt, it fails only if the destination does.
WritesTellTheTruth ==
    job.followed =>
      /\ job.stage = "written" =>
           /\ True(NewFile)
           /\ LET metas == MetadataResources(NewFile.table)
              IN  [i \in DOMAIN metas |-> metas[i].hash] = job.images
      /\ job.stage = "refused" => ~job.covered
=============================================================================
