-------------------------- MODULE MetadataResource --------------------------
(***************************************************************************)
(* An image's metadata resource from end to end (src/wim): subtrees of a     *)
(* donor image copied and attached with the security descriptors they use    *)
(* (graft.go), the tree and its descriptors laid out (metadata.go,           *)
(* dentry_write.go, security.go), framed in chunks (compress.go, chunk.go),  *)
(* and read again (reader.go, decompress.go, dentry.go).                     *)
(*                                                                         *)
(* A buffer is a function from offsets to what starts there, and its length. *)
(* Names, extra data and descriptors are sequences of bytes; a hash is a     *)
(* number, zero for none.  What a chunk shrinks to is left open.             *)
(***************************************************************************)
EXTENDS Integers, SequencesExt, CodecCall

CONSTANTS
    NameLimit,      \* 2^16: lengths of names and the number of streams are taken modulo it
    MaxTreeDepth,   \* maxDentryTreeDepth (16384)
    NarrowLimit     \* 2^32: the first size whose chunk table has wide entries

SecurityIDNone == -1
Directory == "directory"
ReparsePoint == "reparse point"

IsDirectory(d) == Directory \in d.Attributes

-----------------------------------------------------------------------------
(* SecurityRemapper: ids lists the donor's descriptors in use, the first seen *)
(* first; r.index is the position in it.                                     *)

Index(ids, id) == CHOOSE i \in DOMAIN ids : ids[i] = id

\* The copy of an entry and of all below it, and the ids after that.
RECURSIVE Copy(_, _), CopyChildren(_, _, _)
Copy(ids, d) ==
    LET seen == IF d.SecurityID = SecurityIDNone \/ Contains(ids, d.SecurityID)
                THEN ids ELSE Append(ids, d.SecurityID)
        id == IF d.SecurityID = SecurityIDNone THEN SecurityIDNone ELSE Index(seen, d.SecurityID) - 1
        below == CopyChildren(seen, d.Children, <<>>)
    IN  [ids |-> below.ids, entry |-> [d EXCEPT !.SecurityID = id, !.Children = below.entries]]
CopyChildren(ids, children, copied) ==
    IF children = <<>> THEN [ids |-> ids, entries |-> copied]
    ELSE LET c == Copy(ids, Head(children))
         IN  CopyChildren(c.ids, Tail(children), Append(copied, c.entry))

BuildSecurityData(ids, donor) ==
    [i \in DOMAIN ids |-> IF ids[i] < Len(donor) THEN donor[ids[i] + 1] ELSE <<>>]

NewDirectory(name) ==
    [Attributes |-> {Directory}, SecurityID |-> SecurityIDNone, Times |-> 0, ReparseTag |-> 0,
     HardLinkGroupID |-> 0, Name |-> name, ShortName |-> <<>>, Streams |-> <<>>, Extra |-> <<>>,
     Children |-> <<>>]

Children(d, name) == {i \in DOMAIN d.Children : d.Children[i].Name = name}

\* The tree with node at path; not ok if something is there or a file is in the way.
RECURSIVE AttachAt(_, _, _)
AttachAt(d, path, node) ==
    LET name == Head(path)
        at == Children(d, name)
        Put(i, r) == [ok |-> r.ok, root |-> [d EXCEPT !.Children[i] = r.root]]
        New(c) == [ok |-> TRUE, root |-> [d EXCEPT !.Children = Append(@, c)]]
    IN  IF Len(path) = 1
        THEN IF at = {} THEN New([node EXCEPT !.Name = name]) ELSE [ok |-> FALSE, root |-> d]
        ELSE IF at = {} THEN New(AttachAt(NewDirectory(name), Tail(path), node).root)
        ELSE LET i == CHOOSE i \in at : TRUE
             IN  IF IsDirectory(d.Children[i]) THEN Put(i, AttachAt(d.Children[i], Tail(path), node))
                 ELSE [ok |-> FALSE, root |-> d]

RECURSIVE Lookup(_, _)
Lookup(d, path) ==
    IF path = <<>> THEN d
    ELSE Lookup(d.Children[CHOOSE i \in Children(d, Head(path)) : TRUE], Tail(path))

-----------------------------------------------------------------------------
(* Sizes on disk.                                                            *)

DirEntryFixedSize == 102
ExtraStreamFixedSize == 38
EndOfDirectory == [kind |-> "end", size |-> 8, length |-> 0]

alignUp8(n) == ((n + 7) \div 8) * 8
SumOf(sizes) == FoldLeft(LAMBDA a, b : a + b, 0, sizes)

Terminated(nb) == IF nb = 0 THEN 0 ELSE nb + 2
dentryMinLenWithNames(nameNB, shortNameNB) == DirEntryFixedSize + Terminated(nameNB) + Terminated(shortNameNB)
StreamLen(s) == alignUp8(ExtraStreamFixedSize + Terminated(Len(s.Name)))

usesExtraStreams(d) == Len(d.Streams) > 1 \/ (Len(d.Streams) = 1 /\ d.Streams[1].Name # <<>>)
extraStreamsToWrite(d) ==
    IF ~usesExtraStreams(d) THEN <<>>
    ELSE IF d.Streams[1].Name = <<>> THEN Tail(d.Streams) ELSE d.Streams

EntryLen(d) == alignUp8(dentryMinLenWithNames(Len(d.Name), Len(d.ShortName))) + alignUp8(Len(d.Extra))

\* A slip the properties must catch: the streams are aligned together.
outLenTogether(d) ==
    EntryLen(d) + alignUp8(SumOf([i \in DOMAIN extraStreamsToWrite(d) |->
                                    ExtraStreamFixedSize + Terminated(Len(extraStreamsToWrite(d)[i].Name))]))

outLen(d) ==
    EntryLen(d) + SumOf([i \in DOMAIN extraStreamsToWrite(d) |-> StreamLen(extraStreamsToWrite(d)[i])])

EncodedLen(descriptors) ==
    IF descriptors = <<>> THEN 8
    ELSE alignUp8(8 + 8 * Len(descriptors) + SumOf([i \in DOMAIN descriptors |-> Len(descriptors[i])]))

-----------------------------------------------------------------------------
(* AppendTo.  An entry is named by the positions that lead to it.            *)

RECURSIVE Collect(_, _)
Collect(d, at) ==
    <<[at |-> at, entry |-> d]>>
    \o FlattenSeq([i \in DOMAIN d.Children |-> Collect(d.Children[i], Append(at, i))])

\* Where each directory's list begins, and the size of the tree.
assignSubdirOffsets(root, base) ==
    LET Walk(r, n) ==
            IF IsDirectory(n.entry)
            THEN LET list == SumOf([i \in DOMAIN n.entry.Children |-> outLen(n.entry.Children[i])]) + 8
                 IN  [offsets |-> Append(r.offsets, r.cursor + base), cursor |-> r.cursor + list]
            ELSE [r EXCEPT !.offsets = Append(@, 0)]
        order == Collect(root, <<>>)
        r == FoldLeft(Walk, [offsets |-> <<>>, cursor |-> outLen(root) + 8], order)
        positions == {order[i].at : i \in DOMAIN order}
    IN  [offsets |-> [p \in positions |-> r.offsets[CHOOSE i \in DOMAIN order : order[i].at = p]],
         treeLen |-> r.cursor]

\* The bytes b and what fills them up to a multiple of eight.
Padded(b, before) == b \o [i \in 1 .. alignUp8(before + Len(b)) - before - Len(b) |-> 0]
ZeroEnded(name) == IF name = <<>> THEN <<>> ELSE name \o <<0, 0>>

appendExtraStream(s) ==
    LET rest == Padded(ZeroEnded(s.Name), ExtraStreamFixedSize)
        length == ExtraStreamFixedSize + Len(rest)
    IN  [kind |-> "stream", size |-> length, length |-> length,
         hash |-> s.Hash, nameNB |-> Len(s.Name) % NameLimit, rest |-> rest]

Legal(name) == Len(name) % 2 = 0 /\ Len(name) < NameLimit

\* One entry: the dentry and its extra streams, in a row.
appendDentry(d, subdir) ==
    LET names == Padded(ZeroEnded(d.Name) \o ZeroEnded(d.ShortName), DirEntryFixedSize)
        rest == names \o Padded(d.Extra, 0)
        extras == extraStreamsToWrite(d)
        unnamed == d.Streams # <<>> /\ d.Streams[1].Name = <<>>
        reparse == ReparsePoint \in d.Attributes
        length == DirEntryFixedSize + Len(rest)
        dentry == [kind |-> "dentry", size |-> length, length |-> length, subdir |-> subdir,
                   attributes |-> d.Attributes, security |-> d.SecurityID, times |-> d.Times,
                   union |-> IF reparse THEN d.ReparseTag ELSE d.HardLinkGroupID,
                   mainHash |-> IF unnamed THEN d.Streams[1].Hash ELSE 0,
                   numExtraStreams |-> Len(extras) % NameLimit,
                   shortNameNB |-> Len(d.ShortName), nameNB |-> Len(d.Name), rest |-> rest]
    IN  <<dentry>> \o [i \in DOMAIN extras |-> appendExtraStream(extras[i])]

RECURSIVE WalkChildren(_, _, _)
WalkChildren(d, at, offsets) ==
    (IF IsDirectory(d) /\ offsets[at] # 0
     THEN FlattenSeq([i \in DOMAIN d.Children |-> appendDentry(d.Children[i], offsets[Append(at, i)])])
          \o <<EndOfDirectory>>
     ELSE <<>>)
    \o FlattenSeq([i \in DOMAIN d.Children |-> WalkChildren(d.Children[i], Append(at, i), offsets)])

AppendSecurityData(descriptors) ==
    [kind |-> "security", size |-> EncodedLen(descriptors), length |-> EncodedLen(descriptors),
     sizes |-> [i \in DOMAIN descriptors |-> Len(descriptors[i])], rest |-> FlattenSeq(descriptors)]

\* Parts in a row: what starts where, and where the last one ends.
LaidOut(parts) ==
    LET Starts(i) == SumOf([k \in 1 .. i - 1 |-> parts[k].size])
    IN  [at |-> [o \in {Starts(i) : i \in DOMAIN parts} |-> parts[CHOOSE i \in DOMAIN parts : Starts(i) = o]],
         len |-> Starts(Len(parts) + 1)]

Entries(root) == LET order == Collect(root, <<>>) IN {order[i].entry : i \in DOMAIN order}
Writable(im) == \A d \in Entries(im.Root) : Legal(d.Name) /\ Legal(d.ShortName)

AppendTo(im) ==
    LET offsets == assignSubdirOffsets(im.Root, EncodedLen(im.Security)).offsets
    IN  LaidOut(<<AppendSecurityData(im.Security)>> \o appendDentry(im.Root, offsets[<<>>])
                \o <<EndOfDirectory>> \o WalkChildren(im.Root, <<>>, offsets))

-----------------------------------------------------------------------------
(* Framing.  A chunk of a payload is the chunk of the data it stands for,     *)
(* raw or compressed, and its length.                                        *)

numChunksFor(n, chunkSize) == (n + chunkSize - 1) \div chunkSize
chunkUncompressedSize(i, numChunks, n, chunkSize) ==
    IF i # numChunks \/ n % chunkSize = 0 THEN chunkSize ELSE n % chunkSize
chunkTableEntrySize(n) == IF n >= NarrowLimit THEN 8 ELSE 4
EntryWrap(n, v) == IF chunkTableEntrySize(n) = 8 THEN v ELSE v % NarrowLimit

\* compressChunksParallel, each chunk shrunk to the length given.
StoredChunks(n, chunkSize, shrunk) ==
    [i \in DOMAIN shrunk |->
        LET usize == chunkUncompressedSize(i, Len(shrunk), n, chunkSize)
        IN  IF shrunk[i] >= usize THEN [chunk |-> i, raw |-> TRUE, len |-> usize]
            ELSE [chunk |-> i, raw |-> FALSE, len |-> shrunk[i]]]

TableLen(numChunks, n) == (numChunks - 1) * chunkTableEntrySize(n)
EndOf(chunks, i) == SumOf([k \in 1 .. i |-> chunks[k].len])

assembleCompressedPayload(chunks, n) ==
    [table |-> [i \in 1 .. Len(chunks) - 1 |-> EntryWrap(n, EndOf(chunks, i))], chunks |-> chunks,
     len |-> TableLen(Len(chunks), n) + EndOf(chunks, Len(chunks))]

RawPayload(n) == [table |-> <<>>, chunks |-> <<[chunk |-> 1, raw |-> TRUE, len |-> n]>>, len |-> n]

\* The payload and whether it is flagged as compressed.
EncodeResourceData(n, compression, chunkSize, shrunk) ==
    LET payload == assembleCompressedPayload(StoredChunks(n, chunkSize, shrunk), n)
    IN  IF compression = "none" \/ payload.len >= n THEN [payload |-> RawPayload(n), compressed |-> FALSE]
        ELSE [payload |-> payload, compressed |-> TRUE]

\* Every chunk is found where the table says, raw exactly if it is not shorter.
DecodeResourceData(payload, chunkSize, n) ==
    LET numChunks == numChunksFor(n, chunkSize)
        offset(i) == IF i = 1 THEN 0 ELSE payload.table[i - 1]
        end(i) == IF i < numChunks THEN offset(i + 1) ELSE payload.len - TableLen(numChunks, n)
        Decodes(i) ==
            /\ 0 <= offset(i) /\ offset(i) <= end(i) /\ end(i) <= payload.len - TableLen(numChunks, n)
            /\ \E k \in DOMAIN payload.chunks :
                 /\ EndOf(payload.chunks, k - 1) = offset(i) /\ EndOf(payload.chunks, k) = end(i)
                 /\ payload.chunks[k].chunk = i
                 /\ payload.chunks[k].raw <=>
                        end(i) - offset(i) = chunkUncompressedSize(i, numChunks, n, chunkSize)
    IN  /\ TableLen(numChunks, n) <= payload.len
        /\ \A i \in 1 .. numChunks : Decodes(i)

\* Whether the data of a resource comes back.
resourceData(r, compression, chunkSize) ==
    IF ~r.compressed THEN r.payload.len = r.UncompressedSize
    ELSE compression # "none" /\ DecodeResourceData(r.payload, chunkSize, r.UncompressedSize)

-----------------------------------------------------------------------------
(* ParseImageMetadata.                                                       *)

Refused == [ok |-> FALSE]

ParseSecurityData(buf) ==
    LET s == buf.at[0]
        total == IF alignUp8(s.length) = 0 THEN 8 ELSE alignUp8(s.length)
        Starts(i) == SumOf(SubSeq(s.sizes, 1, i - 1))
    IN  IF total > buf.len \/ 8 + 8 * Len(s.sizes) + SumOf(s.sizes) > total THEN Refused
        ELSE [ok |-> TRUE, len |-> total,
              Descriptors |-> [i \in DOMAIN s.sizes |->
                                  SubSeq(s.rest, Starts(i) + 1, Starts(i) + s.sizes[i])]]

\* The streams behind an entry, from offset off.
RECURSIVE parseStreams(_, _, _)
parseStreams(buf, off, count) ==
    IF count = 0 THEN [ok |-> TRUE, streams |-> <<>>, next |-> off]
    ELSE IF off \notin DOMAIN buf.at \/ buf.at[off].kind # "stream" THEN Refused
    ELSE LET s == buf.at[off]
             length == alignUp8(s.length)
             more == parseStreams(buf, off + length, count - 1)
         IN  IF \/ length < ExtraStreamFixedSize \/ off + length > buf.len
                \/ s.nameNB % 2 # 0 \/ ExtraStreamFixedSize + s.nameNB > length \/ ~more.ok
             THEN Refused
             ELSE [more EXCEPT !.streams = <<[Name |-> SubSeq(s.rest, 1, s.nameNB), Hash |-> s.hash]>> \o @]

\* The entry at an offset, where its list begins and where the next one does.
parseDirEntry(buf, off) ==
    IF off \notin DOMAIN buf.at \/ buf.at[off].kind \notin {"dentry", "end"} THEN Refused
    ELSE LET p == buf.at[off]
             length == alignUp8(p.length)
             shortAt == Terminated(p.nameNB)
             extraAt == alignUp8(dentryMinLenWithNames(p.nameNB, p.shortNameNB)) - DirEntryFixedSize
             reparse == ReparsePoint \in p.attributes
             more == parseStreams(buf, off + length, p.numExtraStreams)
         IN  IF length <= 8 THEN [ok |-> TRUE, end |-> TRUE]
             ELSE IF off + length > buf.len \/ length < dentryMinLenWithNames(p.nameNB, p.shortNameNB)
                     \/ p.nameNB % 2 # 0 \/ p.shortNameNB % 2 # 0 \/ ~more.ok
             THEN Refused
             ELSE [ok |-> TRUE, end |-> FALSE, subdir |-> p.subdir, next |-> more.next,
                   entry |-> [Attributes |-> p.attributes, SecurityID |-> p.security, Times |-> p.times,
                              ReparseTag |-> IF reparse THEN p.union ELSE 0,
                              HardLinkGroupID |-> IF reparse THEN 0 ELSE p.union,
                              Name |-> SubSeq(p.rest, 1, p.nameNB),
                              ShortName |-> SubSeq(p.rest, shortAt + 1, shortAt + p.shortNameNB),
                              Streams |-> <<[Name |-> <<>>, Hash |-> p.mainHash]>> \o more.streams,
                              Extra |-> SubSeq(p.rest, extraAt + 1, length - DirEntryFixedSize),
                              Children |-> <<>>]]

\* A list of entries up to its end, each with what is below it.
RECURSIVE parseDirEntryTreeChildren(_, _, _), WithChildren(_, _, _)
parseDirEntryTreeChildren(buf, off, depth) ==
    LET r == parseDirEntry(buf, off)
        child == WithChildren(buf, r, depth + 1)
        more == parseDirEntryTreeChildren(buf, r.next, depth)
    IN  IF depth >= MaxTreeDepth \/ ~r.ok THEN Refused
        ELSE IF r.end THEN [ok |-> TRUE, entries |-> <<>>]
        ELSE IF ~child.ok \/ ~more.ok THEN Refused
        ELSE [ok |-> TRUE, entries |-> <<child.entry>> \o more.entries]
WithChildren(buf, r, depth) ==
    IF r.subdir = 0 \/ ~IsDirectory(r.entry) THEN r
    ELSE LET below == parseDirEntryTreeChildren(buf, r.subdir, depth)
         IN  IF below.ok THEN [r EXCEPT !.entry.Children = below.entries] ELSE Refused

\* A resource without a root entry is no image.
ParseImageMetadata(buf) ==
    LET sd == ParseSecurityData(buf)
        r == IF sd.ok THEN parseDirEntry(buf, sd.len) ELSE Refused
        root == WithChildren(buf, r, 0)
    IN  IF ~sd.ok \/ ~r.ok \/ r.end \/ ~root.ok THEN Refused
        ELSE [ok |-> TRUE, Security |-> sd.Descriptors, Root |-> root.entry]

-----------------------------------------------------------------------------
(* The calls.  input has the donor's tree and descriptors and the grafts,     *)
(* <<path in the donor, path in the new image>>.                             *)

NewImage ==
    /\ stage = "wim"
    /\ work' = [ids |-> <<>>, Root |-> NewDirectory(<<>>), grafted |-> 0]
    /\ stage' = "graft"
    /\ UNCHANGED <<codec, input, stream, output>>

GraftSubtree ==
    /\ stage = "graft" /\ work.grafted < Len(input.grafts)
    /\ LET g == input.grafts[work.grafted + 1]
           copy == Copy(work.ids, Lookup(input.donor.Root, g[1]))
           r == AttachAt(work.Root, g[2], copy.entry)
       IN  /\ work' = [ids |-> copy.ids, Root |-> r.root, grafted |-> work.grafted + 1]
           /\ stage' = IF r.ok THEN "graft" ELSE "failed"
    /\ UNCHANGED <<codec, input, stream, output>>

\* An image with an illegal name is not written.
AppendMetadata ==
    /\ stage = "graft" /\ work.grafted = Len(input.grafts)
    /\ LET im == [Root |-> work.Root, Security |-> BuildSecurityData(work.ids, input.donor.Security)]
       IN  IF Writable(im) THEN stage' = "metadata" /\ work' = AppendTo(im)
           ELSE stage' = "failed" /\ UNCHANGED work
    /\ UNCHANGED <<codec, input, stream, output>>

\* What WriteTo writes and records of it.
EncodeMetadata ==
    /\ stage = "metadata"
    /\ LET numChunks == numChunksFor(work.len, codec.chunkSize)
           Usize(i) == chunkUncompressedSize(i, numChunks, work.len, codec.chunkSize)
           Shrunk(i, how) == CASE how = "much" -> 1
                               [] how = "little" -> Max({1, Usize(i) - 1})
                               [] how = "not" -> Usize(i)
       IN  \E how \in [1 .. numChunks -> {"much", "little", "not"}] :
             LET e == EncodeResourceData(work.len, codec.compression, codec.chunkSize,
                                         [i \in 1 .. numChunks |-> Shrunk(i, how[i])])
             IN  stream' = [payload |-> e.payload, compressed |-> e.compressed, UncompressedSize |-> work.len]
    /\ stage' = "resource"
    /\ UNCHANGED <<codec, input, work, output>>

ReadMetadata ==
    /\ stage = "resource"
    /\ output' = (IF resourceData(stream, codec.compression, codec.chunkSize)
                  THEN ParseImageMetadata(work) ELSE Refused)
    /\ stage' = "done"
    /\ UNCHANGED <<codec, input, work, stream>>

MetadataNext == NewImage \/ GraftSubtree \/ AppendMetadata \/ EncodeMetadata \/ ReadMetadata

-----------------------------------------------------------------------------
(* What a donor's subtree should be after all this.                          *)

Paths(grafts) == {grafts[i][2] : i \in DOMAIN grafts}

Descriptor(table, id) ==
    IF id = SecurityIDNone THEN "none" ELSE IF id < Len(table) THEN table[id + 1] ELSE <<>>
Unnamed(d) == IF d.Streams = <<>> THEN <<[Name |-> <<>>, Hash |-> 0]>> ELSE d.Streams

\* All that is known of the entries from d down, with their paths; the order of a
\* directory's entries too, unless something else is attached below it.
RECURSIVE Facts(_, _, _)
Facts(d, path, table) ==
    LET others == \E p \in Paths(input.grafts) : IsStrictPrefix(path, p)
    IN  {[path |-> path,
          entry |-> [d EXCEPT !.Name = <<>>, !.SecurityID = 0, !.Children = <<>>, !.Streams = Unnamed(d)],
          descriptor |-> Descriptor(table, d.SecurityID),
          order |-> IF others THEN <<>> ELSE [i \in DOMAIN d.Children |-> d.Children[i].Name]]}
        \cup UNION {Facts(d.Children[i], Append(path, d.Children[i].Name), table) : i \in DOMAIN d.Children}

Grafted ==
    UNION {Facts(Lookup(input.donor.Root, g[1]), g[2], input.donor.Security) : g \in ToSet(input.grafts)}

UsedDescriptors ==
    LET Ids(d) == {e.SecurityID : e \in Entries(d)}
    IN  UNION {Ids(Lookup(input.donor.Root, g[1])) : g \in ToSet(input.grafts)} \ {SecurityIDNone}

\* The directories made on the way to a graft.
MadeOnTheWay ==
    LET between == {<<>>} \cup UNION {{SubSeq(p, 1, k) : k \in 1 .. Len(p)} : p \in Paths(input.grafts)}
    IN  UNION {Facts(NewDirectory(<<>>), p, <<>>) :
                 p \in {q \in between : q \notin Paths(input.grafts) /\ \A f \in Grafted : f.path # q}}

\* The reader's depth, the width of a stream's fields, and what the writer rounds.
Fits(facts) ==
    \A f \in facts :
        /\ IsDirectory(f.entry) => Len(f.path) < MaxTreeDepth
        /\ Len(f.entry.Streams) <= NameLimit
        /\ f.entry.Streams[1].Name = <<>>
        /\ \A i \in DOMAIN f.entry.Streams : Len(f.entry.Streams[i].Name) < NameLimit
        /\ Len(f.entry.Extra) % 8 = 0

\* Whatever is grafted reads back from the written image as it was in the donor:
\* every entry under its path, with its fields, streams and siblings in order and the
\* descriptor it had there, although the table is another one; and the image holds
\* nothing else, and no descriptor twice or unused.  That is so exactly while the donor
\* keeps within what the fields hold and the reader takes, however the chunks of the
\* resource have shrunk; and the resource never takes more room than its data.
\* AppendTo walks the tree twice, for the offsets and for the bytes (dentry_write.go,
\* metadata.go), and DecodeResourceData tells a raw chunk by its length alone.
GraftReadsBack ==
    LET expected == Grafted \cup MadeOnTheWay
    IN  (codec.name = "wim" /\ stage = "done") =>
            /\ stream.payload.len <= stream.UncompressedSize
            /\ Fits(expected) <=> /\ output.ok
                                  /\ Facts(output.Root, <<>>, output.Security) = expected
                                  /\ Len(output.Security) = Cardinality(UsedDescriptors)
=============================================================================
