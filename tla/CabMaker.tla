------------------------------ MODULE CabMaker ------------------------------
(***************************************************************************)
(* The cabinets package cab (src/cab) is given.  They are another program's  *)
(* work: LZX blocks as package lzx's encoder writes them, but in frames, with *)
(* codes, recent offsets and the window living on from frame to frame, and   *)
(* each frame padded to the next unit of 16 bits.                            *)
(*                                                                          *)
(* A cabinet is a set of records, each with the place where it begins; what  *)
(* is looked for at another place is not there.                              *)
(***************************************************************************)
EXTENDS LzxCodec

CONSTANTS
    CabFrame,       \* lzxFrameSize (32768)
    Damaged         \* what a damaged byte was increased by

HeaderSize == 36
FolderSize == 8
FileSize == 16
DataSize == 8
NameSize == 2       \* of every name here, with its zero

-----------------------------------------------------------------------------
(* cabChecksum, as four bytes, the lowest first.                             *)

XorByte(a, b) == FromBits([k \in 1 .. 8 |-> (ToBits(a, 8)[k] + ToBits(b, 8)[k]) % 2])
XorWord(a, b) == [k \in 1 .. 4 |-> XorByte(a[k], b[k])]

\* The bytes that fill no word count from the highest down.
cabChecksum(data, cbData, cbUncomp) ==
    LET whole == Len(data) \div 4
        rest == Len(data) % 4
        words == [w \in 1 .. whole |-> SubSeq(data, 4 * w - 3, 4 * w)]
        tail == [k \in 1 .. 4 |-> IF k <= rest THEN data[Len(data) + 1 - k] ELSE 0]
    IN  FoldLeft(XorWord, <<cbData % 256, cbData \div 256, cbUncomp % 256, cbUncomp \div 256>>,
                 Append(words, tail))

-----------------------------------------------------------------------------
(* Another program's cabinet.                                                *)

CabFrameEnd(p) == CabFrame * (p \div CabFrame + 1)
CabFrames(n) == [k \in 1 .. (n + CabFrame - 1) \div CabFrame |-> Min({CabFrame, n - CabFrame * (k - 1)})]

\* Operands of calls, frame by frame, as in package lzx but with the size the
\* header names.
RECURSIVE CabTranslate(_, _, _, _)
CabTranslate(data, p, end, size) ==
    LET n == ReadOperand(data, p + 1)
        t == IF n < -p \/ n >= size THEN n ELSE IF n < size - p THEN n + p ELSE n - size
        frameEnd == Min({CabFrameEnd(p), end})
    IN  IF p >= end THEN data
        ELSE IF p >= frameEnd - 2 * (Operand + 1) THEN CabTranslate(data, frameEnd, end, size)
        ELSE IF data[p + 1] # CallByte THEN CabTranslate(data, p + 1, end, size)
        ELSE CabTranslate(WithOperand(data, p + 1, t), p + 1 + Operand, end, size)

\* The longest match at p, a recent offset first; no match leaves its frame.
CabBest(data, p, end, q, order) ==
    LET room == Min({end, CabFrameEnd(p)}) - p
        Same(o) == Min({room, commonPrefixLen(data, p - o, p)})
        again == {Match(q[k + 1], Same(q[k + 1]), k) : k \in {j \in 0 .. 2 : q[j + 1] <= p}}
        fresh == {Match(o, Same(o), Nowhere) : o \in 1 .. Min({p, Pow2(order) - MinMatch})}
        Good == {t \in again : t.len >= MinMatchLen} \cup {t \in fresh : t.len >= MinMatch}
        Rank(t) == 1000 * t.len + (IF t.repeat = Nowhere THEN 0 ELSE 500 - t.repeat) - t.offset
    IN  IF Good = {} THEN Literal(data[p + 1])
        ELSE CHOOSE t \in Good : \A u \in Good : Rank(u) <= Rank(t)

RECURSIVE CabTokens(_, _, _, _, _), CabTokenThen(_, _, _, _, _, _)
CabTokens(data, p, end, q, order) ==
    IF p = end THEN [toks |-> <<>>, queue |-> q] ELSE CabTokenThen(data, CabBest(data, p, end, q, order), p, end, q, order)
CabTokenThen(data, t, p, end, q, order) ==
    LET Before_(r) == [r EXCEPT !.toks = <<t>> \o @]
    IN  Before_(CabTokens(data, p + t.len, end, IF t.match THEN applyMatch(q, t.repeat, t.offset) ELSE q, order))

\* What is written of a block, with the places where it has to be aligned.  A block
\* without any offset for the aligned code is verbatim.
Align == <<0, -1>>
PadFrame == <<0, -2>>
EndFrame == <<0, -3>>
MarkAt(p, total, mark) == IF p % CabFrame = 0 \/ p = total THEN <<mark>> ELSE <<>>

CabHead(kind, size) == Field(kind, 3) \o Field(0, 16) \o Field(size, 8)
CabBytesBlock(s, size, data) ==
    LET Byte(i) == Field(data[s.p + i], 8) \o MarkAt(s.p + i, Len(data), EndFrame)
    IN  [s EXCEPT !.p = @ + size,
                  !.fields = @ \o CabHead(Uncompressed, size) \o <<Align>> \o [k \in 1 .. 3 |-> <<s.queue[k], 32>>]
                             \o FlattenSeq([i \in 1 .. size |-> Byte(i)])
                             \o (IF size % 2 = 1 THEN <<<<0, 8>>>> ELSE <<>>)]
CabTokenFields(s, toks, lens, aligned, total) ==
    LET codes == canonicalCodewords(lens.main, MaxMainLen)
        lenCodes == canonicalCodewords(lens.len, MaxLenLen)
        Of(k, t) == Field(codes[MainSym(t) + 1], lens.main[MainSym(t) + 1])
                    \o (IF t.match THEN MatchFields(t, lens, lenCodes, aligned) ELSE <<>>)
                    \o MarkAt(s.p + BytesOf(SubSeq(toks, 1, k)), total, PadFrame)
    IN  FlattenSeq([k \in DOMAIN toks |-> Of(k, toks[k])])
CabCodedBlock(s, size, total, parsed, lens, aligned) ==
    [p |-> s.p + size, queue |-> parsed.queue, lens |-> lens,
     fields |-> s.fields \o CabHead(IF aligned = <<>> THEN Verbatim ELSE Aligned, size)
                \o FlattenSeq([i \in DOMAIN aligned |-> Field(aligned[i], 3)]) \o writeTables(lens, s.lens)
                \o CabTokenFields(s, parsed.toks, lens, aligned, total)]
UnlessEmpty(lens) == IF ToSet(lens) = {0} THEN <<>> ELSE lens
CabParsedBlock(s, kind, size, total, parsed, order) ==
    CabCodedBlock(s, size, total, parsed, buildTables(parsed.toks, numMainSyms(order)),
                  IF kind = Aligned THEN UnlessEmpty(buildAlignedTable(parsed.toks)) ELSE <<>>)
CabBlock(s, kind, size, data, order) ==
    IF kind = Uncompressed THEN CabBytesBlock(s, size, data)
    ELSE CabParsedBlock(s, kind, size, Len(data), CabTokens(data, s.p, s.p + size, s.queue, order), order)

\* The fields of each frame; only bits are padded, bytes are not.
CabPadded(fields) ==
    LET Add(s, f) ==
            LET bits == s.before + Bits(s.frame)
                Ended(pad) == [frames |-> Append(s.frames, s.frame \o Field(0, pad)), frame |-> <<>>,
                               before |-> (bits + pad) % 16]
            IN  IF f = Align THEN [s EXCEPT !.frame = @ \o Field(0, 16 - (bits % 16))]
                ELSE IF f = PadFrame THEN Ended((-bits) % 16)
                ELSE IF f = EndFrame THEN Ended(0)
                ELSE [s EXCEPT !.frame = Append(@, f)]
        r == FoldLeft(Add, [frames |-> <<>>, frame |-> <<>>, before |-> 0], fields)
    IN  IF r.frame = <<>> THEN r.frames ELSE [r.frames EXCEPT ![Len(r.frames)] = @ \o r.frame]

CabLzx(data, blocks, order, size) ==
    LET d == IF size = 0 THEN data ELSE CabTranslate(data, 0, Len(data), size)
        start == [p |-> 0, queue |-> FirstQueue, lens |-> NoLens(numMainSyms(order)),
                  fields |-> IF size = 0 THEN Field(0, 1) ELSE Field(1, 1) \o Field(0, 16) \o Field(size, 16)]
    IN  CabPadded(FoldLeft(LAMBDA s, b : CabBlock(s, b[1], b[2], d, order), start, blocks).fields)

\* The layout: a header and what its makers reserved, the folders, the files, and
\* the blocks of data.  Names may occur twice; the second folder is not compressed.
CabBlocks(c, stored, sizes, frames) ==
    LET sum == cabChecksum(stored, Len(stored), Len(stored))
        found == [i \in DOMAIN stored |-> (IF i = c.damaged THEN stored[i] + Damaged ELSE stored[i]) % 256]
    IN  [k \in DOMAIN frames |->
            [csum |-> Seq0(4), block |-> frames[k], cbData |-> Bits(frames[k]) \div 8, cbUncomp |-> sizes[k]]]
        \o <<[csum |-> sum, block |-> found, cbData |-> Len(stored), cbUncomp |-> Len(stored)]>>

CabLaidOut(c, blocks) ==
    LET reserve == c.reserve
        frames == Len(blocks) - 1
        folders == HeaderSize + (IF reserve > 0 THEN 4 + reserve ELSE 0)
        files == folders + 2 * (FolderSize + reserve)
        firstData == files + Len(c.files) * (FileSize + NameSize)
        DataAt(k) == firstData + MapThenSumSet(LAMBDA j : DataSize + reserve + blocks[j].cbData, 1 .. k - 1)
        Folder(f) == [kind |-> "folder", dataStart |-> DataAt(IF f = 0 THEN 1 ELSE frames + 1),
                      numDataBlocks |-> IF f = 0 THEN frames ELSE 1,
                      Method |-> IF f = 0 THEN "LZX" ELSE c.method, window |-> c.order]
    IN  [header |-> [flags |-> c.flags, reserve |-> reserve, coffFiles |-> files, cFolders |-> 2,
                     cFiles |-> Len(c.files)],
         length |-> DataAt(Len(blocks) + 1) - c.cut,
         at |-> [o \in {folders + f * (FolderSize + reserve) : f \in {0, 1}} |-> Folder(IF o = folders THEN 0 ELSE 1)]
             @@ [o \in {files + k * (FileSize + NameSize) : k \in 0 .. Len(c.files) - 1} |->
                    c.files[(o - files) \div (FileSize + NameSize) + 1]]
             @@ [o \in {DataAt(k) : k \in DOMAIN blocks} |-> blocks[CHOOSE k \in DOMAIN blocks : DataAt(k) = o]]]

CabLayout(c, data) ==
    CabLaidOut(c, CabBlocks(c, SubSeq(data, 1, c.stored), CabFrames(Len(data)),
                            CabLzx(data, c.blocks, c.order, c.size)))
=============================================================================
