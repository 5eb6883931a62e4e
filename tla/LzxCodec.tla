------------------------------ MODULE LzxCodec ------------------------------
(***************************************************************************)
(* Package lzx as one chunk passes through it (src/lzx): the filter of call  *)
(* targets, the choice of tokens, their blocks, and decompressInto, which    *)
(* has to come to the same codes and the same recent offsets from the stream *)
(* alone.  Which of the candidate encodings is shortest is left open: any of *)
(* them may be the one that is returned.                                     *)
(***************************************************************************)
EXTENDS LzxParse

CONSTANTS
    CallByte,           \* the opcode 0xE8
    Operand,            \* bytes of a call's operand (4)
    Magic,              \* wimMagicFilesize
    DefaultBlockSize,   \* defaultBlockSize (32768)
    SizeBits,           \* bits of a block's size in the smallest window (16)
    WideSizeBits,       \* and in larger ones (24)
    MinAlignedSlot,     \* minAlignedOffsetSlot (8)
    AlignedBits,        \* numAlignedOffsetBits (3)
    MinStatsBlock,      \* minStatsBlockSize
    MaxRounds           \* bound: parses of one chunk

AlignedSyms == Pow2(AlignedBits)
Verbatim == 1
Aligned == 2
Uncompressed == 3

-----------------------------------------------------------------------------
(* The filter: operands of calls become absolute, and back.                  *)

\* The operand at p as a signed number, and a number as an operand.
Wrap == NumChars ^ Operand
Signed(n) == IF n >= Wrap \div 2 THEN n - Wrap ELSE n
ReadOperand(data, p) ==
    Signed(FoldLeft(LAMBDA n, k : n * NumChars + data[p + k], 0, [k \in 1 .. Operand |-> Operand + 1 - k]))
WithOperand(data, p, n) ==
    [i \in DOMAIN data |-> IF i \in p + 1 .. p + Operand
                           THEN ((n % Wrap) \div (NumChars ^ (i - p - 1))) % NumChars ELSE data[i]]

doTranslateTarget(rel, at) ==
    IF rel < -at \/ rel >= Magic THEN rel
    ELSE IF rel < Magic - at THEN rel + at ELSE rel - Magic

undoTranslateTarget(abs, at) ==
    IF abs >= 0 THEN (IF abs < Magic THEN abs - at ELSE abs)
    ELSE IF abs >= -at THEN abs + Magic ELSE abs

\* The scan ends at a call in the tail; an operand is not searched for calls.
TailLen == Operand + 2
RECURSIVE FilterFrom(_, _, _)
FilterFrom(data, p, undo) ==
    LET n == ReadOperand(data, p + 1)
        t == IF undo THEN undoTranslateTarget(n, p) ELSE doTranslateTarget(n, p)
    IN  IF data[p + 1] # CallByte THEN FilterFrom(data, p + 1, undo)
        ELSE IF p >= Len(data) - TailLen THEN data
        ELSE FilterFrom(WithOperand(data, p + 1, t), p + 1 + Operand, undo)

\* While it is scanned, the tail is nothing but opcodes, and then it is put back.  An
\* operand that reaches into it is read with them, and so out of reach: no position of
\* a chunk is as far from zero as that number.
Marked(data) == [i \in DOMAIN data |-> IF i > Len(data) - TailLen THEN CallByte ELSE data[i]]
e8Filter(data, undo) ==
    LET tail == Len(data) - TailLen
    IN  IF Len(data) <= 2 * (Operand + 1) THEN data
        ELSE SubSeq(FilterFrom(Marked(data), 0, undo), 1, tail) \o SubSeq(data, tail + 1, Len(data))

-----------------------------------------------------------------------------
(* Blocks.                                                                   *)

Header(lenField) == Min({lenField, NumPrimaryLens})
MainSym(t) == IF ~t.match THEN t.byte
              ELSE NumChars + tokenOffsetSlot(t) * NumLenHeaders + Header(t.len - MinMatchLen)
HasLenSym(t) == t.match /\ t.len - MinMatchLen >= NumPrimaryLens
LenSym(t) == t.len - MinMatchLen - NumPrimaryLens
OffsetExtra(t) == t.offset - SlotBase[tokenOffsetSlot(t) + 1]
IsAligned(t) == t.match /\ t.repeat = Nowhere /\ tokenOffsetSlot(t) >= MinAlignedSlot

BytesOf(toks) == FoldLeft(LAMBDA n, t : n + t.len, 0, toks)
SymsOf(toks, Has(_), Sym(_)) ==
    LET some == SelectSeq(toks, Has) IN [i \in DOMAIN some |-> Sym(some[i])]

buildTables(toks, nMain) ==
    [main |-> buildLengths(Frequencies(nMain, [i \in DOMAIN toks |-> MainSym(toks[i])]), MaxMainLen),
     len |-> buildLengths(Frequencies(LenSyms, SymsOf(toks, HasLenSym, LenSym)), MaxLenLen)]

AlignedSym(t) == OffsetExtra(t) % AlignedSyms
buildAlignedTable(toks) ==
    buildLengths(Frequencies(AlignedSyms, SymsOf(toks, IsAligned, AlignedSym)), MaxAlignedLen)

SizeField(size, order) ==
    IF size = DefaultBlockSize THEN Field(1, 1)
    ELSE Field(0, 1) \o Field(size, IF order > MinOrder THEN WideSizeBits ELSE SizeBits)

NoLens(nMain) == [main |-> Seq0(nMain), len |-> Seq0(LenSyms)]
\* The three tables of a block, in the order they are sent.
Parts == <<"chars", "matches", "len">>
PartOf(lens, part) ==
    IF part = "chars" THEN SubSeq(lens.main, 1, NumChars)
    ELSE IF part = "matches" THEN SubSeq(lens.main, NumChars + 1, Len(lens.main)) ELSE lens.len
writeTables(lens, prev) ==
    FlattenSeq([k \in 1 .. 3 |-> writeCodewordLens(PartOf(lens, Parts[k]), PartOf(prev, Parts[k]))])

\* The bits of one token's match after its main symbol.
MatchFields(t, lens, lenCodes, aligned) ==
    LET extra == ExtraBits[tokenOffsetSlot(t) + 1]
    IN  (IF HasLenSym(t) THEN Field(lenCodes[LenSym(t) + 1], lens.len[LenSym(t) + 1]) ELSE <<>>)
        \o (IF t.repeat # Nowhere \/ extra = 0 THEN <<>>
            ELSE IF aligned # <<>> /\ IsAligned(t)
            THEN Field(OffsetExtra(t) \div AlignedSyms, extra - AlignedBits)
                 \o Field(canonicalCodewords(aligned, MaxAlignedLen)[AlignedSym(t) + 1], aligned[AlignedSym(t) + 1])
            ELSE Field(OffsetExtra(t), extra))

\* writeBlockInto; aligned is the aligned offset code's lengths, <<>> for a verbatim
\* block.
writeBlock(toks, order, lens, prev, aligned) ==
    LET codes == canonicalCodewords(lens.main, MaxMainLen)
        lenCodes == canonicalCodewords(lens.len, MaxLenLen)
        Fields(t) == Field(codes[MainSym(t) + 1], lens.main[MainSym(t) + 1])
                     \o (IF t.match THEN MatchFields(t, lens, lenCodes, aligned) ELSE <<>>)
    IN  Field(IF aligned = <<>> THEN Verbatim ELSE Aligned, 3) \o SizeField(BytesOf(toks), order)
        \o FlattenSeq([i \in DOMAIN aligned |-> Field(aligned[i], 3)])
        \o writeTables(lens, prev)
        \o FlattenSeq([i \in DOMAIN toks |-> Fields(toks[i])])

\* Uncompressed data follows at the next 16-bit boundary, after the recent offsets.
writeUncompressedBlock(data, order) ==
    LET head == Field(Uncompressed, 3) \o SizeField(Len(data), order)
    IN  head \o Field(0, 16 - (Bits(head) % 16))
        \o [k \in 1 .. 3 |-> <<1, 32>>]
        \o [i \in DOMAIN data |-> <<data[i], 8>>]
        \o (IF Len(data) % 2 = 1 THEN <<<<0, 8>>>> ELSE <<>>)

\* Segments in blocks of their own: each with its own codes, as differences from
\* those of the block before.
Segments(toks, cuts) ==
    LET ends == SetToSortSeq(cuts \cup {Len(toks)}, <)
    IN  [i \in DOMAIN ends |-> SubSeq(toks, (IF i = 1 THEN 0 ELSE ends[i - 1]) + 1, ends[i])]

encodeSegments(segs, order, alignedOnes) ==
    LET nMain == numMainSyms(order)
        Tables(i) == IF i = 0 THEN NoLens(nMain) ELSE buildTables(segs[i], nMain)
    IN  FlattenSeq([i \in DOMAIN segs |->
            writeBlock(segs[i], order, Tables(i), Tables(i - 1),
                       IF i \in alignedOnes THEN buildAlignedTable(segs[i]) ELSE <<>>)])

\* trySplitChunk: the token boundary nearest to the middle.
MiddleCut(toks) ==
    LET target == BytesOf(toks) \div 2
        Before_(k) == BytesOf(SubSeq(toks, 1, k - 1))
        over == Min({k \in DOMAIN toks : Before_(k) + toks[k].len > target})
    IN  IF target - Before_(over) <= Before_(over) + toks[over].len - target THEN over - 1 ELSE over

\* lzxBlockSplitPoints looks for a change in the kinds of tokens: any boundaries
\* far enough apart may be found.
StatsCuts(toks) ==
    LET At(k) == BytesOf(SubSeq(toks, 1, k))
        n == BytesOf(toks)
    IN  {c \in SUBSET (1 .. Len(toks) - 1) :
            /\ c # {} /\ n >= 2 * MinStatsBlock
            /\ \A k \in c : /\ n - At(k) >= MinStatsBlock
                            /\ At(k) - Max({0} \cup {At(j) : j \in {i \in c : i < k}}) >= MinStatsBlock}

-----------------------------------------------------------------------------
(* decompressInto, block by block.                                           *)

Decoder(nMain, in) ==
    [in |-> in, out |-> <<>>, main |-> Seq0(nMain), len |-> Seq0(LenSyms), recent |-> FirstQueue,
     saw |-> FALSE]

\* lzCopy; bytes just written may be read again.
lzCopy(out, offset, len) ==
    FoldLeft(LAMBDA o, k : Append(o, o[Len(o) + 1 - offset]), out, [k \in 1 .. len |-> k])

\* dec holds the decoders of the block; its aligned one is Unset in a verbatim block.
Plus(r, n) == IF r.v = Lost THEN r ELSE [r EXCEPT !.v = @ + n]
MatchLen(in, dec, header) ==
    IF header < NumPrimaryLens THEN Read(header + MinMatchLen, in)
    ELSE Plus(SymbolIn(in, dec.len), header + MinMatchLen)

\* The low bits by the aligned code, the others before them as they are.
LowBits(raw, r) == IF Lost \in {raw.v, r.v} THEN Read(Lost, r.in) ELSE Plus(r, raw.v * AlignedSyms)
ByAligned(raw, dec) == LowBits(raw, SymbolIn(raw.in, dec.aligned))
OffsetIn(in, dec, slot) ==
    IF dec.aligned # Unset /\ slot >= MinAlignedSlot
    THEN Plus(ByAligned(FieldIn(in, ExtraBits[slot + 1] - AlignedBits), dec), SlotBase[slot + 1])
    ELSE Plus(FieldIn(in, ExtraBits[slot + 1]), SlotBase[slot + 1])

\* A recent offset, or a new one, goes to the head of the queue.
Requeued(recent, slot, offset) ==
    IF slot < NumRecent THEN [[recent EXCEPT ![slot + 1] = recent[1]] EXCEPT ![1] = offset]
    ELSE <<offset, recent[1], recent[2]>>

Copied(d, slot, len, r, blockEnd) ==
    IF r.v < 1 \/ r.v > Len(d.out) \/ Len(d.out) + len > blockEnd THEN Failed
    ELSE [d EXCEPT !.in = r.in, !.recent = Requeued(@, slot, r.v), !.out = lzCopy(@, r.v, len)]
MatchOf(d, dec, blockEnd, slot, l) ==
    IF l.v = Lost THEN Failed
    ELSE Copied(d, slot, l.v,
                IF slot < NumRecent THEN Read(d.recent[slot + 1], l.in) ELSE OffsetIn(l.in, dec, slot), blockEnd)
TokenOf(d, dec, blockEnd, nSlots, s) ==
    LET slot == (s.v - NumChars) \div NumLenHeaders
    IN  IF s.v = Lost THEN Failed
        ELSE IF s.v < NumChars THEN [d EXCEPT !.in = s.in, !.out = Append(@, s.v), !.saw = @ \/ s.v = CallByte]
        ELSE IF slot >= nSlots THEN Failed
        ELSE MatchOf(d, dec, blockEnd, slot, MatchLen(s.in, dec, (s.v - NumChars) % NumLenHeaders))

RECURSIVE DecodeTokens(_, _, _, _)
DecodeTokens(d, dec, blockEnd, nSlots) ==
    IF d = Failed THEN Failed
    ELSE IF Len(d.out) = blockEnd THEN d
    ELSE DecodeTokens(TokenOf(d, dec, blockEnd, nSlots, SymbolIn(d.in, dec.main)), dec, blockEnd, nSlots)

\* One code table after the other, in place of the one of the block before.
WithPart(d, part, lens) ==
    IF part = "len" THEN [d EXCEPT !.len = lens]
    ELSE [d EXCEPT !.main = IF part = "chars" THEN lens \o PartOf(d, "matches") ELSE PartOf(d, "chars") \o lens]
WithTable(d, part, r) == IF r = Failed THEN Failed ELSE [WithPart(d, part, r.lens) EXCEPT !.in = r.in]
ReadTable(d, part) == IF d = Failed THEN Failed ELSE WithTable(d, part, readCodewordLens(d.in, PartOf(d, part)))
ReadTables(d) == FoldLeft(ReadTable, d, Parts)

DecodeCoded(d, blockEnd, aligned, nSlots) ==
    IF d = Failed THEN Failed
    ELSE DecodeTokens([d EXCEPT !.saw = @ \/ d.main[CallByte + 1] # 0],
                      [main |-> newHuffDecoder(d.main, MaxMainLen), len |-> newHuffDecoder(d.len, MaxLenLen),
                       aligned |-> aligned], blockEnd, nSlots)

\* The aligned code, if there is one, stands before the tables.
DecodeAligned(d, blockEnd, nSlots) ==
    DecodeCoded(ReadTables([d EXCEPT !.in = SubSeq(@, AlignedSyms + 1, Len(@))]), blockEnd,
                newHuffDecoder([i \in 1 .. AlignedSyms |-> d.in[i][1]], MaxAlignedLen), nSlots)

\* align drops the rest of the 16 bits at hand.
DecodeUncompressed(d, size) ==
    LET body == SubSeq(d.in, 2, Len(d.in))
    IN  IF Len(body) < 3 + size THEN Failed
        ELSE IF \E i \in 1 .. 3 : body[i][1] = 0 THEN Failed
        ELSE [d EXCEPT !.recent = [i \in 1 .. 3 |-> body[i][1]],
                       !.out = @ \o [i \in 1 .. size |-> body[i + 3][1]],
                       !.in = SubSeq(body, 4 + size + (size % 2), Len(body)),
                       !.saw = TRUE]

DecodeBody(d, type, size, order) ==
    IF type = Verbatim THEN DecodeCoded(ReadTables(d), Len(d.out) + size, Unset, numOffsetSlots(order))
    ELSE IF type = Aligned THEN DecodeAligned(d, Len(d.out) + size, numOffsetSlots(order))
    ELSE IF type = Uncompressed THEN DecodeUncompressed(d, size)
    ELSE Failed

DecodeBlock(d, order, expected) ==
    LET default == d.in[2][1] = 1
        size == IF default THEN DefaultBlockSize ELSE d.in[3][1]
    IN  IF Len(d.in) < 3 THEN Failed
        ELSE IF size < 1 \/ size > expected - Len(d.out) THEN Failed
        ELSE DecodeBody([d EXCEPT !.in = SubSeq(@, IF default THEN 3 ELSE 4, Len(@))], d.in[1][1], size, order)

-----------------------------------------------------------------------------
(* The steps of the two calls.                                               *)

Order == windowOrder(Len(input))

\* CompressWith: the options decide how the chunk is parsed, if at all.
LzxPrepare ==
    /\ stage = "lzx"
    /\ LET data == e8Filter(input, FALSE)
           start == [data |-> data, p |-> 0, queue |-> FirstQueue, ix |-> NoIndex(data), toks |-> <<>>,
                     rounds |-> 0, kept |-> Unset]
       IN  IF codec.how = "none"
           THEN /\ stream' = writeUncompressedBlock(data, Order)
                /\ work' = Decoder(numMainSyms(Order), stream') /\ stage' = "lzx decode"
           ELSE /\ stage' = IF codec.how = "optimal" THEN "lzx keep" ELSE "lzx parse"
                /\ work' = IF codec.how = "optimal"
                           THEN [start EXCEPT !.p = Len(data),
                                              !.toks = findMatchesOptimal(data, codec.lit, codec.depth)]
                           ELSE start
                /\ UNCHANGED stream
    /\ UNCHANGED <<codec, input, output>>

IsTree == codec.how = "tree"

\* One token of findMatchesWith's loop.
Emit(t) ==
    LET end == work.p + t.len
    IN  /\ work' = [work EXCEPT
                        !.p = end,
                        !.toks = Append(@, t),
                        !.queue = IF t.match THEN applyMatch(@, t.repeat, t.offset) ELSE @,
                        !.ix = insertRange(@, work.data, work.p, end, IsTree, codec.depth)]
        /\ stage' = IF end = Len(work.data) THEN "lzx keep" ELSE stage
        /\ UNCHANGED <<codec, input, stream, output>>

LzxLiteral == stage = "lzx parse" /\ Emit(Literal(work.data[work.p + 1]))
LzxMatch ==
    /\ stage = "lzx parse"
    /\ \E t \in Candidates(work.data, work.p, work.queue,
                           Search(work.ix, work.data, work.p, IsTree, codec.depth)) : Emit(t)

\* refineParseWith: the tokens that encode shortest so far are kept, with every code
\* that was built from them.
Keep(kept) ==
    [toks |-> work.toks, lens |-> buildTables(work.toks, numMainSyms(Order)),
     aligned |-> buildAlignedTable(work.toks)]

LzxKeep ==
    /\ stage = "lzx keep"
    /\ \E kept \in {Keep(work.kept)} \cup ({work.kept} \ {Unset}) :
        LET after == [work EXCEPT !.kept = kept, !.rounds = @ + 1]
        IN  \/ /\ work' = after /\ stage' = "lzx write"
            \/ /\ codec.how # "optimal" /\ work.rounds + 1 < MaxRounds /\ codec.refine
               /\ work' = [after EXCEPT !.p = 0, !.queue = FirstQueue, !.ix = NoIndex(work.data), !.toks = <<>>]
               /\ stage' = "lzx parse"
    /\ UNCHANGED <<codec, input, stream, output>>

Written(s) ==
    /\ stream' = s
    /\ work' = Decoder(numMainSyms(Order), s)
    /\ stage' = "lzx decode"
    /\ UNCHANGED <<codec, input, output>>

\* The whole chunk in one block, verbatim or with the aligned code.
LzxWhole ==
    /\ stage = "lzx write"
    /\ \E aligned \in {<<>>, work.kept.aligned} :
        Written(writeBlock(work.kept.toks, Order, work.kept.lens, NoLens(numMainSyms(Order)), aligned))

LzxSplit ==
    /\ stage = "lzx write" /\ codec.how # "optimal"
    /\ LET toks == work.kept.toks
       IN  \E cuts \in StatsCuts(toks) \cup ({{MiddleCut(toks)}} \ {{0}, {Len(toks)}}) :
            \E alignedOnes \in SUBSET (1 .. Cardinality(cuts) + 1) :
                Written(encodeSegments(Segments(toks, cuts), Order, alignedOnes))

LzxDecode ==
    /\ stage = "lzx decode"
    /\ \E d \in {DecodeBlock(work, Order, Len(input))} :
        IF d = Failed THEN stage' = "failed" /\ UNCHANGED <<work, output>>
        ELSE IF Len(d.out) < Len(input) THEN work' = d /\ UNCHANGED <<stage, output>>
        ELSE /\ output' = IF d.saw THEN e8Filter(d.out, TRUE) ELSE d.out
             /\ stage' = "done" /\ work' = Unset
    /\ UNCHANGED <<codec, input, stream>>

LzxNext == LzxPrepare \/ LzxLiteral \/ LzxMatch \/ LzxKeep \/ LzxWhole \/ LzxSplit \/ LzxDecode

-----------------------------------------------------------------------------
\* What comes out of a codec is what went in, at whatever level, parsed in whatever
\* way, split in whatever blocks: no stream of the compressor is refused.  That is for
\* prefix codes that are valid: none of the run's chunks has four symbols or more below
\* one node at the limit, for which buildLengths returns one that is not (CodesValid).
LzxLossless == codec.name = "lzx" => (stage # "failed" /\ (stage = "done" => output = input))

\* The tree of earlier positions is not cut short: a search finds a match as long
\* as any.
LongestMatch ==
    (stage = "lzx parse" /\ HasHash(work.data, work.p) /\ codec.depth >= Len(work.data)) =>
        LET found == Search(work.ix, work.data, work.p, IsTree, codec.depth)
            same == {c \in 0 .. work.p - 1 : hash(work.data, c) = hash(work.data, work.p)}
        IN  /\ found.len = Max({0} \cup {commonPrefixLen(work.data, c, work.p) : c \in same})
            /\ found.len > 0 =>
                commonPrefixLen(work.data, work.p - found.offset, work.p) = found.len
=============================================================================
