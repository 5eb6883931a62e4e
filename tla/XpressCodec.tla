---------------------------- MODULE XpressCodec ----------------------------
(***************************************************************************)
(* Package xpress as one chunk passes through it (src/xpress).  Codewords    *)
(* and offset bits go into units of Unit bits; the bytes of a long match     *)
(* go between the units, without waiting for a unit to be full.  The writer  *)
(* therefore keeps two places free for units that are still to come, and the *)
(* reader has to load a unit exactly where the writer has taken a place.     *)
(*                                                                          *)
(* A byte is a sequence of Unit \div 2 bits, a unit two of them, the lower    *)
(* first; the byte at offset p is out[p + 1].                                *)
(***************************************************************************)
EXTENDS CodecCall

CONSTANTS
    Unit,           \* bits of a coding unit (16)
    XNumChars,      \* numChars (256)
    LenHeaders,     \* values of a symbol's length header (16)
    OffsetClasses,  \* and of its offset's size (16)
    FlatBits,       \* flatLens: bits of a literal (8), one more for the last two
    FallbackBits,   \* bits of every symbol if a codeword would be too long (9)
    XBuckets,       \* 2^hashBits
    XSearchDepth    \* maxSearchDepth

XMaxLen == Unit - 1
XMinMatch == 3
XMaxMatch == Pow2(Unit) + 2
XMaxOffset == Pow2(OffsetClasses) - 1
LongHeader == LenHeaders - 1
MaxByte == Pow2(Unit \div 2) - 1
XNumSyms == XNumChars + OffsetClasses * LenHeaders
EndOfData == XNumChars

-----------------------------------------------------------------------------
(* The code.                                                                 *)

\* A slip the properties must catch: codes that are too long are cut, without fallback.
xpressBuildLengthsCut(freqs) ==
    LET used == {i \in DOMAIN freqs : freqs[i] > 0}
    IN  [i \in DOMAIN freqs |-> IF i \notin used THEN 0
                                ELSE IF Cardinality(used) = 1 THEN 1
                                ELSE Min({Depths(freqs)[i], XMaxLen})]

xpressBuildLengths(freqs) ==
    LET used == {i \in DOMAIN freqs : freqs[i] > 0}
        depths == Depths(freqs)
        flat == \E i \in used : depths[i] > XMaxLen
    IN  [i \in DOMAIN freqs |-> IF i \notin used THEN 0
                                ELSE IF Cardinality(used) = 1 THEN 1
                                ELSE IF flat THEN FallbackBits ELSE depths[i]]

flatLens == [i \in 1 .. XNumSyms |-> IF i < XNumChars THEN FlatBits
                                     ELSE IF i \in {XNumChars, EndOfData + 1} THEN FlatBits + 1 ELSE 0]

xpressCodewords(lens) == canonicalCodewords(lens, XMaxLen)

\* Two lengths to a byte.
NibbleWrap == 16
packHuffmanLengths(lens) == [i \in 1 .. Len(lens) \div 2 |-> lens[2 * i] * NibbleWrap + (lens[2 * i - 1] % NibbleWrap)]
unpackHuffmanLengths(b) ==
    [i \in 1 .. 2 * Len(b) |-> IF i % 2 = 1 THEN b[(i + 1) \div 2] % NibbleWrap ELSE b[i \div 2] \div NibbleWrap]

\* For every XMaxLen bits the symbol they begin with, and its length; the later
\* symbol of two that claim them.
buildHuffmanDecoder(lens) ==
    LET codes == xpressCodewords(lens)
        Begins(i, v) == lens[i] > 0 /\ v \div Pow2(XMaxLen - lens[i]) = codes[i]
        At(v) == {i \in DOMAIN lens : Begins(i, v)}
    IN  [v \in 0 .. Pow2(XMaxLen) - 1 |->
            IF At(v) = {} THEN [sym |-> 0, len |-> 0] ELSE [sym |-> Max(At(v)) - 1, len |-> lens[Max(At(v))]]]

-----------------------------------------------------------------------------
(* lz77.go: greedy, unless the next position has a longer match.             *)

hash3(data, p) == (data[p + 1] + 2 * data[p + 2] + 3 * data[p + 3]) % XBuckets

\* The earlier positions of the same hash, the latest first.  parseItems has
\* inserted every position before p when it searches at p.
Chain(data, p) ==
    SelectSeq([k \in 1 .. p |-> p - k], LAMBDA c : hash3(data, c) = hash3(data, p))

matchLength(data, c, p) ==
    LET limit == Min({Len(data) - p, XMaxMatch})
        differ == {l \in 0 .. limit - 1 : data[c + l + 1] # data[p + l + 1]}
    IN  IF differ = {} THEN limit ELSE Min(differ)

\* The first candidate too far away ends the chain.
findMatch(data, p) ==
    LET near == SelectSeq(Chain(data, p), LAMBDA c : p - c <= XMaxOffset)
        tried == SubSeq(near, 1, Min({Len(near), XSearchDepth}))
        Longer(best, c) == LET l == matchLength(data, c, p)
                           IN  IF l > best.len THEN [len |-> l, offset |-> p - c] ELSE best
        Enough(best) == IF best.len < XMinMatch THEN [len |-> 0, offset |-> 0] ELSE best
    IN  IF p + XMinMatch > Len(data) THEN [len |-> 0, offset |-> 0]
        ELSE Enough(FoldLeft(Longer, [len |-> 0, offset |-> 0], tried))

Item(isMatch, literal, len, offset) == [isMatch |-> isMatch, literal |-> literal, len |-> len, offset |-> offset]
LiteralItem(b) == Item(FALSE, b, 1, 0)

RECURSIVE ItemsFrom(_, _), ItemThen(_, _, _)
ItemsFrom(data, p) == IF p = Len(data) THEN <<>> ELSE ItemThen(data, p, findMatch(data, p))
ItemThen(data, p, m) ==
    IF m.len < XMinMatch \/ (p + 1 < Len(data) /\ findMatch(data, p + 1).len > m.len)
    THEN <<LiteralItem(data[p + 1])>> \o ItemsFrom(data, p + 1)
    ELSE <<Item(TRUE, 0, m.len, m.offset)>> \o ItemsFrom(data, p + m.len)
parseItems(data) == ItemsFrom(data, 0)

Log2(n) == CHOOSE k \in 0 .. OffsetClasses - 1 : Pow2(k) <= n /\ n < Pow2(k + 1)

symbolFor(it) ==
    IF ~it.isMatch THEN it.literal
    ELSE XNumChars + Log2(it.offset) * LenHeaders + Min({it.len - XMinMatch, LongHeader})

-----------------------------------------------------------------------------
(* bitWriter: out, the bits of the unit in progress, and three offsets.      *)

Zeros(n) == [k \in 1 .. n |-> ToBits(0, Unit \div 2)]
growTo(out, n) == IF Len(out) >= n THEN out ELSE out \o Zeros(n - Len(out))

newBitWriter == [out |-> Zeros(4), buf |-> <<>>, nextBits |-> 0, nextBits2 |-> 2, nextByte |-> 4]

\* A unit at offset p.
PutUnit(out, p, bits) ==
    [growTo(out, p + 2) EXCEPT ![p + 1] = SubSeq(bits, Unit \div 2 + 1, Unit),
                               ![p + 2] = SubSeq(bits, 1, Unit \div 2)]

\* A slip the properties must catch: a unit is put out as soon as it is full.
xpressWriteBitsEager(w, bits) ==
    LET buf == w.buf \o bits
    IN  IF Len(buf) < Unit THEN [w EXCEPT !.buf = buf]
        ELSE [out |-> growTo(PutUnit(w.out, w.nextBits, SubSeq(buf, 1, Unit)), w.nextByte + 2),
              buf |-> SubSeq(buf, Unit + 1, Len(buf)),
              nextBits |-> w.nextBits2, nextBits2 |-> w.nextByte, nextByte |-> w.nextByte + 2]

\* A unit that is just full waits for the next bit; only then is a place taken for
\* the one after the next.
xpressWriteBits(w, bits) ==
    LET buf == w.buf \o bits
    IN  IF Len(buf) <= Unit THEN [w EXCEPT !.buf = buf]
        ELSE [out |-> growTo(PutUnit(w.out, w.nextBits, SubSeq(buf, 1, Unit)), w.nextByte + 2),
              buf |-> SubSeq(buf, Unit + 1, Len(buf)),
              nextBits |-> w.nextBits2, nextBits2 |-> w.nextByte, nextByte |-> w.nextByte + 2]

writeByte(w, b) ==
    [w EXCEPT !.out = [growTo(@, w.nextByte + 1) EXCEPT ![w.nextByte + 1] = ToBits(b, Unit \div 2)],
              !.nextByte = @ + 1]
writeU16(w, v) == [w EXCEPT !.out = PutUnit(@, w.nextByte, ToBits(v, Unit)), !.nextByte = @ + 2]

xpressFlush(w) ==
    LET padded == w.buf \o [k \in 1 .. Unit - Len(w.buf) |-> 0]
    IN  growTo(PutUnit(PutUnit(w.out, w.nextBits, padded), w.nextBits2, ToBits(0, Unit)), w.nextByte)

writeExtraLengthBytes(w, adjusted) ==
    LET extra == Min({adjusted - LongHeader, MaxByte})
    IN  IF adjusted < LongHeader THEN w
        ELSE IF extra = MaxByte THEN writeU16(writeByte(w, extra), adjusted) ELSE writeByte(w, extra)

writeItem(w, it, lens, codes) ==
    LET s == symbolFor(it) + 1
        w1 == xpressWriteBits(w, ToBits(codes[s], lens[s]))
        w2 == writeExtraLengthBytes(w1, it.len - XMinMatch)
    IN  IF ~it.isMatch THEN w1
        ELSE xpressWriteBits(w2, ToBits(it.offset - Pow2(Log2(it.offset)), Log2(it.offset)))

-----------------------------------------------------------------------------
(* bitReader: the bits loaded and the offset of the next byte.               *)

UnitAt(data, p) == data[p + 2] \o data[p + 1]

ensureBits(r, n, data) ==
    IF Len(r.bits) >= n THEN r
    ELSE IF Len(data) - r.pos >= 2 THEN [r EXCEPT !.bits = @ \o UnitAt(data, r.pos), !.pos = @ + 2]
    ELSE [r EXCEPT !.bits = @ \o ToBits(0, Unit)]
removeBits(r, n) == [r EXCEPT !.bits = SubSeq(@, n + 1, Len(@))]

\* The value at the reader's place and the reader behind it; zero beyond the end.
readByte(r, data) ==
    IF r.pos >= Len(data) THEN [value |-> 0, r |-> r]
    ELSE [value |-> FromBits(data[r.pos + 1]), r |-> [r EXCEPT !.pos = @ + 1]]
readU16(r, data) ==
    IF Len(data) - r.pos < 2 THEN [value |-> 0, r |-> r]
    ELSE [value |-> FromBits(UnitAt(data, r.pos)), r |-> [r EXCEPT !.pos = @ + 2]]

\* The length after a symbol whose header is the largest.
LongLength(r, data) ==
    LET b == readByte(r, data)
        u == readU16(b.r, data)
    IN  IF b.value = MaxByte THEN u ELSE [b EXCEPT !.value = @ + LongHeader]

xpressCopy(out, offset, len) ==
    FoldLeft(LAMBDA o, k : Append(o, o[Len(o) + 1 - offset]), out, [k \in 1 .. len |-> k])

\* One round of DecompressInto's loop.
ItemCopied(d, offset, long, expected) ==
    IF offset > Len(d.out) \/ long.value + XMinMatch > expected - Len(d.out) THEN Failed
    ELSE [d EXCEPT !.r = long.r, !.out = xpressCopy(@, offset, long.value + XMinMatch)]
HeaderLength(r, header, data) ==
    IF header = LongHeader THEN LongLength(r, data) ELSE [value |-> header, r |-> r]
\* r has the bits of the offset at hand.
ItemMatch(d, r, class, header, data, expected) ==
    ItemCopied(d, Pow2(class) + FromBits(SubSeq(r.bits, 1, class)),
               HeaderLength(removeBits(r, class), header, data), expected)
ItemOf(d, entry, r, data, expected) ==
    IF entry.len = 0 THEN Failed
    ELSE IF entry.sym < XNumChars
    THEN [d EXCEPT !.r = removeBits(r, entry.len), !.out = Append(@, entry.sym)]
    ELSE ItemMatch(d, ensureBits(removeBits(r, entry.len), Unit, data),
                   (entry.sym - XNumChars) \div LenHeaders, (entry.sym - XNumChars) % LenHeaders, data, expected)
ItemAt(d, r, data, expected) == ItemOf(d, d.table[FromBits(SubSeq(r.bits, 1, XMaxLen))], r, data, expected)
DecodeItem(d, data, expected) == ItemAt(d, ensureBits(d.r, XMaxLen, data), data, expected)

-----------------------------------------------------------------------------
(* The steps of the two calls.                                               *)

XpressPrepare ==
    /\ stage = "xpress"
    /\ LET items == IF codec.skip THEN [i \in DOMAIN input |-> LiteralItem(input[i])] ELSE parseItems(input)
           Syms(its) == [i \in DOMAIN its |-> symbolFor(its[i])] \o <<EndOfData>>
           LensFor(its) == IF codec.skip THEN flatLens ELSE xpressBuildLengths(Frequencies(XNumSyms, Syms(its)))
           Start(its, lens) == [items |-> its, lens |-> lens, codes |-> xpressCodewords(lens), w |-> newBitWriter]
       IN  \E its \in {items} : work' = Start(its, LensFor(its))
    /\ stage' = "xpress write"
    /\ UNCHANGED <<codec, input, stream, output>>

XpressWrite ==
    /\ stage = "xpress write" /\ work.items # <<>>
    /\ work' = [work EXCEPT !.items = Tail(@), !.w = writeItem(@, Head(work.items), work.lens, work.codes)]
    /\ UNCHANGED <<codec, input, stage, stream, output>>

\* The end symbol is written for other decoders; this one stops at the size.
XpressEnd ==
    /\ stage = "xpress write" /\ work.items = <<>>
    /\ LET w == xpressWriteBits(work.w, ToBits(work.codes[EndOfData + 1], work.lens[EndOfData + 1]))
       IN  stream' = [header |-> packHuffmanLengths(work.lens), body |-> xpressFlush(w)]
    /\ stage' = "xpress decode"
    /\ work' = [table |-> buildHuffmanDecoder(unpackHuffmanLengths(stream'.header)),
                r |-> [bits |-> <<>>, pos |-> 0], out |-> <<>>]
    /\ UNCHANGED <<codec, input, output>>

XpressDecode ==
    /\ stage = "xpress decode" /\ Len(work.out) < Len(input)
    /\ \E d \in {DecodeItem(work, stream.body, Len(input))} :
        IF d = Failed THEN stage' = "failed" /\ UNCHANGED work ELSE work' = d /\ UNCHANGED stage
    /\ UNCHANGED <<codec, input, stream, output>>

XpressDone ==
    /\ stage = "xpress decode" /\ Len(work.out) = Len(input)
    /\ output' = work.out /\ stage' = "done" /\ work' = Unset
    /\ UNCHANGED <<codec, input, stream>>

XpressNext == XpressPrepare \/ XpressWrite \/ XpressEnd \/ XpressDecode \/ XpressDone

-----------------------------------------------------------------------------
\* Wherever the bytes of long matches fall between the units, the reader finds the
\* items the writer has put there.
XpressLossless == codec.name = "xpress" => (stage # "failed" /\ (stage = "done" => output = input))
=============================================================================
