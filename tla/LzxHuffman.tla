----------------------------- MODULE LzxHuffman -----------------------------
(***************************************************************************)
(* The prefix codes of package lzx (src/lzx/huffman.go) and how their        *)
(* codeword lengths travel (encode.go, decode.go): as differences from the   *)
(* lengths of the block before, with symbols of their own for runs.          *)
(*                                                                          *)
(* Lengths and frequencies are sequences: the entry of symbol s is at s + 1. *)
(* A bit stream is a sequence of fields <<value, width>>; a reader that asks *)
(* for another width than was written has lost its place.                    *)
(***************************************************************************)
EXTENDS CodecCall

CONSTANTS
    MaxMainLen,     \* maxMainCodewordLen (16), and the bound of all lengths sent
    MaxLenLen,      \* maxLenCodewordLen (16)
    MaxPreLen,      \* maxPrecodeCodewordLen (15)
    MaxAlignedLen,  \* maxAlignedCodewordLen (7)
    PreElementBits, \* precodeElementSize (4)
    ZeroRunBits,    \* bits of a run's length after presym 17 (4)
    LongRunBits     \* and after presym 18 (5)

-----------------------------------------------------------------------------
(* buildLengths                                                              *)

\* Codes longer than max are cut to max; then each pair of them that is too many
\* takes the place below a shorter code.
RECURSIVE Relieved(_, _, _)
Relieved(counts, overflow, max) ==
    LET shorter == {l \in 1 .. max - 1 : counts[l] > 0}
        l == Max(shorter)
    IN  IF overflow <= 0 \/ shorter = {} THEN counts
        ELSE Relieved([[[counts EXCEPT ![l] = @ - 1] EXCEPT ![l + 1] = @ + 2] EXCEPT ![max] = @ - 1],
                      overflow - 2, max)

LengthCounts(depths, max) ==
    LET cut == [l \in 1 .. max |-> Cardinality({i \in DOMAIN depths :
                                    depths[i] = l \/ (l = max /\ depths[i] > max)})]
    IN  Relieved(cut, Cardinality({i \in DOMAIN depths : depths[i] > max}), max)

buildLengths(freqs, max) ==
    LET used == {i \in DOMAIN freqs : freqs[i] > 0}
        counts == LengthCounts(Depths(freqs), max)
        \* the place of a used symbol, most frequent first
        place(i) == Cardinality({j \in used : freqs[j] > freqs[i] \/ (freqs[j] = freqs[i] /\ j <= i)})
        upTo(l) == MapThenSumSet(LAMBDA k : counts[k], 1 .. l)
        length(i) == LET fits == {l \in 1 .. max : upTo(l) >= place(i)}
                     IN  IF fits = {} THEN max ELSE Min(fits)
        other == IF 1 \in used THEN 2 ELSE 1
    IN  IF used = {} THEN Seq0(Len(freqs))
        ELSE IF Cardinality(used) = 1
        THEN [i \in DOMAIN freqs |-> IF i \in used \cup {other} THEN 1 ELSE 0]
        ELSE [i \in DOMAIN freqs |-> IF i \in used THEN length(i) ELSE 0]

-----------------------------------------------------------------------------
(* Reading a code.                                                           *)

Field(value, width) == IF width = 0 THEN <<>> ELSE <<<<value % Pow2(width), width>>>>
Lost == -1

\* Symbols in the order of their codewords, and where those of each length begin.
newHuffDecoder(lens, max) ==
    LET OfLength(l) == SelectSeq([i \in DOMAIN lens |-> i - 1], LAMBDA s : lens[s + 1] = l)
        count == [l \in 1 .. max |-> CountOf(lens, l)]
    IN  [count |-> count,
         first |-> firstCode(lens, max),
         begin |-> [l \in 1 .. max |-> FoldLeft(+, 0, SubSeq(count, 1, l - 1))],
         syms |-> FlattenSeq([l \in 1 .. max |-> OfLength(l)])]

\* Bit by bit, until the bits so far are a code of their length.  The symbol, or
\* Lost if that is not where the field ends.
decode(dec, field) ==
    LET w == field[2]
        Rel(l) == field[1] \div Pow2(w - l) - dec.first[l]
        hits == {l \in 1 .. Min({w, Len(dec.count)}) : Rel(l) >= 0 /\ Rel(l) < dec.count[l]}
    IN  IF w \in hits /\ w = Min(hits) THEN dec.syms[dec.begin[w] + Rel(w) + 1] ELSE Lost

-----------------------------------------------------------------------------
(* Codeword lengths on the wire.  Symbols of the precode: the differences,   *)
(* modulo MaxMainLen + 1; then 17, 18 and 19 of the code.                    *)

ZeroRun == MaxMainLen + 1
LongZeroRun == MaxMainLen + 2
SameRun == MaxMainLen + 3
PreSyms == MaxMainLen + 4
MinRun == 4
LongRun == MinRun + Pow2(ZeroRunBits)
MaxRun == LongRun + Pow2(LongRunBits) - 1

Delta(from, to) == IF from < to THEN from - to + MaxMainLen + 1 ELSE from - to

LenToken(presym, run, sym2) == [presym |-> presym, run |-> run, sym2 |-> sym2]

\* A slip the properties must catch (the code once had it): runs of one difference
\* are taken for runs of one length.
RECURSIVE DeltaTokens(_, _, _)
DeltaTokens(lens, prev, i) ==
    LET Same(k) == Delta(prev[k], lens[k]) = Delta(prev[i], lens[i])
        run == Max({k \in 1 .. Len(lens) - i + 1 : \A j \in i .. i + k - 1 : Same(j)})
        d == Delta(prev[i], lens[i])
        part == IF d = 0 THEN Min({run, MaxRun}) ELSE IF run >= 5 THEN 5 ELSE 4
    IN  IF i > Len(lens) THEN <<>>
        ELSE IF run >= MinRun
        THEN <<LenToken(IF d # 0 THEN SameRun ELSE IF part >= LongRun THEN LongZeroRun ELSE ZeroRun, part, d)>>
             \o DeltaTokens(lens, prev, i + part)
        ELSE <<LenToken(d, 0, 0)>> \o DeltaTokens(lens, prev, i + 1)
codewordLenTokensByDelta(lens, prev) == DeltaTokens(lens, prev, 1)

RECURSIVE TokensFrom(_, _, _)
TokensFrom(lens, prev, i) ==
    LET run == Max({k \in 1 .. Len(lens) - i + 1 : \A j \in i .. i + k - 1 : lens[j] = lens[i]})
        zero == lens[i] = 0
        part == IF zero THEN Min({run, MaxRun}) ELSE IF run >= 5 THEN 5 ELSE 4
        d == Delta(prev[i], lens[i])
    IN  IF i > Len(lens) THEN <<>>
        ELSE IF run >= MinRun
        THEN <<LenToken(IF ~zero THEN SameRun ELSE IF part >= LongRun THEN LongZeroRun ELSE ZeroRun, part, d)>>
             \o TokensFrom(lens, prev, i + part)
        ELSE <<LenToken(d, 0, 0)>> \o TokensFrom(lens, prev, i + 1)
codewordLenTokens(lens, prev) == TokensFrom(lens, prev, 1)

\* The symbols of some tokens, and the fields of one under the precode.
PreSymbols(toks) ==
    FlattenSeq([k \in DOMAIN toks |->
        <<toks[k].presym>> \o (IF toks[k].presym = SameRun THEN <<toks[k].sym2>> ELSE <<>>)])

TokenFields(t, pre, codes) ==
    LET Code(s) == Field(codes[s + 1], pre[s + 1])
    IN  Code(t.presym) \o
        (IF t.presym = ZeroRun THEN Field(t.run - MinRun, ZeroRunBits)
         ELSE IF t.presym = LongZeroRun THEN Field(t.run - LongRun, LongRunBits)
         ELSE IF t.presym = SameRun THEN Field(t.run - MinRun, 1) \o Code(t.sym2)
         ELSE <<>>)
AllFields(toks, pre, codes) ==
    FlattenSeq([i \in 1 .. PreSyms |-> Field(pre[i], PreElementBits)])
    \o FlattenSeq([k \in DOMAIN toks |-> TokenFields(toks[k], pre, codes)])
UnderPrecode(toks, pre) == AllFields(toks, pre, canonicalCodewords(pre, MaxPreLen))
WithPrecode(toks) == UnderPrecode(toks, buildLengths(Frequencies(PreSyms, PreSymbols(toks)), MaxPreLen))

writeCodewordLens(lens, prev) == WithPrecode(codewordLenTokens(lens, prev))

\* The width of what writeCodewordLens writes: countCodewordLensBits.
Bits(fields) == FoldLeft(LAMBDA n, f : n + f[2], 0, fields)

-----------------------------------------------------------------------------
(* readCodewordLens: the lengths and the fields left over, or Failed.        *)

HasField(in, width) == width = 0 \/ (in # <<>> /\ Head(in)[2] = width)

\* A field or a symbol and the fields after it; Lost if another field was written.
Read(v, in) == [v |-> v, in |-> in]
FieldIn(in, width) ==
    IF width = 0 THEN Read(0, in) ELSE IF HasField(in, width) THEN Read(Head(in)[1], Tail(in)) ELSE Read(Lost, in)
SymbolIn(in, dec) == IF in = <<>> THEN Read(Lost, in) ELSE Read(decode(dec, Head(in)), Tail(in))

\* r is a presymbol at length i, or the length of its run, or what is repeated.
Less(l, d) == IF l < d THEN l - d + MaxMainLen + 1 ELSE l - d
Filled(s, in, run, l) ==
    [lens |-> [k \in DOMAIN s.lens |-> IF k \in s.i .. s.i + run - 1 THEN l ELSE s.lens[k]],
     in |-> in, i |-> s.i + run]
ZeroRunRead(s, r, least) == IF r.v = Lost THEN Failed ELSE Filled(s, r.in, least + r.v, 0)
SameRunOf(s, run, r) ==
    IF r.v = Lost \/ r.v > ZeroRun THEN Failed ELSE Filled(s, r.in, MinRun + run, Less(s.lens[s.i], r.v))
SameRunRead(s, dec, r) == IF r.v = Lost THEN Failed ELSE SameRunOf(s, r.v, SymbolIn(r.in, dec))
LensAfter(s, dec, r) ==
    IF r.v = Lost \/ r.v >= PreSyms THEN Failed
    ELSE IF r.v = ZeroRun THEN ZeroRunRead(s, FieldIn(r.in, ZeroRunBits), MinRun)
    ELSE IF r.v = LongZeroRun THEN ZeroRunRead(s, FieldIn(r.in, LongRunBits), LongRun)
    ELSE IF r.v = SameRun THEN SameRunRead(s, dec, FieldIn(r.in, 1))
    ELSE Filled(s, r.in, 1, Less(s.lens[s.i], r.v))

RECURSIVE LensFrom(_, _)
LensFrom(s, dec) ==
    IF s = Failed THEN Failed
    ELSE IF s.i > Len(s.lens) THEN s
    ELSE LensFrom(LensAfter(s, dec, SymbolIn(s.in, dec)), dec)

readCodewordLens(in, prev) ==
    IF Len(in) < PreSyms \/ (\E i \in 1 .. PreSyms : in[i][2] # PreElementBits) THEN Failed
    ELSE LensFrom([lens |-> prev, in |-> SubSeq(in, PreSyms + 1, Len(in)), i |-> 1],
                  newHuffDecoder([i \in 1 .. PreSyms |-> in[i][1]], MaxPreLen))
=============================================================================
