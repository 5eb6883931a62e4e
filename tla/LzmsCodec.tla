----------------------------- MODULE LzmsCodec -----------------------------
(***************************************************************************)
(* Package lzms as one chunk passes through it (src/lzms): the filter of     *)
(* x86 addresses, the greedy choice of literals and matches, and the two     *)
(* streams they are written to.  The decoder learns nothing but the chunk's  *)
(* size; every probability and every code it needs it has to have from what  *)
(* it has decoded.  The encoder writes literals and matches with explicit    *)
(* offsets; what the decoder knows besides (repeated offsets, delta matches) *)
(* is left out.                                                              *)
(*                                                                          *)
(* Decisions go through a range coder forwards from the beginning            *)
(* (rangecoder.go) under probabilities that follow the last bits of their    *)
(* context (probmodel.go); symbols and extra bits go backwards from the end, *)
(* under codes that are rebuilt after every so many symbols (huffman.go).    *)
(* Nothing of this is sent: writer and reader have to change alike.          *)
(***************************************************************************)
EXTENDS CodecCall

CONSTANTS
    Word,           \* bits of a unit of either stream (16)
    ProbBits,       \* probabilityBits (6)
    LzmsMaxLen,     \* maxCodewordLen (15)
    LNumChars,          \* numLiteralSyms (256)
    MainStates, MatchStates, LzStates,      \* numMainProbs, numMatchProbs, numLZProbs
    LitEvery, OffsetEvery, LengthEvery,     \* litCodeRebuildFreq and its siblings
    LOffsetBase, LOffsetExtra,              \* offsetSlotBase, extraOffsetBits
    LLengthBase, LLengthExtra,              \* lengthSlotBase, extraLengthBits
    HashBytes,          \* hashMinBytes (4)
    LBuckets,           \* hashSize
    MinEncodeMatch,     \* minEncodeMatchLength (2)
    MaxEncodeMatch,     \* maxEncodeMatchLength
    X86Tail,            \* bytes at the end that are not filtered (16)
    X86Operand,         \* bytes of an address (4)
    X86Reach,           \* x86MaxTranslationOffset
    X86Window,          \* x86IDWindowSize
    X86Call,            \* the opcode of one byte whose reach is half (0xE8)
    X86Jump,            \* the opcode that is passed over with its address (0xE9)
    X86Long             \* the opcodes of more bytes, as sequences of bytes

ASSUME LzmsAssumption ==
    /\ LNumChars \in Nat \ {0, 1} /\ Word > ProbBits /\ ProbBits > 1
    /\ \A o \in X86Long : Len(o) > 1 /\ o[1] \notin {X86Call, X86Jump}

Top == Pow2(Word)
Whole == Top * Top          \* one more than the largest range
Denominator == Pow2(ProbBits)

-----------------------------------------------------------------------------
(* Probabilities: of the last Denominator bits, so many were zero.           *)

newProbEntry ==
    [zeros |-> (3 * Denominator) \div 4,
     recent |-> [k \in 1 .. Denominator |-> IF k > Denominator \div 2 /\ k % 2 = 0 THEN 1 ELSE 0]]

\* Neither impossible nor certain.
probability(e) == Min({Max({e.zeros, 1}), Denominator - 1})

update(e, bit) == [zeros |-> e.zeros + Head(e.recent) - bit, recent |-> Append(Tail(e.recent), bit)]

\* A kind of decision: the last bits of that kind, and a probability for each.
NewDecision(n) == [state |-> 0, probs |-> [s \in 0 .. n - 1 |-> newProbEntry]]
Decided(d, bit, n) ==
    [state |-> (2 * d.state + bit) % n, probs |-> [d.probs EXCEPT ![d.state] = update(@, bit)]]

-----------------------------------------------------------------------------
(* The range coder.                                                          *)

newRangeEncoder ==
    [low |-> 0, range |-> Whole - 1, cache |-> 0, cacheSize |-> 1, out |-> <<>>, started |-> FALSE]

\* A slip the properties must catch: a carry reaches the unit kept back, and not the
\* full ones behind it.
shiftLowOneCarry(rc) ==
    LET carry == rc.low \div Whole
        settled == rc.low % Whole < Whole - Top \/ carry > 0
        held == [k \in 1 .. rc.cacheSize |-> IF k = 1 THEN (rc.cache + carry) % Top ELSE Top - 1]
    IN  [rc EXCEPT !.low = (@ % Top) * Top,
                   !.out = IF ~settled THEN @ ELSE @ \o (IF rc.started THEN held ELSE Tail(held)),
                   !.started = @ \/ settled,
                   !.cache = IF settled THEN (rc.low \div Top) % Top ELSE @,
                   !.cacheSize = IF settled THEN 1 ELSE @ + 1]

\* The highest unit leaves the range.  One that a carry could still change is kept
\* back, with all the full ones that follow it.
shiftLow(rc) ==
    LET carry == rc.low \div Whole
        settled == rc.low % Whole < Whole - Top \/ carry > 0
        held == [k \in 1 .. rc.cacheSize |-> ((IF k = 1 THEN rc.cache ELSE Top - 1) + carry) % Top]
    IN  [rc EXCEPT !.low = (@ % Top) * Top,
                   !.out = IF ~settled THEN @ ELSE @ \o (IF rc.started THEN held ELSE Tail(held)),
                   !.started = @ \/ settled,
                   !.cache = IF settled THEN (rc.low \div Top) % Top ELSE @,
                   !.cacheSize = IF settled THEN 1 ELSE @ + 1]

Narrowed(rc, bit, bound) ==
    IF bit = 0 THEN [rc EXCEPT !.range = bound] ELSE [rc EXCEPT !.low = @ + bound, !.range = @ - bound]
InRange(rc, bit, prob) == Narrowed(rc, bit, (rc.range \div Denominator) * prob)
encodeBit(rc, bit, prob) ==
    InRange(IF rc.range < Top THEN shiftLow([rc EXCEPT !.range = @ * Top]) ELSE rc, bit, prob)

flushRange(rc) == shiftLow(shiftLow(shiftLow(shiftLow(rc)))).out

newRangeDecoder(units) == [range |-> Whole - 1, code |-> units[1] * Top + units[2], next |-> 3]

\* The bit and the decoder after it.
decodeBit(rd, prob, units) ==
    LET unit == IF rd.next <= Len(units) THEN units[rd.next] ELSE 0
        r == IF rd.range >= Top THEN rd
             ELSE [range |-> rd.range * Top, code |-> rd.code * Top + unit, next |-> rd.next + 1]
        bound == (r.range \div Denominator) * prob
    IN  IF r.code < bound THEN [bit |-> 0, rd |-> [r EXCEPT !.range = bound]]
        ELSE [bit |-> 1, rd |-> [r EXCEPT !.range = @ - bound, !.code = @ - bound]]

-----------------------------------------------------------------------------
(* The backward bit streams.                                                 *)

newOutputBitstream == [bits |-> <<>>, units |-> <<>>]

RECURSIVE WholeUnits(_)
WholeUnits(os) ==
    IF Len(os.bits) < Word THEN os
    ELSE WholeUnits([bits |-> SubSeq(os.bits, Word + 1, Len(os.bits)),
                     units |-> Append(os.units, FromBits(SubSeq(os.bits, 1, Word)))])
lzmsWriteBits(os, n, width) == WholeUnits([os EXCEPT !.bits = @ \o ToBits(n, width)])

\* flush and bytes: the first unit written is the last of the stream.
backwards(os) ==
    LET rest == IF os.bits = <<>> THEN <<>>
                ELSE <<FromBits(os.bits \o Seq0(Word - Len(os.bits)))>>
    IN  Reverse(os.units \o rest)

newInputBitstream(units) == [bits |-> <<>>, next |-> Len(units)]

\* Two units at a time, zeros before the first.
lzmsEnsureBits(is, n, units) ==
    LET At(k) == IF k < 1 THEN Seq0(Word) ELSE ToBits(units[k], Word)
    IN  IF Len(is.bits) >= n THEN is
        ELSE [bits |-> is.bits \o At(is.next) \o At(is.next - 1), next |-> Max({is.next - 2, 0})]

\* The value and the stream after it.
lzmsReadBits(is, n, units) ==
    LET s == lzmsEnsureBits(is, n, units)
    IN  IF n = 0 THEN [value |-> 0, is |-> is]
        ELSE [value |-> FromBits(SubSeq(s.bits, 1, n)), is |-> [s EXCEPT !.bits = SubSeq(@, n + 1, Len(@))]]

-----------------------------------------------------------------------------
(* Codes that follow the frequencies.                                        *)

\* buildTree: the parents of all nodes but the root, from the frequencies in
\* ascending order.  i leaves and b nodes have a parent, e nodes exist; nodes take
\* the places of leaves that are done with.
RECURSIVE TreeFrom(_, _, _, _, _)
TreeFrom(a, last, i, b, e) ==
    LET twoLeaves == i + 1 <= last /\ (b = e \/ a[i + 1] <= a[b])
        twoNodes == ~twoLeaves /\ b + 2 <= e /\ (i > last \/ a[b + 1] < a[i])
        freq == IF twoLeaves THEN a[i] + a[i + 1] ELSE IF twoNodes THEN a[b] + a[b + 1] ELSE a[i] + a[b]
        joined == IF twoLeaves THEN {} ELSE IF twoNodes THEN {b, b + 1} ELSE {b}
        after == [k \in DOMAIN a |-> IF k = e THEN freq ELSE IF k \in joined THEN e ELSE a[k]]
    IN  IF e >= last THEN a
        ELSE TreeFrom(after, last,
                      IF twoLeaves THEN i + 2 ELSE IF twoNodes THEN i ELSE i + 1,
                      b + Cardinality(joined), e + 1)
buildTree(a, last) == TreeFrom(a, last, 0, 0, 0)

\* How many codewords there are of each length: every node below the root takes
\* the place of one and gives two longer ones.  At the limit the place is the
\* deepest one there is; only if that is the limit itself the two are too long.
computeLengthCounts(parents, root, max) ==
    LET Node(s, node) ==
            LET depth == s.depth[parents[node]] + 1
                length == IF depth < max THEN depth
                          ELSE Max({l \in 1 .. max : s.counts[l] > 0})
            IN  [depth |-> [s.depth EXCEPT ![node] = depth],
                 counts |-> [s.counts EXCEPT ![length] = @ - 1, ![length + 1] = @ + 2]]
        start == [depth |-> [k \in 0 .. root |-> 0],
                  counts |-> [l \in 1 .. max + 1 |-> IF l = 1 THEN 2 ELSE 0]]
    IN  FoldLeft(Node, start, [k \in 1 .. root |-> root - k]).counts

\* The least frequent symbols get the longest codewords.
genLengths(order, counts, max, n) ==
    LET longer(l) == MapThenSumSet(LAMBDA k : counts[k], l + 1 .. max)
        place(s) == CHOOSE k \in DOMAIN order : order[k] = s
        Of(s) == {l \in 1 .. max : longer(l) < place(s) /\ place(s) <= longer(l) + counts[l]}
    IN  [i \in 1 .. n |-> IF Of(i - 1) = {} THEN 0 ELSE CHOOSE l \in Of(i - 1) : TRUE]

\* buildCanonicalHuffmanCode; every symbol has a frequency, and one alone gets a
\* code of two.
buildCanonicalLengths(freqs, max) ==
    LET n == Len(freqs)
        Rarer(s, t) == freqs[s + 1] < freqs[t + 1] \/ (freqs[s + 1] = freqs[t + 1] /\ s < t)
        place(s) == Cardinality({t \in 0 .. n - 1 : Rarer(t, s)}) + 1
        order == [k \in 1 .. n |-> CHOOSE s \in 0 .. n - 1 : place(s) = k]
        a == [k \in 0 .. n - 1 |-> freqs[order[k + 1] + 1]]
    IN  IF n = 0 THEN <<>>
        ELSE IF n = 1 THEN <<1>>
        ELSE genLengths(order, computeLengthCounts(buildTree(a, n - 1), n - 2, max), max, n)

\* newHuffmanCode, rebuild and buildDecodeAids.
WithLengths(freqs, every, lens) ==
    [freqs |-> freqs, until |-> every, lens |-> lens,
     codes |-> IF lens = <<>> THEN <<>> ELSE canonicalCodewords(lens, LzmsMaxLen)]
Rebuilt(freqs, every) == WithLengths(freqs, every, buildCanonicalLengths(freqs, LzmsMaxLen))
newHuffmanCode(n, every) == Rebuilt([i \in 1 .. n |-> 1], every)
dilute(freqs) == [i \in DOMAIN freqs |-> freqs[i] \div 2 + 1]

\* The code serves until it is rebuilt; then older symbols count half.
afterDecodeOrEncode(h, sym, every) ==
    LET freqs == [h.freqs EXCEPT ![sym + 1] = @ + 1]
    IN  IF h.until > 1 THEN [h EXCEPT !.freqs = freqs, !.until = @ - 1]
        ELSE [Rebuilt(freqs, every) EXCEPT !.freqs = dilute(freqs)]

encodeSymbol(os, h, sym) == lzmsWriteBits(os, h.codes[sym + 1], h.lens[sym + 1])

\* Bit by bit, until what was read is a codeword of its length.
RECURSIVE SymbolFrom(_, _, _, _, _), SymbolBit(_, _, _, _, _)
SymbolFrom(is, h, code, len, units) ==
    IF len = LzmsMaxLen THEN [value |-> 0, is |-> is]
    ELSE SymbolBit(lzmsReadBits(is, 1, units), h, code, len + 1, units)
SymbolBit(b, h, code, len, units) ==
    LET c == 2 * code + b.value
        hits == {i \in DOMAIN h.lens : h.lens[i] = len /\ h.codes[i] = c}
    IN  IF hits # {} THEN [value |-> (CHOOSE i \in hits : TRUE) - 1, is |-> b.is]
        ELSE SymbolFrom(b.is, h, c, len, units)
decodeSymbol(is, h, units) == SymbolFrom(is, h, 0, 0, units)

-----------------------------------------------------------------------------
(* x86filter.go.                                                             *)

Digits(n, wrap) == [k \in 1 .. X86Operand |-> ((n % wrap) \div (LNumChars ^ (k - 1))) % LNumChars]
Address(data, p) == FoldLeft(LAMBDA n, k : n * LNumChars + data[p + k], 0,
                             [k \in 1 .. X86Operand |-> X86Operand + 1 - k])
WithAddress(data, p, n) ==
    LET d == Digits(n, LNumChars ^ X86Operand)
    IN  [i \in DOMAIN data |-> IF i \in p + 1 .. p + X86Operand THEN d[i - p] ELSE data[i]]

\* The low half of an address names the target.
TargetWrap == LNumChars ^ (X86Operand \div 2)

LongOpcode(data, p) == {o \in X86Long : IsPrefix(o, SubSeq(data, p + 1, Len(data)))}
\* How many bytes the opcode at p has, 0 if there is none.
opcodeNBytes(data, p) ==
    IF data[p + 1] = X86Call THEN 1
    ELSE IF LongOpcode(data, p) # {} THEN Len(CHOOSE o \in LongOpcode(data, p) : TRUE) ELSE 0

\* f: the data, the place, the end of the last address that was used before, and
\* where each target was used last.  An address is translated if the code around it
\* has proved to be code: a target that comes back within the window.
translateIfNeeded(f, undo) ==
    LET p == f.p
        n == opcodeNBytes(f.data, p)
        reach == IF f.data[p + 1] = X86Call THEN X86Reach \div 2 ELSE X86Reach
        at == p + n
        near == p - f.last <= reach
        moved == WithAddress(f.data, at, Address(f.data, at) + (IF undo THEN -p ELSE p)
                                         + LNumChars ^ X86Operand)
        data == IF near THEN moved ELSE f.data
        target == (p + Address(IF undo THEN data ELSE f.data, at)) % TargetWrap
        end == p + n + X86Operand - 1
    IN  IF f.data[p + 1] = X86Jump THEN [f EXCEPT !.p = p + 1 + X86Operand]
        ELSE IF n = 0 THEN [f EXCEPT !.p = p + 1]
        ELSE IF at + X86Operand > Len(f.data) THEN [f EXCEPT !.p = at]
        ELSE [f EXCEPT !.data = data, !.p = at + X86Operand,
                       !.last = IF end - f.usages[target] <= X86Window THEN end ELSE @,
                       !.usages[target] = end]

RECURSIVE FilterOn(_, _)
FilterOn(f, undo) ==
    IF f.p >= Len(f.data) - X86Tail THEN f.data ELSE FilterOn(translateIfNeeded(f, undo), undo)
x86Filter(data, undo) ==
    IF Len(data) <= X86Tail + 1 THEN data
    ELSE FilterOn([data |-> data, p |-> 1, last |-> -X86Reach - 1,
                   usages |-> [t \in 0 .. TargetWrap - 1 |-> -X86Window - 1]], undo)

-----------------------------------------------------------------------------
(* Slots, and what both sides keep.                                          *)

getSlot(v, base) == Max({s \in 0 .. Len(base) - 2 : base[s + 1] <= v})
getNumOffsetSlots(size) == IF size < 2 THEN 0 ELSE 1 + getSlot(size - 1, LOffsetBase)

Adaptive(size) ==
    [main |-> NewDecision(MainStates), match |-> NewDecision(MatchStates), lz |-> NewDecision(LzStates),
     literal |-> newHuffmanCode(LNumChars, LitEvery),
     offset |-> newHuffmanCode(getNumOffsetSlots(size), OffsetEvery),
     length |-> newHuffmanCode(Len(LLengthBase) - 1, LengthEvery)]

-----------------------------------------------------------------------------
(* The encoder.                                                              *)

hash4(data, p) == (FoldLeft(LAMBDA n, k : n + k * data[p + k], 0, [k \in 1 .. HashBytes |-> k])) % LBuckets

\* The positions before end that hash like p, the latest first.
ChainBefore(data, p, end) ==
    SelectSeq([k \in 1 .. end |-> end - k],
              LAMBDA c : c + HashBytes <= Len(data) /\ hash4(data, c) = hash4(data, p))

\* Positions from end on have not been inserted yet.
lzmsFindMatch(data, p, end, depth) ==
    LET limit == Min({Len(data) - p, MaxEncodeMatch})
        Same(c) == LET differ == {l \in 0 .. limit - 1 : data[c + l + 1] # data[p + l + 1]}
                   IN  IF differ = {} THEN limit ELSE Min(differ)
        chain == ChainBefore(data, p, end)
        Longer(best, c) == IF Same(c) > best.len THEN [len |-> Same(c), offset |-> p - c] ELSE best
    IN  IF p + HashBytes > Len(data) THEN [len |-> 0, offset |-> 0]
        ELSE FoldLeft(Longer, [len |-> 0, offset |-> 0], SubSeq(chain, 1, Min({Len(chain), depth})))

\* One decision through the range encoder; w holds the encoder's state.
Decide(w, kind, bit, n) ==
    LET d == w.model[kind]
    IN  [w EXCEPT !.rc = encodeBit(@, bit, probability(d.probs[d.state])),
                  !.model = [@ EXCEPT ![kind] = Decided(d, bit, n)]]

EncodeSym(w, kind, sym, every) ==
    [w EXCEPT !.os = encodeSymbol(@, w.model[kind], sym),
              !.model = [@ EXCEPT ![kind] = afterDecodeOrEncode(@, sym, every)]]

EncodeExtra(w, n, width) == [w EXCEPT !.os = lzmsWriteBits(@, n, width)]

encodeLiteral(w, b) == EncodeSym(Decide(w, "main", 0, MainStates), "literal", b, LitEvery)

\* A value as its slot and the extra bits behind it.
EncodeSlotted(w, kind, every, v, slot, base, extra) ==
    EncodeExtra(EncodeSym(w, kind, slot, every), v - base[slot + 1], extra[slot + 1])
EncodeSlot(w, kind, every, v, base, extra) == EncodeSlotted(w, kind, every, v, getSlot(v, base), base, extra)

MatchDecisions == <<<<"main", 1, MainStates>>, <<"match", 0, MatchStates>>, <<"lz", 0, LzStates>>>>
encodeMatch(w, offset, len) ==
    LET decided == FoldLeft(LAMBDA s, d : Decide(s, d[1], d[2], d[3]), w, MatchDecisions)
        slots == <<<<"offset", OffsetEvery, offset, LOffsetBase, LOffsetExtra>>,
                   <<"length", LengthEvery, len, LLengthBase, LLengthExtra>>>>
    IN  FoldLeft(LAMBDA s, v : EncodeSlot(s, v[1], v[2], v[3], v[4], v[5]), decided, slots)

LzmsPrepare ==
    /\ stage = "lzms"
    /\ work' = [data |-> x86Filter(input, FALSE), p |-> 0, rc |-> newRangeEncoder,
                os |-> newOutputBitstream, model |-> Adaptive(Len(input))]
    /\ stage' = "lzms encode"
    /\ UNCHANGED <<codec, input, stream, output>>

Here == lzmsFindMatch(work.data, work.p, work.p, codec.depth)
\* The match at p, or none if the next position has a longer one.
LaterLen == IF work.p + 1 < Len(work.data)
            THEN lzmsFindMatch(work.data, work.p + 1, work.p, codec.depth).len ELSE 0
Unless(m, later) ==
    IF codec.literalOnly \/ m.len < MinEncodeMatch \/ later > m.len THEN [len |-> 0, offset |-> 0] ELSE m
Chosen == Unless(Here, LaterLen)

LzmsLiteral ==
    /\ stage = "lzms encode" /\ work.p < Len(work.data) /\ Chosen.len = 0
    /\ work' = [encodeLiteral(work, work.data[work.p + 1]) EXCEPT !.p = @ + 1]
    /\ UNCHANGED <<codec, input, stage, stream, output>>

LzmsMatch ==
    /\ stage = "lzms encode" /\ work.p < Len(work.data)
    /\ \E m \in {Chosen} :
        m.len > 0 /\ work' = [encodeMatch(work, m.offset, m.len) EXCEPT !.p = @ + m.len]
    /\ UNCHANGED <<codec, input, stage, stream, output>>

\* Both streams in one piece, the one from the front, the other from the back.
LzmsEnd ==
    /\ stage = "lzms encode" /\ work.p = Len(work.data)
    /\ stream' = flushRange(work.rc) \o backwards(work.os)
    /\ work' = [rd |-> newRangeDecoder(stream'), is |-> newInputBitstream(stream'),
                model |-> Adaptive(Len(input)), out |-> <<>>]
    /\ stage' = "lzms decode"
    /\ UNCHANGED <<codec, input, output>>

-----------------------------------------------------------------------------
(* The decoder.                                                              *)

Asked(d, kind, n) ==
    LET m == d.model[kind]
        Of(r) == [bit |-> r.bit,
                  d |-> [d EXCEPT !.rd = r.rd, !.model = [@ EXCEPT ![kind] = Decided(m, r.bit, n)]]]
    IN  Of(decodeBit(d.rd, probability(m.probs[m.state]), stream))

DecodeSym(d, kind, every) ==
    LET Of(s) == [value |-> s.value,
                  d |-> [d EXCEPT !.is = s.is,
                                  !.model = [@ EXCEPT ![kind] = afterDecodeOrEncode(@, s.value, every)]]]
    IN  Of(decodeSymbol(d.is, d.model[kind], stream))

\* A slot's base and the extra bits behind its symbol.
DecodeSlot(d, kind, every, base, extra) ==
    LET Of(s, x) == [value |-> base[s.value + 1] + x.value, d |-> [s.d EXCEPT !.is = x.is]]
        Extra(s) == Of(s, lzmsReadBits(s.d.is, extra[s.value + 1], stream))
    IN  Extra(DecodeSym(d, kind, every))

lzmsCopy(out, offset, len) ==
    FoldLeft(LAMBDA o, k : Append(o, o[Len(o) + 1 - offset]), out, [k \in 1 .. len |-> k])

\* One round of decompressInto's loop.
DecodeLiteral(s) == [s.d EXCEPT !.out = Append(@, s.value)]
DecodeLen(o, l, expected) ==
    IF o.value > Len(o.d.out) \/ l.value > expected - Len(o.d.out) THEN Failed
    ELSE [l.d EXCEPT !.out = lzmsCopy(@, o.value, l.value)]
DecodeOffset(o, expected) == DecodeLen(o, DecodeSlot(o.d, "length", LengthEvery, LLengthBase, LLengthExtra), expected)
DecodeLz(a, expected) ==
    IF a.bit = 1 THEN Failed
    ELSE DecodeOffset(DecodeSlot(a.d, "offset", OffsetEvery, LOffsetBase, LOffsetExtra), expected)
DecodeMatch(a, expected) == IF a.bit = 1 THEN Failed ELSE DecodeLz(Asked(a.d, "lz", LzStates), expected)
DecodeMain(a, expected) ==
    IF a.bit = 0 THEN DecodeLiteral(DecodeSym(a.d, "literal", LitEvery))
    ELSE DecodeMatch(Asked(a.d, "match", MatchStates), expected)
DecodeOne(d, expected) == DecodeMain(Asked(d, "main", MainStates), expected)

LzmsDecode ==
    /\ stage = "lzms decode" /\ Len(work.out) < Len(input)
    /\ \E d \in {DecodeOne(work, Len(input))} :
        IF d = Failed THEN stage' = "failed" /\ UNCHANGED work ELSE work' = d /\ UNCHANGED stage
    /\ UNCHANGED <<codec, input, stream, output>>

LzmsDone ==
    /\ stage = "lzms decode" /\ Len(work.out) = Len(input)
    /\ output' = x86Filter(work.out, TRUE) /\ stage' = "done" /\ work' = Unset
    /\ UNCHANGED <<codec, input, stream>>

LzmsNext == LzmsPrepare \/ LzmsLiteral \/ LzmsMatch \/ LzmsEnd \/ LzmsDecode \/ LzmsDone

-----------------------------------------------------------------------------
\* Encoder and decoder change their probabilities and codes alike, carries reach
\* every unit they have to, and the two streams do not run into each other.
LzmsLossless == codec.name = "lzms" => (stage # "failed" /\ (stage = "done" => output = input))
=============================================================================
