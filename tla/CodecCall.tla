------------------------------ MODULE CodecCall ------------------------------
(***************************************************************************)
(* What the codecs have in common.  One chunk of data on its way through a   *)
(* codec: compressed by one call, and decompressed by another that gets the  *)
(* compressed form and the length only.  The codecs differ in what they keep *)
(* in work meanwhile.                                                        *)
(*                                                                         *)
(* And what the prefix codes of packages lzx and xpress share: the depths of *)
(* the symbols in the tree of the two lightest, and the codewords that       *)
(* canonically belong to given lengths (src/lzx/huffman.go,                  *)
(* src/xpress/huffman.go).  The entry of symbol s is at s + 1.               *)
(***************************************************************************)
EXTENDS Integers, Sequences, FiniteSets, SequencesExt, FiniteSetsExt

VARIABLES
    codec,      \* the package that is called, with its options
    input,      \* the bytes to be compressed
    stage,      \* how far the calls are: an action's name, "done" or "failed"
    work,       \* what the call at hand keeps in between
    stream,     \* the compressed form
    output      \* the bytes decompressed

codecVars == <<codec, input, stage, work, stream, output>>

Unset == [unset |-> TRUE]

-----------------------------------------------------------------------------
Pow2(n) == 2 ^ n
\* What a reader returns that could not go on.
Failed == [failed |-> TRUE]

\* n as bits, the highest first, and back.
ToBits(n, width) == [k \in 1 .. width |-> (n \div Pow2(width - k)) % 2]
FromBits(bits) == FoldLeft(LAMBDA n, b : 2 * n + b, 0, bits)

Seq0(n) == [i \in 1 .. n |-> 0]

Frequencies(n, syms) ==
    [i \in 1 .. n |-> Cardinality({k \in DOMAIN syms : syms[k] = i - 1})]

\* How deep each symbol lies after the two lightest trees were joined until one
\* is left.  Of equal weights package xpress takes the older one; the order in
\* lzx's heap may be another.
Depths(freqs) ==
    LET n == Len(freqs)
        Heavier(a, b) == a.freq > b.freq \/ (a.freq = b.freq /\ a.seq > b.seq)
        Lightest(forest) == CHOOSE a \in forest : \A b \in forest \ {a} : Heavier(b, a)
        Join(s, k) ==
            LET a == Lightest(s.forest)
                b == Lightest(s.forest \ {a})
                both == [freq |-> a.freq + b.freq, seq |-> n + k, syms |-> a.syms \cup b.syms]
            IN  [forest |-> (s.forest \ {a, b}) \cup {both},
                 depth |-> [i \in 1 .. n |-> s.depth[i] + (IF i \in both.syms THEN 1 ELSE 0)]]
        leaves == {[freq |-> freqs[i], seq |-> i, syms |-> {i}] : i \in {j \in 1 .. n : freqs[j] > 0}}
    IN  FoldLeft(Join, [forest |-> leaves, depth |-> Seq0(n)],
                 [k \in 1 .. Cardinality(leaves) - 1 |-> k]).depth

CountOf(lens, l) == Cardinality({i \in DOMAIN lens : lens[i] = l})

\* The numerically first code of each length.
firstCode(lens, max) ==
    FoldLeft(LAMBDA f, l : Append(f, 2 * (f[l] + CountOf(lens, l))), <<0>>, [l \in 1 .. max - 1 |-> l])

canonicalCodewords(lens, max) ==
    LET Assign(s, l) == IF l = 0 THEN [s EXCEPT !.codes = Append(@, 0)]
                        ELSE [codes |-> Append(s.codes, s.next[l]), next |-> [s.next EXCEPT ![l] = @ + 1]]
    IN  FoldLeft(Assign, [codes |-> <<>>, next |-> firstCode(lens, max)], lens).codes
=============================================================================
