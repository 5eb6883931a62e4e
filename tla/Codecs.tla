------------------------------- MODULE Codecs -------------------------------
(***************************************************************************)
(* The compression packages behind one call each: lzx, xpress and lzms       *)
(* (compress.go, decompress.go of package wim choose among them) and cab,    *)
(* which reads what other programs have compressed; an image's metadata      *)
(* resource, which wim frames in such chunks.  And the three builders of     *)
(* prefix codes by themselves, for the frequencies of more symbols than a    *)
(* chunk of a few bytes can have.                                            *)
(***************************************************************************)
EXTENDS CabReader, XpressCodec, LzmsCodec, MetadataResource

CONSTANT Calls      \* the calls that are made, <<codec, input>>

Init ==
    /\ \E call \in Calls : codec = call[1] /\ input = call[2]
    /\ stage = codec.name /\ work = Unset /\ stream = <<>> /\ output = Unset

BuildCode ==
    /\ stage = "code"
    /\ stream' = (IF codec.of = "lzx" THEN buildLengths(input, codec.max)
                  ELSE IF codec.of = "xpress" THEN xpressBuildLengths(input)
                  ELSE buildCanonicalLengths(input, codec.max))
    /\ stage' = "coded"
    /\ UNCHANGED <<codec, input, work, output>>

Next == LzxNext \/ XpressNext \/ LzmsNext \/ CabNext \/ MetadataNext \/ BuildCode

Spec == Init /\ [][Next]_codecVars

-----------------------------------------------------------------------------
\* Every used symbol has a codeword within the limit, and none begins another.  For
\* xpress whatever the frequencies, as it falls back to one length for all ("never
\* correctness", src/xpress/huffman.go:150); for lzms as far as its totals let a symbol
\* lie.  For lzx it is promised "even for adversarial frequency distributions"
\* (src/lzx/huffman.go:51-53).
CodesValid ==
    stage = "coded" =>
        LET used == {i \in DOMAIN input : input[i] > 0}
            codes == canonicalCodewords(stream, codec.max)
            \* the numbers of codec.max bits that begin with the codeword of i
            From(i) == codes[i] * Pow2(codec.max - stream[i])
            Beyond(i) == From(i) + Pow2(codec.max - stream[i])
        IN  /\ \A i \in used : stream[i] \in 1 .. codec.max
            /\ \A i \in used : Beyond(i) <= Pow2(codec.max)
            /\ \A i, j \in used : i # j => Beyond(i) <= From(j) \/ Beyond(j) <= From(i)
=============================================================================
