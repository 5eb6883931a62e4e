------------------------------ MODULE MCCodecs ------------------------------
(***************************************************************************)
(* The codecs on inputs of up to 18 bytes: all of a few lengths over two or  *)
(* three values, and some that were chosen because they make a rare case     *)
(* happen; and images that exchange a subtree.                               *)
(***************************************************************************)
EXTENDS Codecs

LOCAL Over(n, values) == [1 .. n -> values]

-----------------------------------------------------------------------------
(* lzx.                                                                      *)

LOCAL Lzx(how, depth) == [name |-> "lzx", how |-> how, depth |-> depth, lit |-> 2, refine |-> FALSE]
LOCAL Tree == Lzx("tree", 20)
LzxCalls ==
    {<<Tree, i>> : i \in UNION {Over(n, {1, 2}) : n \in {1, 4}}}
    \cup {<<c, <<1, 2, 2, 1, 1, 2, 1>>>> : c \in {Tree, Lzx("tree", 1), Lzx("chain", 20), Lzx("optimal", 20)}}
    \cup {<<Lzx("none", 0), i>> : i \in Over(7, {6, 7, 2}) \cup Over(8, {6, 2})}
    \cup {<<Lzx("none", 0), <<2, 2>> \o i \o <<6, 0, 7, 2>>>> : i \in Over(4, {6, 0, 7})}
    \cup {<<[Lzx("optimal", 20) EXCEPT !.lit = l], i>> : l \in {1, 2}, i \in Over(6, {1, 2})}
    \cup {<<[Tree EXCEPT !.refine = TRUE], <<1, 1, 1, 2, 1, 2>>>>}

MCSlotBase == <<-2, -1, 0, 1, 2, 4, 6, 10, 14>>
MCExtraBits == <<0, 0, 0, 0, 1, 1, 2, 2, 3>>

-----------------------------------------------------------------------------
(* xpress: the last input has symbols too deep for their codewords.          *)

LOCAL Xpress(skip) == [name |-> "xpress", skip |-> skip]
XpressCalls ==
    {<<Xpress(FALSE), i>> : i \in UNION {Over(n, {0, 1}) : n \in 0 .. 7} \cup Over(4, 0 .. 2)}
    \cup {<<Xpress(TRUE), i>> : i \in UNION {Over(n, 0 .. 3) : n \in 0 .. 3}}
    \cup {<<Xpress(FALSE), <<0, 0, 1, 2, 0, 0, 3, 1, 1, 2, 0>>>>}

-----------------------------------------------------------------------------
(* lzms: two inputs whose decisions carry over a full unit, and some with    *)
(* opcodes of x86.                                                           *)

LOCAL Lzms(literalOnly, depth) == [name |-> "lzms", literalOnly |-> literalOnly, depth |-> depth]
LzmsCalls ==
    {<<Lzms(FALSE, 8), i>> : i \in UNION {Over(n, {0, 1}) : n \in 0 .. 5}}
    \cup {<<Lzms(FALSE, 1), i>> : i \in Over(4, 0 .. 2)}
    \cup {<<Lzms(FALSE, 8), i>> : i \in {<<2, 1, 0, 2, 2, 2, 0, 2, 1, 2, 0, 0, 2, 0>>,
                                         <<1, 2, 0, 0, 2, 0, 2, 1, 2, 2, 2, 2, 1, 2, 0>>}}
    \cup {<<Lzms(TRUE, 1), <<0>> \o i \o <<0, 0, 0, 0, 3>>>> : i \in Over(4, {0, 3, 5, 6})}

MCOffsetBase == <<1, 2, 3, 5, 9, 30>>
MCOffsetExtra == <<0, 0, 1, 2, 4>>
MCLengthBase == <<1, 2, 3, 5, 30>>
MCLengthExtra == <<0, 0, 1, 4>>
MCX86Long == {<<5, 6>>}

-----------------------------------------------------------------------------
(* cab: three folders in blocks of every kind, in a window of one frame or   *)
(* of two; and cabinets that are damaged or of another shape.                *)

LOCAL File(name, folder, offset, size) ==
    [kind |-> "file", Name |-> name, folder |-> folder, FolderOffset |-> offset, Size |-> size]
LOCAL Cabinet(blocks, order) ==
    [name |-> "cab", blocks |-> blocks, order |-> order, size |-> 40, reserve |-> 0, stored |-> 3,
     damaged |-> 0, flags |-> {}, cut |-> 0, method |-> "NONE", asks |-> <<"b", "c", "a", "b">>,
     files |-> <<File("a", 1, 0, 5), File("b", 1, 5, 6), File("c", 2, 0, 3), File("a", 1, 1, 1)>>]
LOCAL Folders ==
    {<<1, 2, 1, 2, 1, 1, 2, 1, 1, 2, 1, 2, 2, 1, 1, 2, 1, 2>>,
     <<6, 1, 0, 2, 6, 1, 0, 2, 6, 1, 0, 2, 1, 6, 1, 0, 6, 1>>}
LOCAL Blocks ==
    LET Kinds == {Verbatim, Aligned, Uncompressed}
    IN  {<<<<k, 18>>>> : k \in Kinds}
        \cup {<<<<j, n>>, <<k, 18 - n>>>> : j, k \in Kinds, n \in {5, 8}}
        \cup {<<<<j, 4>>, <<k, 3>>, <<j, 11>>>> : j, k \in Kinds}
LOCAL Plain == Cabinet(<<<<Aligned, 18>>>>, 3)
CabCalls ==
    {<<Cabinet(b, order), f>> : b \in Blocks, order \in {3, 4}, f \in Folders}
    \cup {<<c, f>> : f \in Folders,
              c \in {[Plain EXCEPT !.damaged = 2], [Plain EXCEPT !.reserve = 5], [Plain EXCEPT !.cut = 1],
                     [Plain EXCEPT !.flags = {"next"}], [Plain EXCEPT !.method = "MSZIP", !.size = 0],
                     [Plain EXCEPT !.asks = <<"a", "d">>]}}

-----------------------------------------------------------------------------
(* Frequencies of seven symbols, up to far too unequal for codewords of three *)
(* bits; for lzms, whose totals are halved before they are as large, those of *)
(* them that are not.  And for lzx, by itself: Fibonacci's numbers and its own *)
(* limit, in as many symbols as a block of 32768 literals has room for.       *)

LOCAL Unequal == {f \in Over(7, {1, 2, 3, 5, 8, 13}) : f[1] = 1 /\ \A k \in 1 .. 6 : f[k] <= f[k + 1]}
LOCAL Code(of, max) == [name |-> "code", of |-> of, max |-> max]
CodeCalls ==
    {<<Code("xpress", 3), f>> : f \in Unequal}
    \cup {<<Code("lzms", 3), f>> : f \in {u \in Unequal : \A i \in 1 .. 7 : Depths(u)[i] <= 3}}

LOCAL Fibonacci[n \in Nat] == IF n <= 2 THEN 1 ELSE Fibonacci[n - 1] + Fibonacci[n - 2]
LzxCodeCalls == {<<Code("lzx", 16), [i \in 1 .. n |-> Fibonacci[i]]>> : n \in 2 .. 20}

-----------------------------------------------------------------------------
(* Images: a donor with one file that differs from call to call, the           *)
(* descriptors of its entries, and what is grafted where: two subtrees that     *)
(* share descriptors, one below the other, one where something is already.      *)
(* One to four chunks, the last of one byte too, with narrow and wide tables.    *)

LOCAL na == <<1, 0>>
LOCAL nb == <<2, 0>>
LOCAL nc == <<3, 0, 3, 0>>
LOCAL Stream(name, h) == [Name |-> name, Hash |-> h]
LOCAL Entry(name, security, children) ==
    [NewDirectory(name) EXCEPT !.SecurityID = security, !.Times = 1, !.HardLinkGroupID = 7,
                               !.Streams = <<Stream(<<>>, 0)>>, !.Children = children]
LOCAL DonorFile(name, security) ==
    [Entry(name, security, <<>>) EXCEPT !.Attributes = {}, !.Streams = <<Stream(<<>>, 5)>>]
LOCAL Donor(file, ids) ==
    LET sub == Entry(nc, ids[3], <<DonorFile(na, ids[4])>>)
    IN  [Security |-> <<<<9>>, <<8, 8, 8>>>>,
         Root |-> Entry(<<>>, 0, <<Entry(na, ids[1], <<file, Entry(nb, ids[2], <<>>), sub>>),
                                   DonorFile(nb, ids[4])>>)]

LOCAL Unnamed5 == Stream(<<>>, 5)
LOCAL Two == <<Unnamed5, Stream(na, 6)>>
LOCAL StreamLists ==
    {<<>>, <<Unnamed5>>, Two, Append(Two, Stream(nc, 5)), <<Stream(<<>>, 0), Unnamed5, Stream(nb, 6)>>,
     <<Stream(na, 5)>>, <<Unnamed5, Stream(nc \o nc, 6)>>}
    \cup {<<Unnamed5>> \o [k \in 1 .. n |-> Stream(na, 6)] : n \in {7, 8}}
LOCAL DonorFiles ==
    {[DonorFile(nc, 1) EXCEPT !.Streams = s, !.ShortName = n] : s \in StreamLists, n \in {<<>>, nb}}
    \cup {[DonorFile(nc, 1) EXCEPT !.Streams = s, !.Extra = e] : s \in {<<>>, Two}, e \in {na \o nb, nc \o nc}}
    \cup {[DonorFile(nc, 0) EXCEPT !.Attributes = {ReparsePoint}, !.HardLinkGroupID = 0, !.ReparseTag = 3]}
    \cup {DonorFile(nc \o nc, 1), DonorFile(<<1, 0, 2>>, 1)}

LOCAL AllOfA == <<<<na>>, <<na>>>>
LOCAL GraftLists ==
    {<<>>, <<AllOfA>>, <<<<<<nb>>, <<na, nb>>>>, <<<<na, nc>>, <<na, nc>>>>>>, <<AllOfA, <<<<nb>>, <<na, nc, nb>>>>>>,
     <<<<<<na, nb>>, <<nc, na>>>>, <<<<na>>, <<nc, nb>>>>>>, <<<<<<nb>>, <<na>>>>, <<<<nb>>, <<na, nb>>>>>>}
LOCAL Ids == {<<1, 1, 1, 1>>, <<1, 0, -1, 2>>, <<2, 2, 1, -1>>}

LOCAL Wim(chunkSize, compression) == [name |-> "wim", chunkSize |-> chunkSize, compression |-> compression]
LOCAL Input(file, ids, grafts) == [donor |-> Donor(file, ids), grafts |-> grafts]
WimCalls ==
    {<<Wim(n, "lzx"), Input(f, <<1, -1, 0, 1>>, <<AllOfA>>)>> : n \in {300, 743}, f \in DonorFiles}
    \cup {<<Wim(n, "lzx"), Input(DonorFile(nc \o na, 1), ids, g)>> : n \in {300, 743}, ids \in Ids, g \in GraftLists}
    \cup {<<Wim(200, "none"), Input(DonorFile(nc, 1), <<1, 0, -1, 2>>, <<AllOfA>>)>>}

MCCalls == LzxCalls \cup XpressCalls \cup LzmsCalls \cup CabCalls \cup WimCalls \cup CodeCalls
=============================================================================
