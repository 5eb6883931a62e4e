----------------------------- MODULE CabReader -----------------------------
(***************************************************************************)
(* Package cab (src/cab): a cabinet is opened, and its files are asked for   *)
(* in some order.  A folder is decompressed once, with all of its files, and *)
(* kept.  Its LZX data is one stream in frames; blocks begin anywhere, and at *)
(* the end of each frame the stream goes on at the next unit of 16 bits.     *)
(* The fields a reader takes are those that were written, and it counts the  *)
(* bits it has at hand, as the code does: aligning drops that many.          *)
(***************************************************************************)
EXTENDS CabMaker

-----------------------------------------------------------------------------
(* NewReader and parseFolders.                                               *)

CabPack ==
    /\ stage = "cab"
    /\ stream' = CabLayout(codec, input)
    /\ stage' = "cab open" /\ output' = <<>>
    /\ UNCHANGED <<codec, input, work>>

\* Nothing begins there, or it ends beyond the end of the file.
CabGone(offset, size) == offset \notin DOMAIN stream.at \/ offset + size > stream.length

CabNone == [Folders |-> <<>>, Files |-> <<>>, cbCFData |-> 0, decoded |-> <<>>]

CabOpen ==
    LET h == stream.header
        off == HeaderSize + (IF h.reserve > 0 THEN 4 + h.reserve ELSE 0)
        FolderAt(i) == off + (i - 1) * (FolderSize + h.reserve)
        FileAt(k) == h.coffFiles + (k - 1) * (FileSize + NameSize)
        error == IF stream.length < HeaderSize \/ off > stream.length THEN "truncated"
                 ELSE IF h.flags # {} THEN "multi cabinet"
                 ELSE IF \E i \in 1 .. h.cFolders : CabGone(FolderAt(i), FolderSize) THEN "truncated"
                 ELSE IF \E k \in 1 .. h.cFiles : CabGone(FileAt(k), FileSize + NameSize) THEN "truncated"
                 ELSE IF \E k \in 1 .. h.cFiles : stream.at[FileAt(k)].folder > h.cFolders THEN "no folder"
                 ELSE "none"
    IN  /\ stage = "cab open"
        /\ IF error # "none"
           THEN stage' = "done" /\ output' = <<[error |-> error]>> /\ UNCHANGED work
           ELSE /\ stage' = "cab extract"
                /\ work' = [CabNone EXCEPT !.Folders = [i \in 1 .. h.cFolders |-> stream.at[FolderAt(i)]],
                                           !.Files = [k \in 1 .. h.cFiles |-> stream.at[FileAt(k)]],
                                           !.cbCFData = h.reserve]
                /\ UNCHANGED output
        /\ UNCHANGED <<codec, input, stream>>

-----------------------------------------------------------------------------
(* Extract and ExtractFile.                                                  *)

Error(e) == [error |-> e]
Bytes(b) == [bytes |-> b]
Answer(a) == output' = Append(output, a) /\ UNCHANGED <<codec, input, stream>>
Sliced(data, file) ==
    IF file.FolderOffset + file.Size > Len(data) THEN Error("out of range")
    ELSE Bytes(SubSeq(data, file.FolderOffset + 1, file.FolderOffset + file.Size))

\* decodeFolder's blocks: the compressed bytes of all, and the sizes they give.
CabGathered(r, folder) ==
    LET Block(s, i) ==
            LET b == stream.at[s.off]
                body == s.off + DataSize + r.cbCFData
                bad == b.csum # Seq0(4) /\ cabChecksum(b.block, b.cbData, b.cbUncomp) # b.csum
            IN  IF s.error # "none" THEN s
                ELSE IF CabGone(s.off, DataSize) THEN [s EXCEPT !.error = "truncated"]
                ELSE IF body + b.cbData > stream.length THEN [s EXCEPT !.error = "truncated"]
                ELSE IF bad THEN [s EXCEPT !.error = "bad checksum"]
                ELSE [s EXCEPT !.off = body + b.cbData, !.bytes = @ \o b.block, !.sizes = Append(@, b.cbUncomp)]
    IN  FoldLeft(Block, [off |-> folder.dataStart, bytes |-> <<>>, sizes |-> <<>>, error |-> "none"],
                 [i \in 1 .. folder.numDataBlocks |-> i])

\* lzxCabDecompress's state before its first frame.
CabState(fields, total, order) ==
    [in |-> fields, nbits |-> 0, window |-> [i \in 0 .. Pow2(order) - 1 |-> 0], windowPosn |-> 0,
     framePosn |-> 0, recent |-> FirstQueue, headerRead |-> FALSE, intelStarted |-> FALSE, intelFilesize |-> 0,
     blockType |-> 0, blockLength |-> 0, blockRemaining |-> 0, bytesTodo |-> Min({total, CabFrame}),
     thisRun |-> 0, lens |-> NoLens(numMainSyms(order)), aligned |-> <<>>, total |-> total, order |-> order,
     out |-> <<>>]

CabExtract ==
    LET named == {k \in DOMAIN work.Files : work.Files[k].Name = codec.asks[Len(output) + 1]}
        file == work.Files[Min(named)]
        folder == work.Folders[file.folder]
        g == CabGathered(work, folder)
        kept == [f \in DOMAIN work.decoded \cup {file.folder} |->
                    IF f = file.folder THEN g.bytes ELSE work.decoded[f]]
    IN  /\ stage = "cab extract" /\ Len(output) < Len(codec.asks)
        /\ IF named = {} THEN Answer(Error("not found")) /\ UNCHANGED <<stage, work>>
           ELSE IF file.folder \in DOMAIN work.decoded
           THEN Answer(Sliced(work.decoded[file.folder], file)) /\ UNCHANGED <<stage, work>>
           ELSE IF g.error # "none" THEN Answer(Error(g.error)) /\ UNCHANGED <<stage, work>>
           ELSE IF folder.Method = "NONE"
           THEN Answer(Sliced(g.bytes, file)) /\ work' = [work EXCEPT !.decoded = kept] /\ UNCHANGED stage
           ELSE IF folder.Method = "LZX"
           THEN /\ work' = [reader |-> work, file |-> file,
                            st |-> CabState(g.bytes, FoldLeft(+, 0, g.sizes), folder.window)]
                /\ stage' = "cab decode"
                /\ UNCHANGED <<codec, input, stream, output>>
           ELSE Answer(Error("unsupported")) /\ UNCHANGED <<stage, work>>

CabAllAsked ==
    /\ stage = "cab extract" /\ Len(output) = Len(codec.asks)
    /\ stage' = "done" /\ work' = Unset
    /\ UNCHANGED <<codec, input, stream, output>>

-----------------------------------------------------------------------------
(* bitreader.go.  A reader is [in, nbits]; the value is Lost where another     *)
(* field was written than the one that is read.                              *)

CabEnsured(nbits, n) == IF nbits >= n THEN nbits ELSE nbits + 16 * ((n - nbits + 15) \div 16)
CabTaken(r, width, ahead) == [r EXCEPT !.in = Tail(@), !.nbits = CabEnsured(@, ahead) - width]
CabRead(r, width) ==
    IF width = 0 THEN Read(0, r)
    ELSE IF ~HasField(r.in, width) THEN Read(Lost, r)
    ELSE Read(Head(r.in)[1], CabTaken(r, width, width))

\* Bytes come from where the bits end.
CabBytes(r, width) ==
    IF r.nbits # 0 \/ ~HasField(r.in, width) THEN Read(Lost, r)
    ELSE Read(Head(r.in)[1], [r EXCEPT !.in = Tail(@)])

\* Several fields: their values, Lost among them if one was another, and the reader.
CabMore(s, f) == [vs |-> Append(s.vs, f.v), in |-> f.in]
CabFields(r, widths) == FoldLeft(LAMBDA s, w : CabMore(s, CabRead(s.in, w)), [vs |-> <<>>, in |-> r], widths)
CabAllBytes(r, widths) == FoldLeft(LAMBDA s, w : CabMore(s, CabBytes(s.in, w)), [vs |-> <<>>, in |-> r], widths)
Times(n, width) == [k \in 1 .. n |-> width]

\* The next bits are dropped: right if they are the padding.
CabDrop(r, n) ==
    IF n = 0 THEN r
    ELSE IF HasField(r.in, n) THEN [r EXCEPT !.in = Tail(@), !.nbits = @ - n] ELSE Failed
cabAlign(r) == LET n == CabEnsured(r.nbits, 1) IN CabDrop([r EXCEPT !.nbits = n], n)

newHuffTable(lens) ==
    [maxLen |-> Max({0} \cup ToSet(lens)), lens |-> lens, codes |-> canonicalCodewords(lens, MaxMainLen)]
CabSymbol(r, t) ==
    LET f == Head(r.in)
        hits == {i \in DOMAIN t.lens : t.lens[i] # 0 /\ f = <<t.codes[i], t.lens[i]>>}
    IN  IF t.maxLen = 0 \/ r.in = <<>> THEN Read(Lost, r)
        ELSE IF hits = {} THEN Read(Lost, r)
        ELSE Read((CHOOSE i \in hits : TRUE) - 1, CabTaken(r, f[2], t.maxLen))

-----------------------------------------------------------------------------
(* readLZXLens: the lengths from x on, over those of the block before.       *)

\* z is a presymbol at length s.i; what it says is done as in package lzx.
CabSameRun(s, t, n) == IF n.v = Lost THEN Failed ELSE SameRunOf(s, n.v, CabSymbol(n.in, t))
CabLensAfter(s, t, z) ==
    IF z.v = Lost THEN Failed
    ELSE IF z.v = ZeroRun THEN ZeroRunRead(s, CabRead(z.in, ZeroRunBits), MinRun)
    ELSE IF z.v = LongZeroRun THEN ZeroRunRead(s, CabRead(z.in, LongRunBits), LongRun)
    ELSE IF z.v = SameRun THEN CabSameRun(s, t, CabRead(z.in, 1))
    ELSE Filled(s, z.in, 1, Less(s.lens[s.i], z.v))

RECURSIVE CabLensFrom(_, _)
CabLensFrom(s, t) ==
    IF s = Failed THEN Failed
    ELSE IF s.i > Len(s.lens) THEN s
    ELSE CabLensFrom(CabLensAfter(s, t, CabSymbol(s.in, t)), t)

CabUnderPrecode(lens, pre) ==
    IF Lost \in ToSet(pre.vs) THEN Failed
    ELSE IF ToSet(pre.vs) = {0} THEN Failed
    ELSE CabLensFrom([lens |-> lens, in |-> pre.in, i |-> 1], newHuffTable(pre.vs))
readLZXLens(r, lens) == CabUnderPrecode(lens, CabFields(r, Times(PreSyms, PreElementBits)))

-----------------------------------------------------------------------------
(* decodeFrame.                                                              *)

CabStep(st) == work' = [work EXCEPT !.st = st] /\ UNCHANGED <<codec, input, stage, stream, output>>
CabFails ==
    /\ Answer(Error("invalid data")) /\ stage' = "cab extract" /\ work' = work.reader
CabGoes(st) == IF st = Failed THEN CabFails ELSE CabStep(st)

\* The bit and the size the filter needs, once.
CabHeaded(size) ==
    IF Lost \in ToSet(size.vs) THEN Failed
    ELSE [size.in EXCEPT !.headerRead = TRUE, !.intelFilesize = FoldLeft(LAMBDA n, v : 65536 * n + v, 0, size.vs)]
CabHeaderAfter(bit) ==
    IF bit.v = Lost THEN Failed ELSE CabHeaded(CabFields(bit.in, IF bit.v = 1 THEN <<16, 16>> ELSE <<>>))
CabHeaderRead ==
    /\ stage = "cab decode" /\ ~work.st.headerRead
    /\ \E st \in {CabHeaderAfter(CabRead(work.st, 1))} : CabGoes(st)

\* The aligned code comes first; neither it nor the main one may be empty.
CabAligned(aligned) ==
    IF ToSet(aligned.vs) = {0} \/ Lost \in ToSet(aligned.vs) THEN Failed
    ELSE [aligned.in EXCEPT !.aligned = aligned.vs]
CabWithTable(part, r) ==
    IF r = Failed THEN Failed
    ELSE [r.in EXCEPT !.lens = WithPart(@, part, r.lens),
                      !.intelStarted = @ \/ (part = "chars" /\ r.lens[CallByte + 1] # 0)]
CabTable(st, part) ==
    IF st = Failed THEN Failed
    ELSE IF part = "len" /\ ToSet(st.lens.main) = {0} THEN Failed
    ELSE CabWithTable(part, readLZXLens(st, PartOf(st.lens, part)))
CabTables(st) == FoldLeft(CabTable, st, Parts)

CabOffsetsRead(r) ==
    IF ToSet(r.vs) \cap {0, Lost} # {} THEN Failed ELSE [r.in EXCEPT !.recent = r.vs, !.intelStarted = TRUE]
CabOffsets(st) == IF st = Failed THEN Failed ELSE CabOffsetsRead(CabAllBytes(st, Times(3, 32)))

CabBlockOf(st) ==
    IF st.blockType = Uncompressed THEN CabOffsets(cabAlign(st))
    ELSE IF st.blockType = Aligned THEN CabTables(CabAligned(CabFields(st, Times(AlignedSyms, 3))))
    ELSE IF st.blockType = Verbatim THEN CabTables(st) ELSE Failed
CabBlockHead(h) ==
    LET size == h.vs[2] * 256 + h.vs[3]
    IN  IF Lost \in ToSet(h.vs) THEN Failed
        ELSE CabBlockOf([h.in EXCEPT !.blockType = h.vs[1], !.blockLength = size, !.blockRemaining = size])
CabBlockAfter(pad) == IF pad.v = Lost THEN Failed ELSE CabBlockHead(CabFields(pad.in, <<3, 16, 8>>))
\* The byte that makes an uncompressed block even.
CabPad(st) ==
    IF st.blockType = Uncompressed /\ st.blockLength % 2 = 1 THEN CabBytes(st, 8) ELSE Read(0, st)

CabBlockBegins ==
    /\ stage = "cab decode" /\ work.st.headerRead /\ work.st.bytesTodo > 0
    /\ work.st.blockRemaining = 0 /\ work.st.thisRun = 0
    /\ \E st \in {CabBlockAfter(CabPad(work.st))} : CabGoes(st)

\* As much of the block as belongs to the frame.
CabRunBegins ==
    LET st == work.st
        run == Min({st.blockRemaining, st.bytesTodo})
    IN  /\ stage = "cab decode" /\ st.bytesTodo > 0 /\ st.thisRun = 0 /\ st.blockRemaining > 0
        /\ CabStep([st EXCEPT !.thisRun = run, !.bytesTodo = @ - run, !.blockRemaining = @ - run])

CabWritten(st, bytes) ==
    [st EXCEPT !.window = [i \in DOMAIN @ |->
                              IF i >= st.windowPosn /\ i < st.windowPosn + Len(bytes)
                              THEN bytes[i - st.windowPosn + 1] ELSE @[i]],
               !.windowPosn = @ + Len(bytes), !.thisRun = @ - Len(bytes)]

CabStoredRun(bytes) == IF Lost \in ToSet(bytes.vs) THEN Failed ELSE CabWritten(bytes.in, bytes.vs)
CabStored ==
    /\ stage = "cab decode" /\ work.st.thisRun > 0 /\ work.st.blockType = Uncompressed
    /\ \E st \in {CabStoredRun(CabAllBytes(work.st, Times(work.st.thisRun, 8)))} : CabGoes(st)

\* copyMatch: what lies before the window's beginning is at its end.
copyMatch(st, offset, len) ==
    FoldLeft(LAMBDA w, k : [w EXCEPT ![st.windowPosn + k] = w[(st.windowPosn + k - offset) % Pow2(st.order)]],
             st.window, [k \in 1 .. len |-> k - 1])

\* A match's offset by its slot, its low bits under the aligned code where there are
\* enough of them.
CabByAligned(raw) == LowBits(raw, CabSymbol(raw.in, newHuffTable(raw.in.aligned)))
CabOffset(st, slot) ==
    LET extra == ExtraBits[slot + 1]
    IN  IF slot < NumRecent THEN Read(st.recent[slot + 1], st)
        ELSE IF st.blockType = Aligned /\ extra >= AlignedBits
        THEN Plus(CabByAligned(CabRead(st, extra - AlignedBits)), SlotBase[slot + 1])
        ELSE Plus(CabRead(st, extra), SlotBase[slot + 1])

\* One symbol of decodeMatches and what belongs to it.  A match that is longer than
\* the run takes the rest from the block.
CabCopied(slot, len, m) ==
    LET over == Max({len - m.in.thisRun, 0})
    IN  IF m.v = Lost THEN Failed
        ELSE IF m.in.windowPosn + len > Pow2(m.in.order) THEN Failed
        ELSE IF m.v - m.in.windowPosn > Pow2(m.in.order) THEN Failed
        ELSE IF over > m.in.blockRemaining THEN Failed
        ELSE [m.in EXCEPT !.recent = Requeued(@, slot, m.v), !.window = copyMatch(m.in, m.v, len),
                          !.windowPosn = @ + len, !.thisRun = Max({@ - len, 0}), !.blockRemaining = @ - over]
CabMatch(slot, len) == IF len.v = Lost THEN Failed ELSE CabCopied(slot, len.v, CabOffset(len.in, slot))
CabMatchLen(st, header) ==
    IF header < NumPrimaryLens THEN Read(header + MinMatchLen, st)
    ELSE Plus(CabSymbol(st, newHuffTable(st.lens.len)), header + MinMatchLen)
CabTokenOf(s) ==
    IF s.v = Lost THEN Failed
    ELSE IF s.v < NumChars THEN CabWritten(s.in, <<s.v>>)
    ELSE CabMatch((s.v - NumChars) \div NumLenHeaders, CabMatchLen(s.in, (s.v - NumChars) % NumLenHeaders))

CabToken ==
    /\ stage = "cab decode" /\ work.st.thisRun > 0 /\ work.st.blockType # Uncompressed
    /\ \E st \in {CabTokenOf(CabSymbol(work.st, newHuffTable(work.st.lens.main)))} : CabGoes(st)

\* e8Untranslate, where the frame begins at cur.
RECURSIVE e8Untranslate(_, _, _, _)
e8Untranslate(data, i, cur, size) ==
    LET abs == ReadOperand(data, i + 1)
        rel == IF abs >= 0 THEN abs - (cur + i) ELSE abs + size
    IN  IF i >= Len(data) - 2 * (Operand + 1) THEN data
        ELSE IF data[i + 1] # CallByte THEN e8Untranslate(data, i + 1, cur, size)
        ELSE e8Untranslate(IF abs >= -(cur + i) /\ abs < size THEN WithOperand(data, i + 1, rel) ELSE data,
                           i + 1 + Operand, cur, size)

\* A slip the properties must catch (the code once had it): frames follow each other
\* without a break.
RealignedNever(st) == st

\* The end of decodeFrame and what lzxCabDecompress does with the frame.  Bits that
\* are left before the next unit are dropped.
Realigned(st) == CabDrop(st, st.nbits % 16)

CabFrameDone ==
    LET st == work.st
        r == Realigned(st)
        size == Min({CabFrame, st.total - Len(st.out)})
        frame == [i \in 1 .. size |-> st.window[st.framePosn + i - 1]]
        filtered == st.intelStarted /\ st.intelFilesize # 0
        out == st.out \o (IF filtered THEN e8Untranslate(frame, 0, Len(st.out), st.intelFilesize) ELSE frame)
        Around(posn) == IF posn = Pow2(st.order) THEN 0 ELSE posn
        next == [r EXCEPT !.out = out, !.bytesTodo = Min({CabFrame, st.total - Len(out)}),
                          !.windowPosn = Around(@), !.framePosn = Around(@ + size)]
    IN  /\ stage = "cab decode" /\ st.headerRead /\ st.bytesTodo = 0 /\ st.thisRun = 0
        /\ IF r = Failed THEN CabFails
           ELSE IF Len(out) < st.total THEN CabStep(next)
           ELSE /\ Answer(Sliced(out, work.file))
                /\ work' = [work.reader EXCEPT !.decoded = (work.file.folder :> out) @@ @]
                /\ stage' = "cab extract"

CabNext == CabPack \/ CabOpen \/ CabExtract \/ CabAllAsked \/ CabHeaderRead \/ CabBlockBegins
           \/ CabRunBegins \/ CabStored \/ CabToken \/ CabFrameDone

-----------------------------------------------------------------------------
\* The files of a cabinet come out as they went in, whichever is asked for first and
\* however the blocks of their folder lie to its frames; a damaged block, a cabinet
\* of several or one that is cut short is refused.
FolderBytes ==
    (codec.name = "cab" /\ stage # "cab") =>
        \A k \in DOMAIN output :
            LET named == {i \in DOMAIN codec.files : codec.files[i].Name = codec.asks[k]}
                file == codec.files[Min(named)]
                data == IF file.folder = 1 THEN input ELSE SubSeq(input, 1, codec.stored)
            IN  output[k] =
                    IF codec.flags # {} THEN Error("multi cabinet")
                    ELSE IF named = {} THEN Error("not found")
                    ELSE IF file.folder = 2 /\ codec.cut > 0 THEN Error("truncated")
                    ELSE IF file.folder = 2 /\ codec.damaged > 0 THEN Error("bad checksum")
                    ELSE IF file.folder = 2 /\ codec.method # "NONE" THEN Error("unsupported")
                    ELSE Bytes(SubSeq(data, file.FolderOffset + 1, file.FolderOffset + file.Size))
=============================================================================
