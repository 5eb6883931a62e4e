--------------------------- MODULE RegfHive_proofs ---------------------------
(***************************************************************************)
(* Proofs about the writer of registry hives: whatever the tree, the security *)
(* cells form one circular list with one cell per descriptor, and the count   *)
(* in each is the number of keys that use it, at every step.                  *)
(***************************************************************************)
EXTENDS Registrations, FiniteSetTheorems, TLAPS

\* A cell holds its data and the size field.
LEMMA CellSizeBound ==
    ASSUME NEW n \in Nat
    PROVE  CellSize(n) \in Nat /\ CellSize(n) >= n + 4
BY DEF CellSize

LEMMA SkSizePositive ==
    ASSUME NEW d \in Descriptors
    PROVE  SkSize(d) \in Nat /\ SkSize(d) > 0
<1>1. DescriptorLen[d] \in Nat
  BY DescriptorAssumption
<1>2. SkHeaderSize + DescriptorLen[d] \in Nat
  BY <1>1 DEF SkHeaderSize
<1> QED
  BY <1>2, CellSizeBound DEF SkSize

\* The pool alone: each way getOrCreate can go keeps the list circular.
LEMMA ReuseKeepsSkInv ==
    ASSUME SkInv, NEW d \in Descriptors, Reuse(d)
    PROVE  SkInv'
<1> DEFINE o == byDescriptor[d]
<1>1. o \in DOMAIN sk
  BY DEF Reuse, SkInv, SkTypeOK
<1>2. /\ DOMAIN sk' = DOMAIN sk
      /\ \A p \in DOMAIN sk : /\ sk'[p].prev = sk[p].prev
                              /\ sk'[p].next = sk[p].next
                              /\ sk'[p].descriptor = sk[p].descriptor
                              /\ sk'[p].refCount \in Nat \ {0}
  BY <1>1 DEF Reuse, SkInv, SkTypeOK
<1>3. sk' \in [DOMAIN sk -> [prev : DOMAIN sk, next : DOMAIN sk,
                             refCount : Nat \ {0}, descriptor : Descriptors]]
  <2> DEFINE R == [prev : DOMAIN sk, next : DOMAIN sk,
                   refCount : Nat \ {0}, descriptor : Descriptors]
  <2>1. sk \in [DOMAIN sk -> R]
    BY DEF SkInv, SkTypeOK
  <2>2. [sk[o] EXCEPT !.refCount = @ + 1] \in R
    BY <1>1, <2>1
  <2>3. sk' = [sk EXCEPT ![o] = [sk[o] EXCEPT !.refCount = @ + 1]]
    BY <1>1 DEF Reuse
  <2> HIDE DEF R, o
  <2> QED
    BY <2>1, <2>2, <2>3, <1>1 DEF R
<1>4. UNCHANGED <<top, byDescriptor, firstSk, lastSk>>
  BY DEF Reuse
<1>5. SkTypeOK'
  <2>1. sk' \in [DOMAIN sk' -> [prev : DOMAIN sk', next : DOMAIN sk',
                                refCount : Nat \ {0}, descriptor : Descriptors]]
    BY <1>2, <1>3
  <2>2. byDescriptor' \in [DOMAIN byDescriptor' -> DOMAIN sk']
    BY <1>2, <1>4 DEF SkInv, SkTypeOK
  <2> QED
    BY <2>1, <2>2, <1>2, <1>4 DEF SkInv, SkTypeOK
<1>6. SkListCircular'
  <2>1. ASSUME NEW p \in DOMAIN sk
        PROVE  sk[p].next \in DOMAIN sk
    BY DEF SkInv, SkTypeOK
  <2> QED
    BY <1>2, <1>4, <2>1 DEF SkInv, SkListCircular, IsSuccessor
<1>7. OneCellPerDescriptor'
  BY <1>2, <1>4 DEF SkInv, SkTypeOK, OneCellPerDescriptor
<1> QED
  BY <1>5, <1>6, <1>7 DEF SkInv

LEMMA CreateFirstKeepsSkInv ==
    ASSUME SkInv, NEW d \in Descriptors, CreateFirst(d)
    PROVE  SkInv'
<1>1. DOMAIN sk = {} /\ DOMAIN byDescriptor = {} /\ top \in Nat
  <2>1. DOMAIN sk = {}
    BY DEF CreateFirst, SkInv, SkListCircular
  <2>2. DOMAIN byDescriptor = {}
    BY <2>1 DEF SkInv, OneCellPerDescriptor
  <2> QED
    BY <2>1, <2>2 DEF SkInv, SkTypeOK
<1> DEFINE cell == [prev |-> top, next |-> top, refCount |-> 1, descriptor |-> d]
<1>2. /\ sk' = [o \in {top} |-> cell]
      /\ firstSk' = top /\ lastSk' = top
      /\ byDescriptor' = [e \in {d} |-> top]
      /\ top' = top + SkSize(d)
  BY <1>1 DEF CreateFirst, Remember
<1>3. top' \in Nat /\ top < top'
  BY <1>1, <1>2, SkSizePositive
<1>4. SkTypeOK'
  <2>1. cell \in [prev : {top}, next : {top}, refCount : Nat \ {0}, descriptor : Descriptors]
    OBVIOUS
  <2>2. DOMAIN sk' = {top} /\ DOMAIN byDescriptor' = {d}
    BY <1>2
  <2>3. sk' \in [{top} -> [prev : {top}, next : {top},
                           refCount : Nat \ {0}, descriptor : Descriptors]]
    BY <1>2, <2>1
  <2> QED
    BY <1>1, <1>2, <1>3, <2>2, <2>3 DEF SkTypeOK
<1>5. SkListCircular'
  BY <1>1, <1>2 DEF SkListCircular, IsSuccessor, NoCellOffset
<1>6. OneCellPerDescriptor'
  BY <1>2 DEF OneCellPerDescriptor
<1> QED
  BY <1>4, <1>5, <1>6 DEF SkInv

\* Patching both links of a cell leaves the rest of it alone.
LEMMA PatchedLinks ==
    ASSUME NEW P, NEW Q, P \subseteq Q, NEW C, NEW D,
           NEW r \in [prev : P, next : P, refCount : C, descriptor : D],
           NEW a \in Q, NEW b \in Q,
           NEW p, p = [r EXCEPT !.next = a, !.prev = b]
    PROVE  /\ p \in [prev : Q, next : Q, refCount : C, descriptor : D]
           /\ p.next = a /\ p.prev = b
           /\ p.refCount = r.refCount /\ p.descriptor = r.descriptor
OBVIOUS

LEMMA CreateAfterLastKeepsSkInv ==
    ASSUME SkInv, NEW d \in Descriptors, CreateAfterLast(d)
    PROVE  SkInv'
<1> DEFINE S == DOMAIN sk
           T == S \cup {top}
           cell == [prev |-> lastSk, next |-> firstSk, refCount |-> 1, descriptor |-> d]
           old(o) == [sk[o] EXCEPT !.next = IF o = lastSk THEN top ELSE @,
                                   !.prev = IF o = firstSk THEN top ELSE @]
<1>1. /\ S # {} /\ firstSk \in S /\ lastSk \in S
      /\ top \in Nat /\ top \notin S
      /\ \A o \in S : o \in Nat /\ o < top
      /\ d \notin DOMAIN byDescriptor
  <2>1. /\ top \in Nat /\ \A o \in S : o \in Nat /\ o < top
        /\ d \notin DOMAIN byDescriptor
    BY DEF CreateAfterLast, SkInv, SkTypeOK
  <2>2. S # {}
    BY DEF CreateAfterLast, SkInv, SkListCircular
  <2>3. firstSk \in S /\ lastSk \in S
    BY <2>2 DEF SkInv, SkTypeOK
  <2> QED
    BY <2>1, <2>2, <2>3
<1>2. /\ sk' = [o \in T |-> IF o = top THEN cell ELSE old(o)]
      /\ firstSk' = firstSk /\ lastSk' = top
      /\ byDescriptor' = [e \in DOMAIN byDescriptor \cup {d} |->
                            IF e = d THEN top ELSE byDescriptor[e]]
      /\ top' = top + SkSize(d)
  BY DEF CreateAfterLast, Remember
<1> HIDE DEF old
<1>3. top' \in Nat /\ top < top'
  BY <1>1, <1>2, SkSizePositive
<1> DEFINE R == [prev : S, next : S, refCount : Nat \ {0}, descriptor : Descriptors]
           Q == [prev : T, next : T, refCount : Nat \ {0}, descriptor : Descriptors]
<1>4. /\ sk \in [S -> R]
      /\ \A o \in S : sk[o].next \in S /\ sk[o].prev \in S
  BY DEF SkInv, SkTypeOK
<1>5. ASSUME NEW o \in S
      PROVE  /\ old(o) \in Q
             /\ old(o).next = IF o = lastSk THEN top ELSE sk[o].next
             /\ old(o).prev = IF o = firstSk THEN top ELSE sk[o].prev
             /\ old(o).descriptor = sk[o].descriptor
  <2> DEFINE a == IF o = lastSk THEN top ELSE sk[o].next
             b == IF o = firstSk THEN top ELSE sk[o].prev
  <2>1. a \in T /\ b \in T /\ sk[o] \in R /\ S \subseteq T
    BY <1>4
  <2>2. old(o) = [sk[o] EXCEPT !.next = a, !.prev = b]
    BY DEF old
  <2> HIDE DEF a, b, S, T
  <2>3. /\ old(o) \in Q /\ old(o).next = a /\ old(o).prev = b
        /\ old(o).descriptor = sk[o].descriptor
    BY <2>1, <2>2, PatchedLinks
  <2> QED
    BY <2>3 DEF a, b
<1>6. /\ DOMAIN sk' = T
      /\ sk'[top].next = firstSk /\ sk'[top].prev = lastSk /\ sk'[top].descriptor = d
      /\ \A o \in S :
           /\ sk'[o].next = IF o = lastSk THEN top ELSE sk[o].next
           /\ sk'[o].prev = IF o = firstSk THEN top ELSE sk[o].prev
           /\ sk'[o].descriptor = sk[o].descriptor
  BY <1>1, <1>2, <1>5
<1>7. SkTypeOK'
  <2>1. cell \in Q
    BY <1>1
  <2>3. sk' \in [T -> Q]
    <3> HIDE DEF Q, cell
    <3> QED
      BY <1>2, <1>5, <2>1
  <2>4. \A o \in T : o \in Nat /\ o < top'
    BY <1>1, <1>3
  <2>5. /\ DOMAIN byDescriptor' \subseteq Descriptors
        /\ byDescriptor' \in [DOMAIN byDescriptor' -> T]
    BY <1>2 DEF SkInv, SkTypeOK
  <2>6. {firstSk', lastSk'} \subseteq T /\ T # {}
    BY <1>1, <1>2
  <2> QED
    BY <1>3, <1>6, <2>3, <2>4, <2>5, <2>6 DEF SkTypeOK
<1>8. SkListCircular'
  <2>1. firstSk' # NoCellOffset
    BY <1>1, <1>2 DEF NoCellOffset
  <2>2. \A o \in S : firstSk <= o /\ o <= lastSk
    BY DEF SkInv, SkListCircular
  <2>3. \A o \in T : firstSk' <= o /\ o <= lastSk'
    BY <1>1, <1>2, <2>2
  <2>4. ASSUME NEW o \in T PROVE IsSuccessor(sk[o].next, o)'
    <3>1. CASE o = top
      BY <1>1, <1>2, <1>6, <3>1 DEF IsSuccessor
    <3>2. CASE o = lastSk
      BY <1>1, <1>2, <1>6, <3>2, <2>2 DEF IsSuccessor
    <3>3. CASE o \in S /\ o # lastSk
      <4>1. IsSuccessor(sk[o].next, o)
        BY <3>3 DEF SkInv, SkListCircular
      <4> DEFINE p == sk[o].next
      <4>2. sk'[o].next = p /\ p \in S /\ lastSk' # o
        BY <1>1, <1>2, <1>4, <1>6, <3>3
      <4>3. p > o /\ \A q \in S : q > o => q >= p
        BY <3>3, <4>1 DEF IsSuccessor
      <4>4. top >= p
        BY <1>1, <4>2
      <4> HIDE DEF p
      <4> QED
        BY <1>6, <4>2, <4>3, <4>4 DEF IsSuccessor
    <3> QED
      BY <3>1, <3>2, <3>3
  <2>5. ASSUME NEW o \in T PROVE sk'[sk'[o].next].prev = o
    <3>1. CASE o = top
      BY <1>1, <1>6, <3>1
    <3>2. CASE o = lastSk
      BY <1>1, <1>6, <3>2
    <3>3. CASE o \in S /\ o # lastSk
      <4>1. IsSuccessor(sk[o].next, o) /\ sk[sk[o].next].prev = o
        BY <3>3 DEF SkInv, SkListCircular
      <4>2. sk[o].next # firstSk
        BY <1>1, <1>4, <2>2, <3>3, <4>1 DEF IsSuccessor
      <4> QED
        BY <1>1, <1>4, <1>6, <3>3, <4>1, <4>2
    <3> QED
      BY <3>1, <3>2, <3>3
  <2> QED
    BY <1>1, <1>6, <2>1, <2>3, <2>4, <2>5 DEF SkListCircular
<1>9. OneCellPerDescriptor'
  BY <1>1, <1>2, <1>6 DEF SkInv, OneCellPerDescriptor
<1> QED
  BY <1>7, <1>8, <1>9 DEF SkInv

\* getOrCreate as a whole.
LEMMA GetOrCreateKeepsSkInv ==
    ASSUME SkInv, NEW d \in Descriptors, GetOrCreate(d)
    PROVE  SkInv'
BY ReuseKeepsSkInv, CreateFirstKeepsSkInv, CreateAfterLastKeepsSkInv DEF GetOrCreate

\* Cells of other kinds only move the arena's end.
LEMMA OtherCellsKeepSkInv ==
    ASSUME SkInv, UNCHANGED poolVars, top' \in Nat, top' >= top
    PROVE  SkInv'
<1>1. SkTypeOK'
  <2>1. \A o \in DOMAIN sk : o \in Nat /\ o < top'
    BY DEF SkInv, SkTypeOK
  <2> QED
    BY <2>1 DEF SkInv, SkTypeOK, poolVars
<1>2. SkListCircular'
  BY DEF SkInv, SkListCircular, IsSuccessor, poolVars
<1>3. OneCellPerDescriptor'
  BY DEF SkInv, OneCellPerDescriptor, poolVars
<1> QED
  BY <1>1, <1>2, <1>3 DEF SkInv

-----------------------------------------------------------------------------
(* The writer around the pool *)

LEMMA InitTypeOK == HiveInit => TypeOK /\ SkInv
<1> SUFFICES ASSUME HiveInit PROVE TypeOK /\ SkInv
  OBVIOUS
<1>1. IsKeyTree(tree)
  BY TreeAssumption DEF HiveInit
<1>2. stack \in Seq(FrameType)
  <2>1. tree.root \in DOMAIN tree.keys
    BY <1>1 DEF IsKeyTree
  <2>2. Frame(tree.root) \in FrameType
    BY <2>1 DEF Frame, FrameType, Offsets
  <2> QED
    BY <2>2 DEF HiveInit
<1>3. SkInv
  <2>1. /\ top = 32 /\ DOMAIN sk = {} /\ DOMAIN byDescriptor = {}
        /\ firstSk = NoCellOffset /\ lastSk = NoCellOffset
        /\ sk = [o \in {} |-> {}] /\ byDescriptor = [d \in {} |-> 0]
    BY DEF HiveInit, PoolInit, HBinHeaderSize
  <2>2. SkTypeOK
    BY <2>1 DEF SkTypeOK
  <2> QED
    BY <2>1, <2>2 DEF SkInv, SkListCircular, OneCellPerDescriptor
<1> QED
  BY <1>1, <1>2, <1>3 DEF TypeOK, SkInv

\* What a running call knows of itself and of its key.
LEMMA CallTyped ==
    ASSUME TypeOK, stack # <<>>
    PROVE  /\ Len(stack) \in Nat \ {0}
           /\ Current \in FrameType
           /\ KeyAt(Current.key) \in KeyType(DOMAIN tree.keys)
<1>1. Len(stack) \in Nat \ {0} /\ Current \in FrameType
  BY DEF TypeOK, Current
<1>2. Current.key \in DOMAIN tree.keys
  BY <1>1 DEF FrameType
<1> QED
  BY <1>1, <1>2 DEF TypeOK, IsKeyTree, KeyAt

\* Replacing the innermost frame by another one.
LEMMA UpdateTyped ==
    ASSUME TypeOK, stack # <<>>, UNCHANGED tree,
           NEW f \in FrameType, Update(f)
    PROVE  stack' \in Seq(FrameType')
<1>1. Len(stack) \in 1 .. Len(stack) /\ stack \in Seq(FrameType)
  BY CallTyped DEF TypeOK
<1>2. stack' \in Seq(FrameType)
  BY <1>1 DEF Update
<1>3. FrameType' = FrameType
  BY DEF FrameType
<1> QED
  BY <1>2, <1>3

LEMMA GotoTyped ==
    ASSUME TypeOK, stack # <<>>, UNCHANGED tree,
           NEW at \in {"subkeys", "values", "security", "nk"}, Goto(at)
    PROVE  stack' \in Seq(FrameType')
<1>1. [Current EXCEPT !.at = at] \in FrameType
  BY CallTyped DEF FrameType
<1> QED
  BY <1>1, UpdateTyped DEF Goto

\* A step that writes cells keeps the invariant if it leaves the tree alone, keeps
\* the frames typed and does not move the arena's end backwards.
LEMMA WriteKeepsInv ==
    ASSUME TypeOK, SkInv, UNCHANGED <<poolVars, tree>>,
           stack' \in Seq(FrameType'), top' \in Nat, top' >= top
    PROVE  TypeOK' /\ SkInv'
<1>1. SkInv'
  BY OtherCellsKeepSkInv
<1>2. IsKeyTree(tree)'
  BY DEF TypeOK, IsKeyTree
<1> QED
  BY <1>1, <1>2 DEF TypeOK, SkInv

LEMMA DescendKeepsInv ==
    ASSUME TypeOK, SkInv, Descend
    PROVE  TypeOK' /\ SkInv'
<1> DEFINE subkeys == KeyAt(Current.key).subkeys
           next == subkeys[Len(Current.subkeyOffsets) + 1]
<1>1. stack # <<>> /\ Len(Current.subkeyOffsets) < Len(subkeys)
  BY DEF Descend, Running
<1>2. subkeys \in Seq(DOMAIN tree.keys) /\ Current.subkeyOffsets \in Seq(Nat)
  BY <1>1, CallTyped DEF KeyType, FrameType
<1>3. next \in DOMAIN tree.keys
  BY <1>1, <1>2
<1>4. Frame(next) \in FrameType
  BY <1>3 DEF Frame, FrameType, Offsets
<1>5. stack' = Append(stack, Frame(next)) /\ UNCHANGED <<top, poolVars, tree>>
  BY DEF Descend
<1>6. stack' \in Seq(FrameType')
  <2> HIDE DEF next
  <2>1. stack' \in Seq(FrameType)
    BY <1>4, <1>5 DEF TypeOK
  <2> QED
    BY <2>1, <1>5 DEF FrameType
<1>7. top' \in Nat /\ top' >= top
  BY <1>5 DEF SkInv, SkTypeOK
<1> QED
  BY <1>5, <1>6, <1>7, WriteKeepsInv

LEMMA BuildSubkeyListKeepsInv ==
    ASSUME TypeOK, SkInv, BuildSubkeyList
    PROVE  TypeOK' /\ SkInv'
<1>1. stack # <<>> /\ UNCHANGED <<poolVars, tree>> /\ top \in Nat
  BY DEF BuildSubkeyList, Running, SkInv, SkTypeOK
<1>2. CASE Current.subkeyOffsets = <<>>
  <2>1. Goto("values") /\ top' = top
    BY <1>2 DEF BuildSubkeyList
  <2> QED
    BY <1>1, <2>1, GotoTyped, WriteKeepsInv
<1>3. CASE Current.subkeyOffsets # <<>>
  <2> DEFINE n == 4 + 8 * Len(Current.subkeyOffsets)
             f == [Current EXCEPT !.subkeysOffset = top, !.at = "values"]
  <2>1. top' = top + CellSize(n) /\ Update(f)
    BY <1>3 DEF BuildSubkeyList, Alloc
  <2>2. n \in Nat
    BY <1>1, CallTyped DEF FrameType
  <2>3. CellSize(n) \in Nat
    BY <2>2, CellSizeBound
  <2>4. f \in FrameType
    BY <1>1, CallTyped DEF FrameType, Offsets
  <2>5. stack' \in Seq(FrameType')
    <3> HIDE DEF f
    <3> QED
      BY <1>1, <2>1, <2>4, UpdateTyped
  <2>6. top' \in Nat /\ top' >= top
    <3> HIDE DEF n
    <3> QED
      BY <1>1, <2>1, <2>3
  <2> QED
    BY <1>1, <2>5, <2>6, WriteKeepsInv
<1> QED
  BY <1>2, <1>3

LEMMA BuildValuesListKeepsInv ==
    ASSUME TypeOK, SkInv, BuildValuesList
    PROVE  TypeOK' /\ SkInv'
<1>1. stack # <<>> /\ UNCHANGED <<poolVars, tree>> /\ top \in Nat
  BY DEF BuildValuesList, Running, SkInv, SkTypeOK
<1>2. CASE Current.vkOffsets = <<>>
  <2>1. Goto("security") /\ top' = top
    BY <1>2 DEF BuildValuesList
  <2> QED
    BY <1>1, <2>1, GotoTyped, WriteKeepsInv
<1>3. CASE Current.vkOffsets # <<>>
  <2> DEFINE n == 4 * Len(Current.vkOffsets)
             f == [Current EXCEPT !.valuesOffset = top, !.at = "security"]
  <2>1. top' = top + CellSize(n) /\ Update(f)
    BY <1>3 DEF BuildValuesList, Alloc
  <2>2. n \in Nat
    BY <1>1, CallTyped DEF FrameType
  <2>3. CellSize(n) \in Nat
    BY <2>2, CellSizeBound
  <2>4. f \in FrameType
    BY <1>1, CallTyped DEF FrameType, Offsets
  <2>5. stack' \in Seq(FrameType')
    <3> HIDE DEF f
    <3> QED
      BY <1>1, <2>1, <2>4, UpdateTyped
  <2>6. top' \in Nat /\ top' >= top
    <3> HIDE DEF n
    <3> QED
      BY <1>1, <2>1, <2>3
  <2> QED
    BY <1>1, <2>5, <2>6, WriteKeepsInv
<1> QED
  BY <1>2, <1>3

LEMMA ShareSecurityKeepsInv ==
    ASSUME TypeOK, SkInv, ShareSecurity
    PROVE  TypeOK' /\ SkInv'
<1> DEFINE d == KeyAt(Current.key).security
<1>1. stack # <<>> /\ UNCHANGED tree
  BY DEF ShareSecurity, Running
<1>2. d \in Descriptors \cup {NoSecurity}
  BY <1>1, CallTyped DEF KeyType
<1>3. CASE d = NoSecurity
  <2>1. Goto("nk") /\ UNCHANGED <<top, poolVars>> /\ top \in Nat
    BY <1>3 DEF ShareSecurity, SkInv, SkTypeOK
  <2> QED
    BY <1>1, <2>1, GotoTyped, WriteKeepsInv
<1>4. CASE d # NoSecurity
  <2> DEFINE f == [Current EXCEPT !.securityOffset = byDescriptor'[d], !.at = "nk"]
  <2>1. GetOrCreate(d) /\ Update(f) /\ d \in Descriptors
    BY <1>2, <1>4 DEF ShareSecurity
  <2>2. SkInv'
    BY <2>1, GetOrCreateKeepsSkInv
  <2>3. d \in DOMAIN byDescriptor'
    BY <2>1 DEF GetOrCreate, Reuse, CreateFirst, CreateAfterLast, Remember
  <2>4. byDescriptor'[d] \in Nat
    BY <2>2, <2>3 DEF SkInv, SkTypeOK
  <2>5. f \in FrameType
    <3> HIDE DEF d
    <3> QED
      BY <1>1, <2>4, CallTyped DEF FrameType, Offsets
  <2>6. stack' \in Seq(FrameType')
    <3> HIDE DEF f
    <3> QED
      BY <1>1, <2>1, <2>5, UpdateTyped
  <2>7. IsKeyTree(tree)'
    BY <1>1 DEF TypeOK, IsKeyTree
  <2> QED
    BY <2>2, <2>6, <2>7 DEF TypeOK, SkInv
<1> QED
  BY <1>3, <1>4

\* A value longer than a segment has at least one segment.
LEMMA SegmentCount ==
    ASSUME NEW data \in Seq(0 .. 255), Len(data) > DBSegmentMaxSize
    PROVE  /\ Len(Segments(data)) \in Nat \ {0}
           /\ Len(Segments(data)[Len(Segments(data))]) \in Nat
<1> DEFINE S == DBSegmentMaxSize
           count == (Len(data) + S - 1) \div S
           end(i) == IF i * S > Len(data) THEN Len(data) ELSE i * S
           segment(i) == SubSeq(data, (i - 1) * S + 1, end(i))
<1>1. S \in Nat \ {0} /\ Len(data) \in Nat
  BY HiveAssumption
<1>2. count \in Nat \ {0}
  <2>1. ASSUME NEW a \in Nat, NEW b \in Nat \ {0}, a >= b
        PROVE  a \div b \in Nat \ {0}
    BY <2>1, Z3
  <2>2. Len(data) + S - 1 \in Nat /\ Len(data) + S - 1 >= S
    BY <1>1
  <2> HIDE DEF S
  <2> QED
    BY <1>1, <2>1, <2>2
<1>3. Segments(data) = [i \in 1 .. count |-> segment(i)]
  BY DEF Segments
<1> HIDE DEF count, S, segment
<1>4. Len(Segments(data)) = count
  BY <1>2, <1>3
<1>5. Segments(data)[count] = segment(count)
  BY <1>2, <1>3
<1>6. Len(segment(count)) \in Nat
  <2>1. ASSUME NEW m \in Int, NEW n \in Int PROVE Len(SubSeq(data, m, n)) \in Nat
    OBVIOUS
  <2>2. (count - 1) * S + 1 \in Int /\ end(count) \in Int
    BY <1>1, <1>2
  <2> HIDE DEF end
  <2> QED
    BY <2>1, <2>2 DEF segment
<1> QED
  BY <1>2, <1>4, <1>5, <1>6

\* The vk cell of a value lies behind the cells of its data.
LEMMA StoredBehindTop ==
    ASSUME NEW v \in ValueType, top \in Nat
    PROVE  StoredValue(v).vkAt \in Nat /\ StoredValue(v).vkAt >= top
<1>1. v.data \in Seq(0 .. 255) /\ Len(v.data) \in Nat
  BY DEF ValueType
<1>2. NoData(v).vkAt = top /\ InlineData(v).vkAt = top
  BY DEF NoData, InlineData
<1>3. PlainData(v).vkAt \in Nat /\ PlainData(v).vkAt >= top
  <2>1. PlainData(v).vkAt = top + CellSize(Len(v.data))
    BY DEF PlainData
  <2>2. CellSize(Len(v.data)) \in Nat
    BY <1>1, CellSizeBound
  <2> QED
    BY <2>1, <2>2
<1>4. ASSUME Len(v.data) > DBSegmentMaxSize
      PROVE  BigData(v).vkAt \in Nat /\ BigData(v).vkAt >= top
  <2> DEFINE n == Len(Segments(v.data))
             full == CellSize(DBSegmentMaxSize)
             partial == CellSize(Len(Segments(v.data)[n]))
             list == CellSize(4 * n)
             db == CellSize(12)
  <2>1. n \in Nat \ {0} /\ Len(Segments(v.data)[n]) \in Nat
    BY <1>1, <1>4, SegmentCount
  <2>2. full \in Nat /\ partial \in Nat /\ list \in Nat /\ db \in Nat
    <3>1. DBSegmentMaxSize \in Nat /\ 4 * n \in Nat /\ 12 \in Nat
      BY <2>1, HiveAssumption
    <3> QED
      BY <2>1, <3>1, CellSizeBound
  <2>3. BigData(v).vkAt = top + (n - 1) * full + partial + list + db
    BY DEF BigData
  <2>4. (n - 1) * full \in Nat
    <3>1. ASSUME NEW a \in Nat, NEW b \in Nat PROVE a * b \in Nat
      OBVIOUS
    <3>2. n - 1 \in Nat
      BY <2>1
    <3> HIDE DEF n, full
    <3> QED
      BY <2>2, <3>1, <3>2
  <2> DEFINE before == (n - 1) * full
  <2> HIDE DEF n, full, partial, list, db
  <2>5. BigData(v).vkAt = top + before + partial + list + db
    BY <2>3
  <2> HIDE DEF before
  <2> QED
    BY <2>2, <2>4, <2>5 DEF before
<1> DEFINE n == Len(v.data)
<1>5. StoredValue(v) = IF n = 0 THEN NoData(v)
                  ELSE IF n \in {1, 2, 4} THEN InlineData(v)
                  ELSE IF n <= DBSegmentMaxSize THEN PlainData(v) ELSE BigData(v)
  BY DEF StoredValue
<1>6. n <= DBSegmentMaxSize \/ n > DBSegmentMaxSize
  BY <1>1, HiveAssumption
<1> HIDE DEF n
<1>7. CASE n = 0 \/ n \in {1, 2, 4}
  BY <1>2, <1>5, <1>7
<1>8. CASE n \notin {0, 1, 2, 4} /\ n <= DBSegmentMaxSize
  BY <1>3, <1>5, <1>8
<1>9. CASE n \notin {0, 1, 2, 4} /\ n > DBSegmentMaxSize
  <2>1. ~(n <= DBSegmentMaxSize)
    BY <1>1, <1>9, HiveAssumption DEF n
  <2>2. StoredValue(v) = BigData(v)
    BY <1>5, <1>9, <2>1
  <2> QED
    BY <1>4, <1>9, <2>2 DEF n
<1> QED
  BY <1>6, <1>7, <1>8, <1>9

LEMMA BuildValueKeepsInv ==
    ASSUME TypeOK, SkInv, BuildValue
    PROVE  TypeOK' /\ SkInv'
<1> DEFINE values == KeyAt(Current.key).values
           v == values[Len(Current.vkOffsets) + 1]
           at == StoredValue(v).vkAt
           f == [Current EXCEPT !.vkOffsets = Append(@, at)]
<1>1. stack # <<>> /\ UNCHANGED <<poolVars, tree>> /\ top \in Nat
  BY DEF BuildValue, Running, SkInv, SkTypeOK
<1>2. Len(Current.vkOffsets) < Len(values) /\ Update(f) /\ top' = at + VkSize(v)
  BY DEF BuildValue, Alloc
<1>3. v \in ValueType
  <2>1. values \in Seq(ValueType) /\ Len(Current.vkOffsets) \in Nat
    BY <1>1, CallTyped DEF KeyType, FrameType
  <2> QED
    BY <1>2, <2>1
<1> HIDE DEF v
<1>4. at \in Nat /\ at >= top
  BY <1>1, <1>3, StoredBehindTop
<1>5. VkSize(v) \in Nat
  <2>1. 20 + v.nameLen \in Nat
    BY <1>3 DEF ValueType
  <2> QED
    BY <2>1, CellSizeBound DEF VkSize
<1> HIDE DEF at
<1>6. f \in FrameType
  <2>1. Current \in FrameType /\ Current.vkOffsets \in Seq(Nat)
    BY <1>1, CallTyped DEF FrameType
  <2>2. Append(Current.vkOffsets, at) \in Seq(Nat)
    BY <1>4, <2>1
  <2> QED
    BY <2>1, <2>2 DEF FrameType
<1>7. stack' \in Seq(FrameType')
  <2> HIDE DEF f
  <2> QED
    BY <1>1, <1>2, <1>6, UpdateTyped
<1>8. top' \in Nat /\ top' >= top
  BY <1>1, <1>2, <1>4, <1>5
<1> QED
  BY <1>1, <1>7, <1>8, WriteKeepsInv

LEMMA BuildNkKeepsInv ==
    ASSUME TypeOK, SkInv, BuildNk
    PROVE  TypeOK' /\ SkInv'
<1> DEFINE k == KeyAt(Current.key)
           class == k.class # NoClassName
           at == IF class THEN top + CellSize(k.class) ELSE top
<1>1. stack # <<>> /\ UNCHANGED <<poolVars, tree>> /\ top \in Nat
  BY DEF BuildNk, Running, SkInv, SkTypeOK
<1>2. top' = at + CellSize(76 + k.nameLen) /\ ReturnOffset(at)
  BY DEF BuildNk
<1>3. k.class \in Nat \cup {NoClassName} /\ k.nameLen \in Nat
  BY <1>1, CallTyped DEF KeyType
<1> HIDE DEF k
<1>4. at \in Nat /\ at >= top
  <2>1. class => CellSize(k.class) \in Nat
    BY <1>3, CellSizeBound
  <2> QED
    BY <1>1, <2>1
<1>5. CellSize(76 + k.nameLen) \in Nat
  BY <1>3, CellSizeBound
<1> HIDE DEF at
<1>6. top' \in Nat /\ top' >= top
  BY <1>1, <1>2, <1>4, <1>5
<1>7. stack' \in Seq(FrameType')
  <2>1. CASE Len(stack) = 1
    BY <1>2, <2>1 DEF ReturnOffset
  <2>2. CASE Len(stack) # 1
    <3> DEFINE n == Len(stack) - 1
               below == SubSeq(stack, 1, n)
               f == [below[n] EXCEPT !.subkeyOffsets = Append(@, at)]
    <3>1. n \in Nat \ {0} /\ Len(stack) \in Nat /\ n <= Len(stack)
      BY <1>1, <2>2, CallTyped
    <3>2. below \in Seq(FrameType) /\ Len(below) = n
      <4> HIDE DEF n
      <4> QED
        BY <3>1 DEF TypeOK
    <3>3. below[n] \in FrameType
      BY <3>1, <3>2
    <3>4. f \in FrameType
      <4> HIDE DEF n, below
      <4>1. below[n].subkeyOffsets \in Seq(Nat)
        BY <3>3 DEF FrameType
      <4>2. Append(below[n].subkeyOffsets, at) \in Seq(Nat)
        BY <1>4, <4>1
      <4> QED
        BY <3>3, <4>2 DEF FrameType
    <3>5. stack' = [below EXCEPT ![n] = f]
      BY <1>2, <2>2 DEF ReturnOffset
    <3> HIDE DEF n, below, f
    <3>6. stack' \in Seq(FrameType)
      BY <3>1, <3>2, <3>4, <3>5
    <3> QED
      BY <1>1, <3>6 DEF FrameType
  <2> QED
    BY <2>1, <2>2
<1> QED
  BY <1>1, <1>6, <1>7, WriteKeepsInv

\* Whatever the tree, and however much of it is written: the security cells are
\* one circular doubly linked list in the order they were added, with one cell per
\* descriptor (skPool.getOrCreate called from buildKeyCell).
THEOREM SecurityCellsCircular == HiveSpec => [](TypeOK /\ SkInv)
<1>1. HiveInit => TypeOK /\ SkInv
  BY InitTypeOK
<1>2. TypeOK /\ SkInv /\ [HiveNext]_hiveVars => TypeOK' /\ SkInv'
  <2> SUFFICES ASSUME TypeOK, SkInv, [HiveNext]_hiveVars PROVE TypeOK' /\ SkInv'
    OBVIOUS
  <2>1. CASE UNCHANGED hiveVars
    <3>1. UNCHANGED <<poolVars, tree, stack, top>>
      BY <2>1 DEF hiveVars, poolVars
    <3>2. stack' \in Seq(FrameType')
      BY <3>1 DEF TypeOK, FrameType
    <3>3. top' \in Nat /\ top' >= top
      BY <3>1 DEF SkInv, SkTypeOK
    <3> QED
      BY <3>1, <3>2, <3>3, WriteKeepsInv
  <2> QED
    BY <2>1, DescendKeepsInv, BuildSubkeyListKeepsInv, BuildValueKeepsInv,
       BuildValuesListKeepsInv, ShareSecurityKeepsInv, BuildNkKeepsInv DEF HiveNext
<1> QED
  BY <1>1, <1>2, PTL DEF HiveSpec

\* The two parts by themselves, as the run checks them.
COROLLARY OneCircularList == HiveSpec => [](SkListCircular /\ OneCellPerDescriptor)
<1>1. SkInv => SkListCircular /\ OneCellPerDescriptor
  BY DEF SkInv
<1> QED
  BY <1>1, SecurityCellsCircular, PTL
-----------------------------------------------------------------------------
(* Reference counts *)

\* What the reference count of the security cell at o counts: the nk cells that
\* name it, and the calls that have it in hand.
Users(o) == {n \in NkOffsets : cells[n].securityOffset = o}
Holders(o) == {i \in 1 .. Len(stack) : stack[i].securityOffset = o}

SecurityOffsets == DOMAIN sk \cup {NoCellOffset}

\* Every cell lies below the arena's end, and names no security cell that is not there.
CellsWritten ==
    \A o \in DOMAIN cells :
        /\ o \in Nat /\ o < top
        /\ "kind" \in DOMAIN cells[o]
        /\ cells[o].kind = "nk" =>
             /\ "securityOffset" \in DOMAIN cells[o]
             /\ cells[o].securityOffset \in SecurityOffsets

\* Only the innermost call can have a security cell in hand, and only once it is
\* about to write its nk cell.
CellsInHand ==
    \A i \in 1 .. Len(stack) :
        /\ stack[i].securityOffset \in SecurityOffsets
        /\ stack[i].at # "nk" => stack[i].securityOffset = NoCellOffset
        /\ i < Len(stack) => stack[i].at = "subkeys"

CountInv == TypeOK /\ SkInv /\ CellsWritten /\ CellsInHand /\ SkCountsExact

LEMMA UsersFinite ==
    ASSUME CellsWritten, top \in Nat, NEW o
    PROVE  IsFiniteSet(Users(o)) /\ Cardinality(Users(o)) \in Nat
<1>1. Users(o) \subseteq Nat /\ \A n \in Users(o) : n <= top
  BY DEF Users, NkOffsets, CellsWritten
<1> QED
  BY <1>1, FS_BoundedSetOfNaturals, FS_CardinalityType

LEMMA HoldersFinite ==
    ASSUME Len(stack) \in Nat, NEW o
    PROVE  IsFiniteSet(Holders(o)) /\ Cardinality(Holders(o)) \in Nat
<1>1. IsFiniteSet(1 .. Len(stack))
  BY FS_Interval
<1>2. Holders(o) \in SUBSET (1 .. Len(stack))
  BY DEF Holders
<1> QED
  BY <1>1, <1>2, FS_Subset, FS_CardinalityType

\* Cells of other kinds, written behind all there are, change nobody's users.
LEMMA OtherCellsKeepUsers ==
    ASSUME CellsWritten, NEW new, UNCHANGED sk, top \in Nat, top' \in Nat, top' >= top,
           \A o \in DOMAIN new : /\ o \in Nat /\ top <= o /\ o < top'
                                 /\ "kind" \in DOMAIN new[o] /\ new[o].kind # "nk",
           cells' = Join(cells, new)
    PROVE  CellsWritten' /\ \A o : Users(o)' = Users(o)
<1>1. /\ DOMAIN cells' = DOMAIN cells \cup DOMAIN new
      /\ \A o \in DOMAIN cells : o \notin DOMAIN new /\ cells'[o] = cells[o]
      /\ \A o \in DOMAIN new : cells'[o] = new[o]
  BY DEF Join, CellsWritten
<1>2. CellsWritten'
  BY <1>1 DEF CellsWritten, SecurityOffsets
<1>3. NkOffsets' = NkOffsets
  BY <1>1 DEF NkOffsets
<1>4. \A n \in NkOffsets : cells'[n] = cells[n]
  BY <1>1 DEF NkOffsets
<1> QED
  BY <1>2, <1>3, <1>4 DEF Users

\* The innermost call goes on without taking a security cell.
LEMMA GoesOnKeepsHolders ==
    ASSUME TypeOK, stack # <<>>, CellsInHand, UNCHANGED sk, NEW f, Update(f),
           f.securityOffset = Current.securityOffset, Current.at # "nk"
    PROVE  CellsInHand' /\ \A o : Holders(o)' = Holders(o)
<1>1. Len(stack) \in Nat \ {0}
  BY CallTyped
<1>2. /\ Len(stack') = Len(stack)
      /\ stack'[Len(stack)] = f
      /\ \A i \in 1 .. Len(stack) : i # Len(stack) => stack'[i] = stack[i]
  BY <1>1 DEF Update, TypeOK
<1>3. f.securityOffset = NoCellOffset /\ f.securityOffset = stack[Len(stack)].securityOffset
  BY <1>1 DEF CellsInHand, Current
<1>4. CellsInHand'
  BY <1>1, <1>2, <1>3 DEF CellsInHand, SecurityOffsets
<1>5. \A i \in 1 .. Len(stack) : stack'[i].securityOffset = stack[i].securityOffset
  BY <1>1, <1>2, <1>3
<1> QED
  BY <1>2, <1>4, <1>5 DEF Holders

LEMMA SameUsersSameCounts ==
    ASSUME SkCountsExact, UNCHANGED sk,
           \A o : Users(o)' = Users(o), \A o : Holders(o)' = Holders(o)
    PROVE  SkCountsExact'
BY DEF SkCountsExact, Users, Holders

\* A step of the innermost call that writes cells of other kinds, or none.
LEMMA WritingKeepsCounts ==
    ASSUME CountInv, stack # <<>>, Current.at # "nk", UNCHANGED sk,
           NEW f, Update(f), f.securityOffset = Current.securityOffset,
           top' \in Nat, top' >= top,
           \/ UNCHANGED cells
           \/ \E new : /\ cells' = Join(cells, new)
                       /\ \A o \in DOMAIN new : /\ o \in Nat /\ top <= o /\ o < top'
                                                /\ "kind" \in DOMAIN new[o]
                                                /\ new[o].kind # "nk"
    PROVE  CellsWritten' /\ CellsInHand' /\ SkCountsExact'
<1>1. top \in Nat
  BY DEF CountInv, SkInv, SkTypeOK
<1>2. CellsInHand' /\ \A o : Holders(o)' = Holders(o)
  BY GoesOnKeepsHolders DEF CountInv
<1>3. CellsWritten' /\ \A o : Users(o)' = Users(o)
  <2>1. CASE UNCHANGED cells
    <3>1. CellsWritten'
      BY <1>1, <2>1 DEF CountInv, CellsWritten, SecurityOffsets
    <3> QED
      BY <2>1, <3>1 DEF Users, NkOffsets
  <2>2. CASE ~UNCHANGED cells
    <3>1. PICK new : /\ cells' = Join(cells, new)
                     /\ \A o \in DOMAIN new : /\ o \in Nat /\ top <= o /\ o < top'
                                              /\ "kind" \in DOMAIN new[o]
                                              /\ new[o].kind # "nk"
      BY <2>2
    <3> QED
      BY <1>1, <3>1, OtherCellsKeepUsers DEF CountInv
  <2> QED
    BY <2>1, <2>2
<1> QED
  BY <1>2, <1>3, SameUsersSameCounts DEF CountInv

\* One new cell at the arena's end.
LEMMA OneCell ==
    ASSUME NEW cell, "kind" \in DOMAIN cell, cell.kind # "nk", top \in Nat, top' \in Nat,
           top < top'
    PROVE  \A o \in DOMAIN CellAt(top, cell) :
             /\ o \in Nat /\ top <= o /\ o < top'
             /\ "kind" \in DOMAIN CellAt(top, cell)[o] /\ CellAt(top, cell)[o].kind # "nk"
BY DEF CellAt

\* A call that has no cell in hand is pushed: nobody's count changes.
LEMMA DescendKeepsCounts ==
    ASSUME CountInv, Descend
    PROVE  CellsWritten' /\ CellsInHand' /\ SkCountsExact'
<1> DEFINE f == Frame(KeyAt(Current.key).subkeys[Len(Current.subkeyOffsets) + 1])
<1>1. /\ stack # <<>> /\ Current.at = "subkeys"
      /\ stack' = Append(stack, f) /\ UNCHANGED <<top, sk, cells>>
  BY DEF Descend, Running, poolVars
<1>2. f.securityOffset = NoCellOffset /\ f.at = "subkeys"
  BY DEF Frame
<1> HIDE DEF f
<1>3. Len(stack) \in Nat \ {0} /\ Current = stack[Len(stack)]
  BY <1>1, CallTyped DEF CountInv, Current
<1>4. /\ Len(stack') = Len(stack) + 1
      /\ stack'[Len(stack) + 1] = f
      /\ \A i \in 1 .. Len(stack) : stack'[i] = stack[i]
  BY <1>1, <1>3 DEF CountInv, TypeOK
<1>5. CellsInHand'
  BY <1>1, <1>2, <1>3, <1>4 DEF CountInv, CellsInHand, SecurityOffsets
<1>6. \A o : Users(o)' = Users(o)
  BY <1>1 DEF Users, NkOffsets
<1>7. \A o \in DOMAIN sk : Holders(o)' = Holders(o)
  <2>1. \A o \in DOMAIN sk : o # NoCellOffset
    BY DEF CountInv, SkInv, SkTypeOK, NoCellOffset
  <2> QED
    BY <1>2, <1>3, <1>4, <2>1 DEF Holders
<1>8. SkCountsExact'
  BY <1>1, <1>6, <1>7 DEF CountInv, SkCountsExact, Users, Holders
<1>9. CellsWritten'
  BY <1>1 DEF CountInv, CellsWritten, SecurityOffsets
<1> QED
  BY <1>5, <1>8, <1>9

LEMMA BuildSubkeyListKeepsCounts ==
    ASSUME CountInv, BuildSubkeyList
    PROVE  CellsWritten' /\ CellsInHand' /\ SkCountsExact'
<1>1. /\ stack # <<>> /\ UNCHANGED sk /\ top \in Nat /\ Current \in FrameType
      /\ Current.at = "subkeys"
  BY CallTyped DEF BuildSubkeyList, Running, poolVars, CountInv, SkInv, SkTypeOK
<1>2. CASE Current.subkeyOffsets = <<>>
  <2> DEFINE f == [Current EXCEPT !.at = "values"]
  <2>1. Update(f) /\ top' = top /\ UNCHANGED cells
    BY <1>2 DEF BuildSubkeyList, Goto
  <2>2. f.securityOffset = Current.securityOffset
    BY <1>1 DEF FrameType
  <2> HIDE DEF f
  <2> QED
    BY <1>1, <2>1, <2>2, WritingKeepsCounts
<1>3. CASE Current.subkeyOffsets # <<>>
  <2> DEFINE n == 4 + 8 * Len(Current.subkeyOffsets)
             cell == [kind |-> "lh", count |-> Field16(Len(Current.subkeyOffsets)),
                      entries |-> Current.subkeyOffsets]
             f == [Current EXCEPT !.subkeysOffset = top, !.at = "values"]
  <2>1. top' = top + CellSize(n) /\ cells' = Join(cells, CellAt(top, cell)) /\ Update(f)
    BY <1>3 DEF BuildSubkeyList, Alloc
  <2>2. n \in Nat
    BY <1>1 DEF FrameType
  <2>3. CellSize(n) \in Nat /\ CellSize(n) > 0
    <3> HIDE DEF n
    <3> QED
      BY <2>2, CellSizeBound
  <2>4. "kind" \in DOMAIN cell /\ cell.kind # "nk"
    OBVIOUS
  <2>5. f.securityOffset = Current.securityOffset
    BY <1>1 DEF FrameType
  <2> HIDE DEF n, cell, f
  <2>6. top' \in Nat /\ top < top'
    BY <1>1, <2>1, <2>3
  <2> QED
    BY <1>1, <2>1, <2>4, <2>5, <2>6, OneCell, WritingKeepsCounts
<1> QED
  BY <1>2, <1>3

LEMMA BuildValuesListKeepsCounts ==
    ASSUME CountInv, BuildValuesList
    PROVE  CellsWritten' /\ CellsInHand' /\ SkCountsExact'
<1>1. /\ stack # <<>> /\ UNCHANGED sk /\ top \in Nat /\ Current \in FrameType
      /\ Current.at = "values"
  BY CallTyped DEF BuildValuesList, Running, poolVars, CountInv, SkInv, SkTypeOK
<1>2. CASE Current.vkOffsets = <<>>
  <2> DEFINE f == [Current EXCEPT !.at = "security"]
  <2>1. Update(f) /\ top' = top /\ UNCHANGED cells
    BY <1>2 DEF BuildValuesList, Goto
  <2>2. f.securityOffset = Current.securityOffset
    BY <1>1 DEF FrameType
  <2> HIDE DEF f
  <2> QED
    BY <1>1, <2>1, <2>2, WritingKeepsCounts
<1>3. CASE Current.vkOffsets # <<>>
  <2> DEFINE n == 4 * Len(Current.vkOffsets)
             cell == [kind |-> "values", entries |-> Current.vkOffsets]
             f == [Current EXCEPT !.valuesOffset = top, !.at = "security"]
  <2>1. top' = top + CellSize(n) /\ cells' = Join(cells, CellAt(top, cell)) /\ Update(f)
    BY <1>3 DEF BuildValuesList, Alloc
  <2>2. n \in Nat
    BY <1>1 DEF FrameType
  <2>3. CellSize(n) \in Nat /\ CellSize(n) > 0
    <3> HIDE DEF n
    <3> QED
      BY <2>2, CellSizeBound
  <2>4. "kind" \in DOMAIN cell /\ cell.kind # "nk"
    OBVIOUS
  <2>5. f.securityOffset = Current.securityOffset
    BY <1>1 DEF FrameType
  <2> HIDE DEF n, cell, f
  <2>6. top' \in Nat /\ top < top'
    BY <1>1, <2>1, <2>3
  <2> QED
    BY <1>1, <2>1, <2>4, <2>5, <2>6, OneCell, WritingKeepsCounts
<1> QED
  BY <1>2, <1>3

LEMMA CellSizePositive == \A n \in Nat : CellSize(n) \in Nat /\ CellSize(n) > 0
<1> SUFFICES ASSUME NEW n \in Nat PROVE CellSize(n) \in Nat /\ CellSize(n) > 0
  OBVIOUS
<1> QED
  BY CellSizeBound

\* The cells of a value's data lie between the arena's end and the vk cell.
LEMMA StoredCells ==
    ASSUME NEW v \in ValueType, top \in Nat
    PROVE  \A o \in DOMAIN StoredValue(v).new :
             /\ o \in Nat /\ top <= o /\ o < StoredValue(v).vkAt
             /\ "kind" \in DOMAIN StoredValue(v).new[o] /\ StoredValue(v).new[o].kind # "nk"
<1>1. v.data \in Seq(0 .. 255) /\ Len(v.data) \in Nat
  BY DEF ValueType
<1>2. DOMAIN NoData(v).new = {} /\ DOMAIN InlineData(v).new = {}
  BY DEF NoData, InlineData
<1>3. /\ DOMAIN PlainData(v).new = {top}
      /\ PlainData(v).new[top] = DataCell(v.data)
      /\ PlainData(v).vkAt = top + CellSize(Len(v.data))
  BY DEF PlainData, CellAt
<1>4. \A bytes : "kind" \in DOMAIN DataCell(bytes) /\ DataCell(bytes).kind # "nk"
  BY DEF DataCell
<1>5. top \in Nat /\ top < PlainData(v).vkAt
  <2>1. CellSize(Len(v.data)) \in Nat /\ CellSize(Len(v.data)) > 0
    BY <1>1, CellSizePositive
  <2> QED
    BY <1>3, <2>1
<1>6. ASSUME Len(v.data) > DBSegmentMaxSize, NEW o \in DOMAIN BigData(v).new
      PROVE  /\ o \in Nat /\ top <= o /\ o < BigData(v).vkAt
             /\ "kind" \in DOMAIN BigData(v).new[o] /\ BigData(v).new[o].kind # "nk"
  <2> DEFINE segments == Segments(v.data)
             n == Len(segments)
             full == CellSize(DBSegmentMaxSize)
             at(i) == top + (i - 1) * full
             listAt == at(n) + CellSize(Len(segments[n]))
             dbAt == listAt + CellSize(4 * n)
             data == [p \in {at(i) : i \in 1 .. n} |->
                        DataCell(segments[CHOOSE i \in 1 .. n : at(i) = p])]
             list == [kind |-> "segments", entries |-> [i \in 1 .. n |-> at(i)]]
             db == [kind |-> "db", numSegments |-> Field16(n), list |-> listAt]
  <2>1. BigData(v).new = Join(data, Join(CellAt(listAt, list), CellAt(dbAt, db)))
        /\ BigData(v).vkAt = dbAt + CellSize(12)
    BY DEF BigData
  <2>2. n \in Nat \ {0} /\ Len(segments[n]) \in Nat
    BY <1>1, <1>6, SegmentCount
  <2>3. /\ full \in Nat
        /\ CellSize(Len(segments[n])) \in Nat /\ CellSize(Len(segments[n])) > 0
        /\ CellSize(4 * n) \in Nat /\ CellSize(4 * n) > 0
        /\ CellSize(12) \in Nat /\ CellSize(12) > 0
    <3>1. DBSegmentMaxSize \in Nat /\ 4 * n \in Nat /\ 12 \in Nat
      BY <2>2, HiveAssumption
    <3> HIDE DEF segments
    <3> QED
      BY <2>2, <3>1, CellSizePositive
  <2>4. "kind" \in DOMAIN list /\ list.kind # "nk" /\ "kind" \in DOMAIN db /\ db.kind # "nk"
    OBVIOUS
  <2>5. \A p \in DOMAIN data : "kind" \in DOMAIN data[p] /\ data[p].kind # "nk"
    <3> HIDE DEF segments
    <3> QED
      BY <1>4
  <2>6. \A i \in 1 .. n : at(i) \in Nat /\ top <= at(i) /\ at(i) <= at(n)
    <3>1. ASSUME NEW a \in Nat, NEW b \in Nat, NEW c \in Nat, a <= b
          PROVE  a * c \in Nat /\ b * c \in Nat /\ a * c <= b * c
      <4>1. b = a + (b - a) /\ b - a \in Nat
        BY <3>1
      <4>2. \A x \in Nat, y \in Nat : x * y \in Nat
        OBVIOUS
      <4>3. b * c = a * c + (b - a) * c
        BY <4>1
      <4> QED
        BY <4>1, <4>2, <4>3
    <3>2. ASSUME NEW i \in 1 .. n PROVE i - 1 \in Nat /\ n - 1 \in Nat /\ i - 1 <= n - 1
      BY <2>2
    <3> HIDE DEF n, full
    <3>3. ASSUME NEW i \in 1 .. n
          PROVE  (i - 1) * full \in Nat /\ (n - 1) * full \in Nat
                 /\ (i - 1) * full <= (n - 1) * full
      BY <2>3, <3>1, <3>2
    <3> QED
      BY <3>3
  <2>7. at(n) \in Nat /\ top <= at(n)
    BY <2>2, <2>6
  <2> HIDE DEF segments, n, full, list, db
  <2>8. \A p \in DOMAIN data : p \in Nat /\ top <= p /\ p <= at(n)
    <3> HIDE DEF at
    <3> QED
      BY <2>6
  <2> HIDE DEF data, at
  <2>9. /\ listAt \in Nat /\ top <= listAt /\ at(n) < listAt
        /\ dbAt \in Nat /\ listAt < dbAt /\ dbAt < BigData(v).vkAt
        /\ BigData(v).vkAt \in Nat
    BY <2>1, <2>3, <2>7
  <2> HIDE DEF listAt, dbAt
  <2>10. o \in DOMAIN data \cup {listAt, dbAt}
    BY <2>1 DEF Join, CellAt
  <2>11. CASE o = dbAt
    <3>1. BigData(v).new[o] = db
      BY <2>1, <2>11 DEF Join, CellAt
    <3> QED
      BY <2>4, <2>9, <2>11, <3>1
  <2>12. CASE o = listAt
    <3>1. BigData(v).new[o] = list
      BY <2>1, <2>9, <2>12 DEF Join, CellAt
    <3> QED
      BY <2>4, <2>9, <2>12, <3>1
  <2>13. CASE o \in DOMAIN data /\ o \notin {listAt, dbAt}
    <3>1. BigData(v).new[o] = data[o]
      BY <2>1, <2>13 DEF Join, CellAt
    <3> QED
      BY <2>5, <2>7, <2>8, <2>9, <2>13, <3>1
  <2> QED
    BY <2>10, <2>11, <2>12, <2>13
<1> DEFINE n == Len(v.data)
<1>7. StoredValue(v) = IF n = 0 THEN NoData(v)
                  ELSE IF n \in {1, 2, 4} THEN InlineData(v)
                  ELSE IF n <= DBSegmentMaxSize THEN PlainData(v) ELSE BigData(v)
  BY DEF StoredValue
<1>8. n <= DBSegmentMaxSize \/ n > DBSegmentMaxSize
  BY <1>1, HiveAssumption
<1> HIDE DEF n
<1>9. CASE n \in {0, 1, 2, 4}
  BY <1>2, <1>7, <1>9
<1>10. CASE n \notin {0, 1, 2, 4} /\ n <= DBSegmentMaxSize
  <2>1. StoredValue(v) = PlainData(v)
    BY <1>7, <1>10
  <2> QED
    BY <1>3, <1>4, <1>5, <2>1
<1>11. CASE n \notin {0, 1, 2, 4} /\ n > DBSegmentMaxSize
  <2>1. ~(n <= DBSegmentMaxSize)
    BY <1>1, <1>11, HiveAssumption DEF n
  <2>2. StoredValue(v) = BigData(v)
    BY <1>7, <1>11, <2>1
  <2> QED
    BY <1>6, <1>11, <2>2 DEF n
<1> QED
  BY <1>8, <1>9, <1>10, <1>11

LEMMA BuildValueKeepsCounts ==
    ASSUME CountInv, BuildValue
    PROVE  CellsWritten' /\ CellsInHand' /\ SkCountsExact'
<1> DEFINE values == KeyAt(Current.key).values
           v == values[Len(Current.vkOffsets) + 1]
           at == StoredValue(v).vkAt
           new == Join(StoredValue(v).new, CellAt(at, StoredValue(v).vk))
           f == [Current EXCEPT !.vkOffsets = Append(@, at)]
<1>1. /\ stack # <<>> /\ UNCHANGED sk /\ top \in Nat /\ Current \in FrameType
      /\ Current.at = "values"
  BY CallTyped DEF BuildValue, Running, poolVars, CountInv, SkInv, SkTypeOK
<1>2. /\ Len(Current.vkOffsets) < Len(values)
      /\ Update(f) /\ top' = at + VkSize(v) /\ cells' = Join(cells, new)
  BY DEF BuildValue, Alloc
<1>3. v \in ValueType
  <2>1. values \in Seq(ValueType) /\ Len(Current.vkOffsets) \in Nat
    BY <1>1, CallTyped DEF KeyType, FrameType, CountInv
  <2> QED
    BY <1>2, <2>1
<1>4. f.securityOffset = Current.securityOffset
  BY <1>1 DEF FrameType
<1>5. "kind" \in DOMAIN StoredValue(v).vk /\ StoredValue(v).vk.kind # "nk"
  <2>1. \A inline, offset : LET c == VkCell(v, inline, offset) IN "kind" \in DOMAIN c /\ c.kind # "nk"
    BY DEF VkCell
  <2>2. \E inline, offset : StoredValue(v).vk = VkCell(v, inline, offset)
    BY DEF StoredValue, NoData, InlineData, PlainData, BigData
  <2> QED
    BY <2>1, <2>2
<1> HIDE DEF f, v
<1>6. at \in Nat /\ at >= top
  BY <1>1, <1>3, StoredBehindTop
<1>7. VkSize(v) \in Nat /\ VkSize(v) > 0
  <2>1. 20 + v.nameLen \in Nat
    BY <1>3 DEF ValueType
  <2> QED
    BY <2>1, CellSizeBound DEF VkSize
<1>8. \A o \in DOMAIN StoredValue(v).new :
        /\ o \in Nat /\ top <= o /\ o < at
        /\ "kind" \in DOMAIN StoredValue(v).new[o] /\ StoredValue(v).new[o].kind # "nk"
  BY <1>1, <1>3, StoredCells
<1> HIDE DEF at
<1>9. top' \in Nat /\ top' >= top /\ at < top'
  BY <1>1, <1>2, <1>6, <1>7
<1>10. \A o \in DOMAIN new : /\ o \in Nat /\ top <= o /\ o < top'
                             /\ "kind" \in DOMAIN new[o] /\ new[o].kind # "nk"
  BY <1>5, <1>6, <1>8, <1>9 DEF Join, CellAt
<1> HIDE DEF new
<1> QED
  BY <1>1, <1>2, <1>4, <1>9, <1>10, WritingKeepsCounts

\* What getOrCreate does to the counts: one more for the cell it returns, which is
\* one that was there before or a new one at the arena's end.
LEMMA GetOrCreateCounts ==
    ASSUME SkInv, NEW d \in Descriptors, GetOrCreate(d)
    PROVE  /\ d \in DOMAIN byDescriptor' /\ byDescriptor'[d] \in DOMAIN sk'
           /\ \A p \in DOMAIN sk \ {byDescriptor'[d]} : sk'[p].refCount = sk[p].refCount
           /\ \/ /\ DOMAIN sk' = DOMAIN sk
                 /\ sk'[byDescriptor'[d]].refCount = sk[byDescriptor'[d]].refCount + 1
              \/ /\ byDescriptor'[d] = top /\ top \notin DOMAIN sk
                 /\ DOMAIN sk' = DOMAIN sk \cup {top}
                 /\ sk'[top].refCount = 1
           /\ top' \in Nat /\ top' >= top
<1>1. top \in Nat /\ top \notin DOMAIN sk
  BY DEF SkInv, SkTypeOK
<1>2. SkSize(d) \in Nat
  BY SkSizePositive
<1>3. CASE Reuse(d)
  <2>1. byDescriptor[d] \in DOMAIN sk
    BY <1>3 DEF Reuse, SkInv, SkTypeOK
  <2>2. sk \in [DOMAIN sk -> [prev : DOMAIN sk, next : DOMAIN sk,
                              refCount : Nat \ {0}, descriptor : Descriptors]]
    BY DEF SkInv, SkTypeOK
  <2> QED
    BY <1>1, <1>3, <2>1, <2>2 DEF Reuse
<1>4. CASE CreateFirst(d)
  BY <1>1, <1>2, <1>4 DEF CreateFirst, Remember
<1>5. CASE CreateAfterLast(d)
  <2>1. ASSUME NEW p \in DOMAIN sk PROVE sk'[p].refCount = sk[p].refCount
    <3>1. sk[p] \in [prev : DOMAIN sk, next : DOMAIN sk,
                     refCount : Nat \ {0}, descriptor : Descriptors]
      BY DEF SkInv, SkTypeOK
    <3>2. sk'[p] = [sk[p] EXCEPT !.next = IF p = lastSk THEN top ELSE @,
                                 !.prev = IF p = firstSk THEN top ELSE @]
      BY <1>1, <1>5 DEF CreateAfterLast
    <3> QED
      BY <3>1, <3>2
  <2>2. DOMAIN sk' = DOMAIN sk \cup {top} /\ sk'[top].refCount = 1
    BY <1>1, <1>5 DEF CreateAfterLast
  <2>3. DOMAIN byDescriptor' = DOMAIN byDescriptor \cup {d} /\ byDescriptor'[d] = top
    BY <1>5 DEF CreateAfterLast, Remember
  <2>4. top' \in Nat /\ top' >= top
    <3>1. top' = top + SkSize(d)
      BY <1>5 DEF CreateAfterLast
    <3> QED
      BY <1>1, <1>2, <3>1
  <2> QED
    BY <1>1, <2>1, <2>2, <2>3, <2>4
<1> QED
  BY <1>3, <1>4, <1>5 DEF GetOrCreate

LEMMA ShareSecurityKeepsCounts ==
    ASSUME CountInv, ShareSecurity
    PROVE  CellsWritten' /\ CellsInHand' /\ SkCountsExact'
<1> DEFINE d == KeyAt(Current.key).security
<1>1. /\ stack # <<>> /\ UNCHANGED cells /\ top \in Nat /\ Current \in FrameType
      /\ Current.at = "security"
  BY CallTyped DEF ShareSecurity, Running, CountInv, SkInv, SkTypeOK
<1>2. d \in Descriptors \cup {NoSecurity}
  BY <1>1, CallTyped DEF KeyType, CountInv
<1>3. CASE d = NoSecurity
  <2> DEFINE f == [Current EXCEPT !.at = "nk"]
  <2>1. Update(f) /\ top' = top /\ UNCHANGED sk
    BY <1>3 DEF ShareSecurity, Goto, poolVars
  <2>2. f.securityOffset = Current.securityOffset
    BY <1>1 DEF FrameType
  <2> HIDE DEF f
  <2> QED
    BY <1>1, <2>1, <2>2, WritingKeepsCounts
<1>4. CASE d # NoSecurity
  <2> DEFINE o == byDescriptor'[d]
             f == [Current EXCEPT !.securityOffset = o, !.at = "nk"]
             n == Len(stack)
  <2>1. GetOrCreate(d) /\ Update(f) /\ d \in Descriptors
    BY <1>2, <1>4 DEF ShareSecurity
  <2>2. f.securityOffset = o /\ f.at = "nk"
    BY <1>1 DEF FrameType
  <2> HIDE DEF f, d
  <2>3. /\ o \in DOMAIN sk' /\ DOMAIN sk \subseteq DOMAIN sk' /\ o \in DOMAIN sk \cup {top}
        /\ \A p \in DOMAIN sk \ {o} : sk'[p].refCount = sk[p].refCount
        /\ DOMAIN sk' = DOMAIN sk \cup {o}
        /\ o \in DOMAIN sk => sk'[o].refCount = sk[o].refCount + 1
        /\ o \notin DOMAIN sk => sk'[o].refCount = 1
        /\ o \in Nat /\ NoCellOffset \notin Nat
        /\ top' \in Nat /\ top' >= top
    <3>1. /\ SkInv /\ DOMAIN sk \subseteq Nat /\ top \notin DOMAIN sk
          /\ sk \in [DOMAIN sk -> [prev : DOMAIN sk, next : DOMAIN sk,
                                 refCount : Nat \ {0}, descriptor : Descriptors]]
      BY DEF CountInv, SkInv, SkTypeOK
    <3>2. /\ o \in DOMAIN sk'
          /\ \A p \in DOMAIN sk \ {o} : sk'[p].refCount = sk[p].refCount
          /\ \/ /\ DOMAIN sk' = DOMAIN sk
                /\ sk'[o].refCount = sk[o].refCount + 1
             \/ /\ o = top /\ top \notin DOMAIN sk
                /\ DOMAIN sk' = DOMAIN sk \cup {top}
                /\ sk'[top].refCount = 1
          /\ top' \in Nat /\ top' >= top
      BY <2>1, <3>1, GetOrCreateCounts
    <3> HIDE DEF o
    <3>3. NoCellOffset \notin Nat
      BY DEF NoCellOffset
    <3>4. o \in DOMAIN sk \cup {top} /\ DOMAIN sk' = DOMAIN sk \cup {o}
      BY <3>2
    <3>5. o \in Nat
      BY <1>1, <3>1, <3>4
    <3> QED
      BY <3>1, <3>2, <3>3, <3>4, <3>5
  <2> HIDE DEF o
  <2>4. /\ n \in Nat \ {0} /\ stack[n] = Current
        /\ Len(stack') = n /\ stack'[n] = f
        /\ \A i \in 1 .. n : i # n => stack'[i] = stack[i]
    BY <1>1, <2>1, CallTyped DEF CountInv, TypeOK, Update, Current
  <2>5. stack[n].securityOffset = NoCellOffset
    BY <1>1, <2>4 DEF CountInv, CellsInHand
  <2>6. CellsWritten'
    BY <1>1, <2>3 DEF CountInv, CellsWritten, SecurityOffsets
  <2>7. CellsInHand'
    BY <2>2, <2>3, <2>4 DEF CountInv, CellsInHand, SecurityOffsets
  <2>8. ASSUME NEW p \in DOMAIN sk'
        PROVE  sk'[p].refCount = Cardinality(Users(p)') + Cardinality(Holders(p)')
    <3>1. Users(p)' = Users(p)
      BY <1>1 DEF Users, NkOffsets
    <3>2. /\ Cardinality(Users(p)) \in Nat /\ Cardinality(Holders(p)) \in Nat
          /\ IsFiniteSet(Holders(p))
      BY <1>1, <2>4, UsersFinite, HoldersFinite DEF CountInv
    <3>3. CASE p # o
      <4>1. Holders(p)' = Holders(p)
        <5>1. p # NoCellOffset
          BY <2>3, <3>3 DEF CountInv, SkInv, SkTypeOK
        <5> QED
          BY <2>2, <2>4, <2>5, <3>3, <5>1 DEF Holders
      <4> QED
        BY <2>3, <3>1, <3>3, <4>1 DEF CountInv, SkCountsExact, Users, Holders
    <3>4. CASE p = o
      <4>1. Holders(p)' = Holders(p) \cup {n} /\ n \notin Holders(p)
        BY <2>2, <2>3, <2>4, <2>5, <3>4 DEF Holders
      <4>2. Cardinality(Holders(p)') = Cardinality(Holders(p)) + 1
        BY <3>2, <4>1, FS_AddElement
      <4>3. CASE o \in DOMAIN sk
        <5>1. sk[o].refCount = Cardinality(Users(o)) + Cardinality(Holders(o))
          BY <4>3 DEF CountInv, SkCountsExact, Users, Holders
        <5> QED
          BY <2>3, <3>1, <3>2, <3>4, <4>2, <4>3, <5>1
      <4>4. CASE o \notin DOMAIN sk
        <5>1. Users(o) = {}
          BY <2>3, <4>4 DEF Users, NkOffsets, CountInv, CellsWritten, SecurityOffsets
        <5>2. Holders(o) = {}
          BY <2>3, <4>4 DEF Holders, CountInv, CellsInHand, SecurityOffsets
        <5> QED
          BY <2>3, <3>1, <3>4, <4>2, <4>4, <5>1, <5>2, FS_EmptySet
      <4> QED
        BY <4>3, <4>4
    <3> QED
      BY <3>3, <3>4
  <2> QED
    BY <2>6, <2>7, <2>8 DEF SkCountsExact, Users, Holders
<1> QED
  BY <1>3, <1>4

\* The cell the innermost call has in hand passes from it to its nk cell.
LEMMA BuildNkKeepsCounts ==
    ASSUME CountInv, BuildNk
    PROVE  CellsWritten' /\ CellsInHand' /\ SkCountsExact'
<1> DEFINE k == KeyAt(Current.key)
           class == k.class # NoClassName
           at == IF class THEN top + CellSize(k.class) ELSE top
           nk == NkCell(IF class THEN top ELSE NoCellOffset)
           classCell == [kind |-> "class", len |-> k.class]
           new == IF class THEN Join(CellAt(top, classCell), CellAt(at, nk)) ELSE CellAt(at, nk)
           all == Join(cells, new)
           n == Len(stack)
<1>1. /\ stack # <<>> /\ UNCHANGED sk /\ top \in Nat /\ Current \in FrameType /\ Current.at = "nk"
      /\ n \in Nat \ {0} /\ Current = stack[n]
      /\ k \in KeyType(DOMAIN tree.keys)
  BY CallTyped DEF BuildNk, Running, poolVars, CountInv, SkInv, SkTypeOK, Current
<1>2. cells' = PatchParent(all, at) /\ top' = at + CellSize(76 + k.nameLen) /\ ReturnOffset(at)
  BY DEF BuildNk
<1>3. k.class \in Nat \cup {NoClassName} /\ k.nameLen \in Nat
  BY <1>1 DEF KeyType
<1>4. /\ "kind" \in DOMAIN nk /\ nk.kind = "nk"
      /\ "securityOffset" \in DOMAIN nk /\ nk.securityOffset = Current.securityOffset
  BY DEF NkCell
<1>5. "kind" \in DOMAIN classCell /\ classCell.kind # "nk"
  OBVIOUS
<1> HIDE DEF k, nk, classCell
<1>6. /\ at \in Nat /\ top <= at /\ (class => top < at)
      /\ top' \in Nat /\ at < top'
  <2>1. class => CellSize(k.class) \in Nat /\ CellSize(k.class) > 0
    BY <1>3, CellSizePositive
  <2>2. CellSize(76 + k.nameLen) \in Nat /\ CellSize(76 + k.nameLen) > 0
    BY <1>3, CellSizePositive
  <2> QED
    BY <1>1, <1>2, <2>1, <2>2
<1>7. /\ at \in DOMAIN new /\ new[at] = nk
      /\ \A o \in DOMAIN new \ {at} : o = top /\ new[o] = classCell /\ top < at
  BY <1>6 DEF Join, CellAt
<1> HIDE DEF at, class, new
<1>8. /\ DOMAIN all = DOMAIN cells \cup DOMAIN new
      /\ at \notin DOMAIN cells
      /\ \A o \in DOMAIN cells : all[o] = cells[o]
      /\ \A o \in DOMAIN new : all[o] = new[o]
  <2>1. \A o \in DOMAIN cells : o \in Nat /\ o < top
    BY DEF CountInv, CellsWritten
  <2>2. at \notin DOMAIN cells /\ top \notin DOMAIN cells
    BY <1>1, <1>6, <2>1
  <2>3. \A o \in DOMAIN cells : o \notin DOMAIN new
    BY <1>7, <2>2
  <2> QED
    BY <2>2, <2>3 DEF Join
<1>9. /\ DOMAIN cells' = DOMAIN all
      /\ \A o \in DOMAIN all : \/ cells'[o] = all[o]
                               \/ cells'[o] = [all[o] EXCEPT !.parent = at]
  BY <1>2 DEF PatchParent
<1>10. ASSUME NEW o \in DOMAIN all
       PROVE  /\ "kind" \in DOMAIN cells'[o] /\ cells'[o].kind = all[o].kind
              /\ all[o].kind = "nk" =>
                   /\ "securityOffset" \in DOMAIN cells'[o]
                   /\ cells'[o].securityOffset = all[o].securityOffset
  <2>1. /\ "kind" \in DOMAIN all[o]
        /\ all[o].kind = "nk" => "securityOffset" \in DOMAIN all[o]
    BY <1>4, <1>5, <1>7, <1>8 DEF CountInv, CellsWritten
  <2> HIDE DEF all
  <2> QED
    BY <1>9, <2>1
<1>11. Current.securityOffset \in SecurityOffsets
  BY <1>1 DEF CountInv, CellsInHand
<1>12. NkOffsets' = NkOffsets \cup {at} /\ at \notin NkOffsets
  BY <1>4, <1>5, <1>7, <1>8, <1>9, <1>10 DEF NkOffsets
<1>13. /\ cells'[at].securityOffset = Current.securityOffset
       /\ \A o \in NkOffsets : cells'[o].securityOffset = cells[o].securityOffset
  BY <1>4, <1>7, <1>8, <1>10 DEF NkOffsets
<1>14. CellsWritten'
  <2> SUFFICES ASSUME NEW o \in DOMAIN cells'
               PROVE  /\ o \in Nat /\ o < top'
                      /\ "kind" \in DOMAIN cells'[o]
                      /\ cells'[o].kind = "nk" =>
                           /\ "securityOffset" \in DOMAIN cells'[o]
                           /\ cells'[o].securityOffset \in SecurityOffsets
    BY <1>1 DEF CellsWritten, SecurityOffsets
  <2>1. o \in Nat /\ o < top'
    BY <1>1, <1>6, <1>7, <1>8, <1>9 DEF CountInv, CellsWritten
  <2>2. cells'[o].kind = "nk" => o \in NkOffsets \cup {at}
    BY <1>12 DEF NkOffsets
  <2>3. \A p \in NkOffsets : cells[p].securityOffset \in SecurityOffsets
    BY DEF NkOffsets, CountInv, CellsWritten
  <2> HIDE DEF all
  <2> QED
    BY <1>9, <1>10, <1>11, <1>13, <2>1, <2>2, <2>3
<1>15. /\ Len(stack') = n - 1
       /\ \A i \in 1 .. n - 1 : /\ stack'[i].securityOffset = stack[i].securityOffset
                                /\ stack'[i].at = stack[i].at
  <2>1. stack \in Seq(FrameType) /\ FrameType # {}
    BY <1>1 DEF CountInv, TypeOK
  <2>2. CASE n = 1
    BY <1>1, <1>2, <2>2 DEF ReturnOffset
  <2>3. CASE n # 1
    <3> DEFINE below == SubSeq(stack, 1, n - 1)
               f == [below[n - 1] EXCEPT !.subkeyOffsets = Append(@, at)]
    <3>1. /\ Len(below) = n - 1
          /\ \A i \in 1 .. n - 1 : below[i] = stack[i] /\ below[i] \in FrameType
      <4>1. n \in Nat /\ n - 1 \in 1 .. n
        <5>1. n \in Nat \ {0}
          BY <1>1
        <5> HIDE DEF n
        <5> QED
          BY <5>1, <2>3
      <4> HIDE DEF n
      <4>2. Len(below) = n - 1
        BY <2>1, <4>1
      <4>3. \A i \in 1 .. n - 1 : below[i] = stack[i]
        BY <2>1, <4>1
      <4>4. \A i \in 1 .. n - 1 : stack[i] \in FrameType
        <5>1. DOMAIN stack = 1 .. n
          BY <2>1 DEF n
        <5>2. \A i \in DOMAIN stack : stack[i] \in FrameType
          BY <2>1
        <5> QED
          BY <4>1, <5>1, <5>2
      <4> HIDE DEF below
      <4> QED
        BY <4>2, <4>3, <4>4
    <3>2. stack' = [below EXCEPT ![n - 1] = f]
      BY <1>2, <2>3 DEF ReturnOffset
    <3>3. DOMAIN below = 1 .. n - 1
      BY <1>1, <2>1, <2>3
    <3>4. f.securityOffset = below[n - 1].securityOffset /\ f.at = below[n - 1].at
      BY <1>1, <2>3, <3>1 DEF FrameType
    <3> HIDE DEF below, f
    <3>5. DOMAIN stack' = 1 .. n - 1 /\ n - 1 \in Nat
      BY <1>1, <3>2, <3>3
    <3>6. Len(stack') = n - 1
      <4>1. stack' \in Seq(FrameType')
        BY BuildNkKeepsInv DEF CountInv, TypeOK
      <4> QED
        BY <3>5, <4>1
    <3>7. ASSUME NEW i \in 1 .. n - 1
          PROVE  stack'[i].securityOffset = stack[i].securityOffset /\ stack'[i].at = stack[i].at
      BY <1>1, <2>3, <3>1, <3>2, <3>3, <3>4
    <3> QED
      BY <3>6, <3>7
  <2> QED
    BY <2>2, <2>3
<1>16. CellsInHand'
  <2>1. SecurityOffsets' = SecurityOffsets
    BY <1>1 DEF SecurityOffsets
  <2>2. ASSUME NEW i \in 1 .. n
        PROVE  /\ stack[i].securityOffset \in SecurityOffsets
               /\ stack[i].at # "nk" => stack[i].securityOffset = NoCellOffset
               /\ i < n => stack[i].at = "subkeys"
    BY <1>1 DEF CountInv, CellsInHand
  <2>3. \A i \in 1 .. n - 1 : i \in 1 .. n /\ i < n
    BY <1>1
  <2> HIDE DEF n
  <2>4. ASSUME NEW i \in 1 .. n - 1
        PROVE  /\ stack'[i].securityOffset \in SecurityOffsets
               /\ stack'[i].at # "nk" => stack'[i].securityOffset = NoCellOffset
               /\ stack'[i].at = "subkeys"
    BY <1>15, <2>2, <2>3
  <2> QED
    BY <1>15, <2>1, <2>4 DEF CellsInHand
<1>17. ASSUME NEW o \in DOMAIN sk
       PROVE  Cardinality(Users(o)') + Cardinality(Holders(o)') =
                Cardinality(Users(o)) + Cardinality(Holders(o))
  <2>1. /\ IsFiniteSet(Users(o)) /\ Cardinality(Users(o)) \in Nat
        /\ IsFiniteSet(Holders(o)) /\ Cardinality(Holders(o)) \in Nat
    BY <1>1, UsersFinite, HoldersFinite DEF CountInv
  <2>2. CASE Current.securityOffset = o
    <3>1. Users(o)' = Users(o) \cup {at} /\ at \notin Users(o)
      BY <1>12, <1>13, <2>2 DEF Users
    <3>2. Holders(o)' = Holders(o) \ {n} /\ n \in Holders(o)
      BY <1>1, <1>15, <2>2 DEF Holders
    <3>3. Cardinality(Users(o)') = Cardinality(Users(o)) + 1
      BY <2>1, <3>1, FS_AddElement
    <3>4. Cardinality(Holders(o)') = Cardinality(Holders(o)) - 1
      BY <2>1, <3>2, FS_RemoveElement
    <3> QED
      BY <2>1, <3>3, <3>4
  <2>3. CASE Current.securityOffset # o
    <3>1. Users(o)' = Users(o)
      BY <1>12, <1>13, <2>3 DEF Users
    <3>2. Holders(o)' = Holders(o)
      BY <1>1, <1>15, <2>3 DEF Holders
    <3> QED
      BY <3>1, <3>2
  <2> QED
    BY <2>2, <2>3
<1>18. SkCountsExact'
  BY <1>1, <1>17 DEF CountInv, SkCountsExact, Users, Holders
<1> QED
  BY <1>14, <1>16, <1>18

\* Whatever the tree: when AppendTo returns, every security cell's reference count is
\* the number of keys that name it, and at every step before that it counts the
\* keys written and the one being written (getOrCreate's RefCount++, which
\* runs in buildKeyCell before the key's own cell exists).
THEOREM SecurityCountsExact == HiveSpec => []SkCountsExact
<1>1. HiveInit => CountInv
  <2> SUFFICES ASSUME HiveInit PROVE CountInv
    OBVIOUS
  <2>1. TypeOK /\ SkInv
    BY InitTypeOK
  <2>2. DOMAIN sk = {} /\ DOMAIN cells = {}
    BY DEF HiveInit, PoolInit
  <2>3. /\ Len(stack) = 1 /\ stack[1].securityOffset = NoCellOffset /\ stack[1].at = "subkeys"
    BY DEF HiveInit, Frame
  <2>4. CellsWritten /\ SkCountsExact
    BY <2>2 DEF CellsWritten, SkCountsExact
  <2>5. CellsInHand
    BY <2>3 DEF CellsInHand, SecurityOffsets
  <2> QED
    BY <2>1, <2>4, <2>5 DEF CountInv
<1>2. CountInv /\ [HiveNext]_hiveVars => CountInv'
  <2> SUFFICES ASSUME CountInv, [HiveNext]_hiveVars PROVE CountInv'
    OBVIOUS
  <2>1. TypeOK /\ SkInv
    BY DEF CountInv
  <2>2. CASE UNCHANGED hiveVars
    <3>1. UNCHANGED <<top, sk, byDescriptor, firstSk, lastSk, tree, cells, stack>>
      BY <2>2 DEF hiveVars
    <3>2. TypeOK'
      BY <2>1, <3>1 DEF TypeOK, FrameType, IsKeyTree, SkTypeOK
    <3>3. SkInv'
      BY <2>1, <3>1 DEF SkInv, SkTypeOK, SkListCircular, IsSuccessor, OneCellPerDescriptor
    <3>4. CellsWritten'
      BY <3>1 DEF CountInv, CellsWritten, SecurityOffsets
    <3>5. CellsInHand'
      BY <3>1 DEF CountInv, CellsInHand, SecurityOffsets
    <3>6. SkCountsExact'
      BY <3>1 DEF CountInv, SkCountsExact, NkOffsets
    <3> QED
      BY <3>2, <3>3, <3>4, <3>5, <3>6 DEF CountInv
  <2>3. CASE Descend
    BY <2>1, <2>3, DescendKeepsInv, DescendKeepsCounts DEF CountInv
  <2>4. CASE BuildSubkeyList
    BY <2>1, <2>4, BuildSubkeyListKeepsInv, BuildSubkeyListKeepsCounts DEF CountInv
  <2>5. CASE BuildValue
    BY <2>1, <2>5, BuildValueKeepsInv, BuildValueKeepsCounts DEF CountInv
  <2>6. CASE BuildValuesList
    BY <2>1, <2>6, BuildValuesListKeepsInv, BuildValuesListKeepsCounts DEF CountInv
  <2>7. CASE ShareSecurity
    BY <2>1, <2>7, ShareSecurityKeepsInv, ShareSecurityKeepsCounts DEF CountInv
  <2>8. CASE BuildNk
    BY <2>1, <2>8, BuildNkKeepsInv, BuildNkKeepsCounts DEF CountInv
  <2> QED
    BY <2>2, <2>3, <2>4, <2>5, <2>6, <2>7, <2>8 DEF HiveNext
<1>3. CountInv => SkCountsExact
  BY DEF CountInv
<1> QED
  BY <1>1, <1>2, <1>3, PTL DEF HiveSpec

\* So both hold of the hives of an image, among everything else that happens to them
\* (src/regf/skpool.go:34).
COROLLARY HivesKeepSecurity == RegistrySpec => [](SkListCircular /\ SkCountsExact)
<1>1. RegistryInit => HiveInit
  BY DEF RegistryInit
<1>2. [RegistryNext]_registryVars => [HiveNext]_hiveVars
  BY DEF RegistryNext, registryVars
<1>3. RegistrySpec => HiveSpec
  BY <1>1, <1>2, PTL DEF RegistrySpec, HiveSpec
<1> QED
  BY <1>3, OneCircularList, SecurityCountsExact, PTL
=============================================================================
