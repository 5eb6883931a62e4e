------------------------------ MODULE RegfHive ------------------------------
(***************************************************************************)
(* Hive.AppendTo (src/regf/hive.go): a tree of keys written as the cells of  *)
(* one hive bin, and Parse, which reads the tree back from the cells.        *)
(*                                                                          *)
(* buildKeyCell calls itself for each subkey before it writes the key's own  *)
(* cells.  The stack of its calls is a variable, one frame per call, so each *)
(* step is one of the things the function does: descend into a subkey, write *)
(* the subkey list, write a value, write the values list, share the security *)
(* cell, write the nk cell and patch the subkeys' parent offsets.            *)
(*                                                                          *)
(* Names, class names and descriptors are told apart but not spelled; the    *)
(* fields of a cell no reader looks at (time stamps, hashes, the largest     *)
(* name and data sizes) are left out.  Lengths stored in 16 bits wrap.       *)
(***************************************************************************)
EXTENDS SkPool, Sequences, FiniteSets

CONSTANTS
    Trees,              \* the trees that may be written
    Width16,            \* what a uint16 field holds: lengths modulo this
    MaxKeyTreeDepth,    \* maxKeyTreeDepth of the reader
    DBSegmentMaxSize,   \* the most data bytes in one cell, a multiple of 8
    BinAlign            \* hive bins are a multiple of this long

ASSUME HiveAssumption ==
    /\ {Width16, MaxKeyTreeDepth, DBSegmentMaxSize, BinAlign} \subseteq Nat \ {0}
    /\ DBSegmentMaxSize % 8 = 0
    /\ BinAlign % 8 = 0

\* A value, a key with the length of its class name, and a tree of keys.
ValueType == [name : STRING, nameLen : Nat, type : STRING, data : Seq(0 .. 255)]
NoSecurity == "no security"
NoClassName == -1
KeyType(keys) ==
    [nameLen : Nat, class : Nat \cup {NoClassName}, values : Seq(ValueType),
     security : Descriptors \cup {NoSecurity}, subkeys : Seq(keys)]

IsKeyTree(t) ==
    t.root \in DOMAIN t.keys /\ t.keys \in [DOMAIN t.keys -> KeyType(DOMAIN t.keys)]

ASSUME TreeAssumption == \A t \in Trees : IsKeyTree(t)

VARIABLES
    tree,       \* the keys: root, and for each key its subkeys, values, ...
    cells,      \* the cells written so far except the sk cells, by offset
    stack,      \* the calls of buildKeyCell, the innermost last
    hiveFile    \* what AppendTo returned: root offset and size of the bin

hiveVars == <<top, sk, byDescriptor, firstSk, lastSk, tree, cells, stack, hiveFile>>

NoFile == [root |-> NoCellOffset, size |-> 0]
Field16(n) == n % Width16

KeyAt(k) == tree.keys[k]

\* One call of buildKeyCell: its key, how far it is, and the offsets it has collected.
Frame(k) ==
    [key |-> k, at |-> "subkeys", subkeyOffsets |-> <<>>, vkOffsets |-> <<>>,
     subkeysOffset |-> NoCellOffset, valuesOffset |-> NoCellOffset,
     securityOffset |-> NoCellOffset]

Current == stack[Len(stack)]
Update(f) == stack' = [stack EXCEPT ![Len(stack)] = f]
Goto(at) == Update([Current EXCEPT !.at = at])

CellAt(offset, cell) == [o \in {offset} |-> cell]
Join(f, g) == [o \in DOMAIN f \cup DOMAIN g |-> IF o \in DOMAIN g THEN g[o] ELSE f[o]]

\* cellArena.alloc, once for each of the new cells; the last of them ends at end.
Alloc(new, end) == cells' = Join(cells, new) /\ top' = end

\* The data of a cell, with the padding up to the end of the cell: what readCell
\* returns is longer than what was written.
Padded(bytes) ==
    [i \in 1 .. CellSize(Len(bytes)) - 4 |-> IF i <= Len(bytes) THEN bytes[i] ELSE 0]
DataCell(bytes) == [kind |-> "data", bytes |-> Padded(bytes)]

-----------------------------------------------------------------------------
(* AppendTo and buildKeyCell *)

HiveInit ==
    /\ PoolInit
    /\ tree \in Trees
    /\ cells = [o \in {} |-> {}]
    /\ stack = <<Frame(tree.root)>>
    /\ hiveFile = NoFile

Running(at) == stack # <<>> /\ Current.at = at

Descend ==
    /\ Running("subkeys")
    /\ Len(Current.subkeyOffsets) < Len(KeyAt(Current.key).subkeys)
    /\ stack' = Append(stack, Frame(KeyAt(Current.key).subkeys[Len(Current.subkeyOffsets) + 1]))
    /\ UNCHANGED <<top, poolVars, tree, cells, hiveFile>>

\* One "lh" list for all subkeys, its count a uint16; no list for no subkeys.
BuildSubkeyList ==
    /\ Running("subkeys")
    /\ Len(Current.subkeyOffsets) = Len(KeyAt(Current.key).subkeys)
    /\ IF Current.subkeyOffsets = <<>>
       THEN Goto("values") /\ UNCHANGED <<top, cells>>
       ELSE /\ Alloc(CellAt(top, [kind |-> "lh", count |-> Field16(Len(Current.subkeyOffsets)),
                              entries |-> Current.subkeyOffsets]),
                     top + CellSize(4 + 8 * Len(Current.subkeyOffsets)))
            /\ Update([Current EXCEPT !.subkeysOffset = top, !.at = "values"])
    /\ UNCHANGED <<poolVars, tree, hiveFile>>

\* The segments a long value is cut into.
Segments(data) ==
    LET count == (Len(data) + DBSegmentMaxSize - 1) \div DBSegmentMaxSize
        end(i) == IF i * DBSegmentMaxSize > Len(data) THEN Len(data)
                  ELSE i * DBSegmentMaxSize
    IN  [i \in 1 .. count |-> SubSeq(data, (i - 1) * DBSegmentMaxSize + 1, end(i))]

VkCell(v, inline, offset) ==
    [kind |-> "vk", name |-> v.name, nameSize |-> Field16(v.nameLen), type |-> v.type,
     dataSize |-> Len(v.data), inline |-> inline, dataOffset |-> offset]
VkSize(v) == CellSize(20 + v.nameLen)

\* The cells that hold a value's data, if any, and where its vk cell goes.
NoData(v) == [new |-> [o \in {} |-> {}], vkAt |-> top, vk |-> VkCell(v, <<>>, NoCellOffset)]
InlineData(v) == [NoData(v) EXCEPT !.vk = VkCell(v, v.data, NoCellOffset)]
PlainData(v) ==
    [new |-> CellAt(top, DataCell(v.data)), vkAt |-> top + CellSize(Len(v.data)),
     vk |-> VkCell(v, <<>>, top)]
BigData(v) ==
    LET segments == Segments(v.data)
        n        == Len(segments)
        at(i)    == top + (i - 1) * CellSize(DBSegmentMaxSize)
        listAt   == at(n) + CellSize(Len(segments[n]))
        dbAt     == listAt + CellSize(4 * n)
    IN  [new |-> Join([o \in {at(i) : i \in 1 .. n} |->
                        DataCell(segments[CHOOSE i \in 1 .. n : at(i) = o])],
                      Join(CellAt(listAt, [kind |-> "segments", entries |-> [i \in 1 .. n |-> at(i)]]),
                           CellAt(dbAt, [kind |-> "db", numSegments |-> Field16(n), list |-> listAt]))),
         vkAt |-> dbAt + CellSize(12),
         vk |-> VkCell(v, <<>>, dbAt)]

\* buildValueCell: where the data goes depends on its length alone.
StoredValue(v) ==
    LET n == Len(v.data)
    IN  IF n = 0 THEN NoData(v)
        ELSE IF n \in {1, 2, 4} THEN InlineData(v)
        ELSE IF n <= DBSegmentMaxSize THEN PlainData(v)
        ELSE BigData(v)

BuildValue ==
    /\ Running("values")
    /\ Len(Current.vkOffsets) < Len(KeyAt(Current.key).values)
    /\ LET v == KeyAt(Current.key).values[Len(Current.vkOffsets) + 1]
           stored == StoredValue(v)
       IN  /\ Alloc(Join(stored.new, CellAt(stored.vkAt, stored.vk)), stored.vkAt + VkSize(v))
           /\ Update([Current EXCEPT !.vkOffsets = Append(@, stored.vkAt)])
    /\ UNCHANGED <<poolVars, tree, hiveFile>>

BuildValuesList ==
    /\ Running("values")
    /\ Len(Current.vkOffsets) = Len(KeyAt(Current.key).values)
    /\ IF Current.vkOffsets = <<>>
       THEN Goto("security") /\ UNCHANGED <<top, cells>>
       ELSE /\ Alloc(CellAt(top, [kind |-> "values", entries |-> Current.vkOffsets]),
                     top + CellSize(4 * Len(Current.vkOffsets)))
            /\ Update([Current EXCEPT !.valuesOffset = top, !.at = "security"])
    /\ UNCHANGED <<poolVars, tree, hiveFile>>

ShareSecurity ==
    /\ Running("security")
    /\ IF KeyAt(Current.key).security = NoSecurity
       THEN Goto("nk") /\ UNCHANGED <<top, poolVars>>
       ELSE /\ GetOrCreate(KeyAt(Current.key).security)
            /\ Update([Current EXCEPT !.securityOffset =
                        byDescriptor'[KeyAt(Current.key).security], !.at = "nk"])
    /\ UNCHANGED <<tree, cells, hiveFile>>

NkCell(classNameOffset) ==
    LET k == KeyAt(Current.key)
    IN  [kind |-> "nk", name |-> Current.key, nameSize |-> Field16(k.nameLen),
         parent |-> NoCellOffset,
         numSubkeys |-> Len(k.subkeys), subkeysOffset |-> Current.subkeysOffset,
         numValues |-> Len(k.values), valuesOffset |-> Current.valuesOffset,
         securityOffset |-> Current.securityOffset, classNameOffset |-> classNameOffset,
         classNameSize |-> IF k.class = NoClassName THEN 0 ELSE Field16(k.class)]

\* The key's subkeys learn their parent once it has an offset.
PatchParent(written, at) ==
    [o \in DOMAIN written |->
        IF \E i \in 1 .. Len(Current.subkeyOffsets) : Current.subkeyOffsets[i] = o
        THEN [written[o] EXCEPT !.parent = at] ELSE written[o]]

\* The call returns the offset of the nk cell to the call below it.
ReturnOffset(offset) ==
    IF Len(stack) = 1 THEN stack' = <<>>
    ELSE LET n == Len(stack) - 1
         IN  stack' = [SubSeq(stack, 1, n) EXCEPT
                          ![n].subkeyOffsets = Append(@, offset)]

\* The class name's cell, the nk cell, the patches and the return; for the root
\* AppendTo goes on: it fills the bin up with one free cell (the space
\* from top to the bin's end) and returns the file.
BuildNk ==
    /\ Running("nk")
    /\ LET k     == KeyAt(Current.key)
           class == k.class # NoClassName
           at    == IF class THEN top + CellSize(k.class) ELSE top
           end   == at + CellSize(76 + k.nameLen)
           nk    == NkCell(IF class THEN top ELSE NoCellOffset)
           new   == IF class
                    THEN Join(CellAt(top, [kind |-> "class", len |-> k.class]), CellAt(at, nk))
                    ELSE CellAt(at, nk)
       IN  /\ cells' = PatchParent(Join(cells, new), at)
           /\ top' = end
           /\ hiveFile' = IF Len(stack) > 1 THEN hiveFile
                      ELSE [root |-> at, size |-> ((end + BinAlign - 1) \div BinAlign) * BinAlign]
           /\ ReturnOffset(at)
    /\ UNCHANGED <<poolVars, tree>>

HiveNext == Descend \/ BuildSubkeyList \/ BuildValue \/ BuildValuesList \/ ShareSecurity
        \/ BuildNk

HiveSpec == HiveInit /\ [][HiveNext]_hiveVars


-----------------------------------------------------------------------------
(* Parse, on the file AppendTo returned *)

DbMagic == <<100, 98>>
LooksLikeDb(cell) ==
    cell.kind = "db" \/ (cell.kind = "data" /\ SubSeq(cell.bytes, 1, 2) = DbMagic)

Failed == [ok |-> FALSE]
Misread == <<-1>>
Least(a, b) == IF a <= b THEN a ELSE b

\* Mutant: the padding of a full segment is taken for data.
ReadSegmentsPadded(db, dataSize) ==
    LET joined[i \in 0 .. db.numSegments] ==
            IF i = 0 THEN <<>>
            ELSE LET before == joined[i - 1]
                     bytes  == cells[cells[db.list].entries[i]].bytes
                     taken  == Least(Len(bytes), dataSize - Len(before))
                 IN  before \o SubSeq(bytes, 1, taken)
    IN  joined[db.numSegments]

\* The segments of a db cell joined; a segment's padding is cut off, and what the
\* value does not need.
ReadSegments(db, dataSize) ==
    LET joined[i \in 0 .. db.numSegments] ==
            IF i = 0 THEN <<>>
            ELSE LET before == joined[i - 1]
                     bytes  == cells[cells[db.list].entries[i]].bytes
                     taken  == Least(Least(Len(bytes), DBSegmentMaxSize),
                                     dataSize - Len(before))
                 IN  before \o SubSeq(bytes, 1, taken)
    IN  joined[db.numSegments]

\* resolveValueData.  A data cell taken for a db cell is read as segments that are
\* not there.
ReadData(vk) ==
    IF vk.inline # <<>> THEN SubSeq(vk.inline, 1, vk.dataSize)
    ELSE IF vk.dataSize = 0 THEN <<>>
    ELSE LET cell == cells[vk.dataOffset]
         IN  IF vk.dataSize > DBSegmentMaxSize /\ LooksLikeDb(cell)
             THEN IF cell.kind = "db" THEN ReadSegments(cell, vk.dataSize) ELSE Misread
             ELSE IF cell.kind # "data" \/ vk.dataSize > Len(cell.bytes) THEN Misread
             ELSE SubSeq(cell.bytes, 1, vk.dataSize)

\* parseValuesList
ReadValues(nk) ==
    IF nk.valuesOffset = NoCellOffset THEN <<>>
    ELSE [i \in 1 .. nk.numValues |->
            LET vk == cells[cells[nk.valuesOffset].entries[i]]
            IN  [name |-> vk.name, nameLen |-> vk.nameSize, type |-> vk.type,
                 data |-> ReadData(vk)]]

\* resolveSubkeyList: the count is the list's own, not the nk cell's.
SubkeyOffsets(nk) ==
    IF nk.subkeysOffset = NoCellOffset \/ nk.numSubkeys = 0 THEN <<>>
    ELSE SubSeq(cells[nk.subkeysOffset].entries, 1, cells[nk.subkeysOffset].count)

\* parseKeyTree: the key whose nk cell is at offset, depth keys below the root.
ReadKey[offset \in DOMAIN cells, depth \in 0 .. MaxKeyTreeDepth] ==
    IF depth = MaxKeyTreeDepth THEN Failed
    ELSE LET nk      == cells[offset]
             at      == SubkeyOffsets(nk)
             subkeys == [i \in 1 .. Len(at) |-> ReadKey[at[i], depth + 1]]
         IN  IF \E i \in 1 .. Len(at) : ~subkeys[i].ok THEN Failed
             ELSE [ok |-> TRUE, name |-> nk.name, nameLen |-> nk.nameSize,
                   class |-> IF nk.classNameSize = 0 THEN NoClassName ELSE nk.classNameSize,
                   security |-> IF nk.securityOffset = NoCellOffset THEN NoSecurity
                                ELSE sk[nk.securityOffset].descriptor,
                   values |-> ReadValues(nk), subkeys |-> subkeys]

-----------------------------------------------------------------------------
(* Properties *)

Offsets == Nat \cup {NoCellOffset}
FrameType ==
    [key : DOMAIN tree.keys, at : {"subkeys", "values", "security", "nk"},
     subkeyOffsets : Seq(Nat), vkOffsets : Seq(Nat),
     subkeysOffset : Offsets, valuesOffset : Offsets, securityOffset : Offsets]

\* Types of the writer's state.
TypeOK == IsKeyTree(tree) /\ stack \in Seq(FrameType) /\ SkTypeOK

\* The tree below a key as Parse should return it; an empty class name is no class
\* name to it.
Expected[k \in DOMAIN tree.keys] ==
    [ok |-> TRUE, name |-> k, nameLen |-> KeyAt(k).nameLen,
     class |-> IF KeyAt(k).class = 0 THEN NoClassName ELSE KeyAt(k).class,
     security |-> KeyAt(k).security, values |-> KeyAt(k).values,
     subkeys |-> [i \in 1 .. Len(KeyAt(k).subkeys) |-> Expected[KeyAt(k).subkeys[i]]]]

\* The limits of the format as written: 16-bit counts and the reader's depth.
Fits[k \in DOMAIN tree.keys, depth \in Nat] ==
    /\ depth < MaxKeyTreeDepth
    /\ Len(KeyAt(k).subkeys) < Width16
    /\ KeyAt(k).nameLen < Width16
    /\ KeyAt(k).class < Width16
    /\ \A i \in 1 .. Len(KeyAt(k).values) :
         /\ KeyAt(k).values[i].nameLen < Width16
         /\ Len(Segments(KeyAt(k).values[i].data)) < Width16
    /\ \A i \in 1 .. Len(KeyAt(k).subkeys) : Fits[KeyAt(k).subkeys[i], depth + 1]

NkOffsets == {o \in DOMAIN cells : cells[o].kind = "nk"}

\* Every key but the root names as its parent the key that has it in its list.
ParentsPatched ==
    /\ cells[hiveFile.root].parent = NoCellOffset
    /\ \A o \in NkOffsets \ {hiveFile.root} :
         \E p \in NkOffsets :
            /\ cells[o].parent = p
            /\ \E i \in 1 .. Len(KeyAt(cells[p].name).subkeys) :
                 KeyAt(cells[p].name).subkeys[i] = cells[o].name

\* A saved hive parses back to the same tree (names, class names, descriptors,
\* values whatever their size, order of subkeys) exactly when the tree keeps within
\* the format's limits.  hive.go, AppendTo against Parse.  And every key knows its
\* parent: its nk cell is written before the parent has an offset, so the field is
\* patched later or never.  Parse does not read it; Windows does.
RoundTrip ==
    hiveFile # NoFile =>
        /\ ReadKey[hiveFile.root, 0] = Expected[tree.root] <=> Fits[tree.root, 0]
        /\ ParentsPatched

\* The reference count of a security cell is the number of keys that use it: those
\* whose nk cell is written, and the one whose call has its cell in hand.
SkCountsExact ==
    \A o \in DOMAIN sk :
        sk[o].refCount =
            Cardinality({n \in NkOffsets : cells[n].securityOffset = o})
            + Cardinality({i \in 1 .. Len(stack) : stack[i].securityOffset = o})
=============================================================================
