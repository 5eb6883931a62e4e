------------------------------ MODULE IsoImage ------------------------------
(***************************************************************************)
(* Package iso (src/iso): a Builder collects a tree of files, and WriteTo    *)
(* writes it as one image that is read in up to four ways: ECMA-119, Joliet, *)
(* UDF, and the El Torito boot catalog with the hybrid MBR.  The image is    *)
(* written strictly forward, so every sector number is fixed by a sizing     *)
(* pass over an ordered list of fragments before the first byte is out, and  *)
(* the four views share the extents of the files.  What a view says of an    *)
(* extent is right only if the writing pass puts every directory and every   *)
(* file exactly where the sizing pass said it would.                         *)
(*                                                                          *)
(* The caller's calls, the steps of WriteTo and a change of a source file    *)
(* between sizing and copying are the actions.  Descriptor fields that name  *)
(* no place and no length (identifiers of the volume, dates, checksums,      *)
(* permissions) are left out.                                                *)
(***************************************************************************)
EXTENDS IsoNames

CONSTANTS
    Calls,              \* the calls a program may make, see CallType
    HostTree,           \* what AddTree finds, in the order it is walked
    OptionSets,         \* the Options a Builder may be made with
    MaxCalls,           \* calls made before WriteTo
    LogicalSectorSize,  \* bytes of a sector (2048)
    LbaMod,             \* sector numbers are uint32: they wrap here
    IndexMod,           \* numbers of path table records are uint16: they wrap here
    MaxLevel,           \* deepest directory of a hierarchy (8)
    MaxLenFI,           \* longest UDF file identifier (255)
    udfMaxExtentLength, \* longest extent of one UDF allocation descriptor
    BootUnit,           \* bytes of a sector as a BIOS counts them (512)
    MaxBootSectors      \* largest Sector Count of a boot entry

VARIABLES
    nodes,      \* the tree: node 1 is the root, parents before children
    opts,       \* Builder.opts
    calls,      \* number of calls so far
    stage,      \* how far WriteTo is
    tree,       \* what finalize and measure have settled
    layout,     \* what the sizing pass has settled
    boot,       \* what finishBoot has settled
    grown,      \* by how many bytes each source differs from its measured size
    image       \* what has been written

isoVars == <<nodes, opts, calls, stage, tree, layout, boot, grown, image>>

Root == 1
None == 0
Views == {"iso", "joliet"}
Nothing == [none |-> TRUE]

\* What a caller asks for.  A name is a sequence of characters, a path one of names.
UEFI == "uefi"
X86 == "x86"
BootEntry ==
    [path : Seq(Seq(Nat)), platform : {UEFI, X86}, load : Nat, table : BOOLEAN, notBootable : BOOLEAN]
Options ==
    [level : Level1 .. Level3, max : Nat, udf : BOOLEAN, udfOnly : BOOLEAN, joliet : BOOLEAN,
     boot : Seq(BootEntry), catalog : Seq(Seq(Nat)), pad : Nat, hybrid : BOOLEAN, bios : BOOLEAN]

CallType ==
    [op : {"AddDir", "AddFile", "AddTree"}, path : Seq(Seq(Nat)), size : Nat]
\* An entry of the host's tree is in the directory of an earlier entry, or of AddTree's path.
HostEntry == [up : Nat, host : Seq(Nat), dir : BOOLEAN, size : Nat]

ASSUME InputAssumption ==
    /\ Calls \subseteq CallType
    /\ HostTree \in Seq(HostEntry)
    /\ \A i \in DOMAIN HostTree :
        HostTree[i].up < i /\ (HostTree[i].up # 0 => HostTree[HostTree[i].up].dir)

ASSUME ImageAssumption ==
    /\ OptionSets \subseteq Options
    /\ {LogicalSectorSize, LbaMod, IndexMod, MaxLevel, MaxLenFI, BootUnit, MaxBootSectors} \subseteq Nat \ {0}
    /\ LogicalSectorSize > 176
    /\ LogicalSectorSize % BootUnit = 0
    /\ udfMaxExtentLength % LogicalSectorSize = 0
    /\ \A o \in OptionSets : o.max >= LogicalSectorSize

sectorsFor(n) == ((n + LogicalSectorSize - 1) \div LogicalSectorSize) % LbaMod
\* The elements of a finite set in the order of a relation on it.
Ordered(S, before) ==
    [i \in 1 .. Cardinality(S) |->
        CHOOSE x \in S : Cardinality({y \in S : <<y, x>> \in before}) = i - 1]

Sum(s) == FoldLeft(LAMBDA a, x : a + x, 0, s)

-----------------------------------------------------------------------------
(* The tree as the caller builds it.                                         *)

Node(host, dir, parent, size) == [host |-> host, dir |-> dir, parent |-> parent, size |-> size]

ChildrenOf(ns, d) == {n \in DOMAIN ns : ns[n].parent = d}
DirsOf(ns) == {n \in DOMAIN ns : ns[n].dir}
FilesOf(ns) == {n \in DOMAIN ns : ~ns[n].dir}

\* The first child of that name, or None.
find(ns, d, host) ==
    LET same == {n \in ChildrenOf(ns, d) : ns[n].host = host}
    IN  IF same = {} THEN None ELSE Min(same)

\* mkdirAll: the tree with the missing directories, and the last of them, or
\* None when a file is in the way; what was made before it stays.
Entered(a, p) ==
    LET next == find(a.ns, a.cur, p)
    IN  IF a.cur = None THEN a
        ELSE IF next = None
             THEN [ns |-> Append(a.ns, Node(p, TRUE, a.cur, 0)), cur |-> Len(a.ns) + 1]
        ELSE [ns |-> a.ns, cur |-> IF a.ns[next].dir THEN next ELSE None]
mkdirAll(ns, path) ==
    LET at[k \in 0 .. Len(path)] ==
            IF k = 0 THEN [ns |-> ns, cur |-> Root] ELSE Entered(at[k - 1], path[k])
    IN  at[Len(path)]

AddedDir(ns, path) == mkdirAll(ns, path).ns

\* AddFile: refused without a name, and when the name is taken, which is found out
\* after the directories were made.
AddedFile(ns, path, size) ==
    LET dir == mkdirAll(ns, Front(path))
        taken == dir.cur = None \/ find(dir.ns, dir.cur, Last(path)) # None
    IN  IF path = <<>> THEN [ns |-> ns, ok |-> FALSE]
        ELSE [ns |-> IF taken THEN dir.ns ELSE Append(dir.ns, Node(Last(path), FALSE, dir.cur, size)),
              ok |-> ~taken]

\* AddTree: the first n entries of the host directory, all of them unless
\* reading it fails half-way.  No entry is looked up before it is added.
AddedTree(ns, path, n) ==
    LET dir == mkdirAll(ns, path)
        base == Len(dir.ns)
    IN  IF dir.cur = None THEN dir.ns
        ELSE dir.ns \o [i \in 1 .. n |->
                LET e == HostTree[i]
                IN  Node(e.host, e.dir, IF e.up = 0 THEN dir.cur ELSE base + e.up, e.size)]

-----------------------------------------------------------------------------
(* finalize and measure.                                                     *)

Level(ns) ==
    LET level[n \in DOMAIN ns] == IF n = Root THEN 1 ELSE level[ns[n].parent] + 1
    IN  level

checkDepth(ns) == \A d \in DirsOf(ns) : Level(ns)[d] <= MaxLevel

\* mangle: identifiers are handed out in the order of the host names, and each
\* directory has its own two namespaces.  Sorting is stable.
InHostOrder(ns, a, b) ==
    HostLess(ns[a].host, ns[b].host) \/ (ns[a].host = ns[b].host /\ a < b)

NameOne(ns, o, a, n) ==
    LET d == ns[n].parent
        want == IF ns[n].dir THEN mangleDirName(ns[n].host, o.level)
                ELSE mangleFileName(ns[n].host, o.level)
        id == dedupe(a.used[d], want, ns[n].dir, o.level)
        jid == jolietDedupe(a.usedJoliet[d], mangleJolietName(ns[n].host))
    IN  [a EXCEPT !.id[n] = id, !.jid[n] = jid,
                  !.used[d] = @ \cup {id}, !.usedJoliet[d] = @ \cup {jid}]

Mangled(ns, o) ==
    LET nodesToName == DOMAIN ns \ {Root}
        order == Ordered(nodesToName, {p \in nodesToName \X nodesToName : InHostOrder(ns, p[1], p[2])})
        noNames == [n \in DOMAIN ns |-> <<>>]
        unused == [n \in DOMAIN ns |-> {}]
        named[k \in 0 .. Len(order)] ==
            IF k = 0 THEN [id |-> noNames, jid |-> noNames, used |-> unused, usedJoliet |-> unused]
            ELSE NameOne(ns, o, named[k - 1], order[k])
    IN  named[Len(order)]

\* The children of each directory in the order of 9.3.
InRecordOrder(ns, id, a, b) ==
    LET ka == nameExt(id[a], ns[a].dir)
        kb == nameExt(id[b], ns[b].dir)
    IN  \/ compareFileIdentifiers(ka, kb)
        \/ ~compareFileIdentifiers(kb, ka) /\ InHostOrder(ns, a, b)
SortedChildren(ns, id) ==
    [d \in DirsOf(ns) |->
        Ordered(ChildrenOf(ns, d),
                {p \in ChildrenOf(ns, d) \X ChildrenOf(ns, d) : InRecordOrder(ns, id, p[1], p[2])})]

\* Where a node is below the root, as positions among siblings.
RankIn(ns, kids) ==
    LET rank[n \in DOMAIN ns] ==
            IF n = Root THEN <<>>
            ELSE LET d == ns[n].parent
                 IN  Append(rank[d], CHOOSE i \in DOMAIN kids[d] : kids[d][i] = n)
    IN  rank

\* dirs, files and udfWalk: breadth first, depth first, and depth first with
\* the files after all directories.
BreadthFirst(rank, S) ==
    Ordered(S, {p \in S \X S :
        LET a == rank[p[1]]
            b == rank[p[2]]
        IN  Len(a) < Len(b) \/ (Len(a) = Len(b) /\ HostLess(a, b))})
DepthFirst(rank, S) == Ordered(S, {p \in S \X S : HostLess(rank[p[1]], rank[p[2]])})
udfWalk(rank, S) ==
    Ordered(S, {p \in S \X S :
        LET a == rank[p[1]]
            b == rank[p[2]]
        IN  HostLess(Front(a), Front(b)) \/ (Front(a) = Front(b) /\ Last(a) < Last(b))})

\* measure: a file is recorded in UDF alone when it is too large for one section.
MaxSection(o) == o.max - (o.max % LogicalSectorSize)
isoHidden(ns, o, f) == o.udfOnly /\ ns[f].size > MaxSection(o)

Finalized(ns, o) ==
    LET names == Mangled(ns, o)
        kids == SortedChildren(ns, names.id)
        rank == RankIn(ns, kids)
        dirs == BreadthFirst(rank, DirsOf(ns))
    IN  [kids |-> kids, id |-> names.id, jid |-> names.jid,
         dirs |-> dirs, files |-> DepthFirst(rank, FilesOf(ns)),
         pathIndex |-> [d \in DirsOf(ns) |-> (CHOOSE i \in DOMAIN dirs : dirs[i] = d) % IndexMod],
         udfDirs |-> DepthFirst(rank, DirsOf(ns)), udfFiles |-> udfWalk(rank, FilesOf(ns)),
         hidden |-> {f \in FilesOf(ns) : isoHidden(ns, o, f)}]

\* findNode: each name is looked up among the sorted children.
findNode(ns, kids, path) ==
    LET Step(cur, p) ==
            IF cur = None \/ ~ns[cur].dir THEN None
            ELSE LET at == SelectInSeq(kids[cur], LAMBDA n : ns[n].host = p)
                 IN  IF at = 0 THEN None ELSE kids[cur][at]
    IN  FoldLeft(Step, Root, path)

-----------------------------------------------------------------------------
(* The sizing pass.                                                          *)

\* buildLayout, addUDFHead, addUDFTail: the fragments in order.
If(b, s) == IF b THEN s ELSE <<>>
Fragments(o) ==
    <<"System Area", "Primary Volume Descriptor">>
    \o If(o.boot # <<>>, <<"El Torito Boot Record Volume Descriptor">>)
    \o If(o.joliet, <<"Joliet Supplementary Volume Descriptor">>)
    \o <<"Volume Descriptor Set Terminator">>
    \o If(o.udf, <<"UDF Volume Recognition Sequence", "UDF pad to sector 32",
                   "UDF Main Volume Descriptor Sequence", "UDF Reserve Volume Descriptor Sequence",
                   "UDF Logical Volume Integrity Sequence", "UDF pad to sector 256",
                   "UDF Anchor Volume Descriptor Pointer", "UDF File Set Descriptor",
                   "UDF directory tree", "UDF file entries">>)
    \o <<"Type L Path Table", "Type M Path Table">>
    \o If(o.joliet, <<"Joliet Type L Path Table", "Joliet Type M Path Table">>)
    \o <<"Directory tree">>
    \o If(o.joliet, <<"Joliet directory tree">>)
    \o <<"File data">>
    \o If(o.udf, <<"UDF End Anchor Volume Descriptor Pointer">>)
    \o If(o.pad > 0, <<IF o.udf THEN "UDF trailing anchors" ELSE "Trailing pad">>)

PadTarget == [f \in {"UDF pad to sector 32", "UDF pad to sector 256"} |->
                 IF f = "UDF pad to sector 32" THEN 32 ELSE 256]

FixedSectors ==
    [f \in {"System Area"} |-> 16] @@ [f \in {"UDF Volume Recognition Sequence"} |-> 3]
    @@ [f \in {"UDF Main Volume Descriptor Sequence", "UDF Reserve Volume Descriptor Sequence"} |-> 16]
    @@ [f \in {"UDF Logical Volume Integrity Sequence", "UDF File Set Descriptor"} |-> 2]
    @@ [f \in {"Primary Volume Descriptor", "El Torito Boot Record Volume Descriptor",
               "Joliet Supplementary Volume Descriptor", "Volume Descriptor Set Terminator",
               "UDF Anchor Volume Descriptor Pointer",
               "UDF End Anchor Volume Descriptor Pointer"} |-> 1]

ViewOf(f) == IF f \in {"Joliet Type L Path Table", "Joliet Type M Path Table",
                       "Joliet directory tree"} THEN "joliet" ELSE "iso"

\* The lengths of identifiers and records in a view.
ownIDLen(v, n) == IF v = "iso" THEN Len(tree.id[n]) ELSE 2 * Len(tree.jid[n])
pathTableIDLen(v, d) == IF d = Root THEN 1 ELSE ownIDLen(v, d)
pathTableRecordLen(n) == 8 + n + (n % 2)
pathTableBytes(v) ==
    Sum([i \in DOMAIN tree.dirs |-> pathTableRecordLen(pathTableIDLen(v, tree.dirs[i]))])

fileIDLen(v, n) == ownIDLen(v, n) + (IF v = "iso" /\ ~nodes[n].dir THEN Len(Version1) ELSE 0)
directoryRecordLen(v, n) == 33 + fileIDLen(v, n) + (1 - (fileIDLen(v, n) % 2))

\* A file has one record for each of its sections, one while it has none.
numSections(n, sections) ==
    IF nodes[n].dir THEN 1
    ELSE IF n \in tree.hidden THEN 0
    ELSE IF sections[n] # <<>> THEN Len(sections[n]) ELSE 1

\* Sectors of a directory whose records are counted with these sections.
directoryExtentSectors(v, d, sections) ==
    LET lens == FlattenSeq([i \in DOMAIN tree.kids[d] |->
                    [j \in 1 .. numSections(tree.kids[d][i], sections) |->
                        directoryRecordLen(v, tree.kids[d][i])]])
        Pack(a, n) == IF a.used + n > LogicalSectorSize
                      THEN [sectors |-> a.sectors + 1, used |-> n]
                      ELSE [a EXCEPT !.used = @ + n]
    IN  FoldLeft(Pack, [sectors |-> 1, used |-> 34 + 34], lens).sectors

\* sectionLengths: all but the last section are as long as allowed.
sectionLengths(size, max) ==
    IF size = 0 THEN <<0>>
    ELSE LET k == (size + max - 1) \div max
         IN  [i \in 1 .. k |-> IF i < k THEN max ELSE size - (k - 1) * max]

\* Where the elements of a sequence come to lie one after the other, and the
\* numbers the code has for that.
Places(from, order, need) ==
    FoldLeft(LAMBDA a, x : [at |-> a.at @@ (x :> a.next), next |-> a.next + need[x]],
             [at |-> <<>>, next |-> from], order)
Extents(from, order, need) ==
    LET p == Places(from, order, need)
    IN  [at |-> [x \in DOMAIN p.at |-> p.at[x] % LbaMod], next |-> p.next % LbaMod]

Sections(from, lens) ==
    FoldLeft(LAMBDA a, n : [s |-> Append(a.s, [extent |-> a.next, length |-> n]),
                            next |-> (a.next + sectorsFor(n)) % LbaMod],
             [s |-> <<>>, next |-> from], lens).s

udfLenFI(host) ==
    IF host = <<>> THEN 0
    ELSE IF \E i \in DOMAIN host : host[i] > 255 THEN 1 + 2 * Len(host) ELSE 1 + Len(host)
udfFIDLen(host) == ((38 + udfLenFI(host) + 3) \div 4) * 4
udfDirectoryBytes(d) ==
    udfFIDLen(<<>>) + Sum([i \in DOMAIN tree.kids[d] |-> udfFIDLen(nodes[tree.kids[d][i]].host)])
udfAllocDescCount(f) ==
    IF nodes[f].size = 0 THEN 1
    ELSE (nodes[f].size + udfMaxExtentLength - 1) \div udfMaxExtentLength

\* One fragment sized: its sectors, and what its size function settles.
Sized(l, n) == [l EXCEPT !.sectors = n % LbaMod]
Refused(l) == [l EXCEPT !.err = TRUE]

SizeDirectories(l, v) ==
    LET need == [d \in DirsOf(nodes) |-> directoryExtentSectors(v, d, l.sections)]
        e == Extents(l.next, tree.dirs, need)
    IN  [Sized(l, e.next - l.next) EXCEPT
            !.extent[v] = e.at, !.length[v] = [d \in DirsOf(nodes) |-> need[d] * LogicalSectorSize]]

SizeFileData(l) ==
    LET lens == [f \in FilesOf(nodes) |-> sectionLengths(nodes[f].size, MaxSection(opts))]
        need == [f \in FilesOf(nodes) |->
                    Sum([i \in DOMAIN lens[f] |-> sectorsFor(lens[f][i])])]
        e == Extents(l.next, tree.files, need)
    IN  IF \E f \in FilesOf(nodes) \ tree.hidden : Len(lens[f]) > 1 /\ opts.level < Level3
        THEN Refused(l)
        ELSE [Sized(l, e.next - l.next) EXCEPT
                !.sections = [f \in FilesOf(nodes) |-> Sections(e.at[f], lens[f])]]

SizeUdfDirs(l) ==
    LET e == Extents(l.next, tree.udfDirs,
                     [d \in DirsOf(nodes) |-> 1 + sectorsFor(udfDirectoryBytes(d))])
    IN  IF \E n \in DOMAIN nodes : udfLenFI(nodes[n].host) > MaxLenFI THEN Refused(l)
        ELSE [Sized(l, e.next - l.next) EXCEPT !.udfEntry = e.at @@ @]

SizeUdfEntries(l) ==
    LET e == Extents(l.next, tree.udfFiles, [f \in FilesOf(nodes) |-> 1])
    IN  IF \E f \in FilesOf(nodes) : udfAllocDescCount(f) > (LogicalSectorSize - 176) \div 8
        THEN Refused(l)
        ELSE [Sized(l, e.next - l.next) EXCEPT !.udfEntry = e.at @@ @]

SizeFragment(l, f) ==
    CASE f \in DOMAIN FixedSectors -> Sized(l, FixedSectors[f])
      [] f \in DOMAIN PadTarget ->
            IF l.next > PadTarget[f] THEN Refused(l) ELSE Sized(l, PadTarget[f] - l.next)
      [] f \in {"Type L Path Table", "Type M Path Table",
                "Joliet Type L Path Table", "Joliet Type M Path Table"} ->
            Sized(l, sectorsFor(pathTableBytes(ViewOf(f))))
      [] f \in {"Directory tree", "Joliet directory tree"} -> SizeDirectories(l, ViewOf(f))
      [] f = "UDF directory tree" -> SizeUdfDirs(l)
      [] f = "UDF file entries" -> SizeUdfEntries(l)
      [] f = "File data" -> SizeFileData(l)
      [] f \in {"UDF trailing anchors", "Trailing pad"} -> Sized(l, opts.pad)

\* assign: every fragment gets its first sector, unless the numbers run out.
AssignFragment(l, f) ==
    LET s == SizeFragment(l, f)
        end == (l.next + s.sectors) % LbaMod
    IN  IF l.err THEN l
        ELSE IF s.err \/ end < l.next THEN Refused(l)
        ELSE [s EXCEPT !.start = @ @@ (f :> l.next), !.size = @ @@ (f :> s.sectors), !.next = end]

assign ==
    LET noExtents == [v \in Views |-> <<>>]
    IN  FoldLeft(AssignFragment,
                 [next |-> 0, sectors |-> 0, err |-> FALSE, start |-> <<>>, size |-> <<>>,
                  extent |-> noExtents, length |-> noExtents,
                  sections |-> [f \in FilesOf(nodes) |-> <<>>], udfEntry |-> <<>>],
                 Fragments(opts))

-----------------------------------------------------------------------------
(* El Torito: the boot entries are resolved before the sizing pass, and what *)
(* names a sector is filled in after it.                                     *)

BootNode(i) == findNode(nodes, tree.kids, opts.boot[i].path)
CatalogNode == findNode(nodes, tree.kids, opts.catalog)

\* What initBoot refuses: a catalog that outgrows its sector, an entry that names
\* no file or an unsuitable one, and a hybrid MBR with nothing to point at.
BootCatalogTooLong(o) == (2 + 2 * (Len(o.boot) - 1)) * 32 > LogicalSectorSize
UnfitImage(ns, n, e) ==
    n = None \/ ns[n].dir \/ ns[n].size = 0 \/ (e.table /\ ns[n].size < 64)
Platforms(o) == {o.boot[i].platform : i \in DOMAIN o.boot}
initBootFails(ns, kids, o) ==
    \/ BootCatalogTooLong(o)
    \/ \E i \in DOMAIN o.boot : UnfitImage(ns, findNode(ns, kids, o.boot[i].path), o.boot[i])
    \/ o.hybrid /\ UEFI \notin Platforms(o)
    \/ o.bios /\ X86 \notin Platforms(o)

bootSectorCount(i) ==
    IF opts.boot[i].load # 0 THEN opts.boot[i].load
    ELSE sectorsFor(nodes[BootNode(i)].size) * (LogicalSectorSize \div BootUnit)

\* What finishBoot refuses: a count that does not fit its field, an image in
\* several sections, and an image that cannot be summed: the catalog itself,
\* which has no contents yet, or a source that has changed its length.
finishBootFails ==
    \E i \in DOMAIN opts.boot :
        \/ bootSectorCount(i) > MaxBootSectors
        \/ Len(layout.sections[BootNode(i)]) # 1
        \/ opts.boot[i].table /\ (BootNode(i) = CatalogNode \/ grown[BootNode(i)] # 0)

\* A slip the properties must catch: the first entry, of whatever platform.
FirstEntryOfAny(p) == 1

\* The first entry of a platform is the one the MBR points at.
FirstEntryOf(p) == SelectInSeq(opts.boot, LAMBDA e : e.platform = p)
LoadRBA(i) == layout.sections[BootNode(i)][1].extent

\* The table spliced into an image as it is copied; its checksum is that of the
\* contents and left out.
bootInfoTable(n) == [rba |-> layout.sections[n][1].extent, size |-> nodes[n].size]

finishBoot ==
    [entries |-> [i \in DOMAIN opts.boot |->
        [bootable |-> ~opts.boot[i].notBootable, rba |-> LoadRBA(i), sectors |-> bootSectorCount(i)]],
     hybrid |-> IF opts.hybrid THEN FirstEntryOf(UEFI) ELSE 0,
     bios |-> IF opts.bios THEN FirstEntryOf(X86) ELSE 0,
     table |-> [n \in {BootNode(i) : i \in {j \in DOMAIN opts.boot : opts.boot[j].table}} |->
        bootInfoTable(n)]]

\* The MBR counts sectors of another size; kernel_sector has 64 bits, the
\* partition entry 32.
BootRatio == LogicalSectorSize \div BootUnit
hybridMBR ==
    [partition |-> IF boot.hybrid = 0 THEN 0 ELSE (LoadRBA(boot.hybrid) * BootRatio) % LbaMod,
     count |-> IF boot.hybrid = 0 THEN 0 ELSE bootSectorCount(boot.hybrid),
     kernel |-> IF boot.bios = 0 THEN 0 ELSE LoadRBA(boot.bios) * BootRatio + 4]
hybridMBRFails == (opts.hybrid \/ opts.bios) /\ opts.boot = <<>>

\* The boot record names the sector of the catalog.
writeBootRecord == layout.sections[CatalogNode][1].extent

-----------------------------------------------------------------------------
(* The writing pass.                                                         *)

fileID(v, n) ==
    IF v = "iso" THEN tree.id[n] \o (IF nodes[n].dir THEN <<>> ELSE Version1) ELSE tree.jid[n]

Record(id, len, extent, length, flags) ==
    [id |-> id, len |-> len, extent |-> extent, length |-> length, flags |-> flags]
DirRecord(v, d, id, len) == Record(id, len, layout.extent[v][d], layout.length[v][d], {"directory"})

ParentOf(d) == IF d = Root THEN Root ELSE nodes[d].parent

\* One record for each section of a file, all but the last marked multi-extent.
ChildRecords(v, n) ==
    IF nodes[n].dir THEN <<DirRecord(v, n, fileID(v, n), directoryRecordLen(v, n))>>
    ELSE IF n \in tree.hidden THEN <<>>
    ELSE LET secs == layout.sections[n]
         IN  [i \in DOMAIN secs |->
                Record(fileID(v, n), directoryRecordLen(v, n), secs[i].extent, secs[i].length,
                       IF i < Len(secs) THEN {"multi"} ELSE {})]

\* A slip the properties must catch: records are packed without regard to sectors.
appendRecordPacked(a, r) ==
    [recs |-> Append(a.recs, r @@ [off |-> a.end]), end |-> a.end + r.len]

\* appendRecord: a record that does not fit the sector begins the next one.
appendRecord(a, r) ==
    LET used == a.end % LogicalSectorSize
        at == IF used + r.len > LogicalSectorSize THEN a.end - used + LogicalSectorSize ELSE a.end
    IN  [recs |-> Append(a.recs, r @@ [off |-> at]), end |-> at + r.len]

Directory(v, d) ==
    FoldLeft(appendRecord, [recs |-> <<>>, end |-> 0],
             <<DirRecord(v, d, <<0>>, 34), DirRecord(v, ParentOf(d), <<1>>, 34)>>
             \o FlattenSeq([i \in DOMAIN tree.kids[d] |-> ChildRecords(v, tree.kids[d][i])]))

PathTable(v) ==
    [i \in DOMAIN tree.dirs |->
        LET d == tree.dirs[i]
        IN  [id |-> IF d = Root THEN <<0>> ELSE fileID(v, d), extent |-> layout.extent[v][d],
             parent |-> tree.pathIndex[ParentOf(d)]]]

\* The Primary and the Joliet Supplementary Volume Descriptor: the size of the
\* volume, the path tables and the root of the hierarchy.
VolumeDescriptor(v, tableL, tableM) ==
    [space |-> layout.next, pathBytes |-> pathTableBytes(v), pathL |-> layout.start[tableL],
     pathM |-> layout.start[tableM], root |-> DirRecord(v, Root, <<0>>, 34)]
writePVD == VolumeDescriptor("iso", "Type L Path Table", "Type M Path Table")
writeJolietSVD == VolumeDescriptor("joliet", "Joliet Type L Path Table", "Joliet Type M Path Table")

PartitionStart == layout.start["UDF File Set Descriptor"]
InPartition(lba) == (lba - PartitionStart) % LbaMod

\* The UDF descriptors that lead to the root directory.  The partition ends
\* before the closing anchor.
setPartitionDesc ==
    [start |-> PartitionStart,
     blocks |-> layout.start["UDF End Anchor Volume Descriptor Pointer"] - PartitionStart]
setLogicalVolumeDesc ==
    [fileSet |-> 0, integrity |-> layout.start["UDF Logical Volume Integrity Sequence"]]
writeUDFIntegritySeq ==
    [nextUnique |-> 1 + Max({0} \cup {layout.udfEntry[f] : f \in FilesOf(nodes)}),
     size |-> setPartitionDesc.blocks, files |-> Len(tree.udfFiles), dirs |-> Len(tree.udfDirs)]
writeUDFFileSetDesc == [root |-> InPartition(layout.udfEntry[Root])]

\* The sequences are regenerated at both places: each descriptor's tag names the
\* sector it occupies, the partition descriptor being the third.
writeUDFMainSeq(base) ==
    [tag |-> base, partition |-> setPartitionDesc, volume |-> setLogicalVolumeDesc]

\* An anchor names both sequences and its own sector: one at 256, one after the
\* data, and one in every sector of the padding.
writeUDFAnchor(lba) ==
    [tag |-> lba, main |-> layout.start["UDF Main Volume Descriptor Sequence"],
     reserve |-> layout.start["UDF Reserve Volume Descriptor Sequence"]]
Anchors ==
    LET last == layout.start["UDF End Anchor Volume Descriptor Pointer"]
    IN  [lba \in {layout.start["UDF Anchor Volume Descriptor Pointer"]} \cup last .. last + opts.pad |->
            writeUDFAnchor(lba)]

\* setFileEntry: short allocation descriptors for size bytes from one block on.
AllocDescs(block, size) ==
    FoldLeft(LAMBDA a, n : [ads |-> Append(a.ads, [length |-> n, block |-> a.next]),
                            next |-> (a.next + sectorsFor(n)) % LbaMod],
             [ads |-> <<>>, next |-> block],
             IF size = 0 THEN <<>> ELSE sectionLengths(size, udfMaxExtentLength)).ads

udfLinkCount(d) == 1 + Cardinality({i \in DOMAIN tree.kids[d] : nodes[tree.kids[d][i]].dir})

FileEntry(n) ==
    LET own == InPartition(layout.udfEntry[n])
    IN  [tag |-> own, unique |-> IF n = Root THEN 0 ELSE layout.udfEntry[n],
         links |-> IF nodes[n].dir THEN udfLinkCount(n) ELSE 1,
         size |-> IF nodes[n].dir THEN udfDirectoryBytes(n) ELSE nodes[n].size,
         ads |-> IF nodes[n].dir THEN AllocDescs((own + 1) % LbaMod, udfDirectoryBytes(n))
                 ELSE AllocDescs(InPartition(layout.sections[n][1].extent), nodes[n].size)]

\* File Identifier Descriptors: the parent first, packed without padding.
FileIdents(d) ==
    LET Ident(n, host) == [host |-> host, dir |-> nodes[n].dir,
                           icb |-> InPartition(layout.udfEntry[n]),
                           unique |-> FileEntry(n).unique, len |-> udfFIDLen(host)]
        Put(a, r) == [recs |-> Append(a.recs,
                        r @@ [tag |-> InPartition(layout.udfEntry[d] + 1 + a.end \div LogicalSectorSize)]),
                      end |-> a.end + r.len]
    IN  FoldLeft(Put, [recs |-> <<>>, end |-> 0],
                 <<Ident(ParentOf(d), <<>>)>>
                 \o [i \in DOMAIN tree.kids[d] |-> Ident(tree.kids[d][i], nodes[tree.kids[d][i]].host)])

\* What a source yields when it is copied.  A file laid out as empty is not opened.
SectorsIn(n) == (n + LogicalSectorSize - 1) \div LogicalSectorSize
Copied(f) == IF nodes[f].size = 0 THEN 0 ELSE nodes[f].size + grown[f]
ChangedSize(f) == Copied(f) # Sum([i \in DOMAIN layout.sections[f] |-> layout.sections[f][i].length])

\* How many sectors a fragment writes.
WrittenSectors(f) ==
    CASE f \in {"Directory tree", "Joliet directory tree"} ->
            Sum([i \in DOMAIN tree.dirs |->
                    layout.length[ViewOf(f)][tree.dirs[i]] \div LogicalSectorSize])
      [] f = "UDF directory tree" ->
            Sum([i \in DOMAIN tree.udfDirs |-> 1 + SectorsIn(udfDirectoryBytes(tree.udfDirs[i]))])
      [] f = "File data" -> Sum([i \in DOMAIN tree.files |-> SectorsIn(Copied(tree.files[i]))])
      [] OTHER -> layout.size[f]

WrittenViews == {v \in Views : v = "iso" \/ opts.joliet}
DirectoryOverflows(v, d) == Directory(v, d).end > layout.length[v][d]

WriteFails ==
    \/ hybridMBRFails
    \/ \E v \in WrittenViews, d \in DirsOf(nodes) : DirectoryOverflows(v, d)
    \/ \E f \in FilesOf(nodes) : ChangedSize(f)
    \/ \E f \in DOMAIN layout.start : WrittenSectors(f) # layout.size[f]

\* The image: where each directory, file and descriptor has come to lie, and
\* what it says.
Image ==
    LET DirFragment(v) == IF v = "iso" THEN "Directory tree" ELSE "Joliet directory tree"
        dirAt(v) == Places(layout.start[DirFragment(v)], tree.dirs,
                           [d \in DirsOf(nodes) |-> layout.length[v][d] \div LogicalSectorSize]).at
        dataAt == Places(layout.start["File data"], tree.files,
                         [f \in FilesOf(nodes) |-> SectorsIn(Copied(f))]).at
        udfDirAt == Places(layout.start["UDF directory tree"], tree.udfDirs,
                           [d \in DirsOf(nodes) |-> 1 + SectorsIn(FileIdents(d).end)]).at
        entryAt == Places(layout.start["UDF file entries"], tree.udfFiles,
                          [f \in FilesOf(nodes) |-> 1]).at
    IN  [total |-> layout.next, dataAt |-> dataAt,
         dirAt |-> [v \in WrittenViews |-> dirAt(v)],
         dirs |-> [v \in WrittenViews |-> [d \in DirsOf(nodes) |-> Directory(v, d)]],
         volume |-> [v \in WrittenViews |-> IF v = "iso" THEN writePVD ELSE writeJolietSVD],
         paths |-> [v \in WrittenViews |-> PathTable(v)],
         catalog |-> IF opts.boot = <<>> THEN Nothing
                     ELSE [rba |-> writeBootRecord, entries |-> boot.entries, table |-> boot.table],
         mbr |-> IF opts.boot = <<>> THEN Nothing ELSE hybridMBR,
         udf |-> IF ~opts.udf THEN Nothing
                 ELSE [entryAt |-> udfDirAt @@ entryAt,
                       entries |-> [n \in DOMAIN nodes |-> FileEntry(n)],
                       idents |-> [d \in DirsOf(nodes) |-> FileIdents(d)],
                       anchors |-> Anchors,
                       sequences |-> [lba \in {Anchors[256].main, Anchors[256].reserve} |->
                                         writeUDFMainSeq(lba)],
                       integrity |-> writeUDFIntegritySeq, fileSet |-> writeUDFFileSetDesc]]

-----------------------------------------------------------------------------
(* The calls.                                                                *)

Init ==
    /\ nodes = <<Node(<<>>, TRUE, None, 0)>>
    /\ opts \in OptionSets
    /\ calls = 0
    /\ stage = "building"
    /\ tree = Nothing /\ layout = Nothing /\ boot = Nothing /\ image = Nothing
    /\ grown = <<>>

Build(op) ==
    /\ stage = "building" /\ calls < MaxCalls
    /\ calls' = calls + 1
    /\ \E c \in Calls : c.op = op /\
        CASE op = "AddDir" -> nodes' = AddedDir(nodes, c.path)
          [] op = "AddFile" -> nodes' = AddedFile(nodes, c.path, c.size).ns
          [] op = "AddTree" -> \E n \in 0 .. Len(HostTree) : nodes' = AddedTree(nodes, c.path, n)
    /\ UNCHANGED <<opts, stage, tree, layout, boot, grown, image>>

AddDir == Build("AddDir")
AddFile == Build("AddFile")
AddTree == Build("AddTree")

\* WriteTo up to the sizing pass: the boot catalog joins the tree, the tree is
\* named and measured, the boot entries are resolved.
Prepare ==
    LET withCatalog == IF opts.boot = <<>> THEN [ns |-> nodes, ok |-> TRUE]
                       ELSE AddedFile(nodes, opts.catalog, LogicalSectorSize)
        ns == withCatalog.ns
        t == Finalized(ns, opts)
    IN  /\ stage = "building"
        /\ nodes' = ns
        /\ IF \/ ~withCatalog.ok
              \/ ~checkDepth(ns)
              \/ opts.udfOnly /\ ~opts.udf
              \/ opts.boot # <<>> /\ initBootFails(ns, t.kids, opts)
           THEN stage' = "failed" /\ UNCHANGED <<tree, grown>>
           ELSE /\ stage' = "prepared"
                /\ tree' = t
                /\ grown' = [f \in FilesOf(ns) |-> 0]
        /\ UNCHANGED <<opts, calls, layout, boot, image>>

Assign ==
    /\ stage = "prepared"
    /\ LET l == assign
       IN  IF l.err THEN stage' = "failed" /\ UNCHANGED layout
           ELSE stage' = "laid out" /\ layout' = l
    /\ UNCHANGED <<nodes, opts, calls, tree, boot, grown, image>>

FinishBoot ==
    /\ stage = "laid out"
    /\ IF opts.boot = <<>> THEN stage' = "ready" /\ UNCHANGED boot
       ELSE IF finishBootFails THEN stage' = "failed" /\ UNCHANGED boot
       ELSE stage' = "ready" /\ boot' = finishBoot
    /\ UNCHANGED <<nodes, opts, calls, tree, layout, grown, image>>

\* Someone changes one file on the host after it was measured; the generated
\* boot catalog is not on the host.
SourceChanges ==
    /\ stage \in {"prepared", "laid out", "ready"}
    /\ \A f \in DOMAIN grown : grown[f] = 0
    /\ \E f \in DOMAIN grown, by \in {-1, 1} :
        /\ nodes[f].size + by >= 0
        /\ opts.boot # <<>> => f # CatalogNode
        /\ grown' = [grown EXCEPT ![f] = by]
    /\ UNCHANGED <<nodes, opts, calls, stage, tree, layout, boot, image>>

\* The fragments are written in order and each is held against its size.
WriteImage ==
    /\ stage = "ready"
    /\ IF WriteFails THEN stage' = "failed" /\ UNCHANGED image
       ELSE stage' = "written" /\ image' = Image
    /\ UNCHANGED <<nodes, opts, calls, tree, layout, boot, grown>>

\* The destination refuses a write.
WriterFails ==
    /\ stage = "ready"
    /\ stage' = "failed"
    /\ UNCHANGED <<nodes, opts, calls, tree, layout, boot, grown, image>>

Next ==
    \/ AddDir \/ AddFile \/ AddTree
    \/ Prepare \/ Assign \/ FinishBoot \/ SourceChanges \/ WriteImage \/ WriterFails

Spec == Init /\ [][Next]_isoVars

-----------------------------------------------------------------------------
(* What a reader finds.                                                      *)

Written == stage = "written"
DirExtent(v, d) == image.dirAt[v][d]
Records(v, d) == image.dirs[v][d].recs

\* Sections end at sector boundaries, follow one another from where the data is,
\* and together are as long as what was copied.
CoversFile(recs, f) ==
    /\ Sum([i \in DOMAIN recs |-> recs[i].length]) = Copied(f)
    /\ \A i \in DOMAIN recs :
        LET before == Sum([j \in 1 .. i - 1 |-> recs[j].length])
        IN  /\ before % LogicalSectorSize = 0
            /\ recs[i].extent = image.dataAt[f] + before \div LogicalSectorSize
            /\ recs[i].flags = IF i < Len(recs) THEN {"multi"} ELSE {}

PointsAt(r, v, d) ==
    /\ r.extent = DirExtent(v, d)
    /\ r.length >= image.dirs[v][d].end
    /\ r.flags = {"directory"}

\* A reader of the ECMA-119 or the Joliet hierarchy of a written image finds
\* every directory and every file that is meant for it, with all its data: the
\* root in the volume descriptor, "." and "..", the children and the sections of
\* a file, and the path table all name the sectors where writeDirectoriesV and
\* writeFileData have put them.  No record crosses a sector.
DirectoriesTrue ==
    Written => \A v \in WrittenViews :
        /\ PointsAt(image.volume[v].root, v, Root)
        /\ image.volume[v].space = image.total
        /\ \A d \in DirsOf(nodes) :
            LET recs == Records(v, d)
                Of(n) == SelectSeq(recs, LAMBDA r : r.id = fileID(v, n))
            IN  /\ PointsAt(recs[1], v, d) /\ PointsAt(recs[2], v, ParentOf(d))
                /\ \A i \in DOMAIN recs :
                    (recs[i].off % LogicalSectorSize) + recs[i].len <= LogicalSectorSize
                /\ \A n \in ChildrenOf(nodes, d) :
                    IF nodes[n].dir THEN Len(Of(n)) = 1 /\ PointsAt(Of(n)[1], v, n)
                    ELSE IF n \in tree.hidden THEN Of(n) = <<>>
                    ELSE Of(n) # <<>> /\ CoversFile(Of(n), n)
        /\ \A i \in DOMAIN image.paths[v] :
            LET p == image.paths[v][i]
                d == tree.dirs[i]
            IN  /\ p.extent = DirExtent(v, d)
                /\ Len(tree.dirs) < IndexMod =>
                    /\ p.parent <= i
                    /\ image.paths[v][p.parent].extent = DirExtent(v, ParentOf(d))

\* The blocks of a UDF file entry are consecutive, inside the partition, and
\* begin at the given sector.
CoversEntry(e, at) ==
    /\ Sum([i \in DOMAIN e.ads |-> e.ads[i].length]) = e.size
    /\ \A i \in DOMAIN e.ads :
        LET before == Sum([j \in 1 .. i - 1 |-> e.ads[j].length])
        IN  /\ before % LogicalSectorSize = 0
            /\ setPartitionDesc.start + e.ads[i].block = at + before \div LogicalSectorSize
            /\ e.ads[i].block + SectorsIn(e.ads[i].length) <= setPartitionDesc.blocks

\* UDF, the boot catalog and the MBR describe the same extents: every node is
\* reached from the anchors under its own name, unique id and link count, its
\* allocation descriptors lie inside the partition on the sectors where
\* writeFileData has put the file, the anchors lie outside the partition, and a
\* boot entry, the boot record and the MBR name the sector of their image.
BridgeTrue ==
    Written =>
        /\ opts.udf =>
            LET u == image.udf
                anchor == u.anchors[256]
                volume == u.sequences[anchor.main]
                Abs(block) == volume.partition.start + block
            IN  /\ \A lba \in DOMAIN u.anchors :
                    /\ u.anchors[lba] = [anchor EXCEPT !.tag = lba]
                    /\ lba < Abs(0) \/ lba >= Abs(volume.partition.blocks)
                /\ {image.total - 1, image.total - 1 - opts.pad} \subseteq DOMAIN u.anchors
                /\ u.sequences[anchor.reserve] = [volume EXCEPT !.tag = anchor.reserve]
                /\ Abs(u.fileSet.root) = u.entryAt[Root]
                /\ u.integrity.files + u.integrity.dirs = Len(nodes)
                /\ \A n \in DOMAIN nodes :
                    /\ Abs(u.entries[n].tag) = u.entryAt[n]
                    /\ nodes[n].dir => CoversEntry(u.entries[n], u.entryAt[n] + 1)
                    /\ ~nodes[n].dir => CoversEntry(u.entries[n], image.dataAt[n])
                    /\ ~nodes[n].dir => u.entries[n].size = Copied(n)
                /\ \A d \in DirsOf(nodes) :
                    LET ids == u.idents[d].recs
                        at == [i \in DOMAIN ids |-> Sum([j \in 1 .. i - 1 |-> ids[j].len])]
                    IN  /\ u.entries[d].size = u.idents[d].end
                        /\ Abs(ids[1].icb) = u.entryAt[ParentOf(d)]
                        /\ \A i \in DOMAIN ids :
                            Abs(ids[i].tag) = u.entryAt[d] + 1 + at[i] \div LogicalSectorSize
                        /\ \A n \in ChildrenOf(nodes, d) : \E i \in 2 .. Len(ids) :
                            /\ ids[i].host = nodes[n].host
                            /\ Abs(ids[i].icb) = u.entryAt[n]
                            /\ ids[i].unique = u.entries[n].unique
                /\ \A a, b \in DOMAIN nodes :
                    u.entries[a].unique = u.entries[b].unique => a = b
                /\ \A n \in DOMAIN nodes : u.entries[n].unique # u.integrity.nextUnique
                /\ \A d \in DirsOf(nodes) : u.entries[d].links =
                        Cardinality({n \in DirsOf(nodes) : ParentOf(n) = d}) + (IF d = Root THEN 0 ELSE 1)
        /\ opts.boot # <<>> =>
            /\ image.catalog.rba = image.dataAt[CatalogNode]
            /\ \A i \in DOMAIN opts.boot :
                image.catalog.entries[i].rba = image.dataAt[BootNode(i)]
            /\ \A n \in DOMAIN image.catalog.table :
                image.catalog.table[n] = [rba |-> image.dataAt[n], size |-> Copied(n)]
            /\ opts.hybrid =>
                \E i \in DOMAIN opts.boot :
                    /\ opts.boot[i].platform = UEFI
                    /\ image.mbr.count = image.catalog.entries[i].sectors
                    /\ image.mbr.partition = (image.dataAt[BootNode(i)] * BootRatio) % LbaMod
            /\ opts.bios =>
                \E i \in DOMAIN opts.boot :
                    /\ opts.boot[i].platform = X86
                    /\ image.mbr.kernel = image.dataAt[BootNode(i)] * BootRatio + 4

\* Whatever names collide after folding and truncation, the identifiers of one
\* directory differ in both hierarchies, are of legal characters, and stand in the order
\* of 9.3; the path table stands in that of 6.9.1 while its records can be numbered.  A
\* name is no longer than what the interchange level or the extension leaves it, or than
\* a counter with one digit more than the number of its siblings.
IdentifiersLegal ==
    tree # Nothing =>
        /\ \A d \in DirsOf(nodes) :
            LET kids == tree.kids[d]
            IN  \A i, j \in DOMAIN kids : i < j =>
                /\ tree.id[kids[i]] # tree.id[kids[j]]
                /\ tree.jid[kids[i]] # tree.jid[kids[j]]
                /\ ~compareFileIdentifiers(nameExt(tree.id[kids[j]], nodes[kids[j]].dir),
                                           nameExt(tree.id[kids[i]], nodes[kids[i]].dir))
        /\ \A n \in DOMAIN nodes \ {Root} :
            LET parts == nameExt(tree.id[n], nodes[n].dir)
                Within(s, limit) ==
                    \/ Len(s) <= limit
                    \/ Len(s) <= Len(itoa[Cardinality(ChildrenOf(nodes, nodes[n].parent))]) + 1
            IN  /\ \A i \in DOMAIN parts.base : isDChar(parts.base[i])
                /\ \A i \in DOMAIN parts.ext : isDChar(parts.ext[i])
                /\ parts.base # <<>> \/ parts.ext # <<>>
                /\ Within(parts.base, IF opts.level = Level1 THEN NameMax
                                      ELSE IF nodes[n].dir THEN maxDirIDLen
                                      ELSE maxFileNameTotal - Len(parts.ext))
                /\ Len(parts.ext) <= IF opts.level = Level1 THEN ExtMax ELSE maxFileNameTotal - 1
                /\ Within(tree.jid[n], jolietMaxNameLen)
        /\ Len(tree.dirs) < IndexMod => \A i, j \in DOMAIN tree.dirs : i < j =>
            LET Key(d) == <<Len(RankIn(nodes, tree.kids)[d]), tree.pathIndex[ParentOf(d)]>>
                a == tree.dirs[i]
                b == tree.dirs[j]
            IN  \/ HostLess(Key(a), Key(b))
                \/ Key(a) = Key(b) /\ LessPadded(tree.id[a], tree.id[b])

\* "The counter is written over the *end* of the name component so that the result
\* still respects the length limit the caller already applied" (name.go, dedupe).
CounterWithinLimit ==
    tree # Nothing => \A n \in DOMAIN nodes \ {Root} :
        LET parts == nameExt(tree.id[n], nodes[n].dir)
        IN  IF opts.level = Level1 THEN Len(parts.base) <= NameMax
            ELSE Len(parts.base) + Len(parts.ext) <= IF nodes[n].dir THEN maxDirIDLen ELSE maxFileNameTotal

\* Every directory is laid out as long as it is written: the number of records
\* of a file "must agree with the sections actually allocated in
\* fileDataSectors" (layout.go).
DirectoriesFit ==
    stage \in {"laid out", "ready"} =>
        \A v \in WrittenViews, d \in DirsOf(nodes) : ~DirectoryOverflows(v, d)
=============================================================================
