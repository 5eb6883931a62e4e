------------------------------- MODULE DirTree -------------------------------
(***************************************************************************)
(* The directory tree of an image, package wim's DirEntry, as it is held   *)
(* in memory: every directory has a slice of children and an index from    *)
(* names to children, built by the first Child call and believed as long   *)
(* as the slice has the same first element's address and the same length.  *)
(*                                                                         *)
(* Which array a slice lies in matters only for that comparison, so a node *)
(* has no array address: its index is forgotten as soon as its slice moves *)
(* to another array, and an index that is kept is one built from a slice   *)
(* of the very array that holds the children now.                          *)
(*                                                                         *)
(* Operations do not overlap; each is an operator on the whole heap that   *)
(* yields the heap it leaves behind and whether it returned without error. *)
(***************************************************************************)
EXTENDS Naturals, SequencesExt, FiniteSetsExt

CONSTANTS
  Name,       \* names, up to case (strings.EqualFold and foldKey agree)
  Hash,       \* stream hashes
  NoHash,     \* the hash of an entry without streams
  MaxPath,    \* bound: length of the paths operations are given
  NumNodes    \* bound: entries in existence at a time, the root included

Node == 1 .. NumNodes
Root == 1
None == 0        \* a nil *DirEntry

ASSUME DirTreeAssumption ==
  /\ NumNodes \in Nat \ {0}
  /\ MaxPath \in Nat
  /\ NoHash \notin Hash
  /\ Name # {}

VARIABLES
  heap,    \* the entries
  files    \* the tree as a map from paths, a function of heap (see FilesOf)

vars == <<heap, files>>

Paths == UNION {[1 .. n -> Name] : n \in 1 .. MaxPath}

NoIndex == [built |-> FALSE, len |-> 0, byName |-> [n \in Name |-> None]]

Fresh(kind, name, hash) ==
  [kind |-> kind, name |-> name, hash |-> hash, kids |-> <<>>, spare |-> 0, index |-> NoIndex]

\* A node not in use; the name is of no account.
Unused == Fresh("unused", CHOOSE n \in Name : TRUE, NoHash)

IsDirectory(h, d) == h[d].kind = "dir"

\* findChildFold: the first child of that name.
findChildFold(h, d, n) ==
  LET at == {k \in DOMAIN h[d].kids : h[h[d].kids[k]].name = n}
  IN  IF at = {} THEN None ELSE h[d].kids[Min(at)]
-----------------------------------------------------------------------------
(* The children slice.                                                     *)

\* append(d.Children, c): in place if the array has room, else in a new array
\* of twice the capacity (what the Go runtime does for slices this short).
AppendChild(h, d, c) ==
  LET len == Len(h[d].kids)
  IN  IF h[d].spare > 0
        THEN [h EXCEPT ![d].kids = Append(@, c), ![d].spare = @ - 1]
        ELSE [h EXCEPT ![d].kids = Append(@, c), ![d].index = NoIndex,
                       ![d].spare = IF len = 0 THEN 0 ELSE len - 1]

\* Mutant: what follows the removed child is not appended again.
CutChildTail(h, d, i) ==
  [h EXCEPT ![d].kids = SubSeq(@, 1, i - 1), ![d].spare = 0]

\* append(children[:i:i], children[i+1:]...): the capacity is cut to i, so that
\* everything but the removal of the last child needs a new array.
CutChild(h, d, i) ==
  LET len  == Len(h[d].kids)
      kept == SubSeq(h[d].kids, 1, i - 1) \o SubSeq(h[d].kids, i + 1, len)
      cap  == IF len - 1 > 2 * (i - 1) THEN len - 1 ELSE 2 * (i - 1)
  IN  IF i = len
        THEN [h EXCEPT ![d].kids = kept, ![d].spare = 0]
        ELSE [h EXCEPT ![d].kids = kept, ![d].spare = cap - (len - 1), ![d].index = NoIndex]

\* An entry that is about to be created.
NewNode(h) == Min({x \in Node : h[x].kind = "unused"})
-----------------------------------------------------------------------------
(* The index.                                                              *)

\* Same array (or the index would be gone) and same length.
sameChildrenSlice(h, d) == h[d].index.built /\ h[d].index.len = Len(h[d].kids)

\* (An index of no children is not worth keeping: it is never wrong.)
buildChildIndex(h, d) ==
  IF h[d].kids = <<>>
    THEN [h EXCEPT ![d].index = NoIndex]
    ELSE [h EXCEPT ![d].index =
            [built |-> TRUE, len |-> Len(h[d].kids),
             byName |-> [n \in Name |-> findChildFold(h, d, n)]]]

\* Child: the heap with an index it can believe, and what that index says.
Indexed(h, d) == IF sameChildrenSlice(h, d) THEN h ELSE buildChildIndex(h, d)
Child(h, d, n) == Indexed(h, d)[d].index.byName[n]
-----------------------------------------------------------------------------
(* Walking a path.  A walk is at a node of a heap, or has failed.          *)

Begin(h) == [heap |-> h, at |-> Root, ok |-> TRUE]

\* One component of Lookup, Remove and Rename's source path.
Follow(w, n) ==
  IF ~w.ok THEN w
  ELSE LET c == Child(w.heap, w.at, n)
       IN  [heap |-> Indexed(w.heap, w.at), at |-> c, ok |-> c # None]

\* One component of the way to an entry that is to be created: a missing
\* directory is made, a file is an error.  driver's placeFile looks a child up
\* by scanning the children, package wim by the index.
Descend(w, n, indexed) ==
  IF ~w.ok THEN w
  ELSE LET h == IF indexed THEN Indexed(w.heap, w.at) ELSE w.heap
           c == IF indexed THEN Child(h, w.at, n) ELSE findChildFold(h, w.at, n)
           x == NewNode(h)
       IN  IF c = None
             THEN [heap |-> AppendChild([h EXCEPT ![x] = Fresh("dir", n, NoHash)], w.at, x),
                   at |-> x, ok |-> TRUE]
             ELSE [heap |-> h, at |-> c, ok |-> IsDirectory(h, c)]

Walk(h, path) ==
  LET w[k \in 0 .. Len(path)] == IF k = 0 THEN Begin(h) ELSE Follow(w[k - 1], path[k])
  IN  w[Len(path)]

Way(h, path, indexed) ==
  LET w[k \in 0 .. Len(path)] == IF k = 0 THEN Begin(h) ELSE Descend(w[k - 1], path[k], indexed)
  IN  w[Len(path)]
MakeWay(h, path, indexed) == Way(h, Front(path), indexed)

Done(h) == [heap |-> h, ok |-> TRUE]
Error(h) == [heap |-> h, ok |-> FALSE]
-----------------------------------------------------------------------------
(* The operations.                                                         *)

\* DirEntry.Lookup (and ReadDir, which only looks at what it found).
Lookup(h, path) == Walk(h, path)

\* DirEntry.Add.
Add(h, path, hash) ==
  LET w    == MakeWay(h, path, TRUE)
      g    == Indexed(w.heap, w.at)
      leaf == Child(g, w.at, Last(path))
      x    == NewNode(g)
  IN  IF ~w.ok THEN Error(w.heap)
      ELSE IF leaf = None
        THEN Done(AppendChild([g EXCEPT ![x] = Fresh("file", Last(path), hash)], w.at, x))
      ELSE IF IsDirectory(g, leaf) THEN Error(g)
      ELSE Done([g EXCEPT ![leaf].hash = hash])

\* driver's and component's placeFile, which scan and accept a directory.
placeFile(h, path, hash) ==
  LET w    == MakeWay(h, path, FALSE)
      leaf == findChildFold(w.heap, w.at, Last(path))
      x    == NewNode(w.heap)
  IN  IF ~w.ok THEN Error(w.heap)
      ELSE IF leaf = None
        THEN Done(AppendChild([w.heap EXCEPT ![x] = Fresh("file", Last(path), hash)], w.at, x))
      ELSE Done([w.heap EXCEPT ![leaf].hash = hash])

\* AttachAt of a prebuilt subtree: here a directory with one file in it.
AttachAt(h, path, name, hash) ==
  LET w == MakeWay(h, path, TRUE)
      g == Indexed(w.heap, w.at)
      x == NewNode(g)
      node == [g EXCEPT ![x] = Fresh("dir", Last(path), NoHash)]
      y == NewNode(node)
      whole == AppendChild([node EXCEPT ![y] = Fresh("file", name, hash)], x, y)
  IN  IF ~w.ok THEN Error(w.heap)
      ELSE IF Child(g, w.at, Last(path)) # None THEN Error(g)
      ELSE Done(AppendChild(whole, w.at, x))

Position(h, d, n) == Min({k \in DOMAIN h[d].kids : h[h[d].kids[k]].name = n})

\* DirEntry.Remove.
RemoveEntry(h, path) ==
  LET w == Walk(h, Front(path))
  IN  IF ~w.ok \/ findChildFold(w.heap, w.at, Last(path)) = None THEN Error(w.heap)
      ELSE Done(CutChild(w.heap, w.at, Position(w.heap, w.at, Last(path))))

\* containsEntry: an entry and what is below it, which is all that no set with
\* the entry, and with the children of its members, can do without.
ClosedUnder(h, S) == \A d \in S : \A k \in DOMAIN h[d].kids : h[d].kids[k] \in S
Below(h, top) == {x \in Node : \A S \in SUBSET Node : top \in S /\ ClosedUnder(h, S) => x \in S}

\* Mutant: a directory may be moved below itself.
RenameAnywhere(h, old, new) ==
  LET w     == Walk(h, Front(old))
      entry == findChildFold(w.heap, w.at, Last(old))
      idx   == Position(w.heap, w.at, Last(old))
      v     == MakeWay(w.heap, new, TRUE)
      g     == Indexed(v.heap, v.at)
      cut   == CutChild(g, w.at, idx)
  IN  IF ~w.ok \/ entry = None THEN Error(w.heap)
      ELSE IF ~v.ok THEN Error(v.heap)
      ELSE IF Child(g, v.at, Last(new)) # None THEN Error(g)
      ELSE Done(AppendChild([cut EXCEPT ![entry].name = Last(new)], v.at, entry))

\* DirEntry.Rename.
Rename(h, old, new) ==
  LET w     == Walk(h, Front(old))
      entry == findChildFold(w.heap, w.at, Last(old))
      idx   == Position(w.heap, w.at, Last(old))
      inOwn == IsDirectory(w.heap, entry) /\ IsPrefix(old, new)
      v     == MakeWay(w.heap, new, TRUE)
      g     == Indexed(v.heap, v.at)
      cut   == CutChild(g, w.at, idx)
  IN  IF ~w.ok \/ entry = None \/ inOwn THEN Error(w.heap)
      ELSE IF ~v.ok \/ v.at \in Below(v.heap, entry) THEN Error(v.heap)
      ELSE IF Child(g, v.at, Last(new)) # None THEN Error(g)
      ELSE Done(AppendChild([cut EXCEPT ![entry].name = Last(new)], v.at, entry))
-----------------------------------------------------------------------------
\* An entry no longer in the tree that an index still names.
Gone == NumNodes + 1

\* What is no longer reachable is as good as gone.
Collected(h) ==
  LET live == Below(h, Root)
  IN  [x \in Node |->
         IF x \notin live THEN Unused
         ELSE LET names == h[x].index.byName
              IN  [h[x] EXCEPT !.index.byName =
                     [n \in Name |-> IF names[n] \in live \cup {None} THEN names[n] ELSE Gone]]]

\* The heap with the entry f[x] at address x.
Numberings ==
  {f \in [Node -> Node] : /\ f[Root] = Root
                          /\ \A x, y \in Node : f[x] = f[y] => x = y
                          /\ \A y \in Node : \E x \in Node : f[x] = y}
Address(f, y) == IF y \in Node THEN CHOOSE x \in Node : f[x] = y ELSE y
Numbered(h, f) ==
  [x \in Node |->
     LET r == h[f[x]]
     IN  [r EXCEPT !.kids = [i \in DOMAIN r.kids |-> Address(f, r.kids[i])],
                   !.index.byName = [n \in Name |-> Address(f, r.index.byName[n])]]]

\* Addresses do not matter: one heap stands for all that differ in them alone.
Renumbered(h) ==
  LET kept == Collected(h)
  IN  CHOOSE g \in {Numbered(kept, f) : f \in Numberings} : TRUE

\* The tree as a map from paths to entries, for which names alone are followed.
AllPaths == UNION {[1 .. k -> Name] : k \in 1 .. NumNodes - 1}
Find(h, p) ==
  LET at[k \in 0 .. Len(p)] ==
        IF k = 0 THEN Root
        ELSE IF at[k - 1] = None THEN None ELSE findChildFold(h, at[k - 1], p[k])
  IN  at[Len(p)]

FilesOf(h) ==
  [p \in {q \in AllPaths : Find(h, q) # None} |->
     LET x == Find(h, p) IN [kind |-> h[x].kind, hash |-> h[x].hash]]

Becomes(h) == heap' = Renumbered(h) /\ files' = FilesOf(h)

\* Entries that an operation may create, and that must be free (a bound).
Room(n) == Cardinality({x \in Node : heap[x].kind = "unused"}) >= n

Init ==
  /\ heap = [x \in Node |->
               IF x = Root THEN Fresh("dir", CHOOSE n \in Name : TRUE, NoHash) ELSE Unused]
  /\ files = <<>>

DoLookup == \E p \in Paths : Becomes(Lookup(heap, p).heap)
DoAdd == \E p \in Paths, s \in Hash : Room(Len(p)) /\ Becomes(Add(heap, p, s).heap)
DoPlace == \E p \in Paths, s \in Hash : Room(Len(p)) /\ Becomes(placeFile(heap, p, s).heap)
DoAttach ==
  \E p \in Paths, n \in Name, s \in Hash : Room(Len(p) + 1) /\ Becomes(AttachAt(heap, p, n, s).heap)
DoRemove == \E p \in Paths : Becomes(RemoveEntry(heap, p).heap)
DoRename == \E p, q \in Paths : Room(Len(q)) /\ Becomes(Rename(heap, p, q).heap)

Next == DoLookup \/ DoAdd \/ DoPlace \/ DoAttach \/ DoRemove \/ DoRename

Spec == Init /\ [][Next]_vars

(* One more caller, driver.Uninstall, takes a package's folder out of        *)
(* Children itself, by shifting the others within the slice.                 *)

\* removeChild: append(children[:i], children[i+1:]...), without the capacity
\* limit package wim has: same array, one child less, one more place to spare.
removeChild(h, parent, name) ==
  LET i == Position(h, parent, name)
  IN  IF findChildFold(h, parent, name) = None THEN Error(h)
      ELSE Done([h EXCEPT ![parent].kids = RemoveAt(@, i), ![parent].spare = @ + 1])

\* The caller has navigated to the parent directory by Lookup.
DoUninstall ==
  \E p \in Paths, n \in Name :
    LET w == Lookup(heap, p)
    IN  w.ok /\ IsDirectory(w.heap, w.at) /\ Becomes(removeChild(w.heap, w.at, n).heap)

NextWithUninstall == Next \/ DoUninstall

SpecWithUninstall == Init /\ [][NextWithUninstall]_vars
-----------------------------------------------------------------------------
Live == Below(heap, Root)

TypeOK ==
  \A x \in Node :
    /\ heap[x].kind \in {"dir", "file", "unused"}
    /\ heap[x].name \in Name
    /\ heap[x].hash \in Hash \cup {NoHash}
    /\ heap[x].kids \in Seq(Node)
    /\ heap[x].spare \in Nat
    /\ heap[x].index.byName \in [Name -> Node \cup {None, Gone}]

\* (TypeOK is checked as part of IsTree.)
\* The tree is one: no entry is in two places or in its own subtree, only a
\* directory has children, and no two siblings have the same name.
IsTree ==
  /\ TypeOK
  /\ \A d \in Live : heap[d].kids # <<>> => heap[d].kind = "dir"
  /\ \A d, e \in Live : \A j \in DOMAIN heap[d].kids, k \in DOMAIN heap[e].kids :
       heap[d].kids[j] = heap[e].kids[k] => d = e /\ j = k
  /\ \A d \in Live : Root \notin ToSet(heap[d].kids)
  /\ \A d \in Live : \A j, k \in DOMAIN heap[d].kids :
       heap[heap[d].kids[j]].name = heap[heap[d].kids[k]].name => j = k

\* The comment on DirEntry.childIndex: callers "never observe a stale index".
\* An index that Child would believe says what a scan of the children says.
NeverStale ==
  \A d \in Live : sameChildrenSlice(heap, d) =>
    \A n \in Name : heap[d].index.byName[n] = findChildFold(heap, d, n)

\* The heap implements the map its paths make up.
Abstract == INSTANCE PathTree WITH
  Name <- Name, Hash <- Hash, NoHash <- NoHash, MaxPath <- MaxPath, files <- files
ImplementsPathTree == Abstract!Spec

\* Each operation, called on the tree as it is now, does to the map of paths
\* what it promises if the map allows it; else it returns an error, and every
\* entry is where it was -- also the directories it has made on its way.  What the
\* calls so far have left is a tree.
Agrees(r, can, after) ==
  r.ok = can /\ FilesOf(r.heap) = IF can THEN after ELSE files

OperationsAgree ==
  IsTree /\ \A p \in Paths :
    /\ Lookup(heap, p).ok = Abstract!Exists(files, p)
    /\ Lookup(heap, p).ok => Lookup(heap, p).at = Find(heap, p)
    /\ Agrees(RemoveEntry(heap, p), Abstract!CanRemove(files, p), Abstract!AfterRemove(files, p))
    /\ Room(Len(p)) =>
         /\ \A s \in Hash :
              /\ Agrees(Add(heap, p, s), Abstract!CanAdd(files, p), Abstract!AfterAdd(files, p, s))
              /\ Agrees(placeFile(heap, p, s), Abstract!CanPlace(files, p),
                        Abstract!AfterPlace(files, p, s))
         /\ \A q \in Paths :
              Agrees(Rename(heap, q, p), Abstract!CanRename(files, q, p),
                     Abstract!AfterRename(files, q, p))
    /\ Room(Len(p) + 1) => \A n \in Name, s \in Hash :
         Agrees(AttachAt(heap, p, n, s), Abstract!CanAttach(files, p),
                Abstract!AfterAttach(files, p, n, s))
=============================================================================
