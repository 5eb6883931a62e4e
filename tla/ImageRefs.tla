------------------------------ MODULE ImageRefs ------------------------------
(***************************************************************************)
(* Editing an image: the tree of files and the blob table that counts the  *)
(* references to each blob, under the calls that change both:              *)
(*                                                                         *)
(*   driver.Install, component.Install   place files and count them;       *)
(*   driver.Uninstall, component.Remove, appx.Remove   delete and uncount; *)
(*   registry.Hive.Save                  replaces one file's blob;         *)
(*   wim.RebuildBlobTable                recounts everything.              *)
(*                                                                         *)
(* The Install functions keep a map from hash to *BlobDescriptor: pointers *)
(* into bt.Entries' backing array.  An append that outgrows the array      *)
(* moves the entries, and what is later written through the pointers taken *)
(* before the move never reaches the table.  A pointer is therefore either *)
(* fresh (into the present array) or stale.                                *)
(*                                                                         *)
(* Calls do not overlap; an Install is modelled file by file because it    *)
(* may return an error between two files.                                  *)
(***************************************************************************)
EXTENDS Naturals, Sequences, FiniteSets, SequencesExt

CONSTANTS
  Hash,        \* the hashes of non-empty streams
  ZeroHash,    \* the hash of an empty stream, which has no table entry
  Manifest,    \* a component's manifest file
  Payload,     \* the files of one package's folder
  Hive,        \* a registry hive's file
  MaxFiles,    \* bound: files of one Install
  MaxRefs      \* bound: a RefCount

Path == {Manifest, Hive} \cup Payload

ASSUME RefsAssumption ==
  /\ IsFiniteSet(Hash)
  /\ ZeroHash \notin Hash
  /\ IsFiniteSet(Payload)
  /\ Manifest # Hive
  /\ Manifest \notin Payload /\ Hive \notin Payload
  /\ MaxFiles \in Nat
  /\ MaxRefs \in Nat

VARIABLES
  tree,      \* the files present and the hashes of their streams, unnamed first
  entries,   \* bt.Entries
  capacity,  \* cap(bt.Entries)
  call,      \* the Install in progress, or "idle"
  todo,      \* the files it has not placed yet
  fresh,     \* the hashes its map points into the present array for
  stale,     \* ... and those it points into an abandoned array for
  newBlobs,  \* the blobs it will return to the caller
  data,      \* the blobs whose bytes the caller can supply to WriteTo
  erred,     \* an Install has returned an error
  lost,      \* some RefCount++ went through a stale pointer
  last,      \* the files of the call just made, if component.Install succeeded
  before     \* the counts when the present call began, if it repeats the last

callVars == <<todo, fresh, stale, newBlobs>>
histVars == <<data, erred, lost, last, before>>
vars == <<tree, entries, capacity, call, callVars, histVars>>

Streams == UNION {[1 .. n -> Hash \cup {ZeroHash}] : n \in 0 .. 2}
File == [path : Path \ {Hive}, hash : Hash]
Entry == [hash : Hash, refs : Nat]

Idle == call = "idle"

Listed(es) == {es[k].hash : k \in DOMAIN es}

\* The streams of t that name h, each as its file and its number.
Places(t, h) == {s \in (DOMAIN t) \X {1, 2} : s[2] <= Len(t[s[1]]) /\ t[s[1]][s[2]] = h}

\* exportHashes: how often t's streams name h.
References(t, h) == Cardinality(Places(t, h))

Referenced(t) == (UNION {ToSet(t[p]) : p \in DOMAIN t}) \ {ZeroHash}

\* exportHashes and RebuildBlobTable: a fresh table with exact counts.  (The
\* order of its entries, that of the walk, is of no consequence.)
Recount(t) ==
  LET order == SetToSeq(Referenced(t))
  IN  [k \in DOMAIN order |-> [hash |-> order[k], refs |-> References(t, order[k])]]

MainHash(p) == IF tree[p] = <<>> THEN ZeroHash ELSE tree[p][1]

\* desc.RefCount++
Incremented(es, h) ==
  [k \in DOMAIN es |-> IF es[k].hash = h THEN [es[k] EXCEPT !.refs = @ + 1] ELSE es[k]]

\* if desc.RefCount > 0 { desc.RefCount-- }
Decremented(es, h) ==
  [k \in DOMAIN es |->
     IF es[k].hash = h /\ es[k].refs > 0 THEN [es[k] EXCEPT !.refs = @ - 1] ELSE es[k]]

\* Room for the counts n more references may need (a bound of the model).
Headroom(n) == \A k \in DOMAIN entries : entries[k].refs + n <= MaxRefs

TypeOK ==
  /\ DOMAIN tree \subseteq Path
  /\ \A p \in DOMAIN tree : tree[p] \in Streams
  /\ entries \in Seq(Entry)
  /\ capacity \in Nat /\ Len(entries) <= capacity
  /\ call \in {"idle", "driver", "component"}
  /\ todo \in Seq(File)
  /\ fresh \in SUBSET Hash /\ stale \in SUBSET Hash
  /\ newBlobs \in SUBSET Hash /\ data \in SUBSET Hash
  /\ erred \in BOOLEAN /\ lost \in BOOLEAN

\* An image and its table as read from a file: exact counts, and a slice made
\* with exactly the table's length as its capacity.
Init ==
  /\ tree \in UNION {[ps -> Streams] : ps \in {qs \in SUBSET Path : Hive \in qs}}
  /\ \A p \in DOMAIN tree \ Payload : Len(tree[p]) <= 1
  /\ \A h \in Hash : References(tree, h) < MaxRefs
  /\ entries = Recount(tree)
  /\ capacity = Len(entries)
  /\ call = "idle"
  /\ todo = <<>>
  /\ fresh = {} /\ stale = {}
  /\ newBlobs = {}
  /\ data = Listed(entries)
  /\ erred = FALSE
  /\ lost = FALSE
  /\ last = <<>>
  /\ before = <<>>
-----------------------------------------------------------------------------
\* bt.Entries = append(bt.Entries, ...): in place while there is room, else
\* into a new array, just large enough or with room to spare, which leaves
\* every pointer stale.
AppendEntry(es, h) ==
  /\ entries' = Append(es, [hash |-> h, refs |-> 1])
  /\ IF Len(es) < capacity
       THEN UNCHANGED capacity
       ELSE capacity' \in {Len(es) + 1, 2 * Len(es) + 2}

Moves(es) == Len(es) = capacity

\* The existing map is built from the table the call begins with.
Begin(kind, files) ==
  /\ Idle
  /\ files # <<>>
  /\ Headroom(Len(files))
  /\ call' = kind
  /\ todo' = files
  /\ fresh' = Listed(entries)
  /\ stale' = {}
  /\ newBlobs' = {}
  /\ before' = IF kind = "component" /\ files = last THEN entries ELSE <<>>
  /\ last' = IF kind = "component" THEN files ELSE <<>>
  /\ UNCHANGED <<tree, entries, capacity, data, erred, lost>>

\* Count one more reference to h in es, through the map or by a new entry.
CountThroughMap(es, h) ==
  IF h \in fresh \cup stale
    THEN /\ entries' = IF h \in fresh THEN Incremented(es, h) ELSE es
         /\ lost' = (lost \/ h \in stale)
         /\ UNCHANGED <<capacity, fresh, stale, newBlobs>>
    ELSE /\ AppendEntry(es, h)
         /\ fresh' = IF Moves(es) THEN {h} ELSE fresh \cup {h}
         /\ stale' = IF Moves(es) THEN stale \cup fresh ELSE stale
         /\ newBlobs' = newBlobs \cup {h}
         /\ UNCHANGED lost

\* placeFile: the leaf, new or not, gets the one stream; any other it had goes.
PlaceFile(p, h) ==
  tree' = [q \in DOMAIN tree \cup {p} |-> IF q = p THEN <<h>> ELSE tree[q]]

\* The call returns an error, and with it none of the blobs it has added.
Fails ==
  /\ call' = "idle"
  /\ todo' = <<>>
  /\ erred' = TRUE
  /\ last' = <<>>
  /\ before' = <<>>
  /\ UNCHANGED data

PlaceNext(h) ==
  /\ PlaceFile(Head(todo).path, h)
  /\ todo' = Tail(todo)
  /\ UNCHANGED <<call, data, erred, last, before>>

\* driver.Install, one file: it is counted, then placed.
DriverPlaces ==
  /\ call = "driver" /\ todo # <<>>
  /\ CountThroughMap(entries, Head(todo).hash)
  /\ PlaceNext(Head(todo).hash)

\* ... or it has no destination, cannot be read, or is not a PE image,
DriverRejects ==
  /\ call = "driver" /\ todo # <<>>
  /\ Fails
  /\ UNCHANGED <<tree, entries, capacity, fresh, stale, newBlobs, lost>>

\* ... or it is counted and then cannot be placed: a directory of its path
\* is the name of a file.
DriverBlocked ==
  /\ call = "driver" /\ todo # <<>>
  /\ Head(todo).path \notin DOMAIN tree
  /\ CountThroughMap(entries, Head(todo).hash)
  /\ Fails
  /\ UNCHANGED tree

\* Mutant: an overwritten file is not taken off its old blob's count.
ReplacedUncounted(p) == entries

\* component.Install's placer: the count of what the file held goes down ...
Replaced(p) ==
  IF p \in DOMAIN tree /\ MainHash(p) \in fresh
    THEN Decremented(entries, MainHash(p)) ELSE entries

\* Mutant: the count goes down before the comparison with the new hash.
ComponentKeepsLate ==
  /\ call = "component" /\ todo # <<>>
  /\ LET f == Head(todo) IN f.path \in DOMAIN tree /\ MainHash(f.path) = f.hash
  /\ entries' = Replaced(Head(todo).path)
  /\ todo' = Tail(todo)
  /\ UNCHANGED <<tree, capacity, call, fresh, stale, newBlobs, histVars>>

\* ... unless it already is this very file,
ComponentKeeps ==
  /\ call = "component" /\ todo # <<>>
  /\ LET f == Head(todo) IN f.path \in DOMAIN tree /\ MainHash(f.path) = f.hash
  /\ todo' = Tail(todo)
  /\ UNCHANGED <<tree, entries, capacity, call, fresh, stale, newBlobs, histVars>>

ComponentPlaces ==
  /\ call = "component" /\ todo # <<>>
  /\ LET f == Head(todo)
     IN  /\ ~(f.path \in DOMAIN tree /\ MainHash(f.path) = f.hash)
         /\ CountThroughMap(Replaced(f.path), f.hash)
         /\ PlaceNext(f.hash)

ComponentBlocked ==
  /\ call = "component" /\ todo # <<>>
  /\ Head(todo).path \notin DOMAIN tree
  /\ CountThroughMap(entries, Head(todo).hash)
  /\ Fails
  /\ UNCHANGED tree

\* Mutant: the caller is not given the new blobs.
InstallReturnsNothing ==
  /\ ~Idle
  /\ todo = <<>>
  /\ call' = "idle"
  /\ last' = IF call = "component" THEN last ELSE <<>>
  /\ before' = <<>>
  /\ UNCHANGED <<tree, entries, capacity, callVars, data, erred, lost>>

\* The call returns newBlobs, and the caller keeps their bytes.
InstallReturns ==
  /\ ~Idle
  /\ todo = <<>>
  /\ call' = "idle"
  /\ data' = data \cup newBlobs
  /\ last' = IF call = "component" THEN last ELSE <<>>
  /\ before' = <<>>
  /\ UNCHANGED <<tree, entries, capacity, callVars, erred, lost>>
-----------------------------------------------------------------------------
\* Mutant: only the unnamed streams are uncounted.
UncountedMainOnly(es, gone) ==
  [k \in DOMAIN es |->
     LET n == Cardinality({p \in gone : MainHash(p) = es[k].hash})
     IN  [es[k] EXCEPT !.refs = IF n <= @ THEN @ - n ELSE 0]]

\* Mutant: an entry whose count reaches zero is dropped from the table.
UncountedReclaim(es, gone) ==
  SelectSeq([k \in DOMAIN es |->
     LET n == References([p \in gone |-> tree[p]], es[k].hash)
     IN  [es[k] EXCEPT !.refs = IF n <= @ THEN @ - n ELSE 0]], LAMBDA e : e.refs > 0)

\* decrementBlobRefs over the removed files: a fresh map, one count a stream,
\* never below zero, and never an entry removed.
Uncounted(es, gone) ==
  [k \in DOMAIN es |->
     LET n == References([p \in gone |-> tree[p]], es[k].hash)
     IN  [es[k] EXCEPT !.refs = IF n <= @ THEN @ - n ELSE 0]]

Remaining(gone) == [p \in DOMAIN tree \ gone |-> tree[p]]

ForgetCall == last' = <<>> /\ UNCHANGED <<call, callVars, erred, lost, before>>

\* Delete some files; what is already gone is no error.
Delete(files) ==
  LET gone == files \cap DOMAIN tree
  IN  /\ Idle
      /\ gone # {}
      /\ entries' = Uncounted(entries, gone)
      /\ tree' = Remaining(gone)
      /\ ForgetCall
      /\ UNCHANGED <<capacity, data>>

\* driver.Uninstall and appx.Remove delete a package's folder.
RemoveFolder == Delete(Payload)

\* component.Remove deletes a manifest and its folder.
RemoveComponent == Delete({Manifest} \cup Payload)

\* Either may be called without a blob table.
RemoveWithoutTable ==
  LET gone == Payload \cap DOMAIN tree
  IN  /\ Idle
      /\ gone # {}
      /\ tree' = Remaining(gone)
      /\ ForgetCall
      /\ UNCHANGED <<entries, capacity, data>>

\* registry.Hive.Save: the hive now serialises to bytes with hash h.
SaveHive(h) ==
  LET old  == MainHash(Hive)
      less == IF old # h THEN Decremented(entries, old) ELSE entries
  IN  /\ Idle
      /\ Headroom(1)
      /\ IF h \in Listed(entries)
           THEN /\ entries' = IF old # h THEN Incremented(less, h) ELSE less
                /\ UNCHANGED <<capacity, data>>
           ELSE /\ AppendEntry(less, h)
                /\ data' = data \cup {h}
      /\ PlaceFile(Hive, h)
      /\ ForgetCall

\* The caller goes on with RebuildBlobTable's table.
Rebuild ==
  /\ Idle
  /\ Referenced(tree) \subseteq Listed(entries)
  /\ entries' = Recount(tree)
  /\ capacity' = Cardinality(Referenced(tree))
  /\ lost' = FALSE
  /\ last' = <<>>
  /\ UNCHANGED <<tree, call, callVars, data, erred, before>>

Install == \E kind \in {"driver", "component"}, files \in BoundedSeq(File, MaxFiles) : Begin(kind, files)

Next ==
  \/ Install
  \/ DriverPlaces \/ DriverRejects \/ DriverBlocked
  \/ ComponentKeeps \/ ComponentPlaces \/ ComponentBlocked
  \/ InstallReturns
  \/ RemoveFolder \/ RemoveComponent \/ RemoveWithoutTable
  \/ \E h \in Hash : SaveHive(h)
  \/ Rebuild

Spec == Init /\ [][Next]_vars
-----------------------------------------------------------------------------
Refs(h) == LET k == CHOOSE k \in DOMAIN entries : entries[k].hash = h IN entries[k].refs

\* Whatever was installed, removed, saved or has failed half way, every stream
\* still finds its blob's entry, and finds one only: RebuildBlobTable does not
\* fail.  It is why no call may drop an entry whose count has reached zero.
TableCoversTree ==
  /\ Referenced(tree) \subseteq Listed(entries)
  /\ \A j, k \in DOMAIN entries : entries[j].hash = entries[k].hash => j = k

\* As long as no Install has returned an error, the caller has been given the
\* bytes of every blob the table lists, so WriteTo can be supplied with them.
NewBlobsReturned == Idle /\ ~erred => Listed(entries) \subseteq data

\* While no count has been lost through a stale pointer, no blob has more
\* references than its RefCount says: counts drift upwards only, so a count of
\* zero does mean that nothing refers to the blob.  Nor does a count that has
\* drifted ever go below zero, which in the code's uint32 would be a huge one.
NeverUndercounts ==
  /\ TypeOK
  /\ ~lost => \A h \in Referenced(tree) : References(tree, h) <= Refs(h)

\* driver.Install: "an existing entry's RefCount is incremented"; the placer:
\* "refcounted per placement".  So no reference goes uncounted, ever.
EveryPlacementCounted == \A h \in Referenced(tree) : References(tree, h) <= Refs(h)

\* Removing a package takes off exactly the references it held.
RemovalIsExact ==
  [][(RemoveFolder \/ RemoveComponent) /\ ~lost =>
       \A h \in Listed(entries) : Refs(h) - Refs(h)' = References(tree, h) - References(tree', h)]_vars

\* component.Install: "calling Install twice with the same Installation does
\* not inflate refcounts".
Repeats == call = "component" /\ before # <<>>
ReinstallKeepsCounts ==
  Repeats /\ todo = <<>> /\ ~lost => \A k \in DOMAIN before : entries[k].refs <= before[k].refs
=============================================================================
