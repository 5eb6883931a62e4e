-------------------------- MODULE ImageRefs_proofs --------------------------
(***************************************************************************)
(* Proofs about ImageRefs: for any number of hashes, files and calls, the  *)
(* table lists each blob of the tree once, the caller is given the bytes   *)
(* of what it lists, counts err upwards only, and installing a component   *)
(* again changes none of them.                                             *)
(***************************************************************************)
EXTENDS ImageRefs, FiniteSetTheorems, TLAPS

\* A set in some order: each element at one place.
LEMMA InSomeOrder ==
  ASSUME NEW S, IsFiniteSet(S)
  PROVE  /\ Cardinality(S) \in Nat
         /\ SetToSeq(S) \in [1 .. Cardinality(S) -> S]
         /\ \A j, k \in 1 .. Cardinality(S) : SetToSeq(S)[j] = SetToSeq(S)[k] => j = k
         /\ \A x \in S : \E k \in 1 .. Cardinality(S) : SetToSeq(S)[k] = x
<1> DEFINE n == Cardinality(S)
           f == SetToSeq(S)
<1>1. n \in Nat /\ ExistsBijection(1 .. n, S)
  BY FS_CardinalityType
<1>2. \E g \in [1 .. n -> S] : IsInjective(g)
  BY <1>1 DEF ExistsBijection, Bijection, Injection
<1>3. f \in [1 .. n -> S] /\ IsInjective(f)
  BY <1>2 DEF SetToSeq
<1>4. Cardinality(1 .. n) = n
  BY <1>1, FS_Interval
<1>5. f \in Injection(1 .. n, S)
  BY <1>3 DEF Injection
<1>6. f \in Surjection(1 .. n, S)
  BY <1>4, <1>5, FS_Injection
<1>7. QED
  BY <1>1, <1>3, <1>6 DEF IsInjective, Surjection
-----------------------------------------------------------------------------
(* What is listed, and where the tree refers to it.                        *)

Tree(t) == DOMAIN t \subseteq Path /\ \A p \in DOMAIN t : t[p] \in Streams

ListedOnce(es) == \A j, k \in DOMAIN es : es[j].hash = es[k].hash => j = k

LEMMA EntriesType ==
  ASSUME NEW es \in Seq(Entry)
  PROVE  /\ Len(es) \in Nat /\ DOMAIN es = 1 .. Len(es)
         /\ \A k \in DOMAIN es : es[k] \in Entry /\ es[k].hash \in Hash /\ es[k].refs \in Nat
<1>1. \A k \in DOMAIN es : es[k] \in Entry
  OBVIOUS
<1>2. QED
  BY <1>1 DEF Entry

LEMMA EntriesMade ==
  ASSUME NEW es \in Seq(Entry), NEW fs, fs = [k \in DOMAIN es |-> fs[k]],
         \A k \in DOMAIN es : fs[k] \in Entry
  PROVE  fs \in Seq(Entry) /\ Len(fs) = Len(es)
<1>1. Len(es) \in Nat /\ DOMAIN es = 1 .. Len(es)
  OBVIOUS
<1>2. fs \in [1 .. Len(es) -> Entry]
  BY <1>1
<1>3. QED
  BY <1>1, <1>2

LEMMA StreamsOfOne ==
  ASSUME NEW h \in Hash
  PROVE  <<h>> \in Streams /\ Len(<<h>>) = 1 /\ <<h>>[1] = h /\ ToSet(<<h>>) = {h}
<1>1. <<h>> \in [1 .. 1 -> Hash \cup {ZeroHash}]
  OBVIOUS
<1>2. QED
  BY <1>1 DEF Streams, ToSet

LEMMA StreamsType ==
  ASSUME NEW s \in Streams
  PROVE  /\ Len(s) \in 0 .. 2 /\ DOMAIN s = 1 .. Len(s)
         /\ ToSet(s) \subseteq Hash \cup {ZeroHash}
         /\ s # <<>> => 1 \in DOMAIN s
<1>1. PICK n \in 0 .. 2 : s \in [1 .. n -> Hash \cup {ZeroHash}]
  BY DEF Streams
<1>2. s \in Seq(Hash \cup {ZeroHash}) /\ Len(s) = n
  BY <1>1
<1>3. QED
  BY <1>1, <1>2 DEF ToSet

LEMMA PathsFinite == IsFiniteSet(Path)
<1>1. Path = (Payload \cup {Manifest}) \cup {Hive}
  BY DEF Path
<1>2. QED
  BY <1>1, RefsAssumption, FS_AddElement DEF RefsAssumption

LEMMA PlacesFinite ==
  ASSUME NEW t, Tree(t), NEW h
  PROVE  IsFiniteSet(Places(t, h)) /\ References(t, h) \in Nat
<1>1. IsFiniteSet({1, 2})
  <2>1. {1, 2} = {1} \cup {2}
    OBVIOUS
  <2>2. IsFiniteSet({1})
    BY FS_Singleton, Zenon
  <2>3. IsFiniteSet({1} \cup {2})
    BY <2>2, FS_AddElement
  <2>4. QED
    BY <2>1, <2>3, Zenon
<1>2. IsFiniteSet(DOMAIN t)
  BY PathsFinite, FS_Subset DEF Tree
<1>3. IsFiniteSet((DOMAIN t) \X {1, 2})
  BY <1>1, <1>2, FS_Product
<1>4. Places(t, h) \in SUBSET ((DOMAIN t) \X {1, 2})
  BY DEF Places
<1>5. IsFiniteSet(Places(t, h))
  BY <1>3, <1>4, FS_Subset
<1>6. QED
  BY <1>5, FS_CardinalityType DEF References

LEMMA UnreferencedHasNoPlace ==
  ASSUME NEW t, Tree(t), NEW h \in Hash, h \notin Referenced(t)
  PROVE  References(t, h) = 0
<1>1. Places(t, h) = {}
  <2> SUFFICES ASSUME NEW s \in Places(t, h) PROVE FALSE
    OBVIOUS
  <2>1. s[1] \in DOMAIN t /\ s[2] \in {1, 2} /\ s[2] <= Len(t[s[1]]) /\ t[s[1]][s[2]] = h
    BY DEF Places
  <2>2. s[2] \in DOMAIN t[s[1]]
    BY <2>1, StreamsType DEF Tree
  <2>3. h \in ToSet(t[s[1]])
    BY <2>1, <2>2 DEF ToSet
  <2>4. QED
    BY <2>1, <2>3, RefsAssumption DEF Referenced, RefsAssumption
<1>2. QED
  BY <1>1, FS_EmptySet DEF References

LEMMA ReferencedType ==
  ASSUME NEW t, Tree(t)
  PROVE  Referenced(t) \subseteq Hash /\ IsFiniteSet(Referenced(t))
<1>1. Referenced(t) \subseteq Hash
  BY StreamsType DEF Referenced, Tree
<1>2. QED
  BY <1>1, RefsAssumption, FS_Subset DEF RefsAssumption

LEMMA RecountIsExact ==
  ASSUME NEW t, Tree(t)
  PROVE  /\ Recount(t) \in Seq(Entry) /\ Len(Recount(t)) = Cardinality(Referenced(t))
         /\ Cardinality(Referenced(t)) \in Nat
         /\ ListedOnce(Recount(t)) /\ Listed(Recount(t)) = Referenced(t)
         /\ \A k \in DOMAIN Recount(t) : Recount(t)[k].refs = References(t, Recount(t)[k].hash)
<1> DEFINE S == Referenced(t)
           n == Cardinality(S)
           f == SetToSeq(S)
<1>1. S \subseteq Hash /\ IsFiniteSet(S)
  BY ReferencedType
<1>2. /\ n \in Nat /\ f \in [1 .. n -> S]
      /\ \A j, k \in 1 .. n : f[j] = f[k] => j = k
      /\ \A x \in S : \E k \in 1 .. n : f[k] = x
  BY <1>1, InSomeOrder
<1>3. \A h : References(t, h) \in Nat
  BY PlacesFinite
<1>4. Recount(t) = [k \in 1 .. n |-> [hash |-> f[k], refs |-> References(t, f[k])]]
  BY <1>2 DEF Recount
<1> HIDE DEF f, n, S
<1>5. \A k \in 1 .. n : [hash |-> f[k], refs |-> References(t, f[k])] \in Entry
  BY <1>1, <1>2, <1>3 DEF Entry
<1>6. Recount(t) \in Seq(Entry) /\ Len(Recount(t)) = n
  BY <1>2, <1>4, <1>5
<1>7. QED
  BY <1>2, <1>4, <1>6 DEF S, n, ListedOnce, Listed
-----------------------------------------------------------------------------
(* How an operation on the tree changes the number of references.          *)

\* A file that holds h alone names h once more at most, and what the file named
\* first before is named once less.
LEMMA PlacingCounts ==
  ASSUME Tree(tree), NEW p \in Path, NEW h \in Hash, PlaceFile(p, h)
  PROVE  /\ Tree(tree')
         /\ Referenced(tree') \subseteq Referenced(tree) \cup {h}
         /\ \A g \in Hash : References(tree', g) <= References(tree, g) + (IF g = h THEN 1 ELSE 0)
         /\ p \in DOMAIN tree /\ MainHash(p) \in Hash =>
              LET old == MainHash(p)
              IN  IF old = h THEN References(tree', h) <= References(tree, h)
                             ELSE References(tree', old) + 1 <= References(tree, old)
<1>1. /\ DOMAIN tree' = DOMAIN tree \cup {p}
      /\ tree'[p] = <<h>>
      /\ \A q \in DOMAIN tree : q # p => tree'[q] = tree[q]
  BY DEF PlaceFile
<1>2. Tree(tree')
  BY <1>1, StreamsOfOne DEF Tree
<1>3. Referenced(tree') \subseteq Referenced(tree) \cup {h}
  BY <1>1, StreamsOfOne DEF Referenced
<1>4. \A g \in Hash : /\ IsFiniteSet(Places(tree, g)) /\ References(tree, g) \in Nat
                      /\ IsFiniteSet(Places(tree', g)) /\ References(tree', g) \in Nat
  BY <1>2, PlacesFinite
<1>5. \A g \in Hash : g # h => Places(tree', g) \subseteq Places(tree, g) \ {<<p, 1>>}
  <2> SUFFICES ASSUME NEW g \in Hash, g # h, NEW s \in Places(tree', g)
               PROVE  s \in Places(tree, g) /\ s # <<p, 1>>
    OBVIOUS
  <2>1. /\ s \in (DOMAIN tree') \X {1, 2} /\ s[2] <= Len(tree'[s[1]])
        /\ tree'[s[1]][s[2]] = g
    BY DEF Places
  <2>2. s[1] # p
    BY <1>1, <2>1, StreamsOfOne
  <2>3. QED
    BY <1>1, <2>1, <2>2 DEF Places
<1>6. Places(tree', h) \subseteq Places(tree, h) \cup {<<p, 1>>}
  <2> SUFFICES ASSUME NEW s \in Places(tree', h), s # <<p, 1>> PROVE s \in Places(tree, h)
    OBVIOUS
  <2>1. /\ s \in (DOMAIN tree') \X {1, 2} /\ s[2] <= Len(tree'[s[1]])
        /\ tree'[s[1]][s[2]] = h
    BY DEF Places
  <2>2. s[1] # p
    BY <1>1, <2>1, StreamsOfOne
  <2>3. QED
    BY <1>1, <2>1, <2>2 DEF Places
<1>7. ASSUME NEW g \in Hash
      PROVE  References(tree', g) <= References(tree, g) + (IF g = h THEN 1 ELSE 0)
  <2>1. CASE g = h
    <3>1. /\ IsFiniteSet(Places(tree, h) \cup {<<p, 1>>})
          /\ Cardinality(Places(tree, h) \cup {<<p, 1>>}) <= References(tree, h) + 1
      <4> DEFINE S == Places(tree, h)
      <4>1. IsFiniteSet(S) /\ Cardinality(S) = References(tree, h) /\ Cardinality(S) \in Nat
        BY <1>4 DEF References
      <4> HIDE DEF S
      <4>2. /\ IsFiniteSet(S \cup {<<p, 1>>})
            /\ Cardinality(S \cup {<<p, 1>>}) = IF <<p, 1>> \in S THEN Cardinality(S) ELSE Cardinality(S) + 1
        BY <4>1, FS_AddElement
      <4>3. QED
        BY <4>1, <4>2 DEF S
    <3>2. Cardinality(Places(tree', h)) <= Cardinality(Places(tree, h) \cup {<<p, 1>>})
      BY <1>6, <3>1, FS_Subset
    <3>3. Cardinality(Places(tree, h) \cup {<<p, 1>>}) \in Nat
      BY <3>1, FS_CardinalityType
    <3>4. QED
      BY <1>4, <2>1, <3>1, <3>2, <3>3 DEF References
  <2>2. CASE g # h
    <3>1. Cardinality(Places(tree', g)) <= Cardinality(Places(tree, g))
      BY <1>4, <1>5, <2>2, FS_Subset
    <3>2. QED
      BY <1>4, <2>2, <3>1 DEF References
  <2>3. QED
    BY <2>1, <2>2
<1>8. ASSUME p \in DOMAIN tree, MainHash(p) \in Hash
      PROVE  LET old == MainHash(p)
             IN  IF old = h THEN References(tree', h) <= References(tree, h)
                            ELSE References(tree', old) + 1 <= References(tree, old)
  <2> DEFINE old == MainHash(p)
  <2>1. <<p, 1>> \in Places(tree, old)
    <3>1. tree[p] # <<>> /\ tree[p][1] = old
      BY <1>8, RefsAssumption DEF MainHash, RefsAssumption
    <3>2. 1 \in DOMAIN tree[p] /\ 1 <= Len(tree[p])
      BY <1>8, <3>1, StreamsType DEF Tree
    <3>3. QED
      BY <1>8, <3>1, <3>2 DEF Places
  <2>2. CASE old = h
    <3>1. Places(tree', h) \subseteq Places(tree, h)
      BY <1>6, <2>1, <2>2
    <3>2. Cardinality(Places(tree', h)) <= Cardinality(Places(tree, h))
      BY <1>4, <3>1, FS_Subset
    <3>3. QED
      BY <2>2, <3>2 DEF References
  <2>3. CASE old # h
    <3>1. /\ IsFiniteSet(Places(tree, old) \ {<<p, 1>>})
          /\ Cardinality(Places(tree, old) \ {<<p, 1>>}) = References(tree, old) - 1
      BY <1>4, <1>8, <2>1, FS_RemoveElement DEF References
    <3>2. Cardinality(Places(tree', old)) <= Cardinality(Places(tree, old) \ {<<p, 1>>})
      BY <1>5, <1>8, <2>3, <3>1, FS_Subset
    <3>3. QED
      BY <1>4, <1>8, <2>3, <3>1, <3>2 DEF References
  <2>4. QED
    BY <2>2, <2>3
<1>9. QED
  BY <1>2, <1>3, <1>7, <1>8

\* Removed files take their references with them, and no others.
LEMMA RemovingCounts ==
  ASSUME Tree(tree), NEW gone \in SUBSET (DOMAIN tree)
  PROVE  /\ Tree(Remaining(gone)) /\ Tree([p \in gone |-> tree[p]])
         /\ Referenced(Remaining(gone)) \subseteq Referenced(tree)
         /\ \A h \in Hash : References(tree, h) =
              References(Remaining(gone), h) + References([p \in gone |-> tree[p]], h)
<1> DEFINE rest == Remaining(gone)
           part == [p \in gone |-> tree[p]]
<1>1. /\ DOMAIN rest = DOMAIN tree \ gone /\ \A p \in DOMAIN rest : rest[p] = tree[p]
      /\ DOMAIN part = gone /\ \A p \in gone : part[p] = tree[p]
  BY DEF Remaining
<1>2. Tree(rest) /\ Tree(part)
  BY <1>1 DEF Tree
<1>3. Referenced(rest) \subseteq Referenced(tree)
  BY <1>1 DEF Referenced
<1>4. ASSUME NEW h \in Hash
      PROVE  References(tree, h) = References(rest, h) + References(part, h)
  <2>1. /\ Places(tree, h) = Places(rest, h) \cup Places(part, h)
        /\ Places(rest, h) \cap Places(part, h) = {}
    BY <1>1 DEF Places
  <2>2. /\ IsFiniteSet(Places(rest, h)) /\ References(rest, h) \in Nat
        /\ IsFiniteSet(Places(part, h)) /\ References(part, h) \in Nat
    BY <1>2, PlacesFinite
  <2>3. QED
    <3> DEFINE S == Places(rest, h)
               T == Places(part, h)
    <3>1. /\ IsFiniteSet(S) /\ Cardinality(S) = References(rest, h) /\ Cardinality(S) \in Nat
          /\ IsFiniteSet(T) /\ Cardinality(T) = References(part, h) /\ Cardinality(T) \in Nat
          /\ Cardinality(S \cup T) = References(tree, h) /\ S \cap T = {}
      BY <2>1, <2>2 DEF References
    <3> HIDE DEF S, T
    <3>2. Cardinality(S \cup T) = Cardinality(S) + Cardinality(T) - Cardinality(S \cap T)
      BY <3>1, FS_Union
    <3>3. Cardinality(S \cap T) = 0
      BY <3>1, FS_EmptySet
    <3>4. QED
      BY <3>1, <3>2, <3>3
<1>5. QED
  BY <1>2, <1>3, <1>4
-----------------------------------------------------------------------------
(* What the calls do to the table.                                         *)

\* The same entries in the same order, with other counts.
SameHashes(es, fs) ==
  /\ fs \in Seq(Entry) /\ Len(fs) = Len(es)
  /\ \A k \in DOMAIN es : fs[k].hash = es[k].hash

LEMMA SameHashesListed ==
  ASSUME NEW es \in Seq(Entry), NEW fs, SameHashes(es, fs)
  PROVE  /\ DOMAIN fs = DOMAIN es /\ Listed(fs) = Listed(es)
         /\ ListedOnce(es) => ListedOnce(fs)
BY DEF SameHashes, Listed, ListedOnce

LEMMA IncrementedOne ==
  ASSUME NEW es \in Seq(Entry), NEW h
  PROVE  /\ SameHashes(es, Incremented(es, h))
         /\ \A k \in DOMAIN es : Incremented(es, h)[k].refs =
              es[k].refs + (IF es[k].hash = h THEN 1 ELSE 0)
<1>1. \A k \in DOMAIN es :
        /\ Incremented(es, h)[k] \in Entry
        /\ Incremented(es, h)[k].hash = es[k].hash
        /\ Incremented(es, h)[k].refs = es[k].refs + (IF es[k].hash = h THEN 1 ELSE 0)
  <2>1. \A k \in DOMAIN es : es[k] \in Entry
    BY EntriesType
  <2>2. QED
    BY <2>1 DEF Incremented, Entry
<1>2. Incremented(es, h) \in Seq(Entry) /\ Len(Incremented(es, h)) = Len(es)
  BY <1>1, EntriesMade DEF Incremented
<1>3. QED
  BY <1>1, <1>2 DEF SameHashes

LEMMA DecrementedOne ==
  ASSUME NEW es \in Seq(Entry), NEW h
  PROVE  /\ SameHashes(es, Decremented(es, h))
         /\ \A k \in DOMAIN es : Decremented(es, h)[k].refs =
              IF es[k].hash = h /\ es[k].refs > 0 THEN es[k].refs - 1 ELSE es[k].refs
<1>1. \A k \in DOMAIN es :
        /\ Decremented(es, h)[k] \in Entry
        /\ Decremented(es, h)[k].hash = es[k].hash
        /\ Decremented(es, h)[k].refs =
             IF es[k].hash = h /\ es[k].refs > 0 THEN es[k].refs - 1 ELSE es[k].refs
  <2>1. \A k \in DOMAIN es : es[k] \in Entry
    BY EntriesType
  <2>2. QED
    BY <2>1 DEF Decremented, Entry
<1>2. Decremented(es, h) \in Seq(Entry) /\ Len(Decremented(es, h)) = Len(es)
  BY <1>1, EntriesMade DEF Decremented
<1>3. QED
  BY <1>1, <1>2 DEF SameHashes

LEMMA UncountedAll ==
  ASSUME Tree(tree), NEW es \in Seq(Entry), NEW gone \in SUBSET (DOMAIN tree)
  PROVE  /\ SameHashes(es, Uncounted(es, gone))
         /\ \A k \in DOMAIN es :
              LET n == References([p \in gone |-> tree[p]], es[k].hash)
              IN  Uncounted(es, gone)[k].refs = IF n <= es[k].refs THEN es[k].refs - n ELSE 0
<1> DEFINE n(k) == References([p \in gone |-> tree[p]], es[k].hash)
           fs == Uncounted(es, gone)
<1>1. \A k \in DOMAIN es : n(k) \in Nat
  BY RemovingCounts, PlacesFinite
<1>2. \A k \in DOMAIN es : es[k] \in Entry
  OBVIOUS
<1>3. fs = [k \in DOMAIN es |-> [es[k] EXCEPT !.refs = IF n(k) <= @ THEN @ - n(k) ELSE 0]]
  BY DEF Uncounted
<1> HIDE DEF n, fs
<1>4. \A k \in DOMAIN es :
        /\ fs[k] \in Entry /\ fs[k].hash = es[k].hash
        /\ fs[k].refs = IF n(k) <= es[k].refs THEN es[k].refs - n(k) ELSE 0
  BY <1>1, <1>2, <1>3 DEF Entry
<1>5. fs = [k \in DOMAIN es |-> fs[k]]
  BY <1>3
<1>6. fs \in Seq(Entry) /\ Len(fs) = Len(es)
  BY <1>4, <1>5, EntriesMade
<1>7. QED
  BY <1>4, <1>6 DEF SameHashes, fs, n

\* A new entry at the end of the table, whether the array moves or not.
LEMMA AppendedOne ==
  ASSUME NEW es \in Seq(Entry), NEW h \in Hash, h \notin Listed(es), ListedOnce(es),
         capacity \in Nat, Len(es) <= capacity, AppendEntry(es, h)
  PROVE  /\ entries' \in Seq(Entry) /\ Len(entries') = Len(es) + 1
         /\ capacity' \in Nat /\ Len(entries') <= capacity'
         /\ \A k \in DOMAIN es : entries'[k] = es[k]
         /\ entries'[Len(es) + 1] = [hash |-> h, refs |-> 1]
         /\ Listed(entries') = Listed(es) \cup {h} /\ ListedOnce(entries')
<1>1. [hash |-> h, refs |-> 1] \in Entry
  BY DEF Entry
<1>2. /\ entries' = Append(es, [hash |-> h, refs |-> 1])
      /\ capacity' \in Nat /\ Len(es) + 1 <= capacity'
  BY DEF AppendEntry
<1>3. /\ entries' \in Seq(Entry) /\ Len(entries') = Len(es) + 1
      /\ \A k \in DOMAIN es : entries'[k] = es[k]
      /\ entries'[Len(es) + 1] = [hash |-> h, refs |-> 1]
  BY <1>1, <1>2
<1>4. DOMAIN entries' = DOMAIN es \cup {Len(es) + 1}
  BY <1>3
<1>5. Listed(entries') = Listed(es) \cup {h} /\ ListedOnce(entries')
  BY <1>3, <1>4 DEF Listed, ListedOnce
<1>6. QED
  BY <1>2, <1>3, <1>5

\* fs counts one more h than es: in its entry, or in a new one.
OneMore(es, fs, h) ==
  /\ \A k \in DOMAIN es :
       /\ k \in DOMAIN fs /\ fs[k].hash = es[k].hash
       /\ fs[k].refs = es[k].refs + (IF es[k].hash = h THEN 1 ELSE 0)
  /\ \A k \in DOMAIN fs \ DOMAIN es : fs[k] = [hash |-> h, refs |-> 1] /\ h \notin Listed(es)

LEMMA IncrementedIsOneMore ==
  ASSUME NEW es \in Seq(Entry), NEW h
  PROVE  OneMore(es, Incremented(es, h), h)
<1>1. DOMAIN Incremented(es, h) = DOMAIN es
  BY IncrementedOne, SameHashesListed
<1>2. QED
  BY <1>1, IncrementedOne DEF OneMore, SameHashes

LEMMA AppendedIsOneMore ==
  ASSUME NEW es \in Seq(Entry), NEW h \in Hash, h \notin Listed(es), ListedOnce(es),
         capacity \in Nat, Len(es) <= capacity, AppendEntry(es, h)
  PROVE  OneMore(es, entries', h)
<1>1. /\ entries' \in Seq(Entry) /\ Len(entries') = Len(es) + 1
      /\ \A k \in DOMAIN es : entries'[k] = es[k]
      /\ entries'[Len(es) + 1] = [hash |-> h, refs |-> 1]
  BY AppendedOne
<1>2. DOMAIN entries' = DOMAIN es \cup {Len(es) + 1}
  BY <1>1
<1>3. \A k \in DOMAIN es : es[k].hash # h /\ es[k].refs \in Nat
  BY EntriesType DEF Listed
<1>4. QED
  BY <1>1, <1>2, <1>3 DEF OneMore

\* What an Install does to count a file, through its map or not: while nothing
\* is lost, the table counts one more.
LEMMA CountingOne ==
  ASSUME TypeOK, Listed(entries) = fresh \cup stale, ListedOnce(entries),
         NEW es, SameHashes(entries, es), NEW h \in Hash, CountThroughMap(es, h)
  PROVE  /\ entries' \in Seq(Entry) /\ capacity' \in Nat /\ Len(entries') <= capacity'
         /\ fresh' \in SUBSET Hash /\ stale' \in SUBSET Hash /\ newBlobs' \in SUBSET Hash
         /\ lost' \in BOOLEAN
         /\ Listed(entries') = fresh' \cup stale' /\ ListedOnce(entries')
         /\ Listed(entries') = Listed(entries) \cup {h}
         /\ newBlobs \subseteq newBlobs' /\ Listed(entries') \subseteq Listed(entries) \cup newBlobs'
         /\ ~lost' => ~lost /\ OneMore(es, entries', h)
<1>1. /\ entries \in Seq(Entry) /\ capacity \in Nat /\ Len(entries) <= capacity
      /\ fresh \in SUBSET Hash /\ stale \in SUBSET Hash /\ newBlobs \in SUBSET Hash /\ lost \in BOOLEAN
  BY DEF TypeOK
<1>2. /\ es \in Seq(Entry) /\ Len(es) = Len(entries) /\ Listed(es) = fresh \cup stale /\ ListedOnce(es)
  BY <1>1, SameHashesListed DEF SameHashes
<1>3. CASE h \in fresh
  <2>1. /\ entries' = Incremented(es, h) /\ lost' = (lost \/ h \in stale)
        /\ UNCHANGED <<capacity, fresh, stale, newBlobs>>
    BY <1>3 DEF CountThroughMap
  <2>2. SameHashes(es, entries') /\ OneMore(es, entries', h)
    BY <1>2, <2>1, IncrementedOne, IncrementedIsOneMore
  <2>3. Listed(entries') = Listed(es) /\ ListedOnce(entries')
    BY <1>2, <2>2, SameHashesListed
  <2>4. QED
    BY <1>1, <1>2, <1>3, <2>1, <2>2, <2>3 DEF SameHashes
<1>4. CASE h \in stale /\ h \notin fresh
  <2>1. /\ entries' = es /\ lost' = (lost \/ h \in stale)
        /\ UNCHANGED <<capacity, fresh, stale, newBlobs>>
    BY <1>4 DEF CountThroughMap
  <2>2. QED
    BY <1>1, <1>2, <1>4, <2>1
<1>5. CASE h \notin fresh \cup stale
  <2>1. /\ AppendEntry(es, h) /\ UNCHANGED lost
        /\ fresh' = (IF Moves(es) THEN {h} ELSE fresh \cup {h})
        /\ stale' = (IF Moves(es) THEN stale \cup fresh ELSE stale)
        /\ newBlobs' = newBlobs \cup {h}
    BY <1>5 DEF CountThroughMap
  <2>2. /\ entries' \in Seq(Entry) /\ capacity' \in Nat /\ Len(entries') <= capacity'
        /\ Listed(entries') = Listed(es) \cup {h} /\ ListedOnce(entries')
    BY <1>1, <1>2, <1>5, <2>1, AppendedOne
  <2>3. OneMore(es, entries', h)
    BY <1>1, <1>2, <1>5, <2>1, AppendedIsOneMore
  <2>4. QED
    BY <1>1, <1>2, <1>5, <2>1, <2>2, <2>3
<1>6. QED
  BY <1>3, <1>4, <1>5

\* No entry counts less than the references t has.
Enough(t, es) == \A k \in DOMAIN es : References(t, es[k].hash) <= es[k].refs

\* A table that counts one more h, and one less of what the file held before,
\* suffices for the tree in which the file holds h.
LEMMA PlacingKeepsEnough ==
  ASSUME Tree(tree), entries \in Seq(Entry), Referenced(tree) \subseteq Listed(entries),
         Enough(tree, entries),
         NEW p \in Path, NEW h \in Hash, PlaceFile(p, h),
         NEW es, \/ es = entries
                 \/ p \in DOMAIN tree /\ MainHash(p) # h /\ es = Decremented(entries, MainHash(p)),
         NEW fs \in Seq(Entry), OneMore(es, fs, h)
  PROVE  Enough(tree', fs)
<1>1. /\ es \in Seq(Entry) /\ DOMAIN es = DOMAIN entries /\ Listed(es) = Listed(entries)
      /\ \A k \in DOMAIN entries : es[k].hash = entries[k].hash
  BY DecrementedOne, SameHashesListed DEF SameHashes
<1>2. \A k \in DOMAIN entries : entries[k].hash \in Hash /\ entries[k].refs \in Nat
  BY EntriesType
<1>3. \A g \in Hash : References(tree, g) \in Nat /\ References(tree', g) \in Nat
  BY PlacingCounts, PlacesFinite
<1>4. ASSUME NEW k \in DOMAIN entries
      PROVE  References(tree', fs[k].hash) <= fs[k].refs
  <2> DEFINE g == entries[k].hash
  <2>1. /\ fs[k].hash = g /\ fs[k].refs = es[k].refs + (IF g = h THEN 1 ELSE 0)
    BY <1>1 DEF OneMore
  <2>2. References(tree, g) <= entries[k].refs
    BY DEF Enough
  <2>3. References(tree', g) <= References(tree, g) + (IF g = h THEN 1 ELSE 0)
    BY <1>2, PlacingCounts
  <2>4. CASE es[k].refs = entries[k].refs
    BY <1>2, <1>3, <2>1, <2>2, <2>3, <2>4
  <2>5. CASE es[k].refs # entries[k].refs
    <3>1. /\ p \in DOMAIN tree /\ MainHash(p) # h /\ MainHash(p) = g
          /\ es[k].refs = entries[k].refs - 1
      BY <2>5, DecrementedOne
    <3>2. References(tree', g) + 1 <= References(tree, g)
      BY <1>2, <3>1, PlacingCounts
    <3>3. QED
      BY <1>2, <1>3, <2>1, <2>2, <3>1, <3>2
  <2>6. QED
    BY <2>4, <2>5
<1>5. ASSUME NEW k \in DOMAIN fs, k \notin DOMAIN entries
      PROVE  References(tree', fs[k].hash) <= fs[k].refs
  <2>1. fs[k].hash = h /\ fs[k].refs = 1 /\ h \notin Listed(es)
    BY <1>1, <1>5 DEF OneMore
  <2>2. References(tree, h) = 0
    BY <1>1, <2>1, UnreferencedHasNoPlace
  <2>3. QED
    BY <1>3, <2>1, <2>2, PlacingCounts
<1>6. QED
  BY <1>1, <1>4, <1>5 DEF Enough
-----------------------------------------------------------------------------
(* The inductive invariant.                                                *)

\* During a call its map, fresh or stale, has exactly the hashes of the table,
\* so that what is not in it is not listed either.
Mapped == call # "idle" => Listed(entries) = fresh \cup stale

\* What the caller cannot supply, the call at hand will return.
Supplied == ~erred => Listed(entries) \subseteq data \cup (IF Idle THEN {} ELSE newBlobs)

Counted == ~lost => Enough(tree, entries)

ImageInv == TypeOK /\ TableCoversTree /\ Hive \in DOMAIN tree /\ Mapped /\ Supplied /\ Counted

LEMMA TypeOfTree == TypeOK => Tree(tree)
BY DEF TypeOK, Tree

LEMMA CoversTreeListedOnce ==
  TableCoversTree <=> Referenced(tree) \subseteq Listed(entries) /\ ListedOnce(entries)
BY DEF TableCoversTree, ListedOnce

LEMMA ImageInit == Init => ImageInv
<1> SUFFICES ASSUME Init PROVE ImageInv
  OBVIOUS
<1>1. Tree(tree) /\ Hive \in DOMAIN tree
  BY DEF Init, Tree
<1>2. /\ entries \in Seq(Entry) /\ Len(entries) \in Nat
      /\ ListedOnce(entries) /\ Listed(entries) = Referenced(tree)
      /\ \A k \in DOMAIN entries : entries[k].refs = References(tree, entries[k].hash)
  BY <1>1, RecountIsExact DEF Init
<1>3. Referenced(tree) \subseteq Hash
  BY <1>1, ReferencedType
<1>4. TypeOK
  <2>1. Len(entries) <= capacity /\ capacity \in Nat
    BY <1>2 DEF Init
  <2>2. data \in SUBSET Hash
    BY <1>2, <1>3 DEF Init
  <2>3. /\ call \in {"idle", "driver", "component"} /\ todo \in Seq(File)
        /\ fresh \in SUBSET Hash /\ stale \in SUBSET Hash /\ newBlobs \in SUBSET Hash
    BY DEF Init
  <2>4. erred \in BOOLEAN /\ lost \in BOOLEAN
    BY DEF Init
  <2>5. QED
    <3>1. entries \in Seq(Entry)
      BY <1>2
    <3>2. DOMAIN tree \subseteq Path /\ \A p \in DOMAIN tree : tree[p] \in Streams
      BY <1>1 DEF Tree
    <3>3. QED
      BY <2>1, <2>2, <2>3, <2>4, <3>1, <3>2 DEF TypeOK
<1>5. TableCoversTree
  BY <1>2, CoversTreeListedOnce
<1>6. Mapped /\ Supplied
  BY DEF Init, Mapped, Supplied, Idle
<1>7. Counted
  BY <1>1, <1>2, PlacesFinite DEF Counted, Enough
<1>8. QED
  BY <1>1, <1>4, <1>5, <1>6, <1>7 DEF ImageInv

\* One file of an Install: counted, and placed or not.
LEMMA InstallStep ==
  ASSUME ImageInv, call # "idle", todo # <<>>,
         NEW es, \/ es = entries
                 \/ /\ Head(todo).path \in DOMAIN tree /\ MainHash(Head(todo).path) # Head(todo).hash
                    /\ es = Decremented(entries, MainHash(Head(todo).path)),
         CountThroughMap(es, Head(todo).hash),
         \/ PlaceNext(Head(todo).hash)
         \/ es = entries /\ Fails /\ UNCHANGED tree
  PROVE  ImageInv'
<1> DEFINE f == Head(todo)
<1>1. f \in File /\ Tail(todo) \in Seq(File)
  BY DEF ImageInv, TypeOK
<1>2. f.path \in Path /\ f.hash \in Hash
  BY <1>1 DEF File
<1>3. Tree(tree) /\ TypeOK /\ ListedOnce(entries) /\ Referenced(tree) \subseteq Listed(entries)
  BY TypeOfTree, CoversTreeListedOnce DEF ImageInv
<1>4. SameHashes(entries, es)
  <2>1. SameHashes(entries, entries)
    BY <1>3 DEF SameHashes, TypeOK
  <2>2. QED
    BY <1>3, <2>1, DecrementedOne DEF TypeOK
<1>5. Listed(entries) = fresh \cup stale
  BY DEF ImageInv, Mapped
<1>6. /\ entries' \in Seq(Entry) /\ capacity' \in Nat /\ Len(entries') <= capacity'
      /\ fresh' \in SUBSET Hash /\ stale' \in SUBSET Hash /\ newBlobs' \in SUBSET Hash
      /\ lost' \in BOOLEAN
      /\ Listed(entries') = fresh' \cup stale' /\ ListedOnce(entries')
      /\ Listed(entries') = Listed(entries) \cup {f.hash}
      /\ newBlobs \subseteq newBlobs' /\ Listed(entries') \subseteq Listed(entries) \cup newBlobs'
      /\ ~lost' => ~lost /\ OneMore(es, entries', f.hash)
  BY <1>2, <1>3, <1>4, <1>5, CountingOne
<1>7. CASE PlaceNext(f.hash)
  <2>1. PlaceFile(f.path, f.hash) /\ todo' = Tail(todo) /\ UNCHANGED <<call, data, erred>>
    BY <1>7 DEF PlaceNext
  <2>2. Tree(tree') /\ Referenced(tree') \subseteq Referenced(tree) \cup {f.hash}
    BY <1>2, <1>3, <2>1, PlacingCounts
  <2>3. TypeOK'
    BY <1>1, <1>3, <1>6, <2>1, <2>2 DEF TypeOK, Tree
  <2>4. TableCoversTree'
    BY <1>3, <1>6, <2>2 DEF TableCoversTree, ListedOnce
  <2>5. (Hive \in DOMAIN tree)'
    BY <2>1 DEF PlaceFile, ImageInv
  <2>6. Mapped' /\ Supplied'
    BY <1>6, <2>1 DEF ImageInv, Mapped, Supplied, Idle
  <2>7. ASSUME ~lost' PROVE Enough(tree', entries')
    <3>1. Enough(tree, entries) /\ OneMore(es, entries', f.hash)
      BY <1>6, <2>7 DEF ImageInv, Counted
    <3>2. entries \in Seq(Entry)
      BY <1>3 DEF TypeOK
    <3>3. QED
      BY <1>2, <1>3, <1>6, <2>1, <3>1, <3>2, PlacingKeepsEnough
  <2>8. Counted'
    BY <2>7 DEF Counted, Enough
  <2>9. QED
    BY <2>3, <2>4, <2>5, <2>6, <2>8 DEF ImageInv
<1>8. CASE es = entries /\ Fails /\ UNCHANGED tree
  <2>1. call' = "idle" /\ todo' = <<>> /\ erred' = TRUE /\ UNCHANGED <<data, tree>>
    BY <1>8 DEF Fails
  <2>2. TypeOK'
    BY <1>3, <1>6, <2>1 DEF TypeOK
  <2>3. TableCoversTree'
    BY <1>3, <1>6, <2>1 DEF TableCoversTree, ListedOnce, Referenced
  <2>4. Mapped' /\ Supplied' /\ (Hive \in DOMAIN tree)'
    BY <2>1 DEF ImageInv, Mapped, Supplied
  <2>5. ASSUME ~lost', NEW k \in DOMAIN entries'
        PROVE  References(tree, entries'[k].hash) <= entries'[k].refs
    <3>1. /\ \A j \in DOMAIN entries : References(tree, entries[j].hash) <= entries[j].refs
          /\ OneMore(entries, entries', f.hash)
      BY <1>6, <1>8, <2>5 DEF ImageInv, Counted, Enough
    <3>2. CASE k \in DOMAIN entries
      <4>1. entries[k].refs \in Nat /\ entries[k].hash \in Hash
        BY <1>3, <3>2, EntriesType DEF TypeOK
      <4>2. References(tree, entries[k].hash) \in Nat
        BY <1>3, PlacesFinite
      <4>3. QED
        BY <3>1, <3>2, <4>1, <4>2 DEF OneMore
    <3>3. CASE k \notin DOMAIN entries
      <4>1. entries'[k] = [hash |-> f.hash, refs |-> 1] /\ f.hash \notin Listed(entries)
        BY <2>5, <3>1, <3>3 DEF OneMore
      <4>2. References(tree, f.hash) = 0
        BY <1>2, <1>3, <4>1, UnreferencedHasNoPlace
      <4>3. QED
        BY <4>1, <4>2
    <3>4. QED
      BY <3>2, <3>3
  <2>6. Counted'
    BY <2>1, <2>5 DEF Counted, Enough, References, Places
  <2>7. QED
    BY <2>2, <2>3, <2>4, <2>6 DEF ImageInv
<1>9. QED
  BY <1>7, <1>8

\* Between two calls: the files gone are taken off the counts, or not at all.
LEMMA RemoveStep ==
  ASSUME ImageInv, NEW gone \in SUBSET (DOMAIN tree \ {Hive}), Idle,
         tree' = Remaining(gone), entries' \in {entries, Uncounted(entries, gone)},
         ForgetCall, UNCHANGED <<capacity, data>>
  PROVE  ImageInv'
<1>1. Tree(tree) /\ TypeOK /\ ListedOnce(entries) /\ Referenced(tree) \subseteq Listed(entries)
  BY TypeOfTree, CoversTreeListedOnce DEF ImageInv
<1>2. entries \in Seq(Entry) /\ \A k \in DOMAIN entries : entries[k].hash \in Hash /\ entries[k].refs \in Nat
  BY <1>1, EntriesType DEF TypeOK
<1>3. /\ SameHashes(entries, Uncounted(entries, gone))
      /\ \A k \in DOMAIN entries :
           LET n == References([p \in gone |-> tree[p]], entries[k].hash)
           IN  Uncounted(entries, gone)[k].refs = IF n <= entries[k].refs THEN entries[k].refs - n ELSE 0
  BY <1>1, <1>2, UncountedAll
<1>4. SameHashes(entries, entries')
  BY <1>2, <1>3 DEF SameHashes
<1>5. /\ DOMAIN entries' = DOMAIN entries /\ Listed(entries') = Listed(entries) /\ ListedOnce(entries')
      /\ \A k \in DOMAIN entries : entries'[k].hash = entries[k].hash
  BY <1>1, <1>2, <1>4, SameHashesListed DEF SameHashes
<1>6. /\ Tree(tree') /\ Tree([p \in gone |-> tree[p]]) /\ Referenced(tree') \subseteq Referenced(tree)
      /\ \A h \in Hash : References(tree, h) = References(tree', h) + References([p \in gone |-> tree[p]], h)
  BY <1>1, RemovingCounts
<1>7. UNCHANGED <<call, todo, fresh, stale, newBlobs, erred, lost, data, capacity>>
  BY DEF ForgetCall, callVars
<1>8. TypeOK'
  BY <1>1, <1>4, <1>6, <1>7 DEF TypeOK, Tree, SameHashes
<1>9. TableCoversTree'
  BY <1>1, <1>5, <1>6 DEF TableCoversTree, ListedOnce
<1>10. (Hive \in DOMAIN tree)'
  BY DEF ImageInv, Remaining
<1>11. Mapped' /\ Supplied'
  BY <1>5, <1>7 DEF ImageInv, Mapped, Supplied, Idle
<1>12. ASSUME ~lost', NEW k \in DOMAIN entries
       PROVE  References(tree', entries[k].hash) <= entries'[k].refs
  <2> DEFINE h == entries[k].hash
             n == References([p \in gone |-> tree[p]], h)
  <2>1. References(tree, h) <= entries[k].refs
    BY <1>7, <1>12 DEF ImageInv, Counted, Enough
  <2>2. h \in Hash /\ entries[k].refs \in Nat
    BY <1>2
  <2>3. References(tree, h) = References(tree', h) + n
    BY <1>6, <2>2
  <2>4. References(tree, h) \in Nat /\ References(tree', h) \in Nat /\ n \in Nat
    BY <1>1, <1>6, PlacesFinite
  <2>5. entries'[k].refs = entries[k].refs
        \/ entries'[k].refs = IF n <= entries[k].refs THEN entries[k].refs - n ELSE 0
    BY <1>3
  <2>6. QED
    BY <2>1, <2>2, <2>3, <2>4, <2>5
<1>13. Counted'
  BY <1>5, <1>12 DEF Counted, Enough
<1>14. QED
  BY <1>8, <1>9, <1>10, <1>11, <1>13 DEF ImageInv

LEMMA SaveHiveStep ==
  ASSUME ImageInv, NEW h \in Hash, SaveHive(h)
  PROVE  ImageInv'
<1> DEFINE old  == MainHash(Hive)
           less == IF old # h THEN Decremented(entries, old) ELSE entries
<1>1. Tree(tree) /\ TypeOK /\ ListedOnce(entries) /\ Referenced(tree) \subseteq Listed(entries)
  BY TypeOfTree, CoversTreeListedOnce DEF ImageInv
<1>2. /\ entries \in Seq(Entry) /\ capacity \in Nat /\ Len(entries) <= capacity
      /\ \A k \in DOMAIN entries : entries[k].hash \in Hash /\ entries[k].refs \in Nat
  BY <1>1, EntriesType DEF TypeOK
<1>3. /\ less \in Seq(Entry) /\ Len(less) = Len(entries) /\ DOMAIN less = DOMAIN entries
      /\ Listed(less) = Listed(entries) /\ ListedOnce(less)
  <2>1. SameHashes(entries, less)
    BY <1>2, DecrementedOne DEF SameHashes
  <2>2. QED
    BY <1>1, <1>2, <2>1, SameHashesListed DEF SameHashes
<1>4. /\ Idle /\ PlaceFile(Hive, h) /\ Hive \in Path /\ Hive \in DOMAIN tree
      /\ UNCHANGED <<call, todo, fresh, stale, newBlobs, erred, lost>>
  BY DEF SaveHive, ForgetCall, callVars, ImageInv, Path
<1>5. /\ Tree(tree') /\ Referenced(tree') \subseteq Referenced(tree) \cup {h}
  BY <1>1, <1>4, PlacingCounts
<1>6. /\ entries' \in Seq(Entry) /\ capacity' \in Nat /\ Len(entries') <= capacity'
      /\ Listed(entries') = Listed(entries) \cup {h} /\ ListedOnce(entries')
      /\ OneMore(less, entries', h) \/ (old = h /\ entries' = entries)
      /\ data' \in SUBSET Hash /\ data \subseteq data' /\ Listed(entries') \subseteq Listed(entries) \cup data'
  <2>1. CASE h \in Listed(entries) /\ old # h
    <3>1. entries' = Incremented(less, h) /\ UNCHANGED <<capacity, data>>
      BY <2>1 DEF SaveHive
    <3>2. SameHashes(less, entries') /\ OneMore(less, entries', h)
      BY <1>3, <3>1, IncrementedOne, IncrementedIsOneMore
    <3>3. Listed(entries') = Listed(less) /\ ListedOnce(entries')
      BY <1>3, <3>2, SameHashesListed
    <3>4. QED
      BY <1>1, <1>2, <1>3, <2>1, <3>1, <3>2, <3>3 DEF SameHashes, TypeOK
  <2>2. CASE h \in Listed(entries) /\ old = h
    <3>1. entries' = entries /\ UNCHANGED <<capacity, data>>
      BY <2>2 DEF SaveHive
    <3>2. QED
      BY <1>1, <1>2, <2>2, <3>1 DEF TypeOK
  <2>3. CASE h \notin Listed(entries)
    <3>1. AppendEntry(less, h) /\ data' = data \cup {h}
      BY <2>3 DEF SaveHive
    <3>2. /\ entries' \in Seq(Entry) /\ capacity' \in Nat /\ Len(entries') <= capacity'
          /\ Listed(entries') = Listed(less) \cup {h} /\ ListedOnce(entries')
          /\ OneMore(less, entries', h)
      BY <1>2, <1>3, <2>3, <3>1, AppendedOne, AppendedIsOneMore
    <3>3. QED
      BY <1>1, <1>3, <3>1, <3>2 DEF TypeOK
  <2>4. QED
    BY <2>1, <2>2, <2>3
<1>7. TypeOK'
  BY <1>1, <1>4, <1>5, <1>6 DEF TypeOK, Tree
<1>8. TableCoversTree'
  BY <1>1, <1>5, <1>6 DEF TableCoversTree, ListedOnce
<1>9. (Hive \in DOMAIN tree)' /\ Mapped' /\ Supplied'
  BY <1>4, <1>6 DEF PlaceFile, ImageInv, Mapped, Supplied, Idle
<1>10. ASSUME ~lost' PROVE Enough(tree', entries')
  <2>1. Enough(tree, entries)
    BY <1>4, <1>10 DEF ImageInv, Counted
  <2>2. CASE OneMore(less, entries', h) /\ old # h
    BY <1>1, <1>2, <1>4, <1>6, <2>1, <2>2, PlacingKeepsEnough
  <2>3. CASE OneMore(less, entries', h) /\ old = h
    BY <1>1, <1>2, <1>4, <1>6, <2>1, <2>3, PlacingKeepsEnough
  <2>4. CASE old = h /\ entries' = entries
    <3>1. \A g \in Hash : References(tree', g) <= References(tree, g)
      <4>1. \A g \in Hash : References(tree', g) <= References(tree, g) + (IF g = h THEN 1 ELSE 0)
        BY <1>1, <1>4, PlacingCounts
      <4>2. References(tree', h) <= References(tree, h)
        BY <1>1, <1>4, <2>4, PlacingCounts
      <4>3. \A g \in Hash : References(tree, g) \in Nat
        BY <1>1, PlacesFinite
      <4>4. QED
        BY <4>1, <4>2, <4>3
    <3>2. \A g \in Hash : References(tree, g) \in Nat /\ References(tree', g) \in Nat
      BY <1>1, <1>5, PlacesFinite
    <3>3. QED
      BY <1>2, <2>1, <2>4, <3>1, <3>2 DEF Enough
  <2>5. QED
    BY <1>6, <2>2, <2>3, <2>4
<1>11. Counted'
  BY <1>10 DEF Counted, Enough
<1>12. QED
  BY <1>7, <1>8, <1>9, <1>11 DEF ImageInv

LEMMA ImageStep == ImageInv /\ [Next]_vars => ImageInv'
<1> SUFFICES ASSUME ImageInv, [Next]_vars PROVE ImageInv'
  OBVIOUS
<1>1. Tree(tree) /\ TypeOK /\ ListedOnce(entries) /\ Referenced(tree) \subseteq Listed(entries)
  BY TypeOfTree, CoversTreeListedOnce DEF ImageInv
<1>2. CASE Install
  <2>1. PICK kind \in {"driver", "component"}, files \in BoundedSeq(File, MaxFiles) : Begin(kind, files)
    BY <1>2 DEF Install
  <2>2. files \in Seq(File)
    BY RefsAssumption DEF BoundedSeq, SeqOf, RefsAssumption
  <2>3. /\ call' = kind /\ todo' = files /\ fresh' = Listed(entries) /\ stale' = {} /\ newBlobs' = {}
        /\ call = "idle" /\ UNCHANGED <<tree, entries, capacity, data, erred, lost>>
    BY <2>1 DEF Begin, Idle
  <2>4. Listed(entries) \subseteq Hash
    BY <1>1, EntriesType DEF TypeOK, Listed
  <2>5. TypeOK'
    BY <1>1, <2>2, <2>3, <2>4 DEF TypeOK
  <2>6. TableCoversTree'
    BY <2>3 DEF ImageInv, TableCoversTree, Listed, Referenced
  <2>7. Mapped' /\ Supplied' /\ (Hive \in DOMAIN tree)'
    BY <2>3 DEF ImageInv, Mapped, Supplied, Idle, Listed
  <2>8. Counted'
    BY <2>3 DEF ImageInv, Counted, Enough, References, Places
  <2>9. QED
    BY <2>5, <2>6, <2>7, <2>8 DEF ImageInv
<1>3. CASE DriverPlaces
  BY <1>3, InstallStep DEF DriverPlaces
<1>4. CASE DriverBlocked
  BY <1>4, InstallStep DEF DriverBlocked
<1>5. CASE ComponentBlocked
  BY <1>5, InstallStep DEF ComponentBlocked
<1>6. CASE ComponentPlaces
  <2> DEFINE f == Head(todo)
  <2>1. /\ call = "component" /\ todo # <<>>
        /\ ~(f.path \in DOMAIN tree /\ MainHash(f.path) = f.hash)
        /\ CountThroughMap(Replaced(f.path), f.hash) /\ PlaceNext(f.hash)
    BY <1>6 DEF ComponentPlaces
  <2>2. \/ Replaced(f.path) = entries
        \/ /\ f.path \in DOMAIN tree /\ MainHash(f.path) # f.hash
           /\ Replaced(f.path) = Decremented(entries, MainHash(f.path))
    BY <2>1 DEF Replaced
  <2>3. QED
    BY <2>1, <2>2, InstallStep
<1>7. CASE DriverRejects
  <2>1. /\ call' = "idle" /\ todo' = <<>> /\ erred' = TRUE
        /\ UNCHANGED <<data, tree, entries, capacity, fresh, stale, newBlobs, lost>>
    BY <1>7 DEF DriverRejects, Fails
  <2>2. TypeOK' /\ Mapped' /\ Supplied' /\ (Hive \in DOMAIN tree)'
    BY <1>1, <2>1 DEF ImageInv, TypeOK, Mapped, Supplied
  <2>3. TableCoversTree'
    BY <2>1 DEF ImageInv, TableCoversTree, Listed, Referenced
  <2>4. Counted'
    BY <2>1 DEF ImageInv, Counted, Enough, References, Places
  <2>5. QED
    BY <2>2, <2>3, <2>4 DEF ImageInv
<1>8. CASE ComponentKeeps
  <2>1. /\ todo # <<>> /\ todo' = Tail(todo)
        /\ UNCHANGED <<call, erred, data, tree, entries, capacity, fresh, stale, newBlobs, lost>>
    BY <1>8 DEF ComponentKeeps, histVars
  <2>2. TypeOK' /\ Mapped' /\ Supplied' /\ (Hive \in DOMAIN tree)'
    BY <1>1, <2>1 DEF ImageInv, TypeOK, Mapped, Supplied, Idle, Listed
  <2>3. TableCoversTree'
    BY <2>1 DEF ImageInv, TableCoversTree, Listed, Referenced
  <2>4. Counted'
    BY <2>1 DEF ImageInv, Counted, Enough, References, Places
  <2>5. QED
    BY <2>2, <2>3, <2>4 DEF ImageInv
<1>9. CASE InstallReturns
  <2>1. /\ call # "idle" /\ call' = "idle" /\ data' = data \cup newBlobs
        /\ UNCHANGED <<tree, entries, capacity, todo, fresh, stale, newBlobs, erred, lost>>
    BY <1>9 DEF InstallReturns, Idle, callVars
  <2>2. TypeOK' /\ Mapped' /\ Supplied' /\ (Hive \in DOMAIN tree)'
    BY <1>1, <2>1 DEF ImageInv, TypeOK, Mapped, Supplied, Idle, Listed
  <2>3. TableCoversTree'
    BY <2>1 DEF ImageInv, TableCoversTree, Listed, Referenced
  <2>4. Counted'
    BY <2>1 DEF ImageInv, Counted, Enough, References, Places
  <2>5. QED
    BY <2>2, <2>3, <2>4 DEF ImageInv
<1>10. CASE RemoveFolder \/ RemoveComponent
  <2>1. PICK files \in {Payload, {Manifest} \cup Payload} : Delete(files)
    BY <1>10 DEF RemoveFolder, RemoveComponent
  <2>2. files \cap DOMAIN tree \in SUBSET (DOMAIN tree \ {Hive})
    BY RefsAssumption DEF RefsAssumption
  <2>3. QED
    BY <2>1, <2>2, RemoveStep DEF Delete
<1>11. CASE RemoveWithoutTable
  <2>1. Payload \cap DOMAIN tree \in SUBSET (DOMAIN tree \ {Hive})
    BY RefsAssumption DEF RefsAssumption
  <2>2. QED
    BY <1>11, <2>1, RemoveStep DEF RemoveWithoutTable
<1>12. CASE \E h \in Hash : SaveHive(h)
  BY <1>12, SaveHiveStep
<1>13. CASE Rebuild
  <2>1. /\ call = "idle" /\ lost' = FALSE
        /\ UNCHANGED <<tree, call, todo, fresh, stale, newBlobs, data, erred>>
    BY <1>13 DEF Rebuild, Idle, callVars
  <2>2. /\ entries' \in Seq(Entry) /\ Len(entries') = capacity' /\ capacity' \in Nat
        /\ ListedOnce(entries') /\ Listed(entries') = Referenced(tree)
        /\ \A k \in DOMAIN entries' : entries'[k].refs = References(tree, entries'[k].hash)
    BY <1>1, <1>13, RecountIsExact DEF Rebuild
  <2>3. TypeOK'
    <3>1. entries' \in Seq(Entry)
      BY <2>2
    <3>2. Len(entries') <= capacity' /\ capacity' \in Nat
      BY <2>2
    <3>3. QED
      BY <1>1, <2>1, <3>1, <3>2 DEF TypeOK
  <2>4. TableCoversTree'
    BY <2>1, <2>2 DEF TableCoversTree, ListedOnce, Referenced
  <2>5. Mapped' /\ Supplied' /\ (Hive \in DOMAIN tree)'
    BY <1>1, <2>1, <2>2 DEF ImageInv, Mapped, Supplied, Idle
  <2>6. \A k \in DOMAIN entries' : References(tree, entries'[k].hash) <= entries'[k].refs
    BY <1>1, <2>2, PlacesFinite
  <2>7. Counted'
    BY <2>1, <2>6 DEF Counted, Enough, References, Places
  <2>8. QED
    BY <2>3, <2>4, <2>5, <2>7 DEF ImageInv
<1>14. CASE UNCHANGED vars
  <2>1. UNCHANGED <<tree, entries, capacity, call, todo, fresh, stale, newBlobs, data, erred, lost>>
    BY <1>14 DEF vars, callVars, histVars
  <2>2. TypeOK' /\ Mapped' /\ Supplied' /\ (Hive \in DOMAIN tree)'
    BY <1>1, <2>1 DEF ImageInv, TypeOK, Mapped, Supplied, Idle, Listed
  <2>3. TableCoversTree'
    BY <2>1 DEF ImageInv, TableCoversTree, Listed, Referenced
  <2>4. Counted'
    BY <2>1 DEF ImageInv, Counted, Enough, References, Places
  <2>5. QED
    BY <2>2, <2>3, <2>4 DEF ImageInv
<1>15. QED
  BY <1>2, <1>3, <1>4, <1>5, <1>6, <1>7, <1>8, <1>9, <1>10, <1>11, <1>12, <1>13, <1>14 DEF Next

LEMMA ImageInvariant == Spec => []ImageInv
BY ImageInit, ImageStep, PTL DEF Spec

LEMMA RefsOfEntry ==
  ASSUME ListedOnce(entries), NEW k \in DOMAIN entries
  PROVE  Refs(entries[k].hash) = entries[k].refs
<1>1. (CHOOSE j \in DOMAIN entries : entries[j].hash = entries[k].hash) = k
  BY DEF ListedOnce
<1>2. QED
  BY <1>1 DEF Refs

\* RebuildBlobTable finds an entry for every stream, and one only, whatever
\* driver, component, appx and registry have done before, or half done.
THEOREM TableCovers == Spec => []TableCoversTree
BY ImageInvariant, PTL DEF ImageInv

\* The caller of an Install gets the bytes of every blob it has added, unless an
\* Install has failed.
THEOREM BlobsReturned == Spec => []NewBlobsReturned
<1>1. ImageInv => NewBlobsReturned
  BY DEF ImageInv, Supplied, NewBlobsReturned
<1>2. QED
  BY <1>1, ImageInvariant, PTL

\* While no pointer was stale, no count is below the references there are.
THEOREM CountsSuffice == Spec => []NeverUndercounts
<1>1. ImageInv => NeverUndercounts
  <2> SUFFICES ASSUME ImageInv, ~lost, NEW h \in Referenced(tree) PROVE References(tree, h) <= Refs(h)
    BY DEF ImageInv, NeverUndercounts
  <2>1. ListedOnce(entries) /\ h \in Listed(entries)
    BY CoversTreeListedOnce DEF ImageInv
  <2>2. PICK k \in DOMAIN entries : entries[k].hash = h
    BY <2>1 DEF Listed
  <2>3. Refs(h) = entries[k].refs
    BY <2>1, <2>2, RefsOfEntry
  <2>4. QED
    BY <2>2, <2>3 DEF ImageInv, Counted, Enough
<1>2. QED
  BY <1>1, ImageInvariant, PTL

\* driver.Uninstall, component.Remove and appx.Remove take exactly the references
\* of the files they remove off the counts: the check against going below zero
\* never bites.
THEOREM RemovesExactly == Spec => RemovalIsExact
<1> DEFINE Exact == (RemoveFolder \/ RemoveComponent) /\ ~lost =>
             \A h \in Listed(entries) : Refs(h) - Refs(h)' = References(tree, h) - References(tree', h)
<1>1. ImageInv => Exact
  <2> SUFFICES ASSUME ImageInv, RemoveFolder \/ RemoveComponent, ~lost, NEW h \in Listed(entries)
               PROVE  Refs(h) - Refs(h)' = References(tree, h) - References(tree', h)
    OBVIOUS
  <2>1. PICK files : Delete(files)
    BY DEF RemoveFolder, RemoveComponent
  <2> DEFINE gone == files \cap DOMAIN tree
             part == [p \in gone |-> tree[p]]
  <2>2. tree' = Remaining(gone) /\ entries' = Uncounted(entries, gone)
    BY <2>1 DEF Delete
  <2>3. Tree(tree) /\ TypeOK /\ ListedOnce(entries) /\ entries \in Seq(Entry)
    BY TypeOfTree, CoversTreeListedOnce DEF ImageInv, TypeOK
  <2>4. PICK k \in DOMAIN entries : entries[k].hash = h
    BY DEF Listed
  <2>5. /\ SameHashes(entries, entries')
        /\ entries'[k].refs = IF References(part, h) <= entries[k].refs
                                THEN entries[k].refs - References(part, h) ELSE 0
    BY <2>2, <2>3, <2>4, UncountedAll
  <2>6. ListedOnce(entries') /\ k \in DOMAIN entries' /\ entries'[k].hash = h
    BY <2>3, <2>4, <2>5, SameHashesListed DEF SameHashes
  <2>7. Refs(h) = entries[k].refs
    BY <2>3, <2>4, RefsOfEntry
  <2>8. Refs(h)' = entries'[k].refs
    <3>1. (CHOOSE j \in DOMAIN entries' : entries'[j].hash = h) = k
      BY <2>6 DEF ListedOnce
    <3>2. QED
      BY <3>1 DEF Refs
  <2>9. h \in Hash /\ entries[k].refs \in Nat
    BY <2>3, <2>4, EntriesType
  <2>10. /\ References(tree, h) = References(tree', h) + References(part, h)
         /\ References(tree', h) \in Nat /\ References(part, h) \in Nat
    <3>1. /\ Tree(tree') /\ Tree(part)
          /\ References(tree, h) = References(tree', h) + References(part, h)
      BY <2>2, <2>3, <2>9, RemovingCounts
    <3>2. QED
      BY <3>1, PlacesFinite
  <2>11. References(tree, h) <= entries[k].refs
    BY <2>4 DEF ImageInv, Counted, Enough
  <2>12. QED
    BY <2>5, <2>7, <2>8, <2>9, <2>10, <2>11
<1>2. ImageInv /\ [Next]_vars => [Exact]_vars
  BY <1>1
<1>3. QED
  BY <1>2, ImageInvariant, PTL DEF Spec, RemovalIsExact
-----------------------------------------------------------------------------
(* Installing the same files again.                                        *)

\* How many files of the call in hand, or of the one just made, are in place.
Placed == Len(last) - Len(todo)

LastPaths == {last[j].path : j \in DOMAIN last}

\* Some file of the call after the j-th and up to the i-th has the same path.
Rewritten(p, j, i) == \E m \in j + 1 .. i : last[m].path = p

\* What is still to be placed is the end of the call's files, and a file in place
\* is what the tree holds, unless a later one of the same path has replaced it.
Progress ==
  /\ last \in Seq(File) /\ before \in Seq(Entry)
  /\ call = "idle" => todo = <<>>
  /\ call = "driver" => last = <<>>
  /\ before # <<>> => call = "component"
  /\ call # "driver" =>
       /\ Len(todo) <= Len(last)
       /\ \A k \in 1 .. Len(todo) : todo[k] = last[Placed + k]
       /\ \A j \in 1 .. Placed :
            /\ last[j].path \in DOMAIN tree /\ MainHash(last[j].path) \in Hash
            /\ last[j].hash \in Listed(entries)
            /\ MainHash(last[j].path) = last[j].hash \/ Rewritten(last[j].path, j, Placed)

\* Those of the call's paths that hold h, and those that held it when the call began.
HashIn(t, p) == IF t[p] = <<>> THEN ZeroHash ELSE t[p][1]
Holding(t, h) == {p \in LastPaths : HashIn(t, p) = h}
Held(g, h) == {p \in LastPaths : g[p] = h}

\* A repeated call finds every hash in the table; a path holds what it held at the
\* start, or will be written again; and the counts differ from those at
\* the start by what the call's paths hold.  g is what they held at the start.
RepeatedFrom(g) ==
  /\ stale = {} /\ Len(before) = Len(entries)
  /\ \A k \in DOMAIN before : before[k].hash = entries[k].hash
  /\ \A p \in LastPaths : p \in DOMAIN tree /\ MainHash(p) \in Hash
  /\ \A j \in DOMAIN last : /\ last[j].hash \in Listed(entries)
                            /\ g[last[j].path] = last[j].hash \/ Rewritten(last[j].path, j, Len(last))
  /\ \A p \in LastPaths : MainHash(p) = g[p] \/ Rewritten(p, Placed, Len(last))
  /\ ~lost => \A k \in DOMAIN before :
       entries[k].refs + Cardinality(Held(g, entries[k].hash)) =
         before[k].refs + Cardinality(Holding(tree, entries[k].hash))

Repetition == Repeats => \E g \in [LastPaths -> Hash] : RepeatedFrom(g)

RepeatInv == ImageInv /\ Progress /\ Repetition


LEMMA ForgottenCall ==
  ASSUME last' = <<>>, before' = <<>>, todo' = <<>>, call' = "idle"
  PROVE  Progress' /\ Repetition'
<1>1. Placed' = 0
  BY DEF Placed
<1>2. Progress'
  BY <1>1 DEF Progress
<1>3. QED
  BY <1>2 DEF Repetition, Repeats

\* The files of a call are in Path, and where the next of them stands.
LEMMA NextFile ==
  ASSUME Progress, TypeOK, call = "component", todo # <<>>
  PROVE  /\ Placed \in Nat /\ Len(last) \in Nat /\ DOMAIN last = 1 .. Len(last)
         /\ Placed + 1 \in DOMAIN last /\ last[Placed + 1] = Head(todo)
         /\ Head(todo) \in File /\ Head(todo).path \in Path /\ Head(todo).hash \in Hash
         /\ Head(todo).path \in LastPaths
         /\ Len(todo) \in Nat \ {0} /\ Len(Tail(todo)) = Len(todo) - 1
         /\ \A k \in 1 .. Len(todo) - 1 : Tail(todo)[k] = todo[k + 1]
<1>1. todo \in Seq(File) /\ last \in Seq(File)
  BY DEF TypeOK, Progress
<1>2. /\ Len(todo) \in Nat \ {0} /\ Len(last) \in Nat /\ Len(todo) <= Len(last)
      /\ DOMAIN last = 1 .. Len(last) /\ Head(todo) = todo[1] /\ Head(todo) \in File
      /\ Len(Tail(todo)) = Len(todo) - 1
      /\ \A k \in 1 .. Len(todo) - 1 : Tail(todo)[k] = todo[k + 1]
  BY <1>1 DEF Progress
<1>3. Placed \in Nat /\ Placed + 1 \in 1 .. Len(last)
  BY <1>2 DEF Placed
<1>4. todo[1] = last[Placed + 1]
  BY <1>2 DEF Progress
<1>5. Head(todo).path \in Path /\ Head(todo).hash \in Hash
  BY <1>2 DEF File
<1>6. QED
  BY <1>2, <1>3, <1>4, <1>5 DEF LastPaths

\* A file placed, or found to be in place.
LEMMA FileInPlace ==
  ASSUME ImageInv, Progress, call = "component", todo # <<>>,
         todo' = Tail(todo), UNCHANGED <<call, last, before>>,
         Head(todo).path \in DOMAIN tree', HashIn(tree', Head(todo).path) = Head(todo).hash,
         \A q \in DOMAIN tree : q \in DOMAIN tree' /\ (q # Head(todo).path => tree'[q] = tree[q]),
         Listed(entries) \subseteq Listed(entries'), Head(todo).hash \in Listed(entries')
  PROVE  Progress' /\ Placed' = Placed + 1
<1> DEFINE f == Head(todo)
           i == Placed
<1>1. /\ i \in Nat /\ Len(last) \in Nat /\ DOMAIN last = 1 .. Len(last)
      /\ i + 1 \in DOMAIN last /\ last[i + 1] = f /\ f.hash \in Hash
      /\ Len(todo) \in Nat \ {0} /\ Len(todo') = Len(todo) - 1
      /\ \A k \in 1 .. Len(todo) - 1 : todo'[k] = todo[k + 1]
  BY NextFile DEF ImageInv
<1>2. Placed' = i + 1
  BY <1>1 DEF Placed
<1>3. Len(todo') <= Len(last')
  BY <1>1 DEF Progress
<1>4. ASSUME NEW k \in 1 .. Len(todo')
      PROVE  todo'[k] = last'[Placed' + k]
  <2>1. todo'[k] = todo[k + 1] /\ k + 1 \in 1 .. Len(todo)
    BY <1>1
  <2>2. todo[k + 1] = last[i + (k + 1)]
    BY <2>1 DEF Progress
  <2>3. i + (k + 1) = (i + 1) + k
    BY <1>1
  <2>4. QED
    BY <1>2, <2>1, <2>2, <2>3
<1> HIDE DEF f, i
<1>5. ASSUME NEW j \in 1 .. i + 1
      PROVE  /\ last[j].path \in DOMAIN tree' /\ HashIn(tree', last[j].path) \in Hash
             /\ last[j].hash \in Listed(entries')
             /\ HashIn(tree', last[j].path) = last[j].hash
                  \/ \E m \in j + 1 .. i + 1 : last[m].path = last[j].path
  <2>1. CASE j = i + 1
    BY <1>1, <2>1 DEF f
  <2>2. CASE j # i + 1
    <3>1. j \in 1 .. i
      BY <1>1, <2>2
    <3>2. /\ last[j].path \in DOMAIN tree /\ MainHash(last[j].path) \in Hash
          /\ last[j].hash \in Listed(entries)
          /\ MainHash(last[j].path) = last[j].hash \/ \E m \in j + 1 .. i : last[m].path = last[j].path
      BY <3>1 DEF Progress, Rewritten, i
    <3>3. CASE last[j].path = f.path
      <4>1. i + 1 \in j + 1 .. i + 1
        BY <1>1, <3>1
      <4>2. QED
        BY <1>1, <3>2, <3>3, <4>1 DEF f
    <3>4. CASE last[j].path # f.path
      <4>1. HashIn(tree', last[j].path) = MainHash(last[j].path)
        <5>1. tree'[last[j].path] = tree[last[j].path]
          BY <3>2, <3>4 DEF f
        <5>2. QED
          BY <5>1 DEF HashIn, MainHash
      <4>2. \A m \in j + 1 .. i : m \in j + 1 .. i + 1
        BY <1>1, <3>1
      <4>3. QED
        BY <3>2, <4>1, <4>2
    <3>5. QED
      BY <3>3, <3>4
  <2>3. QED
    BY <2>1, <2>2
<1>6. /\ last' \in Seq(File) /\ before' \in Seq(Entry)
      /\ call' # "idle" /\ call' # "driver" /\ (before' # <<>> => call' = "component")
  BY DEF Progress
<1>7. \A j \in 1 .. Placed' :
        /\ last'[j].path \in DOMAIN tree' /\ HashIn(tree', last[j].path) \in Hash
        /\ last'[j].hash \in Listed(entries')
        /\ HashIn(tree', last[j].path) = last'[j].hash \/ Rewritten(last[j].path, j, Placed)'
  BY <1>2, <1>5 DEF Rewritten
<1>8. Progress'
  BY <1>3, <1>4, <1>6, <1>7 DEF Progress, MainHash, HashIn
<1>9. QED
  BY <1>2, <1>8 DEF i

LEMMA LastPathsFinite ==
  ASSUME Progress
  PROVE  /\ LastPaths \subseteq Path /\ IsFiniteSet(LastPaths)
         /\ \A t, h : IsFiniteSet(Holding(t, h)) /\ Cardinality(Holding(t, h)) \in Nat
         /\ \A g, h : Cardinality(Held(g, h)) \in Nat
<1>1. LastPaths \subseteq Path
  <2>1. last \in Seq(File)
    BY DEF Progress
  <2>2. \A j \in DOMAIN last : last[j] \in File
    BY <2>1
  <2>3. QED
    BY <2>2 DEF LastPaths, File
<1>2. IsFiniteSet(LastPaths)
  BY <1>1, PathsFinite, FS_Subset
<1>3. ASSUME NEW t, NEW h
      PROVE  IsFiniteSet(Holding(t, h)) /\ Cardinality(Holding(t, h)) \in Nat
  <2>1. Holding(t, h) \in SUBSET LastPaths
    BY DEF Holding
  <2>2. QED
    BY <1>2, <2>1, FS_Subset, FS_CardinalityType
<1>4. ASSUME NEW g, NEW h
      PROVE  Cardinality(Held(g, h)) \in Nat
  <2>1. Held(g, h) \in SUBSET LastPaths
    BY DEF Held
  <2>2. QED
    BY <1>2, <2>1, FS_Subset, FS_CardinalityType
<1>5. QED
  BY <1>1, <1>2, <1>3, <1>4

\* One file of a repeated call.
LEMMA RepeatedFile ==
  ASSUME ImageInv, Progress, call = "component", todo # <<>>,
         Placed' = Placed + 1, UNCHANGED <<last, before>>,
         HashIn(tree', Head(todo).path) = Head(todo).hash,
         \A q \in DOMAIN tree : q \in DOMAIN tree' /\ (q # Head(todo).path => tree'[q] = tree[q]),
         NEW g \in [LastPaths -> Hash], RepeatedFrom(g), stale' = {},
         Len(entries') = Len(entries), Listed(entries') = Listed(entries),
         \A k \in DOMAIN before : entries'[k].hash = entries[k].hash,
         ~lost' => \A k \in DOMAIN before :
           entries'[k].refs + Cardinality(Held(g, entries[k].hash)) =
             before[k].refs + Cardinality(Holding(tree', entries[k].hash))
  PROVE  RepeatedFrom(g)'
<1> DEFINE f == Head(todo)
           i == Placed
           n == Len(last)
<1>1. /\ i \in Nat /\ n \in Nat /\ DOMAIN last = 1 .. n
      /\ i + 1 \in DOMAIN last /\ last[i + 1] = f /\ f.hash \in Hash /\ f.path \in LastPaths
  BY NextFile DEF ImageInv
<1> HIDE DEF f, i, n
<1>2. /\ Len(before) = Len(entries)
      /\ \A k \in DOMAIN before : before[k].hash = entries[k].hash
      /\ \A p \in LastPaths : p \in DOMAIN tree /\ MainHash(p) \in Hash
      /\ \A j \in DOMAIN last : /\ last[j].hash \in Listed(entries)
                                /\ g[last[j].path] = last[j].hash \/ \E m \in j + 1 .. n : last[m].path = last[j].path
      /\ \A p \in LastPaths : MainHash(p) = g[p] \/ \E m \in i + 1 .. n : last[m].path = p
  BY DEF RepeatedFrom, Rewritten, i, n
<1>3. LastPaths' = LastPaths
  BY DEF LastPaths
<1>4. ASSUME NEW p \in LastPaths, p # f.path
      PROVE  /\ p \in DOMAIN tree' /\ HashIn(tree', p) \in Hash
             /\ HashIn(tree', p) = g[p] \/ \E m \in (i + 1) + 1 .. n : last[m].path = p
  <2>1. p \in DOMAIN tree' /\ tree'[p] = tree[p] /\ HashIn(tree', p) = MainHash(p)
    BY <1>2, <1>4 DEF HashIn, MainHash, f
  <2>2. \A m \in i + 1 .. n : last[m].path = p => m \in (i + 1) + 1 .. n
    BY <1>1, <1>4
  <2>3. QED
    BY <1>2, <2>1, <2>2
<1>5. /\ f.path \in DOMAIN tree' /\ HashIn(tree', f.path) \in Hash
      /\ HashIn(tree', f.path) = g[f.path] \/ \E m \in (i + 1) + 1 .. n : last[m].path = f.path
  BY <1>1, <1>2 DEF f
<1>6. \A p \in LastPaths :
        /\ p \in DOMAIN tree' /\ HashIn(tree', p) \in Hash
        /\ HashIn(tree', p) = g[p] \/ \E m \in (i + 1) + 1 .. n : last[m].path = p
  BY <1>4, <1>5
<1>7. \A p \in LastPaths :
        /\ p \in DOMAIN tree' /\ (MainHash(p)' \in Hash)
        /\ (MainHash(p)' = g[p]) \/ \E m \in Placed' + 1 .. Len(last') : last'[m].path = p
  BY <1>6 DEF MainHash, HashIn, i, n
<1>8. \A j \in DOMAIN last' : /\ last'[j].hash \in Listed(entries')
                              /\ g[last'[j].path] = last'[j].hash \/ \E m \in j + 1 .. Len(last') : last'[m].path = last'[j].path
  BY <1>2 DEF n
<1>9. /\ Len(before') = Len(entries')
      /\ \A k \in DOMAIN before' : before'[k].hash = entries'[k].hash
  BY <1>2
<1>10. ASSUME ~lost', NEW k \in DOMAIN before'
       PROVE  entries'[k].refs + Cardinality(Held(g, entries[k].hash)') =
                before'[k].refs + Cardinality(Holding(tree, entries[k].hash)')
  <2>1. Held(g, entries[k].hash)' = Held(g, entries'[k].hash)
    BY <1>3 DEF Held
  <2>2. Holding(tree, entries[k].hash)' = Holding(tree', entries'[k].hash)
    BY <1>3 DEF Holding, HashIn
  <2>3. entries'[k].hash = entries[k].hash /\ before' = before
    BY <1>10
  <2>4. QED
    BY <1>10, <2>1, <2>2, <2>3
<1>11. (~lost => \A k \in DOMAIN before :
          entries[k].refs + Cardinality(Held(g, entries[k].hash)) =
            before[k].refs + Cardinality(Holding(tree, entries[k].hash)))'
  BY <1>10
<1>12. QED
  BY <1>3, <1>7, <1>8, <1>9, <1>11 DEF RepeatedFrom, Rewritten

\* A file put in another's place: what the one held is one count less, what the other
\* brings one more, as the call's paths hold it.
LEMMA RepeatedPlacement ==
  ASSUME ImageInv, Progress, ComponentPlaces, NEW g \in [LastPaths -> Hash], RepeatedFrom(g)
  PROVE  RepeatedFrom(g)' /\ Listed(entries') = Listed(entries)
<1> DEFINE f == Head(todo)
           p == f.path
           h == f.hash
           old == MainHash(p)
           less == Decremented(entries, old)
<1>1. /\ call = "component" /\ todo # <<>> /\ todo' = Tail(todo)
      /\ ~(p \in DOMAIN tree /\ old = h) /\ CountThroughMap(Replaced(p), h)
      /\ PlaceFile(p, h) /\ UNCHANGED <<call, last, before>>
  BY DEF ComponentPlaces, PlaceNext
<1>2. /\ Placed + 1 \in DOMAIN last /\ last[Placed + 1] = f /\ f \in File
      /\ p \in Path /\ h \in Hash /\ p \in LastPaths
      /\ Len(last) \in Nat /\ Placed \in Nat
      /\ Len(todo) \in Nat /\ Len(todo') = Len(todo) - 1
  BY <1>1, NextFile DEF ImageInv
<1>3. Placed' = Placed + 1
  <2>1. Placed = Len(last) - Len(todo) /\ Placed' = Len(last) - (Len(todo) - 1)
    BY <1>1, <1>2 DEF Placed
  <2>2. QED
    BY <1>2, <2>1
<1> HIDE DEF f, p, h, old, less
<1>4. /\ DOMAIN tree' = DOMAIN tree \cup {p} /\ tree'[p] = <<h>>
      /\ \A q \in DOMAIN tree : q # p => tree'[q] = tree[q]
      /\ HashIn(tree', p) = h
  BY <1>1, <1>2, StreamsOfOne DEF PlaceFile, HashIn
<1>5. /\ Tree(tree) /\ TypeOK /\ ListedOnce(entries) /\ Referenced(tree) \subseteq Listed(entries)
      /\ entries \in Seq(Entry)
  BY TypeOfTree, CoversTreeListedOnce DEF ImageInv, TypeOK
<1>6. /\ p \in DOMAIN tree /\ old \in Hash /\ h \in Listed(entries) /\ old # h
      /\ stale = {} /\ Len(before) = Len(entries)
      /\ \A k \in DOMAIN before : before[k].hash = entries[k].hash
  BY <1>1, <1>2 DEF RepeatedFrom, old, h
<1>7. old \in Listed(entries)
  <2>1. tree[p] # <<>> /\ tree[p][1] = old
    BY <1>6, RefsAssumption DEF MainHash, RefsAssumption, old
  <2>2. old \in ToSet(tree[p])
    BY <1>5, <1>6, <2>1, StreamsType DEF Tree, ToSet
  <2>3. QED
    BY <1>5, <1>6, <2>2, RefsAssumption DEF Referenced, RefsAssumption
<1>8. fresh = Listed(entries)
  BY <1>1, <1>6 DEF ImageInv, Mapped
<1>9. entries' = Incremented(less, h) /\ lost' = lost /\ stale' = {}
  <2>1. Replaced(p) = less
    BY <1>6, <1>7, <1>8 DEF Replaced, old, less
  <2>2. QED
    BY <1>1, <1>5, <1>6, <1>8, <2>1 DEF CountThroughMap, TypeOK
<1>10. /\ SameHashes(entries, less) /\ less \in Seq(Entry) /\ DOMAIN less = DOMAIN entries
       /\ \A k \in DOMAIN entries : less[k].refs =
              IF entries[k].hash = old /\ entries[k].refs > 0 THEN entries[k].refs - 1 ELSE entries[k].refs
  BY <1>5, DecrementedOne, SameHashesListed DEF less, SameHashes
<1>11. /\ SameHashes(less, entries')
       /\ \A k \in DOMAIN less : entries'[k].refs = less[k].refs + (IF less[k].hash = h THEN 1 ELSE 0)
  BY <1>9, <1>10, IncrementedOne
<1>12. /\ Len(entries') = Len(entries) /\ Listed(entries') = Listed(entries)
       /\ \A k \in DOMAIN entries : entries'[k].hash = entries[k].hash /\ less[k].hash = entries[k].hash
  BY <1>5, <1>10, <1>11, SameHashesListed DEF SameHashes
<1>13. DOMAIN before = DOMAIN entries
  BY <1>5, <1>6 DEF Progress
<1>14. /\ Holding(tree', h) = Holding(tree, h) \cup {p} /\ p \notin Holding(tree, h)
       /\ Holding(tree', old) = Holding(tree, old) \ {p} /\ p \in Holding(tree, old)
       /\ \A x : x \notin {h, old} => Holding(tree', x) = Holding(tree, x)
  <2>1. HashIn(tree, p) = old
    BY DEF HashIn, MainHash, old
  <2>2. \A q \in LastPaths : q # p => HashIn(tree', q) = HashIn(tree, q)
    <3>1. \A q \in LastPaths : q \in DOMAIN tree
      BY DEF RepeatedFrom
    <3>2. QED
      BY <1>4, <3>1 DEF HashIn
  <2>3. QED
    BY <1>2, <1>4, <1>6, <2>1, <2>2 DEF Holding
<1>15. \A x : IsFiniteSet(Holding(tree, x)) /\ Cardinality(Holding(tree, x)) \in Nat
  BY LastPathsFinite
<1>16. /\ Cardinality(Holding(tree', h)) = Cardinality(Holding(tree, h)) + 1
       /\ Cardinality(Holding(tree', old)) = Cardinality(Holding(tree, old)) - 1
  <2>1. Cardinality(Holding(tree, h) \cup {p}) = Cardinality(Holding(tree, h)) + 1
    BY <1>14, <1>15, FS_AddElement
  <2>2. Cardinality(Holding(tree, old) \ {p}) = Cardinality(Holding(tree, old)) - 1
    BY <1>14, <1>15, FS_RemoveElement
  <2>3. QED
    BY <1>14, <2>1, <2>2
<1>17. ASSUME ~lost, NEW k \in DOMAIN entries, entries[k].hash = old
       PROVE  entries[k].refs > 0
  <2>1. References(tree, old) <= entries[k].refs
    BY <1>17 DEF ImageInv, Counted, Enough
  <2>2. References(tree', old) + 1 <= References(tree, old)
    BY <1>1, <1>2, <1>5, <1>6, PlacingCounts DEF old
  <2>3. Tree(tree')
    BY <1>1, <1>2, <1>5, PlacingCounts
  <2>4. References(tree, old) \in Nat /\ References(tree', old) \in Nat /\ entries[k].refs \in Nat
    BY <1>5, <2>3, PlacesFinite, EntriesType
  <2>5. QED
    BY <2>1, <2>2, <2>4
<1>18. ASSUME ~lost', NEW k \in DOMAIN before
       PROVE  entries'[k].refs + Cardinality(Held(g, entries[k].hash)) =
                before[k].refs + Cardinality(Holding(tree', entries[k].hash))
  <2> DEFINE x == entries[k].hash
             held == Cardinality(Held(g, x))
             now == Cardinality(Holding(tree, x))
             then == Cardinality(Holding(tree', x))
  <2>1. k \in DOMAIN entries /\ ~lost /\ entries[k].refs \in Nat /\ before[k].refs \in Nat
    <3>1. before \in Seq(Entry)
      BY DEF Progress
    <3>2. QED
      BY <1>5, <1>9, <1>13, <1>18, <3>1, EntriesType
  <2>2. held \in Nat /\ now \in Nat
    BY <1>15, LastPathsFinite
  <2>3. entries[k].refs + held = before[k].refs + now
    BY <1>18, <2>1 DEF RepeatedFrom
  <2>4. entries'[k].refs = less[k].refs + (IF x = h THEN 1 ELSE 0)
    BY <1>10, <1>11, <1>12, <2>1
  <2>5. less[k].refs = IF x = old THEN entries[k].refs - 1 ELSE entries[k].refs
    BY <1>10, <1>17, <2>1
  <2>6. then = IF x = h THEN now + 1 ELSE IF x = old THEN now - 1 ELSE now
    BY <1>14, <1>16
  <2> HIDE DEF x, held, now, then
  <2>7. entries'[k].refs + held = before[k].refs + then
    <3>1. CASE x = h
      <4>1. /\ less[k].refs = entries[k].refs /\ then = now + 1
            /\ entries'[k].refs = entries[k].refs + 1
        BY <1>6, <2>4, <2>5, <2>6, <3>1
      <4>2. QED
        BY <2>1, <2>2, <2>3, <4>1
    <3>2. CASE x = old
      <4>1. x # h
        BY <1>6, <3>2
      <4>2. less[k].refs = entries[k].refs - 1 /\ then = now - 1
        BY <2>5, <2>6, <3>2, <4>1
      <4>3. entries'[k].refs = entries[k].refs - 1
        BY <2>1, <2>4, <4>1, <4>2
      <4>4. QED
        BY <2>1, <2>2, <2>3, <4>2, <4>3
    <3>3. CASE x \notin {h, old}
      BY <2>1, <2>2, <2>3, <2>4, <2>5, <2>6, <3>3
    <3>4. QED
      BY <3>1, <3>2, <3>3
  <2>8. QED
    BY <2>7 DEF x, held, then
<1>19. QED
  <2>1. \A q \in DOMAIN tree : q \in DOMAIN tree' /\ (q # Head(todo).path => tree'[q] = tree[q])
    BY <1>4 DEF p, f
  <2>2. HashIn(tree', Head(todo).path) = Head(todo).hash
    BY <1>4 DEF p, f, h
  <2>3. \A k \in DOMAIN before : entries'[k].hash = entries[k].hash
    BY <1>12, <1>13
  <2>4. QED
    BY <1>1, <1>3, <1>9, <1>12, <1>18, <2>1, <2>2, <2>3, RepeatedFile

LEMMA BeginProgress ==
  ASSUME ImageInv, Progress, NEW kind \in {"driver", "component"}, NEW files \in Seq(File),
         Begin(kind, files)
  PROVE  Progress' /\ (call' = "component" => Placed' = 0)
<1>1. /\ call = "idle" /\ call' = kind /\ todo' = files /\ entries \in Seq(Entry)
      /\ before' = (IF kind = "component" /\ files = last THEN entries ELSE <<>>)
      /\ last' = (IF kind = "component" THEN files ELSE <<>>)
  BY DEF Begin, Idle, ImageInv, TypeOK
<1>2. /\ last' \in Seq(File) /\ before' \in Seq(Entry) /\ Len(files) \in Nat
      /\ call' = "driver" => last' = <<>>
      /\ before' # <<>> => call' = "component"
      /\ call' # "idle"
  BY <1>1
<1>3. CASE kind = "component"
  <2>1. last' = files /\ Placed' = 0
    BY <1>1, <1>2, <1>3 DEF Placed
  <2>2. \A k \in 1 .. Len(todo') : todo'[k] = last'[Placed' + k]
    BY <1>1, <1>2, <2>1
  <2>3. Len(todo') <= Len(last') /\ 1 .. Placed' = {}
    BY <1>1, <1>2, <2>1
  <2>4. QED
    BY <1>2, <2>1, <2>2, <2>3 DEF Progress
<1>4. CASE kind = "driver"
  BY <1>1, <1>2, <1>4 DEF Progress
<1>5. QED
  BY <1>3, <1>4

\* The call that repeats the last starts from what that one has left.
LEMMA BeginRepetition ==
  ASSUME ImageInv, Progress, NEW kind \in {"driver", "component"}, NEW files \in Seq(File),
         Begin(kind, files)
  PROVE  Repetition'
<1> DEFINE n == Len(last)
<1> SUFFICES ASSUME call' = "component", before' # <<>>
             PROVE  \E g0 \in [LastPaths' -> Hash] : RepeatedFrom(g0)'
  BY DEF Repetition, Repeats
<1>1. /\ call = "idle" /\ kind = "component" /\ files = last /\ last' = last /\ todo = <<>>
      /\ before' = entries /\ todo' = last /\ stale' = {} /\ fresh' = Listed(entries)
      /\ UNCHANGED <<tree, entries, lost>>
  BY DEF Begin, Idle, Progress
<1>2. n \in Nat /\ DOMAIN last = 1 .. n /\ Placed' = 0 /\ Placed = n
  BY <1>1, BeginProgress DEF Progress, Placed
<1> HIDE DEF n
<1>3. \A j \in 1 .. n : /\ last[j].path \in DOMAIN tree /\ MainHash(last[j].path) \in Hash
                        /\ last[j].hash \in Listed(entries)
                        /\ MainHash(last[j].path) = last[j].hash
                             \/ \E m \in j + 1 .. n : last[m].path = last[j].path
  BY <1>1, <1>2 DEF Progress, Rewritten
<1>4. \A p \in LastPaths : p \in DOMAIN tree /\ MainHash(p) \in Hash
  BY <1>2, <1>3 DEF LastPaths
<1>5. LastPaths' = LastPaths
  BY <1>1, <1>4 DEF LastPaths
<1>6. PICK g \in [LastPaths -> Hash] :
        \A p \in LastPaths : g[p] = MainHash(p) /\ g[p] = HashIn(tree, p)
  <2>1. [p \in LastPaths |-> MainHash(p)] \in [LastPaths -> Hash]
    BY <1>4
  <2>2. QED
    BY <2>1 DEF MainHash, HashIn
<1>7. \A p \in LastPaths : p \in DOMAIN tree' /\ (MainHash(p)' \in Hash) /\ (MainHash(p)' = g[p])
  BY <1>1, <1>4, <1>6 DEF MainHash
<1>8. \A j \in DOMAIN last' :
        /\ last'[j].hash \in Listed(entries')
        /\ g[last'[j].path] = last'[j].hash \/ \E m \in j + 1 .. Len(last') : last'[m].path = last'[j].path
  BY <1>1, <1>2, <1>3, <1>6 DEF LastPaths, n
<1>9. \A h : Held(g, h) = Holding(tree, h)
  BY <1>6 DEF Held, Holding
<1>10. (~lost => \A k \in DOMAIN before :
          entries[k].refs + Cardinality(Held(g, entries[k].hash)) =
            before[k].refs + Cardinality(Holding(tree, entries[k].hash)))'
  <2> SUFFICES ASSUME NEW k \in DOMAIN before'
               PROVE  (entries[k].refs + Cardinality(Held(g, entries[k].hash)) =
                         before[k].refs + Cardinality(Holding(tree, entries[k].hash)))'
    OBVIOUS
  <2>1. Held(g, entries[k].hash)' = Held(g, entries[k].hash)
    BY <1>1, <1>5 DEF Held
  <2>2. Holding(tree, entries[k].hash)' = Holding(tree, entries[k].hash)
    BY <1>1, <1>5 DEF Holding, HashIn
  <2>3. Held(g, entries[k].hash) = Holding(tree, entries[k].hash)
    BY <1>9
  <2>4. QED
    BY <1>1, <2>1, <2>2, <2>3
<1>11. RepeatedFrom(g)'
  BY <1>1, <1>5, <1>7, <1>8, <1>10 DEF RepeatedFrom, Rewritten
<1>12. QED
  BY <1>5, <1>11

\* A file that is in place already changes nothing.
LEMMA RepeatedKeep ==
  ASSUME ImageInv, Progress, ComponentKeeps, NEW g \in [LastPaths -> Hash], RepeatedFrom(g)
  PROVE  RepeatedFrom(g)'
<1>1. /\ call = "component" /\ todo # <<>> /\ todo' = Tail(todo)
      /\ Head(todo).path \in DOMAIN tree /\ MainHash(Head(todo).path) = Head(todo).hash
      /\ UNCHANGED <<tree, entries, stale, lost, last, before>>
  BY DEF ComponentKeeps, histVars
<1>2. Placed' = Placed + 1
  <2>1. /\ Len(todo) \in Nat /\ Len(last) \in Nat /\ Len(todo') = Len(todo) - 1
    BY <1>1, NextFile DEF ImageInv
  <2>2. QED
    BY <1>1, <2>1 DEF Placed
<1>3. HashIn(tree', Head(todo).path) = Head(todo).hash
  BY <1>1 DEF HashIn, MainHash
<1>4. \A h : Holding(tree', h) = Holding(tree, h)
  BY <1>1
<1>5. stale = {} /\ \A k \in DOMAIN before :
        ~lost => entries[k].refs + Cardinality(Held(g, entries[k].hash)) =
                   before[k].refs + Cardinality(Holding(tree, entries[k].hash))
  BY DEF RepeatedFrom
<1>6. QED
  <2>1. \A q \in DOMAIN tree : q \in DOMAIN tree' /\ (q # Head(todo).path => tree'[q] = tree[q])
    BY <1>1
  <2>2. Listed(entries') = Listed(entries) /\ Len(entries') = Len(entries) /\ stale' = {}
    BY <1>1, <1>5
  <2>3. \A k \in DOMAIN before : entries'[k].hash = entries[k].hash
    BY <1>1
  <2>4. ~lost' => \A k \in DOMAIN before :
          entries'[k].refs + Cardinality(Held(g, entries[k].hash)) =
            before[k].refs + Cardinality(Holding(tree', entries[k].hash))
    BY <1>1, <1>5
  <2>5. QED
    BY <1>1, <1>2, <1>3, <2>1, <2>2, <2>3, <2>4, RepeatedFile

\* Nothing of the present call is left when it fails, and none is in hand when
\* another operation is called.
LEMMA RepeatOtherStep ==
  ASSUME ImageInv, Progress,
         DriverPlaces \/ DriverBlocked \/ DriverRejects \/ ComponentBlocked
         \/ RemoveFolder \/ RemoveComponent \/ RemoveWithoutTable \/ (\E h \in Hash : SaveHive(h))
         \/ Rebuild
  PROVE  Progress' /\ Repetition'
<1>1. CASE DriverPlaces
  <2>1. /\ call = "driver" /\ call' = call /\ last' = last /\ before' = before
    BY <1>1 DEF DriverPlaces, PlaceNext
  <2>2. Progress'
    BY <2>1 DEF Progress
  <2>3. QED
    BY <2>1, <2>2 DEF Repetition, Repeats
<1>2. CASE DriverBlocked \/ DriverRejects \/ ComponentBlocked
  BY <1>2, ForgottenCall DEF DriverBlocked, DriverRejects, ComponentBlocked, Fails
<1>3. CASE RemoveFolder \/ RemoveComponent \/ RemoveWithoutTable \/ (\E h \in Hash : SaveHive(h)) \/ Rebuild
  <2>1. Idle /\ last' = <<>> /\ UNCHANGED <<call, before, todo>>
    BY <1>3 DEF RemoveFolder, RemoveComponent, Delete, RemoveWithoutTable, SaveHive, Rebuild,
       ForgetCall, callVars
  <2>2. before = <<>> /\ todo = <<>>
    BY <2>1 DEF Progress, Idle
  <2>3. QED
    BY <2>1, <2>2, ForgottenCall DEF Idle
<1>4. QED
  BY <1>1, <1>2, <1>3

LEMMA RepeatInit == Init => Progress /\ Repetition
<1> SUFFICES ASSUME Init PROVE Progress /\ Repetition
  OBVIOUS
<1>1. last = <<>> /\ before = <<>> /\ todo = <<>> /\ call = "idle" /\ Placed = 0
  BY DEF Init, Placed
<1>2. QED
  BY <1>1 DEF Progress, Repetition, Repeats

LEMMA RepeatStep == RepeatInv /\ [Next]_vars => RepeatInv'
<1> SUFFICES ASSUME RepeatInv, [Next]_vars PROVE Progress' /\ Repetition'
  BY ImageStep DEF RepeatInv
<1>1. ImageInv /\ Progress /\ Repetition /\ TypeOK
  BY DEF RepeatInv, ImageInv
<1>2. CASE Install
  <2>1. PICK kind \in {"driver", "component"}, files \in BoundedSeq(File, MaxFiles) : Begin(kind, files)
    BY <1>2 DEF Install
  <2>2. files \in Seq(File)
    BY RefsAssumption DEF BoundedSeq, SeqOf, RefsAssumption
  <2>3. QED
    BY <1>1, <2>1, <2>2, BeginProgress, BeginRepetition
<1>3. CASE ComponentKeeps
  <2>1. /\ call = "component" /\ todo # <<>> /\ todo' = Tail(todo)
        /\ Head(todo).path \in DOMAIN tree /\ MainHash(Head(todo).path) = Head(todo).hash
        /\ UNCHANGED <<tree, entries, call, last, before>>
    BY <1>3 DEF ComponentKeeps, histVars
  <2>2. Progress'
    <3>1. HashIn(tree', Head(todo).path) = Head(todo).hash
      BY <2>1 DEF HashIn, MainHash
    <3>2. Head(todo).hash \in Listed(entries)
      <4>1. Head(todo).hash \in Hash /\ tree[Head(todo).path] \in Streams
        BY <1>1, <2>1, NextFile DEF TypeOK
      <4>2. tree[Head(todo).path] # <<>> /\ tree[Head(todo).path][1] = Head(todo).hash
        BY <2>1, <4>1, RefsAssumption DEF MainHash, RefsAssumption
      <4>3. Head(todo).hash \in ToSet(tree[Head(todo).path])
        BY <4>1, <4>2, StreamsType DEF ToSet
      <4>4. QED
        BY <1>1, <2>1, <4>1, <4>3, RefsAssumption DEF ImageInv, TableCoversTree, Referenced, RefsAssumption
    <3>3. \A q \in DOMAIN tree : q \in DOMAIN tree' /\ (q # Head(todo).path => tree'[q] = tree[q])
      BY <2>1
    <3>4. Listed(entries') = Listed(entries) /\ Head(todo).path \in DOMAIN tree'
      BY <2>1
    <3>5. QED
      BY <1>1, <2>1, <3>1, <3>2, <3>3, <3>4, FileInPlace
  <2>3. ASSUME Repeats' PROVE \E g \in [LastPaths' -> Hash] : RepeatedFrom(g)'
    <3>1. Repeats
      BY <2>1, <2>3 DEF Repeats
    <3>2. PICK g \in [LastPaths -> Hash] : RepeatedFrom(g)
      BY <1>1, <3>1 DEF Repetition
    <3>3. RepeatedFrom(g)' /\ LastPaths' = LastPaths
      BY <1>1, <1>3, <2>1, <3>2, RepeatedKeep DEF LastPaths
    <3>4. QED
      BY <3>3
  <2>4. QED
    BY <2>2, <2>3 DEF Repetition
<1>4. CASE ComponentPlaces
  <2>1. /\ call = "component" /\ todo # <<>> /\ todo' = Tail(todo)
        /\ CountThroughMap(Replaced(Head(todo).path), Head(todo).hash)
        /\ PlaceFile(Head(todo).path, Head(todo).hash) /\ UNCHANGED <<call, last, before>>
    BY <1>4 DEF ComponentPlaces, PlaceNext
  <2>2. Progress'
    <3>1. Head(todo).hash \in Hash /\ Head(todo).path \in Path
      BY <1>1, <2>1, NextFile
    <3>2. /\ DOMAIN tree' = DOMAIN tree \cup {Head(todo).path}
          /\ HashIn(tree', Head(todo).path) = Head(todo).hash
          /\ \A q \in DOMAIN tree : q # Head(todo).path => tree'[q] = tree[q]
      BY <2>1, <3>1, StreamsOfOne DEF PlaceFile, HashIn
    <3>3. SameHashes(entries, Replaced(Head(todo).path))
      <4>1. SameHashes(entries, entries) /\ entries \in Seq(Entry)
        BY <1>1 DEF SameHashes, TypeOK
      <4>2. QED
        BY <4>1, DecrementedOne DEF Replaced
    <3>4. Listed(entries') = Listed(entries) \cup {Head(todo).hash}
      BY <1>1, <2>1, <3>1, <3>3, CountingOne, CoversTreeListedOnce DEF ImageInv, Mapped
    <3>5. \A q \in DOMAIN tree : q \in DOMAIN tree' /\ (q # Head(todo).path => tree'[q] = tree[q])
      BY <3>2
    <3>6. QED
      BY <1>1, <2>1, <3>2, <3>4, <3>5, FileInPlace
  <2>3. ASSUME Repeats' PROVE \E g \in [LastPaths' -> Hash] : RepeatedFrom(g)'
    <3>1. Repeats
      BY <2>1, <2>3 DEF Repeats
    <3>2. PICK g \in [LastPaths -> Hash] : RepeatedFrom(g)
      BY <1>1, <3>1 DEF Repetition
    <3>3. RepeatedFrom(g)' /\ LastPaths' = LastPaths
      BY <1>1, <1>4, <2>1, <3>2, RepeatedPlacement DEF LastPaths
    <3>4. QED
      BY <3>3
  <2>4. QED
    BY <2>2, <2>3 DEF Repetition
<1>5. CASE InstallReturns
  <2>1. /\ call # "idle" /\ todo = <<>> /\ call' = "idle" /\ before' = <<>>
        /\ last' = (IF call = "component" THEN last ELSE <<>>)
        /\ UNCHANGED <<tree, entries, todo>>
    BY <1>5 DEF InstallReturns, Idle, callVars
  <2>2. CASE call = "component"
    <3>1. Placed' = Placed /\ last' = last /\ Len(todo) = 0
      BY <2>1, <2>2 DEF Placed
    <3>2. \A j \in 1 .. Placed' :
            /\ last'[j].path \in DOMAIN tree' /\ (MainHash(last[j].path)' \in Hash)
            /\ last'[j].hash \in Listed(entries')
            /\ (MainHash(last[j].path)' = last'[j].hash) \/ Rewritten(last[j].path, j, Placed)'
      BY <1>1, <2>1, <2>2, <3>1 DEF Progress, Rewritten, MainHash
    <3>3. Progress'
      BY <1>1, <2>1, <2>2, <3>1, <3>2 DEF Progress
    <3>4. QED
      BY <2>1, <3>3 DEF Repetition, Repeats
  <2>3. CASE call # "component"
    BY <2>1, <2>3, ForgottenCall
  <2>4. QED
    BY <2>2, <2>3
<1>6. CASE UNCHANGED vars
  <2>1. UNCHANGED <<tree, entries, call, todo, stale, lost, last, before>>
    BY <1>6 DEF vars, callVars, histVars
  <2>2. Progress'
    BY <1>1, <2>1 DEF Progress, Placed, Rewritten, MainHash, Listed
  <2>3. Repetition'
    <3>1. LastPaths' = LastPaths /\ Placed' = Placed
      BY <2>1 DEF LastPaths, Placed
    <3>2. ASSUME NEW g, RepeatedFrom(g) PROVE RepeatedFrom(g)'
      <4>1. ASSUME NEW k
            PROVE  /\ Held(g, entries[k].hash)' = Held(g, entries[k].hash)
                   /\ Holding(tree, entries[k].hash)' = Holding(tree, entries[k].hash)
        BY <2>1, <3>1 DEF Held, Holding, HashIn
      <4>2. (~lost => \A k \in DOMAIN before :
                entries[k].refs + Cardinality(Held(g, entries[k].hash)) =
                  before[k].refs + Cardinality(Holding(tree, entries[k].hash)))'
        BY <2>1, <3>2, <4>1 DEF RepeatedFrom
      <4>3. QED
        BY <2>1, <3>1, <3>2, <4>2 DEF RepeatedFrom, Rewritten, MainHash, Listed
    <3>3. QED
      BY <1>1, <2>1, <3>1, <3>2 DEF Repetition, Repeats
  <2>4. QED
    BY <2>2, <2>3
<1>7. QED
  BY <1>1, <1>2, <1>3, <1>4, <1>5, <1>6, RepeatOtherStep DEF Next

\* component.Install called again with the files of the call before it inflates no
\* count, whatever the files, several of them at one path included: as long as
\* no count went through a pointer into an abandoned array.
THEOREM ReinstallExact == Spec => []ReinstallKeepsCounts
<1>1. RepeatInv => ReinstallKeepsCounts
  <2> SUFFICES ASSUME RepeatInv, Repeats, todo = <<>>, ~lost, NEW k \in DOMAIN before
               PROVE  entries[k].refs <= before[k].refs
    BY DEF ReinstallKeepsCounts
  <2>1. PICK g \in [LastPaths -> Hash] : RepeatedFrom(g)
    BY DEF RepeatInv, Repetition
  <2>2. Placed = Len(last) /\ Len(last) \in Nat
    BY DEF Placed, RepeatInv, Progress
  <2>3. \A p \in LastPaths : MainHash(p) = g[p]
    BY <2>1, <2>2 DEF RepeatedFrom, Rewritten
  <2>4. Held(g, entries[k].hash) = Holding(tree, entries[k].hash)
    BY <2>3 DEF Held, Holding, HashIn, MainHash
  <2>5. entries[k].refs + Cardinality(Held(g, entries[k].hash)) =
          before[k].refs + Cardinality(Holding(tree, entries[k].hash))
    BY <2>1 DEF RepeatedFrom
  <2>6. Cardinality(Holding(tree, entries[k].hash)) \in Nat
    BY LastPathsFinite DEF RepeatInv
  <2>7. entries[k].refs \in Nat /\ before[k].refs \in Nat
    <3>1. entries \in Seq(Entry) /\ before \in Seq(Entry) /\ k \in DOMAIN entries
      BY <2>1 DEF RepeatInv, ImageInv, TypeOK, Progress, RepeatedFrom
    <3>2. QED
      BY <3>1, EntriesType
  <2>8. QED
    BY <2>4, <2>5, <2>6, <2>7
<1>2. Init => RepeatInv
  BY ImageInit, RepeatInit DEF RepeatInv
<1>3. QED
  BY <1>1, <1>2, RepeatStep, PTL DEF Spec
=============================================================================
