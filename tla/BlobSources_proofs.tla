------------------------- MODULE BlobSources_proofs -------------------------
(***************************************************************************)
(* Proofs about BlobSources: whatever the caller edits, writes, exports and *)
(* reopens, and whenever the workers ask the source, a WriteTo whose caller *)
(* has kept to the rules writes under each hash that blob's bytes, and does *)
(* not refuse a blob unless its table is left from an earlier attempt.      *)
(***************************************************************************)
EXTENDS BlobSources, FiniteSetTheorems, WellFoundedInduction, TLAPS

-----------------------------------------------------------------------------
(* Types                                                                     *)

Content == Blob \cup {Rest} \cup Image
Hashes == Blob \cup Image
Answers == {NoBytes, Refused} \cup Content
ResourceType == [at : Nat, len : {0, 1}, size : {0, 1}, meta : BOOLEAN]
EntryType == [hash : Hashes, res : ResourceType]
TableType ==
    [entries : Seq(EntryType), index : UNION {[S -> Nat \ {0}] : S \in SUBSET Hashes},
     indexed : Nat, used : BOOLEAN]
FileType == [bytes : Seq(Content), table : Seq(EntryType)]
JobType ==
    [stage : {"idle", "blobs", "images", "written", "refused", "failed"}, slot : 1 .. 3,
     images : Seq(Image), new : SUBSET Blob, mapFirst : BOOLEAN, next : Nat \ {0}, last : Nat,
     covered : BOOLEAN, followed : BOOLEAN, table : Seq(EntryType)]

SourcesTypeOK ==
    /\ file \in FileType
    /\ tables \in [1 .. 3 -> TableType]
    /\ cur \in {1, 2}
    /\ images \in Seq(Image)
    /\ given \in SUBSET Blob
    /\ job \in JobType
    /\ fetched \in Seq(Answers)
    /\ out \in Seq(Content)
-----------------------------------------------------------------------------
(* The inductive invariant                                                   *)

ListedIn(es) == {es[k].hash : k \in DOMAIN es}

\* The index is over the first entries, and finds one of the hash it is asked for.
IndexFinds(t) ==
    /\ t.indexed <= Len(t.entries)
    /\ DOMAIN t.index = {t.entries[k].hash : k \in 1 .. t.indexed}
    /\ \A h \in DOMAIN t.index : t.index[h] \in 1 .. t.indexed /\ t.entries[t.index[h]].hash = h

IndexesFind == \A s \in 1 .. 3 : IndexFinds(tables[s])

\* A file's metadata resources are images, and the file's table lists what they refer to.
ImagesKept(f) ==
    \A k \in DOMAIN f.table :
        f.table[k].res.meta =>
            /\ f.table[k].hash \in Image /\ f.table[k].hash \subseteq ListedIn(f.table)
            /\ ReadResource(f, f.table[k].res) = f.table[k].hash

\* Nothing the caller's trees refer to is neither in the source's table nor given.
Sourced ==
    /\ \A i \in DOMAIN images : images[i] \subseteq ListedIn(tables[cur].entries)
    /\ ListedIn(file.table) \subseteq ListedIn(tables[1].entries)
    /\ ListedIn(tables[cur].entries) \cap Blob \subseteq ListedIn(tables[1].entries) \cup given
    /\ ~tables[cur].used => ListedIn(tables[cur].entries) \subseteq ListedIn(tables[1].entries) \cup given

\* An entry of the source's table, before WriteTo is given it: the file's own, or one
\* for a new blob.
Original(e, f, new) ==
    \/ \E k \in DOMAIN f.table : e = f.table[k]
    \/ e.res = Unplaced(e.hash) /\ e.hash \in new /\ e.hash \notin ListedIn(f.table)
SourceUntouched ==
    ~tables[1].used => \A k \in DOMAIN tables[1].entries : Original(tables[1].entries[k], file, given)

Slot == tables[job.slot].entries
Working == job.stage \in {"blobs", "images"}

\* How far the WriteTo at hand is, whoever has called it.
WriteProgress ==
    /\ Working => /\ job.slot \in {cur, 3} /\ tables[job.slot].used
                  /\ \A i \in DOMAIN job.images : job.images[i] \subseteq ListedIn(Slot)
    /\ job.stage = "blobs" =>
         /\ job.last = Len(Slot) /\ job.next <= Len(fetched) + 1 /\ Len(fetched) <= job.last
         /\ \A k \in 1 .. job.next - 1 : ~Slot[k].res.meta
    /\ job.stage = "images" =>
         /\ Len(Slot) = job.last + job.next - 1 /\ job.next <= Len(job.images) + 1
         /\ \A k \in 1 .. job.last : ~Slot[k].res.meta
         /\ \A i \in 1 .. job.next - 1 :
              /\ Slot[job.last + i].res.meta /\ Slot[job.last + i].hash = job.images[i]
              /\ ReadResource([bytes |-> out], Slot[job.last + i].res) = job.images[i]
    /\ job.stage = "written" => ImagesKept(NewFile)

\* What the source can say of a hash that WriteTo will ask for.
SourceTells ==
    \A k \in DOMAIN tables[1].entries :
        LET e == tables[1].entries[k]
        IN  (job.slot = 1 => k >= job.next) /\ e.hash \in ListedIn(Slot) =>
                \/ ReadResource(file, e.res) = e.hash
                \/ ReadResource(file, e.res) = Refused /\ e.hash \in job.new

\* ... if its caller has kept to the rules.
WriteFollowed ==
    /\ job.followed /\ job.stage = "blobs" =>
         /\ job.slot = 1 => Distinct(tables[1].entries)
         /\ SourceTells
         /\ job.covered => ListedIn(Slot) \subseteq ListedIn(tables[1].entries) \cup job.new
         /\ \A k \in job.next .. Len(fetched) :
              fetched[k] = Slot[k].hash \/ (fetched[k] = Refused /\ ~job.covered)
         /\ \A k \in 1 .. job.next - 1 : ReadResource([bytes |-> out], Slot[k].res) = Slot[k].hash
    /\ job.followed /\ job.stage = "images" =>
         \A k \in DOMAIN Slot : ReadResource([bytes |-> out], Slot[k].res) = Slot[k].hash

SourcesInv ==
    /\ SourcesTypeOK
    /\ IndexesFind
    /\ ImagesKept(file)
    /\ Sourced
    /\ SourceUntouched
    /\ WriteProgress
    /\ WriteFollowed
    /\ WritesTellTheTruth
-----------------------------------------------------------------------------
(* Numbers, sets in some order, and the entries picked from a table.         *)

Below == {p \in Nat \X Nat : p[1] < p[2]}

LEMMA LeastExists ==
    ASSUME NEW S \in SUBSET Nat, S # {}
    PROVE  \E x \in S : \A y \in S : x <= y
<1>1. IsWellFoundedOn(Below, Nat)
  <2>1. OpToRel(<, Nat) = Below
    BY DEF OpToRel, Below
  <2> QED
    BY <2>1, NatLessThanWellFounded
<1>2. PICK x \in S : \A y \in S : ~(<<y, x>> \in Below)
  BY <1>1, WFMin
<1>3. ASSUME NEW y \in S PROVE x <= y
  <2>1. x \in Nat /\ y \in Nat
    OBVIOUS
  <2>2. ~(y < x)
    BY <1>2, <2>1 DEF Below
  <2> QED
    BY <2>1, <2>2
<1> QED
  BY <1>3

LEMMA MinIsLeast ==
    ASSUME NEW S \in SUBSET Nat, S # {}
    PROVE  Min(S) \in S /\ \A y \in S : Min(S) <= y
BY LeastExists DEF Min

\* A set in some order: each element at one place.
LEMMA InSomeOrder ==
    ASSUME NEW S, IsFiniteSet(S)
    PROVE  /\ SetToSeq(S) \in Seq(S) /\ Len(SetToSeq(S)) \in Nat
           /\ \A x \in S : \E k \in DOMAIN SetToSeq(S) : SetToSeq(S)[k] = x
<1> DEFINE n == Cardinality(S)
           f == SetToSeq(S)
<1>1. n \in Nat /\ ExistsBijection(1 .. n, S)
  BY FS_CardinalityType
<1>2. \E g \in [1 .. n -> S] : IsInjective(g)
  BY <1>1 DEF ExistsBijection, Bijection, Injection
<1>3. f \in [1 .. n -> S] /\ IsInjective(f)
  BY <1>2 DEF SetToSeq
<1>4. Cardinality(1 .. n) = n
  BY <1>1, FS_Interval
<1>5. f \in Injection(1 .. n, S)
  BY <1>3 DEF Injection
<1>6. f \in Surjection(1 .. n, S)
  BY <1>4, <1>5, FS_Injection
<1> HIDE DEF n, f
<1>7. f \in Seq(S) /\ Len(f) = n /\ DOMAIN f = 1 .. n
  BY <1>1, <1>3
<1>8. \A x \in S : \E k \in DOMAIN f : f[k] = x
  BY <1>6, <1>7 DEF Surjection
<1> QED
  BY <1>1, <1>7, <1>8 DEF f

\* A set of numbers, counted from the least: some element is the i-th.
LEMMA CountedTo ==
    ASSUME NEW b \in Nat, NEW S \in SUBSET (1 .. b), NEW i \in 1 .. Cardinality(S)
    PROVE  \E k \in S : Cardinality({j \in S : j <= k}) = i
<1> DEFINE upTo(n) == {j \in S : j <= n}
           c(n) == Cardinality(upTo(n))
           enough == {n \in Nat : i <= c(n)}
<1>1. /\ IsFiniteSet(S) /\ Cardinality(S) \in Nat
      /\ \A j \in S : j \in Nat /\ 1 <= j /\ j <= b
  <2>1. IsFiniteSet(1 .. b)
    BY FS_Interval
  <2>2. IsFiniteSet(S)
    BY <2>1, FS_Subset
  <2> QED
    BY <2>2, FS_CardinalityType
<1>2. \A n \in Nat : IsFiniteSet(upTo(n)) /\ c(n) \in Nat
  <2> TAKE n \in Nat
  <2>1. upTo(n) \in SUBSET S
    OBVIOUS
  <2> HIDE DEF upTo
  <2> QED
    BY <1>1, <2>1, FS_Subset, FS_CardinalityType
<1>3. b \in enough
  <2>1. upTo(b) = S
    BY <1>1
  <2> QED
    BY <2>1
<1>4. PICK n \in enough : \A m \in enough : n <= m
  <2>1. enough \in SUBSET Nat /\ enough # {}
    BY <1>3
  <2> HIDE DEF enough
  <2> QED
    BY <2>1, LeastExists
<1>5. n # 0
  <2>1. upTo(0) = {}
    <3>1. \A j \in S : ~(j <= 0)
      BY <1>1
    <3> QED
      BY <3>1
  <2>2. c(0) = 0
    BY <2>1, FS_EmptySet
  <2> HIDE DEF c
  <2> QED
    BY <1>4, <2>2
<1>6. n - 1 \in Nat /\ n - 1 \notin enough /\ n \in Nat /\ i <= c(n)
  <2>1. n \in Nat /\ i <= c(n) /\ enough \subseteq Nat
    OBVIOUS
  <2>2. n - 1 \in Nat
    BY <1>5, <2>1
  <2> HIDE DEF enough, c
  <2>3. ~(n <= n - 1)
    BY <2>1
  <2> QED
    BY <1>4, <2>1, <2>2, <2>3
<1>7. c(n - 1) < i
  <2>1. c(n - 1) \in Nat
    <3>1. n - 1 \in Nat
      BY <1>6
    <3> HIDE DEF upTo
    <3> QED
      BY <1>2, <3>1
  <2>0. i \in Nat
    BY <1>1
  <2>2. ~(i <= c(n - 1))
    BY <1>6
  <2> HIDE DEF c
  <2> QED
    BY <2>0, <2>1, <2>2
<1>8. CASE n \in S
  <2>1. upTo(n) = upTo(n - 1) \cup {n} /\ n \notin upTo(n - 1)
    <3>1. \A j \in S : j <= n <=> j <= n - 1 \/ j = n
      BY <1>1, <1>6
    <3> QED
      BY <1>6, <1>8, <3>1
  <2>2. c(n) = c(n - 1) + 1
    <3>1. IsFiniteSet(upTo(n - 1))
      BY <1>2, <1>6
    <3> HIDE DEF upTo
    <3> QED
      BY <2>1, <3>1, FS_AddElement
  <2>3. c(n) = i
    <3>1. c(n - 1) \in Nat
      BY <1>2, <1>6
    <3> HIDE DEF c
    <3> QED
      BY <1>6, <1>7, <2>2, <3>1
  <2> QED
    BY <1>8, <2>3
<1>9. CASE n \notin S
  <2>1. upTo(n) = upTo(n - 1)
    <3>1. \A j \in S : j <= n <=> j <= n - 1
      BY <1>1, <1>6, <1>9
    <3> QED
      BY <3>1
  <2>2. c(n) = c(n - 1)
    BY <2>1
  <2>3. c(n) \in Nat
    BY <1>2, <1>6
  <2> HIDE DEF c
  <2> QED
    BY <1>6, <1>7, <2>2, <2>3
<1> QED
  BY <1>8, <1>9

\* MetadataResources gives metadata entries only,
LEMMA MetadataPicked ==
    ASSUME NEW X, NEW es \in Seq(X), NEW i \in DOMAIN MetadataResources(es)
    PROVE  \E k \in Metadata(es) : MetadataResources(es)[i] = es[k]
<1> DEFINE S == Metadata(es)
<1>1. S \in SUBSET (1 .. Len(es)) /\ Len(es) \in Nat
  BY DEF Metadata
<1>2. i \in 1 .. Cardinality(S)
  BY DEF MetadataResources
<1> HIDE DEF S
<1>3. \E k \in S : Cardinality({j \in S : j <= k}) = i
  BY <1>1, <1>2, CountedTo
<1> QED
  BY <1>3 DEF MetadataResources, S

\* ... and all of them in order, if they are the last of the table.
LEMMA MetadataLast ==
    ASSUME NEW es \in Seq(EntryType), NEW n \in Nat, n <= Len(es),
           \A k \in DOMAIN es : es[k].res.meta <=> k > n
    PROVE  MetadataResources(es) = [i \in 1 .. Len(es) - n |-> es[n + i]]
<1> DEFINE S == Metadata(es)
           m == Len(es) - n
<1>0. m \in Nat /\ Len(es) = n + m
  OBVIOUS
<1> HIDE DEF m
<1>1. S = n + 1 .. n + m
  <2>1. DOMAIN es = 1 .. n + m
    BY <1>0
  <2>2. \A k \in 1 .. n + m : es[k].res.meta <=> k > n
    BY <2>1
  <2>3. \A k : k \in n + 1 .. n + m <=> k \in 1 .. n + m /\ k > n
    BY <1>0
  <2> QED
    BY <2>1, <2>2, <2>3 DEF Metadata
<1>2. Cardinality(S) = m
  BY <1>0, <1>1, FS_Interval
<1>3. ASSUME NEW k \in S
      PROVE  Cardinality({j \in S : j <= k}) = k - n
  <2>1. {j \in S : j <= k} = n + 1 .. k
    BY <1>0, <1>1
  <2>2. Cardinality(n + 1 .. k) = k - n
    BY <1>0, <1>1, FS_Interval
  <2> QED
    BY <2>1, <2>2
<1>4. ASSUME NEW i \in 1 .. m
      PROVE  (CHOOSE k \in S : Cardinality({j \in S : j <= k}) = i) = n + i
  <2>1. n + i \in S /\ (n + i) - n = i
    BY <1>0, <1>1
  <2>2. \A k \in S : k - n = i => k = n + i
    <3>1. \A k \in n + 1 .. n + m : k - n = i => k = n + i
      BY <1>0
    <3> HIDE DEF S
    <3> QED
      BY <1>1, <3>1
  <2> HIDE DEF S
  <2> QED
    BY <1>3, <2>1, <2>2
<1>5. MetadataResources(es) =
        [i \in 1 .. Cardinality(S) |-> es[CHOOSE k \in S : Cardinality({j \in S : j <= k}) = i]]
  BY DEF MetadataResources
<1> HIDE DEF S
<1> QED
  BY <1>2, <1>4, <1>5 DEF m

-----------------------------------------------------------------------------
(* Bytes and where they are.                                                 *)

LEMMA ReadType ==
    ASSUME NEW f, f.bytes \in Seq(Content), NEW res \in ResourceType
    PROVE  ReadResource(f, res) \in Answers
BY DEF ReadResource, Answers

\* What can be read goes on being read as more is written behind it.
LEMMA ReadKept ==
    ASSUME NEW f, NEW g, f.bytes \in Seq(Content), g.bytes \in Seq(Content),
           Len(f.bytes) <= Len(g.bytes), \A k \in DOMAIN f.bytes : g.bytes[k] = f.bytes[k],
           NEW res \in ResourceType, ReadResource(f, res) # Refused
    PROVE  ReadResource(g, res) = ReadResource(f, res)
<1>1. DOMAIN f.bytes \subseteq DOMAIN g.bytes
  OBVIOUS
<1> QED
  BY <1>1 DEF ReadResource

LEMMA NotBytes ==
    ASSUME SourcesAssumption
    PROVE  /\ NoBytes \notin Image /\ Refused \notin Content
           /\ Blob \cap Image = {} /\ Hashes \subseteq Content
           /\ \A im \in Image : IsImage(im)
           /\ \A b \in Answers : IsImage(b) => b \in Image
BY DEF SourcesAssumption, Content, Hashes, Image, IsImage, Answers

\* A turn of WriteTo keeps what is written, and the place it notes is where
\* the bytes are.
LEMMA WrittenReads ==
    ASSUME SourcesAssumption, out \in Seq(Content), NEW b \in Answers \ {Refused}, NEW meta \in BOOLEAN
    PROVE  /\ Written(b) \in Seq(Content) /\ Len(out) <= Len(Written(b))
           /\ \A k \in DOMAIN out : Written(b)[k] = out[k]
           /\ Placed(b, meta) \in ResourceType /\ Placed(b, meta).meta = meta
           /\ b \in Content => ReadResource([bytes |-> Written(b)], Placed(b, meta)) = b
<1>1. Placed(b, meta) \in ResourceType /\ Placed(b, meta).meta = meta
  BY DEF Placed, ResourceType
<1>2. CASE b = NoBytes
  <2>1. Written(b) = out /\ Placed(b, meta).len = 0 /\ Placed(b, meta).size = 0
    BY <1>2 DEF Written, Placed
  <2> QED
    BY <1>1, <1>2, <2>1 DEF ReadResource
<1>3. CASE b # NoBytes
  <2>1. b \in Content /\ Rest \in Content
    BY <1>3 DEF Answers, Content
  <2>2. Len(out) + 1 \in DOMAIN Written(b) /\ Written(b)[Len(out) + 1] = b
    BY <1>3, <2>1 DEF Written
  <2>3. /\ Written(b) \in Seq(Content) /\ Len(out) <= Len(Written(b))
        /\ \A k \in DOMAIN out : Written(b)[k] = out[k]
    BY <1>3, <2>1 DEF Written
  <2>4. Placed(b, meta).at = Len(out) + 1 /\ Placed(b, meta).len = 1
    BY <1>3 DEF Placed
  <2> QED
    BY <1>1, <2>2, <2>3, <2>4 DEF ReadResource
<1> QED
  BY <1>2, <1>3

LEMMA StillReads ==
    ASSUME SourcesAssumption, out \in Seq(Content), NEW b \in Answers \ {Refused},
           NEW res \in ResourceType, NEW h \in Content, ReadResource([bytes |-> out], res) = h
    PROVE  ReadResource([bytes |-> Written(b)], res) = h
<1> DEFINE f == [bytes |-> out]
           g == [bytes |-> Written(b)]
<1>1. f.bytes = out /\ g.bytes = Written(b) /\ ReadResource(f, res) = h /\ h # Refused
  BY NotBytes
<1> HIDE DEF f, g
<1>2. /\ f.bytes \in Seq(Content) /\ g.bytes \in Seq(Content) /\ Len(f.bytes) <= Len(g.bytes)
      /\ \A j \in DOMAIN f.bytes : g.bytes[j] = f.bytes[j]
  <2>1. /\ Written(b) \in Seq(Content) /\ Len(out) <= Len(Written(b))
        /\ \A k \in DOMAIN out : Written(b)[k] = out[k]
    <3>1. TRUE \in BOOLEAN
      OBVIOUS
    <3> QED
      BY <3>1, WrittenReads
  <2> QED
    BY <1>1, <2>1
<1>3. ReadResource(g, res) = ReadResource(f, res)
  BY <1>1, <1>2, ReadKept
<1> QED
  BY <1>1, <1>3 DEF g
-----------------------------------------------------------------------------
(* Tables.                                                                   *)

LEMMA ZeroType == Zero \in ResourceType /\ ~Zero.meta
BY DEF Zero, ResourceType

\* The reader refuses an entry that has a size and no place; the empty file needs none.
LEMMA UnplacedRefused ==
    ASSUME NEW h
    PROVE  /\ Unplaced(h) \in ResourceType /\ ~Unplaced(h).meta
           /\ \A f : ReadResource(f, Unplaced(h)) = IF h = NoBytes THEN h ELSE Refused
<1>1. /\ Unplaced(h).at = 0 /\ Unplaced(h).len = 0 /\ Unplaced(h).meta = FALSE
      /\ Unplaced(h).size = (IF h = NoBytes THEN 0 ELSE 1)
      /\ Unplaced(h) \in ResourceType
  BY DEF Unplaced, Zero, ResourceType
<1> QED
  BY <1>1 DEF ReadResource

LEMMA DescriptorType ==
    ASSUME NEW h \in Hashes, NEW res \in ResourceType
    PROVE  /\ Descriptor(h, res) \in EntryType
           /\ Descriptor(h, res).hash = h /\ Descriptor(h, res).res = res
BY DEF Descriptor, EntryType

\* What steps make of a table: it is given to WriteTo, an entry is appended, the
\* n-th entry's resource is set.
InUse(t) == [t EXCEPT !.used = TRUE]
WithEntry(t, e) == [t EXCEPT !.entries = Append(@, e)]
WithResource(t, n, res) == [t EXCEPT !.entries[n].res = res]

\* A table no lookup has been made in.
LEMMA TableFresh ==
    ASSUME NEW es \in Seq(EntryType)
    PROVE  /\ Table(es) \in TableType /\ IndexFinds(Table(es))
           /\ Table(es).entries = es /\ ~Table(es).used
<1>1. /\ Table(es).entries = es /\ Table(es).index = <<>> /\ Table(es).indexed = 0 /\ Table(es).used = FALSE
      /\ Table(es) = [entries |-> es, index |-> <<>>, indexed |-> 0, used |-> FALSE]
  BY DEF Table
<1>2. DOMAIN <<>> = {} /\ <<>> \in [{} -> Nat \ {0}]
  OBVIOUS
<1>3. <<>> \in UNION {[S -> Nat \ {0}] : S \in SUBSET Hashes}
  BY <1>2
<1>4. Table(es) \in TableType
  <2>1. \A ix \in UNION {[S -> Nat \ {0}] : S \in SUBSET Hashes} :
          [entries |-> es, index |-> ix, indexed |-> 0, used |-> FALSE] \in TableType
    BY DEF TableType
  <2> QED
    BY <1>1, <1>3, <2>1
<1>5. IndexFinds(Table(es))
  BY <1>1, <1>2 DEF IndexFinds
<1> QED
  BY <1>1, <1>4, <1>5

LEMMA EntryFields ==
    ASSUME NEW es \in Seq(EntryType), NEW k \in DOMAIN es
    PROVE  es[k] \in EntryType /\ es[k].hash \in Hashes /\ es[k].res \in ResourceType /\ es[k].hash \in ListedIn(es)
<1>1. es[k] \in EntryType
  OBVIOUS
<1> QED
  BY <1>1 DEF EntryType, ListedIn

LEMMA TableFields ==
    ASSUME NEW t \in TableType
    PROVE  /\ t.entries \in Seq(EntryType) /\ t.indexed \in Nat /\ t.used \in BOOLEAN
           /\ \E S \in SUBSET Hashes : t.index \in [S -> Nat \ {0}]
BY DEF TableType

\* Lookups: what is listed can be found, and nothing else changes.
LEMMA IndexedFinds ==
    ASSUME NEW t \in TableType, IndexFinds(t)
    PROVE  /\ Indexed(t) \in TableType /\ IndexFinds(Indexed(t))
           /\ Indexed(t).entries = t.entries /\ Indexed(t).used = t.used
           /\ DOMAIN Indexed(t).index = ListedIn(t.entries)
<1> DEFINE n == Len(t.entries)
           tail == t.indexed + 1 .. n
           new == {t.entries[k].hash : k \in tail}
           at(h) == {k \in tail : t.entries[k].hash = h}
           idx == [h \in DOMAIN t.index \cup new |-> IF h \in DOMAIN t.index THEN t.index[h] ELSE Min(at(h))]
<1>1. /\ t.entries \in Seq(EntryType) /\ t.indexed \in Nat /\ n \in Nat /\ DOMAIN t.entries = 1 .. n
      /\ t.indexed <= n
  BY TableFields DEF IndexFinds
<1>2. tail \subseteq 1 .. n /\ 1 .. t.indexed \cup tail = 1 .. n /\ 1 .. t.indexed \subseteq 1 .. n
  BY <1>1
<1>3. Indexed(t) = [t EXCEPT !.indexed = n, !.index = idx]
  BY DEF Indexed
<1>4. \A h \in new : Min(at(h)) \in 1 .. n /\ t.entries[Min(at(h))].hash = h
  <2> TAKE h \in new
  <2>1. at(h) \in SUBSET Nat /\ at(h) # {}
    BY <1>1
  <2>2. Min(at(h)) \in at(h)
    BY <2>1, MinIsLeast
  <2> QED
    BY <1>2, <2>2
<1>5. DOMAIN t.index = {t.entries[k].hash : k \in 1 .. t.indexed}
  BY DEF IndexFinds
<1>6. DOMAIN idx = ListedIn(t.entries)
  BY <1>1, <1>2, <1>5 DEF ListedIn
<1>7. \A h \in DOMAIN idx : idx[h] \in 1 .. n /\ t.entries[idx[h]].hash = h
  <2> TAKE h \in DOMAIN idx
  <2>1. CASE h \in DOMAIN t.index
    <3>1. idx[h] = t.index[h]
      BY <2>1
    <3>2. t.index[h] \in 1 .. t.indexed /\ t.entries[t.index[h]].hash = h
      BY <2>1 DEF IndexFinds
    <3> HIDE DEF idx, n
    <3> QED
      BY <1>2, <3>1, <3>2
  <2>2. CASE h \notin DOMAIN t.index
    <3>1. idx[h] = Min(at(h)) /\ h \in new
      BY <2>2
    <3> HIDE DEF idx, n, new
    <3> QED
      BY <1>4, <3>1
  <2> QED
    BY <2>1, <2>2
<1>8. idx \in [ListedIn(t.entries) -> Nat \ {0}] /\ ListedIn(t.entries) \in SUBSET Hashes
  <2>1. \A h \in DOMAIN idx : idx[h] \in Nat \ {0}
    <3> HIDE DEF idx
    <3> QED
      BY <1>1, <1>7
  <2>2. ListedIn(t.entries) \in SUBSET Hashes
    BY <1>1, EntryFields DEF ListedIn
  <2> HIDE DEF n, tail, new, at
  <2> QED
    BY <1>6, <2>1, <2>2
<1> HIDE DEF idx, n
<1>9. /\ Indexed(t).entries = t.entries /\ Indexed(t).used = t.used
      /\ Indexed(t).index = idx /\ Indexed(t).indexed = n
      /\ Indexed(t) \in TableType
  <2>1. idx \in UNION {[S -> Nat \ {0}] : S \in SUBSET Hashes}
    BY <1>8
  <2> QED
    BY <1>1, <1>3, <2>1 DEF TableType
<1>10. IndexFinds(Indexed(t))
  <2>1. DOMAIN idx = {t.entries[k].hash : k \in 1 .. n}
    BY <1>1, <1>6 DEF ListedIn
  <2> QED
    BY <1>1, <1>7, <1>9, <2>1 DEF IndexFinds
<1> QED
  BY <1>6, <1>9, <1>10

\* Changes behind the index, or beside the hashes, leave it right.
LEMMA StillFinds ==
    ASSUME NEW t \in TableType, NEW u \in TableType, IndexFinds(t),
           u.index = t.index, u.indexed = t.indexed, Len(t.entries) <= Len(u.entries),
           \A k \in DOMAIN t.entries : u.entries[k].hash = t.entries[k].hash
    PROVE  IndexFinds(u)
<1>1. /\ t.entries \in Seq(EntryType) /\ u.entries \in Seq(EntryType) /\ t.indexed \in Nat
      /\ t.indexed <= Len(t.entries) /\ Len(t.entries) \in Nat /\ Len(u.entries) \in Nat
      /\ DOMAIN t.entries = 1 .. Len(t.entries)
  BY TableFields DEF IndexFinds
<1>2. 1 .. t.indexed \subseteq DOMAIN t.entries /\ t.indexed <= Len(u.entries)
  BY <1>1
<1>3. {t.entries[k].hash : k \in 1 .. t.indexed} = {u.entries[k].hash : k \in 1 .. t.indexed}
  BY <1>2
<1>4. \A h \in DOMAIN t.index : t.index[h] \in 1 .. t.indexed /\ u.entries[t.index[h]].hash = h
  BY <1>2 DEF IndexFinds
<1> QED
  BY <1>2, <1>3, <1>4 DEF IndexFinds

LEMMA UsedFinds ==
    ASSUME NEW t \in TableType, IndexFinds(t)
    PROVE  /\ InUse(t) \in TableType /\ IndexFinds(InUse(t))
           /\ InUse(t).entries = t.entries /\ InUse(t).used
<1> DEFINE u == InUse(t)
<1>1. u \in TableType /\ u.entries = t.entries /\ u.index = t.index /\ u.indexed = t.indexed /\ u.used
  BY DEF TableType, InUse
<1> HIDE DEF u
<1>2. Len(t.entries) <= Len(u.entries)
  BY <1>1, TableFields
<1>3. IndexFinds(u)
  BY <1>1, <1>2, StillFinds
<1> QED
  BY <1>1, <1>3 DEF u

LEMMA AppendedFinds ==
    ASSUME NEW t \in TableType, IndexFinds(t), NEW e \in EntryType
    PROVE  /\ WithEntry(t, e) \in TableType /\ IndexFinds(WithEntry(t, e))
           /\ WithEntry(t, e).entries = Append(t.entries, e) /\ WithEntry(t, e).used = t.used
           /\ ListedIn(WithEntry(t, e).entries) = ListedIn(t.entries) \cup {e.hash}
<1> DEFINE u == WithEntry(t, e)
<1>1. t.entries \in Seq(EntryType) /\ Len(t.entries) \in Nat
  BY TableFields
<1>2. /\ Append(t.entries, e) \in Seq(EntryType) /\ Len(Append(t.entries, e)) = Len(t.entries) + 1
      /\ \A k \in 1 .. Len(t.entries) : Append(t.entries, e)[k] = t.entries[k]
      /\ Append(t.entries, e)[Len(t.entries) + 1] = e
  BY <1>1
<1>3. u \in TableType /\ u.entries = Append(t.entries, e) /\ u.index = t.index /\ u.indexed = t.indexed
      /\ u.used = t.used
  BY <1>2 DEF TableType, WithEntry
<1> HIDE DEF u
<1>4. IndexFinds(u)
  <2>1. Len(t.entries) <= Len(u.entries)
    BY <1>1, <1>2, <1>3
  <2>2. \A k \in DOMAIN t.entries : u.entries[k].hash = t.entries[k].hash
    BY <1>1, <1>2, <1>3
  <2> QED
    BY <1>3, <2>1, <2>2, StillFinds
<1>5. ListedIn(u.entries) = ListedIn(t.entries) \cup {e.hash}
  <2>1. /\ DOMAIN u.entries = 1 .. Len(t.entries) + 1 /\ DOMAIN t.entries = 1 .. Len(t.entries)
        /\ \A k \in 1 .. Len(t.entries) + 1 : k \in 1 .. Len(t.entries) \/ k = Len(t.entries) + 1
        /\ Len(t.entries) + 1 \in 1 .. Len(t.entries) + 1 /\ 1 .. Len(t.entries) \subseteq 1 .. Len(t.entries) + 1
    BY <1>1, <1>2, <1>3
  <2>2. \A k \in DOMAIN t.entries : u.entries[k] = t.entries[k]
    BY <1>2, <1>3, <2>1
  <2>3. u.entries[Len(t.entries) + 1] = e
    BY <1>2, <1>3
  <2> QED
    BY <2>1, <2>2, <2>3 DEF ListedIn
<1> QED
  BY <1>3, <1>4, <1>5 DEF u

LEMMA PlacedFinds ==
    ASSUME NEW t \in TableType, IndexFinds(t), NEW n \in DOMAIN t.entries, NEW res \in ResourceType
    PROVE  LET u == WithResource(t, n, res)
           IN  /\ u \in TableType /\ IndexFinds(u) /\ u.used = t.used
               /\ Len(u.entries) = Len(t.entries) /\ DOMAIN u.entries = DOMAIN t.entries
               /\ \A k \in DOMAIN t.entries :
                    u.entries[k].hash = t.entries[k].hash /\ (k # n => u.entries[k] = t.entries[k])
               /\ u.entries[n].res = res
               /\ ListedIn(u.entries) = ListedIn(t.entries)
<1> DEFINE es == [t.entries EXCEPT ![n].res = res]
           u == WithResource(t, n, res)
<1>1. t.entries \in Seq(EntryType) /\ Len(t.entries) \in Nat
  BY TableFields
<1>2. [t.entries[n] EXCEPT !.res = res] \in EntryType /\ [t.entries[n] EXCEPT !.res = res].res = res
      /\ [t.entries[n] EXCEPT !.res = res].hash = t.entries[n].hash
  BY <1>1, EntryFields DEF EntryType
<1>3. /\ es \in Seq(EntryType) /\ Len(es) = Len(t.entries) /\ DOMAIN es = DOMAIN t.entries
      /\ \A k \in DOMAIN t.entries : k # n => es[k] = t.entries[k]
      /\ es[n] = [t.entries[n] EXCEPT !.res = res]
  BY <1>1, <1>2
<1>4. u = [t EXCEPT !.entries = es]
  BY DEF WithResource
<1> HIDE DEF es, u
<1>5. u \in TableType /\ u.entries = es /\ u.index = t.index /\ u.indexed = t.indexed /\ u.used = t.used
  BY <1>3, <1>4 DEF TableType
<1>6. \A k \in DOMAIN t.entries : u.entries[k].hash = t.entries[k].hash
  BY <1>2, <1>3, <1>5
<1>7. IndexFinds(u)
  <2>1. Len(t.entries) <= Len(u.entries)
    BY <1>1, <1>3, <1>5
  <2> QED
    BY <1>5, <1>6, <2>1, StillFinds
<1>8. ListedIn(u.entries) = ListedIn(t.entries)
  BY <1>3, <1>5, <1>6 DEF ListedIn
<1> QED
  BY <1>2, <1>3, <1>5, <1>6, <1>7, <1>8 DEF u

LEMMA UnionFinite ==
    ASSUME SourcesAssumption, NEW trees \in Seq(Image)
    PROVE  LET all == UNION {trees[i] : i \in DOMAIN trees}
           IN  all \in SUBSET Blob /\ IsFiniteSet(all)
<1>1. \A i \in DOMAIN trees : trees[i] \in SUBSET Blob
  BY DEF Image
<1>2. UNION {trees[i] : i \in DOMAIN trees} \in SUBSET Blob
  BY <1>1
<1>3. IsFiniteSet(Blob)
  BY DEF SourcesAssumption
<1> QED
  BY <1>2, <1>3, FS_Subset

LEMMA RebuiltLists ==
    ASSUME SourcesAssumption, NEW trees \in Seq(Image)
    PROVE  /\ Rebuilt(trees) \in TableType /\ IndexFinds(Rebuilt(trees)) /\ ~Rebuilt(trees).used
           /\ ListedIn(Rebuilt(trees).entries) = UNION {trees[i] : i \in DOMAIN trees}
           /\ \A k \in DOMAIN Rebuilt(trees).entries : Rebuilt(trees).entries[k].res = Zero
<1> DEFINE all == UNION {trees[i] : i \in DOMAIN trees}
           order == SetToSeq(all)
           es == [k \in DOMAIN order |-> Descriptor(order[k], Zero)]
<1>1. all \in SUBSET Blob /\ IsFiniteSet(all)
  BY UnionFinite
<1>2. Rebuilt(trees) = Table(es)
  BY DEF Rebuilt
<1> HIDE DEF all
<1>3. /\ order \in Seq(all) /\ Len(order) \in Nat /\ DOMAIN order = 1 .. Len(order)
      /\ \A x \in all : \E k \in DOMAIN order : order[k] = x
  BY <1>1, InSomeOrder
<1> HIDE DEF order
<1>4. \A k \in DOMAIN order : order[k] \in all /\ order[k] \in Hashes
  BY <1>1, <1>3 DEF Hashes
<1>5. \A k \in DOMAIN es : es[k] \in EntryType /\ es[k].hash = order[k] /\ es[k].res = Zero
  BY <1>4, ZeroType, DescriptorType
<1>6. DOMAIN es = DOMAIN order
  OBVIOUS
<1>7. es \in Seq(EntryType)
  <2>1. \A k \in 1 .. Len(order) : Descriptor(order[k], Zero) \in EntryType
    BY <1>3, <1>4, ZeroType, DescriptorType
  <2> QED
    BY <1>3, <2>1
<1> HIDE DEF es
<1>8. ListedIn(es) = all
  BY <1>3, <1>4, <1>5, <1>6 DEF ListedIn
<1>9. Table(es) \in TableType /\ IndexFinds(Table(es)) /\ Table(es).entries = es /\ ~Table(es).used
  BY <1>7, TableFresh
<1> QED
  BY <1>2, <1>5, <1>8, <1>9 DEF all

\* A file as WriteTo leaves it can be read in full, and its table lists what
\* its images refer to.
LEMMA FileOfTrees ==
    ASSUME SourcesAssumption, NEW trees \in Seq(Image)
    PROVE  /\ FileOf(trees) \in FileType
           /\ ImagesKept(FileOf(trees)) /\ True(FileOf(trees))
           /\ \A i \in DOMAIN trees : trees[i] \subseteq ListedIn(FileOf(trees).table)
<1> DEFINE all == UNION {trees[i] : i \in DOMAIN trees}
           blobs == SetToSeq(all)
           n == Len(blobs)
           bytes == blobs \o trees
           res(k) == [at |-> k, len |-> 1, size |-> 1, meta |-> k > n]
           tab == [k \in DOMAIN bytes |-> Descriptor(bytes[k], res(k))]
           f == [bytes |-> bytes, table |-> tab]
<1>1. all \in SUBSET Blob /\ IsFiniteSet(all)
  BY UnionFinite
<1>2. FileOf(trees) = f
  BY DEF FileOf
<1>3. \A i \in DOMAIN trees : trees[i] \subseteq all
  OBVIOUS
<1> HIDE DEF all
<1>4. /\ blobs \in Seq(all) /\ n \in Nat /\ DOMAIN blobs = 1 .. n
      /\ \A x \in all : \E k \in DOMAIN blobs : blobs[k] = x
  BY <1>1, InSomeOrder
<1>5. \A k \in 1 .. n : blobs[k] \in all
  BY <1>4
<1> HIDE DEF blobs
<1>6. blobs \in Seq(Hashes) /\ trees \in Seq(Hashes)
  BY <1>1, <1>4 DEF Hashes, Image
<1>7. /\ bytes \in Seq(Hashes) /\ DOMAIN bytes = 1 .. Len(bytes) /\ Len(bytes) = n + Len(trees)
      /\ Len(bytes) \in Nat /\ Len(trees) \in Nat
      /\ \A k \in 1 .. n : bytes[k] = blobs[k]
      /\ \A i \in 1 .. Len(trees) : bytes[n + i] = trees[i]
  BY <1>4, <1>6
<1> HIDE DEF n, bytes
<1>8. \A k \in DOMAIN bytes :
        /\ bytes[k] \in Hashes /\ res(k) \in ResourceType /\ k \in Nat \ {0}
        /\ res(k).at = k /\ res(k).len = 1 /\ res(k).meta = (k > n)
  BY <1>4, <1>7 DEF ResourceType
<1> HIDE DEF res
<1>9. \A k \in DOMAIN bytes :
        /\ Descriptor(bytes[k], res(k)) \in EntryType
        /\ Descriptor(bytes[k], res(k)).hash = bytes[k] /\ Descriptor(bytes[k], res(k)).res = res(k)
  BY <1>8, DescriptorType
<1>10. tab \in Seq(EntryType) /\ DOMAIN tab = DOMAIN bytes /\ \A k \in DOMAIN bytes : tab[k] = Descriptor(bytes[k], res(k))
  BY <1>7, <1>9
<1> HIDE DEF tab
<1>11. \A k \in DOMAIN bytes : tab[k].hash = bytes[k] /\ tab[k].res = res(k) /\ ReadResource(f, tab[k].res) = tab[k].hash
  BY <1>8, <1>9, <1>10 DEF ReadResource
<1>12. f \in FileType
  <2>1. Hashes \subseteq Content
    BY NotBytes
  <2>2. bytes \in Seq(Content)
    BY <1>7, <2>1
  <2> QED
    BY <1>10, <2>2 DEF FileType
<1>13. f.table = tab
  OBVIOUS
<1> HIDE DEF f
<1>14. all \subseteq ListedIn(tab)
  <2>1. \A x \in all : \E k \in DOMAIN tab : tab[k].hash = x
    <3> TAKE x \in all
    <3>1. PICK k \in 1 .. n : blobs[k] = x
      BY <1>4
    <3>2. k \in DOMAIN tab
      BY <1>4, <1>7, <1>10
    <3> QED
      BY <1>7, <1>10, <1>11, <3>1, <3>2
  <2> QED
    BY <2>1 DEF ListedIn
<1>15. True(f)
  BY <1>10, <1>11, <1>13 DEF True, Range
<1>16. ImagesKept(f)
  <2> SUFFICES ASSUME NEW k \in DOMAIN tab, tab[k].res.meta
               PROVE  /\ tab[k].hash \in Image /\ tab[k].hash \subseteq ListedIn(tab)
                      /\ ReadResource(f, tab[k].res) = tab[k].hash
    BY <1>13 DEF ImagesKept
  <2>1. k \in 1 .. Len(bytes) /\ k > n /\ n \in Nat
    <3>1. k \in DOMAIN bytes
      BY <1>10
    <3>2. res(k).meta /\ res(k).meta = (k > n)
      BY <1>8, <1>11, <3>1, Zenon
    <3>3. k > n
      BY <3>2, Zenon
    <3> QED
      BY <1>4, <1>7, <3>1, <3>3
  <2>2. k - n \in 1 .. Len(trees) /\ n + (k - n) = k
    BY <1>7, <2>1
  <2>3. tab[k].hash = trees[k - n]
    BY <1>7, <1>10, <1>11, <2>2
  <2> QED
    BY <1>3, <1>10, <1>11, <1>14, <2>2, <2>3
<1> QED
  BY <1>2, <1>3, <1>12, <1>13, <1>14, <1>15, <1>16

-----------------------------------------------------------------------------
(* What most steps leave alone.                                              *)

LEMMA JobFields ==
    ASSUME job \in JobType
    PROVE  /\ job.slot \in 1 .. 3 /\ job.images \in Seq(Image) /\ job.new \in SUBSET Blob
           /\ job.mapFirst \in BOOLEAN /\ job.next \in Nat \ {0} /\ job.last \in Nat
           /\ job.covered \in BOOLEAN /\ job.followed \in BOOLEAN /\ job.table \in Seq(EntryType)
           /\ job.stage \in {"idle", "blobs", "images", "written", "refused", "failed"}
BY DEF JobType

LEMMA OneTableChanged ==
    ASSUME SourcesTypeOK, IndexesFind, NEW s \in 1 .. 3, NEW t \in TableType, IndexFinds(t),
           tables' = [tables EXCEPT ![s] = t]
    PROVE  /\ tables' \in [1 .. 3 -> TableType] /\ IndexesFind'
           /\ tables'[s] = t /\ \A r \in 1 .. 3 : r # s => tables'[r] = tables[r]
<1>1. tables \in [1 .. 3 -> TableType]
  BY DEF SourcesTypeOK
<1>2. /\ tables' \in [1 .. 3 -> TableType] /\ tables'[s] = t
      /\ \A r \in 1 .. 3 : r # s => tables'[r] = tables[r]
  BY <1>1
<1>3. \A r \in 1 .. 3 : IndexFinds(tables'[r])
  BY <1>2 DEF IndexesFind
<1> QED
  BY <1>2, <1>3 DEF IndexesFind

\* The caller's state stands while WriteTo works on a table it has been given.
LEMMA CallerKept ==
    ASSUME SourcesInv, UNCHANGED callerVars,
           \A s \in {1, 2} :
             /\ ListedIn(tables[s].entries) \subseteq ListedIn(tables'[s].entries)
             /\ ListedIn(tables'[s].entries) \cap Blob \subseteq ListedIn(tables[s].entries)
             /\ ~tables'[s].used => ~tables[s].used /\ tables'[s].entries = tables[s].entries
    PROVE  ImagesKept(file)' /\ Sourced' /\ SourceUntouched'
<1>1. file' = file /\ cur' = cur /\ images' = images /\ given' = given /\ cur \in {1, 2}
  BY DEF callerVars, SourcesInv, SourcesTypeOK
<1>2. ImagesKept(file)'
  BY <1>1 DEF SourcesInv
<1>3. SourceUntouched'
  <2> SUFFICES ASSUME ~tables'[1].used, NEW k \in DOMAIN tables'[1].entries
               PROVE  Original(tables'[1].entries[k], file', given')
    BY DEF SourceUntouched
  <2>1. Original(tables[1].entries[k], file, given) /\ tables'[1].entries = tables[1].entries
    BY DEF SourcesInv, SourceUntouched
  <2> QED
    BY <1>1, <2>1
<1>4. Sourced'
  <2>1. \A i \in DOMAIN images' : images'[i] \subseteq ListedIn(tables'[cur'].entries)
    BY <1>1 DEF SourcesInv, Sourced
  <2>2. ListedIn(file'.table) \subseteq ListedIn(tables'[1].entries)
    BY <1>1 DEF SourcesInv, Sourced
  <2>3. ListedIn(tables'[cur'].entries) \cap Blob \subseteq ListedIn(tables'[1].entries) \cup given'
    BY <1>1 DEF SourcesInv, Sourced
  <2>4. ~tables'[cur'].used => ListedIn(tables'[cur'].entries) \subseteq ListedIn(tables'[1].entries) \cup given'
    BY <1>1 DEF SourcesInv, Sourced
  <2> QED
    BY <2>1, <2>2, <2>3, <2>4 DEF Sourced
<1> QED
  BY <1>2, <1>3, <1>4

\* Between calls of WriteTo.
LEMMA ReadyKept ==
    ASSUME SourcesInv, Ready, UNCHANGED <<job, out>>
    PROVE  WriteProgress' /\ WriteFollowed' /\ WritesTellTheTruth'
<1>1. job' = job /\ out' = out /\ job.stage \notin {"blobs", "images"}
  BY DEF Ready
<1>2. NewFile' = NewFile
  BY <1>1 DEF NewFile
<1>3. WriteProgress'
  <2>1. job'.stage = "written" => ImagesKept(NewFile)'
    BY <1>1, <1>2 DEF SourcesInv, WriteProgress
  <2> QED
    BY <1>1, <2>1 DEF WriteProgress, Working
<1>4. WriteFollowed'
  BY <1>1 DEF WriteFollowed
<1>5. WritesTellTheTruth'
  BY <1>1, <1>2 DEF SourcesInv, WritesTellTheTruth
<1> QED
  BY <1>3, <1>4, <1>5

LEMMA JobIdle ==
    ASSUME job' = NoJob
    PROVE  job' \in JobType /\ WriteProgress' /\ WriteFollowed' /\ WritesTellTheTruth'
<1>1. job' \in JobType /\ job'.stage = "idle"
  BY DEF NoJob, JobType
<1> QED
  BY <1>1 DEF WriteProgress, Working, WriteFollowed, WritesTellTheTruth

LEMMA JobStarts ==
    ASSUME NEW s \in 1 .. 3, NEW t \in TableType, NEW trees \in Seq(Image), NEW new \in SUBSET Blob,
           NEW mapFirst \in BOOLEAN, Start(s, t, trees, new, mapFirst)
    PROVE  /\ job' \in JobType /\ fetched' = <<>> /\ out' = <<>>
           /\ job'.stage = "blobs" /\ job'.slot = s /\ job'.images = trees /\ job'.new = new
           /\ job'.mapFirst = mapFirst /\ job'.next = 1 /\ job'.last = Len(t.entries)
           /\ job'.covered = ~t.used /\ job'.followed = Followed(s)
<1>1. t.used \in BOOLEAN /\ Len(t.entries) \in Nat /\ Followed(s) \in BOOLEAN
  BY TableFields DEF Followed
<1>2. \A n \in Nat : \A covered, followed \in BOOLEAN :
        [stage |-> "blobs", slot |-> s, images |-> trees, new |-> new, mapFirst |-> mapFirst,
         next |-> 1, last |-> n, covered |-> covered, followed |-> followed, table |-> <<>>] \in JobType
  BY DEF JobType
<1>3. (~t.used) \in BOOLEAN
  OBVIOUS
<1>4. job' \in JobType
  BY <1>1, <1>2, <1>3, Zenon DEF Start
<1>5. /\ fetched' = <<>> /\ out' = <<>>
      /\ job'.stage = "blobs" /\ job'.slot = s /\ job'.images = trees /\ job'.new = new
      /\ job'.mapFirst = mapFirst /\ job'.next = 1 /\ job'.last = Len(t.entries)
  BY DEF Start
<1>6. job'.covered = ~t.used /\ job'.followed = Followed(s)
  BY Zenon DEF Start
<1> QED
  BY <1>4, <1>5, <1>6
-----------------------------------------------------------------------------
(* The caller's own steps.                                                   *)

LEMMA InstallKeeps ==
    ASSUME SourcesAssumption, SourcesInv, NEW h \in Blob, NEW i \in DOMAIN images, InstallBlob(i, h)
    PROVE  SourcesInv'
<1> DEFINE listed == h \in {tables[cur].entries[k].hash : k \in DOMAIN tables[cur].entries}
           d == Descriptor(h, Unplaced(h))
           t == WithEntry(tables[cur], d)
<1>1. /\ Ready /\ UNCHANGED <<job, out>> /\ file' = file /\ cur' = cur /\ fetched' = fetched
      /\ images' = [images EXCEPT ![i] = @ \cup {h}]
      /\ SourcesTypeOK /\ cur \in 1 .. 3 /\ cur \in {1, 2} /\ IndexesFind
  BY DEF InstallBlob, SourcesInv, SourcesTypeOK
<1>2. tables[cur] \in TableType /\ IndexFinds(tables[cur])
  BY <1>1 DEF SourcesTypeOK, IndexesFind
<1>3. d \in EntryType /\ d.hash = h /\ d.res = Unplaced(h)
  BY UnplacedRefused, DescriptorType DEF Hashes
<1>4. images' \in Seq(Image) /\ DOMAIN images' = DOMAIN images /\ images'[i] = images[i] \cup {h}
      /\ \A j \in DOMAIN images : j # i => images'[j] = images[j]
  BY <1>1 DEF SourcesTypeOK, Image
<1>5. WriteProgress' /\ WriteFollowed' /\ WritesTellTheTruth' /\ ImagesKept(file)'
  BY <1>1, ReadyKept DEF SourcesInv
<1>6. CASE listed
  <2>1. tables' = tables /\ given' = given
    BY <1>6 DEF InstallBlob
  <2>2. SourcesTypeOK' /\ IndexesFind'
    BY <1>1, <1>4, <2>1 DEF SourcesTypeOK, IndexesFind
  <2>3. Sourced'
    <3>1. h \in ListedIn(tables[cur].entries)
      BY <1>6 DEF ListedIn
    <3>2. \A j \in DOMAIN images' : images'[j] \subseteq ListedIn(tables[cur].entries)
      BY <1>4, <3>1 DEF SourcesInv, Sourced
    <3> QED
      BY <1>1, <2>1, <3>2 DEF SourcesInv, Sourced
  <2>4. SourceUntouched'
    BY <1>1, <2>1 DEF SourcesInv, SourceUntouched
  <2> QED
    BY <1>5, <2>2, <2>3, <2>4 DEF SourcesInv
<1>7. CASE ~listed
  <2>1. tables' = [tables EXCEPT ![cur].entries = Append(@, d)] /\ given' = given \cup {h}
    BY <1>7 DEF InstallBlob
  <2>2. tables' = [tables EXCEPT ![cur] = t]
    BY <2>1 DEF WithEntry
  <2>3. /\ t \in TableType /\ IndexFinds(t) /\ t.entries = Append(tables[cur].entries, d)
        /\ t.used = tables[cur].used /\ ListedIn(t.entries) = ListedIn(tables[cur].entries) \cup {h}
    <3>1. tables[cur] \in TableType /\ IndexFinds(tables[cur]) /\ d \in EntryType /\ d.hash = h
      BY <1>2, <1>3
    <3> HIDE DEF d
    <3> QED
      BY <3>1, AppendedFinds
  <2> HIDE DEF t, d
  <2>4. /\ tables' \in [1 .. 3 -> TableType] /\ IndexesFind' /\ tables'[cur] = t
        /\ \A r \in 1 .. 3 : r # cur => tables'[r] = tables[r]
    BY <1>1, <2>2, <2>3, OneTableChanged
  <2>5. SourcesTypeOK'
    BY <1>1, <1>4, <2>1, <2>4 DEF SourcesTypeOK
  <2>6. Sourced'
    <3>1. \A j \in DOMAIN images' : images'[j] \subseteq ListedIn(tables'[cur'].entries)
      BY <1>1, <1>4, <2>3, <2>4 DEF SourcesInv, Sourced
    <3>2. ListedIn(tables[1].entries) \subseteq ListedIn(tables'[1].entries)
      <4>1. CASE cur = 1
        BY <2>3, <2>4, <4>1
      <4>2. CASE cur # 1
        BY <2>4, <4>2
      <4> QED
        BY <4>1, <4>2
    <3>3. ListedIn(file'.table) \subseteq ListedIn(tables'[1].entries)
      BY <1>1, <3>2 DEF SourcesInv, Sourced
    <3>4. ListedIn(tables'[cur'].entries) \cap Blob \subseteq ListedIn(tables'[1].entries) \cup given'
      BY <1>1, <2>1, <2>3, <2>4, <3>2 DEF SourcesInv, Sourced
    <3>5. ~tables'[cur'].used => ListedIn(tables'[cur'].entries) \subseteq ListedIn(tables'[1].entries) \cup given'
      BY <1>1, <2>1, <2>3, <2>4, <3>2 DEF SourcesInv, Sourced
    <3> QED
      BY <3>1, <3>3, <3>4, <3>5 DEF Sourced
  <2>7. SourceUntouched'
    <3> SUFFICES ASSUME ~tables'[1].used, NEW k \in DOMAIN tables'[1].entries
                 PROVE  Original(tables'[1].entries[k], file', given')
      BY DEF SourceUntouched
    <3>1. \A e : Original(e, file, given) => Original(e, file', given')
      BY <1>1, <2>1 DEF Original
    <3>2. CASE cur # 1
      <4>1. tables'[1] = tables[1]
        BY <2>4, <3>2
      <4>2. Original(tables[1].entries[k], file, given)
        BY <4>1 DEF SourcesInv, SourceUntouched
      <4> QED
        BY <3>1, <4>1, <4>2
    <3>3. CASE cur = 1
      <4>1. tables'[1].entries = Append(tables[1].entries, d) /\ ~tables[1].used /\ tables[1].entries \in Seq(EntryType)
        BY <1>2, <2>3, <2>4, <3>3, TableFields
      <4>2. CASE k \in DOMAIN tables[1].entries
        <5>1. tables'[1].entries[k] = tables[1].entries[k]
          BY <1>3, <4>1, <4>2
        <5>2. Original(tables[1].entries[k], file, given)
          BY <4>1, <4>2 DEF SourcesInv, SourceUntouched
        <5> QED
          BY <3>1, <5>1, <5>2
      <4>3. CASE k \notin DOMAIN tables[1].entries
        <5>1. tables'[1].entries[k] = d
          BY <1>3, <4>1, <4>3
        <5>2. h \notin ListedIn(file.table)
          BY <1>7, <3>3 DEF SourcesInv, Sourced, ListedIn
        <5> QED
          BY <1>1, <1>3, <2>1, <5>1, <5>2 DEF Original
      <4> QED
        BY <4>2, <4>3
    <3> QED
      BY <3>2, <3>3
  <2> QED
    BY <1>5, <2>4, <2>5, <2>6, <2>7 DEF SourcesInv
<1> QED
  BY <1>6, <1>7

LEMMA RemoveKeeps ==
    ASSUME SourcesInv, NEW h \in Blob, NEW i \in DOMAIN images, RemoveBlob(i, h)
    PROVE  SourcesInv'
<1>1. /\ Ready /\ UNCHANGED <<job, out>> /\ file' = file /\ cur' = cur /\ fetched' = fetched
      /\ tables' = tables /\ given' = given
      /\ images' = [images EXCEPT ![i] = @ \ {h}]
  BY DEF RemoveBlob
<1>2. images' \in Seq(Image) /\ DOMAIN images' = DOMAIN images
      /\ \A j \in DOMAIN images : images'[j] \subseteq images[j]
  BY <1>1 DEF SourcesInv, SourcesTypeOK, Image
<1>3. SourcesTypeOK' /\ IndexesFind' /\ ImagesKept(file)'
  BY <1>1, <1>2 DEF SourcesInv, SourcesTypeOK, IndexesFind
<1>4. Sourced'
  <2>1. \A j \in DOMAIN images' : images'[j] \subseteq ListedIn(tables[cur].entries)
    BY <1>2 DEF SourcesInv, Sourced
  <2> QED
    BY <1>1, <2>1 DEF SourcesInv, Sourced
<1>5. SourceUntouched'
  BY <1>1 DEF SourcesInv, SourceUntouched
<1> QED
  BY <1>1, <1>3, <1>4, <1>5, ReadyKept DEF SourcesInv

LEMMA LookUpKeeps ==
    ASSUME SourcesInv, LookUp
    PROVE  SourcesInv'
<1> DEFINE t == Indexed(tables[cur])
<1>1. /\ Ready /\ UNCHANGED <<job, out>> /\ UNCHANGED callerVars /\ fetched' = fetched
      /\ SourcesTypeOK /\ IndexesFind /\ cur \in 1 .. 3 /\ tables[cur] \in TableType /\ IndexFinds(tables[cur])
      /\ tables' = [tables EXCEPT ![cur] = t]
  BY DEF LookUp, SourcesInv, SourcesTypeOK, IndexesFind
<1>2. t \in TableType /\ IndexFinds(t) /\ t.entries = tables[cur].entries /\ t.used = tables[cur].used
  BY <1>1, IndexedFinds
<1> HIDE DEF t
<1>3. /\ tables' \in [1 .. 3 -> TableType] /\ IndexesFind' /\ tables'[cur] = t
      /\ \A r \in 1 .. 3 : r # cur => tables'[r] = tables[r]
  BY <1>1, <1>2, OneTableChanged
<1>4. SourcesTypeOK'
  BY <1>1, <1>3 DEF SourcesTypeOK, callerVars
<1>5. \A s \in {1, 2} : tables'[s].entries = tables[s].entries /\ tables'[s].used = tables[s].used
  BY <1>2, <1>3
<1>6. ImagesKept(file)' /\ Sourced' /\ SourceUntouched'
  BY <1>1, <1>5, CallerKept
<1> QED
  BY <1>1, <1>3, <1>4, <1>6, ReadyKept DEF SourcesInv

LEMMA RebuildKeeps ==
    ASSUME SourcesAssumption, SourcesInv, RebuildTable
    PROVE  SourcesInv'
<1> DEFINE old == Indexed(tables[cur])
           t == Rebuilt(images)
<1>1. /\ Ready /\ UNCHANGED <<job, out>> /\ fetched' = fetched
      /\ file' = file /\ images' = images /\ given' = given /\ cur' = 2
      /\ SourcesTypeOK /\ IndexesFind /\ cur \in {1, 2} /\ tables[cur] \in TableType /\ IndexFinds(tables[cur])
      /\ tables \in [1 .. 3 -> TableType] /\ images \in Seq(Image)
      /\ tables' = [tables EXCEPT ![cur] = old, ![2] = t]
  BY DEF RebuildTable, SourcesInv, SourcesTypeOK, IndexesFind
<1>2. old \in TableType /\ IndexFinds(old) /\ old.entries = tables[cur].entries /\ old.used = tables[cur].used
  BY <1>1, IndexedFinds
<1>3. /\ t \in TableType /\ IndexFinds(t) /\ ~t.used
      /\ ListedIn(t.entries) = UNION {images[i] : i \in DOMAIN images}
  BY <1>1, RebuiltLists
<1> HIDE DEF old, t
<1>4. tables' \in [1 .. 3 -> TableType] /\ tables'[2] = t /\ tables'[3] = tables[3]
      /\ tables'[1] = IF cur = 1 THEN old ELSE tables[1]
  BY <1>1, <1>2, <1>3
<1>5. IndexesFind'
  <2>1. \A s \in 1 .. 3 : s = 1 \/ s = 2 \/ s = 3
    OBVIOUS
  <2>2. IndexFinds(tables'[1]) /\ IndexFinds(tables'[2]) /\ IndexFinds(tables'[3])
    BY <1>1, <1>2, <1>3, <1>4 DEF IndexesFind
  <2> QED
    BY <2>1, <2>2 DEF IndexesFind
<1>6. SourcesTypeOK'
  BY <1>1, <1>4 DEF SourcesTypeOK
<1>7. tables'[1].entries = tables[1].entries /\ tables'[1].used = tables[1].used
  BY <1>2, <1>4
<1>8. SourceUntouched'
  BY <1>1, <1>7 DEF SourcesInv, SourceUntouched
<1>9. Sourced'
  <2>1. \A i \in DOMAIN images : images[i] \subseteq ListedIn(tables[cur].entries) /\ images[i] \subseteq Blob
    BY <1>1 DEF SourcesInv, Sourced, Image
  <2>2. ListedIn(t.entries) \subseteq ListedIn(tables[cur].entries) \cap Blob
    BY <1>3, <2>1
  <2>3. ListedIn(t.entries) \subseteq ListedIn(tables[1].entries) \cup given
    BY <2>2 DEF SourcesInv, Sourced
  <2>4. \A i \in DOMAIN images' : images'[i] \subseteq ListedIn(tables'[cur'].entries)
    BY <1>1, <1>3, <1>4
  <2>5. ListedIn(file'.table) \subseteq ListedIn(tables'[1].entries)
    BY <1>1, <1>7 DEF SourcesInv, Sourced
  <2>6. ListedIn(tables'[cur'].entries) \subseteq ListedIn(tables'[1].entries) \cup given'
    BY <1>1, <1>4, <1>7, <2>3
  <2> QED
    BY <2>4, <2>5, <2>6 DEF Sourced
<1>10. ImagesKept(file)'
  BY <1>1 DEF SourcesInv
<1> QED
  BY <1>1, <1>5, <1>6, <1>8, <1>9, <1>10, ReadyKept DEF SourcesInv

\* Before WriteTo is given the source's table, a sound file is read through it.
LEMMA SourceReads ==
    ASSUME SourcesInv, ~tables[1].used, NEW k \in DOMAIN tables[1].entries
    PROVE  LET e == tables[1].entries[k]
           IN  \/ True(file) => ReadResource(file, e.res) = e.hash
               \/ /\ ReadResource(file, e.res) = Refused
                  /\ e.hash \in given /\ e.hash \notin ListedIn(file.table)
<1>1. Original(tables[1].entries[k], file, given)
  BY DEF SourcesInv, SourceUntouched
<1>2. \A j \in DOMAIN file.table : file.table[j] \in Range(file.table)
  BY DEF Range
<1> QED
  BY <1>1, <1>2, UnplacedRefused DEF Original, True

\* The images a file's metadata resources give, read through the source's table.
LEMMA SourceImages ==
    ASSUME SourcesAssumption, SourcesInv, ~tables[1].used,
           NEW k \in Metadata(tables[1].entries)
    PROVE  LET e == tables[1].entries[k]
           IN  ReadResource(file, e.res) \subseteq ListedIn(file.table)
<1>1. k \in DOMAIN tables[1].entries /\ tables[1].entries[k].res.meta
  BY DEF Metadata
<1>2. tables[1].entries[k].res # Unplaced(tables[1].entries[k].hash)
  BY <1>1, UnplacedRefused
<1>3. PICK j \in DOMAIN file.table : tables[1].entries[k] = file.table[j]
  BY <1>1, <1>2 DEF SourcesInv, SourceUntouched, Original
<1>4. /\ file.table[j].hash \subseteq ListedIn(file.table)
      /\ ReadResource(file, file.table[j].res) = file.table[j].hash
  BY <1>1, <1>3 DEF SourcesInv, ImagesKept
<1> QED
  BY <1>3, <1>4

LEMMA WriteKeeps ==
    ASSUME SourcesInv, NEW mapFirst \in BOOLEAN, Write(mapFirst)
    PROVE  SourcesInv'
<1> DEFINE t == InUse(tables[cur])
<1>1. /\ UNCHANGED callerVars /\ Start(cur, tables[cur], images, given, mapFirst)
      /\ SourcesTypeOK /\ IndexesFind /\ cur \in 1 .. 3 /\ tables[cur] \in TableType /\ IndexFinds(tables[cur])
      /\ images \in Seq(Image) /\ given \in SUBSET Blob
      /\ tables' = [tables EXCEPT ![cur].used = TRUE]
  BY DEF Write, SourcesInv, SourcesTypeOK, IndexesFind
<1>2. tables' = [tables EXCEPT ![cur] = t]
  BY <1>1 DEF InUse
<1>3. t \in TableType /\ IndexFinds(t) /\ t.entries = tables[cur].entries /\ t.used
  BY <1>1, UsedFinds
<1> HIDE DEF t
<1>4. /\ tables' \in [1 .. 3 -> TableType] /\ IndexesFind' /\ tables'[cur] = t
      /\ \A r \in 1 .. 3 : r # cur => tables'[r] = tables[r]
  BY <1>1, <1>2, <1>3, OneTableChanged
<1>5. /\ job' \in JobType /\ fetched' = <<>> /\ out' = <<>>
      /\ job'.stage = "blobs" /\ job'.slot = cur /\ job'.images = images /\ job'.new = given
      /\ job'.mapFirst = mapFirst /\ job'.next = 1 /\ job'.last = Len(tables[cur].entries)
      /\ job'.covered = ~tables[cur].used /\ job'.followed = Followed(cur)
  BY <1>1, JobStarts
<1>6. SourcesTypeOK'
  BY <1>1, <1>4, <1>5 DEF SourcesTypeOK, callerVars
<1>7. \A s \in 1 .. 3 : /\ tables'[s].entries = tables[s].entries
                        /\ ~tables'[s].used => ~tables[s].used
  BY <1>3, <1>4
<1>8. ImagesKept(file)' /\ Sourced' /\ SourceUntouched'
  BY <1>1, <1>7, CallerKept
<1>9. Slot' = tables[cur].entries /\ Slot' = tables'[cur].entries
  BY <1>1, <1>5, <1>7 DEF Slot
<1>10. WriteProgress'
  <2>1. \A i \in DOMAIN job'.images : job'.images[i] \subseteq ListedIn(Slot')
    BY <1>5, <1>9 DEF SourcesInv, Sourced
  <2>2. job'.slot \in {cur', 3} /\ tables'[job'.slot].used
    BY <1>1, <1>3, <1>4, <1>5 DEF callerVars
  <2>3. Len(fetched') = 0 /\ Len(tables[cur].entries) \in Nat
    BY <1>1, <1>5, TableFields
  <2> QED
    BY <1>5, <1>9, <2>1, <2>2, <2>3 DEF WriteProgress, Working
<1>11. WriteFollowed'
  <2> SUFFICES ASSUME job'.followed
               PROVE  /\ job'.slot = 1 => Distinct(tables'[1].entries)
                      /\ SourceTells'
                      /\ job'.covered => ListedIn(Slot') \subseteq ListedIn(tables'[1].entries) \cup job'.new
                      /\ \A k \in job'.next .. Len(fetched') :
                           fetched'[k] = Slot'[k].hash \/ (fetched'[k] = Refused /\ ~job'.covered)
                      /\ \A k \in 1 .. job'.next - 1 : ReadResource([bytes |-> out'], Slot'[k].res) = Slot'[k].hash
    BY <1>5 DEF WriteFollowed
  <2>1. True(file) /\ ~tables[1].used /\ (cur = 1 => Distinct(tables[1].entries))
    BY <1>5 DEF Followed
  <2>2. SourceTells'
    <3>1. \A k \in DOMAIN tables[1].entries :
            \/ ReadResource(file, tables[1].entries[k].res) = tables[1].entries[k].hash
            \/ ReadResource(file, tables[1].entries[k].res) = Refused /\ tables[1].entries[k].hash \in given
      BY <2>1, SourceReads
    <3> QED
      BY <1>1, <1>5, <1>7, <3>1 DEF SourceTells, callerVars
  <2>3. job'.covered => ListedIn(Slot') \subseteq ListedIn(tables'[1].entries) \cup job'.new
    <3>1. job'.covered => ~tables[cur].used
      BY <1>5, Zenon
    <3>2. tables'[1].entries = tables[1].entries
      BY <1>7
    <3>3. ~tables[cur].used => ListedIn(tables[cur].entries) \subseteq ListedIn(tables[1].entries) \cup given
      BY DEF SourcesInv, Sourced
    <3> QED
      BY <1>5, <1>9, <3>1, <3>2, <3>3
  <2>4. Len(fetched') = 0
    BY <1>5
  <2> QED
    BY <1>5, <1>7, <2>1, <2>2, <2>3, <2>4
<1>12. WritesTellTheTruth'
  BY <1>5 DEF WritesTellTheTruth
<1> QED
  BY <1>4, <1>6, <1>8, <1>10, <1>11, <1>12 DEF SourcesInv

LEMMA ExportKeeps ==
    ASSUME SourcesAssumption, SourcesInv, NEW which \in Seq(Nat), Export(which)
    PROVE  SourcesInv'
<1> DEFINE metas == MetadataResources(tables[1].entries)
           trees == [i \in DOMAIN which |-> ReadResource(file, metas[which[i]].res)]
           old == Indexed(tables[1])
           fresh == Rebuilt(trees)
           t == InUse(fresh)
<1>0. /\ SourcesTypeOK /\ IndexesFind /\ tables[1] \in TableType /\ IndexFinds(tables[1])
      /\ tables \in [1 .. 3 -> TableType] /\ tables[1].entries \in Seq(EntryType)
      /\ file.bytes \in Seq(Content)
  <2>1. SourcesTypeOK /\ IndexesFind
    BY DEF SourcesInv
  <2>2. tables \in [1 .. 3 -> TableType] /\ file \in FileType
    BY <2>1 DEF SourcesTypeOK
  <2>3. tables[1] \in TableType /\ IndexFinds(tables[1]) /\ file.bytes \in Seq(Content)
    BY <2>1, <2>2 DEF IndexesFind, FileType
  <2> QED
    BY <2>1, <2>2, <2>3, TableFields
<1>1. /\ UNCHANGED callerVars /\ Start(3, fresh, trees, {}, TRUE)
      /\ \A i \in DOMAIN which : which[i] \in DOMAIN metas
      /\ \A i \in DOMAIN which : IsImage(trees[i]) /\ trees[i] \subseteq DOMAIN old.index
  BY DEF Export
<1>2. tables' = [tables EXCEPT ![1] = old, ![3] = t]
  BY DEF Export, InUse
<1>3. \A i \in DOMAIN which : \E k \in Metadata(tables[1].entries) : metas[which[i]] = tables[1].entries[k]
  BY <1>0, <1>1, MetadataPicked
<1> HIDE DEF metas
<1>4. \A i \in DOMAIN which : trees[i] \in Image
  <2> TAKE i \in DOMAIN which
  <2>1. PICK k \in Metadata(tables[1].entries) : metas[which[i]] = tables[1].entries[k]
    BY <1>3
  <2>2. metas[which[i]].res \in ResourceType
    BY <1>0, <1>1, <2>1, EntryFields DEF Metadata
  <2>3. trees[i] \in Answers /\ IsImage(trees[i])
    BY <1>0, <1>1, <2>2, ReadType
  <2> QED
    BY <2>3, NotBytes
<1>5. trees \in Seq(Image)
  <2>1. DOMAIN trees = 1 .. Len(which) /\ Len(which) \in Nat
    OBVIOUS
  <2> QED
    BY <1>4, <2>1
<1>6. /\ fresh \in TableType /\ IndexFinds(fresh) /\ ~fresh.used
      /\ ListedIn(fresh.entries) = UNION {trees[i] : i \in DOMAIN trees}
  BY <1>5, RebuiltLists
<1>7. t \in TableType /\ IndexFinds(t) /\ t.entries = fresh.entries /\ t.used
  BY <1>6, UsedFinds
<1>8. /\ old \in TableType /\ IndexFinds(old) /\ old.entries = tables[1].entries /\ old.used = tables[1].used
      /\ DOMAIN old.index = ListedIn(tables[1].entries)
  BY <1>0, <1>1, IndexedFinds
<1>9. trees = [i \in DOMAIN which |-> ReadResource(file, metas[which[i]].res)]
  OBVIOUS
<1> HIDE DEF t, old, fresh, trees
<1>10. tables' \in [1 .. 3 -> TableType] /\ tables'[1] = old /\ tables'[2] = tables[2] /\ tables'[3] = t
  BY <1>0, <1>1, <1>2, <1>7, <1>8
<1>11. IndexesFind'
  <2>1. \A s \in 1 .. 3 : s = 1 \/ s = 2 \/ s = 3
    OBVIOUS
  <2>2. IndexFinds(tables'[1]) /\ IndexFinds(tables'[2]) /\ IndexFinds(tables'[3])
    BY <1>0, <1>1, <1>7, <1>8, <1>10 DEF IndexesFind
  <2> QED
    BY <2>1, <2>2 DEF IndexesFind
<1>12. /\ job' \in JobType /\ fetched' = <<>> /\ out' = <<>>
       /\ job'.stage = "blobs" /\ job'.slot = 3 /\ job'.images = trees /\ job'.new = {}
       /\ job'.mapFirst = TRUE /\ job'.next = 1 /\ job'.last = Len(fresh.entries)
       /\ job'.covered = ~fresh.used /\ job'.followed = Followed(3)
  <2>1. 3 \in 1 .. 3 /\ {} \in SUBSET Blob /\ TRUE \in BOOLEAN
    OBVIOUS
  <2> QED
    BY <1>1, <1>5, <1>6, <2>1, JobStarts, Zenon
<1>13. SourcesTypeOK'
  BY <1>0, <1>1, <1>10, <1>12 DEF SourcesTypeOK, callerVars
<1>14. \A s \in {1, 2} : tables'[s].entries = tables[s].entries /\ tables'[s].used = tables[s].used
  BY <1>8, <1>10
<1>15. ImagesKept(file)' /\ Sourced' /\ SourceUntouched'
  BY <1>0, <1>1, <1>14, CallerKept
<1>16. Slot' = fresh.entries
  BY <1>7, <1>10, <1>12 DEF Slot
<1>17. WriteProgress'
  <2>1. \A i \in DOMAIN job'.images : job'.images[i] \subseteq ListedIn(Slot')
    BY <1>6, <1>12, <1>16
  <2>2. job'.slot \in {cur', 3} /\ tables'[job'.slot].used
    BY <1>7, <1>10, <1>12
  <2>3. Len(fetched') = 0 /\ Len(fresh.entries) \in Nat
    BY <1>6, <1>12, TableFields
  <2> QED
    BY <1>12, <1>16, <2>1, <2>2, <2>3 DEF WriteProgress, Working
<1>18. WriteFollowed'
  <2> SUFFICES ASSUME job'.followed
               PROVE  /\ SourceTells'
                      /\ ListedIn(Slot') \subseteq ListedIn(tables'[1].entries)
                      /\ \A k \in job'.next .. Len(fetched') :
                           fetched'[k] = Slot'[k].hash \/ (fetched'[k] = Refused /\ ~job'.covered)
                      /\ \A k \in 1 .. job'.next - 1 : ReadResource([bytes |-> out'], Slot'[k].res) = Slot'[k].hash
    <3>1. job'.slot # 1 /\ job'.stage # "images"
          /\ ListedIn(tables'[1].entries) \subseteq ListedIn(tables'[1].entries) \cup job'.new
      BY <1>12
    <3> QED
      BY <3>1 DEF WriteFollowed
  <2>1. True(file) /\ ~tables[1].used
    BY <1>12 DEF Followed
  <2>2. \A i \in DOMAIN trees : trees[i] \subseteq ListedIn(file.table)
    <3> TAKE i \in DOMAIN trees
    <3>0. i \in DOMAIN which
      BY <1>9
    <3>1. PICK k \in Metadata(tables[1].entries) : metas[which[i]] = tables[1].entries[k]
      BY <1>3, <3>0
    <3>2. trees[i] = ReadResource(file, tables[1].entries[k].res)
      BY <1>9, <3>0, <3>1
    <3> QED
      BY <2>1, <3>2, SourceImages
  <2>3. SourceTells'
    <3>1. \A k \in DOMAIN tables[1].entries :
            tables[1].entries[k].hash \in ListedIn(fresh.entries) =>
              ReadResource(file, tables[1].entries[k].res) = tables[1].entries[k].hash
      BY <1>6, <2>1, <2>2, SourceReads
    <3> QED
      BY <1>0, <1>1, <1>14, <1>16, <3>1 DEF SourceTells, callerVars
  <2>4. ListedIn(Slot') \subseteq ListedIn(tables'[1].entries)
    <3>1. \A i \in DOMAIN trees : trees[i] \subseteq ListedIn(tables[1].entries)
      BY <1>0, <1>1, <1>8, <1>9
    <3> QED
      BY <1>6, <1>14, <1>16, <3>1
  <2>5. Len(fetched') = 0
    BY <1>12
  <2> QED
    BY <1>12, <2>3, <2>4, <2>5
<1>19. WritesTellTheTruth'
  BY <1>12 DEF WritesTellTheTruth
<1> QED
  BY <1>11, <1>13, <1>15, <1>17, <1>18, <1>19 DEF SourcesInv

-----------------------------------------------------------------------------
(* WriteTo at work.                                                          *)

\* While it is, its table has been given to it, and an answer is known for each
\* entry up to the one that is asked for next.
LEMMA AtWork ==
    ASSUME SourcesInv, Working
    PROVE  /\ SourcesTypeOK /\ IndexesFind
           /\ job.slot \in 1 .. 3 /\ (job.slot = 3 \/ job.slot = cur) /\ cur \in {1, 2}
           /\ tables \in [1 .. 3 -> TableType] /\ tables[1] \in TableType /\ IndexFinds(tables[1])
           /\ tables[job.slot] \in TableType /\ IndexFinds(tables[job.slot]) /\ tables[job.slot].used
           /\ Slot \in Seq(EntryType) /\ Len(Slot) \in Nat /\ DOMAIN Slot = 1 .. Len(Slot)
           /\ Slot = tables[job.slot].entries
           /\ job.next \in Nat /\ job.next >= 1 /\ job.last \in Nat
           /\ fetched \in Seq(Answers) /\ Len(fetched) \in Nat /\ out \in Seq(Content)
           /\ job \in JobType /\ file.bytes \in Seq(Content)
<1>1. SourcesTypeOK /\ IndexesFind
  BY DEF SourcesInv
<1>2. /\ tables \in [1 .. 3 -> TableType] /\ job \in JobType /\ fetched \in Seq(Answers) /\ out \in Seq(Content)
      /\ cur \in {1, 2} /\ file \in FileType
  BY <1>1 DEF SourcesTypeOK
<1>3. job.slot \in 1 .. 3 /\ job.next \in Nat \ {0} /\ job.last \in Nat
  BY <1>2, JobFields
<1>4. (job.slot = 3 \/ job.slot = cur) /\ tables[job.slot].used
  BY DEF SourcesInv, WriteProgress
<1>5. /\ tables[1] \in TableType /\ IndexFinds(tables[1])
      /\ tables[job.slot] \in TableType /\ IndexFinds(tables[job.slot])
  BY <1>1, <1>2, <1>3 DEF IndexesFind
<1>6. Slot \in Seq(EntryType) /\ Slot = tables[job.slot].entries
  BY <1>5, TableFields DEF Slot
<1>7. file.bytes \in Seq(Content)
  BY <1>2 DEF FileType
<1> QED
  BY <1>1, <1>2, <1>3, <1>4, <1>5, <1>6, <1>7

LEMMA JobMoves ==
    ASSUME job \in JobType, NEW m \in Nat \ {0}, NEW stage \in {"blobs", "images"},
           job' = [job EXCEPT !.stage = stage, !.next = m]
    PROVE  /\ job' \in JobType /\ job'.next = m /\ job'.stage = stage /\ job'.slot = job.slot
           /\ job'.images = job.images /\ job'.new = job.new /\ job'.mapFirst = job.mapFirst
           /\ job'.last = job.last /\ job'.covered = job.covered /\ job'.followed = job.followed
<1> DEFINE j == [job EXCEPT !.stage = stage]
<1>1. /\ j \in JobType /\ j.stage = stage /\ j.slot = job.slot
      /\ j.images = job.images /\ j.new = job.new /\ j.mapFirst = job.mapFirst
      /\ j.last = job.last /\ j.covered = job.covered /\ j.followed = job.followed
  BY DEF JobType
<1>2. job' = [j EXCEPT !.next = m]
  OBVIOUS
<1> HIDE DEF j
<1>3. /\ job'.next = m /\ job'.stage = j.stage /\ job'.slot = j.slot
      /\ job'.images = j.images /\ job'.new = j.new /\ job'.mapFirst = j.mapFirst
      /\ job'.last = j.last /\ job'.covered = j.covered /\ job'.followed = j.followed
  BY <1>1, <1>2 DEF JobType
<1>4. job' \in JobType
  BY <1>1, <1>2 DEF JobType
<1> QED
  BY <1>1, <1>3, <1>4

\* What a worker is answered for the next entry is its blob's bytes, if the
\* caller has kept to the rules; or it is refused, and then the table lists
\* what no source has been asked about.
LEMMA AnswerTells ==
    ASSUME SourcesAssumption, SourcesInv, job.stage = "blobs", Len(fetched) < job.last
    PROVE  LET n == Len(fetched) + 1
               a == Answer(Indexed(tables[1]), Slot[n].hash)
           IN  /\ n \in DOMAIN Slot /\ a \in Answers
               /\ job.followed => a = Slot[n].hash \/ (a = Refused /\ ~job.covered)
<1> DEFINE source == Indexed(tables[1])
           n == Len(fetched) + 1
           h == Slot[n].hash
           a == Answer(source, h)
<1>1. Working
  BY DEF Working
<1>2. /\ tables[1] \in TableType /\ IndexFinds(tables[1]) /\ tables[1].entries \in Seq(EntryType)
      /\ Slot \in Seq(EntryType) /\ Len(Slot) \in Nat /\ DOMAIN Slot = 1 .. Len(Slot)
      /\ Slot = tables[job.slot].entries
      /\ job.next \in Nat /\ job.last \in Nat /\ Len(fetched) \in Nat /\ file.bytes \in Seq(Content)
  BY <1>1, AtWork, TableFields
<1>3. /\ source \in TableType /\ IndexFinds(source) /\ source.entries = tables[1].entries
      /\ DOMAIN source.index = ListedIn(tables[1].entries)
  BY <1>2, IndexedFinds
<1>4. n \in DOMAIN Slot /\ job.next <= n /\ n \in Nat
  <2>1. job.last = Len(Slot) /\ job.next <= n
    BY DEF SourcesInv, WriteProgress
  <2> QED
    BY <1>2, <2>1
<1> HIDE DEF n
<1>5. h \in Hashes /\ h \in ListedIn(Slot)
  BY <1>2, <1>4, EntryFields
<1>6. job.followed =>
        /\ job.slot = 1 => Distinct(tables[1].entries)
        /\ SourceTells
        /\ job.covered => ListedIn(Slot) \subseteq ListedIn(tables[1].entries) \cup job.new
  BY DEF SourcesInv, WriteFollowed
<1> HIDE DEF source
<1>7. CASE h \in DOMAIN source.index
  <2>1. PICK k \in DOMAIN tables[1].entries : k = source.index[h] /\ tables[1].entries[k].hash = h
    <3>1. /\ source.index[h] \in 1 .. source.indexed /\ source.entries[source.index[h]].hash = h
          /\ source.indexed <= Len(source.entries) /\ source.indexed \in Nat
          /\ source.entries \in Seq(EntryType)
      BY <1>3, <1>7, TableFields DEF IndexFinds
    <3>2. source.index[h] \in DOMAIN source.entries
      BY <3>1
    <3> QED
      BY <1>3, <3>1, <3>2
  <2> HIDE DEF h
  <2>2. FromReader(source, h) = ReadResource(file, tables[1].entries[k].res)
    BY <1>3, <1>7, <2>1 DEF FromReader
  <2>3. FromReader(source, h) \in Answers
    <3>1. tables[1].entries[k].res \in ResourceType
      BY <1>2, <2>1, EntryFields
    <3> QED
      BY <1>2, <2>2, <3>1, ReadType
  <2>4. a \in Answers
    BY <1>5, <2>3 DEF Answer, Answers, Content, Hashes
  <2>5. ASSUME job.followed
        PROVE  a = h
    <3>1. job.slot = 1 => k >= job.next
      <4> SUFFICES ASSUME job.slot = 1 PROVE k >= job.next
        OBVIOUS
      <4>1. tables[1].entries = Slot /\ tables[1].entries[n].hash = h /\ n \in DOMAIN tables[1].entries
        BY <1>2, <1>4 DEF h
      <4>2. k = n
        BY <1>6, <2>1, <2>5, <4>1 DEF Distinct
      <4> QED
        BY <1>2, <1>4, <4>2
    <3>2. \/ ReadResource(file, tables[1].entries[k].res) = h
          \/ ReadResource(file, tables[1].entries[k].res) = Refused /\ h \in job.new
      BY <1>5, <1>6, <2>1, <2>5, <3>1 DEF SourceTells
    <3> QED
      BY <1>6, <2>2, <2>5, <3>2 DEF Answer
  <2> QED
    BY <1>4, <2>4, <2>5 DEF n, h, source
<1>8. CASE h \notin DOMAIN source.index
  <2>1. h \notin ListedIn(tables[1].entries)
    BY <1>3, <1>8
  <2> HIDE DEF h
  <2>2. a = IF h \in job.new THEN h ELSE Refused
    BY <1>8 DEF Answer, FromReader
  <2>3. a \in Answers
    BY <1>5, <2>2 DEF Answers, Content, Hashes
  <2>4. job.followed => a = h \/ (a = Refused /\ ~job.covered)
    BY <1>5, <1>6, <2>1, <2>2
  <2> QED
    BY <1>4, <2>3, <2>4 DEF n, h, source
<1> QED
  BY <1>7, <1>8

LEMMA FetchKeeps ==
    ASSUME SourcesAssumption, SourcesInv, Fetch
    PROVE  SourcesInv'
<1> DEFINE source == Indexed(tables[1])
           n == Len(fetched) + 1
           a == Answer(source, Slot[n].hash)
<1>1. Working /\ job.stage = "blobs" /\ Len(fetched) < job.last /\ UNCHANGED callerVars /\ job' = job /\ out' = out
      /\ tables' = [tables EXCEPT ![1] = source] /\ fetched' = Append(fetched, a)
  BY DEF Fetch, Working, Slot
<1>2. /\ SourcesTypeOK /\ IndexesFind
      /\ job.slot \in 1 .. 3 /\ cur \in {1, 2}
      /\ tables \in [1 .. 3 -> TableType] /\ tables[1] \in TableType /\ IndexFinds(tables[1])
      /\ tables[job.slot].used
      /\ Slot \in Seq(EntryType) /\ Len(Slot) \in Nat /\ DOMAIN Slot = 1 .. Len(Slot)
      /\ Slot = tables[job.slot].entries
      /\ job.next \in Nat /\ job.next >= 1 /\ job.last \in Nat
      /\ fetched \in Seq(Answers) /\ Len(fetched) \in Nat
      /\ job \in JobType
  BY <1>1, AtWork
<1>3. /\ n \in DOMAIN Slot /\ a \in Answers
      /\ job.followed => a = Slot[n].hash \/ (a = Refused /\ ~job.covered)
  BY <1>1, AnswerTells
<1>4. /\ source \in TableType /\ IndexFinds(source) /\ source.entries = tables[1].entries
      /\ source.used = tables[1].used
  BY <1>2, IndexedFinds
<1> HIDE DEF source
<1>5. /\ tables' \in [1 .. 3 -> TableType] /\ IndexesFind' /\ tables'[1] = source
      /\ \A r \in 1 .. 3 : r # 1 => tables'[r] = tables[r]
  <2>1. 1 \in 1 .. 3
    OBVIOUS
  <2> QED
    BY <1>1, <1>2, <1>4, <2>1, OneTableChanged
<1>6. \A s \in 1 .. 3 : tables'[s].entries = tables[s].entries /\ tables'[s].used = tables[s].used
  BY <1>4, <1>5
<1>7. Slot' = Slot
  BY <1>1, <1>2, <1>6 DEF Slot
<1> HIDE DEF a
<1>8. /\ fetched' \in Seq(Answers) /\ Len(fetched') = n /\ fetched'[n] = a
      /\ \A k \in 1 .. Len(fetched) : fetched'[k] = fetched[k]
  BY <1>1, <1>2, <1>3
<1>9. SourcesTypeOK'
  BY <1>1, <1>2, <1>5, <1>8 DEF SourcesTypeOK, callerVars
<1>10. ImagesKept(file)' /\ Sourced' /\ SourceUntouched'
  BY <1>1, <1>6, CallerKept
<1>11. WriteProgress'
  <2>1. /\ job.slot \in {cur, 3} /\ \A i \in DOMAIN job.images : job.images[i] \subseteq ListedIn(Slot)
        /\ job.last = Len(Slot) /\ job.next <= Len(fetched) + 1
        /\ \A k \in 1 .. job.next - 1 : ~Slot[k].res.meta
    BY <1>1 DEF SourcesInv, WriteProgress
  <2>2. job.next <= Len(fetched') + 1 /\ Len(fetched') <= job.last
    BY <1>1, <1>2, <1>8, <2>1
  <2>3. tables'[job.slot].used /\ cur' = cur
    BY <1>1, <1>2, <1>6 DEF callerVars
  <2> QED
    BY <1>1, <1>7, <2>1, <2>2, <2>3 DEF WriteProgress, Working
<1>12. WriteFollowed'
  <2> SUFFICES ASSUME job.followed
               PROVE  /\ job.slot = 1 => Distinct(tables'[1].entries)
                      /\ SourceTells'
                      /\ job.covered => ListedIn(Slot) \subseteq ListedIn(tables'[1].entries) \cup job.new
                      /\ \A k \in job.next .. Len(fetched') :
                           fetched'[k] = Slot[k].hash \/ (fetched'[k] = Refused /\ ~job.covered)
                      /\ \A k \in 1 .. job.next - 1 : ReadResource([bytes |-> out], Slot[k].res) = Slot[k].hash
    BY <1>1, <1>7 DEF WriteFollowed
  <2>1. /\ job.slot = 1 => Distinct(tables[1].entries)
        /\ SourceTells
        /\ job.covered => ListedIn(Slot) \subseteq ListedIn(tables[1].entries) \cup job.new
        /\ \A k \in job.next .. Len(fetched) :
             fetched[k] = Slot[k].hash \/ (fetched[k] = Refused /\ ~job.covered)
        /\ \A k \in 1 .. job.next - 1 : ReadResource([bytes |-> out], Slot[k].res) = Slot[k].hash
    BY <1>1 DEF SourcesInv, WriteFollowed
  <2>2. tables'[1].entries = tables[1].entries /\ file' = file
    BY <1>1, <1>6 DEF callerVars
  <2>3. SourceTells'
    BY <1>1, <1>7, <2>1, <2>2 DEF SourceTells
  <2>4. ASSUME NEW k \in job.next .. Len(fetched')
        PROVE  fetched'[k] = Slot[k].hash \/ (fetched'[k] = Refused /\ ~job.covered)
    <3>1. k = n \/ (k \in 1 .. Len(fetched) /\ k \in job.next .. Len(fetched))
      BY <1>2, <1>8
    <3> HIDE DEF n
    <3> QED
      BY <1>3, <1>8, <2>1, <3>1
  <2> QED
    BY <2>1, <2>2, <2>3, <2>4
<1>13. WritesTellTheTruth'
  BY <1>1 DEF WritesTellTheTruth
<1> QED
  BY <1>5, <1>9, <1>10, <1>11, <1>12, <1>13 DEF SourcesInv

LEMMA WriteBlobKeeps ==
    ASSUME SourcesAssumption, SourcesInv, WriteBlob
    PROVE  SourcesInv'
<1> DEFINE n == job.next
           b == fetched[n]
           res == Placed(b, FALSE)
           t == WithResource(tables[job.slot], n, res)
<1>1. /\ Working /\ job.stage = "blobs" /\ n <= Len(fetched) /\ b # Refused
      /\ UNCHANGED callerVars /\ fetched' = fetched /\ out' = Written(b)
      /\ job' = [job EXCEPT !.next = @ + 1]
      /\ tables' = [tables EXCEPT ![job.slot] = t]
  BY DEF WriteBlob, Working, WithResource
<1>2. /\ SourcesTypeOK /\ IndexesFind
      /\ job.slot \in 1 .. 3 /\ cur \in {1, 2}
      /\ tables \in [1 .. 3 -> TableType]
      /\ tables[job.slot] \in TableType /\ IndexFinds(tables[job.slot]) /\ tables[job.slot].used
      /\ Slot \in Seq(EntryType) /\ Len(Slot) \in Nat /\ DOMAIN Slot = 1 .. Len(Slot)
      /\ Slot = tables[job.slot].entries
      /\ n \in Nat /\ n >= 1 /\ job.last \in Nat
      /\ fetched \in Seq(Answers) /\ Len(fetched) \in Nat /\ out \in Seq(Content)
      /\ job \in JobType
  BY <1>1, AtWork
<1>3. /\ job.slot \in {cur, 3} /\ \A i \in DOMAIN job.images : job.images[i] \subseteq ListedIn(Slot)
      /\ job.last = Len(Slot) /\ Len(fetched) <= job.last
      /\ \A k \in 1 .. n - 1 : ~Slot[k].res.meta
  BY <1>1 DEF SourcesInv, WriteProgress
<1>4. b \in Answers \ {Refused} /\ n \in DOMAIN Slot
  BY <1>1, <1>2, <1>3
<1>5. /\ job' \in JobType /\ job'.next = n + 1 /\ job'.stage = "blobs" /\ job'.slot = job.slot
      /\ job'.images = job.images /\ job'.new = job.new /\ job'.mapFirst = job.mapFirst
      /\ job'.last = job.last /\ job'.covered = job.covered /\ job'.followed = job.followed
  <2>1. n + 1 \in Nat \ {0}
    BY <1>2
  <2>2. job' = [job EXCEPT !.stage = "blobs", !.next = n + 1]
    BY <1>1, <1>2 DEF JobType
  <2> HIDE DEF n
  <2> QED
    BY <1>2, <2>1, <2>2, JobMoves
<1> HIDE DEF b
<1>6. /\ Written(b) \in Seq(Content) /\ Len(out) <= Len(Written(b))
      /\ \A k \in DOMAIN out : Written(b)[k] = out[k]
      /\ res \in ResourceType /\ ~res.meta
      /\ b \in Content => ReadResource([bytes |-> Written(b)], res) = b
  BY <1>2, <1>4, WrittenReads
<1> HIDE DEF n, res
<1>7. /\ t \in TableType /\ IndexFinds(t) /\ t.used = tables[job.slot].used
      /\ Len(t.entries) = Len(Slot) /\ DOMAIN t.entries = DOMAIN Slot
      /\ \A k \in DOMAIN Slot :
           t.entries[k].hash = Slot[k].hash /\ (k # n => t.entries[k] = Slot[k])
      /\ t.entries[n].res = res
      /\ ListedIn(t.entries) = ListedIn(Slot)
  <2> DEFINE base == tables[job.slot]
  <2>1. /\ base \in TableType /\ IndexFinds(base) /\ base.entries = Slot /\ n \in DOMAIN base.entries
        /\ t = WithResource(base, n, res)
    BY <1>2, <1>4
  <2> HIDE DEF base, t
  <2>2. /\ t \in TableType /\ IndexFinds(t) /\ t.used = base.used
        /\ Len(t.entries) = Len(base.entries) /\ DOMAIN t.entries = DOMAIN base.entries
        /\ \A k \in DOMAIN base.entries :
             t.entries[k].hash = base.entries[k].hash /\ (k # n => t.entries[k] = base.entries[k])
        /\ t.entries[n].res = res
        /\ ListedIn(t.entries) = ListedIn(base.entries)
    BY <1>6, <2>1, PlacedFinds
  <2>3. t.used = tables[job.slot].used
    BY <2>2 DEF base
  <2>4. base.entries = Slot
    BY <2>1
  <2>5. /\ t \in TableType /\ IndexFinds(t)
        /\ Len(t.entries) = Len(Slot) /\ DOMAIN t.entries = DOMAIN Slot
        /\ t.entries[n].res = res /\ ListedIn(t.entries) = ListedIn(Slot)
    BY <2>2, <2>4
  <2>6. \A k \in DOMAIN Slot : t.entries[k].hash = Slot[k].hash /\ (k # n => t.entries[k] = Slot[k])
    BY <2>2, <2>4
  <2> QED
    BY <2>3, <2>5, <2>6
<1> HIDE DEF t
<1>8. /\ tables' \in [1 .. 3 -> TableType] /\ IndexesFind' /\ tables'[job.slot] = t
      /\ \A r \in 1 .. 3 : r # job.slot => tables'[r] = tables[r]
  BY <1>1, <1>2, <1>7, OneTableChanged
<1>9. SourcesTypeOK'
  BY <1>1, <1>2, <1>5, <1>6, <1>8 DEF SourcesTypeOK, callerVars
<1>10. \A s \in 1 .. 3 : /\ ListedIn(tables'[s].entries) = ListedIn(tables[s].entries)
                         /\ ~tables'[s].used => ~tables[s].used /\ tables'[s].entries = tables[s].entries
  BY <1>2, <1>7, <1>8
<1>11. ImagesKept(file)' /\ Sourced' /\ SourceUntouched'
  BY <1>1, <1>10, CallerKept
<1>12. Slot' = t.entries
  BY <1>5, <1>8 DEF Slot
<1>13. WriteProgress'
  <2>1. job'.slot \in {cur', 3} /\ tables'[job'.slot].used
    BY <1>1, <1>2, <1>3, <1>5, <1>7, <1>8 DEF callerVars
  <2>2. \A i \in DOMAIN job'.images : job'.images[i] \subseteq ListedIn(Slot')
    BY <1>3, <1>5, <1>7, <1>12
  <2>3. /\ job'.last = Len(Slot') /\ job'.next <= Len(fetched') + 1 /\ Len(fetched') <= job'.last
    <3>1. job'.last = Len(Slot') /\ Len(fetched') <= job'.last
      BY <1>1, <1>3, <1>5, <1>7, <1>12
    <3>2. n <= Len(fetched) /\ n \in Nat /\ Len(fetched) \in Nat /\ job'.next = n + 1
      BY <1>1, <1>2, <1>5
    <3>3. job'.next <= Len(fetched) + 1
      BY <3>2
    <3> QED
      BY <1>1, <3>1, <3>3
  <2>4. \A k \in 1 .. job'.next - 1 : ~Slot'[k].res.meta
    <3> TAKE k \in 1 .. job'.next - 1
    <3>1. n \in 1 .. Len(Slot) /\ n \in Nat /\ Len(Slot) \in Nat /\ DOMAIN Slot = 1 .. Len(Slot)
      BY <1>2, <1>4
    <3>2. k \in 1 .. n
      <4>1. job'.next - 1 = n
        BY <1>5, <3>1
      <4> QED
        BY <4>1
    <3>3. k \in DOMAIN Slot /\ (k = n \/ (k # n /\ k \in 1 .. n - 1))
      BY <3>1, <3>2
    <3> QED
      BY <1>3, <1>6, <1>7, <1>12, <3>3
  <2> QED
    BY <1>5, <2>1, <2>2, <2>3, <2>4 DEF WriteProgress, Working
<1>14. WriteFollowed'
  <2> SUFFICES ASSUME job.followed
               PROVE  /\ job.slot = 1 => Distinct(tables'[1].entries)
                      /\ SourceTells'
                      /\ job.covered => ListedIn(Slot') \subseteq ListedIn(tables'[1].entries) \cup job.new
                      /\ \A k \in n + 1 .. Len(fetched) :
                           fetched[k] = Slot'[k].hash \/ (fetched[k] = Refused /\ ~job.covered)
                      /\ \A k \in 1 .. (n + 1) - 1 : ReadResource([bytes |-> out'], Slot'[k].res) = Slot'[k].hash
    BY <1>1, <1>5 DEF WriteFollowed
  <2>1. /\ job.slot = 1 => Distinct(tables[1].entries)
        /\ SourceTells
        /\ job.covered => ListedIn(Slot) \subseteq ListedIn(tables[1].entries) \cup job.new
        /\ \A k \in n .. Len(fetched) :
             fetched[k] = Slot[k].hash \/ (fetched[k] = Refused /\ ~job.covered)
        /\ \A k \in 1 .. n - 1 : ReadResource([bytes |-> out], Slot[k].res) = Slot[k].hash
    BY <1>1 DEF SourcesInv, WriteFollowed, n
  <2>2. job.slot = 1 => Distinct(tables'[1].entries)
    <3> SUFFICES ASSUME job.slot = 1 PROVE Distinct(t.entries)
      BY <1>8
    <3>1. tables[1].entries = Slot
      BY <1>2
    <3>2. Distinct(Slot)
      BY <2>1, <3>1
    <3>3. DOMAIN t.entries = DOMAIN Slot /\ \A k \in DOMAIN Slot : t.entries[k].hash = Slot[k].hash
      BY <1>7
    <3> QED
      BY <3>2, <3>3 DEF Distinct
  <2>3. SourceTells'
    <3> SUFFICES ASSUME NEW k \in DOMAIN tables'[1].entries, job.slot = 1 => k >= n + 1,
                        tables'[1].entries[k].hash \in ListedIn(Slot')
                 PROVE  \/ ReadResource(file, tables'[1].entries[k].res) = tables'[1].entries[k].hash
                        \/ /\ ReadResource(file, tables'[1].entries[k].res) = Refused
                           /\ tables'[1].entries[k].hash \in job.new
      BY <1>1, <1>5 DEF SourceTells, callerVars
    <3>1. tables'[1].entries[k] = tables[1].entries[k] /\ k \in DOMAIN tables[1].entries /\ (job.slot = 1 => k >= n)
      <4>1. CASE job.slot = 1
        <5>1. k \in DOMAIN Slot /\ k # n /\ k >= n
          <6>1. k \in DOMAIN Slot /\ k >= n + 1 /\ n \in Nat
            BY <1>2, <1>7, <1>8, <4>1 DEF n
          <6>2. k \in Nat
            BY <1>2, <6>1
          <6> QED
            BY <6>1, <6>2
        <5> QED
          BY <1>2, <1>7, <1>8, <4>1, <5>1
      <4>2. CASE job.slot # 1
        BY <1>8, <4>2
      <4> QED
        BY <4>1, <4>2
    <3> QED
      BY <1>7, <1>12, <2>1, <3>1 DEF SourceTells, n
  <2>4. job.covered => ListedIn(Slot') \subseteq ListedIn(tables'[1].entries) \cup job.new
    BY <1>7, <1>10, <1>12, <2>1
  <2>5. ASSUME NEW k \in n + 1 .. Len(fetched)
        PROVE  fetched[k] = Slot'[k].hash \/ (fetched[k] = Refused /\ ~job.covered)
    <3>1. k \in n .. Len(fetched) /\ k \in DOMAIN Slot
      BY <1>2, <1>3 DEF n
    <3> QED
      BY <1>7, <1>12, <2>1, <3>1
  <2>6. ASSUME NEW k \in 1 .. (n + 1) - 1
        PROVE  ReadResource([bytes |-> out'], Slot'[k].res) = Slot'[k].hash
    <3>1. k \in DOMAIN Slot /\ (k = n \/ (k # n /\ k \in 1 .. n - 1))
      <4>1. n \in 1 .. Len(Slot) /\ n \in Nat /\ Len(Slot) \in Nat /\ DOMAIN Slot = 1 .. Len(Slot)
        BY <1>2, <1>4
      <4>2. (n + 1) - 1 = n
        BY <4>1
      <4>3. k \in 1 .. n
        BY <4>2
      <4> QED
        BY <4>1, <4>3
    <3>2. Slot[k].hash \in Hashes /\ Slot[k].res \in ResourceType /\ Slot[k].hash \in Content /\ Slot[k].hash # Refused
      BY <1>2, <3>1, EntryFields, NotBytes
    <3>3. CASE k = n
      <4>1. n \in n .. Len(fetched)
        BY <1>1, <1>2 DEF n
      <4>2. b = Slot[n].hash
        BY <1>4, <2>1, <4>1 DEF b
      <4> QED
        BY <1>1, <1>6, <1>7, <1>12, <3>1, <3>2, <3>3, <4>2
    <3>4. CASE k # n
      <4>1. ReadResource([bytes |-> out], Slot[k].res) = Slot[k].hash
        BY <2>1, <3>1, <3>4
      <4>2. ReadResource([bytes |-> out'], Slot[k].res) = Slot[k].hash
        <5> DEFINE r == Slot[k].res
                   h == Slot[k].hash
        <5>1. r \in ResourceType /\ h \in Content /\ ReadResource([bytes |-> out], r) = h
          BY <3>2, <4>1
        <5> HIDE DEF r, h
        <5>2. ReadResource([bytes |-> Written(b)], r) = h
          BY <1>2, <1>4, <5>1, StillReads
        <5> QED
          BY <1>1, <5>2 DEF r, h
      <4> QED
        BY <1>7, <1>12, <3>1, <3>4, <4>2
    <3> QED
      BY <3>3, <3>4
  <2> QED
    BY <2>1, <2>2, <2>3, <2>4, <2>5, <2>6
<1>15. WritesTellTheTruth'
  BY <1>5 DEF WritesTellTheTruth
<1> QED
  BY <1>8, <1>9, <1>11, <1>13, <1>14, <1>15 DEF SourcesInv

\* ExportImage's own table goes: nothing of the caller's changes.
LEMMA DismissKeeps ==
    ASSUME SourcesInv, UNCHANGED callerVars, Dismiss
    PROVE  /\ tables' \in [1 .. 3 -> TableType] /\ IndexesFind'
           /\ ImagesKept(file)' /\ Sourced' /\ SourceUntouched'
<1>1. <<>> \in Seq(EntryType)
  OBVIOUS
<1>2. Table(<<>>) \in TableType /\ IndexFinds(Table(<<>>))
  BY <1>1, TableFresh
<1>3. SourcesTypeOK /\ IndexesFind /\ 3 \in 1 .. 3 /\ tables' = [tables EXCEPT ![3] = Table(<<>>)]
  BY DEF SourcesInv, Dismiss
<1>4. /\ tables' \in [1 .. 3 -> TableType] /\ IndexesFind'
      /\ \A r \in 1 .. 3 : r # 3 => tables'[r] = tables[r]
  BY <1>2, <1>3, OneTableChanged
<1>5. \A s \in {1, 2} : tables'[s] = tables[s]
  BY <1>4
<1>6. ImagesKept(file)' /\ Sourced' /\ SourceUntouched'
  BY <1>5, CallerKept
<1> QED
  BY <1>4, <1>6

LEMMA NoJobType == NoJob \in JobType
BY DEF NoJob, JobType

\* WriteTo returns an error.
LEMMA EndsKeeps ==
    ASSUME SourcesInv, NEW stage \in {"refused", "failed"}, Ends(stage),
           stage = "refused" /\ job.followed => ~job.covered
    PROVE  SourcesInv'
<1>1. /\ UNCHANGED callerVars /\ Dismiss /\ fetched' = <<>> /\ out' = <<>>
      /\ job' = [NoJob EXCEPT !.stage = stage, !.covered = job.covered, !.followed = job.followed]
      /\ SourcesTypeOK /\ job \in JobType
  BY DEF Ends, SourcesInv, SourcesTypeOK
<1>2. job.covered \in BOOLEAN /\ job.followed \in BOOLEAN
  BY <1>1, JobFields
<1>3. /\ job' \in JobType /\ job'.stage = stage /\ job'.covered = job.covered /\ job'.followed = job.followed
  <2> DEFINE j == [NoJob EXCEPT !.stage = stage]
             j2 == [j EXCEPT !.covered = job.covered]
  <2>1. j \in JobType /\ j.stage = stage
    BY NoJobType DEF JobType
  <2> HIDE DEF j
  <2>2. j2 \in JobType /\ j2.stage = stage /\ j2.covered = job.covered
    BY <1>2, <2>1 DEF JobType
  <2>3. job' = [j2 EXCEPT !.followed = job.followed]
    BY <1>1 DEF j
  <2> HIDE DEF j2
  <2> QED
    BY <1>2, <2>2, <2>3 DEF JobType
<1>4. SourcesTypeOK'
  BY <1>1, <1>3, DismissKeeps DEF SourcesTypeOK, callerVars
<1>5. WriteProgress' /\ WriteFollowed'
  BY <1>3 DEF WriteProgress, Working, WriteFollowed
<1>6. WritesTellTheTruth'
  <2>1. job'.stage # "written" /\ (job'.followed /\ job'.stage = "refused" => ~job'.covered)
    BY <1>3
  <2> QED
    BY <2>1 DEF WritesTellTheTruth
<1> QED
  BY <1>1, <1>4, <1>5, <1>6, DismissKeeps DEF SourcesInv

LEMMA BlobRefusedKeeps ==
    ASSUME SourcesAssumption, SourcesInv, BlobRefused
    PROVE  SourcesInv'
<1>1. job.stage = "blobs" /\ job.next <= Len(fetched) /\ fetched[job.next] = Refused /\ Ends("refused") /\ Working
  BY DEF BlobRefused, Working
<1>2. ASSUME job.followed
      PROVE  ~job.covered
  <2>1. /\ job.next \in Nat /\ job.next >= 1 /\ Len(fetched) \in Nat /\ Slot \in Seq(EntryType)
        /\ Len(Slot) \in Nat /\ DOMAIN Slot = 1 .. Len(Slot)
    BY <1>1, AtWork
  <2>2. job.last = Len(Slot) /\ Len(fetched) <= job.last
    BY <1>1 DEF SourcesInv, WriteProgress
  <2>3. job.next \in job.next .. Len(fetched) /\ job.next \in DOMAIN Slot
    BY <1>1, <2>1, <2>2
  <2>4. Refused = Slot[job.next].hash \/ ~job.covered
    BY <1>1, <1>2, <2>3 DEF SourcesInv, WriteFollowed
  <2>5. Slot[job.next].hash # Refused
    BY <2>1, <2>3, EntryFields, NotBytes
  <2> QED
    BY <2>4, <2>5
<1> QED
  BY <1>1, <1>2, EndsKeeps

LEMMA WriteFailsKeeps ==
    ASSUME SourcesInv, WriteFails
    PROVE  SourcesInv'
<1>1. Ends("failed")
  BY DEF WriteFails
<1> QED
  BY <1>1, EndsKeeps

LEMMA BlobsWrittenKeeps ==
    ASSUME SourcesInv, BlobsWritten
    PROVE  SourcesInv'
<1>1. /\ Working /\ job.stage = "blobs" /\ job.next > job.last
      /\ job' = [job EXCEPT !.stage = "images", !.next = 1]
      /\ UNCHANGED callerVars /\ tables' = tables /\ fetched' = fetched /\ out' = out
  BY DEF BlobsWritten, Working
<1>2. /\ SourcesTypeOK /\ IndexesFind /\ job \in JobType
      /\ job.next \in Nat /\ job.last \in Nat /\ Len(fetched) \in Nat
      /\ DOMAIN Slot = 1 .. Len(Slot)
  BY <1>1, AtWork
<1>3. /\ job' \in JobType /\ job'.next = 1 /\ job'.stage = "images" /\ job'.slot = job.slot
      /\ job'.images = job.images /\ job'.last = job.last
      /\ job'.covered = job.covered /\ job'.followed = job.followed
  <2>1. 1 \in Nat \ {0}
    OBVIOUS
  <2> QED
    BY <1>1, <1>2, <2>1, JobMoves
<1>4. SourcesTypeOK' /\ IndexesFind'
  BY <1>1, <1>2, <1>3 DEF SourcesTypeOK, IndexesFind, callerVars
<1>5. ImagesKept(file)' /\ Sourced' /\ SourceUntouched'
  BY <1>1, CallerKept
<1>6. Slot' = Slot
  BY <1>1, <1>3 DEF Slot
<1>7. /\ job.slot \in {cur, 3} /\ tables[job.slot].used
      /\ \A i \in DOMAIN job.images : job.images[i] \subseteq ListedIn(Slot)
      /\ job.last = Len(Slot) /\ job.next <= Len(fetched) + 1 /\ Len(fetched) <= job.last
      /\ \A k \in 1 .. job.next - 1 : ~Slot[k].res.meta
  BY <1>1 DEF SourcesInv, WriteProgress
<1>8. job.next - 1 = job.last
  BY <1>1, <1>2, <1>7
<1>9. WriteProgress'
  <2>1. Len(job.images) \in Nat
    BY <1>2, JobFields
  <2>2. Len(Slot') = job'.last + job'.next - 1 /\ job'.next <= Len(job'.images) + 1 /\ job'.next - 1 = 0
    BY <1>2, <1>3, <1>6, <1>7, <2>1
  <2>3. \A k \in 1 .. job'.last : ~Slot'[k].res.meta
    BY <1>3, <1>6, <1>7, <1>8
  <2>4. cur' = cur
    BY <1>1 DEF callerVars
  <2> QED
    BY <1>1, <1>3, <1>6, <1>7, <2>2, <2>3, <2>4 DEF WriteProgress, Working
<1>10. WriteFollowed'
  <2>1. job.followed => \A k \in 1 .. job.next - 1 : ReadResource([bytes |-> out], Slot[k].res) = Slot[k].hash
    BY <1>1 DEF SourcesInv, WriteFollowed
  <2>2. job.followed => \A k \in DOMAIN Slot : ReadResource([bytes |-> out], Slot[k].res) = Slot[k].hash
    BY <1>2, <1>7, <1>8, <2>1
  <2> QED
    BY <1>1, <1>3, <1>6, <2>2 DEF WriteFollowed
<1>11. WritesTellTheTruth'
  BY <1>3 DEF WritesTellTheTruth
<1> QED
  BY <1>4, <1>5, <1>9, <1>10, <1>11 DEF SourcesInv

LEMMA WriteImageKeeps ==
    ASSUME SourcesAssumption, SourcesInv, WriteImage
    PROVE  SourcesInv'
<1> DEFINE n == job.next
           im == job.images[n]
           res == Placed(im, TRUE)
           e == Descriptor(im, res)
           t == WithEntry(tables[job.slot], e)
           m == Len(Slot)
<1>1. /\ Working /\ job.stage = "images" /\ n <= Len(job.images)
      /\ UNCHANGED callerVars /\ fetched' = fetched /\ out' = Written(im)
      /\ job' = [job EXCEPT !.next = @ + 1]
      /\ tables' = [tables EXCEPT ![job.slot] = t]
  BY DEF WriteImage, Working, WithEntry
<1>2. /\ SourcesTypeOK /\ IndexesFind
      /\ job.slot \in 1 .. 3 /\ cur \in {1, 2}
      /\ tables \in [1 .. 3 -> TableType]
      /\ tables[job.slot] \in TableType /\ IndexFinds(tables[job.slot]) /\ tables[job.slot].used
      /\ Slot \in Seq(EntryType) /\ m \in Nat /\ DOMAIN Slot = 1 .. m
      /\ Slot = tables[job.slot].entries
      /\ n \in Nat /\ n >= 1 /\ job.last \in Nat
      /\ fetched \in Seq(Answers) /\ out \in Seq(Content)
      /\ job \in JobType /\ job.images \in Seq(Image)
  BY <1>1, AtWork, JobFields
<1>3. /\ job.slot \in {cur, 3} /\ \A i \in DOMAIN job.images : job.images[i] \subseteq ListedIn(Slot)
      /\ m = job.last + n - 1
      /\ \A k \in 1 .. job.last : ~Slot[k].res.meta
      /\ \A i \in 1 .. n - 1 :
           /\ Slot[job.last + i].res.meta /\ Slot[job.last + i].hash = job.images[i]
           /\ ReadResource([bytes |-> out], Slot[job.last + i].res) = job.images[i]
  BY <1>1 DEF SourcesInv, WriteProgress
<1>4. im \in Image
  BY <1>1, <1>2
<1>5. im \in Answers \ {Refused} /\ im \in Hashes /\ im \in Content /\ im \notin Blob
  BY <1>4, NotBytes DEF Answers, Hashes, Content
<1>6. /\ job' \in JobType /\ job'.next = n + 1 /\ job'.stage = "images" /\ job'.slot = job.slot
      /\ job'.images = job.images /\ job'.last = job.last
      /\ job'.covered = job.covered /\ job'.followed = job.followed
  <2>1. n + 1 \in Nat \ {0}
    BY <1>2
  <2>2. job' = [job EXCEPT !.stage = "images", !.next = n + 1]
    BY <1>1, <1>2 DEF JobType
  <2> HIDE DEF n
  <2> QED
    BY <1>2, <2>1, <2>2, JobMoves
<1> HIDE DEF im
<1>7. /\ Written(im) \in Seq(Content)
      /\ res \in ResourceType /\ res.meta
      /\ ReadResource([bytes |-> Written(im)], res) = im
  BY <1>2, <1>5, WrittenReads
<1> HIDE DEF n, res
<1>8. e \in EntryType /\ e.hash = im /\ e.res = res
  BY <1>5, <1>7, DescriptorType
<1> HIDE DEF e
<1>9. /\ t \in TableType /\ IndexFinds(t) /\ t.used
      /\ t.entries = Append(Slot, e) /\ ListedIn(t.entries) = ListedIn(Slot) \cup {im}
  <2> DEFINE base == tables[job.slot]
  <2>1. base \in TableType /\ IndexFinds(base) /\ base.entries = Slot /\ base.used /\ t = WithEntry(base, e)
    BY <1>2
  <2> HIDE DEF base, t
  <2>2. /\ t \in TableType /\ IndexFinds(t) /\ t.used = base.used
        /\ t.entries = Append(base.entries, e) /\ ListedIn(t.entries) = ListedIn(base.entries) \cup {e.hash}
    BY <1>8, <2>1, AppendedFinds
  <2> QED
    BY <1>8, <2>1, <2>2
<1> HIDE DEF t
<1>10. /\ tables' \in [1 .. 3 -> TableType] /\ IndexesFind' /\ tables'[job.slot] = t
       /\ \A r \in 1 .. 3 : r # job.slot => tables'[r] = tables[r]
  BY <1>1, <1>2, <1>9, OneTableChanged
<1>11. SourcesTypeOK'
  BY <1>1, <1>2, <1>6, <1>7, <1>10 DEF SourcesTypeOK, callerVars
<1>12. \A s \in 1 .. 3 : /\ ListedIn(tables[s].entries) \subseteq ListedIn(tables'[s].entries)
                         /\ ListedIn(tables'[s].entries) \cap Blob \subseteq ListedIn(tables[s].entries)
                         /\ ~tables'[s].used => ~tables[s].used /\ tables'[s].entries = tables[s].entries
  <2> TAKE s \in 1 .. 3
  <2>1. CASE s = job.slot
    <3>1. ListedIn(tables[s].entries) = ListedIn(Slot) /\ tables'[s].used
          /\ ListedIn(tables'[s].entries) = ListedIn(Slot) \cup {im}
      BY <1>2, <1>9, <1>10, <2>1
    <3> QED
      BY <1>5, <3>1
  <2>2. CASE s # job.slot
    BY <1>10, <2>2
  <2> QED
    BY <2>1, <2>2
<1>13. ImagesKept(file)' /\ Sourced' /\ SourceUntouched'
  BY <1>1, <1>12, CallerKept
<1>14. /\ Slot' = t.entries /\ Len(Slot') = m + 1 /\ DOMAIN Slot' = 1 .. m + 1 /\ Slot'[m + 1] = e
       /\ \A k \in 1 .. m : Slot'[k] = Slot[k]
  <2>1. Slot' = t.entries
    BY <1>6, <1>10 DEF Slot
  <2>2. /\ Len(Append(Slot, e)) = m + 1 /\ DOMAIN Append(Slot, e) = 1 .. m + 1 /\ Append(Slot, e)[m + 1] = e
        /\ \A k \in 1 .. m : Append(Slot, e)[k] = Slot[k]
    BY <1>2, <1>8
  <2> QED
    BY <1>9, <2>1, <2>2
<1> HIDE DEF m
<1>15. m + 1 = job.last + n
  <2> DEFINE last == job.last
  <2>1. last \in Nat /\ n \in Nat /\ m = last + n - 1
    BY <1>2, <1>3
  <2> HIDE DEF last
  <2>2. m + 1 = last + n
    BY <2>1
  <2> QED
    BY <2>2 DEF last
\* The images' entries still read back, and so does the new one.
<1>16. ASSUME NEW i \in 1 .. n
       PROVE  /\ Slot'[job.last + i].res.meta /\ Slot'[job.last + i].hash = job.images[i]
              /\ ReadResource([bytes |-> out'], Slot'[job.last + i].res) = job.images[i]
  <2>1. CASE i = n
    <3>1. job.last + i = m + 1
      BY <1>15, <2>1
    <3>2. Slot'[job.last + i] = e
      BY <1>14, <3>1
    <3>3. e.hash = im /\ e.res = res /\ res.meta /\ ReadResource([bytes |-> Written(im)], res) = im
      BY <1>7, <1>8
    <3>4. ReadResource([bytes |-> out'], res) = im
      BY <1>1, <3>3
    <3>5. im = job.images[i]
      BY <2>1 DEF im
    <3> QED
      BY <3>2, <3>3, <3>4, <3>5
  <2>2. CASE i # n
    <3>1. i \in 1 .. n - 1 /\ job.last + i \in 1 .. m /\ i \in DOMAIN job.images
      <4>1. /\ n \in Nat /\ n >= 1 /\ job.last \in Nat /\ m = job.last + n - 1
            /\ n <= Len(job.images)
        BY <1>1, <1>2, <1>3
      <4>2. DOMAIN job.images = 1 .. Len(job.images) /\ Len(job.images) \in Nat
        BY <1>2
      <4> DEFINE last == job.last
                 len == Len(job.images)
      <4>3. last \in Nat /\ len \in Nat /\ n <= len /\ m = last + n - 1
        BY <4>1, <4>2
      <4>4. DOMAIN job.images = 1 .. len
        BY <4>2
      <4> HIDE DEF last, len
      <4>5. i \in 1 .. n - 1 /\ last + i \in 1 .. m /\ i \in 1 .. len
        BY <2>2, <4>1, <4>3
      <4> QED
        BY <4>4, <4>5 DEF last
    <3>2. /\ Slot'[job.last + i] = Slot[job.last + i]
          /\ Slot[job.last + i].res.meta /\ Slot[job.last + i].hash = job.images[i]
          /\ ReadResource([bytes |-> out], Slot[job.last + i].res) = job.images[i]
      BY <1>3, <1>14, <3>1
    <3>3. Slot[job.last + i].res \in ResourceType /\ job.images[i] \in Content
      <4>1. job.last + i \in DOMAIN Slot
        BY <1>2, <3>1 DEF m
      <4>2. Slot[job.last + i].res \in ResourceType
        <5> DEFINE k == job.last + i
        <5>1. Slot \in Seq(EntryType) /\ k \in DOMAIN Slot
          BY <1>2, <4>1
        <5> HIDE DEF k
        <5>2. Slot[k].res \in ResourceType
          BY <5>1, EntryFields
        <5> QED
          BY <5>2 DEF k
      <4>3. job.images[i] \in Image
        BY <1>2, <3>1
      <4> QED
        BY <4>2, <4>3 DEF Content
    <3>4. ReadResource([bytes |-> out'], Slot[job.last + i].res) = job.images[i]
      <4> DEFINE r == Slot[job.last + i].res
                 h == job.images[i]
      <4>1. r \in ResourceType /\ h \in Content /\ ReadResource([bytes |-> out], r) = h
        BY <3>2, <3>3
      <4> HIDE DEF r, h
      <4>2. ReadResource([bytes |-> Written(im)], r) = h
        BY <1>2, <1>5, <4>1, StillReads
      <4> QED
        BY <1>1, <4>2 DEF r, h
    <3> QED
      BY <3>2, <3>4
  <2> QED
    BY <2>1, <2>2
<1>17. WriteProgress'
  <2>1. job'.slot \in {cur', 3} /\ tables'[job'.slot].used
    BY <1>1, <1>3, <1>6, <1>9, <1>10 DEF callerVars
  <2>2. \A i \in DOMAIN job'.images : job'.images[i] \subseteq ListedIn(Slot')
    BY <1>3, <1>6, <1>9, <1>14
  <2>3. Len(job.images) \in Nat
    BY <1>2
  <2>4. Len(Slot') = job'.last + job'.next - 1 /\ job'.next <= Len(job'.images) + 1 /\ job'.next - 1 = n
    <3>1. m \in Nat /\ n \in Nat /\ n <= Len(job.images)
      BY <1>1, <1>2 DEF m, n
    <3>2. m + 1 = job.last + (n + 1) - 1 /\ (n + 1) - 1 = n /\ n + 1 <= Len(job.images) + 1
      <4> DEFINE last == job.last
                 len == Len(job.images)
      <4>1. last \in Nat /\ len \in Nat /\ m \in Nat /\ n \in Nat /\ n <= len /\ m + 1 = last + n
        BY <1>2, <1>15, <2>3, <3>1
      <4> HIDE DEF last, len
      <4>2. m + 1 = last + (n + 1) - 1 /\ (n + 1) - 1 = n /\ n + 1 <= len + 1
        BY <4>1
      <4> QED
        BY <4>2 DEF last, len
    <3> QED
      BY <1>6, <1>14, <3>2
  <2>5. \A k \in 1 .. job'.last : ~Slot'[k].res.meta
    <3> DEFINE last == job.last
    <3>1. last \in Nat /\ n \in Nat /\ n >= 1 /\ m = last + n - 1 /\ job'.last = last
      BY <1>2, <1>3, <1>6
    <3>2. \A k \in 1 .. last : ~Slot[k].res.meta
      BY <1>3
    <3> HIDE DEF last
    <3> TAKE k \in 1 .. job'.last
    <3>3. k \in 1 .. last /\ k \in 1 .. m
      BY <3>1
    <3> QED
      BY <1>14, <3>2, <3>3
  <2>6. job'.stage = "images"
    BY <1>6
  <2> QED
    BY <1>6, <1>16, <2>1, <2>2, <2>4, <2>5, <2>6 DEF WriteProgress, Working
<1>18. WriteFollowed'
  <2> SUFFICES ASSUME job.followed, NEW k \in DOMAIN Slot'
               PROVE  ReadResource([bytes |-> out'], Slot'[k].res) = Slot'[k].hash
    BY <1>6 DEF WriteFollowed
  <2>1. CASE k = m + 1
    BY <1>1, <1>7, <1>8, <1>14, <2>1
  <2>2. CASE k # m + 1
    <3>1. k \in DOMAIN Slot /\ Slot'[k] = Slot[k]
      BY <1>2, <1>14, <2>2
    <3>2. ReadResource([bytes |-> out], Slot[k].res) = Slot[k].hash
      BY <1>1, <3>1 DEF SourcesInv, WriteFollowed
    <3>3. Slot[k].res \in ResourceType /\ Slot[k].hash \in Content
      BY <1>2, <3>1, EntryFields, NotBytes
    <3>4. ReadResource([bytes |-> out'], Slot[k].res) = Slot[k].hash
      <4> DEFINE r == Slot[k].res
                 h == Slot[k].hash
      <4>1. r \in ResourceType /\ h \in Content /\ ReadResource([bytes |-> out], r) = h
        BY <3>2, <3>3
      <4> HIDE DEF r, h
      <4>2. ReadResource([bytes |-> Written(im)], r) = h
        BY <1>2, <1>5, <4>1, StillReads
      <4> QED
        BY <1>1, <4>2 DEF r, h
    <3> QED
      BY <3>1, <3>4
  <2> QED
    BY <2>1, <2>2
<1>19. WritesTellTheTruth'
  BY <1>6 DEF WritesTellTheTruth
<1> QED
  BY <1>10, <1>11, <1>13, <1>17, <1>18, <1>19 DEF SourcesInv

LEMMA FinishKeeps ==
    ASSUME SourcesAssumption, SourcesInv, Finish
    PROVE  SourcesInv'
<1> DEFINE m == Len(job.images)
<1>1. /\ Working /\ job.stage = "images" /\ job.next > m
      /\ UNCHANGED callerVars /\ Dismiss /\ fetched' = <<>> /\ out' = out
      /\ job' = [NoJob EXCEPT !.stage = "written", !.followed = job.followed, !.images = job.images,
                              !.table = Slot]
  BY DEF Finish, Working, Slot
<1>2. /\ SourcesTypeOK /\ job.next \in Nat /\ job.next >= 1 /\ job.last \in Nat /\ out \in Seq(Content)
      /\ Slot \in Seq(EntryType) /\ Len(Slot) \in Nat /\ DOMAIN Slot = 1 .. Len(Slot)
      /\ job \in JobType /\ job.images \in Seq(Image) /\ job.followed \in BOOLEAN /\ m \in Nat
  BY <1>1, AtWork, JobFields
<1>3. /\ \A i \in DOMAIN job.images : job.images[i] \subseteq ListedIn(Slot)
      /\ Len(Slot) = job.last + job.next - 1 /\ job.next <= m + 1
      /\ \A k \in 1 .. job.last : ~Slot[k].res.meta
      /\ \A i \in 1 .. job.next - 1 :
           /\ Slot[job.last + i].res.meta /\ Slot[job.last + i].hash = job.images[i]
           /\ ReadResource([bytes |-> out], Slot[job.last + i].res) = job.images[i]
  BY <1>1 DEF SourcesInv, WriteProgress
<1>4. /\ job' \in JobType /\ job'.stage = "written" /\ job'.followed = job.followed
      /\ job'.images = job.images /\ job'.table = Slot
  <2> DEFINE j == [NoJob EXCEPT !.stage = "written"]
             j2 == [j EXCEPT !.followed = job.followed]
             j3 == [j2 EXCEPT !.images = job.images]
  <2>1. j \in JobType /\ j.stage = "written"
    BY NoJobType DEF JobType
  <2> HIDE DEF j
  <2>2. j2 \in JobType /\ j2.stage = "written" /\ j2.followed = job.followed
    BY <1>2, <2>1 DEF JobType
  <2> HIDE DEF j2
  <2>3. j3 \in JobType /\ j3.stage = "written" /\ j3.followed = job.followed /\ j3.images = job.images
    BY <1>2, <2>2 DEF JobType
  <2>4. job' = [j3 EXCEPT !.table = Slot]
    BY <1>1 DEF j, j2
  <2> HIDE DEF j3
  <2> QED
    BY <1>2, <2>3, <2>4 DEF JobType
<1> HIDE DEF m
<1>5. job.next - 1 = m /\ Len(Slot) = job.last + m
  <2>1. job.next - 1 = m
    <3>1. job.next \in Nat /\ m \in Nat /\ job.next > m /\ job.next <= m + 1
      BY <1>1, <1>2, <1>3
    <3> QED
      BY <3>1
  <2> QED
    BY <1>2, <1>3, <2>1
<1>6. SourcesTypeOK'
  BY <1>1, <1>2, <1>4, DismissKeeps DEF SourcesTypeOK, callerVars
<1>7. NewFile' = [bytes |-> out, table |-> Slot]
  BY <1>1, <1>4 DEF NewFile
<1>8. \A res : ReadResource(NewFile', res) = ReadResource([bytes |-> out], res)
  BY <1>7 DEF ReadResource
<1>9. NewFile'.table = Slot
  BY <1>7
<1>10. ImagesKept(NewFile')
  <2> SUFFICES ASSUME NEW k \in DOMAIN Slot, Slot[k].res.meta
               PROVE  /\ Slot[k].hash \in Image /\ Slot[k].hash \subseteq ListedIn(Slot)
                      /\ ReadResource(NewFile', Slot[k].res) = Slot[k].hash
    BY <1>9 DEF ImagesKept
  <2> DEFINE last == job.last
  <2>1. k \in Nat /\ last \in Nat /\ m \in Nat /\ k > last /\ k <= last + m
    <3>1. last \in Nat /\ m \in Nat /\ DOMAIN Slot = 1 .. last + m
      BY <1>2, <1>5
    <3>2. k \in 1 .. last + m
      BY <3>1
    <3>3. k \notin 1 .. last
      BY <1>3
    <3> HIDE DEF last
    <3> QED
      BY <3>1, <3>2, <3>3
  <2>2. k - job.last \in 1 .. m /\ job.last + (k - job.last) = k
    <3> HIDE DEF last
    <3>1. k - last \in 1 .. m /\ last + (k - last) = k
      BY <2>1
    <3> QED
      BY <3>1 DEF last
  <2>3. k - job.last \in DOMAIN job.images /\ job.images[k - job.last] \in Image
    BY <1>2, <2>2 DEF m
  <2>4. /\ Slot[k].hash = job.images[k - job.last]
        /\ ReadResource([bytes |-> out], Slot[k].res) = job.images[k - job.last]
    BY <1>3, <1>5, <2>2
  <2> QED
    BY <1>3, <1>8, <2>3, <2>4
<1>11. WriteProgress'
  BY <1>4, <1>10 DEF WriteProgress, Working
<1>12. WriteFollowed'
  BY <1>4 DEF WriteFollowed
<1>13. WritesTellTheTruth'
  <2> DEFINE metas == MetadataResources(Slot)
  <2>1. job.followed => True(NewFile')
    <3> SUFFICES ASSUME job.followed, NEW k \in DOMAIN Slot
                 PROVE  ReadResource(NewFile', Slot[k].res) = Slot[k].hash
      BY <1>9 DEF True, Range
    <3> QED
      BY <1>1, <1>8 DEF SourcesInv, WriteFollowed
  <2>2. [i \in DOMAIN metas |-> metas[i].hash] = job.images
    <3>1. metas = [i \in 1 .. m |-> Slot[job.last + i]]
      <4>1. \A i \in 1 .. m : Slot[job.last + i].res.meta
        BY <1>3, <1>5
      <4>2. /\ Slot \in Seq(EntryType) /\ job.last \in Nat /\ m \in Nat /\ Len(Slot) = job.last + m
            /\ \A k \in 1 .. job.last : ~Slot[k].res.meta
        BY <1>2, <1>3, <1>5
      <4>3. \A k \in DOMAIN Slot : Slot[k].res.meta <=> k > job.last
        <5> TAKE k \in DOMAIN Slot
        <5>1. CASE k \in 1 .. job.last
          BY <4>2, <5>1
        <5>2. CASE k \notin 1 .. job.last
          <6>1. k - job.last \in 1 .. m /\ job.last + (k - job.last) = k /\ k > job.last
            BY <4>2, <5>2
          <6> QED
            BY <4>1, <6>1
        <5> QED
          BY <5>1, <5>2
      <4>4. job.last <= Len(Slot) /\ Len(Slot) - job.last = m
        BY <4>2
      <4>5. metas = [i \in 1 .. Len(Slot) - job.last |-> Slot[job.last + i]]
        BY <4>2, <4>3, <4>4, MetadataLast
      <4> HIDE DEF metas
      <4> QED
        BY <4>4, <4>5
    <3>2. DOMAIN metas = 1 .. m /\ \A i \in 1 .. m : metas[i].hash = job.images[i]
      <4> HIDE DEF metas
      <4> QED
        BY <1>3, <1>5, <3>1
    <3>3. DOMAIN job.images = 1 .. m /\ job.images = [i \in 1 .. m |-> job.images[i]]
      <4>1. job.images \in [1 .. m -> Image]
        BY <1>2 DEF m
      <4> QED
        BY <4>1
    <3> HIDE DEF metas
    <3> QED
      BY <3>2, <3>3
  <2>3. MetadataResources(NewFile'.table) = metas /\ job'.images = job.images
    BY <1>4, <1>9
  <2> HIDE DEF metas
  <2> QED
    BY <1>4, <2>1, <2>2, <2>3 DEF WritesTellTheTruth
<1> QED
  BY <1>1, <1>6, <1>10, <1>11, <1>12, <1>13, DismissKeeps DEF SourcesInv

-----------------------------------------------------------------------------
(* A file is opened.                                                         *)

\* A table parsed from a file is the source's, the caller's, or both.
LEMMA ParsedTables ==
    ASSUME NEW f \in FileType, NEW c \in {1, 2}, tables' = Parsed(f, c)
    PROVE  /\ tables' \in [1 .. 3 -> TableType] /\ IndexesFind'
           /\ \A s \in {1, c} : tables'[s].entries = f.table /\ ~tables'[s].used
<1>1. f.table \in Seq(EntryType) /\ <<>> \in Seq(EntryType)
  BY DEF FileType
<1>2. \A s \in 1 .. 3 : tables'[s] = Table(IF s \in {1, c} THEN f.table ELSE <<>>)
  BY DEF Parsed
<1>3. \A s \in 1 .. 3 : tables'[s] \in TableType /\ IndexFinds(tables'[s])
  BY <1>1, <1>2, TableFresh
<1>4. \A s \in {1, c} : tables'[s] = Table(f.table)
  BY <1>2
<1>5. DOMAIN tables' = 1 .. 3 /\ tables' = [s \in 1 .. 3 |-> tables'[s]]
  BY DEF Parsed
<1>6. tables' \in [1 .. 3 -> TableType]
  BY <1>3, <1>5
<1> QED
  BY <1>1, <1>3, <1>4, <1>6, TableFresh DEF IndexesFind

\* The images of a file and its two tables, just after.
LEMMA Opened ==
    ASSUME file' \in FileType, ImagesKept(file'), cur' \in {1, 2}, tables' = Parsed(file', cur'), given' = {},
           \A i \in DOMAIN images' : images'[i] \subseteq ListedIn(file'.table)
    PROVE  /\ tables' \in [1 .. 3 -> TableType] /\ IndexesFind'
           /\ ImagesKept(file)' /\ Sourced' /\ SourceUntouched'
<1>1. /\ tables' \in [1 .. 3 -> TableType] /\ IndexesFind'
      /\ \A s \in {1, cur'} : tables'[s].entries = file'.table /\ ~tables'[s].used
  BY ParsedTables
<1>2. Sourced'
  BY <1>1 DEF Sourced
<1>3. SourceUntouched'
  BY <1>1 DEF SourceUntouched, Original
<1> QED
  BY <1>1, <1>2, <1>3

LEMMA MetadataCounted ==
    ASSUME NEW X, NEW es \in Seq(X)
    PROVE  \E n \in Nat : DOMAIN MetadataResources(es) = 1 .. n
<1>1. Metadata(es) \in SUBSET (1 .. Len(es)) /\ Len(es) \in Nat
  BY DEF Metadata
<1>2. Cardinality(Metadata(es)) \in Nat
  <2>1. IsFiniteSet(1 .. Len(es))
    BY <1>1, FS_Interval
  <2>2. IsFiniteSet(Metadata(es))
    BY <1>1, <2>1, FS_Subset
  <2> QED
    BY <2>2, FS_CardinalityType
<1> QED
  BY <1>2 DEF MetadataResources

LEMMA ReopenKeeps ==
    ASSUME SourcesInv, NEW c \in {1, 2}, Reopen(c)
    PROVE  SourcesInv'
<1> DEFINE es == NewFile.table
           metas == MetadataResources(es)
           trees == [i \in DOMAIN metas |-> ReadResource(NewFile, metas[i].res)]
<1>1. /\ job.stage = "written" /\ file' = NewFile /\ tables' = Parsed(file', c) /\ cur' = c
      /\ images' = trees /\ given' = {} /\ job' = NoJob /\ fetched' = <<>> /\ out' = <<>>
  BY DEF Reopen
<1>2. NewFile \in FileType /\ es \in Seq(EntryType)
  <2>1. out \in Seq(Content) /\ job.table \in Seq(EntryType)
    BY JobFields DEF SourcesInv, SourcesTypeOK
  <2> QED
    BY <2>1 DEF NewFile, FileType
<1>3. ImagesKept(NewFile)
  BY <1>1 DEF SourcesInv, WriteProgress
<1>4. \A i \in DOMAIN metas : trees[i] \in Image /\ trees[i] \subseteq ListedIn(es)
  <2> TAKE i \in DOMAIN metas
  <2>1. PICK k \in Metadata(es) : metas[i] = es[k]
    BY <1>2, MetadataPicked
  <2> HIDE DEF metas
  <2>2. trees[i] = ReadResource(NewFile, es[k].res) /\ k \in DOMAIN es /\ es[k].res.meta
    BY <2>1 DEF Metadata
  <2> QED
    BY <1>3, <2>2 DEF ImagesKept
<1>5. trees \in Seq(Image)
  <2>1. PICK n \in Nat : DOMAIN metas = 1 .. n
    BY <1>2, MetadataCounted
  <2> HIDE DEF metas
  <2> QED
    BY <1>4, <2>1
<1> HIDE DEF trees
<1>6. DOMAIN trees = DOMAIN metas
  BY DEF trees
<1>7. /\ tables' \in [1 .. 3 -> TableType] /\ IndexesFind'
      /\ ImagesKept(file)' /\ Sourced' /\ SourceUntouched'
  BY <1>1, <1>2, <1>3, <1>4, <1>6, Opened
<1>8. SourcesTypeOK'
  BY <1>1, <1>2, <1>5, <1>7, NoJobType DEF SourcesTypeOK
<1> QED
  BY <1>1, <1>7, <1>8, JobIdle DEF SourcesInv

LEMMA SourcesInitInv ==
    ASSUME SourcesAssumption, SourcesInit
    PROVE  SourcesInv
<1>1. /\ file = FileOf(images) /\ cur \in {1, 2} /\ tables = Parsed(file, cur) /\ given = {}
      /\ job = NoJob /\ fetched = <<>> /\ out = <<>>
  BY DEF SourcesInit
<1>2. images \in Seq(Image)
  <2>1. PICK n \in 1 .. MaxImages : images \in [1 .. n -> SUBSET (Blob \ {NoBytes})]
    BY DEF SourcesInit
  <2>2. n \in Nat /\ SUBSET (Blob \ {NoBytes}) \subseteq Image
    BY DEF SourcesAssumption, Image
  <2>3. images \in [1 .. n -> Image]
    BY <2>1, <2>2
  <2> QED
    BY <2>2, <2>3
<1>3. /\ file \in FileType /\ ImagesKept(file)
      /\ \A i \in DOMAIN images : images[i] \subseteq ListedIn(file.table)
  BY <1>1, <1>2, FileOfTrees
<1>4. /\ tables \in [1 .. 3 -> TableType] /\ IndexesFind
      /\ \A s \in {1, cur} : tables[s].entries = file.table /\ ~tables[s].used
  <2>1. file.table \in Seq(EntryType) /\ <<>> \in Seq(EntryType)
    BY <1>3 DEF FileType
  <2>2. tables = [s \in 1 .. 3 |-> Table(IF s \in {1, cur} THEN file.table ELSE <<>>)]
    BY <1>1 DEF Parsed
  <2>3. \A s \in 1 .. 3 : tables[s] \in TableType /\ IndexFinds(tables[s])
    BY <2>1, <2>2, TableFresh
  <2>4. \A s \in {1, cur} : tables[s] = Table(file.table)
    BY <1>1, <2>2
  <2> QED
    BY <2>1, <2>2, <2>3, <2>4, TableFresh DEF IndexesFind
<1>5. SourcesTypeOK
  BY <1>1, <1>2, <1>3, <1>4, NoJobType DEF SourcesTypeOK
<1>6. Sourced
  BY <1>1, <1>3, <1>4 DEF Sourced
<1>7. SourceUntouched
  BY <1>4 DEF SourceUntouched, Original
<1>8. job.stage = "idle"
  BY <1>1 DEF NoJob
<1>9. WriteProgress /\ WriteFollowed /\ WritesTellTheTruth
  BY <1>8 DEF WriteProgress, Working, WriteFollowed, WritesTellTheTruth
<1> QED
  BY <1>3, <1>4, <1>5, <1>6, <1>7, <1>9 DEF SourcesInv

LEMMA SourcesStutter ==
    ASSUME SourcesInv, UNCHANGED sourceVars
    PROVE  SourcesInv'
<1>1. /\ file' = file /\ tables' = tables /\ cur' = cur /\ images' = images /\ given' = given
      /\ job' = job /\ fetched' = fetched /\ out' = out /\ UNCHANGED callerVars
  BY DEF sourceVars, callerVars
<1>2. SourcesTypeOK' /\ IndexesFind'
  BY <1>1 DEF SourcesInv, SourcesTypeOK, IndexesFind
<1>3. ImagesKept(file)' /\ Sourced' /\ SourceUntouched'
  BY <1>1, CallerKept
<1>4. NewFile' = NewFile /\ Slot' = Slot
  BY <1>1 DEF NewFile, Slot
<1>5. WriteProgress'
  BY <1>1, <1>4 DEF SourcesInv, WriteProgress, Working
<1>6. WriteFollowed'
  <2>1. SourceTells' <=> SourceTells
    BY <1>1, <1>4 DEF SourceTells
  <2> QED
    BY <1>1, <1>4, <2>1 DEF SourcesInv, WriteFollowed
<1>7. WritesTellTheTruth'
  BY <1>1, <1>4 DEF SourcesInv, WritesTellTheTruth
<1> QED
  BY <1>2, <1>3, <1>5, <1>6, <1>7 DEF SourcesInv
-----------------------------------------------------------------------------

LEMMA SourcesNextKeeps ==
    ASSUME SourcesAssumption, SourcesInv, [SourcesNext]_sourceVars
    PROVE  SourcesInv'
<1>1. ASSUME NEW h \in Blob, NEW i \in DOMAIN images, InstallBlob(i, h) \/ RemoveBlob(i, h)
      PROVE  SourcesInv'
  BY <1>1, InstallKeeps, RemoveKeeps
<1>2. CASE LookUp
  BY <1>2, LookUpKeeps
<1>3. CASE RebuildTable
  BY <1>3, RebuildKeeps
<1>4. ASSUME NEW mapFirst \in BOOLEAN, Write(mapFirst)
      PROVE  SourcesInv'
  BY <1>4, WriteKeeps
<1>5. ASSUME NEW which \in Seq(Nat), Export(which)
      PROVE  SourcesInv'
  BY <1>5, ExportKeeps
<1>6. CASE Fetch
  BY <1>6, FetchKeeps
<1>7. CASE WriteBlob
  BY <1>7, WriteBlobKeeps
<1>8. CASE BlobRefused
  BY <1>8, BlobRefusedKeeps
<1>9. CASE WriteFails
  BY <1>9, WriteFailsKeeps
<1>10. CASE BlobsWritten
  BY <1>10, BlobsWrittenKeeps
<1>11. CASE WriteImage
  BY <1>11, WriteImageKeeps
<1>12. CASE Finish
  BY <1>12, FinishKeeps
<1>13. ASSUME NEW c \in {1, 2}, Reopen(c)
       PROVE  SourcesInv'
  BY <1>13, ReopenKeeps
<1>14. CASE UNCHANGED sourceVars
  BY <1>14, SourcesStutter
<1>15. \A which \in {<<1>>, <<2, 1>>, <<1, 1>>} : which \in Seq(Nat)
  <2>1. <<1>> \in Seq(Nat) /\ <<2, 1>> \in Seq(Nat) /\ <<1, 1>> \in Seq(Nat)
    OBVIOUS
  <2> QED
    BY <2>1, Zenon
<1> QED
  BY <1>1, <1>2, <1>3, <1>4, <1>5, <1>6, <1>7, <1>8, <1>9, <1>10, <1>11, <1>12, <1>13, <1>14,
     <1>15 DEF SourcesNext

\* Whatever the caller edits, writes, exports and reopens, in whatever order the
\* workers ask: a WriteTo whose caller has kept to the rules tells the truth.
THEOREM WritesTrue == SourcesSpec => []WritesTellTheTruth
<1>1. SourcesInit => SourcesInv
  BY SourcesAssumption, SourcesInitInv
<1>2. SourcesInv /\ [SourcesNext]_sourceVars => SourcesInv'
  BY SourcesAssumption, SourcesNextKeeps
<1>3. SourcesInv => WritesTellTheTruth
  BY DEF SourcesInv
<1> QED
  BY <1>1, <1>2, <1>3, PTL DEF SourcesSpec
=============================================================================
