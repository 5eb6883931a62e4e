--------------------------- MODULE DirTree_proofs ---------------------------
(***************************************************************************)
(* Proofs about the directory tree of an image, for any names, any number    *)
(* of entries and paths of any length: that what is held in memory stays a   *)
(* tree, that an index that is believed is true, that every operation does   *)
(* to the map of paths what it promises, or nothing, and with that, that     *)
(* the tree implements the map (PathTree).                                   *)
(*                                                                         *)
(* The heap is a forest while an operation runs: what has been cut off is    *)
(* still there, and has no parent.  A step of an operation is an AppendChild, *)
(* a CutChild or a change of one entry, and what each does to the map of     *)
(* paths is a lemma; paths grow by one name at a time, and so do the proofs. *)
(***************************************************************************)
EXTENDS DirTree, FiniteSetTheorems, SequenceTheorems, WellFoundedInduction, TLAPS

-----------------------------------------------------------------------------
(* Numbers.                                                                *)

Less == {p \in Nat \X Nat : p[1] < p[2]}

LEMMA LeastNumber ==
  ASSUME NEW S \in SUBSET Nat, S # {}
  PROVE  \E x \in S : \A y \in S : x <= y
<1>1. IsWellFoundedOn(Less, Nat)
  <2>1. OpToRel(<, Nat) = Less
    BY DEF OpToRel, Less
  <2> QED
    BY <2>1, NatLessThanWellFounded
<1>2. PICK x \in S : \A y \in S : ~(<<y, x>> \in Less)
  BY <1>1, WFMin
<1>3. ASSUME NEW y \in S PROVE x <= y
  <2>1. x \in Nat /\ y \in Nat
    OBVIOUS
  <2>2. ~(y < x)
    BY <1>2, <2>1 DEF Less
  <2> QED
    BY <2>1, <2>2
<1> QED
  BY <1>3

\* Induction up to n, over the numbers of a set.
LEMMA UpTo ==
  ASSUME NEW n \in Nat, NEW S, 0 \in S, \A k \in 1 .. n : k - 1 \in S => k \in S
  PROVE  0 .. n \subseteq S
<1> DEFINE bad == {k \in 0 .. n : k \notin S}
<1>1. bad = {}
  <2> SUFFICES ASSUME bad # {} PROVE FALSE
    OBVIOUS
  <2>1. PICK k \in bad : \A j \in bad : k <= j
    <3>1. bad \in SUBSET Nat
      OBVIOUS
    <3> HIDE DEF bad
    <3> QED
      BY <3>1, LeastNumber
  <2>2. k \in 1 .. n /\ k - 1 \in 0 .. n /\ k - 1 < k /\ k \notin S
    OBVIOUS
  <2>3. k - 1 \in S
    BY <2>1, <2>2
  <2> QED
    BY <2>2, <2>3
<1> QED
  BY <1>1

-----------------------------------------------------------------------------
(* Paths.                                                                  *)

Path == Seq(Name)

LEMMA PathParts ==
  ASSUME NEW p \in Path
  PROVE  /\ Len(p) \in Nat /\ DOMAIN p = 1 .. Len(p)
         /\ \A k \in 1 .. Len(p) : p[k] \in Name
         /\ \A n \in Name :
              /\ Append(p, n) \in Path /\ Append(p, n) # <<>> /\ Len(Append(p, n)) = Len(p) + 1
              /\ Front(Append(p, n)) = p /\ Last(Append(p, n)) = n
              /\ Append(p, n)[Len(p) + 1] = n
              /\ \A k \in 1 .. Len(p) : Append(p, n)[k] = p[k]
         /\ p # <<>> => /\ Len(p) # 0 /\ Front(p) \in Path /\ Last(p) \in Name
                        /\ p = Append(Front(p), Last(p)) /\ Len(Front(p)) = Len(p) - 1
<1>1. Len(p) \in Nat /\ DOMAIN p = 1 .. Len(p) /\ \A k \in 1 .. Len(p) : p[k] \in Name
  BY DEF Path
<1>2. ASSUME NEW n \in Name
      PROVE  /\ Append(p, n) \in Path /\ Append(p, n) # <<>> /\ Len(Append(p, n)) = Len(p) + 1
             /\ Append(p, n)[Len(p) + 1] = n
             /\ \A k \in 1 .. Len(p) : Append(p, n)[k] = p[k]
  BY DEF Path
<1>3. ASSUME NEW n \in Name PROVE Front(Append(p, n)) = p /\ Last(Append(p, n)) = n
  BY <1>1, <1>2 DEF Front, Last, Path
<1>4. ASSUME p # <<>>
      PROVE  /\ Len(p) # 0 /\ Front(p) \in Path /\ Last(p) \in Name
             /\ p = Append(Front(p), Last(p)) /\ Len(Front(p)) = Len(p) - 1
  BY <1>1, <1>4 DEF Front, Last, Path
<1> QED
  BY <1>1, <1>2, <1>3, <1>4

\* A path that is not empty ends in a name.
LEMMA LastName ==
  ASSUME NEW p \in Path, p # <<>>
  PROVE  \E a \in Path, l \in Name : p = Append(a, l)
<1> DEFINE b == Front(p)
           m == Last(p)
<1>1. b \in Path /\ m \in Name /\ p = Append(b, m)
  BY PathParts
<1> HIDE DEF b, m
<1> QED
  BY <1>1

LEMMA SameAppend ==
  ASSUME NEW p \in Path, NEW q \in Path, NEW n \in Name, NEW m \in Name
  PROVE  Append(p, n) = Append(q, m) <=> p = q /\ n = m
<1>1. Front(Append(p, n)) = p /\ Last(Append(p, n)) = n
  BY PathParts
<1>2. Front(Append(q, m)) = q /\ Last(Append(q, m)) = m
  BY PathParts
<1> QED
  BY <1>1, <1>2

LEMMA EmptyPath == <<>> \in Path
BY DEF Path

\* Induction over paths.
LEMMA PathInduction ==
  ASSUME NEW S, <<>> \in S, \A p \in Path : p \in S => \A n \in Name : Append(p, n) \in S
  PROVE  Path \subseteq S
<1> SUFFICES ASSUME NEW p \in Path PROVE p \in S
  OBVIOUS
<1> DEFINE T == {k \in Nat : \A q \in Path : Len(q) = k => q \in S}
<1>1. 0 \in T
  BY DEF Path
<1>2. ASSUME NEW k \in 1 .. Len(p), k - 1 \in T PROVE k \in T
  <2>1. k \in Nat /\ k # 0
    BY PathParts
  <2> SUFFICES ASSUME NEW q \in Path, Len(q) = k PROVE q \in S
    BY <2>1
  <2>2. q # <<>>
    BY <2>1
  <2>3. Front(q) \in Path /\ Last(q) \in Name /\ q = Append(Front(q), Last(q)) /\ Len(Front(q)) = k - 1
    BY <2>2, PathParts
  <2>4. Front(q) \in S
    BY <1>2, <2>3
  <2> QED
    BY <2>3, <2>4
<1> HIDE DEF T
<1>3. 0 .. Len(p) \subseteq T
  BY <1>1, <1>2, PathParts, UpTo
<1>4. Len(p) \in T
  <2>1. Len(p) \in Nat
    BY PathParts
  <2>2. Len(p) \in 0 .. Len(p)
    BY <2>1
  <2> QED
    BY <1>3, <2>2
<1> QED
  BY <1>4 DEF T
-----------------------------------------------------------------------------
(* Walks: what each is for a path with one more name.                      *)

\* The entry at a path, by names alone.
LEMMA FindSteps ==
  ASSUME NEW h, NEW p \in Path
  PROVE  /\ Find(h, <<>>) = Root
         /\ \A n \in Name : Find(h, Append(p, n)) = IF Find(h, p) = None THEN None
              ELSE findChildFold(h, Find(h, p), n)
<1> DEFINE base == Root
           Step(v, n) == IF v = None THEN None ELSE findChildFold(h, v, n)
           Solves(q, f) == f = [k \in 0 .. Len(q) |-> IF k = 0 THEN base ELSE Step(f[k - 1], q[k])]
           w(q) == CHOOSE f : Solves(q, f)
<1>1. ASSUME NEW q \in Path PROVE Find(h, q) = w(q)[Len(q)]
  BY DEF Find
<1> HIDE DEF base, Step
<1>2. \A q \in Path : \E f : Solves(q, f)
  <2> DEFINE S == {q \in Path : \E f : Solves(q, f)}
  <2>1. <<>> \in S
    <3> DEFINE f == [k \in 0 .. 0 |-> base]
    <3>1. Len(<<>>) = 0 /\ \A k \in 0 .. 0 : k = 0 /\ f[k] = base
      OBVIOUS
    <3>2. Solves(<<>>, f)
      BY <3>1
    <3> QED
      BY <3>2, EmptyPath
  <2>2. ASSUME NEW q \in Path, q \in S, NEW n \in Name PROVE Append(q, n) \in S
    <3> DEFINE l == Len(q)
    <3>1. l \in Nat /\ Append(q, n) \in Path /\ Len(Append(q, n)) = l + 1
          /\ Append(q, n)[l + 1] = n /\ \A k \in 1 .. l : Append(q, n)[k] = q[k]
      BY PathParts
    <3>2. PICK f : Solves(q, f)
      BY <2>2
    <3> DEFINE g == [k \in 0 .. l + 1 |-> IF k = l + 1 THEN Step(f[l], n) ELSE f[k]]
               b(k) == IF k = 0 THEN base ELSE Step(g[k - 1], Append(q, n)[k])
    <3>3. g[l + 1] = Step(f[l], n) /\ \A k \in 0 .. l : g[k] = f[k]
      BY <3>1
    <3>4. ASSUME NEW k \in 0 .. l + 1 PROVE g[k] = b(k)
      <4>1. CASE k = l + 1
        <5>1. k # 0 /\ k - 1 = l /\ l \in 0 .. l
          BY <3>1, <4>1
        <5> HIDE DEF g
        <5> QED
          BY <3>1, <3>3, <4>1, <5>1
      <4>2. CASE k # l + 1
        <5>1. k \in 0 .. l /\ (k # 0 => k \in 1 .. l /\ k - 1 \in 0 .. l)
          BY <3>1, <4>2
        <5>2. f[k] = IF k = 0 THEN base ELSE Step(f[k - 1], q[k])
          BY <3>2, <5>1
        <5> HIDE DEF g
        <5> QED
          BY <3>1, <3>3, <5>1, <5>2
      <4> QED
        BY <4>1, <4>2
    <3>5. g = [k \in 0 .. l + 1 |-> b(k)]
      <4>1. g = [k \in 0 .. l + 1 |-> g[k]]
        OBVIOUS
      <4> HIDE DEF g, b
      <4> QED
        BY <3>4, <4>1
    <3> HIDE DEF g
    <3>6. Solves(Append(q, n), g)
      BY <3>1, <3>5
    <3> QED
      BY <3>1, <3>6
  <2> HIDE DEF S
  <2>3. Path \subseteq S
    BY <2>1, <2>2, PathInduction
  <2> QED
    BY <2>3 DEF S
<1>3. \A q \in Path : Solves(q, w(q))
  <2> HIDE DEF Solves
  <2> QED
    BY <1>2
<1>4. ASSUME NEW q \in Path
      PROVE  w(q)[0] = base /\ \A k \in 1 .. Len(q) : w(q)[k] = Step(w(q)[k - 1], q[k])
  <2>1. Solves(q, w(q)) /\ Len(q) \in Nat
    BY <1>3, PathParts
  <2> HIDE DEF w
  <2>2. 0 \in 0 .. Len(q) /\ \A k \in 1 .. Len(q) : k \in 0 .. Len(q) /\ k # 0
    BY <2>1
  <2> QED
    BY <2>1, <2>2
<1> HIDE DEF w, Solves
<1>5. Find(h, <<>>) = base
  <2>1. Len(<<>>) = 0
    OBVIOUS
  <2> QED
    BY <1>1, <1>4, <2>1, EmptyPath
<1>6. ASSUME NEW n \in Name PROVE Find(h, Append(p, n)) = Step(Find(h, p), n)
  <2> DEFINE l == Len(p)
             S == {k \in 0 .. l : w(Append(p, n))[k] = w(p)[k]}
  <2>1. l \in Nat /\ Append(p, n) \in Path /\ Len(Append(p, n)) = l + 1
        /\ Append(p, n)[l + 1] = n /\ \A k \in 1 .. l : Append(p, n)[k] = p[k]
    BY PathParts
  <2>2. 0 \in S
    BY <1>4, <2>1
  <2>3. ASSUME NEW k \in 1 .. l, k - 1 \in S PROVE k \in S
    <3>1. k \in 1 .. l + 1 /\ k \in 0 .. l
      BY <2>1
    <3> QED
      BY <1>4, <2>1, <2>3, <3>1
  <2>4. 0 .. l \subseteq S
    <3> HIDE DEF S, l
    <3> QED
      BY <2>1, <2>2, <2>3, UpTo
  <2>5. w(Append(p, n))[l] = w(p)[l]
    <3>1. l \in 0 .. l
      BY <2>1
    <3> QED
      BY <2>4, <3>1
  <2>6. w(Append(p, n))[l + 1] = Step(w(Append(p, n))[l], n)
    <3>1. l + 1 \in 1 .. l + 1 /\ (l + 1) - 1 = l
      BY <2>1
    <3> QED
      BY <1>4, <2>1, <3>1
  <2> QED
    BY <1>1, <2>1, <2>5, <2>6
<1> QED
  BY <1>5, <1>6 DEF base, Step

\* The walk to an entry.
LEMMA WalkSteps ==
  ASSUME NEW h, NEW p \in Path
  PROVE  /\ Walk(h, <<>>) = Begin(h)
         /\ \A n \in Name : Walk(h, Append(p, n)) = Follow(Walk(h, p), n)
<1> DEFINE base == Begin(h)
           Step(v, n) == Follow(v, n)
           Solves(q, f) == f = [k \in 0 .. Len(q) |-> IF k = 0 THEN base ELSE Step(f[k - 1], q[k])]
           w(q) == CHOOSE f : Solves(q, f)
<1>1. ASSUME NEW q \in Path PROVE Walk(h, q) = w(q)[Len(q)]
  BY DEF Walk
<1> HIDE DEF base, Step
<1>2. \A q \in Path : \E f : Solves(q, f)
  <2> DEFINE S == {q \in Path : \E f : Solves(q, f)}
  <2>1. <<>> \in S
    <3> DEFINE f == [k \in 0 .. 0 |-> base]
    <3>1. Len(<<>>) = 0 /\ \A k \in 0 .. 0 : k = 0 /\ f[k] = base
      OBVIOUS
    <3>2. Solves(<<>>, f)
      BY <3>1
    <3> QED
      BY <3>2, EmptyPath
  <2>2. ASSUME NEW q \in Path, q \in S, NEW n \in Name PROVE Append(q, n) \in S
    <3> DEFINE l == Len(q)
    <3>1. l \in Nat /\ Append(q, n) \in Path /\ Len(Append(q, n)) = l + 1
          /\ Append(q, n)[l + 1] = n /\ \A k \in 1 .. l : Append(q, n)[k] = q[k]
      BY PathParts
    <3>2. PICK f : Solves(q, f)
      BY <2>2
    <3> DEFINE g == [k \in 0 .. l + 1 |-> IF k = l + 1 THEN Step(f[l], n) ELSE f[k]]
               b(k) == IF k = 0 THEN base ELSE Step(g[k - 1], Append(q, n)[k])
    <3>3. g[l + 1] = Step(f[l], n) /\ \A k \in 0 .. l : g[k] = f[k]
      BY <3>1
    <3>4. ASSUME NEW k \in 0 .. l + 1 PROVE g[k] = b(k)
      <4>1. CASE k = l + 1
        <5>1. k # 0 /\ k - 1 = l /\ l \in 0 .. l
          BY <3>1, <4>1
        <5> HIDE DEF g
        <5> QED
          BY <3>1, <3>3, <4>1, <5>1
      <4>2. CASE k # l + 1
        <5>1. k \in 0 .. l /\ (k # 0 => k \in 1 .. l /\ k - 1 \in 0 .. l)
          BY <3>1, <4>2
        <5>2. f[k] = IF k = 0 THEN base ELSE Step(f[k - 1], q[k])
          BY <3>2, <5>1
        <5> HIDE DEF g
        <5> QED
          BY <3>1, <3>3, <5>1, <5>2
      <4> QED
        BY <4>1, <4>2
    <3>5. g = [k \in 0 .. l + 1 |-> b(k)]
      <4>1. g = [k \in 0 .. l + 1 |-> g[k]]
        OBVIOUS
      <4> HIDE DEF g, b
      <4> QED
        BY <3>4, <4>1
    <3> HIDE DEF g
    <3>6. Solves(Append(q, n), g)
      BY <3>1, <3>5
    <3> QED
      BY <3>1, <3>6
  <2> HIDE DEF S
  <2>3. Path \subseteq S
    BY <2>1, <2>2, PathInduction
  <2> QED
    BY <2>3 DEF S
<1>3. \A q \in Path : Solves(q, w(q))
  <2> HIDE DEF Solves
  <2> QED
    BY <1>2
<1>4. ASSUME NEW q \in Path
      PROVE  w(q)[0] = base /\ \A k \in 1 .. Len(q) : w(q)[k] = Step(w(q)[k - 1], q[k])
  <2>1. Solves(q, w(q)) /\ Len(q) \in Nat
    BY <1>3, PathParts
  <2> HIDE DEF w
  <2>2. 0 \in 0 .. Len(q) /\ \A k \in 1 .. Len(q) : k \in 0 .. Len(q) /\ k # 0
    BY <2>1
  <2> QED
    BY <2>1, <2>2
<1> HIDE DEF w, Solves
<1>5. Walk(h, <<>>) = base
  <2>1. Len(<<>>) = 0
    OBVIOUS
  <2> QED
    BY <1>1, <1>4, <2>1, EmptyPath
<1>6. ASSUME NEW n \in Name PROVE Walk(h, Append(p, n)) = Step(Walk(h, p), n)
  <2> DEFINE l == Len(p)
             S == {k \in 0 .. l : w(Append(p, n))[k] = w(p)[k]}
  <2>1. l \in Nat /\ Append(p, n) \in Path /\ Len(Append(p, n)) = l + 1
        /\ Append(p, n)[l + 1] = n /\ \A k \in 1 .. l : Append(p, n)[k] = p[k]
    BY PathParts
  <2>2. 0 \in S
    BY <1>4, <2>1
  <2>3. ASSUME NEW k \in 1 .. l, k - 1 \in S PROVE k \in S
    <3>1. k \in 1 .. l + 1 /\ k \in 0 .. l
      BY <2>1
    <3> QED
      BY <1>4, <2>1, <2>3, <3>1
  <2>4. 0 .. l \subseteq S
    <3> HIDE DEF S, l
    <3> QED
      BY <2>1, <2>2, <2>3, UpTo
  <2>5. w(Append(p, n))[l] = w(p)[l]
    <3>1. l \in 0 .. l
      BY <2>1
    <3> QED
      BY <2>4, <3>1
  <2>6. w(Append(p, n))[l + 1] = Step(w(Append(p, n))[l], n)
    <3>1. l + 1 \in 1 .. l + 1 /\ (l + 1) - 1 = l
      BY <2>1
    <3> QED
      BY <1>4, <2>1, <3>1
  <2> QED
    BY <1>1, <2>1, <2>5, <2>6
<1> QED
  BY <1>5, <1>6 DEF base, Step

\* The way to an entry that is to be created.
LEMMA WaySteps ==
  ASSUME NEW h, NEW p \in Path, NEW indexed
  PROVE  /\ Way(h, <<>>, indexed) = Begin(h)
         /\ \A n \in Name : Way(h, Append(p, n), indexed) = Descend(Way(h, p, indexed), n, indexed)
<1> DEFINE base == Begin(h)
           Step(v, n) == Descend(v, n, indexed)
           Solves(q, f) == f = [k \in 0 .. Len(q) |-> IF k = 0 THEN base ELSE Step(f[k - 1], q[k])]
           w(q) == CHOOSE f : Solves(q, f)
<1>1. ASSUME NEW q \in Path PROVE Way(h, q, indexed) = w(q)[Len(q)]
  BY DEF Way
<1> HIDE DEF base, Step
<1>2. \A q \in Path : \E f : Solves(q, f)
  <2> DEFINE S == {q \in Path : \E f : Solves(q, f)}
  <2>1. <<>> \in S
    <3> DEFINE f == [k \in 0 .. 0 |-> base]
    <3>1. Len(<<>>) = 0 /\ \A k \in 0 .. 0 : k = 0 /\ f[k] = base
      OBVIOUS
    <3>2. Solves(<<>>, f)
      BY <3>1
    <3> QED
      BY <3>2, EmptyPath
  <2>2. ASSUME NEW q \in Path, q \in S, NEW n \in Name PROVE Append(q, n) \in S
    <3> DEFINE l == Len(q)
    <3>1. l \in Nat /\ Append(q, n) \in Path /\ Len(Append(q, n)) = l + 1
          /\ Append(q, n)[l + 1] = n /\ \A k \in 1 .. l : Append(q, n)[k] = q[k]
      BY PathParts
    <3>2. PICK f : Solves(q, f)
      BY <2>2
    <3> DEFINE g == [k \in 0 .. l + 1 |-> IF k = l + 1 THEN Step(f[l], n) ELSE f[k]]
               b(k) == IF k = 0 THEN base ELSE Step(g[k - 1], Append(q, n)[k])
    <3>3. g[l + 1] = Step(f[l], n) /\ \A k \in 0 .. l : g[k] = f[k]
      BY <3>1
    <3>4. ASSUME NEW k \in 0 .. l + 1 PROVE g[k] = b(k)
      <4>1. CASE k = l + 1
        <5>1. k # 0 /\ k - 1 = l /\ l \in 0 .. l
          BY <3>1, <4>1
        <5> HIDE DEF g
        <5> QED
          BY <3>1, <3>3, <4>1, <5>1
      <4>2. CASE k # l + 1
        <5>1. k \in 0 .. l /\ (k # 0 => k \in 1 .. l /\ k - 1 \in 0 .. l)
          BY <3>1, <4>2
        <5>2. f[k] = IF k = 0 THEN base ELSE Step(f[k - 1], q[k])
          BY <3>2, <5>1
        <5> HIDE DEF g
        <5> QED
          BY <3>1, <3>3, <5>1, <5>2
      <4> QED
        BY <4>1, <4>2
    <3>5. g = [k \in 0 .. l + 1 |-> b(k)]
      <4>1. g = [k \in 0 .. l + 1 |-> g[k]]
        OBVIOUS
      <4> HIDE DEF g, b
      <4> QED
        BY <3>4, <4>1
    <3> HIDE DEF g
    <3>6. Solves(Append(q, n), g)
      BY <3>1, <3>5
    <3> QED
      BY <3>1, <3>6
  <2> HIDE DEF S
  <2>3. Path \subseteq S
    BY <2>1, <2>2, PathInduction
  <2> QED
    BY <2>3 DEF S
<1>3. \A q \in Path : Solves(q, w(q))
  <2> HIDE DEF Solves
  <2> QED
    BY <1>2
<1>4. ASSUME NEW q \in Path
      PROVE  w(q)[0] = base /\ \A k \in 1 .. Len(q) : w(q)[k] = Step(w(q)[k - 1], q[k])
  <2>1. Solves(q, w(q)) /\ Len(q) \in Nat
    BY <1>3, PathParts
  <2> HIDE DEF w
  <2>2. 0 \in 0 .. Len(q) /\ \A k \in 1 .. Len(q) : k \in 0 .. Len(q) /\ k # 0
    BY <2>1
  <2> QED
    BY <2>1, <2>2
<1> HIDE DEF w, Solves
<1>5. Way(h, <<>>, indexed) = base
  <2>1. Len(<<>>) = 0
    OBVIOUS
  <2> QED
    BY <1>1, <1>4, <2>1, EmptyPath
<1>6. ASSUME NEW n \in Name PROVE Way(h, Append(p, n), indexed) = Step(Way(h, p, indexed), n)
  <2> DEFINE l == Len(p)
             S == {k \in 0 .. l : w(Append(p, n))[k] = w(p)[k]}
  <2>1. l \in Nat /\ Append(p, n) \in Path /\ Len(Append(p, n)) = l + 1
        /\ Append(p, n)[l + 1] = n /\ \A k \in 1 .. l : Append(p, n)[k] = p[k]
    BY PathParts
  <2>2. 0 \in S
    BY <1>4, <2>1
  <2>3. ASSUME NEW k \in 1 .. l, k - 1 \in S PROVE k \in S
    <3>1. k \in 1 .. l + 1 /\ k \in 0 .. l
      BY <2>1
    <3> QED
      BY <1>4, <2>1, <2>3, <3>1
  <2>4. 0 .. l \subseteq S
    <3> HIDE DEF S, l
    <3> QED
      BY <2>1, <2>2, <2>3, UpTo
  <2>5. w(Append(p, n))[l] = w(p)[l]
    <3>1. l \in 0 .. l
      BY <2>1
    <3> QED
      BY <2>4, <3>1
  <2>6. w(Append(p, n))[l + 1] = Step(w(Append(p, n))[l], n)
    <3>1. l + 1 \in 1 .. l + 1 /\ (l + 1) - 1 = l
      BY <2>1
    <3> QED
      BY <1>4, <2>1, <3>1
  <2> QED
    BY <1>1, <2>1, <2>5, <2>6
<1> QED
  BY <1>5, <1>6 DEF base, Step
-----------------------------------------------------------------------------
(* The heap.                                                               *)

IndexType == [built : BOOLEAN, len : Nat, byName : [Name -> Node \cup {None, Gone}]]

NodeType ==
  [kind : {"dir", "file", "unused"}, name : Name, hash : Hash \cup {NoHash},
   kids : Seq(Node), spare : Nat, index : IndexType]

Heap == [Node -> NodeType]

\* Each entry is in one place at most, and the root in none.  (What has been cut
\* off, and what has not been appended yet, is in none.)
InOnePlace(h) ==
  /\ \A d \in Node : \A k \in DOMAIN h[d].kids :
       h[d].kids[k] # Root /\ h[h[d].kids[k]].kind # "unused"
  /\ \A d, e \in Node : \A j \in DOMAIN h[d].kids, k \in DOMAIN h[e].kids :
       h[d].kids[j] = h[e].kids[k] => d = e /\ j = k

OnlyInDirectories(h) ==
  /\ h[Root].kind = "dir"
  /\ \A d \in Node : h[d].kind # "dir" => h[d].kids = <<>>

NamesDiffer(h) ==
  \A d \in Node : \A j, k \in DOMAIN h[d].kids :
    h[h[d].kids[j]].name = h[h[d].kids[k]].name => j = k

\* The index r says what is true of the first r.len of the children.
TrueOf(h, r, kids) ==
  \A n \in Name :
    /\ \A k \in 1 .. r.len : h[kids[k]].name = n => r.byName[n] = kids[k]
    /\ (\A k \in 1 .. r.len : h[kids[k]].name # n) => r.byName[n] = None

\* An index is true of as many children as it was built from, as long as there
\* are so many.  When there are not, the last one was cut off, the slice is full,
\* and the next child will move it and have the index forgotten.
IndexTrue(h, d) ==
  h[d].index.built =>
    IF h[d].index.len <= Len(h[d].kids)
      THEN TrueOf(h, h[d].index, h[d].kids)
      ELSE h[d].spare = 0

Forest(h) ==
  /\ h \in Heap
  /\ InOnePlace(h)
  /\ OnlyInDirectories(h)
  /\ NamesDiffer(h)
  /\ \A d \in Node : IndexTrue(h, d)

ForestInv == Forest(heap) /\ files = FilesOf(heap)

LEMMA Numbers == NumNodes \in Nat \ {0} /\ Root \in Node /\ None \notin Node /\ Gone \notin Node
BY DirTreeAssumption DEF Node, Root, None, Gone

LEMMA NodeFields ==
  ASSUME NEW h \in Heap, NEW x \in Node
  PROVE  /\ h[x] \in NodeType
         /\ h[x].kind \in {"dir", "file", "unused"} /\ h[x].name \in Name
         /\ h[x].hash \in Hash \cup {NoHash} /\ h[x].spare \in Nat
         /\ h[x].kids \in Seq(Node) /\ Len(h[x].kids) \in Nat
         /\ DOMAIN h[x].kids = 1 .. Len(h[x].kids)
         /\ \A k \in DOMAIN h[x].kids : h[x].kids[k] \in Node
         /\ h[x].index \in IndexType
         /\ h[x].index.built \in BOOLEAN /\ h[x].index.len \in Nat
         /\ h[x].index.byName \in [Name -> Node \cup {None, Gone}]
<1>1. h[x] \in NodeType
  BY DEF Heap
<1>2. h[x].kids \in Seq(Node) /\ h[x].index \in IndexType
  BY <1>1 DEF NodeType
<1>3. h[x].index.built \in BOOLEAN /\ h[x].index.len \in Nat
      /\ h[x].index.byName \in [Name -> Node \cup {None, Gone}]
  BY <1>2 DEF IndexType
<1>4. h[x].kind \in {"dir", "file", "unused"} /\ h[x].name \in Name
      /\ h[x].hash \in Hash \cup {NoHash} /\ h[x].spare \in Nat
  BY <1>1 DEF NodeType
<1>5. Len(h[x].kids) \in Nat /\ DOMAIN h[x].kids = 1 .. Len(h[x].kids)
      /\ \A k \in DOMAIN h[x].kids : h[x].kids[k] \in Node
  BY <1>2
<1> QED
  BY <1>1, <1>2, <1>3, <1>4, <1>5

\* findChildFold finds the child of a name, if there is one, and where it is.
LEMMA KidIs ==
  ASSUME NEW h \in Heap, NamesDiffer(h), NEW d \in Node, NEW n
  PROVE  /\ findChildFold(h, d, n) \in Node \cup {None}
         /\ \A k \in DOMAIN h[d].kids : h[h[d].kids[k]].name = n =>
              findChildFold(h, d, n) = h[d].kids[k] /\ Position(h, d, n) = k
         /\ findChildFold(h, d, n) # None =>
              \E k \in DOMAIN h[d].kids :
                h[d].kids[k] = findChildFold(h, d, n) /\ h[h[d].kids[k]].name = n
<1> DEFINE at == {k \in DOMAIN h[d].kids : h[h[d].kids[k]].name = n}
<1>1. DOMAIN h[d].kids \subseteq Nat /\ \A k \in DOMAIN h[d].kids : h[d].kids[k] \in Node
  BY NodeFields
<1>2. ASSUME NEW k \in DOMAIN h[d].kids, h[h[d].kids[k]].name = n
      PROVE  findChildFold(h, d, n) = h[d].kids[k] /\ Position(h, d, n) = k
  <2>1. at = {k}
    BY <1>2 DEF NamesDiffer
  <2>2. Min({k}) = k
    BY <1>1 DEF Min
  <2> QED
    BY <2>1, <2>2 DEF findChildFold, Position
<1>3. CASE at = {}
  <2>1. findChildFold(h, d, n) = None
    BY <1>3 DEF findChildFold
  <2> QED
    BY <1>2, <2>1
<1>4. CASE at # {}
  <2>1. PICK k \in DOMAIN h[d].kids : h[h[d].kids[k]].name = n
    BY <1>4
  <2> QED
    BY <1>1, <1>2, <2>1
<1> QED
  BY <1>3, <1>4

LEMMA NoKid ==
  ASSUME NEW h, NEW d, NEW n, \A k \in DOMAIN h[d].kids : h[h[d].kids[k]].name # n
  PROVE  findChildFold(h, d, n) = None
BY DEF findChildFold

LEMMA SameKidsAt ==
  ASSUME NEW h, NEW g, NEW d, NEW n, g[d].kids = h[d].kids,
         \A k \in DOMAIN h[d].kids : g[h[d].kids[k]].name = h[h[d].kids[k]].name
  PROVE  findChildFold(g, d, n) = findChildFold(h, d, n) /\ Position(g, d, n) = Position(h, d, n)
<1>1. {k \in DOMAIN g[d].kids : g[g[d].kids[k]].name = n}
        = {k \in DOMAIN h[d].kids : h[h[d].kids[k]].name = n}
  OBVIOUS
<1> QED
  BY <1>1 DEF findChildFold, Position

\* Heaps that differ in the indices alone.
SameTree(h, g) ==
  \A x \in Node : /\ g[x].kind = h[x].kind /\ g[x].name = h[x].name
                  /\ g[x].hash = h[x].hash /\ g[x].kids = h[x].kids

LEMMA SameKids ==
  ASSUME NEW h \in Heap, NEW g, SameTree(h, g), NEW d \in Node, NEW n
  PROVE  findChildFold(g, d, n) = findChildFold(h, d, n) /\ Position(g, d, n) = Position(h, d, n)
<1>1. g[d].kids = h[d].kids /\ \A k \in DOMAIN h[d].kids : g[h[d].kids[k]].name = h[h[d].kids[k]].name
  BY NodeFields DEF SameTree
<1> QED
  BY <1>1, SameKidsAt

LEMMA SameForest ==
  ASSUME NEW h, Forest(h), NEW g \in Heap, SameTree(h, g), \A d \in Node : IndexTrue(g, d)
  PROVE  Forest(g)
<1> USE DEF SameTree
<1>1. h \in Heap /\ \A d \in Node : \A k \in DOMAIN h[d].kids : h[d].kids[k] \in Node
  BY NodeFields DEF Forest
<1>2. InOnePlace(g)
  BY <1>1 DEF Forest, InOnePlace
<1>3. OnlyInDirectories(g)
  BY <1>1, Numbers DEF Forest, OnlyInDirectories
<1>4. NamesDiffer(g)
  BY <1>1 DEF Forest, NamesDiffer
<1> QED
  BY <1>2, <1>3, <1>4 DEF Forest

\* Child's index is true whether it was there or has been built, and building
\* one changes nothing else.
LEMMA IndexedIs ==
  ASSUME NEW h, Forest(h), NEW d \in Node
  PROVE  /\ Forest(Indexed(h, d)) /\ SameTree(h, Indexed(h, d))
         /\ \A n \in Name : Child(h, d, n) = findChildFold(h, d, n)
<1>1. h \in Heap /\ NamesDiffer(h) /\ \A x \in Node : IndexTrue(h, x)
  BY DEF Forest
<1>2. CASE sameChildrenSlice(h, d)
  <2>1. Indexed(h, d) = h
    BY <1>2 DEF Indexed
  <2>2. Len(h[d].kids) \in Nat /\ DOMAIN h[d].kids = 1 .. Len(h[d].kids)
    BY <1>1, NodeFields
  <2>3. TrueOf(h, h[d].index, h[d].kids) /\ h[d].index.len = Len(h[d].kids)
    BY <1>1, <1>2, <2>2 DEF sameChildrenSlice, IndexTrue
  <2>4. ASSUME NEW n \in Name PROVE h[d].index.byName[n] = findChildFold(h, d, n)
    <3>1. CASE \E k \in DOMAIN h[d].kids : h[h[d].kids[k]].name = n
      <4>1. PICK k \in DOMAIN h[d].kids : h[h[d].kids[k]].name = n
        BY <3>1
      <4>2. findChildFold(h, d, n) = h[d].kids[k]
        BY <1>1, <4>1, KidIs
      <4>3. h[d].index.byName[n] = h[d].kids[k]
        BY <2>2, <2>3, <4>1 DEF TrueOf
      <4> QED
        BY <4>2, <4>3
    <3>2. CASE \A k \in DOMAIN h[d].kids : h[h[d].kids[k]].name # n
      <4>1. findChildFold(h, d, n) = None
        BY <3>2, NoKid
      <4>2. h[d].index.byName[n] = None
        BY <2>2, <2>3, <3>2 DEF TrueOf
      <4> QED
        BY <4>1, <4>2
    <3> QED
      BY <3>1, <3>2
  <2> QED
    BY <2>1, <2>4 DEF SameTree, Child
<1>3. CASE ~sameChildrenSlice(h, d)
  <2> DEFINE r == IF h[d].kids = <<>> THEN NoIndex
                  ELSE [built |-> TRUE, len |-> Len(h[d].kids),
                        byName |-> [n \in Name |-> findChildFold(h, d, n)]]
             g == [h EXCEPT ![d].index = r]
  <2>1. Indexed(h, d) = g
    BY <1>3 DEF Indexed, buildChildIndex
  <2>2. Len(h[d].kids) \in Nat /\ DOMAIN h[d].kids = 1 .. Len(h[d].kids)
        /\ \A k \in DOMAIN h[d].kids : h[d].kids[k] \in Node
    BY <1>1, NodeFields
  <2>3. r \in IndexType /\ (r.built => r.len = Len(h[d].kids))
        /\ \A n \in Name : r.byName[n] = findChildFold(h, d, n)
    <3>1. CASE h[d].kids = <<>>
      <4>1. r = NoIndex
        BY <3>1
      <4>2. \A n \in Name : findChildFold(h, d, n) = None
        <5>1. DOMAIN h[d].kids = {}
          BY <3>1
        <5> QED
          BY <5>1, NoKid
      <4> HIDE DEF r
      <4> QED
        BY <4>1, <4>2 DEF NoIndex, IndexType
    <3>2. CASE h[d].kids # <<>>
      <4>1. r = [built |-> TRUE, len |-> Len(h[d].kids),
                 byName |-> [n \in Name |-> findChildFold(h, d, n)]]
        BY <3>2
      <4>2. \A n \in Name : findChildFold(h, d, n) \in Node \cup {None, Gone}
        BY <1>1, KidIs
      <4> HIDE DEF r
      <4> QED
        BY <2>2, <4>1, <4>2 DEF IndexType
    <3> QED
      BY <3>1, <3>2
  <2> HIDE DEF r
  <2>4. g \in Heap /\ \A x \in Node : g[x] = IF x = d THEN [h[d] EXCEPT !.index = r] ELSE h[x]
    <3>1. h \in [Node -> NodeType] /\ h[d] \in NodeType
      BY <1>1 DEF Heap
    <3>2. [h[d] EXCEPT !.index = r] \in NodeType
      BY <2>3, <3>1 DEF NodeType
    <3> QED
      BY <3>1, <3>2 DEF Heap
  <2>5. /\ g[d].index = r /\ g[d].kids = h[d].kids /\ g[d].spare = h[d].spare
        /\ \A x \in Node : x # d => g[x] = h[x]
    <3>1. h[d] \in NodeType
      BY <1>1, NodeFields
    <3> QED
      BY <2>4, <3>1 DEF NodeType
  <2>6. SameTree(h, g)
    BY <1>1, <2>4, NodeFields DEF NodeType, SameTree
  <2> HIDE DEF g
  <2>7. ASSUME NEW x \in Node PROVE IndexTrue(g, x)
    <3>1. g[x].kids = h[x].kids /\ g[x].spare = h[x].spare
      BY <2>5
    <3>2. \A k \in DOMAIN h[x].kids : g[h[x].kids[k]].name = h[h[x].kids[k]].name
      BY <1>1, <2>6, NodeFields DEF SameTree
    <3>3. Len(h[x].kids) \in Nat /\ DOMAIN h[x].kids = 1 .. Len(h[x].kids)
      BY <1>1, NodeFields
    <3>4. CASE x = d
      <4> SUFFICES ASSUME r.built PROVE TrueOf(g, r, h[d].kids)
        BY <2>3, <2>5, <3>1, <3>3, <3>4 DEF IndexTrue
      <4>1. r.len = Len(h[d].kids)
        BY <2>3
      <4>2. ASSUME NEW n \in Name, NEW k \in 1 .. r.len, g[h[d].kids[k]].name = n
            PROVE  r.byName[n] = h[d].kids[k]
        BY <1>1, <2>2, <2>3, <3>2, <3>4, <4>1, <4>2, KidIs
      <4>3. ASSUME NEW n \in Name, \A k \in 1 .. r.len : g[h[d].kids[k]].name # n
            PROVE  r.byName[n] = None
        BY <2>2, <2>3, <3>2, <3>4, <4>1, <4>3, NoKid
      <4> QED
        BY <4>2, <4>3 DEF TrueOf
    <3>5. CASE x # d
      <4>1. IndexTrue(h, x) /\ g[x].index = h[x].index /\ h[x].index.len \in Nat
        BY <1>1, <2>5, <3>5, NodeFields
      <4> QED
        BY <3>1, <3>2, <3>3, <4>1 DEF IndexTrue, TrueOf
    <3> QED
      BY <3>4, <3>5
  <2>8. Forest(g)
    BY <2>4, <2>6, <2>7, SameForest
  <2> QED
    BY <2>1, <2>3, <2>5, <2>6, <2>8 DEF Child
<1> QED
  BY <1>2, <1>3

\* The heap with another slice and index at d.
Sliced(h, d, kids, spare, index) ==
  [x \in Node |->
     IF x = d THEN [kind |-> h[d].kind, name |-> h[d].name, hash |-> h[d].hash,
                    kids |-> kids, spare |-> spare, index |-> index]
     ELSE h[x]]

LEMMA SlicedIs ==
  ASSUME NEW h \in Heap, NEW d \in Node,
         NEW kids \in Seq(Node), NEW spare \in Nat, NEW index \in IndexType, NEW g,
         g = Sliced(h, d, kids, spare, index)
  PROVE  /\ g \in Heap
         /\ g[d].kids = kids /\ g[d].spare = spare /\ g[d].index = index
         /\ \A x \in Node : x # d => g[x] = h[x]
         /\ \A x \in Node : g[x].kind = h[x].kind /\ g[x].name = h[x].name /\ g[x].hash = h[x].hash
<1> DEFINE r == [kind |-> h[d].kind, name |-> h[d].name, hash |-> h[d].hash,
                 kids |-> kids, spare |-> spare, index |-> index]
<1>1. r \in NodeType /\ r.kids = kids /\ r.spare = spare /\ r.index = index
      /\ r.kind = h[d].kind /\ r.name = h[d].name /\ r.hash = h[d].hash
  <2>1. h[d].kind \in {"dir", "file", "unused"} /\ h[d].name \in Name
        /\ h[d].hash \in Hash \cup {NoHash}
    BY NodeFields
  <2> QED
    BY <2>1 DEF NodeType
<1>2. g = [x \in Node |-> IF x = d THEN r ELSE h[x]]
  BY DEF Sliced
<1> HIDE DEF r
<1>3. \A x \in Node : h[x] \in NodeType
  BY DEF Heap
<1>4. g \in Heap
  BY <1>1, <1>2, <1>3 DEF Heap
<1> QED
  BY <1>1, <1>2, <1>4

\* The index of an entry that the change of another one leaves alone.
LEMMA SameIndex ==
  ASSUME NEW h, Forest(h), NEW g, NEW x \in Node, g[x] = h[x],
         \A k \in DOMAIN h[x].kids : g[h[x].kids[k]].name = h[h[x].kids[k]].name
  PROVE  IndexTrue(g, x)
<1>1. IndexTrue(h, x) /\ h[x].index.len \in Nat /\ Len(h[x].kids) \in Nat
      /\ DOMAIN h[x].kids = 1 .. Len(h[x].kids)
  BY NodeFields DEF Forest
<1>2. ASSUME h[x].index.len <= Len(h[x].kids), TrueOf(h, h[x].index, h[x].kids)
      PROVE  TrueOf(g, h[x].index, h[x].kids)
  <2>1. \A k \in 1 .. h[x].index.len : k \in DOMAIN h[x].kids
    BY <1>1, <1>2
  <2> QED
    BY <1>2, <2>1 DEF TrueOf
<1> QED
  BY <1>1, <1>2 DEF IndexTrue

NoParent(h, c) == \A e \in Node : \A k \in DOMAIN h[e].kids : h[e].kids[k] # c

\* An entry appended to the children of a directory without one of its name.
LEMMA AppendIs ==
  ASSUME NEW h, Forest(h), NEW d \in Node, h[d].kind = "dir",
         NEW c \in Node, c # Root, h[c].kind # "unused", NoParent(h, c),
         findChildFold(h, d, h[c].name) = None,
         NEW g, g = AppendChild(h, d, c)
  PROVE  /\ Forest(g)
         /\ \A x \in Node : g[x].kind = h[x].kind /\ g[x].name = h[x].name /\ g[x].hash = h[x].hash
         /\ g[d].kids = Append(h[d].kids, c)
         /\ \A x \in Node : x # d => g[x].kids = h[x].kids
         /\ findChildFold(g, d, h[c].name) = c
         /\ \A x \in Node, n \in Name :
              x # d \/ n # h[c].name => findChildFold(g, x, n) = findChildFold(h, x, n)
<1> DEFINE len == Len(h[d].kids)
           kids == Append(h[d].kids, c)
           spare == IF h[d].spare > 0 THEN h[d].spare - 1 ELSE IF len = 0 THEN 0 ELSE len - 1
           index == IF h[d].spare > 0 THEN h[d].index ELSE NoIndex
<1>1. h \in Heap /\ InOnePlace(h) /\ OnlyInDirectories(h) /\ NamesDiffer(h)
      /\ \A x \in Node : IndexTrue(h, x)
  BY DEF Forest
<1>2. h[d] \in NodeType /\ len \in Nat /\ h[d].kids \in Seq(Node) /\ h[d].spare \in Nat
      /\ h[d].index \in IndexType /\ h[d].index.len \in Nat
  BY <1>1, NodeFields
<1>3. g = Sliced(h, d, kids, spare, index)
  <2>1. CASE h[d].spare > 0
    <3>1. g = [h EXCEPT ![d].kids = Append(@, c), ![d].spare = @ - 1]
      BY <2>1 DEF AppendChild
    <3> QED
      BY <1>1, <1>2, <2>1, <3>1 DEF Sliced, Heap, NodeType
  <2>2. CASE ~(h[d].spare > 0)
    <3>1. g = [h EXCEPT ![d].kids = Append(@, c), ![d].index = NoIndex,
                        ![d].spare = IF len = 0 THEN 0 ELSE len - 1]
      BY <2>2 DEF AppendChild
    <3> QED
      BY <1>1, <1>2, <2>2, <3>1 DEF Sliced, Heap, NodeType
  <2> QED
    BY <2>1, <2>2
<1>4. NoIndex \in IndexType /\ ~NoIndex.built
  BY DEF NoIndex, IndexType
<1>5. /\ kids \in Seq(Node) /\ spare \in Nat /\ index \in IndexType
      /\ DOMAIN kids = 1 .. len + 1 /\ Len(kids) = len + 1 /\ kids[len + 1] = c
      /\ \A k \in 1 .. len : kids[k] = h[d].kids[k]
      /\ DOMAIN h[d].kids = 1 .. len
  BY <1>2, <1>4
<1> HIDE DEF kids, spare, len
<1>6. /\ g \in Heap
      /\ g[d].kids = kids /\ g[d].spare = spare /\ g[d].index = index
      /\ \A x \in Node : x # d => g[x] = h[x]
      /\ \A x \in Node : g[x].kind = h[x].kind /\ g[x].name = h[x].name /\ g[x].hash = h[x].hash
  <2> HIDE DEF index
  <2> QED
    BY <1>1, <1>3, <1>5, SlicedIs
<1>7. ASSUME NEW x \in Node, NEW k \in DOMAIN g[x].kids
      PROVE  /\ g[x].kids[k] \in Node
             /\ g[g[x].kids[k]].name = h[g[x].kids[k]].name /\ g[g[x].kids[k]].kind = h[g[x].kids[k]].kind
             /\ \/ x = d /\ k = len + 1 /\ g[x].kids[k] = c
                \/ k \in DOMAIN h[x].kids /\ g[x].kids[k] = h[x].kids[k] /\ g[x].kids[k] # c
  <2>1. g[x].kids[k] \in Node
    BY <1>6, NodeFields
  <2>2. \/ x = d /\ k = len + 1 /\ g[x].kids[k] = c
        \/ k \in DOMAIN h[x].kids /\ g[x].kids[k] = h[x].kids[k]
    BY <1>2, <1>5, <1>6
  <2> QED
    BY <1>6, <2>1, <2>2 DEF NoParent
<1>8. ASSUME NEW n, NEW k \in DOMAIN h[d].kids, h[h[d].kids[k]].name = h[c].name PROVE FALSE
  BY <1>1, <1>8, KidIs, Numbers, NodeFields
<1>9. InOnePlace(g)
  <2>1. \A x \in Node : \A k \in DOMAIN g[x].kids :
          g[x].kids[k] # Root /\ g[g[x].kids[k]].kind # "unused"
    BY <1>1, <1>7 DEF InOnePlace
  <2>2. ASSUME NEW x \in Node, NEW y \in Node, NEW j \in DOMAIN g[x].kids, NEW k \in DOMAIN g[y].kids,
               g[x].kids[j] = g[y].kids[k]
        PROVE  x = y /\ j = k
    BY <1>1, <1>7, <2>2 DEF InOnePlace
  <2> QED
    BY <2>1, <2>2 DEF InOnePlace
<1>10. OnlyInDirectories(g)
  BY <1>1, <1>6, Numbers DEF OnlyInDirectories
<1>11. NamesDiffer(g)
  <2> SUFFICES ASSUME NEW x \in Node, NEW j \in DOMAIN g[x].kids, NEW k \in DOMAIN g[x].kids,
                      g[g[x].kids[j]].name = g[g[x].kids[k]].name
               PROVE  j = k
    BY DEF NamesDiffer
  <2> QED
    BY <1>1, <1>7, <1>8 DEF NamesDiffer
<1>12. ASSUME NEW x \in Node PROVE IndexTrue(g, x)
  <2>1. CASE x # d
    <3>1. g[x] = h[x]
      BY <1>6, <2>1
    <3> QED
      BY <1>6, <1>7, <3>1, SameIndex
  <2>2. CASE x = d /\ h[d].spare > 0
    <3> SUFFICES ASSUME h[d].index.built
                 PROVE  h[d].index.len <= len + 1 /\ TrueOf(g, h[d].index, kids)
      BY <1>2, <1>5, <1>6, <2>2 DEF IndexTrue
    <3>1. h[d].index.len <= len /\ TrueOf(h, h[d].index, h[d].kids)
      BY <1>1, <1>2, <2>2 DEF IndexTrue, len
    <3>2. ASSUME NEW k \in 1 .. h[d].index.len
          PROVE  kids[k] = h[d].kids[k] /\ g[kids[k]].name = h[h[d].kids[k]].name
      <4>1. k \in 1 .. len /\ k \in 1 .. len + 1
        BY <1>2, <3>1
      <4> QED
        BY <1>5, <1>6, <1>7, <4>1
    <3> QED
      BY <1>2, <3>1, <3>2 DEF TrueOf
  <2>3. CASE x = d /\ ~(h[d].spare > 0)
    BY <1>4, <1>6, <2>3 DEF IndexTrue
  <2> QED
    BY <2>1, <2>2, <2>3
<1>13. Forest(g)
  BY <1>6, <1>9, <1>10, <1>11, <1>12 DEF Forest
<1>14. findChildFold(g, d, h[c].name) = c
  <2>1. len + 1 \in DOMAIN g[d].kids /\ g[d].kids[len + 1] = c
    BY <1>2, <1>5, <1>6
  <2> QED
    BY <1>6, <1>11, <2>1, KidIs
<1>15. ASSUME NEW x \in Node, NEW n \in Name, x # d \/ n # h[c].name
       PROVE  findChildFold(g, x, n) = findChildFold(h, x, n)
  <2>1. ASSUME NEW k \in DOMAIN h[x].kids
        PROVE  k \in DOMAIN g[x].kids /\ g[x].kids[k] = h[x].kids[k]
               /\ g[g[x].kids[k]].name = h[h[x].kids[k]].name
    <3>1. k \in DOMAIN g[x].kids /\ g[x].kids[k] = h[x].kids[k]
      <4>1. CASE x = d
        <5>1. k \in 1 .. len
          BY <1>5, <4>1
        <5>2. k \in 1 .. len + 1
          BY <1>2, <5>1
        <5>3. k \in DOMAIN kids /\ kids[k] = h[d].kids[k]
          BY <1>5, <5>1, <5>2
        <5> QED
          BY <1>6, <4>1, <5>3
      <4>2. CASE x # d
        BY <1>6, <4>2
      <4> QED
        BY <4>1, <4>2
    <3> QED
      BY <1>7, <3>1
  <2>2. CASE \E k \in DOMAIN h[x].kids : h[h[x].kids[k]].name = n
    BY <1>1, <1>6, <1>11, <2>1, <2>2, KidIs
  <2>3. CASE \A k \in DOMAIN h[x].kids : h[h[x].kids[k]].name # n
    <3>1. \A k \in DOMAIN g[x].kids : g[g[x].kids[k]].name # n
      BY <1>7, <1>15, <2>3
    <3> QED
      BY <2>3, <3>1, NoKid
  <2> QED
    BY <2>2, <2>3
<1> QED
  BY <1>6, <1>13, <1>14, <1>15 DEF kids

\* What is before and what is after place i of s.
AroundAt(s, i, a, b) ==
  /\ Len(a) = i - 1 /\ \A k \in 1 .. i - 1 : a[k] = s[k]
  /\ Len(b) = Len(s) - i /\ \A k \in 1 .. Len(s) - i : b[k] = s[k + i]

LEMMA Around ==
  ASSUME NEW s \in Seq(Node), NEW i \in 1 .. Len(s), NEW a \in Seq(Node), NEW b \in Seq(Node),
         AroundAt(s, i, a, b)
  PROVE  /\ a \o b \in Seq(Node) /\ Len(a \o b) = Len(s) - 1 /\ DOMAIN (a \o b) = 1 .. Len(s) - 1
         /\ \A k \in 1 .. Len(s) - 1 : (a \o b)[k] = s[IF k < i THEN k ELSE k + 1]
<1>1. Len(s) \in Nat /\ i \in Nat /\ 1 <= i /\ i <= Len(s)
  OBVIOUS
<1>2. Len(a) = i - 1 /\ Len(b) = Len(s) - i
  BY DEF AroundAt
<1>3. \A k \in 1 .. i - 1 : a[k] = s[k]
  BY DEF AroundAt
<1>4. \A k \in 1 .. Len(s) - i : b[k] = s[k + i]
  BY DEF AroundAt
<1>5. /\ a \o b \in Seq(Node) /\ Len(a \o b) = Len(a) + Len(b)
      /\ \A k \in 1 .. Len(a) + Len(b) : (a \o b)[k] = IF k <= Len(a) THEN a[k] ELSE b[k - Len(a)]
  BY ConcatProperties
<1> DEFINE t == a \o b
<1>6. /\ t \in Seq(Node) /\ Len(t) = Len(s) - 1
      /\ \A k \in 1 .. Len(s) - 1 : t[k] = IF k <= i - 1 THEN a[k] ELSE b[k - (i - 1)]
  <2>1. Len(a) + Len(b) = Len(s) - 1
    BY <1>1, <1>2
  <2> QED
    BY <1>5, <1>2, <2>1
<1> HIDE DEF t
<1>7. ASSUME NEW k \in 1 .. Len(s) - 1 PROVE t[k] = s[IF k < i THEN k ELSE k + 1]
  <2>1. CASE k < i
    <3>1. k \in 1 .. i - 1 /\ k <= i - 1
      BY <1>1, <2>1
    <3> QED
      BY <1>6, <1>3, <2>1, <3>1
  <2>2. CASE ~(k < i)
    <3>1. k - (i - 1) \in 1 .. Len(s) - i /\ (k - (i - 1)) + i = k + 1 /\ ~(k <= i - 1)
      BY <1>1, <2>2
    <3> QED
      BY <1>6, <1>4, <2>2, <3>1
  <2> QED
    BY <2>1, <2>2
<1>8. DOMAIN t = 1 .. Len(s) - 1
  BY <1>6
<1> QED
  BY <1>6, <1>7, <1>8 DEF t

LEMMA Without ==
  ASSUME NEW s \in Seq(Node), NEW i \in 1 .. Len(s)
  PROVE  LET t == SubSeq(s, 1, i - 1) \o SubSeq(s, i + 1, Len(s))
         IN  /\ t \in Seq(Node) /\ Len(t) = Len(s) - 1 /\ DOMAIN t = 1 .. Len(s) - 1
             /\ \A k \in 1 .. Len(s) - 1 : t[k] = s[IF k < i THEN k ELSE k + 1]
<1> DEFINE a == SubSeq(s, 1, i - 1)
           b == SubSeq(s, i + 1, Len(s))
<1>1. Len(s) \in Nat /\ i \in Nat /\ 1 <= i /\ i <= Len(s)
  OBVIOUS
<1>2. a \in Seq(Node) /\ Len(a) = i - 1 /\ \A k \in 1 .. i - 1 : a[k] = s[k]
  BY <1>1
<1>3. b \in Seq(Node) /\ Len(b) = Len(s) - i /\ \A k \in 1 .. Len(s) - i : b[k] = s[k + i]
  BY <1>1
<1> HIDE DEF a, b
<1>4. /\ a \o b \in Seq(Node) /\ Len(a \o b) = Len(s) - 1 /\ DOMAIN (a \o b) = 1 .. Len(s) - 1
      /\ \A k \in 1 .. Len(s) - 1 : (a \o b)[k] = s[IF k < i THEN k ELSE k + 1]
  <2>1. a \in Seq(Node) /\ b \in Seq(Node) /\ AroundAt(s, i, a, b)
    BY <1>2, <1>3 DEF AroundAt
  <2> QED
    BY <2>1, Around
<1> QED
  BY <1>4 DEF a, b

\* A child cut off.
LEMMA CutIs ==
  ASSUME NEW h, Forest(h), NEW d \in Node, NEW i \in DOMAIN h[d].kids,
         NEW c, c = h[d].kids[i], NEW g, g = CutChild(h, d, i)
  PROVE  /\ Forest(g) /\ NoParent(g, c)
         /\ \A x \in Node : g[x].kind = h[x].kind /\ g[x].name = h[x].name /\ g[x].hash = h[x].hash
         /\ \A x \in Node : x # d => g[x].kids = h[x].kids
         /\ findChildFold(g, d, h[c].name) = None
         /\ \A x \in Node, n \in Name :
              x # d \/ n # h[c].name => findChildFold(g, x, n) = findChildFold(h, x, n)
<1> DEFINE len == Len(h[d].kids)
           kept == SubSeq(h[d].kids, 1, i - 1) \o SubSeq(h[d].kids, i + 1, len)
           cap == IF len - 1 > 2 * (i - 1) THEN len - 1 ELSE 2 * (i - 1)
           spare == IF i = len THEN 0 ELSE cap - (len - 1)
           index == IF i = len THEN h[d].index ELSE NoIndex
           old(k) == IF k < i THEN k ELSE k + 1
<1>1. h \in Heap /\ InOnePlace(h) /\ OnlyInDirectories(h) /\ NamesDiffer(h)
      /\ \A x \in Node : IndexTrue(h, x)
  BY DEF Forest
<1>2. /\ h[d] \in NodeType /\ len \in Nat /\ h[d].kids \in Seq(Node) /\ h[d].spare \in Nat
      /\ h[d].index \in IndexType /\ h[d].index.len \in Nat
      /\ DOMAIN h[d].kids = 1 .. len /\ i \in Nat /\ 1 <= i /\ i <= len
      /\ c \in Node
  BY <1>1, NodeFields
<1>3. g = Sliced(h, d, kept, spare, index)
  <2>1. CASE i = len
    <3>1. g = [h EXCEPT ![d].kids = kept, ![d].spare = 0]
      BY <2>1 DEF CutChild
    <3> HIDE DEF kept
    <3> QED
      BY <1>1, <1>2, <2>1, <3>1 DEF Sliced, Heap, NodeType
  <2>2. CASE i # len
    <3>1. g = [h EXCEPT ![d].kids = kept, ![d].spare = cap - (len - 1), ![d].index = NoIndex]
      BY <2>2 DEF CutChild
    <3> HIDE DEF kept
    <3> QED
      BY <1>1, <1>2, <2>2, <3>1 DEF Sliced, Heap, NodeType
  <2> QED
    BY <2>1, <2>2
<1>4. NoIndex \in IndexType /\ ~NoIndex.built
  BY DEF NoIndex, IndexType
<1>5. /\ kept \in Seq(Node) /\ Len(kept) = len - 1 /\ DOMAIN kept = 1 .. len - 1
      /\ \A k \in 1 .. len - 1 : kept[k] = h[d].kids[old(k)]
  <2> DEFINE s == h[d].kids
  <2>1. s \in Seq(Node) /\ i \in 1 .. Len(s) /\ kept = SubSeq(s, 1, i - 1) \o SubSeq(s, i + 1, Len(s))
    BY <1>2
  <2> HIDE DEF kept, s
  <2>2. /\ kept \in Seq(Node) /\ Len(kept) = Len(s) - 1 /\ DOMAIN kept = 1 .. Len(s) - 1
        /\ \A k \in 1 .. Len(s) - 1 : kept[k] = s[IF k < i THEN k ELSE k + 1]
    BY <2>1, Without
  <2> QED
    BY <2>2 DEF s
<1> HIDE DEF kept
<1>6. spare \in Nat /\ index \in IndexType
  BY <1>2, <1>4
<1>7. /\ g \in Heap
      /\ g[d].kids = kept /\ g[d].spare = spare /\ g[d].index = index
      /\ \A x \in Node : x # d => g[x] = h[x]
      /\ \A x \in Node : g[x].kind = h[x].kind /\ g[x].name = h[x].name /\ g[x].hash = h[x].hash
  <2> HIDE DEF index, spare
  <2> QED
    BY <1>1, <1>3, <1>5, <1>6, SlicedIs
<1>8. ASSUME NEW k \in 1 .. len - 1
      PROVE  old(k) \in 1 .. len /\ old(k) # i
  BY <1>2
<1>9. ASSUME NEW j \in 1 .. len - 1, NEW k \in 1 .. len - 1, old(j) = old(k) PROVE j = k
  BY <1>2, <1>9
\* Where a child was before.
<1> DEFINE Old(x, k) == IF x = d THEN old(k) ELSE k
<1>10. ASSUME NEW x \in Node, NEW k \in DOMAIN g[x].kids
       PROVE  /\ g[x].kids[k] \in Node
              /\ g[g[x].kids[k]].name = h[g[x].kids[k]].name
              /\ g[g[x].kids[k]].kind = h[g[x].kids[k]].kind
              /\ Old(x, k) \in DOMAIN h[x].kids /\ g[x].kids[k] = h[x].kids[Old(x, k)]
              /\ x = d => k \in 1 .. len - 1 /\ Old(x, k) # i
  <2>1. g[x].kids[k] \in Node
    BY <1>7, NodeFields
  <2>2. CASE x = d
    <3>1. k \in 1 .. len - 1
      BY <1>5, <1>7, <2>2
    <3>2. old(k) \in DOMAIN h[d].kids /\ old(k) # i /\ g[d].kids[k] = h[d].kids[old(k)]
      BY <1>2, <1>5, <1>7, <1>8, <3>1
    <3> HIDE DEF old
    <3> QED
      BY <1>7, <2>1, <2>2, <3>1, <3>2
  <2>3. CASE x # d
    BY <1>7, <2>1, <2>3
  <2> QED
    BY <2>2, <2>3
<1>11. ASSUME NEW x \in Node, NEW j \in DOMAIN g[x].kids, NEW k \in DOMAIN g[x].kids,
              Old(x, j) = Old(x, k)
       PROVE  j = k
  <2>1. CASE x = d
    BY <1>9, <1>10, <1>11, <2>1
  <2> QED
    BY <1>11, <2>1
<1> HIDE DEF Old
<1>12. InOnePlace(g)
  <2>1. ASSUME NEW x \in Node, NEW k \in DOMAIN g[x].kids
        PROVE  g[x].kids[k] # Root /\ g[g[x].kids[k]].kind # "unused"
    BY <1>1, <1>10 DEF InOnePlace
  <2>2. ASSUME NEW x \in Node, NEW y \in Node, NEW j \in DOMAIN g[x].kids, NEW k \in DOMAIN g[y].kids,
               g[x].kids[j] = g[y].kids[k]
        PROVE  x = y /\ j = k
    <3>1. x = y /\ Old(x, j) = Old(y, k)
      BY <1>1, <1>10, <2>2 DEF InOnePlace
    <3> QED
      BY <1>11, <3>1
  <2> QED
    BY <2>1, <2>2 DEF InOnePlace
<1>13. OnlyInDirectories(g)
  <2>1. \A x \in Node : h[x].kids = <<>> => g[x].kids = <<>>
    <3>1. h[d].kids # <<>>
      BY <1>2
    <3> QED
      BY <1>7, <3>1
  <2> QED
    BY <1>1, <1>7, <2>1, Numbers DEF OnlyInDirectories
<1>14. NamesDiffer(g)
  <2> SUFFICES ASSUME NEW x \in Node, NEW j \in DOMAIN g[x].kids, NEW k \in DOMAIN g[x].kids,
                      g[g[x].kids[j]].name = g[g[x].kids[k]].name
               PROVE  j = k
    BY DEF NamesDiffer
  <2>1. Old(x, j) = Old(x, k)
    BY <1>1, <1>10 DEF NamesDiffer
  <2> QED
    BY <1>11, <2>1
<1>15. ASSUME NEW x \in Node PROVE IndexTrue(g, x)
  <2>1. CASE x # d
    <3>1. g[x] = h[x]
      BY <1>7, <2>1
    <3> QED
      BY <1>7, <1>10, <3>1, SameIndex
  <2>2. CASE x = d /\ i = len
    <3> SUFFICES ASSUME h[d].index.built, h[d].index.len <= len - 1
                 PROVE  TrueOf(g, h[d].index, kept)
      BY <1>2, <1>5, <1>7, <2>2 DEF IndexTrue
    <3>1. TrueOf(h, h[d].index, h[d].kids)
      BY <1>1, <1>2, <2>2 DEF IndexTrue, len
    <3>2. ASSUME NEW k \in 1 .. h[d].index.len
          PROVE  kept[k] = h[d].kids[k] /\ g[kept[k]].name = h[h[d].kids[k]].name
      <4>1. k \in 1 .. len - 1 /\ k < i
        BY <1>2, <2>2
      <4>2. kept[k] = h[d].kids[k]
        BY <1>5, <4>1
      <4>3. k \in DOMAIN g[d].kids /\ g[d].kids[k] = kept[k]
        BY <1>5, <1>7, <4>1
      <4> QED
        BY <1>10, <4>2, <4>3
    <3> DEFINE r == h[d].index
               was == h[d].kids
    <3>3. \A k \in 1 .. r.len : kept[k] = was[k] /\ g[kept[k]].name = h[was[k]].name
      BY <3>2
    <3> HIDE DEF r, was
    <3> QED
      BY <3>1, <3>3 DEF TrueOf, r, was
  <2>3. CASE x = d /\ i # len
    BY <1>4, <1>7, <2>3 DEF IndexTrue
  <2> QED
    BY <2>1, <2>2, <2>3
<1>16. Forest(g)
  BY <1>7, <1>12, <1>13, <1>14, <1>15 DEF Forest
<1>17. NoParent(g, c)
  <2> SUFFICES ASSUME NEW e \in Node, NEW k \in DOMAIN g[e].kids, g[e].kids[k] = c PROVE FALSE
    BY DEF NoParent
  <2>1. h[e].kids[Old(e, k)] = h[d].kids[i] /\ Old(e, k) \in DOMAIN h[e].kids
    BY <1>10
  <2>2. e = d /\ Old(e, k) = i
    BY <1>1, <2>1 DEF InOnePlace
  <2> QED
    BY <1>10, <2>2
<1>18. findChildFold(g, d, h[c].name) = None
  <2>1. ASSUME NEW k \in DOMAIN g[d].kids, g[g[d].kids[k]].name = h[c].name PROVE FALSE
    <3>1. Old(d, k) = i
      BY <1>1, <1>10, <2>1 DEF NamesDiffer
    <3> QED
      BY <1>10, <3>1
  <2> QED
    BY <2>1, NoKid
<1>19. ASSUME NEW x \in Node, NEW n \in Name, x # d \/ n # h[c].name
       PROVE  findChildFold(g, x, n) = findChildFold(h, x, n)
  <2>1. CASE \E k \in DOMAIN g[x].kids : g[g[x].kids[k]].name = n
    <3>1. PICK k \in DOMAIN g[x].kids : g[g[x].kids[k]].name = n
      BY <2>1
    <3>2. findChildFold(g, x, n) = g[x].kids[k]
      BY <1>7, <1>14, <3>1, KidIs
    <3>3. findChildFold(h, x, n) = h[x].kids[Old(x, k)]
      BY <1>1, <1>10, <3>1, KidIs
    <3> QED
      BY <1>10, <3>2, <3>3
  <2>2. CASE \A k \in DOMAIN g[x].kids : g[g[x].kids[k]].name # n
    <3>1. ASSUME NEW k \in DOMAIN h[x].kids, h[h[x].kids[k]].name = n PROVE FALSE
      <4>1. CASE x # d
        <5>1. g[x] = h[x]
          BY <1>7, <4>1
        <5> QED
          BY <1>10, <2>2, <3>1, <5>1
      <4>2. CASE x = d
        <5> DEFINE j == IF k < i THEN k ELSE k - 1
        <5>1. k # i /\ k \in 1 .. len
          BY <1>2, <1>19, <3>1, <4>2
        <5>2. j \in 1 .. len - 1 /\ old(j) = k
          BY <1>2, <5>1
        <5>3. j \in DOMAIN g[d].kids /\ g[d].kids[j] = h[d].kids[k]
          BY <1>5, <1>7, <5>2
        <5> HIDE DEF j
        <5> QED
          BY <1>10, <2>2, <3>1, <4>2, <5>3
      <4> QED
        BY <4>1, <4>2
    <3> QED
      BY <2>2, <3>1, NoKid
  <2> QED
    BY <2>1, <2>2
<1> QED
  BY <1>7, <1>16, <1>17, <1>18, <1>19

Labelled(h, x, r) == [h EXCEPT ![x] = r]

\* Another label for an entry: one that comes into use, one with another hash, and
\* one with another name, which is in no place then.
LEMMA LabelIs ==
  ASSUME NEW h, Forest(h), NEW x \in Node, NEW r \in NodeType, r.kids = h[x].kids,
         r.kind # "unused", r.kind = "dir" \/ (r.kids = <<>> /\ x # Root),
         r.name = h[x].name \/ NoParent(h, x),
         ~r.index.built \/ (r.index = h[x].index /\ r.spare = h[x].spare),
         NEW g, g = Labelled(h, x, r)
  PROVE  /\ Forest(g) /\ g[x] = r
         /\ \A y \in Node : y # x => g[y] = h[y]
         /\ \A y \in Node : g[y].kids = h[y].kids
         /\ \A y \in Node : NoParent(h, y) => NoParent(g, y)
         /\ \A y \in Node, n \in Name : findChildFold(g, y, n) = findChildFold(h, y, n)
<1>1. h \in Heap /\ InOnePlace(h) /\ OnlyInDirectories(h) /\ NamesDiffer(h)
      /\ \A y \in Node : IndexTrue(h, y)
  BY DEF Forest
<1>2. g \in Heap /\ g[x] = r /\ \A y \in Node : y # x => g[y] = h[y]
  BY <1>1 DEF Heap, Labelled
<1>3. \A y \in Node : g[y].kids = h[y].kids
  BY <1>2
<1>4. ASSUME NEW y \in Node, NEW k \in DOMAIN h[y].kids
      PROVE  /\ h[y].kids[k] \in Node
             /\ g[h[y].kids[k]].name = h[h[y].kids[k]].name
             /\ g[h[y].kids[k]].kind # "unused"
  <2>1. h[y].kids[k] \in Node
    BY <1>1, NodeFields
  <2>2. h[y].kids[k] = x => r.name = h[x].name
    BY DEF NoParent
  <2>3. h[h[y].kids[k]].kind # "unused"
    BY <1>1 DEF InOnePlace
  <2> QED
    BY <1>2, <2>1, <2>2, <2>3
<1>5. InOnePlace(g)
  BY <1>1, <1>3, <1>4 DEF InOnePlace
<1>6. OnlyInDirectories(g)
  BY <1>1, <1>2, Numbers DEF OnlyInDirectories
<1>7. NamesDiffer(g)
  BY <1>1, <1>3, <1>4 DEF NamesDiffer
<1>8. ASSUME NEW y \in Node PROVE IndexTrue(g, y)
  <2>1. CASE y # x
    BY <1>2, <1>4, <2>1, SameIndex
  <2>2. CASE y = x /\ ~r.index.built
    BY <1>2, <2>2 DEF IndexTrue
  <2>3. CASE y = x /\ r.index = h[x].index /\ r.spare = h[x].spare
    <3>1. IndexTrue(h, x) /\ h[x].index.len \in Nat /\ Len(h[x].kids) \in Nat
          /\ DOMAIN h[x].kids = 1 .. Len(h[x].kids)
      BY <1>1, NodeFields
    <3>2. ASSUME h[x].index.len <= Len(h[x].kids), TrueOf(h, h[x].index, h[x].kids)
          PROVE  TrueOf(g, h[x].index, h[x].kids)
      <4>1. \A k \in 1 .. h[x].index.len : k \in DOMAIN h[x].kids
        BY <3>1, <3>2
      <4> QED
        BY <1>4, <3>2, <4>1 DEF TrueOf
    <3> QED
      BY <1>2, <2>3, <3>1, <3>2 DEF IndexTrue
  <2> QED
    BY <2>1, <2>2, <2>3
<1>9. \A y \in Node : NoParent(h, y) => NoParent(g, y)
  BY <1>3 DEF NoParent
<1>10. ASSUME NEW y \in Node, NEW n \in Name PROVE findChildFold(g, y, n) = findChildFold(h, y, n)
  <2>1. g[y].kids = h[y].kids
        /\ \A k \in DOMAIN h[y].kids : g[h[y].kids[k]].name = h[h[y].kids[k]].name
    BY <1>3, <1>4
  <2> QED
    BY <2>1, SameKidsAt
<1> QED
  BY <1>2, <1>3, <1>5, <1>6, <1>7, <1>8, <1>9, <1>10 DEF Forest

\* A node that comes into use.
LEMMA FreshIs ==
  ASSUME NEW h, Forest(h), NEW x \in Node, h[x].kind = "unused",
         NEW kind \in {"dir", "file"}, NEW name \in Name, NEW hash \in Hash \cup {NoHash},
         NEW g, g = Labelled(h, x, Fresh(kind, name, hash))
  PROVE  /\ Forest(g) /\ x # Root /\ NoParent(g, x)
         /\ g[x].kind = kind /\ g[x].name = name /\ g[x].hash = hash /\ g[x].kids = <<>>
         /\ \A y \in Node : y # x => g[y] = h[y]
         /\ \A y \in Node, n \in Name : findChildFold(g, y, n) = findChildFold(h, y, n)
         /\ \A n \in Name : findChildFold(g, x, n) = None
<1> DEFINE r == Fresh(kind, name, hash)
<1>1. /\ r \in NodeType /\ r.kind = kind /\ r.name = name /\ r.hash = hash /\ r.kids = <<>>
      /\ ~r.index.built
  BY DEF Fresh, NodeType, NoIndex, IndexType
<1>2. h[x].kids = <<>> /\ x # Root
  BY DEF Forest, OnlyInDirectories
<1>3. NoParent(h, x)
  BY DEF Forest, InOnePlace, NoParent
<1> HIDE DEF r
<1>4. /\ g = Labelled(h, x, r)
      /\ r.kids = h[x].kids /\ r.kind # "unused"
      /\ r.kind = "dir" \/ (r.kids = <<>> /\ x # Root)
      /\ r.name = h[x].name \/ NoParent(h, x)
      /\ ~r.index.built \/ (r.index = h[x].index /\ r.spare = h[x].spare)
  BY <1>1, <1>2, <1>3 DEF r
<1>5. /\ Forest(g) /\ g[x] = r /\ NoParent(g, x)
      /\ \A y \in Node : y # x => g[y] = h[y]
      /\ \A y \in Node, n \in Name : findChildFold(g, y, n) = findChildFold(h, y, n)
  BY <1>1, <1>3, <1>4, LabelIs
<1>6. \A n \in Name : findChildFold(g, x, n) = None
  <2>1. DOMAIN g[x].kids = {}
    BY <1>1, <1>5
  <2> QED
    BY <2>1, NoKid
<1> QED
  BY <1>1, <1>2, <1>5, <1>6
-----------------------------------------------------------------------------
(* The paths of a heap.                                                    *)

\* The entry at a path with one more name is a child of the one at the path.
LEMMA FindIs ==
  ASSUME NEW h, Forest(h), NEW p \in Path
  PROVE  /\ Find(h, p) \in Node \cup {None} /\ Find(h, <<>>) = Root
         /\ Find(h, p) # None => Find(h, p) \in Node
         /\ \A n \in Name : Find(h, Append(p, n)) =
              IF Find(h, p) = None THEN None ELSE findChildFold(h, Find(h, p), n)
<1>1. \A q \in Path : /\ Find(h, <<>>) = Root
                      /\ \A n \in Name : Find(h, Append(q, n)) =
                           IF Find(h, q) = None THEN None ELSE findChildFold(h, Find(h, q), n)
  BY FindSteps
<1> DEFINE S == {q \in Path : Find(h, q) \in Node \cup {None}}
<1>2. <<>> \in S
  BY <1>1, EmptyPath, Numbers
<1>3. ASSUME NEW q \in Path, q \in S, NEW n \in Name PROVE Append(q, n) \in S
  <2>1. Find(h, q) # None => findChildFold(h, Find(h, q), n) \in Node \cup {None}
    BY <1>3, KidIs DEF Forest
  <2> QED
    BY <1>1, <2>1, PathParts
<1> HIDE DEF S
<1>4. p \in S
  BY <1>2, <1>3, PathInduction
<1> QED
  BY <1>1, <1>4 DEF S

LEMMA FoundKid ==
  ASSUME NEW h, Forest(h), NEW p \in Path, NEW n \in Name, Find(h, Append(p, n)) # None
  PROVE  /\ Find(h, p) \in Node /\ Find(h, Append(p, n)) \in Node
         /\ h[Find(h, p)].kind = "dir"
         /\ Find(h, Append(p, n)) = findChildFold(h, Find(h, p), n)
         /\ Find(h, Append(p, n)) # Root
         /\ \E k \in DOMAIN h[Find(h, p)].kids :
              /\ h[Find(h, p)].kids[k] = Find(h, Append(p, n))
              /\ h[h[Find(h, p)].kids[k]].name = n
<1>1. Find(h, p) # None /\ Find(h, p) \in Node /\ Find(h, Append(p, n)) = findChildFold(h, Find(h, p), n)
  BY FindIs
<1> DEFINE d == Find(h, p)
<1>2. d \in Node /\ Find(h, Append(p, n)) = findChildFold(h, d, n)
  BY <1>1
<1> HIDE DEF d
<1>3. PICK k \in DOMAIN h[d].kids : h[d].kids[k] = findChildFold(h, d, n) /\ h[h[d].kids[k]].name = n
  BY <1>2, KidIs DEF Forest
<1>4. h[d].kids[k] # Root /\ h[d].kids[k] \in Node /\ h[d].kind = "dir"
  <2>1. h[d].kids # <<>>
    BY <1>3
  <2> QED
    BY <1>2, <1>3, <2>1, NodeFields DEF Forest, InOnePlace, OnlyInDirectories
<1> QED
  BY <1>2, <1>3, <1>4 DEF d

\* No entry is at two paths.
LEMMA UniquePath ==
  ASSUME NEW h, Forest(h), NEW p \in Path, NEW q \in Path, Find(h, p) = Find(h, q), Find(h, p) # None
  PROVE  p = q
<1> DEFINE S == {r \in Path : Find(h, r) # None => \A s \in Path : Find(h, r) = Find(h, s) => r = s}
<1>1. <<>> \in S
  <2> SUFFICES ASSUME NEW s \in Path, Find(h, <<>>) = Find(h, s), s # <<>> PROVE FALSE
    BY EmptyPath
  <2>1. Front(s) \in Path /\ Last(s) \in Name /\ s = Append(Front(s), Last(s))
    BY PathParts
  <2>2. Find(h, s) = Root
    BY FindIs
  <2>3. Find(h, Append(Front(s), Last(s))) # None
    BY <2>1, <2>2, Numbers
  <2>4. Find(h, Append(Front(s), Last(s))) # Root
    BY <2>1, <2>3, FoundKid
  <2> QED
    BY <2>1, <2>2, <2>4
<1>2. ASSUME NEW r \in Path, r \in S, NEW n \in Name PROVE Append(r, n) \in S
  <2> SUFFICES ASSUME Find(h, Append(r, n)) # None,
                      NEW s \in Path, Find(h, Append(r, n)) = Find(h, s)
               PROVE  Append(r, n) = s
    BY PathParts
  <2> DEFINE a == Front(s)
             m == Last(s)
  <2>1. s # <<>>
    <3>1. Find(h, Append(r, n)) # Root /\ Find(h, <<>>) = Root
      BY FoundKid, FindIs
    <3> QED
      BY <3>1
  <2>2. a \in Path /\ m \in Name /\ s = Append(a, m)
    BY <2>1, PathParts
  <2> HIDE DEF a, m
  <2>3. PICK j \in DOMAIN h[Find(h, r)].kids :
          /\ h[Find(h, r)].kids[j] = Find(h, s)
          /\ h[h[Find(h, r)].kids[j]].name = n
    BY FoundKid
  <2>4. PICK k \in DOMAIN h[Find(h, a)].kids :
          /\ h[Find(h, a)].kids[k] = Find(h, s)
          /\ h[h[Find(h, a)].kids[k]].name = m
    BY <2>2, FoundKid
  <2>5. n = m
    BY <2>3, <2>4
  <2>6. Find(h, r) \in Node /\ Find(h, a) \in Node
    BY <2>2, FoundKid
  <2>7. Find(h, r) = Find(h, a)
    BY <2>3, <2>4, <2>6 DEF Forest, InOnePlace
  <2>8. r = a
    BY <1>2, <2>2, <2>6, <2>7, Numbers
  <2> QED
    BY <2>2, <2>5, <2>8
<1> HIDE DEF S
<1>3. p \in S
  BY <1>1, <1>2, PathInduction
<1> QED
  BY <1>3 DEF S

\* An entry is found through as many others as its path has names.
LEMMA Depth ==
  ASSUME NEW h, Forest(h), NEW p \in Path, Find(h, p) # None
  PROVE  Len(p) <= NumNodes - 1
<1> DEFINE Seen(V, l) == /\ V \in SUBSET Node /\ IsFiniteSet(V) /\ Cardinality(V) = l + 1
                         /\ \A x \in V : \E q \in Path : Len(q) <= l /\ Find(h, q) = x
           S == {q \in Path : Find(h, q) # None => \E V : Seen(V, Len(q))}
<1>1. <<>> \in S
  <2>1. IsFiniteSet({Root}) /\ Cardinality({Root}) = 1
    BY FS_Singleton
  <2>2. Len(<<>>) = 0 /\ Find(h, <<>>) = Root
    BY EmptyPath, FindIs
  <2>3. Seen({Root}, 0)
    BY <2>1, <2>2, EmptyPath, Numbers
  <2> HIDE DEF Seen
  <2> QED
    BY <2>2, <2>3, EmptyPath
<1>2. ASSUME NEW q \in Path, q \in S, NEW n \in Name PROVE Append(q, n) \in S
  <2> DEFINE x == Find(h, Append(q, n))
  <2>1. Append(q, n) \in Path /\ Len(q) \in Nat /\ Len(Append(q, n)) = Len(q) + 1
    BY PathParts
  <2> SUFFICES ASSUME x # None PROVE \E V : Seen(V, Len(q) + 1)
    BY <2>1
  <2>2. x \in Node /\ Find(h, q) # None
    BY FoundKid, Numbers
  <2>3. PICK V : Seen(V, Len(q))
    BY <1>2, <2>2
  <2>4. x \notin V
    <3> SUFFICES ASSUME x \in V PROVE FALSE
      OBVIOUS
    <3>1. PICK r \in Path : Len(r) <= Len(q) /\ Find(h, r) = x
      BY <2>3
    <3>2. r = Append(q, n)
      BY <2>1, <3>1, UniquePath
    <3> QED
      BY <2>1, <3>1, <3>2
  <2>5. IsFiniteSet(V \cup {x}) /\ Cardinality(V \cup {x}) = Cardinality(V) + 1
    BY <2>3, <2>4, FS_AddElement
  <2>6. ASSUME NEW y \in V \cup {x} PROVE \E r \in Path : Len(r) <= Len(q) + 1 /\ Find(h, r) = y
    <3>1. CASE y \in V
      <4>1. PICK r \in Path : Len(r) <= Len(q) /\ Find(h, r) = y
        BY <2>3, <3>1
      <4>2. Len(r) \in Nat
        BY PathParts
      <4> QED
        BY <2>1, <4>1, <4>2
    <3>2. CASE y = x
      <4> DEFINE r == Append(q, n)
      <4>1. r \in Path /\ Len(r) <= Len(q) + 1 /\ Find(h, r) = y
        BY <2>1, <3>2
      <4> HIDE DEF r
      <4> QED
        BY <4>1
    <3> QED
      BY <3>1, <3>2
  <2> HIDE DEF x
  <2>7. Seen(V \cup {x}, Len(q) + 1)
    BY <2>1, <2>2, <2>3, <2>5, <2>6
  <2> QED
    BY <2>7
<1> HIDE DEF S
<1>3. p \in S
  BY <1>1, <1>2, PathInduction
<1>4. PICK V : Seen(V, Len(p))
  BY <1>3 DEF S
<1>5. IsFiniteSet(Node) /\ Cardinality(Node) = NumNodes
  BY Numbers, FS_Interval DEF Node
<1>6. Cardinality(V) <= NumNodes
  BY <1>4, <1>5, FS_Subset
<1> QED
  BY <1>4, <1>6, PathParts, Numbers

LEMMA PathLists ==
  /\ AllPaths = {p \in Path : p # <<>> /\ Len(p) <= NumNodes - 1}
  /\ \A p \in Paths : p \in Path /\ p # <<>>
<1>1. ASSUME NEW k \in Nat \ {0}, NEW p \in [1 .. k -> Name] PROVE p \in Path /\ p # <<>> /\ Len(p) = k
  <2>1. p \in Seq(Name) /\ Len(p) = k
    OBVIOUS
  <2>2. Len(<<>>) = 0
    OBVIOUS
  <2> QED
    BY <2>1, <2>2 DEF Path
<1>2. ASSUME NEW p \in AllPaths PROVE p \in Path /\ p # <<>> /\ Len(p) <= NumNodes - 1
  <2>1. PICK k \in 1 .. NumNodes - 1 : p \in [1 .. k -> Name]
    BY DEF AllPaths
  <2>2. k \in Nat \ {0} /\ k <= NumNodes - 1
    BY Numbers
  <2> QED
    BY <1>1, <2>1, <2>2
<1>3. ASSUME NEW p \in Path, p # <<>>, Len(p) <= NumNodes - 1 PROVE p \in AllPaths
  <2>1. Len(p) \in 1 .. NumNodes - 1
    BY <1>3, PathParts, Numbers
  <2>2. p \in [1 .. Len(p) -> Name]
    BY DEF Path
  <2> QED
    BY <2>1, <2>2 DEF AllPaths
<1>4. ASSUME NEW p \in Paths PROVE p \in Path /\ p # <<>>
  <2>1. PICK k \in 1 .. MaxPath : p \in [1 .. k -> Name]
    BY DEF Paths
  <2>2. k \in Nat \ {0}
    BY DirTreeAssumption
  <2> QED
    BY <1>1, <2>1, <2>2
<1> QED
  BY <1>2, <1>3, <1>4

EntryOf(h, x) == [kind |-> h[x].kind, hash |-> h[x].hash]

\* The paths of a heap are those at which something is found.
Found(h) == {p \in Path : p # <<>> /\ Find(h, p) # None}

LEMMA FilesAre ==
  ASSUME NEW h, Forest(h)
  PROVE  FilesOf(h) = [p \in Found(h) |-> EntryOf(h, Find(h, p))]
<1>1. {q \in AllPaths : Find(h, q) # None} = Found(h)
  <2>1. \A p \in Path : Find(h, p) # None => Len(p) <= NumNodes - 1
    BY Depth
  <2> QED
    BY <2>1, PathLists DEF Found
<1> QED
  BY <1>1 DEF FilesOf, EntryOf

LEMMA FilesHave ==
  ASSUME NEW h, Forest(h), NEW p \in Path, p # <<>>
  PROVE  /\ p \in DOMAIN FilesOf(h) <=> Find(h, p) # None
         /\ Find(h, p) # None => /\ FilesOf(h)[p] = EntryOf(h, Find(h, p))
                                 /\ FilesOf(h)[p].kind = h[Find(h, p)].kind
                                 /\ FilesOf(h)[p].hash = h[Find(h, p)].hash
<1>1. p \in Found(h) <=> Find(h, p) # None
  BY DEF Found
<1> QED
  BY <1>1, FilesAre DEF EntryOf

LEMMA FilesDomain ==
  ASSUME NEW h, Forest(h)
  PROVE  DOMAIN FilesOf(h) = Found(h) /\ DOMAIN FilesOf(h) \subseteq Path
BY FilesAre DEF Found

\* Heaps in which the children have the same names have the same paths.
LEMMA FindSame ==
  ASSUME NEW h, Forest(h), NEW g, Forest(g),
         \A x \in Node, n \in Name : findChildFold(g, x, n) = findChildFold(h, x, n)
  PROVE  \A p \in Path : Find(g, p) = Find(h, p)
<1> DEFINE S == {p \in Path : Find(g, p) = Find(h, p)}
<1>1. <<>> \in S
  BY FindIs, EmptyPath
<1>2. ASSUME NEW p \in Path, p \in S, NEW n \in Name PROVE Append(p, n) \in S
  <2>1. Find(g, p) = Find(h, p) /\ Append(p, n) \in Path
    BY <1>2, PathParts
  <2>2. Find(g, Append(p, n)) = IF Find(g, p) = None THEN None ELSE findChildFold(g, Find(g, p), n)
    BY FindIs
  <2>3. /\ Find(h, Append(p, n)) = IF Find(h, p) = None THEN None ELSE findChildFold(h, Find(h, p), n)
        /\ Find(h, p) # None => Find(h, p) \in Node
    BY FindIs
  <2> QED
    BY <2>1, <2>2, <2>3
<1> HIDE DEF S
<1>3. Path \subseteq S
  BY <1>1, <1>2, PathInduction
<1> QED
  BY <1>3 DEF S

LEMMA FilesSame ==
  ASSUME NEW h, Forest(h), NEW g, Forest(g),
         \A p \in Path : Find(g, p) = Find(h, p),
         \A p \in Found(h) : EntryOf(g, Find(h, p)) = EntryOf(h, Find(h, p))
  PROVE  FilesOf(g) = FilesOf(h)
<1>1. Found(g) = Found(h)
  BY DEF Found
<1>2. \A p \in Found(h) : EntryOf(g, Find(g, p)) = EntryOf(h, Find(h, p))
  BY DEF Found
<1> QED
  BY <1>1, <1>2, FilesAre

LEMMA SameTreeFiles ==
  ASSUME NEW h, Forest(h), NEW g, Forest(g), SameTree(h, g)
  PROVE  /\ \A p \in Path : Find(g, p) = Find(h, p)
         /\ FilesOf(g) = FilesOf(h)
<1>1. h \in Heap
  BY DEF Forest
<1>2. \A x \in Node, n \in Name : findChildFold(g, x, n) = findChildFold(h, x, n)
  BY <1>1, SameKids
<1>3. \A p \in Path : Find(g, p) = Find(h, p)
  BY <1>2, FindSame
<1>4. \A p \in Found(h) : EntryOf(g, Find(h, p)) = EntryOf(h, Find(h, p))
  <2> SUFFICES ASSUME NEW p \in Found(h) PROVE EntryOf(g, Find(h, p)) = EntryOf(h, Find(h, p))
    OBVIOUS
  <2>1. Find(h, p) \in Node
    BY FindIs DEF Found
  <2> QED
    BY <2>1 DEF SameTree, EntryOf
<1> QED
  BY <1>3, <1>4, FilesSame

LEMMA SameTreeTrans ==
  ASSUME NEW h, NEW g, NEW f, SameTree(h, g), SameTree(g, f)
  PROVE  SameTree(h, f)
BY DEF SameTree

LEMMA WithinSteps ==
  ASSUME NEW p \in Path, NEW q \in Path
  PROVE  /\ Abstract!Within(p, p)
         /\ Abstract!Within(p, <<>>) <=> p = <<>>
         /\ Abstract!Within(p, q) => Len(p) <= Len(q)
         /\ \A n \in Name : Abstract!Within(p, Append(q, n)) <=>
                              p = Append(q, n) \/ Abstract!Within(p, q)
<1>1. Abstract!Within(p, p)
  BY DEF Abstract!Within, Path
<1>2. Abstract!Within(p, <<>>) <=> p = <<>>
  BY DEF Abstract!Within, Path
<1>3. Abstract!Within(p, q) => Len(p) <= Len(q)
  BY DEF Abstract!Within
<1>4. ASSUME NEW n \in Name
      PROVE  Abstract!Within(p, Append(q, n)) <=> p = Append(q, n) \/ Abstract!Within(p, q)
  <2> DEFINE a == Append(q, n)
  <2>1. a \in Path /\ Len(a) = Len(q) + 1 /\ Len(q) \in Nat /\ Len(p) \in Nat
    BY PathParts
  <2>2. ASSUME NEW k \in Nat, k <= Len(q) PROVE SubSeq(a, 1, k) = SubSeq(q, 1, k)
    BY <2>2 DEF Path
  <2>3. SubSeq(a, 1, Len(a)) = a
    BY <2>1 DEF Path
  <2> HIDE DEF a
  <2>4. CASE Len(p) <= Len(q)
    <3>1. p # a /\ Len(p) <= Len(a)
      BY <2>1, <2>4
    <3>2. SubSeq(a, 1, Len(p)) = SubSeq(q, 1, Len(p))
      BY <2>1, <2>2, <2>4
    <3> QED
      BY <2>4, <3>1, <3>2 DEF Abstract!Within, a
  <2>5. CASE Len(p) = Len(a)
    <3>1. ~(Len(p) <= Len(q))
      BY <2>1, <2>5
    <3> QED
      BY <2>1, <2>3, <2>5, <3>1 DEF Abstract!Within, a
  <2>6. CASE Len(p) > Len(a)
    <3>1. ~(Len(p) <= Len(q)) /\ ~(Len(p) <= Len(a)) /\ p # a
      BY <2>1, <2>6
    <3> QED
      BY <3>1 DEF Abstract!Within, a
  <2> QED
    BY <2>1, <2>4, <2>5, <2>6
<1> QED
  BY <1>1, <1>2, <1>3, <1>4

LEMMA NotWithin ==
  ASSUME NEW p \in Path, NEW n \in Name
  PROVE  ~Abstract!Within(Append(p, n), p)
<1>1. Append(p, n) \in Path /\ Len(Append(p, n)) = Len(p) + 1 /\ Len(p) \in Nat
  BY PathParts
<1>2. ~(Len(Append(p, n)) <= Len(p))
  BY <1>1
<1> QED
  BY <1>1, <1>2, WithinSteps

-----------------------------------------------------------------------------
(* Walks.                                                                  *)

\* A walk changes indices only, and ends where the names lead.
LEMMA WalkIs ==
  ASSUME NEW h, Forest(h), NEW p \in Path
  PROVE  /\ Forest(Walk(h, p).heap) /\ SameTree(h, Walk(h, p).heap)
         /\ Walk(h, p).ok = (Find(h, p) # None)
         /\ Find(h, p) # None => Walk(h, p).at = Find(h, p)
<1> DEFINE Good(w, x) == /\ Forest(w.heap) /\ SameTree(h, w.heap)
                         /\ w.ok = (x # None) /\ (x # None => w.at = x)
           S == {q \in Path : Good(Walk(h, q), Find(h, q))}
<1>1. <<>> \in S
  <2>1. Find(h, <<>>) = Root /\ Walk(h, <<>>) = Begin(h) /\ Root # None
    BY FindIs, WalkSteps, EmptyPath, Numbers
  <2>2. Good(Begin(h), Root)
    BY <2>1 DEF Begin, SameTree
  <2> QED
    BY <2>1, <2>2, EmptyPath
<1>2. ASSUME NEW q \in Path, q \in S, NEW n \in Name PROVE Append(q, n) \in S
  <2> DEFINE w == Walk(h, q)
             x == Find(h, q)
             y == Find(h, Append(q, n))
  <2>1. Append(q, n) \in Path /\ Walk(h, Append(q, n)) = Follow(w, n)
    <3>1. Append(q, n) \in Path
      BY PathParts
    <3>2. Walk(h, Append(q, n)) = Follow(w, n)
      BY WalkSteps
    <3> QED
      BY <3>1, <3>2
  <2>2. y = (IF x = None THEN None ELSE findChildFold(h, x, n)) /\ x \in Node \cup {None}
    BY FindIs
  <2>3. Good(w, x)
    BY <1>2
  <2> HIDE DEF w, x, y
  <2>4. CASE x = None
    BY <2>1, <2>2, <2>3, <2>4 DEF Follow, w, x, y
  <2>5. CASE x # None
    <3> DEFINE i == Indexed(w.heap, x)
               c == Child(w.heap, x, n)
    <3>1. x \in Node /\ w.at = x /\ w.ok /\ Forest(w.heap) /\ SameTree(h, w.heap) /\ h \in Heap
      BY <2>2, <2>3, <2>5 DEF Forest
    <3>2. Forest(i) /\ SameTree(w.heap, i) /\ c = findChildFold(w.heap, x, n)
      BY <3>1, IndexedIs
    <3>3. c = y /\ SameTree(h, i)
      BY <2>2, <2>5, <3>1, <3>2, SameKids, SameTreeTrans
    <3>4. Follow(w, n) = [heap |-> i, at |-> c, ok |-> c # None]
      BY <3>1 DEF Follow
    <3> HIDE DEF i, c
    <3>5. Good(Follow(w, n), y)
      BY <3>2, <3>3, <3>4
    <3> QED
      BY <2>1, <3>5 DEF w, y
  <2> QED
    BY <2>4, <2>5
<1> HIDE DEF S
<1>3. p \in S
  BY <1>1, <1>2, PathInduction
<1> QED
  BY <1>3 DEF S

-----------------------------------------------------------------------------
(* What the steps of the operations do to the paths.                         *)

\* With a child, all that is below it is cut off.
LEMMA CutFinds ==
  ASSUME NEW h, Forest(h), NEW P \in Path, NEW d \in Node, Find(h, P) = d,
         NEW i \in DOMAIN h[d].kids, NEW n \in Name, n = h[h[d].kids[i]].name,
         NEW g, g = CutChild(h, d, i)
  PROVE  \A q \in Path : Find(g, q) = IF Abstract!Within(Append(P, n), q) THEN None ELSE Find(h, q)
<1> DEFINE top == Append(P, n)
           S == {q \in Path : Find(g, q) = IF Abstract!Within(top, q) THEN None ELSE Find(h, q)}
<1>1. /\ Forest(g)
      /\ findChildFold(g, d, n) = None
      /\ \A x \in Node, m \in Name : x # d \/ m # n => findChildFold(g, x, m) = findChildFold(h, x, m)
  BY CutIs
<1>2. top \in Path /\ top # <<>> /\ ~Abstract!Within(top, P)
  BY PathParts, NotWithin
<1>3. <<>> \in S
  BY <1>1, <1>2, WithinSteps, EmptyPath, FindIs
<1>4. ASSUME NEW q \in Path, q \in S, NEW m \in Name PROVE Append(q, m) \in S
  <2>1. Append(q, m) \in Path
        /\ (Abstract!Within(top, Append(q, m)) <=> top = Append(q, m) \/ Abstract!Within(top, q))
    <3>1. Append(q, m) \in Path
      BY PathParts
    <3> HIDE DEF top
    <3> QED
      BY <1>2, <3>1, WithinSteps
  <2>2. top = Append(q, m) <=> q = P /\ m = n
    BY SameAppend
  <2>3. Find(g, Append(q, m)) = IF Find(g, q) = None THEN None ELSE findChildFold(g, Find(g, q), m)
    BY <1>1, FindIs
  <2>4. /\ Find(h, Append(q, m)) = IF Find(h, q) = None THEN None ELSE findChildFold(h, Find(h, q), m)
        /\ Find(h, q) # None => Find(h, q) \in Node
    BY FindIs
  <2>5. CASE Abstract!Within(top, q)
    BY <1>4, <2>1, <2>3, <2>5
  <2>6. CASE ~Abstract!Within(top, q) /\ top = Append(q, m)
    BY <1>1, <1>4, <2>1, <2>2, <2>3, <2>6
  <2>7. CASE ~Abstract!Within(top, q) /\ top # Append(q, m)
    <3>1. Find(g, q) = Find(h, q)
      BY <1>4, <2>7
    <3>2. Find(h, q) = d => q = P
      BY UniquePath, Numbers
    <3> QED
      BY <1>1, <2>1, <2>2, <2>3, <2>4, <2>7, <3>1, <3>2
  <2> QED
    BY <2>5, <2>6, <2>7
<1> HIDE DEF S
<1>5. Path \subseteq S
  BY <1>3, <1>4, PathInduction
<1> QED
  BY <1>5 DEF S

\* What is appended comes with all that is below it, and moves nothing else.
LEMMA AppendFinds ==
  ASSUME NEW h, Forest(h), NEW P \in Path, NEW d \in Node, Find(h, P) = d, h[d].kind = "dir",
         NEW c \in Node, c # Root, h[c].kind # "unused", NoParent(h, c),
         NEW n \in Name, n = h[c].name, findChildFold(h, d, n) = None,
         NEW g, g = AppendChild(h, d, c)
  PROVE  /\ \A q \in Path : ~Abstract!Within(Append(P, n), q) => Find(g, q) = Find(h, q)
         /\ Find(g, Append(P, n)) = c
         /\ \A q \in Path, m \in Name : Abstract!Within(Append(P, n), q) =>
              Find(g, Append(q, m)) =
                IF Find(g, q) = None THEN None ELSE findChildFold(h, Find(g, q), m)
         /\ \A q \in Path : Abstract!Within(Append(P, n), q) => Find(h, q) = None
<1> DEFINE top == Append(P, n)
           S == {q \in Path : ~Abstract!Within(top, q) => Find(g, q) = Find(h, q)}
           T == {q \in Path : Abstract!Within(top, q) => Find(h, q) = None}
<1>1. /\ Forest(g)
      /\ findChildFold(g, d, n) = c
      /\ \A x \in Node, m \in Name : x # d \/ m # n => findChildFold(g, x, m) = findChildFold(h, x, m)
  BY AppendIs
<1>2. top \in Path /\ top # <<>> /\ ~Abstract!Within(top, P)
  BY PathParts, NotWithin
<1>3. \A q \in Path, m \in Name :
        /\ Append(q, m) \in Path
        /\ Abstract!Within(top, Append(q, m)) <=> top = Append(q, m) \/ Abstract!Within(top, q)
        /\ top = Append(q, m) <=> q = P /\ m = n
        /\ Find(g, Append(q, m)) = IF Find(g, q) = None THEN None ELSE findChildFold(g, Find(g, q), m)
        /\ Find(h, Append(q, m)) = IF Find(h, q) = None THEN None ELSE findChildFold(h, Find(h, q), m)
        /\ Find(h, q) # None => Find(h, q) \in Node
        /\ Find(g, q) # None => Find(g, q) \in Node
  <2> SUFFICES ASSUME NEW q \in Path, NEW m \in Name
               PROVE  /\ Append(q, m) \in Path
                      /\ Abstract!Within(top, Append(q, m)) <=> top = Append(q, m) \/ Abstract!Within(top, q)
                      /\ top = Append(q, m) <=> q = P /\ m = n
                      /\ Find(g, Append(q, m)) =
                           IF Find(g, q) = None THEN None ELSE findChildFold(g, Find(g, q), m)
                      /\ Find(h, Append(q, m)) =
                           IF Find(h, q) = None THEN None ELSE findChildFold(h, Find(h, q), m)
                      /\ Find(h, q) # None => Find(h, q) \in Node
                      /\ Find(g, q) # None => Find(g, q) \in Node
    OBVIOUS
  <2>1. Append(q, m) \in Path
    BY PathParts
  <2>2. Abstract!Within(top, Append(q, m)) <=> top = Append(q, m) \/ Abstract!Within(top, q)
    BY <1>2, WithinSteps
  <2>3. top = Append(q, m) <=> q = P /\ m = n
    BY SameAppend
  <2>4. /\ Find(h, Append(q, m)) = IF Find(h, q) = None THEN None ELSE findChildFold(h, Find(h, q), m)
        /\ Find(h, q) # None => Find(h, q) \in Node
    BY FindIs
  <2>5. /\ Find(g, Append(q, m)) = IF Find(g, q) = None THEN None ELSE findChildFold(g, Find(g, q), m)
        /\ Find(g, q) # None => Find(g, q) \in Node
    BY <1>1, FindIs
  <2> HIDE DEF top
  <2> QED
    BY <2>1, <2>2, <2>3, <2>4, <2>5
<1>4. <<>> \in S /\ <<>> \in T
  BY <1>1, <1>2, WithinSteps, EmptyPath, FindIs
<1>5. ASSUME NEW q \in Path, q \in T, NEW m \in Name PROVE Append(q, m) \in T
  <2> SUFFICES ASSUME Abstract!Within(top, Append(q, m)) PROVE Find(h, Append(q, m)) = None
    BY <1>3
  <2>1. CASE Abstract!Within(top, q)
    BY <1>3, <1>5, <2>1
  <2>2. CASE q = P /\ m = n
    BY <1>3, <2>2
  <2> QED
    BY <1>3, <2>1, <2>2
<1>6. ASSUME NEW q \in Path, q \in S, NEW m \in Name PROVE Append(q, m) \in S
  <2> SUFFICES ASSUME ~Abstract!Within(top, Append(q, m)) PROVE Find(g, Append(q, m)) = Find(h, Append(q, m))
    BY <1>3
  <2>1. Find(g, q) = Find(h, q) /\ ~(q = P /\ m = n)
    BY <1>3, <1>6
  <2>2. Find(h, q) = d => q = P
    BY UniquePath, Numbers
  <2> HIDE DEF top
  <2> QED
    BY <1>1, <1>3, <2>1, <2>2
<1> HIDE DEF S, T
<1>7. Path \subseteq S
  BY <1>4, <1>6, PathInduction
<1>8. Path \subseteq T
  BY <1>4, <1>5, PathInduction
<1>9. Find(g, P) = d
  BY <1>2, <1>7 DEF S
<1>10. Find(g, top) = c
  BY <1>1, <1>3, <1>9, Numbers
<1>11. ASSUME NEW q \in Path, NEW m \in Name, Abstract!Within(top, q)
       PROVE  Find(g, Append(q, m)) = IF Find(g, q) = None THEN None ELSE findChildFold(h, Find(g, q), m)
  <2>1. Find(g, q) = d => q = P
    BY <1>1, <1>9, UniquePath, Numbers
  <2>2. Find(g, q) # d
    BY <1>2, <1>11, <2>1
  <2> HIDE DEF top
  <2> QED
    BY <1>1, <1>3, <2>2
<1> QED
  BY <1>7, <1>8, <1>10, <1>11 DEF S, T

\* Heaps in which there is more: nothing that was there has moved.
Grows(h, g) ==
  \A y \in Node : h[y].kind # "unused" =>
    /\ g[y].kind = h[y].kind /\ g[y].name = h[y].name
    /\ \A k \in DOMAIN h[y].kids : k \in DOMAIN g[y].kids /\ g[y].kids[k] = h[y].kids[k]

LEMMA GrowsTrans ==
  ASSUME NEW h, NEW g, NEW f, Grows(h, g), Grows(g, f)
  PROVE  Grows(h, f)
BY DEF Grows

LEMMA SameTreeGrows ==
  ASSUME NEW h, NEW g, SameTree(h, g)
  PROVE  Grows(h, g)
BY DEF SameTree, Grows

\* A child stays where it is in a heap that grows.
LEMMA GrowsKid ==
  ASSUME NEW h, Forest(h), NEW g, Forest(g), Grows(h, g),
         NEW d \in Node, NEW n \in Name, findChildFold(h, d, n) # None
  PROVE  /\ findChildFold(g, d, n) = findChildFold(h, d, n)
         /\ Position(g, d, n) = Position(h, d, n)
         /\ Position(h, d, n) \in DOMAIN h[d].kids
         /\ h[d].kids[Position(h, d, n)] = findChildFold(h, d, n)
         /\ h[findChildFold(h, d, n)].name = n /\ findChildFold(h, d, n) \in Node
         /\ findChildFold(h, d, n) # Root /\ h[findChildFold(h, d, n)].kind # "unused"
<1>1. /\ h \in Heap /\ g \in Heap /\ NamesDiffer(h) /\ NamesDiffer(g)
      /\ InOnePlace(h) /\ OnlyInDirectories(h)
  BY DEF Forest
<1>2. PICK k \in DOMAIN h[d].kids : h[d].kids[k] = findChildFold(h, d, n) /\ h[h[d].kids[k]].name = n
  BY <1>1, KidIs
<1>3. Position(h, d, n) = k
  BY <1>1, <1>2, KidIs
<1>4. h[d].kids[k] \in Node /\ h[d].kids[k] # Root /\ h[h[d].kids[k]].kind # "unused"
  BY <1>1, NodeFields DEF InOnePlace
<1>5. h[d].kind # "unused"
  <2>1. h[d].kids # <<>>
    BY <1>2
  <2> QED
    BY <1>1, <2>1 DEF OnlyInDirectories
<1>6. k \in DOMAIN g[d].kids /\ g[d].kids[k] = h[d].kids[k] /\ g[g[d].kids[k]].name = n
  BY <1>2, <1>4, <1>5 DEF Grows
<1>7. findChildFold(g, d, n) = g[d].kids[k] /\ Position(g, d, n) = k
  BY <1>1, <1>6, KidIs
<1> QED
  BY <1>2, <1>3, <1>4, <1>6, <1>7

LEMMA GrowsFinds ==
  ASSUME NEW h, Forest(h), NEW g, Forest(g), Grows(h, g)
  PROVE  \A p \in Path : Find(h, p) # None => Find(g, p) = Find(h, p)
<1> DEFINE S == {p \in Path : Find(h, p) # None => Find(g, p) = Find(h, p)}
<1>1. <<>> \in S
  BY FindIs, EmptyPath
<1>2. ASSUME NEW p \in Path, p \in S, NEW n \in Name PROVE Append(p, n) \in S
  <2> SUFFICES ASSUME Find(h, Append(p, n)) # None PROVE Find(g, Append(p, n)) = Find(h, Append(p, n))
    BY PathParts
  <2>1. Find(h, p) \in Node /\ Find(h, Append(p, n)) = findChildFold(h, Find(h, p), n)
    BY FoundKid
  <2>2. Find(g, p) = Find(h, p) /\ Find(g, p) # None
    BY <1>2, <2>1, Numbers
  <2>3. Find(g, Append(p, n)) = findChildFold(g, Find(h, p), n)
    BY <2>2, FindIs
  <2> QED
    BY <2>1, <2>3, GrowsKid
<1> HIDE DEF S
<1>3. Path \subseteq S
  BY <1>1, <1>2, PathInduction
<1> QED
  BY <1>3 DEF S

Free(h) == {x \in Node : h[x].kind = "unused"}

\* A new entry, and nothing in it.
Leaf(h, d, x, kind, n, hash) == AppendChild(Labelled(h, x, Fresh(kind, n, hash)), d, x)

\* fs with entry e at p.
With(fs, p, e) == [q \in DOMAIN fs \cup {p} |-> IF q = p THEN e ELSE fs[q]]

LEMMA LeafIs ==
  ASSUME NEW h, Forest(h), NEW P \in Path, NEW d \in Node, Find(h, P) = d, h[d].kind = "dir",
         NEW x \in Node, h[x].kind = "unused",
         NEW kind \in {"dir", "file"}, NEW n \in Name, NEW hash \in Hash \cup {NoHash},
         findChildFold(h, d, n) = None,
         NEW g, g = Leaf(h, d, x, kind, n, hash)
  PROVE  /\ Forest(g) /\ Grows(h, g) /\ Free(g) = Free(h) \ {x}
         /\ Find(h, Append(P, n)) = None
         /\ \A q \in Path : Find(g, q) = IF q = Append(P, n) THEN x ELSE Find(h, q)
         /\ g[x].kind = kind /\ g[x].hash = hash
         /\ FilesOf(g) = With(FilesOf(h), Append(P, n), [kind |-> kind, hash |-> hash])
<1> DEFINE f == Labelled(h, x, Fresh(kind, n, hash))
           top == Append(P, n)
<1>1. /\ Forest(f) /\ x # Root /\ NoParent(f, x)
      /\ f[x].kind = kind /\ f[x].name = n /\ f[x].hash = hash /\ f[x].kids = <<>>
      /\ \A y \in Node : y # x => f[y] = h[y]
      /\ \A y \in Node, m \in Name : findChildFold(f, y, m) = findChildFold(h, y, m)
      /\ \A m \in Name : findChildFold(f, x, m) = None
  BY FreshIs
<1>2. d # x /\ f[d].kind = "dir" /\ f[x].kind # "unused" /\ f[x].name = n /\ findChildFold(f, d, n) = None
  BY <1>1
<1>3. \A q \in Path : Find(f, q) = Find(h, q)
  BY <1>1, FindSame
<1>4. g = AppendChild(f, d, x) /\ Find(f, P) = d
  BY <1>3 DEF Leaf
<1> HIDE DEF f
<1>5. /\ Forest(g)
      /\ \A y \in Node : g[y].kind = f[y].kind /\ g[y].name = f[y].name /\ g[y].hash = f[y].hash
      /\ g[d].kids = Append(f[d].kids, x)
      /\ \A y \in Node : y # d => g[y].kids = f[y].kids
  BY <1>1, <1>2, <1>4, AppendIs
<1>6. /\ \A q \in Path : ~Abstract!Within(top, q) => Find(g, q) = Find(f, q)
      /\ Find(g, top) = x
      /\ \A q \in Path, m \in Name : Abstract!Within(top, q) =>
           Find(g, Append(q, m)) =
             IF Find(g, q) = None THEN None ELSE findChildFold(f, Find(g, q), m)
      /\ \A q \in Path : Abstract!Within(top, q) => Find(f, q) = None
  BY <1>1, <1>2, <1>4, AppendFinds
<1>7. top \in Path /\ top # <<>> /\ Abstract!Within(top, top)
  BY PathParts, WithinSteps
<1>8. ASSUME NEW q \in Path PROVE Find(g, q) = IF q = top THEN x ELSE Find(h, q)
  <2> DEFINE S == {r \in Path : Abstract!Within(top, r) => Find(g, r) = IF r = top THEN x ELSE None}
  <2>1. <<>> \in S
    BY <1>7, WithinSteps, EmptyPath
  <2>2. ASSUME NEW r \in Path, r \in S, NEW m \in Name PROVE Append(r, m) \in S
    <3> SUFFICES ASSUME Abstract!Within(top, Append(r, m)), Append(r, m) # top
                 PROVE  Find(g, Append(r, m)) = None
      BY <1>6, PathParts
    <3>1. Abstract!Within(top, r)
      BY <1>7, WithinSteps
    <3>2. Find(g, r) = x \/ Find(g, r) = None
      BY <2>2, <3>1
    <3>3. Find(g, Append(r, m)) = IF Find(g, r) = None THEN None ELSE findChildFold(f, Find(g, r), m)
      BY <1>6, <3>1
    <3> QED
      BY <1>1, <3>2, <3>3
  <2> HIDE DEF S
  <2>3. q \in S
    BY <2>1, <2>2, PathInduction
  <2>4. CASE Abstract!Within(top, q)
    BY <1>3, <1>6, <2>3, <2>4 DEF S
  <2>5. CASE ~Abstract!Within(top, q)
    BY <1>3, <1>6, <1>7, <2>5
  <2> QED
    BY <2>4, <2>5
<1>9. Find(h, top) = None
  BY <1>3, <1>6, <1>7
<1>10. Grows(h, g)
  <2> SUFFICES ASSUME NEW y \in Node, h[y].kind # "unused"
               PROVE  /\ g[y].kind = h[y].kind /\ g[y].name = h[y].name
                      /\ \A k \in DOMAIN h[y].kids : k \in DOMAIN g[y].kids /\ g[y].kids[k] = h[y].kids[k]
    BY DEF Grows
  <2>1. y # x /\ f[y] = h[y]
    BY <1>1
  <2>2. CASE y = d
    <3>1. h[d].kids \in Seq(Node)
      BY NodeFields DEF Forest
    <3> QED
      BY <1>5, <2>1, <2>2, <3>1
  <2>3. CASE y # d
    BY <1>5, <2>1, <2>3
  <2> QED
    BY <2>2, <2>3
<1>11. Free(g) = Free(h) \ {x}
  <2>1. \A y \in Node : g[y].kind = IF y = x THEN kind ELSE h[y].kind
    BY <1>1, <1>5
  <2> QED
    BY <2>1 DEF Free
<1>12. FilesOf(g) = With(FilesOf(h), top, [kind |-> kind, hash |-> hash])
  <2>1. Found(g) = DOMAIN FilesOf(h) \cup {top}
    <3>1. Found(g) = Found(h) \cup {top}
      BY <1>7, <1>8, Numbers DEF Found
    <3> QED
      BY <3>1, FilesDomain
  <2>2. ASSUME NEW q \in Found(g)
        PROVE  EntryOf(g, Find(g, q))
                 = IF q = top THEN [kind |-> kind, hash |-> hash] ELSE FilesOf(h)[q]
    <3>1. q \in Path /\ q # <<>> /\ Find(g, q) = IF q = top THEN x ELSE Find(h, q)
      BY <1>8 DEF Found
    <3>2. CASE q = top
      BY <1>1, <1>5, <3>1, <3>2 DEF EntryOf
    <3>3. CASE q # top
      <4> DEFINE y == Find(h, q)
      <4>1. Find(g, q) = y /\ y # None /\ y \in Node
        BY <3>1, <3>3, FindIs DEF Found
      <4>2. FilesOf(h)[q] = EntryOf(h, y)
        BY <3>1, <4>1, FilesHave
      <4>3. y # x
        <5> SUFFICES ASSUME y = x PROVE FALSE
          OBVIOUS
        <5>1. Find(g, top) = Find(g, q) /\ Find(g, q) # None
          BY <1>6, <4>1
        <5> HIDE DEF top
        <5> QED
          BY <1>5, <1>7, <3>1, <3>3, <5>1, UniquePath
      <4> HIDE DEF y
      <4>4. EntryOf(g, y) = EntryOf(h, y)
        BY <1>1, <1>5, <4>1, <4>3 DEF EntryOf
      <4> QED
        BY <3>3, <4>1, <4>2, <4>4
    <3> QED
      BY <3>2, <3>3
  <2>3. FilesOf(g) = [q \in Found(g) |-> EntryOf(g, Find(g, q))]
    BY <1>5, FilesAre
  <2> QED
    BY <2>1, <2>2, <2>3 DEF With
<1> QED
  BY <1>1, <1>5, <1>8, <1>9, <1>10, <1>11, <1>12

LEMMA NewNodeIs ==
  ASSUME NEW h, Free(h) # {}
  PROVE  NewNode(h) \in Node /\ h[NewNode(h)].kind = "unused"
<1>1. Free(h) \in SUBSET Nat
  BY DEF Free, Node
<1>2. \E x \in Free(h) : \A y \in Free(h) : x <= y
  BY <1>1, LeastNumber
<1>3. Min(Free(h)) \in Free(h)
  BY <1>2 DEF Min
<1> QED
  BY <1>3 DEF Free, NewNode

LEMMA FreeIs ==
  ASSUME NEW h
  PROVE  /\ IsFiniteSet(Free(h)) /\ Cardinality(Free(h)) \in Nat
         /\ Cardinality(Free(h)) >= 1 => Free(h) # {}
<1>1. IsFiniteSet(Node) /\ Free(h) \subseteq Node
  BY Numbers, FS_Interval DEF Node, Free
<1>2. IsFiniteSet(Free(h))
  BY <1>1, FS_Subset
<1>3. Free(h) = {} => Cardinality(Free(h)) = 0
  BY FS_EmptySet
<1> QED
  BY <1>2, <1>3, FS_CardinalityType

LEMMA FreeSame ==
  ASSUME NEW h, NEW g, SameTree(h, g)
  PROVE  Free(g) = Free(h)
BY DEF Free, SameTree

-----------------------------------------------------------------------------
(* The way to an entry that is to be created.                                *)

\* The paths on the way along p, p included and the root not.
Onto(p) == {SubSeq(p, 1, k) : k \in 1 .. Len(p)}

LEMMA OntoSteps ==
  ASSUME NEW p \in Path, NEW n \in Name
  PROVE  /\ Onto(<<>>) = {}
         /\ Onto(p) \subseteq Path
         /\ Onto(Append(p, n)) = Onto(p) \cup {Append(p, n)}
         /\ Abstract!Ancestors(Append(p, n)) = Onto(p)
         /\ Append(p, n) \notin Onto(p)
         /\ \A a \in Onto(p) : a # <<>> /\ Len(a) <= Len(p)
<1> DEFINE a == Append(p, n)
<1>1. a \in Path /\ Len(a) = Len(p) + 1 /\ Len(p) \in Nat
  BY PathParts
<1>2. ASSUME NEW k \in 1 .. Len(p)
      PROVE  /\ SubSeq(a, 1, k) = SubSeq(p, 1, k) /\ SubSeq(p, 1, k) \in Path
             /\ Len(SubSeq(p, 1, k)) = k /\ SubSeq(p, 1, k) # <<>>
  <2>1. k \in Nat /\ k <= Len(p) /\ k # 0
    BY <1>1
  <2>2. SubSeq(a, 1, k) = SubSeq(p, 1, k)
    BY <2>1 DEF Path
  <2>3. SubSeq(p, 1, k) \in Path /\ Len(SubSeq(p, 1, k)) = k
    BY <2>1 DEF Path
  <2>4. Len(<<>>) = 0
    OBVIOUS
  <2> QED
    BY <2>1, <2>2, <2>3, <2>4
<1>3. SubSeq(a, 1, Len(a)) = a
  BY <1>1 DEF Path
<1> HIDE DEF a
<1>4. Onto(<<>>) = {}
  BY DEF Onto
<1>5. ASSUME NEW b \in Onto(p) PROVE b \in Path /\ b # <<>> /\ Len(b) <= Len(p)
  <2>1. PICK k \in 1 .. Len(p) : b = SubSeq(p, 1, k)
    BY DEF Onto
  <2>2. k <= Len(p)
    BY <1>1
  <2> QED
    BY <1>2, <2>1, <2>2
<1>6. {SubSeq(a, 1, k) : k \in 1 .. Len(p)} = Onto(p)
  BY <1>2 DEF Onto
<1>7. 1 .. Len(a) = (1 .. Len(p)) \cup {Len(a)} /\ Len(a) - 1 = Len(p)
  BY <1>1
<1>8. Onto(a) = Onto(p) \cup {a}
  BY <1>3, <1>6, <1>7 DEF Onto
<1>9. Abstract!Ancestors(a) = Onto(p)
  BY <1>6, <1>7 DEF Abstract!Ancestors
<1>10. a \notin Onto(p)
  <2>1. ~(Len(a) <= Len(p))
    BY <1>1
  <2> QED
    BY <1>5, <2>1
<1> QED
  BY <1>4, <1>5, <1>8, <1>9, <1>10 DEF a

\* With an entry, all on the way to it are there, and are directories.
LEMMA WayThere ==
  ASSUME NEW h, Forest(h), NEW p \in Path, Find(h, p) # None
  PROVE  \A a \in Onto(p) : Find(h, a) # None /\ a \in DOMAIN FilesOf(h)
<1> DEFINE S == {q \in Path : Find(h, q) # None => \A a \in Onto(q) : Find(h, a) # None}
<1>1. <<>> \in S
  BY OntoSteps, EmptyPath, DirTreeAssumption
<1>2. ASSUME NEW q \in Path, q \in S, NEW n \in Name PROVE Append(q, n) \in S
  <2>1. Append(q, n) \in Path /\ Onto(Append(q, n)) = Onto(q) \cup {Append(q, n)}
    BY PathParts, OntoSteps
  <2>2. Find(h, Append(q, n)) # None => Find(h, q) # None
    BY FindIs
  <2> QED
    BY <1>2, <2>1, <2>2
<1> HIDE DEF S
<1>3. p \in S
  BY <1>1, <1>2, PathInduction
<1>4. \A a \in Onto(p) : a \in Path /\ a # <<>>
  BY OntoSteps, DirTreeAssumption
<1> QED
  BY <1>3, <1>4, FilesHave DEF S

\* fs with the directories on the way along p.
Made(fs, p) ==
  [q \in DOMAIN fs \cup Onto(p) |-> IF q \in DOMAIN fs THEN fs[q] ELSE Abstract!Dir]

LEMMA MadeAlready ==
  ASSUME NEW h, Forest(h), NEW p, \A a \in Onto(p) : a \in DOMAIN FilesOf(h)
  PROVE  Made(FilesOf(h), p) = FilesOf(h)
<1>1. DOMAIN FilesOf(h) \cup Onto(p) = DOMAIN FilesOf(h)
  OBVIOUS
<1>2. FilesOf(h) = [q \in DOMAIN FilesOf(h) |-> FilesOf(h)[q]]
  BY FilesAre
<1> QED
  BY <1>1, <1>2 DEF Made

Clear(fs, p) == \A a \in Onto(p) : ~Abstract!IsFile(fs, a)

\* The way is made unless a file is on it.  If it is made, its directories are all
\* that is new; if it is not, nothing is.
LEMMA WayIs ==
  ASSUME NEW h, Forest(h), NEW indexed \in BOOLEAN, NEW p \in Path,
         Cardinality(Free(h)) >= Len(p), NEW w, w = Way(h, p, indexed)
  PROVE  /\ Forest(w.heap) /\ Grows(h, w.heap)
         /\ Cardinality(Free(w.heap)) + Len(p) >= Cardinality(Free(h))
         /\ w.ok = Clear(FilesOf(h), p)
         /\ w.ok => /\ w.at \in Node /\ Find(w.heap, p) = w.at /\ w.heap[w.at].kind = "dir"
                    /\ FilesOf(w.heap) = Made(FilesOf(h), p)
         /\ ~w.ok => FilesOf(w.heap) = FilesOf(h)
<1> DEFINE F == FilesOf(h)
           Good(v, q) ==
             /\ Forest(v.heap) /\ Grows(h, v.heap)
             /\ Cardinality(Free(v.heap)) + Len(q) >= Cardinality(Free(h))
             /\ v.ok = (\A a \in Onto(q) : ~Abstract!IsFile(F, a))
             /\ v.ok => /\ v.at \in Node /\ Find(v.heap, q) = v.at /\ v.heap[v.at].kind = "dir"
                        /\ FilesOf(v.heap) = Made(F, q)
             /\ ~v.ok => FilesOf(v.heap) = F
           S == {q \in Path : Cardinality(Free(h)) >= Len(q) => Good(Way(h, q, indexed), q)}
<1>1. <<>> \in S
  <2> DEFINE v == Begin(h)
  <2>1. Way(h, <<>>, indexed) = v /\ v.heap = h /\ v.at = Root /\ v.ok = TRUE
    BY WaySteps, EmptyPath DEF Begin
  <2>2. Onto(<<>>) = {} /\ Len(<<>>) = 0
    BY EmptyPath, OntoSteps, DirTreeAssumption
  <2>3. Find(h, <<>>) = Root /\ Root \in Node /\ h[Root].kind = "dir"
    BY EmptyPath, FindIs, Numbers DEF Forest, OnlyInDirectories
  <2>4. Grows(h, h) /\ Cardinality(Free(h)) \in Nat
    BY FreeIs DEF Grows
  <2>5. Made(F, <<>>) = F
    BY <2>2, EmptyPath, MadeAlready
  <2> HIDE DEF v
  <2>7. \A a \in Onto(<<>>) : ~Abstract!IsFile(F, a)
    BY <2>2
  <2>8. Cardinality(Free(h)) + 0 >= Cardinality(Free(h))
    BY <2>4
  <2> HIDE DEF F
  <2>6. Good(v, <<>>)
    BY <2>1, <2>2, <2>3, <2>4, <2>5, <2>7, <2>8 DEF F
  <2> HIDE DEF Good
  <2> QED
    BY <2>1, <2>6, EmptyPath
<1>2. ASSUME NEW q \in Path, q \in S, NEW n \in Name PROVE Append(q, n) \in S
  <2> DEFINE r == Append(q, n)
             v == Way(h, q, indexed)
             u == Way(h, r, indexed)
             M == Made(F, q)
  <2>1. /\ r \in Path /\ r # <<>> /\ Len(q) \in Nat /\ Len(r) = Len(q) + 1
        /\ u = Descend(v, n, indexed)
    <3>1. u = Descend(v, n, indexed)
      BY WaySteps
    <3> QED
      BY <3>1, PathParts
  <2>2. Onto(r) = Onto(q) \cup {r} /\ r \notin Onto(q)
    BY OntoSteps
  <2> SUFFICES ASSUME Cardinality(Free(h)) >= Len(r) PROVE Good(u, r)
    BY <2>1
  <2>3. Good(v, q)
    <3>1. Cardinality(Free(h)) >= Len(q)
      BY <2>1, FreeIs
    <3> HIDE DEF Good
    <3> QED
      BY <1>2, <3>1
  <2>4. Cardinality(Free(h)) \in Nat /\ Cardinality(Free(v.heap)) \in Nat
    BY FreeIs
  <2> HIDE DEF r, v, u, F, M
  <2>5. CASE ~v.ok
    <3>1. u = v
      BY <2>1, <2>5 DEF Descend
    <3>2. Cardinality(Free(v.heap)) + Len(r) >= Cardinality(Free(h))
      BY <2>1, <2>3, <2>4
    <3>3. ~(\A a \in Onto(q) : ~Abstract!IsFile(F, a))
      BY <2>3, <2>5
    <3>4. ~(\A a \in Onto(r) : ~Abstract!IsFile(F, a))
      BY <2>2, <3>3
    <3>5. v.ok = (\A a \in Onto(r) : ~Abstract!IsFile(F, a))
      BY <2>3, <3>3, <3>4
    <3> QED
      BY <2>3, <2>5, <3>1, <3>2, <3>5
  <2>6. CASE v.ok
    <3> DEFINE d == v.at
               g == IF indexed THEN Indexed(v.heap, d) ELSE v.heap
               c == IF indexed THEN Child(g, d, n) ELSE findChildFold(g, d, n)
               x == NewNode(g)
    <3>1. d \in Node /\ Find(v.heap, q) = d /\ v.heap[d].kind = "dir" /\ FilesOf(v.heap) = M
          /\ Forest(v.heap) /\ Grows(h, v.heap)
      BY <2>3, <2>6 DEF M
    <3>2. Forest(g) /\ SameTree(v.heap, g)
      BY <3>1, IndexedIs DEF SameTree
    <3>3. c = findChildFold(g, d, n)
      BY <3>1, <3>2, IndexedIs
    <3>4. u = IF c = None
                THEN [heap |-> Leaf(g, d, x, "dir", n, NoHash), at |-> x, ok |-> TRUE]
                ELSE [heap |-> g, at |-> c, ok |-> IsDirectory(g, c)]
      <4>1. [g EXCEPT ![x] = Fresh("dir", n, NoHash)] = Labelled(g, x, Fresh("dir", n, NoHash))
        BY DEF Labelled
      <4> QED
        BY <2>1, <2>6, <4>1 DEF Descend, Leaf
    <3> HIDE DEF g, c, x
    <3>5. /\ Find(g, q) = d /\ g[d].kind = "dir" /\ FilesOf(g) = M /\ Grows(h, g)
          /\ Free(g) = Free(v.heap)
      <4>1. Find(g, q) = d /\ FilesOf(g) = M
        BY <3>1, <3>2, SameTreeFiles
      <4>2. Grows(v.heap, g)
        BY <3>2, SameTreeGrows
      <4>3. Grows(h, g)
        BY <3>1, <4>2, GrowsTrans
      <4>4. Free(g) = Free(v.heap)
        BY <3>2, FreeSame
      <4>5. g[d].kind = "dir"
        BY <3>1, <3>2 DEF SameTree
      <4> QED
        BY <4>1, <4>3, <4>4, <4>5
    <3> HIDE DEF d
    <3>6. Find(g, r) = c /\ c \in Node \cup {None}
      <4>1. Find(g, r) = findChildFold(g, d, n)
        BY <3>1, <3>2, <3>5, FindIs, Numbers DEF r
      <4> QED
        BY <2>1, <3>2, <3>3, <4>1, FindIs
    <3>7. DOMAIN M = DOMAIN F \cup Onto(q) /\ \A a \in DOMAIN F : M[a] = F[a]
      BY DEF M, Made
    <3>8. r \in DOMAIN F <=> c # None
      <4>1. r \in DOMAIN M <=> c # None
        BY <2>1, <3>2, <3>5, <3>6, FilesHave
      <4> QED
        BY <2>2, <3>7, <4>1
    <3>9. CASE c = None
      <4> DEFINE f == Leaf(g, d, x, "dir", n, NoHash)
      <4>1. x \in Node /\ g[x].kind = "unused"
        <5>1. Cardinality(Free(g)) >= 1
          BY <2>1, <2>3, <2>4, <3>5
        <5> QED
          BY <5>1, FreeIs, NewNodeIs DEF x
      <4>2. /\ Forest(f) /\ Grows(g, f) /\ Free(f) = Free(g) \ {x}
            /\ \A a \in Path : Find(f, a) = IF a = r THEN x ELSE Find(g, a)
            /\ f[x].kind = "dir"
            /\ FilesOf(f) = With(FilesOf(g), r, [kind |-> "dir", hash |-> NoHash])
        <5>1. "dir" \in {"dir", "file"} /\ NoHash \in Hash \cup {NoHash}
          OBVIOUS
        <5> HIDE DEF f
        <5>2. f = Leaf(g, d, x, "dir", n, NoHash)
          BY DEF f
        <5>3. q \in Path /\ n \in Name /\ findChildFold(g, d, n) = None /\ Find(g, q) = d
              /\ d \in Node /\ g[d].kind = "dir" /\ Forest(g)
          BY <3>1, <3>2, <3>3, <3>5, <3>9
        <5>4. /\ Forest(f) /\ Grows(g, f) /\ Free(f) = Free(g) \ {x}
              /\ \A a \in Path : Find(f, a) = IF a = Append(q, n) THEN x ELSE Find(g, a)
              /\ f[x].kind = "dir"
              /\ FilesOf(f) = With(FilesOf(g), Append(q, n), [kind |-> "dir", hash |-> NoHash])
          BY <4>1, <5>1, <5>2, <5>3, LeafIs
        <5> QED
          BY <5>4 DEF r
      <4>3. u.heap = f /\ u.at = x /\ u.ok = TRUE
        BY <3>4, <3>9
      <4> HIDE DEF f
      <4>4. Grows(h, f)
        BY <3>5, <4>2, GrowsTrans
      <4>5. Cardinality(Free(f)) + Len(r) >= Cardinality(Free(h))
        <5>1. x \in Free(g)
          BY <4>1 DEF Free
        <5>2. Cardinality(Free(f)) = Cardinality(Free(g)) - 1
          BY <4>2, <5>1, FreeIs, FS_RemoveElement
        <5> QED
          BY <2>1, <2>3, <2>4, <3>5, <5>2
      <4>6. FilesOf(f) = Made(F, r)
        <5>1. DOMAIN M \cup {r} = DOMAIN F \cup Onto(r)
          BY <2>2, <3>7
        <5>2. ASSUME NEW a \in DOMAIN M \cup {r}
              PROVE  (IF a = r THEN [kind |-> "dir", hash |-> NoHash] ELSE M[a])
                       = IF a \in DOMAIN F THEN F[a] ELSE Abstract!Dir
          BY <3>7, <3>8, <3>9 DEF M, Made, Abstract!Dir
        <5> QED
          BY <3>5, <4>2, <5>1, <5>2 DEF Made, With
      <4>7. \A a \in Onto(r) : ~Abstract!IsFile(F, a)
        BY <2>2, <2>3, <2>6, <3>8, <3>9 DEF Abstract!IsFile, Abstract!Exists
      <4>8. Find(f, r) = x
        BY <2>1, <4>2
      <4> QED
        BY <4>1, <4>2, <4>3, <4>4, <4>5, <4>6, <4>7, <4>8
    <3>10. CASE c # None
      <4>1. u.heap = g /\ u.at = c /\ u.ok = (g[c].kind = "dir")
        BY <3>4, <3>10 DEF IsDirectory
      <4>2. c \in Node /\ g[c].kind \in {"dir", "file"}
        <5>1. \E k \in DOMAIN g[d].kids : g[d].kids[k] = c
          <6>1. findChildFold(g, d, n) # None /\ g \in Heap /\ NamesDiffer(g)
            BY <3>2, <3>3, <3>10 DEF Forest
          <6> QED
            BY <3>1, <3>3, <6>1, KidIs
        <5>2. c \in Node /\ g[c].kind # "unused"
          BY <3>1, <3>2, <3>6, <3>10, <5>1 DEF Forest, InOnePlace
        <5> QED
          BY <3>2, <5>2, NodeFields DEF Forest
      <4>3. F[r].kind = g[c].kind
        BY <2>1, <3>2, <3>5, <3>6, <3>7, <3>8, <3>10, FilesHave
      <4>4. (g[c].kind = "dir") = (\A a \in Onto(r) : ~Abstract!IsFile(F, a))
        BY <2>2, <2>3, <2>6, <3>8, <3>10, <4>2, <4>3 DEF Abstract!IsFile, Abstract!Exists
      <4>5. \A a \in Onto(r) : a \in DOMAIN F
        <5>1. Find(h, r) # None
          BY <2>1, <3>8, <3>10, FilesHave DEF F
        <5> QED
          BY <2>1, <5>1, WayThere DEF F
      <4>6. M = F /\ Made(F, r) = F
        BY <2>2, <4>5, MadeAlready DEF F, M
      <4>7. Cardinality(Free(g)) + Len(r) >= Cardinality(Free(h))
        BY <2>1, <2>3, <2>4, <3>5
      <4> QED
        BY <3>2, <3>5, <3>6, <4>1, <4>2, <4>4, <4>6, <4>7
    <3> QED
      BY <3>9, <3>10
  <2> QED
    BY <2>5, <2>6
<1> HIDE DEF S
<1>3. p \in S
  BY <1>1, <1>2, PathInduction
<1> QED
  BY <1>3 DEF S, Clear

LEMMA PutIs ==
  ASSUME NEW fs, NEW P \in Path, NEW n \in Name, NEW e
  PROVE  Abstract!Put(fs, Append(P, n), e) = With(Made(fs, P), Append(P, n), e)
<1> DEFINE p == Append(P, n)
<1>1. Abstract!Ancestors(p) = Onto(P)
  BY OntoSteps
<1> HIDE DEF p
<1>2. DOMAIN Made(fs, P) = DOMAIN fs \cup Onto(P)
  BY DEF Made
<1>3. \A q \in DOMAIN fs \cup Onto(P) \cup {p} :
        (IF q = p THEN e ELSE IF q \in DOMAIN fs THEN fs[q] ELSE Abstract!Dir)
          = IF q = p THEN e ELSE Made(fs, P)[q]
  BY DEF Made
<1>4. Abstract!Put(fs, p, e) =
        [q \in DOMAIN fs \cup Onto(P) \cup {p} |->
           IF q = p THEN e ELSE IF q \in DOMAIN fs THEN fs[q] ELSE Abstract!Dir]
  BY <1>1 DEF Abstract!Put, Abstract!Exists
<1> QED
  BY <1>2, <1>3, <1>4 DEF With, p

-----------------------------------------------------------------------------
(* The operations.  What each does to the paths is what PathTree says of it.  *)

Does(h, r, can, after) ==
  /\ Forest(r.heap)
  /\ r.ok = can
  /\ FilesOf(r.heap) = IF can THEN after ELSE FilesOf(h)

LEMMA LookupDoes ==
  ASSUME NEW h, Forest(h), NEW p \in Path, p # <<>>
  PROVE  /\ Forest(Lookup(h, p).heap) /\ FilesOf(Lookup(h, p).heap) = FilesOf(h)
         /\ Lookup(h, p).ok = Abstract!Exists(FilesOf(h), p)
         /\ Lookup(h, p).ok => Lookup(h, p).at = Find(h, p)
<1>1. /\ Forest(Walk(h, p).heap) /\ SameTree(h, Walk(h, p).heap)
      /\ Walk(h, p).ok = (Find(h, p) # None)
      /\ Find(h, p) # None => Walk(h, p).at = Find(h, p)
  BY WalkIs
<1>2. FilesOf(Walk(h, p).heap) = FilesOf(h)
  BY <1>1, SameTreeFiles
<1>3. Abstract!Exists(FilesOf(h), p) = (Find(h, p) # None)
  BY FilesHave DEF Abstract!Exists
<1> QED
  BY <1>1, <1>2, <1>3 DEF Lookup

\* The end of the way: what is there, if anything, was there before.
Arrived(h, P, n, w, g) ==
  /\ Forest(w.heap)
  /\ w.ok = Abstract!CanReach(FilesOf(h), Append(P, n))
  /\ ~w.ok => FilesOf(w.heap) = FilesOf(h)
  /\ w.ok =>
       /\ w.at \in Node /\ Find(g, P) = w.at /\ g[w.at].kind = "dir" /\ Grows(h, g)
       /\ FilesOf(g) = Made(FilesOf(h), P)
       /\ Find(g, Append(P, n)) = findChildFold(g, w.at, n)
       /\ findChildFold(g, w.at, n) \in Node \cup {None}
       /\ Append(P, n) \in DOMAIN FilesOf(h) <=> findChildFold(g, w.at, n) # None
       /\ findChildFold(g, w.at, n) # None =>
            /\ FilesOf(g) = FilesOf(h)
            /\ FilesOf(h)[Append(P, n)] = EntryOf(g, findChildFold(g, w.at, n))
            /\ g[findChildFold(g, w.at, n)].kind \in {"dir", "file"}
       /\ Cardinality(Free(g)) + Len(P) >= Cardinality(Free(h))

LEMMA Arrival ==
  ASSUME NEW h, Forest(h), NEW indexed \in BOOLEAN, NEW P \in Path, NEW n \in Name,
         Cardinality(Free(h)) >= Len(P), NEW w, w = Way(h, P, indexed),
         NEW g, w.ok => Forest(g) /\ SameTree(w.heap, g)
  PROVE  Arrived(h, P, n, w, g)
<1> DEFINE p == Append(P, n)
           F == FilesOf(h)
           d == w.at
           c == findChildFold(g, d, n)
<1>1. /\ Forest(w.heap) /\ Grows(h, w.heap)
      /\ Cardinality(Free(w.heap)) + Len(P) >= Cardinality(Free(h))
      /\ w.ok = Clear(F, P)
      /\ w.ok => /\ w.at \in Node /\ Find(w.heap, P) = w.at /\ w.heap[w.at].kind = "dir"
                 /\ FilesOf(w.heap) = Made(F, P)
      /\ ~w.ok => FilesOf(w.heap) = F
  BY WayIs
<1>2. Abstract!Ancestors(p) = Onto(P) /\ p \notin Onto(P) /\ p \in Path /\ p # <<>>
      /\ Onto(p) = Onto(P) \cup {p}
  <2>1. Abstract!Ancestors(p) = Onto(P) /\ p \notin Onto(P) /\ Onto(p) = Onto(P) \cup {p}
    BY OntoSteps
  <2> QED
    BY <2>1, PathParts
<1> HIDE DEF p, F
<1>3. w.ok = Abstract!CanReach(F, p)
  BY <1>1, <1>2 DEF Abstract!CanReach, Clear
<1>4. ASSUME w.ok
      PROVE  /\ d \in Node /\ Find(g, P) = d /\ g[d].kind = "dir" /\ Grows(h, g)
             /\ FilesOf(g) = Made(F, P) /\ Find(g, p) = c /\ c \in Node \cup {None}
             /\ p \in DOMAIN F <=> c # None
             /\ c # None => FilesOf(g) = F /\ F[p] = EntryOf(g, c) /\ g[c].kind \in {"dir", "file"}
             /\ Cardinality(Free(g)) + Len(P) >= Cardinality(Free(h))
  <2> DEFINE M == Made(F, P)
  <2>1. d \in Node /\ Find(w.heap, P) = d /\ w.heap[d].kind = "dir" /\ FilesOf(w.heap) = M
        /\ Forest(g) /\ SameTree(w.heap, g)
    BY <1>1, <1>4
  <2>2. Find(g, P) = d /\ FilesOf(g) = M
    BY <1>1, <2>1, SameTreeFiles
  <2>3. g[d].kind = "dir" /\ Grows(h, g)
    <3>1. Grows(w.heap, g)
      BY <2>1, SameTreeGrows
    <3>2. Grows(h, g)
      BY <1>1, <3>1, GrowsTrans
    <3> QED
      BY <2>1, <3>2 DEF SameTree
  <2> HIDE DEF d, c
  <2>4. Find(g, p) = c /\ c \in Node \cup {None}
    <3>1. Find(g, Append(P, n)) = findChildFold(g, d, n)
      BY <2>1, <2>2, FindIs, Numbers
    <3>2. Find(g, p) = c
      BY <3>1 DEF p, c
    <3> QED
      BY <1>2, <2>1, <3>2, FindIs
  <2>5. DOMAIN M = DOMAIN F \cup Onto(P) /\ \A a \in DOMAIN F : M[a] = F[a]
    BY DEF Made
  <2> HIDE DEF M
  <2>6. p \in DOMAIN F <=> c # None
    <3>1. p \in DOMAIN M <=> c # None
      BY <1>2, <2>1, <2>2, <2>4, FilesHave
    <3> QED
      BY <1>2, <2>5, <3>1
  <2>7. ASSUME c # None PROVE FilesOf(g) = F /\ F[p] = EntryOf(g, c) /\ g[c].kind \in {"dir", "file"}
    <3>1. \A a \in Onto(p) : a \in DOMAIN F
      <4>1. Find(h, p) # None
        BY <1>2, <2>6, <2>7, FilesHave DEF F
      <4> QED
        BY <1>2, <4>1, WayThere DEF F
    <3>2. M = F
      BY <1>2, <3>1, MadeAlready DEF F, M
    <3>3. F[p] = EntryOf(g, c)
      BY <1>2, <2>1, <2>2, <2>4, <2>7, <3>2, FilesHave
    <3>4. \E k \in DOMAIN g[d].kids : g[d].kids[k] = c
      <4>1. g \in Heap /\ NamesDiffer(g)
        BY <2>1 DEF Forest
      <4> QED
        BY <2>1, <2>7, <4>1, KidIs DEF c
    <3>5. c \in Node /\ g[c].kind # "unused" /\ g \in Heap
      BY <2>1, <2>4, <2>7, <3>4 DEF Forest, InOnePlace
    <3>6. g[c].kind \in {"dir", "file"}
      BY <3>5, NodeFields
    <3> QED
      BY <2>2, <3>2, <3>3, <3>6
  <2>8. Cardinality(Free(g)) + Len(P) >= Cardinality(Free(h))
    BY <1>1, <2>1, FreeSame
  <2> QED
    BY <2>1, <2>2, <2>3, <2>4, <2>6, <2>7, <2>8 DEF M
<1>5. ~w.ok => FilesOf(w.heap) = F
  BY <1>1
<1> QED
  BY <1>1, <1>3, <1>4, <1>5 DEF Arrived, p, F, d, c

Rehashed(g, c, hash) == [g EXCEPT ![c].hash = hash]

\* Another hash for what is at a path.
LEMMA HashIs ==
  ASSUME NEW g, Forest(g), NEW p \in Path, p # <<>>, NEW c \in Node, Find(g, p) = c, c # Root,
         g[c].kind \in {"dir", "file"}, NEW hash \in Hash, NEW f, f = Rehashed(g, c, hash)
  PROVE  /\ Forest(f)
         /\ FilesOf(f) = With(FilesOf(g), p, [kind |-> g[c].kind, hash |-> hash])
<1> DEFINE r == [g[c] EXCEPT !.hash = hash]
<1>1. g[c] \in NodeType /\ g \in Heap
  BY NodeFields DEF Forest
<1>2. /\ r \in NodeType /\ r.kind = g[c].kind /\ r.name = g[c].name /\ r.hash = hash
      /\ r.kids = g[c].kids /\ r.spare = g[c].spare /\ r.index = g[c].index
  BY <1>1 DEF NodeType
<1>3. f = Labelled(g, c, r)
  BY DEF Labelled, Rehashed
<1>4. r.kids = <<>> \/ r.kind = "dir"
  BY <1>2 DEF Forest, OnlyInDirectories
<1> HIDE DEF r
<1>5. /\ Forest(f) /\ f[c] = r
      /\ \A y \in Node : y # c => f[y] = g[y]
      /\ \A y \in Node, n \in Name : findChildFold(f, y, n) = findChildFold(g, y, n)
  <2>1. r.kind # "unused" /\ (r.kind = "dir" \/ (r.kids = <<>> /\ c # Root))
    BY <1>2, <1>4
  <2> QED
    BY <1>2, <1>3, <2>1, LabelIs
<1>6. \A q \in Path : Find(f, q) = Find(g, q)
  BY <1>5, FindSame
<1>7. Found(f) = DOMAIN FilesOf(g) \cup {p}
  <2>1. Found(f) = Found(g) /\ p \in Found(g)
    BY <1>6, Numbers DEF Found
  <2> QED
    BY <2>1, FilesDomain
<1>8. ASSUME NEW q \in Found(f)
      PROVE  EntryOf(f, Find(f, q))
               = IF q = p THEN [kind |-> g[c].kind, hash |-> hash] ELSE FilesOf(g)[q]
  <2> DEFINE y == Find(g, q)
  <2>1. q \in Path /\ q # <<>> /\ Find(f, q) = y /\ y # None
    BY <1>6 DEF Found
  <2>2. y \in Node /\ FilesOf(g)[q] = EntryOf(g, y)
    BY <2>1, FindIs, FilesHave
  <2>3. y = c => q = p
    BY <2>1, UniquePath
  <2>4. q = p => y = c
    OBVIOUS
  <2> HIDE DEF y
  <2> QED
    BY <1>2, <1>5, <2>1, <2>2, <2>3, <2>4 DEF EntryOf
<1>9. FilesOf(f) = [q \in Found(f) |-> EntryOf(f, Find(f, q))]
  BY <1>5, FilesAre
<1> QED
  BY <1>5, <1>7, <1>8, <1>9 DEF With

LEMMA ArrivalIndexed ==
  ASSUME NEW h, Forest(h), NEW P \in Path, NEW n \in Name,
         Cardinality(Free(h)) >= Len(P), NEW w, w = Way(h, P, TRUE),
         NEW g, g = Indexed(w.heap, w.at)
  PROVE  w.ok => /\ Forest(g) /\ SameTree(w.heap, g)
                 /\ Child(g, w.at, n) = findChildFold(g, w.at, n)
<1> SUFFICES ASSUME w.ok
             PROVE  /\ Forest(g) /\ SameTree(w.heap, g)
                    /\ Child(g, w.at, n) = findChildFold(g, w.at, n)
  OBVIOUS
<1>1. Forest(w.heap) /\ w.at \in Node
  <2>1. TRUE \in BOOLEAN
    OBVIOUS
  <2> QED
    BY <2>1, WayIs
<1>2. Forest(g) /\ SameTree(w.heap, g)
  BY <1>1, IndexedIs
<1> QED
  BY <1>1, <1>2, IndexedIs

LEMMA AddDoes ==
  ASSUME NEW h, Forest(h), NEW p \in Path, p # <<>>, NEW hash \in Hash,
         Cardinality(Free(h)) >= Len(p)
  PROVE  Does(h, Add(h, p, hash), Abstract!CanAdd(FilesOf(h), p), Abstract!AfterAdd(FilesOf(h), p, hash))
<1> DEFINE P == Front(p)
           n == Last(p)
           F == FilesOf(h)
           w == Way(h, P, TRUE)
           d == w.at
           g == Indexed(w.heap, d)
           leaf == findChildFold(g, d, n)
           x == NewNode(g)
           r == Add(h, p, hash)
           can == Abstract!CanAdd(F, p)
           after == Abstract!AfterAdd(F, p, hash)
<1>1. P \in Path /\ n \in Name /\ p = Append(P, n) /\ Len(P) \in Nat /\ Len(p) = Len(P) + 1
      /\ Cardinality(Free(h)) \in Nat
  BY PathParts, FreeIs
<1>2. r = IF ~w.ok THEN Error(w.heap)
          ELSE IF Child(g, d, n) = None THEN Done(Leaf(g, d, x, "file", n, hash))
          ELSE IF IsDirectory(g, Child(g, d, n)) THEN Error(g)
          ELSE Done(Rehashed(g, Child(g, d, n), hash))
  BY DEF Add, MakeWay, Leaf, Labelled, Rehashed
<1> HIDE DEF P, n, w, r
<1>3. w = Way(h, P, TRUE) /\ Cardinality(Free(h)) >= Len(P) /\ TRUE \in BOOLEAN
  BY <1>1 DEF w
<1> HIDE DEF g
<1>4. w.ok => Forest(g) /\ SameTree(w.heap, g) /\ Child(g, d, n) = leaf
  BY <1>1, <1>3, ArrivalIndexed DEF g
<1>5. /\ Forest(w.heap)
      /\ w.ok = Abstract!CanReach(F, p)
      /\ ~w.ok => FilesOf(w.heap) = F
      /\ w.ok =>
           /\ d \in Node /\ Find(g, P) = d /\ g[d].kind = "dir"
           /\ FilesOf(g) = Made(F, P)
           /\ Find(g, p) = leaf /\ leaf \in Node \cup {None}
           /\ p \in DOMAIN F <=> leaf # None
           /\ leaf # None => /\ FilesOf(g) = F
                             /\ F[p] = EntryOf(g, leaf) /\ g[leaf].kind \in {"dir", "file"}
           /\ Cardinality(Free(g)) + Len(P) >= Cardinality(Free(h))
  <2>1. Arrived(h, P, n, w, g)
    BY <1>1, <1>3, <1>4, Arrival
  <2> QED
    BY <1>1, <2>1 DEF Arrived
<1> HIDE DEF d, leaf, x, F
<1>6. after = With(Made(F, P), p, [kind |-> "file", hash |-> hash])
  <2>1. after = Abstract!Put(F, p, [kind |-> "file", hash |-> hash])
    BY DEF Abstract!AfterAdd, Abstract!File
  <2> QED
    BY <1>1, <2>1, PutIs
<1>7. can = (Abstract!CanReach(F, p) /\ ~(p \in DOMAIN F /\ F[p].kind = "dir"))
  BY DEF Abstract!CanAdd, Abstract!IsDir, Abstract!Exists
<1> HIDE DEF can, after
<1> SUFFICES Forest(r.heap) /\ r.ok = can /\ FilesOf(r.heap) = IF can THEN after ELSE F
  BY DEF Does, can, after, F, r
<1>8. CASE ~w.ok
  <2>1. r.heap = w.heap /\ r.ok = FALSE
    BY <1>2, <1>8 DEF Error
  <2> QED
    BY <1>5, <1>7, <1>8, <2>1
<1>9. CASE w.ok /\ leaf = None
  <2> DEFINE f == Leaf(g, d, x, "file", n, hash)
  <2>1. r.heap = f /\ r.ok = TRUE
    BY <1>2, <1>4, <1>9 DEF Done
  <2>2. x \in Node /\ g[x].kind = "unused"
    <3>1. Cardinality(Free(g)) >= 1
      <4>1. Cardinality(Free(g)) \in Nat
        BY FreeIs
      <4> QED
        BY <1>1, <1>5, <1>9, <4>1
    <3> QED
      BY <3>1, FreeIs, NewNodeIs DEF x
  <2>3. Forest(f) /\ FilesOf(f) = With(FilesOf(g), p, [kind |-> "file", hash |-> hash])
    <3>1. /\ "file" \in {"dir", "file"} /\ hash \in Hash \cup {NoHash}
          /\ findChildFold(g, d, n) = None /\ Find(g, P) = d
          /\ d \in Node /\ g[d].kind = "dir" /\ Forest(g)
      BY <1>4, <1>5, <1>9 DEF leaf
    <3>2. f = Leaf(g, d, x, "file", n, hash)
      OBVIOUS
    <3> HIDE DEF f
    <3>3. Forest(f) /\ FilesOf(f) = With(FilesOf(g), Append(P, n), [kind |-> "file", hash |-> hash])
      BY <1>1, <2>2, <3>1, <3>2, LeafIs
    <3> QED
      BY <1>1, <3>3
  <2> HIDE DEF f
  <2>4. can = TRUE
    BY <1>5, <1>7, <1>9
  <2> QED
    BY <1>5, <1>6, <1>9, <2>1, <2>3, <2>4
<1>10. CASE w.ok /\ leaf # None
  <2>1. leaf \in Node /\ FilesOf(g) = F /\ Made(F, P) = F /\ F[p].kind = g[leaf].kind
    BY <1>5, <1>10 DEF EntryOf
  <2>2. CASE g[leaf].kind = "dir"
    <3>1. r.heap = g /\ r.ok = FALSE
      BY <1>2, <1>4, <1>10, <2>2 DEF Error, IsDirectory
    <3>2. can = FALSE
      BY <1>5, <1>7, <1>10, <2>1, <2>2
    <3> QED
      BY <1>4, <1>10, <2>1, <3>1, <3>2
  <2>3. CASE g[leaf].kind = "file"
    <3> DEFINE f == Rehashed(g, leaf, hash)
    <3>1. r.heap = f /\ r.ok = TRUE
      BY <1>2, <1>4, <1>10, <2>3 DEF Done, IsDirectory
    <3>2. leaf # Root
      BY <1>4, <1>10, <2>3 DEF Forest, OnlyInDirectories
    <3>3. Forest(f) /\ FilesOf(f) = With(F, p, [kind |-> "file", hash |-> hash])
      <4>1. f = Rehashed(g, leaf, hash) /\ Forest(g) /\ Find(g, p) = leaf
            /\ g[leaf].kind \in {"dir", "file"}
        BY <1>4, <1>5, <1>10
      <4> HIDE DEF f
      <4>2. Forest(f) /\ FilesOf(f) = With(FilesOf(g), p, [kind |-> g[leaf].kind, hash |-> hash])
        BY <2>1, <3>2, <4>1, HashIs
      <4> QED
        BY <2>1, <2>3, <4>2
    <3> HIDE DEF f
    <3>4. can = TRUE
      BY <1>5, <1>7, <1>10, <2>1, <2>3
    <3> QED
      BY <1>6, <2>1, <3>1, <3>3, <3>4
  <2> QED
    BY <1>5, <1>10, <2>2, <2>3
<1> QED
  BY <1>8, <1>9, <1>10

LEMMA PlaceDoes ==
  ASSUME NEW h, Forest(h), NEW p \in Path, p # <<>>, NEW hash \in Hash,
         Cardinality(Free(h)) >= Len(p)
  PROVE  Does(h, placeFile(h, p, hash), Abstract!CanPlace(FilesOf(h), p),
              Abstract!AfterPlace(FilesOf(h), p, hash))
<1> DEFINE P == Front(p)
           n == Last(p)
           F == FilesOf(h)
           w == Way(h, P, FALSE)
           d == w.at
           g == w.heap
           leaf == findChildFold(g, d, n)
           x == NewNode(g)
           r == placeFile(h, p, hash)
           can == Abstract!CanPlace(F, p)
           after == Abstract!AfterPlace(F, p, hash)
           e == IF p \in DOMAIN F /\ F[p].kind = "dir" THEN [F[p] EXCEPT !.hash = hash]
                ELSE [kind |-> "file", hash |-> hash]
<1>1. P \in Path /\ n \in Name /\ p = Append(P, n) /\ Len(P) \in Nat /\ Len(p) = Len(P) + 1
      /\ Cardinality(Free(h)) \in Nat
  BY PathParts, FreeIs
<1>2. r = IF ~w.ok THEN Error(g)
          ELSE IF leaf = None THEN Done(Leaf(g, d, x, "file", n, hash))
          ELSE Done(Rehashed(g, leaf, hash))
  BY DEF placeFile, MakeWay, Leaf, Labelled, Rehashed
<1> HIDE DEF P, n, w, r
<1>3. w = Way(h, P, FALSE) /\ Cardinality(Free(h)) >= Len(P) /\ FALSE \in BOOLEAN
  BY <1>1 DEF w
<1>4. Forest(w.heap)
  BY <1>1, <1>3, WayIs
<1>5. /\ Forest(w.heap)
      /\ w.ok = Abstract!CanReach(F, p)
      /\ ~w.ok => FilesOf(w.heap) = F
      /\ w.ok =>
           /\ d \in Node /\ Find(g, P) = d /\ g[d].kind = "dir"
           /\ FilesOf(g) = Made(F, P)
           /\ Find(g, p) = leaf /\ leaf \in Node \cup {None}
           /\ p \in DOMAIN F <=> leaf # None
           /\ leaf # None => /\ FilesOf(g) = F
                             /\ F[p] = EntryOf(g, leaf) /\ g[leaf].kind \in {"dir", "file"}
           /\ Cardinality(Free(g)) + Len(P) >= Cardinality(Free(h))
  <2>1. SameTree(w.heap, w.heap)
    BY DEF SameTree
  <2>2. Arrived(h, P, n, w, g)
    BY <1>1, <1>3, <1>4, <2>1, Arrival
  <2> QED
    BY <1>1, <2>2 DEF Arrived
<1> HIDE DEF d, g, leaf, x, F
<1>6. after = With(Made(F, P), p, e)
  <2>1. after = Abstract!Put(F, p, e)
    BY DEF Abstract!AfterPlace, Abstract!File, Abstract!IsDir, Abstract!Exists
  <2> QED
    BY <1>1, <2>1, PutIs
<1>7. can = Abstract!CanReach(F, p)
  BY DEF Abstract!CanPlace
<1> HIDE DEF can, after
<1> SUFFICES Forest(r.heap) /\ r.ok = can /\ FilesOf(r.heap) = IF can THEN after ELSE F
  BY DEF Does, can, after, F, r
<1>8. CASE ~w.ok
  <2>1. r.heap = g /\ r.ok = FALSE
    BY <1>2, <1>8 DEF Error
  <2>2. can = FALSE /\ Forest(g) /\ FilesOf(g) = F
    BY <1>5, <1>7, <1>8 DEF g
  <2> QED
    BY <2>1, <2>2
<1>9. CASE w.ok /\ leaf = None
  <2> DEFINE f == Leaf(g, d, x, "file", n, hash)
  <2>1. r.heap = f /\ r.ok = TRUE
    BY <1>2, <1>9 DEF Done
  <2>2. x \in Node /\ g[x].kind = "unused"
    <3>1. Cardinality(Free(g)) >= 1
      <4>1. Cardinality(Free(g)) \in Nat
        BY FreeIs
      <4> QED
        BY <1>1, <1>5, <1>9, <4>1
    <3> QED
      BY <3>1, FreeIs, NewNodeIs DEF x
  <2>3. Forest(f) /\ FilesOf(f) = With(FilesOf(g), p, [kind |-> "file", hash |-> hash])
    <3>1. /\ "file" \in {"dir", "file"} /\ hash \in Hash \cup {NoHash}
          /\ findChildFold(g, d, n) = None /\ Find(g, P) = d
          /\ d \in Node /\ g[d].kind = "dir" /\ Forest(g)
      BY <1>4, <1>5, <1>9 DEF leaf, g
    <3>2. f = Leaf(g, d, x, "file", n, hash)
      OBVIOUS
    <3> HIDE DEF f
    <3>3. Forest(f) /\ FilesOf(f) = With(FilesOf(g), Append(P, n), [kind |-> "file", hash |-> hash])
      BY <1>1, <2>2, <3>1, <3>2, LeafIs
    <3> QED
      BY <1>1, <3>3
  <2> HIDE DEF f
  <2>4. can = TRUE /\ e = [kind |-> "file", hash |-> hash]
    BY <1>5, <1>7, <1>9
  <2> QED
    BY <1>5, <1>6, <1>9, <2>1, <2>3, <2>4
<1>10. CASE w.ok /\ leaf # None
  <2> DEFINE f == Rehashed(g, leaf, hash)
  <2>1. leaf \in Node /\ FilesOf(g) = F /\ Made(F, P) = F /\ F[p] = EntryOf(g, leaf) /\ p \in DOMAIN F
    BY <1>5, <1>10
  <2>2. r.heap = f /\ r.ok = TRUE
    BY <1>2, <1>10 DEF Done
  <2>3. leaf # Root
    <3>1. Find(g, Append(P, n)) = leaf /\ Forest(g)
      BY <1>1, <1>4, <1>5, <1>10 DEF g
    <3> QED
      BY <1>1, <1>10, <3>1, FoundKid
  <2>4. e = [kind |-> g[leaf].kind, hash |-> hash]
    <3>1. g[leaf].kind \in {"dir", "file"}
      BY <1>5, <1>10
    <3> QED
      BY <2>1, <3>1 DEF EntryOf
  <2>5. Forest(f) /\ FilesOf(f) = With(F, p, e)
    <3>1. f = Rehashed(g, leaf, hash) /\ Forest(g) /\ Find(g, p) = leaf
          /\ g[leaf].kind \in {"dir", "file"}
      BY <1>4, <1>5, <1>10 DEF g
    <3> HIDE DEF f
    <3>2. Forest(f) /\ FilesOf(f) = With(FilesOf(g), p, [kind |-> g[leaf].kind, hash |-> hash])
      BY <2>1, <2>3, <3>1, HashIs
    <3> HIDE DEF e
    <3> QED
      BY <2>1, <2>4, <3>2
  <2> HIDE DEF f, e
  <2>6. can = TRUE
    BY <1>5, <1>7, <1>10
  <2> QED
    BY <1>6, <2>1, <2>2, <2>5, <2>6
<1> QED
  BY <1>8, <1>9, <1>10

\* With a child, its paths are gone.
LEMMA CutFiles ==
  ASSUME NEW h, Forest(h), NEW P \in Path, NEW d \in Node, Find(h, P) = d,
         NEW i \in DOMAIN h[d].kids, NEW n \in Name, n = h[h[d].kids[i]].name,
         NEW g, g = CutChild(h, d, i)
  PROVE  Forest(g) /\ FilesOf(g) = Abstract!AfterRemove(FilesOf(h), Append(P, n))
<1> DEFINE p == Append(P, n)
           F == FilesOf(h)
           left == {q \in DOMAIN F : ~Abstract!Within(p, q)}
<1>1. /\ Forest(g)
      /\ \A x \in Node : g[x].kind = h[x].kind /\ g[x].name = h[x].name /\ g[x].hash = h[x].hash
  BY CutIs
<1>2. \A q \in Path : Find(g, q) = IF Abstract!Within(p, q) THEN None ELSE Find(h, q)
  BY CutFinds
<1> HIDE DEF p
<1>3. Found(g) = left
  <2>1. DOMAIN F = Found(h)
    BY FilesDomain
  <2> QED
    BY <1>2, <2>1 DEF Found
<1>4. ASSUME NEW q \in Found(g) PROVE EntryOf(g, Find(g, q)) = F[q]
  <2>1. q \in Path /\ q # <<>> /\ Find(g, q) = Find(h, q) /\ Find(h, q) # None
    BY <1>2 DEF Found
  <2>2. F[q] = EntryOf(h, Find(h, q)) /\ Find(h, q) \in Node
    BY <2>1, FilesHave, FindIs
  <2> QED
    BY <1>1, <2>1, <2>2 DEF EntryOf
<1>5. FilesOf(g) = [q \in Found(g) |-> EntryOf(g, Find(g, q))]
  BY <1>1, FilesAre
<1>6. FilesOf(g) = [q \in left |-> F[q]]
  BY <1>3, <1>4, <1>5
<1> QED
  BY <1>1, <1>6 DEF Abstract!AfterRemove, p

LEMMA RemoveDoes ==
  ASSUME NEW h, Forest(h), NEW p \in Path, p # <<>>
  PROVE  Does(h, RemoveEntry(h, p), Abstract!CanRemove(FilesOf(h), p), Abstract!AfterRemove(FilesOf(h), p))
<1> DEFINE P == Front(p)
           n == Last(p)
           F == FilesOf(h)
           w == Walk(h, P)
           d == w.at
           g == w.heap
           c == findChildFold(g, d, n)
           i == Position(g, d, n)
           r == RemoveEntry(h, p)
           can == Abstract!CanRemove(F, p)
           after == Abstract!AfterRemove(F, p)
<1>1. P \in Path /\ n \in Name /\ p = Append(P, n)
  BY PathParts
<1>2. r = IF ~w.ok \/ c = None THEN Error(g) ELSE Done(CutChild(g, d, i))
  BY DEF RemoveEntry
<1> HIDE DEF P, n, r
<1>3. /\ Forest(g) /\ SameTree(h, g)
      /\ w.ok = (Find(h, P) # None)
      /\ Find(h, P) # None => d = Find(h, P)
  BY <1>1, WalkIs
<1> HIDE DEF w, g
<1>4. FilesOf(g) = F /\ Find(g, P) = Find(h, P) /\ Find(g, p) = Find(h, p)
  BY <1>1, <1>3, SameTreeFiles
<1>5. can = (Find(g, p) # None)
  BY <1>4, FilesHave DEF Abstract!CanRemove, Abstract!Exists
<1>6. Find(g, p) = IF w.ok THEN c ELSE None
  BY <1>1, <1>3, <1>4, FindIs
<1>7. w.ok => d \in Node /\ Find(g, P) = d
  BY <1>1, <1>3, <1>4, FindIs
<1> HIDE DEF c, d, i, can, after, F
<1> SUFFICES Forest(r.heap) /\ r.ok = can /\ FilesOf(r.heap) = IF can THEN after ELSE F
  BY DEF Does, can, after, F, r
<1>8. CASE ~w.ok \/ c = None
  <2>1. r.heap = g /\ r.ok = FALSE
    BY <1>2, <1>8 DEF Error
  <2>2. can = FALSE
    BY <1>5, <1>6, <1>8
  <2> QED
    BY <1>3, <1>4, <2>1, <2>2
<1>9. CASE w.ok /\ c # None
  <2> DEFINE f == CutChild(g, d, i)
  <2>1. r.heap = f /\ r.ok = TRUE
    BY <1>2, <1>9 DEF Done
  <2>2. can = TRUE
    BY <1>5, <1>6, <1>9
  <2>3. i \in DOMAIN g[d].kids /\ n = g[g[d].kids[i]].name
    <3>1. Grows(g, g)
      BY DEF Grows
    <3> QED
      BY <1>1, <1>3, <1>7, <1>9, <3>1, GrowsKid DEF c, i
  <2>4. f = CutChild(g, d, i)
    OBVIOUS
  <2> HIDE DEF f
  <2>5. Forest(f) /\ FilesOf(f) = Abstract!AfterRemove(FilesOf(g), Append(P, n))
    BY <1>1, <1>3, <1>7, <1>9, <2>3, <2>4, CutFiles
  <2>6. FilesOf(f) = after
    BY <1>1, <1>4, <2>5 DEF after
  <2> QED
    BY <2>1, <2>2, <2>5, <2>6
<1> QED
  BY <1>8, <1>9

\* What has no parent is not found, and so does not matter to what is.
LEMMA FindSameBut ==
  ASSUME NEW h, Forest(h), NEW g, Forest(g), NEW x \in Node, x # Root, NoParent(h, x),
         \A z \in Node, n \in Name : z # x => findChildFold(g, z, n) = findChildFold(h, z, n)
  PROVE  \A p \in Path : Find(g, p) = Find(h, p) /\ Find(h, p) # x
<1> DEFINE S == {p \in Path : Find(g, p) = Find(h, p) /\ Find(h, p) # x}
<1>1. <<>> \in S
  BY FindIs, EmptyPath
<1>2. ASSUME NEW p \in Path, p \in S, NEW n \in Name PROVE Append(p, n) \in S
  <2>1. Find(h, Append(p, n)) # x
    <3> SUFFICES ASSUME Find(h, Append(p, n)) = x PROVE FALSE
      OBVIOUS
    <3>1. Find(h, Append(p, n)) # None
      BY Numbers
    <3>2. Find(h, p) \in Node /\ \E k \in DOMAIN h[Find(h, p)].kids : h[Find(h, p)].kids[k] = x
      BY <3>1, FoundKid
    <3> QED
      BY <3>2 DEF NoParent
  <2>2. Find(g, Append(p, n)) = IF Find(g, p) = None THEN None ELSE findChildFold(g, Find(g, p), n)
    BY FindIs
  <2>3. /\ Find(h, Append(p, n)) = IF Find(h, p) = None THEN None ELSE findChildFold(h, Find(h, p), n)
        /\ Find(h, p) # None => Find(h, p) \in Node
    BY FindIs
  <2> QED
    BY <1>2, <2>1, <2>2, <2>3, PathParts
<1> HIDE DEF S
<1>3. Path \subseteq S
  BY <1>1, <1>2, PathInduction
<1> QED
  BY <1>3 DEF S

\* A directory with a file in it, put together first and appended then.
Subtree(h, d, x, n, y, name, hash) ==
  AppendChild(AppendChild(Labelled(Labelled(h, x, Fresh("dir", n, NoHash)), y, Fresh("file", name, hash)), x, y),
              d, x)

LEMMA SubtreeIs ==
  ASSUME NEW h, Forest(h), NEW P \in Path, NEW d \in Node, Find(h, P) = d, h[d].kind = "dir",
         NEW n \in Name, NEW name \in Name, NEW hash \in Hash, findChildFold(h, d, n) = None,
         NEW x \in Node, h[x].kind = "unused", NEW y \in Node, h[y].kind = "unused", x # y,
         NEW g, g = Subtree(h, d, x, n, y, name, hash)
  PROVE  /\ Forest(g)
         /\ FilesOf(g) = With(With(FilesOf(h), Append(P, n), Abstract!Dir),
                              Append(Append(P, n), name), Abstract!File(hash))
<1> DEFINE node == Labelled(h, x, Fresh("dir", n, NoHash))
           both == Labelled(node, y, Fresh("file", name, hash))
           whole == AppendChild(both, x, y)
           p == Append(P, n)
           q == Append(p, name)
<1>1. /\ Forest(node) /\ x # Root /\ NoParent(node, x)
      /\ node[x].kind = "dir" /\ node[x].name = n /\ node[x].hash = NoHash /\ node[x].kids = <<>>
      /\ \A z \in Node : z # x => node[z] = h[z]
      /\ \A z \in Node, m \in Name : findChildFold(node, z, m) = findChildFold(h, z, m)
      /\ \A m \in Name : findChildFold(node, x, m) = None
  <2>1. "dir" \in {"dir", "file"} /\ NoHash \in Hash \cup {NoHash}
    OBVIOUS
  <2> QED
    BY <2>1, FreshIs
<1> HIDE DEF node
<1>2. /\ Forest(both) /\ y # Root /\ NoParent(both, y)
      /\ both[y].kind = "file" /\ both[y].name = name /\ both[y].hash = hash /\ both[y].kids = <<>>
      /\ \A z \in Node : z # y => both[z] = node[z]
      /\ \A z \in Node, m \in Name : findChildFold(both, z, m) = findChildFold(node, z, m)
      /\ \A m \in Name : findChildFold(both, y, m) = None
  <2>1. "file" \in {"dir", "file"} /\ hash \in Hash \cup {NoHash} /\ node[y].kind = "unused"
    BY <1>1
  <2> QED
    BY <1>1, <2>1, FreshIs
<1> HIDE DEF both
<1>3. /\ both[x] = node[x]
      /\ NoParent(both, x)
  <2>1. \A z \in Node : \A k \in DOMAIN both[z].kids : z # y
    BY <1>2
  <2> QED
    BY <1>1, <1>2, <2>1 DEF NoParent
<1>4. /\ Forest(whole)
      /\ \A z \in Node : whole[z].kind = both[z].kind /\ whole[z].name = both[z].name /\ whole[z].hash = both[z].hash
      /\ whole[x].kids = Append(both[x].kids, y)
      /\ \A z \in Node : z # x => whole[z].kids = both[z].kids
      /\ findChildFold(whole, x, name) = y
      /\ \A z \in Node, m \in Name : z # x \/ m # name => findChildFold(whole, z, m) = findChildFold(both, z, m)
  <2>1. both[x].kind = "dir" /\ both[y].kind # "unused" /\ findChildFold(both, x, both[y].name) = None
    BY <1>1, <1>2, <1>3
  <2>2. whole = AppendChild(both, x, y)
    OBVIOUS
  <2> HIDE DEF whole
  <2> QED
    BY <1>2, <2>1, <2>2, AppendIs
<1> HIDE DEF whole
<1>5. NoParent(whole, x)
  <2>1. whole[x].kids = <<y>>
    BY <1>1, <1>3, <1>4
  <2>2. \A k \in DOMAIN whole[x].kids : whole[x].kids[k] # x
    BY <2>1
  <2> QED
    BY <1>3, <1>4, <2>2 DEF NoParent
<1>6. \A r \in Path : Find(whole, r) = Find(h, r)
  <2>1. \A r \in Path : Find(node, r) = Find(h, r)
    BY <1>1, FindSame
  <2>2. \A r \in Path : Find(both, r) = Find(node, r)
    BY <1>1, <1>2, FindSame
  <2>3. \A r \in Path : Find(whole, r) = Find(both, r)
    BY <1>1, <1>2, <1>3, <1>4, FindSameBut
  <2> QED
    BY <2>1, <2>2, <2>3
<1>7. d # x /\ d # y /\ Find(whole, P) = d /\ whole[d].kind = "dir" /\ whole[x].kind # "unused"
      /\ whole[x].name = n /\ findChildFold(whole, d, n) = None
  BY <1>1, <1>2, <1>3, <1>4, <1>6
<1>8. g = AppendChild(whole, d, x)
  BY DEF Subtree, whole, both, node
<1>9. /\ Forest(g)
      /\ \A z \in Node : g[z].kind = whole[z].kind /\ g[z].name = whole[z].name /\ g[z].hash = whole[z].hash
  BY <1>1, <1>4, <1>5, <1>7, <1>8, AppendIs
<1>10. /\ \A r \in Path : ~Abstract!Within(p, r) => Find(g, r) = Find(whole, r)
       /\ Find(g, p) = x
       /\ \A r \in Path, m \in Name : Abstract!Within(p, r) =>
            Find(g, Append(r, m)) = IF Find(g, r) = None THEN None ELSE findChildFold(whole, Find(g, r), m)
       /\ \A r \in Path : Abstract!Within(p, r) => Find(whole, r) = None
  BY <1>1, <1>4, <1>5, <1>7, <1>8, AppendFinds
<1>11. /\ p \in Path /\ q \in Path /\ p # <<>> /\ q # <<>> /\ Abstract!Within(p, p) /\ Abstract!Within(p, q)
       /\ p # q
  <2>1. p \in Path /\ p # <<>> /\ Len(p) \in Nat
    BY PathParts
  <2> HIDE DEF p
  <2>2. q \in Path /\ q # <<>> /\ Len(q) = Len(p) + 1
    BY <2>1, PathParts
  <2>3. p # q
    BY <2>1, <2>2
  <2> QED
    BY <2>1, <2>2, <2>3, WithinSteps
<1> HIDE DEF p
<1>12. \A m \in Name : findChildFold(whole, x, m) = (IF m = name THEN y ELSE None)
                       /\ findChildFold(whole, y, m) = None
  BY <1>1, <1>2, <1>4
<1>13. ASSUME NEW r \in Path
       PROVE  Find(g, r) = IF r = p THEN x ELSE IF r = q THEN y ELSE Find(h, r)
  <2> DEFINE at(a) == IF a = p THEN x ELSE IF a = q THEN y ELSE None
             S == {a \in Path : Abstract!Within(p, a) => Find(g, a) = at(a)}
  <2>1. <<>> \in S
    BY <1>11, WithinSteps, EmptyPath
  <2>2. ASSUME NEW a \in Path, a \in S, NEW m \in Name PROVE Append(a, m) \in S
    <3> SUFFICES ASSUME Abstract!Within(p, Append(a, m)), Append(a, m) # p
                 PROVE  Find(g, Append(a, m)) = at(Append(a, m))
      BY <1>10, PathParts
    <3>1. Abstract!Within(p, a)
      BY <1>11, WithinSteps
    <3>2. Find(g, a) = at(a)
      BY <2>2, <3>1
    <3>3. Find(g, Append(a, m)) = IF Find(g, a) = None THEN None ELSE findChildFold(whole, Find(g, a), m)
      BY <1>10, <3>1
    <3>4. Append(a, m) = q <=> a = p /\ m = name
      BY <1>11, SameAppend
    <3> HIDE DEF q
    <3> QED
      BY <1>12, <3>2, <3>3, <3>4, Numbers
  <2> HIDE DEF S
  <2>3. r \in S
    BY <2>1, <2>2, PathInduction
  <2>4. CASE Abstract!Within(p, r)
    BY <1>6, <1>10, <2>3, <2>4 DEF S
  <2>5. CASE ~Abstract!Within(p, r)
    BY <1>6, <1>10, <1>11, <2>5
  <2> QED
    BY <2>4, <2>5
<1> HIDE DEF q
<1>14. Found(g) = (DOMAIN FilesOf(h) \cup {p}) \cup {q}
  <2>1. Found(g) = Found(h) \cup {p, q}
    BY <1>11, <1>13, Numbers DEF Found
  <2> QED
    BY <2>1, FilesDomain
<1>15. EntryOf(g, x) = Abstract!Dir /\ EntryOf(g, y) = Abstract!File(hash)
  BY <1>1, <1>2, <1>3, <1>4, <1>9 DEF EntryOf, Abstract!Dir, Abstract!File
<1>16. ASSUME NEW r \in Found(g), r # p, r # q PROVE EntryOf(g, Find(g, r)) = FilesOf(h)[r]
  <2> DEFINE z == Find(h, r)
  <2>1. r \in Path /\ r # <<>> /\ Find(g, r) = z /\ z # None /\ z \in Node
    BY <1>13, <1>16, FindIs DEF Found
  <2>2. FilesOf(h)[r] = EntryOf(h, z)
    BY <2>1, FilesHave
  <2>3. Find(g, p) = x /\ Find(g, q) = y
    BY <1>11, <1>13
  <2> HIDE DEF z
  <2>4. z # x /\ z # y
    BY <1>9, <1>11, <1>16, <2>1, <2>3, UniquePath
  <2> QED
    BY <1>1, <1>2, <1>4, <1>9, <2>1, <2>2, <2>4 DEF EntryOf
<1>17. FilesOf(g) = [r \in Found(g) |-> EntryOf(g, Find(g, r))]
  BY <1>9, FilesAre
<1> DEFINE inner == With(FilesOf(h), p, Abstract!Dir)
<1>18. DOMAIN inner = DOMAIN FilesOf(h) \cup {p} /\ inner[p] = Abstract!Dir
       /\ \A r \in DOMAIN FilesOf(h) : r # p => inner[r] = FilesOf(h)[r]
  BY DEF With
<1> HIDE DEF inner
<1>19. ASSUME NEW r \in Found(g)
       PROVE  EntryOf(g, Find(g, r)) = IF r = q THEN Abstract!File(hash) ELSE inner[r]
  <2>1. CASE r = q
    BY <1>11, <1>13, <1>15, <2>1
  <2>2. CASE r = p
    BY <1>11, <1>13, <1>15, <1>18, <2>2
  <2>3. CASE r # p /\ r # q
    BY <1>14, <1>16, <1>18, <2>3
  <2> QED
    BY <2>1, <2>2, <2>3
<1>20. FilesOf(g) = With(inner, q, Abstract!File(hash))
  BY <1>14, <1>17, <1>18, <1>19 DEF With
<1> QED
  BY <1>9, <1>20 DEF inner, p, q

\* With an entry put where it was wanted, the way to it is made.
LEMMA PutTwice ==
  ASSUME NEW fs, NEW P \in Path, NEW n \in Name, NEW m \in Name, NEW a, NEW b
  PROVE  Abstract!Put(Abstract!Put(fs, Append(P, n), a), Append(Append(P, n), m), b)
           = With(With(Made(fs, P), Append(P, n), a), Append(Append(P, n), m), b)
<1> DEFINE p == Append(P, n)
           made == Made(fs, P)
           X == With(made, p, a)
<1>1. p \in Path /\ Onto(p) = Onto(P) \cup {p}
  BY PathParts, OntoSteps
<1>2. Abstract!Put(fs, p, a) = X
  BY PutIs
<1>3. Onto(P) \subseteq DOMAIN made
  BY DEF Made
<1> HIDE DEF p, made
<1>4. X = [q \in DOMAIN made \cup {p} |-> IF q = p THEN a ELSE made[q]]
  BY DEF With
<1>5. Onto(p) \subseteq DOMAIN X /\ X = [q \in DOMAIN X |-> X[q]]
  BY <1>1, <1>3, <1>4
<1> HIDE DEF X
<1>6. Made(X, p) = X
  <2>1. DOMAIN X \cup Onto(p) = DOMAIN X
    BY <1>5
  <2>2. Made(X, p) = [q \in DOMAIN X |-> X[q]]
    BY <2>1 DEF Made
  <2> QED
    BY <1>5, <2>2
<1>7. Abstract!Put(X, Append(p, m), b) = With(Made(X, p), Append(p, m), b)
  BY <1>1, PutIs
<1> QED
  BY <1>2, <1>6, <1>7 DEF X, p, made

LEMMA AttachDoes ==
  ASSUME NEW h, Forest(h), NEW p \in Path, p # <<>>, NEW name \in Name, NEW hash \in Hash,
         Cardinality(Free(h)) >= Len(p) + 1
  PROVE  Does(h, AttachAt(h, p, name, hash), Abstract!CanAttach(FilesOf(h), p),
              Abstract!AfterAttach(FilesOf(h), p, name, hash))
<1> DEFINE P == Front(p)
           n == Last(p)
           F == FilesOf(h)
           w == Way(h, P, TRUE)
           d == w.at
           g == Indexed(w.heap, d)
           leaf == findChildFold(g, d, n)
           x == NewNode(g)
           node == Labelled(g, x, Fresh("dir", n, NoHash))
           y == NewNode(node)
           r == AttachAt(h, p, name, hash)
           can == Abstract!CanAttach(F, p)
           after == Abstract!AfterAttach(F, p, name, hash)
<1>1. P \in Path /\ n \in Name /\ p = Append(P, n) /\ Len(P) \in Nat /\ Len(p) = Len(P) + 1
      /\ Cardinality(Free(h)) \in Nat
  BY PathParts, FreeIs
<1>2. r = IF ~w.ok THEN Error(w.heap)
          ELSE IF Child(g, d, n) # None THEN Error(g)
          ELSE Done(Subtree(g, d, x, n, y, name, hash))
  BY DEF AttachAt, MakeWay, Subtree, Labelled
<1> HIDE DEF P, n, w, r
<1>3. w = Way(h, P, TRUE) /\ Cardinality(Free(h)) >= Len(P) /\ TRUE \in BOOLEAN
  BY <1>1 DEF w
<1> HIDE DEF g
<1>4. w.ok => Forest(g) /\ SameTree(w.heap, g) /\ Child(g, d, n) = leaf
  BY <1>1, <1>3, ArrivalIndexed DEF g
<1>5. /\ Forest(w.heap)
      /\ w.ok = Abstract!CanReach(F, p)
      /\ ~w.ok => FilesOf(w.heap) = F
      /\ w.ok =>
           /\ d \in Node /\ Find(g, P) = d /\ g[d].kind = "dir"
           /\ FilesOf(g) = Made(F, P)
           /\ p \in DOMAIN F <=> leaf # None
           /\ leaf # None => FilesOf(g) = F
           /\ Cardinality(Free(g)) + Len(P) >= Cardinality(Free(h))
  <2>1. Arrived(h, P, n, w, g)
    BY <1>1, <1>3, <1>4, Arrival
  <2> QED
    BY <1>1, <2>1 DEF Arrived
<1> HIDE DEF d, leaf, F
<1>6. after = With(With(Made(F, P), p, Abstract!Dir), Append(p, name), Abstract!File(hash))
  BY <1>1, PutTwice DEF Abstract!AfterAttach
<1>7. can = (Abstract!CanReach(F, p) /\ p \notin DOMAIN F)
  BY DEF Abstract!CanAttach, Abstract!Exists
<1> HIDE DEF can, after
<1> SUFFICES Forest(r.heap) /\ r.ok = can /\ FilesOf(r.heap) = IF can THEN after ELSE F
  BY DEF Does, can, after, F, r
<1>8. CASE ~w.ok
  <2>1. r.heap = w.heap /\ r.ok = FALSE
    BY <1>2, <1>8 DEF Error
  <2> QED
    BY <1>5, <1>7, <1>8, <2>1
<1>9. CASE w.ok /\ leaf # None
  <2>1. r.heap = g /\ r.ok = FALSE
    BY <1>2, <1>4, <1>9 DEF Error
  <2>2. can = FALSE
    BY <1>5, <1>7, <1>9
  <2> QED
    BY <1>4, <1>5, <1>9, <2>1, <2>2
<1>10. CASE w.ok /\ leaf = None
  <2> DEFINE f == Subtree(g, d, x, n, y, name, hash)
  <2>1. r.heap = f /\ r.ok = TRUE
    BY <1>2, <1>4, <1>10 DEF Done
  <2>2. Cardinality(Free(g)) \in Nat /\ Cardinality(Free(g)) >= 2 /\ IsFiniteSet(Free(g))
    <3>1. Cardinality(Free(g)) \in Nat /\ IsFiniteSet(Free(g))
      BY FreeIs
    <3> QED
      BY <1>1, <1>5, <1>10, <3>1
  <2>3. x \in Node /\ g[x].kind = "unused"
    <3>1. Free(g) # {}
      BY <2>2, FreeIs
    <3> QED
      BY <3>1, NewNodeIs DEF x
  <2> HIDE DEF x
  <2>4. node[x].kind = "dir" /\ \A z \in Node : z # x => node[z] = g[z]
    <3>1. "dir" \in {"dir", "file"} /\ NoHash \in Hash \cup {NoHash} /\ Forest(g)
      BY <1>4, <1>10
    <3>2. node = Labelled(g, x, Fresh("dir", n, NoHash))
      OBVIOUS
    <3> HIDE DEF node
    <3> QED
      BY <1>1, <2>3, <3>1, <3>2, FreshIs
  <2> HIDE DEF node
  <2>5. y \in Node /\ node[y].kind = "unused"
    <3>1. Free(node) = Free(g) \ {x} /\ x \in Free(g)
      BY <2>3, <2>4 DEF Free
    <3>2. Cardinality(Free(node)) = Cardinality(Free(g)) - 1
      BY <2>2, <3>1, FS_RemoveElement
    <3>3. Free(node) # {}
      BY <2>2, <3>2, FreeIs
    <3> QED
      BY <3>3, NewNodeIs DEF y
  <2> HIDE DEF y
  <2>6. y # x /\ g[y].kind = "unused"
    BY <2>4, <2>5
  <2>7. findChildFold(g, d, n) = None /\ Find(g, P) = d /\ d \in Node /\ g[d].kind = "dir" /\ Forest(g)
        /\ f = Subtree(g, d, x, n, y, name, hash)
    BY <1>4, <1>5, <1>10 DEF leaf
  <2> HIDE DEF f
  <2>8. Forest(f) /\ FilesOf(f) = With(With(FilesOf(g), Append(P, n), Abstract!Dir),
                                       Append(Append(P, n), name), Abstract!File(hash))
    BY <1>1, <2>3, <2>5, <2>6, <2>7, SubtreeIs
  <2>9. FilesOf(f) = after
    BY <1>1, <1>5, <1>6, <1>10, <2>8
  <2>10. can = TRUE
    BY <1>5, <1>7, <1>10
  <2> QED
    BY <2>1, <2>8, <2>9, <2>10
<1> QED
  BY <1>8, <1>9, <1>10
-----------------------------------------------------------------------------
(* Moving an entry: paths that begin with one path begin with another.        *)

LEMMA WithinTrans ==
  ASSUME NEW a \in Path, NEW b \in Path, Abstract!Within(a, b)
  PROVE  \A q \in Path : Abstract!Within(b, q) => Abstract!Within(a, q)
<1> DEFINE S == {q \in Path : Abstract!Within(b, q) => Abstract!Within(a, q)}
<1>1. <<>> \in S
  BY WithinSteps, EmptyPath
<1>2. ASSUME NEW q \in Path, q \in S, NEW n \in Name PROVE Append(q, n) \in S
  <2>1. Append(q, n) \in Path
    BY PathParts
  <2>2. Abstract!Within(b, Append(q, n)) <=> b = Append(q, n) \/ Abstract!Within(b, q)
    BY WithinSteps
  <2>3. Abstract!Within(a, Append(q, n)) <=> a = Append(q, n) \/ Abstract!Within(a, q)
    BY WithinSteps
  <2> QED
    BY <1>2, <2>1, <2>2, <2>3
<1> HIDE DEF S
<1>3. Path \subseteq S
  BY <1>1, <1>2, PathInduction
<1> QED
  BY <1>3 DEF S

LEMMA OntoWithin ==
  ASSUME NEW a \in Path, NEW q \in Path, a # <<>>
  PROVE  a \in Onto(q) <=> Abstract!Within(a, q)
<1>1. Len(a) \in Nat /\ Len(a) # 0 /\ Len(q) \in Nat
  BY PathParts
<1>2. ASSUME Abstract!Within(a, q) PROVE a \in Onto(q)
  <2>1. Len(a) \in 1 .. Len(q) /\ a = SubSeq(q, 1, Len(a))
    BY <1>1, <1>2 DEF Abstract!Within
  <2> QED
    BY <2>1 DEF Onto
<1>3. ASSUME a \in Onto(q) PROVE Abstract!Within(a, q)
  <2>1. PICK k \in 1 .. Len(q) : a = SubSeq(q, 1, k)
    BY <1>3 DEF Onto
  <2>2. k \in Nat /\ k <= Len(q)
    BY <1>1
  <2>3. Len(a) = k
    BY <2>1, <2>2 DEF Path
  <2> QED
    BY <2>1, <2>2, <2>3 DEF Abstract!Within
<1> QED
  BY <1>2, <1>3

LEMMA PrefixIs ==
  ASSUME NEW a \in Path, NEW q \in Path
  PROVE  IsPrefix(a, q) = Abstract!Within(a, q)
<1>1. SubSeq(a, 1, Len(a)) = a
  BY DEF Path
<1> QED
  BY <1>1 DEF IsPrefix, Abstract!Within

\* The path s, which begins with a, with b in the place of a.
Moved(a, b, s) == b \o SubSeq(s, Len(a) + 1, Len(s))

LEMMA SliceIs ==
  ASSUME NEW s \in Path, NEW e \in 0 .. Len(s), NEW l \in 0 .. e
  PROVE  /\ SubSeq(s, l + 1, e) \in Seq(Name) /\ Len(SubSeq(s, l + 1, e)) = e - l
         /\ \A i \in 1 .. e - l : SubSeq(s, l + 1, e)[i] = s[l + i]
<1>1. s \in Seq(Name) /\ Len(s) \in Nat /\ e \in Nat /\ l \in Nat /\ e <= Len(s) /\ l <= e
  BY PathParts DEF Path
<1>2. \A i \in l + 1 .. e : s[i] \in Name
  BY <1>1
<1>3. SubSeq(s, l + 1, e) \in Seq(Name)
  BY <1>1, <1>2, SubSeqProperties
<1>4. Len(SubSeq(s, l + 1, e)) = e - l
  BY <1>1
<1>5. ASSUME NEW i \in 1 .. e - l PROVE SubSeq(s, l + 1, e)[i] = s[l + i]
  BY <1>1
<1> QED
  BY <1>3, <1>4, <1>5

LEMMA MovedSteps ==
  ASSUME NEW a \in Path, NEW b \in Path
  PROVE  /\ Moved(a, b, a) = b
         /\ \A s \in Path, k \in Name : Len(a) <= Len(s) =>
              Moved(a, b, Append(s, k)) = Append(Moved(a, b, s), k)
<1>1. Len(a) \in Nat /\ Len(b) \in Nat
  BY PathParts
<1>2. Moved(a, b, a) = b
  <2>1. SubSeq(a, Len(a) + 1, Len(a)) = <<>>
    BY <1>1, SubSeqEmpty
  <2> QED
    BY <2>1, ConcatEmptySeq DEF Moved, Path
<1>3. ASSUME NEW s \in Path, NEW k \in Name, Len(a) <= Len(s)
      PROVE  Moved(a, b, Append(s, k)) = Append(Moved(a, b, s), k)
  <2> DEFINE l == Len(a)
             t == SubSeq(s, l + 1, Len(s))
             u == SubSeq(Append(s, k), l + 1, Len(s) + 1)
  <2>1. Len(s) \in Nat /\ Append(s, k) \in Path /\ Len(Append(s, k)) = Len(s) + 1
        /\ Append(s, k)[Len(s) + 1] = k
        /\ (\A j \in 1 .. Len(s) : Append(s, k)[j] = s[j] /\ s[j] \in Name)
        /\ l \in Nat /\ l <= Len(s)
    BY <1>1, <1>3, PathParts
  <2> HIDE DEF l
  <2>2. t \in Seq(Name) /\ Len(t) = Len(s) - l /\ \A i \in 1 .. Len(s) - l : t[i] = s[l + i]
    <3>1. s \in Path /\ Len(s) \in 0 .. Len(s) /\ l \in 0 .. Len(s)
      BY <2>1
    <3> QED
      BY <3>1, SliceIs
  <2>3. u \in Seq(Name) /\ Len(u) = Len(s) + 1 - l
        /\ \A i \in 1 .. Len(s) + 1 - l : u[i] = Append(s, k)[l + i]
    <3> DEFINE z == Append(s, k)
               e == Len(s) + 1
    <3>1. z \in Path /\ e \in 0 .. Len(z) /\ l \in 0 .. e
      BY <2>1
    <3>2. u = SubSeq(z, l + 1, e)
      OBVIOUS
    <3> HIDE DEF z, e, u
    <3>3. u \in Seq(Name) /\ Len(u) = e - l /\ \A i \in 1 .. e - l : u[i] = z[l + i]
      BY <3>1, <3>2, SliceIs
    <3>4. e - l = Len(s) + 1 - l
      BY <2>1 DEF e
    <3> QED
      BY <3>3, <3>4 DEF z
  <2> HIDE DEF t, u
  <2>4. u = Append(t, k)
    <3>1. Append(t, k) \in Seq(Name) /\ Len(Append(t, k)) = Len(u)
      BY <2>1, <2>2, <2>3
    <3>2. ASSUME NEW i \in 1 .. Len(u) PROVE u[i] = Append(t, k)[i]
      <4>1. CASE i = Len(t) + 1
        <5>1. l + i = Len(s) + 1
          BY <2>1, <2>2, <4>1
        <5>2. u[i] = k
          BY <2>1, <2>3, <5>1
        <5> QED
          BY <2>2, <4>1, <5>2
      <4>2. CASE i # Len(t) + 1
        <5>1. i \in 1 .. Len(t) /\ i \in 1 .. Len(s) - l /\ l + i \in 1 .. Len(s)
              /\ i \in 1 .. Len(s) + 1 - l
          <6>1. Len(u) = Len(s) + 1 - l /\ Len(t) = Len(s) - l
            BY <2>2, <2>3
          <6>2. i \in 1 .. Len(s) + 1 - l /\ i # Len(s) - l + 1
            BY <4>2, <6>1
          <6>3. i \in 1 .. Len(s) - l
            BY <2>1, <6>2
          <6> QED
            BY <2>1, <6>1, <6>2, <6>3
        <5>2. u[i] = s[l + i] /\ t[i] = s[l + i]
          BY <2>1, <2>2, <2>3, <5>1
        <5> QED
          BY <2>2, <5>1, <5>2
      <4> QED
        BY <4>1, <4>2
    <3> QED
      BY <2>3, <3>1, <3>2, SeqEqual
  <2>5. b \o Append(t, k) = Append(b \o t, k)
    <3>1. b \in Seq(Name) /\ <<k>> \in Seq(Name)
      BY DEF Path
    <3>2. (b \o t) \o <<k>> = b \o (t \o <<k>>)
      BY <2>2, <3>1, ConcatAssociative
    <3>3. Append(t, k) = t \o <<k>>
      BY <2>2
    <3>4. b \o t \in Seq(Name)
      BY <2>2, <3>1, ConcatProperties
    <3>5. Append(b \o t, k) = (b \o t) \o <<k>>
      BY <3>4
    <3> QED
      BY <3>2, <3>3, <3>5
  <2>6. Moved(a, b, s) = b \o t /\ Moved(a, b, Append(s, k)) = b \o u
    BY <2>1 DEF Moved, t, u, l
  <2> QED
    BY <2>4, <2>5, <2>6
<1> QED
  BY <1>2, <1>3

\* Moving is a matching of the paths that begin with the one and with the other.
LEMMA MovedIs ==
  ASSUME NEW a \in Path, NEW b \in Path
  PROVE  \A s \in Path : Abstract!Within(a, s) =>
           /\ Moved(a, b, s) \in Path /\ Abstract!Within(b, Moved(a, b, s))
           /\ Moved(b, a, Moved(a, b, s)) = s
<1> DEFINE Back(s) == /\ Moved(a, b, s) \in Path /\ Abstract!Within(b, Moved(a, b, s))
                      /\ Moved(b, a, Moved(a, b, s)) = s
           S == {s \in Path : Abstract!Within(a, s) => Back(s)}
<1>1. Back(a)
  <2>1. Moved(a, b, a) = b /\ Moved(b, a, b) = a
    BY MovedSteps
  <2> QED
    BY <2>1, WithinSteps
<1>2. <<>> \in S
  <2>1. Abstract!Within(a, <<>>) => a = <<>>
    BY WithinSteps
  <2> HIDE DEF Back
  <2> QED
    BY <1>1, <2>1, EmptyPath
<1>3. ASSUME NEW s \in Path, s \in S, NEW k \in Name PROVE Append(s, k) \in S
  <2>1. Append(s, k) \in Path
    BY PathParts
  <2>2. Abstract!Within(a, Append(s, k)) <=> a = Append(s, k) \/ Abstract!Within(a, s)
    BY WithinSteps
  <2>3. ASSUME Abstract!Within(a, s) PROVE Back(Append(s, k))
    <3> DEFINE t == Moved(a, b, s)
    <3>1. t \in Path /\ Abstract!Within(b, t) /\ Moved(b, a, t) = s
      BY <1>3, <2>3
    <3>2. Moved(a, b, Append(s, k)) = Append(t, k)
      BY <2>3, MovedSteps, WithinSteps
    <3> HIDE DEF t
    <3>3. Moved(b, a, Append(t, k)) = Append(s, k)
      <4>1. Len(b) <= Len(t)
        BY <3>1, WithinSteps
      <4>2. Moved(b, a, Append(t, k)) = Append(Moved(b, a, t), k)
        BY <3>1, <4>1, MovedSteps
      <4> QED
        BY <3>1, <4>2
    <3>4. Append(t, k) \in Path /\ Abstract!Within(b, Append(t, k))
      BY <3>1, PathParts, WithinSteps
    <3> QED
      BY <3>2, <3>3, <3>4
  <2> HIDE DEF Back
  <2> QED
    BY <1>1, <2>1, <2>2, <2>3
<1> HIDE DEF S
<1>4. Path \subseteq S
  BY <1>2, <1>3, PathInduction
<1> QED
  BY <1>4 DEF S

\* What is found below an entry is at a path that begins with the entry's.
LEMMA BelowWithin ==
  ASSUME NEW h, Forest(h), NEW o \in Path, Find(h, o) # None,
         NEW q \in Path, Find(h, q) \in Below(h, Find(h, o))
  PROVE  Abstract!Within(o, q)
<1> DEFINE S == {z \in Node : \A s \in Path : Find(h, s) = z => Abstract!Within(o, s)}
<1>1. Find(h, o) \in S
  <2>1. \A s \in Path : Find(h, s) = Find(h, o) => s = o
    BY UniquePath
  <2> QED
    BY <2>1, FindIs, WithinSteps
<1>2. ASSUME NEW z \in S, NEW k \in DOMAIN h[z].kids PROVE h[z].kids[k] \in S
  <2> DEFINE x == h[z].kids[k]
  <2>1. h \in Heap /\ InOnePlace(h) /\ z \in Node
    BY DEF Forest
  <2>2. x \in Node /\ x # Root
    BY <2>1, NodeFields DEF InOnePlace
  <2> SUFFICES ASSUME NEW s \in Path, Find(h, s) = x PROVE Abstract!Within(o, s)
    BY <2>2
  <2>3. s # <<>>
    BY <2>2, FindIs
  <2>4. PICK a \in Path, l \in Name : s = Append(a, l)
    BY <2>3, LastName
  <2>5. Find(h, Append(a, l)) = x /\ x # None
    BY <2>2, <2>4, Numbers
  <2> HIDE DEF x
  <2>6. Find(h, a) \in Node /\ \E j \in DOMAIN h[Find(h, a)].kids : h[Find(h, a)].kids[j] = x
    BY <2>5, FoundKid
  <2>7. Find(h, a) = z
    BY <2>1, <2>6 DEF InOnePlace, x
  <2>8. Abstract!Within(o, a)
    BY <2>7
  <2>9. Abstract!Within(o, Append(a, l))
    BY <2>8, WithinSteps
  <2> QED
    BY <2>4, <2>9
<1>3. S \in SUBSET Node /\ ClosedUnder(h, S)
  BY <1>2 DEF ClosedUnder
<1>4. Find(h, q) \in S
  BY <1>1, <1>3 DEF Below
<1> QED
  BY <1>4

\* An entry taken from one directory, given another name and put into another.
Relinked(g, d, i, c, e, m) ==
  AppendChild(Labelled(CutChild(g, d, i), c, [CutChild(g, d, i)[c] EXCEPT !.name = m]), e, c)

LEMMA MoveFinds ==
  ASSUME NEW g, Forest(g), NEW P \in Path, NEW n \in Name, NEW d \in Node, Find(g, P) = d,
         NEW i \in DOMAIN g[d].kids, NEW c, c = g[d].kids[i], n = g[c].name,
         NEW Q \in Path, NEW m \in Name, NEW e \in Node, Find(g, Q) = e, g[e].kind = "dir",
         findChildFold(g, e, m) = None, ~Abstract!Within(Append(P, n), Q),
         NEW f, f = Relinked(g, d, i, c, e, m)
  PROVE  /\ Forest(f)
         /\ \A x \in Node : EntryOf(f, x) = EntryOf(g, x)
         /\ \A q \in Path : ~Abstract!Within(Append(Q, m), q) =>
              Find(f, q) = IF Abstract!Within(Append(P, n), q) THEN None ELSE Find(g, q)
         /\ \A q \in Path : Abstract!Within(Append(Q, m), q) /\ ~Abstract!Within(Append(P, n), q) =>
              Find(g, q) = None
         /\ \A s \in Path : Abstract!Within(Append(P, n), s) =>
              Find(f, Moved(Append(P, n), Append(Q, m), s)) = Find(g, s)
<1> DEFINE old == Append(P, n)
           new == Append(Q, m)
           cut == CutChild(g, d, i)
           r == [cut[c] EXCEPT !.name = m]
           b == Labelled(cut, c, r)
<1>1. g \in Heap /\ c \in Node /\ c # Root /\ g[c].kind # "unused"
  BY NodeFields DEF Forest, InOnePlace
<1>2. /\ Forest(cut) /\ NoParent(cut, c)
      /\ \A x \in Node : cut[x].kind = g[x].kind /\ cut[x].name = g[x].name /\ cut[x].hash = g[x].hash
      /\ findChildFold(cut, d, n) = None
      /\ \A x \in Node, k \in Name :
           x # d \/ k # n => findChildFold(cut, x, k) = findChildFold(g, x, k)
  <2>1. cut = CutChild(g, d, i)
    OBVIOUS
  <2> HIDE DEF cut
  <2> QED
    BY <2>1, CutIs
<1>3. \A q \in Path : Find(cut, q) = IF Abstract!Within(old, q) THEN None ELSE Find(g, q)
  <2>1. cut = CutChild(g, d, i)
    OBVIOUS
  <2> HIDE DEF cut
  <2> QED
    BY <2>1, CutFinds
<1>4. f = AppendChild(b, e, c)
  BY DEF Relinked
<1> HIDE DEF cut
<1>5. /\ r \in NodeType /\ r.kind = cut[c].kind /\ r.name = m /\ r.hash = cut[c].hash
      /\ r.kids = cut[c].kids /\ r.spare = cut[c].spare /\ r.index = cut[c].index
  <2>1. cut[c] \in NodeType
    BY <1>1, <1>2, NodeFields DEF Forest
  <2> QED
    BY <2>1 DEF NodeType
<1> HIDE DEF r
<1>6. /\ Forest(b) /\ b[c] = r
      /\ \A y \in Node : y # c => b[y] = cut[y]
      /\ NoParent(b, c)
      /\ \A y \in Node, k \in Name : findChildFold(b, y, k) = findChildFold(cut, y, k)
  <2>1. r.kind # "unused" /\ (r.kind = "dir" \/ (r.kids = <<>> /\ c # Root))
    BY <1>1, <1>2, <1>5 DEF Forest, OnlyInDirectories
  <2>2. b = Labelled(cut, c, r)
    OBVIOUS
  <2> HIDE DEF b
  <2> QED
    BY <1>1, <1>2, <1>5, <2>1, <2>2, LabelIs
<1> HIDE DEF b
<1>7. \A x \in Node : b[x].kind = g[x].kind /\ b[x].hash = g[x].hash
  BY <1>1, <1>2, <1>5, <1>6
<1>8. \A q \in Path : Find(b, q) = IF Abstract!Within(old, q) THEN None ELSE Find(g, q)
  <2>1. \A q \in Path : Find(b, q) = Find(cut, q)
    BY <1>2, <1>6, FindSame
  <2> QED
    BY <1>3, <2>1
<1>9. /\ Find(b, Q) = e /\ b[e].kind = "dir" /\ b[c].kind # "unused" /\ m = b[c].name
      /\ findChildFold(b, e, b[c].name) = None
  <2>1. findChildFold(b, e, m) = None
    BY <1>2, <1>6
  <2> QED
    BY <1>1, <1>5, <1>6, <1>7, <1>8, <2>1
<1>10. /\ Forest(f)
       /\ \A x \in Node : f[x].kind = b[x].kind /\ f[x].hash = b[x].hash
  BY <1>1, <1>4, <1>6, <1>9, AppendIs
<1>11. /\ \A q \in Path : ~Abstract!Within(new, q) => Find(f, q) = Find(b, q)
       /\ Find(f, new) = c
       /\ \A q \in Path, k \in Name : Abstract!Within(new, q) =>
            Find(f, Append(q, k)) = IF Find(f, q) = None THEN None ELSE findChildFold(b, Find(f, q), k)
       /\ \A q \in Path : Abstract!Within(new, q) => Find(b, q) = None
  BY <1>1, <1>4, <1>6, <1>9, AppendFinds
<1>12. old \in Path /\ new \in Path /\ Len(old) = Len(P) + 1 /\ Len(P) \in Nat /\ old # <<>>
  BY PathParts
<1>13. Find(g, old) = c
  <2>1. findChildFold(g, d, n) = c
    BY <1>1, KidIs DEF Forest
  <2> QED
    BY <2>1, FindIs, Numbers
<1> HIDE DEF old, new
<1> DEFINE S == {s \in Path : Abstract!Within(old, s) => Find(f, Moved(old, new, s)) = Find(g, s)}
<1>14. <<>> \in S
  BY <1>12, WithinSteps, EmptyPath
<1>15. ASSUME NEW s \in Path, s \in S, NEW k \in Name PROVE Append(s, k) \in S
  <2>1. Append(s, k) \in Path
    BY PathParts
  <2> SUFFICES ASSUME Abstract!Within(old, Append(s, k))
               PROVE  Find(f, Moved(old, new, Append(s, k))) = Find(g, Append(s, k))
    BY <2>1
  <2>2. CASE old = Append(s, k)
    <3>1. Moved(old, new, old) = new
      BY <1>12, MovedSteps
    <3> QED
      BY <1>11, <1>13, <2>2, <3>1
  <2>3. CASE Abstract!Within(old, s)
    <3> DEFINE t == Moved(old, new, s)
               z == Find(g, s)
    <3>1. t \in Path /\ Abstract!Within(new, t) /\ Find(f, t) = z
      BY <1>12, <1>15, <2>3, MovedIs
    <3>2. Moved(old, new, Append(s, k)) = Append(t, k)
      BY <1>12, <2>3, MovedSteps, WithinSteps
    <3>3. z # None => z \in Node
      BY FindIs
    <3>4. ASSUME z # None PROVE z # d
      <4> SUFFICES ASSUME z = d PROVE FALSE
        OBVIOUS
      <4>1. s = P
        BY <3>4, UniquePath
      <4>2. Len(old) <= Len(P)
        BY <1>12, <2>3, <4>1, WithinSteps
      <4> QED
        BY <1>12, <4>2
    <3>5. z # None => findChildFold(b, z, k) = findChildFold(g, z, k)
      BY <1>2, <1>6, <3>3, <3>4
    <3>6. Find(g, Append(s, k)) = IF z = None THEN None ELSE findChildFold(g, z, k)
      BY FindIs
    <3> HIDE DEF t, z
    <3>7. Find(f, Append(t, k)) = IF z = None THEN None ELSE findChildFold(b, z, k)
      BY <1>11, <3>1
    <3> QED
      BY <3>2, <3>5, <3>6, <3>7
  <2> QED
    BY <1>12, <2>2, <2>3, WithinSteps
<1> HIDE DEF S
<1>16. Path \subseteq S
  BY <1>14, <1>15, PathInduction
<1>17. \A s \in Path : Abstract!Within(old, s) => Find(f, Moved(old, new, s)) = Find(g, s)
  BY <1>16 DEF S
<1>18. \A x \in Node : EntryOf(f, x) = EntryOf(g, x)
  BY <1>7, <1>10 DEF EntryOf
<1> QED
  BY <1>8, <1>10, <1>11, <1>17, <1>18 DEF old, new

\* The paths have moved with the entry.
LEMMA MoveFiles ==
  ASSUME NEW g, Forest(g), NEW f, Forest(f), NEW old \in Path, NEW Q \in Path, NEW m \in Name,
         NEW F, DOMAIN F \subseteq Path, FilesOf(g) = Made(F, Q), old \in DOMAIN F,
         old # <<>>, ~Abstract!Within(old, Q),
         \A x \in Node : EntryOf(f, x) = EntryOf(g, x),
         \A q \in Path : ~Abstract!Within(Append(Q, m), q) =>
           Find(f, q) = IF Abstract!Within(old, q) THEN None ELSE Find(g, q),
         \A q \in Path : Abstract!Within(Append(Q, m), q) /\ ~Abstract!Within(old, q) => Find(g, q) = None,
         \A s \in Path : Abstract!Within(old, s) => Find(f, Moved(old, Append(Q, m), s)) = Find(g, s)
  PROVE  FilesOf(f) = Abstract!AfterRename(F, old, Append(Q, m))
<1> DEFINE new == Append(Q, m)
           M(s) == Moved(old, new, s)
           G == FilesOf(g)
           below == {r \in DOMAIN F : Abstract!Within(old, r)}
           left == {r \in DOMAIN F : ~Abstract!Within(old, r)}
           made == Abstract!Put(Abstract!AfterRemove(F, old), new, F[old])
           image == {M(s) : s \in below}
           after == Abstract!AfterRename(F, old, new)
<1>1. new \in Path /\ new # <<>> /\ Len(new) = Len(Q) + 1 /\ Len(Q) \in Nat /\ new \notin Onto(Q)
      /\ Onto(Q) \subseteq Path /\ \A a \in Onto(Q) : a # <<>> /\ Len(a) <= Len(Q)
  <2>1. new \in Path /\ new # <<>> /\ Len(new) = Len(Q) + 1 /\ Len(Q) \in Nat
    BY PathParts
  <2> QED
    BY <2>1, OntoSteps
<1>2. after = [r \in DOMAIN made \cup image |->
                 IF \E s \in below : r = M(s) THEN F[CHOOSE s \in below : r = M(s)] ELSE made[r]]
  BY DEF Abstract!AfterRename, Moved
<1>3. /\ DOMAIN made = (left \cup Onto(Q)) \cup {new} /\ made[new] = F[old]
      /\ \A r \in left : r # new => made[r] = F[r]
      /\ \A r \in Onto(Q) : r \notin left => made[r] = Abstract!Dir
  <2> DEFINE R == Abstract!AfterRemove(F, old)
             K == Made(R, Q)
  <2>1. DOMAIN R = left /\ \A r \in left : R[r] = F[r]
    BY DEF Abstract!AfterRemove
  <2> HIDE DEF R
  <2>2. DOMAIN K = left \cup Onto(Q) /\ \A r \in DOMAIN K : K[r] = IF r \in left THEN F[r] ELSE Abstract!Dir
    BY <2>1 DEF Made
  <2>3. made = With(K, new, F[old])
    BY PutIs DEF R
  <2> HIDE DEF K
  <2>4. DOMAIN made = DOMAIN K \cup {new}
        /\ \A r \in DOMAIN made : made[r] = IF r = new THEN F[old] ELSE K[r]
    BY <2>3 DEF With
  <2> HIDE DEF made, left, new
  <2> QED
    BY <1>1, <2>2, <2>4
<1>4. DOMAIN G = DOMAIN F \cup Onto(Q)
      /\ \A r \in DOMAIN G : G[r] = IF r \in DOMAIN F THEN F[r] ELSE Abstract!Dir
  BY DEF Made
<1>5. \A a \in Onto(Q) : ~Abstract!Within(old, a) /\ ~Abstract!Within(new, a)
  <2> SUFFICES ASSUME NEW a \in Onto(Q)
               PROVE  ~Abstract!Within(old, a) /\ ~Abstract!Within(new, a)
    OBVIOUS
  <2>1. a \in Path /\ Len(a) <= Len(Q) /\ a # <<>> /\ Len(a) \in Nat
    BY <1>1, PathParts
  <2>2. Abstract!Within(a, Q)
    BY <2>1, OntoWithin
  <2>3. ~Abstract!Within(old, a)
    BY <2>1, <2>2, WithinTrans
  <2>4. ~(Len(new) <= Len(a))
    BY <1>1, <2>1
  <2> QED
    BY <1>1, <2>1, <2>3, <2>4, WithinSteps
<1> HIDE DEF new, G, made, M
<1>6. /\ M(old) = new
      /\ \A s \in Path : Abstract!Within(old, s) =>
           /\ M(s) \in Path /\ Abstract!Within(new, M(s)) /\ Moved(new, old, M(s)) = s
      /\ \A q \in Path : Abstract!Within(new, q) =>
           /\ Moved(new, old, q) \in Path /\ Abstract!Within(old, Moved(new, old, q))
           /\ M(Moved(new, old, q)) = q
  BY <1>1, MovedSteps, MovedIs DEF M
<1>7. old \in below
  BY WithinSteps
<1>8. /\ <<>> \notin DOMAIN G /\ DOMAIN G \subseteq Path
      /\ \A q \in Path : q # <<>> => (q \in DOMAIN G <=> Find(g, q) # None)
      /\ \A q \in DOMAIN G : G[q] = EntryOf(g, Find(g, q)) /\ Find(g, q) \in Node
  <2>1. DOMAIN G = Found(g) /\ DOMAIN G \subseteq Path
    BY FilesDomain DEF G
  <2>2. \A q \in DOMAIN G : G[q] = EntryOf(g, Find(g, q)) /\ Find(g, q) \in Node
    BY <2>1, FilesHave, FindIs DEF G, Found
  <2> QED
    BY <2>1, <2>2 DEF Found
<1>9. Abstract!Within(new, <<>>) <=> FALSE
  BY <1>1, WithinSteps
<1>10. Abstract!Within(old, <<>>) <=> FALSE
  BY WithinSteps
\* Away from where it has gone to.
<1>11. ASSUME NEW q \in Path, q # <<>>, ~Abstract!Within(new, q)
       PROVE  /\ Find(f, q) # None <=> q \in DOMAIN made \cup image
              /\ Find(f, q) # None => EntryOf(f, Find(f, q)) = after[q]
  <2>1. Find(f, q) = IF Abstract!Within(old, q) THEN None ELSE Find(g, q)
    BY <1>11 DEF new
  <2>2. q # new
    BY <1>1, <1>11, WithinSteps
  <2>3. \A s \in below : q # M(s)
    BY <1>6, <1>11
  <2>4. Find(f, q) # None <=> q \in left \cup Onto(Q)
    BY <1>4, <1>5, <1>8, <1>11, <2>1
  <2>5. q \in DOMAIN made \cup image <=> q \in left \cup Onto(Q)
    BY <1>3, <2>2, <2>3
  <2>6. ASSUME Find(f, q) # None PROVE EntryOf(f, Find(f, q)) = after[q]
    <3>1. Find(f, q) = Find(g, q) /\ q \in DOMAIN G /\ q \in left \cup Onto(Q)
      BY <1>4, <2>1, <2>4, <2>6
    <3>2. EntryOf(f, Find(f, q)) = G[q]
      BY <1>8, <3>1
    <3>3. after[q] = made[q]
      BY <1>2, <2>3, <2>5, <3>1
    <3>4. G[q] = made[q]
      <4>1. CASE q \in left
        BY <1>3, <1>4, <2>2, <3>1, <4>1
      <4>2. CASE q \notin left
        <5>1. q \in Onto(Q) /\ q \notin DOMAIN F
          BY <1>5, <3>1, <4>2
        <5> QED
          BY <1>3, <1>4, <3>1, <4>2, <5>1
      <4> QED
        BY <4>1, <4>2
    <3> QED
      BY <3>2, <3>3, <3>4
  <2> QED
    BY <2>4, <2>5, <2>6
\* Where it has gone to.
<1>12. ASSUME NEW q \in Path, q # <<>>, Abstract!Within(new, q)
       PROVE  /\ Find(f, q) # None <=> q \in DOMAIN made \cup image
              /\ Find(f, q) # None => EntryOf(f, Find(f, q)) = after[q]
  <2> DEFINE s == Moved(new, old, q)
  <2>1. s \in Path /\ Abstract!Within(old, s) /\ M(s) = q
    BY <1>6, <1>12
  <2>2. \A t \in below : q = M(t) => t = s
    BY <1>6
  <2> HIDE DEF s
  <2>3. Find(f, q) = Find(g, s)
    BY <2>1 DEF M, new
  <2>4. s # <<>>
    BY <1>10, <2>1
  <2>5. Find(f, q) # None <=> s \in below
    BY <1>4, <1>5, <1>8, <2>1, <2>3, <2>4
  <2>6. s \in below <=> q \in image
    BY <2>1, <2>2
  <2>7. q \in DOMAIN made => q \in image
    <3>1. q \notin Onto(Q)
      BY <1>5, <1>12
    <3>2. q \notin left
      <4> SUFFICES ASSUME q \in left PROVE FALSE
        OBVIOUS
      <4>1. Find(g, q) = None
        BY <1>12 DEF new
      <4> QED
        BY <1>4, <1>8, <1>12, <4>1
    <3>3. new \in image
      BY <1>6, <1>7
    <3> QED
      BY <1>3, <3>1, <3>2, <3>3
  <2>8. ASSUME Find(f, q) # None PROVE EntryOf(f, Find(f, q)) = after[q]
    <3>1. s \in below /\ q \in image
      BY <2>5, <2>6, <2>8
    <3>2. (CHOOSE t \in below : q = M(t)) = s
      <4>1. \E t \in below : q = M(t)
        BY <2>1, <3>1
      <4> QED
        BY <2>2, <4>1
    <3>3. after[q] = F[s]
      <4>1. \E t \in below : q = M(t)
        BY <2>1, <3>1
      <4> HIDE DEF below, image, after
      <4> QED
        BY <1>2, <3>1, <3>2, <4>1
    <3>4. s \in DOMAIN G /\ G[s] = F[s]
      BY <1>4, <3>1
    <3> QED
      BY <1>8, <2>3, <3>3, <3>4
  <2> QED
    BY <2>5, <2>6, <2>7, <2>8
<1>13. DOMAIN made \cup image \subseteq Path /\ <<>> \notin DOMAIN made \cup image
  <2>1. image \subseteq Path /\ <<>> \notin image
    BY <1>6, <1>9
  <2>2. DOMAIN made \subseteq Path /\ <<>> \notin DOMAIN made
    BY <1>1, <1>3, <1>4, <1>8
  <2> QED
    BY <2>1, <2>2
<1> HIDE DEF image, after, below
<1>14. Found(f) = DOMAIN made \cup image
  BY <1>11, <1>12, <1>13 DEF Found
<1>15. \A q \in Found(f) : EntryOf(f, Find(f, q)) = after[q]
  BY <1>11, <1>12 DEF Found
<1>16. FilesOf(f) = [q \in Found(f) |-> EntryOf(f, Find(f, q))]
  BY FilesAre
<1>17. DOMAIN after = Found(f) /\ after = [q \in DOMAIN after |-> after[q]]
  BY <1>2, <1>14
<1> QED
  BY <1>15, <1>16, <1>17 DEF after, new

LEMMA RenameDoes ==
  ASSUME NEW h, Forest(h), NEW old \in Path, old # <<>>, NEW new \in Path, new # <<>>,
         Cardinality(Free(h)) >= Len(new)
  PROVE  Does(h, Rename(h, old, new), Abstract!CanRename(FilesOf(h), old, new),
              Abstract!AfterRename(FilesOf(h), old, new))
<1> DEFINE P == Front(old)
           n == Last(old)
           Q == Front(new)
           m == Last(new)
           F == FilesOf(h)
           w == Walk(h, P)
           hw == w.heap
           d == w.at
           c == findChildFold(hw, d, n)
           i == Position(hw, d, n)
           inOwn == IsDirectory(hw, c) /\ IsPrefix(old, new)
           v == Way(hw, Q, TRUE)
           e == v.at
           g == Indexed(v.heap, e)
           leaf == findChildFold(g, e, m)
           r == Rename(h, old, new)
           can == Abstract!CanRename(F, old, new)
           after == Abstract!AfterRename(F, old, new)
<1>1. /\ P \in Path /\ n \in Name /\ old = Append(P, n)
      /\ Q \in Path /\ m \in Name /\ new = Append(Q, m) /\ Len(Q) \in Nat /\ Len(new) = Len(Q) + 1
      /\ Cardinality(Free(h)) \in Nat
  <2>1. P \in Path /\ n \in Name /\ old = Append(P, n)
    BY PathParts
  <2>2. /\ Q \in Path /\ m \in Name /\ new = Append(Q, m)
        /\ Len(new) \in Nat /\ Len(new) # 0 /\ Len(Q) = Len(new) - 1
    BY PathParts
  <2> HIDE DEF P, n, Q, m
  <2> QED
    BY <2>1, <2>2, FreeIs
<1>2. r = IF ~w.ok \/ c = None \/ inOwn THEN Error(hw)
          ELSE IF ~v.ok \/ e \in Below(v.heap, c) THEN Error(v.heap)
          ELSE IF Child(g, e, m) # None THEN Error(g)
          ELSE Done(Relinked(g, d, i, c, e, m))
  BY DEF Rename, MakeWay, Relinked, Labelled
<1>3. inOwn = (hw[c].kind = "dir" /\ Abstract!Within(old, new))
  BY PrefixIs DEF IsDirectory
<1> HIDE DEF P, n, Q, m, r, inOwn
<1>4. /\ Forest(hw) /\ SameTree(h, hw)
      /\ w.ok = (Find(h, P) # None)
      /\ Find(h, P) # None => d = Find(h, P)
  BY <1>1, WalkIs
<1> HIDE DEF w, hw
<1>5. /\ FilesOf(hw) = F /\ Find(hw, P) = Find(h, P) /\ Find(hw, old) = Find(h, old)
      /\ Free(hw) = Free(h)
  BY <1>1, <1>4, SameTreeFiles, FreeSame
<1>6. Find(hw, old) = (IF w.ok THEN c ELSE None)
  BY <1>1, <1>4, <1>5, FindIs
<1>7. w.ok => d \in Node /\ Find(hw, P) = d
  <2>1. Find(h, P) # None => Find(h, P) \in Node
    BY <1>1, FindIs
  <2> HIDE DEF d
  <2> QED
    BY <1>4, <1>5, <2>1
<1>8. /\ old \in DOMAIN F <=> w.ok /\ c # None
      /\ w.ok /\ c # None => F[old].kind = hw[c].kind
  BY <1>4, <1>5, <1>6, FilesHave, Numbers
<1>9. v = Way(hw, Q, TRUE) /\ TRUE \in BOOLEAN /\ Cardinality(Free(hw)) >= Len(Q)
  BY <1>1, <1>5
<1>9a. g = Indexed(v.heap, v.at) /\ leaf = findChildFold(g, v.at, m)
  OBVIOUS
<1> HIDE DEF v, g, leaf
<1>10. v.ok => Forest(g) /\ SameTree(v.heap, g) /\ Child(g, e, m) = leaf
  <2>1. Forest(hw) /\ Q \in Path /\ m \in Name
    BY <1>1, <1>4
  <2>2. v.ok => /\ Forest(g) /\ SameTree(v.heap, g)
                /\ Child(g, v.at, m) = findChildFold(g, v.at, m)
    BY <1>9, <1>9a, <2>1, ArrivalIndexed
  <2> QED
    BY <1>9a, <2>2
<1>11. /\ Forest(v.heap)
       /\ v.ok = Abstract!CanReach(F, new)
       /\ ~v.ok => FilesOf(v.heap) = F
       /\ v.ok =>
            /\ e \in Node /\ Find(g, Q) = e /\ g[e].kind = "dir" /\ Grows(hw, g)
            /\ FilesOf(g) = Made(F, Q)
            /\ new \in DOMAIN F <=> leaf # None
            /\ leaf # None => FilesOf(g) = F
  <2>1. Arrived(hw, Q, m, v, g)
    BY <1>1, <1>4, <1>9, <1>10, Arrival
  <2> QED
    BY <1>1, <1>5, <1>9a, <2>1 DEF Arrived
<1> HIDE DEF d, c, i, e, leaf, F
<1>12. can <=> /\ old \in DOMAIN F
               /\ Abstract!CanReach(F, new) /\ new \notin DOMAIN F
               /\ ~Abstract!Within(old, new)
  BY DEF Abstract!CanRename, Abstract!Exists
<1>13. can \in BOOLEAN
  BY DEF Abstract!CanRename, Abstract!Exists, Abstract!CanReach
\* Only a directory is on the way to an entry.
<1>14. v.ok /\ w.ok /\ c # None /\ Abstract!Within(old, Q) => inOwn
  <2> SUFFICES ASSUME v.ok, w.ok, c # None, Abstract!Within(old, Q) PROVE inOwn
    OBVIOUS
  <2>1. Clear(F, Q)
    <3>1. Abstract!Ancestors(new) = Onto(Q)
      BY <1>1, OntoSteps
    <3> QED
      BY <1>11, <3>1 DEF Abstract!CanReach, Clear
  <2>2. old \in Onto(Q)
    BY <1>1, OntoWithin
  <2>3. F[old].kind # "file" /\ F[old].kind = hw[c].kind
    BY <1>8, <2>1, <2>2 DEF Clear, Abstract!IsFile, Abstract!Exists
  <2>4. c \in Node /\ hw[c].kind # "unused" /\ hw \in Heap
    <3>1. hw \in Heap /\ NamesDiffer(hw) /\ InOnePlace(hw)
      BY <1>4 DEF Forest
    <3>2. c \in Node /\ \E k \in DOMAIN hw[d].kids : hw[d].kids[k] = c
      BY <1>1, <1>7, <3>1, KidIs DEF c
    <3> QED
      BY <1>7, <3>1, <3>2 DEF InOnePlace
  <2>5. hw[c].kind = "dir"
    BY <2>3, <2>4, NodeFields
  <2>6. Abstract!Within(old, new)
    BY <1>1, WithinSteps
  <2> QED
    BY <1>3, <2>5, <2>6
<1> HIDE DEF can, after
<1> SUFFICES Forest(r.heap) /\ r.ok = can /\ FilesOf(r.heap) = IF can THEN after ELSE F
  BY DEF Does, can, after, F, r
<1>15. CASE ~w.ok \/ c = None \/ inOwn
  <2>1. r.heap = hw /\ r.ok = FALSE
    BY <1>2, <1>15 DEF Error
  <2>2. can = FALSE
    BY <1>3, <1>8, <1>12, <1>13, <1>15
  <2> QED
    BY <1>4, <1>5, <2>1, <2>2
<1>16. CASE ~(~w.ok \/ c = None \/ inOwn) /\ ~v.ok
  <2>1. r.heap = v.heap /\ r.ok = FALSE
    BY <1>2, <1>16 DEF Error
  <2>2. can = FALSE
    BY <1>11, <1>12, <1>13, <1>16
  <2> QED
    BY <1>11, <1>16, <2>1, <2>2
<1>17. CASE ~(~w.ok \/ c = None \/ inOwn) /\ v.ok
  <2>1. w.ok /\ c # None /\ ~inOwn /\ v.ok /\ ~Abstract!Within(old, Q)
    BY <1>14, <1>17
  <2>2. /\ Forest(g) /\ SameTree(v.heap, g) /\ d \in Node /\ e \in Node
        /\ Find(g, P) = d /\ Find(g, old) = c
        /\ i \in DOMAIN g[d].kids /\ g[d].kids[i] = c /\ n = g[c].name
    <3>1. Forest(g) /\ SameTree(v.heap, g) /\ d \in Node /\ e \in Node /\ Grows(hw, g)
      BY <1>7, <1>10, <1>11, <2>1
    <3>2. Find(g, P) = d /\ Find(g, old) = c
      BY <1>1, <1>4, <1>6, <1>7, <2>1, <3>1, GrowsFinds, Numbers
    <3>3. findChildFold(hw, d, n) # None
      BY <2>1 DEF c
    <3>4. /\ findChildFold(g, d, n) = c /\ Position(g, d, n) = i
      BY <1>1, <1>4, <3>1, <3>3, GrowsKid DEF c, i
    <3>5. Grows(g, g)
      BY DEF Grows
    <3>6. i \in DOMAIN g[d].kids /\ g[d].kids[i] = c /\ g[c].name = n
      BY <1>1, <2>1, <3>1, <3>4, <3>5, GrowsKid
    <3> QED
      BY <3>1, <3>2, <3>6
  <2>3. e \notin Below(v.heap, c)
    <3> SUFFICES ASSUME e \in Below(v.heap, c) PROVE FALSE
      OBVIOUS
    <3>1. Find(v.heap, Q) = e /\ Find(v.heap, old) = c
      BY <1>1, <1>11, <2>1, <2>2, SameTreeFiles
    <3>2. Abstract!Within(old, Q)
      BY <1>1, <1>11, <2>1, <3>1, BelowWithin
    <3> QED
      BY <2>1, <3>2
  <2>4. CASE leaf # None
    <3>1. r.heap = g /\ r.ok = FALSE
      BY <1>2, <1>10, <2>1, <2>3, <2>4 DEF Error
    <3>2. can = FALSE
      BY <1>11, <1>12, <1>13, <2>1, <2>4
    <3> QED
      BY <1>11, <2>1, <2>2, <2>4, <3>1, <3>2
  <2>5. CASE leaf = None
    <3> DEFINE f == Relinked(g, d, i, c, e, m)
    <3>1. r.heap = f /\ r.ok = TRUE
      BY <1>2, <1>10, <2>1, <2>3, <2>5 DEF Done
    <3>2. f = Relinked(g, d, i, c, e, m)
      OBVIOUS
    <3>3. new \notin DOMAIN F /\ old \in DOMAIN F
      BY <1>8, <1>11, <2>1, <2>5
    <3>4. can = TRUE
      <4>1. ~Abstract!Within(old, new)
        BY <1>1, <2>1, <3>3, WithinSteps
      <4> QED
        BY <1>11, <1>12, <1>13, <2>1, <3>3, <4>1
    <3> HIDE DEF f
    <3>5. /\ Find(g, Q) = e /\ g[e].kind = "dir" /\ findChildFold(g, e, m) = None
          /\ ~Abstract!Within(Append(P, n), Q) /\ c = g[d].kids[i]
      BY <1>1, <1>11, <2>1, <2>2, <2>5 DEF leaf
    <3>6. /\ Forest(f)
          /\ \A x \in Node : EntryOf(f, x) = EntryOf(g, x)
          /\ \A q \in Path : ~Abstract!Within(Append(Q, m), q) =>
               Find(f, q) = IF Abstract!Within(Append(P, n), q) THEN None ELSE Find(g, q)
          /\ \A q \in Path : Abstract!Within(Append(Q, m), q) /\ ~Abstract!Within(Append(P, n), q) =>
               Find(g, q) = None
          /\ \A s \in Path : Abstract!Within(Append(P, n), s) =>
               Find(f, Moved(Append(P, n), Append(Q, m), s)) = Find(g, s)
      <4>1. /\ P \in Path /\ n \in Name /\ Q \in Path /\ m \in Name
            /\ Forest(g) /\ d \in Node /\ Find(g, P) = d /\ e \in Node
            /\ i \in DOMAIN g[d].kids /\ n = g[c].name
        BY <1>1, <2>2
      <4> HIDE DEF c, d, e, i
      <4> QED
        BY <3>2, <3>5, <4>1, MoveFinds
    <3>7. DOMAIN F \subseteq Path /\ FilesOf(g) = Made(F, Q)
      BY <1>11, <2>1, FilesDomain DEF F
    <3>8. FilesOf(f) = Abstract!AfterRename(F, old, Append(Q, m))
      <4>1. /\ \A q \in Path : ~Abstract!Within(Append(Q, m), q) =>
                 Find(f, q) = IF Abstract!Within(old, q) THEN None ELSE Find(g, q)
            /\ \A q \in Path : Abstract!Within(Append(Q, m), q) /\ ~Abstract!Within(old, q) =>
                 Find(g, q) = None
            /\ \A s \in Path : Abstract!Within(old, s) =>
                 Find(f, Moved(old, Append(Q, m), s)) = Find(g, s)
        BY <1>1, <3>6
      <4>2. \A x \in Node : EntryOf(f, x) = EntryOf(g, x)
        BY <3>6
      <4>3. /\ Forest(g) /\ Forest(f) /\ Q \in Path /\ m \in Name
            /\ DOMAIN F \subseteq Path /\ FilesOf(g) = Made(F, Q) /\ old \in DOMAIN F
            /\ old # <<>> /\ ~Abstract!Within(old, Q)
        BY <1>1, <2>1, <2>2, <3>3, <3>6, <3>7
      <4> QED
        BY <4>1, <4>2, <4>3, MoveFiles
    <3> QED
      BY <1>1, <3>1, <3>4, <3>6, <3>8 DEF after
  <2> QED
    BY <2>4, <2>5
<1> QED
  BY <1>15, <1>16, <1>17
-----------------------------------------------------------------------------
(* What is left between operations: what is reachable, at any addresses.      *)

LEMMA LiveIs ==
  ASSUME NEW h, Forest(h), NEW live, live = Below(h, Root)
  PROVE  /\ live \subseteq Node /\ Root \in live
         /\ \A d \in live : \A k \in DOMAIN h[d].kids : h[d].kids[k] \in live
         /\ \A p \in Path : Find(h, p) # None => Find(h, p) \in live
<1>1. live \subseteq Node /\ Root \in live
  BY Numbers DEF Below
<1>2. ASSUME NEW d \in live, NEW k \in DOMAIN h[d].kids PROVE h[d].kids[k] \in live
  <2>1. h[d].kids[k] \in Node
    BY <1>1, NodeFields DEF Forest
  <2>2. ASSUME NEW S \in SUBSET Node, Root \in S, ClosedUnder(h, S) PROVE h[d].kids[k] \in S
    <3>1. d \in S
      BY <2>2 DEF Below
    <3> QED
      BY <2>2, <3>1 DEF ClosedUnder
  <2> QED
    BY <2>1, <2>2 DEF Below
<1> DEFINE S == {p \in Path : Find(h, p) # None => Find(h, p) \in live}
<1>3. <<>> \in S
  BY <1>1, FindIs, EmptyPath
<1>4. ASSUME NEW p \in Path, p \in S, NEW n \in Name PROVE Append(p, n) \in S
  <2> SUFFICES ASSUME Find(h, Append(p, n)) # None PROVE Find(h, Append(p, n)) \in live
    BY PathParts
  <2>1. /\ Find(h, p) \in Node
        /\ \E k \in DOMAIN h[Find(h, p)].kids : h[Find(h, p)].kids[k] = Find(h, Append(p, n))
    BY FoundKid
  <2>2. Find(h, p) \in live
    BY <1>4, <2>1, Numbers
  <2> QED
    BY <1>2, <2>1, <2>2
<1> HIDE DEF S
<1>5. Path \subseteq S
  BY <1>3, <1>4, PathInduction
<1> QED
  BY <1>1, <1>2, <1>5 DEF S

LEMMA UnusedIs ==
  /\ Unused \in NodeType /\ Unused.kind = "unused" /\ Unused.kids = <<>>
  /\ Unused.index.built = FALSE
<1>1. (CHOOSE n \in Name : TRUE) \in Name
  BY DirTreeAssumption
<1> DEFINE n == CHOOSE n \in Name : TRUE
<1> HIDE DEF n
<1>2. Unused = [kind |-> "unused", name |-> n, hash |-> NoHash, kids |-> <<>>, spare |-> 0,
                index |-> NoIndex]
  BY DEF Unused, Fresh, n
<1>3. NoIndex \in IndexType /\ NoIndex.built = FALSE
  BY DEF NoIndex, IndexType
<1>4. <<>> \in Seq(Node)
  OBVIOUS
<1> QED
  BY <1>1, <1>2, <1>3, <1>4 DEF NodeType, n

LEMMA CollectedIs ==
  ASSUME NEW h, Forest(h), NEW g, g = Collected(h)
  PROVE  /\ Forest(g) /\ FilesOf(g) = FilesOf(h)
<1> DEFINE live == Below(h, Root)
           Names(x) == [n \in Name |-> IF h[x].index.byName[n] \in live \cup {None}
                                         THEN h[x].index.byName[n] ELSE Gone]
           Kept(x) == [h[x] EXCEPT !.index.byName = Names(x)]
<1>1. /\ live \subseteq Node /\ Root \in live
      /\ \A d \in live : \A k \in DOMAIN h[d].kids : h[d].kids[k] \in live
      /\ \A p \in Path : Find(h, p) # None => Find(h, p) \in live
  <2>1. live = Below(h, Root)
    OBVIOUS
  <2> HIDE DEF live
  <2> QED
    BY <2>1, LiveIs
<1>2. g = [x \in Node |-> IF x \notin live THEN Unused ELSE Kept(x)]
  BY DEF Collected
<1> HIDE DEF live
<1>3. h \in Heap /\ InOnePlace(h) /\ OnlyInDirectories(h) /\ NamesDiffer(h)
      /\ \A x \in Node : IndexTrue(h, x)
  BY DEF Forest
<1>4. ASSUME NEW x \in live
      PROVE  /\ Kept(x) \in NodeType /\ Kept(x).kind = h[x].kind /\ Kept(x).name = h[x].name
             /\ Kept(x).hash = h[x].hash /\ Kept(x).kids = h[x].kids /\ Kept(x).spare = h[x].spare
             /\ Kept(x).index.built = h[x].index.built /\ Kept(x).index.len = h[x].index.len
             /\ \A n \in Name : Kept(x).index.byName[n]
                  = IF h[x].index.byName[n] \in live \cup {None} THEN h[x].index.byName[n] ELSE Gone
  <2>1. h[x] \in NodeType /\ h[x].index \in IndexType
    BY <1>1, <1>3, NodeFields
  <2>2. Names(x) \in [Name -> Node \cup {None, Gone}]
    BY <1>1
  <2>3. /\ \A n \in Name : Names(x)[n]
             = IF h[x].index.byName[n] \in live \cup {None} THEN h[x].index.byName[n] ELSE Gone
    OBVIOUS
  <2> DEFINE idx == [h[x].index EXCEPT !.byName = Names(x)]
  <2> HIDE DEF Names
  <2>4. idx \in IndexType /\ idx.built = h[x].index.built /\ idx.len = h[x].index.len
        /\ idx.byName = Names(x)
    BY <2>1, <2>2 DEF IndexType
  <2>5. Kept(x) = [h[x] EXCEPT !.index = idx]
    BY <2>1 DEF NodeType
  <2> HIDE DEF idx, Kept
  <2>6. Kept(x) \in NodeType /\ Kept(x).index = idx /\ Kept(x).kind = h[x].kind
        /\ Kept(x).name = h[x].name /\ Kept(x).hash = h[x].hash /\ Kept(x).kids = h[x].kids
        /\ Kept(x).spare = h[x].spare
    BY <2>1, <2>4, <2>5 DEF NodeType
  <2> QED
    BY <2>3, <2>4, <2>6
<1> HIDE DEF Kept
<1>5. g \in Heap
  BY <1>1, <1>2, <1>4, UnusedIs DEF Heap
<1>6. ASSUME NEW x \in live
      PROVE  /\ g[x].kind = h[x].kind /\ g[x].name = h[x].name
             /\ g[x].hash = h[x].hash /\ g[x].kids = h[x].kids /\ g[x].spare = h[x].spare
             /\ g[x].index.built = h[x].index.built /\ g[x].index.len = h[x].index.len
             /\ \A n \in Name : g[x].index.byName[n]
                  = IF h[x].index.byName[n] \in live \cup {None} THEN h[x].index.byName[n] ELSE Gone
  <2>1. g[x] = Kept(x)
    BY <1>1, <1>2
  <2> QED
    BY <1>4, <2>1
<1>7. ASSUME NEW x \in Node, x \notin live
      PROVE  g[x].kind = "unused" /\ g[x].kids = <<>> /\ g[x].index.built = FALSE
  BY <1>2, <1>7, UnusedIs
<1>8. ASSUME NEW x \in Node, NEW k \in DOMAIN g[x].kids
      PROVE  x \in live /\ k \in DOMAIN h[x].kids /\ g[x].kids[k] = h[x].kids[k] /\ h[x].kids[k] \in live
  <2>1. x \in live
    <3> SUFFICES ASSUME x \notin live PROVE FALSE
      OBVIOUS
    <3>1. g[x].kids = <<>>
      BY <1>7
    <3>2. DOMAIN g[x].kids = {}
      BY <3>1
    <3> QED
      BY <3>2
  <2> QED
    BY <1>1, <1>6, <1>8, <2>1
<1>9. InOnePlace(g)
  BY <1>1, <1>3, <1>6, <1>8 DEF InOnePlace
<1>10. OnlyInDirectories(g)
  <2>1. g[Root].kind = "dir"
    BY <1>1, <1>3, <1>6 DEF OnlyInDirectories
  <2>2. ASSUME NEW d \in Node, g[d].kind # "dir" PROVE g[d].kids = <<>>
    <3>1. CASE d \in live
      <4>1. h[d].kind # "dir" /\ g[d].kids = h[d].kids
        BY <1>6, <2>2, <3>1
      <4> QED
        BY <1>3, <4>1 DEF OnlyInDirectories
    <3>2. CASE d \notin live
      BY <1>7, <3>2
    <3> QED
      BY <3>1, <3>2
  <2> QED
    BY <2>1, <2>2 DEF OnlyInDirectories
<1>11. NamesDiffer(g)
  BY <1>1, <1>3, <1>6, <1>8 DEF NamesDiffer
<1>12. ASSUME NEW x \in Node PROVE IndexTrue(g, x)
  <2> SUFFICES ASSUME x \in live, h[x].index.built PROVE IndexTrue(g, x)
    BY <1>6, <1>7 DEF IndexTrue
  <2>1. /\ IndexTrue(h, x) /\ h[x].index.len \in Nat /\ Len(h[x].kids) \in Nat
        /\ DOMAIN h[x].kids = 1 .. Len(h[x].kids)
    BY <1>1, <1>3, NodeFields
  <2>2. CASE h[x].index.len <= Len(h[x].kids)
    <3>1. TrueOf(h, h[x].index, h[x].kids)
      BY <2>1, <2>2 DEF IndexTrue
    <3>2. \A k \in 1 .. h[x].index.len : /\ h[x].kids[k] \in live
                                         /\ g[h[x].kids[k]].name = h[h[x].kids[k]].name
      BY <1>1, <1>6, <2>1, <2>2
    <3>3. TrueOf(g, g[x].index, g[x].kids)
      <4>1. ASSUME NEW n \in Name, NEW k \in 1 .. h[x].index.len, g[h[x].kids[k]].name = n
            PROVE  g[x].index.byName[n] = h[x].kids[k]
        BY <1>6, <3>1, <3>2, <4>1 DEF TrueOf
      <4>2. ASSUME NEW n \in Name, \A k \in 1 .. h[x].index.len : g[h[x].kids[k]].name # n
            PROVE  g[x].index.byName[n] = None
        BY <1>6, <3>1, <3>2, <4>2 DEF TrueOf
      <4> QED
        BY <1>6, <4>1, <4>2 DEF TrueOf
    <3> QED
      BY <1>6, <2>2, <3>3 DEF IndexTrue
  <2>3. CASE ~(h[x].index.len <= Len(h[x].kids))
    BY <1>6, <2>1, <2>3 DEF IndexTrue
  <2> QED
    BY <2>2, <2>3
<1>13. Forest(g)
  BY <1>5, <1>9, <1>10, <1>11, <1>12 DEF Forest
<1>14. \A x \in live, n \in Name : findChildFold(g, x, n) = findChildFold(h, x, n)
  BY <1>1, <1>6, SameKidsAt
<1> DEFINE S == {p \in Path : Find(g, p) = Find(h, p)}
<1>15. <<>> \in S
  BY <1>13, FindIs, EmptyPath
<1>16. ASSUME NEW p \in Path, p \in S, NEW n \in Name PROVE Append(p, n) \in S
  <2>1. Append(p, n) \in Path
    BY PathParts
  <2>2. Find(h, Append(p, n)) = IF Find(h, p) = None THEN None ELSE findChildFold(h, Find(h, p), n)
    BY FindIs
  <2>3. Find(g, Append(p, n)) = IF Find(g, p) = None THEN None ELSE findChildFold(g, Find(g, p), n)
    BY <1>13, FindIs
  <2> QED
    BY <1>1, <1>14, <1>16, <2>1, <2>2, <2>3
<1> HIDE DEF S
<1>17. Path \subseteq S
  BY <1>15, <1>16, PathInduction
<1>18. \A p \in Path : Find(g, p) = Find(h, p)
  BY <1>17 DEF S
<1>19. \A p \in Found(h) : EntryOf(g, Find(h, p)) = EntryOf(h, Find(h, p))
  BY <1>1, <1>6 DEF Found, EntryOf
<1> QED
  BY <1>13, <1>18, <1>19, FilesSame

LEMMA AddressIs ==
  ASSUME NEW f \in Numberings
  PROVE  /\ f[Root] = Root /\ \A x \in Node : f[x] \in Node /\ Address(f, f[x]) = x
         /\ \A y \in Node : Address(f, y) \in Node /\ f[Address(f, y)] = y
         /\ Address(f, None) = None /\ Address(f, Gone) = Gone /\ Address(f, Root) = Root
<1>1. /\ f \in [Node -> Node] /\ f[Root] = Root
      /\ \A x, y \in Node : f[x] = f[y] => x = y
      /\ \A y \in Node : \E x \in Node : f[x] = y
  BY DEF Numberings
<1>2. \A y \in Node : Address(f, y) \in Node /\ f[Address(f, y)] = y
  BY <1>1 DEF Address
<1>3. \A x \in Node : f[x] \in Node /\ Address(f, f[x]) = x
  BY <1>1, <1>2
<1>4. Address(f, None) = None /\ Address(f, Gone) = Gone
  BY Numbers DEF Address
<1>5. Address(f, Root) = Root
  BY <1>1, <1>3, Numbers
<1> QED
  BY <1>1, <1>2, <1>3, <1>4, <1>5

LEMMA NumberedIs ==
  ASSUME NEW h, Forest(h), NEW f \in Numberings, NEW g, g = Numbered(h, f)
  PROVE  /\ Forest(g) /\ FilesOf(g) = FilesOf(h)
<1> DEFINE at(y) == Address(f, y)
           Kids(x) == [i \in DOMAIN h[f[x]].kids |-> at(h[f[x]].kids[i])]
           Names(x) == [n \in Name |-> at(h[f[x]].index.byName[n])]
           Node1(x) == [h[f[x]] EXCEPT !.kids = Kids(x), !.index.byName = Names(x)]
<1>1. /\ f[Root] = Root /\ \A x \in Node : f[x] \in Node /\ at(f[x]) = x
      /\ \A y \in Node : at(y) \in Node /\ f[at(y)] = y
      /\ at(None) = None /\ at(Gone) = Gone /\ at(Root) = Root
  BY AddressIs
<1>2. g = [x \in Node |-> Node1(x)]
  BY DEF Numbered
<1> HIDE DEF at
<1>3. h \in Heap /\ InOnePlace(h) /\ OnlyInDirectories(h) /\ NamesDiffer(h)
      /\ \A x \in Node : IndexTrue(h, x)
  BY DEF Forest
<1>4. ASSUME NEW x \in Node
      PROVE  /\ g[x] \in NodeType /\ g[x].kind = h[f[x]].kind /\ g[x].name = h[f[x]].name
             /\ g[x].hash = h[f[x]].hash /\ g[x].spare = h[f[x]].spare
             /\ g[x].index.built = h[f[x]].index.built /\ g[x].index.len = h[f[x]].index.len
             /\ DOMAIN g[x].kids = DOMAIN h[f[x]].kids /\ Len(g[x].kids) = Len(h[f[x]].kids)
             /\ \A k \in DOMAIN h[f[x]].kids : g[x].kids[k] = at(h[f[x]].kids[k])
             /\ \A n \in Name : g[x].index.byName[n] = at(h[f[x]].index.byName[n])
  <2> DEFINE o == h[f[x]]
  <2>1. /\ o \in NodeType /\ o.index \in IndexType /\ o.kids \in Seq(Node) /\ Len(o.kids) \in Nat
        /\ DOMAIN o.kids = 1 .. Len(o.kids) /\ \A k \in DOMAIN o.kids : o.kids[k] \in Node
    BY <1>1, <1>3, NodeFields
  <2>2. Names(x) \in [Name -> Node \cup {None, Gone}]
    <3>1. o.index.byName \in [Name -> Node \cup {None, Gone}]
      BY <1>1, <1>3, NodeFields
    <3> DEFINE names == o.index.byName
    <3>2. Names(x) = [n \in Name |-> at(names[n])]
      OBVIOUS
    <3> HIDE DEF names, Names, o
    <3>3. \A y \in Node \cup {None, Gone} : at(y) \in Node \cup {None, Gone}
      BY <1>1
    <3> QED
      BY <3>1, <3>2, <3>3 DEF names
  <2>3. \A n \in Name : Names(x)[n] = at(o.index.byName[n])
    OBVIOUS
  <2>4. /\ Kids(x) \in Seq(Node) /\ DOMAIN Kids(x) = DOMAIN o.kids /\ Len(Kids(x)) = Len(o.kids)
        /\ \A k \in DOMAIN o.kids : Kids(x)[k] = at(o.kids[k])
    <3>1. /\ DOMAIN Kids(x) = DOMAIN o.kids
          /\ \A k \in DOMAIN o.kids : Kids(x)[k] = at(o.kids[k])
      OBVIOUS
    <3>2. Kids(x) \in [1 .. Len(o.kids) -> Node]
      BY <1>1, <2>1
    <3> HIDE DEF Kids, o
    <3>3. Kids(x) \in Seq(Node)
      BY <2>1, <3>2
    <3>4. Len(Kids(x)) = Len(o.kids)
      BY <2>1, <3>2
    <3> QED
      BY <3>1, <3>3, <3>4
  <2> DEFINE idx == [o.index EXCEPT !.byName = Names(x)]
  <2>5. g[x] = Node1(x)
    BY <1>2
  <2> HIDE DEF Names, Kids
  <2>6. idx \in IndexType /\ idx.built = o.index.built /\ idx.len = o.index.len
        /\ idx.byName = Names(x)
    BY <2>1, <2>2 DEF IndexType
  <2>7. Node1(x) = [o EXCEPT !.kids = Kids(x), !.index = idx]
    BY <2>1 DEF NodeType
  <2> HIDE DEF idx, Node1, o
  <2>8. /\ g[x] \in NodeType /\ g[x].index = idx /\ g[x].kids = Kids(x) /\ g[x].kind = o.kind
        /\ g[x].name = o.name /\ g[x].hash = o.hash /\ g[x].spare = o.spare
    <3> DEFINE kids == Kids(x)
    <3>1. o \in NodeType /\ g[x] = [o EXCEPT !.kids = kids, !.index = idx]
      BY <2>1, <2>5, <2>7
    <3>2. kids \in Seq(Node) /\ idx \in IndexType
      BY <2>4, <2>6
    <3> HIDE DEF kids
    <3>3. /\ g[x].index = idx /\ g[x].kids = kids /\ g[x].kind = o.kind
          /\ g[x].name = o.name /\ g[x].hash = o.hash /\ g[x].spare = o.spare
      BY <3>1 DEF NodeType
    <3>4. g[x] \in NodeType
      BY <3>1, <3>2 DEF NodeType
    <3> QED
      BY <3>3, <3>4 DEF kids
  <2> QED
    BY <2>3, <2>4, <2>6, <2>8 DEF o
<1> HIDE DEF Node1, Kids, Names
<1>5. g \in Heap
  <2>1. g = [x \in Node |-> g[x]]
    BY <1>2
  <2> QED
    BY <1>4, <2>1 DEF Heap
<1>6. ASSUME NEW x \in Node, NEW k \in DOMAIN h[f[x]].kids
      PROVE  /\ h[f[x]].kids[k] \in Node /\ g[x].kids[k] = at(h[f[x]].kids[k]) /\ g[x].kids[k] \in Node
             /\ f[g[x].kids[k]] = h[f[x]].kids[k]
             /\ g[g[x].kids[k]].name = h[h[f[x]].kids[k]].name
             /\ g[g[x].kids[k]].kind = h[h[f[x]].kids[k]].kind
  <2>1. h[f[x]].kids[k] \in Node /\ g[x].kids[k] = at(h[f[x]].kids[k])
    BY <1>1, <1>3, <1>4, NodeFields
  <2>2. g[x].kids[k] \in Node /\ f[g[x].kids[k]] = h[f[x]].kids[k]
    BY <1>1, <2>1
  <2> QED
    BY <1>4, <2>1, <2>2
<1>7. InOnePlace(g)
  <2>1. ASSUME NEW d \in Node, NEW k \in DOMAIN g[d].kids
        PROVE  g[d].kids[k] # Root /\ g[g[d].kids[k]].kind # "unused"
    <3>1. k \in DOMAIN h[f[d]].kids /\ f[d] \in Node
      BY <1>1, <1>4, <2>1
    <3>2. h[f[d]].kids[k] # Root /\ h[h[f[d]].kids[k]].kind # "unused"
      BY <1>3, <3>1 DEF InOnePlace
    <3> QED
      BY <1>1, <1>6, <3>1, <3>2
  <2>2. ASSUME NEW d \in Node, NEW e \in Node, NEW j \in DOMAIN g[d].kids, NEW k \in DOMAIN g[e].kids,
               g[d].kids[j] = g[e].kids[k]
        PROVE  d = e /\ j = k
    <3>1. j \in DOMAIN h[f[d]].kids /\ k \in DOMAIN h[f[e]].kids /\ f[d] \in Node /\ f[e] \in Node
      BY <1>1, <1>4
    <3>2. h[f[d]].kids[j] = h[f[e]].kids[k]
      BY <1>6, <2>2, <3>1
    <3>3. f[d] = f[e] /\ j = k
      BY <1>3, <3>1, <3>2 DEF InOnePlace
    <3> QED
      BY <1>1, <3>3
  <2> QED
    BY <2>1, <2>2 DEF InOnePlace
<1>8. OnlyInDirectories(g)
  <2>1. g[Root].kind = "dir"
    BY <1>1, <1>3, <1>4, Numbers DEF OnlyInDirectories
  <2>2. ASSUME NEW d \in Node, g[d].kind # "dir" PROVE g[d].kids = <<>>
    <3>1. h[f[d]].kids = <<>> /\ Len(h[f[d]].kids) = 0
      BY <1>1, <1>3, <1>4, <2>2 DEF OnlyInDirectories
    <3>2. g[d].kids \in Seq(Node) /\ Len(g[d].kids) = 0
      BY <1>4, <1>5, <3>1, NodeFields
    <3> QED
      BY <3>2, EmptySeq
  <2> QED
    BY <2>1, <2>2 DEF OnlyInDirectories
<1>9. NamesDiffer(g)
  <2> SUFFICES ASSUME NEW d \in Node, NEW j \in DOMAIN g[d].kids, NEW k \in DOMAIN g[d].kids,
                      g[g[d].kids[j]].name = g[g[d].kids[k]].name
               PROVE  j = k
    BY DEF NamesDiffer
  <2>1. j \in DOMAIN h[f[d]].kids /\ k \in DOMAIN h[f[d]].kids /\ f[d] \in Node
    BY <1>1, <1>4
  <2>2. h[h[f[d]].kids[j]].name = h[h[f[d]].kids[k]].name
    BY <1>6, <2>1
  <2> QED
    BY <1>3, <2>1, <2>2 DEF NamesDiffer
<1>10. ASSUME NEW x \in Node PROVE IndexTrue(g, x)
  <2> DEFINE o == f[x]
  <2> SUFFICES ASSUME h[o].index.built PROVE IndexTrue(g, x)
    BY <1>4 DEF IndexTrue
  <2>1. /\ o \in Node /\ IndexTrue(h, o) /\ h[o].index.len \in Nat /\ Len(h[o].kids) \in Nat
        /\ DOMAIN h[o].kids = 1 .. Len(h[o].kids)
    BY <1>1, <1>3, NodeFields
  <2>2. CASE h[o].index.len <= Len(h[o].kids)
    <3>1. TrueOf(h, h[o].index, h[o].kids)
      BY <2>1, <2>2 DEF IndexTrue
    <3>2. \A k \in 1 .. h[o].index.len : k \in DOMAIN h[o].kids
      BY <2>1, <2>2
    <3>3. \A k \in 1 .. h[o].index.len : /\ g[x].kids[k] = at(h[o].kids[k])
                                         /\ g[g[x].kids[k]].name = h[h[o].kids[k]].name
      BY <1>6, <3>2
    <3>4. \A n \in Name : g[x].index.byName[n] = at(h[o].index.byName[n])
      BY <1>4
    <3> HIDE DEF o
    <3>5. ASSUME NEW n \in Name, NEW k \in 1 .. h[o].index.len, g[g[x].kids[k]].name = n
          PROVE  g[x].index.byName[n] = g[x].kids[k]
      BY <3>1, <3>3, <3>4, <3>5 DEF TrueOf
    <3>6. ASSUME NEW n \in Name, \A k \in 1 .. h[o].index.len : g[g[x].kids[k]].name # n
          PROVE  g[x].index.byName[n] = None
      BY <1>1, <3>1, <3>3, <3>4, <3>6 DEF TrueOf
    <3>7. g[x].index.len = h[o].index.len /\ Len(g[x].kids) = Len(h[o].kids)
      BY <1>4 DEF o
    <3>8. TrueOf(g, g[x].index, g[x].kids)
      BY <3>5, <3>6, <3>7 DEF TrueOf
    <3> QED
      BY <2>2, <3>7, <3>8 DEF IndexTrue
  <2>3. CASE ~(h[o].index.len <= Len(h[o].kids))
    BY <1>4, <2>1, <2>3 DEF IndexTrue
  <2> QED
    BY <2>2, <2>3
<1>11. Forest(g)
  BY <1>5, <1>7, <1>8, <1>9, <1>10 DEF Forest
<1>12. ASSUME NEW x \in Node, NEW n \in Name
       PROVE  findChildFold(g, x, n) = at(findChildFold(h, f[x], n))
  <2>1. CASE \E k \in DOMAIN h[f[x]].kids : h[h[f[x]].kids[k]].name = n
    <3>1. PICK k \in DOMAIN h[f[x]].kids : h[h[f[x]].kids[k]].name = n
      BY <2>1
    <3>2. findChildFold(h, f[x], n) = h[f[x]].kids[k]
      BY <1>1, <1>3, <3>1, KidIs
    <3>3. k \in DOMAIN g[x].kids /\ g[g[x].kids[k]].name = n /\ g[x].kids[k] = at(h[f[x]].kids[k])
      BY <1>4, <1>6, <3>1
    <3>4. findChildFold(g, x, n) = g[x].kids[k]
      BY <1>5, <1>9, <3>3, KidIs
    <3> QED
      BY <3>2, <3>3, <3>4
  <2>2. CASE \A k \in DOMAIN h[f[x]].kids : h[h[f[x]].kids[k]].name # n
    <3>1. findChildFold(h, f[x], n) = None
      BY <2>2, NoKid
    <3>2. \A k \in DOMAIN g[x].kids : g[g[x].kids[k]].name # n
      BY <1>4, <1>6, <2>2
    <3>3. findChildFold(g, x, n) = None
      BY <3>2, NoKid
    <3> QED
      BY <1>1, <3>1, <3>3
  <2> QED
    BY <2>1, <2>2
<1> DEFINE S == {p \in Path : Find(g, p) = at(Find(h, p))}
<1>13. <<>> \in S
  BY <1>1, <1>11, FindIs, EmptyPath
<1>14. ASSUME NEW p \in Path, p \in S, NEW n \in Name PROVE Append(p, n) \in S
  <2> DEFINE z == Find(h, p)
  <2>1. Append(p, n) \in Path
    BY PathParts
  <2>2. Find(h, Append(p, n)) = (IF z = None THEN None ELSE findChildFold(h, z, n))
        /\ (z # None => z \in Node)
    BY FindIs
  <2>3. Find(g, Append(p, n)) = (IF at(z) = None THEN None ELSE findChildFold(g, at(z), n))
    BY <1>11, <1>14, FindIs
  <2> HIDE DEF z
  <2>4. CASE z = None
    BY <1>1, <2>1, <2>2, <2>3, <2>4
  <2>5. CASE z # None
    <3>1. at(z) \in Node /\ f[at(z)] = z /\ at(z) # None
      BY <1>1, <2>2, <2>5, Numbers
    <3>2. findChildFold(g, at(z), n) = at(findChildFold(h, z, n))
      BY <1>12, <3>1
    <3> QED
      BY <2>1, <2>2, <2>3, <2>5, <3>1, <3>2
  <2> QED
    BY <2>4, <2>5
<1> HIDE DEF S
<1>15. Path \subseteq S
  BY <1>13, <1>14, PathInduction
<1>16. \A p \in Path : Find(g, p) = at(Find(h, p))
  BY <1>15 DEF S
<1>17. Found(g) = Found(h)
  <2>1. ASSUME NEW p \in Path PROVE Find(g, p) = None <=> Find(h, p) = None
    <3>1. Find(h, p) # None => at(Find(h, p)) \in Node
      BY <1>1, FindIs
    <3> QED
      BY <1>1, <1>16, <3>1, Numbers
  <2> QED
    BY <2>1 DEF Found
<1>18. ASSUME NEW p \in Found(h) PROVE EntryOf(g, Find(g, p)) = EntryOf(h, Find(h, p))
  <2> DEFINE z == Find(h, p)
  <2>1. z \in Node /\ Find(g, p) = at(z)
    BY <1>16, FindIs DEF Found
  <2> HIDE DEF z
  <2>2. at(z) \in Node /\ f[at(z)] = z
    BY <1>1, <2>1
  <2>3. EntryOf(g, at(z)) = EntryOf(h, z)
    BY <1>4, <2>2 DEF EntryOf
  <2> QED
    BY <2>1, <2>3 DEF z
<1>19. FilesOf(g) = [p \in Found(g) |-> EntryOf(g, Find(g, p))]
  BY <1>11, FilesAre
<1>20. FilesOf(h) = [p \in Found(h) |-> EntryOf(h, Find(h, p))]
  BY FilesAre
<1> QED
  BY <1>11, <1>17, <1>18, <1>19, <1>20

LEMMA RenumberedIs ==
  ASSUME NEW h, Forest(h)
  PROVE  Forest(Renumbered(h)) /\ FilesOf(Renumbered(h)) = FilesOf(h)
<1> DEFINE kept == Collected(h)
           id == [x \in Node |-> x]
<1>1. Forest(kept) /\ FilesOf(kept) = FilesOf(h)
  BY CollectedIs
<1>2. id \in Numberings
  BY Numbers DEF Numberings
<1>3. Renumbered(h) = CHOOSE g \in {Numbered(kept, f) : f \in Numberings} : TRUE
  BY DEF Renumbered
<1> HIDE DEF kept, id
<1>4. \E f \in Numberings : Renumbered(h) = Numbered(kept, f)
  <2>1. Numbered(kept, id) \in {Numbered(kept, f) : f \in Numberings}
    BY <1>2
  <2>2. Renumbered(h) \in {Numbered(kept, f) : f \in Numberings}
    BY <1>3, <2>1
  <2> QED
    BY <2>2
<1> QED
  BY <1>1, <1>4, NumberedIs
-----------------------------------------------------------------------------
(* What the operations leave, over any sequence of them.                      *)

LEMMA BecomesIs ==
  ASSUME NEW h, Forest(h), Becomes(h)
  PROVE  ForestInv' /\ files' = FilesOf(h)
<1>1. Forest(Renumbered(h)) /\ FilesOf(Renumbered(h)) = FilesOf(h)
  BY RenumberedIs
<1>2. heap' = Renumbered(h) /\ files' = FilesOf(h)
  BY DEF Becomes
<1>3. Forest(heap') /\ files' = FilesOf(heap')
  BY <1>1, <1>2
<1> QED
  BY <1>2, <1>3 DEF ForestInv, Forest, Heap, InOnePlace, OnlyInDirectories, NamesDiffer, IndexTrue,
                    TrueOf

LEMMA BeginIs == Init => ForestInv
<1> SUFFICES ASSUME Init PROVE ForestInv
  OBVIOUS
<1> DEFINE n == CHOOSE n \in Name : TRUE
           r == Fresh("dir", n, NoHash)
<1>1. n \in Name
  BY DirTreeAssumption
<1>2. heap = [x \in Node |-> IF x = Root THEN r ELSE Unused] /\ files = <<>>
  BY DEF Init
<1> HIDE DEF n
<1>3. r \in NodeType /\ r.kind = "dir" /\ r.kids = <<>> /\ r.index.built = FALSE
  <2>1. r = [kind |-> "dir", name |-> n, hash |-> NoHash, kids |-> <<>>, spare |-> 0,
             index |-> NoIndex]
    BY DEF Fresh
  <2>2. NoIndex \in IndexType /\ NoIndex.built = FALSE
    BY DEF NoIndex, IndexType
  <2>3. <<>> \in Seq(Node)
    OBVIOUS
  <2> HIDE DEF r
  <2> QED
    BY <1>1, <2>1, <2>2, <2>3 DEF NodeType
<1> HIDE DEF r
<1>4. heap \in Heap
  BY <1>2, <1>3, UnusedIs DEF Heap
<1>5. \A x \in Node : DOMAIN heap[x].kids = {} /\ heap[x].kids = <<>> /\ heap[x].index.built = FALSE
  <2>1. \A x \in Node : heap[x].kids = <<>> /\ heap[x].index.built = FALSE
    BY <1>2, <1>3, UnusedIs
  <2>2. DOMAIN <<>> = {}
    OBVIOUS
  <2> QED
    BY <2>1, <2>2
<1>6. heap[Root].kind = "dir"
  BY <1>2, <1>3, Numbers
<1>7. Forest(heap)
  BY <1>4, <1>5, <1>6 DEF Forest, InOnePlace, OnlyInDirectories, NamesDiffer, IndexTrue
<1>8. Found(heap) = {}
  <2> SUFFICES ASSUME NEW p \in Path, p # <<>>, Find(heap, p) # None PROVE FALSE
    BY DEF Found
  <2>1. PICK a \in Path, l \in Name : p = Append(a, l)
    BY LastName
  <2>2. Find(heap, a) \in Node /\ \E k \in DOMAIN heap[Find(heap, a)].kids : TRUE
    BY <1>7, <2>1, FoundKid
  <2> QED
    BY <1>5, <2>2
<1>9. FilesOf(heap) = <<>>
  <2>1. FilesOf(heap) = [p \in {} |-> EntryOf(heap, Find(heap, p))]
    BY <1>7, <1>8, FilesAre
  <2> QED
    BY <2>1
<1> QED
  BY <1>2, <1>7, <1>9 DEF ForestInv

LEMMA RoomIs == ASSUME NEW n, Room(n) PROVE Cardinality(Free(heap)) >= n
BY DEF Room, Free

LEMMA SamePaths == Abstract!Paths = Paths
BY DEF Abstract!Paths, Paths

\* What a step keeps, and what it does to the map of paths.
LEMMA StepIs ==
  ASSUME ForestInv, [Next]_vars
  PROVE  ForestInv' /\ [Abstract!Next]_files
<1>1. Forest(heap) /\ files = FilesOf(heap)
  BY DEF ForestInv
<1>2. ASSUME NEW r, NEW can, NEW after, Does(heap, r, can, after), Becomes(r.heap)
      PROVE  ForestInv' /\ files' = (IF can THEN after ELSE files)
  BY <1>1, <1>2, BecomesIs DEF Does
<1>3. CASE DoLookup
  <2>1. PICK p \in Paths : Becomes(Lookup(heap, p).heap)
    BY <1>3 DEF DoLookup
  <2>2. Forest(Lookup(heap, p).heap) /\ FilesOf(Lookup(heap, p).heap) = files
    BY <1>1, LookupDoes, PathLists
  <2> QED
    BY <2>1, <2>2, BecomesIs
<1>4. CASE DoAdd
  <2>1. PICK p \in Paths, s \in Hash : Room(Len(p)) /\ Becomes(Add(heap, p, s).heap)
    BY <1>4 DEF DoAdd
  <2>2. Does(heap, Add(heap, p, s), Abstract!CanAdd(files, p), Abstract!AfterAdd(files, p, s))
    BY <1>1, <2>1, AddDoes, PathLists, RoomIs
  <2>3. ForestInv' /\ files' = IF Abstract!CanAdd(files, p) THEN Abstract!AfterAdd(files, p, s) ELSE files
    BY <1>2, <2>1, <2>2
  <2>4. Abstract!Add(p, s) \/ UNCHANGED files
    BY <2>3 DEF Abstract!Add
  <2> QED
    BY <2>3, <2>4, SamePaths DEF Abstract!Next
<1>5. CASE DoPlace
  <2>1. PICK p \in Paths, s \in Hash : Room(Len(p)) /\ Becomes(placeFile(heap, p, s).heap)
    BY <1>5 DEF DoPlace
  <2>2. Does(heap, placeFile(heap, p, s), Abstract!CanPlace(files, p), Abstract!AfterPlace(files, p, s))
    BY <1>1, <2>1, PlaceDoes, PathLists, RoomIs
  <2>3. ForestInv' /\ files' = IF Abstract!CanPlace(files, p) THEN Abstract!AfterPlace(files, p, s) ELSE files
    BY <1>2, <2>1, <2>2
  <2>4. Abstract!Place(p, s) \/ UNCHANGED files
    BY <2>3 DEF Abstract!Place
  <2> QED
    BY <2>3, <2>4, SamePaths DEF Abstract!Next
<1>6. CASE DoAttach
  <2>1. PICK p \in Paths, n \in Name, s \in Hash :
          Room(Len(p) + 1) /\ Becomes(AttachAt(heap, p, n, s).heap)
    BY <1>6 DEF DoAttach
  <2>2. Does(heap, AttachAt(heap, p, n, s), Abstract!CanAttach(files, p),
             Abstract!AfterAttach(files, p, n, s))
    BY <1>1, <2>1, AttachDoes, PathLists, RoomIs
  <2>3. ForestInv' /\ files' = IF Abstract!CanAttach(files, p)
                                 THEN Abstract!AfterAttach(files, p, n, s) ELSE files
    BY <1>2, <2>1, <2>2
  <2>4. Abstract!Attach(p, n, s) \/ UNCHANGED files
    BY <2>3 DEF Abstract!Attach
  <2> QED
    BY <2>3, <2>4, SamePaths DEF Abstract!Next
<1>7. CASE DoRemove
  <2>1. PICK p \in Paths : Becomes(RemoveEntry(heap, p).heap)
    BY <1>7 DEF DoRemove
  <2>2. Does(heap, RemoveEntry(heap, p), Abstract!CanRemove(files, p), Abstract!AfterRemove(files, p))
    BY <1>1, RemoveDoes, PathLists
  <2>3. ForestInv' /\ files' = IF Abstract!CanRemove(files, p) THEN Abstract!AfterRemove(files, p) ELSE files
    BY <1>2, <2>1, <2>2
  <2>4. Abstract!Remove(p) \/ UNCHANGED files
    BY <2>3 DEF Abstract!Remove
  <2> QED
    BY <2>3, <2>4, SamePaths DEF Abstract!Next
<1>8. CASE DoRename
  <2>1. PICK p \in Paths, q \in Paths : Room(Len(q)) /\ Becomes(Rename(heap, p, q).heap)
    BY <1>8 DEF DoRename
  <2>2. Does(heap, Rename(heap, p, q), Abstract!CanRename(files, p, q), Abstract!AfterRename(files, p, q))
    BY <1>1, <2>1, RenameDoes, PathLists, RoomIs
  <2>3. ForestInv' /\ files' = IF Abstract!CanRename(files, p, q)
                                 THEN Abstract!AfterRename(files, p, q) ELSE files
    BY <1>2, <2>1, <2>2
  <2>4. Abstract!Rename(p, q) \/ UNCHANGED files
    BY <2>3 DEF Abstract!Rename
  <2> QED
    BY <2>3, <2>4, SamePaths DEF Abstract!Next
<1>9. CASE UNCHANGED vars
  BY <1>9 DEF vars, ForestInv, Forest, Heap, InOnePlace, OnlyInDirectories, NamesDiffer, IndexTrue, TrueOf
<1> QED
  BY <1>3, <1>4, <1>5, <1>6, <1>7, <1>8, <1>9 DEF Next

(***************************************************************************)
(* Whatever operations have run, in any order and with any outcome: the      *)
(* heap is a forest of directories whose siblings have different names, every *)
(* index in it is true of the children it was built from, and files is what   *)
(* the paths of the heap lead to.                                          *)
(***************************************************************************)
THEOREM ForestAlways == Spec => []ForestInv
<1>1. Init => ForestInv
  BY BeginIs
<1>2. ForestInv /\ [Next]_vars => ForestInv'
  BY StepIs
<1> QED
  BY <1>1, <1>2, PTL DEF Spec

(***************************************************************************)
(* The tree of nodes, slices and indices implements the map from paths to    *)
(* entries: every Add, placeFile, AttachAt, Remove and Rename of package wim's *)
(* DirEntry takes effect on the paths as a whole or not at all.             *)
(***************************************************************************)
THEOREM TreeImplementsPaths == Spec => ImplementsPathTree
<1>1. Init => Abstract!Init
  BY DEF Init, Abstract!Init
<1>2. ForestInv /\ [Next]_vars => [Abstract!Next]_files
  BY StepIs
<1> QED
  BY <1>1, <1>2, ForestAlways, PTL DEF Spec, ImplementsPathTree, Abstract!Spec

(***************************************************************************)
(* An index that Child would believe says what a scan of the children says,  *)
(* after any operations of package wim: an index that has come to be wrong is *)
(* one whose slice has another array or another length.                     *)
(***************************************************************************)
THEOREM IndexNeverStale == Spec => []NeverStale
<1>1. ForestInv => NeverStale
  <2> SUFFICES ASSUME ForestInv, NEW d \in Live, sameChildrenSlice(heap, d), NEW n \in Name
               PROVE  heap[d].index.byName[n] = findChildFold(heap, d, n)
    BY DEF NeverStale
  <2>1. Forest(heap) /\ d \in Node
    BY DEF ForestInv, Live, Below
  <2>2. Child(heap, d, n) = findChildFold(heap, d, n)
    BY <2>1, IndexedIs
  <2>3. Child(heap, d, n) = heap[d].index.byName[n]
    BY DEF Child, Indexed
  <2> QED
    BY <2>2, <2>3
<1> QED
  BY <1>1, ForestAlways, PTL

LEMMA TreeIs == ForestInv => IsTree
<1> SUFFICES ASSUME ForestInv PROVE IsTree
  OBVIOUS
<1>1. /\ heap \in Heap /\ InOnePlace(heap) /\ OnlyInDirectories(heap) /\ NamesDiffer(heap)
      /\ Live \subseteq Node
  BY DEF ForestInv, Forest, Live, Below
<1>2. TypeOK
  BY <1>1, NodeFields DEF TypeOK
<1>3. \A d \in Live : heap[d].kids # <<>> => heap[d].kind = "dir"
  BY <1>1 DEF OnlyInDirectories
<1>4. \A d, e \in Live : \A j \in DOMAIN heap[d].kids, k \in DOMAIN heap[e].kids :
        heap[d].kids[j] = heap[e].kids[k] => d = e /\ j = k
  BY <1>1 DEF InOnePlace
<1>5. \A d \in Live : Root \notin ToSet(heap[d].kids)
  BY <1>1 DEF InOnePlace, ToSet
<1>6. \A d \in Live : \A j, k \in DOMAIN heap[d].kids :
        heap[heap[d].kids[j]].name = heap[heap[d].kids[k]].name => j = k
  BY <1>1 DEF NamesDiffer
<1> QED
  BY <1>2, <1>3, <1>4, <1>5, <1>6 DEF IsTree

(***************************************************************************)
(* Whatever operations have run, the next one does to the map of paths what   *)
(* PathTree says of it if the map allows it, and otherwise returns an error    *)
(* and leaves every path as it was, also those of the directories it has gone  *)
(* through.  A lookup finds what the names lead to.  This is for any names and *)
(* any number of entries.                                                  *)
(***************************************************************************)
THEOREM OperationsAlwaysAgree == Spec => []OperationsAgree
<1>1. ForestInv => OperationsAgree
  <2> SUFFICES ASSUME ForestInv PROVE OperationsAgree
    OBVIOUS
  <2>1. Forest(heap) /\ files = FilesOf(heap)
    BY DEF ForestInv
  <2>2. ASSUME NEW r, NEW can, NEW after, Does(heap, r, can, after) PROVE Agrees(r, can, after)
    BY <2>1, <2>2 DEF Does, Agrees
  <2>3. ASSUME NEW p \in Paths
        PROVE  /\ Lookup(heap, p).ok = Abstract!Exists(files, p)
               /\ Lookup(heap, p).ok => Lookup(heap, p).at = Find(heap, p)
               /\ Agrees(RemoveEntry(heap, p), Abstract!CanRemove(files, p),
                         Abstract!AfterRemove(files, p))
    <3>1. p \in Path /\ p # <<>>
      BY PathLists
    <3>2. Does(heap, RemoveEntry(heap, p), Abstract!CanRemove(files, p), Abstract!AfterRemove(files, p))
      BY <2>1, <3>1, RemoveDoes
    <3> QED
      BY <2>1, <2>2, <3>1, <3>2, LookupDoes
  <2>4. ASSUME NEW p \in Paths, Room(Len(p)), NEW s \in Hash
        PROVE  /\ Agrees(Add(heap, p, s), Abstract!CanAdd(files, p), Abstract!AfterAdd(files, p, s))
               /\ Agrees(placeFile(heap, p, s), Abstract!CanPlace(files, p),
                         Abstract!AfterPlace(files, p, s))
    <3>1. p \in Path /\ p # <<>> /\ Cardinality(Free(heap)) >= Len(p)
      BY <2>4, PathLists, RoomIs
    <3>2. Does(heap, Add(heap, p, s), Abstract!CanAdd(files, p), Abstract!AfterAdd(files, p, s))
      BY <2>1, <3>1, AddDoes
    <3>3. Does(heap, placeFile(heap, p, s), Abstract!CanPlace(files, p), Abstract!AfterPlace(files, p, s))
      BY <2>1, <3>1, PlaceDoes
    <3> QED
      BY <2>2, <3>2, <3>3
  <2>5. ASSUME NEW p \in Paths, Room(Len(p)), NEW q \in Paths
        PROVE  Agrees(Rename(heap, q, p), Abstract!CanRename(files, q, p),
                      Abstract!AfterRename(files, q, p))
    <3>1. p \in Path /\ p # <<>> /\ q \in Path /\ q # <<>> /\ Cardinality(Free(heap)) >= Len(p)
      BY <2>5, PathLists, RoomIs
    <3>2. Does(heap, Rename(heap, q, p), Abstract!CanRename(files, q, p),
               Abstract!AfterRename(files, q, p))
      BY <2>1, <3>1, RenameDoes
    <3> QED
      BY <2>2, <3>2
  <2>6. ASSUME NEW p \in Paths, Room(Len(p) + 1), NEW n \in Name, NEW s \in Hash
        PROVE  Agrees(AttachAt(heap, p, n, s), Abstract!CanAttach(files, p),
                      Abstract!AfterAttach(files, p, n, s))
    <3>1. p \in Path /\ p # <<>> /\ Cardinality(Free(heap)) >= Len(p) + 1
      BY <2>6, PathLists, RoomIs
    <3>2. Does(heap, AttachAt(heap, p, n, s), Abstract!CanAttach(files, p),
               Abstract!AfterAttach(files, p, n, s))
      BY <2>1, <3>1, AttachDoes
    <3> QED
      BY <2>2, <3>2
  <2>7. IsTree
    BY TreeIs
  <2> HIDE DEF ForestInv
  <2> QED
    BY <2>3, <2>4, <2>5, <2>6, <2>7 DEF OperationsAgree
<1> QED
  BY <1>1, ForestAlways, PTL
=============================================================================
