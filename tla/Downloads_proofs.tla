-------------------------- MODULE Downloads_proofs --------------------------
(***************************************************************************)
(* Proofs about the downloads.  For fido the invariant says at which stage   *)
(* which session is known to the services, that the merged list holds what   *)
(* was listed, and how far the chosen language's links have been asked for.  *)
(* For wufetch it says what the build and the file were chosen from.         *)
(*                                                                          *)
(* The lists are built by recursive functions over their SKUs and a build's  *)
(* digits.  That such a function exists, and what its values are, is shown   *)
(* by the least number for which it would fail (LeastNumber).                *)
(***************************************************************************)
EXTENDS Downloads, WellFoundedInduction, TLAPS

-----------------------------------------------------------------------------
(* Least numbers, and the first entry of a table that matches.               *)

Below == {p \in Nat \X Nat : p[1] < p[2]}

LEMMA LeastNumber ==
  ASSUME NEW S \in SUBSET Nat, S # {}
  PROVE  \E x \in S : \A y \in S : x <= y
<1>1. IsWellFoundedOn(Below, Nat)
  <2>1. OpToRel(<, Nat) = Below
    BY DEF OpToRel, Below
  <2> QED
    BY <2>1, NatLessThanWellFounded
<1>2. PICK x \in S : \A y \in S : ~(<<y, x>> \in Below)
  BY <1>1, WFMin
<1>3. ASSUME NEW y \in S PROVE x <= y
  <2>1. x \in Nat /\ y \in Nat
    OBVIOUS
  <2>2. ~(y < x)
    BY <1>2, <2>1 DEF Below
  <2> QED
    BY <2>1, <2>2
<1> QED
  BY <1>3

LEMMA MinIsLeast ==
  ASSUME NEW S \in SUBSET Nat, S # {}
  PROVE  Min(S) \in S
<1>1. \E x \in S : \A y \in S : x <= y
  BY LeastNumber
<1> QED
  BY <1>1 DEF Min

-----------------------------------------------------------------------------
Uses == [session : Nat, sku : DOMAIN Links]
Entries == [code : {sku.language : sku \in Skus}, display : {sku.display : sku \in Skus},
            skus : Seq(Uses) \ {<<>>}]

Held(l) == {<<l.skus[i].session, l.skus[i].sku, l.code>> : i \in DOMAIN l.skus}
HeldBy(all) == UNION {Held(l) : l \in ToSet(all)}
OneEach(all) == \A i, j \in DOMAIN all : all[i].code = all[j].code => i = j

LEMMA HeldOnce ==
  ASSUME NEW all \in Seq(Entries), NEW t
  PROVE  t \in HeldBy(all) <=>
           \E k \in 1 .. Len(all) : \E j \in 1 .. Len(all[k].skus) :
             t = <<all[k].skus[j].session, all[k].skus[j].sku, all[k].code>>
<1>1. DOMAIN all = 1 .. Len(all) /\ \A k \in 1 .. Len(all) : all[k] \in Entries
  OBVIOUS
<1>2. \A k \in 1 .. Len(all) : DOMAIN all[k].skus = 1 .. Len(all[k].skus)
  BY <1>1 DEF Entries
<1>3. t \in HeldBy(all) <=> \E k \in 1 .. Len(all) : t \in Held(all[k])
  BY <1>1 DEF HeldBy, ToSet
<1>4. ASSUME NEW k \in 1 .. Len(all)
      PROVE  t \in Held(all[k]) <=>
               \E j \in 1 .. Len(all[k].skus) :
                 t = <<all[k].skus[j].session, all[k].skus[j].sku, all[k].code>>
  BY <1>2 DEF Held
<1> QED
  BY <1>3, <1>4

\* MergeSku, with the place it looks for as a number.
LEMMA MergeSkuIs ==
  ASSUME NEW all \in Seq(Entries), NEW sku, NEW session
  PROVE  \E i \in 0 .. Len(all) :
           /\ i = 0 => \A k \in 1 .. Len(all) : all[k].code # sku.language
           /\ i # 0 => all[i].code = sku.language
           /\ MergeSku(all, sku, session) =
                IF i = 0
                THEN Append(all, [code |-> sku.language, display |-> sku.display,
                                  skus |-> <<[session |-> session, sku |-> sku.id]>>])
                ELSE [all EXCEPT ![i].skus = Append(@, [session |-> session, sku |-> sku.id])]
<1> DEFINE I == {k \in 1 .. Len(all) : all[k].code = sku.language}
           i == SelectInSeq(all, LAMBDA l : l.code = sku.language)
<1>1. i = IF I # {} THEN Min(I) ELSE 0
  BY DEF SelectInSeq
<1>2. I \in SUBSET Nat
  OBVIOUS
<1>3. I # {} => Min(I) \in I
  <2> HIDE DEF I
  <2> QED
    BY <1>2, MinIsLeast
<1>4. MergeSku(all, sku, session) =
        IF i = 0
        THEN Append(all, [code |-> sku.language, display |-> sku.display,
                          skus |-> <<[session |-> session, sku |-> sku.id]>>])
        ELSE [all EXCEPT ![i].skus = Append(@, [session |-> session, sku |-> sku.id])]
  BY DEF MergeSku
<1> HIDE DEF i
<1>5. i \in 0 .. Len(all) /\ (i = 0 => I = {}) /\ (i # 0 => i \in I)
  BY <1>1, <1>3
<1> QED
  BY <1>4, <1>5

\* collectLanguages adds one use to one entry.
LEMMA MergeKeeps ==
  ASSUME NEW all \in Seq(Entries), OneEach(all), NEW sku \in Skus, NEW session \in Nat
  PROVE  /\ MergeSku(all, sku, session) \in Seq(Entries)
         /\ OneEach(MergeSku(all, sku, session))
         /\ HeldBy(MergeSku(all, sku, session)) = HeldBy(all) \cup {<<session, sku.id, sku.language>>}
<1> DEFINE u == [session |-> session, sku |-> sku.id]
           e == [code |-> sku.language, display |-> sku.display, skus |-> <<u>>]
           m == MergeSku(all, sku, session)
           t == <<session, sku.id, sku.language>>
<1>1. PICK i \in 0 .. Len(all) :
        /\ i = 0 => \A k \in 1 .. Len(all) : all[k].code # sku.language
        /\ i # 0 => all[i].code = sku.language
        /\ m = IF i = 0 THEN Append(all, e) ELSE [all EXCEPT ![i].skus = Append(@, u)]
  BY MergeSkuIs
<1>2. u \in Uses /\ u.session = session /\ u.sku = sku.id
  BY FidoAssumption DEF FidoAssumption, Uses
<1>3. e \in Entries /\ e.code = sku.language /\ Len(e.skus) = 1 /\ e.skus[1] = u
  BY <1>2 DEF Entries
<1>4. Len(all) \in Nat /\ DOMAIN all = 1 .. Len(all) /\ \A k \in 1 .. Len(all) : all[k] \in Entries
  OBVIOUS
<1> HIDE DEF u, e, m
<1>5. CASE i = 0
  <2>1. m = Append(all, e)
    BY <1>1, <1>5
  <2>2. m \in Seq(Entries) /\ Len(m) = Len(all) + 1
    BY <1>3, <2>1
  <2>3. m[Len(all) + 1] = e /\ \A k \in 1 .. Len(all) : m[k] = all[k]
    BY <1>3, <2>1
  <2>4. OneEach(m)
    <3> SUFFICES ASSUME NEW k \in 1 .. Len(m), NEW j \in 1 .. Len(m), m[k].code = m[j].code
                 PROVE  k = j
      BY <2>2 DEF OneEach
    <3>1. CASE k = Len(all) + 1 /\ j = Len(all) + 1
      BY <3>1
    <3>2. CASE k # Len(all) + 1 /\ j # Len(all) + 1
      <4>1. k \in 1 .. Len(all) /\ j \in 1 .. Len(all)
        BY <1>4, <2>2, <3>2
      <4>2. all[k].code = all[j].code
        BY <2>3, <4>1
      <4> QED
        BY <1>4, <4>1, <4>2 DEF OneEach
    <3>3. CASE k = Len(all) + 1 /\ j # Len(all) + 1
      <4>1. j \in 1 .. Len(all)
        BY <1>4, <2>2, <3>3
      <4> QED
        BY <1>1, <1>3, <1>5, <2>3, <3>3, <4>1
    <3>4. CASE k # Len(all) + 1 /\ j = Len(all) + 1
      <4>1. k \in 1 .. Len(all)
        BY <1>4, <2>2, <3>4
      <4> QED
        BY <1>1, <1>3, <1>5, <2>3, <3>4, <4>1
    <3> QED
      BY <3>1, <3>2, <3>3, <3>4
  <2>5. ASSUME NEW x PROVE x \in HeldBy(m) <=> x \in HeldBy(all) \/ x = t
    <3>1. x \in HeldBy(m) <=>
            \E k \in 1 .. Len(m) : \E j \in 1 .. Len(m[k].skus) :
              x = <<m[k].skus[j].session, m[k].skus[j].sku, m[k].code>>
      BY <2>2, HeldOnce
    <3>2. x \in HeldBy(all) <=>
            \E k \in 1 .. Len(all) : \E j \in 1 .. Len(all[k].skus) :
              x = <<all[k].skus[j].session, all[k].skus[j].sku, all[k].code>>
      BY HeldOnce
    <3>3. ASSUME x \in HeldBy(m), x # t PROVE x \in HeldBy(all)
      <4>1. PICK k \in 1 .. Len(m) : \E j \in 1 .. Len(m[k].skus) :
              x = <<m[k].skus[j].session, m[k].skus[j].sku, m[k].code>>
        BY <3>1, <3>3
      <4>2. CASE k = Len(all) + 1
        BY <1>2, <1>3, <2>3, <3>3, <4>1, <4>2
      <4>3. CASE k # Len(all) + 1
        <5>1. k \in 1 .. Len(all)
          BY <1>4, <2>2, <4>3
        <5> QED
          BY <2>3, <3>2, <4>1, <5>1
      <4> QED
        BY <4>2, <4>3
    <3>4. ASSUME x \in HeldBy(all) PROVE x \in HeldBy(m)
      <4>1. PICK k \in 1 .. Len(all) : \E j \in 1 .. Len(all[k].skus) :
              x = <<all[k].skus[j].session, all[k].skus[j].sku, all[k].code>>
        BY <3>2, <3>4
      <4>2. k \in 1 .. Len(m)
        BY <1>4, <2>2
      <4> QED
        BY <2>3, <3>1, <4>1, <4>2
    <3>5. ASSUME x = t PROVE x \in HeldBy(m)
      <4>1. Len(all) + 1 \in 1 .. Len(m) /\ 1 \in 1 .. 1
        BY <1>4, <2>2
      <4> QED
        BY <1>2, <1>3, <2>3, <3>1, <3>5, <4>1
    <3> QED
      BY <3>3, <3>4, <3>5
  <2> QED
    BY <2>2, <2>4, <2>5 DEF m
<1>6. CASE i # 0
  <2> DEFINE old == all[i].skus
             new == Append(old, u)
             l == all[i]
  <2>1. i \in 1 .. Len(all) /\ old \in Seq(Uses) /\ all[i].code = sku.language
    BY <1>1, <1>4, <1>6 DEF Entries
  <2>2. new \in Seq(Uses) /\ Len(new) = Len(old) + 1 /\ new[Len(old) + 1] = u
        /\ \A j \in 1 .. Len(old) : new[j] = old[j]
    BY <1>2, <2>1
  <2>3. m = [all EXCEPT ![i] = [all[i] EXCEPT !.skus = new]]
    BY <1>1, <1>6
  <2> HIDE DEF new
  <2>4. [all[i] EXCEPT !.skus = new] \in Entries
    <3>1. new \in Seq(Uses) \ {<<>>}
      BY <2>1, <2>2
    <3>2. l \in Entries
      BY <1>4, <2>1
    <3> HIDE DEF l
    <3>3. [l EXCEPT !.skus = new] \in Entries
      BY <3>1, <3>2 DEF Entries
    <3> QED
      BY <3>3 DEF l
  <2>5. m \in Seq(Entries) /\ Len(m) = Len(all) /\ \A k \in 1 .. Len(all) : k # i => m[k] = all[k]
    BY <2>1, <2>3, <2>4
  <2>6. m[i] = [all[i] EXCEPT !.skus = new]
    BY <2>1, <2>3
  <2>7. m[i].code = all[i].code /\ m[i].skus = new
    BY <1>4, <2>1, <2>6 DEF Entries
  <2>8. \A k \in 1 .. Len(all) : m[k].code = all[k].code
    BY <2>5, <2>7
  <2>9. OneEach(m)
    BY <1>4, <2>5, <2>8 DEF OneEach
  <2>10. ASSUME NEW x PROVE x \in HeldBy(m) <=> x \in HeldBy(all) \/ x = t
    <3>1. x \in HeldBy(m) <=>
            \E k \in 1 .. Len(m) : \E j \in 1 .. Len(m[k].skus) :
              x = <<m[k].skus[j].session, m[k].skus[j].sku, m[k].code>>
      BY <2>5, HeldOnce
    <3>2. x \in HeldBy(all) <=>
            \E k \in 1 .. Len(all) : \E j \in 1 .. Len(all[k].skus) :
              x = <<all[k].skus[j].session, all[k].skus[j].sku, all[k].code>>
      BY HeldOnce
    <3>3. ASSUME x \in HeldBy(m), x # t PROVE x \in HeldBy(all)
      <4>1. PICK k \in 1 .. Len(m) : \E j \in 1 .. Len(m[k].skus) :
              x = <<m[k].skus[j].session, m[k].skus[j].sku, m[k].code>>
        BY <3>1, <3>3
      <4>2. PICK j \in 1 .. Len(m[k].skus) : x = <<m[k].skus[j].session, m[k].skus[j].sku, m[k].code>>
        BY <4>1
      <4>3. CASE k = i
        <5>1. j # Len(old) + 1
          BY <1>2, <2>1, <2>2, <2>7, <3>3, <4>2, <4>3
        <5>2. j \in 1 .. Len(old)
          BY <2>1, <2>2, <2>7, <4>2, <4>3, <5>1
        <5> QED
          BY <2>1, <2>2, <2>7, <3>2, <4>2, <4>3, <5>2
      <4>4. CASE k # i
        BY <2>5, <3>2, <4>2, <4>4
      <4> QED
        BY <4>3, <4>4
    <3>4. ASSUME x \in HeldBy(all) PROVE x \in HeldBy(m)
      <4>1. PICK k \in 1 .. Len(all) : \E j \in 1 .. Len(all[k].skus) :
              x = <<all[k].skus[j].session, all[k].skus[j].sku, all[k].code>>
        BY <3>2, <3>4
      <4>2. PICK j \in 1 .. Len(all[k].skus) :
              x = <<all[k].skus[j].session, all[k].skus[j].sku, all[k].code>>
        BY <4>1
      <4>3. CASE k = i
        <5>1. j \in 1 .. Len(new)
          BY <2>1, <2>2, <4>2, <4>3
        <5> QED
          BY <2>2, <2>5, <2>7, <3>1, <4>2, <4>3, <5>1
      <4>4. CASE k # i
        BY <2>5, <3>1, <4>2, <4>4
      <4> QED
        BY <4>3, <4>4
    <3>5. ASSUME x = t PROVE x \in HeldBy(m)
      <4>1. Len(old) + 1 \in 1 .. Len(new)
        BY <2>1, <2>2
      <4>2. x = <<m[i].skus[Len(old) + 1].session, m[i].skus[Len(old) + 1].sku, m[i].code>>
        BY <1>2, <2>1, <2>2, <2>7, <3>5
      <4> QED
        BY <2>1, <2>5, <2>7, <3>1, <4>1, <4>2
    <3> QED
      BY <3>3, <3>4, <3>5
  <2> QED
    BY <2>5, <2>9, <2>10 DEF m
<1> QED
  BY <1>5, <1>6

\* MergedAfter is a function, since one can be had for every number of SKUs.
LEMMA MergedAfterExists ==
  ASSUME NEW all, NEW skus, NEW session, Len(skus) \in Nat
  PROVE  \E g : g = [k \in 0 .. Len(skus) |->
                       IF k = 0 THEN all ELSE MergeSku(g[k - 1], skus[k], session)]
<1> DEFINE Upto(n) == \E g : g = [k \in 0 .. n |->
                                    IF k = 0 THEN all ELSE MergeSku(g[k - 1], skus[k], session)]
           bad == {n \in Nat : ~Upto(n)}
<1>1. Upto(0)
  <2> DEFINE g == [k \in 0 .. 0 |-> all]
  <2>1. g = [k \in 0 .. 0 |-> IF k = 0 THEN all ELSE MergeSku(g[k - 1], skus[k], session)]
    <3>1. \A k \in 0 .. 0 : k = 0
      OBVIOUS
    <3> QED
      BY <3>1
  <2> QED
    BY <2>1
<1>2. ASSUME NEW n \in Nat, Upto(n) PROVE Upto(n + 1)
  <2>1. PICK g : g = [k \in 0 .. n |-> IF k = 0 THEN all ELSE MergeSku(g[k - 1], skus[k], session)]
    BY <1>2
  <2> DEFINE h == [k \in 0 .. n + 1 |->
                     IF k = n + 1 THEN MergeSku(g[n], skus[n + 1], session) ELSE g[k]]
             e(k) == IF k = 0 THEN all ELSE MergeSku(h[k - 1], skus[k], session)
  <2>2. ASSUME NEW k \in 0 .. n + 1 PROVE h[k] = e(k)
    <3>1. CASE k = n + 1
      <4>1. k # 0 /\ k - 1 = n /\ n \in 0 .. n + 1 /\ n # n + 1
        BY <3>1
      <4>2. h[k - 1] = g[n] /\ h[k] = MergeSku(g[n], skus[n + 1], session)
        BY <3>1, <4>1
      <4> HIDE DEF h
      <4> QED
        BY <3>1, <4>1, <4>2
    <3>2. CASE k # n + 1
      <4>1. k \in 0 .. n /\ h[k] = g[k]
        BY <3>2
      <4>2. g[k] = IF k = 0 THEN all ELSE MergeSku(g[k - 1], skus[k], session)
        BY <2>1, <4>1
      <4>3. CASE k = 0
        BY <4>1, <4>2, <4>3
      <4>4. CASE k # 0
        <5>1. k - 1 \in 0 .. n + 1 /\ k - 1 # n + 1
          BY <4>1, <4>4
        <5>2. h[k - 1] = g[k - 1]
          BY <5>1
        <5> HIDE DEF h
        <5> QED
          BY <4>1, <4>2, <4>4, <5>2
      <4> QED
        BY <4>3, <4>4
    <3> QED
      BY <3>1, <3>2
  <2>3. h = [k \in 0 .. n + 1 |-> e(k)]
    <3>1. h = [k \in 0 .. n + 1 |-> h[k]]
      OBVIOUS
    <3> HIDE DEF h, e
    <3> QED
      BY <2>2, <3>1
  <2> HIDE DEF h
  <2> QED
    BY <2>3
<1> HIDE DEF Upto
<1>3. bad = {}
  <2> SUFFICES ASSUME bad # {} PROVE FALSE
    OBVIOUS
  <2>1. PICK n \in bad : \A j \in bad : n <= j
    <3>1. bad \in SUBSET Nat
      OBVIOUS
    <3> HIDE DEF bad
    <3> QED
      BY <3>1, LeastNumber
  <2>2. n \in Nat /\ n # 0 /\ ~Upto(n)
    BY <1>1
  <2>3. n - 1 \in Nat /\ n - 1 \notin bad /\ (n - 1) + 1 = n
    BY <2>1, <2>2
  <2>4. Upto((n - 1) + 1)
    BY <1>2, <2>3
  <2> QED
    BY <2>2, <2>3, <2>4
<1>4. Upto(Len(skus))
  BY <1>3
<1> QED
  BY <1>4 DEF Upto

LEMMA MergedAfterDef ==
  ASSUME NEW all, NEW skus, NEW session, Len(skus) \in Nat
  PROVE  MergedAfter(all, skus, session) =
           [k \in 0 .. Len(skus) |->
              IF k = 0 THEN all ELSE MergeSku(MergedAfter(all, skus, session)[k - 1], skus[k], session)]
BY MergedAfterExists DEF MergedAfter

\* The SKUs of an accepted answer join the list, all of them and with its session.
LEMMA MergedKeeps ==
  ASSUME NEW all \in Seq(Entries), OneEach(all), NEW skus \in Seq(Skus), NEW session \in Nat
  PROVE  /\ Merged(all, skus, session) \in Seq(Entries)
         /\ OneEach(Merged(all, skus, session))
         /\ HeldBy(Merged(all, skus, session)) =
              HeldBy(all) \cup {<<session, sku.id, sku.language>> : sku \in ToSet(skus)}
<1> DEFINE n == Len(skus)
           after == MergedAfter(all, skus, session)
           Added(k) == {<<session, skus[j].id, skus[j].language>> : j \in 1 .. k}
           Good(k) == /\ after[k] \in Seq(Entries) /\ OneEach(after[k])
                      /\ HeldBy(after[k]) = HeldBy(all) \cup Added(k)
           bad == {k \in 0 .. n : ~Good(k)}
<1>1. n \in Nat /\ \A k \in 1 .. n : skus[k] \in Skus
  OBVIOUS
<1>2. after = [k \in 0 .. n |-> IF k = 0 THEN all ELSE MergeSku(after[k - 1], skus[k], session)]
  BY <1>1, MergedAfterDef
<1> HIDE DEF after
<1>3. \A k \in 0 .. n : after[k] = IF k = 0 THEN all ELSE MergeSku(after[k - 1], skus[k], session)
  BY <1>2
<1>4. Good(0)
  <2>1. after[0] = all
    BY <1>1, <1>3
  <2>2. Added(0) = {}
    OBVIOUS
  <2> QED
    BY <2>1, <2>2
<1>5. ASSUME NEW k \in 1 .. n, Good(k - 1) PROVE Good(k)
  <2>1. k \in 0 .. n /\ k # 0 /\ k - 1 \in 0 .. n
    BY <1>1
  <2>2. after[k] = MergeSku(after[k - 1], skus[k], session)
    BY <1>3, <2>1
  <2> DEFINE b == after[k - 1]
             x == <<session, skus[k].id, skus[k].language>>
  <2>3. b \in Seq(Entries) /\ OneEach(b) /\ HeldBy(b) = HeldBy(all) \cup Added(k - 1)
    BY <1>5
  <2> HIDE DEF b
  <2>4. /\ MergeSku(b, skus[k], session) \in Seq(Entries)
        /\ OneEach(MergeSku(b, skus[k], session))
        /\ HeldBy(MergeSku(b, skus[k], session)) = HeldBy(b) \cup {x}
    <3> DEFINE s == skus[k]
    <3>1. s \in Skus
      BY <1>1
    <3> HIDE DEF s
    <3>2. /\ MergeSku(b, s, session) \in Seq(Entries)
          /\ OneEach(MergeSku(b, s, session))
          /\ HeldBy(MergeSku(b, s, session)) = HeldBy(b) \cup {<<session, s.id, s.language>>}
      BY <2>3, <3>1, MergeKeeps
    <3> QED
      BY <3>2 DEF s
  <2>5. Added(k) = Added(k - 1) \cup {x}
    <3>1. \A j : j \in 1 .. k <=> j \in 1 .. k - 1 \/ j = k
      BY <1>1
    <3> QED
      BY <3>1
  <2> HIDE DEF Added
  <2>6. HeldBy(after[k]) = HeldBy(all) \cup Added(k)
    BY <2>2, <2>3, <2>4, <2>5 DEF b
  <2> QED
    BY <2>2, <2>4, <2>6 DEF b
<1> HIDE DEF Good
<1>6. bad = {}
  <2> SUFFICES ASSUME bad # {} PROVE FALSE
    OBVIOUS
  <2>1. PICK k \in bad : \A j \in bad : k <= j
    <3>1. bad \in SUBSET Nat
      BY <1>1
    <3> HIDE DEF bad
    <3> QED
      BY <3>1, LeastNumber
  <2>2. k \in 0 .. n /\ ~Good(k) /\ k # 0
    BY <1>4
  <2>3. k \in 1 .. n /\ k - 1 \in 0 .. n /\ k - 1 \notin bad
    BY <1>1, <2>1, <2>2
  <2> QED
    BY <1>5, <2>2, <2>3
<1>7. Good(n)
  BY <1>1, <1>6
<1>8. Added(n) = {<<session, sku.id, sku.language>> : sku \in ToSet(skus)}
  BY <1>1 DEF ToSet
<1> HIDE DEF Added
<1> QED
  BY <1>7, <1>8 DEF Good, Merged, after, n

-----------------------------------------------------------------------------
\* What the tables hold and the first entry that matches is one of them.
LEMMA FirstIndex ==
  ASSUME NEW table, NEW T, table \in Seq(T), NEW S \in SUBSET DOMAIN table, S # {}
  PROVE  \E i \in DOMAIN table : i \in S /\ \A k \in 1 .. i - 1 : k \notin S
<1>1. S \in SUBSET Nat /\ DOMAIN table \subseteq Nat
  OBVIOUS
<1>2. PICK i \in S : \A j \in S : i <= j
  BY <1>1, LeastNumber
<1>3. ASSUME NEW k \in 1 .. i - 1 PROVE k \notin S
  BY <1>1, <1>2
<1> QED
  BY <1>2, <1>3

LEMMA FoundVersion ==
  ASSUME NEW name, Versions \in Seq(ToSet(Versions)), findVersion(name) # None
  PROVE  \E i \in DOMAIN Versions :
           /\ HasWords(Versions[i].name, name)
           /\ findVersion(name) = Versions[i]
<1> DEFINE S == {i \in DOMAIN Versions : HasWords(Versions[i].name, name)}
<1>1. S # {}
  BY DEF findVersion, FirstMatch
<1>2. PICK i \in DOMAIN Versions : i \in S /\ \A k \in 1 .. i - 1 : k \notin S
  <2> HIDE DEF S
  <2>1. S \in SUBSET DOMAIN Versions
    BY DEF S
  <2> QED
    BY <1>1, <2>1, FirstIndex
<1>3. \A k \in 1 .. i - 1 : k \in DOMAIN Versions
  OBVIOUS
<1>4. \E k \in DOMAIN Versions :
        /\ HasWords(Versions[k].name, name)
        /\ \A j \in 1 .. k - 1 : ~(HasWords(Versions[j].name, name))
  BY <1>2, <1>3
<1> QED
  BY <1>1, <1>4 DEF findVersion, FirstMatch

LEMMA FoundRelease ==
  ASSUME NEW v, v.releases \in Seq(ToSet(v.releases)), v # None, NEW name, name # Latest,
         findRelease(v, name) # None
  PROVE  \E i \in DOMAIN v.releases :
           /\ IsPrefix(name, v.releases[i].name)
           /\ findRelease(v, name) = v.releases[i]
<1> DEFINE S == {i \in DOMAIN v.releases : IsPrefix(name, v.releases[i].name)}
<1>1. S # {}
  BY DEF findRelease, FirstMatch
<1>2. PICK i \in DOMAIN v.releases : i \in S /\ \A k \in 1 .. i - 1 : k \notin S
  <2> HIDE DEF S
  <2>1. S \in SUBSET DOMAIN v.releases
    BY DEF S
  <2> QED
    BY <1>1, <2>1, FirstIndex
<1>3. \A k \in 1 .. i - 1 : k \in DOMAIN v.releases
  OBVIOUS
<1>4. \E k \in DOMAIN v.releases :
        /\ IsPrefix(name, v.releases[k].name)
        /\ \A j \in 1 .. k - 1 : ~(IsPrefix(name, v.releases[j].name))
  BY <1>2, <1>3
<1> QED
  BY <1>1, <1>4 DEF findRelease, FirstMatch

LEMMA FoundEdition ==
  ASSUME NEW r, r.editions \in Seq(ToSet(r.editions)), NEW name, findEdition(r, name) # None
  PROVE  \E i \in DOMAIN r.editions :
           /\ HasWords(r.editions[i].name, name)
           /\ findEdition(r, name) = r.editions[i]
<1> DEFINE S == {i \in DOMAIN r.editions : HasWords(r.editions[i].name, name)}
<1>1. S # {}
  BY DEF findEdition, FirstMatch
<1>2. PICK i \in DOMAIN r.editions : i \in S /\ \A k \in 1 .. i - 1 : k \notin S
  <2> HIDE DEF S
  <2>1. S \in SUBSET DOMAIN r.editions
    BY DEF S
  <2> QED
    BY <1>1, <2>1, FirstIndex
<1>3. \A k \in 1 .. i - 1 : k \in DOMAIN r.editions
  OBVIOUS
<1>4. \E k \in DOMAIN r.editions :
        /\ HasWords(r.editions[k].name, name)
        /\ \A j \in 1 .. k - 1 : ~(HasWords(r.editions[j].name, name))
  BY <1>2, <1>3
<1> QED
  BY <1>1, <1>4 DEF findEdition, FirstMatch

LEMMA FoundLanguage ==
  ASSUME NEW entries \in Seq(Entries), NEW name, selectLanguage(entries, name) # None
  PROVE  \E i \in DOMAIN entries :
           /\ (HasWords(<<entries[i].code>>, name) \/ HasWords(entries[i].display, name))
           /\ selectLanguage(entries, name) = entries[i]
<1> DEFINE S == {i \in DOMAIN entries :
                   HasWords(<<entries[i].code>>, name) \/ HasWords(entries[i].display, name)}
<1>1. S # {}
  BY DEF selectLanguage, FirstMatch
<1>2. PICK i \in DOMAIN entries : i \in S /\ \A k \in 1 .. i - 1 : k \notin S
  <2> HIDE DEF S
  <2>1. S \in SUBSET DOMAIN entries
    BY DEF S
  <2> QED
    BY <1>1, <2>1, FirstIndex
<1>3. \A k \in 1 .. i - 1 : k \in DOMAIN entries
  OBVIOUS
<1>4. \E k \in DOMAIN entries :
        /\ (HasWords(<<entries[k].code>>, name) \/ HasWords(entries[k].display, name))
        /\ \A j \in 1 .. k - 1 : ~(HasWords(<<entries[j].code>>, name) \/ HasWords(entries[j].display, name))
  BY <1>2, <1>3
<1> QED
  BY <1>1, <1>4 DEF selectLanguage, FirstMatch

LEMMA FoundArch ==
  ASSUME NEW all \in Seq(DownloadLinks), NEW name, selectArch(all, name) # None
  PROVE  \E i \in DOMAIN all :
           /\ all[i].arch = name
           /\ selectArch(all, name) = all[i]
<1> DEFINE S == {i \in DOMAIN all : all[i].arch = name}
<1>1. S # {}
  BY DEF selectArch, FirstMatch
<1>2. PICK i \in DOMAIN all : i \in S /\ \A k \in 1 .. i - 1 : k \notin S
  <2> HIDE DEF S
  <2>1. S \in SUBSET DOMAIN all
    BY DEF S
  <2> QED
    BY <1>1, <2>1, FirstIndex
<1>3. \A k \in 1 .. i - 1 : k \in DOMAIN all
  OBVIOUS
<1>4. \E k \in DOMAIN all :
        /\ all[k].arch = name
        /\ \A j \in 1 .. k - 1 : ~(all[j].arch = name)
  BY <1>2, <1>3
<1> QED
  BY <1>1, <1>4 DEF selectArch, FirstMatch

\* The edition of a configuration that needs downloads has product ids.
LEMMA EditionHasIds ==
  ASSUME NEW c, findEdition(findRelease(findVersion(c.version), c.release), c.edition) # None,
         ~IsUefi(findVersion(c.version))
  PROVE  findEdition(findRelease(findVersion(c.version), c.release), c.edition).ids \in Seq(DOMAIN Offered)
<1> DEFINE v == findVersion(c.version)
           r == findRelease(v, c.release)
           e == findEdition(r, c.edition)
<1>1. Versions \in Seq(ToSet(Versions))
  BY FidoAssumption DEF FidoAssumption
<1>2. r # None
  BY DEF findEdition
<1>3. v # None
  BY <1>2 DEF findRelease
<1>4. v \in ToSet(Versions)
  <2>1. \E i \in DOMAIN Versions : v = Versions[i]
    BY <1>1, <1>3, FoundVersion
  <2> QED
    BY <2>1 DEF ToSet
<1>5. /\ v.releases \in Seq(ToSet(v.releases)) /\ v.releases # <<>>
      /\ \A x \in ToSet(v.releases) :
            /\ x.editions \in Seq(ToSet(x.editions))
            /\ \A y \in ToSet(x.editions) : y.ids \in Seq(DOMAIN Offered)
  BY <1>4, FidoAssumption DEF FidoAssumption
<1> HIDE DEF v
<1>6. r \in ToSet(v.releases)
  <2>1. CASE c.release = Latest
    <3>1. r = v.releases[1]
      BY <1>2, <1>3, <2>1 DEF findRelease
    <3>2. 1 \in DOMAIN v.releases
      BY <1>5
    <3> QED
      BY <3>1, <3>2 DEF ToSet
  <2>2. CASE c.release # Latest
    <3>1. \E i \in DOMAIN v.releases : r = v.releases[i]
      BY <1>2, <1>3, <1>5, <2>2, FoundRelease
    <3> QED
      BY <3>1 DEF ToSet
  <2> QED
    BY <2>1, <2>2
<1> HIDE DEF r
<1>7. e \in ToSet(r.editions)
  <2>1. e # None
    BY DEF v, r
  <2>2. r.editions \in Seq(ToSet(r.editions))
    BY <1>5, <1>6
  <2>3. \E i \in DOMAIN r.editions : e = r.editions[i]
    BY <2>1, <2>2, FoundEdition
  <2> QED
    BY <2>3 DEF ToSet
<1> HIDE DEF e
<1>8. e.ids \in Seq(DOMAIN Offered)
  BY <1>5, <1>6, <1>7
<1> QED
  BY <1>8 DEF e, r, v

-----------------------------------------------------------------------------
FidoTypes ==
  /\ edition \in Nat \ {0} /\ nextSku \in Nat \ {0}
  /\ ids \in Seq(DOMAIN Offered)
  /\ served \in ServedType
  /\ languages \in Seq(Entries)
  /\ links \in Seq(DownloadLinks)

Collecting == {"register", "mdt", "echo", "sku", "pause"}

\* How far the session of the edition at hand is.
Sessions ==
  /\ stage \in {"select", "locale"} => edition = 1
  /\ stage \in Collecting => edition \in 1 .. Len(ids)
  /\ stage \in {"mdt", "echo"} => edition \in served.registered
  /\ stage \in {"sku", "pause"} => edition \in served.shaken
  /\ served.shaken \subseteq served.registered
  /\ \A t \in served.listed : t[1] \in served.shaken

Collected ==
  /\ OneEach(languages)
  /\ HeldBy(languages) = served.listed
  /\ served.wasted = {}

Speaks(l, name) == HasWords(<<l.code>>, name) \/ HasWords(l.display, name)

\* The language once chosen, and how many of its SKUs have been asked for.
LanguageChosen ==
  /\ lang # None =>
       /\ lang \in Entries /\ Speaks(lang, cfg.language)
       /\ stage \in {"links", "arch", "done", "failed"}
  /\ lang = None => nextSku = 1 /\ stage \notin {"links", "arch"}
  /\ stage = "links" => nextSku <= Len(lang.skus)
  /\ stage = "arch" => nextSku = Len(lang.skus) + 1
  /\ ToSet(links) = served.offers

FidoInv == FidoTypes /\ Sessions /\ Collected /\ LanguageChosen /\ AnswersAreUsed

LEMMA FidoInvInit == FidoInit => FidoInv
<1> SUFFICES ASSUME FidoInit PROVE FidoInv
  OBVIOUS
<1>1. HeldBy(<<>>) = {} /\ ToSet(<<>>) = {}
  BY DEF HeldBy, ToSet
<1>2. served = [registered |-> {}, shaken |-> {}, listed |-> {}, wasted |-> {}, offers |-> {}]
      /\ languages = <<>> /\ links = <<>> /\ lang = None /\ stage = "select" /\ nextSku = 1 /\ edition = 1
      /\ ids = <<>>
  BY DEF FidoInit
<1>3. FidoTypes
  BY <1>2 DEF FidoTypes, ServedType
<1>4. Sessions
  BY <1>2 DEF Sessions, Collecting
<1>5. Collected
  BY <1>1, <1>2 DEF Collected, OneEach
<1>6. LanguageChosen
  BY <1>1, <1>2 DEF LanguageChosen
<1>7. AnswersAreUsed
  BY <1>2 DEF AnswersAreUsed
<1> QED
  BY <1>3, <1>4, <1>5, <1>6, <1>7 DEF FidoInv

\* The steps before the first session change nothing but the stage, the locale and the ids.
LEMMA SelectKeepsInv ==
  ASSUME FidoInv, Select \/ ResolveLocale
  PROVE  FidoInv'
<1> USE DEF FidoInv
<1>1. /\ UNCHANGED <<cfg, edition, nextSku, served, languages, links, lang>>
      /\ stage \in {"select", "locale"}
      /\ stage' \in {"failed", "done", "locale", "language", "register"}
      /\ stage' = "register" => ids # <<>> /\ ids' = ids
  BY DEF Select, ResolveLocale, Fail, Goto
<1>2. lang = None
  BY <1>1 DEF LanguageChosen
<1>3. ids' \in Seq(DOMAIN Offered)
  <2>1. CASE ids' = ids
    BY <2>1 DEF FidoTypes
  <2>2. CASE ids' # ids
    <3> DEFINE v == findVersion(cfg.version)
               e == findEdition(findRelease(v, cfg.release), cfg.edition)
    <3>1. e # None /\ ~IsUefi(v) /\ ids' = e.ids
      BY <2>2 DEF Select, ResolveLocale, Fail
    <3> QED
      BY <3>1, EditionHasIds
  <2> QED
    BY <2>1, <2>2
<1>4. FidoTypes'
  BY <1>1, <1>3 DEF FidoTypes
<1>5. Sessions'
  <2>1. stage' = "register" => edition' \in 1 .. Len(ids')
    <3> SUFFICES ASSUME stage' = "register" PROVE edition' \in 1 .. Len(ids')
      OBVIOUS
    <3>1. edition = 1
      BY <1>1 DEF Sessions
    <3> QED
      BY <1>1, <3>1 DEF FidoTypes
  <2> QED
    BY <1>1, <2>1 DEF Sessions, Collecting
<1>6. Collected'
  BY <1>1 DEF Collected
<1>7. LanguageChosen'
  BY <1>1, <1>2 DEF LanguageChosen
<1>8. AnswersAreUsed'
  BY <1>1, <1>2 DEF AnswersAreUsed
<1> QED
  BY <1>4, <1>5, <1>6, <1>7, <1>8

\* Registering, the handshake and the pauses tell the services of the edition at hand.
LEMMA SessionKeepsInv ==
  ASSUME FidoInv, Register \/ FetchScript \/ EchoTokens \/ Pause
  PROVE  FidoInv'
<1> USE DEF FidoInv
<1>1. /\ UNCHANGED <<cfg, ids, edition, nextSku, languages, links, lang>>
      /\ stage \in Collecting /\ stage' \in {"failed", "mdt", "echo", "sku"}
  BY DEF Register, FetchScript, EchoTokens, Pause, Fail, Goto, Collecting
<1>2. lang = None
  BY <1>1 DEF LanguageChosen, Collecting
<1>3. edition \in Nat
  BY DEF FidoTypes
<1>4. /\ served' \in ServedType
      /\ served'.listed = served.listed /\ served'.wasted = served.wasted /\ served'.offers = served.offers
      /\ served'.shaken \subseteq served'.registered
      /\ served.shaken \subseteq served'.shaken /\ served.registered \subseteq served'.registered
      /\ stage' \in {"mdt", "echo"} => edition \in served'.registered
      /\ stage' = "sku" => edition \in served'.shaken
  <2>1. CASE stage' = "failed" \/ FetchScript \/ Pause
    BY <1>1, <2>1 DEF Register, FetchScript, EchoTokens, Pause, Fail, Goto, FidoTypes, Sessions
  <2>2. CASE Register /\ stage' # "failed"
    <3>1. served' = [served EXCEPT !.registered = @ \cup {edition}] /\ stage' = "mdt"
      BY <2>2 DEF Register, Fail, Goto, Session
    <3> QED
      BY <1>3, <3>1 DEF FidoTypes, Sessions, ServedType
  <2>3. CASE EchoTokens /\ stage' # "failed"
    <3>1. served' = [served EXCEPT !.shaken = @ \cup {edition}] /\ stage' = "sku" /\ stage = "echo"
      BY <2>3 DEF EchoTokens, Fail, Goto, Session
    <3> QED
      BY <1>3, <3>1 DEF FidoTypes, Sessions, ServedType
  <2> QED
    BY <1>1, <2>1, <2>2, <2>3
<1>5. FidoTypes'
  BY <1>1, <1>4 DEF FidoTypes
<1>6. Sessions'
  BY <1>1, <1>4 DEF Sessions, Collecting
<1>7. Collected'
  BY <1>1, <1>4 DEF Collected
<1>8. LanguageChosen'
  BY <1>1, <1>2, <1>4 DEF LanguageChosen
<1>9. AnswersAreUsed'
  BY <1>1, <1>2, <1>4 DEF AnswersAreUsed
<1> QED
  BY <1>5, <1>6, <1>7, <1>8, <1>9

\* A list of SKUs is merged; no other answer was a list that could be used.
LEMMA SkusKeepInv ==
  ASSUME FidoInv, RequestSkus
  PROVE  FidoInv'
<1> USE DEF FidoInv
<1>1. /\ UNCHANGED <<cfg, ids, nextSku, links, lang>>
      /\ stage = "sku" /\ stage' \in {"pause", "failed", "language", "register"}
  BY DEF RequestSkus, Retry, Goto
<1>2. lang = None
  BY <1>1 DEF LanguageChosen
<1>3. edition \in 1 .. Len(ids) /\ edition \in served.shaken /\ ids[edition] \in DOMAIN Offered
      /\ Len(ids) \in Nat
  BY <1>1 DEF Sessions, Collecting, FidoTypes
<1>4. CASE UNCHANGED <<edition, languages>> /\ stage' \in {"pause", "failed"}
  <2>1. served' = served
    <3>1. PICK a \in Answers(SkuAnswers(ids[edition])) :
            \/ a.kind # "json" /\ served' = served
            \/ /\ Unmarshal(a).errors # <<>> \/ Unmarshal(a).skus = <<>>
               /\ served' = [served EXCEPT !.wasted =
                               IF a.kind = "json" /\ a.errors = <<>> /\ a.skus # <<>>
                                 THEN @ \cup {Session(edition)} ELSE @]
      BY <1>4 DEF RequestSkus, Goto
    <3>2. Unmarshal(a).errors = a.errors /\ Unmarshal(a).skus = a.skus
      BY DEF Unmarshal
    <3> QED
      BY <3>1, <3>2 DEF FidoTypes, ServedType
  <2>2. FidoTypes'
    BY <1>1, <1>4, <2>1 DEF FidoTypes
  <2>3. Sessions'
    BY <1>1, <1>3, <1>4, <2>1 DEF Sessions, Collecting
  <2>4. Collected'
    BY <1>4, <2>1 DEF Collected
  <2>5. LanguageChosen'
    BY <1>1, <1>2, <1>4, <2>1 DEF LanguageChosen
  <2>6. AnswersAreUsed'
    BY <1>1, <1>2, <1>4, <2>1 DEF AnswersAreUsed
  <2> QED
    BY <2>2, <2>3, <2>4, <2>5, <2>6
<1>5. CASE ~(UNCHANGED <<edition, languages>> /\ stage' \in {"pause", "failed"})
  <2>1. PICK a \in SkuAnswers(ids[edition]) :
          /\ a.kind = "json" /\ a.skus # <<>>
          /\ languages' = Merged(languages, a.skus, edition)
          /\ edition' = edition + 1
          /\ stage' = IF edition = Len(ids) THEN "language" ELSE "register"
          /\ served' = [served EXCEPT !.listed = @ \cup {<<edition, sku.id, sku.language>> :
                                                            sku \in ToSet(a.skus)}]
    <3>1. PICK a \in Answers(SkuAnswers(ids[edition])) :
            /\ a.kind = "json" /\ Unmarshal(a).skus # <<>>
            /\ languages' = Merged(languages, Unmarshal(a).skus, Session(edition))
            /\ edition' = edition + 1
            /\ stage' = IF edition = Len(ids) THEN "language" ELSE "register"
            /\ served' = [served EXCEPT !.listed = @ \cup {<<Session(edition), sku.id, sku.language>> :
                                                              sku \in ToSet(Unmarshal(a).skus)}]
      BY <1>5 DEF RequestSkus, Retry, Goto
    <3>2. Unmarshal(a).skus = a.skus /\ Session(edition) = edition
      BY DEF Unmarshal, Session
    <3>3. Transport.kind # "json"
      BY DEF Transport, Answer
    <3>4. a \in SkuAnswers(ids[edition])
      BY <3>1, <3>3 DEF Answers
    <3> QED
      BY <3>1, <3>2, <3>4
  <2> DEFINE new == {<<edition, sku.id, sku.language>> : sku \in ToSet(a.skus)}
  <2>2. a.skus \in Seq(Skus) /\ ToSet(a.skus) \subseteq Skus
    <3>1. a.skus \in Offered[ids[edition]]
      BY <2>1 DEF SkuAnswers, Answer, Transport
    <3>2. a.skus \in Seq(Skus)
      BY <1>3, <3>1, FidoAssumption DEF FidoAssumption
    <3> QED
      BY <3>2 DEF ToSet
  <2>3. edition \in Nat
    BY DEF FidoTypes
  <2>4. /\ languages' \in Seq(Entries) /\ OneEach(languages')
        /\ HeldBy(languages') = HeldBy(languages) \cup new
    <3> DEFINE k == a.skus
    <3>1. k \in Seq(Skus) /\ languages \in Seq(Entries) /\ OneEach(languages)
      BY <2>2 DEF FidoTypes, Collected
    <3> HIDE DEF k
    <3>2. /\ Merged(languages, k, edition) \in Seq(Entries) /\ OneEach(Merged(languages, k, edition))
          /\ HeldBy(Merged(languages, k, edition)) =
               HeldBy(languages) \cup {<<edition, sku.id, sku.language>> : sku \in ToSet(k)}
      BY <2>3, <3>1, MergedKeeps
    <3> QED
      BY <2>1, <3>2 DEF k
  <2>5. new \subseteq Nat \X (DOMAIN Links) \X {sku.language : sku \in Skus}
    BY <2>2, <2>3, FidoAssumption DEF FidoAssumption
  <2>6. \A t \in new : t[1] = edition
    OBVIOUS
  <2> HIDE DEF new
  <2>7. /\ served' \in ServedType /\ served'.listed = served.listed \cup new
        /\ served'.shaken = served.shaken /\ served'.registered = served.registered
        /\ served'.wasted = served.wasted /\ served'.offers = served.offers
    <3>1. served' = [served EXCEPT !.listed = @ \cup new]
      BY <2>1 DEF new
    <3> QED
      BY <2>5, <3>1 DEF FidoTypes, ServedType
  <2>8. FidoTypes'
    BY <1>1, <2>1, <2>4, <2>7 DEF FidoTypes
  <2>9. Sessions'
    <3>1. stage' = "register" => edition' \in 1 .. Len(ids')
      BY <1>1, <1>3, <2>1
    <3> QED
      BY <1>1, <1>3, <2>1, <2>6, <2>7, <3>1 DEF Sessions, Collecting
  <2>10. Collected'
    BY <2>4, <2>7 DEF Collected
  <2>11. LanguageChosen'
    BY <1>1, <1>2, <2>1, <2>7 DEF LanguageChosen
  <2>12. AnswersAreUsed'
    BY <1>1, <1>2, <2>1, <2>7 DEF AnswersAreUsed
  <2> QED
    BY <2>8, <2>9, <2>10, <2>11, <2>12
<1> QED
  BY <1>4, <1>5

LEMMA EntriesAreSome ==
  /\ \A l \in Entries : l # None /\ Len(l.skus) \in Nat \ {0} /\ l.skus \in Seq(Uses)
  /\ \A l \in DownloadLinks : l # None
<1>1. DOMAIN None = {"none"}
  BY DEF None
<1>2. ASSUME NEW l \in Entries PROVE l # None /\ Len(l.skus) \in Nat \ {0} /\ l.skus \in Seq(Uses)
  <2>1. DOMAIN l = {"code", "display", "skus"} /\ l.skus \in Seq(Uses) /\ l.skus # <<>>
    BY DEF Entries
  <2> QED
    BY <1>1, <2>1
<1>3. ASSUME NEW l \in DownloadLinks PROVE l # None
  <2>1. DOMAIN l = {"arch", "url"}
    BY DEF DownloadLinks
  <2> QED
    BY <1>1, <2>1
<1> QED
  BY <1>2, <1>3

LEMMA LanguageKeepsInv ==
  ASSUME FidoInv, ChooseLanguage
  PROVE  FidoInv'
<1> USE DEF FidoInv
<1> DEFINE l == selectLanguage(languages, cfg.language)
<1>1. /\ UNCHANGED <<cfg, ids, edition, nextSku, served, languages, links>>
      /\ stage = "language"
      /\ l = None => lang' = lang /\ stage' = "failed"
      /\ l # None => lang' = l /\ stage' = "links"
  BY DEF ChooseLanguage, Fail, Goto
<1>2. lang = None /\ nextSku = 1
  BY <1>1 DEF LanguageChosen
<1>3. l # None => l \in Entries /\ Speaks(l, cfg.language)
  <2> SUFFICES ASSUME l # None PROVE l \in Entries /\ Speaks(l, cfg.language)
    OBVIOUS
  <2>1. languages \in Seq(Entries)
    BY DEF FidoTypes
  <2>2. PICK i \in DOMAIN languages :
          /\ HasWords(<<languages[i].code>>, cfg.language) \/ HasWords(languages[i].display, cfg.language)
          /\ l = languages[i]
    <3> DEFINE name == cfg.language
    <3> HIDE DEF name
    <3>1. selectLanguage(languages, name) # None
      BY DEF name
    <3>2. \E i \in DOMAIN languages :
            /\ HasWords(<<languages[i].code>>, name) \/ HasWords(languages[i].display, name)
            /\ selectLanguage(languages, name) = languages[i]
      BY <2>1, <3>1, FoundLanguage
    <3> QED
      BY <3>2 DEF name
  <2>3. languages[i] \in Entries
    BY <2>1, <2>2
  <2> QED
    BY <2>2, <2>3 DEF Speaks
<1> HIDE DEF l
<1>4. FidoTypes'
  BY <1>1 DEF FidoTypes
<1>5. Sessions'
  BY <1>1 DEF Sessions, Collecting
<1>6. Collected'
  BY <1>1 DEF Collected
<1>7. LanguageChosen'
  BY <1>1, <1>2, <1>3, EntriesAreSome DEF LanguageChosen
<1>8. AnswersAreUsed'
  BY <1>1, <1>2, <1>3, EntriesAreSome DEF AnswersAreUsed
<1> QED
  BY <1>4, <1>5, <1>6, <1>7, <1>8

LEMMA LinksKeepInv ==
  ASSUME FidoInv, RequestLinks
  PROVE  FidoInv'
<1> USE DEF FidoInv
<1>1. /\ UNCHANGED <<cfg, ids, edition, languages, lang>>
      /\ stage = "links"
  BY DEF RequestLinks, Fail, Goto
<1>2. lang \in Entries /\ lang # None /\ nextSku \in 1 .. Len(lang.skus) /\ Len(lang.skus) \in Nat
      /\ Speaks(lang, cfg.language) /\ lang.skus \in Seq(Uses)
  BY <1>1, EntriesAreSome DEF LanguageChosen, FidoTypes
<1>3. CASE UNCHANGED <<nextSku, links, served>> /\ stage' = "failed"
  <2>1. FidoTypes'
    BY <1>1, <1>3 DEF FidoTypes
  <2>2. Sessions'
    BY <1>1, <1>3 DEF Sessions, Collecting
  <2>3. Collected'
    BY <1>1, <1>3 DEF Collected
  <2>4. LanguageChosen'
    BY <1>1, <1>2, <1>3 DEF LanguageChosen
  <2>5. AnswersAreUsed'
    BY <1>1, <1>2, <1>3 DEF AnswersAreUsed
  <2> QED
    BY <2>1, <2>2, <2>3, <2>4, <2>5
<1>4. CASE ~(UNCHANGED <<nextSku, links, served>> /\ stage' = "failed")
  <2>1. PICK a \in Answers({Transport, Answer("json", <<>>, <<9>>)}
                           \cup {Answer("json", offer, <<>>) : offer \in Links[lang.skus[nextSku].sku]}) :
          /\ a.kind = "json" /\ a.errors = <<>>
          /\ LET found == [i \in DOMAIN a.skus |->
                             [arch |-> archFromType(a.skus[i].type), url |-> a.skus[i].url]]
             IN  /\ links' = links \o found
                 /\ served' = [served EXCEPT !.offers = @ \cup ToSet(found)]
          /\ nextSku' = nextSku + 1
          /\ stage' = IF nextSku = Len(lang.skus) THEN "arch" ELSE "links"
    BY <1>4 DEF RequestLinks, Fail, Goto
  <2> DEFINE found == [i \in DOMAIN a.skus |->
                         [arch |-> archFromType(a.skus[i].type), url |-> a.skus[i].url]]
  <2>2. a.skus \in Links[lang.skus[nextSku].sku]
    <3> DEFINE all == Links[lang.skus[nextSku].sku]
               b == Answer("json", <<>>, <<9>>)
    <3>1. Transport.kind # "json" /\ b.errors # <<>>
      BY DEF Transport, Answer
    <3>2. \/ a = Transport \/ a = b
          \/ a \in {Answer("json", offer, <<>>) : offer \in all}
      BY <2>1 DEF Answers
    <3> HIDE DEF all, b
    <3>3. PICK offer \in all : a = Answer("json", offer, <<>>)
      BY <2>1, <3>1, <3>2
    <3>4. a.skus \in all
      BY <3>3 DEF Answer
    <3> QED
      BY <3>4 DEF all
  <2>3. a.skus \in Seq(Offers)
    <3>1. lang.skus[nextSku].sku \in DOMAIN Links
      <4> DEFINE u == lang.skus[nextSku]
      <4>1. u \in Uses
        BY <1>2
      <4> HIDE DEF u
      <4>2. u.sku \in DOMAIN Links
        BY <4>1 DEF Uses
      <4> QED
        BY <4>2 DEF u
    <3> QED
      BY <2>2, <3>1, FidoAssumption DEF FidoAssumption
  <2>4. found \in Seq(DownloadLinks) /\ ToSet(found) \subseteq DownloadLinks
    <3> DEFINE k == a.skus
    <3>1. k \in Seq(Offers) /\ DOMAIN k = 1 .. Len(k) /\ Len(k) \in Nat
      BY <2>3
    <3> HIDE DEF k
    <3>2. ASSUME NEW i \in 1 .. Len(k)
          PROVE  [arch |-> archFromType(k[i].type), url |-> k[i].url] \in DownloadLinks
      <4>1. archFromType(k[i].type) \in {"x86", "x64", "ARM64", "Unknown"}
        BY DEF archFromType
      <4>2. k[i] \in Offers
        BY <3>1
      <4> QED
        BY <4>1, <4>2 DEF DownloadLinks
    <3>3. found = [i \in 1 .. Len(k) |-> [arch |-> archFromType(k[i].type), url |-> k[i].url]]
      BY <3>1 DEF k
    <3> HIDE DEF found
    <3>4. found \in Seq(DownloadLinks)
      BY <3>1, <3>2, <3>3
    <3> QED
      BY <3>4 DEF ToSet
  <2> HIDE DEF found
  <2>5. links' \in Seq(DownloadLinks) /\ ToSet(links') = ToSet(links) \cup ToSet(found)
    <3>1. links' = links \o found
      BY <2>1 DEF found
    <3>2. links \in Seq(DownloadLinks)
      BY DEF FidoTypes
    <3>3. links' \in Seq(DownloadLinks) /\ Len(links') = Len(links) + Len(found)
          /\ Len(links) \in Nat /\ Len(found) \in Nat
      BY <2>4, <3>1, <3>2
    <3>4. \A i \in 1 .. Len(links') : links'[i] = IF i <= Len(links) THEN links[i] ELSE found[i - Len(links)]
      BY <2>4, <3>1, <3>2
    <3>5. ASSUME NEW x PROVE x \in ToSet(links') <=> x \in ToSet(links) \cup ToSet(found)
      <4>1. x \in ToSet(links') <=> \E i \in 1 .. Len(links') : x = links'[i]
        BY <3>3 DEF ToSet
      <4>2. x \in ToSet(links) <=> \E i \in 1 .. Len(links) : x = links[i]
        BY <3>2 DEF ToSet
      <4>3. x \in ToSet(found) <=> \E i \in 1 .. Len(found) : x = found[i]
        BY <2>4 DEF ToSet
      <4>4. ASSUME NEW i \in 1 .. Len(links'), x = links'[i] PROVE x \in ToSet(links) \cup ToSet(found)
        <5>1. CASE i <= Len(links)
          BY <3>3, <3>4, <4>2, <4>4, <5>1
        <5>2. CASE i > Len(links)
          <6>1. i - Len(links) \in 1 .. Len(found) /\ x = found[i - Len(links)]
            BY <3>3, <3>4, <4>4, <5>2
          <6> QED
            BY <4>3, <6>1
        <5> QED
          BY <3>3, <5>1, <5>2
      <4>5. ASSUME NEW i \in 1 .. Len(links), x = links[i] PROVE x \in ToSet(links')
        <5>1. i \in 1 .. Len(links') /\ links'[i] = links[i]
          BY <3>3, <3>4
        <5> QED
          BY <4>1, <4>5, <5>1
      <4>6. ASSUME NEW i \in 1 .. Len(found), x = found[i] PROVE x \in ToSet(links')
        <5> DEFINE j == Len(links) + i
        <5>1. j \in 1 .. Len(links') /\ ~(j <= Len(links)) /\ j - Len(links) = i
          BY <3>3
        <5> HIDE DEF j
        <5>2. links'[j] = found[i]
          BY <3>4, <5>1
        <5> QED
          BY <4>1, <4>6, <5>1, <5>2
      <4> QED
        BY <4>1, <4>2, <4>3, <4>4, <4>5, <4>6
    <3> QED
      BY <3>3, <3>5
  <2>6. /\ served' \in ServedType /\ served'.offers = served.offers \cup ToSet(found)
        /\ served'.shaken = served.shaken /\ served'.registered = served.registered
        /\ served'.wasted = served.wasted /\ served'.listed = served.listed
    <3>1. served' = [served EXCEPT !.offers = @ \cup ToSet(found)]
      BY <2>1 DEF found
    <3> QED
      BY <2>4, <3>1 DEF FidoTypes, ServedType
  <2>7. FidoTypes'
    BY <1>1, <1>2, <2>1, <2>5, <2>6 DEF FidoTypes
  <2>8. Sessions'
    BY <1>1, <2>1, <2>6 DEF Sessions, Collecting
  <2>9. Collected'
    BY <1>1, <2>6 DEF Collected
  <2>10. LanguageChosen'
    <3>1. stage' = "links" => nextSku' <= Len(lang'.skus)
      BY <1>1, <1>2, <2>1
    <3>2. stage' = "arch" => nextSku' = Len(lang'.skus) + 1
      BY <1>1, <2>1
    <3>3. ToSet(links') = served'.offers
      BY <2>5, <2>6 DEF LanguageChosen
    <3> QED
      BY <1>1, <1>2, <2>1, <3>1, <3>2, <3>3 DEF LanguageChosen
  <2>11. AnswersAreUsed'
    BY <1>1, <2>1, <2>6 DEF AnswersAreUsed
  <2> QED
    BY <2>7, <2>8, <2>9, <2>10, <2>11
<1> QED
  BY <1>3, <1>4

LEMMA ArchKeepsInv ==
  ASSUME FidoInv, ChooseArch
  PROVE  FidoInv'
<1> USE DEF FidoInv
<1> DEFINE l == selectArch(links, cfg.arch)
<1>1. /\ UNCHANGED <<cfg, ids, edition, nextSku, served, languages, links, lang>>
      /\ stage = "arch"
      /\ l = None => stage' = "failed"
      /\ l # None => result' = l /\ stage' = "done"
  BY DEF ChooseArch, Fail, Goto
<1>2. lang # None /\ nextSku = Len(lang.skus) + 1 /\ Speaks(lang, cfg.language)
      /\ ToSet(links) = served.offers /\ lang \in Entries
  BY <1>1 DEF LanguageChosen
<1>3. links \in Seq(DownloadLinks)
  BY DEF FidoTypes
<1>4. l # None => l \in served.offers /\ l.arch = cfg.arch
  <2> SUFFICES ASSUME l # None PROVE l \in served.offers /\ l.arch = cfg.arch
    OBVIOUS
  <2> DEFINE name == cfg.arch
  <2> HIDE DEF name
  <2>1. selectArch(links, name) # None
    BY DEF name
  <2>2. PICK i \in DOMAIN links : links[i].arch = name /\ selectArch(links, name) = links[i]
    BY <1>3, <2>1, FoundArch
  <2> QED
    BY <1>2, <2>2 DEF ToSet, name
<1>5. l = None => \A x \in served.offers : x.arch # cfg.arch
  <2> SUFFICES ASSUME l = None, NEW i \in DOMAIN links, links[i].arch = cfg.arch PROVE FALSE
    BY <1>2 DEF ToSet
  <2> DEFINE S == {k \in DOMAIN links : links[k].arch = cfg.arch}
  <2>1. i \in S
    OBVIOUS
  <2>2. PICK k \in DOMAIN links : k \in S /\ \A j \in 1 .. k - 1 : j \notin S
    <3>1. S \in SUBSET DOMAIN links
      OBVIOUS
    <3> HIDE DEF S
    <3> QED
      BY <1>3, <2>1, <3>1, FirstIndex
  <2>3. \A j \in 1 .. k - 1 : j \in DOMAIN links
    BY <1>3
  <2>4. \E j \in DOMAIN links : links[j].arch = cfg.arch /\ \A m \in 1 .. j - 1 : ~(links[m].arch = cfg.arch)
    BY <2>2, <2>3
  <2>5. \E j \in DOMAIN links : l = links[j]
    BY <2>4 DEF selectArch, FirstMatch
  <2> HIDE DEF l
  <2> QED
    BY <1>3, <2>5, EntriesAreSome
<1> HIDE DEF l
<1>6. FidoTypes'
  BY <1>1 DEF FidoTypes
<1>7. Sessions'
  BY <1>1 DEF Sessions, Collecting
<1>8. Collected'
  BY <1>1 DEF Collected
<1>9. LanguageChosen'
  BY <1>1, <1>2 DEF LanguageChosen
<1>10. AnswersAreUsed'
  BY <1>1, <1>2, <1>4, <1>5 DEF AnswersAreUsed, Speaks
<1> QED
  BY <1>6, <1>7, <1>8, <1>9, <1>10

LEMMA FidoInvStep == FidoInv /\ [DownloadsNext]_downloadVars => FidoInv'
<1> SUFFICES ASSUME FidoInv, [DownloadsNext]_downloadVars PROVE FidoInv'
  OBVIOUS
<1>1. CASE UNCHANGED <<cfg, stage, ids, edition, languages, lang, nextSku, links, result, served>>
  BY <1>1 DEF FidoInv, FidoTypes, Sessions, Collecting, Collected, LanguageChosen, AnswersAreUsed
<1>2. CASE FidoStep
  BY <1>2, SelectKeepsInv, SessionKeepsInv, SkusKeepInv, LanguageKeepsInv, LinksKeepInv, ArchKeepsInv
     DEF FidoStep
<1>3. UNCHANGED downloadVars \/ CancelFido \/ UNCHANGED fidoVars \/ FidoStep
  BY DEF DownloadsNext, FetchIso, FetchCapability, Cancel
<1> QED
  BY <1>1, <1>2, <1>3 DEF downloadVars, fidoVars, CancelFido

LEMMA FidoInvariant == DownloadsSpec => []FidoInv
<1>1. DownloadsInit => FidoInv
  BY FidoInvInit DEF DownloadsInit
<1> QED
  BY <1>1, FidoInvStep, PTL DEF DownloadsSpec

\* The merged list holds exactly the SKUs of the accepted answers, one entry per language,
\* each SKU with the session it was listed under.
THEOREM SessionsKept == DownloadsSpec => []SkusKeepTheirSession
<1>1. FidoInv => SkusKeepTheirSession
  BY DEF FidoInv, Sessions, Collected, SkusKeepTheirSession, HeldBy, Held, OneEach
<1> QED
  BY <1>1, FidoInvariant, PTL

\* The call fails for what the services did and for nothing else, and what it returns is
\* what was asked for.
THEOREM AnswersUsed == DownloadsSpec => []AnswersAreUsed
<1>1. FidoInv => AnswersAreUsed
  BY DEF FidoInv
<1> QED
  BY <1>1, FidoInvariant, PTL

-----------------------------------------------------------------------------
(* Capability payloads.                                                      *)

LEMMA ValueExists ==
  ASSUME NEW d, Len(d) \in Nat
  PROVE  \E g : g = [k \in 0 .. Len(d) |-> IF k = 0 THEN 0 ELSE 10 * g[k - 1] + d[k]]
<1> DEFINE Upto(n) == \E g : g = [k \in 0 .. n |-> IF k = 0 THEN 0 ELSE 10 * g[k - 1] + d[k]]
           bad == {n \in Nat : ~Upto(n)}
<1>1. Upto(0)
  <2> DEFINE g == [k \in 0 .. 0 |-> 0]
  <2>1. g = [k \in 0 .. 0 |-> IF k = 0 THEN 0 ELSE 10 * g[k - 1] + d[k]]
    <3>1. \A k \in 0 .. 0 : k = 0
      OBVIOUS
    <3> QED
      BY <3>1
  <2> QED
    BY <2>1
<1>2. ASSUME NEW n \in Nat, Upto(n) PROVE Upto(n + 1)
  <2>1. PICK g : g = [k \in 0 .. n |-> IF k = 0 THEN 0 ELSE 10 * g[k - 1] + d[k]]
    BY <1>2
  <2> DEFINE h == [k \in 0 .. n + 1 |-> IF k = n + 1 THEN 10 * g[n] + d[n + 1] ELSE g[k]]
             e(k) == IF k = 0 THEN 0 ELSE 10 * h[k - 1] + d[k]
  <2>2. ASSUME NEW k \in 0 .. n + 1 PROVE h[k] = e(k)
    <3>1. CASE k = n + 1
      <4>1. k # 0 /\ k - 1 = n /\ n \in 0 .. n + 1 /\ n # n + 1
        BY <3>1
      <4>2. h[k - 1] = g[n] /\ h[k] = 10 * g[n] + d[n + 1]
        BY <3>1, <4>1
      <4> HIDE DEF h
      <4> QED
        BY <3>1, <4>1, <4>2
    <3>2. CASE k # n + 1
      <4>1. k \in 0 .. n /\ h[k] = g[k]
        BY <3>2
      <4>2. g[k] = IF k = 0 THEN 0 ELSE 10 * g[k - 1] + d[k]
        BY <2>1, <4>1
      <4>3. CASE k = 0
        BY <4>1, <4>2, <4>3
      <4>4. CASE k # 0
        <5>1. k - 1 \in 0 .. n + 1 /\ k - 1 # n + 1
          BY <4>1, <4>4
        <5>2. h[k - 1] = g[k - 1]
          BY <5>1
        <5> HIDE DEF h
        <5> QED
          BY <4>1, <4>2, <4>4, <5>2
      <4> QED
        BY <4>3, <4>4
    <3> QED
      BY <3>1, <3>2
  <2>3. h = [k \in 0 .. n + 1 |-> e(k)]
    <3>1. h = [k \in 0 .. n + 1 |-> h[k]]
      OBVIOUS
    <3> HIDE DEF h, e
    <3> QED
      BY <2>2, <3>1
  <2> HIDE DEF h
  <2> QED
    BY <2>3
<1> HIDE DEF Upto
<1>3. bad = {}
  <2> SUFFICES ASSUME bad # {} PROVE FALSE
    OBVIOUS
  <2>1. PICK n \in bad : \A j \in bad : n <= j
    <3>1. bad \in SUBSET Nat
      OBVIOUS
    <3> HIDE DEF bad
    <3> QED
      BY <3>1, LeastNumber
  <2>2. n \in Nat /\ n # 0 /\ ~Upto(n)
    BY <1>1
  <2>3. n - 1 \in Nat /\ n - 1 \notin bad /\ (n - 1) + 1 = n
    BY <2>1, <2>2
  <2>4. Upto((n - 1) + 1)
    BY <1>2, <2>3
  <2> QED
    BY <2>2, <2>3, <2>4
<1>4. Upto(Len(d))
  BY <1>3
<1> QED
  BY <1>4 DEF Upto

LEMMA NumberIsNat ==
  ASSUME NEW d \in Seq(0 .. 9)
  PROVE  Number(d) \in Nat
<1> DEFINE v == ValueUpTo(d)
           n == Len(d)
           bad == {k \in 0 .. n : v[k] \notin Nat}
<1>1. n \in Nat /\ \A k \in 1 .. n : d[k] \in Nat
  OBVIOUS
<1>2. v = [k \in 0 .. n |-> IF k = 0 THEN 0 ELSE 10 * v[k - 1] + d[k]]
  BY <1>1, ValueExists DEF ValueUpTo
<1> HIDE DEF v
<1>3. \A k \in 0 .. n : v[k] = IF k = 0 THEN 0 ELSE 10 * v[k - 1] + d[k]
  BY <1>2
<1>4. bad = {}
  <2> SUFFICES ASSUME bad # {} PROVE FALSE
    OBVIOUS
  <2>1. PICK k \in bad : \A j \in bad : k <= j
    <3>1. bad \in SUBSET Nat
      BY <1>1
    <3> HIDE DEF bad
    <3> QED
      BY <3>1, LeastNumber
  <2>2. k \in 0 .. n /\ v[k] \notin Nat /\ k # 0
    BY <1>3
  <2>3. k \in 1 .. n /\ k - 1 \in 0 .. n /\ k - 1 \notin bad
    BY <1>1, <2>1, <2>2
  <2>4. v[k - 1] \in Nat /\ d[k] \in Nat
    BY <1>1, <2>3
  <2>5. 10 * v[k - 1] + d[k] \in Nat
    BY <2>4
  <2> QED
    BY <1>3, <2>2, <2>5
<1>5. v[n] \in Nat
  BY <1>1, <1>4
<1> QED
  BY <1>5 DEF Number, v, n

\* What a reader of the two numbers would call newer.
Newer(a, b) ==
  \E i \in 1 .. Len(a) :
    /\ \A k \in 1 .. i - 1 : k <= Len(b) /\ Number(a[k]) = Number(b[k])
    /\ i > Len(b) \/ Number(a[i]) > Number(b[i])

LEMMA NewerIsLater ==
  ASSUME NEW a \in Seq(Seq(0 .. 9)), NEW b \in Seq(Seq(0 .. 9)), Newer(a, b)
  PROVE  a # b /\ buildLess(b, a)
<1> DEFINE differ == {i \in 1 .. Len(b) : i <= Len(a) /\ Number(b[i]) # Number(a[i])}
<1>1. Len(a) \in Nat /\ Len(b) \in Nat
  OBVIOUS
<1>2. /\ \A k \in 1 .. Len(a) : Number(a[k]) \in Nat
      /\ \A k \in 1 .. Len(b) : Number(b[k]) \in Nat
  <2>1. \A k \in 1 .. Len(a) : a[k] \in Seq(0 .. 9)
    OBVIOUS
  <2>2. \A k \in 1 .. Len(b) : b[k] \in Seq(0 .. 9)
    OBVIOUS
  <2> QED
    BY <2>1, <2>2, NumberIsNat
<1>3. PICK i \in 1 .. Len(a) :
        /\ \A k \in 1 .. i - 1 : k <= Len(b) /\ Number(a[k]) = Number(b[k])
        /\ i > Len(b) \/ Number(a[i]) > Number(b[i])
  BY DEF Newer
<1>4. CASE i > Len(b)
  <2>1. Len(b) < Len(a)
    BY <1>1, <1>3, <1>4
  <2>2. ASSUME NEW k \in differ PROVE FALSE
    <3>1. k \in 1 .. i - 1
      BY <1>1, <1>3, <1>4
    <3> QED
      BY <1>3, <3>1
  <2>3. differ = {}
    BY <2>2
  <2>4. buildLess(b, a)
    BY <2>1, <2>3 DEF buildLess
  <2> QED
    BY <1>1, <2>1, <2>4
<1>5. CASE ~(i > Len(b))
  <2>1. i \in 1 .. Len(b) /\ Number(b[i]) < Number(a[i]) /\ Number(b[i]) # Number(a[i])
    BY <1>1, <1>2, <1>3, <1>5
  <2>2. i \in differ
    BY <1>1, <1>3, <2>1
  <2>3. ASSUME NEW k \in differ PROVE i <= k
    <3>1. k \notin 1 .. i - 1
      BY <1>3
    <3> QED
      BY <1>1, <1>3, <3>1
  <2>4. buildLess(b, a)
    <3> HIDE DEF differ
    <3>1. differ # {} /\ \E j \in differ : (\A k \in differ : j <= k) /\ Number(b[j]) < Number(a[j])
      BY <2>1, <2>2, <2>3
    <3> QED
      BY <3>1 DEF buildLess, differ
  <2> QED
    BY <2>1, <2>4
<1> QED
  BY <1>4, <1>5

\* What the calls have chosen so far, and where they stand.
CapInv ==
  /\ at = "find" => build = NoBuild
  /\ build # NoBuild => Matches(build) /\ \A b \in index : Matches(b) => ~Newer(b.build, build.build)
  /\ at \in {"choose", "request", "copy", "done"} => files \in FileLists
  /\ at \in {"request", "copy", "done"} => file \in files
  /\ file # NoBuild =>
       /\ at \in {"request", "copy", "done", "failed"}
       /\ \A f \in files : Candidate(f.name, Family, want.arch) => file.chars <= f.chars
  /\ at = "done" =>
       \/ file.sha256 = "right" /\ written = [i \in 1 .. file.blocks |-> "good"]
       \/ file.sha256 = "" /\ written = body

LEMMA NewestFound ==
  ASSUME NEW found \in Indexes, NEW b \in FindBuild(found), NEW c \in found, Matches(c)
  PROVE  ~Newer(c.build, b.build)
<1>1. b \in found /\ ~Earlier(c, b)
  BY DEF FindBuild
<1>2. b.build \in Seq(Seq(0 .. 9)) /\ c.build \in Seq(Seq(0 .. 9))
  BY <1>1, CapabilityAssumption DEF CapabilityAssumption
<1>3. SUFFICES ASSUME Newer(c.build, b.build) PROVE Earlier(c, b)
  BY <1>1
<1> DEFINE x == c.build
           y == b.build
<1>4. x \in Seq(Seq(0 .. 9)) /\ y \in Seq(Seq(0 .. 9)) /\ Newer(x, y)
  BY <1>2, <1>3
<1> HIDE DEF x, y
<1>5. x # y /\ buildLess(y, x)
  BY <1>4, NewerIsLater
<1> QED
  BY <1>5 DEF x, y, Earlier

LEMMA CapInvInit == CapInit => CapInv
BY DEF CapInit, CapInv

LEMMA CapInvStep == CapInv /\ [DownloadsNext]_downloadVars => CapInv'
<1> SUFFICES ASSUME CapInv, [DownloadsNext]_downloadVars PROVE CapInv'
  OBVIOUS
<1> USE DEF CapInv
<1>1. CASE UNCHANGED <<want, at, build, index, files, file, body, written>>
  BY <1>1 DEF Matches, Family
<1>2. CASE FindTheBuild
  <2>1. UNCHANGED <<want, files, file, body, written>> /\ at = "find" /\ at' \in {"failed", "list"}
    BY <1>2 DEF FindTheBuild
  <2>2. file = NoBuild
    BY <2>1
  <2>3. build' # NoBuild =>
          Matches(build') /\ \A b \in index' : Matches(b) => ~Newer(b.build, build'.build)
    <3>1. CASE UNCHANGED <<build, index>>
      BY <3>1 DEF Matches
    <3>2. CASE index' \in Indexes /\ build' \in FindBuild(index')
      <4>1. Matches(build')
        BY <3>2 DEF FindBuild
      <4> QED
        BY <3>2, <4>1, NewestFound
    <3>3. CASE build' = build
      BY <2>1, <3>3
    <3> QED
      BY <1>2, <3>1, <3>2, <3>3 DEF FindTheBuild
  <2>4. CapInv'
    BY <2>1, <2>2, <2>3 DEF Matches, Family
  <2> QED
    BY <2>4
<1>3. CASE GetFiles
  <2>1. UNCHANGED <<want, build, index, file, body, written>> /\ at = "list"
        /\ at' \in {"failed", "choose"} /\ (at' = "choose" => files' \in FileLists)
    BY <1>3 DEF GetFiles
  <2>2. file = NoBuild
    BY <2>1
  <2> QED
    BY <2>1, <2>2 DEF Matches, Family
<1>4. CASE ChooseFile
  <2>1. UNCHANGED <<want, build, index, files, body, written>> /\ at = "choose"
        /\ \/ at' = "failed" /\ file' = file
           \/ at' = "request" /\ file' \in FindCapabilityFile(files)
    BY <1>4 DEF ChooseFile
  <2>2. at' = "request" =>
          /\ file' \in files
          /\ \A f \in files : Candidate(f.name, Family, want.arch) => file'.chars <= f.chars
    BY <2>1 DEF FindCapabilityFile, Chosen
  <2> QED
    BY <2>1, <2>2 DEF Matches, Family
<1>5. CASE RequestFile \/ CopyBlock \/ CopyFails
  <2>1. UNCHANGED <<want, build, index, files, file>> /\ at \in {"request", "copy"}
        /\ at' \in {"copy", "failed"}
    BY <1>5 DEF RequestFile, CopyBlock, CopyFails
  <2> QED
    BY <2>1 DEF Matches, Family
<1>6. CASE CopyEnds
  <2>1. UNCHANGED <<want, build, index, files, file, body, written>> /\ at = "copy" /\ written = body
        /\ at' \in {"done", "failed"} /\ (at' = "done" => Verified)
    BY <1>6 DEF CopyEnds
  <2>2. file.sha256 \in {"", "right"}
    BY <2>1, CapabilityAssumption DEF CapabilityAssumption
  <2>3. at' = "done" =>
          \/ file.sha256 = "right" /\ written = [i \in 1 .. file.blocks |-> "good"]
          \/ file.sha256 = "" /\ written = body
    BY <2>1, <2>2 DEF Verified, Digest
  <2> QED
    BY <2>1, <2>3 DEF Matches, Family
<1>7. \/ UNCHANGED <<want, at, build, index, files, file, body, written>>
      \/ CapStep
  BY DEF DownloadsNext, FetchIso, FetchCapability, Cancel, CancelCap, downloadVars, capVars
<1> QED
  BY <1>1, <1>2, <1>3, <1>4, <1>5, <1>6, <1>7 DEF CapStep

\* No matching build is newer than the one a payload is for, no candidate has a shorter
\* name, and success means the declared digest.
THEOREM PayloadFound == DownloadsSpec => []PayloadAsAsked
<1>1. DownloadsInit => CapInv
  BY CapInvInit DEF DownloadsInit
<1>2. CapInv => PayloadAsAsked
  BY DEF CapInv, PayloadAsAsked, Newer
<1> QED
  BY <1>1, <1>2, CapInvStep, PTL DEF DownloadsSpec
=============================================================================
