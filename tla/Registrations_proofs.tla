------------------------ MODULE Registrations_proofs ------------------------
(***************************************************************************)
(* Proofs about what is registered.                                          *)
(***************************************************************************)
EXTENDS Registrations, SequenceTheorems, WellFoundedInduction, TLAPS

-----------------------------------------------------------------------------
(* Numbers, and functions defined by recursion over the places of a list.    *)

Below == {p \in Nat \X Nat : p[1] < p[2]}

LEMMA LeastNumber ==
  ASSUME NEW S \in SUBSET Nat, S # {}
  PROVE  \E x \in S : \A y \in S : x <= y
<1>1. IsWellFoundedOn(Below, Nat)
  <2>1. OpToRel(<, Nat) = Below
    BY DEF OpToRel, Below
  <2> QED
    BY <2>1, NatLessThanWellFounded
<1>2. PICK x \in S : \A y \in S : ~(<<y, x>> \in Below)
  BY <1>1, WFMin
<1>3. ASSUME NEW y \in S PROVE x <= y
  <2>1. x \in Nat /\ y \in Nat
    OBVIOUS
  <2>2. ~(y < x)
    BY <1>2, <2>1 DEF Below
  <2> QED
    BY <2>1, <2>2
<1> QED
  BY <1>3

\* Induction up to n, over the numbers of a set.
LEMMA UpTo ==
  ASSUME NEW n \in Nat, NEW S, 0 \in S, \A k \in 1 .. n : k - 1 \in S => k \in S
  PROVE  0 .. n \subseteq S
<1> DEFINE bad == {k \in 0 .. n : k \notin S}
<1>1. bad = {}
  <2> SUFFICES ASSUME bad # {} PROVE FALSE
    OBVIOUS
  <2>1. PICK k \in bad : \A j \in bad : k <= j
    <3>1. bad \in SUBSET Nat
      OBVIOUS
    <3> HIDE DEF bad
    <3> QED
      BY <3>1, LeastNumber
  <2>2. k \in 1 .. n /\ k - 1 \in 0 .. n /\ k - 1 < k /\ k \notin S
    OBVIOUS
  <2>3. k - 1 \in S
    BY <2>1, <2>2
  <2> QED
    BY <2>2, <2>3
<1> QED
  BY <1>1

\* A function that begins with a value and takes each further one from the last.
Recurses(g, n, X, base, step) ==
  g \in [0 .. n -> X] /\ g[0] = base /\ \A i \in 1 .. n : g[i] = step[i][g[i - 1]]

LEMMA Recursion ==
  ASSUME NEW n \in Nat, NEW X, NEW base \in X, NEW step \in [1 .. n -> [X -> X]]
  PROVE  \E g : Recurses(g, n, X, base, step)
<1> DEFINE Reaches(k, g) == g[0] = base /\ \A i \in 1 .. k : g[i] = step[i][g[i - 1]]
           S == {k \in 0 .. n : \E g \in [0 .. k -> X] : Reaches(k, g)}
<1>1. 0 \in S
  <2> DEFINE g == [i \in 0 .. 0 |-> base]
  <2>1. g \in [0 .. 0 -> X] /\ g[0] = base /\ 1 .. 0 = {}
    OBVIOUS
  <2> HIDE DEF g
  <2> QED
    BY <2>1
<1>2. ASSUME NEW k \in 1 .. n, k - 1 \in S PROVE k \in S
  <2>1. PICK g \in [0 .. k - 1 -> X] : Reaches(k - 1, g)
    BY <1>2
  <2> DEFINE h == [i \in 0 .. k |-> IF i = k THEN step[k][g[k - 1]] ELSE g[i]]
  <2>2. k \in 0 .. n /\ k # 0 /\ k - 1 \in 0 .. k - 1
    OBVIOUS
  <2>3. h \in [0 .. k -> X]
    <3>1. step[k][g[k - 1]] \in X
      BY <2>2
    <3>2. ASSUME NEW i \in 0 .. k PROVE (IF i = k THEN step[k][g[k - 1]] ELSE g[i]) \in X
      <4>1. i # k => i \in 0 .. k - 1
        OBVIOUS
      <4> QED
        BY <3>1, <4>1
    <3> QED
      BY <3>2
  <2>4. h[k] = step[k][g[k - 1]] /\ \A i \in 0 .. k - 1 : h[i] = g[i]
    <3>1. k \in 0 .. k /\ \A i \in 0 .. k - 1 : i \in 0 .. k /\ i # k
      OBVIOUS
    <3> QED
      BY <3>1
  <2> HIDE DEF h
  <2>5. h[0] = base
    <3>1. 0 \in 0 .. k - 1
      OBVIOUS
    <3> QED
      BY <2>1, <2>4, <3>1
  <2>6. ASSUME NEW i \in 1 .. k PROVE h[i] = step[i][h[i - 1]]
    <3>1. i - 1 \in 0 .. k - 1 /\ (i # k => i \in 1 .. k - 1 /\ i \in 0 .. k - 1)
      OBVIOUS
    <3>2. h[i - 1] = g[i - 1]
      BY <2>4, <3>1
    <3> QED
      BY <2>1, <2>4, <3>1, <3>2
  <2> QED
    BY <2>2, <2>3, <2>5, <2>6
<1> HIDE DEF S
<1>3. 0 .. n \subseteq S
  BY <1>1, <1>2, UpTo
<1>4. n \in S
  BY <1>3
<1> QED
  BY <1>4 DEF S, Recurses
-----------------------------------------------------------------------------
(* Sequences without some of their entries.                                  *)

KeptBy(g, X, list, S) ==
  /\ g \in [0 .. Len(list) -> Seq(X)]
  /\ g[0] = <<>>
  /\ \A i \in 1 .. Len(list) :
       g[i] = IF list[i] \in S THEN Append(g[i - 1], list[i]) ELSE g[i - 1]
  /\ Kept(list, S) = g[Len(list)]

LEMMA KeptIs ==
  ASSUME NEW X, NEW list \in Seq(X), NEW S
  PROVE  \E g : KeptBy(g, X, list, S)
<1> DEFINE n == Len(list)
           step == [i \in 1 .. n |-> [s \in Seq(X) |->
                      IF list[i] \in S THEN Append(s, list[i]) ELSE s]]
           Solves(f) == f = [i \in 0 .. n |->
                          IF i = 0 THEN <<>>
                          ELSE IF list[i] \in S THEN Append(f[i - 1], list[i]) ELSE f[i - 1]]
           f == CHOOSE h : Solves(h)
<1>1. n \in Nat /\ \A i \in 1 .. n : list[i] \in X
  OBVIOUS
<1>2. step \in [1 .. n -> [Seq(X) -> Seq(X)]]
  BY <1>1
<1>3. \A i \in 1 .. n : \A s \in Seq(X) :
        step[i][s] = IF list[i] \in S THEN Append(s, list[i]) ELSE s
  OBVIOUS
<1> HIDE DEF step
<1>4. PICK g \in [0 .. n -> Seq(X)] : g[0] = <<>> /\ \A i \in 1 .. n : g[i] = step[i][g[i - 1]]
  <2>1. <<>> \in Seq(X)
    OBVIOUS
  <2> HIDE DEF n
  <2>2. \E g : Recurses(g, n, Seq(X), <<>>, step)
    BY <1>1, <1>2, <2>1, Recursion
  <2> QED
    BY <2>2 DEF Recurses
<1>5. ASSUME NEW i \in 1 .. n
      PROVE  g[i] = IF list[i] \in S THEN Append(g[i - 1], list[i]) ELSE g[i - 1]
  <2>1. i - 1 \in 0 .. n
    BY <1>1
  <2>2. g[i - 1] \in Seq(X)
    BY <2>1
  <2> QED
    BY <1>3, <1>4, <2>2
<1>6. Solves(g)
  <2>1. ASSUME NEW i \in 0 .. n
        PROVE  g[i] = IF i = 0 THEN <<>>
                      ELSE IF list[i] \in S THEN Append(g[i - 1], list[i]) ELSE g[i - 1]
    <3>1. i # 0 => i \in 1 .. n
      BY <1>1
    <3> QED
      BY <1>4, <1>5, <3>1
  <2>2. g = [i \in 0 .. n |-> g[i]]
    OBVIOUS
  <2> QED
    BY <2>1, <2>2
<1>7. Solves(f)
  <2> HIDE DEF Solves
  <2> QED
    BY <1>6
<1>8. Kept(list, S) = f[n]
  BY DEF Kept
<1> HIDE DEF f
<1>9. f[n] = g[n]
  <2> DEFINE same == {i \in 0 .. n : f[i] = g[i]}
  <2>1. \A i \in 0 .. n :
          f[i] = IF i = 0 THEN <<>>
                 ELSE IF list[i] \in S THEN Append(f[i - 1], list[i]) ELSE f[i - 1]
    BY <1>7
  <2>2. 0 \in same
    BY <1>1, <1>4, <2>1
  <2>3. \A i \in 1 .. n : i - 1 \in same => i \in same
    <3>1. \A i \in 1 .. n : i \in 0 .. n /\ i # 0
      BY <1>1
    <3> QED
      BY <1>5, <2>1, <3>1
  <2>4. n \in same
    <3> HIDE DEF same, n
    <3>1. 0 .. n \subseteq same
      BY <1>1, <2>2, <2>3, UpTo
    <3> QED
      BY <1>1, <3>1
  <2> QED
    BY <2>4
<1> QED
  BY <1>4, <1>5, <1>8, <1>9 DEF KeptBy

LEMMA KeptAppend ==
  ASSUME NEW X, NEW list \in Seq(X), NEW x \in X, NEW S
  PROVE  Kept(Append(list, x), S) = IF x \in S THEN Append(Kept(list, S), x) ELSE Kept(list, S)
<1> DEFINE n == Len(list)
           long == Append(list, x)
<1>1. /\ n \in Nat /\ long \in Seq(X) /\ Len(long) = n + 1
      /\ long[n + 1] = x /\ \A i \in 1 .. n : long[i] = list[i]
  OBVIOUS
<1> HIDE DEF long
<1>2. PICK g \in [0 .. n -> Seq(X)] :
        /\ g[0] = <<>>
        /\ \A i \in 1 .. n : g[i] = IF list[i] \in S THEN Append(g[i - 1], list[i]) ELSE g[i - 1]
        /\ Kept(list, S) = g[n]
  <2>1. \E g : KeptBy(g, X, list, S)
    BY KeptIs
  <2> QED
    BY <2>1 DEF KeptBy
<1>3. PICK h \in [0 .. n + 1 -> Seq(X)] :
        /\ h[0] = <<>>
        /\ \A i \in 1 .. n + 1 : h[i] = IF long[i] \in S THEN Append(h[i - 1], long[i]) ELSE h[i - 1]
        /\ Kept(long, S) = h[n + 1]
  <2>1. \E h : KeptBy(h, X, long, S)
    BY <1>1, KeptIs
  <2> QED
    BY <1>1, <2>1 DEF KeptBy
<1> DEFINE same == {i \in 0 .. n : g[i] = h[i]}
<1> HIDE DEF n
<1>4. 0 \in same
  BY <1>1, <1>2, <1>3
<1>5. ASSUME NEW i \in 1 .. n, i - 1 \in same PROVE i \in same
  <2>1. i \in 1 .. n + 1 /\ i \in 0 .. n
    BY <1>1
  <2> QED
    BY <1>1, <1>2, <1>3, <1>5, <2>1
<1>6. n \in same
  <2> HIDE DEF same
  <2>1. 0 .. n \subseteq same
    BY <1>1, <1>4, <1>5, UpTo
  <2> QED
    BY <1>1, <2>1
<1>7. n + 1 \in 1 .. n + 1 /\ (n + 1) - 1 = n
  BY <1>1
<1>8. h[n + 1] = IF x \in S THEN Append(h[n], x) ELSE h[n]
  BY <1>1, <1>3, <1>7
<1> QED
  BY <1>2, <1>3, <1>6, <1>8 DEF long

LEMMA ToSetAppend ==
  ASSUME NEW X, NEW s \in Seq(X), NEW x
  PROVE  ToSet(Append(s, x)) = ToSet(s) \cup {x}
<1> DEFINE t == Append(s, x)
<1>1. /\ Len(s) \in Nat /\ DOMAIN s = 1 .. Len(s) /\ DOMAIN t = 1 .. Len(s) + 1
      /\ t[Len(s) + 1] = x /\ \A i \in 1 .. Len(s) : t[i] = s[i]
  OBVIOUS
<1> HIDE DEF t
<1>2. \A i : i \in DOMAIN t <=> i \in DOMAIN s \/ i = Len(s) + 1
  BY <1>1
<1>3. \A i \in DOMAIN s : t[i] = s[i]
  BY <1>1
<1>4. ToSet(t) = ToSet(s) \cup {x}
  BY <1>1, <1>2, <1>3 DEF ToSet
<1> QED
  BY <1>4 DEF t

\* What is kept, and keeping twice.
LEMMA KeptFacts ==
  ASSUME NEW X, NEW list \in Seq(X), NEW S
  PROVE  /\ Kept(list, S) \in Seq(X)
         /\ ToSet(Kept(list, S)) = ToSet(list) \cap S
         /\ ToSet(list) \subseteq S => Kept(list, S) = list
         /\ \A T : Kept(Kept(list, S), T) = Kept(list, S \cap T)
<1> DEFINE n == Len(list)
<1>1. n \in Nat /\ \A i \in 1 .. n : list[i] \in X
  OBVIOUS
<1>2. PICK g \in [0 .. n -> Seq(X)] :
        /\ g[0] = <<>>
        /\ \A i \in 1 .. n : g[i] = IF list[i] \in S THEN Append(g[i - 1], list[i]) ELSE g[i - 1]
        /\ Kept(list, S) = g[n]
  <2>1. \E g : KeptBy(g, X, list, S)
    BY KeptIs
  <2> QED
    BY <2>1 DEF KeptBy
<1>3. Kept(list, S) \in Seq(X)
  BY <1>1, <1>2
<1>4. ToSet(list) = {list[j] : j \in 1 .. n}
  BY DEF ToSet
<1> HIDE DEF n
<1>5. ToSet(Kept(list, S)) = ToSet(list) \cap S
  <2> DEFINE Seen(i) == {list[j] : j \in 1 .. i}
             good == {i \in 0 .. n : ToSet(g[i]) = Seen(i) \cap S}
  <2>1. 0 \in good
    BY <1>1, <1>2 DEF ToSet
  <2>2. ASSUME NEW i \in 1 .. n, i - 1 \in good PROVE i \in good
    <3>1. i \in 0 .. n /\ g[i - 1] \in Seq(X) /\ list[i] \in X
      BY <1>1
    <3>2. Seen(i) = Seen(i - 1) \cup {list[i]}
      <4>1. \A j : j \in 1 .. i <=> j \in 1 .. i - 1 \/ j = i
        BY <1>1
      <4> QED
        BY <4>1
    <3>3. ToSet(g[i - 1]) = Seen(i - 1) \cap S
      BY <2>2
    <3>4. ToSet(Append(g[i - 1], list[i])) = ToSet(g[i - 1]) \cup {list[i]}
      BY <3>1, ToSetAppend
    <3> HIDE DEF Seen
    <3>5. ToSet(g[i]) = Seen(i) \cap S
      <4>1. g[i] = IF list[i] \in S THEN Append(g[i - 1], list[i]) ELSE g[i - 1]
        BY <1>2
      <4>2. CASE list[i] \in S
        BY <3>2, <3>3, <3>4, <4>1, <4>2
      <4>3. CASE list[i] \notin S
        BY <3>2, <3>3, <4>1, <4>3
      <4> QED
        BY <4>2, <4>3
    <3> QED
      BY <3>1, <3>5
  <2>3. n \in good
    <3> HIDE DEF good
    <3>1. 0 .. n \subseteq good
      BY <1>1, <2>1, <2>2, UpTo
    <3> QED
      BY <1>1, <3>1
  <2> QED
    BY <1>2, <1>4, <2>3
<1>6. ASSUME ToSet(list) \subseteq S PROVE Kept(list, S) = list
  <2> DEFINE good == {i \in 0 .. n : g[i] = SubSeq(list, 1, i)}
  <2>1. 0 \in good
    BY <1>1, <1>2
  <2>2. ASSUME NEW i \in 1 .. n, i - 1 \in good PROVE i \in good
    <3>1. i \in 0 .. n /\ list[i] \in S
      BY <1>1, <1>4, <1>6
    <3>2. Append(SubSeq(list, 1, i - 1), list[i]) = SubSeq(list, 1, i)
      BY <1>1 DEF n
    <3> QED
      BY <1>2, <2>2, <3>1, <3>2
  <2>3. n \in good
    <3> HIDE DEF good
    <3>1. 0 .. n \subseteq good
      BY <1>1, <2>1, <2>2, UpTo
    <3> QED
      BY <1>1, <3>1
  <2>4. SubSeq(list, 1, n) = list
    BY DEF n
  <2> QED
    BY <1>2, <2>3, <2>4
<1>7. ASSUME NEW T PROVE Kept(Kept(list, S), T) = Kept(list, S \cap T)
  <2>1. PICK h \in [0 .. n -> Seq(X)] :
          /\ h[0] = <<>>
          /\ \A i \in 1 .. n :
               h[i] = IF list[i] \in S \cap T THEN Append(h[i - 1], list[i]) ELSE h[i - 1]
          /\ Kept(list, S \cap T) = h[n]
    <3>1. \E h : KeptBy(h, X, list, S \cap T)
      BY KeptIs
    <3> QED
      BY <3>1 DEF KeptBy, n
  <2> DEFINE good == {i \in 0 .. n : Kept(g[i], T) = h[i]}
  <2>2. 0 \in good
    <3> DEFINE e == <<>>
    <3>1. e \in Seq(X) /\ Len(e) = 0
      OBVIOUS
    <3> HIDE DEF e
    <3>2. \E f : KeptBy(f, X, e, T)
      BY <3>1, KeptIs
    <3>3. Kept(e, T) = <<>>
      BY <3>1, <3>2 DEF KeptBy
    <3> QED
      BY <1>1, <1>2, <2>1, <3>3 DEF e
  <2>3. ASSUME NEW i \in 1 .. n, i - 1 \in good PROVE i \in good
    <3>1. i \in 0 .. n /\ i - 1 \in 0 .. n /\ list[i] \in X
      BY <1>1
    <3> DEFINE s == g[i - 1]
               x == list[i]
    <3>2. s \in Seq(X) /\ x \in X /\ Kept(s, T) = h[i - 1]
      BY <2>3, <3>1
    <3>3. /\ g[i] = IF x \in S THEN Append(s, x) ELSE s
          /\ h[i] = IF x \in S \cap T THEN Append(h[i - 1], x) ELSE h[i - 1]
      BY <1>2, <2>1
    <3> HIDE DEF s, x
    <3>4. Kept(Append(s, x), T) = IF x \in T THEN Append(Kept(s, T), x) ELSE Kept(s, T)
      BY <3>2, KeptAppend
    <3>5. Kept(g[i], T) = h[i]
      <4>1. CASE x \in S
        BY <3>2, <3>3, <3>4, <4>1
      <4>2. CASE x \notin S
        BY <3>2, <3>3, <4>2
      <4> QED
        BY <4>1, <4>2
    <3> QED
      BY <3>1, <3>5
  <2>4. n \in good
    <3> HIDE DEF good
    <3>1. 0 .. n \subseteq good
      BY <1>1, <2>2, <2>3, UpTo
    <3> QED
      BY <1>1, <3>1
  <2> QED
    BY <1>2, <2>1, <2>4
<1> QED
  BY <1>3, <1>5, <1>6, <1>7
-----------------------------------------------------------------------------
(* AppxRemoval.  Every part of the invariant is about the calls made, and a   *)
(* step adds one: what it does to the first call that names a family comes    *)
(* before what it does to the list, the keys and the folders.                 *)

Removal == [family : Families, endOfLife : BOOLEAN, given : SUBSET Parts]

First(calls_made, n) == SelectInSeq(calls_made, LAMBDA r : Belongs(n, r.family))

LEMMA FirstIs ==
  ASSUME NEW rs \in Seq(Removal), NEW n
  PROVE  /\ First(rs, n) \in 0 .. Len(rs)
         /\ First(rs, n) = 0 => \A k \in 1 .. Len(rs) : ~Belongs(n, rs[k].family)
         /\ First(rs, n) # 0 => /\ Belongs(n, rs[First(rs, n)].family)
                                /\ \A k \in 1 .. Len(rs) :
                                     Belongs(n, rs[k].family) => First(rs, n) <= k
<1> DEFINE I == {k \in 1 .. Len(rs) : Belongs(n, rs[k].family)}
           first == First(rs, n)
<1>1. first = IF I # {} THEN Min(I) ELSE 0
  BY DEF First, SelectInSeq
<1>2. I # {} => Min(I) \in I /\ \A k \in I : Min(I) <= k
  <2>1. I \in SUBSET Nat
    OBVIOUS
  <2> HIDE DEF I
  <2>2. I # {} => \E x \in I : \A y \in I : x <= y
    BY <2>1, LeastNumber
  <2> QED
    BY <2>2 DEF Min
<1> HIDE DEF first
<1>3. Len(rs) \in Nat
  OBVIOUS
<1>4. first \in 0 .. Len(rs) /\ (first = 0 => I = {}) /\ (first # 0 => first \in I /\ \A k \in I : first <= k)
  BY <1>1, <1>2, <1>3
<1> QED
  BY <1>3, <1>4 DEF first

LEMMA FirstAppend ==
  ASSUME NEW rs \in Seq(Removal), NEW c \in Removal, NEW n
  PROVE  First(Append(rs, c), n) = IF First(rs, n) # 0 THEN First(rs, n)
                                   ELSE IF Belongs(n, c.family) THEN Len(rs) + 1 ELSE 0
<1> DEFINE long == Append(rs, c)
           a == First(rs, n)
           b == First(long, n)
<1>1. /\ long \in Seq(Removal) /\ Len(rs) \in Nat /\ Len(long) = Len(rs) + 1
      /\ long[Len(rs) + 1] = c /\ \A k \in 1 .. Len(rs) : long[k] = rs[k]
  OBVIOUS
<1> HIDE DEF long
<1>2. /\ a \in 0 .. Len(rs)
      /\ a = 0 => \A k \in 1 .. Len(rs) : ~Belongs(n, rs[k].family)
      /\ a # 0 => /\ Belongs(n, rs[a].family)
                  /\ \A k \in 1 .. Len(rs) : Belongs(n, rs[k].family) => a <= k
  BY FirstIs
<1>3. /\ b \in 0 .. Len(long)
      /\ b = 0 => \A k \in 1 .. Len(long) : ~Belongs(n, long[k].family)
      /\ b # 0 => /\ Belongs(n, long[b].family)
                  /\ \A k \in 1 .. Len(long) : Belongs(n, long[k].family) => b <= k
  BY <1>1, FirstIs
<1> HIDE DEF a, b
<1>4. b = IF a # 0 THEN a ELSE IF Belongs(n, c.family) THEN Len(rs) + 1 ELSE 0
  <2>1. CASE a # 0
    <3>1. a \in 1 .. Len(rs) /\ a \in 1 .. Len(long) /\ long[a] = rs[a]
      BY <1>1, <1>2, <2>1
    <3>2. b # 0 /\ b <= a
      BY <1>2, <1>3, <2>1, <3>1
    <3>3. b \in 1 .. Len(rs) /\ long[b] = rs[b]
      BY <1>1, <1>2, <1>3, <3>1, <3>2
    <3>4. a <= b
      BY <1>2, <1>3, <2>1, <3>2, <3>3
    <3> QED
      BY <1>1, <1>2, <1>3, <2>1, <3>2, <3>4
  <2>2. CASE a = 0
    <3>1. \A k \in 1 .. Len(rs) : ~Belongs(n, long[k].family)
      BY <1>1, <1>2, <2>2
    <3>2. Len(rs) + 1 \in 1 .. Len(long)
      BY <1>1
    <3>3. b = 0 \/ b = Len(rs) + 1
      BY <1>1, <1>3, <3>1
    <3>4. CASE Belongs(n, c.family)
      BY <1>1, <1>3, <2>2, <3>2, <3>3, <3>4
    <3>5. CASE ~Belongs(n, c.family)
      BY <1>1, <1>3, <2>2, <3>3, <3>5
    <3> QED
      BY <3>4, <3>5
  <2> QED
    BY <2>1, <2>2
<1> QED
  BY <1>4 DEF a, b, long

Off(listed, rs) == {n \in ToSet(listed) : First(rs, n) = 0}
Lost(names, listed, rs, part) ==
  {m \in names : \E n \in ToSet(listed) :
     Folded(n) = m /\ First(rs, n) # 0 /\ part \in rs[First(rs, n)].given}
Found(listed, rs, family) == {n \in Off(listed, rs) : Belongs(n, family)}
MarkedBy(rs) ==
  {FoldFamily[rs[i].family] :
     i \in {j \in {k \in DOMAIN rs : rs[k].family # ""} : "deprovisioned" \in rs[j].given}}
BlockedBy(rs) ==
  {rs[i].family : i \in {j \in {k \in DOMAIN rs : rs[k].family # ""} : rs[j].endOfLife}}

\* What one more call adds to each.
LEMMA CallAdds ==
  ASSUME NEW rs \in Seq(Removal), NEW c \in Removal, NEW listed
  PROVE  /\ Off(listed, Append(rs, c)) = Off(listed, rs) \ Found(listed, rs, c.family)
         /\ \A names, part :
              Lost(names, listed, Append(rs, c), part) =
                Lost(names, listed, rs, part) \cup
                (IF part \in c.given
                 THEN names \cap {Folded(n) : n \in Found(listed, rs, c.family)} ELSE {})
         /\ MarkedBy(Append(rs, c)) =
              MarkedBy(rs) \cup (IF c.family # "" /\ "deprovisioned" \in c.given
                                 THEN {FoldFamily[c.family]} ELSE {})
         /\ BlockedBy(Append(rs, c)) =
              BlockedBy(rs) \cup (IF c.family # "" /\ c.endOfLife THEN {c.family} ELSE {})
<1> DEFINE long == Append(rs, c)
           z == Len(rs) + 1
<1>1. /\ DOMAIN rs = 1 .. Len(rs) /\ Len(rs) \in Nat /\ DOMAIN long = 1 .. z
      /\ long[z] = c /\ \A k \in 1 .. Len(rs) : long[k] = rs[k]
  OBVIOUS
<1>2. \A n : First(long, n) = IF First(rs, n) # 0 THEN First(rs, n)
                              ELSE IF Belongs(n, c.family) THEN z ELSE 0
  BY FirstAppend
<1>3. \A n : First(rs, n) \in 0 .. Len(rs)
  BY FirstIs
<1>4. \A i : i \in DOMAIN long <=> i \in DOMAIN rs \/ i = z
  BY <1>1
<1>5. z # 0 /\ z \notin DOMAIN rs
  BY <1>1
<1>6. \A i \in DOMAIN rs : long[i] = rs[i]
  BY <1>1
<1>7. long[z] = c
  BY <1>1
<1>8. c.endOfLife \in BOOLEAN
  BY DEF Removal
<1> HIDE DEF long, z
<1>9. Off(listed, long) = Off(listed, rs) \ Found(listed, rs, c.family)
  BY <1>2, <1>5 DEF Off, Found
<1>10. ASSUME NEW names, NEW part
       PROVE  Lost(names, listed, long, part) =
                Lost(names, listed, rs, part) \cup
                (IF part \in c.given
                 THEN names \cap {Folded(n) : n \in Found(listed, rs, c.family)} ELSE {})
  <2> DEFINE Hits(n, m) == Folded(n) = m /\ First(rs, n) # 0 /\ part \in rs[First(rs, n)].given
             Longer(n, m) == Folded(n) = m /\ First(long, n) # 0 /\ part \in long[First(long, n)].given
  <2>1. ASSUME NEW n \in ToSet(listed), NEW m
        PROVE  Longer(n, m) <=> Hits(n, m) \/ (part \in c.given /\ Folded(n) = m
                                               /\ n \in Found(listed, rs, c.family))
    <3>1. CASE First(rs, n) # 0
      <4>1. First(long, n) = First(rs, n) /\ First(rs, n) \in DOMAIN rs
        BY <1>1, <1>2, <1>3, <3>1
      <4>2. long[First(long, n)] = rs[First(rs, n)]
        BY <1>6, <4>1
      <4> QED
        BY <3>1, <4>1, <4>2 DEF Found, Off
    <3>2. CASE First(rs, n) = 0 /\ Belongs(n, c.family)
      <4>1. First(long, n) = z /\ n \in Found(listed, rs, c.family)
        BY <1>2, <3>2 DEF Found, Off
      <4> QED
        BY <1>5, <1>7, <3>2, <4>1
    <3>3. CASE First(rs, n) = 0 /\ ~Belongs(n, c.family)
      BY <1>2, <3>3 DEF Found, Off
    <3> QED
      BY <3>1, <3>2, <3>3
  <2>2. \A m : m \in Lost(names, listed, long, part) <=>
               m \in names /\ \E n \in ToSet(listed) : Longer(n, m)
    BY DEF Lost
  <2>3. \A m : m \in Lost(names, listed, rs, part) <=>
               m \in names /\ \E n \in ToSet(listed) : Hits(n, m)
    BY DEF Lost
  <2>4. Found(listed, rs, c.family) \subseteq ToSet(listed)
    BY DEF Found, Off
  <2> HIDE DEF Hits, Longer
  <2> QED
    BY <2>1, <2>2, <2>3, <2>4
<1>11. MarkedBy(long) = MarkedBy(rs) \cup (IF c.family # "" /\ "deprovisioned" \in c.given
                                          THEN {FoldFamily[c.family]} ELSE {})
  BY <1>4, <1>6, <1>7 DEF MarkedBy
<1>12. BlockedBy(long) = BlockedBy(rs) \cup (IF c.family # "" /\ c.endOfLife THEN {c.family} ELSE {})
  BY <1>4, <1>6, <1>7, <1>8 DEF BlockedBy
<1> QED
  BY <1>9, <1>10, <1>11, <1>12 DEF long

AppxType ==
  /\ factory \in Factory
  /\ removals \in Seq(Removal)
  /\ EndOfLife \in Seq(ToSet(factory.endOfLife) \cup Families)

AppxInv ==
  /\ AppxType
  /\ Provisioned = Kept(factory.listed, Off(factory.listed, removals))
  /\ applications = factory.applications
       \ Lost(factory.applications, factory.listed, removals, "applications")
  /\ folders = factory.folders \ Lost(factory.folders, factory.listed, removals, "root")
  /\ deprovisioned = MarkedBy(removals)
  /\ IsPrefix(factory.endOfLife, EndOfLife)
  /\ IsInjective(factory.endOfLife) => IsInjective(EndOfLife)
  /\ ToSet(EndOfLife) = ToSet(factory.endOfLife) \cup BlockedBy(removals)

LEMMA AppxInvSays == AppxInv => FirstRemovalDecides
<1> SUFFICES ASSUME AppxInv PROVE FirstRemovalDecides
  OBVIOUS
<1>1. \A n : FirstRemoval(n) = First(removals, n)
  BY DEF FirstRemoval, First
<1>2. Provisioned = Kept(factory.listed, {n \in ToSet(factory.listed) : FirstRemoval(n) = 0})
  <2>1. Off(factory.listed, removals) = {n \in ToSet(factory.listed) : FirstRemoval(n) = 0}
    BY <1>1 DEF Off
  <2> QED
    BY <2>1 DEF AppxInv
<1>3. \A names, part : Reached(names, part) = Lost(names, factory.listed, removals, part)
  BY <1>1 DEF Reached, Lost
<1>4. /\ applications = factory.applications \ Reached(factory.applications, "applications")
      /\ folders = factory.folders \ Reached(factory.folders, "root")
  BY <1>3 DEF AppxInv
<1>5. /\ deprovisioned = MarkedBy(removals)
      /\ IsPrefix(factory.endOfLife, EndOfLife)
      /\ IsInjective(factory.endOfLife) => IsInjective(EndOfLife)
      /\ ToSet(EndOfLife) = ToSet(factory.endOfLife) \cup BlockedBy(removals)
  BY DEF AppxInv
<1> QED
  BY <1>2, <1>4, <1>5, Zenon DEF FirstRemovalDecides, MarkedBy, BlockedBy

LEMMA AppxBegins == AppxInit => AppxInv
<1> SUFFICES ASSUME AppxInit PROVE AppxInv
  OBVIOUS
<1> DEFINE l == factory.listed
           e == factory.endOfLife
<1>1. /\ factory \in Factory /\ Provisioned = l /\ EndOfLife = e /\ removals = <<>>
      /\ applications = factory.applications /\ folders = factory.folders /\ deprovisioned = {}
  BY DEF AppxInit
<1>2. l \in Seq(ToSet(l)) /\ e \in Seq(ToSet(e))
  BY <1>1, AppxAssumption DEF AppxAssumption
<1> HIDE DEF l, e
<1>3. removals \in Seq(Removal) /\ Len(removals) = 0 /\ DOMAIN removals = {}
  BY <1>1
<1>4. ASSUME NEW n PROVE First(removals, n) = 0
  <2>1. First(removals, n) \in 0 .. Len(removals)
    BY <1>3, FirstIs
  <2> QED
    BY <1>3, <2>1
<1>5. e \in Seq(ToSet(e) \cup Families)
  BY <1>2
<1>6. Off(l, removals) = ToSet(l)
  BY <1>4 DEF Off
<1>7. Kept(l, ToSet(l)) = l
  BY <1>2, KeptFacts
<1>8. \A names, part : Lost(names, l, removals, part) = {}
  BY <1>4 DEF Lost
<1>9. MarkedBy(removals) = {} /\ BlockedBy(removals) = {}
  BY <1>3 DEF MarkedBy, BlockedBy
<1>10. IsPrefix(e, e)
  BY <1>2 DEF IsPrefix
<1> QED
  BY <1>1, <1>3, <1>5, <1>6, <1>7, <1>8, <1>9, <1>10 DEF AppxInv, AppxType, l, e

LEMMA AppxStep == AppxInv /\ AppxNext => AppxInv'
<1> SUFFICES ASSUME AppxInv,
                    NEW family \in Families, NEW addEndOfLife \in BOOLEAN, NEW given \in SUBSET Parts,
                    RemoveFamily(family, addEndOfLife, given)
             PROVE  AppxInv'
  BY DEF AppxNext
<1> DEFINE l == factory.listed
           e == factory.endOfLife
           c == [family |-> family, endOfLife |-> addEndOfLife, given |-> given]
           found == Found(l, removals, family)
           removed == {Folded(n) : n \in found}
<1>1. /\ factory' = factory /\ removals' = Append(removals, c)
      /\ factory \in Factory /\ removals \in Seq(Removal)
  BY DEF RemoveFamily, AppxInv, AppxType
<1>2. c \in Removal /\ c.family = family /\ c.given = given /\ c.endOfLife = addEndOfLife
  BY DEF Removal
<1>3. /\ l \in Seq(ToSet(l)) /\ e \in Seq(ToSet(e))
      /\ \A n \in ToSet(l) : n.wellFormed \in BOOLEAN /\ n.family # ""
  BY <1>1, AppxAssumption DEF AppxAssumption
<1>4. removals' \in Seq(Removal) /\ l' = l /\ e' = e
  BY <1>1, <1>2
<1>5. /\ Provisioned = Kept(l, Off(l, removals))
      /\ applications = factory.applications \ Lost(factory.applications, l, removals, "applications")
      /\ folders = factory.folders \ Lost(factory.folders, l, removals, "root")
      /\ deprovisioned = MarkedBy(removals)
      /\ EndOfLife \in Seq(ToSet(e) \cup Families)
      /\ IsPrefix(e, EndOfLife)
      /\ IsInjective(e) => IsInjective(EndOfLife)
      /\ ToSet(EndOfLife) = ToSet(e) \cup BlockedBy(removals)
  BY DEF AppxInv, AppxType
<1>6. /\ family = "" => UNCHANGED <<Provisioned, EndOfLife, applications, deprovisioned, folders>>
      /\ family # "" =>
           LET seen == {n \in ToSet(Provisioned) : Belongs(n, family)}
               gone == {Folded(n) : n \in seen}
           IN  /\ Provisioned' = Kept(Provisioned, ToSet(Provisioned) \ seen)
               /\ EndOfLife' = IF addEndOfLife /\ ~Contains(EndOfLife, family)
                               THEN Append(EndOfLife, family) ELSE EndOfLife
               /\ applications' = IF "applications" \in given THEN applications \ gone ELSE applications
               /\ deprovisioned' = IF "deprovisioned" \in given
                                   THEN deprovisioned \cup {FoldFamily[family]} ELSE deprovisioned
               /\ folders' = IF "root" \in given THEN folders \ gone ELSE folders
  BY DEF RemoveFamily, Mark
<1> HIDE DEF l, e, c
<1>7. /\ Off(l, removals') = Off(l, removals) \ found
      /\ \A names, part :
           Lost(names, l, removals', part) =
             Lost(names, l, removals, part) \cup (IF part \in given THEN names \cap removed ELSE {})
      /\ MarkedBy(removals') = MarkedBy(removals) \cup
           (IF family # "" /\ "deprovisioned" \in given THEN {FoldFamily[family]} ELSE {})
      /\ BlockedBy(removals') = BlockedBy(removals) \cup
           (IF family # "" /\ addEndOfLife THEN {family} ELSE {})
  <2> DEFINE long == Append(removals, c)
  <2>1. /\ Off(l, long) = Off(l, removals) \ Found(l, removals, c.family)
        /\ \A names, part :
             Lost(names, l, long, part) =
               Lost(names, l, removals, part) \cup
               (IF part \in c.given
                THEN names \cap {Folded(n) : n \in Found(l, removals, c.family)} ELSE {})
        /\ MarkedBy(long) = MarkedBy(removals) \cup
             (IF c.family # "" /\ "deprovisioned" \in c.given THEN {FoldFamily[c.family]} ELSE {})
        /\ BlockedBy(long) = BlockedBy(removals) \cup
             (IF c.family # "" /\ c.endOfLife THEN {c.family} ELSE {})
    <3>1. removals \in Seq(Removal) /\ c \in Removal
      BY <1>1, <1>2
    <3> QED
      BY <3>1, CallAdds, Zenon
  <2>2. removals' = long /\ c.family = family /\ c.given = given /\ c.endOfLife = addEndOfLife
    BY <1>1, <1>2
  <2> HIDE DEF long
  <2> QED
    BY <2>1, <2>2, Zenon
<1>8. ToSet(Provisioned) = Off(l, removals)
  <2> DEFINE off == Off(l, removals)
  <2>1. ToSet(Kept(l, off)) = ToSet(l) \cap off
    <3> DEFINE X == ToSet(l)
    <3>1. l \in Seq(X)
      BY <1>3
    <3> HIDE DEF off, X, l
    <3>2. ToSet(Kept(l, off)) = ToSet(l) \cap off
      BY <3>1, KeptFacts
    <3> QED
      BY <3>2
  <2>2. Off(l, removals) \subseteq ToSet(l)
    BY DEF Off
  <2> QED
    BY <1>5, <2>1, <2>2
<1>9. found = {n \in ToSet(Provisioned) : Belongs(n, family)}
  BY <1>8 DEF Found
<1>10. family = "" => found = {}
  BY <1>3 DEF Found, Off, Belongs
<1> HIDE DEF found
<1>11. Provisioned' = Kept(l, Off(l, removals'))
  <2>1. CASE family = ""
    BY <1>5, <1>6, <1>7, <1>10, <2>1
  <2>2. CASE family # ""
    <3>1. Provisioned' = Kept(Kept(l, Off(l, removals)), Off(l, removals) \ found)
      BY <1>5, <1>6, <1>8, <1>9, <2>2
    <3>2. \A T : Kept(Kept(l, Off(l, removals)), T) = Kept(l, Off(l, removals) \cap T)
      <4> DEFINE X == ToSet(l)
                 S == Off(l, removals)
      <4>1. l \in Seq(X)
        BY <1>3
      <4> HIDE DEF X, S
      <4>2. \A T : Kept(Kept(l, S), T) = Kept(l, S \cap T)
        BY <4>1, KeptFacts
      <4> QED
        BY <4>2 DEF S
    <3>3. Off(l, removals) \cap (Off(l, removals) \ found) = Off(l, removals')
      BY <1>7
    <3> QED
      BY <3>1, <3>2, <3>3
  <2> QED
    BY <2>1, <2>2
<1>12. family = "" => removed = {}
  BY <1>10
<1>13. family # "" =>
         /\ applications' = IF "applications" \in given THEN applications \ removed ELSE applications
         /\ folders' = IF "root" \in given THEN folders \ removed ELSE folders
  BY <1>6, <1>9
<1> HIDE DEF removed
<1>14. applications' = factory.applications \ Lost(factory.applications, l, removals', "applications")
  <2>1. Lost(factory.applications, l, removals', "applications") =
          Lost(factory.applications, l, removals, "applications") \cup
          (IF "applications" \in given THEN factory.applications \cap removed ELSE {})
    BY <1>7
  <2>2. applications' = IF "applications" \in given THEN applications \ removed ELSE applications
    BY <1>6, <1>12, <1>13
  <2>3. applications = factory.applications \ Lost(factory.applications, l, removals, "applications")
    BY <1>5
  <2> QED
    BY <2>1, <2>2, <2>3
<1>15. folders' = factory.folders \ Lost(factory.folders, l, removals', "root")
  <2>1. Lost(factory.folders, l, removals', "root") =
          Lost(factory.folders, l, removals, "root") \cup
          (IF "root" \in given THEN factory.folders \cap removed ELSE {})
    BY <1>7
  <2>2. folders' = IF "root" \in given THEN folders \ removed ELSE folders
    BY <1>6, <1>12, <1>13
  <2>3. folders = factory.folders \ Lost(factory.folders, l, removals, "root")
    BY <1>5
  <2> QED
    BY <2>1, <2>2, <2>3
<1>16. deprovisioned' = MarkedBy(removals')
  BY <1>5, <1>6, <1>7
<1>17. EndOfLife' = IF family # "" /\ addEndOfLife /\ ~Contains(EndOfLife, family)
                    THEN Append(EndOfLife, family) ELSE EndOfLife
  BY <1>6
<1>18. Contains(EndOfLife, family) <=> family \in ToSet(EndOfLife)
  <2>1. DOMAIN EndOfLife = 1 .. Len(EndOfLife)
    BY <1>5
  <2> QED
    BY <2>1 DEF Contains, ToSet
<1>19. /\ EndOfLife' \in Seq(ToSet(e) \cup Families)
       /\ IsPrefix(e, EndOfLife')
       /\ IsInjective(e) => IsInjective(EndOfLife')
       /\ ToSet(EndOfLife') = ToSet(e) \cup BlockedBy(removals')
  <2>1. CASE family # "" /\ addEndOfLife /\ ~Contains(EndOfLife, family)
    <3> DEFINE t == EndOfLife
               u == Append(t, family)
    <3>1. EndOfLife' = u
      BY <1>17, <2>1
    <3>2. /\ t \in Seq(ToSet(e) \cup Families) /\ IsPrefix(e, t) /\ (IsInjective(e) => IsInjective(t))
          /\ family \notin ToSet(t)
      BY <1>5, <1>18, <2>1
    <3> HIDE DEF t
    <3>3. u \in Seq(ToSet(e) \cup Families)
      BY <3>2
    <3>4. IsPrefix(e, u)
      <4>0. Len(e) <= Len(t) /\ SubSeq(e, 1, Len(e)) = SubSeq(t, 1, Len(e))
        BY <3>2 DEF IsPrefix
      <4>1. Len(e) \in Nat /\ Len(t) \in Nat /\ Len(u) = Len(t) + 1 /\ Len(e) <= Len(t)
        <5>1. Len(e) \in Nat
          <6> DEFINE E == ToSet(e)
          <6>1. e \in Seq(E)
            BY <1>3
          <6> HIDE DEF E
          <6> QED
            BY <6>1
        <5>2. Len(t) \in Nat /\ Len(u) = Len(t) + 1
          BY <3>2
        <5> QED
          BY <4>0, <5>1, <5>2
      <4>2. SubSeq(u, 1, Len(e)) = SubSeq(t, 1, Len(e))
        BY <3>2, <3>3, <4>1
      <4> QED
        BY <4>0, <4>1, <4>2 DEF IsPrefix
    <3>5. IsInjective(t) => IsInjective(u)
      <4>1. /\ Len(t) \in Nat /\ DOMAIN t = 1 .. Len(t) /\ DOMAIN u = 1 .. Len(t) + 1
            /\ u[Len(t) + 1] = family /\ \A i \in 1 .. Len(t) : u[i] = t[i]
        BY <3>2
      <4>2. \A i \in 1 .. Len(t) : t[i] # family
        BY <3>2, <4>1 DEF ToSet
      <4> HIDE DEF u
      <4> QED
        BY <4>1, <4>2 DEF IsInjective
    <3>6. ToSet(u) = ToSet(t) \cup {family}
      BY <3>2, ToSetAppend
    <3>7. ToSet(u) = ToSet(e) \cup BlockedBy(removals')
      BY <1>5, <1>7, <2>1, <3>6 DEF t
    <3> HIDE DEF u
    <3> QED
      BY <3>1, <3>2, <3>3, <3>4, <3>5, <3>7
  <2>2. CASE ~(family # "" /\ addEndOfLife /\ ~Contains(EndOfLife, family))
    <3>1. EndOfLife' = EndOfLife
      BY <1>17, <2>2
    <3>2. ToSet(EndOfLife) = ToSet(e) \cup BlockedBy(removals')
      BY <1>5, <1>7, <1>18, <2>2
    <3> QED
      BY <1>5, <3>1, <3>2
  <2> QED
    BY <2>1, <2>2
<1> QED
  BY <1>1, <1>4, <1>11, <1>14, <1>15, <1>16, <1>19 DEF AppxInv, AppxType, l, e

\* What is left of a provisioned package is decided by the first call that names its
\* family, for images with any list and any number of calls (src/appx/remove.go:86).
THEOREM FirstRemovalHolds == RegistrySpec => []FirstRemovalDecides
<1>1. RegistryInit => AppxInv
  BY AppxBegins DEF RegistryInit
<1>2. AppxInv /\ [RegistryNext]_registryVars => AppxInv'
  <2> SUFFICES ASSUME AppxInv, [RegistryNext]_registryVars PROVE AppxInv'
    OBVIOUS
  <2>1. CASE AppxNext
    BY <2>1, AppxStep
  <2>2. CASE UNCHANGED appxVars
    BY <2>2 DEF AppxInv, AppxType, appxVars
  <2> QED
    BY <2>1, <2>2 DEF RegistryNext, registryVars
<1> QED
  BY <1>1, <1>2, AppxInvSays, PTL DEF RegistrySpec
-----------------------------------------------------------------------------
(* ServiceRegistry: keys by their names up to case.  With no two keys of one  *)
(* name, what Find finds is the key of that name, and everything read or      *)
(* written is a matter of the values that each name has.                      *)

AreKeys(keys) ==
  keys \in Seq(ToSet(keys)) /\ KeysSound(keys) /\ \A i \in 1 .. Len(keys) : IsKey(keys[i])

NoValues == [n \in {} |-> {}]

\* The values that the key of a folded name has.
Vals(keys, f) == IF f \in KeyNames(keys) THEN KeyOf(keys, f).values ELSE NoValues

LEMMA InSeqOfItself ==
  ASSUME NEW X, NEW s \in Seq(X)
  PROVE  s \in Seq(ToSet(s))
<1>1. Len(s) \in Nat /\ s = [i \in 1 .. Len(s) |-> s[i]] /\ DOMAIN s = 1 .. Len(s)
  OBVIOUS
<1>2. \A i \in 1 .. Len(s) : s[i] \in ToSet(s)
  BY <1>1 DEF ToSet
<1> HIDE DEF ToSet
<1>3. s \in [1 .. Len(s) -> ToSet(s)]
  BY <1>1, <1>2
<1> QED
  BY <1>1, <1>3

LEMMA FindIs ==
  ASSUME NEW keys, AreKeys(keys), NEW name
  PROVE  /\ Len(keys) \in Nat /\ DOMAIN keys = 1 .. Len(keys)
         /\ Find(keys, name) \in 0 .. Len(keys)
         /\ Find(keys, name) = 0 <=> Fold[name] \notin KeyNames(keys)
         /\ \A i \in 1 .. Len(keys) : Fold[keys[i].name] = Fold[name] => Find(keys, name) = i
         /\ Find(keys, name) # 0 => /\ Fold[keys[Find(keys, name)].name] = Fold[name]
                                    /\ KeyOf(keys, Fold[name]) = keys[Find(keys, name)]
<1> DEFINE found == {i \in 1 .. Len(keys) : Fold[keys[i].name] = Fold[name]}
           at == Find(keys, name)
<1>1. Len(keys) \in Nat /\ DOMAIN keys = 1 .. Len(keys)
  <2> DEFINE K == ToSet(keys)
  <2>1. keys \in Seq(K)
    BY DEF AreKeys
  <2> HIDE DEF K
  <2> QED
    BY <2>1
<1>2. \A i, j \in 1 .. Len(keys) : Fold[keys[i].name] = Fold[keys[j].name] => i = j
  BY <1>1 DEF AreKeys, KeysSound
<1>3. at = IF found = {} THEN 0 ELSE CHOOSE i \in found : \A j \in found : i <= j
  BY DEF Find
<1>4. found = {} <=> Fold[name] \notin KeyNames(keys)
  BY <1>1 DEF KeyNames
<1>5. ASSUME NEW i \in found PROVE at = i
  <2>1. \A j \in found : j = i
    BY <1>2
  <2>2. i \in Nat
    BY <1>1
  <2> HIDE DEF found
  <2>3. \A j \in found : i <= j
    BY <2>1, <2>2
  <2>4. at \in found
    BY <1>3, <1>5, <2>3
  <2> QED
    BY <2>1, <2>4
<1>6. \A i \in 1 .. Len(keys) : Fold[keys[i].name] = Fold[name] => at = i
  BY <1>5
<1>7. found # {} => at \in found
  BY <1>5
<1>8. at # 0 => KeyOf(keys, Fold[name]) = keys[at]
  <2> SUFFICES ASSUME at # 0 PROVE KeyOf(keys, Fold[name]) = keys[at]
    OBVIOUS
  <2> DEFINE k == CHOOSE i \in DOMAIN keys : Fold[keys[i].name] = Fold[name]
  <2>1. at \in 1 .. Len(keys) /\ Fold[keys[at].name] = Fold[name]
    BY <1>3, <1>7
  <2>2. k \in 1 .. Len(keys) /\ Fold[keys[k].name] = Fold[name]
    BY <1>1, <2>1
  <2>3. KeyOf(keys, Fold[name]) = keys[k]
    BY DEF KeyOf
  <2> HIDE DEF k, at
  <2> QED
    BY <1>6, <2>2, <2>3
<1>9. at = 0 <=> found = {}
  <2>1. 0 \notin found
    BY <1>1
  <2> HIDE DEF found, at
  <2> QED
    BY <1>3, <1>7, <2>1
<1>10. at \in 0 .. Len(keys) /\ (at # 0 => Fold[keys[at].name] = Fold[name])
  <2>1. at \in {0} \cup found
    BY <1>3, <1>7
  <2>2. found \subseteq 1 .. Len(keys) /\ 0 \in 0 .. Len(keys) /\ 1 .. Len(keys) \subseteq 0 .. Len(keys)
    BY <1>1
  <2>3. at \in 0 .. Len(keys)
    <3> HIDE DEF at, found
    <3> QED
      BY <2>1, <2>2
  <2> HIDE DEF at
  <2> QED
    BY <2>1, <2>3
<1> HIDE DEF at, found
<1> QED
  BY <1>1, <1>4, <1>6, <1>8, <1>9, <1>10 DEF at

\* Of a name that has a key: what reading finds.
Complete(values) ==
  {"Start", "ImagePath"} \subseteq DOMAIN values /\ values["Start"].data \in Starts

Item(values, n, absent) == IF n \in DOMAIN values THEN values[n].data ELSE absent

ReadFrom(name, values) ==
  Service(name, values["Start"].data, values["ImagePath"].data,
          Item(values, "Group", None), Item(values, "DependOnService", <<>>))

LEMMA ReadIs ==
  ASSUME NEW keys, AreKeys(keys), NEW name
  PROVE  /\ Readable(keys, name) <=>
              name # None /\ Fold[name] \in KeyNames(keys) /\ Complete(Vals(keys, Fold[name]))
         /\ Fold[name] \in KeyNames(keys) =>
              ReadService(keys, name) = ReadFrom(name, Vals(keys, Fold[name]))
<1> DEFINE at == Find(keys, name)
           f == Fold[name]
<1>1. at = 0 <=> f \notin KeyNames(keys)
  BY FindIs
<1>2. at # 0 => KeyOf(keys, f) = keys[at]
  BY FindIs
<1>3. at # 0 => Vals(keys, f) = keys[at].values
  BY <1>1, <1>2 DEF Vals
<1>4. Readable(keys, name) <=> name # None /\ at # 0 /\ Complete(keys[at].values)
  BY DEF Readable, Complete
<1>5. ReadService(keys, name) = ReadFrom(name, keys[at].values)
  BY DEF ReadService, ReadFrom, Item
<1> HIDE DEF at, f
<1> QED
  BY <1>1, <1>3, <1>4, <1>5 DEF f

LEMMA RegisteredIs ==
  ASSUME NEW keys, AreKeys(keys)
  PROVE  Registered(keys) =
           [f \in {g \in KeyNames(keys) : g # Fold[None] /\ Complete(Vals(keys, g))} |->
              ReadFrom(f, Vals(keys, f))]
<1>1. ASSUME NEW f \in KeyNames(keys)
      PROVE  /\ Readable(keys, KeyOf(keys, f).name) <=> f # Fold[None] /\ Complete(Vals(keys, f))
             /\ [ReadService(keys, KeyOf(keys, f).name) EXCEPT !.name = f] = ReadFrom(f, Vals(keys, f))
  <2> DEFINE n == KeyOf(keys, f).name
  <2>1. Fold[n] = f /\ n \in Names
    <3> DEFINE k == CHOOSE i \in DOMAIN keys : Fold[keys[i].name] = f
    <3>1. k \in DOMAIN keys /\ Fold[keys[k].name] = f
      BY DEF KeyNames
    <3>2. DOMAIN keys = 1 .. Len(keys)
      BY FindIs
    <3>3. KeyOf(keys, f) = keys[k]
      BY DEF KeyOf
    <3> HIDE DEF k
    <3> QED
      BY <3>1, <3>2, <3>3 DEF AreKeys, IsKey
  <2>2. n = None <=> f = Fold[None]
    BY <2>1, RegistryAssumption DEF RegistryAssumption
  <2> HIDE DEF n
  <2>3. Readable(keys, n) <=> n # None /\ f \in KeyNames(keys) /\ Complete(Vals(keys, f))
    BY <2>1, ReadIs
  <2>4. ReadService(keys, n) = ReadFrom(n, Vals(keys, f))
    BY <2>1, ReadIs
  <2>5. [ReadFrom(n, Vals(keys, f)) EXCEPT !.name = f] = ReadFrom(f, Vals(keys, f))
    BY DEF ReadFrom, Service
  <2> QED
    BY <2>2, <2>3, <2>4, <2>5 DEF n
<1>2. {g \in KeyNames(keys) : Readable(keys, KeyOf(keys, g).name)} =
        {g \in KeyNames(keys) : g # Fold[None] /\ Complete(Vals(keys, g))}
  BY <1>1
<1>3. Registered(keys) =
        [f \in {g \in KeyNames(keys) : Readable(keys, KeyOf(keys, g).name)} |->
           [ReadService(keys, KeyOf(keys, f).name) EXCEPT !.name = f]]
  BY DEF Registered
<1> QED
  BY <1>1, <1>2, <1>3

\* Writing a service's values, once and again.
LEMMA WriteIs ==
  ASSUME NEW v, NEW s, s.start \in Starts
  PROVE  /\ Complete(WriteServiceValues(v, s))
         /\ \A n : ReadFrom(n, WriteServiceValues(v, s)) = Service(n, s.start, s.image, s.group, s.deps)
         /\ WriteServiceValues(WriteServiceValues(v, s), s) = WriteServiceValues(v, s)
         /\ \A n : n \notin Known =>
              /\ (n \in DOMAIN WriteServiceValues(v, s)) <=> (n \in DOMAIN v)
              /\ n \in DOMAIN v => WriteServiceValues(v, s)[n] = v[n]
         /\ WriteServiceValues(v, s) =
              [n \in DOMAIN WriteServiceValues(v, s) |-> WriteServiceValues(v, s)[n]]
<1> DEFINE D == DOMAIN Written(s)
           kept == DOMAIN v \ {"Group", "DependOnService"}
           w == WriteServiceValues(v, s)
<1>1. /\ D = {"Start", "ImagePath"} \cup (IF s.group = None THEN {} ELSE {"Group"})
               \cup (IF s.deps = <<>> THEN {} ELSE {"DependOnService"})
      /\ \A n \in D : Written(s)[n] = CASE n = "Start"           -> Typed("DWORD", s.start)
                                        [] n = "ImagePath"       -> Typed("EXPAND_SZ", s.image)
                                        [] n = "Group"           -> Typed("SZ", s.group)
                                        [] n = "DependOnService" -> Typed("MULTI_SZ", s.deps)
  BY DEF Written
<1>2. \A t : Typed("DWORD", t).data = t /\ Typed("EXPAND_SZ", t).data = t
             /\ Typed("SZ", t).data = t /\ Typed("MULTI_SZ", t).data = t
  BY DEF Typed
<1>3. w = [n \in kept \cup D |-> IF n \in D THEN Written(s)[n] ELSE v[n]]
  BY DEF WriteServiceValues
<1> HIDE DEF D, w
<1>4. /\ DOMAIN w = kept \cup D
      /\ \A n \in kept \cup D : w[n] = IF n \in D THEN Written(s)[n] ELSE v[n]
  BY <1>3
<1>5. /\ w["Start"].data = s.start /\ w["ImagePath"].data = s.image
      /\ "Start" \in DOMAIN w /\ "ImagePath" \in DOMAIN w
  BY <1>1, <1>2, <1>4
<1>6. Item(w, "Group", None) = s.group
  <2>1. CASE s.group = None
    BY <1>1, <1>4, <2>1 DEF Item
  <2>2. CASE s.group # None
    <3>1. "Group" \in D /\ Written(s)["Group"] = Typed("SZ", s.group)
      BY <1>1, <2>2
    <3> QED
      BY <1>2, <1>4, <3>1 DEF Item
  <2> QED
    BY <2>1, <2>2
<1>7. Item(w, "DependOnService", <<>>) = s.deps
  <2>1. CASE s.deps = <<>>
    BY <1>1, <1>4, <2>1 DEF Item
  <2>2. CASE s.deps # <<>>
    <3>1. "DependOnService" \in D /\ Written(s)["DependOnService"] = Typed("MULTI_SZ", s.deps)
      BY <1>1, <2>2
    <3> QED
      BY <1>2, <1>4, <3>1 DEF Item
  <2> QED
    BY <2>1, <2>2
<1>8. Complete(w)
  BY <1>5 DEF Complete
<1>9. \A n : ReadFrom(n, w) = Service(n, s.start, s.image, s.group, s.deps)
  BY <1>5, <1>6, <1>7 DEF ReadFrom
<1>10. WriteServiceValues(w, s) = w
  <2> DEFINE keep2 == DOMAIN w \ {"Group", "DependOnService"}
  <2>1. WriteServiceValues(w, s) = [n \in keep2 \cup D |-> IF n \in D THEN Written(s)[n] ELSE w[n]]
    BY DEF WriteServiceValues, D
  <2>2. keep2 \cup D = kept \cup D
    BY <1>4
  <2>3. \A n \in kept \cup D : (IF n \in D THEN Written(s)[n] ELSE w[n]) =
                               IF n \in D THEN Written(s)[n] ELSE v[n]
    BY <1>4
  <2> HIDE DEF keep2, kept
  <2> QED
    BY <1>3, <2>1, <2>2, <2>3
<1>11. ASSUME NEW n, n \notin Known
       PROVE  (n \in DOMAIN w <=> n \in DOMAIN v) /\ (n \in DOMAIN v => w[n] = v[n])
  <2>1. n \notin D
    BY <1>1, <1>11 DEF Known
  <2>2. n \in kept <=> n \in DOMAIN v
    BY <1>11 DEF Known
  <2> QED
    BY <1>4, <2>1, <2>2
<1>12. w = [n \in DOMAIN w |-> w[n]]
  BY <1>3
<1> QED
  BY <1>8, <1>9, <1>10, <1>11, <1>12 DEF w

LEMMA ValsAt ==
  ASSUME NEW keys, AreKeys(keys)
  PROVE  /\ Len(keys) \in Nat /\ DOMAIN keys = 1 .. Len(keys)
         /\ \A g : g \in KeyNames(keys) <=> \E i \in 1 .. Len(keys) : Fold[keys[i].name] = g
         /\ \A i \in 1 .. Len(keys) : Vals(keys, Fold[keys[i].name]) = keys[i].values
         /\ \A g : g \notin KeyNames(keys) => Vals(keys, g) = NoValues
<1>1. Len(keys) \in Nat /\ DOMAIN keys = 1 .. Len(keys)
  BY FindIs
<1>2. \A g : g \in KeyNames(keys) <=> \E i \in 1 .. Len(keys) : Fold[keys[i].name] = g
  BY <1>1 DEF KeyNames
<1>3. ASSUME NEW i \in 1 .. Len(keys) PROVE Vals(keys, Fold[keys[i].name]) = keys[i].values
  <2> DEFINE n == keys[i].name
  <2>1. /\ Find(keys, n) = 0 <=> Fold[n] \notin KeyNames(keys)
        /\ \A j \in 1 .. Len(keys) : Fold[keys[j].name] = Fold[n] => Find(keys, n) = j
        /\ Find(keys, n) # 0 => KeyOf(keys, Fold[n]) = keys[Find(keys, n)]
    BY FindIs
  <2>2. Find(keys, n) = i
    BY <2>1
  <2> HIDE DEF n
  <2> QED
    BY <1>1, <2>1, <2>2 DEF Vals, n
<1>4. \A g : g \notin KeyNames(keys) => Vals(keys, g) = NoValues
  BY DEF Vals
<1> QED
  BY <1>1, <1>2, <1>3, <1>4

LEMMA WithKeyIs ==
  ASSUME NEW keys, AreKeys(keys), NEW name \in Names
  PROVE  /\ AreKeys(WithKey(keys, name))
         /\ KeyNames(WithKey(keys, name)) = KeyNames(keys) \cup {Fold[name]}
         /\ \A g : Vals(WithKey(keys, name), g) = Vals(keys, g)
         /\ Fold[name] \in KeyNames(keys) => WithKey(keys, name) = keys
<1> DEFINE f == Fold[name]
           k == [name |-> name, values |-> [n \in {} |-> {}]]
           new == Append(keys, k)
<1>1. Find(keys, name) = 0 <=> f \notin KeyNames(keys)
  BY FindIs
<1>2. WithKey(keys, name) = IF Find(keys, name) # 0 THEN keys ELSE new
  BY DEF WithKey
<1>3. CASE f \in KeyNames(keys)
  BY <1>1, <1>2, <1>3
<1>4. CASE f \notin KeyNames(keys)
  <2>1. /\ Len(keys) \in Nat /\ DOMAIN keys = 1 .. Len(keys)
        /\ \A g : g \in KeyNames(keys) <=> \E i \in 1 .. Len(keys) : Fold[keys[i].name] = g
        /\ \A i \in 1 .. Len(keys) : Vals(keys, Fold[keys[i].name]) = keys[i].values
        /\ \A g : g \notin KeyNames(keys) => Vals(keys, g) = NoValues
    BY ValsAt
  <2> DEFINE K == ToSet(keys)
             z == Len(keys) + 1
  <2>2. keys \in Seq(K) /\ \A i \in 1 .. Len(keys) : IsKey(keys[i])
    BY DEF AreKeys
  <2>3. k.name = name /\ k.values = NoValues /\ IsKey(k)
    BY DEF IsKey, NoValues
  <2> HIDE DEF K, k
  <2>4. /\ new \in Seq(K \cup {k}) /\ Len(new) = z /\ new[z] = k /\ DOMAIN new = 1 .. z
        /\ \A i \in 1 .. Len(keys) : new[i] = keys[i]
    BY <2>2
  <2> HIDE DEF new
  <2>5. \A i : i \in 1 .. z <=> i \in 1 .. Len(keys) \/ i = z
    BY <2>1
  <2> HIDE DEF z
  <2>6. \A i \in 1 .. Len(keys) : Fold[keys[i].name] # f
    BY <1>4, <2>1
  <2>7. \A i, j \in DOMAIN new : Fold[new[i].name] = Fold[new[j].name] => i = j
    <3>1. \A i, j \in 1 .. Len(keys) : Fold[keys[i].name] = Fold[keys[j].name] => i = j
      BY <2>1 DEF AreKeys, KeysSound
    <3> QED
      BY <2>3, <2>4, <2>5, <2>6, <3>1
  <2>8. AreKeys(new)
    <3>1. new \in Seq(ToSet(new))
      BY <2>4, InSeqOfItself
    <3>2. \A i \in DOMAIN new :
            LET values == new[i].values
            IN  "Start" \in DOMAIN values => values["Start"].data \in Starts \cup {Malformed}
      <4>1. \A i \in 1 .. Len(keys) :
              "Start" \in DOMAIN keys[i].values => keys[i].values["Start"].data \in Starts \cup {Malformed}
        BY <2>1 DEF AreKeys, KeysSound
      <4>2. "Start" \notin DOMAIN k.values
        BY <2>3 DEF NoValues
      <4> QED
        BY <2>4, <2>5, <4>1, <4>2
    <3>3. \A i \in 1 .. Len(new) : IsKey(new[i])
      BY <2>2, <2>3, <2>4, <2>5
    <3> QED
      BY <2>7, <3>1, <3>2, <3>3 DEF AreKeys, KeysSound
  <2>9. KeyNames(new) = KeyNames(keys) \cup {f}
    <3>1. \A g : g \in KeyNames(new) <=> \E i \in 1 .. Len(new) : Fold[new[i].name] = g
      BY <2>8, ValsAt
    <3> QED
      BY <2>1, <2>3, <2>4, <2>5, <3>1
  <2>10. ASSUME NEW g PROVE Vals(new, g) = Vals(keys, g)
    <3>1. /\ \A i \in 1 .. Len(new) : Vals(new, Fold[new[i].name]) = new[i].values
          /\ g \notin KeyNames(new) => Vals(new, g) = NoValues
      BY <2>8, ValsAt
    <3>2. CASE g \in KeyNames(keys)
      <4>1. PICK i \in 1 .. Len(keys) : Fold[keys[i].name] = g
        BY <2>1, <3>2
      <4> QED
        BY <2>1, <2>4, <2>5, <3>1, <4>1
    <3>3. CASE g = f
      <4>1. Vals(new, f) = NoValues
        BY <2>3, <2>4, <2>5, <3>1
      <4> QED
        BY <1>4, <2>1, <3>3, <4>1
    <3>4. CASE g \notin KeyNames(keys) /\ g # f
      BY <2>1, <2>9, <3>1, <3>4
    <3> QED
      BY <3>2, <3>3, <3>4
  <2> QED
    BY <1>1, <1>2, <1>4, <2>8, <2>9, <2>10
<1> QED
  BY <1>3, <1>4

LEMMA ModifiedIs ==
  ASSUME NEW keys, AreKeys(keys), NEW s, s.start \in Starts, Fold[s.name] \in KeyNames(keys)
  PROVE  /\ AreKeys(Modified(keys, s))
         /\ KeyNames(Modified(keys, s)) = KeyNames(keys)
         /\ Vals(Modified(keys, s), Fold[s.name]) = WriteServiceValues(Vals(keys, Fold[s.name]), s)
         /\ \A g : g # Fold[s.name] => Vals(Modified(keys, s), g) = Vals(keys, g)
         /\ WriteServiceValues(Vals(keys, Fold[s.name]), s) = Vals(keys, Fold[s.name]) =>
              Modified(keys, s) = keys
<1> DEFINE f == Fold[s.name]
           at == Find(keys, s.name)
           w == WriteServiceValues(keys[at].values, s)
           k == [name |-> keys[at].name, values |-> w]
           new == Modified(keys, s)
<1>1. /\ Len(keys) \in Nat /\ DOMAIN keys = 1 .. Len(keys)
      /\ \A g : g \in KeyNames(keys) <=> \E i \in 1 .. Len(keys) : Fold[keys[i].name] = g
      /\ \A i \in 1 .. Len(keys) : Vals(keys, Fold[keys[i].name]) = keys[i].values
      /\ \A g : g \notin KeyNames(keys) => Vals(keys, g) = NoValues
  BY ValsAt
<1>2. at \in 1 .. Len(keys) /\ Fold[keys[at].name] = f
  BY FindIs
<1>3. Vals(keys, f) = keys[at].values
  BY <1>1, <1>2
<1> DEFINE K == ToSet(keys)
<1>4. keys \in Seq(K) /\ \A i \in 1 .. Len(keys) : IsKey(keys[i])
  BY DEF AreKeys
<1>5. keys[at].name \in Names /\ keys[at] = [name |-> keys[at].name, values |-> keys[at].values]
  <2> DEFINE r == keys[at]
             V == [n \in DOMAIN r.values |-> r.values[n]]
  <2>1. r.name \in Names /\ r = [name |-> r.name, values |-> V]
    BY <1>2, <1>4 DEF IsKey
  <2> HIDE DEF r, V
  <2>2. r.values = V
    BY <2>1
  <2> QED
    BY <2>1, <2>2 DEF r
<1>6. new = [keys EXCEPT ![at] = k]
  <2>1. new = [keys EXCEPT ![at].values = WriteServiceValues(@, s)]
    BY DEF Modified
  <2>2. [keys[at] EXCEPT !.values = w] = k
    <3> DEFINE n == keys[at].name
               v == keys[at].values
    <3>1. keys[at] = [name |-> n, values |-> v]
      BY <1>5
    <3> HIDE DEF n, v
    <3>2. \A x : [[name |-> n, values |-> v] EXCEPT !.values = x] = [name |-> n, values |-> x]
      OBVIOUS
    <3> QED
      BY <3>1, <3>2 DEF n
  <2> HIDE DEF k
  <2> QED
    BY <2>1, <2>2
<1>7. k.name = keys[at].name /\ k.values = w
  OBVIOUS
<1>8. Complete(w) /\ w = [n \in DOMAIN w |-> w[n]]
  BY WriteIs
<1>9. w = keys[at].values => k = keys[at]
  BY <1>5
<1> HIDE DEF k, w, at, new, f, K
<1>10. /\ new \in Seq(K \cup {k}) /\ Len(new) = Len(keys) /\ DOMAIN new = 1 .. Len(keys)
       /\ new[at] = k /\ \A i \in 1 .. Len(keys) : i # at => new[i] = keys[i]
  BY <1>1, <1>2, <1>4, <1>6
<1>11. \A i \in 1 .. Len(keys) : new[i].name = keys[i].name
  BY <1>7, <1>10
<1>12. AreKeys(new)
  <2>1. new \in Seq(ToSet(new))
    BY <1>10, InSeqOfItself
  <2>2. \A i, j \in DOMAIN new : Fold[new[i].name] = Fold[new[j].name] => i = j
    BY <1>1, <1>10, <1>11 DEF AreKeys, KeysSound
  <2>3. \A i \in DOMAIN new :
          LET values == new[i].values
          IN  "Start" \in DOMAIN values => values["Start"].data \in Starts \cup {Malformed}
    <3>1. \A i \in 1 .. Len(keys) :
            "Start" \in DOMAIN keys[i].values => keys[i].values["Start"].data \in Starts \cup {Malformed}
      BY <1>1 DEF AreKeys, KeysSound
    <3>2. w["Start"].data \in Starts
      BY <1>8 DEF Complete
    <3> QED
      BY <1>7, <1>10, <3>1, <3>2
  <2>4. \A i \in 1 .. Len(new) : IsKey(new[i])
    <3>1. IsKey(k)
      BY <1>5, <1>7, <1>8 DEF IsKey, k
    <3> QED
      BY <1>4, <1>10, <3>1
  <2> QED
    BY <2>1, <2>2, <2>3, <2>4 DEF AreKeys, KeysSound
<1>13. /\ \A g : g \in KeyNames(new) <=> \E i \in 1 .. Len(new) : Fold[new[i].name] = g
       /\ \A i \in 1 .. Len(new) : Vals(new, Fold[new[i].name]) = new[i].values
       /\ \A g : g \notin KeyNames(new) => Vals(new, g) = NoValues
  BY <1>12, ValsAt
<1>14. KeyNames(new) = KeyNames(keys)
  BY <1>1, <1>10, <1>11 DEF KeyNames
<1>15. Vals(new, f) = WriteServiceValues(Vals(keys, f), s)
  BY <1>2, <1>3, <1>7, <1>10, <1>11, <1>13 DEF w
<1>16. ASSUME NEW g, g # f PROVE Vals(new, g) = Vals(keys, g)
  <2>1. CASE g \in KeyNames(keys)
    <3>1. PICK i \in 1 .. Len(keys) : Fold[keys[i].name] = g
      BY <1>1, <2>1
    <3>2. i # at
      BY <1>2, <1>16, <3>1
    <3> QED
      BY <1>1, <1>10, <1>11, <1>13, <3>1, <3>2
  <2>2. CASE g \notin KeyNames(keys)
    BY <1>1, <1>13, <1>14, <2>2
  <2> QED
    BY <2>1, <2>2
<1>17. WriteServiceValues(Vals(keys, f), s) = Vals(keys, f) => new = keys
  <2> SUFFICES ASSUME WriteServiceValues(Vals(keys, f), s) = Vals(keys, f) PROVE new = keys
    OBVIOUS
  <2>1. k = keys[at]
    BY <1>3, <1>9 DEF w
  <2>2. \A i \in 1 .. Len(keys) : new[i] = keys[i]
    BY <1>10, <2>1
  <2> QED
    BY <1>1, <1>4, <1>10, <2>2
<1> QED
  BY <1>12, <1>14, <1>15, <1>16, <1>17 DEF f, new

LEMMA InstalledIs ==
  ASSUME NEW keys, AreKeys(keys), NEW s, s.name \in Names, s.start \in Starts
  PROVE  /\ AreKeys(Installed(keys, s))
         /\ KeyNames(Installed(keys, s)) = KeyNames(keys) \cup {Fold[s.name]}
         /\ Vals(Installed(keys, s), Fold[s.name]) = WriteServiceValues(Vals(keys, Fold[s.name]), s)
         /\ \A g : g # Fold[s.name] => Vals(Installed(keys, s), g) = Vals(keys, g)
         /\ /\ Fold[s.name] \in KeyNames(keys)
            /\ WriteServiceValues(Vals(keys, Fold[s.name]), s) = Vals(keys, Fold[s.name])
            => Installed(keys, s) = keys
<1> DEFINE f == Fold[s.name]
           n == s.name
           mid == WithKey(keys, n)
<1>1. /\ AreKeys(mid) /\ KeyNames(mid) = KeyNames(keys) \cup {f}
      /\ \A g : Vals(mid, g) = Vals(keys, g)
      /\ f \in KeyNames(keys) => mid = keys
  <2>1. n \in Names
    OBVIOUS
  <2> HIDE DEF n
  <2>2. /\ AreKeys(mid) /\ KeyNames(mid) = KeyNames(keys) \cup {Fold[n]}
        /\ \A g : Vals(mid, g) = Vals(keys, g)
        /\ Fold[n] \in KeyNames(keys) => mid = keys
    BY <2>1, WithKeyIs
  <2> QED
    BY <2>2 DEF n
<1>2. Installed(keys, s) = Modified(mid, s)
  BY DEF Installed
<1> HIDE DEF mid
<1>3. /\ AreKeys(Modified(mid, s)) /\ KeyNames(Modified(mid, s)) = KeyNames(mid)
      /\ Vals(Modified(mid, s), f) = WriteServiceValues(Vals(mid, f), s)
      /\ \A g : g # f => Vals(Modified(mid, s), g) = Vals(mid, g)
      /\ WriteServiceValues(Vals(mid, f), s) = Vals(mid, f) => Modified(mid, s) = mid
  <2>1. f \in KeyNames(mid)
    BY <1>1
  <2> QED
    BY <1>1, <2>1, ModifiedIs
<1> QED
  BY <1>1, <1>2, <1>3

\* A sequence without one of its elements.
LEMMA RemoveAtIs ==
  ASSUME NEW K, NEW l \in Seq(K), NEW at \in 1 .. Len(l)
  PROVE  /\ RemoveAt(l, at) \in Seq(K) /\ Len(RemoveAt(l, at)) = Len(l) - 1
         /\ \A i \in 1 .. Len(l) - 1 : RemoveAt(l, at)[i] = IF i < at THEN l[i] ELSE l[i + 1]
<1> DEFINE a == SubSeq(l, 1, at - 1)
           b == SubSeq(l, at + 1, Len(l))
<1>1. Len(l) \in Nat /\ at \in Nat /\ at >= 1 /\ at <= Len(l)
  OBVIOUS
<1>2. a \in Seq(K) /\ Len(a) = at - 1 /\ \A i \in 1 .. at - 1 : a[i] = l[i]
  BY <1>1
<1>3. b \in Seq(K) /\ Len(b) = Len(l) - at /\ \A i \in 1 .. Len(l) - at : b[i] = l[at + i]
  BY <1>1
<1>4. RemoveAt(l, at) = a \o b
  BY DEF RemoveAt
<1> HIDE DEF a, b
<1>5. a \o b \in Seq(K) /\ Len(a \o b) = Len(l) - 1
  <2>1. a \in Seq(K) /\ b \in Seq(K)
    BY <1>2, <1>3
  <2>2. a \o b \in Seq(K) /\ Len(a \o b) = Len(a) + Len(b)
    BY <2>1
  <2> QED
    BY <1>1, <1>2, <1>3, <2>2
<1>6. ASSUME NEW i \in 1 .. Len(l) - 1, i < at PROVE (a \o b)[i] = l[i]
  BY <1>1, <1>2, <1>3, <1>6
<1>7. ASSUME NEW i \in 1 .. Len(l) - 1, ~(i < at) PROVE (a \o b)[i] = l[i + 1]
  <2> DEFINE j == i - (at - 1)
  <2>1. j \in 1 .. Len(l) - at /\ at + j = i + 1 /\ i = Len(a) + j
    BY <1>1, <1>2, <1>7
  <2>2. (a \o b)[i] = b[j]
    BY <1>1, <1>2, <1>3, <1>7
  <2> HIDE DEF j
  <2> QED
    BY <1>3, <2>1, <2>2
<1> QED
  BY <1>4, <1>5, <1>6, <1>7

LEMMA RemovedIs ==
  ASSUME NEW keys, AreKeys(keys), NEW name
  PROVE  /\ AreKeys(Removed(keys, name))
         /\ KeyNames(Removed(keys, name)) = KeyNames(keys) \ {Fold[name]}
         /\ \A g : g # Fold[name] => Vals(Removed(keys, name), g) = Vals(keys, g)
<1> DEFINE f == Fold[name]
           at == Find(keys, name)
           new == RemoveAt(keys, at)
           K == ToSet(keys)
<1>1. /\ at \in 0 .. Len(keys) /\ (at = 0 <=> f \notin KeyNames(keys))
      /\ \A i \in 1 .. Len(keys) : Fold[keys[i].name] = f => at = i
      /\ at # 0 => Fold[keys[at].name] = f
  BY FindIs
<1>2. Removed(keys, name) = IF at = 0 THEN keys ELSE new
  BY DEF Removed
<1>3. CASE at = 0
  BY <1>1, <1>2, <1>3
<1>4. CASE at # 0
  <2>1. /\ Len(keys) \in Nat /\ DOMAIN keys = 1 .. Len(keys)
        /\ \A g : g \in KeyNames(keys) <=> \E i \in 1 .. Len(keys) : Fold[keys[i].name] = g
        /\ \A i \in 1 .. Len(keys) : Vals(keys, Fold[keys[i].name]) = keys[i].values
        /\ \A g : g \notin KeyNames(keys) => Vals(keys, g) = NoValues
    BY ValsAt
  <2>2. keys \in Seq(K) /\ \A i \in 1 .. Len(keys) : IsKey(keys[i])
    BY DEF AreKeys
  <2> HIDE DEF K, at
  <2>3. at \in 1 .. Len(keys)
    BY <1>1, <1>4, <2>1
  <2>4. /\ new \in Seq(K) /\ Len(new) = Len(keys) - 1
        /\ \A i \in 1 .. Len(keys) - 1 : new[i] = IF i < at THEN keys[i] ELSE keys[i + 1]
    BY <2>2, <2>3, RemoveAtIs
  <2>5. DOMAIN new = 1 .. Len(keys) - 1
    BY <2>4
  <2> HIDE DEF new
  <2> DEFINE Old(i) == IF i < at THEN i ELSE i + 1
             New(i) == IF i < at THEN i ELSE i - 1
  <2>6. ASSUME NEW i \in 1 .. Len(keys) - 1
        PROVE  Old(i) \in 1 .. Len(keys) /\ Old(i) # at /\ new[i] = keys[Old(i)]
    <3>1. CASE i < at
      BY <2>1, <2>3, <2>4, <3>1
    <3>2. CASE ~(i < at)
      BY <2>1, <2>3, <2>4, <3>2
    <3> QED
      BY <3>1, <3>2
  <2>7. ASSUME NEW i \in 1 .. Len(keys), i # at
        PROVE  New(i) \in 1 .. Len(keys) - 1 /\ new[New(i)] = keys[i]
    <3>1. CASE i < at
      <4>1. i \in 1 .. Len(keys) - 1 /\ New(i) = i
        BY <2>1, <2>3, <3>1
      <4> QED
        BY <2>4, <3>1, <4>1
    <3>2. CASE ~(i < at)
      <4> DEFINE j == i - 1
      <4>1. j \in 1 .. Len(keys) - 1 /\ New(i) = j /\ ~(j < at) /\ j + 1 = i
        BY <2>1, <2>3, <2>7, <3>2
      <4> HIDE DEF j
      <4> QED
        BY <2>4, <4>1
    <3> QED
      BY <3>1, <3>2
  <2>8. \A i, j \in 1 .. Len(keys) - 1 : Old(i) = Old(j) => i = j
    BY <2>1, <2>3
  <2> HIDE DEF Old, New
  <2>9. AreKeys(new)
    <3>1. new \in Seq(ToSet(new))
      BY <2>4, InSeqOfItself
    <3>2. \A i, j \in DOMAIN new : Fold[new[i].name] = Fold[new[j].name] => i = j
      BY <2>1, <2>5, <2>6, <2>8 DEF AreKeys, KeysSound
    <3>3. \A i \in DOMAIN new :
            LET values == new[i].values
            IN  "Start" \in DOMAIN values => values["Start"].data \in Starts \cup {Malformed}
      BY <2>1, <2>5, <2>6 DEF AreKeys, KeysSound
    <3>4. \A i \in 1 .. Len(new) : IsKey(new[i])
      BY <2>2, <2>4, <2>6
    <3> QED
      BY <3>1, <3>2, <3>3, <3>4 DEF AreKeys, KeysSound
  <2>10. /\ \A g : g \in KeyNames(new) <=> \E i \in 1 .. Len(new) : Fold[new[i].name] = g
         /\ \A i \in 1 .. Len(new) : Vals(new, Fold[new[i].name]) = new[i].values
         /\ \A g : g \notin KeyNames(new) => Vals(new, g) = NoValues
    BY <2>9, ValsAt
  <2>11. ASSUME NEW g PROVE g \in KeyNames(new) <=> g \in KeyNames(keys) /\ g # f
    <3>1. ASSUME g \in KeyNames(new) PROVE g \in KeyNames(keys) /\ g # f
      <4>1. PICK i \in 1 .. Len(keys) - 1 : Fold[new[i].name] = g
        BY <2>4, <2>10, <3>1
      <4> QED
        BY <1>1, <2>1, <2>6, <4>1
    <3>2. ASSUME g \in KeyNames(keys), g # f PROVE g \in KeyNames(new)
      <4>1. PICK i \in 1 .. Len(keys) : Fold[keys[i].name] = g
        BY <2>1, <3>2
      <4>2. i # at
        BY <1>1, <1>4, <3>2, <4>1
      <4> QED
        BY <2>4, <2>7, <2>10, <4>1, <4>2
    <3> QED
      BY <3>1, <3>2
  <2>12. KeyNames(new) = KeyNames(keys) \ {f}
    BY <2>11
  <2>13. ASSUME NEW g, g # f PROVE Vals(new, g) = Vals(keys, g)
    <3>1. CASE g \in KeyNames(keys)
      <4>1. PICK i \in 1 .. Len(keys) : Fold[keys[i].name] = g
        BY <2>1, <3>1
      <4>2. i # at
        BY <1>1, <1>4, <2>13, <4>1
      <4>3. PICK j \in 1 .. Len(keys) - 1 : new[j] = keys[i]
        BY <2>7, <4>1, <4>2
      <4>4. Vals(new, g) = new[j].values
        BY <2>4, <2>10, <4>1, <4>3
      <4>5. Vals(keys, g) = keys[i].values
        BY <2>1, <4>1
      <4> QED
        BY <4>3, <4>4, <4>5
    <3>2. CASE g \notin KeyNames(keys)
      BY <2>1, <2>10, <2>11, <3>2
    <3> QED
      BY <3>1, <3>2
  <2> QED
    BY <1>2, <1>4, <2>9, <2>12, <2>13
<1> QED
  BY <1>3, <1>4

-----------------------------------------------------------------------------
(* What the calls do to the services as Read returns them.                   *)

\* New values for one name, complete ones, and nothing else.
LEMMA SetIs ==
  ASSUME NEW keys, AreKeys(keys), NEW new, AreKeys(new),
         NEW s, s = Service(s.name, s.start, s.image, s.group, s.deps), s.start \in Starts,
         Fold[s.name] # Fold[None],
         KeyNames(new) = KeyNames(keys) \cup {Fold[s.name]},
         Vals(new, Fold[s.name]) = WriteServiceValues(Vals(keys, Fold[s.name]), s),
         \A g : g # Fold[s.name] => Vals(new, g) = Vals(keys, g)
  PROVE  /\ Registered(new) = Set(Registered(keys), s)
         /\ \A g \in KeyNames(keys) : Foreign(new, g) = Foreign(keys, g)
<1> DEFINE f == Fold[s.name]
           w == Vals(new, f)
           v == Vals(keys, f)
           Dom(ks) == {g \in KeyNames(ks) : g # Fold[None] /\ Complete(Vals(ks, g))}
<1>1. /\ Complete(w)
      /\ \A n : ReadFrom(n, w) = Service(n, s.start, s.image, s.group, s.deps)
      /\ \A n : n \notin Known =>
           /\ (n \in DOMAIN w) <=> (n \in DOMAIN v)
           /\ n \in DOMAIN v => w[n] = v[n]
  BY WriteIs
<1>2. [s EXCEPT !.name = f] = Service(f, s.start, s.image, s.group, s.deps)
  <2>1. \A n, a, b, c, d, e : [Service(n, a, b, c, d) EXCEPT !.name = e] = Service(e, a, b, c, d)
    BY DEF Service
  <2> QED
    BY <2>1
<1>3. /\ Registered(keys) = [g \in Dom(keys) |-> ReadFrom(g, Vals(keys, g))]
      /\ Registered(new) = [g \in Dom(new) |-> ReadFrom(g, Vals(new, g))]
  BY RegisteredIs
<1> HIDE DEF w, v
<1>4. Dom(new) = Dom(keys) \cup {f}
  BY <1>1 DEF w
<1> HIDE DEF Dom
<1>5. Set(Registered(keys), s) =
        [g \in Dom(keys) \cup {f} |-> IF g = f THEN [s EXCEPT !.name = f] ELSE Registered(keys)[g]]
  BY <1>3 DEF Set
<1>6. ASSUME NEW g \in Dom(new)
      PROVE  ReadFrom(g, Vals(new, g)) = IF g = f THEN [s EXCEPT !.name = f] ELSE Registered(keys)[g]
  BY <1>1, <1>2, <1>3, <1>4 DEF w
<1>7. Registered(new) = Set(Registered(keys), s)
  BY <1>3, <1>4, <1>5, <1>6
<1>8. ASSUME NEW g \in KeyNames(keys) PROVE Foreign(new, g) = Foreign(keys, g)
  <2>1. /\ Foreign(keys, g) = Restrict(Vals(keys, g), DOMAIN Vals(keys, g) \ Known)
        /\ Foreign(new, g) = Restrict(Vals(new, g), DOMAIN Vals(new, g) \ Known)
    BY DEF Foreign, Vals
  <2>2. CASE g = f
    <3>1. \A n : (n \in DOMAIN w \ Known) <=> (n \in DOMAIN v \ Known)
      BY <1>1
    <3>2. DOMAIN w \ Known = DOMAIN v \ Known
      BY <3>1
    <3>3. \A n \in DOMAIN v \ Known : w[n] = v[n]
      BY <1>1
    <3> QED
      BY <2>1, <2>2, <3>2, <3>3 DEF Restrict, w, v
  <2>3. CASE g # f
    BY <2>1, <2>3
  <2> QED
    BY <2>2, <2>3
<1> QED
  BY <1>7, <1>8

\* A key less, and nothing else.
LEMMA RemovedReads ==
  ASSUME NEW keys, AreKeys(keys), NEW name
  PROVE  /\ Registered(Removed(keys, name)) =
              Restrict(Registered(keys), DOMAIN Registered(keys) \ {Fold[name]})
         /\ \A g \in KeyNames(Removed(keys, name)) : Foreign(Removed(keys, name), g) = Foreign(keys, g)
<1> DEFINE f == Fold[name]
           new == Removed(keys, name)
           Dom(ks) == {g \in KeyNames(ks) : g # Fold[None] /\ Complete(Vals(ks, g))}
<1>1. /\ AreKeys(new) /\ KeyNames(new) = KeyNames(keys) \ {f}
      /\ \A g : g # f => Vals(new, g) = Vals(keys, g)
  BY RemovedIs
<1> HIDE DEF new
<1>2. /\ Registered(keys) = [g \in Dom(keys) |-> ReadFrom(g, Vals(keys, g))]
      /\ Registered(new) = [g \in Dom(new) |-> ReadFrom(g, Vals(new, g))]
  BY <1>1, RegisteredIs
<1>3. Dom(new) = Dom(keys) \ {f}
  BY <1>1
<1> HIDE DEF Dom, f
<1>4. Restrict(Registered(keys), Dom(keys) \ {f}) = [g \in Dom(keys) \ {f} |-> ReadFrom(g, Vals(keys, g))]
  BY <1>2 DEF Restrict
<1>5. \A g \in Dom(keys) \ {f} : Vals(new, g) = Vals(keys, g)
  BY <1>1
<1>6. Registered(new) = Restrict(Registered(keys), DOMAIN Registered(keys) \ {f})
  BY <1>2, <1>3, <1>4, <1>5
<1>7. ASSUME NEW g \in KeyNames(new) PROVE Foreign(new, g) = Foreign(keys, g)
  <2>1. g \in KeyNames(keys) /\ Vals(new, g) = Vals(keys, g)
    BY <1>1
  <2> QED
    BY <2>1 DEF Foreign, Vals
<1> QED
  BY <1>6, <1>7 DEF new, f

\* Another start type, for a service that can be read.
WithStart(keys, name, start) == [ReadService(keys, name) EXCEPT !.start = start]
StartSet(keys, f, start) == [Registered(keys) EXCEPT ![f].start = start]

LEMMA StartReads ==
  ASSUME NEW keys, AreKeys(keys), NEW name \in Names, Readable(keys, name), NEW start
  PROVE  LET s == WithStart(keys, name, start)
         IN  /\ s = Service(s.name, s.start, s.image, s.group, s.deps)
             /\ s.name = name /\ s.start = start
             /\ Fold[name] # Fold[None] /\ Fold[name] \in KeyNames(keys)
             /\ Set(Registered(keys), s) = StartSet(keys, Fold[name], start)
<1> DEFINE r == ReadService(keys, name)
           s == [r EXCEPT !.start = start]
           f == Fold[name]
           v == Vals(keys, f)
           reg == Registered(keys)
<1>1. /\ name # None /\ f \in KeyNames(keys) /\ Complete(v) /\ r = ReadFrom(name, v)
  BY ReadIs
<1>2. f # Fold[None]
  BY <1>1, RegistryAssumption DEF RegistryAssumption
<1>3. reg = [g \in {h \in KeyNames(keys) : h # Fold[None] /\ Complete(Vals(keys, h))} |->
                ReadFrom(g, Vals(keys, g))]
  BY RegisteredIs
<1>4. f \in DOMAIN reg /\ reg[f] = ReadFrom(f, v)
  BY <1>1, <1>2, <1>3
<1>5. PICK a, b, c, d : \A n : ReadFrom(n, v) = Service(n, a, b, c, d)
  BY DEF ReadFrom
<1>6. \A n, x : [Service(n, a, b, c, d) EXCEPT !.start = x] = Service(n, x, b, c, d)
  BY DEF Service
<1>7. \A n, x, m : [Service(n, x, b, c, d) EXCEPT !.name = m] = Service(m, x, b, c, d)
  BY DEF Service
<1>8. r = Service(name, a, b, c, d)
  BY <1>1, <1>5
<1> HIDE DEF r
<1>9. s = Service(name, start, b, c, d)
  BY <1>6, <1>8
<1>10. s.name = name /\ s.start = start /\ s.image = b /\ s.group = c /\ s.deps = d
  BY <1>9 DEF Service
<1> HIDE DEF s, v, reg
<1>11. Set(reg, s) = [g \in DOMAIN reg |-> IF g = f THEN [s EXCEPT !.name = f] ELSE reg[g]]
  BY <1>4, <1>10 DEF Set
<1>12. [reg EXCEPT ![f].start = start] =
         [g \in DOMAIN reg |-> IF g = f THEN Service(f, start, b, c, d) ELSE reg[g]]
  <2>1. reg[f] = Service(f, a, b, c, d)
    BY <1>4, <1>5
  <2>2. [reg[f] EXCEPT !.start = start] = Service(f, start, b, c, d)
    BY <1>6, <2>1
  <2>3. reg = [g \in DOMAIN reg |-> reg[g]]
    BY <1>3
  <2> QED
    BY <2>2, <2>3
<1>13. [s EXCEPT !.name = f] = Service(f, start, b, c, d)
  BY <1>7, <1>9
<1>14. Set(reg, s) = [reg EXCEPT ![f].start = start]
  BY <1>11, <1>12, <1>13
<1> QED
  BY <1>1, <1>2, <1>9, <1>10, <1>14 DEF s, r, reg, WithStart, StartSet

-----------------------------------------------------------------------------
(* What a package registers: lists put together and thinned out.             *)

\* Two functions that begin alike and go on alike are alike.
LEMMA SameCourse ==
  ASSUME NEW n \in Nat, NEW f, NEW g, f[0] = g[0], \A i \in 1 .. n : f[i - 1] = g[i - 1] => f[i] = g[i]
  PROVE  f[n] = g[n]
<1> DEFINE same == {i \in 0 .. n : f[i] = g[i]}
<1>1. 0 \in same
  OBVIOUS
<1>2. \A i \in 1 .. n : i - 1 \in same => i \in same
  <2>1. \A i \in 1 .. n : i \in 0 .. n
    OBVIOUS
  <2> QED
    BY <2>1
<1> HIDE DEF same
<1>3. 0 .. n \subseteq same
  BY <1>1, <1>2, UpTo
<1>4. n \in same
  BY <1>3
<1> QED
  BY <1>4 DEF same

FirstsBy(g, X, entries, Key) ==
  /\ g \in [0 .. Len(entries) -> Seq(X)]
  /\ g[0] = <<>>
  /\ \A i \in 1 .. Len(entries) :
       g[i] = IF \E j \in 1 .. i - 1 : Key[entries[j]] = Key[entries[i]] THEN g[i - 1]
              ELSE Append(g[i - 1], entries[i])
  /\ FirstOfEach(entries, Key) = g[Len(entries)]

LEMMA FirstOfEachSteps ==
  ASSUME NEW X, NEW entries \in Seq(X), NEW Key
  PROVE  \E g : FirstsBy(g, X, entries, Key)
<1> DEFINE n == Len(entries)
           Seen(i) == \E j \in 1 .. i - 1 : Key[entries[j]] = Key[entries[i]]
           step == [i \in 1 .. n |-> [s \in Seq(X) |-> IF Seen(i) THEN s ELSE Append(s, entries[i])]]
           Solves(f) == f = [i \in 0 .. n |->
                          IF i = 0 THEN <<>>
                          ELSE IF \E j \in 1 .. i - 1 : Key[entries[j]] = Key[entries[i]] THEN f[i - 1]
                          ELSE Append(f[i - 1], entries[i])]
           f == CHOOSE h : Solves(h)
<1>1. n \in Nat /\ \A i \in 1 .. n : entries[i] \in X
  OBVIOUS
<1>2. FirstOfEach(entries, Key) = f[n]
  BY DEF FirstOfEach
<1>3. Solves(f) <=> f = [i \in 0 .. n |->
                          IF i = 0 THEN <<>> ELSE IF Seen(i) THEN f[i - 1] ELSE Append(f[i - 1], entries[i])]
  OBVIOUS
<1>4. \A g : Solves(g) <=> g = [i \in 0 .. n |->
                          IF i = 0 THEN <<>> ELSE IF Seen(i) THEN g[i - 1] ELSE Append(g[i - 1], entries[i])]
  OBVIOUS
<1> HIDE DEF Seen
<1>5. step \in [1 .. n -> [Seq(X) -> Seq(X)]]
  BY <1>1
<1>6. \A i \in 1 .. n : \A s \in Seq(X) : step[i][s] = IF Seen(i) THEN s ELSE Append(s, entries[i])
  OBVIOUS
<1> HIDE DEF step
<1>7. PICK g \in [0 .. n -> Seq(X)] : g[0] = <<>> /\ \A i \in 1 .. n : g[i] = step[i][g[i - 1]]
  <2>1. <<>> \in Seq(X)
    OBVIOUS
  <2> HIDE DEF n
  <2>2. \E g : Recurses(g, n, Seq(X), <<>>, step)
    BY <1>1, <1>5, <2>1, Recursion
  <2> QED
    BY <2>2 DEF Recurses
<1>8. ASSUME NEW i \in 1 .. n
      PROVE  g[i] = IF Seen(i) THEN g[i - 1] ELSE Append(g[i - 1], entries[i])
  <2>1. i - 1 \in 0 .. n
    BY <1>1
  <2>2. g[i - 1] \in Seq(X)
    BY <2>1
  <2> QED
    BY <1>6, <1>7, <2>2
<1>9. Solves(g)
  <2>1. ASSUME NEW i \in 0 .. n
        PROVE  g[i] = IF i = 0 THEN <<>> ELSE IF Seen(i) THEN g[i - 1] ELSE Append(g[i - 1], entries[i])
    <3>1. i # 0 => i \in 1 .. n
      BY <1>1
    <3> QED
      BY <1>7, <1>8, <3>1
  <2>2. g = [i \in 0 .. n |-> g[i]]
    OBVIOUS
  <2> HIDE DEF Solves
  <2> QED
    BY <1>4, <2>1, <2>2
<1>10. Solves(f)
  <2> HIDE DEF Solves
  <2> QED
    BY <1>9
<1> HIDE DEF f
<1>11. f = [i \in 0 .. n |-> IF i = 0 THEN <<>> ELSE IF Seen(i) THEN f[i - 1] ELSE Append(f[i - 1], entries[i])]
  BY <1>4, <1>10
<1> HIDE DEF Solves
<1>12. f[n] = g[n]
  <2>1. \A i \in 0 .. n : f[i] = IF i = 0 THEN <<>> ELSE IF Seen(i) THEN f[i - 1] ELSE Append(f[i - 1], entries[i])
    BY <1>11
  <2>2. f[0] = g[0]
    BY <1>1, <1>7, <2>1
  <2>3. \A i \in 1 .. n : f[i - 1] = g[i - 1] => f[i] = g[i]
    <3>1. \A i \in 1 .. n : i \in 0 .. n /\ i # 0
      BY <1>1
    <3> QED
      BY <1>8, <2>1, <3>1
  <2> HIDE DEF n
  <2> QED
    BY <1>1, <2>2, <2>3, SameCourse
<1>13. \A i \in 1 .. n : g[i] = IF \E j \in 1 .. i - 1 : Key[entries[j]] = Key[entries[i]] THEN g[i - 1]
                                ELSE Append(g[i - 1], entries[i])
  BY <1>8 DEF Seen
<1> QED
  BY <1>2, <1>7, <1>12, <1>13 DEF FirstsBy

LEMMA FirstOfEachIs ==
  ASSUME NEW X, NEW entries \in Seq(X), NEW Key
  PROVE  LET r == FirstOfEach(entries, Key)
         IN  r \in Seq(X) /\ \A i, j \in 1 .. Len(r) : Key[r[i]] = Key[r[j]] => i = j
<1> DEFINE n == Len(entries)
<1>1. n \in Nat /\ \A i \in 1 .. n : entries[i] \in X
  OBVIOUS
<1>2. PICK g : FirstsBy(g, X, entries, Key)
  BY FirstOfEachSteps
<1>3. /\ g \in [0 .. n -> Seq(X)] /\ g[0] = <<>> /\ FirstOfEach(entries, Key) = g[n]
      /\ \A i \in 1 .. n : g[i] = IF \E j \in 1 .. i - 1 : Key[entries[j]] = Key[entries[i]] THEN g[i - 1]
                                  ELSE Append(g[i - 1], entries[i])
  BY <1>2 DEF FirstsBy
<1> DEFINE good == {i \in 0 .. n :
                      /\ \A a \in 1 .. Len(g[i]) : \E k \in 1 .. i : g[i][a] = entries[k]
                      /\ \A a, b \in 1 .. Len(g[i]) : Key[g[i][a]] = Key[g[i][b]] => a = b}
<1> HIDE DEF n
<1>4. 0 \in good
  BY <1>1, <1>3
<1>5. ASSUME NEW i \in 1 .. n, i - 1 \in good PROVE i \in good
  <2>1. i \in 0 .. n /\ g[i - 1] \in Seq(X) /\ entries[i] \in X
    BY <1>1, <1>3
  <2> DEFINE s == g[i - 1]
             x == entries[i]
  <2>2. /\ \A a \in 1 .. Len(s) : \E k \in 1 .. i - 1 : s[a] = entries[k]
        /\ \A a, b \in 1 .. Len(s) : Key[s[a]] = Key[s[b]] => a = b
    BY <1>5
  <2>3. \A k \in 1 .. i - 1 : k \in 1 .. i
    BY <1>1
  <2>4. CASE \E j \in 1 .. i - 1 : Key[entries[j]] = Key[entries[i]]
    <3>1. g[i] = s
      BY <1>3, <2>4
    <3> HIDE DEF s
    <3> QED
      BY <2>1, <2>2, <2>3, <3>1
  <2>5. CASE ~ \E j \in 1 .. i - 1 : Key[entries[j]] = Key[entries[i]]
    <3>1. g[i] = Append(s, x)
      BY <1>3, <2>5
    <3>2. s \in Seq(X) /\ x \in X
      BY <2>1
    <3> DEFINE z == Len(s) + 1
    <3> HIDE DEF s
    <3>3. /\ Len(s) \in Nat /\ Len(g[i]) = z /\ g[i][z] = x
          /\ \A a \in 1 .. Len(s) : g[i][a] = s[a]
      BY <3>1, <3>2
    <3>4. \A a : a \in 1 .. z <=> a \in 1 .. Len(s) \/ a = z
      BY <3>3
    <3> HIDE DEF z
    <3>5. \A a \in 1 .. Len(s) : Key[s[a]] # Key[x]
      BY <2>2, <2>5
    <3>6. \A a \in 1 .. Len(g[i]) : \E k \in 1 .. i : g[i][a] = entries[k]
      <4>1. i \in 1 .. i
        BY <1>1
      <4> QED
        BY <2>2, <2>3, <3>3, <3>4, <4>1
    <3>7. \A a, b \in 1 .. Len(g[i]) : Key[g[i][a]] = Key[g[i][b]] => a = b
      <4>1. \A a, b \in 1 .. Len(s) : Key[s[a]] = Key[s[b]] => a = b
        BY <2>2
      <4> HIDE DEF x
      <4> SUFFICES ASSUME NEW a \in 1 .. Len(g[i]), NEW b \in 1 .. Len(g[i]),
                          Key[g[i][a]] = Key[g[i][b]]
                   PROVE  a = b
        OBVIOUS
      <4>2. a \in 1 .. z /\ b \in 1 .. z
        BY <3>3
      <4>3. CASE a \in 1 .. Len(s) /\ b \in 1 .. Len(s)
        <5>1. g[i][a] = s[a] /\ g[i][b] = s[b]
          BY <3>3, <4>3
        <5> QED
          BY <4>1, <4>3, <5>1
      <4>4. CASE a = z /\ b # z
        <5>1. b \in 1 .. Len(s)
          BY <3>4, <4>2, <4>4
        <5>2. g[i][a] = x /\ g[i][b] = s[b]
          BY <3>3, <4>4, <5>1
        <5> QED
          BY <3>5, <5>1, <5>2
      <4>5. CASE a # z /\ b = z
        <5>1. a \in 1 .. Len(s)
          BY <3>4, <4>2, <4>5
        <5>2. g[i][b] = x /\ g[i][a] = s[a]
          BY <3>3, <4>5, <5>1
        <5> QED
          BY <3>5, <5>1, <5>2
      <4> QED
        BY <3>4, <4>2, <4>3, <4>4, <4>5
    <3> QED
      BY <2>1, <3>6, <3>7
  <2> QED
    BY <2>4, <2>5
<1>6. n \in good
  <2> HIDE DEF good
  <2>1. 0 .. n \subseteq good
    BY <1>1, <1>4, <1>5, UpTo
  <2> QED
    BY <1>1, <2>1
<1>7. g[n] \in Seq(X)
  BY <1>1, <1>3
<1> QED
  BY <1>3, <1>6, <1>7

\* What is kept, and where.
LEMMA KeptPlaces ==
  ASSUME NEW X, NEW list \in Seq(X), NEW S
  PROVE  LET r == Kept(list, S)
         IN  /\ \A i \in 1 .. Len(list) : list[i] \in S => \E j \in 1 .. i : j \in 1 .. Len(r) /\ r[j] = list[i]
             /\ (\A i, j \in 1 .. Len(list) : list[i].hwid = list[j].hwid => i = j) =>
                  \A i, j \in 1 .. Len(r) : r[i].hwid = r[j].hwid => i = j
<1> DEFINE n == Len(list)
           Single(s) == \A a, b \in 1 .. Len(s) : s[a].hwid = s[b].hwid => a = b
<1>1. n \in Nat /\ \A i \in 1 .. n : list[i] \in X
  OBVIOUS
<1>2. PICK g \in [0 .. n -> Seq(X)] :
        /\ g[0] = <<>>
        /\ \A i \in 1 .. n : g[i] = IF list[i] \in S THEN Append(g[i - 1], list[i]) ELSE g[i - 1]
        /\ Kept(list, S) = g[n]
  <2>1. \E g : KeptBy(g, X, list, S)
    BY KeptIs
  <2> QED
    BY <2>1 DEF KeptBy
<1> DEFINE good == {i \in 0 .. n :
                      /\ Len(g[i]) <= i
                      /\ \A a \in 1 .. Len(g[i]) : \E k \in 1 .. i : g[i][a] = list[k]
                      /\ Single(list) => Single(g[i])
                      /\ \A k \in 1 .. i : list[k] \in S => \E a \in 1 .. k : a \in 1 .. Len(g[i]) /\ g[i][a] = list[k]}
<1>3. 0 \in good
  <2>1. Len(g[0]) = 0
    BY <1>2
  <2> QED
    BY <1>1, <2>1
<1>4. ASSUME NEW i \in 1 .. n, i - 1 \in good PROVE i \in good
  <2>1. i \in 0 .. n /\ g[i - 1] \in Seq(X) /\ list[i] \in X
    BY <1>1
  <2> DEFINE s == g[i - 1]
             x == list[i]
  <2>2. /\ Len(s) <= i - 1
        /\ \A a \in 1 .. Len(s) : \E k \in 1 .. i - 1 : s[a] = list[k]
        /\ Single(list) => Single(s)
        /\ \A k \in 1 .. i - 1 : list[k] \in S => \E a \in 1 .. k : a \in 1 .. Len(s) /\ s[a] = list[k]
    BY <1>4
  <2> HIDE DEF n
  <2>3. \A k : k \in 1 .. i <=> k \in 1 .. i - 1 \/ k = i
    BY <1>1
  <2>4. CASE x \notin S
    <3>1. g[i] = s
      BY <1>2, <2>4
    <3>2. Len(s) <= i
      <4>1. Len(s) \in Nat
        BY <2>1
      <4> QED
        BY <1>1, <2>2, <4>1
    <3> HIDE DEF s, Single
    <3>3. \A k \in 1 .. i : list[k] \in S => k \in 1 .. i - 1
      BY <2>3, <2>4
    <3> QED
      BY <2>1, <2>2, <2>3, <3>1, <3>2, <3>3
  <2>5. CASE x \in S
    <3>1. g[i] = Append(s, x)
      BY <1>2, <2>5
    <3>2. s \in Seq(X) /\ x \in X
      BY <2>1
    <3> DEFINE z == Len(s) + 1
    <3> HIDE DEF s
    <3>3. /\ Len(s) \in Nat /\ Len(g[i]) = z /\ g[i][z] = x
          /\ \A a \in 1 .. Len(s) : g[i][a] = s[a]
      BY <3>1, <3>2
    <3>4. \A a : a \in 1 .. z <=> a \in 1 .. Len(s) \/ a = z
      BY <3>3
    <3>5. z <= i /\ z \in 1 .. i /\ z \in 1 .. z
      BY <1>1, <2>2, <3>3
    <3> HIDE DEF z
    <3>6. Single(list) => Single(g[i])
      <4> SUFFICES ASSUME Single(list) PROVE Single(g[i])
        OBVIOUS
      <4>1. \A a \in 1 .. Len(s) : s[a].hwid # x.hwid
        <5> SUFFICES ASSUME NEW a \in 1 .. Len(s) PROVE s[a].hwid # x.hwid
          OBVIOUS
        <5>1. PICK k \in 1 .. i - 1 : s[a] = list[k]
          BY <2>2
        <5>2. k \in 1 .. n /\ k # i
          BY <1>1
        <5> QED
          BY <5>1, <5>2 DEF n
      <4>2. \A a, b \in 1 .. Len(s) : s[a].hwid = s[b].hwid => a = b
        BY <2>2
      <4> HIDE DEF x
      <4> QED
        BY <3>3, <3>4, <4>1, <4>2
    <3> HIDE DEF Single
    <3>7. \A a \in 1 .. Len(g[i]) : \E k \in 1 .. i : g[i][a] = list[k]
      BY <2>2, <2>3, <3>3, <3>4
    <3>8. \A k \in 1 .. i : list[k] \in S => \E a \in 1 .. k : a \in 1 .. Len(g[i]) /\ g[i][a] = list[k]
      <4> SUFFICES ASSUME NEW k \in 1 .. i, list[k] \in S
                   PROVE  \E a \in 1 .. k : a \in 1 .. Len(g[i]) /\ g[i][a] = list[k]
        OBVIOUS
      <4>1. CASE k = i
        BY <3>3, <3>5, <4>1
      <4>2. CASE k \in 1 .. i - 1
        <5>1. PICK a \in 1 .. k : a \in 1 .. Len(s) /\ s[a] = list[k]
          BY <2>2, <4>2
        <5> QED
          BY <3>3, <3>4, <5>1
      <4> QED
        BY <2>3, <4>1, <4>2
    <3> QED
      BY <2>1, <3>3, <3>5, <3>6, <3>7, <3>8
  <2> QED
    BY <2>4, <2>5
<1> HIDE DEF n
<1>5. n \in good
  <2> HIDE DEF good
  <2>1. 0 .. n \subseteq good
    BY <1>1, <1>3, <1>4, UpTo
  <2> QED
    BY <1>1, <2>1
<1> QED
  BY <1>2, <1>5 DEF n

LEMMA WithoutIs ==
  ASSUME NEW X, NEW entries \in Seq(X), NEW name
  PROVE  LET r == WithoutEntriesOf(entries, name)
         IN  /\ r \in Seq(X)
             /\ \A i \in 1 .. Len(r) : r[i].service # name
             /\ \A i \in 1 .. Len(entries) : entries[i].service # name =>
                  \E j \in 1 .. i : j \in 1 .. Len(r) /\ r[j] = entries[i]
             /\ (\A i, j \in 1 .. Len(entries) : entries[i].hwid = entries[j].hwid => i = j) =>
                  \A i, j \in 1 .. Len(r) : r[i].hwid = r[j].hwid => i = j
<1> DEFINE n == Len(entries)
           S == {e \in X : e.service # name}
           Solves(f) == f = [i \in 0 .. n |->
                          IF i = 0 THEN <<>>
                          ELSE IF entries[i].service = name THEN f[i - 1] ELSE Append(f[i - 1], entries[i])]
           f == CHOOSE h : Solves(h)
<1>1. n \in Nat /\ \A i \in 1 .. n : entries[i] \in X
  OBVIOUS
<1>2. WithoutEntriesOf(entries, name) = f[n]
  BY DEF WithoutEntriesOf
<1>3. PICK g \in [0 .. n -> Seq(X)] :
        /\ g[0] = <<>>
        /\ \A i \in 1 .. n : g[i] = IF entries[i] \in S THEN Append(g[i - 1], entries[i]) ELSE g[i - 1]
        /\ Kept(entries, S) = g[n]
  <2> HIDE DEF S
  <2>1. \E g : KeptBy(g, X, entries, S)
    BY KeptIs
  <2> QED
    BY <2>1 DEF KeptBy
<1>4. \A i \in 1 .. n : entries[i] \in S <=> entries[i].service # name
  BY <1>1
<1> HIDE DEF S
<1>5. ASSUME NEW i \in 1 .. n
      PROVE  g[i] = IF entries[i].service = name THEN g[i - 1] ELSE Append(g[i - 1], entries[i])
  BY <1>3, <1>4
<1>6. Solves(g)
  <2>1. ASSUME NEW i \in 0 .. n
        PROVE  g[i] = IF i = 0 THEN <<>>
                      ELSE IF entries[i].service = name THEN g[i - 1] ELSE Append(g[i - 1], entries[i])
    <3>1. i # 0 => i \in 1 .. n
      BY <1>1
    <3> QED
      BY <1>3, <1>5, <3>1
  <2>2. g = [i \in 0 .. n |-> g[i]]
    OBVIOUS
  <2> QED
    BY <2>1, <2>2
<1>7. Solves(f)
  <2> HIDE DEF Solves
  <2> QED
    BY <1>6
<1> HIDE DEF f
<1>8. f[n] = g[n]
  <2>1. \A i \in 0 .. n : f[i] = IF i = 0 THEN <<>>
                                 ELSE IF entries[i].service = name THEN f[i - 1]
                                 ELSE Append(f[i - 1], entries[i])
    BY <1>7
  <2>2. f[0] = g[0]
    BY <1>1, <1>3, <2>1
  <2>3. \A i \in 1 .. n : f[i - 1] = g[i - 1] => f[i] = g[i]
    <3>1. \A i \in 1 .. n : i \in 0 .. n /\ i # 0
      BY <1>1
    <3> QED
      BY <1>5, <2>1, <3>1
  <2> HIDE DEF n
  <2> QED
    BY <1>1, <2>2, <2>3, SameCourse
<1> DEFINE r == Kept(entries, S)
<1>9. WithoutEntriesOf(entries, name) = r
  BY <1>2, <1>3, <1>8
<1>10. r \in Seq(X) /\ ToSet(r) = ToSet(entries) \cap S
  BY KeptFacts
<1>11. \A i \in 1 .. Len(r) : r[i].service # name
  <2>1. \A i \in 1 .. Len(r) : r[i] \in S
    <3>1. DOMAIN r = 1 .. Len(r)
      BY <1>10
    <3> QED
      BY <1>10, <3>1 DEF ToSet
  <2> QED
    BY <2>1 DEF S
<1>12. /\ \A i \in 1 .. n : entries[i] \in S => \E j \in 1 .. i : j \in 1 .. Len(r) /\ r[j] = entries[i]
       /\ (\A i, j \in 1 .. Len(entries) : entries[i].hwid = entries[j].hwid => i = j) =>
            \A i, j \in 1 .. Len(r) : r[i].hwid = r[j].hwid => i = j
  BY KeptPlaces
<1> HIDE DEF r
<1> QED
  BY <1>4, <1>9, <1>10, <1>11, <1>12

\* Lists put one after the other.
LEMMA FlattenIs ==
  ASSUME NEW X, NEW lists \in Seq(Seq(X))
  PROVE  FlattenSeq(lists) \in Seq(X)
<1> DEFINE n == Len(lists)
           Solves(f) == f = [i \in 1 .. n |-> IF i = 1 THEN lists[i] ELSE f[i - 1] \o lists[i]]
           f == CHOOSE h : Solves(h)
<1>1. n \in Nat /\ \A i \in 1 .. n : lists[i] \in Seq(X)
  OBVIOUS
<1>2. CASE n = 0
  BY <1>2 DEF FlattenSeq
<1>3. CASE n # 0
  <2>1. FlattenSeq(lists) = f[n]
    BY <1>3 DEF FlattenSeq
  <2> DEFINE step == [i \in 1 .. n |-> [s \in Seq(X) |-> s \o lists[i]]]
  <2>2. step \in [1 .. n -> [Seq(X) -> Seq(X)]]
    BY <1>1
  <2>3. \A i \in 1 .. n : \A s \in Seq(X) : step[i][s] = s \o lists[i]
    OBVIOUS
  <2> HIDE DEF step
  <2>4. PICK g \in [0 .. n -> Seq(X)] : g[0] = <<>> /\ \A i \in 1 .. n : g[i] = step[i][g[i - 1]]
    <3>1. <<>> \in Seq(X)
      OBVIOUS
    <3> HIDE DEF n
    <3>2. \E g : Recurses(g, n, Seq(X), <<>>, step)
      BY <1>1, <2>2, <3>1, Recursion
    <3> QED
      BY <3>2 DEF Recurses
  <2>5. ASSUME NEW i \in 1 .. n PROVE g[i] = IF i = 1 THEN lists[i] ELSE g[i - 1] \o lists[i]
    <3>1. i - 1 \in 0 .. n
      BY <1>1
    <3>2. g[i - 1] \in Seq(X)
      BY <3>1
    <3>3. g[i] = g[i - 1] \o lists[i]
      BY <2>3, <2>4, <3>2
    <3>4. i = 1 => g[i - 1] = <<>>
      BY <2>4
    <3>5. <<>> \o lists[i] = lists[i]
      BY <1>1
    <3> QED
      BY <3>3, <3>4, <3>5
  <2> DEFINE h == [i \in 1 .. n |-> g[i]]
  <2>6. Solves(h)
    <3>1. \A i \in 1 .. n : h[i] = g[i] /\ (i # 1 => h[i - 1] = g[i - 1])
      BY <1>1
    <3>2. h = [i \in 1 .. n |-> h[i]]
      OBVIOUS
    <3> HIDE DEF h
    <3>3. \A i \in 1 .. n : h[i] = IF i = 1 THEN lists[i] ELSE h[i - 1] \o lists[i]
      BY <2>5, <3>1
    <3> QED
      BY <3>2, <3>3
  <2>7. Solves(f)
    <3> HIDE DEF Solves, h
    <3> QED
      BY <2>6
  <2> HIDE DEF f
  <2>8. \A i \in 1 .. n : f[i] = IF i = 1 THEN lists[i] ELSE f[i - 1] \o lists[i]
    BY <2>7
  <2> DEFINE good == {i \in 0 .. n : i # 0 => f[i] \in Seq(X)}
  <2>9. 0 \in good
    BY <1>1
  <2>10. ASSUME NEW i \in 1 .. n, i - 1 \in good PROVE i \in good
    <3>1. i \in 0 .. n /\ (i # 1 => f[i - 1] \in Seq(X))
      BY <1>1, <2>10
    <3>2. i # 1 => f[i - 1] \o lists[i] \in Seq(X)
      BY <1>1, <3>1
    <3> QED
      BY <1>1, <2>8, <3>1, <3>2
  <2>11. n \in good
    <3> HIDE DEF good, n
    <3>1. 0 .. n \subseteq good
      BY <1>1, <2>9, <2>10, UpTo
    <3> QED
      BY <1>1, <3>1
  <2> QED
    BY <1>3, <2>1, <2>11
<1> QED
  BY <1>2, <1>3

\* An entry of the critical device database.
IsEntry(e) == e = [hwid |-> e.hwid, class |-> e.class, service |-> e.service]

AreEntries(entries) ==
  /\ entries \in Seq(ToSet(entries))
  /\ \A i \in 1 .. Len(entries) : IsEntry(entries[i])
  /\ \A i, j \in 1 .. Len(entries) : entries[i].hwid = entries[j].hwid => i = j

LEMMA ServicesIs ==
  ASSUME NEW p \in Packages
  PROVE  LET list == PackageServices(p)
         IN  /\ Len(list) \in Nat /\ DOMAIN list = 1 .. Len(list)
             /\ \A i \in 1 .. Len(list) :
                  list[i].service.name \in Names \ {None} /\ list[i].service.start \in Starts
             /\ \A i, j \in 1 .. Len(list) :
                  Fold[list[i].service.name] = Fold[list[j].service.name] => i = j
<1> DEFINE sections == p.sections
           n == Len(sections)
           Good == {d \in UNION {ToSet(section.services) : section \in ToSet(sections)} :
                      d.name \in Names \ {None} /\ d.start \in Starts}
           X == {[section |-> i, service |-> d] : i \in 1 .. n, d \in Good}
           per == [i \in 1 .. n |-> [j \in 1 .. Len(sections[i].services) |->
                     [section |-> i, service |-> sections[i].services[j]]]]
<1>1. /\ sections \in Seq(ToSet(sections))
      /\ \A section \in ToSet(sections) :
           /\ section.services \in Seq(ToSet(section.services))
           /\ \A d \in ToSet(section.services) : d.name \in Names \ {None} /\ d.start \in Starts
  BY RegistryAssumption DEF RegistryAssumption
<1>2. n \in Nat /\ \A i \in 1 .. n : sections[i] \in ToSet(sections)
  <2> DEFINE T == ToSet(sections)
  <2>1. sections \in Seq(T)
    BY <1>1
  <2> HIDE DEF T, sections
  <2> QED
    BY <2>1 DEF T
<1> HIDE DEF sections
<1>3. per \in Seq(Seq(X))
  <2>1. ASSUME NEW i \in 1 .. n
        PROVE  [j \in 1 .. Len(sections[i].services) |->
                  [section |-> i, service |-> sections[i].services[j]]] \in Seq(X)
    <3> DEFINE l == sections[i].services
               T == ToSet(l)
    <3>1. l \in Seq(T) /\ T \subseteq Good
      BY <1>1, <1>2
    <3> HIDE DEF l, T, Good
    <3>2. Len(l) \in Nat /\ \A j \in 1 .. Len(l) : l[j] \in Good
      BY <3>1
    <3>3. \A j \in 1 .. Len(l) : [section |-> i, service |-> l[j]] \in X
      BY <3>2
    <3> HIDE DEF X
    <3>4. [j \in 1 .. Len(l) |-> [section |-> i, service |-> l[j]]] \in Seq(X)
      BY <3>2, <3>3
    <3> QED
      BY <3>4 DEF l
  <2> HIDE DEF X
  <2> DEFINE Y == Seq(X)
  <2>2. \A i \in 1 .. n : per[i] \in Y
    BY <2>1
  <2>3. DOMAIN per = 1 .. n /\ per = [i \in 1 .. n |-> per[i]]
    OBVIOUS
  <2> HIDE DEF Y, per, n
  <2>4. per \in Seq(Y)
    BY <1>2, <2>2, <2>3
  <2> QED
    BY <2>4 DEF Y
<1>4. \A x \in X : x.service.name \in Names \ {None} /\ x.service.start \in Starts
  OBVIOUS
<1>5. Directives(p) = FlattenSeq(per)
  BY DEF Directives, sections
<1> HIDE DEF X, per
<1> DEFINE l == Directives(p)
           T == ToSet(l)
           Key == [d \in T |-> Fold[d.service.name]]
           r == PackageServices(p)
<1>6. l \in Seq(X)
  BY <1>3, <1>5, FlattenIs
<1>7. l \in Seq(T)
  BY <1>6, InSeqOfItself
<1>8. r = FirstOfEach(l, Key)
  BY DEF PackageServices
<1> HIDE DEF l, T, r, Key
<1>9. r \in Seq(X) /\ r \in Seq(T) /\ \A i, j \in 1 .. Len(r) : Key[r[i]] = Key[r[j]] => i = j
  BY <1>6, <1>7, <1>8, FirstOfEachIs
<1>10. Len(r) \in Nat /\ DOMAIN r = 1 .. Len(r) /\ \A i \in 1 .. Len(r) : r[i] \in X /\ r[i] \in T
  BY <1>9
<1>11. \A i \in 1 .. Len(r) : Key[r[i]] = Fold[r[i].service.name]
  BY <1>10 DEF Key
<1> QED
  BY <1>4, <1>9, <1>10, <1>11 DEF r

LEMMA DevicesIs ==
  ASSUME NEW p \in Packages
  PROVE  AreEntries(PackageDevices(p))
<1> DEFINE sections == p.sections
           n == Len(sections)
           IDs == UNION {ToSet(section.hardwareIDs) : section \in ToSet(sections)}
           Entry(h, i) == [hwid |-> h, class |-> p.class, service |-> AssociatedService(p, i)]
           X == {Entry(h, i) : h \in IDs, i \in 1 .. n}
           per == [i \in 1 .. n |-> [j \in 1 .. Len(sections[i].hardwareIDs) |->
                     Entry(sections[i].hardwareIDs[j], i)]]
<1>1. /\ sections \in Seq(ToSet(sections))
      /\ \A section \in ToSet(sections) : section.hardwareIDs \in Seq(ToSet(section.hardwareIDs))
  BY RegistryAssumption DEF RegistryAssumption
<1>2. n \in Nat /\ \A i \in 1 .. n : sections[i] \in ToSet(sections)
  <2> DEFINE T == ToSet(sections)
  <2>1. sections \in Seq(T)
    BY <1>1
  <2> HIDE DEF T, sections
  <2> QED
    BY <2>1 DEF T
<1> DEFINE l == FlattenSeq(per)
           T == ToSet(l)
           Key == [d \in T |-> d.hwid]
           r == PackageDevices(p)
<1>3. r = FirstOfEach(l, Key)
  BY DEF PackageDevices
<1> HIDE DEF sections
<1>4. \A x \in X : IsEntry(x)
  BY DEF IsEntry
<1> HIDE DEF Entry
<1>5. per \in Seq(Seq(X))
  <2>1. ASSUME NEW i \in 1 .. n
        PROVE  [j \in 1 .. Len(sections[i].hardwareIDs) |-> Entry(sections[i].hardwareIDs[j], i)] \in Seq(X)
    <3> DEFINE h == sections[i].hardwareIDs
               H == ToSet(h)
    <3>1. h \in Seq(H) /\ H \subseteq IDs
      BY <1>1, <1>2
    <3> HIDE DEF h, H, IDs
    <3>2. Len(h) \in Nat /\ \A j \in 1 .. Len(h) : h[j] \in IDs
      BY <3>1
    <3>3. \A j \in 1 .. Len(h) : Entry(h[j], i) \in X
      BY <3>2
    <3> HIDE DEF X
    <3>4. [j \in 1 .. Len(h) |-> Entry(h[j], i)] \in Seq(X)
      BY <3>2, <3>3
    <3> QED
      BY <3>4 DEF h
  <2> HIDE DEF X
  <2> DEFINE Y == Seq(X)
  <2>2. \A i \in 1 .. n : per[i] \in Y
    BY <2>1
  <2>3. DOMAIN per = 1 .. n /\ per = [i \in 1 .. n |-> per[i]]
    OBVIOUS
  <2> HIDE DEF Y, per, n
  <2>4. per \in Seq(Y)
    BY <1>2, <2>2, <2>3
  <2> QED
    BY <2>4 DEF Y
<1> HIDE DEF X, per
<1>6. l \in Seq(X)
  BY <1>5, FlattenIs
<1>7. l \in Seq(T)
  <2> HIDE DEF l
  <2> QED
    BY <1>6, InSeqOfItself
<1> HIDE DEF l, T, r, Key
<1>8. r \in Seq(X) /\ r \in Seq(T) /\ \A i, j \in 1 .. Len(r) : Key[r[i]] = Key[r[j]] => i = j
  BY <1>3, <1>6, <1>7, FirstOfEachIs
<1>9. \A i \in 1 .. Len(r) : r[i] \in X /\ r[i] \in T
  BY <1>8
<1>10. \A i \in 1 .. Len(r) : Key[r[i]] = r[i].hwid
  BY <1>9 DEF Key
<1>11. r \in Seq(ToSet(r))
  BY <1>8, InSeqOfItself
<1> QED
  BY <1>4, <1>8, <1>9, <1>10, <1>11 DEF AreEntries, r

\* Merging entries: what is given is there, what is not named stays, and where it is
\* all there already nothing changes.
Over(new, old) == IF new = None THEN old ELSE new

Entered(entries, e) ==
  \E i \in 1 .. Len(entries) :
    /\ entries[i].hwid = e.hwid
    /\ e.class # None => entries[i].class = e.class
    /\ e.service # None => entries[i].service = e.service

Blend(e, old) ==
  [hwid |-> old.hwid, class |-> Over(e.class, old.class), service |-> Over(e.service, old.service)]

LEMMA MergeEntryDoes ==
  ASSUME NEW X, NEW entries \in Seq(X), \A x \in X : IsEntry(x), NEW e
  PROVE  /\ (\A i \in 1 .. Len(entries) : entries[i].hwid # e.hwid) =>
              MergeEntry(entries, e) = Append(entries, e)
         /\ (\E i \in 1 .. Len(entries) : entries[i].hwid = e.hwid) =>
              \E k \in 1 .. Len(entries) :
                entries[k].hwid = e.hwid /\ MergeEntry(entries, e) = [entries EXCEPT ![k] = Blend(e, entries[k])]
<1> DEFINE at == {i \in 1 .. Len(entries) : entries[i].hwid = e.hwid}
           k == CHOOSE i \in at : TRUE
<1>1. MergeEntry(entries, e) =
        IF at = {} THEN Append(entries, e)
        ELSE [entries EXCEPT ![k].class = Over(e.class, @), ![k].service = Over(e.service, @)]
  BY DEF MergeEntry, Over
<1>2. at # {} => k \in 1 .. Len(entries) /\ entries[k].hwid = e.hwid
  OBVIOUS
<1>3. ASSUME at # {} PROVE MergeEntry(entries, e) = [entries EXCEPT ![k] = Blend(e, entries[k])]
  <2> DEFINE old == entries[k]
             c == Over(e.class, old.class)
             s == Over(e.service, old.service)
  <2>1. k \in DOMAIN entries /\ old = [hwid |-> old.hwid, class |-> old.class, service |-> old.service]
    <3>1. k \in 1 .. Len(entries)
      BY <1>2, <1>3
    <3> HIDE DEF k
    <3>2. old \in X /\ k \in DOMAIN entries
      BY <3>1
    <3> QED
      BY <3>2 DEF IsEntry
  <2> HIDE DEF k
  <2> DEFINE mid == [entries EXCEPT ![k] = [@ EXCEPT !.class = c]]
  <2>2. MergeEntry(entries, e) = [mid EXCEPT ![k].service = Over(e.service, @)]
    BY <1>1, <1>3
  <2>3. mid[k] = [hwid |-> old.hwid, class |-> c, service |-> old.service]
    <3>1. \A h, x, y, z : [[hwid |-> h, class |-> x, service |-> y] EXCEPT !.class = z] =
                          [hwid |-> h, class |-> z, service |-> y]
      OBVIOUS
    <3> HIDE DEF c
    <3>2. [old EXCEPT !.class = c] = [hwid |-> old.hwid, class |-> c, service |-> old.service]
      BY <2>1, <3>1
    <3>3. mid[k] = [old EXCEPT !.class = c]
      BY <2>1
    <3> HIDE DEF mid, old
    <3> QED
      BY <3>2, <3>3
  <2> HIDE DEF c, s
  <2>4. \A h, x, y, z : [[hwid |-> h, class |-> x, service |-> y] EXCEPT !.service = z] =
                        [hwid |-> h, class |-> x, service |-> z]
    OBVIOUS
  <2>5. mid = [j \in DOMAIN entries |-> IF j = k THEN [old EXCEPT !.class = c] ELSE entries[j]]
    OBVIOUS
  <2>6. [mid[k] EXCEPT !.service = s] = Blend(e, old) /\ mid[k].service = old.service
    BY <2>3, <2>4 DEF Blend, c, s
  <2>7. [mid EXCEPT ![k].service = Over(e.service, @)] =
          [j \in DOMAIN entries |-> IF j = k THEN Blend(e, old) ELSE entries[j]]
    <3>1. DOMAIN mid = DOMAIN entries /\ \A j \in DOMAIN entries : j # k => mid[j] = entries[j]
      BY <2>5
    <3> HIDE DEF mid
    <3>2. [mid EXCEPT ![k].service = Over(e.service, @)] =
            [j \in DOMAIN mid |-> IF j = k THEN [mid[k] EXCEPT !.service = Over(e.service, mid[k].service)]
                                  ELSE mid[j]]
      OBVIOUS
    <3>3. [mid[k] EXCEPT !.service = Over(e.service, mid[k].service)] = Blend(e, old)
      BY <2>6 DEF s
    <3> QED
      BY <3>1, <3>2, <3>3
  <2>8. [entries EXCEPT ![k] = Blend(e, old)] =
          [j \in DOMAIN entries |-> IF j = k THEN Blend(e, old) ELSE entries[j]]
    OBVIOUS
  <2> QED
    BY <2>2, <2>7, <2>8
<1> HIDE DEF k
<1> QED
  BY <1>1, <1>2, <1>3

LEMMA MergeEntryIs ==
  ASSUME NEW entries, AreEntries(entries), NEW e, IsEntry(e)
  PROVE  LET r == MergeEntry(entries, e)
         IN  /\ AreEntries(r)
             /\ Entered(r, e)
             /\ \A d : d.hwid # e.hwid /\ Entered(entries, d) => Entered(r, d)
             /\ Entered(entries, e) => r = entries
<1> DEFINE X == ToSet(entries)
           n == Len(entries)
           r == MergeEntry(entries, e)
<1>1. entries \in Seq(X) /\ \A x \in X : IsEntry(x)
  <2>1. entries \in Seq(X)
    BY DEF AreEntries
  <2>2. DOMAIN entries = 1 .. n
    <3> HIDE DEF X
    <3> QED
      BY <2>1
  <2> QED
    BY <2>1, <2>2 DEF AreEntries, ToSet
<1> HIDE DEF X
<1>2. n \in Nat /\ \A i \in 1 .. n : entries[i] \in X /\ IsEntry(entries[i])
  BY <1>1
<1>3. \A i, j \in 1 .. n : entries[i].hwid = entries[j].hwid => i = j
  BY DEF AreEntries
<1>4. CASE \A i \in 1 .. n : entries[i].hwid # e.hwid
  <2> DEFINE z == n + 1
  <2>1. r = Append(entries, e)
    BY <1>1, <1>4, MergeEntryDoes
  <2> HIDE DEF r
  <2>2. /\ r \in Seq(X \cup {e}) /\ Len(r) = z /\ r[z] = e
        /\ \A i \in 1 .. n : r[i] = entries[i]
    BY <1>1, <2>1
  <2>3. \A i : i \in 1 .. z <=> i \in 1 .. n \/ i = z
    BY <1>2
  <2> HIDE DEF z, n
  <2>4. AreEntries(r)
    <3>1. r \in Seq(ToSet(r))
      BY <2>2, InSeqOfItself
    <3>2. \A i \in 1 .. z : IsEntry(r[i])
      BY <1>2, <2>2, <2>3
    <3>3. \A i, j \in 1 .. z : r[i].hwid = r[j].hwid => i = j
      BY <1>3, <1>4, <2>2, <2>3
    <3> QED
      BY <2>2, <3>1, <3>2, <3>3 DEF AreEntries
  <2>5. Entered(r, e)
    BY <2>2, <2>3 DEF Entered
  <2>6. \A d : Entered(entries, d) => Entered(r, d)
    BY <2>2, <2>3 DEF Entered, n
  <2>7. ~Entered(entries, e)
    BY <1>4 DEF Entered, n
  <2> QED
    BY <2>4, <2>5, <2>6, <2>7 DEF r
<1>5. CASE \E i \in 1 .. n : entries[i].hwid = e.hwid
  <2>1. PICK k \in 1 .. n : entries[k].hwid = e.hwid /\ r = [entries EXCEPT ![k] = Blend(e, entries[k])]
    BY <1>1, <1>5, MergeEntryDoes
  <2> DEFINE b == Blend(e, entries[k])
  <2>2. IsEntry(b) /\ b.hwid = e.hwid /\ b.class = Over(e.class, entries[k].class)
        /\ b.service = Over(e.service, entries[k].service)
    BY <2>1 DEF Blend, IsEntry
  <2> HIDE DEF b, r
  <2>3. /\ r \in Seq(X \cup {b}) /\ Len(r) = n /\ r[k] = b
        /\ \A i \in 1 .. n : i # k => r[i] = entries[i]
    BY <1>1, <2>1 DEF b
  <2>4. \A i \in 1 .. n : r[i].hwid = entries[i].hwid
    BY <2>1, <2>2, <2>3
  <2>5. AreEntries(r)
    <3>1. r \in Seq(ToSet(r))
      BY <2>3, InSeqOfItself
    <3>2. \A i \in 1 .. n : IsEntry(r[i])
      BY <1>2, <2>2, <2>3
    <3>3. \A i, j \in 1 .. n : r[i].hwid = r[j].hwid => i = j
      BY <1>3, <2>4
    <3> QED
      BY <2>3, <3>1, <3>2, <3>3 DEF AreEntries
  <2>6. Entered(r, e)
    BY <2>2, <2>3 DEF Entered, Over
  <2>7. ASSUME NEW d, d.hwid # e.hwid, Entered(entries, d) PROVE Entered(r, d)
    <3>1. PICK i \in 1 .. n : /\ entries[i].hwid = d.hwid
                              /\ d.class # None => entries[i].class = d.class
                              /\ d.service # None => entries[i].service = d.service
      BY <2>7 DEF Entered
    <3>2. r[i] = entries[i]
      BY <2>1, <2>3, <2>7, <3>1
    <3> HIDE DEF n
    <3> QED
      BY <2>3, <3>1, <3>2 DEF Entered
  <2>8. ASSUME Entered(entries, e) PROVE r = entries
    <3>1. PICK i \in 1 .. n : /\ entries[i].hwid = e.hwid
                              /\ e.class # None => entries[i].class = e.class
                              /\ e.service # None => entries[i].service = e.service
      BY <2>8 DEF Entered
    <3>2. i = k
      BY <1>3, <2>1, <3>1
    <3>3. Over(e.class, entries[k].class) = entries[k].class /\ Over(e.service, entries[k].service) = entries[k].service
      BY <3>1, <3>2 DEF Over
    <3>4. b = entries[k]
      BY <1>2, <3>3 DEF b, Blend, IsEntry
    <3>5. \A j \in 1 .. n : r[j] = entries[j]
      BY <2>3, <3>4
    <3> QED
      BY <1>1, <2>3, <3>5
  <2> QED
    BY <2>5, <2>6, <2>7, <2>8 DEF r
<1> QED
  BY <1>4, <1>5

LEMMA MergedIs ==
  ASSUME NEW entries, AreEntries(entries), NEW list, AreEntries(list)
  PROVE  LET r == Merged(entries, list)
         IN  /\ AreEntries(r)
             /\ \A i \in 1 .. Len(list) : Entered(r, list[i])
             /\ (\A i \in 1 .. Len(list) : Entered(entries, list[i])) => r = entries
<1> DEFINE n == Len(list)
           All == ToSet(entries) \cup ToSet(list)
           R == [hwid : {a.hwid : a \in All}, class : {a.class : a \in All}, service : {a.service : a \in All}]
           Q == Seq(R)
           step == [i \in 1 .. n |-> [s \in Q |-> MergeEntry(s, list[i])]]
           Solves(f) == f = [i \in 0 .. n |-> IF i = 0 THEN entries ELSE MergeEntry(f[i - 1], list[i])]
           f == CHOOSE h : Solves(h)
<1>1. Merged(entries, list) = f[n]
  BY DEF Merged
<1>2. \A l, X : l \in Seq(X) /\ l \in Seq(ToSet(l)) =>
        Len(l) \in Nat /\ DOMAIN l = 1 .. Len(l)
  OBVIOUS
<1>3. n \in Nat /\ DOMAIN list = 1 .. n
  BY <1>2 DEF AreEntries
<1>4. DOMAIN entries = 1 .. Len(entries)
  BY <1>2 DEF AreEntries
<1>5. /\ \A i \in 1 .. n : list[i] \in All /\ IsEntry(list[i])
      /\ \A i \in 1 .. Len(entries) : entries[i] \in All /\ IsEntry(entries[i])
  <2>1. \A i \in 1 .. n : list[i] \in All
    BY <1>3 DEF ToSet
  <2>2. \A i \in 1 .. Len(entries) : entries[i] \in All
    BY <1>4 DEF ToSet
  <2> QED
    BY <2>1, <2>2 DEF AreEntries
<1>6. \A x \in All : IsEntry(x)
  BY <1>3, <1>4, <1>5 DEF ToSet
<1>7. All \subseteq R
  <2>1. \A x \in All : x = [hwid |-> x.hwid, class |-> x.class, service |-> x.service]
    BY <1>6 DEF IsEntry
  <2> HIDE DEF All
  <2> QED
    BY <2>1
<1>8. \A x \in R : IsEntry(x)
  BY DEF IsEntry
<1>9. ASSUME NEW x \in R, NEW y \in R PROVE Blend(x, y) \in R
  BY DEF Blend, Over
<1>10. entries \in Q
  <2>1. entries \in Seq(ToSet(entries)) /\ ToSet(entries) \subseteq R
    BY <1>7 DEF AreEntries
  <2> DEFINE T == ToSet(entries)
  <2> HIDE DEF T, R
  <2>2. entries \in Seq(T) /\ T \subseteq R
    BY <2>1 DEF T
  <2> QED
    BY <2>2
<1> HIDE DEF All, R
<1>11. ASSUME NEW s \in Q, NEW e \in R PROVE MergeEntry(s, e) \in Q
  <2>1. CASE \A i \in 1 .. Len(s) : s[i].hwid # e.hwid
    <3>1. MergeEntry(s, e) = Append(s, e)
      BY <1>8, <2>1, MergeEntryDoes
    <3> QED
      BY <3>1
  <2>2. CASE \E i \in 1 .. Len(s) : s[i].hwid = e.hwid
    <3>1. PICK k \in 1 .. Len(s) : MergeEntry(s, e) = [s EXCEPT ![k] = Blend(e, s[k])]
      BY <1>8, <2>2, MergeEntryDoes
    <3> DEFINE b == Blend(e, s[k])
    <3>2. s[k] \in R
      OBVIOUS
    <3>3. b \in R
      BY <1>9, <3>2
    <3> HIDE DEF b
    <3>4. [s EXCEPT ![k] = b] \in Seq(R)
      BY <3>3
    <3> QED
      BY <3>1, <3>4 DEF b
  <2> QED
    BY <2>1, <2>2
<1> HIDE DEF Q
<1>12. step \in [1 .. n -> [Q -> Q]]
  BY <1>5, <1>7, <1>11
<1>13. \A i \in 1 .. n : \A s \in Q : step[i][s] = MergeEntry(s, list[i])
  OBVIOUS
<1> HIDE DEF step
<1>14. PICK g \in [0 .. n -> Q] : g[0] = entries /\ \A i \in 1 .. n : g[i] = step[i][g[i - 1]]
  <2> HIDE DEF n
  <2>1. \E g : Recurses(g, n, Q, entries, step)
    BY <1>3, <1>10, <1>12, Recursion
  <2> QED
    BY <2>1 DEF Recurses
<1>15. ASSUME NEW i \in 1 .. n PROVE g[i] = MergeEntry(g[i - 1], list[i])
  <2>1. i - 1 \in 0 .. n
    BY <1>3
  <2> QED
    BY <1>13, <1>14, <2>1
<1>16. Solves(g)
  <2>1. ASSUME NEW i \in 0 .. n PROVE g[i] = IF i = 0 THEN entries ELSE MergeEntry(g[i - 1], list[i])
    <3>1. i # 0 => i \in 1 .. n
      BY <1>3
    <3> QED
      BY <1>14, <1>15, <3>1
  <2>2. g = [i \in 0 .. n |-> g[i]]
    OBVIOUS
  <2> QED
    BY <2>1, <2>2
<1>17. Solves(f)
  <2> HIDE DEF Solves
  <2> QED
    BY <1>16
<1> HIDE DEF f
<1>18. /\ f[0] = entries
       /\ \A i \in 1 .. n : f[i] = MergeEntry(f[i - 1], list[i])
  <2>1. \A i \in 0 .. n : f[i] = IF i = 0 THEN entries ELSE MergeEntry(f[i - 1], list[i])
    BY <1>17
  <2>2. 0 \in 0 .. n /\ \A i \in 1 .. n : i \in 0 .. n /\ i # 0
    BY <1>3
  <2> QED
    BY <2>1, <2>2
<1> HIDE DEF Solves
<1> DEFINE good == {i \in 0 .. n :
                      /\ AreEntries(f[i])
                      /\ \A j \in 1 .. i : Entered(f[i], list[j])
                      /\ (\A j \in 1 .. n : Entered(entries, list[j])) => f[i] = entries}
<1>19. 0 \in good
  BY <1>3, <1>18
<1>20. ASSUME NEW i \in 1 .. n, i - 1 \in good PROVE i \in good
  <2> DEFINE s == f[i - 1]
             e == list[i]
  <2>1. /\ AreEntries(s) /\ IsEntry(e)
        /\ \A j \in 1 .. i - 1 : Entered(s, list[j])
        /\ (\A j \in 1 .. n : Entered(entries, list[j])) => s = entries
    BY <1>5, <1>20
  <2>2. f[i] = MergeEntry(s, e)
    BY <1>18
  <2>3. i \in 0 .. n /\ \A j : j \in 1 .. i <=> j \in 1 .. i - 1 \/ j = i
    BY <1>3
  <2>4. \A j \in 1 .. i - 1 : list[j].hwid # e.hwid
    <3>1. \A j \in 1 .. i - 1 : j \in 1 .. n /\ j # i
      BY <1>3
    <3> QED
      BY <3>1 DEF AreEntries
  <2> HIDE DEF s, e
  <2>5. /\ AreEntries(f[i]) /\ Entered(f[i], e)
        /\ \A d : d.hwid # e.hwid /\ Entered(s, d) => Entered(f[i], d)
        /\ Entered(s, e) => f[i] = s
    BY <2>1, <2>2, MergeEntryIs
  <2>6. \A j \in 1 .. i : Entered(f[i], list[j])
    BY <2>1, <2>3, <2>4, <2>5 DEF e
  <2>7. (\A j \in 1 .. n : Entered(entries, list[j])) => f[i] = entries
    BY <2>1, <2>5 DEF e
  <2> QED
    BY <2>3, <2>5, <2>6, <2>7
<1>21. n \in good
  <2> HIDE DEF good, n
  <2>1. 0 .. n \subseteq good
    BY <1>3, <1>19, <1>20, UpTo
  <2> QED
    BY <1>3, <2>1
<1> QED
  BY <1>1, <1>21

-----------------------------------------------------------------------------
(* ServiceRegistry.  A service is stored when its key has values that writing *)
(* it again would not change: then it reads back as it was given, and a        *)
(* second InstallRegistry of the package finds nothing to do.                 *)

Stored(keys, d) ==
  /\ Fold[d.name] \in KeyNames(keys)
  /\ WriteServiceValues(Vals(keys, Fold[d.name]), ToService(d)) = Vals(keys, Fold[d.name])

StoredUpTo(keys, p, n) == \A i \in 1 .. n : Stored(keys, PackageServices(p)[i].service)

HasAll(entries, p) == \A i \in 1 .. Len(PackageDevices(p)) : Entered(entries, PackageDevices(p)[i])

RegisteredFully(p) == StoredUpTo(services, p, Len(PackageServices(p))) /\ HasAll(devices, p)

RegistryType == AreKeys(services) /\ AreEntries(devices) /\ calls \in Nat

RegistryInv ==
  /\ RegistryType
  /\ call # Idle =>
       /\ call.pkg \in Packages
       /\ call = [pkg |-> call.pkg, dirs |-> call.dirs, at |-> call.at]
       /\ call.at \in 1 .. Len(Todo) + 1
       /\ StoredUpTo(services, call.pkg, call.at - 1)
  /\ last.op = "registry" /\ last.ok =>
       /\ last.arg \in Packages
       /\ call = Idle \/ call.pkg = last.arg => RegisteredFully(last.arg)

LEMMA ServiceShape ==
  ASSUME NEW d, d.start \in Starts
  PROVE  LET s == ToService(d)
         IN  /\ s.name = d.name /\ s.start \in Starts
             /\ s = Service(s.name, s.start, s.image, s.group, s.deps)
  BY DEF ToService, Service

LEMMA StoredReads ==
  ASSUME NEW keys, AreKeys(keys), NEW d, d.name \in Names \ {None}, d.start \in Starts, Stored(keys, d)
  PROVE  Readable(keys, d.name) /\ ReadService(keys, d.name) = ToService(d)
<1> DEFINE s == ToService(d)
           f == Fold[d.name]
           v == Vals(keys, f)
<1>1. s.name = d.name /\ s.start \in Starts /\ s = Service(s.name, s.start, s.image, s.group, s.deps)
  BY ServiceShape
<1>2. f \in KeyNames(keys) /\ WriteServiceValues(v, s) = v
  BY DEF Stored
<1> HIDE DEF s, v
<1>3. Complete(v) /\ \A n : ReadFrom(n, v) = Service(n, s.start, s.image, s.group, s.deps)
  BY <1>1, <1>2, WriteIs
<1> QED
  BY <1>1, <1>2, <1>3, ReadIs DEF s, v

LEMMA InstallStores ==
  ASSUME NEW keys, AreKeys(keys), NEW d, d.name \in Names, d.start \in Starts
  PROVE  LET new == Installed(keys, ToService(d))
         IN  /\ AreKeys(new) /\ Stored(new, d)
             /\ \A e : Fold[e.name] # Fold[d.name] /\ Stored(keys, e) => Stored(new, e)
             /\ Stored(keys, d) => new = keys
<1> DEFINE s == ToService(d)
           f == Fold[d.name]
           new == Installed(keys, s)
<1>1. s.name = d.name /\ s.start \in Starts
  BY ServiceShape
<1> HIDE DEF s, new
<1>2. /\ AreKeys(new) /\ KeyNames(new) = KeyNames(keys) \cup {f}
      /\ Vals(new, f) = WriteServiceValues(Vals(keys, f), s)
      /\ \A g : g # f => Vals(new, g) = Vals(keys, g)
      /\ f \in KeyNames(keys) /\ WriteServiceValues(Vals(keys, f), s) = Vals(keys, f) => new = keys
  BY <1>1, InstalledIs DEF new
<1>3. \A v : WriteServiceValues(WriteServiceValues(v, s), s) = WriteServiceValues(v, s)
  BY <1>1, WriteIs
<1>4. Stored(new, d)
  BY <1>2, <1>3 DEF Stored, s
<1>5. \A e : Fold[e.name] # f /\ Stored(keys, e) => Stored(new, e)
  BY <1>2 DEF Stored
<1>6. Stored(keys, d) => new = keys
  BY <1>2 DEF Stored, s
<1> QED
  BY <1>2, <1>4, <1>5, <1>6 DEF new, s

LEMMA RegistryBegins == Init => RegistryInv
<1> SUFFICES ASSUME Init PROVE RegistryInv
  OBVIOUS
<1>1. /\ services \in Existing /\ devices = <<>> /\ call = Idle /\ last.op = "none" /\ calls = 0
  BY DEF Init, NoCall
<1>2. AreKeys(services)
  <2> DEFINE T == ToSet(services)
  <2>1. services \in Seq(T) /\ KeysSound(services) /\ \A k \in T : IsKey(k)
    BY <1>1, RegistryAssumption DEF RegistryAssumption
  <2> HIDE DEF T
  <2>2. \A i \in 1 .. Len(services) : services[i] \in T
    BY <2>1
  <2> QED
    BY <2>1, <2>2 DEF AreKeys, T
<1>3. AreEntries(devices)
  BY <1>1 DEF AreEntries
<1> QED
  BY <1>1, <1>2, <1>3 DEF RegistryInv, RegistryType

\* The calls of package service and Uninstall, which find no InstallRegistry under way
\* and leave a result that is not its.
Other == call = Idle /\ call' = Idle /\ calls' = calls + 1 /\ last'.op # "registry"

LEMMA InstallType ==
  ASSUME RegistryType, NEW s \in Requests, Install(s)
  PROVE  Other /\ RegistryType'
<1>1. s.name \in Names /\ s.start \in Starts
  BY RegistryAssumption DEF RegistryAssumption
<1>2. Other /\ devices' = devices
  BY DEF Install, Calling, Return, Other
<1>3. AreKeys(services')
  <2>1. services' = services \/ services' = Installed(services, s)
    BY DEF Install
  <2> QED
    BY <1>1, <2>1, InstalledIs DEF RegistryType
<1> QED
  BY <1>2, <1>3 DEF RegistryType, Other

LEMMA ModifyType ==
  ASSUME RegistryType, NEW s \in Requests, Modify(s)
  PROVE  Other /\ RegistryType'
<1>1. s.name \in Names /\ s.start \in Starts
  BY RegistryAssumption DEF RegistryAssumption
<1>2. Other /\ devices' = devices
  BY DEF Modify, Calling, Return, Other
<1>3. AreKeys(services')
  <2>1. services' = services \/ (Find(services, s.name) # 0 /\ services' = Modified(services, s))
    BY DEF Modify
  <2>2. CASE Find(services, s.name) # 0 /\ services' = Modified(services, s)
    <3>1. Fold[s.name] \in KeyNames(services)
      BY <2>2, FindIs DEF RegistryType
    <3> QED
      BY <1>1, <2>2, <3>1, ModifiedIs DEF RegistryType
  <2> QED
    BY <2>1, <2>2 DEF RegistryType
<1> QED
  BY <1>2, <1>3 DEF RegistryType, Other

LEMMA StartType ==
  ASSUME RegistryType, NEW name \in Names, NEW start \in Starts, SetStartType(name, start)
  PROVE  Other /\ RegistryType'
<1> DEFINE s == WithStart(services, name, start)
<1>1. Other /\ devices' = devices
  BY DEF SetStartType, Calling, Return, Other
<1>2. services' = services \/ (Readable(services, name) /\ services' = Modified(services, s))
  BY DEF SetStartType, WithStart
<1>3. ASSUME Readable(services, name), services' = Modified(services, s) PROVE AreKeys(services')
  <2>0. AreKeys(services) /\ Readable(services, name)
    BY <1>3 DEF RegistryType
  <2>1. s.name = name /\ s.start = start /\ Fold[name] \in KeyNames(services)
    BY <2>0, StartReads
  <2> HIDE DEF s
  <2> QED
    BY <1>3, <2>1, ModifiedIs DEF RegistryType
<1> HIDE DEF s
<1> QED
  BY <1>1, <1>2, <1>3 DEF RegistryType, Other

LEMMA EnableType ==
  ASSUME RegistryType, NEW name \in Names, NEW start \in Starts, Enable(name, start)
  PROVE  Other /\ RegistryType'
<1>1. CASE start = StartDisabled
  BY <1>1 DEF Enable, Calling, Return, Other, RegistryType
<1>2. CASE start # StartDisabled
  <2>1. SetStartType(name, start)
    BY <1>2 DEF Enable
  <2> QED
    BY <2>1, StartType
<1> QED
  BY <1>1, <1>2

LEMMA DeleteType ==
  ASSUME RegistryType, NEW name \in Names, Delete(name)
  PROVE  Other /\ RegistryType'
<1>1. Other /\ devices' = devices
  BY DEF Delete, Calling, Return, Other
<1>2. services' = services \/ services' = Removed(services, name)
  BY DEF Delete
<1>3. AreKeys(services')
  BY <1>2, RemovedIs DEF RegistryType
<1> QED
  BY <1>1, <1>3 DEF RegistryType, Other

LEMMA UninstallType ==
  ASSUME RegistryType, NEW name \in Names, Uninstall(name)
  PROVE  Other /\ RegistryType'
<1>1. Other
  BY DEF Uninstall, Calling, Return, Other
<1>2. \/ services' = services /\ devices' = devices
      \/ services' = Removed(services, name) /\ devices' = WithoutEntriesOf(devices, name)
  BY DEF Uninstall
<1>3. AreKeys(services')
  BY <1>2, RemovedIs DEF RegistryType
<1>4. AreEntries(WithoutEntriesOf(devices, name))
  <2> DEFINE X == ToSet(devices)
             r == WithoutEntriesOf(devices, name)
  <2>1. /\ devices \in Seq(X) /\ \A i \in 1 .. Len(devices) : IsEntry(devices[i])
        /\ \A i, j \in 1 .. Len(devices) : devices[i].hwid = devices[j].hwid => i = j
    BY DEF RegistryType, AreEntries
  <2>2. DOMAIN devices = 1 .. Len(devices)
    <3> HIDE DEF X
    <3> QED
      BY <2>1
  <2>3. \A x \in X : IsEntry(x)
    BY <2>1, <2>2 DEF ToSet
  <2> HIDE DEF X
  <2>4. r \in Seq(X) /\ \A i, j \in 1 .. Len(r) : r[i].hwid = r[j].hwid => i = j
    BY <2>1, WithoutIs
  <2> HIDE DEF r
  <2>5. r \in Seq(ToSet(r)) /\ \A i \in 1 .. Len(r) : r[i] \in X
    BY <2>4, InSeqOfItself
  <2> QED
    BY <2>3, <2>4, <2>5 DEF AreEntries, r
<1>5. AreEntries(devices')
  BY <1>2, <1>4 DEF RegistryType
<1> QED
  BY <1>1, <1>3, <1>5 DEF RegistryType, Other

LEMMA OtherStep ==
  ASSUME RegistryInv, Other, RegistryType'
  PROVE  RegistryInv'
  BY DEF RegistryInv, Other

LEMMA BeginStep ==
  ASSUME RegistryInv, NEW p \in Packages, NEW dirs \in SUBSET DirIDs, Begin(p, dirs)
  PROVE  RegistryInv'
<1>1. /\ call = Idle /\ calls' = calls + 1 /\ services' = services /\ devices' = devices
      /\ \/ call' = [pkg |-> p, dirs |-> dirs, at |-> 1] /\ last' = last
         \/ call' = call /\ last' = [op |-> "registry", arg |-> p, ok |-> FALSE]
  BY DEF Begin, Calling, Return
<1>2. RegistryType'
  BY <1>1 DEF RegistryInv, RegistryType
<1>3. CASE call' = [pkg |-> p, dirs |-> dirs, at |-> 1] /\ last' = last
  <2>1. Len(PackageServices(p)) \in Nat
    BY ServicesIs
  <2>2. /\ call'.pkg = p /\ call'.at = 1 /\ call' = [pkg |-> call'.pkg, dirs |-> call'.dirs, at |-> call'.at]
        /\ call'.at \in 1 .. Len(Todo') + 1
    BY <1>3, <2>1 DEF Todo
  <2>3. StoredUpTo(services, call.pkg, call.at - 1)'
    BY <2>2 DEF StoredUpTo
  <2>4. last.op = "registry" /\ last.ok => last.arg \in Packages /\ RegisteredFully(last.arg)
    BY <1>1 DEF RegistryInv
  <2>5. last'.op = "registry" /\ last'.ok => last'.arg \in Packages /\ RegisteredFully(last.arg)'
    BY <1>1, <1>3, <2>4 DEF RegisteredFully
  <2> QED
    BY <1>2, <2>2, <2>3, <2>5 DEF RegistryInv
<1>4. CASE call' = call /\ last' = [op |-> "registry", arg |-> p, ok |-> FALSE]
  BY <1>1, <1>2, <1>4 DEF RegistryInv
<1> QED
  BY <1>1, <1>3, <1>4

\* What one service of the call does to the keys.
LEMMA MergeServiceDoes ==
  ASSUME RegistryInv, MergeService
  PROVE  LET d == Todo[call.at].service
         IN  /\ AreKeys(services') /\ Stored(services', d)
             /\ \A e : Fold[e.name] # Fold[d.name] /\ Stored(services, e) => Stored(services', e)
             /\ Stored(services, d) => services' = services
<1> DEFINE d == Todo[call.at].service
<1>1. services' = Installed(services, ToService(d)) /\ call # Idle /\ call.at <= Len(Todo)
  BY DEF MergeService, Merging
<1>2. d.name \in Names /\ d.start \in Starts
  <2>1. call.pkg \in Packages /\ call.at \in 1 .. Len(Todo) + 1
    BY <1>1 DEF RegistryInv
  <2>2. Len(Todo) \in Nat
    BY <2>1, ServicesIs DEF Todo
  <2>3. call.at \in 1 .. Len(Todo)
    BY <1>1, <2>1, <2>2
  <2> QED
    BY <2>1, <2>3, ServicesIs DEF Todo
<1>3. AreKeys(services)
  BY DEF RegistryInv, RegistryType
<1> HIDE DEF d
<1> QED
  BY <1>1, <1>2, <1>3, InstallStores DEF d

LEMMA MergeServiceStep ==
  ASSUME RegistryInv, MergeService
  PROVE  RegistryInv'
<1> DEFINE p == call.pkg
           n == call.at
           list == PackageServices(p)
           d == list[n].service
<1>1. /\ call # Idle /\ n <= Len(list) /\ call' = [call EXCEPT !.at = @ + 1]
      /\ devices' = devices /\ last' = last /\ calls' = calls
  BY DEF MergeService, Merging, Todo
<1>2. /\ p \in Packages /\ call = [pkg |-> p, dirs |-> call.dirs, at |-> n]
      /\ n \in 1 .. Len(list) + 1 /\ StoredUpTo(services, p, n - 1)
  BY <1>1 DEF RegistryInv, Todo
<1>3. /\ Len(list) \in Nat
      /\ \A i, j \in 1 .. Len(list) : Fold[list[i].service.name] = Fold[list[j].service.name] => i = j
  BY <1>2, ServicesIs
<1>4. n \in 1 .. Len(list) /\ n + 1 \in 1 .. Len(list) + 1
  BY <1>1, <1>2, <1>3
<1>5. call' = [pkg |-> p, dirs |-> call.dirs, at |-> n + 1]
  <2> DEFINE c == call.dirs
  <2>1. call = [pkg |-> p, dirs |-> c, at |-> n] /\ call' = [call EXCEPT !.at = n + 1]
    BY <1>1, <1>2
  <2> HIDE DEF p, n, c
  <2>2. \A x : [[pkg |-> p, dirs |-> c, at |-> n] EXCEPT !.at = x] = [pkg |-> p, dirs |-> c, at |-> x]
    OBVIOUS
  <2> QED
    BY <2>1, <2>2 DEF c
<1>6. call'.pkg = p /\ call'.at = n + 1 /\ call'.dirs = call.dirs
  BY <1>5
<1>7. /\ AreKeys(services') /\ Stored(services', d)
      /\ \A e : Fold[e.name] # Fold[d.name] /\ Stored(services, e) => Stored(services', e)
      /\ Stored(services, d) => services' = services
  BY MergeServiceDoes DEF Todo
<1>8. StoredUpTo(services', p, n)
  <2>1. ASSUME NEW i \in 1 .. n PROVE Stored(services', list[i].service)
    <3>1. CASE i = n
      BY <1>7, <3>1
    <3>2. CASE i # n
      <4>1. i \in 1 .. n - 1 /\ i \in 1 .. Len(list)
        BY <1>3, <1>4, <3>2
      <4>2. Stored(services, list[i].service)
        BY <1>2, <4>1 DEF StoredUpTo
      <4>3. Fold[list[i].service.name] # Fold[d.name]
        BY <1>3, <1>4, <3>2, <4>1
      <4> QED
        BY <1>7, <4>2, <4>3
    <3> QED
      BY <3>1, <3>2
  <2> QED
    BY <2>1 DEF StoredUpTo
<1>9. RegistryType'
  BY <1>1, <1>7 DEF RegistryInv, RegistryType
<1>10. ASSUME last'.op = "registry", last'.ok
       PROVE  last'.arg \in Packages /\ (p = last'.arg => RegisteredFully(last.arg)')
  <2>1. last.arg \in Packages /\ (p = last.arg => RegisteredFully(last.arg))
    BY <1>1, <1>10 DEF RegistryInv
  <2>2. ASSUME p = last.arg PROVE RegisteredFully(last.arg)'
    <3>1. RegisteredFully(last.arg)
      BY <2>1, <2>2
    <3>2. Stored(services, d)
      BY <1>4, <2>2, <3>1 DEF RegisteredFully, StoredUpTo
    <3> QED
      BY <1>1, <1>7, <3>1, <3>2 DEF RegisteredFully
  <2> QED
    BY <1>1, <2>1, <2>2
<1>11. call' # Idle
  BY <1>4, <1>6 DEF Idle
<1>12. call'.at - 1 = n
  BY <1>4, <1>6
<1>13. StoredUpTo(services, call.pkg, call.at - 1)'
  BY <1>6, <1>8, <1>12
<1>14. call'.at \in 1 .. Len(Todo') + 1
  BY <1>4, <1>6 DEF Todo
<1>15. call' = [pkg |-> call'.pkg, dirs |-> call'.dirs, at |-> call'.at]
  BY <1>5
<1> QED
  BY <1>2, <1>6, <1>9, <1>10, <1>11, <1>13, <1>14, <1>15 DEF RegistryInv

LEMMA MergeFailsStep ==
  ASSUME RegistryInv, MergeFails
  PROVE  RegistryInv'
  BY DEF RegistryInv, RegistryType, MergeFails, Return

LEMMA MergeDevicesDoes ==
  ASSUME RegistryInv, MergeDevices
  PROVE  /\ AreEntries(devices') /\ HasAll(devices', call.pkg)
         /\ HasAll(devices, call.pkg) => devices' = devices
<1> DEFINE list == PackageDevices(call.pkg)
<1>1. devices' = Merged(devices, list) /\ call # Idle
  BY DEF MergeDevices, Devices
<1>2. AreEntries(list)
  BY <1>1, DevicesIs DEF RegistryInv
<1>3. AreEntries(devices)
  BY DEF RegistryInv, RegistryType
<1> HIDE DEF list
<1>4. /\ AreEntries(devices')
      /\ \A i \in 1 .. Len(list) : Entered(devices', list[i])
      /\ (\A i \in 1 .. Len(list) : Entered(devices, list[i])) => devices' = devices
  BY <1>1, <1>2, <1>3, MergedIs
<1> QED
  BY <1>4 DEF HasAll, list

LEMMA MergeDevicesStep ==
  ASSUME RegistryInv, MergeDevices
  PROVE  RegistryInv'
<1> DEFINE p == call.pkg
           n == Len(PackageServices(p))
<1>1. /\ call # Idle /\ call.at > n /\ last' = [op |-> "registry", arg |-> p, ok |-> TRUE]
      /\ call' = Idle /\ services' = services /\ calls' = calls
  BY DEF MergeDevices, Return, Todo
<1>2. p \in Packages /\ call.at \in 1 .. n + 1 /\ StoredUpTo(services, p, call.at - 1)
  BY <1>1 DEF RegistryInv, Todo
<1>3. call.at - 1 = n
  <2>1. n \in Nat
    BY <1>2, ServicesIs
  <2> QED
    BY <1>1, <1>2, <2>1
<1>4. AreEntries(devices') /\ HasAll(devices', p)
  BY MergeDevicesDoes
<1>5. RegistryType'
  BY <1>1, <1>4 DEF RegistryInv, RegistryType
<1>6. last'.arg = p
  BY <1>1
<1>7. RegisteredFully(last.arg)'
  BY <1>1, <1>2, <1>3, <1>4, <1>6 DEF RegisteredFully
<1> QED
  BY <1>1, <1>2, <1>5, <1>6, <1>7 DEF RegistryInv

LEMMA RegistryStep == RegistryInv /\ Next => RegistryInv'
<1> SUFFICES ASSUME RegistryInv, Next PROVE RegistryInv'
  OBVIOUS
<1>1. RegistryType
  BY DEF RegistryInv
<1>2. ASSUME NEW s \in Requests, Install(s) \/ Modify(s) PROVE RegistryInv'
  BY <1>1, <1>2, InstallType, ModifyType, OtherStep
<1>3. ASSUME NEW name \in Names, NEW start \in Starts, Enable(name, start) \/ SetStartType(name, start)
      PROVE  RegistryInv'
  BY <1>1, <1>3, EnableType, StartType, OtherStep
<1>4. ASSUME NEW name \in Names, Delete(name) \/ Uninstall(name) PROVE RegistryInv'
  BY <1>1, <1>4, DeleteType, UninstallType, OtherStep
<1>5. ASSUME NEW p \in Packages, NEW dirs \in SUBSET DirIDs, Begin(p, dirs) PROVE RegistryInv'
  BY <1>5, BeginStep
<1>6. CASE MergeService \/ MergeFails \/ MergeDevices
  BY <1>6, MergeServiceStep, MergeFailsStep, MergeDevicesStep
<1> QED
  BY <1>2, <1>3, <1>4, <1>5, <1>6 DEF Next

THEOREM RegistryInvariant == RegistrySpec => []RegistryInv
<1>1. RegistryInit => RegistryInv
  BY RegistryBegins DEF RegistryInit
<1>2. RegistryInv /\ [RegistryNext]_registryVars => RegistryInv'
  <2> SUFFICES ASSUME RegistryInv, [RegistryNext]_registryVars PROVE RegistryInv'
    OBVIOUS
  <2>1. CASE Next
    BY <2>1, RegistryStep
  <2>2. CASE UNCHANGED vars
    BY <2>2 DEF RegistryInv, RegistryType, RegisteredFully, Todo, vars
  <2> QED
    BY <2>1, <2>2 DEF RegistryNext, registryVars
<1> QED
  BY <1>1, <1>2, PTL DEF RegistrySpec

\* When InstallRegistry succeeds every service of the package reads back as the package
\* describes it and every device has its entry, for any package and any hive to begin
\* with; and no two keys ever have one name, no two entries one device
\* (src/driver/registryinstall.go:122).
THEOREM PackageRegisteredHolds == RegistrySpec => []PackageRegistered
<1>1. RegistryInv => PackageRegistered
  <2> SUFFICES ASSUME RegistryInv PROVE PackageRegistered
    OBVIOUS
  <2>1. AreKeys(services) /\ AreEntries(devices)
    BY DEF RegistryInv, RegistryType
  <2>2. DOMAIN devices = 1 .. Len(devices)
    <3> DEFINE T == ToSet(devices)
    <3>1. devices \in Seq(T)
      BY <2>1 DEF AreEntries
    <3> HIDE DEF T
    <3> QED
      BY <3>1
  <2>3. WellFormed
    <3>1. \A i, j \in DOMAIN devices : devices[i].hwid = devices[j].hwid => i = j
      BY <2>1, <2>2 DEF AreEntries
    <3> QED
      BY <2>1, <3>1 DEF WellFormed, AreKeys, RegistryInv
  <2>4. ASSUME call = Idle, last.op = "registry", last.ok
        PROVE  /\ \A i \in DOMAIN PackageServices(last.arg) :
                    LET d == PackageServices(last.arg)[i].service
                    IN  Readable(services, d.name) /\ ReadService(services, d.name) = ToService(d)
               /\ \A i \in DOMAIN PackageDevices(last.arg) : HasEntry(PackageDevices(last.arg)[i])
    <3> DEFINE p == last.arg
               list == PackageServices(p)
               entries == PackageDevices(p)
    <3>1. p \in Packages /\ RegisteredFully(p)
      BY <2>4 DEF RegistryInv
    <3> HIDE DEF p
    <3>2. /\ Len(list) \in Nat /\ DOMAIN list = 1 .. Len(list)
          /\ \A i \in 1 .. Len(list) : list[i].service.name \in Names \ {None} /\ list[i].service.start \in Starts
      BY <3>1, ServicesIs
    <3>3. ASSUME NEW i \in DOMAIN list
          PROVE  LET d == list[i].service
                 IN  Readable(services, d.name) /\ ReadService(services, d.name) = ToService(d)
      <4> DEFINE d == list[i].service
      <4>1. d.name \in Names \ {None} /\ d.start \in Starts /\ Stored(services, d)
        BY <3>1, <3>2 DEF RegisteredFully, StoredUpTo
      <4> HIDE DEF d
      <4> QED
        BY <2>1, <4>1, StoredReads DEF d
    <3>4. DOMAIN entries = 1 .. Len(entries)
      <4> DEFINE T == ToSet(entries)
      <4>1. entries \in Seq(T)
        BY <3>1, DevicesIs DEF AreEntries
      <4> HIDE DEF T, entries
      <4> QED
        BY <4>1
    <3>5. \A i \in DOMAIN entries : HasEntry(entries[i])
      <4>1. \A i \in DOMAIN entries : Entered(devices, entries[i])
        BY <3>1, <3>4 DEF RegisteredFully, HasAll
      <4>2. \A e : Entered(devices, e) => HasEntry(e)
        BY <2>2 DEF Entered, HasEntry
      <4> QED
        BY <4>1, <4>2
    <3> QED
      BY <3>3, <3>5 DEF p
  <2> QED
    BY <2>3, <2>4 DEF PackageRegistered
<1> QED
  BY <1>1, RegistryInvariant, PTL

\* A second InstallRegistry of a package that was registered changes nothing, for any
\* package and whatever the hive held before (src/driver/registryinstall.go:136).
THEOREM RepeatHolds == RegistrySpec => RepeatChangesNothing
<1> DEFINE Again == call # Idle /\ last = [op |-> "registry", arg |-> call.pkg, ok |-> TRUE] =>
                      UNCHANGED <<services, devices>>
<1>1. RegistryInv /\ [RegistryNext]_registryVars => [Again]_vars
  <2> SUFFICES ASSUME RegistryInv, [RegistryNext]_registryVars,
                      call # Idle, last = [op |-> "registry", arg |-> call.pkg, ok |-> TRUE]
               PROVE  UNCHANGED <<services, devices>>
    OBVIOUS
  <2>1. last.op = "registry" /\ last.ok /\ last.arg = call.pkg
    OBVIOUS
  <2>2. RegisteredFully(call.pkg) /\ call.pkg \in Packages /\ call.at \in 1 .. Len(Todo) + 1
    BY <2>1 DEF RegistryInv
  <2>3. CASE MergeService
    <3>1. call.at <= Len(Todo) /\ devices' = devices
      BY <2>3 DEF MergeService, Merging
    <3>2. Len(Todo) \in Nat
      BY <2>2, ServicesIs DEF Todo
    <3>3. call.at \in 1 .. Len(Todo)
      BY <2>2, <3>1, <3>2
    <3>4. Stored(services, Todo[call.at].service)
      BY <2>2, <3>3 DEF RegisteredFully, StoredUpTo, Todo
    <3> QED
      BY <2>3, <3>1, <3>4, MergeServiceDoes
  <2>4. CASE MergeDevices
    <3>1. services' = services
      BY <2>4 DEF MergeDevices
    <3> QED
      BY <2>2, <2>4, <3>1, MergeDevicesDoes DEF RegisteredFully
  <2>5. CASE MergeFails
    BY <2>5 DEF MergeFails
  <2>6. CASE UNCHANGED vars
    BY <2>6 DEF vars
  <2>7. CASE Calling
    BY <2>7 DEF Calling
  <2>8. Next => Calling \/ MergeService \/ MergeFails \/ MergeDevices
    BY DEF Next, Install, Modify, Enable, SetStartType, Delete, Uninstall, Begin
  <2> QED
    BY <2>3, <2>4, <2>5, <2>6, <2>7, <2>8 DEF RegistryNext, registryVars
<1> QED
  BY <1>1, RegistryInvariant, PTL DEF RegistrySpec, RepeatChangesNothing, Again

-----------------------------------------------------------------------------
(* What each call of package service, and Uninstall, does.                   *)

\* The services read as before but for the one named, whose values hold nothing else.
Reads(old, new, result) ==
  Registered(new) = result /\ \A f \in KeyNames(old) \cap KeyNames(new) : Foreign(new, f) = Foreign(old, f)

LEMMA WriteReads ==
  ASSUME NEW keys, AreKeys(keys), NEW s, s = Service(s.name, s.start, s.image, s.group, s.deps),
         s.name \in Names \ {None}, s.start \in Starts
  PROVE  /\ Reads(keys, Installed(keys, s), Set(Registered(keys), s))
         /\ Fold[s.name] \in KeyNames(keys) => Reads(keys, Modified(keys, s), Set(Registered(keys), s))
<1> DEFINE f == Fold[s.name]
<1>1. f # Fold[None]
  BY RegistryAssumption DEF RegistryAssumption
<1>2. Reads(keys, Installed(keys, s), Set(Registered(keys), s))
  <2> DEFINE new == Installed(keys, s)
  <2>1. /\ AreKeys(new) /\ KeyNames(new) = KeyNames(keys) \cup {f}
        /\ Vals(new, f) = WriteServiceValues(Vals(keys, f), s)
        /\ \A g : g # f => Vals(new, g) = Vals(keys, g)
    BY InstalledIs
  <2> HIDE DEF new
  <2>2. /\ Registered(new) = Set(Registered(keys), s)
        /\ \A g \in KeyNames(keys) : Foreign(new, g) = Foreign(keys, g)
    BY <1>1, <2>1, SetIs
  <2> QED
    BY <2>2 DEF Reads, new
<1>3. ASSUME f \in KeyNames(keys) PROVE Reads(keys, Modified(keys, s), Set(Registered(keys), s))
  <2> DEFINE new == Modified(keys, s)
  <2>1. /\ AreKeys(new) /\ KeyNames(new) = KeyNames(keys)
        /\ Vals(new, f) = WriteServiceValues(Vals(keys, f), s)
        /\ \A g : g # f => Vals(new, g) = Vals(keys, g)
    BY <1>3, ModifiedIs
  <2>2. KeyNames(new) = KeyNames(keys) \cup {f}
    BY <1>3, <2>1
  <2> HIDE DEF new
  <2>3. /\ Registered(new) = Set(Registered(keys), s)
        /\ \A g \in KeyNames(keys) : Foreign(new, g) = Foreign(keys, g)
    BY <1>1, <2>1, <2>2, SetIs
  <2> QED
    BY <2>3 DEF Reads, new
<1> QED
  BY <1>2, <1>3

\* A call that succeeds has its effect, one that fails has none.
Done(old, new, c, gone) ==
  /\ IF c.ok THEN Registered(new) = Effect(c, Registered(old)) ELSE UNCHANGED <<services, devices>>
  /\ c.op = "uninstall" /\ c.ok => gone
  /\ \A f \in KeyNames(old) \cap KeyNames(new) : Foreign(new, f) = Foreign(old, f)

Does == Done(services, services', last', EntriesLeft(last'.arg))

LEMMA NothingDone ==
  ASSUME UNCHANGED <<services, devices>>, last'.ok = FALSE
  PROVE  Does
<1>1. \A f : Foreign(services', f) = Foreign(services, f)
  OBVIOUS
<1> QED
  BY <1>1 DEF Does, Done

LEMMA InstallDoes ==
  ASSUME RegistryType, NEW s \in Requests, Install(s)
  PROVE  Does
<1>1. /\ s = Service(s.name, s.start, s.image, s.group, s.deps) /\ s.name \in Names /\ s.start \in Starts
  BY RegistryAssumption DEF RegistryAssumption
<1>2. /\ services' = IF Valid(s) THEN Installed(services, s) ELSE services
      /\ last' = [op |-> "install", arg |-> s, ok |-> Valid(s)] /\ devices' = devices
  BY DEF Install, Return
<1>3. CASE Valid(s)
  <2>1. s.name \in Names \ {None}
    BY <1>1, <1>3 DEF Valid
  <2>2. Reads(services, services', Set(Registered(services), s))
    BY <1>1, <1>2, <1>3, <2>1, WriteReads DEF RegistryType
  <2>3. last'.op = "install" /\ last'.arg = s /\ last'.ok
    BY <1>2, <1>3
  <2> QED
    BY <2>2, <2>3 DEF Does, Done, Reads, Effect
<1>4. CASE ~Valid(s)
  <2>1. last'.ok = FALSE /\ UNCHANGED <<services, devices>>
    BY <1>2, <1>4 DEF Valid
  <2> QED
    BY <2>1, NothingDone
<1> QED
  BY <1>3, <1>4

LEMMA ModifyDoes ==
  ASSUME RegistryType, NEW s \in Requests, Modify(s)
  PROVE  Does
<1> DEFINE ok == Valid(s) /\ Find(services, s.name) # 0
<1>1. /\ s = Service(s.name, s.start, s.image, s.group, s.deps) /\ s.name \in Names /\ s.start \in Starts
  BY RegistryAssumption DEF RegistryAssumption
<1>2. /\ services' = IF ok THEN Modified(services, s) ELSE services
      /\ last' = [op |-> "modify", arg |-> s, ok |-> ok] /\ devices' = devices
  BY DEF Modify, Return
<1>3. CASE ok
  <2>1. s.name \in Names \ {None} /\ Fold[s.name] \in KeyNames(services)
    BY <1>1, <1>3, FindIs DEF Valid, RegistryType
  <2>2. Reads(services, services', Set(Registered(services), s))
    BY <1>1, <1>2, <1>3, <2>1, WriteReads DEF RegistryType
  <2>3. last'.op = "modify" /\ last'.arg = s /\ last'.ok
    BY <1>2, <1>3
  <2> QED
    BY <2>2, <2>3 DEF Does, Done, Reads, Effect
<1>4. CASE ~ok
  <2>1. last'.ok = FALSE /\ UNCHANGED <<services, devices>>
    BY <1>2, <1>4
  <2> QED
    BY <2>1, NothingDone
<1> QED
  BY <1>3, <1>4

LEMMA StartDoes ==
  ASSUME RegistryType, NEW name \in Names, NEW start \in Starts, SetStartType(name, start)
  PROVE  Does
<1> DEFINE s == WithStart(services, name, start)
           ok == Readable(services, name) /\ Valid(s)
<1>1. /\ services' = IF ok THEN Modified(services, s) ELSE services
      /\ last' = [op |-> "start", arg |-> [name |-> name, start |-> start], ok |-> ok]
      /\ devices' = devices
  BY DEF SetStartType, Return, WithStart
<1>2. CASE ok
  <2>1. AreKeys(services) /\ Readable(services, name)
    BY <1>2 DEF RegistryType
  <2>2. /\ s = Service(s.name, s.start, s.image, s.group, s.deps) /\ s.name = name /\ s.start = start
        /\ Fold[name] \in KeyNames(services)
        /\ Set(Registered(services), s) = StartSet(services, Fold[name], start)
    BY <2>1, StartReads
  <2>3. s.name # None
    BY <1>2 DEF Valid
  <2> HIDE DEF s
  <2>4. Reads(services, services', Set(Registered(services), s))
    BY <1>1, <1>2, <2>1, <2>2, <2>3, WriteReads
  <2>5. last'.op = "start" /\ last'.arg.name = name /\ last'.arg.start = start /\ last'.ok
    BY <1>1, <1>2
  <2>6. Effect(last', Registered(services)) = StartSet(services, Fold[name], start)
    BY <2>5 DEF Effect, StartSet
  <2> QED
    BY <2>2, <2>4, <2>5, <2>6 DEF Does, Done, Reads
<1>3. CASE ~ok
  <2>1. last'.ok = FALSE /\ UNCHANGED <<services, devices>>
    BY <1>1, <1>3
  <2> QED
    BY <2>1, NothingDone
<1> HIDE DEF ok
<1> QED
  BY <1>2, <1>3

LEMMA EnableDoes ==
  ASSUME RegistryType, NEW name \in Names, NEW start \in Starts, Enable(name, start)
  PROVE  Does
<1>1. CASE start = StartDisabled
  <2>1. last'.ok = FALSE /\ UNCHANGED <<services, devices>>
    BY <1>1 DEF Enable, Return
  <2> QED
    BY <2>1, NothingDone
<1>2. CASE start # StartDisabled
  <2>1. SetStartType(name, start)
    BY <1>2 DEF Enable
  <2> QED
    BY <2>1, StartDoes
<1> QED
  BY <1>1, <1>2

LEMMA DeleteDoes ==
  ASSUME RegistryType, NEW name \in Names, Delete(name)
  PROVE  Does
<1> DEFINE ok == name # None /\ Find(services, name) # 0
<1>1. /\ services' = IF ok THEN Removed(services, name) ELSE services
      /\ last' = [op |-> "delete", arg |-> name, ok |-> ok] /\ devices' = devices
  BY DEF Delete, Return
<1>2. CASE ok
  <2>1. /\ Registered(services') = Restrict(Registered(services), DOMAIN Registered(services) \ {Fold[name]})
        /\ \A g \in KeyNames(services') : Foreign(services', g) = Foreign(services, g)
    BY <1>1, <1>2, RemovedReads DEF RegistryType
  <2>2. last'.op = "delete" /\ last'.arg = name /\ last'.ok
    BY <1>1, <1>2
  <2> QED
    BY <2>1, <2>2 DEF Does, Done, Effect
<1>3. CASE ~ok
  <2>1. last'.ok = FALSE /\ UNCHANGED <<services, devices>>
    BY <1>1, <1>3
  <2> QED
    BY <2>1, NothingDone
<1> QED
  BY <1>2, <1>3

LEMMA UninstallDoes ==
  ASSUME RegistryType, NEW name \in Names, Uninstall(name)
  PROVE  Does
<1>1. last' = [op |-> "uninstall", arg |-> name, ok |-> name # None]
  BY DEF Uninstall, Return
<1>2. CASE name # None
  <2>1. services' = Removed(services, name) /\ devices' = WithoutEntriesOf(devices, name)
    BY <1>2 DEF Uninstall
  <2>2. /\ Registered(services') = Restrict(Registered(services), DOMAIN Registered(services) \ {Fold[name]})
        /\ \A g \in KeyNames(services') : Foreign(services', g) = Foreign(services, g)
    BY <2>1, RemovedReads DEF RegistryType
  <2>3. last'.op = "uninstall" /\ last'.arg = name /\ last'.ok
    BY <1>1, <1>2
  <2>4. EntriesLeft(name)
    <3> DEFINE X == ToSet(devices)
    <3>1. devices \in Seq(X)
      BY DEF RegistryType, AreEntries
    <3> HIDE DEF X
    <3>2. /\ devices' \in Seq(X)
          /\ \A i \in 1 .. Len(devices') : devices'[i].service # name
          /\ \A i \in 1 .. Len(devices) : devices[i].service # name =>
               \E j \in 1 .. i : j \in 1 .. Len(devices') /\ devices'[j] = devices[i]
      BY <2>1, <3>1, WithoutIs
    <3>3. DOMAIN devices = 1 .. Len(devices) /\ DOMAIN devices' = 1 .. Len(devices')
      BY <3>1, <3>2
    <3> QED
      BY <3>2, <3>3 DEF EntriesLeft
  <2> QED
    BY <2>2, <2>3, <2>4 DEF Does, Done, Effect
<1>3. CASE name = None
  <2>1. last'.ok = FALSE /\ UNCHANGED <<services, devices>>
    BY <1>1, <1>3 DEF Uninstall
  <2> QED
    BY <2>1, NothingDone
<1> QED
  BY <1>2, <1>3

\* Each call of package service, and Uninstall, does to the services what it says and no
\* more, for any hive and any requests (src/service/modify.go:22).
THEOREM CallsHold == RegistrySpec => CallsDoAsTheySay
<1> DEFINE Saying == calls' > calls /\ call' = Idle =>
                       /\ IF last'.ok THEN Registered(services') = Effect(last', Registered(services))
                                      ELSE UNCHANGED <<services, devices>>
                       /\ last'.op = "uninstall" /\ last'.ok => EntriesLeft(last'.arg)
                       /\ \A f \in KeyNames(services) \cap KeyNames(services') :
                            Foreign(services', f) = Foreign(services, f)
<1>1. RegistryInv /\ [RegistryNext]_registryVars => [Saying]_vars
  <2> SUFFICES ASSUME RegistryInv, [RegistryNext]_registryVars, calls' > calls, call' = Idle
               PROVE  Does
    BY DEF Does, Done
  <2>1. RegistryType /\ calls \in Nat
    BY DEF RegistryInv, RegistryType
  <2>2. ~(calls' = calls)
    BY <2>1
  <2>3. Next
    BY <2>2 DEF RegistryNext, registryVars, vars
  <2>4. ASSUME NEW s \in Requests, Install(s) \/ Modify(s) PROVE Does
    BY <2>1, <2>4, InstallDoes, ModifyDoes
  <2>5. ASSUME NEW name \in Names, NEW start \in Starts, Enable(name, start) \/ SetStartType(name, start)
        PROVE  Does
    BY <2>1, <2>5, EnableDoes, StartDoes
  <2>6. ASSUME NEW name \in Names, Delete(name) \/ Uninstall(name) PROVE Does
    BY <2>1, <2>6, DeleteDoes, UninstallDoes
  <2>7. ASSUME NEW p \in Packages, NEW dirs \in SUBSET DirIDs, Begin(p, dirs) PROVE Does
    <3>1. services' = services /\ devices' = devices /\ last'.ok = FALSE
      BY <2>7 DEF Begin, Idle, Return
    <3> QED
      BY <3>1, NothingDone
  <2>8. CASE MergeService \/ MergeFails \/ MergeDevices
    BY <2>2, <2>8 DEF MergeService, MergeFails, MergeDevices
  <2> QED
    BY <2>3, <2>4, <2>5, <2>6, <2>7, <2>8 DEF Next
<1> QED
  BY <1>1, RegistryInvariant, PTL DEF RegistrySpec, CallsDoAsTheySay, Saying

-----------------------------------------------------------------------------
(* The component store: lists.                                               *)

LEMMA ListIs ==
  ASSUME NEW s, IsList(s)
  PROVE  /\ Len(s) \in Nat /\ DOMAIN s = 1 .. Len(s) /\ s = [i \in 1 .. Len(s) |-> s[i]]
         /\ \A i \in 1 .. Len(s) : s[i] \in ToSet(s)
         /\ \A x \in ToSet(s) : \E i \in 1 .. Len(s) : s[i] = x
<1>1. Len(s) \in Nat /\ DOMAIN s = 1 .. Len(s) /\ s = [i \in 1 .. Len(s) |-> s[i]]
  BY DEF IsList
<1> QED
  BY <1>1 DEF ToSet

LEMMA FunctionIsList ==
  ASSUME NEW n \in Nat, NEW f, f = [i \in 1 .. n |-> f[i]]
  PROVE  IsList(f) /\ Len(f) = n /\ DOMAIN f = 1 .. n
<1>1. DOMAIN f = 1 .. n
  OBVIOUS
<1>2. \A i \in 1 .. n : f[i] \in ToSet(f)
  BY <1>1 DEF ToSet
<1> HIDE DEF ToSet
<1>3. f \in [1 .. n -> ToSet(f)]
  BY <1>1, <1>2
<1>4. f \in Seq(ToSet(f))
  BY <1>3
<1>5. Len(f) = n
  BY <1>1, <1>4
<1> QED
  BY <1>1, <1>4, <1>5 DEF IsList

LEMMA ListOver ==
  ASSUME NEW X, NEW s \in Seq(X)
  PROVE  IsList(s) /\ ToSet(s) \subseteq X
<1>1. s \in Seq(ToSet(s))
  BY InSeqOfItself
<1> QED
  BY <1>1 DEF IsList, ToSet

LEMMA ListWithin ==
  ASSUME NEW s, IsList(s), NEW X, ToSet(s) \subseteq X
  PROVE  s \in Seq(X)
<1>1. /\ Len(s) \in Nat /\ s = [i \in 1 .. Len(s) |-> s[i]]
      /\ \A i \in 1 .. Len(s) : s[i] \in X
  BY ListIs
<1>2. s \in [1 .. Len(s) -> X]
  BY <1>1
<1> QED
  BY <1>1, <1>2

LEMMA TwoLists ==
  ASSUME NEW a, IsList(a), NEW b, IsList(b)
  PROVE  /\ IsList(a \o b) /\ Len(a \o b) = Len(a) + Len(b)
         /\ ToSet(a \o b) = ToSet(a) \cup ToSet(b)
         /\ \A i \in 1 .. Len(a) : (a \o b)[i] = a[i]
         /\ \A i \in 1 .. Len(b) : (a \o b)[Len(a) + i] = b[i]
<1> DEFINE X == ToSet(a) \cup ToSet(b)
           w == a \o b
<1>1. a \in Seq(X) /\ b \in Seq(X) /\ Len(a) \in Nat /\ Len(b) \in Nat
  BY ListIs, ListWithin
<1>2. w \in Seq(X) /\ Len(w) = Len(a) + Len(b) /\ DOMAIN w = 1 .. Len(a) + Len(b)
  BY <1>1
<1>3. \A i \in 1 .. Len(a) : w[i] = a[i]
  BY <1>1
<1>4. \A i \in 1 .. Len(b) : w[Len(a) + i] = b[i]
  BY <1>1
<1>5. \A i \in 1 .. Len(a) : i \in DOMAIN w
  BY <1>1, <1>2
<1>6. \A i \in 1 .. Len(b) : Len(a) + i \in DOMAIN w
  BY <1>1, <1>2
<1> HIDE DEF w
<1>7. X \subseteq ToSet(w)
  <2>1. \A x \in ToSet(a) : x \in ToSet(w)
    <3> TAKE x \in ToSet(a)
    <3>1. PICK i \in 1 .. Len(a) : a[i] = x
      BY ListIs
    <3> QED
      BY <1>3, <1>5, <3>1 DEF ToSet
  <2>2. \A x \in ToSet(b) : x \in ToSet(w)
    <3> TAKE x \in ToSet(b)
    <3>1. PICK i \in 1 .. Len(b) : b[i] = x
      BY ListIs
    <3> QED
      BY <1>4, <1>6, <3>1 DEF ToSet
  <2> QED
    BY <2>1, <2>2
<1>8. IsList(w) /\ ToSet(w) \subseteq X
  BY <1>2, ListOver
<1> QED
  BY <1>2, <1>3, <1>4, <1>7, <1>8 DEF w

\* Lists put one after the other: the courses of FlattenSeq.
FlattensBy(g, X, lists) ==
  /\ g \in [0 .. Len(lists) -> Seq(X)] /\ g[0] = <<>>
  /\ \A i \in 1 .. Len(lists) : g[i] = g[i - 1] \o lists[i]
  /\ FlattenSeq(lists) = g[Len(lists)]

LEMMA FlattenSteps ==
  ASSUME NEW X, NEW lists \in Seq(Seq(X))
  PROVE  \E g : FlattensBy(g, X, lists)
<1> DEFINE n == Len(lists)
           Solves(f) == f = [i \in 1 .. n |-> IF i = 1 THEN lists[i] ELSE f[i - 1] \o lists[i]]
           f == CHOOSE h : Solves(h)
           step == [i \in 1 .. n |-> [s \in Seq(X) |-> s \o lists[i]]]
<1>1. n \in Nat /\ \A i \in 1 .. n : lists[i] \in Seq(X)
  OBVIOUS
<1>2. step \in [1 .. n -> [Seq(X) -> Seq(X)]]
  BY <1>1
<1>3. \A i \in 1 .. n : \A s \in Seq(X) : step[i][s] = s \o lists[i]
  OBVIOUS
<1> HIDE DEF step
<1>4. PICK g : Recurses(g, n, Seq(X), <<>>, step)
  <2>1. <<>> \in Seq(X)
    OBVIOUS
  <2> HIDE DEF n
  <2> QED
    BY <1>1, <1>2, <2>1, Recursion
<1>5. g \in [0 .. n -> Seq(X)] /\ g[0] = <<>> /\ \A i \in 1 .. n : g[i] = g[i - 1] \o lists[i]
  <2>1. g \in [0 .. n -> Seq(X)] /\ g[0] = <<>> /\ \A i \in 1 .. n : g[i] = step[i][g[i - 1]]
    BY <1>4 DEF Recurses
  <2>2. \A i \in 1 .. n : i - 1 \in 0 .. n
    BY <1>1
  <2>3. \A i \in 1 .. n : g[i - 1] \in Seq(X)
    BY <2>1, <2>2
  <2> QED
    BY <1>3, <2>1, <2>3
<1>6. FlattenSeq(lists) = g[n]
  <2>1. CASE n = 0
    <3>1. lists = <<>>
      BY <2>1
    <3> QED
      BY <1>5, <2>1, <3>1 DEF FlattenSeq
  <2>2. CASE n # 0
    <3>1. FlattenSeq(lists) = f[n]
      BY <2>2 DEF FlattenSeq
    <3>2. ASSUME NEW i \in 1 .. n PROVE g[i] = IF i = 1 THEN lists[i] ELSE g[i - 1] \o lists[i]
      <4>1. i = 1 => g[i - 1] = <<>>
        BY <1>5
      <4>2. <<>> \o lists[i] = lists[i]
        BY <1>1
      <4> QED
        BY <1>5, <4>1, <4>2
    <3> DEFINE h == [i \in 1 .. n |-> g[i]]
    <3>3. Solves(h)
      <4>1. \A i \in 1 .. n : h[i] = g[i] /\ (i # 1 => h[i - 1] = g[i - 1])
        BY <1>1
      <4>2. h = [i \in 1 .. n |-> h[i]]
        OBVIOUS
      <4> HIDE DEF h
      <4>3. \A i \in 1 .. n : h[i] = IF i = 1 THEN lists[i] ELSE h[i - 1] \o lists[i]
        BY <3>2, <4>1
      <4> QED
        BY <4>2, <4>3
    <3>4. Solves(f)
      <4> HIDE DEF Solves, h
      <4> QED
        BY <3>3
    <3> HIDE DEF f
    <3>5. \A i \in 1 .. n : f[i] = IF i = 1 THEN lists[i] ELSE f[i - 1] \o lists[i]
      BY <3>4
    <3> DEFINE same == {i \in 0 .. n : i # 0 => f[i] = g[i]}
    <3>6. 0 \in same
      BY <1>1
    <3>7. ASSUME NEW i \in 1 .. n, i - 1 \in same PROVE i \in same
      <4>1. i \in 0 .. n /\ (i # 1 => f[i - 1] = g[i - 1])
        BY <1>1, <3>7
      <4> QED
        BY <3>2, <3>5, <4>1
    <3>8. n \in same
      <4> HIDE DEF same, n
      <4>1. 0 .. n \subseteq same
        BY <1>1, <3>6, <3>7, UpTo
      <4> QED
        BY <1>1, <4>1
    <3> QED
      BY <2>2, <3>1, <3>8
  <2> QED
    BY <2>1, <2>2
<1> QED
  BY <1>5, <1>6 DEF FlattensBy

\* Where the places of w come from: the first n of the lists in their order, with all
\* their entries.
InOrder(w, lists, n, part) ==
  /\ \A p \in 1 .. Len(w) : part[p] \in 1 .. n /\ w[p] \in ToSet(lists[part[p]])
  /\ \A p, q \in 1 .. Len(w) : p <= q => part[p] <= part[q]
  /\ \A i \in 1 .. n : \A x \in ToSet(lists[i]) : \E p \in 1 .. Len(w) : part[p] = i /\ w[p] = x

LEMMA OneMoreList ==
  ASSUME NEW lists, NEW i \in Nat \ {0}, NEW a, IsList(a), NEW b, IsList(b), b = lists[i],
         NEW old, InOrder(a, lists, i - 1, old)
  PROVE  \E part : InOrder(a \o b, lists, i, part)
<1> DEFINE w == a \o b
           l == Len(a)
           m == Len(b)
           part == [p \in 1 .. l + m |-> IF p <= l THEN old[p] ELSE i]
<1>1. l \in Nat /\ m \in Nat /\ i \in Nat
  BY ListIs
<1>2. /\ Len(w) = l + m /\ \A p \in 1 .. l : w[p] = a[p]
      /\ \A p \in 1 .. m : w[l + p] = b[p]
  BY TwoLists
<1>3. /\ \A p \in 1 .. l : old[p] \in 1 .. i - 1 /\ a[p] \in ToSet(lists[old[p]])
      /\ \A p, q \in 1 .. l : p <= q => old[p] <= old[q]
      /\ \A j \in 1 .. i - 1 : \A x \in ToSet(lists[j]) : \E p \in 1 .. l : old[p] = j /\ a[p] = x
  BY DEF InOrder
<1> HIDE DEF w, l, m
<1>4. /\ \A p \in 1 .. l : part[p] = old[p] /\ p \in 1 .. l + m
      /\ \A p \in 1 .. m : part[l + p] = i /\ l + p \in 1 .. l + m
  <2>1. \A p \in 1 .. l : p \in 1 .. l + m /\ p <= l
    BY <1>1
  <2>2. \A p \in 1 .. m : l + p \in 1 .. l + m /\ ~(l + p <= l)
    BY <1>1
  <2> QED
    BY <2>1, <2>2
<1>5. \A p \in 1 .. l + m : p \in 1 .. l \/ (p - l \in 1 .. m /\ p = l + (p - l))
  BY <1>1
<1> HIDE DEF part
<1>6. ASSUME NEW p \in 1 .. l + m PROVE part[p] \in 1 .. i /\ w[p] \in ToSet(lists[part[p]])
  <2>1. CASE p \in 1 .. l
    <3>1. part[p] = old[p] /\ w[p] = a[p] /\ old[p] \in 1 .. i - 1
      BY <1>2, <1>3, <1>4, <2>1
    <3>2. old[p] \in 1 .. i
      BY <1>1, <3>1
    <3> QED
      BY <1>3, <2>1, <3>1, <3>2
  <2>2. CASE p - l \in 1 .. m /\ p = l + (p - l)
    <3>1. part[p] = i /\ w[p] = b[p - l]
      BY <1>2, <1>4, <2>2
    <3>2. b[p - l] \in ToSet(lists[i])
      BY <2>2, ListIs DEF m
    <3>3. i \in 1 .. i
      BY <1>1
    <3> QED
      BY <3>1, <3>2, <3>3
  <2> QED
    BY <1>5, <2>1, <2>2
<1>7. ASSUME NEW p \in 1 .. l + m, NEW q \in 1 .. l + m, p <= q PROVE part[p] <= part[q]
  <2>1. CASE q \in 1 .. l
    <3>1. p \in 1 .. l
      BY <1>1, <1>7, <2>1
    <3> QED
      BY <1>3, <1>4, <1>7, <2>1, <3>1
  <2>2. CASE q - l \in 1 .. m /\ q = l + (q - l)
    <3>1. part[q] = i
      BY <1>4, <2>2
    <3> QED
      BY <1>1, <1>6, <3>1
  <2> QED
    BY <1>5, <2>1, <2>2
<1>8. ASSUME NEW j \in 1 .. i, NEW x \in ToSet(lists[j])
      PROVE  \E p \in 1 .. l + m : part[p] = j /\ w[p] = x
  <2>1. CASE j = i
    <3>1. PICK k \in 1 .. m : b[k] = x
      BY <2>1, ListIs DEF m
    <3>2. l + k \in 1 .. l + m /\ part[l + k] = j /\ w[l + k] = x
      BY <1>2, <1>4, <2>1, <3>1
    <3> QED
      BY <3>2
  <2>2. CASE j # i
    <3>1. j \in 1 .. i - 1
      BY <1>1, <2>2
    <3>2. PICK k \in 1 .. l : old[k] = j /\ a[k] = x
      BY <1>3, <3>1
    <3>3. k \in 1 .. l + m /\ part[k] = j /\ w[k] = x
      BY <1>2, <1>4, <3>2
    <3> QED
      BY <3>3
  <2> QED
    BY <2>1, <2>2
<1>9. InOrder(w, lists, i, part)
  <2>1. /\ \A p \in 1 .. Len(w) : part[p] \in 1 .. i /\ w[p] \in ToSet(lists[part[p]])
        /\ \A p, q \in 1 .. Len(w) : p <= q => part[p] <= part[q]
    BY <1>2, <1>6, <1>7
  <2>2. \A j \in 1 .. i : \A x \in ToSet(lists[j]) : \E p \in 1 .. Len(w) : part[p] = j /\ w[p] = x
    BY <1>2, <1>8
  <2> QED
    BY <2>1, <2>2 DEF InOrder
<1> QED
  BY <1>9 DEF w

LEMMA FlattenOrder ==
  ASSUME NEW lists, IsList(lists), \A i \in 1 .. Len(lists) : IsList(lists[i])
  PROVE  /\ IsList(FlattenSeq(lists))
         /\ \E part : InOrder(FlattenSeq(lists), lists, Len(lists), part)
<1> DEFINE n == Len(lists)
           X == UNION {ToSet(lists[i]) : i \in 1 .. n}
<1>1. n \in Nat /\ DOMAIN lists = 1 .. n /\ lists = [i \in 1 .. n |-> lists[i]]
  BY ListIs
<1>2. \A i \in 1 .. n : lists[i] \in Seq(X)
  <2> TAKE i \in 1 .. n
  <2>1. ToSet(lists[i]) \subseteq X
    OBVIOUS
  <2> HIDE DEF X
  <2> QED
    BY <2>1, ListWithin
<1>3. lists \in Seq(Seq(X))
  <2> HIDE DEF X
  <2>1. lists \in [1 .. n -> Seq(X)]
    BY <1>1, <1>2
  <2> QED
    BY <1>1, <2>1
<1> HIDE DEF X
<1>4. PICK g : FlattensBy(g, X, lists)
  BY <1>3, FlattenSteps
<1>5. /\ g \in [0 .. n -> Seq(X)] /\ g[0] = <<>> /\ \A i \in 1 .. n : g[i] = g[i - 1] \o lists[i]
      /\ FlattenSeq(lists) = g[n]
  BY <1>4 DEF FlattensBy
<1> DEFINE S == {i \in 0 .. n : \E part : InOrder(g[i], lists, i, part)}
<1>6. 0 \in S
  <2>1. Len(g[0]) = 0 /\ 1 .. 0 = {}
    BY <1>5
  <2>2. InOrder(g[0], lists, 0, g)
    BY <2>1 DEF InOrder
  <2> QED
    BY <1>1, <2>2
<1>7. ASSUME NEW i \in 1 .. n, i - 1 \in S PROVE i \in S
  <2>1. PICK old : InOrder(g[i - 1], lists, i - 1, old)
    BY <1>7
  <2>2. /\ i \in 0 .. n /\ i - 1 \in 0 .. n /\ i \in Nat \ {0}
    BY <1>1
  <2>3. IsList(g[i - 1]) /\ IsList(lists[i]) /\ g[i] = g[i - 1] \o lists[i]
    <3>1. g[i - 1] \in Seq(X)
      BY <1>5, <2>2
    <3>2. IsList(g[i - 1])
      BY <3>1, ListOver
    <3>3. g[i] = g[i - 1] \o lists[i]
      BY <1>5
    <3>4. IsList(lists[i])
      BY <1>2, ListOver
    <3> QED
      BY <3>2, <3>3, <3>4
  <2>4. \E part : InOrder(g[i - 1] \o lists[i], lists, i, part)
    BY <2>1, <2>2, <2>3, OneMoreList
  <2> QED
    BY <2>2, <2>3, <2>4
<1>8. n \in S
  <2> HIDE DEF S, n
  <2>1. 0 .. n \subseteq S
    BY <1>1, <1>6, <1>7, UpTo
  <2> QED
    BY <1>1, <2>1
<1>9. \E part : InOrder(FlattenSeq(lists), lists, n, part)
  BY <1>5, <1>8
<1>10. IsList(FlattenSeq(lists))
  <2>1. g[n] \in Seq(X)
    BY <1>1, <1>5
  <2> QED
    BY <1>5, <2>1, ListOver
<1> QED
  BY <1>9, <1>10

-----------------------------------------------------------------------------
(* Placing files.                                                            *)

PlacesBy(r, t, files) ==
  /\ r[0] = [image |-> t, result |-> "ok"]
  /\ \A k \in 1 .. Len(files) : r[k] = Place(r[k - 1], files[k])
  /\ PlaceAll(t, files) = r[Len(files)]

LEMMA PlaceSteps ==
  ASSUME NEW t, NEW files, Len(files) \in Nat
  PROVE  \E r : PlacesBy(r, t, files)
<1> DEFINE n == Len(files)
           start == [image |-> t, result |-> "ok"]
           After(r, k) == IF k = 0 THEN start ELSE Place(r[k - 1], files[k])
           Solves(r) == r = [k \in 0 .. n |-> After(r, k)]
           S == {k \in 0 .. n : \E r : \A i \in 0 .. k : r[i] = After(r, i)}
<1>1. 0 \in S
  <2> DEFINE r == [i \in 0 .. 0 |-> start]
  <2>1. \A i \in 0 .. 0 : r[i] = start /\ i = 0
    OBVIOUS
  <2> HIDE DEF r
  <2>2. \A i \in 0 .. 0 : r[i] = After(r, i)
    BY <2>1
  <2> QED
    BY <2>2
<1>2. ASSUME NEW k \in 1 .. n, k - 1 \in S PROVE k \in S
  <2>1. PICK g : \A i \in 0 .. k - 1 : g[i] = After(g, i)
    BY <1>2
  <2> DEFINE r == [i \in 0 .. k |-> IF i = k THEN Place(g[k - 1], files[k]) ELSE g[i]]
  <2>2. k \in 0 .. n /\ k # 0 /\ k \in 0 .. k /\ \A i \in 0 .. k - 1 : i \in 0 .. k /\ i # k
    OBVIOUS
  <2>3. r[k] = Place(g[k - 1], files[k]) /\ \A i \in 0 .. k - 1 : r[i] = g[i]
    BY <2>2
  <2> HIDE DEF r
  <2>4. ASSUME NEW i \in 0 .. k PROVE r[i] = After(r, i)
    <3>1. (i # 0 => i - 1 \in 0 .. k - 1) /\ (i # k => i \in 0 .. k - 1)
      OBVIOUS
    <3>2. CASE i = k
      BY <2>2, <2>3, <3>1, <3>2
    <3>3. CASE i # k
      BY <2>1, <2>3, <3>1, <3>3
    <3> QED
      BY <3>2, <3>3
  <2> QED
    BY <2>2, <2>4
<1>3. PICK g : \A i \in 0 .. n : g[i] = After(g, i)
  <2> HIDE DEF S
  <2>1. 0 .. n \subseteq S
    BY <1>1, <1>2, UpTo
  <2>2. n \in S
    BY <2>1
  <2> QED
    BY <2>2 DEF S
<1> DEFINE h == [k \in 0 .. n |-> g[k]]
           r == CHOOSE f : Solves(f)
<1>4. Solves(h)
  <2>1. \A i \in 0 .. n : h[i] = g[i] /\ (i # 0 => i - 1 \in 0 .. n /\ h[i - 1] = g[i - 1])
    OBVIOUS
  <2>2. h = [i \in 0 .. n |-> h[i]]
    OBVIOUS
  <2> HIDE DEF h
  <2>3. \A i \in 0 .. n : h[i] = After(h, i)
    BY <1>3, <2>1
  <2> HIDE DEF After
  <2> QED
    BY <2>2, <2>3
<1>5. Solves(r)
  <2> HIDE DEF Solves, h
  <2> QED
    BY <1>4
<1>6. PlaceAll(t, files) = r[n]
  BY DEF PlaceAll
<1> HIDE DEF r
<1>7. \A k \in 0 .. n : r[k] = After(r, k)
  BY <1>5
<1>8. r[0] = start /\ \A k \in 1 .. n : r[k] = Place(r[k - 1], files[k])
  <2>1. 0 \in 0 .. n /\ \A k \in 1 .. n : k \in 0 .. n /\ k # 0
    OBVIOUS
  <2> QED
    BY <1>7, <2>1
<1> QED
  BY <1>6, <1>8 DEF PlacesBy

IsTree(t) ==
  /\ t = [p \in DOMAIN t |-> [dir |-> t[p].dir, data |-> t[p].data]]
  /\ \A p \in DOMAIN t : t[p].dir \in BOOLEAN

LEMMA AboveIs ==
  ASSUME NEW path, IsList(path)
  PROVE  path \notin Above(path)
<1> SUFFICES ASSUME path \in Above(path) PROVE FALSE
  OBVIOUS
<1>1. path \in Seq(ToSet(path)) /\ Len(path) \in Nat
  BY DEF IsList
<1>2. PICK k \in 1 .. Len(path) - 1 : path = SubSeq(path, 1, k)
  BY DEF Above
<1>3. Len(SubSeq(path, 1, k)) = k
  BY <1>1
<1> QED
  BY <1>1, <1>2, <1>3

\* What placeFile does to a tree.
PutIn(t, path, data, u) ==
  /\ IsTree(u) /\ DOMAIN u = DOMAIN t \cup Above(path) \cup {path}
  /\ \A p \in DOMAIN t : u[p].dir = t[p].dir /\ (p # path => u[p].data = t[p].data)
  /\ \A p \in DOMAIN u \ DOMAIN t : (p # path => u[p].dir) /\ (p = path => ~u[p].dir)
  /\ u[path].data = data

LEMMA PutIs ==
  ASSUME NEW t, IsTree(t), NEW path, NEW data
  PROVE  PutIn(t, path, data, PutFile(t, path, data))
<1> DEFINE u == PutFile(t, path, data)
           D == DOMAIN t \cup Above(path) \cup {path}
           d == path \in DOMAIN t /\ t[path].dir
           at(p) == IF p = path THEN [dir |-> d, data |-> data]
                    ELSE IF p \in DOMAIN t THEN t[p] ELSE [dir |-> TRUE, data |-> Absent]
<1>1. u = [p \in D |-> at(p)]
  BY DEF PutFile
<1>2. DOMAIN u = D /\ \A p \in D : u[p] = at(p)
  BY <1>1
<1>3. u[path] = [dir |-> d, data |-> data]
  BY <1>2
<1>4. \A p \in DOMAIN t : p # path => u[p] = t[p]
  BY <1>2
<1>5. \A p \in D \ DOMAIN t : p # path => u[p] = [dir |-> TRUE, data |-> Absent]
  BY <1>2
<1> HIDE DEF at, u
<1>6. /\ \A p \in DOMAIN t : t[p] = [dir |-> t[p].dir, data |-> t[p].data] /\ t[p].dir \in BOOLEAN
  BY DEF IsTree
<1>7. d \in BOOLEAN /\ (path \notin DOMAIN t => ~d) /\ (path \in DOMAIN t => d = t[path].dir)
  <2>1. CASE path \in DOMAIN t
    BY <1>6, <2>1
  <2>2. CASE path \notin DOMAIN t
    BY <2>2
  <2> QED
    BY <2>1, <2>2
<1> HIDE DEF d
<1>8. u[path].dir = d /\ u[path].data = data
  BY <1>3
<1>9. ASSUME NEW p \in D PROVE u[p] = [dir |-> u[p].dir, data |-> u[p].data] /\ u[p].dir \in BOOLEAN
  <2>1. CASE p = path
    BY <1>3, <1>7, <1>8, <2>1
  <2>2. CASE p # path /\ p \in DOMAIN t
    BY <1>4, <1>6, <2>2
  <2>3. CASE p # path /\ p \notin DOMAIN t
    <3>1. u[p] = [dir |-> TRUE, data |-> Absent]
      BY <1>5, <2>3
    <3>2. u[p].dir = TRUE /\ u[p].data = Absent
      BY <3>1
    <3>3. u[p] = [dir |-> u[p].dir, data |-> u[p].data]
      BY <3>1, <3>2
    <3> QED
      BY <3>2, <3>3
  <2> QED
    BY <2>1, <2>2, <2>3
<1>10. IsTree(u)
  <2>1. u = [p \in DOMAIN u |-> u[p]]
    BY <1>1
  <2>2. u = [p \in DOMAIN u |-> [dir |-> u[p].dir, data |-> u[p].data]]
    BY <1>2, <1>9, <2>1
  <2> QED
    BY <1>2, <1>9, <2>2 DEF IsTree
<1>11. \A p \in DOMAIN t : u[p].dir = t[p].dir /\ (p # path => u[p].data = t[p].data)
  BY <1>4, <1>7, <1>8
<1>12. \A p \in D \ DOMAIN t : (p # path => u[p].dir) /\ (p = path => ~u[p].dir)
  <2>1. \A p \in D \ DOMAIN t : p # path => u[p].dir = TRUE
    BY <1>5
  <2> QED
    BY <1>7, <1>8, <2>1
<1> QED
  BY <1>2, <1>8, <1>10, <1>11, <1>12 DEF PutIn, u

\* The first k files are in a tree: below directories, each with the bytes it was given last.
LastAt(files, k, j) == \A l \in 1 .. k : l > j => files[l].path # files[j].path

PlacedFile(u, files, k, i) ==
  /\ files[i].path \in DOMAIN u
  /\ \A p \in Above(files[i].path) : p \in DOMAIN u /\ u[p].dir
  /\ \E j \in 1 .. k : /\ files[j].path = files[i].path /\ LastAt(files, k, j)
                       /\ u[files[i].path].data = files[j].data
Placed(u, files, k) == \A i \in 1 .. k : PlacedFile(u, files, k, i)

Open(t, files) == \A i \in 1 .. Len(files) : \A p \in Above(files[i].path) : p \in DOMAIN t /\ t[p].dir

\* What placing the first k of some files does to a tree.
PlacedSoFar(t, files, k, r) ==
  /\ r = [image |-> r.image, result |-> r.result] /\ r.result \in {"ok", "failed"}
  /\ IsTree(r.image) /\ DOMAIN t \subseteq DOMAIN r.image
  /\ \A p \in DOMAIN t : /\ r.image[p].dir = t[p].dir
                         /\ (\A i \in 1 .. k : p # files[i].path) => r.image[p].data = t[p].data
  /\ \A p \in DOMAIN r.image \ DOMAIN t :
       \E i \in 1 .. k : p \in Above(files[i].path) \/ (p = files[i].path /\ ~r.image[p].dir)
  /\ r.result = "ok" => Placed(r.image, files, k)
  /\ Open(t, files) => r.result = "ok"

\* A file put in after the others is in the tree, and so are they.
LEMMA PutKeeps ==
  ASSUME NEW files, NEW k \in Nat \ {0}, NEW u, IsTree(u), Placed(u, files, k - 1),
         IsList(files[k].path), \A p \in Above(files[k].path) : ~IsFile(u, p),
         NEW v, v = PutFile(u, files[k].path, files[k].data)
  PROVE  Placed(v, files, k)
<1> DEFINE path == files[k].path
<1>1. /\ DOMAIN v = DOMAIN u \cup Above(path) \cup {path}
      /\ \A p \in DOMAIN u : v[p].dir = u[p].dir /\ (p # path => v[p].data = u[p].data)
      /\ \A p \in DOMAIN v \ DOMAIN u : (p # path => v[p].dir) /\ (p = path => ~v[p].dir)
      /\ v[path].data = files[k].data
  <2>1. PutIn(u, path, files[k].data, v)
    BY PutIs
  <2> QED
    BY <2>1 DEF PutIn
<1>2. path \notin Above(path)
  BY AboveIs
<1>3. LastAt(files, k, k) /\ k \in 1 .. k
  BY DEF LastAt
<1>4. PlacedFile(v, files, k, k)
  <2>1. path \in DOMAIN v
    BY <1>1
  <2>2. \A p \in Above(path) : p \in DOMAIN v /\ v[p].dir
    <3> TAKE p \in Above(path)
    <3>1. p \in DOMAIN v /\ p # path
      BY <1>1, <1>2
    <3>2. CASE p \in DOMAIN u
      BY <1>1, <3>1, <3>2 DEF IsFile
    <3>3. CASE p \notin DOMAIN u
      BY <1>1, <3>1, <3>3
    <3> QED
      BY <3>1, <3>2, <3>3
  <2> QED
    BY <1>1, <1>3, <2>1, <2>2 DEF PlacedFile
<1>5. ASSUME NEW i \in 1 .. k - 1 PROVE PlacedFile(v, files, k, i)
  <2>1. /\ files[i].path \in DOMAIN u
        /\ \A p \in Above(files[i].path) : p \in DOMAIN u /\ u[p].dir
    BY DEF Placed, PlacedFile
  <2>2. PICK j \in 1 .. k - 1 : /\ files[j].path = files[i].path /\ LastAt(files, k - 1, j)
                                /\ u[files[i].path].data = files[j].data
    BY DEF Placed, PlacedFile
  <2>3. files[i].path \in DOMAIN v /\ \A p \in Above(files[i].path) : p \in DOMAIN v /\ v[p].dir
    BY <1>1, <2>1
  <2>4. CASE files[i].path = path
    BY <1>1, <1>3, <2>3, <2>4 DEF PlacedFile
  <2>5. CASE files[i].path # path
    <3>1. v[files[i].path].data = files[j].data
      BY <1>1, <2>1, <2>2, <2>5
    <3>2. j \in 1 .. k
      OBVIOUS
    <3>3. ASSUME NEW l \in 1 .. k, l > j PROVE files[l].path # files[j].path
      <4>1. l = k \/ l \in 1 .. k - 1
        OBVIOUS
      <4> QED
        BY <2>2, <2>5, <3>3, <4>1 DEF LastAt
    <3> QED
      BY <2>2, <2>3, <3>1, <3>2, <3>3 DEF PlacedFile, LastAt
  <2> QED
    BY <2>4, <2>5
<1>6. \A i \in 1 .. k : i = k \/ i \in 1 .. k - 1
  OBVIOUS
<1> QED
  BY <1>4, <1>5, <1>6 DEF Placed

LEMMA PlaceStep ==
  ASSUME NEW t, IsTree(t), NEW files, Len(files) \in Nat, NEW k \in 1 .. Len(files),
         IsList(files[k].path), NEW a, PlacedSoFar(t, files, k - 1, a), NEW b, b = Place(a, files[k])
  PROVE  PlacedSoFar(t, files, k, b)
<1> DEFINE path == files[k].path
           u == a.image
           v == PutFile(u, path, files[k].data)
<1>1. /\ a = [image |-> u, result |-> a.result] /\ a.result \in {"ok", "failed"}
      /\ IsTree(u) /\ DOMAIN t \subseteq DOMAIN u
      /\ \A p \in DOMAIN t : /\ u[p].dir = t[p].dir
                             /\ (\A i \in 1 .. k - 1 : p # files[i].path) => u[p].data = t[p].data
      /\ \A p \in DOMAIN u \ DOMAIN t :
           \E i \in 1 .. k - 1 : p \in Above(files[i].path) \/ (p = files[i].path /\ ~u[p].dir)
      /\ a.result = "ok" => Placed(u, files, k - 1)
      /\ Open(t, files) => a.result = "ok"
  BY DEF PlacedSoFar
<1>2. k \in 1 .. k /\ \A i \in 1 .. k - 1 : i \in 1 .. k
  OBVIOUS
<1>3. ASSUME b.image = u, b.result = a.result, b = [image |-> b.image, result |-> b.result],
             a.result # "ok"
      PROVE  PlacedSoFar(t, files, k, b)
  <2>1. \A p \in DOMAIN u \ DOMAIN t :
          \E i \in 1 .. k : p \in Above(files[i].path) \/ (p = files[i].path /\ ~u[p].dir)
    BY <1>1, <1>2
  <2>2. \A p \in DOMAIN t : (\A i \in 1 .. k : p # files[i].path) => u[p].data = t[p].data
    BY <1>1, <1>2
  <2> QED
    BY <1>1, <1>3, <2>1, <2>2 DEF PlacedSoFar
<1>4. CASE a.result # "ok"
  <2>1. b = a
    BY <1>4 DEF Place
  <2> QED
    BY <1>1, <1>3, <1>4, <2>1
<1>5. CASE a.result = "ok" /\ \E p \in Above(path) : IsFile(u, p)
  <2>1. b = [a EXCEPT !.result = "failed"]
    BY <1>5 DEF Place
  <2>2. b.image = u /\ b.result = "failed" /\ b = [image |-> b.image, result |-> b.result]
    BY <1>1, <2>1
  <2>3. ~Open(t, files)
    <3>1. PICK p \in Above(path) : p \in DOMAIN u /\ ~u[p].dir
      BY <1>5 DEF IsFile
    <3> SUFFICES ASSUME Open(t, files) PROVE FALSE
      OBVIOUS
    <3>2. p \in DOMAIN t /\ t[p].dir
      BY <3>1 DEF Open
    <3> QED
      BY <1>1, <3>1, <3>2
  <2>4. \A p \in DOMAIN u \ DOMAIN t :
          \E i \in 1 .. k : p \in Above(files[i].path) \/ (p = files[i].path /\ ~u[p].dir)
    BY <1>1, <1>2
  <2>5. \A p \in DOMAIN t : (\A i \in 1 .. k : p # files[i].path) => u[p].data = t[p].data
    BY <1>1, <1>2
  <2> QED
    BY <1>1, <2>2, <2>3, <2>4, <2>5 DEF PlacedSoFar
<1>6. CASE a.result = "ok" /\ \A p \in Above(path) : ~IsFile(u, p)
  <2>1. b = [a EXCEPT !.image = v]
    BY <1>6 DEF Place
  <2> HIDE DEF v
  <2>2. b.image = v /\ b.result = "ok" /\ b = [image |-> b.image, result |-> b.result]
    BY <1>1, <1>6, <2>1
  <2>3. /\ IsTree(v) /\ DOMAIN v = DOMAIN u \cup Above(path) \cup {path}
        /\ \A p \in DOMAIN u : v[p].dir = u[p].dir /\ (p # path => v[p].data = u[p].data)
        /\ \A p \in DOMAIN v \ DOMAIN u : (p # path => v[p].dir) /\ (p = path => ~v[p].dir)
    <3>1. PutIn(u, path, files[k].data, v)
      BY <1>1, PutIs DEF v
    <3> QED
      BY <3>1 DEF PutIn
  <2>4. Placed(v, files, k)
    <3>1. Placed(u, files, k - 1) /\ k \in Nat \ {0}
      BY <1>1, <1>6
    <3> HIDE DEF u
    <3> QED
      BY <1>1, <1>6, <3>1, PutKeeps DEF v
  <2>5. ASSUME NEW p \in DOMAIN v \ DOMAIN t
        PROVE  \E i \in 1 .. k : p \in Above(files[i].path) \/ (p = files[i].path /\ ~v[p].dir)
    <3>1. CASE p \in DOMAIN u
      <4>1. PICK i \in 1 .. k - 1 : p \in Above(files[i].path) \/ (p = files[i].path /\ ~u[p].dir)
        BY <1>1, <2>5, <3>1
      <4> QED
        BY <1>2, <2>3, <3>1, <4>1
    <3>2. CASE p \notin DOMAIN u
      <4>1. p \in Above(path) \/ (p = path /\ ~v[p].dir)
        BY <2>3, <2>5, <3>2
      <4> QED
        BY <1>2, <4>1
    <3> QED
      BY <3>1, <3>2
  <2>6. ASSUME NEW p \in DOMAIN t
        PROVE  v[p].dir = t[p].dir /\ ((\A i \in 1 .. k : p # files[i].path) => v[p].data = t[p].data)
    BY <1>1, <1>2, <2>3
  <2>7. DOMAIN t \subseteq DOMAIN v
    BY <1>1, <2>3
  <2> QED
    BY <2>2, <2>3, <2>4, <2>5, <2>6, <2>7 DEF PlacedSoFar
<1> QED
  BY <1>4, <1>5, <1>6

\* Placing some files does to a tree what placing each in turn does.
LEMMA PlaceAllDoes ==
  ASSUME NEW t, IsTree(t), NEW files, Len(files) \in Nat,
         \A i \in 1 .. Len(files) : IsList(files[i].path)
  PROVE  PlacedSoFar(t, files, Len(files), PlaceAll(t, files))
<1> DEFINE n == Len(files)
<1>1. PICK r : PlacesBy(r, t, files)
  BY PlaceSteps
<1>2. /\ r[0] = [image |-> t, result |-> "ok"] /\ PlaceAll(t, files) = r[n]
      /\ \A k \in 1 .. n : r[k] = Place(r[k - 1], files[k])
  BY <1>1 DEF PlacesBy
<1> DEFINE S == {k \in 0 .. n : PlacedSoFar(t, files, k, r[k])}
<1>3. 0 \in S
  <2>1. r[0].image = t /\ r[0].result = "ok" /\ 1 .. 0 = {}
    BY <1>2
  <2>2. r[0] = [image |-> r[0].image, result |-> r[0].result] /\ Placed(t, files, 0)
    BY <1>2, <2>1 DEF Placed
  <2>3. PlacedSoFar(t, files, 0, r[0])
    BY <2>1, <2>2 DEF PlacedSoFar
  <2> QED
    BY <2>3
<1>4. ASSUME NEW k \in 1 .. n, k - 1 \in S PROVE k \in S
  <2>1. PlacedSoFar(t, files, k - 1, r[k - 1]) /\ k \in 0 .. n
    BY <1>4
  <2>2. PlacedSoFar(t, files, k, r[k])
    BY <1>2, <2>1, PlaceStep
  <2> QED
    BY <2>1, <2>2
<1>5. n \in S
  <2> HIDE DEF S, n
  <2>1. n \in Nat
    BY DEF n
  <2>2. 0 .. n \subseteq S
    BY <1>3, <1>4, <2>1, UpTo
  <2> QED
    BY <2>1, <2>2
<1> QED
  BY <1>2, <1>5

\* Files that are all in a tree are placed again without a change to it.
LEMMA PlacedStays ==
  ASSUME NEW t, IsTree(t), NEW files, Len(files) \in Nat,
         \A i \in 1 .. Len(files) : IsList(files[i].path), Placed(t, files, Len(files))
  PROVE  PlaceAll(t, files).image = t /\ PlaceAll(t, files).result = "ok"
<1> DEFINE n == Len(files)
           r == PlaceAll(t, files)
           u == r.image
<1>1. PlacedSoFar(t, files, n, r)
  BY PlaceAllDoes
<1>2. \A i \in 1 .. n : PlacedFile(t, files, n, i)
  BY DEF Placed
<1>3. r.result = "ok"
  <2>1. Open(t, files)
    BY <1>2 DEF Open, PlacedFile
  <2> QED
    BY <1>1, <2>1 DEF PlacedSoFar
<1> HIDE DEF r
<1>4. \A i \in 1 .. n : PlacedFile(u, files, n, i)
  BY <1>1, <1>3 DEF PlacedSoFar, Placed
<1>5. /\ IsTree(u) /\ DOMAIN t \subseteq DOMAIN u
      /\ \A p \in DOMAIN t : /\ u[p].dir = t[p].dir
                             /\ (\A i \in 1 .. n : p # files[i].path) => u[p].data = t[p].data
      /\ \A p \in DOMAIN u \ DOMAIN t :
           \E i \in 1 .. n : p \in Above(files[i].path) \/ (p = files[i].path /\ ~u[p].dir)
  BY <1>1 DEF PlacedSoFar
<1>6. DOMAIN u = DOMAIN t
  <2>1. \A i \in 1 .. n : files[i].path \in DOMAIN t /\ Above(files[i].path) \subseteq DOMAIN t
    BY <1>2 DEF PlacedFile
  <2>2. \A p \in DOMAIN u \ DOMAIN t : \E i \in 1 .. n : p \in Above(files[i].path) \/ p = files[i].path
    BY <1>5
  <2> HIDE DEF u
  <2>3. DOMAIN u \subseteq DOMAIN t
    BY <2>1, <2>2
  <2> QED
    BY <1>5, <2>3
<1>7. ASSUME NEW p \in DOMAIN t PROVE u[p].data = t[p].data
  <2>1. CASE \A i \in 1 .. n : p # files[i].path
    BY <1>5, <2>1
  <2>2. CASE \E i \in 1 .. n : p = files[i].path
    <3>1. PICK i \in 1 .. n : p = files[i].path
      BY <2>2
    <3>2. PICK j \in 1 .. n : files[j].path = p /\ LastAt(files, n, j) /\ t[p].data = files[j].data
      BY <1>2, <3>1 DEF PlacedFile
    <3>3. PICK l \in 1 .. n : files[l].path = p /\ LastAt(files, n, l) /\ u[p].data = files[l].data
      BY <1>4, <3>1 DEF PlacedFile
    <3>4. ~(l > j) /\ ~(j > l)
      BY <3>2, <3>3 DEF LastAt
    <3>5. l = j
      BY <3>4
    <3> QED
      BY <3>2, <3>3, <3>5
  <2> QED
    BY <2>1, <2>2
<1>8. u = t
  <2>1. u = [p \in DOMAIN u |-> [dir |-> u[p].dir, data |-> u[p].data]]
    BY <1>5 DEF IsTree
  <2>2. t = [p \in DOMAIN t |-> [dir |-> t[p].dir, data |-> t[p].data]]
    BY DEF IsTree
  <2>3. \A p \in DOMAIN t : u[p].dir = t[p].dir /\ u[p].data = t[p].data
    BY <1>5, <1>7
  <2> HIDE DEF u
  <2> QED
    BY <1>6, <2>1, <2>2, <2>3
<1> QED
  BY <1>3, <1>8 DEF r

-----------------------------------------------------------------------------
(* Registering: the same for the hives.                                      *)

RegistersBy(r, h, writes) ==
  /\ r[0] = [hive |-> h, result |-> "ok"]
  /\ \A k \in 1 .. Len(writes) : r[k] = Register(r[k - 1], writes[k])
  /\ RegisterAll(h, writes) = r[Len(writes)]

LEMMA RegisterSteps ==
  ASSUME NEW h, NEW writes, Len(writes) \in Nat
  PROVE  \E r : RegistersBy(r, h, writes)
<1> DEFINE n == Len(writes)
           start == [hive |-> h, result |-> "ok"]
           After(r, k) == IF k = 0 THEN start ELSE Register(r[k - 1], writes[k])
           Solves(r) == r = [k \in 0 .. n |-> After(r, k)]
           S == {k \in 0 .. n : \E r : \A i \in 0 .. k : r[i] = After(r, i)}
<1>1. 0 \in S
  <2> DEFINE r == [i \in 0 .. 0 |-> start]
  <2>1. \A i \in 0 .. 0 : r[i] = start /\ i = 0
    OBVIOUS
  <2> HIDE DEF r
  <2>2. \A i \in 0 .. 0 : r[i] = After(r, i)
    BY <2>1
  <2> QED
    BY <2>2
<1>2. ASSUME NEW k \in 1 .. n, k - 1 \in S PROVE k \in S
  <2>1. PICK g : \A i \in 0 .. k - 1 : g[i] = After(g, i)
    BY <1>2
  <2> DEFINE r == [i \in 0 .. k |-> IF i = k THEN Register(g[k - 1], writes[k]) ELSE g[i]]
  <2>2. k \in 0 .. n /\ k # 0 /\ k \in 0 .. k /\ \A i \in 0 .. k - 1 : i \in 0 .. k /\ i # k
    OBVIOUS
  <2>3. r[k] = Register(g[k - 1], writes[k]) /\ \A i \in 0 .. k - 1 : r[i] = g[i]
    BY <2>2
  <2> HIDE DEF r
  <2>4. ASSUME NEW i \in 0 .. k PROVE r[i] = After(r, i)
    <3>1. (i # 0 => i - 1 \in 0 .. k - 1) /\ (i # k => i \in 0 .. k - 1)
      OBVIOUS
    <3>2. CASE i = k
      BY <2>2, <2>3, <3>1, <3>2
    <3>3. CASE i # k
      BY <2>1, <2>3, <3>1, <3>3
    <3> QED
      BY <3>2, <3>3
  <2> QED
    BY <2>2, <2>4
<1>3. PICK g : \A i \in 0 .. n : g[i] = After(g, i)
  <2> HIDE DEF S
  <2>1. 0 .. n \subseteq S
    BY <1>1, <1>2, UpTo
  <2>2. n \in S
    BY <2>1
  <2> QED
    BY <2>2 DEF S
<1> DEFINE f == [k \in 0 .. n |-> g[k]]
           r == CHOOSE e : Solves(e)
<1>4. Solves(f)
  <2>1. \A i \in 0 .. n : f[i] = g[i] /\ (i # 0 => i - 1 \in 0 .. n /\ f[i - 1] = g[i - 1])
    OBVIOUS
  <2>2. f = [i \in 0 .. n |-> f[i]]
    OBVIOUS
  <2> HIDE DEF f
  <2>3. \A i \in 0 .. n : f[i] = After(f, i)
    BY <1>3, <2>1
  <2> HIDE DEF After
  <2> QED
    BY <2>2, <2>3
<1>5. Solves(r)
  <2> HIDE DEF Solves, f
  <2> QED
    BY <1>4
<1>6. RegisterAll(h, writes) = r[n]
  BY DEF RegisterAll
<1> HIDE DEF r
<1>7. \A k \in 0 .. n : r[k] = After(r, k)
  BY <1>5
<1>8. r[0] = start /\ \A k \in 1 .. n : r[k] = Register(r[k - 1], writes[k])
  <2>1. 0 \in 0 .. n /\ \A k \in 1 .. n : k \in 0 .. n /\ k # 0
    OBVIOUS
  <2> QED
    BY <1>7, <2>1
<1> QED
  BY <1>6, <1>8 DEF RegistersBy

IsHive(h) == h = [k \in DOMAIN h |-> [n \in DOMAIN h[k] |-> h[k][n]]]
Grows(h, g) == \A k \in DOMAIN h : k \in DOMAIN g /\ DOMAIN h[k] \subseteq DOMAIN g[k]
Still(h, g, k, n) == k \in DOMAIN h /\ n \in DOMAIN h[k] /\ g[k][n] = h[k][n]

\* What FindOrCreateSubkey and SetValue do to a hive.
SetIn(h, w, g) ==
  /\ IsHive(g) /\ DOMAIN g = DOMAIN h \cup {w.key} /\ Grows(h, g)
  /\ \A k \in DOMAIN g : \A n \in DOMAIN g[k] :
       Still(h, g, k, n) \/ (k = w.key /\ n = w.name /\ n[1] # Absent)
  /\ w.name[1] # Absent => w.name \in DOMAIN g[w.key] /\ g[w.key][w.name] = w.data

LEMMA SetKeyIs ==
  ASSUME NEW h, IsHive(h), NEW w
  PROVE  SetIn(h, w, SetKeyValue(h, w))
<1> DEFINE g == SetKeyValue(h, w)
           D == DOMAIN h \cup {w.key}
           old(k) == IF k \in DOMAIN h THEN h[k] ELSE <<>>
           new(k) == [n \in DOMAIN old(k) \cup {w.name} |-> IF n = w.name THEN w.data ELSE old(k)[n]]
           at(k) == IF k # w.key \/ w.name[1] = Absent THEN old(k) ELSE new(k)
<1>1. g = [k \in D |-> at(k)]
  BY DEF SetKeyValue
<1>2. DOMAIN g = D /\ \A k \in D : g[k] = at(k)
  BY <1>1
<1> HIDE DEF at, g
<1>3. \A k : old(k) = [n \in DOMAIN old(k) |-> old(k)[n]]
  <2> TAKE k
  <2>1. CASE k \in DOMAIN h
    <3>1. h[k] = [n \in DOMAIN h[k] |-> h[k][n]]
      BY <2>1 DEF IsHive
    <3> QED
      BY <2>1, <3>1
  <2>2. CASE k \notin DOMAIN h
    <3>1. <<>> = [n \in DOMAIN <<>> |-> <<>>[n]]
      OBVIOUS
    <3> QED
      BY <2>2, <3>1
  <2> QED
    BY <2>1, <2>2
<1>4. \A k : k \notin DOMAIN h => DOMAIN old(k) = {}
  OBVIOUS
<1>5. \A k \in DOMAIN h : old(k) = h[k]
  OBVIOUS
<1> HIDE DEF old
<1>6. \A k : /\ DOMAIN new(k) = DOMAIN old(k) \cup {w.name}
             /\ new(k)[w.name] = w.data /\ \A n \in DOMAIN old(k) : n # w.name => new(k)[n] = old(k)[n]
             /\ new(k) = [n \in DOMAIN new(k) |-> new(k)[n]]
  OBVIOUS
<1> HIDE DEF new
<1>7. \A k : at(k) = [n \in DOMAIN at(k) |-> at(k)[n]]
  <2> TAKE k
  <2>1. at(k) = old(k) \/ at(k) = new(k)
    BY DEF at
  <2>2. new(k) = [n \in DOMAIN new(k) |-> new(k)[n]]
    BY <1>6
  <2> QED
    BY <1>3, <2>1, <2>2
<1>8. IsHive(g)
  <2>1. g = [k \in D |-> [n \in DOMAIN at(k) |-> at(k)[n]]]
    BY <1>1, <1>7
  <2>2. [k \in D |-> [n \in DOMAIN at(k) |-> at(k)[n]]] = [k \in D |-> [n \in DOMAIN g[k] |-> g[k][n]]]
    BY <1>2
  <2> QED
    BY <1>2, <2>1, <2>2 DEF IsHive
<1>9. \A k \in D : DOMAIN old(k) \subseteq DOMAIN g[k]
  BY <1>2, <1>6 DEF at
<1>10. ASSUME NEW k \in D, NEW n \in DOMAIN g[k]
       PROVE  (n \in DOMAIN old(k) /\ g[k][n] = old(k)[n]) \/ (k = w.key /\ n = w.name /\ n[1] # Absent)
  <2>1. CASE k # w.key \/ w.name[1] = Absent
    <3>1. g[k] = old(k)
      BY <1>2, <2>1 DEF at
    <3> QED
      BY <1>10, <3>1
  <2>2. CASE k = w.key /\ w.name[1] # Absent
    <3>1. g[k] = new(k)
      BY <1>2, <2>2 DEF at
    <3>2. n \in DOMAIN new(k)
      BY <3>1
    <3>3. DOMAIN new(k) = DOMAIN old(k) \cup {w.name}
      BY <1>6
    <3>4. n = w.name \/ (n \in DOMAIN old(k) /\ n # w.name)
      BY <3>2, <3>3
    <3> QED
      BY <1>6, <2>2, <3>1, <3>4
  <2> QED
    BY <2>1, <2>2
<1>11. ASSUME w.name[1] # Absent PROVE w.name \in DOMAIN g[w.key] /\ g[w.key][w.name] = w.data
  <2>1. g[w.key] = new(w.key)
    BY <1>2, <1>11 DEF at
  <2> QED
    BY <1>6, <2>1
<1>12. Grows(h, g)
  BY <1>2, <1>5, <1>9 DEF Grows
<1>13. ASSUME NEW k \in DOMAIN g, NEW n \in DOMAIN g[k]
       PROVE  Still(h, g, k, n) \/ (k = w.key /\ n = w.name /\ n[1] # Absent)
  <2>1. k \in D
    BY <1>2
  <2>2. (n \in DOMAIN old(k) /\ g[k][n] = old(k)[n]) \/ (k = w.key /\ n = w.name /\ n[1] # Absent)
    BY <1>10, <2>1
  <2>3. ASSUME n \in DOMAIN old(k), g[k][n] = old(k)[n] PROVE Still(h, g, k, n)
    <3>1. k \in DOMAIN h
      BY <1>4, <2>3
    <3> QED
      BY <1>5, <2>3, <3>1 DEF Still
  <2> QED
    BY <2>2, <2>3
<1> QED
  BY <1>2, <1>8, <1>11, <1>12, <1>13 DEF SetIn, g

\* The first k writes have been made: each value is the one it was given last.
LastIn(writes, k, j) ==
  \A l \in 1 .. k : l > j => ~(writes[l].key = writes[j].key /\ writes[l].name = writes[j].name)

RecordedBy(g, writes, k, i) ==
  /\ writes[i].stop = "ok" /\ writes[i].key \in DOMAIN g
  /\ writes[i].name[1] # Absent =>
       /\ writes[i].name \in DOMAIN g[writes[i].key]
       /\ \E j \in 1 .. k : /\ writes[j].key = writes[i].key /\ writes[j].name = writes[i].name
                            /\ LastIn(writes, k, j)
                            /\ g[writes[i].key][writes[i].name] = writes[j].data
Recorded(g, writes, k) == \A i \in 1 .. k : RecordedBy(g, writes, k, i)

\* A catalog's links lead to deployments; a list of writes makes these before.
Linked(h) ==
  \A key \in DOMAIN h : key[1] = "Catalogs" =>
    \A n \in DOMAIN h[key] : <<"Deployments", n[2]>> \in DOMAIN h

Links(w) == w.stop = "ok" /\ w.key[1] = "Catalogs" /\ w.name[1] # Absent
Makes(w, key) == w.stop = "ok" /\ w.key = key
InTurn(writes) ==
  \A k \in 1 .. Len(writes) : Links(writes[k]) =>
    \E j \in 1 .. k - 1 : Makes(writes[j], <<"Deployments", writes[k].name[2]>>)

Writes(w, key, n) == w.stop = "ok" /\ w.key = key /\ w.name = n /\ n[1] # Absent

\* What the first k of some writes do to a hive.
RegisteredSoFar(h, writes, k, r) ==
  /\ r = [hive |-> r.hive, result |-> r.result] /\ IsHive(r.hive) /\ Grows(h, r.hive)
  /\ \A key \in DOMAIN r.hive : \A n \in DOMAIN r.hive[key] :
       Still(h, r.hive, key, n) \/ \E i \in 1 .. k : Writes(writes[i], key, n)
  /\ \A key \in DOMAIN r.hive \ DOMAIN h : \E i \in 1 .. k : Makes(writes[i], key)
  /\ r.result = "ok" => Recorded(r.hive, writes, k)
  /\ (\A i \in 1 .. Len(writes) : writes[i].stop = "ok") => r.result = "ok"
  /\ k >= 1 /\ writes[1].stop # "ok" => r.hive = h /\ r.result # "ok"
  /\ Linked(h) /\ InTurn(writes) => Linked(r.hive)

LEMMA GrowsOn ==
  ASSUME NEW f, NEW g, NEW h, Grows(f, g), Grows(g, h)
  PROVE  Grows(f, h)
BY DEF Grows

\* A write made after the others is in the hive, and so are they.
LEMMA SetKeeps ==
  ASSUME NEW writes, NEW k \in Nat \ {0}, NEW h, Recorded(h, writes, k - 1),
         writes[k].stop = "ok", NEW g, SetIn(h, writes[k], g)
  PROVE  Recorded(g, writes, k)
<1> DEFINE w == writes[k]
<1>1. /\ DOMAIN g = DOMAIN h \cup {w.key} /\ Grows(h, g)
      /\ \A key \in DOMAIN g : \A n \in DOMAIN g[key] :
           Still(h, g, key, n) \/ (key = w.key /\ n = w.name /\ n[1] # Absent)
      /\ w.name[1] # Absent => w.name \in DOMAIN g[w.key] /\ g[w.key][w.name] = w.data
  BY DEF SetIn
<1>2. LastIn(writes, k, k) /\ k \in 1 .. k
  BY DEF LastIn
<1>3. RecordedBy(g, writes, k, k)
  BY <1>1, <1>2 DEF RecordedBy
<1>4. ASSUME NEW i \in 1 .. k - 1 PROVE RecordedBy(g, writes, k, i)
  <2> DEFINE key == writes[i].key
             name == writes[i].name
  <2>1. writes[i].stop = "ok" /\ key \in DOMAIN h
    BY DEF Recorded, RecordedBy
  <2>2. key \in DOMAIN g
    BY <1>1, <2>1
  <2>3. CASE name[1] = Absent
    BY <2>1, <2>2, <2>3 DEF RecordedBy
  <2>4. CASE name[1] # Absent
    <3>1. PICK j \in 1 .. k - 1 : /\ writes[j].key = key /\ writes[j].name = name
                                  /\ LastIn(writes, k - 1, j) /\ h[key][name] = writes[j].data
      BY <2>4 DEF Recorded, RecordedBy
    <3>2. name \in DOMAIN h[key]
      BY <2>4 DEF Recorded, RecordedBy
    <3>3. name \in DOMAIN g[key]
      BY <1>1, <2>1, <3>2 DEF Grows
    <3>4. CASE key = w.key /\ name = w.name
      BY <1>1, <1>2, <2>1, <2>2, <3>3, <3>4 DEF RecordedBy
    <3>5. CASE ~(key = w.key /\ name = w.name)
      <4>1. g[key][name] = h[key][name]
        BY <1>1, <2>2, <3>3, <3>5 DEF Still
      <4>2. j \in 1 .. k
        OBVIOUS
      <4>3. LastIn(writes, k, j)
        <5> SUFFICES ASSUME NEW l \in 1 .. k, l > j, writes[l].key = key, writes[l].name = name PROVE FALSE
          BY <3>1 DEF LastIn
        <5>1. l = k \/ l \in 1 .. k - 1
          OBVIOUS
        <5> QED
          BY <3>1, <3>5, <5>1 DEF LastIn
      <4> HIDE DEF key, name
      <4>4. \E m \in 1 .. k : /\ writes[m].key = key /\ writes[m].name = name
                              /\ LastIn(writes, k, m) /\ g[key][name] = writes[m].data
        BY <3>1, <4>1, <4>2, <4>3
      <4> QED
        BY <2>1, <2>2, <3>3, <4>4 DEF RecordedBy, key, name
    <3> QED
      BY <3>4, <3>5
  <2> QED
    BY <2>3, <2>4
<1>5. \A i \in 1 .. k : i = k \/ i \in 1 .. k - 1
  OBVIOUS
<1> QED
  BY <1>3, <1>4, <1>5 DEF Recorded

\* A write in its turn links a catalog to what is there.
LEMMA SetLinks ==
  ASSUME NEW h, Linked(h), NEW writes, InTurn(writes), NEW k \in 1 .. Len(writes),
         Recorded(h, writes, k - 1), writes[k].stop = "ok", NEW g, SetIn(h, writes[k], g)
  PROVE  Linked(g)
<1> DEFINE w == writes[k]
<1>1. /\ DOMAIN g = DOMAIN h \cup {w.key}
      /\ \A key \in DOMAIN g : \A n \in DOMAIN g[key] :
           Still(h, g, key, n) \/ (key = w.key /\ n = w.name /\ n[1] # Absent)
  BY DEF SetIn
<1> SUFFICES ASSUME NEW key \in DOMAIN g, key[1] = "Catalogs", NEW n \in DOMAIN g[key]
             PROVE  <<"Deployments", n[2]>> \in DOMAIN g
  BY DEF Linked
<1>2. CASE Still(h, g, key, n)
  BY <1>1, <1>2 DEF Still, Linked
<1>3. CASE key = w.key /\ n = w.name /\ n[1] # Absent
  <2>1. Links(w)
    BY <1>3 DEF Links
  <2>2. PICK j \in 1 .. k - 1 : Makes(writes[j], <<"Deployments", w.name[2]>>)
    BY <2>1 DEF InTurn
  <2>3. writes[j].key \in DOMAIN h
    BY DEF Recorded, RecordedBy
  <2> QED
    BY <1>1, <1>3, <2>2, <2>3 DEF Makes
<1> QED
  BY <1>1, <1>2, <1>3

LEMMA RegisterStep ==
  ASSUME NEW h, NEW writes, Len(writes) \in Nat, NEW k \in 1 .. Len(writes),
         NEW a, RegisteredSoFar(h, writes, k - 1, a), NEW b, b = Register(a, writes[k]),
         k = 1 => a.result = "ok" /\ a.hive = h
  PROVE  RegisteredSoFar(h, writes, k, b)
<1> DEFINE w == writes[k]
           u == a.hive
           g == SetKeyValue(u, w)
<1>1. /\ a = [hive |-> u, result |-> a.result] /\ IsHive(u) /\ Grows(h, u)
      /\ \A key \in DOMAIN u : \A n \in DOMAIN u[key] :
           Still(h, u, key, n) \/ \E i \in 1 .. k - 1 : Writes(writes[i], key, n)
      /\ \A key \in DOMAIN u \ DOMAIN h : \E i \in 1 .. k - 1 : Makes(writes[i], key)
      /\ a.result = "ok" => Recorded(u, writes, k - 1)
      /\ (\A i \in 1 .. Len(writes) : writes[i].stop = "ok") => a.result = "ok"
      /\ k - 1 >= 1 /\ writes[1].stop # "ok" => u = h /\ a.result # "ok"
      /\ Linked(h) /\ InTurn(writes) => Linked(u)
  BY DEF RegisteredSoFar
<1>2. k \in 1 .. k /\ \A i \in 1 .. k - 1 : i \in 1 .. k
  OBVIOUS
<1>3. k = 1 \/ k - 1 >= 1
  OBVIOUS
<1>4. /\ \A key \in DOMAIN u : \A n \in DOMAIN u[key] :
           Still(h, u, key, n) \/ \E i \in 1 .. k : Writes(writes[i], key, n)
      /\ \A key \in DOMAIN u \ DOMAIN h : \E i \in 1 .. k : Makes(writes[i], key)
  BY <1>1, <1>2
<1> HIDE DEF u
<1>5. CASE a.result # "ok"
  <2>1. b = a
    BY <1>5 DEF Register
  <2>2. b.hive = u /\ b.result # "ok" /\ b = [hive |-> b.hive, result |-> b.result]
    BY <1>1, <1>5, <2>1 DEF u
  <2>3. k >= 1 /\ writes[1].stop # "ok" => u = h
    BY <1>1, <1>3 DEF u
  <2> QED
    BY <1>1, <1>4, <1>5, <2>2, <2>3 DEF RegisteredSoFar
<1>6. CASE a.result = "ok" /\ w.stop # "ok"
  <2>1. b = [a EXCEPT !.result = w.stop]
    BY <1>6 DEF Register
  <2>2. b.hive = u /\ b.result # "ok" /\ b = [hive |-> b.hive, result |-> b.result]
    <3>1. b.hive = a.hive /\ b.result = w.stop /\ b = [hive |-> b.hive, result |-> b.result]
      BY <1>1, <2>1
    <3> QED
      BY <1>6, <3>1 DEF u
  <2>3. k >= 1 /\ writes[1].stop # "ok" => u = h
    BY <1>1, <1>3 DEF u
  <2> QED
    BY <1>1, <1>4, <1>6, <2>2, <2>3 DEF RegisteredSoFar
<1>7. CASE a.result = "ok" /\ w.stop = "ok"
  <2>1. b = [a EXCEPT !.hive = g]
    BY <1>7 DEF Register, u
  <2>2. SetIn(u, w, g)
    BY <1>1, SetKeyIs
  <2> HIDE DEF g
  <2>3. b.hive = g /\ b.result = "ok" /\ b = [hive |-> b.hive, result |-> b.result]
    BY <1>1, <1>7, <2>1
  <2>4. /\ IsHive(g) /\ DOMAIN g = DOMAIN u \cup {w.key} /\ Grows(u, g)
        /\ \A key \in DOMAIN g : \A n \in DOMAIN g[key] :
             Still(u, g, key, n) \/ (key = w.key /\ n = w.name /\ n[1] # Absent)
    BY <2>2 DEF SetIn
  <2>5. Grows(h, g)
    BY <1>1, <2>4, GrowsOn
  <2>6. Recorded(g, writes, k)
    <3>1. Recorded(u, writes, k - 1) /\ k \in Nat \ {0}
      BY <1>1, <1>7
    <3> QED
      BY <1>7, <2>2, <3>1, SetKeeps
  <2>7. ASSUME NEW key \in DOMAIN g, NEW n \in DOMAIN g[key]
        PROVE  Still(h, g, key, n) \/ \E i \in 1 .. k : Writes(writes[i], key, n)
    <3>1. CASE Still(u, g, key, n)
      <4>1. key \in DOMAIN u /\ n \in DOMAIN u[key] /\ g[key][n] = u[key][n]
        BY <3>1 DEF Still
      <4>2. Still(h, u, key, n) \/ \E i \in 1 .. k : Writes(writes[i], key, n)
        BY <1>4, <4>1
      <4> QED
        BY <4>1, <4>2 DEF Still
    <3>2. CASE key = w.key /\ n = w.name /\ n[1] # Absent
      <4>1. Writes(w, key, n)
        BY <1>7, <3>2 DEF Writes
      <4> QED
        BY <1>2, <4>1
    <3> QED
      BY <2>4, <3>1, <3>2
  <2>8. ASSUME NEW key \in DOMAIN g \ DOMAIN h PROVE \E i \in 1 .. k : Makes(writes[i], key)
    <3>1. CASE key \in DOMAIN u
      BY <1>4, <2>8, <3>1
    <3>2. CASE key = w.key
      <4>1. Makes(w, key)
        BY <1>7, <3>2 DEF Makes
      <4> QED
        BY <1>2, <4>1
    <3> QED
      BY <2>4, <2>8, <3>1, <3>2
  <2>9. writes[1].stop = "ok"
    BY <1>1, <1>3, <1>7
  <2>10. Linked(h) /\ InTurn(writes) => Linked(g)
    <3> SUFFICES ASSUME Linked(h), InTurn(writes) PROVE Linked(g)
      OBVIOUS
    <3>1. Linked(u) /\ Recorded(u, writes, k - 1)
      BY <1>1, <1>7
    <3> QED
      BY <1>7, <2>2, <3>1, SetLinks
  <2> QED
    BY <2>3, <2>4, <2>5, <2>6, <2>7, <2>8, <2>9, <2>10 DEF RegisteredSoFar
<1> QED
  BY <1>5, <1>6, <1>7

\* Making some writes does to a hive what making each in turn does.
LEMMA RegisterAllDoes ==
  ASSUME NEW h, IsHive(h), NEW writes, Len(writes) \in Nat
  PROVE  RegisteredSoFar(h, writes, Len(writes), RegisterAll(h, writes))
<1> DEFINE n == Len(writes)
<1>1. PICK r : RegistersBy(r, h, writes)
  BY RegisterSteps
<1>2. /\ r[0] = [hive |-> h, result |-> "ok"] /\ RegisterAll(h, writes) = r[n]
      /\ \A k \in 1 .. n : r[k] = Register(r[k - 1], writes[k])
  BY <1>1 DEF RegistersBy
<1> DEFINE S == {k \in 0 .. n : RegisteredSoFar(h, writes, k, r[k])}
<1>3. 0 \in S
  <2>1. r[0].hive = h /\ r[0].result = "ok" /\ 1 .. 0 = {} /\ ~(0 >= 1)
    BY <1>2
  <2>2. r[0] = [hive |-> r[0].hive, result |-> r[0].result] /\ Recorded(h, writes, 0) /\ Grows(h, h)
    BY <1>2, <2>1 DEF Recorded, Grows
  <2>3. \A key \in DOMAIN h : \A m \in DOMAIN h[key] : Still(h, h, key, m)
    BY DEF Still
  <2>4. RegisteredSoFar(h, writes, 0, r[0])
    BY <2>1, <2>2, <2>3 DEF RegisteredSoFar
  <2> QED
    BY <2>4
<1>4. ASSUME NEW k \in 1 .. n, k - 1 \in S PROVE k \in S
  <2>1. RegisteredSoFar(h, writes, k - 1, r[k - 1]) /\ k \in 0 .. n
    BY <1>4
  <2>2. k = 1 => r[k - 1].result = "ok" /\ r[k - 1].hive = h
    BY <1>2
  <2>3. RegisteredSoFar(h, writes, k, r[k])
    BY <1>2, <2>1, <2>2, RegisterStep
  <2> QED
    BY <2>1, <2>3
<1>5. n \in S
  <2> HIDE DEF S, n
  <2>1. n \in Nat
    BY DEF n
  <2>2. 0 .. n \subseteq S
    BY <1>3, <1>4, <2>1, UpTo
  <2> QED
    BY <2>1, <2>2
<1> QED
  BY <1>2, <1>5

\* Writes that a hive has all of are made again without a change to it.
LEMMA RecordedStays ==
  ASSUME NEW h, IsHive(h), NEW writes, Len(writes) \in Nat, Recorded(h, writes, Len(writes))
  PROVE  RegisterAll(h, writes).hive = h /\ RegisterAll(h, writes).result = "ok"
<1> DEFINE n == Len(writes)
           r == RegisterAll(h, writes)
           u == r.hive
<1>1. RegisteredSoFar(h, writes, n, r)
  BY RegisterAllDoes
<1>2. \A i \in 1 .. n : RecordedBy(h, writes, n, i)
  BY DEF Recorded
<1>3. r.result = "ok"
  <2>1. \A i \in 1 .. n : writes[i].stop = "ok"
    BY <1>2 DEF RecordedBy
  <2> QED
    BY <1>1, <2>1 DEF RegisteredSoFar
<1> HIDE DEF r
<1>4. \A i \in 1 .. n : RecordedBy(u, writes, n, i)
  BY <1>1, <1>3 DEF RegisteredSoFar, Recorded
<1>5. /\ IsHive(u) /\ Grows(h, u)
      /\ \A key \in DOMAIN u : \A m \in DOMAIN u[key] :
           Still(h, u, key, m) \/ \E i \in 1 .. n : Writes(writes[i], key, m)
      /\ \A key \in DOMAIN u \ DOMAIN h : \E i \in 1 .. n : Makes(writes[i], key)
  BY <1>1 DEF RegisteredSoFar
<1> HIDE DEF u
<1>6. DOMAIN u = DOMAIN h
  <2>1. \A i \in 1 .. n : writes[i].key \in DOMAIN h
    BY <1>2 DEF RecordedBy
  <2>2. DOMAIN u \subseteq DOMAIN h
    BY <1>5, <2>1 DEF Makes
  <2>3. DOMAIN h \subseteq DOMAIN u
    BY <1>5 DEF Grows
  <2> QED
    BY <2>2, <2>3
<1>7. ASSUME NEW key \in DOMAIN h, NEW m \in DOMAIN u[key]
      PROVE  m \in DOMAIN h[key] /\ u[key][m] = h[key][m]
  <2>1. CASE Still(h, u, key, m)
    BY <2>1 DEF Still
  <2>2. CASE \E i \in 1 .. n : Writes(writes[i], key, m)
    <3>1. PICK i \in 1 .. n : writes[i].key = key /\ writes[i].name = m /\ m[1] # Absent
      BY <2>2 DEF Writes
    <3>2. m \in DOMAIN h[key]
      BY <1>2, <3>1 DEF RecordedBy
    <3>3. PICK j \in 1 .. n : /\ writes[j].key = key /\ writes[j].name = m
                              /\ LastIn(writes, n, j) /\ h[key][m] = writes[j].data
      BY <1>2, <3>1 DEF RecordedBy
    <3>4. PICK l \in 1 .. n : /\ writes[l].key = key /\ writes[l].name = m
                              /\ LastIn(writes, n, l) /\ u[key][m] = writes[l].data
      BY <1>4, <3>1 DEF RecordedBy
    <3>5. ~(l > j) /\ ~(j > l)
      BY <3>3, <3>4 DEF LastIn
    <3>6. l = j
      BY <3>5
    <3> QED
      BY <3>2, <3>3, <3>4, <3>6
  <2> QED
    BY <1>5, <1>6, <2>1, <2>2
<1>8. u = h
  <2>1. u = [k \in DOMAIN u |-> [m \in DOMAIN u[k] |-> u[k][m]]]
    BY <1>5 DEF IsHive
  <2>2. h = [k \in DOMAIN h |-> [m \in DOMAIN h[k] |-> h[k][m]]]
    BY DEF IsHive
  <2>3. \A k \in DOMAIN h : DOMAIN u[k] = DOMAIN h[k]
    <3>1. \A k \in DOMAIN h : DOMAIN h[k] \subseteq DOMAIN u[k]
      BY <1>5 DEF Grows
    <3> QED
      BY <1>7, <3>1
  <2>4. \A k \in DOMAIN h : [m \in DOMAIN u[k] |-> u[k][m]] = [m \in DOMAIN h[k] |-> h[k][m]]
    BY <1>7, <2>3
  <2> QED
    BY <1>6, <2>1, <2>2, <2>4
<1> QED
  BY <1>3, <1>8 DEF r, u

-----------------------------------------------------------------------------
(* The lists of files.                                                       *)

LEMMA NoneIsList == IsList(<<>>) /\ ToSet(<<>>) = {} /\ Len(<<>>) = 0
<1>1. ToSet(<<>>) = {}
  BY DEF ToSet
<1> QED
  BY <1>1 DEF IsList

LEMMA OneIsList ==
  ASSUME NEW x
  PROVE  IsList(<<x>>) /\ ToSet(<<x>>) = {x} /\ Len(<<x>>) = 1
<1>1. <<x>> \in Seq({x}) /\ Len(<<x>>) = 1 /\ <<x>>[1] = x /\ DOMAIN <<x>> = {1}
  OBVIOUS
<1>2. ToSet(<<x>>) = {x}
  BY <1>1 DEF ToSet
<1> QED
  BY <1>1, <1>2 DEF IsList

LEMMA TwoIsList ==
  ASSUME NEW x, NEW y
  PROVE  IsList(<<x, y>>) /\ ToSet(<<x, y>>) = {x, y} /\ Len(<<x, y>>) = 2
<1>1. <<x, y>> \in Seq({x, y}) /\ Len(<<x, y>>) = 2 /\ DOMAIN <<x, y>> = {1, 2}
      /\ <<x, y>>[1] = x /\ <<x, y>>[2] = y
  OBVIOUS
<1>2. ToSet(<<x, y>>) = {x, y}
  BY <1>1 DEF ToSet
<1> QED
  BY <1>1, <1>2 DEF IsList

LEMMA AppendEntries ==
  ASSUME NEW X, NEW s \in Seq(X), NEW z \in X
  PROVE  /\ Append(s, z) \in Seq(X) /\ Len(Append(s, z)) = Len(s) + 1
         /\ \A i \in 1 .. Len(s) : Append(s, z)[i] = s[i]
         /\ Append(s, z)[Len(s) + 1] = z
<1>1. Append(s, z) \in Seq(X) /\ Len(Append(s, z)) = Len(s) + 1
  OBVIOUS
<1>2. Append(s, z)[Len(s) + 1] = z
  OBVIOUS
<1>3. \A i \in 1 .. Len(s) : Append(s, z)[i] = s[i]
  OBVIOUS
<1> QED
  BY <1>1, <1>2, <1>3

LEMMA ThreeIsList ==
  ASSUME NEW x, NEW y, NEW z
  PROVE  IsList(<<x, y, z>>) /\ Append(<<x, y>>, z) = <<x, y, z>>
<1>1. <<x, y, z>> \in Seq({x, y, z})
  OBVIOUS
<1>2. Append(<<x, y>>, z) = <<x, y, z>>
  <2>1. <<x, y>> \in Seq({x, y, z}) /\ z \in {x, y, z}
    OBVIOUS
  <2>2. /\ Append(<<x, y>>, z) \in Seq({x, y, z}) /\ Len(Append(<<x, y>>, z)) = Len(<<x, y>>) + 1
        /\ \A i \in 1 .. Len(<<x, y>>) : Append(<<x, y>>, z)[i] = <<x, y>>[i]
        /\ Append(<<x, y>>, z)[Len(<<x, y>>) + 1] = z
    BY <2>1, AppendEntries
  <2> DEFINE s == Append(<<x, y>>, z)
             t == <<x, y, z>>
  <2>3. Len(<<x, y>>) = 2 /\ <<x, y>>[1] = x /\ <<x, y>>[2] = y /\ 1 \in 1 .. 2 /\ 2 \in 1 .. 2 /\ 2 + 1 = 3
    OBVIOUS
  <2>4. Len(s) = 3 /\ s[1] = x /\ s[2] = y /\ s[3] = z
    BY <2>2, <2>3
  <2>5. t \in Seq({x, y, z}) /\ Len(t) = 3 /\ t[1] = x /\ t[2] = y /\ t[3] = z
    OBVIOUS
  <2>6. \A i \in 1 .. 3 : i = 1 \/ i = 2 \/ i = 3
    OBVIOUS
  <2>7. s \in Seq({x, y, z})
    BY <2>2
  <2> HIDE DEF s, t
  <2>8. \A i \in 1 .. Len(s) : s[i] = t[i]
    BY <2>4, <2>5, <2>6
  <2>9. s = t
    BY <2>4, <2>5, <2>7, <2>8, SeqEqual
  <2> QED
    BY <2>9 DEF s, t
<1> QED
  BY <1>1, <1>2, ListOver

LEMMA LongerIsList ==
  ASSUME NEW s, IsList(s), NEW x
  PROVE  IsList(Append(s, x))
<1>1. s \in Seq(ToSet(s) \cup {x})
  BY ListWithin
<1>2. Append(s, x) \in Seq(ToSet(s) \cup {x})
  BY <1>1
<1> QED
  BY <1>2, ListOver

\* Lists one after the other have the entries of each.
LEMMA FlattenEntries ==
  ASSUME NEW lists, IsList(lists), \A i \in 1 .. Len(lists) : IsList(lists[i])
  PROVE  /\ IsList(FlattenSeq(lists))
         /\ ToSet(FlattenSeq(lists)) = UNION {ToSet(lists[i]) : i \in 1 .. Len(lists)}
<1> DEFINE w == FlattenSeq(lists)
           X == UNION {ToSet(lists[i]) : i \in 1 .. Len(lists)}
<1>1. IsList(w) /\ \E part : InOrder(w, lists, Len(lists), part)
  BY FlattenOrder
<1>2. PICK part : InOrder(w, lists, Len(lists), part)
  BY <1>1
<1> HIDE DEF w
<1>3. ASSUME NEW x \in ToSet(w) PROVE x \in X
  <2>1. PICK p \in 1 .. Len(w) : w[p] = x
    BY <1>1, ListIs
  <2>2. part[p] \in 1 .. Len(lists) /\ x \in ToSet(lists[part[p]])
    BY <1>2, <2>1 DEF InOrder
  <2> QED
    BY <2>2
<1>4. ASSUME NEW i \in 1 .. Len(lists), NEW x \in ToSet(lists[i]) PROVE x \in ToSet(w)
  <2>1. PICK p \in 1 .. Len(w) : w[p] = x
    BY <1>2 DEF InOrder
  <2> QED
    BY <1>1, <2>1, ListIs
<1> QED
  BY <1>1, <1>3, <1>4 DEF w

\* One entry for each of a list.
LEMMA EachIsList ==
  ASSUME NEW s, IsList(s), NEW f, f = [i \in DOMAIN s |-> f[i]]
  PROVE  /\ IsList(f) /\ Len(f) = Len(s) /\ DOMAIN f = 1 .. Len(s)
         /\ ToSet(f) = {f[i] : i \in 1 .. Len(s)}
<1>1. Len(s) \in Nat /\ DOMAIN s = 1 .. Len(s)
  BY ListIs
<1>2. f = [i \in 1 .. Len(s) |-> f[i]]
  BY <1>1
<1>3. IsList(f) /\ Len(f) = Len(s) /\ DOMAIN f = 1 .. Len(s)
  BY <1>1, <1>2, FunctionIsList
<1> QED
  BY <1>3 DEF ToSet

FileLists(c) == IsList(c.files) /\ \A f \in ToSet(c.files) : IsList(f.dests)

\* The copies of one file, and all files of a component and of a package.
CopiesOf(keyform, f) ==
  {At(Append(StorePath(keyform), f.name), f.data)} \cup {At(Append(d, f.name), f.data) : d \in ToSet(f.dests)}
FilesIn(c) ==
  {At(ManifestPath(c.keyform), c.manifest)} \cup UNION {CopiesOf(c.keyform, f) : f \in ToSet(c.files)}
FilesWith(p) ==
  {At(MumPath(p.name), p.mum)}
  \cup IF p.catalog = Absent THEN {}
       ELSE {At(CatPath(p.name), p.catalog), At(CatalogPath(p.catalog), p.catalog)}

LEMMA CopiesAre ==
  ASSUME NEW keyform, NEW f, IsList(f.dests), NEW s,
         s = <<At(Append(StorePath(keyform), f.name), f.data)>>
             \o [k \in DOMAIN f.dests |-> At(Append(f.dests[k], f.name), f.data)]
  PROVE  IsList(s) /\ ToSet(s) = CopiesOf(keyform, f)
<1> DEFINE one == At(Append(StorePath(keyform), f.name), f.data)
           g == [k \in DOMAIN f.dests |-> At(Append(f.dests[k], f.name), f.data)]
<1>1. IsList(<<one>>) /\ ToSet(<<one>>) = {one}
  BY OneIsList
<1>2. /\ DOMAIN f.dests = 1 .. Len(f.dests)
      /\ \A k \in 1 .. Len(f.dests) : f.dests[k] \in ToSet(f.dests)
      /\ \A d \in ToSet(f.dests) : \E k \in 1 .. Len(f.dests) : f.dests[k] = d
  BY ListIs
<1>3. \A k \in 1 .. Len(f.dests) : g[k] = At(Append(f.dests[k], f.name), f.data)
  BY <1>2
<1>4. g = [k \in DOMAIN f.dests |-> g[k]]
  OBVIOUS
<1>5. s = <<one>> \o g
  OBVIOUS
<1> HIDE DEF g, one
<1>6. IsList(g) /\ ToSet(g) = {g[k] : k \in 1 .. Len(f.dests)}
  BY <1>4, EachIsList
<1>7. ToSet(g) = {At(Append(d, f.name), f.data) : d \in ToSet(f.dests)}
  <2>1. \A x \in ToSet(g) : \E d \in ToSet(f.dests) : x = At(Append(d, f.name), f.data)
    BY <1>2, <1>3, <1>6
  <2>2. \A d \in ToSet(f.dests) : At(Append(d, f.name), f.data) \in ToSet(g)
    BY <1>2, <1>3, <1>6
  <2> QED
    BY <2>1, <2>2
<1>8. IsList(<<one>> \o g) /\ ToSet(<<one>> \o g) = ToSet(<<one>>) \cup ToSet(g)
  BY <1>1, <1>6, TwoLists
<1> QED
  BY <1>1, <1>5, <1>7, <1>8 DEF CopiesOf, one

LEMMA ComponentFilesAre ==
  ASSUME NEW c, FileLists(c)
  PROVE  IsList(ComponentFiles(c)) /\ ToSet(ComponentFiles(c)) = FilesIn(c)
<1> DEFINE one == At(ManifestPath(c.keyform), c.manifest)
           copies(f) == <<At(Append(StorePath(c.keyform), f.name), f.data)>>
                        \o [k \in DOMAIN f.dests |-> At(Append(f.dests[k], f.name), f.data)]
           g == [i \in DOMAIN c.files |-> copies(c.files[i])]
           n == Len(c.files)
<1>1. /\ IsList(c.files) /\ DOMAIN c.files = 1 .. n
      /\ \A i \in 1 .. n : c.files[i] \in ToSet(c.files)
      /\ \A f \in ToSet(c.files) : \E i \in 1 .. n : c.files[i] = f
  BY ListIs DEF FileLists
<1>2. \A f \in ToSet(c.files) : IsList(copies(f)) /\ ToSet(copies(f)) = CopiesOf(c.keyform, f)
  BY CopiesAre DEF FileLists
<1>3. ComponentFiles(c) = <<one>> \o FlattenSeq(g)
  BY DEF ComponentFiles
<1> HIDE DEF one, copies, n
<1>4. IsList(g) /\ Len(g) = n /\ DOMAIN g = 1 .. n
  BY <1>1, EachIsList DEF n
<1>5. \A i \in 1 .. n : g[i] = copies(c.files[i])
  BY <1>1
<1> HIDE DEF g
<1>6. \A i \in 1 .. n : IsList(g[i]) /\ ToSet(g[i]) = CopiesOf(c.keyform, c.files[i])
  BY <1>1, <1>2, <1>5
<1>7. IsList(FlattenSeq(g)) /\ ToSet(FlattenSeq(g)) = UNION {ToSet(g[i]) : i \in 1 .. n}
  BY <1>4, <1>6, FlattenEntries
<1>8. UNION {ToSet(g[i]) : i \in 1 .. n} = UNION {CopiesOf(c.keyform, f) : f \in ToSet(c.files)}
  BY <1>1, <1>6
<1>9. IsList(<<one>>) /\ ToSet(<<one>>) = {one}
  BY OneIsList
<1>10. IsList(ComponentFiles(c)) /\ ToSet(ComponentFiles(c)) = ToSet(<<one>>) \cup ToSet(FlattenSeq(g))
  BY <1>3, <1>7, <1>9, TwoLists
<1> QED
  BY <1>7, <1>8, <1>9, <1>10 DEF FilesIn, one

LEMMA PackageFilesAre ==
  ASSUME NEW p
  PROVE  IsList(PackageFiles(p)) /\ ToSet(PackageFiles(p)) = FilesWith(p)
<1> DEFINE mum == At(MumPath(p.name), p.mum)
           cat == At(CatPath(p.name), p.catalog)
           cats == At(CatalogPath(p.catalog), p.catalog)
           rest == IF p.catalog = Absent THEN <<>> ELSE <<cat, cats>>
<1>1. PackageFiles(p) = <<mum>> \o rest
  BY DEF PackageFiles
<1>2. FilesWith(p) = {mum} \cup IF p.catalog = Absent THEN {} ELSE {cat, cats}
  BY DEF FilesWith
<1> HIDE DEF mum, cat, cats
<1>3. IsList(<<mum>>) /\ ToSet(<<mum>>) = {mum}
  BY OneIsList
<1>4. IsList(rest) /\ ToSet(rest) = IF p.catalog = Absent THEN {} ELSE {cat, cats}
  <2>1. IsList(<<cat, cats>>) /\ ToSet(<<cat, cats>>) = {cat, cats}
    BY TwoIsList
  <2> QED
    BY <2>1, NoneIsList
<1> HIDE DEF rest
<1>5. IsList(<<mum>> \o rest) /\ ToSet(<<mum>> \o rest) = ToSet(<<mum>>) \cup ToSet(rest)
  BY <1>3, <1>4, TwoLists
<1> QED
  BY <1>1, <1>2, <1>3, <1>4, <1>5

\* Lists of files of the components, and of the packages, one after the other.
ComponentLists(inst) == [i \in DOMAIN inst.components |-> ComponentFiles(inst.components[i])]
PackageLists(inst) == [i \in DOMAIN inst.packages |-> PackageFiles(inst.packages[i])]

LEMMA FileListsAre ==
  ASSUME NEW inst, AreLists(inst)
  PROVE  /\ IsList(ComponentLists(inst)) /\ Len(ComponentLists(inst)) = Len(inst.components)
         /\ IsList(PackageLists(inst)) /\ Len(PackageLists(inst)) = Len(inst.packages)
         /\ \A i \in 1 .. Len(inst.components) : /\ IsList(ComponentLists(inst)[i])
                                                 /\ ToSet(ComponentLists(inst)[i]) = FilesIn(inst.components[i])
         /\ \A i \in 1 .. Len(inst.packages) : /\ IsList(PackageLists(inst)[i])
                                               /\ ToSet(PackageLists(inst)[i]) = FilesWith(inst.packages[i])
<1>1. /\ IsList(inst.components) /\ IsList(inst.packages)
      /\ \A c \in ToSet(inst.components) : FileLists(c)
  BY DEF AreLists, FileLists
<1>2. /\ DOMAIN inst.components = 1 .. Len(inst.components) /\ DOMAIN inst.packages = 1 .. Len(inst.packages)
      /\ \A i \in 1 .. Len(inst.components) : inst.components[i] \in ToSet(inst.components)
  BY <1>1, ListIs
<1>3. /\ IsList(ComponentLists(inst)) /\ Len(ComponentLists(inst)) = Len(inst.components)
      /\ IsList(PackageLists(inst)) /\ Len(PackageLists(inst)) = Len(inst.packages)
  BY <1>1, EachIsList DEF ComponentLists, PackageLists
<1>4. /\ \A i \in 1 .. Len(inst.components) : ComponentLists(inst)[i] = ComponentFiles(inst.components[i])
      /\ \A i \in 1 .. Len(inst.packages) : PackageLists(inst)[i] = PackageFiles(inst.packages[i])
  BY <1>2 DEF ComponentLists, PackageLists
<1> QED
  BY <1>1, <1>2, <1>3, <1>4, ComponentFilesAre, PackageFilesAre

\* What an installation places.
PlacesFile(inst, w) ==
  \/ \E c \in ToSet(inst.components) : w \in FilesIn(c)
  \/ \E p \in ToSet(inst.packages) : w \in FilesWith(p)

LEMMA FilesOfAre ==
  ASSUME NEW inst, AreLists(inst)
  PROVE  IsList(FilesOf(inst)) /\ \A w : w \in ToSet(FilesOf(inst)) <=> PlacesFile(inst, w)
<1> DEFINE cs == ComponentLists(inst)
           ps == PackageLists(inst)
<1>1. FilesOf(inst) = FlattenSeq(cs) \o FlattenSeq(ps)
  BY DEF FilesOf, ComponentLists, PackageLists
<1>2. /\ IsList(cs) /\ Len(cs) = Len(inst.components)
      /\ IsList(ps) /\ Len(ps) = Len(inst.packages)
      /\ \A i \in 1 .. Len(inst.components) : IsList(cs[i]) /\ ToSet(cs[i]) = FilesIn(inst.components[i])
      /\ \A i \in 1 .. Len(inst.packages) : IsList(ps[i]) /\ ToSet(ps[i]) = FilesWith(inst.packages[i])
  BY FileListsAre
<1> HIDE DEF cs, ps
<1>3. /\ IsList(FlattenSeq(cs)) /\ ToSet(FlattenSeq(cs)) = UNION {ToSet(cs[i]) : i \in 1 .. Len(cs)}
      /\ IsList(FlattenSeq(ps)) /\ ToSet(FlattenSeq(ps)) = UNION {ToSet(ps[i]) : i \in 1 .. Len(ps)}
  BY <1>2, FlattenEntries
<1>4. /\ IsList(FilesOf(inst))
      /\ ToSet(FilesOf(inst)) = ToSet(FlattenSeq(cs)) \cup ToSet(FlattenSeq(ps))
  BY <1>1, <1>3, TwoLists
<1>5. /\ \A i \in 1 .. Len(inst.components) : inst.components[i] \in ToSet(inst.components)
      /\ \A c \in ToSet(inst.components) : \E i \in 1 .. Len(inst.components) : inst.components[i] = c
  BY ListIs DEF AreLists
<1>6. /\ \A i \in 1 .. Len(inst.packages) : inst.packages[i] \in ToSet(inst.packages)
      /\ \A p \in ToSet(inst.packages) : \E i \in 1 .. Len(inst.packages) : inst.packages[i] = p
  BY ListIs DEF AreLists
<1>7. \A w : w \in ToSet(FlattenSeq(cs)) <=> \E c \in ToSet(inst.components) : w \in FilesIn(c)
  BY <1>2, <1>3, <1>5
<1>8. \A w : w \in ToSet(FlattenSeq(ps)) <=> \E p \in ToSet(inst.packages) : w \in FilesWith(p)
  BY <1>2, <1>3, <1>6
<1> QED
  BY <1>4, <1>7, <1>8 DEF PlacesFile

-----------------------------------------------------------------------------
(* Where they are placed.                                                    *)

KeyFormUsed(k) == k \in UNION {KeyForms(inst) : inst \in Installations}

LEMMA KeyFormsAre ==
  ASSUME NEW inst, AreLists(inst)
  PROVE  /\ KeyForms(inst) = {c.keyform : c \in ToSet(inst.components)}
         /\ PackageNames(inst) = {p.name : p \in ToSet(inst.packages)}
<1>1. IsList(inst.components) /\ IsList(inst.packages)
  BY DEF AreLists
<1>2. /\ \A x : x \in KeyForms(inst) <=> \E c \in ToSet(inst.components) : x = c.keyform
  BY <1>1 DEF KeyForms, ToSet
<1>3. /\ \A x : x \in PackageNames(inst) <=> \E p \in ToSet(inst.packages) : x = p.name
  BY <1>1 DEF PackageNames, ToSet
<1> QED
  BY <1>2, <1>3

\* The places of the store: two shapes.
LEMMA AboveThree ==
  ASSUME NEW a, NEW b, NEW c, NEW q \in Above(<<a, b, c>>)
  PROVE  Len(q) \in 1 .. 2 /\ q[1] = a
<1> DEFINE s == <<a, b, c>>
           X == {a, b, c}
<1>1. s \in Seq(X) /\ Len(s) = 3 /\ s[1] = a
  OBVIOUS
<1> HIDE DEF s, X
<1>2. PICK k \in 1 .. 2 : q = SubSeq(s, 1, k)
  BY <1>1 DEF Above, s
<1> QED
  BY <1>1, <1>2

LEMMA AboveTwo ==
  ASSUME NEW a, NEW b, NEW q \in Above(<<a, b>>)
  PROVE  Len(q) = 1
<1> DEFINE s == <<a, b>>
           X == {a, b}
<1>1. s \in Seq(X) /\ Len(s) = 2
  OBVIOUS
<1> HIDE DEF s, X
<1>2. PICK k \in 1 .. 1 : q = SubSeq(s, 1, k)
  BY <1>1 DEF Above, s
<1> QED
  BY <1>1, <1>2

InStore(p) == \E b, c : p = <<"WinSxS", b, c>>
OfPackages(p) == \E n : p = <<"Packages", n>> \/ p = <<"Package catalogs", n>>

LEMMA StorePathIs ==
  ASSUME NEW k, NEW n
  PROVE  Append(StorePath(k), n) = <<"WinSxS", k, n>>
BY ThreeIsList DEF StorePath

LEMMA PlaceShapes ==
  ASSUME NEW p \in StorePlaces
  PROVE  InStore(p) \/ OfPackages(p)
<1>1. PICK inst \in Installations : p \in PlacesOf(inst)
  BY DEF StorePlaces
<1>2. CASE \E c \in ToSet(inst.components) :
             p = ManifestPath(c.keyform) \/ \E f \in ToSet(c.files) : p = Append(StorePath(c.keyform), f.name)
  BY <1>2, StorePathIs DEF ManifestPath, InStore
<1>3. CASE \E q \in ToSet(inst.packages) :
             p = MumPath(q.name) \/ p = CatPath(q.name) \/ p = CatalogPath(q.catalog)
  BY <1>3 DEF MumPath, CatPath, CatalogPath, InStore, OfPackages
<1>4. \/ \E c \in ToSet(inst.components) :
             p \in {ManifestPath(c.keyform)} \cup {Append(StorePath(c.keyform), f.name) : f \in ToSet(c.files)}
      \/ \E q \in ToSet(inst.packages) : p \in {MumPath(q.name), CatPath(q.name), CatalogPath(q.catalog)}
  BY <1>1 DEF PlacesOf
<1> QED
  BY <1>2, <1>3, <1>4

LEMMA NotAbove ==
  ASSUME NEW p, InStore(p) \/ OfPackages(p), NEW q, InStore(q) \/ OfPackages(q)
  PROVE  p \notin Above(q)
<1>1. CASE InStore(q)
  <2>1. PICK b, c : q = <<"WinSxS", b, c>>
    BY <1>1 DEF InStore
  <2>2. SUFFICES ASSUME p \in Above(<<"WinSxS", b, c>>) PROVE FALSE
    BY <2>1
  <2>3. Len(p) \in 1 .. 2 /\ p[1] = "WinSxS"
    BY <2>2, AboveThree
  <2>4. CASE InStore(p)
    BY <2>3, <2>4 DEF InStore
  <2>5. CASE OfPackages(p)
    <3>1. PICK n : p = <<"Packages", n>> \/ p = <<"Package catalogs", n>>
      BY <2>5 DEF OfPackages
    <3>2. <<"Packages", n>>[1] = "Packages" /\ <<"Package catalogs", n>>[1] = "Package catalogs"
      OBVIOUS
    <3>3. p[1] = "Packages" \/ p[1] = "Package catalogs"
      BY <3>1, <3>2
    <3> QED
      BY <2>3, <3>3
  <2> QED
    BY <2>4, <2>5
<1>2. CASE OfPackages(q)
  <2>1. PICK n : q = <<"Packages", n>> \/ q = <<"Package catalogs", n>>
    BY <1>2 DEF OfPackages
  <2>2. SUFFICES ASSUME p \in Above(q) PROVE FALSE
    OBVIOUS
  <2>3. Len(p) = 1
    BY <2>1, <2>2, AboveTwo
  <2>4. CASE InStore(p)
    <3>1. PICK b, c : p = <<"WinSxS", b, c>>
      BY <2>4 DEF InStore
    <3>2. Len(p) = 3
      BY <3>1
    <3> QED
      BY <2>3, <3>2
  <2>5. CASE OfPackages(p)
    <3>1. PICK m : p = <<"Packages", m>> \/ p = <<"Package catalogs", m>>
      BY <2>5 DEF OfPackages
    <3>2. Len(<<"Packages", m>>) = 2 /\ Len(<<"Package catalogs", m>>) = 2
      OBVIOUS
    <3>3. Len(p) = 2
      BY <3>1, <3>2
    <3> QED
      BY <2>3, <3>3
  <2> QED
    BY <2>4, <2>5
<1> QED
  BY <1>1, <1>2

\* A file of the store itself, or one projected out of it.
OwnFile(inst, w) ==
  \/ \E c \in ToSet(inst.components) :
       \/ w = At(ManifestPath(c.keyform), c.manifest)
       \/ \E f \in ToSet(c.files) : w = At(Append(StorePath(c.keyform), f.name), f.data)
  \/ \E p \in ToSet(inst.packages) : w \in FilesWith(p)
Projected(inst, w) ==
  \E c \in ToSet(inst.components) : \E f \in ToSet(c.files) : \E d \in ToSet(f.dests) :
    w = At(Append(d, f.name), f.data)

LEMMA PlacedFilesAre ==
  ASSUME NEW inst, NEW w, PlacesFile(inst, w)
  PROVE  OwnFile(inst, w) \/ Projected(inst, w)
<1>1. CASE \E p \in ToSet(inst.packages) : w \in FilesWith(p)
  BY <1>1 DEF OwnFile
<1>2. CASE \E c \in ToSet(inst.components) : w \in FilesIn(c)
  <2>1. PICK c \in ToSet(inst.components) : w \in FilesIn(c)
    BY <1>2
  <2>2. CASE w = At(ManifestPath(c.keyform), c.manifest)
    BY <2>2 DEF OwnFile
  <2>3. CASE \E f \in ToSet(c.files) : w \in CopiesOf(c.keyform, f)
    <3>1. PICK f \in ToSet(c.files) : w \in CopiesOf(c.keyform, f)
      BY <2>3
    <3>2. w = At(Append(StorePath(c.keyform), f.name), f.data)
            \/ \E d \in ToSet(f.dests) : w = At(Append(d, f.name), f.data)
      BY <3>1 DEF CopiesOf
    <3> QED
      BY <3>2 DEF OwnFile, Projected
  <2> QED
    BY <2>1, <2>2, <2>3 DEF FilesIn
<1> QED
  BY <1>1, <1>2 DEF PlacesFile

LEMMA OwnShapes ==
  ASSUME NEW inst, NEW w, OwnFile(inst, w)
  PROVE  (InStore(w.path) \/ OfPackages(w.path)) /\ IsList(w.path)
<1>1. CASE \E c \in ToSet(inst.components) :
             \/ w = At(ManifestPath(c.keyform), c.manifest)
             \/ \E f \in ToSet(c.files) : w = At(Append(StorePath(c.keyform), f.name), f.data)
  <2>1. PICK c \in ToSet(inst.components) :
               \/ w = At(ManifestPath(c.keyform), c.manifest)
               \/ \E f \in ToSet(c.files) : w = At(Append(StorePath(c.keyform), f.name), f.data)
    BY <1>1
  <2>2. w.path = ManifestPath(c.keyform) \/ \E f \in ToSet(c.files) : w.path = Append(StorePath(c.keyform), f.name)
    BY <2>1 DEF At
  <2>3. InStore(ManifestPath(c.keyform)) /\ IsList(ManifestPath(c.keyform))
    BY ThreeIsList DEF ManifestPath, InStore
  <2>4. \A n : InStore(Append(StorePath(c.keyform), n)) /\ IsList(Append(StorePath(c.keyform), n))
    <3> TAKE n
    <3>1. Append(StorePath(c.keyform), n) = <<"WinSxS", c.keyform, n>>
      BY StorePathIs
    <3> QED
      BY <3>1, ThreeIsList DEF InStore
  <2> QED
    BY <2>2, <2>3, <2>4
<1>2. CASE \E p \in ToSet(inst.packages) : w \in FilesWith(p)
  <2>1. PICK p \in ToSet(inst.packages) : w \in FilesWith(p)
    BY <1>2
  <2>2. w = At(MumPath(p.name), p.mum) \/ w = At(CatPath(p.name), p.catalog) \/ w = At(CatalogPath(p.catalog), p.catalog)
    BY <2>1 DEF FilesWith
  <2>3. w.path = MumPath(p.name) \/ w.path = CatPath(p.name) \/ w.path = CatalogPath(p.catalog)
    BY <2>2 DEF At
  <2>4. OfPackages(MumPath(p.name)) /\ OfPackages(CatPath(p.name)) /\ InStore(CatalogPath(p.catalog))
    BY DEF MumPath, CatPath, CatalogPath, InStore, OfPackages
  <2>5. IsList(MumPath(p.name)) /\ IsList(CatPath(p.name)) /\ IsList(CatalogPath(p.catalog))
    BY TwoIsList, ThreeIsList DEF MumPath, CatPath, CatalogPath
  <2> QED
    BY <2>3, <2>4, <2>5
<1> QED
  BY <1>1, <1>2 DEF OwnFile

LEMMA ProjectedPaths ==
  ASSUME NEW inst \in Installations, NEW w, Projected(inst, w)
  PROVE  IsList(w.path) /\ ({w.path} \cup Above(w.path)) \cap StorePlaces = {}
<1>1. PICK c \in ToSet(inst.components) : \E f \in ToSet(c.files) : \E d \in ToSet(f.dests) :
             w = At(Append(d, f.name), f.data)
  BY DEF Projected
<1>2. PICK f \in ToSet(c.files) : \E d \in ToSet(f.dests) : w = At(Append(d, f.name), f.data)
  BY <1>1
<1>3. PICK d \in ToSet(f.dests) : w = At(Append(d, f.name), f.data)
  BY <1>2
<1>4. w.path = Append(d, f.name)
  BY <1>3 DEF At
<1>5. IsList(d)
  BY StoreAssumption DEF AreLists
<1>6. w.path \in ProjectionsOf(inst)
  BY <1>4 DEF ProjectionsOf
<1>7. ({w.path} \cup Above(w.path)) \cap StorePlaces = {}
  BY <1>6, StoreAssumption
<1> QED
  BY <1>4, <1>5, <1>7, LongerIsList

\* No file goes below a place of the store; paths are lists.
LEMMA PlacedPaths ==
  ASSUME NEW inst \in Installations, NEW w, PlacesFile(inst, w)
  PROVE  IsList(w.path) /\ Above(w.path) \cap StorePlaces = {}
<1>1. CASE OwnFile(inst, w)
  BY <1>1, OwnShapes, PlaceShapes, NotAbove
<1>2. CASE Projected(inst, w)
  BY <1>2, ProjectedPaths
<1> QED
  BY <1>1, <1>2, PlacedFilesAre

LEMMA MaxIs ==
  ASSUME NEW n \in Nat, NEW S \in SUBSET (1 .. n), S # {}
  PROVE  Max(S) \in S /\ \A x \in S : x <= Max(S)
<1> DEFINE R == {n - x : x \in S}
<1>1. R \in SUBSET Nat /\ R # {}
  <2>1. \A x \in S : n - x \in Nat
    OBVIOUS
  <2>2. PICK x : x \in S
    OBVIOUS
  <2>3. n - x \in R
    BY <2>2
  <2> QED
    BY <2>1, <2>3
<1>2. PICK y \in R : \A z \in R : y <= z
  <2> HIDE DEF R
  <2> QED
    BY <1>1, LeastNumber
<1>3. PICK m \in S : y = n - m
  OBVIOUS
<1>4. \A x \in S : m >= x
  <2> TAKE x \in S
  <2>1. n - m <= n - x
    BY <1>2, <1>3
  <2>2. m \in 1 .. n /\ x \in 1 .. n
    OBVIOUS
  <2> QED
    BY <2>1, <2>2
<1>5. Max(S) \in S /\ \A x \in S : Max(S) >= x
  <2>1. \E e \in S : \A x \in S : e >= x
    BY <1>4
  <2> QED
    BY <2>1 DEF Max
<1> QED
  BY <1>5

LastOf(S) == IF S # {} THEN Max(S) ELSE 0
FinalComponent(inst, k) == inst.components[LastOf({i \in 1 .. Len(inst.components) : inst.components[i].keyform = k})]
FinalPackage(inst, n) == inst.packages[LastOf({i \in 1 .. Len(inst.packages) : inst.packages[i].name = n})]

LEMMA FinalsAre ==
  ASSUME NEW inst, AreLists(inst)
  PROVE  /\ \A k \in KeyForms(inst) : /\ FinalComponent(inst, k) \in ToSet(inst.components)
                                      /\ FinalComponent(inst, k).keyform = k
         /\ \A n \in PackageNames(inst) : /\ FinalPackage(inst, n) \in ToSet(inst.packages)
                                          /\ FinalPackage(inst, n).name = n
<1>1. IsList(inst.components) /\ IsList(inst.packages)
  BY DEF AreLists
<1>2. ASSUME NEW k \in KeyForms(inst)
      PROVE  FinalComponent(inst, k) \in ToSet(inst.components) /\ FinalComponent(inst, k).keyform = k
  <2> DEFINE S == {i \in 1 .. Len(inst.components) : inst.components[i].keyform = k}
  <2>1. DOMAIN inst.components = 1 .. Len(inst.components) /\ Len(inst.components) \in Nat
    BY <1>1, ListIs
  <2>2. S # {}
    BY <2>1 DEF KeyForms
  <2>3. S \in SUBSET (1 .. Len(inst.components))
    OBVIOUS
  <2>4. Max(S) \in S
    <3> HIDE DEF S
    <3> QED
      BY <2>1, <2>2, <2>3, MaxIs
  <2>5. FinalComponent(inst, k) = inst.components[Max(S)]
    BY <2>2 DEF FinalComponent, LastOf
  <2>6. Max(S) \in 1 .. Len(inst.components) /\ inst.components[Max(S)].keyform = k
    BY <2>4
  <2> HIDE DEF S
  <2> QED
    BY <1>1, <2>5, <2>6, ListIs
<1>3. ASSUME NEW n \in PackageNames(inst)
      PROVE  FinalPackage(inst, n) \in ToSet(inst.packages) /\ FinalPackage(inst, n).name = n
  <2> DEFINE S == {i \in 1 .. Len(inst.packages) : inst.packages[i].name = n}
  <2>1. DOMAIN inst.packages = 1 .. Len(inst.packages) /\ Len(inst.packages) \in Nat
    BY <1>1, ListIs
  <2>2. S # {}
    BY <2>1 DEF PackageNames
  <2>3. S \in SUBSET (1 .. Len(inst.packages))
    OBVIOUS
  <2>4. Max(S) \in S
    <3> HIDE DEF S
    <3> QED
      BY <2>1, <2>2, <2>3, MaxIs
  <2>5. FinalPackage(inst, n) = inst.packages[Max(S)]
    BY <2>2 DEF FinalPackage, LastOf
  <2>6. Max(S) \in 1 .. Len(inst.packages) /\ inst.packages[Max(S)].name = n
    BY <2>4
  <2> HIDE DEF S
  <2> QED
    BY <1>1, <2>5, <2>6, ListIs
<1> QED
  BY <1>2, <1>3

LEMMA PlacesAre ==
  ASSUME NEW inst \in Installations
  PROVE  /\ \A c \in ToSet(inst.components) :
              /\ ManifestPath(c.keyform) \in StorePlaces
              /\ \A f \in ToSet(c.files) : Append(StorePath(c.keyform), f.name) \in StorePlaces
         /\ \A p \in ToSet(inst.packages) :
              {MumPath(p.name), CatPath(p.name), CatalogPath(p.catalog)} \subseteq StorePlaces
<1>1. PlacesOf(inst) \subseteq StorePlaces
  BY DEF StorePlaces
<1>2. ASSUME NEW c \in ToSet(inst.components)
      PROVE  /\ ManifestPath(c.keyform) \in PlacesOf(inst)
             /\ \A f \in ToSet(c.files) : Append(StorePath(c.keyform), f.name) \in PlacesOf(inst)
  BY DEF PlacesOf
<1>3. ASSUME NEW p \in ToSet(inst.packages)
      PROVE  {MumPath(p.name), CatPath(p.name), CatalogPath(p.catalog)} \subseteq PlacesOf(inst)
  BY DEF PlacesOf
<1> QED
  BY <1>1, <1>2, <1>3

LEMMA UsedKeyForms ==
  ASSUME NEW k, KeyFormUsed(k)
  PROVE  k \notin {"Manifests", "Catalogs"} /\ ManifestPath(k) \in StorePlaces
<1>1. PICK inst \in Installations : k \in KeyForms(inst)
  BY DEF KeyFormUsed
<1>2. AreLists(inst)
  BY StoreAssumption
<1>3. PICK c \in ToSet(inst.components) : c.keyform = k
  BY <1>1, <1>2, KeyFormsAre
<1> QED
  BY <1>3, PlacesAre, StoreAssumption

\* What is placed at the manifest of a component is its manifest.
LEMMA ManifestPlaced ==
  ASSUME NEW inst \in Installations, NEW k, KeyFormUsed(k), NEW w, w.path = ManifestPath(k)
  PROVE  /\ \A c \in ToSet(inst.components) : w \in FilesIn(c) => c.keyform = k /\ w.data = c.manifest
         /\ \A p \in ToSet(inst.packages) : w \notin FilesWith(p)
<1>1. k # "Manifests" /\ k # "Catalogs" /\ ManifestPath(k) \in StorePlaces
  BY UsedKeyForms
<1>2. w.path = <<"WinSxS", "Manifests", k>>
  BY DEF ManifestPath
<1>3. ASSUME NEW c \in ToSet(inst.components), w \in FilesIn(c) PROVE c.keyform = k /\ w.data = c.manifest
  <2>1. CASE w = At(ManifestPath(c.keyform), c.manifest)
    BY <1>2, <2>1 DEF At, ManifestPath
  <2>2. CASE \E f \in ToSet(c.files) : w \in CopiesOf(c.keyform, f)
    <3>1. PICK f \in ToSet(c.files) : w \in CopiesOf(c.keyform, f)
      BY <2>2
    <3>2. CASE w = At(Append(StorePath(c.keyform), f.name), f.data)
      <4>1. w.path = <<"WinSxS", c.keyform, f.name>>
        BY <3>2, StorePathIs DEF At
      <4>2. c.keyform = "Manifests"
        BY <1>2, <4>1
      <4>3. c.keyform \notin {"Manifests", "Catalogs"}
        BY StoreAssumption
      <4> QED
        BY <4>2, <4>3
    <3>3. CASE \E d \in ToSet(f.dests) : w = At(Append(d, f.name), f.data)
      <4>1. Projected(inst, w)
        BY <3>3 DEF Projected
      <4> QED
        BY <1>1, <4>1, ProjectedPaths
    <3> QED
      BY <3>1, <3>2, <3>3 DEF CopiesOf
  <2> QED
    BY <1>3, <2>1, <2>2 DEF FilesIn
<1>4. ASSUME NEW p \in ToSet(inst.packages), w \in FilesWith(p) PROVE FALSE
  <2>1. w.path = MumPath(p.name) \/ w.path = CatPath(p.name) \/ w.path = CatalogPath(p.catalog)
    BY <1>4 DEF FilesWith, At
  <2>2. /\ Len(MumPath(p.name)) = 2 /\ Len(CatPath(p.name)) = 2 /\ Len(w.path) = 3
        /\ CatalogPath(p.catalog)[2] = "Catalogs" /\ w.path[2] = "Manifests"
    BY <1>2 DEF MumPath, CatPath, CatalogPath
  <2> QED
    BY <2>1, <2>2
<1> QED
  BY <1>3, <1>4

\* The last manifest placed is that of the last component of the keyform.
LEMMA FinalManifest ==
  ASSUME NEW inst \in Installations, NEW k, KeyFormUsed(k), NEW i \in 1 .. Len(FilesOf(inst)),
         FilesOf(inst)[i].path = ManifestPath(k), LastAt(FilesOf(inst), Len(FilesOf(inst)), i)
  PROVE  FilesOf(inst)[i].data = FinalComponent(inst, k).manifest
<1> DEFINE F == FilesOf(inst)
           cs == ComponentLists(inst)
           ps == PackageLists(inst)
           A == FlattenSeq(cs)
           B == FlattenSeq(ps)
           n == Len(inst.components)
           J == {j \in 1 .. n : inst.components[j].keyform = k}
<1>1. AreLists(inst)
  BY StoreAssumption
<1>2. F = A \o B
  BY DEF FilesOf, ComponentLists, PackageLists
<1>3. /\ IsList(cs) /\ Len(cs) = n
      /\ IsList(ps) /\ Len(ps) = Len(inst.packages)
      /\ \A j \in 1 .. n : IsList(cs[j]) /\ ToSet(cs[j]) = FilesIn(inst.components[j])
      /\ \A j \in 1 .. Len(inst.packages) : IsList(ps[j]) /\ ToSet(ps[j]) = FilesWith(inst.packages[j])
  BY <1>1, FileListsAre
<1> HIDE DEF cs, ps
<1>4. IsList(A) /\ \E part : InOrder(A, cs, n, part)
  BY <1>3, FlattenOrder
<1>5. IsList(B) /\ ToSet(B) = UNION {ToSet(ps[j]) : j \in 1 .. Len(ps)}
  BY <1>3, FlattenEntries
<1>6. PICK part : InOrder(A, cs, n, part)
  BY <1>4
<1> HIDE DEF A, B, F
<1>7. /\ Len(F) = Len(A) + Len(B) /\ Len(A) \in Nat /\ Len(B) \in Nat
      /\ \A j \in 1 .. Len(A) : F[j] = A[j]
      /\ \A j \in 1 .. Len(B) : F[Len(A) + j] = B[j]
  <2>1. Len(A) \in Nat /\ Len(B) \in Nat
    BY <1>4, <1>5, ListIs
  <2>2. /\ Len(A \o B) = Len(A) + Len(B)
        /\ \A j \in 1 .. Len(A) : (A \o B)[j] = A[j]
        /\ \A j \in 1 .. Len(B) : (A \o B)[Len(A) + j] = B[j]
    BY <1>4, <1>5, TwoLists
  <2> QED
    BY <1>2, <2>1, <2>2
<1>8. /\ i \in 1 .. Len(F) /\ F[i].path = ManifestPath(k)
      /\ \A l \in 1 .. Len(F) : l > i => F[l].path # F[i].path
  BY DEF F, LastAt
<1>9. /\ \A j \in 1 .. n : inst.components[j] \in ToSet(inst.components)
      /\ \A j \in 1 .. Len(inst.packages) : inst.packages[j] \in ToSet(inst.packages)
      /\ n \in Nat
  BY <1>1, ListIs DEF AreLists
<1>10. i \in 1 .. Len(A)
  <2> SUFFICES ASSUME i \notin 1 .. Len(A) PROVE FALSE
    OBVIOUS
  <2>1. i - Len(A) \in 1 .. Len(B) /\ i = Len(A) + (i - Len(A))
    BY <1>7, <1>8
  <2>2. F[i] = B[i - Len(A)]
    BY <1>7, <2>1
  <2>3. F[i] \in ToSet(B)
    BY <1>5, <2>1, <2>2, ListIs
  <2>4. PICK j \in 1 .. Len(inst.packages) : F[i] \in FilesWith(inst.packages[j])
    BY <1>3, <1>5, <2>3
  <2> QED
    BY <1>8, <1>9, <2>4, ManifestPlaced
<1>11. /\ part[i] \in 1 .. n /\ inst.components[part[i]].keyform = k
       /\ F[i].data = inst.components[part[i]].manifest
  <2>1. part[i] \in 1 .. n /\ A[i] \in ToSet(cs[part[i]])
    BY <1>6, <1>10 DEF InOrder
  <2>2. F[i] \in FilesIn(inst.components[part[i]])
    BY <1>3, <1>7, <1>10, <2>1
  <2> QED
    BY <1>8, <1>9, <2>1, <2>2, ManifestPlaced
<1>12. ASSUME NEW j \in J PROVE j <= part[i]
  <2> DEFINE x == At(ManifestPath(k), inst.components[j].manifest)
  <2>1. j \in 1 .. n /\ inst.components[j].keyform = k
    OBVIOUS
  <2>2. x \in ToSet(cs[j])
    BY <1>3, <2>1 DEF FilesIn
  <2>3. x.path = ManifestPath(k)
    BY DEF At
  <2> HIDE DEF x
  <2>4. PICK p \in 1 .. Len(A) : part[p] = j /\ A[p] = x
    BY <1>6, <2>1, <2>2 DEF InOrder
  <2>5. p \in 1 .. Len(F) /\ F[p].path = F[i].path
    BY <1>7, <1>8, <2>3, <2>4
  <2>6. p <= i
    BY <1>8, <2>5
  <2> QED
    BY <1>6, <1>10, <2>4, <2>6 DEF InOrder
<1>13. part[i] \in J
  BY <1>11
<1>14. J \in SUBSET (1 .. n) /\ FinalComponent(inst, k) = inst.components[LastOf(J)]
  BY DEF FinalComponent
<1> HIDE DEF J
<1>15. Max(J) \in J /\ part[i] <= Max(J)
  BY <1>9, <1>13, <1>14, MaxIs
<1>16. LastOf(J) = part[i]
  <2>1. Max(J) <= part[i] /\ Max(J) \in 1 .. n
    BY <1>12, <1>14, <1>15
  <2>2. Max(J) = part[i]
    BY <1>9, <1>11, <1>15, <2>1
  <2> QED
    BY <1>13, <2>2 DEF LastOf
<1> QED
  BY <1>11, <1>14, <1>16 DEF F

-----------------------------------------------------------------------------
(* The files of a component and of a package that stand in a tree.           *)

StoreTree(t) == IsTree(t) /\ \A p \in StorePlaces : p \in DOMAIN t => ~t[p].dir

ComponentFilesStand(t, inst, k) ==
  /\ IsFile(t, ManifestPath(k)) /\ t[ManifestPath(k)].data = FinalComponent(inst, k).manifest
  /\ \A f \in ToSet(FinalComponent(inst, k).files) : IsFile(t, Append(StorePath(k), f.name))

PackageFilesStand(t, inst, n) ==
  /\ IsFile(t, MumPath(n))
  /\ FinalPackage(inst, n).catalog # Absent =>
       IsFile(t, CatPath(n)) /\ IsFile(t, CatalogPath(FinalPackage(inst, n).catalog))

LEMMA FilesOfList ==
  ASSUME NEW inst \in Installations
  PROVE  /\ AreLists(inst) /\ Len(FilesOf(inst)) \in Nat
         /\ \A i \in 1 .. Len(FilesOf(inst)) : /\ PlacesFile(inst, FilesOf(inst)[i])
                                               /\ IsList(FilesOf(inst)[i].path)
                                               /\ Above(FilesOf(inst)[i].path) \cap StorePlaces = {}
         /\ \A w : PlacesFile(inst, w) => \E i \in 1 .. Len(FilesOf(inst)) : FilesOf(inst)[i] = w
<1> DEFINE F == FilesOf(inst)
<1>1. AreLists(inst)
  BY StoreAssumption
<1>2. IsList(F) /\ \A w : w \in ToSet(F) <=> PlacesFile(inst, w)
  BY <1>1, FilesOfAre
<1> HIDE DEF F
<1>3. /\ Len(F) \in Nat /\ \A i \in 1 .. Len(F) : F[i] \in ToSet(F)
      /\ \A w \in ToSet(F) : \E i \in 1 .. Len(F) : F[i] = w
  BY <1>2, ListIs
<1>4. \A i \in 1 .. Len(F) : PlacesFile(inst, F[i])
  BY <1>2, <1>3
<1>5. \A i \in 1 .. Len(F) : IsList(F[i].path) /\ Above(F[i].path) \cap StorePlaces = {}
  BY <1>4, PlacedPaths
<1>6. \A w : PlacesFile(inst, w) => \E i \in 1 .. Len(F) : F[i] = w
  BY <1>2, <1>3
<1> QED
  BY <1>1, <1>3, <1>4, <1>5, <1>6 DEF F

LEMMA PlacedStand ==
  ASSUME NEW inst \in Installations, NEW u, StoreTree(u), Placed(u, FilesOf(inst), Len(FilesOf(inst)))
  PROVE  /\ \A k \in KeyForms(inst) : ComponentFilesStand(u, inst, k)
         /\ \A n \in PackageNames(inst) : PackageFilesStand(u, inst, n)
<1> DEFINE F == FilesOf(inst)
<1>1. AreLists(inst) /\ \A w : PlacesFile(inst, w) => \E i \in 1 .. Len(F) : F[i] = w
  BY FilesOfList
<1>2. ASSUME NEW w, PlacesFile(inst, w), w.path \in StorePlaces PROVE IsFile(u, w.path)
  <2>1. PICK i \in 1 .. Len(F) : F[i] = w
    BY <1>1, <1>2
  <2>2. w.path \in DOMAIN u
    BY <2>1 DEF Placed, PlacedFile
  <2> QED
    BY <1>2, <2>2 DEF IsFile, StoreTree
<1>3. ASSUME NEW k \in KeyForms(inst) PROVE ComponentFilesStand(u, inst, k)
  <2> DEFINE c == FinalComponent(inst, k)
  <2>1. c \in ToSet(inst.components) /\ c.keyform = k
    BY <1>1, FinalsAre
  <2> HIDE DEF c
  <2>2. KeyFormUsed(k)
    BY DEF KeyFormUsed
  <2> DEFINE w == At(ManifestPath(k), c.manifest)
  <2>3. PlacesFile(inst, w) /\ w.path = ManifestPath(k)
    BY <2>1 DEF PlacesFile, FilesIn, At
  <2>4. ManifestPath(k) \in StorePlaces /\ \A f \in ToSet(c.files) : Append(StorePath(k), f.name) \in StorePlaces
    BY <2>1, PlacesAre
  <2> HIDE DEF w
  <2>5. IsFile(u, ManifestPath(k))
    BY <1>2, <2>3, <2>4
  <2>6. PICK i \in 1 .. Len(F) : F[i] = w
    BY <1>1, <2>3
  <2>7. PICK j \in 1 .. Len(F) : /\ F[j].path = ManifestPath(k) /\ LastAt(F, Len(F), j)
                                 /\ u[ManifestPath(k)].data = F[j].data
    BY <2>3, <2>6 DEF Placed, PlacedFile
  <2>8. u[ManifestPath(k)].data = c.manifest
    BY <2>2, <2>7, FinalManifest DEF c
  <2>9. ASSUME NEW f \in ToSet(c.files) PROVE IsFile(u, Append(StorePath(k), f.name))
    <3> DEFINE v == At(Append(StorePath(k), f.name), f.data)
    <3>1. v \in CopiesOf(k, f) /\ v.path = Append(StorePath(k), f.name)
      BY DEF CopiesOf, At
    <3>2. v \in FilesIn(c)
      BY <2>1, <3>1 DEF FilesIn
    <3>3. PlacesFile(inst, v)
      BY <2>1, <3>2 DEF PlacesFile
    <3> HIDE DEF v
    <3> QED
      BY <1>2, <2>4, <3>1, <3>3
  <2> QED
    BY <2>5, <2>8, <2>9 DEF ComponentFilesStand, c
<1>4. ASSUME NEW n \in PackageNames(inst) PROVE PackageFilesStand(u, inst, n)
  <2> DEFINE p == FinalPackage(inst, n)
  <2>1. p \in ToSet(inst.packages) /\ p.name = n
    BY <1>1, FinalsAre
  <2> HIDE DEF p
  <2>2. MumPath(n) \in StorePlaces /\ CatPath(n) \in StorePlaces /\ CatalogPath(p.catalog) \in StorePlaces
    BY <2>1, PlacesAre
  <2>3. \A w \in FilesWith(p) : PlacesFile(inst, w)
    BY <2>1 DEF PlacesFile
  <2>4. At(MumPath(n), p.mum) \in FilesWith(p)
    BY <2>1 DEF FilesWith
  <2>5. p.catalog # Absent =>
          At(CatPath(n), p.catalog) \in FilesWith(p) /\ At(CatalogPath(p.catalog), p.catalog) \in FilesWith(p)
    BY <2>1 DEF FilesWith
  <2>6. \A path, data : At(path, data).path = path
    BY DEF At
  <2>7. IsFile(u, MumPath(n))
    BY <1>2, <2>2, <2>3, <2>4, <2>6
  <2>8. p.catalog # Absent => IsFile(u, CatPath(n)) /\ IsFile(u, CatalogPath(p.catalog))
    BY <1>2, <2>2, <2>3, <2>5, <2>6
  <2> QED
    BY <2>7, <2>8 DEF PackageFilesStand, p
<1> QED
  BY <1>3, <1>4

\* What Install does to the tree of the store.
LEMMA FilesDo ==
  ASSUME NEW inst \in Installations, NEW t, StoreTree(t), NEW r, r = PlaceAll(t, FilesOf(inst))
  PROVE  /\ StoreTree(r.image)
         /\ r.result = "ok" => Placed(r.image, FilesOf(inst), Len(FilesOf(inst)))
         /\ \A p : IsFile(t, p) => IsFile(r.image, p)
         /\ \A k : KeyFormUsed(k) /\ k \notin KeyForms(inst) /\ ManifestPath(k) \in DOMAIN t =>
              r.image[ManifestPath(k)].data = t[ManifestPath(k)].data
<1> DEFINE F == FilesOf(inst)
           n == Len(F)
           u == r.image
<1>1. /\ AreLists(inst) /\ n \in Nat
      /\ \A i \in 1 .. n : PlacesFile(inst, F[i]) /\ IsList(F[i].path) /\ Above(F[i].path) \cap StorePlaces = {}
  BY FilesOfList
<1>2. PlacedSoFar(t, F, n, r)
  BY <1>1, PlaceAllDoes DEF StoreTree
<1> HIDE DEF F, n
<1>3. /\ IsTree(u) /\ DOMAIN t \subseteq DOMAIN u
      /\ \A p \in DOMAIN t : /\ u[p].dir = t[p].dir
                             /\ (\A i \in 1 .. n : p # F[i].path) => u[p].data = t[p].data
      /\ \A p \in DOMAIN u \ DOMAIN t :
           \E i \in 1 .. n : p \in Above(F[i].path) \/ (p = F[i].path /\ ~u[p].dir)
      /\ r.result = "ok" => Placed(u, F, n)
  BY <1>2 DEF PlacedSoFar
<1> HIDE DEF u
<1>4. ASSUME NEW p \in StorePlaces, p \in DOMAIN u PROVE ~u[p].dir
  <2>1. CASE p \in DOMAIN t
    BY <1>3, <2>1 DEF StoreTree
  <2>2. CASE p \notin DOMAIN t
    <3>1. PICK i \in 1 .. n : p \in Above(F[i].path) \/ (p = F[i].path /\ ~u[p].dir)
      BY <1>3, <1>4, <2>2
    <3> QED
      BY <1>1, <3>1
  <2> QED
    BY <2>1, <2>2
<1>5. ASSUME NEW p, IsFile(t, p) PROVE IsFile(u, p)
  BY <1>3, <1>5 DEF IsFile
<1>6. ASSUME NEW k, KeyFormUsed(k), k \notin KeyForms(inst), ManifestPath(k) \in DOMAIN t
      PROVE  u[ManifestPath(k)].data = t[ManifestPath(k)].data
  <2>1. ASSUME NEW i \in 1 .. n PROVE ManifestPath(k) # F[i].path
    <3> SUFFICES ASSUME ManifestPath(k) = F[i].path PROVE FALSE
      OBVIOUS
    <3>1. PlacesFile(inst, F[i])
      BY <1>1
    <3>2. \E c \in ToSet(inst.components) : c.keyform = k
      BY <1>6, <3>1, ManifestPlaced DEF PlacesFile
    <3> QED
      BY <1>1, <1>6, <3>2, KeyFormsAre
  <2> QED
    BY <1>3, <1>6, <2>1
<1>7. StoreTree(u)
  BY <1>3, <1>4 DEF StoreTree
<1> QED
  BY <1>3, <1>5, <1>6, <1>7 DEF u, F, n

LEMMA StandOn ==
  ASSUME NEW t, NEW u, NEW inst, \A p : IsFile(t, p) => IsFile(u, p)
  PROVE  /\ \A n : PackageFilesStand(t, inst, n) => PackageFilesStand(u, inst, n)
         /\ \A k : ComponentFilesStand(t, inst, k) /\ u[ManifestPath(k)].data = t[ManifestPath(k)].data
              => ComponentFilesStand(u, inst, k)
BY DEF PackageFilesStand, ComponentFilesStand

\* What Remove does to a tree.
LEMMA WithoutPathsIs ==
  ASSUME NEW t, StoreTree(t), NEW paths, NEW u, u = WithoutPaths(t, paths)
  PROVE  /\ StoreTree(u) /\ WithoutPaths(u, paths) = u
         /\ \A p \in DOMAIN t : (\A q \in paths : ~IsPrefix(q, p)) => p \in DOMAIN u /\ u[p] = t[p]
<1> DEFINE D == {p \in DOMAIN t : \A q \in paths : ~IsPrefix(q, p)}
<1>1. u = [p \in D |-> t[p]]
  BY DEF WithoutPaths, Restrict
<1>2. DOMAIN u = D /\ \A p \in D : u[p] = t[p]
  BY <1>1
<1>3. D \subseteq DOMAIN t /\ \A p \in D : \A q \in paths : ~IsPrefix(q, p)
  OBVIOUS
<1>4. \A p \in DOMAIN t : (\A q \in paths : ~IsPrefix(q, p)) => p \in D
  OBVIOUS
<1> HIDE DEF D
<1>5. /\ \A p \in DOMAIN t : t[p] = [dir |-> t[p].dir, data |-> t[p].data]
      /\ \A p \in DOMAIN t : t[p].dir \in BOOLEAN
      /\ \A p \in StorePlaces : p \in DOMAIN t => ~t[p].dir
  BY DEF StoreTree, IsTree
<1>6. IsTree(u)
  <2>1. \A p \in D : u[p] = [dir |-> u[p].dir, data |-> u[p].data]
    BY <1>2, <1>3, <1>5
  <2>2. u = [p \in D |-> u[p]]
    BY <1>1, <1>2
  <2>3. u = [p \in D |-> [dir |-> u[p].dir, data |-> u[p].data]]
    BY <2>1, <2>2
  <2>4. \A p \in D : u[p].dir \in BOOLEAN
    BY <1>2, <1>3, <1>5
  <2> QED
    BY <1>2, <2>3, <2>4 DEF IsTree
<1>7. \A p \in StorePlaces : p \in DOMAIN u => ~u[p].dir
  BY <1>2, <1>3, <1>5
<1>8. WithoutPaths(u, paths) = u
  <2>1. {p \in DOMAIN u : \A q \in paths : ~IsPrefix(q, p)} = D
    BY <1>2, <1>3
  <2>2. WithoutPaths(u, paths) = [p \in D |-> u[p]]
    BY <2>1 DEF WithoutPaths, Restrict
  <2> QED
    BY <1>1, <1>2, <2>2
<1> QED
  BY <1>2, <1>4, <1>6, <1>7, <1>8 DEF StoreTree

LEMMA PrefixIs ==
  ASSUME NEW s, IsList(s), NEW t, IsList(t), IsPrefix(s, t)
  PROVE  Len(s) <= Len(t) /\ \A i \in 1 .. Len(s) : s[i] = t[i]
<1> DEFINE X == ToSet(s) \cup ToSet(t)
<1>1. s \in Seq(X) /\ t \in Seq(X)
  BY ListWithin
<1> HIDE DEF X
<1>2. Len(s) \in Nat /\ Len(t) \in Nat /\ Len(s) <= Len(t)
  BY <1>1 DEF IsPrefix
<1>3. SubSeq(s, 1, Len(s)) = SubSeq(t, 1, Len(s))
  BY DEF IsPrefix
<1>4. \A i \in 1 .. Len(s) : SubSeq(s, 1, Len(s))[i] = s[i] /\ SubSeq(t, 1, Len(s))[i] = t[i]
  BY <1>1, <1>2
<1> QED
  BY <1>2, <1>3, <1>4

\* Taking away a component takes away the places of no other, a package likewise.
Apart(paths, p) == \A q \in paths : ~IsPrefix(q, p)

LEMMA ThreeApart ==
  ASSUME NEW b, NEW c, NEW k, b # k, ~(b = "Manifests" /\ c = k), k # "Manifests"
  PROVE  Apart({ManifestPath(k), StorePath(k)}, <<"WinSxS", b, c>>)
<1> DEFINE p == <<"WinSxS", b, c>>
           m == ManifestPath(k)
           s == StorePath(k)
<1>1. IsList(p) /\ Len(p) = 3 /\ p[2] = b /\ p[3] = c
  BY ThreeIsList
<1>2. IsList(m) /\ Len(m) = 3 /\ m[2] = "Manifests" /\ m[3] = k /\ 2 \in 1 .. 3 /\ 3 \in 1 .. 3
  <2>1. Len(m) = 3 /\ m[2] = "Manifests" /\ m[3] = k /\ 2 \in 1 .. 3 /\ 3 \in 1 .. 3
    BY DEF ManifestPath
  <2>2. IsList(m)
    BY ThreeIsList DEF ManifestPath
  <2> QED
    BY <2>1, <2>2
<1>3. IsList(s) /\ Len(s) = 2 /\ s[2] = k /\ 2 \in 1 .. 2
  BY TwoIsList DEF StorePath
<1> HIDE DEF p, m, s
<1>4. ~IsPrefix(m, p)
  <2> SUFFICES ASSUME IsPrefix(m, p) PROVE FALSE
    OBVIOUS
  <2>1. \A i \in 1 .. Len(m) : m[i] = p[i]
    BY <1>1, <1>2, PrefixIs
  <2> QED
    BY <1>1, <1>2, <2>1
<1>5. ~IsPrefix(s, p)
  <2> SUFFICES ASSUME IsPrefix(s, p) PROVE FALSE
    OBVIOUS
  <2>1. \A i \in 1 .. Len(s) : s[i] = p[i]
    BY <1>1, <1>3, PrefixIs
  <2> QED
    BY <1>1, <1>3, <2>1
<1> QED
  BY <1>4, <1>5 DEF Apart, p, m, s

LEMMA FirstApart ==
  ASSUME NEW p, IsList(p), Len(p) >= 1, NEW paths,
         \A q \in paths : IsList(q) /\ Len(q) >= 1 /\ q[1] # p[1]
  PROVE  Apart(paths, p)
<1> SUFFICES ASSUME NEW q \in paths, IsPrefix(q, p) PROVE FALSE
  BY DEF Apart
<1>1. Len(q) \in Nat /\ \A i \in 1 .. Len(q) : q[i] = p[i]
  BY PrefixIs, ListIs
<1>2. 1 \in 1 .. Len(q)
  BY <1>1
<1> QED
  BY <1>1, <1>2

LEMMA ShapesStart ==
  /\ \A b, c : IsList(<<"WinSxS", b, c>>) /\ Len(<<"WinSxS", b, c>>) >= 1 /\ <<"WinSxS", b, c>>[1] = "WinSxS"
  /\ \A k : IsList(StorePath(k)) /\ Len(StorePath(k)) >= 1 /\ StorePath(k)[1] = "WinSxS"
  /\ \A n : IsList(MumPath(n)) /\ Len(MumPath(n)) >= 1 /\ MumPath(n)[1] = "Packages"
  /\ \A n : IsList(CatPath(n)) /\ Len(CatPath(n)) >= 1 /\ CatPath(n)[1] = "Package catalogs"
<1>1. \A b, c : Len(<<"WinSxS", b, c>>) >= 1 /\ <<"WinSxS", b, c>>[1] = "WinSxS"
  OBVIOUS
<1>2. \A k : Len(StorePath(k)) >= 1 /\ StorePath(k)[1] = "WinSxS"
  BY DEF StorePath
<1>3. \A n : Len(MumPath(n)) >= 1 /\ MumPath(n)[1] = "Packages"
  BY DEF MumPath
<1>4. \A n : Len(CatPath(n)) >= 1 /\ CatPath(n)[1] = "Package catalogs"
  BY DEF CatPath
<1>5. \A b, c : IsList(<<"WinSxS", b, c>>)
  BY ThreeIsList
<1>6. \A k : IsList(StorePath(k)) /\ IsList(MumPath(k)) /\ IsList(CatPath(k))
  BY TwoIsList DEF StorePath, MumPath, CatPath
<1> QED
  BY <1>1, <1>2, <1>3, <1>4, <1>5, <1>6

LEMMA OnePackageApart ==
  ASSUME NEW n, NEW m, n # m
  PROVE  Apart({MumPath(m), CatPath(m)}, MumPath(n)) /\ Apart({MumPath(m), CatPath(m)}, CatPath(n))
<1>1. /\ MumPath(n)[2] = n /\ CatPath(n)[2] = n /\ MumPath(n)[1] = "Packages" /\ CatPath(n)[1] = "Package catalogs"
      /\ MumPath(m)[2] = m /\ CatPath(m)[2] = m /\ MumPath(m)[1] = "Packages" /\ CatPath(m)[1] = "Package catalogs"
      /\ Len(MumPath(m)) = 2 /\ Len(CatPath(m)) = 2 /\ 1 \in 1 .. 2 /\ 2 \in 1 .. 2
  BY DEF MumPath, CatPath
<1>2. IsList(MumPath(n)) /\ IsList(CatPath(n)) /\ IsList(MumPath(m)) /\ IsList(CatPath(m))
  BY ShapesStart
<1>3. ASSUME NEW q \in {MumPath(m), CatPath(m)}, NEW p \in {MumPath(n), CatPath(n)}, IsPrefix(q, p)
      PROVE  FALSE
  <2>1. \A i \in 1 .. Len(q) : q[i] = p[i]
    BY <1>2, <1>3, PrefixIs
  <2> QED
    BY <1>1, <1>3, <2>1
<1> QED
  BY <1>3 DEF Apart

LEMMA RemovedStand ==
  ASSUME NEW t, StoreTree(t), NEW inst \in Installations
  PROVE  /\ \A k : KeyFormUsed(k) =>
              LET u == WithoutPaths(t, {ManifestPath(k), StorePath(k)})
              IN  /\ \A n \in PackageNames(inst) : PackageFilesStand(t, inst, n) => PackageFilesStand(u, inst, n)
                  /\ \A l \in KeyForms(inst) \ {k} : ComponentFilesStand(t, inst, l) => ComponentFilesStand(u, inst, l)
         /\ \A m : LET u == WithoutPaths(t, {MumPath(m), CatPath(m)})
                   IN  /\ \A n \in PackageNames(inst) \ {m} :
                            PackageFilesStand(t, inst, n) => PackageFilesStand(u, inst, n)
                       /\ \A l \in KeyForms(inst) : ComponentFilesStand(t, inst, l) => ComponentFilesStand(u, inst, l)
<1>1. ASSUME NEW paths, NEW u, u = WithoutPaths(t, paths)
      PROVE  \A p : Apart(paths, p) /\ IsFile(t, p) => IsFile(u, p) /\ u[p].data = t[p].data
  <2>1. \A p \in DOMAIN t : (\A q \in paths : ~IsPrefix(q, p)) => p \in DOMAIN u /\ u[p] = t[p]
    BY <1>1, WithoutPathsIs
  <2> QED
    BY <2>1 DEF IsFile, Apart
<1>2. ASSUME NEW paths, NEW u, u = WithoutPaths(t, paths), NEW l PROVE
        /\ ComponentFilesStand(t, inst, l) /\ Apart(paths, ManifestPath(l)) /\ (\A n : Apart(paths, Append(StorePath(l), n)))
             => ComponentFilesStand(u, inst, l)
        /\ PackageFilesStand(t, inst, l) /\ Apart(paths, MumPath(l)) /\ Apart(paths, CatPath(l))
               /\ (\A c : Apart(paths, CatalogPath(c)))
             => PackageFilesStand(u, inst, l)
  BY <1>1, <1>2 DEF ComponentFilesStand, PackageFilesStand
<1>3. \A l \in KeyForms(inst) : l # "Manifests" /\ l # "Catalogs"
  BY UsedKeyForms DEF KeyFormUsed
<1>4. ASSUME NEW k, KeyFormUsed(k), NEW u, u = WithoutPaths(t, {ManifestPath(k), StorePath(k)})
      PROVE  /\ \A n \in PackageNames(inst) : PackageFilesStand(t, inst, n) => PackageFilesStand(u, inst, n)
             /\ \A l \in KeyForms(inst) \ {k} : ComponentFilesStand(t, inst, l) => ComponentFilesStand(u, inst, l)
  <2> DEFINE paths == {ManifestPath(k), StorePath(k)}
  <2>1. k # "Manifests" /\ k # "Catalogs"
    BY <1>4, UsedKeyForms
  <2>2. \A n : Apart(paths, MumPath(n)) /\ Apart(paths, CatPath(n))
    <3>1. \A q \in paths : IsList(q) /\ Len(q) >= 1 /\ q[1] = "WinSxS"
      BY ShapesStart DEF ManifestPath
    <3> HIDE DEF paths
    <3> QED
      BY <3>1, ShapesStart, FirstApart
  <2>3. \A c : Apart(paths, CatalogPath(c))
    BY <2>1, ThreeApart DEF CatalogPath
  <2>4. ASSUME NEW l \in KeyForms(inst) \ {k}
        PROVE  Apart(paths, ManifestPath(l)) /\ \A n : Apart(paths, Append(StorePath(l), n))
    <3>1. l # "Manifests"
      BY <1>3
    <3>2. Apart(paths, ManifestPath(l))
      BY <2>1, ThreeApart DEF ManifestPath
    <3>3. \A n : Apart(paths, <<"WinSxS", l, n>>)
      BY <2>1, <3>1, ThreeApart
    <3> QED
      BY <3>2, <3>3, StorePathIs
  <2> QED
    BY <1>2, <1>4, <2>2, <2>3, <2>4
<1>5. ASSUME NEW m, NEW u, u = WithoutPaths(t, {MumPath(m), CatPath(m)})
      PROVE  /\ \A n \in PackageNames(inst) \ {m} : PackageFilesStand(t, inst, n) => PackageFilesStand(u, inst, n)
             /\ \A l \in KeyForms(inst) : ComponentFilesStand(t, inst, l) => ComponentFilesStand(u, inst, l)
  <2> DEFINE paths == {MumPath(m), CatPath(m)}
  <2>1. \A b, c : Apart(paths, <<"WinSxS", b, c>>)
    <3>1. \A q \in paths : IsList(q) /\ Len(q) >= 1 /\ q[1] # "WinSxS"
      BY ShapesStart
    <3> HIDE DEF paths
    <3> QED
      BY <3>1, ShapesStart, FirstApart
  <2>2. \A l : Apart(paths, ManifestPath(l)) /\ Apart(paths, CatalogPath(l)) /\ \A n : Apart(paths, Append(StorePath(l), n))
    BY <2>1, StorePathIs DEF ManifestPath, CatalogPath
  <2>3. \A n \in PackageNames(inst) \ {m} : Apart(paths, MumPath(n)) /\ Apart(paths, CatPath(n))
    BY OnePackageApart
  <2> QED
    BY <1>2, <1>5, <2>2, <2>3
<1> QED
  BY <1>4, <1>5

-----------------------------------------------------------------------------
(* The lists of writes.                                                      *)

LEMMA FlattenEach ==
  ASSUME NEW s, IsList(s), NEW f, f = [i \in DOMAIN s |-> f[i]], \A i \in 1 .. Len(s) : IsList(f[i])
  PROVE  /\ IsList(f) /\ Len(f) = Len(s) /\ IsList(FlattenSeq(f))
         /\ \A x : x \in ToSet(FlattenSeq(f)) <=> \E i \in 1 .. Len(s) : x \in ToSet(f[i])
<1>1. IsList(f) /\ Len(f) = Len(s)
  BY EachIsList
<1>2. IsList(FlattenSeq(f)) /\ ToSet(FlattenSeq(f)) = UNION {ToSet(f[i]) : i \in 1 .. Len(f)}
  BY <1>1, FlattenEntries
<1> QED
  BY <1>1, <1>2

\* Writes, and what stops them.
ComponentWrite(c, w) ==
  /\ w.stop # "refused"
  /\ w.stop = "ok" => /\ w.key = <<"Components", c.keyform>>
                      /\ w.name = <<"S256H", Absent>> => w.data = ManifestHash(c.manifest)
Named(ws, key, name) == \E w \in ToSet(ws) : w.stop = "ok" /\ w.key = key /\ w.name = name

LEMMA WriteHas ==
  ASSUME NEW key, NEW name, NEW data
  PROVE  /\ Write(key, name, data).stop = "ok" /\ Write(key, name, data).key = key
         /\ Write(key, name, data).name = name /\ Write(key, name, data).data = data
BY DEF Write

LEMMA StopIs == Stop("failed").stop = "failed" /\ Stop("panic").stop = "panic"
BY DEF Stop

LEMMA ComponentWritesAre ==
  ASSUME NEW c, IsList(c.deployments), IsList(c.files)
  PROVE  /\ IsList(ComponentWrites(c)) /\ \A w \in ToSet(ComponentWrites(c)) : ComponentWrite(c, w)
         /\ (\A w \in ToSet(ComponentWrites(c)) : w.stop = "ok") =>
              LET key == <<"Components", c.keyform>>
              IN  /\ Named(ComponentWrites(c), key, <<"S256H", Absent>>)
                  /\ \A d \in ToSet(c.deployments) : Named(ComponentWrites(c), key, <<"c!", d>>)
                  /\ \A f \in ToSet(c.files) : Named(ComponentWrites(c), key, fileValueName(f.name))
<1> DEFINE key == <<"Components", c.keyform>>
           identity == IF c.identity = Absent THEN IdentityOf[c.manifest] ELSE c.identity
           hash == Write(key, <<"S256H", Absent>>, ManifestHash(c.manifest))
           ident == Write(key, <<"identity", Absent>>, identity)
           head == IF identity = Absent THEN <<Stop("failed")>> ELSE <<ident, hash>>
           cf == Write(key, <<"CF", Absent>>, c.CF)
           flags == IF c.CF = Absent THEN <<>> ELSE <<cf>>
           link(i) == Write(key, <<"c!", c.deployments[i]>>, Absent)
           links == [i \in DOMAIN c.deployments |-> link(i)]
           file(i) == IF c.files[i].name \in LongNames THEN Stop("failed")
                      ELSE Write(key, fileValueName(c.files[i].name), "1")
           files == [i \in DOMAIN c.files |-> file(i)]
           all == ((head \o flags) \o links) \o files
<1>1. ComponentWrites(c) = all
  BY DEF ComponentWrites
<1>2. /\ hash.stop = "ok" /\ hash.key = key /\ hash.name = <<"S256H", Absent>> /\ hash.data = ManifestHash(c.manifest)
      /\ ident.stop = "ok" /\ ident.key = key /\ ident.name = <<"identity", Absent>>
      /\ cf.stop = "ok" /\ cf.key = key /\ cf.name = <<"CF", Absent>>
  BY WriteHas
<1>3. \A i : link(i).stop = "ok" /\ link(i).key = key /\ link(i).name = <<"c!", c.deployments[i]>>
  BY WriteHas
<1>4. \A i : \/ file(i).stop = "failed"
             \/ file(i).stop = "ok" /\ file(i).key = key /\ file(i).name = fileValueName(c.files[i].name)
  <2> TAKE i
  <2>1. CASE c.files[i].name \in LongNames
    BY <2>1, StopIs
  <2>2. CASE c.files[i].name \notin LongNames
    BY <2>2, WriteHas
  <2> QED
    BY <2>1, <2>2
<1>5. /\ \A i \in DOMAIN c.deployments : links[i] = link(i)
      /\ \A i \in DOMAIN c.files : files[i] = file(i)
      /\ links = [i \in DOMAIN c.deployments |-> links[i]]
      /\ files = [i \in DOMAIN c.files |-> files[i]]
  OBVIOUS
<1> HIDE DEF hash, ident, cf, link, file, key, identity
<1>6. /\ IsList(head) /\ (ToSet(head) = {Stop("failed")} \/ ToSet(head) = {ident, hash})
  <2>1. IsList(<<Stop("failed")>>) /\ ToSet(<<Stop("failed")>>) = {Stop("failed")}
    BY OneIsList
  <2>2. IsList(<<ident, hash>>) /\ ToSet(<<ident, hash>>) = {ident, hash}
    BY TwoIsList
  <2> QED
    BY <2>1, <2>2
<1>7. IsList(flags) /\ ToSet(flags) \subseteq {cf}
  <2>1. IsList(<<cf>>) /\ ToSet(<<cf>>) = {cf}
    BY OneIsList
  <2> QED
    BY <2>1, NoneIsList
<1> HIDE DEF head, flags, links, files
<1>8. IsList(links) /\ ToSet(links) = {links[i] : i \in 1 .. Len(c.deployments)}
  BY <1>5, EachIsList
<1>9. IsList(files) /\ ToSet(files) = {files[i] : i \in 1 .. Len(c.files)}
  BY <1>5, EachIsList
<1>10. DOMAIN c.deployments = 1 .. Len(c.deployments) /\ DOMAIN c.files = 1 .. Len(c.files)
  BY ListIs
<1>11. IsList(all) /\ ToSet(all) = ((ToSet(head) \cup ToSet(flags)) \cup ToSet(links)) \cup ToSet(files)
  <2>1. IsList(head \o flags) /\ ToSet(head \o flags) = ToSet(head) \cup ToSet(flags)
    BY <1>6, <1>7, TwoLists
  <2>2. /\ IsList((head \o flags) \o links)
        /\ ToSet((head \o flags) \o links) = ToSet(head \o flags) \cup ToSet(links)
    BY <1>8, <2>1, TwoLists
  <2>3. /\ IsList(((head \o flags) \o links) \o files)
        /\ ToSet(((head \o flags) \o links) \o files) = ToSet((head \o flags) \o links) \cup ToSet(files)
    BY <1>9, <2>2, TwoLists
  <2> QED
    BY <2>1, <2>2, <2>3
<1> HIDE DEF all
<1>12. ASSUME NEW w \in ToSet(all) PROVE ComponentWrite(c, w)
  <2>1. CASE w \in ToSet(head)
    BY <1>2, <1>6, <2>1, StopIs DEF ComponentWrite, key
  <2>2. CASE w \in ToSet(flags)
    BY <1>2, <1>7, <2>2 DEF ComponentWrite, key
  <2>3. CASE w \in ToSet(links)
    <3>1. PICK i \in 1 .. Len(c.deployments) : w = links[i]
      BY <1>8, <2>3
    <3>2. w = link(i)
      BY <1>5, <1>10, <3>1
    <3> QED
      BY <1>3, <3>2 DEF ComponentWrite, key
  <2>4. CASE w \in ToSet(files)
    <3>1. PICK i \in 1 .. Len(c.files) : w = files[i]
      BY <1>9, <2>4
    <3>2. w = file(i)
      BY <1>5, <1>10, <3>1
    <3> QED
      BY <1>4, <3>2 DEF ComponentWrite, key, fileValueName
  <2> QED
    BY <1>11, <2>1, <2>2, <2>3, <2>4
<1>13. ASSUME \A w \in ToSet(all) : w.stop = "ok"
       PROVE  /\ Named(all, key, <<"S256H", Absent>>)
              /\ \A d \in ToSet(c.deployments) : Named(all, key, <<"c!", d>>)
              /\ \A f \in ToSet(c.files) : Named(all, key, fileValueName(f.name))
  <2>1. hash \in ToSet(all)
    BY <1>6, <1>11, <1>13, StopIs
  <2>2. ASSUME NEW d \in ToSet(c.deployments) PROVE Named(all, key, <<"c!", d>>)
    <3>1. PICK i \in 1 .. Len(c.deployments) : c.deployments[i] = d
      BY ListIs
    <3>2. link(i) \in ToSet(all)
      BY <1>5, <1>8, <1>10, <1>11, <3>1
    <3> QED
      BY <1>3, <3>1, <3>2 DEF Named
  <2>3. ASSUME NEW f \in ToSet(c.files) PROVE Named(all, key, fileValueName(f.name))
    <3>1. PICK i \in 1 .. Len(c.files) : c.files[i] = f
      BY ListIs
    <3>2. file(i) \in ToSet(all)
      BY <1>5, <1>9, <1>10, <1>11, <3>1
    <3> QED
      BY <1>4, <1>13, <3>1, <3>2 DEF Named
  <2> QED
    BY <1>2, <2>1, <2>2, <2>3 DEF Named
<1> QED
  BY <1>1, <1>11, <1>12, <1>13 DEF key

LEMMA DeploymentWritesAre ==
  ASSUME NEW d
  PROVE  /\ IsList(DeploymentWrites(d))
         /\ \A w \in ToSet(DeploymentWrites(d)) : w.stop = "ok" /\ w.key = <<"Deployments", d.name>>
         /\ \E w \in ToSet(DeploymentWrites(d)) : Makes(w, <<"Deployments", d.name>>)
<1> DEFINE key == <<"Deployments", d.name>>
           create == CreateKey(key)
           appid == Write(key, <<"appid", Absent>>, d.appid)
           thumb == Write(key, <<"CatalogThumbprint", Absent>>, CatalogThumbprint(d.catalog))
           one == IF d.appid = Absent THEN <<>> ELSE <<appid>>
           two == IF d.catalog = Absent THEN <<>> ELSE <<thumb>>
           all == (<<create>> \o one) \o two
<1>1. DeploymentWrites(d) = all
  BY DEF DeploymentWrites
<1>2. \A w \in {create, appid, thumb} : w.stop = "ok" /\ w.key = key
  BY WriteHas DEF CreateKey
<1> HIDE DEF key, create, appid, thumb
<1>3. IsList(<<create>>) /\ ToSet(<<create>>) = {create}
  BY OneIsList
<1>4. IsList(one) /\ ToSet(one) \subseteq {appid}
  <2>1. IsList(<<appid>>) /\ ToSet(<<appid>>) = {appid}
    BY OneIsList
  <2> QED
    BY <2>1, NoneIsList
<1>5. IsList(two) /\ ToSet(two) \subseteq {thumb}
  <2>1. IsList(<<thumb>>) /\ ToSet(<<thumb>>) = {thumb}
    BY OneIsList
  <2> QED
    BY <2>1, NoneIsList
<1> HIDE DEF one, two
<1>6. IsList(<<create>> \o one) /\ ToSet(<<create>> \o one) = ToSet(<<create>>) \cup ToSet(one)
  BY <1>3, <1>4, TwoLists
<1>7. IsList(all) /\ ToSet(all) = ToSet(<<create>> \o one) \cup ToSet(two)
  BY <1>5, <1>6, TwoLists
<1> HIDE DEF all
<1>8. \A w \in ToSet(all) : w.stop = "ok" /\ w.key = key
  BY <1>2, <1>3, <1>4, <1>5, <1>6, <1>7
<1>9. create \in ToSet(all) /\ Makes(create, key)
  BY <1>2, <1>3, <1>6, <1>7 DEF Makes
<1> QED
  BY <1>1, <1>7, <1>8, <1>9 DEF key

PackageWrite(p, w) == w.stop = "ok" /\ w.key[1] = "Packages"

LEMMA PackageWritesAre ==
  ASSUME NEW p, IsList(p.owners)
  PROVE  /\ IsList(PackageWrites(p)) /\ \A w \in ToSet(PackageWrites(p)) : PackageWrite(p, w)
         /\ \E w \in ToSet(PackageWrites(p)) : Makes(w, <<"Packages", p.name>>)
<1> DEFINE key == <<"Packages", p.name>>
           first == Write(key, <<"InstallName", Absent>>, p.name)
           state == Write(key, <<"CurrentState", Absent>>, IF p.state = 0 THEN PackageStateInstalled ELSE p.state)
           owner(i) == Write(<<"Packages", p.name, "Owners">>, <<"owner", p.owners[i]>>, 0)
           owners == [i \in DOMAIN p.owners |-> owner(i)]
           all == <<first, state>> \o owners
<1>1. PackageWrites(p) = all
  BY DEF PackageWrites
<1>2. first.stop = "ok" /\ first.key = key /\ state.stop = "ok" /\ state.key = key /\ key[1] = "Packages"
  BY WriteHas
<1>3. \A i : owner(i).stop = "ok" /\ owner(i).key[1] = "Packages"
  <2> TAKE i
  <2>1. owner(i).stop = "ok" /\ owner(i).key = <<"Packages", p.name, "Owners">>
    BY WriteHas
  <2> QED
    BY <2>1
<1>4. owners = [i \in DOMAIN p.owners |-> owners[i]] /\ \A i \in DOMAIN p.owners : owners[i] = owner(i)
  OBVIOUS
<1> HIDE DEF key, first, state, owner
<1>5. IsList(<<first, state>>) /\ ToSet(<<first, state>>) = {first, state}
  BY TwoIsList
<1> HIDE DEF owners
<1>6. IsList(owners) /\ ToSet(owners) = {owners[i] : i \in 1 .. Len(p.owners)}
  BY <1>4, EachIsList
<1>7. DOMAIN p.owners = 1 .. Len(p.owners)
  BY ListIs
<1>8. IsList(all) /\ ToSet(all) = ToSet(<<first, state>>) \cup ToSet(owners)
  BY <1>5, <1>6, TwoLists
<1> HIDE DEF all
<1>9. ASSUME NEW w \in ToSet(all) PROVE PackageWrite(p, w)
  <2>1. CASE w \in {first, state}
    BY <1>2, <2>1 DEF PackageWrite
  <2>2. CASE w \in ToSet(owners)
    <3>1. PICK i \in 1 .. Len(p.owners) : w = owners[i]
      BY <1>6, <2>2
    <3>2. w = owner(i)
      BY <1>4, <1>7, <3>1
    <3> QED
      BY <1>3, <3>2 DEF PackageWrite
  <2> QED
    BY <1>5, <1>8, <2>1, <2>2
<1>10. first \in ToSet(all) /\ Makes(first, key)
  BY <1>2, <1>5, <1>8 DEF Makes
<1> QED
  BY <1>1, <1>8, <1>9, <1>10 DEF key

CatalogWrite(catalog, inst, w) ==
  /\ w.stop # "refused"
  /\ w.stop = "ok" => /\ w.key = <<"Catalogs", catalog>>
                      /\ w.name[1] # Absent => \E d \in ToSet(inst.deployments) : w.name = <<"c!", d.name>>

LEMMA CatalogWritesAre ==
  ASSUME NEW catalog, NEW inst, IsList(inst.deployments), NEW given
  PROVE  /\ IsList(CatalogWrites(catalog, inst, given))
         /\ \A w \in ToSet(CatalogWrites(catalog, inst, given)) : CatalogWrite(catalog, inst, w)
         /\ "COMPONENTS" \notin given =>
              \A w \in ToSet(CatalogWrites(catalog, inst, given)) : w.stop # "ok"
         /\ catalog # Absent /\ (\A w \in ToSet(CatalogWrites(catalog, inst, given)) : w.stop = "ok") =>
              /\ \E w \in ToSet(CatalogWrites(catalog, inst, given)) : Makes(w, <<"Catalogs", catalog>>)
              /\ \A d \in ToSet(inst.deployments) : d.catalog = catalog =>
                   Named(CatalogWrites(catalog, inst, given), <<"Catalogs", catalog>>, <<"c!", d.name>>)
<1> DEFINE key == <<"Catalogs", CatalogThumbprint(catalog)[2]>>
           create == CreateKey(key)
           link(d) == Write(key, <<"c!", d.name>>, Absent)
           Link(d) == IF d.catalog = catalog THEN <<link(d)>> ELSE <<>>
           links == [i \in DOMAIN inst.deployments |-> Link(inst.deployments[i])]
           some == <<create>> \o FlattenSeq(links)
           all == IF catalog = Absent THEN <<>>
                  ELSE IF "COMPONENTS" \notin given THEN <<Stop("panic")>> ELSE some
<1>1. CatalogWrites(catalog, inst, given) = all
  BY DEF CatalogWrites
<1>2. key = <<"Catalogs", catalog>>
  BY DEF CatalogThumbprint
<1>3. /\ create.stop = "ok" /\ create.key = key /\ create.name = <<Absent, Absent>>
      /\ \A d : link(d).stop = "ok" /\ link(d).key = key /\ link(d).name = <<"c!", d.name>>
  BY WriteHas DEF CreateKey
<1>4. links = [i \in DOMAIN inst.deployments |-> links[i]]
      /\ \A i \in DOMAIN inst.deployments : links[i] = Link(inst.deployments[i])
  OBVIOUS
<1> HIDE DEF key, create, link
<1>5. \A d : /\ IsList(Link(d)) /\ ToSet(Link(d)) = IF d.catalog = catalog THEN {link(d)} ELSE {}
  <2> TAKE d
  <2>1. IsList(<<link(d)>>) /\ ToSet(<<link(d)>>) = {link(d)}
    BY OneIsList
  <2> QED
    BY <2>1, NoneIsList
<1> HIDE DEF Link, links
<1>6. /\ DOMAIN inst.deployments = 1 .. Len(inst.deployments)
      /\ \A i \in 1 .. Len(inst.deployments) : inst.deployments[i] \in ToSet(inst.deployments)
      /\ \A d \in ToSet(inst.deployments) : \E i \in 1 .. Len(inst.deployments) : inst.deployments[i] = d
  BY ListIs
<1>7. \A i \in 1 .. Len(inst.deployments) : links[i] = Link(inst.deployments[i]) /\ IsList(links[i])
  BY <1>4, <1>5, <1>6
<1>8. /\ IsList(FlattenSeq(links))
      /\ \A x : x \in ToSet(FlattenSeq(links)) <=> \E i \in 1 .. Len(inst.deployments) : x \in ToSet(links[i])
  BY <1>4, <1>7, FlattenEach
<1>9. IsList(<<create>>) /\ ToSet(<<create>>) = {create}
  BY OneIsList
<1>10. IsList(some) /\ ToSet(some) = {create} \cup ToSet(FlattenSeq(links))
  BY <1>8, <1>9, TwoLists
<1> HIDE DEF some
<1>11. IsList(<<Stop("panic")>>) /\ ToSet(<<Stop("panic")>>) = {Stop("panic")}
  BY OneIsList
<1>12. ASSUME NEW w \in ToSet(some) PROVE CatalogWrite(catalog, inst, w)
  <2>1. CASE w = create
    <3>1. w.stop = "ok" /\ w.key = key /\ w.name[1] = Absent
      BY <1>3, <2>1
    <3> QED
      BY <1>2, <3>1 DEF CatalogWrite
  <2>2. CASE w \in ToSet(FlattenSeq(links))
    <3>1. PICK i \in 1 .. Len(inst.deployments) : w \in ToSet(links[i])
      BY <1>8, <2>2
    <3> DEFINE d == inst.deployments[i]
    <3>2. w = link(d) /\ d \in ToSet(inst.deployments)
      BY <1>5, <1>6, <1>7, <3>1
    <3> HIDE DEF d
    <3> QED
      BY <1>2, <1>3, <3>2 DEF CatalogWrite
  <2> QED
    BY <1>10, <2>1, <2>2
<1>13. ASSUME NEW d \in ToSet(inst.deployments), d.catalog = catalog PROVE link(d) \in ToSet(some)
  <2>1. PICK i \in 1 .. Len(inst.deployments) : inst.deployments[i] = d
    BY <1>6
  <2>2. link(d) \in ToSet(links[i])
    BY <1>5, <1>7, <1>13, <2>1
  <2> QED
    BY <1>8, <1>10, <2>2
<1>14. CASE catalog = Absent
  BY <1>1, <1>14, NoneIsList
<1>15. CASE catalog # Absent /\ "COMPONENTS" \notin given
  <2>1. all = <<Stop("panic")>>
    BY <1>15
  <2> HIDE DEF all
  <2>2. \A w \in ToSet(all) : w.stop = "panic"
    BY <1>11, <2>1, StopIs
  <2>3. Stop("panic") \in ToSet(all)
    BY <1>11, <2>1
  <2> QED
    BY <1>1, <1>11, <2>1, <2>2, <2>3 DEF CatalogWrite
<1>16. CASE catalog # Absent /\ "COMPONENTS" \in given
  <2>1. all = some
    BY <1>16
  <2> HIDE DEF all
  <2>2. create \in ToSet(some) /\ Makes(create, key)
    BY <1>3, <1>10 DEF Makes
  <2>3. \A d \in ToSet(inst.deployments) : d.catalog = catalog => Named(some, key, <<"c!", d.name>>)
    BY <1>3, <1>13 DEF Named
  <2> QED
    BY <1>1, <1>2, <1>10, <1>12, <1>16, <2>1, <2>2, <2>3
<1> QED
  BY <1>14, <1>15, <1>16

\* Four lists, one after the other: the entries of each, and where they are.
Joined(a, b, c, d, w) ==
  /\ IsList(w) /\ ToSet(w) = ToSet(a) \cup ToSet(b) \cup ToSet(c) \cup ToSet(d)
  /\ Len(a) \in Nat /\ Len(b) \in Nat /\ Len(w) \in Nat /\ Len(a) + Len(b) <= Len(w)
  /\ Len(c) \in Nat /\ Len(a) + Len(b) + Len(c) <= Len(w)
  /\ \A k \in 1 .. Len(a) : w[k] = a[k]
  /\ \A k \in 1 .. Len(a) + Len(b) + Len(c) : w[k] \in ToSet(a) \cup ToSet(b) \cup ToSet(c)
  /\ \A k \in 1 .. Len(a) + Len(b) : w[k] \in ToSet(a) \cup ToSet(b)
  /\ \A k \in 1 .. Len(w) : k > Len(a) => w[k] \in ToSet(b) \cup ToSet(c) \cup ToSet(d)
  /\ \A k \in 1 .. Len(w) : k > Len(a) + Len(b) => w[k] \in ToSet(c) \cup ToSet(d)
  /\ \A x \in ToSet(b) : \E j \in 1 .. Len(a) + Len(b) : w[j] = x

LEMMA FourLists ==
  ASSUME NEW a, IsList(a), NEW b, IsList(b), NEW c, IsList(c), NEW d, IsList(d)
  PROVE  Joined(a, b, c, d, a \o b \o c \o d)
<1> DEFINE w == a \o b \o c \o d
<1> DEFINE ab == a \o b
           cd == c \o d
<1>1. /\ IsList(ab) /\ Len(ab) = Len(a) + Len(b) /\ ToSet(ab) = ToSet(a) \cup ToSet(b)
      /\ \A i \in 1 .. Len(a) : ab[i] = a[i]
      /\ \A i \in 1 .. Len(b) : ab[Len(a) + i] = b[i]
  BY TwoLists
<1>2. /\ IsList(cd) /\ Len(cd) = Len(c) + Len(d) /\ ToSet(cd) = ToSet(c) \cup ToSet(d)
      /\ \A i \in 1 .. Len(c) : cd[i] = c[i]
      /\ \A i \in 1 .. Len(d) : cd[Len(c) + i] = d[i]
  BY TwoLists
<1> DEFINE abc == ab \o c
<1>3. /\ IsList(abc) /\ Len(abc) = Len(ab) + Len(c) /\ ToSet(abc) = ToSet(ab) \cup ToSet(c)
      /\ \A i \in 1 .. Len(ab) : abc[i] = ab[i]
      /\ \A i \in 1 .. Len(c) : abc[Len(ab) + i] = c[i]
  <2> HIDE DEF ab
  <2>1. IsList(ab)
    BY <1>1
  <2> QED
    BY <2>1, TwoLists
<1>4. w = abc \o d
  OBVIOUS
<1> HIDE DEF ab, abc, cd, w
<1>5. /\ IsList(abc \o d) /\ Len(abc \o d) = Len(abc) + Len(d) /\ ToSet(abc \o d) = ToSet(abc) \cup ToSet(d)
      /\ \A i \in 1 .. Len(abc) : (abc \o d)[i] = abc[i]
      /\ \A i \in 1 .. Len(d) : (abc \o d)[Len(abc) + i] = d[i]
  <2>1. IsList(abc)
    BY <1>3
  <2> QED
    BY <2>1, TwoLists
<1>6. /\ Len(a) \in Nat /\ Len(b) \in Nat /\ Len(c) \in Nat /\ Len(d) \in Nat
      /\ Len(ab) \in Nat /\ Len(abc) \in Nat
  BY <1>1, <1>3, ListIs
<1>7. /\ \A i \in 1 .. Len(b) : b[i] \in ToSet(b)
      /\ \A x \in ToSet(b) : \E i \in 1 .. Len(b) : b[i] = x
      /\ \A i \in 1 .. Len(c) : c[i] \in ToSet(c)
      /\ \A i \in 1 .. Len(d) : d[i] \in ToSet(d)
  BY ListIs
<1>8. \A i \in 1 .. Len(ab) : w[i] = ab[i]
  BY <1>3, <1>4, <1>5, <1>6
<1>9. \A k \in 1 .. Len(a) : w[k] = a[k]
  BY <1>1, <1>6, <1>8
<1>10. ASSUME NEW k \in 1 .. Len(w), k > Len(ab) PROVE w[k] \in ToSet(c) \cup ToSet(d)
  <2>1. CASE k <= Len(abc)
    <3>1. k - Len(ab) \in 1 .. Len(c) /\ Len(ab) + (k - Len(ab)) = k /\ k \in 1 .. Len(abc)
      BY <1>3, <1>6, <1>10, <2>1
    <3>2. abc[k] = c[k - Len(ab)] /\ w[k] = abc[k]
      BY <1>3, <1>4, <1>5, <3>1
    <3> QED
      BY <1>7, <3>1, <3>2
  <2>2. CASE k > Len(abc)
    <3>1. k - Len(abc) \in 1 .. Len(d) /\ Len(abc) + (k - Len(abc)) = k
      BY <1>4, <1>5, <1>6, <2>2
    <3>2. w[k] = d[k - Len(abc)]
      BY <1>4, <1>5, <3>1
    <3> QED
      BY <1>7, <3>1, <3>2
  <2> QED
    BY <1>4, <1>5, <1>6, <2>1, <2>2
<1>11. ASSUME NEW k \in 1 .. Len(w), k > Len(a) PROVE w[k] \in ToSet(b) \cup ToSet(c) \cup ToSet(d)
  <2>1. CASE k <= Len(ab)
    <3>1. k - Len(a) \in 1 .. Len(b) /\ Len(a) + (k - Len(a)) = k /\ k \in 1 .. Len(ab)
      BY <1>1, <1>6, <1>11, <2>1
    <3>2. ab[k] = b[k - Len(a)] /\ w[k] = ab[k]
      BY <1>1, <1>8, <3>1
    <3> QED
      BY <1>7, <3>1, <3>2
  <2>2. CASE k > Len(ab)
    BY <1>10, <2>2
  <2> QED
    BY <1>4, <1>5, <1>6, <2>1, <2>2
<1>12. ASSUME NEW x \in ToSet(b) PROVE \E j \in 1 .. Len(a) + Len(b) : w[j] = x
  <2>1. PICK i \in 1 .. Len(b) : b[i] = x
    BY <1>7
  <2>2. Len(a) + i \in 1 .. Len(a) + Len(b)
    BY <1>6, <2>1
  <2>3. w[Len(a) + i] = x
    BY <1>1, <1>8, <2>1, <2>2
  <2> QED
    BY <2>2, <2>3
<1>13. Len(w) \in Nat /\ Len(a) + Len(b) <= Len(w)
  BY <1>1, <1>3, <1>4, <1>5, <1>6
<1>14. IsList(w) /\ ToSet(w) = ToSet(a) \cup ToSet(b) \cup ToSet(c) \cup ToSet(d)
  BY <1>1, <1>3, <1>4, <1>5
<1>15. \A k \in 1 .. Len(a) + Len(b) : w[k] \in ToSet(a) \cup ToSet(b)
  <2>1. \A k \in 1 .. Len(ab) : ab[k] \in ToSet(ab)
    BY <1>1, ListIs
  <2> QED
    BY <1>1, <1>8, <2>1
<1>16. /\ Len(a) + Len(b) + Len(c) <= Len(w)
       /\ \A k \in 1 .. Len(a) + Len(b) + Len(c) : w[k] \in ToSet(a) \cup ToSet(b) \cup ToSet(c)
  <2>1. Len(abc) = Len(a) + Len(b) + Len(c) /\ Len(abc) <= Len(w)
    BY <1>1, <1>3, <1>4, <1>5, <1>6
  <2>2. \A k \in 1 .. Len(abc) : abc[k] \in ToSet(abc) /\ w[k] = abc[k]
    BY <1>3, <1>4, <1>5, ListIs
  <2> QED
    BY <1>1, <1>3, <2>1, <2>2
<1>17. Joined(a, b, c, d, w)
  BY <1>1, <1>6, <1>9, <1>10, <1>11, <1>12, <1>13, <1>14, <1>15, <1>16 DEF Joined
<1> QED
  BY <1>17 DEF w

\* The writes of the components, the deployments, the catalogs and the packages.
ComponentPart(inst) == FlattenSeq([i \in DOMAIN inst.components |-> ComponentWrites(inst.components[i])])
DeploymentPart(inst) == FlattenSeq([i \in DOMAIN inst.deployments |-> DeploymentWrites(inst.deployments[i])])
CatalogPart(inst, given) ==
  FlattenSeq([i \in DOMAIN inst.packages |-> CatalogWrites(inst.packages[i].catalog, inst, given)])
PackagePart(inst) == FlattenSeq([i \in DOMAIN inst.packages |-> PackageWrites(inst.packages[i])])

LEMMA PartsAre ==
  ASSUME NEW inst, AreLists(inst), NEW given
  PROVE  /\ IsList(ComponentPart(inst)) /\ IsList(DeploymentPart(inst))
         /\ IsList(CatalogPart(inst, given)) /\ IsList(PackagePart(inst))
         /\ \A w : w \in ToSet(ComponentPart(inst)) <=>
                     \E c \in ToSet(inst.components) : w \in ToSet(ComponentWrites(c))
         /\ \A w : w \in ToSet(DeploymentPart(inst)) <=>
                     \E d \in ToSet(inst.deployments) : w \in ToSet(DeploymentWrites(d))
         /\ \A w : w \in ToSet(CatalogPart(inst, given)) <=>
                     \E p \in ToSet(inst.packages) : w \in ToSet(CatalogWrites(p.catalog, inst, given))
         /\ \A w : w \in ToSet(PackagePart(inst)) <=>
                     \E p \in ToSet(inst.packages) : w \in ToSet(PackageWrites(p))
<1>1. /\ IsList(inst.components) /\ IsList(inst.deployments) /\ IsList(inst.packages)
      /\ \A c \in ToSet(inst.components) : IsList(c.deployments) /\ IsList(c.files)
      /\ \A p \in ToSet(inst.packages) : IsList(p.owners)
  BY DEF AreLists
<1>2. /\ \A s : IsList(s) => /\ DOMAIN s = 1 .. Len(s) /\ \A i \in 1 .. Len(s) : s[i] \in ToSet(s)
                             /\ \A x \in ToSet(s) : \E i \in 1 .. Len(s) : s[i] = x
  BY ListIs
<1>3. /\ IsList(ComponentPart(inst))
      /\ \A w : w \in ToSet(ComponentPart(inst)) <=>
                  \E c \in ToSet(inst.components) : w \in ToSet(ComponentWrites(c))
  <2> DEFINE f == [i \in DOMAIN inst.components |-> ComponentWrites(inst.components[i])]
  <2>1. f = [i \in DOMAIN inst.components |-> f[i]]
    OBVIOUS
  <2>2. \A i \in 1 .. Len(inst.components) :
          f[i] = ComponentWrites(inst.components[i]) /\ inst.components[i] \in ToSet(inst.components)
    BY <1>1, <1>2
  <2>3. ComponentPart(inst) = FlattenSeq(f)
    BY DEF ComponentPart
  <2> HIDE DEF f
  <2>4. \A i \in 1 .. Len(inst.components) : IsList(f[i])
    BY <1>1, <2>2, ComponentWritesAre
  <2>5. /\ IsList(FlattenSeq(f))
        /\ \A x : x \in ToSet(FlattenSeq(f)) <=> \E i \in 1 .. Len(inst.components) : x \in ToSet(f[i])
    BY <1>1, <2>1, <2>4, FlattenEach
  <2>6. \A c \in ToSet(inst.components) : \E i \in 1 .. Len(inst.components) : inst.components[i] = c
    BY <1>1, <1>2
  <2> QED
    BY <2>2, <2>3, <2>5, <2>6
<1>4. /\ IsList(DeploymentPart(inst))
      /\ \A w : w \in ToSet(DeploymentPart(inst)) <=>
                  \E d \in ToSet(inst.deployments) : w \in ToSet(DeploymentWrites(d))
  <2> DEFINE f == [i \in DOMAIN inst.deployments |-> DeploymentWrites(inst.deployments[i])]
  <2>1. f = [i \in DOMAIN inst.deployments |-> f[i]]
    OBVIOUS
  <2>2. \A i \in 1 .. Len(inst.deployments) :
          f[i] = DeploymentWrites(inst.deployments[i]) /\ inst.deployments[i] \in ToSet(inst.deployments)
    BY <1>1, <1>2
  <2>3. DeploymentPart(inst) = FlattenSeq(f)
    BY DEF DeploymentPart
  <2> HIDE DEF f
  <2>4. \A i \in 1 .. Len(inst.deployments) : IsList(f[i])
    BY <2>2, DeploymentWritesAre
  <2>5. /\ IsList(FlattenSeq(f))
        /\ \A x : x \in ToSet(FlattenSeq(f)) <=> \E i \in 1 .. Len(inst.deployments) : x \in ToSet(f[i])
    BY <1>1, <2>1, <2>4, FlattenEach
  <2>6. \A d \in ToSet(inst.deployments) : \E i \in 1 .. Len(inst.deployments) : inst.deployments[i] = d
    BY <1>1, <1>2
  <2> QED
    BY <2>2, <2>3, <2>5, <2>6
<1>5. \A p \in ToSet(inst.packages) : \E i \in 1 .. Len(inst.packages) : inst.packages[i] = p
  BY <1>1, <1>2
<1>6. /\ IsList(CatalogPart(inst, given))
      /\ \A w : w \in ToSet(CatalogPart(inst, given)) <=>
                  \E p \in ToSet(inst.packages) : w \in ToSet(CatalogWrites(p.catalog, inst, given))
  <2> DEFINE f == [i \in DOMAIN inst.packages |-> CatalogWrites(inst.packages[i].catalog, inst, given)]
  <2>1. f = [i \in DOMAIN inst.packages |-> f[i]]
    OBVIOUS
  <2>2. \A i \in 1 .. Len(inst.packages) :
          f[i] = CatalogWrites(inst.packages[i].catalog, inst, given) /\ inst.packages[i] \in ToSet(inst.packages)
    BY <1>1, <1>2
  <2>3. CatalogPart(inst, given) = FlattenSeq(f)
    BY DEF CatalogPart
  <2> HIDE DEF f
  <2>4. \A i \in 1 .. Len(inst.packages) : IsList(f[i])
    BY <1>1, <2>2, CatalogWritesAre
  <2>5. /\ IsList(FlattenSeq(f))
        /\ \A x : x \in ToSet(FlattenSeq(f)) <=> \E i \in 1 .. Len(inst.packages) : x \in ToSet(f[i])
    BY <1>1, <2>1, <2>4, FlattenEach
  <2> QED
    BY <1>5, <2>2, <2>3, <2>5
<1>7. /\ IsList(PackagePart(inst))
      /\ \A w : w \in ToSet(PackagePart(inst)) <=>
                  \E p \in ToSet(inst.packages) : w \in ToSet(PackageWrites(p))
  <2> DEFINE f == [i \in DOMAIN inst.packages |-> PackageWrites(inst.packages[i])]
  <2>1. f = [i \in DOMAIN inst.packages |-> f[i]]
    OBVIOUS
  <2>2. \A i \in 1 .. Len(inst.packages) :
          f[i] = PackageWrites(inst.packages[i]) /\ inst.packages[i] \in ToSet(inst.packages)
    BY <1>1, <1>2
  <2>3. PackagePart(inst) = FlattenSeq(f)
    BY DEF PackagePart
  <2> HIDE DEF f
  <2>4. \A i \in 1 .. Len(inst.packages) : IsList(f[i])
    BY <1>1, <2>2, PackageWritesAre
  <2>5. /\ IsList(FlattenSeq(f))
        /\ \A x : x \in ToSet(FlattenSeq(f)) <=> \E i \in 1 .. Len(inst.packages) : x \in ToSet(f[i])
    BY <1>1, <2>1, <2>4, FlattenEach
  <2> QED
    BY <1>5, <2>2, <2>3, <2>5
<1> QED
  BY <1>3, <1>4, <1>6, <1>7

\* All writes of an installation; the first element of a key tells which they are.
WrittenBy(inst, given, w) ==
  \/ \E c \in ToSet(inst.components) : w \in ToSet(ComponentWrites(c))
  \/ \E d \in ToSet(inst.deployments) : w \in ToSet(DeploymentWrites(d))
  \/ \E p \in ToSet(inst.packages) : \/ w \in ToSet(CatalogWrites(p.catalog, inst, given))
                                     \/ w \in ToSet(PackageWrites(p))

LEMMA WritesOfAre ==
  ASSUME NEW inst, AreLists(inst), NEW given
  PROVE  /\ IsList(WritesOf(inst, given)) /\ Len(WritesOf(inst, given)) \in Nat
         /\ \A w : w \in ToSet(WritesOf(inst, given)) <=> WrittenBy(inst, given, w)
<1> DEFINE a == ComponentPart(inst)
           b == DeploymentPart(inst)
           c == CatalogPart(inst, given)
           d == PackagePart(inst)
<1>1. WritesOf(inst, given) = a \o b \o c \o d
  BY DEF WritesOf, ComponentPart, DeploymentPart, CatalogPart, PackagePart
<1>2. IsList(a) /\ IsList(b) /\ IsList(c) /\ IsList(d)
  BY PartsAre
<1>3. \A w : w \in ToSet(a) \cup ToSet(b) \cup ToSet(c) \cup ToSet(d) <=> WrittenBy(inst, given, w)
  BY PartsAre DEF WrittenBy
<1> HIDE DEF a, b, c, d
<1>4. /\ IsList(WritesOf(inst, given)) /\ Len(WritesOf(inst, given)) \in Nat
      /\ ToSet(WritesOf(inst, given)) = ToSet(a) \cup ToSet(b) \cup ToSet(c) \cup ToSet(d)
  <2>1. Joined(a, b, c, d, WritesOf(inst, given))
    BY <1>1, <1>2, FourLists
  <2> QED
    BY <2>1 DEF Joined
<1> QED
  BY <1>3, <1>4

LEMMA PartKeys ==
  ASSUME NEW inst, AreLists(inst), NEW given
  PROVE  /\ \A w \in ToSet(ComponentPart(inst)) : w.stop = "ok" => w.key[1] = "Components"
         /\ \A w \in ToSet(DeploymentPart(inst)) : w.stop = "ok" /\ w.key[1] = "Deployments"
         /\ \A w \in ToSet(CatalogPart(inst, given)) : w.stop = "ok" => w.key[1] = "Catalogs"
         /\ \A w \in ToSet(PackagePart(inst)) : w.stop = "ok" /\ w.key[1] = "Packages"
<1>1. /\ \A x \in ToSet(inst.components) : IsList(x.deployments) /\ IsList(x.files)
      /\ \A p \in ToSet(inst.packages) : IsList(p.owners)
      /\ IsList(inst.deployments)
  BY DEF AreLists
<1>2. ASSUME NEW w \in ToSet(ComponentPart(inst)), w.stop = "ok" PROVE w.key[1] = "Components"
  <2>1. PICK x \in ToSet(inst.components) : w \in ToSet(ComponentWrites(x))
    BY PartsAre
  <2>2. w.key = <<"Components", x.keyform>>
    BY <1>1, <1>2, <2>1, ComponentWritesAre DEF ComponentWrite
  <2> QED
    BY <2>2
<1>3. ASSUME NEW w \in ToSet(DeploymentPart(inst)) PROVE w.stop = "ok" /\ w.key[1] = "Deployments"
  <2>1. PICK x \in ToSet(inst.deployments) : w \in ToSet(DeploymentWrites(x))
    BY PartsAre
  <2>2. w.stop = "ok" /\ w.key = <<"Deployments", x.name>>
    BY <2>1, DeploymentWritesAre
  <2> QED
    BY <2>2
<1>4. ASSUME NEW w \in ToSet(CatalogPart(inst, given)), w.stop = "ok" PROVE w.key[1] = "Catalogs"
  <2>1. PICK p \in ToSet(inst.packages) : w \in ToSet(CatalogWrites(p.catalog, inst, given))
    BY PartsAre
  <2>2. CatalogWrite(p.catalog, inst, w)
    BY <1>1, <2>1, CatalogWritesAre
  <2>3. w.key = <<"Catalogs", p.catalog>>
    BY <1>4, <2>2 DEF CatalogWrite
  <2> QED
    BY <2>3
<1>5. ASSUME NEW w \in ToSet(PackagePart(inst)) PROVE w.stop = "ok" /\ w.key[1] = "Packages"
  <2>1. PICK p \in ToSet(inst.packages) : w \in ToSet(PackageWrites(p))
    BY PartsAre
  <2> QED
    BY <1>1, <2>1, PackageWritesAre DEF PackageWrite
<1> QED
  BY <1>2, <1>3, <1>4, <1>5

\* A catalog is linked to a deployment when the key of that has been made.
LEMMA WritesInTurn ==
  ASSUME NEW inst, AreLists(inst), NEW given
  PROVE  InTurn(WritesOf(inst, given))
<1> DEFINE a == ComponentPart(inst)
           b == DeploymentPart(inst)
           c == CatalogPart(inst, given)
           d == PackagePart(inst)
           w == WritesOf(inst, given)
<1>1. w = a \o b \o c \o d
  BY DEF WritesOf, ComponentPart, DeploymentPart, CatalogPart, PackagePart
<1>2. IsList(a) /\ IsList(b) /\ IsList(c) /\ IsList(d)
  BY PartsAre
<1>3. /\ \A x \in ToSet(a) : x.stop = "ok" => x.key[1] # "Catalogs"
      /\ \A x \in ToSet(b) : x.key[1] # "Catalogs"
      /\ \A x \in ToSet(d) : x.key[1] # "Catalogs"
  BY PartKeys
<1>4. /\ \A x \in ToSet(c) : \E p \in ToSet(inst.packages) : x \in ToSet(CatalogWrites(p.catalog, inst, given))
      /\ \A e \in ToSet(inst.deployments) : \A x \in ToSet(DeploymentWrites(e)) : x \in ToSet(b)
  BY PartsAre
<1> HIDE DEF a, b, c, d, w
<1>5. /\ Len(a) \in Nat /\ Len(b) \in Nat /\ Len(w) \in Nat
      /\ \A k \in 1 .. Len(a) + Len(b) : w[k] \in ToSet(a) \cup ToSet(b)
      /\ \A k \in 1 .. Len(w) : k > Len(a) + Len(b) => w[k] \in ToSet(c) \cup ToSet(d)
      /\ \A x \in ToSet(b) : \E j \in 1 .. Len(a) + Len(b) : w[j] = x
  <2>1. Joined(a, b, c, d, w)
    BY <1>1, <1>2, FourLists
  <2> QED
    BY <2>1 DEF Joined
<1>6. ASSUME NEW k \in 1 .. Len(w), Links(w[k])
      PROVE  \E j \in 1 .. k - 1 : Makes(w[j], <<"Deployments", w[k].name[2]>>)
  <2>1. w[k].stop = "ok" /\ w[k].key[1] = "Catalogs" /\ w[k].name[1] # Absent
    BY <1>6 DEF Links
  <2>2. k > Len(a) + Len(b)
    BY <1>3, <1>5, <2>1
  <2>3. w[k] \in ToSet(c)
    BY <1>3, <1>5, <2>1, <2>2
  <2>4. PICK p \in ToSet(inst.packages) : w[k] \in ToSet(CatalogWrites(p.catalog, inst, given))
    BY <1>4, <2>3
  <2>5. IsList(inst.deployments)
    BY DEF AreLists
  <2>6. CatalogWrite(p.catalog, inst, w[k])
    BY <2>4, <2>5, CatalogWritesAre
  <2>7. PICK e \in ToSet(inst.deployments) : w[k].name = <<"c!", e.name>>
    BY <2>1, <2>6 DEF CatalogWrite
  <2>8. PICK x \in ToSet(DeploymentWrites(e)) : Makes(x, <<"Deployments", e.name>>)
    BY DeploymentWritesAre
  <2>9. PICK j \in 1 .. Len(a) + Len(b) : w[j] = x
    BY <1>4, <1>5, <2>7, <2>8
  <2>10. j \in 1 .. k - 1
    BY <1>5, <2>2, <2>9
  <2>11. w[k].name[2] = e.name
    BY <2>7
  <2> QED
    BY <2>8, <2>9, <2>10, <2>11
<1> QED
  BY <1>6 DEF InTurn, w

\* The last hash written is that of the manifest of the last component of the keyform.
LEMMA FinalHash ==
  ASSUME NEW inst, AreLists(inst), NEW given, NEW k,
         \A l \in 1 .. Len(WritesOf(inst, given)) : WritesOf(inst, given)[l].stop = "ok",
         NEW i \in 1 .. Len(WritesOf(inst, given)),
         WritesOf(inst, given)[i].key = <<"Components", k>>,
         WritesOf(inst, given)[i].name = <<"S256H", Absent>>,
         LastIn(WritesOf(inst, given), Len(WritesOf(inst, given)), i)
  PROVE  WritesOf(inst, given)[i].data = ManifestHash(FinalComponent(inst, k).manifest)
<1> DEFINE cs == [j \in DOMAIN inst.components |-> ComponentWrites(inst.components[j])]
           a == FlattenSeq(cs)
           b == DeploymentPart(inst)
           c == CatalogPart(inst, given)
           d == PackagePart(inst)
           w == WritesOf(inst, given)
           n == Len(inst.components)
           key == <<"Components", k>>
           hash == <<"S256H", Absent>>
           J == {j \in 1 .. n : inst.components[j].keyform = k}
<1>1. w = a \o b \o c \o d
  BY DEF WritesOf, DeploymentPart, CatalogPart, PackagePart
<1>2. /\ a = ComponentPart(inst)
      /\ IsList(a) /\ IsList(b) /\ IsList(c) /\ IsList(d)
  <2>1. a = ComponentPart(inst)
    BY DEF ComponentPart
  <2> HIDE DEF a
  <2> QED
    BY <2>1, PartsAre
<1>3. /\ IsList(inst.components) /\ n \in Nat /\ DOMAIN inst.components = 1 .. n
      /\ \A j \in 1 .. n : inst.components[j] \in ToSet(inst.components)
      /\ \A x \in ToSet(inst.components) : IsList(x.deployments) /\ IsList(x.files)
  BY ListIs DEF AreLists
<1>4. /\ cs = [j \in DOMAIN inst.components |-> cs[j]]
      /\ \A j \in 1 .. n : cs[j] = ComponentWrites(inst.components[j]) /\ IsList(cs[j])
  BY <1>3, ComponentWritesAre
<1> HIDE DEF cs
<1>5. PICK part : InOrder(a, cs, n, part)
  <2>1. IsList(cs) /\ Len(cs) = n
    BY <1>3, <1>4, EachIsList
  <2> QED
    BY <1>4, <2>1, FlattenOrder
<1>6. /\ \A x \in ToSet(b) : x.key[1] = "Deployments"
      /\ \A x \in ToSet(c) : x.stop = "ok" => x.key[1] = "Catalogs"
      /\ \A x \in ToSet(d) : x.key[1] = "Packages"
  BY PartKeys
<1> HIDE DEF a, b, c, d, w
<1>7. /\ Len(a) \in Nat /\ Len(w) \in Nat /\ Len(a) <= Len(w)
      /\ \A j \in 1 .. Len(a) : w[j] = a[j]
      /\ \A j \in 1 .. Len(w) : j > Len(a) => w[j] \in ToSet(b) \cup ToSet(c) \cup ToSet(d)
  <2>1. Joined(a, b, c, d, w)
    BY <1>1, <1>2, FourLists
  <2> QED
    BY <2>1 DEF Joined
<1>8. /\ i \in 1 .. Len(w) /\ w[i].key = key /\ w[i].name = hash
      /\ \A l \in 1 .. Len(w) : w[l].stop = "ok"
      /\ \A l \in 1 .. Len(w) : l > i => ~(w[l].key = w[i].key /\ w[l].name = w[i].name)
  BY DEF w, LastIn
<1>9. key[1] = "Components"
  OBVIOUS
<1> HIDE DEF key, hash
<1>10. i \in 1 .. Len(a)
  <2> SUFFICES ASSUME i > Len(a) PROVE FALSE
    BY <1>7, <1>8
  <2>1. w[i] \in ToSet(b) \cup ToSet(c) \cup ToSet(d) /\ w[i].stop = "ok" /\ w[i].key[1] = "Components"
    BY <1>7, <1>8, <1>9
  <2> QED
    BY <1>6, <2>1
<1>11. \A j \in 1 .. n : \A x \in ToSet(cs[j]) : ComponentWrite(inst.components[j], x)
  BY <1>3, <1>4, ComponentWritesAre
<1>12. /\ part[i] \in 1 .. n /\ inst.components[part[i]].keyform = k
       /\ w[i].data = ManifestHash(inst.components[part[i]].manifest)
  <2>1. part[i] \in 1 .. n /\ w[i] \in ToSet(cs[part[i]])
    BY <1>5, <1>7, <1>10 DEF InOrder
  <2>2. ComponentWrite(inst.components[part[i]], w[i])
    BY <1>11, <2>1
  <2>3. /\ w[i].key = <<"Components", inst.components[part[i]].keyform>>
        /\ w[i].data = ManifestHash(inst.components[part[i]].manifest)
    BY <1>8, <2>2 DEF ComponentWrite, hash
  <2>4. inst.components[part[i]].keyform = k
    BY <1>8, <2>3 DEF key
  <2> QED
    BY <2>1, <2>3, <2>4
<1>13. ASSUME NEW j \in J PROVE j <= part[i]
  <2>1. j \in 1 .. n /\ inst.components[j].keyform = k
    OBVIOUS
  <2>2. \A x \in ToSet(cs[j]) : x.stop = "ok"
    <3> TAKE x \in ToSet(cs[j])
    <3>1. PICK p \in 1 .. Len(a) : a[p] = x
      BY <1>5, <2>1 DEF InOrder
    <3>2. p \in 1 .. Len(w) /\ w[p] = x
      BY <1>7, <3>1
    <3> QED
      BY <1>8, <3>2
  <2>3. cs[j] = ComponentWrites(inst.components[j])
    BY <1>4, <2>1
  <2>4. Named(ComponentWrites(inst.components[j]), key, hash)
    <3>1. \A x \in ToSet(ComponentWrites(inst.components[j])) : x.stop = "ok"
      BY <2>2, <2>3
    <3>2. IsList(inst.components[j].deployments) /\ IsList(inst.components[j].files)
      BY <1>3, <2>1
    <3> QED
      BY <2>1, <3>1, <3>2, ComponentWritesAre DEF key, hash
  <2>5. PICK x \in ToSet(cs[j]) : x.key = key /\ x.name = hash
    BY <2>3, <2>4 DEF Named
  <2>6. PICK p \in 1 .. Len(a) : part[p] = j /\ a[p] = x
    BY <1>5, <2>1, <2>5 DEF InOrder
  <2>7. p \in 1 .. Len(w) /\ w[p].key = w[i].key /\ w[p].name = w[i].name
    BY <1>7, <1>8, <2>5, <2>6
  <2>8. p <= i
    BY <1>8, <2>7
  <2> QED
    BY <1>5, <1>10, <2>6, <2>8 DEF InOrder
<1>14. part[i] \in J
  BY <1>12
<1>15. J \in SUBSET (1 .. n) /\ FinalComponent(inst, k) = inst.components[LastOf(J)]
  BY DEF FinalComponent
<1> HIDE DEF J
<1>16. Max(J) \in J /\ part[i] <= Max(J)
  BY <1>3, <1>14, <1>15, MaxIs
<1>17. LastOf(J) = part[i]
  <2>1. Max(J) <= part[i] /\ Max(J) \in 1 .. n
    BY <1>13, <1>15, <1>16
  <2>2. Max(J) = part[i]
    BY <1>3, <1>12, <1>16, <2>1
  <2> QED
    BY <1>14, <2>2 DEF LastOf
<1> QED
  BY <1>12, <1>15, <1>17 DEF w

\* Nothing is written of a component that is not of the installation.
LEMMA NoComponentWrite ==
  ASSUME NEW inst, AreLists(inst), NEW given, NEW k, k \notin KeyForms(inst),
         NEW w \in ToSet(WritesOf(inst, given)), w.stop = "ok"
  PROVE  w.key # <<"Components", k>>
<1> SUFFICES ASSUME w.key = <<"Components", k>> PROVE FALSE
  OBVIOUS
<1>1. w.key[1] = "Components"
  OBVIOUS
<1>2. WrittenBy(inst, given, w)
  BY WritesOfAre
<1>3. /\ \A x : (\E d \in ToSet(inst.deployments) : x \in ToSet(DeploymentWrites(d))) => x.key[1] = "Deployments"
      /\ \A x : (\E p \in ToSet(inst.packages) : x \in ToSet(CatalogWrites(p.catalog, inst, given))) /\ x.stop = "ok"
           => x.key[1] = "Catalogs"
      /\ \A x : (\E p \in ToSet(inst.packages) : x \in ToSet(PackageWrites(p))) => x.key[1] = "Packages"
  <2>1. ASSUME NEW x, NEW d \in ToSet(inst.deployments), x \in ToSet(DeploymentWrites(d)) PROVE x.key[1] = "Deployments"
    <3>1. x \in ToSet(DeploymentPart(inst))
      BY <2>1, PartsAre
    <3> QED
      BY <3>1, PartKeys
  <2>2. ASSUME NEW x, NEW p \in ToSet(inst.packages), x \in ToSet(PackageWrites(p)) PROVE x.key[1] = "Packages"
    <3>1. x \in ToSet(PackagePart(inst))
      BY <2>2, PartsAre
    <3> QED
      BY <3>1, PartKeys
  <2>3. ASSUME NEW x, NEW p \in ToSet(inst.packages), x \in ToSet(CatalogWrites(p.catalog, inst, given)), x.stop = "ok"
        PROVE  x.key[1] = "Catalogs"
    <3>1. x \in ToSet(CatalogPart(inst, given))
      BY <2>3, PartsAre
    <3> QED
      BY <2>3, <3>1, PartKeys
  <2> QED
    BY <2>1, <2>2, <2>3
<1>4. PICK c \in ToSet(inst.components) : w \in ToSet(ComponentWrites(c))
  BY <1>1, <1>2, <1>3 DEF WrittenBy
<1>5. w.key = <<"Components", c.keyform>>
  BY <1>4, ComponentWritesAre DEF ComponentWrite, AreLists
<1>6. c.keyform \in KeyForms(inst)
  BY KeyFormsAre
<1> QED
  BY <1>5, <1>6

-----------------------------------------------------------------------------
(* The keys of a component and of a package that stand in a hive.            *)

HasIn(h, key, name) == key \in DOMAIN h /\ name \in DOMAIN h[key]

ComponentKeysStand(h, inst, k) ==
  /\ HasIn(h, <<"Components", k>>, <<"S256H", Absent>>)
  /\ h[<<"Components", k>>][<<"S256H", Absent>>] = ManifestHash(FinalComponent(inst, k).manifest)
  /\ \A f \in ToSet(FinalComponent(inst, k).files) : HasIn(h, <<"Components", k>>, fileValueName(f.name))
  /\ \A d \in ToSet(inst.deployments) : d.name \in ToSet(FinalComponent(inst, k).deployments) =>
       HasIn(h, <<"Components", k>>, <<"c!", d.name>>) /\ <<"Deployments", d.name>> \in DOMAIN h

PackageKeysStand(h, inst, n) ==
  /\ <<"Packages", n>> \in DOMAIN h
  /\ FinalPackage(inst, n).catalog # Absent =>
       /\ <<"Catalogs", FinalPackage(inst, n).catalog>> \in DOMAIN h
       /\ \A d \in ToSet(inst.deployments) : d.catalog = FinalPackage(inst, n).catalog =>
            HasIn(h, <<"Catalogs", FinalPackage(inst, n).catalog>>, <<"c!", d.name>>)

LEMMA RecordedHas ==
  ASSUME NEW h, NEW writes, IsList(writes), Recorded(h, writes, Len(writes)), NEW w \in ToSet(writes)
  PROVE  w.stop = "ok" /\ w.key \in DOMAIN h /\ (w.name[1] # Absent => HasIn(h, w.key, w.name))
<1>1. PICK i \in 1 .. Len(writes) : writes[i] = w
  BY ListIs
<1>2. RecordedBy(h, writes, Len(writes), i)
  BY DEF Recorded
<1> QED
  BY <1>1, <1>2 DEF RecordedBy, HasIn

LEMMA NamedHas ==
  ASSUME NEW h, NEW writes, IsList(writes), Recorded(h, writes, Len(writes)),
         NEW ws, ToSet(ws) \subseteq ToSet(writes), NEW key, NEW name, Named(ws, key, name), name[1] # Absent
  PROVE  HasIn(h, key, name)
<1>1. PICK w \in ToSet(ws) : w.key = key /\ w.name = name
  BY DEF Named
<1> QED
  BY <1>1, RecordedHas

\* The names given to values.
LEMMA ValueNames ==
  /\ <<"S256H", Absent>>[1] # Absent
  /\ \A x : <<"c!", x>>[1] # Absent /\ fileValueName(x)[1] # Absent
BY DEF Absent, fileValueName

\* What InstallRegistry has written of an installation stands.
LEMMA RecordedKeysStand ==
  ASSUME NEW inst, AreLists(inst), NEW given, NEW h,
         Recorded(h, WritesOf(inst, given), Len(WritesOf(inst, given)))
  PROVE  /\ \A k \in KeyForms(inst) : ComponentKeysStand(h, inst, k)
         /\ \A n \in PackageNames(inst) : PackageKeysStand(h, inst, n)
<1> DEFINE W == WritesOf(inst, given)
<1>1. IsList(W) /\ Len(W) \in Nat /\ \A w : w \in ToSet(W) <=> WrittenBy(inst, given, w)
  BY WritesOfAre
<1>2. Recorded(h, W, Len(W))
  OBVIOUS
<1>3. /\ \A c \in ToSet(inst.components) : IsList(c.deployments) /\ IsList(c.files)
      /\ \A p \in ToSet(inst.packages) : IsList(p.owners)
      /\ IsList(inst.deployments)
  BY DEF AreLists
<1>4. ASSUME NEW i \in 1 .. Len(W), NEW k, W[i].key = <<"Components", k>>, W[i].name = <<"S256H", Absent>>,
             LastIn(W, Len(W), i)
      PROVE  W[i].data = ManifestHash(FinalComponent(inst, k).manifest)
  <2>1. \A l \in 1 .. Len(W) : W[l].stop = "ok"
    BY <1>2 DEF Recorded, RecordedBy
  <2> QED
    BY <1>4, <2>1, FinalHash
<1> HIDE DEF W
<1>5. \A w \in ToSet(W) : w.stop = "ok" /\ w.key \in DOMAIN h
  BY <1>1, <1>2, RecordedHas
<1>6. \A d \in ToSet(inst.deployments) : <<"Deployments", d.name>> \in DOMAIN h
  <2> TAKE d \in ToSet(inst.deployments)
  <2>1. PICK w \in ToSet(DeploymentWrites(d)) : Makes(w, <<"Deployments", d.name>>)
    BY DeploymentWritesAre
  <2>2. w \in ToSet(W)
    BY <1>1, <2>1 DEF WrittenBy
  <2> QED
    BY <1>5, <2>1, <2>2 DEF Makes
<1>7. ASSUME NEW k \in KeyForms(inst) PROVE ComponentKeysStand(h, inst, k)
  <2> DEFINE c == FinalComponent(inst, k)
             key == <<"Components", k>>
             hash == <<"S256H", Absent>>
             ws == ComponentWrites(c)
  <2>1. c \in ToSet(inst.components) /\ c.keyform = k
    BY FinalsAre
  <2> HIDE DEF c
  <2>2. ToSet(ws) \subseteq ToSet(W)
    BY <1>1, <2>1 DEF WrittenBy
  <2>3. /\ Named(ws, key, hash)
        /\ \A d \in ToSet(c.deployments) : Named(ws, key, <<"c!", d>>)
        /\ \A f \in ToSet(c.files) : Named(ws, key, fileValueName(f.name))
    <3>1. \A w \in ToSet(ws) : w.stop = "ok"
      BY <1>5, <2>2
    <3>2. IsList(c.deployments) /\ IsList(c.files)
      BY <1>3, <2>1
    <3> HIDE DEF ws
    <3> QED
      BY <2>1, <3>1, <3>2, ComponentWritesAre DEF ws
  <2> HIDE DEF ws
  <2>4. HasIn(h, key, hash)
    BY <1>1, <1>2, <2>2, <2>3, NamedHas, ValueNames
  <2>5. \A d \in ToSet(c.deployments) : HasIn(h, key, <<"c!", d>>)
    BY <1>1, <1>2, <2>2, <2>3, NamedHas, ValueNames
  <2>6. \A f \in ToSet(c.files) : HasIn(h, key, fileValueName(f.name))
    BY <1>1, <1>2, <2>2, <2>3, NamedHas, ValueNames
  <2>7. h[key][hash] = ManifestHash(c.manifest)
    <3>1. PICK w \in ToSet(ws) : w.key = key /\ w.name = hash
      BY <2>3 DEF Named
    <3>2. PICK i \in 1 .. Len(W) : W[i] = w
      BY <1>1, <2>2, <3>1, ListIs
    <3>3. RecordedBy(h, W, Len(W), i) /\ hash[1] # Absent
      BY <1>2, <3>2, ValueNames DEF Recorded
    <3>4. PICK j \in 1 .. Len(W) : /\ W[j].key = key /\ W[j].name = hash /\ LastIn(W, Len(W), j)
                                   /\ h[key][hash] = W[j].data
      BY <3>1, <3>2, <3>3 DEF RecordedBy
    <3>5. W[j].data = ManifestHash(FinalComponent(inst, k).manifest)
      BY <1>4, <3>4 DEF key, hash
    <3> QED
      BY <3>4, <3>5 DEF c
  <2> QED
    BY <1>6, <2>4, <2>5, <2>6, <2>7 DEF ComponentKeysStand, c
<1>8. ASSUME NEW n \in PackageNames(inst) PROVE PackageKeysStand(h, inst, n)
  <2> DEFINE p == FinalPackage(inst, n)
             ws == CatalogWrites(p.catalog, inst, given)
  <2>1. p \in ToSet(inst.packages) /\ p.name = n
    BY FinalsAre
  <2> HIDE DEF p
  <2>2. <<"Packages", n>> \in DOMAIN h
    <3>1. PICK w \in ToSet(PackageWrites(p)) : Makes(w, <<"Packages", p.name>>)
      BY <1>3, <2>1, PackageWritesAre
    <3>2. w \in ToSet(W)
      BY <1>1, <2>1, <3>1 DEF WrittenBy
    <3> QED
      BY <1>5, <2>1, <3>1, <3>2 DEF Makes
  <2>3. ToSet(ws) \subseteq ToSet(W)
    BY <1>1, <2>1 DEF WrittenBy
  <2>4. ASSUME p.catalog # Absent
        PROVE  /\ <<"Catalogs", p.catalog>> \in DOMAIN h
               /\ \A d \in ToSet(inst.deployments) : d.catalog = p.catalog =>
                    HasIn(h, <<"Catalogs", p.catalog>>, <<"c!", d.name>>)
    <3>1. \A w \in ToSet(ws) : w.stop = "ok"
      BY <1>5, <2>3
    <3>2. /\ \E w \in ToSet(ws) : Makes(w, <<"Catalogs", p.catalog>>)
          /\ \A d \in ToSet(inst.deployments) : d.catalog = p.catalog =>
               Named(ws, <<"Catalogs", p.catalog>>, <<"c!", d.name>>)
      BY <1>3, <2>4, <3>1, CatalogWritesAre
    <3> HIDE DEF ws
    <3>3. <<"Catalogs", p.catalog>> \in DOMAIN h
      BY <1>5, <2>3, <3>2 DEF Makes
    <3>4. \A d \in ToSet(inst.deployments) : d.catalog = p.catalog =>
            HasIn(h, <<"Catalogs", p.catalog>>, <<"c!", d.name>>)
      BY <1>1, <1>2, <2>3, <3>2, NamedHas, ValueNames
    <3> QED
      BY <3>3, <3>4
  <2> QED
    BY <2>2, <2>4 DEF PackageKeysStand, p
<1> QED
  BY <1>7, <1>8

\* Keys stand on in a hive that has grown.
LEMMA KeysStandOn ==
  ASSUME NEW h, NEW g, Grows(h, g), NEW inst
  PROVE  /\ \A n : PackageKeysStand(h, inst, n) => PackageKeysStand(g, inst, n)
         /\ \A k : /\ ComponentKeysStand(h, inst, k)
                   /\ g[<<"Components", k>>][<<"S256H", Absent>>] = h[<<"Components", k>>][<<"S256H", Absent>>]
              => ComponentKeysStand(g, inst, k)
<1>1. \A key, name : HasIn(h, key, name) => HasIn(g, key, name)
  BY DEF Grows, HasIn
<1>2. \A key \in DOMAIN h : key \in DOMAIN g
  BY DEF Grows
<1>3. \A n : PackageKeysStand(h, inst, n) => PackageKeysStand(g, inst, n)
  BY <1>1, <1>2 DEF PackageKeysStand
<1>4. \A k : /\ ComponentKeysStand(h, inst, k)
             /\ g[<<"Components", k>>][<<"S256H", Absent>>] = h[<<"Components", k>>][<<"S256H", Absent>>]
        => ComponentKeysStand(g, inst, k)
  BY <1>1, <1>2 DEF ComponentKeysStand
<1> QED
  BY <1>3, <1>4

\* A hive of the store: its catalogs lead to deployments.
StoreHive(h) == IsHive(h) /\ Linked(h)

\* Some writes, made in their turn.
LEMMA WritesDo ==
  ASSUME NEW h, StoreHive(h), NEW writes, IsList(writes), InTurn(writes), NEW r, r = RegisterAll(h, writes)
  PROVE  /\ StoreHive(r.hive) /\ Grows(h, r.hive)
         /\ r.result = "ok" => Recorded(r.hive, writes, Len(writes))
         /\ \A key, n : HasIn(h, key, n) /\ (\A w \in ToSet(writes) : w.stop = "ok" => w.key # key)
              => r.hive[key][n] = h[key][n]
<1>1. Len(writes) \in Nat /\ \A i \in 1 .. Len(writes) : writes[i] \in ToSet(writes)
  BY ListIs
<1>2. RegisteredSoFar(h, writes, Len(writes), r)
  BY <1>1, RegisterAllDoes DEF StoreHive
<1>3. /\ IsHive(r.hive) /\ Grows(h, r.hive)
      /\ \A key \in DOMAIN r.hive : \A n \in DOMAIN r.hive[key] :
           Still(h, r.hive, key, n) \/ \E i \in 1 .. Len(writes) : Writes(writes[i], key, n)
      /\ r.result = "ok" => Recorded(r.hive, writes, Len(writes))
      /\ Linked(r.hive)
  BY <1>2 DEF RegisteredSoFar, StoreHive
<1>4. ASSUME NEW key, NEW n, HasIn(h, key, n), \A w \in ToSet(writes) : w.stop = "ok" => w.key # key
      PROVE  r.hive[key][n] = h[key][n]
  <2>1. key \in DOMAIN r.hive /\ n \in DOMAIN r.hive[key]
    BY <1>3, <1>4 DEF HasIn, Grows
  <2>2. ~ \E i \in 1 .. Len(writes) : Writes(writes[i], key, n)
    BY <1>1, <1>4 DEF Writes
  <2>3. Still(h, r.hive, key, n)
    BY <1>3, <2>1, <2>2
  <2> QED
    BY <2>3 DEF Still
<1> QED
  BY <1>3, <1>4 DEF StoreHive

\* What InstallRegistry does to the keys that stand.
LEMMA KeysDo ==
  ASSUME NEW h, StoreHive(h), NEW inst, AreLists(inst), NEW given,
         NEW r, r = RegisterAll(h, WritesOf(inst, given))
  PROVE  /\ StoreHive(r.hive)
         /\ r.result = "ok" => Recorded(r.hive, WritesOf(inst, given), Len(WritesOf(inst, given)))
         /\ \A x, n : PackageKeysStand(h, x, n) => PackageKeysStand(r.hive, x, n)
         /\ \A x, k : ComponentKeysStand(h, x, k) /\ k \notin KeyForms(inst) => ComponentKeysStand(r.hive, x, k)
<1> DEFINE W == WritesOf(inst, given)
<1>1. IsList(W) /\ InTurn(W)
  BY WritesOfAre, WritesInTurn
<1>2. r = RegisterAll(h, W)
  OBVIOUS
<1>3. \A k : k \notin KeyForms(inst) => \A w \in ToSet(W) : w.stop = "ok" => w.key # <<"Components", k>>
  BY NoComponentWrite
<1> HIDE DEF W
<1>4. /\ StoreHive(r.hive) /\ Grows(h, r.hive)
      /\ r.result = "ok" => Recorded(r.hive, W, Len(W))
      /\ \A key, n : HasIn(h, key, n) /\ (\A w \in ToSet(W) : w.stop = "ok" => w.key # key)
           => r.hive[key][n] = h[key][n]
  BY <1>1, <1>2, WritesDo
<1>5. \A x, n : PackageKeysStand(h, x, n) => PackageKeysStand(r.hive, x, n)
  BY <1>4, KeysStandOn
<1>6. ASSUME NEW x, NEW k, ComponentKeysStand(h, x, k), k \notin KeyForms(inst)
      PROVE  ComponentKeysStand(r.hive, x, k)
  <2>1. HasIn(h, <<"Components", k>>, <<"S256H", Absent>>)
    BY <1>6 DEF ComponentKeysStand
  <2>2. r.hive[<<"Components", k>>][<<"S256H", Absent>>] = h[<<"Components", k>>][<<"S256H", Absent>>]
    BY <1>3, <1>4, <1>6, <2>1
  <2> QED
    BY <1>4, <1>6, <2>2, KeysStandOn
<1> QED
  BY <1>4, <1>5, <1>6 DEF W

\* The two writes of InstallWinners.
WinnerWrites(w) ==
  << Write(<<"Winners", w.keyform, w.family>>, <<"default", Absent>>, w.version),
     Write(<<"Winners", w.keyform, w.family>>, <<"version", w.version>>, "1") >>

LEMMA WinnerWritesAre ==
  ASSUME NEW w, NEW h
  PROVE  /\ IsList(WinnerWrites(w)) /\ InTurn(WinnerWrites(w)) /\ Len(WinnerWrites(w)) = 2
         /\ \A x \in ToSet(WinnerWrites(w)) : x.stop = "ok" /\ x.key[1] = "Winners"
         /\ RegisterAll(h, WinnerWrites(w)).result = "ok"
         /\ RegisterAll(h, WinnerWrites(w)).hive =
              SetKeyValue(SetKeyValue(h, Write(<<"Winners", w.keyform, w.family>>, <<"default", Absent>>, w.version)),
                          Write(<<"Winners", w.keyform, w.family>>, <<"version", w.version>>, "1"))
<1> DEFINE key == <<"Winners", w.keyform, w.family>>
           x == Write(key, <<"default", Absent>>, w.version)
           y == Write(key, <<"version", w.version>>, "1")
           ws == WinnerWrites(w)
<1>1. ws = <<x, y>>
  BY DEF WinnerWrites
<1>2. x.stop = "ok" /\ x.key = key /\ y.stop = "ok" /\ y.key = key /\ key[1] = "Winners"
  BY WriteHas
<1> HIDE DEF x, y, key, ws
<1>3. IsList(ws) /\ ToSet(ws) = {x, y} /\ Len(ws) = 2
  BY <1>1, TwoIsList
<1>4. ws[1] = x /\ ws[2] = y
  BY <1>1
<1>5. \A z \in ToSet(ws) : z.stop = "ok" /\ z.key[1] = "Winners"
  BY <1>2, <1>3
<1>6. InTurn(ws)
  <2>1. \A i \in 1 .. Len(ws) : ws[i] \in ToSet(ws)
    BY <1>3, ListIs
  <2>2. \A i \in 1 .. Len(ws) : ~Links(ws[i])
    BY <1>5, <2>1 DEF Links
  <2> QED
    BY <2>2 DEF InTurn
<1>7. PICK r : RegistersBy(r, h, ws)
  BY <1>3, RegisterSteps
<1>8. r[0] = [hive |-> h, result |-> "ok"] /\ r[1] = Register(r[0], ws[1]) /\ r[2] = Register(r[1], ws[2])
      /\ RegisterAll(h, ws) = r[2]
  <2>1. /\ r[0] = [hive |-> h, result |-> "ok"] /\ RegisterAll(h, ws) = r[Len(ws)]
        /\ \A k \in 1 .. Len(ws) : r[k] = Register(r[k - 1], ws[k])
    BY <1>7 DEF RegistersBy
  <2>2. 1 \in 1 .. Len(ws) /\ 2 \in 1 .. Len(ws) /\ 1 - 1 = 0 /\ 2 - 1 = 1
    BY <1>3
  <2>3. r[1] = Register(r[1 - 1], ws[1]) /\ r[2] = Register(r[2 - 1], ws[2])
    BY <2>1, <2>2
  <2> QED
    BY <1>3, <2>1, <2>2, <2>3
<1>9. \A g, z : z.stop = "ok" =>
        Register([hive |-> g, result |-> "ok"], z) = [hive |-> SetKeyValue(g, z), result |-> "ok"]
  BY DEF Register
<1>10. r[2] = [hive |-> SetKeyValue(SetKeyValue(h, x), y), result |-> "ok"]
  <2>1. r[1] = [hive |-> SetKeyValue(h, x), result |-> "ok"]
    BY <1>2, <1>4, <1>8, <1>9
  <2> QED
    BY <1>2, <1>4, <1>8, <1>9, <2>1
<1>11. RegisterAll(h, ws).result = "ok" /\ RegisterAll(h, ws).hive = SetKeyValue(SetKeyValue(h, x), y)
  BY <1>8, <1>10
<1> QED
  BY <1>3, <1>5, <1>6, <1>11 DEF ws, x, y, key

\* What is written depends on the hives given only if there is a catalog.
LEMMA SameWrites ==
  ASSUME NEW inst, AreLists(inst), NEW given, NEW other,
         \A p \in ToSet(inst.packages) :
           CatalogWrites(p.catalog, inst, given) = CatalogWrites(p.catalog, inst, other)
  PROVE  WritesOf(inst, given) = WritesOf(inst, other)
<1>1. /\ DOMAIN inst.packages = 1 .. Len(inst.packages)
      /\ \A i \in 1 .. Len(inst.packages) : inst.packages[i] \in ToSet(inst.packages)
  BY ListIs DEF AreLists
<1>2. [i \in DOMAIN inst.packages |-> CatalogWrites(inst.packages[i].catalog, inst, given)]
      = [i \in DOMAIN inst.packages |-> CatalogWrites(inst.packages[i].catalog, inst, other)]
  BY <1>1
<1> QED
  BY <1>2 DEF WritesOf

LEMMA NoCatalogs ==
  ASSUME NEW inst, AreLists(inst), NEW given, "COMPONENTS" \notin given, NEW other,
         \A w \in ToSet(CatalogPart(inst, given)) : w.stop = "ok"
  PROVE  WritesOf(inst, given) = WritesOf(inst, other)
<1>1. ASSUME NEW p \in ToSet(inst.packages) PROVE p.catalog = Absent
  <2> SUFFICES ASSUME p.catalog # Absent PROVE FALSE
    OBVIOUS
  <2> DEFINE ws == CatalogWrites(p.catalog, inst, given)
  <2>1. IsList(inst.deployments)
    BY DEF AreLists
  <2>2. /\ \A w \in ToSet(ws) : w.stop # "ok"
        /\ (\A w \in ToSet(ws) : w.stop = "ok") => \E w \in ToSet(ws) : Makes(w, <<"Catalogs", p.catalog>>)
    BY <2>1, CatalogWritesAre
  <2>3. \A w \in ToSet(ws) : w \in ToSet(CatalogPart(inst, given))
    BY PartsAre
  <2> HIDE DEF ws
  <2> QED
    BY <2>2, <2>3
<1>2. \A p \in ToSet(inst.packages) :
        CatalogWrites(p.catalog, inst, given) = CatalogWrites(p.catalog, inst, other)
  BY <1>1 DEF CatalogWrites
<1> QED
  BY <1>2, SameWrites

\* An installation that is registered is not registered otherwise with other hives.
LEMMA OtherHives ==
  ASSUME NEW inst, AreLists(inst), NEW given, MayRegister(inst, given), NEW other, MayRegister(inst, other),
         NEW h, StoreHive(h), Recorded(h, WritesOf(inst, given), Len(WritesOf(inst, given)))
  PROVE  RegisterAll(h, WritesOf(inst, other)).hive = h
<1> DEFINE W == WritesOf(inst, given)
           V == WritesOf(inst, other)
<1>1. /\ IsList(W) /\ Len(W) \in Nat /\ IsList(V) /\ Len(V) \in Nat
      /\ \A w : w \in ToSet(W) <=> WrittenBy(inst, given, w)
  BY WritesOfAre
<1>2. IsHive(h)
  BY DEF StoreHive
<1>3. CASE W = V
  <2> HIDE DEF W
  <2>1. RegisterAll(h, W).hive = h
    BY <1>1, <1>2, RecordedStays DEF W
  <2> QED
    BY <1>3, <2>1
<1>4. CASE "COMPONENTS" \in given <=> "COMPONENTS" \in other
  <2>1. \A p \in ToSet(inst.packages) :
          CatalogWrites(p.catalog, inst, given) = CatalogWrites(p.catalog, inst, other)
    BY <1>4 DEF CatalogWrites
  <2> QED
    BY <1>3, <2>1, SameWrites
<1>5. CASE "COMPONENTS" \notin given
  <2>1. \A w \in ToSet(W) : w.stop = "ok"
    BY <1>1, RecordedHas
  <2>2. \A w \in ToSet(CatalogPart(inst, given)) : w \in ToSet(W)
    BY <1>1, PartsAre DEF WrittenBy
  <2> QED
    BY <1>3, <1>5, <2>1, <2>2, NoCatalogs
<1>6. CASE "COMPONENTS" \notin other
  <2>1. CASE \A w \in ToSet(CatalogPart(inst, other)) : w.stop = "ok"
    BY <1>3, <1>6, <2>1, NoCatalogs
  <2>2. CASE \E w \in ToSet(CatalogPart(inst, other)) : w.stop # "ok"
    <3> DEFINE a == ComponentPart(inst)
               b == DeploymentPart(inst)
               c == CatalogPart(inst, other)
               d == PackagePart(inst)
    <3>1. V = a \o b \o c \o d
      BY DEF WritesOf, ComponentPart, DeploymentPart, CatalogPart, PackagePart
    <3>2. IsList(a) /\ IsList(b) /\ IsList(c) /\ IsList(d)
      BY PartsAre
    <3>3. inst.components = <<>> /\ inst.deployments = <<>>
      BY <1>6 DEF MayRegister
    <3>4. ToSet(a) = {} /\ ToSet(b) = {}
      <4>1. ToSet(inst.components) = {} /\ ToSet(inst.deployments) = {}
        BY <3>3, NoneIsList
      <4>2. \A w : w \notin ToSet(a) /\ w \notin ToSet(b)
        BY <4>1, PartsAre
      <4> HIDE DEF a, b
      <4> QED
        BY <4>2
    <3>5. \A w \in ToSet(c) : w.stop # "ok"
      <4> TAKE w \in ToSet(c)
      <4>1. PICK p \in ToSet(inst.packages) : w \in ToSet(CatalogWrites(p.catalog, inst, other))
        BY PartsAre
      <4>2. IsList(inst.deployments)
        BY DEF AreLists
      <4> QED
        BY <1>6, <4>1, <4>2, CatalogWritesAre
    <3>6. ToSet(c) # {}
      BY <2>2
    <3> HIDE DEF a, b, c, d, V
    <3>7. Joined(a, b, c, d, V)
      BY <3>1, <3>2, FourLists
    <3>8. Len(a) = 0 /\ Len(b) = 0 /\ Len(c) >= 1
      <4>1. /\ Len(a) \in Nat /\ \A i \in 1 .. Len(a) : a[i] \in ToSet(a)
            /\ Len(b) \in Nat /\ \A i \in 1 .. Len(b) : b[i] \in ToSet(b)
            /\ Len(c) \in Nat /\ \A x \in ToSet(c) : \E i \in 1 .. Len(c) : c[i] = x
        BY <3>2, ListIs
      <4>2. 1 \notin 1 .. Len(a) /\ 1 \notin 1 .. Len(b)
        BY <3>4, <4>1
      <4>3. \E i : i \in 1 .. Len(c)
        BY <3>6, <4>1
      <4> QED
        BY <4>1, <4>2, <4>3
    <3>9. V[1] \in ToSet(c) /\ Len(V) >= 1
      <4>1. /\ Len(c) \in Nat /\ Len(V) \in Nat /\ Len(a) + Len(b) + Len(c) <= Len(V)
            /\ \A k \in 1 .. Len(a) + Len(b) + Len(c) : V[k] \in ToSet(a) \cup ToSet(b) \cup ToSet(c)
        BY <3>7 DEF Joined
      <4>2. 1 \in 1 .. Len(a) + Len(b) + Len(c)
        BY <3>8, <4>1
      <4> QED
        BY <3>4, <3>8, <4>1, <4>2
    <3>10. RegisteredSoFar(h, V, Len(V), RegisterAll(h, V))
      BY <1>1, <1>2, RegisterAllDoes
    <3>11. RegisterAll(h, V).hive = h
      BY <3>5, <3>9, <3>10 DEF RegisteredSoFar
    <3> QED
      BY <3>11 DEF V
  <2> QED
    BY <2>1, <2>2
<1> QED
  BY <1>4, <1>5, <1>6

\* A list of writes is stopped as one of them says.
LEMMA StoppedBy ==
  ASSUME NEW h, NEW writes, IsList(writes)
  PROVE  RegisterAll(h, writes).result = "ok" \/ \E w \in ToSet(writes) : w.stop = RegisterAll(h, writes).result
<1> DEFINE n == Len(writes)
           Stopped(x) == x.result = "ok" \/ \E w \in ToSet(writes) : w.stop = x.result
<1>1. n \in Nat /\ \A i \in 1 .. n : writes[i] \in ToSet(writes)
  BY ListIs
<1>2. PICK r : RegistersBy(r, h, writes)
  BY <1>1, RegisterSteps
<1>3. /\ r[0] = [hive |-> h, result |-> "ok"] /\ RegisterAll(h, writes) = r[n]
      /\ \A k \in 1 .. n : r[k] = Register(r[k - 1], writes[k])
  BY <1>2 DEF RegistersBy
<1> DEFINE S == {k \in 0 .. n : r[k] = [hive |-> r[k].hive, result |-> r[k].result] /\ Stopped(r[k])}
<1>4. 0 \in S
  BY <1>1, <1>3
<1>5. ASSUME NEW k \in 1 .. n, k - 1 \in S PROVE k \in S
  <2> DEFINE a == r[k - 1]
  <2>1. a = [hive |-> a.hive, result |-> a.result] /\ Stopped(a) /\ k \in 0 .. n
    BY <1>5
  <2>2. r[k] = Register(a, writes[k]) /\ writes[k] \in ToSet(writes)
    BY <1>1, <1>3
  <2> HIDE DEF a
  <2>3. CASE a.result # "ok"
    <3>1. r[k] = a
      BY <2>2, <2>3 DEF Register
    <3> QED
      BY <2>1, <3>1
  <2>4. CASE a.result = "ok" /\ writes[k].stop # "ok"
    <3>1. r[k] = [hive |-> a.hive, result |-> writes[k].stop]
      BY <2>1, <2>2, <2>4 DEF Register
    <3> QED
      BY <2>1, <2>2, <3>1
  <2>5. CASE a.result = "ok" /\ writes[k].stop = "ok"
    <3>1. r[k] = [hive |-> SetKeyValue(a.hive, writes[k]), result |-> "ok"]
      BY <2>1, <2>2, <2>5 DEF Register
    <3> QED
      BY <2>1, <3>1
  <2> QED
    BY <2>3, <2>4, <2>5
<1>6. n \in S
  <2> HIDE DEF S, n
  <2>1. 0 .. n \subseteq S
    BY <1>1, <1>4, <1>5, UpTo
  <2> QED
    BY <1>1, <2>1
<1> QED
  BY <1>3, <1>6

LEMMA NeverRefused ==
  ASSUME NEW inst, AreLists(inst), NEW given, NEW h
  PROVE  RegisterAll(h, WritesOf(inst, given)).result # "refused"
<1>1. /\ IsList(WritesOf(inst, given))
      /\ \A w : w \in ToSet(WritesOf(inst, given)) <=> WrittenBy(inst, given, w)
  BY WritesOfAre
<1>2. /\ \A c \in ToSet(inst.components) : IsList(c.deployments) /\ IsList(c.files)
      /\ \A p \in ToSet(inst.packages) : IsList(p.owners)
      /\ IsList(inst.deployments)
  BY DEF AreLists
<1>3. ASSUME NEW w, WrittenBy(inst, given, w) PROVE w.stop # "refused"
  <2>1. CASE \E c \in ToSet(inst.components) : w \in ToSet(ComponentWrites(c))
    BY <1>2, <2>1, ComponentWritesAre DEF ComponentWrite
  <2>2. CASE \E d \in ToSet(inst.deployments) : w \in ToSet(DeploymentWrites(d))
    BY <2>2, DeploymentWritesAre
  <2>3. CASE \E p \in ToSet(inst.packages) : w \in ToSet(CatalogWrites(p.catalog, inst, given))
    <3>1. PICK p \in ToSet(inst.packages) : w \in ToSet(CatalogWrites(p.catalog, inst, given))
      BY <2>3
    <3>2. CatalogWrite(p.catalog, inst, w)
      BY <1>2, <3>1, CatalogWritesAre
    <3> QED
      BY <3>2 DEF CatalogWrite
  <2>4. CASE \E p \in ToSet(inst.packages) : w \in ToSet(PackageWrites(p))
    BY <1>2, <2>4, PackageWritesAre DEF PackageWrite
  <2> QED
    BY <1>3, <2>1, <2>2, <2>3, <2>4 DEF WrittenBy
<1> QED
  BY <1>1, <1>3, StoppedBy

-----------------------------------------------------------------------------
(* What the log says of the files and of the keys.                           *)

ComponentFilesCall(c, k) ==
  \/ c.op = "removeComponent" /\ c.arg = k
  \/ c.op = "files" /\ c.result # "refused" /\ k \in KeyForms(c.arg)
PackageFilesCall(c, n) ==
  \/ c.op = "removePackage" /\ c.arg = n
  \/ c.op = "files" /\ c.result # "refused" /\ n \in PackageNames(c.arg)
ComponentKeysCall(c, k) == c.op = "keys" /\ c.result # "refused" /\ k \in KeyForms(c.arg)
PackageKeysCall(c, n) == c.op = "keys" /\ c.result # "refused" /\ n \in PackageNames(c.arg)

\* What was placed or registered without an error stands until it is touched again.
FilesHold(t, done) ==
  \A a \in 1 .. Len(done) : done[a].op = "files" /\ done[a].result = "ok" =>
    /\ done[a].arg \in Installations
    /\ \A k \in KeyForms(done[a].arg) :
         (\A b \in 1 .. Len(done) : b > a => ~ComponentFilesCall(done[b], k)) =>
           ComponentFilesStand(t, done[a].arg, k)
    /\ \A n \in PackageNames(done[a].arg) :
         (\A b \in 1 .. Len(done) : b > a => ~PackageFilesCall(done[b], n)) =>
           PackageFilesStand(t, done[a].arg, n)

KeysHold(h, done) ==
  \A a \in 1 .. Len(done) : done[a].op = "keys" /\ done[a].result = "ok" =>
    /\ done[a].arg \in Installations
    /\ \A k \in KeyForms(done[a].arg) :
         (\A b \in 1 .. Len(done) : b > a => ~ComponentKeysCall(done[b], k)) =>
           ComponentKeysStand(h, done[a].arg, k)
    /\ \A n \in PackageNames(done[a].arg) :
         (\A b \in 1 .. Len(done) : b > a => ~PackageKeysCall(done[b], n)) =>
           PackageKeysStand(h, done[a].arg, n)

\* One more call, which leaves alone what it does not touch.
KeepsFiles(t, u, c) ==
  \A inst \in Installations :
    /\ \A k \in KeyForms(inst) : ComponentFilesStand(t, inst, k) /\ ~ComponentFilesCall(c, k) =>
         ComponentFilesStand(u, inst, k)
    /\ \A n \in PackageNames(inst) : PackageFilesStand(t, inst, n) /\ ~PackageFilesCall(c, n) =>
         PackageFilesStand(u, inst, n)
KeepsKeys(h, g, c) ==
  \A inst \in Installations :
    /\ \A k \in KeyForms(inst) : ComponentKeysStand(h, inst, k) /\ ~ComponentKeysCall(c, k) =>
         ComponentKeysStand(g, inst, k)
    /\ \A n \in PackageNames(inst) : PackageKeysStand(h, inst, n) /\ ~PackageKeysCall(c, n) =>
         PackageKeysStand(g, inst, n)

MakesFiles(u, c) ==
  c.op = "files" /\ c.result = "ok" =>
    /\ c.arg \in Installations
    /\ \A k \in KeyForms(c.arg) : ComponentFilesStand(u, c.arg, k)
    /\ \A n \in PackageNames(c.arg) : PackageFilesStand(u, c.arg, n)
MakesKeys(g, c) ==
  c.op = "keys" /\ c.result = "ok" =>
    /\ c.arg \in Installations
    /\ \A k \in KeyForms(c.arg) : ComponentKeysStand(g, c.arg, k)
    /\ \A n \in PackageNames(c.arg) : PackageKeysStand(g, c.arg, n)

LEMMA OneMoreCall ==
  ASSUME NEW done, IsList(done), NEW c
  PROVE  /\ IsList(Append(done, c)) /\ Len(done) \in Nat /\ Len(Append(done, c)) = Len(done) + 1
         /\ \A i \in 1 .. Len(done) : Append(done, c)[i] = done[i]
         /\ Append(done, c)[Len(done) + 1] = c
<1>1. done \in Seq(ToSet(done) \cup {c}) /\ c \in ToSet(done) \cup {c}
  BY ListWithin
<1>2. Len(done) \in Nat /\ IsList(Append(done, c))
  BY ListIs, LongerIsList
<1> QED
  BY <1>1, <1>2, AppendEntries

LEMMA FilesHoldOn ==
  ASSUME NEW done, IsList(done), NEW t, FilesHold(t, done), NEW c, NEW u, KeepsFiles(t, u, c), MakesFiles(u, c)
  PROVE  FilesHold(u, Append(done, c))
<1> DEFINE n == Len(done)
           all == Append(done, c)
<1>1. n \in Nat /\ Len(all) = n + 1 /\ (\A i \in 1 .. n : all[i] = done[i]) /\ all[n + 1] = c
  BY OneMoreCall
<1> HIDE DEF n, all
<1>2. SUFFICES ASSUME NEW a \in 1 .. Len(all), all[a].op = "files", all[a].result = "ok"
               PROVE  /\ all[a].arg \in Installations
                      /\ \A k \in KeyForms(all[a].arg) :
                           (\A b \in 1 .. Len(all) : b > a => ~ComponentFilesCall(all[b], k)) =>
                             ComponentFilesStand(u, all[a].arg, k)
                      /\ \A m \in PackageNames(all[a].arg) :
                           (\A b \in 1 .. Len(all) : b > a => ~PackageFilesCall(all[b], m)) =>
                             PackageFilesStand(u, all[a].arg, m)
  BY DEF FilesHold, all
<1>3. CASE a = n + 1
  BY <1>1, <1>2, <1>3 DEF MakesFiles
<1>4. CASE a \in 1 .. n
  <2> DEFINE inst == done[a].arg
  <2>1. /\ all[a] = done[a] /\ n + 1 \in 1 .. Len(all) /\ n + 1 > a
        /\ \A b \in 1 .. n : b \in 1 .. Len(all) /\ all[b] = done[b]
    BY <1>1, <1>4
  <2>2. /\ inst \in Installations
        /\ \A k \in KeyForms(inst) : (\A b \in 1 .. n : b > a => ~ComponentFilesCall(done[b], k)) =>
             ComponentFilesStand(t, inst, k)
        /\ \A m \in PackageNames(inst) : (\A b \in 1 .. n : b > a => ~PackageFilesCall(done[b], m)) =>
             PackageFilesStand(t, inst, m)
    BY <1>2, <1>4, <2>1 DEF FilesHold, n
  <2> HIDE DEF inst
  <2>3. ASSUME NEW k \in KeyForms(inst), \A b \in 1 .. Len(all) : b > a => ~ComponentFilesCall(all[b], k)
        PROVE  ComponentFilesStand(u, inst, k)
    <3>1. ComponentFilesStand(t, inst, k) /\ ~ComponentFilesCall(c, k)
      BY <1>1, <2>1, <2>2, <2>3
    <3> QED
      BY <2>2, <3>1 DEF KeepsFiles
  <2>4. ASSUME NEW m \in PackageNames(inst), \A b \in 1 .. Len(all) : b > a => ~PackageFilesCall(all[b], m)
        PROVE  PackageFilesStand(u, inst, m)
    <3>1. PackageFilesStand(t, inst, m) /\ ~PackageFilesCall(c, m)
      BY <1>1, <2>1, <2>2, <2>4
    <3> QED
      BY <2>2, <3>1 DEF KeepsFiles
  <2>5. all[a].arg = inst
    BY <2>1 DEF inst
  <2> QED
    BY <2>2, <2>3, <2>4, <2>5
<1> QED
  BY <1>1, <1>3, <1>4

LEMMA KeysHoldOn ==
  ASSUME NEW done, IsList(done), NEW h, KeysHold(h, done), NEW c, NEW g, KeepsKeys(h, g, c), MakesKeys(g, c)
  PROVE  KeysHold(g, Append(done, c))
<1> DEFINE n == Len(done)
           all == Append(done, c)
<1>1. n \in Nat /\ Len(all) = n + 1 /\ (\A i \in 1 .. n : all[i] = done[i]) /\ all[n + 1] = c
  BY OneMoreCall
<1> HIDE DEF n, all
<1>2. SUFFICES ASSUME NEW a \in 1 .. Len(all), all[a].op = "keys", all[a].result = "ok"
               PROVE  /\ all[a].arg \in Installations
                      /\ \A k \in KeyForms(all[a].arg) :
                           (\A b \in 1 .. Len(all) : b > a => ~ComponentKeysCall(all[b], k)) =>
                             ComponentKeysStand(g, all[a].arg, k)
                      /\ \A m \in PackageNames(all[a].arg) :
                           (\A b \in 1 .. Len(all) : b > a => ~PackageKeysCall(all[b], m)) =>
                             PackageKeysStand(g, all[a].arg, m)
  BY DEF KeysHold, all
<1>3. CASE a = n + 1
  BY <1>1, <1>2, <1>3 DEF MakesKeys
<1>4. CASE a \in 1 .. n
  <2> DEFINE inst == done[a].arg
  <2>1. /\ all[a] = done[a] /\ n + 1 \in 1 .. Len(all) /\ n + 1 > a
        /\ \A b \in 1 .. n : b \in 1 .. Len(all) /\ all[b] = done[b]
    BY <1>1, <1>4
  <2>2. /\ inst \in Installations
        /\ \A k \in KeyForms(inst) : (\A b \in 1 .. n : b > a => ~ComponentKeysCall(done[b], k)) =>
             ComponentKeysStand(h, inst, k)
        /\ \A m \in PackageNames(inst) : (\A b \in 1 .. n : b > a => ~PackageKeysCall(done[b], m)) =>
             PackageKeysStand(h, inst, m)
    BY <1>2, <1>4, <2>1 DEF KeysHold, n
  <2> HIDE DEF inst
  <2>3. ASSUME NEW k \in KeyForms(inst), \A b \in 1 .. Len(all) : b > a => ~ComponentKeysCall(all[b], k)
        PROVE  ComponentKeysStand(g, inst, k)
    <3>1. ComponentKeysStand(h, inst, k) /\ ~ComponentKeysCall(c, k)
      BY <1>1, <2>1, <2>2, <2>3
    <3> QED
      BY <2>2, <3>1 DEF KeepsKeys
  <2>4. ASSUME NEW m \in PackageNames(inst), \A b \in 1 .. Len(all) : b > a => ~PackageKeysCall(all[b], m)
        PROVE  PackageKeysStand(g, inst, m)
    <3>1. PackageKeysStand(h, inst, m) /\ ~PackageKeysCall(c, m)
      BY <1>1, <2>1, <2>2, <2>4
    <3> QED
      BY <2>2, <3>1 DEF KeepsKeys
  <2>5. all[a].arg = inst
    BY <2>1 DEF inst
  <2> QED
    BY <2>2, <2>3, <2>4, <2>5
<1> QED
  BY <1>1, <1>3, <1>4

\* What a call that returned without an error leaves, so that it changes nothing again.
CallHolds(t, h, c) ==
  /\ c.op = "files" => Placed(t, FilesOf(c.arg), Len(FilesOf(c.arg)))
  /\ c.op = "keys" => \E given : /\ MayRegister(c.arg, given)
                                 /\ Recorded(h, WritesOf(c.arg, given), Len(WritesOf(c.arg, given)))
  /\ c.op = "winners" => Recorded(h, WinnerWrites(c.arg), 2)
  /\ c.op = "removePackage" => WithoutPaths(t, {MumPath(c.arg), CatPath(c.arg)}) = t
  /\ c.op = "removeComponent" => WithoutPaths(t, {ManifestPath(c.arg), StorePath(c.arg)}) = t

CallDoes(t, h, c, u, g) ==
  /\ StoreTree(u) /\ KeepsFiles(t, u, c) /\ MakesFiles(u, c)
  /\ StoreHive(g) /\ KeepsKeys(h, g, c) /\ MakesKeys(g, c)
  /\ c.result = "ok" => CallHolds(u, g, c)

Call(op, arg, result) == [op |-> op, arg |-> arg, result |-> result]

LEMMA CallIs ==
  ASSUME NEW op, NEW arg, NEW result
  PROVE  Call(op, arg, result).op = op /\ Call(op, arg, result).arg = arg /\ Call(op, arg, result).result = result
BY DEF Call

LEMMA NothingChanges ==
  ASSUME NEW c
  PROVE  (\A t : KeepsFiles(t, t, c)) /\ (\A h : KeepsKeys(h, h, c))
BY DEF KeepsFiles, KeepsKeys

LEMMA RefusedDoes ==
  ASSUME NEW t, StoreTree(t), NEW h, StoreHive(h), NEW op, NEW arg, NEW c, c = Call(op, arg, "refused")
  PROVE  CallDoes(t, h, c, t, h)
<1>1. c.result = "refused"
  BY CallIs
<1>2. MakesFiles(t, c) /\ MakesKeys(h, c)
  BY <1>1 DEF MakesFiles, MakesKeys
<1> QED
  BY <1>1, <1>2, NothingChanges DEF CallDoes

LEMMA FilesCallDoes ==
  ASSUME NEW t, StoreTree(t), NEW h, StoreHive(h), NEW inst \in Installations,
         NEW r, r = PlaceAll(t, FilesOf(inst)), NEW c, c = Call("files", inst, r.result)
  PROVE  CallDoes(t, h, c, r.image, h) /\ c.result # "refused"
<1>1. c.op = "files" /\ c.arg = inst /\ c.result = r.result
  BY CallIs
<1>2. /\ StoreTree(r.image)
      /\ r.result = "ok" => Placed(r.image, FilesOf(inst), Len(FilesOf(inst)))
      /\ \A p : IsFile(t, p) => IsFile(r.image, p)
      /\ \A k : KeyFormUsed(k) /\ k \notin KeyForms(inst) /\ ManifestPath(k) \in DOMAIN t =>
           r.image[ManifestPath(k)].data = t[ManifestPath(k)].data
  BY FilesDo
<1>3. r.result # "refused"
  <2>1. Len(FilesOf(inst)) \in Nat /\ \A i \in 1 .. Len(FilesOf(inst)) : IsList(FilesOf(inst)[i].path)
    BY FilesOfList
  <2>2. PlacedSoFar(t, FilesOf(inst), Len(FilesOf(inst)), r)
    BY <2>1, PlaceAllDoes DEF StoreTree
  <2> QED
    BY <2>2 DEF PlacedSoFar
<1>4. KeepsFiles(t, r.image, c)
  <2>1. ASSUME NEW x \in Installations, NEW k \in KeyForms(x), ComponentFilesStand(t, x, k), ~ComponentFilesCall(c, k)
        PROVE  ComponentFilesStand(r.image, x, k)
    <3>1. k \notin KeyForms(inst)
      BY <1>1, <1>3, <2>1 DEF ComponentFilesCall
    <3>2. KeyFormUsed(k)
      BY DEF KeyFormUsed
    <3>3. ManifestPath(k) \in DOMAIN t
      BY <2>1 DEF ComponentFilesStand, IsFile
    <3>4. r.image[ManifestPath(k)].data = t[ManifestPath(k)].data
      BY <1>2, <3>1, <3>2, <3>3
    <3> QED
      BY <1>2, <2>1, <3>4, StandOn
  <2>2. ASSUME NEW x \in Installations, NEW n \in PackageNames(x), PackageFilesStand(t, x, n)
        PROVE  PackageFilesStand(r.image, x, n)
    BY <1>2, <2>2, StandOn
  <2> QED
    BY <2>1, <2>2 DEF KeepsFiles
<1>5. MakesFiles(r.image, c)
  BY <1>1, <1>2, PlacedStand DEF MakesFiles
<1>6. MakesKeys(h, c)
  BY <1>1 DEF MakesKeys
<1>7. c.result = "ok" => CallHolds(r.image, h, c)
  BY <1>1, <1>2 DEF CallHolds
<1> QED
  BY <1>1, <1>2, <1>3, <1>4, <1>5, <1>6, <1>7, NothingChanges DEF CallDoes

LEMMA KeysCallDoes ==
  ASSUME NEW t, StoreTree(t), NEW h, StoreHive(h), NEW inst \in Installations, NEW given, MayRegister(inst, given),
         NEW r, r = RegisterAll(h, WritesOf(inst, given)), NEW c, c = Call("keys", inst, r.result)
  PROVE  CallDoes(t, h, c, t, r.hive) /\ c.result # "refused"
<1>1. c.op = "keys" /\ c.arg = inst /\ c.result = r.result
  BY CallIs
<1>2. AreLists(inst)
  BY StoreAssumption
<1>3. /\ StoreHive(r.hive)
      /\ r.result = "ok" => Recorded(r.hive, WritesOf(inst, given), Len(WritesOf(inst, given)))
      /\ \A x, n : PackageKeysStand(h, x, n) => PackageKeysStand(r.hive, x, n)
      /\ \A x, k : ComponentKeysStand(h, x, k) /\ k \notin KeyForms(inst) => ComponentKeysStand(r.hive, x, k)
  BY <1>2, KeysDo
<1>4. r.result # "refused"
  BY <1>2, NeverRefused
<1>5. KeepsKeys(h, r.hive, c)
  <2>1. ASSUME NEW x \in Installations, NEW k \in KeyForms(x), ComponentKeysStand(h, x, k), ~ComponentKeysCall(c, k)
        PROVE  ComponentKeysStand(r.hive, x, k)
    <3>1. k \notin KeyForms(inst)
      BY <1>1, <1>4, <2>1 DEF ComponentKeysCall
    <3> QED
      BY <1>3, <2>1, <3>1
  <2> QED
    BY <1>3, <2>1 DEF KeepsKeys
<1>6. MakesKeys(r.hive, c)
  <2>1. ASSUME r.result = "ok"
        PROVE  /\ \A k \in KeyForms(inst) : ComponentKeysStand(r.hive, inst, k)
               /\ \A n \in PackageNames(inst) : PackageKeysStand(r.hive, inst, n)
    BY <1>2, <1>3, <2>1, RecordedKeysStand
  <2> QED
    BY <1>1, <2>1 DEF MakesKeys
<1>7. MakesFiles(t, c)
  BY <1>1 DEF MakesFiles
<1>8. c.result = "ok" => CallHolds(t, r.hive, c)
  BY <1>1, <1>3 DEF CallHolds
<1> QED
  BY <1>1, <1>3, <1>4, <1>5, <1>6, <1>7, <1>8, NothingChanges DEF CallDoes

LEMMA WinnersCallDoes ==
  ASSUME NEW t, StoreTree(t), NEW h, StoreHive(h), NEW w, NEW c, c = Call("winners", w, "ok"),
         NEW g, g = RegisterAll(h, WinnerWrites(w)).hive
  PROVE  CallDoes(t, h, c, t, g)
<1> DEFINE ws == WinnerWrites(w)
           r == RegisterAll(h, ws)
<1>1. c.op = "winners" /\ c.arg = w /\ c.result = "ok"
  BY CallIs
<1>2. /\ IsList(ws) /\ InTurn(ws) /\ Len(ws) = 2 /\ r.result = "ok"
      /\ \A x \in ToSet(ws) : x.key[1] = "Winners"
  BY WinnerWritesAre
<1> HIDE DEF ws
<1>3. r = RegisterAll(h, ws)
  OBVIOUS
<1>4. g = r.hive
  BY DEF ws
<1> HIDE DEF r
<1>5. /\ StoreHive(r.hive) /\ Grows(h, r.hive)
      /\ r.result = "ok" => Recorded(r.hive, ws, Len(ws))
      /\ \A key, n : HasIn(h, key, n) /\ (\A x \in ToSet(ws) : x.stop = "ok" => x.key # key)
           => r.hive[key][n] = h[key][n]
  <2>1. IsList(ws) /\ InTurn(ws)
    BY <1>2
  <2> QED
    BY <1>3, <2>1, WritesDo
<1>6. KeepsKeys(h, g, c)
  <2>1. ASSUME NEW x, NEW k, ComponentKeysStand(h, x, k) PROVE ComponentKeysStand(g, x, k)
    <3>1. HasIn(h, <<"Components", k>>, <<"S256H", Absent>>)
      BY <2>1 DEF ComponentKeysStand
    <3>2. \A y \in ToSet(ws) : y.key # <<"Components", k>>
      <4>1. <<"Components", k>>[1] = "Components"
        OBVIOUS
      <4> QED
        BY <1>2, <4>1
    <3>3. g[<<"Components", k>>][<<"S256H", Absent>>] = h[<<"Components", k>>][<<"S256H", Absent>>]
      BY <1>5, <1>4, <3>1, <3>2
    <3> QED
      BY <1>5, <1>4, <2>1, <3>3, KeysStandOn
  <2>2. \A x, n : PackageKeysStand(h, x, n) => PackageKeysStand(g, x, n)
    BY <1>5, <1>4, KeysStandOn
  <2> QED
    BY <2>1, <2>2 DEF KeepsKeys
<1>7. MakesFiles(t, c) /\ MakesKeys(g, c)
  BY <1>1 DEF MakesFiles, MakesKeys
<1>8. CallHolds(t, g, c)
  BY <1>1, <1>2, <1>5, <1>4 DEF CallHolds, ws
<1> QED
  BY <1>5, <1>4, <1>6, <1>7, <1>8, NothingChanges DEF CallDoes

LEMMA RemovePackageDoes ==
  ASSUME NEW t, StoreTree(t), NEW h, StoreHive(h), NEW name, NEW c, c = Call("removePackage", name, "ok"),
         NEW u, u = WithoutPaths(t, {MumPath(name), CatPath(name)})
  PROVE  CallDoes(t, h, c, u, h)
<1>1. c.op = "removePackage" /\ c.arg = name /\ c.result = "ok"
  BY CallIs
<1> DEFINE paths == {MumPath(name), CatPath(name)}
<1>2. StoreTree(u) /\ WithoutPaths(u, paths) = u
  <2>1. u = WithoutPaths(t, paths)
    OBVIOUS
  <2> HIDE DEF paths
  <2> QED
    BY <2>1, WithoutPathsIs
<1>3. ASSUME NEW x \in Installations
      PROVE  /\ \A n \in PackageNames(x) \ {name} : PackageFilesStand(t, x, n) => PackageFilesStand(u, x, n)
             /\ \A k \in KeyForms(x) : ComponentFilesStand(t, x, k) => ComponentFilesStand(u, x, k)
  BY RemovedStand
<1>4. KeepsFiles(t, u, c)
  BY <1>1, <1>3 DEF KeepsFiles, PackageFilesCall
<1>5. MakesFiles(u, c) /\ MakesKeys(h, c)
  BY <1>1 DEF MakesFiles, MakesKeys
<1>6. CallHolds(u, h, c)
  BY <1>1, <1>2 DEF CallHolds
<1> QED
  BY <1>2, <1>4, <1>5, <1>6, NothingChanges DEF CallDoes

LEMMA RemoveComponentDoes ==
  ASSUME NEW t, StoreTree(t), NEW h, StoreHive(h), NEW name, KeyFormUsed(name),
         NEW c, c = Call("removeComponent", name, "ok"),
         NEW u, u = WithoutPaths(t, {ManifestPath(name), StorePath(name)})
  PROVE  CallDoes(t, h, c, u, h)
<1>1. c.op = "removeComponent" /\ c.arg = name /\ c.result = "ok"
  BY CallIs
<1> DEFINE paths == {ManifestPath(name), StorePath(name)}
<1>2. StoreTree(u) /\ WithoutPaths(u, paths) = u
  <2>1. u = WithoutPaths(t, paths)
    OBVIOUS
  <2> HIDE DEF paths
  <2> QED
    BY <2>1, WithoutPathsIs
<1>3. ASSUME NEW x \in Installations
      PROVE  /\ \A n \in PackageNames(x) : PackageFilesStand(t, x, n) => PackageFilesStand(u, x, n)
             /\ \A k \in KeyForms(x) \ {name} : ComponentFilesStand(t, x, k) => ComponentFilesStand(u, x, k)
  BY RemovedStand
<1>4. KeepsFiles(t, u, c)
  BY <1>1, <1>3 DEF KeepsFiles, ComponentFilesCall
<1>5. MakesFiles(u, c) /\ MakesKeys(h, c)
  BY <1>1 DEF MakesFiles, MakesKeys
<1>6. CallHolds(u, h, c)
  BY <1>1, <1>2 DEF CallHolds
<1> QED
  BY <1>2, <1>4, <1>5, <1>6, NothingChanges DEF CallDoes

-----------------------------------------------------------------------------
(* The invariant of the store.                                               *)

StoreInv(t, h, done) ==
  /\ StoreTree(t) /\ StoreHive(h) /\ IsList(done)
  /\ FilesHold(t, done) /\ KeysHold(h, done)
  /\ done # <<>> /\ Last(done).result = "ok" => CallHolds(t, h, Last(done))

LEMMA StoreInvOn ==
  ASSUME NEW t, NEW h, NEW done, StoreInv(t, h, done), NEW c, NEW u, NEW g, CallDoes(t, h, c, u, g)
  PROVE  StoreInv(u, g, Append(done, c)) /\ Last(Append(done, c)) = c
<1>1. IsList(done) /\ FilesHold(t, done) /\ KeysHold(h, done)
  BY DEF StoreInv
<1>2. /\ StoreTree(u) /\ KeepsFiles(t, u, c) /\ MakesFiles(u, c)
      /\ StoreHive(g) /\ KeepsKeys(h, g, c) /\ MakesKeys(g, c)
      /\ c.result = "ok" => CallHolds(u, g, c)
  BY DEF CallDoes
<1>3. /\ IsList(Append(done, c)) /\ Len(Append(done, c)) = Len(done) + 1
      /\ Append(done, c)[Len(done) + 1] = c
  BY <1>1, OneMoreCall
<1>4. Last(Append(done, c)) = c
  BY <1>3 DEF Last
<1>5. FilesHold(u, Append(done, c)) /\ KeysHold(g, Append(done, c))
  BY <1>1, <1>2, FilesHoldOn, KeysHoldOn
<1> QED
  BY <1>2, <1>3, <1>4, <1>5 DEF StoreInv

LEMMA StoreInitHolds ==
  ASSUME StoreInit
  PROVE  StoreInv(image, hive, log)
<1>1. StoreTree(image)
  BY StoreAssumption DEF StoreInit, StoreTree, IsTree
<1>2. hive = <<>> /\ log = <<>> /\ DOMAIN <<>> = {} /\ Len(<<>>) = 0
  BY DEF StoreInit
<1>3. StoreHive(hive)
  <2>1. hive = [k \in DOMAIN hive |-> [n \in DOMAIN hive[k] |-> hive[k][n]]]
    BY <1>2
  <2> QED
    BY <1>2, <2>1 DEF StoreHive, IsHive, Linked
<1>4. IsList(log) /\ 1 .. Len(log) = {}
  BY <1>2, NoneIsList
<1>5. FilesHold(image, log) /\ KeysHold(hive, log)
  BY <1>4 DEF FilesHold, KeysHold
<1> QED
  BY <1>1, <1>2, <1>3, <1>4, <1>5 DEF StoreInv

\* One call: it is logged, does what it should, and nothing if it is refused or made again.
StepDoes(c) ==
  /\ log' = Append(log, c)
  /\ CallDoes(image, hive, c, image', hive')
  /\ c.result = "refused" => image' = image /\ hive' = hive
  /\ (log # <<>> /\ Last(log).result = "ok" /\ Last(log).op = c.op /\ Last(log).arg = c.arg)
       => image' = image /\ hive' = hive

LEMMA RefusedStep ==
  ASSUME StoreTree(image), StoreHive(hive), NEW op, NEW arg, Logged(op, arg, "refused"), UNCHANGED <<image, hive>>
  PROVE  \E c : StepDoes(c)
<1> DEFINE c == Call(op, arg, "refused")
<1>1. log' = Append(log, c) /\ image' = image /\ hive' = hive
  BY DEF Logged, Call
<1>2. CallDoes(image, hive, c, image, hive)
  BY RefusedDoes
<1> HIDE DEF c
<1>3. StepDoes(c)
  BY <1>1, <1>2 DEF StepDoes
<1> QED
  BY <1>3

LEMMA InstallFilesStep ==
  ASSUME StoreInv(image, hive, log), NEW inst \in Installations, InstallFiles(inst)
  PROVE  \E c : StepDoes(c)
<1> DEFINE r == PlaceAll(image, FilesOf(inst))
           c == Call("files", inst, r.result)
<1>1. StoreTree(image) /\ StoreHive(hive)
  BY DEF StoreInv
<1>2. CASE inst.serviceability # "unset" /\ Sound(inst)
  <2>1. Logged("files", inst, r.result) /\ image' = r.image /\ hive' = hive
    BY <1>2 DEF InstallFiles
  <2>2. log' = Append(log, c)
    BY <2>1 DEF Logged, Call
  <2>3. CallDoes(image, hive, c, r.image, hive) /\ c.result # "refused"
    BY <1>1, FilesCallDoes
  <2>4. ASSUME log # <<>>, Last(log).result = "ok", Last(log).op = c.op, Last(log).arg = c.arg
        PROVE  r.image = image
    <3>1. c.op = "files" /\ c.arg = inst
      BY CallIs
    <3>2. Placed(image, FilesOf(inst), Len(FilesOf(inst)))
      BY <2>4, <3>1 DEF StoreInv, CallHolds
    <3>3. Len(FilesOf(inst)) \in Nat /\ \A i \in 1 .. Len(FilesOf(inst)) : IsList(FilesOf(inst)[i].path)
      BY FilesOfList
    <3>4. IsTree(image)
      BY <1>1 DEF StoreTree
    <3> QED
      BY <3>2, <3>3, <3>4, PlacedStays
  <2> HIDE DEF c, r
  <2>5. StepDoes(c)
    BY <2>1, <2>2, <2>3, <2>4 DEF StepDoes
  <2> QED
    BY <2>5
<1>3. CASE ~(inst.serviceability # "unset" /\ Sound(inst))
  <2>1. Logged("files", inst, "refused") /\ UNCHANGED <<image, hive>>
    BY <1>3 DEF InstallFiles
  <2> QED
    BY <1>1, <2>1, RefusedStep
<1> QED
  BY <1>2, <1>3

LEMMA InstallKeysStep ==
  ASSUME StoreInv(image, hive, log), NEW inst \in Installations, NEW given, InstallKeys(inst, given)
  PROVE  \E c : StepDoes(c)
<1> DEFINE r == RegisterAll(hive, WritesOf(inst, given))
           c == Call("keys", inst, r.result)
<1>1. StoreTree(image) /\ StoreHive(hive)
  BY DEF StoreInv
<1>2. CASE MayRegister(inst, given)
  <2>1. Logged("keys", inst, r.result) /\ hive' = r.hive /\ image' = image
    BY <1>2 DEF InstallKeys
  <2>2. log' = Append(log, c)
    BY <2>1 DEF Logged, Call
  <2>3. CallDoes(image, hive, c, image, r.hive) /\ c.result # "refused"
    BY <1>1, <1>2, KeysCallDoes
  <2>4. ASSUME log # <<>>, Last(log).result = "ok", Last(log).op = c.op, Last(log).arg = c.arg
        PROVE  r.hive = hive
    <3>1. c.op = "keys" /\ c.arg = inst
      BY CallIs
    <3>2. PICK other : MayRegister(inst, other) /\ Recorded(hive, WritesOf(inst, other), Len(WritesOf(inst, other)))
      BY <2>4, <3>1 DEF StoreInv, CallHolds
    <3>3. AreLists(inst)
      BY StoreAssumption
    <3> QED
      BY <1>1, <1>2, <3>2, <3>3, OtherHives
  <2> HIDE DEF c, r
  <2>5. StepDoes(c)
    BY <2>1, <2>2, <2>3, <2>4 DEF StepDoes
  <2> QED
    BY <2>5
<1>3. CASE ~MayRegister(inst, given)
  <2>1. Logged("keys", inst, "refused") /\ UNCHANGED <<image, hive>>
    BY <1>3 DEF InstallKeys
  <2> QED
    BY <1>1, <2>1, RefusedStep
<1> QED
  BY <1>2, <1>3

LEMMA InstallWinnersStep ==
  ASSUME StoreInv(image, hive, log), NEW w, InstallWinners(w)
  PROVE  \E c : StepDoes(c)
<1> DEFINE r == RegisterAll(hive, WinnerWrites(w))
           c == Call("winners", w, "ok")
<1>1. StoreTree(image) /\ StoreHive(hive)
  BY DEF StoreInv
<1>2. CASE w.valid
  <2>1. Logged("winners", w, "ok") /\ hive' = r.hive /\ image' = image
    <3>1. r.hive = SetKeyValue(SetKeyValue(hive, Write(<<"Winners", w.keyform, w.family>>, <<"default", Absent>>, w.version)),
                               Write(<<"Winners", w.keyform, w.family>>, <<"version", w.version>>, "1"))
      BY WinnerWritesAre
    <3> HIDE DEF r
    <3> QED
      BY <1>2, <3>1 DEF InstallWinners
  <2>2. log' = Append(log, c)
    BY <2>1 DEF Logged, Call
  <2>3. CallDoes(image, hive, c, image, r.hive)
    BY <1>1, WinnersCallDoes
  <2>4. c.op = "winners" /\ c.arg = w /\ c.result = "ok"
    BY CallIs
  <2>5. ASSUME log # <<>>, Last(log).result = "ok", Last(log).op = c.op, Last(log).arg = c.arg
        PROVE  r.hive = hive
    <3>1. Recorded(hive, WinnerWrites(w), 2)
      BY <2>4, <2>5 DEF StoreInv, CallHolds
    <3>2. Len(WinnerWrites(w)) = 2
      BY WinnerWritesAre
    <3>3. Len(WinnerWrites(w)) \in Nat /\ Recorded(hive, WinnerWrites(w), Len(WinnerWrites(w))) /\ IsHive(hive)
      BY <1>1, <3>1, <3>2 DEF StoreHive
    <3> QED
      BY <3>3, RecordedStays
  <2> HIDE DEF c, r
  <2>6. StepDoes(c)
    BY <2>1, <2>2, <2>3, <2>4, <2>5 DEF StepDoes
  <2> QED
    BY <2>6
<1>3. CASE ~w.valid
  <2>1. Logged("winners", w, "refused") /\ UNCHANGED <<image, hive>>
    BY <1>3 DEF InstallWinners
  <2> QED
    BY <1>1, <2>1, RefusedStep
<1> QED
  BY <1>2, <1>3

LEMMA RemoveStep ==
  ASSUME StoreInv(image, hive, log), NEW name,
         RemovePackage(name) \/ (KeyFormUsed(name) /\ RemoveComponent(name))
  PROVE  \E c : StepDoes(c)
<1>1. StoreTree(image) /\ StoreHive(hive)
  BY DEF StoreInv
<1>2. CASE RemovePackage(name)
  <2> DEFINE c == Call("removePackage", name, "ok")
             u == WithoutPaths(image, {MumPath(name), CatPath(name)})
  <2>1. log' = Append(log, c) /\ image' = u /\ hive' = hive
    BY <1>2 DEF RemovePackage, Logged, Call
  <2>2. CallDoes(image, hive, c, u, hive)
    BY <1>1, RemovePackageDoes
  <2>3. c.op = "removePackage" /\ c.arg = name /\ c.result = "ok"
    BY CallIs
  <2>4. ASSUME log # <<>>, Last(log).result = "ok", Last(log).op = c.op, Last(log).arg = c.arg
        PROVE  u = image
    BY <2>3, <2>4 DEF StoreInv, CallHolds
  <2> HIDE DEF c, u
  <2>5. StepDoes(c)
    BY <2>1, <2>2, <2>3, <2>4 DEF StepDoes
  <2> QED
    BY <2>5
<1>3. CASE KeyFormUsed(name) /\ RemoveComponent(name)
  <2> DEFINE c == Call("removeComponent", name, "ok")
             u == WithoutPaths(image, {ManifestPath(name), StorePath(name)})
  <2>1. log' = Append(log, c) /\ image' = u /\ hive' = hive
    BY <1>3 DEF RemoveComponent, Logged, Call
  <2>2. CallDoes(image, hive, c, u, hive)
    BY <1>1, <1>3, RemoveComponentDoes
  <2>3. c.op = "removeComponent" /\ c.arg = name /\ c.result = "ok"
    BY CallIs
  <2>4. ASSUME log # <<>>, Last(log).result = "ok", Last(log).op = c.op, Last(log).arg = c.arg
        PROVE  u = image
    BY <2>3, <2>4 DEF StoreInv, CallHolds
  <2> HIDE DEF c, u
  <2>5. StepDoes(c)
    BY <2>1, <2>2, <2>3, <2>4 DEF StepDoes
  <2> QED
    BY <2>5
<1> QED
  BY <1>2, <1>3

LEMMA StoreStep ==
  ASSUME StoreInv(image, hive, log), StoreNext
  PROVE  \E c : StepDoes(c)
<1>1. CASE \E inst \in Installations : InstallFiles(inst)
  BY <1>1, InstallFilesStep
<1>2. CASE \E inst \in Installations, given \in SUBSET Hives : InstallKeys(inst, given)
  BY <1>2, InstallKeysStep
<1>3. CASE \E w \in Winners : InstallWinners(w)
  BY <1>3, InstallWinnersStep
<1>4. CASE \E name \in UNION {PackageNames(inst) : inst \in Installations} : RemovePackage(name)
  BY <1>4, RemoveStep
<1>5. CASE \E keyform \in UNION {KeyForms(inst) : inst \in Installations} : RemoveComponent(keyform)
  BY <1>5, RemoveStep DEF KeyFormUsed
<1> QED
  BY <1>1, <1>2, <1>3, <1>4, <1>5 DEF StoreNext

-----------------------------------------------------------------------------
(* The halves agree.                                                         *)

LEMMA LastIs ==
  ASSUME NEW n \in Nat, NEW S \in SUBSET (1 .. n), LastOf(S) # 0
  PROVE  LastOf(S) \in S /\ \A x \in S : x <= LastOf(S)
<1>1. S # {} /\ LastOf(S) = Max(S)
  BY DEF LastOf
<1> QED
  BY <1>1, MaxIs

\* The calls an installation is settled by.
SettledBy(done, inst, a, b) ==
  /\ a \in 1 .. Len(done) /\ done[a].op = "files" /\ done[a].result = "ok" /\ done[a].arg = inst
  /\ b \in 1 .. Len(done) /\ done[b].op = "keys" /\ done[b].result = "ok" /\ done[b].arg = inst

LEMMA ComponentSettled ==
  ASSUME IsList(log), NEW k, NEW inst \in Settled("removeComponent", k, KeyForms)
  PROVE  \E a, b : /\ SettledBy(log, inst, a, b) /\ k \in KeyForms(inst)
                   /\ \A i \in 1 .. Len(log) : i > a => ~ComponentFilesCall(log[i], k)
                   /\ \A i \in 1 .. Len(log) : i > b => ~ComponentKeysCall(log[i], k)
<1> DEFINE F == {i \in 1 .. Len(log) : ComponentFilesCall(log[i], k)}
           K == {i \in 1 .. Len(log) : ComponentKeysCall(log[i], k)}
           a == LastOf(F)
           b == LastOf(K)
<1>1. Settled("removeComponent", k, KeyForms) =
        IF a # 0 /\ b # 0 /\ log[a].op = "files" /\ log[a].arg = log[b].arg
             /\ log[a].result = "ok" /\ log[b].result = "ok"
        THEN {log[a].arg} ELSE {}
  BY DEF Settled, LastCall, SelectLastInSeq, LastOf, ComponentFilesCall, ComponentKeysCall
<1>2. Len(log) \in Nat /\ F \in SUBSET (1 .. Len(log)) /\ K \in SUBSET (1 .. Len(log))
  BY ListIs
<1>3. /\ \A i \in F : i \in 1 .. Len(log) /\ ComponentFilesCall(log[i], k)
      /\ \A i \in K : i \in 1 .. Len(log) /\ ComponentKeysCall(log[i], k)
      /\ \A i \in 1 .. Len(log) : (i \notin F => ~ComponentFilesCall(log[i], k))
                                  /\ (i \notin K => ~ComponentKeysCall(log[i], k))
  OBVIOUS
<1> HIDE DEF F, K
<1>4. /\ a # 0 /\ b # 0 /\ log[a].op = "files" /\ log[a].arg = log[b].arg
      /\ log[a].result = "ok" /\ log[b].result = "ok" /\ inst = log[a].arg
  BY <1>1
<1>5. a \in F /\ (\A i \in F : i <= a) /\ b \in K /\ (\A i \in K : i <= b)
  BY <1>2, <1>4, LastIs
<1> HIDE DEF a, b
<1>6. a \in 1 .. Len(log) /\ b \in 1 .. Len(log)
  BY <1>3, <1>5
<1>7. k \in KeyForms(inst)
  BY <1>3, <1>4, <1>5 DEF ComponentFilesCall
<1>8. log[b].op = "keys"
  BY <1>3, <1>5 DEF ComponentKeysCall
<1>9. SettledBy(log, inst, a, b)
  BY <1>4, <1>6, <1>8 DEF SettledBy
<1>10. \A i \in 1 .. Len(log) : (i > a => i \notin F) /\ (i > b => i \notin K)
  BY <1>2, <1>5, <1>6
<1> QED
  BY <1>3, <1>7, <1>9, <1>10

LEMMA PackageSettled ==
  ASSUME IsList(log), NEW n, NEW inst \in Settled("removePackage", n, PackageNames)
  PROVE  \E a, b : /\ SettledBy(log, inst, a, b) /\ n \in PackageNames(inst)
                   /\ \A i \in 1 .. Len(log) : i > a => ~PackageFilesCall(log[i], n)
                   /\ \A i \in 1 .. Len(log) : i > b => ~PackageKeysCall(log[i], n)
<1> DEFINE F == {i \in 1 .. Len(log) : PackageFilesCall(log[i], n)}
           K == {i \in 1 .. Len(log) : PackageKeysCall(log[i], n)}
           a == LastOf(F)
           b == LastOf(K)
<1>1. Settled("removePackage", n, PackageNames) =
        IF a # 0 /\ b # 0 /\ log[a].op = "files" /\ log[a].arg = log[b].arg
             /\ log[a].result = "ok" /\ log[b].result = "ok"
        THEN {log[a].arg} ELSE {}
  BY DEF Settled, LastCall, SelectLastInSeq, LastOf, PackageFilesCall, PackageKeysCall
<1>2. Len(log) \in Nat /\ F \in SUBSET (1 .. Len(log)) /\ K \in SUBSET (1 .. Len(log))
  BY ListIs
<1>3. /\ \A i \in F : i \in 1 .. Len(log) /\ PackageFilesCall(log[i], n)
      /\ \A i \in K : i \in 1 .. Len(log) /\ PackageKeysCall(log[i], n)
      /\ \A i \in 1 .. Len(log) : (i \notin F => ~PackageFilesCall(log[i], n))
                                  /\ (i \notin K => ~PackageKeysCall(log[i], n))
  OBVIOUS
<1> HIDE DEF F, K
<1>4. /\ a # 0 /\ b # 0 /\ log[a].op = "files" /\ log[a].arg = log[b].arg
      /\ log[a].result = "ok" /\ log[b].result = "ok" /\ inst = log[a].arg
  BY <1>1
<1>5. a \in F /\ (\A i \in F : i <= a) /\ b \in K /\ (\A i \in K : i <= b)
  BY <1>2, <1>4, LastIs
<1> HIDE DEF a, b
<1>6. a \in 1 .. Len(log) /\ b \in 1 .. Len(log)
  BY <1>3, <1>5
<1>7. n \in PackageNames(inst)
  BY <1>3, <1>4, <1>5 DEF PackageFilesCall
<1>8. log[b].op = "keys"
  BY <1>3, <1>5 DEF PackageKeysCall
<1>9. SettledBy(log, inst, a, b)
  BY <1>4, <1>6, <1>8 DEF SettledBy
<1>10. \A i \in 1 .. Len(log) : (i > a => i \notin F) /\ (i > b => i \notin K)
  BY <1>2, <1>5, <1>6
<1> QED
  BY <1>3, <1>7, <1>9, <1>10

LEMMA ComponentsAgree ==
  ASSUME StoreInv(image, hive, log), NEW k
  PROVE  ComponentAgrees(k)
<1> DEFINE c(inst) == Final(inst.components, LAMBDA x : x.keyform = k)
           key == <<"Components", k>>
<1> SUFFICES ASSUME NEW inst \in Settled("removeComponent", k, KeyForms)
             PROVE  /\ IsFile(image, ManifestPath(k))
                    /\ Has(key, <<"S256H", Absent>>)
                    /\ hive[key][<<"S256H", Absent>>] = ManifestHash(image[ManifestPath(k)].data)
                    /\ \A f \in ToSet(c(inst).files) : Has(key, fileValueName(f.name))
                                                       /\ IsFile(image, Append(StorePath(k), f.name))
                    /\ \A d \in ToSet(inst.deployments) :
                         Contains(c(inst).deployments, d.name) =>
                             Has(key, <<"c!", d.name>>) /\ <<"Deployments", d.name>> \in DOMAIN hive
  BY DEF ComponentAgrees
<1>1. IsList(log) /\ FilesHold(image, log) /\ KeysHold(hive, log)
  BY DEF StoreInv
<1>2. PICK a, b : /\ SettledBy(log, inst, a, b) /\ k \in KeyForms(inst)
                  /\ \A i \in 1 .. Len(log) : i > a => ~ComponentFilesCall(log[i], k)
                  /\ \A i \in 1 .. Len(log) : i > b => ~ComponentKeysCall(log[i], k)
  BY <1>1, ComponentSettled
<1>3. ComponentFilesStand(image, inst, k) /\ inst \in Installations
  BY <1>1, <1>2 DEF FilesHold, SettledBy
<1>4. ComponentKeysStand(hive, inst, k)
  BY <1>1, <1>2 DEF KeysHold, SettledBy
<1>5. c(inst) = FinalComponent(inst, k)
  BY DEF Final, SelectLastInSeq, LastOf, FinalComponent
<1>6. FinalComponent(inst, k) \in ToSet(inst.components) /\ AreLists(inst)
  BY <1>2, <1>3, StoreAssumption, FinalsAre
<1>7. \A x : Contains(FinalComponent(inst, k).deployments, x) => x \in ToSet(FinalComponent(inst, k).deployments)
  <2>1. IsList(FinalComponent(inst, k).deployments)
    BY <1>6 DEF AreLists
  <2> QED
    BY <2>1, ListIs DEF Contains
<1>8. \A y, name : HasIn(hive, y, name) <=> Has(y, name)
  BY DEF Has, HasIn
<1> HIDE DEF c
<1> QED
  BY <1>3, <1>4, <1>5, <1>7, <1>8 DEF ComponentFilesStand, ComponentKeysStand

LEMMA PackagesAgree ==
  ASSUME StoreInv(image, hive, log), NEW n
  PROVE  PackageAgrees(n)
<1> DEFINE p(inst) == Final(inst.packages, LAMBDA x : x.name = n)
<1> SUFFICES ASSUME NEW inst \in Settled("removePackage", n, PackageNames)
             PROVE  /\ IsFile(image, MumPath(n)) /\ <<"Packages", n>> \in DOMAIN hive
                    /\ p(inst).catalog # Absent =>
                         /\ IsFile(image, CatPath(n)) /\ IsFile(image, CatalogPath(p(inst).catalog))
                         /\ <<"Catalogs", p(inst).catalog>> \in DOMAIN hive
                         /\ \A d \in ToSet(inst.deployments) :
                              d.catalog = p(inst).catalog => Has(<<"Catalogs", p(inst).catalog>>, <<"c!", d.name>>)
  BY DEF PackageAgrees
<1>1. IsList(log) /\ FilesHold(image, log) /\ KeysHold(hive, log)
  BY DEF StoreInv
<1>2. PICK a, b : /\ SettledBy(log, inst, a, b) /\ n \in PackageNames(inst)
                  /\ \A i \in 1 .. Len(log) : i > a => ~PackageFilesCall(log[i], n)
                  /\ \A i \in 1 .. Len(log) : i > b => ~PackageKeysCall(log[i], n)
  BY <1>1, PackageSettled
<1>3. PackageFilesStand(image, inst, n)
  BY <1>1, <1>2 DEF FilesHold, SettledBy
<1>4. PackageKeysStand(hive, inst, n)
  BY <1>1, <1>2 DEF KeysHold, SettledBy
<1>5. p(inst) = FinalPackage(inst, n)
  BY DEF Final, SelectLastInSeq, LastOf, FinalPackage
<1>6. \A y, name : HasIn(hive, y, name) <=> Has(y, name)
  BY DEF Has, HasIn
<1> HIDE DEF p
<1> QED
  BY <1>3, <1>4, <1>5, <1>6 DEF PackageFilesStand, PackageKeysStand

\* The files and the hives of the store agree on what was installed in both, the
\* catalogs lead to deployments, and a call that is refused or that succeeded and is
\* made again changes nothing: Install, InstallRegistry, InstallWinners and Remove, in
\* any order (src/component/install.go, src/component/installregistry.go).
THEOREM HalvesHold == RegistrySpec => HalvesAgree
<1> DEFINE Inv == StoreInv(image, hive, log)
           Agree == \A inst \in Installations :
                      /\ \A k \in KeyForms(inst) : ComponentAgrees(k)
                      /\ \A n \in PackageNames(inst) : PackageAgrees(n)
           Leads == \A key \in DOMAIN hive : key[1] = "Catalogs" =>
                      \A n \in DOMAIN hive[key] : <<"Deployments", n[2]>> \in DOMAIN hive
           Stays == Refused' \/ Repeated => UNCHANGED <<image, hive>>
<1>1. RegistryInit => Inv
  BY StoreInitHolds DEF RegistryInit
<1>2. Inv /\ [RegistryNext]_registryVars => Inv' /\ [Stays]_storeVars
  <2> SUFFICES ASSUME Inv, [RegistryNext]_registryVars
               PROVE  Inv' /\ [Stays]_storeVars
    OBVIOUS
  <2>1. CASE UNCHANGED storeVars
    BY <2>1 DEF storeVars
  <2>2. CASE StoreNext
    <3>1. PICK c : StepDoes(c)
      BY <2>2, StoreStep
    <3>2. log' = Append(log, c) /\ CallDoes(image, hive, c, image', hive')
      BY <3>1 DEF StepDoes
    <3>3. StoreInv(image', hive', Append(log, c)) /\ Last(Append(log, c)) = c
      BY <3>2, StoreInvOn
    <3>4. Inv' /\ Last(log') = c
      BY <3>2, <3>3
    <3>5. Stays
      BY <3>1, <3>4 DEF StepDoes, Refused, Repeated
    <3> QED
      BY <3>4, <3>5
  <2>3. StoreNext \/ UNCHANGED storeVars
    BY DEF RegistryNext, registryVars
  <2> QED
    BY <2>1, <2>2, <2>3
<1>3. Inv => Agree
  BY ComponentsAgree, PackagesAgree
<1>4. Inv => Leads
  BY DEF StoreInv, StoreHive, Linked
<1>5. Agree' /\ Leads' /\ [Stays]_storeVars =>
        [ /\ \A inst \in Installations :
               /\ \A k \in KeyForms(inst) : ComponentAgrees(k)'
               /\ \A n \in PackageNames(inst) : PackageAgrees(n)'
          /\ \A key \in DOMAIN hive' : key[1] = "Catalogs" =>
               \A n \in DOMAIN hive'[key] : <<"Deployments", n[2]>> \in DOMAIN hive'
          /\ Refused' \/ Repeated => UNCHANGED <<image, hive>> ]_storeVars
  OBVIOUS
<1> QED
  <2> HIDE DEF Inv, Agree, Leads, Stays
  <2> QED
    BY <1>1, <1>2, <1>3, <1>4, <1>5, PTL DEF RegistrySpec, HalvesAgree
=============================================================================
