------------------------------ MODULE LzxParse ------------------------------
(***************************************************************************)
(* How package lzx (src/lzx) turns the bytes of a chunk into literals and    *)
(* matches.  findMatchesWith (matcher.go) goes from left to right over an    *)
(* index of earlier positions, a binary search tree or hash chains           *)
(* (matchfinder.go); findMatchesOptimalWith (optimal.go) keeps the cheapest  *)
(* few ways to every position.  A match at one of the three recent offsets   *)
(* is sent as the place of that offset in a queue, which the decoder keeps   *)
(* in step without being told.                                               *)
(*                                                                          *)
(* Which candidate costs least is a matter of the cost model: any may win.   *)
(* Positions count from 0, as in the code; data[p + 1] is the byte at p.     *)
(***************************************************************************)
EXTENDS LzxHuffman

CONSTANTS
    NumChars,           \* numChars (256): bytes are 0 .. NumChars - 1
    MaxMatchLen,        \* maxMatchLen (257)
    NumPrimaryLens,     \* numPrimaryLens (7)
    MinOrder,           \* minWindowOrder (15)
    MinOffsetSlots,     \* slots of the smallest window (30)
    SlotBase,           \* lzxOffsetSlotBase
    ExtraBits,          \* lzxExtraOffsetBits
    Buckets,            \* hashSize
    MaxFresh,           \* maxFreshCandidates
    BeamWidth,          \* beamWidth
    LongRepeat          \* repeats longer than this are also tried at half their length (6)

MinMatchLen == 2
MinMatch == 3           \* minMatch, of a match at an offset that is not recent
NumLenHeaders == NumPrimaryLens + 1
LenSyms == MaxMatchLen - MinMatchLen + 1 - NumPrimaryLens
NumRecent == 3
Nowhere == -1

-----------------------------------------------------------------------------
(* The window and the offset slots.                                          *)

windowOrder(size) == CHOOSE o \in MinOrder .. MinOrder + size : Pow2(o) >= size
                        /\ (o = MinOrder \/ Pow2(o - 1) < size)

numOffsetSlots(order) ==
    Min({s \in MinOffsetSlots .. Len(SlotBase) - 1 :
            Pow2(order) - MinMatchLen - 1 < SlotBase[s + 1]})
numMainSyms(order) == NumChars + numOffsetSlots(order) * NumLenHeaders

offsetSlot(offset) == Max({3} \cup {s \in 3 .. Len(SlotBase) - 1 : SlotBase[s + 1] <= offset})

-----------------------------------------------------------------------------
(* Tokens and the queue of recent offsets.                                   *)

Literal(b) == [match |-> FALSE, byte |-> b, offset |-> 0, len |-> 1, repeat |-> Nowhere]
Match(offset, len, repeat) ==
    [match |-> TRUE, byte |-> 0, offset |-> offset, len |-> len, repeat |-> repeat]

FirstQueue == <<1, 1, 1>>
applyMatch(q, repeat, offset) ==
    IF repeat = Nowhere THEN <<offset, q[1], q[2]>>
    ELSE [q EXCEPT ![1] = q[repeat + 1], ![repeat + 1] = q[1]]

tokenOffsetSlot(t) == IF t.repeat # Nowhere THEN t.repeat ELSE offsetSlot(t.offset)

-----------------------------------------------------------------------------
(* Earlier occurrences.                                                      *)

Limit(data, p) == Min({Len(data) - p, MaxMatchLen})

commonPrefixLen(data, c, p) ==
    LET differ == {l \in 0 .. Limit(data, p) - 1 : data[c + l + 1] # data[p + l + 1]}
    IN  IF differ = {} THEN Limit(data, p) ELSE Min(differ)

HasHash(data, p) == p + 3 <= Len(data)
hash(data, p) == (data[p + 1] + 2 * data[p + 2] + 3 * data[p + 3]) % Buckets

NoIndex(data) ==
    [head |-> [h \in 0 .. Buckets - 1 |-> Nowhere],
     lo |-> [p \in 0 .. Len(data) - 1 |-> Nowhere],
     hi |-> [p \in 0 .. Len(data) - 1 |-> Nowhere]]

\* Whether position c sorts before p, as far as a match may be long.
Before(data, c, p) ==
    LET l == commonPrefixLen(data, c, p)
    IN  l >= Limit(data, p) \/ data[c + l + 1] < data[p + l + 1]

\* The positions a walk of at most depth steps down p's tree meets.
BstPath(ix, data, p, depth) ==
    LET path[k \in 1 .. depth] ==
            IF k = 1 THEN ix.head[hash(data, p)]
            ELSE IF path[k - 1] = Nowhere THEN Nowhere
            ELSE IF Before(data, path[k - 1], p) THEN ix.hi[path[k - 1]]
            ELSE ix.lo[path[k - 1]]
    IN  SelectSeq([k \in 1 .. depth |-> path[k]], LAMBDA c : c # Nowhere)

ChainPath(ix, data, p, depth) ==
    LET path[k \in 1 .. depth] ==
            IF k = 1 THEN ix.head[hash(data, p)]
            ELSE IF path[k - 1] = Nowhere THEN Nowhere ELSE ix.lo[path[k - 1]]
    IN  SelectSeq([k \in 1 .. depth |-> path[k]], LAMBDA c : c # Nowhere)

\* The first of the longest matches a path meets.
NoMatch == [len |-> 0, offset |-> 0]
Longest(data, p, path) ==
    FoldLeft(LAMBDA best, c :
                LET l == commonPrefixLen(data, c, p)
                IN  IF l > best.len THEN [len |-> l, offset |-> p - c] ELSE best,
             NoMatch, path)

\* Whether the index is a tree, and how many steps a walk may take.
Search(ix, data, p, tree, depth) ==
    IF ~HasHash(data, p) THEN NoMatch
    ELSE Longest(data, p, IF tree THEN BstPath(ix, data, p, depth) ELSE ChainPath(ix, data, p, depth))

\* A slip the properties must catch: both sides keep what is below the first node met.
BstInsertKept(ix, data, p, depth) ==
    LET root == ix.head[hash(data, p)]
        less == root # Nowhere /\ Before(data, root, p)
    IN  [head |-> [ix.head EXCEPT ![hash(data, p)] = p],
         lo |-> [ix.lo EXCEPT ![p] = IF less THEN root ELSE Nowhere],
         hi |-> [ix.hi EXCEPT ![p] = IF less THEN Nowhere ELSE root]]

\* p becomes the root of its tree: what the walk meets is shared out to its two
\* sides; what lies below the last step of a walk cut short is dropped.
ShareOut(ix, data, p, path) ==
    LET less == SelectSeq(path, LAMBDA c : Before(data, c, p))
        more == SelectSeq(path, LAMBDA c : ~Before(data, c, p))
        Following(s, c) == LET i == CHOOSE j \in DOMAIN s : s[j] = c
                           IN  IF i < Len(s) THEN s[i + 1] ELSE Nowhere
        First(s) == IF s = <<>> THEN Nowhere ELSE s[1]
    IN  [head |-> [ix.head EXCEPT ![hash(data, p)] = p],
         lo |-> [c \in DOMAIN ix.lo |->
                    IF c = p THEN First(less)
                    ELSE IF c \in ToSet(more) THEN Following(more, c) ELSE ix.lo[c]],
         hi |-> [c \in DOMAIN ix.hi |->
                    IF c = p THEN First(more)
                    ELSE IF c \in ToSet(less) THEN Following(less, c) ELSE ix.hi[c]]]
BstInsert(ix, data, p, depth) == ShareOut(ix, data, p, BstPath(ix, data, p, depth))

ChainInsert(ix, data, p) ==
    [ix EXCEPT !.head[hash(data, p)] = p, !.lo[p] = ix.head[hash(data, p)]]

Insert(ix, data, p, tree, depth) ==
    IF ~HasHash(data, p) THEN ix
    ELSE IF tree THEN BstInsert(ix, data, p, depth) ELSE ChainInsert(ix, data, p)
insertRange(ix, data, from, to, tree, depth) ==
    FoldLeft(LAMBDA x, p : Insert(x, data, p, tree, depth), ix, [k \in 1 .. to - from |-> from + k - 1])

\* buildHash2PrevOcc: where the two bytes at p were last.
prevOcc2(data, p) ==
    IF p + 1 >= Len(data) THEN Nowhere
    ELSE Max({Nowhere} \cup {c \in 0 .. p - 1 : /\ data[c + 1] = data[p + 1]
                                                /\ data[c + 2] = data[p + 2]})

-----------------------------------------------------------------------------
(* findMatchesWith: what may come at position p.                             *)

RepeatCandidates(data, p, q) ==
    {Match(q[k + 1], commonPrefixLen(data, p - q[k + 1], p), k) :
        k \in {j \in 0 .. NumRecent - 1 :
                 /\ q[j + 1] <= p
                 /\ commonPrefixLen(data, p - q[j + 1], p) >= MinMatchLen}}

FreshCandidates(found) ==
    IF found.len >= MinMatch THEN {Match(found.offset, found.len, Nowhere)} ELSE {}

\* A match of two bytes must have a symbol: the largest offset of the window may
\* lie beyond the last slot.
hash2Candidate(data, p) ==
    LET offset == p - prevOcc2(data, p)
        hasSymbol == NumChars + offsetSlot(offset) * NumLenHeaders < numMainSyms(windowOrder(Len(data)))
    IN  IF prevOcc2(data, p) # Nowhere /\ hasSymbol THEN {Match(offset, MinMatchLen, Nowhere)} ELSE {}

Candidates(data, p, q, found) ==
    RepeatCandidates(data, p, q) \cup FreshCandidates(found) \cup hash2Candidate(data, p)

-----------------------------------------------------------------------------
(* findMatchesOptimalWith: the cheapest ways to each position, one of each   *)
(* queue and at most BeamWidth of them.  Here a literal costs lit and a match *)
(* two more for every bit of its offset.                                     *)

Cost(t, lit) == IF ~t.match THEN lit
                ELSE IF t.repeat # Nowhere THEN 2
                ELSE 3 + ExtraBits[offsetSlot(t.offset) + 1]

\* One more way to a position.  A way is its cost, its queue and its tokens; the
\* code has the last token only and finds the others by walking back.
Way(cost, queue, toks) == [cost |-> cost, queue |-> queue, toks |-> toks]
mergeState(ways, way) ==
    LET same == {i \in DOMAIN ways : ways[i].queue = way.queue}
        worst == CHOOSE i \in DOMAIN ways :
                    /\ \A j \in DOMAIN ways : ways[j].cost <= ways[i].cost
                    /\ \A j \in 1 .. i - 1 : ways[j].cost < ways[i].cost
        Better(i) == IF way.cost < ways[i].cost THEN [ways EXCEPT ![i] = way] ELSE ways
    IN  IF same # {} THEN Better(Min(same))
        ELSE IF Len(ways) < BeamWidth THEN Append(ways, way)
        ELSE Better(worst)

\* bstSearchAll: the matches met that are longer than all before, the last few.
LongerAlong(data, p, path, lens) ==
    LET longer == SelectSeq([i \in DOMAIN path |-> i],
                    LAMBDA i : lens[i] >= MinMatch /\ \A j \in 1 .. i - 1 : lens[j] < lens[i])
    IN  [k \in DOMAIN longer |-> Match(p - path[longer[k]], lens[longer[k]], Nowhere)]
MatchesAlong(data, p, path) ==
    LongerAlong(data, p, path, [i \in DOMAIN path |-> commonPrefixLen(data, path[i], p)])
Newest(all) == SubSeq(all, Max({1, Len(all) - MaxFresh + 1}), Len(all))
FreshAll(ix, data, p, depth) ==
    IF HasHash(data, p) THEN Newest(MatchesAlong(data, p, BstPath(ix, data, p, depth))) ELSE <<>>

\* Half of a long repeated match may leave a better one behind it.
RepeatOf(offset, l, k) ==
    IF l < MinMatchLen THEN <<>>
    ELSE <<Match(offset, l, k)>>
         \o (IF l > LongRepeat /\ l \div 2 >= MinMatchLen THEN <<Match(offset, l \div 2, k)>> ELSE <<>>)
RepeatAll(data, p, q) ==
    FlattenSeq([k \in 1 .. NumRecent |->
        IF q[k] > p THEN <<>> ELSE RepeatOf(q[k], commonPrefixLen(data, p - q[k], p), k - 1)])

\* The first of the cheapest ways.
Cheapest(ways) ==
    ways[CHOOSE i \in DOMAIN ways : /\ \A j \in DOMAIN ways : ways[i].cost <= ways[j].cost
                                    /\ \A j \in 1 .. i - 1 : ways[i].cost < ways[j].cost]

findMatchesOptimal(data, lit, depth) ==
    LET n == Len(data)
        Steps(s, p, way) ==
            <<Literal(data[p + 1])>> \o RepeatAll(data, p, way.queue)
            \o FreshAll(s.ix, data, p, depth) \o SetToSeq(hash2Candidate(data, p))
        Go(s, p, way) ==
            FoldLeft(LAMBDA ss, t :
                        LET q == IF t.match THEN applyMatch(way.queue, t.repeat, t.offset) ELSE way.queue
                            new == Way(way.cost + Cost(t, lit), q, Append(way.toks, t))
                        IN  [ss EXCEPT !.ways[p + t.len] = mergeState(@, new)],
                     s, Steps(s, p, way))
        At(s, p) ==
            LET t == FoldLeft(LAMBDA ss, way : Go(ss, p, way), s, s.ways[p])
            IN  [t EXCEPT !.ix = Insert(@, data, p, TRUE, depth)]
        start == [ix |-> NoIndex(data),
                  ways |-> [p \in 0 .. n |-> IF p = 0 THEN <<Way(0, FirstQueue, <<>>)>> ELSE <<>>]]
    IN  Cheapest(FoldLeft(At, start, [k \in 1 .. n |-> k - 1]).ways[n]).toks
=============================================================================
