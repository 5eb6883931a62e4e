------------------------------ MODULE IsoNames ------------------------------
(***************************************************************************)
(* How package iso turns the names of a caller's tree into the identifiers   *)
(* it records (src/iso/name.go): the folding of characters, the limits of    *)
(* ECMA-119 and of Joliet, the counters that keep the identifiers of one     *)
(* directory apart, and the order of ECMA-119 9.3.  A name is a sequence of  *)
(* character codes: which names collide is exactly what is at stake here.    *)
(***************************************************************************)
EXTENDS Integers, Sequences, FiniteSets, SequencesExt, FiniteSetsExt

CONSTANTS
    NameMax, ExtMax,    \* Level 1: longest File Name and File Name Extension
    maxFileNameTotal,   \* longest name and extension together, Levels 2 and 3
    maxDirIDLen,        \* longest Directory Identifier, Levels 2 and 3
    jolietMaxNameLen    \* longest Joliet identifier, in code units

ASSUME NamesAssumption ==
    /\ {NameMax, ExtMax, maxFileNameTotal, maxDirIDLen, jolietMaxNameLen} \subseteq Nat \ {0}
    /\ NameMax + ExtMax <= maxFileNameTotal

Level1 == 1
Level3 == 3

Filler == 32        \* the space
Dot == 46
Underscore == 95
Version1 == <<59, 49>>      \* ";1"

Upper(c) == IF c \in 97 .. 122 THEN c - 32 ELSE c
isDChar(c) == c \in 48 .. 57 \/ c \in 65 .. 90 \/ c = Underscore

sanitizeDChars(s) ==
    [i \in DOMAIN s |-> IF isDChar(Upper(s[i])) THEN Upper(s[i]) ELSE Underscore]

truncate(s, n) == IF Len(s) > n THEN SubSeq(s, 1, n) ELSE s

\* The decimal digits of a number.
itoa[n \in Nat] == IF n < 10 THEN <<48 + n>> ELSE Append(itoa[n \div 10], 48 + (n % 10))

LastDot(s) == Max({0} \cup {i \in DOMAIN s : s[i] = Dot})
SplitAt(s, i) == [base |-> SubSeq(s, 1, i - 1), ext |-> SubSeq(s, i + 1, Len(s))]

\* A leading dot begins no extension.
splitExt(name) ==
    IF LastDot(name) <= 1 THEN [base |-> name, ext |-> <<>>] ELSE SplitAt(name, LastDot(name))

mangleFileName(name, level) ==
    LET parts == splitExt(name)
        ext == truncate(sanitizeDChars(parts.ext),
                        IF level = Level1 THEN ExtMax ELSE maxFileNameTotal - 1)
        base == truncate(sanitizeDChars(parts.base),
                         IF level = Level1 THEN NameMax ELSE maxFileNameTotal - Len(ext))
    IN  (IF base = <<>> /\ ext = <<>> THEN <<Underscore>> ELSE base) \o <<Dot>> \o ext

mangleDirName(name, level) ==
    LET d == truncate(sanitizeDChars(name), IF level = Level1 THEN NameMax ELSE maxDirIDLen)
    IN  IF d = <<>> THEN <<Underscore>> ELSE d

\* A candidate: the number overwrites the end of the base, so that no more than
\* limit characters are kept, unless the number alone has more.
Numbered(base, limit, n, tail) ==
    LET keep == IF Len(itoa[n]) < limit THEN limit - Len(itoa[n]) ELSE 0
    IN  truncate(base, keep) \o itoa[n] \o tail

\* The first candidate that is not used.  The loop has no bound, and needs none:
\* numbers of equally many digits give different candidates, so one that is free
\* is found before this one is reached.
FirstFree(used, base, limit, tail) ==
    LET Free(n) == Numbered(base, limit, n, tail) \notin used
        first == CHOOSE n \in 1 .. 100 * Cardinality(used) + 9 : Free(n) /\ \A k \in 1 .. n - 1 : ~Free(k)
    IN  Numbered(base, limit, first, tail)

\* The File Name and the Extension that are numbered, and what stands behind.
Parts(want, isDir) == IF isDir THEN [base |-> want, ext |-> <<>>] ELSE SplitAt(want, LastDot(want))
Suffix(parts, isDir) == IF isDir THEN <<>> ELSE <<Dot>> \o parts.ext

(* A slip the properties must catch. *)
\* The counter is appended instead of overwriting the end of the name.
dedupeAppended(used, want, isDir, level) ==
    LET parts == Parts(want, isDir)
    IN  IF want \notin used THEN want
        ELSE FirstFree(used, parts.base, Len(parts.base) + NameMax, Suffix(parts, isDir))

dedupe(used, want, isDir, level) ==
    LET parts == Parts(want, isDir)
        limit == IF level = Level1 THEN NameMax
                 ELSE IF isDir THEN maxDirIDLen ELSE maxFileNameTotal - Len(parts.ext)
    IN  IF want \notin used THEN want
        ELSE FirstFree(used, parts.base, limit, Suffix(parts, isDir))

jolietSanitizeUnit(u) ==
    IF u <= 31 \/ u \in {127, 42, 47, 58, 59, 63, 92} THEN Underscore ELSE u

mangleJolietName(name) ==
    LET units == truncate(name, jolietMaxNameLen)
    IN  IF units = <<>> THEN <<Underscore>>
        ELSE [i \in DOMAIN units |-> jolietSanitizeUnit(units[i])]

jolietDedupe(used, want) ==
    IF want \notin used THEN want ELSE FirstFree(used, want, jolietMaxNameLen, <<>>)

\* ECMA-119 9.3: the shorter one is compared as if padded with spaces.
LessPadded(a, b) ==
    LET At(s, i) == IF i <= Len(s) THEN s[i] ELSE Filler
    IN  \E i \in 1 .. Max({Len(a), Len(b)}) :
            At(a, i) < At(b, i) /\ \A k \in 1 .. i - 1 : At(a, k) = At(b, k)

nameExt(id, isDir) ==
    IF isDir \/ LastDot(id) = 0 THEN [base |-> id, ext |-> <<>>] ELSE SplitAt(id, LastDot(id))

\* Whether one (name, extension) comes before another; all versions are 1.
compareFileIdentifiers(a, b) ==
    \/ LessPadded(a.base, b.base)
    \/ ~LessPadded(b.base, a.base) /\ LessPadded(a.ext, b.ext)

\* The order of host names: bytewise, a prefix first.
HostLess(a, b) ==
    \E i \in 1 .. Len(b) :
        /\ \A k \in 1 .. i - 1 : k <= Len(a) /\ a[k] = b[k]
        /\ i > Len(a) \/ a[i] < b[i]

=============================================================================
