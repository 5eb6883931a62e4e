----------------------------- MODULE MCIsoImage -----------------------------
(***************************************************************************)
(* Small trees with names that collide in every way, files around the        *)
(* boundaries of sectors and sections, and the Options a caller combines.    *)
(***************************************************************************)
EXTENDS IsoImage

\* Names: "a", "A", "a1", "abcd", "abce", "a.b", a long wide one.
a == <<97>>
A == <<65>>
a1 == <<97, 49>>
abcd == <<97, 98, 99, 100>>
abce == <<97, 98, 99, 101>>
ab == <<97, 46, 98>>
wide == <<1000, 42, 1000, 1000, 1000, 1000, 1000>>

Call(op, path, size) == [op |-> op, path |-> path, size |-> size]

MCCalls ==
    {Call("AddDir", p, 0) : p \in {<<a>>, <<A, abcd>>, <<a, a, a>>}}
    \cup {Call("AddFile", p, 1) : p \in {<<a>>, <<a1>>, <<a, abce>>}}
    \cup {Call("AddFile", <<abcd>>, n) : n \in {0, 200, 257, 513}}
    \cup {Call("AddFile", <<ab>>, n) : n \in {3000, 3100, 24000}}
    \cup {Call("AddFile", <<wide>>, 64), Call("AddTree", <<>>, 0), Call("AddTree", <<a>>, 0)}

Entry(up, host, dir, size) == [up |-> up, host |-> host, dir |-> dir, size |-> size]
MCHostTree == <<Entry(0, A, TRUE, 0), Entry(1, abcd, FALSE, 256), Entry(0, abce, FALSE, 5)>>

Plain == [level |-> 1, max |-> 1024, udf |-> FALSE, udfOnly |-> FALSE, joliet |-> FALSE,
          boot |-> <<>>, catalog |-> <<a1>>, pad |-> 0, hybrid |-> FALSE, bios |-> FALSE]
Boot(path, platform, load, table) ==
    [path |-> path, platform |-> platform, load |-> load, table |-> table, notBootable |-> FALSE]

MCOptionSets ==
    {[Plain EXCEPT !.joliet = TRUE],
     [Plain EXCEPT !.level = 3, !.max = 300, !.joliet = TRUE, !.udf = TRUE, !.pad = 2],
     [Plain EXCEPT !.level = 2, !.max = 512, !.udf = TRUE, !.udfOnly = TRUE],
     [Plain EXCEPT !.level = 3, !.udfOnly = TRUE],
     [Plain EXCEPT !.max = 4096, !.udf = TRUE, !.boot = <<Boot(<<abcd>>, UEFI, 0, TRUE), Boot(<<ab>>, X86, 4, FALSE)>>,
                   !.hybrid = TRUE, !.bios = TRUE],
     [Plain EXCEPT !.level = 3, !.boot = <<Boot(<<abcd>>, X86, 0, TRUE)>>, !.pad = 1, !.bios = TRUE],
     [Plain EXCEPT !.hybrid = TRUE]}

\* Eleven files of one directory whose names differ behind the thirty characters that
\* are kept of them: "a.", twenty-nine times "b", and a letter.
MCAlikeTree == [i \in 1 .. 11 |-> Entry(0, a \o <<46>> \o [k \in 1 .. 29 |-> 98] \o <<96 + i>>, FALSE, 0)]
MCAlikeCalls == {Call("AddTree", <<>>, 0)}
MCAlikeOptions == {[Plain EXCEPT !.level = 2]}
=============================================================================
