----------------------------- MODULE MCRegfHive -----------------------------
(***************************************************************************)
(* Trees of up to five keys for RegfHive: every shape whose keys are numbered *)
(* in the order they are visited, with the contents varied key by key.        *)
(***************************************************************************)
EXTENDS RegfHive

\* The shapes: each key but the first has an earlier parent.
Shapes(n) == {p \in [2 .. n -> 1 .. n - 1] : \A k \in 2 .. n : p[k] < k}

Children(p, n, k) == SelectSeq([i \in 1 .. n - 1 |-> i + 1], LAMBDA c : p[c] = k)

\* Data of n bytes; the second kind begins like a db cell.
Bytes(n) == [i \in 1 .. n |-> 1 + (i % 7)]
DbLike(n) == [i \in 1 .. n |-> IF i = 1 THEN 100 ELSE IF i = 2 THEN 98 ELSE i]
V(name, nameLen, data) == [name |-> name, nameLen |-> nameLen, type |-> "binary", data |-> data]

Plain == [nameLen |-> 2, class |-> NoClassName, values |-> <<>>]

\* What one key may hold: values of every storage form, names and class names
\* around the limit of the 16-bit fields.
Contents ==
    {[Plain EXCEPT !.values = vs] :
        vs \in {<<>>, <<V("a", 1, <<>>), V("b", 1, Bytes(3))>>, <<V("a", 1, Bytes(4))>>,
                <<V("a", 0, DbLike(8)), V("b", 1, Bytes(9))>>, <<V("a", 1, Bytes(17))>>,
                <<V("a", 1, DbLike(24))>>, <<V("a", 1, Bytes(25))>>, <<V("a", 4, Bytes(1))>>}}
    \cup {[Plain EXCEPT !.nameLen = 4], [Plain EXCEPT !.class = 0],
          [Plain EXCEPT !.class = 3], [Plain EXCEPT !.class = 4]}

TreeOf(p, n, security, varied, contents) ==
    [root |-> 1,
     keys |-> [k \in 1 .. n |->
        LET c == IF k = varied THEN contents ELSE Plain
        IN  [nameLen |-> c.nameLen, class |-> c.class, values |-> c.values,
             security |-> security[k], subkeys |-> Children(p, n, k)]]]

Securities(n) == [1 .. n -> Descriptors \cup {NoSecurity}]
OneSecurity(n) == [k \in 1 .. n |-> "sd1"]

MCTrees ==
    \* every sharing of three descriptors over every shape of four keys
    {TreeOf(p, 4, s, 1, Plain) : p \in Shapes(4), s \in Securities(4)}
    \* every content, in an inner key or a leaf
    \cup {TreeOf(p, 3, OneSecurity(3), v, c) : p \in Shapes(3), v \in 1 .. 3, c \in Contents}
    \* the shapes of five keys: four subkeys of one key, four levels
    \cup {TreeOf(p, 5, OneSecurity(5), 1, Plain) : p \in Shapes(5)}

MCDescriptors == {"sd1", "sd2", "sd3"}
MCDescriptorLen == [d \in MCDescriptors |-> IF d = "sd1" THEN 4 ELSE IF d = "sd2" THEN 20 ELSE 33]
=============================================================================
