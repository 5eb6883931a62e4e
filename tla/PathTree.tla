------------------------------ MODULE PathTree ------------------------------
(***************************************************************************)
(* What package wim promises about an image's files: a map from paths to   *)
(* directory entries, in which every operation takes effect as a whole or  *)
(* not at all.  There are no nodes, no slices and no indices here; DirTree *)
(* is shown to implement this specification.                               *)
(*                                                                         *)
(* A path is a sequence of names.  Names that differ in case only are one  *)
(* name here.                                                              *)
(***************************************************************************)
EXTENDS Naturals, Sequences

CONSTANTS
  Name,       \* names, up to case
  Hash,       \* stream hashes
  NoHash,     \* the hash of an entry without streams
  MaxPath     \* the longest path an operation is given

VARIABLE files    \* the entries of the image, by path

Entry == [kind : {"dir", "file"}, hash : Hash \cup {NoHash}]
Dir == [kind |-> "dir", hash |-> NoHash]
File(h) == [kind |-> "file", hash |-> h]

Paths == UNION {[1 .. n -> Name] : n \in 1 .. MaxPath}

\* p is q or an ancestor of q.
Within(p, q) == Len(p) <= Len(q) /\ p = SubSeq(q, 1, Len(p))

Ancestors(p) == {SubSeq(p, 1, k) : k \in 1 .. Len(p) - 1}

Exists(fs, p) == p \in DOMAIN fs
IsFile(fs, p) == Exists(fs, p) /\ fs[p].kind = "file"
IsDir(fs, p) == Exists(fs, p) /\ fs[p].kind = "dir"

\* Every component on the way to p is, or can be made, a directory.
CanReach(fs, p) == \A a \in Ancestors(p) : ~IsFile(fs, a)

\* fs with entry e at p, and with the directories on the way to it.
Put(fs, p, e) ==
  [q \in DOMAIN fs \cup Ancestors(p) \cup {p} |->
     IF q = p THEN e ELSE IF Exists(fs, q) THEN fs[q] ELSE Dir]

CanAdd(fs, p) == CanReach(fs, p) /\ ~IsDir(fs, p)
CanPlace(fs, p) == CanReach(fs, p)
CanAttach(fs, p) == CanReach(fs, p) /\ ~Exists(fs, p)
CanRemove(fs, p) == Exists(fs, p)
CanRename(fs, p, q) ==
  /\ Exists(fs, p)
  /\ CanReach(fs, q) /\ ~Exists(fs, q)
  /\ ~Within(p, q)

(* What each operation leaves of fs.                                       *)

\* A file, new or with its streams replaced.
AfterAdd(fs, p, h) == Put(fs, p, File(h))

\* As Add; a directory of that name gets the stream and stays a directory.
AfterPlace(fs, p, h) ==
  Put(fs, p, IF IsDir(fs, p) THEN [fs[p] EXCEPT !.hash = h] ELSE File(h))

\* A directory with one file in it.
AfterAttach(fs, p, n, h) == Put(Put(fs, p, Dir), Append(p, n), File(h))

\* The entry and everything below it is gone.
AfterRemove(fs, p) == [q \in {r \in DOMAIN fs : ~Within(p, r)} |-> fs[q]]

\* The entry and everything below it has moved from p to q.
AfterRename(fs, p, q) ==
  LET Moved(r) == q \o SubSeq(r, Len(p) + 1, Len(r))
      below    == {r \in DOMAIN fs : Within(p, r)}
      made     == Put(AfterRemove(fs, p), q, fs[p])
  IN  [r \in DOMAIN made \cup {Moved(s) : s \in below} |->
         IF \E s \in below : r = Moved(s)
           THEN fs[CHOOSE s \in below : r = Moved(s)] ELSE made[r]]

Init == files = <<>>

Add(p, h) == CanAdd(files, p) /\ files' = AfterAdd(files, p, h)
Place(p, h) == CanPlace(files, p) /\ files' = AfterPlace(files, p, h)
Attach(p, n, h) == CanAttach(files, p) /\ files' = AfterAttach(files, p, n, h)
Remove(p) == CanRemove(files, p) /\ files' = AfterRemove(files, p)
Rename(p, q) == CanRename(files, p, q) /\ files' = AfterRename(files, p, q)

Next ==
  \/ \E p \in Paths, h \in Hash : Add(p, h) \/ Place(p, h)
  \/ \E p \in Paths, n \in Name, h \in Hash : Attach(p, n, h)
  \/ \E p \in Paths : Remove(p)
  \/ \E p, q \in Paths : Rename(p, q)

Spec == Init /\ [][Next]_files
=============================================================================
