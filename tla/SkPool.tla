------------------------------- MODULE SkPool -------------------------------
(***************************************************************************)
(* The security cells of a registry hive being written (src/regf/skpool.go) *)
(* and the arena they are allocated in (src/regf/cell.go).  Every key with   *)
(* the same security descriptor shares one sk cell; the cells form one       *)
(* circular doubly linked list, kept circular by patching the neighbours in  *)
(* place each time a cell is added.                                          *)
(*                                                                          *)
(* The arena only grows: an offset is the arena's length when the cell was   *)
(* allocated.  Offsets fit uint32 (a hive below 4 GiB).                      *)
(***************************************************************************)
EXTENDS Integers

CONSTANTS
    Descriptors,    \* the distinct security descriptors of the hive
    DescriptorLen   \* their lengths in bytes

ASSUME DescriptorAssumption == DescriptorLen \in [Descriptors -> Nat]

VARIABLES
    top,            \* len(arena.buf)
    sk,             \* the sk cells by offset: prev, next, refCount, descriptor
    byDescriptor,   \* skPool.byDescriptor: descriptor -> offset
    firstSk,          \* skPool.first, NoCellOffset while there is no cell
    lastSk            \* skPool.last

poolVars == <<sk, byDescriptor, firstSk, lastSk>>

NoCellOffset == -1
HBinHeaderSize == 32
SkHeaderSize == 20

\* The length of the cell that holds n bytes: a 4-byte size, rounded up to 8.
CellSize(n) == 8 * ((n + 11) \div 8)

SkSize(d) == CellSize(SkHeaderSize + DescriptorLen[d])

PoolInit ==
    /\ top = HBinHeaderSize
    /\ sk = [o \in {} |-> {}]
    /\ byDescriptor = [d \in {} |-> 0]
    /\ firstSk = NoCellOffset
    /\ lastSk = NoCellOffset

\* Mutant: the shared cell keeps its first count.
ReuseUncounted(d) ==
    /\ d \in DOMAIN byDescriptor
    /\ UNCHANGED <<top, sk, byDescriptor, firstSk, lastSk>>

\* The descriptor was seen before: one more reference to its cell.
Reuse(d) ==
    /\ d \in DOMAIN byDescriptor
    /\ sk' = [sk EXCEPT ![byDescriptor[d]].refCount = @ + 1]
    /\ UNCHANGED <<top, byDescriptor, firstSk, lastSk>>

Remember(d) ==
    byDescriptor' = [e \in DOMAIN byDescriptor \cup {d} |->
                        IF e = d THEN top ELSE byDescriptor[e]]

\* The first cell of the pool: a list of one.
CreateFirst(d) ==
    /\ d \notin DOMAIN byDescriptor
    /\ firstSk = NoCellOffset
    /\ sk' = [o \in DOMAIN sk \cup {top} |->
                IF o = top
                THEN [prev |-> top, next |-> top, refCount |-> 1, descriptor |-> d]
                ELSE sk[o]]
    /\ firstSk' = top
    /\ lastSk' = top
    /\ top' = top + SkSize(d)
    /\ Remember(d)

\* Mutant: the first cell goes on pointing back at the old last one.
CreateAfterLastOpen(d) ==
    /\ d \notin DOMAIN byDescriptor
    /\ firstSk # NoCellOffset
    /\ sk' = [o \in DOMAIN sk \cup {top} |->
                IF o = top
                THEN [prev |-> lastSk, next |-> firstSk, refCount |-> 1, descriptor |-> d]
                ELSE [sk[o] EXCEPT !.next = IF o = lastSk THEN top ELSE @]]
    /\ lastSk' = top
    /\ top' = top + SkSize(d)
    /\ Remember(d)
    /\ UNCHANGED firstSk

\* The new cell goes between the last one and the first one.
CreateAfterLast(d) ==
    /\ d \notin DOMAIN byDescriptor
    /\ firstSk # NoCellOffset
    /\ sk' = [o \in DOMAIN sk \cup {top} |->
                IF o = top
                THEN [prev |-> lastSk, next |-> firstSk, refCount |-> 1, descriptor |-> d]
                ELSE [sk[o] EXCEPT !.next = IF o = lastSk THEN top ELSE @,
                                   !.prev = IF o = firstSk THEN top ELSE @]]
    /\ lastSk' = top
    /\ top' = top + SkSize(d)
    /\ Remember(d)
    /\ UNCHANGED firstSk

\* skPool.getOrCreate: the cell is byDescriptor'[d] when it returns.
GetOrCreate(d) == Reuse(d) \/ CreateFirst(d) \/ CreateAfterLast(d)

-----------------------------------------------------------------------------
\* The next cell in the order the cells were added, and the first after the last.
IsSuccessor(p, o) ==
    /\ p \in DOMAIN sk
    /\ o = lastSk => p = firstSk
    /\ o # lastSk => p > o /\ \A q \in DOMAIN sk : q > o => q >= p

\* The security cells form one circular list, in the order they were added, and
\* following it backwards visits the same cells: four separate patches per new
\* cell must leave it so, whatever was allocated between two cells.  A tool that
\* walks the list sees each descriptor of the hive once.
SkListCircular ==
    /\ DOMAIN sk = {} <=> firstSk = NoCellOffset
    /\ \A o \in DOMAIN sk :
         /\ firstSk <= o /\ o <= lastSk
         /\ IsSuccessor(sk[o].next, o)
         /\ sk[sk[o].next].prev = o

\* One cell per descriptor, found under it.
OneCellPerDescriptor ==
    /\ \A d \in DOMAIN byDescriptor :
         byDescriptor[d] \in DOMAIN sk /\ sk[byDescriptor[d]].descriptor = d
    /\ \A o \in DOMAIN sk :
         sk[o].descriptor \in DOMAIN byDescriptor /\ byDescriptor[sk[o].descriptor] = o

SkTypeOK ==
    /\ top \in Nat
    /\ \A o \in DOMAIN sk : o \in Nat /\ o < top
    /\ sk \in [DOMAIN sk -> [prev : DOMAIN sk, next : DOMAIN sk,
                             refCount : Nat \ {0}, descriptor : Descriptors]]
    /\ {firstSk, lastSk} \subseteq (IF DOMAIN sk = {} THEN {NoCellOffset} ELSE DOMAIN sk)
    /\ DOMAIN byDescriptor \subseteq Descriptors
    /\ byDescriptor \in [DOMAIN byDescriptor -> DOMAIN sk]

\* What every step of the pool, and of whoever shares its arena, preserves.
SkInv == SkTypeOK /\ SkListCircular /\ OneCellPerDescriptor
=============================================================================
