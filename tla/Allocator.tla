----------------------------- MODULE Allocator -----------------------------
(***************************************************************************)
(* The allocator of src/tlpi/c7/7.2.c: c_malloc carves blocks off the      *)
(* program break and reuses freed ones by best fit, c_free pushes a block  *)
(* on the free list and gives memory back while a listed block ends at the *)
(* break.                                                                  *)
(*                                                                         *)
(* A block is named by its address.  The free list is the sequence of      *)
(* blocks the next pointers reach from head.  previous is kept as a field, *)
(* because pop_from_free_list branches on it; a block in use has the       *)
(* client's bytes (Junk) there, since c_malloc returns &entry->previous.   *)
(* Only NULL and client bytes ever reach that field: lines 26, 52 and 99   *)
(* are its only assignments.                                               *)
(***************************************************************************)
EXTENDS Integers, Sequences, SequencesExt, FiniteSets

CONSTANTS
    LEN_SIZE,      \* the size of a long int
    PTR_SIZE,      \* the size of a pointer
    Sizes,         \* the sizes clients ask for
    ForeignSizes,  \* the amounts libc itself takes from the break
    Limit,         \* the highest program break the kernel grants
    HALF,          \* an int holds -HALF .. HALF - 1
    NULL, Junk

ASSUME SizesAssumption ==
    /\ LEN_SIZE \in Nat \ {0} /\ PTR_SIZE \in Nat \ {0}
    /\ Sizes \subseteq Nat /\ ForeignSizes \subseteq Nat
    /\ NULL # Junk

(* Below two gigabytes: no difference of sizes leaves the range of int. *)
ASSUME IntAssumption ==
    /\ HALF \in Nat /\ Limit \in 0 .. HALF - 1
    /\ \A s \in Sizes : s <= HALF

VARIABLES
    free,        \* the blocks on the free list, head first
    chunk_size,  \* block -> its chunk_size field; its domain is every block
                 \* carved and not given back to the kernel
    previous,    \* block -> its previous field
    brk,         \* the program break
    used,        \* block in use -> the size its client asked for
    foreign,     \* the bytes libc took with its own sbrk calls
    pc           \* "idle", "shrink" (in c_free's loop), "segv" (sbrk failed
                 \* and its result was dereferenced), "wild" (a link made of
                 \* client bytes was dereferenced)

vars == <<free, chunk_size, previous, brk, used, foreign, pc>>

Blocks == DOMAIN chunk_size

FREE_L_SIZE == LEN_SIZE + 2 * PTR_SIZE

(* The address just after a block. *)
End(b) == b + LEN_SIZE + chunk_size[b]

(* A size_t difference stored in an int. *)
ToInt(n) == ((n + HALF) % (2 * HALF)) - HALF

(* f extended (or updated) at x. *)
With(f, x, v) == [y \in DOMAIN f \cup {x} |-> IF y = x THEN v ELSE f[y]]

(* f without x. *)
Without(f, x) == [y \in DOMAIN f \ {x} |-> f[y]]

-----------------------------------------------------------------------------
Init == /\ free = <<>>
        /\ chunk_size = <<>> /\ previous = <<>> /\ used = <<>>
        /\ brk = 0
        /\ foreign = {}
        /\ pc = "idle"

(* pop_from_free_list(free[i]).  With previous NULL, head = entry->next:   *)
(* every entry before it leaves the list too.                              *)
ListKeepsPopped(i) == free
ListAfterPop(i) == SubSeq(free, i + 1, Len(free))

PreviousAfterPop(i) ==
    IF i = Len(free) THEN previous
    ELSE [previous EXCEPT ![free[i + 1]] = previous[free[i]]]

PcAfterPop(i, next) == IF previous[free[i]] = NULL THEN next ELSE "wild"

-----------------------------------------------------------------------------
(* c_malloc *)

BlobSizeNoHeader(size) == size + 2 * PTR_SIZE
BlobSize(size) == size + FREE_L_SIZE

(* A new block at the break, handed to the client. *)
Carve(size) ==
    /\ brk + BlobSize(size) <= Limit
    /\ brk' = brk + BlobSize(size)
    /\ chunk_size' = With(chunk_size, brk, size + FREE_L_SIZE - LEN_SIZE)
    /\ previous' = With(previous, brk, Junk)
    /\ used' = With(used, brk, size)
    /\ UNCHANGED <<free, foreign, pc>>

HoleOrNegative(i, size) == ToInt(size - chunk_size[free[i]])
Hole(i, size) == ToInt(chunk_size[free[i]] - size)

Fits(size) == {i \in DOMAIN free : Hole(i, size) >= 0}

(* The first entry with the smallest hole. *)
IsBestFit(i, size) ==
    /\ i \in Fits(size)
    /\ \A j \in Fits(size) : Hole(i, size) <= Hole(j, size)
    /\ \A j \in Fits(size) : j < i => Hole(i, size) < Hole(j, size)

MallocFirst(size) ==
    /\ pc = "idle" /\ free = <<>>
    /\ Carve(size)

MallocExtend(size) ==
    /\ pc = "idle" /\ free # <<>>
    /\ Fits(size) = {}
    /\ Carve(size)

MallocReuse(size, i) ==
    /\ pc = "idle"
    /\ IsBestFit(i, size)
    /\ free' = ListAfterPop(i)
    /\ previous' = [PreviousAfterPop(i) EXCEPT ![free[i]] = Junk]
    /\ used' = With(used, free[i], size)
    /\ pc' = PcAfterPop(i, "idle")
    /\ UNCHANGED <<chunk_size, brk, foreign>>

(* A failed sbrk returns -1, which the test against NULL lets through.    *)
MallocSegv(size) ==
    /\ pc = "idle"
    /\ Fits(size) = {}
    /\ brk + BlobSize(size) > Limit
    /\ pc' = "segv"
    /\ UNCHANGED <<free, chunk_size, previous, brk, used, foreign>>

-----------------------------------------------------------------------------
(* c_free *)

PreviousKept(b) == previous
PreviousWhenFreed(b) == [previous EXCEPT ![b] = NULL]

Free(b) ==
    /\ pc = "idle"
    /\ b \in DOMAIN used
    /\ free' = <<b>> \o free
    /\ previous' = PreviousWhenFreed(b)
    /\ used' = Without(used, b)
    /\ pc' = "shrink"
    /\ UNCHANGED <<chunk_size, brk, foreign>>

AtTop(i) == End(free[i]) = brk

(* One round of the loop that found a listed block ending at the break. *)
Shrink(i) ==
    /\ pc = "shrink"
    /\ AtTop(i)
    /\ \A j \in 1 .. i - 1 : ~AtTop(j)
    /\ free' = ListAfterPop(i)
    /\ previous' = Without(PreviousAfterPop(i), free[i])
    /\ chunk_size' = Without(chunk_size, free[i])
    /\ brk' = brk - ToInt(LEN_SIZE + chunk_size[free[i]])
    /\ pc' = PcAfterPop(i, "shrink")
    /\ UNCHANGED <<used, foreign>>

NoneAtHead == \A i \in DOMAIN free \cap {1} : ~AtTop(i)
NoRound == free = <<>>
NoneAtTop == \A i \in DOMAIN free : ~AtTop(i)

ShrinkDone ==
    /\ pc = "shrink"
    /\ NoneAtTop
    /\ pc' = "idle"
    /\ UNCHANGED <<free, chunk_size, previous, brk, used, foreign>>

-----------------------------------------------------------------------------
(* libc's malloc, called by printf and by the rest of the program, takes   *)
(* memory from the same break between two calls.                           *)
LibcSbrk(n) ==
    /\ pc = "idle"
    /\ brk + n <= Limit
    /\ foreign' = foreign \cup (brk .. brk + n - 1)
    /\ brk' = brk + n
    /\ UNCHANGED <<free, chunk_size, previous, used, pc>>

Malloc == \E size \in Sizes :
             \/ MallocFirst(size)
             \/ MallocExtend(size)
             \/ \E i \in DOMAIN free : MallocReuse(size, i)
             \/ MallocSegv(size)

ShrinkLoop == (\E i \in DOMAIN free : Shrink(i)) \/ ShrinkDone

Next == \/ Malloc
        \/ \E b \in DOMAIN used : Free(b)
        \/ ShrinkLoop
        \/ \E n \in ForeignSizes : LibcSbrk(n)

Spec == Init /\ [][Next]_vars

(* A call of c_free that has started keeps running. *)
FairSpec == Spec /\ WF_vars(ShrinkLoop)

-----------------------------------------------------------------------------
(* The variables have their types; every block has both fields. *)
TypeOK ==
    /\ Blocks \subseteq Nat
    /\ chunk_size \in [Blocks -> Nat]
    /\ previous \in [Blocks -> {NULL, Junk}]
    /\ free \in Seq(Blocks)
    /\ DOMAIN used \subseteq Blocks
    /\ used \in [DOMAIN used -> Nat]
    /\ brk \in 0 .. Limit
    /\ foreign \subseteq Nat
    /\ pc \in {"idle", "shrink", "segv", "wild"}

(* c_malloc's blocks, listed, in use or lost, are disjoint and lie below   *)
(* the break, and none holds a byte that libc took: shrinking the break    *)
(* and reusing a block never touch memory somebody else owns.              *)
HeapPartition ==
    /\ \A b \in Blocks : End(b) <= brk
    /\ \A a, b \in Blocks : a < b => End(a) <= b
    /\ \A f \in foreign : f < brk /\ \A b \in Blocks : f < b \/ End(b) <= f

(* A client's bytes fit in its block, below the next header: a reused      *)
(* block is never smaller than the request (line 61).                      *)
PayloadFits == \A b \in DOMAIN used : used[b] <= chunk_size[b]

(* No block is on the free list twice or while a client uses it, and the   *)
(* previous field of a listed block is never the bytes its last client     *)
(* left there: pop_from_free_list (lines 18-28) follows no stale link.     *)
FreeListSound ==
    /\ \A i, j \in DOMAIN free : free[i] = free[j] => i = j
    /\ \A i \in DOMAIN free : free[i] \notin DOMAIN used
    /\ \A i \in DOMAIN free : previous[free[i]] = NULL
    /\ pc # "wild"

(* Lines 103-104, for the blocks still on the list: between two calls no   *)
(* listed block ends at the break.                                         *)
TopTrimmed == pc = "idle" => \A i \in DOMAIN free : End(free[i]) # brk

(* Lines 103-104, for every block a client has freed and nobody reuses,    *)
(* whether the list still reaches it or not.                               *)
FreedTopReleased ==
    pc = "idle" => \A b \in Blocks \ DOMAIN used : End(b) # brk

(* c_free's loop (lines 106-122) ends. *)
ShrinkTerminates == pc = "shrink" ~> pc = "idle"

(* The caller's view. *)
Grants == {<<b + LEN_SIZE, used[b]>> : b \in DOMAIN used}

H == INSTANCE Heap WITH Pointers <- 0 .. Limit + LEN_SIZE, grants <- Grants

(* Every step is a grant of fresh bytes, the return of one, or nothing a   *)
(* caller can see.                                                         *)
ImplementsHeap == H!Spec
=============================================================================
