-------------------------- MODULE AllocatorProofs --------------------------
(* The safety of the allocator for every heap limit, set of sizes and      *)
(* width of a pointer, and its refinement of Heap.                         *)
EXTENDS Allocator, TLAPS

(* An int holds every size difference that IntAssumption allows.           *)
LEMMA ToIntInRange ==
    ASSUME NEW n \in Int, -HALF <= n, n < HALF
    PROVE  ToInt(n) = n
<1>1. HALF \in Nat /\ HALF > 0
  BY IntAssumption
<1>2. /\ n + HALF \in Nat
      /\ n + HALF < 2 * HALF
  BY <1>1
<1>3. ASSUME NEW m \in Nat, NEW k \in Nat, k < m
      PROVE  k % m = k
  BY <1>3
<1>4. (n + HALF) % (2 * HALF) = n + HALF
  BY <1>1, <1>2, <1>3
<1> QED
  BY <1>1, <1>4 DEF ToInt

(* What is left of the list after a pop is its tail behind the popped      *)
(* entry.                                                                  *)
LEMMA AfterPop ==
    ASSUME NEW S, free \in Seq(S), NEW i \in DOMAIN free
    PROVE  /\ ListAfterPop(i) \in Seq(S)
           /\ Len(ListAfterPop(i)) = Len(free) - i
           /\ \A k \in DOMAIN ListAfterPop(i) :
                /\ i + k \in DOMAIN free
                /\ ListAfterPop(i)[k] = free[i + k]
<1>1. i \in 1 .. Len(free) /\ Len(free) \in Nat
  OBVIOUS
<1> QED
  BY <1>1 DEF ListAfterPop

(* Pushing a block moves every other one position down.                    *)
LEMMA AfterPush ==
    ASSUME NEW S, NEW L \in Seq(S), NEW b \in S
    PROVE  /\ <<b>> \o L \in Seq(S)
           /\ Len(<<b>> \o L) = Len(L) + 1
           /\ (<<b>> \o L)[1] = b
           /\ \A k \in DOMAIN (<<b>> \o L) : k # 1 =>
                /\ k - 1 \in DOMAIN L
                /\ (<<b>> \o L)[k] = L[k - 1]
  OBVIOUS

-----------------------------------------------------------------------------
(* The inductive invariant.  The conjuncts need one another: the break may *)
(* be lowered under a block only because the block is the topmost one      *)
(* (HeapPartition), which in turn needs the list to hold blocks that no    *)
(* client uses (FreeListSound) and sizes that an int holds (TypeOK, with   *)
(* IntAssumption).                                                         *)
IInv == /\ TypeOK
        /\ HeapPartition
        /\ PayloadFits
        /\ FreeListSound
        /\ TopTrimmed

(* A block ends after it starts and at most at the break, and its size and *)
(* every difference with a request fit an int.                             *)
LEMMA BlockBounds ==
    ASSUME IInv, NEW b \in Blocks
    PROVE  /\ b \in Nat /\ chunk_size[b] \in Nat /\ End(b) \in Nat
           /\ b < End(b) /\ End(b) <= brk
           /\ brk \in Nat /\ brk < HALF
           /\ LEN_SIZE + chunk_size[b] \in Nat
           /\ ToInt(LEN_SIZE + chunk_size[b]) = LEN_SIZE + chunk_size[b]
           /\ \A n \in Sizes : ToInt(chunk_size[b] - n) = chunk_size[b] - n
<1>1. b \in Nat /\ chunk_size[b] \in Nat /\ LEN_SIZE \in Nat \ {0}
  BY SizesAssumption DEF IInv, TypeOK
<1>2. End(b) = b + LEN_SIZE + chunk_size[b] /\ End(b) <= brk
  BY DEF IInv, HeapPartition, End
<1>3. brk \in Nat /\ HALF \in Nat /\ brk < HALF
  BY IntAssumption DEF IInv, TypeOK
<1>4. ToInt(LEN_SIZE + chunk_size[b]) = LEN_SIZE + chunk_size[b]
  BY <1>1, <1>2, <1>3, ToIntInRange
<1>5. ASSUME NEW n \in Sizes
      PROVE  ToInt(chunk_size[b] - n) = chunk_size[b] - n
  <2>1. n \in Nat /\ n <= HALF
    BY IntAssumption, SizesAssumption
  <2>2. chunk_size[b] - n \in Int /\ -HALF <= chunk_size[b] - n /\ chunk_size[b] - n < HALF
    BY <1>1, <1>2, <1>3, <2>1
  <2> QED
    BY <2>2, ToIntInRange
<1> QED
  BY <1>1, <1>2, <1>3, <1>4, <1>5

(* Carving a block at the break keeps the invariant: it is above all the   *)
(* others.                                                                 *)
LEMMA CarveStep ==
    ASSUME IInv, pc = "idle", NEW size \in Sizes, Carve(size)
    PROVE  IInv'
<1> USE DEF IInv
<1>1. /\ brk \in Nat /\ size \in Nat /\ LEN_SIZE \in Nat \ {0} /\ PTR_SIZE \in Nat
      /\ BlobSize(size) = size + LEN_SIZE + 2 * PTR_SIZE
      /\ size + FREE_L_SIZE - LEN_SIZE = size + 2 * PTR_SIZE
      /\ size + 2 * PTR_SIZE \in Nat
  BY SizesAssumption DEF TypeOK, BlobSize, FREE_L_SIZE
<1>0. \A b \in Blocks : b \in Nat /\ b < End(b) /\ End(b) \in Nat /\ End(b) <= brk
  BY BlockBounds
<1>2. brk \notin Blocks
  BY <1>1, <1>0
<1>3. /\ Blocks' = Blocks \cup {brk}
      /\ chunk_size' \in [Blocks \cup {brk} -> Nat]
      /\ chunk_size'[brk] = size + 2 * PTR_SIZE
      /\ \A b \in Blocks : chunk_size'[b] = chunk_size[b]
  BY <1>1, <1>2 DEF TypeOK, Blocks, Carve, With
<1>4. /\ previous' \in [Blocks \cup {brk} -> {NULL, Junk}]
      /\ \A b \in Blocks : previous'[b] = previous[b]
  BY <1>2 DEF TypeOK, Carve, With
<1>5. /\ DOMAIN used' = DOMAIN used \cup {brk}
      /\ used' \in [DOMAIN used \cup {brk} -> Nat]
      /\ used'[brk] = size
      /\ \A b \in DOMAIN used : used'[b] = used[b]
  BY <1>1, <1>2 DEF TypeOK, Carve, With
<1>6. /\ \A b \in Blocks : End(b)' = End(b)
      /\ \A b \in {brk} : End(b)' = brk'
      /\ brk' \in Nat /\ brk < brk' /\ brk' <= Limit
  BY <1>1, <1>3 DEF End, Carve
<1>7. TypeOK'
  <2>1. free' \in Seq(Blocks')
    BY <1>3 DEF TypeOK, Carve
  <2>2. brk' \in 0 .. Limit
    BY <1>6, IntAssumption
  <2> QED
    BY <1>1, <1>3, <1>4, <1>5, <2>1, <2>2 DEF TypeOK, Carve
<1>8. HeapPartition'
  <2>1. \A b \in Blocks' : (End(b) <= brk)'
    BY <1>3, <1>6, BlockBounds
  <2>2. \A a, b \in Blocks' : a < b => End(a)' <= b
    BY <1>1, <1>3, <1>6, <1>0 DEF HeapPartition
  <2>3. \A f \in foreign' : f < brk' /\ \A b \in Blocks' : f < b \/ End(b)' <= f
    BY <1>3, <1>6 DEF HeapPartition, Carve, TypeOK
  <2> QED
    BY <2>1, <2>2, <2>3 DEF HeapPartition
<1>9. PayloadFits'
  BY <1>1, <1>2, <1>3, <1>5 DEF PayloadFits, TypeOK
<1>10. FreeListSound'
  <2>1. \A i \in DOMAIN free : free[i] \in Blocks /\ free[i] # brk
    BY <1>2 DEF TypeOK
  <2> QED
    BY <2>1, <1>4, <1>5 DEF FreeListSound, Carve
<1>11. TopTrimmed'
  <2>1. \A i \in DOMAIN free : free[i] \in Blocks
    BY DEF TypeOK
  <2>2. \A b \in Blocks : End(b)' # brk'
    BY <1>1, <1>6, <1>0
  <2> QED
    BY <2>1, <2>2 DEF TopTrimmed, Carve, End
<1> QED
  BY <1>7, <1>8, <1>9, <1>10, <1>11

(* Popping keeps what is left of the list sound, and clears no link.       *)
LEMMA PopStep ==
    ASSUME IInv, NEW i \in DOMAIN free, NEW next
    PROVE  /\ PreviousAfterPop(i) = previous
           /\ PcAfterPop(i, next) = next
           /\ ListAfterPop(i) \in Seq(Blocks \ {free[i]})
           /\ \A k \in DOMAIN ListAfterPop(i) :
                 i + k \in DOMAIN free /\ ListAfterPop(i)[k] = free[i + k]
<1> USE DEF IInv
<1>1. free \in Seq(Blocks) /\ i \in 1 .. Len(free)
  BY DEF TypeOK
<1>2. \A j \in DOMAIN free : previous[free[j]] = NULL /\ free[j] \in Blocks
  BY DEF FreeListSound, TypeOK
<1>3. PreviousAfterPop(i) = previous
  <2>1. CASE i = Len(free)
    BY <2>1 DEF PreviousAfterPop
  <2>2. CASE i # Len(free)
    <3>1. i + 1 \in DOMAIN free
      BY <1>1, <2>2
    <3>2. previous \in [Blocks -> {NULL, Junk}]
      BY DEF TypeOK
    <3> QED
      BY <1>2, <2>2, <3>1, <3>2 DEF PreviousAfterPop
  <2> QED
    BY <2>1, <2>2
<1>4. PcAfterPop(i, next) = next
  BY <1>2 DEF PcAfterPop
<1>5. /\ ListAfterPop(i) \in Seq(Blocks)
      /\ \A k \in DOMAIN ListAfterPop(i) :
            i + k \in DOMAIN free /\ ListAfterPop(i)[k] = free[i + k]
  BY <1>1, AfterPop
<1>6. \A k \in DOMAIN ListAfterPop(i) : ListAfterPop(i)[k] # free[i]
  BY <1>1, <1>5 DEF FreeListSound
<1> QED
  BY <1>3, <1>4, <1>5, <1>6


(* Reuse keeps the invariant: the best fit is at least as large as the     *)
(* request, and it leaves the list.                                        *)
LEMMA ReuseStep ==
    ASSUME IInv, NEW size \in Sizes, NEW i \in DOMAIN free, MallocReuse(size, i)
    PROVE  IInv'
<1> DEFINE b == free[i]
<1>1. /\ b \in Blocks /\ size \in Nat
      /\ \A j \in DOMAIN free : free[j] \in Blocks
  BY SizesAssumption DEF IInv, TypeOK
<1>2. /\ chunk_size' = chunk_size /\ brk' = brk /\ foreign' = foreign
      /\ free' = ListAfterPop(i)
      /\ previous' = [previous EXCEPT ![b] = Junk]
      /\ used' = With(used, b, size)
      /\ pc = "idle" /\ pc' = "idle"
  BY PopStep DEF MallocReuse
<1>3. /\ free' \in Seq(Blocks \ {b})
      /\ \A k \in DOMAIN free' : i + k \in DOMAIN free /\ free'[k] = free[i + k]
  BY PopStep, <1>2
<1>4. /\ DOMAIN used' = DOMAIN used \cup {b}
      /\ used' \in [DOMAIN used \cup {b} -> Nat]
      /\ used'[b] = size
      /\ \A a \in DOMAIN used : a # b => used'[a] = used[a]
  BY <1>1, <1>2 DEF IInv, TypeOK, With
<1>5. size <= chunk_size[b]
  <2>1. Hole(i, size) >= 0
    BY DEF MallocReuse, IsBestFit, Fits
  <2>2. Hole(i, size) = chunk_size[b] - size /\ chunk_size[b] \in Nat
    BY <1>1, BlockBounds DEF Hole
  <2> QED
    BY <1>1, <2>1, <2>2
<1>6. \A a \in Blocks : End(a)' = End(a)
  BY <1>2 DEF End
<1>7. \A k \in DOMAIN free' : free'[k] \in Blocks /\ free'[k] # b
  BY <1>3
<1>8. TypeOK'
  <2>1. free' \in Seq(Blocks)
    BY <1>3
  <2>2. previous' \in [Blocks -> {NULL, Junk}]
    BY <1>2 DEF IInv, TypeOK
  <2> QED
    BY <1>1, <1>2, <1>4, <2>1, <2>2 DEF IInv, TypeOK, Blocks
<1>9. HeapPartition'
  BY <1>2, <1>6 DEF IInv, HeapPartition, Blocks
<1>10. PayloadFits'
  BY <1>2, <1>4, <1>5 DEF IInv, PayloadFits
<1>11. FreeListSound'
  <2>1. \A k, l \in DOMAIN free' : free'[k] = free'[l] => k = l
    <3>1. \A k, l \in DOMAIN free' : i + k = i + l => k = l
      BY <1>3 DEF IInv, TypeOK
    <3> QED
      BY <1>3, <3>1 DEF IInv, FreeListSound
  <2>2. \A k \in DOMAIN free' : free'[k] \notin DOMAIN used'
    BY <1>3, <1>4, <1>7 DEF IInv, FreeListSound
  <2>3. \A k \in DOMAIN free' : previous'[free'[k]] = NULL
    BY <1>2, <1>3, <1>7 DEF IInv, FreeListSound, TypeOK
  <2> QED
    BY <1>2, <2>1, <2>2, <2>3 DEF FreeListSound
<1>12. TopTrimmed'
  BY <1>2, <1>3, <1>6, <1>7 DEF IInv, TopTrimmed, End
<1> QED
  BY <1>8, <1>9, <1>10, <1>11, <1>12 DEF IInv

(* c_free's push keeps the invariant: the block leaves the client and its  *)
(* link is reset.                                                          *)
LEMMA FreeStep ==
    ASSUME IInv, NEW b \in DOMAIN used, Free(b)
    PROVE  IInv'
<1>1. /\ b \in Blocks
      /\ chunk_size' = chunk_size /\ brk' = brk /\ foreign' = foreign
      /\ free' = <<b>> \o free
      /\ previous' = [previous EXCEPT ![b] = NULL]
      /\ pc' = "shrink"
  BY DEF IInv, TypeOK, Free, PreviousWhenFreed
<1>2. /\ DOMAIN used' = DOMAIN used \ {b}
      /\ used' \in [DOMAIN used' -> Nat]
      /\ \A a \in DOMAIN used' : used'[a] = used[a]
  BY DEF IInv, TypeOK, Free, Without
<1>3. /\ free' \in Seq(Blocks)
      /\ free'[1] = b
      /\ \A k \in DOMAIN free' : k # 1 =>
            k - 1 \in DOMAIN free /\ free'[k] = free[k - 1]
  BY <1>1, AfterPush DEF IInv, TypeOK
<1>4. \A j \in DOMAIN free : free[j] \in Blocks /\ free[j] # b
  BY DEF IInv, TypeOK, FreeListSound
<1>5. \A a \in Blocks : End(a)' = End(a)
  BY <1>1 DEF End
<1>6. TypeOK'
  BY <1>1, <1>2, <1>3 DEF IInv, TypeOK, Blocks
<1>7. HeapPartition'
  BY <1>1, <1>5 DEF IInv, HeapPartition, Blocks
<1>8. PayloadFits'
  BY <1>1, <1>2 DEF IInv, PayloadFits
<1>9. FreeListSound'
  <2>1. \A k, l \in DOMAIN free' : free'[k] = free'[l] => k = l
    <3>1. DOMAIN free' \subseteq Nat
      BY <1>3
    <3>2. \A k, l \in DOMAIN free' : k - 1 = l - 1 => k = l
      BY <3>1
    <3> QED
      BY <1>3, <1>4, <3>2 DEF IInv, FreeListSound
  <2>2. \A k \in DOMAIN free' : free'[k] \notin DOMAIN used'
    BY <1>2, <1>3 DEF IInv, FreeListSound
  <2>3. \A k \in DOMAIN free' : previous'[free'[k]] = NULL
    BY <1>1, <1>3, <1>4 DEF IInv, FreeListSound, TypeOK
  <2> QED
    BY <1>1, <2>1, <2>2, <2>3 DEF FreeListSound
<1>10. TopTrimmed'
  BY <1>1 DEF TopTrimmed
<1> QED
  BY <1>6, <1>7, <1>8, <1>9, <1>10 DEF IInv

(* A round of the loop keeps the invariant: the block that goes is the     *)
(* topmost one, so nothing is left above the new break.                    *)
LEMMA ShrinkStep ==
    ASSUME IInv, NEW i \in DOMAIN free, Shrink(i)
    PROVE  IInv'
<1> DEFINE b == free[i]
<1>1. /\ b \in Blocks /\ b \notin DOMAIN used
      /\ End(b) = brk
  BY DEF IInv, TypeOK, FreeListSound, Shrink, AtTop
<1>2. /\ free' = ListAfterPop(i)
      /\ previous' = Without(previous, b)
      /\ chunk_size' = Without(chunk_size, b)
      /\ brk' = b
      /\ pc' = "shrink"
      /\ used' = used /\ foreign' = foreign
  <2>1. b \in Nat /\ brk \in Nat /\ chunk_size[b] \in Nat /\ LEN_SIZE \in Nat
    BY <1>1, BlockBounds, SizesAssumption
  <2>2. brk - ToInt(LEN_SIZE + chunk_size[b]) = b
    BY <1>1, <2>1, BlockBounds DEF End
  <2> QED
    BY <2>2, PopStep DEF Shrink
<1>3. /\ free' \in Seq(Blocks \ {b})
      /\ \A k \in DOMAIN free' : i + k \in DOMAIN free /\ free'[k] = free[i + k]
  BY PopStep, <1>2
<1>4. /\ Blocks' = Blocks \ {b}
      /\ chunk_size' \in [Blocks' -> Nat]
      /\ previous' \in [Blocks' -> {NULL, Junk}]
      /\ \A a \in Blocks' : chunk_size'[a] = chunk_size[a] /\ previous'[a] = previous[a]
  BY <1>2 DEF IInv, TypeOK, Blocks, Without
<1>5. \A a \in Blocks' : End(a)' = End(a) /\ End(a) <= b
  <2>1. \A a \in Blocks : /\ a \in Nat /\ a < End(a) /\ End(a) \in Nat
                          /\ End(a) <= brk /\ brk \in Nat
    BY BlockBounds
  <2>2. \A a \in Blocks' : End(a) <= b
    BY <1>1, <1>4, <2>1 DEF IInv, HeapPartition
  <2>3. \A a \in Blocks' : End(a)' = End(a)
    BY <1>4 DEF End
  <2> QED
    BY <2>2, <2>3
<1>6. TypeOK'
  <2>1. b \in 0 .. Limit
    <3>1. b \in Nat /\ b < End(b) /\ brk \in Nat /\ brk <= Limit /\ Limit \in Nat
      BY <1>1, BlockBounds, IntAssumption, SMTT(30) DEF IInv, TypeOK
    <3> QED
      BY <1>1, <3>1
  <2>2. DOMAIN used' \subseteq Blocks' /\ used' \in [DOMAIN used' -> Nat]
    BY <1>1, <1>2, <1>4 DEF IInv, TypeOK
  <2>3. Blocks' \subseteq Nat /\ foreign' \subseteq Nat
    BY <1>2, <1>4 DEF IInv, TypeOK
  <2> QED
    BY <1>2, <1>3, <1>4, <2>1, <2>2, <2>3 DEF TypeOK
<1>7. HeapPartition'
  <2>1. \A a \in Blocks' : End(a)' <= brk'
    BY <1>2, <1>5
  <2>2. \A a, c \in Blocks' : a < c => End(a)' <= c
    BY <1>4, <1>5 DEF IInv, HeapPartition
  <2>3. \A f \in foreign' : f < brk' /\ \A a \in Blocks' : f < a \/ End(a)' <= f
    <3>1. \A f \in foreign : f \in Nat /\ f < brk /\ (f < b \/ End(b) <= f)
      BY <1>1 DEF IInv, HeapPartition, TypeOK
    <3>2. brk \in Nat /\ b \in Nat
      BY <1>1, BlockBounds
    <3>3. \A f \in foreign : f < b
      BY <1>1, <3>1, <3>2
    <3> QED
      BY <1>2, <1>4, <1>5, <3>3 DEF IInv, HeapPartition
  <2> QED
    BY <2>1, <2>2, <2>3 DEF HeapPartition
<1>8. PayloadFits'
  BY <1>1, <1>2, <1>4 DEF IInv, PayloadFits, TypeOK
<1>9. FreeListSound'
  <2>1. \A k, l \in DOMAIN free' : free'[k] = free'[l] => k = l
    <3>1. \A k, l \in DOMAIN free' : i + k = i + l => k = l
      BY <1>3 DEF IInv, TypeOK
    <3> QED
      BY <1>3, <3>1 DEF IInv, FreeListSound
  <2>2. \A k \in DOMAIN free' : free'[k] \notin DOMAIN used'
    BY <1>2, <1>3 DEF IInv, FreeListSound
  <2>3. \A k \in DOMAIN free' : previous'[free'[k]] = NULL
    <3>1. \A k \in DOMAIN free' : free'[k] \in Blocks'
      BY <1>3, <1>4
    <3> QED
      BY <1>3, <1>4, <3>1 DEF IInv, FreeListSound
  <2> QED
    BY <1>2, <2>1, <2>2, <2>3 DEF FreeListSound
<1>10. TopTrimmed'
  BY <1>2 DEF TopTrimmed
<1> QED
  BY <1>6, <1>7, <1>8, <1>9, <1>10 DEF IInv


(* libc's own use of the break keeps the invariant: it only raises it.     *)
LEMMA LibcStep ==
    ASSUME IInv, NEW n \in ForeignSizes, LibcSbrk(n)
    PROVE  IInv'
<1>1. /\ n \in Nat /\ brk \in Nat /\ Limit \in Nat
      /\ brk' = brk + n /\ brk' <= Limit
      /\ foreign' = foreign \cup (brk .. brk + n - 1)
      /\ pc = "idle"
      /\ UNCHANGED <<free, chunk_size, previous, used, pc>>
  BY SizesAssumption, IntAssumption DEF IInv, TypeOK, LibcSbrk
<1>2. /\ Blocks' = Blocks
      /\ \A b \in Blocks : End(b)' = End(b)
      /\ \A b \in Blocks : End(b) \in Nat /\ End(b) <= brk
  BY <1>1, BlockBounds DEF End, Blocks
<1>3. TypeOK'
  BY <1>1, <1>2 DEF IInv, TypeOK
<1>4. HeapPartition'
  <2>1. \A f \in foreign' : f < brk' /\ \A b \in Blocks : f < b \/ End(b) <= f
    <3>1. \A f \in foreign : f \in Nat /\ f < brk
      BY DEF IInv, TypeOK, HeapPartition
    <3>2. \A f \in brk .. brk + n - 1 : f < brk + n /\ \A b \in Blocks : End(b) <= f
      BY <1>1, <1>2
    <3> QED
      BY <1>1, <3>1, <3>2 DEF IInv, HeapPartition
  <2> QED
    BY <1>1, <1>2, <2>1 DEF IInv, HeapPartition
<1>5. PayloadFits' /\ FreeListSound'
  BY <1>1 DEF IInv, PayloadFits, FreeListSound
<1>6. TopTrimmed'
  <2>1. \A j \in DOMAIN free : free[j] \in Blocks /\ End(free[j]) # brk
    BY <1>1 DEF IInv, TypeOK, TopTrimmed
  <2>2. \A j \in DOMAIN free : End(free[j]) \in Nat /\ End(free[j]) < brk
    BY <1>1, <1>2, <2>1
  <2>3. \A j \in DOMAIN free : End(free[j]) # brk'
    BY <1>1, <2>2
  <2> QED
    BY <1>1, <2>3 DEF TopTrimmed, End
<1> QED
  BY <1>3, <1>4, <1>5, <1>6 DEF IInv

LEMMA InitEstablishes ==
    Init => IInv
<1> SUFFICES ASSUME Init PROVE IInv
  OBVIOUS
<1>1. Limit \in Nat /\ 0 \in 0 .. Limit
  BY IntAssumption
<1>2. DOMAIN chunk_size = {} /\ DOMAIN used = {} /\ DOMAIN free = {}
  BY DEF Init
<1> QED
  BY <1>1, <1>2 DEF Init, IInv, TypeOK, HeapPartition, PayloadFits,
                    FreeListSound, TopTrimmed, Blocks

LEMMA NextPreserves ==
    IInv /\ [Next]_vars => IInv'
<1> SUFFICES ASSUME IInv, [Next]_vars PROVE IInv'
  OBVIOUS
<1>1. ASSUME NEW size \in Sizes, MallocFirst(size) PROVE IInv'
  BY <1>1, CarveStep DEF MallocFirst
<1>2. ASSUME NEW size \in Sizes, MallocExtend(size) PROVE IInv'
  BY <1>2, CarveStep DEF MallocExtend
<1>3. ASSUME NEW size \in Sizes, NEW i \in DOMAIN free, MallocReuse(size, i) PROVE IInv'
  BY <1>3, ReuseStep
<1>4. ASSUME NEW size \in Sizes, MallocSegv(size) PROVE IInv'
  BY <1>4 DEF MallocSegv, IInv, TypeOK, HeapPartition, PayloadFits,
              FreeListSound, TopTrimmed, Blocks, End
<1>5. ASSUME NEW b \in DOMAIN used, Free(b) PROVE IInv'
  BY <1>5, FreeStep
<1>6. ASSUME NEW i \in DOMAIN free, Shrink(i) PROVE IInv'
  BY <1>6, ShrinkStep
<1>7. ASSUME ShrinkDone PROVE IInv'
  BY <1>7 DEF ShrinkDone, NoneAtTop, AtTop, IInv, TypeOK, HeapPartition,
              PayloadFits, FreeListSound, TopTrimmed, Blocks, End
<1>8. ASSUME NEW n \in ForeignSizes, LibcSbrk(n) PROVE IInv'
  BY <1>8, LibcStep
<1>9. CASE UNCHANGED vars
  BY <1>9 DEF vars, IInv, TypeOK, HeapPartition, PayloadFits,
              FreeListSound, TopTrimmed, Blocks, End
<1> QED
  BY <1>1, <1>2, <1>3, <1>4, <1>5, <1>6, <1>7, <1>8, <1>9
     DEF Next, Malloc, ShrinkLoop

(* The invariant holds in every reachable state.                           *)
THEOREM Invariance == Spec => []IInv
<1> QED
  BY InitEstablishes, NextPreserves, PTL DEF Spec

(* Every variable keeps its type; in particular the break stays within     *)
(* what the kernel grants although c_free lowers it by a size computed in  *)
(* an int (line 116).                                                      *)
THEOREM TypeCorrect == Spec => []TypeOK
<1>1. IInv => TypeOK
  BY DEF IInv
<1> QED
  BY <1>1, Invariance, PTL

(* For every sequence of calls c_malloc's blocks and the memory libc takes *)
(* stay disjoint and below the break.                                      *)
THEOREM Partitioned == Spec => []HeapPartition
<1>1. IInv => HeapPartition
  BY DEF IInv
<1> QED
  BY <1>1, Invariance, PTL

(* A client never holds a block smaller than it asked for.                 *)
THEOREM Fitting == Spec => []PayloadFits
<1>1. IInv => PayloadFits
  BY DEF IInv
<1> QED
  BY <1>1, Invariance, PTL

(* The free list holds each free block at most once, no block in use, and  *)
(* no link is ever read from a client's bytes.                             *)
THEOREM ListSound == Spec => []FreeListSound
<1>1. IInv => FreeListSound
  BY DEF IInv
<1> QED
  BY <1>1, Invariance, PTL

(* When c_free returns no listed block ends at the break, and no call of   *)
(* c_malloc or of libc brings one there.                                   *)
THEOREM Trimmed == Spec => []TopTrimmed
<1>1. IInv => TopTrimmed
  BY DEF IInv
<1> QED
  BY <1>1, Invariance, PTL

-----------------------------------------------------------------------------
(* Refinement.                                                             *)

(* A grant made of block b is apart from the grant of every other block.   *)
LEMMA BlocksApart ==
    ASSUME IInv, NEW a \in DOMAIN used, NEW b \in Nat, NEW n \in Nat, NEW e \in Nat,
           a # b, e = b + LEN_SIZE + n, End(a) <= b \/ e <= a
    PROVE  H!Bytes(<<a + LEN_SIZE, used[a]>>) \cap H!Bytes(<<b + LEN_SIZE, n>>) = {}
<1>1. /\ a \in Nat /\ chunk_size[a] \in Nat /\ End(a) = a + LEN_SIZE + chunk_size[a]
      /\ LEN_SIZE \in Nat /\ used[a] \in Nat /\ used[a] <= chunk_size[a]
  BY SizesAssumption DEF IInv, TypeOK, PayloadFits, End
<1>2. /\ H!Bytes(<<a + LEN_SIZE, used[a]>>) = (a + LEN_SIZE) .. (a + LEN_SIZE + used[a] - 1)
      /\ H!Bytes(<<b + LEN_SIZE, n>>) = (b + LEN_SIZE) .. (b + LEN_SIZE + n - 1)
  BY DEF H!Bytes
<1>3. ASSUME NEW x \in (a + LEN_SIZE) .. (a + LEN_SIZE + used[a] - 1),
             x \in (b + LEN_SIZE) .. (b + LEN_SIZE + n - 1)
      PROVE  FALSE
  BY <1>1, <1>3
<1> QED
  BY <1>2, <1>3

(* A new grant of block b, which is apart from every block in use.         *)
LEMMA GrantStep ==
    ASSUME IInv, NEW b \in 0 .. Limit, NEW size \in Sizes,
           b \notin DOMAIN used,
           \A a \in DOMAIN used : End(a) <= b \/ b + LEN_SIZE + size <= a,
           used' = With(used, b, size)
    PROVE  H!Next
<1> DEFINE p == b + LEN_SIZE
<1>1. /\ b \in Nat /\ size \in Nat /\ LEN_SIZE \in Nat /\ p \in 0 .. Limit + LEN_SIZE
  BY SizesAssumption, IntAssumption
<1>2. \A a \in DOMAIN used : a \in Nat /\ a # b
  BY DEF IInv, TypeOK
<1>3. \A g \in Grants : g[1] # p /\ H!Bytes(g) \cap H!Bytes(<<p, size>>) = {}
  <2> SUFFICES ASSUME NEW a \in DOMAIN used
               PROVE  /\ a + LEN_SIZE # p
                      /\ H!Bytes(<<a + LEN_SIZE, used[a]>>) \cap H!Bytes(<<p, size>>) = {}
    BY DEF Grants
  <2>1. a + LEN_SIZE # p
    BY <1>1, <1>2
  <2>2. H!Bytes(<<a + LEN_SIZE, used[a]>>) \cap H!Bytes(<<p, size>>) = {}
    BY <1>1, <1>2, BlocksApart
  <2> QED
    BY <2>1, <2>2
<1>4. Grants' = Grants \cup {<<p, size>>}
  <2>1. /\ DOMAIN used' = DOMAIN used \cup {b}
        /\ used'[b] = size
        /\ \A a \in DOMAIN used : used'[a] = used[a]
    BY <1>2 DEF With
  <2>2. Grants' = {<<a + LEN_SIZE, used'[a]>> : a \in DOMAIN used'}
    BY DEF Grants
  <2> QED
    BY <2>1, <2>2 DEF Grants
<1> QED
  BY <1>1, <1>3, <1>4 DEF H!Next, H!Alloc

(* Giving block b back takes exactly its grant away.                       *)
LEMMA ReturnStep ==
    ASSUME IInv, NEW b \in DOMAIN used, Free(b)
    PROVE  H!Next
<1> DEFINE g == <<b + LEN_SIZE, used[b]>>
<1>1. /\ DOMAIN used' = DOMAIN used \ {b}
      /\ \A a \in DOMAIN used' : used'[a] = used[a]
  BY DEF IInv, TypeOK, Free, Without
<1>2. \A a \in DOMAIN used : a # b => a + LEN_SIZE # b + LEN_SIZE
  BY SizesAssumption DEF IInv, TypeOK
<1>3. Grants' = {<<a + LEN_SIZE, used'[a]>> : a \in DOMAIN used'}
  BY DEF Grants
<1>4. g \in Grants /\ Grants' = Grants \ {g}
  BY <1>1, <1>2, <1>3 DEF Grants
<1> QED
  BY <1>4 DEF H!Next, H!Free

LEMMA StepRefines ==
    IInv /\ [Next]_vars => [H!Next]_Grants
<1> SUFFICES ASSUME IInv, [Next]_vars PROVE H!Next \/ UNCHANGED Grants
  OBVIOUS
<1>1. ASSUME NEW size \in Sizes, Carve(size) PROVE H!Next
  <2>1. \A a \in Blocks : a \in Nat /\ a < End(a) /\ End(a) <= brk /\ End(a) \in Nat
    BY BlockBounds
  <2>2. brk \notin DOMAIN used /\ \A a \in DOMAIN used : End(a) <= brk
    BY <2>1 DEF IInv, TypeOK
  <2>3. brk \in 0 .. Limit /\ used' = With(used, brk, size)
    BY <1>1 DEF IInv, TypeOK, Carve
  <2> QED
    BY <2>2, <2>3, GrantStep
<1>2. ASSUME NEW size \in Sizes, NEW i \in DOMAIN free, MallocReuse(size, i)
      PROVE  H!Next
  <2> DEFINE b == free[i]
  <2>1. /\ b \in Blocks /\ b \notin DOMAIN used
        /\ used' = With(used, b, size)
    BY <1>2 DEF IInv, TypeOK, FreeListSound, MallocReuse
  <2>2. size <= chunk_size[b] /\ size \in Nat /\ chunk_size[b] \in Nat /\ LEN_SIZE \in Nat
    <3>1. Hole(i, size) >= 0
      BY <1>2 DEF MallocReuse, IsBestFit, Fits
    <3>2. Hole(i, size) = chunk_size[b] - size /\ chunk_size[b] \in Nat
      BY <2>1, BlockBounds DEF Hole
    <3> QED
      BY <3>1, <3>2, SizesAssumption
  <2>3. b \in Nat /\ b \in 0 .. Limit /\ b + LEN_SIZE + size <= End(b)
    <3>1. b \in Nat /\ b < End(b) /\ End(b) <= brk /\ End(b) \in Nat
      BY <2>1, BlockBounds
    <3>2. brk \in Nat /\ brk <= Limit /\ Limit \in Nat
      BY IntAssumption DEF IInv, TypeOK
    <3> QED
      BY <2>2, <3>1, <3>2 DEF End
  <2>4. \A a \in DOMAIN used : End(a) <= b \/ b + LEN_SIZE + size <= a
    <3>1. \A a \in DOMAIN used : /\ a \in Blocks /\ a \in Nat /\ a # b
                                 /\ End(a) \in Nat
      BY <2>1, BlockBounds DEF IInv, TypeOK
    <3>2. \A a \in DOMAIN used : End(a) <= b \/ End(b) <= a
      BY <2>1, <2>3, <3>1 DEF IInv, HeapPartition
    <3>3. End(b) \in Nat
      BY <2>1, BlockBounds
    <3> QED
      BY <2>2, <2>3, <3>1, <3>2, <3>3
  <2> QED
    BY <2>1, <2>3, <2>4, GrantStep
<1>3. ASSUME NEW b \in DOMAIN used, Free(b) PROVE H!Next
  BY <1>3, ReturnStep
<1>4. ASSUME UNCHANGED used PROVE UNCHANGED Grants
  BY <1>4 DEF Grants
<1>5. ASSUME \/ \E size \in Sizes : MallocSegv(size)
             \/ \E i \in DOMAIN free : Shrink(i)
             \/ ShrinkDone
             \/ \E n \in ForeignSizes : LibcSbrk(n)
             \/ UNCHANGED vars
      PROVE  UNCHANGED used
  BY <1>5 DEF MallocSegv, Shrink, ShrinkDone, LibcSbrk, vars
<1> QED
  BY <1>1, <1>2, <1>3, <1>4, <1>5
     DEF Next, Malloc, ShrinkLoop, MallocFirst, MallocExtend

(* The allocator implements Heap: a caller never gets a byte or a pointer  *)
(* that another grant holds, whatever is on the free list.                 *)
THEOREM Refinement == Spec => ImplementsHeap
<1>1. Init => H!Init
  BY DEF Init, H!Init, Grants
<1> QED
  BY <1>1, Invariance, StepRefines, PTL DEF Spec, ImplementsHeap, H!Spec
=============================================================================
