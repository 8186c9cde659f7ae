---------------------------- MODULE MemoryProofs ----------------------------
(***************************************************************************)
(* Physical memory: the page allocator never hands out a page twice and    *)
(* loses none, for any number of CPUs and any memory size and map.         *)
(* Virtual memory: what execve, brk and __morecore promise is mapped, and  *)
(* nothing else, for any page size, any executables and any limits.        *)
(***************************************************************************)
EXTENDS Pmm, Aspace, FiniteSetTheorems, WellFoundedInduction, TLAPS

(* Numbers                                                                 *)

\* A set of naturals that is not empty has a least element.
LEMMA LeastBound ==
  ASSUME NEW S \in SUBSET Nat, S # {}
  PROVE  \E x \in S : \A y \in S : x =< y
<1>1. PICK x \in S : \A y \in S : ~(<<y, x>> \in OpToRel(<, Nat))
  BY NatLessThanWellFounded, WFMin, Zenon
<1>2. ASSUME NEW y \in S, y < x PROVE FALSE
  <2>1. <<y, x>> \in Nat \X Nat /\ <<y, x>>[1] < <<y, x>>[2]
    BY <1>2, Zenon
  <2>2. <<y, x>> \in {p \in Nat \X Nat : p[1] < p[2]}
    BY <2>1, Zenon
  <2> QED
    BY <1>1, <2>2, Zenon DEF OpToRel
<1>3. \A y \in S : x =< y
  BY <1>2
<1> QED
  BY <1>3, Zenon

\* A set of naturals that is not empty and has a bound has a greatest element.
LEMMA GreatestBound ==
  ASSUME NEW n \in Nat, NEW S \in SUBSET (0..n), S # {}
  PROVE  \E x \in S : \A y \in S : y =< x
<1> DEFINE T == {n - x : x \in S}
<1>1. T \in SUBSET Nat /\ T # {}
  <2>1. \A x \in S : n - x \in Nat
    OBVIOUS
  <2> QED
    BY <2>1, Zenon
<1>2. PICK z \in T : \A y \in T : z =< y
  BY <1>1, LeastBound, Zenon
<1>3. PICK x \in S : z = n - x
  BY <1>2, Zenon
<1>4. ASSUME NEW y \in S PROVE y =< x
  <2>1. n - y \in T
    BY Zenon
  <2>2. n - x =< n - y
    BY <1>2, <1>3, <2>1, Zenon
  <2> QED
    BY <2>2
<1> QED
  BY <1>4, Zenon

\* What holds at 0 and goes from each number to the next holds up to the last.
LEMMA Induct ==
  ASSUME NEW N \in Nat, NEW B, 0 \in B, \A k \in 1..N : k - 1 \in B => k \in B
  PROVE  0..N \subseteq B
<1> DEFINE Out == {k \in 0..N : k \notin B}
<1> SUFFICES ASSUME Out # {} PROVE FALSE
  OBVIOUS
<1>1. PICK k \in Out : \A j \in Out : k =< j
  <2>1. Out \in SUBSET Nat
    OBVIOUS
  <2> HIDE DEF Out
  <2> QED
    BY <2>1, LeastBound
<1>2. k \in 0..N /\ k \notin B /\ k # 0
  OBVIOUS
<1>3. k \in 1..N /\ k - 1 \in 0..N /\ ~(k =< k - 1)
  BY <1>2
<1>4. k - 1 \notin Out
  <2> HIDE DEF Out
  <2> QED
    BY <1>1, <1>3
<1>5. k - 1 \in B
  BY <1>3, <1>4
<1> QED
  BY <1>2, <1>3, <1>5

-----------------------------------------------------------------------------
(* The page allocator                                                      *)

\* Least picks an element of the set.
LEMMA LeastInSet ==
  ASSUME NEW S \in SUBSET Nat, S # {}
  PROVE  Least(S) \in S
BY LeastBound, Zenon DEF Least

\* Greatest picks an element of a set that has a bound.
LEMMA GreatestInSet ==
  ASSUME NEW n \in Nat, NEW S \in SUBSET (0..(n - 1)), S # {}
  PROVE  Greatest(S) \in S
<1>1. S \in SUBSET (0..n)
  <2>1. 0..(n - 1) \subseteq 0..n
    OBVIOUS
  <2> QED
    BY <2>1, Zenon
<1> QED
  BY <1>1, GreatestBound, Zenon DEF Greatest

\* The number of whole bitmap words is a natural number.
LEMMA WordsNat == Words \in Nat
<1>1. MemSize \div PageSize \in Nat
  BY SizeAssumption
<1> QED
  BY <1>1, SizeAssumption DEF Words

\* The clear bits of a word are blocks.
LEMMA FreeInBlocks ==
  ASSUME NEW i \in 0..(Words - 1)
  PROVE  FreeIn(i) \in SUBSET Block /\ FreeIn(i) \cap bitmap = {}
<1> SUFFICES ASSUME NEW j \in 0..(WordBits - 1) PROVE i * WordBits + j \in Block
  BY Zenon DEF FreeIn
<1>1. i * WordBits =< (Words - 1) * WordBits
  BY WordsNat, SizeAssumption
<1>2. (Words - 1) * WordBits = Words * WordBits - WordBits
  BY WordsNat, SizeAssumption
<1>3. i * WordBits \in Nat /\ Words * WordBits \in Nat
  BY WordsNat, SizeAssumption
<1>4. i * WordBits + j =< Words * WordBits - 1
  <2> DEFINE a == i * WordBits
             b == Words * WordBits
  <2>1. a =< b - WordBits /\ a \in Nat /\ b \in Nat
    BY <1>1, <1>2, <1>3, Zenon
  <2> HIDE DEF a, b
  <2>2. a + j =< b - 1
    BY <2>1, SizeAssumption
  <2> QED
    BY <2>2, Zenon DEF a, b
<1>5. i * WordBits + j \in Nat
  <2>1. j \in Nat
    BY SizeAssumption
  <2> QED
    BY <1>3, <2>1
<1> QED
  BY <1>3, <1>4, <1>5 DEF Block

\* What the scan of pmm_alloc_block or pmm_alloc_block_from_end finds is a
\* block whose bit is clear.
LEMMA ScanFindsFree ==
  /\ ScanUp = NoBlock \/ ScanUp \in Block \ bitmap
  /\ ScanDown = NoBlock \/ ScanDown \in Block \ bitmap
<1> SUFFICES ASSUME NotFull # {}
             PROVE  Least(FreeIn(Least(NotFull))) \in Block \ bitmap /\ Least(FreeIn(Greatest(NotFull))) \in Block \ bitmap
  BY Zenon DEF ScanUp, ScanDown
<1>1. NotFull \in SUBSET (0..(Words - 1)) /\ NotFull \in SUBSET Nat
  BY WordsNat DEF NotFull
<1>2. Least(NotFull) \in NotFull /\ Greatest(NotFull) \in NotFull
  BY <1>1, WordsNat, LeastInSet, GreatestInSet, Zenon
<1>3. ASSUME NEW i \in NotFull PROVE Least(FreeIn(i)) \in Block \ bitmap
  <2>1. FreeIn(i) # {} /\ FreeIn(i) \in SUBSET Block /\ FreeIn(i) \cap bitmap = {}
    BY <1>1, FreeInBlocks, Zenon DEF NotFull
  <2>2. FreeIn(i) \in SUBSET Nat
    BY <2>1 DEF Block
  <2>3. Least(FreeIn(i)) \in FreeIn(i)
    BY <2>1, <2>2, LeastInSet, Zenon
  <2> QED
    BY <2>1, <2>3, Zenon
<1> QED
  BY <1>2, <1>3, Zenon

\* The blocks reserved by pmm_init are blocks of the bitmap.
LEMMA ClaimedBlocks == Claimed \subseteq Block
<1>1. \A s, e : Claim(s, e) \subseteq Block
  BY Zenon DEF Claim
<1>2. \A i \in DOMAIN Regions : RegionClaim(i) \subseteq Block
  BY <1>1, Zenon DEF RegionClaim
<1>3. UNION {RegionClaim(i) : i \in DOMAIN Regions} \subseteq Block
  BY <1>2, Zenon
<1> QED
  BY <1>1, <1>3, Zenon DEF Claimed

\* A free block number is not the failure value.
LEMMA NoBlockFacts == NoBlock \notin Block
BY DEF NoBlock, Block

\* After pmm_init exactly the reserved blocks are taken.
LEMMA InitPmmInv == Init => PmmInv
<1> SUFFICES ASSUME Init PROVE PmmInv
  BY Zenon
<1> USE CpuAssumption DEF Init
<1>1. TypeOK
  BY ClaimedBlocks, SizeAssumption DEF TypeOK, Pc
<1>2. LockOwner /\ PickStillFree
  BY Zenon DEF LockOwner, PickStillFree, InLockPc
<1>3. NoDoubleAlloc /\ NoLeak
  BY Zenon DEF NoDoubleAlloc, NoLeak, Granting, Returning
<1> QED
  BY <1>1, <1>2, <1>3, Zenon DEF PmmInv

\* Every step of every CPU preserves the invariant.
LEMMA NextPmmInv == PmmInv /\ [Next]_vars => PmmInv'
<1> SUFFICES ASSUME PmmInv, [Next]_vars PROVE PmmInv'
  BY Zenon
<1> USE CpuAssumption, NoBlockFacts, ClaimedBlocks DEF PmmInv, TypeOK, Goto
<1>1. ASSUME NEW c \in Cpu, NEW p \in {"alloc", "alloc_end"}, CallAlloc(c, p) PROVE PmmInv'
  <2> USE <1>1 DEF CallAlloc
  <2>1. TypeOK' /\ LockOwner' /\ PickStillFree'
    BY Zenon DEF LockOwner, PickStillFree, InLockPc, Pc
  <2>2. NoDoubleAlloc' /\ NoLeak'
    BY DEF NoDoubleAlloc, NoLeak, Granting, Returning
  <2> QED
    BY <2>1, <2>2, Zenon
<1>2. ASSUME NEW c \in Cpu, NEW b \in Block, CallFree(c, b) PROVE PmmInv'
  <2> USE <1>2 DEF CallFree
  <2>1. TypeOK' /\ LockOwner' /\ PickStillFree'
    BY Zenon DEF LockOwner, PickStillFree, InLockPc, Pc
  <2>2. NoDoubleAlloc'
    BY DEF NoDoubleAlloc, Granting, Returning
  <2>3. NoLeak'
    BY DEF NoLeak, Granting, Returning
  <2> QED
    BY <2>1, <2>2, <2>3, Zenon
<1>3. ASSUME NEW c \in Cpu, Lock(c) PROVE PmmInv'
  <2> USE <1>3 DEF Lock
  <2>1. TypeOK' /\ LockOwner' /\ PickStillFree'
    BY Zenon DEF LockOwner, PickStillFree, InLockPc, Pc, LockIsFree
  <2>2. NoDoubleAlloc'
    BY DEF NoDoubleAlloc, Granting, Returning
  <2>3. NoLeak'
    BY DEF NoLeak, Granting, Returning
  <2> QED
    BY <2>1, <2>2, <2>3, Zenon
<1>4. ASSUME NEW c \in Cpu, Scan(c) PROVE PmmInv'
  <2> USE <1>4 DEF Scan
  <2>1. blk'[c] = NoBlock \/ blk'[c] \in Block \ bitmap
    BY ScanFindsFree, Zenon
  <2>2. TypeOK' /\ LockOwner' /\ PickStillFree'
    BY <2>1, Zenon DEF LockOwner, PickStillFree, InLockPc, Pc
  <2>3. NoDoubleAlloc'
    BY DEF NoDoubleAlloc, Granting, Returning
  <2>4. NoLeak'
    BY DEF NoLeak, Granting, Returning
  <2> QED
    BY <2>2, <2>3, <2>4, Zenon
<1>5. ASSUME NEW c \in Cpu, Mark(c) PROVE PmmInv'
  <2> USE <1>5 DEF Mark, Unlock
  <2>1. TypeOK' /\ LockOwner'
    BY Zenon DEF LockOwner, InLockPc, Pc
  <2>2. PickStillFree'
    BY Zenon DEF PickStillFree, LockOwner, InLockPc
  <2>3. NoDoubleAlloc'
    BY DEF NoDoubleAlloc, PickStillFree, Granting, Returning
  <2>4. NoLeak'
    BY DEF NoLeak, Granting, Returning
  <2> QED
    BY <2>1, <2>2, <2>3, <2>4, Zenon
<1>6. ASSUME NEW c \in Cpu, OutOfMemory(c) PROVE PmmInv'
  <2> USE <1>6 DEF OutOfMemory
  <2>1. TypeOK' /\ LockOwner' /\ PickStillFree'
    BY Zenon DEF LockOwner, PickStillFree, InLockPc, Pc
  <2>2. NoDoubleAlloc' /\ NoLeak'
    BY DEF NoDoubleAlloc, NoLeak, Granting, Returning
  <2> QED
    BY <2>1, <2>2, Zenon
<1>7. ASSUME NEW c \in Cpu, ReadUsed(c) PROVE PmmInv'
  <2> USE <1>7 DEF ReadUsed
  <2>1. TypeOK' /\ LockOwner' /\ PickStillFree'
    BY Zenon DEF LockOwner, PickStillFree, InLockPc, Pc
  <2>2. NoDoubleAlloc' /\ NoLeak'
    BY DEF NoDoubleAlloc, NoLeak, Granting, Returning
  <2> QED
    BY <2>1, <2>2, Zenon
<1>8. ASSUME NEW c \in Cpu, AllocReturn(c) PROVE PmmInv'
  <2> USE <1>8 DEF AllocReturn
  <2>1. used' \in 0..(UsedMod - 1) /\ 0 \in 0..(UsedMod - 1)
    BY SizeAssumption
  <2>2. blk[c] # NoBlock
    BY Zenon DEF NoDoubleAlloc, Granting
  <2>3. TypeOK' /\ LockOwner' /\ PickStillFree'
    BY <2>1, <2>2, Zenon DEF LockOwner, PickStillFree, InLockPc, Pc
  <2>4. NoDoubleAlloc' /\ NoLeak'
    BY <2>2 DEF NoDoubleAlloc, NoLeak, Granting, Returning
  <2> QED
    BY <2>3, <2>4, Zenon
<1>9. ASSUME NEW c \in Cpu, Clear(c) PROVE PmmInv'
  <2> USE <1>9 DEF Clear, Unlock, BitCleared
  <2>1. TypeOK' /\ LockOwner'
    BY Zenon DEF LockOwner, InLockPc, Pc
  <2>2. PickStillFree'
    BY Zenon DEF PickStillFree
  <2>3. NoDoubleAlloc'
    BY DEF NoDoubleAlloc, Granting, Returning
  <2>4. NoLeak'
    BY DEF NoLeak, Granting, Returning
  <2> QED
    BY <2>1, <2>2, <2>3, <2>4, Zenon
<1>10. ASSUME NEW c \in Cpu, FreeReturn(c) PROVE PmmInv'
  <2> USE <1>10 DEF FreeReturn
  <2>1. used' \in 0..(UsedMod - 1) /\ 0 \in 0..(UsedMod - 1)
    BY SizeAssumption
  <2>2. TypeOK' /\ LockOwner' /\ PickStillFree'
    BY <2>1, Zenon DEF LockOwner, PickStillFree, InLockPc, Pc
  <2>3. NoDoubleAlloc' /\ NoLeak'
    BY DEF NoDoubleAlloc, NoLeak, Granting, Returning
  <2> QED
    BY <2>2, <2>3, Zenon
<1>11. CASE UNCHANGED vars
  BY <1>11 DEF vars, LockOwner, PickStillFree, NoDoubleAlloc, NoLeak, Granting, Returning
<1> QED
  BY <1>1, <1>2, <1>3, <1>4, <1>5, <1>6, <1>7, <1>8, <1>9, <1>10, <1>11, Zenon DEF Next, Call, Run

\* The allocator's invariant holds in every reachable state.
THEOREM PmmSafe == Spec => []PmmInv
BY InitPmmInv, NextPmmInv, PTL DEF Spec

\* pmm_alloc_block and pmm_alloc_block_from_end never return a page that is
\* reserved, owned, or on its way to another caller.
THEOREM PagesNeverShared == Spec => []NoDoubleAlloc
<1>1. PmmInv => NoDoubleAlloc
  BY Zenon DEF PmmInv
<1> QED
  BY PmmSafe, <1>1, PTL

\* A page whose bit is set is reserved, owned or in a call: none is lost.
THEOREM PagesNeverLeak == Spec => []NoLeak
<1>1. PmmInv => NoLeak
  BY Zenon DEF PmmInv
<1> QED
  BY PmmSafe, <1>1, PTL

-----------------------------------------------------------------------------
(* Pages and addresses                                                     *)

\* The size of a page, and the place of the kernel heap
LEMMA Sizes ==
  /\ P \in Nat /\ P >= 2 /\ Frames \in Nat /\ MaxBrk \in Nat /\ MaxHeap \in Nat /\ MaxMore \in Nat
  /\ HeapBase \in Nat /\ HeapBase > 0 /\ Prealloc \in Nat /\ Prealloc > 0 /\ Stack \in Nat /\ Stack > 0
  /\ HeapBase % P = 0 /\ Prealloc % P = 0 /\ MaxBrk + P =< HeapBase
BY AspaceAssumption

\* An address is in its page, and in no other.
LEMMA PageBounds ==
  ASSUME NEW a \in Nat
  PROVE  /\ PageOf(a) \in Nat /\ PageOf(a) * P \in Nat
         /\ PageOf(a) * P =< a /\ a < PageOf(a) * P + P
<1>1. P \in Nat /\ P > 0
  BY Sizes
<1>2. ASSUME NEW q \in Nat PROVE \A d \in Nat : d > 0 => LET e == q \div d IN e \in Nat /\ e * d \in Nat /\ e * d =< q /\ q < e * d + d
  OBVIOUS
<1> QED
  BY <1>1, <1>2 DEF PageOf

\* Pages do not overlap.
LEMMA Multiples ==
  ASSUME NEW x \in Nat, NEW y \in Nat, NEW d \in Nat, x < y
  PROVE  x * d \in Nat /\ y * d \in Nat /\ x * d + d =< y * d
<1>1. PICK z \in Nat : y = x + 1 + z
  <2>1. y - x - 1 \in Nat /\ y = x + 1 + (y - x - 1)
    OBVIOUS
  <2> QED
    BY <2>1
<1>2. (x + 1 + z) * d = x * d + d + z * d /\ z * d \in Nat /\ x * d \in Nat
  OBVIOUS
<1> QED
  BY <1>1, <1>2

\* There is one page for each address.
LEMMA PageUnique ==
  ASSUME NEW a \in Nat, NEW q \in Nat, q * P =< a, a < q * P + P
  PROVE  PageOf(a) = q
<1>1. PICK e \in Nat : e = PageOf(a) /\ e * P \in Nat /\ e * P =< a /\ a < e * P + P
  BY PageBounds, Zenon
<1>2. P \in Nat /\ P > 0
  BY Sizes
<1>3. q * P \in Nat
  BY <1>2
<1>4. ~(e < q)
  BY <1>1, <1>2, <1>3, Multiples
<1>5. ~(q < e)
  BY <1>1, <1>2, <1>3, Multiples
<1> QED
  BY <1>1, <1>4, <1>5

\* Pages follow each other as their addresses do.
LEMMA PageMonotone ==
  ASSUME NEW a \in Nat, NEW b \in Nat, a =< b
  PROVE  PageOf(a) =< PageOf(b)
<1>1. PICK e \in Nat : e = PageOf(a) /\ e * P \in Nat /\ e * P =< a /\ a < e * P + P
  BY PageBounds, Zenon
<1>2. PICK f \in Nat : f = PageOf(b) /\ f * P \in Nat /\ f * P =< b /\ b < f * P + P
  BY PageBounds, Zenon
<1>3. P \in Nat /\ P > 0
  BY Sizes
<1>4. ~(f < e)
  BY <1>1, <1>2, <1>3, Multiples
<1> QED
  BY <1>1, <1>2, <1>4

\* One page further on is the next page.
LEMMA PageNext ==
  ASSUME NEW a \in Nat
  PROVE  PageOf(a + P) = PageOf(a) + 1
<1>1. PICK e \in Nat : e = PageOf(a) /\ e * P \in Nat /\ e * P =< a /\ a < e * P + P
  BY PageBounds, Zenon
<1>2. P \in Nat /\ P > 0
  BY Sizes
<1>3. (e + 1) * P = e * P + P
  BY <1>2
<1>4. a + P \in Nat /\ e + 1 \in Nat /\ (e + 1) * P =< a + P /\ a + P < (e + 1) * P + P
  BY <1>1, <1>2, <1>3
<1> QED
  BY <1>1, <1>4, PageUnique

\* A page boundary is the first address of its page.
LEMMA Boundary ==
  ASSUME NEW a \in Nat, a % P = 0
  PROVE  /\ PageOf(a) * P = a
         /\ a > 0 => PageOf(a - 1) = PageOf(a) - 1
         /\ \A x \in Nat : x < a => PageOf(x) < PageOf(a)
<1>1. PICK e \in Nat : e = PageOf(a) /\ e * P \in Nat /\ e * P =< a /\ a < e * P + P
  BY PageBounds, Zenon
<1>2. P \in Nat /\ P > 0
  BY Sizes
<1>3. ASSUME NEW q \in Nat, NEW d \in Nat, d > 0, q % d = 0 PROVE (q \div d) * d = q
  BY <1>3
<1>4. e * P = a
  BY <1>1, <1>2, <1>3 DEF PageOf
<1>5. ASSUME NEW x \in Nat, x < a PROVE PageOf(x) < PageOf(a)
  <2>1. PICK f \in Nat : f = PageOf(x) /\ f * P \in Nat /\ f * P =< x /\ x < f * P + P
    BY PageBounds, Zenon
  <2>2. ~(e < f) /\ e # f
    BY <1>1, <1>2, <1>4, <1>5, <2>1, Multiples
  <2> QED
    BY <1>1, <2>1, <2>2
<1>6. ASSUME a > 0 PROVE PageOf(a - 1) = PageOf(a) - 1
  <2>1. e # 0
    BY <1>2, <1>4, <1>6
  <2>2. e - 1 \in Nat /\ e - 1 < e
    BY <2>1
  <2>3. (e - 1) * P = e * P - P
    BY <1>2
  <2>4. a - 1 \in Nat /\ (e - 1) * P =< a - 1 /\ a - 1 < (e - 1) * P + P
    BY <1>2, <1>4, <1>6, <2>3
  <2>5. PageOf(a - 1) = e - 1
    BY <2>2, <2>4, PageUnique
  <2> QED
    BY <1>1, <2>5
<1> QED
  BY <1>1, <1>4, <1>5, <1>6

\* Multiples of the page size are page boundaries.
LEMMA AtBoundary ==
  ASSUME NEW q \in Nat
  PROVE  q * P \in Nat /\ (q * P) % P = 0 /\ PageOf(q * P) = q
<1>1. P \in Nat /\ P > 0
  BY Sizes
<1>2. ASSUME NEW e \in Nat, NEW d \in Nat, d > 0 PROVE e * d \in Nat /\ (e * d) % d = 0 /\ (e * d) \div d = e
  BY <1>2
<1> QED
  BY <1>1, <1>2 DEF PageOf

\* Sums of page boundaries are page boundaries.
LEMMA SumBoundary ==
  ASSUME NEW a \in Nat, NEW b \in Nat, a % P = 0, b % P = 0
  PROVE  (a + b) % P = 0 /\ PageOf(a + b) = PageOf(a) + PageOf(b)
<1>1. PICK e \in Nat : e = PageOf(a) /\ e * P = a
  BY PageBounds, Boundary
<1>2. PICK f \in Nat : f = PageOf(b) /\ f * P = b
  BY PageBounds, Boundary
<1>3. P \in Nat
  BY Sizes
<1>4. (e + f) * P = a + b /\ e + f \in Nat
  BY <1>1, <1>2, <1>3
<1> QED
  BY <1>1, <1>2, <1>4, AtBoundary

\* Rounding up to whole pages gives the least page boundary that is not below.
LEMMA IncrementFacts ==
  ASSUME NEW n \in Nat
  PROVE  /\ Increment(n) \in Nat /\ n =< Increment(n) /\ Increment(n) < n + P
         /\ Increment(n) % P = 0
<1>1. P \in Nat /\ P > 0
  BY Sizes
<1>2. n + P - 1 \in Nat
  BY <1>1
<1>3. PICK e \in Nat : e = PageOf(n + P - 1) /\ e * P \in Nat /\ e * P =< n + P - 1 /\ n + P - 1 < e * P + P
  BY <1>2, PageBounds, Zenon
<1>4. Increment(n) = e * P
  BY <1>3 DEF Increment, RoundUp, PageOf
<1>5. (e * P) % P = 0
  BY AtBoundary
<1> QED
  BY <1>1, <1>3, <1>4, <1>5

\* Of a page boundary less one byte it is that boundary.
LEMMA IncrementExact ==
  ASSUME NEW n \in Nat, n > 0, n % P = 0
  PROVE  Increment(n - 1) = n /\ Increment(n) = n
<1>1. P \in Nat /\ P >= 2
  BY Sizes
<1>2. PICK e \in Nat : e = PageOf(n) /\ e * P = n
  BY PageBounds, Boundary
<1>3. n - 1 + P - 1 \in Nat /\ e * P =< n - 1 + P - 1 /\ n - 1 + P - 1 < e * P + P
  BY <1>1, <1>2
<1>4. n + P - 1 \in Nat /\ e * P =< n + P - 1 /\ n + P - 1 < e * P + P
  BY <1>1, <1>2
<1>5. PageOf(n - 1 + P - 1) = e /\ PageOf(n + P - 1) = e
  BY <1>3, <1>4, PageUnique
<1> QED
  BY <1>2, <1>5 DEF Increment, RoundUp, PageOf

\* A page boundary other than 0 is a page away from it.
LEMMA BoundaryAway ==
  ASSUME NEW n \in Nat, n > 0, n % P = 0
  PROVE  P =< n
<1>1. PICK e \in Nat : e = PageOf(n) /\ e * P = n
  BY PageBounds, Boundary
<1>2. P \in Nat /\ 0 * P = 0
  BY Sizes
<1>3. 0 < e
  BY <1>1, <1>2
<1> QED
  BY <1>1, <1>2, <1>3, Multiples

\* The pages of a range of addresses, from the first to the last
LEMMA PagesOfRange ==
  ASSUME NEW from \in Nat, NEW to \in Nat
  PROVE  /\ from < to => PagesOf(from, to) = PageOf(from)..PageOf(to - 1)
         /\ ~(from < to) => PagesOf(from, to) = {}
<1>1. ASSUME ~(from < to) PROVE PagesOf(from, to) = {}
  <2>1. Bytes(from, to) = {}
    BY <1>1 DEF Bytes
  <2> QED
    BY <2>1, Zenon DEF PagesOf
<1>2. ASSUME from < to PROVE PagesOf(from, to) = PageOf(from)..PageOf(to - 1)
  <2>0. to - 1 \in Nat /\ from =< to - 1
    BY <1>2
  <2>1. ASSUME NEW a \in Bytes(from, to) PROVE PageOf(a) \in PageOf(from)..PageOf(to - 1)
    <3>1. a \in Nat /\ from =< a /\ a =< to - 1
      BY <2>0 DEF Bytes
    <3> QED
      BY <2>0, <3>1, PageMonotone, PageBounds
  <2>2. ASSUME NEW q \in PageOf(from)..PageOf(to - 1) PROVE \E a \in Bytes(from, to) : PageOf(a) = q
    <3>1. PICK e \in Nat : e = PageOf(from) /\ e * P =< from /\ from < e * P + P /\ e * P \in Nat
      BY PageBounds, Zenon
    <3>2. PICK f \in Nat : f = PageOf(to - 1) /\ f * P =< to - 1 /\ f * P \in Nat
      BY <2>0, PageBounds, Zenon
    <3>3. q \in Nat /\ e =< q /\ q =< f
      BY <3>1, <3>2
    <3>4. CASE q = e
      <4>1. from \in Bytes(from, to)
        BY <2>0 DEF Bytes
      <4> QED
        BY <3>1, <3>4, <4>1
    <3>5. CASE q # e
      <4>1. P \in Nat /\ e < q
        BY <3>3, <3>5, Sizes
      <4>2. q * P \in Nat /\ e * P + P =< q * P
        BY <3>1, <3>3, <4>1, Multiples
      <4>3. q * P =< f * P
        BY <3>2, <3>3, <4>1, Multiples
      <4>4. from =< q * P /\ q * P =< to - 1
        BY <3>1, <3>2, <4>1, <4>2, <4>3
      <4>5. q * P \in Bytes(from, to)
        BY <4>2, <4>4 DEF Bytes
      <4> QED
        BY <3>3, <4>5, AtBoundary
    <3> QED
      BY <3>4, <3>5
  <2> QED
    BY <2>1, <2>2, Zenon DEF PagesOf
<1> QED
  BY <1>1, <1>2

\* The pages of a part of a range are pages of the range.
LEMMA PagesOfPart ==
  ASSUME NEW a \in Nat, NEW b \in Nat, NEW from \in Nat, NEW to \in Nat, from =< a, b =< to
  PROVE  PagesOf(a, b) \subseteq PagesOf(from, to)
<1>1. \A x \in Bytes(a, b) : x \in Bytes(from, to)
  BY DEF Bytes
<1> QED
  BY <1>1, Zenon DEF PagesOf

-----------------------------------------------------------------------------
(* The page tables                                                         *)

\* The page tables that a sequence of calls passes on
IsTables(m) == m = [mapped |-> m.mapped, size |-> m.size, panic |-> m.panic]

\* aspace->size counts the pages
Counted(m) == IsFiniteSet(m.mapped) /\ m.size = Cardinality(m.mapped)

\* The pages of a call are finitely many.
LEMMA FiniteRange ==
  ASSUME NEW a \in Nat, NEW b \in Nat
  PROVE  /\ IsFiniteSet(PageOf(a)..PageOf(b))
         /\ IsFiniteSet(PageOf(a)..(PageOf(b) - 1))
<1>1. PICK e \in Nat : e = PageOf(a)
  BY PageBounds, Zenon
<1>2. PICK f \in Nat : f = PageOf(b)
  BY PageBounds, Zenon
<1>3. e \in Int /\ f \in Int /\ f - 1 \in Int
  OBVIOUS
<1>4. IsFiniteSet(e..f) /\ IsFiniteSet(e..(f - 1))
  BY <1>3, FS_Interval, Zenon
<1> QED
  BY <1>1, <1>2, <1>4, Zenon

\* The outcome r of arch_mmap
MapOutcome(m, a, n, r) ==
  /\ IsTables(r) /\ r.panic \in {"none", "used", "nomem"}
  /\ r.panic = "used" => MapPages(a, n) \cap m.mapped # {}
  /\ r.panic = "none" => Counted(r) /\ r.mapped = m.mapped \cup MapPages(a, n)

\* What arch_mmap does: it stops at a page in use or when there is no frame, or maps
\* all its pages and counts them.
LEMMA MapFacts ==
  ASSUME NEW m, IsTables(m), m.panic = "none", Counted(m), NEW a \in Nat, NEW n \in Nat, n # 0,
         NEW r, r = arch_mmap(m, a, n)
  PROVE  MapOutcome(m, a, n, r)
<1> USE DEF MapOutcome
<1>1. PICK new : new = MapPages(a, n)
  BY Zenon
<1>2. IsFiniteSet(new)
  <2>1. a + n \in Nat
    OBVIOUS
  <2> QED
    BY <1>1, <2>1, FiniteRange, Zenon DEF MapPages
<1>3. IsFiniteSet(m.mapped) /\ m.size = Cardinality(m.mapped)
  BY Zenon DEF Counted
<1>4. CASE new \cap m.mapped # {}
  <2>1. r = [m EXCEPT !.panic = "used"]
    BY <1>1, <1>4, Zenon DEF arch_mmap
  <2>2. IsTables(r) /\ r.panic = "used"
    BY <2>1 DEF IsTables
  <2> QED
    BY <1>1, <1>4, <2>2
<1>5. CASE new \cap m.mapped = {}
  <2>1. Cardinality(new \cup m.mapped) = Cardinality(m.mapped) + Cardinality(new) /\ IsFiniteSet(new \cup m.mapped)
    <3>1. Cardinality(new \cap m.mapped) = 0
      BY <1>5, FS_EmptySet, Zenon
    <3>2. Cardinality(new \cup m.mapped) = Cardinality(new) + Cardinality(m.mapped) - Cardinality(new \cap m.mapped)
          /\ IsFiniteSet(new \cup m.mapped)
      BY <1>2, <1>3, FS_Union, Zenon
    <3>3. Cardinality(new) \in Nat /\ Cardinality(m.mapped) \in Nat
      BY <1>2, <1>3, FS_CardinalityType, Zenon
    <3> QED
      BY <3>1, <3>2, <3>3
  <2>2. \/ r = [m EXCEPT !.panic = "nomem"]
        \/ r = [m EXCEPT !.mapped = @ \cup new, !.size = @ + Cardinality(new)]
    BY <1>1, <1>5, Zenon DEF arch_mmap
  <2>3. CASE r = [m EXCEPT !.panic = "nomem"]
    BY <2>3 DEF IsTables
  <2>4. CASE r = [m EXCEPT !.mapped = @ \cup new, !.size = @ + Cardinality(new)]
    <3>1. IsTables(r) /\ r.panic = "none" /\ r.mapped = m.mapped \cup new /\ r.size = m.size + Cardinality(new)
      BY <2>4 DEF IsTables
    <3>2. m.mapped \cup new = new \cup m.mapped
      BY Zenon
    <3>3. Counted(r)
      BY <1>3, <2>1, <3>1, <3>2, Zenon DEF Counted
    <3> QED
      BY <1>1, <3>1, <3>3
  <2> QED
    BY <2>2, <2>3, <2>4, Zenon
<1> QED
  BY <1>4, <1>5, Zenon

\* The outcome r of arch_munmap
UnmapOutcome(m, a, n, r) ==
  /\ IsTables(r) /\ r.panic \in {"none", "length", "unmapped"}
  /\ r.panic = "none" => Counted(r) /\ r.mapped = m.mapped \ UnmapPages(a, n)

\* What arch_munmap does: it stops at a page that is not mapped, or unmaps all its
\* pages and counts them.
LEMMA UnmapFacts ==
  ASSUME NEW m, IsTables(m), m.panic = "none", Counted(m), NEW a \in Nat, NEW n \in Nat,
         NEW r, r = arch_munmap(m, a, n)
  PROVE  UnmapOutcome(m, a, n, r)
<1> USE DEF UnmapOutcome
<1>1. PICK old : old = UnmapPages(a, n)
  BY Zenon
<1>2. IsFiniteSet(m.mapped) /\ m.size = Cardinality(m.mapped)
  BY Zenon DEF Counted
<1>3. \/ r = [m EXCEPT !.panic = "length"]
      \/ r = [m EXCEPT !.panic = "unmapped"]
      \/ old \subseteq m.mapped /\ r = [m EXCEPT !.mapped = @ \ old, !.size = @ - Cardinality(old)]
  BY <1>1, Zenon DEF arch_munmap
<1>4. CASE r = [m EXCEPT !.panic = "length"]
  BY <1>4 DEF IsTables
<1>5. CASE r = [m EXCEPT !.panic = "unmapped"]
  BY <1>5 DEF IsTables
<1>6. CASE old \subseteq m.mapped /\ r = [m EXCEPT !.mapped = @ \ old, !.size = @ - Cardinality(old)]
  <2>1. IsTables(r) /\ r.panic = "none" /\ r.mapped = m.mapped \ old /\ r.size = m.size - Cardinality(old)
    BY <1>6 DEF IsTables
  <2>2. m.mapped \cap old = old
    BY <1>6, Zenon
  <2>3. IsFiniteSet(m.mapped \ old) /\ Cardinality(m.mapped \ old) = Cardinality(m.mapped) - Cardinality(old)
    <3>1. IsFiniteSet(m.mapped \ old)
          /\ Cardinality(m.mapped \ old) = Cardinality(m.mapped) - Cardinality(m.mapped \cap old)
      BY <1>2, FS_Difference, Zenon
    <3> QED
      BY <2>2, <3>1, Zenon
  <2>4. Counted(r)
    BY <1>2, <2>1, <2>3, Zenon DEF Counted
  <2> QED
    BY <1>1, <2>1, <2>4
<1> QED
  BY <1>3, <1>4, <1>5, <1>6, Zenon

-----------------------------------------------------------------------------
(* Executables                                                             *)

\* The headers of an executable, and its size in memory
LEMMA HeaderFacts ==
  ASSUME NEW p \in Program, NEW k \in 1..Len(p), NEW h, h = p[k]
  PROVE  /\ h.vaddr \in Nat /\ h.vaddr > 0 /\ h.memsz \in Nat /\ h.memsz > 0 /\ h.type \in {"load", "tls"}
         /\ Size(h) \in Nat /\ h.memsz =< Size(h) /\ Size(h) < h.memsz + P
         /\ h.type = "load" => Size(h) % P = 0
<1>1. p \in Seq([type : {"load", "tls"}, vaddr : Nat \ {0}, memsz : Nat \ {0}, align : {1, P}])
  BY ProgramAssumption, Zenon
<1>2. h \in [type : {"load", "tls"}, vaddr : Nat \ {0}, memsz : Nat \ {0}, align : {1, P}]
  <2>1. PICK H : H = [type : {"load", "tls"}, vaddr : Nat \ {0}, memsz : Nat \ {0}, align : {1, P}]
    BY Zenon
  <2>2. p \in Seq(H)
    BY <1>1, <2>1, Zenon
  <2>3. h \in H
    BY <2>2
  <2> QED
    BY <2>1, <2>3, Zenon
<1>3. /\ h.vaddr \in Nat /\ h.vaddr > 0 /\ h.memsz \in Nat /\ h.memsz > 0 /\ h.type \in {"load", "tls"}
      /\ h.align \in {1, P}
  BY <1>2
<1>4. h.type = "load" => h.align = P
  <2>1. k \in DOMAIN p
    BY <1>1
  <2> QED
    BY <2>1, ProgramAssumption, Zenon
<1>5. CASE h.align = P
  <2>1. Size(h) = Increment(h.memsz)
    BY <1>5, Zenon DEF Size, Increment
  <2> QED
    BY <1>3, <2>1, IncrementFacts
<1>6. CASE h.align = 1
  <2>1. PICK n \in Nat : n = h.memsz
    BY <1>3
  <2>2. ((n + 1 - 1) \div 1) * 1 = n
    OBVIOUS
  <2>3. Size(h) = n
    BY <1>6, <2>1, <2>2, Zenon DEF Size, RoundUp
  <2>4. P \in Nat /\ P > 1
    BY Sizes
  <2>5. h.type # "load"
    BY <1>4, <1>6, <2>4
  <2> QED
    BY <1>3, <2>1, <2>3, <2>4, <2>5
<1> QED
  BY <1>3, <1>5, <1>6

\* The headers of a program as a sequence
LEMMA ProgramSeq ==
  ASSUME NEW p \in Program
  PROVE  Len(p) \in Nat /\ DOMAIN p = 1..Len(p) /\ p # <<>>
<1>1. p \in Seq([type : {"load", "tls"}, vaddr : Nat \ {0}, memsz : Nat \ {0}, align : {1, P}])
  BY ProgramAssumption, Zenon
<1>2. PICK k \in DOMAIN p : p[k].type = "load"
  BY ProgramAssumption, Zenon
<1>3. Len(p) \in Nat /\ DOMAIN p = 1..Len(p)
  BY <1>1
<1>4. p # <<>>
  BY <1>2
<1> QED
  BY <1>3, <1>4, Zenon

\* The image ends where its last segment does.
LEMMA ImageEndFacts ==
  ASSUME NEW p \in Program
  PROVE  /\ ImageEnd(p) \in Nat
         /\ \A k \in 1..Len(p) : p[k].type = "load" => p[k].vaddr + Size(p[k]) =< ImageEnd(p)
<1>1. PICK N \in Nat : N = Len(p) /\ DOMAIN p = 1..N
  BY ProgramSeq, Zenon
<1>2. \A k \in 1..N : p[k].vaddr \in Nat /\ Size(p[k]) \in Nat
  BY <1>1, HeaderFacts, Zenon
<1> DEFINE End(k) == p[k].vaddr + Size(p[k])
           B == {m \in 0..N : \E b \in Nat : \A k \in 1..m : End(k) =< b}
<1>3. \A k \in 1..N : End(k) \in Nat
  BY <1>2
<1> HIDE DEF End
<1>4. 0 \in B
  OBVIOUS
<1>5. ASSUME NEW m \in 1..N, m - 1 \in B PROVE m \in B
  <2>1. PICK b \in Nat : \A k \in 1..(m - 1) : End(k) =< b
    BY <1>5
  <2>2. End(m) \in Nat
    BY <1>3
  <2>3. ASSUME NEW k \in 1..m PROVE End(k) =< b + End(m)
    <3>1. CASE k = m
      BY <2>2, <3>1
    <3>2. CASE k # m
      <4>1. k \in 1..(m - 1) /\ k \in 1..N
        BY <3>2
      <4>2. End(k) =< b /\ End(k) \in Nat
        BY <1>3, <2>1, <4>1
      <4> QED
        BY <2>2, <4>2
    <3> QED
      BY <3>1, <3>2
  <2>4. b + End(m) \in Nat /\ m \in 0..N
    BY <2>2
  <2> QED
    BY <2>3, <2>4
<1>6. PICK b \in Nat : \A k \in 1..N : End(k) =< b
  <2> HIDE DEF B
  <2>1. 0..N \subseteq B
    BY <1>4, <1>5, Induct
  <2>2. N \in B
    BY <2>1
  <2> QED
    BY <2>2 DEF B
<1> DEFINE S == {h.vaddr + Size(h) : h \in {x \in Range(p) : x.type = "load"}}
<1>7. S = {End(k) : k \in {j \in 1..N : p[j].type = "load"}}
  BY <1>1, Zenon DEF End, Range
<1>8. S \in SUBSET (0..b)
  <2>1. \A k \in 1..N : End(k) \in 0..b
    BY <1>3, <1>6
  <2> HIDE DEF S
  <2> QED
    BY <1>7, <2>1, Zenon
<1>9. S # {}
  <2>1. \E k \in DOMAIN p : p[k].type = "load"
    BY ProgramAssumption, Zenon
  <2> HIDE DEF S
  <2> QED
    BY <1>1, <1>7, <2>1, Zenon
<1>10. PICK e : e = ImageEnd(p) /\ e = CHOOSE x \in S : \A y \in S : x >= y
  BY Zenon DEF ImageEnd, Max
<1> HIDE DEF S
<1>11. \E x \in S : \A y \in S : x >= y
  <2>1. PICK x \in S : \A y \in S : y =< x
    BY <1>8, <1>9, GreatestBound, Zenon
  <2>2. \A y \in S : x >= y
    BY <1>8, <2>1
  <2> QED
    BY <2>2, Zenon
<1>12. e \in S /\ \A y \in S : e >= y
  BY <1>10, <1>11, Zenon
<1>13. e \in Nat
  BY <1>8, <1>12
<1>14. ASSUME NEW k \in 1..N, p[k].type = "load" PROVE End(k) =< e
  <2>1. End(k) \in S
    BY <1>7, <1>14, Zenon
  <2> QED
    BY <1>3, <1>12, <1>13, <2>1
<1> QED
  BY <1>1, <1>10, <1>13, <1>14, Zenon DEF End

\* The layout of a program: the image, the heap behind it on a page of its own, and
\* the kernel heap above both.
LEMMA Layout ==
  ASSUME NEW p \in Program
  PROVE  /\ BrkStart(p) \in Nat /\ BrkStart(p) > 0 /\ BrkStart(p) % P = 0
         /\ BrkStart(p) + Increment(Stack) < HeapBase
         /\ \A k \in 1..Len(p) :
              /\ p[k].vaddr + Size(p[k]) < HeapBase
              /\ p[k].type = "load" => p[k].vaddr + Size(p[k]) < BrkStart(p)
<1>1. PICK e \in Nat : e = ImageEnd(p)
  BY ImageEndFacts, Zenon
<1>2. PICK q \in Nat : q = PageOf(e) /\ q * P \in Nat /\ q * P =< e /\ e < q * P + P
  BY PageBounds, Zenon
<1>3. P \in Nat /\ P >= 2 /\ Stack \in Nat /\ Stack > 0 /\ HeapBase \in Nat
  BY Sizes
<1>4. PICK b \in Nat : b = BrkStart(p) /\ b = q * P + P
  <2>1. BrkStart(p) = q * P + P
    BY <1>1, <1>2, Zenon DEF BrkStart
  <2>2. q * P + P \in Nat
    BY <1>2, <1>3
  <2> QED
    BY <2>1, <2>2, Zenon
<1>4a. e < b /\ b > 0
  BY <1>2, <1>3, <1>4
<1>5. b % P = 0
  <2>1. b = (q + 1) * P /\ q + 1 \in Nat
    BY <1>3, <1>4
  <2> QED
    BY <2>1, AtBoundary
<1>6. PICK i \in Nat : i = Increment(Stack) /\ P =< i
  <2>1. Increment(Stack) \in Nat /\ Stack =< Increment(Stack) /\ Increment(Stack) % P = 0
    BY <1>3, IncrementFacts, Zenon
  <2>2. Increment(Stack) > 0
    BY <1>3, <2>1
  <2> QED
    BY <2>1, <2>2, BoundaryAway, Zenon
<1>7. b + i < HeapBase
  BY <1>4, <1>6, ProgramAssumption, Zenon
<1>8. ASSUME NEW k \in 1..Len(p), p[k].type = "load" PROVE p[k].vaddr + Size(p[k]) =< e
  BY <1>1, <1>8, ImageEndFacts, Zenon
<1>9. ASSUME NEW k \in 1..Len(p), p[k].type = "load"
      PROVE  p[k].vaddr + Size(p[k]) < HeapBase /\ p[k].vaddr + Size(p[k]) < b
  <2>1. PICK n \in Nat : n = p[k].vaddr + Size(p[k])
    <3>1. p[k].vaddr \in Nat /\ Size(p[k]) \in Nat
      BY HeaderFacts, Zenon
    <3> QED
      BY <3>1
  <2> QED
    <3>1. n =< e
      BY <1>8, <1>9, <2>1, Zenon
    <3>2. n < HeapBase /\ n < b
      BY <1>3, <1>4a, <1>7, <3>1
    <3> QED
      BY <2>1, <3>2, Zenon
<1>10. ASSUME NEW k \in 1..Len(p), p[k].type = "tls" PROVE p[k].vaddr + Size(p[k]) < HeapBase
  <2>0. k \in DOMAIN p /\ DOMAIN p = 1..Len(p)
    BY ProgramSeq, Zenon
  <2>1. PICK j \in 1..Len(p) : p[j].type = "load" /\ p[k].vaddr + p[k].memsz =< p[j].vaddr + p[j].memsz
    BY <1>10, <2>0, ProgramAssumption, Zenon
  <2>2. p[j].vaddr + Size(p[j]) =< e
    BY <1>8, <2>1, Zenon
  <2>3. PICK v \in Nat, n \in Nat, s \in Nat : v = p[j].vaddr /\ n = p[j].memsz /\ s = Size(p[j]) /\ n =< s
    BY HeaderFacts, Zenon
  <2>4. PICK w \in Nat, o \in Nat, t \in Nat : w = p[k].vaddr /\ o = p[k].memsz /\ t = Size(p[k]) /\ t < o + P
    BY HeaderFacts, Zenon
  <2>5. w + t < HeapBase
    <3>1. v + s =< e /\ w + o =< v + n /\ n =< s /\ t < o + P /\ P =< i
      BY <1>6, <2>1, <2>2, <2>3, <2>4, Zenon
    <3>2. w + t < e + P
      BY <1>3, <3>1
    <3>3. e + P < HeapBase
      BY <1>3, <1>4a, <1>7, <3>1
    <3> QED
      BY <1>3, <3>2, <3>3
  <2> QED
    BY <2>4, <2>5, Zenon
<1>11. \A k \in 1..Len(p) : p[k].type = "load" \/ p[k].type = "tls"
  <2>1. \A k \in 1..Len(p) : p[k].type \in {"load", "tls"}
    BY HeaderFacts, Zenon
  <2> QED
    BY <2>1, Zenon
<1> QED
  BY <1>4, <1>4a, <1>5, <1>6, <1>7, <1>9, <1>10, <1>11, Zenon

-----------------------------------------------------------------------------
(* aspace_free and the image of a program                                  *)

\* A mapping, and the one of a program header
Mapping == [type : {"load", "tls", "brk"}, start : Nat, end : Nat]
MapOf(h) == [type |-> h.type, start |-> h.vaddr, end |-> h.vaddr + Size(h)]

\* The heap that __morecore has mapped ends at a page boundary above the programs.
HeapShape == page \in Nat /\ page % P = 0 /\ HeapBase < page

\* Mappings lie below it.
MapsBelow(maps) == \A k \in 1..Len(maps) : maps[k].start =< maps[k].end /\ maps[k].end < HeapBase

\* Each mapped page belongs to a mapping or to the kernel heap.
Owned(maps, set, heap) ==
  set \subseteq heap \cup UNION {PagesOf(maps[k].start, maps[k].end) : k \in 1..Len(maps)}

\* aspace_free goes through the mappings in order.
LEMMA FreeSteps ==
  ASSUME NEW m, NEW N \in Nat, N = Len(mappings)
  PROVE  \E f : /\ f[0] = m /\ aspace_free(m) = f[N]
                /\ \A k \in 1..N : f[k] = Removed(f[k - 1], mappings[k])
<1> DEFINE Along(f, n) ==
             DOMAIN f = 0..n /\ f = [k \in 0..n |-> IF k = 0 THEN m ELSE Removed(f[k - 1], mappings[k])]
           B == {n \in 0..N : \E f : Along(f, n)}
<1>1. 0 \in B
  <2> DEFINE g == [k \in 0..0 |-> m]
  <2>1. Along(g, 0)
    <3>1. \A k \in 0..0 : k = 0
      OBVIOUS
    <3> QED
      BY <3>1, Zenon
  <2>2. \E f : Along(f, 0)
    <3> HIDE DEF Along, g
    <3> QED
      BY <2>1
  <2> QED
    BY <2>2
<1>2. ASSUME NEW n \in 1..N, n - 1 \in B PROVE n \in B
  <2>1. PICK f : Along(f, n - 1)
    BY <1>2
  <2> DEFINE h == [k \in 0..n |-> IF k < n THEN f[k] ELSE Removed(f[n - 1], mappings[n])]
             g == [k \in 0..n |-> IF k = 0 THEN m ELSE Removed(h[k - 1], mappings[k])]
  <2>2. ASSUME NEW k \in 0..n PROVE h[k] = g[k]
    <3>1. CASE k = n
      <4>1. k # 0 /\ n - 1 \in 0..n /\ n - 1 < n /\ ~(k < n)
        BY <3>1
      <4>2. h[n - 1] = f[n - 1]
        BY <4>1, Zenon
      <4> QED
        BY <3>1, <4>1, <4>2, Zenon
    <3>2. CASE k # n
      <4>1. k \in 0..(n - 1) /\ k < n
        BY <3>2
      <4>2. f[k] = IF k = 0 THEN m ELSE Removed(f[k - 1], mappings[k])
        BY <2>1, <4>1, Zenon
      <4>3. k # 0 => k - 1 \in 0..n /\ k - 1 < n
        BY <4>1
      <4>4. k # 0 => h[k - 1] = f[k - 1]
        BY <4>3, Zenon
      <4>5. h[k] = f[k]
        BY <4>1, Zenon
      <4> QED
        BY <4>2, <4>4, <4>5, Zenon
    <3> QED
      BY <3>1, <3>2, Zenon
  <2>3. h = g
    <3>1. h = [k \in 0..n |-> h[k]]
      OBVIOUS
    <3> HIDE DEF h
    <3>2. g = [k \in 0..n |-> g[k]]
      OBVIOUS
    <3> HIDE DEF g
    <3> QED
      BY <2>2, <3>1, <3>2, Zenon
  <2>4. Along(h, n)
    <3>1. DOMAIN h = 0..n
      BY Zenon
    <3> QED
      BY <2>3, <3>1, Zenon
  <2>5. \E f1 : Along(f1, n)
    <3> HIDE DEF Along, h
    <3> QED
      BY <2>4
  <2>6. n \in 0..N
    OBVIOUS
  <2> QED
    BY <2>5, <2>6
<1>3. \E f : Along(f, N)
  <2> HIDE DEF B
  <2>1. 0..N \subseteq B
    BY <1>1, <1>2, Induct
  <2>2. N \in B
    BY <2>1
  <2> QED
    BY <2>2 DEF B
<1> DEFINE Eq(f) == f = [k \in 0..N |-> IF k = 0 THEN m ELSE Removed(f[k - 1], mappings[k])]
           c == CHOOSE f : Eq(f)
<1>4. Eq(c)
  <2>1. \E f : Eq(f)
    BY <1>3, Zenon
  <2> HIDE DEF Eq
  <2> QED
    BY <2>1, Zenon
<1>5. aspace_free(m) = c[N]
  BY DEF aspace_free
<1> HIDE DEF c
<1>6. \A k \in 0..N : c[k] = IF k = 0 THEN m ELSE Removed(c[k - 1], mappings[k])
  BY <1>4
<1>7. c[0] = m
  BY <1>6
<1>8. ASSUME NEW k \in 1..N PROVE c[k] = Removed(c[k - 1], mappings[k])
  <2>1. k \in 0..N /\ k # 0
    OBVIOUS
  <2> QED
    BY <1>6, <2>1, Zenon
<1> QED
  BY <1>5, <1>7, <1>8, Zenon

\* Image goes through the headers in order.
LEMMA ImageSteps ==
  ASSUME NEW p, NEW N \in Nat
  PROVE  \E f : /\ f[0] = [maps |-> <<>>, m |-> aspace_free(Tables)] /\ Image(p, N) = f[N]
                /\ \A k \in 1..N : f[k] = Loaded(f[k - 1], p[k])
<1>0. PICK s : s = [maps |-> <<>>, m |-> aspace_free(Tables)]
  BY Zenon
<1> DEFINE Along(f, n) ==
             DOMAIN f = 0..n /\ f = [k \in 0..n |-> IF k = 0 THEN s ELSE Loaded(f[k - 1], p[k])]
           B == {n \in 0..N : \E f : Along(f, n)}
<1>1. 0 \in B
  <2> DEFINE g == [k \in 0..0 |-> s]
  <2>1. Along(g, 0)
    <3>1. \A k \in 0..0 : k = 0
      OBVIOUS
    <3> QED
      BY <3>1, Zenon
  <2>2. \E f : Along(f, 0)
    <3> HIDE DEF Along, g
    <3> QED
      BY <2>1
  <2> QED
    BY <2>2
<1>2. ASSUME NEW n \in 1..N, n - 1 \in B PROVE n \in B
  <2>1. PICK f : Along(f, n - 1)
    BY <1>2
  <2> DEFINE h == [k \in 0..n |-> IF k < n THEN f[k] ELSE Loaded(f[n - 1], p[n])]
             g == [k \in 0..n |-> IF k = 0 THEN s ELSE Loaded(h[k - 1], p[k])]
  <2>2. ASSUME NEW k \in 0..n PROVE h[k] = g[k]
    <3>1. CASE k = n
      <4>1. k # 0 /\ n - 1 \in 0..n /\ n - 1 < n /\ ~(k < n)
        BY <3>1
      <4>2. h[n - 1] = f[n - 1]
        BY <4>1, Zenon
      <4> QED
        BY <3>1, <4>1, <4>2, Zenon
    <3>2. CASE k # n
      <4>1. k \in 0..(n - 1) /\ k < n
        BY <3>2
      <4>2. f[k] = IF k = 0 THEN s ELSE Loaded(f[k - 1], p[k])
        BY <2>1, <4>1, Zenon
      <4>3. k # 0 => k - 1 \in 0..n /\ k - 1 < n
        BY <4>1
      <4>4. k # 0 => h[k - 1] = f[k - 1]
        BY <4>3, Zenon
      <4>5. h[k] = f[k]
        BY <4>1, Zenon
      <4> QED
        BY <4>2, <4>4, <4>5, Zenon
    <3> QED
      BY <3>1, <3>2, Zenon
  <2>3. h = g
    <3>1. h = [k \in 0..n |-> h[k]]
      OBVIOUS
    <3> HIDE DEF h
    <3>2. g = [k \in 0..n |-> g[k]]
      OBVIOUS
    <3> HIDE DEF g
    <3> QED
      BY <2>2, <3>1, <3>2, Zenon
  <2>4. Along(h, n)
    <3>1. DOMAIN h = 0..n
      BY Zenon
    <3> QED
      BY <2>3, <3>1, Zenon
  <2>5. \E f1 : Along(f1, n)
    <3> HIDE DEF Along, h
    <3> QED
      BY <2>4
  <2>6. n \in 0..N
    OBVIOUS
  <2> QED
    BY <2>5, <2>6
<1>3. \E f : Along(f, N)
  <2> HIDE DEF B
  <2>1. 0..N \subseteq B
    BY <1>1, <1>2, Induct
  <2>2. N \in B
    BY <2>1
  <2> QED
    BY <2>2 DEF B
<1> DEFINE Eq(f) == f = [k \in 0..N |-> IF k = 0 THEN s ELSE Loaded(f[k - 1], p[k])]
           c == CHOOSE f : Eq(f)
<1>4. Eq(c)
  <2>1. \E f : Eq(f)
    BY <1>3, Zenon
  <2> HIDE DEF Eq
  <2> QED
    BY <2>1, Zenon
<1>5. Image(p, N) = c[N]
  BY <1>0, Zenon DEF Image
<1> HIDE DEF c
<1>6. \A k \in 0..N : c[k] = IF k = 0 THEN s ELSE Loaded(c[k - 1], p[k])
  BY <1>4
<1>7. c[0] = s
  BY <1>6
<1>8. ASSUME NEW k \in 1..N PROVE c[k] = Loaded(c[k - 1], p[k])
  <2>1. k \in 0..N /\ k # 0
    OBVIOUS
  <2> QED
    BY <1>6, <2>1, Zenon
<1> QED
  BY <1>0, <1>5, <1>7, <1>8, Zenon

\* The pages of the kernel heap
HeapPages == PagesOf(HeapBase, page)

\* Pages of addresses below the kernel heap are not pages of it.
LEMMA BelowHeap ==
  ASSUME HeapShape, NEW a \in Nat, NEW b \in Nat, b < HeapBase
  PROVE  (PageOf(a)..PageOf(b)) \cap HeapPages = {}
<1>1. HeapBase \in Nat /\ HeapBase % P = 0
  BY Sizes, Zenon
<1>2. PICK t \in Nat : t = page /\ HeapBase < t
  BY Zenon DEF HeapShape
<1>3. HeapPages = PageOf(HeapBase)..PageOf(t - 1)
  BY <1>1, <1>2, PagesOfRange, Zenon DEF HeapPages
<1>4. PageOf(b) < PageOf(HeapBase)
  BY <1>1, Boundary, Zenon
<1>5. t - 1 \in Nat
  BY <1>1, <1>2
<1>6. PICK h \in Nat, l \in Nat, e \in Nat, f \in Nat : h = PageOf(HeapBase) /\ l = PageOf(t - 1) /\ e = PageOf(a) /\ f = PageOf(b)
  BY <1>1, <1>5, PageBounds, Zenon
<1>7. f < h
  BY <1>4, <1>6, Zenon
<1>8. (e..f) \cap (h..l) = {}
  BY <1>7
<1> QED
  BY <1>3, <1>6, <1>8, Zenon

\* Removing a mapping unmaps its pages and none of the kernel heap.
LEMMA RemoveRange ==
  ASSUME NEW s \in Nat, NEW e \in Nat, s < e
  PROVE  /\ UnmapPages(s, e - s) = PageOf(s)..PageOf(e)
         /\ PagesOf(s, e) \subseteq PageOf(s)..PageOf(e)
<1>1. s + (e - s) + P = e + P /\ e - 1 \in Nat /\ e - 1 =< e
  BY Sizes
<1>2. PageOf(e + P) = PageOf(e) + 1
  BY PageNext, Zenon
<1>3. PICK f \in Nat, g \in Nat, h \in Nat : f = PageOf(e) /\ g = PageOf(e - 1) /\ h = PageOf(s) /\ g =< f
  BY <1>1, PageBounds, PageMonotone, Zenon
<1>4. f + 1 - 1 = f /\ h..g \subseteq h..f
  BY <1>3
<1>5. PagesOf(s, e) = h..g
  BY <1>3, PagesOfRange, Zenon
<1>6. UnmapPages(s, e - s) = PageOf(s)..(PageOf(e + P) - 1)
  BY <1>1, Zenon DEF UnmapPages
<1>7. PageOf(e + P) - 1 = PageOf(e)
  BY <1>2, <1>3
<1> QED
  BY <1>3, <1>4, <1>5, <1>6, <1>7, Zenon

\* The page tables of the state
LEMMA TablesFacts ==
  IsTables(Tables) /\ Tables.mapped = mapped /\ Tables.size = size /\ Tables.panic = panic
BY DEF IsTables, Tables

\* What the invariant says of the mappings and the kernel heap
Sound ==
  /\ panic = "none" /\ HeapShape /\ mappings \in Seq(Mapping) /\ MapsBelow(mappings)
  /\ Owned(mappings, mapped, HeapPages)
  /\ HeapPages \subseteq mapped /\ Counted(Tables)

\* aspace_free stops the kernel or leaves the kernel heap, and nothing else.
LEMMA FreeFacts ==
  ASSUME Sound, NEW r, r = aspace_free(Tables)
  PROVE  /\ IsTables(r) /\ r.panic \in {"none", "length", "unmapped"}
         /\ r.panic = "none" => Counted(r) /\ r.mapped = HeapPages
<1>1. PICK N \in Nat : N = Len(mappings)
  <2>1. mappings \in Seq(Mapping)
    BY Zenon DEF Sound
  <2> QED
    BY <2>1
<1>2. ASSUME NEW k \in 1..N
      PROVE  /\ mappings[k].start \in Nat /\ mappings[k].end \in Nat
             /\ mappings[k].start =< mappings[k].end /\ mappings[k].end < HeapBase
  <2>1. mappings \in Seq(Mapping)
    BY Zenon DEF Sound
  <2>2. mappings[k] \in Mapping
    BY <1>1, <2>1
  <2>3. mappings[k].start \in Nat /\ mappings[k].end \in Nat
    BY <2>2 DEF Mapping
  <2> QED
    BY <1>1, <2>3, Zenon DEF Sound, MapsBelow
<1>3. PICK f : /\ f[0] = Tables /\ r = f[N]
               /\ \A k \in 1..N : f[k] = Removed(f[k - 1], mappings[k])
  <2>1. PICK m : m = Tables
    BY Zenon
  <2>2. \E f : /\ f[0] = m /\ aspace_free(m) = f[N]
               /\ \A k \in 1..N : f[k] = Removed(f[k - 1], mappings[k])
    BY <1>1, FreeSteps
  <2> QED
    BY <2>1, <2>2, Zenon
<1> DEFINE Own(k) == PagesOf(mappings[k].start, mappings[k].end)
           Good(k) == /\ IsTables(f[k]) /\ f[k].panic \in {"none", "length", "unmapped"}
                      /\ f[k].panic = "none" =>
                           /\ Counted(f[k]) /\ HeapPages \subseteq f[k].mapped /\ f[k].mapped \subseteq mapped
                           /\ \A j \in 1..k : Own(j) \cap f[k].mapped = {}
           B == {k \in 0..N : Good(k)}
<1>4. 0 \in B
  <2>1. \A j \in 1..0 : FALSE
    OBVIOUS
  <2>2. Good(0)
    BY <1>3, <2>1, TablesFacts, Zenon DEF Sound
  <2>3. 0 \in 0..N
    OBVIOUS
  <2> QED
    BY <2>2, <2>3, Zenon
<1>5. ASSUME NEW k \in 1..N, k - 1 \in B PROVE k \in B
  <2>1. PICK m, q : m = f[k - 1] /\ q = f[k] /\ q = Removed(m, mappings[k])
    BY <1>3, Zenon
  <2>2. Good(k - 1)
    BY <1>5, Zenon
  <2>3. PICK s \in Nat, e \in Nat : s = mappings[k].start /\ e = mappings[k].end /\ s =< e /\ e < HeapBase
    BY <1>2, Zenon
  <2>4. \A j \in 1..k : j = k \/ j \in 1..(k - 1)
    OBVIOUS
  <2>5. Good(k)
    <3>1. CASE ~(s < e)
      <4>1. q = m
        <5>1. ~(e > s)
          BY <3>1
        <5> QED
          BY <2>1, <2>3, <5>1, Zenon DEF Removed
      <4>2. Own(k) = {}
        BY <2>3, <3>1, PagesOfRange, Zenon
      <4> QED
        BY <2>1, <2>2, <2>4, <4>1, <4>2, Zenon
    <3>2. CASE s < e
      <4>1. q = arch_munmap(m, s, e - s)
        <5>1. e > s
          BY <3>2
        <5> QED
          BY <2>1, <2>3, <5>1, Zenon DEF Removed
      <4>2. CASE m.panic # "none"
        <5>1. q = m
          BY <4>1, <4>2, Zenon DEF arch_munmap
        <5> QED
          BY <2>1, <2>2, <4>2, <5>1, Zenon
      <4>3. CASE m.panic = "none"
        <5>1. e - s \in Nat
          BY <3>2
        <5>2. IsTables(m) /\ Counted(m)
          BY <2>1, <2>2, <4>3, Zenon
        <5>3. /\ IsTables(q) /\ q.panic \in {"none", "length", "unmapped"}
              /\ q.panic = "none" => Counted(q) /\ q.mapped = m.mapped \ UnmapPages(s, e - s)
          BY <4>1, <4>3, <5>1, <5>2, UnmapFacts, Zenon DEF UnmapOutcome
        <5>4. PICK old : old = UnmapPages(s, e - s) /\ old = PageOf(s)..PageOf(e) /\ Own(k) \subseteq old
          BY <2>3, <3>2, RemoveRange, Zenon
        <5>5. old \cap HeapPages = {}
          BY <2>3, <5>4, BelowHeap, Zenon DEF Sound
        <5>6. ASSUME q.panic = "none"
              PROVE  /\ HeapPages \subseteq q.mapped /\ q.mapped \subseteq mapped
                     /\ \A j \in 1..k : Own(j) \cap q.mapped = {}
          <6>1. q.mapped = m.mapped \ old
            BY <5>3, <5>4, <5>6, Zenon
          <6>2. HeapPages \subseteq m.mapped /\ m.mapped \subseteq mapped /\ \A j \in 1..(k - 1) : Own(j) \cap m.mapped = {}
            BY <2>1, <2>2, <4>3, Zenon
          <6>3. HeapPages \subseteq q.mapped /\ q.mapped \subseteq mapped
            BY <5>5, <6>1, <6>2, Zenon
          <6>4. ASSUME NEW j \in 1..k PROVE Own(j) \cap q.mapped = {}
            <7>1. CASE j = k
              <8> HIDE DEF Own
              <8> QED
                BY <5>4, <6>1, <7>1, Zenon
            <7>2. CASE j \in 1..(k - 1)
              <8>1. Own(j) \cap m.mapped = {}
                BY <6>2, <7>2, Zenon
              <8> HIDE DEF Own
              <8> QED
                BY <6>1, <8>1, Zenon
            <7> QED
              BY <2>4, <7>1, <7>2, Zenon
          <6> QED
            BY <6>3, <6>4, Zenon
        <5> QED
          BY <2>1, <5>3, <5>6, Zenon
      <4> QED
        BY <4>2, <4>3, Zenon
    <3> QED
      BY <3>1, <3>2, Zenon
  <2>6. k \in 0..N
    OBVIOUS
  <2> QED
    BY <2>5, <2>6, Zenon
<1>6. Good(N)
  <2>1. 0..N \subseteq B
    <3> HIDE DEF B
    <3> QED
      BY <1>4, <1>5, Induct
  <2>2. N \in 0..N
    OBVIOUS
  <2> QED
    BY <2>1, <2>2, Zenon
<1>7. ASSUME r.panic = "none" PROVE r.mapped \subseteq HeapPages
  <2>1. r.mapped \subseteq mapped /\ \A j \in 1..N : Own(j) \cap r.mapped = {}
    BY <1>3, <1>6, <1>7, Zenon
  <2>2. mapped \subseteq HeapPages \cup UNION {Own(k) : k \in 1..N}
    BY <1>1, Zenon DEF Sound, Owned
  <2> HIDE DEF Own
  <2>3. ASSUME NEW x \in r.mapped PROVE x \in HeapPages
    <3>1. \A j \in 1..N : x \notin Own(j)
      BY <2>1, Zenon
    <3>2. x \in HeapPages \cup UNION {Own(k) : k \in 1..N}
      BY <2>1, <2>2, Zenon
    <3> QED
      BY <3>1, <3>2, Zenon
  <2> QED
    BY <2>3, Zenon
<1>8. ASSUME r.panic = "none" PROVE Counted(r) /\ HeapPages \subseteq r.mapped
  BY <1>3, <1>6, <1>8, Zenon
<1>9. IsTables(r) /\ r.panic \in {"none", "length", "unmapped"}
  BY <1>3, <1>6, Zenon
<1> QED
  BY <1>7, <1>8, <1>9, Zenon

\* Loading a header adds its mapping, up to the end of its last page; a PT_LOAD
\* header is mapped, a PT_TLS header is not.
LEMMA LoadedFacts ==
  ASSUME NEW p \in Program, NEW k \in 1..Len(p), NEW h, h = p[k],
         NEW s, s = [maps |-> s.maps, m |-> s.m]
  PROVE  /\ MapOf(h) \in Mapping
         /\ h.type = "tls" => Loaded(s, h) = [maps |-> Append(s.maps, MapOf(h)), m |-> s.m]
         /\ h.type = "load" =>
              Loaded(s, h) = [maps |-> Append(s.maps, MapOf(h)), m |-> arch_mmap(s.m, h.vaddr, Size(h) - 1)]
<1>1. PICK v \in Nat, z \in Nat : v = h.vaddr /\ z = Size(h) /\ z > 0
  <2>1. /\ h.vaddr \in Nat /\ h.memsz \in Nat /\ h.memsz > 0 /\ Size(h) \in Nat /\ h.memsz =< Size(h)
    BY HeaderFacts
  <2>2. Size(h) > 0
    BY <2>1
  <2> QED
    BY <2>1, <2>2, Zenon
<1>2. MapOf(h) = [type |-> h.type, start |-> v, end |-> v + z]
  BY <1>1, Zenon DEF MapOf
<1>3. MapOf(h) \in Mapping
  <2>1. h.type \in {"load", "tls"}
    BY HeaderFacts
  <2>2. h.type \in {"load", "tls", "brk"} /\ v + z \in Nat
    BY <2>1
  <2> QED
    BY <1>2, <2>2 DEF Mapping
<1>4. ASSUME h.type = "tls" PROVE Loaded(s, h) = [maps |-> Append(s.maps, MapOf(h)), m |-> s.m]
  <2>1. h.type # "load"
    BY <1>4
  <2>2. SegmentEnd(h) = v + z
    BY <1>1, <2>1, Zenon DEF SegmentEnd
  <2>3. [[type |-> h.type, start |-> v, end |-> v] EXCEPT !.end = v + z] = MapOf(h)
    BY <1>2
  <2>4. Loaded(s, h) = [s EXCEPT !.maps = Append(@, [[type |-> h.type, start |-> v, end |-> v] EXCEPT !.end = v + z])]
    BY <1>1, <1>4, <2>2, Zenon DEF Loaded, Added
  <2>5. Loaded(s, h) = [s EXCEPT !.maps = Append(@, MapOf(h))]
    BY <2>3, <2>4, Zenon
  <2> QED
    BY <2>5
<1>5. ASSUME h.type = "load"
      PROVE  Loaded(s, h) = [maps |-> Append(s.maps, MapOf(h)), m |-> arch_mmap(s.m, h.vaddr, Size(h) - 1)]
  <2>1. z % P = 0
    BY <1>1, <1>5, HeaderFacts
  <2>2. Increment(z - 1) = z
    BY <1>1, <2>1, IncrementExact
  <2>3. P \in Nat /\ P >= 2 /\ P =< z
    BY <1>1, <2>1, BoundaryAway, Sizes
  <2>4. SegmentEnd(h) = v + z - 1
    BY <1>1, <1>5, Zenon DEF SegmentEnd
  <2>5. v + z - 1 > v /\ (v + z - 1) - v = z - 1
    BY <2>3
  <2>6. h.type # "tls"
    BY <1>5
  <2>7. [[type |-> h.type, start |-> v, end |-> v] EXCEPT !.end = @ + z] = MapOf(h)
    BY <1>2
  <2>8. PICK map : map = [type |-> h.type, start |-> v, end |-> v]
    BY Zenon
  <2>9. Loaded(s, h) = [maps |-> Append(s.maps, Enlarged(map, z - 1)),
                        m |-> arch_mmap(s.m, v, Increment(z - 1) - 1)]
    BY <1>1, <2>4, <2>5, <2>6, <2>8, Zenon DEF Loaded, Added
  <2>10. Enlarged(map, z - 1) = MapOf(h)
    BY <2>2, <2>7, <2>8, Zenon DEF Enlarged
  <2> QED
    BY <1>1, <2>2, <2>9, <2>10, Zenon
<1> QED
  BY <1>3, <1>4, <1>5, Zenon

\* The pages of a loaded segment
LEMMA SegmentRange ==
  ASSUME NEW p \in Program, NEW k \in 1..Len(p), NEW h, h = p[k], h.type = "load"
  PROVE  /\ h.vaddr \in Nat /\ Size(h) - 1 \in Nat /\ Size(h) - 1 # 0 /\ h.vaddr + Size(h) - 1 \in Nat
         /\ h.vaddr + Size(h) - 1 < BrkStart(p) /\ h.vaddr + Size(h) - 1 < HeapBase
         /\ MapPages(h.vaddr, Size(h) - 1) = Pages(h)
         /\ Pages(h) = PagesOf(h.vaddr, h.vaddr + Size(h))
<1>1. PICK v \in Nat, z \in Nat : v = h.vaddr /\ z = Size(h) /\ z % P = 0 /\ z > 0
  <2>1. /\ h.vaddr \in Nat /\ h.memsz \in Nat /\ h.memsz > 0 /\ Size(h) \in Nat /\ h.memsz =< Size(h) /\ Size(h) % P = 0
    BY HeaderFacts
  <2>2. Size(h) > 0
    BY <2>1
  <2> QED
    BY <2>1, <2>2, Zenon
<1>2. P \in Nat /\ P >= 2 /\ P =< z /\ HeapBase \in Nat
  BY <1>1, BoundaryAway, Sizes
<1>3. z - 1 \in Nat /\ z - 1 # 0 /\ v + (z - 1) = v + z - 1 /\ v + z - 1 \in Nat /\ v + z \in Nat /\ v < v + z
  BY <1>2
<1>4. MapPages(v, z - 1) = PageOf(v)..PageOf(v + z - 1)
  BY <1>3, Zenon DEF MapPages
<1>5. Pages(h) = PageOf(v)..PageOf(v + z - 1)
  BY <1>1, Zenon DEF Pages
<1>6. PICK b \in Nat : b = BrkStart(p) /\ v + z < HeapBase /\ v + z < b
  BY <1>1, Layout, Zenon
<1>7. v + z - 1 < HeapBase /\ v + z - 1 < b
  BY <1>2, <1>6
<1>8. PagesOf(v, v + z) = PageOf(v)..PageOf(v + z - 1)
  <2>1. PICK w \in Nat : w = v + z /\ v < w
    BY <1>3, Zenon
  <2>2. PagesOf(v, w) = PageOf(v)..PageOf(w - 1)
    BY <2>1, PagesOfRange, Zenon
  <2>3. w - 1 = v + z - 1
    BY <2>1
  <2> QED
    BY <2>1, <2>2, <2>3
<1> QED
  BY <1>1, <1>3, <1>4, <1>5, <1>6, <1>7, <1>8, Zenon

\* They are none of the kernel heap, and lie below the program's.
LEMMA SegmentBelow ==
  ASSUME NEW p \in Program, NEW k \in 1..Len(p), NEW h, h = p[k], h.type = "load"
  PROVE  /\ HeapShape => Pages(h) \cap HeapPages = {}
         /\ \A a, b \in Nat : BrkStart(p) =< a => Pages(h) \cap (PageOf(a)..PageOf(b)) = {}
<1>1. PICK v \in Nat, e \in Nat : Pages(h) = PageOf(v)..PageOf(e) /\ e < BrkStart(p) /\ e < HeapBase
  <2>1. PICK e \in Nat : e = h.vaddr + Size(h) - 1 /\ h.vaddr \in Nat /\ e < BrkStart(p) /\ e < HeapBase
    BY SegmentRange
  <2> QED
    BY <2>1, Zenon DEF Pages
<1>2. HeapShape => Pages(h) \cap HeapPages = {}
  BY <1>1, BelowHeap, Zenon
<1>3. ASSUME NEW a \in Nat, NEW b \in Nat, BrkStart(p) =< a PROVE Pages(h) \cap (PageOf(a)..PageOf(b)) = {}
  <2>1. PICK s \in Nat : s = BrkStart(p) /\ s % P = 0
    BY Layout, Zenon
  <2>2. PageOf(e) < PageOf(s)
    BY <1>1, <2>1, Boundary, Zenon
  <2>3. PageOf(s) =< PageOf(a)
    BY <1>3, <2>1, PageMonotone, Zenon
  <2>4. PICK w \in Nat, x \in Nat, y \in Nat, z \in Nat, t \in Nat :
          w = PageOf(v) /\ x = PageOf(e) /\ y = PageOf(a) /\ z = PageOf(b) /\ t = PageOf(s)
    BY <2>1, PageBounds, Zenon
  <2>5. x < t /\ t =< y
    BY <2>2, <2>3, <2>4, Zenon
  <2>6. (w..x) \cap (y..z) = {}
    BY <2>5
  <2> QED
    BY <1>1, <2>4, <2>6, Zenon
<1> QED
  BY <1>2, <1>3, Zenon

\* What is there after the first k headers of p
Built(p, k, s) ==
  /\ s = [maps |-> s.maps, m |-> s.m] /\ IsTables(s.m) /\ s.m.panic # "used"
  /\ s.maps \in Seq(Mapping) /\ Len(s.maps) = k /\ \A j \in 1..k : s.maps[j] = MapOf(p[j])
  /\ s.m.panic = "none" =>
       /\ Counted(s.m) /\ HeapPages \subseteq s.m.mapped
       /\ \A j \in 1..k : p[j].type = "load" => Pages(p[j]) \subseteq s.m.mapped
       /\ \A x \in s.m.mapped : x \in HeapPages \/ \E j \in 1..k : p[j].type = "load" /\ x \in Pages(p[j])

\* One header more
LEMMA BuiltStep ==
  ASSUME HeapShape, NEW p \in Program, NEW k \in 1..Len(p), NEW s, Built(p, k - 1, s)
  PROVE  Built(p, k, Loaded(s, p[k]))
<1>1. PICK h, r, maps, m : h = p[k] /\ r = Loaded(s, h) /\ maps = s.maps /\ m = s.m
  BY Zenon
<1>2. /\ s = [maps |-> maps, m |-> m] /\ IsTables(m) /\ m.panic # "used"
      /\ maps \in Seq(Mapping) /\ Len(maps) = k - 1 /\ \A j \in 1..(k - 1) : maps[j] = MapOf(p[j])
  BY <1>1, Zenon DEF Built
<1>3. ASSUME m.panic = "none"
      PROVE  /\ Counted(m) /\ HeapPages \subseteq m.mapped
             /\ \A j \in 1..(k - 1) : p[j].type = "load" => Pages(p[j]) \subseteq m.mapped
             /\ \A x \in m.mapped : x \in HeapPages \/ \E j \in 1..(k - 1) : p[j].type = "load" /\ x \in Pages(p[j])
  BY <1>1, <1>3, Zenon DEF Built
<1>4. PICK new : new = MapOf(h) /\ new \in Mapping
  BY <1>1, <1>2, LoadedFacts
<1>5. PICK after : after = Append(maps, new)
  BY Zenon
<1>6. k \in Nat /\ k \in 1..k /\ \A j \in 1..k : j = k \/ j \in 1..(k - 1)
  OBVIOUS
<1>7. after \in Seq(Mapping) /\ Len(after) = k /\ \A j \in 1..k : after[j] = MapOf(p[j])
  <2>1. after \in Seq(Mapping) /\ Len(after) = k - 1 + 1 /\ after[k - 1 + 1] = new
    BY <1>2, <1>4, <1>5, <1>6
  <2>2. ASSUME NEW j \in 1..(k - 1) PROVE after[j] = maps[j]
    BY <1>2, <1>4, <1>5, <1>6
  <2>3. k - 1 + 1 = k
    BY <1>6
  <2>4. after[k] = new /\ Len(after) = k
    BY <2>1, <2>3
  <2> QED
    BY <1>1, <1>2, <1>4, <1>6, <2>1, <2>2, <2>4, Zenon
<1>8. h.type = "load" \/ h.type = "tls"
  <2>1. h.type \in {"load", "tls"}
    BY <1>1, HeaderFacts
  <2> QED
    BY <2>1
<1>9. ASSUME h.type = "tls" PROVE Built(p, k, r)
  <2>1. r = [maps |-> after, m |-> m]
    BY <1>1, <1>2, <1>4, <1>5, <1>9, LoadedFacts
  <2>2. r.maps = after /\ r.m = m
    BY <2>1
  <2>3. h.type # "load"
    BY <1>9
  <2>4. ASSUME m.panic = "none"
        PROVE  /\ Counted(m) /\ HeapPages \subseteq m.mapped
               /\ \A j \in 1..k : p[j].type = "load" => Pages(p[j]) \subseteq m.mapped
               /\ \A x \in m.mapped : x \in HeapPages \/ \E j \in 1..k : p[j].type = "load" /\ x \in Pages(p[j])
    <3>1. \A j \in 1..(k - 1) : j \in 1..k
      BY <1>6
    <3> QED
      BY <1>1, <1>3, <1>6, <2>3, <2>4, <3>1, Zenon
  <2> QED
    BY <1>2, <1>7, <2>1, <2>2, <2>4, Zenon DEF Built
<1>10. ASSUME h.type = "load" PROVE Built(p, k, r)
  <2>1. PICK q : q = arch_mmap(m, h.vaddr, Size(h) - 1)
    BY Zenon
  <2>2. r = [maps |-> after, m |-> q]
    BY <1>1, <1>2, <1>4, <1>5, <1>10, <2>1, LoadedFacts
  <2>3. r.maps = after /\ r.m = q
    BY <2>2
  <2>4. /\ h.vaddr \in Nat /\ Size(h) - 1 \in Nat /\ Size(h) - 1 # 0
        /\ MapPages(h.vaddr, Size(h) - 1) = Pages(h) /\ Pages(h) \cap HeapPages = {}
    BY <1>1, <1>10, SegmentRange, SegmentBelow
  <2>5. CASE m.panic # "none"
    <3>1. q = m
      BY <2>1, <2>5, Zenon DEF arch_mmap
    <3> QED
      BY <1>2, <1>7, <2>2, <2>3, <2>5, <3>1, Zenon DEF Built
  <2>6. CASE m.panic = "none"
    <3>1. Pages(h) \cap m.mapped = {}
      <4>1. ASSUME NEW j \in 1..(k - 1), p[j].type = "load" PROVE Pages(p[j]) \cap Pages(h) = {}
        <5>1. j \in DOMAIN p /\ k \in DOMAIN p /\ j # k
          <6>1. DOMAIN p = 1..Len(p) /\ Len(p) \in Nat
            BY ProgramSeq, Zenon
          <6> QED
            BY <6>1
        <5> QED
          BY <1>1, <1>10, <4>1, <5>1, ProgramAssumption, Zenon
      <4> QED
        BY <1>3, <2>4, <2>6, <4>1, Zenon
    <3>2. /\ IsTables(q) /\ q.panic \in {"none", "used", "nomem"}
          /\ q.panic = "used" => Pages(h) \cap m.mapped # {}
          /\ q.panic = "none" => Counted(q) /\ q.mapped = m.mapped \cup Pages(h)
      <4>1. PICK a \in Nat, n \in Nat : a = h.vaddr /\ n = Size(h) - 1 /\ n # 0
        BY <2>4, Zenon
      <4>2. q = arch_mmap(m, a, n) /\ MapPages(a, n) = Pages(h)
        BY <2>1, <2>4, <4>1, Zenon
      <4>3. IsTables(m) /\ Counted(m)
        BY <1>2, <1>3, <2>6, Zenon
      <4>4. MapOutcome(m, a, n, q)
        BY <2>6, <4>1, <4>2, <4>3, MapFacts, Zenon
      <4> QED
        BY <4>2, <4>4, Zenon DEF MapOutcome
    <3>3. ASSUME q.panic = "none"
          PROVE  /\ Counted(q) /\ HeapPages \subseteq q.mapped
                 /\ \A j \in 1..k : p[j].type = "load" => Pages(p[j]) \subseteq q.mapped
                 /\ \A x \in q.mapped : x \in HeapPages \/ \E j \in 1..k : p[j].type = "load" /\ x \in Pages(p[j])
      <4>1. \A j \in 1..(k - 1) : j \in 1..k
        BY <1>6
      <4>2. Counted(q) /\ q.mapped = m.mapped \cup Pages(h)
        BY <3>2, <3>3, Zenon
      <4> QED
        BY <1>1, <1>3, <1>6, <1>10, <2>6, <4>1, <4>2, Zenon
    <3>4. q.panic # "used"
      BY <3>1, <3>2, Zenon
    <3> QED
      BY <1>7, <2>2, <2>3, <3>2, <3>3, <3>4, Zenon DEF Built
  <2> QED
    BY <2>5, <2>6, Zenon
<1> QED
  BY <1>1, <1>8, <1>9, <1>10, Zenon

\* Loading the first n headers of a program
LEMMA ImageFacts ==
  ASSUME Sound, NEW p \in Program, NEW n \in 0..Len(p)
  PROVE  Built(p, n, Image(p, n))
<1>0. n \in Nat /\ Len(p) \in Nat
  BY ProgramSeq
<1>1. PICK m : m = aspace_free(Tables)
  BY Zenon
<1>2. PICK f : /\ f[0] = [maps |-> <<>>, m |-> m] /\ Image(p, n) = f[n]
               /\ \A k \in 1..n : f[k] = Loaded(f[k - 1], p[k])
  <2>1. \E f : /\ f[0] = [maps |-> <<>>, m |-> aspace_free(Tables)] /\ Image(p, n) = f[n]
               /\ \A k \in 1..n : f[k] = Loaded(f[k - 1], p[k])
    BY <1>0, ImageSteps, Zenon
  <2> QED
    BY <1>1, <2>1, Zenon
<1>3. /\ IsTables(m) /\ m.panic \in {"none", "length", "unmapped"}
      /\ m.panic = "none" => Counted(m) /\ m.mapped = HeapPages
  BY <1>1, FreeFacts, Zenon
<1> DEFINE B == {k \in 0..n : Built(p, k, f[k])}
<1>4. 0 \in B
  <2>1. PICK s : s = [maps |-> <<>>, m |-> m]
    BY Zenon
  <2>2. s = [maps |-> s.maps, m |-> s.m] /\ s.maps = <<>> /\ s.m = m
    BY <2>1
  <2>3. <<>> \in Seq(Mapping) /\ Len(<<>>) = 0 /\ \A j \in 1..0 : FALSE
    OBVIOUS
  <2>4. m.panic # "used"
    BY <1>3
  <2>5. Built(p, 0, s)
    BY <1>3, <2>2, <2>3, <2>4, Zenon DEF Built
  <2>6. 0 \in 0..n
    BY <1>0
  <2> QED
    BY <1>2, <2>1, <2>5, <2>6, Zenon
<1>5. ASSUME NEW k \in 1..n, k - 1 \in B PROVE k \in B
  <2>1. k \in 1..Len(p) /\ k \in 0..n
    BY <1>0
  <2>2. PICK s : s = f[k - 1] /\ Built(p, k - 1, s) /\ f[k] = Loaded(s, p[k])
    BY <1>2, <1>5, Zenon
  <2>3. HeapShape
    BY Zenon DEF Sound
  <2>4. Built(p, k, Loaded(s, p[k]))
    BY <2>1, <2>2, <2>3, BuiltStep, Zenon
  <2> QED
    BY <2>1, <2>2, <2>4, Zenon
<1>6. 0..n \subseteq B
  <2> HIDE DEF B
  <2> QED
    BY <1>0, <1>4, <1>5, Induct
<1>7. n \in 0..n
  BY <1>0
<1> QED
  BY <1>2, <1>6, <1>7, Zenon

-----------------------------------------------------------------------------
(* The heap of a program                                                   *)

\* Growing the heap of a program from e by n
Grows(b, e, n) ==
  /\ e + n \in Nat /\ n - 1 \in Nat /\ n - 1 # 0 /\ e + n - 1 \in Nat
  /\ MapPages(e, n - 1) = PageOf(e)..PageOf(e + n - 1)
  /\ MapPages(e, n - 1) \subseteq PagesOf(b, e + n)
  /\ PagesOf(b, e) \subseteq PagesOf(b, e + n)
  /\ e % P = 0 => /\ PagesOf(b, e + n) \subseteq PagesOf(b, e) \cup MapPages(e, n - 1)
                  /\ PagesOf(b, e) \cap MapPages(e, n - 1) = {}
LEMMA GrowPages ==
  ASSUME NEW b \in Nat, NEW e \in Nat, NEW n \in Nat, b =< e, n > 0, n % P = 0
  PROVE  Grows(b, e, n)
<1> USE DEF Grows
<1>1. P \in Nat /\ P >= 2 /\ P =< n
  BY BoundaryAway, Sizes
<1>2. /\ e + n \in Nat /\ n - 1 \in Nat /\ n - 1 # 0 /\ e + n - 1 \in Nat /\ e + (n - 1) = e + n - 1 /\ b < e + n
      /\ e =< e + n /\ b =< b
  BY <1>1
<1>3. PICK t \in Nat : t = e + n - 1
  BY <1>2, Zenon
<1>4. PICK w \in Nat, x \in Nat, y \in Nat : w = PageOf(b) /\ x = PageOf(e) /\ y = PageOf(t) /\ w =< x
  BY PageBounds, PageMonotone, Zenon
<1>5. MapPages(e, n - 1) = x..y
  BY <1>2, <1>3, <1>4, Zenon DEF MapPages
<1>6. PagesOf(b, e + n) = w..y
  <2>1. PICK u \in Nat : u = e + n /\ b < u
    BY <1>2, Zenon
  <2>2. PagesOf(b, u) = PageOf(b)..PageOf(u - 1)
    BY <2>1, PagesOfRange, Zenon
  <2>3. u - 1 = t
    BY <1>3, <2>1
  <2> QED
    BY <1>4, <2>1, <2>2, <2>3, Zenon
<1>7. x..y \subseteq w..y
  BY <1>4
<1>8. PagesOf(b, e) \subseteq PagesOf(b, e + n)
  BY <1>2, PagesOfPart
<1>9. ASSUME e % P = 0 PROVE (w..y) \subseteq PagesOf(b, e) \cup (x..y) /\ PagesOf(b, e) \cap (x..y) = {}
  <2>1. CASE b < e
    <3>1. e > 0
      BY <2>1
    <3>2. PageOf(e - 1) = x - 1
      BY <1>4, <1>9, <3>1, Boundary, Zenon
    <3>3. PagesOf(b, e) = w..(x - 1)
      BY <1>4, <2>1, <3>2, PagesOfRange, Zenon
    <3>4. (w..y) \subseteq (w..(x - 1)) \cup (x..y) /\ (w..(x - 1)) \cap (x..y) = {}
      BY <1>4
    <3> QED
      BY <3>3, <3>4, Zenon
  <2>2. CASE ~(b < e)
    <3>1. PagesOf(b, e) = {}
      BY <2>2, PagesOfRange, Zenon
    <3>2. b = e
      BY <2>2
    <3>3. w = x
      BY <1>4, <3>2, Zenon
    <3> QED
      BY <3>1, <3>3, Zenon
  <2> QED
    BY <2>1, <2>2, Zenon
<1> QED
  BY <1>2, <1>3, <1>4, <1>5, <1>6, <1>7, <1>8, <1>9, Zenon

\* Shrinking it from e to new
Shrinks(b, new, e) ==
  /\ e - new - 1 \in Nat /\ e - 1 \in Nat /\ e - 1 < HeapBase
  /\ UnmapPages(new, e - new - 1) = PageOf(new)..PageOf(e - 1)
  /\ PagesOf(b, e) \subseteq PagesOf(b, new) \cup UnmapPages(new, e - new - 1)
  /\ PagesOf(b, new) \subseteq PagesOf(b, e)
  /\ new % P = 0 => PagesOf(b, new) \cap UnmapPages(new, e - new - 1) = {}
LEMMA ShrinkPages ==
  ASSUME NEW b \in Nat, NEW new \in Nat, NEW e \in Nat, b =< new, new < e, e < HeapBase
  PROVE  Shrinks(b, new, e)
<1> USE DEF Shrinks
<1>1. P \in Nat /\ P >= 2 /\ HeapBase \in Nat
  BY Sizes
<1>2. /\ e - new - 1 \in Nat /\ e - 1 \in Nat /\ e - 1 < HeapBase /\ b < e /\ b =< b /\ new =< e
      /\ new + (e - new - 1) + P = e - 1 + P
  BY <1>1
<1>3. PICK w \in Nat, x \in Nat, y \in Nat : w = PageOf(b) /\ x = PageOf(new) /\ y = PageOf(e - 1) /\ w =< x
  BY <1>2, PageBounds, PageMonotone, Zenon
<1>4. PageOf(e - 1 + P) - 1 = y
  <2>1. PageOf(e - 1 + P) = y + 1
    BY <1>2, <1>3, PageNext, Zenon
  <2> QED
    BY <2>1
<1>5. UnmapPages(new, e - new - 1) = x..y
  <2>1. UnmapPages(new, e - new - 1) = PageOf(new)..(PageOf(e - 1 + P) - 1)
    BY <1>2, Zenon DEF UnmapPages
  <2> QED
    BY <1>3, <1>4, <2>1, Zenon
<1>6. PagesOf(b, e) = w..y
  BY <1>2, <1>3, PagesOfRange, Zenon
<1>7. PagesOf(b, new) \subseteq PagesOf(b, e)
  BY <1>2, PagesOfPart
<1>8. CASE b < new
  <2>1. new - 1 \in Nat /\ new =< new - 1 + P /\ new - 1 + P \in Nat /\ new > 0
    BY <1>1, <1>8
  <2>2. PICK z \in Nat : z = PageOf(new - 1) /\ PageOf(new - 1 + P) = z + 1
    BY <2>1, PageBounds, PageNext, Zenon
  <2>3. x =< z + 1
    BY <1>3, <2>1, <2>2, PageMonotone, Zenon
  <2>4. PagesOf(b, new) = w..z
    BY <1>3, <1>8, <2>2, PagesOfRange, Zenon
  <2>5. (w..y) \subseteq (w..z) \cup (x..y)
    BY <2>3
  <2>6. ASSUME new % P = 0 PROVE (w..z) \cap (x..y) = {}
    <3>1. z = x - 1
      BY <1>3, <2>1, <2>2, <2>6, Boundary, Zenon
    <3> QED
      BY <3>1
  <2> QED
    BY <1>2, <1>3, <1>5, <1>6, <1>7, <2>4, <2>5, <2>6, Zenon
<1>9. CASE ~(b < new)
  <2>1. PagesOf(b, new) = {} /\ b = new
    <3>1. b = new
      BY <1>9
    <3> QED
      BY <1>9, <3>1, PagesOfRange, Zenon
  <2>2. w = x
    BY <1>3, <2>1, Zenon
  <2> QED
    BY <1>2, <1>3, <1>5, <1>6, <1>7, <2>1, <2>2, Zenon
<1> QED
  BY <1>8, <1>9, Zenon

\* The mappings and pages of a program that runs: its headers in order, then the
\* heap, which ends at e.
Segments(p, maps, set) ==
  /\ p \in Program /\ Len(maps) = Len(p) + 1
  /\ \A k \in 1..Len(p) : maps[k] = MapOf(p[k])
  /\ \A k \in 1..Len(p) : p[k].type = "load" => Pages(p[k]) \subseteq set
Heap(p, maps, set, heap, al, e) ==
  /\ e \in Nat /\ BrkStart(p) =< e /\ e < HeapBase
  /\ maps[Len(p) + 1] = [type |-> "brk", start |-> BrkStart(p), end |-> e]
  /\ al => e % P = 0 /\ PagesOf(BrkStart(p), e) \subseteq set
  /\ \A x \in set : \/ x \in heap \/ x \in PagesOf(BrkStart(p), e)
                    \/ \E k \in 1..Len(p) : p[k].type = "load" /\ x \in Pages(p[k])
Placed(p, maps, set, heap, al) == Segments(p, maps, set) /\ \E e : Heap(p, maps, set, heap, al, e)

\* They have what aspace_free needs.
LEMMA PlacedOwned ==
  ASSUME NEW p, NEW maps, NEW set, NEW heap, NEW al, Placed(p, maps, set, heap, al)
  PROVE  MapsBelow(maps) /\ Owned(maps, set, heap)
<1>1. PICK e : Heap(p, maps, set, heap, al, e)
  BY Zenon DEF Placed
<1>2. p \in Program /\ Len(maps) = Len(p) + 1 /\ \A k \in 1..Len(p) : maps[k] = MapOf(p[k])
  BY Zenon DEF Placed, Segments
<1>3. /\ e \in Nat /\ BrkStart(p) =< e /\ e < HeapBase
      /\ maps[Len(p) + 1] = [type |-> "brk", start |-> BrkStart(p), end |-> e]
      /\ \A x \in set : \/ x \in heap \/ x \in PagesOf(BrkStart(p), e)
                        \/ \E k \in 1..Len(p) : p[k].type = "load" /\ x \in Pages(p[k])
  BY <1>1, Zenon DEF Heap
<1>4. PICK N \in Nat : N = Len(p)
  BY <1>2, ProgramSeq, Zenon
<1>5. N + 1 \in 1..(N + 1) /\ \A k \in 1..(N + 1) : k = N + 1 \/ k \in 1..N
  BY <1>4
<1>6. maps[N + 1].start = BrkStart(p) /\ maps[N + 1].end = e
  BY <1>3, <1>4
<1>7. ASSUME NEW k \in 1..N PROVE maps[k].start = p[k].vaddr /\ maps[k].end = p[k].vaddr + Size(p[k])
  <2>1. maps[k] = MapOf(p[k])
    BY <1>2, <1>4, Zenon
  <2> QED
    BY <2>1 DEF MapOf
<1>8. MapsBelow(maps)
  <2>1. ASSUME NEW k \in 1..N PROVE maps[k].start =< maps[k].end /\ maps[k].end < HeapBase
    <3>1. PICK v \in Nat, z \in Nat : v = p[k].vaddr /\ z = Size(p[k])
      BY <1>2, <1>4, HeaderFacts
    <3>2. v + z < HeapBase
      BY <1>2, <1>4, <3>1, Layout, Zenon
    <3>3. v =< v + z
      BY <3>1
    <3> QED
      BY <1>7, <3>1, <3>2, <3>3, Zenon
  <2> QED
    BY <1>2, <1>3, <1>4, <1>5, <1>6, <2>1, Zenon DEF MapsBelow
<1>9. Owned(maps, set, heap)
  <2> DEFINE Own(k) == PagesOf(maps[k].start, maps[k].end)
  <2>1. PagesOf(BrkStart(p), e) = Own(N + 1)
    BY <1>6, Zenon
  <2>2. ASSUME NEW k \in 1..N, p[k].type = "load" PROVE Pages(p[k]) = Own(k)
    <3>1. Pages(p[k]) = PagesOf(p[k].vaddr, p[k].vaddr + Size(p[k]))
      BY <1>2, <1>4, <2>2, SegmentRange
    <3> QED
      BY <1>7, <3>1, Zenon
  <2>3. \A k \in 1..N : k \in 1..(N + 1)
    BY <1>4
  <2>4. 1..Len(maps) = 1..(N + 1)
    BY <1>2, <1>4, Zenon
  <2>5. set \subseteq heap \cup UNION {Own(k) : k \in 1..(N + 1)}
    <3> HIDE DEF Own
    <3> QED
      BY <1>3, <1>4, <1>5, <2>1, <2>2, <2>3, Zenon
  <2> QED
    BY <2>4, <2>5, Zenon DEF Owned
<1> QED
  BY <1>8, <1>9, Zenon

\* The inductive invariant
HeapUse == base \in Nat /\ HeapBase =< base /\ base =< page
Good == Sound /\ HeapUse /\ (prog = <<>> \/ Placed(prog, mappings, mapped, HeapPages, aligned))
AspaceInv == (panic = "none" => Good) /\ (aligned => panic # "used")

-----------------------------------------------------------------------------
(* Steps                                                                   *)

\* vmm_init
LEMMA AspaceStart == vmm_init => AspaceInv
<1> SUFFICES ASSUME vmm_init PROVE AspaceInv
  BY Zenon
<1>1. /\ mapped = PageOf(HeapBase)..PageOf(HeapBase + Prealloc - 1) /\ size = Cardinality(mapped)
      /\ mappings = <<>> /\ prog = <<>> /\ base = HeapBase /\ page = HeapBase + Prealloc /\ panic = "none"
  BY Zenon DEF vmm_init
<1>2. HeapShape /\ HeapUse
  <2>1. (HeapBase + Prealloc) % P = 0
    BY Sizes, SumBoundary
  <2> QED
    BY <1>1, <2>1, Sizes DEF HeapShape, HeapUse
<1>3. HeapPages = mapped /\ IsFiniteSet(mapped)
  <2>1. PICK t \in Nat : t = HeapBase + Prealloc /\ HeapBase < t /\ t - 1 = HeapBase + Prealloc - 1 /\ t - 1 \in Nat
    BY Sizes
  <2>2. HeapBase \in Nat
    BY Sizes, Zenon
  <2>3. PagesOf(HeapBase, t) = PageOf(HeapBase)..PageOf(t - 1)
    BY <2>1, <2>2, PagesOfRange, Zenon
  <2>4. IsFiniteSet(PageOf(HeapBase)..PageOf(t - 1))
    BY <2>1, <2>2, FiniteRange, Zenon
  <2> QED
    BY <1>1, <2>1, <2>3, <2>4, Zenon DEF HeapPages
<1>4. mappings \in Seq(Mapping) /\ Len(mappings) = 0
  BY <1>1
<1>5. MapsBelow(mappings) /\ Owned(mappings, mapped, HeapPages)
  <2>1. \A k \in 1..0 : FALSE
    OBVIOUS
  <2> QED
    BY <1>3, <1>4, <2>1, Zenon DEF MapsBelow, Owned
<1>6. Counted(Tables)
  BY <1>1, <1>3, TablesFacts, Zenon DEF Counted
<1>7. panic # "used"
  BY <1>1
<1> QED
  BY <1>1, <1>2, <1>3, <1>4, <1>5, <1>6, <1>7, Zenon DEF AspaceInv, Good, Sound

\* What SetTables takes over
LEMMA SetTablesFacts ==
  ASSUME NEW r, SetTables(r), Counted(r)
  PROVE  Counted(Tables)'
<1>1. IsFiniteSet(mapped') /\ size' = Cardinality(mapped')
  BY Zenon DEF SetTables, Counted
<1>2. Tables'.mapped = mapped' /\ Tables'.size = size'
  BY DEF Tables
<1> QED
  BY <1>1, <1>2 DEF Counted

\* A call of execve that cannot read the file stops the kernel.
LEMMA FailsStep ==
  ASSUME AspaceInv, NEW p \in Program, NEW k \in 0..Len(p), ExecveFails(p, k)
  PROVE  AspaceInv'
<1>1. PICK s : s = Image(p, k)
  BY Zenon
<1>2. panic = "none" /\ SetTables(IF s.m.panic = "none" THEN [s.m EXCEPT !.panic = "read"] ELSE s.m)
  BY <1>1, Zenon DEF ExecveFails
<1>3. Built(p, k, s)
  BY <1>1, <1>2, ImageFacts, Zenon DEF AspaceInv, Good
<1>4. PICK m : m = s.m /\ IsTables(m) /\ m.panic # "used"
  BY <1>3, Zenon DEF Built
<1>5. CASE m.panic = "none"
  <2>1. panic' = [m EXCEPT !.panic = "read"].panic
    BY <1>2, <1>4, <1>5, Zenon DEF SetTables
  <2>2. panic' = "read"
    BY <1>4, <2>1 DEF IsTables
  <2>3. panic' # "none" /\ panic' # "used"
    BY <2>2
  <2> QED
    BY <2>3, Zenon DEF AspaceInv
<1>6. CASE m.panic # "none"
  <2>1. panic' = m.panic
    BY <1>2, <1>4, <1>6, Zenon DEF SetTables
  <2> QED
    BY <1>4, <1>6, <2>1, Zenon DEF AspaceInv
<1> QED
  BY <1>5, <1>6, Zenon

\* sys_execve
LEMMA ExecveStep ==
  ASSUME AspaceInv, NEW p \in Program, sys_execve(p)
  PROVE  AspaceInv'
<1>1. PICK N \in Nat : N = Len(p) /\ N \in 0..Len(p) /\ p # <<>>
  <2>1. PICK N \in Nat : N = Len(p) /\ p # <<>>
    BY ProgramSeq, Zenon
  <2> QED
    BY <2>1
<1>2. PICK s, b, n : s = Image(p, Len(p)) /\ b = BrkStart(p) /\ n = Increment(Stack)
  BY Zenon
<1>3. PICK r : r = arch_mmap(s.m, b, n - 1) /\ SetTables(r)
  <2>1. [type |-> "brk", start |-> BrkStart(p), end |-> BrkStart(p)].end = BrkStart(p)
    OBVIOUS
  <2> QED
    BY <1>2, <2>1, Zenon DEF sys_execve
<1>4. PICK brk : brk = [type |-> "brk", start |-> b, end |-> b + n] /\ mappings' = Append(s.maps, brk)
  <2>1. PICK was : was = [type |-> "brk", start |-> b, end |-> b]
    BY Zenon
  <2>2. [was EXCEPT !.end = @ + n] = [type |-> "brk", start |-> b, end |-> b + n]
    BY <2>1
  <2>3. mappings' = Append(s.maps, Enlarged(was, Stack))
    BY <1>2, <2>1, Zenon DEF sys_execve
  <2> QED
    BY <1>2, <2>2, <2>3, Zenon DEF Enlarged
<1>5. panic = "none" /\ prog' = p /\ base' = base /\ page' = page /\ aligned' = aligned
  BY Zenon DEF sys_execve
<1>6. Sound /\ HeapUse /\ HeapShape
  BY <1>5, Zenon DEF AspaceInv, Good, Sound
<1>7. Built(p, N, s)
  BY <1>1, <1>2, <1>6, ImageFacts, Zenon
<1>8. PICK m : m = s.m /\ IsTables(m) /\ m.panic # "used"
  BY <1>7, Zenon DEF Built
<1>9. CASE m.panic # "none"
  <2>1. r = m
    BY <1>3, <1>8, <1>9, Zenon DEF arch_mmap
  <2>2. panic' = m.panic
    BY <1>3, <2>1, Zenon DEF SetTables
  <2> QED
    BY <1>8, <1>9, <2>2, Zenon DEF AspaceInv
<1>10. CASE m.panic = "none"
  <2>1. /\ Counted(m) /\ HeapPages \subseteq m.mapped
        /\ \A j \in 1..N : p[j].type = "load" => Pages(p[j]) \subseteq m.mapped
        /\ \A x \in m.mapped : x \in HeapPages \/ \E j \in 1..N : p[j].type = "load" /\ x \in Pages(p[j])
    BY <1>7, <1>8, <1>10, Zenon DEF Built
  <2>2. b \in Nat /\ b % P = 0 /\ b + n < HeapBase
    BY <1>2, Layout, Zenon
  <2>3. n \in Nat /\ n > 0 /\ n % P = 0
    <3>1. Stack \in Nat /\ Stack > 0
      BY Sizes, Zenon
    <3>2. n \in Nat /\ Stack =< n /\ n % P = 0
      BY <1>2, <3>1, IncrementFacts, Zenon
    <3> QED
      BY <3>1, <3>2
  <2>4. b =< b
    BY <2>2
  <2>5. /\ b + n \in Nat /\ n - 1 \in Nat /\ n - 1 # 0 /\ b + n - 1 \in Nat
        /\ MapPages(b, n - 1) = PageOf(b)..PageOf(b + n - 1)
        /\ MapPages(b, n - 1) \subseteq PagesOf(b, b + n)
        /\ PagesOf(b, b + n) \subseteq PagesOf(b, b) \cup MapPages(b, n - 1)
    BY <2>2, <2>3, <2>4, GrowPages, Zenon DEF Grows
  <2>6. PagesOf(b, b) = {}
    <3>1. ~(b < b)
      BY <2>2
    <3> QED
      BY <2>2, <3>1, PagesOfRange, Zenon
  <2>7. PICK new : new = MapPages(b, n - 1) /\ new = PagesOf(b, b + n) /\ new = PageOf(b)..PageOf(b + n - 1)
    BY <2>5, <2>6, Zenon
  <2>8. new \cap m.mapped = {}
    <3>1. b + n - 1 < HeapBase
      BY <2>2, <2>3, Sizes
    <3>2. new \cap HeapPages = {}
      BY <1>6, <2>2, <2>5, <2>7, <3>1, BelowHeap, Zenon
    <3>3. ASSUME NEW j \in 1..N, p[j].type = "load" PROVE Pages(p[j]) \cap new = {}
      <4>1. \A x, y \in Nat : BrkStart(p) =< x => Pages(p[j]) \cap (PageOf(x)..PageOf(y)) = {}
        BY <1>1, <3>3, SegmentBelow
      <4>2. PICK t \in Nat : t = b + n - 1
        BY <2>5, Zenon
      <4>3. Pages(p[j]) \cap (PageOf(b)..PageOf(t)) = {}
        BY <1>2, <2>2, <2>4, <4>1, Zenon
      <4> QED
        BY <2>7, <4>2, <4>3, Zenon
    <3> QED
      BY <2>1, <3>2, <3>3, Zenon
  <2>9. MapOutcome(m, b, n - 1, r)
    BY <1>3, <1>8, <1>10, <2>1, <2>2, <2>5, MapFacts, Zenon
  <2>10. IsTables(r) /\ r.panic # "used" /\ (r.panic = "none" => Counted(r) /\ r.mapped = m.mapped \cup new)
    BY <2>7, <2>8, <2>9, Zenon DEF MapOutcome
  <2>11. mapped' = r.mapped /\ panic' = r.panic
    BY <1>3, Zenon DEF SetTables
  <2>12. ASSUME panic' = "none" PROVE Good'
    <3>1. Counted(r) /\ mapped' = m.mapped \cup new
      BY <2>10, <2>11, <2>12, Zenon
    <3>2. Counted(Tables)'
      BY <1>3, <3>1, SetTablesFacts, Zenon
    <3>3. PICK maps : maps = s.maps /\ maps \in Seq(Mapping) /\ Len(maps) = N /\ \A j \in 1..N : maps[j] = MapOf(p[j])
      BY <1>7, Zenon DEF Built
    <3>4. brk \in Mapping
      BY <1>4, <2>2, <2>5 DEF Mapping
    <3>5. PICK after : after = mappings' /\ after = Append(maps, brk)
      BY <1>4, <3>3, Zenon
    <3>6. after \in Seq(Mapping) /\ Len(after) = N + 1 /\ after[N + 1] = brk /\ \A j \in 1..N : after[j] = maps[j]
      BY <3>3, <3>4, <3>5
    <3>7. HeapPages' = HeapPages /\ HeapShape' /\ HeapUse'
      BY <1>5, <1>6, Zenon DEF HeapPages, HeapShape, HeapUse
    <3>8. Segments(p, after, mapped')
      BY <1>1, <2>1, <3>1, <3>3, <3>6, Zenon DEF Segments
    <3>9. (b + n) % P = 0
      BY <2>2, <2>3, SumBoundary, Zenon
    <3>10. b =< b + n
      BY <2>2, <2>3
    <3>11. Heap(p, after, mapped', HeapPages, aligned', b + n)
      BY <1>1, <1>2, <1>4, <2>1, <2>2, <2>5, <2>7, <3>1, <3>6, <3>9, <3>10, Zenon DEF Heap
    <3>12. Placed(p, after, mapped', HeapPages, aligned')
      BY <3>8, <3>11, Zenon DEF Placed
    <3>13. MapsBelow(after) /\ Owned(after, mapped', HeapPages)
      BY <3>12, PlacedOwned, Zenon
    <3>14. HeapPages \subseteq mapped'
      BY <2>1, <3>1, Zenon
    <3>15. Sound'
      BY <2>12, <3>2, <3>5, <3>6, <3>7, <3>13, <3>14, Zenon DEF Sound
    <3> QED
      BY <1>5, <3>5, <3>7, <3>12, <3>15, Zenon DEF Good
  <2> QED
    BY <2>10, <2>11, <2>12, Zenon DEF AspaceInv
<1> QED
  BY <1>9, <1>10, Zenon

\* The heap of a program that runs is its last mapping.
LEMMA TheBrkFacts ==
  ASSUME NEW N \in Nat, N = Len(prog), Placed(prog, mappings, mapped, HeapPages, aligned), mappings \in Seq(Mapping)
  PROVE  TheBrk = N + 1
<1>1. prog \in Program /\ Len(mappings) = N + 1 /\ \A k \in 1..N : mappings[k] = MapOf(prog[k])
  BY Zenon DEF Placed, Segments
<1>2. mappings[N + 1].type = "brk"
  <2>1. \E e : mappings[N + 1] = [type |-> "brk", start |-> BrkStart(prog), end |-> e]
    BY Zenon DEF Placed, Heap
  <2> QED
    BY <2>1
<1>3. DOMAIN mappings = 1..(N + 1) /\ N + 1 \in 1..(N + 1)
  BY <1>1
<1>4. ASSUME NEW k \in 1..N PROVE mappings[k].type # "brk"
  <2>1. prog[k].type \in {"load", "tls"}
    BY <1>1, HeaderFacts
  <2>2. mappings[k].type = prog[k].type
    <3>1. mappings[k] = MapOf(prog[k])
      BY <1>1, Zenon
    <3> QED
      BY <3>1 DEF MapOf
  <2> QED
    BY <2>1, <2>2
<1>5. \A k \in 1..(N + 1) : k = N + 1 \/ k \in 1..N
  OBVIOUS
<1>6. \A k \in DOMAIN mappings : mappings[k].type = "brk" <=> k = N + 1
  BY <1>2, <1>3, <1>4, <1>5, Zenon
<1> QED
  BY <1>3, <1>6, Zenon DEF TheBrk

\* Another end of the heap leaves the other mappings.
EndsAt(maps, after, N, brk) ==
  /\ after \in Seq(Mapping) /\ Len(after) = N + 1 /\ after[N + 1] = brk
  /\ \A k \in 1..N : after[k] = maps[k]
LEMMA NewEnd ==
  ASSUME NEW N \in Nat, NEW maps \in Seq(Mapping), Len(maps) = N + 1, NEW brk \in Mapping,
         NEW after, after = [maps EXCEPT ![N + 1] = brk]
  PROVE  EndsAt(maps, after, N, brk)
<1>1. N + 1 \in 1..(N + 1)
  OBVIOUS
<1>2. after \in Seq(Mapping) /\ Len(after) = N + 1
  BY <1>1
<1>3. after[N + 1] = brk
  BY <1>1
<1>4. ASSUME NEW k \in 1..N PROVE after[k] = maps[k]
  BY <1>1
<1> QED
  BY <1>2, <1>3, <1>4, Zenon DEF EndsAt

\* What is left to show of a step of sys_brk
LEMMA BrkDone ==
  ASSUME Good, page' = page, base' = base, prog' = prog, panic' = "none", Counted(Tables)',
         HeapPages \subseteq mapped', mappings' \in Seq(Mapping),
         Placed(prog, mappings', mapped', HeapPages, aligned')
  PROVE  Good'
<1>1. HeapPages' = HeapPages /\ HeapShape' /\ HeapUse'
  BY Zenon DEF Good, Sound, HeapPages, HeapShape, HeapUse
<1>2. MapsBelow(mappings') /\ Owned(mappings', mapped', HeapPages)
  BY PlacedOwned, Zenon
<1>3. Sound'
  BY <1>1, <1>2, Zenon DEF Sound
<1> QED
  BY <1>1, <1>3, Zenon DEF Good

\* sys_brk
LEMMA BrkStep ==
  ASSUME AspaceInv, NEW new \in 1..MaxBrk, sys_brk(new)
  PROVE  AspaceInv'
<1>1. panic = "none" /\ prog # <<>> /\ prog' = prog /\ base' = base /\ page' = page
  BY Zenon DEF sys_brk
<1>2. Good /\ Sound /\ Placed(prog, mappings, mapped, HeapPages, aligned)
  BY <1>1, Zenon DEF AspaceInv, Good
<1>3. PICK N \in Nat : N = Len(prog)
  <2>1. prog \in Program
    BY <1>2, Zenon DEF Placed, Segments
  <2> QED
    BY <2>1, ProgramSeq, Zenon
<1>4. PICK maps, p : maps = mappings /\ p = prog /\ maps \in Seq(Mapping) /\ p \in Program /\ Len(maps) = N + 1
  BY <1>2, <1>3, Zenon DEF Sound, Placed, Segments
<1>5. TheBrk = N + 1
  BY <1>2, <1>3, <1>4, TheBrkFacts, Zenon
<1>6. PICK e \in Nat, b \in Nat :
        /\ b = BrkStart(p) /\ b % P = 0 /\ b =< e /\ e < HeapBase
        /\ maps[N + 1] = [type |-> "brk", start |-> b, end |-> e]
        /\ aligned => e % P = 0 /\ PagesOf(b, e) \subseteq mapped
        /\ \A x \in mapped : \/ x \in HeapPages \/ x \in PagesOf(b, e)
                             \/ \E k \in 1..N : p[k].type = "load" /\ x \in Pages(p[k])
  <2>1. PICK e : Heap(p, maps, mapped, HeapPages, aligned, e)
    BY <1>2, <1>4, Zenon DEF Placed
  <2>2. BrkStart(p) \in Nat /\ BrkStart(p) % P = 0
    BY <1>4, Layout, Zenon
  <2> QED
    BY <1>3, <1>4, <2>1, <2>2, Zenon DEF Heap
<1>7. PICK brk : brk = [type |-> "brk", start |-> b, end |-> e] /\ brk = mappings[TheBrk]
  BY <1>4, <1>5, <1>6, Zenon
<1>8. brk.start = b /\ brk.end = e
  BY <1>7
<1>9. new \in Nat /\ MaxBrk \in Nat /\ new =< MaxBrk /\ P \in Nat /\ HeapBase \in Nat /\ MaxBrk + P =< HeapBase
  BY Sizes
<1>10. new >= b /\ new # e /\ aligned' = (aligned /\ (new > e \/ new % P = 0))
  BY <1>7, <1>8, Zenon DEF sys_brk, NotBelow
<1>11. /\ \A k \in 1..N : maps[k] = MapOf(p[k])
       /\ \A k \in 1..N : p[k].type = "load" => Pages(p[k]) \subseteq mapped
  BY <1>2, <1>3, <1>4, Zenon DEF Placed, Segments
<1>12. IsTables(Tables) /\ Tables.panic = "none" /\ Tables.mapped = mapped /\ Counted(Tables)
  BY <1>1, <1>2, TablesFacts, Zenon DEF Sound
<1>13. PICK m : m = Tables
  BY Zenon
<1>14. HeapShape /\ HeapPages \subseteq mapped
  BY <1>2, Zenon DEF Sound
<1>15. CASE new > e
  <2>1. PICK r, n : n = Increment(new - e) /\ r = arch_mmap(m, e, n - 1) /\ SetTables(r)
    BY <1>7, <1>8, <1>13, <1>15, Zenon DEF sys_brk
  <2>2. new - e \in Nat /\ new - e > 0
    BY <1>9, <1>15
  <2>3. n \in Nat /\ n % P = 0 /\ new - e =< n /\ n < new - e + P
    BY <2>1, <2>2, IncrementFacts, Zenon
  <2>4. n > 0 /\ e + n < HeapBase /\ e + n - 1 < HeapBase /\ b =< e + n /\ e + n \in Nat
    BY <1>6, <1>9, <2>2, <2>3
  <2>5. PICK brk1 : brk1 = [type |-> "brk", start |-> b, end |-> e + n] /\ mappings' = [maps EXCEPT ![N + 1] = brk1]
    <3>1. mappings' = [mappings EXCEPT ![TheBrk] = Enlarged(@, new - e)]
      BY <1>7, <1>8, <1>15, Zenon DEF sys_brk
    <3>2. [brk EXCEPT !.end = @ + n] = [type |-> "brk", start |-> b, end |-> e + n]
      BY <1>7
    <3>3. Enlarged(mappings[TheBrk], new - e) = [type |-> "brk", start |-> b, end |-> e + n]
      BY <1>7, <2>1, <3>2, Zenon DEF Enlarged
    <3> QED
      BY <1>4, <1>5, <3>1, <3>3, Zenon
  <2>6. /\ n - 1 \in Nat /\ n - 1 # 0 /\ e + n - 1 \in Nat
        /\ MapPages(e, n - 1) = PageOf(e)..PageOf(e + n - 1)
        /\ MapPages(e, n - 1) \subseteq PagesOf(b, e + n)
        /\ PagesOf(b, e) \subseteq PagesOf(b, e + n)
        /\ e % P = 0 => /\ PagesOf(b, e + n) \subseteq PagesOf(b, e) \cup MapPages(e, n - 1)
                        /\ PagesOf(b, e) \cap MapPages(e, n - 1) = {}
    <3>1. Grows(b, e, n)
      BY <1>6, <2>3, <2>4, GrowPages, Zenon
    <3> QED
      BY <3>1, Zenon DEF Grows
  <2>7. PICK more, t : more = MapPages(e, n - 1) /\ t = e + n - 1 /\ t \in Nat /\ more = PageOf(e)..PageOf(t)
    BY <2>6, Zenon
  <2>8. ASSUME aligned PROVE more \cap mapped = {}
    <3>1. more \cap HeapPages = {}
      BY <1>14, <2>4, <2>7, BelowHeap, Zenon
    <3>2. ASSUME NEW k \in 1..N, p[k].type = "load" PROVE Pages(p[k]) \cap more = {}
      <4>1. \A x, y \in Nat : BrkStart(p) =< x => Pages(p[k]) \cap (PageOf(x)..PageOf(y)) = {}
        BY <1>3, <1>4, <3>2, SegmentBelow
      <4> QED
        BY <1>6, <2>7, <4>1, Zenon
    <3> QED
      BY <1>6, <2>6, <2>7, <2>8, <3>1, <3>2, Zenon
  <2>9. MapOutcome(m, e, n - 1, r)
    BY <1>12, <1>13, <2>1, <2>6, MapFacts, Zenon
  <2>10. /\ panic' = "used" => more \cap mapped # {}
         /\ panic' = "none" => Counted(r) /\ mapped' = mapped \cup more
    BY <1>12, <1>13, <2>1, <2>7, <2>9, Zenon DEF MapOutcome, SetTables
  <2>11. aligned' => aligned
    BY <1>10, Zenon
  <2>12. ASSUME panic' = "none" PROVE Good'
    <3>1. Counted(Tables)' /\ mapped' = mapped \cup more
      BY <2>1, <2>10, <2>12, SetTablesFacts, Zenon
    <3>2. brk1 \in Mapping
      BY <2>4, <2>5 DEF Mapping
    <3>3. PICK after : after = mappings' /\ after = [maps EXCEPT ![N + 1] = brk1]
      BY <2>5, Zenon
    <3>4. after \in Seq(Mapping) /\ Len(after) = N + 1 /\ after[N + 1] = brk1 /\ \A k \in 1..N : after[k] = maps[k]
      <4>1. EndsAt(maps, after, N, brk1)
        BY <1>4, <3>2, <3>3, NewEnd, Zenon
      <4> QED
        BY <4>1, Zenon DEF EndsAt
    <3>5. Segments(p, after, mapped')
      BY <1>3, <1>4, <1>11, <3>1, <3>4, Zenon DEF Segments
    <3>6. aligned => (e + n) % P = 0
      BY <1>6, <2>3, SumBoundary, Zenon
    <3>7. aligned => PagesOf(b, e + n) \subseteq mapped'
      BY <1>6, <2>6, <2>7, <3>1, Zenon
    <3>8. \A x \in mapped' : \/ x \in HeapPages \/ x \in PagesOf(b, e + n)
                             \/ \E k \in 1..N : p[k].type = "load" /\ x \in Pages(p[k])
      BY <1>6, <2>6, <2>7, <3>1, Zenon
    <3>9. Heap(p, after, mapped', HeapPages, aligned', e + n)
      BY <1>3, <1>4, <1>6, <2>4, <2>5, <2>11, <3>4, <3>6, <3>7, <3>8, Zenon DEF Heap
    <3>10. Placed(prog, mappings', mapped', HeapPages, aligned')
      BY <1>4, <3>3, <3>5, <3>9, Zenon DEF Placed
    <3>11. HeapPages \subseteq mapped'
      BY <1>14, <3>1, Zenon
    <3> QED
      BY <1>1, <1>2, <2>12, <3>1, <3>3, <3>4, <3>10, <3>11, BrkDone, Zenon
  <2> QED
    BY <2>8, <2>10, <2>11, <2>12, Zenon DEF AspaceInv
<1>16. CASE ~(new > e)
  <2>1. PICK r : r = arch_munmap(m, new, e - new - 1) /\ SetTables(r)
    BY <1>7, <1>8, <1>13, <1>16, Zenon DEF sys_brk
  <2>2. b =< new /\ new < e /\ new < HeapBase /\ e - (e - new) = new
    BY <1>6, <1>9, <1>10, <1>16
  <2>3. PICK brk1 : brk1 = [type |-> "brk", start |-> b, end |-> new] /\ mappings' = [maps EXCEPT ![N + 1] = brk1]
    <3>1. mappings' = [mappings EXCEPT ![TheBrk] = Shrunk(@, e - new)]
      BY <1>7, <1>8, <1>16, Zenon DEF sys_brk
    <3>2. [brk EXCEPT !.end = @ - (e - new)] = [type |-> "brk", start |-> b, end |-> new]
      BY <1>7, <2>2
    <3>3. Shrunk(mappings[TheBrk], e - new) = [type |-> "brk", start |-> b, end |-> new]
      BY <1>7, <3>2, Zenon DEF Shrunk
    <3> QED
      BY <1>4, <1>5, <3>1, <3>3, Zenon
  <2>4. /\ e - new - 1 \in Nat /\ e - 1 \in Nat /\ e - 1 < HeapBase
        /\ UnmapPages(new, e - new - 1) = PageOf(new)..PageOf(e - 1)
        /\ PagesOf(b, e) \subseteq PagesOf(b, new) \cup UnmapPages(new, e - new - 1)
        /\ PagesOf(b, new) \subseteq PagesOf(b, e)
        /\ new % P = 0 => PagesOf(b, new) \cap UnmapPages(new, e - new - 1) = {}
    <3>1. Shrinks(b, new, e)
      BY <1>6, <1>9, <2>2, ShrinkPages, Zenon
    <3> QED
      BY <3>1, Zenon DEF Shrinks
  <2>5. PICK less, t : less = UnmapPages(new, e - new - 1) /\ t = e - 1 /\ t \in Nat /\ less = PageOf(new)..PageOf(t)
    BY <2>4, Zenon
  <2>6. less \cap HeapPages = {}
    BY <1>9, <1>14, <2>4, <2>5, BelowHeap, Zenon
  <2>7. ASSUME NEW k \in 1..N, p[k].type = "load" PROVE Pages(p[k]) \cap less = {}
    <3>1. \A x, y \in Nat : BrkStart(p) =< x => Pages(p[k]) \cap (PageOf(x)..PageOf(y)) = {}
      BY <1>3, <1>4, <2>7, SegmentBelow
    <3> QED
      BY <1>6, <1>9, <2>2, <2>5, <3>1, Zenon
  <2>8. /\ r.panic \in {"none", "length", "unmapped"}
        /\ r.panic = "none" => Counted(r) /\ r.mapped = mapped \ less
    <3>1. UnmapOutcome(m, new, e - new - 1, r)
      BY <1>9, <1>12, <1>13, <2>1, <2>4, UnmapFacts, Zenon
    <3> QED
      BY <1>12, <1>13, <2>5, <3>1, Zenon DEF UnmapOutcome
  <2>9. panic' # "used" /\ (panic' = "none" => Counted(r) /\ mapped' = mapped \ less)
    <3>1. r.panic # "used"
      BY <2>8
    <3> QED
      BY <2>1, <2>8, <3>1, Zenon DEF SetTables
  <2>10. aligned' => aligned /\ new % P = 0
    BY <1>10, <1>16, Zenon
  <2>11. ASSUME panic' = "none" PROVE Good'
    <3>1. Counted(Tables)' /\ mapped' = mapped \ less
      BY <2>1, <2>9, <2>11, SetTablesFacts, Zenon
    <3>2. brk1 \in Mapping
      BY <1>9, <2>3 DEF Mapping
    <3>3. PICK after : after = mappings' /\ after = [maps EXCEPT ![N + 1] = brk1]
      BY <2>3, Zenon
    <3>4. after \in Seq(Mapping) /\ Len(after) = N + 1 /\ after[N + 1] = brk1 /\ \A k \in 1..N : after[k] = maps[k]
      <4>1. EndsAt(maps, after, N, brk1)
        BY <1>4, <3>2, <3>3, NewEnd, Zenon
      <4> QED
        BY <4>1, Zenon DEF EndsAt
    <3>5. Segments(p, after, mapped')
      BY <1>3, <1>4, <1>11, <2>7, <3>1, <3>4, Zenon DEF Segments
    <3>6. aligned' => PagesOf(b, new) \subseteq mapped'
      BY <1>6, <2>4, <2>5, <2>10, <3>1, Zenon
    <3>7. \A x \in mapped' : \/ x \in HeapPages \/ x \in PagesOf(b, new)
                             \/ \E k \in 1..N : p[k].type = "load" /\ x \in Pages(p[k])
      BY <1>6, <2>4, <2>5, <3>1, Zenon
    <3>8. Heap(p, after, mapped', HeapPages, aligned', new)
      BY <1>3, <1>4, <1>6, <1>9, <2>2, <2>3, <2>10, <3>4, <3>6, <3>7, Zenon DEF Heap
    <3>9. Placed(prog, mappings', mapped', HeapPages, aligned')
      BY <1>4, <3>3, <3>5, <3>8, Zenon DEF Placed
    <3>10. HeapPages \subseteq mapped'
      BY <1>14, <2>6, <3>1, Zenon
    <3> QED
      BY <1>1, <1>2, <2>11, <3>1, <3>3, <3>4, <3>9, <3>10, BrkDone, Zenon
  <2> QED
    BY <2>9, <2>11, Zenon DEF AspaceInv
<1> QED
  BY <1>15, <1>16, Zenon

\* More pages of the kernel heap change nothing for the program.
LEMMA PlacedMore ==
  ASSUME NEW p, NEW maps, NEW set, NEW heap, NEW al, NEW more, Placed(p, maps, set, heap, al)
  PROVE  Placed(p, maps, set \cup more, heap \cup more, al)
<1>1. Segments(p, maps, set \cup more)
  BY Zenon DEF Placed, Segments
<1>2. PICK e : Heap(p, maps, set, heap, al, e)
  BY Zenon DEF Placed
<1>3. Heap(p, maps, set \cup more, heap \cup more, al, e)
  BY <1>2, Zenon DEF Heap
<1> QED
  BY <1>1, <1>3, Zenon DEF Placed

\* What is mapped lies below the end of the kernel heap.
LEMMA BelowPage ==
  ASSUME Sound, NEW t \in Nat
  PROVE  mapped \cap (PageOf(page)..PageOf(t)) = {}
<1>1. PICK g \in Nat : g = page /\ g % P = 0 /\ HeapBase < g
  BY Zenon DEF Sound, HeapShape
<1>2. HeapBase \in Nat
  BY Sizes, Zenon
<1>3. ASSUME NEW a \in Nat, a < g, NEW x, x = PageOf(a) PROVE x \notin PageOf(g)..PageOf(t)
  <2>1. x < PageOf(g)
    BY <1>1, <1>3, Boundary, Zenon
  <2>2. PICK y \in Nat, z \in Nat, w \in Nat : y = PageOf(g) /\ z = x /\ w = PageOf(t)
    BY <1>3, PageBounds, Zenon
  <2>3. z \notin y..w
    BY <2>1, <2>2
  <2> QED
    BY <2>2, <2>3, Zenon
<1>4. ASSUME NEW s \in Nat, NEW e \in Nat, e =< g, NEW x \in PagesOf(s, e) PROVE x \notin PageOf(g)..PageOf(t)
  <2>1. PICK a \in Bytes(s, e) : x = PageOf(a)
    BY <1>4, Zenon DEF PagesOf
  <2>2. a \in Nat /\ a < g
    BY <1>1, <1>4, <2>1 DEF Bytes
  <2> QED
    BY <1>3, <2>1, <2>2, Zenon
<1>5. ASSUME NEW x \in HeapPages PROVE x \notin PageOf(g)..PageOf(t)
  <2>1. g =< g
    BY <1>1
  <2> QED
    BY <1>1, <1>2, <1>4, <1>5, <2>1, Zenon DEF HeapPages
<1>6. ASSUME NEW k \in 1..Len(mappings), NEW x \in PagesOf(mappings[k].start, mappings[k].end)
      PROVE  x \notin PageOf(g)..PageOf(t)
  <2>1. mappings \in Seq(Mapping) /\ mappings[k].end < HeapBase
    BY Zenon DEF Sound, MapsBelow
  <2>2. mappings[k] \in Mapping
    BY <2>1
  <2>3. PICK s \in Nat, e \in Nat : s = mappings[k].start /\ e = mappings[k].end
    BY <2>2 DEF Mapping
  <2>4. e < HeapBase
    BY <2>1, <2>3, Zenon
  <2>5. e =< g
    BY <1>1, <1>2, <2>4
  <2> QED
    BY <1>4, <1>6, <2>3, <2>5, Zenon
<1>7. mapped \subseteq HeapPages \cup UNION {PagesOf(mappings[k].start, mappings[k].end) : k \in 1..Len(mappings)}
  BY Zenon DEF Sound, Owned
<1>8. ASSUME NEW x \in mapped PROVE x \notin PageOf(g)..PageOf(t)
  <2>1. x \in HeapPages \/ \E k \in 1..Len(mappings) : x \in PagesOf(mappings[k].start, mappings[k].end)
    BY <1>7, Zenon
  <2> QED
    BY <1>5, <1>6, <2>1, Zenon
<1> QED
  BY <1>1, <1>8, Zenon

\* __morecore
LEMMA MorecoreStep ==
  ASSUME AspaceInv, NEW k \in 1..MaxMore, __morecore(k * P)
  PROVE  AspaceInv'
<1>1. PICK i \in Nat : i = k * P /\ i % P = 0 /\ i > 0
  <2>1. k \in Nat /\ k > 0 /\ P \in Nat /\ P > 0
    BY Sizes
  <2>2. k * P \in Nat /\ (k * P) % P = 0
    BY <2>1, AtBoundary, Zenon
  <2>3. k * P > 0
    BY <2>1
  <2> QED
    BY <2>2, <2>3, Zenon
<1>2. panic = "none" /\ mappings' = mappings /\ prog' = prog /\ aligned' = aligned
  BY Zenon DEF __morecore
<1>3. Good /\ Sound /\ HeapUse /\ HeapShape
  BY <1>2, Zenon DEF AspaceInv, Good, Sound
<1>4. CASE base > HeapBase + MaxHeap
  <2>1. panic' = "heap"
    BY <1>4, Zenon DEF __morecore
  <2>2. panic' # "none" /\ panic' # "used"
    BY <2>1
  <2> QED
    BY <2>2, Zenon DEF AspaceInv
<1>5. CASE ~(base > HeapBase + MaxHeap) /\ ~(base + i > page)
  <2>1. mapped' = mapped /\ size' = size /\ panic' = panic /\ page' = page /\ base' = base + i
    BY <1>1, <1>5, Zenon DEF __morecore
  <2>2. HeapUse'
    <3>1. base \in Nat /\ HeapBase =< base /\ base =< page /\ page \in Nat /\ HeapBase \in Nat
      BY <1>3, Sizes, Zenon DEF HeapUse, HeapShape
    <3>2. base + i \in Nat /\ HeapBase =< base + i /\ base + i =< page
      BY <1>5, <3>1
    <3> QED
      BY <2>1, <3>2, Zenon DEF HeapUse
  <2>3. HeapPages' = HeapPages /\ HeapShape' /\ Tables' = Tables
    BY <1>3, <2>1, Zenon DEF HeapPages, HeapShape, Tables
  <2>4. Sound'
    BY <1>2, <1>3, <2>1, <2>3, Zenon DEF Sound
  <2>5. Good'
    BY <1>2, <1>3, <2>1, <2>2, <2>3, <2>4, Zenon DEF Good
  <2>6. panic' # "used"
    BY <1>2, <2>1
  <2> QED
    BY <2>5, <2>6, Zenon DEF AspaceInv
<1>6. CASE ~(base > HeapBase + MaxHeap) /\ base + i > page
  <2>1. Extent(i) = i
    BY <1>1, Zenon DEF Extent
  <2>2. PICK r, m : m = Tables /\ r = arch_mmap(m, page, i - 1) /\ SetTables(r) /\ page' = page + i /\ base' = base + i
    BY <1>1, <1>6, <2>1, Zenon DEF __morecore
  <2>3. PICK g \in Nat : g = page /\ g % P = 0 /\ HeapBase < g /\ HeapBase \in Nat
    BY <1>3, Sizes, Zenon DEF HeapShape
  <2>4. Grows(HeapBase, g, i)
    <3>1. HeapBase =< g
      BY <2>3
    <3> QED
      BY <1>1, <2>3, <3>1, GrowPages, Zenon
  <2>5. PICK more, t : more = MapPages(g, i - 1) /\ t = g + i - 1 /\ t \in Nat /\ more = PageOf(g)..PageOf(t)
    BY <2>4, Zenon DEF Grows
  <2>6. mapped \cap more = {}
    BY <1>3, <2>3, <2>5, BelowPage, Zenon
  <2>7. IsTables(m) /\ m.panic = "none" /\ m.mapped = mapped /\ Counted(m) /\ i - 1 \in Nat /\ i - 1 # 0
    BY <1>2, <1>3, <2>2, <2>4, TablesFacts, Zenon DEF Sound, Grows
  <2>8. MapOutcome(m, g, i - 1, r)
    BY <2>2, <2>3, <2>7, MapFacts, Zenon
  <2>9. panic' # "used" /\ (panic' = "none" => Counted(r) /\ mapped' = mapped \cup more)
    BY <2>2, <2>5, <2>6, <2>7, <2>8, Zenon DEF MapOutcome, SetTables
  <2>10. ASSUME panic' = "none" PROVE Good'
    <3>1. Counted(Tables)' /\ mapped' = mapped \cup more
      BY <2>2, <2>9, <2>10, SetTablesFacts, Zenon
    <3>2. HeapPages' = HeapPages \cup more
      <4>1. HeapPages' = PagesOf(HeapBase, g + i) /\ HeapPages = PagesOf(HeapBase, g)
        BY <2>2, <2>3, Zenon DEF HeapPages
      <4>2. /\ more \subseteq PagesOf(HeapBase, g + i) /\ PagesOf(HeapBase, g) \subseteq PagesOf(HeapBase, g + i)
            /\ PagesOf(HeapBase, g + i) \subseteq PagesOf(HeapBase, g) \cup more
        BY <2>3, <2>4, <2>5, Zenon DEF Grows
      <4> QED
        BY <4>1, <4>2, Zenon
    <3>3. HeapShape' /\ HeapUse'
      <4>1. (g + i) % P = 0
        BY <1>1, <2>3, SumBoundary, Zenon
      <4>2. g + i \in Nat /\ HeapBase < g + i
        BY <2>3
      <4>3. base \in Nat /\ HeapBase =< base /\ base =< g
        BY <1>3, <2>3, Zenon DEF HeapUse
      <4>4. base + i \in Nat /\ HeapBase =< base + i /\ base + i =< g + i
        BY <2>3, <4>3
      <4> QED
        BY <2>2, <2>3, <4>1, <4>2, <4>4, Zenon DEF HeapShape, HeapUse
    <3>4. Owned(mappings, mapped \cup more, HeapPages \cup more)
      BY <1>3, Zenon DEF Sound, Owned
    <3>5. HeapPages' \subseteq mapped'
      BY <1>3, <3>1, <3>2, Zenon DEF Sound
    <3>6. Sound'
      <4>1. mappings' \in Seq(Mapping) /\ MapsBelow(mappings') /\ Owned(mappings', mapped', HeapPages')
        BY <1>2, <1>3, <3>1, <3>2, <3>4, Zenon DEF Sound
      <4> QED
        BY <2>10, <3>1, <3>3, <3>5, <4>1, Zenon DEF Sound
    <3>7. prog' = <<>> \/ Placed(prog', mappings', mapped', HeapPages', aligned')
      <4>1. CASE prog = <<>>
        BY <1>2, <4>1, Zenon
      <4>2. CASE Placed(prog, mappings, mapped, HeapPages, aligned)
        <5>1. Placed(prog, mappings, mapped \cup more, HeapPages \cup more, aligned)
          BY <4>2, PlacedMore, Zenon
        <5> QED
          BY <1>2, <3>1, <3>2, <5>1, Zenon
      <4> QED
        BY <1>3, <4>1, <4>2, Zenon DEF Good
    <3> QED
      BY <3>3, <3>6, <3>7, Zenon DEF Good
  <2> QED
    BY <2>9, <2>10, Zenon DEF AspaceInv
<1> QED
  BY <1>4, <1>5, <1>6, Zenon

\* Every step keeps the invariant.
LEMMA AspaceStep == AspaceInv /\ [AspaceNext]_avars => AspaceInv'
<1> SUFFICES ASSUME AspaceInv, [AspaceNext]_avars PROVE AspaceInv'
  BY Zenon
<1>1. CASE \E p \in Program : sys_execve(p)
  BY <1>1, ExecveStep, Zenon
<1>2. CASE \E p \in Program : \E k \in 0..Len(p) : ExecveFails(p, k)
  BY <1>2, FailsStep, Zenon
<1>3. CASE \E new \in 1..MaxBrk : sys_brk(new)
  BY <1>3, BrkStep, Zenon
<1>4. CASE \E n \in 1..MaxMore : __morecore(n * P)
  BY <1>4, MorecoreStep, Zenon
<1>5. CASE UNCHANGED avars
  BY <1>5, Zenon DEF avars, AspaceInv, Good, Sound, HeapShape, HeapUse, HeapPages, Tables
<1> QED
  BY <1>1, <1>2, <1>3, <1>4, <1>5, Zenon DEF AspaceNext

\* AspaceInv is an invariant.
LEMMA AspaceAlways == AspaceSpec => []AspaceInv
BY AspaceStart, AspaceStep, PTL DEF AspaceSpec

-----------------------------------------------------------------------------
(* Theorems about virtual memory                                           *)

\* The heap that sys_brk reports, all of it
LEMMA BrkMappedFollows == AspaceInv => BrkMapped
<1> SUFFICES ASSUME AspaceInv, Runs, aligned
             PROVE  PagesOf(mappings[TheBrk].start, mappings[TheBrk].end) \subseteq mapped
  BY Zenon DEF BrkMapped
<1>1. Good /\ Placed(prog, mappings, mapped, HeapPages, aligned) /\ mappings \in Seq(Mapping)
  BY Zenon DEF AspaceInv, Good, Sound, Runs
<1>2. PICK N \in Nat : N = Len(prog)
  <2>1. prog \in Program
    BY <1>1, Zenon DEF Placed, Segments
  <2> QED
    BY <2>1, ProgramSeq, Zenon
<1>3. TheBrk = N + 1
  BY <1>1, <1>2, TheBrkFacts, Zenon
<1>4. PICK e : /\ mappings[N + 1] = [type |-> "brk", start |-> BrkStart(prog), end |-> e]
               /\ PagesOf(BrkStart(prog), e) \subseteq mapped
  BY <1>1, <1>2, Zenon DEF Placed, Heap
<1>5. mappings[N + 1].start = BrkStart(prog) /\ mappings[N + 1].end = e
  BY <1>4
<1> QED
  BY <1>3, <1>4, <1>5, Zenon

\* A segment's bytes are in its pages; the bytes of a PT_TLS header are in the
\* segment around it.
LEMMA SegmentsMappedFollows == AspaceInv => SegmentsMapped
<1> SUFFICES ASSUME AspaceInv, Runs, NEW h \in Range(prog)
             PROVE  PagesOf(h.vaddr, h.vaddr + h.memsz) \subseteq mapped
  BY Zenon DEF SegmentsMapped
<1>1. /\ prog \in Program
      /\ \A k \in 1..Len(prog) : prog[k].type = "load" => Pages(prog[k]) \subseteq mapped
  BY Zenon DEF AspaceInv, Good, Runs, Placed, Segments
<1>2. PICK p : p = prog /\ p \in Program
  BY <1>1, Zenon
<1>3. PICK k \in 1..Len(p) : h = p[k]
  BY <1>2, ProgramSeq, Zenon DEF Range
<1>4. \E j \in 1..Len(p) : /\ p[j].type = "load" /\ p[j].vaddr =< h.vaddr
                           /\ h.vaddr + h.memsz =< p[j].vaddr + p[j].memsz
  <2>1. CASE h.type = "load"
    <3>1. PICK v \in Nat, n \in Nat : v = h.vaddr /\ n = h.memsz
      BY <1>2, <1>3, HeaderFacts
    <3>2. v =< v /\ v + n =< v + n
      OBVIOUS
    <3> QED
      BY <1>3, <2>1, <3>1, <3>2, Zenon
  <2>2. CASE h.type = "tls"
    <3>1. DOMAIN p = 1..Len(p)
      BY <1>2, ProgramSeq, Zenon
    <3> QED
      BY <1>2, <1>3, <2>2, <3>1, ProgramAssumption, Zenon
  <2>3. h.type \in {"load", "tls"}
    BY <1>2, <1>3, HeaderFacts
  <2> QED
    BY <2>1, <2>2, <2>3, Zenon
<1>5. PICK j \in 1..Len(p) : /\ p[j].type = "load" /\ p[j].vaddr =< h.vaddr
                             /\ h.vaddr + h.memsz =< p[j].vaddr + p[j].memsz
  BY <1>4, Zenon
<1>6. PICK v \in Nat, n \in Nat : v = h.vaddr /\ n = h.memsz
  BY <1>2, <1>3, HeaderFacts
<1>7. PICK w \in Nat, o \in Nat, z \in Nat : w = p[j].vaddr /\ o = p[j].memsz /\ z = Size(p[j]) /\ o =< z
  BY <1>2, <1>5, HeaderFacts
<1>8. w =< v /\ v + n =< w + o
  BY <1>5, <1>6, <1>7, Zenon
<1>9. v + n \in Nat /\ w + z \in Nat /\ v + n =< w + z
  <2>1. o =< z
    BY <1>7, Zenon
  <2> QED
    BY <1>8, <2>1
<1>10. PagesOf(v, v + n) \subseteq PagesOf(w, w + z)
  BY <1>8, <1>9, PagesOfPart, Zenon
<1>11. Pages(p[j]) = PagesOf(w, w + z)
  BY <1>2, <1>5, <1>7, SegmentRange
<1> QED
  BY <1>1, <1>2, <1>5, <1>6, <1>10, <1>11, Zenon

\* What is mapped, and how much
LEMMA PagesAccountedFollows == AspaceInv => PagesAccounted
<1> SUFFICES ASSUME AspaceInv, panic = "none" PROVE PagesAccounted
  BY Zenon DEF PagesAccounted
<1>1. Sound
  BY Zenon DEF AspaceInv, Good
<1>2. DOMAIN mappings = 1..Len(mappings)
  <2>1. mappings \in Seq(Mapping)
    BY <1>1, Zenon DEF Sound
  <2> QED
    BY <2>1
<1>3. size = Cardinality(mapped)
  BY <1>1, TablesFacts, Zenon DEF Sound, Counted
<1> QED
  BY <1>1, <1>2, <1>3, Zenon DEF PagesAccounted, Sound, Owned, HeapPages

\* The part of the kernel heap that is in use
LEMMA HeapMappedFollows == AspaceInv => HeapMapped
<1> SUFFICES ASSUME AspaceInv, panic = "none" PROVE PagesOf(HeapBase, base) \subseteq mapped
  BY Zenon DEF HeapMapped
<1>1. /\ base \in Nat /\ base =< page /\ page \in Nat /\ PagesOf(HeapBase, page) \subseteq mapped
  BY Zenon DEF AspaceInv, Good, Sound, HeapShape, HeapUse, HeapPages
<1>2. HeapBase \in Nat /\ HeapBase =< HeapBase
  BY Sizes
<1>3. PagesOf(HeapBase, base) \subseteq PagesOf(HeapBase, page)
  BY <1>1, <1>2, PagesOfPart
<1> QED
  BY <1>1, <1>3, Zenon

\* As long as a program shrinks its heap to page boundaries only, all of the heap
\* that sys_brk reports is mapped.
THEOREM BrkIsMapped == AspaceSpec => []BrkMapped
BY AspaceAlways, BrkMappedFollows, PTL

\* The segments that sys_execve loaded stay mapped, whatever sys_brk and __morecore do.
THEOREM SegmentsStay == AspaceSpec => []SegmentsMapped
BY AspaceAlways, SegmentsMappedFollows, PTL

\* No page is left behind by execve or brk, and aspace->size counts those that are mapped.
THEOREM PagesAreAccounted == AspaceSpec => []PagesAccounted
BY AspaceAlways, PagesAccountedFollows, PTL

\* What __morecore has handed out is mapped.
THEOREM HeapIsMapped == AspaceSpec => []HeapMapped
BY AspaceAlways, HeapMappedFollows, PTL

\* The assertion of x86_map_page that a page is not in use holds for programs that
\* shrink their heap to page boundaries only.
THEOREM NeverRemaps == AspaceSpec => []AlignedNeverRemaps
<1>1. AspaceInv => AlignedNeverRemaps
  BY Zenon DEF AspaceInv, AlignedNeverRemaps
<1> QED
  BY <1>1, AspaceAlways, PTL
=============================================================================
