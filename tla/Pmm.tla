-------------------------------- MODULE Pmm ---------------------------------
(***************************************************************************)
(* The physical page allocator (kernel/mm/pmm.c): a bitmap of blocks under *)
(* bitmap_lock, claimed at boot from the memory map, then allocated and    *)
(* freed by any CPU.  mbd->memory.used is updated after the lock has been  *)
(* dropped, with a plain read and a plain write.                           *)
(***************************************************************************)
EXTENDS Integers, Sequences, FiniteSets

CONSTANTS Cpu, Free,
          PageSize,  \* mbd->memory.pagesize
          MemSize,   \* mbd->memory.size
          WordBits,  \* bits of one bitmap word (32 in the code)
          Regions,   \* mbd->mmap.ptr: <<address, length>> of what is not available
          KernelEnd, \* end of the kernel image and of the bitmap
          UsedMod    \* mbd->memory.used wraps here, counted in pages (2^64 in the code)

ASSUME CpuAssumption == Free \notin Cpu
ASSUME SizeAssumption ==
  /\ PageSize \in Nat \ {0} /\ MemSize \in Nat /\ WordBits \in Nat \ {0}
  /\ KernelEnd \in Nat /\ UsedMod \in Nat \ {0}
  /\ Regions \in Seq(Nat \X Nat)

VARIABLES bitmap,    \* the blocks whose bit is set
          used,      \* mbd->memory.used
          lock,      \* bitmap_lock, by owner
          pc, blk,   \* per CPU: where it is, and its local variable block (or p)
          seen,      \* per CPU: the value of used it has read
          held       \* the blocks callers own (mapped pages and page tables)

vars == <<bitmap, used, lock, pc, blk, seen, held>>

\* pmm_init_bitmap: the bitmap is rounded down to whole words.
Words == (MemSize \div PageSize) \div WordBits
Block == 0..(Words * WordBits - 1)
NoBlock == -1

\* pmm_claim: both ends included, while used grows by the difference.  (A claim
\* that reaches past the last whole word sets bits outside the bitmap; these
\* stand for no block.)
Claim(start, end) ==
  IF end > MemSize THEN {} ELSE {b \in Block : start \div PageSize =< b /\ b =< end \div PageSize}
ClaimedPages(start, end) ==
  IF end > MemSize THEN 0 ELSE end \div PageSize - start \div PageSize

\* pmm_init: the regions that fit, then the kernel with the bitmap.
Fits(r) == r[1] =< MemSize /\ r[1] + r[2] =< MemSize
RegionClaim(i) ==
  IF Fits(Regions[i]) THEN Claim(Regions[i][1], Regions[i][1] + Regions[i][2]) ELSE {}
Claimed == (UNION {RegionClaim(i) : i \in DOMAIN Regions}) \cup Claim(0, KernelEnd)
UsedBy[i \in 0..Len(Regions)] ==
  IF i = 0 THEN ClaimedPages(0, KernelEnd)
  ELSE UsedBy[i - 1] + IF Fits(Regions[i]) THEN ClaimedPages(Regions[i][1], Regions[i][1] + Regions[i][2]) ELSE 0

\* The claims that follow pmm_init (ACPI tables, APICs, the start page of the other
\* CPUs) are not steps: they are taken to lie in what is claimed here or behind the
\* memory.  pmm_claim does not notice a page that has been given out already.
Init ==
  /\ bitmap = Claimed
  /\ used \in 0..(UsedMod - 1) /\ used = UsedBy[Len(Regions)] % UsedMod
  /\ lock = Free
  /\ pc = [c \in Cpu |-> "idle"]
  /\ blk = [c \in Cpu |-> NoBlock]
  /\ seen = [c \in Cpu |-> 0]
  /\ held = {}

-----------------------------------------------------------------------------
Least(S) == CHOOSE x \in S : \A y \in S : x =< y
Greatest(S) == CHOOSE x \in S : \A y \in S : y =< x
FreeIn(i) == {i * WordBits + j : j \in 0..(WordBits - 1)} \ bitmap
NotFull == {i \in 0..(Words - 1) : FreeIn(i) # {}}

\* pmm_alloc_block_from_end: the last word that is not 0xFFFFFFFF, its LOWEST
\* clear bit.
ScanDown == IF NotFull = {} THEN NoBlock ELSE Least(FreeIn(Greatest(NotFull)))

\* pmm_alloc_block: the first word that is not 0xFFFFFFFF, its lowest clear bit.
ScanUp == IF NotFull = {} THEN NoBlock ELSE Least(FreeIn(Least(NotFull)))

\* spinlock_lock(&bitmap_lock) gets past its test-and-set
LockIgnored == TRUE
LockIsFree == lock = Free

\* spinlock_unlock(&bitmap_lock)
UnlockForgotten == UNCHANGED lock
Unlock == lock' = Free

\* bitmap[p / 32] &= ~(1 << (p % 32))
BitKept(b) == bitmap
BitCleared(b) == bitmap \ {b}

Goto(c, p) == pc' = [pc EXCEPT ![c] = p]

\* A caller asks for a block (x86_map_page, through pmm_alloc_block_safe) ...
CallAlloc(c, p) ==
  /\ pc[c] = "idle" /\ p \in {"alloc", "alloc_end"}
  /\ Goto(c, p)
  /\ UNCHANGED <<bitmap, used, lock, blk, seen, held>>

\* ... or gives one of its blocks back (x86_unmap_page).
CallFree(c, b) ==
  /\ pc[c] = "idle" /\ b \in held
  /\ held' = held \ {b}
  /\ blk' = [blk EXCEPT ![c] = b]
  /\ Goto(c, "free")
  /\ UNCHANGED <<bitmap, used, lock, seen>>

Lock(c) ==
  /\ pc[c] \in {"alloc", "alloc_end", "free"} /\ LockIsFree
  /\ lock' = c
  /\ Goto(c, CASE pc[c] = "alloc" -> "scan" [] pc[c] = "alloc_end" -> "scan_end" [] OTHER -> "clear")
  /\ UNCHANGED <<bitmap, used, blk, seen, held>>

\* The scan finds a clear bit ...
Scan(c) ==
  /\ pc[c] \in {"scan", "scan_end"}
  /\ blk' = [blk EXCEPT ![c] = IF pc[c] = "scan" THEN ScanUp ELSE ScanDown]
  /\ Goto(c, "mark")
  /\ UNCHANGED <<bitmap, used, lock, seen, held>>

\* ... and sets it.
Mark(c) ==
  /\ pc[c] = "mark"
  /\ bitmap' = IF blk[c] = NoBlock THEN bitmap ELSE bitmap \cup {blk[c]}
  /\ Unlock
  /\ Goto(c, "marked")
  /\ UNCHANGED <<used, blk, seen, held>>

\* DEBUG_ASSERT(block != -1) stops the CPU when memory is exhausted.
OutOfMemory(c) ==
  /\ pc[c] = "marked" /\ blk[c] = NoBlock
  /\ Goto(c, "panic")
  /\ UNCHANGED <<bitmap, used, lock, blk, seen, held>>

ReadUsed(c) ==
  /\ (pc[c] = "marked" /\ blk[c] # NoBlock) \/ pc[c] = "cleared"
  /\ seen' = [seen EXCEPT ![c] = used]
  /\ Goto(c, IF pc[c] = "marked" THEN "count" ELSE "uncount")
  /\ UNCHANGED <<bitmap, used, lock, blk, held>>

\* used is stored and the block returned to the caller.
AllocReturn(c) ==
  /\ pc[c] = "count"
  /\ used' = (seen[c] + 1) % UsedMod
  /\ held' = held \cup {blk[c]}
  /\ blk' = [blk EXCEPT ![c] = NoBlock]
  /\ seen' = [seen EXCEPT ![c] = 0]
  /\ Goto(c, "idle")
  /\ UNCHANGED <<bitmap, lock>>

Clear(c) ==
  /\ pc[c] = "clear"
  /\ bitmap' = BitCleared(blk[c])
  /\ Unlock
  /\ Goto(c, "cleared")
  /\ UNCHANGED <<used, blk, seen, held>>

FreeReturn(c) ==
  /\ pc[c] = "uncount"
  /\ used' = (seen[c] - 1) % UsedMod
  /\ blk' = [blk EXCEPT ![c] = NoBlock]
  /\ seen' = [seen EXCEPT ![c] = 0]
  /\ Goto(c, "idle")
  /\ UNCHANGED <<bitmap, lock, held>>

Call(c) == (\E p \in {"alloc", "alloc_end"} : CallAlloc(c, p)) \/ (\E b \in Block : CallFree(c, b))
Run(c) ==
  \/ Scan(c) \/ Mark(c) \/ OutOfMemory(c) \/ ReadUsed(c) \/ AllocReturn(c) \/ Clear(c) \/ FreeReturn(c)

Next == \E c \in Cpu : Call(c) \/ Lock(c) \/ Run(c)

Spec == Init /\ [][Next]_vars

\* A CPU inside the allocator keeps running; a spinning one gets the lock.
FairSpec == Spec /\ \A c \in Cpu : WF_vars(Run(c)) /\ SF_vars(Lock(c))

-----------------------------------------------------------------------------
Pc == {"idle", "alloc", "alloc_end", "free", "scan", "scan_end", "mark", "marked", "count",
       "clear", "cleared", "uncount", "panic"}
InLockPc == {"scan", "scan_end", "mark", "clear"}

TypeOK ==
  /\ bitmap \subseteq Block /\ held \subseteq Block
  /\ used \in 0..(UsedMod - 1) /\ seen \in [Cpu -> 0..(UsedMod - 1)]
  /\ lock \in Cpu \cup {Free}
  /\ pc \in [Cpu -> Pc]
  /\ blk \in [Cpu -> Block \cup {NoBlock}]

LockOwner == \A c \in Cpu : pc[c] \in InLockPc <=> lock = c

\* The blocks on their way to a caller: chosen and marked, or only chosen.
Granting(c) == pc[c] = "count" \/ (pc[c] = "marked" /\ blk[c] # NoBlock)
Returning(c) == pc[c] \in {"free", "clear"}

\* A block found by the scan is still clear when its bit is set.
PickStillFree == \A c \in Cpu : pc[c] = "mark" => blk[c] \notin bitmap

\* Every block that is claimed, owned by a caller, about to be handed out or
\* not yet given back has its bit set, and no block is two of these at once:
\* no page is ever given to two callers or taken from reserved memory.
NoDoubleAlloc ==
  /\ Claimed \cup held \subseteq bitmap /\ Claimed \cap held = {}
  /\ \A c \in Cpu : Granting(c) \/ Returning(c) =>
       /\ blk[c] \in bitmap /\ blk[c] \notin Claimed \cup held
       /\ \A d \in Cpu \ {c} : Granting(d) \/ Returning(d) => blk[d] # blk[c]

\* Nothing leaks: a set bit belongs to reserved memory, to a caller, or to a
\* call in progress.
NoLeak ==
  \A b \in bitmap : b \in Claimed \cup held \/ \E c \in Cpu : blk[c] = b /\ (Granting(c) \/ Returning(c))

\* The inductive invariant of pmm.c: the types, bitmap_lock excludes, and a block
\* that a CPU has chosen under it is still clear when the CPU sets its bit.
PmmInv == TypeOK /\ LockOwner /\ PickStillFree /\ NoDoubleAlloc /\ NoLeak

\* Every allocation that starts returns a block or stops on exhausted memory,
\* and every free returns.
CallsReturn == \A c \in Cpu : pc[c] \in {"alloc", "alloc_end", "free"} ~> pc[c] \in {"idle", "panic"}
=============================================================================
