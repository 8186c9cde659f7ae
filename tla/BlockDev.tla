------------------------------ MODULE BlockDev ------------------------------
(***************************************************************************)
(* The block layer (drivers/dev/block/main.c): byte-addressed block_read   *)
(* and block_write of one device over a driver that moves whole blocks.    *)
(* A call is cut into a first partial block, a last partial block and runs *)
(* of whole blocks; partial blocks go through the one-block cache of the   *)
(* device.  Any call of the driver may fail.  The calls of a device are    *)
(* serialised by the lock of its inode (vfs_read, vfs_write).              *)
(***************************************************************************)
EXTENDS Integers, Sequences

CONSTANTS BlkSize, BlkCount, BlkMax,          \* device->blk
          Offs,      \* the first blocks of the devices: 0 for the disk, another for a partition
          Writes,    \* the <<offset, size>> of the writes the environment makes
          MaxOffset, MaxSize,                 \* bounds on the reads
          New        \* the byte every write carries; a byte on the disk is a number

ASSUME BlockAssumption ==
  /\ BlkSize \in Nat \ {0} /\ BlkCount \in Nat \ {0} /\ Offs \subseteq Nat /\ BlkMax \in Nat
  /\ Writes \subseteq Nat \X Nat /\ {MaxOffset, MaxSize} \subseteq Nat

VARIABLES blkoff,  \* device->blk.blkoff
          disk,    \* what the driver has stored
          cache,   \* device->blk.cache
          dirty,   \* blocks whose copy in the cache differs from the disk: a store has
                   \* failed, or a whole block was written past the cache
          phase,   \* no call, one that runs, has returned, or has stopped the kernel
          call,    \* its arguments, its next step, its result and its buffer
          before   \* disk and dirty when it began

vars == <<blkoff, disk, cache, dirty, phase, call, before>>

InBlock == 0..(BlkSize - 1)
Block == 0..(BlkCount - 1)
End == BlkCount * BlkSize
NoData == [b \in InBlock |-> New]

NoCall == [op |-> "none", offset |-> 0, n |-> 0, k |-> 0, ret |-> 0, buf |-> <<>>]
NoBefore == [disk |-> <<>>, dirty |-> {}]

\* block_init: nothing cached.
Init ==
  /\ blkoff \in Offs
  /\ disk = [k \in Block |-> [b \in InBlock |-> k * BlkSize + b]]
  /\ cache = [cached |-> FALSE, blkno |-> 0, data |-> NoData]
  /\ dirty = {}
  /\ phase = "idle" /\ call = NoCall /\ before = NoBefore

\* The offset of the device, and the size that is left of the request.  The numbers are
\* not cut to the width of a size_t: the disk and offset + size are below it.
Start(offset) == offset + blkoff * BlkSize
Clamp(offset, size) ==
  IF Start(offset) >= End THEN 0
  ELSE IF Start(offset) + size >= End THEN End - Start(offset) ELSE size

-----------------------------------------------------------------------------
\* The plan of a call on bytes o .. o + n - 1 of the disk: its steps in order.  A step
\* has its block, the bytes of the block, the place in buf, the number of blocks, and
\* what the call returns if the step fails.
Piece(kind, blk, from, len, at, count, back) ==
  [kind |-> kind, blk |-> blk, from |-> from, len |-> len, at |-> at, count |-> count, back |-> back]

HeadToEnd(o, n) == IF o % BlkSize = 0 THEN 0 ELSE BlkSize - (o % BlkSize)
HeadLen(o, n) ==
  LET p == BlkSize - (o % BlkSize) IN IF o % BlkSize = 0 THEN 0 ELSE IF p > n THEN n ELSE p
HeadPiece(o, n) ==
  IF HeadLen(o, n) = 0 THEN <<>>
  ELSE <<Piece("part", o \div BlkSize, o % BlkSize, HeadLen(o, n), 0, 1, 0)>>

\* sb and eb after the head, and after the tail.
FirstBlk(o, n) == o \div BlkSize + Len(HeadPiece(o, n))
LastBlk(o, n) == (o + n - 1) \div BlkSize
TailLen(o, n) == IF FirstBlk(o, n) =< LastBlk(o, n) THEN (o + n) % BlkSize ELSE 0
TailPiece(o, n) ==
  IF TailLen(o, n) = 0 THEN <<>>
  ELSE <<Piece("part", LastBlk(o, n), 0, TailLen(o, n), n - TailLen(o, n), 1, HeadLen(o, n))>>
Middle(o, n) == LastBlk(o, n) - Len(TailPiece(o, n)) - FirstBlk(o, n) + 1

WholeSameXoff(sb, k, count, xoff) ==
  Piece("whole", sb + k * BlkMax, 0, count * BlkSize, xoff, count, xoff)
Whole(sb, k, count, xoff) ==
  Piece("whole", sb + k * BlkMax, 0, count * BlkSize, xoff + k * BlkMax * BlkSize, count,
        xoff + k * BlkMax * BlkSize)

\* block_read: runs of blkmax blocks while as many are left, then the rest.
ReadRuns(sb, i, xoff) ==
  IF BlkMax = 0 THEN <<Whole(sb, 0, i, xoff)>>
  ELSE LET full == i \div BlkMax
       IN  [k \in 1..full |-> Whole(sb, k - 1, BlkMax, xoff)]
           \o (IF i % BlkMax > 0 THEN <<Whole(sb, full, i % BlkMax, xoff)>> ELSE <<>>)

\* block_write: the loop compares the block number, not the number written, with i.
WriteRuns(sb, i, xoff) ==
  IF BlkMax = 0 THEN <<Whole(sb, 0, i, xoff)>>
  ELSE LET full == IF sb + BlkMax < i THEN (i - sb - 1) \div BlkMax ELSE 0
       IN  [k \in 1..full |-> Whole(sb, k - 1, BlkMax, xoff)]
           \o <<Whole(sb, full, i - (sb + full * BlkMax), xoff)>>

Plan(op, o, n) ==
  IF n = 0 THEN <<>>
  ELSE HeadPiece(o, n) \o TailPiece(o, n)
       \o (IF Middle(o, n) =< 0 THEN <<>>
           ELSE IF op = "read" THEN ReadRuns(FirstBlk(o, n), Middle(o, n), HeadLen(o, n))
           ELSE WriteRuns(FirstBlk(o, n), Middle(o, n), HeadLen(o, n)))

-----------------------------------------------------------------------------
\* A call begins: the plan is what the rest of it executes.  The device is READY
\* (device_mkdev sets it before the first call, and device_read and device_write have
\* tested it already), and has the functions of a disk: without a function to write,
\* block_write returns 0 as for a request of no bytes.
Begin(op, offset, size) ==
  LET n == Clamp(offset, size)
  IN  /\ phase = "idle"
      /\ phase' = "run"
      /\ call' = [op |-> op, offset |-> offset, n |-> n, k |-> 1, ret |-> n,
                  buf |-> IF op = "read" THEN [j \in 1..n |-> New] ELSE <<>>]
      /\ before' = [disk |-> disk, dirty |-> dirty]
      /\ UNCHANGED <<blkoff, disk, cache, dirty>>

block_read == \E offset \in 0..MaxOffset, size \in 0..MaxSize : Begin("read", offset, size)
block_write == \E w \in Writes : Begin("write", w[1], w[2])

Steps == Plan(call.op, Start(call.offset), call.n)
Now == Steps[call.k]
Doing(op, kind) == phase = "run" /\ call.op = op /\ call.k =< Len(Steps) /\ Now.kind = kind
Stop == phase' = "done" /\ call' = [call EXCEPT !.ret = Now.back]
Advance == phase' = phase /\ call' = [call EXCEPT !.k = @ + 1]

\* __cache_is_cached, and the cache after a partial block has been brought in.
IsCached(blk) == cache.cached /\ cache.blkno = blk
Loaded(blk) == IF IsCached(blk) THEN cache ELSE [cached |-> TRUE, blkno |-> blk, data |-> disk[blk]]

\* memcpy between the call's buffer and a block.
Put(buf, p, data) == [j \in DOMAIN buf |->
  IF j - 1 \in p.at..(p.at + p.len - 1) THEN data[p.from + (j - 1 - p.at)] ELSE buf[j]]
Patch(data, p) == [b \in InBlock |-> IF b \in p.from..(p.from + p.len - 1) THEN New ELSE data[b]]

\* The patch is made in the cache itself.
PatchedAside(old, p) == old
Patched(old, p) == [old EXCEPT !.data = Patch(@, p)]

\* A partial block: it is brought into the cache, unless the driver fails to load it ...
LoadFails ==
  /\ Doing("read", "part") \/ Doing("write", "part")
  /\ ~IsCached(Now.blk)
  /\ Stop
  /\ UNCHANGED <<blkoff, disk, cache, dirty, before>>
\* ... and copied out, ...
ReadPart ==
  /\ Doing("read", "part")
  /\ cache' = Loaded(Now.blk)
  /\ dirty' = dirty \cap {Now.blk}
  /\ phase' = phase /\ call' = [call EXCEPT !.k = @ + 1, !.buf = Put(@, Now, Loaded(Now.blk).data)]
  /\ UNCHANGED <<blkoff, disk, before>>
\* ... or patched there and stored, unless the driver fails, with the block stored or not.
WritePart ==
  /\ Doing("write", "part")
  /\ cache' = Patched(Loaded(Now.blk), Now)
  /\ disk' = [disk EXCEPT ![Now.blk] = Patch(Loaded(Now.blk).data, Now)]
  /\ dirty' = {}
  /\ Advance
  /\ UNCHANGED <<blkoff, before>>
StoreFails ==
  /\ Doing("write", "part")
  /\ cache' = Patched(Loaded(Now.blk), Now)
  /\ disk' \in {disk, [disk EXCEPT ![Now.blk] = Patch(Loaded(Now.blk).data, Now)]}
  /\ dirty' = {Now.blk}
  /\ Stop
  /\ UNCHANGED <<blkoff, before>>

\* A run of whole blocks goes past the cache.  A driver that is asked for no block, or
\* for a negative number of them, stops the kernel: DEBUG_ASSERT(count), or the fault
\* of a memset of that length.
OnDisk(a) == disk[a \div BlkSize][a % BlkSize]
ReadWhole ==
  /\ Doing("read", "whole")
  /\ phase' = phase
  /\ call' = [call EXCEPT !.k = @ + 1,
                          !.buf = Put(@, Now, [b \in 0..(Now.len - 1) |-> OnDisk(Now.blk * BlkSize + b)])]
  /\ UNCHANGED <<blkoff, disk, cache, dirty, before>>
RunOf(p) == p.blk..(p.blk + p.count - 1)
WriteWhole ==
  /\ Doing("write", "whole") /\ Now.count > 0
  /\ disk' = [k \in Block |-> IF k \in RunOf(Now) THEN NoData ELSE disk[k]]
  /\ dirty' = IF cache.cached /\ cache.blkno \in RunOf(Now) THEN {cache.blkno} ELSE dirty
  /\ Advance
  /\ UNCHANGED <<blkoff, cache, before>>
\* A driver that fails has stored some of the run, from its beginning on.
RunFails ==
  /\ \/ Doing("read", "whole") /\ UNCHANGED <<disk, dirty>>
     \/ /\ Doing("write", "whole") /\ Now.count > 0
        /\ \E stored \in {{}} \cup {Now.blk..k : k \in RunOf(Now)} :
             /\ disk' = [k \in Block |-> IF k \in stored THEN NoData ELSE disk[k]]
             /\ dirty' = IF cache.cached /\ cache.blkno \in stored THEN {cache.blkno} ELSE dirty
  /\ Stop
  /\ UNCHANGED <<blkoff, cache, before>>
Halt ==
  /\ Doing("write", "whole") /\ Now.count =< 0
  /\ phase' = "halt"
  /\ UNCHANGED <<blkoff, disk, cache, dirty, call, before>>

\* The size is returned, and the caller has seen it.
Finish ==
  /\ phase = "run" /\ call.k > Len(Steps)
  /\ phase' = "done"
  /\ UNCHANGED <<blkoff, disk, cache, dirty, call, before>>
Return ==
  /\ phase = "done"
  /\ phase' = "idle" /\ call' = NoCall /\ before' = NoBefore
  /\ UNCHANGED <<blkoff, disk, cache, dirty>>

Next ==
  \/ block_read \/ block_write
  \/ LoadFails \/ ReadPart \/ WritePart \/ StoreFails
  \/ ReadWhole \/ WriteWhole \/ RunFails \/ Halt
  \/ Finish \/ Return
Spec == Init /\ [][Next]_vars

-----------------------------------------------------------------------------
\* A call of block_read that returns r has delivered, in their places, the r bytes
\* that are on the disk, however the request was cut into blocks and runs and
\* whichever driver call failed; only a cached block whose last store has failed, or
\* that was written past the cache, may differ.
ReadExact ==
  phase = "done" /\ call.op = "read" =>
    \A j \in 1..call.ret :
      LET a == Start(call.offset) + (j - 1)
      IN  a \div BlkSize \in before.dirty \/ call.buf[j] = OnDisk(a)

\* The one-block cache is a copy of its block unless the driver has failed to store it,
\* or whole blocks were written past it since it was filled.
CacheCoherent == cache.cached /\ cache.blkno \notin dirty => cache.data = disk[cache.blkno]

RunsFromZero(o, n) == Middle(o, n) > 0 => FirstBlk(o, n) = 0 \/ BlkMax = 0

\* A write changes no byte outside its range, and when it returns the size every byte
\* inside it is stored: a partial block is read, patched and stored as a whole, and
\* whole blocks are stored in runs.  Two exceptions are the code's: the runs are right
\* only from block 0 on, and a stale cached block takes its old bytes to the disk.
WriteExact ==
  phase = "done" /\ call.op = "write" =>
    LET o == Start(call.offset)
    IN  \A k \in Block, b \in InBlock :
          IF k * BlkSize + b \in o..(o + call.n - 1)
          THEN call.ret = call.n /\ RunsFromZero(o, call.n) => disk[k][b] = New
          ELSE k \in before.dirty \/ disk[k][b] = before.disk[k][b]
=============================================================================
