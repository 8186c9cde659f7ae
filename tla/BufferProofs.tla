---------------------------- MODULE BufferProofs ----------------------------
(***************************************************************************)
(* The two components that keep bytes in buffers of their own. The block   *)
(* layer and its cache, for every block size, number of blocks, length of  *)
(* a run and offset, and for every sequence of calls and failures; the     *)
(* ring buffer, for every number of CPUs, size of the ring and of a call.  *)
(***************************************************************************)
EXTENDS BlockDev, Ringbuffer, TLAPS

-----------------------------------------------------------------------------
\* Division by the block size.
LEMMA DivMod ==
  ASSUME NEW a \in Nat
  PROVE  /\ a \div BlkSize \in Nat /\ a % BlkSize \in InBlock
         /\ a = (a \div BlkSize) * BlkSize + (a % BlkSize)
BY BlockAssumption DEF InBlock

\* A block begins where the one before it ends, or later.
LEMMA BlocksApart ==
  ASSUME NEW p \in Int, NEW q \in Int, p < q
  PROVE  p * BlkSize + BlkSize =< q * BlkSize
BY BlockAssumption

\* Quotient and remainder are the only ones.
LEMMA DivUnique ==
  ASSUME NEW a \in Nat, NEW q \in Nat, NEW r \in InBlock, a = q * BlkSize + r
  PROVE  a \div BlkSize = q /\ a % BlkSize = r
<1>1. PICK d \in Nat : d = a \div BlkSize
  BY DivMod, Zenon
<1>2. PICK s \in InBlock : s = a % BlkSize
  BY DivMod, Zenon
<1>3. a = d * BlkSize + s
  BY <1>1, <1>2, DivMod, Zenon
<1>4. ~(d < q)
  BY <1>3, BlocksApart, BlockAssumption DEF InBlock
<1>5. ~(q < d)
  BY <1>3, BlocksApart, BlockAssumption DEF InBlock
<1>6. d = q
  BY <1>4, <1>5
<1>7. s = r
  BY <1>3, <1>6, BlockAssumption DEF InBlock
<1> QED
  BY <1>1, <1>2, <1>6, <1>7, Zenon

-----------------------------------------------------------------------------
\* Head, whole blocks and tail tile the request, in block_read and in block_write.
Tiles(o, n) ==
  LET h == HeadLen(o, n)
      t == TailLen(o, n)
      sb == FirstBlk(o, n)
      lb == LastBlk(o, n)
      i == Middle(o, n)
  IN  /\ h \in 0..n /\ t \in 0..n /\ sb \in Nat /\ lb \in Nat /\ i \in Int
      /\ h > 0 => /\ o \div BlkSize \in Nat /\ o % BlkSize \in InBlock
                  /\ (o \div BlkSize) * BlkSize + (o % BlkSize) = o
                  /\ (o % BlkSize) + h =< BlkSize
                  /\ (o % BlkSize) + h = BlkSize \/ h = n
      /\ t > 0 => lb * BlkSize + t = o + n /\ t =< BlkSize /\ t =< n - h
      /\ i > 0 => sb * BlkSize = o + h /\ (sb + i) * BlkSize = o + n - t
      /\ i =< 0 => h + t = n

\* The cut of a request into head, whole blocks and tail is a tiling for every offset
\* and size, also when the request ends inside its first block.
LEMMA Tiling ==
  ASSUME NEW o \in Nat, NEW n \in Nat \ {0}
  PROVE  Tiles(o, n)
<1> DEFINE h == HeadLen(o, n)
           t == TailLen(o, n)
           sb == FirstBlk(o, n)
           lb == LastBlk(o, n)
           i == Middle(o, n)
<1>0. BlkSize \in Nat /\ BlkSize > 0
  BY BlockAssumption
<1>1. PICK d \in Nat, r \in InBlock : d = o \div BlkSize /\ r = o % BlkSize /\ o = d * BlkSize + r
  BY DivMod, Zenon
<1>2. PICK e \in Nat, s \in InBlock : e = (o + n - 1) \div BlkSize /\ s = (o + n - 1) % BlkSize
                                      /\ o + n - 1 = e * BlkSize + s
  <2>1. o + n - 1 \in Nat
    OBVIOUS
  <2> QED
    BY <2>1, DivMod, Zenon
<1>3. r \in Nat /\ r < BlkSize /\ s \in Nat /\ s < BlkSize
  BY <1>0 DEF InBlock
<1>4. h = IF r = 0 THEN 0 ELSE IF BlkSize - r > n THEN n ELSE BlkSize - r
  BY <1>1, Zenon DEF HeadLen
<1>5. h \in 0..n /\ (r = 0 <=> h = 0)
  BY <1>0, <1>3, <1>4
<1>6. sb = (IF r = 0 THEN d ELSE d + 1) /\ lb = e
  BY <1>1, <1>2, <1>5 DEF FirstBlk, LastBlk, HeadPiece
<1>7. sb =< lb => sb * BlkSize = o + h
  <2>1. CASE r = 0
    <3>1. sb = d /\ h = 0 /\ o = d * BlkSize
      BY <1>0, <1>1, <1>4, <1>6, <2>1
    <3> HIDE DEF sb, h
    <3> QED
      BY <3>1
  <2>2. CASE r # 0 /\ d + 1 =< e
    <3>1. d * BlkSize + BlkSize =< e * BlkSize
      BY <2>2, BlocksApart
    <3>2. BlkSize - r =< n
      BY <1>0, <1>1, <1>2, <1>3, <3>1
    <3>3. h = BlkSize - r
      BY <1>0, <1>3, <1>4, <2>2, <3>2
    <3>4. (d + 1) * BlkSize = d * BlkSize + BlkSize
      BY <1>0
    <3> QED
      BY <1>0, <1>1, <1>3, <1>6, <2>2, <3>3, <3>4, SMTT(20)
  <2>3. r # 0 /\ sb =< lb => d + 1 =< e
    BY <1>6, Zenon
  <2> QED
    BY <2>1, <2>2, <2>3, Zenon
<1>8. sb > lb => h = n
  <2>1. CASE r = 0
    <3>1. ~(e < d)
      <4>1. e < d => e * BlkSize + BlkSize =< d * BlkSize
        BY BlocksApart
      <4> QED
        BY <1>0, <1>1, <1>2, <1>3, <2>1, <4>1
    <3> QED
      BY <1>6, <2>1, <3>1, Zenon
  <2>2. CASE r # 0 /\ e =< d
    <3>1. e * BlkSize =< d * BlkSize
      BY <1>0, <2>2, BlocksApart
    <3>2. n =< BlkSize - r
      BY <1>0, <1>1, <1>2, <1>3, <3>1
    <3> QED
      BY <1>0, <1>3, <1>4, <2>2, <3>2
  <2> QED
    BY <1>6, <2>1, <2>2
<1>9. (o + n) % BlkSize = IF s = BlkSize - 1 THEN 0 ELSE s + 1
  <2>1. CASE s = BlkSize - 1
    <3>0. (e + 1) * BlkSize = e * BlkSize + BlkSize /\ e * BlkSize \in Nat
      BY <1>0
    <3>1. o + n = (e + 1) * BlkSize + 0
      BY <1>0, <1>2, <2>1, <3>0
    <3>2. o + n \in Nat /\ e + 1 \in Nat /\ 0 \in InBlock
      BY <1>0 DEF InBlock
    <3>3. (o + n) % BlkSize = 0
      BY <3>1, <3>2, DivUnique, Zenon
    <3> QED
      BY <2>1, <3>3, Zenon
  <2>2. CASE s # BlkSize - 1
    <3>1. o + n = e * BlkSize + (s + 1) /\ s + 1 \in InBlock
      BY <1>0, <1>2, <1>3, <2>2 DEF InBlock
    <3> QED
      BY <2>2, <3>1, DivUnique
  <2> QED
    BY <2>1, <2>2, Zenon
<1>10. t = IF sb =< lb THEN (IF s = BlkSize - 1 THEN 0 ELSE s + 1) ELSE 0
  BY <1>9, Zenon DEF TailLen
<1>11. t \in Nat /\ t =< BlkSize
  BY <1>0, <1>3, <1>10
<1>12. t > 0 => sb =< lb /\ lb * BlkSize + t = o + n
  BY <1>0, <1>2, <1>3, <1>6, <1>10
<1>13. sb =< lb /\ t = 0 => (lb + 1) * BlkSize = o + n
  BY <1>0, <1>2, <1>3, <1>6, <1>10
<1>14. i = lb - (IF t = 0 THEN 0 ELSE 1) - sb + 1
  BY <1>11, Zenon DEF Middle, TailPiece
<1>15. sb \in Nat /\ lb \in Nat /\ i \in Int
  BY <1>6, <1>14
<1> HIDE DEF h, t, sb, lb, i
<1>16. t > 0 => t =< n - h
  <2>1. t > 0 => sb * BlkSize =< lb * BlkSize
    BY <1>0, <1>12, <1>15, BlocksApart
  <2> QED
    BY <1>0, <1>5, <1>7, <1>11, <1>12, <1>15, <2>1
<1>17. t \in 0..n
  BY <1>5, <1>11, <1>16
<1>18. i > 0 => sb * BlkSize = o + h /\ (sb + i) * BlkSize = o + n - t
  <2> SUFFICES ASSUME i > 0 PROVE sb * BlkSize = o + h /\ (sb + i) * BlkSize = o + n - t
    BY Zenon
  <2>1. sb =< lb
    BY <1>14, <1>15
  <2>2. CASE t = 0
    <3>1. sb + i = lb + 1
      BY <1>14, <1>15, <2>2
    <3> QED
      BY <1>7, <1>13, <2>1, <2>2, <3>1
  <2>3. CASE t # 0
    <3>1. sb + i = lb
      BY <1>14, <1>15, <2>3
    <3>2. lb * BlkSize = o + n - t
      BY <1>0, <1>11, <1>12, <1>15, <2>3
    <3> QED
      BY <1>7, <2>1, <3>1, <3>2, Zenon
  <2> QED
    BY <2>2, <2>3, Zenon
<1>19. i =< 0 => h + t = n
  <2>1. CASE sb > lb
    BY <1>5, <1>8, <1>10, <1>15, <2>1
  <2>2. CASE sb =< lb /\ i =< 0
    <3>1. t > 0 /\ sb = lb
      BY <1>11, <1>14, <1>15, <2>2
    <3> QED
      BY <1>0, <1>5, <1>7, <1>11, <1>12, <1>15, <3>1
  <2> QED
    BY <1>15, <2>1, <2>2
<1>20. h > 0 => /\ o \div BlkSize \in Nat /\ o % BlkSize \in InBlock
                /\ (o \div BlkSize) * BlkSize + (o % BlkSize) = o
                /\ (o % BlkSize) + h =< BlkSize
                /\ (o % BlkSize) + h = BlkSize \/ h = n
  BY <1>0, <1>1, <1>3, <1>4
<1> QED
  BY <1>5, <1>11, <1>12, <1>15, <1>16, <1>17, <1>18, <1>19, <1>20, Zenon DEF Tiles, h, t, sb, lb, i
-----------------------------------------------------------------------------
\* The bytes of the request a step moves.
Span(p) == p.at..(p.at + p.len - 1)

\* A step moves bytes of the request between their places in the buffer and on the
\* disk; a partial one covers all the bytes the request has in its block.
Fits(o, n, p) ==
  /\ p.at \in Nat /\ p.len \in Int /\ p.blk \in Nat /\ p.from \in Nat /\ p.back \in Nat /\ p.count \in Int
  /\ p.blk * BlkSize + p.from = o + p.at
  /\ p.at + p.len =< n
  /\ \/ /\ p.kind = "part" /\ p.len > 0 /\ p.from + p.len =< BlkSize /\ p.back < n
        /\ \A b \in InBlock : p.blk * BlkSize + b \in o..(o + n - 1) => b \in p.from..(p.from + p.len - 1)
     \/ p.kind = "whole" /\ p.from = 0 /\ p.len = p.count * BlkSize /\ p.back = p.at

\* A plan does the partial blocks first.  What a failing read returns has been read by
\* the steps before; the steps of a read, and of a write whose runs start at block 0,
\* leave out no byte.
Sound(op, o, n, P) ==
  /\ Len(P) \in Nat
  /\ \A k \in 1..Len(P) : Fits(o, n, P[k])
  /\ \A k \in 1..Len(P) : P[k].kind = "part" => \A m \in 1..k : P[m].kind = "part"
  /\ op = "read" => \A k \in 1..Len(P) : \A x \in 0..(P[k].back - 1) :
                      \E m \in 1..(k - 1) : x \in Span(P[m])
  /\ op = "read" \/ RunsFromZero(o, n) => \A x \in 0..(n - 1) : \E m \in 1..Len(P) : x \in Span(P[m])

\* What a byte of the disk can hold: where it came from, or the byte of the writes.
Bytes == Nat \cup {New}

\* The types of the device, and of a call's arguments.
BlockTypes ==
  /\ blkoff \in Nat
  /\ disk \in [Block -> [InBlock -> Bytes]]
  /\ cache \in [cached : BOOLEAN, blkno : Block, data : [InBlock -> Bytes]]
  /\ phase \in {"idle", "run", "done", "halt"}

CallOK ==
  /\ call = [op |-> call.op, offset |-> call.offset, n |-> call.n, k |-> call.k, ret |-> call.ret, buf |-> call.buf]
  /\ call.op \in {"read", "write"} /\ call.offset \in Nat /\ call.n \in Nat /\ call.k \in Nat \ {0}

\* What a read has delivered of the steps it has done.
ReadSoFar ==
  /\ DOMAIN call.buf = 1..call.n
  /\ \A m \in 1..(call.k - 1) : \A j \in 1..call.n : j - 1 \in Span(Steps[m]) =>
       LET a == Start(call.offset) + (j - 1)
       IN  a \div BlkSize \in before.dirty \/ call.buf[j] = OnDisk(a)

\* What a write has stored, and left alone.
WrittenSoFar ==
  \A k \in Block, b \in InBlock :
    LET a == k * BlkSize + b
        o == Start(call.offset)
    IN  IF a \in o..(o + call.n - 1)
        THEN (\E m \in 1..(call.k - 1) : a - o \in Span(Steps[m])) => disk[k][b] = New
        ELSE k \in before.dirty \/ disk[k][b] = before.disk[k][b]

\* A call on its way: the stale blocks are those it began with, until a write stores
\* whole blocks past the cache.
Running ==
  /\ CallOK
  /\ call.n > 0 => Start(call.offset) + call.n =< End
  /\ call.ret = call.n /\ call.k =< Len(Steps) + 1
  /\ call.op = "read" \/ (\A m \in 1..(call.k - 1) : Steps[m].kind = "part") => dirty \subseteq before.dirty
  /\ call.op = "read" => ReadSoFar
  /\ call.op = "write" => WrittenSoFar

\* The inductive invariant.
BlockInv ==
  /\ BlockTypes /\ CacheCoherent
  /\ phase = "run" => Running
  /\ ReadExact /\ WriteExact

-----------------------------------------------------------------------------
\* Division by any positive number.
LEMMA Division ==
  ASSUME NEW a \in Nat, NEW w \in Nat \ {0}
  PROVE  /\ a \div w \in Nat /\ a % w \in 0..(w - 1)
         /\ a = (a \div w) * w + (a % w)
OBVIOUS

\* The runs of whole blocks, N of them: all but the last are of blkmax blocks.
RunList(R, sb, i, h, N, c) ==
  /\ N \in Nat \ {0} /\ c \in Int
  /\ (N - 1) * BlkMax + c =< i /\ (N > 1 => (N - 1) * BlkMax =< i) /\ (BlkMax = 0 => N = 1)
  /\ R = [k \in 1..N |-> Whole(sb, k - 1, IF k < N THEN BlkMax ELSE c, h)]

\* What the loops of block_read and of block_write ask the driver for.
LEMMA RunsShape ==
  ASSUME NEW op \in {"read", "write"}, NEW sb \in Nat, NEW i \in Nat \ {0}, NEW h \in Nat
  PROVE  \E N, c : /\ RunList(IF op = "read" THEN ReadRuns(sb, i, h) ELSE WriteRuns(sb, i, h), sb, i, h, N, c)
                   /\ op = "read" \/ sb = 0 \/ BlkMax = 0 => (N - 1) * BlkMax + c = i
<1>0. BlkMax \in Nat
  BY BlockAssumption, Zenon
<1>1. CASE BlkMax = 0
  <2>1. RunList(<<Whole(sb, 0, i, h)>>, sb, i, h, 1, i)
    BY <1>1 DEF RunList
  <2>2. ReadRuns(sb, i, h) = <<Whole(sb, 0, i, h)>> /\ WriteRuns(sb, i, h) = <<Whole(sb, 0, i, h)>>
    BY <1>1, Zenon DEF ReadRuns, WriteRuns
  <2>3. (1 - 1) * BlkMax + i = i
    BY <1>1
  <2> QED
    BY <2>1, <2>2, <2>3, Zenon
<1>2. CASE BlkMax # 0 /\ op = "read"
  <2>1. PICK f \in Nat, r \in 0..(BlkMax - 1) : f = i \div BlkMax /\ r = i % BlkMax /\ i = f * BlkMax + r
    BY <1>0, <1>2, Division
  <2> DEFINE F == [k \in 1..f |-> Whole(sb, k - 1, BlkMax, h)]
  <2>2. ReadRuns(sb, i, h) = F \o (IF r > 0 THEN <<Whole(sb, f, r, h)>> ELSE <<>>)
    BY <1>2, <2>1, Zenon DEF ReadRuns
  <2>3. CASE r > 0
    <3>1. F \o <<Whole(sb, f, r, h)>> = [k \in 1..(f + 1) |-> Whole(sb, k - 1, IF k < f + 1 THEN BlkMax ELSE r, h)]
      OBVIOUS
    <3>2. ((f + 1) - 1) * BlkMax + r = i /\ ((f + 1) - 1) * BlkMax =< i
      BY <1>0, <2>1
    <3>3. RunList(ReadRuns(sb, i, h), sb, i, h, f + 1, r)
      <4>1. ReadRuns(sb, i, h) = [k \in 1..(f + 1) |-> Whole(sb, k - 1, IF k < f + 1 THEN BlkMax ELSE r, h)]
        BY <2>2, <2>3, <3>1, Zenon
      <4>2. r \in Int /\ f + 1 \in Nat \ {0}
        BY <1>0
      <4>3. ((f + 1) - 1) * BlkMax + r =< i
        BY <3>2
      <4> QED
        BY <1>2, <3>2, <4>1, <4>2, <4>3, Zenon DEF RunList
    <3> QED
      BY <1>2, <3>2, <3>3, Zenon
  <2>4. CASE r = 0
    <3>0. f # 0
      BY <1>0, <2>1, <2>4
    <3>1. F \o <<>> = [k \in 1..f |-> Whole(sb, k - 1, IF k < f THEN BlkMax ELSE BlkMax, h)]
      OBVIOUS
    <3>2. (f - 1) * BlkMax + BlkMax = i
      BY <1>0, <2>1, <2>4
    <3>3. RunList(ReadRuns(sb, i, h), sb, i, h, f, BlkMax)
      <4>1. ReadRuns(sb, i, h) = [k \in 1..f |-> Whole(sb, k - 1, IF k < f THEN BlkMax ELSE BlkMax, h)]
        BY <2>2, <2>4, <3>1
      <4>2. (f - 1) * BlkMax + BlkMax =< i /\ (f - 1) * BlkMax =< i
        <5>1. (f - 1) * BlkMax \in Int
          BY <1>0
        <5> QED
          BY <1>0, <3>2, <5>1
      <4>3. BlkMax \in Int /\ f \in Nat \ {0}
        BY <1>0, <3>0
      <4> QED
        BY <1>2, <4>1, <4>2, <4>3, Zenon DEF RunList
    <3> QED
      BY <1>2, <3>2, <3>3, Zenon
  <2> QED
    BY <2>3, <2>4
<1>3. CASE BlkMax # 0 /\ op = "write"
  <2>1. PICK f \in Nat : /\ f = IF sb + BlkMax < i THEN (i - sb - 1) \div BlkMax ELSE 0
                         /\ f > 0 => f * BlkMax =< i - sb - 1
    <3>1. CASE sb + BlkMax < i
      <4>1. i - sb - 1 \in Nat
        BY <1>0, <3>1
      <4> QED
        BY <1>0, <1>3, <3>1, <4>1, Division
    <3> QED
      BY <3>1
  <2> DEFINE F == [k \in 1..f |-> Whole(sb, k - 1, BlkMax, h)]
             c == i - (sb + f * BlkMax)
  <2>2. WriteRuns(sb, i, h) = F \o <<Whole(sb, f, c, h)>>
    BY <1>3, <2>1, Zenon DEF WriteRuns
  <2>3. F \o <<Whole(sb, f, c, h)>> = [k \in 1..(f + 1) |-> Whole(sb, k - 1, IF k < f + 1 THEN BlkMax ELSE c, h)]
    OBVIOUS
  <2>4. /\ c \in Int /\ f * BlkMax \in Int
        /\ f * BlkMax + c =< i
        /\ f > 0 => f * BlkMax =< i
        /\ sb = 0 => f * BlkMax + c = i
    BY <1>0, <2>1
  <2> HIDE DEF c, F
  <2>5. (f + 1) - 1 = f
    OBVIOUS
  <2>6. RunList(WriteRuns(sb, i, h), sb, i, h, f + 1, c)
    <3>1. WriteRuns(sb, i, h) = [k \in 1..(f + 1) |-> Whole(sb, k - 1, IF k < f + 1 THEN BlkMax ELSE c, h)]
      BY <2>2, <2>3, Zenon
    <3>2. ((f + 1) - 1) * BlkMax + c =< i /\ (f + 1 > 1 => ((f + 1) - 1) * BlkMax =< i)
      BY <2>4, <2>5
    <3>3. c \in Int /\ f + 1 \in Nat \ {0}
      BY <2>4
    <3> QED
      BY <1>3, <3>1, <3>2, <3>3, Zenon DEF RunList
  <2> QED
    BY <1>3, <2>4, <2>5, <2>6, Zenon
<1> QED
  BY <1>1, <1>2, <1>3, Zenon

\* A list of lists, by position.
LEMMA Joined ==
  ASSUME NEW S, NEW H \in Seq(S), NEW T \in Seq(S), NEW R \in Seq(S)
  PROVE  /\ Len(H \o T \o R) = Len(H) + Len(T) + Len(R)
         /\ \A k \in 1..Len(H) : (H \o T \o R)[k] = H[k]
         /\ \A k \in 1..Len(T) : (H \o T \o R)[Len(H) + k] = T[k]
         /\ \A k \in 1..Len(R) : (H \o T \o R)[Len(H) + Len(T) + k] = R[k]
BY SMTT(30)

\* The steps of a plan.
PlanStep == [kind : {"part", "whole"}, blk : Int, from : Int, len : Int, at : Int, count : Int, back : Int]

\* The first and the last partial block are steps of their own where there are any.
LEMMA Ends ==
  ASSUME NEW o \in Nat, NEW n \in Nat \ {0}
  PROVE  LET h == HeadLen(o, n)
             t == TailLen(o, n)
             H == HeadPiece(o, n)
             T == TailPiece(o, n)
         IN  /\ H \in Seq(PlanStep) /\ T \in Seq(PlanStep)
             /\ Len(H) = IF h > 0 THEN 1 ELSE 0
             /\ Len(T) = IF t > 0 THEN 1 ELSE 0
             /\ h > 0 => H[1] = Piece("part", o \div BlkSize, o % BlkSize, h, 0, 1, 0)
             /\ t > 0 => T[1] = Piece("part", LastBlk(o, n), 0, t, n - t, 1, h)
<1> DEFINE h == HeadLen(o, n)
           t == TailLen(o, n)
           lb == LastBlk(o, n)
<1>1. h \in Nat /\ t \in Nat /\ lb \in Nat
  BY Tiling DEF Tiles
<1>2. o \div BlkSize \in Nat /\ o % BlkSize \in Nat
  BY DivMod DEF InBlock
<1>3. HeadPiece(o, n) = IF h = 0 THEN <<>> ELSE <<Piece("part", o \div BlkSize, o % BlkSize, h, 0, 1, 0)>>
  BY Zenon DEF HeadPiece
<1>4. TailPiece(o, n) = IF t = 0 THEN <<>> ELSE <<Piece("part", lb, 0, t, n - t, 1, h)>>
  BY Zenon DEF TailPiece
<1> HIDE DEF h, t, lb
<1>5. Piece("part", o \div BlkSize, o % BlkSize, h, 0, 1, 0) \in PlanStep
  BY <1>1, <1>2 DEF PlanStep, Piece
<1>6. Piece("part", lb, 0, t, n - t, 1, h) \in PlanStep
  BY <1>1 DEF PlanStep, Piece
<1>7. /\ HeadPiece(o, n) \in Seq(PlanStep) /\ TailPiece(o, n) \in Seq(PlanStep)
      /\ Len(HeadPiece(o, n)) = IF h > 0 THEN 1 ELSE 0
      /\ Len(TailPiece(o, n)) = IF t > 0 THEN 1 ELSE 0
      /\ h > 0 => HeadPiece(o, n)[1] = Piece("part", o \div BlkSize, o % BlkSize, h, 0, 1, 0)
      /\ t > 0 => TailPiece(o, n)[1] = Piece("part", lb, 0, t, n - t, 1, h)
  BY <1>1, <1>3, <1>4, <1>5, <1>6
<1> QED
  BY <1>7, Zenon DEF h, t, lb

\* The partial blocks of a request are cut out of it exactly.
LEMMA PartsFit ==
  ASSUME NEW o \in Nat, NEW n \in Nat \ {0}
  PROVE  LET h == HeadLen(o, n)
             t == TailLen(o, n)
         IN  /\ h > 0 => Fits(o, n, Piece("part", o \div BlkSize, o % BlkSize, h, 0, 1, 0))
             /\ t > 0 => Fits(o, n, Piece("part", LastBlk(o, n), 0, t, n - t, 1, h))
<1> DEFINE h == HeadLen(o, n)
           t == TailLen(o, n)
           lb == LastBlk(o, n)
<1>0. BlkSize \in Nat /\ BlkSize > 0
  BY BlockAssumption
<1>1. /\ h \in 0..n /\ t \in 0..n /\ lb \in Nat
      /\ t > 0 => lb * BlkSize + t = o + n /\ t =< BlkSize /\ t =< n - h
  BY Tiling, Zenon DEF Tiles
<1>2. h > 0 => Fits(o, n, Piece("part", o \div BlkSize, o % BlkSize, h, 0, 1, 0))
  <2> SUFFICES ASSUME h > 0 PROVE Fits(o, n, Piece("part", o \div BlkSize, o % BlkSize, h, 0, 1, 0))
    BY Zenon
  <2>1. PICK d \in Nat, r \in InBlock : /\ d = o \div BlkSize /\ r = o % BlkSize
                                        /\ d * BlkSize + r = o /\ r + h =< BlkSize
                                        /\ r + h = BlkSize \/ h = n
    BY Tiling DEF Tiles
  <2>2. d * BlkSize \in Nat
    BY <1>0
  <2> HIDE DEF h
  <2>3. \A b \in InBlock : d * BlkSize + b \in o..(o + n - 1) => b \in r..(r + h - 1)
    BY <1>0, <1>1, <2>1, <2>2 DEF InBlock
  <2>4. Fits(o, n, Piece("part", d, r, h, 0, 1, 0))
    BY <1>0, <1>1, <2>1, <2>3 DEF Fits, Piece, InBlock
  <2> QED
    BY <2>1, <2>4, Zenon
<1>3. t > 0 => Fits(o, n, Piece("part", lb, 0, t, n - t, 1, h))
  <2> HIDE DEF h, t, lb
  <2> SUFFICES ASSUME t > 0 PROVE Fits(o, n, Piece("part", lb, 0, t, n - t, 1, h))
    BY Zenon
  <2>2. lb * BlkSize \in Nat
    BY <1>0, <1>1
  <2>3. \A b \in InBlock : lb * BlkSize + b \in o..(o + n - 1) => b \in 0..(0 + t - 1)
    BY <1>0, <1>1, <2>2 DEF InBlock
  <2>4. lb * BlkSize + 0 = o + (n - t) /\ (n - t) + t =< n /\ h < n /\ n - t \in Nat
    BY <1>0, <1>1, <2>2
  <2> QED
    BY <1>0, <1>1, <2>3, <2>4 DEF Fits, Piece, InBlock
<1> QED
  BY <1>2, <1>3, Zenon DEF h, t, lb

\* A run of whole blocks stays inside the middle of the request.
LEMMA RunFits ==
  ASSUME NEW o \in Nat, NEW n \in Nat \ {0}, Middle(o, n) > 0,
         NEW q \in Nat, NEW c \in Int, q * BlkMax + c =< Middle(o, n)
  PROVE  Fits(o, n, Whole(FirstBlk(o, n), q, c, HeadLen(o, n)))
<1> DEFINE h == HeadLen(o, n)
           sb == FirstBlk(o, n)
           i == Middle(o, n)
           t == TailLen(o, n)
<1>0. BlkSize \in Nat /\ BlkSize > 0 /\ BlkMax \in Nat
  BY BlockAssumption
<1>1. /\ h \in 0..n /\ t \in 0..n /\ sb \in Nat /\ i \in Int
      /\ sb * BlkSize = o + h /\ (sb + i) * BlkSize = o + n - t
  BY Tiling DEF Tiles
<1>2. q * BlkMax + c =< i
  BY Zenon
<1> HIDE DEF h, sb, i, t
<1>3. PICK u \in Nat : u = q * BlkMax
  BY <1>0
<1>4. (u + c) * BlkSize =< i * BlkSize
  BY <1>0, <1>1, <1>2, <1>3
<1>5. /\ (u + c) * BlkSize = u * BlkSize + c * BlkSize
      /\ (sb + i) * BlkSize = sb * BlkSize + i * BlkSize
      /\ (sb + u) * BlkSize = sb * BlkSize + u * BlkSize
  BY <1>0, <1>1
<1>6. u * BlkSize \in Nat /\ c * BlkSize \in Int /\ i * BlkSize \in Int /\ sb * BlkSize \in Nat
  BY <1>0, <1>1
<1>7. (sb + u) * BlkSize + 0 = o + (h + u * BlkSize) /\ (h + u * BlkSize) + c * BlkSize =< n
  BY <1>1, <1>4, <1>5, <1>6
<1>8. Whole(sb, q, c, h) = Piece("whole", sb + u, 0, c * BlkSize, h + u * BlkSize, c, h + u * BlkSize)
  BY <1>3, Zenon DEF Whole
<1>9. Fits(o, n, Piece("whole", sb + u, 0, c * BlkSize, h + u * BlkSize, c, h + u * BlkSize))
  BY <1>1, <1>6, <1>7 DEF Fits, Piece
<1> QED
  BY <1>8, <1>9, Zenon DEF sb, h

\* Where a run of whole blocks lies in the buffer.
LEMMA RunSpan ==
  ASSUME NEW R, NEW sb \in Nat, NEW i \in Nat, NEW h \in Nat, NEW N, NEW c,
         RunList(R, sb, i, h, N, c), NEW m \in 1..N
  PROVE  /\ R[m].at = h + (m - 1) * (BlkMax * BlkSize) /\ R[m].back = R[m].at
         /\ R[m].len = (IF m < N THEN BlkMax ELSE c) * BlkSize
         /\ R[m].kind = "whole"
<1>0. BlkSize \in Nat /\ BlkMax \in Nat
  BY BlockAssumption, Zenon
<1>1. R[m] = Whole(sb, m - 1, IF m < N THEN BlkMax ELSE c, h)
  BY Zenon DEF RunList
<1>2. ((m - 1) * BlkMax) * BlkSize = (m - 1) * (BlkMax * BlkSize)
  <2>1. m \in Nat
    BY DEF RunList
  <2> QED
    BY <1>0, <2>1
<1> QED
  BY <1>1, <1>2 DEF Whole, Piece

\* The runs before a run reach as far as its beginning, and all of them together to the
\* end of the middle: xoff advances with the block number.
LEMMA RunsCover ==
  ASSUME NEW R, NEW sb \in Nat, NEW i \in Nat \ {0}, NEW h \in Nat, NEW N, NEW c,
         RunList(R, sb, i, h, N, c)
  PROVE  /\ \A k \in 1..N : \A x \in h..(R[k].back - 1) : \E m \in 1..(k - 1) : x \in Span(R[m])
         /\ (N - 1) * BlkMax + c = i =>
              \A x \in h..(h + i * BlkSize - 1) : \E m \in 1..N : x \in Span(R[m])
<1>0. BlkSize \in Nat /\ BlkSize > 0 /\ BlkMax \in Nat
  BY BlockAssumption
<1>1. N \in Nat \ {0} /\ c \in Int /\ (BlkMax = 0 => N = 1)
  BY Zenon DEF RunList
<1> DEFINE w == BlkMax * BlkSize
<1>2. w \in Nat /\ (BlkMax # 0 => w > 0)
  BY <1>0
<1> HIDE DEF w
<1>3. \A m \in 1..N : /\ R[m].at = h + (m - 1) * w /\ R[m].back = R[m].at
                      /\ m < N => R[m].len = w
                      /\ m = N => R[m].len = c * BlkSize
  <2> SUFFICES ASSUME NEW m \in 1..N
               PROVE  /\ R[m].at = h + (m - 1) * w /\ R[m].back = R[m].at
                      /\ m < N => R[m].len = w
                      /\ m = N => R[m].len = c * BlkSize
    BY Zenon
  <2>1. /\ R[m].at = h + (m - 1) * w /\ R[m].back = R[m].at
        /\ R[m].len = (IF m < N THEN BlkMax ELSE c) * BlkSize
    BY RunSpan DEF w
  <2>2. m < N => R[m].len = w
    BY <2>1, Zenon DEF w
  <2>3. m = N => R[m].len = c * BlkSize
    BY <1>1, <2>1
  <2> QED
    BY <2>1, <2>2, <2>3, Zenon
<1>4. ASSUME NEW x \in Nat, h =< x, BlkMax # 0
      PROVE  \E q \in Nat : h + q * w =< x /\ x < h + (q + 1) * w
  <2>0. PICK y \in Nat : y = x - h
    BY <1>4
  <2>1. /\ y \div w \in Nat /\ y % w \in 0..(w - 1)
        /\ y = (y \div w) * w + (y % w)
    <3>1. w \in Nat \ {0}
      BY <1>2, <1>4
    <3> QED
      BY <3>1, Division, Zenon
  <2>2. PICK q \in Nat, r \in 0..(w - 1) : x - h = q * w + r
    BY <2>0, <2>1, Zenon
  <2>3. (q + 1) * w = q * w + w /\ q * w \in Nat
    BY <1>2
  <2> QED
    BY <1>2, <1>4, <2>2, <2>3
<1>5. ASSUME NEW x \in Nat, NEW q \in Nat, h + q * w =< x, x < h + (q + 1) * w, q + 1 < N
      PROVE  x \in Span(R[q + 1])
  <2>1. R[q + 1].at = h + ((q + 1) - 1) * w /\ R[q + 1].len = w
    BY <1>1, <1>3, <1>5
  <2>2. (q + 1) - 1 = q /\ (q + 1) * w = q * w + w /\ q * w \in Nat
    BY <1>2
  <2> QED
    BY <1>2, <1>5, <2>1, <2>2 DEF Span
<1>6. \A k \in 1..N : \A x \in h..(R[k].back - 1) : \E m \in 1..(k - 1) : x \in Span(R[m])
  <2> SUFFICES ASSUME NEW k \in 1..N, NEW x \in h..(R[k].back - 1)
               PROVE  \E m \in 1..(k - 1) : x \in Span(R[m])
    BY Zenon
  <2>0. k \in Nat /\ (k - 1) * w \in Nat
    BY <1>1, <1>2
  <2>1. x \in Nat /\ h =< x /\ x < h + (k - 1) * w
    BY <1>3, <2>0
  <2>2. BlkMax # 0
    <3>1. BlkMax = 0 => k = 1
      BY <1>1
    <3> QED
      BY <1>2, <2>1, <3>1
  <2>3. PICK q \in Nat : h + q * w =< x /\ x < h + (q + 1) * w
    BY <1>4, <2>1, <2>2, Zenon
  <2>4. q < k - 1
    <3>1. k - 1 =< q => (k - 1) * w =< q * w
      BY <1>2, <2>0
    <3>2. q * w \in Nat
      BY <1>2
    <3> QED
      BY <2>0, <2>1, <2>3, <3>1, <3>2
  <2>5. x \in Span(R[q + 1])
    BY <1>1, <1>5, <2>0, <2>1, <2>3, <2>4
  <2> QED
    BY <2>0, <2>4, <2>5
<1>7. ASSUME (N - 1) * BlkMax + c = i, NEW x \in h..(h + i * BlkSize - 1)
      PROVE  \E m \in 1..N : x \in Span(R[m])
  <2>0. i * BlkSize \in Nat /\ c * BlkSize \in Int /\ (N - 1) * w \in Nat
    BY <1>0, <1>1, <1>2
  <2>1. x \in Nat /\ h =< x /\ x < h + i * BlkSize
    BY <2>0
  <2>2. i * BlkSize = (N - 1) * w + c * BlkSize
    <3>1. PICK v \in Nat : v = N - 1
      BY <1>1
    <3>2. (v * BlkMax + c) * BlkSize = v * (BlkMax * BlkSize) + c * BlkSize
      BY <1>0, <1>1
    <3> QED
      BY <1>7, <3>1, <3>2, Zenon DEF w
  <2>3. CASE x >= h + (N - 1) * w
    <3>1. R[N].at = h + (N - 1) * w /\ R[N].len = c * BlkSize
      BY <1>1, <1>3
    <3>2. x \in Span(R[N])
      BY <2>0, <2>1, <2>2, <2>3, <3>1 DEF Span
    <3> QED
      BY <1>1, <3>2
  <2>4. CASE x < h + (N - 1) * w
    <3>1. x \in h..(R[N].back - 1)
      <4>1. R[N].back = h + (N - 1) * w
        BY <1>1, <1>3
      <4> QED
        BY <2>0, <2>1, <2>4, <4>1
    <3> QED
      BY <1>1, <1>6, <3>1
  <2> QED
    BY <2>0, <2>1, <2>3, <2>4
<1> QED
  BY <1>6, <1>7, Zenon

\* The plan of block_read, and of block_write, is sound for every request.
LEMMA PlanSound ==
  ASSUME NEW op \in {"read", "write"}, NEW o \in Nat, NEW n \in Nat
  PROVE  Sound(op, o, n, Plan(op, o, n))
<1>1. CASE n = 0
  <2>1. Plan(op, o, n) = <<>>
    BY <1>1, Zenon DEF Plan
  <2> QED
    BY <1>1, <2>1 DEF Sound
<1>2. CASE n # 0
  <2> DEFINE h == HeadLen(o, n)
             t == TailLen(o, n)
             sb == FirstBlk(o, n)
             i == Middle(o, n)
             H == HeadPiece(o, n)
             T == TailPiece(o, n)
             Q == IF op = "read" THEN ReadRuns(sb, i, h) ELSE WriteRuns(sb, i, h)
             R == IF i =< 0 THEN <<>> ELSE Q
             P == Plan(op, o, n)
  <2>0. BlkSize \in Nat /\ BlkSize > 0 /\ BlkMax \in Nat
    BY BlockAssumption
  <2>1. P = H \o T \o R
    BY <1>2, Zenon DEF Plan
  <2>2. /\ h \in 0..n /\ t \in 0..n /\ sb \in Nat /\ i \in Int
        /\ i > 0 => sb * BlkSize = o + h /\ (sb + i) * BlkSize = o + n - t
        /\ i =< 0 => h + t = n
    BY <1>2, Tiling DEF Tiles
  <2>3. /\ H \in Seq(PlanStep) /\ T \in Seq(PlanStep)
        /\ Len(H) = IF h > 0 THEN 1 ELSE 0
        /\ Len(T) = IF t > 0 THEN 1 ELSE 0
        /\ h > 0 => H[1] = Piece("part", o \div BlkSize, o % BlkSize, h, 0, 1, 0)
        /\ t > 0 => T[1] = Piece("part", LastBlk(o, n), 0, t, n - t, 1, h)
    BY <1>2, Ends, Zenon
  <2>4. PICK N, c : i > 0 => /\ RunList(Q, sb, i, h, N, c)
                             /\ op = "read" \/ sb = 0 \/ BlkMax = 0 => (N - 1) * BlkMax + c = i
    <3>1. CASE i > 0
      BY <2>2, <3>1, RunsShape
    <3> QED
      BY <3>1, Zenon
  <2>5. /\ h > 0 => Fits(o, n, H[1])
        /\ t > 0 => Fits(o, n, T[1])
    BY <1>2, <2>3, PartsFit, Zenon
  <2>6. i > 0 => \A k \in 1..N : Fits(o, n, Q[k]) /\ Q[k].kind = "whole" /\ Q[k] \in PlanStep
    <3> SUFFICES ASSUME i > 0, NEW k \in 1..N
                 PROVE  Fits(o, n, Q[k]) /\ Q[k].kind = "whole" /\ Q[k] \in PlanStep
      BY Zenon
    <3>1. RunList(Q, sb, i, h, N, c)
      BY <2>4, Zenon
    <3> DEFINE cnt == IF k < N THEN BlkMax ELSE c
    <3>2. /\ N \in Nat \ {0} /\ c \in Int /\ (N - 1) * BlkMax + c =< i /\ (N > 1 => (N - 1) * BlkMax =< i)
          /\ Q[k] = Whole(sb, k - 1, cnt, h)
      BY <3>1, Zenon DEF RunList
    <3>3. cnt \in Int /\ k - 1 \in Nat
      BY <2>0, <3>2
    <3>4. (k - 1) * BlkMax + cnt =< i
      <4>1. CASE k = N
        BY <3>2, <4>1
      <4>2. CASE k < N
        <5>1. k * BlkMax =< (N - 1) * BlkMax
          BY <2>0, <3>2, <4>2
        <5>2. (k - 1) * BlkMax + BlkMax = k * BlkMax
          BY <2>0, <3>2
        <5>3. k * BlkMax \in Int /\ (N - 1) * BlkMax \in Int /\ N > 1
          BY <2>0, <3>2, <4>2
        <5> HIDE DEF i
        <5> QED
          BY <2>2, <3>2, <4>2, <5>1, <5>2, <5>3
      <4> QED
        BY <3>2, <4>1, <4>2
    <3> HIDE DEF cnt
    <3>5. Fits(o, n, Q[k])
      BY <1>2, <3>2, <3>3, <3>4, RunFits, Zenon
    <3>6. Q[k].kind = "whole"
      BY <3>2 DEF Whole, Piece
    <3> HIDE DEF Q
    <3>7. Q[k] = [kind |-> "whole", blk |-> Q[k].blk, from |-> Q[k].from, len |-> Q[k].len, at |-> Q[k].at,
                  count |-> Q[k].count, back |-> Q[k].back]
      BY <3>2 DEF Whole, Piece
    <3>8. Q[k] \in PlanStep
      BY <3>5, <3>7 DEF PlanStep, Fits
    <3> QED
      BY <3>5, <3>6, <3>8, Zenon
  <2>7. i > 0 => N \in Nat \ {0} /\ DOMAIN Q = 1..N
    BY <2>4, Zenon DEF RunList
  <2> HIDE DEF h, t, sb, i, H, T, Q, P
  <2>8. R \in Seq(PlanStep) /\ Len(R) = (IF i > 0 THEN N ELSE 0) /\ (i > 0 => R = Q)
    <3>1. CASE i > 0
      <4>1. Q = [k \in 1..N |-> Q[k]]
        BY <2>4, <3>1, Zenon DEF RunList
      <4>2. R = Q
        BY <2>2, <3>1
      <4>3. Q \in Seq(PlanStep) /\ Len(Q) = N
        BY <2>6, <2>7, <3>1, <4>1
      <4> QED
        BY <3>1, <4>2, <4>3
    <3>2. CASE i =< 0
      BY <2>2, <3>2
    <3> QED
      BY <2>2, <3>1, <3>2
  <2> HIDE DEF R
  <2> DEFINE w == Len(H) + Len(T)
  <2>9. /\ Len(P) = w + Len(R)
        /\ \A k \in 1..Len(H) : P[k] = H[k]
        /\ \A k \in 1..Len(T) : P[Len(H) + k] = T[k]
        /\ \A k \in 1..Len(R) : P[w + k] = R[k]
    <3>1. H \in Seq(PlanStep) /\ T \in Seq(PlanStep) /\ R \in Seq(PlanStep)
      BY <2>3, <2>8, Zenon
    <3>2. /\ Len(H \o T \o R) = Len(H) + Len(T) + Len(R)
          /\ \A k \in 1..Len(H) : (H \o T \o R)[k] = H[k]
          /\ \A k \in 1..Len(T) : (H \o T \o R)[Len(H) + k] = T[k]
          /\ \A k \in 1..Len(R) : (H \o T \o R)[Len(H) + Len(T) + k] = R[k]
      BY <3>1, Joined
    <3> QED
      BY <2>1, <3>2, Zenon
  <2>10. Len(H) \in Nat /\ Len(T) \in Nat /\ Len(R) \in Nat /\ w \in Nat /\ Len(P) \in Nat
    <3>1. Len(H) \in Nat /\ Len(T) \in Nat /\ Len(R) \in Nat
      <4>1. H \in Seq(PlanStep) /\ T \in Seq(PlanStep) /\ R \in Seq(PlanStep)
        BY <2>3, <2>8, Zenon
      <4> QED
        BY <4>1
    <3>2. Len(P) = w + Len(R)
      BY <2>9, Zenon
    <3> QED
      BY <3>1, <3>2
  <2>11. \A k \in 1..Len(P) : \/ k \in 1..w /\ P[k].kind = "part" /\ Fits(o, n, P[k])
                              \/ k \in (w + 1)..Len(P) /\ P[k].kind = "whole" /\ Fits(o, n, P[k])
    <3> SUFFICES ASSUME NEW k \in 1..Len(P)
                 PROVE  \/ k \in 1..w /\ P[k].kind = "part" /\ Fits(o, n, P[k])
                        \/ k \in (w + 1)..Len(P) /\ P[k].kind = "whole" /\ Fits(o, n, P[k])
      BY Zenon
    <3>1. CASE k =< Len(H)
      <4>1. k = 1 /\ h > 0
        BY <2>3, <2>10, <3>1
      <4>2. P[k] = H[1] /\ H[1].kind = "part"
        BY <2>3, <2>9, <2>10, <3>1, <4>1, SMTT(30) DEF Piece
      <4> QED
        BY <2>5, <2>10, <3>1, <4>1, <4>2
    <3>2. CASE Len(H) < k /\ k =< w
      <4>1. k = Len(H) + 1 /\ t > 0 /\ Len(T) = 1
        BY <2>3, <2>10, <3>2
      <4>2. P[k] = T[1] /\ T[1].kind = "part"
        BY <2>3, <2>9, <2>10, <4>1 DEF Piece
      <4> QED
        BY <2>5, <2>10, <3>2, <4>1, <4>2
    <3>3. CASE w < k
      <4>1. PICK m \in 1..Len(R) : k = w + m
        <5>1. k - w \in 1..Len(R) /\ k = w + (k - w)
          BY <2>9, <2>10, <3>3
        <5> QED
          BY <5>1, Zenon
      <4>2. P[k] = R[m] /\ i > 0 /\ m \in 1..N /\ R[m] = Q[m]
        BY <2>8, <2>9, <4>1
      <4> QED
        BY <2>6, <2>10, <3>3, <4>2, SMTT(30)
    <3> QED
      BY <2>10, <3>1, <3>2, <3>3
  <2>12. h > 0 => Len(H) = 1 /\ P[1] = H[1] /\ Span(H[1]) = 0..(h - 1) /\ H[1].back = 0
    <3> SUFFICES ASSUME h > 0 PROVE Len(H) = 1 /\ P[1] = H[1] /\ Span(H[1]) = 0..(h - 1) /\ H[1].back = 0
      BY Zenon
    <3>1. Len(H) = 1 /\ P[1] = H[1]
      BY <2>3, <2>9
    <3>2. H[1].at = 0 /\ H[1].len = h /\ H[1].back = 0
      BY <2>3 DEF Piece
    <3>3. 0 + h - 1 = h - 1
      BY <2>2
    <3> QED
      BY <3>1, <3>2, <3>3, Zenon DEF Span
  <2>13. t > 0 => Len(T) = 1 /\ P[Len(H) + 1] = T[1] /\ Span(T[1]) = (n - t)..(n - 1) /\ T[1].back = h
    <3> SUFFICES ASSUME t > 0
                 PROVE Len(T) = 1 /\ P[Len(H) + 1] = T[1] /\ Span(T[1]) = (n - t)..(n - 1) /\ T[1].back = h
      BY Zenon
    <3>1. Len(T) = 1 /\ P[Len(H) + 1] = T[1]
      BY <2>3, <2>9
    <3>2. T[1].at = n - t /\ T[1].len = t /\ T[1].back = h
      BY <2>3 DEF Piece
    <3>3. (n - t) + t - 1 = n - 1
      BY <2>2
    <3> QED
      BY <3>1, <3>2, <3>3, Zenon DEF Span
  <2>14. i > 0 => /\ \A k \in 1..N : \A x \in h..(R[k].back - 1) : \E m \in 1..(k - 1) : x \in Span(R[m])
                  /\ (N - 1) * BlkMax + c = i =>
                       \A x \in h..(h + i * BlkSize - 1) : \E m \in 1..N : x \in Span(R[m])
    <3> SUFFICES ASSUME i > 0
                 PROVE  /\ \A k \in 1..N : \A x \in h..(R[k].back - 1) : \E m \in 1..(k - 1) : x \in Span(R[m])
                        /\ (N - 1) * BlkMax + c = i =>
                             \A x \in h..(h + i * BlkSize - 1) : \E m \in 1..N : x \in Span(R[m])
      BY Zenon
    <3>1. RunList(R, sb, i, h, N, c) /\ i \in Nat \ {0} /\ h \in Nat /\ sb \in Nat
      BY <2>2, <2>4, <2>8
    <3> QED
      BY <3>1, RunsCover, Zenon
  <2>15. op = "read" => \A k \in 1..Len(P) : \A x \in 0..(P[k].back - 1) :
                          \E m \in 1..(k - 1) : x \in Span(P[m])
    <3> SUFFICES ASSUME NEW k \in 1..Len(P), NEW x \in 0..(P[k].back - 1)
                 PROVE  \E m \in 1..(k - 1) : x \in Span(P[m])
      BY Zenon
    <3>0. P[k].back \in Nat
      BY <2>11, Zenon DEF Fits
    <3>1. CASE k =< Len(H)
      <4>1. P[k].back = 0
        BY <2>2, <2>3, <2>10, <2>12, <3>1
      <4> QED
        BY <4>1
    <3>2. CASE Len(H) < k /\ x < h
      <4>1. x \in Span(P[1]) /\ Len(H) = 1
        BY <2>2, <2>12, <3>0, <3>2
      <4> QED
        BY <2>10, <3>2, <4>1
    <3>3. CASE Len(H) < k /\ k =< w /\ x >= h
      <4>1. P[k].back = h
        <5>1. t > 0 /\ k = Len(H) + 1
          BY <2>2, <2>3, <2>10, <3>3
        <5> QED
          BY <2>13, <5>1, Zenon
      <4> QED
        BY <2>2, <3>0, <3>3, <4>1
    <3>4. CASE w < k /\ x >= h
      <4>1. PICK m \in 1..Len(R) : k = w + m
        <5>1. k - w \in 1..Len(R) /\ k = w + (k - w)
          BY <2>9, <2>10, <3>4, SMTT(30)
        <5> QED
          BY <5>1, Zenon
      <4>2. P[k] = R[m] /\ i > 0 /\ m \in 1..N
        BY <2>8, <2>9, <4>1
      <4>3. x \in h..(R[m].back - 1)
        BY <2>2, <3>0, <3>4, <4>2
      <4>4. PICK l \in 1..(m - 1) : x \in Span(R[l])
        BY <2>14, <4>2, <4>3, Zenon
      <4>5. l \in 1..Len(R) /\ w + l \in 1..(k - 1)
        BY <2>10, <4>1, SMTT(30)
      <4>6. P[w + l] = R[l]
        BY <2>9, <4>5, Zenon
      <4> QED
        BY <4>4, <4>5, <4>6, Zenon
    <3> QED
      BY <2>2, <2>10, <3>0, <3>1, <3>2, <3>3, <3>4
  <2>16. op = "read" \/ RunsFromZero(o, n) => \A x \in 0..(n - 1) : \E m \in 1..Len(P) : x \in Span(P[m])
    <3> SUFFICES ASSUME op = "read" \/ RunsFromZero(o, n), NEW x \in 0..(n - 1)
                 PROVE  \E m \in 1..Len(P) : x \in Span(P[m])
      BY Zenon
    <3>1. CASE x < h
      <4>1. x \in Span(P[1]) /\ Len(H) = 1
        BY <2>2, <2>12, <3>1
      <4> QED
        BY <2>9, <2>10, <4>1
    <3>2. CASE x >= n - t
      <4>1. t > 0
        BY <2>2, <3>2
      <4>2. x \in Span(P[Len(H) + 1]) /\ Len(T) = 1
        BY <2>2, <2>13, <3>2, <4>1
      <4> QED
        BY <2>9, <2>10, <4>2
    <3>3. CASE h =< x /\ x < n - t
      <4>1. i > 0
        BY <2>2, <3>3
      <4>2. i * BlkSize = n - t - h
        <5>1. (sb + i) * BlkSize = sb * BlkSize + i * BlkSize /\ i * BlkSize \in Int
          BY <2>0, <2>2
        <5> QED
          BY <2>0, <2>2, <4>1, <5>1
      <4>3. x \in h..(h + i * BlkSize - 1)
        BY <2>2, <3>3, <4>2
      <4>4. (N - 1) * BlkMax + c = i
        BY <2>4, <4>1, Zenon DEF RunsFromZero, i, sb
      <4>5. PICK l \in 1..N : x \in Span(R[l])
        BY <2>14, <4>1, <4>3, <4>4, Zenon
      <4>6. l \in 1..Len(R) /\ w + l \in 1..Len(P)
        BY <2>8, <2>9, <2>10, <4>1
      <4>7. P[w + l] = R[l]
        BY <2>9, <4>6, Zenon
      <4> QED
        BY <4>5, <4>6, <4>7, Zenon
    <3> QED
      BY <2>2, <3>1, <3>2, <3>3
  <2>17. \A k \in 1..Len(P) : P[k].kind = "part" => \A m \in 1..k : P[m].kind = "part"
    <3> SUFFICES ASSUME NEW k \in 1..Len(P), P[k].kind = "part", NEW m \in 1..k
                 PROVE  P[m].kind = "part"
      BY Zenon
    <3>1. k =< w
      BY <2>10, <2>11
    <3>2. m \in 1..Len(P) /\ m =< w
      BY <2>10, <3>1
    <3> QED
      BY <2>10, <2>11, <3>2
  <2>18. \A k \in 1..Len(P) : Fits(o, n, P[k])
    BY <2>11, Zenon
  <2> QED
    BY <2>10, <2>15, <2>16, <2>17, <2>18, Zenon DEF Sound, P
<1> QED
  BY <1>1, <1>2, Zenon

-----------------------------------------------------------------------------
\* A step stays inside the request.
LEMMA SpanInside ==
  ASSUME NEW o \in Nat, NEW n \in Nat, NEW p, Fits(o, n, p)
  PROVE  Span(p) \subseteq 0..(n - 1)
BY DEF Span, Fits

\* A byte of the request that a partial block covers lies in that block.
LEMMA ByteOfPart ==
  ASSUME NEW o \in Nat, NEW n \in Nat, NEW p, Fits(o, n, p), p.kind = "part", NEW x \in Span(p)
  PROVE  /\ (o + x) \div BlkSize = p.blk /\ (o + x) % BlkSize = p.from + (x - p.at)
         /\ p.from + (x - p.at) \in InBlock
<1>0. BlkSize \in Nat /\ BlkSize > 0
  BY BlockAssumption
<1>1. /\ p.at \in Nat /\ p.len \in Int /\ p.blk \in Nat /\ p.from \in Nat
      /\ p.blk * BlkSize + p.from = o + p.at /\ p.from + p.len =< BlkSize
  BY Zenon DEF Fits
<1>2. x \in Int /\ p.at =< x /\ x =< p.at + p.len - 1
  BY <1>1 DEF Span
<1>3. p.from + (x - p.at) \in InBlock
  BY <1>0, <1>1, <1>2 DEF InBlock
<1>4. o + x \in Nat /\ o + x = p.blk * BlkSize + (p.from + (x - p.at))
  <2>1. p.blk * BlkSize \in Nat
    BY <1>0, <1>1
  <2> QED
    BY <1>1, <1>2, <2>1
<1> QED
  BY <1>1, <1>3, <1>4, DivUnique, Zenon

\* A partial block of a request that ends on the device is a block of the device.
LEMMA PartOnDisk ==
  ASSUME NEW o \in Nat, NEW n \in Nat, o + n =< End, NEW p, Fits(o, n, p), p.kind = "part"
  PROVE  p.blk \in Block
<1>0. BlkSize \in Nat /\ BlkSize > 0 /\ BlkCount \in Nat
  BY BlockAssumption
<1>1. /\ p.at \in Nat /\ p.len \in Int /\ p.blk \in Nat /\ p.from \in Nat
      /\ p.blk * BlkSize + p.from = o + p.at /\ p.len > 0 /\ p.at + p.len =< n
  BY Zenon DEF Fits
<1>2. p.blk * BlkSize \in Nat /\ BlkCount * BlkSize \in Nat
  BY <1>0, <1>1
<1>3. p.blk * BlkSize < BlkCount * BlkSize
  BY <1>1, <1>2 DEF End
<1>4. BlkCount =< p.blk => BlkCount * BlkSize =< p.blk * BlkSize
  BY <1>0, <1>1
<1>5. p.blk < BlkCount
  BY <1>0, <1>1, <1>2, <1>3, <1>4
<1> QED
  BY <1>0, <1>1, <1>5 DEF Block

\* The blocks of a run are the blocks of its bytes, and all their bytes are in the
\* request.
LEMMA ByteOfRun ==
  ASSUME NEW o \in Nat, NEW n \in Nat, NEW p, Fits(o, n, p), p.kind = "whole", p.count > 0,
         NEW k \in Nat, NEW b \in InBlock
  PROVE  /\ k \in RunOf(p) => k * BlkSize + b \in o..(o + n - 1)
         /\ (k * BlkSize + b) - o \in Span(p) => k \in RunOf(p)
<1>0. BlkSize \in Nat /\ BlkSize > 0
  BY BlockAssumption
<1>1. /\ p.at \in Nat /\ p.blk \in Nat /\ p.count \in Int
      /\ p.blk * BlkSize = o + p.at /\ p.len = p.count * BlkSize /\ p.at + p.len =< n
  BY <1>0 DEF Fits
<1>2. PICK u \in Nat, v \in Nat : u = p.blk /\ v = p.blk + p.count
  BY <1>1
<1>3. v * BlkSize = o + (p.at + p.len) /\ u * BlkSize = o + p.at /\ p.len \in Int
  <2>1. (p.blk + p.count) * BlkSize = p.blk * BlkSize + p.count * BlkSize /\ p.count * BlkSize \in Int
    BY <1>0, <1>1
  <2> QED
    BY <1>0, <1>1, <1>2, <2>1
<1>4. b \in Nat /\ b < BlkSize /\ k * BlkSize \in Nat /\ u * BlkSize \in Nat /\ v * BlkSize \in Nat
  BY <1>0 DEF InBlock
<1>5. RunOf(p) = u..(v - 1)
  <2>1. p.blk + p.count - 1 = v - 1
    BY <1>1, <1>2
  <2> QED
    BY <1>2, <2>1, Zenon DEF RunOf
<1>6. ASSUME k \in RunOf(p) PROVE k * BlkSize + b \in o..(o + n - 1)
  <2>1. u =< k /\ k < v
    BY <1>5, <1>6
  <2>2. u * BlkSize =< k * BlkSize
    BY <1>0, <2>1
  <2>3. k * BlkSize + BlkSize =< v * BlkSize
    BY <2>1, BlocksApart
  <2> QED
    BY <1>0, <1>1, <1>3, <1>4, <2>2, <2>3
<1>7. ASSUME (k * BlkSize + b) - o \in Span(p) PROVE k \in RunOf(p)
  <2>1. u * BlkSize =< k * BlkSize + b /\ k * BlkSize + b < v * BlkSize
    BY <1>1, <1>3, <1>4, <1>7 DEF Span
  <2>2. k < u => k * BlkSize + BlkSize =< u * BlkSize
    BY BlocksApart
  <2>3. v =< k => v * BlkSize =< k * BlkSize
    BY <1>0
  <2>4. u =< k /\ k < v
    BY <1>0, <1>4, <2>1, <2>2, <2>3
  <2> QED
    BY <1>5, <2>4
<1> QED
  BY <1>6, <1>7, Zenon

-----------------------------------------------------------------------------
\* The plan of a running call.
LEMMA RunningPlan ==
  ASSUME BlockInv, phase = "run"
  PROVE  /\ Start(call.offset) \in Nat
         /\ Sound(call.op, Start(call.offset), call.n, Steps)
<1>1. blkoff \in Nat /\ CallOK
  BY Zenon DEF BlockInv, BlockTypes, Running
<1>2. Start(call.offset) \in Nat
  BY <1>1, BlockAssumption DEF Start, CallOK
<1> QED
  BY <1>1, <1>2, PlanSound, Zenon DEF CallOK, Steps

\* The step a call is at.
LEMMA RunningStep ==
  ASSUME BlockInv, phase = "run", call.k =< Len(Steps)
  PROVE  /\ Fits(Start(call.offset), call.n, Now)
         /\ Now.kind = "part" => Now.blk \in Block /\ dirty \subseteq before.dirty
<1> DEFINE o == Start(call.offset)
<1>1. o \in Nat /\ Sound(call.op, o, call.n, Steps)
  BY RunningPlan, Zenon
<1>2. CallOK /\ Running
  BY Zenon DEF BlockInv, Running
<1>3. call.k \in 1..Len(Steps) /\ call.n \in Nat /\ Len(Steps) \in Nat
  BY <1>1, <1>2 DEF CallOK, Sound
<1>4. Fits(o, call.n, Now)
  BY <1>1, <1>3, Zenon DEF Sound, Now
<1>5. ASSUME Now.kind = "part" PROVE Now.blk \in Block /\ dirty \subseteq before.dirty
  <2>1. \A m \in 1..call.k : Steps[m].kind = "part"
    BY <1>1, <1>3, <1>5, Zenon DEF Sound, Now
  <2>2. \A m \in 1..(call.k - 1) : Steps[m].kind = "part"
    BY <1>3, <2>1
  <2>3. dirty \subseteq before.dirty
    BY <1>2, <2>2, Zenon DEF Running
  <2>4. call.n > 0
    BY <1>1, <1>3, <1>4, <1>5, SMTT(30) DEF Fits
  <2>5. o + call.n =< End
    BY <1>2, <2>4, Zenon DEF Running
  <2> HIDE DEF o
  <2>6. Now.blk \in Block
    BY <1>1, <1>3, <1>4, <1>5, <2>5, PartOnDisk, Zenon
  <2> QED
    BY <2>3, <2>6, Zenon
<1> QED
  BY <1>4, <1>5, Zenon

-----------------------------------------------------------------------------
\* The arguments of a call do not change while it runs, nor does its plan.
LEMMA Keeps ==
  ASSUME CallOK, blkoff' = blkoff,
         \/ call' = [call EXCEPT !.k = @ + 1]
         \/ call' = [call EXCEPT !.ret = Now.back]
         \/ \E buf : call' = [call EXCEPT !.k = @ + 1, !.buf = buf]
  PROVE  /\ call'.op = call.op /\ call'.offset = call.offset /\ call'.n = call.n
         /\ Start(call.offset)' = Start(call.offset) /\ Steps' = Steps
<1>1. /\ call'.op = call.op /\ call'.offset = call.offset /\ call'.n = call.n
  BY Zenon DEF CallOK
<1> QED
  BY <1>1, Zenon DEF Start, Steps

\* A call that stops at a failed step has returned what the steps before it did.
LEMMA StopExact ==
  ASSUME BlockInv, phase = "run", call.k =< Len(Steps), Stop,
         call.op = "write" => Now.back # call.n,
         call.op = "read" => disk' = disk,
         \A k \in Block, b \in InBlock :
            \/ k * BlkSize + b \in Start(call.offset)..(Start(call.offset) + call.n - 1)
            \/ k \in before.dirty
            \/ disk'[k][b] = disk[k][b],
         UNCHANGED <<blkoff, before>>
  PROVE  ReadExact' /\ WriteExact'
<1> DEFINE o == Start(call.offset)
           n == call.n
<1>1. o \in Nat /\ Sound(call.op, o, n, Steps)
  BY RunningPlan, Zenon
<1>2. CallOK /\ Running
  BY Zenon DEF BlockInv, Running
<1>3. call.k \in 1..Len(Steps) /\ n \in Nat /\ Len(Steps) \in Nat
  BY <1>1, <1>2 DEF CallOK, Sound
<1>4. /\ call'.op = call.op /\ call'.offset = call.offset /\ call'.n = n
      /\ Start(call.offset)' = o /\ call'.ret = Now.back /\ call'.buf = call.buf
  BY <1>2, Keeps, Zenon DEF Stop, CallOK
<1>6. ReadExact'
  <2> SUFFICES ASSUME call.op = "read" PROVE ReadExact'
    BY <1>4, Zenon DEF ReadExact
  <2>0. \A a : OnDisk(a)' = OnDisk(a)
    BY Zenon DEF OnDisk
  <2> SUFFICES ASSUME NEW j \in 1..Now.back
               PROVE  \/ (o + (j - 1)) \div BlkSize \in before.dirty
                      \/ call.buf[j] = OnDisk(o + (j - 1))
    BY <1>4, <2>0, Zenon DEF ReadExact
  <2> HIDE DEF o, n
  <2>1. Now.back \in Nat
    BY <1>1, <1>3, Zenon DEF Sound, Fits, Now
  <2>2. j - 1 \in 0..(Now.back - 1)
    BY <2>1
  <2>3. PICK m \in 1..(call.k - 1) : j - 1 \in Span(Steps[m])
    BY <1>1, <1>3, <2>2, Zenon DEF Sound, Now
  <2>4. m \in 1..Len(Steps)
    BY <1>3
  <2>5. Fits(o, n, Steps[m])
    BY <1>1, <2>4, Zenon DEF Sound
  <2>6. j - 1 \in 0..(n - 1)
    BY <1>1, <1>3, <2>3, <2>5, SpanInside, Zenon
  <2>7. j \in 1..n
    BY <1>3, <2>1, <2>6
  <2> QED
    BY <1>2, <2>3, <2>7, Zenon DEF Running, ReadSoFar, o, n
<1>7. WriteExact'
  <2> SUFFICES ASSUME call.op = "write", NEW k \in Block, NEW b \in InBlock,
                      ~(k * BlkSize + b \in o..(o + n - 1))
               PROVE  k \in before.dirty \/ disk'[k][b] = before.disk[k][b]
    BY <1>4, Zenon DEF WriteExact
  <2>1. k \in before.dirty \/ disk[k][b] = before.disk[k][b]
    BY <1>2, Zenon DEF Running, WrittenSoFar
  <2> QED
    BY <2>1, Zenon
<1> QED
  BY <1>6, <1>7, Zenon

\* A partial block cannot be loaded.
LEMMA LoadFailsOK == BlockInv /\ LoadFails => BlockInv'
<1> SUFFICES ASSUME BlockInv, LoadFails PROVE BlockInv'
  BY Zenon
<1>1. phase = "run" /\ call.k =< Len(Steps) /\ Now.kind = "part"
  BY Zenon DEF LoadFails, Doing
<1>2. Fits(Start(call.offset), call.n, Now) /\ Start(call.offset) \in Nat /\ call.n \in Nat
  BY <1>1, RunningStep, RunningPlan, Zenon DEF BlockInv, Running, CallOK
<1>3. Now.back # call.n
  BY <1>1, <1>2 DEF Fits
<1>4. ReadExact' /\ WriteExact'
  BY <1>1, <1>3, StopExact, Zenon DEF LoadFails
<1>5. phase' = "done"
  BY Zenon DEF LoadFails, Stop
<1>6. BlockTypes' /\ CacheCoherent'
  BY <1>5, Zenon DEF BlockInv, BlockTypes, CacheCoherent, LoadFails
<1> QED
  BY <1>4, <1>5, <1>6, Zenon DEF BlockInv

\* The driver fails on a run of whole blocks.
LEMMA RunFailsOK == BlockInv /\ RunFails => BlockInv'
<1> SUFFICES ASSUME BlockInv, RunFails PROVE BlockInv'
  BY Zenon
<1>0. disk \in [Block -> [InBlock -> Bytes]]
  BY Zenon DEF BlockInv, BlockTypes
<1>1. phase = "run" /\ call.k =< Len(Steps) /\ Now.kind = "whole" /\ (call.op = "write" => Now.count > 0)
  BY Zenon DEF RunFails, Doing
<1>2. Fits(Start(call.offset), call.n, Now) /\ Start(call.offset) \in Nat /\ call.n \in Nat
  BY <1>1, RunningStep, RunningPlan, Zenon DEF BlockInv, Running, CallOK
<1>3. call.op = "write" => Now.back # call.n
  <2> SUFFICES ASSUME call.op = "write" PROVE Now.back # call.n
    BY Zenon
  <2>1. /\ Now.back \in Nat /\ Now.back = Now.at /\ Now.at + Now.len =< call.n
        /\ Now.len = Now.count * BlkSize /\ Now.count \in Int /\ Now.count > 0
    BY <1>1, <1>2, Zenon DEF Fits
  <2>2. Now.len \in Int /\ Now.len > 0
    BY <2>1, BlockAssumption
  <2> QED
    BY <1>2, <2>1, <2>2
<1>4. phase' = "done" /\ UNCHANGED <<blkoff, cache, before>> /\ Stop
  BY Zenon DEF RunFails, Stop
<1>5. PICK stored \in SUBSET RunOf(Now) :
        /\ call.op = "read" => disk' = disk
        /\ disk' = [k \in Block |-> IF k \in stored THEN NoData ELSE disk[k]]
        /\ dirty' = IF cache.cached /\ cache.blkno \in stored THEN {cache.blkno} ELSE dirty
        /\ call.op # "read" => Now.count > 0
  <2>1. CASE Doing("read", "whole") /\ UNCHANGED <<disk, dirty>>
    <3>1. disk = [k \in Block |-> IF k \in {} THEN NoData ELSE disk[k]]
      BY <1>0, Zenon
    <3>2. {} \in SUBSET RunOf(Now) /\ call.op = "read" /\ disk' = disk
      BY <2>1, Zenon DEF Doing
    <3>3. dirty' = IF cache.cached /\ cache.blkno \in {} THEN {cache.blkno} ELSE dirty
      BY <2>1, Zenon
    <3>4. disk' = [k \in Block |-> IF k \in {} THEN NoData ELSE disk[k]]
      BY <3>1, <3>2, Zenon
    <3> QED
      BY <3>2, <3>3, <3>4, Zenon
  <2>2. CASE /\ Doing("write", "whole") /\ Now.count > 0
             /\ \E stored \in {{}} \cup {Now.blk..k : k \in RunOf(Now)} :
                  /\ disk' = [k \in Block |-> IF k \in stored THEN NoData ELSE disk[k]]
                  /\ dirty' = IF cache.cached /\ cache.blkno \in stored THEN {cache.blkno} ELSE dirty
    <3>1. PICK stored \in {{}} \cup {Now.blk..k : k \in RunOf(Now)} :
             /\ disk' = [k \in Block |-> IF k \in stored THEN NoData ELSE disk[k]]
             /\ dirty' = IF cache.cached /\ cache.blkno \in stored THEN {cache.blkno} ELSE dirty
      BY <2>2, Zenon
    <3>2. Now.blk \in Nat /\ Now.count \in Int
      BY <1>1, <1>2, Zenon DEF Fits
    <3>3. \A k \in RunOf(Now) : Now.blk..k \subseteq RunOf(Now)
      BY <3>2 DEF RunOf
    <3>4. stored \in SUBSET RunOf(Now)
      BY <3>1, <3>3, Zenon
    <3>5. call.op = "write" /\ call.op # "read"
      BY <2>2, Zenon DEF Doing
    <3> QED
      BY <2>2, <3>1, <3>4, <3>5, Zenon
  <2> QED
    BY <2>1, <2>2, Zenon DEF RunFails
<1>6. /\ disk' \in [Block -> [InBlock -> Bytes]]
      /\ \A k \in Block : k \notin stored => disk'[k] = disk[k]
  <2>1. NoData \in [InBlock -> Bytes]
    BY Zenon DEF NoData, Bytes
  <2> QED
    BY <1>0, <1>5, <2>1, Zenon
<1>7. ASSUME NEW k \in Block, NEW b \in InBlock
      PROVE  \/ k * BlkSize + b \in Start(call.offset)..(Start(call.offset) + call.n - 1)
             \/ k \in before.dirty
             \/ disk'[k][b] = disk[k][b]
  <2>1. CASE k \in stored /\ call.op # "read"
    <3>1. k \in Nat /\ k \in RunOf(Now)
      BY <1>5, <2>1 DEF Block
    <3> QED
      BY <1>1, <1>2, <1>5, <2>1, <3>1, ByteOfRun, Zenon
  <2>2. CASE k \notin stored \/ call.op = "read"
    BY <1>5, <1>6, <2>2, Zenon
  <2> QED
    BY <2>1, <2>2, Zenon
<1>8. ReadExact' /\ WriteExact'
  BY <1>1, <1>3, <1>4, <1>5, <1>7, StopExact, Zenon
<1>9. BlockTypes'
  BY <1>4, <1>5, <1>6, Zenon DEF BlockInv, BlockTypes
<1>10. CacheCoherent'
  <2> SUFFICES ASSUME cache.cached, cache.blkno \notin dirty' PROVE cache.data = disk'[cache.blkno]
    BY <1>4, Zenon DEF CacheCoherent
  <2>1. cache.blkno \notin stored /\ dirty' = dirty
    BY <1>5, Zenon
  <2>2. cache.blkno \in Block
    BY Zenon DEF BlockInv, BlockTypes
  <2> QED
    BY <1>6, <2>1, <2>2, Zenon DEF BlockInv, CacheCoherent
<1> QED
  BY <1>4, <1>8, <1>9, <1>10, Zenon DEF BlockInv

\* Every step is done: nothing is left out.
LEMMA FinishOK == BlockInv /\ Finish => BlockInv'
<1> SUFFICES ASSUME BlockInv, Finish PROVE BlockInv'
  BY Zenon
<1> DEFINE o == Start(call.offset)
           n == call.n
<1>0. /\ phase = "run" /\ phase' = "done" /\ call.k > Len(Steps)
      /\ UNCHANGED <<blkoff, disk, cache, dirty, call, before>>
  BY Zenon DEF Finish
<1>1. o \in Nat /\ Sound(call.op, o, n, Steps)
  BY <1>0, RunningPlan, Zenon
<1>2. CallOK /\ Running
  BY <1>0, Zenon DEF BlockInv, Running
<1>3. n \in Nat /\ Len(Steps) \in Nat /\ call.k \in Nat /\ call.k - 1 = Len(Steps) /\ call.ret = n
  BY <1>0, <1>1, <1>2 DEF CallOK, Sound, Running
<1>4. /\ Start(call.offset)' = o /\ \A a : OnDisk(a)' = OnDisk(a)
  BY <1>0, Zenon DEF Start, OnDisk
<1>5. ReadExact'
  <2> SUFFICES ASSUME call.op = "read", NEW j \in 1..n
               PROVE  \/ (o + (j - 1)) \div BlkSize \in before.dirty
                      \/ call.buf[j] = OnDisk(o + (j - 1))
    BY <1>0, <1>3, <1>4, Zenon DEF ReadExact
  <2> HIDE DEF o, n
  <2>1. j - 1 \in 0..(n - 1)
    BY <1>3
  <2>2. PICK m \in 1..(call.k - 1) : j - 1 \in Span(Steps[m])
    BY <1>1, <1>3, <2>1, Zenon DEF Sound
  <2> QED
    BY <1>2, <2>2, Zenon DEF Running, ReadSoFar, o, n
<1>6. WriteExact'
  <2> SUFFICES ASSUME call.op = "write", NEW k \in Block, NEW b \in InBlock
               PROVE  IF k * BlkSize + b \in o..(o + n - 1)
                      THEN RunsFromZero(o, n) => disk[k][b] = New
                      ELSE k \in before.dirty \/ disk[k][b] = before.disk[k][b]
    <3>1. RunsFromZero(Start(call.offset), call.n)' = RunsFromZero(o, n)
      BY <1>0, <1>4, Zenon DEF RunsFromZero, Middle, FirstBlk, LastBlk, TailPiece, HeadPiece, TailLen, HeadLen
    <3> QED
      BY <1>0, <1>3, <1>4, <3>1, Zenon DEF WriteExact
  <2>1. CASE k * BlkSize + b \in o..(o + n - 1) /\ RunsFromZero(o, n)
    <3>1. PICK x \in 0..(n - 1) : x = (k * BlkSize + b) - o
      <4>1. k * BlkSize + b \in Int
        BY BlockAssumption DEF Block, InBlock
      <4> HIDE DEF o, n
      <4> QED
        BY <1>1, <1>3, <2>1, <4>1
    <3> HIDE DEF o, n
    <3>2. PICK m \in 1..(call.k - 1) : x \in Span(Steps[m])
      BY <1>1, <1>3, <2>1, Zenon DEF Sound
    <3> QED
      BY <1>2, <2>1, <3>1, <3>2, Zenon DEF Running, WrittenSoFar, o, n
  <2>2. CASE ~(k * BlkSize + b \in o..(o + n - 1))
    BY <1>2, <2>2, Zenon DEF Running, WrittenSoFar
  <2> QED
    BY <2>1, <2>2, Zenon
<1>7. BlockTypes' /\ CacheCoherent'
  BY <1>0, Zenon DEF BlockInv, BlockTypes, CacheCoherent
<1> QED
  BY <1>0, <1>5, <1>6, <1>7, Zenon DEF BlockInv

\* What a partial block holds once it is in the cache: unless it is stale, the bytes of
\* the disk.
LEMMA LoadedIsDisk ==
  ASSUME BlockInv, NEW blk \in Block
  PROVE  /\ Loaded(blk).cached = TRUE /\ Loaded(blk).blkno = blk
         /\ Loaded(blk).data \in [InBlock -> Bytes]
         /\ Loaded(blk) \in [cached : BOOLEAN, blkno : Block, data : [InBlock -> Bytes]]
         /\ blk \notin dirty => Loaded(blk).data = disk[blk]
<1>1. CASE IsCached(blk)
  BY <1>1, Zenon DEF BlockInv, BlockTypes, CacheCoherent, Loaded, IsCached
<1>2. CASE ~IsCached(blk)
  <2>1. disk[blk] \in [InBlock -> Bytes]
    BY Zenon DEF BlockInv, BlockTypes
  <2> QED
    BY <1>2, <2>1, Zenon DEF Loaded
<1> QED
  BY <1>1, <1>2, Zenon

\* A call record at its next step.
LEMMA NextStepOf ==
  ASSUME NEW c, NEW d, NEW b, d = [c EXCEPT !.k = @ + 1, !.buf = b],
         c = [op |-> c.op, offset |-> c.offset, n |-> c.n, k |-> c.k, ret |-> c.ret, buf |-> c.buf]
  PROVE  /\ d.op = c.op /\ d.offset = c.offset /\ d.n = c.n /\ d.k = c.k + 1 /\ d.ret = c.ret /\ d.buf = b
         /\ d = [op |-> d.op, offset |-> d.offset, n |-> d.n, k |-> d.k, ret |-> d.ret, buf |-> d.buf]
BY Zenon

\* A read that has copied one more step's bytes.
LEMMA ReadAdvances ==
  ASSUME BlockInv, phase = "run", call.op = "read", call.k =< Len(Steps), NEW data,
         phase' = phase, call' = [call EXCEPT !.k = @ + 1, !.buf = Put(@, Now, data)],
         UNCHANGED <<blkoff, disk, before>>, dirty' \subseteq dirty,
         \A x \in Span(Now) : \/ (Start(call.offset) + x) \div BlkSize \in before.dirty
                              \/ data[Now.from + (x - Now.at)] = OnDisk(Start(call.offset) + x)
  PROVE  Running' /\ ReadExact' /\ WriteExact'
<1> DEFINE o == Start(call.offset)
           n == call.n
<1>1. o \in Nat /\ Sound(call.op, o, n, Steps)
  BY RunningPlan, Zenon
<1>2. CallOK /\ Running /\ ReadSoFar
  BY Zenon DEF BlockInv, Running
<1>3. call.k \in 1..Len(Steps) /\ n \in Nat /\ Len(Steps) \in Nat
  BY <1>1, <1>2 DEF CallOK, Sound
<1>4. /\ call'.op = "read" /\ call'.offset = call.offset /\ call'.n = n
      /\ Start(call.offset)' = o /\ Steps' = Steps
  BY <1>2, Keeps, Zenon
<1>5. /\ call'.k = call.k + 1 /\ call'.ret = call.ret /\ call'.buf = Put(call.buf, Now, data) /\ CallOK'
  <2> DEFINE nb == Put(call.buf, Now, data)
  <2>1. call' = [call EXCEPT !.k = @ + 1, !.buf = nb]
    BY Zenon
  <2> HIDE DEF nb
  <2>2. call = [op |-> call.op, offset |-> call.offset, n |-> call.n, k |-> call.k, ret |-> call.ret, buf |-> call.buf]
    BY <1>2, Zenon DEF CallOK
  <2>3. /\ call'.op = call.op /\ call'.offset = call.offset /\ call'.n = call.n
        /\ call'.k = call.k + 1 /\ call'.ret = call.ret /\ call'.buf = nb
        /\ call' = [op |-> call'.op, offset |-> call'.offset, n |-> call'.n, k |-> call'.k, ret |-> call'.ret, buf |-> call'.buf]
    BY <2>1, <2>2, NextStepOf, Zenon
  <2>5. call.k + 1 \in Nat \ {0}
    BY <1>2 DEF CallOK
  <2>6. CallOK'
    BY <1>2, <2>3, <2>5, Zenon DEF CallOK
  <2> QED
    BY <2>3, <2>6, Zenon DEF nb
<1>6. \A a : OnDisk(a)' = OnDisk(a)
  BY Zenon DEF OnDisk
<1>7. ReadSoFar'
  <2>1. DOMAIN call.buf = 1..n
    BY <1>2, Zenon DEF ReadSoFar
  <2>2. DOMAIN call'.buf = 1..n
    BY <1>5, <2>1, Zenon DEF Put
  <2>3. ASSUME NEW m \in 1..call.k, NEW j \in 1..n, j - 1 \in Span(Steps[m])
        PROVE  \/ (o + (j - 1)) \div BlkSize \in before.dirty
               \/ call'.buf[j] = OnDisk(o + (j - 1))
    <3>0. Now.at \in Nat /\ Now.len \in Int /\ Now.from \in Nat
      BY <1>1, <1>3, Zenon DEF Sound, Fits, Now
    <3>1. CASE j - 1 \in Span(Now)
      <4>1. call'.buf[j] = data[Now.from + (j - 1 - Now.at)]
        BY <1>5, <2>1, <3>1, Zenon DEF Put, Span
      <4>2. PICK x \in Span(Now) : x = j - 1
        BY <3>1, Zenon
      <4>3. \/ (o + x) \div BlkSize \in before.dirty
            \/ data[Now.from + (x - Now.at)] = OnDisk(o + x)
        BY Zenon
      <4> HIDE DEF o
      <4> QED
        BY <4>1, <4>2, <4>3, Zenon
    <3>2. CASE j - 1 \notin Span(Now)
      <4>1. call'.buf[j] = call.buf[j]
        BY <1>5, <2>1, <3>2, Zenon DEF Put, Span
      <4>2. m \in 1..(call.k - 1)
        BY <1>3, <2>3, <3>2 DEF Now
      <4> QED
        BY <1>2, <2>3, <4>1, <4>2, Zenon DEF ReadSoFar
    <3> QED
      BY <3>1, <3>2, Zenon
  <2>4. (call.k + 1) - 1 = call.k
    BY <1>3
  <2> QED
    BY <1>4, <1>5, <1>6, <2>2, <2>3, <2>4 DEF ReadSoFar
<1>8. dirty' \subseteq before.dirty
  BY <1>2, Zenon DEF Running
<1>9. call'.n > 0 => Start(call.offset)' + call'.n =< End
  BY <1>2, <1>4, Zenon DEF Running
<1>10. call'.ret = call'.n /\ call'.k =< Len(Steps') + 1
  BY <1>2, <1>3, <1>4, <1>5 DEF Running
<1> QED
  BY <1>4, <1>5, <1>7, <1>8, <1>9, <1>10, Zenon DEF Running, ReadExact, WriteExact

\* A partial block is read through the cache.
LEMMA ReadPartOK == BlockInv /\ ReadPart => BlockInv'
<1> SUFFICES ASSUME BlockInv, ReadPart PROVE BlockInv'
  BY Zenon
<1> DEFINE o == Start(call.offset)
           p == Now
<1>1. /\ phase = "run" /\ call.op = "read" /\ call.k =< Len(Steps) /\ p.kind = "part"
      /\ cache' = Loaded(p.blk) /\ dirty' = dirty \cap {p.blk} /\ phase' = phase
      /\ call' = [call EXCEPT !.k = @ + 1, !.buf = Put(@, p, Loaded(p.blk).data)]
      /\ UNCHANGED <<blkoff, disk, before>>
  BY Zenon DEF ReadPart, Doing
<1>2. /\ Fits(o, call.n, p) /\ o \in Nat /\ call.n \in Nat
      /\ p.blk \in Block /\ dirty \subseteq before.dirty
  BY <1>1, RunningStep, RunningPlan, Zenon DEF BlockInv, Running, CallOK
<1>3. /\ cache' \in [cached : BOOLEAN, blkno : Block, data : [InBlock -> Bytes]]
      /\ cache'.blkno = p.blk /\ (p.blk \notin dirty => Loaded(p.blk).data = disk[p.blk])
  BY <1>1, <1>2, LoadedIsDisk, Zenon
<1>4. BlockTypes'
  BY <1>1, <1>3, Zenon DEF BlockInv, BlockTypes
<1>5. CacheCoherent'
  <2>1. p.blk \notin dirty' => p.blk \notin dirty
    BY <1>1, Zenon
  <2> QED
    BY <1>1, <1>3, <2>1, Zenon DEF CacheCoherent
<1> HIDE DEF p
<1>6. \A x \in Span(p) : \/ (o + x) \div BlkSize \in before.dirty
                         \/ Loaded(p.blk).data[p.from + (x - p.at)] = OnDisk(o + x)
  <2> HIDE DEF o
  <2> SUFFICES ASSUME NEW x \in Span(p)
               PROVE  \/ (o + x) \div BlkSize \in before.dirty
                      \/ Loaded(p.blk).data[p.from + (x - p.at)] = OnDisk(o + x)
    BY Zenon
  <2>1. (o + x) \div BlkSize = p.blk /\ (o + x) % BlkSize = p.from + (x - p.at)
    BY <1>1, <1>2, ByteOfPart, Zenon
  <2> QED
    BY <1>2, <1>3, <2>1, Zenon DEF OnDisk
<1>7. Running' /\ ReadExact' /\ WriteExact'
  <2>1. dirty' \subseteq dirty
    BY <1>1, Zenon
  <2> QED
    BY <1>1, <1>6, <2>1, ReadAdvances, Zenon DEF p
<1> QED
  BY <1>4, <1>5, <1>7, Zenon DEF BlockInv

\* A run of whole blocks is read past the cache.
LEMMA ReadWholeOK == BlockInv /\ ReadWhole => BlockInv'
<1> SUFFICES ASSUME BlockInv, ReadWhole PROVE BlockInv'
  BY Zenon
<1> DEFINE o == Start(call.offset)
           p == Now
           data == [b \in 0..(p.len - 1) |-> OnDisk(p.blk * BlkSize + b)]
<1>1. /\ phase = "run" /\ call.op = "read" /\ call.k =< Len(Steps) /\ p.kind = "whole" /\ phase' = phase
      /\ call' = [call EXCEPT !.k = @ + 1, !.buf = Put(@, p, data)]
      /\ UNCHANGED <<blkoff, disk, cache, dirty, before>>
  BY Zenon DEF ReadWhole, Doing
<1>2. Fits(o, call.n, p) /\ o \in Nat /\ call.n \in Nat
  BY <1>1, RunningStep, RunningPlan, Zenon DEF BlockInv, Running, CallOK
<1> HIDE DEF p
<1>3. \A x \in Span(p) : data[p.from + (x - p.at)] = OnDisk(o + x)
  <2> HIDE DEF o
  <2> SUFFICES ASSUME NEW x \in Span(p)
               PROVE  data[p.from + (x - p.at)] = OnDisk(o + x)
    BY Zenon
  <2>1. /\ p.at \in Nat /\ p.len \in Int /\ p.blk \in Nat /\ p.from = 0
        /\ p.blk * BlkSize + p.from = o + p.at
    BY <1>1, <1>2, Zenon DEF Fits
  <2>2. p.blk * BlkSize \in Int
    BY <2>1, BlockAssumption
  <2>3. p.from + (x - p.at) \in 0..(p.len - 1)
    BY <2>1 DEF Span
  <2>4. p.blk * BlkSize + (p.from + (x - p.at)) = o + x
    BY <1>2, <2>1, <2>2 DEF Span
  <2> QED
    BY <2>3, <2>4, Zenon
<1> HIDE DEF data
<1>4. Running' /\ ReadExact' /\ WriteExact'
  BY <1>1, <1>3, ReadAdvances, Zenon DEF p
<1>5. BlockTypes' /\ CacheCoherent'
  BY <1>1, Zenon DEF BlockInv, BlockTypes, CacheCoherent
<1> QED
  BY <1>4, <1>5, Zenon DEF BlockInv

\* A write that goes on to its next step.
LEMMA WriteAdvances ==
  ASSUME BlockInv, phase = "run", call.op = "write", call.k =< Len(Steps), Advance,
         UNCHANGED <<blkoff, before>>,
         Now.kind = "part" => dirty' \subseteq before.dirty,
         \A k \in Block, b \in InBlock :
           LET a == k * BlkSize + b
               o == Start(call.offset)
           IN  IF a \in o..(o + call.n - 1)
               THEN disk[k][b] = New \/ a - o \in Span(Now) => disk'[k][b] = New
               ELSE k \in before.dirty \/ disk[k][b] = before.disk[k][b] =>
                      k \in before.dirty \/ disk'[k][b] = before.disk[k][b]
  PROVE  Running' /\ ReadExact' /\ WriteExact'
<1> DEFINE o == Start(call.offset)
           n == call.n
<1>1. o \in Nat /\ Sound(call.op, o, n, Steps)
  BY RunningPlan, Zenon
<1>2. CallOK /\ Running /\ WrittenSoFar
  BY Zenon DEF BlockInv, Running
<1>3. call.k \in 1..Len(Steps) /\ n \in Nat /\ Len(Steps) \in Nat
  BY <1>1, <1>2 DEF CallOK, Sound
<1>4. /\ call'.op = "write" /\ call'.offset = call.offset /\ call'.n = n /\ phase' = phase
      /\ Start(call.offset)' = o /\ Steps' = Steps
  BY <1>2, Keeps, Zenon DEF Advance
<1>5. /\ call'.k = call.k + 1 /\ call'.ret = call.ret /\ CallOK'
  <2>1. call' = [op |-> call.op, offset |-> call.offset, n |-> call.n, k |-> call.k + 1, ret |-> call.ret, buf |-> call.buf]
    BY <1>2, Zenon DEF CallOK, Advance
  <2> QED
    BY <1>2, <2>1 DEF CallOK
<1>6. (call.k + 1) - 1 = call.k
  BY <1>3
<1>7. WrittenSoFar'
  <2>1. ASSUME NEW k \in Block, NEW b \in InBlock
        PROVE  IF k * BlkSize + b \in o..(o + n - 1)
               THEN (\E m \in 1..call.k : (k * BlkSize + b) - o \in Span(Steps[m])) => disk'[k][b] = New
               ELSE k \in before.dirty \/ disk'[k][b] = before.disk[k][b]
    <3>1. CASE k * BlkSize + b \in o..(o + n - 1)
      <4> SUFFICES ASSUME NEW m \in 1..call.k, (k * BlkSize + b) - o \in Span(Steps[m])
                   PROVE  disk'[k][b] = New
        BY <3>1, Zenon
      <4>1. CASE m = call.k
        BY <3>1, <4>1, Zenon DEF Now
      <4>2. CASE m # call.k
        <5>1. m \in 1..(call.k - 1)
          BY <1>3, <4>2
        <5>2. disk[k][b] = New
          BY <1>2, <3>1, <5>1, Zenon DEF WrittenSoFar
        <5> QED
          BY <3>1, <5>2, Zenon
      <4> QED
        BY <4>1, <4>2, Zenon
    <3>2. CASE ~(k * BlkSize + b \in o..(o + n - 1))
      BY <1>2, <3>2, Zenon DEF WrittenSoFar
    <3> QED
      BY <3>1, <3>2, Zenon
  <2> QED
    BY <1>4, <1>5, <1>6, <2>1, Zenon DEF WrittenSoFar
<1>8. (\A m \in 1..(call'.k - 1) : Steps'[m].kind = "part") => dirty' \subseteq before.dirty
  BY <1>3, <1>4, <1>5, <1>6 DEF Now
<1>9. call'.n > 0 => Start(call.offset)' + call'.n =< End
  BY <1>2, <1>4, Zenon DEF Running
<1>10. call'.ret = call'.n /\ call'.k =< Len(Steps') + 1
  BY <1>2, <1>3, <1>4, <1>5 DEF Running
<1> QED
  BY <1>4, <1>5, <1>7, <1>8, <1>9, <1>10, Zenon DEF Running, ReadExact, WriteExact

\* A partial block, patched in the cache.
LEMMA PatchedBlock ==
  ASSUME BlockInv, NEW p, p.blk \in Block
  PROVE  LET d == Patch(Loaded(p.blk).data, p)
         IN  /\ d \in [InBlock -> Bytes]
             /\ Patched(Loaded(p.blk), p) \in [cached : BOOLEAN, blkno : Block, data : [InBlock -> Bytes]]
             /\ Patched(Loaded(p.blk), p).blkno = p.blk
             /\ Patched(Loaded(p.blk), p).data = d
<1> DEFINE l == Loaded(p.blk)
<1>1. l \in [cached : BOOLEAN, blkno : Block, data : [InBlock -> Bytes]] /\ l.blkno = p.blk
  BY LoadedIsDisk, Zenon
<1> HIDE DEF l
<1>2. Patch(l.data, p) \in [InBlock -> Bytes]
  BY <1>1, Zenon DEF Patch, Bytes
<1> DEFINE d == Patch(l.data, p)
<1>3. Patched(l, p) = [l EXCEPT !.data = d]
  BY Zenon DEF Patched
<1> HIDE DEF d
<1>4. /\ Patched(l, p) \in [cached : BOOLEAN, blkno : Block, data : [InBlock -> Bytes]]
      /\ Patched(l, p).blkno = p.blk /\ Patched(l, p).data = d
  BY <1>1, <1>2, <1>3, Zenon DEF d
<1> QED
  BY <1>2, <1>4, Zenon DEF d, l

\* A partial block that is stored: its bytes in the request are new, and all others
\* are what they were.
LEMMA StoredPart ==
  ASSUME BlockInv, phase = "run", call.k =< Len(Steps), Now.kind = "part",
         disk' = [disk EXCEPT ![Now.blk] = Patch(Loaded(Now.blk).data, Now)],
         NEW k \in Block, NEW b \in InBlock
  PROVE  IF k * BlkSize + b \in Start(call.offset)..(Start(call.offset) + call.n - 1)
         THEN disk[k][b] = New \/ (k * BlkSize + b) - Start(call.offset) \in Span(Now) => disk'[k][b] = New
         ELSE k \in before.dirty \/ disk'[k][b] = disk[k][b]
<1> DEFINE o == Start(call.offset)
           n == call.n
           p == Now
           d == Patch(Loaded(p.blk).data, p)
<1>1. /\ phase = "run" /\ call.k =< Len(Steps) /\ p.kind = "part"
      /\ disk' = [disk EXCEPT ![p.blk] = d]
  BY Zenon
<1>2. /\ Fits(o, n, p) /\ o \in Nat /\ n \in Nat
      /\ p.blk \in Block /\ dirty \subseteq before.dirty
  BY <1>1, RunningStep, RunningPlan, Zenon DEF BlockInv, Running, CallOK
<1>4. p.blk \notin dirty => Loaded(p.blk).data = disk[p.blk]
  BY <1>2, LoadedIsDisk, Zenon
<1>5. \A c \in InBlock : d[c] = IF c \in p.from..(p.from + p.len - 1) THEN New ELSE Loaded(p.blk).data[c]
  BY Zenon DEF Patch
<1> HIDE DEF p, d
<1>6. disk \in [Block -> [InBlock -> Bytes]]
  BY Zenon DEF BlockInv, BlockTypes
<1>7. disk'[p.blk] = d
  BY <1>1, <1>2, <1>6, Zenon
<1>9. IF k * BlkSize + b \in o..(o + n - 1)
      THEN disk[k][b] = New \/ (k * BlkSize + b) - o \in Span(p) => disk'[k][b] = New
      ELSE k \in before.dirty \/ disk'[k][b] = disk[k][b]
  <2> HIDE DEF o, n
  <2>0. k \in Nat /\ k * BlkSize + b \in Nat
    BY BlockAssumption DEF Block, InBlock
  <2>1. CASE k # p.blk
    <3>1. disk'[k] = disk[k]
      BY <1>1, <1>6, <2>1, Zenon
    <3>2. (k * BlkSize + b) - o \notin Span(p)
      <4> SUFFICES ASSUME (k * BlkSize + b) - o \in Span(p) PROVE FALSE
        BY Zenon
      <4>1. PICK x \in Span(p) : x = (k * BlkSize + b) - o
        BY Zenon
      <4>2. (o + x) \div BlkSize = p.blk
        BY <1>1, <1>2, ByteOfPart, Zenon
      <4>3. o + x = k * BlkSize + b
        BY <1>2, <2>0, <4>1
      <4>4. (k * BlkSize + b) \div BlkSize = k
        BY <2>0, DivUnique, Zenon
      <4> QED
        BY <2>1, <4>2, <4>3, <4>4, Zenon
    <3> QED
      BY <3>1, <3>2, Zenon
  <2>2. CASE k = p.blk
    <3>1. disk'[k][b] = d[b]
      BY <1>7, <2>2, Zenon
    <3>2. CASE k * BlkSize + b \in o..(o + n - 1)
      <4>1. b \in p.from..(p.from + p.len - 1)
        BY <1>1, <1>2, <2>2, <3>2, Zenon DEF Fits
      <4> QED
        BY <1>5, <3>1, <3>2, <4>1, Zenon
    <3>3. CASE ~(k * BlkSize + b \in o..(o + n - 1))
      <4>1. b \notin p.from..(p.from + p.len - 1)
        <5>1. /\ p.at \in Nat /\ p.len \in Int /\ p.blk \in Nat /\ p.from \in Nat
              /\ k * BlkSize + p.from = o + p.at /\ p.at + p.len =< n
          BY <1>2, <2>2, Zenon DEF Fits
        <5>2. k * BlkSize \in Int /\ b \in Int
          BY <2>0, BlockAssumption DEF InBlock
        <5>3. PICK x \in Int : x = k * BlkSize
          BY <5>2, Zenon
        <5>4. PICK f \in Nat, l \in Int, t \in Nat : f = p.from /\ l = p.len /\ t = p.at
          BY <5>1, Zenon
        <5>5. x + f = o + t /\ t + l =< n /\ ~(x + b \in o..(o + n - 1))
          BY <3>3, <5>1, <5>3, <5>4, Zenon
        <5>6. b \notin f..(f + l - 1)
          BY <1>2, <5>2, <5>5
        <5> QED
          BY <5>4, <5>6, Zenon
      <4>2. k \notin before.dirty => disk'[k][b] = disk[k][b]
        BY <1>2, <1>4, <1>5, <2>2, <3>1, <4>1, Zenon
      <4> QED
        BY <3>3, <4>2, Zenon
    <3> QED
      BY <3>2, <3>3, Zenon
  <2> QED
    BY <2>1, <2>2, Zenon
<1> QED
  BY <1>9, Zenon DEF o, n, p

\* A partial block is patched in the cache and stored.
LEMMA WritePartOK == BlockInv /\ WritePart => BlockInv'
<1> SUFFICES ASSUME BlockInv, WritePart PROVE BlockInv'
  BY Zenon
<1> DEFINE o == Start(call.offset)
           n == call.n
           p == Now
           d == Patch(Loaded(p.blk).data, p)
<1>1. /\ phase = "run" /\ call.op = "write" /\ call.k =< Len(Steps) /\ p.kind = "part"
      /\ cache' = Patched(Loaded(p.blk), p) /\ disk' = [disk EXCEPT ![p.blk] = d]
      /\ dirty' = {} /\ Advance
      /\ UNCHANGED <<blkoff, before>>
  BY Zenon DEF WritePart, Doing
<1>2. /\ Fits(o, n, p) /\ o \in Nat /\ n \in Nat
      /\ p.blk \in Block /\ dirty \subseteq before.dirty
  BY <1>1, RunningStep, RunningPlan, Zenon DEF BlockInv, Running, CallOK
<1>3. /\ d \in [InBlock -> Bytes]
      /\ cache' \in [cached : BOOLEAN, blkno : Block, data : [InBlock -> Bytes]]
      /\ cache'.blkno = p.blk /\ cache'.data = d
  BY <1>1, <1>2, PatchedBlock, Zenon
<1> HIDE DEF p, d
<1>6. disk \in [Block -> [InBlock -> Bytes]]
  BY Zenon DEF BlockInv, BlockTypes
<1>7. disk' \in [Block -> [InBlock -> Bytes]] /\ disk'[p.blk] = d
  BY <1>1, <1>2, <1>3, <1>6, Zenon
<1>8. BlockTypes' /\ CacheCoherent'
  BY <1>1, <1>3, <1>7, Zenon DEF BlockInv, BlockTypes, CacheCoherent, Advance
<1>9. ASSUME NEW k \in Block, NEW b \in InBlock
      PROVE  IF k * BlkSize + b \in o..(o + n - 1)
             THEN disk[k][b] = New \/ (k * BlkSize + b) - o \in Span(p) => disk'[k][b] = New
             ELSE k \in before.dirty \/ disk[k][b] = before.disk[k][b] =>
                    k \in before.dirty \/ disk'[k][b] = before.disk[k][b]
  BY <1>1, StoredPart, Zenon DEF p, d
<1>10. Running' /\ ReadExact' /\ WriteExact'
  BY <1>1, <1>9, WriteAdvances, Zenon DEF p
<1> QED
  BY <1>8, <1>10, Zenon DEF BlockInv

\* A partial block is patched in the cache and cannot be stored.
LEMMA StoreFailsOK == BlockInv /\ StoreFails => BlockInv'
<1> SUFFICES ASSUME BlockInv, StoreFails PROVE BlockInv'
  BY Zenon
<1>1. /\ phase = "run" /\ call.k =< Len(Steps) /\ Now.kind = "part"
      /\ cache' = Patched(Loaded(Now.blk), Now) /\ dirty' = {Now.blk} /\ Stop
      /\ disk' = disk \/ disk' = [disk EXCEPT ![Now.blk] = Patch(Loaded(Now.blk).data, Now)]
      /\ call.op = "write" /\ call.op # "read" /\ UNCHANGED <<blkoff, before>>
  BY Zenon DEF StoreFails, Doing
<1>2. /\ Fits(Start(call.offset), call.n, Now) /\ Start(call.offset) \in Nat /\ call.n \in Nat
      /\ Now.blk \in Block
  BY <1>1, RunningStep, RunningPlan, Zenon DEF BlockInv, Running, CallOK
<1>3. Now.back # call.n
  BY <1>1, <1>2 DEF Fits
<1>4. ReadExact' /\ WriteExact'
  <2>1. ASSUME NEW k \in Block, NEW b \in InBlock
        PROVE  \/ k * BlkSize + b \in Start(call.offset)..(Start(call.offset) + call.n - 1)
               \/ k \in before.dirty
               \/ disk'[k][b] = disk[k][b]
    BY <1>1, StoredPart, Zenon
  <2> QED
    BY <1>1, <1>3, <2>1, StopExact, Zenon
<1>5. phase' = "done"
  BY <1>1, Zenon DEF Stop
<1>6. /\ cache' \in [cached : BOOLEAN, blkno : Block, data : [InBlock -> Bytes]]
      /\ cache'.blkno = Now.blk
  BY <1>1, <1>2, PatchedBlock, Zenon
<1>7. disk' \in [Block -> [InBlock -> Bytes]]
  <2>1. Patch(Loaded(Now.blk).data, Now) \in [InBlock -> Bytes]
    BY <1>2, PatchedBlock, Zenon
  <2>2. disk \in [Block -> [InBlock -> Bytes]]
    BY Zenon DEF BlockInv, BlockTypes
  <2> QED
    BY <1>1, <1>2, <2>1, <2>2, Zenon
<1>8. BlockTypes' /\ CacheCoherent'
  BY <1>1, <1>5, <1>6, <1>7, Zenon DEF BlockInv, BlockTypes, CacheCoherent
<1> QED
  BY <1>4, <1>5, <1>8, Zenon DEF BlockInv

\* A run of whole blocks is stored past the cache.
LEMMA WriteWholeOK == BlockInv /\ WriteWhole => BlockInv'
<1> SUFFICES ASSUME BlockInv, WriteWhole PROVE BlockInv'
  BY Zenon
<1> DEFINE o == Start(call.offset)
           n == call.n
           p == Now
<1>1. /\ phase = "run" /\ call.op = "write" /\ call.k =< Len(Steps) /\ p.kind = "whole" /\ p.count > 0
      /\ disk' = [k \in Block |-> IF k \in RunOf(p) THEN NoData ELSE disk[k]]
      /\ dirty' = (IF cache.cached /\ cache.blkno \in RunOf(p) THEN {cache.blkno} ELSE dirty)
      /\ Advance
      /\ UNCHANGED <<blkoff, cache, before>>
  BY Zenon DEF WriteWhole, Doing
<1>2. Fits(o, n, p) /\ o \in Nat /\ n \in Nat
  BY <1>1, RunningStep, RunningPlan, Zenon DEF BlockInv, Running, CallOK
<1> HIDE DEF p
<1>3. disk \in [Block -> [InBlock -> Bytes]] /\ NoData \in [InBlock -> Bytes]
  BY Zenon DEF BlockInv, BlockTypes, NoData, Bytes
<1>4. disk' \in [Block -> [InBlock -> Bytes]]
  BY <1>1, <1>3, Zenon
<1>5. CacheCoherent'
  <2> SUFFICES ASSUME cache.cached, cache.blkno \notin dirty' PROVE cache.data = disk'[cache.blkno]
    BY <1>1, Zenon DEF CacheCoherent
  <2>1. cache.blkno \notin RunOf(p) /\ dirty' = dirty
    BY <1>1, Zenon
  <2>2. cache.blkno \in Block
    BY Zenon DEF BlockInv, BlockTypes
  <2> QED
    BY <1>1, <2>1, <2>2, Zenon DEF BlockInv, CacheCoherent
<1>6. BlockTypes'
  BY <1>1, <1>4, Zenon DEF BlockInv, BlockTypes, Advance
<1>7. ASSUME NEW k \in Block, NEW b \in InBlock
      PROVE  IF k * BlkSize + b \in o..(o + n - 1)
             THEN disk[k][b] = New \/ (k * BlkSize + b) - o \in Span(p) => disk'[k][b] = New
             ELSE k \in before.dirty \/ disk[k][b] = before.disk[k][b] =>
                    k \in before.dirty \/ disk'[k][b] = before.disk[k][b]
  <2> HIDE DEF o, n
  <2>0. k \in Nat
    BY DEF Block
  <2>1. /\ k \in RunOf(p) => k * BlkSize + b \in o..(o + n - 1)
        /\ (k * BlkSize + b) - o \in Span(p) => k \in RunOf(p)
    BY <1>1, <1>2, <2>0, ByteOfRun, Zenon
  <2>2. k \in RunOf(p) => disk'[k][b] = New
    BY <1>1, Zenon DEF NoData
  <2>3. k \notin RunOf(p) => disk'[k] = disk[k]
    BY <1>1, Zenon
  <2> QED
    BY <2>1, <2>2, <2>3, Zenon
<1>8. Running' /\ ReadExact' /\ WriteExact'
  BY <1>1, <1>7, WriteAdvances, Zenon DEF p
<1> QED
  BY <1>5, <1>6, <1>8, Zenon DEF BlockInv

\* A call begins.
LEMMA BeginOK ==
  ASSUME BlockInv, NEW op \in {"read", "write"}, NEW offset \in Nat, NEW size \in Nat, Begin(op, offset, size)
  PROVE  BlockInv'
<1> DEFINE n == Clamp(offset, size)
           o == Start(offset)
           bf == IF op = "read" THEN [j \in 1..n |-> New] ELSE <<>>
<1>0. BlkSize \in Nat /\ BlkCount \in Nat /\ End \in Nat
  BY BlockAssumption DEF End
<1>1. o \in Nat
  BY <1>0, SMTT(30) DEF BlockInv, BlockTypes, Start
<1>2. n = IF o >= End THEN 0 ELSE IF o + size >= End THEN End - o ELSE size
  BY Zenon DEF Clamp
<1>3. /\ phase' = "run"
      /\ call' = [op |-> op, offset |-> offset, n |-> n, k |-> 1, ret |-> n, buf |-> bf]
      /\ before' = [disk |-> disk, dirty |-> dirty]
      /\ UNCHANGED <<blkoff, disk, cache, dirty>>
  BY Zenon DEF Begin
<1>4. Start(offset)' = o
  BY <1>3, Zenon DEF Start
<1>5. op = "read" => DOMAIN bf = 1..n
  BY Zenon
<1> HIDE DEF o, n, bf
<1>6. n \in Nat /\ (n > 0 => o + n =< End)
  BY <1>0, <1>1, <1>2
<1>7. /\ call'.op = op /\ call'.offset = offset /\ call'.n = n /\ call'.k = 1 /\ call'.ret = n /\ call'.buf = bf
      /\ before'.disk = disk /\ before'.dirty = dirty
  BY <1>3, Zenon
<1>8. Start(call.offset)' = o
  BY <1>4, <1>7, Zenon DEF Start
<1>9. CallOK'
  <2>1. call' = [op |-> call'.op, offset |-> call'.offset, n |-> call'.n, k |-> call'.k, ret |-> call'.ret, buf |-> call'.buf]
    BY <1>3, <1>7, Zenon
  <2>2. 1 \in Nat \ {0}
    OBVIOUS
  <2> QED
    BY <1>6, <1>7, <2>1, <2>2, Zenon DEF CallOK
<1>10. Len(Steps') \in Nat
  <2>1. Steps' = Plan(op, o, n)
    BY <1>7, <1>8, Zenon DEF Steps
  <2>2. Sound(op, o, n, Plan(op, o, n))
    BY <1>1, <1>6, PlanSound, Zenon
  <2> QED
    BY <2>1, <2>2, Zenon DEF Sound
<1>11. ReadSoFar' \/ op # "read"
  <2> SUFFICES ASSUME op = "read" PROVE ReadSoFar'
    BY Zenon
  <2>1. 1..(1 - 1) = {}
    OBVIOUS
  <2> QED
    BY <1>5, <1>7, <2>1, Zenon DEF ReadSoFar
<1>12. WrittenSoFar'
  <2>1. 1..(1 - 1) = {}
    OBVIOUS
  <2>2. \A k \in Block, b \in InBlock : disk'[k][b] = before'.disk[k][b]
    BY <1>3, <1>7, Zenon
  <2> QED
    BY <1>7, <2>1, <2>2, Zenon DEF WrittenSoFar
<1>13. Running'
  <2>1. call'.n > 0 => Start(call.offset)' + call'.n =< End
    BY <1>6, <1>7, <1>8, Zenon
  <2>2. call'.ret = call'.n /\ call'.k =< Len(Steps') + 1
    BY <1>7, <1>10
  <2>3. dirty' \subseteq before'.dirty
    BY <1>3, <1>7, Zenon
  <2> QED
    BY <1>7, <1>9, <1>11, <1>12, <2>1, <2>2, <2>3, Zenon DEF Running
<1>14. BlockTypes' /\ CacheCoherent'
  BY <1>3, Zenon DEF BlockInv, BlockTypes, CacheCoherent
<1> QED
  BY <1>3, <1>13, <1>14, Zenon DEF BlockInv, ReadExact, WriteExact

\* The invariant holds of a device that has just been initialised ...
LEMMA InitOK == Init => BlockInv
<1> SUFFICES ASSUME Init PROVE BlockInv
  BY Zenon
<1>0. BlkSize \in Nat /\ BlkCount \in Nat \ {0} /\ Offs \subseteq Nat
  BY BlockAssumption, Zenon
<1>1. disk \in [Block -> [InBlock -> Bytes]]
  <2>1. \A k \in Block, b \in InBlock : k * BlkSize + b \in Bytes
    BY <1>0 DEF Block, InBlock, Bytes
  <2> QED
    BY <2>1, Zenon DEF Init
<1>2. cache \in [cached : BOOLEAN, blkno : Block, data : [InBlock -> Bytes]] /\ cache.cached = FALSE
  BY <1>0 DEF Init, Block, NoData, Bytes
<1> QED
  BY <1>0, <1>1, <1>2, Zenon DEF Init, BlockInv, BlockTypes, CacheCoherent, ReadExact, WriteExact

\* ... and every step of a call keeps it.
LEMMA StepOK == BlockInv /\ [Next]_vars => BlockInv'
<1> SUFFICES ASSUME BlockInv, [Next]_vars PROVE BlockInv'
  BY Zenon
<1>1. CASE block_read
  <2>1. PICK offset \in 0..MaxOffset, size \in 0..MaxSize : Begin("read", offset, size)
    BY <1>1, Zenon DEF block_read
  <2>2. offset \in Nat /\ size \in Nat
    BY BlockAssumption
  <2> QED
    BY <2>1, <2>2, BeginOK, Zenon
<1>2. CASE block_write
  <2>1. PICK w \in Writes : Begin("write", w[1], w[2])
    BY <1>2, Zenon DEF block_write
  <2>2. w[1] \in Nat /\ w[2] \in Nat
    BY BlockAssumption, Zenon
  <2> QED
    BY <2>1, <2>2, BeginOK, Zenon
<1>3. CASE Halt
  <2>1. phase' = "halt" /\ UNCHANGED <<blkoff, disk, cache, dirty, call, before>>
    BY <1>3, Zenon DEF Halt
  <2> QED
    BY <2>1, Zenon DEF BlockInv, BlockTypes, CacheCoherent, ReadExact, WriteExact
<1>4. CASE Return
  <2>1. phase' = "idle" /\ UNCHANGED <<blkoff, disk, cache, dirty>>
    BY <1>4, Zenon DEF Return
  <2> QED
    BY <2>1, Zenon DEF BlockInv, BlockTypes, CacheCoherent, ReadExact, WriteExact
<1>5. CASE UNCHANGED vars
  <2>1. /\ blkoff' = blkoff /\ disk' = disk /\ cache' = cache /\ dirty' = dirty /\ phase' = phase
        /\ call' = call /\ before' = before
    BY <1>5, Zenon DEF vars
  <2>2. Start(call.offset)' = Start(call.offset) /\ Steps' = Steps /\ \A a : OnDisk(a)' = OnDisk(a)
    BY <2>1, Zenon DEF Start, Steps, OnDisk
  <2>3. BlockTypes' /\ CacheCoherent'
    BY <2>1, Zenon DEF BlockInv, BlockTypes, CacheCoherent
  <2>4. phase' = "run" => Running'
    BY <2>1, <2>2, Zenon DEF BlockInv, Running, CallOK, ReadSoFar, WrittenSoFar
  <2>5. ReadExact' /\ WriteExact'
    BY <2>1, <2>2, Zenon DEF BlockInv, ReadExact, WriteExact
  <2> QED
    BY <2>3, <2>4, <2>5, Zenon DEF BlockInv
<1> QED
  BY <1>1, <1>2, <1>3, <1>4, <1>5, LoadFailsOK, ReadPartOK, WritePartOK, StoreFailsOK,
     ReadWholeOK, WriteWholeOK, RunFailsOK, FinishOK, Zenon DEF Next

\* block_read and block_write keep the invariant of the block layer, whatever the
\* geometry of the device and whichever driver calls fail.
THEOREM BlockSafe == Spec => []BlockInv
BY InitOK, StepOK, PTL DEF Spec

\* The one-block cache of a device is a copy of its block, but for a block whose store
\* has failed or that whole blocks were written over.
THEOREM CacheIsACopy == Spec => []CacheCoherent
<1>1. BlockInv => CacheCoherent
  BY Zenon DEF BlockInv
<1> QED
  BY <1>1, BlockSafe, PTL

\* What block_read says it has delivered is what the disk holds, for every offset, size
\* and limit on the length of a run.
THEOREM ReadsDeliver == Spec => []ReadExact
<1>1. BlockInv => ReadExact
  BY Zenon DEF BlockInv
<1> QED
  BY <1>1, BlockSafe, PTL

\* block_write stores its bytes and no others: partial blocks for every request, whole
\* blocks where the runs start at block 0.
THEOREM WritesStore == Spec => []WriteExact
<1>1. BlockInv => WriteExact
  BY Zenon DEF BlockInv
<1> QED
  BY <1>1, BlockSafe, PTL

-----------------------------------------------------------------------------
\* The bytes of the ring are sequences: an element of a sequence.
LEMMA AnElement ==
  ASSUME NEW S, NEW s \in Seq(S), NEW i \in 1..Len(s)
  PROVE  s[i] \in S
OBVIOUS

\* Two sequences are equal when they agree at every position.
LEMMA SameSeq ==
  ASSUME NEW S, NEW s \in Seq(S), NEW t \in Seq(S), Len(s) = Len(t),
         \A i \in 1..Len(s) : s[i] = t[i]
  PROVE  s = t
OBVIOUS

\* The empty sequence.
LEMMA TheEmptySeq ==
  ASSUME NEW S
  PROVE  << >> \in Seq(S) /\ Len(<< >>) = 0
OBVIOUS

\* The empty sequence at either end of another leaves it as it is.
LEMMA ConcatEmpty ==
  ASSUME NEW S, NEW s \in Seq(S)
  PROVE  s \o << >> = s /\ << >> \o s = s
OBVIOUS

\* The elements of a concatenation.
LEMMA ConcatIs ==
  ASSUME NEW S, NEW s \in Seq(S), NEW t \in Seq(S)
  PROVE  /\ s \o t \in Seq(S) /\ Len(s \o t) = Len(s) + Len(t)
         /\ \A i \in 1..(Len(s) + Len(t)) :
               (s \o t)[i] = IF i <= Len(s) THEN s[i] ELSE t[i - Len(s)]
OBVIOUS

\* The elements of a part of a sequence.
LEMMA SubSeqIs ==
  ASSUME NEW S, NEW s, NEW a \in Int, NEW b \in Int, \A i \in a..b : s[i] \in S
  PROVE  /\ SubSeq(s, a, b) \in Seq(S)
         /\ Len(SubSeq(s, a, b)) = IF a <= b THEN b - a + 1 ELSE 0
         /\ \A i \in 1..(b - a + 1) : SubSeq(s, a, b)[i] = s[a + i - 1]
OBVIOUS

\* The part that is empty.
LEMMA SubSeqNone ==
  ASSUME NEW s, NEW a \in Int, NEW b \in Int, b < a
  PROVE  SubSeq(s, a, b) = << >>
OBVIOUS

\* The part that is the whole sequence.
LEMMA SubSeqAll ==
  ASSUME NEW S, NEW s \in Seq(S)
  PROVE  SubSeq(s, 1, Len(s)) = s
OBVIOUS

\* The first element and what follows it.
LEMMA HeadTailIs ==
  ASSUME NEW S, NEW s \in Seq(S), s # << >>
  PROVE  /\ Head(s) \in S /\ Tail(s) \in Seq(S)
         /\ Len(Tail(s)) = Len(s) - 1
         /\ \A i \in 1..Len(Tail(s)) : Tail(s)[i] = s[i + 1]
OBVIOUS

\* A sequence with one more element at its end.
LEMMA AppendIs ==
  ASSUME NEW S, NEW s \in Seq(S), NEW e \in S
  PROVE  /\ Append(s, e) \in Seq(S) /\ Append(s, e) # << >>
         /\ Len(Append(s, e)) = Len(s) + 1
         /\ \A i \in 1..Len(s) : Append(s, e)[i] = s[i]
         /\ Append(s, e)[Len(s) + 1] = e
OBVIOUS


\* Advancing an index of the ring as ringbuffer_write and ringbuffer_read do
\* gives an index of the ring.
LEMMA StepIndex == ASSUME NEW i \in Index PROVE Step(i) \in Index
BY SizeAssumption DEF Index, Step

\* The messages ringbuffer_write is called with are sequences of bytes.
LEMMA MsgIsSeq == Msg \subseteq Seq(Byte)
<1> SUFFICES ASSUME NEW s \in Msg PROVE s \in Seq(Byte)
  BY Zenon
<1>1. PICK n \in Lengths : s \in [1..n -> Byte]
  BY Zenon DEF Msg
<1> QED
  BY <1>1, LengthsAssumption

\* The ring made by ringbuffer_create satisfies the invariant.
LEMMA InitRingInv == RingInit => RingInv
BY SizeAssumption, FreeAssumption, SMTT(30)
   DEF RingInit, RingInv, TypeOK, LockOwner, FullMeansWrapped, Index, Spinning, Holding

\* Every step of every CPU, in whatever order, preserves the invariant.
LEMMA NextRingInv == RingInv /\ [RingNext]_ringvars => RingInv'
<1> SUFFICES ASSUME RingInv, [RingNext]_ringvars PROVE RingInv'
  BY Zenon
<1> USE SizeAssumption, FreeAssumption DEF RingInv, TypeOK, LockOwner, FullMeansWrapped, Spinning, Holding
<1>1. ASSUME NEW c \in Cpu, NEW s \in Msg, CallWrite(c, s) PROVE RingInv'
  BY <1>1, MsgIsSeq, Zenon DEF CallWrite, ring
<1>2. ASSUME NEW c \in Cpu, NEW n \in Lengths, CallRead(c, n) PROVE RingInv'
  BY <1>2, LengthsAssumption, Zenon DEF CallRead, ring
<1>3. ASSUME NEW c \in Cpu, CallReset(c) PROVE RingInv'
  BY <1>3, Zenon DEF CallReset, ring
<1>4. ASSUME NEW c \in Cpu, Acquire(c) PROVE RingInv'
  <2>1. TypeOK'
    BY <1>4 DEF Acquire, ring, LockFree
  <2>2. LockOwner'
    BY <1>4, Zenon DEF Acquire, ring, LockFree
  <2> QED
    BY <1>4, <2>1, <2>2, Zenon DEF Acquire, ring
<1>5. ASSUME NEW c \in Cpu, WriteByte(c) PROVE RingInv'
  <2>1. head' \in Index /\ tail' \in Index
    BY <1>5, StepIndex, Zenon DEF WriteByte, TailAfterStore
  <2>2. todo[c] \in Seq(Byte) /\ todo[c] # <<>>
    BY <1>5, Zenon DEF WriteByte
  <2>3. Head(todo[c]) \in Byte /\ Tail(todo[c]) \in Seq(Byte)
    BY <2>2
  <2> QED
    BY <1>5, <2>1, <2>3, Zenon DEF WriteByte
<1>6. ASSUME NEW c \in Cpu, WriteDone(c) PROVE RingInv'
  BY <1>6, Zenon DEF WriteDone, ring, Unlock
<1>7. ASSUME NEW c \in Cpu, ReadByte(c) PROVE RingInv'
  <2>1. tail' \in Index /\ buffer[tail] \in Byte
    BY <1>7, StepIndex, Zenon DEF ReadByte
  <2>2. Append(got[c], buffer[tail]) \in Seq(Byte)
    BY <2>1
  <2>3. want[c] - 1 \in Nat
    BY <1>7 DEF ReadByte
  <2> QED
    BY <1>7, <2>1, <2>2, <2>3, Zenon DEF ReadByte, FullAfterTake
<1>8. ASSUME NEW c \in Cpu, ReadDone(c) PROVE RingInv'
  BY <1>8, Zenon DEF ReadDone, ring, Unlock
<1>9. ASSUME NEW c \in Cpu, ResetDone(c) PROVE RingInv'
  <2>1. 0 \in Index
    BY DEF Index
  <2> QED
    BY <1>9, <2>1, Zenon DEF ResetDone, Unlock
<1>10. CASE UNCHANGED ringvars
  BY <1>10, Zenon DEF ringvars
<1> QED
  BY <1>1, <1>2, <1>3, <1>4, <1>5, <1>6, <1>7, <1>8, <1>9, <1>10, Zenon DEF RingNext, Call, InLock

\* At most one CPU is inside the __lock blocks of ringbuffer.c, the indices
\* stay in the buffer and a ring marked full is really full.
THEOREM RingSafe == RingSpec => []RingInv
BY InitRingInv, NextRingInv, PTL DEF RingSpec

\* rb->full is only set when head has caught up with tail.
THEOREM FullFlagSound == RingSpec => []FullMeansWrapped
<1>1. RingInv => FullMeansWrapped
  BY Zenon DEF RingInv
<1> QED
  BY RingSafe, <1>1, PTL

-----------------------------------------------------------------------------
\* Below twice the size, the modulo of ringbuffer.c takes the size off at most once.
LEMMA Wrap == ASSUME NEW a \in Nat, a < 2 * Size
              PROVE a % Size = IF a < Size THEN a ELSE a - Size
<1>1. CASE a < Size
  BY <1>1, SizeAssumption
<1>2. CASE a >= Size
  BY <1>2, SizeAssumption
<1> QED
  BY <1>1, <1>2, SizeAssumption

\* ringbuffer_available never reports more bytes than the ring has.
LEMMA AvailableBound == RingInv => Available \in 0..Size
BY SizeAssumption DEF RingInv, TypeOK, Available, Index, FullMeansWrapped

\* What the bytes a reader would get are made of: ringbuffer_available of them,
\* from rb->tail on.
ContentIs ==
  /\ Available \in 0..Size
  /\ Content \in Seq(Byte)
  /\ Len(Content) = Available
  /\ \A i \in 1..Available : Content[i] = buffer[(tail + i - 1) % Size]

\* The content of the ring is a sequence of bytes of the reported length.
LEMMA ContentProperties == RingInv => ContentIs
<1> SUFFICES ASSUME RingInv PROVE ContentIs
  BY Zenon
<1>1. Available \in Nat /\ Available =< Size
  BY AvailableBound, SizeAssumption
<1>2. ASSUME NEW i \in 1..Available PROVE buffer[(tail + i - 1) % Size] \in Byte
  <2>1. (tail + i - 1) % Size \in Index
    BY <1>1, SizeAssumption DEF Index, RingInv, TypeOK
  <2> QED
    BY <2>1, Zenon DEF RingInv, TypeOK
<1>3. Content \in [1..Available -> Byte]
  BY <1>2, Zenon DEF Content
<1> QED
  BY <1>1, <1>3, SizeAssumption DEF Content, ContentIs

\* The bytes of s that a ring of n bytes keeps are its last ones.
LEMMA LastNProperties ==
  ASSUME NEW s \in Seq(Byte), NEW n \in Nat
  PROVE  /\ LastN(s, n) \in Seq(Byte)
         /\ Len(LastN(s, n)) = IF Len(s) =< n THEN Len(s) ELSE n
         /\ \A i \in 1..Len(LastN(s, n)) : LastN(s, n)[i] = s[Len(s) - Len(LastN(s, n)) + i]
<1>1. CASE Len(s) =< n
  BY <1>1 DEF LastN
<1>2. CASE ~(Len(s) =< n)
  <2>1. \A i \in (Len(s) - n + 1)..Len(s) : s[i] \in Byte
    BY <1>2, AnElement
  <2> QED
    BY <1>2, <2>1, SubSeqIs DEF LastN
<1> QED
  BY <1>1, <1>2, Zenon

\* Dropping the oldest bytes after each byte stored, as ringbuffer_write does, or
\* once at the end keeps the same bytes.
LEMMA LastNConcat ==
  ASSUME NEW s \in Seq(Byte), NEW t \in Seq(Byte), NEW n \in Nat
  PROVE  LastN(LastN(s, n) \o t, n) = LastN(s \o t, n)
<1> DEFINE a == LastN(s, n)
           b == a \o t
           d == s \o t
           x == LastN(b, n)
           y == LastN(d, n)
<1>1. a \in Seq(Byte) /\ Len(a) = (IF Len(s) =< n THEN Len(s) ELSE n)
  BY LastNProperties, Zenon
<1>2. \A i \in 1..Len(a) : a[i] = s[Len(s) - Len(a) + i]
  BY LastNProperties, Zenon
<1> HIDE DEF a
<1>3. b \in Seq(Byte) /\ Len(b) = Len(a) + Len(t)
  BY <1>1, ConcatIs, Zenon
<1>4. \A i \in 1..Len(a) + Len(t) : b[i] = IF i <= Len(a) THEN a[i] ELSE t[i - Len(a)]
  BY <1>1, ConcatIs, Zenon
<1>5. d \in Seq(Byte) /\ Len(d) = Len(s) + Len(t)
  BY ConcatIs, Zenon
<1>6. \A i \in 1..Len(s) + Len(t) : d[i] = IF i <= Len(s) THEN s[i] ELSE t[i - Len(s)]
  BY ConcatIs, Zenon
<1> HIDE DEF b, d
<1>7. x \in Seq(Byte) /\ Len(x) = (IF Len(b) =< n THEN Len(b) ELSE n)
      /\ \A i \in 1..Len(x) : x[i] = b[Len(b) - Len(x) + i]
  BY <1>3, LastNProperties, Zenon
<1>8. y \in Seq(Byte) /\ Len(y) = (IF Len(d) =< n THEN Len(d) ELSE n)
      /\ \A i \in 1..Len(y) : y[i] = d[Len(d) - Len(y) + i]
  BY <1>5, LastNProperties, Zenon
<1> HIDE DEF x, y
<1>9. Len(s) \in Nat /\ Len(t) \in Nat /\ Len(a) \in Nat /\ Len(x) \in Nat
  BY <1>1, <1>7
<1>10. Len(x) = Len(y)
  BY <1>1, <1>3, <1>5, <1>7, <1>8, <1>9, SMTT(30)
<1>11. ASSUME NEW i \in 1..Len(x) PROVE x[i] = y[i]
  <2> DEFINE j == Len(b) - Len(x) + i
             k == Len(d) - Len(y) + i
  <2>1. x[i] = b[j] /\ y[i] = d[k]
    BY <1>7, <1>8, <1>10, Zenon
  <2>2. j \in 1..(Len(a) + Len(t)) /\ k = j + (Len(s) - Len(a)) /\ Len(a) =< Len(s)
    <3>1. Len(a) = (IF Len(s) =< n THEN Len(s) ELSE n) /\ Len(b) = Len(a) + Len(t)
          /\ Len(d) = Len(s) + Len(t) /\ Len(x) = (IF Len(b) =< n THEN Len(b) ELSE n)
          /\ Len(y) = (IF Len(d) =< n THEN Len(d) ELSE n)
      BY <1>1, <1>3, <1>5, <1>7, <1>8, Zenon
    <3>2. CASE Len(s) =< n
      BY <3>1, <3>2, <1>9
    <3>3. CASE Len(s) > n
      <4>1. Len(a) = n /\ Len(b) = n + Len(t) /\ Len(x) = n /\ Len(y) = n
        BY <3>1, <3>3, <1>9
      <4>2. Len(d) = Len(s) + Len(t) /\ i \in Int /\ i >= 1 /\ i =< n
        BY <1>5, <1>9, <4>1
      <4>3. j = Len(t) + i /\ k = Len(s) + Len(t) - n + i
        BY <4>1, <4>2, <1>9
      <4> HIDE DEF j, k
      <4> QED
        BY <4>1, <4>2, <4>3, <3>3, <1>9
    <3> QED
      BY <3>2, <3>3, <1>9
  <2>3. k \in 1..(Len(s) + Len(t)) /\ k - Len(s) = j - Len(a) /\ (k =< Len(s) <=> j =< Len(a))
    BY <1>9, <2>2, SMTT(30)
  <2> HIDE DEF j, k
  <2>4. d[k] = IF k =< Len(s) THEN s[k] ELSE t[k - Len(s)]
    BY <1>6, <2>3, Zenon
  <2>5. b[j] = IF j =< Len(a) THEN a[j] ELSE t[j - Len(a)]
    BY <1>4, <2>2, Zenon
  <2>6. j =< Len(a) => a[j] = s[k]
    <3>1. ASSUME j =< Len(a) PROVE a[j] = s[k]
      <4>1. j \in 1..Len(a)
        BY <2>2, <3>1, <1>9
      <4>2. a[j] = s[Len(s) - Len(a) + j]
        BY <1>2, <4>1, Zenon
      <4>3. Len(s) - Len(a) + j = k
        BY <2>2, <1>9
      <4> QED
        BY <4>2, <4>3, Zenon
    <3> QED
      BY <3>1, Zenon
  <2> QED
    BY <2>1, <2>3, <2>4, <2>5, <2>6, Zenon
<1>12. x = y
  BY <1>7, <1>8, <1>10, <1>11, SameSeq, Zenon
<1> QED
  BY <1>12, Zenon DEF a, b, d, x, y

\* Moving the first byte of t to the end of s leaves s followed by t the same.
LEMMA MoveHead ==
  ASSUME NEW s \in Seq(Byte), NEW t \in Seq(Byte), t # <<>>
  PROVE  Append(s, Head(t)) \o Tail(t) = s \o t
<1>1. Head(t) \in Byte /\ Tail(t) \in Seq(Byte) /\ Len(Tail(t)) = Len(t) - 1
      /\ \A i \in 1..Len(Tail(t)) : Tail(t)[i] = t[i + 1]
  BY HeadTailIs, Zenon
<1>2. Append(s, Head(t)) \in Seq(Byte) /\ Len(Append(s, Head(t))) = Len(s) + 1
      /\ (\A i \in 1..Len(s) : Append(s, Head(t))[i] = s[i]) /\ Append(s, Head(t))[Len(s) + 1] = t[1]
  BY <1>1, AppendIs
<1> DEFINE u == Append(s, Head(t))
           v == Tail(t)
<1>3. u \o v \in Seq(Byte) /\ Len(u \o v) = Len(u) + Len(v)
      /\ \A i \in 1..Len(u) + Len(v) : (u \o v)[i] = IF i <= Len(u) THEN u[i] ELSE v[i - Len(u)]
  BY <1>1, <1>2, ConcatIs
<1>4. s \o t \in Seq(Byte) /\ Len(s \o t) = Len(s) + Len(t)
      /\ \A i \in 1..Len(s) + Len(t) : (s \o t)[i] = IF i <= Len(s) THEN s[i] ELSE t[i - Len(s)]
  BY ConcatIs, Zenon
<1>5. Len(s) \in Nat /\ Len(t) \in Nat
  OBVIOUS
<1>6. \A i \in 1..Len(u \o v) : (u \o v)[i] = (s \o t)[i]
  BY <1>1, <1>2, <1>3, <1>4, <1>5, SMTT(30)
<1> QED
  BY <1>1, <1>2, <1>3, <1>4, <1>5, <1>6, SameSeq

\* Where byte i of the content is in rb->buffer, without the modulo.
LEMMA Place ==
  ASSUME NEW t \in Index, NEW i \in 1..Size
  PROVE  /\ (t + i - 1) % Size = IF t + i - 1 < Size THEN t + i - 1 ELSE t + i - 1 - Size
         /\ (t + i - 1) % Size \in Index
<1>1. t + i - 1 \in Nat /\ t + i - 1 < 2 * Size
  BY SizeAssumption DEF Index
<1> QED
  BY <1>1, Wrap, SizeAssumption DEF Index

\* The next index, without the modulo.
LEMMA StepWrap == ASSUME NEW i \in Index PROVE Step(i) = IF i + 1 = Size THEN 0 ELSE i + 1
<1>1. i + 1 \in Nat /\ i + 1 < 2 * Size
  BY SizeAssumption DEF Index
<1> QED
  BY <1>1, Wrap, SizeAssumption DEF Index, Step

\* One iteration of ringbuffer_write appends the byte to the content, which loses its
\* oldest byte when the ring was full, wherever head and tail are.
LEMMA ContentAfterWrite ==
  ASSUME RingInv, RingInv', NEW e \in Byte,
         buffer' = [buffer EXCEPT ![head] = e], tail' = TailAfterStore,
         head' = Step(head), full' = (head' = tail')
  PROVE  Content' = LastN(Append(Content, e), Size)
<1> DEFINE u == Append(Content, e)
           v == LastN(u, Size)
<1>1. head \in Index /\ tail \in Index /\ head' \in Index /\ tail' \in Index
      /\ buffer \in [Index -> Byte] /\ full \in BOOLEAN /\ (full => head = tail)
  BY Zenon DEF RingInv, TypeOK, FullMeansWrapped
<1>2. Content \in Seq(Byte) /\ Len(Content) = Available
      /\ \A i \in 1..Available : Content[i] = buffer[(tail + i - 1) % Size]
  BY ContentProperties, Zenon DEF ContentIs
<1>0. ContentIs'
  BY ContentProperties, PTL
<1>3. Content' \in Seq(Byte) /\ Len(Content') = Available'
      /\ \A i \in 1..Available' : Content'[i] = buffer'[(tail' + i - 1) % Size]
  BY <1>0, Zenon DEF ContentIs
<1>4. Available \in 0..Size /\ Available' \in 0..Size
  BY <1>0, ContentProperties, Zenon DEF ContentIs
<1>5. u \in Seq(Byte) /\ Len(u) = Available + 1
      /\ (\A i \in 1..Available : u[i] = Content[i]) /\ u[Available + 1] = e
  BY <1>2, AppendIs
<1> HIDE DEF u
<1>6. v \in Seq(Byte) /\ Len(v) = (IF Available + 1 =< Size THEN Available + 1 ELSE Size)
      /\ \A i \in 1..Len(v) : v[i] = u[Len(u) - Len(v) + i]
  BY <1>5, LastNProperties, SizeAssumption, Zenon
<1> HIDE DEF v
<1>7. CASE full
  <2>1. Available = Size /\ head = tail /\ tail' = Step(tail) /\ head' = tail' /\ full'
    BY <1>1, <1>7, Zenon DEF Available, TailAfterStore
  <2>2. Available' = Size
    BY <2>1, Zenon DEF Available
  <2>3. ASSUME NEW i \in 1..Size PROVE Content'[i] = v[i]
    <3>1. (tail' + i - 1) % Size = IF i = Size THEN head ELSE (tail + (i + 1) - 1) % Size
      <4>1. tail' = IF tail + 1 = Size THEN 0 ELSE tail + 1
        BY <1>1, <2>1, StepWrap, Zenon
      <4>2. (tail' + i - 1) % Size = IF tail' + i - 1 < Size THEN tail' + i - 1 ELSE tail' + i - 1 - Size
        BY <1>1, Place, Zenon
      <4>3. i # Size => (tail + (i + 1) - 1) % Size = IF tail + i < Size THEN tail + i ELSE tail + i - Size
        <5>1. i # Size => i + 1 \in 1..Size
          BY SizeAssumption
        <5> QED
          BY <1>1, <5>1, Place, SizeAssumption, SMTT(30) DEF Index
      <4> QED
        BY <4>1, <4>2, <4>3, <1>1, <2>1, SizeAssumption DEF Index
    <3>2. v[i] = u[i + 1]
      <4>1. Len(v) = Size /\ Len(u) - Len(v) + i = i + 1
        BY <1>5, <1>6, <2>1, SizeAssumption
      <4> QED
        BY <1>6, <4>1, Zenon
    <3>3. CASE i = Size
      BY <1>1, <1>3, <1>5, <2>1, <2>2, <3>1, <3>2, <3>3, Zenon
    <3>4. CASE i # Size
      <4>1. i + 1 \in 1..Size
        BY <3>4, SizeAssumption
      <4>2. v[i] = buffer[(tail + (i + 1) - 1) % Size]
        BY <1>2, <1>5, <2>1, <3>2, <4>1, Zenon
      <4>3. (tail + (i + 1) - 1) % Size # head
        BY <1>1, <2>1, <4>1, <3>4, Place, SizeAssumption DEF Index
      <4>4. (tail + (i + 1) - 1) % Size \in Index
        BY <1>1, <4>1, Place, Zenon
      <4> QED
        BY <1>1, <1>3, <2>2, <3>1, <3>4, <4>2, <4>3, <4>4, Zenon
    <3> QED
      BY <3>3, <3>4, Zenon
  <2> QED
    BY <1>3, <1>6, <2>1, <2>2, <2>3, SameSeq, SizeAssumption DEF u, v
<1>8. CASE ~full
  <2>1. tail' = tail /\ Available = (IF head >= tail THEN head - tail ELSE head - tail + Size)
    BY <1>1, <1>8, Zenon DEF Available, TailAfterStore
  <2>2. Available < Size
    BY <1>1, <2>1, SizeAssumption DEF Index
  <2>3. Available' = Available + 1
    <3>1. head' = IF head + 1 = Size THEN 0 ELSE head + 1
      BY <1>1, StepWrap, Zenon
    <3>2. CASE full'
      <4>1. head' = tail
        BY <2>1, <3>2, Zenon
      <4>2. Available + 1 = Size
        BY <1>1, <2>1, <3>1, <4>1, SizeAssumption DEF Index
      <4> QED
        BY <3>2, <4>2, Zenon DEF Available
    <3>3. CASE ~full'
      <4>1. head' # tail
        BY <2>1, <3>3, Zenon
      <4>2. Available' = IF head' >= tail THEN head' - tail ELSE head' - tail + Size
        BY <2>1, <3>3, Zenon DEF Available
      <4> QED
        BY <1>1, <2>1, <3>1, <4>1, <4>2, SizeAssumption DEF Index
    <3> QED
      BY <3>2, <3>3, Zenon
  <2>4. (tail + (Available + 1) - 1) % Size = head
    <3>1. Available + 1 \in 1..Size
      BY <2>2, <1>4, SizeAssumption
    <3> QED
      BY <1>1, <2>1, <3>1, Place, SizeAssumption DEF Index
  <2>5. ASSUME NEW i \in 1..(Available + 1) PROVE Content'[i] = v[i]
    <3>1. v[i] = u[i]
      <4>1. Len(v) = Available + 1 /\ Len(u) - Len(v) + i = i
        BY <1>4, <1>5, <1>6, <2>2, SizeAssumption
      <4> QED
        BY <1>6, <4>1, Zenon
    <3>2. Content'[i] = buffer'[(tail + i - 1) % Size]
      BY <1>3, <2>1, <2>3, Zenon
    <3>3. CASE i = Available + 1
      BY <1>1, <1>5, <2>4, <3>1, <3>2, <3>3, Zenon
    <3>4. CASE i # Available + 1
      <4>1. i \in 1..Available /\ i \in 1..Size
        BY <1>4, <3>4, SizeAssumption
      <4>2. (tail + i - 1) % Size # head /\ (tail + i - 1) % Size \in Index
        BY <1>1, <2>1, <4>1, Place, SizeAssumption, SMTT(30) DEF Index
      <4> QED
        BY <1>1, <1>2, <1>5, <3>1, <3>2, <4>1, <4>2, Zenon
    <3> QED
      BY <3>3, <3>4, Zenon
  <2> QED
    BY <1>3, <1>4, <1>6, <2>2, <2>3, <2>5, SameSeq, SizeAssumption DEF u, v
<1> QED
  BY <1>1, <1>7, <1>8, Zenon

\* One iteration of ringbuffer_read takes the oldest byte off the content.
LEMMA ContentAfterRead ==
  ASSUME RingInv, RingInv', ~IsEmpty, buffer' = buffer, head' = head,
         full' = FALSE, tail' = Step(tail)
  PROVE  Content # <<>> /\ Head(Content) = buffer[tail] /\ Content' = Tail(Content)
<1>1. head \in Index /\ tail \in Index /\ full \in BOOLEAN /\ (full => head = tail)
  BY Zenon DEF RingInv, TypeOK, FullMeansWrapped
<1>2. ContentIs
  BY ContentProperties, Zenon
<1>3. ContentIs'
  BY ContentProperties, PTL
<1>4. Available > 0
  BY <1>1, SizeAssumption DEF Available, IsEmpty, Index
<1>5. Content # <<>> /\ Content \in Seq(Byte)
  BY <1>2, <1>4 DEF ContentIs
<1>6. Head(Content) = buffer[tail]
  <2>1. Content[1] = buffer[(tail + 1 - 1) % Size]
    BY <1>2, <1>4 DEF ContentIs
  <2>2. (tail + 1 - 1) % Size = tail
    BY <1>1, SizeAssumption, Place DEF Index
  <2> QED
    BY <1>5, <2>1, <2>2
<1>7. Available' = Available - 1
  <2>1. tail' = IF tail + 1 = Size THEN 0 ELSE tail + 1
    BY <1>1, StepWrap, Zenon
  <2>2. Available' = IF head >= tail' THEN head - tail' ELSE head - tail' + Size
    BY Zenon DEF Available
  <2> QED
    BY <1>1, <2>1, <2>2, SizeAssumption DEF Index, Available, IsEmpty
<1>8. Tail(Content) \in Seq(Byte) /\ Len(Tail(Content)) = Available - 1
      /\ \A i \in 1..(Available - 1) : Tail(Content)[i] = Content[i + 1]
  BY <1>2, <1>5, HeadTailIs DEF ContentIs
<1>9. Available \in Nat /\ Available =< Size
  BY <1>2, SizeAssumption DEF ContentIs
<1>10. ASSUME NEW i \in 1..(Available - 1) PROVE Content'[i] = Tail(Content)[i]
  <2>1. Content'[i] = buffer[(tail' + i - 1) % Size]
    BY <1>3, <1>7, Zenon DEF ContentIs
  <2>2. i + 1 \in 1..Available /\ i \in 1..Size /\ i + 1 \in 1..Size
    BY <1>9, SizeAssumption
  <2>3. Content[i + 1] = buffer[(tail + (i + 1) - 1) % Size]
    BY <1>2, <2>2, Zenon DEF ContentIs
  <2>4. tail' = (IF tail + 1 = Size THEN 0 ELSE tail + 1) /\ tail' \in Index
    BY <1>1, StepWrap, StepIndex, Zenon
  <2>5. (tail' + i - 1) % Size = IF tail' + i - 1 < Size THEN tail' + i - 1 ELSE tail' + i - 1 - Size
    BY <2>2, <2>4, Place, Zenon
  <2>6. (tail + (i + 1) - 1) % Size = IF tail + (i + 1) - 1 < Size THEN tail + (i + 1) - 1 ELSE tail + (i + 1) - 1 - Size
    BY <1>1, <2>2, Place, Zenon
  <2>7. (tail' + i - 1) % Size = (tail + (i + 1) - 1) % Size
    BY <1>1, <2>2, <2>4, <2>5, <2>6, SizeAssumption DEF Index
  <2> QED
    BY <1>8, <2>1, <2>3, <2>7, Zenon
<1>11. Content' = Tail(Content)
  <2>1. Content' \in Seq(Byte) /\ Len(Content') = Available - 1
    BY <1>3, <1>7, Zenon DEF ContentIs
  <2> QED
    BY <2>1, <1>8, <1>10, SameSeq, Zenon
<1> QED
  BY <1>5, <1>6, <1>11, Zenon

\* How many bytes of s a read of n gets.
Cut(s, n) == IF n =< Len(s) THEN n ELSE Len(s)

\* Taking one byte of s and then n - 1 of the rest, as ringbuffer_read does, or n at
\* once gives the same bytes and leaves the same.
LEMMA TakeHead ==
  ASSUME NEW s \in Seq(Byte), s # <<>>, NEW g \in Seq(Byte), NEW n \in Nat \ {0}
  PROVE  /\ Append(g, Head(s)) \o SubSeq(Tail(s), 1, Cut(Tail(s), n - 1)) = g \o SubSeq(s, 1, Cut(s, n))
         /\ SubSeq(Tail(s), Cut(Tail(s), n - 1) + 1, Len(Tail(s))) = SubSeq(s, Cut(s, n) + 1, Len(s))
<1> DEFINE k == Cut(s, n)
           t == Tail(s)
           a == SubSeq(s, 1, k)
<1>1. t \in Seq(Byte) /\ Len(t) = Len(s) - 1 /\ \A i \in 1..Len(t) : t[i] = s[i + 1]
  BY HeadTailIs, Zenon
<1>2. Len(s) \in Nat /\ Len(s) >= 1
  BY TheEmptySeq
<1>3. k \in 1..Len(s) /\ Cut(t, n - 1) = k - 1
  BY <1>1, <1>2 DEF Cut
<1> HIDE DEF k, t
<1>4. SubSeq(t, 1, k - 1) = Tail(a) /\ Head(a) = Head(s) /\ a \in Seq(Byte) /\ a # <<>>
  <2>1. \A i \in 1..k : s[i] \in Byte
    BY <1>2, <1>3, AnElement
  <2>2. a \in Seq(Byte) /\ Len(a) = k /\ \A i \in 1..k : a[i] = s[i]
    BY <1>2, <1>3, <2>1, SubSeqIs
  <2>3. a # <<>> /\ Head(a) = Head(s)
    BY <1>2, <1>3, <2>2
  <2>4. Tail(a) \in Seq(Byte) /\ Len(Tail(a)) = k - 1 /\ \A i \in 1..(k - 1) : Tail(a)[i] = a[i + 1]
    BY <2>2, <2>3, HeadTailIs, Zenon
  <2>5. \A i \in 1..(k - 1) : t[i] \in Byte
    BY <1>1, <1>2, <1>3, AnElement
  <2>6. SubSeq(t, 1, k - 1) \in Seq(Byte) /\ Len(SubSeq(t, 1, k - 1)) = k - 1
        /\ \A i \in 1..(k - 1) : SubSeq(t, 1, k - 1)[i] = t[i]
    BY <1>3, <2>5, SubSeqIs
  <2> HIDE DEF a
  <2>7. \A i \in 1..(k - 1) : SubSeq(t, 1, k - 1)[i] = Tail(a)[i]
    BY <1>1, <1>2, <1>3, <2>2, <2>4, <2>6, SMTT(30)
  <2>8. SubSeq(t, 1, k - 1) = Tail(a)
    BY <2>4, <2>6, <2>7, SameSeq, Zenon
  <2> QED
    BY <2>2, <2>3, <2>8, Zenon
<1>5. SubSeq(t, k, Len(t)) = SubSeq(s, k + 1, Len(s))
  <2> DEFINE x == SubSeq(t, k, Len(t))
             y == SubSeq(s, k + 1, Len(s))
  <2>1. \A i \in k..Len(t) : t[i] \in Byte
    BY <1>1, <1>2, <1>3, AnElement
  <2>2. x \in Seq(Byte) /\ Len(x) = (IF k =< Len(t) THEN Len(t) - k + 1 ELSE 0)
        /\ \A i \in 1..(Len(t) - k + 1) : x[i] = t[k + i - 1]
    BY <1>1, <1>2, <1>3, <2>1, SubSeqIs
  <2>3. \A i \in (k + 1)..Len(s) : s[i] \in Byte
    BY <1>2, <1>3, AnElement
  <2>4. y \in Seq(Byte) /\ Len(y) = (IF k + 1 =< Len(s) THEN Len(s) - (k + 1) + 1 ELSE 0)
        /\ \A i \in 1..(Len(s) - (k + 1) + 1) : y[i] = s[(k + 1) + i - 1]
    BY <1>2, <1>3, <2>3, SubSeqIs
  <2> HIDE DEF x, y
  <2>5. Len(x) = Len(s) - k /\ Len(y) = Len(s) - k
    BY <1>1, <1>2, <1>3, <2>2, <2>4, SMTT(30)
  <2>6. ASSUME NEW i \in 1..Len(x) PROVE x[i] = y[i]
    <3>0. Len(t) = Len(s) - 1 /\ Len(s) \in Nat /\ k \in 1..Len(s)
      BY <1>1, <1>2, <1>3, SMTT(30)
    <3>1. x[i] = t[k + i - 1] /\ k + i - 1 \in 1..Len(t)
      <4>1. i \in 1..(Len(t) - k + 1) /\ k + i - 1 \in 1..Len(t)
        BY <2>5, <3>0
      <4> QED
        BY <2>2, <4>1, Zenon
    <3>2. t[k + i - 1] = s[k + i]
      BY <1>1, <1>3, <3>1, SMTT(30)
    <3>3. y[i] = s[k + i]
      BY <1>2, <1>3, <2>4, <2>5, SMTT(30)
    <3> QED
      BY <3>1, <3>2, <3>3, Zenon
  <2>7. x = y
    BY <2>2, <2>4, <2>5, <2>6, SameSeq, Zenon
  <2> QED
    BY <2>7, Zenon DEF x, y
<1>6. Append(g, Head(s)) \o SubSeq(t, 1, k - 1) = g \o a
  BY <1>4, MoveHead, Zenon
<1>7. k - 1 + 1 = k
  BY <1>3
<1> QED
  BY <1>3, <1>5, <1>6, <1>7, Zenon DEF k, t

\* The arguments a spinning call was made with are still in its registers.
CallArgs ==
  \A c \in Cpu : /\ pc[c] = "write_spin" => todo[c] \in Msg
                 /\ pc[c] = "read_spin" => want[c] \in Lengths

\* Nobody changes the arguments of a call that spins on rb->lock.
LEMMA NextCallArgs == RingInv /\ CallArgs /\ [RingNext]_ringvars => CallArgs'
<1> SUFFICES ASSUME RingInv, CallArgs, [RingNext]_ringvars PROVE CallArgs'
  BY Zenon
<1> USE DEF RingInv, TypeOK, CallArgs, Spinning, Holding
<1>1. ASSUME NEW c \in Cpu, Call(c) PROVE CallArgs'
  BY <1>1 DEF Call, CallWrite, CallRead, CallReset
<1>2. ASSUME NEW c \in Cpu, Acquire(c) PROVE CallArgs'
  BY <1>2, Zenon DEF Acquire
<1>3. ASSUME NEW c \in Cpu, InLock(c) PROVE CallArgs'
  BY <1>3, Zenon DEF InLock, WriteByte, WriteDone, ReadByte, ReadDone, ResetDone
<1>4. CASE UNCHANGED ringvars
  BY <1>4, Zenon DEF ringvars
<1> QED
  BY <1>1, <1>2, <1>3, <1>4, Zenon DEF RingNext

\* The abstract queue while a CPU is in a __lock block.
LEMMA QueueOf ==
  ASSUME RingInv, NEW c \in Cpu, lock = c
  PROVE  /\ pc[c] = "write" => AbsQueue = LastN(Content \o todo[c], Size)
         /\ pc[c] = "read" => AbsQueue = SubSeq(Content, Len(Pending(c)) + 1, Len(Content))
         /\ pc[c] = "reset" => AbsQueue = <<>>
BY FreeAssumption, Zenon DEF AbsQueue

\* A step that a caller of the abstract queue cannot see.
Same == AbsQueue' = AbsQueue /\ AbsResult' = AbsResult

\* What the holder of the lock has still to read.
LEMMA PendingProperties ==
  ASSUME RingInv, NEW c \in Cpu
  PROVE  /\ Pending(c) \in Seq(Byte) /\ Len(Pending(c)) = Cut(Content, want[c])
         /\ Pending(c) = SubSeq(Content, 1, Cut(Content, want[c]))
<1>0. Content \in Seq(Byte)
  BY ContentProperties, Zenon DEF ContentIs
<1>1. PICK q \in Seq(Byte) : q = Content
  BY <1>0, Zenon
<1>2. PICK n \in Nat : n = want[c]
  BY Zenon DEF RingInv, TypeOK
<1>3. PICK k \in 0..Len(q) : k = Cut(q, n)
  BY <1>1, <1>2 DEF Cut
<1>4. \A i \in 1..k : q[i] \in Byte
  BY <1>3
<1>5. SubSeq(q, 1, k) \in Seq(Byte) /\ Len(SubSeq(q, 1, k)) = k
  BY <1>3, <1>4, SubSeqIs
<1>6. Pending(c) = SubSeq(Content, 1, Cut(Content, want[c]))
  BY Zenon DEF Pending, Cut
<1> QED
  BY <1>1, <1>2, <1>3, <1>5, <1>6, Zenon

\* Entering a function of ringbuffer.c changes nothing a caller can see.
LEMMA CallsStutter ==
  ASSUME RingInv, NEW c \in Cpu, Call(c)
  PROVE  Same
<1>1. lock # c /\ pc[c] = "idle" /\ UNCHANGED <<ring, lock, got>>
  BY Zenon DEF RingInv, LockOwner, Holding, Call, CallWrite, CallRead, CallReset
<1>2. /\ \A d \in Cpu \ {c} : pc'[d] = pc[d] /\ todo'[d] = todo[d] /\ want'[d] = want[d]
      /\ pc'[c] # "read"
  BY Zenon DEF RingInv, TypeOK, Call, CallWrite, CallRead, CallReset
<1>3. Content' = Content
  BY <1>1, Zenon DEF Content, Available, ring
<1>4. \A d \in Cpu \ {c} : Pending(d)' = Pending(d)
  BY <1>2, <1>3, Zenon DEF Pending
<1>5. AbsQueue' = AbsQueue
  <2>1. CASE lock = Free
    BY <1>1, <1>3, <2>1, Zenon DEF AbsQueue
  <2>2. CASE lock # Free
    <3>1. lock \in Cpu \ {c}
      BY <1>1, <2>2, Zenon DEF RingInv, TypeOK
    <3>2. pc'[lock'] = pc[lock] /\ todo'[lock'] = todo[lock] /\ Pending(lock)' = Pending(lock)
      BY <3>1, <1>1, <1>2, <1>3, Zenon DEF Pending
    <3> QED
      BY <1>1, <1>3, <2>2, <3>2, Zenon DEF AbsQueue
  <2> QED
    BY <2>1, <2>2, Zenon
<1>6. AbsResult' = AbsResult
  BY <1>1, <1>2, <1>4, Zenon DEF AbsResult
<1> QED
  BY <1>5, <1>6, Zenon DEF Same

\* The step that gets rb->lock is the whole abstract call.
LEMMA AcquireIsCall ==
  ASSUME RingInv, RingInv', CallArgs, NEW c \in Cpu, Acquire(c)
  PROVE  Abs!Next
<1>1. lock = Free /\ lock' = c /\ pc[c] \in Spinning /\ UNCHANGED <<ring, todo, want>>
  BY Zenon DEF Acquire, LockFree
<1>2. Content' = Content /\ AbsQueue = Content /\ Content \in Seq(Byte)
  BY <1>1, ContentProperties, Zenon DEF Content, Available, ring, AbsQueue, ContentIs
<1>3. \A d \in Cpu : Pending(d)' = Pending(d)
  BY <1>1, <1>2, Zenon DEF Pending
<1>4. pc \in [Cpu -> {"idle"} \cup Spinning \cup Holding] /\ got \in [Cpu -> Seq(Byte)]
  BY Zenon DEF RingInv, TypeOK
<1>5. CASE pc[c] = "write_spin"
  <2>1. pc' = [pc EXCEPT ![c] = "write"] /\ got' = got
    BY <1>5, Zenon DEF Acquire
  <2>2. AbsQueue' = LastN(Content \o todo[c], Size)
    BY <1>1, <1>2, <1>4, <2>1, FreeAssumption, Zenon DEF AbsQueue
  <2>3. AbsResult' = AbsResult
    BY <1>3, <1>4, <1>5, <2>1, Zenon DEF AbsResult
  <2>4. todo[c] \in Abs!Msg
    BY <1>5, Zenon DEF CallArgs, Msg, Abs!Msg
  <2>5. Abs!Write(todo[c])
    BY <1>2, <2>2, <2>3, Zenon DEF Abs!Write, Abs!LastN, LastN
  <2> QED
    BY <2>4, <2>5, Zenon DEF Abs!Next
<1>6. CASE pc[c] = "read_spin"
  <2>1. pc' = [pc EXCEPT ![c] = "read"] /\ got' = [got EXCEPT ![c] = <<>>]
    BY <1>6, Zenon DEF Acquire
  <2> DEFINE k == Abs!Least(want[c], Len(Content))
  <2>2. k = Cut(Content, want[c])
    BY Zenon DEF Abs!Least, Cut
  <2>3. AbsQueue' = SubSeq(Content, k + 1, Len(Content))
    <3>1. AbsQueue' = SubSeq(Content, Len(Pending(c)) + 1, Len(Content))
      BY <1>1, <1>2, <1>3, <1>4, <2>1, FreeAssumption, Zenon DEF AbsQueue
    <3> QED
      BY <2>2, <3>1, PendingProperties, Zenon
  <2>4. AbsResult' = [AbsResult EXCEPT ![c] = SubSeq(Content, 1, k)]
    <3>1. AbsResult'[c] = <<>> \o Pending(c)
      BY <1>3, <1>4, <2>1, Zenon DEF AbsResult
    <3>2. AbsResult'[c] = SubSeq(Content, 1, k)
      BY <2>2, <3>1, PendingProperties, ConcatEmpty, Zenon
    <3> QED
      BY <1>3, <1>4, <2>1, <3>2, Zenon DEF AbsResult
  <2>5. Abs!Read(c, want[c])
    BY <1>2, <2>3, <2>4, Zenon DEF Abs!Read
  <2>6. want[c] \in Lengths
    BY <1>6, Zenon DEF CallArgs
  <2> QED
    BY <2>5, <2>6, Zenon DEF Abs!Next
<1>7. CASE pc[c] = "reset_spin"
  <2>1. pc' = [pc EXCEPT ![c] = "reset"] /\ got' = got
    BY <1>7, Zenon DEF Acquire
  <2>2. AbsQueue' = <<>>
    BY <1>1, <1>4, <2>1, FreeAssumption, Zenon DEF AbsQueue
  <2>3. AbsResult' = AbsResult
    BY <1>3, <1>4, <1>7, <2>1, Zenon DEF AbsResult
  <2> QED
    BY <2>2, <2>3, Zenon DEF Abs!Next, Abs!Reset
<1> QED
  BY <1>1, <1>5, <1>6, <1>7, Zenon DEF Spinning

\* While one CPU is in a __lock block no other is.
LEMMA HolderOnly ==
  ASSUME RingInv, NEW c \in Cpu, pc[c] \in Holding
  PROVE  lock = c /\ lock # Free /\ \A d \in Cpu \ {c} : pc[d] \notin Holding
BY FreeAssumption, Zenon DEF RingInv, LockOwner

\* The steps under rb->lock, byte by byte, and its release change nothing more.
LEMMA InLockStutters ==
  ASSUME RingInv, RingInv', NEW c \in Cpu, InLock(c)
  PROVE  Same
<1>1. pc[c] \in Holding
  BY Zenon DEF InLock, WriteByte, WriteDone, ReadByte, ReadDone, ResetDone, Holding
<1>2. lock = c /\ lock # Free /\ \A d \in Cpu \ {c} : pc[d] # "read"
  BY <1>1, HolderOnly, Zenon DEF Holding
<1>3. Content \in Seq(Byte) /\ Len(Content) \in Nat /\ Len(Content) =< Size /\ ContentIs
  BY ContentProperties, SizeAssumption DEF ContentIs
<1>4. pc \in [Cpu -> {"idle"} \cup Spinning \cup Holding] /\ todo \in [Cpu -> Seq(Byte)]
      /\ want \in [Cpu -> Nat] /\ got \in [Cpu -> Seq(Byte)]
  BY Zenon DEF RingInv, TypeOK
<1>5. CASE WriteByte(c)
  <2>1. pc[c] = "write" /\ todo[c] # <<>> /\ lock' = lock /\ pc' = pc /\ got' = got
        /\ todo'[c] = Tail(todo[c])
    BY <1>4, <1>5, Zenon DEF WriteByte
  <2>2. Head(todo[c]) \in Byte /\ Tail(todo[c]) \in Seq(Byte)
    BY <1>4, <2>1, HeadTailIs, Zenon
  <2>3. Content' = LastN(Append(Content, Head(todo[c])), Size)
    BY <1>5, <2>2, ContentAfterWrite, Zenon DEF WriteByte
  <2>4. AbsQueue' = LastN(Content' \o Tail(todo[c]), Size)
    BY <1>2, <2>1, Zenon DEF AbsQueue
  <2>5. Append(Content, Head(todo[c])) \in Seq(Byte)
    BY <1>3, <2>2, AppendIs, Zenon
  <2>6. AbsQueue' = LastN(Append(Content, Head(todo[c])) \o Tail(todo[c]), Size)
    BY <2>2, <2>3, <2>4, <2>5, LastNConcat, SizeAssumption, Zenon
  <2>7. AbsQueue' = AbsQueue
    BY <1>2, <1>3, <1>4, <2>1, <2>6, MoveHead, QueueOf, Zenon
  <2>8. AbsResult' = AbsResult
    BY <1>2, <2>1, Zenon DEF AbsResult
  <2> QED
    BY <2>7, <2>8, Zenon DEF Same
<1>6. CASE WriteDone(c)
  <2>1. pc[c] = "write" /\ todo[c] = <<>> /\ lock' = Free /\ pc' = [pc EXCEPT ![c] = "idle"]
        /\ UNCHANGED <<ring, got>>
    BY <1>6, Zenon DEF WriteDone, Unlock
  <2>2. Content' = Content
    BY <2>1, Zenon DEF Content, Available, ring
  <2>3. AbsQueue = LastN(Content, Size)
    BY <1>2, <1>3, <2>1, QueueOf, ConcatEmpty, Zenon
  <2>4. LastN(Content, Size) = Content
    BY <1>3, Zenon DEF LastN
  <2>5. AbsQueue' = Content
    BY <2>1, <2>2, Zenon DEF AbsQueue
  <2>6. AbsResult' = AbsResult
    BY <1>2, <1>4, <2>1, Zenon DEF AbsResult
  <2> QED
    BY <2>3, <2>4, <2>5, <2>6, Zenon DEF Same
<1>7. CASE ReadByte(c)
  <2>1. pc[c] = "read" /\ want[c] \in Nat \ {0} /\ lock' = lock /\ pc' = pc
        /\ got' = [got EXCEPT ![c] = Append(@, buffer[tail])]
        /\ want'[c] = want[c] - 1
    BY <1>4, <1>7 DEF ReadByte
  <2>2. Content # <<>> /\ Head(Content) = buffer[tail] /\ Content' = Tail(Content)
    BY <1>7, ContentAfterRead, Zenon DEF ReadByte, FullAfterTake
  <2> DEFINE k == Cut(Tail(Content), want[c] - 1)
  <2>3. Pending(c)' = SubSeq(Tail(Content), 1, k)
    BY <2>1, <2>2, Zenon DEF Pending, Cut
  <2>4. Len(Pending(c)') = k
    <3>1. Tail(Content) \in Seq(Byte) /\ Len(Tail(Content)) \in Nat
      BY <1>3, <2>2, HeadTailIs
    <3>2. k \in 0..Len(Tail(Content))
      BY <2>1, <3>1 DEF Cut
    <3>3. \A i \in 1..k : Tail(Content)[i] \in Byte
      BY <3>1, <3>2, AnElement
    <3> QED
      BY <2>3, <3>2, <3>3, SubSeqIs
  <2>5. AbsQueue' = SubSeq(Tail(Content), k + 1, Len(Tail(Content)))
    <3>1. AbsQueue' = SubSeq(Content', Len(Pending(c)') + 1, Len(Content'))
      BY <1>2, <2>1, Zenon DEF AbsQueue
    <3> QED
      BY <2>2, <2>4, <3>1, Zenon
  <2>6. AbsQueue = SubSeq(Content, Cut(Content, want[c]) + 1, Len(Content))
    BY <1>2, <2>1, QueueOf, PendingProperties, Zenon
  <2>7. AbsResult'[c] = Append(got[c], Head(Content)) \o SubSeq(Tail(Content), 1, k)
    BY <1>4, <2>1, <2>2, <2>3, Zenon DEF AbsResult
  <2>8. AbsResult[c] = got[c] \o SubSeq(Content, 1, Cut(Content, want[c]))
    BY <2>1, PendingProperties, Zenon DEF AbsResult
  <2>9. AbsQueue' = AbsQueue /\ AbsResult'[c] = AbsResult[c]
    BY <1>3, <1>4, <2>1, <2>2, <2>5, <2>6, <2>7, <2>8, TakeHead, Zenon
  <2>10. \A d \in Cpu \ {c} : AbsResult'[d] = AbsResult[d]
    BY <1>2, <1>4, <2>1, Zenon DEF AbsResult
  <2>11. AbsResult' = AbsResult
    BY <2>9, <2>10, Zenon DEF AbsResult
  <2> QED
    BY <2>9, <2>11, Zenon DEF Same
<1>8. CASE ReadDone(c)
  <2>1. pc[c] = "read" /\ (want[c] = 0 \/ IsEmpty) /\ lock' = Free
        /\ pc' = [pc EXCEPT ![c] = "idle"] /\ UNCHANGED <<ring, got>>
    BY <1>8, Zenon DEF ReadDone, Unlock
  <2>2. Content' = Content
    BY <2>1, Zenon DEF Content, Available, ring
  <2>3. Cut(Content, want[c]) = 0
    <3>1. IsEmpty => Len(Content) = 0
      BY <1>3 DEF ContentIs, IsEmpty, Available, RingInv, TypeOK, Index
    <3> QED
      BY <1>3, <1>4, <2>1, <3>1 DEF Cut
  <2>4. Pending(c) = <<>> /\ Len(Pending(c)) = 0
    BY <2>3, PendingProperties, SubSeqNone
  <2>5. AbsQueue = SubSeq(Content, 1, Len(Content))
    BY <1>2, <2>1, <2>4, QueueOf
  <2>6. AbsQueue' = AbsQueue
    BY <1>3, <2>1, <2>2, <2>5, SubSeqAll, Zenon DEF AbsQueue
  <2>7. AbsResult[c] = got[c]
    BY <1>4, <2>1, <2>4, ConcatEmpty DEF AbsResult
  <2>8. AbsResult' = AbsResult
    BY <1>2, <1>4, <2>1, <2>7, Zenon DEF AbsResult
  <2> QED
    BY <2>6, <2>8, Zenon DEF Same
<1>9. CASE ResetDone(c)
  <2>1. pc[c] = "reset" /\ lock' = Free /\ pc' = [pc EXCEPT ![c] = "idle"] /\ got' = got
        /\ head' = 0 /\ tail' = 0 /\ full' = FALSE
    BY <1>9, Zenon DEF ResetDone, Unlock
  <2>2. Content' = <<>>
    <3>1. Available' = 0
      BY <2>1 DEF Available
    <3>2. ContentIs'
      BY ContentProperties, PTL
    <3> QED
      BY <3>1, <3>2 DEF ContentIs
  <2>3. AbsQueue' = AbsQueue
    BY <1>2, <2>1, <2>2, QueueOf, Zenon DEF AbsQueue
  <2>4. AbsResult' = AbsResult
    BY <1>2, <1>4, <2>1, Zenon DEF AbsResult
  <2> QED
    BY <2>3, <2>4, Zenon DEF Same
<1> QED
  BY <1>5, <1>6, <1>7, <1>8, <1>9, Zenon DEF InLock

\* A ring made by ringbuffer_create is an empty queue.
LEMMA InitRefines == RingInit => Abs!Init
<1> SUFFICES ASSUME RingInit PROVE Abs!Init
  BY Zenon
<1>1. RingInv
  BY InitRingInv, Zenon
<1>2. Content \in Seq(Byte) /\ Len(Content) = 0
  BY <1>1, ContentProperties DEF RingInit, ContentIs, Available
<1>3. AbsQueue = <<>>
  BY <1>2 DEF RingInit, AbsQueue
<1>4. AbsResult = [c \in Cpu |-> <<>>]
  BY Zenon DEF RingInit, AbsResult
<1> QED
  BY <1>3, <1>4, Zenon DEF Abs!Init

\* Every step of every CPU is a call of the abstract queue or invisible.
LEMMA StepRefines ==
  ASSUME RingInv, RingInv', CallArgs, [RingNext]_ringvars
  PROVE  [Abs!Next]_<<AbsQueue, AbsResult>>
<1>1. ASSUME NEW c \in Cpu, Call(c) PROVE Same
  BY <1>1, CallsStutter, Zenon
<1>2. ASSUME NEW c \in Cpu, Acquire(c) PROVE Abs!Next
  BY <1>2, AcquireIsCall, Zenon
<1>3. ASSUME NEW c \in Cpu, InLock(c) PROVE Same
  BY <1>3, InLockStutters, Zenon
<1>4. CASE UNCHANGED ringvars
  <2>1. Content' = Content
    BY <1>4, Zenon DEF ringvars, Content, Available
  <2>2. AbsQueue' = AbsQueue /\ AbsResult' = AbsResult
    BY <1>4, <2>1, Zenon DEF ringvars, AbsQueue, AbsResult, Pending
  <2> QED
    BY <2>2, Zenon
<1> QED
  BY <1>1, <1>2, <1>3, <1>4, Zenon DEF RingNext, Same

\* Each call of the ring buffer is atomic, for every ring size, any number of CPUs and
\* every length of a call: the byte loops of ringbuffer_write and ringbuffer_read
\* implement the queue of AtomicRing.
THEOREM RingIsAtomic == RingSpec => AtomicCalls
<1>1. RingInit => CallArgs
  BY Zenon DEF RingInit, CallArgs
<1>2. RingInv /\ CallArgs /\ [RingNext]_ringvars => RingInv' /\ CallArgs'
  BY NextRingInv, NextCallArgs, Zenon
<1>3. RingInv /\ RingInv' /\ CallArgs /\ [RingNext]_ringvars => [Abs!Next]_<<AbsQueue, AbsResult>>
  BY StepRefines, Zenon
<1> QED
  BY <1>1, <1>2, <1>3, InitRingInv, InitRefines, PTL DEF RingSpec, AtomicCalls, Abs!Spec
=============================================================================
